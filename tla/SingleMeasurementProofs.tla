---------------------- MODULE SingleMeasurementProofs ----------------------
(***************************************************************************)
(* Theorems about one measurement, as main.c runs it: the GUI's request is *)
(* the only one, and every ADC handler has finished when the next tick     *)
(* comes.  They hold for any number of strips, any select pins, any window *)
(* length and any set of strips the request may switch on.                 *)
(***************************************************************************)
EXTENDS MeasurementProofs

\* The GUI sends one line, and the ADC handlers keep up with CTIMER2.
OneMeasurement == TicksOnTime /\ PowerSources \subseteq {FALSE} /\ Len(Requests) <= 1

-----------------------------------------------------------------------------
(* The inductive invariant.                                                *)

\* No window has ended and no conversion has been started.
Quiet ==
  /\ current_active_strip_index = 0 /\ currentCountIndex = 0
  /\ sum = [a \in ADC |-> EmptySum]
  /\ Total_adc_summation = NoTotal
  /\ V_sens_strip_values = [s \in Strips |-> NoValue]
  /\ conv = [a \in ADC |-> Idle]
  /\ fifo = [a \in ADC |-> <<>>]
  /\ isr = NoIsr

NoResults == resistance_array = [s \in Strips |-> NoResult]

\* Where main() is, and what it has done by then.
OrderInv ==
  /\ ModbusFlag = FALSE /\ pc # "set"
  /\ accepted = 0 => pc = "read" /\ ~timerOn
  /\ pc \in Starting \cup Restoring => timerOn
  /\ timerOn => pc \in Starting \cup Restoring \cup {"read"}
  /\ timerOn \/ pc \in {"resetC", "readyC", "stop", "start"} => adcOn["V"]
  /\ timerOn \/ pc \in {"stop", "start"} => adcOn["C"]
  /\ ~timerOn \/ pc \in Starting => Quiet
  /\ ~timerOn \/ pc # "read" => NoResults

\* The strip count and the list agree with the strips switched on.
ListInv ==
  /\ pc = "count" => g_strip_count = Cardinality(ActiveBelow(k))
  /\ timerOn \/ pc \in Choosing \cup Preparing =>
       g_strip_count = Cardinality(active_strips)
  /\ pc = "fill" => k < MAX_STRIP_COUNT /\ Listed(k)
  /\ timerOn \/ pc \in Preparing => Listed(MAX_STRIP_COUNT)

\* The multiplexer is being moved to the first active strip, pin by pin, and
\* then follows the index.
PinInv ==
  /\ pc = "gpio" => k \in MuxPins
  /\ pc = "select" =>
       /\ k \in MuxPins
       /\ \A w \in MuxPins : w < k => mux[w] = Bit(FirstActiveStrip, w)
  /\ pc \in {"free", "fill"} \cup Preparing => mux = PinsOf(FirstActiveStrip)
  /\ timerOn /\ g_strip_count # 0 =>
       /\ current_active_strip_index < Len(active_strip_indices)
       /\ mux = PinsOf(active_strip_indices[current_active_strip_index + 1])

\* What is outstanding has been triggered in this window, except for the
\* result of the tick that closed the one before.
SampleInv ==
  \E late \in {0, 1} :
    /\ \A a \in ADC : Outstanding(a) = currentCountIndex + late
    /\ late = 0 => Total_adc_summation.windows = 0

\* The total holds one window for each strip before the running one's, and
\* only the first window of all is one result short.
TotalInv ==
  LET w == Total_adc_summation.windows
  IN /\ w = current_active_strip_index
     /\ Total_adc_summation.conversions \in
          IF w = 0 THEN {0} ELSE {SoftwareAverageCount * w - 1, SoftwareAverageCount * w}

\* Only the oldest result of a window may come from another strip.
OwnInv ==
  /\ isr.adc = "V" => isr.pins = mux \/ sum["V"].n = 0
  /\ \A i \in 1 .. Len(fifo["V"]) :
       fifo["V"][i] = mux \/ (i = 1 /\ sum["V"].n = 0 /\ isr.adc # "V")
  /\ \/ conv["V"] \in {Idle, mux}
     \/ fifo["V"] = <<>> /\ isr.adc # "V" /\ sum["V"].n = 0
  /\ TrackPins => \A s \in Strips :
       mux = PinsOf(s) => sum["V"].on[s] >= sum["V"].n - 1

StoredInv == RoundsComplete /\ (TrackPins => WindowsBelongToStrip)

DataInv  == SampleInv /\ HandlerInv /\ TotalInv /\ OwnInv /\ StoredInv
SetupInv == OrderInv /\ ListInv /\ PinInv

SingleInv == TypeInv /\ SetupInv /\ DataInv

-----------------------------------------------------------------------------
(* main() and the request: with one measurement only, every statement that *)
(* initialises something finds it as the program start has left it.        *)

USE DEF param_vars, index_vars, data_vars, hw_vars, sampler_vars, main_vars, vars

Sampled == <<index_vars, sum, Total_adc_summation, V_sens_strip_values,
             resistance_array, conv, fifo, isr>>

\* Modbus_UpdateParameters does not run: the strips were set before they are counted.
LEMMA CountsOnly ==
  ASSUME OrderInv
  PROVE  /\ ~SetStrip
         /\ ZeroCount => Goto("count")
         /\ CountStrip => NextStrip("plate")
  BY DEF OrderInv, SetStrip, ZeroCount, CountStrip, NextStrip, At

\* The request, main()'s statements and their effect on what is measured.
LEMMA MainKeepsOrder ==
  ASSUME OneMeasurement, TypeInv, OrderInv, Receive \/ Main
  PROVE  OrderInv' /\ UNCHANGED Sampled
<1>1. /\ ModbusFlag = FALSE
      /\ Len(Requests) <= 1 /\ accepted \in 0 .. Len(Requests) /\ Len(Requests) \in Nat
  BY LenProperties, RequestsAssumption DEF OrderInv, OneMeasurement, TypeInv, TypeOK
<1>2. ~timerOn => Quiet /\ NoResults
  BY DEF OrderInv
<1>3. ASSUME UNCHANGED Sampled PROVE (Quiet => Quiet') /\ (NoResults => NoResults')
  BY <1>3 DEF Sampled, Quiet, NoResults
<1>4. ASSUME NEW loc, At(loc), accepted = 0, loc # "read" PROVE FALSE
  BY <1>4 DEF At, OrderInv
<1>5. CASE Receive
  <2>1. accepted = 0 /\ accepted' = 1 /\ ~timerOn /\ UNCHANGED sampler_vars
    BY <1>1, <1>5 DEF Receive, OrderInv
  <2>2. pc' = "clear" /\ ModbusFlag' = FALSE
    BY <1>1, <1>5 DEF Receive, Goto
  <2>3. UNCHANGED Sampled
    BY <2>1 DEF Sampled
  <2> QED
    BY <1>2, <1>3, <2>1, <2>2, <2>3 DEF OrderInv, Starting, Restoring
<1> DEFINE Early == {"clear", "parse", "store", "zeroCount", "count", "plate", "gpio",
                     "select", "free", "fill", "resetV", "read", "returned"}
\* The statements before the converters are touched.
<1>6. ASSUME pc \in Early \ {"read", "returned", "resetV"}, pc' \in Early,
             UNCHANGED <<ModbusFlag, accepted, timerOn, adcOn>>, UNCHANGED Sampled
      PROVE  OrderInv'
  <2>1. ~timerOn /\ accepted # 0
    BY <1>6 DEF OrderInv, Starting, Restoring
  <2> QED
    BY <1>2, <1>3, <1>6, <2>1 DEF OrderInv, Starting, Restoring
<1>7. ASSUME NEW loc, NextStrip(loc) PROVE pc' \in {pc, loc}
  BY <1>7 DEF NextStrip, Goto
<1>8. ASSUME NEW loc, NEW k0, NextPin(loc, k0) PROVE pc' \in {pc, loc}
  BY <1>8 DEF NextPin
<1>9. CASE ClearStrip \/ ParseLine \/ StoreStrip \/ ZeroCount \/ CountStrip
           \/ InitPlate \/ InitMuxPin \/ SelectFirstPin \/ AllocateIndices \/ FillIndex
  <2>1. /\ pc \in Early \ {"read", "returned", "resetV"}
        /\ UNCHANGED <<ModbusFlag, accepted, timerOn, adcOn>>
    BY <1>9 DEF ClearStrip, ParseLine, StoreStrip, ZeroCount, CountStrip, InitPlate,
       InitMuxPin, SelectFirstPin, AllocateIndices, FillIndex, At
  <2>2. UNCHANGED Sampled
    BY <1>9 DEF ClearStrip, ParseLine, StoreStrip, ZeroCount, CountStrip, InitPlate,
       InitMuxPin, SelectFirstPin, AllocateIndices, FillIndex, Sampled
  <2>3. pc' \in Early
    BY <1>7, <1>8, <1>9, CountsOnly DEF ClearStrip, ParseLine, StoreStrip, ZeroCount,
       CountStrip, InitPlate, InitMuxPin, SelectFirstPin, AllocateIndices, FillIndex, At,
       Goto
  <2> QED
    BY <1>6, <2>1, <2>2, <2>3
<1>10. ASSUME NEW a \in ADC, NEW loc \in {"resetV", "resetC"}, NEW next,
              ResetAdc(a, loc, next),
              <<a, loc, next>> \in {<<"V", "resetV", "readyV">>, <<"C", "resetC", "readyC">>}
       PROVE  OrderInv' /\ UNCHANGED Sampled
  <2>1. pc = loc /\ ~timerOn /\ accepted # 0
    BY <1>10 DEF ResetAdc, At, OrderInv, Starting, Restoring
  <2>2. conv' = conv /\ fifo' = fifo
    BY <1>2, <1>10, <2>1 DEF ResetAdc, Quiet
  <2>3. UNCHANGED Sampled
    BY <1>10, <2>2 DEF ResetAdc, Sampled
  <2>4. /\ pc' = next /\ UNCHANGED <<ModbusFlag, accepted, timerOn>>
        /\ a = "C" => adcOn'["V"] = adcOn["V"]
    BY <1>10 DEF ResetAdc, At, Goto, TypeInv, TypeOK, ADC
  <2> QED
    BY <1>2, <1>3, <1>10, <2>1, <2>3, <2>4 DEF OrderInv, Starting, Restoring
<1>11. ASSUME NEW a \in ADC, NEW loc, NEW next, ReadyAdc(a, loc, next),
              <<a, loc, next>> \in {<<"V", "readyV", "resetC">>, <<"C", "readyC", "stop">>}
       PROVE  OrderInv' /\ UNCHANGED Sampled
  <2>1. pc = loc /\ ~timerOn /\ accepted # 0
    BY <1>11 DEF ReadyAdc, At, OrderInv, Starting, Restoring
  <2>2. UNCHANGED Sampled
    BY <1>11 DEF ReadyAdc, Sampled
  <2>3. /\ pc' = next /\ UNCHANGED <<ModbusFlag, accepted, timerOn>>
        /\ adcOn'[a]
        /\ a = "C" => adcOn'["V"] = adcOn["V"]
    BY <1>11 DEF ReadyAdc, At, Goto, TypeInv, TypeOK, ADC
  <2> QED
    BY <1>2, <1>3, <1>11, <2>1, <2>2, <2>3 DEF OrderInv, Starting, Restoring
<1>12. CASE StopTimer \/ StartTimer
  <2>1. /\ pc \in {"stop", "start"} /\ ~timerOn /\ accepted # 0 /\ accepted' = accepted
        /\ \/ pc = "stop" /\ pc' = "start" /\ ~timerOn'
           \/ pc = "start" /\ pc' = "index0" /\ timerOn'
        /\ UNCHANGED <<ModbusFlag, adcOn>>
    BY <1>12 DEF StopTimer, StartTimer, At, Goto, OrderInv, Starting, Restoring
  <2>2. UNCHANGED Sampled
    BY <1>12 DEF StopTimer, StartTimer, Sampled
  <2> QED
    BY <1>2, <1>3, <2>1, <2>2 DEF OrderInv, Starting, Restoring
<1>13. CASE ResetIndex \/ ResetCount
  <2>1. /\ pc \in Starting /\ timerOn /\ accepted # 0
        /\ pc' \in {"count0", "timestamp"}
        /\ UNCHANGED <<ModbusFlag, accepted, timerOn, adcOn>>
    BY <1>13 DEF ResetIndex, ResetCount, At, Goto, OrderInv, Starting
  <2>2. Quiet /\ NoResults
    BY <2>1 DEF OrderInv, Starting
  <2>3. UNCHANGED Sampled
    BY <1>13, <2>2 DEF ResetIndex, ResetCount, Quiet, Sampled
  <2> QED
    BY <1>3, <2>1, <2>2, <2>3 DEF OrderInv, Starting, Restoring
<1>14. CASE TimestampInit \/ ZeroResistance
  <2>1. /\ pc \in Restoring /\ timerOn /\ accepted # 0
        /\ pc' \in {"zero", "read"}
        /\ UNCHANGED <<ModbusFlag, accepted, timerOn, adcOn>>
    BY <1>7, <1>14 DEF TimestampInit, ZeroResistance, At, Goto, OrderInv, Restoring
  <2>2. NoResults
    BY <2>1 DEF OrderInv, Restoring
  <2>3. resistance_array' = resistance_array
    BY <1>14, <2>2 DEF TimestampInit, ZeroResistance, Zeroed, NoResults
  <2>4. UNCHANGED Sampled
    BY <1>14, <2>3 DEF TimestampInit, ZeroResistance, Sampled
  <2> QED
    BY <1>3, <2>1, <2>2, <2>4 DEF OrderInv, Starting, Restoring
<1>15. CASE ADC_Voltage_Initialize \/ ADC_Current_Initialize
  BY <1>10, <1>11, <1>15 DEF ADC_Voltage_Initialize, ADC_Current_Initialize, ADC
<1> QED
  BY <1>5, <1>9, <1>12, <1>13, <1>14, <1>15, CountsOnly DEF Main

\* Which of main()'s loops is running bounds their variable.
LEMMA MainKeepsLists ==
  ASSUME OneMeasurement, TypeInv, OrderInv, ListInv, Receive \/ Main
  PROVE  ListInv'
<1>1. active_strips \subseteq Strips /\ active_strip_indices \in Seq(Strips) /\ k \in Nat
  BY DEF TypeInv, TypeOK
<1>2. MAX_STRIP_COUNT \in Nat \ {0}
  BY StripsAssumption
<1> DEFINE Off == {"read", "returned", "clear", "parse", "store", "zeroCount"}
<1>3. ASSUME ~timerOn', pc' \in Off PROVE ListInv'
  BY <1>3 DEF ListInv, Choosing, Preparing
<1>4. CASE Receive \/ ClearStrip \/ ParseLine \/ StoreStrip
  <2>1. pc' \in Off
    BY <1>4 DEF Receive, ClearStrip, ParseLine, StoreStrip, NextStrip, At, Goto, OrderInv
  <2>2. ~timerOn'
    BY <1>4, MainKeepsOrder, <2>1 DEF Receive, ClearStrip, ParseLine, StoreStrip,
       OrderInv, At, Starting, Restoring, OneMeasurement, TypeInv, TypeOK
  <2> QED
    BY <1>3, <2>1, <2>2
<1>5. CASE ZeroCount
  <2>1. pc' = "count" /\ k' = 0 /\ g_strip_count' = 0 /\ ~timerOn'
    BY <1>5, CountsOnly DEF ZeroCount, At, Goto, OrderInv, Starting, Restoring
  <2>2. ActiveBelow(k)' = {}
    <3>1. ActiveBelow(k)' = ActiveBelow(0)
      BY <1>5, <2>1 DEF ZeroCount, ActiveBelow
    <3> QED
      BY <1>1, <3>1, BelowEnds
  <2>3. Cardinality({}) = 0
    BY FS_EmptySet
  <2> QED
    BY <2>1, <2>2, <2>3 DEF ListInv, Choosing, Preparing
<1>6. CASE CountStrip
  <2>1. /\ pc = "count" /\ k < MAX_STRIP_COUNT /\ active_strips' = active_strips
        /\ ~timerOn' /\ g_strip_count = Cardinality(ActiveBelow(k))
        /\ g_strip_count' = g_strip_count + IF k \in active_strips THEN 1 ELSE 0
    BY <1>6 DEF CountStrip, At, OrderInv, ListInv, Starting, Restoring, TypeInv,
       CountBounded
  <2>2. g_strip_count' = Cardinality(ActiveBelow(k + 1))
    BY <1>1, <2>1, BelowStep
  <2>3. CASE k + 1 < MAX_STRIP_COUNT
    <3>1. pc' = "count" /\ k' = k + 1
      BY <1>6, <2>1, <2>3, CountsOnly DEF NextStrip
    <3>2. ActiveBelow(k)' = ActiveBelow(k + 1)
      BY <2>1, <3>1 DEF ActiveBelow
    <3> QED
      BY <2>1, <2>2, <3>1, <3>2 DEF ListInv, Choosing, Preparing
  <2>4. CASE ~(k + 1 < MAX_STRIP_COUNT)
    <3>1. pc' = "plate" /\ k + 1 = MAX_STRIP_COUNT
      BY <1>1, <1>2, <1>6, <2>1, <2>4, CountsOnly DEF NextStrip, Goto
    <3>2. g_strip_count' = Cardinality(active_strips)
      BY <1>1, <2>2, <3>1, BelowEnds
    <3> QED
      BY <2>1, <3>1, <3>2 DEF ListInv, Choosing, Preparing
  <2> QED
    BY <2>3, <2>4
<1>7. CASE InitPlate \/ InitMuxPin \/ SelectFirstPin
  <2>1. /\ pc \in {"plate", "gpio", "select"}
        /\ pc' \in {"plate", "gpio", "select", "free", "read", "returned"}
        /\ ~timerOn' /\ UNCHANGED param_vars
    BY <1>7 DEF InitPlate, InitMuxPin, SelectFirstPin, At, NextPin, Goto, OrderInv,
       Starting, Restoring
  <2> QED
    BY <2>1 DEF ListInv, Choosing, Preparing
<1>8. CASE AllocateIndices
  <2>1. /\ pc = "free" /\ pc' = "fill" /\ k' = 0 /\ ~timerOn'
        /\ active_strip_indices' = <<>> /\ UNCHANGED <<active_strips, g_strip_count>>
    BY <1>8 DEF AllocateIndices, At, Goto, OrderInv, Starting, Restoring
  <2>2. Len(active_strip_indices') = 0
    BY <2>1
  <2>3. ActiveBelow(k)' = {} /\ Cardinality({}) = 0
    <3>1. ActiveBelow(k)' = ActiveBelow(0)
      BY <2>1 DEF ActiveBelow
    <3> QED
      BY <1>1, <3>1, BelowEnds, FS_EmptySet
  <2>4. Listed(k)'
    BY <2>2, <2>3 DEF Listed
  <2> QED
    BY <1>2, <2>1, <2>4 DEF ListInv, Choosing, Preparing
<1>9. CASE FillIndex
  <2>1. /\ pc = "fill" /\ k < MAX_STRIP_COUNT /\ Listed(k) /\ ~timerOn'
        /\ g_strip_count = Cardinality(active_strips)
        /\ UNCHANGED <<active_strips, g_strip_count>>
    BY <1>9 DEF FillIndex, At, OrderInv, ListInv, Starting, Restoring, Choosing
  <2>2. k \in Strips
    BY <1>1, <1>2, <2>1 DEF Strips
  <2>3. \A n \in Strips : n = k => Listed(n + 1)'
    <3> SUFFICES ASSUME NEW n \in Strips, n = k PROVE Listed(n + 1)'
      OBVIOUS
    <3>1. active_strip_indices' =
            active_strip_indices \o IF n \in active_strips THEN <<n>> ELSE <<>>
      BY <1>9 DEF FillIndex
    <3> QED
      BY <1>1, <2>1, <3>1, ListedStep
  <2>4. PICK n \in Strips : n = k
    BY <2>2
  <2>5. CASE n + 1 < MAX_STRIP_COUNT
    <3>1. pc' = "fill" /\ k' = n + 1
      BY <1>9, <2>1, <2>4, <2>5 DEF FillIndex, NextStrip
    <3>2. Listed(k)'
      BY <2>3, <2>4, <3>1 DEF Listed, ActiveBelow
    <3> QED
      BY <2>1, <2>5, <3>1, <3>2 DEF ListInv, Choosing, Preparing
  <2>6. CASE ~(n + 1 < MAX_STRIP_COUNT)
    <3>1. pc' = "resetV" /\ n + 1 = MAX_STRIP_COUNT
      BY <1>1, <1>2, <1>9, <2>1, <2>4, <2>6 DEF FillIndex, NextStrip, Goto
    <3>2. Listed(MAX_STRIP_COUNT)'
      BY <2>3, <2>4, <3>1 DEF Listed, ActiveBelow
    <3> QED
      BY <2>1, <3>1, <3>2 DEF ListInv, Choosing, Preparing
  <2> QED
    BY <2>5, <2>6
<1>10. ASSUME timerOn \/ pc \in Preparing, UNCHANGED param_vars,
              pc' \notin {"count"} \cup Choosing
       PROVE  ListInv'
  <2>1. g_strip_count = Cardinality(active_strips) /\ Listed(MAX_STRIP_COUNT)
    BY <1>10 DEF ListInv
  <2>2. Listed(MAX_STRIP_COUNT)'
    BY <1>10, <2>1 DEF Listed, ActiveBelow
  <2> QED
    BY <1>10, <2>1, <2>2 DEF ListInv, Choosing
<1>11. CASE ADC_Voltage_Initialize \/ ADC_Current_Initialize \/ StopTimer \/ StartTimer
            \/ ResetIndex \/ ResetCount \/ TimestampInit \/ ZeroResistance
  <2>1. pc \in Preparing \cup Starting \cup Restoring /\ UNCHANGED param_vars
    BY <1>11 DEF ADC_Voltage_Initialize, ADC_Current_Initialize, ResetAdc, ReadyAdc,
       StopTimer, StartTimer, ResetIndex, ResetCount, TimestampInit, ZeroResistance, At,
       Preparing, Starting, Restoring
  <2>2. pc' \in Preparing \cup Starting \cup Restoring \cup {"read"}
    BY <1>11 DEF ADC_Voltage_Initialize, ADC_Current_Initialize, ResetAdc, ReadyAdc,
       StopTimer, StartTimer, ResetIndex, ResetCount, TimestampInit, ZeroResistance, At,
       Preparing, Starting, Restoring, Goto, NextStrip
  <2>3. timerOn \/ pc \in Preparing
    BY <2>1 DEF OrderInv
  <2>4. pc' \notin {"count"} \cup Choosing
    BY <2>2 DEF Preparing, Starting, Restoring, Choosing
  <2> QED
    BY <1>10, <2>1, <2>3, <2>4
<1> QED
  BY <1>4, <1>5, <1>6, <1>7, <1>8, <1>9, <1>11, CountsOnly DEF Main

\* InitMuxGpio and SelectMuxChannel drive every pin, S0 first, and nothing but
\* main() and the end of a window drives one.
LEMMA MainKeepsPins ==
  ASSUME OneMeasurement, TypeInv, OrderInv, ListInv, PinInv, Receive \/ Main
  PROVE  PinInv'
<1>1. active_strips \subseteq Strips /\ active_strip_indices \in Seq(Strips) /\ k \in Nat
  BY DEF TypeInv, TypeOK
<1> DEFINE Off == {"read", "returned", "clear", "parse", "store", "zeroCount", "count",
                   "plate"}
           Below == \A w \in MuxPins : w < k => mux[w] = Bit(FirstActiveStrip, w)
<1>2. ASSUME ~timerOn', pc' \in Off PROVE PinInv'
  BY <1>2 DEF PinInv, Preparing
<1>3. CASE Receive \/ ClearStrip \/ ParseLine \/ StoreStrip \/ ZeroCount \/ CountStrip
  <2>1. pc' \in Off
    BY <1>3, CountsOnly DEF Receive, ClearStrip, ParseLine, StoreStrip, ZeroCount,
       CountStrip, NextStrip, At, Goto, OrderInv
  <2>2. ~timerOn'
    BY <1>3, MainKeepsOrder, <2>1 DEF Receive, ClearStrip, ParseLine, StoreStrip,
       ZeroCount, CountStrip, OrderInv, At, Starting, Restoring, OneMeasurement, TypeInv,
       TypeOK
  <2> QED
    BY <1>2, <2>1, <2>2
<1>4. CASE InitPlate
  <2>1. ~timerOn' /\ (pc' \in Off \/ (pc' = "gpio" /\ k' = 1))
    BY <1>4 DEF InitPlate, At, Goto, OrderInv, Starting, Restoring
  <2>2. ASSUME ~timerOn', pc' = "gpio", k' = 1 PROVE PinInv'
    BY <2>2, WeightsAssumption DEF PinInv, Preparing
  <2> QED
    BY <1>2, <2>1, <2>2
<1>5. CASE InitMuxPin
  <2>1. /\ ~timerOn'
        /\ \/ pc' = "gpio" /\ k' \in MuxPins
           \/ pc' = "select" /\ k' = 1
    BY <1>5 DEF InitMuxPin, NextPin, At, OrderInv, Starting, Restoring
  <2>2. \A w \in MuxPins : ~ (w < 1)
    BY PinsAssumption
  <2> QED
    BY <2>1, <2>2, WeightsAssumption DEF PinInv, Preparing
<1>6. CASE SelectFirstPin
  <2>1. /\ ~timerOn' /\ pc = "select" /\ k \in MuxPins /\ Below
        /\ active_strips' = active_strips
        /\ mux' = [w \in MuxPins |-> IF w = k THEN Bit(FirstActiveStrip, w) ELSE mux[w]]
    BY <1>6 DEF SelectFirstPin, At, OrderInv, PinInv, Starting, Restoring
  <2>2. FirstActiveStrip' = FirstActiveStrip
    BY <2>1 DEF FirstActiveStrip
  <2>3. \A w \in MuxPins : w <= k => mux'[w] = Bit(FirstActiveStrip, w)
    BY <2>1, PinsAssumption
  <2>4. CASE 2 * k \in MuxPins
    <3>1. pc' = "select" /\ k' = 2 * k
      BY <1>6, <2>1, <2>4 DEF SelectFirstPin, NextPin
    <3>2. \A w \in MuxPins : w < 2 * k => w <= k
      BY <2>1, WeightsAssumption, PinsAssumption
    <3>3. \A w \in MuxPins : w < k' => mux'[w] = Bit(FirstActiveStrip, w)
      BY <2>3, <3>1, <3>2
    <3>4. \A w : Bit(FirstActiveStrip, w)' = Bit(FirstActiveStrip, w)
      BY <2>2 DEF Bit
    <3> QED
      BY <2>1, <2>4, <3>1, <3>3, <3>4 DEF PinInv, Preparing
  <2>5. CASE 2 * k \notin MuxPins
    <3>1. pc' = "free"
      BY <1>6, <2>1, <2>5 DEF SelectFirstPin, NextPin
    <3>2. \A w \in MuxPins : w <= k
      BY <2>1, <2>5, WeightsAssumption, PinsAssumption
    <3>3. mux' = PinsOf(FirstActiveStrip)
      BY <2>1, <2>3, <3>2 DEF PinsOf
    <3>4. PinsOf(FirstActiveStrip)' = PinsOf(FirstActiveStrip)
      BY <2>2 DEF PinsOf, Bit
    <3> QED
      BY <2>1, <3>1, <3>3, <3>4 DEF PinInv, Preparing
  <2> QED
    BY <2>4, <2>5
<1>7. ASSUME UNCHANGED active_strips
      PROVE  PinsOf(FirstActiveStrip)' = PinsOf(FirstActiveStrip)
  BY <1>7 DEF FirstActiveStrip, PinsOf, Bit
<1>8. CASE AllocateIndices \/ FillIndex \/ ADC_Voltage_Initialize
           \/ ADC_Current_Initialize \/ StopTimer
  <2>1. /\ pc \in {"free", "fill"} \cup Preparing
        /\ pc' \in {"free", "fill"} \cup Preparing
        /\ UNCHANGED <<active_strips, mux>>
    BY <1>8 DEF AllocateIndices, FillIndex, ADC_Voltage_Initialize,
       ADC_Current_Initialize, ResetAdc, ReadyAdc, StopTimer, At, Goto, NextStrip,
       Preparing
  <2>2. ~timerOn'
    BY <1>8 DEF AllocateIndices, FillIndex, ADC_Voltage_Initialize,
       ADC_Current_Initialize, ResetAdc, ReadyAdc, StopTimer, At, OrderInv, Starting,
       Restoring
  <2> QED
    BY <1>7, <2>1, <2>2 DEF PinInv, Preparing
<1>9. CASE StartTimer
  <2>1. /\ pc = "start" /\ pc' = "index0" /\ ~timerOn
        /\ UNCHANGED <<param_vars, mux, current_active_strip_index>>
    BY <1>9 DEF StartTimer, At, Goto, OrderInv, Starting, Restoring
  <2>2. /\ mux = PinsOf(FirstActiveStrip) /\ Listed(MAX_STRIP_COUNT)
        /\ g_strip_count = Cardinality(active_strips)
        /\ current_active_strip_index = 0
    BY <2>1 DEF PinInv, ListInv, OrderInv, Quiet, Preparing
  <2>3. Len(active_strip_indices) = g_strip_count
    BY <1>1, <2>2, BelowEnds DEF Listed
  <2>4. g_strip_count # 0 => active_strip_indices[1] = FirstActiveStrip
    BY <1>1, <2>2, <2>3, FirstIsListed
  <2>5. Len(active_strip_indices) \in Nat
    BY <1>1, LenProperties
  <2>6. g_strip_count # 0 =>
          /\ current_active_strip_index < Len(active_strip_indices)
          /\ mux = PinsOf(active_strip_indices[current_active_strip_index + 1])
    BY <2>2, <2>3, <2>4, <2>5
  <2> QED
    BY <2>1, <2>6 DEF PinInv, Preparing, PinsOf, Bit
<1>10. CASE ResetIndex \/ ResetCount \/ TimestampInit \/ ZeroResistance
  <2>1. /\ timerOn /\ pc' \in Starting \cup Restoring \cup {"read"}
        /\ UNCHANGED <<timerOn, mux, param_vars>>
    BY <1>10 DEF ResetIndex, ResetCount, TimestampInit, ZeroResistance, At, Goto,
       NextStrip, OrderInv, Starting, Restoring
  <2>2. current_active_strip_index' = current_active_strip_index
    BY <1>10, MainKeepsOrder DEF Main, Sampled
  <2> QED
    BY <2>1, <2>2 DEF PinInv, Preparing, PinsOf, Bit, Starting, Restoring
<1> QED
  BY <1>3, <1>4, <1>5, <1>6, <1>8, <1>9, <1>10, CountsOnly DEF Main

\* What is measured has not begun when main() moves the multiplexer.
LEMMA MainKeepsData ==
  ASSUME OneMeasurement, TypeInv, SetupInv, DataInv, Receive \/ Main
  PROVE  DataInv'
<1>1. UNCHANGED Sampled
  BY MainKeepsOrder DEF SetupInv
<1>2. SampleInv' /\ HandlerInv' /\ TotalInv' /\ RoundsComplete' /\ UNCHANGED V_sens_strip_values
  BY <1>1 DEF Sampled, DataInv, SampleInv, Outstanding, HandlerInv, TotalInv, StoredInv,
     RoundsComplete
<1>3. StoredInv'
  BY <1>2 DEF DataInv, StoredInv, WindowsBelongToStrip
<1>4. CASE mux' = mux
  <2>1. OwnInv'
    BY <1>1, <1>4 DEF DataInv, OwnInv, Sampled, PinsOf, Bit
  <2> QED
    BY <1>2, <1>3, <2>1 DEF DataInv
<1>5. CASE mux' # mux
  <2>1. InitMuxPin \/ SelectFirstPin
    BY <1>5 DEF Receive, Main, ClearStrip, ParseLine, StoreStrip, ZeroCount, SetStrip,
       CountStrip, InitPlate, AllocateIndices, FillIndex, ADC_Voltage_Initialize,
       ADC_Current_Initialize, ResetAdc, ReadyAdc, StopTimer, StartTimer, ResetIndex,
       ResetCount, TimestampInit, ZeroResistance
  <2>2. Quiet
    BY <2>1 DEF InitMuxPin, SelectFirstPin, At, SetupInv, OrderInv, Starting, Restoring
  <2>3. /\ isr'.adc # "V" /\ conv'["V"] = Idle /\ Len(fifo'["V"]) = 0
        /\ sum'["V"] = EmptySum
    BY <1>1, <2>2 DEF Sampled, Quiet, NoIsr, ADC
  <2>4. EmptySum.n = 0 /\ \A s \in Strips : EmptySum.on[s] = 0
    BY DEF EmptySum
  <2>5. OwnInv'
    BY <2>3, <2>4 DEF OwnInv
  <2> QED
    BY <1>2, <1>3, <2>5 DEF DataInv
<1> QED
  BY <1>4, <1>5

-----------------------------------------------------------------------------
(* The interrupt handlers.                                                 *)

\* Before the timer starts there is nothing for a handler to do, and the indices
\* are reset before the first tick.
LEMMA HandlersRun ==
  ASSUME TypeInv, SetupInv, OneMeasurement, Tock \/ AdcSteps
  PROVE  /\ timerOn /\ pc \notin Starting /\ ModbusFlag = FALSE
         /\ TickClosesWindow /\ Tock => pc = "read"
         /\ UNCHANGED <<main_vars, param_vars, timerOn, adcOn>>
<1>1. UNCHANGED <<main_vars, param_vars, timerOn, adcOn>>
  BY DEF Tock, AdcSteps, CTIMER2_IRQHandler, TickNoStrips, TickWithinWindow,
     TickClosesWindow, Convert, AdcHandlerLoad, AdcHandlerStore
<1>2. Tock => timerOn /\ pc \notin Starting
  BY DEF Tock, CTIMER2_IRQHandler, TickNoStrips, TickWithinWindow, TickClosesWindow,
     Tick, InitialisedOnTime, OneMeasurement, Starting
<1>3. AdcSteps => ~Quiet
  BY DEF AdcSteps, Convert, AdcHandlerLoad, AdcHandlerStore, Quiet, Idle, NoIsr, ADC
<1>4. timerOn /\ pc \notin Starting
  BY <1>2, <1>3 DEF SetupInv, OrderInv
<1>5. TickClosesWindow /\ Tock => pc = "read"
  <2>1. currentCountIndex \in Int /\ SoftwareAverageCount \in Int
    BY AverageAssumption DEF TypeInv, TypeOK
  <2> QED
    BY <1>4, <2>1 DEF Tock, TickClosesWindow, WindowOver, InitialisedOnTime,
       OneMeasurement, SetupInv, OrderInv, Starting, Restoring
<1> QED
  BY <1>1, <1>4, <1>5 DEF SetupInv, OrderInv

\* With one measurement the list always is what WindowCloses asks for.
LEMMA ClosingTick ==
  ASSUME TypeInv, SetupInv, DataInv, OneMeasurement, Tock, TickClosesWindow
  PROVE  /\ g_strip_count \in Nat \ {0} /\ Len(active_strip_indices) = g_strip_count
         /\ current_active_strip_index \in 0 .. g_strip_count - 1
         /\ NextIndex \in 0 .. g_strip_count - 1
         /\ mux' = PinsOf(active_strip_indices[NextIndex + 1])
         /\ active_strip_indices[current_active_strip_index + 1] \in Strips
         /\ V_sens_strip_values' =
              [V_sens_strip_values EXCEPT
                 ![active_strip_indices[current_active_strip_index + 1]] =
                   [n |-> sum["V"].n, time |-> g_timestamp_ms,
                    own |-> sum["V"].on[active_strip_indices[current_active_strip_index + 1]]]]
         /\ IF NextIndex = 0
              THEN /\ resistance_array' =
                        calculate_resistance_array(V_sens_strip_values', TotalWithWindow)
                   /\ Total_adc_summation' = NoTotal
              ELSE /\ Total_adc_summation' = TotalWithWindow
                   /\ UNCHANGED resistance_array
<1>1. timerOn /\ ModbusFlag = FALSE
  BY HandlersRun
<1>2. g_strip_count # 0
  BY <1>1 DEF TickClosesWindow
<1>3. /\ Listed(MAX_STRIP_COUNT) /\ g_strip_count = Cardinality(active_strips)
      /\ current_active_strip_index < Len(active_strip_indices)
  BY <1>1, <1>2 DEF SetupInv, ListInv, PinInv
<1> QED
  BY <1>2, <1>3, WindowCloses

\* Handlers leave the parameters alone, and only the end of a window moves the
\* multiplexer: to the strip that is next.
LEMMA HandlersKeepSetup ==
  ASSUME TypeInv, SetupInv, DataInv, OneMeasurement, Tock \/ AdcSteps
  PROVE  SetupInv'
<1>1. /\ timerOn /\ pc \notin Starting /\ ModbusFlag = FALSE
      /\ UNCHANGED <<main_vars, param_vars, timerOn, adcOn>>
  BY HandlersRun
<1>2. CASE Tock /\ TickClosesWindow
  <2>1. pc = "read"
    BY <1>2, HandlersRun
  <2>2. OrderInv'
    BY <1>1, <2>1 DEF SetupInv, OrderInv, Starting, Restoring
  <2>3. ListInv'
    BY <1>1 DEF SetupInv, ListInv, Listed, ActiveBelow
  <2>4. /\ current_active_strip_index' = NextIndex
        /\ NextIndex \in 0 .. g_strip_count - 1 /\ Len(active_strip_indices) = g_strip_count
        /\ g_strip_count \in Nat
        /\ mux' = PinsOf(active_strip_indices[NextIndex + 1])
    BY <1>2, ClosingTick DEF TickClosesWindow
  <2>5. current_active_strip_index' < Len(active_strip_indices)
    BY <2>4
  <2>6. PinInv'
    BY <1>1, <2>1, <2>4, <2>5 DEF PinInv, Preparing, PinsOf, Bit
  <2> QED
    BY <2>2, <2>3, <2>6 DEF SetupInv
<1>3. CASE ~ (Tock /\ TickClosesWindow)
  <2>1. UNCHANGED <<current_active_strip_index, mux, resistance_array>>
    BY <1>3 DEF Tock, AdcSteps, CTIMER2_IRQHandler, TickNoStrips, TickWithinWindow,
       Convert, AdcHandlerLoad, AdcHandlerStore
  <2>2. OrderInv'
    BY <1>1, <2>1 DEF SetupInv, OrderInv, Starting, Restoring, NoResults
  <2>3. ListInv'
    BY <1>1 DEF SetupInv, ListInv, Listed, ActiveBelow
  <2>4. PinInv'
    BY <1>1, <2>1 DEF SetupInv, PinInv, Preparing, PinsOf, Bit, FirstActiveStrip
  <2> QED
    BY <2>2, <2>3, <2>4 DEF SetupInv
<1> QED
  BY <1>2, <1>3

\* The end of a conversion and the ADC handlers pass results on, oldest first.
LEMMA AdcKeepsData ==
  ASSUME TypeInv, SetupInv, DataInv, OneMeasurement, AdcSteps
  PROVE  DataInv'
<1>1. SampleInv' /\ TotalInv' /\ StoredInv'
  BY AdcKeepsOutstanding DEF DataInv, SampleInv, TotalInv, StoredInv, RoundsComplete,
     WindowsBelongToStrip
<1>2. HandlerInv'
  BY HandlerInvStep DEF DataInv, OneMeasurement, Next
<1>3. /\ sum \in [ADC -> Sums] /\ fifo \in [ADC -> Seq(Pins)]
      /\ conv \in [ADC -> Pins \cup {Idle}]
      /\ isr \in [adc : ADC \cup {"none"}, pins : Pins, base : Sums]
  BY DEF TypeInv, TypeOK
<1>4. \A a \in ADC : Len(fifo[a]) \in Nat /\ sum[a].n \in Nat
  BY <1>3, LenProperties DEF Sums
<1>5. ASSUME NEW a \in ADC, Convert(a) PROVE OwnInv'
  <2>1. PICK pins \in IF a = "V" THEN {conv[a], mux} ELSE {PinsOf(0)} :
             fifo' = [fifo EXCEPT ![a] = Append(@, pins)]
    BY <1>5 DEF Convert
  <2>2. conv[a] \in Pins /\ conv[a] # Idle
    BY <1>3, <1>5 DEF Convert
  <2>3. pins \in Pins
    BY <2>1, <2>2, PinsOfType DEF TypeInv, TypeOK
  <2>4. /\ Len(fifo'[a]) = Len(fifo[a]) + 1
        /\ \A i \in 1 .. Len(fifo[a]) : fifo'[a][i] = fifo[a][i]
        /\ fifo'[a][Len(fifo[a]) + 1] = pins
    BY <1>3, <2>1, <2>3, AppendProperties
  <2>5. /\ conv' = [conv EXCEPT ![a] = Idle]
        /\ UNCHANGED <<sum, isr, index_vars, data_vars, mux>>
    BY <1>5 DEF Convert
  <2> QED
    <3>1. CASE a = "C"
      <4>1. fifo'["V"] = fifo["V"] /\ conv'["V"] = conv["V"]
        BY <1>3, <2>1, <2>5, <3>1 DEF ADC
      <4> QED
        BY <2>5, <4>1 DEF DataInv, OwnInv, PinsOf, Bit
    <3>2. CASE a = "V"
      <4>1. conv'["V"] = Idle
        BY <1>3, <2>5, <3>2
      <4>2. ASSUME NEW i \in 1 .. Len(fifo'["V"])
            PROVE  fifo'["V"][i] = mux \/ (i = 1 /\ sum["V"].n = 0 /\ isr.adc # "V")
        <5>1. CASE i \in 1 .. Len(fifo["V"])
          BY <2>4, <3>2, <5>1 DEF DataInv, OwnInv
        <5>2. CASE i = Len(fifo["V"]) + 1
          <6>1. fifo'["V"][i] = pins
            BY <2>4, <3>2, <5>2
          <6>2. pins = mux \/ pins = conv["V"]
            BY <2>1, <3>2
          <6>3. fifo["V"] = <<>> => i = 1
            BY <5>2
          <6> QED
            BY <2>2, <3>2, <6>1, <6>2, <6>3 DEF DataInv, OwnInv
        <5> QED
          BY <1>4, <2>4, <3>2, <5>1, <5>2
      <4> QED
        BY <2>5, <4>1, <4>2 DEF DataInv, OwnInv, PinsOf, Bit
    <3> QED
      BY <3>1, <3>2 DEF ADC
<1>6. ASSUME NEW a \in ADC, AdcHandlerLoad(a) PROVE OwnInv'
  <2>1. /\ isr = NoIsr /\ fifo[a] \in Seq(Pins) /\ fifo[a] # <<>>
        /\ isr' = [adc |-> a, pins |-> Head(fifo[a]), base |-> sum[a]]
        /\ fifo' = [fifo EXCEPT ![a] = Tail(@)]
        /\ UNCHANGED <<index_vars, data_vars, mux, conv>>
    BY <1>3, <1>6 DEF AdcHandlerLoad
  <2>2. /\ Len(fifo'[a]) = Len(fifo[a]) - 1 /\ Len(fifo[a]) >= 1
        /\ \A i \in 1 .. Len(fifo'[a]) : fifo'[a][i] = fifo[a][i + 1]
        /\ Head(fifo[a]) = fifo[a][1]
    <3>1. fifo'[a] = Tail(fifo[a])
      BY <1>3, <2>1
    <3>2. Len(fifo[a]) # 0
      BY <2>1, EmptySeq
    <3> QED
      <4> DEFINE f == fifo[a]
      <4>1. f \in Seq(Pins) /\ f # <<>> /\ Len(f) \in Nat /\ Len(f) # 0
        BY <1>4, <2>1, <3>2
      <4> HIDE DEF f
      <4>2. /\ Len(Tail(f)) = Len(f) - 1 /\ Head(f) = f[1] /\ Len(f) >= 1
            /\ \A i \in 1 .. Len(f) - 1 : Tail(f)[i] = f[i + 1]
        BY <4>1, HeadTailProperties
      <4>3. fifo'[a] = Tail(f)
        BY <3>1 DEF f
      <4> QED
        BY <4>2, <4>3 DEF f
  <2>3. NoIsr.adc = "none"
    BY DEF NoIsr
  <2> QED
    <3>1. CASE a = "C"
      <4>1. fifo'["V"] = fifo["V"] /\ isr.adc # "V" /\ isr'.adc # "V"
        BY <1>3, <2>1, <2>3, <3>1 DEF ADC
      <4> QED
        BY <2>1, <4>1 DEF DataInv, OwnInv, PinsOf, Bit
    <3>2. CASE a = "V"
      <4>1. isr.adc # "V"
        BY <2>1, <2>3
      <4>2. isr'.pins = mux \/ sum["V"].n = 0
        BY <2>1, <2>2, <3>2 DEF DataInv, OwnInv
      <4>3. ASSUME NEW i \in 1 .. Len(fifo'["V"]) PROVE fifo'["V"][i] = mux
        <5>1. i + 1 \in 1 .. Len(fifo["V"]) /\ i + 1 # 1
          BY <1>4, <2>2, <3>2, <4>3 DEF ADC
        <5> QED
          BY <2>2, <3>2, <4>3, <5>1 DEF DataInv, OwnInv
      <4>4. conv["V"] \in {Idle, mux}
        BY <2>1, <3>2 DEF DataInv, OwnInv
      <4> QED
        BY <2>1, <4>2, <4>3, <4>4 DEF DataInv, OwnInv, PinsOf, Bit
    <3> QED
      BY <3>1, <3>2 DEF ADC
<1>7. ASSUME AdcHandlerStore PROVE OwnInv'
  <2> DEFINE a == isr.adc
  <2>1. a \in ADC /\ isr.base = sum[a]
    BY <1>7 DEF AdcHandlerStore, DataInv, HandlerInv
  <2>2. /\ sum' = [sum EXCEPT ![a] = Add(a, sum[a], isr.pins)] /\ isr' = NoIsr
        /\ UNCHANGED <<index_vars, Total_adc_summation, V_sens_strip_values,
                       resistance_array, mux, conv, fifo>>
    BY <1>7, <2>1 DEF AdcHandlerStore
  <2>3. /\ sum'[a] = Add(a, sum[a], isr.pins)
        /\ \A b \in ADC : b # a => sum'[b] = sum[b]
    BY <1>3, <2>1, <2>2
  <2>4. sum'[a].n = sum[a].n + 1
    BY <2>3 DEF Add
  <2>5. isr'.adc = "none"
    BY <2>2 DEF NoIsr
  <2> QED
    <3>1. CASE a = "C"
      <4>1. sum'["V"] = sum["V"] /\ isr.adc # "V" /\ isr'.adc # "V"
        BY <2>3, <2>5, <3>1 DEF ADC
      <4> QED
        BY <2>2, <4>1 DEF DataInv, OwnInv, PinsOf, Bit
    <3>2. CASE a = "V"
      <4>1. sum'["V"].n = sum["V"].n + 1 /\ sum["V"].n \in Nat /\ isr'.adc # "V"
        BY <1>4, <2>4, <2>5, <3>2 DEF ADC
      <4>2. /\ \A i \in 1 .. Len(fifo["V"]) : fifo["V"][i] = mux
            /\ conv["V"] \in {Idle, mux}
            /\ isr.pins = mux \/ sum["V"].n = 0
        BY <3>2 DEF DataInv, OwnInv
      <4>3. ASSUME TrackPins, NEW s \in Strips, mux = PinsOf(s)
            PROVE  sum'["V"].on[s] >= sum'["V"].n - 1
        <5>1. sum["V"].on[s] >= sum["V"].n - 1 /\ sum["V"].on[s] \in Nat
          BY <1>3, <4>3 DEF DataInv, OwnInv, Sums, ADC
        <5>2. sum'["V"].on[s] =
                sum["V"].on[s] + IF isr.pins = PinsOf(s) THEN 1 ELSE 0
          BY <2>3, <3>2, <4>3 DEF Add
        <5> QED
          <6> DEFINE n == sum["V"].n
                     own == sum["V"].on[s]
          <6>1. /\ n \in Nat /\ own \in Nat /\ own >= n - 1
                /\ sum'["V"].n = n + 1
            BY <4>1, <5>1
          <6>2. n = 0 \/ sum'["V"].on[s] = own + 1
            BY <4>2, <4>3, <5>2, <6>1
          <6>3. sum'["V"].on[s] \in {own, own + 1}
            BY <5>2, <6>1
          <6> HIDE DEF n, own
          <6> QED
            BY <6>1, <6>2, <6>3
      <4> QED
        BY <2>2, <4>1, <4>2, <4>3 DEF OwnInv, PinsOf, Bit
    <3> QED
      BY <2>1, <3>1, <3>2 DEF ADC
<1> QED
  BY <1>1, <1>2, <1>5, <1>6, <1>7 DEF AdcSteps, DataInv

\* A tick of a running measurement finds both converters triggered and idle, no
\* ADC handler at work and, at the end of a window, no result waiting.
LEMMA TickOnTime ==
  ASSUME TypeInv, SetupInv, OneMeasurement, Tock, ~TickNoStrips
  PROVE  /\ conv = [a \in ADC |-> Idle] /\ isr = NoIsr
         /\ TickClosesWindow => \A a \in ADC : Len(fifo[a]) = 0
         /\ conv' = [a \in ADC |-> IF a = "V" THEN mux ELSE PinsOf(0)]
         /\ \A a \in ADC : conv'[a] # Idle
         /\ g_strip_count # 0
<1>1. timerOn /\ ModbusFlag = FALSE
  BY HandlersRun
<1>2. adcOn["V"] /\ adcOn["C"]
  BY <1>1 DEF SetupInv, OrderInv
<1>3. Tick /\ TriggerBoth /\ g_strip_count # 0
  BY <1>1 DEF Tock, CTIMER2_IRQHandler, TickWithinWindow, TickClosesWindow
<1>4. conv' = [a \in ADC |-> IF a = "V" THEN mux ELSE PinsOf(0)]
  BY <1>2, <1>3 DEF TriggerBoth, ADC
<1>5. mux \in Pins /\ PinsOf(0) \in Pins
  BY PinsOfType DEF TypeInv, TypeOK
<1>6. \A a \in ADC : conv'[a] # Idle
  BY <1>4, <1>5, PinsAreNotIdle
<1>7. conv = [a \in ADC |-> Idle] /\ isr = NoIsr
  BY <1>3 DEF Tick, OneMeasurement, TypeInv, TypeOK
<1>8. ASSUME TickClosesWindow, NEW a \in ADC PROVE Len(fifo[a]) = 0
  <2>1. currentCountIndex # 0
    BY <1>8, AverageAssumption DEF TickClosesWindow, WindowOver, TypeInv, TypeOK
  <2>2. Len(fifo[a]) <= 0
    BY <1>3, <2>1 DEF Tick, BacklogLimit, RowsJustPrinted, OneMeasurement
  <2>3. Len(fifo[a]) \in Nat
    BY LenProperties DEF TypeInv, TypeOK
  <2> QED
    BY <2>2, <2>3
<1> QED
  BY <1>3, <1>4, <1>6, <1>7, <1>8

\* A window is averaged over the conversions of all its ticks but its own, and
\* over the one before it, if there was a window before it.
LEMMA WindowsAreFull ==
  ASSUME TypeInv, SetupInv, DataInv, OneMeasurement, Tock, TickClosesWindow
  PROVE  /\ \E late \in {0, 1} :
              /\ \A a \in ADC : sum[a].n = SoftwareAverageCount - 1 + late
              /\ late = 0 => Total_adc_summation.windows = 0
         /\ sum["V"].n # 0
<1>1. PICK late \in {0, 1} :
        /\ \A a \in ADC : Outstanding(a) = currentCountIndex + late
        /\ late = 0 => Total_adc_summation.windows = 0
  BY DEF DataInv, SampleInv
<1>2. currentCountIndex = SoftwareAverageCount - 1
  BY AverageAssumption DEF TickClosesWindow, WindowOver, TypeInv, TypeOK
<1>3. ~TickNoStrips
  <2>1. g_strip_count # 0
    BY HandlersRun DEF TickClosesWindow
  <2> QED
    BY <2>1 DEF TickNoStrips
<1>4. \A a \in ADC : Outstanding(a) = sum[a].n
  <2> TAKE a \in ADC
  <2>1. conv[a] = Idle /\ isr.adc # a /\ Len(fifo[a]) = 0
    BY <1>3, TickOnTime DEF NoIsr, ADC
  <2>2. sum[a].n \in Nat
    BY DEF TypeInv, TypeOK, Sums
  <2> QED
    BY <2>1, <2>2 DEF Outstanding
<1>5. \A a \in ADC : sum[a].n = SoftwareAverageCount - 1 + late
  BY <1>1, <1>2, <1>4
<1>6. sum["V"].n # 0
  BY <1>5, AverageAssumption DEF ADC
<1> QED
  BY <1>1, <1>5, <1>6

\* One more window of full length keeps the total what it should be.
LEMMA OneWindowMore ==
  ASSUME NEW N \in Nat, N > 1, NEW w \in Nat, NEW total, NEW late \in {0, 1},
         late = 0 => w = 0,
         total \in IF w = 0 THEN {0} ELSE {N * w - 1, N * w}
  PROVE  total + (N - 1 + late) \in {N * (w + 1) - 1, N * (w + 1)}
<1>1. N * (w + 1) = N * w + N /\ N * w \in Nat
  OBVIOUS
<1> DEFINE p == N * w
<1>2. w = 0 => p = 0
  OBVIOUS
<1>3. N * (w + 1) = p + N /\ p \in Nat
  BY <1>1
<1> HIDE DEF p
<1>4. total \in IF w = 0 THEN {0} ELSE {p - 1, p}
  BY DEF p
<1> QED
  BY <1>2, <1>3, <1>4

\* The end of a window moves its results on: to the strip, and to the total.
LEMMA ClosingKeepsData ==
  ASSUME TypeInv, SetupInv, DataInv, OneMeasurement, Tock, TickClosesWindow
  PROVE  DataInv'
<1> DEFINE w     == Total_adc_summation.windows
           total == Total_adc_summation.conversions
           i     == current_active_strip_index
           here  == active_strip_indices[i + 1]
           next  == active_strip_indices[NextIndex + 1]
<1>1. /\ g_strip_count \in Nat \ {0} /\ Len(active_strip_indices) = g_strip_count
      /\ i \in 0 .. g_strip_count - 1
      /\ mux' = PinsOf(next) /\ here \in Strips
      /\ V_sens_strip_values' =
           [V_sens_strip_values EXCEPT
              ![here] = [n |-> sum["V"].n, time |-> g_timestamp_ms,
                         own |-> sum["V"].on[here]]]
      /\ IF NextIndex = 0
           THEN /\ resistance_array' =
                     calculate_resistance_array(V_sens_strip_values', TotalWithWindow)
                /\ Total_adc_summation' = NoTotal
           ELSE /\ Total_adc_summation' = TotalWithWindow
                /\ UNCHANGED resistance_array
  BY ClosingTick
<1>2. ~TickNoStrips
  BY <1>1 DEF TickNoStrips
<1>3. /\ isr = NoIsr /\ \A a \in ADC : Len(fifo[a]) = 0
      /\ conv' = [a \in ADC |-> IF a = "V" THEN mux ELSE PinsOf(0)]
      /\ \A a \in ADC : conv'[a] # Idle
  BY <1>2, TickOnTime
<1>4. PICK late \in {0, 1} :
        /\ \A a \in ADC : sum[a].n = SoftwareAverageCount - 1 + late
        /\ late = 0 => w = 0
  BY WindowsAreFull
<1>5. /\ sum' = [a \in ADC |-> EmptySum] /\ currentCountIndex' = 0
      /\ current_active_strip_index' = NextIndex
      /\ UNCHANGED <<fifo, isr, active_strips, g_strip_count>>
  BY DEF TickClosesWindow
<1>6. NextIndex = IF i + 1 = g_strip_count THEN 0 ELSE i + 1
  BY <1>1, NextIndexWraps
<1>7. /\ w = i /\ w \in Nat
      /\ total \in IF w = 0 THEN {0}
                            ELSE {SoftwareAverageCount * w - 1, SoftwareAverageCount * w}
  BY DEF DataInv, TotalInv, TypeInv, TypeOK
<1>8. /\ TotalWithWindow.windows = w + 1
      /\ TotalWithWindow.conversions \in {SoftwareAverageCount * (w + 1) - 1,
                                          SoftwareAverageCount * (w + 1)}
  <2>1. TotalWithWindow.conversions = total + (SoftwareAverageCount - 1 + late)
    BY <1>4 DEF TotalWithWindow, ADC
  <2>2. total + (SoftwareAverageCount - 1 + late)
          \in {SoftwareAverageCount * (w + 1) - 1, SoftwareAverageCount * (w + 1)}
    <3> HIDE DEF w, total
    <3> QED
      BY <1>4, <1>7, OneWindowMore, AverageAssumption
  <2>3. TotalWithWindow.windows = w + 1
    BY DEF TotalWithWindow
  <2> QED
    BY <2>1, <2>2, <2>3
<1>9. SampleInv'
  <2>1. \A a \in ADC : sum'[a].n = 0
    BY <1>5 DEF EmptySum
  <2>2. \A a \in ADC : isr'.adc # a
    BY <1>3, <1>5 DEF NoIsr, ADC
  <2>3. \A a \in ADC : Outstanding(a)' = 1
    BY <1>3, <1>5, <2>1, <2>2 DEF Outstanding
  <2> QED
    BY <1>5, <2>3 DEF SampleInv
<1>10. HandlerInv'
  BY <1>3, <1>5 DEF HandlerInv, NoIsr, PinsOf, Bit
<1>11. TotalInv'
  <2>1. CASE NextIndex = 0
    BY <1>1, <1>5, <2>1 DEF TotalInv, NoTotal
  <2>2. CASE NextIndex # 0
    <3>1. Total_adc_summation' = TotalWithWindow /\ NextIndex = w + 1 /\ w + 1 # 0
      BY <1>1, <1>6, <1>7, <2>2
    <3> HIDE DEF w, total, i
    <3> QED
      BY <1>5, <1>8, <3>1 DEF TotalInv
  <2> QED
    BY <2>1, <2>2
<1>12. OwnInv'
  <2>1. Len(fifo'["V"]) = 0 /\ isr'.adc # "V" /\ fifo'["V"] = <<>>
    <3>1. fifo["V"] \in Seq(Pins) /\ Len(fifo["V"]) = 0
      BY <1>3 DEF TypeInv, TypeOK, ADC
    <3> QED
      BY <1>3, <1>5, <3>1, EmptySeq DEF NoIsr
  <2>2. sum'["V"].n = 0 /\ \A s \in Strips : sum'["V"].on[s] = 0
    BY <1>5 DEF EmptySum, ADC
  <2> QED
    BY <2>1, <2>2 DEF OwnInv
<1>13. RoundsComplete'
  <2> SUFFICES ASSUME NEW s \in Strips, resistance_array'[s] # NoResult
               PROVE  /\ resistance_array'[s].windows = resistance_array'[s].strips
                      /\ resistance_array'[s].conversions \in
                           {SoftwareAverageCount * resistance_array'[s].strips - 1,
                            SoftwareAverageCount * resistance_array'[s].strips}
    BY DEF RoundsComplete
  <2>1. CASE NextIndex = 0 /\ s \in active_strips
    <3>1. /\ resistance_array'[s].windows = TotalWithWindow.windows
          /\ resistance_array'[s].conversions = TotalWithWindow.conversions
          /\ resistance_array'[s].strips = g_strip_count
      BY <1>1, <2>1 DEF calculate_resistance_array, Divisor
    <3>2. g_strip_count = w + 1
      BY <1>1, <1>6, <1>7, <2>1
    <3> HIDE DEF w, total, i
    <3> QED
      BY <1>8, <3>1, <3>2
  <2>2. CASE ~ (NextIndex = 0 /\ s \in active_strips)
    <3>1. resistance_array'[s] = resistance_array[s]
      BY <1>1, <2>2 DEF calculate_resistance_array
    <3> QED
      BY <3>1 DEF DataInv, StoredInv, RoundsComplete
  <2> QED
    BY <2>1, <2>2
<1>14. TrackPins => WindowsBelongToStrip'
  <2> SUFFICES ASSUME TrackPins, NEW s \in Strips, V_sens_strip_values'[s] # NoValue
               PROVE  /\ V_sens_strip_values'[s].n
                           \in {SoftwareAverageCount - 1, SoftwareAverageCount}
                      /\ V_sens_strip_values'[s].own >= V_sens_strip_values'[s].n - 1
    BY DEF WindowsBelongToStrip
  <2>1. CASE s = here
    <3>1. mux = PinsOf(here)
      BY <1>1, HandlersRun DEF SetupInv, PinInv
    <3>2. V_sens_strip_values'[s].n = sum["V"].n
          /\ V_sens_strip_values'[s].own = sum["V"].on[s]
      BY <1>1, <2>1 DEF TypeInv, TypeOK
    <3>3. sum["V"].on[s] >= sum["V"].n - 1
      BY <2>1, <3>1 DEF DataInv, OwnInv
    <3>4. sum["V"].n \in {SoftwareAverageCount - 1, SoftwareAverageCount}
      BY <1>4, AverageAssumption DEF ADC
    <3> QED
      BY <3>2, <3>3, <3>4
  <2>2. CASE s # here
    <3>1. V_sens_strip_values'[s] = V_sens_strip_values[s]
      BY <1>1, <2>2 DEF TypeInv, TypeOK
    <3> QED
      BY <3>1 DEF DataInv, StoredInv, WindowsBelongToStrip
  <2> QED
    BY <2>1, <2>2
<1> QED
  BY <1>9, <1>10, <1>11, <1>12, <1>13, <1>14 DEF DataInv, StoredInv

\* Neither kind of tick of CTIMER2_IRQHandler miscounts samples or windows.
LEMMA TicksKeepData ==
  ASSUME TypeInv, SetupInv, DataInv, OneMeasurement, Tock
  PROVE  DataInv'
<1>1. CASE TickNoStrips
  BY <1>1 DEF TickNoStrips, DataInv, SampleInv, Outstanding, HandlerInv, TotalInv, OwnInv,
     StoredInv, RoundsComplete, WindowsBelongToStrip, PinsOf, Bit
<1>2. CASE TickWithinWindow /\ ~TickNoStrips
  <2>1. /\ conv = [a \in ADC |-> Idle] /\ isr = NoIsr
        /\ conv' = [a \in ADC |-> IF a = "V" THEN mux ELSE PinsOf(0)]
        /\ \A a \in ADC : conv'[a] # Idle
    BY <1>2, TickOnTime
  <2>2. /\ currentCountIndex' = currentCountIndex + 1
        /\ UNCHANGED <<current_active_strip_index, data_vars, mux, fifo, isr>>
    BY <1>2 DEF TickWithinWindow
  <2>3. \A a \in ADC : Outstanding(a)' = Outstanding(a) + 1
    <3> TAKE a \in ADC
    <3>1. sum[a].n \in Nat /\ Len(fifo[a]) \in Nat
      BY LenProperties DEF TypeInv, TypeOK, Sums
    <3>2. conv[a] = Idle /\ isr.adc # a
      BY <2>1 DEF NoIsr, ADC
    <3> QED
      BY <2>1, <2>2, <3>1, <3>2 DEF Outstanding
  <2>4. SampleInv'
    <3>1. PICK late \in {0, 1} :
            /\ \A a \in ADC : Outstanding(a) = currentCountIndex + late
            /\ late = 0 => Total_adc_summation.windows = 0
      BY DEF DataInv, SampleInv
    <3>2. \A a \in ADC : Outstanding(a)' = currentCountIndex' + late
      BY <2>2, <2>3, <3>1 DEF TypeInv, TypeOK
    <3> QED
      BY <2>2, <3>1, <3>2 DEF SampleInv
  <2>5. OwnInv'
    <3>1. conv'["V"] = mux
      BY <2>1 DEF ADC
    <3> QED
      BY <2>2, <3>1 DEF DataInv, OwnInv, PinsOf, Bit
  <2> QED
    BY <2>2, <2>4, <2>5 DEF DataInv, HandlerInv, TotalInv, StoredInv, RoundsComplete,
       WindowsBelongToStrip
<1> QED
  BY <1>1, <1>2, ClosingKeepsData DEF Tock, CTIMER2_IRQHandler

-----------------------------------------------------------------------------
(* The theorems.                                                           *)

\* Before the GUI's line has come, nothing is measured.
LEMMA SingleInvInit == OneMeasurement /\ Init => SingleInv
<1> SUFFICES ASSUME OneMeasurement, Init PROVE SingleInv
  OBVIOUS
<1>1. Quiet /\ NoResults /\ pc = "read" /\ ~timerOn /\ ModbusFlag = FALSE
  BY ModeAssumption DEF Init, SamplerInit, readPowerSource, OneMeasurement, Quiet,
     NoResults
<1>2. SetupInv
  BY <1>1 DEF SetupInv, OrderInv, ListInv, PinInv, Starting, Restoring, Choosing,
     Preparing
<1>3. /\ isr.adc = "none" /\ \A a \in ADC : conv[a] = Idle /\ fifo[a] = <<>>
      /\ \A a \in ADC : sum[a].n = 0 /\ \A s \in Strips : sum[a].on[s] = 0
  BY <1>1 DEF Quiet, NoIsr, EmptySum
<1>4. \A a \in ADC : Outstanding(a) = 0
  BY <1>3 DEF Outstanding, ADC
<1>5. SampleInv /\ HandlerInv /\ TotalInv
  BY <1>1, <1>4 DEF SampleInv, HandlerInv, TotalInv, Quiet, NoTotal
<1>6. OwnInv
  BY <1>3 DEF OwnInv, ADC
<1>7. StoredInv
  BY <1>1 DEF StoredInv, RoundsComplete, WindowsBelongToStrip, Quiet, NoResults
<1> QED
  BY <1>2, <1>5, <1>6, <1>7, TypeInvInit DEF SingleInv, DataInv

\* Every statement of main() and every handler keeps list, pins and sums together.
LEMMA SingleInvStep == OneMeasurement /\ SingleInv /\ [Next]_vars => SingleInv'
<1> SUFFICES ASSUME OneMeasurement, SingleInv, [Next]_vars PROVE SingleInv'
  OBVIOUS
<1>1. TypeInv /\ SetupInv /\ DataInv
  BY DEF SingleInv
<1>2. CASE Receive \/ Main
  BY <1>1, <1>2, MainKeepsTypes, MainKeepsOrder, MainKeepsLists, MainKeepsPins,
     MainKeepsData DEF SingleInv, SetupInv
<1>3. CASE Tock
  BY <1>1, <1>3, HandlersKeepTypes, HandlersKeepSetup, TicksKeepData DEF SingleInv
<1>4. CASE AdcSteps
  BY <1>1, <1>4, HandlersKeepTypes, HandlersKeepSetup, AdcKeepsData DEF SingleInv
<1>5. CASE UNCHANGED vars
  <2>1. TypeInv'
    BY <1>1, <1>5, TypeInvStutter
  <2>2. OrderInv'
    BY <1>1, <1>5 DEF SetupInv, OrderInv, Quiet, NoResults
  <2>3. ListInv'
    BY <1>1, <1>5 DEF SetupInv, ListInv, Listed, ActiveBelow
  <2>4. PinInv'
    BY <1>1, <1>5 DEF SetupInv, PinInv, PinsOf, Bit, FirstActiveStrip
  <2>5. DataInv'
    BY <1>1, <1>5 DEF DataInv, SampleInv, Outstanding, HandlerInv, TotalInv, OwnInv,
       StoredInv, RoundsComplete, WindowsBelongToStrip, PinsOf, Bit
  <2> QED
    BY <2>1, <2>2, <2>3, <2>4, <2>5 DEF SingleInv, SetupInv
<1> QED
  BY <1>2, <1>3, <1>4, <1>5 DEF Next

\* With one measurement and ticks on time, SingleInv holds throughout.
LEMMA SingleInvariant == OneMeasurement => (Spec => []SingleInv)
<1> SUFFICES ASSUME OneMeasurement PROVE Spec => []SingleInv
  OBVIOUS
<1>1. Init => SingleInv
  BY SingleInvInit
<1>2. SingleInv /\ [Next]_vars => SingleInv'
  BY SingleInvStep
<1> QED
  BY <1>1, <1>2, PTL DEF Spec

\* CTIMER2_IRQHandler and the ADC handlers lose no conversion and count none
\* twice, on either converter.
THEOREM NoSampleIsLost == OneMeasurement => (Spec => []SamplesConserved)
<1> SUFFICES ASSUME OneMeasurement PROVE Spec => []SamplesConserved
  OBVIOUS
<1>1. SingleInv => SamplesConserved
  BY DEF SingleInv, DataInv, SampleInv, SamplesConserved
<1> QED
  BY <1>1, SingleInvariant, PTL

\* A value CTIMER2_IRQHandler stores for a strip comes from that strip: of its
\* results all but one were taken while the multiplexer stood there.
THEOREM WindowsAreTheStripsOwn ==
  OneMeasurement /\ TrackPins => (Spec => []WindowsBelongToStrip)
<1> SUFFICES ASSUME OneMeasurement, TrackPins PROVE Spec => []WindowsBelongToStrip
  OBVIOUS
<1>1. SingleInv => WindowsBelongToStrip
  BY DEF SingleInv, DataInv, StoredInv
<1> QED
  BY <1>1, SingleInvariant, PTL

\* calculate_resistance_array divides by the current of exactly one round.
THEOREM EveryRoundIsComplete == OneMeasurement => (Spec => []RoundsComplete)
<1> SUFFICES ASSUME OneMeasurement PROVE Spec => []RoundsComplete
  OBVIOUS
<1>1. SingleInv => RoundsComplete
  BY DEF SingleInv, DataInv, StoredInv
<1> QED
  BY <1>1, SingleInvariant, PTL

\* The pins InitMuxGpio and SelectMuxChannel drive stand on the strip whose window
\* is running.
THEOREM MultiplexerFollows == OneMeasurement => (Spec => []MuxFollowsIndex)
<1> SUFFICES ASSUME OneMeasurement PROVE Spec => []MuxFollowsIndex
  OBVIOUS
<1>1. SingleInv => MuxFollowsIndex
  BY DEF SingleInv, SetupInv, PinInv, MuxFollowsIndex
<1> QED
  BY <1>1, SingleInvariant, PTL

-----------------------------------------------------------------------------
(* The measurement implements StripRounds.  The order appears when the     *)
(* timer starts, a window ends with TickClosesWindow, and everything else  *)
(* is a stutter.                                                           *)

Shown == [s \in Strips |-> IF resistance_array[s].windows = resistance_array[s].strips
                             THEN resistance_array[s].windows ELSE -1]
Order == IF timerOn THEN active_strip_indices ELSE <<>>

\* No strip has had its turn at the start.
LEMMA RoundsInit == Init => Rounds!Init
<1> SUFFICES ASSUME Init PROVE Rounds!Init
  OBVIOUS
<1>1. /\ Shown = [s \in Strips |-> 0] /\ Order = <<>>
      /\ current_active_strip_index + 1 = 1 /\ Total_adc_summation.windows = 0
  BY DEF Init, SamplerInit, Shown, Order, NoResult, NoTotal
<1> QED
  BY <1>1 DEF Rounds!Init, Shown, Order

\* A tick that ends a window is a step of StripRounds; nothing else is seen there.
LEMMA RoundsStep ==
  ASSUME OneMeasurement, SingleInv, [Next]_vars
  PROVE  [Rounds!Next]_(Rounds!vars)
<1>1. TypeInv /\ SetupInv /\ DataInv
  BY DEF SingleInv
<1> DEFINE turn  == current_active_strip_index + 1
           wins  == Total_adc_summation.windows
           Still == UNCHANGED <<turn, wins, Shown>>
<1>2. ASSUME Order' = Order, Still PROVE UNCHANGED Rounds!vars
  BY <1>2 DEF Rounds!vars, Order, Shown
<1>3. ASSUME UNCHANGED <<current_active_strip_index, Total_adc_summation, resistance_array>>
      PROVE  Still
  BY <1>3 DEF Shown
<1>4. CASE StartTimer
  <2>1. Still /\ ~timerOn /\ timerOn' /\ UNCHANGED active_strip_indices
    BY <1>3, <1>4 DEF StartTimer, At, SetupInv, OrderInv, Starting, Restoring, SingleInv
  <2>2. Listed(MAX_STRIP_COUNT)
    BY <1>4 DEF StartTimer, At, SingleInv, SetupInv, ListInv, Preparing
  <2>3. Order = <<>> /\ Order' = active_strip_indices
    BY <2>1 DEF Order
  <2>4. active_strip_indices \in Seq(Strips)
    BY DEF SingleInv, TypeInv, TypeOK
  <2>5. CASE active_strip_indices = <<>>
    BY <1>2, <2>1, <2>3, <2>5
  <2>6. CASE active_strip_indices # <<>>
    <3>1. Rounds!InOrder(active_strip_indices)
      <4>1. DOMAIN active_strip_indices = 1 .. Len(active_strip_indices)
        BY <2>4, LenProperties
      <4> QED
        BY <2>2, <4>1 DEF Listed, Rounds!InOrder
    <3>2. Rounds!Start
      BY <2>1, <2>3, <2>4, <2>6, <3>1 DEF Rounds!Start, Rounds!InOrder, Order, Shown
    <3> QED
      BY <3>2 DEF Rounds!Next
  <2> QED
    BY <2>5, <2>6
<1>5. CASE (Receive \/ Main) /\ ~StartTimer
  <2>1. Still
    BY <1>1, <1>3, <1>5, MainKeepsOrder DEF Sampled, SetupInv
  <2>2. Order' = Order
    <3>1. CASE timerOn
      <4>1. pc \in Starting \cup Restoring \cup {"read"} /\ accepted # 0
        BY <1>1, <3>1 DEF SetupInv, OrderInv
      <4>2. ~Receive
        BY <1>1, <4>1, LenProperties, RequestsAssumption DEF Receive, OneMeasurement,
           TypeInv, TypeOK
      <4>3. UNCHANGED <<timerOn, active_strip_indices>>
        BY <1>5, <4>1, <4>2 DEF Main, ClearStrip, ParseLine, StoreStrip, ZeroCount,
           SetStrip, CountStrip, InitPlate, InitMuxPin, SelectFirstPin, AllocateIndices,
           FillIndex, ADC_Voltage_Initialize, ADC_Current_Initialize, ResetAdc, ReadyAdc, StopTimer,
           ResetIndex, ResetCount, TimestampInit, ZeroResistance, At, Starting, Restoring
      <4> QED
        BY <4>3 DEF Order
    <3>2. CASE ~timerOn
      <4>1. ~timerOn'
        BY <1>5, <3>2 DEF Receive, Main, ClearStrip, ParseLine, StoreStrip, ZeroCount,
           SetStrip, CountStrip, InitPlate, InitMuxPin, SelectFirstPin, AllocateIndices,
           FillIndex, ADC_Voltage_Initialize, ADC_Current_Initialize, ResetAdc, ReadyAdc, StopTimer,
           ResetIndex, ResetCount, TimestampInit, ZeroResistance, At
      <4> QED
        BY <3>2, <4>1 DEF Order
    <3> QED
      BY <3>1, <3>2
  <2> QED
    BY <1>2, <2>1, <2>2
<1>6. CASE Tock /\ TickClosesWindow
  <2>1. /\ timerOn /\ UNCHANGED <<timerOn, active_strip_indices, active_strips>>
        /\ current_active_strip_index' = NextIndex
    BY <1>1, <1>6, HandlersRun DEF TickClosesWindow
  <2>2. Order = active_strip_indices /\ Order' = Order
    BY <2>1 DEF Order
  <2>3. /\ g_strip_count \in Nat \ {0} /\ Len(active_strip_indices) = g_strip_count
        /\ current_active_strip_index \in 0 .. g_strip_count - 1
        /\ IF NextIndex = 0
             THEN /\ resistance_array' =
                       calculate_resistance_array(V_sens_strip_values', TotalWithWindow)
                  /\ Total_adc_summation' = NoTotal
             ELSE /\ Total_adc_summation' = TotalWithWindow
                  /\ UNCHANGED resistance_array
    BY <1>1, <1>6, ClosingTick
  <2>4. NextIndex = IF turn = g_strip_count THEN 0 ELSE turn
    BY <2>3, NextIndexWraps
  <2>5. CASE turn # g_strip_count
    <3>1. NextIndex = turn /\ turn # 0 /\ turn < Len(active_strip_indices)
      BY <2>3, <2>4, <2>5
    <3>2. /\ turn' = turn + 1 /\ wins' = wins + 1 /\ Shown' = Shown
      BY <2>1, <2>3, <3>1 DEF TotalWithWindow, Shown
    <3>3. Rounds!Window
      BY <2>2, <3>1, <3>2 DEF Rounds!Window, Order, Shown
    <3> QED
      BY <3>3 DEF Rounds!Next
  <2>6. CASE turn = g_strip_count
    <3>1. NextIndex = 0 /\ active_strip_indices # <<>> /\ turn = Len(active_strip_indices)
      BY <2>3, <2>4, <2>6
    <3>2. turn' = 1 /\ wins' = 0
      BY <2>1, <2>3, <3>1 DEF NoTotal
    <3>3. wins + 1 = g_strip_count
      BY <1>1, <2>6 DEF DataInv, TotalInv
    <3>4. Listed(MAX_STRIP_COUNT) /\ active_strip_indices \in Seq(Strips)
      BY <1>1, <2>1 DEF SetupInv, ListInv, TypeInv, TypeOK
    <3>5. ASSUME NEW s \in Strips
          PROVE  Shown'[s] = IF \E i \in DOMAIN active_strip_indices :
                                   active_strip_indices[i] = s
                               THEN Len(active_strip_indices) ELSE Shown[s]
      <4>1. s \in active_strips
              <=> \E i \in DOMAIN active_strip_indices : active_strip_indices[i] = s
        <5>1. DOMAIN active_strip_indices = 1 .. Len(active_strip_indices)
          BY <3>4, LenProperties
        <5>2. ActiveBelow(MAX_STRIP_COUNT) = active_strips
          BY <1>1, BelowEnds DEF TypeInv, TypeOK
        <5> QED
          BY <3>4, <5>1, <5>2 DEF Listed
      <4>2. CASE s \in active_strips
        <5>1. /\ resistance_array'[s].windows = g_strip_count
              /\ resistance_array'[s].strips = g_strip_count
          BY <2>3, <3>1, <3>3, <4>2 DEF calculate_resistance_array, TotalWithWindow, Divisor
        <5>2. Shown'[s] = g_strip_count
          BY <5>1 DEF Shown
        <5> QED
          BY <2>3, <4>1, <4>2, <5>2
      <4>3. CASE s \notin active_strips
        <5>1. resistance_array'[s] = resistance_array[s]
          BY <2>3, <3>1, <4>3 DEF calculate_resistance_array
        <5>2. Shown'[s] = Shown[s]
          BY <5>1 DEF Shown
        <5> QED
          BY <4>1, <4>3, <5>2
      <4> QED
        BY <4>2, <4>3
    <3>6. Shown' = [s \in Strips |-> IF \E i \in DOMAIN active_strip_indices :
                                           active_strip_indices[i] = s
                                       THEN Len(active_strip_indices) ELSE Shown[s]]
      <4>1. Shown' = [s \in Strips |-> Shown'[s]]
        BY DEF Shown
      <4> QED
        BY <3>5, <4>1
    <3>7. Rounds!Round
      BY <2>2, <3>1, <3>2, <3>6 DEF Rounds!Round, Order, Shown
    <3> QED
      BY <3>7 DEF Rounds!Next
  <2> QED
    BY <2>5, <2>6
<1>7. CASE (Tock \/ AdcSteps) /\ ~ (Tock /\ TickClosesWindow)
  <2>1. UNCHANGED <<timerOn, active_strip_indices>>
    BY <1>1, <1>7, HandlersRun
  <2>2. Still
    BY <1>3, <1>7 DEF Tock, AdcSteps, CTIMER2_IRQHandler, TickNoStrips, TickWithinWindow,
       Convert, AdcHandlerLoad, AdcHandlerStore
  <2> QED
    BY <1>2, <2>1, <2>2 DEF Order
<1>8. CASE UNCHANGED vars
  BY <1>2, <1>3, <1>8 DEF Order
<1> QED
  BY <1>4, <1>5, <1>6, <1>7, <1>8 DEF Next

\* main.c and adc_16_strip.c do what StripRounds says: strip after strip, lowest
\* first, and results of whole rounds only.
THEOREM MeasuresInRounds == OneMeasurement => (Spec => Rounds!Safe)
<1> SUFFICES ASSUME OneMeasurement PROVE Spec => Rounds!Safe
  OBVIOUS
<1>1. SingleInv /\ [Next]_vars => [Rounds!Next]_(Rounds!vars)
  BY RoundsStep
<1> QED
  BY <1>1, RoundsInit, SingleInvariant, PTL DEF Spec, Rounds!Safe
=============================================================================
