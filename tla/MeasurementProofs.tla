------------------------- MODULE MeasurementProofs -------------------------
(***************************************************************************)
(* Theorems about Measurement, for any number of strips and select pins,   *)
(* any window length, any sequence of requests and any schedule of ticks.  *)
(***************************************************************************)
EXTENDS Measurement, FiniteSetTheorems, SequenceTheorems, WellFoundedInduction, TLAPS

USE DEF Strips, ADC

-----------------------------------------------------------------------------
(* Lemmas about the operators of StripSampler and Measurement.             *)

\* A bit of a channel number is 0 or 1 (SelectMuxChannel drives a pin with it).
LEMMA BitType == ASSUME NEW channel \in Int, NEW w \in MuxPins
                 PROVE  Bit(channel, w) \in {0, 1}
<1>1. w \in Nat \ {0}
  BY PinsAssumption
<1>2. channel \div w \in Int
  BY <1>1
<1> HIDE DEF ADC
<1> DEFINE q == channel \div w
<1>3. q \in Int
  BY <1>2
<1> HIDE DEF q
<1>4. q % 2 \in {0, 1}
  BY <1>3
<1> QED
  BY <1>4 DEF Bit, q

\* SelectMuxChannel drives every select pin to 0 or 1.
LEMMA PinsOfType == ASSUME NEW channel \in Int PROVE PinsOf(channel) \in Pins
BY BitType DEF PinsOf, Pins

\* FirstActiveStrip() returns a strip, or what -1 is as a uint8_t.
LEMMA FirstActiveStripType ==
  ASSUME active_strips \subseteq Strips
  PROVE  FirstActiveStrip \in Int
<1>1. CASE active_strips = {}
  BY <1>1, Uint8Assumption DEF FirstActiveStrip
<1>2. CASE active_strips # {}
  <2> DEFINE Below == OpToRel(<, Nat)
  <2>1. active_strips \subseteq Nat
    BY StripsAssumption
  <2>2. \E s \in active_strips : \A t \in active_strips : ~ (<<t, s>> \in Below)
    BY <1>2, <2>1, WFMin, NatLessThanWellFounded
  <2>3. \A s, t \in Nat : <<t, s>> \in Below <=> t < s
    BY DEF OpToRel
  <2> HIDE DEF Below
  <2>4. PICK s \in active_strips : \A t \in active_strips : ~ (<<t, s>> \in Below)
    BY <2>2
  <2>5. \A t \in active_strips : s <= t
    <3> TAKE t \in active_strips
    <3>1. ~ (<<t, s>> \in Below)
      BY <2>4
    <3>2. ~ (t < s)
      BY <3>1, <2>3, <2>1, Zenon
    <3> QED
      BY <3>2, <2>1
  <2>6. FirstActiveStrip \in active_strips
    BY <1>2, <2>5 DEF FirstActiveStrip
  <2> QED
    BY <2>1, <2>6
<1> QED
  BY <1>1, <1>2

\* A sum that has been reset is a sum.
LEMMA EmptySumType == EmptySum \in Sums
BY DEF EmptySum, Sums

\* An ADC handler that adds a result leaves a sum.
LEMMA AddType == ASSUME NEW a, NEW acc \in Sums, NEW pins
                 PROVE  Add(a, acc, pins) \in Sums
<1>1. acc.n + 1 \in Nat
  BY DEF Sums
<1>2. ASSUME NEW s \in Strips
      PROVE  acc.on[s] + (IF TrackPins /\ a = "V" /\ pins = PinsOf(s) THEN 1 ELSE 0) \in Nat
  <2>1. acc.on[s] \in Nat
    BY DEF Sums
  <2> QED
    BY <2>1
<1> QED
  BY <1>1, <1>2 DEF Add, Sums

\* A remainder is below the divisor.
LEMMA ModRange == \A a \in Nat, b \in Nat \ {0} : a % b \in 0 .. b - 1
OBVIOUS

\* The next index is a byte, and a strip's position unless the divisor is 0.
LEMMA NextIndexType ==
  ASSUME TypeOK
  PROVE  /\ NextIndex \in Bytes
         /\ g_strip_count # 0 => NextIndex \in Strips
<1>1. /\ current_active_strip_index + 1 \in Nat
      /\ g_strip_count \in 0 .. MAX_STRIP_COUNT
  BY DEF TypeOK, Bytes
<1>2. CASE g_strip_count = 0
  <2>1. (current_active_strip_index + 1) % Uint8 \in 0 .. Uint8 - 1
    BY <1>1, ModRange, Uint8Assumption, StripsAssumption
  <2> QED
    BY <1>2, <2>1 DEF NextIndex, Bytes
<1>3. CASE g_strip_count # 0
  <2>1. (current_active_strip_index + 1) % g_strip_count \in 0 .. g_strip_count - 1
    BY <1>1, <1>3, ModRange, StripsAssumption
  <2>2. NextIndex \in 0 .. g_strip_count - 1
    BY <1>3, <2>1 DEF NextIndex
  <2> QED
    BY <1>1, <1>3, <2>2, Uint8Assumption, StripsAssumption DEF Bytes
<1> QED
  BY <1>2, <1>3

-----------------------------------------------------------------------------
(* Type correctness.  While main() counts the strips g_strip_count is at   *)
(* most its loop variable, so the count never exceeds MAX_STRIP_COUNT.     *)

CountBounded == pc \in {"set", "count"} => k < MAX_STRIP_COUNT /\ g_strip_count <= k

TypeInv == TypeOK /\ CountBounded

\* The values of global.c are in their ranges.
LEMMA TypeInvInit == Init => TypeInv
<1> SUFFICES ASSUME Init PROVE TypeInv
  OBVIOUS
<1>1. /\ PinsOf(0) \in Pins
      /\ EmptySum \in Sums
  BY PinsOfType, EmptySumType
<1>2. /\ V_sens_strip_values \in [Strips -> [n : Nat, own : Nat, time : Nat]]
      /\ resistance_array \in [Strips -> Results]
      /\ g_timestamp_ms \in Nat
  BY DEF Init, SamplerInit, NoValue, NoResult, Results
<1>3. /\ sum \in [ADC -> Sums]
      /\ isr \in [adc : ADC \cup {"none"}, pins : Pins, base : Sums]
      /\ Total_adc_summation \in [windows : Nat, conversions : Nat]
  BY <1>1 DEF Init, SamplerInit, NoIsr, NoTotal
<1>4. /\ adcOn \in [ADC -> BOOLEAN]
      /\ conv \in [ADC -> Pins \cup {Idle}]
      /\ fifo \in [ADC -> Seq(Pins)]
      /\ active_strip_indices \in Seq(Strips)
  BY DEF Init, SamplerInit
<1>5. /\ pc \in Locations /\ k \in Nat /\ req \in Request
      /\ accepted \in 0 .. Len(Requests)
  BY RequestsAssumption DEF Init, Locations, NoRequest, Request
<1>6. /\ active_strips \subseteq Strips
      /\ g_strip_count \in 0 .. MAX_STRIP_COUNT
      /\ current_active_strip_index \in Bytes
      /\ currentCountIndex \in 0 .. SoftwareAverageCount - 1
      /\ mux \in Pins /\ timerOn \in BOOLEAN
  BY <1>1, StripsAssumption, AverageAssumption, Uint8Assumption
     DEF Init, SamplerInit, Bytes
<1>7. CountBounded
  BY DEF Init, CountBounded
<1>8. ModbusFlag \in BOOLEAN
  BY ModeAssumption DEF Init, readPowerSource
<1> QED
  BY <1>2, <1>3, <1>4, <1>5, <1>6, <1>7, <1>8 DEF TypeInv, TypeOK, Init, SamplerInit

\* A step that changes nothing keeps the ranges.
LEMMA TypeInvStutter == TypeInv /\ UNCHANGED vars => TypeInv'
BY DEF TypeInv, TypeOK, CountBounded, vars, main_vars, sampler_vars, param_vars,
       index_vars, data_vars, hw_vars

\* The interrupt handlers leave main()'s own variables alone.
LEMMA HandlersKeepTypes ==
  ASSUME TypeInv, Tock \/ AdcSteps
  PROVE  TypeInv'
<1> USE DEF param_vars, index_vars, data_vars, hw_vars, sampler_vars, main_vars
<1>1. ASSUME NEW a \in ADC, Convert(a), UNCHANGED main_vars PROVE TypeInv'
  <2>1. PICK pins \in IF a = "V" THEN {conv[a], mux} ELSE {PinsOf(0)} :
             fifo' = [fifo EXCEPT ![a] = Append(@, pins)]
    BY <1>1 DEF Convert
  <2>2. pins \in Pins
    BY <1>1, PinsOfType DEF Convert, TypeInv, TypeOK
  <2>3. fifo' \in [ADC -> Seq(Pins)] /\ conv' \in [ADC -> Pins \cup {Idle}]
    BY <1>1, <2>1, <2>2 DEF Convert, TypeInv, TypeOK
  <2> QED
    BY <1>1, <2>3 DEF Convert, TypeInv, TypeOK, CountBounded
<1>2. ASSUME NEW a \in ADC, AdcHandlerLoad(a), UNCHANGED main_vars PROVE TypeInv'
  <2>1. fifo[a] \in Seq(Pins) /\ fifo[a] # <<>> /\ sum[a] \in Sums
    BY <1>2 DEF AdcHandlerLoad, TypeInv, TypeOK
  <2>2. Head(fifo[a]) \in Pins /\ Tail(fifo[a]) \in Seq(Pins)
    BY <2>1, HeadTailProperties
  <2>3. isr' \in [adc : ADC \cup {"none"}, pins : Pins, base : Sums]
    BY <1>2, <2>1, <2>2 DEF AdcHandlerLoad
  <2>4. fifo' \in [ADC -> Seq(Pins)]
    BY <1>2, <2>2 DEF AdcHandlerLoad, TypeInv, TypeOK
  <2> QED
    BY <1>2, <2>3, <2>4 DEF AdcHandlerLoad, TypeInv, TypeOK, CountBounded
<1>3. ASSUME AdcHandlerStore, UNCHANGED main_vars PROVE TypeInv'
  <2>1. Add(isr.adc, isr.base, isr.pins) \in Sums
    BY AddType DEF TypeInv, TypeOK
  <2>2. sum' \in [ADC -> Sums]
    BY <1>3, <2>1 DEF AdcHandlerStore, TypeInv, TypeOK
  <2>3. isr' \in [adc : ADC \cup {"none"}, pins : Pins, base : Sums]
    BY <1>3, PinsOfType, EmptySumType DEF AdcHandlerStore, NoIsr
  <2> QED
    BY <1>3, <2>2, <2>3 DEF AdcHandlerStore, TypeInv, TypeOK, CountBounded
<1>4. TriggerBoth => conv' \in [ADC -> Pins \cup {Idle}]
  BY PinsOfType DEF TriggerBoth, TypeInv, TypeOK
<1>5. ASSUME TickNoStrips, UNCHANGED main_vars PROVE TypeInv'
  BY <1>5 DEF TickNoStrips, TypeInv, TypeOK, CountBounded
<1>6. ASSUME TickWithinWindow, UNCHANGED main_vars PROVE TypeInv'
  <2>1. currentCountIndex' \in 0 .. SoftwareAverageCount - 1
    BY <1>6, AverageAssumption DEF TickWithinWindow, WindowOver, TypeInv, TypeOK
  <2> QED
    BY <1>6, <1>4, <2>1 DEF TickWithinWindow, TypeInv, TypeOK, CountBounded
<1>7. ASSUME TickClosesWindow, UNCHANGED main_vars PROVE TypeInv'
  <2>1. PICK currentChannel \in IndexBytes(current_active_strip_index),
             nextChannel \in IndexBytes(NextIndex) :
          LET values == [s \in Strips |->
                           IF s = currentChannel
                             THEN [n |-> sum["V"].n, own |-> sum["V"].on[s],
                                   time |-> g_timestamp_ms]
                             ELSE V_sens_strip_values[s]]
          IN /\ V_sens_strip_values' = values
             /\ corrupted' \in StoreHits(currentChannel)
             /\ IF NextIndex = 0
                  THEN /\ resistance_array' =
                             calculate_resistance_array(values, TotalWithWindow)
                       /\ Total_adc_summation' = NoTotal
                  ELSE /\ Total_adc_summation' = TotalWithWindow
                       /\ UNCHANGED resistance_array
             /\ SelectMuxChannel(nextChannel)
    BY <1>7 DEF TickClosesWindow
  <2>2. sum["V"] \in Sums /\ sum["C"] \in Sums
    BY DEF TypeInv, TypeOK
  <2>3. V_sens_strip_values' \in [Strips -> [n : Nat, own : Nat, time : Nat]]
    BY <2>1, <2>2 DEF TypeInv, TypeOK, Sums
  <2>4. TotalWithWindow \in [windows : Nat, conversions : Nat]
    BY <2>2 DEF TypeInv, TypeOK, TotalWithWindow, Sums
  <2>5. Total_adc_summation' \in [windows : Nat, conversions : Nat]
    BY <2>1, <2>4 DEF NoTotal
  <2>6. calculate_resistance_array(V_sens_strip_values', TotalWithWindow)
          \in [Strips -> Results]
    <3>1. Divisor \in Nat /\ \A s \in Strips : resistance_array[s] \in Results
      BY DEF TypeInv, TypeOK, Divisor
    <3>2. ASSUME NEW s \in Strips
          PROVE  [n |-> V_sens_strip_values'[s].n, time |-> V_sens_strip_values'[s].time,
                  windows |-> TotalWithWindow.windows,
                  conversions |-> TotalWithWindow.conversions, strips |-> Divisor]
                   \in Results
      BY <2>3, <2>4, <3>1 DEF Results
    <3> QED
      BY <3>1, <3>2 DEF calculate_resistance_array
  <2>7. resistance_array' \in [Strips -> Results]
    BY <2>1, <2>6 DEF TypeInv, TypeOK
  <2>8. mux' \in Pins
    <3>1. nextChannel = Wild \/ nextChannel \in Strips
      <4>1. NextIndex \in Nat
        BY NextIndexType DEF TypeInv, Bytes
      <4>2. active_strip_indices \in Seq(Strips)
        BY DEF TypeInv, TypeOK
      <4>3. NextIndex < Len(active_strip_indices)
              => active_strip_indices[NextIndex + 1] \in Strips
        <5> HAVE NextIndex < Len(active_strip_indices)
        <5>1. NextIndex + 1 \in 1 .. Len(active_strip_indices)
          BY <4>1, <4>2, LenProperties
        <5> QED
          BY <4>2, <5>1, ElementOfSeq
      <4> QED
        BY <4>3 DEF IndexBytes
    <3> QED
      BY <2>1, <3>1, PinsOfType DEF SelectMuxChannel
  <2>9. sum' \in [ADC -> Sums]
    BY <1>7, EmptySumType DEF TickClosesWindow
  <2>10. currentCountIndex' \in 0 .. SoftwareAverageCount - 1
    BY <1>7, AverageAssumption DEF TickClosesWindow
  <2>11. current_active_strip_index' \in Bytes
    BY <1>7, NextIndexType DEF TickClosesWindow, TypeInv
  <2>12. corrupted' \in BOOLEAN
    BY <2>1 DEF StoreHits
  <2> QED
    BY <1>7, <1>4, <2>3, <2>5, <2>7, <2>8, <2>9, <2>10, <2>11, <2>12
       DEF TickClosesWindow, TypeInv, TypeOK, CountBounded
<1> QED
  BY <1>1, <1>2, <1>3, <1>5, <1>6, <1>7 DEF Tock, AdcSteps, CTIMER2_IRQHandler

\* Every statement of main() keeps the types.
LEMMA MainKeepsTypes ==
  ASSUME TypeInv, Receive \/ Main
  PROVE  TypeInv'
<1> USE DEF param_vars, index_vars, data_vars, hw_vars, sampler_vars
<1>1. CASE Receive
  <2>1. req' \in Request /\ accepted' \in 0 .. Len(Requests)
    BY <1>1, RequestsAssumption DEF Receive, TypeInv, TypeOK
  <2>2. pc' \in {"zeroCount", "plate", "clear"} /\ k' = 0
    BY <1>1 DEF Receive, Goto
  <2> QED
    BY <1>1, <2>1, <2>2 DEF Receive, TypeInv, TypeOK, CountBounded, Locations
<1>2. ASSUME NEW loc, NextStrip(loc), loc \in Locations
      PROVE  pc' \in {pc, loc} /\ k' \in Nat /\ (pc' # loc => k' = k + 1)
  BY <1>2 DEF NextStrip, Goto, TypeInv, TypeOK
<1>3. CASE ClearStrip
  <2>1. pc' \in {"clear", "parse"} /\ k' \in Nat /\ UNCHANGED <<ModbusFlag, req, accepted>>
    BY <1>3, <1>2 DEF ClearStrip, At, Locations
  <2> QED
    BY <1>3, <2>1 DEF ClearStrip, TypeInv, TypeOK, CountBounded, Locations
<1>4. CASE ParseLine
  <2>1. pc' \in {"store", "read"} /\ k' = 0 /\ UNCHANGED <<ModbusFlag, req, accepted>>
    BY <1>4 DEF ParseLine, At, Goto
  <2> QED
    BY <1>4, <2>1 DEF ParseLine, TypeInv, TypeOK, CountBounded, Locations
<1>5. CASE StoreStrip
  <2>1. pc' \in {"store", "zeroCount"} /\ k' \in Nat /\ UNCHANGED <<ModbusFlag, req, accepted>>
    BY <1>5, <1>2 DEF StoreStrip, At, Locations
  <2>2. active_strips' \subseteq Strips
    <3>1. active_strips \subseteq Strips /\ req.strips \subseteq Strips
      BY DEF TypeInv, TypeOK, Request
    <3> QED
      BY <1>5, <3>1 DEF StoreStrip
  <2> QED
    BY <1>5, <2>1, <2>2 DEF StoreStrip, TypeInv, TypeOK, CountBounded, Locations
<1>6. CASE ZeroCount
  <2>1. /\ pc' \in {"set", "count"} /\ k' = 0 /\ UNCHANGED <<ModbusFlag, req, accepted>>
        /\ g_strip_count' = 0
    BY <1>6 DEF ZeroCount, At, Goto
  <2>2. 0 \in 0 .. MAX_STRIP_COUNT /\ 0 < MAX_STRIP_COUNT
    BY StripsAssumption
  <2> QED
    BY <1>6, <2>1, <2>2 DEF ZeroCount, TypeInv, TypeOK, CountBounded, Locations
<1>21. CASE SetStrip
  <2>1. active_strips' \subseteq Strips
    BY <1>21 DEF SetStrip, TypeInv, TypeOK, Request
  <2>2. pc = "set" /\ pc' = "count" /\ UNCHANGED <<ModbusFlag, k, req, accepted>>
    BY <1>21 DEF SetStrip, At
  <2> QED
    BY <1>21, <2>1, <2>2 DEF SetStrip, TypeInv, TypeOK, CountBounded, Locations
<1>7. CASE CountStrip
  <2>1. active_strips' \subseteq Strips
    BY <1>7 DEF CountStrip, TypeInv, TypeOK
  <2>2. /\ pc = "count" /\ k < MAX_STRIP_COUNT /\ g_strip_count <= k
        /\ g_strip_count' \in {g_strip_count, g_strip_count + 1}
        /\ g_strip_count \in Nat /\ k \in Nat
    BY <1>7 DEF CountStrip, At, TypeInv, TypeOK, CountBounded
  <2>3. g_strip_count' \in 0 .. MAX_STRIP_COUNT /\ g_strip_count' <= k + 1
    BY <2>2, StripsAssumption
  <2>4. \/ pc' \in {"set", "count"} /\ k' = k + 1 /\ k + 1 < MAX_STRIP_COUNT
        \/ pc' = "plate" /\ k' = 0
    BY <1>7, <2>2 DEF CountStrip, Goto
  <2>5. CountBounded'
    BY <2>2, <2>3, <2>4 DEF CountBounded
  <2>6. pc' \in Locations /\ k' \in Nat
    BY <2>2, <2>4 DEF Locations
  <2>7. UNCHANGED <<active_strip_indices, index_vars, data_vars, mux, hw_vars, isr,
                    ModbusFlag, req, accepted>>
    BY <1>7 DEF CountStrip, At
  <2>8. TypeOK'
    BY <2>1, <2>3, <2>6, <2>7 DEF TypeInv, TypeOK
  <2> QED
    BY <2>5, <2>8 DEF TypeInv
<1>8. CASE InitPlate
  BY <1>8 DEF InitPlate, At, Goto, TypeInv, TypeOK, CountBounded, Locations
<1>19. ASSUME NEW loc, NEW k0 \in Nat, NextPin(loc, k0)
       PROVE  pc' \in {pc, loc} /\ k' \in Nat
  BY <1>19 DEF NextPin, TypeInv, TypeOK
<1>9. CASE InitMuxPin
  <2>1. mux' \in Pins
    BY <1>9 DEF InitMuxPin, TypeInv, TypeOK, Pins
  <2> QED
    BY <1>9, <1>19, <2>1 DEF InitMuxPin, At, TypeInv, TypeOK, CountBounded, Locations
<1>10. CASE SelectFirstPin
  <2>1. FirstActiveStrip \in Int
    BY FirstActiveStripType DEF TypeInv, TypeOK
  <2>2. \A w \in MuxPins : Bit(FirstActiveStrip, w) \in {0, 1}
    BY <2>1, BitType
  <2>3. mux' \in Pins
    BY <1>10, <2>2 DEF SelectFirstPin, TypeInv, TypeOK, Pins
  <2> QED
    BY <1>10, <1>19, <2>3 DEF SelectFirstPin, At, TypeInv, TypeOK, CountBounded, Locations
<1>11. CASE AllocateIndices
  BY <1>11 DEF AllocateIndices, At, Goto, TypeInv, TypeOK, CountBounded, Locations
<1>12. CASE FillIndex
  <2>1. active_strip_indices' \in Seq(Strips)
    <3>1. active_strips \subseteq Strips
      BY DEF TypeInv, TypeOK
    <3>2. k \in active_strips => <<k>> \in Seq(Strips)
      BY <3>1
    <3>3. <<>> \in Seq(Strips)
      BY EmptySeq
    <3>4. (IF k \in active_strips THEN <<k>> ELSE <<>>) \in Seq(Strips)
      BY <3>2, <3>3, Zenon
    <3> QED
      BY <1>12, <3>4, ConcatProperties DEF FillIndex, TypeInv, TypeOK
  <2>2. pc' \in {"fill", "resetV"} /\ k' \in Nat /\ UNCHANGED <<ModbusFlag, req, accepted>>
    BY <1>12, <1>2 DEF FillIndex, At, Locations
  <2> QED
    BY <1>12, <2>1, <2>2 DEF FillIndex, TypeInv, TypeOK, CountBounded, Locations
<1>13. ASSUME NEW a \in ADC, NEW loc, NEW next \in {"readyV", "readyC"},
              ResetAdc(a, loc, next)
       PROVE  TypeInv'
  <2>1. /\ adcOn' \in [ADC -> BOOLEAN]
        /\ conv' \in [ADC -> Pins \cup {Idle}]
        /\ fifo' \in [ADC -> Seq(Pins)]
    BY <1>13 DEF ResetAdc, TypeInv, TypeOK
  <2> QED
    BY <1>13, <2>1 DEF ResetAdc, At, Goto, TypeInv, TypeOK, CountBounded, Locations
<1>14. ASSUME NEW a \in ADC, NEW loc, NEW next \in {"resetC", "stop"},
              ReadyAdc(a, loc, next)
       PROVE  TypeInv'
  BY <1>14 DEF ReadyAdc, At, Goto, TypeInv, TypeOK, CountBounded, Locations
<1>15. CASE StopTimer \/ StartTimer
  <2>1. /\ pc' \in {"start", "index0"} /\ k' = 0 /\ UNCHANGED <<ModbusFlag, req, accepted>>
        /\ timerOn' \in BOOLEAN
    BY <1>15 DEF StopTimer, StartTimer, At, Goto
  <2> QED
    BY <1>15, <2>1 DEF StopTimer, StartTimer, TypeInv, TypeOK, CountBounded, Locations
<1>16. CASE ResetIndex
  <2>1. current_active_strip_index' \in Bytes
    BY <1>16, Uint8Assumption, StripsAssumption DEF ResetIndex, Bytes
  <2> QED
    BY <1>16, <2>1 DEF ResetIndex, At, Goto, TypeInv, TypeOK, CountBounded, Locations
<1>17. CASE ResetCount
  <2>1. currentCountIndex' \in 0 .. SoftwareAverageCount - 1
    BY <1>17, AverageAssumption DEF ResetCount
  <2> QED
    BY <1>17, <2>1 DEF ResetCount, At, Goto, TypeInv, TypeOK, CountBounded, Locations
<1>18. CASE ZeroResistance
  <2>1. resistance_array' \in [Strips -> Results]
    BY <1>18 DEF ZeroResistance, Zeroed, NoResult, Results, TypeInv, TypeOK
  <2>2. pc' \in {"zero", "read"} /\ k' \in Nat /\ UNCHANGED <<ModbusFlag, req, accepted>>
    BY <1>18, <1>2 DEF ZeroResistance, At, Locations
  <2> QED
    BY <1>18, <2>1, <2>2 DEF ZeroResistance, TypeInv, TypeOK, CountBounded, Locations
<1>20. CASE TimestampInit
  BY <1>20 DEF TimestampInit, At, Goto, TypeInv, TypeOK, CountBounded, Locations
<1> QED
  BY <1>1, <1>3, <1>4, <1>5, <1>6, <1>7, <1>8, <1>9, <1>10, <1>11, <1>12, <1>13,
     <1>14, <1>15, <1>16, <1>17, <1>18, <1>20, <1>21
     DEF Main, ADC_Voltage_Initialize, ADC_Current_Initialize

\* Ranges, and the bound on the strip count, hold at every step of main() and
\* handlers.
LEMMA TypeInvariant == Spec => []TypeInv
<1>1. TypeInv /\ [Next]_vars => TypeInv'
  BY HandlersKeepTypes, MainKeepsTypes, TypeInvStutter DEF Next
<1> QED
  BY <1>1, TypeInvInit, PTL DEF Spec

\* main() and the interrupt handlers of adc_16_strip.c keep every variable in
\* the range its declaration and its use as an index or a bit allow.
THEOREM TypeCorrect == Spec => []TypeOK
<1>1. TypeInv => TypeOK
  BY DEF TypeInv
<1> QED
  BY <1>1, TypeInvariant, PTL

-----------------------------------------------------------------------------
(* The index of the running window.                                        *)

\* In the GUI's mode the handler returns early on a count of 0, so it never
\* divides by it, and the index stays below MAX_STRIP_COUNT however requests
\* and ticks interleave.
THEOREM IndexStaysBelowStrips == Spec => []IndexBelowStrips
<1> DEFINE Below == ModbusFlag \/ current_active_strip_index < MAX_STRIP_COUNT
<1>1. Init => Below
  BY StripsAssumption DEF Init, SamplerInit
<1>2. TypeInv /\ Below /\ [Next]_vars => Below'
  <2> SUFFICES ASSUME TypeInv, Below, [Next]_vars, ~ModbusFlag'
               PROVE  current_active_strip_index' < MAX_STRIP_COUNT
    OBVIOUS
  <2>1. ModbusFlag' = ModbusFlag
    BY DEF Next, Receive, Main, Tock, AdcSteps, At, ClearStrip, ParseLine, StoreStrip,
       ZeroCount, SetStrip, CountStrip, InitPlate, InitMuxPin, SelectFirstPin, AllocateIndices,
       FillIndex, ADC_Voltage_Initialize, ADC_Current_Initialize, ResetAdc, ReadyAdc,
       StopTimer, StartTimer, ResetIndex, ResetCount, TimestampInit, ZeroResistance, vars,
       main_vars
  <2>2. current_active_strip_index < MAX_STRIP_COUNT
    BY <2>1, Zenon
  <2>3. CASE TickClosesWindow
    <3>1. g_strip_count # 0
      BY <2>1, <2>3 DEF TickClosesWindow
    <3>2. NextIndex \in Strips
      BY <3>1, NextIndexType DEF TypeInv
    <3> QED
      BY <2>3, <3>2, StripsAssumption DEF TickClosesWindow
  <2>4. CASE ResetIndex
    BY <2>4, StripsAssumption DEF ResetIndex
  <2>5. ASSUME ~TickClosesWindow, ~ResetIndex
        PROVE  UNCHANGED current_active_strip_index
    BY <2>5 DEF Next, Receive, Main, Tock, AdcSteps, CTIMER2_IRQHandler, TickNoStrips,
       TickWithinWindow, Convert, AdcHandlerLoad, AdcHandlerStore, ClearStrip, ParseLine,
       StoreStrip, ZeroCount, SetStrip, CountStrip, InitPlate, InitMuxPin, SelectFirstPin,
       AllocateIndices, FillIndex, ADC_Voltage_Initialize, ADC_Current_Initialize,
       ResetAdc, ReadyAdc, StopTimer, StartTimer, ResetCount, TimestampInit,
       ZeroResistance, vars,
       sampler_vars, index_vars, data_vars
  <2> QED
    BY <2>2, <2>3, <2>4, <2>5
<1>3. Below => IndexBelowStrips
  BY DEF IndexBelowStrips
<1> HIDE DEF Below
<1> QED
  BY <1>1, <1>2, <1>3, TypeInvariant, PTL DEF Spec

-----------------------------------------------------------------------------
(* Lemmas about the lists of active strips.                                *)

\* The strips main()'s loops have met when their variable is n.
ActiveBelow(n) == {s \in active_strips : s < n}

\* ConvertActiveStrips has listed the active strips below n, lowest first.
Listed(n) ==
  /\ \A s \in Strips : s \in ActiveBelow(n)
       <=> \E i \in 1 .. Len(active_strip_indices) : active_strip_indices[i] = s
  /\ \A i, j \in 1 .. Len(active_strip_indices) :
       i < j => active_strip_indices[i] < active_strip_indices[j]
  /\ Len(active_strip_indices) = Cardinality(ActiveBelow(n))

Starting  == {"index0", "count0"}
Restoring == {"timestamp", "zero"}
Preparing == {"resetV", "readyV", "resetC", "readyC", "stop", "start"}
Choosing  == {"plate", "gpio", "select", "free", "fill"}

\* The strips below n are some of the strips there are.
LEMMA BelowFinite ==
  ASSUME active_strips \subseteq Strips, NEW n
  PROVE  /\ IsFiniteSet(ActiveBelow(n))
         /\ Cardinality(ActiveBelow(n)) \in Nat
<1>1. ActiveBelow(n) \subseteq 0 .. MAX_STRIP_COUNT - 1
  BY DEF ActiveBelow, Strips
<1>2. IsFiniteSet(0 .. MAX_STRIP_COUNT - 1)
  BY StripsAssumption, FS_Interval
<1> QED
  BY <1>1, <1>2, FS_Subset, FS_CardinalityType

\* for (i = 0; ...): none is met before the loop, all of them after it.
LEMMA BelowEnds ==
  ASSUME active_strips \subseteq Strips
  PROVE  ActiveBelow(0) = {} /\ ActiveBelow(MAX_STRIP_COUNT) = active_strips
<1>1. \A s \in active_strips : 0 <= s /\ s < MAX_STRIP_COUNT /\ s \in Int
  BY StripsAssumption DEF Strips
<1>2. \A s \in active_strips : ~ (s < 0) /\ s < MAX_STRIP_COUNT
  BY <1>1
<1> QED
  BY <1>2, Zenon DEF ActiveBelow

\* One turn of a loop over the strips meets strip n, if it is one of S.
LEMMA OneStripMore ==
  ASSUME NEW S, S \subseteq Strips, NEW n \in Nat
  PROVE  /\ {s \in S : s < n + 1} = {s \in S : s < n} \cup (S \cap {n})
         /\ Cardinality({s \in S : s < n + 1}) =
              Cardinality({s \in S : s < n}) + IF n \in S THEN 1 ELSE 0
<1> DEFINE below == {s \in S : s < n}
           more  == {s \in S : s < n + 1}
<1>1. more = below \cup (S \cap {n})
  <2>1. \A s \in S : s < n + 1 <=> s < n \/ s = n
    BY StripsAssumption
  <2> QED
    BY <2>1
<1>2. n \notin below
  OBVIOUS
<1>3. IsFiniteSet(below) /\ Cardinality(below) \in Nat
  <2>1. below \subseteq Strips
    OBVIOUS
  <2>2. IsFiniteSet(Strips)
    BY StripsAssumption, FS_Interval
  <2> HIDE DEF below, Strips
  <2> QED
    BY <2>1, <2>2, FS_Subset, FS_CardinalityType
<1>4. Cardinality(more) = Cardinality(below) + IF n \in S THEN 1 ELSE 0
  <2> HIDE DEF below, more
  <2>1. CASE n \in S
    <3>1. more = below \cup {n}
      BY <1>1, <2>1
    <3>2. Cardinality(below \cup {n}) = Cardinality(below) + 1
      BY <1>2, <1>3, FS_AddElement
    <3> QED
      BY <2>1, <3>1, <3>2
  <2>2. CASE n \notin S
    <3>1. more = below
      BY <1>1, <2>2
    <3> QED
      BY <1>3, <2>2, <3>1
  <2> QED
    BY <2>1, <2>2
<1> QED
  BY <1>1, <1>4

\* The same for the strips switched on.
LEMMA BelowStep ==
  ASSUME active_strips \subseteq Strips, NEW n \in Nat
  PROVE  /\ ActiveBelow(n + 1) = ActiveBelow(n) \cup (active_strips \cap {n})
         /\ Cardinality(ActiveBelow(n + 1)) =
              Cardinality(ActiveBelow(n)) + IF n \in active_strips THEN 1 ELSE 0
BY OneStripMore DEF ActiveBelow

\* FirstActiveStrip() and the first entry of the list are the same strip.
LEMMA FirstIsListed ==
  ASSUME active_strips \subseteq Strips, active_strip_indices \in Seq(Strips),
         Listed(MAX_STRIP_COUNT), Len(active_strip_indices) # 0
  PROVE  active_strip_indices[1] = FirstActiveStrip
<1> DEFINE n == Len(active_strip_indices)
           first == active_strip_indices[1]
<1>1. n \in Nat /\ 1 \in 1 .. n
  BY LenProperties
<1>2. first \in Strips
  BY <1>1, ElementOfSeq
<1>3. first \in active_strips
  BY <1>1, <1>2, BelowEnds DEF Listed
<1>4. \A t \in active_strips : first <= t
  <2> TAKE t \in active_strips
  <2>1. PICK i \in 1 .. n : active_strip_indices[i] = t
    BY BelowEnds DEF Listed
  <2>2. i = 1 \/ first < active_strip_indices[i]
    BY <1>1, <2>1 DEF Listed
  <2>3. t = first \/ first < t
    BY <2>1, <2>2
  <2>4. t \in Int /\ first \in Int
    BY <1>2, StripsAssumption DEF Strips
  <2> HIDE DEF first
  <2> QED
    BY <2>3, <2>4
<1>5. \A s \in active_strips : (\A t \in active_strips : s <= t) => s = first
  <2>1. active_strips \subseteq Int
    BY StripsAssumption DEF Strips
  <2> HIDE DEF first
  <2> QED
    BY <1>3, <1>4, <2>1
<1>6. FirstActiveStrip = CHOOSE s \in active_strips : \A t \in active_strips : s <= t
  BY <1>3 DEF FirstActiveStrip
<1>7. /\ FirstActiveStrip \in active_strips
      /\ \A t \in active_strips : FirstActiveStrip <= t
  <2> HIDE DEF first
  <2> QED
    BY <1>3, <1>4, <1>6
<1> QED
  BY <1>5, <1>7

\* One turn of ConvertActiveStrips' loop lists strip n, if that is switched on.
LEMMA ListedStep ==
  ASSUME active_strips \subseteq Strips, active_strip_indices \in Seq(Strips),
         NEW n \in Strips, Listed(n), UNCHANGED active_strips,
         active_strip_indices' =
           active_strip_indices \o IF n \in active_strips THEN <<n>> ELSE <<>>
  PROVE  Listed(n + 1)'
<1> DEFINE l == active_strip_indices
           m == active_strip_indices'
           c == Len(l)
<1>1. n \in Nat /\ c \in Nat /\ n + 1 \in Nat
  BY StripsAssumption, LenProperties DEF Strips
<1>2. ActiveBelow(n + 1)' = ActiveBelow(n + 1)
  BY DEF ActiveBelow
<1>3. /\ ActiveBelow(n + 1) = ActiveBelow(n) \cup (active_strips \cap {n})
      /\ Cardinality(ActiveBelow(n + 1)) =
           Cardinality(ActiveBelow(n)) + IF n \in active_strips THEN 1 ELSE 0
  BY <1>1, BelowStep
<1>4. \A i \in 1 .. c : l[i] \in Strips /\ l[i] \in ActiveBelow(n) /\ l[i] < n
  <2> TAKE i \in 1 .. c
  <2>1. l[i] \in Strips
    BY ElementOfSeq
  <2>2. l[i] \in ActiveBelow(n)
    BY <2>1 DEF Listed
  <2> QED
    BY <2>1, <2>2 DEF ActiveBelow
<1>5. CASE n \in active_strips
  <2>1. m = l \o <<n>>
    BY <1>5
  <2>2. /\ Len(m) = c + 1
        /\ \A i \in 1 .. c : m[i] = l[i]
        /\ m[c + 1] = n
    <3>1. m = Append(l, n)
      BY <2>1, AppendIsConcat
    <3> HIDE DEF m
    <3> QED
      BY <3>1, AppendProperties
  <2> HIDE DEF l, m
  <2>3. \A i, j \in 1 .. c + 1 : i < j => m[i] < m[j]
    <3> TAKE i, j \in 1 .. c + 1
    <3> HAVE i < j
    <3>1. i \in 1 .. c /\ (j = c + 1 \/ j \in 1 .. c)
      BY <1>1
    <3>2. CASE j = c + 1
      BY <1>4, <2>2, <3>1, <3>2
    <3>3. CASE j \in 1 .. c
      <4>1. l[i] < l[j]
        BY <3>1, <3>3 DEF Listed, l
      <4> QED
        BY <2>2, <3>1, <3>3, <4>1
    <3> QED
      BY <3>1, <3>2, <3>3
  <2>4. ASSUME NEW s \in Strips
        PROVE  s \in ActiveBelow(n + 1) <=> \E i \in 1 .. c + 1 : m[i] = s
    <3>1. s \in ActiveBelow(n + 1) <=> s \in ActiveBelow(n) \/ s = n
      BY <1>3, <1>5
    <3>2. (\E i \in 1 .. c + 1 : m[i] = s) <=> (\E i \in 1 .. c : l[i] = s) \/ s = n
      <4>1. \A i \in 1 .. c + 1 : i \in 1 .. c \/ i = c + 1
        BY <1>1
      <4>2. 1 .. c \subseteq 1 .. c + 1 /\ c + 1 \in 1 .. c + 1
        BY <1>1
      <4> QED
        BY <2>2, <4>1, <4>2
    <3> QED
      BY <3>1, <3>2 DEF Listed, l
  <2>5. Len(m) = Cardinality(ActiveBelow(n + 1))
    BY <1>3, <1>5, <2>2 DEF Listed, l
  <2> QED
    BY <1>2, <2>2, <2>3, <2>4, <2>5 DEF Listed, m
<1>6. CASE n \notin active_strips
  <2>1. m = l
    <3>1. m = l \o <<>>
      BY <1>6
    <3> QED
      BY <3>1, ConcatEmptySeq
  <2>2. ActiveBelow(n + 1) = ActiveBelow(n)
    BY <1>3, <1>6
  <2> QED
    BY <1>2, <2>1, <2>2 DEF Listed
<1> QED
  BY <1>5, <1>6

-----------------------------------------------------------------------------
(* A restart, with any number of requests before it: what main() has       *)
(* listed, and where the handlers are in that list.                        *)

USE DEF param_vars, index_vars, data_vars, hw_vars, sampler_vars, main_vars, vars

\* The index has been reset and what main() does from now on leaves it alone.
Restarted == pc \in {"count0"} \cup Restoring \/ Configured

\* The strips of the last request have been counted and listed.
ListReady == pc \in Preparing \cup Starting \cup Restoring \/ Configured

CountInv ==
  /\ ModbusFlag => pc \notin {"clear", "parse", "store"}
  /\ pc \in {"set", "count"} => g_strip_count = Cardinality(ActiveBelow(k))
  /\ (ModbusFlag /\ pc \notin {"zeroCount", "set", "count"}) \/ pc \in Choosing \/ ListReady =>
       g_strip_count = Cardinality(active_strips)

FillInv ==
  /\ pc = "fill" => k < MAX_STRIP_COUNT /\ Listed(k)
  /\ ListReady => Listed(MAX_STRIP_COUNT)

IndexInv ==
  Restarted /\ g_strip_count # 0 => current_active_strip_index < Len(active_strip_indices)

\* A round has ended since main() zeroed the results; while it does that, since it
\* zeroed the first.
RoundOver ==
  \/ pc = "zero" /\ (\E s \in Strips : s < k /\ resistance_array[s] # NoResult)
  \/ Configured /\ HasResults

StepInv ==
  RoundOver =>
    /\ g_strip_count # 0
    /\ mux = PinsOf(active_strip_indices[current_active_strip_index + 1])
    /\ Total_adc_summation.windows = current_active_strip_index

RestartInv == TypeInv /\ CountInv /\ FillInv /\ IndexInv /\ StepInv

\* What the handlers never touch.
LEMMA HandlersLeave ==
  ASSUME Tock \/ AdcSteps
  PROVE  UNCHANGED <<main_vars, param_vars, timerOn, adcOn, g_timestamp_ms>>
BY DEF Tock, AdcSteps, CTIMER2_IRQHandler, TickNoStrips, TickWithinWindow,
       TickClosesWindow, Convert, AdcHandlerLoad, AdcHandlerStore

\* Only the end of a window moves the index, the multiplexer and the results.
LEMMA OnlyClosingMoves ==
  ASSUME Tock \/ AdcSteps, ~ (Tock /\ TickClosesWindow)
  PROVE  UNCHANGED <<current_active_strip_index, mux, Total_adc_summation,
                     V_sens_strip_values, resistance_array, corrupted>>
BY DEF Tock, AdcSteps, CTIMER2_IRQHandler, TickNoStrips, TickWithinWindow,
       Convert, AdcHandlerLoad, AdcHandlerStore

\* main() itself stores nothing outside its arrays.
LEMMA MainCorruptsNothing ==
  ASSUME Receive \/ Main
  PROVE  UNCHANGED corrupted /\ ~corrupted
BY DEF Receive, Main, MainRuns, ClearStrip, ParseLine, StoreStrip, ZeroCount, SetStrip,
       CountStrip, InitPlate, InitMuxPin, SelectFirstPin, AllocateIndices, FillIndex,
       ADC_Voltage_Initialize, ADC_Current_Initialize, ResetAdc, ReadyAdc, StopTimer,
       StartTimer, ResetIndex, ResetCount, TimestampInit, ZeroResistance, At

\* main() comes to what follows ResetIndex through ResetIndex, and waits for a
\* request it has carried out only when it comes from there.
LEMMA MainEnters ==
  ASSUME Receive \/ Main
  PROVE  \/ ResetIndex
         \/ ResetCount \/ TimestampInit \/ ZeroResistance
         \/ ~Restarted' /\ ~RoundOver'
<1>1. ASSUME NEW loc, NextStrip(loc) PROVE pc' \in {pc, loc}
  BY <1>1 DEF NextStrip, Goto
<1>2. ASSUME NEW loc, NEW k0, NextPin(loc, k0) PROVE pc' \in {pc, loc}
  BY <1>2 DEF NextPin
<1>3. CASE ParseLine \/ InitPlate
  BY <1>3 DEF ParseLine, InitPlate, At, Goto, Restarted, RoundOver, Configured, Restoring
<1>4. CASE Receive \/ ClearStrip \/ StoreStrip \/ ZeroCount \/ SetStrip \/ CountStrip
  <2>1. pc' \in {"clear", "parse", "store", "zeroCount", "set", "count", "plate"}
    BY <1>1, <1>4 DEF Receive, ClearStrip, StoreStrip, ZeroCount, SetStrip, CountStrip, At, Goto
  <2> QED
    BY <2>1 DEF Restarted, RoundOver, Configured, Restoring
<1>5. CASE InitMuxPin \/ SelectFirstPin \/ AllocateIndices \/ FillIndex \/ StopTimer
           \/ StartTimer \/ ADC_Voltage_Initialize \/ ADC_Current_Initialize
  <2>1. pc' \in {"gpio", "select", "free", "fill", "index0"} \cup Preparing
    BY <1>1, <1>2, <1>5 DEF InitMuxPin, SelectFirstPin, AllocateIndices, FillIndex,
       StopTimer, StartTimer, ADC_Voltage_Initialize, ADC_Current_Initialize, ResetAdc,
       ReadyAdc, At, Goto, Preparing
  <2> QED
    BY <2>1 DEF Restarted, RoundOver, Configured, Restoring, Preparing
<1> QED
  BY <1>3, <1>4, <1>5 DEF Main

\* updateParameters, Modbus_UpdateParameters and ConvertActiveStrips count and list
\* the strips one by one.
LEMMA MainLists ==
  ASSUME TypeInv, CountInv, FillInv, Receive \/ Main
  PROVE  CountInv' /\ FillInv'
<1>1. active_strips \subseteq Strips /\ active_strip_indices \in Seq(Strips) /\ k \in Nat
  BY DEF TypeInv, TypeOK
<1>2. MAX_STRIP_COUNT \in Nat \ {0}
  BY StripsAssumption
<1> USE DEF ListReady, Preparing, Starting, Restoring, Choosing, Configured
<1>3. CASE Receive
  BY <1>3 DEF Receive, Goto, CountInv, FillInv
<1>4. CASE ClearStrip \/ ParseLine \/ StoreStrip
  <2>1. pc' \in {"clear", "parse", "store", "zeroCount", "read"} /\ ~ModbusFlag'
    BY <1>4 DEF ClearStrip, ParseLine, StoreStrip, NextStrip, At, Goto, CountInv
  <2>2. pc' = "read" => ~Configured'
    BY <1>4 DEF ClearStrip, ParseLine, StoreStrip, NextStrip, At, Goto
  <2> QED
    BY <2>1, <2>2 DEF CountInv, FillInv
<1>5. CASE ZeroCount
  <2>1. pc' \in {"set", "count"} /\ k' = 0 /\ g_strip_count' = 0
    BY <1>5 DEF ZeroCount, At, Goto
  <2>2. ActiveBelow(k)' = {}
    <3>1. ActiveBelow(k)' = ActiveBelow(0)
      BY <1>5, <2>1 DEF ZeroCount, ActiveBelow
    <3> QED
      BY <1>1, <3>1, BelowEnds
  <2>3. Cardinality({}) = 0
    BY FS_EmptySet
  <2> QED
    BY <2>1, <2>2, <2>3 DEF CountInv, FillInv
<1>11. CASE SetStrip
  <2>1. /\ pc = "set" /\ pc' = "count" /\ UNCHANGED <<k, g_strip_count>>
        /\ g_strip_count = Cardinality(ActiveBelow(k))
        /\ \A s \in Strips : s # k => (s \in active_strips' <=> s \in active_strips)
        /\ active_strips' \subseteq Strips
    BY <1>1, <1>11 DEF SetStrip, At, CountInv, TypeInv, TypeOK, Request
  <2>2. ActiveBelow(k)' = ActiveBelow(k)
    <3>1. \A s \in Strips : s < k => s # k
      BY <1>1, <1>2
    <3> QED
      BY <1>1, <2>1, <3>1 DEF ActiveBelow
  <2> QED
    BY <2>1, <2>2 DEF CountInv, FillInv
<1>6. CASE CountStrip
  <2>1. /\ pc = "count" /\ k < MAX_STRIP_COUNT
        /\ g_strip_count = Cardinality(ActiveBelow(k))
        /\ g_strip_count' = g_strip_count + IF k \in active_strips THEN 1 ELSE 0
        /\ active_strips' = active_strips
    BY <1>6 DEF CountStrip, At, CountInv, TypeInv, CountBounded
  <2>2. g_strip_count' = Cardinality(ActiveBelow(k + 1))
    BY <1>1, <2>1, BelowStep
  <2>3. CASE k + 1 < MAX_STRIP_COUNT
    <3>1. pc' \in {"set", "count"} /\ k' = k + 1
      BY <1>6, <2>1, <2>3 DEF CountStrip
    <3>2. ActiveBelow(k)' = ActiveBelow(k + 1)
      BY <2>1, <3>1 DEF ActiveBelow
    <3> QED
      BY <2>2, <3>1, <3>2 DEF CountInv, FillInv
  <2>4. CASE ~(k + 1 < MAX_STRIP_COUNT)
    <3>1. pc' = "plate" /\ k + 1 = MAX_STRIP_COUNT
      BY <1>1, <1>2, <1>6, <2>1, <2>4 DEF CountStrip, Goto
    <3>2. g_strip_count' = Cardinality(active_strips')
      BY <1>1, <2>1, <2>2, <3>1, BelowEnds
    <3> QED
      BY <3>1, <3>2 DEF CountInv, FillInv
  <2> QED
    BY <2>3, <2>4
<1>7. CASE InitPlate \/ InitMuxPin \/ SelectFirstPin
  <2>1. /\ pc \in {"plate", "gpio", "select"}
        /\ pc' \in {"plate", "gpio", "select", "free", "read", "returned"}
        /\ UNCHANGED <<param_vars, ModbusFlag>>
    BY <1>7 DEF InitPlate, InitMuxPin, SelectFirstPin, At, NextPin, Goto
  <2>2. pc' = "read" => ~Configured'
    BY <1>7 DEF InitPlate, InitMuxPin, SelectFirstPin, At, NextPin, Goto
  <2> QED
    BY <2>1, <2>2 DEF CountInv, FillInv
<1>8. CASE AllocateIndices
  <2>1. /\ pc = "free" /\ pc' = "fill" /\ k' = 0
        /\ active_strip_indices' = <<>> /\ UNCHANGED <<active_strips, g_strip_count, ModbusFlag>>
    BY <1>8 DEF AllocateIndices, At, Goto
  <2>2. Len(active_strip_indices') = 0
    BY <2>1
  <2>3. ActiveBelow(k)' = {} /\ Cardinality({}) = 0
    <3>1. ActiveBelow(k)' = ActiveBelow(0)
      BY <2>1 DEF ActiveBelow
    <3> QED
      BY <1>1, <3>1, BelowEnds, FS_EmptySet
  <2>4. Listed(k)'
    BY <2>2, <2>3 DEF Listed
  <2> QED
    BY <1>2, <2>1, <2>4 DEF CountInv, FillInv
<1>9. CASE FillIndex
  <2>1. /\ pc = "fill" /\ k < MAX_STRIP_COUNT /\ Listed(k)
        /\ g_strip_count = Cardinality(active_strips)
        /\ UNCHANGED <<active_strips, g_strip_count, ModbusFlag>>
    BY <1>9 DEF FillIndex, At, CountInv, FillInv
  <2>2. k \in Strips
    BY <1>1, <1>2, <2>1
  <2>3. PICK n \in Strips : n = k
    BY <2>2
  <2>4. Listed(n + 1)'
    <3>1. active_strip_indices' =
            active_strip_indices \o IF n \in active_strips THEN <<n>> ELSE <<>>
      BY <1>9, <2>3 DEF FillIndex
    <3> QED
      BY <1>1, <2>1, <2>3, <3>1, ListedStep
  <2>5. CASE n + 1 < MAX_STRIP_COUNT
    <3>1. pc' = "fill" /\ k' = n + 1
      BY <1>9, <2>1, <2>3, <2>5 DEF FillIndex, NextStrip
    <3>2. Listed(k)'
      BY <2>4, <3>1 DEF Listed, ActiveBelow
    <3> QED
      BY <2>1, <2>5, <3>1, <3>2 DEF CountInv, FillInv
  <2>6. CASE ~(n + 1 < MAX_STRIP_COUNT)
    <3>1. pc' = "resetV" /\ n + 1 = MAX_STRIP_COUNT
      BY <1>1, <1>2, <1>9, <2>1, <2>3, <2>6 DEF FillIndex, NextStrip, Goto
    <3>2. Listed(MAX_STRIP_COUNT)'
      BY <2>4, <3>1 DEF Listed, ActiveBelow
    <3> QED
      BY <2>1, <3>1, <3>2 DEF CountInv, FillInv
  <2> QED
    BY <2>5, <2>6
<1>10. CASE ADC_Voltage_Initialize \/ ADC_Current_Initialize \/ StopTimer \/ StartTimer
            \/ ResetIndex \/ ResetCount \/ TimestampInit \/ ZeroResistance
  <2>1. /\ pc \in Preparing \cup Starting \cup Restoring /\ UNCHANGED <<param_vars, ModbusFlag>>
        /\ pc' \in Preparing \cup Starting \cup Restoring \cup {"read"}
    BY <1>10 DEF ADC_Voltage_Initialize, ADC_Current_Initialize, ResetAdc, ReadyAdc,
       StopTimer, StartTimer, ResetIndex, ResetCount, TimestampInit, ZeroResistance, At,
       Goto, NextStrip
  <2>2. g_strip_count = Cardinality(active_strips) /\ Listed(MAX_STRIP_COUNT)
    BY <2>1 DEF CountInv, FillInv
  <2>3. Listed(MAX_STRIP_COUNT)'
    BY <2>1, <2>2 DEF Listed, ActiveBelow
  <2> QED
    BY <2>1, <2>2, <2>3 DEF CountInv, FillInv
<1> QED
  BY <1>3, <1>4, <1>5, <1>6, <1>7, <1>8, <1>9, <1>10, <1>11 DEF Main

\* The index after a window: the next entry, and behind the last the first.
LEMMA NextIndexWraps ==
  ASSUME current_active_strip_index \in Nat, g_strip_count \in Nat,
         current_active_strip_index < g_strip_count
  PROVE  NextIndex = IF current_active_strip_index + 1 = g_strip_count
                       THEN 0 ELSE current_active_strip_index + 1
<1>1. \A b \in Nat \ {0} : b % b = 0 /\ \A a \in 0 .. b - 1 : a % b = a
  OBVIOUS
<1> QED
  BY <1>1 DEF NextIndex

\* What the last tick of a window does when the list is what it should be.
LEMMA WindowCloses ==
  ASSUME TypeInv, TickClosesWindow, Listed(MAX_STRIP_COUNT),
         g_strip_count = Cardinality(active_strips), g_strip_count # 0,
         current_active_strip_index < Len(active_strip_indices)
  PROVE  /\ g_strip_count \in Nat \ {0} /\ Len(active_strip_indices) = g_strip_count
         /\ current_active_strip_index \in 0 .. g_strip_count - 1
         /\ NextIndex \in 0 .. g_strip_count - 1
         /\ mux' = PinsOf(active_strip_indices[NextIndex + 1])
         /\ active_strip_indices[current_active_strip_index + 1] \in Strips
         /\ V_sens_strip_values' =
              [V_sens_strip_values EXCEPT
                 ![active_strip_indices[current_active_strip_index + 1]] =
                   [n |-> sum["V"].n, time |-> g_timestamp_ms,
                    own |-> sum["V"].on[active_strip_indices[current_active_strip_index + 1]]]]
         /\ IF NextIndex = 0
              THEN /\ resistance_array' =
                        calculate_resistance_array(V_sens_strip_values', TotalWithWindow)
                   /\ Total_adc_summation' = NoTotal
              ELSE /\ Total_adc_summation' = TotalWithWindow
                   /\ UNCHANGED resistance_array
         /\ ~corrupted'
<1> DEFINE here == active_strip_indices[current_active_strip_index + 1]
           next == active_strip_indices[NextIndex + 1]
<1>1. /\ active_strips \subseteq Strips /\ active_strip_indices \in Seq(Strips)
      /\ g_strip_count \in Nat /\ current_active_strip_index \in Nat
  BY StripsAssumption, Uint8Assumption DEF TypeInv, TypeOK, Bytes
<1>3. Len(active_strip_indices) = g_strip_count
  BY <1>1, BelowEnds DEF Listed
<1>4. /\ current_active_strip_index \in 0 .. g_strip_count - 1
      /\ NextIndex \in 0 .. g_strip_count - 1
  BY <1>1, <1>3, NextIndexWraps
<1>5. here \in Strips /\ next \in Strips
  <2>1. \A i \in 0 .. g_strip_count - 1 : i + 1 \in 1 .. Len(active_strip_indices)
    BY <1>1, <1>3
  <2> QED
    BY <1>1, <1>4, <2>1, ElementOfSeq
<1>6. IndexBytes(current_active_strip_index) = {here} /\ IndexBytes(NextIndex) = {next}
  BY <1>1, <1>3, <1>4 DEF IndexBytes
<1>7. here # Wild /\ next # Wild
  BY <1>5, StripsAssumption DEF Strips, Wild
<1> HIDE DEF here, next
<1>8. LET values == [s \in Strips |->
                       IF s = here
                         THEN [n |-> sum["V"].n, own |-> sum["V"].on[s],
                               time |-> g_timestamp_ms]
                         ELSE V_sens_strip_values[s]]
      IN /\ V_sens_strip_values' = values
         /\ corrupted' \in StoreHits(here)
         /\ IF NextIndex = 0
              THEN /\ resistance_array' = calculate_resistance_array(values, TotalWithWindow)
                   /\ Total_adc_summation' = NoTotal
              ELSE /\ Total_adc_summation' = TotalWithWindow
                   /\ UNCHANGED resistance_array
         /\ SelectMuxChannel(next)
  BY <1>6 DEF TickClosesWindow
<1>9. mux' = PinsOf(next)
  BY <1>7, <1>8 DEF SelectMuxChannel
<1>10. V_sens_strip_values' =
         [V_sens_strip_values EXCEPT
            ![here] = [n |-> sum["V"].n, time |-> g_timestamp_ms, own |-> sum["V"].on[here]]]
  BY <1>5, <1>8 DEF TypeInv, TypeOK
<1>11. ~corrupted'
  BY <1>7, <1>8 DEF StoreHits
<1> QED
  BY <1>1, <1>3, <1>4, <1>5, <1>8, <1>9, <1>10, <1>11 DEF here, next

\* A handler that finds the strips of the last request leaves what main() has
\* counted and listed.
LEMMA HandlersKeepLists ==
  ASSUME CountInv, FillInv, Tock \/ AdcSteps
  PROVE  /\ CountInv' /\ FillInv'
         /\ Restarted' = Restarted /\ Configured' = Configured /\ ListReady' = ListReady
<1>1. UNCHANGED <<main_vars, param_vars, timerOn>>
  BY HandlersLeave
<1>2. \A n : Listed(n)' = Listed(n) /\ ActiveBelow(n)' = ActiveBelow(n)
  BY <1>1 DEF Listed, ActiveBelow
<1>3. Restarted' = Restarted /\ Configured' = Configured /\ ListReady' = ListReady
  BY <1>1 DEF Restarted, Configured, ListReady
<1> QED
  BY <1>1, <1>2, <1>3 DEF CountInv, FillInv

\* The tick that closes a window, after a restart.
LEMMA ClosingAfterRestart ==
  ASSUME RestartInv, Restarted, TickClosesWindow, g_strip_count # 0
  PROVE  /\ Listed(MAX_STRIP_COUNT) /\ g_strip_count = Cardinality(active_strips)
         /\ current_active_strip_index < Len(active_strip_indices)
<1>1. ListReady
  BY DEF Restarted, ListReady, Starting
<1> QED
  BY <1>1 DEF RestartInv, CountInv, FillInv, IndexInv

\* main() resets the index to that of the first strip, and the handlers take it
\* round the list.
LEMMA IndexInvStep ==
  ASSUME RestartInv, [Next]_vars
  PROVE  IndexInv'
<1>1. active_strips \subseteq Strips /\ active_strip_indices \in Seq(Strips)
  BY DEF RestartInv, TypeInv, TypeOK
<1>2. ASSUME UNCHANGED <<current_active_strip_index, param_vars>>, Restarted' => Restarted
      PROVE  IndexInv'
  BY <1>2 DEF RestartInv, IndexInv
<1>3. CASE ResetIndex
  <2>1. Listed(MAX_STRIP_COUNT) /\ g_strip_count = Cardinality(active_strips)
    BY <1>3 DEF ResetIndex, At, RestartInv, CountInv, FillInv, ListReady, Starting
  <2>2. Len(active_strip_indices) = g_strip_count /\ Len(active_strip_indices) \in Nat
    BY <1>1, <2>1, BelowEnds, LenProperties DEF Listed
  <2> QED
    BY <1>3, <2>2 DEF ResetIndex, IndexInv
<1>4. CASE ResetCount \/ TimestampInit \/ ZeroResistance
  BY <1>2, <1>4 DEF ResetCount, TimestampInit, ZeroResistance, At, Restarted, Restoring
<1>5. CASE (Receive \/ Main) /\ ~Restarted'
  BY <1>5 DEF IndexInv
<1>6. CASE Tock \/ AdcSteps
  <2>1. /\ UNCHANGED param_vars /\ Restarted' = Restarted
    BY <1>6, HandlersLeave, HandlersKeepLists DEF RestartInv
  <2>2. CASE Tock /\ TickClosesWindow
    <3> SUFFICES ASSUME Restarted, g_strip_count # 0
                 PROVE  current_active_strip_index' < Len(active_strip_indices)
      BY <2>1 DEF IndexInv
    <3>1. /\ g_strip_count \in Nat /\ Len(active_strip_indices) = g_strip_count
          /\ NextIndex \in 0 .. g_strip_count - 1
      BY <2>2, ClosingAfterRestart, WindowCloses DEF RestartInv
    <3> QED
      BY <2>2, <3>1 DEF TickClosesWindow
  <2>3. CASE ~ (Tock /\ TickClosesWindow)
    BY <1>2, <1>6, <2>1, <2>3, OnlyClosingMoves
  <2> QED
    BY <2>2, <2>3
<1>7. CASE UNCHANGED vars
  BY <1>2, <1>7 DEF Restarted, Configured
<1> QED
  BY <1>3, <1>4, <1>5, <1>6, <1>7, MainEnters DEF Next

\* The first round that ends brings pins and total in step with the index, whatever
\* the restart has made of them; they stay so.
LEMMA StepInvStep ==
  ASSUME RestartInv, [Next]_vars
  PROVE  StepInv'
<1>1. CASE ResetIndex \/ ResetCount \/ TimestampInit
  <2>1. pc' \in {"count0", "timestamp"} \/ (pc' = "zero" /\ k' = 0)
    BY <1>1 DEF ResetIndex, ResetCount, TimestampInit, At, Goto
  <2>2. \A s \in Strips : ~ (s < 0)
    BY StripsAssumption
  <2> QED
    BY <2>1, <2>2 DEF StepInv, RoundOver, Configured
<1>2. CASE ZeroResistance
  <2>1. /\ pc = "zero" /\ k \in Nat
        /\ UNCHANGED <<param_vars, current_active_strip_index, mux, Total_adc_summation>>
        /\ resistance_array' = [resistance_array EXCEPT ![k] = NoResult]
    BY <1>2 DEF ZeroResistance, At, Zeroed, RestartInv, TypeInv, TypeOK
  <2>2. \A s \in Strips : resistance_array'[s] # NoResult =>
          s # k /\ resistance_array[s] # NoResult
    BY <2>1 DEF RestartInv, TypeInv, TypeOK
  <2>3. \/ pc' = "zero" /\ k' = k + 1
        \/ pc' = "read" /\ k + 1 >= MAX_STRIP_COUNT
    BY <1>2, <2>1, StripsAssumption DEF ZeroResistance, NextStrip, Goto
  <2>4. RoundOver' => \E s \in Strips : s < k /\ resistance_array[s] # NoResult
    <3> SUFFICES ASSUME RoundOver'
                 PROVE  \E s \in Strips : s < k /\ resistance_array[s] # NoResult
      OBVIOUS
    <3>1. active_strips' \subseteq Strips
      BY <2>1 DEF RestartInv, TypeInv, TypeOK
    <3>2. PICK s \in Strips : /\ resistance_array'[s] # NoResult
                              /\ pc' = "zero" => s < k'
      BY <2>3, <3>1 DEF RoundOver, HasResults, Configured
    <3>3. s # k /\ resistance_array[s] # NoResult
      BY <2>2, <3>2
    <3>4. s < k
      BY <2>1, <2>3, <3>2, <3>3, StripsAssumption
    <3> QED
      BY <3>3, <3>4
  <2>5. RoundOver' => RoundOver
    BY <2>1, <2>4 DEF RoundOver
  <2> QED
    BY <2>1, <2>5 DEF RestartInv, StepInv, PinsOf, Bit
<1>3. CASE (Receive \/ Main) /\ ~RoundOver'
  BY <1>3 DEF StepInv
<1>4. CASE Tock /\ TickClosesWindow
  <2> SUFFICES ASSUME RoundOver'
               PROVE  /\ g_strip_count' # 0
                      /\ mux' = PinsOf(active_strip_indices'[current_active_strip_index' + 1])
                      /\ Total_adc_summation'.windows = current_active_strip_index'
    BY DEF StepInv, PinsOf, Bit
  <2>1. UNCHANGED <<main_vars, param_vars, timerOn>>
    BY <1>4, HandlersLeave
  <2>2. Restarted
    BY <2>1 DEF RoundOver, Restarted, Configured, Restoring
  <2>3. g_strip_count # 0 \/ UNCHANGED resistance_array
    <3> SUFFICES ASSUME g_strip_count = 0 PROVE UNCHANGED resistance_array
      OBVIOUS
    <3>1. active_strips = {}
      <4>1. g_strip_count = Cardinality(active_strips)
        BY <2>2 DEF RestartInv, CountInv, ListReady, Restarted, Starting
      <4>2. IsFiniteSet(active_strips)
        <5>1. active_strips \subseteq Strips /\ IsFiniteSet(Strips)
          BY StripsAssumption, FS_Interval DEF RestartInv, TypeInv, TypeOK
        <5> QED
          BY <5>1, FS_Subset
      <4> QED
        BY <4>1, <4>2, FS_EmptySet
    <3>2. \A values, total :
            calculate_resistance_array(values, total) = resistance_array
      BY <3>1 DEF calculate_resistance_array, RestartInv, TypeInv, TypeOK
    <3> QED
      BY <1>4, <3>2 DEF TickClosesWindow
  <2>4. g_strip_count # 0
    <3> SUFFICES ASSUME UNCHANGED resistance_array PROVE g_strip_count # 0
      BY <2>3
    <3>1. RoundOver
      BY <2>1 DEF RoundOver, Configured, HasResults
    <3> QED
      BY <3>1 DEF RestartInv, StepInv
  <2>5. /\ g_strip_count \in Nat \ {0} /\ Len(active_strip_indices) = g_strip_count
        /\ current_active_strip_index \in 0 .. g_strip_count - 1
        /\ mux' = PinsOf(active_strip_indices[NextIndex + 1])
        /\ IF NextIndex = 0
             THEN Total_adc_summation' = NoTotal
             ELSE /\ Total_adc_summation' = TotalWithWindow
                  /\ UNCHANGED resistance_array
    BY <1>4, <2>2, <2>4, ClosingAfterRestart, WindowCloses DEF RestartInv
  <2>6. current_active_strip_index' = NextIndex
    BY <1>4 DEF TickClosesWindow
  <2>7. CASE NextIndex = 0
    BY <2>1, <2>4, <2>5, <2>6, <2>7 DEF NoTotal
  <2>8. CASE NextIndex # 0
    <3>1. RoundOver
      BY <2>1, <2>5, <2>8 DEF RoundOver, Configured, HasResults
    <3>2. Total_adc_summation.windows = current_active_strip_index
      BY <3>1 DEF RestartInv, StepInv
    <3>3. NextIndex = current_active_strip_index + 1
      BY <2>5, <2>8, NextIndexWraps
    <3> QED
      BY <2>1, <2>4, <2>5, <2>6, <2>8, <3>2, <3>3 DEF TotalWithWindow
  <2> QED
    BY <2>7, <2>8
<1>5. ASSUME UNCHANGED <<main_vars, param_vars, timerOn, current_active_strip_index, mux,
                         Total_adc_summation, resistance_array>>
      PROVE  StepInv'
  BY <1>5 DEF RestartInv, StepInv, RoundOver, Configured, HasResults, PinsOf, Bit
<1>6. CASE (Tock \/ AdcSteps) /\ ~(Tock /\ TickClosesWindow)
  BY <1>5, <1>6, HandlersLeave, OnlyClosingMoves
<1>7. CASE UNCHANGED vars
  BY <1>5, <1>7
<1> QED
  BY <1>1, <1>2, <1>3, <1>4, <1>6, <1>7, MainEnters DEF Next

\* At program start nothing is listed and nothing runs.
LEMMA RestartInit == Init => RestartInv
<1> SUFFICES ASSUME Init PROVE RestartInv
  OBVIOUS
<1>1. /\ pc = "read" /\ ~timerOn /\ active_strips = {} /\ g_strip_count = 0
      /\ ~Configured
  BY DEF Init, SamplerInit, Configured
<1>2. Cardinality({}) = 0
  BY FS_EmptySet
<1> QED
  BY <1>1, <1>2, TypeInvInit DEF RestartInv, CountInv, FillInv, IndexInv, StepInv,
     Restarted, ListReady, RoundOver, Preparing, Starting, Restoring, Choosing

\* Every step keeps what a restart leaves behind, whenever its ticks come.
LEMMA RestartInvStep == RestartInv /\ [Next]_vars => RestartInv'
<1> SUFFICES ASSUME RestartInv, [Next]_vars PROVE RestartInv'
  OBVIOUS
<1>1. TypeInv'
  BY HandlersKeepTypes, MainKeepsTypes, TypeInvStutter DEF Next, RestartInv
<1>2. CountInv' /\ FillInv'
  <2>1. CASE UNCHANGED vars
    BY <2>1 DEF RestartInv, CountInv, FillInv, ListReady, Configured, Listed, ActiveBelow
  <2> QED
    BY <2>1, MainLists, HandlersKeepLists DEF Next, RestartInv
<1> QED
  BY <1>1, <1>2, IndexInvStep, StepInvStep DEF RestartInv

\* The inductive invariant of any sequence of restarts.
LEMMA RestartInvariant == Spec => []RestartInv
BY RestartInit, RestartInvStep, PTL DEF Spec

\* However a restart meets the old measurement's ticks: when it is over, no store outside
\* V_sens_strip_values has hit a variable, and one round has ended, the index, the
\* multiplexer and the total agree (CTIMER2_IRQHandler).
THEOREM InStepAfterRestart == Spec => []InStepAgain
<1>1. RestartInv => InStepAgain
  <2> SUFFICES ASSUME RestartInv, Configured, HasResults PROVE InStepAgain
    BY DEF InStepAgain, Settled
  <2> QED
    BY DEF InStepAgain, RestartInv, StepInv, IndexInv, RoundOver, Restarted
<1> QED
  BY <1>1, RestartInvariant, PTL

\* While main() waits after a request it has carried out, the handler never reads
\* active_strip_indices outside what is allocated, whatever requests came before, and
\* the windows it closes store nothing outside V_sens_strip_values: a store that does
\* damage comes while a request is carried out, or never.
THEOREM ReadsListAfterRestart ==
  Spec => /\ [](Settled => IndexWithinAllocation)
          /\ [][Settled /\ g_strip_count # 0 => ~corrupted']_vars
<1>1. RestartInv => (Settled => IndexWithinAllocation)
  BY DEF RestartInv, IndexInv, Restarted, IndexWithinAllocation, Settled
<1>2. RestartInv /\ [Next]_vars => (Settled /\ g_strip_count # 0 => ~corrupted')
  <2> SUFFICES ASSUME RestartInv, [Next]_vars, Configured, ~corrupted, g_strip_count # 0
               PROVE  ~corrupted'
    BY DEF Settled
  <2>1. CASE Tock /\ TickClosesWindow
    <3>1. Restarted
      BY DEF Restarted
    <3> QED
      BY <2>1, <3>1, ClosingAfterRestart, WindowCloses DEF RestartInv
  <2>2. CASE ~(Tock /\ TickClosesWindow)
    BY <2>2, MainCorruptsNothing, OnlyClosingMoves DEF Next
  <2> QED
    BY <2>1, <2>2
<1> QED
  BY <1>1, <1>2, RestartInvariant, PTL DEF Spec

\* The GUI sends one line; ticks may be as late as they like.
OneRequest == PowerSources \subseteq {FALSE} /\ Len(Requests) <= 1

\* The timer is started once, behind the list, and with the index still 0.
FirstInv ==
  /\ ModbusFlag = FALSE /\ ~corrupted
  /\ accepted = 0 => pc = "read" /\ ~timerOn
  /\ timerOn => /\ pc \in Starting \cup Restoring \cup {"read"}
                /\ Listed(MAX_STRIP_COUNT) /\ g_strip_count = Cardinality(active_strips)
  /\ ~timerOn => current_active_strip_index = 0
  /\ timerOn /\ g_strip_count # 0 =>
       current_active_strip_index < Len(active_strip_indices)

\* One request only: every statement of main() but the start of the timer comes before
\* it or leaves the list as it is.
LEMMA FirstInvStep ==
  ASSUME OneRequest, RestartInv, FirstInv, [Next]_vars
  PROVE  FirstInv'
<1> USE DEF Starting, Restoring
<1>1. TypeInv /\ active_strips \subseteq Strips
  BY DEF RestartInv, TypeInv, TypeOK
<1>2. ASSUME UNCHANGED <<ModbusFlag, corrupted, accepted, timerOn,
                         current_active_strip_index>>,
             accepted' # 0, ~timerOn
      PROVE  FirstInv'
  BY <1>2 DEF FirstInv
<1>3. ASSUME UNCHANGED <<ModbusFlag, corrupted, accepted, timerOn, param_vars,
                         current_active_strip_index>>,
             accepted = 0 => pc' = pc,
             timerOn => pc' \in Starting \cup Restoring \cup {"read"}
      PROVE  FirstInv'
  BY <1>3 DEF FirstInv, Listed, ActiveBelow
<1>4. CASE Receive
  <2>1. accepted = 0
    BY <1>1, <1>4 DEF Receive, OneRequest, TypeInv, TypeOK
  <2> QED
    BY <1>1, <1>4, <2>1 DEF Receive, FirstInv, TypeInv, TypeOK
<1>5. CASE ClearStrip \/ ParseLine \/ StoreStrip \/ ZeroCount \/ SetStrip \/ CountStrip \/ InitPlate
           \/ InitMuxPin \/ SelectFirstPin \/ AllocateIndices \/ FillIndex
           \/ ADC_Voltage_Initialize \/ ADC_Current_Initialize
  <2>1. /\ pc \notin Starting \cup Restoring \cup {"read"}
        /\ UNCHANGED <<ModbusFlag, corrupted, accepted, timerOn, current_active_strip_index>>
    BY <1>5 DEF ClearStrip, ParseLine, StoreStrip, ZeroCount, SetStrip, CountStrip, InitPlate,
       InitMuxPin, SelectFirstPin, AllocateIndices, FillIndex, ADC_Voltage_Initialize,
       ADC_Current_Initialize, ResetAdc, ReadyAdc, At
  <2> QED
    BY <1>2, <2>1 DEF FirstInv
<1>6. CASE StopTimer
  <2>1. pc = "stop" /\ timerOn' = FALSE /\ accepted # 0 /\ ~timerOn
        /\ UNCHANGED <<ModbusFlag, corrupted, accepted, current_active_strip_index>>
    BY <1>6 DEF StopTimer, At, FirstInv
  <2> QED
    BY <2>1 DEF FirstInv
<1>7. CASE StartTimer
  <2>1. /\ pc = "start" /\ ~timerOn /\ accepted # 0 /\ pc' = "index0"
        /\ UNCHANGED <<ModbusFlag, corrupted, accepted, current_active_strip_index, param_vars>>
    BY <1>7 DEF StartTimer, At, Goto, FirstInv
  <2>2. Listed(MAX_STRIP_COUNT) /\ g_strip_count = Cardinality(active_strips)
    BY <2>1 DEF RestartInv, CountInv, FillInv, ListReady, Preparing
  <2>3. Len(active_strip_indices) = g_strip_count /\ g_strip_count \in Nat
    BY <1>1, <2>2, BelowEnds, BelowFinite DEF Listed
  <2>4. Listed(MAX_STRIP_COUNT)'
    BY <2>1, <2>2 DEF Listed, ActiveBelow
  <2> QED
    BY <2>1, <2>2, <2>3, <2>4 DEF FirstInv
<1>8. CASE ResetIndex
  <2>1. /\ pc = "index0" /\ pc' = "count0" /\ current_active_strip_index' = 0
        /\ UNCHANGED <<ModbusFlag, corrupted, accepted, timerOn, param_vars>>
    BY <1>8 DEF ResetIndex, At, Goto
  <2>2. current_active_strip_index \in Nat
    BY <1>1, Uint8Assumption, StripsAssumption DEF TypeInv, TypeOK, Bytes
  <2>3. Len(active_strip_indices) \in Nat
    BY <1>1, LenProperties DEF TypeInv, TypeOK
  <2>4. Listed(MAX_STRIP_COUNT)' = Listed(MAX_STRIP_COUNT)
    BY <2>1 DEF Listed, ActiveBelow
  <2> QED
    BY <2>1, <2>2, <2>3, <2>4 DEF FirstInv
<1>9. CASE ResetCount \/ TimestampInit \/ ZeroResistance
  <2>1. /\ pc \in {"count0", "timestamp", "zero"} /\ accepted # 0
        /\ UNCHANGED <<ModbusFlag, corrupted, accepted, timerOn, param_vars, current_active_strip_index>>
    BY <1>9 DEF ResetCount, TimestampInit, ZeroResistance, At, FirstInv
  <2>2. pc' \in {"timestamp", "zero", "read"}
    BY <1>9 DEF ResetCount, TimestampInit, ZeroResistance, At, Goto, NextStrip
  <2> QED
    BY <1>3, <2>1, <2>2
<1>10. CASE Tock /\ TickClosesWindow
  <2>1. /\ UNCHANGED <<main_vars, param_vars, timerOn>> /\ timerOn /\ g_strip_count # 0
        /\ current_active_strip_index' = NextIndex
    BY <1>10, HandlersLeave DEF TickClosesWindow, Tick, FirstInv
  <2>2. /\ Len(active_strip_indices) = g_strip_count /\ g_strip_count \in Nat
        /\ NextIndex \in 0 .. g_strip_count - 1 /\ ~corrupted'
    BY <1>1, <1>10, <2>1, WindowCloses DEF FirstInv
  <2>3. Listed(MAX_STRIP_COUNT)' = Listed(MAX_STRIP_COUNT)
    BY <2>1 DEF Listed, ActiveBelow
  <2> QED
    BY <2>1, <2>2, <2>3 DEF FirstInv
<1>11. CASE (Tock \/ AdcSteps) /\ ~(Tock /\ TickClosesWindow)
  BY <1>3, <1>11, HandlersLeave, OnlyClosingMoves DEF FirstInv
<1>12. CASE UNCHANGED vars
  BY <1>3, <1>12 DEF FirstInv
<1> QED
  BY <1>4, <1>5, <1>6, <1>7, <1>8, <1>9, <1>10, <1>11, <1>12 DEF Next, Main

\* When the GUI's line is the only request, CTIMER2_IRQHandler never reads
\* active_strip_indices outside what ConvertActiveStrips has allocated, however late
\* its ticks are.
THEOREM ReadsWhatIsAllocated == OneRequest => (Spec => []IndexWithinAllocation)
<1> SUFFICES ASSUME OneRequest PROVE Spec => []IndexWithinAllocation
  OBVIOUS
<1>1. Init => FirstInv
  BY DEF OneRequest, Init, readPowerSource, SamplerInit, FirstInv
<1>2. RestartInv /\ FirstInv /\ [Next]_vars => FirstInv'
  BY FirstInvStep
<1>3. FirstInv => IndexWithinAllocation
  BY DEF FirstInv, IndexWithinAllocation
<1> QED
  BY <1>1, <1>2, <1>3, RestartInvariant, PTL DEF Spec

-----------------------------------------------------------------------------
(* A restart whose ticks are on time: the first round that ends may still  *)
(* be mixed, every later one is exact.                                     *)

\* No tick comes between an ADC handler's load and its store.
HandlerInv == isr = NoIsr \/ (isr.adc \in ADC /\ isr.base = sum[isr.adc])

\* A converter is ready from LPADC_SetConvTriggerConfig on.
AdcInv ==
  /\ (pc \in {"resetC", "readyC", "stop", "start", "index0"} \/ Restarted) => adcOn["V"]
  /\ (pc \in {"stop", "start", "index0"} \/ Restarted) => adcOn["C"]

\* SysTick has been restarted for the last request.
TimeInv == pc = "zero" \/ Configured => g_timestamp_ms = accepted

\* No window ends before the last result has been zeroed, and an inactive
\* strip's stays so.
ZeroInv ==
  /\ pc \in {"count0"} \cup Restoring => current_active_strip_index = 0
  /\ pc = "zero" => \A s \in Strips : s < k => resistance_array[s] = NoResult
  /\ Configured => \A s \in Strips \ active_strips : resistance_array[s] = NoResult

\* From the first window that ends on, what is outstanding is what this window's
\* ticks have triggered and the result of the tick that closed the one before.
CatchUpInv ==
  Configured /\ g_strip_count # 0 /\ (current_active_strip_index > 0 \/ HasResults) =>
    \A a \in ADC : Outstanding(a) = currentCountIndex + 1

\* The j-th strip's window is one of this measurement's and full.
FullWindow(j) ==
  LET v == V_sens_strip_values[active_strip_indices[j]]
  IN v.n = SoftwareAverageCount /\ v.time = accepted

\* The windows stored in the running round, except for the very first.
RoundInv ==
  Configured /\ HasResults =>
    /\ \A j \in 1 .. Len(active_strip_indices) :
         j <= current_active_strip_index => FullWindow(j)
    /\ Total_adc_summation.conversions = SoftwareAverageCount * current_active_strip_index

OnTimeInv ==
  RestartInv /\ HandlerInv /\ AdcInv /\ TimeInv /\ ZeroInv /\ CatchUpInv /\ RoundInv

\* An ADC handler runs to its end before the next tick, and main() waits for it.
LEMMA HandlerInvStep ==
  ASSUME TypeInv, HandlerInv, TicksOnTime, [Next]_vars
  PROVE  HandlerInv'
<1>1. ASSUME UNCHANGED <<isr, sum>> PROVE HandlerInv'
  BY <1>1 DEF HandlerInv, NoIsr, PinsOf, Bit
<1>2. ASSUME isr = NoIsr, UNCHANGED isr PROVE HandlerInv'
  BY <1>2 DEF HandlerInv, NoIsr, PinsOf, Bit
<1>3. CASE Receive \/ Main
  <2>1. isr = NoIsr
    BY <1>3 DEF Receive, Main, At, MainRuns, ClearStrip, ParseLine, StoreStrip,
       ZeroCount, SetStrip, CountStrip, InitPlate, InitMuxPin, SelectFirstPin, AllocateIndices,
       FillIndex, ADC_Voltage_Initialize, ADC_Current_Initialize, ResetAdc, ReadyAdc,
       StopTimer, StartTimer, ResetIndex, ResetCount, TimestampInit, ZeroResistance
  <2>2. UNCHANGED isr
    BY <1>3 DEF Receive, Main, ClearStrip, ParseLine, StoreStrip,
       ZeroCount, SetStrip, CountStrip, InitPlate, InitMuxPin, SelectFirstPin, AllocateIndices,
       FillIndex, ADC_Voltage_Initialize, ADC_Current_Initialize, ResetAdc, ReadyAdc,
       StopTimer, StartTimer, ResetIndex, ResetCount, TimestampInit, ZeroResistance
  <2> QED
    BY <1>2, <2>1, <2>2
<1>4. CASE Tock
  <2>1. isr = NoIsr /\ UNCHANGED isr
    BY <1>4 DEF Tock, CTIMER2_IRQHandler, TickNoStrips, TickWithinWindow,
       TickClosesWindow, Tick
  <2> QED
    BY <1>2, <2>1
<1>5. CASE AdcSteps
  <2>1. ASSUME NEW a \in ADC, Convert(a) PROVE HandlerInv'
    BY <1>1, <2>1 DEF Convert
  <2>2. ASSUME NEW a \in ADC, AdcHandlerLoad(a) PROVE HandlerInv'
    BY <2>2 DEF AdcHandlerLoad, HandlerInv
  <2>3. ASSUME AdcHandlerStore PROVE HandlerInv'
    BY <2>3 DEF AdcHandlerStore, HandlerInv, NoIsr, PinsOf, Bit
  <2> QED
    BY <1>5, <2>1, <2>2, <2>3 DEF AdcSteps
<1>6. CASE UNCHANGED vars
  BY <1>1, <1>6
<1> QED
  BY <1>3, <1>4, <1>5, <1>6 DEF Next

\* Wherever the pins stand, a running conversion is not mistaken for none.
LEMMA PinsAreNotIdle == \A pins \in Pins : pins # Idle
<1> TAKE pins \in Pins
<1>1. DOMAIN pins = MuxPins /\ 1 \in MuxPins
  BY WeightsAssumption DEF Pins
<1>2. DOMAIN Idle = {}
  BY DEF Idle
<1> QED
  BY <1>1, <1>2

\* The end of a conversion and the ADC handlers pass results on and lose none.
LEMMA AdcKeepsOutstanding ==
  ASSUME TypeInv, HandlerInv, AdcSteps
  PROVE  /\ \A a \in ADC : Outstanding(a)' = Outstanding(a)
         /\ UNCHANGED <<index_vars, Total_adc_summation, V_sens_strip_values,
                        resistance_array, g_timestamp_ms>>
<1>1. /\ sum \in [ADC -> Sums] /\ fifo \in [ADC -> Seq(Pins)]
      /\ conv \in [ADC -> Pins \cup {Idle}]
      /\ \A a \in ADC : Len(fifo[a]) \in Nat /\ sum[a].n \in Nat
  BY LenProperties DEF TypeInv, TypeOK, Sums
<1>2. ASSUME NEW a \in ADC, Convert(a) PROVE \A b \in ADC : Outstanding(b)' = Outstanding(b)
  <2>1. PICK pins \in IF a = "V" THEN {conv[a], mux} ELSE {PinsOf(0)} :
             fifo' = [fifo EXCEPT ![a] = Append(@, pins)]
    BY <1>2 DEF Convert
  <2>2. /\ conv[a] \in Pins /\ conv[a] # Idle
        /\ conv' = [conv EXCEPT ![a] = Idle] /\ UNCHANGED <<sum, isr>>
    BY <1>1, <1>2 DEF Convert
  <2>3. pins \in Pins
    BY <2>1, <2>2, PinsOfType DEF TypeInv, TypeOK
  <2>4. Len(fifo'[a]) = Len(fifo[a]) + 1
    BY <1>1, <2>1, <2>3, AppendProperties
  <2> TAKE b \in ADC
  <2>5. CASE b = a
    <3>1. conv'[a] = Idle
      BY <1>1, <2>2
    <3>2. /\ Len(fifo'[a]) = Len(fifo[a]) + 1 /\ Len(fifo[a]) \in Nat
          /\ sum' = sum /\ isr' = isr /\ sum[a].n \in Nat
      BY <1>1, <2>2, <2>4
    <3> QED
      BY <2>2, <2>5, <3>1, <3>2 DEF Outstanding
  <2>6. CASE b # a
    BY <1>1, <2>1, <2>2, <2>6 DEF Outstanding
  <2> QED
    BY <2>5, <2>6
<1>3. ASSUME NEW a \in ADC, AdcHandlerLoad(a)
      PROVE  \A b \in ADC : Outstanding(b)' = Outstanding(b)
  <2>1. /\ isr = NoIsr /\ isr'.adc = a /\ UNCHANGED <<sum, conv>>
        /\ fifo' = [fifo EXCEPT ![a] = Tail(@)] /\ fifo[a] # <<>>
    BY <1>3 DEF AdcHandlerLoad
  <2>2. Len(fifo'[a]) = Len(fifo[a]) - 1
    BY <1>1, <2>1, HeadTailProperties
  <2> TAKE b \in ADC
  <2>3. CASE b = a
    <3>1. /\ isr.adc # a /\ isr'.adc = a /\ sum[a].n \in Nat /\ Len(fifo[a]) \in Nat
          /\ sum' = sum /\ conv' = conv /\ Len(fifo'[a]) = Len(fifo[a]) - 1
      BY <1>1, <2>1, <2>2 DEF NoIsr
    <3> QED
      BY <2>3, <3>1 DEF Outstanding
  <2>4. CASE b # a
    <3>1. fifo'[b] = fifo[b] /\ isr.adc # b /\ isr'.adc # b
      BY <1>1, <2>1, <2>4 DEF NoIsr
    <3> QED
      BY <2>1, <3>1 DEF Outstanding
  <2> QED
    BY <2>3, <2>4
<1>4. ASSUME AdcHandlerStore PROVE \A b \in ADC : Outstanding(b)' = Outstanding(b)
  <2> DEFINE a == isr.adc
  <2>1. a \in ADC /\ isr.base = sum[a]
    BY <1>4 DEF AdcHandlerStore, HandlerInv
  <2>2. /\ sum' = [sum EXCEPT ![a] = Add(a, sum[a], isr.pins)] /\ isr'.adc = "none"
        /\ UNCHANGED <<conv, fifo>>
    BY <1>4, <2>1 DEF AdcHandlerStore, NoIsr
  <2>3. /\ sum'[a].n = sum[a].n + 1
        /\ \A b \in ADC : b # a => sum'[b] = sum[b]
    BY <1>1, <2>1, <2>2 DEF Add
  <2> TAKE b \in ADC
  <2>4. b # "none"
    OBVIOUS
  <2>5. CASE b = a
    <3>1. /\ sum'[b].n = sum[b].n + 1 /\ sum[b].n \in Nat /\ Len(fifo[b]) \in Nat
          /\ conv' = conv /\ fifo' = fifo /\ isr'.adc # b
      BY <1>1, <2>1, <2>2, <2>3, <2>4, <2>5
    <3> QED
      BY <2>5, <3>1 DEF Outstanding
  <2>6. CASE b # a
    BY <2>2, <2>3, <2>4, <2>6 DEF Outstanding
  <2> QED
    BY <2>5, <2>6
<1> QED
  BY <1>2, <1>3, <1>4 DEF AdcSteps, Convert, AdcHandlerLoad, AdcHandlerStore

\* main() readies both converters again before it resets the index.
LEMMA AdcInvStep ==
  ASSUME TypeInv, AdcInv, [Next]_vars
  PROVE  AdcInv'
<1> USE DEF Restarted, Restoring, Configured
<1>1. ASSUME UNCHANGED <<pc, timerOn, req, adcOn>> PROVE AdcInv'
  BY <1>1 DEF AdcInv
<1>2. ASSUME pc' \notin {"resetC", "readyC", "stop", "start", "index0"}, ~Restarted'
      PROVE  AdcInv'
  BY <1>2 DEF AdcInv
<1>3. CASE ADC_Voltage_Initialize \/ ADC_Current_Initialize
  <2>1. CASE ResetAdc("V", "resetV", "readyV")
    BY <1>2, <2>1 DEF ResetAdc, Goto
  <2>2. CASE ReadyAdc("V", "readyV", "resetC")
    BY <2>2 DEF ReadyAdc, Goto, AdcInv, TypeInv, TypeOK
  <2>3. CASE ResetAdc("C", "resetC", "readyC")
    BY <2>3 DEF ResetAdc, At, Goto, AdcInv, TypeInv, TypeOK
  <2>4. CASE ReadyAdc("C", "readyC", "stop")
    BY <2>4 DEF ReadyAdc, At, Goto, AdcInv, TypeInv, TypeOK
  <2> QED
    BY <1>3, <2>1, <2>2, <2>3, <2>4 DEF ADC_Voltage_Initialize, ADC_Current_Initialize
<1>4. CASE StopTimer \/ StartTimer \/ ResetIndex \/ ResetCount \/ TimestampInit
           \/ ZeroResistance
  <2>1. /\ pc \in {"stop", "start", "index0", "count0", "timestamp", "zero"}
        /\ UNCHANGED adcOn
    BY <1>4 DEF StopTimer, StartTimer, ResetIndex, ResetCount, TimestampInit,
       ZeroResistance, At
  <2> QED
    BY <2>1 DEF AdcInv
<1>5. CASE Receive \/ ClearStrip \/ ParseLine \/ StoreStrip \/ ZeroCount \/ SetStrip \/ CountStrip
           \/ InitPlate \/ InitMuxPin \/ SelectFirstPin \/ AllocateIndices \/ FillIndex
  <2>1. ~Restarted'
    <3>1. ~(ResetIndex \/ ResetCount \/ TimestampInit \/ ZeroResistance)
      BY <1>5 DEF Receive, ClearStrip, ParseLine, StoreStrip, ZeroCount, SetStrip, CountStrip,
         InitPlate, InitMuxPin, SelectFirstPin, AllocateIndices, FillIndex, ResetIndex,
         ResetCount, TimestampInit, ZeroResistance, At
    <3> QED
      BY <1>5, <3>1, MainEnters DEF Main
  <2>2. pc' \notin {"resetC", "readyC", "stop", "start", "index0"}
    BY <1>5 DEF Receive, ClearStrip, ParseLine, StoreStrip, ZeroCount, SetStrip, CountStrip,
       InitPlate, InitMuxPin, SelectFirstPin, AllocateIndices, FillIndex, At, Goto,
       NextStrip, NextPin
  <2> QED
    BY <1>2, <2>1, <2>2
<1>6. CASE Tock \/ AdcSteps
  BY <1>1, <1>6, HandlersLeave
<1>7. CASE UNCHANGED vars
  BY <1>1, <1>7
<1> QED
  BY <1>3, <1>4, <1>5, <1>6, <1>7 DEF Next, Main

\* InitialisedOnTime: no window ends between the start of the timer and the end of
\* InitializeAllPeripherals.
LEMMA ClosesWhileWaiting ==
  ASSUME TypeInv, TicksOnTime, Tock, TickClosesWindow
  PROVE  pc \notin {"index0", "count0"} \cup Restoring
<1>1. currentCountIndex \in Int /\ SoftwareAverageCount \in Int
  BY AverageAssumption DEF TypeInv, TypeOK
<1> QED
  BY <1>1 DEF Tock, TickClosesWindow, WindowOver, InitialisedOnTime, Restoring

\* The last turn of the loop that zeroes resistance_array leaves no result.
LEMMA ZeroingEnds ==
  ASSUME TypeInv, ZeroInv, ZeroResistance
  PROVE  \A s \in Strips : pc' = "read" \/ s < k' => resistance_array'[s] = NoResult
<1>1. /\ pc = "zero" /\ k \in Nat
      /\ resistance_array' = [resistance_array EXCEPT ![k] = NoResult]
      /\ \A s \in Strips : s < k => resistance_array[s] = NoResult
  BY DEF ZeroResistance, At, Zeroed, ZeroInv, TypeInv, TypeOK
<1>2. \/ pc' = "zero" /\ k' = k + 1
      \/ pc' = "read" /\ k' = 0 /\ k + 1 >= MAX_STRIP_COUNT
  BY <1>1, StripsAssumption DEF ZeroResistance, NextStrip, Goto
<1> TAKE s \in Strips
<1> HAVE pc' = "read" \/ s < k'
<1>3. s < k \/ s = k
  BY <1>1, <1>2, StripsAssumption
<1>4. resistance_array'[s] = IF s = k THEN NoResult ELSE resistance_array[s]
  BY <1>1 DEF TypeInv, TypeOK
<1> QED
  BY <1>1, <1>3, <1>4

\* TimestampInit and the loop that zeroes resistance_array do their work before the
\* first window of the new measurement ends.
LEMMA ZeroInvStep ==
  ASSUME TypeInv, TimeInv, ZeroInv, TicksOnTime, [Next]_vars
  PROVE  TimeInv' /\ ZeroInv'
<1> USE DEF Restarted, Restoring, Configured
<1>1. ASSUME UNCHANGED <<pc, k, req, accepted, timerOn, active_strips, g_timestamp_ms,
                         current_active_strip_index, resistance_array>>
      PROVE  TimeInv' /\ ZeroInv'
  BY <1>1 DEF TimeInv, ZeroInv
<1>2. CASE ResetIndex \/ ResetCount
  BY <1>2 DEF ResetIndex, ResetCount, At, Goto, TimeInv, ZeroInv
<1>3. CASE TimestampInit
  <2>1. /\ pc = "timestamp" /\ pc' = "zero" /\ k' = 0 /\ g_timestamp_ms' = accepted
        /\ UNCHANGED <<accepted, current_active_strip_index>>
    BY <1>3 DEF TimestampInit, At, Goto
  <2>2. \A s \in Strips : ~(s < 0)
    BY StripsAssumption
  <2> QED
    BY <2>1, <2>2 DEF TimeInv, ZeroInv
<1>4. CASE ZeroResistance
  <2>1. /\ pc = "zero" /\ pc' \in {"zero", "read"}
        /\ UNCHANGED <<accepted, g_timestamp_ms, current_active_strip_index>>
    BY <1>4 DEF ZeroResistance, At, NextStrip, Goto
  <2> QED
    BY <1>4, <2>1, ZeroingEnds DEF TimeInv, ZeroInv
<1>5. CASE (Receive \/ Main) /\ ~Restarted'
  BY <1>5 DEF TimeInv, ZeroInv
<1>6. CASE Tock /\ TickClosesWindow
  <2>1. /\ UNCHANGED <<main_vars, param_vars, timerOn, g_timestamp_ms>>
        /\ pc \notin {"index0", "count0"} \cup Restoring
    BY <1>6, HandlersLeave, ClosesWhileWaiting
  <2>2. \A s \in Strips \ active_strips : resistance_array'[s] = resistance_array[s]
    BY <1>6 DEF TickClosesWindow, calculate_resistance_array
  <2> QED
    BY <2>1, <2>2 DEF TimeInv, ZeroInv
<1>7. CASE (Tock \/ AdcSteps) /\ ~(Tock /\ TickClosesWindow)
  BY <1>1, <1>7, HandlersLeave, OnlyClosingMoves
<1>8. CASE UNCHANGED vars
  BY <1>1, <1>8
<1> QED
  BY <1>2, <1>3, <1>4, <1>5, <1>6, <1>7, <1>8, MainEnters DEF Next

\* A tick while main() waits finds both converters triggered and idle, no ADC
\* handler at work and, at the end of a window, no result waiting.
LEMMA TickAfterRestart ==
  ASSUME TypeInv, AdcInv, TicksOnTime, Configured, Tock, ~TickNoStrips
  PROVE  /\ conv = [a \in ADC |-> Idle] /\ isr = NoIsr
         /\ TickClosesWindow => \A a \in ADC : Len(fifo[a]) = 0
         /\ \A a \in ADC : conv'[a] # Idle
<1>1. adcOn["V"] /\ adcOn["C"]
  BY DEF AdcInv, Restarted
<1>2. Tick /\ TriggerBoth
  BY DEF Tock, CTIMER2_IRQHandler, TickWithinWindow, TickClosesWindow
<1>3. conv' = [a \in ADC |-> IF a = "V" THEN mux ELSE PinsOf(0)]
  BY <1>1, <1>2 DEF TriggerBoth
<1>4. mux \in Pins /\ PinsOf(0) \in Pins
  BY PinsOfType DEF TypeInv, TypeOK
<1>5. \A a \in ADC : conv'[a] # Idle
  BY <1>3, <1>4, PinsAreNotIdle
<1>6. conv = [a \in ADC |-> Idle] /\ isr = NoIsr
  BY <1>2 DEF Tick, TypeInv, TypeOK
<1>7. ASSUME TickClosesWindow, NEW a \in ADC PROVE Len(fifo[a]) = 0
  <2>1. currentCountIndex # 0
    BY <1>7, AverageAssumption DEF TickClosesWindow, WindowOver, TypeInv, TypeOK
  <2>2. Len(fifo[a]) <= 0
    BY <1>2, <2>1 DEF Tick, BacklogLimit, RowsJustPrinted
  <2>3. Len(fifo[a]) \in Nat
    BY LenProperties DEF TypeInv, TypeOK
  <2> QED
    BY <2>2, <2>3
<1> QED
  BY <1>5, <1>6, <1>7

\* While main() waits, the handlers let it wait, and only they act on what it waits for.
LEMMA WaitingSteps ==
  ASSUME OnTimeInv, [Next]_vars, Configured'
  PROVE  \/ ZeroResistance
         \/ Configured /\ (Tock \/ AdcSteps)
              /\ UNCHANGED <<main_vars, param_vars, timerOn, adcOn, g_timestamp_ms>>
         \/ Configured /\ UNCHANGED vars
<1> USE DEF Configured
<1>1. CASE Receive \/ Main
  <2>1. ~(ResetIndex \/ ResetCount \/ TimestampInit)
    BY DEF ResetIndex, ResetCount, TimestampInit, Goto
  <2> QED
    BY <1>1, <2>1, MainEnters DEF Restarted
<1> QED
  BY <1>1, HandlersLeave DEF Next

\* The first window that ends leaves what the tick that closes it has triggered, and
\* the ticks of the next ones add to that.
LEMMA CatchUpStep ==
  ASSUME OnTimeInv, TicksOnTime, [Next]_vars
  PROVE  CatchUpInv'
<1> SUFFICES ASSUME Configured', g_strip_count' # 0,
                    current_active_strip_index' > 0 \/ HasResults'
             PROVE  \A a \in ADC : Outstanding(a)' = currentCountIndex' + 1
  BY DEF CatchUpInv
<1> DEFINE caught == g_strip_count # 0 /\ (current_active_strip_index > 0 \/ HasResults)
<1>1. TypeInv /\ HandlerInv /\ AdcInv
  BY DEF OnTimeInv, RestartInv
<1>2. ~ZeroResistance
  <2> SUFFICES ASSUME ZeroResistance PROVE FALSE
    OBVIOUS
  <2>1. current_active_strip_index' = 0
    BY DEF ZeroResistance, At, OnTimeInv, ZeroInv, Restoring
  <2>2. active_strips' \subseteq Strips
    BY <1>1 DEF ZeroResistance, TypeInv, TypeOK
  <2>3. \A s \in Strips : resistance_array'[s] = NoResult
    BY <1>1, ZeroingEnds DEF OnTimeInv, Configured
  <2> QED
    BY <2>1, <2>2, <2>3 DEF HasResults
<1>3. ASSUME Configured, caught
      PROVE  \A a \in ADC : Outstanding(a) = currentCountIndex + 1
  BY <1>3 DEF OnTimeInv, CatchUpInv
<1>4. CASE UNCHANGED vars /\ Configured
  <2>1. caught /\ \A a \in ADC : Outstanding(a)' = Outstanding(a)
    BY <1>4 DEF HasResults, Outstanding
  <2> QED
    BY <1>3, <1>4, <2>1
<1>5. CASE AdcSteps /\ Configured
  <2>1. caught
    BY <1>1, <1>5, AdcKeepsOutstanding, HandlersLeave DEF HasResults
  <2> QED
    BY <1>1, <1>3, <1>5, <2>1, AdcKeepsOutstanding
<1>6. CASE Tock /\ TickClosesWindow /\ Configured
  <2>1. ~TickNoStrips
    BY <1>6, HandlersLeave DEF TickNoStrips
  <2>2. /\ sum' = [a \in ADC |-> EmptySum] /\ currentCountIndex' = 0
        /\ UNCHANGED <<fifo, isr>>
    BY <1>6 DEF TickClosesWindow
  <2> TAKE a \in ADC
  <2>3. sum'[a].n = 0 /\ isr'.adc # a /\ Len(fifo'[a]) = 0 /\ conv'[a] # Idle
    BY <1>1, <1>6, <2>1, <2>2, TickAfterRestart DEF NoIsr, EmptySum
  <2> QED
    BY <2>2, <2>3 DEF Outstanding
<1>7. CASE Tock /\ TickWithinWindow /\ ~TickNoStrips /\ Configured
  <2>1. /\ currentCountIndex' = currentCountIndex + 1
        /\ UNCHANGED <<current_active_strip_index, data_vars, fifo, isr, param_vars>>
    BY <1>7 DEF TickWithinWindow
  <2>2. caught
    BY <2>1 DEF HasResults
  <2> TAKE a \in ADC
  <2>3. /\ conv[a] = Idle /\ isr.adc # a /\ conv'[a] # Idle
        /\ sum' = sum /\ fifo' = fifo /\ isr' = isr
    BY <1>1, <1>7, <2>1, TickAfterRestart DEF NoIsr
  <2>4. sum[a].n \in Nat /\ Len(fifo[a]) \in Nat /\ currentCountIndex \in Nat
    BY <1>1, LenProperties DEF TypeInv, TypeOK, Sums
  <2>5. Outstanding(a)' = Outstanding(a) + 1
    BY <2>3, <2>4 DEF Outstanding
  <2> QED
    BY <1>3, <1>7, <2>1, <2>2, <2>4, <2>5
<1>8. CASE Tock /\ TickNoStrips
  <2>1. UNCHANGED <<main_vars, sampler_vars>>
    BY <1>8 DEF Tock, TickNoStrips
  <2>2. UNCHANGED vars
    BY <2>1
  <2> QED
    BY <1>4, <2>2 DEF Configured
<1> QED
  BY <1>2, <1>4, <1>5, <1>6, <1>7, <1>8, WaitingSteps DEF Tock, CTIMER2_IRQHandler

\* The end of a window in a round that is not the first: every window of the round so
\* far, this one included, is a full one of this measurement.
LEMMA FullWindowsSoFar ==
  ASSUME OnTimeInv, TicksOnTime, Configured, HasResults, Tock, TickClosesWindow
  PROVE  /\ g_strip_count # 0
         /\ \A j \in 1 .. Len(active_strip_indices) :
              j <= current_active_strip_index + 1 => FullWindow(j)'
         /\ TotalWithWindow =
              [windows     |-> current_active_strip_index + 1,
               conversions |-> SoftwareAverageCount * (current_active_strip_index + 1)]
<1> DEFINE i    == current_active_strip_index
           list == active_strip_indices
<1>1. /\ TypeInv /\ HandlerInv /\ AdcInv /\ g_strip_count # 0
      /\ Total_adc_summation.windows = i
      /\ Total_adc_summation.conversions = SoftwareAverageCount * i
      /\ g_timestamp_ms = accepted
      /\ \A j \in 1 .. Len(list) : j <= i => FullWindow(j)
  BY DEF OnTimeInv, RestartInv, StepInv, RoundOver, RoundInv, TimeInv
<1>2. /\ Listed(MAX_STRIP_COUNT) /\ g_strip_count = Cardinality(active_strips)
      /\ i < Len(list)
  BY <1>1, ClosingAfterRestart DEF OnTimeInv, Restarted
<1>3. /\ i \in 0 .. g_strip_count - 1 /\ g_strip_count \in Nat /\ Len(list) = g_strip_count
      /\ list[i + 1] \in Strips
      /\ V_sens_strip_values' =
           [V_sens_strip_values EXCEPT
              ![list[i + 1]] = [n |-> sum["V"].n, time |-> g_timestamp_ms,
                                own |-> sum["V"].on[list[i + 1]]]]
  BY <1>1, <1>2, WindowCloses
<1>4. \A a \in ADC : sum[a].n = SoftwareAverageCount
  <2>1. \A a \in ADC : Outstanding(a) = currentCountIndex + 1
    BY <1>1 DEF OnTimeInv, CatchUpInv
  <2>2. currentCountIndex + 1 = SoftwareAverageCount
    BY <1>1, AverageAssumption DEF TickClosesWindow, WindowOver, TypeInv, TypeOK
  <2>3. ~TickNoStrips
    BY <1>1 DEF TickNoStrips
  <2> TAKE a \in ADC
  <2>4. conv[a] = Idle /\ isr.adc # a /\ Len(fifo[a]) = 0
    BY <1>1, <2>3, TickAfterRestart DEF NoIsr
  <2>5. sum[a].n \in Nat
    BY <1>1 DEF TypeInv, TypeOK, Sums
  <2> QED
    BY <2>1, <2>2, <2>4, <2>5 DEF Outstanding
<1>5. ASSUME NEW j \in 1 .. Len(list), j <= i + 1 PROVE FullWindow(j)'
  <2>1. UNCHANGED <<main_vars, param_vars>>
    BY HandlersLeave
  <2>2. CASE j = i + 1
    <3>1. V_sens_strip_values'[list[j]] =
            [n |-> SoftwareAverageCount, time |-> accepted, own |-> sum["V"].on[list[j]]]
      BY <1>1, <1>3, <1>4, <2>2 DEF TypeInv, TypeOK
    <3> QED
      BY <2>1, <3>1 DEF FullWindow
  <2>3. CASE j # i + 1
    <3>1. j < i + 1 /\ j <= i /\ i + 1 \in 1 .. Len(list)
      BY <1>3, <1>5, <2>3
    <3>2. list[j] < list[i + 1] /\ list[j] \in Strips
      <4>1. list \in Seq(Strips)
        BY <1>1 DEF TypeInv, TypeOK
      <4>2. list[j] \in Strips
        BY <4>1, ElementOfSeq
      <4>3. list[j] < list[i + 1]
        BY <1>2, <3>1 DEF Listed
      <4> QED
        BY <4>2, <4>3
    <3>3. list[j] # list[i + 1]
      BY <1>3, <3>2, StripsAssumption
    <3>4. V_sens_strip_values'[list[j]] = V_sens_strip_values[list[j]]
      BY <1>1, <1>3, <3>2, <3>3 DEF TypeInv, TypeOK
    <3>5. FullWindow(j)
      BY <1>1, <3>1
    <3> QED
      BY <2>1, <3>4, <3>5 DEF FullWindow
  <2> QED
    BY <2>2, <2>3
<1>6. SoftwareAverageCount * i + SoftwareAverageCount = SoftwareAverageCount * (i + 1)
  BY <1>3, AverageAssumption
<1>7. TotalWithWindow = [windows |-> i + 1, conversions |-> SoftwareAverageCount * (i + 1)]
  <2>1. TotalWithWindow = [windows     |-> i + 1,
                           conversions |-> SoftwareAverageCount * i + SoftwareAverageCount]
    BY <1>1, <1>4 DEF TotalWithWindow
  <2> QED
    BY <1>6, <2>1
<1> QED
  BY <1>1, <1>5, <1>7

\* What a round adds up and stores, step by step.
LEMMA RoundInvStep ==
  ASSUME OnTimeInv, TicksOnTime, [Next]_vars
  PROVE  RoundInv'
<1> SUFFICES ASSUME Configured', HasResults'
             PROVE  /\ \A j \in 1 .. Len(active_strip_indices') :
                         j <= current_active_strip_index' => FullWindow(j)'
                    /\ Total_adc_summation'.conversions =
                         SoftwareAverageCount * current_active_strip_index'
  BY DEF RoundInv
<1>1. TypeInv
  BY DEF OnTimeInv, RestartInv
<1>2. ~ZeroResistance
  <2> SUFFICES ASSUME ZeroResistance PROVE FALSE
    OBVIOUS
  <2>1. active_strips' \subseteq Strips
    BY <1>1 DEF ZeroResistance, TypeInv, TypeOK
  <2>2. \A s \in Strips : resistance_array'[s] = NoResult
    BY <1>1, ZeroingEnds DEF OnTimeInv, Configured
  <2> QED
    BY <2>1, <2>2 DEF HasResults
<1>3. ASSUME Configured,
             UNCHANGED <<accepted, active_strips, active_strip_indices,
                         current_active_strip_index, Total_adc_summation,
                         V_sens_strip_values, resistance_array>>
      PROVE  /\ \A j \in 1 .. Len(active_strip_indices') :
                  j <= current_active_strip_index' => FullWindow(j)'
             /\ Total_adc_summation'.conversions =
                  SoftwareAverageCount * current_active_strip_index'
  BY <1>3 DEF HasResults, FullWindow, OnTimeInv, RoundInv
<1>4. CASE /\ Configured /\ Tock /\ TickClosesWindow
           /\ UNCHANGED <<main_vars, param_vars, timerOn, adcOn, g_timestamp_ms>>
  <2>1. g_strip_count # 0
    <3> SUFFICES ASSUME g_strip_count = 0 PROVE FALSE
      OBVIOUS
    <3>1. StepInv'
      BY StepInvStep DEF OnTimeInv
    <3> QED
      BY <1>4, <3>1 DEF StepInv, RoundOver
  <2>2. /\ g_strip_count \in Nat \ {0} /\ Len(active_strip_indices) = g_strip_count
        /\ current_active_strip_index \in 0 .. g_strip_count - 1
        /\ IF NextIndex = 0 THEN Total_adc_summation' = NoTotal
                            ELSE /\ Total_adc_summation' = TotalWithWindow
                                 /\ UNCHANGED resistance_array
    BY <1>1, <1>4, <2>1, ClosingAfterRestart, WindowCloses DEF OnTimeInv, Restarted
  <2>3. current_active_strip_index' = NextIndex
    BY <1>4 DEF TickClosesWindow
  <2>4. CASE NextIndex = 0
    <3>1. SoftwareAverageCount * 0 = 0 /\ \A j \in 1 .. Len(active_strip_indices) : ~(j <= 0)
      BY <2>2, AverageAssumption
    <3> QED
      BY <1>4, <2>2, <2>3, <2>4, <3>1 DEF NoTotal
  <2>5. CASE NextIndex # 0
    <3>1. NextIndex = current_active_strip_index + 1
      BY <2>2, <2>5, NextIndexWraps
    <3>2. HasResults
      BY <1>4, <2>2, <2>5 DEF HasResults
    <3>3. /\ \A j \in 1 .. Len(active_strip_indices) :
               j <= current_active_strip_index + 1 => FullWindow(j)'
          /\ TotalWithWindow.conversions =
               SoftwareAverageCount * (current_active_strip_index + 1)
      BY <1>4, <3>2, FullWindowsSoFar
    <3> QED
      BY <1>4, <2>2, <2>3, <2>5, <3>1, <3>3
  <2> QED
    BY <2>4, <2>5
<1>5. CASE /\ Configured /\ (Tock \/ AdcSteps) /\ ~(Tock /\ TickClosesWindow)
           /\ UNCHANGED <<main_vars, param_vars, timerOn, adcOn, g_timestamp_ms>>
  BY <1>3, <1>5, OnlyClosingMoves
<1>6. CASE Configured /\ UNCHANGED vars
  BY <1>3, <1>6
<1> QED
  BY <1>2, <1>4, <1>5, <1>6, WaitingSteps

\* All of this together is inductive when the ticks are on time.
LEMMA OnTimeInvariant == TicksOnTime => (Spec => []OnTimeInv)
<1> SUFFICES ASSUME TicksOnTime PROVE Spec => []OnTimeInv
  OBVIOUS
<1>1. Init => OnTimeInv
  <2> SUFFICES ASSUME Init PROVE OnTimeInv
    OBVIOUS
  <2>1. pc = "read" /\ ~timerOn /\ isr = NoIsr
    BY DEF Init, SamplerInit
  <2>2. ~Configured /\ ~Restarted
    BY <2>1 DEF Restarted, Configured, Restoring
  <2>3. RestartInv
    BY <2>1, <2>2, RestartInit
  <2> QED
    BY <2>1, <2>2, <2>3 DEF OnTimeInv, HandlerInv, AdcInv, TimeInv, ZeroInv, CatchUpInv,
       RoundInv, Restoring
<1>2. OnTimeInv /\ [Next]_vars => OnTimeInv'
  <2> SUFFICES ASSUME OnTimeInv, [Next]_vars PROVE OnTimeInv'
    OBVIOUS
  <2>1. TypeInv
    BY DEF OnTimeInv, RestartInv
  <2>2. RestartInv'
    BY RestartInvStep DEF OnTimeInv
  <2>3. HandlerInv' /\ AdcInv'
    BY <2>1, HandlerInvStep, AdcInvStep DEF OnTimeInv
  <2>4. TimeInv' /\ ZeroInv'
    BY <2>1, ZeroInvStep DEF OnTimeInv
  <2> QED
    BY <2>2, <2>3, <2>4, CatchUpStep, RoundInvStep DEF OnTimeInv
<1> QED
  BY <1>1, <1>2, PTL DEF Spec

\* However a restart meets the old measurement, only its first round may be mixed: if no
\* store outside V_sens_strip_values has hit a variable, the results that
\* calculate_resistance_array publishes at the end of every later round are exact.
THEOREM ExactAfterRestart == TicksOnTime => (Spec => RoundsExactAgain)
<1> SUFFICES ASSUME TicksOnTime PROVE Spec => RoundsExactAgain
  OBVIOUS
<1>1. OnTimeInv /\ [Next]_vars
        => (Configured /\ HasResults /\ RoundEnds /\ Configured' => ResultsExact')
  <2> SUFFICES ASSUME OnTimeInv, [Next]_vars, Configured, HasResults, RoundEnds,
                      Configured'
               PROVE  ResultsExact'
    OBVIOUS
  <2>1. Tock /\ TickClosesWindow
    <3>1. ~ZeroResistance /\ ~UNCHANGED vars /\ ~AdcSteps
      BY DEF Configured, ZeroResistance, At, RoundEnds, AdcSteps, Convert, AdcHandlerLoad,
         AdcHandlerStore
    <3>2. ~(TickNoStrips \/ TickWithinWindow)
      BY DEF TickNoStrips, TickWithinWindow, RoundEnds, OnTimeInv, RestartInv, TypeInv,
         TypeOK
    <3> QED
      BY <3>1, <3>2, WaitingSteps DEF Tock, CTIMER2_IRQHandler
  <2>2. TypeInv /\ UNCHANGED <<main_vars, param_vars, timerOn>> /\ NextIndex = 0
    BY <2>1, HandlersLeave DEF OnTimeInv, RestartInv, TickClosesWindow, RoundEnds
  <2>3. /\ g_strip_count # 0
        /\ \A j \in 1 .. Len(active_strip_indices) :
             j <= current_active_strip_index + 1 => FullWindow(j)'
        /\ TotalWithWindow =
             [windows     |-> current_active_strip_index + 1,
              conversions |-> SoftwareAverageCount * (current_active_strip_index + 1)]
    BY <2>1, FullWindowsSoFar
  <2>4. /\ Listed(MAX_STRIP_COUNT) /\ g_strip_count = Cardinality(active_strips)
        /\ current_active_strip_index < Len(active_strip_indices)
    BY <2>1, <2>3, ClosingAfterRestart DEF OnTimeInv, Restarted
  <2>5. /\ g_strip_count \in Nat \ {0} /\ Len(active_strip_indices) = g_strip_count
        /\ current_active_strip_index \in 0 .. g_strip_count - 1
        /\ resistance_array' =
             calculate_resistance_array(V_sens_strip_values', TotalWithWindow)
    BY <2>1, <2>2, <2>3, <2>4, WindowCloses
  <2>6. current_active_strip_index + 1 = g_strip_count
    BY <2>2, <2>5, NextIndexWraps
  <2> SUFFICES ASSUME NEW s \in Strips
               PROVE  resistance_array'[s] =
                        IF s \in active_strips
                          THEN [n |-> SoftwareAverageCount, time |-> accepted,
                                windows |-> g_strip_count,
                                conversions |-> SoftwareAverageCount * g_strip_count,
                                strips |-> g_strip_count]
                          ELSE NoResult
    BY <2>2, <2>4 DEF ResultsExact
  <2>7. CASE s \in active_strips
    <3>1. PICK j \in 1 .. Len(active_strip_indices) : active_strip_indices[j] = s
      BY <2>2, <2>4, <2>7, BelowEnds DEF Listed, TypeInv, TypeOK
    <3>2. FullWindow(j)'
      BY <2>3, <2>5, <2>6, <3>1
    <3>3. /\ V_sens_strip_values'[s].n = SoftwareAverageCount
          /\ V_sens_strip_values'[s].time = accepted
      BY <2>2, <3>1, <3>2 DEF FullWindow
    <3> QED
      BY <2>3, <2>5, <2>6, <2>7, <3>3 DEF calculate_resistance_array, Divisor
  <2>8. CASE s \notin active_strips
    BY <2>5, <2>8 DEF calculate_resistance_array, OnTimeInv, ZeroInv
  <2> QED
    BY <2>7, <2>8
<1>2. (Settled => Configured) /\ (Settled => Configured)'
  BY DEF Settled
<1> QED
  BY <1>1, <1>2, OnTimeInvariant, PTL DEF Spec, RoundsExactAgain
=============================================================================
