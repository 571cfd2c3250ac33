---------------------------- MODULE Measurement ----------------------------
(***************************************************************************)
(* main() of main.c around the interrupt handlers of StripSampler: it      *)
(* waits for a request, changes the parameters and initialises every       *)
(* peripheral again, one statement at a time, while CTIMER2 and the ADC    *)
(* handlers of the measurement already running may interrupt it anywhere.  *)
(*                                                                         *)
(* A request is a line from the GUI or a Modbus write of the registers.    *)
(***************************************************************************)
EXTENDS StripSampler

CONSTANT
  Requests       \* Requests[i]: what the i-th request may be; no more arrive

\* strips: the strips the request switches on.  applies: the line parses as
\* far as its strips, or register 6 is not zero.  plate: the wave type and
\* the frequency are ones initialize_dac_hot_plate() accepts.
Request == [strips : SUBSET Strips, applies : BOOLEAN, plate : BOOLEAN]

ASSUME RequestsAssumption == Requests \in Seq(SUBSET Request)

VARIABLES
  pc,        \* the statement main() executes next
  k,         \* its loop variable
  req,       \* the request it works on
  accepted   \* requests received so far

main_vars == <<ModbusFlag, pc, k, req, accepted>>
vars      == <<main_vars, sampler_vars>>

Locations ==
  {"read", "clear", "parse", "store", "zeroCount", "set", "count", "plate", "gpio",
   "select", "free", "fill", "resetV", "readyV", "resetC", "readyC", "stop",
   "start", "index0", "count0", "timestamp", "zero", "returned"}

NoRequest == [strips |-> {}, applies |-> FALSE, plate |-> TRUE]

readPowerSource == ModbusFlag \in PowerSources

Init ==
  /\ readPowerSource
  /\ SamplerInit
  /\ pc = "read" /\ k = 0 /\ req = NoRequest /\ accepted = 0

-----------------------------------------------------------------------------

\* main() runs when no ADC handler does; a tick can come between two steps.  When a
\* variable has been overwritten (corrupted) nothing is known of any step.
MainRuns == ~corrupted /\ isr = NoIsr /\ \A a \in ADC : fifo[a] = <<>>

At(loc) == pc = loc /\ MainRuns /\ UNCHANGED <<ModbusFlag, req, accepted>>

Goto(loc) == pc' = loc /\ k' = 0

\* One iteration of for (i = 0; i < 8; i++), then on to loc.
NextStrip(loc) == IF k + 1 < MAX_STRIP_COUNT THEN pc' = pc /\ k' = k + 1
                                             ELSE Goto(loc)

\* The same over the select pins, S0 first.
NextPin(loc, k0) == IF 2 * k \in MuxPins THEN pc' = pc /\ k' = 2 * k
                                         ELSE pc' = loc /\ k' = k0

-----------------------------------------------------------------------------
(* Receiving a request and changing the parameters.                        *)

\* A line ends (GUI), or a write has been stored in holdingRegisters (Modbus).
Receive ==
  /\ pc = "read" /\ MainRuns
  /\ accepted < Len(Requests)
  /\ req' \in Requests[accepted + 1]
  /\ accepted' = accepted + 1
  /\ IF ModbusFlag
       THEN Goto(IF req'.applies THEN "zeroCount" ELSE "plate")
       ELSE Goto("clear")
  /\ UNCHANGED <<ModbusFlag, sampler_vars>>

ClearStrip ==
  /\ At("clear")
  /\ active_strips' = active_strips \ {k}
  /\ NextStrip("parse")
  /\ UNCHANGED <<g_strip_count, active_strip_indices, index_vars, data_vars, mux,
                 hw_vars, isr>>

\* updateParameters gives up at a missing token and keeps what it has set.
ParseLine ==
  /\ At("parse")
  /\ Goto(IF req.applies THEN "store" ELSE "read")
  /\ UNCHANGED sampler_vars

StoreStrip ==
  /\ At("store")
  /\ active_strips' = active_strips \cup (req.strips \cap {k})
  /\ NextStrip("zeroCount")
  /\ UNCHANGED <<g_strip_count, active_strip_indices, index_vars, data_vars, mux,
                 hw_vars, isr>>

ZeroCount ==
  /\ At("zeroCount")
  /\ g_strip_count' = 0
  /\ Goto(IF ModbusFlag THEN "set" ELSE "count")
  /\ UNCHANGED <<active_strips, active_strip_indices, index_vars, data_vars, mux,
                 hw_vars, isr>>

\* Modbus_UpdateParameters sets each strip just before it counts it.
SetStrip ==
  /\ At("set")
  /\ active_strips' = (active_strips \ {k}) \cup (req.strips \cap {k})
  /\ pc' = "count" /\ k' = k
  /\ UNCHANGED <<g_strip_count, active_strip_indices, index_vars, data_vars, mux,
                 hw_vars, isr>>

CountStrip ==
  /\ At("count")
  /\ g_strip_count' = g_strip_count + IF k \in active_strips THEN 1 ELSE 0
  /\ IF k + 1 < MAX_STRIP_COUNT THEN pc' = (IF ModbusFlag THEN "set" ELSE pc) /\ k' = k + 1
                                ELSE Goto("plate")
  /\ UNCHANGED <<active_strips, active_strip_indices, index_vars, data_vars, mux,
                 hw_vars, isr>>

-----------------------------------------------------------------------------
(* InitializeAllPeripherals().                                             *)

\* main() returns when it fails, but only on the GUI's side; the Modbus loop
\* ignores the result.  The interrupts go on in either case.
InitPlate ==
  /\ At("plate")
  /\ IF req.plate THEN pc' = "gpio" /\ k' = 1
                  ELSE Goto(IF ModbusFlag THEN "read" ELSE "returned")
  /\ UNCHANGED sampler_vars

\* InitMuxGpio drives every pin low.  The ENABLE pin, low for a moment as well, is
\* left out.
InitMuxPin ==
  /\ At("gpio")
  /\ mux' = [w \in MuxPins |-> IF w = k THEN 0 ELSE mux[w]]
  /\ NextPin("select", 1)
  /\ UNCHANGED <<param_vars, index_vars, data_vars, hw_vars, isr>>

\* -1 when there is none, and SelectMuxChannel takes that as a uint8_t.
FirstActiveStrip ==
  IF active_strips = {} THEN Uint8 - 1
  ELSE CHOOSE s \in active_strips : \A t \in active_strips : s <= t

SelectFirstPin ==
  /\ At("select")
  /\ mux' = [w \in MuxPins |-> IF w = k THEN Bit(FirstActiveStrip, w) ELSE mux[w]]
  /\ NextPin("free", 0)
  /\ UNCHANGED <<param_vars, index_vars, data_vars, hw_vars, isr>>

\* ConvertActiveStrips: free, malloc, then one entry per active strip.
AllocateIndices ==
  /\ At("free")
  /\ active_strip_indices' = <<>>
  /\ Goto("fill")
  /\ UNCHANGED <<active_strips, g_strip_count, index_vars, data_vars, mux, hw_vars, isr>>

FillIndex ==
  /\ At("fill")
  /\ active_strip_indices' =
       active_strip_indices \o IF k \in active_strips THEN <<k>> ELSE <<>>
  /\ NextStrip("resetV")
  /\ UNCHANGED <<active_strips, g_strip_count, index_vars, data_vars, mux, hw_vars, isr>>

\* LPADC_Init resets the converter: what it was doing is lost, and triggers
\* do nothing until LPADC_SetConvTriggerConfig.
ResetAdc(a, loc, next) ==
  /\ At(loc)
  /\ adcOn' = [adcOn EXCEPT ![a] = FALSE]
  /\ conv' = [conv EXCEPT ![a] = Idle]
  /\ fifo' = [fifo EXCEPT ![a] = <<>>]
  /\ Goto(next)
  /\ UNCHANGED <<param_vars, index_vars, data_vars, mux, timerOn, isr>>

ReadyAdc(a, loc, next) ==
  /\ At(loc)
  /\ adcOn' = [adcOn EXCEPT ![a] = TRUE]
  /\ Goto(next)
  /\ UNCHANGED <<param_vars, index_vars, data_vars, mux, timerOn, conv, fifo, isr>>

ADC_Voltage_Initialize == ResetAdc("V", "resetV", "readyV") \/ ReadyAdc("V", "readyV", "resetC")
ADC_Current_Initialize == ResetAdc("C", "resetC", "readyC") \/ ReadyAdc("C", "readyC", "stop")

\* ADC_Voltage_timer_setup: the timer runs again before the indices are reset.
StopTimer ==
  /\ At("stop")
  /\ timerOn' = FALSE
  /\ Goto("start")
  /\ UNCHANGED <<param_vars, index_vars, data_vars, mux, adcOn, conv, fifo, isr>>

StartTimer ==
  /\ At("start")
  /\ timerOn' = TRUE
  /\ Goto("index0")
  /\ UNCHANGED <<param_vars, index_vars, data_vars, mux, adcOn, conv, fifo, isr>>

ResetIndex ==
  /\ At("index0")
  /\ current_active_strip_index' = 0
  /\ Goto("count0")
  /\ UNCHANGED <<param_vars, currentCountIndex, data_vars, mux, hw_vars, isr>>

ResetCount ==
  /\ At("count0")
  /\ currentCountIndex' = 0
  /\ Goto("timestamp")
  /\ UNCHANGED <<param_vars, current_active_strip_index, data_vars, mux, hw_vars, isr>>

\* SysTick counts milliseconds from here on.
TimestampInit ==
  /\ At("timestamp")
  /\ g_timestamp_ms' = accepted
  /\ Goto("zero")
  /\ UNCHANGED <<param_vars, index_vars, sum, Total_adc_summation, V_sens_strip_values,
                 resistance_array, corrupted, mux, hw_vars, isr>>

ZeroedIfActive(s) == IF s \in active_strips THEN NoResult ELSE resistance_array[s]

Zeroed(s) == NoResult

\* The last loop of InitializeAllPeripherals.
ZeroResistance ==
  /\ At("zero")
  /\ resistance_array' = [resistance_array EXCEPT ![k] = Zeroed(k)]
  /\ NextStrip("read")
  /\ UNCHANGED <<param_vars, index_vars, sum, Total_adc_summation, V_sens_strip_values,
                 g_timestamp_ms, corrupted, mux, hw_vars, isr>>

Main ==
  \/ ClearStrip \/ ParseLine \/ StoreStrip \/ ZeroCount \/ SetStrip \/ CountStrip
  \/ InitPlate \/ InitMuxPin \/ SelectFirstPin \/ AllocateIndices \/ FillIndex
  \/ ADC_Voltage_Initialize \/ ADC_Current_Initialize
  \/ StopTimer \/ StartTimer \/ ResetIndex \/ ResetCount \/ TimestampInit
  \/ ZeroResistance

-----------------------------------------------------------------------------

\* At an MUX_freq of at most 8 a period is longer than the line main() prints
\* between starting the timer and resetting the indices, and a window longer
\* than what main() prints after that.
InitialisedOnTime ==
  TicksOnTime => /\ pc \notin {"index0", "count0"}
                 /\ pc \in {"timestamp", "zero"} =>
                      currentCountIndex < SoftwareAverageCount - 1

Tock == ~corrupted /\ InitialisedOnTime /\ CTIMER2_IRQHandler /\ UNCHANGED main_vars

AdcSteps == /\ ~corrupted
            /\ \/ \E a \in ADC : Convert(a) \/ AdcHandlerLoad(a)
               \/ AdcHandlerStore
            /\ UNCHANGED main_vars

Next == Receive \/ Main \/ Tock \/ AdcSteps

\* The timer and the converters never stop, and main() gets the processor
\* again and again between interrupts.  Nobody has to send a request.
Fairness ==
  /\ WF_vars(Tock)
  /\ WF_vars(AdcSteps)
  /\ SF_vars(Main)

Spec     == Init /\ [][Next]_vars
FairSpec == Spec /\ Fairness
-----------------------------------------------------------------------------
(* Properties.                                                             *)

Bytes == 0 .. Uint8 - 1
Sums  == [n : Nat, on : [Strips -> Nat]]
Results == [n : Nat, time : Nat, windows : Nat, conversions : Nat, strips : Nat]

\* Types of every variable; the shape main.c and adc_16_strip.c declare.
TypeOK ==
  /\ ModbusFlag \in BOOLEAN
  /\ active_strips \subseteq Strips
  /\ g_strip_count \in 0 .. MAX_STRIP_COUNT
  /\ active_strip_indices \in Seq(Strips)
  /\ current_active_strip_index \in Bytes
  /\ currentCountIndex \in 0 .. SoftwareAverageCount - 1
  /\ sum \in [ADC -> Sums]
  /\ Total_adc_summation \in [windows : Nat, conversions : Nat]
  /\ V_sens_strip_values \in [Strips -> [n : Nat, own : Nat, time : Nat]]
  /\ resistance_array \in [Strips -> Results]
  /\ g_timestamp_ms \in Nat
  /\ corrupted \in BOOLEAN
  /\ mux \in Pins
  /\ timerOn \in BOOLEAN
  /\ adcOn \in [ADC -> BOOLEAN]
  /\ conv \in [ADC -> Pins \cup {Idle}]
  /\ fifo \in [ADC -> Seq(Pins)]
  /\ isr \in [adc : ADC \cup {"none"}, pins : Pins, base : Sums]
  /\ pc \in Locations
  /\ k \in Nat
  /\ req \in Request
  /\ accepted \in 0 .. Len(Requests)

\* Conversions triggered and not yet averaged, wherever their results are.
Outstanding(a) ==
  sum[a].n + Len(fifo[a]) + (IF conv[a] = Idle THEN 0 ELSE 1)
           + (IF isr.adc = a THEN 1 ELSE 0)

\* Every conversion a tick triggers is counted in exactly one window, on both
\* converters alike (CTIMER2_IRQHandler, ADC0/ADC1_IRQHandler): what is
\* outstanding is what this window has triggered, and after the first window
\* the result the tick that closed the last one was too early for.
SamplesConserved ==
  timerOn /\ g_strip_count # 0 =>
    \E late \in {0, 1} : \A a \in ADC : Outstanding(a) = currentCountIndex + late

\* A value stored for a strip (V_sens_strip_values) averages a whole window,
\* or one result less in the very first, and at most one of its results was
\* taken while the multiplexer stood on another strip.
WindowsBelongToStrip ==
  \A s \in Strips :
    LET v == V_sens_strip_values[s]
    IN v # NoValue => /\ v.n \in {SoftwareAverageCount - 1, SoftwareAverageCount}
                      /\ v.own >= v.n - 1

\* The current a resistance was divided by (calculate_resistance_array) is the
\* mean over exactly the windows of one round: one window per active strip.
RoundsComplete ==
  \A s \in Strips :
    LET r == resistance_array[s]
    IN r # NoResult =>
         /\ r.windows = r.strips
         /\ r.conversions \in {SoftwareAverageCount * r.strips - 1,
                               SoftwareAverageCount * r.strips}

\* While a measurement runs and main() waits, the multiplexer stands on the
\* strip the running window will be stored for.
MuxFollowsIndex ==
  timerOn /\ pc = "read" /\ g_strip_count # 0 =>
    /\ current_active_strip_index < Len(active_strip_indices)
    /\ mux = PinsOf(active_strip_indices[current_active_strip_index + 1])

\* The handler reads active_strip_indices[current_active_strip_index] inside
\* what ConvertActiveStrips has allocated and filled, and stores nothing outside
\* V_sens_strip_values, where an entry read elsewhere would let it store.
IndexWithinAllocation ==
  /\ ~corrupted
  /\ timerOn /\ g_strip_count # 0 /\ currentCountIndex = SoftwareAverageCount - 1 =>
       current_active_strip_index < Len(active_strip_indices)

\* However requests and ticks interleave, the index of the running window stays
\* below the number of strips there can be: in the GUI's mode CTIMER2's handler
\* returns before it takes a remainder by a strip count of 0.  (Until a store outside
\* V_sens_strip_values hits a variable.)
IndexBelowStrips == corrupted \/ ModbusFlag \/ current_active_strip_index < MAX_STRIP_COUNT

\* The measurement keeps the promise of StripRounds (when it is the only one
\* and its ticks are on time).
Rounds == INSTANCE StripRounds WITH
  order   <- IF timerOn THEN active_strip_indices ELSE <<>>,
  turn    <- current_active_strip_index + 1,
  windows <- Total_adc_summation.windows,
  result  <- [s \in Strips |-> IF resistance_array[s].windows = resistance_array[s].strips
                                 THEN resistance_array[s].windows ELSE -1]

StripRoundsSpec == Rounds!Spec

\* Every active strip is selected again and again.
EveryStripMeasured ==
  \A s \in Strips :
    <>[](timerOn /\ s \in active_strips) => []<>(mux = PinsOf(s))

\* The last request was accepted and main() has finished with it.
Configured == pc = "read" /\ timerOn /\ req.applies /\ req.plate

\* ... and no window that closed on the way, with the index outside the list, has
\* overwritten a variable.
Settled == Configured /\ ~corrupted

\* The results are those of the strips now active, each from full windows, and
\* their times count from the start of this measurement.
ResultsExact ==
  \A s \in Strips :
    resistance_array[s] =
      IF s \in active_strips
        THEN [n |-> SoftwareAverageCount, time |-> accepted,
              windows |-> Cardinality(active_strips),
              conversions |-> SoftwareAverageCount * Cardinality(active_strips),
              strips |-> Cardinality(active_strips)]
        ELSE NoResult

\* A round has ended since the last loop of InitializeAllPeripherals has zeroed
\* its strips' results.
HasResults == \E s \in active_strips : resistance_array[s] # NoResult

\* InitializeAllPeripherals resets the index but not Total_adc_summation, and ticks of
\* the old measurement may move the pins behind SelectMuxChannel.  Once a round has ended
\* the handler reads the list inside what is allocated, the multiplexer stands on the
\* strip the running window is stored for, and the total holds a window for each strip
\* before that.
InStepAgain ==
  Settled /\ HasResults =>
    /\ current_active_strip_index < Len(active_strip_indices)
    /\ mux = PinsOf(active_strip_indices[current_active_strip_index + 1])
    /\ Total_adc_summation.windows = current_active_strip_index

\* "The average of the ADC values will be used as the current value": what
\* calculate_resistance_array divides by the strip count is a sum of as many
\* windows.  It is not in the first round after a restart that left windows of
\* the old round in Total_adc_summation.
DivisorMatchesWindows ==
  Settled =>
    \A s \in Strips : resistance_array[s].windows = resistance_array[s].strips

RoundEnds ==
  currentCountIndex # 0 /\ currentCountIndex' = 0 /\ current_active_strip_index' = 0

\* Only the first round after a restart mixes what the old measurement has left with
\* its own: calculate_resistance_array makes every later one exact.
RoundsExactAgain ==
  [][Settled /\ HasResults /\ RoundEnds /\ Settled' => ResultsExact']_vars

\* However late the ticks are and whichever handler they preempt, the current
\* is in the end divided by as many strips as windows were added up.
DivisorRecovers ==
  <>[]Settled =>
    <>[](\A s \in active_strips :
           /\ resistance_array[s].windows = Cardinality(active_strips)
           /\ resistance_array[s].strips  = Cardinality(active_strips))

\* What a restart did to the pins, the indices, the sums, the clock and the results while
\* the old measurement's interrupts went on dies out, if no store outside its array was
\* part of it.
ResultsRecover == <>[]Settled => <>[](ResultsExact /\ MuxFollowsIndex)
=============================================================================
