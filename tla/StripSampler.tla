--------------------------- MODULE StripSampler ---------------------------
(***************************************************************************)
(* The measuring half of the firmware: the interrupt handlers of           *)
(* ADC_files/adc_16_strip.c, the multiplexer pins of                       *)
(* MUX_files/gpio_for_mux.c and the two converters they drive.             *)
(*                                                                         *)
(* CTIMER2 fires once per conversion.  Its handler (priority 2) triggers   *)
(* the voltage and the current converter, and every SoftwareAverageCount   *)
(* ticks it closes a window: it publishes the averages for the strip the   *)
(* window belongs to, moves to the next active strip, computes the         *)
(* resistances when it has come round, and switches the multiplexer.       *)
(* ADC0 and ADC1 (priority 3) add each result to a running sum.            *)
(*                                                                         *)
(* A conversion result is abstracted to where the multiplexer's select     *)
(* pins stood when it was taken; a sum to how many results it holds and,   *)
(* for the voltage, how many of them were taken on each strip (the current *)
(* is that of all strips together).                                        *)
(***************************************************************************)
EXTENDS Integers, Sequences, FiniteSets

CONSTANTS
  MAX_STRIP_COUNT,       \* strips the multiplexer can select (8)
  MuxPins,               \* its select pins S0, S1, S2, as weights {1, 2, 4}
  SoftwareAverageCount,  \* conversions per window (30)
  Uint8,                 \* number of values of a uint8_t (256)
  PowerSources,          \* values of ModbusFlag the power source pin may lead to
  TicksOnTime,           \* do ADC handlers finish before the next tick?
  TrackPins,             \* do sums remember where their results were taken?
  MaxBacklog,            \* unread results a late tick may find in a FIFO
  MaxPreempted           \* largest sum an ADC handler a tick preempts has loaded

ASSUME StripsAssumption  == MAX_STRIP_COUNT \in Nat \ {0}
ASSUME PinsAssumption    == MuxPins \subseteq Nat \ {0}
ASSUME WeightsAssumption == /\ 1 \in MuxPins
                            /\ \A v, w \in MuxPins :
                                 v < w => 2 * v \in MuxPins /\ 2 * v <= w
ASSUME AverageAssumption == SoftwareAverageCount \in Nat /\ SoftwareAverageCount > 1
ASSUME Uint8Assumption   == Uint8 \in Nat /\ Uint8 >= MAX_STRIP_COUNT
ASSUME ModeAssumption    == {TicksOnTime, TrackPins} \cup PowerSources \subseteq BOOLEAN
ASSUME BacklogAssumption == MaxBacklog \in Nat /\ MaxPreempted \in Nat

Strips == 0 .. MAX_STRIP_COUNT - 1
ADC    == {"V", "C"}             \* ADC0 reads the voltage, ADC1 the current
Pins   == [MuxPins -> {0, 1}]    \* where the select pins stand
Idle   == <<>>                   \* no conversion is running
Wild   == MAX_STRIP_COUNT        \* a byte that is no strip number

\* SelectMuxChannel: pin of weight w gets that bit of the channel number.
Bit(channel, w) == (channel \div w) % 2
PinsOf(channel) == [w \in MuxPins |-> Bit(channel, w)]

EmptySum == [n |-> 0, on |-> [s \in Strips |-> 0]]
NoIsr    == [adc |-> "none", pins |-> PinsOf(0), base |-> EmptySum]

\* acc is what the handler has loaded of the sum; it stores acc plus the result.
AddForgets(a, acc, pins) == [EmptySum EXCEPT !.n = 1]

Add(a, acc, pins) ==
  [n  |-> acc.n + 1,
   on |-> [s \in Strips |->
             acc.on[s] + IF TrackPins /\ a = "V" /\ pins = PinsOf(s) THEN 1 ELSE 0]]

VARIABLES
  ModbusFlag,                  \* requests come by Modbus, not from the GUI
  active_strips,               \* strips the parameters switch on
  g_strip_count,
  active_strip_indices,        \* entries ConvertActiveStrips has written
  current_active_strip_index,
  currentCountIndex,
  sum,                         \* VoltageSum and CurrentSum
  Total_adc_summation,         \* windows and conversions of the round so far
  V_sens_strip_values,
  resistance_array,
  g_timestamp_ms,              \* the request whose TimestampInit set it to 0
  corrupted,                   \* a store outside V_sens_strip_values has hit one of these
  mux,                         \* the select pins
  timerOn,                     \* CTIMER2 counts and its interrupt is enabled
  adcOn,                       \* converters whose trigger is configured
  conv,                        \* pins when the running conversion started
  fifo,                        \* results waiting for an ADC handler
  isr                          \* an ADC handler between its load and its store

param_vars == <<active_strips, g_strip_count, active_strip_indices>>
index_vars == <<current_active_strip_index, currentCountIndex>>
data_vars  == <<sum, Total_adc_summation, V_sens_strip_values, resistance_array,
                g_timestamp_ms, corrupted>>
hw_vars    == <<timerOn, adcOn, conv, fifo>>
sampler_vars == <<param_vars, index_vars, data_vars, mux, hw_vars, isr>>

-----------------------------------------------------------------------------

NoTotal  == [windows |-> 0, conversions |-> 0]
NoValue  == [n |-> 0, own |-> 0, time |-> 0]
NoResult == [n |-> 0, time |-> 0, windows |-> 0, conversions |-> 0, strips |-> 0]

\* Program start: statics and globals are zero, nothing is running.
SamplerInit ==
  /\ active_strips = {} /\ g_strip_count = 0 /\ active_strip_indices = <<>>
  /\ current_active_strip_index = 0 /\ currentCountIndex = 0
  /\ sum = [a \in ADC |-> EmptySum]
  /\ Total_adc_summation = NoTotal
  /\ V_sens_strip_values = [s \in Strips |-> NoValue]
  /\ resistance_array = [s \in Strips |-> NoResult]
  /\ g_timestamp_ms = 0
  /\ corrupted = FALSE
  /\ mux = PinsOf(0)
  /\ timerOn = FALSE
  /\ adcOn = [a \in ADC |-> FALSE]
  /\ conv = [a \in ADC |-> Idle]
  /\ fifo = [a \in ADC |-> <<>>]
  /\ isr = NoIsr

-----------------------------------------------------------------------------
(* The converters and the two ADC handlers.                                *)

\* A conversion ends.  The multiplexer may have moved while it ran, so the
\* voltage was taken where it started or where the pins stand now.
Convert(a) ==
  /\ conv[a] # Idle
  /\ \E pins \in IF a = "V" THEN {conv[a], mux} ELSE {PinsOf(0)} :
       fifo' = [fifo EXCEPT ![a] = Append(@, pins)]
  /\ conv' = [conv EXCEPT ![a] = Idle]
  /\ UNCHANGED <<param_vars, index_vars, data_vars, mux, timerOn, adcOn, isr>>

\* ADCx_IRQHandler takes one result and loads the sum it will add it to.
\* Both converters have priority 3: one handler does not preempt the other.
AdcHandlerLoad(a) ==
  /\ isr = NoIsr
  /\ fifo[a] # <<>>
  /\ isr' = [adc |-> a, pins |-> Head(fifo[a]), base |-> sum[a]]
  /\ fifo' = [fifo EXCEPT ![a] = Tail(@)]
  /\ UNCHANGED <<param_vars, index_vars, data_vars, mux, timerOn, adcOn, conv>>

\* ... and stores it back, whatever CTIMER2 did to the sum in between.
AdcHandlerStore ==
  /\ isr # NoIsr
  /\ sum' = [sum EXCEPT ![isr.adc] = Add(isr.adc, isr.base, isr.pins)]
  /\ isr' = NoIsr
  /\ UNCHANGED <<param_vars, index_vars, Total_adc_summation, V_sens_strip_values,
                 resistance_array, g_timestamp_ms, corrupted, mux, hw_vars>>

-----------------------------------------------------------------------------
(* CTIMER2_IRQHandler.                                                     *)

\* The handler prints the eight result rows when a round ends; at 115200 baud
\* that takes several tick periods, so the next tick is already pending when
\* it returns and runs ahead of the ADC handlers.
RowsJustPrinted == currentCountIndex = 0 /\ current_active_strip_index = 0

BacklogLimit == IF TicksOnTime THEN IF RowsJustPrinted THEN 1 ELSE 0
                               ELSE MaxBacklog

\* A tick never finds a conversion running: with MUX_freq at most 8 a
\* conversion is shorter than a tick period.  A late tick may preempt an ADC
\* handler; MaxPreempted bounds how far the sum can grow that way.
Tick ==
  /\ timerOn
  /\ \A a \in ADC : conv[a] = Idle /\ Len(fifo[a]) <= BacklogLimit
  /\ isr # NoIsr => ~TicksOnTime /\ isr.base.n <= MaxPreempted

\* LPADC_DoSoftwareTrigger on both converters; ignored by one that is in reset.
TriggerBoth ==
  conv' = [a \in ADC |-> IF ~adcOn[a] THEN Idle
                         ELSE IF a = "V" THEN mux ELSE PinsOf(0)]

TickNoStrips ==
  /\ Tick
  /\ g_strip_count = 0 /\ ~ModbusFlag
  /\ UNCHANGED sampler_vars

WindowOverLate == currentCountIndex > SoftwareAverageCount - 1

WindowOver == currentCountIndex >= SoftwareAverageCount - 1

TickWithinWindow ==
  /\ Tick
  /\ g_strip_count # 0 \/ ModbusFlag
  /\ ~WindowOver
  /\ TriggerBoth
  /\ currentCountIndex' = currentCountIndex + 1
  /\ UNCHANGED <<param_vars, current_active_strip_index, data_vars, mux,
                 timerOn, adcOn, fifo, isr>>

NextIndexStuck    == IF g_strip_count = 0 THEN 0
                                          ELSE current_active_strip_index % g_strip_count
NextIndexOffByOne == IF current_active_strip_index + 1 > g_strip_count
                       THEN 0 ELSE current_active_strip_index + 1

\* (current_active_strip_index + 1) % g_strip_count in a uint8_t.  The core
\* does not trap a zero divisor: the quotient is 0 and the dividend remains.
NextIndex ==
  IF g_strip_count = 0 THEN (current_active_strip_index + 1) % Uint8
                       ELSE (current_active_strip_index + 1) % g_strip_count

\* What active_strip_indices[j] may read as.  An entry that is not written
\* (past the end, freed, or not yet filled) holds any byte.
IndexBytes(j) == IF j < Len(active_strip_indices)
                   THEN {active_strip_indices[j + 1]} ELSE Strips \cup {Wild}

\* V_sens_strip_values[byte][0 .. 1] is stored without a check.  With a byte that
\* is no strip it is memory behind the array, up to 2 KB away: what lies there is
\* up to the linker, resistance_array and g_strip_count or nothing used here.
StoreHits(byte) == IF byte = Wild THEN BOOLEAN ELSE {FALSE}

SelectFromOne(byte) == mux' = PinsOf(byte + 1)

SelectMuxChannel(byte) == mux' \in IF byte = Wild THEN Pins ELSE {PinsOf(byte)}

\* Total_adc_summation += current_adc_result
TotalReplaced == [windows |-> 1, conversions |-> sum["C"].n]

TotalWithWindow ==
  [windows     |-> Total_adc_summation.windows + 1,
   conversions |-> Total_adc_summation.conversions + sum["C"].n]

AllStrips == MAX_STRIP_COUNT

Divisor == g_strip_count

calculate_resistance_array(values, total) ==
  [s \in Strips |->
     IF s \in active_strips
       THEN [n |-> values[s].n, time |-> values[s].time, windows |-> total.windows,
             conversions |-> total.conversions, strips |-> Divisor]
       ELSE resistance_array[s]]

\* The last tick of a window.  The sums are averaged before the results of
\* the conversions this very tick triggers have arrived.
TickClosesWindow ==
  /\ Tick
  /\ g_strip_count # 0 \/ ModbusFlag
  /\ WindowOver
  /\ TriggerBoth
  /\ \E currentChannel \in IndexBytes(current_active_strip_index),
        nextChannel \in IndexBytes(NextIndex) :
       LET values == [s \in Strips |->
                        IF s = currentChannel
                          THEN [n |-> sum["V"].n, own |-> sum["V"].on[s],
                                time |-> g_timestamp_ms]
                          ELSE V_sens_strip_values[s]]
       IN /\ V_sens_strip_values' = values
          /\ corrupted' \in StoreHits(currentChannel)
          /\ IF NextIndex = 0
               THEN /\ resistance_array' = calculate_resistance_array(values, TotalWithWindow)
                    /\ Total_adc_summation' = NoTotal
               ELSE /\ Total_adc_summation' = TotalWithWindow
                    /\ UNCHANGED resistance_array
          /\ SelectMuxChannel(nextChannel)
  /\ sum' = [a \in ADC |-> EmptySum]
  /\ currentCountIndex' = 0
  /\ current_active_strip_index' = NextIndex
  /\ UNCHANGED <<param_vars, g_timestamp_ms, timerOn, adcOn, fifo, isr>>

CTIMER2_IRQHandler == TickNoStrips \/ TickWithinWindow \/ TickClosesWindow

Handlers ==
  \/ CTIMER2_IRQHandler
  \/ \E a \in ADC : Convert(a) \/ AdcHandlerLoad(a)
  \/ AdcHandlerStore
=============================================================================
