----------------------------- MODULE HotPlate -----------------------------
(***************************************************************************)
(* The micro hot plate's waveform: initialize_dac_hot_plate() of main.c    *)
(* and DAC_micro_hot_plate.c fill a buffer with one period, first at full  *)
(* scale and then scaled to the amplitude, while CTIMER4's handler plays   *)
(* the buffer to the DAC 25 times a second.  Nothing stops the timer when  *)
(* new parameters come, so the two share the buffer, its size and the      *)
(* index.                                                                  *)
(*                                                                         *)
(* Frequencies are in mHz and amplitudes in V; a float computation is done *)
(* in exact integers.  A sine's sample is any of SineLevels.               *)
(***************************************************************************)
EXTENDS Integers

CONSTANTS
  MAX_ARRAY_SIZE,    \* samples the buffer holds (12500)
  SAMPLE_RATE,       \* samples played per second (25)
  LOWEST_FREQ_POSSIBLE,  \* of a wave, in mHz (2)
  OPAMP_GAIN,        \* (7)
  SineLevels,        \* full-scale samples of a sine
  Requests,          \* parameters main() may initialise the plate with
  MaxRequests        \* bound on how often it does

FullScale == 16383

Parameters == [waveType : Nat, dutyCycle : Nat, frequency : Nat, amplitude : Nat]

ASSUME SizeAssumption ==
  /\ {MAX_ARRAY_SIZE, SAMPLE_RATE, LOWEST_FREQ_POSSIBLE, OPAMP_GAIN} \subseteq Nat \ {0}
  /\ MAX_ARRAY_SIZE = (1000 * SAMPLE_RATE) \div LOWEST_FREQ_POSSIBLE
ASSUME SineAssumption == SineLevels \subseteq 0 .. FullScale
ASSUME RequestAssumption ==
  /\ Requests \subseteq Parameters /\ MaxRequests \in Nat
  /\ \A r \in Requests : r.frequency > 0

VARIABLES
  params,                \* waveType, dutyCycle, desiredFrequency, desiredAmplitude
  g_Dac14Values,
  g_Dac14ValueArraySize,
  g_Dac14InputIndex,
  output,                \* what the DAC puts out
  timerOn,               \* CTIMER4 runs
  pc, i,                 \* what main() is at, and its loop variable
  result,                \* what the last initialisation returned, and did
  received               \* requests so far

vars == <<params, g_Dac14Values, g_Dac14ValueArraySize, g_Dac14InputIndex, output, timerOn,
          pc, i, result, received>>

Init ==
  /\ params = [waveType |-> 0, dutyCycle |-> 50, frequency |-> 50, amplitude |-> 21]
  /\ g_Dac14Values = [n \in 0 .. MAX_ARRAY_SIZE - 1 |-> 0]
  /\ g_Dac14ValueArraySize = 0 /\ g_Dac14InputIndex = 0
  /\ output = 0 /\ timerOn = FALSE
  /\ pc = "idle" /\ i = 0 /\ result = "none" /\ received = 0

-----------------------------------------------------------------------------
(* initialize_dac_hot_plate().                                             *)

\* Dac_and_other_setup resets the DAC; CTIMER4 goes on.
Dac_and_other_setup ==
  /\ pc = "idle" /\ received < MaxRequests
  /\ params' \in Requests
  /\ received' = received + 1
  /\ output' = 0
  /\ pc' = "size"
  /\ UNCHANGED <<g_Dac14Values, g_Dac14ValueArraySize, g_Dac14InputIndex, timerOn, i, result>>

SetSize ==
  /\ pc = "size"
  /\ g_Dac14ValueArraySize' = (1000 * SAMPLE_RATE) \div params.frequency
  /\ pc' = "cap"
  /\ UNCHANGED <<params, g_Dac14Values, g_Dac14InputIndex, output, timerOn, i, result, received>>

CapSize ==
  pc = "cap" /\ g_Dac14ValueArraySize' =
    IF g_Dac14ValueArraySize > MAX_ARRAY_SIZE THEN MAX_ARRAY_SIZE ELSE g_Dac14ValueArraySize

TooSlow     == params.frequency < LOWEST_FREQ_POSSIBLE
InvalidDuty == params.waveType \in {1, 2} /\ params.dutyCycle > 100

\* The frequency is checked when the size has been set already; a generator
\* that refuses the duty cycle leaves the buffer alone and is not noticed.
ChooseWave ==
  /\ CapSize
  /\ i' = 0
  /\ IF TooSlow \/ params.waveType > 2 THEN pc' = "idle" /\ result' = "failed"
     ELSE IF InvalidDuty THEN pc' = "start" /\ result' = "old_buffer"
     ELSE pc' = "generate" /\ result' = "new_buffer"
  /\ UNCHANGED <<params, g_Dac14Values, g_Dac14InputIndex, output, timerOn, received>>

OnSize == (g_Dac14ValueArraySize * params.dutyCycle) \div 100

SquareLevel(n) == IF n < OnSize THEN FullScale ELSE 0

FallDrops(n) == 0

FallUnlimited(n) == IF OnSize = 0 THEN 0 ELSE (FullScale * (2 * OnSize - n)) \div OnSize

\* Below 0, and without a rise (slope is infinite), the conversion to
\* uint32_t is undefined; the core's instruction gives 0.
Fall(n) == IF n >= 2 * OnSize THEN 0 ELSE (FullScale * (2 * OnSize - n)) \div OnSize

Ramp(n) == IF n < OnSize THEN (n * FullScale) \div OnSize ELSE Fall(n)

Levels(n) == CASE params.waveType = 0 -> SineLevels
               [] params.waveType = 1 -> {SquareLevel(n)}
               [] params.waveType = 2 -> {Ramp(n)}

Loop(next) == IF i + 1 < g_Dac14ValueArraySize THEN i' = i + 1 /\ pc' = pc
                                              ELSE i' = 0 /\ pc' = next

\* generateSineWave, generateSquareWave, generateTriangleWave: one sample.
Generate ==
  /\ pc = "generate"
  /\ IF i < g_Dac14ValueArraySize
       THEN \E level \in Levels(i) : g_Dac14Values' = [g_Dac14Values EXCEPT ![i] = level]
       ELSE UNCHANGED g_Dac14Values
  /\ Loop("scale")
  /\ UNCHANGED <<params, g_Dac14ValueArraySize, g_Dac14InputIndex, output, timerOn, result,
                 received>>

\* desiredAmplitude / OPAMP_GAIN is a division of integers; 3.3 V full scale.
Scaled(level) == (level * (params.amplitude \div OPAMP_GAIN) * 10) \div 33

ButLast == i + 1 < g_Dac14ValueArraySize

Within == i < g_Dac14ValueArraySize

scaleDacValues ==
  /\ pc = "scale"
  /\ g_Dac14Values' = IF Within THEN [g_Dac14Values EXCEPT ![i] = Scaled(@)]
                                ELSE g_Dac14Values
  /\ Loop("start")
  /\ UNCHANGED <<params, g_Dac14ValueArraySize, g_Dac14InputIndex, output, timerOn, result,
                 received>>

SetupTimer ==
  /\ pc = "start"
  /\ timerOn' = TRUE
  /\ pc' = "idle"
  /\ UNCHANGED <<params, g_Dac14Values, g_Dac14ValueArraySize, g_Dac14InputIndex, output, i,
                 result, received>>

-----------------------------------------------------------------------------
(* CTIMER4_IRQHandler.                                                     *)

NextIndexLate == IF g_Dac14InputIndex > g_Dac14ValueArraySize THEN 0
                                                             ELSE g_Dac14InputIndex + 1
NextIndexHeld == IF g_Dac14InputIndex + 1 < g_Dac14ValueArraySize THEN g_Dac14InputIndex + 1
                                                                  ELSE g_Dac14InputIndex

\* The core does not trap % 0: the dividend remains.
NextIndex == IF g_Dac14ValueArraySize = 0 THEN g_Dac14InputIndex + 1
             ELSE (g_Dac14InputIndex + 1) % g_Dac14ValueArraySize

\* Past the buffer it reads other memory.
dac_update_callback ==
  /\ timerOn
  /\ output' \in IF g_Dac14InputIndex \in DOMAIN g_Dac14Values
                  THEN {g_Dac14Values[g_Dac14InputIndex]} ELSE {0, FullScale}
  /\ g_Dac14InputIndex' = NextIndex
  /\ UNCHANGED <<params, g_Dac14Values, g_Dac14ValueArraySize, timerOn, pc, i, result, received>>

Main == SetSize \/ ChooseWave \/ Generate \/ scaleDacValues \/ SetupTimer
Next == Dac_and_other_setup \/ Main \/ dac_update_callback

\* CTIMER4 never stops, and main() runs between its interrupts.
Fairness == WF_vars(dac_update_callback) /\ WF_vars(Main)

Spec     == Init /\ [][Next]_vars
FairSpec == Spec /\ Fairness
-----------------------------------------------------------------------------
(* Properties.                                                             *)

\* Types of every variable; the shape global.c declares.
TypeOK ==
  /\ params \in Parameters
  /\ g_Dac14Values \in [0 .. MAX_ARRAY_SIZE - 1 -> Nat]
  /\ g_Dac14ValueArraySize \in Nat /\ g_Dac14InputIndex \in Nat /\ output \in Nat
  /\ timerOn \in BOOLEAN
  /\ pc \in {"idle", "size", "cap", "generate", "scale", "start"} /\ i \in Nat
  /\ result \in {"none", "failed", "old_buffer", "new_buffer"}
  /\ received \in 0 .. MaxRequests

\* dac_update_callback reads inside the buffer, also while main() changes the
\* size the index is wrapped at.
IndexWithinArray == timerOn => g_Dac14InputIndex < MAX_ARRAY_SIZE

Amplitude == Scaled(FullScale)

\* Once a new buffer is ready it holds nothing above the requested amplitude
\* (scaleDacValues): neither a sample of an old wave nor one at full scale.
BufferScaled ==
  pc = "idle" /\ result = "new_buffer" =>
    \A n \in 0 .. g_Dac14ValueArraySize - 1 : g_Dac14Values[n] <= Amplitude

\* A triangle that is ready (generateTriangleWave) rises over the duty cycle's
\* share of the period, and then never rises again.
TriangleTurnsOnce ==
  pc = "idle" /\ result = "new_buffer" /\ params.waveType = 2 =>
    \A n \in 1 .. g_Dac14ValueArraySize - 1 :
      IF n <= OnSize /\ 0 < OnSize THEN g_Dac14Values[n] >= g_Dac14Values[n - 1]
                                   ELSE g_Dac14Values[n] <= g_Dac14Values[n - 1]

Ready == pc = "idle" /\ result = "new_buffer"

\* In the end every sample of the new period is played again and again, and
\* nothing else is: no sample of the wave before, none at full scale.
WavePlayed ==
  \A n \in 0 .. MAX_ARRAY_SIZE - 1 :
    <>[](Ready /\ n < g_Dac14ValueArraySize) =>
      []<>(g_Dac14InputIndex = n) /\ <>[](output <= Amplitude)

-----------------------------------------------------------------------------
(* What comments of the source say and the code does not do.               *)

\* "Scale the DAC values to the desired amplitude" (DAC_micro_hot_plate.c):
\* when all requests have one amplitude, nothing above it is put out.
OutputScaled == received > 0 => output <= Amplitude
=============================================================================
