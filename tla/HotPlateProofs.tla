-------------------------- MODULE HotPlateProofs --------------------------
(***************************************************************************)
(* What holds of HotPlate for every size of the buffer, every sample rate  *)
(* and every set of requests the plate can play.                           *)
(***************************************************************************)
EXTENDS HotPlate, TLAPS

\* A larger divisor gives no larger quotient.
LEMMA DivAntitone ==
  ASSUME NEW n \in Nat, NEW a \in Nat \ {0}, NEW b \in Nat \ {0}, a <= b
  PROVE  n \div b <= n \div a
<1> DEFINE q == n \div b
           p == n \div a
<1>1. q \in Nat /\ p \in Nat
  OBVIOUS
<1>2. q * b <= n /\ n < (p + 1) * a
  OBVIOUS
<1>3. q * a <= q * b
  BY <1>1
<1>4. q * a < (p + 1) * a
  BY <1>1, <1>2, <1>3
<1>5. q < p + 1
  BY <1>1, <1>4
<1> QED
  BY <1>1, <1>5

\* Every request has a period of at least one sample, at most as many as the
\* buffer holds: LOWEST_FREQ_POSSIBLE is the frequency the buffer was made for.
Playable ==
  \A r \in Requests : LOWEST_FREQ_POSSIBLE <= r.frequency /\ r.frequency <= 1000 * SAMPLE_RATE

Period(r) == (1000 * SAMPLE_RATE) \div r.frequency

\* A playable request has at least one sample, and no more than the buffer has room
\* for.
LEMMA PeriodFits ==
  ASSUME Playable, NEW r \in Requests
  PROVE  Period(r) \in 1 .. MAX_ARRAY_SIZE
<1> DEFINE n == 1000 * SAMPLE_RATE
           f == r.frequency
<1>1. n \in Nat \ {0} /\ f \in Nat \ {0} /\ LOWEST_FREQ_POSSIBLE \in Nat \ {0}
  BY SizeAssumption, RequestAssumption DEF Parameters
<1>2. LOWEST_FREQ_POSSIBLE <= f /\ f <= n
  BY DEF Playable
<1>3. n \div f <= n \div LOWEST_FREQ_POSSIBLE
  <2> HIDE DEF n, f
  <2> QED
    BY <1>1, <1>2, DivAntitone
<1>4. n \div n <= n \div f
  <2> HIDE DEF n, f
  <2> QED
    BY <1>1, <1>2, DivAntitone
<1>5. n \div n = 1
  <2> HIDE DEF n
  <2> QED
    BY <1>1
<1>6. n \div f \in Nat
  <2> HIDE DEF n, f
  <2> QED
    BY <1>1
<1> QED
  BY <1>3, <1>4, <1>5, <1>6, SizeAssumption DEF Period

\* The size is 0 only before the first request, and always a size the buffer
\* has room for; so the index that is wrapped at it stays inside.
IndexInv ==
  /\ pc \in {"idle", "size", "cap", "generate", "scale", "start"}
  /\ pc # "idle" => params \in Requests
  /\ g_Dac14ValueArraySize \in 0 .. MAX_ARRAY_SIZE
  /\ pc \in {"cap", "generate", "scale", "start"} \/ timerOn => g_Dac14ValueArraySize >= 1
  /\ g_Dac14InputIndex \in 0 .. MAX_ARRAY_SIZE - 1

\* A step of main() that changes neither the size nor the index.
LEMMA IndexInvStays ==
  ASSUME IndexInv,
         UNCHANGED <<params, g_Dac14ValueArraySize, g_Dac14InputIndex>>,
         pc \in {"cap", "generate", "scale", "start"},
         pc' \in {"idle", "generate", "scale", "start"}
  PROVE  IndexInv'
  BY DEF IndexInv

\* Every step of main() and of CTIMER4's handler keeps the invariant.
LEMMA IndexInvStep ==
  ASSUME Playable, IndexInv, [Next]_vars
  PROVE  IndexInv'
<1>0. MAX_ARRAY_SIZE \in Nat \ {0}
  BY SizeAssumption
<1>1. CASE Dac_and_other_setup
  BY <1>1 DEF Dac_and_other_setup, IndexInv
<1>2. CASE SetSize
  <2>1. g_Dac14ValueArraySize' = Period(params) /\ params \in Requests
    BY <1>2 DEF SetSize, IndexInv, Period
  <2>2. g_Dac14ValueArraySize' \in 1 .. MAX_ARRAY_SIZE
    BY <2>1, PeriodFits
  <2> QED
    BY <1>0, <1>2, <2>2 DEF SetSize, IndexInv
<1>3. CASE ChooseWave
  <2>1. UNCHANGED g_Dac14ValueArraySize
    <3>1. CapSize
      BY <1>3 DEF ChooseWave
    <3>2. g_Dac14ValueArraySize \in Int /\ g_Dac14ValueArraySize <= MAX_ARRAY_SIZE
      BY <1>0 DEF IndexInv
    <3>3. ~(g_Dac14ValueArraySize > MAX_ARRAY_SIZE)
      BY <1>0, <3>2
    <3> QED
      BY <3>1, <3>3 DEF CapSize
  <2> QED
    BY <1>3, <2>1, IndexInvStays DEF ChooseWave, CapSize
<1>4. CASE Generate \/ scaleDacValues
  BY <1>4, IndexInvStays DEF Generate, scaleDacValues, Loop
<1>5. CASE SetupTimer
  BY <1>5, IndexInvStays DEF SetupTimer
<1>6. CASE dac_update_callback
  <2>1. g_Dac14ValueArraySize \in 1 .. MAX_ARRAY_SIZE
    BY <1>0, <1>6 DEF dac_update_callback, IndexInv
  <2>2. NextIndex \in 0 .. g_Dac14ValueArraySize - 1
    BY <1>0, <2>1 DEF NextIndex, IndexInv
  <2> QED
    BY <1>0, <1>6, <2>1, <2>2 DEF dac_update_callback, IndexInv
<1>7. CASE UNCHANGED vars
  BY <1>7 DEF vars, IndexInv
<1> QED
  BY <1>1, <1>2, <1>3, <1>4, <1>5, <1>6, <1>7 DEF Next, Main

\* dac_update_callback never reads past g_Dac14Values, at whichever statement
\* of initialize_dac_hot_plate() it comes, as long as every frequency asked for
\* lies between LOWEST_FREQ_POSSIBLE and the sample rate.
THEOREM IndexStaysInArray == Playable => (Spec => []IndexWithinArray)
<1> SUFFICES ASSUME Playable PROVE Spec => []IndexWithinArray
  OBVIOUS
<1>1. Init => IndexInv
  BY SizeAssumption DEF Init, IndexInv
<1>2. IndexInv /\ [Next]_vars => IndexInv'
  BY IndexInvStep
<1>3. IndexInv => IndexWithinArray
  BY SizeAssumption DEF IndexInv, IndexWithinArray
<1> QED
  BY <1>1, <1>2, <1>3, PTL DEF Spec

-----------------------------------------------------------------------------
(* Lemmas about the levels of a wave.                                      *)

\* A larger dividend gives no smaller quotient.
LEMMA DivMonotone ==
  ASSUME NEW a \in Nat, NEW b \in Nat, NEW d \in Nat \ {0}, a <= b
  PROVE  a \div d \in Nat /\ a \div d <= b \div d
<1> DEFINE q == a \div d
           p == b \div d
<1>1. q \in Nat /\ p \in Nat
  OBVIOUS
<1>2. q * d <= a /\ b < (p + 1) * d
  OBVIOUS
<1> HIDE DEF q, p
<1>3. q * d < (p + 1) * d
  <2>1. q * d \in Nat /\ (p + 1) * d \in Nat
    BY <1>1
  <2> QED
    BY <1>2, <2>1
<1>4. q < p + 1
  BY <1>1, <1>3
<1> QED
  BY <1>1, <1>4 DEF q, p

\* A quotient without a remainder.
LEMMA DivExact == \A n \in Nat, d \in Nat \ {0} : (n * d) \div d = n
OBVIOUS

\* A sample up to full scale is one the DAC can put out.
LEMMA UpToFullScale == \A n \in Nat : n <= FullScale => n \in 0 .. FullScale
<1>1. FullScale \in Nat
  BY DEF FullScale
<1> QED
  BY <1>1

\* scaleDacValues makes no sample larger than another one that was larger before.
LEMMA ScaledMonotone ==
  ASSUME params \in Parameters, NEW a \in Nat, NEW b \in Nat, a <= b
  PROVE  Scaled(a) \in Nat /\ Scaled(a) <= Scaled(b)
<1> DEFINE c == params.amplitude \div OPAMP_GAIN
<1>1. c \in Nat
  BY SizeAssumption DEF Parameters
<1> HIDE DEF c
<1>2. a * c \in Nat /\ b * c \in Nat /\ a * c <= b * c
  BY <1>1
<1>3. a * c * 10 \in Nat /\ b * c * 10 \in Nat /\ a * c * 10 <= b * c * 10
  BY <1>2
<1>4. 33 \in Nat \ {0}
  OBVIOUS
<1> DEFINE x == a * c * 10
           y == b * c * 10
<1>5. x \div 33 \in Nat /\ x \div 33 <= y \div 33
  <2> HIDE DEF x, y
  <2> QED
    BY <1>3, <1>4, DivMonotone DEF x, y
<1> QED
  BY <1>5 DEF Scaled, c

\* The samples of the rise are a share of the period (generateTriangleWave).
LEMMA OnSizeType ==
  ASSUME params \in Parameters, g_Dac14ValueArraySize \in Nat
  PROVE  OnSize \in Nat
<1> DEFINE p == g_Dac14ValueArraySize * params.dutyCycle
<1>1. p \in Nat
  BY DEF Parameters
<1> HIDE DEF p
<1>2. p \div 100 \in Nat
  BY <1>1
<1> QED
  BY <1>2 DEF OnSize, p

\* Falling, a triangle does not rise; it starts at full scale and stays above 0.
LEMMA FallFalls ==
  ASSUME OnSize \in Nat, NEW m \in Nat, NEW n \in Nat, OnSize <= m, m <= n
  PROVE  /\ Fall(n) \in Nat /\ Fall(n) <= Fall(m)
         /\ Fall(m) \in 0 .. FullScale
         /\ OnSize # 0 => Fall(OnSize) = FullScale
<1> DEFINE on == OnSize
           at(j) == FullScale * (2 * on - j)
<1> HIDE DEF on
<1>1. on \in Nat /\ on <= m
  BY DEF on
<1>2. \A j : Fall(j) = IF j >= 2 * on THEN 0 ELSE at(j) \div on
  BY DEF Fall, on
<1>3. ASSUME NEW j \in Nat, on <= j, ~ (j >= 2 * on)
      PROVE  /\ on \in Nat \ {0} /\ at(j) \in Nat
             /\ at(j) <= FullScale * on /\ FullScale * on \in Nat
  BY <1>1, <1>3 DEF FullScale
<1>4. on # 0 => (FullScale * on) \div on = FullScale
  BY <1>1, DivExact DEF FullScale
<1>5. ASSUME NEW j \in Nat, on <= j PROVE Fall(j) \in 0 .. FullScale
  <2>1. CASE j >= 2 * on
    BY <1>2, <2>1 DEF FullScale
  <2>2. CASE ~ (j >= 2 * on)
    <3>1. at(j) \div on \in Nat /\ at(j) \div on <= (FullScale * on) \div on
      <4> DEFINE x == at(j)
                 z == FullScale * on
      <4>1. x \in Nat /\ z \in Nat /\ x <= z /\ on \in Nat \ {0}
        BY <1>3, <1>5, <2>2
      <4> HIDE DEF x, z
      <4>2. x \div on \in Nat /\ x \div on <= z \div on
        BY <4>1, DivMonotone
      <4> QED
        BY <4>2 DEF x, z
    <3>2. at(j) \div on \in 0 .. FullScale
      <4>1. (FullScale * on) \div on = FullScale
        BY <1>3, <1>4, <1>5, <2>2
      <4> HIDE DEF at
      <4> QED
        BY <3>1, <4>1, UpToFullScale
    <3> QED
      BY <1>2, <2>2, <3>2
  <2> QED
    BY <2>1, <2>2
<1>6. Fall(n) <= Fall(m)
  <2>1. CASE n >= 2 * on
    <3>1. Fall(n) = 0
      BY <1>2, <2>1
    <3> QED
      BY <1>1, <1>5, <3>1
  <2>2. CASE ~ (n >= 2 * on)
    <3>1. ~ (m >= 2 * on) /\ on <= n
      BY <1>1, <2>2
    <3>2. at(n) <= at(m)
      BY <1>1 DEF FullScale
    <3>3. at(n) \div on <= at(m) \div on
      <4> HIDE DEF at
      <4> QED
        BY <1>1, <1>3, <2>2, <3>1, <3>2, DivMonotone
    <3> QED
      BY <1>2, <2>2, <3>1, <3>3
  <2> QED
    BY <2>1, <2>2
<1>7. on # 0 => Fall(on) = FullScale
  <2> SUFFICES ASSUME on # 0 PROVE Fall(on) = FullScale
    OBVIOUS
  <2>1. ~ (on >= 2 * on) /\ at(on) = FullScale * on
    BY <1>1 DEF FullScale
  <2> QED
    BY <1>2, <1>4, <2>1
<1>8. on <= n
  BY <1>1
<1> QED
  BY <1>1, <1>5, <1>6, <1>7, <1>8 DEF on

\* Rising, it does not fall, and stays below full scale.
LEMMA RampRises ==
  ASSUME OnSize \in Nat, NEW m \in Nat, NEW n \in Nat, m <= n, n < OnSize
  PROVE  Ramp(m) <= Ramp(n) /\ Ramp(m) \in 0 .. FullScale
<1> DEFINE on == OnSize
<1> HIDE DEF on
<1>1. on \in Nat \ {0} /\ m < on /\ n < on
  BY DEF on
<1>2. Ramp(m) = (m * FullScale) \div on /\ Ramp(n) = (n * FullScale) \div on
  BY <1>1 DEF Ramp, on
<1> DEFINE x == m * FullScale
           y == n * FullScale
           z == FullScale * on
<1>3. x \in Nat /\ y \in Nat /\ z \in Nat /\ x <= y /\ x <= z
  BY <1>1 DEF FullScale
<1>4. x \div on \in Nat /\ x \div on <= y \div on /\ x \div on <= z \div on
  <2> HIDE DEF x, y, z
  <2> QED
    BY <1>1, <1>3, DivMonotone
<1>5. z \div on = FullScale
  BY <1>1, DivExact DEF FullScale
<1> HIDE DEF x, y, z
<1>6. Ramp(m) = x \div on /\ Ramp(n) = y \div on
  BY <1>2 DEF x, y
<1> QED
  BY <1>1, <1>3, <1>4, <1>5, <1>6, UpToFullScale

\* No generator writes a sample above full scale.
LEMMA LevelsFit ==
  ASSUME params \in Parameters, g_Dac14ValueArraySize \in Nat, params.waveType <= 2,
         NEW n \in Nat
  PROVE  Levels(n) \subseteq 0 .. FullScale
<1>1. OnSize \in Nat
  BY OnSizeType
<1>2. Ramp(n) \in 0 .. FullScale
  <2>1. CASE n < OnSize
    BY <1>1, <2>1, RampRises
  <2>2. CASE ~ (n < OnSize)
    <3>1. Ramp(n) = Fall(n) /\ OnSize <= n
      BY <1>1, <2>2 DEF Ramp
    <3> QED
      BY <1>1, <3>1, FallFalls
  <2> QED
    BY <2>1, <2>2
<1>3. SquareLevel(n) \in 0 .. FullScale
  BY DEF SquareLevel, FullScale
<1>4. params.waveType \in {0, 1, 2}
  BY DEF Parameters
<1> QED
  BY <1>2, <1>3, <1>4, SineAssumption DEF Levels

-----------------------------------------------------------------------------
(* The buffer while main() fills and scales it.                            *)

\* What the statements of initialize_dac_hot_plate() may rely on, beyond types:
\* nothing is divided by a frequency of 0, and no generator runs that is not one.
StatementInv ==
  /\ params.frequency > 0
  /\ pc = "generate" => params.waveType <= 2
  /\ pc \in {"generate", "scale"} => result = "new_buffer"

PlateInv == TypeOK /\ StatementInv

\* Before main() has been asked for a wave, every sample is 0.
LEMMA PlateInvInit == Init => PlateInv
<1> SUFFICES ASSUME Init PROVE PlateInv
  OBVIOUS
<1>1. params \in Parameters /\ params.frequency > 0
  BY DEF Init, Parameters
<1>2. g_Dac14Values \in [0 .. MAX_ARRAY_SIZE - 1 -> Nat]
  BY DEF Init
<1>3. received \in 0 .. MaxRequests
  BY RequestAssumption DEF Init
<1>4. /\ g_Dac14ValueArraySize \in Nat /\ g_Dac14InputIndex \in Nat /\ output \in Nat
      /\ timerOn \in BOOLEAN /\ pc = "idle" /\ i \in Nat /\ result = "none"
  BY DEF Init
<1> QED
  BY <1>1, <1>2, <1>3, <1>4 DEF PlateInv, TypeOK, StatementInv

\* A step that leaves the parameters, the buffer and the count of requests alone.
LEMMA PlateInvStays ==
  ASSUME PlateInv, UNCHANGED <<params, received>>,
         g_Dac14Values' \in [0 .. MAX_ARRAY_SIZE - 1 -> Nat],
         g_Dac14ValueArraySize' \in Nat, g_Dac14InputIndex' \in Nat, output' \in Nat,
         timerOn' \in BOOLEAN, i' \in Nat,
         pc' \in {"idle", "size", "cap", "generate", "scale", "start"},
         result' \in {"none", "failed", "old_buffer", "new_buffer"},
         pc' = "generate" => params.waveType <= 2,
         pc' \in {"generate", "scale"} => result' = "new_buffer"
  PROVE  PlateInv'
<1>1. params' \in Parameters /\ params'.frequency > 0 /\ received' \in 0 .. MaxRequests
  BY DEF PlateInv, TypeOK, StatementInv
<1> QED
  BY <1>1 DEF PlateInv, TypeOK, StatementInv

\* main() fills and scales the buffer sample by sample; no level is negative.
LEMMA PlateInvStep ==
  ASSUME PlateInv, [Next]_vars
  PROVE  PlateInv'
<1>a. params \in Parameters /\ params.frequency > 0
  BY DEF PlateInv, TypeOK, StatementInv
<1>b. g_Dac14Values \in [0 .. MAX_ARRAY_SIZE - 1 -> Nat]
  BY DEF PlateInv, TypeOK
<1>c. /\ g_Dac14ValueArraySize \in Nat /\ g_Dac14InputIndex \in Nat /\ output \in Nat
      /\ i \in Nat
  BY DEF PlateInv, TypeOK
<1>d. received \in 0 .. MaxRequests
  BY DEF PlateInv, TypeOK
<1>e. /\ timerOn \in BOOLEAN
      /\ pc \in {"idle", "size", "cap", "generate", "scale", "start"}
      /\ result \in {"none", "failed", "old_buffer", "new_buffer"}
  BY DEF PlateInv, TypeOK
<1>f. /\ pc = "generate" => params.waveType <= 2
      /\ pc \in {"generate", "scale"} => result = "new_buffer"
  BY DEF PlateInv, StatementInv
<1>1. CASE Dac_and_other_setup
  <2>1. params' \in Parameters /\ params'.frequency > 0
    BY <1>1, RequestAssumption DEF Dac_and_other_setup
  <2>2. received' \in 0 .. MaxRequests
    <3>1. received < MaxRequests /\ received' = received + 1 /\ MaxRequests \in Nat
      BY <1>1, RequestAssumption DEF Dac_and_other_setup
    <3> QED
      BY <1>d, <3>1
  <2>3. /\ pc' = "size" /\ output' = 0
        /\ UNCHANGED <<g_Dac14Values, g_Dac14ValueArraySize, g_Dac14InputIndex, timerOn,
                       i, result>>
    BY <1>1 DEF Dac_and_other_setup
  <2> QED
    BY <1>b, <1>c, <1>e, <2>1, <2>2, <2>3 DEF PlateInv, TypeOK, StatementInv
<1>2. CASE SetSize
  <2> DEFINE f == params.frequency
             n == 1000 * SAMPLE_RATE
  <2>1. f \in Nat \ {0} /\ n \in Nat
    BY <1>a, SizeAssumption DEF Parameters
  <2> HIDE DEF f, n
  <2>2. n \div f \in Nat
    BY <2>1
  <2>3. g_Dac14ValueArraySize' \in Nat
    BY <1>2, <2>2 DEF SetSize, f, n
  <2>4. pc' = "cap" /\ UNCHANGED <<params, g_Dac14Values, g_Dac14InputIndex, output, timerOn,
                                  i, result, received>>
    BY <1>2 DEF SetSize
  <2> QED
    BY <1>b, <1>c, <1>e, <2>3, <2>4, PlateInvStays
<1>3. CASE ChooseWave
  <2>1. g_Dac14ValueArraySize' \in Nat /\ i' \in Nat
    BY <1>c, <1>3, SizeAssumption DEF ChooseWave, CapSize
  <2>2. params.waveType \in Nat
    BY <1>a DEF Parameters
  <2>3. /\ pc' \in {"idle", "start", "generate"}
        /\ result' \in {"failed", "old_buffer", "new_buffer"}
        /\ (pc' = "generate" => params.waveType <= 2 /\ result' = "new_buffer")
    <3> DEFINE refused == TooSlow \/ params.waveType > 2
    <3>1. IF refused THEN pc' = "idle" /\ result' = "failed"
          ELSE IF InvalidDuty THEN pc' = "start" /\ result' = "old_buffer"
          ELSE pc' = "generate" /\ result' = "new_buffer"
      BY <1>3 DEF ChooseWave
    <3>2. ~refused => params.waveType <= 2
      BY <2>2
    <3> HIDE DEF refused
    <3>3. CASE refused
      BY <3>1, <3>3
    <3>4. CASE ~refused /\ InvalidDuty
      BY <3>1, <3>4
    <3>5. CASE ~refused /\ ~InvalidDuty
      BY <3>1, <3>2, <3>5
    <3> QED
      BY <3>3, <3>4, <3>5
  <2>4. UNCHANGED <<params, g_Dac14Values, g_Dac14InputIndex, output, timerOn, received>>
    BY <1>3 DEF ChooseWave
  <2> QED
    BY <1>b, <1>c, <1>e, <2>1, <2>3, <2>4, PlateInvStays
<1>4. ASSUME NEW next, Loop(next) PROVE i' \in Nat /\ pc' \in {pc, next}
  BY <1>c, <1>4 DEF Loop
<1>5. CASE Generate
  <2>1. \A n \in Nat : Levels(n) \subseteq Nat
    <3>1. params.waveType <= 2
      BY <1>f, <1>5 DEF Generate
    <3>2. \A n \in Nat : Levels(n) \subseteq 0 .. FullScale
      BY <1>a, <1>c, <3>1, LevelsFit
    <3> QED
      BY <3>2
  <2>2. g_Dac14Values' \in [0 .. MAX_ARRAY_SIZE - 1 -> Nat]
    BY <1>b, <1>c, <1>5, <2>1 DEF Generate
  <2>3. i' \in Nat /\ pc' \in {"generate", "scale"}
    BY <1>4, <1>5 DEF Generate
  <2>4. /\ UNCHANGED <<params, g_Dac14ValueArraySize, g_Dac14InputIndex, output, timerOn,
                       result, received>>
        /\ pc = "generate"
    BY <1>5 DEF Generate
  <2> QED
    BY <1>c, <1>e, <1>f, <2>2, <2>3, <2>4, PlateInvStays
<1>6. CASE scaleDacValues
  <2>1. \A level \in Nat : Scaled(level) \in Nat
    BY <1>a, ScaledMonotone
  <2>2. g_Dac14Values' \in [0 .. MAX_ARRAY_SIZE - 1 -> Nat]
    <3>1. CASE Within
      <4>1. i \in Nat /\ g_Dac14Values' = [g_Dac14Values EXCEPT ![i] = Scaled(@)]
        BY <1>c, <1>6, <3>1 DEF scaleDacValues
      <4> QED
        BY <1>b, <2>1, <4>1
    <3>2. CASE ~Within
      BY <1>b, <1>6, <3>2 DEF scaleDacValues
    <3> QED
      BY <3>1, <3>2
  <2>3. i' \in Nat /\ pc' \in {"scale", "start"}
    BY <1>4, <1>6 DEF scaleDacValues
  <2>4. /\ UNCHANGED <<params, g_Dac14ValueArraySize, g_Dac14InputIndex, output, timerOn,
                       result, received>>
        /\ pc = "scale"
    BY <1>6 DEF scaleDacValues
  <2> QED
    BY <1>c, <1>e, <1>f, <2>2, <2>3, <2>4, PlateInvStays
<1>7. CASE SetupTimer
  <2>1. /\ timerOn' = TRUE /\ pc' = "idle"
        /\ UNCHANGED <<params, g_Dac14Values, g_Dac14ValueArraySize, g_Dac14InputIndex,
                       output, i, result, received>>
    BY <1>7 DEF SetupTimer
  <2> QED
    BY <1>b, <1>c, <1>e, <2>1, PlateInvStays
<1>8. CASE dac_update_callback
  <2>1. NextIndex \in Nat
    <3>1. CASE g_Dac14ValueArraySize = 0
      BY <1>c, <3>1 DEF NextIndex
    <3>2. CASE g_Dac14ValueArraySize # 0
      <4> DEFINE a == g_Dac14InputIndex + 1
                 b == g_Dac14ValueArraySize
      <4>1. a \in Nat /\ b \in Nat \ {0}
        BY <1>c, <3>2
      <4> HIDE DEF a, b
      <4>2. a % b \in Nat
        BY <4>1
      <4> QED
        BY <3>2, <4>2 DEF NextIndex, a, b
    <3> QED
      BY <3>1, <3>2
  <2>2. output' \in Nat
    <3>1. g_Dac14InputIndex \in DOMAIN g_Dac14Values => g_Dac14Values[g_Dac14InputIndex] \in Nat
      BY <1>b
    <3>2. 0 \in Nat /\ FullScale \in Nat
      BY DEF FullScale
    <3> QED
      BY <1>8, <3>1, <3>2 DEF dac_update_callback
  <2>3. /\ g_Dac14InputIndex' = NextIndex
        /\ UNCHANGED <<params, g_Dac14Values, g_Dac14ValueArraySize, timerOn, pc, i, result,
                       received>>
    BY <1>8 DEF dac_update_callback
  <2> QED
    BY <1>b, <1>c, <1>e, <1>f, <2>1, <2>2, <2>3, PlateInvStays
<1>9. CASE UNCHANGED vars
  BY <1>b, <1>c, <1>e, <1>f, <1>9, PlateInvStays DEF vars
<1> QED
  BY <1>1, <1>2, <1>3, <1>5, <1>6, <1>7, <1>8, <1>9 DEF Next, Main

\* initialize_dac_hot_plate() and dac_update_callback keep every variable in the
\* range global.c declares: no sample is negative, whatever wave is asked for.
THEOREM PlateTypeCorrect == Spec => []TypeOK
<1>1. PlateInv => TypeOK
  BY DEF PlateInv
<1> QED
  BY <1>1, PlateInvInit, PlateInvStep, PTL DEF Spec

\* Sample n is one of the wave asked for, scaled.
Made(n) == \E level \in Levels(n) : g_Dac14Values[n] = Scaled(level)

\* The buffer has room for the whole period of a wave that is one of the three.
RoomInv ==
  pc \in {"generate", "scale", "start", "idle"} /\ result = "new_buffer" =>
    g_Dac14ValueArraySize <= MAX_ARRAY_SIZE /\ params.waveType <= 2

LoopInv == pc \in {"generate", "scale"} => i = 0 \/ i < g_Dac14ValueArraySize

\* Below the loop variable the samples are generated, and then scaled; above it
\* they are not yet scaled.
FillInv ==
  /\ pc = "generate" => \A n \in 0 .. i - 1 : g_Dac14Values[n] \in Levels(n)
  /\ pc = "scale" =>
       /\ \A n \in 0 .. i - 1 : Made(n)
       /\ \A n \in i .. g_Dac14ValueArraySize - 1 : g_Dac14Values[n] \in Levels(n)
  /\ pc \in {"start", "idle"} /\ result = "new_buffer" =>
       \A n \in 0 .. g_Dac14ValueArraySize - 1 : Made(n)

BufferInv == RoomInv /\ LoopInv /\ FillInv

\* Neither a wave's levels nor what they are scaled to depend on anything but
\* the parameters and the size.
LEMMA LevelsStay ==
  ASSUME UNCHANGED <<params, g_Dac14ValueArraySize>>
  PROVE  \A n : Levels(n)' = Levels(n) /\ Scaled(n)' = Scaled(n)
BY DEF Levels, SquareLevel, Ramp, Fall, OnSize, Scaled

\* A sample no statement wrote is still of the wave it was of.
LEMMA MadeStays ==
  ASSUME UNCHANGED <<params, g_Dac14ValueArraySize>>, NEW n,
         g_Dac14Values'[n] = g_Dac14Values[n], Made(n)
  PROVE  Made(n)'
<1>1. Levels(n)' = Levels(n) /\ \A l : Scaled(l)' = Scaled(l)
  BY LevelsStay
<1>2. PICK level \in Levels(n) : g_Dac14Values[n] = Scaled(level)
  BY DEF Made
<1>3. level \in Levels(n)' /\ g_Dac14Values'[n] = Scaled(level)'
  BY <1>1, <1>2
<1> QED
  BY <1>3 DEF Made

\* generateSineWave, generateSquareWave and generateTriangleWave fill the buffer
\* from its first sample to its last.
LEMMA GenerateFills ==
  ASSUME PlateInv, BufferInv, Generate
  PROVE  BufferInv'
<1> DEFINE size == g_Dac14ValueArraySize
           w == g_Dac14Values
<1>1. /\ w \in [0 .. MAX_ARRAY_SIZE - 1 -> Nat] /\ size \in Nat /\ i \in Nat
      /\ MAX_ARRAY_SIZE \in Nat
  BY SizeAssumption DEF PlateInv, TypeOK
<1>2. pc = "generate" /\ result = "new_buffer"
  BY DEF Generate, PlateInv, StatementInv
<1>3. /\ UNCHANGED <<params, g_Dac14ValueArraySize, result>>
      /\ Loop("scale")
  BY DEF Generate
<1>4. /\ size <= MAX_ARRAY_SIZE /\ params.waveType <= 2
      /\ i = 0 \/ i < size
      /\ \A n \in 0 .. i - 1 : w[n] \in Levels(n)
  BY <1>2 DEF BufferInv, RoomInv, LoopInv, FillInv
<1>5. \A n : Levels(n)' = Levels(n)
  BY <1>3, LevelsStay
<1>6. \A n \in 0 .. i : n < size => w'[n] \in Levels(n)'
  <2> SUFFICES ASSUME NEW n \in 0 .. i, n < size PROVE w'[n] \in Levels(n)
    BY <1>5
  <2>1. i < size
    BY <1>1, <1>4
  <2>2. PICK level \in Levels(i) : w' = [w EXCEPT ![i] = level]
    BY <2>1 DEF Generate
  <2>3. i \in 0 .. MAX_ARRAY_SIZE - 1 /\ n \in 0 .. MAX_ARRAY_SIZE - 1
    BY <1>1, <1>4, <2>1
  <2>4. w'[i] = level /\ (n # i => w'[n] = w[n])
    BY <1>1, <2>2, <2>3
  <2>5. n # i => n \in 0 .. i - 1
    BY <1>1
  <2> QED
    BY <1>4, <2>4, <2>5
<1>7. CASE i + 1 < size
  <2>1. i' = i + 1 /\ pc' = "generate"
    BY <1>2, <1>3, <1>7 DEF Loop
  <2>2. \A n \in 0 .. i' - 1 : w'[n] \in Levels(n)'
    <3> SUFFICES ASSUME NEW n \in 0 .. i' - 1 PROVE w'[n] \in Levels(n)'
      OBVIOUS
    <3>1. n \in 0 .. i /\ n < size
      BY <1>1, <1>7, <2>1
    <3> QED
      BY <1>6, <3>1
  <2> QED
    BY <1>3, <1>4, <1>7, <2>1, <2>2 DEF BufferInv, RoomInv, LoopInv, FillInv
<1>8. CASE ~(i + 1 < size)
  <2>1. i' = 0 /\ pc' = "scale"
    BY <1>3, <1>8 DEF Loop
  <2>2. \A n \in 0 .. i' - 1 : Made(n)'
    BY <2>1
  <2>3. \A n \in i' .. size' - 1 : w'[n] \in Levels(n)'
    <3> SUFFICES ASSUME NEW n \in i' .. size' - 1 PROVE w'[n] \in Levels(n)'
      OBVIOUS
    <3>1. n \in 0 .. i /\ n < size
      BY <1>1, <1>3, <1>8, <2>1
    <3> QED
      BY <1>6, <3>1
  <2> QED
    BY <1>3, <1>4, <2>1, <2>2, <2>3 DEF BufferInv, RoomInv, LoopInv, FillInv
<1> QED
  BY <1>7, <1>8

\* scaleDacValues scales every sample of the period, and each of them once.
LEMMA ScaleScales ==
  ASSUME PlateInv, BufferInv, scaleDacValues
  PROVE  BufferInv'
<1> DEFINE size == g_Dac14ValueArraySize
           w == g_Dac14Values
<1>1. /\ w \in [0 .. MAX_ARRAY_SIZE - 1 -> Nat] /\ size \in Nat /\ i \in Nat
      /\ MAX_ARRAY_SIZE \in Nat
  BY SizeAssumption DEF PlateInv, TypeOK
<1>2. pc = "scale" /\ result = "new_buffer"
  BY DEF scaleDacValues, PlateInv, StatementInv
<1>3. /\ UNCHANGED <<params, g_Dac14ValueArraySize, result>>
      /\ Loop("start")
      /\ w' = IF i < size THEN [w EXCEPT ![i] = Scaled(@)] ELSE w
  BY DEF scaleDacValues, Within
<1>4. /\ size <= MAX_ARRAY_SIZE /\ params.waveType <= 2
      /\ i = 0 \/ i < size
      /\ \A n \in 0 .. i - 1 : Made(n)
      /\ \A n \in i .. size - 1 : w[n] \in Levels(n)
  BY <1>2 DEF BufferInv, RoomInv, LoopInv, FillInv
<1>5. \A n : Levels(n)' = Levels(n) /\ Scaled(n)' = Scaled(n)
  BY <1>3, LevelsStay
<1>6. \A n \in 0 .. MAX_ARRAY_SIZE - 1 : n # i => w'[n] = w[n]
  BY <1>1, <1>3
<1>7. \A n \in 0 .. i : n < size => Made(n)'
  <2> SUFFICES ASSUME NEW n \in 0 .. i, n < size PROVE Made(n)'
    OBVIOUS
  <2>1. i < size /\ n \in 0 .. MAX_ARRAY_SIZE - 1 /\ i \in 0 .. MAX_ARRAY_SIZE - 1
    BY <1>1, <1>4
  <2>2. CASE n = i
    <3>1. w'[i] = Scaled(w[i])
      BY <1>1, <1>3, <2>1
    <3>2. w[i] \in Levels(i)
      BY <1>1, <1>4, <2>1
    <3>3. PICK level : level = w[i]
      OBVIOUS
    <3>4. w'[n] = Scaled(level)' /\ level \in Levels(n)'
      BY <1>5, <2>2, <3>1, <3>2, <3>3
    <3> QED
      BY <3>4 DEF Made
  <2>3. CASE n # i
    <3>1. n \in 0 .. i - 1 /\ w'[n] = w[n]
      BY <1>1, <1>6, <2>1, <2>3
    <3> QED
      BY <1>3, <1>4, <3>1, MadeStays
  <2> QED
    BY <2>2, <2>3
<1>8. CASE i + 1 < size
  <2>1. i' = i + 1 /\ pc' = "scale"
    BY <1>2, <1>3, <1>8 DEF Loop
  <2>2. \A n \in 0 .. i' - 1 : Made(n)'
    <3> SUFFICES ASSUME NEW n \in 0 .. i' - 1 PROVE Made(n)'
      OBVIOUS
    <3>1. n \in 0 .. i /\ n < size
      BY <1>1, <1>8, <2>1
    <3> QED
      BY <1>7, <3>1
  <2>3. \A n \in i' .. size' - 1 : w'[n] \in Levels(n)'
    <3> SUFFICES ASSUME NEW n \in i' .. size' - 1 PROVE w'[n] \in Levels(n)'
      OBVIOUS
    <3>1. n \in i .. size - 1 /\ n # i /\ n \in 0 .. MAX_ARRAY_SIZE - 1
      BY <1>1, <1>3, <1>4, <2>1
    <3> QED
      BY <1>4, <1>5, <1>6, <3>1
  <2> QED
    BY <1>3, <1>4, <1>8, <2>1, <2>2, <2>3 DEF BufferInv, RoomInv, LoopInv, FillInv
<1>9. CASE ~(i + 1 < size)
  <2>1. i' = 0 /\ pc' = "start"
    BY <1>3, <1>9 DEF Loop
  <2>2. \A n \in 0 .. size' - 1 : Made(n)'
    <3> SUFFICES ASSUME NEW n \in 0 .. size' - 1 PROVE Made(n)'
      OBVIOUS
    <3>1. n \in 0 .. i /\ n < size
      BY <1>1, <1>3, <1>9
    <3> QED
      BY <1>7, <3>1
  <2> QED
    BY <1>3, <1>4, <2>1, <2>2 DEF BufferInv, RoomInv, LoopInv, FillInv
<1> QED
  BY <1>8, <1>9

\* A step that leaves the period alone once it is ready.
LEMMA BufferInvStays ==
  ASSUME BufferInv, UNCHANGED <<params, g_Dac14Values, g_Dac14ValueArraySize, i, result>>,
         pc' = pc \/ (pc = "start" /\ pc' = "idle")
  PROVE  BufferInv'
<1>1. \A n : Levels(n)' = Levels(n)
  BY LevelsStay
<1>2. \A n : Made(n) => Made(n)'
  BY MadeStays
<1>3. RoomInv' /\ LoopInv'
  BY DEF BufferInv, RoomInv, LoopInv
<1>4. FillInv'
  BY <1>1, <1>2 DEF BufferInv, FillInv
<1> QED
  BY <1>3, <1>4 DEF BufferInv

\* A statement of main(), or a tick of CTIMER4, keeps what the buffer holds so far.
LEMMA BufferInvStep ==
  ASSUME PlateInv, BufferInv, [Next]_vars
  PROVE  BufferInv'
<1>1. CASE Dac_and_other_setup
  BY <1>1 DEF Dac_and_other_setup, BufferInv, RoomInv, LoopInv, FillInv
<1>2. CASE SetSize
  BY <1>2 DEF SetSize, BufferInv, RoomInv, LoopInv, FillInv
<1>3. CASE ChooseWave
  <2>1. g_Dac14ValueArraySize' <= MAX_ARRAY_SIZE
    <3>1. g_Dac14ValueArraySize \in Nat /\ MAX_ARRAY_SIZE \in Nat
      BY SizeAssumption DEF PlateInv, TypeOK
    <3>2. CapSize
      BY <1>3 DEF ChooseWave
    <3> QED
      BY <3>1, <3>2 DEF CapSize
  <2>2. i' = 0 /\ UNCHANGED params
    BY <1>3 DEF ChooseWave
  <2>3. CASE pc' = "generate"
    <3>1. params.waveType <= 2
      <4>1. ~(params.waveType > 2)
        BY <1>3, <2>3 DEF ChooseWave
      <4>2. params.waveType \in Nat
        BY DEF PlateInv, TypeOK, Parameters
      <4> QED
        BY <4>1, <4>2
    <3>2. params'.waveType <= 2
      BY <2>2, <3>1
    <3>3. \A n \in 0 .. i' - 1 : FALSE
      BY <2>2
    <3> QED
      BY <2>1, <2>2, <2>3, <3>2, <3>3 DEF BufferInv, RoomInv, LoopInv, FillInv
  <2>4. CASE pc' # "generate"
    <3>1. pc' \in {"idle", "start"} /\ result' # "new_buffer"
      BY <1>3, <2>4 DEF ChooseWave
    <3> QED
      BY <3>1 DEF BufferInv, RoomInv, LoopInv, FillInv
  <2> QED
    BY <2>3, <2>4
<1>4. CASE Generate
  BY <1>4, GenerateFills
<1>5. CASE scaleDacValues
  BY <1>5, ScaleScales
<1>6. CASE SetupTimer
  BY <1>6, BufferInvStays DEF SetupTimer
<1>7. CASE dac_update_callback
  BY <1>7, BufferInvStays DEF dac_update_callback
<1>8. CASE UNCHANGED vars
  BY <1>8, BufferInvStays DEF vars
<1> QED
  BY <1>1, <1>2, <1>3, <1>4, <1>5, <1>6, <1>7, <1>8 DEF Next, Main

\* At every statement of initialize_dac_hot_plate() the buffer holds what it is
\* said to.
LEMMA BufferInvAlways == Spec => [](PlateInv /\ BufferInv)
<1>1. Init => BufferInv
  BY DEF Init, BufferInv, RoomInv, LoopInv, FillInv
<1> QED
  BY <1>1, PlateInvInit, PlateInvStep, BufferInvStep, PTL DEF Spec

\* When a new period is ready no sample is above the amplitude asked for, after
\* any requests: initialize_dac_hot_plate() leaves no sample of an older wave in
\* it, and scaleDacValues leaves none at full scale.
THEOREM ReadyBufferIsScaled == Spec => []BufferScaled
<1>1. PlateInv /\ BufferInv => BufferScaled
  <2> SUFFICES ASSUME PlateInv, BufferInv, pc = "idle", result = "new_buffer",
                      NEW n \in 0 .. g_Dac14ValueArraySize - 1
               PROVE  g_Dac14Values[n] <= Amplitude
    BY DEF BufferScaled
  <2>1. params \in Parameters /\ g_Dac14ValueArraySize \in Nat /\ n \in Nat
    BY DEF PlateInv, TypeOK
  <2>2. params.waveType <= 2 /\ Made(n)
    BY DEF BufferInv, RoomInv, FillInv
  <2>3. PICK level \in Levels(n) : g_Dac14Values[n] = Scaled(level)
    BY <2>2 DEF Made
  <2>4. level \in 0 .. FullScale
    BY <2>1, <2>2, LevelsFit
  <2>5. level \in Nat /\ FullScale \in Nat /\ level <= FullScale
    BY <2>4 DEF FullScale
  <2> QED
    BY <2>1, <2>3, <2>5, ScaledMonotone DEF Amplitude
<1> QED
  BY <1>1, BufferInvAlways, PTL

\* A triangle that is ready rises over the duty cycle's share of its period and
\* never rises again, for every duty cycle generateTriangleWave accepts.
THEOREM ReadyTriangleTurnsOnce == Spec => []TriangleTurnsOnce
<1>1. PlateInv /\ BufferInv => TriangleTurnsOnce
  <2> SUFFICES ASSUME PlateInv, BufferInv, pc = "idle", result = "new_buffer",
                      params.waveType = 2, NEW n \in 1 .. g_Dac14ValueArraySize - 1
               PROVE  IF n <= OnSize /\ 0 < OnSize
                        THEN g_Dac14Values[n] >= g_Dac14Values[n - 1]
                        ELSE g_Dac14Values[n] <= g_Dac14Values[n - 1]
    BY DEF TriangleTurnsOnce
  <2>1. params \in Parameters /\ g_Dac14ValueArraySize \in Nat
    BY DEF PlateInv, TypeOK
  <2>2. OnSize \in Nat
    BY <2>1, OnSizeType
  <2>3. ASSUME NEW j \in 0 .. g_Dac14ValueArraySize - 1
        PROVE  g_Dac14Values[j] = Scaled(Ramp(j))
    <3>1. Made(j)
      BY DEF BufferInv, FillInv
    <3>2. Levels(j) = {Ramp(j)}
      BY DEF Levels
    <3> QED
      BY <3>1, <3>2 DEF Made
  <2> DEFINE before == Ramp(n - 1)
             after == Ramp(n)
  <2>4. n \in Nat /\ n - 1 \in Nat /\ n - 1 <= n
    BY <2>1
  <2>5. g_Dac14Values[n] = Scaled(after) /\ g_Dac14Values[n - 1] = Scaled(before)
    <3>1. n \in 0 .. g_Dac14ValueArraySize - 1 /\ n - 1 \in 0 .. g_Dac14ValueArraySize - 1
      BY <2>1
    <3> QED
      BY <2>3, <3>1
  <2>6. CASE n <= OnSize /\ 0 < OnSize
    <3>1. n - 1 < OnSize
      BY <2>2, <2>4, <2>6
    <3>2. before \in Nat /\ after \in Nat /\ before <= after
      <4>1. CASE n < OnSize
        <5>1. before <= after /\ before \in 0 .. FullScale
          BY <2>2, <2>4, <4>1, RampRises
        <5>2. after \in 0 .. FullScale
          BY <2>2, <2>4, <4>1, RampRises
        <5> HIDE DEF before, after
        <5> QED
          BY <5>1, <5>2 DEF FullScale
      <4>2. CASE n = OnSize
        <5>1. after = FullScale
          <6>1. after = Fall(n)
            BY <2>2, <4>2 DEF Ramp
          <6>2. Fall(OnSize) = FullScale
            BY <2>2, <2>6, FallFalls
          <6> QED
            BY <4>2, <6>1, <6>2
        <5>2. before \in 0 .. FullScale
          BY <2>2, <2>4, <3>1, RampRises
        <5> HIDE DEF before, after
        <5> QED
          BY <5>1, <5>2 DEF FullScale
      <4> QED
        BY <2>2, <2>4, <2>6, <4>1, <4>2
    <3> HIDE DEF before, after
    <3>3. Scaled(before) \in Nat /\ Scaled(before) <= Scaled(after)
      BY <2>1, <3>2, ScaledMonotone
    <3>4. Scaled(after) \in Nat
      BY <2>1, <3>2, ScaledMonotone
    <3> QED
      BY <2>5, <2>6, <3>3, <3>4
  <2>7. CASE ~(n <= OnSize /\ 0 < OnSize)
    <3>1. OnSize <= n - 1
      BY <2>2, <2>4, <2>7
    <3>2. before = Fall(n - 1) /\ after = Fall(n)
      BY <2>2, <2>4, <3>1 DEF Ramp
    <3>3. Fall(n) \in Nat /\ Fall(n) <= Fall(n - 1) /\ Fall(n - 1) \in 0 .. FullScale
      BY <2>2, <2>4, <3>1, FallFalls
    <3>4. after \in Nat /\ after <= before /\ before \in 0 .. FullScale
      BY <3>2, <3>3
    <3> HIDE DEF before, after
    <3>5. before \in Nat /\ after \in Nat /\ after <= before
      BY <3>4 DEF FullScale
    <3>6. Scaled(after) <= Scaled(before)
      BY <2>1, <3>5, ScaledMonotone
    <3> QED
      BY <2>5, <2>7, <3>6
  <2> QED
    BY <2>6, <2>7
<1> QED
  BY <1>1, BufferInvAlways, PTL
=============================================================================
