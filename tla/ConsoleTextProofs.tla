------------------------- MODULE ConsoleTextProofs -------------------------
(***************************************************************************)
(* What strtok and atoi make of a text: proofs about Console's operators.  *)
(* Decimal and Number are recursive functions, whose values are found by   *)
(* induction over sets of natural numbers.                                 *)
(***************************************************************************)
EXTENDS Console, FiniteSetTheorems, FunctionTheorems, SequenceTheorems,
        WellFoundedInduction, TLAPS

-----------------------------------------------------------------------------
(* Natural numbers and recursive functions.                                *)

\* Among natural numbers there is a smallest.
LEMMA NatMin ==
  ASSUME NEW T \in SUBSET Nat, T # {}
  PROVE  \E x \in T : \A y \in T : x <= y
<1>1. \E x \in T : \A y \in T : <<y, x>> \notin OpToRel(<, Nat)
  BY NatLessThanWellFounded, WFMin
<1>2. PICK x \in T : \A y \in T : <<y, x>> \notin OpToRel(<, Nat)
  BY <1>1
<1>3. \A y \in T : ~(y < x)
  BY <1>2 DEF OpToRel
<1>4. ASSUME NEW y \in T PROVE x <= y
  <2>1. x \in Nat /\ y \in Nat /\ ~(y < x)
    BY <1>2, <1>3
  <2> QED
    BY <2>1
<1> QED
  BY <1>2, <1>4

\* What Min chooses.
LEMMA MinIsLeast ==
  ASSUME NEW T \in SUBSET Nat, T # {}
  PROVE  Min(T) \in T /\ \A y \in T : Min(T) <= y
BY NatMin DEF Min

\* A set that has every number whose smaller ones it has, has them all.
LEMMA NatSetInduction ==
  ASSUME NEW S, \A n \in Nat : (\A m \in Nat : m < n => m \in S) => n \in S
  PROVE  Nat \subseteq S
<1> SUFFICES ASSUME {n \in Nat : n \notin S} # {} PROVE FALSE
  OBVIOUS
<1>1. PICK x \in {n \in Nat : n \notin S} : \A y \in {n \in Nat : n \notin S} : x <= y
  BY NatMin
<1> QED
  BY <1>1

\* A sequence that grows with every step grows.
LEMMA StepsGrow ==
  ASSUME NEW N \in Nat, NEW f \in [1 .. N -> Nat], \A t \in 1 .. N - 1 : f[t] < f[t + 1],
         NEW t \in 1 .. N, NEW u \in 1 .. N, t < u
  PROVE  f[t] < f[u]
<1> DEFINE S == {n \in Nat : t + n + 1 <= N => f[t] < f[t + n + 1]}
<1>1. ASSUME NEW n \in Nat, \A m \in Nat : m < n => m \in S PROVE n \in S
  <2>1. CASE n = 0
    BY <2>1
  <2>2. CASE n # 0
    <3>1. n - 1 \in Nat /\ n - 1 < n /\ t + (n - 1) + 1 = t + n
      BY <2>2
    <3>2. n - 1 \in S
      BY <1>1, <3>1
    <3> SUFFICES ASSUME t + n + 1 <= N PROVE f[t] < f[t + n + 1]
      OBVIOUS
    <3>3. f[t] < f[t + n]
      BY <3>1, <3>2
    <3>4. t + n \in 1 .. N - 1 /\ t + n \in 1 .. N /\ t + n + 1 \in 1 .. N
      OBVIOUS
    <3>5. f[t + n] < f[t + n + 1]
      BY <3>4
    <3> QED
      BY <3>3, <3>4, <3>5
  <2> QED
    BY <2>1, <2>2
<1>2. Nat \subseteq S
  <2> HIDE DEF S
  <2> QED
    BY <1>1, NatSetInduction
<1>3. u - t - 1 \in Nat /\ t + (u - t - 1) + 1 = u /\ u <= N
  OBVIOUS
<1>4. u - t - 1 \in S
  BY <1>2, <1>3
<1> QED
  BY <1>3, <1>4

-----------------------------------------------------------------------------
(* A function whose value is a base, or is made of the value at a smaller  *)
(* number: prev.                                                           *)

Founded(D, S, stops, base, step, prev) ==
  /\ D \in SUBSET Nat /\ base \in [D -> S] /\ step \in [D -> [S -> S]] /\ prev \in [D -> D]
  /\ \A m \in D \ stops : prev[m] < m

Solves(f, D, stops, base, step, prev) ==
  \A n \in D : f[n] = IF n \in stops THEN base[n] ELSE step[n][f[prev[n]]]

\* The functions that are right for all numbers below n.
Approximations(D, S, stops, base, step, prev, n) ==
  {g \in [{m \in D : m < n} -> S] :
     \A m \in D : m < n => g[m] = IF m \in stops THEN base[m] ELSE step[m][g[prev[m]]]}

\* Two of them agree.
LEMMA ApproximationsAgree ==
  ASSUME NEW D, NEW S, NEW stops, NEW base, NEW step, NEW prev,
         Founded(D, S, stops, base, step, prev)
  PROVE  \A n \in Nat, k \in Nat :
           \A g \in Approximations(D, S, stops, base, step, prev, n),
              h \in Approximations(D, S, stops, base, step, prev, k) :
             \A m \in D : m < n /\ m < k => g[m] = h[m]
<1> /\ D \in SUBSET Nat /\ base \in [D -> S] /\ step \in [D -> [S -> S]] /\ prev \in [D -> D]
    /\ \A m \in D \ stops : prev[m] < m
  BY DEF Founded
<1> SUFFICES ASSUME NEW n \in Nat, NEW k \in Nat,
                    NEW g \in Approximations(D, S, stops, base, step, prev, n),
                    NEW h \in Approximations(D, S, stops, base, step, prev, k),
                    NEW m \in D, m < n, m < k
             PROVE  g[m] = h[m]
  OBVIOUS
<1> DEFINE T == {i \in D : i < n /\ i < k /\ g[i] # h[i]}
<1> SUFFICES ASSUME T # {} PROVE FALSE
  OBVIOUS
<1>1. PICK x \in T : \A y \in T : x <= y
  BY NatMin
<1>2. /\ g[x] = IF x \in stops THEN base[x] ELSE step[x][g[prev[x]]]
      /\ h[x] = IF x \in stops THEN base[x] ELSE step[x][h[prev[x]]]
  BY <1>1 DEF Approximations
<1>3. x \notin stops /\ g[prev[x]] # h[prev[x]]
  BY <1>1, <1>2
<1>4. prev[x] < x /\ prev[x] \in D /\ x \in Nat /\ prev[x] \in Nat
  BY <1>1, <1>3
<1>5. prev[x] \in T
  BY <1>1, <1>3, <1>4
<1> QED
  BY <1>1, <1>4, <1>5

\* They exist.
LEMMA ApproximationsExist ==
  ASSUME NEW D, NEW S, NEW stops, NEW base, NEW step, NEW prev,
         Founded(D, S, stops, base, step, prev),
         NEW n \in Nat
  PROVE  Approximations(D, S, stops, base, step, prev, n) # {}
<1> /\ D \in SUBSET Nat /\ base \in [D -> S] /\ step \in [D -> [S -> S]] /\ prev \in [D -> D]
    /\ \A m \in D \ stops : prev[m] < m
  BY DEF Founded
<1> DEFINE A(k) == Approximations(D, S, stops, base, step, prev, k)
           Some == {k \in Nat : A(k) # {}}
<1>1. ASSUME NEW k \in Nat, \A m \in Nat : m < k => m \in Some PROVE k \in Some
  <2>1. CASE k = 0
    <3>1. {m \in D : m < k} = {}
      <4>1. \A m \in D : m \in Nat /\ ~(m < 0)
        OBVIOUS
      <4> QED
        BY <2>1, <4>1
    <3>2. [m \in {} |-> m] \in A(k)
      BY <2>1, <3>1 DEF Approximations
    <3> QED
      BY <3>2
  <2>2. CASE k # 0
    <3>1. k - 1 \in Nat /\ k - 1 \in Some
      BY <1>1, <2>2
    <3>2. PICK g : g \in A(k - 1)
      BY <3>1
    <3>3. /\ g \in [{m \in D : m < k - 1} -> S]
          /\ \A m \in D : m < k - 1 =>
               g[m] = IF m \in stops THEN base[m] ELSE step[m][g[prev[m]]]
      BY <3>2 DEF Approximations
    <3> DEFINE h == [m \in {i \in D : i < k} |->
                       IF m \in stops THEN base[m] ELSE step[m][g[prev[m]]]]
    <3>4. ASSUME NEW m \in D, m < k, m \notin stops
          PROVE  prev[m] \in {i \in D : i < k - 1} /\ h[prev[m]] = g[prev[m]]
      <4>1. prev[m] \in D /\ prev[m] \in Nat /\ m \in Nat /\ prev[m] < m
        BY <3>4
      <4>2. prev[m] < k - 1 /\ prev[m] < k
        BY <3>4, <4>1
      <4> QED
        BY <3>3, <4>1, <4>2
    <3>5. h \in [{m \in D : m < k} -> S]
      <4> SUFFICES ASSUME NEW m \in D, m < k
                   PROVE  (IF m \in stops THEN base[m] ELSE step[m][g[prev[m]]]) \in S
        OBVIOUS
      <4>1. CASE m \in stops
        BY <4>1
      <4>2. CASE m \notin stops
        <5>1. g[prev[m]] \in S
          BY <3>3, <3>4, <4>2
        <5> QED
          BY <4>2, <5>1
      <4> QED
        BY <4>1, <4>2
    <3>6. ASSUME NEW m \in D, m < k
          PROVE  h[m] = IF m \in stops THEN base[m] ELSE step[m][h[prev[m]]]
      BY <3>4, <3>6
    <3>7. h \in A(k)
      <4> HIDE DEF h
      <4> QED
        BY <3>5, <3>6 DEF Approximations
    <3> QED
      BY <3>7
  <2> QED
    BY <2>1, <2>2
<1>2. Nat \subseteq Some
  <2> HIDE DEF Some
  <2> QED
    BY <1>1, NatSetInduction
<1> QED
  BY <1>2

\* So the recursive function exists.
LEMMA RecursionExists ==
  ASSUME NEW D, NEW S, NEW stops, NEW base, NEW step, NEW prev,
         Founded(D, S, stops, base, step, prev)
  PROVE  \E f \in [D -> S] : Solves(f, D, stops, base, step, prev)
<1> /\ D \in SUBSET Nat /\ base \in [D -> S] /\ step \in [D -> [S -> S]] /\ prev \in [D -> D]
    /\ \A m \in D \ stops : prev[m] < m
  BY DEF Founded
<1> DEFINE A(k) == Approximations(D, S, stops, base, step, prev, k)
           g(k) == CHOOSE h : h \in A(k)
           f    == [n \in D |-> g(n + 1)[n]]
<1>1. ASSUME NEW k \in Nat PROVE g(k) \in A(k)
  <2>1. A(k) # {}
    BY ApproximationsExist
  <2> HIDE DEF A
  <2> QED
    BY <2>1
<1>2. ASSUME NEW n \in D
      PROVE  /\ g(n + 1)[n] \in S
             /\ g(n + 1)[n] = IF n \in stops THEN base[n] ELSE step[n][g(n + 1)[prev[n]]]
  <2>1. n + 1 \in Nat /\ n < n + 1
    OBVIOUS
  <2>2. g(n + 1) \in A(n + 1)
    BY <1>1, <2>1
  <2> HIDE DEF g
  <2> QED
    BY <2>1, <2>2 DEF Approximations
<1>3. ASSUME NEW n \in D, n \notin stops
      PROVE  g(n + 1)[prev[n]] = g(prev[n] + 1)[prev[n]]
  <2>1. prev[n] \in D /\ prev[n] \in Nat /\ n \in Nat /\ prev[n] < n
    BY <1>3
  <2>2. /\ prev[n] < n + 1 /\ prev[n] < prev[n] + 1
        /\ n + 1 \in Nat /\ prev[n] + 1 \in Nat
    BY <2>1
  <2>3. g(n + 1) \in A(n + 1) /\ g(prev[n] + 1) \in A(prev[n] + 1)
    BY <1>1, <2>2
  <2>4. \A m, k \in Nat :
          \A i \in A(m), h \in A(k) : \A p \in D : p < m /\ p < k => i[p] = h[p]
    BY ApproximationsAgree
  <2> HIDE DEF g, A
  <2> QED
    BY <2>1, <2>2, <2>3, <2>4
<1> HIDE DEF g
<1>4. f \in [D -> S]
  BY <1>2
<1>5. ASSUME NEW n \in D
      PROVE  f[n] = IF n \in stops THEN base[n] ELSE step[n][f[prev[n]]]
  <2>1. CASE n \in stops
    BY <1>2, <2>1
  <2>2. CASE n \notin stops
    <3>1. prev[n] \in D
      OBVIOUS
    <3> QED
      BY <1>2, <1>3, <2>2, <3>1
  <2> QED
    BY <2>1, <2>2
<1> HIDE DEF f
<1> QED
  BY <1>4, <1>5 DEF Solves
-----------------------------------------------------------------------------
(* The decimal digits of a number.                                         *)

\* The last digit of a number, and the number that the digits before it are.
LEMMA DivisionByTen ==
  ASSUME NEW n \in Nat
  PROVE  /\ n \div 10 \in Nat /\ n % 10 \in Digits /\ n = 10 * (n \div 10) + (n % 10)
         /\ n >= 10 => n \div 10 < n
<1>1. n \div 10 \in Int /\ n % 10 \in 0 .. 9 /\ n = 10 * (n \div 10) + (n % 10)
  OBVIOUS
<1> QED
  BY <1>1 DEF Digits

\* A numeral is a sequence of digits, and not an empty one.
Numerals == {s \in Seq(Digits) : Len(s) > 0}

\* Decimal is what its equation says.
LEMMA DecimalIs ==
  /\ Decimal \in [Nat -> Numerals]
  /\ \A n \in Nat :
       Decimal[n] = IF n < 10 THEN <<n>> ELSE Append(Decimal[n \div 10], n % 10)
<1> DEFINE base == [n \in Nat |-> IF n < 10 THEN <<n>> ELSE <<0>>]
           step == [n \in Nat |-> [s \in Numerals |-> Append(s, n % 10)]]
           prev == [n \in Nat |-> n \div 10]
           stops == {n \in Nat : n < 10}
           Right(f) == f = [n \in Nat |-> IF n < 10 THEN <<n>> ELSE Append(f[n \div 10], n % 10)]
<1>1. base \in [Nat -> Numerals]
  <2> SUFFICES ASSUME NEW n \in Nat PROVE (IF n < 10 THEN <<n>> ELSE <<0>>) \in Numerals
    OBVIOUS
  <2>1. \A d \in Digits : <<d>> \in Numerals
    BY DEF Numerals
  <2>2. 0 \in Digits /\ (n < 10 => n \in Digits)
    BY DEF Digits
  <2> QED
    BY <2>1, <2>2
<1>2. step \in [Nat -> [Numerals -> Numerals]]
  <2> SUFFICES ASSUME NEW n \in Nat, NEW s \in Numerals PROVE Append(s, n % 10) \in Numerals
    OBVIOUS
  <2> QED
    BY DivisionByTen DEF Numerals
<1>3. prev \in [Nat -> Nat] /\ \A n \in Nat \ stops : prev[n] < n
  BY DivisionByTen
<1>4. PICK f \in [Nat -> Numerals] :
        \A n \in Nat : f[n] = IF n \in stops THEN base[n] ELSE step[n][f[prev[n]]]
  <2> HIDE DEF base, step, prev, stops
  <2>1. Founded(Nat, Numerals, stops, base, step, prev)
    BY <1>1, <1>2, <1>3 DEF Founded
  <2>2. PICK f \in [Nat -> Numerals] : Solves(f, Nat, stops, base, step, prev)
    BY <2>1, RecursionExists, Zenon
  <2> QED
    BY <2>2 DEF Solves
<1>5. ASSUME NEW n \in Nat
      PROVE  f[n] = IF n < 10 THEN <<n>> ELSE Append(f[n \div 10], n % 10)
  <2>1. n \div 10 \in Nat
    BY DivisionByTen
  <2>2. f[n \div 10] \in Numerals
    BY <2>1
  <2> QED
    BY <1>4, <2>1, <2>2
<1>6. Right(f)
  BY <1>5
<1>7. Right(Decimal)
  <2>1. Decimal = CHOOSE g : Right(g)
    BY DEF Decimal
  <2> HIDE DEF Right
  <2> QED
    BY <1>6, <2>1
<1>8. \A n \in Nat :
        Decimal[n] = IF n < 10 THEN <<n>> ELSE Append(Decimal[n \div 10], n % 10)
  BY <1>7
<1>9. ASSUME NEW n \in Nat PROVE Decimal[n] \in Numerals
  <2> DEFINE S == {m \in Nat : Decimal[m] \in Numerals}
  <2>1. ASSUME NEW m \in Nat, \A i \in Nat : i < m => i \in S PROVE m \in S
    <3>1. CASE m < 10
      BY <1>1, <1>8, <3>1
    <3>2. CASE ~(m < 10)
      <4>1. m \div 10 \in S /\ m % 10 \in Digits
        BY <2>1, <3>2, DivisionByTen
      <4>2. Decimal[m] = Append(Decimal[m \div 10], m % 10)
        BY <1>8, <3>2
      <4>3. \A s \in Numerals, d \in Digits : Append(s, d) \in Numerals
        BY DEF Numerals
      <4> QED
        BY <4>1, <4>2, <4>3
    <3> QED
      BY <3>1, <3>2
  <2>2. Nat \subseteq S
    <3> HIDE DEF S
    <3> QED
      BY <2>1, NatSetInduction
  <2> QED
    BY <2>2
<1>10. Decimal = [n \in Nat |-> Decimal[n]]
  BY <1>7, <1>8
<1> QED
  BY <1>8, <1>9, <1>10

\* What atoi computes along a numeral is the number it was written for.
LEMMA DecimalReadsBack ==
  ASSUME NEW n \in Nat, NEW v \in [0 .. Len(Decimal[n]) -> Nat], v[0] = 0,
         \A k \in 1 .. Len(Decimal[n]) : v[k] = 10 * v[k - 1] + Decimal[n][k]
  PROVE  v[Len(Decimal[n])] = n
<1> DEFINE Follows10(m, w) ==
             w[0] = 0 /\ \A k \in 1 .. Len(Decimal[m]) : w[k] = 10 * w[k - 1] + Decimal[m][k]
           S == {m \in Nat : \A w \in [0 .. Len(Decimal[m]) -> Nat] :
                               Follows10(m, w) => w[Len(Decimal[m])] = m}
<1>1. ASSUME NEW m \in Nat, \A i \in Nat : i < m => i \in S PROVE m \in S
  <2> SUFFICES ASSUME NEW w \in [0 .. Len(Decimal[m]) -> Nat], Follows10(m, w)
               PROVE  w[Len(Decimal[m])] = m
    OBVIOUS
  <2>1. CASE m < 10
    <3>1. Decimal[m] = <<m>> /\ Len(<<m>>) = 1 /\ <<m>>[1] = m
      BY <2>1, DecimalIs
    <3>2. 1 \in 1 .. Len(Decimal[m]) /\ 1 - 1 = 0
      BY <3>1
    <3>3. w[1] = 10 * w[0] + Decimal[m][1]
      BY <3>2
    <3> QED
      BY <3>1, <3>3
  <2>2. CASE ~(m < 10)
    <3>1. PICK i \in Nat : i = m \div 10
      BY DivisionByTen
    <3>2. i < m /\ m = 10 * i + (m % 10) /\ Decimal[m] = Append(Decimal[i], m % 10)
      BY <2>2, <3>1, DivisionByTen, DecimalIs
    <3>3. PICK long \in Nat : long = Len(Decimal[i])
      BY DecimalIs DEF Numerals
    <3>4. /\ Len(Decimal[m]) = long + 1 /\ Decimal[m][long + 1] = m % 10
          /\ \A k \in 1 .. long : Decimal[m][k] = Decimal[i][k]
      BY <3>2, <3>3, DecimalIs DEF Numerals
    <3> DEFINE u == [k \in 0 .. long |-> w[k]]
    <3>5. u \in [0 .. long -> Nat] /\ u[0] = 0 /\ u[long] = w[long]
      <4>1. \A k \in 0 .. long : k \in 0 .. long + 1
        OBVIOUS
      <4>2. 0 .. Len(Decimal[m]) = 0 .. long + 1
        BY <3>4
      <4>3. \A k \in 0 .. long : w[k] \in Nat
        BY <4>1, <4>2
      <4>4. 0 \in 0 .. long /\ long \in 0 .. long /\ w[0] = 0
        OBVIOUS
      <4> QED
        BY <4>3, <4>4
    <3>6. \A k \in 1 .. long : u[k] = 10 * u[k - 1] + Decimal[i][k]
      <4> SUFFICES ASSUME NEW k \in 1 .. long PROVE u[k] = 10 * u[k - 1] + Decimal[i][k]
        OBVIOUS
      <4>1. k \in 1 .. long + 1 /\ k - 1 \in 0 .. long /\ k \in 0 .. long
        OBVIOUS
      <4>2. w[k] = 10 * w[k - 1] + Decimal[m][k]
        BY <3>4, <4>1
      <4> QED
        BY <3>4, <4>1, <4>2
    <3>7. u[long] = i
      <4>1. i \in S
        BY <1>1, <3>2
      <4> HIDE DEF u
      <4> QED
        BY <3>3, <3>5, <3>6, <4>1
    <3>8. w[long + 1] = 10 * w[long] + (m % 10)
      <4>1. long + 1 \in 1 .. Len(Decimal[m]) /\ (long + 1) - 1 = long
        BY <3>4
      <4>2. w[long + 1] = 10 * w[(long + 1) - 1] + Decimal[m][long + 1]
        BY <4>1
      <4> QED
        BY <3>4, <4>1, <4>2
    <3> QED
      BY <3>2, <3>4, <3>5, <3>7, <3>8
  <2> QED
    BY <2>1, <2>2
<1>2. Nat \subseteq S
  <2> HIDE DEF S
  <2> QED
    BY <1>1, NatSetInduction
<1>3. n \in S
  BY <1>2
<1> QED
  BY <1>3
-----------------------------------------------------------------------------
(* The text send_parameters writes.                                        *)

Starts(short, long) ==
  Len(short) <= Len(long) /\ \A k \in 1 .. Len(short) : long[k] = short[k]

HasAfter(long, n, part) == \A k \in 1 .. Len(part) : long[n + k] = part[k]

\* A text and what is appended to it.
LEMMA ConcatIs ==
  \A s, t \in Seq(Chars) :
    /\ s \o t \in Seq(Chars) /\ Len(s \o t) = Len(s) + Len(t)
    /\ Starts(s, s \o t) /\ HasAfter(s \o t, Len(s), t)
<1> SUFFICES ASSUME NEW s \in Seq(Chars), NEW t \in Seq(Chars), NEW u, u = s \o t
             PROVE  /\ u \in Seq(Chars) /\ Len(u) = Len(s) + Len(t)
                    /\ Starts(s, u) /\ HasAfter(u, Len(s), t)
  OBVIOUS
<1>1. /\ s \o t \in Seq(Chars) /\ Len(s \o t) = Len(s) + Len(t)
      /\ \A i \in 1 .. Len(s) + Len(t) :
           (s \o t)[i] = IF i <= Len(s) THEN s[i] ELSE t[i - Len(s)]
  BY ConcatProperties, Zenon
<1>3. \A i \in 1 .. Len(s) : i \in 1 .. Len(s) + Len(t) /\ i <= Len(s)
  OBVIOUS
<1>4. \A k \in 1 .. Len(t) : /\ Len(s) + k \in 1 .. Len(s) + Len(t)
                             /\ ~(Len(s) + k <= Len(s)) /\ (Len(s) + k) - Len(s) = k
  OBVIOUS
<1>5. \A i \in 1 .. Len(s) : u[i] = s[i]
  BY <1>1, <1>3
<1>6. \A k \in 1 .. Len(t) : u[Len(s) + k] = t[k]
  BY <1>1, <1>4
<1> QED
  BY <1>1, <1>5, <1>6 DEF Starts, HasAfter

\* What FlattenSeq puts together, part by part.
Glued(flat, parts, N) ==
  /\ flat \in [1 .. N -> Seq(Chars)]
  /\ flat[1] = parts[1] /\ \A i \in 2 .. N : flat[i] = flat[i - 1] \o parts[i]

\* FlattenSeq glues its parts together one after the other.
LEMMA FlattenIs ==
  ASSUME NEW N \in Nat \ {0}, NEW parts \in [1 .. N -> Seq(Chars)]
  PROVE  \E flat : Glued(flat, parts, N) /\ FlattenSeq(parts) = flat[N]
<1> DEFINE D == 1 .. N
           prev == [i \in D |-> IF i = 1 THEN 1 ELSE i - 1]
           step == [i \in D |-> [s \in Seq(Chars) |-> s \o parts[i]]]
           Right(f) ==
             f = [i \in 1 .. Len(parts) |-> IF i = 1 THEN parts[i] ELSE f[i - 1] \o parts[i]]
<1>1. Len(parts) = N /\ 1 \in D
  OBVIOUS
<1>2. Founded(D, Seq(Chars), {1}, parts, step, prev)
  <2>1. prev \in [D -> D] /\ \A i \in D \ {1} : prev[i] < i
    OBVIOUS
  <2>2. step \in [D -> [Seq(Chars) -> Seq(Chars)]]
    <3> SUFFICES ASSUME NEW i \in D, NEW s \in Seq(Chars) PROVE s \o parts[i] \in Seq(Chars)
      OBVIOUS
    <3> QED
      BY ConcatIs
  <2> QED
    BY <2>1, <2>2 DEF Founded
<1>3. PICK f \in [D -> Seq(Chars)] : Solves(f, D, {1}, parts, step, prev)
  <2> HIDE DEF D, step, prev
  <2> QED
    BY <1>2, RecursionExists, Zenon
<1>4. \A i \in D : f[i] = IF i = 1 THEN parts[i] ELSE f[i - 1] \o parts[i]
  <2> SUFFICES ASSUME NEW i \in D
               PROVE  f[i] = IF i = 1 THEN parts[i] ELSE f[i - 1] \o parts[i]
    OBVIOUS
  <2>1. i # 1 => prev[i] = i - 1 /\ i - 1 \in D
    OBVIOUS
  <2>2. i # 1 => f[i - 1] \in Seq(Chars)
    BY <2>1
  <2> QED
    BY <1>3, <2>1, <2>2 DEF Solves
<1>5. Right(f)
  BY <1>1, <1>4
<1> DEFINE flat == CHOOSE g : Right(g)
<1>6. Right(flat)
  <2> HIDE DEF Right
  <2> QED
    BY <1>5
<1>7. FlattenSeq(parts) = flat[N]
  BY <1>1 DEF FlattenSeq
<1> HIDE DEF flat
<1>8. /\ flat[1] = parts[1] /\ \A i \in 2 .. N : flat[i] = flat[i - 1] \o parts[i]
      /\ flat = [i \in D |-> flat[i]]
  <2>1. flat = [i \in 1 .. N |-> IF i = 1 THEN parts[i] ELSE flat[i - 1] \o parts[i]]
    BY <1>1, <1>6
  <2>2. \A i \in 2 .. N : i \in 1 .. N /\ i # 1
    OBVIOUS
  <2>3. flat = [i \in 1 .. N |-> flat[i]]
    BY <2>1
  <2> QED
    BY <1>1, <2>1, <2>2, <2>3
<1>9. ASSUME NEW i \in D PROVE flat[i] \in Seq(Chars)
  <2> DEFINE S == {n \in Nat : n \in D => flat[n] \in Seq(Chars)}
  <2>1. ASSUME NEW n \in Nat, \A m \in Nat : m < n => m \in S PROVE n \in S
    <3> SUFFICES ASSUME n \in D PROVE flat[n] \in Seq(Chars)
      OBVIOUS
    <3>1. CASE n = 1
      BY <1>8, <3>1
    <3>2. CASE n # 1
      <4>1. n - 1 \in Nat /\ n - 1 < n /\ n - 1 \in D /\ n \in 2 .. N
        BY <3>2
      <4>2. flat[n - 1] \in Seq(Chars) /\ flat[n] = flat[n - 1] \o parts[n]
        BY <1>8, <2>1, <4>1
      <4> QED
        BY <4>2, ConcatIs
    <3> QED
      BY <3>1, <3>2
  <2>2. Nat \subseteq S
    <3> HIDE DEF S
    <3> QED
      BY <2>1, NatSetInduction
  <2> QED
    BY <2>2
<1> QED
  BY <1>7, <1>8, <1>9 DEF Glued

\* An earlier part is never touched again.
LEMMA GluedStays ==
  ASSUME NEW N \in Nat \ {0}, NEW parts \in [1 .. N -> Seq(Chars)], NEW flat,
         Glued(flat, parts, N), NEW t \in 1 .. N
  PROVE  Starts(flat[t], flat[N])
<1> DEFINE S == {n \in Nat : t + n <= N => Starts(flat[t], flat[t + n])}
<1>1. ASSUME NEW n \in Nat, \A m \in Nat : m < n => m \in S PROVE n \in S
  <2> SUFFICES ASSUME t + n <= N PROVE Starts(flat[t], flat[t + n])
    OBVIOUS
  <2>0. flat[t] \in Seq(Chars)
    BY DEF Glued
  <2>1. CASE n = 0
    BY <2>0, <2>1 DEF Starts
  <2>2. CASE n # 0
    <3>1. PICK m \in 2 .. N : m = t + n
      BY <2>2
    <3>2. n - 1 \in Nat /\ n - 1 < n /\ t + (n - 1) = m - 1 /\ m - 1 \in 1 .. N
      BY <2>2, <3>1
    <3>3. PICK a, b, p : a = flat[m - 1] /\ b = flat[m] /\ p = parts[m]
      OBVIOUS
    <3>4. a \in Seq(Chars) /\ p \in Seq(Chars) /\ b = a \o p
      <4>1. m \in 1 .. N
        OBVIOUS
      <4> QED
        BY <3>2, <3>3, <4>1 DEF Glued
    <3>5. Starts(a, b)
      BY <3>4, ConcatIs
    <3>6. Starts(flat[t], a)
      <4>1. n - 1 \in S
        BY <1>1, <3>2
      <4>2. t + (n - 1) <= N
        BY <3>2
      <4> QED
        BY <3>2, <3>3, <4>1, <4>2
    <3>7. b \in Seq(Chars)
      BY <3>4, ConcatIs
    <3>8. Starts(flat[t], b)
      <4>1. Len(flat[t]) \in Nat /\ Len(a) \in Nat /\ Len(b) \in Nat
        BY <2>0, <3>4, <3>7
      <4>2. Len(flat[t]) <= Len(a) /\ Len(a) <= Len(b)
        BY <3>5, <3>6 DEF Starts
      <4>3. \A k \in 1 .. Len(flat[t]) : k \in 1 .. Len(a)
        BY <4>1, <4>2
      <4> QED
        BY <3>5, <3>6, <4>1, <4>2, <4>3 DEF Starts
    <3> QED
      BY <3>1, <3>3, <3>8
  <2> QED
    BY <2>1, <2>2
<1>2. Nat \subseteq S
  <2> HIDE DEF S
  <2> QED
    BY <1>1, NatSetInduction
<1>3. N - t \in Nat /\ t + (N - t) = N
  OBVIOUS
<1>4. N - t \in S
  BY <1>2, <1>3
<1> QED
  BY <1>3, <1>4

\* The digits of a field, and where the text's tokens start: after so many characters.
Written(request, f) == Decimal[request.fields[f]]

LayOut(request, start) ==
  /\ start \in [1 .. Fields + 1 -> Nat] /\ start[1] = 0
  /\ \A f \in 1 .. Fields : start[f + 1] = start[f] + Len(Written(request, f)) + 1

\* Field by field the digits and a comma, a digit for each strip, and a newline.
SpellsOut(request, start) ==
  LET text == Text[request]
  IN /\ \A f \in 1 .. Fields :
          /\ \A k \in 1 .. Len(Written(request, f)) :
               text[start[f] + k] = Written(request, f)[k]
          /\ text[start[f + 1]] = Comma
     /\ \A s \in Strips :
          text[start[Fields + 1] + s + 1] = IF s \in request.strips THEN 1 ELSE 0
     /\ text \in Seq(Chars) /\ Len(text) = start[Fields + 1] + MAX_STRIP_COUNT + 1
     /\ text[Len(text)] = Newline

\* What send_parameters (test_gui.py) writes of a field is at least one digit.
LEMMA WrittenFacts ==
  ASSUME NEW request \in Requests, NEW f \in 1 .. Fields
  PROVE  /\ request.fields[f] \in Nat /\ Written(request, f) \in Seq(Digits)
         /\ Len(Written(request, f)) \in Nat \ {0}
         /\ \A k \in 1 .. Len(Written(request, f)) : Written(request, f)[k] \in Digits
<1>1. request.fields[f] \in Nat
  BY RequestsAssumption DEF Request
<1>2. Decimal[request.fields[f]] \in Numerals
  BY <1>1, DecimalIs
<1> QED
  BY <1>1, <1>2 DEF Written, Numerals

\* A line is its numbers, each with a comma behind it, its strips and a newline.
LEMMA TextIsLaidOut ==
  ASSUME NEW request \in Requests
  PROVE  \E start : LayOut(request, start) /\ SpellsOut(request, start)
<1> DEFINE parts == [f \in 1 .. Fields |-> Append(Decimal[request.fields[f]], Comma)]
           bits  == [s \in 1 .. MAX_STRIP_COUNT |-> IF s - 1 \in request.strips THEN 1 ELSE 0]
<1>0. Fields \in Nat \ {0} /\ MAX_STRIP_COUNT \in Nat \ {0}
  BY SizesAssumption
<1>1. ASSUME NEW f \in 1 .. Fields
      PROVE  /\ parts[f] \in Seq(Chars) /\ Len(parts[f]) = Len(Written(request, f)) + 1
             /\ parts[f][Len(parts[f])] = Comma
             /\ \A k \in 1 .. Len(Written(request, f)) : parts[f][k] = Written(request, f)[k]
  <2>1. Written(request, f) \in Seq(Chars) /\ Comma \in Chars
    <3>1. Digits \subseteq Chars
      BY DEF Chars
    <3>2. Comma \in Chars
      BY DEF Chars
    <3> QED
      BY <3>1, <3>2, WrittenFacts
  <2>2. parts[f] = Append(Written(request, f), Comma)
    BY DEF Written
  <2> HIDE DEF parts
  <2> QED
    BY <2>1, <2>2, AppendProperties
<1>2. parts \in [1 .. Fields -> Seq(Chars)]
  BY <1>1
<1>3. PICK flat : Glued(flat, parts, Fields) /\ FlattenSeq(parts) = flat[Fields]
  <2> HIDE DEF parts
  <2> QED
    BY <1>0, <1>2, FlattenIs
<1>4. /\ bits \in Seq(Chars) /\ Len(bits) = MAX_STRIP_COUNT
      /\ \A s \in Strips : bits[s + 1] = IF s \in request.strips THEN 1 ELSE 0
  <2>1. {0, 1} \subseteq Chars
    BY DEF Chars, Digits
  <2>2. \A s \in Strips : s + 1 \in 1 .. MAX_STRIP_COUNT /\ (s + 1) - 1 = s
    BY <1>0 DEF Strips
  <2> QED
    BY <1>0, <2>1, <2>2
<1>5. <<Newline>> \in Seq(Chars) /\ Len(<<Newline>>) = 1 /\ <<Newline>>[1] = Newline
  BY DEF Chars
<1>6. Text[request] = flat[Fields] \o bits \o <<Newline>>
  BY <1>3 DEF Text
<1> HIDE DEF parts, bits
<1> DEFINE start == [t \in 1 .. Fields + 1 |-> IF t = 1 THEN 0 ELSE Len(flat[t - 1])]
<1>7. ASSUME NEW f \in 1 .. Fields
      PROVE  /\ start[f] \in Nat /\ start[f + 1] = Len(flat[f]) /\ flat[f] \in Seq(Chars)
             /\ start[f + 1] = start[f] + Len(Written(request, f)) + 1
             /\ \A k \in 1 .. Len(parts[f]) : flat[f][start[f] + k] = parts[f][k]
  <2>0. /\ f + 1 \in 1 .. Fields + 1 /\ f + 1 # 1 /\ (f + 1) - 1 = f
        /\ f \in 1 .. Fields + 1 /\ f \in Nat
    BY <1>0
  <2>1. start[f + 1] = Len(flat[f]) /\ flat[f] \in Seq(Chars) /\ parts[f] \in Seq(Chars)
    <3>1. start[f + 1] = Len(flat[f])
      BY <2>0
    <3> HIDE DEF start
    <3> QED
      BY <1>1, <1>3, <3>1 DEF Glued
  <2>2. CASE f = 1
    <3>1. start[f] = 0
      BY <2>0, <2>2
    <3> HIDE DEF start
    <3>2. flat[f] = parts[f]
      BY <1>3, <2>2 DEF Glued
    <3>3. Len(Written(request, f)) \in Nat
      BY WrittenFacts
    <3> QED
      BY <1>1, <2>1, <3>1, <3>2, <3>3
  <2>3. CASE f # 1
    <3>1. f \in 2 .. Fields /\ f - 1 \in 1 .. Fields /\ start[f] = Len(flat[f - 1])
      BY <1>0, <2>0, <2>3
    <3> HIDE DEF start
    <3>2. PICK before : before = flat[f - 1]
      OBVIOUS
    <3>3. before \in Seq(Chars) /\ flat[f] = before \o parts[f]
      BY <1>3, <3>1, <3>2 DEF Glued
    <3>4. /\ Len(flat[f]) = Len(before) + Len(parts[f])
          /\ \A k \in 1 .. Len(parts[f]) : flat[f][Len(before) + k] = parts[f][k]
      BY <2>1, <3>3, ConcatIs DEF HasAfter
    <3>5. Len(Written(request, f)) \in Nat /\ Len(before) \in Nat
      BY <3>3, WrittenFacts
    <3>6. start[f] \in Nat /\ start[f + 1] = start[f] + Len(Written(request, f)) + 1
      <4>1. Len(parts[f]) = Len(Written(request, f)) + 1
        BY <1>1
      <4> QED
        <5>1. PICK a, b, c, d : /\ a = start[f] /\ b = start[f + 1] /\ c = Len(parts[f])
                                /\ d = Len(Written(request, f))
          OBVIOUS
        <5>2. b = a + c /\ c = d + 1 /\ a \in Nat /\ d \in Nat
          BY <2>1, <3>1, <3>2, <3>4, <3>5, <4>1, <5>1
        <5> QED
          BY <5>1, <5>2
    <3> QED
      BY <2>1, <3>1, <3>2, <3>4, <3>6
  <2> QED
    BY <2>2, <2>3
<1>8. LayOut(request, start)
  <2>1. start[1] = 0
    BY <1>0
  <2>2. start \in [1 .. Fields + 1 -> Nat]
    <3> SUFFICES ASSUME NEW t \in 1 .. Fields + 1 PROVE start[t] \in Nat
      OBVIOUS
    <3>1. CASE t = 1
      BY <2>1, <3>1
    <3>2. CASE t # 1
      <4>1. PICK f \in 1 .. Fields : t = f + 1
        <5>1. t - 1 \in 1 .. Fields /\ t = (t - 1) + 1
          BY <1>0, <3>2
        <5> QED
          BY <5>1
      <4>2. start[t] = Len(flat[f]) /\ flat[f] \in Seq(Chars)
        BY <1>7, <4>1
      <4> QED
        BY <4>2
    <3> QED
      BY <3>1, <3>2
  <2> HIDE DEF start
  <2> QED
    BY <1>7, <2>1, <2>2 DEF LayOut
<1>9. PICK front, body, text : /\ front = flat[Fields] /\ body = front \o bits
                              /\ text = body \o <<Newline>>
  OBVIOUS
<1>10. /\ front \in Seq(Chars) /\ body \in Seq(Chars) /\ text \in Seq(Chars)
       /\ Len(body) = Len(front) + MAX_STRIP_COUNT /\ Len(text) = Len(body) + 1
       /\ Starts(front, body) /\ Starts(body, text) /\ text[Len(body) + 1] = Newline
       /\ \A s \in 1 .. MAX_STRIP_COUNT : body[Len(front) + s] = bits[s]
  <2>1. front \in Seq(Chars)
    BY <1>0, <1>3, <1>9 DEF Glued
  <2>2. /\ body \in Seq(Chars) /\ Len(body) = Len(front) + MAX_STRIP_COUNT /\ Starts(front, body)
        /\ \A s \in 1 .. MAX_STRIP_COUNT : body[Len(front) + s] = bits[s]
    <3>1. bits \in Seq(Chars) /\ body = front \o bits /\ Len(bits) = MAX_STRIP_COUNT
      BY <1>4, <1>9
    <3>2. /\ body \in Seq(Chars) /\ Len(body) = Len(front) + Len(bits)
          /\ Starts(front, body) /\ HasAfter(body, Len(front), bits)
      BY <2>1, <3>1, ConcatIs
    <3> QED
      BY <3>1, <3>2 DEF HasAfter
  <2>3. 1 \in 1 .. 1
    OBVIOUS
  <2>4. /\ text \in Seq(Chars) /\ Len(text) = Len(body) + 1 /\ Starts(body, text)
        /\ text[Len(body) + 1] = Newline
    <3>1. PICK end : end = <<Newline>>
      OBVIOUS
    <3>2. end \in Seq(Chars) /\ text = body \o end /\ Len(end) = 1 /\ end[1] = Newline
      BY <1>5, <1>9, <3>1
    <3>3. /\ text \in Seq(Chars) /\ Len(text) = Len(body) + Len(end)
          /\ Starts(body, text) /\ HasAfter(text, Len(body), end)
      BY <2>2, <3>2, ConcatIs
    <3> QED
      BY <2>3, <3>2, <3>3 DEF HasAfter
  <2> QED
    BY <2>1, <2>2, <2>4
<1>11. Text[request] = text
  BY <1>6, <1>9
<1>12. Len(front) \in Nat /\ Len(body) \in Nat /\ start[Fields + 1] = Len(front)
  BY <1>0, <1>7, <1>9, <1>10
<1>13. \A k \in 1 .. Len(front) : text[k] = front[k]
  BY <1>0, <1>10, <1>12 DEF Starts
<1>14. ASSUME NEW f \in 1 .. Fields
       PROVE  /\ \A k \in 1 .. Len(Written(request, f)) :
                   text[start[f] + k] = Written(request, f)[k]
              /\ text[start[f + 1]] = Comma
  <2>1. PICK a, b, long : a = start[f] /\ b = start[f + 1] /\ long = Len(Written(request, f))
    OBVIOUS
  <2>2. /\ a \in Nat /\ long \in Nat /\ b = a + long + 1 /\ b = Len(flat[f])
        /\ Len(parts[f]) = long + 1
        /\ \A k \in 1 .. long + 1 : flat[f][a + k] = parts[f][k]
    <3>1. start[f] \in Nat /\ b = Len(flat[f]) /\ b = a + long + 1
      BY <1>7, <2>1
    <3>2. long \in Nat /\ Len(parts[f]) = long + 1
      BY <1>1, <2>1, WrittenFacts
    <3>3. \A k \in 1 .. Len(parts[f]) : flat[f][a + k] = parts[f][k]
      BY <1>7, <2>1
    <3> HIDE DEF start
    <3> QED
      BY <2>1, <3>1, <3>2, <3>3
  <2>3. Starts(flat[f], front)
    BY <1>0, <1>2, <1>3, <1>9, GluedStays
  <2>4. \A k \in 1 .. b : front[k] = flat[f][k] /\ k \in 1 .. Len(front)
    BY <1>12, <2>2, <2>3 DEF Starts
  <2>5. \A k \in 1 .. long + 1 : a + k \in 1 .. b
    BY <2>2
  <2>6. \A k \in 1 .. long + 1 : text[a + k] = parts[f][k]
    BY <1>13, <2>2, <2>4, <2>5
  <2>7. \A k \in 1 .. long : k \in 1 .. long + 1
    BY <2>2
  <2>8. long + 1 \in 1 .. long + 1 /\ a + (long + 1) = b
    BY <2>2
  <2>9. text[b] = Comma
    BY <1>1, <2>2, <2>6, <2>8
  <2>10. \A k \in 1 .. long : text[a + k] = Written(request, f)[k]
    BY <1>1, <2>1, <2>6, <2>7
  <2> QED
    BY <2>1, <2>9, <2>10
<1>15. \A s \in Strips : text[start[Fields + 1] + s + 1] = IF s \in request.strips THEN 1 ELSE 0
  <2> SUFFICES ASSUME NEW s \in Strips
               PROVE  text[start[Fields + 1] + s + 1] = IF s \in request.strips THEN 1 ELSE 0
    OBVIOUS
  <2>1. /\ s + 1 \in 1 .. MAX_STRIP_COUNT /\ start[Fields + 1] + s + 1 = Len(front) + (s + 1)
        /\ Len(front) + (s + 1) \in 1 .. Len(body)
    <3>1. s \in 0 .. MAX_STRIP_COUNT - 1
      BY DEF Strips
    <3>2. PICK at \in Nat : at = Len(front)
      BY <1>12
    <3>3. start[Fields + 1] = at /\ Len(body) = at + MAX_STRIP_COUNT
      BY <1>10, <1>12, <3>2
    <3>4. /\ s + 1 \in 1 .. MAX_STRIP_COUNT /\ at + s + 1 = at + (s + 1)
          /\ at + (s + 1) \in 1 .. at + MAX_STRIP_COUNT
      BY <1>0, <3>1
    <3> HIDE DEF start
    <3> QED
      BY <3>2, <3>3, <3>4
  <2>2. text[Len(front) + (s + 1)] = bits[s + 1]
    BY <1>10, <2>1 DEF Starts
  <2> QED
    BY <1>4, <2>1, <2>2
<1> HIDE DEF start
<1>16. Len(text) = start[Fields + 1] + MAX_STRIP_COUNT + 1 /\ text[Len(text)] = Newline
  BY <1>10, <1>12
<1>17. SpellsOut(request, start)
  BY <1>10, <1>11, <1>14, <1>15, <1>16 DEF SpellsOut
<1> QED
  BY <1>8, <1>17

\* Each token starts behind the ones before, and all of them in the text.
LEMMA StartsGrow ==
  ASSUME NEW request \in Requests, NEW start, LayOut(request, start)
  PROVE  /\ Fields \in Nat \ {0}
         /\ \A f \in 1 .. Fields : /\ f \in 1 .. Fields + 1 /\ f + 1 \in 1 .. Fields + 1
                                   /\ start[f] \in Nat /\ start[f + 1] \in Nat
                                   /\ start[f] < start[f + 1]
                                   /\ start[f + 1] <= start[Fields + 1]
         /\ \A t, u \in 1 .. Fields + 1 : t < u => start[t] < start[u]
<1>1. Fields \in Nat \ {0} /\ Fields + 1 \in Nat /\ Fields + 1 \in 1 .. Fields + 1
  BY SizesAssumption
<1>2. start \in [1 .. Fields + 1 -> Nat]
  BY DEF LayOut
<1>3. ASSUME NEW f \in 1 .. Fields
      PROVE  /\ f \in 1 .. Fields + 1 /\ f + 1 \in 1 .. Fields + 1 /\ f + 1 <= Fields + 1
             /\ start[f] < start[f + 1] /\ start[f] \in Nat /\ start[f + 1] \in Nat
  <2>1. f \in 1 .. Fields + 1 /\ f + 1 \in 1 .. Fields + 1 /\ f + 1 <= Fields + 1
    BY <1>1
  <2>2. PICK long \in Nat : long = Len(Written(request, f))
    BY WrittenFacts
  <2>3. start[f + 1] = start[f] + long + 1
    BY <2>2 DEF LayOut
  <2> QED
    BY <1>2, <2>1, <2>3
<1>4. \A t, u \in 1 .. Fields + 1 : t < u => start[t] < start[u]
  <2>1. \A t \in 1 .. (Fields + 1) - 1 : start[t] < start[t + 1]
    BY <1>1, <1>3
  <2> QED
    BY <1>1, <1>2, <2>1, StepsGrow
<1>5. \A f \in 1 .. Fields : start[f + 1] <= start[Fields + 1]
  <2> SUFFICES ASSUME NEW f \in 1 .. Fields PROVE start[f + 1] <= start[Fields + 1]
    OBVIOUS
  <2>1. f + 1 = Fields + 1 \/ f + 1 < Fields + 1
    BY <1>1
  <2>2. start[f + 1] \in Nat /\ start[Fields + 1] \in Nat
    BY <1>1, <1>2, <1>3
  <2> QED
    BY <1>1, <1>3, <1>4, <2>1, <2>2
<1> QED
  BY <1>1, <1>3, <1>4, <1>5

\* Every character of a text is a comma behind a field, a digit, or the newline.
LEMMA WhatIsInText ==
  ASSUME NEW request \in Requests, NEW start, LayOut(request, start), SpellsOut(request, start),
         NEW n \in 1 .. Len(Text[request])
  PROVE  \/ \E f \in 1 .. Fields : n = start[f + 1]
         \/ Text[request][n] \in Digits
         \/ n = Len(Text[request])
<1>1. PICK text : text = Text[request]
  OBVIOUS
<1>0. /\ Fields \in Nat \ {0} /\ MAX_STRIP_COUNT \in Nat \ {0} /\ n \in Nat \ {0}
      /\ start[Fields + 1] \in Nat /\ Len(text) = start[Fields + 1] + MAX_STRIP_COUNT + 1
      /\ n <= Len(text)
  <2>1. Fields \in Nat \ {0} /\ MAX_STRIP_COUNT \in Nat \ {0} /\ Fields \in 1 .. Fields
    BY SizesAssumption
  <2>2. start[Fields + 1] \in Nat /\ Len(text) = start[Fields + 1] + MAX_STRIP_COUNT + 1
    BY <1>1, <2>1, StartsGrow DEF SpellsOut
  <2> QED
    BY <1>1, <2>1, <2>2
<1> SUFFICES ASSUME \A f \in 1 .. Fields : n # start[f + 1], n # Len(text)
             PROVE  text[n] \in Digits
  BY <1>1
<1>2. CASE n > start[Fields + 1]
  <2>1. PICK s \in Strips : n = start[Fields + 1] + s + 1
    <3>1. PICK a \in Nat : a = start[Fields + 1]
      BY <1>0
    <3>2. n > a /\ n <= a + MAX_STRIP_COUNT
      BY <1>0, <1>2, <3>1
    <3>3. (n - a) - 1 \in 0 .. MAX_STRIP_COUNT - 1 /\ n = a + ((n - a) - 1) + 1
      BY <1>0, <3>2
    <3> QED
      BY <3>1, <3>3 DEF Strips
  <2>2. text[n] = 0 \/ text[n] = 1
    BY <1>1, <2>1 DEF SpellsOut
  <2> QED
    BY <2>2 DEF Digits
<1>3. CASE n <= start[Fields + 1]
  <2>1. PICK f \in {t \in 1 .. Fields : n <= start[t + 1]} :
          \A t \in {u \in 1 .. Fields : n <= start[u + 1]} : f <= t
    <3>1. Fields \in {t \in 1 .. Fields : n <= start[t + 1]}
      BY <1>0, <1>3
    <3>2. {t \in 1 .. Fields : n <= start[t + 1]} \in SUBSET Nat
      OBVIOUS
    <3> QED
      BY <3>1, <3>2, NatMin
  <2>2. start[f] \in Nat /\ start[f] < n
    <3>1. CASE f = 1
      <4>1. start[1] = 0
        BY DEF LayOut
      <4> QED
        BY <1>0, <3>1, <4>1
    <3>2. CASE f # 1
      <4>1. f - 1 \in 1 .. Fields /\ (f - 1) + 1 = f /\ ~(f <= f - 1)
        BY <1>0, <3>2
      <4>2. ~(n <= start[(f - 1) + 1])
        BY <2>1, <4>1
      <4>3. start[f] \in Nat
        BY StartsGrow
      <4> QED
        BY <1>0, <4>1, <4>2, <4>3
    <3> QED
      BY <3>1, <3>2
  <2>3. PICK long \in Nat : long = Len(Written(request, f))
    BY WrittenFacts
  <2>4. start[f + 1] = start[f] + long + 1 /\ n <= start[f + 1] /\ n # start[f + 1]
    BY <2>1, <2>3 DEF LayOut
  <2>5. PICK k \in 1 .. long : n = start[f] + k
    <3>1. PICK a \in Nat : a = start[f]
      BY <2>2
    <3>2. n > a /\ n <= a + long
      <4>1. start[f + 1] = a + long + 1
        BY <2>4, <3>1
      <4> QED
        BY <1>0, <2>2, <2>4, <3>1, <4>1
    <3>3. n - a \in 1 .. long /\ n = a + (n - a)
      BY <1>0, <3>2
    <3> QED
      BY <3>1, <3>3
  <2>6. text[n] = Written(request, f)[k] /\ Written(request, f)[k] \in Digits
    BY <1>1, <2>3, <2>5, WrittenFacts DEF SpellsOut
  <2> QED
    BY <2>6
<1> QED
  BY <1>0, <1>2, <1>3

\* A newline ends a text and is nowhere else in it.
LEMMA OneNewline ==
  ASSUME NEW request \in Requests
  PROVE  /\ Text[request] \in Seq(Chars) /\ Len(Text[request]) \in Nat \ {0}
         /\ \A n \in 1 .. Len(Text[request]) :
              Text[request][n] = Newline <=> n = Len(Text[request])
<1>1. PICK start : LayOut(request, start) /\ SpellsOut(request, start)
  BY TextIsLaidOut
<1>2. PICK text : text = Text[request]
  OBVIOUS
<1>3. /\ text \in Seq(Chars) /\ Len(text) = start[Fields + 1] + MAX_STRIP_COUNT + 1
      /\ text[Len(text)] = Newline
  BY <1>1, <1>2 DEF SpellsOut
<1>4. Len(text) \in Nat \ {0}
  <2>1. Fields \in 1 .. Fields /\ MAX_STRIP_COUNT \in Nat \ {0}
    BY SizesAssumption
  <2>2. start[Fields + 1] \in Nat
    BY <1>1, <2>1, StartsGrow
  <2> QED
    BY <1>3, <2>1, <2>2
<1>5. ASSUME NEW n \in 1 .. Len(text), text[n] = Newline PROVE n = Len(text)
  <2>1. ASSUME NEW f \in 1 .. Fields PROVE n # start[f + 1]
    <3>1. text[start[f + 1]] = Comma
      BY <1>1, <1>2 DEF SpellsOut
    <3> QED
      BY <1>5, <3>1 DEF Comma, Newline
  <2>2. text[n] \notin Digits
    BY <1>5 DEF Digits, Newline
  <2> QED
    BY <1>1, <1>2, <2>1, <2>2, WhatIsInText
<1> QED
  BY <1>2, <1>3, <1>4, <1>5

TextsAreLines ==
  /\ LongestLine \in Nat
  /\ \A request \in Requests :
       LET text == Text[request]
       IN /\ text \in Seq(Chars) /\ Len(text) \in 1 .. LongestLine
          /\ \A n \in 1 .. Len(text) : text[n] = Newline <=> n = Len(text)

\* Among finitely many requests one has the longest text.
LEMMA AllTextsAreLines == TextsAreLines
<1> DEFINE T == {Len(Text[request]) : request \in Requests}
           f == [request \in Requests |-> Len(Text[request])]
<1>1. T \in SUBSET Nat /\ T # {}
  BY OneNewline, RequestsAssumption
<1>2. IsFiniteSet(T)
  <2>1. f \in [Requests -> T] /\ \A x \in T : \E request \in Requests : f[request] = x
    OBVIOUS
  <2> HIDE DEF f, T
  <2>2. f \in Surjection(Requests, T)
    BY <2>1, Fun_IsSurj
  <2> QED
    BY <2>2, FS_Surjection, RequestsAssumption
<1> HIDE DEF T, f
<1>3. PICK bound \in Nat : \A x \in T : x <= bound
  <2>1. PICK N \in Nat : \E h : h \in Surjection(1 .. N, T)
    BY <1>2, FS_NatSurjection DEF ExistsSurjection
  <2>6. PICK h : h \in Surjection(1 .. N, T)
    BY <2>1
  <2>2. h \in [1 .. N -> T] /\ \A x \in T : \E i \in 1 .. N : h[i] = x
    BY <2>6, Fun_SurjectionProperties
  <2> DEFINE S == {n \in Nat : n <= N => \E b \in Nat : \A i \in 1 .. n : h[i] <= b}
  <2>3. ASSUME NEW n \in Nat, \A m \in Nat : m < n => m \in S PROVE n \in S
    <3> SUFFICES ASSUME n <= N PROVE \E b \in Nat : \A i \in 1 .. n : h[i] <= b
      OBVIOUS
    <3>1. CASE n = 0
      BY <3>1
    <3>2. CASE n # 0
      <4>1. n - 1 \in Nat /\ n - 1 < n /\ n - 1 <= N /\ n \in 1 .. N
        BY <3>2
      <4>2. PICK b \in Nat : \A i \in 1 .. n - 1 : h[i] <= b
        BY <2>3, <4>1
      <4>3. h[n] \in Nat
        BY <1>1, <2>2, <4>1
      <4>4. \A i \in 1 .. n : i = n \/ i \in 1 .. n - 1
        OBVIOUS
      <4>5. \A i \in 1 .. n - 1 : h[i] \in Nat
        <5>1. \A i \in 1 .. n - 1 : i \in 1 .. N
          BY <4>1
        <5> QED
          BY <1>1, <2>2, <5>1
      <4>6. \A i \in 1 .. n : h[i] <= b + h[n] /\ b + h[n] \in Nat
        BY <4>2, <4>3, <4>4, <4>5
      <4> QED
        BY <4>3, <4>6
    <3> QED
      BY <3>1, <3>2
  <2>4. Nat \subseteq S
    <3> HIDE DEF S
    <3> QED
      BY <2>3, NatSetInduction
  <2>5. PICK b \in Nat : \A i \in 1 .. N : h[i] <= b
    <3>1. N \in Nat /\ N <= N
      OBVIOUS
    <3>2. N \in S
      BY <2>4, <3>1
    <3> QED
      BY <3>1, <3>2
  <2> QED
    BY <2>2, <2>5
<1>4. \E x \in T : \A y \in T : x >= y
  <2> DEFINE Slack == {bound - x : x \in T}
  <2>1. Slack \in SUBSET Nat /\ Slack # {}
    <3>1. \A x \in T : bound - x \in Nat
      <4> SUFFICES ASSUME NEW x \in T PROVE bound - x \in Nat
        OBVIOUS
      <4>1. x \in Nat /\ x <= bound
        BY <1>1, <1>3
      <4> QED
        BY <4>1
    <3> QED
      BY <1>1, <3>1
  <2>2. PICK d \in Slack : \A e \in Slack : d <= e
    <3> HIDE DEF Slack
    <3> QED
      BY <2>1, NatMin
  <2>3. PICK x \in T : d = bound - x
    BY <2>2
  <2>4. ASSUME NEW y \in T PROVE x >= y
    <3>1. bound - x <= bound - y /\ x \in Nat /\ y \in Nat
      BY <1>1, <2>2, <2>3
    <3> QED
      BY <3>1
  <2> QED
    BY <2>4
<1>5. LongestLine \in T /\ \A y \in T : LongestLine >= y
  <2>1. LongestLine = Max(T)
    BY DEF LongestLine, T
  <2> QED
    BY <1>4, <2>1 DEF Max
<1>6. ASSUME NEW request \in Requests PROVE Len(Text[request]) \in 1 .. LongestLine
  <2>1. Len(Text[request]) \in T
    BY DEF T
  <2> QED
    BY <1>1, <1>5, <2>1, OneNewline
<1> QED
  BY <1>1, <1>5, <1>6, OneNewline DEF TextsAreLines

-----------------------------------------------------------------------------
(* A line in the buffer, and what strtok and atoi find there.              *)

HoldsText(request) ==
  /\ index = Len(Text[request]) /\ \A n \in 1 .. index : buffer[n - 1] = Text[request][n]

\* The same, character by character, whatever is behind it in the buffer.
OnLine(request, start) ==
  /\ index = start[Fields + 1] + MAX_STRIP_COUNT + 1 /\ index < BufferSize
  /\ Line \in [0 .. BufferSize - 1 -> Chars] /\ Line[index] = Nul
  /\ SpellsOut(request, start) /\ \A n \in 1 .. index : Line[n - 1] = Text[request][n]
  /\ \A f \in 1 .. Fields :
       /\ \A k \in 1 .. Len(Written(request, f)) :
            Line[start[f] + k - 1] = Written(request, f)[k]
       /\ Line[start[f + 1] - 1] = Comma
  /\ \A s \in Strips : Line[start[Fields + 1] + s] = IF s \in request.strips THEN 1 ELSE 0

\* A line of the GUI that main()'s buffer holds, with a Nul where the line ends.
LEMMA LineIs ==
  ASSUME NEW request \in Requests, NEW start, LayOut(request, start), SpellsOut(request, start),
         buffer \in [0 .. BufferSize - 1 -> Chars], HoldsText(request), index < BufferSize
  PROVE  OnLine(request, start)
<1>0. Fields \in Nat \ {0} /\ MAX_STRIP_COUNT \in Nat \ {0} /\ BufferSize \in Nat \ {0}
  BY SizesAssumption
<1>1. PICK text : text = Text[request]
  OBVIOUS
<1>2. start[Fields + 1] \in Nat
  <2>1. Fields \in 1 .. Fields
    BY <1>0
  <2> QED
    BY <2>1, StartsGrow
<1>3. /\ Len(text) = start[Fields + 1] + MAX_STRIP_COUNT + 1 /\ index = Len(text)
      /\ text[Len(text)] = Newline /\ \A n \in 1 .. index : buffer[n - 1] = text[n]
  BY <1>1 DEF SpellsOut, HoldsText
<1>4. index \in Nat \ {0} /\ index \in 0 .. BufferSize - 1
  BY <1>0, <1>2, <1>3
<1>5. /\ Line \in [0 .. BufferSize - 1 -> Chars] /\ Line[index] = Nul
      /\ \A p \in 0 .. BufferSize - 1 : p # index => Line[p] = buffer[p]
  <2>1. Nul \in Chars
    BY DEF Chars
  <2> QED
    BY <1>4, <2>1 DEF Line
<1>6. ASSUME NEW n \in 1 .. index PROVE Line[n - 1] = text[n]
  <2>1. n - 1 \in 0 .. BufferSize - 1 /\ n - 1 # index
    BY <1>0, <1>4
  <2> QED
    BY <1>3, <1>5, <2>1
<1>7. \A n \in 1 .. index : Line[n - 1] = Text[request][n]
  BY <1>1, <1>6
<1>8. ASSUME NEW f \in 1 .. Fields
      PROVE  /\ Line[start[f + 1] - 1] = Comma
             /\ \A k \in 1 .. Len(Written(request, f)) :
                  Line[start[f] + k - 1] = Written(request, f)[k]
  <2>1. PICK a, b, long : a = start[f] /\ b = start[f + 1] /\ long = Len(Written(request, f))
    OBVIOUS
  <2>2. a \in Nat /\ b \in Nat /\ long \in Nat /\ b = a + long + 1 /\ b <= start[Fields + 1]
    <3>1. start[f + 1] = start[f] + Len(Written(request, f)) + 1
      BY DEF LayOut
    <3> QED
      BY <2>1, <3>1, StartsGrow, WrittenFacts
  <2>3. /\ \A k \in 1 .. long : text[a + k] = Written(request, f)[k]
        /\ text[b] = Comma
    BY <1>1, <2>1 DEF SpellsOut
  <2>4. b \in 1 .. index /\ \A k \in 1 .. long : a + k \in 1 .. index /\ a + k - 1 = (a + k) - 1
    BY <1>0, <1>2, <1>3, <2>2
  <2>5. Line[b - 1] = Comma
    BY <1>6, <2>3, <2>4
  <2>6. \A k \in 1 .. long : Line[a + k - 1] = Written(request, f)[k]
    BY <1>6, <2>3, <2>4
  <2> QED
    BY <2>1, <2>5, <2>6
<1>9. ASSUME NEW s \in Strips
      PROVE  Line[start[Fields + 1] + s] = IF s \in request.strips THEN 1 ELSE 0
  <2>1. s \in 0 .. MAX_STRIP_COUNT - 1
    BY DEF Strips
  <2>2. start[Fields + 1] + s + 1 \in 1 .. index
        /\ (start[Fields + 1] + s + 1) - 1 = start[Fields + 1] + s
    BY <1>0, <1>2, <1>3, <2>1
  <2>3. text[start[Fields + 1] + s + 1] = IF s \in request.strips THEN 1 ELSE 0
    BY <1>1 DEF SpellsOut
  <2>4. Line[(start[Fields + 1] + s + 1) - 1] = text[start[Fields + 1] + s + 1]
    BY <1>6, <2>2
  <2> QED
    BY <2>2, <2>3, <2>4
<1> QED
  BY <1>3, <1>5, <1>7, <1>8, <1>9 DEF OnLine

\* strtok finds the tokens where they have been put.
LEMMA BeginsAre ==
  ASSUME NEW request \in Requests, NEW start, LayOut(request, start), OnLine(request, start)
  PROVE  Begins = {start[t] : t \in 1 .. Fields + 1}
<1>0. /\ Fields \in Nat \ {0} /\ MAX_STRIP_COUNT \in Nat \ {0} /\ start[Fields + 1] \in Nat
      /\ index = start[Fields + 1] + MAX_STRIP_COUNT + 1 /\ start[1] = 0
      /\ 1 \in 1 .. Fields + 1 /\ Fields \in 1 .. Fields
  <2>1. Fields \in Nat \ {0} /\ MAX_STRIP_COUNT \in Nat \ {0} /\ Fields \in 1 .. Fields
        /\ 1 \in 1 .. Fields + 1
    BY SizesAssumption
  <2>2. start[Fields + 1] \in Nat /\ index = start[Fields + 1] + MAX_STRIP_COUNT + 1
    BY <2>1, StartsGrow DEF OnLine
  <2> QED
    BY <2>1, <2>2 DEF LayOut
<1>1. ASSUME NEW t \in 1 .. Fields + 1 PROVE start[t] \in Begins
  <2>1. start[t] \in 0 .. index - 1 /\ Line[start[t]] # Comma
    <3>1. CASE t = Fields + 1
      <4>1. 0 \in Strips /\ start[Fields + 1] + 0 = start[Fields + 1]
        BY <1>0 DEF Strips
      <4>2. Line[start[Fields + 1]] = 0 \/ Line[start[Fields + 1]] = 1
        BY <4>1 DEF OnLine
      <4> QED
        BY <1>0, <3>1, <4>2 DEF Comma
    <3>2. CASE t # Fields + 1
      <4>1. t \in 1 .. Fields
        BY <1>0, <3>2
      <4>2. PICK long \in Nat \ {0} : long = Len(Written(request, t))
        BY <4>1, WrittenFacts
      <4>3. 1 \in 1 .. long /\ start[t] \in Nat /\ start[t] + 1 - 1 = start[t]
        BY <4>1, StartsGrow
      <4>4. Line[start[t]] = Written(request, t)[1] /\ Written(request, t)[1] \in Digits
        BY <4>1, <4>2, <4>3, WrittenFacts DEF OnLine
      <4>5. start[t] < start[t + 1] /\ start[t + 1] <= start[Fields + 1] /\ start[t + 1] \in Nat
        BY <4>1, StartsGrow
      <4> QED
        BY <1>0, <4>3, <4>4, <4>5 DEF Digits, Comma
    <3> QED
      BY <3>1, <3>2
  <2>2. start[t] = 0 \/ Line[start[t] - 1] = Comma
    <3>1. CASE t = 1
      BY <1>0, <3>1
    <3>2. CASE t # 1
      <4>1. t - 1 \in 1 .. Fields /\ (t - 1) + 1 = t
        BY <1>0, <3>2
      <4>2. Line[start[(t - 1) + 1] - 1] = Comma
        BY <4>1 DEF OnLine
      <4> QED
        BY <4>1, <4>2
    <3> QED
      BY <3>1, <3>2
  <2> QED
    BY <2>1, <2>2 DEF Begins
<1>2. ASSUME NEW p \in Begins PROVE \E t \in 1 .. Fields + 1 : p = start[t]
  <2>1. p \in 0 .. index - 1 /\ (p = 0 \/ Line[p - 1] = Comma)
    BY DEF Begins
  <2>2. CASE p = 0
    BY <1>0, <2>2
  <2>3. CASE p # 0
    <3>1. p - 1 \in 0 .. index - 1 /\ Line[p - 1] = Comma
      BY <1>0, <2>1, <2>3
    <3>2. PICK f \in 1 .. Fields : p = start[f + 1]
      <4>1. p \in 1 .. index /\ p # index /\ SpellsOut(request, start)
        BY <1>0, <2>1, <2>3 DEF OnLine
      <4>2. Text[request][p] = Comma /\ index = Len(Text[request])
        BY <1>0, <3>1, <4>1 DEF OnLine, SpellsOut
      <4> QED
        BY <4>1, <4>2, WhatIsInText DEF Comma, Digits
    <3>3. f + 1 \in 1 .. Fields + 1 /\ start[f + 1] \in Nat
      BY StartsGrow
    <3> QED
      BY <2>1, <3>2, <3>3
  <2> QED
    BY <2>2, <2>3
<1> QED
  BY <1>1, <1>2

\* So many of them are before a token as it has tokens before it.
LEMMA TokensBefore ==
  ASSUME NEW request \in Requests, NEW start, LayOut(request, start), OnLine(request, start)
  PROVE  /\ \A t \in 1 .. Fields + 1 : Cardinality({b \in Begins : b < start[t]}) = t - 1
         /\ Cardinality(Begins) = Fields + 1
<1>0. Fields \in Nat \ {0} /\ Begins = {start[t] : t \in 1 .. Fields + 1}
  BY BeginsAre, SizesAssumption
<1>1. \A t, u \in 1 .. Fields + 1 : /\ start[t] \in Nat /\ start[u] \in Nat
                                    /\ t < u => start[t] < start[u]
                                    /\ start[t] = start[u] => t = u
  <2>1. start \in [1 .. Fields + 1 -> Nat]
    BY DEF LayOut
  <2>2. \A t, u \in 1 .. Fields + 1 : t < u => start[t] < start[u]
    BY StartsGrow
  <2> SUFFICES ASSUME NEW t \in 1 .. Fields + 1, NEW u \in 1 .. Fields + 1
               PROVE  /\ start[t] \in Nat /\ start[u] \in Nat
                      /\ start[t] = start[u] => t = u
    BY <2>2
  <2>3. start[t] \in Nat /\ start[u] \in Nat
    BY <2>1
  <2>4. t < u \/ u < t \/ t = u
    BY <1>0
  <2> QED
    BY <2>2, <2>3, <2>4
<1>2. ASSUME NEW n \in 0 .. Fields + 1
      PROVE  Cardinality({start[u] : u \in 1 .. n}) = n
  <2> DEFINE f == [u \in 1 .. n |-> start[u]]
             T == {start[u] : u \in 1 .. n}
  <2>1. n \in Nat /\ \A u \in 1 .. n : u \in 1 .. Fields + 1
    BY <1>0
  <2>2. f \in [1 .. n -> T] /\ \A a, b \in 1 .. n : f[a] = f[b] => a = b
    BY <1>1, <2>1
  <2>3. \A x \in T : \E u \in 1 .. n : f[u] = x
    OBVIOUS
  <2> HIDE DEF f, T
  <2>4. f \in Bijection(1 .. n, T)
    BY <2>2, <2>3, Fun_IsBij
  <2>5. ExistsBijection(1 .. n, T)
    BY <2>4 DEF ExistsBijection
  <2>6. Cardinality(T) = n
    BY <2>1, <2>5, FS_CountingElements
  <2> QED
    BY <2>6 DEF T
<1>3. ASSUME NEW t \in 1 .. Fields + 1
      PROVE  Cardinality({b \in Begins : b < start[t]}) = t - 1
  <2>1. t - 1 \in 0 .. Fields + 1 /\ \A u \in 1 .. t - 1 : u \in 1 .. Fields + 1 /\ u < t
    BY <1>0
  <2>2. \A u \in 1 .. Fields + 1 : start[u] < start[t] => u \in 1 .. t - 1
    <3> SUFFICES ASSUME NEW u \in 1 .. Fields + 1, ~(u < t) PROVE ~(start[u] < start[t])
      BY <1>0
    <3>1. u = t \/ t < u
      BY <1>0
    <3> QED
      BY <1>1, <3>1
  <2>3. {b \in Begins : b < start[t]} = {start[u] : u \in 1 .. t - 1}
    BY <1>0, <1>1, <2>1, <2>2
  <2> QED
    BY <1>2, <2>1, <2>3
<1>4. Fields + 1 \in 0 .. Fields + 1
  BY <1>0
<1> QED
  BY <1>0, <1>2, <1>3, <1>4

\* strtok finds all the tokens of the GUI's line, each where it was written.
LEMMA BeginIs ==
  ASSUME NEW request \in Requests, NEW start, LayOut(request, start), OnLine(request, start)
  PROVE  Found = Fields + 1 /\ \A t \in 1 .. Fields + 1 : Begin(t) = start[t]
<1>0. Fields \in Nat \ {0} /\ Begins = {start[t] : t \in 1 .. Fields + 1}
  BY BeginsAre, SizesAssumption
<1>1. Found = Fields + 1
  <2>1. {Cardinality(Begins), Fields + 1} = {Fields + 1}
    BY TokensBefore
  <2>2. Min({Fields + 1}) \in {Fields + 1}
    BY <1>0, MinIsLeast
  <2> QED
    BY <2>1, <2>2 DEF Found
<1>2. ASSUME NEW t \in 1 .. Fields + 1 PROVE Begin(t) = start[t]
  <2>1. start[t] \in Begins /\ Cardinality({b \in Begins : b < start[t]}) = t - 1
    BY <1>0, TokensBefore
  <2>2. ASSUME NEW p \in Begins, Cardinality({b \in Begins : b < p}) = t - 1
        PROVE  p = start[t]
    <3>1. PICK u \in 1 .. Fields + 1 : p = start[u]
      BY <1>0
    <3>2. u - 1 = t - 1
      BY <2>2, <3>1, TokensBefore
    <3> QED
      BY <1>0, <3>1, <3>2
  <2> QED
    BY <2>1, <2>2 DEF Begin
<1> QED
  BY <1>1, <1>2

\* atoi goes along the digits a token begins with, to the first other character.
Counts(value, b, stop) ==
  /\ value \in [b .. stop -> Nat] /\ value[b] = 0
  /\ \A q \in b + 1 .. stop : value[q] = 10 * value[q - 1] + Line[q - 1]

\* atoi: a value for every digit read, up to the first character that is none.
LEMMA NumberIs ==
  ASSUME index \in Nat, index < BufferSize, Line \in [0 .. BufferSize - 1 -> Chars],
         Line[index] = Nul, NEW t, NEW b \in 0 .. index, b = Begin(t)
  PROVE  \E stop \in b .. index : \E value :
           /\ Line[stop] \notin Digits /\ \A q \in b .. index : q < stop => Line[q] \in Digits
           /\ Counts(value, b, stop) /\ Number(t) = value[stop]
<1> DEFINE Others == {q \in b .. index : Line[q] \notin Digits}
           stop   == Min(Others)
<1>0. b \in Nat /\ BufferSize \in Nat
  BY SizesAssumption
<1>1. /\ stop \in b .. index /\ Line[stop] \notin Digits
      /\ \A q \in b .. index : q < stop => Line[q] \in Digits
  <2>1. index \in Others
    BY <1>0 DEF Nul, Digits
  <2>2. Others \in SUBSET Nat
    BY <1>0
  <2> HIDE DEF Others
  <2>3. stop \in Others /\ \A q \in Others : stop <= q
    BY <2>1, <2>2, MinIsLeast
  <2> HIDE DEF stop
  <2>4. stop \in b .. index /\ Line[stop] \notin Digits
    BY <2>3 DEF Others
  <2>5. ASSUME NEW q \in b .. index, q < stop PROVE Line[q] \in Digits
    <3>1. ~(stop <= q)
      BY <1>0, <2>4, <2>5
    <3> QED
      BY <2>3, <3>1 DEF Others
  <2> QED
    BY <2>4, <2>5
<1> DEFINE Right(g) == g = [q \in b .. stop |-> IF q = b THEN 0 ELSE 10 * g[q - 1] + Line[q - 1]]
           value    == CHOOSE g : Right(g)
<1>2. Number(t) = value[stop]
  BY DEF Number
<1> HIDE DEF stop
<1>3. PICK last \in b .. index : last = stop
  BY <1>1
<1> DEFINE D    == b .. last
           base == [q \in D |-> 0]
           prev == [q \in D |-> IF q = b THEN b ELSE q - 1]
           step == [q \in D |-> [v \in Nat |-> IF q = b THEN 0 ELSE 10 * v + Line[q - 1]]]
<1>4. ASSUME NEW q \in D, q # b
      PROVE  q - 1 \in D /\ q - 1 < q /\ Line[q - 1] \in Nat
  <2>1. q - 1 \in D /\ q - 1 < q /\ q - 1 \in b .. index /\ q - 1 < stop
    BY <1>0, <1>3, <1>4
  <2> QED
    BY <1>1, <2>1 DEF Digits
<1>5. Founded(D, Nat, {b}, base, step, prev)
  <2>1. D \in SUBSET Nat /\ base \in [D -> Nat]
    BY <1>0
  <2>2. prev \in [D -> D] /\ \A q \in D \ {b} : prev[q] < q
    BY <1>0, <1>4
  <2>3. step \in [D -> [Nat -> Nat]]
    <3> SUFFICES ASSUME NEW q \in D, NEW v \in Nat
                 PROVE  (IF q = b THEN 0 ELSE 10 * v + Line[q - 1]) \in Nat
      OBVIOUS
    <3> QED
      BY <1>4
  <2> HIDE DEF D, base, step, prev
  <2> QED
    BY <2>1, <2>2, <2>3 DEF Founded
<1>6. PICK f \in [D -> Nat] : Solves(f, D, {b}, base, step, prev)
  <2> HIDE DEF D, base, step, prev
  <2> QED
    BY <1>5, RecursionExists, Zenon
<1>7. ASSUME NEW q \in D
      PROVE  f[q] = IF q = b THEN 0 ELSE 10 * f[q - 1] + Line[q - 1]
  <2>1. CASE q = b
    BY <1>6, <2>1 DEF Solves
  <2>2. CASE q # b
    <3>1. q - 1 \in D /\ prev[q] = q - 1 /\ f[q - 1] \in Nat
      BY <1>4, <2>2
    <3> QED
      BY <1>6, <2>2, <3>1 DEF Solves
  <2> QED
    BY <2>1, <2>2
<1>8. Right(f)
  BY <1>3, <1>7
<1>9. Right(value)
  <2> HIDE DEF Right
  <2> QED
    BY <1>8
<1> HIDE DEF value
<1>10. /\ \A q \in D : value[q] = IF q = b THEN 0 ELSE 10 * value[q - 1] + Line[q - 1]
       /\ value = [q \in D |-> value[q]]
  BY <1>3, <1>9
<1>11. ASSUME NEW q \in D PROVE value[q] \in Nat
  <2> DEFINE S == {n \in Nat : n \in D => value[n] \in Nat}
  <2>1. ASSUME NEW n \in Nat, \A m \in Nat : m < n => m \in S PROVE n \in S
    <3> SUFFICES ASSUME n \in D PROVE value[n] \in Nat
      OBVIOUS
    <3>1. CASE n = b
      <4>1. value[b] = 0
        <5>1. b \in D
          BY <1>0
        <5> HIDE DEF D
        <5> QED
          BY <1>10, <5>1
      <4> QED
        BY <3>1, <4>1
    <3>2. CASE n # b
      <4>1. n - 1 \in D /\ n - 1 < n /\ n - 1 \in Nat /\ Line[n - 1] \in Nat
        BY <1>0, <1>4, <3>2
      <4>2. value[n - 1] \in Nat
        BY <2>1, <4>1
      <4>3. value[n] = 10 * value[n - 1] + Line[n - 1]
        BY <1>10, <3>2
      <4> QED
        BY <4>1, <4>2, <4>3
    <3> QED
      BY <3>1, <3>2
  <2>2. Nat \subseteq S
    <3> HIDE DEF S
    <3> QED
      BY <2>1, NatSetInduction
  <2>3. q \in Nat
    BY <1>0
  <2> QED
    BY <2>2, <2>3
<1>12. Counts(value, b, last)
  <2>1. value \in [b .. last -> Nat]
    BY <1>10, <1>11
  <2>2. b \in D /\ \A q \in b + 1 .. last : q \in D /\ q # b
    BY <1>0
  <2> QED
    BY <1>10, <2>1, <2>2 DEF Counts
<1> QED
  BY <1>1, <1>2, <1>3, <1>12

\* And it reads the number the field was written for.
LEMMA NumbersReadBack ==
  ASSUME NEW request \in Requests, NEW start, LayOut(request, start), OnLine(request, start),
         NEW f \in 1 .. Fields
  PROVE  Number(f) = request.fields[f]
<1>0. /\ Fields \in Nat \ {0} /\ MAX_STRIP_COUNT \in Nat \ {0} /\ start[Fields + 1] \in Nat
      /\ index = start[Fields + 1] + MAX_STRIP_COUNT + 1 /\ index \in Nat /\ index < BufferSize
  <2>1. Fields \in Nat \ {0} /\ MAX_STRIP_COUNT \in Nat \ {0} /\ Fields \in 1 .. Fields
    BY SizesAssumption
  <2>2. start[Fields + 1] \in Nat /\ index = start[Fields + 1] + MAX_STRIP_COUNT + 1
        /\ index < BufferSize
    BY <2>1, StartsGrow DEF OnLine
  <2> QED
    BY <2>1, <2>2
<1>1. PICK n \in Nat : n = request.fields[f]
  BY WrittenFacts
<1>2. PICK long \in Nat \ {0} : long = Len(Decimal[n])
  BY <1>1, WrittenFacts DEF Written
<1>3. PICK b \in 0 .. index : /\ b = start[f] /\ b = Begin(f) /\ b + long <= index
                              /\ Line[b + long] = Comma
                              /\ \A k \in 1 .. long : Line[b + k - 1] = Decimal[n][k]
  <2>1. /\ start[f] \in Nat /\ start[f + 1] <= start[Fields + 1] /\ f \in 1 .. Fields + 1
        /\ start[f + 1] \in Nat
    BY StartsGrow
  <2>2. start[f + 1] = start[f] + long + 1
    BY <1>1, <1>2 DEF LayOut, Written
  <2>3. start[f] \in 0 .. index /\ start[f] + long <= index /\ start[f + 1] - 1 = start[f] + long
    BY <1>0, <2>1, <2>2
  <2>4. /\ Line[start[f + 1] - 1] = Comma
        /\ \A k \in 1 .. long : Line[start[f] + k - 1] = Decimal[n][k]
    BY <1>1, <1>2 DEF OnLine, Written
  <2>5. start[f] = Begin(f)
    BY <2>1, BeginIs
  <2> QED
    BY <2>3, <2>4, <2>5
<1>4. \A k \in 1 .. long : Decimal[n][k] \in Digits
  BY <1>1, <1>2, WrittenFacts DEF Written
<1>5. PICK stop \in b .. index : \E value :
        /\ Line[stop] \notin Digits /\ \A q \in b .. index : q < stop => Line[q] \in Digits
        /\ Counts(value, b, stop) /\ Number(f) = value[stop]
  <2>1. Line \in [0 .. BufferSize - 1 -> Chars] /\ Line[index] = Nul
    BY DEF OnLine
  <2>2. index \in Nat /\ index < BufferSize /\ b = Begin(f)
    BY <1>0, <1>3
  <2> QED
    BY <2>1, <2>2, NumberIs
<1>6. PICK value :
        /\ Line[stop] \notin Digits /\ \A q \in b .. index : q < stop => Line[q] \in Digits
        /\ Counts(value, b, stop) /\ Number(f) = value[stop]
  BY <1>5
<1>7. b \in Nat /\ stop \in Nat
  BY <1>0
<1>8. stop = b + long
  <2>1. ~(b + long < stop)
    <3>1. Comma \notin Digits /\ b + long \in b .. index
      BY <1>0, <1>3, <1>7 DEF Comma, Digits
    <3> QED
      BY <1>3, <1>6, <3>1
  <2>2. ~(stop < b + long)
    <3> SUFFICES ASSUME stop < b + long PROVE FALSE
      OBVIOUS
    <3>1. (stop - b) + 1 \in 1 .. long /\ b + ((stop - b) + 1) - 1 = stop
      BY <1>7
    <3>2. Line[b + ((stop - b) + 1) - 1] = Decimal[n][(stop - b) + 1]
      BY <1>3, <3>1
    <3> QED
      BY <1>4, <1>6, <3>1, <3>2
  <2> QED
    BY <1>7, <2>1, <2>2
<1> DEFINE v == [k \in 0 .. long |-> value[b + k]]
<1>9. v \in [0 .. long -> Nat] /\ v[0] = 0 /\ v[long] = value[stop]
  <2>1. \A k \in 0 .. long : b + k \in b .. stop
    BY <1>7, <1>8
  <2>2. b + 0 = b /\ 0 \in 0 .. long /\ long \in 0 .. long
    BY <1>7
  <2> QED
    BY <1>6, <1>8, <2>1, <2>2 DEF Counts
<1>10. \A k \in 1 .. long : v[k] = 10 * v[k - 1] + Decimal[n][k]
  <2> SUFFICES ASSUME NEW k \in 1 .. long PROVE v[k] = 10 * v[k - 1] + Decimal[n][k]
    OBVIOUS
  <2>1. /\ b + k \in b + 1 .. stop /\ k - 1 \in 0 .. long /\ k \in 0 .. long
        /\ b + (k - 1) = (b + k) - 1 /\ b + k - 1 = (b + k) - 1
    BY <1>7, <1>8
  <2>2. value[b + k] = 10 * value[(b + k) - 1] + Line[(b + k) - 1]
    BY <1>6, <2>1 DEF Counts
  <2>3. Line[(b + k) - 1] = Decimal[n][k]
    BY <1>3, <2>1
  <2> QED
    BY <2>1, <2>2, <2>3
<1> HIDE DEF v
<1>11. v[long] = n
  BY <1>2, <1>9, <1>10, DecimalReadsBack
<1> QED
  BY <1>1, <1>6, <1>9, <1>11

\* strtok cuts the line at commas and at its end, and the strips' digits are neither.
LEMMA StripsReadBack ==
  ASSUME NEW request \in Requests, NEW start, LayOut(request, start), OnLine(request, start)
  PROVE  StripsAt(Begin(Fields + 1)) = request.strips
<1>0. /\ Fields \in Nat \ {0} /\ MAX_STRIP_COUNT \in Nat \ {0} /\ start[Fields + 1] \in Nat
      /\ index = start[Fields + 1] + MAX_STRIP_COUNT + 1 /\ index \in Nat /\ index < BufferSize
      /\ BufferSize \in Nat /\ request.strips \subseteq Strips
      /\ Line \in [0 .. BufferSize - 1 -> Chars] /\ Line[index] = Nul
  <2>1. Fields \in Nat \ {0} /\ MAX_STRIP_COUNT \in Nat \ {0} /\ Fields \in 1 .. Fields
        /\ BufferSize \in Nat
    BY SizesAssumption
  <2>2. start[Fields + 1] \in Nat /\ index = start[Fields + 1] + MAX_STRIP_COUNT + 1
        /\ index < BufferSize /\ Line \in [0 .. BufferSize - 1 -> Chars] /\ Line[index] = Nul
    BY <2>1, StartsGrow DEF OnLine
  <2>3. request.strips \subseteq Strips
    BY RequestsAssumption DEF Request
  <2> QED
    BY <2>1, <2>2, <2>3
<1>1. Begin(Fields + 1) = start[Fields + 1] /\ Found = Fields + 1
  <2>1. Fields + 1 \in 1 .. Fields + 1
    BY <1>0
  <2> QED
    BY <2>1, BeginIs
<1>2. ASSUME NEW t \in 1 .. Fields + 1 PROVE Line[End(t)] \in {Comma, Nul}
  <2>1. PICK b \in 0 .. index : b = Begin(t)
    <3>1. Begin(t) = start[t]
      BY BeginIs
    <3>2. start[t] \in Nat /\ start[t] <= start[Fields + 1]
      <4>1. start \in [1 .. Fields + 1 -> Nat]
        BY DEF LayOut
      <4>2. t = Fields + 1 \/ (t < Fields + 1 /\ Fields + 1 \in 1 .. Fields + 1)
        BY <1>0
      <4>3. start[t] \in Nat
        BY <4>1
      <4>4. \A u \in 1 .. Fields + 1 : t < u => start[t] < start[u]
        BY StartsGrow
      <4> QED
        BY <1>0, <4>2, <4>3, <4>4
    <3> QED
      BY <1>0, <3>1, <3>2
  <2> DEFINE Q == {q \in b .. index : Line[q] \in {Comma, Nul}}
  <2>2. index \in Q /\ Q \in SUBSET Nat
    BY <1>0
  <2>3. End(t) = Min(Q)
    BY <2>1 DEF End
  <2>4. Min(Q) \in Q
    <3> HIDE DEF Q
    <3> QED
      BY <2>2, MinIsLeast
  <2> QED
    BY <2>3, <2>4
<1>3. ASSUME NEW s \in Strips
      PROVE  /\ start[Fields + 1] + s \in DOMAIN Cut
             /\ Cut[start[Fields + 1] + s] = 1 <=> s \in request.strips
  <2>1. PICK p : p = start[Fields + 1] + s
    OBVIOUS
  <2>2. p \in 0 .. BufferSize - 1
    BY <1>0, <2>1 DEF Strips
  <2>3. Line[p] = IF s \in request.strips THEN 1 ELSE 0
    BY <2>1 DEF OnLine
  <2>4. ASSUME NEW t \in 1 .. Found PROVE p # End(t)
    BY <1>1, <1>2, <2>3, <2>4 DEF Comma, Nul
  <2>5. p \in DOMAIN Cut /\ Cut[p] = Line[p]
    BY <1>0, <2>2, <2>4 DEF Cut
  <2> QED
    BY <2>1, <2>3, <2>5
<1> QED
  BY <1>0, <1>1, <1>3 DEF StripsAt

-----------------------------------------------------------------------------
(* What updateParameters reads in a line it has been sent.                 *)

\* Whatever stands behind its end.
LEMMA TextReadsBack ==
  ASSUME buffer \in [0 .. BufferSize - 1 -> Chars], NEW request \in Requests,
         HoldsText(request), index < BufferSize
  PROVE  /\ Found = Fields + 1
         /\ \A f \in 1 .. Fields : Number(f) = request.fields[f]
         /\ StripsAt(Begin(Fields + 1)) = request.strips
<1>1. PICK start : LayOut(request, start) /\ SpellsOut(request, start)
  BY TextIsLaidOut
<1>2. OnLine(request, start)
  BY <1>1, LineIs
<1> QED
  BY <1>1, <1>2, BeginIs, NumbersReadBack, StripsReadBack

\* strtok's n-th token begins somewhere in the line.
LEMMA TokenBegins ==
  ASSUME index \in Nat, NEW t \in Nat \ {0}, t <= Cardinality(Begins)
  PROVE  Begin(t) \in Begins /\ Begin(t) \in 0 .. index - 1
<1> DEFINE Earlier(q) == {b \in Begins : b < q}
           Q == {q \in 0 .. index : Cardinality(Earlier(q)) >= t}
<1>1. Begins \subseteq 0 .. index - 1 /\ IsFiniteSet(Begins) /\ Cardinality(Begins) \in Nat
  <2>1. Begins \subseteq 0 .. index - 1
    BY DEF Begins
  <2>2. IsFiniteSet(0 .. index - 1)
    BY FS_Interval
  <2> QED
    BY <2>1, <2>2, FS_Subset, FS_CardinalityType
<1>2. \A q : /\ Earlier(q) \subseteq Begins /\ IsFiniteSet(Earlier(q))
            /\ Cardinality(Earlier(q)) \in Nat
  <2> SUFFICES ASSUME NEW q
               PROVE  /\ Earlier(q) \subseteq Begins /\ IsFiniteSet(Earlier(q))
                      /\ Cardinality(Earlier(q)) \in Nat
    OBVIOUS
  <2>1. Earlier(q) \in SUBSET Begins
    OBVIOUS
  <2> HIDE DEF Earlier
  <2> QED
    BY <1>1, <2>1, FS_Subset, FS_CardinalityType
<1>3. Earlier(index) = Begins /\ Earlier(0) = {}
  <2>1. \A b \in Begins : b \in Nat /\ b < index /\ ~(b < 0)
    BY <1>1
  <2> QED
    BY <2>1
<1>4. PICK q \in Q : \A p \in Q : q <= p
  <2>1. index \in Q /\ Q \in SUBSET Nat
    BY <1>3
  <2> HIDE DEF Q
  <2> QED
    BY <2>1, NatMin
<1>5. q - 1 \in 0 .. index - 1 /\ q \in Nat /\ Cardinality(Earlier(q)) >= t
  <2>1. q # 0
    <3>1. Cardinality(Earlier(0)) = 0
      BY <1>3, FS_EmptySet
    <3> HIDE DEF Earlier
    <3> QED
      BY <1>4, <3>1
  <2> HIDE DEF Earlier
  <2> QED
    BY <1>4, <2>1
<1>6. ~(Cardinality(Earlier(q - 1)) >= t)
  <2>1. q - 1 \in 0 .. index /\ ~(q <= q - 1)
    BY <1>5
  <2> HIDE DEF Earlier
  <2> QED
    BY <1>4, <2>1
<1>7. /\ q - 1 \in Begins => Earlier(q) = Earlier(q - 1) \cup {q - 1}
      /\ q - 1 \notin Begins => Earlier(q) = Earlier(q - 1)
      /\ q - 1 \notin Earlier(q - 1)
  <2>1. \A b \in Begins : b < q <=> (b < q - 1 \/ b = q - 1)
    BY <1>1, <1>5
  <2>2. ~(q - 1 < q - 1)
    BY <1>5
  <2> QED
    BY <2>1, <2>2
<1>8. q - 1 \in Begins /\ Cardinality(Earlier(q - 1)) = t - 1
  <2> HIDE DEF Earlier
  <2>1. q - 1 \in Begins
    BY <1>5, <1>6, <1>7
  <2>2. Cardinality(Earlier(q)) = Cardinality(Earlier(q - 1)) + 1
    BY <1>2, <1>7, <2>1, FS_AddElement
  <2> QED
    BY <1>2, <1>5, <1>6, <2>1, <2>2
<1>9. Begin(t) \in Begins
  <2>1. \E p \in Begins : Cardinality({b \in Begins : b < p}) = t - 1
    BY <1>8
  <2> QED
    BY <2>1 DEF Begin
<1> QED
  BY <1>1, <1>9

\* Whatever the line holds, each token it has begins with a natural number.
LEMMA NumberIsNatural ==
  ASSUME buffer \in [0 .. BufferSize - 1 -> Chars], index \in Nat, index < BufferSize,
         NEW f \in 1 .. Fields, f <= Found
  PROVE  Number(f) \in Nat
<1>0. BufferSize \in Nat /\ Fields \in Nat
  BY SizesAssumption
<1>1. Line \in [0 .. BufferSize - 1 -> Chars] /\ Line[index] = Nul
  <2>1. Nul \in Chars
    BY DEF Chars
  <2> QED
    BY <1>0, <2>1 DEF Line
<1>2. f \in Nat \ {0} /\ f <= Cardinality(Begins)
  <2>1. Begins \in SUBSET (0 .. index - 1)
    BY DEF Begins
  <2>2. IsFiniteSet(0 .. index - 1)
    BY FS_Interval
  <2>3. Cardinality(Begins) \in Nat
    BY <2>1, <2>2, FS_Subset, FS_CardinalityType
  <2>4. {Cardinality(Begins), Fields + 1} \in SUBSET Nat
    BY <1>0, <2>3
  <2>5. Found \in Nat /\ Found <= Cardinality(Begins)
    BY <2>4, MinIsLeast DEF Found
  <2> QED
    BY <1>0, <2>3, <2>5
<1>3. PICK b \in 0 .. index : b = Begin(f)
  <2>1. Begin(f) \in 0 .. index - 1
    BY <1>2, TokenBegins
  <2> QED
    BY <2>1
<1>4. PICK stop \in b .. index : \E value : Counts(value, b, stop) /\ Number(f) = value[stop]
  BY <1>1, <1>3, NumberIs
<1>5. stop \in b .. stop
  BY <1>3
<1> QED
  BY <1>4, <1>5 DEF Counts
=============================================================================
