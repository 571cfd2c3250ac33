---------------------------- MODULE StripRounds ----------------------------
(***************************************************************************)
(* What a measurement promises, without converters, interrupts or pins:    *)
(* the strips switched on are measured one after the other, lowest first,  *)
(* one window each, and when the last of them has been measured the        *)
(* results of the whole round appear together, every one computed from as  *)
(* many windows as there are strips.                                       *)
(***************************************************************************)
EXTENDS Integers, Sequences

CONSTANT Strips

VARIABLES
  order,     \* the strips of this measurement, <<>> before it starts
  turn,      \* whose window is running
  windows,   \* windows of this round already added to the total
  result     \* for each strip, the windows its result is the mean of

vars == <<order, turn, windows, result>>

InOrder(o) == \A i, j \in DOMAIN o : i < j => o[i] < o[j]

Init ==
  /\ order = <<>> /\ turn = 1 /\ windows = 0
  /\ result = [s \in Strips |-> 0]

Start ==
  /\ order = <<>>
  /\ order' \in Seq(Strips) \ {<<>>}
  /\ InOrder(order')
  /\ UNCHANGED <<turn, windows, result>>

Window ==
  /\ turn < Len(order)
  /\ turn' = turn + 1
  /\ windows' = windows + 1
  /\ UNCHANGED <<order, result>>

Round ==
  /\ order # <<>> /\ turn = Len(order)
  /\ turn' = 1
  /\ windows' = 0
  /\ result' = [s \in Strips |-> IF \E i \in DOMAIN order : order[i] = s
                                   THEN Len(order) ELSE result[s]]
  /\ UNCHANGED order

Next == Start \/ Window \/ Round

\* What may happen, and that it goes on.
Safe == Init /\ [][Next]_vars

Spec == Safe /\ WF_vars(Window) /\ WF_vars(Round)
=============================================================================
