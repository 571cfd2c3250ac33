--------------------------- MODULE GuiHostProofs ---------------------------
(***************************************************************************)
(* Proofs about GuiHost, for any number of starts, rows and connections:   *)
(* the types, that the file is in the order the board printed, and that a  *)
(* closed window leaves no thread behind it would have had to stop.        *)
(***************************************************************************)
EXTENDS GuiHost, SequenceTheorems, TLAPS

\* A row has a measurement and a number, both natural numbers.
LEMMA RowFields ==
  ASSUME NEW r \in Row
  PROVE  r.measurement \in Nat /\ r.number \in Nat
  BY BoundsAssumption DEF Row

\* Appending an element.
LEMMA RowAppended ==
  ASSUME NEW S, NEW s \in Seq(S), NEW e \in S
  PROVE  Append(s, e) \in Seq(S) /\ Len(Append(s, e)) = Len(s) + 1
  BY AppendProperties

\* Taking the first element leaves the rest; moving it to the end of the sequence in front
\* changes nothing of the two together.
LEMMA RowTaken ==
  ASSUME NEW S, NEW s \in Seq(S), s # <<>>
  PROVE  Head(s) \in S /\ Tail(s) \in Seq(S) /\ s = <<Head(s)>> \o Tail(s)
<1>1. Head(s) \in S /\ Tail(s) \in Seq(S)
  BY HeadTailProperties
<1>2. Len(s) \in Nat \ {0} /\ Len(Tail(s)) = Len(s) - 1 /\ Head(s) = s[1]
  BY HeadTailProperties, EmptySeq
<1>3. <<Head(s)>> \in Seq(S) /\ Len(<<Head(s)>>) = 1 /\ <<Head(s)>>[1] = Head(s)
  BY <1>1
<1>4. <<Head(s)>> \o Tail(s) \in Seq(S) /\ Len(<<Head(s)>> \o Tail(s)) = Len(s)
  BY <1>1, <1>2, <1>3, ConcatProperties
<1>5. \A i \in 1 .. Len(s) : s[i] = (<<Head(s)>> \o Tail(s))[i]
  <2> SUFFICES ASSUME NEW i \in 1 .. Len(s)
               PROVE  s[i] = (<<Head(s)>> \o Tail(s))[i]
    OBVIOUS
  <2>1. (<<Head(s)>> \o Tail(s))[i] = IF i <= 1 THEN <<Head(s)>>[i] ELSE Tail(s)[i - 1]
    BY <1>1, <1>2, <1>3, ConcatProperties
  <2>2. CASE i = 1
    BY <2>1, <2>2, <1>2, <1>3
  <2>3. CASE i > 1
    BY <2>1, <2>3, <1>2, HeadTailProperties
  <2> QED
    BY <1>2, <2>2, <2>3
<1> QED
  BY <1>1, <1>4, <1>5, SeqEqual

\* A row that readline, emit or write_to_csv moves on stays where it is in the order.
LEMMA RowMoved ==
  ASSUME NEW S, NEW s \in Seq(S), NEW t \in Seq(S), t # <<>>
  PROVE  Append(s, Head(t)) \o Tail(t) = s \o t
<1>1. Head(t) \in S /\ Tail(t) \in Seq(S) /\ <<Head(t)>> \in Seq(S)
      /\ t = <<Head(t)>> \o Tail(t)
  BY RowTaken
<1>2. Append(s, Head(t)) = s \o <<Head(t)>>
  BY <1>1, AppendIsConcat
<1> QED
  BY <1>1, <1>2, ConcatAssociative

\* Three sequences one after the other; a fourth in front joins the first.
Chain(s, t, u) == (s \o t) \o u

\* A sequence in front of three others stays in front when it joins the first.
LEMMA FirstOfFour ==
  ASSUME NEW S, NEW s \in Seq(S), NEW t \in Seq(S), NEW u \in Seq(S), NEW v \in Seq(S)
  PROVE  Chain(s \o t, u, v) = s \o Chain(t, u, v) /\ Chain(t, u, v) \in Seq(S)
<1>1. PICK w \in Seq(S) : w = t \o u
  BY ConcatProperties
<1>2. (s \o t) \o u = s \o w
  BY <1>1, ConcatAssociative
<1>3. (s \o w) \o v = s \o (w \o v) /\ w \o v \in Seq(S)
  BY ConcatAssociative, ConcatProperties
<1> QED
  BY <1>1, <1>2, <1>3 DEF Chain

\* An element appended to the second is appended to both.
LEMMA AppendedToBoth ==
  ASSUME NEW S, NEW s \in Seq(S), NEW t \in Seq(S), NEW e \in S
  PROVE  s \o Append(t, e) = Append(s \o t, e)
<1>1. <<e>> \in Seq(S) /\ s \o t \in Seq(S)
  BY ConcatProperties
<1>2. Append(t, e) = t \o <<e>> /\ Append(s \o t, e) = (s \o t) \o <<e>>
  BY <1>1, AppendIsConcat
<1> QED
  BY <1>1, <1>2, ConcatAssociative
-----------------------------------------------------------------------------
(* Types.                                                                  *)

\* A start is counted before its dialog asks for a confirmation.
TypesInv == TypeOK /\ (dialog = "confirm" => starts # 0)

\* Nothing has happened yet.
LEMMA TypesInvInit == Init => TypesInv
<1> SUFFICES ASSUME Init PROVE TypesInv
  OBVIOUS
<1>1. <<>> \in Seq(1 .. MaxStarts) /\ <<>> \in Seq(Row) /\ Len(<<>>) = 0
  OBVIOUS
<1>2. {MaxStarts, MaxRows, MaxConnects} \subseteq Nat
  BY BoundsAssumption
<1>3. toBoard \in Seq(1 .. MaxStarts) /\ {port, held, events, csv} \subseteq Seq(Row)
      /\ Len(held) <= 1
  BY <1>1 DEF Init
<1>4. board \in [measurement : 0 .. MaxStarts, rows : 0 .. MaxRows]
  BY <1>2 DEF Init
<1>5. /\ {reading, flag, failed, measurement_started} \subseteq BOOLEAN
      /\ sending = "nobody" /\ dialog = "none" /\ window = "open"
      /\ others = {} /\ cleared = {} /\ connects = 0 /\ starts = 0
  BY DEF Init
<1> QED
  BY <1>2, <1>3, <1>4, <1>5 DEF TypeOK, TypesInv

\* The row the board prints next is one, and it counts it.
LEMMA RowPrinted ==
  ASSUME NEW b \in [measurement : 0 .. MaxStarts, rows : 0 .. MaxRows],
         b.measurement # 0, b.rows < MaxRows
  PROVE  /\ [measurement |-> b.measurement, number |-> b.rows + 1] \in Row
         /\ [b EXCEPT !.rows = @ + 1] \in [measurement : 0 .. MaxStarts, rows : 0 .. MaxRows]
<1>1. b.measurement \in 1 .. MaxStarts /\ b.rows + 1 \in 1 .. MaxRows
  BY BoundsAssumption
<1>2. b.rows + 1 \in 0 .. MaxRows
  BY <1>1
<1> QED
  BY <1>1, <1>2 DEF Row

\* Every step of the board, the thread and the GUI keeps the types.
LEMMA TypesInvStep ==
  ASSUME TypesInv, [Next]_vars
  PROVE  TypesInv'
<1> USE DEF TypesInv, TypeOK, vars, board_vars, thread_vars, gui_vars
<1>0. /\ {MaxStarts, MaxRows, MaxConnects} \subseteq Nat
      /\ <<>> \in Seq(Row) /\ Len(<<>>) = 0
  BY BoundsAssumption
<1>1. CASE BoardTakesParameters
  <2>1. Head(toBoard) \in 1 .. MaxStarts /\ Tail(toBoard) \in Seq(1 .. MaxStarts)
    BY <1>1, RowTaken DEF BoardTakesParameters
  <2>2. Head(toBoard) \in 0 .. MaxStarts /\ 0 \in 0 .. MaxRows
    BY <1>0, <2>1
  <2>3. board' = [measurement |-> Head(toBoard), rows |-> 0]
    BY <1>1 DEF BoardTakesParameters
  <2>4. board' \in [measurement : 0 .. MaxStarts, rows : 0 .. MaxRows]
    BY <2>2, <2>3
  <2> QED
    BY <1>1, <2>1, <2>4 DEF BoardTakesParameters
<1>2. CASE BoardPrintsRow
  <2>1. /\ [measurement |-> board.measurement, number |-> board.rows + 1] \in Row
        /\ board' \in [measurement : 0 .. MaxStarts, rows : 0 .. MaxRows]
    BY <1>2, RowPrinted DEF BoardPrintsRow
  <2>2. port' \in Seq(Row)
    BY <1>2, <2>1, RowAppended DEF BoardPrintsRow
  <2> QED
    BY <1>2, <2>1, <2>2 DEF BoardPrintsRow
<1>3. CASE ReadLine
  <2>1. Head(port) \in Row /\ port' \in Seq(Row) /\ held = <<>>
    BY <1>3, RowTaken DEF ReadLine, Emitted
  <2>2. held' \in Seq(Row) /\ Len(held') = 1
    BY <1>3, <1>0, <2>1, RowAppended DEF ReadLine
  <2> QED
    BY <1>3, <2>1, <2>2 DEF ReadLine
<1>4. CASE EmitNewData
  <2>1. events' \in Seq(Row)
    BY <1>4, ConcatProperties DEF EmitNewData, Queued
  <2> QED
    BY <1>4, <1>0, <2>1 DEF EmitNewData
<1>5. CASE write_to_csv
  <2>1. Head(events) \in Row /\ events' \in Seq(Row)
    BY <1>5, RowTaken DEF write_to_csv, StillQueued
  <2>2. csv' \in Seq(Row)
    BY <1>5, <2>1, RowAppended DEF write_to_csv
  <2> QED
    BY <1>5, <2>1, <2>2 DEF write_to_csv
<1>6. CASE SendAndClear
  <2>1. starts \in 1 .. MaxStarts
    BY <1>0, <1>6 DEF SendAndClear
  <2>2. toBoard' \in Seq(1 .. MaxStarts)
    <3>1. toBoard' = toBoard \/ toBoard' = Append(toBoard, starts)
      BY <1>6 DEF SendAndClear
    <3>2. toBoard \in Seq(1 .. MaxStarts)
      OBVIOUS
    <3>3. Append(toBoard, starts) \in Seq(1 .. MaxStarts)
      BY <2>1, <3>2, AppendProperties
    <3> QED
      BY <3>1, <3>2, <3>3
  <2>3. cleared' \subseteq 1 .. MaxStarts
    BY <1>6, <2>1 DEF SendAndClear
  <2> QED
    BY <1>6, <1>0, <2>2, <2>3 DEF SendAndClear
<1>7. CASE StartRefused
  <2>1. csv' \in Seq(Row)
    BY <1>7, <1>0 DEF StartRefused
  <2>2. starts \in 1 .. MaxStarts
    BY <1>7, <1>0 DEF StartRefused
  <2>3. cleared' \subseteq 1 .. MaxStarts
    BY <1>7, <2>2 DEF StartRefused
  <2> QED
    BY <1>7, <2>1, <2>3 DEF StartRefused
<1>8. CASE PressStart
  <2>1. starts' \in 0 .. MaxStarts /\ starts' # 0
    BY <1>8, <1>0 DEF PressStart
  <2> QED
    BY <1>8, <2>1 DEF PressStart
<1>9. CASE Cancel \/ CloseMessage
  BY <1>9 DEF Cancel, CloseMessage, Close
<1>10. CASE Joined \/ ReaderEnds \/ ReaderFails
  BY <1>10 DEF Joined, ReaderEnds, ReaderFails
<1>11. CASE connect_serial_port
  <2>1. CASE OpenPort
    <3>1. connects' \in 0 .. MaxConnects /\ connects' \in 1 .. MaxConnects
      BY <2>1, <1>0 DEF OpenPort
    <3>2. {reading', flag'} \subseteq BOOLEAN /\ sending' \in {"nobody", "board", "other"}
          /\ port' \in Seq(Row)
      BY <2>1, <1>0 DEF OpenPort
    <3>3. others' \subseteq 1 .. MaxConnects
      BY <2>1, <3>1 DEF OpenPort
    <3> QED
      BY <1>11, <3>1, <3>2, <3>3 DEF connect_serial_port
  <2>2. CASE UNCHANGED <<connects, sending, reading, flag, port, others>>
    BY <1>11, <2>2 DEF connect_serial_port
  <2> QED
    BY <1>11, <2>1, <2>2 DEF connect_serial_port
<1>12. CASE closeEvent
  <2>1. flag' \in BOOLEAN /\ window' \in {"joining", "closed"} /\ others' \subseteq others
    BY <1>12 DEF closeEvent, Joining, Stopped
  <2> QED
    BY <1>12, <2>1 DEF closeEvent, Idle
<1>13. CASE UNCHANGED vars
  BY <1>13
<1> QED
  BY <1>1, <1>2, <1>3, <1>4, <1>5, <1>6, <1>7, <1>8, <1>9, <1>10, <1>11, <1>12, <1>13
     DEF Next, Board, Reader, start_measurement

\* The board, the thread and the GUI keep every variable in its
\* range, for any bounds.
THEOREM GuiTypeCorrect == Spec => []TypeOK
<1>1. TypesInv => TypeOK
  BY DEF TypesInv
<1> QED
  BY <1>1, TypesInvInit, TypesInvStep, PTL DEF Spec
-----------------------------------------------------------------------------
(* Closing the window.                                                     *)

\* While the window is open the thread that reads is told to go on; it and those of
\* other ports are the last connection's or older ones.
ThreadInv ==
  /\ others \subseteq 1 .. connects
  /\ connects \in others => sending = "other" /\ window = "open"
  /\ reading => connects >= 1 /\ (sending = "board" \/ connects > 1)
  /\ reading /\ (window = "open" \/ sending # "board") => flag
  /\ window = "closed" /\ sending = "board" => ~reading

\* Threads other than the last connection's are those of earlier ones.
LEMMA OthersAreEarlier ==
  ASSUME TypesInv, ThreadInv, window = "closed", reading \/ others # {}
  PROVE  connects > 1 /\ connects \notin others /\ (reading => sending # "board" /\ flag)
<1>0. connects \in Nat
  BY BoundsAssumption DEF TypesInv, TypeOK
<1>1. connects \notin others
  BY DEF ThreadInv
<1>2. reading => sending # "board" /\ flag /\ connects > 1
  BY DEF ThreadInv
<1>3. ASSUME others # {} PROVE connects > 1
  <2>1. PICK connection \in others : TRUE
    BY <1>3
  <2> QED
    BY <1>0, <1>1, <2>1 DEF ThreadInv
<1> QED
  BY <1>1, <1>2, <1>3

\* Connecting, failing and closing are the only steps that start or stop a thread.
LEMMA ThreadInvStep ==
  ASSUME TypesInv, ThreadInv, [Next]_vars
  PROVE  ThreadInv'
<1> USE DEF vars, board_vars, thread_vars, gui_vars
<1>0. /\ {reading, flag} \subseteq BOOLEAN /\ connects \in Nat
      /\ window \in {"open", "joining", "closed"} /\ sending \in {"nobody", "board", "other"}
  BY BoundsAssumption DEF TypesInv, TypeOK
<1>1. CASE UNCHANGED <<reading, flag, others, sending, connects, window>>
  BY <1>1 DEF ThreadInv
<1>2. CASE ReadLine \/ EmitNewData
  BY <1>2, <1>1 DEF ReadLine, EmitNewData
<1>3. CASE ReaderEnds \/ ReaderFails
  <2>1. /\ UNCHANGED <<sending, connects, window>> /\ others' \subseteq others
        /\ reading' = FALSE \/ UNCHANGED <<reading, flag>>
    BY <1>3 DEF ReaderEnds, ReaderFails
  <2> QED
    BY <1>0, <2>1 DEF ThreadInv
<1>4. CASE connect_serial_port
  <2>1. CASE OpenPort
    <3>1. window = "open" /\ window' = "open" /\ connects' = connects + 1
      BY <1>4, <2>1 DEF connect_serial_port, OpenPort, Idle
    <3>2. connects' \in Nat /\ connects' >= 1 /\ connects' \notin others
          /\ 1 .. connects \subseteq 1 .. connects' /\ connects' \in 1 .. connects'
      BY <1>0, <3>1 DEF ThreadInv
    <3>3. others' \subseteq 1 .. connects' /\ (connects' \in others' => sending' = "other")
      BY <2>1, <3>2 DEF OpenPort, ThreadInv
    <3>4. reading' => flag' /\ (sending' = "board" \/ connects' > 1)
      <4>1. CASE sending' = "board"
        BY <2>1, <4>1 DEF OpenPort
      <4>2. CASE sending' # "board"
        <5>1. reading' = reading /\ flag' = flag
          BY <2>1, <4>2 DEF OpenPort
        <5>2. reading => flag /\ connects >= 1
          BY <3>1 DEF ThreadInv
        <5> QED
          BY <1>0, <3>1, <5>1, <5>2
      <4> QED
        BY <4>1, <4>2
    <3> QED
      BY <3>1, <3>2, <3>3, <3>4 DEF ThreadInv
  <2>2. CASE UNCHANGED <<connects, sending, reading, flag, port, others>>
    BY <1>1, <1>4, <2>2 DEF connect_serial_port
  <2> QED
    BY <1>4, <2>1, <2>2 DEF connect_serial_port
<1>5. CASE closeEvent
  <2>1. /\ UNCHANGED <<reading, sending, connects>> /\ window = "open"
        /\ others' = others \ {connects}
        /\ IF sending = "board" THEN flag' = FALSE ELSE UNCHANGED flag
        /\ window' = IF sending = "nobody" THEN "closed" ELSE "joining"
    BY <1>5 DEF closeEvent, Idle, Joining, Stopped
  <2> QED
    BY <1>0, <2>1 DEF ThreadInv
<1>6. CASE Joined
  BY <1>6, <1>0 DEF Joined, ThreadInv
<1> QED
  BY <1>1, <1>2, <1>3, <1>4, <1>5, <1>6
     DEF Next, Board, BoardTakesParameters, BoardPrintsRow, Reader, write_to_csv,
         start_measurement, PressStart, Cancel, StartRefused, SendAndClear, CloseMessage,
         Close

\* When the window is closed (closeEvent), the last connection's thread has ended, whatever
\* port it read and whether or not its reads have failed; a thread that goes on is that of
\* an earlier connection.
THEOREM NoThreadIsLeft == Spec => []NoThreadLeft
<1>1. Init => TypesInv /\ ThreadInv
  BY TypesInvInit DEF Init, ThreadInv
<1>2. TypesInv /\ ThreadInv /\ [Next]_vars => (TypesInv /\ ThreadInv)'
  BY TypesInvStep, ThreadInvStep
<1>3. TypesInv /\ ThreadInv => NoThreadLeft
  BY OthersAreEarlier DEF NoThreadLeft
<1> QED
  BY <1>1, <1>2, <1>3, PTL DEF Spec

\* Until a read fails, the board has been sent nothing before a thread reads its port.
QuietInv ==
  window = "open" =>
    /\ sending = "board" => reading \/ failed
    /\ ~failed /\ ~reading => board.measurement = 0 /\ toBoard = <<>> /\ port = <<>>

\* Parameters go to the board by the port that its thread reads.
LEMMA QuietInvStep ==
  ASSUME TypesInv, ThreadInv, QuietInv, [Next]_vars
  PROVE  QuietInv'
<1> USE DEF vars, board_vars, thread_vars, gui_vars
<1>0. {reading, flag, failed} \subseteq BOOLEAN
  BY DEF TypesInv, TypeOK
<1>1. CASE UNCHANGED <<reading, failed, sending, window, board, toBoard, port>>
  BY <1>1 DEF QuietInv
<1>2. CASE BoardTakesParameters \/ BoardPrintsRow
  BY <1>2 DEF BoardTakesParameters, BoardPrintsRow, QuietInv
<1>3. CASE ReadLine
  BY <1>3 DEF ReadLine, QuietInv
<1>4. CASE ReaderEnds
  BY <1>4 DEF ReaderEnds, QuietInv, ThreadInv
<1>5. CASE ReaderFails
  BY <1>5 DEF ReaderFails, QuietInv
<1>6. CASE connect_serial_port
  BY <1>6, <1>0 DEF connect_serial_port, OpenPort, Idle, QuietInv
<1>7. CASE SendAndClear
  BY <1>7, <1>0 DEF SendAndClear, QuietInv
<1>8. CASE closeEvent \/ Joined
  <2>1. window' # "open"
    BY <1>8 DEF closeEvent, Joined, Joining
  <2> QED
    BY <2>1 DEF QuietInv
<1> QED
  BY <1>1, <1>2, <1>3, <1>4, <1>5, <1>6, <1>7, <1>8
     DEF Next, Board, Reader, EmitNewData, write_to_csv, start_measurement, PressStart,
         Cancel, StartRefused, CloseMessage, Close
-----------------------------------------------------------------------------
(* The order of the rows.                                                  *)

\* s comes after r and, if no row is missing, is the next one or of a later measurement.
Follows(r, s, whole) ==
  Earlier(r, s) /\ (whole /\ r.measurement = s.measurement => s.number = r.number + 1)

InOrder(rows, whole) == \A n \in 1 .. Len(rows) - 1 : Follows(rows[n], rows[n + 1], whole)

LastRow(rows) == rows[Len(rows)]

\* The file and what is still on its way to it.
OnTheWay == Chain(events, held, port)
Flow     == Chain(csv \o events, held, port)

\* The board has printed r.
Printed(r) ==
  \/ r.measurement < board.measurement
  \/ r.measurement = board.measurement /\ r.number <= board.rows

\* The row the board prints next would follow r.
Continues(r) ==
  \/ r.measurement < board.measurement
  \/ r.measurement = board.measurement /\ r.number = board.rows

FlowInv ==
  /\ InOrder(Flow, ~failed)
  /\ \A n \in 1 .. Len(Flow) : Printed(Flow[n])
  /\ ~failed /\ Flow # <<>> => Continues(LastRow(Flow))

\* Every measurement is asked for after the ones before it.
StartsInv ==
  /\ board.measurement <= starts
  /\ \A n \in 1 .. Len(toBoard) : board.measurement < toBoard[n] /\ toBoard[n] <= starts
  /\ \A m \in 1 .. Len(toBoard) : \A n \in 1 .. m - 1 : toBoard[n] < toBoard[m]
  /\ dialog = "confirm" =>
       board.measurement < starts /\ \A n \in 1 .. Len(toBoard) : toBoard[n] < starts

\* Rows in order stay so when the first ones are taken, and when a row that follows the
\* last one is appended.
LEMMA OrderOfParts ==
  ASSUME NEW s \in Seq(Row), NEW t \in Seq(Row),
         NEW whole, InOrder(s \o t, whole)
  PROVE  /\ InOrder(s, whole) /\ InOrder(t, whole)
         /\ \A n \in 1 .. Len(s) : \E m \in 1 .. Len(s \o t) : s[n] = (s \o t)[m]
         /\ \A n \in 1 .. Len(t) : \E m \in 1 .. Len(s \o t) : t[n] = (s \o t)[m]
         /\ t # <<>> => s \o t # <<>> /\ LastRow(s \o t) = LastRow(t)
<1>1. /\ Len(s) \in Nat /\ Len(t) \in Nat /\ s \o t \in Seq(Row)
      /\ Len(s \o t) = Len(s) + Len(t)
  BY ConcatProperties, LenProperties
<1>2. \A n \in 1 .. Len(s) : (s \o t)[n] = s[n]
  BY <1>1, ConcatProperties
<1>3. \A n \in 1 .. Len(t) : (s \o t)[Len(s) + n] = t[n]
  <2> TAKE n \in 1 .. Len(t)
  <2>1. Len(s) + n \in 1 .. Len(s) + Len(t) /\ ~(Len(s) + n <= Len(s))
        /\ (Len(s) + n) - Len(s) = n
    BY <1>1
  <2> QED
    BY <2>1, ConcatProperties
<1>4. InOrder(s, whole)
  <2> SUFFICES ASSUME NEW n \in 1 .. Len(s) - 1 PROVE Follows(s[n], s[n + 1], whole)
    BY DEF InOrder
  <2>1. n \in 1 .. Len(s \o t) - 1 /\ n \in 1 .. Len(s) /\ n + 1 \in 1 .. Len(s)
    BY <1>1
  <2> QED
    BY <1>2, <2>1 DEF InOrder
<1>5. InOrder(t, whole)
  <2> SUFFICES ASSUME NEW n \in 1 .. Len(t) - 1 PROVE Follows(t[n], t[n + 1], whole)
    BY DEF InOrder
  <2>1. /\ Len(s) + n \in 1 .. Len(s \o t) - 1 /\ n \in 1 .. Len(t) /\ n + 1 \in 1 .. Len(t)
        /\ (Len(s) + n) + 1 = Len(s) + (n + 1)
    BY <1>1
  <2>2. Follows((s \o t)[Len(s) + n], (s \o t)[(Len(s) + n) + 1], whole)
    BY <2>1 DEF InOrder
  <2> QED
    BY <1>3, <2>1, <2>2
<1>6. ASSUME t # <<>>
      PROVE  s \o t # <<>> /\ LastRow(s \o t) = LastRow(t)
  <2>1. Len(t) \in 1 .. Len(t)
    BY <1>1, <1>6, EmptySeq
  <2> QED
    BY <1>1, <1>3, <2>1, EmptySeq DEF LastRow
<1>7. \A n \in 1 .. Len(s) : n \in 1 .. Len(s \o t)
  BY <1>1
<1>8. \A n \in 1 .. Len(t) : Len(s) + n \in 1 .. Len(s \o t)
  BY <1>1
<1> QED
  BY <1>2, <1>3, <1>4, <1>5, <1>6, <1>7, <1>8

\* A row the board prints comes last, and continues the order if it continues the
\* last.
LEMMA OrderOfAppend ==
  ASSUME NEW s \in Seq(Row), NEW r \in Row, NEW whole,
         InOrder(s, whole), s # <<>> => Follows(LastRow(s), r, whole)
  PROVE  InOrder(Append(s, r), whole) /\ LastRow(Append(s, r)) = r
<1>1. /\ Len(s) \in Nat /\ (s # <<>> <=> Len(s) # 0)
      /\ Len(Append(s, r)) = Len(s) + 1 /\ Append(s, r)[Len(s) + 1] = r
      /\ \A n \in 1 .. Len(s) : Append(s, r)[n] = s[n]
  BY AppendProperties, LenProperties, EmptySeq
<1>2. ASSUME NEW n \in 1 .. Len(s)
      PROVE  Follows(Append(s, r)[n], Append(s, r)[n + 1], whole)
  <2>1. CASE n = Len(s)
    BY <1>1, <2>1 DEF LastRow
  <2>2. CASE n \in 1 .. Len(s) - 1
    <3>1. n + 1 \in 1 .. Len(s)
      BY <1>1, <2>2
    <3> QED
      BY <1>1, <2>2, <3>1 DEF InOrder
  <2> QED
    BY <1>1, <2>1, <2>2
<1>3. 1 .. Len(Append(s, r)) - 1 = 1 .. Len(s)
  BY <1>1
<1> QED
  BY <1>1, <1>2, <1>3 DEF InOrder, LastRow

\* Each start is counted before it is sent, and the board takes them one by one.
LEMMA StartsInvStep ==
  ASSUME TypesInv, StartsInv, [Next]_vars
  PROVE  StartsInv'
<1> USE DEF vars, board_vars, thread_vars, gui_vars
<1>0. /\ MaxStarts \in Nat /\ toBoard \in Seq(1 .. MaxStarts) /\ Len(toBoard) \in Nat
      /\ board.measurement \in Nat /\ starts \in Nat
      /\ \A n \in 1 .. Len(toBoard) : toBoard[n] \in Nat
  <2>1. MaxStarts \in Nat
    BY BoundsAssumption
  <2>2. /\ toBoard \in Seq(1 .. MaxStarts) /\ starts \in 0 .. MaxStarts
        /\ board.measurement \in 0 .. MaxStarts
    BY DEF TypesInv, TypeOK
  <2>3. \A n \in 1 .. Len(toBoard) : toBoard[n] \in 1 .. MaxStarts
    BY <2>2, ElementOfSeq
  <2> QED
    BY <2>1, <2>2, <2>3, LenProperties
<1>1. CASE UNCHANGED <<toBoard, board, dialog, starts>>
  BY <1>1 DEF StartsInv
<1>2. CASE BoardTakesParameters
  <2>1. /\ Len(toBoard) >= 1 /\ Head(toBoard) = toBoard[1] /\ Len(toBoard') = Len(toBoard) - 1
        /\ \A n \in 1 .. Len(toBoard') : toBoard'[n] = toBoard[n + 1]
    BY <1>0, <1>2, HeadTailProperties, EmptySeq DEF BoardTakesParameters
  <2>2. board'.measurement = toBoard[1] /\ UNCHANGED <<dialog, starts>>
    BY <1>2, <2>1 DEF BoardTakesParameters
  <2>3. \A n \in 1 .. Len(toBoard') : n + 1 \in 1 .. Len(toBoard) /\ 1 \in 1 .. (n + 1) - 1
    BY <1>0, <2>1
  <2>4. \A m \in 1 .. Len(toBoard') : \A n \in 1 .. m - 1 : n + 1 \in 1 .. (m + 1) - 1
    BY <1>0, <2>1
  <2>5. board'.measurement <= starts'
    BY <2>1, <2>2 DEF StartsInv
  <2>6. \A n \in 1 .. Len(toBoard') : board'.measurement < toBoard'[n] /\ toBoard'[n] <= starts'
    <3> TAKE n \in 1 .. Len(toBoard')
    <3>1. toBoard[1] < toBoard[n + 1] /\ toBoard[n + 1] <= starts
      BY <2>3 DEF StartsInv
    <3> QED
      BY <2>1, <2>2, <3>1
  <2>7. \A m \in 1 .. Len(toBoard') : \A n \in 1 .. m - 1 : toBoard'[n] < toBoard'[m]
    <3> TAKE m \in 1 .. Len(toBoard')
    <3> TAKE n \in 1 .. m - 1
    <3>1. toBoard[n + 1] < toBoard[m + 1]
      BY <2>3, <2>4 DEF StartsInv
    <3>2. n \in 1 .. Len(toBoard')
      BY <1>0, <2>1
    <3> QED
      BY <2>1, <3>1, <3>2
  <2>8. dialog' = "confirm" =>
          board'.measurement < starts' /\ \A n \in 1 .. Len(toBoard') : toBoard'[n] < starts'
    BY <2>1, <2>2, <2>3 DEF StartsInv
  <2> QED
    BY <2>5, <2>6, <2>7, <2>8 DEF StartsInv
<1>3. CASE BoardPrintsRow
  <2>1. board \in [measurement : 0 .. MaxStarts, rows : 0 .. MaxRows]
    BY DEF TypesInv, TypeOK
  <2>2. board' = [board EXCEPT !.rows = @ + 1] /\ UNCHANGED <<toBoard, dialog, starts>>
    BY <1>3 DEF BoardPrintsRow
  <2>3. board'.measurement = board.measurement
    BY <2>1, <2>2
  <2> QED
    BY <2>2, <2>3 DEF StartsInv
<1>4. CASE connect_serial_port \/ Cancel \/ StartRefused \/ CloseMessage
  <2>1. dialog' # "confirm" /\ UNCHANGED <<toBoard, board, starts>>
    BY <1>4 DEF connect_serial_port, Cancel, StartRefused, CloseMessage, Close
  <2> QED
    BY <2>1 DEF StartsInv
<1>5. CASE PressStart
  <2>1. starts' = starts + 1 /\ UNCHANGED <<toBoard, board>>
    BY <1>5 DEF PressStart
  <2> QED
    BY <1>0, <2>1 DEF StartsInv
<1>6. CASE SendAndClear
  <2>1. /\ dialog = "confirm" /\ dialog' = "none" /\ UNCHANGED <<board, starts>>
        /\ IF sending = "board" THEN toBoard' = Append(toBoard, starts)
                                ELSE UNCHANGED toBoard
    BY <1>6 DEF SendAndClear
  <2>2. CASE sending # "board"
    BY <2>1, <2>2 DEF StartsInv
  <2>3. CASE sending = "board"
    <3>1. /\ Len(toBoard') = Len(toBoard) + 1 /\ toBoard'[Len(toBoard) + 1] = starts
          /\ \A n \in 1 .. Len(toBoard) : toBoard'[n] = toBoard[n]
      <4>1. starts \in 1 .. MaxStarts
        BY <1>0, <2>1 DEF TypesInv, TypeOK
      <4> QED
        BY <1>0, <2>1, <2>3, <4>1, AppendProperties
    <3>2. \A n \in 1 .. Len(toBoard') : n \in 1 .. Len(toBoard) \/ n = Len(toBoard) + 1
      BY <1>0, <3>1
    <3>3. \A m \in 1 .. Len(toBoard') : \A n \in 1 .. m - 1 : n \in 1 .. Len(toBoard)
      BY <1>0, <3>1
    <3>4. dialog = "confirm" /\ dialog' = "none" /\ UNCHANGED <<board, starts>>
      BY <2>1
    <3>5. \A n \in 1 .. Len(toBoard) : board.measurement < toBoard[n] /\ toBoard[n] < starts
      BY <3>4 DEF StartsInv
    <3>6. \A n \in 1 .. Len(toBoard') : board.measurement < toBoard'[n] /\ toBoard'[n] <= starts
      BY <1>0, <3>1, <3>2, <3>4, <3>5 DEF StartsInv
    <3>7. \A m \in 1 .. Len(toBoard') : \A n \in 1 .. m - 1 : toBoard'[n] < toBoard'[m]
      BY <1>0, <3>1, <3>2, <3>3, <3>5 DEF StartsInv
    <3> QED
      BY <3>4, <3>6, <3>7 DEF StartsInv
  <2> QED
    BY <2>2, <2>3
<1> QED
  BY <1>1, <1>2, <1>3, <1>4, <1>5, <1>6
     DEF Next, Board, Reader, ReadLine, EmitNewData, ReaderEnds, ReaderFails, write_to_csv,
         start_measurement, closeEvent, Joined

\* The flow is the file and what is on its way.
LEMMA FlowParts ==
  ASSUME TypesInv
  PROVE  /\ csv \in Seq(Row) /\ events \in Seq(Row) /\ held \in Seq(Row) /\ port \in Seq(Row)
         /\ OnTheWay \in Seq(Row) /\ Flow \in Seq(Row) /\ Flow = csv \o OnTheWay
<1>1. csv \in Seq(Row) /\ events \in Seq(Row) /\ held \in Seq(Row) /\ port \in Seq(Row)
  BY DEF TypesInv, TypeOK
<1>2. Flow = csv \o OnTheWay /\ OnTheWay \in Seq(Row)
  BY <1>1, FirstOfFour DEF Flow, OnTheWay
<1>3. Flow \in Seq(Row)
  BY <1>1, <1>2, ConcatProperties
<1> QED
  BY <1>1, <1>2, <1>3

\* Reading, emitting and writing move a row along; the flow stays.
LEMMA RowsMoveAlong ==
  ASSUME TypesInv, ReadLine \/ EmitNewData \/ write_to_csv
  PROVE  Flow' = Flow
<1>0. /\ csv \in Seq(Row) /\ events \in Seq(Row) /\ held \in Seq(Row) /\ port \in Seq(Row)
      /\ csv \o events \in Seq(Row)
  BY ConcatProperties DEF TypesInv, TypeOK
<1>1. CASE ReadLine
  <2> DEFINE seen == csv \o events
  <2>1. /\ seen' = seen /\ held = <<>> /\ held' = Append(<<>>, Head(port))
        /\ port # <<>> /\ port' = Tail(port)
    BY <1>1 DEF ReadLine, Emitted
  <2>2. Head(port) \in Row /\ held' = <<Head(port)>>
    BY <1>0, <2>1, RowTaken
  <2>3. seen \in Seq(Row) /\ port \in Seq(Row)
    BY <1>0
  <2>4. Flow = (seen \o held) \o port /\ Flow' = (seen' \o held') \o port'
    BY DEF Flow, Chain
  <2> HIDE DEF seen
  <2>5. seen \o <<Head(port)>> = Append(seen, Head(port))
    BY <2>2, <2>3, AppendIsConcat
  <2>6. Append(seen, Head(port)) \o Tail(port) = seen \o port
    BY <2>1, <2>3, RowMoved
  <2>7. seen \o <<>> = seen
    BY <2>3, ConcatEmptySeq
  <2> QED
    BY <2>1, <2>2, <2>4, <2>5, <2>6, <2>7
<1>2. CASE EmitNewData
  <2>1. csv' = csv /\ events' = events \o held /\ held' = <<>> /\ port' = port
    BY <1>2 DEF EmitNewData, Queued
  <2>2. csv \in Seq(Row) /\ events \in Seq(Row) /\ held \in Seq(Row)
    BY <1>0
  <2>3. (csv \o events) \o held = csv \o (events \o held)
    BY <2>2, ConcatAssociative
  <2>4. (csv \o (events \o held)) \o <<>> = csv \o (events \o held)
    BY <2>2, ConcatProperties, ConcatEmptySeq
  <2> QED
    BY <2>1, <2>3, <2>4 DEF Flow, Chain
<1>3. CASE write_to_csv
  <2>1. /\ csv' = Append(csv, Head(events)) /\ events' = Tail(events)
        /\ held' = held /\ port' = port /\ events # <<>>
    BY <1>3 DEF write_to_csv, StillQueued, thread_vars
  <2>2. csv' \o events' = csv \o events
    BY <1>0, <2>1, RowMoved
  <2> QED
    BY <2>1, <2>2 DEF Flow
<1> QED
  BY <1>1, <1>2, <1>3

\* A row that is on its way has been printed.
LEMMA RowsOfFlow ==
  ASSUME TypesInv
  PROVE  /\ \A n \in 1 .. Len(Flow) : Flow[n] \in Row
         /\ Flow # <<>> => Len(Flow) \in 1 .. Len(Flow) /\ LastRow(Flow) \in Row
         /\ board.measurement \in Nat /\ board.rows \in Nat
<1>1. Flow \in Seq(Row) /\ Len(Flow) \in Nat
  BY FlowParts, LenProperties
<1>2. Flow # <<>> => Len(Flow) \in 1 .. Len(Flow)
  BY <1>1, EmptySeq
<1>3. board \in [measurement : 0 .. MaxStarts, rows : 0 .. MaxRows]
  BY DEF TypesInv, TypeOK
<1> QED
  BY <1>1, <1>2, <1>3, ElementOfSeq, BoundsAssumption DEF LastRow

\* The board's next row comes last; clearing the file takes the first ones, and opening the
\* port the last.
LEMMA FlowInvStep ==
  ASSUME TypesInv, ThreadInv, QuietInv, StartsInv, FlowInv, [Next]_vars
  PROVE  FlowInv'
<1> USE DEF vars, board_vars, thread_vars, gui_vars
<1>0. /\ csv \in Seq(Row) /\ events \in Seq(Row) /\ held \in Seq(Row) /\ port \in Seq(Row)
      /\ OnTheWay \in Seq(Row) /\ Flow \in Seq(Row) /\ Flow = csv \o OnTheWay
      /\ failed \in BOOLEAN
  BY FlowParts DEF TypesInv, TypeOK
<1>1. CASE UNCHANGED <<board, port, held, events, csv, failed>>
  BY <1>1 DEF FlowInv, Flow, OnTheWay, Continues, Printed
<1>2. CASE ReadLine \/ EmitNewData \/ write_to_csv
  <2>1. Flow' = Flow
    BY <1>2, RowsMoveAlong
  <2>2. board' = board /\ failed' = failed
    BY <1>2 DEF ReadLine, EmitNewData, write_to_csv
  <2> QED
    BY <2>1, <2>2 DEF FlowInv, Continues, Printed
<1>3. CASE BoardTakesParameters
  <2>1. Flow' = Flow /\ failed' = failed
    BY <1>3 DEF BoardTakesParameters, Flow
  <2>2. board'.measurement \in Nat /\ board.measurement < board'.measurement
    <3>1. toBoard \in Seq(1 .. MaxStarts) /\ toBoard # <<>> /\ Len(toBoard) \in Nat
      BY <1>3, LenProperties DEF BoardTakesParameters, TypesInv, TypeOK
    <3>2. /\ 1 \in 1 .. Len(toBoard) /\ Head(toBoard) = toBoard[1]
          /\ Head(toBoard) \in 1 .. MaxStarts
      <4>1. Head(toBoard) = toBoard[1] /\ Len(toBoard) # 0
        BY <3>1, EmptySeq
      <4>2. Head(toBoard) \in 1 .. MaxStarts
        BY <3>1, RowTaken
      <4> QED
        BY <3>1, <4>1, <4>2
    <3>3. board'.measurement = toBoard[1]
      BY <1>3, <3>2 DEF BoardTakesParameters
    <3> QED
      BY <3>2, <3>3, BoundsAssumption DEF StartsInv
  <2>3. \A n \in 1 .. Len(Flow) : Flow[n].measurement < board'.measurement
    <3> TAKE n \in 1 .. Len(Flow)
    <3>1. Flow[n] \in Row /\ board.measurement \in Nat /\ Printed(Flow[n])
      BY RowsOfFlow DEF FlowInv
    <3> QED
      BY <2>2, <3>1, RowFields DEF Printed
  <2> QED
    BY <2>1, <2>3, RowsOfFlow DEF FlowInv, Continues, Printed, LastRow
<1>4. CASE BoardPrintsRow
  <2> DEFINE row == [measurement |-> board.measurement, number |-> board.rows + 1]
  <2>1. row \in Row /\ board \in [measurement : 0 .. MaxStarts, rows : 0 .. MaxRows]
    BY <1>4, RowPrinted DEF BoardPrintsRow, TypesInv, TypeOK
  <2>2. Flow' = Append(Flow, row)
    <3> DEFINE before == (csv \o events) \o held
    <3>1. before \in Seq(Row) /\ port \in Seq(Row) /\ row \in Row
      BY <1>0, <2>1, ConcatProperties
    <3>2. Flow = before \o port /\ Flow' = before \o Append(port, row)
      BY <1>4 DEF BoardPrintsRow, Flow, Chain
    <3> HIDE DEF row, before
    <3> QED
      BY <3>1, <3>2, AppendedToBoth
  <2>3. ASSUME Flow # <<>>
        PROVE  Follows(LastRow(Flow), row, ~failed)
    <3>1. LastRow(Flow) \in Row /\ Printed(LastRow(Flow))
      BY <2>3, RowsOfFlow DEF LastRow, FlowInv
    <3>2. ~failed => Continues(LastRow(Flow))
      BY <2>3 DEF FlowInv
    <3>3. board.measurement \in Nat /\ board.rows \in Nat
      BY RowsOfFlow
    <3> QED
      BY <3>1, <3>2, <3>3, RowFields DEF Follows, Earlier, Continues, Printed
  <2>4. InOrder(Flow', ~failed) /\ LastRow(Flow') = row
    <3> HIDE DEF row
    <3> QED
      BY <1>0, <2>1, <2>2, <2>3, OrderOfAppend DEF FlowInv
  <2>5. /\ board'.measurement = row.measurement /\ board'.rows = row.number
        /\ board'.measurement = board.measurement /\ board'.rows = board.rows + 1
        /\ failed' = failed
    BY <1>4, <2>1 DEF BoardPrintsRow
  <2>6. ASSUME NEW n \in 1 .. Len(Flow')
        PROVE  \/ Flow'[n].measurement < board'.measurement
               \/ Flow'[n].measurement = board'.measurement /\ Flow'[n].number <= board'.rows
    <3>1. (n \in 1 .. Len(Flow) /\ Flow'[n] = Flow[n]) \/ Flow'[n] = row
      <4> HIDE DEF row
      <4>1. /\ Len(Flow) \in Nat /\ Len(Flow') = Len(Flow) + 1 /\ Flow'[Len(Flow) + 1] = row
            /\ \A m \in 1 .. Len(Flow) : Flow'[m] = Flow[m]
        BY <1>0, <2>1, <2>2, AppendProperties, LenProperties
      <4>2. n \in 1 .. Len(Flow) \/ n = Len(Flow) + 1
        BY <4>1, <2>6
      <4> QED
        BY <4>1, <4>2
    <3>2. CASE Flow'[n] = row
      BY <2>1, <2>5, <3>2, RowsOfFlow
    <3>3. CASE n \in 1 .. Len(Flow) /\ Flow'[n] = Flow[n]
      <4>1. Printed(Flow[n]) /\ Flow[n] \in Row
        BY <3>3, RowsOfFlow DEF FlowInv
      <4> QED
        BY <2>5, <3>3, <4>1, RowFields, RowsOfFlow DEF Printed
    <3> QED
      BY <3>1, <3>2, <3>3
  <2> QED
    BY <2>4, <2>5, <2>6 DEF FlowInv, Continues, Printed
<1>5. CASE csv' = <<>> /\ UNCHANGED <<board, port, held, events, failed>>
  <2>1. Flow' = OnTheWay
    BY <1>0, <1>5, ConcatEmptySeq DEF Flow, OnTheWay
  <2>2. /\ InOrder(OnTheWay, ~failed)
        /\ OnTheWay # <<>> => Flow # <<>> /\ LastRow(Flow) = LastRow(OnTheWay)
        /\ \A n \in 1 .. Len(OnTheWay) : \E m \in 1 .. Len(Flow) : OnTheWay[n] = Flow[m]
    BY <1>0, OrderOfParts DEF FlowInv
  <2> QED
    BY <1>5, <2>1, <2>2 DEF FlowInv, Continues, Printed
<1>6. CASE connect_serial_port
  <2>1. UNCHANGED <<board, held, events, csv, failed>>
    BY <1>6 DEF connect_serial_port
  <2>2. CASE port' = port
    BY <1>1, <2>1, <2>2
  <2>3. CASE port' = <<>> /\ ~reading
    <3>1. CASE ~failed
      <4>1. port = <<>>
        BY <1>6, <2>3, <3>1 DEF connect_serial_port, Idle, QuietInv
      <4> QED
        BY <2>2, <2>3, <4>1
    <3>2. CASE failed
      <4> DEFINE before == (csv \o events) \o held
      <4>1. before \in Seq(Row) /\ Flow = before \o port
        BY <1>0, ConcatProperties DEF Flow, Chain
      <4>2. Flow' = before
        <5>1. Flow' = before \o <<>>
          BY <2>1, <2>3 DEF Flow, Chain
        <5> HIDE DEF before
        <5> QED
          BY <4>1, <5>1, ConcatEmptySeq
      <4> HIDE DEF before
      <4>3. /\ InOrder(before, ~failed)
            /\ \A n \in 1 .. Len(before) : \E m \in 1 .. Len(Flow) : before[n] = Flow[m]
        BY <1>0, <4>1, OrderOfParts DEF FlowInv
      <4> QED
        BY <2>1, <3>2, <4>2, <4>3 DEF FlowInv, Printed
    <3> QED
      BY <1>0, <3>1, <3>2
  <2>4. port' = port \/ (port' = <<>> /\ ~reading)
    <3>1. OpenPort \/ port' = port
      BY <1>6 DEF connect_serial_port
    <3>2. ASSUME OpenPort, port' # port
          PROVE  port' = <<>> /\ sending' = "board"
      BY <3>2 DEF OpenPort
    <3>3. ASSUME OpenPort, reading PROVE sending' # "board"
      BY <3>3 DEF OpenPort
    <3> QED
      BY <3>1, <3>2, <3>3
  <2> QED
    BY <2>2, <2>3, <2>4
<1>7. CASE ReaderFails
  <2>1. Flow' = Flow /\ board' = board /\ (failed' = failed \/ failed' = TRUE)
    BY <1>7 DEF ReaderFails, Flow
  <2>2. InOrder(Flow, ~failed')
    BY <1>0, <2>1 DEF FlowInv, InOrder, Follows
  <2> QED
    BY <2>1, <2>2 DEF FlowInv, Continues, Printed
<1> QED
  BY <1>1, <1>2, <1>3, <1>4, <1>5, <1>6, <1>7
     DEF Next, Board, Reader, ReaderEnds, start_measurement, PressStart, Cancel,
         StartRefused, SendAndClear, CloseMessage, Close, closeEvent, Joined

\* The file (write_to_csv) is in the order the board printed and, unless a read from the port
\* has failed, without a gap within a measurement, whenever start_measurement clears it and
\* whatever is then on its way.
THEOREM RowsStayInOrder == Spec => []RowsInOrder
<1> DEFINE Inv == TypesInv /\ ThreadInv /\ QuietInv /\ StartsInv /\ FlowInv
<1>1. Init => Inv
  <2> SUFFICES ASSUME Init PROVE ThreadInv /\ QuietInv /\ StartsInv /\ FlowInv
    BY TypesInvInit
  <2>1. Flow = <<>> /\ Len(<<>>) = 0
    BY ConcatEmptySeq, EmptySeq DEF Init, Flow, Chain
  <2>2. ThreadInv /\ QuietInv /\ StartsInv
    BY DEF Init, ThreadInv, QuietInv, StartsInv
  <2> QED
    BY <2>1, <2>2 DEF FlowInv, InOrder
<1>2. Inv /\ [Next]_vars => Inv'
  BY TypesInvStep, ThreadInvStep, QuietInvStep, StartsInvStep, FlowInvStep
<1>3. Inv => RowsInOrder
  <2> SUFFICES ASSUME TypesInv, FlowInv PROVE RowsInOrder
    OBVIOUS
  <2>1. InOrder(csv, ~failed)
    BY FlowParts, OrderOfParts DEF FlowInv
  <2> QED
    BY <2>1 DEF InOrder, Follows, RowsInOrder
<1> QED
  BY <1>1, <1>2, <1>3, PTL DEF Spec
=============================================================================
