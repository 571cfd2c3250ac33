--------------------------- MODULE ConsoleProofs ---------------------------
(***************************************************************************)
(* Proofs about Console, for any requests, any loss of characters and      *)
(* whatever older lines have left in the line buffer: the strip count fits *)
(* the strips, the index of the line buffer is bounded by the ends of      *)
(* lines that are lost, a line of the GUI is read back and, if it comes    *)
(* whole, taken as it was sent; as long as the line buffer has room every  *)
(* variable keeps its type.                                                *)
(***************************************************************************)
EXTENDS ConsoleTextProofs

\* No line, whole or garbled, leaves a strip count (updateParameters) that is not the
\* number of the strips that are on, unless none is on.
THEOREM CountStaysFit == Spec => []CountFitsStrips
<1>1. Init => CountFitsStrips
  BY DEF Init, CountFitsStrips
<1>2. CountFitsStrips /\ [Next]_vars => CountFitsStrips'
  <2> SUFFICES ASSUME CountFitsStrips, [Next]_vars PROVE CountFitsStrips'
    OBVIOUS
  <2> USE DEF CountFitsStrips, vars, param_vars, line_vars, timer_vars, uart_vars
  <2>1. CASE updateParameters
    <3>1. CASE Found = Fields + 1
      BY <2>1, <3>1 DEF updateParameters, Count
    <3>2. CASE Found # Fields + 1
      BY <2>1, <3>2 DEF updateParameters
    <3> QED
      BY <3>1, <3>2
  <2>2. CASE ReadChar
    BY <2>2 DEF ReadChar
  <2>3. CASE ReadError \/ InitializeAllPeripherals
    BY <2>3 DEF ReadError, InitializeAllPeripherals
  <2>4. CASE UNCHANGED <<pc, param_vars>>
    BY <2>4
  <2> QED
    BY <2>1, <2>2, <2>3, <2>4
       DEF Next, Main, SendParameters, Deliver, TickPrints, RowsPrinted
<1> QED
  BY <1>1, <1>2, PTL DEF Spec

-----------------------------------------------------------------------------
(* What has come, in the order in which it was sent.                       *)

TextOf(n)   == Text[sent[n]]
Ends(place) == place.at = Len(TextOf(place.line))

Follows(place, next) ==
  IF Ends(place) THEN next.line = place.line + 1 /\ next.at = 1
                 ELSE next.line = place.line /\ next.at = place.at + 1

Before(place, later) ==
  place.line < later.line \/ (place.line = later.line /\ place.at < later.at)

IsPlace(place) == place.line \in 1 .. Len(sent) /\ place.at \in 1 .. Len(TextOf(place.line))

\* The first place that has not come yet.
Coming == IF wire = <<>> THEN [line |-> Len(sent) + 1, at |-> 1] ELSE Head(wire)

\* The places in the FIFO, and the one that comes next.
Received(j) == IF j <= Len(fifo) THEN fifo[j] ELSE Coming

Place == [line : Nat, at : Nat]

KindInv ==
  /\ sent \in Seq(Requests) /\ wire \in Seq(Place) /\ fifo \in Seq(Place)
  /\ index \in Nat /\ buffer \in [0 .. BufferSize - 1 -> Chars]
  /\ pc \in {"read", "line", "init", "returned"} /\ overrun \in BOOLEAN

\* The wire holds the rest of what has been sent.
WireInv ==
  /\ \A i \in 1 .. Len(wire) : IsPlace(wire[i])
  /\ \A i \in 1 .. Len(wire) - 1 : Follows(wire[i], wire[i + 1])
  /\ wire # <<>> => wire[Len(wire)].line = Len(sent) /\ Ends(wire[Len(wire)])

OrderInv ==
  /\ ended \in 0 .. Len(sent) /\ (pc = "line" => ended > 0)
  /\ \A j \in 1 .. Len(fifo) : IsPlace(fifo[j])
  /\ \A j \in 1 .. Len(fifo) + 1 : ended < Received(j).line
  /\ \A i \in 1 .. Len(fifo), j \in 1 .. Len(fifo) + 1 : i < j => Before(fifo[i], Received(j))

-----------------------------------------------------------------------------
(* The index of the line buffer.                                           *)

EndsIn(losses, from, to) ==
  Cardinality({n \in from + 1 .. to : [line |-> n, end |-> TRUE] \in losses})

\* Characters that may have been stored since the end of a line has been read.
Room(losses, from, line, at) == LongestLine * EndsIn(losses, from, line - 1) + (at - 1)

\* Whatever has been lost, GETCHAR fails once for it.
Failing(j) == IF j = Len(fifo) + 1 /\ overrun THEN 1 ELSE 0

\* What the end of a line leaves in the buffer; 0 stands for the one read last.
Kept(m) == IF m = 0 /\ pc = "read" THEN index ELSE 0
From(m) == IF m = 0 THEN ended ELSE fifo[m].line

\* No line has ended between what m stands for and the character at j.
Since(m, j) ==
  m < j /\ (m = 0 \/ Ends(fifo[m])) /\ \A k \in m + 1 .. j - 1 : ~Ends(fifo[k])

RoomAt(m, j) ==
  Kept(m) + (j - 1 - m) + Failing(j) <= Room(lost, From(m), Received(j).line, Received(j).at)

RoomInv == \A m \in 0 .. Len(fifo), j \in 1 .. Len(fifo) + 1 : Since(m, j) => RoomAt(m, j)

-----------------------------------------------------------------------------
(* A line that comes whole.                                                *)

Holds(n, k) == index = k /\ \A i \in 1 .. k : buffer[i - 1] = TextOf(n)[i]

\* What is in the FIFO or next to come of such a line has come in order, and what
\* main() has read of it is what the line buffer holds.
WholeAt(j) ==
  Whole(Received(j).line) =>
    /\ Failing(j) = 0
    /\ j = 1 => IF pc = "read" THEN Holds(Received(j).line, Received(j).at - 1)
                               ELSE Received(j).at = 1
    /\ j > 1 => Follows(fifo[j - 1], Received(j))

WholeInv == \A j \in 1 .. Len(fifo) + 1 : WholeAt(j)

TakenInv ==
  /\ pc = "line" /\ Whole(ended) => Holds(ended, Len(TextOf(ended)))
  /\ pc # "line" /\ ended > 0 /\ Whole(ended) =>
       /\ params = sent[ended].fields
       /\ active_strips = sent[ended].strips
       /\ g_strip_count = Cardinality(active_strips)
       /\ pc = "returned" => ~PlateAccepts(params)

-----------------------------------------------------------------------------
(* The lines and the places in them.                                      *)

\* A line that the GUI has sent ends with its only newline.
LEMMA TextFacts ==
  ASSUME TextsAreLines, KindInv, NEW n \in 1 .. Len(sent)
  PROVE  /\ sent[n] \in Requests /\ TextOf(n) = Text[sent[n]] /\ TextOf(n) \in Seq(Chars)
         /\ Len(TextOf(n)) \in Nat \ {0} /\ Len(TextOf(n)) <= LongestLine
         /\ \A k \in 1 .. Len(TextOf(n)) : TextOf(n)[k] = Newline <=> k = Len(TextOf(n))
<1>1. sent[n] \in Requests
  BY DEF KindInv
<1> QED
  BY <1>1 DEF TextsAreLines, TextOf

\* What comes next, is it on the wire or not even sent.
LEMMA ComingFacts ==
  ASSUME TextsAreLines, KindInv, WireInv
  PROVE  /\ Coming \in Place
         /\ wire # <<>> => Coming = wire[1] /\ IsPlace(Coming)
         /\ wire = <<>> => Coming.line = Len(sent) + 1 /\ Coming.at = 1
         /\ Coming.line \in 1 .. Len(sent) + 1 /\ Coming.at \in Nat \ {0}
         /\ Coming.line <= Len(sent) => IsPlace(Coming)
<1>1. CASE wire = <<>>
  <2>1. Coming = [line |-> Len(sent) + 1, at |-> 1] /\ Len(sent) \in Nat
    BY <1>1 DEF Coming, KindInv
  <2> QED
    BY <1>1, <2>1 DEF Place
<1>2. CASE wire # <<>>
  <2>1. Coming = wire[1] /\ 1 \in 1 .. Len(wire) /\ wire[1] \in Place
    BY <1>2 DEF Coming, KindInv
  <2>2. IsPlace(Coming)
    BY <2>1 DEF WireInv
  <2> QED
    BY <1>2, <2>1, <2>2 DEF IsPlace, KindInv
<1> QED
  BY <1>1, <1>2

\* A character comes off the wire: the one after it is the next to come.
LEMMA WireMovesOn ==
  ASSUME TextsAreLines, KindInv, WireInv, wire # <<>>, wire' = Tail(wire), sent' = sent
  PROVE  WireInv' /\ wire' \in Seq(Place) /\ Follows(Coming, Coming')
<1>1. /\ Len(wire) \in Nat \ {0} /\ Len(wire') = Len(wire) - 1 /\ wire' \in Seq(Place)
      /\ \A i \in 1 .. Len(wire) - 1 : wire'[i] = wire[i + 1]
      /\ Coming = wire[1]
  BY ComingFacts DEF KindInv
<1>2. \A place : (IsPlace(place) <=> IsPlace(place)') /\ (Ends(place) <=> Ends(place)')
  BY DEF IsPlace, Ends, TextOf
<1>3. WireInv'
  <2>1. \A i \in 1 .. Len(wire') : IsPlace(wire'[i])
    BY <1>1 DEF WireInv
  <2>2. \A i \in 1 .. Len(wire') - 1 : Follows(wire'[i], wire'[i + 1])
    <3> SUFFICES ASSUME NEW i \in 1 .. Len(wire') - 1 PROVE Follows(wire'[i], wire'[i + 1])
      OBVIOUS
    <3>1. /\ i + 1 \in 1 .. Len(wire) - 1 /\ i \in 1 .. Len(wire) - 1
          /\ wire'[i] = wire[i + 1] /\ wire'[i + 1] = wire[(i + 1) + 1]
      BY <1>1
    <3> QED
      BY <3>1 DEF WireInv
  <2>3. ASSUME wire' # <<>>
        PROVE  wire'[Len(wire')].line = Len(sent) /\ Ends(wire'[Len(wire')])
    <3>1. Len(wire') >= 1
      BY <1>1, <2>3
    <3>2. wire'[Len(wire')] = wire[Len(wire)]
      BY <1>1, <3>1
    <3> QED
      BY <3>2 DEF WireInv
  <2> QED
    BY <2>1, <2>2, <2>3 DEF WireInv, Follows, Ends, IsPlace, TextOf
<1>4. Follows(Coming, Coming')
  <2>1. CASE Len(wire) = 1
    <3>1. wire' = <<>> /\ Coming' = [line |-> Len(sent) + 1, at |-> 1]
      BY <1>1, <2>1 DEF Coming
    <3>2. Coming.line = Len(sent) /\ Ends(Coming)
      BY <1>1, <2>1 DEF WireInv
    <3> QED
      BY <3>1, <3>2 DEF Follows
  <2>2. CASE Len(wire) # 1
    <3>1. wire' # <<>> /\ Coming' = wire[2]
      BY <1>1, <2>2 DEF Coming
    <3>2. 1 \in 1 .. Len(wire) - 1 /\ 1 + 1 = 2
      BY <1>1, <2>2
    <3>3. Follows(wire[1], wire[1 + 1])
      BY <3>2 DEF WireInv
    <3> QED
      BY <1>1, <3>1, <3>2, <3>3
  <2> QED
    BY <2>1, <2>2
<1> QED
  BY <1>1, <1>3, <1>4

\* The lines that have been sent stay what they are.
LEMMA SentStays ==
  ASSUME KindInv, NEW request \in Requests, sent' = Append(sent, request)
  PROVE  /\ sent' \in Seq(Requests) /\ Len(sent) \in Nat /\ Len(sent') = Len(sent) + 1
         /\ \A n \in 1 .. Len(sent) : sent'[n] = sent[n]
         /\ sent'[Len(sent) + 1] = request
         /\ \A n \in 1 .. Len(sent) : TextOf(n)' = TextOf(n)
         /\ \A place : IsPlace(place) => IsPlace(place)' /\ (Ends(place)' <=> Ends(place))
<1>1. /\ sent' \in Seq(Requests) /\ Len(sent) \in Nat /\ Len(sent') = Len(sent) + 1
      /\ \A n \in 1 .. Len(sent) : sent'[n] = sent[n]
      /\ sent'[Len(sent) + 1] = request
  BY DEF KindInv
<1>2. \A n \in 1 .. Len(sent) : TextOf(n)' = TextOf(n)
  BY <1>1 DEF TextOf
<1>3. ASSUME NEW place, IsPlace(place) PROVE IsPlace(place)' /\ (Ends(place)' <=> Ends(place))
  <2>1. place.line \in 1 .. Len(sent) /\ place.line \in 1 .. Len(sent')
    BY <1>1, <1>3 DEF IsPlace
  <2>2. PICK n \in 1 .. Len(sent) : n = place.line
    BY <2>1
  <2>3. TextOf(n)' = TextOf(n)
    BY <1>2
  <2> QED
    BY <1>3, <2>1, <2>2, <2>3 DEF IsPlace, Ends
<1> QED
  BY <1>1, <1>2, <1>3

\* send_parameters puts a line behind all that is still to come.
LEMMA WireGrows ==
  ASSUME TextsAreLines, KindInv, WireInv, SendParameters
  PROVE  WireInv' /\ wire' \in Seq(Place) /\ Coming' = Coming
<1>1. PICK request \in Requests :
        /\ sent' = Append(sent, request)
        /\ wire' = wire \o [n \in 1 .. Len(Text[request]) |->
                              [line |-> Len(sent) + 1, at |-> n]]
  BY DEF SendParameters
<1> DEFINE long == Len(Text[request])
           new  == [n \in 1 .. long |-> [line |-> Len(sent) + 1, at |-> n]]
<1>0. PICK old \in Nat : old = Len(wire)
  BY DEF KindInv
<1>2. long \in Nat \ {0} /\ old \in Nat /\ Len(sent) \in Nat
  BY DEF TextsAreLines, KindInv
<1> HIDE DEF long
<1>3. new \in Seq(Place) /\ Len(new) = long
  BY <1>2 DEF Place
<1>4. /\ \A n \in 1 .. long : new[n].line = Len(sent) + 1 /\ new[n].at = n
      /\ new[1] = [line |-> Len(sent) + 1, at |-> 1]
  BY <1>2
<1>5. wire' = wire \o new
  BY <1>1 DEF long
<1> HIDE DEF new
<1>6. /\ wire' \in Seq(Place) /\ Len(wire') = old + long
      /\ \A i \in 1 .. old : wire'[i] = wire[i]
      /\ \A n \in 1 .. long : wire'[old + n] = new[n]
  <2>1. wire \in Seq(Place)
    BY DEF KindInv
  <2>2. /\ wire \o new \in Seq(Place) /\ Len(wire \o new) = Len(wire) + Len(new)
        /\ \A i \in 1 .. Len(wire) + Len(new) :
             (wire \o new)[i] = IF i <= Len(wire) THEN wire[i] ELSE new[i - Len(wire)]
    BY <1>3, <2>1, ConcatProperties, Zenon
  <2>3. \A i \in 1 .. old + long :
             wire'[i] = IF i <= old THEN wire[i] ELSE new[i - old]
    BY <1>0, <1>3, <1>5, <2>2
  <2>4. \A i \in 1 .. old : i \in 1 .. old + long /\ i <= old
    BY <1>2
  <2>5. \A n \in 1 .. long : old + n \in 1 .. old + long /\ ~(old + n <= old)
                               /\ (old + n) - old = n
    BY <1>2
  <2>6. \A i \in 1 .. old : wire'[i] = wire[i]
    BY <2>3, <2>4
  <2>7. \A n \in 1 .. long : wire'[old + n] = new[n]
    BY <2>3, <2>5
  <2> QED
    BY <1>0, <1>3, <1>5, <2>2, <2>6, <2>7
<1>7. /\ Len(sent') = Len(sent) + 1
      /\ \A n : n = Len(sent) + 1 => TextOf(n)' = Text[request]
      /\ \A place : IsPlace(place) => IsPlace(place)' /\ (Ends(place)' <=> Ends(place))
  <2>1. /\ Len(sent') = Len(sent) + 1 /\ sent'[Len(sent) + 1] = request
        /\ \A place : IsPlace(place) => IsPlace(place)' /\ (Ends(place)' <=> Ends(place))
    BY <1>1, SentStays
  <2> QED
    BY <2>1 DEF TextOf
<1>8. ASSUME NEW n \in 1 .. long
      PROVE  /\ wire'[old + n].line = Len(sent) + 1 /\ wire'[old + n].at = n
             /\ IsPlace(wire[old + n])' /\ (Ends(wire[old + n])' <=> n = long)
  <2>1. wire'[old + n].line = Len(sent) + 1 /\ wire'[old + n].at = n
    BY <1>4, <1>6
  <2>2. PICK place : place = wire'[old + n]
    OBVIOUS
  <2>3. TextOf(place.line)' = Text[request]
    BY <1>7, <2>1, <2>2
  <2>4. IsPlace(place)' /\ (Ends(place)' <=> n = long)
    BY <1>2, <1>7, <2>1, <2>2, <2>3 DEF IsPlace, Ends, long
  <2> QED
    BY <2>1, <2>2, <2>4
<1>9. Coming' = Coming
  <2>1. CASE wire = <<>>
    <3>1. old = 0 /\ wire'[1] = new[1]
      BY <1>0, <1>2, <1>6, <2>1
    <3> QED
      BY <1>2, <1>4, <1>6, <2>1, <3>1 DEF Coming
  <2>2. CASE wire # <<>>
    <3>1. old > 0 /\ wire'[1] = wire[1] /\ wire' # <<>>
      BY <1>0, <1>2, <1>6, <2>2 DEF KindInv
    <3> QED
      BY <1>6, <2>2, <3>1 DEF Coming, KindInv
  <2> QED
    BY <2>1, <2>2
<1>10. WireInv'
  <2>1. ASSUME NEW i \in 1 .. old + long
        PROVE  IsPlace(wire[i])'
    <3>1. CASE i <= old
      <4>1. wire'[i] = wire[i] /\ IsPlace(wire[i])
        BY <1>0, <1>2, <1>6, <3>1 DEF WireInv
      <4> QED
        BY <1>7, <4>1
    <3>2. CASE ~(i <= old)
      <4>1. PICK n \in 1 .. long : i = old + n
        <5>1. i - old \in 1 .. long /\ i = old + (i - old)
          BY <1>2, <3>2
        <5> QED
          BY <5>1
      <4> QED
        BY <1>8, <4>1
    <3> QED
      BY <3>1, <3>2
  <2>2. ASSUME NEW i \in 1 .. (old + long) - 1
        PROVE  Follows(wire[i], wire[i + 1])'
    <3>1. CASE i < old
      <4>1. /\ wire'[i] = wire[i] /\ wire'[i + 1] = wire[i + 1] /\ IsPlace(wire[i])
            /\ Follows(wire[i], wire[i + 1])
        BY <1>0, <1>2, <1>6, <3>1 DEF WireInv
      <4> QED
        BY <1>7, <4>1 DEF Follows
    <3>2. CASE i = old
      <4>1. wire'[i] = wire[old] /\ wire[old].line = Len(sent) /\ Ends(wire[old])
            /\ IsPlace(wire[old])
        BY <1>0, <1>2, <1>6, <3>2 DEF WireInv
      <4>2. wire'[i + 1].line = Len(sent) + 1 /\ wire'[i + 1].at = 1
        BY <1>2, <1>8, <3>2
      <4> QED
        BY <1>7, <4>1, <4>2 DEF Follows
    <3>3. CASE i > old
      <4>1. PICK n \in 1 .. long - 1 : i = old + n
        <5>1. i - old \in 1 .. long - 1 /\ i = old + (i - old)
          BY <1>2, <3>3
        <5> QED
          BY <5>1
      <4>2. n \in 1 .. long /\ n + 1 \in 1 .. long /\ i + 1 = old + (n + 1) /\ n # long
        BY <1>2, <4>1
      <4>3. /\ wire'[i].line = Len(sent) + 1 /\ wire'[i].at = n /\ ~Ends(wire[i])'
            /\ wire'[i + 1].line = Len(sent) + 1 /\ wire'[i + 1].at = n + 1
        BY <1>8, <4>1, <4>2
      <4> QED
        BY <4>3 DEF Follows
    <3> QED
      BY <1>2, <3>1, <3>2, <3>3
  <2>3. wire'[old + long].line = Len(sent') /\ Ends(wire[old + long])'
    <3>1. long \in 1 .. long
      BY <1>2
    <3> QED
      BY <1>7, <1>8, <3>1
  <2> QED
    BY <1>6, <2>1, <2>2, <2>3 DEF WireInv
<1> QED
  BY <1>6, <1>9, <1>10

\* The same of every place in the FIFO, and of the one after them.
LEMMA ReceivedFacts ==
  ASSUME TextsAreLines, KindInv, WireInv, OrderInv, NEW j \in 1 .. Len(fifo) + 1
  PROVE  /\ Received(j) \in Place
         /\ Received(j).line \in 1 .. Len(sent) + 1 /\ Received(j).at \in Nat \ {0}
         /\ Received(j).line <= Len(sent) => IsPlace(Received(j))
         /\ Received(j).line = Len(sent) + 1 => Received(j).at = 1
<1>1. CASE j <= Len(fifo)
  <2>1. Received(j) = fifo[j] /\ j \in 1 .. Len(fifo) /\ Len(fifo) \in Nat
    BY <1>1 DEF Received, KindInv
  <2>2. IsPlace(fifo[j]) /\ fifo[j] \in Place
    BY <2>1 DEF OrderInv, KindInv
  <2> QED
    BY <2>1, <2>2 DEF IsPlace, KindInv
<1>2. CASE ~(j <= Len(fifo))
  <2>1. Received(j) = Coming
    BY <1>2 DEF Received
  <2>2. Coming.line = Len(sent) + 1 => Coming.at = 1
    BY ComingFacts DEF IsPlace, KindInv
  <2> QED
    BY <2>1, <2>2, ComingFacts
<1> QED
  BY <1>1, <1>2

\* Nothing of a line comes after its end.
LEMMA NothingAfterEnd ==
  ASSUME TextsAreLines, KindInv, WireInv, OrderInv, NEW j \in 1 .. Len(fifo) + 1,
         NEW place, IsPlace(place), Ends(place), Before(place, Received(j))
  PROVE  place.line < Received(j).line
<1> SUFFICES ASSUME Received(j).line = place.line, place.at < Received(j).at PROVE FALSE
  BY DEF Before
<1>1. IsPlace(Received(j))
  BY ReceivedFacts DEF IsPlace, KindInv
<1>2. /\ Received(j).at \in 1 .. Len(TextOf(place.line))
      /\ place.at = Len(TextOf(place.line)) /\ place.at \in Nat
  BY <1>1 DEF IsPlace, Ends
<1> QED
  BY <1>2

\* The place that follows another comes after it, and after all that come before.
LEMMA FollowsIsBefore ==
  ASSUME NEW place \in Place, NEW next \in Place, Follows(place, next)
  PROVE  /\ Before(place, next) /\ place.line <= next.line
         /\ \A earlier \in Place : Before(earlier, place) => Before(earlier, next)
<1>1. place.line \in Nat /\ next.line \in Nat /\ place.at \in Nat /\ next.at \in Nat
  BY DEF Place
<1>2. Before(place, next) /\ place.line <= next.line
  BY <1>1 DEF Follows, Before
<1>3. \A earlier \in Place : earlier.line \in Nat /\ earlier.at \in Nat
  BY DEF Place
<1> QED
  BY <1>1, <1>2, <1>3 DEF Before

\* main() sees the end of a line where it is.
LEMMA EndsIsNewline ==
  ASSUME TextsAreLines, KindInv, NEW place, IsPlace(place)
  PROVE  (Char(place) = Newline <=> Ends(place)) /\ Char(place) \in Chars
<1>1. place.line \in 1 .. Len(sent) /\ place.at \in 1 .. Len(TextOf(place.line))
  BY DEF IsPlace
<1>2. Char(place) = TextOf(place.line)[place.at]
  BY DEF Char, TextOf
<1> QED
  BY <1>1, <1>2, TextFacts DEF Ends

-----------------------------------------------------------------------------
(* What a step changes.                                                    *)

\* A character has room in the FIFO.
Accepted ==
  /\ wire # <<>> /\ ~overrun /\ overrun' = FALSE /\ fifo' = Append(fifo, Coming)
  /\ UNCHANGED <<sent, ended, lost, pc, index, buffer>>

\* It has none, or the overrun flag is still set.
Dropped ==
  /\ wire # <<>> /\ overrun' = TRUE
  /\ lost' = lost \cup {[line |-> Coming.line, end |-> Ends(Coming)]}
  /\ UNCHANGED <<sent, fifo, ended, pc, index, buffer>>

\* The UART takes a character or loses it.
LEMMA DeliverDoes ==
  ASSUME TextsAreLines, KindInv, WireInv, Deliver
  PROVE  /\ Accepted \/ Dropped
         /\ wire' = Tail(wire)
<1>1. wire # <<>> /\ wire' = Tail(wire) /\ UNCHANGED <<sent, ended, pc, index, buffer>>
  BY DEF Deliver, line_vars
<1>2. Head(wire) = Coming /\ IsPlace(Coming)
  BY <1>1, ComingFacts DEF Coming
<1>3. (Char(Coming) = Newline) = Ends(Coming)
  BY <1>2, EndsIsNewline DEF Ends
<1>4. CASE Len(fifo) < FifoDepth /\ ~overrun
  BY <1>1, <1>2, <1>4 DEF Deliver, Accepted, KindInv
<1>5. CASE ~(Len(fifo) < FifoDepth /\ ~overrun)
  <2>1. overrun' = TRUE /\ fifo' = fifo
        /\ lost' = lost \cup {[line |-> Coming.line, end |-> Char(Coming) = Newline]}
    BY <1>2, <1>5 DEF Deliver
  <2> QED
    BY <1>1, <1>3, <2>1 DEF Dropped
<1> QED
  BY <1>1, <1>4, <1>5

\* A character that has come is the last in the FIFO.
LEMMA FifoGrows ==
  ASSUME TextsAreLines, KindInv, WireInv, Accepted
  PROVE  /\ fifo' \in Seq(Place) /\ Len(fifo) \in Nat /\ Len(fifo') = Len(fifo) + 1
         /\ \A j \in 1 .. Len(fifo) : fifo'[j] = fifo[j]
         /\ fifo'[Len(fifo) + 1] = Coming
         /\ \A j \in 1 .. Len(fifo) + 1 : Received(j)' = Received(j)
         /\ \A j : j = Len(fifo) + 2 => Received(j)' = Coming'
<1>1. fifo \in Seq(Place) /\ Coming \in Place /\ fifo' = Append(fifo, Coming)
  BY ComingFacts DEF KindInv, Accepted
<1>2. /\ fifo' \in Seq(Place) /\ Len(fifo) \in Nat /\ Len(fifo') = Len(fifo) + 1
      /\ \A j \in 1 .. Len(fifo) : fifo'[j] = fifo[j]
      /\ fifo'[Len(fifo) + 1] = Coming
  BY <1>1
<1> QED
  BY <1>2 DEF Received

\* The characters behind the one that main() takes move up.
LEMMA FifoShrinks ==
  ASSUME TextsAreLines, KindInv, WireInv, fifo # <<>>, fifo' = Tail(fifo),
         UNCHANGED <<wire, sent>>
  PROVE  /\ fifo' \in Seq(Place) /\ Len(fifo) \in Nat \ {0} /\ Len(fifo') = Len(fifo) - 1
         /\ Head(fifo) = fifo[1] /\ fifo[1] = Received(1)
         /\ \A j \in 1 .. Len(fifo') : fifo'[j] = fifo[j + 1] /\ j + 1 \in 1 .. Len(fifo)
         /\ \A j \in 1 .. Len(fifo') + 1 :
              Received(j)' = Received(j + 1) /\ j + 1 \in 1 .. Len(fifo) + 1
<1>1. /\ fifo' \in Seq(Place) /\ Len(fifo) \in Nat \ {0} /\ Len(fifo') = Len(fifo) - 1
      /\ Head(fifo) = fifo[1]
      /\ \A j \in 1 .. Len(fifo) - 1 : fifo'[j] = fifo[j + 1]
  BY DEF KindInv
<1>2. Coming' = Coming
  BY DEF Coming
<1> QED
  BY <1>1, <1>2 DEF Received

\* A step that leaves the places alone.
LEMMA OrderStays ==
  ASSUME TextsAreLines, KindInv, WireInv, OrderInv, UNCHANGED <<fifo, ended, pc>>,
         Coming' = Coming,
         sent' = sent \/ \E request \in Requests : sent' = Append(sent, request)
  PROVE  OrderInv'
<1>1. /\ Len(sent) \in Nat /\ Len(sent') \in Nat /\ Len(sent) <= Len(sent')
      /\ \A place : IsPlace(place) => IsPlace(place)'
  BY SentStays DEF KindInv, IsPlace, TextOf
<1>2. \A j : Received(j)' = Received(j)
  BY DEF Received
<1>3. Len(fifo') = Len(fifo) /\ \A j \in 1 .. Len(fifo) : fifo'[j] = fifo[j]
  OBVIOUS
<1>4. ended' \in 0 .. Len(sent') /\ (pc' = "line" => ended' > 0)
  BY <1>1 DEF OrderInv
<1>5. \A j \in 1 .. Len(fifo') : IsPlace(fifo[j])'
  BY <1>1, <1>3 DEF OrderInv
<1> QED
  BY <1>2, <1>3, <1>4, <1>5 DEF OrderInv, Before

\* What comes, comes after all that is in the FIFO, and its line has not ended.
LEMMA OrderDeliver ==
  ASSUME TextsAreLines, KindInv, WireInv, OrderInv, Deliver
  PROVE  OrderInv'
<1>1. /\ wire # <<>> /\ UNCHANGED <<sent, ended, pc>> /\ wire' = Tail(wire)
  BY DEF Deliver, line_vars
<1>2. Follows(Coming, Coming') /\ WireInv' /\ wire' \in Seq(Place)
  BY <1>1, WireMovesOn
<1>3. PICK this \in Place, next \in Place :
        this = Coming /\ next = Coming' /\ IsPlace(this) /\ this.line \in Nat
  <2>1. Coming \in Place /\ IsPlace(Coming) /\ Coming.line \in Nat
    BY <1>1, ComingFacts DEF Place
  <2>2. Coming' \in Place
    <3>1. CASE wire' = <<>>
      BY <1>1, <3>1 DEF Coming, Place, KindInv
    <3>2. CASE wire' # <<>>
      BY <1>2, <3>2 DEF Coming
    <3> QED
      BY <3>1, <3>2
  <2> QED
    BY <2>1, <2>2
<1>4. /\ Before(this, next) /\ this.line <= next.line
      /\ \A earlier \in Place : Before(earlier, this) => Before(earlier, next)
  BY <1>2, <1>3, FollowsIsBefore DEF Follows, Ends
<1>5. \A place : IsPlace(place)' <=> IsPlace(place)
  BY <1>1 DEF IsPlace, TextOf
<1>6. PICK held \in Nat : held = Len(fifo)
  BY DEF KindInv
<1>7. /\ Received(held + 1) = this /\ ended < this.line
      /\ \A i \in 1 .. held : Before(fifo[i], this) /\ fifo[i] \in Place
  <2>1. Received(held + 1) = this
    BY <1>3, <1>6 DEF Received
  <2>2. held + 1 \in 1 .. Len(fifo) + 1 /\ \A i \in 1 .. held : i < held + 1
    BY <1>6
  <2> QED
    BY <1>6, <2>1, <2>2 DEF OrderInv, KindInv
<1>8. ended < next.line /\ ended \in Nat /\ next.line \in Nat
  <2>1. ended \in Nat /\ next.line \in Nat
    BY DEF OrderInv, Place
  <2> QED
    BY <1>3, <1>4, <1>7, <2>1
<1>9. CASE Accepted
  <2>1. /\ Len(fifo') = held + 1
        /\ \A j \in 1 .. held : fifo'[j] = fifo[j]
        /\ fifo'[held + 1] = this
        /\ \A j \in 1 .. held + 1 : Received(j)' = Received(j)
        /\ Received(held + 2)' = next
    BY <1>3, <1>6, <1>9, FifoGrows
  <2>2. ASSUME NEW j \in 1 .. held + 1 PROVE IsPlace(fifo'[j])
    BY <1>3, <1>6, <2>1 DEF OrderInv
  <2>3. ASSUME NEW j \in 1 .. held + 2 PROVE ended < Received(j)'.line
    BY <1>6, <1>8, <2>1 DEF OrderInv
  <2>4. ASSUME NEW i \in 1 .. held + 1, NEW j \in 1 .. held + 2, i < j
        PROVE  Before(fifo'[i], Received(j)')
    <3>1. CASE j = held + 2
      <4>1. i = held + 1 \/ i \in 1 .. held
        OBVIOUS
      <4> QED
        BY <1>4, <1>7, <2>1, <3>1, <4>1
    <3>2. CASE j # held + 2
      <4>1. j \in 1 .. held + 1 /\ i \in 1 .. held
        BY <2>4, <3>2
      <4> QED
        BY <1>6, <2>1, <2>4, <4>1 DEF OrderInv
    <3> QED
      BY <3>1, <3>2
  <2>5. \A j \in 1 .. Len(fifo') : IsPlace(fifo[j])'
    BY <1>5, <2>1, <2>2
  <2>6. held + 1 + 1 = held + 2
    OBVIOUS
  <2>7. ended' \in 0 .. Len(sent') /\ (pc' = "line" => ended' > 0)
    BY <1>1 DEF OrderInv
  <2> QED
    BY <1>1, <2>1, <2>3, <2>4, <2>5, <2>6, <2>7 DEF OrderInv, Before
<1>10. CASE Dropped
  <2>1. /\ fifo' = fifo /\ Received(held + 1)' = next
        /\ \A j \in 1 .. held : Received(j)' = Received(j) /\ Received(j) = fifo[j]
    BY <1>3, <1>6, <1>10 DEF Dropped, Received
  <2>2. ASSUME NEW j \in 1 .. held + 1 PROVE ended < Received(j)'.line
    BY <1>6, <1>8, <2>1 DEF OrderInv
  <2>3. ASSUME NEW i \in 1 .. held, NEW j \in 1 .. held + 1, i < j
        PROVE  Before(fifo'[i], Received(j)')
    <3>1. CASE j = held + 1
      BY <1>4, <1>7, <2>1, <3>1
    <3>2. CASE j # held + 1
      BY <1>6, <2>1, <2>3, <3>2 DEF OrderInv
    <3> QED
      BY <3>1, <3>2
  <2>4. \A j \in 1 .. Len(fifo') : IsPlace(fifo[j])'
    BY <1>5, <2>1 DEF OrderInv
  <2>5. ended' \in 0 .. Len(sent') /\ (pc' = "line" => ended' > 0)
    BY <1>1 DEF OrderInv
  <2> QED
    BY <1>1, <1>6, <2>1, <2>2, <2>3, <2>4, <2>5 DEF OrderInv, Before
<1> QED
  BY <1>9, <1>10, DeliverDoes

\* main() takes a character from the FIFO; with the end of a line it goes on to
\* the next line.
LEMMA ReadDoes ==
  ASSUME TextsAreLines, KindInv, WireInv, OrderInv, ReadChar
  PROVE  /\ pc = "read" /\ fifo # <<>> /\ fifo' = Tail(fifo)
         /\ UNCHANGED <<wire, sent, overrun, lost, params, active_strips, g_strip_count>>
         /\ fifo[1] \in Place /\ IsPlace(fifo[1])
         /\ index' = index + 1 /\ buffer' = [buffer EXCEPT ![index] = Char(fifo[1])]
         /\ Char(fifo[1]) \in Chars
         /\ Ends(fifo[1]) => pc' = "line" /\ ended' = fifo[1].line
         /\ ~Ends(fifo[1]) => pc' = "read" /\ ended' = ended
<1>1. /\ pc = "read" /\ fifo # <<>> /\ fifo' = Tail(fifo)
      /\ UNCHANGED <<wire, sent, overrun, lost, params, active_strips, g_strip_count>>
  BY DEF ReadChar, param_vars
<1>2. Head(fifo) = fifo[1] /\ 1 \in 1 .. Len(fifo) /\ fifo[1] \in Place
  BY <1>1 DEF KindInv
<1>3. IsPlace(fifo[1])
  BY <1>2 DEF OrderInv
<1>4. (Char(fifo[1]) = Newline <=> Ends(fifo[1])) /\ Char(fifo[1]) \in Chars
  BY <1>3, EndsIsNewline
<1>5. index' = index + 1 /\ buffer' = [buffer EXCEPT ![index] = Char(fifo[1])]
  BY <1>2 DEF ReadChar, Store
<1>6. /\ Ends(fifo[1]) => pc' = "line" /\ ended' = fifo[1].line
      /\ ~Ends(fifo[1]) => pc' = pc /\ ended' = ended
  BY <1>2, <1>4 DEF ReadChar, EndsLine
<1> QED
  BY <1>1, <1>2, <1>3, <1>4, <1>5, <1>6

\* What main() has not read belongs to a line after the one that has ended.
LEMMA OrderRead ==
  ASSUME TextsAreLines, KindInv, WireInv, OrderInv, ReadChar
  PROVE  OrderInv'
<1>1. /\ pc = "read" /\ fifo # <<>> /\ fifo' = Tail(fifo) /\ UNCHANGED <<wire, sent>>
      /\ fifo[1] \in Place /\ IsPlace(fifo[1])
      /\ Ends(fifo[1]) => ended' = fifo[1].line
      /\ ~Ends(fifo[1]) => pc' = "read" /\ ended' = ended
  BY ReadDoes
<1>2. /\ Len(fifo) \in Nat \ {0} /\ Len(fifo') = Len(fifo) - 1
      /\ \A j \in 1 .. Len(fifo') : fifo'[j] = fifo[j + 1] /\ j + 1 \in 1 .. Len(fifo)
      /\ \A j \in 1 .. Len(fifo') + 1 :
           Received(j)' = Received(j + 1) /\ j + 1 \in 1 .. Len(fifo) + 1
  BY <1>1, FifoShrinks
<1>3. \A place : IsPlace(place)' <=> IsPlace(place)
  BY <1>1 DEF IsPlace, TextOf
<1>4. \A j \in 1 .. Len(fifo') : IsPlace(fifo[j])'
  BY <1>2, <1>3 DEF OrderInv
<1>5. \A j \in 1 .. Len(fifo') + 1 : ended' < Received(j)'.line
  <2> SUFFICES ASSUME NEW j \in 1 .. Len(fifo') + 1 PROVE ended' < Received(j + 1).line
    BY <1>2
  <2>1. j + 1 \in 1 .. Len(fifo) + 1 /\ 1 < j + 1 /\ 1 \in 1 .. Len(fifo)
    BY <1>2
  <2>2. ended < Received(j + 1).line
    BY <2>1 DEF OrderInv
  <2>3. CASE Ends(fifo[1])
    <3>1. Before(fifo[1], Received(j + 1))
      BY <2>1 DEF OrderInv
    <3> QED
      BY <1>1, <2>1, <2>3, <3>1, NothingAfterEnd
  <2> QED
    BY <1>1, <2>2, <2>3
<1>6. ASSUME NEW i \in 1 .. Len(fifo'), NEW j \in 1 .. Len(fifo') + 1, i < j
      PROVE  Before(fifo'[i], Received(j)')
  <2>1. /\ i + 1 \in 1 .. Len(fifo) /\ j + 1 \in 1 .. Len(fifo) + 1 /\ i + 1 < j + 1
        /\ fifo'[i] = fifo[i + 1] /\ Received(j)' = Received(j + 1)
    BY <1>2, <1>6
  <2> QED
    BY <2>1 DEF OrderInv
<1>7. ended' \in 0 .. Len(sent') /\ (pc' = "line" => ended' > 0)
  <2>1. fifo[1].line \in 1 .. Len(sent) /\ Len(sent) \in Nat
    BY <1>1 DEF IsPlace, KindInv
  <2> QED
    BY <1>1, <2>1 DEF OrderInv
<1> QED
  BY <1>4, <1>5, <1>6, <1>7 DEF OrderInv, Before

\* updateParameters, InitializeAllPeripherals and the two halves of a round leave
\* the console's line alone.
LEMMA BusyDoes ==
  ASSUME updateParameters \/ InitializeAllPeripherals
  PROVE  /\ UNCHANGED <<sent, wire, fifo, overrun, lost, ended>> /\ pc \in {"line", "init"}
         /\ pc' \in {"read", "init", "returned"} /\ (pc' = "read" => index' = 0)
         /\ index' \in {index, 0}
BY DEF updateParameters, InitializeAllPeripherals, NextLine, uart_vars

\* Characters come in the order in which they were sent, with gaps only where some
\* were lost.
PlaceInv == KindInv /\ WireInv /\ OrderInv

\* Every step keeps the kind of value each variable has.
LEMMA KindInvStep ==
  ASSUME TextsAreLines, PlaceInv, [Next]_vars
  PROVE  KindInv'
<1> USE DEF vars, uart_vars, line_vars, param_vars, timer_vars
<1>0. KindInv /\ WireInv /\ OrderInv
  BY DEF PlaceInv
<1>7. \A i \in Nat, char \in Chars :
        [buffer EXCEPT ![i] = char] \in [0 .. BufferSize - 1 -> Chars]
  BY <1>0 DEF KindInv
<1>1. CASE SendParameters
  <2>1. PICK request \in Requests : sent' = Append(sent, request)
    BY <1>1 DEF SendParameters
  <2>2. wire' \in Seq(Place)
    BY <1>0, <1>1, WireGrows
  <2> QED
    BY <1>0, <1>1, <2>1, <2>2 DEF SendParameters, KindInv
<1>2. CASE Deliver
  <2>1. /\ wire # <<>> /\ wire' = Tail(wire)
        /\ UNCHANGED <<sent, index, buffer, pc>>
    BY <1>2 DEF Deliver
  <2>2. wire' \in Seq(Place)
    BY <1>0, <2>1, WireMovesOn
  <2>3. fifo' \in Seq(Place) /\ overrun' \in BOOLEAN
    <3>1. CASE Accepted
      BY <1>0, <3>1, FifoGrows DEF Accepted, KindInv
    <3>2. CASE Dropped
      BY <1>0, <3>2, <1>2 DEF Dropped, Deliver, KindInv
    <3> QED
      BY <1>0, <1>2, <3>1, <3>2, DeliverDoes
  <2> QED
    BY <1>0, <2>1, <2>2, <2>3 DEF KindInv
<1>3. CASE ReadChar
  <2>1. /\ pc' \in {"read", "line"} /\ UNCHANGED <<sent, wire, overrun>> /\ index' = index + 1
        /\ fifo # <<>> /\ fifo' = Tail(fifo)
        /\ buffer' = [buffer EXCEPT ![index] = Char(fifo[1])] /\ Char(fifo[1]) \in Chars
    BY <1>0, <1>3, ReadDoes
  <2>2. fifo' \in Seq(Place)
    BY <1>0, <2>1, FifoShrinks
  <2>3. buffer' \in [0 .. BufferSize - 1 -> Chars] /\ index' \in Nat
    BY <1>0, <1>7, <2>1 DEF KindInv
  <2> QED
    BY <1>0, <2>1, <2>2, <2>3 DEF KindInv
<1>4. CASE ReadError
  <2>1. /\ pc' = pc /\ UNCHANGED <<sent, wire, fifo>> /\ index' = index + 1 /\ overrun' = FALSE
        /\ buffer' = [buffer EXCEPT ![index] = Junk]
    BY <1>4 DEF ReadError, Store
  <2>2. Junk \in Chars
    BY DEF Chars
  <2>3. buffer' \in [0 .. BufferSize - 1 -> Chars] /\ index' \in Nat
    BY <1>0, <1>7, <2>1, <2>2 DEF KindInv
  <2> QED
    BY <1>0, <2>1, <2>3 DEF KindInv
<1>5. CASE updateParameters \/ InitializeAllPeripherals
  <2>1. /\ UNCHANGED <<sent, wire, fifo, overrun>>
        /\ pc' \in {"read", "init", "returned"} /\ index' \in {index, 0}
    BY <1>5, BusyDoes
  <2>2. Nul \in Chars /\ 0 \in Nat /\ index \in Nat
    BY <1>0 DEF Chars, KindInv
  <2>3. Line \in [0 .. BufferSize - 1 -> Chars]
    BY <1>7, <2>2 DEF Line
  <2>4. Cut \in [0 .. BufferSize - 1 -> Chars]
    BY <2>2, <2>3 DEF Cut
  <2>5. \A text \in [0 .. BufferSize - 1 -> Chars] :
          [text EXCEPT ![0] = Nul] \in [0 .. BufferSize - 1 -> Chars]
    BY <2>2
  <2>6. buffer' \in {Cut, buffer, [Cut EXCEPT ![0] = Nul], [buffer EXCEPT ![0] = Nul]}
    BY <1>5 DEF updateParameters, InitializeAllPeripherals, NextLine
  <2>7. buffer' \in [0 .. BufferSize - 1 -> Chars]
    BY <1>0, <2>4, <2>5, <2>6 DEF KindInv
  <2> QED
    BY <1>0, <2>1, <2>7 DEF KindInv
<1>6. CASE TickPrints \/ RowsPrinted \/ UNCHANGED vars
  BY <1>0, <1>6 DEF TickPrints, RowsPrinted, KindInv
<1> QED
  BY <1>1, <1>2, <1>3, <1>4, <1>5, <1>6 DEF Next, Main

\* No step, of the GUI, the UART or main(), brings characters out of order.
LEMMA PlaceInvStep ==
  ASSUME TextsAreLines, PlaceInv, [Next]_vars
  PROVE  PlaceInv'
<1> USE DEF vars, uart_vars, line_vars, param_vars, timer_vars
<1>0. KindInv /\ WireInv /\ OrderInv /\ KindInv'
  BY KindInvStep DEF PlaceInv
<1>1. CASE SendParameters
  <2>1. /\ \E request \in Requests : sent' = Append(sent, request)
        /\ UNCHANGED <<fifo, ended, pc>>
    BY <1>1 DEF SendParameters
  <2>2. WireInv' /\ Coming' = Coming
    BY <1>0, <1>1, WireGrows
  <2> QED
    BY <1>0, <2>1, <2>2, OrderStays DEF PlaceInv
<1>2. CASE Deliver
  <2>1. wire # <<>> /\ wire' = Tail(wire) /\ sent' = sent
    BY <1>2 DEF Deliver
  <2> QED
    BY <1>0, <1>2, <2>1, WireMovesOn, OrderDeliver DEF PlaceInv
<1>3. ASSUME UNCHANGED <<sent, wire>> PROVE WireInv' /\ Coming' = Coming
  BY <1>0, <1>3 DEF WireInv, Coming, IsPlace, Follows, Ends, TextOf
<1>4. CASE ReadChar
  <2>1. UNCHANGED <<sent, wire>>
    BY <1>4 DEF ReadChar
  <2> QED
    BY <1>0, <1>3, <1>4, <2>1, OrderRead DEF PlaceInv
<1>5. CASE updateParameters \/ InitializeAllPeripherals
  <2>1. UNCHANGED <<sent, wire, fifo, ended>> /\ pc' # "line"
    BY <1>5, BusyDoes
  <2>2. WireInv' /\ Coming' = Coming
    BY <1>3, <2>1
  <2>3. OrderInv'
    BY <1>0, <2>1, <2>2 DEF OrderInv, Received, IsPlace, TextOf, Before
  <2> QED
    BY <1>0, <2>2, <2>3 DEF PlaceInv
<1>6. CASE ReadError \/ TickPrints \/ RowsPrinted \/ UNCHANGED vars
  <2>1. UNCHANGED <<sent, wire, fifo, ended, pc>>
    BY <1>6 DEF ReadError, TickPrints, RowsPrinted
  <2> QED
    BY <1>0, <1>3, <2>1, OrderStays DEF PlaceInv
<1> QED
  BY <1>1, <1>2, <1>4, <1>5, <1>6 DEF Next, Main

-----------------------------------------------------------------------------
(* Room for what is stored.                                                *)

EndsAmong(losses, from, to) == {n \in from + 1 .. to : [line |-> n, end |-> TRUE] \in losses}

\* The ends that are lost between two lines are a finite number.
LEMMA EndsInBounds ==
  ASSUME NEW losses, NEW from \in Nat, NEW to \in Nat
  PROVE  /\ IsFiniteSet(EndsAmong(losses, from, to))
         /\ EndsIn(losses, from, to) = Cardinality(EndsAmong(losses, from, to))
         /\ EndsIn(losses, from, to) \in Nat
<1>1. IsFiniteSet(from + 1 .. to)
  BY FS_Interval
<1>2. EndsAmong(losses, from, to) \subseteq from + 1 .. to
  BY DEF EndsAmong
<1>3. IsFiniteSet(EndsAmong(losses, from, to))
  BY <1>1, <1>2, FS_Subset
<1>4. EndsIn(losses, from, to) = Cardinality(EndsAmong(losses, from, to))
  BY DEF EndsIn, EndsAmong
<1> QED
  BY <1>3, <1>4, FS_CardinalityType

\* No fewer ends are lost when more is lost, or up to a later line.
LEMMA EndsInGrows ==
  ASSUME NEW losses, NEW more, losses \subseteq more,
         NEW from \in Nat, NEW to \in Nat, NEW later \in Nat, to <= later
  PROVE  EndsIn(losses, from, to) <= EndsIn(more, from, later)
<1>1. EndsAmong(losses, from, to) \subseteq EndsAmong(more, from, later)
  BY DEF EndsAmong
<1> QED
  BY <1>1, EndsInBounds, FS_Subset

\* One more line that has lost its end.
LEMMA EndsInOneMore ==
  ASSUME NEW losses, NEW more, losses \subseteq more, NEW from \in Nat, NEW line \in Nat,
         from < line, [line |-> line, end |-> TRUE] \in more
  PROVE  EndsIn(losses, from, line - 1) + 1 <= EndsIn(more, from, line)
<1> DEFINE before == EndsAmong(losses, from, line - 1)
<1>1. line - 1 \in Nat /\ line \in from + 1 .. line /\ line \notin from + 1 .. line - 1
  OBVIOUS
<1>2. before \cup {line} \subseteq EndsAmong(more, from, line) /\ line \notin before
  <2>1. \A n \in from + 1 .. line - 1 : n \in from + 1 .. line
    OBVIOUS
  <2> QED
    BY <1>1, <2>1 DEF EndsAmong
<1>3. IsFiniteSet(before) /\ EndsIn(losses, from, line - 1) = Cardinality(before)
      /\ Cardinality(before) \in Nat
  BY <1>1, EndsInBounds
<1> HIDE DEF before
<1>4. Cardinality(before \cup {line}) = Cardinality(before) + 1
  BY <1>2, <1>3, FS_AddElement
<1>5. /\ IsFiniteSet(EndsAmong(more, from, line))
      /\ EndsIn(more, from, line) = Cardinality(EndsAmong(more, from, line))
      /\ EndsIn(more, from, line) \in Nat
  BY EndsInBounds
<1>6. Cardinality(before \cup {line}) <= Cardinality(EndsAmong(more, from, line))
  BY <1>2, <1>5, FS_Subset
<1> QED
  BY <1>3, <1>4, <1>5, <1>6

\* Multiplication by the length of the longest line.
LEMMA Times ==
  ASSUME NEW l \in Nat, NEW a \in Nat, NEW b \in Nat
  PROVE  /\ l * a \in Nat /\ l * (a + 1) = l * a + l
         /\ a <= b => l * a <= l * b
OBVIOUS

\* Losses leave more room, and so does a place further on.
LEMMA RoomGrows ==
  ASSUME LongestLine \in Nat, NEW losses, NEW more, losses \subseteq more,
         NEW from \in Nat, NEW line \in Nat \ {0}, NEW at \in Nat \ {0}
  PROVE  /\ Room(losses, from, line, at) \in Nat
         /\ Room(losses, from, line, at) <= Room(more, from, line, at)
<1> DEFINE a == EndsIn(losses, from, line - 1)
           b == EndsIn(more, from, line - 1)
<1>1. line - 1 \in Nat
  OBVIOUS
<1>2. a \in Nat /\ b \in Nat /\ a <= b
  BY <1>1, EndsInBounds, EndsInGrows
<1>3. /\ Room(losses, from, line, at) = LongestLine * a + (at - 1)
      /\ Room(more, from, line, at) = LongestLine * b + (at - 1)
  BY DEF Room
<1> HIDE DEF a, b
<1>4. LongestLine * a \in Nat /\ LongestLine * b \in Nat /\ LongestLine * a <= LongestLine * b
  BY <1>2, Times
<1> QED
  BY <1>3, <1>4

\* A character further there is room for one more, unless it is the end of a line
\* and has come.
LEMMA RoomForOneMore ==
  ASSUME LongestLine \in Nat, NEW losses, NEW more, losses \subseteq more, NEW from \in Nat,
         NEW line \in Nat, from < line, NEW long \in Nat, long <= LongestLine,
         NEW at \in 1 .. long, NEW line2 \in Nat, NEW at2 \in Nat,
         IF at = long THEN line2 = line + 1 /\ at2 = 1 ELSE line2 = line /\ at2 = at + 1,
         at = long => [line |-> line, end |-> TRUE] \in more
  PROVE  Room(losses, from, line, at) + 1 <= Room(more, from, line2, at2)
<1> DEFINE a == EndsIn(losses, from, line - 1)
<1>1. line - 1 \in Nat /\ a \in Nat
  BY EndsInBounds
<1>2. Room(losses, from, line, at) = LongestLine * a + (at - 1)
  BY DEF Room
<1>3. CASE at # long
  <2>1. line2 = line /\ at2 = at + 1
    BY <1>3
  <2>2. Room(losses, from, line2, at2) = LongestLine * a + ((at + 1) - 1)
    BY <2>1 DEF Room
  <2>3. /\ Room(losses, from, line2, at2) <= Room(more, from, line2, at2)
        /\ Room(losses, from, line2, at2) \in Nat /\ Room(more, from, line2, at2) \in Nat
    BY <2>1, RoomGrows
  <2> HIDE DEF a
  <2>4. LongestLine * a \in Nat
    BY <1>1, Times
  <2> QED
    BY <1>2, <2>2, <2>3, <2>4
<1>4. CASE at = long
  <2> DEFINE b == EndsIn(more, from, line)
  <2>1. line2 = line + 1 /\ at2 = 1 /\ (line + 1) - 1 = line
    BY <1>4
  <2>2. a + 1 <= b /\ b \in Nat
    BY <1>4, EndsInOneMore, EndsInBounds
  <2>3. Room(more, from, line2, at2) = LongestLine * b + 0
    BY <2>1 DEF Room
  <2> HIDE DEF a, b
  <2>4. /\ LongestLine * a \in Nat /\ LongestLine * b \in Nat
        /\ LongestLine * (a + 1) = LongestLine * a + LongestLine
        /\ LongestLine * (a + 1) <= LongestLine * b
    BY <1>1, <2>2, Times
  <2> QED
    BY <1>2, <1>4, <2>3, <2>4
<1> QED
  BY <1>3, <1>4

\* What a count starts from is a line before the place it counts up to.
LEMMA FromFacts ==
  ASSUME TextsAreLines, PlaceInv, NEW m \in 0 .. Len(fifo), NEW j \in 1 .. Len(fifo) + 1,
         Since(m, j)
  PROVE  From(m) \in Nat /\ From(m) < Received(j).line /\ Received(j).line \in Nat
         /\ Kept(m) \in Nat
<1>1. Received(j).line \in Nat
  BY ReceivedFacts DEF PlaceInv, KindInv
<1>2. Kept(m) \in Nat
  BY DEF Kept, PlaceInv, KindInv
<1>3. CASE m = 0
  <2>1. From(m) = ended
    BY <1>3 DEF From
  <2> QED
    BY <1>1, <1>2, <2>1 DEF PlaceInv, OrderInv
<1>4. CASE m # 0
  <2>1. From(m) = fifo[m].line /\ m \in 1 .. Len(fifo) /\ m < j /\ Ends(fifo[m])
    BY <1>4 DEF From, Since
  <2>2. IsPlace(fifo[m]) /\ Before(fifo[m], Received(j))
    BY <2>1 DEF PlaceInv, OrderInv
  <2>3. fifo[m].line \in Nat
    BY <2>2 DEF IsPlace
  <2> QED
    BY <1>1, <1>2, <2>1, <2>2, <2>3, NothingAfterEnd DEF PlaceInv
<1> QED
  BY <1>3, <1>4

\* A step that leaves the places alone, or empties the line buffer.
LEMMA RoomStays ==
  ASSUME TextsAreLines, PlaceInv, RoomInv, UNCHANGED <<fifo, ended, lost, overrun>>,
         Coming' = Coming, Kept(0)' = Kept(0),
         \A place : IsPlace(place) => (Ends(place)' <=> Ends(place))
  PROVE  RoomInv'
<1>1. \A j : Received(j)' = Received(j) /\ Failing(j)' = Failing(j) /\ From(j)' = From(j)
             /\ Kept(j)' = Kept(j)
  BY DEF Received, Failing, From, Kept
<1>2. \A k \in 1 .. Len(fifo) : Ends(fifo[k])' <=> Ends(fifo[k])
  BY DEF PlaceInv, OrderInv
<1>3. Len(fifo) \in Nat
  BY DEF PlaceInv, KindInv
<1> SUFFICES ASSUME NEW m \in 0 .. Len(fifo), NEW j \in 1 .. Len(fifo) + 1, Since(m, j)'
             PROVE  RoomAt(m, j)'
  BY <1>1 DEF RoomInv
<1>4. m < j /\ (m = 0 \/ Ends(fifo[m])) /\ \A k \in m + 1 .. j - 1 : ~Ends(fifo[k])
  BY <1>2, <1>3 DEF Since
<1>5. RoomAt(m, j)
  BY <1>4 DEF RoomInv, Since
<1> QED
  BY <1>1, <1>5 DEF RoomAt

\* A character that comes, or is lost, leaves room for itself or for the error.
LEMMA RoomDeliver ==
  ASSUME TextsAreLines, PlaceInv, RoomInv, Deliver
  PROVE  RoomInv'
<1>0. KindInv /\ WireInv /\ OrderInv /\ LongestLine \in Nat
  BY DEF PlaceInv, TextsAreLines
<1>1. wire # <<>> /\ wire' = Tail(wire) /\ UNCHANGED <<sent, ended, pc, index>>
  BY DEF Deliver, line_vars
<1>2. Follows(Coming, Coming') /\ wire' \in Seq(Place)
  BY <1>0, <1>1, WireMovesOn
<1>3. PICK this, next : this = Coming /\ next = Coming'
  OBVIOUS
<1>4. PICK long \in Nat : long = Len(TextOf(this.line)) /\ long <= LongestLine
  BY <1>0, <1>1, <1>3, ComingFacts, TextFacts DEF IsPlace
<1>5. /\ this.line \in Nat /\ this.at \in 1 .. long /\ (Ends(this) <=> this.at = long)
      /\ IF this.at = long THEN next.line = this.line + 1 /\ next.at = 1
                           ELSE next.line = this.line /\ next.at = this.at + 1
  <2>1. Coming.line \in Nat /\ IsPlace(Coming)
    BY <1>0, <1>1, ComingFacts DEF Place
  <2> QED
    BY <1>2, <1>3, <1>4, <2>1 DEF IsPlace, Follows, Ends
<1>6. next.line \in Nat \ {0} /\ next.at \in Nat \ {0}
  <2>1. this.line # 0
    BY <1>0, <1>3, ComingFacts DEF KindInv
  <2> QED
    BY <1>5, <2>1
<1>7. PICK held \in Nat : held = Len(fifo)
  BY <1>0 DEF KindInv
<1>8. \A place : Ends(place)' <=> Ends(place)
  BY <1>1 DEF Ends, TextOf
<1>9. /\ Kept(0)' = Kept(0) /\ From(0)' = From(0)
      /\ \A m : m # 0 => Kept(m)' = 0 /\ Kept(m) = 0 /\ From(m) = fifo[m].line
      /\ Kept(0) \in Nat
  BY <1>0, <1>1 DEF Kept, From, KindInv
<1>10. Received(held + 1) = this
  BY <1>3, <1>7 DEF Received
<1>11. CASE Accepted
  <2>1. /\ Len(fifo') = held + 1
        /\ \A j \in 1 .. held : fifo'[j] = fifo[j]
        /\ fifo'[held + 1] = this
        /\ \A j \in 1 .. held + 1 : Received(j)' = Received(j)
        /\ Received(held + 2)' = next
    BY <1>0, <1>3, <1>7, <1>11, FifoGrows
  <2>2. lost' = lost /\ \A j : Failing(j) = 0 /\ Failing(j)' = 0
    BY <1>11 DEF Accepted, Failing
  <2> SUFFICES ASSUME NEW m \in 0 .. held + 1, NEW j \in 1 .. held + 2, Since(m, j)'
               PROVE  RoomAt(m, j)'
    <3>1. Len(fifo') = held + 1 /\ Len(fifo') + 1 = held + 2
      BY <2>1
    <3> QED
      BY <3>1 DEF RoomInv
  <2>0. m < j /\ (m = 0 \/ Ends(fifo'[m])) /\ \A k \in m + 1 .. j - 1 : ~Ends(fifo'[k])
    BY <1>1 DEF Since, Ends, TextOf
  <2> SUFFICES Kept(m)' + (j - 1 - m)
                 <= Room(lost, From(m)', Received(j)'.line, Received(j)'.at)
    <3>1. m \in Nat /\ j \in Nat /\ Kept(m)' \in Nat
      BY <1>9
    <3>2. Failing(j)' = 0
      BY <2>2
    <3>3. Kept(m)' + (j - 1 - m) + Failing(j)' = Kept(m)' + (j - 1 - m)
      BY <3>1, <3>2
    <3> QED
      BY <2>2, <3>3 DEF RoomAt, Room
  <2>3. CASE m = held + 1
    <3>1. j = held + 2 /\ j - 1 - m = 0 /\ Kept(m)' = 0 /\ From(m)' = this.line
      BY <1>9, <2>0, <2>1, <2>3 DEF From
    <3>2. Room(lost, this.line, next.line, next.at) \in Nat
      BY <1>0, <1>5, <1>6, RoomGrows
    <3> QED
      BY <2>1, <3>1, <3>2
  <2>4. CASE m # held + 1
    <3>1. m \in 0 .. held /\ (m = 0 \/ Ends(fifo[m])) /\ Kept(m)' = Kept(m) /\ Kept(m) \in Nat
          /\ From(m)' = From(m)
      BY <1>9, <2>0, <2>1, <2>4 DEF From
    <3>2. CASE j \in 1 .. held + 1
      <4>1. \A k \in m + 1 .. j - 1 : k \in 1 .. held /\ fifo'[k] = fifo[k]
        BY <2>1, <3>1, <3>2
      <4>2. \A k \in m + 1 .. j - 1 : ~Ends(fifo[k])
        BY <2>0, <4>1
      <4>3. Kept(m) + (j - 1 - m) + Failing(j)
              <= Room(lost, From(m), Received(j).line, Received(j).at)
        BY <1>7, <2>0, <3>1, <3>2, <4>2 DEF RoomInv, RoomAt, Since
      <4> QED
        BY <2>1, <2>2, <3>1, <3>2, <4>3
    <3>3. CASE j = held + 2
      <4>1. /\ \A k \in m + 1 .. (held + 1) - 1 : k \in m + 1 .. j - 1 /\ k \in 1 .. held
            /\ held + 1 \in m + 1 .. j - 1
        BY <3>1, <3>3
      <4>2. (\A k \in m + 1 .. (held + 1) - 1 : ~Ends(fifo[k])) /\ ~Ends(this)
        BY <2>0, <2>1, <4>1
      <4>3. m < held + 1 /\ held + 1 \in 1 .. held + 1
        BY <3>1
      <4>4. Since(m, held + 1)
        BY <3>1, <4>2, <4>3 DEF Since
      <4>5. Kept(m) + ((held + 1) - 1 - m) + Failing(held + 1)
              <= Room(lost, From(m), this.line, this.at)
        BY <1>7, <1>10, <3>1, <4>3, <4>4 DEF RoomInv, RoomAt
      <4>6. From(m) \in Nat /\ From(m) < this.line
        BY <1>7, <1>10, <3>1, <4>3, <4>4, FromFacts
      <4>7. /\ Room(lost, From(m), this.line, this.at) + 1
                 <= Room(lost, From(m), next.line, next.at)
            /\ this.at # long
        BY <1>0, <1>4, <1>5, <1>6, <4>2, <4>6, RoomForOneMore
      <4>8. /\ Room(lost, From(m), this.line, this.at) \in Nat
            /\ Room(lost, From(m), next.line, next.at) \in Nat
        BY <1>0, <1>5, <1>6, <4>6, RoomGrows
      <4>9. Kept(m) + (held - m) <= Room(lost, From(m), this.line, this.at)
        BY <2>2, <3>1, <4>5
      <4>10. Kept(m) + (j - 1 - m) = Kept(m) + (held - m) + 1
        BY <3>1, <3>3
      <4> QED
        BY <2>1, <3>1, <3>3, <4>7, <4>8, <4>9, <4>10
    <3> QED
      BY <3>2, <3>3
  <2> QED
    BY <2>3, <2>4
<1>12. CASE Dropped
  <2>1. /\ fifo' = fifo /\ Received(held + 1)' = next
        /\ \A j \in 1 .. held : Received(j)' = Received(j) /\ Received(j) = fifo[j]
    BY <1>3, <1>7, <1>12 DEF Dropped, Received
  <2>2. /\ \A j \in 1 .. held : Failing(j)' = 0 /\ Failing(j) = 0
        /\ Failing(held + 1)' = 1 /\ Failing(held + 1) \in {0, 1}
    BY <1>7, <1>12, <2>1 DEF Dropped, Failing
  <2>3. PICK more : more = lost' /\ lost \subseteq more
                    /\ (this.at = long => [line |-> this.line, end |-> TRUE] \in more)
    <3>1. (this.at = long) = Ends(this)
      BY <1>5 DEF Ends
    <3>2. lost' = lost \cup {[line |-> this.line, end |-> Ends(this)]}
      BY <1>3, <1>12 DEF Dropped
    <3>3. lost \subseteq lost' /\ [line |-> this.line, end |-> Ends(this)] \in lost'
      BY <3>2
    <3>4. this.at = long => [line |-> this.line, end |-> TRUE] \in lost'
      <4> SUFFICES ASSUME this.at = long PROVE [line |-> this.line, end |-> TRUE] \in lost'
        OBVIOUS
      <4>1. Ends(this) = TRUE
        BY <3>1
      <4> QED
        BY <3>3, <4>1
    <3> QED
      BY <3>3, <3>4
  <2>4. \A m : From(m)' = From(m) /\ Kept(m)' = Kept(m)
    BY <1>9, <2>1 DEF From
  <2> SUFFICES ASSUME NEW m \in 0 .. held, NEW j \in 1 .. held + 1, Since(m, j)'
               PROVE  RoomAt(m, j)'
    BY <1>7, <2>1 DEF RoomInv
  <2> SUFFICES Kept(m) + (j - 1 - m) + Failing(j)'
                 <= Room(more, From(m), Received(j)'.line, Received(j)'.at)
    BY <2>3, <2>4 DEF RoomAt, Room
  <2>5. Since(m, j) /\ m < j
    BY <1>1, <2>1 DEF Since, Ends, TextOf
  <2>6. From(m) \in Nat /\ From(m) < Received(j).line /\ Kept(m) \in Nat
    BY <1>7, <2>5, FromFacts
  <2>7. Kept(m) + (j - 1 - m) + Failing(j)
          <= Room(lost, From(m), Received(j).line, Received(j).at)
    BY <1>7, <2>5 DEF RoomInv, RoomAt
  <2>8. Received(j).line \in Nat \ {0} /\ Received(j).at \in Nat \ {0}
    BY <1>0, <1>7, ReceivedFacts DEF KindInv
  <2>9. CASE j = held + 1
    <3>1. Room(lost, From(m), this.line, this.at) + 1
            <= Room(more, From(m), next.line, next.at)
      BY <1>0, <1>4, <1>5, <1>6, <1>10, <2>3, <2>6, <2>9, RoomForOneMore
    <3>2. /\ Room(lost, From(m), this.line, this.at) \in Nat
          /\ Room(more, From(m), next.line, next.at) \in Nat
      BY <1>0, <1>6, <1>10, <2>6, <2>8, <2>9, RoomGrows
    <3>3. Failing(j)' <= Failing(j) + 1 /\ Failing(j) \in {0, 1} /\ Failing(j)' = 1
      BY <2>2, <2>9
    <3> QED
      BY <1>10, <2>1, <2>6, <2>7, <2>9, <3>1, <3>2, <3>3
  <2>10. CASE j # held + 1
    <3>1. j \in 1 .. held
      BY <2>10
    <3>2. /\ Room(lost, From(m), Received(j).line, Received(j).at)
               <= Room(more, From(m), Received(j).line, Received(j).at)
          /\ Room(lost, From(m), Received(j).line, Received(j).at) \in Nat
          /\ Room(more, From(m), Received(j).line, Received(j).at) \in Nat
      BY <1>0, <2>3, <2>6, <2>8, RoomGrows
    <3> QED
      BY <2>1, <2>2, <2>6, <2>7, <3>1, <3>2
  <2> QED
    BY <2>9, <2>10
<1> QED
  BY <1>0, <1>11, <1>12, DeliverDoes

\* main() stores one character for one that leaves the FIFO.
LEMMA RoomRead ==
  ASSUME TextsAreLines, PlaceInv, RoomInv, ReadChar
  PROVE  RoomInv'
<1>0. KindInv /\ WireInv /\ OrderInv
  BY DEF PlaceInv
<1>1. /\ pc = "read" /\ fifo # <<>> /\ fifo' = Tail(fifo)
      /\ UNCHANGED <<wire, sent, overrun, lost>>
      /\ index' = index + 1 /\ index \in Nat
      /\ Ends(fifo[1]) => pc' = "line" /\ ended' = fifo[1].line
      /\ ~Ends(fifo[1]) => pc' = "read" /\ ended' = ended
  BY <1>0, ReadDoes DEF KindInv
<1>2. /\ Len(fifo) \in Nat \ {0} /\ Len(fifo') = Len(fifo) - 1
      /\ \A j \in 1 .. Len(fifo') : fifo'[j] = fifo[j + 1]
      /\ \A j \in 1 .. Len(fifo') + 1 : Received(j)' = Received(j + 1)
  BY <1>0, <1>1, FifoShrinks
<1>3. \A j \in 1 .. Len(fifo') + 1 : Failing(j)' = Failing(j + 1) /\ Failing(j)' \in {0, 1}
  <2>1. \A j \in 1 .. Len(fifo') + 1 : j = Len(fifo') + 1 <=> j + 1 = Len(fifo) + 1
    BY <1>2
  <2>2. (overrun = TRUE /\ overrun' = TRUE) \/ (overrun = FALSE /\ overrun' = FALSE)
    BY <1>0, <1>1 DEF KindInv
  <2>3. CASE overrun = TRUE /\ overrun' = TRUE
    BY <2>1, <2>3 DEF Failing
  <2>4. CASE overrun = FALSE /\ overrun' = FALSE
    BY <2>4 DEF Failing
  <2> QED
    BY <2>2, <2>3, <2>4
<1> SUFFICES ASSUME NEW m \in 0 .. Len(fifo'), NEW j \in 1 .. Len(fifo') + 1, Since(m, j)'
             PROVE  RoomAt(m, j)'
  BY DEF RoomInv
<1>4. /\ m < j /\ (m = 0 \/ (m \in 1 .. Len(fifo') /\ Ends(fifo'[m])))
      /\ \A k \in m + 1 .. j - 1 : ~Ends(fifo'[k])
  BY <1>1 DEF Since, Ends, TextOf
<1>5. /\ m + 1 \in 0 .. Len(fifo) /\ j + 1 \in 1 .. Len(fifo) + 1 /\ m + 1 < j + 1
      /\ 0 \in 0 .. Len(fifo) /\ 0 < j + 1
  BY <1>2, <1>4
<1>6. \A k \in m + 2 .. (j + 1) - 1 : ~Ends(fifo[k])
  <2> SUFFICES ASSUME NEW k \in m + 2 .. (j + 1) - 1 PROVE ~Ends(fifo[k])
    OBVIOUS
  <2>1. k - 1 \in m + 1 .. j - 1 /\ k - 1 \in 1 .. Len(fifo') /\ (k - 1) + 1 = k
    BY <1>2
  <2> QED
    BY <1>2, <1>4, <2>1
<1>7. CASE m = 0 /\ ~Ends(fifo[1])
  <2>1. Since(0, j + 1)
    <3>1. \A k \in 0 + 1 .. (j + 1) - 1 : k = 1 \/ k \in m + 2 .. (j + 1) - 1
      BY <1>7
    <3> QED
      BY <1>5, <1>6, <1>7, <3>1 DEF Since
  <2>2. Kept(0) + ((j + 1) - 1 - 0) + Failing(j + 1)
          <= Room(lost, From(0), Received(j + 1).line, Received(j + 1).at)
    BY <1>5, <2>1 DEF RoomInv, RoomAt
  <2>3. Kept(0) = index /\ Kept(0)' = index + 1 /\ From(0) = ended /\ From(0)' = ended
    BY <1>1, <1>7 DEF Kept, From
  <2>4. index + ((j + 1) - 1 - 0) + Failing(j + 1) = (index + 1) + (j - 1 - 0) + Failing(j + 1)
    BY <1>1, <1>3
  <2>5. (index + 1) + (j - 1 - 0) + Failing(j + 1)
          <= Room(lost, ended, Received(j + 1).line, Received(j + 1).at)
    BY <2>2, <2>3, <2>4
  <2> QED
    BY <1>1, <1>2, <1>3, <1>7, <2>3, <2>5 DEF RoomAt, Room
<1>8. CASE m # 0 \/ Ends(fifo[1])
  <2>1. Ends(fifo[m + 1])
    BY <1>2, <1>4, <1>8
  <2>2. Since(m + 1, j + 1)
    BY <1>5, <1>6, <2>1 DEF Since
  <2>3. Kept(m + 1) + ((j + 1) - 1 - (m + 1)) + Failing(j + 1)
          <= Room(lost, From(m + 1), Received(j + 1).line, Received(j + 1).at)
    BY <1>5, <2>2 DEF RoomInv, RoomAt
  <2>4. Kept(m + 1) = 0 /\ From(m + 1) = fifo[m + 1].line
    BY DEF Kept, From
  <2>5. Kept(m)' = 0 /\ From(m)' = fifo[m + 1].line
    <3>1. CASE m = 0
      BY <1>1, <1>8, <3>1 DEF Kept, From
    <3>2. CASE m # 0
      BY <1>2, <1>4, <3>2 DEF Kept, From
    <3> QED
      BY <3>1, <3>2
  <2>6. 0 + ((j + 1) - 1 - (m + 1)) + Failing(j + 1) = 0 + (j - 1 - m) + Failing(j + 1)
    BY <1>3
  <2>7. 0 + (j - 1 - m) + Failing(j + 1)
          <= Room(lost, fifo[m + 1].line, Received(j + 1).line, Received(j + 1).at)
    BY <2>3, <2>4, <2>6
  <2> QED
    BY <1>1, <1>2, <1>3, <2>5, <2>7 DEF RoomAt, Room
<1> QED
  BY <1>7, <1>8

\* The error that GETCHAR returns is the one the overrun was good for.
LEMMA RoomError ==
  ASSUME TextsAreLines, PlaceInv, RoomInv, ReadError
  PROVE  RoomInv'
<1>1. /\ pc = "read" /\ pc' = "read" /\ fifo = <<>> /\ overrun /\ overrun' = FALSE
      /\ index' = index + 1 /\ index \in Nat /\ UNCHANGED <<sent, wire, fifo, lost, ended>>
  BY DEF ReadError, Store, PlaceInv, KindInv
<1>2. Len(fifo) = 0 /\ Received(1)' = Received(1)
  BY <1>1 DEF Received, Coming
<1>3. Since(0, 1)
  BY DEF Since
<1>4. RoomAt(0, 1)
  BY <1>2, <1>3 DEF RoomInv
<1>5. Kept(0) = index /\ Kept(0)' = index + 1 /\ From(0) = ended /\ From(0)' = ended
      /\ Failing(1) = 1 /\ Failing(1)' = 0
  BY <1>1, <1>2 DEF Kept, From, Failing
<1>6. index + (1 - 1 - 0) + 1 = (index + 1) + (1 - 1 - 0) + 0
  BY <1>1
<1>7. (index + 1) + (1 - 1 - 0) + 0 <= Room(lost, ended, Received(1).line, Received(1).at)
  BY <1>4, <1>5, <1>6 DEF RoomAt
<1>8. RoomAt(0, 1)'
  BY <1>1, <1>2, <1>5, <1>7 DEF RoomAt, Room
<1>9. \A m \in 0 .. Len(fifo'), j \in 1 .. Len(fifo') + 1 : m = 0 /\ j = 1
  BY <1>1, <1>2
<1> QED
  BY <1>8, <1>9 DEF RoomInv

\* No step stores a character for which there is no room.
LEMMA RoomInvStep ==
  ASSUME TextsAreLines, PlaceInv, RoomInv, [Next]_vars
  PROVE  RoomInv'
<1> USE DEF vars, uart_vars, line_vars, param_vars, timer_vars
<1>0. KindInv /\ WireInv /\ OrderInv
  BY DEF PlaceInv
<1>1. CASE SendParameters
  <2>1. PICK request \in Requests : sent' = Append(sent, request)
    BY <1>1 DEF SendParameters
  <2>2. \A place : IsPlace(place) => (Ends(place)' <=> Ends(place))
    BY <1>0, <2>1, SentStays
  <2>3. UNCHANGED <<fifo, ended, lost, overrun>> /\ Kept(0)' = Kept(0) /\ Coming' = Coming
    BY <1>0, <1>1, WireGrows DEF SendParameters, Kept
  <2> QED
    BY <2>2, <2>3, RoomStays
<1>2. ASSUME UNCHANGED <<sent, wire>>
      PROVE  Coming' = Coming /\ \A place : Ends(place)' <=> Ends(place)
  BY <1>2 DEF Coming, Ends, TextOf
<1>3. CASE updateParameters \/ InitializeAllPeripherals
  <2>1. UNCHANGED <<sent, wire, fifo, ended, lost, overrun>>
    BY <1>3, BusyDoes
  <2>2. Kept(0)' = 0 /\ Kept(0) = 0
    BY <1>3, BusyDoes DEF Kept
  <2> QED
    BY <1>2, <2>1, <2>2, RoomStays
<1>4. CASE TickPrints \/ RowsPrinted \/ UNCHANGED vars
  <2>1. UNCHANGED <<sent, wire, fifo, ended, lost, overrun, index, pc>>
    BY <1>4 DEF TickPrints, RowsPrinted
  <2>2. Kept(0)' = Kept(0)
    BY <2>1 DEF Kept
  <2> QED
    BY <1>2, <2>1, <2>2, RoomStays
<1> QED
  BY <1>1, <1>3, <1>4, RoomDeliver, RoomRead, RoomError DEF Next, Main

\* Nothing has been sent, and main() waits for the first character.
LEMMA PlaceInvInit ==
  ASSUME TextsAreLines, Init
  PROVE  PlaceInv
<1>1. KindInv
  <2>1. sent \in Seq(Requests) /\ wire \in Seq(Place) /\ fifo \in Seq(Place)
    BY DEF Init
  <2>2. overrun \in BOOLEAN
    BY DEF Init
  <2>3. index \in Nat /\ pc \in {"read", "line", "init", "returned"}
    BY DEF Init
  <2>4. Nul \in Chars /\ buffer = [n \in 0 .. BufferSize - 1 |-> Nul]
    BY DEF Init, Chars
  <2>5. buffer \in [0 .. BufferSize - 1 -> Chars]
    BY <2>4
  <2> QED
    BY <2>1, <2>2, <2>3, <2>5 DEF KindInv
<1>2. /\ Len(fifo) = 0 /\ Len(wire) = 0 /\ Len(sent) = 0 /\ ended = 0 /\ pc = "read"
      /\ Received(1) = [line |-> 1, at |-> 1]
  BY DEF Init, Coming, Received
<1>3. WireInv
  BY <1>2 DEF Init, WireInv
<1>4. OrderInv
  BY <1>2 DEF OrderInv
<1> QED
  BY <1>1, <1>3, <1>4 DEF PlaceInv

\* main() starts with an empty line buffer.
LEMMA RoomInvInit == TextsAreLines /\ Init => RoomInv
<1> SUFFICES ASSUME TextsAreLines, Init PROVE RoomInv
  OBVIOUS
<1>1. /\ Len(fifo) = 0 /\ ended = 0 /\ pc = "read" /\ index = 0 /\ overrun = FALSE
      /\ Received(1) = [line |-> 1, at |-> 1]
  BY DEF Init, Coming, Received
<1>2. RoomAt(0, 1)
  <2>1. 0 \in Nat /\ 1 - 1 = 0 /\ LongestLine \in Nat
    BY DEF TextsAreLines
  <2>2. /\ Kept(0) = 0 /\ Failing(1) = 0 /\ From(0) = 0
        /\ Received(1).line = 1 /\ Received(1).at = 1
    BY <1>1 DEF Kept, Failing, From
  <2>3. Room(lost, 0, 1, 1) \in Nat
    BY <2>1, RoomGrows
  <2> QED
    BY <2>2, <2>3 DEF RoomAt
<1>3. \A m \in 0 .. Len(fifo), j \in 1 .. Len(fifo) + 1 : m = 0 /\ j = 1
  BY <1>1
<1> QED
  BY <1>2, <1>3 DEF RoomInv

\* main()'s line buffer is filled no further than one line, and one more for every
\* line that has lost its end since main() read one.
THEOREM BufferFillsLineByLine == Spec => []IndexBounded
<1>0. TextsAreLines
  BY AllTextsAreLines
<1>1. Init => PlaceInv /\ RoomInv
  BY <1>0, PlaceInvInit, RoomInvInit
<1>2. PlaceInv /\ RoomInv /\ [Next]_vars => PlaceInv' /\ RoomInv'
  BY <1>0, PlaceInvStep, RoomInvStep
<1>3. PlaceInv /\ RoomInv => IndexBounded
  <2> SUFFICES ASSUME PlaceInv, RoomInv, pc = "read"
               PROVE  index <= LongestLine * (1 + EndsIn(lost, ended, Len(sent)))
    BY DEF IndexBounded, EndsIn, EndLost
  <2>0. KindInv /\ WireInv /\ OrderInv /\ LongestLine \in Nat
    BY <1>0 DEF PlaceInv, TextsAreLines
  <2>1. PICK place : place = Received(1)
    OBVIOUS
  <2>2. 1 \in 1 .. Len(fifo) + 1 /\ 0 \in 0 .. Len(fifo) /\ Len(sent) \in Nat
        /\ index \in Nat /\ ended \in Nat
    BY <2>0 DEF KindInv, OrderInv
  <2>3. /\ place.line \in 1 .. Len(sent) + 1 /\ place.at \in Nat \ {0}
        /\ place.line <= Len(sent) => IsPlace(place)
        /\ place.line = Len(sent) + 1 => place.at = 1
    BY <2>0, <2>1, <2>2, <1>0, ReceivedFacts
  <2>4. place.at - 1 <= LongestLine
    <3>1. CASE place.line <= Len(sent)
      <4>1. place.line \in 1 .. Len(sent) /\ place.at <= Len(TextOf(place.line))
        BY <2>3, <3>1 DEF IsPlace
      <4> QED
        BY <2>0, <2>3, <4>1, <1>0, TextFacts
    <3>2. CASE place.line = Len(sent) + 1
      BY <2>0, <2>3, <3>2
    <3> QED
      BY <2>2, <2>3, <3>1, <3>2
  <2>5. index <= Room(lost, ended, place.line, place.at)
    <3>1. RoomAt(0, 1)
      BY <2>2 DEF RoomInv, Since
    <3>2. Kept(0) = index /\ From(0) = ended /\ Failing(1) \in {0, 1}
      BY DEF Kept, From, Failing
    <3>3. Room(lost, ended, place.line, place.at) \in Nat
      BY <2>0, <2>2, <2>3, RoomGrows
    <3> QED
      BY <2>1, <2>2, <3>1, <3>2, <3>3 DEF RoomAt
  <2> DEFINE a == EndsIn(lost, ended, place.line - 1)
             b == EndsIn(lost, ended, Len(sent))
  <2>6. a \in Nat /\ b \in Nat /\ a <= b
    <3>1. place.line - 1 \in Nat /\ place.line - 1 <= Len(sent)
      BY <2>2, <2>3
    <3> QED
      BY <2>2, <3>1, EndsInBounds, EndsInGrows
  <2>7. Room(lost, ended, place.line, place.at) = LongestLine * a + (place.at - 1)
    BY DEF Room
  <2> HIDE DEF a, b
  <2>8. /\ LongestLine * a \in Nat /\ LongestLine * b \in Nat
        /\ LongestLine * a <= LongestLine * b
        /\ LongestLine * (b + 1) = LongestLine * b + LongestLine
    BY <2>0, <2>6, Times
  <2>9. index <= LongestLine * (b + 1)
    BY <2>0, <2>2, <2>3, <2>4, <2>5, <2>7, <2>8
  <2>10. b + 1 = 1 + b
    BY <2>6
  <2> QED
    BY <2>9, <2>10 DEF b
<1> QED
  BY <1>1, <1>2, <1>3, PTL DEF Spec

\* Lines that have lost their end.
LostEnds == EndsIn(lost, 0, Len(sent))

HoldsLostLines ==
  index \in Nat /\ LostEnds \in Nat /\ index <= LongestLine * (1 + LostEnds)

\* No fewer ends are lost from an earlier line to a later one.
LEMMA EndsInWider ==
  ASSUME NEW losses, NEW from \in Nat, NEW to \in Nat, NEW later \in Nat, to <= later
  PROVE  EndsIn(losses, from, to) <= EndsIn(losses, 0, later)
<1>1. \A n \in from + 1 .. to : n \in 0 + 1 .. later
  OBVIOUS
<1>2. EndsAmong(losses, from, to) \subseteq EndsAmong(losses, 0, later)
  BY <1>1 DEF EndsAmong
<1>3. 0 \in Nat
  OBVIOUS
<1> QED
  BY <1>2, <1>3, EndsInBounds, FS_Subset

\* A character that main() stores is within a line of what the lost ends account for.
LEMMA StoredInRoom ==
  ASSUME TextsAreLines, PlaceInv, RoomInv, ReadChar \/ ReadError
  PROVE  index + 1 <= LongestLine * (1 + LostEnds)
<1>0. KindInv /\ WireInv /\ OrderInv /\ LongestLine \in Nat
  BY DEF PlaceInv, TextsAreLines
<1>1. 1 \in 1 .. Len(fifo) + 1 /\ 0 \in 0 .. Len(fifo) /\ Len(sent) \in Nat
      /\ index \in Nat /\ ended \in Nat /\ pc = "read"
  BY <1>0 DEF KindInv, OrderInv, ReadChar, ReadError
<1>2. PICK place : place = Received(1)
  OBVIOUS
<1>3. /\ place.line \in 1 .. Len(sent) + 1 /\ place.at \in Nat \ {0}
      /\ place.line <= Len(sent) => IsPlace(place)
      /\ place.line = Len(sent) + 1 => place.at = 1
  BY <1>0, <1>1, <1>2, ReceivedFacts
<1>4. place.line <= Len(sent) => place.at <= LongestLine
  <2> SUFFICES ASSUME place.line <= Len(sent) PROVE place.at <= LongestLine
    OBVIOUS
  <2>1. place.line \in 1 .. Len(sent) /\ place.at <= Len(TextOf(place.line))
    BY <1>3 DEF IsPlace
  <2> QED
    BY <1>0, <1>3, <2>1, TextFacts
<1> DEFINE a == EndsIn(lost, ended, place.line - 1)
<1>5. a \in Nat /\ LostEnds \in Nat /\ a <= LostEnds
  <2>1. place.line - 1 \in Nat /\ place.line - 1 <= Len(sent) /\ 0 \in Nat
    BY <1>1, <1>3
  <2> QED
    BY <1>1, <2>1, EndsInBounds, EndsInWider DEF LostEnds
<1>6. index + Failing(1) <= LongestLine * a + (place.at - 1)
  <2>1. RoomAt(0, 1)
    BY <1>1 DEF RoomInv, Since
  <2>2. Kept(0) = index /\ From(0) = ended /\ Failing(1) \in {0, 1}
    BY <1>1 DEF Kept, From, Failing
  <2>3. index + (1 - 1 - 0) + Failing(1) = index + Failing(1)
    BY <1>1, <2>2
  <2> QED
    BY <1>2, <2>1, <2>2, <2>3 DEF RoomAt, Room
<1> HIDE DEF a
<1>7. /\ LongestLine * a \in Nat /\ LongestLine * LostEnds \in Nat
      /\ LongestLine * a <= LongestLine * LostEnds
      /\ LongestLine * (LostEnds + 1) = LongestLine * LostEnds + LongestLine
  BY <1>0, <1>5, Times
<1>8. LostEnds + 1 = 1 + LostEnds
  BY <1>5
<1>9. CASE ReadChar
  <2>1. place = fifo[1] /\ IsPlace(fifo[1]) /\ Len(fifo) \in Nat \ {0}
    <3>1. fifo # <<>> /\ IsPlace(fifo[1])
      BY <1>0, <1>9, ReadDoes
    <3>2. Len(fifo) \in Nat \ {0}
      BY <1>0, <3>1 DEF KindInv
    <3> QED
      BY <1>2, <3>1, <3>2 DEF Received
  <2>2. place.line <= Len(sent) /\ Failing(1) = 0
    BY <1>1, <2>1 DEF IsPlace, Failing
  <2> QED
    BY <1>0, <1>1, <1>3, <1>4, <1>6, <1>7, <1>8, <2>2
<1>10. CASE ReadError
  <2>1. Failing(1) = 1
    BY <1>10 DEF ReadError, Failing
  <2>2. place.at - 1 <= LongestLine
    BY <1>0, <1>1, <1>3, <1>4
  <2> QED
    BY <1>0, <1>1, <1>3, <1>6, <1>7, <1>8, <2>1, <2>2
<1> QED
  BY <1>9, <1>10

\* main() has no more characters in its line buffer, at any time, than one line and
\* one more for every line that has lost its end: so much, and no more, has the
\* buffer to hold.
THEOREM BufferHoldsLostLines == Spec => []HoldsLostLines
<1>0. TextsAreLines /\ LongestLine \in Nat
  BY AllTextsAreLines DEF TextsAreLines
<1>1. Init => PlaceInv /\ RoomInv /\ HoldsLostLines
  <2> SUFFICES ASSUME Init PROVE PlaceInv /\ RoomInv /\ HoldsLostLines
    OBVIOUS
  <2>1. index = 0 /\ Len(sent) = 0 /\ 0 \in Nat
    BY DEF Init
  <2>2. LostEnds \in Nat /\ 1 + LostEnds \in Nat
    BY <2>1, EndsInBounds DEF LostEnds
  <2>3. LongestLine * (1 + LostEnds) \in Nat
    BY <1>0, <2>2, Times
  <2> QED
    BY <1>0, <2>1, <2>2, <2>3, PlaceInvInit, RoomInvInit DEF HoldsLostLines
<1>2. PlaceInv /\ RoomInv /\ HoldsLostLines /\ [Next]_vars
        => PlaceInv' /\ RoomInv' /\ HoldsLostLines'
  <2> SUFFICES ASSUME PlaceInv, RoomInv, HoldsLostLines, [Next]_vars
               PROVE  PlaceInv' /\ RoomInv' /\ HoldsLostLines'
    OBVIOUS
  <2>1. PlaceInv' /\ RoomInv'
    BY <1>0, PlaceInvStep, RoomInvStep
  <2>2. Len(sent) \in Nat /\ Len(sent') \in Nat /\ index \in Nat /\ index' \in Nat
    BY <2>1 DEF PlaceInv, KindInv
  <2>3. Len(sent) <= Len(sent') /\ lost \subseteq lost'
    <3>1. \/ sent' = sent
          \/ \E request \in Requests : sent' = Append(sent, request)
      BY DEF Next, Main, SendParameters, Deliver, ReadChar, ReadError, updateParameters,
             InitializeAllPeripherals, TickPrints, RowsPrinted, vars
    <3>2. lost \subseteq lost'
      BY DEF Next, Main, SendParameters, Deliver, ReadChar, ReadError, updateParameters,
             InitializeAllPeripherals, TickPrints, RowsPrinted, vars, uart_vars
    <3>3. \A request \in Requests : Len(Append(sent, request)) = Len(sent) + 1
      BY DEF PlaceInv, KindInv
    <3> QED
      BY <2>2, <3>1, <3>2, <3>3
  <2>4. /\ LostEnds \in Nat /\ LostEnds' \in Nat /\ LostEnds <= LostEnds'
    <3>1. 0 \in Nat
      OBVIOUS
    <3> QED
      BY <2>2, <2>3, <3>1, EndsInBounds, EndsInGrows DEF LostEnds
  <2>5. \A a, b \in Nat : a <= b =>
          /\ {LongestLine * (1 + a), LongestLine * (1 + b)} \subseteq Nat
          /\ LongestLine * (1 + a) <= LongestLine * (1 + b)
    <3> SUFFICES ASSUME NEW a \in Nat, NEW b \in Nat, a <= b
                 PROVE  /\ LongestLine * (1 + a) \in Nat /\ LongestLine * (1 + b) \in Nat
                        /\ LongestLine * (1 + a) <= LongestLine * (1 + b)
      OBVIOUS
    <3>1. 1 + a \in Nat /\ 1 + b \in Nat /\ 1 + a <= 1 + b
      OBVIOUS
    <3> QED
      BY <1>0, <3>1, Times
  <2>6. /\ LongestLine * (1 + LostEnds) \in Nat /\ LongestLine * (1 + LostEnds') \in Nat
        /\ LongestLine * (1 + LostEnds) <= LongestLine * (1 + LostEnds')
    BY <2>4, <2>5
  <2>7. index' <= index \/ (index' = index + 1 /\ (ReadChar \/ ReadError))
    <3>1. CASE ReadChar \/ ReadError
      BY <3>1 DEF ReadChar, ReadError, Store
    <3>2. CASE ~(ReadChar \/ ReadError)
      <4>1. index' = index \/ index' = 0
        BY <3>2 DEF Next, Main, SendParameters, Deliver, updateParameters,
             InitializeAllPeripherals, NextLine, TickPrints, RowsPrinted, vars, line_vars
      <4> QED
        BY <2>2, <4>1
    <3> QED
      BY <3>1, <3>2
  <2>8. (ReadChar \/ ReadError) => index + 1 <= LongestLine * (1 + LostEnds)
    BY <1>0, StoredInRoom
  <2>9. HoldsLostLines'
    BY <2>2, <2>4, <2>6, <2>7, <2>8 DEF HoldsLostLines
  <2> QED
    BY <2>1, <2>9
<1> QED
  BY <1>1, <1>2, PTL DEF Spec

-----------------------------------------------------------------------------
(* A line that comes whole is taken as it was sent.                        *)

\* buffer[index++] = ch of the next character of a line.
LEMMA StoredNext ==
  ASSUME LinesFit, KindInv, NEW place, IsPlace(place), Holds(place.line, place.at - 1),
         index' = index + 1, buffer' = [buffer EXCEPT ![index] = Char(place)], sent' = sent
  PROVE  Holds(place.line, place.at)'
<1>0. PICK n \in 1 .. Len(sent) : n = place.line
  BY DEF IsPlace
<1>10. PICK at \in 1 .. Len(TextOf(n)) : at = place.at
  BY <1>0 DEF IsPlace
<1>1. n = place.line /\ at = place.at
  BY <1>0, <1>10
<1>2. /\ Len(TextOf(n)) \in Nat /\ Len(TextOf(n)) <= LongestLine /\ TextsAreLines
      /\ LongestLine \in Nat /\ LongestLine < BufferSize
  BY AllTextsAreLines, TextFacts DEF LinesFit, TextsAreLines
<1>3. BufferSize \in Nat
  BY SizesAssumption
<1>4. /\ index = at - 1 /\ \A i \in 1 .. at - 1 : buffer[i - 1] = TextOf(n)[i]
      /\ Char(place) = TextOf(n)[at]
  BY <1>1 DEF Holds, Char, TextOf
<1>5. /\ at \in Nat /\ index \in 0 .. BufferSize - 1 /\ index' = at
      /\ \A i \in 1 .. at - 1 : i - 1 \in 0 .. BufferSize - 1 /\ i - 1 # index
  BY <1>2, <1>3, <1>4
<1>6. buffer' = [buffer EXCEPT ![index] = TextOf(n)[at]]
  BY <1>4
<1>7. /\ buffer'[index] = TextOf(n)[at]
      /\ \A i \in 0 .. BufferSize - 1 : i # index => buffer'[i] = buffer[i]
  BY <1>5, <1>6 DEF KindInv
<1>8. \A i \in 1 .. at : buffer'[i - 1] = TextOf(n)[i]
  <2> SUFFICES ASSUME NEW i \in 1 .. at PROVE buffer'[i - 1] = TextOf(n)[i]
    OBVIOUS
  <2>1. CASE i = at
    BY <1>4, <1>7, <2>1
  <2>2. CASE i # at
    <3>1. i \in 1 .. at - 1
      BY <1>5, <2>2
    <3> QED
      BY <1>4, <1>5, <1>7, <3>1
  <2> QED
    BY <2>1, <2>2
<1>9. TextOf(n)' = TextOf(n)
  BY DEF TextOf
<1> QED
  BY <1>1, <1>5, <1>8, <1>9 DEF Holds

\* A character of a line that stays whole follows the one that came before it.
LEMMA WholeDeliver ==
  ASSUME LinesFit, PlaceInv, WholeInv, Deliver
  PROVE  WholeInv'
<1>0. KindInv /\ WireInv /\ OrderInv /\ TextsAreLines
  BY AllTextsAreLines DEF PlaceInv
<1>1. wire # <<>> /\ wire' = Tail(wire) /\ UNCHANGED <<sent, pc, index, buffer>>
  BY DEF Deliver, line_vars
<1>2. PICK this, next : this = Coming /\ next = Coming' /\ Follows(this, next)
  BY <1>0, <1>1, WireMovesOn
<1>3. PICK held \in Nat : held = Len(fifo)
  BY <1>0 DEF KindInv
<1>4. Received(held + 1) = this /\ \A j \in 1 .. held : Received(j) = fifo[j]
  BY <1>2, <1>3 DEF Received
<1>7. CASE Accepted
  <2>1. /\ Len(fifo') = held + 1
        /\ \A j \in 1 .. held : fifo'[j] = fifo[j]
        /\ fifo'[held + 1] = this
        /\ \A j \in 1 .. held + 1 : Received(j)' = Received(j)
        /\ Received(held + 2)' = next
    BY <1>0, <1>2, <1>3, <1>7, FifoGrows
  <2>2. \A j : Failing(j) = 0 /\ Failing(j)' = 0
    BY <1>7 DEF Accepted, Failing
  <2> SUFFICES ASSUME NEW j \in 1 .. held + 2 PROVE WholeAt(j)'
    <3>1. Len(fifo') + 1 = held + 2
      BY <2>1
    <3> QED
      BY <3>1 DEF WholeInv
  <2>3. CASE j = held + 2
    <3>1. j # 1 /\ j - 1 = held + 1
      BY <2>3
    <3>2. Follows(fifo[j - 1], Received(j))'
      BY <1>1, <1>2, <2>1, <2>3, <3>1 DEF Follows, Ends, TextOf
    <3> QED
      BY <2>2, <3>1, <3>2 DEF WholeAt
  <2>4. CASE j \in 1 .. held + 1
    <3>1. WholeAt(j) /\ Received(j)' = Received(j) /\ (j > 1 => fifo'[j - 1] = fifo[j - 1])
      BY <1>3, <2>1, <2>4 DEF WholeInv
    <3>2. CASE Whole(Received(j).line)
      <4>1. j > 1 => Follows(fifo[j - 1], Received(j))'
        BY <1>1, <3>1, <3>2 DEF WholeAt, Follows, Ends, TextOf
      <4>2. j = 1 => IF pc' = "read" THEN Holds(Received(j).line, Received(j).at - 1)'
                                     ELSE Received(j).at' = 1
        BY <1>1, <3>1, <3>2 DEF WholeAt, Holds, TextOf
      <4> QED
        BY <2>2, <4>1, <4>2 DEF WholeAt
    <3>3. CASE ~Whole(Received(j).line)
      <4>1. ~Whole(Received(j).line)'
        BY <1>7, <3>1, <3>3 DEF Accepted, Whole, EndLost
      <4> QED
        BY <4>1 DEF WholeAt
    <3> QED
      BY <3>2, <3>3
  <2> QED
    BY <2>3, <2>4
<1>8. CASE Dropped
  <2>1. /\ fifo' = fifo /\ Received(held + 1)' = next
        /\ \A j \in 1 .. held : Received(j)' = Received(j)
        /\ \A j \in 1 .. held : Failing(j)' = 0
    BY <1>2, <1>3, <1>8 DEF Dropped, Received, Failing
  <2>2. /\ lost \subseteq lost'
        /\ [line |-> this.line, end |-> Ends(this)] \in lost'
    BY <1>2, <1>8 DEF Dropped
  <2> SUFFICES ASSUME NEW j \in 1 .. held + 1 PROVE WholeAt(j)'
    BY <1>3, <2>1 DEF WholeInv
  <2>3. CASE j = held + 1
    <3>1. ~Whole(next.line)'
      <4>1. CASE Ends(this)
        <5>1. Ends(this) = TRUE
          BY <4>1 DEF Ends
        <5>2. [line |-> this.line, end |-> TRUE] \in lost'
          BY <2>2, <5>1
        <5>3. this.line = next.line - 1
          <6>1. this.line \in Nat
            BY <1>0, <1>2, ComingFacts DEF Place
          <6> QED
            BY <1>2, <4>1, <6>1 DEF Follows
        <5> QED
          BY <5>2, <5>3 DEF Whole, EndLost
      <4>2. CASE ~Ends(this)
        <5>1. Ends(this) = FALSE
          BY <4>2 DEF Ends
        <5>2. [line |-> this.line, end |-> FALSE] \in lost'
          BY <2>2, <5>1
        <5> QED
          BY <1>2, <4>2, <5>2 DEF Whole, Follows
      <4> QED
        BY <4>1, <4>2
    <3>2. Received(j)' = next
      BY <2>1, <2>3
    <3>3. ~Whole(Received(j).line)'
      BY <3>1, <3>2 DEF Whole, EndLost
    <3> QED
      BY <3>3 DEF WholeAt
  <2>4. CASE j \in 1 .. held
    <3> SUFFICES ASSUME Whole(Received(j).line)' PROVE WholeAt(j)'
      BY DEF WholeAt
    <3>1. WholeAt(j) /\ Received(j)' = Received(j) /\ Failing(j)' = 0
      BY <1>3, <2>1, <2>4 DEF WholeInv
    <3>2. Whole(Received(j).line)
      BY <2>2, <3>1 DEF Whole, EndLost
    <3>3. j > 1 => Follows(fifo[j - 1], Received(j))'
      BY <1>1, <2>1, <3>1, <3>2 DEF WholeAt, Follows, Ends, TextOf
    <3>4. j = 1 => IF pc' = "read" THEN Holds(Received(j).line, Received(j).at - 1)'
                                   ELSE Received(j).at' = 1
      BY <1>1, <3>1, <3>2 DEF WholeAt, Holds, TextOf
    <3> QED
      BY <3>1, <3>3, <3>4 DEF WholeAt
  <2> QED
    BY <2>3, <2>4
<1> QED
  BY <1>0, <1>7, <1>8, DeliverDoes

\* main() stores the characters of a whole line one behind the other.
LEMMA WholeRead ==
  ASSUME LinesFit, PlaceInv, WholeInv, ReadChar
  PROVE  WholeInv'
<1>0. KindInv /\ WireInv /\ OrderInv /\ TextsAreLines
  BY AllTextsAreLines DEF PlaceInv
<1>1. /\ pc = "read" /\ fifo # <<>> /\ fifo' = Tail(fifo)
      /\ UNCHANGED <<wire, sent, overrun, lost>>
      /\ fifo[1] \in Place /\ IsPlace(fifo[1])
      /\ index' = index + 1 /\ buffer' = [buffer EXCEPT ![index] = Char(fifo[1])]
      /\ Ends(fifo[1]) => pc' = "line"
      /\ ~Ends(fifo[1]) => pc' = "read"
  BY <1>0, ReadDoes
<1>2. /\ Len(fifo) \in Nat \ {0} /\ Len(fifo') = Len(fifo) - 1 /\ fifo[1] = Received(1)
      /\ \A j \in 1 .. Len(fifo') : fifo'[j] = fifo[j + 1]
      /\ \A j \in 1 .. Len(fifo') + 1 : Received(j)' = Received(j + 1)
                                     /\ j + 1 \in 1 .. Len(fifo) + 1
  BY <1>0, <1>1, FifoShrinks
<1> SUFFICES ASSUME NEW j \in 1 .. Len(fifo') + 1, Whole(Received(j).line)'
             PROVE  WholeAt(j)'
  BY DEF WholeInv, WholeAt
<1>3. /\ Received(j)' = Received(j + 1) /\ WholeAt(j + 1) /\ Whole(Received(j + 1).line)
  <2>1. Received(j)' = Received(j + 1) /\ j + 1 \in 1 .. Len(fifo) + 1
    BY <1>2
  <2> QED
    BY <1>1, <2>1 DEF WholeInv, Whole, EndLost
<1>4. Failing(j + 1) = 0 /\ Follows(fifo[j], Received(j + 1))
  <2>1. j + 1 > 1 /\ (j + 1) - 1 = j
    BY <1>2
  <2> QED
    BY <1>3, <2>1 DEF WholeAt
<1>5. Failing(j)' = 0
  <2>1. CASE j = Len(fifo') + 1
    <3>1. j + 1 = Len(fifo) + 1
      BY <1>2, <2>1
    <3>2. ~overrun
      BY <1>4, <3>1 DEF Failing
    <3>3. overrun' = FALSE
      BY <1>0, <1>1, <3>2 DEF KindInv
    <3> QED
      BY <3>3 DEF Failing
  <2>2. CASE j # Len(fifo') + 1
    BY <2>2 DEF Failing
  <2> QED
    BY <2>1, <2>2
<1>6. j > 1 => Follows(fifo[j - 1], Received(j))'
  <2> SUFFICES ASSUME j > 1 PROVE Follows(fifo[j - 1], Received(j))'
    OBVIOUS
  <2>1. j - 1 \in 1 .. Len(fifo') /\ (j - 1) + 1 = j
    BY <1>2
  <2>2. fifo'[j - 1] = fifo[j]
    BY <1>2, <2>1
  <2> QED
    BY <1>1, <1>3, <1>4, <2>2 DEF Follows, Ends, TextOf
<1>7. j = 1 => IF pc' = "read" THEN Holds(Received(j).line, Received(j).at - 1)'
                               ELSE Received(j).at' = 1
  <2> SUFFICES ASSUME j = 1
               PROVE  IF pc' = "read" THEN Holds(Received(j).line, Received(j).at - 1)'
                                      ELSE Received(j).at' = 1
    OBVIOUS
  <2>1. PICK this, next : this = fifo[1] /\ next = Received(j + 1) /\ Follows(this, next)
    BY <1>4
  <2>2. CASE Ends(this)
    BY <1>1, <1>3, <2>1, <2>2 DEF Follows
  <2>3. CASE ~Ends(this)
    <3>1. next.line = this.line /\ next.at = this.at + 1 /\ pc' = "read"
      BY <1>1, <2>1, <2>3 DEF Follows
    <3>2. WholeAt(1) /\ Received(1) = this /\ Whole(this.line)
      <4>1. 1 \in 1 .. Len(fifo) + 1
        BY <1>2
      <4> QED
        BY <1>2, <1>3, <2>1, <3>1, <4>1 DEF WholeInv
    <3>3. Holds(this.line, this.at - 1)
      BY <1>1, <3>2 DEF WholeAt
    <3>4. IsPlace(this) /\ this.at \in Nat /\ buffer' = [buffer EXCEPT ![index] = Char(this)]
      BY <1>1, <2>1 DEF Place
    <3>5. Holds(this.line, this.at)'
      BY <1>0, <1>1, <3>3, <3>4, StoredNext
    <3>6. Received(j)'.line = this.line /\ Received(j)'.at - 1 = this.at
      BY <1>3, <2>1, <3>1, <3>4
    <3>7. Holds(Received(j).line, Received(j).at - 1)'
      BY <3>5, <3>6 DEF Holds, TextOf
    <3> QED
      BY <3>1, <3>7
  <2> QED
    BY <2>2, <2>3
<1> QED
  BY <1>5, <1>6, <1>7 DEF WholeAt

\* A line that is sent comes after all that is known of the others.
LEMMA WholeSent ==
  ASSUME LinesFit, PlaceInv, WholeInv, SendParameters
  PROVE  WholeInv'
<1>0. KindInv /\ WireInv /\ OrderInv /\ TextsAreLines
  BY AllTextsAreLines DEF PlaceInv
<1>1. PICK request \in Requests : sent' = Append(sent, request)
  BY DEF SendParameters
<1>2. /\ UNCHANGED <<fifo, overrun, lost, pc, index, buffer>> /\ Coming' = Coming
      /\ \A n \in 1 .. Len(sent) : TextOf(n)' = TextOf(n)
      /\ \A place : IsPlace(place) => (Ends(place)' <=> Ends(place))
  BY <1>0, <1>1, WireGrows, SentStays DEF SendParameters, line_vars
<1>3. PICK held \in Nat : held = Len(fifo)
  BY <1>0 DEF KindInv
<1> SUFFICES ASSUME NEW j \in 1 .. held + 1, Whole(Received(j).line)' PROVE WholeAt(j)'
  BY <1>2, <1>3 DEF WholeInv, WholeAt
<1>4. /\ WholeAt(j) /\ Received(j)' = Received(j) /\ Failing(j)' = Failing(j)
      /\ Whole(Received(j).line)
  BY <1>2, <1>3 DEF WholeInv, Received, Failing, Whole, EndLost
<1>5. j > 1 => Follows(fifo[j - 1], Received(j))'
  <2> SUFFICES ASSUME j > 1 PROVE Follows(fifo[j - 1], Received(j))'
    OBVIOUS
  <2>1. j - 1 \in 1 .. Len(fifo)
    BY <1>3
  <2>2. IsPlace(fifo[j - 1])
    BY <1>0, <2>1 DEF OrderInv
  <2>3. Ends(fifo[j - 1])' <=> Ends(fifo[j - 1])
    BY <1>2, <2>2
  <2> QED
    BY <1>2, <1>4, <2>3 DEF WholeAt, Follows
<1>6. j = 1 => IF pc' = "read" THEN Holds(Received(j).line, Received(j).at - 1)'
                               ELSE Received(j).at' = 1
  <2> SUFFICES ASSUME j = 1, pc = "read" PROVE Holds(Received(j).line, Received(j).at - 1)'
    BY <1>2, <1>4 DEF WholeAt
  <2>1. PICK place : place = Received(j)
    OBVIOUS
  <2>2. Holds(place.line, place.at - 1)
    BY <1>4, <2>1 DEF WholeAt
  <2>3. /\ place.line \in 1 .. Len(sent) + 1 /\ place.at \in Nat \ {0}
        /\ place.line = Len(sent) + 1 => place.at = 1
    BY <1>0, <1>3, <2>1, ReceivedFacts
  <2>4. Holds(place.line, place.at - 1)'
    <3>1. CASE place.line = Len(sent) + 1
      <4>1. place.at - 1 = 0 /\ \A i \in 1 .. 0 : FALSE
        BY <2>3, <3>1
      <4> QED
        BY <1>2, <2>2, <4>1 DEF Holds
    <3>2. CASE place.line # Len(sent) + 1
      <4>1. place.line \in 1 .. Len(sent)
        BY <1>0, <2>3, <3>2 DEF KindInv
      <4>2. TextOf(place.line)' = TextOf(place.line)
        BY <1>2, <4>1
      <4> QED
        BY <1>2, <2>2, <4>2 DEF Holds
    <3> QED
      BY <3>1, <3>2
  <2> QED
    BY <1>4, <2>1, <2>4 DEF Holds, TextOf
<1> QED
  BY <1>4, <1>5, <1>6 DEF WholeAt

\* A line that comes whole stands in the line buffer as far as it has been read.
LEMMA WholeInvStep ==
  ASSUME LinesFit, PlaceInv, WholeInv, [Next]_vars
  PROVE  WholeInv'
<1> USE DEF vars, uart_vars, line_vars, param_vars, timer_vars
<1>0. KindInv /\ WireInv /\ OrderInv /\ TextsAreLines
  BY AllTextsAreLines DEF PlaceInv
<1>1. CASE ReadError
  <2>1. fifo = <<>> /\ fifo' = fifo /\ overrun /\ UNCHANGED <<sent, wire, lost>>
    BY <1>1 DEF ReadError
  <2>2. Len(fifo) = 0 /\ Failing(1) = 1 /\ Received(1)' = Received(1) /\ WholeAt(1)
    BY <2>1 DEF Failing, Received, Coming, WholeInv
  <2>3. ~Whole(Received(1).line)
    BY <2>2 DEF WholeAt
  <2>4. WholeAt(1)'
    <3>1. PICK n : n = Received(1).line /\ n = Received(1)'.line
      BY <2>2
    <3>2. lost' = lost /\ ~Whole(n)
      BY <2>1, <2>3, <3>1
    <3>3. ~Whole(n)'
      BY <3>2 DEF Whole, EndLost
    <3> QED
      BY <3>1, <3>3 DEF WholeAt
  <2>5. \A j \in 1 .. Len(fifo') + 1 : j = 1
    BY <2>1, <2>2
  <2> QED
    BY <2>4, <2>5 DEF WholeInv
<1>2. CASE updateParameters \/ InitializeAllPeripherals
  <2>1. /\ UNCHANGED <<sent, wire, fifo, overrun, lost>> /\ pc # "read"
        /\ pc' = "read" => index' = 0
    BY <1>2, BusyDoes
  <2> SUFFICES ASSUME NEW j \in 1 .. Len(fifo) + 1, Whole(Received(j).line)' PROVE WholeAt(j)'
    BY <2>1 DEF WholeInv, WholeAt
  <2>2. /\ WholeAt(j) /\ Received(j)' = Received(j) /\ Failing(j)' = Failing(j)
        /\ Whole(Received(j).line)
    BY <2>1 DEF WholeInv, Received, Coming, Failing, Whole, EndLost
  <2>3. j > 1 => Follows(fifo[j - 1], Received(j))'
    BY <2>1, <2>2 DEF WholeAt, Follows, Ends, TextOf
  <2>4. j = 1 => Received(j).at = 1
    BY <2>1, <2>2 DEF WholeAt
  <2>5. j = 1 /\ pc' = "read" => Holds(Received(j).line, Received(j).at - 1)'
    <3>1. 1 - 1 = 0 /\ \A i \in 1 .. 0 : FALSE
      OBVIOUS
    <3> QED
      BY <2>1, <2>2, <2>4, <3>1 DEF Holds
  <2> QED
    BY <2>2, <2>3, <2>4, <2>5 DEF WholeAt
<1>3. CASE TickPrints \/ RowsPrinted \/ UNCHANGED vars
  <2>1. UNCHANGED <<sent, wire, fifo, lost, overrun, index, buffer, pc>>
    BY <1>3 DEF TickPrints, RowsPrinted
  <2> QED
    BY <2>1 DEF WholeInv, WholeAt, Received, Coming, Failing, Whole, EndLost, Follows, Ends,
                TextOf, Holds
<1> QED
  BY <1>1, <1>2, <1>3, WholeSent, WholeDeliver, WholeRead DEF Next, Main

\* updateParameters on a line that is in the buffer as it was sent.
LEMMA TakenByUpdate ==
  ASSUME LinesFit, PlaceInv, TakenInv, updateParameters
  PROVE  TakenInv'
<1>1. /\ UNCHANGED <<sent, lost, ended>> /\ pc = "line" /\ pc' \in {"read", "init"}
      /\ params' = [f \in 1 .. Fields |-> IF f <= Found THEN Number(f) ELSE params[f]]
  BY DEF updateParameters, uart_vars
<1> SUFFICES ASSUME Whole(ended)
             PROVE  /\ params' = sent[ended].fields /\ active_strips' = sent[ended].strips
                    /\ g_strip_count' = Cardinality(active_strips')
  BY <1>1 DEF TakenInv, Whole, EndLost
<1>2. sent[ended] \in Requests
  BY <1>1 DEF PlaceInv, KindInv, OrderInv
<1>3. PICK request \in Requests : request = sent[ended]
  BY <1>2
<1>4. index = Len(Text[request]) /\ \A n \in 1 .. index : buffer[n - 1] = Text[request][n]
  <2>1. Holds(ended, Len(TextOf(ended)))
    BY <1>1 DEF TakenInv
  <2> QED
    BY <1>3, <2>1 DEF Holds, TextOf
<1>5. /\ Found = Fields + 1
      /\ \A f \in 1 .. Fields : Number(f) = request.fields[f]
      /\ StripsAt(Begin(Fields + 1)) = request.strips
  <2>1. Len(Text[request]) <= LongestLine /\ LongestLine \in Nat /\ LongestLine < BufferSize
        /\ Len(Text[request]) \in Nat /\ BufferSize \in Nat
    BY AllTextsAreLines, SizesAssumption DEF TextsAreLines, LinesFit
  <2>2. HoldsText(request) /\ index < BufferSize /\ buffer \in [0 .. BufferSize - 1 -> Chars]
    BY <1>4, <2>1 DEF HoldsText, PlaceInv, KindInv
  <2> QED
    BY <2>2, TextReadsBack
<1>6. params' = request.fields
  <2>1. Fields \in Nat
    BY SizesAssumption
  <2>2. request.fields \in [1 .. Fields -> Nat]
    BY RequestsAssumption DEF Request
  <2>3. \A f \in 1 .. Fields : f <= Found
    BY <1>5, <2>1
  <2>4. params' = [f \in 1 .. Fields |-> request.fields[f]]
    BY <1>1, <1>5, <2>3
  <2> QED
    BY <2>2, <2>4
<1>7. active_strips' = request.strips /\ g_strip_count' = Cardinality(active_strips')
  BY <1>5 DEF updateParameters, Count
<1> QED
  BY <1>3, <1>6, <1>7

\* Between two lines, the parameters are those of the last line, if it came whole.
LEMMA TakenInvStep ==
  ASSUME LinesFit, PlaceInv, WholeInv, TakenInv, [Next]_vars
  PROVE  TakenInv'
<1> USE DEF vars, uart_vars, line_vars, param_vars, timer_vars
<1>0. KindInv /\ WireInv /\ OrderInv /\ TextsAreLines
  BY AllTextsAreLines DEF PlaceInv
<1>1. CASE UNCHANGED <<pc, ended, index, buffer, params, active_strips, g_strip_count>>
           /\ lost \subseteq lost' /\ \A n \in 1 .. Len(sent) : sent'[n] = sent[n]
  <2>1. Whole(ended)' => Whole(ended)
    BY <1>1 DEF Whole, EndLost
  <2>2. ended > 0 => ended \in 1 .. Len(sent)
    BY <1>0 DEF OrderInv, KindInv
  <2>3. ended > 0 => sent'[ended] = sent[ended]
    BY <1>1, <2>2
  <2> QED
    BY <1>0, <1>1, <2>1, <2>3 DEF TakenInv, Holds, TextOf, OrderInv
<1>2. CASE ReadChar
  <2>1. /\ pc = "read" /\ fifo # <<>> /\ IsPlace(fifo[1]) /\ Received(1) = fifo[1]
        /\ UNCHANGED <<sent, lost, params, active_strips, g_strip_count>>
        /\ index' = index + 1 /\ buffer' = [buffer EXCEPT ![index] = Char(fifo[1])]
        /\ Ends(fifo[1]) => pc' = "line" /\ ended' = fifo[1].line
        /\ ~Ends(fifo[1]) => pc' = "read" /\ ended' = ended
    BY <1>0, <1>2, ReadDoes, FifoShrinks
  <2>2. CASE Ends(fifo[1])
    <3>1. PICK place : place = fifo[1]
      OBVIOUS
    <3>2. pc' = "line" /\ ended' = place.line /\ place.at = Len(TextOf(place.line))
      BY <2>1, <2>2, <3>1 DEF Ends
    <3>3. ASSUME Whole(place.line) PROVE Holds(place.line, place.at)'
      <4>1. 1 \in 1 .. Len(fifo) + 1
        BY <1>0 DEF KindInv
      <4>2. Holds(place.line, place.at - 1)
        BY <2>1, <3>1, <3>3, <4>1 DEF WholeInv, WholeAt
      <4> QED
        BY <1>0, <2>1, <3>1, <4>2, StoredNext
    <3>4. Whole(ended)' => Whole(place.line)
      BY <2>1, <3>2 DEF Whole, EndLost
    <3>5. Whole(ended)' => Holds(ended, Len(TextOf(ended)))'
      BY <2>1, <3>2, <3>3, <3>4 DEF Holds, TextOf
    <3> QED
      BY <3>2, <3>5 DEF TakenInv
  <2>3. CASE ~Ends(fifo[1])
    BY <2>1, <2>3 DEF TakenInv, Whole, EndLost
  <2> QED
    BY <2>2, <2>3
<1>3. CASE ReadError
  BY <1>3 DEF ReadError, TakenInv, Whole, EndLost
<1>4. CASE InitializeAllPeripherals
  <2>1. /\ UNCHANGED <<sent, lost, ended, params, active_strips, g_strip_count>>
        /\ pc = "init" /\ pc' # "line" /\ (pc' = "returned" => ~PlateAccepts(params))
    BY <1>4 DEF InitializeAllPeripherals
  <2>2. PlateAccepts(params)' = PlateAccepts(params)
    BY <2>1 DEF PlateAccepts
  <2> QED
    BY <2>1, <2>2 DEF TakenInv, Whole, EndLost
<1>5. CASE SendParameters
  <2>1. PICK request \in Requests : sent' = Append(sent, request)
    BY <1>5 DEF SendParameters
  <2>2. \A n \in 1 .. Len(sent) : sent'[n] = sent[n]
    BY <1>0, <2>1, SentStays
  <2> QED
    BY <1>1, <1>5, <2>2 DEF SendParameters
<1>6. CASE Deliver
  BY <1>1, <1>6 DEF Deliver
<1>7. CASE TickPrints \/ RowsPrinted \/ UNCHANGED vars
  BY <1>1, <1>7 DEF TickPrints, RowsPrinted
<1> QED
  BY <1>2, <1>3, <1>4, <1>5, <1>6, <1>7, TakenByUpdate DEF Next, Main

\* A line that comes whole sets what the GUI sent, whatever was lost before it and
\* whatever older lines have left in the buffer, as strtok and atoi read such a line
\* back (updateParameters).
THEOREM WholeLinesAreTaken == LinesFit => (Spec => []TakenAsSent)
<1> SUFFICES ASSUME LinesFit PROVE Spec => []TakenAsSent
  OBVIOUS
<1> DEFINE Inv == PlaceInv /\ WholeInv /\ TakenInv
<1>0. TextsAreLines
  BY AllTextsAreLines
<1>1. Init => Inv
  <2> SUFFICES ASSUME Init PROVE Inv
    OBVIOUS
  <2>1. PlaceInv
    BY <1>0, PlaceInvInit
  <2>2. /\ Len(fifo) = 0 /\ ended = 0 /\ pc = "read" /\ index = 0 /\ overrun = FALSE
        /\ Received(1) = [line |-> 1, at |-> 1]
    BY DEF Init, Received, Coming
  <2>3. WholeAt(1)
    <3>1. Failing(1) = 0 /\ Received(1).at - 1 = 0 /\ \A i \in 1 .. 0 : FALSE
      BY <2>2 DEF Failing
    <3>2. Holds(Received(1).line, Received(1).at - 1)
      BY <2>2, <3>1 DEF Holds
    <3> QED
      BY <2>2, <3>1, <3>2 DEF WholeAt
  <2>4. \A j \in 1 .. Len(fifo) + 1 : j = 1
    BY <2>2
  <2>5. TakenInv
    BY <2>2 DEF TakenInv
  <2> QED
    BY <2>1, <2>3, <2>4, <2>5 DEF WholeInv
<1>2. Inv /\ [Next]_vars => Inv'
  BY <1>0, PlaceInvStep, WholeInvStep, TakenInvStep
<1>3. Inv => TakenAsSent
  <2> SUFFICES ASSUME TakenInv PROVE TakenAsSent
    OBVIOUS
  <2>1. params = sent[ended].fields =>
          (PlateAccepts(params) <=> PlateAccepts(sent[ended].fields))
    OBVIOUS
  <2> QED
    BY <2>1 DEF TakenInv, TakenAsSent
<1> HIDE DEF Inv
<1> QED
  BY <1>1, <1>2, <1>3, PTL DEF Spec

\* strtok and atoi make of a line that came as the GUI wrote it what the user asked
\* for (updateParameters), whatever older lines have left behind its end.
THEOREM LinesAreReadBack == LinesFit => (Spec => []ReadsBack)
<1> SUFFICES ASSUME LinesFit PROVE Spec => []ReadsBack
  OBVIOUS
<1>0. TextsAreLines /\ BufferSize \in Nat
  BY AllTextsAreLines, SizesAssumption
<1>1. Init => PlaceInv
  BY <1>0, PlaceInvInit
<1>2. PlaceInv /\ [Next]_vars => PlaceInv'
  BY <1>0, PlaceInvStep
<1>3. PlaceInv => ReadsBack
  <2> SUFFICES ASSUME PlaceInv, NEW request \in Requests, index = Len(Text[request]),
                      \A n \in 1 .. index : buffer[n - 1] = Text[request][n]
               PROVE  /\ Found = Fields + 1
                      /\ \A f \in 1 .. Fields : Number(f) = request.fields[f]
                      /\ StripsAt(Begin(Fields + 1)) = request.strips
    BY DEF ReadsBack
  <2>1. index < BufferSize
    <3>1. Len(Text[request]) \in Nat /\ Len(Text[request]) <= LongestLine /\ LongestLine \in Nat
      BY <1>0 DEF TextsAreLines
    <3> QED
      BY <1>0, <3>1 DEF LinesFit
  <2>2. HoldsText(request) /\ buffer \in [0 .. BufferSize - 1 -> Chars]
    BY DEF HoldsText, PlaceInv, KindInv
  <2> QED
    BY <2>1, <2>2, TextReadsBack
<1> QED
  BY <1>1, <1>2, <1>3, PTL DEF Spec

-----------------------------------------------------------------------------
(* Types.  A token's number is one as long as the line ends in the buffer. *)

LinePlace == [line : 1 .. MaxLines, at : Nat]

\* There are MAX_STRIP_COUNT strips, and no set of strips has more (main.c).
LEMMA StripsCounted ==
  ASSUME NEW strips \in SUBSET Strips
  PROVE  Cardinality(strips) \in 0 .. MAX_STRIP_COUNT
<1>1. MAX_STRIP_COUNT \in Nat /\ IsFiniteSet(Strips) /\ Cardinality(Strips) = MAX_STRIP_COUNT
  <2>1. MAX_STRIP_COUNT \in Nat
    BY SizesAssumption
  <2>2. IsFiniteSet(0 .. MAX_STRIP_COUNT - 1)
        /\ Cardinality(0 .. MAX_STRIP_COUNT - 1) = MAX_STRIP_COUNT
    BY <2>1, FS_Interval
  <2> QED
    BY <2>1, <2>2 DEF Strips
<1>2. IsFiniteSet(strips) /\ Cardinality(strips) <= Cardinality(Strips)
  BY <1>1, FS_Subset
<1>3. Cardinality(strips) \in Nat
  BY <1>2, FS_CardinalityType
<1> QED
  BY <1>1, <1>2, <1>3

\* The variables, by the part of the program they belong to.
SentTyped ==
  /\ sent \in Seq(Requests) /\ Len(sent) \in 0 .. MaxLines
  /\ wire \in Seq(LinePlace) /\ fifo \in Seq(LinePlace)
  /\ overrun \in BOOLEAN /\ lost \subseteq [line : 1 .. MaxLines, end : BOOLEAN]
  /\ ended \in 0 .. MaxLines

LineTyped ==
  /\ pc \in {"read", "line", "init", "returned"}
  /\ buffer \in [0 .. BufferSize - 1 -> Chars] /\ index \in Nat

ParamsTyped ==
  /\ params \in [1 .. Fields -> Nat]
  /\ active_strips \subseteq Strips /\ g_strip_count \in 0 .. MAX_STRIP_COUNT

TimerTyped == {running, printing} \subseteq BOOLEAN /\ rounds \in 0 .. MaxRounds

\* Places that travel are places of lines that have been sent.
LEMMA SentTypedStep ==
  ASSUME SentTyped, KindInv, [Next]_vars
  PROVE  SentTyped'
<1> USE DEF vars, uart_vars, line_vars, param_vars, timer_vars
<1>0. MaxLines \in Nat
  BY SizesAssumption
<1>1. CASE SendParameters
  <2>1. PICK request \in Requests :
          /\ sent' = Append(sent, request)
          /\ wire' = wire \o [n \in 1 .. Len(Text[request]) |->
                                [line |-> Len(sent) + 1, at |-> n]]
    BY <1>1 DEF SendParameters
  <2>2. Len(sent) < MaxLines /\ UNCHANGED <<fifo, overrun, lost, ended>>
    BY <1>1 DEF SendParameters
  <2>3. Len(sent) + 1 \in 1 .. MaxLines
    BY <1>0, <2>2 DEF SentTyped
  <2>4. sent' \in Seq(Requests) /\ Len(sent') = Len(sent) + 1
    BY <2>1 DEF SentTyped
  <2> DEFINE long == Len(Text[request])
             new  == [n \in 1 .. long |-> [line |-> Len(sent) + 1, at |-> n]]
  <2>5. long \in Nat
    BY OneNewline
  <2>6. new \in Seq(LinePlace)
    <3> HIDE DEF long
    <3> QED
      BY <2>3, <2>5 DEF LinePlace
  <2>7. wire' = wire \o new /\ wire \in Seq(LinePlace)
    BY <2>1 DEF SentTyped
  <2> HIDE DEF new
  <2>8. wire' \in Seq(LinePlace)
    BY <2>6, <2>7, ConcatProperties, Zenon
  <2> QED
    BY <2>2, <2>3, <2>4, <2>8 DEF SentTyped
<1>2. CASE Deliver
  <2>1. /\ wire # <<>> /\ wire' = Tail(wire) /\ UNCHANGED <<sent, ended>>
        /\ \/ fifo' = Append(fifo, Head(wire)) /\ UNCHANGED <<overrun, lost>>
           \/ /\ overrun' = TRUE /\ UNCHANGED fifo
              /\ lost' = lost \cup {[line |-> Head(wire).line, end |-> Char(Head(wire)) = Newline]}
    BY <1>2 DEF Deliver
  <2>2. Head(wire) \in LinePlace /\ Tail(wire) \in Seq(LinePlace)
    BY <2>1 DEF SentTyped
  <2>3. [line |-> Head(wire).line, end |-> Char(Head(wire)) = Newline]
          \in [line : 1 .. MaxLines, end : BOOLEAN]
    <3>1. PICK e \in BOOLEAN : e = (Char(Head(wire)) = Newline)
      OBVIOUS
    <3>2. Head(wire).line \in 1 .. MaxLines
      BY <2>2 DEF LinePlace
    <3> QED
      BY <3>1, <3>2
  <2>4. CASE fifo' = Append(fifo, Head(wire)) /\ UNCHANGED <<overrun, lost>>
    <3>1. fifo' \in Seq(LinePlace)
      BY <2>2, <2>4 DEF SentTyped
    <3> QED
      BY <2>1, <2>2, <2>4, <3>1 DEF SentTyped
  <2>5. CASE /\ overrun' = TRUE /\ UNCHANGED fifo
             /\ lost' = lost \cup {[line |-> Head(wire).line, end |-> Char(Head(wire)) = Newline]}
    <3>1. lost' \subseteq [line : 1 .. MaxLines, end : BOOLEAN]
      BY <2>3, <2>5 DEF SentTyped
    <3> QED
      BY <2>1, <2>2, <2>5, <3>1 DEF SentTyped
  <2> QED
    BY <2>1, <2>4, <2>5
<1>3. CASE ReadChar
  <2>1. /\ fifo # <<>> /\ fifo' = Tail(fifo) /\ UNCHANGED <<sent, wire, overrun, lost>>
        /\ ended' = Head(fifo).line \/ ended' = ended
    BY <1>3 DEF ReadChar
  <2>2. Head(fifo) \in LinePlace /\ Tail(fifo) \in Seq(LinePlace)
    BY <2>1 DEF SentTyped
  <2>3. Head(fifo).line \in 0 .. MaxLines
    BY <1>0, <2>2 DEF LinePlace
  <2> QED
    BY <2>1, <2>2, <2>3 DEF SentTyped
<1>4. CASE ReadError
  BY <1>4 DEF ReadError, SentTyped
<1>5. CASE UNCHANGED <<sent, uart_vars, ended>>
  BY <1>5 DEF SentTyped
<1> QED
  BY <1>1, <1>2, <1>3, <1>4, <1>5
     DEF Next, Main, updateParameters, InitializeAllPeripherals, TickPrints, RowsPrinted

\* What updateParameters (main.c) stores are natural numbers and strips.
LEMMA ParamsTypedStep ==
  ASSUME ParamsTyped, LineTyped, index < BufferSize, [Next]_vars
  PROVE  ParamsTyped'
<1> USE DEF vars, uart_vars, line_vars, param_vars, timer_vars
<1>1. CASE updateParameters
  <2>1. params' = [f \in 1 .. Fields |-> IF f <= Found THEN Number(f) ELSE params[f]]
    BY <1>1 DEF updateParameters
  <2>2. \A f \in 1 .. Fields : f <= Found => Number(f) \in Nat
    BY NumberIsNatural DEF LineTyped
  <2>3. params' \in [1 .. Fields -> Nat]
    <3>1. \A f \in 1 .. Fields : params[f] \in Nat
      BY DEF ParamsTyped
    <3> QED
      BY <2>1, <2>2, <3>1
  <2>4. /\ active_strips' \subseteq Strips
        /\ g_strip_count' = g_strip_count \/ g_strip_count' = Cardinality(active_strips')
    <3>1. StripsAt(Begin(Fields + 1)) \subseteq Strips
      BY DEF StripsAt
    <3> QED
      BY <1>1, <3>1 DEF updateParameters, Count
  <2>5. Cardinality(active_strips') \in 0 .. MAX_STRIP_COUNT
    BY <2>4, StripsCounted
  <2> QED
    BY <2>3, <2>4, <2>5 DEF ParamsTyped
<1>2. CASE UNCHANGED param_vars
  BY <1>2 DEF ParamsTyped
<1> QED
  BY <1>1, <1>2 DEF Next, Main, SendParameters, Deliver, ReadChar, ReadError,
                    InitializeAllPeripherals, TickPrints, RowsPrinted

\* Rounds are counted up to the model's bound.
LEMMA TimerTypedStep ==
  ASSUME TimerTyped, [Next]_vars
  PROVE  TimerTyped'
<1> USE DEF vars, uart_vars, line_vars, param_vars, timer_vars
<1>1. MaxRounds \in Nat
  BY SizesAssumption
<1>2. CASE TickPrints
  BY <1>1, <1>2 DEF TickPrints, TimerTyped
<1>3. CASE RowsPrinted
  BY <1>3 DEF RowsPrinted, TimerTyped
<1>4. CASE InitializeAllPeripherals
  BY <1>4 DEF InitializeAllPeripherals, TimerTyped
<1>5. CASE UNCHANGED timer_vars
  BY <1>5 DEF TimerTyped
<1> QED
  BY <1>2, <1>3, <1>4, <1>5 DEF Next, Main, SendParameters, Deliver, ReadChar, ReadError,
                                updateParameters

\* While main() does not write past its line buffer every variable keeps its type
\* (main.c, global.c).
THEOREM ConsoleTypeCorrect == Spec /\ [](index < BufferSize) => []TypeOK
<1> DEFINE Inv == PlaceInv /\ SentTyped /\ ParamsTyped /\ TimerTyped
<1>0. TextsAreLines
  BY AllTextsAreLines
<1>1. Init => Inv
  <2> SUFFICES ASSUME Init PROVE Inv
    OBVIOUS
  <2>1. MaxLines \in Nat /\ MaxRounds \in Nat /\ MAX_STRIP_COUNT \in Nat
    BY SizesAssumption
  <2>2. SentTyped
    <3>1. \A S : <<>> \in Seq(S)
      OBVIOUS
    <3>2. sent = <<>> /\ wire = <<>> /\ fifo = <<>> /\ overrun = FALSE /\ lost = {} /\ ended = 0
      BY DEF Init
    <3>3. sent \in Seq(Requests) /\ wire \in Seq(LinePlace) /\ fifo \in Seq(LinePlace)
      BY <3>1, <3>2
    <3>4. Len(sent) <= MaxLines /\ ended \in 0 .. MaxLines
      BY <2>1, <3>2
    <3>5. overrun \in BOOLEAN
      BY <3>2
    <3> QED
      BY <3>2, <3>3, <3>4, <3>5 DEF SentTyped
  <2>3. ParamsTyped
    <3>1. params = [f \in 1 .. Fields |-> 0] /\ active_strips = {} /\ g_strip_count = 0
      BY DEF Init
    <3> QED
      BY <2>1, <3>1 DEF ParamsTyped
  <2>4. TimerTyped
    <3>1. rounds \in 0 .. MaxRounds
      BY <2>1 DEF Init
    <3>2. {running, printing} \subseteq BOOLEAN
      <4>1. running = FALSE /\ printing = FALSE
        BY DEF Init
      <4> QED
        BY <4>1, Zenon
    <3> QED
      BY <3>1, <3>2 DEF TimerTyped
  <2> QED
    BY <1>0, <2>2, <2>3, <2>4, PlaceInvInit
<1>2. Inv /\ index < BufferSize /\ [Next]_vars => Inv'
  <2> SUFFICES ASSUME Inv, index < BufferSize, [Next]_vars PROVE Inv'
    OBVIOUS
  <2>1. KindInv /\ LineTyped
    BY DEF PlaceInv, KindInv, LineTyped
  <2> QED
    BY <1>0, <2>1, PlaceInvStep, SentTypedStep, ParamsTypedStep, TimerTypedStep
<1>3. Inv => TypeOK
  BY DEF PlaceInv, KindInv, SentTyped, ParamsTyped, TimerTyped, TypeOK, LinePlace
<1> HIDE DEF Inv
<1> QED
  BY <1>1, <1>2, <1>3, PTL DEF Spec

\* main()'s line buffer (global.c) has room for a line, and for one more for each line
\* that has lost its end: then every variable of main.c keeps its type.
THEOREM TypeCorrectWithRoom ==
  Spec /\ [](LongestLine * (1 + LostEnds) < BufferSize) => []TypeOK
<1>1. HoldsLostLines /\ LongestLine * (1 + LostEnds) < BufferSize => index < BufferSize
  <2> SUFFICES ASSUME HoldsLostLines, LongestLine * (1 + LostEnds) < BufferSize
               PROVE  index < BufferSize
    OBVIOUS
  <2>1. LongestLine \in Nat /\ BufferSize \in Nat
    BY AllTextsAreLines, SizesAssumption DEF TextsAreLines
  <2>2. 1 + LostEnds \in Nat
    BY DEF HoldsLostLines
  <2>3. LongestLine * (1 + LostEnds) \in Nat
    BY <2>1, <2>2, Times
  <2> QED
    BY <2>1, <2>3 DEF HoldsLostLines
<1> QED
  BY <1>1, BufferHoldsLostLines, ConsoleTypeCorrect, PTL
=============================================================================
