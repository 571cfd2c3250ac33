------------------------------ MODULE Console ------------------------------
(***************************************************************************)
(* How the PC's parameters reach the board: the line the GUI sends, the    *)
(* UART of the debug console, and main()'s loop that stores characters in  *)
(* its line buffer until a line ends, then parses the buffer with strtok   *)
(* (updateParameters) and initialises the peripherals.  While CTIMER2's    *)
(* handler prints nobody empties the UART.                                 *)
(*                                                                         *)
(* A character is a number: a digit is its value.  The fields before the   *)
(* strips are natural numbers; no decimal point is modelled.               *)
(***************************************************************************)
EXTENDS Integers, Sequences, FiniteSets, FiniteSetsExt, SequencesExt

CONSTANTS
  MAX_STRIP_COUNT,    \* (8)
  Fields,             \* numbers before the strips (6), the first is waveType
  FrequencyField,     \* which of them is desiredFrequency (3)
  FifoDepth,          \* characters the UART's receive FIFO holds (8)
  BufferSize,         \* characters the line buffer holds (256)
  Requests,           \* what the user may ask for
  MaxLines, MaxRounds \* bounds of the model

Strips == 0 .. MAX_STRIP_COUNT - 1
Request == [fields : [1 .. Fields -> Nat], strips : SUBSET Strips]

ASSUME SizesAssumption ==
  /\ {MAX_STRIP_COUNT, Fields, FifoDepth, BufferSize} \subseteq Nat \ {0}
  /\ FrequencyField \in 1 .. Fields /\ {MaxLines, MaxRounds} \subseteq Nat
ASSUME RequestsAssumption ==
  Requests \subseteq Request /\ IsFiniteSet(Requests) /\ Requests # {}

Digits  == 0 .. 9
Comma   == 10
Newline == 11
Junk    == 12       \* GETCHAR's error as a char
Nul     == 13
Chars   == Digits \cup {Comma, Newline, Junk, Nul}

\* send_parameters: the numbers, then a digit per strip.
Decimal[n \in Nat] == IF n < 10 THEN <<n>> ELSE Append(Decimal[n \div 10], n % 10)

Text == [request \in Requests |->
  FlattenSeq([f \in 1 .. Fields |-> Append(Decimal[request.fields[f]], Comma)])
    \o [s \in 1 .. MAX_STRIP_COUNT |-> IF s - 1 \in request.strips THEN 1 ELSE 0]
    \o <<Newline>>]

VARIABLES
  sent,             \* GUI: the requests sent so far, in order
  wire,             \* characters still to come, as places in the lines sent
  fifo, overrun,    \* UART: received characters, and its overrun flag
  lost,             \* history: lines that have lost characters, or their end
  pc,               \* what main() is at
  buffer, index,
  params, active_strips, g_strip_count,
  ended,            \* history: the line whose end main() has read last
  running,          \* the peripherals have been initialised
  printing,         \* CTIMER2's handler prints
  rounds            \* how often it has

line_vars  == <<buffer, index, pc, ended>>
param_vars == <<params, active_strips, g_strip_count>>
uart_vars  == <<wire, fifo, overrun, lost>>
timer_vars == <<running, printing, rounds>>
vars == <<sent, uart_vars, line_vars, param_vars, timer_vars>>

Init ==
  /\ sent = <<>> /\ wire = <<>> /\ fifo = <<>> /\ overrun = FALSE /\ lost = {}
  /\ pc = "read"
  /\ buffer = [n \in 0 .. BufferSize - 1 |-> Nul] /\ index = 0
  /\ params = [f \in 1 .. Fields |-> 0]
  /\ active_strips = {} /\ g_strip_count = 0
  /\ ended = 0 /\ running = FALSE /\ printing = FALSE /\ rounds = 0

-----------------------------------------------------------------------------
(* The GUI and the UART.                                                   *)

SendParameters ==
  /\ Len(sent) < MaxLines
  /\ \E request \in Requests :
       /\ sent' = Append(sent, request)
       /\ wire' = wire \o [n \in 1 .. Len(Text[request]) |->
                             [line |-> Len(sent) + 1, at |-> n]]
  /\ UNCHANGED <<fifo, overrun, lost, line_vars, param_vars, timer_vars>>

\* The character at a place in a line that has been sent.
Char(place) == Text[sent[place.line]][place.at]

\* A character takes longer than the loop of main(), when it runs.  Without room
\* in the FIFO the overrun flag is set; until it is cleared characters are lost.
Deliver ==
  /\ wire # <<>>
  /\ pc = "read" /\ ~printing => fifo = <<>>
  /\ wire' = Tail(wire)
  /\ IF Len(fifo) < FifoDepth /\ ~overrun
       THEN fifo' = Append(fifo, Head(wire)) /\ UNCHANGED <<overrun, lost>>
       ELSE /\ overrun' = TRUE
            /\ lost' = lost \cup {[line |-> Head(wire).line, end |-> Char(Head(wire)) = Newline]}
            /\ UNCHANGED fifo
  /\ UNCHANGED <<sent, line_vars, param_vars, timer_vars>>

-----------------------------------------------------------------------------
(* main()'s loop.                                                          *)

\* buffer[index++] = ch.  Past its end this writes other memory, which is not
\* modelled.
Store(char) == buffer' = [buffer EXCEPT ![index] = char] /\ index' = index + 1

EndsLongLine(char) == char = Newline /\ index > Fields

EndsLine(char) == char = Newline

ReadChar ==
  /\ pc = "read" /\ fifo # <<>>
  /\ fifo' = Tail(fifo)
  /\ Store(Char(Head(fifo)))
  /\ IF EndsLine(Char(Head(fifo))) THEN pc' = "line" /\ ended' = Head(fifo).line
                                   ELSE UNCHANGED <<pc, ended>>
  /\ UNCHANGED <<sent, wire, overrun, lost, param_vars, timer_vars>>

\* LPUART_ReadBlocking looks at the flags while the FIFO is empty, and clears
\* them; GETCHAR returns -1 and main() stores it like any other character.
ReadError ==
  /\ pc = "read" /\ fifo = <<>> /\ overrun
  /\ overrun' = FALSE
  /\ Store(Junk)
  /\ UNCHANGED <<sent, wire, fifo, lost, pc, ended, param_vars, timer_vars>>

-----------------------------------------------------------------------------
(* updateParameters.                                                       *)

\* The buffer ends where the line does.
Line == [buffer EXCEPT ![index] = Nul]

\* strtok skips commas; a token reaches to the next one or the end of the line.
Begins    == {p \in 0 .. index - 1 : Line[p] # Comma /\ (p = 0 \/ Line[p - 1] = Comma)}
Begin(t)  == CHOOSE p \in Begins : Cardinality({b \in Begins : b < p}) = t - 1
End(t)    == Min({q \in Begin(t) .. index : Line[q] \in {Comma, Nul}})
Found     == Min({Cardinality(Begins), Fields + 1})

\* What strtok has made of the buffer after its calls: the commas behind the
\* tokens it has returned are gone.
Cut == [n \in DOMAIN Line |-> IF \E t \in 1 .. Found : n = End(t) THEN Nul ELSE Line[n]]

\* atoi: the digits the token begins with.
Number(t) ==
  LET stop == Min({q \in Begin(t) .. index : Line[q] \notin Digits})
      value[q \in Begin(t) .. stop] ==
        IF q = Begin(t) THEN 0 ELSE 10 * value[q - 1] + Line[q - 1]
  IN value[stop]

StripsFromOne(p) == {s \in Strips : p + s - 1 \in DOMAIN Cut /\ Cut[p + s - 1] = 1}

\* token[i] == '1' for all strips, also behind the end of a token that is too
\* short, where an older line may have left something.
StripsAt(p) == {s \in Strips : p + s \in DOMAIN Cut /\ Cut[p + s] = 1}

CountOn(strips) == g_strip_count + Cardinality(strips)

Count(strips) == Cardinality(strips)

\* index = 0; buffer[0] = '\0';
KeepsFailed(text, parsed) ==
  buffer' = text /\ index' = IF parsed THEN 0 ELSE index

NextLine(text, parsed) == buffer' = [text EXCEPT ![0] = Nul] /\ index' = 0

\* The strips are switched off first.  A missing token ends it: what has been
\* parsed stays, the strip count included.
updateParameters ==
  /\ pc = "line"
  /\ params' = [f \in 1 .. Fields |-> IF f <= Found THEN Number(f) ELSE params[f]]
  /\ IF Found = Fields + 1
       THEN /\ active_strips' = StripsAt(Begin(Fields + 1))
            /\ g_strip_count' = Count(active_strips')
            /\ pc' = "init" /\ buffer' = Cut /\ UNCHANGED index
       ELSE /\ active_strips' = {} /\ UNCHANGED g_strip_count
            /\ pc' = "read" /\ NextLine(Cut, FALSE)
  /\ UNCHANGED <<sent, uart_vars, ended, timer_vars>>

\* The hot plate takes wave types 0 to 2 and no frequency that is too low.
PlateAccepts(fields) == fields[1] <= 2 /\ fields[FrequencyField] > 0

\* main() returns when it refuses; the interrupts of an older measurement go on.
InitializeAllPeripherals ==
  /\ pc = "init"
  /\ IF PlateAccepts(params)
       THEN pc' = "read" /\ running' = TRUE /\ NextLine(buffer, TRUE)
       ELSE pc' = "returned" /\ UNCHANGED <<running, buffer, index>>
  /\ UNCHANGED <<sent, uart_vars, ended, param_vars, printing, rounds>>

-----------------------------------------------------------------------------

\* CTIMER2's handler ends a round and prints its rows, or finds no strip active and
\* prints that, at every tick.
TickPrints ==
  /\ running /\ ~printing /\ rounds < MaxRounds
  /\ printing' = TRUE /\ rounds' = rounds + 1
  /\ UNCHANGED <<sent, uart_vars, line_vars, param_vars, running>>

RowsPrinted ==
  /\ printing
  /\ printing' = FALSE
  /\ UNCHANGED <<sent, uart_vars, line_vars, param_vars, running, rounds>>

Main == /\ ~printing
        /\ ReadChar \/ ReadError \/ updateParameters \/ InitializeAllPeripherals

Next == SendParameters \/ Deliver \/ Main \/ TickPrints \/ RowsPrinted

\* What has been sent arrives, a handler ends, and main() runs in between.
Fairness == WF_vars(Deliver) /\ WF_vars(RowsPrinted) /\ WF_vars(Main)

Spec     == Init /\ [][Next]_vars
FairSpec == Spec /\ Fairness
-----------------------------------------------------------------------------
(* Properties.                                                             *)

\* Types of every variable; the shape main.c and global.c declare.
TypeOK ==
  /\ sent \in Seq(Requests)
  /\ {wire, fifo} \subseteq Seq([line : 1 .. MaxLines, at : Nat])
  /\ overrun \in BOOLEAN /\ lost \subseteq [line : 1 .. MaxLines, end : BOOLEAN]
  /\ pc \in {"read", "line", "init", "returned"}
  /\ buffer \in [0 .. BufferSize - 1 -> Chars] /\ index \in Nat
  /\ params \in [1 .. Fields -> Nat]
  /\ active_strips \subseteq Strips /\ g_strip_count \in 0 .. MAX_STRIP_COUNT
  /\ ended \in 0 .. MaxLines
  /\ {running, printing} \subseteq BOOLEAN /\ rounds \in 0 .. MaxRounds

EndLost(n) == [line |-> n, end |-> TRUE] \in lost

\* The line has come as it was sent, and so has the end of the one before it.
Whole(n) ==
  /\ [line |-> n, end |-> FALSE] \notin lost
  /\ ~EndLost(n) /\ ~EndLost(n - 1)

\* Whatever has become of the lines before, and whatever they have left in the
\* line buffer: a line that comes whole (main.c) sets every parameter and every
\* strip to what the GUI sent, and main() goes on if the plate accepts that.
TakenAsSent ==
  pc \in {"read", "returned"} /\ ended > 0 /\ Whole(ended) =>
    /\ params = sent[ended].fields
    /\ active_strips = sent[ended].strips
    /\ g_strip_count = Cardinality(active_strips)
    /\ pc = "returned" => ~PlateAccepts(sent[ended].fields)

\* strtok and atoi make of a line what send_parameters has made a line of,
\* whatever older lines have left behind its end in the line buffer.
ReadsBack ==
  pc = "line" =>
    \A request \in Requests :
      index = Len(Text[request]) /\ (\A n \in 1 .. index : buffer[n - 1] = Text[request][n]) =>
        /\ Found = Fields + 1
        /\ \A f \in 1 .. Fields : Number(f) = request.fields[f]
        /\ StripsAt(Begin(Fields + 1)) = request.strips

\* A line that was garbled leaves the strips and their number in agreement, or no
\* strip on at all: calculate_resistance_array divides by the number of the
\* strips whose rows it writes.
CountFitsStrips ==
  pc # "line" => active_strips = {} \/ g_strip_count = Cardinality(active_strips)

LongestLine == Max({Len(Text[request]) : request \in Requests})

\* Any line fits the line buffer, with a character to spare for its end.
LinesFit == LongestLine < BufferSize

\* main() does not check the index of its line buffer.  The index passes a line's
\* length only by as many lines as have lost their end since main() read one.
IndexBounded ==
  pc = "read" =>
    index <= LongestLine * (1 + Cardinality({n \in ended + 1 .. Len(sent) : EndLost(n)}))

\* The last line is parsed whatever has become of the ones before, unless its end
\* is lost or main() has returned.
LastLineHandled ==
  Len(sent) = MaxLines ~> ended = MaxLines \/ pc = "returned" \/ EndLost(MaxLines)
=============================================================================
