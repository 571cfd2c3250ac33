------------------------------ MODULE GuiHost ------------------------------
(***************************************************************************)
(* The PC side, test_gui.py: a thread reads lines from the serial port and *)
(* emits them as a queued signal, the GUI's event loop writes each to the  *)
(* CSV file, and start_measurement sends new parameters and clears that    *)
(* file.  Modal dialogs run the event loop while they are open; closing    *)
(* the window waits for the thread and does not.                           *)
(*                                                                         *)
(* The board is external, and so is pyserial.  Of a line only the          *)
(* measurement it belongs to and its number within it are kept; nothing    *)
(* comes from a port that is not the board's.                              *)
(***************************************************************************)
EXTENDS Integers, Sequences

CONSTANTS
  MaxStarts,     \* bound on the number of times the start button is pressed
  MaxRows,       \* bound on the rows the board prints in one measurement
  MaxConnects    \* bound on the number of times a port is connected to

ASSUME BoundsAssumption == {MaxStarts, MaxRows, MaxConnects} \subseteq Nat

VARIABLES
  toBoard,              \* parameters on their way to the board
  board,                \* the measurement it runs and the rows it has printed
  port,                 \* rows on their way to the PC
  reading,              \* a thread reads the board's port
  flag,                 \* tells that thread to go on
  held,                 \* the line it has read and not yet emitted, if any
  others,               \* the connections whose threads read another port
  failed,               \* history: a read from the board's port has failed
  sending,              \* whose port self.serial_thread has opened
  connects,             \* times a port was connected to
  events,               \* rows emitted, which the event loop has not yet seen
  csv,                  \* rows of the file
  dialog,               \* the dialog that is open, if any
  window,               \* the window is open, waits for the thread, or is closed
  measurement_started,
  starts,               \* times the start button was pressed
  cleared               \* history: starts that cleared the file and sent the board nothing

board_vars  == <<toBoard, board>>
thread_vars == <<reading, flag, held, others, failed>>
gui_vars    == <<sending, connects, dialog, window, measurement_started, starts, cleared>>
vars == <<board_vars, port, thread_vars, events, csv, gui_vars>>

Row == [measurement : 1 .. MaxStarts, number : 1 .. MaxRows]

Init ==
  /\ toBoard = <<>> /\ board = [measurement |-> 0, rows |-> 0]
  /\ port = <<>> /\ events = <<>>
  /\ reading = FALSE /\ flag = FALSE /\ held = <<>> /\ others = {} /\ failed = FALSE
  /\ sending = "nobody" /\ connects = 0
  /\ csv = <<>>
  /\ dialog = "none" /\ window = "open" /\ measurement_started = FALSE
  /\ starts = 0 /\ cleared = {}

-----------------------------------------------------------------------------
(* The board.                                                              *)

BoardTakesParameters ==
  /\ toBoard # <<>>
  /\ board' = [measurement |-> Head(toBoard), rows |-> 0]
  /\ toBoard' = Tail(toBoard)
  /\ UNCHANGED <<port, thread_vars, events, csv, gui_vars>>

BoardPrintsRow ==
  /\ board.measurement # 0 /\ board.rows < MaxRows
  /\ board' = [board EXCEPT !.rows = @ + 1]
  /\ port' = Append(port, [measurement |-> board.measurement, number |-> board.rows + 1])
  /\ UNCHANGED <<toBoard, thread_vars, events, csv, gui_vars>>

-----------------------------------------------------------------------------
(* SerialThread.run.                                                       *)

NeverBusy == TRUE

Emitted == held = <<>>

\* Once the port is closed a read fails, and nothing more is read.
ReadLine ==
  /\ reading /\ flag /\ port # <<>> /\ Emitted
  /\ held' = Append(held, Head(port))
  /\ port' = Tail(port)
  /\ UNCHANGED <<board_vars, reading, flag, others, failed, events, csv, gui_vars>>

BeforeQueued == held \o events

Queued == events \o held

EmitNewData ==
  /\ held # <<>>
  /\ events' = Queued
  /\ held' = <<>>
  /\ UNCHANGED <<board_vars, port, reading, flag, others, failed, csv, gui_vars>>

ReaderEnds ==
  /\ reading /\ ~flag /\ held = <<>>
  /\ reading' = FALSE
  /\ UNCHANGED <<board_vars, port, flag, held, others, failed, events, csv, gui_vars>>

\* A SerialException ends a thread, and nobody is told.
ReaderFails ==
  /\ \/ /\ reading /\ flag /\ held = <<>>
        /\ reading' = FALSE /\ flag' = FALSE /\ failed' = TRUE
        /\ UNCHANGED others
     \/ /\ \E connection \in others : others' = others \ {connection}
        /\ UNCHANGED <<reading, flag, failed>>
  /\ UNCHANGED <<board_vars, port, held, events, csv, gui_vars>>

-----------------------------------------------------------------------------
(* The GUI's thread.                                                       *)

Dropped == <<>>

StillQueued == Tail(events)

write_to_csv ==
  /\ window = "open" /\ events # <<>>
  /\ csv' = Append(csv, Head(events))
  /\ events' = StillQueued
  /\ UNCHANGED <<board_vars, port, thread_vars, gui_vars>>

Idle == window = "open" /\ dialog = "none"

\* A new SerialThread, whose port does not open (a name that is wrong, or a port in
\* use), is the board's, or is another.  The thread of an earlier connection goes
\* on.  Opening drops what the port has received.  Opening one port twice succeeds
\* on some systems and is not modelled.
OpenPort ==
  /\ connects < MaxConnects
  /\ connects' = connects + 1
  /\ sending' \in {"nobody", "other"} \cup IF reading THEN {} ELSE {"board"}
  /\ IF sending' = "board" THEN reading' = TRUE /\ flag' = TRUE /\ port' = <<>>
                           ELSE UNCHANGED <<reading, flag, port>>
  /\ others' = IF sending' = "other" THEN others \cup {connects'} ELSE others

\* A message tells how it went, or that no port has been entered.
connect_serial_port ==
  /\ Idle
  /\ OpenPort \/ UNCHANGED <<connects, sending, reading, flag, port, others>>
  /\ dialog' = "message"
  /\ UNCHANGED <<board_vars, held, failed, events, csv, window, measurement_started,
                 starts, cleared>>

PressStart ==
  /\ Idle /\ starts < MaxStarts
  /\ dialog' = "confirm"
  /\ starts' = starts + 1
  /\ UNCHANGED <<board_vars, port, thread_vars, events, csv, sending, connects, window,
                 measurement_started, cleared>>

Close(box) ==
  /\ dialog = box
  /\ dialog' = "none"
  /\ UNCHANGED <<board_vars, port, thread_vars, events, csv, sending, connects, window,
                 measurement_started, starts, cleared>>

Cancel       == Close("confirm")
CloseMessage == Close("message")

\* An input is not valid, there is no port, or writing to it raises an exception:
\* when a measurement has been started, the file is cleared by then.
StartRefused ==
  /\ dialog = "confirm"
  /\ dialog' \in {"message"} \cup IF sending = "nobody" THEN {} ELSE {"none"}
  /\ IF measurement_started THEN csv' = <<>> /\ cleared' = cleared \cup {starts}
                            ELSE UNCHANGED <<csv, cleared>>
  /\ UNCHANGED <<board_vars, port, thread_vars, events, sending, connects, window,
                 measurement_started, starts>>

\* The parameters are sent before the file is cleared once more, to whatever port
\* was opened last.
SendAndClear ==
  /\ dialog = "confirm" /\ sending # "nobody"
  /\ IF sending = "board" THEN toBoard' = Append(toBoard, starts) /\ UNCHANGED cleared
                          ELSE cleared' = cleared \cup {starts} /\ UNCHANGED toBoard
  /\ csv' = <<>>
  /\ measurement_started' = TRUE
  /\ dialog' = "none"
  /\ UNCHANGED <<board, port, thread_vars, events, sending, connects, window, starts>>

start_measurement == PressStart \/ Cancel \/ StartRefused \/ SendAndClear

NotStopped == UNCHANGED flag

Stopped == flag' = FALSE

AtOnce == window' = "closed"

Joining == window' = IF sending = "nobody" THEN "closed" ELSE "joining"

\* serial_thread.stop() and thread.join().  serial_thread is the last connection:
\* if that one has failed there is nothing to stop or to wait for.
closeEvent ==
  /\ Idle
  /\ IF sending = "board" THEN Stopped ELSE UNCHANGED flag
  /\ others' = others \ {connects}
  /\ Joining
  /\ UNCHANGED <<board_vars, port, reading, held, failed, events, csv, sending, connects,
                 dialog, measurement_started, starts, cleared>>

Joined ==
  /\ window = "joining" /\ (sending = "board" => ~reading)
  /\ window' = "closed"
  /\ UNCHANGED <<board_vars, port, thread_vars, events, csv, sending, connects, dialog,
                 measurement_started, starts, cleared>>

Reader == ReadLine \/ EmitNewData \/ ReaderEnds
Board  == BoardTakesParameters \/ BoardPrintsRow
Next   == Board \/ Reader \/ ReaderFails \/ write_to_csv \/ connect_serial_port \/ start_measurement
            \/ CloseMessage \/ closeEvent \/ Joined

\* The board runs, the thread reads, and the event loop handles events also
\* while a dialog is open.  The user need not do anything.
Fairness == WF_vars(Board) /\ WF_vars(Reader) /\ WF_vars(write_to_csv) /\ WF_vars(Joined)

Spec     == Init /\ [][Next]_vars
FairSpec == Spec /\ Fairness
-----------------------------------------------------------------------------
(* Properties.                                                             *)

\* Types of every variable.
TypeOK ==
  /\ toBoard \in Seq(1 .. MaxStarts)
  /\ board \in [measurement : 0 .. MaxStarts, rows : 0 .. MaxRows]
  /\ {port, held, events, csv} \subseteq Seq(Row) /\ Len(held) <= 1
  /\ {reading, flag, failed, measurement_started} \subseteq BOOLEAN
  /\ others \subseteq 1 .. MaxConnects /\ connects \in 0 .. MaxConnects
  /\ sending \in {"nobody", "board", "other"}
  /\ dialog \in {"none", "confirm", "message"} /\ window \in {"open", "joining", "closed"}
  /\ starts \in 0 .. MaxStarts /\ cleared \subseteq 1 .. MaxStarts

\* The board prints s after r.
Earlier(r, s) ==
  \/ r.measurement < s.measurement
  \/ r.measurement = s.measurement /\ r.number < s.number

\* The file holds rows in the order the board printed them, none twice, and of
\* one measurement without a gap unless a read has failed, whatever write_to_csv
\* still gets of an earlier measurement after start_measurement has cleared the file.
RowsInOrder ==
  \A n \in 1 .. Len(csv) - 1 :
    /\ Earlier(csv[n], csv[n + 1])
    /\ csv[n].measurement = csv[n + 1].measurement /\ ~failed =>
         csv[n + 1].number = csv[n].number + 1

\* closeEvent does not wait for ever, whatever the thread holds and has emitted.
WindowCloses == window = "joining" ~> window = "closed"

\* A closed window leaves no thread of the last connection behind that would keep
\* the program alive (closeEvent); those of earlier connections, which it has not
\* told to stop, it does leave.
NoThreadLeft ==
  window = "closed" /\ (reading \/ others # {}) =>
    /\ connects > 1 /\ connects \notin others
    /\ reading => sending # "board" /\ flag

\* Everything the board prints in its last measurement ends up in the file while
\* the window is open, unless a later start clears it that sends the board nothing
\* (start_measurement), or a read fails.
EveryRowWritten ==
  \A m \in 1 .. MaxStarts :
    <>[](/\ board.measurement = m /\ toBoard = <<>> /\ \A c \in cleared : c < m
         /\ window = "open" /\ ~failed) =>
      <>[](\A number \in 1 .. MaxRows :
             \E n \in DOMAIN csv : csv[n] = [measurement |-> m, number |-> number])

-----------------------------------------------------------------------------
(* What the program tells its user and does not do.                        *)

\* "Starting a new measurement deletes the data from the previous measurement"
\* (test_gui.py): once the board has its parameters, the file holds its rows.
OldDataDeleted ==
  toBoard = <<>> => \A n \in DOMAIN csv : csv[n].measurement = board.measurement
=============================================================================
