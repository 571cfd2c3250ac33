----------------------------- MODULE MCConsole -----------------------------
(* Instances of Console: what the user asks for.                            *)
EXTENDS Console

\* Numbers of one and of two digits: a line that has lost a character may still
\* be a line, and one the hot plate refuses.
MCRequests ==
  {[fields |-> <<1, 12>>, strips |-> {0, 1}], [fields |-> <<2, 3>>, strips |-> {1}]}

ASSUME LinesAssumption == LinesFit

\* Even when the ends of all lines are lost the line buffer has room for them.
ASSUME RoomAssumption == LongestLine * (1 + MaxLines) < BufferSize
=============================================================================
