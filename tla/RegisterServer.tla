-------------------------- MODULE RegisterServer --------------------------
(***************************************************************************)
(* What a Modbus master may rely on: it asks one thing at a time, and the  *)
(* server serves the request entirely and at once, or refuses it and       *)
(* changes nothing, before it answers.                                     *)
(***************************************************************************)
CONSTANTS
  Asks,             \* the requests a master may make
  Nothing,          \* no request, no answer
  Start,            \* the registers at first
  After(_, _),      \* the registers after a request has been served
  Replies(_, _)     \* the answers a request may get, given the registers

VARIABLES
  registers,
  request,          \* what the master waits for, if anything
  reply             \* what it has been answered

vars == <<registers, request, reply>>

Init == registers = Start /\ request = Nothing /\ reply = Nothing

Ask ==
  /\ request = Nothing
  /\ request' \in Asks
  /\ UNCHANGED <<registers, reply>>

\* Nobody answers what is meant for another server: Replies is empty then.
Serve ==
  /\ request # Nothing /\ reply = Nothing
  /\ reply' \in Replies(request, registers)
  /\ registers' = After(request, registers)
  /\ UNCHANGED request

\* The master takes the answer, or gives up an unanswered request.
Leave ==
  /\ request # Nothing
  /\ request' = Nothing /\ reply' = Nothing
  /\ UNCHANGED registers

Spec == Init /\ [][Ask \/ Serve \/ Leave]_vars
=============================================================================
