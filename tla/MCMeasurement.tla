--------------------------- MODULE MCMeasurement ---------------------------
(* Instances of Measurement for TLC: which requests may arrive.            *)
EXTENDS Measurement

Accepted(S) == [strips : S, applies : {TRUE}, plate : {TRUE}]

\* One request that every check on the way accepts, for any set of strips.
MCSingle == <<Accepted(SUBSET Strips)>>

\* A measurement of two strips, then: one strip only, a line that does not parse
\* (a Modbus write that leaves the strips alone), or plate parameters that are
\* rejected.
MCRestart ==
  <<Accepted({{0, 1}}),
    Accepted({{1}})
      \cup {[strips |-> {},  applies |-> FALSE, plate |-> TRUE],
            [strips |-> {0}, applies |-> TRUE,  plate |-> FALSE]}>>

\* One measurement of two strips.
MCTwoStrips == <<Accepted({{0, 1}})>>
=============================================================================
