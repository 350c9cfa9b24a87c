---------------------------- MODULE MCCollector -----------------------------
(* Collector on one file of three characters that is included twice.       *)
EXTENDS Collector

R(k, b, e) == [f |-> "h", k |-> k, beg |-> b, end |-> e]
P(k, p) == [f |-> "h", k |-> k, p |-> p]

MCSize == [f \in Files |-> 3]
MCRanges == {R(0, 0, 2), R(0, 2, 3), R(1, 0, 1), R(1, 1, 2), R(1, 1, 3)}
MCPositions == {P(0, 2), P(1, 0)}

=============================================================================
