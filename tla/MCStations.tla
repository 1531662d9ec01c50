------------------------------ MODULE MCStations ------------------------------
(* Model values for StationTable; peers, pairwise keys and traffic          *)
(* identifiers are interchangeable.                                         *)
EXTENDS StationTable, TLC

CONSTANTS s1, s2, k1, k2, t1, t2

Symmetric ==
    Permutations({s1, s2}) \cup Permutations({k1, k2}) \cup Permutations({t1, t2})
=============================================================================
