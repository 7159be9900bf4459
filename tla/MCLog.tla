-------------------------------- MODULE MCLog --------------------------------
(* The constants of LogIngest that TLC needs by name.                      *)
EXTENDS LogIngest, TLC

CONSTANTS a, b, i1, i2, i3

Symmetry == Permutations(Readers) \union Permutations(Inodes)

Kind(rotations, faults, alone, requests) ==
    [journal |-> FALSE, rotations |-> rotations, faults |-> faults,
     alone |-> alone, requests |-> requests]
Journal(k) == [k EXCEPT !.journal = TRUE]

Renamed == Kind({"rename"}, {"crash", "unreadable"}, FALSE, 2)
\* Truncated in place or renamed, read slower than it turns over, by one
\* process at a time.
Truncated == Kind({"rename", "copytruncate"},
                  {"crash", "unreadable", "outpaced", "late"}, TRUE, 3)
Steady == Kind({"rename"}, {}, FALSE, 3)

SafetyKinds == {Renamed, Journal(Renamed), Truncated}
LiveKinds == {Steady, Journal(Steady)}
=============================================================================
