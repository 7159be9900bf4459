------------------------------- MODULE MCDetect -------------------------------
(* Instances of Detect for TLC: two neighbours of a /24 and a host of a /64. *)
EXTENDS Detect, TLC

CONSTANTS h1, h2, s1, net24, net64

MCNetOf == [h \in {h1, h2, s1} |-> IF h = s1 THEN net64 ELSE net24]

MCMultipliers == <<1, 2, 4>>

MCSymmetry == Permutations({h1, h2}) \union Permutations(Procs)
=============================================================================
