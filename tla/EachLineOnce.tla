---------------------------- MODULE EachLineOnce ----------------------------
(***************************************************************************)
(* What reading a log promises, whoever reads it and however often: a line *)
(* is taken by one read, stored by that read or lost with it, and never    *)
(* taken again, so it is counted once at most.  LogIngest implements it.   *)
(***************************************************************************)
EXTENDS Naturals

CONSTANT Lines

VARIABLES held,     \* taken by a read that has not stored them yet
          counted,  \* counted[l]: how often line l was added to the evidence
          lost      \* taken by a read that died, or overtaken by a rotation

onceVars == <<held, counted, lost>>

OnceInit == held = {} /\ counted = [l \in Lines |-> 0] /\ lost = {}

Taken == held \union lost \union {l \in Lines : counted[l] > 0}

Count(now) ==
    counted' = [l \in Lines |-> counted[l] + IF l \in now THEN 1 ELSE 0]

\* A read claims lines nobody took before, and stores some of them at once.
Claim ==
    \E new \in SUBSET (Lines \ Taken) :
        \E now \in SUBSET new :
            /\ held' = held \union (new \ now)
            /\ Count(now)
            /\ UNCHANGED lost

\* It stores more of what it holds.
Store ==
    \E now \in SUBSET held :
        /\ held' = held \ now
        /\ Count(now)
        /\ UNCHANGED lost

\* It dies with what it holds.
Lose ==
    \E gone \in SUBSET held :
        /\ held' = held \ gone
        /\ lost' = lost \union gone
        /\ UNCHANGED counted

OnceNext == Claim \/ Store \/ Lose

OnceSpec == OnceInit /\ [][OnceNext]_onceVars
=============================================================================
