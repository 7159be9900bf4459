----------------------------- MODULE MCFirewall -----------------------------
(* The constants of FirewallApply that TLC needs by name, and its scenes.  *)
EXTENDS FirewallApply, TLC

CONSTANTS p1, p2, r1, r2, t1

Symmetry == Permutations(Procs) \union Permutations(RuleSets)

\* One front end at a time, with everything that can go wrong.
Troubled ==
    [alone |-> TRUE, requests |-> {"render", "apply", "confirm"},
     verdicts |-> {"ran", "blocked", "unreadable"}, byHand |-> TRUE,
     faults |-> FaultKinds,
     crashAt |-> {"write", "arm", "timer", "load", "save", "promote", "record",
                  "ask", "keep", "undo", "rollSave", "rollSwap"}]

\* Two of them, and the timer, when nobody renders without applying.
Racing ==
    [alone |-> FALSE, requests |-> {"apply", "confirm"},
     verdicts |-> {"ran", "blocked"}, byHand |-> TRUE, faults |-> {"reboot"},
     crashAt |-> {"load", "save", "promote", "ask"}]

\* One that is killed before it loads or while it asks; a timer that may not
\* start.
Abandoned ==
    [Troubled EXCEPT !.faults = {"timer"},
                     !.crashAt = {"write", "arm", "timer", "load", "ask", "keepLock"}]

\* Two, one of which may render without applying.
Rendering ==
    [alone |-> FALSE, requests |-> {"render", "apply"}, verdicts |-> {"ran"},
     byHand |-> FALSE, faults |-> {}, crashAt |-> {}]

SafetyScenes == {Troubled, Racing}
LiveScenes == {Abandoned}
RenderScenes == {Rendering}
=============================================================================
