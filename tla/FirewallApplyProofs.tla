------------------------ MODULE FirewallApplyProofs ------------------------
(***************************************************************************)
(* What TLAPS proves of FirewallApply, for any number of front ends,       *)
(* timers and rule sets: who holds the lock, what boots, that a change is  *)
(* settled once, for any faults; and, where the faults named by the        *)
(* hypotheses are left out, that it implements BootScript and that kernel, *)
(* boot script and recorded signature agree.                               *)
(*                                                                         *)
(* And of Upgrade, for any number of processes, of any releases and with   *)
(* any faults: an upgrade is done once and leaves a copy, and the host's   *)
(* settings survive their move.  The two share no name and no lemma until  *)
(* Uninstall has both on one host: once an uninstall is done, nothing puts *)
(* back what it removed.                                                   *)
(***************************************************************************)
EXTENDS Uninstall, TLAPS

\* No render names the applied script as its output.
OverNever == \A s \in Scenes : "renderOver" \notin s.requests

\* One step, an action at a time: every proof below splits on these.
LEMMA Actions ==
    ASSUME Next
    PROVE  /\ UNCHANGED scene
           /\ \/ ChangeRules \/ SiteApply \/ Reboot
              \/ \E p \in Procs :
                    \/ Prepare(p)
                    \/ RevertByHand(p)
                    \/ AnswerKeep(p)
                    \/ AnswerRevert(p)
                    \/ LockForApply(p)
                    \/ Busy(p)
                    \/ Write(p)
                    \/ WriteFails(p)
                    \/ Decide(p)
                    \/ Arm(p)
                    \/ ArmFails(p)
                    \/ StartTimer(p)
                    \/ NoTimer(p)
                    \/ Load(p)
                    \/ LoadFails(p)
                    \/ SavePrevious(p)
                    \/ Promote(p)
                    \/ PromoteFails(p)
                    \/ Record(p)
                    \/ LockForKeep(p)
                    \/ Keep(p)
                    \/ KeepNothing(p)
                    \/ RollBack(p)
                    \/ RollRun(p)
                    \/ RollSave(p)
                    \/ RollSwap(p)
                    \/ RollFails(p)
                    \/ RecordRevert(p)
                    \/ Crash(p)
              \/ \E t \in Tokens : Fire(t) \/ Deadline(t) \/ GoStale(t)
              \/ \E a \in Actors :
                    \/ LockForRevert(a)
                    \/ GiveUp(a)
                    \/ RevertNothing(a)
                    \/ RevertUndo(a)
                    \/ Undo(a)
                    \/ UndoFails(a)
BY DEF Next, Operator, ProcStep, RevertStep

-----------------------------------------------------------------------------
(* Types.                                                                  *)

PcOK ==
    /\ pc \in [Actors -> ProcLabels \union TimerLabels]
    /\ \A p \in Procs : pc[p] \in ProcLabels
    /\ \A t \in Tokens : pc[t] \in TimerLabels

\* A front end's memory keeps its shape when one field of it changes.
LEMMA JobScript ==
    ASSUME NEW j \in Jobs, NEW s \in Script
    PROVE  [j EXCEPT !.script = s] \in Jobs
BY DEF Jobs

LEMMA JobOutcome ==
    ASSUME NEW j \in Jobs, NEW o \in Outcomes
    PROVE  [j EXCEPT !.outcome = o] \in Jobs
BY DEF Jobs

\* Settling a change moves the settler, and perhaps its timer, to labels of
\* their own.
LEMMA StoppingStep ==
    ASSUME PcOK, NEW a \in Actors, NEW l, NEW t,
           a \in Procs => l \in ProcLabels,
           a \in Tokens => l \in TimerLabels,
           GotoStopping(a, l, t),
           t \in Tokens \union {NoToken}
    PROVE  PcOK'
<1>1. CASE Goto(a, l)
  BY <1>1, ConstantsAssumption DEF Goto, PcOK, Actors
<1>2. CASE pc' = [pc EXCEPT ![a] = l, ![t] = "done"]
  <2>1. "done" \in TimerLabels
    BY DEF TimerLabels
  <2>2. pc' = [[pc EXCEPT ![a] = l] EXCEPT ![t] = "done"]
    BY <1>2
  <2>3. QED
    BY <2>1, <2>2, ConstantsAssumption DEF PcOK, Actors
<1>3. QED
  BY <1>1, <1>2 DEF GotoStopping

\* Every step keeps every variable in its type.
LEMMA TypeStep ==
    ASSUME TypeOK, [Next]_vars
    PROVE  TypeOK'
<1>0. UNCHANGED scene /\ Requests \subseteq Kinds
  BY Actions, ConstantsAssumption DEF vars, TypeOK, Requests
<1> USE <1>0, ConstantsAssumption DEF TypeOK, Actors, Script, Jobs, NoJob, Kinds,
  Outcomes, Goto, ReturnTo, End, Quiescent, GotoStopping, TakeLock, Tok,
  ProcLabels, TimerLabels, db, files, timing, history
<1>1. CASE ChangeRules
  BY <1>1 DEF ChangeRules
<1>2. CASE SiteApply
  BY <1>2 DEF SiteApply
<1>3. CASE Reboot
  BY <1>3 DEF Reboot
<1>4. ASSUME NEW p \in Procs, Prepare(p) PROVE TypeOK'
  <2>1. PICK kind \in Kinds :
           job' = [job EXCEPT ![p] =
                     [script |-> rules, outcome |-> "none", tok |-> NoToken,
                      kind |-> kind]]
    BY <1>4 DEF Prepare
  <2>2. job' \in [Procs -> Jobs]
    BY <2>1
  <2>3. pc' \in [Actors -> ProcLabels \union TimerLabels] /\ cleared' \subseteq RuleSets
    BY <1>4 DEF Prepare, CanBegin
  <2>4. /\ \A q \in Procs : pc'[q] \in ProcLabels
        /\ \A t \in Tokens : pc'[t] \in TimerLabels
    BY <1>4 DEF Prepare, CanBegin
  <2>5. UNCHANGED <<rules, renderedSig, appliedSig, next, applied, prev, pending,
                    age, used, kernel, lock, endorsed, fate>>
    BY <1>4 DEF Prepare
  <2>6. QED
    BY <2>2, <2>3, <2>4, <2>5
<1>5. ASSUME NEW p \in Procs, RevertByHand(p) PROVE TypeOK'
  BY <1>5 DEF RevertByHand
<1>6. ASSUME NEW p \in Procs, AnswerKeep(p) PROVE TypeOK'
  BY <1>6 DEF AnswerKeep
<1>7. ASSUME NEW p \in Procs, AnswerRevert(p) PROVE TypeOK'
  BY <1>7 DEF AnswerRevert
<1>8. ASSUME NEW p \in Procs, LockForApply(p) PROVE TypeOK'
  BY <1>8 DEF LockForApply
<1>9. ASSUME NEW p \in Procs, Busy(p) PROVE TypeOK'
  <2>1. [job[p] EXCEPT !.kind = "render"] \in Jobs
    OBVIOUS
  <2>2. job' \in [Procs -> Jobs]
    BY <1>9, <2>1 DEF Busy
  <2>3. QED
    BY <1>9, <2>2 DEF Busy
<1>10. ASSUME NEW p \in Procs, Write(p) PROVE TypeOK'
  BY <1>10 DEF Write
<1>11. ASSUME NEW p \in Procs, WriteFails(p) PROVE TypeOK'
  BY <1>11 DEF WriteFails
<1>12. ASSUME NEW p \in Procs, Decide(p) PROVE TypeOK'
  BY <1>12, SMTT(60) DEF Decide
<1>13. ASSUME NEW p \in Procs, Arm(p) PROVE TypeOK'
  BY <1>13 DEF Arm
<1>14. ASSUME NEW p \in Procs, ArmFails(p) PROVE TypeOK'
  BY <1>14 DEF ArmFails
<1>15. ASSUME NEW p \in Procs, StartTimer(p) PROVE TypeOK'
  BY <1>15 DEF StartTimer
<1>16. ASSUME NEW p \in Procs, NoTimer(p) PROVE TypeOK'
  BY <1>16 DEF NoTimer, Discard
<1>17. ASSUME NEW p \in Procs, Load(p) PROVE TypeOK'
  BY <1>17, SMTT(20) DEF Load
<1>18. ASSUME NEW p \in Procs, LoadFails(p) PROVE TypeOK'
  BY <1>18 DEF LoadFails, Discard
<1>19. ASSUME NEW p \in Procs, SavePrevious(p) PROVE TypeOK'
  BY <1>19 DEF SavePrevious
<1>20. ASSUME NEW p \in Procs, Promote(p) PROVE TypeOK'
  BY <1>20 DEF Promote
<1>21. ASSUME NEW p \in Procs, PromoteFails(p) PROVE TypeOK'
  BY <1>21 DEF PromoteFails
<1>22. ASSUME NEW p \in Procs, Record(p) PROVE TypeOK'
  BY <1>22 DEF Record
<1>23. ASSUME NEW p \in Procs, LockForKeep(p) PROVE TypeOK'
  BY <1>23 DEF LockForKeep
<1>24. ASSUME NEW p \in Procs, Keep(p) PROVE TypeOK'
  <2>1. job' = [job EXCEPT ![p] = [job[p] EXCEPT !.outcome = "kept"]]
    BY <1>24 DEF Keep
  <2>2. job[p] \in Jobs /\ "kept" \in Outcomes
    OBVIOUS
  <2>3. [job[p] EXCEPT !.outcome = "kept"] \in Jobs
    BY <2>2, JobOutcome
  <2>4. job' \in [Procs -> Jobs]
    BY <2>1, <2>3
  <2>5. GotoStopping(p, "save", job[p].tok)
    BY <1>24 DEF Keep
  <2>6. PcOK'
    BY <2>2, <2>5, StoppingStep DEF PcOK
  <2>7. fate' \in [Tokens -> SUBSET Fates]
    BY <1>24 DEF Keep, Fates
  <2>8. QED
    BY <1>24, <2>4, <2>6, <2>7, SMTT(20) DEF Keep, PcOK
<1>25. ASSUME NEW p \in Procs, KeepNothing(p) PROVE TypeOK'
  BY <1>25 DEF KeepNothing
<1>26. ASSUME NEW p \in Procs, RollBack(p) PROVE TypeOK'
  BY <1>26 DEF RollBack
<1>27. ASSUME NEW p \in Procs, RollRun(p) PROVE TypeOK'
  <2>1. job' = [job EXCEPT ![p] = [job[p] EXCEPT !.script = applied]]
    BY <1>27 DEF RollRun
  <2>2. job[p] \in Jobs /\ applied \in Script
    OBVIOUS
  <2>3. [job[p] EXCEPT !.script = applied] \in Jobs
    BY <2>2, JobScript
  <2>4. job' \in [Procs -> Jobs]
    BY <2>1, <2>3
  <2>5. QED
    BY <1>27, <2>4 DEF RollRun
<1>28. ASSUME NEW p \in Procs, RollSave(p) PROVE TypeOK'
  BY <1>28 DEF RollSave
<1>29. ASSUME NEW p \in Procs, RollSwap(p) PROVE TypeOK'
  BY <1>29 DEF RollSwap
<1>30. ASSUME NEW p \in Procs, RollFails(p) PROVE TypeOK'
  BY <1>30 DEF RollFails
<1>31. ASSUME NEW p \in Procs, RecordRevert(p) PROVE TypeOK'
  BY <1>31 DEF RecordRevert
<1>32. ASSUME NEW p \in Procs, Crash(p) PROVE TypeOK'
  BY <1>32 DEF Crash
<1>33. ASSUME NEW t \in Tokens, Fire(t) PROVE TypeOK'
  BY <1>33 DEF Fire
<1>34. ASSUME NEW t \in Tokens, Deadline(t) PROVE TypeOK'
  BY <1>34 DEF Deadline
<1>35. ASSUME NEW t \in Tokens, GoStale(t) PROVE TypeOK'
  BY <1>35 DEF GoStale
<1>36. ASSUME NEW a \in Actors, LockForRevert(a) PROVE TypeOK'
  BY <1>36 DEF LockForRevert
<1>37. ASSUME NEW a \in Actors, GiveUp(a) PROVE TypeOK'
  BY <1>37 DEF GiveUp
<1>38. ASSUME NEW a \in Actors, RevertNothing(a) PROVE TypeOK'
  BY <1>38 DEF RevertNothing
<1>39. ASSUME NEW a \in Actors, RevertUndo(a) PROVE TypeOK'
  <2>1. GotoStopping(a, "undo", pending)
    BY <1>39 DEF RevertUndo, Discard
  <2>2. PcOK'
    BY <2>1, StoppingStep DEF PcOK
  <2>3. fate' \in [Tokens -> SUBSET Fates]
    BY <1>39 DEF RevertUndo, Fates
  <2>4. QED
    BY <1>39, <2>2, <2>3 DEF RevertUndo, Discard, PcOK
<1>40. ASSUME NEW a \in Actors, Undo(a) PROVE TypeOK'
  BY <1>40 DEF Undo
<1>41. ASSUME NEW a \in Actors, UndoFails(a) PROVE TypeOK'
  BY <1>41 DEF UndoFails
<1>42. CASE UNCHANGED vars
  BY <1>42 DEF vars
<1>43. QED
  BY <1>1, <1>2, <1>3, <1>4, <1>5, <1>6, <1>7, <1>8, <1>9, <1>10, <1>11,
    <1>12, <1>13, <1>14, <1>15, <1>16, <1>17, <1>18, <1>19, <1>20, <1>21,
    <1>22, <1>23, <1>24, <1>25, <1>26, <1>27, <1>28, <1>29, <1>30, <1>31,
    <1>32, <1>33, <1>34, <1>35, <1>36, <1>37, <1>38, <1>39, <1>40, <1>41,
    <1>42, Actions

\* Whatever happens, every variable keeps its type.
THEOREM TypeCorrect == Spec => []TypeOK
<1>1. Init => TypeOK
  BY ConstantsAssumption DEF Init, TypeOK, Actors, Script, Jobs, NoJob, Kinds,
    Outcomes, ProcLabels, TimerLabels
<1>2. TypeOK /\ [Next]_vars => TypeOK'
  BY TypeStep
<1>3. QED
  BY <1>1, <1>2, PTL DEF Spec

-----------------------------------------------------------------------------
(* The lock.                                                               *)

\* A run that will apply has the lock from before it writes its script.
LockInv ==
    /\ LockHeld
    /\ \A p \in Procs : pc[p] = "write" /\ job[p].kind \in {"apply", "confirm"}
                       => lock = p

\* No step takes the lock from its holder, or works inside it without it.
LEMMA LockStep ==
    ASSUME TypeOK, LockInv, [Next]_vars
    PROVE  LockInv'
<1> USE ConstantsAssumption DEF LockInv, LockHeld, Locked,
  TypeOK, Actors, Jobs, Goto, ReturnTo, End, Quiescent, GotoStopping,
  TakeLock, Tok, NoJob
<1>1. CASE ChangeRules
  BY <1>1 DEF ChangeRules
<1>2. CASE SiteApply
  BY <1>2 DEF SiteApply
<1>3. CASE Reboot
  BY <1>3 DEF Reboot
<1>4. ASSUME NEW p \in Procs, Prepare(p) PROVE LockInv'
  BY <1>4 DEF Prepare
<1>5. ASSUME NEW p \in Procs, RevertByHand(p) PROVE LockInv'
  BY <1>5 DEF RevertByHand
<1>6. ASSUME NEW p \in Procs, AnswerKeep(p) PROVE LockInv'
  BY <1>6 DEF AnswerKeep
<1>7. ASSUME NEW p \in Procs, AnswerRevert(p) PROVE LockInv'
  BY <1>7 DEF AnswerRevert
<1>8. ASSUME NEW p \in Procs, LockForApply(p) PROVE LockInv'
  BY <1>8 DEF LockForApply
<1>9. ASSUME NEW p \in Procs, Busy(p) PROVE LockInv'
  BY <1>9 DEF Busy
<1>10. ASSUME NEW p \in Procs, Write(p) PROVE LockInv'
  BY <1>10 DEF Write
<1>11. ASSUME NEW p \in Procs, WriteFails(p) PROVE LockInv'
  BY <1>11 DEF WriteFails
<1>12. ASSUME NEW p \in Procs, Decide(p) PROVE LockInv'
  BY <1>12, SMTT(60) DEF Decide
<1>13. ASSUME NEW p \in Procs, Arm(p) PROVE LockInv'
  BY <1>13 DEF Arm
<1>14. ASSUME NEW p \in Procs, ArmFails(p) PROVE LockInv'
  BY <1>14 DEF ArmFails
<1>15. ASSUME NEW p \in Procs, StartTimer(p) PROVE LockInv'
  BY <1>15 DEF StartTimer
<1>16. ASSUME NEW p \in Procs, NoTimer(p) PROVE LockInv'
  BY <1>16 DEF NoTimer, Discard
<1>17. ASSUME NEW p \in Procs, Load(p) PROVE LockInv'
  BY <1>17 DEF Load
<1>18. ASSUME NEW p \in Procs, LoadFails(p) PROVE LockInv'
  BY <1>18 DEF LoadFails, Discard
<1>19. ASSUME NEW p \in Procs, SavePrevious(p) PROVE LockInv'
  BY <1>19 DEF SavePrevious
<1>20. ASSUME NEW p \in Procs, Promote(p) PROVE LockInv'
  BY <1>20 DEF Promote
<1>21. ASSUME NEW p \in Procs, PromoteFails(p) PROVE LockInv'
  BY <1>21 DEF PromoteFails
<1>22. ASSUME NEW p \in Procs, Record(p) PROVE LockInv'
  BY <1>22 DEF Record
<1>23. ASSUME NEW p \in Procs, LockForKeep(p) PROVE LockInv'
  BY <1>23 DEF LockForKeep
<1>24. ASSUME NEW p \in Procs, Keep(p) PROVE LockInv'
  BY <1>24 DEF Keep
<1>25. ASSUME NEW p \in Procs, KeepNothing(p) PROVE LockInv'
  BY <1>25 DEF KeepNothing
<1>26. ASSUME NEW p \in Procs, RollBack(p) PROVE LockInv'
  BY <1>26 DEF RollBack
<1>27. ASSUME NEW p \in Procs, RollRun(p) PROVE LockInv'
  BY <1>27 DEF RollRun
<1>28. ASSUME NEW p \in Procs, RollSave(p) PROVE LockInv'
  BY <1>28 DEF RollSave
<1>29. ASSUME NEW p \in Procs, RollSwap(p) PROVE LockInv'
  BY <1>29 DEF RollSwap
<1>30. ASSUME NEW p \in Procs, RollFails(p) PROVE LockInv'
  BY <1>30 DEF RollFails
<1>31. ASSUME NEW p \in Procs, RecordRevert(p) PROVE LockInv'
  BY <1>31 DEF RecordRevert
<1>32. ASSUME NEW p \in Procs, Crash(p) PROVE LockInv'
  BY <1>32 DEF Crash
<1>33. ASSUME NEW t \in Tokens, Fire(t) PROVE LockInv'
  BY <1>33 DEF Fire
<1>34. ASSUME NEW t \in Tokens, Deadline(t) PROVE LockInv'
  BY <1>34 DEF Deadline
<1>35. ASSUME NEW t \in Tokens, GoStale(t) PROVE LockInv'
  BY <1>35 DEF GoStale
<1>36. ASSUME NEW a \in Actors, LockForRevert(a) PROVE LockInv'
  BY <1>36 DEF LockForRevert
<1>37. ASSUME NEW a \in Actors, GiveUp(a) PROVE LockInv'
  BY <1>37 DEF GiveUp
<1>38. ASSUME NEW a \in Actors, RevertNothing(a) PROVE LockInv'
  BY <1>38 DEF RevertNothing
<1>39. ASSUME NEW a \in Actors, RevertUndo(a) PROVE LockInv'
  BY <1>39 DEF RevertUndo, Discard
<1>40. ASSUME NEW a \in Actors, Undo(a) PROVE LockInv'
  BY <1>40 DEF Undo
<1>41. ASSUME NEW a \in Actors, UndoFails(a) PROVE LockInv'
  BY <1>41 DEF UndoFails
<1>42. CASE UNCHANGED vars
  BY <1>42 DEF vars
<1>43. QED
  BY <1>1, <1>2, <1>3, <1>4, <1>5, <1>6, <1>7, <1>8, <1>9, <1>10, <1>11,
    <1>12, <1>13, <1>14, <1>15, <1>16, <1>17, <1>18, <1>19, <1>20, <1>21,
    <1>22, <1>23, <1>24, <1>25, <1>26, <1>27, <1>28, <1>29, <1>30, <1>31,
    <1>32, <1>33, <1>34, <1>35, <1>36, <1>37, <1>38, <1>39, <1>40, <1>41,
    <1>42, Actions

\* At most one front end or timer is inside the lock's scope, at any time.
THEOREM LockExclusion == Spec => []LockHeld
<1>1. Init => LockInv
  BY ConstantsAssumption DEF Init, LockInv, LockHeld, Locked, Actors, NoJob
<1>2. TypeOK /\ LockInv /\ [Next]_vars => LockInv'
  BY LockStep
<1>3. LockInv => LockHeld
  BY DEF LockInv
<1>4. QED
  BY <1>1, <1>2, <1>3, TypeCorrect, PTL DEF Spec

-----------------------------------------------------------------------------
(* What boots.                                                             *)

\* What a front end carries towards the boot script: the script of a run
\* allowed to apply is cleared, one on its way to promotion is endorsed,
\* and a rollback carries the script it will keep as the previous one.
CarryInv ==
    /\ BootScriptCleared /\ BootScriptEndorsed
    /\ \A p \in Procs :
        /\ job[p].kind # "renderOver"
        /\ pc[p] \in {"lock", "write", "decide", "arm", "timer", "load"}
           => job[p].outcome \in {"none", "written"}
        /\ \/ pc[p] \in {"lock", "decide", "arm", "timer", "load", "ask",
                         "keepLock", "keep", "save", "promote"}
           \/ pc[p] = "write" /\ job[p].kind \in {"apply", "confirm"}
           \/ pc[p] = "record" /\ job[p].outcome = "awaiting"
           => job[p].script \in cleared
        /\ pc[p] \in {"keepLock", "keep", "save", "promote"}
           => job[p].script \in endorsed
        /\ pc[p] \in {"rollSave", "rollSwap"}
           => /\ job[p].script \in cleared \union {Absent}
              /\ job[p].script \in endorsed \union {Absent}

\* A script only reaches the boot script, or the one before it, cleared and
\* endorsed: no render names the applied script as its output.
LEMMA CarryStep ==
    ASSUME OverNever, TypeOK, CarryInv, [Next]_vars
    PROVE  CarryInv'
<1>0. "renderOver" \notin Requests
  BY DEF OverNever, TypeOK, Requests
<1> USE ConstantsAssumption DEF CarryInv, BootScriptCleared,
  BootScriptEndorsed, TypeOK, Actors, Script, Jobs, NoJob, Goto, ReturnTo, End,
  Quiescent, GotoStopping, TakeLock, Tok, db, files, timing, history
<1>1. CASE ChangeRules
  BY <1>1 DEF ChangeRules
<1>2. CASE SiteApply
  BY <1>2 DEF SiteApply
<1>3. CASE Reboot
  BY <1>3 DEF Reboot
<1>4. ASSUME NEW p \in Procs, Prepare(p) PROVE CarryInv'
  BY <1>0, <1>4 DEF Prepare, MayApply, MayWrite, Passed
<1>5. ASSUME NEW p \in Procs, RevertByHand(p) PROVE CarryInv'
  BY <1>5 DEF RevertByHand
<1>6. ASSUME NEW p \in Procs, AnswerKeep(p) PROVE CarryInv'
  BY <1>6 DEF AnswerKeep
<1>7. ASSUME NEW p \in Procs, AnswerRevert(p) PROVE CarryInv'
  BY <1>7 DEF AnswerRevert
<1>8. ASSUME NEW p \in Procs, LockForApply(p) PROVE CarryInv'
  BY <1>8 DEF LockForApply
<1>9. ASSUME NEW p \in Procs, Busy(p) PROVE CarryInv'
  BY <1>9 DEF Busy
<1>10. ASSUME NEW p \in Procs, Write(p) PROVE CarryInv'
  BY <1>10 DEF Write
<1>11. ASSUME NEW p \in Procs, WriteFails(p) PROVE CarryInv'
  BY <1>11 DEF WriteFails
<1>12. ASSUME NEW p \in Procs, Decide(p) PROVE CarryInv'
  BY <1>12 DEF Decide
<1>13. ASSUME NEW p \in Procs, Arm(p) PROVE CarryInv'
  BY <1>13 DEF Arm
<1>14. ASSUME NEW p \in Procs, ArmFails(p) PROVE CarryInv'
  BY <1>14 DEF ArmFails
<1>15. ASSUME NEW p \in Procs, StartTimer(p) PROVE CarryInv'
  BY <1>15 DEF StartTimer
<1>16. ASSUME NEW p \in Procs, NoTimer(p) PROVE CarryInv'
  BY <1>16 DEF NoTimer, Discard
<1>17. ASSUME NEW p \in Procs, Load(p) PROVE CarryInv'
  BY <1>17 DEF Load
<1>18. ASSUME NEW p \in Procs, LoadFails(p) PROVE CarryInv'
  BY <1>18 DEF LoadFails, Discard
<1>19. ASSUME NEW p \in Procs, SavePrevious(p) PROVE CarryInv'
  BY <1>19 DEF SavePrevious
<1>20. ASSUME NEW p \in Procs, Promote(p) PROVE CarryInv'
  BY <1>20 DEF Promote
<1>21. ASSUME NEW p \in Procs, PromoteFails(p) PROVE CarryInv'
  BY <1>21 DEF PromoteFails
<1>22. ASSUME NEW p \in Procs, Record(p) PROVE CarryInv'
  BY <1>22 DEF Record
<1>23. ASSUME NEW p \in Procs, LockForKeep(p) PROVE CarryInv'
  BY <1>23 DEF LockForKeep
<1>24. ASSUME NEW p \in Procs, Keep(p) PROVE CarryInv'
  BY <1>24 DEF Keep
<1>25. ASSUME NEW p \in Procs, KeepNothing(p) PROVE CarryInv'
  BY <1>25 DEF KeepNothing
<1>26. ASSUME NEW p \in Procs, RollBack(p) PROVE CarryInv'
  BY <1>26 DEF RollBack
<1>27. ASSUME NEW p \in Procs, RollRun(p) PROVE CarryInv'
  BY <1>27 DEF RollRun
<1>28. ASSUME NEW p \in Procs, RollSave(p) PROVE CarryInv'
  BY <1>28 DEF RollSave
<1>29. ASSUME NEW p \in Procs, RollSwap(p) PROVE CarryInv'
  BY <1>29 DEF RollSwap
<1>30. ASSUME NEW p \in Procs, RollFails(p) PROVE CarryInv'
  BY <1>30 DEF RollFails
<1>31. ASSUME NEW p \in Procs, RecordRevert(p) PROVE CarryInv'
  BY <1>31 DEF RecordRevert
<1>32. ASSUME NEW p \in Procs, Crash(p) PROVE CarryInv'
  BY <1>32 DEF Crash
<1>33. ASSUME NEW t \in Tokens, Fire(t) PROVE CarryInv'
  BY <1>33 DEF Fire
<1>34. ASSUME NEW t \in Tokens, Deadline(t) PROVE CarryInv'
  BY <1>34 DEF Deadline
<1>35. ASSUME NEW t \in Tokens, GoStale(t) PROVE CarryInv'
  BY <1>35 DEF GoStale
<1>36. ASSUME NEW a \in Actors, LockForRevert(a) PROVE CarryInv'
  BY <1>36 DEF LockForRevert
<1>37. ASSUME NEW a \in Actors, GiveUp(a) PROVE CarryInv'
  BY <1>37 DEF GiveUp
<1>38. ASSUME NEW a \in Actors, RevertNothing(a) PROVE CarryInv'
  BY <1>38 DEF RevertNothing
<1>39. ASSUME NEW a \in Actors, RevertUndo(a) PROVE CarryInv'
  BY <1>39 DEF RevertUndo, Discard
<1>40. ASSUME NEW a \in Actors, Undo(a) PROVE CarryInv'
  BY <1>40 DEF Undo
<1>41. ASSUME NEW a \in Actors, UndoFails(a) PROVE CarryInv'
  BY <1>41 DEF UndoFails
<1>42. CASE UNCHANGED vars
  BY <1>42 DEF vars
<1>43. QED
  BY <1>1, <1>2, <1>3, <1>4, <1>5, <1>6, <1>7, <1>8, <1>9, <1>10, <1>11,
    <1>12, <1>13, <1>14, <1>15, <1>16, <1>17, <1>18, <1>19, <1>20, <1>21,
    <1>22, <1>23, <1>24, <1>25, <1>26, <1>27, <1>28, <1>29, <1>30, <1>31,
    <1>32, <1>33, <1>34, <1>35, <1>36, <1>37, <1>38, <1>39, <1>40, <1>41,
    <1>42, Actions

LEMMA CarryHolds ==
    ASSUME OverNever
    PROVE  Spec => []CarryInv
<1>1. Init => CarryInv
  BY ConstantsAssumption DEF Init, CarryInv, BootScriptCleared,
    BootScriptEndorsed, NoJob, Script, Actors
<1>2. TypeOK /\ CarryInv /\ [Next]_vars => CarryInv'
  BY CarryStep
<1>3. QED
  BY <1>1, <1>2, TypeCorrect, PTL DEF Spec

\* What boots, and what a rollback goes back to, passed the lockout guard, or
\* was forced.
THEOREM BootOnlyGuarded ==
    ASSUME OverNever
    PROVE  Spec => []BootScriptCleared
<1>1. CarryInv => BootScriptCleared
  BY DEF CarryInv
<1>2. QED
  BY <1>1, CarryHolds, PTL

\* It was applied with nobody watching, or kept by somebody.
THEOREM BootOnlyKept ==
    ASSUME OverNever
    PROVE  Spec => []BootScriptEndorsed
<1>1. CarryInv => BootScriptEndorsed
  BY DEF CarryInv
<1>2. QED
  BY <1>1, CarryHolds, PTL

-----------------------------------------------------------------------------
(* What a waiting change protects.                                         *)

\* Whoever is about to promote or to roll back has made sure, since it took
\* the lock, that nothing waits.
FreezeInv ==
    \A p \in Procs :
        /\ job[p].kind # "renderOver"
        /\ \/ pc[p] \in {"save", "promote", "rollRun", "rollSave", "rollSwap"}
           \/ pc[p] = "load" /\ job[p].kind # "confirm"
           => ~Waiting
        /\ pc[p] \in {"arm", "timer"} => job[p].kind = "confirm"
        /\ pc[p] \in {"timer", "load"} => ~Waiting \/ job[p].tok = pending

RulesFrozen ==
    Waiting =>
      /\ UNCHANGED <<applied, prev>>
      /\ \/ kernel' \in {kernel, applied}
         \/ \E p \in Procs : job[p].tok = pending /\ pc[p] = "load"

\* A change is only armed under the lock, so nothing starts to wait while
\* somebody promotes.
LEMMA FreezeStep ==
    ASSUME OverNever, TypeOK, LockInv, FreezeInv, [Next]_vars
    PROVE  FreezeInv'
<1>0. "renderOver" \notin Requests
  BY DEF OverNever, TypeOK, Requests
<1> USE ConstantsAssumption DEF FreezeInv, Waiting, LockInv, LockHeld, Locked,
  TypeOK, Actors, Jobs, NoJob, Goto, ReturnTo, End, Quiescent, GotoStopping,
  TakeLock, Tok, timing
<1>1. CASE ChangeRules
  BY <1>1 DEF ChangeRules
<1>2. CASE SiteApply
  BY <1>2 DEF SiteApply
<1>3. CASE Reboot
  BY <1>3 DEF Reboot
<1>4. ASSUME NEW p \in Procs, Prepare(p) PROVE FreezeInv'
  BY <1>0, <1>4 DEF Prepare
<1>5. ASSUME NEW p \in Procs, RevertByHand(p) PROVE FreezeInv'
  BY <1>5 DEF RevertByHand
<1>6. ASSUME NEW p \in Procs, AnswerKeep(p) PROVE FreezeInv'
  BY <1>6 DEF AnswerKeep
<1>7. ASSUME NEW p \in Procs, AnswerRevert(p) PROVE FreezeInv'
  BY <1>7 DEF AnswerRevert
<1>8. ASSUME NEW p \in Procs, LockForApply(p) PROVE FreezeInv'
  BY <1>8 DEF LockForApply
<1>9. ASSUME NEW p \in Procs, Busy(p) PROVE FreezeInv'
  BY <1>9 DEF Busy
<1>10. ASSUME NEW p \in Procs, Write(p) PROVE FreezeInv'
  BY <1>10 DEF Write
<1>11. ASSUME NEW p \in Procs, WriteFails(p) PROVE FreezeInv'
  BY <1>11 DEF WriteFails
<1>12. ASSUME NEW p \in Procs, Decide(p) PROVE FreezeInv'
  BY <1>12 DEF Decide
<1>13. ASSUME NEW p \in Procs, Arm(p) PROVE FreezeInv'
  BY <1>13 DEF Arm
<1>14. ASSUME NEW p \in Procs, ArmFails(p) PROVE FreezeInv'
  BY <1>14 DEF ArmFails
<1>15. ASSUME NEW p \in Procs, StartTimer(p) PROVE FreezeInv'
  BY <1>15 DEF StartTimer
<1>16. ASSUME NEW p \in Procs, NoTimer(p) PROVE FreezeInv'
  BY <1>16 DEF NoTimer, Discard
<1>17. ASSUME NEW p \in Procs, Load(p) PROVE FreezeInv'
  BY <1>17 DEF Load
<1>18. ASSUME NEW p \in Procs, LoadFails(p) PROVE FreezeInv'
  BY <1>18 DEF LoadFails, Discard
<1>19. ASSUME NEW p \in Procs, SavePrevious(p) PROVE FreezeInv'
  BY <1>19 DEF SavePrevious
<1>20. ASSUME NEW p \in Procs, Promote(p) PROVE FreezeInv'
  BY <1>20 DEF Promote
<1>21. ASSUME NEW p \in Procs, PromoteFails(p) PROVE FreezeInv'
  BY <1>21 DEF PromoteFails
<1>22. ASSUME NEW p \in Procs, Record(p) PROVE FreezeInv'
  BY <1>22 DEF Record
<1>23. ASSUME NEW p \in Procs, LockForKeep(p) PROVE FreezeInv'
  BY <1>23 DEF LockForKeep
<1>24. ASSUME NEW p \in Procs, Keep(p) PROVE FreezeInv'
  BY <1>24 DEF Keep
<1>25. ASSUME NEW p \in Procs, KeepNothing(p) PROVE FreezeInv'
  BY <1>25 DEF KeepNothing
<1>26. ASSUME NEW p \in Procs, RollBack(p) PROVE FreezeInv'
  BY <1>26 DEF RollBack
<1>27. ASSUME NEW p \in Procs, RollRun(p) PROVE FreezeInv'
  BY <1>27 DEF RollRun
<1>28. ASSUME NEW p \in Procs, RollSave(p) PROVE FreezeInv'
  BY <1>28 DEF RollSave
<1>29. ASSUME NEW p \in Procs, RollSwap(p) PROVE FreezeInv'
  BY <1>29 DEF RollSwap
<1>30. ASSUME NEW p \in Procs, RollFails(p) PROVE FreezeInv'
  BY <1>30 DEF RollFails
<1>31. ASSUME NEW p \in Procs, RecordRevert(p) PROVE FreezeInv'
  BY <1>31 DEF RecordRevert
<1>32. ASSUME NEW p \in Procs, Crash(p) PROVE FreezeInv'
  BY <1>32 DEF Crash
<1>33. ASSUME NEW t \in Tokens, Fire(t) PROVE FreezeInv'
  BY <1>33 DEF Fire
<1>34. ASSUME NEW t \in Tokens, Deadline(t) PROVE FreezeInv'
  BY <1>34 DEF Deadline
<1>35. ASSUME NEW t \in Tokens, GoStale(t) PROVE FreezeInv'
  BY <1>35 DEF GoStale
<1>36. ASSUME NEW a \in Actors, LockForRevert(a) PROVE FreezeInv'
  BY <1>36 DEF LockForRevert
<1>37. ASSUME NEW a \in Actors, GiveUp(a) PROVE FreezeInv'
  BY <1>37 DEF GiveUp
<1>38. ASSUME NEW a \in Actors, RevertNothing(a) PROVE FreezeInv'
  BY <1>38 DEF RevertNothing
<1>39. ASSUME NEW a \in Actors, RevertUndo(a) PROVE FreezeInv'
  BY <1>39 DEF RevertUndo, Discard
<1>40. ASSUME NEW a \in Actors, Undo(a) PROVE FreezeInv'
  BY <1>40 DEF Undo
<1>41. ASSUME NEW a \in Actors, UndoFails(a) PROVE FreezeInv'
  BY <1>41 DEF UndoFails
<1>42. CASE UNCHANGED vars
  BY <1>42 DEF vars
<1>43. QED
  BY <1>1, <1>2, <1>3, <1>4, <1>5, <1>6, <1>7, <1>8, <1>9, <1>10, <1>11,
    <1>12, <1>13, <1>14, <1>15, <1>16, <1>17, <1>18, <1>19, <1>20, <1>21,
    <1>22, <1>23, <1>24, <1>25, <1>26, <1>27, <1>28, <1>29, <1>30, <1>31,
    <1>32, <1>33, <1>34, <1>35, <1>36, <1>37, <1>38, <1>39, <1>40, <1>41,
    <1>42, Actions

\* Only a promotion or a rollback writes the applied or the previous script, and
\* only they, a load and a revert change what the kernel runs.
LEMMA FrozenStep ==
    ASSUME FreezeInv, [Next]_vars
    PROVE  RulesFrozen
<1> USE ConstantsAssumption DEF RulesFrozen, FreezeInv, Waiting, Goto, ReturnTo, End,
  TakeLock, files
<1>1. CASE ChangeRules
  BY <1>1 DEF ChangeRules
<1>2. CASE SiteApply
  BY <1>2 DEF SiteApply
<1>3. CASE Reboot
  BY <1>3 DEF Reboot
<1>4. ASSUME NEW p \in Procs, Prepare(p) PROVE RulesFrozen
  BY <1>4 DEF Prepare
<1>5. ASSUME NEW p \in Procs, RevertByHand(p) PROVE RulesFrozen
  BY <1>5 DEF RevertByHand
<1>6. ASSUME NEW p \in Procs, AnswerKeep(p) PROVE RulesFrozen
  BY <1>6 DEF AnswerKeep
<1>7. ASSUME NEW p \in Procs, AnswerRevert(p) PROVE RulesFrozen
  BY <1>7 DEF AnswerRevert
<1>8. ASSUME NEW p \in Procs, LockForApply(p) PROVE RulesFrozen
  BY <1>8 DEF LockForApply
<1>9. ASSUME NEW p \in Procs, Busy(p) PROVE RulesFrozen
  BY <1>9 DEF Busy
<1>10. ASSUME NEW p \in Procs, Write(p) PROVE RulesFrozen
  BY <1>10 DEF Write
<1>11. ASSUME NEW p \in Procs, WriteFails(p) PROVE RulesFrozen
  BY <1>11 DEF WriteFails
<1>12. ASSUME NEW p \in Procs, Decide(p) PROVE RulesFrozen
  BY <1>12 DEF Decide
<1>13. ASSUME NEW p \in Procs, Arm(p) PROVE RulesFrozen
  BY <1>13 DEF Arm
<1>14. ASSUME NEW p \in Procs, ArmFails(p) PROVE RulesFrozen
  BY <1>14 DEF ArmFails
<1>15. ASSUME NEW p \in Procs, StartTimer(p) PROVE RulesFrozen
  BY <1>15 DEF StartTimer
<1>16. ASSUME NEW p \in Procs, NoTimer(p) PROVE RulesFrozen
  BY <1>16 DEF NoTimer, Discard
<1>17. ASSUME NEW p \in Procs, Load(p) PROVE RulesFrozen
  BY <1>17 DEF Load
<1>18. ASSUME NEW p \in Procs, LoadFails(p) PROVE RulesFrozen
  BY <1>18 DEF LoadFails, Discard
<1>19. ASSUME NEW p \in Procs, SavePrevious(p) PROVE RulesFrozen
  BY <1>19 DEF SavePrevious
<1>20. ASSUME NEW p \in Procs, Promote(p) PROVE RulesFrozen
  BY <1>20 DEF Promote
<1>21. ASSUME NEW p \in Procs, PromoteFails(p) PROVE RulesFrozen
  BY <1>21 DEF PromoteFails
<1>22. ASSUME NEW p \in Procs, Record(p) PROVE RulesFrozen
  BY <1>22 DEF Record
<1>23. ASSUME NEW p \in Procs, LockForKeep(p) PROVE RulesFrozen
  BY <1>23 DEF LockForKeep
<1>24. ASSUME NEW p \in Procs, Keep(p) PROVE RulesFrozen
  BY <1>24 DEF Keep
<1>25. ASSUME NEW p \in Procs, KeepNothing(p) PROVE RulesFrozen
  BY <1>25 DEF KeepNothing
<1>26. ASSUME NEW p \in Procs, RollBack(p) PROVE RulesFrozen
  BY <1>26 DEF RollBack
<1>27. ASSUME NEW p \in Procs, RollRun(p) PROVE RulesFrozen
  BY <1>27 DEF RollRun
<1>28. ASSUME NEW p \in Procs, RollSave(p) PROVE RulesFrozen
  BY <1>28 DEF RollSave
<1>29. ASSUME NEW p \in Procs, RollSwap(p) PROVE RulesFrozen
  BY <1>29 DEF RollSwap
<1>30. ASSUME NEW p \in Procs, RollFails(p) PROVE RulesFrozen
  BY <1>30 DEF RollFails
<1>31. ASSUME NEW p \in Procs, RecordRevert(p) PROVE RulesFrozen
  BY <1>31 DEF RecordRevert
<1>32. ASSUME NEW p \in Procs, Crash(p) PROVE RulesFrozen
  BY <1>32 DEF Crash
<1>33. ASSUME NEW t \in Tokens, Fire(t) PROVE RulesFrozen
  BY <1>33 DEF Fire
<1>34. ASSUME NEW t \in Tokens, Deadline(t) PROVE RulesFrozen
  BY <1>34 DEF Deadline
<1>35. ASSUME NEW t \in Tokens, GoStale(t) PROVE RulesFrozen
  BY <1>35 DEF GoStale
<1>36. ASSUME NEW a \in Actors, LockForRevert(a) PROVE RulesFrozen
  BY <1>36 DEF LockForRevert
<1>37. ASSUME NEW a \in Actors, GiveUp(a) PROVE RulesFrozen
  BY <1>37 DEF GiveUp
<1>38. ASSUME NEW a \in Actors, RevertNothing(a) PROVE RulesFrozen
  BY <1>38 DEF RevertNothing
<1>39. ASSUME NEW a \in Actors, RevertUndo(a) PROVE RulesFrozen
  BY <1>39 DEF RevertUndo, Discard
<1>40. ASSUME NEW a \in Actors, Undo(a) PROVE RulesFrozen
  BY <1>40 DEF Undo
<1>41. ASSUME NEW a \in Actors, UndoFails(a) PROVE RulesFrozen
  BY <1>41 DEF UndoFails
<1>42. CASE UNCHANGED vars
  BY <1>42 DEF vars
<1>43. QED
  BY <1>1, <1>2, <1>3, <1>4, <1>5, <1>6, <1>7, <1>8, <1>9, <1>10, <1>11,
    <1>12, <1>13, <1>14, <1>15, <1>16, <1>17, <1>18, <1>19, <1>20, <1>21,
    <1>22, <1>23, <1>24, <1>25, <1>26, <1>27, <1>28, <1>29, <1>30, <1>31,
    <1>32, <1>33, <1>34, <1>35, <1>36, <1>37, <1>38, <1>39, <1>40, <1>41,
    <1>42, Actions

\* While a change waits to be kept, no step replaces the script it would go
\* back to, and nobody loads other rules.
THEOREM WaitingFreezes ==
    ASSUME OverNever
    PROVE  Spec => WaitingFreezesRules
<1>1. Init => LockInv /\ FreezeInv
  BY ConstantsAssumption DEF Init, LockInv, LockHeld, Locked, Actors, FreezeInv,
    NoJob
<1>2. TypeOK /\ LockInv /\ [Next]_vars => LockInv'
  BY LockStep
<1>3. TypeOK /\ LockInv /\ FreezeInv /\ [Next]_vars => FreezeInv'
  BY FreezeStep
<1>4. FreezeInv /\ [Next]_vars => [RulesFrozen]_vars
  BY FrozenStep
<1>5. QED
  BY <1>1, <1>2, <1>3, <1>4, TypeCorrect, PTL DEF Spec, WaitingFreezesRules, RulesFrozen

-----------------------------------------------------------------------------
(* How a change is settled.                                                *)

\* A token is drawn once, and its record is gone once it is settled, unless a
\* revert left it behind.
FateInv ==
    /\ pending \in used \union {NoToken}
    /\ \A t \in Tokens :
         /\ fate[t] # {} => t \in used /\ (pending # t \/ "left" \in fate[t])
         /\ "left" \in fate[t] => "undone" \in fate[t]
    /\ SettledOnce

\* Only the actor that removes a token's record settles it.
LEMMA FateStep ==
    ASSUME TypeOK, FateInv, [Next]_vars
    PROVE  FateInv'
<1> USE ConstantsAssumption DEF FateInv, SettledOnce, TypeOK, Actors,
  TakeLock, timing, history
<1>1. CASE ChangeRules
  BY <1>1 DEF ChangeRules
<1>2. CASE SiteApply
  BY <1>2 DEF SiteApply
<1>3. CASE Reboot
  BY <1>3 DEF Reboot
<1>4. ASSUME NEW p \in Procs, Prepare(p) PROVE FateInv'
  BY <1>4 DEF Prepare
<1>5. ASSUME NEW p \in Procs, RevertByHand(p) PROVE FateInv'
  BY <1>5 DEF RevertByHand
<1>6. ASSUME NEW p \in Procs, AnswerKeep(p) PROVE FateInv'
  BY <1>6 DEF AnswerKeep
<1>7. ASSUME NEW p \in Procs, AnswerRevert(p) PROVE FateInv'
  BY <1>7 DEF AnswerRevert
<1>8. ASSUME NEW p \in Procs, LockForApply(p) PROVE FateInv'
  BY <1>8 DEF LockForApply
<1>9. ASSUME NEW p \in Procs, Busy(p) PROVE FateInv'
  BY <1>9 DEF Busy
<1>10. ASSUME NEW p \in Procs, Write(p) PROVE FateInv'
  BY <1>10 DEF Write
<1>11. ASSUME NEW p \in Procs, WriteFails(p) PROVE FateInv'
  BY <1>11 DEF WriteFails
<1>12. ASSUME NEW p \in Procs, Decide(p) PROVE FateInv'
  BY <1>12 DEF Decide
<1>13. ASSUME NEW p \in Procs, Arm(p) PROVE FateInv'
  BY <1>13 DEF Arm
<1>14. ASSUME NEW p \in Procs, ArmFails(p) PROVE FateInv'
  BY <1>14 DEF ArmFails
<1>15. ASSUME NEW p \in Procs, StartTimer(p) PROVE FateInv'
  BY <1>15 DEF StartTimer
<1>16. ASSUME NEW p \in Procs, NoTimer(p) PROVE FateInv'
  BY <1>16 DEF NoTimer, Discard
<1>17. ASSUME NEW p \in Procs, Load(p) PROVE FateInv'
  BY <1>17 DEF Load
<1>18. ASSUME NEW p \in Procs, LoadFails(p) PROVE FateInv'
  BY <1>18 DEF LoadFails, Discard
<1>19. ASSUME NEW p \in Procs, SavePrevious(p) PROVE FateInv'
  BY <1>19 DEF SavePrevious
<1>20. ASSUME NEW p \in Procs, Promote(p) PROVE FateInv'
  BY <1>20 DEF Promote
<1>21. ASSUME NEW p \in Procs, PromoteFails(p) PROVE FateInv'
  BY <1>21 DEF PromoteFails
<1>22. ASSUME NEW p \in Procs, Record(p) PROVE FateInv'
  BY <1>22 DEF Record
<1>23. ASSUME NEW p \in Procs, LockForKeep(p) PROVE FateInv'
  BY <1>23 DEF LockForKeep
<1>24. ASSUME NEW p \in Procs, Keep(p) PROVE FateInv'
  BY <1>24, SMTT(20) DEF Keep
<1>25. ASSUME NEW p \in Procs, KeepNothing(p) PROVE FateInv'
  BY <1>25 DEF KeepNothing
<1>26. ASSUME NEW p \in Procs, RollBack(p) PROVE FateInv'
  BY <1>26 DEF RollBack
<1>27. ASSUME NEW p \in Procs, RollRun(p) PROVE FateInv'
  BY <1>27 DEF RollRun
<1>28. ASSUME NEW p \in Procs, RollSave(p) PROVE FateInv'
  BY <1>28 DEF RollSave
<1>29. ASSUME NEW p \in Procs, RollSwap(p) PROVE FateInv'
  BY <1>29 DEF RollSwap
<1>30. ASSUME NEW p \in Procs, RollFails(p) PROVE FateInv'
  BY <1>30 DEF RollFails
<1>31. ASSUME NEW p \in Procs, RecordRevert(p) PROVE FateInv'
  BY <1>31 DEF RecordRevert
<1>32. ASSUME NEW p \in Procs, Crash(p) PROVE FateInv'
  BY <1>32 DEF Crash
<1>33. ASSUME NEW t \in Tokens, Fire(t) PROVE FateInv'
  BY <1>33 DEF Fire
<1>34. ASSUME NEW t \in Tokens, Deadline(t) PROVE FateInv'
  BY <1>34 DEF Deadline
<1>35. ASSUME NEW t \in Tokens, GoStale(t) PROVE FateInv'
  BY <1>35 DEF GoStale
<1>36. ASSUME NEW a \in Actors, LockForRevert(a) PROVE FateInv'
  BY <1>36 DEF LockForRevert
<1>37. ASSUME NEW a \in Actors, GiveUp(a) PROVE FateInv'
  BY <1>37 DEF GiveUp
<1>38. ASSUME NEW a \in Actors, RevertNothing(a) PROVE FateInv'
  BY <1>38 DEF RevertNothing
<1>39. ASSUME NEW a \in Actors, RevertUndo(a) PROVE FateInv'
  BY <1>39 DEF RevertUndo, Discard
<1>40. ASSUME NEW a \in Actors, Undo(a) PROVE FateInv'
  BY <1>40 DEF Undo
<1>41. ASSUME NEW a \in Actors, UndoFails(a) PROVE FateInv'
  BY <1>41 DEF UndoFails
<1>42. CASE UNCHANGED vars
  BY <1>42 DEF vars
<1>43. QED
  BY <1>1, <1>2, <1>3, <1>4, <1>5, <1>6, <1>7, <1>8, <1>9, <1>10, <1>11,
    <1>12, <1>13, <1>14, <1>15, <1>16, <1>17, <1>18, <1>19, <1>20, <1>21,
    <1>22, <1>23, <1>24, <1>25, <1>26, <1>27, <1>28, <1>29, <1>30, <1>31,
    <1>32, <1>33, <1>34, <1>35, <1>36, <1>37, <1>38, <1>39, <1>40, <1>41,
    <1>42, Actions

\* A keep and the timer's revert, however they race, settle a change once: what
\* is both kept and undone is a change whose revert left its record behind.
THEOREM SettledAtMostOnce == Spec => []SettledOnce
<1>1. Init => FateInv
  BY ConstantsAssumption DEF Init, FateInv, SettledOnce, Actors
<1>2. TypeOK /\ FateInv /\ [Next]_vars => FateInv'
  BY FateStep
<1>3. FateInv => SettledOnce
  BY DEF FateInv
<1>4. QED
  BY <1>1, <1>2, <1>3, TypeCorrect, PTL DEF Spec

-----------------------------------------------------------------------------
(* That the apply path implements BootScript.                              *)

\* Who writes a script does so under the lock, or by itself; and a record is
\* not called stale while its change is asked about.
WritesLocked ==
    \A s \in Scenes :
        /\ "renderOver" \notin s.requests
        /\ \/ s.alone
           \/ /\ s.requests \subseteq {"apply", "confirm"}
              /\ s.verdicts \subseteq Passed \union {"blocked"}
              /\ {"busy", "clock"} \intersect s.faults = {}

\* A front end's change is loaded, and nobody has settled it.
Offered(p) ==
    pc[p] \in {"record", "ask", "keepLock", "keep"} /\ job[p].outcome = "awaiting"

Alone ==
    scene.alone =>
        \A p, q \in Procs : pc[p] # "idle" /\ pc[q] # "idle" => p = q

\* Each token is of one front end, and no record goes stale under it.
TokensOK ==
    /\ pending \in used \union {NoToken}
    /\ \A p \in Procs :
         /\ pc[p] = "idle" => job[p] = NoJob
         /\ job[p].tok \in used \union {NoToken}
         /\ pc[p] \in {"ask", "keepLock", "keep"} => job[p].outcome = "awaiting"
         /\ \/ pc[p] = "timer" \/ job[p].outcome = "awaiting"
            \/ pc[p] = "load" /\ job[p].kind = "confirm"
            => job[p].tok # NoToken
         /\ "clock" \notin Faults /\ job[p].tok # NoToken => age[job[p].tok] # "stale"
         /\ \A q \in Procs : job[p].tok = job[q].tok /\ p # q => job[p].tok = NoToken
    /\ \A t \in Tokens \ used : age[t] = "fresh" /\ pc[t] = "off"

\* What a run is for, at the labels of an apply.
KindInv ==
    \A p \in Procs :
        /\ job[p].kind # "renderOver"
        /\ pc[p] \in {"lock", "decide", "arm", "timer", "load"}
           => job[p].kind \in {"apply", "confirm"}
        /\ pc[p] \in {"arm", "timer"} => job[p].kind = "confirm"
        /\ pc[p] = "write" => scene.alone \/ job[p].kind \in {"apply", "confirm"}
        /\ pc[p] \in {"lock", "write", "decide", "arm", "timer", "load"}
           => job[p].outcome \in {"none", "written"}

\* What will be loaded is what its front end wrote.
RenderedInv ==
    \A p \in Procs :
        pc[p] \in {"decide", "arm", "timer", "load"} => next = job[p].script

\* Who loads has armed its own change, or found none that waits; who rolls back
\* found no record, and who undoes has removed it or left it behind.
RecordInv ==
    /\ \A p \in Procs :
         /\ pc[p] = "timer" => pending = job[p].tok
         /\ pc[p] = "load" =>
              IF job[p].kind = "confirm" THEN pending = job[p].tok ELSE ~Waiting
         /\ pc[p] \in {"rollRun", "rollSave"} => pending = NoToken
    /\ \A a \in Actors : pc[a] = "undo" => pending = NoToken \/ "left" \in fate[pending]

\* The change a front end promotes was undone, left behind and kept.
KeptUndone(p) ==
    job[p].tok # NoToken /\ {"kept", "undone", "left"} \subseteq fate[job[p].tok]

\* What is promoted, or kept, is what the kernel runs, unless it was undone and
\* its record was left behind.
KernelInv ==
    \A p \in Procs :
        /\ Offered(p) /\ pending = job[p].tok /\ "left" \notin fate[job[p].tok]
           => kernel = job[p].script
        /\ pc[p] \in {"save", "promote"} => kernel = job[p].script \/ KeptUndone(p)
        /\ pc[p] = "rollSave" => kernel = prev

CommitInv ==
    Alone /\ TokensOK /\ KindInv /\ RenderedInv /\ FateInv /\ RecordInv /\ KernelInv

\* In a scene of one front end, no other begins.
LEMMA AloneStep ==
    ASSUME TypeOK, Alone, [Next]_vars
    PROVE  Alone'
<1>0. scene' = scene
  BY Actions DEF vars
<1> USE ConstantsAssumption DEF Alone, TypeOK, Actors, Goto, ReturnTo, End, Quiescent,
  GotoStopping, TakeLock, CanBegin, Jobs
<1>1. CASE ChangeRules
  BY <1>0, <1>1 DEF ChangeRules
<1>2. CASE SiteApply
  BY <1>0, <1>2 DEF SiteApply
<1>3. CASE Reboot
  BY <1>0, <1>3 DEF Reboot
<1>4. ASSUME NEW p \in Procs, Prepare(p) PROVE Alone'
  BY <1>0, <1>4 DEF Prepare, MayApply, MayWrite, Passed
<1>5. ASSUME NEW p \in Procs, RevertByHand(p) PROVE Alone'
  BY <1>0, <1>5 DEF RevertByHand
<1>6. ASSUME NEW p \in Procs, AnswerKeep(p) PROVE Alone'
  BY <1>0, <1>6 DEF AnswerKeep
<1>7. ASSUME NEW p \in Procs, AnswerRevert(p) PROVE Alone'
  BY <1>0, <1>7 DEF AnswerRevert
<1>8. ASSUME NEW p \in Procs, LockForApply(p) PROVE Alone'
  BY <1>0, <1>8 DEF LockForApply
<1>9. ASSUME NEW p \in Procs, Busy(p) PROVE Alone'
  BY <1>0, <1>9 DEF Busy
<1>10. ASSUME NEW p \in Procs, Write(p) PROVE Alone'
  BY <1>0, <1>10 DEF Write
<1>11. ASSUME NEW p \in Procs, WriteFails(p) PROVE Alone'
  BY <1>0, <1>11 DEF WriteFails
<1>12. ASSUME NEW p \in Procs, Decide(p) PROVE Alone'
  BY <1>0, <1>12 DEF Decide
<1>13. ASSUME NEW p \in Procs, Arm(p) PROVE Alone'
  BY <1>0, <1>13 DEF Arm
<1>14. ASSUME NEW p \in Procs, ArmFails(p) PROVE Alone'
  BY <1>0, <1>14 DEF ArmFails
<1>15. ASSUME NEW p \in Procs, StartTimer(p) PROVE Alone'
  BY <1>0, <1>15 DEF StartTimer
<1>16. ASSUME NEW p \in Procs, NoTimer(p) PROVE Alone'
  BY <1>0, <1>16 DEF NoTimer, Discard
<1>17. ASSUME NEW p \in Procs, Load(p) PROVE Alone'
  BY <1>0, <1>17 DEF Load
<1>18. ASSUME NEW p \in Procs, LoadFails(p) PROVE Alone'
  BY <1>0, <1>18 DEF LoadFails, Discard
<1>19. ASSUME NEW p \in Procs, SavePrevious(p) PROVE Alone'
  BY <1>0, <1>19 DEF SavePrevious
<1>20. ASSUME NEW p \in Procs, Promote(p) PROVE Alone'
  BY <1>0, <1>20 DEF Promote
<1>21. ASSUME NEW p \in Procs, PromoteFails(p) PROVE Alone'
  BY <1>0, <1>21 DEF PromoteFails
<1>22. ASSUME NEW p \in Procs, Record(p) PROVE Alone'
  BY <1>0, <1>22 DEF Record
<1>23. ASSUME NEW p \in Procs, LockForKeep(p) PROVE Alone'
  BY <1>0, <1>23 DEF LockForKeep
<1>24. ASSUME NEW p \in Procs, Keep(p) PROVE Alone'
  BY <1>0, <1>24 DEF Keep
<1>25. ASSUME NEW p \in Procs, KeepNothing(p) PROVE Alone'
  BY <1>0, <1>25 DEF KeepNothing
<1>26. ASSUME NEW p \in Procs, RollBack(p) PROVE Alone'
  BY <1>0, <1>26 DEF RollBack
<1>27. ASSUME NEW p \in Procs, RollRun(p) PROVE Alone'
  BY <1>0, <1>27 DEF RollRun
<1>28. ASSUME NEW p \in Procs, RollSave(p) PROVE Alone'
  BY <1>0, <1>28 DEF RollSave
<1>29. ASSUME NEW p \in Procs, RollSwap(p) PROVE Alone'
  BY <1>0, <1>29 DEF RollSwap
<1>30. ASSUME NEW p \in Procs, RollFails(p) PROVE Alone'
  BY <1>0, <1>30 DEF RollFails
<1>31. ASSUME NEW p \in Procs, RecordRevert(p) PROVE Alone'
  BY <1>0, <1>31 DEF RecordRevert
<1>32. ASSUME NEW p \in Procs, Crash(p) PROVE Alone'
  BY <1>0, <1>32 DEF Crash
<1>33. ASSUME NEW t \in Tokens, Fire(t) PROVE Alone'
  BY <1>0, <1>33 DEF Fire
<1>34. ASSUME NEW t \in Tokens, Deadline(t) PROVE Alone'
  BY <1>0, <1>34 DEF Deadline
<1>35. ASSUME NEW t \in Tokens, GoStale(t) PROVE Alone'
  BY <1>0, <1>35 DEF GoStale
<1>36. ASSUME NEW a \in Actors, LockForRevert(a) PROVE Alone'
  BY <1>0, <1>36 DEF LockForRevert
<1>37. ASSUME NEW a \in Actors, GiveUp(a) PROVE Alone'
  BY <1>0, <1>37 DEF GiveUp
<1>38. ASSUME NEW a \in Actors, RevertNothing(a) PROVE Alone'
  BY <1>0, <1>38 DEF RevertNothing
<1>39. ASSUME NEW a \in Actors, RevertUndo(a) PROVE Alone'
  BY <1>0, <1>39 DEF RevertUndo, Discard
<1>40. ASSUME NEW a \in Actors, Undo(a) PROVE Alone'
  BY <1>0, <1>40 DEF Undo
<1>41. ASSUME NEW a \in Actors, UndoFails(a) PROVE Alone'
  BY <1>0, <1>41 DEF UndoFails
<1>42. CASE UNCHANGED vars
  BY <1>42 DEF vars
<1>43. QED
  BY <1>1, <1>2, <1>3, <1>4, <1>5, <1>6, <1>7, <1>8, <1>9, <1>10, <1>11,
    <1>12, <1>13, <1>14, <1>15, <1>16, <1>17, <1>18, <1>19, <1>20, <1>21,
    <1>22, <1>23, <1>24, <1>25, <1>26, <1>27, <1>28, <1>29, <1>30, <1>31,
    <1>32, <1>33, <1>34, <1>35, <1>36, <1>37, <1>38, <1>39, <1>40, <1>41,
    <1>42, Actions

\* A token is drawn once, and forgotten when its front end ends.
LEMMA TokensStep ==
    ASSUME TypeOK, TokensOK, [Next]_vars
    PROVE  TokensOK'
<1>0. scene' = scene
  BY Actions DEF vars
<1> USE ConstantsAssumption DEF TokensOK, Offered, TypeOK, Actors, Faults, Jobs, NoJob, Goto, ReturnTo, End, Quiescent,
  GotoStopping, TakeLock, CanBegin, Tok, timing
<1>1. CASE ChangeRules
  BY <1>0, <1>1 DEF ChangeRules
<1>2. CASE SiteApply
  BY <1>0, <1>2 DEF SiteApply
<1>3. CASE Reboot
  BY <1>0, <1>3 DEF Reboot
<1>4. ASSUME NEW p \in Procs, Prepare(p) PROVE TokensOK'
  BY <1>0, <1>4 DEF Prepare, MayApply, MayWrite, Passed
<1>5. ASSUME NEW p \in Procs, RevertByHand(p) PROVE TokensOK'
  BY <1>0, <1>5 DEF RevertByHand
<1>6. ASSUME NEW p \in Procs, AnswerKeep(p) PROVE TokensOK'
  BY <1>0, <1>6 DEF AnswerKeep
<1>7. ASSUME NEW p \in Procs, AnswerRevert(p) PROVE TokensOK'
  BY <1>0, <1>7 DEF AnswerRevert
<1>8. ASSUME NEW p \in Procs, LockForApply(p) PROVE TokensOK'
  BY <1>0, <1>8 DEF LockForApply
<1>9. ASSUME NEW p \in Procs, Busy(p) PROVE TokensOK'
  BY <1>0, <1>9 DEF Busy
<1>10. ASSUME NEW p \in Procs, Write(p) PROVE TokensOK'
  BY <1>0, <1>10 DEF Write
<1>11. ASSUME NEW p \in Procs, WriteFails(p) PROVE TokensOK'
  BY <1>0, <1>11 DEF WriteFails
<1>12. ASSUME NEW p \in Procs, Decide(p) PROVE TokensOK'
  BY <1>0, <1>12 DEF Decide
<1>13. ASSUME NEW p \in Procs, Arm(p) PROVE TokensOK'
  BY <1>0, <1>13 DEF Arm
<1>14. ASSUME NEW p \in Procs, ArmFails(p) PROVE TokensOK'
  BY <1>0, <1>14 DEF ArmFails
<1>15. ASSUME NEW p \in Procs, StartTimer(p) PROVE TokensOK'
  BY <1>0, <1>15 DEF StartTimer
<1>16. ASSUME NEW p \in Procs, NoTimer(p) PROVE TokensOK'
  BY <1>0, <1>16 DEF NoTimer, Discard
<1>17. ASSUME NEW p \in Procs, Load(p) PROVE TokensOK'
  BY <1>0, <1>17, SMTT(20) DEF Load
<1>18. ASSUME NEW p \in Procs, LoadFails(p) PROVE TokensOK'
  BY <1>0, <1>18 DEF LoadFails, Discard
<1>19. ASSUME NEW p \in Procs, SavePrevious(p) PROVE TokensOK'
  BY <1>0, <1>19 DEF SavePrevious
<1>20. ASSUME NEW p \in Procs, Promote(p) PROVE TokensOK'
  BY <1>0, <1>20 DEF Promote
<1>21. ASSUME NEW p \in Procs, PromoteFails(p) PROVE TokensOK'
  BY <1>0, <1>21 DEF PromoteFails
<1>22. ASSUME NEW p \in Procs, Record(p) PROVE TokensOK'
  <2>1. CASE job[p].outcome = "awaiting"
    BY <1>0, <1>22, <2>1 DEF Record
  <2>2. CASE job[p].outcome # "awaiting"
    BY <1>0, <1>22, <2>2, SMTT(20) DEF Record
  <2>3. QED
    BY <2>1, <2>2
<1>23. ASSUME NEW p \in Procs, LockForKeep(p) PROVE TokensOK'
  BY <1>0, <1>23 DEF LockForKeep
<1>24. ASSUME NEW p \in Procs, Keep(p) PROVE TokensOK'
  BY <1>0, <1>24, SMTT(20) DEF Keep
<1>25. ASSUME NEW p \in Procs, KeepNothing(p) PROVE TokensOK'
  BY <1>0, <1>25 DEF KeepNothing
<1>26. ASSUME NEW p \in Procs, RollBack(p) PROVE TokensOK'
  BY <1>0, <1>26, SMTT(90) DEF RollBack
<1>27. ASSUME NEW p \in Procs, RollRun(p) PROVE TokensOK'
  BY <1>0, <1>27 DEF RollRun
<1>28. ASSUME NEW p \in Procs, RollSave(p) PROVE TokensOK'
  BY <1>0, <1>28 DEF RollSave
<1>29. ASSUME NEW p \in Procs, RollSwap(p) PROVE TokensOK'
  BY <1>0, <1>29 DEF RollSwap
<1>30. ASSUME NEW p \in Procs, RollFails(p) PROVE TokensOK'
  BY <1>0, <1>30 DEF RollFails
<1>31. ASSUME NEW p \in Procs, RecordRevert(p) PROVE TokensOK'
  BY <1>0, <1>31 DEF RecordRevert
<1>32. ASSUME NEW p \in Procs, Crash(p) PROVE TokensOK'
  BY <1>0, <1>32 DEF Crash
<1>33. ASSUME NEW t \in Tokens, Fire(t) PROVE TokensOK'
  BY <1>0, <1>33 DEF Fire
<1>34. ASSUME NEW t \in Tokens, Deadline(t) PROVE TokensOK'
  BY <1>0, <1>34 DEF Deadline
<1>35. ASSUME NEW t \in Tokens, GoStale(t) PROVE TokensOK'
  <2>1. ASSUME "clock" \notin Faults, NEW p \in Procs PROVE job[p].tok # t
    <3>1. Tok(p) = job[p].tok /\ pc[p] \in ProcLabels
      BY DEF Tok
    <3>2. job[p].tok = t => pc[p] \in {"idle", "off", "done"}
      BY <1>35, <2>1, <3>1 DEF GoStale
    <3>3. QED
      BY <3>1, <3>2 DEF ProcLabels
  <2>2. UNCHANGED <<pending, used, pc, job>> /\ t \in used
    BY <1>35 DEF GoStale
  <2>3. age' = [age EXCEPT ![t] = "stale"]
    BY <1>35 DEF GoStale
  <2>4. QED
    BY <1>0, <2>1, <2>2, <2>3
<1>36. ASSUME NEW a \in Actors, LockForRevert(a) PROVE TokensOK'
  BY <1>0, <1>36 DEF LockForRevert
<1>37. ASSUME NEW a \in Actors, GiveUp(a) PROVE TokensOK'
  BY <1>0, <1>37 DEF GiveUp
<1>38. ASSUME NEW a \in Actors, RevertNothing(a) PROVE TokensOK'
  BY <1>0, <1>38 DEF RevertNothing
<1>39. ASSUME NEW a \in Actors, RevertUndo(a) PROVE TokensOK'
  BY <1>0, <1>39 DEF RevertUndo, Discard
<1>40. ASSUME NEW a \in Actors, Undo(a) PROVE TokensOK'
  BY <1>0, <1>40, SMTT(90) DEF Undo
<1>41. ASSUME NEW a \in Actors, UndoFails(a) PROVE TokensOK'
  BY <1>0, <1>41 DEF UndoFails
<1>42. CASE UNCHANGED vars
  BY <1>42 DEF vars
<1>43. QED
  BY <1>1, <1>2, <1>3, <1>4, <1>5, <1>6, <1>7, <1>8, <1>9, <1>10, <1>11,
    <1>12, <1>13, <1>14, <1>15, <1>16, <1>17, <1>18, <1>19, <1>20, <1>21,
    <1>22, <1>23, <1>24, <1>25, <1>26, <1>27, <1>28, <1>29, <1>30, <1>31,
    <1>32, <1>33, <1>34, <1>35, <1>36, <1>37, <1>38, <1>39, <1>40, <1>41,
    <1>42, Actions

\* An apply that was refused, or that waited too long, only renders.
LEMMA KindStep ==
    ASSUME WritesLocked, TypeOK, KindInv, [Next]_vars
    PROVE  KindInv'
<1>0. /\ scene' = scene /\ "renderOver" \notin Requests
      /\ \/ scene.alone
         \/ /\ Requests \subseteq {"apply", "confirm"}
            /\ Verdicts \subseteq Passed \union {"blocked"}
            /\ "busy" \notin Faults /\ "clock" \notin Faults
  BY Actions DEF vars, TypeOK, WritesLocked, Requests, Verdicts, Faults
<1> USE ConstantsAssumption DEF TypeOK, Actors, Jobs, NoJob, Goto, ReturnTo, End, Quiescent,
  GotoStopping, TakeLock, timing, KindInv
<1>1. CASE ChangeRules
  BY <1>0, <1>1 DEF ChangeRules
<1>2. CASE SiteApply
  BY <1>0, <1>2 DEF SiteApply
<1>3. CASE Reboot
  BY <1>0, <1>3 DEF Reboot
<1>4. ASSUME NEW p \in Procs, Prepare(p) PROVE KindInv'
  BY <1>0, <1>4 DEF Prepare, MayApply, MayWrite, Passed, CanBegin
<1>5. ASSUME NEW p \in Procs, RevertByHand(p) PROVE KindInv'
  BY <1>0, <1>5 DEF RevertByHand, CanBegin
<1>6. ASSUME NEW p \in Procs, AnswerKeep(p) PROVE KindInv'
  BY <1>0, <1>6 DEF AnswerKeep
<1>7. ASSUME NEW p \in Procs, AnswerRevert(p) PROVE KindInv'
  BY <1>0, <1>7 DEF AnswerRevert
<1>8. ASSUME NEW p \in Procs, LockForApply(p) PROVE KindInv'
  BY <1>0, <1>8 DEF LockForApply
<1>9. ASSUME NEW p \in Procs, Busy(p) PROVE KindInv'
  BY <1>0, <1>9 DEF Busy
<1>10. ASSUME NEW p \in Procs, Write(p) PROVE KindInv'
  BY <1>0, <1>10 DEF Write
<1>11. ASSUME NEW p \in Procs, WriteFails(p) PROVE KindInv'
  BY <1>0, <1>11 DEF WriteFails
<1>12. ASSUME NEW p \in Procs, Decide(p) PROVE KindInv'
  BY <1>0, <1>12 DEF Decide
<1>13. ASSUME NEW p \in Procs, Arm(p) PROVE KindInv'
  BY <1>0, <1>13 DEF Arm
<1>14. ASSUME NEW p \in Procs, ArmFails(p) PROVE KindInv'
  BY <1>0, <1>14 DEF ArmFails
<1>15. ASSUME NEW p \in Procs, StartTimer(p) PROVE KindInv'
  BY <1>0, <1>15 DEF StartTimer
<1>16. ASSUME NEW p \in Procs, NoTimer(p) PROVE KindInv'
  BY <1>0, <1>16 DEF NoTimer, Discard
<1>17. ASSUME NEW p \in Procs, Load(p) PROVE KindInv'
  BY <1>0, <1>17 DEF Load
<1>18. ASSUME NEW p \in Procs, LoadFails(p) PROVE KindInv'
  BY <1>0, <1>18 DEF LoadFails, Discard
<1>19. ASSUME NEW p \in Procs, SavePrevious(p) PROVE KindInv'
  BY <1>0, <1>19 DEF SavePrevious
<1>20. ASSUME NEW p \in Procs, Promote(p) PROVE KindInv'
  BY <1>0, <1>20 DEF Promote
<1>21. ASSUME NEW p \in Procs, PromoteFails(p) PROVE KindInv'
  BY <1>0, <1>21 DEF PromoteFails
<1>22. ASSUME NEW p \in Procs, Record(p) PROVE KindInv'
  BY <1>0, <1>22 DEF Record
<1>23. ASSUME NEW p \in Procs, LockForKeep(p) PROVE KindInv'
  BY <1>0, <1>23 DEF LockForKeep
<1>24. ASSUME NEW p \in Procs, Keep(p) PROVE KindInv'
  BY <1>0, <1>24 DEF Keep
<1>25. ASSUME NEW p \in Procs, KeepNothing(p) PROVE KindInv'
  BY <1>0, <1>25 DEF KeepNothing
<1>26. ASSUME NEW p \in Procs, RollBack(p) PROVE KindInv'
  BY <1>0, <1>26 DEF RollBack
<1>27. ASSUME NEW p \in Procs, RollRun(p) PROVE KindInv'
  BY <1>0, <1>27 DEF RollRun
<1>28. ASSUME NEW p \in Procs, RollSave(p) PROVE KindInv'
  BY <1>0, <1>28 DEF RollSave
<1>29. ASSUME NEW p \in Procs, RollSwap(p) PROVE KindInv'
  BY <1>0, <1>29 DEF RollSwap
<1>30. ASSUME NEW p \in Procs, RollFails(p) PROVE KindInv'
  BY <1>0, <1>30 DEF RollFails
<1>31. ASSUME NEW p \in Procs, RecordRevert(p) PROVE KindInv'
  BY <1>0, <1>31 DEF RecordRevert
<1>32. ASSUME NEW p \in Procs, Crash(p) PROVE KindInv'
  BY <1>0, <1>32 DEF Crash
<1>33. ASSUME NEW t \in Tokens, Fire(t) PROVE KindInv'
  BY <1>0, <1>33 DEF Fire
<1>34. ASSUME NEW t \in Tokens, Deadline(t) PROVE KindInv'
  BY <1>0, <1>34 DEF Deadline
<1>35. ASSUME NEW t \in Tokens, GoStale(t) PROVE KindInv'
  BY <1>0, <1>35 DEF GoStale
<1>36. ASSUME NEW a \in Actors, LockForRevert(a) PROVE KindInv'
  BY <1>0, <1>36 DEF LockForRevert
<1>37. ASSUME NEW a \in Actors, GiveUp(a) PROVE KindInv'
  BY <1>0, <1>37 DEF GiveUp
<1>38. ASSUME NEW a \in Actors, RevertNothing(a) PROVE KindInv'
  BY <1>0, <1>38 DEF RevertNothing
<1>39. ASSUME NEW a \in Actors, RevertUndo(a) PROVE KindInv'
  BY <1>0, <1>39 DEF RevertUndo, Discard
<1>40. ASSUME NEW a \in Actors, Undo(a) PROVE KindInv'
  BY <1>0, <1>40 DEF Undo
<1>41. ASSUME NEW a \in Actors, UndoFails(a) PROVE KindInv'
  BY <1>0, <1>41 DEF UndoFails
<1>42. CASE UNCHANGED vars
  BY <1>42 DEF vars
<1>43. QED
  BY <1>1, <1>2, <1>3, <1>4, <1>5, <1>6, <1>7, <1>8, <1>9, <1>10, <1>11,
    <1>12, <1>13, <1>14, <1>15, <1>16, <1>17, <1>18, <1>19, <1>20, <1>21,
    <1>22, <1>23, <1>24, <1>25, <1>26, <1>27, <1>28, <1>29, <1>30, <1>31,
    <1>32, <1>33, <1>34, <1>35, <1>36, <1>37, <1>38, <1>39, <1>40, <1>41,
    <1>42, Actions

\* Nobody else writes the rendered script while it waits to be loaded.
LEMMA RenderedStep ==
    ASSUME WritesLocked, TypeOK, LockInv, Alone, KindInv, RenderedInv, [Next]_vars
    PROVE  RenderedInv'
<1>0. /\ scene' = scene /\ "renderOver" \notin Requests
      /\ \/ scene.alone
         \/ /\ Requests \subseteq {"apply", "confirm"}
            /\ Verdicts \subseteq Passed \union {"blocked"}
            /\ "busy" \notin Faults /\ "clock" \notin Faults
  BY Actions DEF vars, TypeOK, WritesLocked, Requests, Verdicts, Faults
<1> USE ConstantsAssumption DEF TypeOK, Actors, Jobs, NoJob, Goto, ReturnTo, End, Quiescent,
  GotoStopping, TakeLock, timing, RenderedInv, KindInv, Alone, LockInv,
  LockHeld, Locked, files, CanBegin
<1>1. CASE ChangeRules
  BY <1>0, <1>1 DEF ChangeRules
<1>2. CASE SiteApply
  BY <1>0, <1>2 DEF SiteApply
<1>3. CASE Reboot
  BY <1>0, <1>3 DEF Reboot
<1>4. ASSUME NEW p \in Procs, Prepare(p) PROVE RenderedInv'
  BY <1>0, <1>4 DEF Prepare, MayApply, MayWrite, Passed, CanBegin
<1>5. ASSUME NEW p \in Procs, RevertByHand(p) PROVE RenderedInv'
  BY <1>0, <1>5 DEF RevertByHand, CanBegin
<1>6. ASSUME NEW p \in Procs, AnswerKeep(p) PROVE RenderedInv'
  BY <1>0, <1>6 DEF AnswerKeep
<1>7. ASSUME NEW p \in Procs, AnswerRevert(p) PROVE RenderedInv'
  BY <1>0, <1>7 DEF AnswerRevert
<1>8. ASSUME NEW p \in Procs, LockForApply(p) PROVE RenderedInv'
  BY <1>0, <1>8 DEF LockForApply
<1>9. ASSUME NEW p \in Procs, Busy(p) PROVE RenderedInv'
  BY <1>0, <1>9 DEF Busy
<1>10. ASSUME NEW p \in Procs, Write(p) PROVE RenderedInv'
  BY <1>0, <1>10 DEF Write
<1>11. ASSUME NEW p \in Procs, WriteFails(p) PROVE RenderedInv'
  BY <1>0, <1>11 DEF WriteFails
<1>12. ASSUME NEW p \in Procs, Decide(p) PROVE RenderedInv'
  BY <1>0, <1>12 DEF Decide
<1>13. ASSUME NEW p \in Procs, Arm(p) PROVE RenderedInv'
  BY <1>0, <1>13 DEF Arm
<1>14. ASSUME NEW p \in Procs, ArmFails(p) PROVE RenderedInv'
  BY <1>0, <1>14 DEF ArmFails
<1>15. ASSUME NEW p \in Procs, StartTimer(p) PROVE RenderedInv'
  BY <1>0, <1>15 DEF StartTimer
<1>16. ASSUME NEW p \in Procs, NoTimer(p) PROVE RenderedInv'
  BY <1>0, <1>16 DEF NoTimer, Discard
<1>17. ASSUME NEW p \in Procs, Load(p) PROVE RenderedInv'
  BY <1>0, <1>17 DEF Load
<1>18. ASSUME NEW p \in Procs, LoadFails(p) PROVE RenderedInv'
  BY <1>0, <1>18 DEF LoadFails, Discard
<1>19. ASSUME NEW p \in Procs, SavePrevious(p) PROVE RenderedInv'
  BY <1>0, <1>19 DEF SavePrevious
<1>20. ASSUME NEW p \in Procs, Promote(p) PROVE RenderedInv'
  BY <1>0, <1>20 DEF Promote
<1>21. ASSUME NEW p \in Procs, PromoteFails(p) PROVE RenderedInv'
  BY <1>0, <1>21 DEF PromoteFails
<1>22. ASSUME NEW p \in Procs, Record(p) PROVE RenderedInv'
  BY <1>0, <1>22 DEF Record
<1>23. ASSUME NEW p \in Procs, LockForKeep(p) PROVE RenderedInv'
  BY <1>0, <1>23 DEF LockForKeep
<1>24. ASSUME NEW p \in Procs, Keep(p) PROVE RenderedInv'
  BY <1>0, <1>24 DEF Keep
<1>25. ASSUME NEW p \in Procs, KeepNothing(p) PROVE RenderedInv'
  BY <1>0, <1>25 DEF KeepNothing
<1>26. ASSUME NEW p \in Procs, RollBack(p) PROVE RenderedInv'
  BY <1>0, <1>26 DEF RollBack
<1>27. ASSUME NEW p \in Procs, RollRun(p) PROVE RenderedInv'
  BY <1>0, <1>27 DEF RollRun
<1>28. ASSUME NEW p \in Procs, RollSave(p) PROVE RenderedInv'
  BY <1>0, <1>28 DEF RollSave
<1>29. ASSUME NEW p \in Procs, RollSwap(p) PROVE RenderedInv'
  BY <1>0, <1>29 DEF RollSwap
<1>30. ASSUME NEW p \in Procs, RollFails(p) PROVE RenderedInv'
  BY <1>0, <1>30 DEF RollFails
<1>31. ASSUME NEW p \in Procs, RecordRevert(p) PROVE RenderedInv'
  BY <1>0, <1>31 DEF RecordRevert
<1>32. ASSUME NEW p \in Procs, Crash(p) PROVE RenderedInv'
  BY <1>0, <1>32 DEF Crash
<1>33. ASSUME NEW t \in Tokens, Fire(t) PROVE RenderedInv'
  BY <1>0, <1>33 DEF Fire
<1>34. ASSUME NEW t \in Tokens, Deadline(t) PROVE RenderedInv'
  BY <1>0, <1>34 DEF Deadline
<1>35. ASSUME NEW t \in Tokens, GoStale(t) PROVE RenderedInv'
  BY <1>0, <1>35 DEF GoStale
<1>36. ASSUME NEW a \in Actors, LockForRevert(a) PROVE RenderedInv'
  BY <1>0, <1>36 DEF LockForRevert
<1>37. ASSUME NEW a \in Actors, GiveUp(a) PROVE RenderedInv'
  BY <1>0, <1>37 DEF GiveUp
<1>38. ASSUME NEW a \in Actors, RevertNothing(a) PROVE RenderedInv'
  BY <1>0, <1>38 DEF RevertNothing
<1>39. ASSUME NEW a \in Actors, RevertUndo(a) PROVE RenderedInv'
  BY <1>0, <1>39 DEF RevertUndo, Discard
<1>40. ASSUME NEW a \in Actors, Undo(a) PROVE RenderedInv'
  BY <1>0, <1>40 DEF Undo
<1>41. ASSUME NEW a \in Actors, UndoFails(a) PROVE RenderedInv'
  BY <1>0, <1>41 DEF UndoFails
<1>42. CASE UNCHANGED vars
  BY <1>42 DEF vars
<1>43. QED
  BY <1>1, <1>2, <1>3, <1>4, <1>5, <1>6, <1>7, <1>8, <1>9, <1>10, <1>11,
    <1>12, <1>13, <1>14, <1>15, <1>16, <1>17, <1>18, <1>19, <1>20, <1>21,
    <1>22, <1>23, <1>24, <1>25, <1>26, <1>27, <1>28, <1>29, <1>30, <1>31,
    <1>32, <1>33, <1>34, <1>35, <1>36, <1>37, <1>38, <1>39, <1>40, <1>41,
    <1>42, Actions

\* Only who has the lock writes or removes the record of a change.
LEMMA RecordStep ==
    ASSUME TypeOK, LockInv, TokensOK, KindInv, RecordInv, [Next]_vars
    PROVE  RecordInv'
<1> USE ConstantsAssumption DEF TypeOK, Actors, Jobs, NoJob, Goto, ReturnTo, End, Quiescent,
  GotoStopping, TakeLock, timing, history, RecordInv, KindInv, LockInv,
  LockHeld, Locked, Waiting, CanBegin, Tok
<1>1. CASE ChangeRules
  BY <1>1 DEF ChangeRules
<1>2. CASE SiteApply
  BY <1>2 DEF SiteApply
<1>3. CASE Reboot
  BY <1>3 DEF Reboot
<1>4. ASSUME NEW p \in Procs, Prepare(p) PROVE RecordInv'
  BY <1>4 DEF Prepare, MayApply, MayWrite, Passed, CanBegin
<1>5. ASSUME NEW p \in Procs, RevertByHand(p) PROVE RecordInv'
  BY <1>5 DEF RevertByHand, CanBegin
<1>6. ASSUME NEW p \in Procs, AnswerKeep(p) PROVE RecordInv'
  BY <1>6 DEF AnswerKeep
<1>7. ASSUME NEW p \in Procs, AnswerRevert(p) PROVE RecordInv'
  BY <1>7 DEF AnswerRevert
<1>8. ASSUME NEW p \in Procs, LockForApply(p) PROVE RecordInv'
  BY <1>8 DEF LockForApply
<1>9. ASSUME NEW p \in Procs, Busy(p) PROVE RecordInv'
  BY <1>9 DEF Busy
<1>10. ASSUME NEW p \in Procs, Write(p) PROVE RecordInv'
  BY <1>10 DEF Write
<1>11. ASSUME NEW p \in Procs, WriteFails(p) PROVE RecordInv'
  BY <1>11 DEF WriteFails
<1>12. ASSUME NEW p \in Procs, Decide(p) PROVE RecordInv'
  BY <1>12 DEF Decide
<1>13. ASSUME NEW p \in Procs, Arm(p) PROVE RecordInv'
  BY <1>13 DEF Arm
<1>14. ASSUME NEW p \in Procs, ArmFails(p) PROVE RecordInv'
  BY <1>14 DEF ArmFails
<1>15. ASSUME NEW p \in Procs, StartTimer(p) PROVE RecordInv'
  BY <1>15 DEF StartTimer
<1>16. ASSUME NEW p \in Procs, NoTimer(p) PROVE RecordInv'
  BY <1>16 DEF NoTimer, Discard
<1>17. ASSUME NEW p \in Procs, Load(p) PROVE RecordInv'
  BY <1>17 DEF Load
<1>18. ASSUME NEW p \in Procs, LoadFails(p) PROVE RecordInv'
  BY <1>18 DEF LoadFails, Discard
<1>19. ASSUME NEW p \in Procs, SavePrevious(p) PROVE RecordInv'
  BY <1>19 DEF SavePrevious
<1>20. ASSUME NEW p \in Procs, Promote(p) PROVE RecordInv'
  BY <1>20 DEF Promote
<1>21. ASSUME NEW p \in Procs, PromoteFails(p) PROVE RecordInv'
  BY <1>21 DEF PromoteFails
<1>22. ASSUME NEW p \in Procs, Record(p) PROVE RecordInv'
  BY <1>22 DEF Record
<1>23. ASSUME NEW p \in Procs, LockForKeep(p) PROVE RecordInv'
  BY <1>23 DEF LockForKeep
<1>24. ASSUME NEW p \in Procs, Keep(p) PROVE RecordInv'
  BY <1>24 DEF Keep
<1>25. ASSUME NEW p \in Procs, KeepNothing(p) PROVE RecordInv'
  BY <1>25 DEF KeepNothing
<1>26. ASSUME NEW p \in Procs, RollBack(p) PROVE RecordInv'
  BY <1>26 DEF RollBack
<1>27. ASSUME NEW p \in Procs, RollRun(p) PROVE RecordInv'
  BY <1>27 DEF RollRun
<1>28. ASSUME NEW p \in Procs, RollSave(p) PROVE RecordInv'
  BY <1>28 DEF RollSave
<1>29. ASSUME NEW p \in Procs, RollSwap(p) PROVE RecordInv'
  BY <1>29 DEF RollSwap
<1>30. ASSUME NEW p \in Procs, RollFails(p) PROVE RecordInv'
  BY <1>30 DEF RollFails
<1>31. ASSUME NEW p \in Procs, RecordRevert(p) PROVE RecordInv'
  BY <1>31 DEF RecordRevert
<1>32. ASSUME NEW p \in Procs, Crash(p) PROVE RecordInv'
  BY <1>32 DEF Crash
<1>33. ASSUME NEW t \in Tokens, Fire(t) PROVE RecordInv'
  BY <1>33 DEF Fire
<1>34. ASSUME NEW t \in Tokens, Deadline(t) PROVE RecordInv'
  BY <1>34 DEF Deadline
<1>35. ASSUME NEW t \in Tokens, GoStale(t) PROVE RecordInv'
  BY <1>35 DEF GoStale
<1>36. ASSUME NEW a \in Actors, LockForRevert(a) PROVE RecordInv'
  BY <1>36 DEF LockForRevert
<1>37. ASSUME NEW a \in Actors, GiveUp(a) PROVE RecordInv'
  BY <1>37 DEF GiveUp
<1>38. ASSUME NEW a \in Actors, RevertNothing(a) PROVE RecordInv'
  BY <1>38 DEF RevertNothing
<1>39. ASSUME NEW a \in Actors, RevertUndo(a) PROVE RecordInv'
  BY <1>39 DEF RevertUndo, Discard
<1>40. ASSUME NEW a \in Actors, Undo(a) PROVE RecordInv'
  BY <1>40 DEF Undo
<1>41. ASSUME NEW a \in Actors, UndoFails(a) PROVE RecordInv'
  BY <1>41 DEF UndoFails
<1>42. CASE UNCHANGED vars
  BY <1>42 DEF vars
<1>43. QED
  BY <1>1, <1>2, <1>3, <1>4, <1>5, <1>6, <1>7, <1>8, <1>9, <1>10, <1>11,
    <1>12, <1>13, <1>14, <1>15, <1>16, <1>17, <1>18, <1>19, <1>20, <1>21,
    <1>22, <1>23, <1>24, <1>25, <1>26, <1>27, <1>28, <1>29, <1>30, <1>31,
    <1>32, <1>33, <1>34, <1>35, <1>36, <1>37, <1>38, <1>39, <1>40, <1>41,
    <1>42, Actions

\* Only who has the lock loads, and nobody over a change that is asked about.
LEMMA KernelStep ==
    ASSUME WritesLocked, TypeOK, LockInv, Alone, TokensOK, KindInv, RenderedInv, FateInv,
           RecordInv, KernelInv, [Next]_vars
    PROVE  KernelInv'
<1>0. /\ scene' = scene /\ "renderOver" \notin Requests
      /\ \/ scene.alone
         \/ /\ Requests \subseteq {"apply", "confirm"}
            /\ Verdicts \subseteq Passed \union {"blocked"}
            /\ "busy" \notin Faults /\ "clock" \notin Faults
  BY Actions DEF vars, TypeOK, WritesLocked, Requests, Verdicts, Faults
<1> USE ConstantsAssumption DEF TypeOK, Actors, Jobs, NoJob, Goto, ReturnTo, End, Quiescent,
  GotoStopping, TakeLock, timing, history, KernelInv, KeptUndone, Offered, LockInv, LockHeld,
  Locked, CanBegin, files
<1>1. CASE ChangeRules
  BY <1>0, <1>1 DEF ChangeRules
<1>2. CASE SiteApply
  BY <1>0, <1>2 DEF SiteApply
<1>3. CASE Reboot
  BY <1>0, <1>3 DEF Reboot
<1>4. ASSUME NEW p \in Procs, Prepare(p) PROVE KernelInv'
  BY <1>0, <1>4 DEF Prepare, MayApply, MayWrite, Passed, CanBegin
<1>5. ASSUME NEW p \in Procs, RevertByHand(p) PROVE KernelInv'
  BY <1>0, <1>5 DEF RevertByHand, CanBegin
<1>6. ASSUME NEW p \in Procs, AnswerKeep(p) PROVE KernelInv'
  BY <1>0, <1>6 DEF AnswerKeep
<1>7. ASSUME NEW p \in Procs, AnswerRevert(p) PROVE KernelInv'
  BY <1>0, <1>7 DEF AnswerRevert
<1>8. ASSUME NEW p \in Procs, LockForApply(p) PROVE KernelInv'
  BY <1>0, <1>8 DEF LockForApply
<1>9. ASSUME NEW p \in Procs, Busy(p) PROVE KernelInv'
  BY <1>0, <1>9 DEF Busy
<1>10. ASSUME NEW p \in Procs, Write(p) PROVE KernelInv'
  BY <1>0, <1>10 DEF Write
<1>11. ASSUME NEW p \in Procs, WriteFails(p) PROVE KernelInv'
  BY <1>0, <1>11 DEF WriteFails, KindInv
<1>12. ASSUME NEW p \in Procs, Decide(p) PROVE KernelInv'
  BY <1>0, <1>12 DEF Decide, KindInv
<1>13. ASSUME NEW p \in Procs, Arm(p) PROVE KernelInv'
  BY <1>0, <1>13, SMTT(60) DEF Arm, TokensOK
<1>14. ASSUME NEW p \in Procs, ArmFails(p) PROVE KernelInv'
  BY <1>0, <1>14 DEF ArmFails, KindInv
<1>15. ASSUME NEW p \in Procs, StartTimer(p) PROVE KernelInv'
  BY <1>0, <1>15 DEF StartTimer
<1>16. ASSUME NEW p \in Procs, NoTimer(p) PROVE KernelInv'
  BY <1>0, <1>16 DEF NoTimer, Discard, KindInv, TokensOK
<1>17. ASSUME NEW p \in Procs, Load(p) PROVE KernelInv'
  <2>1. \A q \in Procs : q # p => pc[q] \notin Locked /\ pc'[q] = pc[q] /\ job'[q] = job[q]
    BY <1>17 DEF Load
  <2>2. pending' = pending /\ kernel' = next /\ prev' = prev /\ next = job[p].script
    BY <1>17 DEF Load, RenderedInv
  <2>3. job'[p].script = job[p].script /\ pc'[p] \in {"record", "save"}
    BY <1>17 DEF Load
  <2>4. ASSUME NEW q \in Procs, q # p, Offered(q), pending = job[q].tok PROVE FALSE
    <3>1. job[q].tok # NoToken
      BY <2>4 DEF TokensOK
    <3>2. CASE job[p].kind = "confirm"
      BY <1>17, <2>4, <3>1, <3>2 DEF Load, RecordInv, TokensOK
    <3>3. CASE job[p].kind # "confirm"
      <4>1. age[job[q].tok] = "stale"
        BY <1>17, <2>4, <3>1, <3>3 DEF Load, RecordInv, Waiting
      <4>2. scene.alone
        BY <1>0, <2>4, <3>1, <4>1 DEF TokensOK
      <4>3. QED
        BY <1>17, <2>4, <4>2 DEF Load, Alone
    <3>4. QED
      BY <3>2, <3>3
  <2>5. QED
    BY <2>1, <2>2, <2>3, <2>4
<1>18. ASSUME NEW p \in Procs, LoadFails(p) PROVE KernelInv'
  BY <1>0, <1>18 DEF LoadFails, Discard, KindInv, TokensOK
<1>19. ASSUME NEW p \in Procs, SavePrevious(p) PROVE KernelInv'
  BY <1>0, <1>19 DEF SavePrevious
<1>20. ASSUME NEW p \in Procs, Promote(p) PROVE KernelInv'
  BY <1>0, <1>20 DEF Promote
<1>21. ASSUME NEW p \in Procs, PromoteFails(p) PROVE KernelInv'
  BY <1>0, <1>21 DEF PromoteFails
<1>22. ASSUME NEW p \in Procs, Record(p) PROVE KernelInv'
  BY <1>0, <1>22 DEF Record
<1>23. ASSUME NEW p \in Procs, LockForKeep(p) PROVE KernelInv'
  BY <1>0, <1>23 DEF LockForKeep
<1>24. ASSUME NEW p \in Procs, Keep(p) PROVE KernelInv'
  BY <1>0, <1>24, SMTT(60) DEF Keep, TokensOK, FateInv
<1>25. ASSUME NEW p \in Procs, KeepNothing(p) PROVE KernelInv'
  BY <1>0, <1>25 DEF KeepNothing
<1>26. ASSUME NEW p \in Procs, RollBack(p) PROVE KernelInv'
  BY <1>0, <1>26 DEF RollBack
<1>27. ASSUME NEW p \in Procs, RollRun(p) PROVE KernelInv'
  BY <1>0, <1>27, SMTT(60) DEF RollRun, TokensOK, RecordInv
<1>28. ASSUME NEW p \in Procs, RollSave(p) PROVE KernelInv'
  BY <1>0, <1>28 DEF RollSave
<1>29. ASSUME NEW p \in Procs, RollSwap(p) PROVE KernelInv'
  BY <1>0, <1>29 DEF RollSwap
<1>30. ASSUME NEW p \in Procs, RollFails(p) PROVE KernelInv'
  BY <1>0, <1>30 DEF RollFails
<1>31. ASSUME NEW p \in Procs, RecordRevert(p) PROVE KernelInv'
  BY <1>0, <1>31 DEF RecordRevert
<1>32. ASSUME NEW p \in Procs, Crash(p) PROVE KernelInv'
  BY <1>0, <1>32 DEF Crash
<1>33. ASSUME NEW t \in Tokens, Fire(t) PROVE KernelInv'
  BY <1>0, <1>33 DEF Fire
<1>34. ASSUME NEW t \in Tokens, Deadline(t) PROVE KernelInv'
  BY <1>0, <1>34 DEF Deadline
<1>35. ASSUME NEW t \in Tokens, GoStale(t) PROVE KernelInv'
  BY <1>0, <1>35 DEF GoStale
<1>36. ASSUME NEW a \in Actors, LockForRevert(a) PROVE KernelInv'
  BY <1>0, <1>36 DEF LockForRevert
<1>37. ASSUME NEW a \in Actors, GiveUp(a) PROVE KernelInv'
  BY <1>0, <1>37 DEF GiveUp
<1>38. ASSUME NEW a \in Actors, RevertNothing(a) PROVE KernelInv'
  BY <1>0, <1>38 DEF RevertNothing
<1>39. ASSUME NEW a \in Actors, RevertUndo(a) PROVE KernelInv'
  BY <1>0, <1>39, SMTT(60) DEF RevertUndo, Discard, TokensOK
<1>40. ASSUME NEW a \in Actors, Undo(a) PROVE KernelInv'
  BY <1>0, <1>40, SMTT(60) DEF Undo, TokensOK, RecordInv, Tok
<1>41. ASSUME NEW a \in Actors, UndoFails(a) PROVE KernelInv'
  BY <1>0, <1>41 DEF UndoFails
<1>42. CASE UNCHANGED vars
  BY <1>42 DEF vars
<1>43. QED
  BY <1>1, <1>2, <1>3, <1>4, <1>5, <1>6, <1>7, <1>8, <1>9, <1>10, <1>11,
    <1>12, <1>13, <1>14, <1>15, <1>16, <1>17, <1>18, <1>19, <1>20, <1>21,
    <1>22, <1>23, <1>24, <1>25, <1>26, <1>27, <1>28, <1>29, <1>30, <1>31,
    <1>32, <1>33, <1>34, <1>35, <1>36, <1>37, <1>38, <1>39, <1>40, <1>41,
    <1>42, Actions

LEMMA CommitHolds ==
    ASSUME WritesLocked
    PROVE  Spec => [](TypeOK /\ LockInv /\ CommitInv)
<1>1. Init => LockInv /\ Alone /\ TokensOK
  BY ConstantsAssumption DEF Init, LockInv, LockHeld, Locked, Alone, TokensOK,
    Actors, NoJob
<1>2. Init => KindInv /\ RenderedInv /\ RecordInv /\ KernelInv
  BY ConstantsAssumption DEF Init, KindInv, RenderedInv, RecordInv, KernelInv,
    Offered, Actors, NoJob
<1>6. Init => FateInv
  BY ConstantsAssumption DEF Init, FateInv, SettledOnce, Actors
<1>3. TypeOK /\ LockInv /\ [Next]_vars => LockInv'
  BY LockStep
<1>4. TypeOK /\ LockInv /\ CommitInv /\ [Next]_vars => CommitInv'
  BY AloneStep, TokensStep, KindStep, RenderedStep, FateStep, RecordStep, KernelStep
    DEF CommitInv
<1>5. QED
  BY <1>1, <1>2, <1>3, <1>4, <1>6, TypeCorrect, PTL DEF Spec, CommitInv

BootMoves == [Boot!Next \/ KeepsUndone]_<<kernel, applied>>

\* Each step tries rules, makes what runs the boot script, or goes back to it;
\* or it keeps a change that was undone.
LEMMA BootStep ==
    ASSUME TypeOK, KindInv, KernelInv, [Next]_vars
    PROVE  BootMoves
<1>0. kernel' \in Script
  BY TypeStep DEF TypeOK
<1> USE <1>0 DEF Goto, ReturnTo, End, GotoStopping, TakeLock, files, KindInv, KernelInv,
  Script, BootMoves, Boot!Next, Boot!Try, Boot!Commit, Boot!Restore
<1>1. CASE ChangeRules
  BY <1>1 DEF ChangeRules
<1>2. CASE SiteApply
  BY <1>2 DEF SiteApply
<1>3. CASE Reboot
  BY <1>3 DEF Reboot
<1>4. ASSUME NEW p \in Procs, Prepare(p) PROVE BootMoves
  BY <1>4 DEF Prepare, MayApply, MayWrite, Passed
<1>5. ASSUME NEW p \in Procs, RevertByHand(p) PROVE BootMoves
  BY <1>5 DEF RevertByHand
<1>6. ASSUME NEW p \in Procs, AnswerKeep(p) PROVE BootMoves
  BY <1>6 DEF AnswerKeep
<1>7. ASSUME NEW p \in Procs, AnswerRevert(p) PROVE BootMoves
  BY <1>7 DEF AnswerRevert
<1>8. ASSUME NEW p \in Procs, LockForApply(p) PROVE BootMoves
  BY <1>8 DEF LockForApply
<1>9. ASSUME NEW p \in Procs, Busy(p) PROVE BootMoves
  BY <1>9 DEF Busy
<1>10. ASSUME NEW p \in Procs, Write(p) PROVE BootMoves
  BY <1>10 DEF Write
<1>11. ASSUME NEW p \in Procs, WriteFails(p) PROVE BootMoves
  BY <1>11 DEF WriteFails
<1>12. ASSUME NEW p \in Procs, Decide(p) PROVE BootMoves
  BY <1>12 DEF Decide
<1>13. ASSUME NEW p \in Procs, Arm(p) PROVE BootMoves
  BY <1>13 DEF Arm
<1>14. ASSUME NEW p \in Procs, ArmFails(p) PROVE BootMoves
  BY <1>14 DEF ArmFails
<1>15. ASSUME NEW p \in Procs, StartTimer(p) PROVE BootMoves
  BY <1>15 DEF StartTimer
<1>16. ASSUME NEW p \in Procs, NoTimer(p) PROVE BootMoves
  BY <1>16 DEF NoTimer, Discard
<1>17. ASSUME NEW p \in Procs, Load(p) PROVE BootMoves
  BY <1>17 DEF Load
<1>18. ASSUME NEW p \in Procs, LoadFails(p) PROVE BootMoves
  BY <1>18 DEF LoadFails, Discard
<1>19. ASSUME NEW p \in Procs, SavePrevious(p) PROVE BootMoves
  BY <1>19 DEF SavePrevious
<1>20. ASSUME NEW p \in Procs, Promote(p) PROVE BootMoves
  BY <1>20 DEF Promote, KeptUndone, KeepsUndone
<1>21. ASSUME NEW p \in Procs, PromoteFails(p) PROVE BootMoves
  BY <1>21 DEF PromoteFails
<1>22. ASSUME NEW p \in Procs, Record(p) PROVE BootMoves
  BY <1>22 DEF Record
<1>23. ASSUME NEW p \in Procs, LockForKeep(p) PROVE BootMoves
  BY <1>23 DEF LockForKeep
<1>24. ASSUME NEW p \in Procs, Keep(p) PROVE BootMoves
  BY <1>24 DEF Keep
<1>25. ASSUME NEW p \in Procs, KeepNothing(p) PROVE BootMoves
  BY <1>25 DEF KeepNothing
<1>26. ASSUME NEW p \in Procs, RollBack(p) PROVE BootMoves
  BY <1>26 DEF RollBack
<1>27. ASSUME NEW p \in Procs, RollRun(p) PROVE BootMoves
  BY <1>27 DEF RollRun
<1>28. ASSUME NEW p \in Procs, RollSave(p) PROVE BootMoves
  BY <1>28 DEF RollSave
<1>29. ASSUME NEW p \in Procs, RollSwap(p) PROVE BootMoves
  BY <1>29 DEF RollSwap
<1>30. ASSUME NEW p \in Procs, RollFails(p) PROVE BootMoves
  BY <1>30 DEF RollFails
<1>31. ASSUME NEW p \in Procs, RecordRevert(p) PROVE BootMoves
  BY <1>31 DEF RecordRevert
<1>32. ASSUME NEW p \in Procs, Crash(p) PROVE BootMoves
  BY <1>32 DEF Crash
<1>33. ASSUME NEW t \in Tokens, Fire(t) PROVE BootMoves
  BY <1>33 DEF Fire
<1>34. ASSUME NEW t \in Tokens, Deadline(t) PROVE BootMoves
  BY <1>34 DEF Deadline
<1>35. ASSUME NEW t \in Tokens, GoStale(t) PROVE BootMoves
  BY <1>35 DEF GoStale
<1>36. ASSUME NEW a \in Actors, LockForRevert(a) PROVE BootMoves
  BY <1>36 DEF LockForRevert
<1>37. ASSUME NEW a \in Actors, GiveUp(a) PROVE BootMoves
  BY <1>37 DEF GiveUp
<1>38. ASSUME NEW a \in Actors, RevertNothing(a) PROVE BootMoves
  BY <1>38 DEF RevertNothing
<1>39. ASSUME NEW a \in Actors, RevertUndo(a) PROVE BootMoves
  BY <1>39 DEF RevertUndo, Discard
<1>40. ASSUME NEW a \in Actors, Undo(a) PROVE BootMoves
  BY <1>40 DEF Undo
<1>41. ASSUME NEW a \in Actors, UndoFails(a) PROVE BootMoves
  BY <1>41 DEF UndoFails
<1>42. CASE UNCHANGED vars
  BY <1>42 DEF vars
<1>43. QED
  BY <1>1, <1>2, <1>3, <1>4, <1>5, <1>6, <1>7, <1>8, <1>9, <1>10, <1>11,
    <1>12, <1>13, <1>14, <1>15, <1>16, <1>17, <1>18, <1>19, <1>20, <1>21,
    <1>22, <1>23, <1>24, <1>25, <1>26, <1>27, <1>28, <1>29, <1>30, <1>31,
    <1>32, <1>33, <1>34, <1>35, <1>36, <1>37, <1>38, <1>39, <1>40, <1>41,
    <1>42, Actions

\* The apply path implements BootScript, if who writes a script does so under
\* the lock: what is made the boot script is what the kernel runs, or it is a
\* change that was undone, whose record was left behind, and that was then kept.
THEOREM BootScriptHolds ==
    ASSUME WritesLocked
    PROVE  Spec => BootScriptSpec
<1>1. Init => Boot!Init
  BY DEF Init, Script, Boot!Init
<1>2. TypeOK /\ CommitInv /\ [Next]_vars => BootMoves
  BY BootStep DEF CommitInv
<1>3. QED
  BY <1>1, <1>2, CommitHolds, PTL DEF Spec, BootScriptSpec, BootMoves

-----------------------------------------------------------------------------
(* What runs, what boots and what is recorded.                             *)

\* Nothing is left half done: loads, writes and reverts succeed, and nobody is
\* killed between them.
Completes ==
    \A s \in Scenes :
        /\ s.faults \subseteq {"timer", "reboot"}
        /\ s.crashAt \intersect {"save", "promote", "undo", "rollSave"} = {}

\* No revert leaves the record of its change behind.
NothingLeft == \A t \in Tokens : "left" \notin fate[t]

LEMMA NothingLeftStep ==
    ASSUME Completes, TypeOK, NothingLeft, [Next]_vars
    PROVE  NothingLeft'
<1>1. "io" \notin Faults
  BY DEF TypeOK, Completes, Faults
<1>2. ASSUME NEW p \in Procs, Keep(p) PROVE NothingLeft'
  BY <1>2 DEF Keep, NothingLeft, TypeOK
<1>3. ASSUME NEW a \in Actors, RevertUndo(a) PROVE NothingLeft'
  <2>1. pending' = NoToken /\ pending # NoToken
    BY <1>1, <1>3 DEF RevertUndo, Discard
  <2>2. fate' = [fate EXCEPT ![pending] = @ \union {"undone"} \union {}]
    BY <1>3, <2>1 DEF RevertUndo
  <2> QED
    BY <2>2 DEF NothingLeft, TypeOK
<1>4. CASE UNCHANGED fate
  BY <1>4 DEF NothingLeft
<1>5. ASSUME NEW p \in Procs,
             \/ Prepare(p) \/ RevertByHand(p) \/ AnswerKeep(p) \/ AnswerRevert(p)
             \/ LockForApply(p) \/ Busy(p) \/ Write(p) \/ WriteFails(p) \/ Decide(p)
             \/ Arm(p) \/ ArmFails(p) \/ StartTimer(p) \/ NoTimer(p) \/ Load(p)
      PROVE  NothingLeft'
  BY <1>4, <1>5 DEF Prepare, RevertByHand, AnswerKeep, AnswerRevert, LockForApply, Busy, Write,
     WriteFails, Decide, Arm, ArmFails, StartTimer, NoTimer, Load, TakeLock, history
<1>6. ASSUME NEW p \in Procs,
             \/ LoadFails(p) \/ SavePrevious(p) \/ Promote(p) \/ PromoteFails(p) \/ Record(p)
             \/ LockForKeep(p) \/ KeepNothing(p) \/ RollBack(p) \/ RollRun(p) \/ RollSave(p)
             \/ RollSwap(p) \/ RollFails(p) \/ RecordRevert(p) \/ Crash(p)
      PROVE  NothingLeft'
  BY <1>4, <1>6 DEF LoadFails, SavePrevious, Promote, PromoteFails, Record, LockForKeep,
     KeepNothing, RollBack, RollRun, RollSave, RollSwap, RollFails, RecordRevert, Crash, TakeLock,
     history
<1>7. CASE \/ ChangeRules \/ SiteApply \/ Reboot \/ UNCHANGED vars
           \/ \E t \in Tokens : Fire(t) \/ Deadline(t) \/ GoStale(t)
           \/ \E a \in Actors : \/ LockForRevert(a) \/ GiveUp(a) \/ RevertNothing(a)
                               \/ Undo(a) \/ UndoFails(a)
  BY <1>4, <1>7 DEF ChangeRules, SiteApply, Reboot, Fire, Deadline, GoStale, LockForRevert, GiveUp,
     RevertNothing, Undo, UndoFails, TakeLock, vars, history
<1> QED
  BY <1>2, <1>3, <1>5, <1>6, <1>7, Actions

TimerAlive(t) == pc[t] \in {"armed", "revLock", "revert"}

\* Rules that are not those that boot are about to be promoted or undone, or a
\* timer will undo them.
WatchedInv ==
    /\ kernel # applied =>
         \/ \E p \in Procs : pc[p] \in {"save", "promote", "rollSave"}
         \/ \E a \in Actors : pc[a] = "undo"
         \/ pending # NoToken /\ TimerAlive(pending)
    /\ \A p \in Procs :
         /\ pc[p] \in {"arm", "timer", "load"} => kernel = applied
         /\ pc[p] = "load" /\ job[p].kind = "confirm" => TimerAlive(pending)
    /\ pending # NoToken /\ age[pending] = "stale" => ~TimerAlive(pending)

\* A run completes what it begins, so that rules that are not those that boot
\* are on their way to be.
LEMMA WatchedStep ==
    ASSUME Completes, TypeOK, LockInv, TokensOK, KindInv, RecordInv, KernelInv, NothingLeft,
           WatchedInv, [Next]_vars
    PROVE  WatchedInv'
<1>0. /\ scene' = scene
      /\ \A f \in {"io", "load", "busy", "clock"} : f \notin Faults
      /\ \A l \in {"save", "promote", "undo", "rollSave"} : l \notin CrashAt
  BY Actions DEF vars, TypeOK, Completes, Faults, CrashAt
<1> USE ConstantsAssumption DEF TypeOK, Actors, Jobs, NoJob, Goto, ReturnTo, End, Quiescent,
  GotoStopping, TakeLock, timing, WatchedInv, TimerAlive, LockInv, LockHeld,
  Locked, files, CanBegin, CrashAt
<1>1. CASE ChangeRules
  BY <1>0, <1>1 DEF ChangeRules
<1>2. CASE SiteApply
  BY <1>0, <1>2 DEF SiteApply
<1>3. CASE Reboot
  BY <1>0, <1>3 DEF Reboot
<1>4. ASSUME NEW p \in Procs, Prepare(p) PROVE WatchedInv'
  BY <1>0, <1>4 DEF Prepare, MayApply, MayWrite, Passed
<1>5. ASSUME NEW p \in Procs, RevertByHand(p) PROVE WatchedInv'
  BY <1>0, <1>5 DEF RevertByHand
<1>6. ASSUME NEW p \in Procs, AnswerKeep(p) PROVE WatchedInv'
  BY <1>0, <1>6 DEF AnswerKeep
<1>7. ASSUME NEW p \in Procs, AnswerRevert(p) PROVE WatchedInv'
  BY <1>0, <1>7 DEF AnswerRevert
<1>8. ASSUME NEW p \in Procs, LockForApply(p) PROVE WatchedInv'
  BY <1>0, <1>8 DEF LockForApply
<1>9. ASSUME NEW p \in Procs, Busy(p) PROVE WatchedInv'
  BY <1>0, <1>9 DEF Busy
<1>10. ASSUME NEW p \in Procs, Write(p) PROVE WatchedInv'
  BY <1>0, <1>10 DEF Write, KindInv
<1>11. ASSUME NEW p \in Procs, WriteFails(p) PROVE WatchedInv'
  BY <1>0, <1>11 DEF WriteFails
<1>12. ASSUME NEW p \in Procs, Decide(p) PROVE WatchedInv'
  BY <1>0, <1>12 DEF Decide, Waiting
<1>13. ASSUME NEW p \in Procs, Arm(p) PROVE WatchedInv'
  BY <1>0, <1>13 DEF Arm, TokensOK
<1>14. ASSUME NEW p \in Procs, ArmFails(p) PROVE WatchedInv'
  BY <1>0, <1>14 DEF ArmFails
<1>15. ASSUME NEW p \in Procs, StartTimer(p) PROVE WatchedInv'
  BY <1>0, <1>15 DEF StartTimer, TokensOK, RecordInv
<1>16. ASSUME NEW p \in Procs, NoTimer(p) PROVE WatchedInv'
  BY <1>0, <1>16 DEF NoTimer, Discard
<1>17. ASSUME NEW p \in Procs, Load(p) PROVE WatchedInv'
  BY <1>0, <1>17 DEF Load, RecordInv, TokensOK
<1>18. ASSUME NEW p \in Procs, LoadFails(p) PROVE WatchedInv'
  BY <1>0, <1>18 DEF LoadFails, Discard
<1>19. ASSUME NEW p \in Procs, SavePrevious(p) PROVE WatchedInv'
  BY <1>0, <1>19 DEF SavePrevious
<1>20. ASSUME NEW p \in Procs, Promote(p) PROVE WatchedInv'
  <2>1. ~KeptUndone(p)
    BY DEF KeptUndone, NothingLeft, TokensOK
  <2> QED
    BY <1>0, <1>20, <2>1 DEF Promote, KernelInv
<1>21. ASSUME NEW p \in Procs, PromoteFails(p) PROVE WatchedInv'
  BY <1>0, <1>21 DEF PromoteFails
<1>22. ASSUME NEW p \in Procs, Record(p) PROVE WatchedInv'
  <2>1. /\ pc[p] = "record" /\ pc'[p] \in {"ask", "idle"}
        /\ \A a \in Actors : a # p => pc'[a] = pc[a]
        /\ \A q \in Procs : q # p => job'[q] = job[q]
        /\ UNCHANGED <<kernel, applied, pending, age>>
    <3>1. CASE job[p].outcome = "awaiting"
      BY <1>22, <3>1 DEF Record
    <3>2. CASE job[p].outcome # "awaiting"
      BY <1>22, <3>2 DEF Record
    <3>3. QED
      BY <3>1, <3>2
  <2>2. p \in Actors /\ p \notin Tokens /\ (pending # NoToken => pending \in Actors)
    BY <1>22
  <2>3. pending # NoToken => pc'[pending] = pc[pending]
    BY <2>1, <2>2
  <2>4. kernel' # applied' =>
          \/ \E q \in Procs : pc'[q] \in {"save", "promote", "rollSave"}
          \/ \E a \in Actors : pc'[a] = "undo"
          \/ pending' # NoToken /\ TimerAlive(pending)'
    BY <2>1, <2>3
  <2>5. ASSUME NEW q \in Procs
        PROVE  /\ pc'[q] \in {"arm", "timer", "load"} => kernel' = applied'
               /\ pc'[q] = "load" /\ job'[q].kind = "confirm" => TimerAlive(pending)'
    BY <2>1, <2>2, <2>3 DEF TokensOK, RecordInv
  <2>6. pending' # NoToken /\ age'[pending'] = "stale" => ~TimerAlive(pending)'
    BY <2>1, <2>3
  <2>7. QED
    BY <2>4, <2>5, <2>6
<1>23. ASSUME NEW p \in Procs, LockForKeep(p) PROVE WatchedInv'
  BY <1>0, <1>23 DEF LockForKeep
<1>24. ASSUME NEW p \in Procs, Keep(p) PROVE WatchedInv'
  BY <1>0, <1>24 DEF Keep
<1>25. ASSUME NEW p \in Procs, KeepNothing(p) PROVE WatchedInv'
  BY <1>0, <1>25 DEF KeepNothing
<1>26. ASSUME NEW p \in Procs, RollBack(p) PROVE WatchedInv'
  BY <1>0, <1>26 DEF RollBack
<1>27. ASSUME NEW p \in Procs, RollRun(p) PROVE WatchedInv'
  BY <1>0, <1>27 DEF RollRun
<1>28. ASSUME NEW p \in Procs, RollSave(p) PROVE WatchedInv'
  BY <1>0, <1>28 DEF RollSave, KernelInv
<1>29. ASSUME NEW p \in Procs, RollSwap(p) PROVE WatchedInv'
  BY <1>0, <1>29 DEF RollSwap
<1>30. ASSUME NEW p \in Procs, RollFails(p) PROVE WatchedInv'
  BY <1>0, <1>30 DEF RollFails
<1>31. ASSUME NEW p \in Procs, RecordRevert(p) PROVE WatchedInv'
  BY <1>0, <1>31 DEF RecordRevert
<1>32. ASSUME NEW p \in Procs, Crash(p) PROVE WatchedInv'
  BY <1>0, <1>32 DEF Crash
<1>33. ASSUME NEW t \in Tokens, Fire(t) PROVE WatchedInv'
  BY <1>0, <1>33 DEF Fire
<1>34. ASSUME NEW t \in Tokens, Deadline(t) PROVE WatchedInv'
  BY <1>0, <1>34 DEF Deadline
<1>35. ASSUME NEW t \in Tokens, GoStale(t) PROVE WatchedInv'
  <2>1. pc[t] \in {"idle", "off", "done"}
    BY <1>0, <1>35 DEF GoStale, Tok
  <2>2. QED
    BY <1>0, <1>35, <2>1 DEF GoStale
<1>36. ASSUME NEW a \in Actors, LockForRevert(a) PROVE WatchedInv'
  BY <1>0, <1>36 DEF LockForRevert
<1>37. ASSUME NEW a \in Actors, GiveUp(a) PROVE WatchedInv'
  BY <1>0, <1>37 DEF GiveUp
<1>38. ASSUME NEW a \in Actors, RevertNothing(a) PROVE WatchedInv'
  BY <1>0, <1>38 DEF RevertNothing, Tok
<1>39. ASSUME NEW a \in Actors, RevertUndo(a) PROVE WatchedInv'
  BY <1>0, <1>39 DEF RevertUndo, Discard
<1>40. ASSUME NEW a \in Actors, Undo(a) PROVE WatchedInv'
  BY <1>0, <1>40 DEF Undo
<1>41. ASSUME NEW a \in Actors, UndoFails(a) PROVE WatchedInv'
  BY <1>0, <1>41 DEF UndoFails
<1>42. CASE UNCHANGED vars
  BY <1>42 DEF vars
<1>43. QED
  BY <1>1, <1>2, <1>3, <1>4, <1>5, <1>6, <1>7, <1>8, <1>9, <1>10, <1>11,
    <1>12, <1>13, <1>14, <1>15, <1>16, <1>17, <1>18, <1>19, <1>20, <1>21,
    <1>22, <1>23, <1>24, <1>25, <1>26, <1>27, <1>28, <1>29, <1>30, <1>31,
    <1>32, <1>33, <1>34, <1>35, <1>36, <1>37, <1>38, <1>39, <1>40, <1>41,
    <1>42, Actions

LEMMA WatchedHolds ==
    ASSUME WritesLocked, Completes
    PROVE  Spec => []WatchedInv
<1>1. Init => WatchedInv
  BY ConstantsAssumption DEF Init, WatchedInv, TimerAlive, Actors
<1>2. TypeOK /\ LockInv /\ CommitInv /\ NothingLeft /\ WatchedInv /\ [Next]_vars
      => WatchedInv'
  BY WatchedStep DEF CommitInv
<1>3. Init => NothingLeft
  BY DEF Init, NothingLeft
<1>4. TypeOK /\ NothingLeft /\ [Next]_vars => NothingLeft'
  BY NothingLeftStep
<1>5. QED
  BY <1>1, <1>2, <1>3, <1>4, CommitHolds, PTL DEF Spec

\* Once everything is over and nothing waits, the kernel runs the script that
\* boots, if what a run begins it completes.
THEOREM KernelAgrees ==
    ASSUME WritesLocked, Completes
    PROVE  Spec => []KernelMatchesBoot
<1>1. WatchedInv => KernelMatchesBoot
  BY DEF WatchedInv, KernelMatchesBoot, Idle, Actors
<1>2. QED
  BY <1>1, WatchedHolds, PTL

\* One front end, that records what it did.
RecordsIt ==
    \A s \in Scenes :
        /\ s.alone /\ "reboot" \notin s.faults
        /\ s.crashAt \intersect {"record", "rollSwap", "recordRevert"} = {}

Recording(p) ==
    \/ pc[p] = "record" /\ job[p].outcome \in {"applied", "kept"}
    \/ pc[p] \in {"rollSwap", "recordRevert"}

SignatureInv ==
    /\ \A p \in Procs :
         /\ pc[p] \in {"save", "promote"} => job[p].outcome \in {"applied", "kept"}
         /\ pc[p] = "record" /\ job[p].outcome \in {"applied", "kept"}
            => job[p].script = applied
    /\ appliedSig \in {Absent, applied} \/ \E p \in Procs : Recording(p)

\* What one front end did is recorded before it does anything else.
LEMMA SignatureStep ==
    ASSUME Completes, RecordsIt, TypeOK, Alone, KindInv, KernelInv, SignatureInv, [Next]_vars
    PROVE  SignatureInv'
<1>0. /\ scene' = scene /\ scene.alone
      /\ \A f \in {"io", "load", "busy", "clock", "reboot"} : f \notin Faults
      /\ \A l \in {"save", "promote", "undo", "rollSave", "record", "rollSwap", "recordRevert"} :
           l \notin CrashAt
  BY Actions DEF vars, TypeOK, Completes, RecordsIt, Faults, CrashAt
<1> USE ConstantsAssumption DEF TypeOK, Actors, Jobs, NoJob, Goto, ReturnTo, End, Quiescent,
  GotoStopping, TakeLock, timing, SignatureInv, Recording, Alone, KindInv,
  files, db, CanBegin, CrashAt
<1>1. CASE ChangeRules
  BY <1>0, <1>1 DEF ChangeRules
<1>2. CASE SiteApply
  BY <1>0, <1>2 DEF SiteApply
<1>3. CASE Reboot
  BY <1>0, <1>3 DEF Reboot
<1>4. ASSUME NEW p \in Procs, Prepare(p) PROVE SignatureInv'
  BY <1>0, <1>4 DEF Prepare, MayApply, MayWrite, Passed
<1>5. ASSUME NEW p \in Procs, RevertByHand(p) PROVE SignatureInv'
  BY <1>0, <1>5 DEF RevertByHand
<1>6. ASSUME NEW p \in Procs, AnswerKeep(p) PROVE SignatureInv'
  BY <1>0, <1>6 DEF AnswerKeep
<1>7. ASSUME NEW p \in Procs, AnswerRevert(p) PROVE SignatureInv'
  BY <1>0, <1>7 DEF AnswerRevert
<1>8. ASSUME NEW p \in Procs, LockForApply(p) PROVE SignatureInv'
  BY <1>0, <1>8 DEF LockForApply
<1>9. ASSUME NEW p \in Procs, Busy(p) PROVE SignatureInv'
  BY <1>0, <1>9 DEF Busy
<1>10. ASSUME NEW p \in Procs, Write(p) PROVE SignatureInv'
  BY <1>0, <1>10 DEF Write
<1>11. ASSUME NEW p \in Procs, WriteFails(p) PROVE SignatureInv'
  BY <1>0, <1>11 DEF WriteFails
<1>12. ASSUME NEW p \in Procs, Decide(p) PROVE SignatureInv'
  BY <1>0, <1>12 DEF Decide
<1>13. ASSUME NEW p \in Procs, Arm(p) PROVE SignatureInv'
  BY <1>0, <1>13 DEF Arm
<1>14. ASSUME NEW p \in Procs, ArmFails(p) PROVE SignatureInv'
  BY <1>0, <1>14 DEF ArmFails
<1>15. ASSUME NEW p \in Procs, StartTimer(p) PROVE SignatureInv'
  BY <1>0, <1>15 DEF StartTimer
<1>16. ASSUME NEW p \in Procs, NoTimer(p) PROVE SignatureInv'
  BY <1>0, <1>16 DEF NoTimer, Discard
<1>17. ASSUME NEW p \in Procs, Load(p) PROVE SignatureInv'
  BY <1>0, <1>17 DEF Load
<1>18. ASSUME NEW p \in Procs, LoadFails(p) PROVE SignatureInv'
  BY <1>0, <1>18 DEF LoadFails, Discard
<1>19. ASSUME NEW p \in Procs, SavePrevious(p) PROVE SignatureInv'
  BY <1>0, <1>19 DEF SavePrevious
<1>20. ASSUME NEW p \in Procs, Promote(p) PROVE SignatureInv'
  BY <1>0, <1>20 DEF Promote
<1>21. ASSUME NEW p \in Procs, PromoteFails(p) PROVE SignatureInv'
  BY <1>0, <1>21 DEF PromoteFails
<1>22. ASSUME NEW p \in Procs, Record(p) PROVE SignatureInv'
  <2>1. CASE job[p].outcome = "awaiting"
    BY <1>0, <1>22, <2>1 DEF Record
  <2>2. CASE job[p].outcome \in {"applied", "kept"}
    BY <1>0, <1>22, <2>2 DEF Record
  <2>3. CASE job[p].outcome \in {"none", "written"}
    <3>1. UNCHANGED appliedSig
      BY <1>22, <2>3 DEF Record
    <3>2. \A q \in Procs : Recording(q) => q = p
      BY <1>0, <1>22 DEF Record
    <3>3. ~Recording(p)
      BY <1>22, <2>3 DEF Record
    <3>4. appliedSig \in {Absent, applied}
      BY <3>2, <3>3
    <3>5. QED
      BY <1>0, <1>22, <2>3, <3>1, <3>4 DEF Record
  <2>4. QED
    BY <1>22, <2>1, <2>2, <2>3 DEF Outcomes
<1>23. ASSUME NEW p \in Procs, LockForKeep(p) PROVE SignatureInv'
  BY <1>0, <1>23 DEF LockForKeep
<1>24. ASSUME NEW p \in Procs, Keep(p) PROVE SignatureInv'
  BY <1>0, <1>24 DEF Keep
<1>25. ASSUME NEW p \in Procs, KeepNothing(p) PROVE SignatureInv'
  BY <1>0, <1>25 DEF KeepNothing
<1>26. ASSUME NEW p \in Procs, RollBack(p) PROVE SignatureInv'
  BY <1>0, <1>26 DEF RollBack
<1>27. ASSUME NEW p \in Procs, RollRun(p) PROVE SignatureInv'
  BY <1>0, <1>27 DEF RollRun
<1>28. ASSUME NEW p \in Procs, RollSave(p) PROVE SignatureInv'
  BY <1>0, <1>28 DEF RollSave
<1>29. ASSUME NEW p \in Procs, RollSwap(p) PROVE SignatureInv'
  BY <1>0, <1>29 DEF RollSwap
<1>30. ASSUME NEW p \in Procs, RollFails(p) PROVE SignatureInv'
  BY <1>0, <1>30 DEF RollFails
<1>31. ASSUME NEW p \in Procs, RecordRevert(p) PROVE SignatureInv'
  BY <1>0, <1>31 DEF RecordRevert
<1>32. ASSUME NEW p \in Procs, Crash(p) PROVE SignatureInv'
  BY <1>0, <1>32 DEF Crash
<1>33. ASSUME NEW t \in Tokens, Fire(t) PROVE SignatureInv'
  BY <1>0, <1>33 DEF Fire
<1>34. ASSUME NEW t \in Tokens, Deadline(t) PROVE SignatureInv'
  BY <1>0, <1>34 DEF Deadline
<1>35. ASSUME NEW t \in Tokens, GoStale(t) PROVE SignatureInv'
  BY <1>0, <1>35 DEF GoStale
<1>36. ASSUME NEW a \in Actors, LockForRevert(a) PROVE SignatureInv'
  BY <1>0, <1>36 DEF LockForRevert
<1>37. ASSUME NEW a \in Actors, GiveUp(a) PROVE SignatureInv'
  BY <1>0, <1>37 DEF GiveUp
<1>38. ASSUME NEW a \in Actors, RevertNothing(a) PROVE SignatureInv'
  BY <1>0, <1>38 DEF RevertNothing
<1>39. ASSUME NEW a \in Actors, RevertUndo(a) PROVE SignatureInv'
  BY <1>0, <1>39 DEF RevertUndo, Discard
<1>40. ASSUME NEW a \in Actors, Undo(a) PROVE SignatureInv'
  BY <1>0, <1>40 DEF Undo
<1>41. ASSUME NEW a \in Actors, UndoFails(a) PROVE SignatureInv'
  BY <1>0, <1>41 DEF UndoFails
<1>42. CASE UNCHANGED vars
  BY <1>42 DEF vars
<1>43. QED
  BY <1>1, <1>2, <1>3, <1>4, <1>5, <1>6, <1>7, <1>8, <1>9, <1>10, <1>11,
    <1>12, <1>13, <1>14, <1>15, <1>16, <1>17, <1>18, <1>19, <1>20, <1>21,
    <1>22, <1>23, <1>24, <1>25, <1>26, <1>27, <1>28, <1>29, <1>30, <1>31,
    <1>32, <1>33, <1>34, <1>35, <1>36, <1>37, <1>38, <1>39, <1>40, <1>41,
    <1>42, Actions

\* The rules recorded as applied are those the kernel runs, if one front end
\* works at a time and lives to record what it did.
THEOREM SignatureAgrees ==
    ASSUME WritesLocked, Completes, RecordsIt
    PROVE  Spec => []AppliedIsLoaded
<1>1. Init => SignatureInv
  BY ConstantsAssumption DEF Init, SignatureInv, Actors
<1>2. TypeOK /\ CommitInv /\ SignatureInv /\ [Next]_vars => SignatureInv'
  BY SignatureStep DEF CommitInv
<1>3. SignatureInv /\ KernelMatchesBoot => AppliedIsLoaded
  BY DEF SignatureInv, Recording, KernelMatchesBoot, AppliedIsLoaded, Idle, Actors
<1>4. QED
  BY <1>1, <1>2, <1>3, CommitHolds, KernelAgrees, PTL DEF Spec



-----------------------------------------------------------------------------
(* Types.                                                                  *)

\* An index into the moved settings names one of them.
LEMMA MovedKey ==
    /\ Len(MovedKeys) \in Nat /\ Len(MovedKeys) >= 1
    /\ \A i \in 1 .. Len(MovedKeys) : MovedKeys[i] \in Keys
BY UpgradeAssumption DEF Keys

\* What a host is.
LEMMA HostIs ==
    ASSUME host \in Hosts
    PROVE  /\ host.base \in Databases /\ host.knows \in [Openers -> Versions]
           /\ host.root \subseteq Openers
           /\ host.rows \in [Keys -> Values \union {Unset, Invalid}]
           /\ ~host.base.tables => host.base.version = 0 /\ ~host.base.today
<1>1. host \in [base : Databases, knows : [Openers -> Versions],
                root : SUBSET Openers, trusted : BOOLEAN,
                rows : [Keys -> Values \union {Unset, Invalid}],
                edits : BOOLEAN, faults : SUBSET (OpenFaults \union RemoveFaults)]
  BY UpgradeAssumption
<1>2. QED
  BY <1>1, UpgradeAssumption

\* What a process has in memory before it has anything.
LEMMA NoMemIs == NoMem \in Mems /\ NoConf \in Confs /\ NoCopy \in Copies
<1>1. NoConf \in Confs
  BY DEF NoConf, Confs
<1>2. 0 \in Versions /\ <<0, 0>> \in Names
  BY UpgradeAssumption DEF Versions, Names
<1>3. 1 \in 1 .. Len(MovedKeys) + 1
  BY MovedKey
<1>4. NoMem \in Mems
  BY <1>1, <1>2, <1>3 DEF NoMem, Mems
<1>5. QED
  BY <1>1, <1>2, <1>4 DEF NoCopy, Copies

LEMMA StepType ==
    ASSUME UpTypeOK, NEW p \in Openers, NEW from, NEW to \in OpenLabels, Step(p, from, to)
    PROVE  at' \in [Openers -> OpenLabels]
BY DEF UpTypeOK, Step

LEMMA EndsType ==
    ASSUME UpTypeOK, NEW p \in Openers, Ends(p)
    PROVE  at' \in [Openers -> OpenLabels] /\ mem' \in [Openers -> Mems]
BY NoMemIs DEF UpTypeOK, Ends, OpenLabels

\* The memory of a process, one field of it replaced.
LEMMA MemFields ==
    ASSUME NEW m \in Mems
    PROVE  /\ \A v \in Versions : [m EXCEPT !.found = v] \in Mems
           /\ \A v \in Versions : [m EXCEPT !.from = v] \in Mems
           /\ \A b \in BOOLEAN : [m EXCEPT !.fresh = b] \in Mems
           /\ \A c \in Names : [m EXCEPT !.copy = c] \in Mems
           /\ \A c \in Confs : [m EXCEPT !.conf = c] \in Mems
           /\ \A i \in 1 .. Len(MovedKeys) + 1 : [m EXCEPT !.n = i] \in Mems
BY DEF Mems

LEMMA TakeUpType ==
    ASSUME UpTypeOK, NEW p, TakeUp(p)
    PROVE  unsure' \in BOOLEAN
BY DEF UpTypeOK, TakeUp

\* Every step keeps every variable in its type.
LEMMA UpTypeStep ==
    ASSUME UpTypeOK, [UpNext]_upVars
    PROVE  UpTypeOK'
<1>1. ASSUME NEW p \in Openers, Look(p) PROVE UpTypeOK'
  <2>1. at' \in [Openers -> OpenLabels]
    BY <1>1 DEF Look, UpTypeOK, Step, OpenLabels
  <2>2. mem' \in [Openers -> Mems]
    <3>1. [NoMem EXCEPT !.found = base.version] \in Mems
      BY NoMemIs, MemFields DEF UpTypeOK, Databases
    <3>2. mem' = [mem EXCEPT ![p] = [NoMem EXCEPT !.found = base.version]]
      BY <1>1 DEF Look
    <3>3. QED
      BY <3>1, <3>2 DEF UpTypeOK
  <2>3. QED
    BY <1>1, <2>1, <2>2 DEF Look, UpTypeOK, schema, settings
<1>2. ASSUME NEW p \in Openers, Tables(p) PROVE UpTypeOK'
  <2>1. at' \in [Openers -> OpenLabels]
    BY <1>2 DEF Tables, UpTypeOK, Step, OpenLabels
  <2>2. [mem[p] EXCEPT !.fresh = ~base.tables] \in Mems
    BY MemFields DEF UpTypeOK
  <2>3. mem' = [mem EXCEPT ![p] = [mem[p] EXCEPT !.fresh = ~base.tables]]
    BY <1>2 DEF Tables
  <2>4. mem' \in [Openers -> Mems]
    BY <2>2, <2>3 DEF UpTypeOK
  <2>5. QED
    BY <1>2, <2>1, <2>4 DEF Tables, UpTypeOK, schema, settings
<1>3. ASSUME NEW p \in Openers, Create(p) PROVE UpTypeOK'
  <2>1. at' \in [Openers -> OpenLabels]
    BY <1>3 DEF Create, UpTypeOK, Step, OpenLabels
  <2>2. PICK n \in 0 .. MaxCopies :
          /\ copies' = [copies EXCEPT ![<<mem[p].found, n>>] =
                          [NoCopy EXCEPT !.state = "empty"]]
          /\ mem' = [mem EXCEPT ![p] = [mem[p] EXCEPT !.copy = <<mem[p].found, n>>]]
    BY <1>3 DEF Create
  <2>3. mem[p] \in Mems /\ mem[p].found \in Versions
    BY DEF UpTypeOK, Mems
  <2>4. <<mem[p].found, n>> \in Names
    BY <2>3 DEF Names
  <2>5. mem' \in [Openers -> Mems]
    BY <2>2, <2>3, <2>4, MemFields DEF UpTypeOK
  <2>6. [NoCopy EXCEPT !.state = "empty"] \in Copies
    BY NoMemIs DEF Copies
  <2>7. copies' \in [Names -> Copies]
    BY <2>2, <2>6 DEF UpTypeOK
  <2>8. QED
    BY <1>3, <2>1, <2>5, <2>7 DEF Create, UpTypeOK, settings
<1>4. ASSUME NEW p \in Openers, Vacuum(p) PROVE UpTypeOK'
  <2>1. at' \in [Openers -> OpenLabels]
    BY <1>4 DEF Vacuum, UpTypeOK, Step, OpenLabels
  <2>2. [state |-> "whole", holds |-> base.version, synced |-> FALSE] \in Copies
    BY DEF UpTypeOK, Databases, Copies
  <2>3. copies' \in [Names -> Copies]
    BY <1>4, <2>2 DEF UpTypeOK, Vacuum
  <2>4. QED
    BY <1>4, <2>1, <2>3 DEF Vacuum, UpTypeOK, settings
<1>5. ASSUME NEW p \in Openers, Sync(p) PROVE UpTypeOK'
  <2>1. at' \in [Openers -> OpenLabels]
    BY <1>5 DEF Sync, UpTypeOK, Step, OpenLabels
  <2>2. mem[p].copy \in Names
    BY DEF UpTypeOK, Mems
  <2>3. [copies[mem[p].copy] EXCEPT !.synced = TRUE] \in Copies
    BY <2>2 DEF UpTypeOK, Copies
  <2>4. copies' = [copies EXCEPT ![mem[p].copy] =
                     [copies[mem[p].copy] EXCEPT !.synced = TRUE]]
    BY <1>5 DEF Sync
  <2>5. copies' \in [Names -> Copies]
    BY <2>3, <2>4 DEF UpTypeOK
  <2>6. QED
    BY <1>5, <2>1, <2>5 DEF Sync, UpTypeOK, settings
<1>6. ASSUME NEW p \in Openers, BackupFails(p) PROVE UpTypeOK'
  BY <1>6, EndsType DEF BackupFails, UpTypeOK, schema, settings
<1>7. ASSUME NEW p \in Openers, Begin(p) PROVE UpTypeOK'
  BY <1>7 DEF Begin, UpTypeOK, Step, OpenLabels, Mems, schema, settings
<1>8. ASSUME NEW p \in Openers, Busied(p) PROVE UpTypeOK'
  BY <1>8, EndsType DEF Busied, UpTypeOK, schema, settings
<1>9. ASSUME NEW p \in Openers, Reread(p) PROVE UpTypeOK'
  <2>1. at' \in [Openers -> OpenLabels]
    BY <1>9 DEF Reread, UpTypeOK, Step, OpenLabels
  <2>2. [mem[p] EXCEPT !.from = base.version] \in Mems
    BY MemFields DEF UpTypeOK, Databases
  <2>3. mem' = [mem EXCEPT ![p] = [mem[p] EXCEPT !.from = base.version]]
    BY <1>9 DEF Reread
  <2>4. mem' \in [Openers -> Mems]
    BY <2>2, <2>3 DEF UpTypeOK
  <2>5. QED
    BY <1>9, <2>1, <2>4 DEF Reread, UpTypeOK, schema, settings
<1>10. ASSUME NEW p \in Openers, Commit(p) PROVE UpTypeOK'
  <2>1. at' \in [Openers -> OpenLabels]
    BY <1>10 DEF Commit, UpTypeOK, Step, OpenLabels
  <2>2. base' \in Databases
    <3>1. host.knows[p] \in Versions
      BY HostIs DEF UpTypeOK
    <3>2. base.today \in BOOLEAN /\ mem[p].fresh \in BOOLEAN
      BY DEF UpTypeOK, Databases, Mems
    <3>3. base' = [version |-> host.knows[p], tables |-> TRUE,
                   today |-> base.today \/ mem[p].fresh]
      BY <1>10 DEF Commit
    <3>4. QED
      BY <3>1, <3>2, <3>3 DEF Databases
  <2>3. ran' \in [1 .. MaxVersion -> Nat]
    BY <1>10 DEF UpTypeOK, Commit
  <2>4. QED
    BY <1>10, <2>1, <2>2, <2>3 DEF Commit, UpTypeOK, settings
<1>11. ASSUME NEW p \in Openers, RollBackUpgrade(p) PROVE UpTypeOK'
  BY <1>11, EndsType DEF RollBackUpgrade, UpTypeOK, schema, settings
<1>12. ASSUME NEW p \in Openers, MoveLook(p) PROVE UpTypeOK'
  <2>1. at' \in [Openers -> OpenLabels]
    BY <1>12 DEF MoveLook, UpTypeOK, Step, OpenLabels
  <2>2. mem' \in [Openers -> Mems]
    <3>1. [[mem[p] EXCEPT !.conf = NoConf] EXCEPT !.n = 1] \in Mems
      <4>1. [mem[p] EXCEPT !.conf = NoConf] \in Mems
        BY MemFields, NoMemIs DEF UpTypeOK
      <4>2. 1 \in 1 .. Len(MovedKeys) + 1
        BY MovedKey
      <4>3. QED
        BY <4>1, <4>2, MemFields
    <3>2. \/ mem' = mem
          \/ mem' = [mem EXCEPT ![p] = [[mem[p] EXCEPT !.conf = NoConf] EXCEPT !.n = 1]]
      BY <1>12 DEF MoveLook, UpTypeOK
    <3>3. QED
      BY <3>1, <3>2 DEF UpTypeOK
  <2>3. unsure' \in BOOLEAN
    BY <1>12, TakeUpType DEF MoveLook, UpTypeOK
  <2>4. QED
    BY <1>12, <2>1, <2>2, <2>3 DEF MoveLook, UpTypeOK, schema
<1>13. ASSUME NEW p \in Openers, ReadRow(p) PROVE UpTypeOK'
  <2>1. at' \in [Openers -> OpenLabels]
    BY <1>13 DEF ReadRow, UpTypeOK, Step, OpenLabels
  <2>2. mem' \in [Openers -> Mems]
    <3> DEFINE k == MovedKeys[mem[p].n]
               c == [mem[p].conf EXCEPT ![k] = Movable(rows[k])]
    <3>1. mem[p].n \in 1 .. Len(MovedKeys) /\ mem[p].conf \in Confs
      BY <1>13, MovedKey DEF UpTypeOK, Mems, ReadRow
    <3>2. k \in Keys /\ Movable(rows[k]) \in Values \union {Unset}
      BY <3>1, MovedKey DEF Movable
    <3>3. c \in Confs
      BY <3>1, <3>2 DEF Confs
    <3>4. [[mem[p] EXCEPT !.conf = c] EXCEPT !.n = mem[p].n + 1] \in Mems
      <4>1. mem[p].n + 1 \in 1 .. Len(MovedKeys) + 1
        BY <3>1, MovedKey
      <4>2. [mem[p] EXCEPT !.conf = c] \in Mems
        BY <3>3, MemFields DEF UpTypeOK
      <4>3. QED
        BY <4>1, <4>2, MemFields
    <3>5. mem' = [mem EXCEPT ![p] = [[mem[p] EXCEPT !.conf = c] EXCEPT !.n = mem[p].n + 1]]
      BY <1>13 DEF ReadRow, UpTypeOK, Mems
    <3>6. QED
      BY <3>4, <3>5 DEF UpTypeOK
  <2>3. QED
    BY <1>13, <2>1, <2>2 DEF ReadRow, UpTypeOK, schema, settings
<1>14. ASSUME NEW p \in Openers, Save(p) PROVE UpTypeOK'
  <2>1. at' \in [Openers -> OpenLabels]
    BY <1>14 DEF Save, UpTypeOK, Step, OpenLabels
  <2>2. [mem[p] EXCEPT !.n = 1] \in Mems /\ mem[p].conf \in Confs
    BY MemFields, MovedKey DEF UpTypeOK, Mems
  <2>3. mem' = [mem EXCEPT ![p] = [mem[p] EXCEPT !.n = 1]]
    BY <1>14 DEF Save
  <2>4. mem' \in [Openers -> Mems]
    BY <2>2, <2>3 DEF UpTypeOK
  <2>5. QED
    BY <1>14, <2>1, <2>2, <2>4 DEF Save, UpTypeOK, schema
<1>15. ASSUME NEW p \in Openers, ForgetRow(p) PROVE UpTypeOK'
  <2>1. at' \in [Openers -> OpenLabels]
    BY <1>15 DEF ForgetRow, UpTypeOK, Step, OpenLabels
  <2>2. mem[p].n + 1 \in 1 .. Len(MovedKeys) + 1 /\ MovedKeys[mem[p].n] \in Keys
    BY <1>15, MovedKey DEF UpTypeOK, Mems, ForgetRow
  <2>3. mem' = [mem EXCEPT ![p] = [mem[p] EXCEPT !.n = mem[p].n + 1]]
    BY <1>15 DEF ForgetRow
  <2>4. mem' \in [Openers -> Mems]
    BY <2>2, <2>3, MemFields DEF UpTypeOK
  <2>5. rows' \in [Keys -> Values \union {Unset, Invalid}]
    BY <1>15 DEF UpTypeOK, ForgetRow
  <2>6. QED
    BY <1>15, <2>1, <2>4, <2>5 DEF ForgetRow, UpTypeOK, schema
<1>16. ASSUME NEW p \in Openers, LoadConf(p) PROVE UpTypeOK'
  <2>1. at' \in [Openers -> OpenLabels]
    BY <1>16 DEF LoadConf, UpTypeOK, Step, OpenLabels
  <2>2. (IF conf = Missing THEN NoConf ELSE conf) \in Confs
    BY NoMemIs DEF UpTypeOK
  <2>3. mem' = [mem EXCEPT ![p] =
                  [mem[p] EXCEPT !.conf = IF conf = Missing THEN NoConf ELSE conf]]
    BY <1>16 DEF LoadConf
  <2>4. mem' \in [Openers -> Mems]
    BY <2>2, <2>3, MemFields DEF UpTypeOK
  <2>5. unsure' \in BOOLEAN
    BY <1>16, TakeUpType DEF LoadConf, UpTypeOK
  <2>6. QED
    BY <1>16, <2>1, <2>4, <2>5 DEF LoadConf, UpTypeOK, schema
<1>17. ASSUME NEW p \in Openers, Store(p) PROVE UpTypeOK'
  <2>1. at' \in [Openers -> OpenLabels] /\ mem' \in [Openers -> Mems]
    BY <1>17, EndsType DEF Store
  <2>2. mem[p].conf \in Confs
    BY DEF UpTypeOK, Mems
  <2>3. conf' \in Confs /\ chosen' \in Confs
    BY <1>17, <2>2 DEF Store, UpTypeOK, Confs
  <2>4. QED
    BY <1>17, <2>1, <2>3 DEF Store, UpTypeOK, schema
<1>18. ASSUME NEW p \in Openers, SaveFails(p) PROVE UpTypeOK'
  BY <1>18, EndsType DEF SaveFails, UpTypeOK, schema, settings
<1>19. ASSUME NEW p \in Openers, Close(p) PROVE UpTypeOK'
  BY <1>19, EndsType DEF Close, UpTypeOK, schema, settings
<1>20. ASSUME NEW p \in Openers, Kill(p) PROVE UpTypeOK'
  BY <1>20, EndsType DEF Kill, UpTypeOK, schema, settings
<1>21. CASE Power
  BY <1>21, NoMemIs DEF Power, UpTypeOK, settings, OpenLabels, Copies
<1>24. CASE Flush
  BY <1>24 DEF Flush, UpTypeOK, schema
<1>22. CASE UNCHANGED upVars
  BY <1>22 DEF upVars, UpTypeOK, schema, settings
<1>23. QED
  BY <1>1, <1>2, <1>3, <1>4, <1>5, <1>6, <1>7, <1>8, <1>9, <1>10, <1>11,
    <1>12, <1>13, <1>14, <1>15, <1>16, <1>17, <1>18, <1>19, <1>20, <1>21,
    <1>22, <1>24 DEF UpNext, Opening

LEMMA UpTypeInit == UpInit => UpTypeOK
<1> SUFFICES ASSUME UpInit PROVE UpTypeOK
  OBVIOUS
<1>1. base \in Databases /\ base = host.base
  BY HostIs DEF UpInit
<1>2. rows \in [Keys -> Values \union {Unset, Invalid}] /\ conf = Missing
  BY HostIs DEF UpInit
<1>3. ran \in [1 .. MaxVersion -> Nat] /\ copies \in [Names -> Copies]
  BY NoMemIs DEF UpInit
<1>4. chosen \in Confs
  BY DEF UpInit, Movable, Confs
<1>5. at \in [Openers -> OpenLabels] /\ mem \in [Openers -> Mems]
  BY NoMemIs DEF UpInit, OpenLabels
<1>6. QED
  BY <1>1, <1>2, <1>3, <1>4, <1>5 DEF UpInit, UpTypeOK

\* Every variable has its type.
THEOREM UpTypeCorrect == UpSpec => []UpTypeOK
BY UpTypeInit, UpTypeStep, PTL DEF UpSpec

-----------------------------------------------------------------------------
(* The upgrade.                                                            *)

Copying == {"create", "vacuum", "sync"}
Writing == {"begin", "inside", "steps"}
Upgrading == {"tables"} \union Copying \union Writing

\* The database is what it was until somebody migrates it.
Grown ==
    /\ host.base.version <= base.version
    /\ base.version = host.base.version => base = host.base
    /\ base.version # host.base.version => base.tables

\* What a process found is older than its release, and no newer than what is
\* there; a database without tables is the one there was.
Found(p) ==
    /\ at[p] \in Upgrading =>
         /\ host.base.version <= mem[p].found
         /\ mem[p].found <= base.version
         /\ mem[p].found < host.knows[p]
    /\ at[p] \in Copying => ~mem[p].fresh
    /\ at[p] \in Copying \union Writing /\ ~mem[p].fresh => base.tables
    /\ at[p] \in Writing /\ mem[p].fresh => ~host.base.tables

\* From its making to the upgrade, a process's copy is its own, and holds what
\* the first upgrade will replace.
Copied(p) ==
    /\ at[p] = "vacuum" =>
         copies[mem[p].copy].state = "empty" /\ mem[p].copy[1] = mem[p].found
    /\ at[p] \in {"sync"} \union Writing /\ ~mem[p].fresh =>
         /\ copies[mem[p].copy].state = "whole" /\ mem[p].copy[1] = mem[p].found
         /\ at[p] # "sync" => copies[mem[p].copy].synced
         /\ base.version = host.base.version =>
              copies[mem[p].copy].holds = host.base.version

OwnCopy ==
    \A p, q \in Openers :
        p # q /\ at[p] = "vacuum" /\ at[q] = "vacuum" => mem[p].copy # mem[q].copy

\* One process migrates at a time, from what is there.
MoveLocked(p) ==
    /\ at[p] \in {"inside", "steps"} => writer = p
    /\ at[p] = "steps" => mem[p].from = base.version /\ base.version <= host.knows[p]

UpgradeInv ==
    /\ UpTypeOK /\ Grown /\ OwnCopy /\ Upgraded
    /\ \A p \in Openers : Found(p) /\ Copied(p) /\ MoveLocked(p)

\* The copy stays when no copy on disk is touched.
LEMMA CopyStays ==
    ASSUME CopyKept, UNCHANGED <<host, base>>,
           \A d \in Names :
              copies[d].state = "whole" /\ copies[d].synced => copies'[d] = copies[d]
    PROVE  CopyKept'
<1> SUFFICES ASSUME host.base.tables, base.version # host.base.version
             PROVE  \E c \in Names :
                       /\ c[1] = host.base.version
                       /\ copies'[c] = [state |-> "whole", synced |-> TRUE,
                                        holds |-> host.base.version]
  BY DEF CopyKept
<1>1. PICK c \in Names : /\ c[1] = host.base.version
                         /\ copies[c] = [state |-> "whole", synced |-> TRUE,
                                         holds |-> host.base.version]
  BY DEF CopyKept
<1>2. copies[c].state = "whole" /\ copies[c].synced
  BY <1>1
<1>3. copies'[c] = copies[c]
  BY <1>2
<1>4. QED
  BY <1>1, <1>3

\* A process that ends, or goes on to the settings, leaves the upgrades of the
\* others as they are.
LEMMA UpgradeAside ==
    ASSUME UpgradeInv, UpTypeOK', NEW p \in Openers,
           \E l \in {"off", "read", "ready", "forget", "edit"} : at' = [at EXCEPT ![p] = l],
           UNCHANGED <<host, base, ran, copies>>,
           \A q \in Openers \ {p} : mem'[q] = mem[q],
           writer' = writer \/ (writer \in {p, Nobody} /\ writer' = Nobody)
    PROVE  UpgradeInv'
<1>1. Upgraded' /\ Grown'
  BY DEF UpgradeInv, Upgraded, StepsOnce, CopyKept, DefaultsKept, Grown
<1>2. OwnCopy'
  BY DEF UpgradeInv, OwnCopy, UpTypeOK
<1>3. ASSUME NEW q \in Openers PROVE Found(q)' /\ Copied(q)' /\ MoveLocked(q)'
  <2>1. Found(q) /\ Copied(q) /\ MoveLocked(q)
    BY DEF UpgradeInv
  <2>2. CASE q # p
    <3>1. at'[q] = at[q] /\ mem'[q] = mem[q]
      BY <2>2 DEF UpgradeInv, UpTypeOK
    <3>2. at[q] \in {"inside", "steps"} => writer' = q
      BY <2>1, <2>2, UpgradeAssumption DEF MoveLocked
    <3>3. QED
      BY <2>1, <3>1, <3>2 DEF Found, Copied, MoveLocked
  <2>3. CASE q = p
    BY <2>3 DEF UpgradeInv, UpTypeOK, Found, Copied, MoveLocked, Upgrading, Copying, Writing
  <2>4. QED
    BY <2>2, <2>3
<1>4. QED
  BY <1>1, <1>2, <1>3 DEF UpgradeInv

LEMMA UpgradeStep ==
    ASSUME UpgradeInv, [UpNext]_upVars
    PROVE  UpgradeInv'
<1> UpTypeOK
  BY DEF UpgradeInv
<1>types. UpTypeOK'
  BY UpTypeStep
<1>nat. /\ base.version \in Nat /\ host.base.version \in Nat
        /\ \A p \in Openers : host.knows[p] \in Nat /\ mem[p].found \in Nat
  BY HostIs, UpgradeAssumption DEF UpTypeOK, Databases, Versions, Mems
<1>1. ASSUME NEW p \in Openers, Look(p) PROVE UpgradeInv'
  <2>1. /\ at[p] = "off" /\ UNCHANGED <<host, base, ran, copies, writer>>
        /\ base.version <= host.knows[p]
        /\ at' = [at EXCEPT ![p] = IF base.version = host.knows[p] THEN "host" ELSE "tables"]
        /\ mem'[p].found = base.version
        /\ \A q \in Openers \ {p} : mem'[q] = mem[q]
    BY <1>1, NoMemIs DEF Look, Step, schema, UpTypeOK, Mems
  <2>2. Upgraded' /\ Grown'
    BY <2>1 DEF UpgradeInv, Upgraded, StepsOnce, CopyKept, DefaultsKept, Grown
  <2>3. OwnCopy'
    BY <2>1 DEF UpgradeInv, OwnCopy, UpTypeOK
  <2>4. ASSUME NEW q \in Openers PROVE Found(q)' /\ Copied(q)' /\ MoveLocked(q)'
    <3>1. CASE q # p
      BY <3>1, <2>1, <2>4 DEF UpgradeInv, UpTypeOK, Found, Copied, MoveLocked
    <3>2. CASE q = p
      <4>1. host.base.version <= base.version
        BY DEF UpgradeInv, Grown
      <4>2. base.version \in Nat /\ host.knows[p] \in Nat
        BY <1>nat
      <4>3. at'[p] = IF base.version = host.knows[p] THEN "host" ELSE "tables"
        BY <2>1 DEF UpTypeOK
      <4>4. base.version # host.knows[p] => base.version < host.knows[p]
        BY <4>2, <2>1
      <4>5. CASE base.version = host.knows[p]
        BY <3>2, <4>3, <4>5 DEF Found, Copied, MoveLocked, Upgrading, Copying, Writing
      <4>6. CASE base.version # host.knows[p]
        BY <3>2, <4>1, <4>2, <4>3, <4>4, <4>6, <2>1
          DEF Found, Copied, MoveLocked, Upgrading, Copying, Writing
      <4>7. QED
        BY <4>5, <4>6
    <3>3. QED
      BY <3>1, <3>2
  <2>5. QED
    BY <2>2, <2>3, <2>4, <1>types DEF UpgradeInv
<1>2. ASSUME NEW p \in Openers, Tables(p) PROVE UpgradeInv'
  <2>1. /\ at[p] = "tables" /\ UNCHANGED <<host, base, ran, copies, writer>>
        /\ at' = [at EXCEPT ![p] = IF base.tables THEN "create" ELSE "begin"]
        /\ mem'[p].found = mem[p].found /\ mem'[p].fresh = ~base.tables
        /\ \A q \in Openers \ {p} : mem'[q] = mem[q]
    BY <1>2 DEF Tables, Step, schema, UpTypeOK, Mems
  <2>2. Upgraded' /\ Grown'
    BY <2>1 DEF UpgradeInv, Upgraded, StepsOnce, CopyKept, DefaultsKept, Grown
  <2>3. OwnCopy'
    BY <2>1 DEF UpgradeInv, OwnCopy, UpTypeOK
  <2>4. ASSUME NEW q \in Openers PROVE Found(q)' /\ Copied(q)' /\ MoveLocked(q)'
    <3>1. CASE q # p
      BY <3>1, <2>1 DEF UpgradeInv, UpTypeOK, Found, Copied, MoveLocked
    <3>2. CASE q = p
      <4>1. ~base.tables => ~host.base.tables
        BY DEF UpgradeInv, Grown
      <4>2. Found(p)
        BY DEF UpgradeInv
      <4>3. at'[p] = IF base.tables THEN "create" ELSE "begin"
        BY <2>1 DEF UpTypeOK
      <4>4. CASE base.tables
        <5>1. at'[p] = "create" /\ ~mem'[p].fresh
          BY <4>3, <4>4, <2>1
        <5>2. QED
          BY <3>2, <4>2, <4>4, <5>1, <2>1
            DEF Found, Copied, MoveLocked, Upgrading, Copying, Writing
      <4>5. CASE ~base.tables
        <5>1. at'[p] = "begin" /\ mem'[p].fresh
          BY <4>3, <4>5, <2>1
        <5>2. QED
          BY <3>2, <4>1, <4>2, <4>5, <5>1, <2>1
            DEF Found, Copied, MoveLocked, Upgrading, Copying, Writing
      <4>6. QED
        BY <4>4, <4>5
    <3>3. QED
      BY <3>1, <3>2
  <2>5. QED
    BY <2>2, <2>3, <2>4, <1>types DEF UpgradeInv
<1>3. ASSUME NEW p \in Openers, Create(p) PROVE UpgradeInv'
  <2>1. PICK n \in 0 .. MaxCopies :
          /\ copies[<<mem[p].found, n>>].state = "none"
          /\ copies' = [copies EXCEPT ![<<mem[p].found, n>>] =
                          [NoCopy EXCEPT !.state = "empty"]]
          /\ mem' = [mem EXCEPT ![p].copy = <<mem[p].found, n>>]
    BY <1>3 DEF Create
  <2> DEFINE c == <<mem[p].found, n>>
  <2>2. /\ at[p] = "create" /\ at' = [at EXCEPT ![p] = "vacuum"]
        /\ UNCHANGED <<host, base, ran, writer>>
    BY <1>3 DEF Create, Step
  <2>3. c \in Names /\ c[1] = mem[p].found
    BY DEF UpTypeOK, Mems, Names
  <2>4. /\ mem'[p].found = mem[p].found /\ mem'[p].fresh = mem[p].fresh
        /\ mem'[p].copy = c /\ \A q \in Openers \ {p} : mem'[q] = mem[q]
    BY <2>1 DEF UpTypeOK, Mems
  <2>5. /\ copies'[c].state = "empty" /\ copies[c].state = "none"
        /\ \A d \in Names \ {c} : copies'[d] = copies[d]
    BY <2>1, <2>3 DEF UpTypeOK, NoCopy
  <2>6. Upgraded' /\ Grown'
    <3>1. \A d \in Names : copies[d].state = "whole" => copies'[d] = copies[d]
      BY <2>5
    <3>2. CopyKept'
      BY <3>1, <2>2, CopyStays DEF UpgradeInv, Upgraded
    <3>3. QED
      BY <3>2, <2>2 DEF UpgradeInv, Upgraded, StepsOnce, DefaultsKept, Grown
  <2>7. \A q \in Openers \ {p} : at[q] = "vacuum" => mem[q].copy # c
    BY <2>5 DEF UpgradeInv, Copied
  <2>8. OwnCopy'
    BY <2>2, <2>4, <2>7 DEF UpgradeInv, OwnCopy, UpTypeOK
  <2>9. ASSUME NEW q \in Openers PROVE Found(q)' /\ Copied(q)' /\ MoveLocked(q)'
    <3>1. Found(q) /\ Copied(q) /\ MoveLocked(q) /\ mem[q].copy \in Names
      BY DEF UpgradeInv, UpTypeOK, Mems
    <3>2. CASE q # p
      <4>1. at'[q] = at[q] /\ mem'[q] = mem[q]
        BY <3>2, <2>2, <2>4 DEF UpTypeOK
      <4>2. Found(q)' /\ MoveLocked(q)'
        BY <3>1, <4>1, <2>2 DEF Found, MoveLocked
      <4>3. CASE mem[q].copy = c
        <5>1. at[q] # "vacuum" /\ (at[q] \in {"sync"} \union Writing => mem[q].fresh)
          BY <3>1, <4>3, <2>5 DEF Copied
        <5>2. Copied(q)'
          BY <5>1, <4>1 DEF Copied
        <5>3. QED
          BY <4>2, <5>2
      <4>4. CASE mem[q].copy # c
        BY <4>1, <4>2, <4>4, <3>1, <2>2, <2>5 DEF Copied
      <4>5. QED
        BY <4>3, <4>4
    <3>3. CASE q = p
      BY <3>1, <3>3, <2>2, <2>3, <2>4, <2>5
        DEF Found, Copied, MoveLocked, Upgrading, Copying, Writing, UpTypeOK
    <3>4. QED
      BY <3>2, <3>3
  <2>10. QED
    BY <2>6, <2>8, <2>9, <1>types DEF UpgradeInv
<1>4. ASSUME NEW p \in Openers, Vacuum(p) PROVE UpgradeInv'
  <2> DEFINE c == mem[p].copy
  <2>1. /\ at[p] = "vacuum" /\ at' = [at EXCEPT ![p] = "sync"]
        /\ UNCHANGED <<host, base, ran, writer, mem>>
        /\ c \in Names /\ copies[c].state = "empty" /\ c[1] = mem[p].found
    BY <1>4 DEF Vacuum, Step, UpgradeInv, Copied, UpTypeOK, Mems
  <2>2. /\ copies'[c].state = "whole" /\ copies'[c].holds = base.version
        /\ \A d \in Names \ {c} : copies'[d] = copies[d]
    BY <1>4, <2>1 DEF Vacuum, UpTypeOK
  <2>3. Upgraded' /\ Grown'
    <3>1. \A d \in Names : copies[d].state = "whole" => copies'[d] = copies[d]
      BY <2>1, <2>2
    <3>2. CopyKept'
      BY <3>1, <2>1, CopyStays DEF UpgradeInv, Upgraded
    <3>3. QED
      BY <3>2, <2>1 DEF UpgradeInv, Upgraded, StepsOnce, DefaultsKept, Grown
  <2>4. OwnCopy'
    BY <2>1 DEF UpgradeInv, OwnCopy, UpTypeOK
  <2>5. ASSUME NEW q \in Openers PROVE Found(q)' /\ Copied(q)' /\ MoveLocked(q)'
    <3>1. Found(q) /\ Copied(q) /\ MoveLocked(q) /\ mem[q].copy \in Names
      BY DEF UpgradeInv, UpTypeOK, Mems
    <3>2. CASE q # p
      <4>1. at'[q] = at[q]
        BY <3>2, <2>1 DEF UpTypeOK
      <4>2. Found(q)' /\ MoveLocked(q)'
        BY <3>1, <4>1, <2>1 DEF Found, MoveLocked
      <4>3. CASE mem[q].copy = c
        <5>1. at[q] # "vacuum" /\ (at[q] \in {"sync"} \union Writing => mem[q].fresh)
          BY <3>1, <3>2, <4>3, <2>1 DEF Copied, OwnCopy, UpgradeInv
        <5>2. Copied(q)'
          BY <5>1, <4>1, <2>1 DEF Copied
        <5>3. QED
          BY <4>2, <5>2
      <4>4. CASE mem[q].copy # c
        BY <4>1, <4>2, <4>4, <3>1, <2>1, <2>2 DEF Copied
      <4>5. QED
        BY <4>3, <4>4
    <3>3. CASE q = p
      BY <3>1, <3>3, <2>1, <2>2
        DEF Found, Copied, MoveLocked, Upgrading, Copying, Writing, UpTypeOK
    <3>4. QED
      BY <3>2, <3>3
  <2>6. QED
    BY <2>3, <2>4, <2>5, <1>types DEF UpgradeInv
<1>5. ASSUME NEW p \in Openers, Sync(p) PROVE UpgradeInv'
  <2> DEFINE c == mem[p].copy
  <2>1. /\ at[p] = "sync" /\ at' = [at EXCEPT ![p] = "begin"] /\ ~mem[p].fresh
        /\ UNCHANGED <<host, base, ran, writer, mem>> /\ c \in Names
    BY <1>5 DEF Sync, Step, UpgradeInv, Found, Copying, UpTypeOK, Mems
  <2>2. /\ copies'[c].synced /\ \A d \in Names \ {c} : copies'[d] = copies[d]
        /\ copies'[c].state = copies[c].state /\ copies'[c].holds = copies[c].holds
    BY <1>5, <2>1 DEF Sync, UpTypeOK, Copies
  <2>3. \A d \in Names : /\ copies'[d].state = copies[d].state
                         /\ copies'[d].holds = copies[d].holds
                         /\ copies[d].synced => copies'[d].synced
    BY <2>2
  <2>4. Upgraded' /\ Grown'
    <3>1. \A d \in Names : copies[d].synced => copies'[d] = copies[d]
      <4>1. ASSUME copies[c].synced PROVE copies'[c] = copies[c]
        <5>1. copies[c] \in Copies
          BY <2>1 DEF UpTypeOK
        <5>2. copies' = [copies EXCEPT ![c] = [copies[c] EXCEPT !.synced = TRUE]]
          BY <1>5 DEF Sync
        <5>3. [copies[c] EXCEPT !.synced = TRUE] = copies[c]
          BY <4>1, <5>1 DEF Copies
        <5>4. QED
          BY <5>2, <5>3, <2>1 DEF UpTypeOK
      <4>2. QED
        BY <4>1, <2>2
    <3>2. CopyKept'
      BY <3>1, <2>1, CopyStays DEF UpgradeInv, Upgraded
    <3>3. QED
      BY <3>2, <2>1 DEF UpgradeInv, Upgraded, StepsOnce, DefaultsKept, Grown
  <2>5. OwnCopy'
    BY <2>1 DEF UpgradeInv, OwnCopy, UpTypeOK
  <2>6. ASSUME NEW q \in Openers PROVE Found(q)' /\ Copied(q)' /\ MoveLocked(q)'
    <3>1. Found(q) /\ Copied(q) /\ MoveLocked(q) /\ mem[q].copy \in Names
      BY DEF UpgradeInv, UpTypeOK, Mems
    <3>2. CASE q # p
      <4>1. at'[q] = at[q]
        BY <3>2, <2>1 DEF UpTypeOK
      <4>2. QED
        BY <3>1, <4>1, <2>1, <2>3 DEF Found, Copied, MoveLocked
    <3>3. CASE q = p
      BY <3>1, <3>3, <2>1, <2>2
        DEF Found, Copied, MoveLocked, Upgrading, Copying, Writing, UpTypeOK
    <3>4. QED
      BY <3>2, <3>3
  <2>7. QED
    BY <2>4, <2>5, <2>6, <1>types DEF UpgradeInv
<1>6. ASSUME NEW p \in Openers, BackupFails(p) PROVE UpgradeInv'
  <2>1. \E l \in {"off", "read", "ready", "forget", "edit"} : at' = [at EXCEPT ![p] = l]
    BY <1>6 DEF BackupFails, Ends
  <2>2. /\ UNCHANGED <<host, base, ran, copies>>
        /\ \A q \in Openers \ {p} : mem'[q] = mem[q]
        /\ writer' = writer \/ (writer \in {p, Nobody} /\ writer' = Nobody)
    BY <1>6 DEF BackupFails, Ends, UpTypeOK, schema
  <2>3. QED
    BY <2>1, <2>2, <1>types, UpgradeAside
<1>7. ASSUME NEW p \in Openers, Begin(p) PROVE UpgradeInv'
  <2>1. /\ at[p] = "begin" /\ at' = [at EXCEPT ![p] = "inside"]
        /\ writer = Nobody /\ writer' = p /\ UNCHANGED <<host, base, ran, copies, mem>>
    BY <1>7 DEF Begin, Step
  <2>2. Upgraded' /\ Grown' /\ OwnCopy'
    BY <2>1 DEF UpgradeInv, Upgraded, StepsOnce, CopyKept, DefaultsKept, Grown, OwnCopy,
      UpTypeOK
  <2>3. ASSUME NEW q \in Openers PROVE Found(q)' /\ Copied(q)' /\ MoveLocked(q)'
    <3>1. Found(q) /\ Copied(q) /\ MoveLocked(q)
      BY DEF UpgradeInv
    <3>2. CASE q # p
      <4>1. at'[q] = at[q] /\ at[q] \notin {"inside", "steps"}
        BY <3>1, <3>2, <2>1, UpgradeAssumption DEF UpTypeOK, MoveLocked
      <4>2. QED
        BY <3>1, <4>1, <2>1 DEF Found, Copied, MoveLocked
    <3>3. CASE q = p
      BY <3>1, <3>3, <2>1 DEF Found, Copied, MoveLocked, Upgrading, Copying, Writing, UpTypeOK
    <3>4. QED
      BY <3>2, <3>3
  <2>4. QED
    BY <2>2, <2>3, <1>types DEF UpgradeInv
<1>8. ASSUME NEW p \in Openers, Busied(p) PROVE UpgradeInv'
  <2>1. \E l \in {"off", "read", "ready", "forget", "edit"} : at' = [at EXCEPT ![p] = l]
    BY <1>8 DEF Busied, Ends
  <2>2. /\ UNCHANGED <<host, base, ran, copies>>
        /\ \A q \in Openers \ {p} : mem'[q] = mem[q]
        /\ writer' = writer \/ (writer \in {p, Nobody} /\ writer' = Nobody)
    BY <1>8 DEF Busied, Ends, UpTypeOK, schema
  <2>3. QED
    BY <2>1, <2>2, <1>types, UpgradeAside
<1>9. ASSUME NEW p \in Openers, Reread(p) PROVE UpgradeInv'
  <2>1. /\ at[p] = "inside" /\ at' = [at EXCEPT ![p] = "steps"]
        /\ base.version <= host.knows[p]
        /\ UNCHANGED <<host, base, ran, copies, writer>>
    BY <1>9 DEF Reread, Step, schema
  <2>2. /\ mem'[p].found = mem[p].found /\ mem'[p].fresh = mem[p].fresh
        /\ mem'[p].copy = mem[p].copy /\ mem'[p].from = base.version
        /\ \A q \in Openers \ {p} : mem'[q] = mem[q]
    BY <1>9 DEF Reread, UpTypeOK, Mems
  <2>a. Upgraded' /\ Grown'
    BY <2>1 DEF UpgradeInv, Upgraded, StepsOnce, CopyKept, DefaultsKept, Grown
  <2>b. OwnCopy'
    BY <2>1, <2>2 DEF UpgradeInv, OwnCopy, UpTypeOK
  <2>3. Upgraded' /\ Grown' /\ OwnCopy'
    BY <2>a, <2>b
  <2>4. ASSUME NEW q \in Openers PROVE Found(q)' /\ Copied(q)' /\ MoveLocked(q)'
    <3>1. Found(q) /\ Copied(q) /\ MoveLocked(q)
      BY DEF UpgradeInv
    <3>2. CASE q # p
      BY <3>1, <3>2, <2>1, <2>2 DEF Found, Copied, MoveLocked, UpTypeOK
    <3>3. CASE q = p
      BY <3>1, <3>3, <2>1, <2>2
        DEF Found, Copied, MoveLocked, Upgrading, Copying, Writing, UpTypeOK
    <3>4. QED
      BY <3>2, <3>3
  <2>5. QED
    BY <2>3, <2>4, <1>types DEF UpgradeInv
<1>10. ASSUME NEW p \in Openers, Commit(p) PROVE UpgradeInv'
  <2>1. /\ at[p] = "steps" /\ at' = [at EXCEPT ![p] = "host"] /\ writer' = Nobody
        /\ base' = [version |-> host.knows[p], tables |-> TRUE,
                    today |-> base.today \/ mem[p].fresh]
        /\ ran' = [s \in 1 .. MaxVersion |->
                     ran[s] + IF mem[p].from < s /\ s <= host.knows[p] THEN 1 ELSE 0]
        /\ UNCHANGED <<host, copies, mem>>
    BY <1>10 DEF Commit, Step
  <2>2. Found(p) /\ Copied(p) /\ MoveLocked(p) /\ Grown /\ Upgraded
    BY DEF UpgradeInv
  <2>3. /\ writer = p /\ mem[p].from = base.version /\ base.version <= host.knows[p]
        /\ host.base.version < host.knows[p]
        /\ mem[p].found <= base.version /\ host.base.version <= mem[p].found
        /\ ~mem[p].fresh => base.tables
        /\ mem[p].fresh => ~host.base.tables
    <3>1. mem[p].found \in Nat
      BY <1>nat
    <3>2. QED
      BY <2>1, <2>2, <3>1, <1>nat DEF Found, MoveLocked, Upgrading, Copying, Writing
  <2>4. \A q \in Openers \ {p} : at[q] \notin {"inside", "steps"}
    BY <2>3 DEF UpgradeInv, MoveLocked
  <2>5. Grown'
    BY <2>1, <2>3, <1>nat DEF Grown
  <2>6. StepsOnce'
    <3> SUFFICES ASSUME NEW s \in 1 .. MaxVersion
                 PROVE  ran'[s] = IF s <= base'.version THEN 1 ELSE 0
      BY DEF StepsOnce
    <3>1. ran[s] = IF s <= base.version THEN 1 ELSE 0
      BY <2>2 DEF Upgraded, StepsOnce
    <3>2. ran'[s] = ran[s] + IF base.version < s /\ s <= host.knows[p] THEN 1 ELSE 0
      BY <2>1, <2>3
    <3>3. base'.version = host.knows[p]
      BY <2>1
    <3>4. QED
      BY <3>1, <3>2, <3>3, <2>3, <1>nat
  <2>7. DefaultsKept'
    <3>1. base'.today = (base.today \/ mem[p].fresh)
      BY <2>1
    <3>2. CASE base.tables
      BY <3>1, <3>2, <2>1, <2>2, <2>3 DEF Upgraded, DefaultsKept
    <3>3. CASE ~base.tables
      BY <3>1, <3>3, <2>1, <2>2, <2>3, HostIs DEF Grown, DefaultsKept, UpTypeOK
    <3>4. QED
      BY <3>2, <3>3
  <2>8. CopyKept'
    <3> SUFFICES ASSUME host.base.tables
                 PROVE  \E c \in Names :
                           /\ c[1] = host.base.version
                           /\ copies[c] = [state |-> "whole", synced |-> TRUE,
                                           holds |-> host.base.version]
      BY <2>1 DEF CopyKept
    <3>1. CASE base.version # host.base.version
      BY <3>1, <2>2 DEF Upgraded, CopyKept
    <3>2. CASE base.version = host.base.version
      <4>1. ~mem[p].fresh /\ mem[p].found = host.base.version
        BY <3>2, <2>3, <1>nat
      <4>2. mem[p].copy \in Names /\ copies[mem[p].copy] \in Copies
        BY DEF UpTypeOK, Mems
      <4>3. /\ copies[mem[p].copy].state = "whole" /\ copies[mem[p].copy].synced
            /\ copies[mem[p].copy].holds = host.base.version
            /\ mem[p].copy[1] = host.base.version
        BY <4>1, <3>2, <2>1, <2>2 DEF Copied, Writing
      <4>4. copies[mem[p].copy] = [state |-> "whole", synced |-> TRUE,
                                   holds |-> host.base.version]
        BY <4>2, <4>3 DEF Copies
      <4>5. QED
        BY <4>2, <4>3, <4>4
    <3>3. QED
      BY <3>1, <3>2
  <2>9. OwnCopy'
    BY <2>1 DEF UpgradeInv, OwnCopy, UpTypeOK
  <2>10. ASSUME NEW q \in Openers PROVE Found(q)' /\ Copied(q)' /\ MoveLocked(q)'
    <3>1. Found(q) /\ Copied(q)
      BY DEF UpgradeInv
    <3>2. CASE q # p
      <4>1. at'[q] = at[q] /\ at[q] \notin {"inside", "steps"}
        BY <3>2, <2>1, <2>4 DEF UpTypeOK
      <4>2. base'.version = host.knows[p] /\ base'.tables
        BY <2>1
      <4>3. mem[q].found \in Nat
        BY <1>nat
      <4>4. at[q] \in Upgrading => mem[q].found <= base'.version
        BY <3>1, <4>2, <4>3, <2>3, <1>nat DEF Found
      <4>5. Found(q)'
        BY <3>1, <4>1, <4>2, <4>4, <2>1 DEF Found
      <4>6. base'.version # host.base.version
        BY <4>2, <2>3, <1>nat
      <4>7. Copied(q)'
        BY <3>1, <4>1, <4>6, <2>1 DEF Copied
      <4>8. MoveLocked(q)'
        BY <4>1 DEF MoveLocked
      <4>9. QED
        BY <4>5, <4>7, <4>8
    <3>3. CASE q = p
      BY <3>3, <2>1 DEF Found, Copied, MoveLocked, Upgrading, Copying, Writing, UpTypeOK
    <3>4. QED
      BY <3>2, <3>3
  <2>11. QED
    BY <2>5, <2>6, <2>7, <2>8, <2>9, <2>10, <1>types DEF UpgradeInv, Upgraded
<1>11. ASSUME NEW p \in Openers, RollBackUpgrade(p) PROVE UpgradeInv'
  <2>1. \E l \in {"off", "read", "ready", "forget", "edit"} : at' = [at EXCEPT ![p] = l]
    BY <1>11 DEF RollBackUpgrade, Ends
  <2>2. /\ UNCHANGED <<host, base, ran, copies>>
        /\ \A q \in Openers \ {p} : mem'[q] = mem[q]
        /\ writer' = writer \/ (writer \in {p, Nobody} /\ writer' = Nobody)
    BY <1>11 DEF RollBackUpgrade, Ends, UpTypeOK, schema, UpgradeInv, MoveLocked
  <2>3. QED
    BY <2>1, <2>2, <1>types, UpgradeAside
<1>12. ASSUME NEW p \in Openers, MoveLook(p) PROVE UpgradeInv'
  <2>1. \E l \in {"off", "read", "ready", "forget", "edit"} : at' = [at EXCEPT ![p] = l]
    BY <1>12 DEF MoveLook, Step
  <2>2. /\ UNCHANGED <<host, base, ran, copies>>
        /\ \A q \in Openers \ {p} : mem'[q] = mem[q]
        /\ writer' = writer \/ (writer \in {p, Nobody} /\ writer' = Nobody)
    BY <1>12 DEF MoveLook, Step, UpTypeOK, schema
  <2>3. QED
    BY <2>1, <2>2, <1>types, UpgradeAside
<1>13. ASSUME NEW p \in Openers, ReadRow(p) PROVE UpgradeInv'
  <2>1. \E l \in {"off", "read", "ready", "forget", "edit"} : at' = [at EXCEPT ![p] = l]
    BY <1>13 DEF ReadRow, Step
  <2>2. /\ UNCHANGED <<host, base, ran, copies>>
        /\ \A q \in Openers \ {p} : mem'[q] = mem[q]
        /\ writer' = writer \/ (writer \in {p, Nobody} /\ writer' = Nobody)
    BY <1>13 DEF ReadRow, Step, UpTypeOK, schema
  <2>3. QED
    BY <2>1, <2>2, <1>types, UpgradeAside
<1>14. ASSUME NEW p \in Openers, Save(p) PROVE UpgradeInv'
  <2>1. \E l \in {"off", "read", "ready", "forget", "edit"} : at' = [at EXCEPT ![p] = l]
    BY <1>14 DEF Save, Step
  <2>2. /\ UNCHANGED <<host, base, ran, copies>>
        /\ \A q \in Openers \ {p} : mem'[q] = mem[q]
        /\ writer' = writer \/ (writer \in {p, Nobody} /\ writer' = Nobody)
    BY <1>14 DEF Save, Step, UpTypeOK, schema
  <2>3. QED
    BY <2>1, <2>2, <1>types, UpgradeAside
<1>15. ASSUME NEW p \in Openers, ForgetRow(p) PROVE UpgradeInv'
  <2>1. \E l \in {"off", "read", "ready", "forget", "edit"} : at' = [at EXCEPT ![p] = l]
    BY <1>15 DEF ForgetRow, Step
  <2>2. /\ UNCHANGED <<host, base, ran, copies>>
        /\ \A q \in Openers \ {p} : mem'[q] = mem[q]
        /\ writer' = writer \/ (writer \in {p, Nobody} /\ writer' = Nobody)
    BY <1>15 DEF ForgetRow, Step, UpTypeOK, schema
  <2>3. QED
    BY <2>1, <2>2, <1>types, UpgradeAside
<1>16. ASSUME NEW p \in Openers, LoadConf(p) PROVE UpgradeInv'
  <2>1. \E l \in {"off", "read", "ready", "forget", "edit"} : at' = [at EXCEPT ![p] = l]
    BY <1>16 DEF LoadConf, Step
  <2>2. /\ UNCHANGED <<host, base, ran, copies>>
        /\ \A q \in Openers \ {p} : mem'[q] = mem[q]
        /\ writer' = writer \/ (writer \in {p, Nobody} /\ writer' = Nobody)
    BY <1>16 DEF LoadConf, Step, UpTypeOK, schema
  <2>3. QED
    BY <2>1, <2>2, <1>types, UpgradeAside
<1>17. ASSUME NEW p \in Openers, Store(p) PROVE UpgradeInv'
  <2>1. \E l \in {"off", "read", "ready", "forget", "edit"} : at' = [at EXCEPT ![p] = l]
    BY <1>17 DEF Store, Ends
  <2>2. /\ UNCHANGED <<host, base, ran, copies>>
        /\ \A q \in Openers \ {p} : mem'[q] = mem[q]
        /\ writer' = writer \/ (writer \in {p, Nobody} /\ writer' = Nobody)
    BY <1>17 DEF Store, Ends, UpTypeOK, schema
  <2>3. QED
    BY <2>1, <2>2, <1>types, UpgradeAside
<1>18. ASSUME NEW p \in Openers, SaveFails(p) PROVE UpgradeInv'
  <2>1. \E l \in {"off", "read", "ready", "forget", "edit"} : at' = [at EXCEPT ![p] = l]
    BY <1>18 DEF SaveFails, Ends
  <2>2. /\ UNCHANGED <<host, base, ran, copies>>
        /\ \A q \in Openers \ {p} : mem'[q] = mem[q]
        /\ writer' = writer \/ (writer \in {p, Nobody} /\ writer' = Nobody)
    BY <1>18 DEF SaveFails, Ends, UpTypeOK, schema
  <2>3. QED
    BY <2>1, <2>2, <1>types, UpgradeAside
<1>19. ASSUME NEW p \in Openers, Close(p) PROVE UpgradeInv'
  <2>1. \E l \in {"off", "read", "ready", "forget", "edit"} : at' = [at EXCEPT ![p] = l]
    BY <1>19 DEF Close, Ends
  <2>2. /\ UNCHANGED <<host, base, ran, copies>>
        /\ \A q \in Openers \ {p} : mem'[q] = mem[q]
        /\ writer' = writer \/ (writer \in {p, Nobody} /\ writer' = Nobody)
    BY <1>19 DEF Close, Ends, UpTypeOK, schema
  <2>3. QED
    BY <2>1, <2>2, <1>types, UpgradeAside
<1>20. ASSUME NEW p \in Openers, Kill(p) PROVE UpgradeInv'
  <2>1. \E l \in {"off", "read", "ready", "forget", "edit"} : at' = [at EXCEPT ![p] = l]
    BY <1>20 DEF Kill, Ends
  <2>2. /\ UNCHANGED <<host, base, ran, copies>>
        /\ \A q \in Openers \ {p} : mem'[q] = mem[q]
        /\ writer' = writer \/ (writer \in {p, Nobody} /\ writer' = Nobody)
    BY <1>20 DEF Kill, Ends, UpTypeOK, schema
  <2>3. QED
    BY <2>1, <2>2, <1>types, UpgradeAside
<1>21. CASE Power
  <2>1. /\ UNCHANGED <<host, base, ran>> /\ \A q \in Openers : at'[q] = "off"
        /\ \A d \in Names : copies[d].synced => copies'[d] = copies[d]
    BY <1>21 DEF Power, UpTypeOK
  <2>2. CopyKept'
    BY <2>1, CopyStays DEF UpgradeInv, Upgraded
  <2>3. QED
    BY <2>1, <2>2, <1>types DEF UpgradeInv, Upgraded, StepsOnce, DefaultsKept, Grown,
      OwnCopy, Found, Copied, MoveLocked, Upgrading, Copying, Writing
<1>24. CASE Flush
  BY <1>24, <1>types DEF Flush, schema, UpgradeInv, Upgraded, StepsOnce, CopyKept, DefaultsKept,
    Grown, OwnCopy, Found, Copied, MoveLocked
<1>22. CASE UNCHANGED upVars
  BY <1>22, <1>types DEF upVars, schema, UpgradeInv, Upgraded, StepsOnce, CopyKept,
    DefaultsKept, Grown, OwnCopy, Found, Copied, MoveLocked
<1>23. QED
  BY <1>1, <1>2, <1>3, <1>4, <1>5, <1>6, <1>7, <1>8, <1>9, <1>10, <1>11,
    <1>12, <1>13, <1>14, <1>15, <1>16, <1>17, <1>18, <1>19, <1>20, <1>21,
    <1>22, <1>24 DEF UpNext, Opening

LEMMA UpgradeInit == UpInit => UpgradeInv
<1> SUFFICES ASSUME UpInit PROVE UpgradeInv
  OBVIOUS
<1>1. UpTypeOK
  BY UpTypeInit
<1>2. base = host.base /\ base.version \in Nat
  BY <1>1, UpgradeAssumption DEF UpInit, UpTypeOK, Databases, Versions
<1>a. StepsOnce
  BY DEF UpInit, StepsOnce
<1>b. CopyKept /\ Grown
  BY <1>2 DEF CopyKept, Grown
<1>c. DefaultsKept
  BY <1>1, <1>2 DEF DefaultsKept, UpTypeOK, Databases
<1>3. Upgraded /\ Grown
  BY <1>a, <1>b, <1>c DEF Upgraded
<1>4. \A p \in Openers : at[p] = "off"
  BY DEF UpInit
<1>5. QED
  BY <1>1, <1>3, <1>4 DEF UpgradeInv, OwnCopy, Found, Copied, MoveLocked, Upgrading, Copying,
    Writing

\* However many processes of however many releases open the database at once,
\* and wherever they are killed or lose the power, each migration is done once,
\* what the first of them replaced is in a copy, and only a new database gets
\* today's defaults (schema.rs 173-345).
THEOREM UpgradeHolds == UpSpec => []Upgraded
<1>1. UpgradeInv => Upgraded
  BY DEF UpgradeInv
<1>2. QED
  BY <1>1, UpgradeInit, UpgradeStep, PTL DEF UpSpec

-----------------------------------------------------------------------------
(* The settings.                                                           *)

\* Rows go, and settings are changed, only once there is a file.
Placed(p) ==
    /\ at[p] = "forget" => conf # Missing
    /\ at[p] \in {"ready", "edit"} /\ p \in host.root => conf # Missing
    /\ at[p] = "edit" => p \in host.root

\* Who moves the settings has those it read as they are, and who changes them
\* has the file as it is.
Replaces(p) ==
    /\ at[p] = "read" =>
         /\ conf = Missing
         /\ \A i \in 1 .. Len(MovedKeys) :
              i < mem[p].n => mem[p].conf[MovedKeys[i]] = Movable(rows[MovedKeys[i]])
    /\ at[p] = "edit" => mem[p].conf = conf

OneReplaces ==
    \A p, q \in Openers : at[p] \in Replacing /\ at[q] \in Replacing => p = q

SettingsInv ==
    /\ UpTypeOK /\ SettingsKept
    /\ \A p \in Openers : Placed(p)
    /\ ~unsure => OneReplaces /\ \A p \in Openers : Replaces(p)

\* A process that goes on to anything but the settings leaves them as they are.
LEMMA SettingsAside ==
    ASSUME SettingsInv, UpTypeOK', NEW p \in Openers,
           \E l \in {"off", "tables", "create", "vacuum", "sync", "begin", "inside",
                     "steps", "host"} : at' = [at EXCEPT ![p] = l],
           UNCHANGED <<host, settings>>,
           \A q \in Openers \ {p} : mem'[q] = mem[q]
    PROVE  SettingsInv'
<1>1. \A q \in Openers : Placed(q)'
  BY DEF SettingsInv, Placed, UpTypeOK, settings
<1>2. ~unsure' => OneReplaces'
  BY DEF SettingsInv, OneReplaces, Replacing, UpTypeOK, settings
<1>3. ~unsure' => \A q \in Openers : Replaces(q)'
  BY DEF SettingsInv, Replaces, Movable, UpTypeOK, settings
<1>4. SettingsKept'
  BY DEF SettingsInv, SettingsKept, Effective, Movable, settings
<1>5. QED
  BY <1>1, <1>2, <1>3, <1>4 DEF SettingsInv

LEMMA SettingsStep ==
    ASSUME SettingsInv, [UpNext]_upVars
    PROVE  SettingsInv'
<1> UpTypeOK
  BY DEF SettingsInv
<1>types. UpTypeOK'
  BY UpTypeStep
<1>1. ASSUME NEW p \in Openers, Look(p) PROVE SettingsInv'
  <2>1. \E l \in {"off", "tables", "create", "vacuum", "sync", "begin", "inside",
                "steps", "host"} :
          at' = [at EXCEPT ![p] = l]
    BY <1>1 DEF Look, Step
  <2>2. UNCHANGED <<host, settings>> /\ \A q \in Openers \ {p} : mem'[q] = mem[q]
    BY <1>1 DEF Look, Step, UpTypeOK
  <2>3. QED
    BY <2>1, <2>2, <1>types, SettingsAside
<1>2. ASSUME NEW p \in Openers, Tables(p) PROVE SettingsInv'
  <2>1. \E l \in {"off", "tables", "create", "vacuum", "sync", "begin", "inside",
                "steps", "host"} :
          at' = [at EXCEPT ![p] = l]
    BY <1>2 DEF Tables, Step
  <2>2. UNCHANGED <<host, settings>> /\ \A q \in Openers \ {p} : mem'[q] = mem[q]
    BY <1>2 DEF Tables, Step, UpTypeOK
  <2>3. QED
    BY <2>1, <2>2, <1>types, SettingsAside
<1>3. ASSUME NEW p \in Openers, Create(p) PROVE SettingsInv'
  <2>1. \E l \in {"off", "tables", "create", "vacuum", "sync", "begin", "inside",
                "steps", "host"} :
          at' = [at EXCEPT ![p] = l]
    BY <1>3 DEF Create, Step
  <2>2. UNCHANGED <<host, settings>> /\ \A q \in Openers \ {p} : mem'[q] = mem[q]
    BY <1>3 DEF Create, Step, UpTypeOK
  <2>3. QED
    BY <2>1, <2>2, <1>types, SettingsAside
<1>4. ASSUME NEW p \in Openers, Vacuum(p) PROVE SettingsInv'
  <2>1. \E l \in {"off", "tables", "create", "vacuum", "sync", "begin", "inside",
                "steps", "host"} :
          at' = [at EXCEPT ![p] = l]
    BY <1>4 DEF Vacuum, Step
  <2>2. UNCHANGED <<host, settings>> /\ \A q \in Openers \ {p} : mem'[q] = mem[q]
    BY <1>4 DEF Vacuum, Step, UpTypeOK
  <2>3. QED
    BY <2>1, <2>2, <1>types, SettingsAside
<1>5. ASSUME NEW p \in Openers, Sync(p) PROVE SettingsInv'
  <2>1. \E l \in {"off", "tables", "create", "vacuum", "sync", "begin", "inside",
                "steps", "host"} :
          at' = [at EXCEPT ![p] = l]
    BY <1>5 DEF Sync, Step
  <2>2. UNCHANGED <<host, settings>> /\ \A q \in Openers \ {p} : mem'[q] = mem[q]
    BY <1>5 DEF Sync, Step, UpTypeOK
  <2>3. QED
    BY <2>1, <2>2, <1>types, SettingsAside
<1>6. ASSUME NEW p \in Openers, BackupFails(p) PROVE SettingsInv'
  <2>1. \E l \in {"off", "tables", "create", "vacuum", "sync", "begin", "inside",
                "steps", "host"} :
          at' = [at EXCEPT ![p] = l]
    BY <1>6 DEF BackupFails, Ends
  <2>2. UNCHANGED <<host, settings>> /\ \A q \in Openers \ {p} : mem'[q] = mem[q]
    BY <1>6 DEF BackupFails, Ends, UpTypeOK
  <2>3. QED
    BY <2>1, <2>2, <1>types, SettingsAside
<1>7. ASSUME NEW p \in Openers, Begin(p) PROVE SettingsInv'
  <2>1. \E l \in {"off", "tables", "create", "vacuum", "sync", "begin", "inside",
                "steps", "host"} :
          at' = [at EXCEPT ![p] = l]
    BY <1>7 DEF Begin, Step
  <2>2. UNCHANGED <<host, settings>> /\ \A q \in Openers \ {p} : mem'[q] = mem[q]
    BY <1>7 DEF Begin, Step, UpTypeOK
  <2>3. QED
    BY <2>1, <2>2, <1>types, SettingsAside
<1>8. ASSUME NEW p \in Openers, Busied(p) PROVE SettingsInv'
  <2>1. \E l \in {"off", "tables", "create", "vacuum", "sync", "begin", "inside",
                "steps", "host"} :
          at' = [at EXCEPT ![p] = l]
    BY <1>8 DEF Busied, Ends
  <2>2. UNCHANGED <<host, settings>> /\ \A q \in Openers \ {p} : mem'[q] = mem[q]
    BY <1>8 DEF Busied, Ends, UpTypeOK
  <2>3. QED
    BY <2>1, <2>2, <1>types, SettingsAside
<1>9. ASSUME NEW p \in Openers, Reread(p) PROVE SettingsInv'
  <2>1. \E l \in {"off", "tables", "create", "vacuum", "sync", "begin", "inside",
                "steps", "host"} :
          at' = [at EXCEPT ![p] = l]
    BY <1>9 DEF Reread, Step
  <2>2. UNCHANGED <<host, settings>> /\ \A q \in Openers \ {p} : mem'[q] = mem[q]
    BY <1>9 DEF Reread, Step, UpTypeOK
  <2>3. QED
    BY <2>1, <2>2, <1>types, SettingsAside
<1>10. ASSUME NEW p \in Openers, Commit(p) PROVE SettingsInv'
  <2>1. \E l \in {"off", "tables", "create", "vacuum", "sync", "begin", "inside",
                "steps", "host"} :
          at' = [at EXCEPT ![p] = l]
    BY <1>10 DEF Commit, Step
  <2>2. UNCHANGED <<host, settings>> /\ \A q \in Openers \ {p} : mem'[q] = mem[q]
    BY <1>10 DEF Commit, Step, UpTypeOK
  <2>3. QED
    BY <2>1, <2>2, <1>types, SettingsAside
<1>11. ASSUME NEW p \in Openers, RollBackUpgrade(p) PROVE SettingsInv'
  <2>1. \E l \in {"off", "tables", "create", "vacuum", "sync", "begin", "inside",
                "steps", "host"} :
          at' = [at EXCEPT ![p] = l]
    BY <1>11 DEF RollBackUpgrade, Ends
  <2>2. UNCHANGED <<host, settings>> /\ \A q \in Openers \ {p} : mem'[q] = mem[q]
    BY <1>11 DEF RollBackUpgrade, Ends, UpTypeOK
  <2>3. QED
    BY <2>1, <2>2, <1>types, SettingsAside
<1>12. ASSUME NEW p \in Openers, MoveLook(p) PROVE SettingsInv'
  <2>1. CASE p \notin host.root \/ conf # Missing
    BY <1>12, <2>1, <1>types DEF MoveLook, Step, schema, SettingsInv, SettingsKept, Effective,
      Movable, Placed, Replaces, OneReplaces, Replacing, UpTypeOK
  <2>2. CASE ~(p \notin host.root \/ conf # Missing)
    <3>1. /\ at[p] = "host" /\ at' = [at EXCEPT ![p] = "read"] /\ TakeUp(p)
          /\ mem' = [mem EXCEPT ![p].conf = NoConf, ![p].n = 1]
          /\ UNCHANGED <<host, rows, conf, chosen>> /\ conf = Missing
      BY <1>12, <2>2 DEF MoveLook, Step
    <3>2. ~unsure' => ~unsure /\ \A q \in Openers \ {p} : at[q] \notin Replacing
      BY <3>1 DEF TakeUp
    <3>3. mem'[p].n = 1 /\ \A q \in Openers \ {p} : mem'[q] = mem[q]
      BY <3>1 DEF UpTypeOK, Mems
    <3>4. \A q \in Openers : Placed(q)'
      BY <3>1 DEF SettingsInv, Placed, UpTypeOK
    <3>5. ~unsure' => OneReplaces'
      BY <3>1, <3>2 DEF OneReplaces, Replacing, UpTypeOK
    <3>6. ~unsure' => \A q \in Openers : Replaces(q)'
      <4> SUFFICES ASSUME ~unsure', NEW q \in Openers PROVE Replaces(q)'
        OBVIOUS
      <4>1. CASE q = p
        BY <4>1, <3>1, <3>3 DEF Replaces, UpTypeOK
      <4>2. CASE q # p
        BY <4>2, <3>1, <3>2 DEF Replaces, Replacing, UpTypeOK
      <4>3. QED
        BY <4>1, <4>2
    <3>7. SettingsKept'
      BY <3>1, <3>2 DEF SettingsInv, SettingsKept, Effective, Movable
    <3>8. QED
      BY <3>4, <3>5, <3>6, <3>7, <1>types DEF SettingsInv
  <2>3. QED
    BY <2>1, <2>2
<1>13. ASSUME NEW p \in Openers, ReadRow(p) PROVE SettingsInv'
  <2> DEFINE k == MovedKeys[mem[p].n]
  <2>1. /\ at[p] = "read" /\ at' = at
        /\ mem[p].n \in 1 .. Len(MovedKeys) /\ k \in Keys
        /\ UNCHANGED <<host, rows, conf, chosen, unsure>>
    BY <1>13, MovedKey DEF ReadRow, Step, settings, UpTypeOK, Mems
  <2>2. /\ mem'[p].conf = [mem[p].conf EXCEPT ![k] = Movable(rows[k])]
        /\ mem'[p].n = mem[p].n + 1
        /\ \A q \in Openers \ {p} : mem'[q] = mem[q]
    BY <1>13 DEF ReadRow, UpTypeOK, Mems
  <2>3. \A q \in Openers : Placed(q)'
    BY <2>1 DEF SettingsInv, Placed
  <2>4. ~unsure' => OneReplaces'
    BY <2>1 DEF SettingsInv, OneReplaces
  <2>5. ~unsure' => \A q \in Openers : Replaces(q)'
    <3> SUFFICES ASSUME ~unsure', NEW q \in Openers PROVE Replaces(q)'
      OBVIOUS
    <3>1. Replaces(q) /\ Replaces(p)
      BY <2>1 DEF SettingsInv
    <3>2. CASE q = p
      <4>1. mem[p].conf \in Confs
        BY DEF UpTypeOK, Mems
      <4>2. \A i \in 1 .. Len(MovedKeys) :
              i < mem[p].n + 1 => mem'[p].conf[MovedKeys[i]] = Movable(rows[MovedKeys[i]])
        <5> TAKE i \in 1 .. Len(MovedKeys)
        <5> HAVE i < mem[p].n + 1
        <5>1. MovedKeys[i] \in Keys
          BY MovedKey
        <5>2. CASE i = mem[p].n
          BY <5>2, <2>1, <2>2, <4>1 DEF Confs
        <5>3. CASE i # mem[p].n
          <6>1. i < mem[p].n
            BY <5>3, <2>1
          <6>2. mem[p].conf[MovedKeys[i]] = Movable(rows[MovedKeys[i]])
            BY <6>1, <3>1, <2>1 DEF Replaces
          <6>3. QED
            BY <5>1, <6>2, <2>2, <4>1 DEF Confs
        <5>4. QED
          BY <5>2, <5>3
      <4>3. QED
        BY <3>1, <3>2, <4>2, <2>1, <2>2 DEF Replaces, Movable
    <3>3. CASE q # p
      BY <3>1, <3>3, <2>1, <2>2 DEF Replaces, Movable
    <3>4. QED
      BY <3>2, <3>3
  <2>6. SettingsKept'
    BY <2>1 DEF SettingsInv, SettingsKept, Effective, Movable
  <2>7. QED
    BY <2>3, <2>4, <2>5, <2>6, <1>types DEF SettingsInv
<1>14. ASSUME NEW p \in Openers, Save(p) PROVE SettingsInv'
  <2>1. /\ at[p] = "read" /\ at' = [at EXCEPT ![p] = "forget"]
        /\ mem[p].n > Len(MovedKeys) /\ conf' = mem[p].conf /\ conf' # Missing
        /\ UNCHANGED <<host, rows, chosen, unsure>>
        /\ \A q \in Openers \ {p} : mem'[q] = mem[q]
    BY <1>14, UpgradeAssumption DEF Save, Step, UpTypeOK, Mems
  <2>2. \A q \in Openers : Placed(q)'
    BY <2>1 DEF SettingsInv, Placed, UpTypeOK
  <2>3. ~unsure' => /\ conf = Missing
                    /\ \A q \in Openers \ {p} : at[q] \notin Replacing
                    /\ \A i \in 1 .. Len(MovedKeys) :
                         mem[p].conf[MovedKeys[i]] = Movable(rows[MovedKeys[i]])
    <3>1. Len(MovedKeys) \in Nat /\ mem[p].n \in Nat
      BY UpgradeAssumption DEF UpTypeOK, Mems
    <3>2. \A i \in 1 .. Len(MovedKeys) : i < mem[p].n
      BY <2>1, <3>1
    <3>3. SUFFICES ASSUME ~unsure
                   PROVE  /\ conf = Missing
                          /\ \A q \in Openers \ {p} : at[q] \notin Replacing
                          /\ \A i \in 1 .. Len(MovedKeys) :
                               mem[p].conf[MovedKeys[i]] = Movable(rows[MovedKeys[i]])
      BY <2>1
    <3>4. OneReplaces /\ Replaces(p)
      BY <3>3 DEF SettingsInv
    <3>5. \A q \in Openers \ {p} : at[q] \notin Replacing
      BY <2>1, <3>4 DEF OneReplaces, Replacing
    <3> QED
      BY <2>1, <3>2, <3>4, <3>5 DEF Replaces
  <2>4. ~unsure' => OneReplaces' /\ \A q \in Openers : Replaces(q)'
    BY <2>1, <2>3 DEF OneReplaces, Replaces, Replacing, UpTypeOK
  <2>5. SettingsKept'
    <3> SUFFICES ASSUME ~unsure', NEW j \in Keys PROVE Effective(j)' = chosen[j]
      BY <2>1 DEF SettingsKept
    <3>1. PICK i \in 1 .. Len(MovedKeys) : j = MovedKeys[i]
      BY UpgradeAssumption DEF Keys
    <3>2. Effective(j)' = Movable(rows[j])
      BY <2>1, <2>3, <3>1 DEF Effective
    <3>3. QED
      BY <3>2, <2>1, <2>3 DEF SettingsInv, SettingsKept, Effective
  <2>6. QED
    BY <2>2, <2>4, <2>5, <1>types DEF SettingsInv
<1>15. ASSUME NEW p \in Openers, ForgetRow(p) PROVE SettingsInv'
  <2>1. /\ at[p] = "forget" /\ \E l \in {"ready", "forget"} : at' = [at EXCEPT ![p] = l]
        /\ conf # Missing /\ UNCHANGED <<host, conf, chosen, unsure>>
        /\ \A q \in Openers \ {p} : mem'[q] = mem[q]
    BY <1>15 DEF ForgetRow, Step, UpTypeOK, SettingsInv, Placed
  <2>2. \A q \in Openers : Placed(q)'
    BY <2>1 DEF SettingsInv, Placed, UpTypeOK
  <2>3. ~unsure' => OneReplaces' /\ \A q \in Openers : Replaces(q)'
    BY <2>1 DEF SettingsInv, OneReplaces, Replaces, Replacing, UpTypeOK
  <2>4. SettingsKept'
    BY <2>1 DEF SettingsInv, SettingsKept, Effective
  <2>5. QED
    BY <2>2, <2>3, <2>4, <1>types DEF SettingsInv
<1>16. ASSUME NEW p \in Openers, LoadConf(p) PROVE SettingsInv'
  <2>1. /\ at[p] = "ready" /\ p \in host.root /\ at' = [at EXCEPT ![p] = "edit"]
        /\ conf # Missing /\ TakeUp(p) /\ UNCHANGED <<host, rows, conf, chosen>>
        /\ mem'[p].conf = conf /\ \A q \in Openers \ {p} : mem'[q] = mem[q]
    BY <1>16 DEF LoadConf, Step, UpTypeOK, Mems, SettingsInv, Placed
  <2>2. ~unsure' => ~unsure /\ \A q \in Openers \ {p} : at[q] \notin Replacing
    BY <2>1 DEF TakeUp
  <2>3. \A q \in Openers : Placed(q)'
    BY <2>1 DEF SettingsInv, Placed, UpTypeOK
  <2>4. ~unsure' => OneReplaces' /\ \A q \in Openers : Replaces(q)'
    BY <2>1, <2>2 DEF OneReplaces, Replaces, Replacing, UpTypeOK
  <2>5. SettingsKept'
    BY <2>1, <2>2 DEF SettingsInv, SettingsKept, Effective
  <2>6. QED
    BY <2>3, <2>4, <2>5, <1>types DEF SettingsInv
<1>17. ASSUME NEW p \in Openers, Store(p) PROVE SettingsInv'
  <2>1. PICK k \in Keys, v \in Values \union {Unset} :
          conf' = [mem[p].conf EXCEPT ![k] = v] /\ chosen' = [chosen EXCEPT ![k] = v]
    BY <1>17 DEF Store
  <2>a. conf' # Missing
    <3>1. mem[p].conf \in Confs
      BY DEF UpTypeOK, Mems
    <3>2. conf' \in Confs
      BY <2>1, <3>1 DEF Confs
    <3>3. QED
      BY <3>2, UpgradeAssumption
  <2>2. /\ at[p] = "edit" /\ at' = [at EXCEPT ![p] = "off"] /\ conf # Missing
        /\ UNCHANGED <<host, rows, unsure>> /\ conf' # Missing
        /\ \A q \in Openers \ {p} : mem'[q] = mem[q]
    BY <1>17, <2>a DEF Store, Ends, UpTypeOK, SettingsInv, Placed
  <2>3. \A q \in Openers : Placed(q)'
    BY <2>2 DEF SettingsInv, Placed, UpTypeOK
  <2>4. ~unsure' => mem[p].conf = conf /\ \A q \in Openers \ {p} : at[q] \notin Replacing
    BY <2>2 DEF SettingsInv, Replaces, OneReplaces, Replacing
  <2>5. ~unsure' => OneReplaces' /\ \A q \in Openers : Replaces(q)'
    BY <2>2, <2>4 DEF OneReplaces, Replaces, Replacing, UpTypeOK
  <2>6. SettingsKept'
    BY <2>1, <2>2, <2>4 DEF SettingsInv, SettingsKept, Effective, UpTypeOK, Confs
  <2>7. QED
    BY <2>3, <2>5, <2>6, <1>types DEF SettingsInv
<1>18. ASSUME NEW p \in Openers, SaveFails(p) PROVE SettingsInv'
  <2>1. \E l \in {"off", "tables", "create", "vacuum", "sync", "begin", "inside",
                "steps", "host"} :
          at' = [at EXCEPT ![p] = l]
    BY <1>18 DEF SaveFails, Ends
  <2>2. UNCHANGED <<host, settings>> /\ \A q \in Openers \ {p} : mem'[q] = mem[q]
    BY <1>18 DEF SaveFails, Ends, UpTypeOK
  <2>3. QED
    BY <2>1, <2>2, <1>types, SettingsAside
<1>19. ASSUME NEW p \in Openers, Close(p) PROVE SettingsInv'
  <2>1. \E l \in {"off", "tables", "create", "vacuum", "sync", "begin", "inside",
                "steps", "host"} :
          at' = [at EXCEPT ![p] = l]
    BY <1>19 DEF Close, Ends
  <2>2. UNCHANGED <<host, settings>> /\ \A q \in Openers \ {p} : mem'[q] = mem[q]
    BY <1>19 DEF Close, Ends, UpTypeOK
  <2>3. QED
    BY <2>1, <2>2, <1>types, SettingsAside
<1>20. ASSUME NEW p \in Openers, Kill(p) PROVE SettingsInv'
  <2>1. \E l \in {"off", "tables", "create", "vacuum", "sync", "begin", "inside",
                "steps", "host"} :
          at' = [at EXCEPT ![p] = l]
    BY <1>20 DEF Kill, Ends
  <2>2. UNCHANGED <<host, settings>> /\ \A q \in Openers \ {p} : mem'[q] = mem[q]
    BY <1>20 DEF Kill, Ends, UpTypeOK
  <2>3. QED
    BY <2>1, <2>2, <1>types, SettingsAside
<1>21. CASE Power
  BY <1>21, <1>types DEF Power, settings, SettingsInv, SettingsKept, Effective, Movable,
    Placed, Replaces, OneReplaces, Replacing
<1>24. CASE Flush
  BY <1>24, <1>types DEF Flush, SettingsInv, SettingsKept, Effective, Movable, Placed, Replaces,
    OneReplaces, Replacing
<1>22. CASE UNCHANGED upVars
  BY <1>22, <1>types DEF upVars, settings, SettingsInv, SettingsKept, Effective, Movable,
    Placed, Replaces, OneReplaces
<1>23. QED
  BY <1>1, <1>2, <1>3, <1>4, <1>5, <1>6, <1>7, <1>8, <1>9, <1>10, <1>11,
    <1>12, <1>13, <1>14, <1>15, <1>16, <1>17, <1>18, <1>19, <1>20, <1>21,
    <1>22, <1>24 DEF UpNext, Opening

\* Whatever ends a process, the host's settings are what the operator chose
\* last, unless two root processes were replacing the file at once, or the power
\* went before the file's new name was on disk (hostconf.rs 515-605).
THEOREM SettingsHold == UpSpec => []SettingsKept
<1>1. UpInit => SettingsInv
  BY UpTypeInit DEF UpInit, SettingsInv, SettingsKept, Effective, Placed, Replaces,
    OneReplaces, Replacing
<1>2. SettingsInv => SettingsKept
  BY DEF SettingsInv
<1>3. QED
  BY <1>1, <1>2, SettingsStep, PTL DEF UpSpec

-----------------------------------------------------------------------------
(* An uninstall.                                                           *)

\* A host boots as Boots says, by the unit it has, and not as Reboot does, which
\* has one for ever.
OneBoot == \A s \in Scenes : "reboot" \notin s.faults

\* Nobody changes the settings of a host that is being uninstalled: its blocks
\* could be in two configurations, of which an uninstall finds one.
Unedited == \A h \in Uninstalled : ~h.edits

\* The steps after the blocks, the live rules, the boot unit, the schedule.
PastWeb   == {"list", "scripts", "done"}
PastTable == {"web"} \union PastWeb
PastUnit  == {"table"} \union PastTable
PastCron  == {"disable", "unit"} \union PastUnit

\* Every step so far was done, and nothing was on its way when the schedule went.
Undisturbed == ~failed /\ ~flight

\* What the uninstall is past is gone, and nobody is left who puts it back.
GoneInv ==
    /\ ~failed /\ step \in PastCron => ~cron
    /\ ~failed /\ step \in PastUnit => ~unit.file
    /\ Undisturbed /\ step \in PastCron => ~InFlight
    /\ Undisturbed /\ step \in PastTable => kernel = Absent \/ missed
    /\ Undisturbed /\ ~unsure /\ step \in PastWeb => web = {}

\* A script that is there is on the list, until there is none.
ListedInv ==
    Undisturbed /\ step \in {"scripts", "done"} =>
        /\ applied = Absent \/ "applied" \in listed
        /\ next = Absent \/ "next" \in listed
        /\ prev = Absent \/ "prev" \in listed
        /\ pending = NoToken \/ "pending" \in listed
        /\ step = "done" => listed = {}

\* Nobody changes the settings of a host that is uninstalled, so that its
\* configuration is in one place.
SameRoot ==
    /\ \A p \in Openers : at[p] # "edit"
    /\ ~unsure /\ conf = Missing => rows = host.rows
    /\ chosen[RootKey] = Movable(host.rows[RootKey])
    /\ ~unsure => web \subseteq {chosen[RootKey]} /\ tick \in {Missing, chosen[RootKey]}

\* What the uninstall takes it to be is where it is.
FoundInv ==
    /\ step = "conf" /\ conf = Missing /\ ~unsure => found = host.rows[RootKey]
    /\ step \in {"open", "cron", "disable", "unit", "table", "web"} /\ ~unsure
         => found = chosen[RootKey]

\* Everything there is to know of an uninstall.
UninstallInv ==
    /\ TypeOK /\ UpgradeInv /\ SettingsInv
    /\ unit \in [file : BOOLEAN, enabled : BOOLEAN]
    /\ step # "idle" => host \in Uninstalled
    /\ GoneInv /\ ListedInv
    /\ host \in Uninstalled => SameRoot /\ FoundInv

LEMMA AfterIs ==
    /\ After("rows") = "conf" /\ After("conf") = "open" /\ After("open") = "cron"
    /\ After("cron") = "disable" /\ After("disable") = "unit" /\ After("unit") = "table"
    /\ After("table") = "web" /\ After("web") = "list" /\ After("list") = "scripts"
    /\ After("scripts") = "done"
<1>1. DOMAIN Order = 1 .. 11
  BY DEF Order
<1>2. /\ Order[1] = "rows" /\ Order[2] = "conf" /\ Order[3] = "open" /\ Order[4] = "cron"
      /\ Order[5] = "disable" /\ Order[6] = "unit" /\ Order[7] = "table"
      /\ Order[8] = "web" /\ Order[9] = "list" /\ Order[10] = "scripts"
      /\ Order[11] = "done"
  BY DEF Order
<1>3. \A i, j \in 1 .. 11 : Order[i] = Order[j] => i = j
  <2>1. \A i \in 1 .. 11 : \/ i = 1 \/ i = 2 \/ i = 3 \/ i = 4 \/ i = 5 \/ i = 6
                           \/ i = 7 \/ i = 8 \/ i = 9 \/ i = 10 \/ i = 11
    OBVIOUS
  <2> QED
    BY <1>2, <2>1
<1>4. ASSUME NEW k \in 1 .. 10
      PROVE  After(Order[k]) = Order[k + 1]
  <2> DEFINE i == CHOOSE i \in DOMAIN Order : Order[i] = Order[k]
  <2>1. k \in 1 .. 11
    OBVIOUS
  <2>2. i \in 1 .. 11 /\ Order[i] = Order[k]
    BY <1>1, <2>1
  <2>3. i = k
    BY <1>3, <2>1, <2>2
  <2>4. 1 + i = k + 1
    <3> HIDE DEF i
    <3> QED
      BY <2>3
  <2> QED
    BY <2>4 DEF After
<1>5. After(Order[1]) = Order[2] /\ After(Order[2]) = Order[3] /\ After(Order[3]) = Order[4]
      /\ After(Order[4]) = Order[5] /\ After(Order[5]) = Order[6] /\ After(Order[6]) = Order[7]
      /\ After(Order[7]) = Order[8] /\ After(Order[8]) = Order[9]
      /\ After(Order[9]) = Order[10] /\ After(Order[10]) = Order[11]
  BY <1>4
<1> QED
  BY <1>2, <1>5

\* The steps of the host, and those of the uninstall that change neither the
\* firewall nor the database.
LEMMA UnActions ==
    ASSUME [UnNext]_unVars
    PROVE  \/ FirewallRuns \/ Opens \/ TickSites \/ TickWrites
           \/ Uninstall \/ ReadRows \/ ReadConf \/ Opened
           \/ RemoveCron \/ Disable \/ RemoveUnit \/ RemoveTable \/ RemoveBlocks
           \/ ListScripts \/ RemoveScript \/ Finish \/ Refused \/ Killed
           \/ Boots \/ UNCHANGED unVars
BY DEF UnNext, Removing

LEMMA Elsewhere ==
    ASSUME \/ TickSites \/ TickWrites
           \/ Uninstall \/ ReadRows \/ ReadConf \/ Opened
           \/ RemoveCron \/ Disable \/ RemoveUnit \/ RemoveBlocks
           \/ ListScripts \/ Finish \/ Refused \/ Killed \/ UNCHANGED unVars
    PROVE  UNCHANGED <<vars, upVars>>
BY DEF TickSites, TickWrites, Uninstall, ReadRows, ReadConf, Opened, RemoveCron, Disable,
       RemoveUnit, RemoveBlocks, ListScripts, Finish, Refused, Killed, unVars, here

\* What a boot does to who opens the database.
LEMMA BootEnds ==
    ASSUME UpTypeOK, Boots
    PROVE  /\ at' = [p \in Openers |-> "off"] /\ mem' = [p \in Openers |-> NoMem]
           /\ writer' = Nobody /\ UNCHANGED <<host, base, ran, copies, settings>>
BY DEF Boots

LEMMA TypesStay ==
    ASSUME TypeOK, UpgradeInv, SettingsInv, [UnNext]_unVars
    PROVE  TypeOK' /\ UpgradeInv' /\ SettingsInv'
<1>0. UpTypeOK
  BY DEF UpgradeInv
<1>1. CASE FirewallRuns
  <2>1. [Next]_vars /\ [UpNext]_upVars
    BY <1>1 DEF FirewallRuns
  <2> QED
    BY <2>1, TypeStep, UpgradeStep, SettingsStep
<1>2. CASE Opens
  <2>1. [Next]_vars /\ [UpNext]_upVars
    BY <1>2 DEF Opens
  <2> QED
    BY <2>1, TypeStep, UpgradeStep, SettingsStep
<1>3. CASE UNCHANGED <<vars, upVars>>
  <2>1. [Next]_vars /\ [UpNext]_upVars
    BY <1>3
  <2> QED
    BY <2>1, TypeStep, UpgradeStep, SettingsStep
<1>4. CASE RemoveTable \/ RemoveScript
  <2>1. [UpNext]_upVars
    BY <1>4 DEF RemoveTable, RemoveScript
  <2>2. TypeOK'
    BY <1>4 DEF RemoveTable, RemoveScript, TypeOK, Script, db, files, timing, history
  <2> QED
    BY <2>1, <2>2, UpgradeStep, SettingsStep
<1>5. CASE Boots
  <2>1. TypeOK'
    <3>1. pc' \in [Actors -> ProcLabels \union TimerLabels]
      BY <1>5 DEF Boots, ProcLabels, TimerLabels
    <3>2. (\A p \in Procs : pc'[p] = "idle") /\ (\A t \in Tokens : pc'[t] \in {"off", "done"})
      BY <1>5, ConstantsAssumption DEF Boots, Actors
    <3>3. job' \in [Procs -> Jobs]
      BY <1>5 DEF Boots, NoJob, Jobs, Script, Kinds, Outcomes
    <3>4. kernel' \in Script /\ lock' \in Actors \union {Free, Site}
      BY <1>5 DEF Boots, TypeOK, Script
    <3> QED
      BY <1>5, <3>1, <3>2, <3>3, <3>4
         DEF Boots, TypeOK, ProcLabels, TimerLabels, db, files, timing, history
  <2>2. UpTypeOK'
    BY <1>0, <1>5, BootEnds, NoMemIs DEF UpTypeOK, settings, OpenLabels
  <2>3. UpgradeInv'
    <3>1. CopyKept'
      BY <1>0, <1>5, BootEnds DEF UpgradeInv, Upgraded, CopyKept
    <3> QED
      BY <1>0, <1>5, <2>2, <3>1, BootEnds DEF UpgradeInv, Upgraded, StepsOnce, DefaultsKept,
         Grown, OwnCopy, Found, Copied, MoveLocked, Upgrading, Copying, Writing
  <2>4. SettingsInv'
    BY <1>0, <1>5, <2>2, BootEnds DEF settings, SettingsInv, SettingsKept, Effective, Movable,
       Placed, Replaces, OneReplaces, Replacing
  <2> QED
    BY <2>1, <2>3, <2>4
<1> QED
  BY <1>1, <1>2, <1>3, <1>4, <1>5, UnActions, Elsewhere

-----------------------------------------------------------------------------
\* Once the schedule is gone and nothing is on its way, nothing runs.
LEMMA NothingRuns ==
    ASSUME TypeOK, ~InFlight
    PROVE  /\ \A p \in Procs : pc[p] = "idle"
           /\ \A t \in Tokens : pc[t] \in {"off", "done"}
           /\ tick = Missing
<1>1. \A a \in Actors : pc[a] \in {"idle", "off", "done"}
  BY DEF InFlight
<1> QED
  BY <1>1 DEF InFlight, TypeOK, Actors, ProcLabels, TimerLabels

LEMMA QuietRuns ==
    ASSUME OneBoot, TypeOK, ~InFlight, ~cron, FirewallRuns
    PROVE  UNCHANGED <<files, kernel, pending, pc>>
<1>1. /\ \A p \in Procs : pc[p] = "idle"
      /\ \A t \in Tokens : pc[t] \in {"off", "done"}
  BY NothingRuns
<1>2. \A a \in Actors : pc[a] \in {"idle", "off", "done"}
  BY <1>1 DEF Actors
<1>3. Next /\ \A p \in Procs : pc'[p] = "idle"
  BY <1>1 DEF FirewallRuns
<1>4. pc \in [Actors -> ProcLabels \union TimerLabels] /\ scene \in Scenes
  BY DEF TypeOK
<1>5. CASE ChangeRules \/ SiteApply \/ \E t \in Tokens : Deadline(t) \/ GoStale(t)
  BY <1>5 DEF ChangeRules, SiteApply, Deadline, GoStale, files
<1>6. ~Reboot
  BY <1>4 DEF Reboot, OneBoot, Faults
<1>7. ASSUME NEW p \in Procs
      PROVE  ~Prepare(p) /\ ~RevertByHand(p)
  <2>1. p \in Actors /\ pc'[p] = "idle"
    BY <1>3 DEF Actors
  <2> QED
    BY <1>4, <2>1 DEF Prepare, RevertByHand, Goto
<1>8. ASSUME NEW p \in Procs
      PROVE  ~Crash(p)
  BY <1>1 DEF Crash
<1>9. ASSUME NEW t \in Tokens
      PROVE  ~Fire(t)
  BY <1>1 DEF Fire
<1>10. ASSUME NEW p \in Procs
       PROVE  ~(\/ AnswerKeep(p) \/ AnswerRevert(p) \/ LockForApply(p) \/ Busy(p) \/ Write(p)
                \/ WriteFails(p) \/ Decide(p) \/ Arm(p) \/ ArmFails(p) \/ StartTimer(p)
                \/ NoTimer(p) \/ Load(p) \/ LoadFails(p) \/ SavePrevious(p) \/ Promote(p)
                \/ PromoteFails(p) \/ Record(p) \/ LockForKeep(p) \/ Keep(p)
                \/ KeepNothing(p) \/ RollBack(p) \/ RollRun(p) \/ RollSave(p)
                \/ RollSwap(p) \/ RollFails(p) \/ RecordRevert(p))
  BY <1>1 DEF AnswerKeep, AnswerRevert, LockForApply, TakeLock, Busy, Write, WriteFails, Decide,
     Arm, ArmFails, StartTimer, NoTimer, Load, LoadFails, SavePrevious, Promote, PromoteFails,
     Record, LockForKeep, Keep, KeepNothing, RollBack, RollRun, RollSave, RollSwap, RollFails,
     RecordRevert
<1>11. ASSUME NEW a \in Actors
       PROVE  ~(\/ LockForRevert(a) \/ GiveUp(a) \/ RevertNothing(a) \/ RevertUndo(a)
                \/ Undo(a) \/ UndoFails(a))
  BY <1>2 DEF LockForRevert, TakeLock, GiveUp, RevertNothing, RevertUndo, Undo, UndoFails
<1> QED
  BY <1>3, <1>5, <1>6, <1>7, <1>8, <1>9, <1>10, <1>11, Actions

\* Without edits, opening the database leaves what was chosen, and rows go
\* only once there is a file.
LEMMA RootStays ==
    ASSUME SettingsInv, UpNext, ~host.edits, \A p \in Openers : at[p] # "edit"
    PROVE  /\ \A p \in Openers : at'[p] # "edit"
           /\ UNCHANGED <<host, chosen>>
           /\ ~unsure' => ~unsure
           /\ ~unsure' /\ conf' = Missing => conf = Missing /\ rows' = rows
<1>1. /\ at \in [Openers -> OpenLabels] /\ mem \in [Openers -> Mems]
      /\ unsure \in BOOLEAN /\ \A p \in Openers : Placed(p)
  BY DEF SettingsInv, UpTypeOK
<1>2. CASE Power \/ Flush
  BY <1>1, <1>2 DEF Power, Flush
<1>3. ASSUME NEW p \in Openers, UNCHANGED <<host, settings>>,
             \E l \in OpenLabels \ {"edit"} : at' = [at EXCEPT ![p] = l]
      PROVE  /\ \A q \in Openers : at'[q] # "edit"
             /\ UNCHANGED <<host, rows, conf, chosen, unsure>>
  BY <1>1, <1>3 DEF settings
<1>4. ASSUME NEW p \in Openers,
             \/ Look(p) \/ Tables(p) \/ Create(p) \/ Vacuum(p) \/ Sync(p) \/ BackupFails(p)
             \/ Begin(p) \/ Busied(p) \/ Reread(p) \/ Commit(p) \/ RollBackUpgrade(p)
             \/ ReadRow(p) \/ SaveFails(p) \/ Close(p) \/ Kill(p)
      PROVE  /\ UNCHANGED <<host, settings>>
             /\ \E l \in OpenLabels \ {"edit"} : at' = [at EXCEPT ![p] = l]
  BY <1>4 DEF Look, Tables, Create, Vacuum, Sync, BackupFails, Begin, Busied, Reread, Commit,
     RollBackUpgrade, ReadRow, SaveFails, Close, Kill, Step, Ends, OpenLabels
<1>5. ASSUME NEW p \in Openers, MoveLook(p) \/ Save(p) \/ ForgetRow(p)
      PROVE  /\ \E l \in OpenLabels \ {"edit"} : at' = [at EXCEPT ![p] = l]
             /\ UNCHANGED <<host, chosen>>
             /\ ~unsure' => ~unsure
             /\ conf' = Missing => conf = Missing /\ rows' = rows
  <2>1. CASE MoveLook(p)
    BY <1>1, <2>1 DEF MoveLook, Step, TakeUp, OpenLabels
  <2>2. CASE Save(p)
    <3>1. conf' # Missing
      BY <1>1, <2>2, UpgradeAssumption DEF Save, Mems
    <3> QED
      BY <2>2, <3>1 DEF Save, Step, OpenLabels
  <2>3. CASE ForgetRow(p)
    <3>1. conf # Missing /\ conf' = conf
      BY <1>1, <2>3 DEF ForgetRow, Step, Placed
    <3> QED
      BY <2>3, <3>1 DEF ForgetRow, Step, OpenLabels
  <2> QED
    BY <1>5, <2>1, <2>2, <2>3
<1>6. ASSUME NEW p \in Openers
      PROVE  ~LoadConf(p) /\ ~Store(p)
  BY DEF LoadConf, Store
<1>7. ASSUME NEW p \in Openers, \E l \in OpenLabels \ {"edit"} : at' = [at EXCEPT ![p] = l]
      PROVE  \A q \in Openers : at'[q] # "edit"
  BY <1>1, <1>7
<1>8. CASE \E p \in Openers : Opening(p)
  <2>0. PICK p \in Openers : Opening(p)
    BY <1>8
  <2>1. CASE MoveLook(p) \/ Save(p) \/ ForgetRow(p)
    BY <1>5, <1>7, <2>1
  <2>2. CASE ~(MoveLook(p) \/ Save(p) \/ ForgetRow(p))
    <3>1. /\ UNCHANGED <<host, settings>>
          /\ \E l \in OpenLabels \ {"edit"} : at' = [at EXCEPT ![p] = l]
      BY <1>4, <1>6, <2>0, <2>2 DEF Opening
    <3> QED
      BY <1>3, <3>1
  <2> QED
    BY <2>1, <2>2
<1> QED
  BY <1>2, <1>8 DEF UpNext

\* The site's own steps keep where its configuration is.
LEMMA RootStep ==
    ASSUME Unedited, UninstallInv, host \in Uninstalled, [UnNext]_unVars
    PROVE  SameRoot'
<1>0. /\ SameRoot /\ FoundInv /\ SettingsInv /\ UpTypeOK /\ ~host.edits
      /\ RootKey \in Keys
  BY UninstallAssumption DEF UninstallInv, SettingsInv, Unedited
<1>1. CASE Opens
  <2>1. CASE UpNext
    <3>1. UNCHANGED <<web, tick>>
      BY <1>1 DEF Opens, installed
    <3> QED
      BY <1>0, <2>1, <3>1, RootStays DEF SameRoot, Movable
  <2> QED
    BY <1>1, <2>1 DEF Opens
<1>2. CASE UNCHANGED upVars /\ UNCHANGED <<web, tick>>
  BY <1>0, <1>2 DEF SameRoot, Movable, upVars, settings
<1>3. CASE TickSites
  <2>1. UNCHANGED upVars /\ UNCHANGED web /\ tick' = conf[RootKey] /\ conf # Missing
    BY <1>3 DEF TickSites, installed
  <2>2. ~unsure => conf[RootKey] = chosen[RootKey]
    BY <1>0, <2>1 DEF SettingsInv, SettingsKept, Effective
  <2> QED
    BY <1>0, <2>1, <2>2 DEF SameRoot, Movable, upVars, settings
<1>4. CASE TickWrites
  <2>1. UNCHANGED upVars /\ web' = web \union {tick} /\ tick # Missing /\ tick' = Missing
    BY <1>4 DEF TickWrites
  <2> QED
    BY <1>0, <2>1 DEF SameRoot, Movable, upVars, settings
<1>5. CASE RemoveBlocks
  <2>1. UNCHANGED upVars /\ web' = web \ {found} /\ UNCHANGED tick
    BY <1>5 DEF RemoveBlocks, here
  <2> QED
    BY <1>0, <2>1 DEF SameRoot, Movable, upVars, settings
<1>6. CASE Boots
  <2>1. /\ \A p \in Openers : at'[p] = "off"
        /\ UNCHANGED <<host, settings, web>> /\ tick' = Missing
    BY <1>6 DEF Boots, installed
  <2> QED
    BY <1>0, <2>1 DEF SameRoot, Movable, settings
<1>7. CASE FirewallRuns
  BY <1>2, <1>7 DEF FirewallRuns, installed
<1>8. CASE \/ Uninstall \/ ReadRows \/ ReadConf \/ Opened \/ RemoveCron \/ Disable
           \/ RemoveUnit \/ RemoveTable \/ ListScripts \/ RemoveScript \/ Finish
           \/ Refused \/ Killed \/ UNCHANGED unVars
  BY <1>2, <1>8 DEF Uninstall, ReadRows, ReadConf, Opened, RemoveCron, Disable, RemoveUnit,
     RemoveTable, ListScripts, RemoveScript, Finish, Refused, Killed, unVars, here, installed
<1> QED
  BY <1>1, <1>3, <1>4, <1>5, <1>6, <1>7, <1>8, UnActions

LEMMA FoundStep ==
    ASSUME Unedited, UninstallInv, host \in Uninstalled, [UnNext]_unVars
    PROVE  FoundInv'
<1>0. /\ SameRoot /\ FoundInv /\ SettingsInv /\ UpTypeOK /\ ~host.edits
      /\ RootKey \in Keys
  BY UninstallAssumption DEF UninstallInv, SettingsInv, Unedited
<1>1. CASE Opens
  <2>1. UNCHANGED <<step, found>> /\ UpNext
    BY <1>1 DEF Opens, sofar
  <2> QED
    BY <1>0, <2>1, RootStays DEF FoundInv, SameRoot
<1>2. CASE UNCHANGED <<upVars, step, found>>
  BY <1>0, <1>2 DEF FoundInv, upVars, settings
<1>3. CASE FirewallRuns \/ TickSites \/ TickWrites \/ UNCHANGED unVars
  BY <1>2, <1>3 DEF FirewallRuns, TickSites, TickWrites, unVars, here, sofar
<1>4. CASE ReadRows
  <2>1. UNCHANGED upVars /\ found' = rows[RootKey] /\ step' = "conf"
    BY <1>4, AfterIs DEF ReadRows, here
  <2> QED
    BY <1>0, <2>1 DEF FoundInv, SameRoot, upVars, settings
<1>5. CASE ReadConf
  <2>1. UNCHANGED upVars /\ step = "conf"
    BY <1>5 DEF ReadConf, here
  <2> DEFINE root == IF conf # Missing THEN conf[RootKey]
                     ELSE IF host.trusted THEN found ELSE Unset
  <2>2. CASE root = Invalid
    <3>1. step' = "idle"
      BY <1>5, <2>2 DEF ReadConf, Stops
    <3> QED
      BY <3>1 DEF FoundInv
  <2>3. CASE root # Invalid
    <3>1. found' = root /\ step' = "open"
      BY <1>5, <2>3, AfterIs DEF ReadConf
    <3>2. ~unsure /\ conf # Missing => root = chosen[RootKey]
      BY <1>0 DEF SettingsInv, SettingsKept, Effective
    <3>3. ~unsure /\ conf = Missing => root = chosen[RootKey]
      <4> SUFFICES ASSUME ~unsure, conf = Missing
                   PROVE  root = chosen[RootKey]
        OBVIOUS
      <4>1. found = host.rows[RootKey] /\ chosen[RootKey] = Movable(found)
        BY <1>0, <2>1 DEF FoundInv, SameRoot
      <4>2. found \in Values \union {Unset, Invalid}
        <5>1. host.rows \in [Keys -> Values \union {Unset, Invalid}]
          BY <1>0, HostIs DEF UpTypeOK
        <5> QED
          BY <1>0, <4>1, <5>1
      <4> QED
        BY <2>3, <4>1, <4>2 DEF Movable
    <3> HIDE DEF root
    <3> QED
      BY <2>1, <3>1, <3>2, <3>3 DEF FoundInv, upVars, settings
  <2> QED
    BY <2>2, <2>3
<1>6. CASE Opened \/ RemoveCron \/ Disable \/ RemoveUnit
  <2>1. UNCHANGED <<upVars, found>> /\ step \in {"open", "cron", "disable", "unit"}
    BY <1>6 DEF Opened, RemoveCron, Disable, RemoveUnit, here, sofar
  <2>2. step' \in {"cron", "disable", "unit", "table"}
    BY <1>6, AfterIs DEF Opened, RemoveCron, Disable, RemoveUnit
  <2> QED
    BY <1>0, <2>1, <2>2 DEF FoundInv, upVars, settings
<1>7. CASE RemoveTable
  <2>1. UNCHANGED <<upVars, found>> /\ step = "table" /\ step' = "web"
    BY <1>7, AfterIs DEF RemoveTable, sofar
  <2> QED
    BY <1>0, <2>1 DEF FoundInv, upVars, settings
<1>8. CASE Refused
  <2>1. UNCHANGED <<upVars, found>> /\ step \in Changing
        /\ IF step = "scripts" THEN step' = step ELSE step' = After(step)
    BY <1>8 DEF Refused, here
  <2>2. \/ step \in {"cron", "disable", "unit", "table"} /\ step' # "conf"
        \/ step' \in {"list", "scripts"}
    BY <2>1, AfterIs DEF Changing
  <2> QED
    BY <1>0, <2>1, <2>2 DEF FoundInv, upVars, settings
<1>9. CASE \/ Uninstall \/ RemoveBlocks \/ ListScripts \/ RemoveScript \/ Finish \/ Killed
           \/ Boots
  <2>1. step' \in {"rows", "list", "scripts", "done", "idle"}
    BY <1>9, AfterIs
       DEF Uninstall, RemoveBlocks, ListScripts, RemoveScript, Finish, Killed, Boots, Stops
  <2> QED
    BY <2>1 DEF FoundInv
<1> QED
  BY <1>1, <1>3, <1>4, <1>5, <1>6, <1>7, <1>8, <1>9, UnActions

-----------------------------------------------------------------------------
\* A host stays the host it is.
LEMMA HostStays ==
    ASSUME [UnNext]_unVars
    PROVE  host' = host
<1>1. CASE UNCHANGED upVars
  BY <1>1 DEF upVars
<1>2. CASE Opens
  <2>1. CASE Power \/ Flush
    BY <2>1 DEF Power, Flush
  <2>2. CASE \E p \in Openers : Opening(p)
    BY <2>2 DEF Opening, Look, Tables, Create, Vacuum, Sync, BackupFails, Begin, Busied, Reread,
       Commit, RollBackUpgrade, MoveLook, ReadRow, Save, ForgetRow, LoadConf, Store, SaveFails,
       Close, Kill
  <2> QED
    BY <1>2, <2>1, <2>2 DEF Opens, UpNext
<1>3. CASE Boots
  BY <1>3 DEF Boots
<1>4. CASE FirewallRuns \/ RemoveTable \/ RemoveScript
  BY <1>1, <1>4 DEF FirewallRuns, RemoveTable, RemoveScript
<1> QED
  BY <1>1, <1>2, <1>3, <1>4, UnActions, Elsewhere

\* The file of the unit and whether it is enabled are all that is kept of it.
LEMMA UnitStep ==
    ASSUME unit \in [file : BOOLEAN, enabled : BOOLEAN], [UnNext]_unVars
    PROVE  unit' \in [file : BOOLEAN, enabled : BOOLEAN]
<1>1. CASE Disable \/ RemoveUnit
  BY <1>1 DEF Disable, RemoveUnit
<1>2. CASE unit' = unit
  BY <1>2
<1>3. CASE ~(Disable \/ RemoveUnit)
  <2>1. unit' = unit
    BY <1>3, UnActions DEF FirewallRuns, Opens, TickSites, TickWrites, Uninstall, ReadRows,
       ReadConf, Opened, RemoveCron, RemoveTable, RemoveBlocks, ListScripts, RemoveScript, Finish,
       Refused, Killed, Boots, unVars, here, installed
  <2> QED
    BY <1>2, <2>1
<1> QED
  BY <1>1, <1>3

\* An uninstall begins where there is something to remove.
LEMMA BegunStep ==
    ASSUME step # "idle" => host \in Uninstalled, [UnNext]_unVars, step' # "idle"
    PROVE  host \in Uninstalled
<1>1. CASE Uninstall
  BY <1>1 DEF Uninstall
<1>2. CASE step # "idle"
  BY <1>2
<1>3. CASE step = "idle" /\ ~Uninstall
  <2>1. step' = step
    BY <1>3, UnActions DEF FirewallRuns, Opens, TickSites, TickWrites, ReadRows,
       ReadConf, Opened, RemoveCron, Disable, RemoveUnit, RemoveTable, RemoveBlocks, ListScripts,
       RemoveScript, Finish, Refused, Changing, Killed, Boots, Stops, unVars
  <2> QED
    BY <1>3, <2>1
<1> QED
  BY <1>1, <1>2, <1>3

\* What is gone stays gone while nothing is done that the uninstall is past.
LEMMA GoneFrame ==
    ASSUME GoneInv,
           UNCHANGED <<cron, unit, web, tick, pc, kernel, failed, flight, missed>>,
           ~unsure' => ~unsure,
           step' \in PastCron => step \in PastCron,
           step' \in PastUnit => step \in PastUnit,
           step' \in PastTable => step \in PastTable,
           step' \in PastWeb => step \in PastWeb
    PROVE  GoneInv'
<1>1. InFlight' = InFlight
  BY DEF InFlight
<1> QED
  BY <1>1 DEF GoneInv, Undisturbed

LEMMA GoneStep ==
    ASSUME OneBoot, Unedited, UninstallInv, [UnNext]_unVars
    PROVE  GoneInv'
<1> USE DEF PastCron, PastUnit, PastTable, PastWeb
<1>0. /\ TypeOK /\ SettingsInv /\ GoneInv /\ (step # "idle" => host \in Uninstalled)
      /\ unit \in [file : BOOLEAN, enabled : BOOLEAN]
      /\ (host \in Uninstalled => SameRoot /\ FoundInv)
  BY DEF UninstallInv
<1>1. CASE FirewallRuns
  <2>1. UNCHANGED <<upVars, tick, cron, unit, web, step, failed, flight, missed>>
    BY <1>1 DEF FirewallRuns, installed, sofar
  <2>2. CASE Undisturbed /\ step \in PastCron
    <3>1. UNCHANGED <<kernel, pc>>
      <4>1. ~InFlight /\ ~cron
        BY <1>0, <2>2 DEF GoneInv, Undisturbed
      <4> QED
        BY <1>0, <1>1, <4>1, QuietRuns
    <3> QED
      BY <1>0, <2>1, <3>1, GoneFrame DEF upVars, settings
  <2>3. CASE ~(Undisturbed /\ step \in PastCron)
    BY <1>0, <2>1, <2>3 DEF GoneInv, Undisturbed
  <2> QED
    BY <2>2, <2>3
<1>2. CASE Opens
  <2>1. /\ UNCHANGED <<pc, kernel, tick, cron, unit, web, step, failed, flight, missed>>
        /\ UpNext
    BY <1>2 DEF Opens, vars, installed, sofar
  <2>2. CASE host \in Uninstalled
    <3>1. ~host.edits /\ \A p \in Openers : at[p] # "edit"
      BY <1>0, <2>2 DEF Unedited, SameRoot
    <3>2. ~unsure' => ~unsure
      BY <1>0, <2>1, <3>1, RootStays
    <3> QED
      BY <1>0, <2>1, <3>2, GoneFrame
  <2>3. CASE host \notin Uninstalled
    <3>1. step' = "idle"
      BY <1>0, <2>1, <2>3
    <3> QED
      BY <3>1 DEF GoneInv
  <2> QED
    BY <2>2, <2>3
<1>3. CASE TickSites
  <2>1. cron /\ UNCHANGED <<vars, cron, unit, step, failed, flight, missed>>
    BY <1>3 DEF TickSites, installed, sofar
  <2>2. failed \/ step \notin PastCron
    BY <1>0, <2>1 DEF GoneInv
  <2> QED
    BY <2>1, <2>2 DEF GoneInv, Undisturbed
<1>4. CASE TickWrites
  <2>1. tick # Missing /\ UNCHANGED <<vars, upVars, cron, unit, step, failed, flight, missed>>
    BY <1>4 DEF TickWrites, sofar
  <2>2. ~Undisturbed \/ step \notin PastCron
    BY <1>0, <2>1 DEF GoneInv, InFlight
  <2> QED
    BY <1>0, <2>1, <2>2 DEF GoneInv, Undisturbed
<1>5. CASE RemoveCron
  <2>1. /\ cron' = FALSE /\ flight' = InFlight /\ step' = "disable"
        /\ UNCHANGED <<pc, tick>>
    BY <1>5, AfterIs DEF RemoveCron, here, vars
  <2>2. InFlight' = InFlight
    BY <2>1 DEF InFlight
  <2> QED
    BY <2>1, <2>2 DEF GoneInv, Undisturbed
<1>6. CASE Disable
  <2>1. /\ step = "disable" /\ step' = "unit"
        /\ UNCHANGED <<pc, kernel, tick, cron, web, unsure, failed, flight, missed>>
    BY <1>6, AfterIs DEF Disable, here, vars, upVars, settings, sofar
  <2>2. InFlight' = InFlight
    BY <2>1 DEF InFlight
  <2> QED
    BY <1>0, <2>1, <2>2 DEF GoneInv, Undisturbed
<1>7. CASE RemoveUnit
  <2>1. /\ step = "unit" /\ step' = "table" /\ ~unit'.file
        /\ UNCHANGED <<pc, kernel, tick, cron, web, unsure, failed, flight, missed>>
    BY <1>0, <1>7, AfterIs DEF RemoveUnit, here, vars, upVars, settings, sofar
  <2>2. InFlight' = InFlight
    BY <2>1 DEF InFlight
  <2> QED
    BY <1>0, <2>1, <2>2 DEF GoneInv, Undisturbed
<1>8. CASE RemoveTable
  <2>1. /\ step = "table" /\ step' = "web" /\ (kernel' = Absent \/ missed')
        /\ UNCHANGED <<pc, tick, cron, unit, web, unsure, failed, flight>>
    BY <1>8, AfterIs DEF RemoveTable, upVars, settings, installed, sofar
  <2>2. InFlight' = InFlight
    BY <2>1 DEF InFlight
  <2> QED
    BY <1>0, <2>1, <2>2 DEF GoneInv, Undisturbed
<1>9. CASE RemoveBlocks
  <2>1. /\ step = "web" /\ step' = "list" /\ web' = web \ {found}
        /\ UNCHANGED <<pc, kernel, tick, cron, unit, unsure, failed, flight, missed>>
    BY <1>9, AfterIs DEF RemoveBlocks, here, vars, upVars, settings, sofar
  <2>2. InFlight' = InFlight
    BY <2>1 DEF InFlight
  <2>3. ~unsure => web' = {}
    BY <1>0, <2>1 DEF SameRoot, FoundInv
  <2> QED
    BY <1>0, <2>1, <2>2, <2>3 DEF GoneInv, Undisturbed
<1>10. CASE Boots
  <2>1. /\ step' = IF step = "done" THEN "done" ELSE "idle"
        /\ kernel' = IF unit.file /\ unit.enabled THEN applied ELSE Absent
        /\ tick' = Missing
        /\ UNCHANGED <<cron, unit, web, unsure, failed, flight, missed>>
    BY <1>10 DEF Boots, Stops, settings, installed
  <2>2. ~InFlight'
    <3>1. \A a \in Actors : pc'[a] \in {"idle", "off", "done"}
      BY <1>10 DEF Boots
    <3> QED
      BY <2>1, <3>1 DEF InFlight
  <2>3. CASE step = "done"
    BY <1>0, <2>1, <2>2, <2>3 DEF GoneInv, Undisturbed
  <2>4. CASE step # "done"
    BY <2>1, <2>4 DEF GoneInv
  <2> QED
    BY <2>3, <2>4
<1>11. CASE Refused
  <2>1. failed' = TRUE
    BY <1>11 DEF Refused
  <2> QED
    BY <2>1 DEF GoneInv, Undisturbed
<1>12. CASE Uninstall \/ ReadRows \/ ReadConf \/ Opened \/ Killed
  <2>1. step' \in {"idle", "rows", "conf", "open", "cron"}
    BY <1>12, AfterIs DEF Uninstall, ReadRows, ReadConf, Opened, Killed, Stops
  <2> QED
    BY <2>1 DEF GoneInv
<1>13. CASE ListScripts \/ Finish
  <2>1. /\ step \in {"list", "scripts"} /\ step' \in {"scripts", "done"}
        /\ UNCHANGED <<pc, kernel, tick, cron, unit, web, unsure, failed, flight, missed>>
    BY <1>13, AfterIs DEF ListScripts, Finish, Stops, here, vars, upVars, settings, installed
  <2> QED
    BY <1>0, <2>1, GoneFrame
<1>14. CASE RemoveScript \/ UNCHANGED unVars
  <2>1. UNCHANGED <<pc, kernel, tick, cron, unit, web, unsure, step, failed, flight, missed>>
    BY <1>14 DEF RemoveScript, unVars, here, vars, upVars, settings, installed, sofar
  <2> QED
    BY <1>0, <2>1, GoneFrame
<1> QED
  BY <1>1, <1>2, <1>3, <1>4, <1>5, <1>6, <1>7, <1>8, <1>9, <1>10, <1>11, <1>12, <1>13, <1>14,
     UnActions

\* A script that comes after it was listed would have to come from a run.
LEMMA ListedStep ==
    ASSUME OneBoot, UninstallInv, [UnNext]_unVars
    PROVE  ListedInv'
<1>0. TypeOK /\ GoneInv /\ ListedInv
  BY DEF UninstallInv
<1>1. CASE UNCHANGED <<files, pending, step, listed, failed, flight>>
  BY <1>0, <1>1 DEF ListedInv, Undisturbed, files
<1>2. CASE FirewallRuns
  <2>1. UNCHANGED <<step, listed, failed, flight>>
    BY <1>2 DEF FirewallRuns, sofar
  <2>2. CASE Undisturbed /\ step \in {"scripts", "done"}
    <3>1. ~InFlight /\ ~cron
      BY <1>0, <2>2 DEF GoneInv, Undisturbed, PastCron, PastUnit, PastTable, PastWeb
    <3>2. UNCHANGED <<files, pending>>
      BY <1>0, <1>2, <3>1, QuietRuns
    <3> QED
      BY <1>1, <2>1, <3>2
  <2>3. CASE ~(Undisturbed /\ step \in {"scripts", "done"})
    BY <2>1, <2>3 DEF ListedInv, Undisturbed
  <2> QED
    BY <2>2, <2>3
<1>3. CASE Opens \/ TickSites \/ TickWrites \/ UNCHANGED unVars
  BY <1>1, <1>3 DEF Opens, TickSites, TickWrites, unVars, here, vars, sofar
<1>4. CASE ListScripts
  <2> DEFINE there == [applied |-> applied, next |-> next, prev |-> prev]
  <2>1. /\ listed' = {s \in DOMAIN there : there[s] # Absent}
                     \union IF pending = NoToken THEN {} ELSE {"pending"}
        /\ UNCHANGED <<files, pending>> /\ step' = "scripts"
    BY <1>4, AfterIs DEF ListScripts, here, vars
  <2>2. DOMAIN there = {"applied", "next", "prev"}
    OBVIOUS
  <2>3. /\ there["applied"] = applied /\ there["next"] = next /\ there["prev"] = prev
    OBVIOUS
  <2> HIDE DEF there
  <2>4. /\ applied = Absent \/ "applied" \in listed'
        /\ next = Absent \/ "next" \in listed'
        /\ prev = Absent \/ "prev" \in listed'
        /\ pending = NoToken \/ "pending" \in listed'
    BY <2>1, <2>2, <2>3
  <2> QED
    BY <2>1, <2>4 DEF ListedInv, files
<1>5. CASE RemoveScript
  <2> DEFINE f == Foremost
  <2>1. /\ applied' = IF f = "applied" THEN Absent ELSE applied
        /\ next' = IF f = "next" THEN Absent ELSE next
        /\ prev' = IF f = "prev" THEN Absent ELSE prev
        /\ pending' = IF f = "pending" THEN NoToken ELSE pending
        /\ listed' = listed \ {f}
        /\ step = "scripts" /\ UNCHANGED <<step, failed, flight>>
    BY <1>5 DEF RemoveScript
  <2> HIDE DEF f
  <2> QED
    BY <1>0, <2>1 DEF ListedInv, Undisturbed
<1>6. CASE Finish
  <2>1. /\ step = "scripts" /\ listed = {} /\ listed' = {}
        /\ UNCHANGED <<files, pending, failed, flight>>
    BY <1>6 DEF Finish, Stops, here, vars
  <2> QED
    BY <1>0, <2>1 DEF ListedInv, Undisturbed, files
<1>7. CASE Boots
  <2>1. /\ step' = IF step = "done" THEN "done" ELSE "idle"
        /\ listed' = {} /\ UNCHANGED <<files, pending, failed, flight>>
    BY <1>7 DEF Boots, Stops
  <2> QED
    BY <1>0, <2>1 DEF ListedInv, Undisturbed, files
<1>8. CASE Refused
  <2>1. failed' = TRUE
    BY <1>8 DEF Refused
  <2> QED
    BY <2>1 DEF ListedInv, Undisturbed
<1>9. CASE \/ Uninstall \/ ReadRows \/ ReadConf \/ Opened \/ RemoveCron \/ Disable
           \/ RemoveUnit \/ RemoveTable \/ RemoveBlocks \/ Killed
  <2>1. step' \notin {"scripts", "done"}
    BY <1>9, AfterIs DEF Uninstall, ReadRows, ReadConf, Opened, RemoveCron, Disable, RemoveUnit,
       RemoveTable, RemoveBlocks, Killed, Stops
  <2> QED
    BY <2>1 DEF ListedInv
<1> QED
  BY <1>2, <1>3, <1>4, <1>5, <1>6, <1>7, <1>8, <1>9, UnActions

LEMMA UninstallInit == UnInit => UninstallInv
<1> SUFFICES ASSUME UnInit PROVE UninstallInv
  OBVIOUS
<1>1. TypeOK
  BY ConstantsAssumption DEF UnInit, Init, TypeOK, Actors, Script, Jobs, NoJob, Kinds, Outcomes,
     ProcLabels, TimerLabels
<1>2. UpgradeInv /\ UpTypeOK
  BY UpgradeInit, UpTypeInit DEF UnInit
<1>3. SettingsInv
  BY <1>2 DEF UnInit, UpInit, SettingsInv, SettingsKept, Effective, Placed, Replaces,
     OneReplaces, Replacing
<1>4. /\ unit \in [file : BOOLEAN, enabled : BOOLEAN] /\ step = "idle"
  BY DEF UnInit
<1>5. GoneInv /\ ListedInv /\ FoundInv
  BY <1>4 DEF GoneInv, ListedInv, FoundInv, PastCron, PastUnit, PastTable, PastWeb
<1>6. host \in Uninstalled => SameRoot
  <2>1. chosen[RootKey] = Movable(rows[RootKey]) /\ rows = host.rows /\ conf = Missing
    BY UninstallAssumption DEF UnInit, UpInit
  <2> QED
    BY <2>1 DEF UnInit, UpInit, SameRoot, Effective
<1> QED
  BY <1>1, <1>2, <1>3, <1>4, <1>5, <1>6 DEF UninstallInv

LEMMA UninstallStep ==
    ASSUME OneBoot, Unedited, UninstallInv, [UnNext]_unVars
    PROVE  UninstallInv'
<1>1. TypeOK' /\ UpgradeInv' /\ SettingsInv'
  BY TypesStay DEF UninstallInv
<1>2. unit' \in [file : BOOLEAN, enabled : BOOLEAN]
  BY UnitStep DEF UninstallInv
<1>3. step' # "idle" => host' \in Uninstalled
  BY BegunStep, HostStays DEF UninstallInv
<1>4. GoneInv' /\ ListedInv'
  BY GoneStep, ListedStep
<1>5. host' \in Uninstalled => SameRoot' /\ FoundInv'
  BY HostStays, RootStep, FoundStep
<1> QED
  BY <1>1, <1>2, <1>3, <1>4, <1>5 DEF UninstallInv

\* "So nothing puts back what the steps below remove": a host that an
\* uninstall reported clean is clean and stays so, whatever is killed, refused,
\* opened, ticked or booted, if nobody changes its settings meanwhile.
THEOREM UninstallHolds ==
    ASSUME OneBoot, Unedited
    PROVE  UnSpec => []CleanStaysClean
<1>1. UninstallInv => CleanStaysClean
  <2> SUFFICES ASSUME UninstallInv, step = "done", ~failed, ~flight, ~unsure
               PROVE  Clean
    BY DEF CleanStaysClean
  <2>1. GoneInv /\ ListedInv
    BY DEF UninstallInv
  <2> QED
    BY <2>1 DEF Clean, GoneInv, ListedInv, Undisturbed, PastCron, PastUnit, PastTable, PastWeb
<1>2. UninstallInv /\ [UnNext]_unVars => UninstallInv'
  BY UninstallStep
<1> QED
  BY <1>1, <1>2, UninstallInit, PTL DEF UnSpec

\* What the database and the settings owe to whoever opens them, they owe on a
\* host that applies, is taken down and boots meanwhile.
THEOREM KeptBeside == UnSpec => [](Upgraded /\ SettingsKept)
<1> DEFINE Kept == TypeOK /\ UpgradeInv /\ SettingsInv
<1>1. UnInit => Kept
  BY UninstallInit DEF UninstallInv
<1>2. Kept /\ [UnNext]_unVars => Kept'
  BY TypesStay
<1>3. Kept => Upgraded /\ SettingsKept
  BY DEF UpgradeInv, SettingsInv
<1> HIDE DEF Kept
<1> QED
  BY <1>1, <1>2, <1>3, PTL DEF UnSpec
=============================================================================
