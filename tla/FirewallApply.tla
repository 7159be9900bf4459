---------------------------- MODULE FirewallApply ----------------------------
(***************************************************************************)
(* One firewall apply after another, as src/src/firewall.rs (execute,      *)
(* apply_with_revert, record), src/src/revert.rs (arm, keep, revert,       *)
(* promote, roll_back) and src/src/applylock.rs run them.                  *)
(*                                                                         *)
(* A front end (the TUI, `render-firewall`, `batch`, cron's `tick`) reads  *)
(* the rules from the database, writes the rendered script, loads it into  *)
(* the kernel and makes it the script the boot unit loads.  An apply that  *)
(* somebody watches first arms a revert outside the process, and is made   *)
(* the boot script only when the operator keeps it.  Everything from the   *)
(* write to the promotion is under one lock shared by every process.       *)
(***************************************************************************)
EXTENDS Naturals, FiniteSets

CONSTANTS
    Procs,      \* front-end threads that apply, ask and revert
    RuleSets,   \* what the database can hold; also its script and signature
    Tokens,     \* arming tokens, each the name of one revert timer (bound)
    NoToken,    \* no record of a waiting change; a revert asked for by hand
    Absent,     \* no such file; in the kernel, no stop-bots rules
    Free,       \* nobody has the apply lock
    Site,       \* an apply of a web server's configuration has it
    Scenes      \* what is asked for and what can go wrong

Kinds == {"render", "renderOver", "apply", "confirm"}
Outcomes == {"none", "written", "applied", "awaiting", "kept"}
\* Guard: what the lockout check came to.  "ran" and "noLogins" found no
\* risk; "blocked" is a connected client the rules would drop, "dropAll" a
\* catch-all rule while nobody is known to log in.
Guards == {"off", "ran", "blocked", "noLogins", "dropAll", "unreadable"}
FaultKinds == {"clock", "io", "load", "timer", "busy", "reboot"}

ProcLabels == {"idle", "lock", "write", "decide", "arm", "timer", "load",
               "save", "promote", "record", "ask", "keepLock", "keep",
               "revLock", "revert", "undo", "rollRun", "rollSave",
               "rollSwap", "recordRevert"}
TimerLabels == {"off", "armed", "revLock", "revert", "undo", "done"}

\* Labels at which a front end is inside the lock's scope.
Locked == {"decide", "arm", "timer", "load", "save", "promote", "keep",
           "revert", "undo", "rollRun", "rollSave", "rollSwap"}

Actors == Procs \union Tokens
Script == RuleSets \union {Absent}

ASSUME ConstantsAssumption ==
    /\ Procs \intersect Tokens = {}
    /\ NoToken \notin Actors
    /\ Absent \notin RuleSets
    /\ Free \notin Actors /\ Site \notin Actors /\ Free # Site
    /\ Scenes \subseteq [alone : BOOLEAN, requests : SUBSET Kinds,
                        verdicts : SUBSET Guards, byHand : BOOLEAN,
                        faults : SUBSET FaultKinds, crashAt : SUBSET ProcLabels]

VARIABLES
    scene,        \* which of the Scenes this is
    rules,        \* database: the rules as they are now
    renderedSig,  \* database: the signature last recorded as rendered
    appliedSig,   \* database: the signature last recorded as applied
    next,         \* <applied>.next, what a render writes
    applied,      \* the applied script, what the boot unit loads
    prev,         \* <applied>.prev, kept for a manual rollback
    pending,      \* the token in <applied>.pending
    age,          \* of each token's deadline: "fresh", "late" or "stale"
    kernel,       \* the rules the kernel runs
    lock,         \* who holds the apply lock
    pc,           \* where each front end and each timer is
    job,          \* what a front end has in memory: the script, what its
                  \* run may still do, how far it got, the token it settles
    used,         \* tokens already drawn: new_token never repeats one
    cleared,      \* history: rule sets whose guard passed, or was forced
    endorsed,     \* history: scripts applied unattended or kept
    fate          \* history: how each armed change was settled, and whether
                  \* its record was left behind

db    == <<rules, renderedSig, appliedSig>>
files == <<next, applied, prev>>
timing == <<age, used>>
history == <<cleared, endorsed, fate>>
vars == <<scene, db, files, pending, timing, kernel, lock, pc, job, history>>

Requests == scene.requests   \* the runs asked for
Verdicts == scene.verdicts   \* what the lockout check may come to
ByHand == scene.byHand       \* the operator may run `revert-firewall` by hand
Faults == scene.faults       \* what can go wrong
CrashAt == scene.crashAt     \* the labels a front end can be killed at

Jobs == [script : Script, kind : Kinds, outcome : Outcomes,
         tok : Tokens \union {NoToken}]
NoJob == [script |-> Absent, kind |-> "render", outcome |-> "none",
          tok |-> NoToken]

\* The token a keep or a revert is for; a timer's is its own name.
Tok(a) == IF a \in Tokens THEN a ELSE job[a].tok

Init ==
    /\ scene \in Scenes
    /\ rules \in RuleSets
    /\ applied \in Script
    /\ kernel = applied
    /\ renderedSig = Absent /\ appliedSig = applied
    /\ next = Absent /\ prev = Absent
    /\ pending = NoToken
    /\ age = [t \in Tokens |-> "fresh"]
    /\ lock = Free
    /\ pc = [a \in Actors |-> IF a \in Tokens THEN "off" ELSE "idle"]
    /\ job = [p \in Procs |-> NoJob]
    /\ used = {}
    /\ cleared = {applied} \ {Absent}
    /\ endorsed = cleared
    /\ fate = [t \in Tokens |-> {}]

Goto(a, l) == pc' = [pc EXCEPT ![a] = l]

\* A front end can begin: in some scenes, only one at a time does.
CanBegin(p) ==
    /\ pc[p] = "idle"
    /\ scene.alone => \A q \in Procs : pc[q] = "idle"

\* Where a front end, or a timer, is when it has nothing to do.
Quiescent(a) == IF a \in Tokens THEN "done" ELSE "idle"

\* A function returns: the guard it holds drops the lock.
ReturnTo(a, l) ==
    /\ Goto(a, l)
    /\ lock' = IF lock = a THEN Free ELSE lock

\* The last one does, and what it had in memory is gone.
End(a) ==
    /\ ReturnTo(a, Quiescent(a))
    /\ job' = IF a \in Procs THEN [job EXCEPT ![a] = NoJob] ELSE job

\* `systemctl stop` keeps an armed timer from firing; a detached sleeper,
\* or a timer whose service already runs, is left to find no record.
GotoStopping(a, l, t) ==
    \/ Goto(a, l)
    \/ /\ pc[t] = "armed"
       /\ pc' = [pc EXCEPT ![a] = l, ![t] = "done"]

Fates == {"kept", "undone", "left"}

\* The record is removed; where nobody looks at the result, it may be left.
Discard ==
    \/ pending' = NoToken
    \/ "io" \in Faults /\ pending' = pending

\* revert::waiting: a record whose deadline is 30 s past waits no more.
Waiting == pending # NoToken /\ age[pending] # "stale"

-----------------------------------------------------------------------------
(* Preparing a run: the rules and the lockout guard.                       *)

Passed == {"off", "ran", "noLogins"}

\* Mutant: a log nobody could read counts as a pass.
MayApplyUnread(guard, force) == guard \notin {"blocked", "dropAll"} \/ force

MayWrite(guard, force) == guard # "blocked" \/ force
MayApply(guard, force) == guard \in Passed \/ force

\* The operator, or a scheduled job, changes the rules in the database.
ChangeRules ==
    /\ \E r \in RuleSets \ {rules} : rules' = r
    /\ UNCHANGED <<renderedSig, appliedSig, files, pending, timing, kernel,
                   lock, pc, job, history>>

\* prepare, then the head of execute: the guard's verdict decides what the
\* run may do; a refused run ends here, having changed nothing.  Only a run
\* that will apply takes the lock.  "renderOver" is a `render-firewall
\* --out` that names the applied script, without `--apply`.
Prepare(p) ==
    /\ CanBegin(p)
    /\ \E guard \in Verdicts, force \in BOOLEAN, request \in Requests :
          LET applies == /\ request \in {"apply", "confirm"}
                         /\ MayApply(guard, force)
              refused == request \in {"apply", "confirm"} /\ ~applies
          IN
          /\ MayWrite(guard, force)
          /\ job' = [job EXCEPT ![p] =
                       [script |-> rules, outcome |-> "none", tok |-> NoToken,
                        kind |-> IF refused THEN "render" ELSE request]]
          /\ Goto(p, IF applies THEN "lock" ELSE "write")
          /\ cleared' = IF guard \in {"off", "ran", "noLogins"} \/ force
                        THEN cleared \union {rules} ELSE cleared
    /\ UNCHANGED <<db, files, pending, timing, kernel, lock, endorsed, fate>>

\* applylock::hold, once the flock is free.
TakeLock(a, from, to) ==
    /\ pc[a] = from /\ lock = Free
    /\ lock' = a
    /\ Goto(a, to)
    /\ UNCHANGED <<db, files, pending, timing, kernel, job, history>>

LockForApply(p) == TakeLock(p, "lock", "write")

\* The lock stayed taken for applylock::WAIT: the run still writes its
\* script, without the lock, and then fails to apply it.
Busy(p) ==
    /\ "busy" \in Faults
    /\ pc[p] = "lock" /\ lock # Free
    /\ job' = [job EXCEPT ![p].kind = "render"]
    /\ Goto(p, "write")
    /\ UNCHANGED <<db, files, pending, timing, kernel, lock, history>>

\* write_script of the rendered path: a temporary file renamed over it.
Write(p) ==
    /\ pc[p] = "write"
    /\ IF job[p].kind = "renderOver"
       THEN applied' = job[p].script /\ UNCHANGED next
       ELSE next' = job[p].script /\ UNCHANGED applied
    /\ job' = [job EXCEPT ![p].outcome = "written"]
    /\ Goto(p, IF job[p].kind \in {"apply", "confirm"}
               THEN "decide" ELSE "record")
    /\ UNCHANGED <<db, prev, pending, timing, kernel, lock, history>>

WriteFails(p) ==
    /\ "io" \in Faults
    /\ pc[p] = "write"
    /\ ReturnTo(p, "record")
    /\ UNCHANGED <<db, files, pending, timing, kernel, job, history>>

\* Mutant: nobody looks for a change that waits.
DecideUnchecked(p) ==
    /\ pc[p] = "decide"
    /\ Goto(p, IF job[p].kind = "confirm" THEN "arm" ELSE "load")
    /\ UNCHANGED <<db, files, pending, timing, kernel, lock, job, history>>

\* An unconfirmed change waits: nothing is applied over it.
Decide(p) ==
    /\ pc[p] = "decide"
    /\ IF Waiting THEN ReturnTo(p, "record")
       ELSE /\ Goto(p, IF job[p].kind = "confirm" THEN "arm" ELSE "load")
            /\ UNCHANGED lock
    /\ UNCHANGED <<db, files, pending, timing, kernel, job, history>>

-----------------------------------------------------------------------------
(* Arming, loading and promoting.                                          *)

\* Mutant: the record is written and no timer is started.
ArmNoTimer(p) ==
    /\ pc[p] = "arm"
    /\ \E t \in Tokens \ used :
          /\ pending' = t
          /\ used' = used \union {t}
          /\ job' = [job EXCEPT ![p].tok = t]
    /\ Goto(p, "load")
    /\ UNCHANGED <<db, files, age, kernel, lock, history>>

\* revert::arm: the record is written before the timer is started.
Arm(p) ==
    /\ pc[p] = "arm"
    /\ \E t \in Tokens \ used :
          /\ pending' = t
          /\ used' = used \union {t}
          /\ job' = [job EXCEPT ![p].tok = t]
    /\ Goto(p, "timer")
    /\ UNCHANGED <<db, files, age, kernel, lock, history>>

\* No record could be written, or no token drawn: nothing is applied.
ArmFails(p) ==
    /\ pc[p] = "arm"
    /\ "io" \in Faults \/ used = Tokens
    /\ ReturnTo(p, "record")
    /\ UNCHANGED <<db, files, pending, timing, kernel, job, history>>

StartTimer(p) ==
    /\ pc[p] = "timer"
    /\ pc' = [a \in Actors |-> IF a = p THEN "load"
                               ELSE IF a = job[p].tok THEN "armed" ELSE pc[a]]
    /\ UNCHANGED <<db, files, pending, timing, kernel, lock, job, history>>

\* Neither systemd-run nor a detached child: the record is removed, or not.
NoTimer(p) ==
    /\ "timer" \in Faults
    /\ pc[p] = "timer"
    /\ Discard
    /\ ReturnTo(p, "record")
    /\ UNCHANGED <<db, files, timing, kernel, job, history>>

\* `nft -f` reads the rendered file, not the script in memory.
Load(p) ==
    /\ pc[p] = "load"
    /\ kernel' = next
    /\ IF job[p].kind = "confirm"
       THEN /\ job' = [job EXCEPT ![p].outcome = "awaiting"]
            /\ ReturnTo(p, "record")
            /\ UNCHANGED endorsed
       ELSE /\ job' = [job EXCEPT ![p].outcome = "applied"]
            /\ Goto(p, "save")
            /\ endorsed' = endorsed \union {job[p].script}
            /\ UNCHANGED lock
    /\ UNCHANGED <<db, files, pending, timing, cleared, fate>>

\* The loader failed and changed nothing; a confirmed run is disarmed, though
\* its record may stay.
LoadFails(p) ==
    /\ "load" \in Faults
    /\ pc[p] = "load"
    /\ IF job[p].kind = "confirm"
       THEN /\ IF pending = job[p].tok THEN Discard ELSE UNCHANGED pending
            /\ GotoStopping(p, "record", job[p].tok)
       ELSE Goto(p, "record") /\ UNCHANGED pending
    /\ lock' = IF lock = p THEN Free ELSE lock
    /\ UNCHANGED <<db, files, timing, kernel, job, history>>

\* revert::promote, first write: the script replaced is kept as .prev.
SavePrevious(p) ==
    /\ pc[p] = "save"
    /\ prev' = IF applied = Absent THEN prev ELSE applied
    /\ Goto(p, "promote")
    /\ UNCHANGED <<db, next, applied, pending, timing, kernel, lock, job,
                   history>>

\* Mutant: the rendered file is copied over, whoever wrote it last.
PromoteRendered(p) ==
    /\ pc[p] = "promote"
    /\ applied' = next
    /\ ReturnTo(p, "record")
    /\ UNCHANGED <<db, next, prev, pending, timing, kernel, job, history>>

\* revert::promote, second write: the script in memory is what boots.
Promote(p) ==
    /\ pc[p] = "promote"
    /\ applied' = job[p].script
    /\ ReturnTo(p, "record")
    /\ UNCHANGED <<db, next, prev, pending, timing, kernel, job, history>>

\* AppliedNotSaved, or kept with an error: the kernel has the new rules
\* and a reboot loads the previous ones.
PromoteFails(p) ==
    /\ "io" \in Faults
    /\ pc[p] \in {"save", "promote"}
    /\ ReturnTo(p, "record")
    /\ UNCHANGED <<db, files, pending, timing, kernel, job, history>>

\* Mutant: an apply that still waits is recorded as applied.
RecordAwaiting(p) ==
    /\ pc[p] = "record"
    /\ renderedSig' = IF job[p].outcome \in {"none", "kept"}
                      THEN renderedSig ELSE job[p].script
    /\ appliedSig' = IF job[p].outcome \in {"applied", "awaiting", "kept"}
                     THEN job[p].script ELSE appliedSig
    /\ IF job[p].outcome = "awaiting"
       THEN Goto(p, "ask") /\ UNCHANGED <<lock, job>>
       ELSE End(p)
    /\ UNCHANGED <<rules, files, pending, timing, kernel, history>>

\* firewall::record, and the one write of a kept change.  It runs after
\* the lock is dropped: the database belongs to the caller.
Record(p) ==
    /\ pc[p] = "record"
    /\ renderedSig' = IF job[p].outcome \in {"none", "kept"}
                      THEN renderedSig ELSE job[p].script
    /\ appliedSig' = IF job[p].outcome \in {"applied", "kept"}
                     THEN job[p].script ELSE appliedSig
    /\ IF job[p].outcome = "awaiting"
       THEN Goto(p, "ask") /\ UNCHANGED <<lock, job>>
       ELSE End(p)
    /\ UNCHANGED <<rules, files, pending, timing, kernel, history>>

-----------------------------------------------------------------------------
(* Asking, and settling what waits.                                        *)

\* "Keep these firewall rules?": yes.  The prompt's clock starts after the
\* record's, so a yes can come after the timer has fired.
AnswerKeep(p) ==
    /\ pc[p] = "ask"
    /\ endorsed' = endorsed \union {job[p].script}
    /\ Goto(p, "keepLock")
    /\ UNCHANGED <<db, files, pending, timing, kernel, lock, job, cleared,
                   fate>>

\* No, no answer within the timeout, or the terminal went away.
AnswerRevert(p) ==
    /\ pc[p] = "ask"
    /\ Goto(p, "revLock")
    /\ UNCHANGED <<db, files, pending, timing, kernel, lock, job, history>>

LockForKeep(p) == TakeLock(p, "keepLock", "keep")

\* Mutant: whatever record is there is removed, and the script promoted.
KeepUnchecked(p) ==
    /\ pc[p] = "keep"
    /\ pending' = NoToken
    /\ job' = [job EXCEPT ![p].outcome = "kept"]
    /\ fate' = [fate EXCEPT ![job[p].tok] = @ \union {"kept"}]
    /\ GotoStopping(p, "save", job[p].tok)
    /\ UNCHANGED <<db, files, timing, kernel, lock, cleared, endorsed>>

\* Mutant: the change is kept, and the boot script is not replaced.
KeepNotPromoted(p) ==
    /\ pc[p] = "keep" /\ pending = job[p].tok
    /\ pending' = NoToken
    /\ job' = [job EXCEPT ![p].outcome = "kept"]
    /\ fate' = [fate EXCEPT ![job[p].tok] = @ \union {"kept"}]
    /\ lock' = Free
    /\ GotoStopping(p, "record", job[p].tok)
    /\ UNCHANGED <<db, files, timing, kernel, cleared, endorsed>>

\* revert::keep: only the record with its own token; removing it disarms.
Keep(p) ==
    /\ pc[p] = "keep" /\ pending = job[p].tok
    /\ pending' = NoToken
    /\ job' = [job EXCEPT ![p].outcome = "kept"]
    /\ fate' = [fate EXCEPT ![job[p].tok] = @ \union {"kept"}]
    /\ GotoStopping(p, "save", job[p].tok)
    /\ UNCHANGED <<db, files, timing, kernel, lock, cleared, endorsed>>

\* Too late, or the record could not be removed: the revert stays armed.
KeepNothing(p) ==
    /\ pc[p] = "keep"
    /\ pending # job[p].tok \/ "io" \in Faults
    /\ End(p)
    /\ UNCHANGED <<db, files, pending, timing, kernel, history>>

\* `stop-bots revert-firewall` without a token.
RevertByHand(p) ==
    /\ ByHand
    /\ CanBegin(p)
    /\ Goto(p, "revLock")
    /\ UNCHANGED <<db, files, pending, timing, kernel, lock, job, history>>

\* The timer outside the process starts `revert-firewall --token`.
Fire(t) ==
    /\ pc[t] = "armed" /\ age[t] # "fresh"
    /\ Goto(t, "revLock")
    /\ UNCHANGED <<db, files, pending, timing, kernel, lock, job, history>>

LockForRevert(a) == TakeLock(a, "revLock", "revert")

\* A keep or a revert that waited applylock::WAIT for the lock fails, and
\* nothing tries it again.
GiveUp(a) ==
    /\ "busy" \in Faults
    /\ pc[a] \in {"revLock", "keepLock"} /\ lock # Free
    /\ End(a)
    /\ UNCHANGED <<db, files, pending, timing, kernel, history>>

\* revert::revert with a token whose record is gone, or another's.
RevertNothing(a) ==
    /\ pc[a] = "revert"
    /\ Tok(a) # NoToken /\ pending # Tok(a)
    /\ End(a)
    /\ UNCHANGED <<db, files, pending, timing, kernel, history>>

\* revert::undo, up to the load: the record is removed first, and a removal
\* that fails changes nothing about the rest.  By hand, it takes whatever record
\* is there, a stale one too.
RevertUndo(a) ==
    /\ pc[a] = "revert"
    /\ pending # NoToken /\ Tok(a) \in {NoToken, pending}
    /\ Discard
    /\ fate' = [fate EXCEPT ![pending] =
                  @ \union {"undone"} \union IF pending' = pending THEN {"left"} ELSE {}]
    /\ GotoStopping(a, "undo", pending)
    /\ UNCHANGED <<db, files, timing, kernel, lock, job, cleared, endorsed>>

\* The old applied script is run again or, without one, the live rules
\* are removed.  Only a revert by hand goes on to the database.
Undo(a) ==
    /\ pc[a] = "undo"
    /\ kernel' = applied
    /\ IF Tok(a) = NoToken THEN ReturnTo(a, "recordRevert") /\ UNCHANGED job
       ELSE End(a)
    /\ UNCHANGED <<db, files, pending, timing, history>>

\* "The new rules are still loaded."
UndoFails(a) ==
    /\ "load" \in Faults
    /\ pc[a] = "undo"
    /\ End(a)
    /\ UNCHANGED <<db, files, pending, timing, kernel, history>>

\* revert::roll_back: nothing waits and no token was given.
RollBack(p) ==
    /\ pc[p] = "revert"
    /\ pending = NoToken /\ job[p].tok = NoToken
    /\ IF prev = Absent THEN End(p)
       ELSE Goto(p, "rollRun") /\ UNCHANGED <<lock, job>>
    /\ UNCHANGED <<db, files, pending, timing, kernel, history>>

RollRun(p) ==
    /\ pc[p] = "rollRun"
    /\ kernel' = prev
    /\ job' = [job EXCEPT ![p].script = applied]
    /\ Goto(p, "rollSave")
    /\ UNCHANGED <<db, files, pending, timing, lock, history>>

RollSave(p) ==
    /\ pc[p] = "rollSave"
    /\ applied' = prev
    /\ Goto(p, "rollSwap")
    /\ UNCHANGED <<db, next, prev, pending, timing, kernel, lock, job,
                   history>>

RollSwap(p) ==
    /\ pc[p] = "rollSwap"
    /\ prev' = job[p].script
    /\ ReturnTo(p, "recordRevert")
    /\ UNCHANGED <<db, next, applied, pending, timing, kernel, job, history>>

RollFails(p) ==
    /\ \/ "load" \in Faults /\ pc[p] = "rollRun"
       \/ "io" \in Faults /\ pc[p] \in {"rollSave", "rollSwap"}
    /\ End(p)
    /\ UNCHANGED <<db, files, pending, timing, kernel, history>>

\* Nothing is recorded as applied after a revert by hand.
RecordRevert(p) ==
    /\ pc[p] = "recordRevert"
    /\ appliedSig' = Absent
    /\ End(p)
    /\ UNCHANGED <<rules, renderedSig, files, pending, timing, kernel, history>>

-----------------------------------------------------------------------------
(* Time, other users of the lock, and what stops a process.                *)

Deadline(t) ==
    /\ age[t] = "fresh" /\ (pending = t \/ pc[t] = "armed")
    /\ age' = [age EXCEPT ![t] = "late"]
    /\ UNCHANGED <<db, files, pending, used, kernel, lock, pc, job, history>>

\* STALE_AFTER_SECS past the deadline, by the wall clock.  The timer and the
\* prompt run on the monotonic clock: unless the wall clock jumps (a suspend,
\* a time step), both are over by then.
GoStale(t) ==
    /\ age[t] = "late" /\ pending = t
    /\ \/ "clock" \in Faults
       \/ \A a \in Actors : Tok(a) = t => pc[a] \in {"idle", "off", "done"}
    /\ age' = [age EXCEPT ![t] = "stale"]
    /\ UNCHANGED <<db, files, pending, used, kernel, lock, pc, job, history>>

\* webserver.rs holds the same lock around its own applies.
SiteApply ==
    /\ "busy" \in Faults
    /\ \/ lock = Free /\ lock' = Site
       \/ lock = Site /\ lock' = Free
    /\ UNCHANGED <<db, files, pending, timing, kernel, pc, job, history>>

\* A front end is killed: the kernel gives its flock back.
Crash(p) ==
    /\ pc[p] \in CrashAt \ {"idle"}
    /\ End(p)
    /\ UNCHANGED <<db, files, pending, timing, kernel, history>>

\* The boot unit loads the applied script; transient timers are lost.
Reboot ==
    /\ "reboot" \in Faults
    /\ kernel' = applied
    /\ lock' = Free
    /\ pc' = [a \in Actors |-> IF a \in Procs THEN "idle"
                               ELSE IF pc[a] = "off" THEN "off" ELSE "done"]
    /\ job' = [p \in Procs |-> NoJob]
    /\ UNCHANGED <<db, files, pending, timing, history>>

ProcStep(p) ==
    \/ LockForApply(p) \/ Busy(p) \/ Write(p) \/ WriteFails(p) \/ Decide(p)
    \/ Arm(p) \/ ArmFails(p) \/ StartTimer(p) \/ NoTimer(p)
    \/ Load(p) \/ LoadFails(p)
    \/ SavePrevious(p) \/ Promote(p) \/ PromoteFails(p) \/ Record(p)
    \/ LockForKeep(p) \/ Keep(p) \/ KeepNothing(p)
    \/ RollBack(p) \/ RollRun(p) \/ RollSave(p) \/ RollSwap(p) \/ RollFails(p)
    \/ RecordRevert(p)

RevertStep(a) ==
    \/ LockForRevert(a) \/ GiveUp(a) \/ RevertNothing(a) \/ RevertUndo(a)
    \/ Undo(a) \/ UndoFails(a)

Operator(p) ==
    Prepare(p) \/ RevertByHand(p) \/ AnswerKeep(p) \/ AnswerRevert(p)

Next ==
    /\ UNCHANGED scene
    /\ \/ ChangeRules \/ SiteApply \/ Reboot
       \/ \E p \in Procs : Operator(p) \/ ProcStep(p) \/ Crash(p)
       \/ \E t \in Tokens : Fire(t) \/ Deadline(t) \/ GoStale(t)
       \/ \E a \in Actors : RevertStep(a)

Spec == Init /\ [][Next]_vars

\* A running process makes progress and timers fire; an operator need not
\* answer.  The lock is polled every 50 ms and held for the length of a
\* load, so a waiter that does not give up gets it: strong fairness.
FairSpec ==
    /\ Spec
    /\ \A p \in Procs :
        /\ SF_vars(ProcStep(p) /\ UNCHANGED scene)
        /\ SF_vars(RevertStep(p) /\ UNCHANGED scene)
        /\ WF_vars(AnswerRevert(p) /\ UNCHANGED scene)
    /\ \A t \in Tokens :
        /\ WF_vars(Fire(t) /\ UNCHANGED scene)
        /\ WF_vars(Deadline(t) /\ UNCHANGED scene)
        /\ SF_vars(RevertStep(t) /\ UNCHANGED scene)
-----------------------------------------------------------------------------
(* What must hold.                                                         *)

TypeOK ==
    /\ scene \in Scenes
    /\ rules \in RuleSets
    /\ renderedSig \in Script /\ appliedSig \in Script
    /\ next \in Script /\ applied \in Script /\ prev \in Script
    /\ kernel \in Script
    /\ pending \in Tokens \union {NoToken}
    /\ age \in [Tokens -> {"fresh", "late", "stale"}]
    /\ lock \in Actors \union {Free, Site}
    /\ pc \in [Actors -> ProcLabels \union TimerLabels]
    /\ \A p \in Procs : pc[p] \in ProcLabels
    /\ \A t \in Tokens : pc[t] \in TimerLabels
    /\ job \in [Procs -> Jobs]
    /\ used \subseteq Tokens
    /\ cleared \subseteq RuleSets /\ endorsed \subseteq Script
    /\ fate \in [Tokens -> SUBSET Fates]

\* What loads at boot, and what a rollback goes back to, are rules whose
\* lockout guard passed (or was forced), whatever interleaving, crash or
\* failed write came before: firewall.rs 1374-1375 decides, 1433 and
\* revert.rs keep promote the script that was decided on.
BootScriptCleared == {applied, prev} \subseteq cleared \union {Absent}

\* What loads at boot was applied with nobody watching, or was kept by
\* somebody: an apply that waits, was declined, timed out or was lost in a
\* crash never gets there (firewall.rs 1461-1465).
BootScriptEndorsed == {applied, prev} \subseteq endorsed \union {Absent}

\* A keep and the timer's revert racing at the deadline settle a change
\* exactly once (revert.rs 43-44): it is never both kept and undone, but for the
\* one way in which the code lets that happen.  A revert that cannot remove the
\* record goes on (revert.rs 484), and a yes then finds its change waiting.
SettledOnce ==
    \A t \in Tokens : {"kept", "undone"} \subseteq fate[t] => "left" \in fate[t]

\* While a change waits, no step replaces the script it would go back to, and
\* the kernel leaves the script it was given only for the one that boots, or
\* for the one being loaded by the run that armed it: whoever else wants to
\* load, promote or roll back settles the change first (firewall.rs 1416-1423).
WaitingFreezesRules ==
    [][Waiting =>
         /\ UNCHANGED <<applied, prev>>
         /\ \/ kernel' \in {kernel, applied}
            \/ \E p \in Procs : job[p].tok = pending /\ pc[p] = "load"]_vars

\* Nobody is inside the lock's scope without the lock, so no two actors
\* load, promote or settle at the same time.
LockHeld == \A a \in Actors : pc[a] \in Locked => lock = a

Idle == \A a \in Actors : pc[a] \in {"idle", "off", "done"}

\* Once every run, question and timer is over and nothing waits, the kernel
\* runs the script that boots.
KernelMatchesBoot ==
    Idle /\ pending = NoToken => kernel = applied

\* The Dashboard's "Applied" (firewall.rs 1739-1741, script_state): the
\* rules recorded as applied are the ones the kernel runs.
AppliedIsLoaded ==
    Idle /\ pending = NoToken /\ appliedSig # Absent => kernel = appliedSig

\* "With no token and nothing waiting, this is a manual rollback" (revert.rs
\* 458-461): by hand, a revert undoes only a change that waits.
NothingWaitingRollsBack ==
    [][\A p \in Procs :
         /\ pc[p] = "revert" /\ Tok(p) = NoToken /\ prev # Absent
         /\ pc'[p] = "undo"
         => Waiting]_vars

\* "The boot unit loads the applied script, which only `--apply` replaces"
\* (main.rs 3418-3420): a promotion or a rollback is what changes it.
OnlyApplyReplaces ==
    [][applied' # applied =>
         \E p \in Procs : pc[p] \in {"promote", "rollSave"}]_vars

\* Somebody keeps a change that was undone and whose record was left behind:
\* its script boots, and the kernel stays with what the revert put back.
KeepsUndone ==
    \E p \in Procs :
        /\ pc[p] = "promote" /\ job[p].tok # NoToken
        /\ {"kept", "undone", "left"} \subseteq fate[job[p].tok]
        /\ applied' = job[p].script /\ UNCHANGED kernel

\* The apply path implements BootScript, that step apart: nothing else is made
\* the boot script that is not what the kernel runs at that moment.
Boot == INSTANCE BootScript WITH Rules <- RuleSets, boot <- applied
BootScriptSpec == Boot!Init /\ [][Boot!Next \/ KeepsUndone]_<<kernel, applied>>

\* However the front end ends, a kernel that differs from the boot script
\* is brought back to it, or the boot script catches up.
KernelConverges == Boot!Settles
=============================================================================
