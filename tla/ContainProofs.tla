---------------------------- MODULE ContainProofs ----------------------------
(***************************************************************************)
(* The breaker, for every number of containers, users and operators: with  *)
(* one process at a time answering hits, no hour has more automatic        *)
(* containments than it lets through, and none is made while it is tripped.*)
(***************************************************************************)
EXTENDS Contain, FiniteSetTheorems, TLAPS

\* One process runs the Egress job, and it is not an operator at a shell.
OnePass ==
    /\ \A p, q \in Passes : p = q
    /\ Passes \intersect Hands = {}

Containing == {"open", "cut", "act"}

\* The breaker is not tripped while a pass has targets left to contain, and
\* what an operator does is never automatic.
Untripped ==
    \A p \in Procs :
        /\ p \in Hands => ~job[p].auto /\ pc[p] # "answer"
        /\ (pc[p] \in Containing /\ job[p].auto /\ job[p].todo # {}) => ~tripped

\* The processes' variables are functions, what they remember are records, and
\* the rows are a sequence.
Fields == {"host", "logged", "at", "auto", "action", "todo", "hits", "row", "drop", "list"}

Shape ==
    /\ pc = [p \in Procs |-> pc[p]]
    /\ job = [p \in Procs |-> job[p]]
    /\ \A p \in Procs : DOMAIN job[p] = Fields
    /\ \E S : rows \in Seq(S)

Invariant == Shape /\ Untripped

LEMMA GotoShape ==
    ASSUME Shape, NEW p \in Procs, NEW step, NEW j, Goto(p, step, j)
    PROVE  /\ pc' = [q \in Procs |-> pc'[q]] /\ job' = [q \in Procs |-> job'[q]]
           /\ pc'[p] = step /\ job'[p] = j
           /\ \A q \in Procs \ {p} : pc'[q] = pc[q] /\ job'[q] = job[q]
BY DEF Shape, Goto

LEMMA AppendShape ==
    ASSUME NEW S, NEW s \in Seq(S), NEW r
    PROVE  /\ Append(s, r) \in Seq(S \union {r})
           /\ DOMAIN Append(s, r) \ DOMAIN s = {Len(s) + 1}
           /\ Append(s, r)[Len(s) + 1] = r
<1>1. s \in Seq(S \union {r})
  OBVIOUS
<1>2. QED
  BY <1>1

LEMMA FieldShape ==
    ASSUME NEW S, NEW s \in Seq(S), NEW t, DOMAIN t = DOMAIN s, NEW i, NEW r,
           t = [s EXCEPT ![i] = r]
    PROVE  t \in Seq(S \union {r})
<1>1. DOMAIN s = 1 .. Len(s) /\ Len(s) \in Nat
  OBVIOUS
<1>2. \A k \in 1 .. Len(s) : t[k] \in S \union {r}
  OBVIOUS
<1>3. t \in [1 .. Len(s) -> S \union {r}]
  BY <1>1, <1>2
<1>4. QED
  BY <1>1, <1>3

\* A step of one process keeps the invariant when what it remembers does.
LEMMA GotoKeeps ==
    ASSUME Invariant, NEW p \in Procs, NEW step, NEW j, Goto(p, step, j),
           tripped' => tripped, \E S : rows' \in Seq(S), DOMAIN j = Fields,
           p \in Hands => ~j.auto /\ step # "answer",
           (step \in Containing /\ j.auto /\ j.todo # {}) => ~tripped
    PROVE  Invariant'
<1>1. /\ pc' = [q \in Procs |-> pc'[q]] /\ job' = [q \in Procs |-> job'[q]]
      /\ pc'[p] = step /\ job'[p] = j
      /\ \A q \in Procs \ {p} : pc'[q] = pc[q] /\ job'[q] = job[q]
  BY GotoShape DEF Invariant
<1>2. Shape'
  BY <1>1 DEF Shape, Invariant
<1>3. Untripped'
  <2> SUFFICES ASSUME NEW q \in Procs
               PROVE  /\ q \in Hands => ~job'[q].auto /\ pc'[q] # "answer"
                      /\ (pc'[q] \in Containing /\ job'[q].auto /\ job'[q].todo # {}) => ~tripped'
    BY DEF Untripped
  <2>1. CASE q = p
    BY <1>1, <2>1
  <2>2. CASE q # p
    BY <1>1, <2>2 DEF Invariant, Untripped
  <2>3. QED
    BY <2>1, <2>2
<1>4. QED
  BY <1>2, <1>3 DEF Invariant

LEMMA NoJobShape == DOMAIN NoJob = Fields /\ ~NoJob.auto /\ NoJob.todo = {}
BY DEF NoJob, Fields

\* What a process is about to remember has the fields of a job.
LEMMA JobShape ==
    ASSUME Invariant, NEW p \in Procs
    PROVE  /\ DOMAIN job[p] = Fields
           /\ p \in Hands => ~job[p].auto /\ pc[p] # "answer"
           /\ (pc[p] \in Containing /\ job[p].auto /\ job[p].todo # {}) => ~tripped
           /\ \E S : rows \in Seq(S)
BY DEF Invariant, Shape, Untripped

LEMMA LookKeeps ==
    ASSUME Invariant, OnePass, NEW p \in Procs, Look(p) \/ LookInVain(p)
    PROVE  Invariant'
<1> USE NoJobShape, JobShape
<1>1. p \notin Hands
  BY DEF Look, LookInVain, OnePass
<1>2. tripped' = tripped /\ rows' = rows
  BY DEF Look, LookInVain
<1>3. CASE Look(p)
  <2>1. PICK logged : Goto(p, "answer", [NoJob EXCEPT !.host = box, !.logged = logged,
                                                     !.at = now, !.auto = TRUE])
    BY <1>3 DEF Look
  <2> DEFINE j == [NoJob EXCEPT !.host = box, !.logged = logged, !.at = now, !.auto = TRUE]
  <2>2. DOMAIN j = Fields
    BY DEF Fields
  <2>3. QED
    BY <1>1, <1>2, <2>1, <2>2, GotoKeeps DEF Containing
<1>4. CASE LookInVain(p)
  <2> DEFINE j == [NoJob EXCEPT !.at = now, !.auto = TRUE]
  <2>1. Goto(p, "answer", j)
    BY <1>4 DEF LookInVain
  <2>2. DOMAIN j = Fields
    BY DEF Fields
  <2>3. QED
    BY <1>1, <1>2, <2>1, <2>2, GotoKeeps DEF Containing
<1>5. QED
  BY <1>3, <1>4

\* Steps that end in an idle process.
LEMMA EndKeeps ==
    ASSUME Invariant, NEW p \in Procs,
           NothingToDo(p) \/ AlreadyContained(p) \/ Close(p) \/ Finished(p) \/ Kill(p)
    PROVE  Invariant'
<1>1. Goto(p, "idle", NoJob) /\ tripped' = tripped
  BY DEF NothingToDo, AlreadyContained, Close, Finished, Kill
<1>2. \E S : rows' \in Seq(S)
  <2>1. PICK S : rows \in Seq(S)
    BY JobShape
  <2>2. CASE rows' = rows
    BY <2>1, <2>2
  <2>3. CASE Close(p)
    <3>1. PICK r : rows' = [rows EXCEPT ![job[p].row] = r]
      BY <2>3 DEF Close
    <3>2. QED
      BY <2>1, <3>1, FieldShape
  <2>4. QED
    BY <2>2, <2>3 DEF NothingToDo, AlreadyContained, Finished, Kill
<1>3. QED
  BY <1>1, <1>2, NoJobShape, GotoKeeps DEF Containing

\* A pass decides: what it is to contain is nothing, or the breaker is not
\* tripped; and there is no other pass.
LEMMA RespondKeeps ==
    ASSUME Invariant, OnePass, NEW p \in Procs, Respond(p)
    PROVE  Invariant'
<1>1. PICK answered, todo :
        /\ todo # {} => ~tripped'
        /\ Goto(p, "open", [job[p] EXCEPT !.at = 0, !.logged = {}, !.hits = answered,
                                          !.action = settings.action, !.todo = todo])
  <2> DEFINE hs == {h \in Hits : hits[h] = "new"}
             tr == Automatic /\ Trips(hs, job[p])
             td == IF Automatic /\ ~tripped /\ ~tr THEN Candidates(hs, job[p]) ELSE {}
  <2>1. tripped' = (tripped \/ tr)
    BY DEF Respond
  <2>2. Goto(p, "open", [job[p] EXCEPT !.at = 0, !.logged = {}, !.hits = hs,
                                       !.action = settings.action, !.todo = td])
    BY DEF Respond
  <2>3. td # {} => ~tripped /\ ~tr
    OBVIOUS
  <2>4. td # {} => ~tripped'
    BY <2>1, <2>3, Zenon
  <2> HIDE DEF hs, tr, td
  <2>5. QED
    BY <2>2, <2>4
<1> DEFINE j == [job[p] EXCEPT !.at = 0, !.logged = {}, !.hits = answered,
                               !.action = settings.action, !.todo = todo]
<1>2. DOMAIN j = Fields /\ j.auto = job[p].auto /\ j.todo = todo
  BY JobShape DEF Fields
<1>3. p \in Passes /\ p \notin Hands
  BY JobShape DEF Respond, Procs
<1> HIDE DEF j
<1>4. /\ pc' = [q \in Procs |-> pc'[q]] /\ job' = [q \in Procs |-> job'[q]]
      /\ pc'[p] = "open" /\ job'[p] = j
      /\ \A q \in Procs \ {p} : pc'[q] = pc[q] /\ job'[q] = job[q]
  BY <1>1, GotoShape DEF Invariant, j
<1>5. Shape'
  <2>1. rows' = rows
    BY DEF Respond
  <2>2. QED
    BY <1>2, <1>4, <2>1 DEF Shape, Invariant
<1>6. Untripped'
  <2> SUFFICES ASSUME NEW q \in Procs
               PROVE  /\ q \in Hands => ~job'[q].auto /\ pc'[q] # "answer"
                      /\ (pc'[q] \in Containing /\ job'[q].auto /\ job'[q].todo # {}) => ~tripped'
    BY DEF Untripped
  <2>1. CASE q = p
    BY <1>1, <1>2, <1>3, <1>4, <2>1
  <2>2. CASE q # p
    <3>1. q \in Hands
      BY <1>3, <2>2 DEF OnePass, Procs
    <3>2. QED
      BY <1>4, <2>2, <3>1, JobShape
  <2>3. QED
    BY <2>1, <2>2
<1>7. QED
  BY <1>5, <1>6 DEF Invariant

\* Opening a row, or finding that there is one.
LEMMA OpenRowKeeps ==
    ASSUME Invariant, NEW p \in Procs, NEW t, OpenRow(p, t)
    PROVE  Invariant'
<1>1. tripped' = tripped /\ pc[p] = "open" /\ t \in job[p].todo
  BY DEF OpenRow
<1>2. (job[p].auto /\ job[p].todo # {}) => ~tripped
  BY <1>1, JobShape DEF Containing
<1>3. CASE IsOpen(t)
  <2> DEFINE j == Done(p, t)
  <2>1. job' = [job EXCEPT ![p] = j] /\ pc' = pc /\ rows' = rows
    BY <1>3 DEF OpenRow
  <2>2. DOMAIN j = Fields /\ j.auto = job[p].auto
    BY JobShape DEF Done, Fields
  <2>3. j.todo # {} => job[p].todo # {}
    BY JobShape DEF Done, Fields
  <2> HIDE DEF j
  <2>4. Goto(p, "open", j)
    BY <1>1, <2>1 DEF Goto, Invariant, Shape
  <2>5. QED
    BY <1>1, <1>2, <2>1, <2>2, <2>3, <2>4, JobShape, GotoKeeps
<1>4. CASE ~IsOpen(t)
  <2> DEFINE j == [job[p] EXCEPT !.row = Len(rows) + 1]
  <2>1. PICK r : rows' = Append(rows, r)
    BY <1>4 DEF OpenRow
  <2>2. Goto(p, "cut", j)
    BY <1>4 DEF OpenRow
  <2>3. DOMAIN j = Fields /\ j.auto = job[p].auto /\ j.todo = job[p].todo
    BY JobShape DEF Fields
  <2>4. \E S : rows' \in Seq(S)
    <3>1. PICK S : rows \in Seq(S)
      BY JobShape
    <3>2. QED
      BY <2>1, <3>1, AppendShape
  <2> HIDE DEF j
  <2>5. QED
    BY <1>1, <1>2, <2>2, <2>3, <2>4, JobShape, GotoKeeps
<1>5. QED
  BY <1>3, <1>4

\* Where a process stands while it neither decides nor contains.
LEMMA ElsewhereKeeps ==
    ASSUME Invariant, NEW p \in Procs, NEW step, NEW j, Goto(p, step, j),
           tripped' = tripped, \E S : rows' \in Seq(S), DOMAIN j = Fields,
           step # "answer", j.auto = job[p].auto \/ ~j.auto,
           step \notin Containing
             \/ (pc[p] \in Containing /\ (j.todo # {} => job[p].todo # {}))
             \/ ~j.auto
    PROVE  Invariant'
BY JobShape, GotoKeeps

\* The pass has answered, or cannot.
LEMMA AnswerKeeps ==
    ASSUME Invariant, NEW p \in Procs, Answer(p) \/ LogUnreadable(p)
    PROVE  Invariant'
<1> DEFINE j == [NoJob EXCEPT !.host = job[p].host]
<1>1. Goto(p, "list", j) /\ tripped' = tripped /\ rows' = rows
  BY DEF Answer, LogUnreadable
<1>2. DOMAIN j = Fields /\ ~j.auto
  BY DEF NoJob, Fields
<1> HIDE DEF j
<1>3. QED
  BY <1>1, <1>2, JobShape, ElsewhereKeeps DEF Containing

\* Cutting off and acting on the one that was recorded.
LEMMA ActKeeps ==
    ASSUME Invariant, NEW p \in Procs, Cut(p) \/ ActOn(p)
    PROVE  Invariant'
<1>1. tripped' = tripped /\ rows' = rows
  BY DEF Cut, ActOn
<1>2. CASE Cut(p)
  <2>1. pc[p] = "cut" /\ Goto(p, "act", job[p])
    BY <1>2 DEF Cut
  <2>2. QED
    BY <1>1, <2>1, JobShape, ElsewhereKeeps DEF Containing
<1>3. CASE ActOn(p)
  <2> DEFINE t == rows[job[p].row].target
  <2>1. pc[p] = "act" /\ Goto(p, IF p \in Hands THEN "idle" ELSE "open",
                              IF p \in Hands THEN NoJob ELSE Done(p, t))
    BY <1>3 DEF ActOn
  <2>2. CASE p \in Hands
    <3>1. Goto(p, "idle", NoJob)
      BY <2>1, <2>2
    <3>2. QED
      BY <1>1, <3>1, JobShape, NoJobShape, ElsewhereKeeps
  <2>3. CASE p \notin Hands
    <3> DEFINE j == Done(p, t)
    <3>1. Goto(p, "open", j)
      BY <2>1, <2>3
    <3>2. DOMAIN j = Fields /\ j.auto = job[p].auto
      BY JobShape DEF Done, Fields
    <3>3. j.todo # {} => job[p].todo # {}
      BY JobShape DEF Done, Fields
    <3> HIDE DEF j
    <3>4. QED
      BY <1>1, <2>1, <3>1, <3>2, <3>3, JobShape, ElsewhereKeeps DEF Containing
  <2>4. QED
    BY <2>2, <2>3
<1>4. QED
  BY <1>2, <1>3

\* Letting go, and keeping what is contained.
LEMMA KeepKeeps ==
    ASSUME Invariant, NEW p \in Procs,
           \/ Drop(p) \/ Unpause(p) \/ List(p) \/ KeepKnown(p) \/ KeepContainer(p)
           \/ Move(p) \/ Recut(p) \/ Repause(p)
    PROVE  Invariant'
<1>1. tripped' = tripped
  BY DEF Drop, Unpause, List, KeepKnown, KeepContainer, Move, Recut, Repause, Onward
<1>2. \E S : rows' \in Seq(S)
  <2>1. PICK S : rows \in Seq(S)
    BY JobShape
  <2>2. CASE rows' = rows
    BY <2>1, <2>2
  <2>3. CASE Move(p)
    <3>1. PICK i, r : rows' = [rows EXCEPT ![i] = r]
      BY <2>3 DEF Move
    <3>2. QED
      BY <2>1, <3>1, FieldShape
  <2>4. QED
    BY <2>2, <2>3 DEF Drop, Unpause, List, KeepKnown, KeepContainer, Recut, Repause, Onward
<1>3. \E step \in {"unpause", "move", "close", "keep", "recut", "drop", "repause"} :
        \/ Goto(p, step, job[p])
        \/ \E drop : Goto(p, step, [job[p] EXCEPT !.drop = drop])
        \/ \E list : Goto(p, step, [job[p] EXCEPT !.list = list])
  <2>1. CASE Drop(p)
    BY <2>1 DEF Drop
  <2>2. CASE Unpause(p)
    BY <2>2 DEF Unpause
  <2>3. CASE List(p)
    BY <2>3 DEF List
  <2>4. CASE KeepKnown(p)
    BY <2>4 DEF KeepKnown, Onward
  <2>5. CASE KeepContainer(p)
    BY <2>5 DEF KeepContainer, Onward
  <2>6. CASE Move(p)
    BY <2>6 DEF Move
  <2>7. CASE Recut(p)
    BY <2>7 DEF Recut
  <2>8. CASE Repause(p)
    <3>1. Onward(p)
      BY <2>8 DEF Repause
    <3>2. QED
      BY <3>1 DEF Onward
  <2>9. QED
    BY <2>1, <2>2, <2>3, <2>4, <2>5, <2>6, <2>7, <2>8
<1>4. PICK step, j :
        /\ step \in {"unpause", "move", "close", "keep", "recut", "drop", "repause"}
        /\ Goto(p, step, j) /\ DOMAIN j = Fields /\ j.auto = job[p].auto
  <2>1. PICK step \in {"unpause", "move", "close", "keep", "recut", "drop", "repause"} :
          \/ Goto(p, step, job[p])
          \/ \E drop : Goto(p, step, [job[p] EXCEPT !.drop = drop])
          \/ \E list : Goto(p, step, [job[p] EXCEPT !.list = list])
    BY <1>3
  <2>2. DOMAIN job[p] = Fields
    BY JobShape
  <2>3. CASE Goto(p, step, job[p])
    BY <2>2, <2>3
  <2>4. CASE \E drop : Goto(p, step, [job[p] EXCEPT !.drop = drop])
    <3>0. PICK drop : Goto(p, step, [job[p] EXCEPT !.drop = drop])
      BY <2>4
    <3> DEFINE j == [job[p] EXCEPT !.drop = drop]
    <3>1. Goto(p, step, j) /\ DOMAIN j = Fields /\ j.auto = job[p].auto
      BY <2>2, <3>0 DEF Fields
    <3> HIDE DEF j
    <3>2. QED
      BY <3>1
  <2>5. CASE \E list : Goto(p, step, [job[p] EXCEPT !.list = list])
    <3>0. PICK list : Goto(p, step, [job[p] EXCEPT !.list = list])
      BY <2>5
    <3> DEFINE j == [job[p] EXCEPT !.list = list]
    <3>1. Goto(p, step, j) /\ DOMAIN j = Fields /\ j.auto = job[p].auto
      BY <2>2, <3>0 DEF Fields
    <3> HIDE DEF j
    <3>2. QED
      BY <3>1
  <2>6. QED
    BY <2>1, <2>3, <2>4, <2>5
<1>5. QED
  BY <1>1, <1>2, <1>4, ElsewhereKeeps DEF Containing

\* What an operator begins.
LEMMA HandKeeps ==
    ASSUME Invariant, NEW p \in Procs,
           (\E t, a : ContainByHand(p, t, a)) \/ (\E i \in Open : Release(p, i))
    PROVE  Invariant'
<1>1. tripped' = tripped /\ rows' = rows
  BY DEF ContainByHand, Release
<1>2. CASE \E t, a : ContainByHand(p, t, a)
  <2>1. PICK t, a : Goto(p, "open", [NoJob EXCEPT !.host = box, !.action = a, !.todo = {t}])
    BY <1>2 DEF ContainByHand
  <2> DEFINE j == [NoJob EXCEPT !.host = box, !.action = a, !.todo = {t}]
  <2>2. DOMAIN j = Fields /\ ~j.auto
    BY DEF NoJob, Fields
  <2> HIDE DEF j
  <2>3. QED
    BY <1>1, <2>1, <2>2, JobShape, ElsewhereKeeps DEF j
<1>3. CASE \E i \in Open : Release(p, i)
  <2>1. PICK i, drop : Goto(p, "drop", [NoJob EXCEPT !.row = i, !.drop = drop])
    BY <1>3 DEF Release
  <2> DEFINE j == [NoJob EXCEPT !.row = i, !.drop = drop]
  <2>2. DOMAIN j = Fields /\ ~j.auto
    BY DEF NoJob, Fields
  <2> HIDE DEF j
  <2>3. QED
    BY <1>1, <2>1, <2>2, JobShape, ElsewhereKeeps DEF j
<1>4. QED
  BY <1>2, <1>3

\* The host, the clock and the settings.
LEMMA WorldKeeps ==
    ASSUME Invariant, World
    PROVE  Invariant'
<1>1. CASE \E p \in Procs : Kill(p)
  BY <1>1, EndKeeps
<1>2. CASE Reboot
  <2>1. /\ pc' = [p \in Procs |-> "idle"] /\ job' = [p \in Procs |-> NoJob]
        /\ rows' = rows /\ tripped' = tripped
    BY <1>2 DEF Reboot
  <2>2. QED
    BY <2>1, NoJobShape DEF Invariant, Shape, Untripped, Containing
<1>3. CASE \/ \E c \in Containers : Restart(c) \/ RemoveBox(c)
           \/ \E h \in Hits : Hit(h)
           \/ \E s \in Settings : Set(s)
           \/ Apply \/ Tick \/ ResetBreaker
  <2>1. /\ pc' = pc /\ job' = job /\ rows' = rows /\ (tripped' => tripped)
    BY <1>3 DEF Restart, RemoveBox, Hit, Set, Apply, Tick, ResetBreaker
  <2>2. QED
    BY <2>1 DEF Invariant, Shape, Untripped
<1>4. QED
  BY <1>1, <1>2, <1>3 DEF World

LEMMA InitInvariant == Init => Invariant
BY NoJobShape DEF Init, Invariant, Shape, Untripped, Containing

LEMMA NextInvariant ==
    ASSUME Invariant, OnePass, [Next]_vars
    PROVE  Invariant'
<1>1. CASE World
  BY <1>1, WorldKeeps
<1>2. CASE \E p \in Procs : Going(p)
  <2>1. PICK p \in Procs : Going(p)
    BY <1>2
  <2>2. CASE Look(p)
    BY <2>2, LookKeeps
  <2>3. CASE Respond(p)
    BY <2>3, RespondKeeps
  <2>4. CASE Answer(p)
    BY <2>4, AnswerKeeps
  <2>5. CASE \E t \in Targets : OpenRow(p, t)
    BY <2>5, OpenRowKeeps
  <2>6. CASE Cut(p) \/ ActOn(p)
    BY <2>6, ActKeeps
  <2>7. CASE NothingToDo(p) \/ AlreadyContained(p) \/ Close(p) \/ Finished(p)
    BY <2>7, EndKeeps
  <2>8. CASE \/ Drop(p) \/ Unpause(p) \/ List(p) \/ KeepKnown(p) \/ KeepContainer(p)
             \/ Move(p) \/ Recut(p) \/ Repause(p)
    BY <2>8, KeepKeeps
  <2>9. QED
    BY <2>1, <2>2, <2>3, <2>4, <2>5, <2>6, <2>7, <2>8 DEF Going
<1>3. CASE \E p \in Procs : LookInVain(p) \/ LogUnreadable(p)
  BY <1>3, LookKeeps, AnswerKeeps
<1>4. CASE \E p \in Procs : \/ \E t, a : ContainByHand(p, t, a)
                          \/ \E i \in Open : Release(p, i)
  BY <1>4, HandKeeps
<1>5. CASE UNCHANGED vars
  BY <1>5 DEF vars, Invariant, Shape, Untripped
<1>6. QED
  BY <1>1, <1>2, <1>3, <1>4, <1>5 DEF Next

\* With one pass at a time, nothing is contained automatically while the breaker
\* is tripped (contain::respond), whatever the operators, the containers and the
\* host do in between.
THEOREM TripHolds ==
    ASSUME OnePass
    PROVE  Spec => TrippedMeansNone
<1> DEFINE Quiet == \A i \in DOMAIN rows' \ DOMAIN rows : rows'[i].auto => ~tripped
<1>1. Invariant /\ [Next]_vars => [Quiet]_vars
  <2> SUFFICES ASSUME Invariant, Next PROVE Quiet
    BY DEF Quiet
  <2>1. PICK S : rows \in Seq(S)
    BY DEF Invariant, Shape
  <2>2. CASE \E p \in Procs : \E t \in Targets : OpenRow(p, t)
    <3>1. PICK p \in Procs, t \in Targets : OpenRow(p, t)
      BY <2>2
    <3>2. /\ pc[p] = "open" /\ t \in job[p].todo
      BY <3>1 DEF OpenRow
    <3>3. job[p].auto => ~tripped
      BY <3>2, JobShape DEF Containing
    <3>4. CASE rows' = rows
      BY <3>4
    <3>5. CASE \E r : rows' = Append(rows, r) /\ r.auto = job[p].auto
      BY <2>1, <3>3, <3>5, AppendShape
    <3>6. QED
      BY <3>1, <3>4, <3>5 DEF OpenRow
  <2>3. CASE rows' = rows \/ \E i, r : rows' = [rows EXCEPT ![i] = r]
    BY <2>3
  <2>4. QED
    BY <2>2, <2>3 DEF Next, World, Going, Restart, RemoveBox, Hit, Set, Apply, Reboot, Tick,
       ResetBreaker, Kill, Look, LookInVain, Respond, NothingToDo, LogUnreadable, Answer, Cut,
       ActOn, AlreadyContained, ContainByHand, Release, Drop, Unpause, Close, List, KeepKnown,
       KeepContainer, Move, Recut, Repause, Finished
<1>2. QED
  BY <1>1, InitInvariant, NextInvariant, PTL DEF Spec, TrippedMeansNone, Quiet

-----------------------------------------------------------------------------
(* The breaker's count.                                                    *)

\* Only so many containers and users can be contained.
FewTargets == IsFiniteSet(Containers \union Users)

RowFields == {"target", "open", "auto", "at", "action", "addrs"}

RowsOK ==
    /\ now \in Nat
    /\ \A i \in DOMAIN rows : DOMAIN rows[i] = RowFields /\ rows[i].at \in Nat

\* What a process has still to contain.
Left(p) ==
    IF pc[p] = "open" THEN job[p].todo ELSE job[p].todo \ {rows[job[p].row].target}

\* A pass that contains has room for the rest of it, in every hour that its
\* next row would fall into.
Budgeted(p) ==
    /\ pc[p] = "answer" => job[p].at \in Nat /\ job[p].at <= now
    /\ pc[p] \in Containing /\ job[p].auto /\ job[p].todo # {} =>
        /\ IsFiniteSet(job[p].todo)
        /\ pc[p] # "open" => job[p].row \in DOMAIN rows
        /\ \A t \in Nat : t + Hour >= now =>
            AutomaticSince(t) + Cardinality(Left(p)) <= BreakerMax

BreakerInv == Invariant /\ RowsOK /\ \A p \in Procs : Budgeted(p)

\* No automatic containment is added, and none becomes another's.
Kept ==
    /\ now' \in Nat /\ now' >= now
    /\ DOMAIN rows \subseteq DOMAIN rows'
    /\ \A i \in DOMAIN rows' : DOMAIN rows'[i] = RowFields /\ rows'[i].at \in Nat
    /\ \A i \in DOMAIN rows :
        /\ rows'[i].target = rows[i].target
        /\ rows'[i].auto = rows[i].auto /\ rows'[i].at = rows[i].at
    /\ \A i \in DOMAIN rows' \ DOMAIN rows : ~rows'[i].auto

LEMMA RowsFinite ==
    ASSUME Invariant
    PROVE  IsFiniteSet(DOMAIN rows)
<1>1. PICK S : rows \in Seq(S)
  BY DEF Invariant, Shape
<1>2. DOMAIN rows = 1 .. Len(rows) /\ Len(rows) \in Nat
  BY <1>1
<1> QED
  BY <1>2, FS_Interval

Since(t) == {i \in DOMAIN rows : rows[i].auto /\ rows[i].at >= t}

LEMMA SinceFinite ==
    ASSUME Invariant, NEW t
    PROVE  /\ IsFiniteSet(Since(t)) /\ AutomaticSince(t) = Cardinality(Since(t))
           /\ AutomaticSince(t) \in Nat
<1>1. IsFiniteSet(Since(t))
  BY RowsFinite, FS_Subset DEF Since
<1> QED
  BY <1>1, FS_CardinalityType DEF Since, AutomaticSince

LEMMA SinceLess ==
    ASSUME Invariant, RowsOK, NEW t \in Nat, NEW u \in Nat, u <= t
    PROVE  AutomaticSince(t) <= AutomaticSince(u)
<1>1. Since(t) \subseteq Since(u)
  BY DEF Since, RowsOK
<1> QED
  BY <1>1, SinceFinite, FS_Subset

LEMMA KeptSince ==
    ASSUME Kept
    PROVE  RowsOK' /\ \A t : AutomaticSince(t)' = AutomaticSince(t)
<1>1. RowsOK'
  BY DEF Kept, RowsOK
<1>2. ASSUME NEW t
      PROVE  AutomaticSince(t)' = AutomaticSince(t)
  <2>1. {i \in DOMAIN rows' : rows'[i].auto /\ rows'[i].at >= t}
          = {i \in DOMAIN rows : rows[i].auto /\ rows[i].at >= t}
    BY DEF Kept
  <2> QED
    BY <2>1 DEF AutomaticSince
<1> QED
  BY <1>1, <1>2

LEMMA KeptFields ==
    ASSUME RowsOK, now' = now,
           \/ rows' = rows
           \/ \E i : rows' = [rows EXCEPT ![i].open = FALSE]
           \/ \E i, a : rows' = [rows EXCEPT ![i].addrs = a]
    PROVE  Kept
<1>1. CASE rows' = rows
  BY <1>1 DEF RowsOK, Kept
<1>2. CASE \E i : rows' = [rows EXCEPT ![i].open = FALSE]
  <2>1. PICK i : rows' = [rows EXCEPT ![i].open = FALSE]
    BY <1>2
  <2>2. DOMAIN rows' = DOMAIN rows
    BY <2>1
  <2>3. \A k \in DOMAIN rows : rows'[k] \in {rows[k], [rows[k] EXCEPT !.open = FALSE]}
    BY <2>1
  <2> QED
    BY <2>2, <2>3 DEF RowsOK, Kept, RowFields
<1>3. CASE \E i, a : rows' = [rows EXCEPT ![i].addrs = a]
  <2>1. PICK i, a : rows' = [rows EXCEPT ![i].addrs = a]
    BY <1>3
  <2>2. DOMAIN rows' = DOMAIN rows
    BY <2>1
  <2>3. \A k \in DOMAIN rows : rows'[k] \in {rows[k], [rows[k] EXCEPT !.addrs = a]}
    BY <2>1
  <2> QED
    BY <2>2, <2>3 DEF RowsOK, Kept, RowFields
<1> QED
  BY <1>1, <1>2, <1>3

\* A process that stands still keeps its room.
LEMMA StillBudgeted ==
    ASSUME RowsOK, NEW p, Budgeted(p), Kept, pc'[p] = pc[p], job'[p] = job[p]
    PROVE  Budgeted(p)'
<1>1. \A t : AutomaticSince(t)' = AutomaticSince(t)
  BY KeptSince
<1>2. job[p].row \in DOMAIN rows =>
        job[p].row \in DOMAIN rows' /\ rows'[job[p].row].target = rows[job[p].row].target
  BY DEF Kept
<1>3. /\ now \in Nat /\ now' \in Nat /\ now' >= now /\ Hour \in Nat
  BY ContainAssumption DEF Kept, RowsOK
<1>4. pc[p] = "answer" => job[p].at \in Nat /\ job[p].at <= now'
  BY <1>3 DEF Budgeted
<1>5. ASSUME pc[p] \in Containing, job[p].auto, job[p].todo # {}
      PROVE  /\ IsFiniteSet(job[p].todo)
             /\ pc[p] # "open" => job[p].row \in DOMAIN rows'
             /\ Left(p)' = Left(p)
             /\ \A t \in Nat : t + Hour >= now' =>
                    AutomaticSince(t) + Cardinality(Left(p)) <= BreakerMax
  BY <1>2, <1>3, <1>5 DEF Budgeted, Left
<1> QED
  BY <1>1, <1>4, <1>5 DEF Budgeted

\* One that goes somewhere where it contains nothing automatically needs none.
LEMMA ElsewhereBudgeted ==
    ASSUME BreakerInv, NEW p \in Procs, NEW step, NEW j, Goto(p, step, j), Kept,
           step \notin Containing \/ ~j.auto \/ j.todo = {},
           step = "answer" => j.at = now /\ now' = now
    PROVE  RowsOK' /\ \A q \in Procs : Budgeted(q)'
<1>1. /\ pc'[p] = step /\ job'[p] = j
      /\ \A q \in Procs \ {p} : pc'[q] = pc[q] /\ job'[q] = job[q]
  BY GotoShape DEF BreakerInv, Invariant
<1>2. RowsOK'
  BY KeptSince
<1>3. Budgeted(p)'
  BY <1>1 DEF Budgeted, BreakerInv, RowsOK
<1>4. \A q \in Procs \ {p} : Budgeted(q)'
  BY <1>1, StillBudgeted DEF BreakerInv
<1> QED
  BY <1>2, <1>3, <1>4

\* A pass sees how much of the hour is left.
LEMMA RespondBudgeted ==
    ASSUME BreakerInv, FewTargets, NEW p \in Procs, Respond(p)
    PROVE  RowsOK' /\ \A q \in Procs : Budgeted(q)'
<1> DEFINE hs == {h \in Hits : hits[h] = "new"}
           tr == Automatic /\ Trips(hs, job[p])
           td == IF Automatic /\ ~tripped /\ ~tr THEN Candidates(hs, job[p]) ELSE {}
           j  == [job[p] EXCEPT !.at = 0, !.logged = {}, !.hits = hs,
                                !.action = settings.action, !.todo = td]
           since == IF job[p].at > Hour THEN job[p].at - Hour ELSE 0
<1>1. Goto(p, "open", j) /\ rows' = rows /\ now' = now /\ pc[p] = "answer"
  BY DEF Respond
<1>2. job[p].at \in Nat /\ job[p].at <= now /\ now \in Nat
      /\ Hour \in Nat /\ BreakerMax \in Nat
  BY <1>1, ContainAssumption DEF BreakerInv, Budgeted, RowsOK
<1>3. j.todo = td
  BY JobShape DEF Fields, BreakerInv
<1>4. IsFiniteSet(td)
  <2>1. td \subseteq Containers \union Users
    BY DEF Candidates
  <2> QED
    BY <2>1, FS_Subset DEF FewTargets
<1>5. td # {} => AutomaticSince(since) + Cardinality(td) <= BreakerMax
  <2> SUFFICES ASSUME td # {}
               PROVE  AutomaticSince(since) + Cardinality(td) <= BreakerMax
    OBVIOUS
  <2>1. td = Candidates(hs, job[p]) /\ ~Trips(hs, job[p])
    OBVIOUS
  <2>2. ~(AutomaticSince(since) + Cardinality(Candidates(hs, job[p])) > BreakerMax)
    BY <2>1 DEF Trips
  <2>3. AutomaticSince(since) \in Nat /\ Cardinality(td) \in Nat
    BY <1>4, SinceFinite, FS_CardinalityType DEF BreakerInv
  <2> HIDE DEF td, hs, since
  <2> QED
    BY <1>2, <2>1, <2>2, <2>3
<1> HIDE DEF td, hs, tr, j
<1>6. /\ pc'[p] = "open" /\ job'[p] = j
      /\ \A q \in Procs \ {p} : pc'[q] = pc[q] /\ job'[q] = job[q]
  BY <1>1, GotoShape DEF BreakerInv, Invariant
<1>7. Kept
  BY <1>1, KeptFields DEF BreakerInv
<1>8. Budgeted(p)'
  <2>1. \A t : AutomaticSince(t)' = AutomaticSince(t)
    BY <1>7, KeptSince
  <2>2. ASSUME td # {}, NEW t \in Nat, t + Hour >= now
        PROVE  AutomaticSince(t) + Cardinality(td) <= BreakerMax
    <3>1. since \in Nat /\ since <= t
      BY <1>2, <2>2
    <3> HIDE DEF since
    <3>2. AutomaticSince(t) <= AutomaticSince(since)
      BY <3>1, SinceLess DEF BreakerInv
    <3>3. AutomaticSince(t) \in Nat /\ AutomaticSince(since) \in Nat /\ Cardinality(td) \in Nat
      BY <1>4, SinceFinite, FS_CardinalityType DEF BreakerInv
    <3> QED
      BY <1>2, <1>5, <2>2, <3>2, <3>3
  <2>3. Left(p)' = td
    BY <1>3, <1>6 DEF Left
  <2> QED
    BY <1>1, <1>3, <1>4, <1>6, <2>1, <2>2, <2>3 DEF Budgeted
<1>9. \A q \in Procs \ {p} : Budgeted(q)'
  BY <1>6, <1>7, StillBudgeted DEF BreakerInv
<1> QED
  BY <1>7, <1>8, <1>9, KeptSince

\* What a row that is opened looks like.
LEMMA OpenedRow ==
    ASSUME BreakerInv, NEW p \in Procs, NEW t, OpenRow(p, t), ~IsOpen(t)
    PROVE  LET n == Len(rows) + 1 IN
           /\ Goto(p, "cut", [job[p] EXCEPT !.row = n])
           /\ DOMAIN rows' = DOMAIN rows \union {n} /\ n \notin DOMAIN rows
           /\ \A i \in DOMAIN rows : rows'[i] = rows[i]
           /\ DOMAIN rows'[n] = RowFields /\ rows'[n].target = t
           /\ rows'[n].auto = job[p].auto /\ rows'[n].at = now
<1>1. PICK S : rows \in Seq(S)
  BY DEF BreakerInv, Invariant, Shape
<1>2. PICK action, addrs : rows' = Append(rows,
          [target |-> t, open |-> TRUE, auto |-> job[p].auto, at |-> now,
           action |-> action, addrs |-> addrs])
  BY DEF OpenRow
<1> DEFINE r == [target |-> t, open |-> TRUE, auto |-> job[p].auto, at |-> now,
                 action |-> action, addrs |-> addrs]
<1>3. DOMAIN r = RowFields /\ r.target = t /\ r.auto = job[p].auto /\ r.at = now
  BY DEF RowFields
<1> HIDE DEF r
<1>4. /\ DOMAIN rows = 1 .. Len(rows) /\ Len(rows) \in Nat
      /\ DOMAIN rows' = 1 .. Len(rows) + 1 /\ rows'[Len(rows) + 1] = r
      /\ \A i \in DOMAIN rows : rows'[i] = rows[i]
  BY <1>1, <1>2 DEF r
<1>5. DOMAIN rows' = DOMAIN rows \union {Len(rows) + 1} /\ Len(rows) + 1 \notin DOMAIN rows
  BY <1>4
<1>6. Goto(p, "cut", [job[p] EXCEPT !.row = Len(rows) + 1])
  BY DEF OpenRow
<1> QED
  BY <1>3, <1>4, <1>5, <1>6

\* A row takes one of the room there is, and of what is left to contain.
LEMMA OpenRowBudgeted ==
    ASSUME BreakerInv, OnePass, NEW p \in Procs, NEW t, OpenRow(p, t)
    PROVE  RowsOK' /\ \A q \in Procs : Budgeted(q)'
<1>1. pc[p] = "open" /\ t \in job[p].todo /\ now' = now
  BY DEF OpenRow
<1>2. CASE IsOpen(t)
  <2> DEFINE j == Done(p, t)
  <2>1. job' = [job EXCEPT ![p] = j] /\ pc' = pc /\ rows' = rows
    BY <1>2 DEF OpenRow
  <2>2. j.auto = job[p].auto /\ j.todo = job[p].todo \ {t}
    BY JobShape DEF Done, Fields, BreakerInv
  <2> HIDE DEF j
  <2>3. Goto(p, "open", j)
    BY <1>1, <2>1 DEF Goto, BreakerInv, Invariant, Shape
  <2>4. /\ pc'[p] = "open" /\ job'[p] = j
        /\ \A q \in Procs \ {p} : pc'[q] = pc[q] /\ job'[q] = job[q]
    BY <2>3, GotoShape DEF BreakerInv, Invariant
  <2>5. Kept
    BY <1>1, <2>1, KeptFields DEF BreakerInv
  <2>6. Budgeted(p)'
    <3> SUFFICES ASSUME job[p].auto
                 PROVE  /\ IsFiniteSet(j.todo)
                        /\ \A u \in Nat : u + Hour >= now =>
                            AutomaticSince(u) + Cardinality(j.todo) <= BreakerMax
      BY <1>1, <2>2, <2>4, <2>5, KeptSince DEF Budgeted, Left
    <3>1. /\ IsFiniteSet(job[p].todo)
          /\ \A u \in Nat : u + Hour >= now =>
               AutomaticSince(u) + Cardinality(job[p].todo) <= BreakerMax
      BY <1>1 DEF BreakerInv, Budgeted, Containing, Left
    <3>2. /\ IsFiniteSet(j.todo) /\ Cardinality(j.todo) <= Cardinality(job[p].todo)
          /\ Cardinality(j.todo) \in Nat /\ Cardinality(job[p].todo) \in Nat
      BY <2>2, <3>1, FS_Subset, FS_CardinalityType
    <3>3. \A u : AutomaticSince(u) \in Nat
      BY SinceFinite DEF BreakerInv
    <3> QED
      BY <3>1, <3>2, <3>3, ContainAssumption
  <2>7. \A q \in Procs \ {p} : Budgeted(q)'
    BY <2>4, <2>5, StillBudgeted DEF BreakerInv
  <2> QED
    BY <2>5, <2>6, <2>7, KeptSince
<1>3. CASE ~IsOpen(t)
  <2> DEFINE n == Len(rows) + 1
             j == [job[p] EXCEPT !.row = n]
  <2>1. /\ Goto(p, "cut", j)
        /\ DOMAIN rows' = DOMAIN rows \union {n} /\ n \notin DOMAIN rows
        /\ \A i \in DOMAIN rows : rows'[i] = rows[i]
        /\ DOMAIN rows'[n] = RowFields /\ rows'[n].target = t
        /\ rows'[n].auto = job[p].auto /\ rows'[n].at = now
    BY <1>3, OpenedRow
  <2>2. j.auto = job[p].auto /\ j.todo = job[p].todo /\ j.row = n
    BY JobShape DEF Fields, BreakerInv
  <2> HIDE DEF n, j
  <2>3. CASE ~job[p].auto
    <3>1. Kept
      BY <1>1, <2>1, <2>3 DEF Kept, BreakerInv, RowsOK
    <3> QED
      BY <2>1, <2>2, <2>3, <3>1, ElsewhereBudgeted DEF Containing
  <2>4. CASE job[p].auto
    <3>1. RowsOK'
      BY <1>1, <2>1 DEF RowsOK, BreakerInv
    <3>2. /\ pc'[p] = "cut" /\ job'[p] = j
          /\ \A q \in Procs \ {p} : pc'[q] = pc[q] /\ job'[q] = job[q]
      BY <2>1, GotoShape DEF BreakerInv, Invariant
    <3>3. /\ IsFiniteSet(job[p].todo)
          /\ \A u \in Nat : u + Hour >= now =>
               AutomaticSince(u) + Cardinality(job[p].todo) <= BreakerMax
      BY <1>1, <2>4 DEF BreakerInv, Budgeted, Containing, Left
    <3>4. Left(p)' = job[p].todo \ {t}
      BY <2>1, <2>2, <3>2 DEF Left
    <3>5. /\ Cardinality(Left(p)') = Cardinality(job[p].todo) - 1
          /\ Cardinality(job[p].todo) \in Nat
      BY <1>1, <3>3, <3>4, FS_RemoveElement, FS_CardinalityType
    <3>6. ASSUME NEW u \in Nat, u + Hour >= now
          PROVE  AutomaticSince(u)' + Cardinality(Left(p)') <= BreakerMax
      <4>1. Since(u)' \subseteq Since(u) \union {n}
        BY <2>1 DEF Since
      <4>2. /\ IsFiniteSet(Since(u)) /\ AutomaticSince(u) = Cardinality(Since(u))
            /\ AutomaticSince(u) \in Nat
        BY SinceFinite DEF BreakerInv
      <4>3. /\ IsFiniteSet(Since(u) \union {n})
            /\ Cardinality(Since(u) \union {n}) \in {AutomaticSince(u), AutomaticSince(u) + 1}
        BY <4>2, FS_AddElement
      <4>4. /\ Cardinality(Since(u)') <= Cardinality(Since(u) \union {n})
            /\ Cardinality(Since(u)') \in Nat
        BY <4>1, <4>3, FS_Subset, FS_CardinalityType
      <4>5. AutomaticSince(u)' = Cardinality(Since(u)')
        BY DEF AutomaticSince, Since
      <4>6. AutomaticSince(u)' <= AutomaticSince(u) + 1 /\ AutomaticSince(u)' \in Nat
        BY <4>2, <4>3, <4>4, <4>5
      <4> QED
        BY <3>3, <3>5, <3>6, <4>2, <4>6, ContainAssumption
    <3>7. Budgeted(p)'
      BY <1>1, <2>1, <2>2, <3>2, <3>3, <3>6 DEF Budgeted
    <3>8. ASSUME NEW q \in Procs \ {p}
          PROVE  Budgeted(q)'
      <4>1. p \notin Hands /\ q \in Hands
        BY <2>4, JobShape DEF BreakerInv, OnePass, Procs
      <4>2. ~job'[q].auto /\ pc'[q] # "answer"
        BY <3>2, <4>1, JobShape DEF BreakerInv
      <4> QED
        BY <4>2 DEF Budgeted
    <3> QED
      BY <3>1, <3>7, <3>8
  <2> QED
    BY <2>3, <2>4
<1> QED
  BY <1>2, <1>3

\* Cutting off and acting on the one that was recorded.
LEMMA ActBudgeted ==
    ASSUME BreakerInv, NEW p \in Procs, Cut(p) \/ ActOn(p)
    PROVE  RowsOK' /\ \A q \in Procs : Budgeted(q)'
<1>1. rows' = rows /\ now' = now
  BY DEF Cut, ActOn
<1>2. Kept
  BY <1>1, KeptFields DEF BreakerInv
<1>3. PICK step, j :
        /\ Goto(p, step, j)
        /\ \/ pc[p] = "cut" /\ step = "act" /\ j = job[p]
           \/ step = "idle"
           \/ pc[p] = "act" /\ step = "open" /\ j = Done(p, rows[job[p].row].target)
  <2>1. CASE Cut(p)
    BY <2>1 DEF Cut
  <2>2. CASE ActOn(p) /\ p \in Hands
    BY <2>2 DEF ActOn
  <2>3. CASE ActOn(p) /\ p \notin Hands
    BY <2>3 DEF ActOn
  <2> QED
    BY <2>1, <2>2, <2>3
<1>4. /\ pc'[p] = step /\ job'[p] = j
      /\ \A q \in Procs \ {p} : pc'[q] = pc[q] /\ job'[q] = job[q]
  BY <1>3, GotoShape DEF BreakerInv, Invariant
<1>5. CASE step = "idle"
  BY <1>2, <1>3, <1>5, ElsewhereBudgeted DEF Containing
<1>6. CASE step # "idle"
  <2>1. /\ step # "answer" /\ j.auto = job[p].auto /\ j.todo \subseteq job[p].todo
        /\ Left(p)' = Left(p)
    <3>1. LET d == Done(p, rows[job[p].row].target) IN
          /\ d.auto = job[p].auto
          /\ d.todo = job[p].todo \ {rows[job[p].row].target}
      BY JobShape DEF Done, Fields, BreakerInv
    <3> QED
      BY <1>1, <1>3, <1>4, <1>6, <3>1 DEF Left
  <2>2. \A u : AutomaticSince(u)' = AutomaticSince(u)
    BY <1>2, KeptSince
  <2>3. ASSUME job[p].auto, j.todo # {}
        PROVE  /\ IsFiniteSet(j.todo)
               /\ job[p].row \in DOMAIN rows
               /\ \A u \in Nat : u + Hour >= now =>
                    AutomaticSince(u) + Cardinality(Left(p)) <= BreakerMax
    <3>1. /\ IsFiniteSet(job[p].todo) /\ job[p].row \in DOMAIN rows
          /\ \A u \in Nat : u + Hour >= now =>
                    AutomaticSince(u) + Cardinality(Left(p)) <= BreakerMax
      BY <1>3, <1>6, <2>1, <2>3 DEF BreakerInv, Budgeted, Containing
    <3> QED
      BY <2>1, <3>1, FS_Subset
  <2>4. step # "open" => j.row = job[p].row
    BY <1>3, <1>6
  <2>5. Budgeted(p)'
    BY <1>1, <1>4, <2>1, <2>2, <2>3, <2>4 DEF Budgeted
  <2>6. \A q \in Procs \ {p} : Budgeted(q)'
    BY <1>2, <1>4, StillBudgeted DEF BreakerInv
  <2> QED
    BY <1>2, <2>5, <2>6, KeptSince
<1> QED
  BY <1>5, <1>6

\* Steps that contain nothing.
LEMMA OtherBudgeted ==
    ASSUME BreakerInv, NEW p \in Procs,
           \/ Look(p) \/ LookInVain(p) \/ NothingToDo(p) \/ LogUnreadable(p) \/ Answer(p)
           \/ AlreadyContained(p) \/ Drop(p) \/ Unpause(p) \/ Close(p) \/ List(p)
           \/ KeepKnown(p) \/ KeepContainer(p) \/ Move(p) \/ Recut(p) \/ Repause(p)
           \/ Finished(p) \/ Kill(p)
           \/ (\E t, a : ContainByHand(p, t, a)) \/ (\E i \in Open : Release(p, i))
    PROVE  RowsOK' /\ \A q \in Procs : Budgeted(q)'
<1>1. now' = now /\ \/ rows' = rows
                    \/ \E i : rows' = [rows EXCEPT ![i].open = FALSE]
                    \/ \E i, a : rows' = [rows EXCEPT ![i].addrs = a]
  BY DEF Look, LookInVain, NothingToDo, LogUnreadable, Answer, AlreadyContained, Drop,
     Unpause, Close, List, KeepKnown, KeepContainer, Move, Recut, Repause, Finished, Kill,
     ContainByHand, Release
<1>2. Kept
  BY <1>1, KeptFields DEF BreakerInv
<1>3. ASSUME NEW step, NEW j, Goto(p, step, j),
             step \notin Containing \/ ~j.auto,
             step = "answer" => j.at = now
      PROVE  RowsOK' /\ \A q \in Procs : Budgeted(q)'
  BY <1>1, <1>2, <1>3, ElsewhereBudgeted
<1>4. ASSUME NEW step \in {"idle", "list", "unpause", "move", "close", "keep", "recut",
                           "drop", "repause"},
             NEW j, Goto(p, step, j)
      PROVE  RowsOK' /\ \A q \in Procs : Budgeted(q)'
  BY <1>3, <1>4 DEF Containing
<1>5. CASE Look(p)
  <2>1. PICK logged : Goto(p, "answer", [NoJob EXCEPT !.host = box, !.logged = logged,
                                                     !.at = now, !.auto = TRUE])
    BY <1>5 DEF Look
  <2> DEFINE j == [NoJob EXCEPT !.host = box, !.logged = logged, !.at = now, !.auto = TRUE]
  <2>2. j.at = now
    BY DEF NoJob
  <2> QED
    BY <1>3, <2>1, <2>2 DEF Containing
<1>6. CASE LookInVain(p)
  <2> DEFINE j == [NoJob EXCEPT !.at = now, !.auto = TRUE]
  <2>1. Goto(p, "answer", j)
    BY <1>6 DEF LookInVain
  <2>2. j.at = now
    BY DEF NoJob
  <2> QED
    BY <1>3, <2>1, <2>2 DEF Containing
<1>7. CASE \E t, a : ContainByHand(p, t, a)
  <2>1. PICK t, a : Goto(p, "open", [NoJob EXCEPT !.host = box, !.action = a, !.todo = {t}])
    BY <1>7 DEF ContainByHand
  <2> DEFINE j == [NoJob EXCEPT !.host = box, !.action = a, !.todo = {t}]
  <2>2. ~j.auto
    BY DEF NoJob
  <2> QED
    BY <1>3, <2>1, <2>2
<1>8. CASE \/ NothingToDo(p) \/ AlreadyContained(p) \/ Close(p) \/ Finished(p) \/ Kill(p)
  BY <1>4, <1>8 DEF NothingToDo, AlreadyContained, Close, Finished, Kill
<1>9. CASE LogUnreadable(p) \/ Answer(p)
  BY <1>4, <1>9 DEF LogUnreadable, Answer
<1>10. CASE List(p)
  BY <1>4, <1>10 DEF List
<1>11. CASE Drop(p)
  <2>1. Goto(p, IF p \in Hands THEN "unpause" ELSE "move", [job[p] EXCEPT !.drop = {}])
    BY <1>11 DEF Drop
  <2> QED
    BY <1>4, <2>1
<1>12. CASE Unpause(p) \/ Move(p) \/ Recut(p)
  BY <1>4, <1>12 DEF Unpause, Move, Recut
<1>13. CASE KeepKnown(p) \/ Repause(p)
  <2>1. Onward(p)
    BY <1>13 DEF KeepKnown, Repause
  <2> QED
    BY <1>4, <2>1 DEF Onward
<1>14. CASE KeepContainer(p)
  <2>1. \E step \in {"keep", "recut", "drop"} : \E j : Goto(p, step, j)
    BY <1>14 DEF KeepContainer, Onward
  <2> QED
    BY <1>4, <2>1
<1>15. CASE \E i \in Open : Release(p, i)
  BY <1>4, <1>15 DEF Release
<1> QED
  BY <1>5, <1>6, <1>7, <1>8, <1>9, <1>10, <1>11, <1>12, <1>13, <1>14, <1>15

LEMMA WorldBudgeted ==
    ASSUME BreakerInv, World
    PROVE  RowsOK' /\ \A q \in Procs : Budgeted(q)'
<1>1. CASE \E p \in Procs : Kill(p)
  BY <1>1, OtherBudgeted
<1>2. CASE Reboot
  <2>1. /\ pc' = [p \in Procs |-> "idle"] /\ rows' = rows /\ now' = now
    BY <1>2 DEF Reboot
  <2> QED
    BY <2>1 DEF BreakerInv, RowsOK, Budgeted, Containing
<1>3. CASE \/ \E c \in Containers : Restart(c) \/ RemoveBox(c)
           \/ \E h \in Hits : Hit(h)
           \/ \E s \in Settings : Set(s)
           \/ Apply \/ Tick \/ ResetBreaker
  <2>1. pc' = pc /\ job' = job /\ rows' = rows /\ now' \in {now, now + 1}
    BY <1>3 DEF Restart, RemoveBox, Hit, Set, Apply, Tick, ResetBreaker
  <2>2. Kept
    BY <2>1 DEF Kept, BreakerInv, RowsOK
  <2> QED
    BY <2>1, <2>2, KeptSince, StillBudgeted DEF BreakerInv
<1> QED
  BY <1>1, <1>2, <1>3 DEF World

LEMMA NextBreaker ==
    ASSUME BreakerInv, OnePass, FewTargets, [Next]_vars
    PROVE  BreakerInv'
<1> SUFFICES RowsOK' /\ \A q \in Procs : Budgeted(q)'
  BY NextInvariant DEF BreakerInv
<1>1. CASE UNCHANGED vars
  <2>1. Kept /\ pc' = pc /\ job' = job
    BY <1>1, KeptFields DEF vars, BreakerInv
  <2> QED
    BY <2>1, KeptSince, StillBudgeted DEF BreakerInv
<1>2. CASE World
  BY <1>2, WorldBudgeted
<1>3. ASSUME NEW p \in Procs, Going(p)
      PROVE  RowsOK' /\ \A q \in Procs : Budgeted(q)'
  BY <1>3, RespondBudgeted, OpenRowBudgeted, ActBudgeted, OtherBudgeted DEF Going
<1>4. ASSUME NEW p \in Procs,
             \/ LookInVain(p) \/ LogUnreadable(p)
             \/ \E t, a : ContainByHand(p, t, a)
             \/ \E i \in Open : Release(p, i)
      PROVE  RowsOK' /\ \A q \in Procs : Budgeted(q)'
  BY <1>4, OtherBudgeted
<1> QED
  BY <1>1, <1>2, <1>3, <1>4 DEF Next

-----------------------------------------------------------------------------

Within(t) == {i \in DOMAIN rows : rows[i].auto /\ rows[i].at \in t .. t + Hour}

LEMMA WithinHour == BreakerHolds <=> \A t \in 0 .. MaxNow : Cardinality(Within(t)) <= BreakerMax
BY DEF BreakerHolds, Within

\* A row is opened by a pass that has room for it, or is not automatic.
LEMMA OpenRowWithin ==
    ASSUME BreakerInv, BreakerHolds, NEW p \in Procs, NEW t, OpenRow(p, t)
    PROVE  BreakerHolds'
<1>1. pc[p] = "open" /\ t \in job[p].todo
  BY DEF OpenRow
<1>2. CASE IsOpen(t)
  <2>1. rows' = rows
    BY <1>2 DEF OpenRow
  <2> QED
    BY <2>1 DEF BreakerHolds
<1>3. CASE ~IsOpen(t)
  <2> DEFINE n == Len(rows) + 1
  <2>1. /\ DOMAIN rows' = DOMAIN rows \union {n} /\ n \notin DOMAIN rows
        /\ \A i \in DOMAIN rows : rows'[i] = rows[i]
        /\ rows'[n].auto = job[p].auto /\ rows'[n].at = now
    BY <1>3, OpenedRow
  <2> HIDE DEF n
  <2> SUFFICES ASSUME NEW u \in 0 .. MaxNow
               PROVE  Cardinality(Within(u)') <= BreakerMax
    BY DEF BreakerHolds, Within
  <2>2. u \in Nat /\ Hour \in Nat /\ BreakerMax \in Nat /\ now \in Nat
    BY ContainAssumption DEF BreakerInv, RowsOK
  <2>3. CASE ~(job[p].auto /\ now \in u .. u + Hour)
    <3>1. Within(u)' = Within(u)
      BY <2>1, <2>3 DEF Within
    <3> QED
      BY <3>1, WithinHour
  <2>4. CASE job[p].auto /\ now \in u .. u + Hour
    <3>0. u + Hour >= now
      BY <2>2, <2>4
    <3>1. /\ IsFiniteSet(job[p].todo)
          /\ AutomaticSince(u) + Cardinality(job[p].todo) <= BreakerMax
      BY <1>1, <2>2, <2>4, <3>0 DEF BreakerInv, Budgeted, Containing, Left
    <3>2. Cardinality(job[p].todo) \in Nat /\ Cardinality(job[p].todo) # 0
      BY <1>1, <3>1, FS_CardinalityType, FS_EmptySet
    <3>3. /\ IsFiniteSet(Since(u)) /\ AutomaticSince(u) = Cardinality(Since(u))
          /\ AutomaticSince(u) \in Nat
      BY SinceFinite DEF BreakerInv
    <3>4. Within(u)' \subseteq Since(u) \union {n}
      BY <2>1, <2>2 DEF Within, Since, BreakerInv, RowsOK
    <3>5. /\ IsFiniteSet(Since(u) \union {n})
          /\ Cardinality(Since(u) \union {n}) \in {AutomaticSince(u), AutomaticSince(u) + 1}
      BY <3>3, FS_AddElement
    <3>6. /\ Cardinality(Within(u)') <= Cardinality(Since(u) \union {n})
          /\ Cardinality(Within(u)') \in Nat
      BY <3>4, <3>5, FS_Subset, FS_CardinalityType
    <3> QED
      BY <2>2, <3>1, <3>2, <3>3, <3>5, <3>6
  <2> QED
    BY <2>3, <2>4
<1> QED
  BY <1>2, <1>3

LEMMA NextWithin ==
    ASSUME BreakerInv, BreakerHolds, [Next]_vars
    PROVE  BreakerHolds'
<1>1. CASE \E p \in Procs, t \in Targets : OpenRow(p, t)
  BY <1>1, OpenRowWithin
<1>2. CASE /\ ~\E p \in Procs, t \in Targets : OpenRow(p, t)
  <2>1. \/ rows' = rows
        \/ \E i : rows' = [rows EXCEPT ![i].open = FALSE]
        \/ \E i, a : rows' = [rows EXCEPT ![i].addrs = a]
    <3>1. CASE UNCHANGED vars
      BY <3>1 DEF vars
    <3>2. CASE World
      BY <3>2 DEF World, Restart, RemoveBox, Hit, Set, Kill, Apply, Reboot, Tick, ResetBreaker
    <3>3. ASSUME NEW p \in Procs, Going(p)
          PROVE  \/ rows' = rows
                 \/ \E i : rows' = [rows EXCEPT ![i].open = FALSE]
                 \/ \E i, a : rows' = [rows EXCEPT ![i].addrs = a]
      BY <1>2, <3>3 DEF Going, Look, Respond, NothingToDo, Answer, Cut, ActOn,
         AlreadyContained, Drop, Unpause, Close, List, KeepKnown, KeepContainer, Move,
         Recut, Repause, Finished
    <3>4. CASE \E p \in Procs :
                \/ LookInVain(p) \/ LogUnreadable(p)
                \/ \E t, a : ContainByHand(p, t, a)
                \/ \E i \in Open : Release(p, i)
      BY <3>4 DEF LookInVain, LogUnreadable, ContainByHand, Release
    <3> QED
      BY <3>1, <3>2, <3>3, <3>4 DEF Next
  <2>2. /\ DOMAIN rows' = DOMAIN rows
        /\ \A i \in DOMAIN rows : rows'[i].auto = rows[i].auto /\ rows'[i].at = rows[i].at
    <3>1. CASE rows' = rows
      BY <3>1
    <3>2. CASE \E i : rows' = [rows EXCEPT ![i].open = FALSE]
      <4>1. PICK i : rows' = [rows EXCEPT ![i].open = FALSE]
        BY <3>2
      <4>2. \A k \in DOMAIN rows : rows'[k] \in {rows[k], [rows[k] EXCEPT !.open = FALSE]}
        BY <4>1
      <4> QED
        BY <4>1, <4>2 DEF BreakerInv, RowsOK, RowFields
    <3>3. CASE \E i, a : rows' = [rows EXCEPT ![i].addrs = a]
      <4>1. PICK i, a : rows' = [rows EXCEPT ![i].addrs = a]
        BY <3>3
      <4>2. \A k \in DOMAIN rows : rows'[k] \in {rows[k], [rows[k] EXCEPT !.addrs = a]}
        BY <4>1
      <4> QED
        BY <4>1, <4>2 DEF BreakerInv, RowsOK, RowFields
    <3> QED
      BY <2>1, <3>1, <3>2, <3>3
  <2>3. \A u : Within(u)' = Within(u)
    BY <2>2 DEF Within
  <2> QED
    BY <2>3, WithinHour DEF BreakerHolds, Within
<1> QED
  BY <1>1, <1>2

\* With one pass at a time, no hour has more automatic containments than the
\* breaker's limit: a pass counts those of the last hour before it contains
\* (contain::respond), and the rows it then opens, later than it counted, still
\* fit, whatever operators, restarts and kills come in between.
THEOREM BreakerNeverPassed ==
    ASSUME OnePass, FewTargets
    PROVE  Spec => []BreakerHolds
<1>1. Init => BreakerInv /\ BreakerHolds
  <2> SUFFICES ASSUME Init
               PROVE  BreakerInv /\ BreakerHolds
    OBVIOUS
  <2>1. rows = <<>> /\ now = 0 /\ pc = [p \in Procs |-> "idle"]
    BY DEF Init
  <2>2. RowsOK /\ \A p \in Procs : Budgeted(p)
    BY <2>1 DEF RowsOK, Budgeted, Containing
  <2>3. \A t : Within(t) = {}
    BY <2>1 DEF Within
  <2>4. BreakerHolds
    BY <2>3, WithinHour, FS_EmptySet, ContainAssumption
  <2> QED
    BY <2>2, <2>4, InitInvariant DEF BreakerInv
<1>2. (BreakerInv /\ BreakerHolds) /\ [Next]_vars => (BreakerInv /\ BreakerHolds)'
  BY NextBreaker, NextWithin
<1> QED
  BY <1>1, <1>2, PTL DEF Spec
=============================================================================
