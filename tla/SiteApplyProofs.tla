--------------------------- MODULE SiteApplyProofs ---------------------------
(***************************************************************************)
(* That the files of a web server apply always resolve, are on record      *)
(* before they are written and are put back as they were found, and that   *)
(* what is on disk between applies loads and is loaded, for any number of  *)
(* processes, sites, failures and kills.                                   *)
(***************************************************************************)
EXTENDS SiteApply, TLAPS

\* One apply at a time: every front end takes the lock, or there is one.  No
\* setting changes during an apply, and nobody is killed while it puts files
\* back.
OneAtATime ==
    \A s \in Scenes :
        /\ "midway" \notin s.faults /\ "restore" \notin s.crashAt
        /\ \/ \A p, q \in s.procs : p = q
           \/ s.requests \intersect TuiKinds = {}

\* Nobody edits a site file during an apply.
NoHands == \A s \in Scenes : "hand" \notin s.faults

\* Past the lock, and past the snapshot.
Working(p) == pc[p] \notin {"idle", "lock"}
Snapped(p) ==
    \/ pc[p] \in {"generate", "sites", "remove", "forget", "test", "reload", "restore"}
    \/ pc[p] = "record" /\ job[p].kind = "all"

\* The labels each kind of apply goes through.
LabelsOf ==
    [all    |-> Labels \ {"idle"},
     one    |-> Labels \ {"idle", "unused", "remove", "forget"},
     strip  |-> {"lock", "snapshot", "sites", "remove", "test", "reload", "restore"},
     tuiAll |-> Labels \ {"idle", "lock", "forget"},
     tuiOne |-> Labels \ {"idle", "lock", "unused", "remove", "forget"}]

\* The locals of an apply.
JobFields == {"kind", "scope", "writes", "block", "drop", "snap", "found", "left",
              "changed", "gone", "failed"}

\* One process at a time is past the lock, at a label of its kind of apply.
TurnInv ==
    /\ pc \in [Procs -> Labels] /\ job = [p \in Procs |-> job[p]]
    /\ lock \in Procs \union {Free} /\ scene \in Scenes
    /\ \A p \in Procs :
        /\ DOMAIN job[p] = JobFields
        /\ pc[p] # "idle" => /\ p \in scene.procs
                             /\ job[p].kind \in Requests /\ pc[p] \in LabelsOf[job[p].kind]
        /\ Working(p) /\ ~InTui(p) => lock = p
    /\ \A p, q \in Procs : Working(p) /\ Working(q) => p = q

\* A tree has every place, and a site file has two parts.
SiteFile(v) ==
    /\ v = [own |-> v.own, block |-> v.block]
    /\ v.block = NoBlock \/ v.block \subseteq Gens
Tree(d) ==
    /\ d = [x \in Places |-> d[x]]
    /\ \A f \in Files : SiteFile(d[f])

\* A snapshot holds what the apply may touch, as it found it.
ShapeOf(p) ==
    LET j == job[p] IN
    /\ j.scope \subseteq Files /\ j.drop \subseteq Gens
    /\ Snapped(p) => /\ Tree(j.found)
                     /\ j.snap = [x \in Held(j) |-> j.found[x]]
    /\ pc[p] = "restore" => j.left \subseteq Held(j)

\* What an apply has in memory is what the settings call for.
Unneeded == {g \in Gens : Planned[g] = Absent}
PlanOf(p) ==
    LET j == job[p] IN
    pc[p] # "idle" =>
        /\ j.kind = "strip" =>
            /\ j.writes = Nothing
            /\ Snapped(p) => /\ j.drop = {g \in Gens : j.found[g] # Absent}
                             /\ j.scope = {f \in Files : j.found[f].block # NoBlock}
        /\ j.kind # "strip" /\ pc[p] \notin {"lock", "plan"} =>
            j.writes = Planned /\ (InTui(p) => j.block = Block)
        /\ j.kind \in {"all", "tuiAll"} => j.scope = Files
        /\ j.kind \in {"one", "tuiOne"} => j.drop = {}
        /\ j.kind = "all" /\ pc[p] \notin {"lock", "plan", "unused"} => j.drop = Unneeded
        /\ j.kind = "tuiAll" /\ pc[p] \notin {"lock", "plan", "record", "unused"} =>
            j.drop = Unneeded

\* The block an apply leaves in a site file.
Target(p) == IF job[p].kind = "strip" THEN NoBlock ELSE Block

\* What each loop has done so far, and what the ones before it have.
PhaseOf(p) ==
    LET j == job[p] IN
    /\ pc[p] = "generate" =>
        /\ j.left \subseteq Written(j)
        /\ \A g \in Written(j) \ j.left : disk[g] # Absent
    /\ pc[p] \in {"sites", "remove", "forget", "test", "reload"} =>
        \A g \in Written(j) : disk[g] # Absent
    /\ pc[p] = "sites" =>
        /\ j.left \subseteq j.scope
        /\ ~j.failed => \A f \in j.scope \ j.left : disk[f].block = Target(p)
    /\ pc[p] = "remove" =>
        /\ j.left \subseteq j.drop
        /\ ~j.failed => \A f \in j.scope : disk[f].block = Target(p)
        /\ \A g \in j.drop \ j.left : disk[g] = Absent

\* A place is as the apply found it.
SameAt(d, x) ==
    IF x \in Gens THEN disk[x] = d[x]
    ELSE disk[x].block = d[x].block /\ ("hand" \notin Faults => disk[x].own = d[x].own)

\* What an apply does not hold is as it found it, and in the end everything is.
Touched(p) == IF pc[p] = "restore" THEN job[p].left ELSE Held(job[p])
KeptOf(p) == Snapped(p) /\ ~torn => \A x \in Places \ Touched(p) : SameAt(job[p].found, x)

\* On record, from the time it is recorded to the time it is written.
RowsOf(p) ==
    \/ pc[p] = "generate"
    \/ pc[p] = "snapshot" /\ job[p].kind \in {"one", "tuiAll", "tuiOne"}
    \/ pc[p] = "unused" /\ job[p].kind = "tuiAll"
    => Written(job[p]) \subseteq rows

\* An apply that has noticed no change has a tree like the one it found, but
\* for what it removed.
ChangedOf(p) ==
    Snapped(p) /\ pc[p] # "restore" /\ ~job[p].changed =>
        /\ job[p].kind # "strip"
        /\ \A x \in Places :
            \/ SameAt(job[p].found, x)
            \/ x \in Gens /\ disk[x] = Absent /\ job[p].gone

\* All of it, for one process.
MemoryOf(p) ==
    ShapeOf(p) /\ PlanOf(p) /\ PhaseOf(p) /\ KeptOf(p) /\ RowsOf(p) /\ ChangedOf(p)
TreeInv == rate \in BOOLEAN /\ trust \in TrustLists /\ Tree(disk)
AppliesInv == TurnInv /\ TreeInv /\ \A p \in Procs : MemoryOf(p)

\* Both the disk and what an apply would go back to resolve.
ResolvesInv ==
    ~torn => /\ (\A p \in Procs : pc[p] # "restore") => Resolves(disk)
             /\ \A p \in Procs : Snapped(p) => Resolves(job[p].found)

-----------------------------------------------------------------------------
(* The order of an apply's steps.                                          *)

LEMMA Follows ==
    ASSUME NEW s, NEW i \in DOMAIN s, \A k \in DOMAIN s : s[k] = s[i] => k = i
    PROVE  (CHOOSE k \in DOMAIN s : s[k] = s[i]) = i
OBVIOUS

LEMMA AfterAll ==
    ASSUME NEW p, job[p].kind = "all"
    PROVE  /\ pc[p] = "lock" => After(p) = "plan"
           /\ pc[p] = "plan" => After(p) = "unused"
           /\ pc[p] = "unused" => After(p) = "snapshot"
           /\ pc[p] = "snapshot" => After(p) = "record"
           /\ pc[p] = "record" => After(p) = "generate"
           /\ pc[p] = "generate" => After(p) = "sites"
           /\ pc[p] = "sites" => After(p) = "remove"
           /\ pc[p] = "remove" => After(p) = "forget"
           /\ pc[p] = "forget" => After(p) = "test"
           /\ pc[p] = "test" => After(p) = "reload"
<1> DEFINE s == Flow["all"]
<1>1. s = <<"lock", "plan", "unused", "snapshot", "record", "generate", "sites",
            "remove", "forget", "test", "reload">>
  BY DEF Flow
<1>2. /\ DOMAIN s = 1 .. 11
      /\ s[1] = "lock" /\ s[2] = "plan" /\ s[3] = "unused" /\ s[4] = "snapshot"
      /\ s[5] = "record" /\ s[6] = "generate" /\ s[7] = "sites"
      /\ s[8] = "remove" /\ s[9] = "forget" /\ s[10] = "test" /\ s[11] = "reload"
  BY <1>1
<1> HIDE DEF s
<1>3. \A i \in DOMAIN s : \A k \in DOMAIN s : s[k] = s[i] => k = i
  BY <1>2
<1>4. \A i \in 1 .. 10 : pc[p] = s[i] => After(p) = s[i + 1]
  <2> SUFFICES ASSUME NEW i \in 1 .. 10, pc[p] = s[i]
               PROVE  After(p) = s[i + 1]
    OBVIOUS
  <2>1. (CHOOSE k \in DOMAIN s : s[k] = s[i]) = i
    BY <1>2, <1>3, Follows
  <2> QED
    BY <2>1 DEF After, s
<1> QED
  BY <1>2, <1>4

LEMMA AfterOne ==
    ASSUME NEW p, job[p].kind = "one"
    PROVE  /\ pc[p] = "lock" => After(p) = "plan"
           /\ pc[p] = "plan" => After(p) = "record"
           /\ pc[p] = "record" => After(p) = "snapshot"
           /\ pc[p] = "snapshot" => After(p) = "generate"
           /\ pc[p] = "generate" => After(p) = "sites"
           /\ pc[p] = "sites" => After(p) = "test"
           /\ pc[p] = "test" => After(p) = "reload"
<1> DEFINE s == Flow["one"]
<1>1. s = <<"lock", "plan", "record", "snapshot", "generate", "sites", "test",
            "reload">>
  BY DEF Flow
<1>2. /\ DOMAIN s = 1 .. 8
      /\ s[1] = "lock" /\ s[2] = "plan" /\ s[3] = "record" /\ s[4] = "snapshot"
      /\ s[5] = "generate" /\ s[6] = "sites" /\ s[7] = "test" /\ s[8] = "reload"
  BY <1>1
<1> HIDE DEF s
<1>3. \A i \in DOMAIN s : \A k \in DOMAIN s : s[k] = s[i] => k = i
  BY <1>2
<1>4. \A i \in 1 .. 7 : pc[p] = s[i] => After(p) = s[i + 1]
  <2> SUFFICES ASSUME NEW i \in 1 .. 7, pc[p] = s[i]
               PROVE  After(p) = s[i + 1]
    OBVIOUS
  <2>1. (CHOOSE k \in DOMAIN s : s[k] = s[i]) = i
    BY <1>2, <1>3, Follows
  <2> QED
    BY <2>1 DEF After, s
<1> QED
  BY <1>2, <1>4

LEMMA AfterStrip ==
    ASSUME NEW p, job[p].kind = "strip"
    PROVE  /\ pc[p] = "lock" => After(p) = "snapshot"
           /\ pc[p] = "snapshot" => After(p) = "sites"
           /\ pc[p] = "sites" => After(p) = "remove"
           /\ pc[p] = "remove" => After(p) = "test"
           /\ pc[p] = "test" => After(p) = "reload"
<1> DEFINE s == Flow["strip"]
<1>1. s = <<"lock", "snapshot", "sites", "remove", "test", "reload">>
  BY DEF Flow
<1>2. /\ DOMAIN s = 1 .. 6
      /\ s[1] = "lock" /\ s[2] = "snapshot" /\ s[3] = "sites" /\ s[4] = "remove"
      /\ s[5] = "test" /\ s[6] = "reload"
  BY <1>1
<1> HIDE DEF s
<1>3. \A i \in DOMAIN s : \A k \in DOMAIN s : s[k] = s[i] => k = i
  BY <1>2
<1>4. \A i \in 1 .. 5 : pc[p] = s[i] => After(p) = s[i + 1]
  <2> SUFFICES ASSUME NEW i \in 1 .. 5, pc[p] = s[i]
               PROVE  After(p) = s[i + 1]
    OBVIOUS
  <2>1. (CHOOSE k \in DOMAIN s : s[k] = s[i]) = i
    BY <1>2, <1>3, Follows
  <2> QED
    BY <2>1 DEF After, s
<1> QED
  BY <1>2, <1>4

LEMMA AfterTuiAll ==
    ASSUME NEW p, job[p].kind = "tuiAll"
    PROVE  /\ pc[p] = "plan" => After(p) = "record"
           /\ pc[p] = "record" => After(p) = "unused"
           /\ pc[p] = "unused" => After(p) = "snapshot"
           /\ pc[p] = "snapshot" => After(p) = "generate"
           /\ pc[p] = "generate" => After(p) = "sites"
           /\ pc[p] = "sites" => After(p) = "remove"
           /\ pc[p] = "remove" => After(p) = "test"
           /\ pc[p] = "test" => After(p) = "reload"
<1> DEFINE s == Flow["tuiAll"]
<1>1. s = <<"plan", "record", "unused", "snapshot", "generate", "sites", "remove",
            "test", "reload">>
  BY DEF Flow
<1>2. /\ DOMAIN s = 1 .. 9
      /\ s[1] = "plan" /\ s[2] = "record" /\ s[3] = "unused" /\ s[4] = "snapshot"
      /\ s[5] = "generate" /\ s[6] = "sites" /\ s[7] = "remove" /\ s[8] = "test"
      /\ s[9] = "reload"
  BY <1>1
<1> HIDE DEF s
<1>3. \A i \in DOMAIN s : \A k \in DOMAIN s : s[k] = s[i] => k = i
  BY <1>2
<1>4. \A i \in 1 .. 8 : pc[p] = s[i] => After(p) = s[i + 1]
  <2> SUFFICES ASSUME NEW i \in 1 .. 8, pc[p] = s[i]
               PROVE  After(p) = s[i + 1]
    OBVIOUS
  <2>1. (CHOOSE k \in DOMAIN s : s[k] = s[i]) = i
    BY <1>2, <1>3, Follows
  <2> QED
    BY <2>1 DEF After, s
<1> QED
  BY <1>2, <1>4

LEMMA AfterTuiOne ==
    ASSUME NEW p, job[p].kind = "tuiOne"
    PROVE  /\ pc[p] = "plan" => After(p) = "record"
           /\ pc[p] = "record" => After(p) = "snapshot"
           /\ pc[p] = "snapshot" => After(p) = "generate"
           /\ pc[p] = "generate" => After(p) = "sites"
           /\ pc[p] = "sites" => After(p) = "test"
           /\ pc[p] = "test" => After(p) = "reload"
<1> DEFINE s == Flow["tuiOne"]
<1>1. s = <<"plan", "record", "snapshot", "generate", "sites", "test", "reload">>
  BY DEF Flow
<1>2. /\ DOMAIN s = 1 .. 7
      /\ s[1] = "plan" /\ s[2] = "record" /\ s[3] = "snapshot"
      /\ s[4] = "generate" /\ s[5] = "sites" /\ s[6] = "test" /\ s[7] = "reload"
  BY <1>1
<1> HIDE DEF s
<1>3. \A i \in DOMAIN s : \A k \in DOMAIN s : s[k] = s[i] => k = i
  BY <1>2
<1>4. \A i \in 1 .. 6 : pc[p] = s[i] => After(p) = s[i + 1]
  <2> SUFFICES ASSUME NEW i \in 1 .. 6, pc[p] = s[i]
               PROVE  After(p) = s[i + 1]
    OBVIOUS
  <2>1. (CHOOSE k \in DOMAIN s : s[k] = s[i]) = i
    BY <1>2, <1>3, Follows
  <2> QED
    BY <2>1 DEF After, s
<1> QED
  BY <1>2, <1>4

\* What comes after each step, for any of the applies.
LEMMA Afters ==
    ASSUME TurnInv, NEW p \in Procs, pc[p] \notin {"idle", "reload", "restore"}
    PROVE  /\ After(p) \in LabelsOf[job[p].kind] \ {"idle", "lock", "restore"}
           /\ pc[p] = "lock" => After(p) = IF job[p].kind = "strip" THEN "snapshot" ELSE "plan"
           /\ pc[p] = "plan" => After(p) = IF job[p].kind = "all" THEN "unused" ELSE "record"
           /\ pc[p] = "unused" => After(p) = "snapshot"
           /\ pc[p] = "record" => After(p) = CASE job[p].kind = "all" -> "generate"
                                               [] job[p].kind = "tuiAll" -> "unused"
                                               [] OTHER -> "snapshot"
           /\ pc[p] = "snapshot" => After(p) = CASE job[p].kind = "all" -> "record"
                                                 [] job[p].kind = "strip" -> "sites"
                                                 [] OTHER -> "generate"
           /\ pc[p] = "generate" => After(p) = "sites"
           /\ pc[p] = "sites" => After(p) = IF job[p].kind \in {"one", "tuiOne"}
                                              THEN "test" ELSE "remove"
           /\ pc[p] = "remove" => After(p) = IF job[p].kind = "all" THEN "forget" ELSE "test"
           /\ pc[p] = "forget" => After(p) = "test"
           /\ pc[p] = "test" => After(p) = "reload"
<1>1. job[p].kind \in Kinds /\ pc[p] \in LabelsOf[job[p].kind]
  BY SiteConstants DEF TurnInv, Requests
<1>2. CASE job[p].kind = "all"
  BY <1>1, <1>2, AfterAll DEF LabelsOf, Labels
<1>3. CASE job[p].kind = "one"
  BY <1>1, <1>3, AfterOne DEF LabelsOf, Labels
<1>4. CASE job[p].kind = "strip"
  BY <1>1, <1>4, AfterStrip DEF LabelsOf, Labels
<1>5. CASE job[p].kind = "tuiAll"
  BY <1>1, <1>5, AfterTuiAll DEF LabelsOf, Labels
<1>6. CASE job[p].kind = "tuiOne"
  BY <1>1, <1>6, AfterTuiOne DEF LabelsOf, Labels
<1> QED
  BY <1>1, <1>2, <1>3, <1>4, <1>5, <1>6 DEF Kinds

-----------------------------------------------------------------------------
(* Whose turn it is.                                                       *)

\* A step of p within an apply.
Moves(p, l, j) ==
    /\ pc' = [pc EXCEPT ![p] = l] /\ job' = [job EXCEPT ![p] = j]
    /\ lock' = lock /\ scene' = scene

LEMMA TurnMoves ==
    ASSUME TurnInv, NEW p \in Procs, NEW l, NEW j, Working(p), Moves(p, l, j),
           l \in LabelsOf[job[p].kind] \ {"idle", "lock"},
           DOMAIN j = JobFields, j.kind = job[p].kind
    PROVE  TurnInv'
<1>1. job[p].kind \in Kinds
  BY SiteConstants DEF TurnInv, Requests, Working
<1>2. l \in Labels
  BY <1>1 DEF LabelsOf, Kinds, Labels
<1>3. /\ pc' \in [Procs -> Labels] /\ job' = [q \in Procs |-> job'[q]]
      /\ pc'[p] = l /\ job'[p] = j
      /\ \A q \in Procs \ {p} : pc'[q] = pc[q] /\ job'[q] = job[q]
  BY <1>2 DEF Moves, TurnInv
<1>4. lock' = lock /\ scene' = scene
  BY DEF Moves
<1>5. \A q \in Procs : Working(q)' <=> Working(q)
  BY <1>3 DEF Working
<1>6. \A q \in Procs : job'[q].kind = job[q].kind /\ DOMAIN job'[q] = JobFields
  BY <1>3 DEF TurnInv
<1>7. \A q \in Procs : InTui(q)' <=> InTui(q)
  BY <1>6 DEF InTui
<1>8. \A q \in Procs : pc'[q] # "idle" =>
        /\ pc[q] # "idle" /\ pc'[q] \in LabelsOf[job[q].kind]
  BY <1>3 DEF TurnInv, Working
<1> QED
  BY <1>3, <1>4, <1>5, <1>6, <1>7, <1>8 DEF TurnInv, Requests

LEMMA TurnEnds ==
    ASSUME TurnInv, NEW p \in Procs, End(p), scene' = scene
    PROVE  TurnInv'
<1>1. /\ pc' \in [Procs -> Labels] /\ job' = [q \in Procs |-> job'[q]]
      /\ pc'[p] = "idle" /\ job'[p] = NoJob
      /\ \A q \in Procs \ {p} : pc'[q] = pc[q] /\ job'[q] = job[q]
  BY DEF End, Goto, TurnInv, Labels
<1>2. lock' = IF lock = p THEN Free ELSE lock
  BY DEF End
<1>3. ~Working(p)' /\ \A q \in Procs \ {p} : (Working(q)' <=> Working(q)) /\ (InTui(q)' <=> InTui(q))
  BY <1>1 DEF Working, InTui
<1>4. DOMAIN NoJob = JobFields
  BY DEF NoJob, JobFields
<1> QED
  BY <1>1, <1>2, <1>3, <1>4 DEF TurnInv, Requests

LEMMA TurnStarts ==
    ASSUME TurnInv, OneAtATime, NEW p \in Procs, scene' = scene,
           (\E kind \in Kinds : Request(p, kind)) \/ Lock(p)
    PROVE  TurnInv'
<1>1. Free \notin Procs
  BY SiteConstants
<1>2. CASE Lock(p)
  <2>1. pc[p] = "lock" /\ lock = Free /\ lock' = p /\ job' = job /\ pc' = [pc EXCEPT ![p] = After(p)]
    BY <1>2 DEF Lock, GoOn
  <2>2. After(p) \in LabelsOf[job[p].kind] \ {"idle", "lock", "restore"}
    BY <2>1, Afters
  <2>3. ~InTui(p) /\ job[p].kind \in Kinds
    BY <2>1, SiteConstants DEF InTui, TuiKinds, TurnInv, LabelsOf, Requests
  <2>4. After(p) \in Labels
    BY <2>2, <2>3 DEF LabelsOf, Labels, Kinds
  <2>5. \A q \in Procs : ~Working(q)
    <3>1. ASSUME NEW q \in Procs, Working(q)
          PROVE  FALSE
      <4>1. InTui(q)
        BY <1>1, <2>1, <3>1 DEF TurnInv
      <4>2. /\ job[q].kind \in scene.requests /\ q \in scene.procs /\ p \in scene.procs
        BY <2>1, <3>1 DEF TurnInv, Requests, Working
      <4>3. p = q
        BY <4>1, <4>2 DEF TurnInv, OneAtATime, InTui
      <4> QED
        BY <2>3, <4>1, <4>3
    <3> QED
      BY <3>1
  <2>6. /\ pc' \in [Procs -> Labels] /\ pc'[p] = After(p)
        /\ \A q \in Procs \ {p} : pc'[q] = pc[q]
    BY <2>1, <2>4 DEF TurnInv
  <2>7. Working(p)' /\ \A q \in Procs \ {p} : ~Working(q)'
    BY <2>2, <2>5, <2>6 DEF Working
  <2> QED
    BY <2>1, <2>2, <2>6, <2>7 DEF TurnInv, Requests, InTui
<1>3. CASE \E kind \in Kinds : Request(p, kind)
  <2>1. PICK kind \in Kinds : Request(p, kind)
    BY <1>3
  <2>2. PICK scope : job' = [job EXCEPT ![p] = [NoJob EXCEPT !.kind = kind, !.scope = scope]]
    BY <2>1 DEF Request
  <2>3. /\ pc[p] = "idle" /\ p \in scene.procs /\ kind \in Requests
        /\ pc' = [pc EXCEPT ![p] = Flow[kind][1]] /\ lock' = lock
    BY <2>1 DEF Request, Goto
  <2>4. Flow[kind][1] = IF kind \in TuiKinds THEN "plan" ELSE "lock"
    BY DEF Flow, Kinds, TuiKinds
  <2>5. Flow[kind][1] \in Labels /\ Flow[kind][1] \in LabelsOf[kind]
    BY <2>4 DEF Labels, LabelsOf, Kinds, TuiKinds
  <2>6. /\ pc' \in [Procs -> Labels] /\ job' = [q \in Procs |-> job'[q]]
        /\ pc'[p] = Flow[kind][1] /\ job'[p].kind = kind /\ DOMAIN job'[p] = JobFields
        /\ \A q \in Procs \ {p} : pc'[q] = pc[q] /\ job'[q] = job[q]
    BY <2>2, <2>3, <2>5 DEF TurnInv, NoJob, JobFields
  <2>7. \A q \in Procs \ {p} : (Working(q)' <=> Working(q)) /\ (InTui(q)' <=> InTui(q))
    BY <2>6 DEF Working, InTui
  <2>8. /\ Working(p)' => kind \in TuiKinds
        /\ InTui(p)' <=> kind \in TuiKinds
    BY <2>4, <2>6 DEF Working, InTui
  <2>9. ASSUME Working(p)', NEW q \in Procs \ {p}, Working(q)
        PROVE  FALSE
    BY <2>3, <2>8, <2>9 DEF TurnInv, OneAtATime, Requests, Working
  <2> QED
    BY <2>3, <2>5, <2>6, <2>7, <2>8, <2>9 DEF TurnInv, Requests
<1> QED
  BY <1>2, <1>3

-----------------------------------------------------------------------------
(* What each step of an apply does to what it has in memory.               *)

LEMMA MovesTo ==
    ASSUME TurnInv, NEW p \in Procs, NEW l, NEW j, Moves(p, l, j)
    PROVE  /\ pc'[p] = l /\ job'[p] = j
           /\ \A q \in Procs \ {p} : pc'[q] = pc[q] /\ job'[q] = job[q]
BY DEF Moves, TurnInv

LEMMA PlanDoes ==
    ASSUME TurnInv, NEW p \in Procs, Plan(p), scene' = scene
    PROVE  Moves(p, After(p),
                    [job[p] EXCEPT !.writes = Planned,
                              !.block = IF InTui(p) THEN Block ELSE NoBlock])
BY DEF Plan, Moves, GoOn, Goto, TurnInv, Unneeded

LEMMA UnusedDoes ==
    ASSUME TurnInv, NEW p \in Procs, Unused(p), scene' = scene
    PROVE  Moves(p, After(p),
                    [job[p] EXCEPT !.drop = Unneeded])
BY DEF Unused, Moves, GoOn, Goto, TurnInv, Unneeded

LEMMA RecordDoes ==
    ASSUME TurnInv, NEW p \in Procs, Record(p), scene' = scene
    PROVE  Moves(p, After(p),
                    [job[p] EXCEPT !.left = Items(job[p], After(p))])
BY DEF Record, Moves, GoOn, Goto, TurnInv, Unneeded

LEMMA SnapshotDoes ==
    ASSUME TurnInv, NEW p \in Procs, Snapshot(p), scene' = scene
    PROVE  Moves(p, After(p),
                    [Scoped(p) EXCEPT !.snap = [x \in Held(Scoped(p)) |-> disk[x]],
                              !.found = disk, !.left = Items(Scoped(p), After(p))])
BY DEF Snapshot, Moves, GoOn, Goto, TurnInv, Unneeded

LEMMA GenerateDoes ==
    ASSUME TurnInv, NEW p \in Procs, Generate(p), scene' = scene
    PROVE  \E g :
             /\ g = FirstOf(WriteOrder, job[p].left)
             /\ disk' = [disk EXCEPT ![g] = job[p].writes[g]]
             /\ Moves(p, "generate",
                     [job[p] EXCEPT !.left = @ \ {g}, !.changed = @ \/ disk[g] # job[p].writes[g]])
BY DEF Generate, Moves, GoOn, Goto, TurnInv, Unneeded

LEMMA SiteDoes ==
    ASSUME TurnInv, NEW p \in Procs, Site(p), scene' = scene
    PROVE  \E f :
             /\ f \in Left(p)
             /\ disk' = [disk EXCEPT ![f] = Rewritten(p, f)]
             /\ Moves(p, "sites",
                     [job[p] EXCEPT !.left = @ \ {f}, !.changed = @ \/ disk[f] # Rewritten(p, f)])
BY DEF Site, Moves, GoOn, Goto, TurnInv, Unneeded

LEMMA RemoveDoes ==
    ASSUME TurnInv, NEW p \in Procs, Remove(p), scene' = scene
    PROVE  \E g :
             /\ g = FirstOf(RemoveOrder, job[p].left)
             /\ disk' = [disk EXCEPT ![g] = Absent]
             /\ Moves(p, "remove",
                     [job[p] EXCEPT !.left = @ \ {g}, !.gone = @ \/ disk[g] # Absent])
BY DEF Remove, Moves, GoOn, Goto, TurnInv, Unneeded

LEMMA NextPhaseDoes ==
    ASSUME TurnInv, NEW p \in Procs, NextPhase(p), scene' = scene
    PROVE  Moves(p, After(p),
                    [job[p] EXCEPT !.left = Items(job[p], After(p)),
                              !.changed = @ \/ job[p].gone])
BY DEF NextPhase, Moves, GoOn, Goto, TurnInv, Unneeded

LEMMA ForgetDoes ==
    ASSUME TurnInv, NEW p \in Procs, Forget(p), scene' = scene
    PROVE  Moves(p, After(p), job[p])
BY DEF Forget, Moves, GoOn, Goto, TurnInv, Unneeded

LEMMA TestPassesDoes ==
    ASSUME TurnInv, NEW p \in Procs, TestPasses(p), scene' = scene
    PROVE  Moves(p, After(p), job[p])
BY DEF TestPasses, Moves, GoOn, Goto, TurnInv, Unneeded

LEMMA TestFailsDoes ==
    ASSUME TurnInv, NEW p \in Procs, TestFails(p), scene' = scene
    PROVE  Moves(p, "restore",
                    [job[p] EXCEPT !.left = DOMAIN job[p].snap])
BY DEF TestFails, Moves, GoOn, Goto, TurnInv, Unneeded

LEMMA RestoreDoes ==
    ASSUME TurnInv, NEW p \in Procs, Restore(p), scene' = scene
    PROVE  \E x :
             /\ x \in NextBack(p)
             /\ disk' = [disk EXCEPT ![x] = job[p].snap[x]]
             /\ Moves(p, "restore",
                     [job[p] EXCEPT !.left = @ \ {x}])
BY DEF Restore, Moves, GoOn, Goto, TurnInv, Unneeded

LEMMA RestoreFailsDoes ==
    ASSUME TurnInv, NEW p \in Procs, RestoreFails(p), scene' = scene
    PROVE  \E x :
             /\ x \in NextBack(p)
             /\ torn' = TRUE
             /\ Moves(p, "restore",
                     [job[p] EXCEPT !.left = @ \ {x}])
BY DEF RestoreFails, Moves, GoOn, Goto, TurnInv, Unneeded

\* The steps an apply ends with.
Ends(p) ==
    \/ Busy(p) \/ NothingToStrip(p) \/ UpToDate(p) \/ Restored(p) \/ Reload(p)
    \/ ReloadFails(p) \/ Crash(p)

\* A write that fails has the apply put everything back, end, pass over a site
\* or leave the rest of the removals.
LEMMA WriteFailsDoes ==
    ASSUME TurnInv, NEW p \in Procs, WriteFails(p), scene' = scene
    PROVE  \/ /\ ~InTui(p)
              /\ Moves(p, "restore", [job[p] EXCEPT !.left = DOMAIN job[p].snap])
           \/ InTui(p) /\ pc[p] = "generate" /\ End(p)
           \/ /\ InTui(p) /\ pc[p] = "sites"
              /\ \E f : Moves(p, "sites", [job[p] EXCEPT !.left = @ \ {f}, !.failed = TRUE])
           \/ /\ InTui(p) /\ pc[p] = "remove"
              /\ Moves(p, After(p), [job[p] EXCEPT !.left = {}])
<1>1. CASE ~InTui(p) /\ Goto(p, "restore")
  BY <1>1 DEF WriteFails, Moves, GoOn, Goto, TurnInv
<1>2. CASE InTui(p) /\ pc[p] = "generate" /\ End(p)
  BY <1>2
<1>3. CASE /\ InTui(p) /\ pc[p] = "sites" /\ UNCHANGED <<pc, lock>>
           /\ \E f : job' = [job EXCEPT ![p].left = @ \ {f}, ![p].failed = TRUE]
  <2>1. PICK f : job' = [job EXCEPT ![p].left = @ \ {f}, ![p].failed = TRUE]
    BY <1>3
  <2>2. Moves(p, "sites", [job[p] EXCEPT !.left = @ \ {f}, !.failed = TRUE])
    BY <1>3, <2>1 DEF Moves, TurnInv
  <2> QED
    BY <1>3, <2>2
<1>4. CASE /\ InTui(p) /\ pc[p] = "remove" /\ GoOn(p) /\ UNCHANGED lock
           /\ job' = [job EXCEPT ![p].left = {}]
  BY <1>4 DEF Moves, GoOn, Goto, TurnInv
<1> QED
  BY <1>1, <1>2, <1>3, <1>4 DEF WriteFails

LEMMA TurnStep ==
    ASSUME TurnInv, OneAtATime, [Next]_vars
    PROVE  TurnInv'
<1>1. CASE UNCHANGED vars
  BY <1>1 DEF vars, TurnInv, Working, InTui, Requests
<1>2. ASSUME scene' = scene, UNCHANGED <<pc, job, lock>>
      PROVE  TurnInv'
  BY <1>2 DEF TurnInv, Working, InTui, Requests
<1>3. ASSUME scene' = scene, NEW p \in Procs,
             (\E kind \in Kinds : Request(p, kind)) \/ Lock(p)
      PROVE  TurnInv'
  BY <1>3, TurnStarts
<1>4. ASSUME scene' = scene, NEW p \in Procs, Ends(p)
      PROVE  TurnInv'
  <2>1. End(p)
    BY <1>4 DEF Ends, Busy, NothingToStrip, UpToDate, Restored, Reload, ReloadFails, Crash
  <2> QED
    BY <1>4, <2>1, TurnEnds
<1>5. ASSUME scene' = scene, NEW p \in Procs,
             \/ Plan(p) \/ Unused(p) \/ Record(p) \/ Snapshot(p) \/ Generate(p) \/ Site(p)
             \/ Remove(p) \/ NextPhase(p) \/ WriteFails(p) \/ Forget(p) \/ TestPasses(p)
             \/ TestFails(p) \/ Restore(p) \/ RestoreFails(p)
      PROVE  TurnInv'
  <2>1. Working(p) /\ DOMAIN job[p] = JobFields
    BY <1>5 DEF Working, Plan, Unused, Record, Snapshot, Generate, Site, Remove, NextPhase,
       WriteFails, Forget, TestPasses, TestFails, Restore, RestoreFails, TurnInv
  <2>2. /\ job[p].kind \in Kinds
        /\ pc[p] \in LabelsOf[job[p].kind]
        /\ "restore" \in LabelsOf[job[p].kind] /\ "generate" \in Labels
    BY <2>1, SiteConstants DEF TurnInv, Requests, Working, LabelsOf, Labels, Kinds
  <2>3. pc[p] \notin {"reload", "restore"} =>
          After(p) \in LabelsOf[job[p].kind] \ {"idle", "lock", "restore"}
    BY <2>1, Afters DEF Working
  <2>4. ASSUME NEW l, NEW j, Moves(p, l, j), DOMAIN j = JobFields, j.kind = job[p].kind,
               l \in {pc[p], "restore"} \/ (pc[p] \notin {"reload", "restore"} /\ l = After(p))
        PROVE  TurnInv'
    BY <2>1, <2>2, <2>3, <2>4, TurnMoves DEF Working
  <2>5. CASE Plan(p)
    BY <1>5, <2>1, <2>4, <2>5, PlanDoes DEF Plan, JobFields
  <2>6. CASE Unused(p)
    BY <1>5, <2>1, <2>4, <2>6, UnusedDoes DEF Unused, JobFields
  <2>7. CASE Record(p)
    BY <1>5, <2>1, <2>4, <2>7, RecordDoes DEF Record, JobFields
  <2>8. CASE Snapshot(p)
    <3>1. DOMAIN Scoped(p) = JobFields /\ Scoped(p).kind = job[p].kind
      BY <2>1 DEF Scoped, JobFields
    <3> QED
      BY <1>5, <3>1, <2>4, <2>8, SnapshotDoes DEF Snapshot, JobFields
  <2>9. CASE Generate(p)
    BY <1>5, <2>1, <2>4, <2>9, GenerateDoes DEF Generate, JobFields
  <2>10. CASE Site(p)
    BY <1>5, <2>1, <2>4, <2>10, SiteDoes DEF Site, JobFields
  <2>11. CASE Remove(p)
    BY <1>5, <2>1, <2>4, <2>11, RemoveDoes DEF Remove, JobFields
  <2>12. CASE NextPhase(p)
    BY <1>5, <2>1, <2>4, <2>12, NextPhaseDoes DEF NextPhase, JobFields
  <2>13. CASE WriteFails(p)
    <3>1. CASE End(p)
      BY <1>5, <3>1, TurnEnds
    <3>2. CASE \E l, j : Moves(p, l, j) /\ DOMAIN j = JobFields /\ j.kind = job[p].kind
                         /\ \/ l \in {pc[p], "restore"}
                            \/ pc[p] \notin {"reload", "restore"} /\ l = After(p)
      BY <2>4, <3>2
    <3> QED
      BY <1>5, <2>1, <2>13, <3>1, <3>2, WriteFailsDoes DEF JobFields
  <2>14. CASE Forget(p)
    BY <1>5, <2>1, <2>4, <2>14, ForgetDoes DEF Forget
  <2>15. CASE TestPasses(p)
    BY <1>5, <2>1, <2>4, <2>15, TestPassesDoes DEF TestPasses
  <2>16. CASE TestFails(p)
    BY <1>5, <2>1, <2>4, <2>16, TestFailsDoes DEF JobFields
  <2>17. CASE Restore(p)
    BY <1>5, <2>1, <2>4, <2>17, RestoreDoes DEF Restore, JobFields
  <2>18. CASE RestoreFails(p)
    BY <1>5, <2>1, <2>4, <2>18, RestoreFailsDoes DEF RestoreFails, JobFields
  <2> QED
    BY <1>5, <2>5, <2>6, <2>7, <2>8, <2>9, <2>10, <2>11, <2>12, <2>13, <2>14, <2>15,
       <2>16, <2>17, <2>18
<1>6. CASE ChangeSettings \/ (\E f \in Files : HandEdit(f)) \/ HostReload
  <2>1. UNCHANGED <<pc, job, lock>>
    BY <1>6 DEF ChangeSettings, HandEdit, HostReload
  <2> QED
    BY <1>1, <1>2, <2>1 DEF Next
<1> QED
  BY <1>1, <1>3, <1>4, <1>5, <1>6 DEF Next, Step, Ends

-----------------------------------------------------------------------------
(* The steps after the snapshot.                                           *)

\* A step of p within an apply leaves what the apply has decided on.
Onward(p, l) ==
    /\ pc'[p] = l /\ scene' = scene
    /\ \A q \in Procs \ {p} : pc'[q] = pc[q] /\ job'[q] = job[q]
    /\ job'[p].kind = job[p].kind /\ job'[p].scope = job[p].scope
    /\ job'[p].writes = job[p].writes /\ job'[p].block = job[p].block
    /\ job'[p].drop = job[p].drop /\ job'[p].snap = job[p].snap
    /\ job'[p].found = job[p].found

\* Nothing else of what it has in memory changes.
Notes(p, left, changed, gone) ==
    /\ job'[p].left = left /\ job'[p].changed = changed /\ job'[p].gone = gone
    /\ job'[p].failed = job[p].failed

LEMMA GenerateSees ==
    ASSUME TurnInv, NEW p \in Procs, Generate(p), scene' = scene
    PROVE  /\ Onward(p, "generate")
           /\ \E g :
                /\ g = FirstOf(WriteOrder, job[p].left)
                /\ disk' = [disk EXCEPT ![g] = job[p].writes[g]]
                /\ Notes(p, job[p].left \ {g}, (job[p].changed \/ disk[g] # job[p].writes[g]),
                         job[p].gone)
<1>1. PICK g : g = FirstOf(WriteOrder, job[p].left) /\ disk' = [disk EXCEPT ![g] = job[p].writes[g]]
                /\ Moves(p, "generate", [job[p] EXCEPT !.left = job[p].left \ {g}, !.changed = (job[p].changed \/ disk[g] # job[p].writes[g])])
  BY GenerateDoes
<1>2. DOMAIN job[p] = JobFields /\ "generate" = "generate"
  BY DEF TurnInv
<1>3. job'[p] = [job[p] EXCEPT !.left = job[p].left \ {g}, !.changed = (job[p].changed \/ disk[g] # job[p].writes[g])]
  BY <1>1, MovesTo
<1>4. Notes(p, job[p].left \ {g}, (job[p].changed \/ disk[g] # job[p].writes[g]),
             job[p].gone)
  BY <1>2, <1>3 DEF Notes, JobFields
<1>5. pc'[p] = "generate" /\ \A q \in Procs \ {p} : pc'[q] = pc[q] /\ job'[q] = job[q]
  BY <1>1, MovesTo
<1>6. Onward(p, "generate")
  BY <1>2, <1>3, <1>5 DEF Onward, JobFields
<1> QED
  BY <1>1, <1>4, <1>6

LEMMA SiteSees ==
    ASSUME TurnInv, NEW p \in Procs, Site(p), scene' = scene
    PROVE  /\ Onward(p, "sites")
           /\ \E f :
                /\ f \in Left(p)
                /\ disk' = [disk EXCEPT ![f] = Rewritten(p, f)]
                /\ Notes(p, job[p].left \ {f}, (job[p].changed \/ disk[f] # Rewritten(p, f)),
                         job[p].gone)
<1>1. PICK f : f \in Left(p) /\ disk' = [disk EXCEPT ![f] = Rewritten(p, f)]
                /\ Moves(p, "sites", [job[p] EXCEPT !.left = job[p].left \ {f}, !.changed = (job[p].changed \/ disk[f] # Rewritten(p, f))])
  BY SiteDoes
<1>2. DOMAIN job[p] = JobFields /\ "sites" = "sites"
  BY DEF TurnInv
<1>3. job'[p] = [job[p] EXCEPT !.left = job[p].left \ {f}, !.changed = (job[p].changed \/ disk[f] # Rewritten(p, f))]
  BY <1>1, MovesTo
<1>4. Notes(p, job[p].left \ {f}, (job[p].changed \/ disk[f] # Rewritten(p, f)),
             job[p].gone)
  BY <1>2, <1>3 DEF Notes, JobFields
<1>5. pc'[p] = "sites" /\ \A q \in Procs \ {p} : pc'[q] = pc[q] /\ job'[q] = job[q]
  BY <1>1, MovesTo
<1>6. Onward(p, "sites")
  BY <1>2, <1>3, <1>5 DEF Onward, JobFields
<1> QED
  BY <1>1, <1>4, <1>6

LEMMA RemoveSees ==
    ASSUME TurnInv, NEW p \in Procs, Remove(p), scene' = scene
    PROVE  /\ Onward(p, "remove")
           /\ \E g :
                /\ g = FirstOf(RemoveOrder, job[p].left)
                /\ disk' = [disk EXCEPT ![g] = Absent]
                /\ Notes(p, job[p].left \ {g}, job[p].changed,
                         (job[p].gone \/ disk[g] # Absent))
<1>1. PICK g : g = FirstOf(RemoveOrder, job[p].left) /\ disk' = [disk EXCEPT ![g] = Absent]
                /\ Moves(p, "remove", [job[p] EXCEPT !.left = job[p].left \ {g}, !.gone = (job[p].gone \/ disk[g] # Absent)])
  BY RemoveDoes
<1>2. DOMAIN job[p] = JobFields /\ "remove" = "remove"
  BY DEF TurnInv
<1>3. job'[p] = [job[p] EXCEPT !.left = job[p].left \ {g}, !.gone = (job[p].gone \/ disk[g] # Absent)]
  BY <1>1, MovesTo
<1>4. Notes(p, job[p].left \ {g}, job[p].changed,
             (job[p].gone \/ disk[g] # Absent))
  BY <1>2, <1>3 DEF Notes, JobFields
<1>5. pc'[p] = "remove" /\ \A q \in Procs \ {p} : pc'[q] = pc[q] /\ job'[q] = job[q]
  BY <1>1, MovesTo
<1>6. Onward(p, "remove")
  BY <1>2, <1>3, <1>5 DEF Onward, JobFields
<1> QED
  BY <1>1, <1>4, <1>6

LEMMA NextPhaseSees ==
    ASSUME TurnInv, NEW p \in Procs, NextPhase(p), scene' = scene
    PROVE  Onward(p, After(p)) /\ Notes(p, Items(job[p], After(p)), (job[p].changed \/ job[p].gone), job[p].gone)
<1>1. DOMAIN job[p] = JobFields
  BY DEF TurnInv
<1>2. Moves(p, After(p), [job[p] EXCEPT !.left = Items(job[p], After(p)), !.changed = (job[p].changed \/ job[p].gone)])
  BY NextPhaseDoes
<1>3. /\ pc'[p] = After(p) /\ job'[p] = [job[p] EXCEPT !.left = Items(job[p], After(p)), !.changed = (job[p].changed \/ job[p].gone)]
      /\ \A q \in Procs \ {p} : pc'[q] = pc[q] /\ job'[q] = job[q]
  BY <1>2, MovesTo
<1> QED
  BY <1>1, <1>3 DEF Onward, Notes, JobFields

LEMMA ForgetSees ==
    ASSUME TurnInv, NEW p \in Procs, Forget(p), scene' = scene
    PROVE  Onward(p, After(p)) /\ Notes(p, job[p].left, job[p].changed, job[p].gone)
<1>1. DOMAIN job[p] = JobFields
  BY DEF TurnInv
<1>2. Moves(p, After(p), job[p])
  BY ForgetDoes
<1>3. /\ pc'[p] = After(p) /\ job'[p] = job[p]
      /\ \A q \in Procs \ {p} : pc'[q] = pc[q] /\ job'[q] = job[q]
  BY <1>2, MovesTo
<1> QED
  BY <1>1, <1>3 DEF Onward, Notes, JobFields

LEMMA TestPassesSees ==
    ASSUME TurnInv, NEW p \in Procs, TestPasses(p), scene' = scene
    PROVE  Onward(p, After(p)) /\ Notes(p, job[p].left, job[p].changed, job[p].gone)
<1>1. DOMAIN job[p] = JobFields
  BY DEF TurnInv
<1>2. Moves(p, After(p), job[p])
  BY TestPassesDoes
<1>3. /\ pc'[p] = After(p) /\ job'[p] = job[p]
      /\ \A q \in Procs \ {p} : pc'[q] = pc[q] /\ job'[q] = job[q]
  BY <1>2, MovesTo
<1> QED
  BY <1>1, <1>3 DEF Onward, Notes, JobFields

LEMMA TestFailsSees ==
    ASSUME TurnInv, NEW p \in Procs, TestFails(p), scene' = scene
    PROVE  Onward(p, "restore") /\ Notes(p, DOMAIN job[p].snap, job[p].changed, job[p].gone)
<1>1. DOMAIN job[p] = JobFields
  BY DEF TurnInv
<1>2. Moves(p, "restore", [job[p] EXCEPT !.left = DOMAIN job[p].snap])
  BY TestFailsDoes
<1>3. /\ pc'[p] = "restore" /\ job'[p] = [job[p] EXCEPT !.left = DOMAIN job[p].snap]
      /\ \A q \in Procs \ {p} : pc'[q] = pc[q] /\ job'[q] = job[q]
  BY <1>2, MovesTo
<1> QED
  BY <1>1, <1>3 DEF Onward, Notes, JobFields

LEMMA RestoreSees ==
    ASSUME TurnInv, NEW p \in Procs, Restore(p), scene' = scene
    PROVE  /\ Onward(p, "restore")
           /\ \E x :
                /\ x \in NextBack(p)
                /\ disk' = [disk EXCEPT ![x] = job[p].snap[x]]
                /\ Notes(p, job[p].left \ {x}, job[p].changed,
                         job[p].gone)
<1>1. PICK x : x \in NextBack(p) /\ disk' = [disk EXCEPT ![x] = job[p].snap[x]]
                /\ Moves(p, "restore", [job[p] EXCEPT !.left = job[p].left \ {x}])
  BY RestoreDoes
<1>2. DOMAIN job[p] = JobFields /\ "restore" = "restore"
  BY DEF TurnInv
<1>3. job'[p] = [job[p] EXCEPT !.left = job[p].left \ {x}]
  BY <1>1, MovesTo
<1>4. Notes(p, job[p].left \ {x}, job[p].changed,
             job[p].gone)
  BY <1>2, <1>3 DEF Notes, JobFields
<1>5. pc'[p] = "restore" /\ \A q \in Procs \ {p} : pc'[q] = pc[q] /\ job'[q] = job[q]
  BY <1>1, MovesTo
<1>6. Onward(p, "restore")
  BY <1>2, <1>3, <1>5 DEF Onward, JobFields
<1> QED
  BY <1>1, <1>4, <1>6

LEMMA RestoreFailsSees ==
    ASSUME TurnInv, NEW p \in Procs, RestoreFails(p), scene' = scene
    PROVE  /\ Onward(p, "restore")
           /\ \E x :
                /\ x \in NextBack(p)
                /\ Notes(p, job[p].left \ {x}, job[p].changed,
                         job[p].gone)
<1>1. PICK x : x \in NextBack(p)
                /\ Moves(p, "restore", [job[p] EXCEPT !.left = job[p].left \ {x}])
  BY RestoreFailsDoes
<1>2. DOMAIN job[p] = JobFields /\ "restore" = "restore"
  BY DEF TurnInv
<1>3. job'[p] = [job[p] EXCEPT !.left = job[p].left \ {x}]
  BY <1>1, MovesTo
<1>4. Notes(p, job[p].left \ {x}, job[p].changed,
             job[p].gone)
  BY <1>2, <1>3 DEF Notes, JobFields
<1>5. pc'[p] = "restore" /\ \A q \in Procs \ {p} : pc'[q] = pc[q] /\ job'[q] = job[q]
  BY <1>1, MovesTo
<1>6. Onward(p, "restore")
  BY <1>2, <1>3, <1>5 DEF Onward, JobFields
<1> QED
  BY <1>1, <1>4, <1>6

LEMMA RecordSees ==
    ASSUME TurnInv, NEW p \in Procs, Record(p), scene' = scene
    PROVE  Onward(p, After(p)) /\ Notes(p, Items(job[p], After(p)), job[p].changed, job[p].gone)
<1>1. DOMAIN job[p] = JobFields
  BY DEF TurnInv
<1>2. Moves(p, After(p), [job[p] EXCEPT !.left = Items(job[p], After(p))])
  BY RecordDoes
<1>3. /\ pc'[p] = After(p) /\ job'[p] = [job[p] EXCEPT !.left = Items(job[p], After(p))]
      /\ \A q \in Procs \ {p} : pc'[q] = pc[q] /\ job'[q] = job[q]
  BY <1>2, MovesTo
<1> QED
  BY <1>1, <1>3 DEF Onward, Notes, JobFields

LEMMA WriteFailsSees ==
    ASSUME TurnInv, NEW p \in Procs, WriteFails(p), scene' = scene
    PROVE  \/ /\ ~InTui(p) /\ Onward(p, "restore")
              /\ Notes(p, DOMAIN job[p].snap, job[p].changed, job[p].gone)
           \/ InTui(p) /\ pc[p] = "generate" /\ End(p)
           \/ /\ InTui(p) /\ pc[p] = "sites" /\ Onward(p, "sites")
              /\ job'[p].failed /\ job'[p].changed = job[p].changed
              /\ job'[p].gone = job[p].gone /\ job'[p].left \subseteq job[p].left
           \/ /\ InTui(p) /\ pc[p] = "remove" /\ Onward(p, After(p))
              /\ Notes(p, {}, job[p].changed, job[p].gone)
<1>0. DOMAIN job[p] = JobFields
  BY DEF TurnInv
<1>1. CASE /\ InTui(p) /\ pc[p] = "sites"
           /\ \E f : Moves(p, "sites", [job[p] EXCEPT !.left = @ \ {f}, !.failed = TRUE])
  <2>1. PICK f : Moves(p, "sites", [job[p] EXCEPT !.left = @ \ {f}, !.failed = TRUE])
    BY <1>1
  <2>2. /\ pc'[p] = "sites" /\ job'[p] = [job[p] EXCEPT !.left = @ \ {f}, !.failed = TRUE]
        /\ \A q \in Procs \ {p} : pc'[q] = pc[q] /\ job'[q] = job[q]
    BY <2>1, MovesTo
  <2>3. /\ Onward(p, "sites") /\ job'[p].failed /\ job'[p].changed = job[p].changed
        /\ job'[p].gone = job[p].gone /\ job'[p].left \subseteq job[p].left
    BY <1>0, <2>2 DEF Onward, JobFields
  <2> QED
    BY <1>1, <2>3
<1>2. CASE ~InTui(p) /\ Moves(p, "restore", [job[p] EXCEPT !.left = DOMAIN job[p].snap])
  <2>1. pc'[p] = "restore" /\ job'[p] = [job[p] EXCEPT !.left = DOMAIN job[p].snap]
    BY <1>2, MovesTo
  <2> QED
    BY <1>0, <1>2, <2>1, MovesTo DEF Onward, Notes, JobFields, Moves
<1>3. CASE InTui(p) /\ pc[p] = "remove" /\ Moves(p, After(p), [job[p] EXCEPT !.left = {}])
  <2>1. pc'[p] = After(p) /\ job'[p] = [job[p] EXCEPT !.left = {}]
    BY <1>3, MovesTo
  <2> QED
    BY <1>0, <1>3, <2>1, MovesTo DEF Onward, Notes, JobFields, Moves
<1> QED
  BY <1>1, <1>2, <1>3, WriteFailsDoes

-----------------------------------------------------------------------------
(* One file after another.                                                 *)

LEMMA FirstWritten ==
    ASSUME NEW S, S \subseteq Gens, S # {}
    PROVE  /\ FirstOf(WriteOrder, S) \in S
           /\ FirstOf(WriteOrder, S) = "untrusted" => "trusted" \notin S
<1> DEFINE Is(i) == WriteOrder[i] \in S /\ \A k \in 1 .. i - 1 : WriteOrder[k] \notin S
<1>1. DOMAIN WriteOrder = {1, 2, 3} /\ WriteOrder[1] = "trusted" /\ WriteOrder[2] = "limits"
      /\ WriteOrder[3] = "untrusted"
  BY DEF WriteOrder
<1>2. 1 .. 1 - 1 = {} /\ 1 .. 2 - 1 = {1} /\ 1 .. 3 - 1 = {1, 2}
  OBVIOUS
<1>3. \E i \in DOMAIN WriteOrder : Is(i)
  <2>1. CASE "trusted" \in S
    BY <1>1, <1>2, <2>1
  <2>2. CASE "trusted" \notin S /\ "limits" \in S
    BY <1>1, <1>2, <2>2
  <2>3. CASE "trusted" \notin S /\ "limits" \notin S
    <3>1. "untrusted" \in S
      BY <2>3 DEF Gens
    <3> QED
      BY <1>1, <1>2, <2>3, <3>1
  <2> QED
    BY <2>1, <2>2, <2>3
<1>4. \E i \in DOMAIN WriteOrder : Is(i) /\ FirstOf(WriteOrder, S) = WriteOrder[i]
  BY <1>3 DEF FirstOf
<1> QED
  BY <1>1, <1>2, <1>4

LEMMA FirstRemoved ==
    ASSUME NEW S, S \subseteq Gens, S # {}
    PROVE  /\ FirstOf(RemoveOrder, S) \in S
           /\ FirstOf(RemoveOrder, S) = "trusted" => "untrusted" \notin S
<1> DEFINE Is(i) == RemoveOrder[i] \in S /\ \A k \in 1 .. i - 1 : RemoveOrder[k] \notin S
<1>1. DOMAIN RemoveOrder = {1, 2, 3} /\ RemoveOrder[1] = "untrusted"
      /\ RemoveOrder[2] = "limits" /\ RemoveOrder[3] = "trusted"
  BY DEF RemoveOrder
<1>2. 1 .. 1 - 1 = {} /\ 1 .. 2 - 1 = {1} /\ 1 .. 3 - 1 = {1, 2}
  OBVIOUS
<1>3. \E i \in DOMAIN RemoveOrder : Is(i)
  <2>1. CASE "untrusted" \in S
    BY <1>1, <1>2, <2>1
  <2>2. CASE "untrusted" \notin S /\ "limits" \in S
    BY <1>1, <1>2, <2>2
  <2>3. CASE "untrusted" \notin S /\ "limits" \notin S
    <3>1. "trusted" \in S
      BY <2>3 DEF Gens
    <3> QED
      BY <1>1, <1>2, <2>3, <3>1
  <2> QED
    BY <2>1, <2>2, <2>3
<1>4. \E i \in DOMAIN RemoveOrder : Is(i) /\ FirstOf(RemoveOrder, S) = RemoveOrder[i]
  BY <1>3 DEF FirstOf
<1> QED
  BY <1>1, <1>2, <1>4

LEMMA NextBackIsLeft ==
    ASSUME NEW p \in Procs
    PROVE  NextBack(p) \subseteq job[p].left
<1> DEFINE new == job[p].left \intersect Written(job[p])
           old == (job[p].left \intersect Gens) \ new
<1>1. new \subseteq Gens /\ old \subseteq Gens
  BY DEF Written
<1>2. new # {} => FirstOf(WriteOrder, new) \in new
  BY <1>1, FirstWritten
<1>3. old # {} => FirstOf(RemoveOrder, old) \in old
  BY <1>1, FirstRemoved
<1> QED
  BY <1>2, <1>3 DEF NextBack

\* One place gets a new text.
Puts(x, v) ==
    /\ x \in Places /\ disk'[x] = v /\ Tree(disk)'
    /\ \A y \in Places \ {x} : disk'[y] = disk[y]

LEMMA WrittenAt ==
    ASSUME Tree(disk), NEW x \in Places, NEW v, disk' = [disk EXCEPT ![x] = v], scene' = scene,
           x \in Files => SiteFile(v)
    PROVE  Puts(x, v)
<1>1. disk' = [y \in Places |-> IF y = x THEN v ELSE disk[y]]
  BY DEF Tree
<1>2. \A f \in Files : f \in Places
  BY DEF Places
<1>3. Files' = Files /\ Places' = Places
  BY DEF Files, Places
<1>4. \A f \in Files : SiteFile(disk'[f])
  BY <1>1, <1>2 DEF Tree
<1> QED
  BY <1>1, <1>3, <1>4 DEF Puts, Tree

\* Nobody else's.
LEMMA OthersRest ==
    ASSUME TurnInv, NEW p \in Procs, Working(p), NEW q \in Procs, q # p
    PROVE  ~Working(q)
  BY DEF TurnInv

\* What does not concern an apply.
LEMMA Untouched ==
    ASSUME NEW p \in Procs, MemoryOf(p), pc'[p] = pc[p], job'[p] = job[p],
           UNCHANGED <<scene, settings, disk, rows, torn>>
    PROVE  MemoryOf(p)'
<1>1. rate' = rate /\ trust' = trust
  BY DEF settings
<1>2. /\ Files' = Files /\ Places' = Places /\ Faults' = Faults /\ Planned' = Planned
      /\ Block' = Block /\ Unneeded' = Unneeded
  BY <1>1 DEF Files, Places, Faults, Planned, Block, Unneeded
<1>3. /\ (Snapped(p)' <=> Snapped(p)) /\ (InTui(p)' <=> InTui(p)) /\ Target(p)' = Target(p)
      /\ Held(job[p])' = Held(job[p]) /\ Written(job[p])' = Written(job[p])
      /\ Touched(p)' = Touched(p) /\ (Tree(job[p].found)' <=> Tree(job[p].found))
  BY <1>2 DEF Snapped, InTui, Target, Held, Written, Touched, Tree
<1>4. \A x : SameAt(job[p].found, x)' <=> SameAt(job[p].found, x)
  BY <1>2 DEF SameAt
<1>5. ShapeOf(p)' /\ PlanOf(p)'
  BY <1>2, <1>3 DEF MemoryOf, ShapeOf, PlanOf, Held, Written
<1>6. PhaseOf(p)'
  BY <1>2, <1>3 DEF MemoryOf, PhaseOf, Written
<1>7. KeptOf(p)' /\ ChangedOf(p)'
  BY <1>2, <1>3, <1>4 DEF MemoryOf, KeptOf, ChangedOf
<1>8. RowsOf(p)'
  BY <1>3 DEF MemoryOf, RowsOf, Written
<1> QED
  BY <1>5, <1>6, <1>7, <1>8 DEF MemoryOf

\* An apply that has not begun, whatever happens around it.
LEMMA Resting ==
    ASSUME NEW p \in Procs, MemoryOf(p), pc'[p] = pc[p], job'[p] = job[p], ~Working(p),
           scene' = scene
    PROVE  MemoryOf(p)'
<1>1. pc'[p] \in {"idle", "lock"} /\ ~Snapped(p)' /\ Files' = Files
  BY DEF Working, Snapped, Files
<1>2. ShapeOf(p)'
  BY <1>1 DEF MemoryOf, ShapeOf
<1>3. PlanOf(p)'
  BY <1>1 DEF MemoryOf, PlanOf, Nothing
<1> QED
  BY <1>1, <1>2, <1>3 DEF MemoryOf, PhaseOf, KeptOf, RowsOf, ChangedOf

LEMMA Ended ==
    ASSUME TurnInv, NEW p \in Procs, End(p), scene' = scene
    PROVE  MemoryOf(p)'
<1>1. pc'[p] = "idle" /\ job'[p] = NoJob
  BY DEF End, Goto, TurnInv
<1>2. NoJob.scope = {} /\ NoJob.drop = {}
  BY DEF NoJob
<1>3. ~Snapped(p)'
  BY <1>1 DEF Snapped
<1> QED
  BY <1>1, <1>2, <1>3 DEF MemoryOf, ShapeOf, PlanOf, PhaseOf, KeptOf, RowsOf, ChangedOf

-----------------------------------------------------------------------------
(* What an apply knows, step by step.                                      *)

Later == {"generate", "sites", "remove", "forget", "test", "reload", "restore"}

LEMMA Requested ==
    ASSUME AppliesInv, NEW p \in Procs, NEW kind \in Kinds, Request(p, kind), scene' = scene
    PROVE  MemoryOf(p)'
<1>1. PICK scope \in (IF kind \in {"one", "tuiOne"} THEN {{f} : f \in Files} ELSE {Files}) :
        job' = [job EXCEPT ![p] = [NoJob EXCEPT !.kind = kind, !.scope = scope]]
  BY DEF Request
<1>2. pc'[p] \in {"plan", "lock"} /\ (kind = "strip" => pc'[p] = "lock")
  <2>1. pc'[p] = Flow[kind][1]
    BY DEF AppliesInv, TurnInv, Request, Goto
  <2> QED
    BY <2>1 DEF Flow, Kinds
<1>3. /\ job'[p].kind = kind /\ job'[p].scope = scope /\ job'[p].drop = {}
      /\ job'[p].writes = Nothing
  BY <1>1 DEF AppliesInv, TurnInv, NoJob
<1>4. scope \subseteq Files /\ (kind \notin {"one", "tuiOne"} => scope = Files)
  BY <1>1
<1>5. ~Snapped(p)' /\ Files' = Files
  BY <1>2 DEF Snapped, Files
<1>6. ShapeOf(p)' /\ PlanOf(p)'
  BY <1>2, <1>3, <1>4, <1>5 DEF ShapeOf, PlanOf, Nothing
<1> QED
  BY <1>2, <1>5, <1>6 DEF MemoryOf, PhaseOf, KeptOf, RowsOf, ChangedOf

LEMMA Locked ==
    ASSUME AppliesInv, NEW p \in Procs, Lock(p), scene' = scene
    PROVE  MemoryOf(p)'
<1>1. /\ pc[p] = "lock" /\ job'[p] = job[p] /\ MemoryOf(p)
      /\ pc'[p] = IF job[p].kind = "strip" THEN "snapshot" ELSE "plan"
  BY Afters DEF AppliesInv, TurnInv, Lock, GoOn
<1>2. job[p].kind # "tuiAll" /\ job[p].kind # "tuiOne"
  BY <1>1, SiteConstants DEF AppliesInv, TurnInv, LabelsOf, Requests
<1>3. ~Snapped(p)' /\ Files' = Files
  BY <1>1 DEF Snapped, Files
<1>4. ShapeOf(p)'
  BY <1>1, <1>3 DEF MemoryOf, ShapeOf
<1>5. PlanOf(p)'
  BY <1>1, <1>2, <1>3 DEF MemoryOf, PlanOf, Nothing
<1> QED
  BY <1>1, <1>2, <1>3, <1>4, <1>5 DEF MemoryOf, PhaseOf, KeptOf, RowsOf, ChangedOf

LEMMA PlanKeeps ==
    ASSUME AppliesInv, NEW p \in Procs, Plan(p), scene' = scene
    PROVE  MemoryOf(p)'
<1>1. /\ pc[p] = "plan" /\ MemoryOf(p) /\ UNCHANGED settings
      /\ pc'[p] = IF job[p].kind = "all" THEN "unused" ELSE "record"
  <2>1. pc[p] = "plan" /\ TurnInv /\ MemoryOf(p) /\ UNCHANGED settings
    BY DEF AppliesInv, Plan
  <2>2. pc'[p] = After(p)
    BY <2>1, PlanDoes, MovesTo
  <2> QED
    BY <2>1, <2>2, Afters
<1>2. DOMAIN job[p] = JobFields /\ job[p].kind # "strip"
  BY <1>1, SiteConstants DEF AppliesInv, TurnInv, LabelsOf, Requests
<1>3. job'[p] = [job[p] EXCEPT !.writes = Planned,
                               !.block = IF InTui(p) THEN Block ELSE NoBlock]
  <2>1. Moves(p, After(p), [job[p] EXCEPT !.writes = Planned,
                               !.block = IF InTui(p) THEN Block ELSE NoBlock])
    BY PlanDoes DEF AppliesInv
  <2> QED
    BY <2>1, MovesTo DEF AppliesInv
<1>4. /\ job'[p].kind = job[p].kind /\ job'[p].scope = job[p].scope
      /\ job'[p].drop = job[p].drop /\ job'[p].writes = Planned
      /\ InTui(p) => job'[p].block = Block
  BY <1>2, <1>3 DEF JobFields
<1>5. /\ ~Snapped(p)' /\ Files' = Files /\ Planned' = Planned /\ Block' = Block
      /\ (InTui(p)' <=> InTui(p))
  BY <1>1, <1>4 DEF Snapped, Files, Planned, Block, settings, InTui
<1>6. ShapeOf(p)' /\ PlanOf(p)'
  BY <1>1, <1>2, <1>4, <1>5 DEF MemoryOf, ShapeOf, PlanOf
<1>7. RowsOf(p)'
  BY <1>1, <1>4 DEF RowsOf
<1> QED
  BY <1>1, <1>5, <1>6, <1>7 DEF MemoryOf, PhaseOf, KeptOf, ChangedOf

LEMMA UnusedKeeps ==
    ASSUME AppliesInv, NEW p \in Procs, Unused(p), scene' = scene
    PROVE  MemoryOf(p)'
<1>1. /\ pc[p] = "unused" /\ MemoryOf(p) /\ UNCHANGED <<settings, rows>>
      /\ pc'[p] = "snapshot"
  <2>1. pc[p] = "unused" /\ TurnInv /\ MemoryOf(p) /\ UNCHANGED <<settings, rows>>
    BY DEF AppliesInv, Unused
  <2>2. pc'[p] = After(p)
    BY <2>1, UnusedDoes, MovesTo
  <2> QED
    BY <2>1, <2>2, Afters
<1>2. DOMAIN job[p] = JobFields /\ job[p].kind \in {"all", "tuiAll"}
  BY <1>1, SiteConstants DEF AppliesInv, TurnInv, LabelsOf, Requests, Kinds
<1>3. job'[p] = [job[p] EXCEPT !.drop = Unneeded]
  BY UnusedDoes, MovesTo DEF AppliesInv
<1>4. /\ job'[p].kind = job[p].kind /\ job'[p].scope = job[p].scope
      /\ job'[p].drop = Unneeded /\ job'[p].writes = job[p].writes
      /\ job'[p].block = job[p].block
  BY <1>2, <1>3 DEF JobFields
<1>5. /\ ~Snapped(p)' /\ Files' = Files /\ Planned' = Planned /\ Block' = Block
      /\ (InTui(p)' <=> InTui(p)) /\ Unneeded' = Unneeded
  BY <1>1, <1>4 DEF Snapped, Files, Planned, Block, settings, InTui, Unneeded
<1>6. ShapeOf(p)' /\ PlanOf(p)'
  BY <1>1, <1>2, <1>4, <1>5 DEF MemoryOf, ShapeOf, PlanOf, Unneeded
<1>7. RowsOf(p)'
  BY <1>1, <1>2, <1>4 DEF MemoryOf, RowsOf, Written
<1> QED
  BY <1>1, <1>5, <1>6, <1>7 DEF MemoryOf, PhaseOf, KeptOf, ChangedOf

LEMMA SnapshotKeeps ==
    ASSUME AppliesInv, NEW p \in Procs, Snapshot(p), scene' = scene
    PROVE  MemoryOf(p)'
<1> DEFINE j == Scoped(p)
           k == job'[p]
<1>1. /\ pc[p] = "snapshot" /\ MemoryOf(p) /\ UNCHANGED <<settings, rows, disk>>
      /\ pc'[p] = CASE job[p].kind = "all" -> "record"
                    [] job[p].kind = "strip" -> "sites"
                    [] OTHER -> "generate"
      /\ pc'[p] = After(p) /\ Tree(disk)
  BY Afters, SnapshotDoes, MovesTo DEF AppliesInv, TreeInv, Snapshot
<1>2. DOMAIN job[p] = JobFields
  BY DEF AppliesInv, TurnInv
<1>3. k = [j EXCEPT !.snap = [x \in Held(j) |-> disk[x]],
                    !.found = disk, !.left = Items(j, After(p))]
  <2>1. Moves(p, After(p), [j EXCEPT !.snap = [x \in Held(j) |-> disk[x]],
                                    !.found = disk, !.left = Items(j, After(p))])
    BY SnapshotDoes DEF AppliesInv
  <2> QED
    BY <2>1, MovesTo DEF AppliesInv
<1>4. /\ DOMAIN j = JobFields /\ j.kind = job[p].kind /\ j.writes = job[p].writes
      /\ j.block = job[p].block
      /\ job[p].kind = "strip" => j.changed = TRUE /\ j.scope = Blocked /\ j.drop = There
      /\ job[p].kind # "strip" => j.scope = job[p].scope /\ j.drop = job[p].drop
  BY <1>2 DEF Scoped, JobFields
<1>5. /\ k.kind = job[p].kind /\ k.writes = job[p].writes /\ k.block = job[p].block
      /\ k.scope = j.scope /\ k.drop = j.drop /\ k.changed = j.changed /\ k.found = disk
      /\ k.snap = [x \in Held(j) |-> disk[x]] /\ k.left = Items(j, After(p))
  BY <1>3, <1>4 DEF JobFields
<1>6. Held(k) = Held(j) /\ Written(k) = Written(j) /\ Written(k) = Written(job[p])
  BY <1>4, <1>5 DEF Held, Written
<1>7. /\ Files' = Files /\ Places' = Places /\ Planned' = Planned /\ Block' = Block
      /\ (InTui(p)' <=> InTui(p)) /\ Unneeded' = Unneeded
  BY <1>1, <1>5 DEF Files, Places, Planned, Block, settings, InTui, Unneeded
<1>8. ShapeOf(p)'
  <2>1. Tree(job[p].found)' /\ Held(job[p])' = Held(k)
    BY <1>1, <1>5, <1>7 DEF Held, Written, Tree
  <2>2. Blocked \subseteq Files /\ There \subseteq Gens
    BY DEF Blocked, There
  <2> QED
    BY <1>1, <1>4, <1>5, <1>6, <1>7, <2>1, <2>2 DEF MemoryOf, ShapeOf
<1>9. PlanOf(p)'
  <2>1. CASE job[p].kind = "strip"
    BY <1>1, <1>4, <1>5, <1>7, <2>1 DEF MemoryOf, PlanOf, Blocked, There, Nothing
  <2>2. CASE job[p].kind # "strip"
    BY <1>1, <1>4, <1>5, <1>7, <2>2 DEF MemoryOf, PlanOf
  <2> QED
    BY <2>1, <2>2
<1>10. PhaseOf(p)'
  <2>1. CASE pc'[p] = "generate"
    BY <1>1, <1>5, <1>6, <2>1 DEF PhaseOf, Items, Written
  <2>2. CASE pc'[p] = "sites"
    <3>1. job[p].kind = "strip" /\ job[p].writes = Nothing
      BY <1>1, <2>2 DEF MemoryOf, PlanOf
    <3>2. Written(k) = {}
      BY <1>6, <3>1 DEF Written, Nothing
    <3> QED
      BY <1>1, <1>5, <2>2, <3>2 DEF PhaseOf, Items, Written
  <2> QED
    BY <1>1, <2>1, <2>2 DEF PhaseOf
<1>11. \A x : SameAt(job[p].found, x)'
  BY <1>1, <1>5 DEF SameAt
<1>12. KeptOf(p)' /\ ChangedOf(p)'
  BY <1>1, <1>4, <1>5, <1>11 DEF KeptOf, ChangedOf
<1>13. RowsOf(p)'
  <2>1. job[p].kind \in {"one", "tuiAll", "tuiOne"} => Written(job[p]) \subseteq rows
    BY <1>1 DEF MemoryOf, RowsOf
  <2>2. job[p].kind \in Kinds
    BY <1>1, SiteConstants DEF AppliesInv, TurnInv, Requests
  <2>3. Written(job[p])' = Written(job[p])
    BY <1>5 DEF Written
  <2> QED
    BY <1>1, <1>5, <2>1, <2>2, <2>3 DEF RowsOf, Kinds
<1> QED
  BY <1>8, <1>9, <1>10, <1>12, <1>13 DEF MemoryOf

\* After the snapshot an apply only goes through its files.
LEMMA OnwardKeeps ==
    ASSUME AppliesInv, NEW p \in Procs, NEW l, Onward(p, l), Snapped(p), l \in Later,
           UNCHANGED settings, l = "restore" => job'[p].left \subseteq Held(job[p])
    PROVE  ShapeOf(p)' /\ PlanOf(p)'
<1>1. /\ Files' = Files /\ Places' = Places /\ Planned' = Planned /\ Block' = Block
      /\ (InTui(p)' <=> InTui(p)) /\ Unneeded' = Unneeded
  BY DEF Onward, Files, Places, Planned, Block, settings, InTui, Unneeded
<1>2. Held(job[p])' = Held(job[p]) /\ (Tree(job[p].found)' <=> Tree(job[p].found))
  BY <1>1 DEF Onward, Held, Written, Tree
<1>3. Snapped(p)' /\ pc'[p] = l /\ pc[p] \notin {"idle", "lock", "plan", "unused"}
      /\ (job[p].kind # "all" => pc[p] # "record")
  BY DEF Onward, Later, Snapped
<1>4. ShapeOf(p) /\ PlanOf(p)
  BY DEF AppliesInv, MemoryOf
<1>5. ShapeOf(p)'
  BY <1>1, <1>2, <1>3, <1>4 DEF Onward, ShapeOf
<1>6. PlanOf(p)'
  BY <1>1, <1>3, <1>4 DEF Onward, PlanOf
<1> QED
  BY <1>5, <1>6

\* A step from label to label that writes nothing.
LEMMA PassesKeeps ==
    ASSUME AppliesInv, NEW p \in Procs, NEW l, Onward(p, l), Snapped(p), l \in Later,
           UNCHANGED <<settings, rows, disk>>, l = "generate" => pc[p] = "generate",
           pc[p] # "restore" /\ ~torn' => l # "restore" \/ job'[p].left = Held(job[p]),
           pc[p] = "restore" \/ l = "restore" => l = "restore" /\ job'[p].left \subseteq Held(job[p]),
           pc[p] = "restore" => torn',
           ~torn' => ~torn,
           PhaseOf(p)',
           job'[p].gone = job[p].gone, ~job'[p].changed => ~job[p].changed
    PROVE  MemoryOf(p)'
<1>1. MemoryOf(p)
  BY DEF AppliesInv
<1>2. ShapeOf(p)' /\ PlanOf(p)'
  BY OnwardKeeps
<1>3. Snapped(p)' /\ Places' = Places /\ pc'[p] = l
  BY DEF Onward, Later, Snapped, Places, Files
<1>4. \A x : SameAt(job[p].found, x)' <=> SameAt(job[p].found, x)
  BY DEF Onward, SameAt, Faults
<1>5. Held(job[p])' = Held(job[p]) /\ Written(job[p])' = Written(job[p])
  BY DEF Onward, Held, Written
<1>6. KeptOf(p)'
  BY <1>1, <1>3, <1>4, <1>5 DEF MemoryOf, KeptOf, Touched
<1>7. ChangedOf(p)'
  BY <1>1, <1>3, <1>4 DEF MemoryOf, ChangedOf, Onward
<1>8. RowsOf(p)'
  BY <1>1, <1>3, <1>5 DEF MemoryOf, RowsOf, Later
<1> QED
  BY <1>2, <1>6, <1>7, <1>8 DEF MemoryOf

\* A step that writes one of the files the apply holds.
LEMMA WritesKeeps ==
    ASSUME AppliesInv, NEW p \in Procs, NEW l, Onward(p, l), pc[p] = l, Snapped(p),
           l \in {"generate", "sites", "remove"}, UNCHANGED <<settings, rows, torn>>,
           NEW x, NEW v, Puts(x, v), x \in Held(job[p]), PhaseOf(p)',
           \/ v = disk[x]
           \/ job'[p].changed
           \/ x \in Gens /\ v = Absent /\ job'[p].gone,
           job[p].gone => job'[p].gone, job[p].changed => job'[p].changed
    PROVE  MemoryOf(p)'
<1>1. MemoryOf(p)
  BY DEF AppliesInv
<1>2. ShapeOf(p)' /\ PlanOf(p)'
  BY OnwardKeeps DEF Later
<1>3. Snapped(p)' /\ Places' = Places /\ pc'[p] = l
  BY DEF Onward, Snapped, Places, Files
<1>4. \A y \in Places : y # x \/ v = disk[x] =>
        (SameAt(job[p].found, y)' <=> SameAt(job[p].found, y))
  BY DEF Onward, SameAt, Faults, Puts
<1>5. Held(job[p])' = Held(job[p]) /\ Written(job[p])' = Written(job[p])
  BY DEF Onward, Held, Written
<1>6. KeptOf(p)'
  BY <1>1, <1>3, <1>4, <1>5 DEF MemoryOf, KeptOf, Touched
<1>7. ChangedOf(p)'
  <2>1. SUFFICES ASSUME ~job'[p].changed
                 PROVE  /\ job'[p].kind # "strip"
                        /\ \A y \in Places : \/ SameAt(job[p].found, y)'
                                             \/ y \in Gens /\ disk'[y] = Absent /\ job'[p].gone
    BY <1>3 DEF ChangedOf
  <2>2. /\ job[p].kind # "strip"
        /\ \A y \in Places : \/ SameAt(job[p].found, y)
                             \/ y \in Gens /\ disk[y] = Absent /\ job[p].gone
    BY <1>1, <2>1 DEF MemoryOf, ChangedOf
  <2>3. \A y \in Places \ {x} : disk'[y] = disk[y]
    BY DEF Puts
  <2>4. disk'[x] = v
    BY DEF Puts
  <2> QED
    BY <1>4, <2>1, <2>2, <2>3, <2>4 DEF Onward
<1>8. RowsOf(p)'
  BY <1>1, <1>3, <1>5 DEF MemoryOf, RowsOf
<1> QED
  BY <1>2, <1>6, <1>7, <1>8 DEF MemoryOf

LEMMA GenerateKeeps ==
    ASSUME AppliesInv, NEW p \in Procs, Generate(p), scene' = scene
    PROVE  /\ MemoryOf(p)'
           /\ \E g \in job[p].left : Puts(g, job[p].writes[g])
                /\ g = FirstOf(WriteOrder, job[p].left)
<1>1. /\ pc[p] = "generate" /\ Onward(p, "generate") /\ Snapped(p) /\ job[p].left # {}
      /\ UNCHANGED <<settings, rows, torn>>
  BY GenerateSees DEF AppliesInv, Generate, Snapped, Left
<1>2. PICK g : /\ g = FirstOf(WriteOrder, job[p].left)
               /\ disk' = [disk EXCEPT ![g] = job[p].writes[g]]
               /\ Notes(p, job[p].left \ {g}, (job[p].changed \/ disk[g] # job[p].writes[g]),
                        job[p].gone)
  BY GenerateSees DEF AppliesInv
<1>3. /\ job[p].left \subseteq Written(job[p])
      /\ \A h \in Written(job[p]) \ job[p].left : disk[h] # Absent
  BY <1>1 DEF AppliesInv, MemoryOf, PhaseOf
<1>4. g \in job[p].left /\ g \in Gens /\ g \in Held(job[p]) /\ job[p].writes[g] # Absent
  BY <1>1, <1>2, <1>3, FirstWritten DEF Written, Held
<1>5. g \in Places /\ g \notin Files
  BY <1>4, SiteConstants DEF Places, Files, AppliesInv, TurnInv
<1>6. Puts(g, job[p].writes[g])
  BY <1>2, <1>5, WrittenAt DEF AppliesInv, TreeInv
<1>7. Written(job[p])' = Written(job[p])
  BY <1>1 DEF Onward, Written
<1>8. PhaseOf(p)'
  <2>1. \A h \in Gens \ {g} : disk'[h] = disk[h]
    BY <1>6 DEF Puts, Places
  <2>2. disk'[g] # Absent /\ pc'[p] = "generate" /\ job'[p].left = job[p].left \ {g}
    BY <1>1, <1>2, <1>4, <1>6 DEF Puts, Onward, Notes
  <2>3. Written(job[p]) \subseteq Gens
    BY DEF Written
  <2> QED
    BY <1>3, <1>7, <2>1, <2>2, <2>3 DEF PhaseOf
<1>9. /\ job'[p].changed = (job[p].changed \/ disk[g] # job[p].writes[g])
      /\ job'[p].gone = job[p].gone
  BY <1>2 DEF Notes
<1>10. MemoryOf(p)'
  BY <1>1, <1>4, <1>6, <1>8, <1>9, WritesKeeps
<1> QED
  BY <1>2, <1>4, <1>6, <1>10

LEMMA BlockOfGens == Block \subseteq Gens
  BY DEF Block, Gens

\* The block that a site gets, and that nobody else has to be there for it.
LEMMA Rewrites ==
    ASSUME AppliesInv, NEW p \in Procs, pc[p] = "sites", NEW f \in job[p].left
    PROVE  /\ f \in Files /\ f \in job[p].scope
           /\ Rewritten(p, f).block = Target(p)
           /\ SiteFile(Rewritten(p, f))
<1>1. ShapeOf(p) /\ PlanOf(p) /\ PhaseOf(p) /\ Tree(disk)
  BY DEF AppliesInv, MemoryOf, TreeInv
<1>2. f \in job[p].scope /\ f \in Files
  BY <1>1 DEF ShapeOf, PhaseOf
<1>3. disk[f] = [own |-> disk[f].own, block |-> disk[f].block]
  BY <1>1, <1>2 DEF Tree, SiteFile
<1>4. CASE job[p].kind = "strip"
  BY <1>2, <1>4 DEF Rewritten, Target, SiteFile
<1>5. CASE job[p].kind # "strip"
  <2>1. InTui(p) => job[p].block = Block
    BY <1>1, <1>5 DEF PlanOf
  <2>2. Rewritten(p, f) = [disk[f] EXCEPT !.block = Block]
    BY <1>5, <2>1 DEF Rewritten
  <2> QED
    BY <1>2, <1>3, <1>5, <2>2, BlockOfGens DEF Target, SiteFile
<1> QED
  BY <1>4, <1>5

LEMMA SiteKeeps ==
    ASSUME AppliesInv, NEW p \in Procs, Site(p), scene' = scene
    PROVE  /\ MemoryOf(p)'
           /\ \E f \in job[p].left : Puts(f, Rewritten(p, f))
<1>1. /\ pc[p] = "sites" /\ Onward(p, "sites") /\ Snapped(p)
      /\ UNCHANGED <<settings, rows, torn>>
  BY SiteSees DEF AppliesInv, Site, Snapped
<1>2. PICK f : /\ f \in Left(p)
               /\ disk' = [disk EXCEPT ![f] = Rewritten(p, f)]
               /\ Notes(p, job[p].left \ {f}, (job[p].changed \/ disk[f] # Rewritten(p, f)),
                        job[p].gone)
  BY SiteSees DEF AppliesInv
<1>3. f \in job[p].left
  BY <1>1, <1>2 DEF Left
<1>4. /\ f \in Files /\ f \in job[p].scope /\ Rewritten(p, f).block = Target(p)
      /\ SiteFile(Rewritten(p, f))
  BY <1>1, <1>3, Rewrites
<1>5. f \in Places /\ f \in Held(job[p])
  BY <1>4 DEF Places, Held
<1>6. Puts(f, Rewritten(p, f))
  BY <1>2, <1>4, <1>5, WrittenAt DEF AppliesInv, TreeInv
<1>7. Written(job[p])' = Written(job[p]) /\ Target(p)' = Target(p)
  BY <1>1 DEF Onward, Written, Target, Block, settings
<1>8. f \notin Gens
  BY <1>4, SiteConstants DEF Files, AppliesInv, TurnInv
<1>9. PhaseOf(p)'
  <2>1. PhaseOf(p) /\ job[p].scope \subseteq Files
    BY DEF AppliesInv, MemoryOf, ShapeOf
  <2>2. \A y \in Places \ {f} : disk'[y] = disk[y]
    BY <1>6 DEF Puts
  <2>3. (\A g \in Gens : disk'[g] = disk[g]) /\ \A e \in Files \ {f} : disk'[e] = disk[e]
    BY <1>8, <2>2 DEF Places
  <2>4. disk'[f].block = Target(p)
    BY <1>4, <1>6 DEF Puts
  <2>5. /\ pc'[p] = "sites" /\ job'[p].left = job[p].left \ {f} /\ job'[p].scope = job[p].scope
        /\ job'[p].failed = job[p].failed
    BY <1>1, <1>2 DEF Onward, Notes
  <2>6. \A g \in Written(job[p]) : g \in Gens
    BY DEF Written
  <2> QED
    BY <1>1, <1>7, <2>1, <2>3, <2>4, <2>5, <2>6 DEF PhaseOf
<1>10. /\ job'[p].changed = (job[p].changed \/ disk[f] # Rewritten(p, f))
       /\ job'[p].gone = job[p].gone
  BY <1>2 DEF Notes
<1>11. MemoryOf(p)'
  BY <1>1, <1>5, <1>6, <1>9, <1>10, WritesKeeps
<1> QED
  BY <1>3, <1>6, <1>11

\* Nothing that is removed is among what the apply has written.
LEMMA DropsOthers ==
    ASSUME AppliesInv, NEW p \in Procs, pc[p] = "remove"
    PROVE  /\ job[p].kind \in {"all", "strip", "tuiAll"}
           /\ job[p].drop \intersect Written(job[p]) = {}
<1>1. job[p].kind \in {"all", "strip", "tuiAll"}
  BY SiteConstants DEF AppliesInv, TurnInv, LabelsOf, Requests, Kinds
<1>2. PlanOf(p)
  BY DEF AppliesInv, MemoryOf
<1> QED
  BY <1>1, <1>2 DEF PlanOf, Written, Unneeded, Nothing

LEMMA RemoveKeeps ==
    ASSUME AppliesInv, NEW p \in Procs, Remove(p), scene' = scene
    PROVE  /\ MemoryOf(p)'
           /\ \E g \in job[p].left : Puts(g, Absent) /\ g = FirstOf(RemoveOrder, job[p].left)
<1>1. /\ pc[p] = "remove" /\ Onward(p, "remove") /\ Snapped(p) /\ job[p].left # {}
      /\ UNCHANGED <<settings, rows, torn>>
  BY RemoveSees DEF AppliesInv, Remove, Snapped, Left
<1>2. PICK g : /\ g = FirstOf(RemoveOrder, job[p].left)
               /\ disk' = [disk EXCEPT ![g] = Absent]
               /\ Notes(p, job[p].left \ {g}, job[p].changed, (job[p].gone \/ disk[g] # Absent))
  BY RemoveSees DEF AppliesInv
<1>3. PhaseOf(p) /\ job[p].drop \subseteq Gens /\ job[p].scope \subseteq Files
  BY DEF AppliesInv, MemoryOf, ShapeOf
<1>4. g \in job[p].left /\ g \in Gens /\ g \in Held(job[p]) /\ g \in job[p].drop
  BY <1>1, <1>2, <1>3, FirstRemoved DEF PhaseOf, Held
<1>5. g \in Places /\ g \notin Files
  BY <1>4, SiteConstants DEF Places, Files, AppliesInv, TurnInv
<1>6. Puts(g, Absent)
  BY <1>2, <1>5, WrittenAt DEF AppliesInv, TreeInv
<1>7. Written(job[p])' = Written(job[p]) /\ Target(p)' = Target(p)
  BY <1>1 DEF Onward, Written, Target, Block, settings
<1>8. PhaseOf(p)'
  <2>1. \A y \in Places \ {g} : disk'[y] = disk[y]
    BY <1>6 DEF Puts
  <2>2. (\A h \in Gens \ {g} : disk'[h] = disk[h]) /\ \A e \in Files : disk'[e] = disk[e]
    BY <1>5, <2>1 DEF Places
  <2>3. disk'[g] = Absent /\ g \notin Written(job[p])
    BY <1>1, <1>4, <1>6, DropsOthers DEF Puts
  <2>4. /\ pc'[p] = "remove" /\ job'[p].left = job[p].left \ {g} /\ job'[p].scope = job[p].scope
        /\ job'[p].failed = job[p].failed /\ job'[p].drop = job[p].drop
    BY <1>1, <1>2 DEF Onward, Notes
  <2>5. \A h \in Written(job[p]) : h \in Gens
    BY DEF Written
  <2> QED
    BY <1>1, <1>3, <1>7, <2>2, <2>3, <2>4, <2>5 DEF PhaseOf
<1>9. /\ job'[p].gone = (job[p].gone \/ disk[g] # Absent)
      /\ job'[p].changed = job[p].changed
  BY <1>2 DEF Notes
<1>10. MemoryOf(p)'
  BY <1>1, <1>4, <1>6, <1>8, <1>9, WritesKeeps
<1> QED
  BY <1>2, <1>4, <1>6, <1>10

LEMMA RecordKeeps ==
    ASSUME AppliesInv, NEW p \in Procs, Record(p), scene' = scene
    PROVE  MemoryOf(p)' /\ Written(job[p])' = Written(job[p]) /\ Written(job[p]) \subseteq rows'
<1>1. /\ pc[p] = "record" /\ MemoryOf(p) /\ UNCHANGED <<settings, disk, torn>>
      /\ Onward(p, After(p))
      /\ Notes(p, Items(job[p], After(p)), job[p].changed, job[p].gone)
      /\ pc'[p] = CASE job[p].kind = "all" -> "generate"
                    [] job[p].kind = "tuiAll" -> "unused"
                    [] OTHER -> "snapshot"
  <2>1. pc[p] = "record" /\ TurnInv /\ MemoryOf(p) /\ UNCHANGED <<settings, disk, torn>>
    BY DEF AppliesInv, Record
  <2>2. /\ Onward(p, After(p))
        /\ Notes(p, Items(job[p], After(p)), job[p].changed, job[p].gone)
    BY <2>1, RecordSees
  <2>3. pc'[p] = After(p)
    BY <2>2 DEF Onward
  <2> QED
    BY <2>1, <2>2, <2>3, Afters
<1>2. Written(job[p])' = Written(job[p]) /\ Held(job[p])' = Held(job[p])
  BY <1>1 DEF Onward, Written, Held
<1>3. Written(job[p]) \subseteq rows'
  BY DEF Record, Written
<1>4. RowsOf(p)'
  BY <1>2, <1>3 DEF RowsOf
<1>5. job[p].kind # "strip"
  BY <1>1, SiteConstants DEF AppliesInv, TurnInv, LabelsOf, Requests
<1>6. CASE job[p].kind = "all"
  <2>1. Snapped(p) /\ Snapped(p)' /\ pc'[p] = After(p) /\ Places' = Places
    BY <1>1, <1>6 DEF Snapped, Onward, Places, Files
  <2>2. ShapeOf(p)' /\ PlanOf(p)'
    BY <1>1, <1>6, <2>1, OnwardKeeps DEF Later
  <2>3. PhaseOf(p)'
    BY <1>1, <1>2, <1>6, <2>1 DEF PhaseOf, Items, Notes
  <2>4. \A x : SameAt(job[p].found, x)' <=> SameAt(job[p].found, x)
    BY <1>1 DEF Onward, SameAt, Faults
  <2>5. KeptOf(p)'
    BY <1>1, <1>2, <1>6, <2>1, <2>4 DEF MemoryOf, KeptOf, Touched
  <2>6. ChangedOf(p)'
    BY <1>1, <1>6, <2>1, <2>4 DEF MemoryOf, ChangedOf, Onward, Notes
  <2> QED
    BY <1>2, <1>3, <1>4, <2>2, <2>3, <2>5, <2>6 DEF MemoryOf
<1>7. CASE job[p].kind # "all"
  <2>1. pc'[p] \in {"unused", "snapshot"} /\ ~Snapped(p)' /\ Files' = Files
    BY <1>1, <1>7 DEF Snapped, Files, Onward
  <2>2. /\ Planned' = Planned /\ Block' = Block /\ Unneeded' = Unneeded
        /\ (InTui(p)' <=> InTui(p))
    BY <1>1 DEF Onward, Planned, Block, settings, InTui, Unneeded
  <2>3. job[p].kind = "tuiAll" => pc'[p] = "unused"
    BY <1>1
  <2>4. ShapeOf(p)' /\ PlanOf(p)'
    BY <1>1, <1>5, <1>7, <2>1, <2>2, <2>3 DEF MemoryOf, ShapeOf, PlanOf, Onward
  <2> QED
    BY <1>2, <1>3, <1>4, <2>1, <2>4 DEF MemoryOf, PhaseOf, KeptOf, ChangedOf
<1> QED
  BY <1>6, <1>7

LEMMA NextPhaseKeeps ==
    ASSUME AppliesInv, NEW p \in Procs, NextPhase(p), scene' = scene
    PROVE  MemoryOf(p)'
<1>1. /\ pc[p] \in {"generate", "sites", "remove"} /\ Left(p) = {} /\ MemoryOf(p)
      /\ UNCHANGED <<settings, rows, disk, torn>> /\ TurnInv
  BY DEF AppliesInv, NextPhase
<1>2. /\ Onward(p, After(p))
      /\ Notes(p, Items(job[p], After(p)), (job[p].changed \/ job[p].gone), job[p].gone)
  BY <1>1, NextPhaseSees
<1>3. /\ pc[p] = "generate" => After(p) = "sites"
      /\ pc[p] = "sites" => After(p) \in {"test", "remove"}
      /\ pc[p] = "remove" => After(p) \in {"forget", "test"}
  BY <1>1, Afters
<1>4. /\ Written(job[p])' = Written(job[p]) /\ Target(p)' = Target(p)
      /\ pc'[p] = After(p) /\ job'[p].scope = job[p].scope /\ job'[p].drop = job[p].drop
      /\ job'[p].left = Items(job[p], After(p)) /\ job'[p].failed = job[p].failed
  BY <1>1, <1>2 DEF Onward, Notes, Written, Target, Block, settings
<1>5. PhaseOf(p)'
  <2>1. CASE pc[p] = "generate"
    BY <1>1, <1>3, <1>4, <2>1 DEF MemoryOf, PhaseOf, Items, Left
  <2>2. CASE pc[p] = "sites"
    BY <1>1, <1>3, <1>4, <2>2 DEF MemoryOf, PhaseOf, Items, Left
  <2>3. CASE pc[p] = "remove"
    BY <1>1, <1>3, <1>4, <2>3 DEF MemoryOf, PhaseOf, Items, Left
  <2> QED
    BY <1>1, <2>1, <2>2, <2>3
<1>6. Snapped(p) /\ After(p) \in Later \ {"generate", "restore"}
  BY <1>1, <1>3 DEF Snapped, Later
<1>7. job'[p].gone = job[p].gone /\ (~job'[p].changed => ~job[p].changed)
  BY <1>2 DEF Notes
<1> QED
  BY <1>1, <1>2, <1>5, <1>6, <1>7, PassesKeeps

LEMMA ForgetKeeps ==
    ASSUME AppliesInv, NEW p \in Procs, Forget(p), scene' = scene
    PROVE  MemoryOf(p)'
<1>1. /\ pc[p] = "forget" /\ UNCHANGED <<settings, disk, torn>> /\ MemoryOf(p)
      /\ Onward(p, "test") /\ Notes(p, job[p].left, job[p].changed, job[p].gone)
  BY ForgetSees, Afters DEF AppliesInv, Forget
<1>2. Snapped(p) /\ Snapped(p)' /\ pc'[p] = "test" /\ Places' = Places
  BY <1>1 DEF Snapped, Onward, Places, Files
<1>3. ShapeOf(p)' /\ PlanOf(p)'
  BY <1>1, <1>2, OnwardKeeps DEF Later
<1>4. Written(job[p])' = Written(job[p]) /\ Held(job[p])' = Held(job[p])
  BY <1>1 DEF Onward, Written, Held
<1>5. \A x : SameAt(job[p].found, x)' <=> SameAt(job[p].found, x)
  BY <1>1 DEF Onward, SameAt, Faults
<1>6. PhaseOf(p)'
  BY <1>1, <1>2, <1>4 DEF MemoryOf, PhaseOf
<1>7. KeptOf(p)'
  BY <1>1, <1>2, <1>4, <1>5 DEF MemoryOf, KeptOf, Touched
<1>8. ChangedOf(p)'
  BY <1>1, <1>2, <1>5 DEF MemoryOf, ChangedOf, Onward, Notes
<1> QED
  BY <1>2, <1>3, <1>6, <1>7, <1>8 DEF MemoryOf, RowsOf

LEMMA TestPassesKeeps ==
    ASSUME AppliesInv, NEW p \in Procs, TestPasses(p), scene' = scene
    PROVE  MemoryOf(p)'
<1>1. /\ pc[p] = "test" /\ UNCHANGED <<settings, rows, disk, torn>> /\ MemoryOf(p)
      /\ Onward(p, "reload") /\ Notes(p, job[p].left, job[p].changed, job[p].gone)
  BY TestPassesSees, Afters DEF AppliesInv, TestPasses
<1>2. Snapped(p) /\ pc'[p] = "reload" /\ Written(job[p])' = Written(job[p])
  BY <1>1 DEF Snapped, Onward, Written
<1>3. PhaseOf(p)'
  BY <1>1, <1>2 DEF MemoryOf, PhaseOf
<1> QED
  BY <1>1, <1>2, <1>3, PassesKeeps DEF Later, Notes

\* An apply that is to be put back has everything it holds still to put back.
LEMMA PutsBack ==
    ASSUME AppliesInv, NEW p \in Procs, Snapped(p), pc[p] # "restore", Onward(p, "restore"),
           Notes(p, DOMAIN job[p].snap, job[p].changed, job[p].gone),
           UNCHANGED <<settings, rows, disk, torn>>
    PROVE  MemoryOf(p)'
<1>1. DOMAIN job[p].snap = Held(job[p])
  BY DEF AppliesInv, MemoryOf, ShapeOf
<1>2. PhaseOf(p)'
  BY DEF Onward, PhaseOf
<1> QED
  BY <1>1, <1>2, PassesKeeps DEF Later, Notes

LEMMA TestFailsKeeps ==
    ASSUME AppliesInv, NEW p \in Procs, TestFails(p), scene' = scene
    PROVE  MemoryOf(p)'
<1>1. /\ pc[p] = "test" /\ UNCHANGED <<settings, rows, disk, torn>>
      /\ Onward(p, "restore")
      /\ Notes(p, DOMAIN job[p].snap, job[p].changed, job[p].gone)
  BY TestFailsSees DEF AppliesInv, TestFails
<1> QED
  BY <1>1, PutsBack DEF Snapped

LEMMA WriteFailsKeeps ==
    ASSUME AppliesInv, NEW p \in Procs, WriteFails(p), scene' = scene
    PROVE  MemoryOf(p)'
<1>1. /\ pc[p] \in {"generate", "sites", "remove"} /\ Snapped(p) /\ MemoryOf(p)
      /\ UNCHANGED <<settings, rows, disk, torn>> /\ TurnInv
  BY DEF AppliesInv, WriteFails, Snapped
<1>2. CASE Onward(p, "restore") /\ Notes(p, DOMAIN job[p].snap, job[p].changed, job[p].gone)
  BY <1>1, <1>2, PutsBack
<1>3. CASE End(p)
  BY <1>1, <1>3, Ended
<1>4. CASE /\ pc[p] = "sites" /\ Onward(p, "sites")
           /\ job'[p].failed /\ job'[p].changed = job[p].changed
           /\ job'[p].gone = job[p].gone /\ job'[p].left \subseteq job[p].left
  <2>1. /\ pc'[p] = "sites" /\ job'[p].scope = job[p].scope
        /\ Written(job[p])' = Written(job[p])
    BY <1>4 DEF Onward, Written
  <2>2. PhaseOf(p)'
    BY <1>1, <1>4, <2>1 DEF MemoryOf, PhaseOf
  <2> QED
    BY <1>1, <1>4, <2>2, PassesKeeps DEF Later
<1>5. CASE /\ InTui(p) /\ pc[p] = "remove" /\ Onward(p, After(p))
           /\ Notes(p, {}, job[p].changed, job[p].gone)
  <2>1. After(p) \in {"test", "forget"}
    BY <1>1, <1>5, Afters
  <2>2. pc'[p] = After(p) /\ Written(job[p])' = Written(job[p])
    BY <1>5 DEF Onward, Written
  <2>3. PhaseOf(p)'
    BY <1>1, <1>5, <2>1, <2>2 DEF MemoryOf, PhaseOf
  <2> QED
    BY <1>1, <1>5, <2>1, <2>3, PassesKeeps DEF Later, Notes
<1> QED
  BY <1>1, <1>2, <1>3, <1>4, <1>5, WriteFailsSees

LEMMA RestoreFailsKeeps ==
    ASSUME AppliesInv, NEW p \in Procs, RestoreFails(p), scene' = scene
    PROVE  MemoryOf(p)'
<1>1. /\ pc[p] = "restore" /\ Snapped(p) /\ UNCHANGED <<settings, rows, disk>> /\ torn'
      /\ Onward(p, "restore")
  BY RestoreFailsSees DEF AppliesInv, RestoreFails, Snapped
<1>2. PICK x \in NextBack(p) : Notes(p, job[p].left \ {x}, job[p].changed, job[p].gone)
  BY RestoreFailsSees DEF AppliesInv
<1>3. job[p].left \subseteq Held(job[p])
  BY <1>1 DEF AppliesInv, MemoryOf, ShapeOf
<1>4. PhaseOf(p)'
  BY <1>1 DEF Onward, PhaseOf
<1>5. /\ job'[p].left \subseteq Held(job[p]) /\ job'[p].gone = job[p].gone
      /\ job'[p].changed = job[p].changed
  BY <1>2, <1>3 DEF Notes
<1> QED
  BY <1>1, <1>4, <1>5, PassesKeeps DEF Later

\* A file that is put back is as the apply found it.
LEMMA RestoreKeeps ==
    ASSUME AppliesInv, NEW p \in Procs, Restore(p), scene' = scene
    PROVE  MemoryOf(p)' /\ Tree(disk)'
<1>1. /\ pc[p] = "restore" /\ Snapped(p) /\ UNCHANGED <<settings, rows, torn>>
      /\ Onward(p, "restore")
  BY RestoreSees DEF AppliesInv, Restore, Snapped
<1>2. PICK x \in NextBack(p) : /\ disk' = [disk EXCEPT ![x] = job[p].snap[x]]
                               /\ Notes(p, job[p].left \ {x}, job[p].changed, job[p].gone)
  BY RestoreSees DEF AppliesInv
<1>3. MemoryOf(p) /\ Tree(disk)
  BY DEF AppliesInv, TreeInv
<1>4. /\ job[p].left \subseteq Held(job[p]) /\ Held(job[p]) \subseteq Places
      /\ Tree(job[p].found) /\ job[p].snap = [y \in Held(job[p]) |-> job[p].found[y]]
  BY <1>1, <1>3 DEF MemoryOf, ShapeOf, Held, Written, Places
<1>5. x \in job[p].left /\ x \in Places /\ job[p].snap[x] = job[p].found[x]
  BY <1>4, NextBackIsLeft
<1>6. x \in Files => SiteFile(job[p].snap[x])
  BY <1>4, <1>5 DEF Tree
<1>7. Puts(x, job[p].snap[x])
  BY <1>2, <1>3, <1>5, <1>6, WrittenAt
<1>8. disk'[x] = job[p].found[x] /\ \A y \in Places \ {x} : disk'[y] = disk[y]
  BY <1>5, <1>7 DEF Puts
<1>9. /\ pc'[p] = "restore" /\ job'[p].found = job[p].found /\ job'[p].left = job[p].left \ {x}
      /\ Places' = Places
  BY <1>1, <1>2 DEF Onward, Notes, Places, Files
<1>10. ShapeOf(p)' /\ PlanOf(p)'
  BY <1>1, <1>4, <1>9, OnwardKeeps DEF Later
<1>11. KeptOf(p)'
  <2>1. SUFFICES ASSUME ~torn, NEW y \in Places, y \notin job'[p].left
                 PROVE  SameAt(job[p].found, y)'
    BY <1>1, <1>9 DEF KeptOf, Touched
  <2>2. CASE y = x
    BY <1>8, <1>9, <2>2 DEF SameAt
  <2>3. CASE y # x
    <3>1. SameAt(job[p].found, y) /\ disk'[y] = disk[y]
      BY <1>1, <1>3, <1>8, <1>9, <2>1, <2>3 DEF MemoryOf, KeptOf, Touched
    <3> QED
      BY <1>9, <3>1 DEF SameAt, Faults
  <2> QED
    BY <2>2, <2>3
<1> QED
  BY <1>7, <1>9, <1>10, <1>11 DEF MemoryOf, PhaseOf, RowsOf, ChangedOf, Puts

\* A site file that is edited by hand keeps its block.
LEMMA HandEditKeeps ==
    ASSUME AppliesInv, NEW f \in Files, HandEdit(f), scene' = scene, NEW p \in Procs
    PROVE  MemoryOf(p)'
<1>1. /\ pc'[p] = pc[p] /\ job'[p] = job[p] /\ MemoryOf(p)
      /\ UNCHANGED <<settings, rows, torn>> /\ Tree(disk)
  BY DEF HandEdit, AppliesInv, TreeInv
<1>2. CASE ~Working(p)
  BY <1>1, <1>2, Resting
<1>3. CASE Working(p)
  <2>1. "hand" \in Faults
    BY <1>3 DEF HandEdit, Quiet, Working
  <2>2. /\ \A x \in Gens : disk'[x] = disk[x]
        /\ \A e \in Files : disk'[e].block = disk[e].block
    BY <1>1, SiteConstants DEF HandEdit, Tree, SiteFile, Places, Files, AppliesInv, TurnInv
  <2>3. /\ Files' = Files /\ Places' = Places /\ Faults' = Faults /\ Planned' = Planned
        /\ Block' = Block /\ Unneeded' = Unneeded
    BY <1>1 DEF Files, Places, Faults, Planned, Block, settings, Unneeded
  <2>4. /\ (Snapped(p)' <=> Snapped(p)) /\ (InTui(p)' <=> InTui(p)) /\ Target(p)' = Target(p)
        /\ Held(job[p])' = Held(job[p]) /\ Written(job[p])' = Written(job[p])
        /\ Touched(p)' = Touched(p) /\ (Tree(job[p].found)' <=> Tree(job[p].found))
    BY <1>1, <2>3 DEF Snapped, InTui, Target, Held, Written, Touched, Tree
  <2>5. \A x \in Places : SameAt(job[p].found, x)' <=> SameAt(job[p].found, x)
    BY <1>1, <2>1, <2>2, <2>3 DEF SameAt, Places
  <2>6. ShapeOf(p)' /\ PlanOf(p)'
    BY <1>1, <2>3, <2>4 DEF MemoryOf, ShapeOf, PlanOf, Held, Written
  <2>7. PhaseOf(p)'
    <3>1. job[p].drop \subseteq Gens /\ job[p].scope \subseteq Files /\ Written(job[p]) \subseteq Gens
      BY <1>1 DEF MemoryOf, ShapeOf, Written
    <3> QED
      BY <1>1, <2>2, <2>4, <3>1 DEF MemoryOf, PhaseOf
  <2>8. KeptOf(p)'
    BY <1>1, <2>3, <2>4, <2>5 DEF MemoryOf, KeptOf
  <2>9. ChangedOf(p)'
    BY <1>1, <2>2, <2>3, <2>4, <2>5 DEF MemoryOf, ChangedOf
  <2>10. RowsOf(p)'
    BY <1>1, <2>4 DEF MemoryOf, RowsOf
  <2> QED
    BY <2>6, <2>7, <2>8, <2>9, <2>10 DEF MemoryOf
<1> QED
  BY <1>2, <1>3

-----------------------------------------------------------------------------
(* Every step keeps what the applies know.                                 *)

LEMMA AppliesInit == Init => AppliesInv
<1> SUFFICES ASSUME Init PROVE AppliesInv
  OBVIOUS
<1>1. /\ scene \in Scenes /\ rate \in BOOLEAN /\ trust \in Trusts
      /\ pc = [p \in Procs |-> "idle"] /\ job = [p \in Procs |-> NoJob] /\ lock = Free
  BY DEF Init
<1>2. DOMAIN NoJob = JobFields /\ NoJob.scope = {} /\ NoJob.drop = {}
  BY DEF NoJob, JobFields
<1>3. TurnInv
  BY <1>1, <1>2 DEF TurnInv, Labels, Working
<1>4. TreeInv
  <2>1. trust \in TrustLists
    BY <1>1, SiteConstants DEF Trusts
  <2>2. PICK bare \in BOOLEAN :
          disk = [x \in Places |->
                    IF x \in Gens THEN IF bare THEN Absent ELSE Planned[x]
                    ELSE [own |-> "ok", block |-> IF bare THEN NoBlock ELSE Block]]
    BY DEF Init
  <2>3. \A f \in Files : f \in Places /\ f \notin Gens
    BY <1>1, SiteConstants DEF Files, Places
  <2> QED
    BY <1>1, <2>1, <2>2, <2>3, BlockOfGens DEF TreeInv, Tree, SiteFile
<1>5. ASSUME NEW p \in Procs PROVE MemoryOf(p)
  <2>1. pc[p] = "idle" /\ job[p] = NoJob /\ ~Snapped(p)
    BY <1>1 DEF Snapped
  <2> QED
    BY <1>2, <2>1 DEF MemoryOf, ShapeOf, PlanOf, PhaseOf, KeptOf, RowsOf, ChangedOf
<1> QED
  BY <1>3, <1>4, <1>5 DEF AppliesInv

LEMMA StepKeeps ==
    ASSUME AppliesInv, NEW p \in Procs, scene' = scene,
           Step(p) \/ WriteFails(p) \/ RestoreFails(p), ~End(p)
    PROVE  MemoryOf(p)' /\ TreeInv'
<1>1. TreeInv /\ Files' = Files /\ Places' = Places
  BY DEF AppliesInv, Files, Places
<1>2. (Tree(disk) <=> Tree(disk)') /\ UNCHANGED settings => TreeInv'
  BY <1>1 DEF TreeInv, settings
<1>3. UNCHANGED disk => (Tree(disk) <=> Tree(disk)')
  BY <1>1 DEF Tree
<1>4. Tree(disk)
  BY <1>1 DEF TreeInv
<1>5. ASSUME NEW x, NEW v, Puts(x, v) PROVE Tree(disk)'
  BY <1>5 DEF Puts
<1>6. CASE Plan(p)
  BY <1>2, <1>3, <1>6, PlanKeeps DEF Plan
<1>7. CASE Unused(p)
  BY <1>2, <1>3, <1>7, UnusedKeeps DEF Unused
<1>8. CASE Record(p)
  BY <1>2, <1>3, <1>8, RecordKeeps DEF Record
<1>9. CASE Snapshot(p)
  BY <1>2, <1>3, <1>9, SnapshotKeeps DEF Snapshot
<1>10. CASE Generate(p)
  BY <1>2, <1>4, <1>5, <1>10, GenerateKeeps DEF Generate
<1>11. CASE Site(p)
  BY <1>2, <1>4, <1>5, <1>11, SiteKeeps DEF Site
<1>12. CASE Remove(p)
  BY <1>2, <1>4, <1>5, <1>12, RemoveKeeps DEF Remove
<1>13. CASE NextPhase(p)
  BY <1>2, <1>3, <1>13, NextPhaseKeeps DEF NextPhase
<1>14. CASE Forget(p)
  BY <1>2, <1>3, <1>14, ForgetKeeps DEF Forget
<1>15. CASE TestPasses(p)
  BY <1>2, <1>3, <1>15, TestPassesKeeps DEF TestPasses
<1>16. CASE TestFails(p)
  BY <1>2, <1>3, <1>16, TestFailsKeeps DEF TestFails
<1>17. CASE Restore(p)
  BY <1>2, <1>4, <1>17, RestoreKeeps DEF Restore
<1>18. CASE WriteFails(p)
  BY <1>2, <1>3, <1>18, WriteFailsKeeps DEF WriteFails
<1>19. CASE RestoreFails(p)
  BY <1>2, <1>3, <1>19, RestoreFailsKeeps DEF RestoreFails
<1>20. CASE NothingToStrip(p) \/ UpToDate(p) \/ Restored(p) \/ Reload(p) \/ ReloadFails(p)
  BY <1>20 DEF NothingToStrip, UpToDate, Restored, Reload, ReloadFails
<1> QED
  BY <1>6, <1>7, <1>8, <1>9, <1>10, <1>11, <1>12, <1>13, <1>14, <1>15, <1>16, <1>17,
     <1>18, <1>19, <1>20 DEF Step

\* Ending an apply touches no file.
LEMMA EndsAlone ==
    ASSUME NEW p \in Procs, End(p), scene' = scene,
           Busy(p) \/ Step(p) \/ WriteFails(p) \/ RestoreFails(p) \/ Crash(p), TurnInv
    PROVE  /\ UNCHANGED <<settings, rows, disk, torn>>
           /\ \/ Busy(p) \/ NothingToStrip(p) \/ UpToDate(p) \/ Restored(p) \/ Reload(p)
              \/ ReloadFails(p) \/ Crash(p)
              \/ WriteFails(p) /\ InTui(p) /\ pc[p] = "generate"
<1>1. pc'[p] = "idle"
  BY DEF End, Goto, TurnInv
<1>2. \A l : Onward(p, l) => l = "idle"
  BY <1>1 DEF Onward
<1>3. pc[p] \notin {"idle", "reload", "restore"} => After(p) # "idle"
  BY Afters
<1>4. ~Plan(p)
  BY <1>1, <1>3, PlanDoes, MovesTo DEF Plan
<1>5. ~Unused(p)
  BY <1>1, <1>3, UnusedDoes, MovesTo DEF Unused
<1>6. ~Record(p)
  BY <1>2, <1>3, RecordSees DEF Record
<1>7. ~Snapshot(p)
  BY <1>1, <1>3, SnapshotDoes, MovesTo DEF Snapshot
<1>8. ~Generate(p) /\ ~Site(p) /\ ~Remove(p)
  BY <1>2, GenerateSees, SiteSees, RemoveSees
<1>9. ~NextPhase(p)
  BY <1>2, <1>3, NextPhaseSees DEF NextPhase
<1>10. ~Forget(p) /\ ~TestPasses(p)
  BY <1>2, <1>3, ForgetSees, TestPassesSees DEF Forget, TestPasses
<1>11. ~TestFails(p) /\ ~Restore(p) /\ ~RestoreFails(p)
  BY <1>2, TestFailsSees, RestoreSees, RestoreFailsSees
<1>12. CASE WriteFails(p)
  <2>1. pc[p] = "remove" => After(p) # "idle"
    BY <1>3
  <2> QED
    BY <1>2, <1>12, <2>1, WriteFailsSees DEF WriteFails
<1>13. CASE Busy(p) \/ NothingToStrip(p) \/ UpToDate(p) \/ Restored(p) \/ Reload(p)
            \/ ReloadFails(p) \/ Crash(p)
  BY <1>13 DEF Busy, NothingToStrip, UpToDate, Restored, Reload, ReloadFails, Crash
<1> QED
  BY <1>4, <1>5, <1>6, <1>7, <1>8, <1>9, <1>10, <1>11, <1>12, <1>13 DEF Step

\* The other applies are where they were.
LEMMA OnlyOne ==
    ASSUME TurnInv, NEW p \in Procs, scene' = scene,
           \/ \E kind \in Kinds : Request(p, kind)
           \/ Lock(p) \/ Busy(p) \/ Step(p) \/ WriteFails(p) \/ RestoreFails(p) \/ Crash(p),
           NEW q \in Procs \ {p}
    PROVE  pc'[q] = pc[q] /\ job'[q] = job[q]
<1>1. CASE End(p)
  BY <1>1 DEF End, Goto, TurnInv
<1>2. CASE \E l : Onward(p, l)
  BY <1>2 DEF Onward
<1>3. CASE \E l, j : Moves(p, l, j)
  BY <1>3, MovesTo
<1>4. CASE (\E kind \in Kinds : Request(p, kind)) \/ Lock(p)
  BY <1>4 DEF Request, Lock, GoOn, Goto, TurnInv
<1>5. CASE WriteFails(p)
  BY <1>1, <1>2, <1>5, WriteFailsSees
<1>6. Step(p) => End(p) \/ (\E l : Onward(p, l)) \/ \E l, j : Moves(p, l, j)
  BY PlanDoes, UnusedDoes, SnapshotDoes, RecordSees, GenerateSees, SiteSees, RemoveSees,
     NextPhaseSees, ForgetSees, TestPassesSees, TestFailsSees, RestoreSees
     DEF Step, NothingToStrip, UpToDate, Restored, Reload, ReloadFails
<1> QED
  BY <1>1, <1>2, <1>3, <1>4, <1>5, <1>6, RestoreFailsSees DEF Busy, Crash

LEMMA AppliesStep == AppliesInv /\ OneAtATime /\ [Next]_vars => AppliesInv'
<1> SUFFICES ASSUME AppliesInv, OneAtATime, [Next]_vars PROVE AppliesInv'
  OBVIOUS
<1>1. TurnInv /\ TurnInv' /\ TreeInv /\ \A q \in Procs : MemoryOf(q)
  BY TurnStep DEF AppliesInv
<1>2. ASSUME UNCHANGED <<scene, settings, disk, rows, torn, pc, job>>
      PROVE  AppliesInv'
  <2>1. \A q \in Procs : MemoryOf(q)'
    BY <1>1, <1>2, Untouched
  <2>2. TreeInv'
    BY <1>1, <1>2 DEF TreeInv, Tree, settings, Places, Files
  <2> QED
    BY <1>1, <2>1, <2>2 DEF AppliesInv
<1>3. ASSUME scene' = scene, NEW p \in Procs,
             \/ \E kind \in Kinds : Request(p, kind)
             \/ Lock(p) \/ Busy(p) \/ Step(p) \/ WriteFails(p) \/ RestoreFails(p) \/ Crash(p)
      PROVE  AppliesInv'
  <2>1. \A q \in Procs \ {p} : pc'[q] = pc[q] /\ job'[q] = job[q]
    BY <1>1, <1>3, OnlyOne
  <2>2. ASSUME UNCHANGED <<settings, disk, rows, torn>>, MemoryOf(p)'
        PROVE  AppliesInv'
    <3>1. \A q \in Procs \ {p} : MemoryOf(q)'
      BY <1>1, <1>3, <2>1, <2>2, Untouched
    <3>2. TreeInv'
      BY <1>1, <1>3, <2>2 DEF TreeInv, Tree, settings, Places, Files
    <3> QED
      BY <1>1, <2>2, <3>1, <3>2 DEF AppliesInv
  <2>3. CASE \E kind \in Kinds : Request(p, kind)
    BY <1>3, <2>2, <2>3, Requested DEF Request
  <2>4. CASE Lock(p)
    BY <1>3, <2>2, <2>4, Locked DEF Lock
  <2>5. CASE End(p) /\ (Busy(p) \/ Step(p) \/ WriteFails(p) \/ RestoreFails(p) \/ Crash(p))
    BY <1>1, <1>3, <2>2, <2>5, Ended, EndsAlone
  <2>6. CASE ~End(p) /\ (Step(p) \/ WriteFails(p) \/ RestoreFails(p))
    <3>1. Working(p)
      BY <2>6 DEF Working, Step, Plan, Unused, Record, Snapshot, NothingToStrip, Generate,
         Site, Remove, NextPhase, Forget, UpToDate, TestPasses, TestFails, Restore,
         Restored, Reload, ReloadFails, WriteFails, RestoreFails
    <3>2. \A q \in Procs \ {p} : ~Working(q)
      BY <1>1, <3>1, OthersRest
    <3>3. \A q \in Procs \ {p} : MemoryOf(q)'
      BY <1>1, <1>3, <2>1, <3>2, Resting
    <3> QED
      BY <1>1, <1>3, <2>6, <3>3, StepKeeps DEF AppliesInv
  <2> QED
    BY <1>3, <2>3, <2>4, <2>5, <2>6 DEF Busy, Crash
<1>4. CASE scene' = scene /\ ChangeSettings
  <2>1. \A q \in Procs : ~Working(q)
    BY <1>1, <1>4 DEF ChangeSettings, OneAtATime, Faults, TurnInv, Quiet, Working
  <2>2. \A q \in Procs : MemoryOf(q)'
    BY <1>1, <1>4, <2>1, Resting DEF ChangeSettings
  <2>3. TreeInv'
    BY <1>1, <1>4, SiteConstants DEF ChangeSettings, TreeInv, Tree, Places, Files, Trusts, TurnInv
  <2> QED
    BY <1>1, <2>2, <2>3 DEF AppliesInv
<1>5. CASE scene' = scene /\ \E f \in Files : HandEdit(f)
  <2>1. \A q \in Procs : MemoryOf(q)'
    BY <1>5, HandEditKeeps
  <2>2. PICK f \in Files : HandEdit(f)
    BY <1>5
  <2>3. UNCHANGED settings /\ Files' = Files /\ Places' = Places /\ f \in Places
    BY <1>5, <2>2 DEF HandEdit, Files, Places
  <2> DEFINE v == [own |-> IF disk[f].own = "ok" THEN "bad" ELSE "ok", block |-> disk[f].block]
  <2>4. SiteFile(disk[f]) /\ Tree(disk)
    BY <1>1 DEF TreeInv, Tree
  <2>5. [disk[f] EXCEPT !.own = IF @ = "ok" THEN "bad" ELSE "ok"] = v
    BY <2>4 DEF SiteFile
  <2>6. disk' = [disk EXCEPT ![f] = [disk[f] EXCEPT !.own = IF @ = "ok" THEN "bad" ELSE "ok"]]
    BY <2>2 DEF HandEdit
  <2>7. SiteFile(v)
    BY <2>4 DEF SiteFile
  <2>8. Puts(f, v)
    BY <1>5, <2>3, <2>4, <2>5, <2>6, <2>7, WrittenAt
  <2>9. TreeInv'
    BY <1>1, <2>3, <2>8 DEF TreeInv, settings, Puts
  <2> QED
    BY <1>1, <2>1, <2>9 DEF AppliesInv
<1>6. CASE scene' = scene /\ HostReload
  BY <1>2, <1>6 DEF HostReload
<1>7. CASE UNCHANGED vars
  BY <1>2, <1>7 DEF vars
<1> QED
  BY <1>3, <1>4, <1>5, <1>6, <1>7 DEF Next

-----------------------------------------------------------------------------
(* At every point in between.                                              *)

\* What is generated for a block that refers to it.
LEMMA PlannedForBlock ==
    ASSUME TreeInv
    PROVE  /\ \A g \in Block : g \in Gens /\ Planned[g] # Absent
           /\ Planned["untrusted"] # Absent => Planned["trusted"] # Absent
<1>1. trust \in TrustLists /\ Absent \notin TrustLists /\ Absent # "zone"
  BY SiteConstants DEF TreeInv
<1>2. \A g \in Block : g \in Gens /\ Planned[g] # Absent
  BY <1>1 DEF Block, Planned, Gens
<1>3. Planned["untrusted"] # Absent => Planned["trusted"] # Absent
  BY <1>1 DEF Planned, Gens
<1> QED
  BY <1>2, <1>3

LEMMA ResolvesAsMuch ==
    ASSUME NEW d, NEW e, Resolves(d), \A g \in Gens : e[g] = d[g],
           \A f \in Files : e[f].block = d[f].block /\ SiteFile(d[f])
    PROVE  Resolves(e)
<1>1. ASSUME NEW x \in Places PROVE Needs(e, x) = Needs(d, x) /\ Needs(d, x) \subseteq Gens
  <2>1. CASE x \in Gens
    BY <2>1 DEF Needs, Gens
  <2>2. CASE x \in Files /\ x \notin Gens
    BY <2>2 DEF Needs, SiteFile
  <2> QED
    BY <2>1, <2>2 DEF Places
<1> QED
  BY <1>1 DEF Resolves

\* A generated file that nobody needs can go.
LEMMA GoneUnneeded ==
    ASSUME NEW g \in Gens, scene' = scene, Resolves(disk), TurnInv, Tree(disk),
           \A y \in Places \ {g} : disk'[y] = disk[y], disk'[g] = Absent,
           \A f \in Files : disk[f].block = NoBlock \/ g \notin disk[f].block,
           g = "trusted" => disk["untrusted"] = Absent
    PROVE  Resolves(disk)'
<1>1. Files \intersect Gens = {} /\ Places' = Places /\ Files' = Files
  BY SiteConstants DEF TurnInv, Files, Places
<1>2. ASSUME NEW x \in Places, NEW h \in Needs(disk', x)
      PROVE  disk'[h] # Absent
  <2>1. h \in Needs(disk, x) /\ h \in Gens /\ h # g
    <3>1. CASE x \in Gens
      <4>1. x = "untrusted" /\ disk'[x] # Absent /\ h = "trusted"
        BY <1>2, <3>1 DEF Needs
      <4>2. x # g /\ disk[x] # Absent
        BY <4>1
      <4> QED
        BY <3>1, <4>1, <4>2 DEF Needs, Gens
    <3>2. CASE x \notin Gens
      <4>1. x \in Files /\ disk'[x] = disk[x]
        BY <3>2 DEF Places
      <4>2. h \in Needs(disk, x) /\ disk[x].block # NoBlock /\ h \in disk[x].block
        BY <1>2, <3>2, <4>1 DEF Needs
      <4>3. disk[x].block \subseteq Gens
        BY <4>1, <4>2 DEF Tree, SiteFile
      <4> QED
        BY <4>1, <4>2, <4>3
    <3> QED
      BY <3>1, <3>2
  <2>2. disk[h] # Absent /\ disk'[h] = disk[h]
    BY <2>1 DEF Resolves, Places
  <2> QED
    BY <2>2
<1> QED
  BY <1>1, <1>2 DEF Resolves, Needs

\* Every generated file is written before the one that needs it.
LEMMA GenerateResolves ==
    ASSUME AppliesInv, NEW p \in Procs, Generate(p), scene' = scene, Resolves(disk)
    PROVE  Resolves(disk)'
<1>1. PICK g \in job[p].left : /\ Puts(g, job[p].writes[g])
                               /\ g = FirstOf(WriteOrder, job[p].left)
  BY GenerateKeeps
<1>2. /\ job[p].left \subseteq Written(job[p]) /\ job[p].left \subseteq Gens
      /\ \A h \in Written(job[p]) \ job[p].left : disk[h] # Absent
      /\ PlanOf(p) /\ pc[p] = "generate"
  BY DEF Generate, AppliesInv, MemoryOf, PhaseOf, Written
<1>3. g \in Gens /\ g \in Places /\ job[p].writes[g] # Absent
  BY <1>1, <1>2 DEF Written, Places
<1>4. job[p].writes = Planned
  BY <1>2, <1>3 DEF PlanOf, Nothing
<1>5. \A y \in Places \ {g} : disk'[y] = disk[y]
  BY <1>1 DEF Puts
<1>6. disk'[g] # Absent
  BY <1>1, <1>3 DEF Puts
<1>7. \A h : disk[h] # Absent /\ h \in Places => disk'[h] # Absent
  BY <1>5, <1>6
<1>8. Places' = Places /\ Files' = Files
  BY DEF Places, Files
<1>9. ASSUME NEW x \in Places, NEW h \in Needs(disk', x)
      PROVE  disk'[h] # Absent
  <2>1. CASE x = g
    <3>1. g = "untrusted" /\ h = "trusted"
      BY <1>3, <1>9, <2>1 DEF Needs
    <3>2. "trusted" \notin job[p].left
      BY <1>1, <1>2, <3>1, FirstWritten
    <3>3. Planned["trusted"] # Absent
      BY <1>3, <1>4, <3>1, PlannedForBlock DEF AppliesInv
    <3>4. disk["trusted"] # Absent
      BY <1>2, <1>4, <3>2, <3>3 DEF Written, Gens
    <3> QED
      BY <1>7, <3>1, <3>4 DEF Places, Gens
  <2>2. CASE x # g
    <3>1. Needs(disk', x) = Needs(disk, x)
      BY <1>5, <2>2 DEF Needs
    <3>2. disk[h] # Absent
      BY <1>9, <3>1 DEF Resolves
    <3>3. h \in Gens
      <4>1. CASE x \in Gens
        BY <1>9, <4>1 DEF Needs, Gens
      <4>2. CASE x \in Files /\ x \notin Gens
        BY <1>9, <3>1, <4>2 DEF Needs, AppliesInv, TreeInv, Tree, SiteFile
      <4> QED
        BY <4>1, <4>2 DEF Places
    <3> QED
      BY <1>7, <3>2, <3>3 DEF Places
  <2> QED
    BY <2>1, <2>2
<1> QED
  BY <1>8, <1>9 DEF Resolves, Needs

\* A block refers to files that are written before it.
LEMMA SiteResolves ==
    ASSUME AppliesInv, NEW p \in Procs, Site(p), scene' = scene, Resolves(disk)
    PROVE  Resolves(disk)'
<1>1. PICK f \in job[p].left : Puts(f, Rewritten(p, f))
  BY SiteKeeps
<1>2. pc[p] = "sites" /\ PlanOf(p) /\ \A g \in Written(job[p]) : disk[g] # Absent
  BY DEF Site, AppliesInv, MemoryOf, PhaseOf
<1>3. /\ f \in Files /\ f \notin Gens /\ f \in Places
      /\ Rewritten(p, f).block = Target(p)
  BY <1>2, Rewrites, SiteConstants DEF AppliesInv, TurnInv, Files, Places
<1>4. \A y \in Places \ {f} : disk'[y] = disk[y]
  BY <1>1 DEF Puts
<1>5. disk'[f].block = Target(p)
  BY <1>1, <1>3 DEF Puts
<1>6. \A h \in Gens : disk'[h] = disk[h]
  BY <1>3, <1>4 DEF Places
<1>7. ASSUME NEW x \in Places, NEW h \in Needs(disk', x)
      PROVE  disk'[h] # Absent
  <2>1. CASE x = f
    <3>1. h \in Block /\ job[p].kind # "strip"
      BY <1>3, <1>5, <1>7, <2>1 DEF Needs, Target
    <3>2. h \in Gens /\ Planned[h] # Absent
      BY <3>1, PlannedForBlock DEF AppliesInv
    <3>3. job[p].writes = Planned
      BY <1>2, <3>1 DEF PlanOf
    <3> QED
      BY <1>2, <1>6, <3>2, <3>3 DEF Written
  <2>2. CASE x # f
    <3>1. Needs(disk', x) = Needs(disk, x)
      BY <1>4, <2>2 DEF Needs
    <3>2. disk[h] # Absent
      BY <1>7, <3>1 DEF Resolves
    <3>3. h \in Gens
      <4>1. CASE x \in Gens
        BY <1>7, <4>1 DEF Needs, Gens
      <4>2. CASE x \in Files /\ x \notin Gens
        BY <1>7, <3>1, <4>2 DEF Needs, AppliesInv, TreeInv, Tree, SiteFile
      <4> QED
        BY <4>1, <4>2 DEF Places
    <3> QED
      BY <1>6, <3>2, <3>3
  <2> QED
    BY <2>1, <2>2
<1> QED
  BY <1>7 DEF Resolves, Needs, Places, Files

\* What is removed is not referred to any more.
LEMMA RemoveResolves ==
    ASSUME AppliesInv, NEW p \in Procs, Remove(p), scene' = scene, Resolves(disk), ~torn
    PROVE  Resolves(disk)'
<1>1. PICK g \in job[p].left : Puts(g, Absent) /\ g = FirstOf(RemoveOrder, job[p].left)
  BY RemoveKeeps
<1>2. /\ pc[p] = "remove" /\ Snapped(p) /\ ~job[p].failed /\ TreeInv
      /\ ShapeOf(p) /\ PlanOf(p) /\ PhaseOf(p) /\ KeptOf(p)
  BY DEF Remove, Left, Snapped, AppliesInv, MemoryOf
<1>3. /\ job[p].left \subseteq job[p].drop /\ job[p].drop \subseteq Gens
      /\ \A f \in job[p].scope : disk[f].block = Target(p)
      /\ \A h \in job[p].drop \ job[p].left : disk[h] = Absent
  BY <1>2 DEF PhaseOf, ShapeOf
<1>4. g \in Gens /\ g \in job[p].drop /\ g \in Places
  BY <1>1, <1>3 DEF Places
<1>5. \A y \in Places \ {g} : disk'[y] = disk[y]
  BY <1>1 DEF Puts
<1>6. disk'[g] = Absent
  BY <1>1 DEF Puts
<1>7. job[p].kind \in {"all", "strip", "tuiAll"}
  BY <1>2, DropsOthers
<1>8. CASE job[p].kind # "strip"
  <2>1. job[p].drop = Unneeded /\ job[p].scope = Files
    BY <1>2, <1>7, <1>8 DEF PlanOf
  <2>2. \A f \in Files : disk[f].block = Block /\ g \notin Block
    BY <1>3, <1>4, <1>8, <2>1, PlannedForBlock, <1>2 DEF Target, Unneeded
  <2>3. g = "trusted" => disk["untrusted"] = Absent
    <3>1. g = "trusted" => "untrusted" \in job[p].drop \ job[p].left
      BY <1>1, <1>2, <1>3, <1>4, <2>1, FirstRemoved, PlannedForBlock DEF Unneeded, Gens
    <3> QED
      BY <1>3, <3>1
  <2> QED
    BY <1>2, <1>4, <1>5, <1>6, <2>2, <2>3, GoneUnneeded DEF AppliesInv, TreeInv
<1>9. CASE job[p].kind = "strip"
  <2>1. /\ job[p].drop = {h \in Gens : job[p].found[h] # Absent}
        /\ job[p].scope = {f \in Files : job[p].found[f].block # NoBlock}
        /\ job[p].writes = Nothing
    BY <1>2, <1>9 DEF PlanOf
  <2>2. Written(job[p]) = {}
    BY <2>1 DEF Written, Nothing
  <2>3. Files \intersect Gens = {}
    BY SiteConstants DEF AppliesInv, TurnInv, Files
  <2>4. \A x \in Places : x \notin job[p].drop \union job[p].scope => SameAt(job[p].found, x)
    BY <1>2, <2>2 DEF KeptOf, Touched, Held
  <2>5. \A f \in Files : disk[f].block = NoBlock
    <3>1. SUFFICES ASSUME NEW f \in Files PROVE disk[f].block = NoBlock
      OBVIOUS
    <3>2. CASE f \in job[p].scope
      BY <1>3, <1>9, <3>2 DEF Target
    <3>3. CASE f \notin job[p].scope
      <4>1. f \in Places /\ f \notin Gens /\ f \notin job[p].drop
        BY <1>3, <2>3 DEF Places
      <4>2. SameAt(job[p].found, f) /\ job[p].found[f].block = NoBlock
        BY <2>1, <2>4, <3>3, <4>1
      <4> QED
        BY <4>1, <4>2 DEF SameAt
    <3> QED
      BY <3>2, <3>3
  <2>6. g = "trusted" => disk["untrusted"] = Absent
    <3>1. SUFFICES ASSUME g = "trusted" PROVE disk["untrusted"] = Absent
      OBVIOUS
    <3>2. "untrusted" \notin job[p].left
      BY <1>1, <1>3, <3>1, FirstRemoved
    <3>3. CASE "untrusted" \in job[p].drop
      BY <1>3, <3>2, <3>3
    <3>4. CASE "untrusted" \notin job[p].drop
      <4>1. "untrusted" \in Gens /\ "untrusted" \in Places /\ "untrusted" \notin job[p].scope
        BY <2>1, <2>3 DEF Gens, Places
      <4>2. SameAt(job[p].found, "untrusted") /\ job[p].found["untrusted"] = Absent
        BY <2>1, <2>4, <3>4, <4>1
      <4> QED
        BY <4>1, <4>2 DEF SameAt
    <3> QED
      BY <3>3, <3>4
  <2> QED
    BY <1>2, <1>4, <1>5, <1>6, <2>5, <2>6, GoneUnneeded DEF AppliesInv, TreeInv
<1> QED
  BY <1>8, <1>9

\* A tree that has been put back is the one the apply found.
LEMMA PutBackSame ==
    ASSUME AppliesInv, NEW p \in Procs, pc[p] = "restore", job[p].left = {}, ~torn
    PROVE  /\ Snapped(p) /\ Tree(job[p].found) /\ Tree(disk)
           /\ \A x \in Places : SameAt(job[p].found, x)
  BY DEF AppliesInv, MemoryOf, ShapeOf, KeptOf, Touched, Snapped, TreeInv

LEMMA SameResolves ==
    ASSUME NEW d, TurnInv, Tree(disk), Tree(d), \A x \in Places : SameAt(d, x)
    PROVE  /\ Resolves(d) => Resolves(disk)
           /\ Ours(disk) = Ours(d)
<1>1. \A g \in Gens : disk[g] = d[g]
  BY DEF SameAt, Places
<1>2. \A f \in Files : disk[f].block = d[f].block /\ SiteFile(d[f])
  BY SiteConstants DEF SameAt, Places, Tree, TurnInv, Files
<1>3. Ours(disk) = Ours(d)
  BY <1>1, <1>2 DEF Ours, Places
<1> QED
  BY <1>1, <1>2, <1>3, ResolvesAsMuch

\* Only a put-back that fails tears the tree, and nothing mends it.
LEMMA TornStays == [Next]_vars => (torn => torn')
  BY DEF Next, vars, Request, Lock, Busy, Step, Plan, Unused, Record, Snapshot, NothingToStrip,
     Generate, Site, Remove, NextPhase, Forget, UpToDate, TestPasses, TestFails, Restore,
     Restored, Reload, ReloadFails, WriteFails, RestoreFails, Crash, ChangeSettings, HandEdit,
     HostReload

\* The steps of an apply that is past the lock.
Works(p) ==
    Working(p) /\ (Step(p) \/ WriteFails(p) \/ RestoreFails(p) \/ Crash(p))

LEMMA ResolvesWorks ==
    ASSUME AppliesInv, ResolvesInv, OneAtATime, NEW p \in Procs, scene' = scene, Works(p),
           ~torn, ~torn'
    PROVE  /\ pc'[p] # "restore" => Resolves(disk)'
           /\ Snapped(p)' => Resolves(job[p].found)'
<1>1. TurnInv /\ Places' = Places
  BY DEF AppliesInv, Places, Files
<1>2. \A q \in Procs \ {p} : ~Working(q)
  BY <1>1, OthersRest DEF Works
<1>3. pc[p] # "restore" => Resolves(disk)
  BY <1>2 DEF ResolvesInv, Working
<1>4. Snapped(p) => Resolves(job[p].found)
  BY DEF ResolvesInv
<1>5. UNCHANGED disk => (Resolves(disk)' <=> Resolves(disk))
  BY <1>1 DEF Resolves, Needs
<1>6. job'[p].found = job[p].found => (Resolves(job[p].found)' <=> Resolves(job[p].found))
  BY <1>1 DEF Resolves, Needs
<1>7. CASE End(p)
  <2>1. ~Snapped(p)' /\ UNCHANGED disk
    BY <1>1, <1>7, EndsAlone DEF Works, End, Goto, TurnInv, Snapped
  <2>2. CASE pc[p] # "restore"
    BY <1>3, <1>5, <2>1, <2>2
  <2>3. CASE pc[p] = "restore"
    <3>1. Restored(p)
      <4>1. pc[p] \notin CrashAt
        BY <1>1, <2>3 DEF OneAtATime, CrashAt, TurnInv
      <4> QED
        BY <1>1, <1>7, <2>3, <4>1, EndsAlone DEF Works, Busy, NothingToStrip, UpToDate, Reload,
           ReloadFails, Crash
    <3>2. job[p].left = {}
      BY <3>1 DEF Restored
    <3>3. Resolves(disk)
      BY <1>1, <1>4, <2>3, <3>2, PutBackSame, SameResolves
    <3> QED
      BY <1>5, <2>1, <3>3
  <2> QED
    BY <2>2, <2>3
<1>8. ASSUME NEW l, Onward(p, l), Snapped(p)' => Snapped(p),
             l # "restore" => pc[p] # "restore" /\ UNCHANGED disk
      PROVE  /\ pc'[p] # "restore" => Resolves(disk)'
             /\ Snapped(p)' => Resolves(job[p].found)'
  BY <1>3, <1>4, <1>5, <1>6, <1>8 DEF Onward
<1>9. CASE Plan(p) \/ Unused(p)
  <2>1. pc'[p] = After(p) /\ UNCHANGED disk /\ pc[p] \in {"plan", "unused"}
    BY <1>1, <1>9, PlanDoes, UnusedDoes, MovesTo DEF Plan, Unused
  <2>2. ~Snapped(p)'
    <3>1. After(p) \in {"record", "unused", "snapshot"}
      BY <1>1, <2>1, Afters
    <3>2. After(p) = "record" => job[p].kind # "all" /\ job'[p].kind = job[p].kind
      <4>1. After(p) = "record" => job[p].kind # "all" /\ Plan(p)
        BY <1>1, <1>9, <2>1, Afters DEF Unused
      <4>2. Plan(p) => job'[p] = [job[p] EXCEPT !.writes = Planned,
                                    !.block = IF InTui(p) THEN Block ELSE NoBlock]
        <5>1. Plan(p) =>
                Moves(p, After(p), [job[p] EXCEPT !.writes = Planned,
                                      !.block = IF InTui(p) THEN Block ELSE NoBlock])
          BY <1>1, PlanDoes
        <5> QED
          BY <1>1, <5>1, MovesTo
      <4>3. DOMAIN job[p] = JobFields
        BY <1>1 DEF TurnInv
      <4> QED
        BY <4>1, <4>2, <4>3 DEF JobFields
    <3> QED
      BY <2>1, <3>1, <3>2 DEF Snapped
  <2> QED
    BY <1>3, <1>5, <2>1, <2>2
<1>10. CASE Snapshot(p)
  <2>1. /\ pc[p] = "snapshot" /\ UNCHANGED disk
        /\ job'[p] = [Scoped(p) EXCEPT !.snap = [x \in Held(Scoped(p)) |-> disk[x]],
                              !.found = disk, !.left = Items(Scoped(p), After(p))]
    <3>1. Moves(p, After(p), [Scoped(p) EXCEPT !.snap = [x \in Held(Scoped(p)) |-> disk[x]],
                                !.found = disk, !.left = Items(Scoped(p), After(p))])
      BY <1>1, <1>10, SnapshotDoes
    <3>2. job'[p] = [Scoped(p) EXCEPT !.snap = [x \in Held(Scoped(p)) |-> disk[x]],
                              !.found = disk, !.left = Items(Scoped(p), After(p))]
      BY <1>1, <3>1, MovesTo
    <3> QED
      BY <1>10, <3>2 DEF Snapshot
  <2>2. DOMAIN Scoped(p) = JobFields
    BY <1>1 DEF TurnInv, Scoped, JobFields
  <2>3. job'[p].found = disk
    BY <2>1, <2>2 DEF JobFields
  <2>4. Resolves(disk)'
    BY <1>3, <1>5, <2>1
  <2> QED
    BY <2>1, <2>3, <2>4 DEF Resolves, Needs
<1>11. CASE Record(p)
  <2>1. /\ pc[p] = "record" /\ UNCHANGED disk /\ Onward(p, After(p))
    BY <1>1, <1>11, RecordSees DEF Record
  <2>2. Snapped(p)' => Snapped(p)
    BY <1>1, <2>1, Afters DEF Snapped, Onward
  <2> QED
    BY <1>8, <2>1, <2>2
<1>12. CASE NextPhase(p) \/ Forget(p) \/ TestPasses(p) \/ TestFails(p)
  BY <1>1, <1>8, <1>12, NextPhaseSees, ForgetSees, TestPassesSees, TestFailsSees
     DEF NextPhase, Forget, TestPasses, TestFails, Snapped
<1>13. CASE WriteFails(p) /\ ~End(p)
  BY <1>1, <1>8, <1>13, WriteFailsSees DEF WriteFails, Snapped
<1>14. CASE Restore(p) \/ RestoreFails(p)
  BY <1>1, <1>8, <1>14, RestoreSees, RestoreFailsSees DEF Restore, RestoreFails, Snapped
<1>15. CASE Generate(p) \/ Site(p) \/ Remove(p)
  <2>1. /\ pc[p] \in {"generate", "sites", "remove"} /\ Snapped(p) /\ \E l : Onward(p, l)
    BY <1>1, <1>15, GenerateSees, SiteSees, RemoveSees DEF Generate, Site, Remove, Snapped
  <2>2. Resolves(disk)'
    BY <1>3, <1>15, <2>1, GenerateResolves, SiteResolves, RemoveResolves
  <2> QED
    BY <1>4, <1>6, <2>1, <2>2 DEF Onward
<1>16. CASE Busy(p) \/ NothingToStrip(p) \/ UpToDate(p) \/ Restored(p) \/ Reload(p)
            \/ ReloadFails(p) \/ Crash(p)
  BY <1>7, <1>16 DEF Busy, NothingToStrip, UpToDate, Restored, Reload, ReloadFails, Crash
<1> QED
  BY <1>7, <1>9, <1>10, <1>11, <1>12, <1>13, <1>14, <1>15, <1>16 DEF Works, Step

\* What a step is: one of a working apply, one that touches no file, one of the
\* world, or none.
LEMMA Turns ==
    ASSUME AppliesInv, OneAtATime, [Next]_vars
    PROVE  \/ /\ scene' = scene
              /\ \E p \in Procs :
                    /\ Works(p)
                    /\ \A q \in Procs \ {p} : /\ pc'[q] = pc[q] /\ job'[q] = job[q]
                                              /\ ~Working(q) /\ ~Working(q)'
           \/ /\ scene' = scene
              /\ UNCHANGED <<settings, disk, rows, served, torn>>
              /\ \E p \in Procs :
                    /\ ~Working(p) /\ pc'[p] \in {"idle", "lock", "plan", "snapshot"}
                    /\ ~job'[p].gone \/ job'[p] = job[p]
                    /\ \A q \in Procs \ {p} : pc'[q] = pc[q] /\ job'[q] = job[q]
           \/ scene' = scene /\ UNCHANGED <<pc, job>>
              /\ (ChangeSettings \/ (\E f \in Files : HandEdit(f)) \/ HostReload)
           \/ UNCHANGED vars
<1>1. TurnInv
  BY DEF AppliesInv
<1>2. ASSUME scene' = scene, NEW p \in Procs, (\E kind \in Kinds : Request(p, kind)) \/ Lock(p)
      PROVE  /\ UNCHANGED <<settings, disk, rows, served, torn>> /\ ~Working(p)
             /\ pc'[p] \in {"idle", "lock", "plan", "snapshot"}
             /\ ~job'[p].gone \/ job'[p] = job[p]
             /\ \A q \in Procs \ {p} : pc'[q] = pc[q] /\ job'[q] = job[q]
  <2>1. CASE Lock(p)
    BY <1>1, <1>2, <2>1, OnlyOne, Afters DEF Lock, GoOn, TurnInv, Working
  <2>2. CASE \E kind \in Kinds : Request(p, kind)
    <3>1. PICK kind \in Kinds : Request(p, kind)
      BY <2>2
    <3>2. pc'[p] = Flow[kind][1] /\ ~job'[p].gone
      BY <1>1, <3>1 DEF Request, Goto, TurnInv, NoJob
    <3>3. Flow[kind][1] \in {"lock", "plan"}
      BY DEF Flow, Kinds
    <3> QED
      BY <1>1, <1>2, <2>2, <3>1, <3>2, <3>3, OnlyOne DEF Request, Working
  <2> QED
    BY <1>2, <2>1, <2>2
<1>3. ASSUME scene' = scene, NEW p \in Procs,
             (Busy(p) \/ Step(p) \/ WriteFails(p) \/ RestoreFails(p) \/ Crash(p)), ~Working(p)
      PROVE  /\ UNCHANGED <<settings, disk, rows, served, torn>>
             /\ pc'[p] \in {"idle", "lock", "plan", "snapshot"}
             /\ ~job'[p].gone \/ job'[p] = job[p]
             /\ \A q \in Procs \ {p} : pc'[q] = pc[q] /\ job'[q] = job[q]
  <2>1. Busy(p) \/ Crash(p)
    BY <1>3 DEF Working, Step, Plan, Unused, Record, Snapshot, NothingToStrip, Generate,
         Site, Remove, NextPhase, Forget, UpToDate, TestPasses, TestFails, Restore,
         Restored, Reload, ReloadFails, WriteFails, RestoreFails
  <2> QED
    BY <1>1, <1>3, <2>1, OnlyOne DEF Busy, Crash, End, Goto, TurnInv, NoJob
<1>4. ASSUME scene' = scene, NEW p \in Procs, Works(p), NEW q \in Procs \ {p}
      PROVE  /\ pc'[q] = pc[q] /\ job'[q] = job[q] /\ ~Working(q) /\ ~Working(q)'
  BY <1>1, <1>4, OnlyOne, OthersRest DEF Works, Working
<1>6. CASE ChangeSettings \/ (\E f \in Files : HandEdit(f)) \/ HostReload
  BY <1>6 DEF Next, ChangeSettings, HandEdit, HostReload, vars
<1>7. ASSUME scene' = scene, NEW p \in Procs,
             \/ \E kind \in Kinds : Request(p, kind)
             \/ Lock(p) \/ Busy(p) \/ Step(p) \/ WriteFails(p) \/ RestoreFails(p) \/ Crash(p)
      PROVE  \/ Works(p)
             \/ /\ UNCHANGED <<settings, disk, rows, served, torn>>
                /\ ~Working(p) /\ pc'[p] \in {"idle", "lock", "plan", "snapshot"}
                /\ ~job'[p].gone \/ job'[p] = job[p]
                /\ \A q \in Procs \ {p} : pc'[q] = pc[q] /\ job'[q] = job[q]
  <2>1. Busy(p) => ~Working(p)
    BY DEF Busy, Working
  <2> QED
    BY <1>2, <1>3, <1>7, <2>1 DEF Works
<1> QED
  BY <1>4, <1>6, <1>7 DEF Next

\* Who edits a site file leaves its block alone.
LEMMA EditsOwn ==
    ASSUME AppliesInv, NEW f \in Files, HandEdit(f)
    PROVE  /\ \A g \in Gens : disk'[g] = disk[g]
           /\ \A e \in Files : disk'[e].block = disk[e].block /\ SiteFile(disk[e])
<1>1. Tree(disk) /\ f \notin Gens /\ f \in Places
  BY SiteConstants DEF AppliesInv, TreeInv, TurnInv, Files, Places
<1>2. \A e \in Files : SiteFile(disk[e])
  BY <1>1 DEF Tree
<1>3. disk' = [disk EXCEPT ![f].own = IF @ = "ok" THEN "bad" ELSE "ok"]
  BY DEF HandEdit
<1>4. \A y \in Places \ {f} : disk'[y] = disk[y]
  BY <1>1, <1>3 DEF Tree
<1>5. disk'[f].block = disk[f].block
  <2>1. disk[f] = [own |-> disk[f].own, block |-> disk[f].block]
    BY <1>2 DEF SiteFile
  <2>2. disk'[f] = [disk[f] EXCEPT !.own = IF @ = "ok" THEN "bad" ELSE "ok"]
    BY <1>1, <1>3 DEF Tree
  <2> QED
    BY <2>1, <2>2
<1> QED
  BY <1>1, <1>2, <1>4, <1>5 DEF Places

LEMMA ResolvesStep ==
    ASSUME AppliesInv, ResolvesInv, OneAtATime, [Next]_vars
    PROVE  ResolvesInv'
<1>1. SUFFICES ASSUME ~torn' PROVE
        /\ (\A q \in Procs : pc'[q] # "restore") => Resolves(disk)'
        /\ \A q \in Procs : Snapped(q)' => Resolves(job[q].found)'
  BY DEF ResolvesInv
<1>2. ~torn
  BY <1>1, TornStays
<1>3. /\ (\A q \in Procs : pc[q] # "restore") => Resolves(disk)
      /\ \A q \in Procs : Snapped(q) => Resolves(job[q].found)
  BY <1>2 DEF ResolvesInv
<1>4. ASSUME scene' = scene, NEW q \in Procs, pc'[q] = pc[q], job'[q] = job[q]
      PROVE  Snapped(q)' => Resolves(job[q].found)'
  BY <1>3, <1>4 DEF Snapped, Resolves, Needs, Places, Files
<1>5. ASSUME scene' = scene, UNCHANGED disk
      PROVE  Resolves(disk)' <=> Resolves(disk)
  BY <1>5 DEF Resolves, Needs, Places, Files
<1>6. CASE /\ scene' = scene
           /\ \E p \in Procs :
                /\ Works(p)
                /\ \A q \in Procs \ {p} : /\ pc'[q] = pc[q] /\ job'[q] = job[q]
                                          /\ ~Working(q) /\ ~Working(q)'
  <2>1. PICK p \in Procs :
          /\ Works(p)
          /\ \A q \in Procs \ {p} : pc'[q] = pc[q] /\ job'[q] = job[q]
    BY <1>6
  <2>2. /\ pc'[p] # "restore" => Resolves(disk)'
        /\ Snapped(p)' => Resolves(job[p].found)'
    BY <1>1, <1>2, <1>6, <2>1, ResolvesWorks
  <2> QED
    BY <1>4, <1>6, <2>1, <2>2
<1>7. CASE /\ scene' = scene
           /\ UNCHANGED <<settings, disk, rows, served, torn>>
           /\ \E p \in Procs :
                /\ ~Working(p) /\ pc'[p] \in {"idle", "lock", "plan", "snapshot"}
                /\ \A q \in Procs \ {p} : pc'[q] = pc[q] /\ job'[q] = job[q]
  <2>1. PICK p \in Procs :
          /\ ~Working(p) /\ pc'[p] \in {"idle", "lock", "plan", "snapshot"}
          /\ \A q \in Procs \ {p} : pc'[q] = pc[q] /\ job'[q] = job[q]
    BY <1>7
  <2>2. ~Snapped(p)' /\ pc[p] # "restore"
    BY <2>1 DEF Snapped, Working
  <2>3. (\A q \in Procs : pc'[q] # "restore") => \A q \in Procs : pc[q] # "restore"
    BY <2>1, <2>2
  <2> QED
    BY <1>3, <1>4, <1>5, <1>7, <2>1, <2>2, <2>3
<1>8. CASE scene' = scene /\ UNCHANGED <<pc, job, disk>>
  BY <1>3, <1>4, <1>5, <1>8
<1>9. CASE scene' = scene /\ UNCHANGED <<pc, job>> /\ \E f \in Files : HandEdit(f)
  <2>1. /\ \A g \in Gens : disk'[g] = disk[g]
        /\ \A f \in Files : disk'[f].block = disk[f].block /\ SiteFile(disk[f])
    BY <1>9, EditsOwn
  <2>2. Resolves(disk) => Resolves(disk)'
    <3>1. Resolves(disk) => Resolves(disk')
      BY <2>1, ResolvesAsMuch
    <3> QED
      BY <1>9, <3>1 DEF Resolves, Needs, Places, Files
  <2> QED
    BY <1>3, <1>4, <1>9, <2>2
<1> QED
  BY <1>6, <1>7, <1>8, <1>9, Turns DEF ChangeSettings, HostReload, vars

-----------------------------------------------------------------------------
(* The properties that need no more than one apply at a time.              *)

\* The inductive invariant.
Invariant == AppliesInv /\ ResolvesInv

LEMMA InvariantInit == Init => Invariant
<1> SUFFICES ASSUME Init PROVE ResolvesInv
  BY AppliesInit DEF Invariant
<1>1. AppliesInv
  BY AppliesInit
<1>2. \A p \in Procs : ~Snapped(p)
  BY DEF Init, Snapped
<1>3. PICK bare \in BOOLEAN :
        disk = [x \in Places |->
                  IF x \in Gens THEN IF bare THEN Absent ELSE Planned[x]
                  ELSE [own |-> "ok", block |-> IF bare THEN NoBlock ELSE Block]]
  BY DEF Init
<1>4. Files \intersect Gens = {}
  BY SiteConstants DEF Init, Files
<1>5. \A g \in Gens : disk[g] = IF bare THEN Absent ELSE Planned[g]
  BY <1>3 DEF Places
<1>6. \A f \in Files : disk[f].block = IF bare THEN NoBlock ELSE Block
  BY <1>3, <1>4 DEF Places
<1>7. ASSUME NEW x \in Places, NEW h \in Needs(disk, x)
      PROVE  disk[h] # Absent
  <2>1. CASE x \in Gens
    BY <1>1, <1>5, <1>7, <2>1, PlannedForBlock DEF Needs, Gens, AppliesInv
  <2>2. CASE x \in Files /\ x \notin Gens
    <3>1. ~bare /\ h \in Block
      BY <1>6, <1>7, <2>2 DEF Needs
    <3> QED
      BY <1>1, <1>5, <3>1, PlannedForBlock DEF AppliesInv
  <2> QED
    BY <2>1, <2>2 DEF Places
<1> QED
  BY <1>2, <1>7 DEF ResolvesInv, Resolves

LEMMA InvariantStep == Invariant /\ OneAtATime /\ [Next]_vars => Invariant'
  BY AppliesStep, ResolvesStep DEF Invariant

LEMMA InvariantHolds == OneAtATime => (Spec => []Invariant)
<1>1. SUFFICES ASSUME OneAtATime PROVE Spec => []Invariant
  OBVIOUS
<1>2. Init => Invariant
  BY InvariantInit
<1>3. Invariant /\ [Next]_vars => Invariant'
  BY <1>1, InvariantStep
<1> QED
  BY <1>2, <1>3, PTL DEF Spec

\* Whatever apply is under way or was killed, no file refers to a zone or a
\* variable that no other file defines (webserver.rs writes what a block needs
\* before the block, and removes it after the last one that refers to it).
THEOREM ResolvesAlways ==
    ASSUME OneAtATime
    PROVE  Spec => []AlwaysResolves
<1>1. Invariant => AlwaysResolves
  BY DEF Invariant, ResolvesInv, AlwaysResolves
<1>2. Spec => []Invariant
  BY InvariantHolds
<1> QED
  BY <1>1, <1>2, PTL

\* A generated file has its row before it is first written, so that cleaning
\* up after a killed apply finds it (record_managed_files).
THEOREM RecordedHolds ==
    ASSUME OneAtATime
    PROVE  Spec => RecordedFirst
<1>1. ASSUME Invariant, [Next]_vars, NEW p \in Procs, NEW g \in Gens,
             pc[p] = "generate", disk[g] = Absent, disk'[g] # Absent
      PROVE  g \in rows
  <2>1. /\ Written(job[p]) \subseteq rows /\ job[p].left \subseteq Written(job[p])
        /\ AppliesInv /\ TurnInv /\ Working(p) /\ g \in Places
    BY <1>1 DEF Invariant, AppliesInv, MemoryOf, RowsOf, PhaseOf, Working, Places
  <2>2. ~UNCHANGED disk
    BY <1>1
  <2>3. \A f \in Files : ~HandEdit(f)
    BY <1>1, <2>1, EditsOwn
  <2>4. scene' = scene /\ Works(p)
    BY <1>1, <2>1, <2>2, <2>3, Turns DEF HostReload, ChangeSettings, vars
  <2>5. Generate(p)
    BY <1>1, <2>2, <2>4 DEF Works, Step, Plan, Unused, Record, Snapshot, NothingToStrip, Site,
       Remove, NextPhase, Forget, UpToDate, TestPasses, TestFails, Restore, Restored, Reload,
       ReloadFails, WriteFails, RestoreFails, Crash
  <2>6. PICK h \in job[p].left : Puts(h, job[p].writes[h])
    BY <2>1, <2>4, <2>5, GenerateKeeps
  <2>7. g = h
    BY <1>1, <2>1, <2>6 DEF Puts
  <2> QED
    BY <2>1, <2>6, <2>7
<1>2. Invariant /\ [Next]_vars =>
        [\A p \in Procs : \A g \in Gens :
            pc[p] = "generate" /\ disk[g] = Absent /\ disk'[g] # Absent => g \in rows]_vars
  BY <1>1
<1>3. Spec => []Invariant
  BY InvariantHolds
<1> QED
  BY <1>2, <1>3, PTL DEF Spec, RecordedFirst

\* An apply that is put back leaves every file as its snapshot found it
\* (Snapshot::restore), if nobody edits a site file meanwhile.
THEOREM PutBackHolds ==
    ASSUME OneAtATime, NoHands
    PROVE  Spec => PutBack
<1>1. ASSUME Invariant, [Next]_vars, NEW p \in Procs,
             pc[p] = "restore", pc'[p] = "idle", ~torn
      PROVE  disk' = job[p].found
  <2>1. AppliesInv /\ TurnInv /\ Working(p) /\ Snapped(p)
    BY <1>1 DEF Invariant, AppliesInv, Working, Snapped
  <2>2. scene' = scene /\ Works(p)
    BY <1>1, <2>1, Turns DEF vars
  <2>3. p \notin {q \in Procs : pc[q] \in CrashAt} /\ "hand" \notin Faults
    BY <1>1, <2>1 DEF OneAtATime, NoHands, CrashAt, Faults, TurnInv
  <2>4. Restored(p)
    <3>1. Restore(p) \/ RestoreFails(p) => pc'[p] = "restore"
      BY <2>1, <2>2, RestoreSees, RestoreFailsSees DEF Onward
    <3> QED
      BY <1>1, <2>2, <2>3, <3>1 DEF Works, Step, Plan, Unused, Record, Snapshot,
         NothingToStrip, Generate, Site, Remove, NextPhase, Forget, UpToDate, TestPasses,
         TestFails, Reload, ReloadFails, WriteFails, Crash
  <2>5. job[p].left = {} /\ disk' = disk
    BY <2>4 DEF Restored
  <2>6. /\ Tree(job[p].found) /\ Tree(disk)
        /\ \A x \in Places : SameAt(job[p].found, x)
    BY <1>1, <2>1, <2>5, PutBackSame
  <2>7. ASSUME NEW x \in Places PROVE disk[x] = job[p].found[x]
    <3>1. CASE x \in Gens
      BY <2>6, <3>1 DEF SameAt
    <3>2. CASE x \in Files /\ x \notin Gens
      <4>1. /\ disk[x].own = job[p].found[x].own /\ disk[x].block = job[p].found[x].block
        BY <2>3, <2>6, <3>2 DEF SameAt
      <4>2. SiteFile(disk[x]) /\ SiteFile(job[p].found[x])
        BY <2>6, <3>2 DEF Tree
      <4> QED
        BY <4>1, <4>2 DEF SiteFile
    <3> QED
      BY <3>1, <3>2 DEF Places
  <2>8. disk = [x \in Places |-> disk[x]] /\ job[p].found = [x \in Places |-> job[p].found[x]]
    BY <2>6 DEF Tree
  <2> QED
    BY <2>5, <2>7, <2>8
<1>2. Invariant /\ [Next]_vars =>
        [\A p \in Procs :
            pc[p] = "restore" /\ pc'[p] = "idle" /\ ~torn => disk' = job[p].found]_vars
  BY <1>1
<1>3. Spec => []Invariant
  BY InvariantHolds
<1> QED
  BY <1>2, <1>3, PTL DEF Spec, PutBack

-----------------------------------------------------------------------------
(* What the web server is left with.                                       *)

\* An apply goes on with the snapshot it has, and not to its reload.
Proceeds(p, l) == Onward(p, l) /\ l # "reload" /\ Snapped(p) /\ Snapped(p)'

\* Every step of a working apply, as far as loading is concerned.
LEMMA WorksHow ==
    ASSUME AppliesInv, NEW p \in Procs, scene' = scene, Works(p), NobodyKilled
    PROVE  \/ \E l : Proceeds(p, l) /\ served' = served
           \/ TestPasses(p) /\ Onward(p, "reload") /\ Snapped(p) /\ served' = served
           \/ ~Snapped(p) /\ ~Snapped(p)' /\ UNCHANGED <<disk, served>>
           \/ /\ ~Snapped(p) /\ job'[p].found = disk /\ UNCHANGED <<disk, served>>
              /\ pc'[p] # "reload"
           \/ UpToDate(p) \/ Restored(p) \/ Reload(p) \/ ReloadFails(p)
           \/ WriteFails(p) /\ InTui(p) /\ pc[p] = "generate"
<1>1. TurnInv
  BY DEF AppliesInv
<1>2. ~Crash(p)
  BY DEF NobodyKilled, Crash
<1>3. CASE Plan(p) \/ Unused(p)
  <2>1. pc'[p] = After(p) /\ UNCHANGED <<disk, served>> /\ pc[p] \in {"plan", "unused"}
    BY <1>1, <1>3, PlanDoes, UnusedDoes, MovesTo DEF Plan, Unused
  <2>2. ~Snapped(p)
    BY <2>1 DEF Snapped
  <2>3. ~Snapped(p)'
    <3>1. After(p) \in {"record", "unused", "snapshot"}
      BY <1>1, <2>1, Afters
    <3>2. After(p) = "record" => job[p].kind # "all" /\ job'[p].kind = job[p].kind
      <4>1. After(p) = "record" => job[p].kind # "all" /\ Plan(p)
        BY <1>1, <1>3, <2>1, Afters DEF Unused
      <4>2. Plan(p) => job'[p] = [job[p] EXCEPT !.writes = Planned,
                                    !.block = IF InTui(p) THEN Block ELSE NoBlock]
        <5>1. Plan(p) =>
                Moves(p, After(p), [job[p] EXCEPT !.writes = Planned,
                                      !.block = IF InTui(p) THEN Block ELSE NoBlock])
          BY <1>1, PlanDoes
        <5> QED
          BY <1>1, <5>1, MovesTo
      <4>3. DOMAIN job[p] = JobFields
        BY <1>1 DEF TurnInv
      <4> QED
        BY <4>1, <4>2, <4>3 DEF JobFields
    <3> QED
      BY <2>1, <3>1, <3>2 DEF Snapped
  <2> QED
    BY <2>1, <2>2, <2>3
<1>4. CASE Snapshot(p)
  <2>1. pc[p] = "snapshot" /\ UNCHANGED <<disk, served>> /\ ~Snapped(p)
    BY <1>4 DEF Snapshot, Snapped
  <2>2. Moves(p, After(p), [Scoped(p) EXCEPT !.snap = [x \in Held(Scoped(p)) |-> disk[x]],
                              !.found = disk, !.left = Items(Scoped(p), After(p))])
    BY <1>1, <1>4, SnapshotDoes
  <2>3. /\ pc'[p] = After(p)
        /\ job'[p] = [Scoped(p) EXCEPT !.snap = [x \in Held(Scoped(p)) |-> disk[x]],
                              !.found = disk, !.left = Items(Scoped(p), After(p))]
    BY <1>1, <2>2, MovesTo
  <2>4. DOMAIN Scoped(p) = JobFields
    BY <1>1 DEF TurnInv, Scoped, JobFields
  <2>5. job'[p].found = disk
    BY <2>3, <2>4 DEF JobFields
  <2>6. After(p) # "reload"
    BY <1>1, <2>1, Afters
  <2> QED
    BY <2>1, <2>3, <2>5, <2>6
<1>5. CASE Record(p)
  <2>1. /\ pc[p] = "record" /\ UNCHANGED <<disk, served>> /\ Onward(p, After(p))
    BY <1>1, <1>5, RecordSees DEF Record
  <2>2. After(p) # "reload" /\ (Snapped(p)' <=> Snapped(p))
    BY <1>1, <2>1, Afters DEF Snapped, Onward
  <2> QED
    BY <2>1, <2>2 DEF Proceeds
<1>6. CASE Forget(p) \/ NextPhase(p)
  <2>1. /\ Onward(p, After(p)) /\ pc[p] \in {"generate", "sites", "remove", "forget"}
        /\ served' = served
    BY <1>1, <1>6, ForgetSees, NextPhaseSees DEF Forget, NextPhase
  <2>2. After(p) \in {"sites", "remove", "test", "forget"}
    BY <1>1, <2>1, Afters
  <2> QED
    BY <2>1, <2>2 DEF Proceeds, Snapped, Onward
<1>7. CASE TestPasses(p)
  BY <1>1, <1>7, TestPassesSees, Afters DEF TestPasses, Snapped
<1>8. CASE Generate(p) \/ Site(p) \/ Remove(p)
  <2>1. /\ pc[p] \in {"generate", "sites", "remove"} /\ served' = served
        /\ Onward(p, pc[p])
    <3>1. CASE Generate(p)
      BY <1>1, <3>1, GenerateSees DEF Generate
    <3>2. CASE Site(p)
      BY <1>1, <3>2, SiteSees DEF Site
    <3>3. CASE Remove(p)
      BY <1>1, <3>3, RemoveSees DEF Remove
    <3> QED
      BY <1>8, <3>1, <3>2, <3>3
  <2> QED
    BY <2>1 DEF Proceeds, Snapped, Onward
<1>9. CASE TestFails(p) \/ Restore(p) \/ RestoreFails(p)
  BY <1>1, <1>9, TestFailsSees, RestoreSees, RestoreFailsSees DEF TestFails, Restore,
     RestoreFails, Proceeds, Snapped, Onward
<1>10. CASE WriteFails(p)
  <2>1. pc[p] \in {"generate", "sites", "remove"} /\ served' = served /\ Snapped(p)
    BY <1>10 DEF WriteFails, Snapped
  <2>2. pc[p] = "remove" => After(p) \in {"test", "forget"}
    BY <1>1, <2>1, Afters
  <2>3. ASSUME NEW l, Onward(p, l), l \in {"restore", "sites", "test", "forget"}
        PROVE  Proceeds(p, l)
    BY <2>1, <2>3 DEF Proceeds, Onward, Snapped
  <2> QED
    BY <1>1, <1>10, <2>1, <2>2, <2>3, WriteFailsSees
<1>11. CASE NothingToStrip(p)
  BY <1>1, <1>11 DEF NothingToStrip, End, Goto, TurnInv, Snapped
<1> QED
  BY <1>2, <1>3, <1>4, <1>5, <1>6, <1>7, <1>8, <1>9, <1>10, <1>11 DEF Works, Step

\* A TUI that could not write a generated file ends there, so it is left out.
RefusalsUndone ==
    \A s \in Scenes : s.crashAt = {} => s.requests \intersect TuiKinds = {} \/ "generate" \notin s.failAt

\* The trust list that is on disk between applies, and that an apply goes back
\* to, is one the web server can parse; so is the one it is about to load.
LoadableInv ==
    NobodyKilled /\ ~torn =>
        /\ (\A p \in Procs : ~Snapped(p)) => disk["trusted"] # "bad"
        /\ \A p \in Procs :
            /\ Snapped(p) => job[p].found["trusted"] # "bad"
            /\ pc[p] = "reload" => disk["trusted"] # "bad"

LEMMA TuiWritesWork ==
    ASSUME TurnInv, RefusalsUndone, NobodyKilled, NEW p \in Procs, WriteFails(p), InTui(p)
    PROVE  pc[p] # "generate"
<1>1. scene \in Scenes /\ scene.crashAt = {} /\ job[p].kind \in scene.requests
  BY DEF TurnInv, NobodyKilled, CrashAt, WriteFails, Requests
<1> QED
  BY <1>1 DEF RefusalsUndone, InTui, WriteFails, Fails, FailAt

LEMMA LoadableWorks ==
    ASSUME AppliesInv, OneAtATime, RefusalsUndone, LoadableInv, NEW p \in Procs,
           scene' = scene, Works(p), NobodyKilled, ~torn
    PROVE  /\ Snapped(p)' => job'[p].found["trusted"] # "bad"
           /\ ~Snapped(p)' => disk'["trusted"] # "bad"
           /\ pc'[p] = "reload" => disk'["trusted"] # "bad"
<1>1. TurnInv /\ "trusted" \in Gens /\ "trusted" \in Places
  BY DEF AppliesInv, Gens, Places
<1>2. \A q \in Procs \ {p} : ~Snapped(q)
  BY <1>1, OthersRest DEF Works, Working, Snapped
<1>3. /\ ~Snapped(p) => disk["trusted"] # "bad"
      /\ Snapped(p) => job[p].found["trusted"] # "bad"
      /\ pc[p] = "reload" => disk["trusted"] # "bad"
  BY <1>2 DEF LoadableInv
<1>4. ASSUME End(p), UNCHANGED disk, disk["trusted"] # "bad"
      PROVE  /\ Snapped(p)' => job'[p].found["trusted"] # "bad"
             /\ ~Snapped(p)' => disk'["trusted"] # "bad"
             /\ pc'[p] = "reload" => disk'["trusted"] # "bad"
  BY <1>1, <1>4 DEF End, Goto, TurnInv, Snapped
<1>5. CASE \E l : Proceeds(p, l)
  BY <1>3, <1>5 DEF Proceeds, Onward
<1>6. CASE TestPasses(p) /\ Onward(p, "reload") /\ Snapped(p)
  BY <1>3, <1>6 DEF TestPasses, Loads, Onward, Snapped
<1>7. CASE ~Snapped(p) /\ ~Snapped(p)' /\ UNCHANGED disk
  BY <1>3, <1>7 DEF Snapped
<1>8. CASE ~Snapped(p) /\ job'[p].found = disk /\ UNCHANGED disk /\ pc'[p] # "reload"
  BY <1>3, <1>8
<1>9. CASE UpToDate(p)
  <2>1. ChangedOf(p) /\ Snapped(p) /\ pc[p] = "test" /\ ~job[p].changed /\ End(p) /\ UNCHANGED disk
    BY <1>9 DEF AppliesInv, MemoryOf, UpToDate, Snapped
  <2>2. disk["trusted"] = job[p].found["trusted"] \/ disk["trusted"] = Absent
    BY <1>1, <2>1 DEF ChangedOf, SameAt
  <2>3. Absent # "bad"
    BY SiteConstants DEF TrustLists
  <2> QED
    BY <1>3, <1>4, <2>1, <2>2, <2>3
<1>10. CASE Restored(p)
  <2>1. pc[p] = "restore" /\ job[p].left = {} /\ End(p) /\ UNCHANGED disk
    BY <1>10 DEF Restored
  <2>2. Snapped(p) /\ SameAt(job[p].found, "trusted")
    BY <1>1, <2>1, PutBackSame
  <2> QED
    BY <1>1, <1>3, <1>4, <2>1, <2>2 DEF SameAt
<1>11. CASE Reload(p) \/ ReloadFails(p)
  BY <1>3, <1>4, <1>11 DEF Reload, ReloadFails
<1>12. CASE WriteFails(p) /\ InTui(p) /\ pc[p] = "generate"
  BY <1>1, <1>12, TuiWritesWork
<1> QED
  BY <1>5, <1>6, <1>7, <1>8, <1>9, <1>10, <1>11, <1>12, WorksHow

LEMMA LoadableStep ==
    ASSUME AppliesInv, OneAtATime, RefusalsUndone, LoadableInv, [Next]_vars
    PROVE  LoadableInv'
<1>1. SUFFICES ASSUME NobodyKilled', ~torn' PROVE
        /\ (\A q \in Procs : ~Snapped(q)') => disk'["trusted"] # "bad"
        /\ \A q \in Procs :
            /\ Snapped(q)' => job'[q].found["trusted"] # "bad"
            /\ pc'[q] = "reload" => disk'["trusted"] # "bad"
  BY DEF LoadableInv
<1>2. ~torn /\ scene' = scene /\ NobodyKilled /\ TurnInv
  BY <1>1, TornStays DEF Next, vars, NobodyKilled, CrashAt, AppliesInv
<1>3. /\ (\A q \in Procs : ~Snapped(q)) => disk["trusted"] # "bad"
      /\ \A q \in Procs :
            /\ Snapped(q) => job[q].found["trusted"] # "bad"
            /\ pc[q] = "reload" => disk["trusted"] # "bad"
  BY <1>2 DEF LoadableInv
<1>4. ASSUME NEW p \in Procs, Works(p),
             \A q \in Procs \ {p} : /\ pc'[q] = pc[q] /\ job'[q] = job[q]
                                    /\ ~Working(q) /\ ~Working(q)'
      PROVE  /\ (\A q \in Procs : ~Snapped(q)') => disk'["trusted"] # "bad"
             /\ \A q \in Procs :
                /\ Snapped(q)' => job'[q].found["trusted"] # "bad"
                /\ pc'[q] = "reload" => disk'["trusted"] # "bad"
  <2>1. \A q \in Procs \ {p} : ~Snapped(q)' /\ pc'[q] # "reload"
    BY <1>4 DEF Working, Snapped
  <2> QED
    BY <1>2, <1>4, <2>1, LoadableWorks
<1>5. ASSUME NEW p \in Procs, UNCHANGED disk,
             ~Working(p), pc'[p] \in {"idle", "lock", "plan", "snapshot"},
             \A q \in Procs \ {p} : pc'[q] = pc[q] /\ job'[q] = job[q]
      PROVE  /\ (\A q \in Procs : ~Snapped(q)') => disk'["trusted"] # "bad"
             /\ \A q \in Procs :
                /\ Snapped(q)' => job'[q].found["trusted"] # "bad"
                /\ pc'[q] = "reload" => disk'["trusted"] # "bad"
  <2>1. ~Snapped(p) /\ ~Snapped(p)'
    BY <1>5 DEF Snapped, Working
  <2>2. \A q \in Procs \ {p} : Snapped(q)' <=> Snapped(q)
    BY <1>5 DEF Snapped
  <2> QED
    BY <1>3, <1>5, <2>1, <2>2
<1>6. CASE UNCHANGED <<pc, job>> /\ disk'["trusted"] = disk["trusted"]
  BY <1>3, <1>6 DEF Snapped
<1>7. ASSUME NEW f \in Files, HandEdit(f) PROVE disk'["trusted"] = disk["trusted"]
  BY <1>7, EditsOwn DEF Gens
<1> QED
  BY <1>4, <1>5, <1>6, <1>7, Turns DEF ChangeSettings, HostReload, vars

\* Between applies, when nobody was killed, the disk holds a config that loads
\* unless an operator broke it by hand or a put-back failed: what the config
\* test refuses is not left behind.
THEOREM QuietLoadsHolds ==
    ASSUME OneAtATime, RefusalsUndone
    PROVE  Spec => []QuietLoads
<1>1. Init => LoadableInv
  <2>1. SUFFICES ASSUME Init PROVE disk["trusted"] # "bad" /\ \A p \in Procs : pc[p] = "idle"
    BY DEF LoadableInv, Snapped
  <2>2. "trusted" \in Gens /\ "trusted" \in Places /\ trust # "bad" /\ Absent # "bad"
    BY <2>1, SiteConstants DEF Init, Gens, Places, TrustLists
  <2>3. disk["trusted"] \in {Absent, Planned["trusted"]}
    BY <2>1, <2>2 DEF Init
  <2>4. Planned["trusted"] # "bad"
    BY <2>2 DEF Planned
  <2> QED
    BY <2>1, <2>2, <2>3, <2>4 DEF Init
<1>2. Invariant /\ LoadableInv /\ [Next]_vars => LoadableInv'
  BY LoadableStep DEF Invariant
<1>3. Invariant /\ LoadableInv => QuietLoads
  BY DEF Invariant, ResolvesInv, LoadableInv, QuietLoads, Quiet, Snapped, Loads
<1>4. Spec => []Invariant
  BY InvariantHolds
<1> QED
  BY <1>1, <1>2, <1>3, <1>4, PTL DEF Spec

-----------------------------------------------------------------------------
(* What an apply that changed nothing may leave unloaded.                  *)

\* No reload fails for a reason of its own, and nobody breaks a file or reloads
\* during an apply.  A TUI's loop that stops half-way is left out: it does not
\* count what it did.
ReloadsWork ==
    \A s \in Scenes : s.crashAt = {} =>
        /\ "reload" \notin s.failAt /\ {"hand", "certbot"} \intersect s.faults = {}
        /\ \/ s.requests \intersect TuiKinds = {}
           \/ {"generate", "remove"} \intersect s.failAt = {}

\* Removals are noticed by the end of the loop that makes them.
GoneOf(p) ==
    /\ job[p].gone => pc[p] \in {"remove", "forget", "test", "reload", "restore"}
    /\ NobodyKilled /\ pc[p] \in {"forget", "test", "reload"} /\ job[p].gone =>
        job[p].changed
\* Of every process.
GoneInv == \A p \in Procs : GoneOf(p)

\* What the web server has loaded is what the apply found, or, between applies,
\* what is on disk.
ServedInv ==
    NobodyKilled /\ ~torn =>
        /\ (\A p \in Procs : ~Snapped(p)) => Ours(served) = Ours(disk)
        /\ \A p \in Procs :
            /\ Snapped(p) => Ours(served) = Ours(job[p].found)
            /\ pc[p] = "reload" => Loads(disk)

LEMMA NothingFails ==
    ASSUME TurnInv, ReloadsWork, NobodyKilled
    PROVE  /\ "reload" \notin FailAt /\ "hand" \notin Faults /\ "certbot" \notin Faults
           /\ \A p \in Procs : pc[p] # "idle" /\ InTui(p) =>
                "generate" \notin FailAt /\ "remove" \notin FailAt
<1>1. scene \in Scenes /\ scene.crashAt = {}
  BY DEF TurnInv, NobodyKilled, CrashAt
<1>2. \A p \in Procs : pc[p] # "idle" => job[p].kind \in scene.requests
  BY DEF TurnInv, Requests
<1> QED
  BY <1>1, <1>2 DEF ReloadsWork, InTui, FailAt, Faults

LEMMA GoneEnds ==
    ASSUME TurnInv, NEW p \in Procs, End(p)
    PROVE  GoneOf(p)'
  BY DEF End, Goto, TurnInv, NoJob, GoneOf

LEMMA GoneWorks ==
    ASSUME AppliesInv, ReloadsWork, GoneInv, NEW p \in Procs, scene' = scene, Works(p)
    PROVE  GoneOf(p)'
<1>1. TurnInv /\ GoneOf(p) /\ (NobodyKilled' <=> NobodyKilled)
  BY DEF AppliesInv, GoneInv, NobodyKilled, CrashAt
<1>2. CASE End(p)
  BY <1>1, <1>2, GoneEnds
<1>3. ASSUME ~job'[p].gone PROVE GoneOf(p)'
  BY <1>3 DEF GoneOf
<1>4. CASE Plan(p) \/ Unused(p) \/ Snapshot(p) \/ Record(p)
  <2>1. ~job[p].gone /\ DOMAIN job[p] = JobFields
    BY <1>1, <1>4 DEF GoneOf, Plan, Unused, Snapshot, Record, TurnInv
  <2>2. CASE Plan(p)
    <3>1. job'[p] = [job[p] EXCEPT !.writes = Planned,
                                   !.block = IF InTui(p) THEN Block ELSE NoBlock]
      <4>1. Moves(p, After(p), [job[p] EXCEPT !.writes = Planned,
                                   !.block = IF InTui(p) THEN Block ELSE NoBlock])
        BY <1>1, <2>2, PlanDoes
      <4> QED
        BY <1>1, <4>1, MovesTo
    <3> QED
      BY <1>3, <2>1, <3>1 DEF JobFields
  <2>3. CASE Unused(p)
    <3>1. Moves(p, After(p), [job[p] EXCEPT !.drop = Unneeded])
      BY <1>1, <2>3, UnusedDoes
    <3>2. job'[p] = [job[p] EXCEPT !.drop = Unneeded]
      BY <1>1, <3>1, MovesTo
    <3> QED
      BY <1>3, <2>1, <3>2 DEF JobFields
  <2>4. CASE Snapshot(p)
    <3>1. Moves(p, After(p), [Scoped(p) EXCEPT !.snap = [x \in Held(Scoped(p)) |-> disk[x]],
                                !.found = disk, !.left = Items(Scoped(p), After(p))])
      BY <1>1, <2>4, SnapshotDoes
    <3>2. job'[p] = [Scoped(p) EXCEPT !.snap = [x \in Held(Scoped(p)) |-> disk[x]],
                                !.found = disk, !.left = Items(Scoped(p), After(p))]
      BY <1>1, <3>1, MovesTo
    <3>3. DOMAIN Scoped(p) = JobFields /\ Scoped(p).gone = job[p].gone
      BY <2>1 DEF Scoped, JobFields
    <3> QED
      BY <1>3, <2>1, <3>2, <3>3 DEF JobFields
  <2>5. CASE Record(p)
    BY <1>1, <1>3, <2>1, <2>5, RecordSees DEF Notes
  <2> QED
    BY <1>4, <2>2, <2>3, <2>4, <2>5
<1>5. CASE Generate(p) \/ Site(p)
  <2>1. ~job[p].gone
    BY <1>1, <1>5 DEF GoneOf, Generate, Site
  <2>2. job'[p].gone = job[p].gone
    BY <1>1, <1>5, GenerateSees, SiteSees DEF Notes
  <2> QED
    BY <1>3, <2>1, <2>2
<1>6. CASE Remove(p) \/ TestFails(p) \/ Restore(p) \/ RestoreFails(p)
  <2>1. pc'[p] \in {"remove", "restore"}
    BY <1>1, <1>6, RemoveSees, TestFailsSees, RestoreSees, RestoreFailsSees DEF Onward
  <2> QED
    BY <2>1 DEF GoneOf
<1>7. CASE NextPhase(p)
  <2>1. /\ pc'[p] = After(p) /\ job'[p].gone = job[p].gone
        /\ job'[p].changed = (job[p].changed \/ job[p].gone)
        /\ pc[p] \in {"generate", "sites", "remove"}
    BY <1>1, <1>7, NextPhaseSees DEF Onward, Notes, NextPhase
  <2>2. pc[p] = "remove" => After(p) \in {"forget", "test"}
    BY <1>1, Afters
  <2> QED
    BY <1>1, <2>1, <2>2 DEF GoneOf
<1>8. CASE Forget(p) \/ TestPasses(p)
  <2>1. /\ pc'[p] = After(p) /\ job'[p].gone = job[p].gone /\ job'[p].changed = job[p].changed
        /\ pc[p] \in {"forget", "test"}
    BY <1>1, <1>8, ForgetSees, TestPassesSees DEF Onward, Notes, Forget, TestPasses
  <2>2. After(p) \in {"test", "reload"}
    BY <1>1, <2>1, Afters
  <2> QED
    BY <1>1, <2>1, <2>2 DEF GoneOf
<1>9. CASE WriteFails(p) /\ ~End(p)
  <2>1. pc[p] \in {"generate", "sites", "remove"} /\ pc[p] \in FailAt
    BY <1>9 DEF WriteFails, Fails
  <2>2. CASE Onward(p, "restore")
    BY <2>2 DEF Onward, GoneOf
  <2>3. CASE pc[p] = "sites" /\ job'[p].gone = job[p].gone
    BY <1>1, <1>3, <2>3 DEF GoneOf
  <2>4. CASE /\ InTui(p) /\ pc[p] = "remove" /\ Onward(p, After(p))
             /\ Notes(p, {}, job[p].changed, job[p].gone)
    <3>1. ~NobodyKilled
      BY <1>1, <2>1, <2>4, NothingFails
    <3>2. After(p) \in {"test", "forget"}
      BY <1>1, <2>4, Afters
    <3> QED
      BY <1>1, <2>4, <3>1, <3>2 DEF GoneOf, Onward
  <2> QED
    BY <1>1, <1>9, <2>2, <2>3, <2>4, WriteFailsSees
<1>10. CASE NothingToStrip(p) \/ UpToDate(p) \/ Restored(p) \/ Reload(p) \/ ReloadFails(p)
            \/ Crash(p)
  BY <1>2, <1>10 DEF NothingToStrip, UpToDate, Restored, Reload, ReloadFails, Crash
<1> QED
  BY <1>2, <1>4, <1>5, <1>6, <1>7, <1>8, <1>9, <1>10 DEF Works, Step

LEMMA GoneStep ==
    ASSUME AppliesInv, OneAtATime, ReloadsWork, GoneInv, [Next]_vars
    PROVE  GoneInv'
<1>1. ASSUME scene' = scene, NEW q \in Procs, pc'[q] = pc[q], job'[q] = job[q]
      PROVE  GoneOf(q)'
  BY <1>1 DEF GoneInv, GoneOf, NobodyKilled, CrashAt
<1>2. ASSUME NEW q \in Procs, pc'[q] \in {"idle", "lock", "plan", "snapshot"},
             ~Working(q), ~job'[q].gone \/ job'[q] = job[q]
      PROVE  GoneOf(q)'
  BY <1>2 DEF GoneInv, GoneOf, Working
<1>3. ASSUME scene' = scene, NEW p \in Procs, Works(p) PROVE GoneOf(p)'
  BY <1>3, GoneWorks
<1> QED
  BY <1>1, <1>2, <1>3, Turns DEF GoneInv, vars

LEMMA ServedWorks ==
    ASSUME AppliesInv, OneAtATime, ReloadsWork, GoneInv, ServedInv, NEW p \in Procs,
           scene' = scene, Works(p), NobodyKilled, ~torn
    PROVE  /\ Snapped(p)' => Ours(served)' = Ours(job[p].found)'
           /\ ~Snapped(p)' => Ours(served)' = Ours(disk)'
           /\ pc'[p] = "reload" => Loads(disk)'
<1>1. TurnInv /\ Places' = Places /\ Files' = Files
  BY DEF AppliesInv, Places, Files
<1>2. \A q \in Procs \ {p} : ~Snapped(q)
  BY <1>1, OthersRest DEF Works, Working, Snapped
<1>3. /\ ~Snapped(p) => Ours(served) = Ours(disk)
      /\ Snapped(p) => Ours(served) = Ours(job[p].found)
      /\ pc[p] = "reload" => Loads(disk)
  BY <1>2 DEF ServedInv
<1>4. /\ disk' = disk => Ours(disk)' = Ours(disk) /\ (Loads(disk)' <=> Loads(disk))
      /\ served' = served => Ours(served)' = Ours(served)
      /\ job'[p].found = job[p].found => Ours(job[p].found)' = Ours(job[p].found)
      /\ job'[p].found = disk => Ours(job[p].found)' = Ours(disk)
      /\ served' = disk => Ours(served)' = Ours(disk)
  BY <1>1 DEF Ours, Loads, Resolves, Needs
<1>5. ASSUME End(p), UNCHANGED <<disk, served>>, Ours(served) = Ours(disk)
      PROVE  /\ Snapped(p)' => Ours(served)' = Ours(job[p].found)'
             /\ ~Snapped(p)' => Ours(served)' = Ours(disk)'
             /\ pc'[p] = "reload" => Loads(disk)'
  BY <1>1, <1>4, <1>5 DEF End, Goto, TurnInv, Snapped
<1>6. CASE \E l : Proceeds(p, l) /\ served' = served
  BY <1>3, <1>4, <1>6 DEF Proceeds, Onward
<1>7. CASE TestPasses(p) /\ Onward(p, "reload") /\ Snapped(p) /\ served' = served
  BY <1>3, <1>4, <1>7 DEF TestPasses, Onward, Snapped
<1>8. CASE ~Snapped(p) /\ ~Snapped(p)' /\ UNCHANGED <<disk, served>>
  BY <1>3, <1>4, <1>8 DEF Snapped
<1>9. CASE /\ ~Snapped(p) /\ job'[p].found = disk /\ UNCHANGED <<disk, served>>
           /\ pc'[p] # "reload"
  BY <1>3, <1>4, <1>9
<1>10. CASE UpToDate(p)
  <2>1. /\ ChangedOf(p) /\ ShapeOf(p) /\ Tree(disk) /\ Snapped(p) /\ GoneOf(p)
        /\ pc[p] = "test" /\ ~job[p].changed /\ End(p) /\ UNCHANGED <<disk, served>>
    BY <1>10 DEF AppliesInv, TreeInv, MemoryOf, UpToDate, Snapped, GoneInv
  <2>2. \A x \in Places : SameAt(job[p].found, x)
    BY <2>1 DEF ChangedOf, GoneOf
  <2>3. Ours(disk) = Ours(job[p].found)
    BY <1>1, <2>1, <2>2, SameResolves DEF ShapeOf
  <2> QED
    BY <1>3, <1>5, <2>1, <2>3
<1>11. CASE Restored(p)
  <2>1. pc[p] = "restore" /\ job[p].left = {} /\ End(p) /\ UNCHANGED <<disk, served>>
    BY <1>11 DEF Restored
  <2>2. /\ Snapped(p) /\ Tree(job[p].found) /\ Tree(disk)
        /\ \A x \in Places : SameAt(job[p].found, x)
    BY <1>1, <2>1, PutBackSame
  <2>3. Ours(disk) = Ours(job[p].found)
    BY <1>1, <2>2, SameResolves
  <2> QED
    BY <1>3, <1>5, <2>1, <2>2, <2>3
<1>12. CASE Reload(p)
  BY <1>1, <1>4, <1>12 DEF Reload, End, Goto, TurnInv, Snapped
<1>13. CASE ReloadFails(p)
  BY <1>1, <1>3, <1>13, NothingFails DEF ReloadFails, Refused, Fails
<1>14. CASE WriteFails(p) /\ InTui(p) /\ pc[p] = "generate"
  BY <1>1, <1>14, NothingFails DEF WriteFails, Fails
<1> QED
  BY <1>6, <1>7, <1>8, <1>9, <1>10, <1>11, <1>12, <1>13, <1>14, WorksHow

LEMMA ServedStep ==
    ASSUME AppliesInv, OneAtATime, ReloadsWork, GoneInv, ServedInv, [Next]_vars
    PROVE  ServedInv'
<1>1. SUFFICES ASSUME NobodyKilled', ~torn' PROVE
        /\ (\A q \in Procs : ~Snapped(q)') => Ours(served)' = Ours(disk)'
        /\ \A q \in Procs :
            /\ Snapped(q)' => Ours(served)' = Ours(job[q].found)'
            /\ pc'[q] = "reload" => Loads(disk)'
  BY DEF ServedInv
<1>2. ~torn /\ scene' = scene /\ NobodyKilled /\ TurnInv /\ Places' = Places /\ Files' = Files
  BY <1>1, TornStays DEF Next, vars, NobodyKilled, CrashAt, AppliesInv, Places, Files
<1>3. /\ (\A q \in Procs : ~Snapped(q)) => Ours(served) = Ours(disk)
      /\ \A q \in Procs :
            /\ Snapped(q) => Ours(served) = Ours(job[q].found)
            /\ pc[q] = "reload" => Loads(disk)
  BY <1>2 DEF ServedInv
<1>4. /\ disk' = disk => Ours(disk)' = Ours(disk) /\ (Loads(disk)' <=> Loads(disk))
      /\ served' = served => Ours(served)' = Ours(served)
      /\ \A q \in Procs : job'[q] = job[q] => Ours(job[q].found)' = Ours(job[q].found)
      /\ served' = disk => Ours(served)' = Ours(disk)
  BY <1>2 DEF Ours, Loads, Resolves, Needs
<1>5. ASSUME NEW p \in Procs, Works(p),
             \A q \in Procs \ {p} : /\ pc'[q] = pc[q] /\ job'[q] = job[q]
                                    /\ ~Working(q) /\ ~Working(q)'
      PROVE  /\ (\A q \in Procs : ~Snapped(q)') => Ours(served)' = Ours(disk)'
             /\ \A q \in Procs :
                /\ Snapped(q)' => Ours(served)' = Ours(job[q].found)'
                /\ pc'[q] = "reload" => Loads(disk)'
  <2>1. \A q \in Procs \ {p} : ~Snapped(q)' /\ pc'[q] # "reload"
    BY <1>5 DEF Working, Snapped
  <2> QED
    BY <1>2, <1>5, <2>1, ServedWorks
<1>6. ASSUME NEW p \in Procs, UNCHANGED <<disk, served>>,
             ~Working(p), pc'[p] \in {"idle", "lock", "plan", "snapshot"},
             \A q \in Procs \ {p} : pc'[q] = pc[q] /\ job'[q] = job[q]
      PROVE  /\ (\A q \in Procs : ~Snapped(q)') => Ours(served)' = Ours(disk)'
             /\ \A q \in Procs :
                /\ Snapped(q)' => Ours(served)' = Ours(job[q].found)'
                /\ pc'[q] = "reload" => Loads(disk)'
  <2>1. ~Snapped(p) /\ ~Snapped(p)'
    BY <1>6 DEF Snapped, Working
  <2>2. \A q \in Procs \ {p} : Snapped(q)' <=> Snapped(q)
    BY <1>6 DEF Snapped
  <2> QED
    BY <1>3, <1>4, <1>6, <2>1, <2>2
<1>7. CASE UNCHANGED <<pc, job, disk, served>>
  BY <1>3, <1>4, <1>7 DEF Snapped
<1>8. Quiet => \A q \in Procs : ~Snapped(q)
  BY DEF Quiet, Snapped
<1>9. CASE UNCHANGED <<pc, job>> /\ HostReload
  <2>1. \A q \in Procs : pc'[q] = "idle" /\ ~Snapped(q)'
    BY <1>2, <1>9, NothingFails DEF HostReload, Quiet, Snapped
  <2>2. Ours(served)' = Ours(disk)'
    BY <1>4, <1>9 DEF HostReload
  <2> QED
    BY <2>1, <2>2
<1>10. CASE UNCHANGED <<pc, job>> /\ \E f \in Files : HandEdit(f)
  <2>1. PICK f \in Files : HandEdit(f)
    BY <1>10
  <2>2. Quiet /\ served' = served
    BY <1>2, <2>1, NothingFails DEF HandEdit
  <2>3. \A q \in Procs : pc'[q] = "idle" /\ ~Snapped(q) /\ ~Snapped(q)'
    BY <1>10, <2>2 DEF Quiet, Snapped
  <2>4. Ours(disk)' = Ours(disk)
    BY <1>2, <2>1, EditsOwn DEF Ours, Places
  <2> QED
    BY <1>3, <1>4, <2>2, <2>3, <2>4
<1> QED
  BY <1>2, <1>5, <1>6, <1>7, <1>9, <1>10, Turns DEF ChangeSettings, vars

\* An apply that ends because it has changed nothing, and so does not reload,
\* leaves the web server with what is on disk.
THEOREM UpToDateHolds ==
    ASSUME OneAtATime, ReloadsWork
    PROVE  Spec => UpToDateIsLoaded
<1>1. Init => GoneInv /\ ServedInv
  BY DEF Init, GoneInv, GoneOf, NoJob, ServedInv, Snapped
<1>2. Invariant /\ GoneInv /\ ServedInv /\ [Next]_vars => GoneInv' /\ ServedInv'
  BY GoneStep, ServedStep DEF Invariant
<1>3. ASSUME Invariant, GoneInv, ServedInv, NEW p \in Procs,
             NobodyKilled, pc[p] = "test", ~job[p].changed, ~torn
      PROVE  Ours(served) = Ours(disk)
  <2>1. /\ ChangedOf(p) /\ ShapeOf(p) /\ Tree(disk) /\ Snapped(p) /\ GoneOf(p) /\ TurnInv
    BY <1>3 DEF Invariant, AppliesInv, TreeInv, MemoryOf, Snapped, GoneInv
  <2>2. \A x \in Places : SameAt(job[p].found, x)
    BY <1>3, <2>1 DEF ChangedOf, GoneOf
  <2>3. Ours(disk) = Ours(job[p].found)
    BY <2>1, <2>2, SameResolves DEF ShapeOf
  <2> QED
    BY <1>3, <2>1, <2>3 DEF ServedInv
<1>4. Invariant /\ GoneInv /\ ServedInv /\ [Next]_vars =>
        [\A p \in Procs :
            NobodyKilled /\ pc[p] = "test" /\ ~job[p].changed /\ pc'[p] = "idle" /\ ~torn
                => Ours(served) = Ours(disk)]_vars
  BY <1>3
<1>5. Spec => []Invariant
  BY InvariantHolds
<1> QED
  BY <1>1, <1>2, <1>4, <1>5, PTL DEF Spec, UpToDateIsLoaded
=============================================================================
