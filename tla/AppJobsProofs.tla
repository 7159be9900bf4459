---------------------------- MODULE AppJobsProofs -----------------------------
(***************************************************************************)
(* That there is one download at a time, for any number of processes and   *)
(* intervals and however long the lease lasts, as long as no piece of work *)
(* takes as long as a lease; that what an apply wrote is reloaded, that no *)
(* flag outlives its apply and that tags settle, for any number of keys,   *)
(* failures and restarts.                                                  *)
(***************************************************************************)
EXTENDS AppJobs, TLAPS

-----------------------------------------------------------------------------
(* Downloads and the lease.                                                *)

\* What refresh.rs 359-362 counts on, and the feeds' job with many slow URLs
\* does not give it.
TakesLess == \A j \in Downloads : Takes[j] \in Nat /\ Takes[j] < LeaseTime

RunFields == {"left", "ranges", "stage", "held"}

RunsOK ==
    /\ run = [p \in Procs |-> [j \in Downloads |-> run[p][j]]]
    /\ \A p \in Procs, j \in Downloads : run[p][j] # None =>
          DOMAIN run[p][j] = RunFields /\ run[p][j].held \in Nat

LeaseOK == lease # None => lease \in [age : Int, by : Procs \X Downloads]

\* Whoever downloads holds the lease, and has shown life no longer ago than
\* its piece of work may take.
HeldByFetcher ==
    \A p \in Procs, j \in Downloads :
        run[p][j] # None /\ run[p][j].stage = "fetch" =>
            /\ lease # None /\ lease.by = <<p, j>>
            /\ lease.age <= run[p][j].held /\ run[p][j].held <= Takes[j]

LeaseInv == RunsOK /\ LeaseOK /\ HeldByFetcher

LEMMA Times == LeaseTime \in Nat /\ Back \in Nat /\ Oldest \in Nat /\ Never \notin Int
               /\ None \notin [age : Int, by : Procs \X Downloads]
  BY ConstantsAssumption DEF ConstantsAssumption

\* A lease that is free has nobody downloading under it.
LEMMA FreeMeansNone ==
  ASSUME TakesLess, LeaseInv, Free, NEW p \in Procs, NEW j \in Downloads
  PROVE  ~(run[p][j] # None /\ run[p][j].stage = "fetch")
  BY Times DEF TakesLess, LeaseInv, RunsOK, LeaseOK, HeldByFetcher, Free, RunFields

\* A step that leaves the runs and the lease alone.
LEMMA Idle == LeaseInv /\ UNCHANGED <<run, lease>> => LeaseInv'
  BY DEF LeaseInv, RunsOK, LeaseOK, HeldByFetcher, RunFields

LEMMA BeginKeeps ==
  ASSUME TakesLess, LeaseInv, NEW p \in Procs, NEW j \in Downloads, Begin(p, j)
  PROVE  LeaseInv'
<1>1. CASE ~Free
  BY <1>1, Idle DEF Begin
<1>2. CASE Free
  <2>1. lease' = [age |-> 0, by |-> <<p, j>>]
    BY <1>2 DEF Begin
  <2>2. run' = [run EXCEPT ![p][j] = NewRun(j)]
    BY <1>2 DEF Begin
  <2>3. RunsOK'
    BY <2>2 DEF LeaseInv, RunsOK, NewRun, RunFields
  <2>4. LeaseOK'
    BY <2>1 DEF LeaseOK
  <2>5. ASSUME NEW q \in Procs, NEW k \in Downloads,
               run'[q][k] # None, run'[q][k].stage = "fetch"
        PROVE  q = p /\ k = j
    BY <1>2, <2>2, <2>5, FreeMeansNone DEF LeaseInv, RunsOK
  <2>6. run'[p][j].held = 0
    BY <2>2 DEF LeaseInv, RunsOK, NewRun
  <2>7. lease' # None
    BY <2>1, Times
  <2> QED
    BY <2>1, <2>3, <2>4, <2>5, <2>6, <2>7 DEF LeaseInv, HeldByFetcher, TakesLess
<1> QED
  BY <1>1, <1>2

\* A list that has come: only a weekly run goes on, and it has renewed.
LEMMA FetchKeeps ==
  ASSUME TakesLess, LeaseInv, NEW p \in Procs, NEW j \in Downloads, Fetch(p, j)
  PROVE  LeaseInv'
<1>1. run[p][j] # None /\ run[p][j].stage = "fetch"
  BY DEF Fetch
<1>2. PICK good \in BOOLEAN : run' = [run EXCEPT ![p][j] = After(@, j, good)]
  BY DEF Fetch
<1>3. lease # None /\ lease.by = <<p, j>>
      /\ lease \in [age : Int, by : Procs \X Downloads]
  BY <1>1 DEF LeaseInv, HeldByFetcher, LeaseOK
<1>4. After(run[p][j], j, good).held = IF j = "weekly" THEN 0 ELSE run[p][j].held
  BY DEF After
<1>5. RunsOK'
  <2>1. DOMAIN After(run[p][j], j, good) = RunFields
    BY DEF After, RunFields
  <2>2. After(run[p][j], j, good).held \in Nat
    BY <1>1, <1>4 DEF LeaseInv, RunsOK
  <2> QED
    BY <1>2, <2>1, <2>2 DEF LeaseInv, RunsOK
<1>6. lease' = IF j = "weekly" THEN [lease EXCEPT !.age = 0] ELSE lease
  BY <1>3 DEF Fetch, Renew, Holder
<1>7. LeaseOK' /\ lease' # None /\ lease'.by = <<p, j>>
      /\ lease'.age = IF j = "weekly" THEN 0 ELSE lease.age
  BY <1>3, <1>6, Times DEF LeaseOK
<1>8. ASSUME NEW q \in Procs, NEW k \in Downloads,
             run'[q][k] # None, run'[q][k].stage = "fetch"
      PROVE  q = p /\ k = j
  BY <1>2, <1>3, <1>8 DEF LeaseInv, RunsOK, HeldByFetcher
<1>9. run'[p][j] = After(run[p][j], j, good)
  BY <1>2 DEF LeaseInv, RunsOK
<1>10. lease.age <= run[p][j].held /\ run[p][j].held <= Takes[j] /\ Takes[j] \in Nat
  BY <1>1 DEF LeaseInv, HeldByFetcher, TakesLess
<1>11. HeldByFetcher'
  BY <1>4, <1>7, <1>8, <1>9, <1>10 DEF HeldByFetcher
<1> QED
  BY <1>5, <1>7, <1>11 DEF LeaseInv

\* A run that has fetched its lists may leave the lease to nobody.
LEMMA RecordKeeps ==
  ASSUME LeaseInv, NEW p \in Procs, NEW j \in Downloads, Record(p, j)
  PROVE  LeaseInv'
<1>1. run[p][j] # None /\ run[p][j].stage = "record" /\ lease' = lease
  BY DEF Record
<1>2. run' = [run EXCEPT ![p][j] =
                IF j = "feeds" THEN None ELSE [run[p][j] EXCEPT !.stage = "release"]]
  BY Zenon DEF Record
<1>3. run'[p][j] = IF j = "feeds" THEN None ELSE [run[p][j] EXCEPT !.stage = "release"]
  BY <1>2 DEF LeaseInv, RunsOK
<1>4. ASSUME NEW q \in Procs, NEW k \in Downloads, q # p \/ k # j
      PROVE  run'[q][k] = run[q][k]
  BY <1>2, <1>4 DEF LeaseInv, RunsOK
<1>5. RunsOK'
  BY <1>1, <1>2 DEF LeaseInv, RunsOK, RunFields
<1>6. run'[p][j] # None => run'[p][j].stage = "release"
  BY <1>1, <1>3 DEF LeaseInv, RunsOK, RunFields
<1> QED
  BY <1>1, <1>4, <1>5, <1>6 DEF LeaseInv, LeaseOK, HeldByFetcher

LEMMA ReleaseKeeps ==
  ASSUME LeaseInv, NEW p \in Procs, NEW j \in Downloads, Release(p, j)
  PROVE  LeaseInv'
<1>1. run[p][j] # None /\ run[p][j].stage = "release"
  BY DEF Release
<1>2. run' = [run EXCEPT ![p][j] =
                IF j = "feeds" THEN [run[p][j] EXCEPT !.stage = "record"] ELSE None]
  BY Zenon DEF Release
<1>3. run'[p][j] = IF j = "feeds" THEN [run[p][j] EXCEPT !.stage = "record"] ELSE None
  BY <1>2 DEF LeaseInv, RunsOK
<1>4. ASSUME NEW q \in Procs, NEW k \in Downloads, q # p \/ k # j
      PROVE  run'[q][k] = run[q][k]
  BY <1>2, <1>4 DEF LeaseInv, RunsOK
<1>5. RunsOK'
  BY <1>1, <1>2 DEF LeaseInv, RunsOK, RunFields
<1>6. run'[p][j] # None => run'[p][j].stage = "record"
  BY <1>1, <1>3 DEF LeaseInv, RunsOK, RunFields
<1>7. lease' = IF Holder(p, j) THEN None ELSE lease
  BY DEF Release, GiveUp
<1>8. LeaseOK'
  BY <1>7 DEF LeaseInv, LeaseOK
<1>9. HeldByFetcher'
  BY <1>4, <1>6, <1>7 DEF LeaseInv, HeldByFetcher, Holder
<1> QED
  BY <1>5, <1>8, <1>9 DEF LeaseInv

LEMMA StopKeeps ==
  ASSUME LeaseInv, NEW p \in Procs, Stop(p)
  PROVE  LeaseInv'
<1>1. run' = [run EXCEPT ![p] = [j \in Downloads |-> None]] /\ lease' = lease
  BY DEF Stop
<1>2. RunsOK'
  BY <1>1 DEF LeaseInv, RunsOK
<1> QED
  BY <1>1, <1>2 DEF LeaseInv, RunsOK, LeaseOK, HeldByFetcher

\* Time passes for the lease as it does for its holder, who still has some.
LEMMA PassKeeps ==
  ASSUME TakesLess, LeaseInv, Pass
  PROVE  LeaseInv'
<1>1. /\ \A p \in Procs : \A j \in Out(p) : run[p][j].held < Takes[j]
      /\ lease' = IF lease = None THEN None ELSE [lease EXCEPT !.age = Older(@)]
      /\ run' = [p \in Procs |-> [j \in Downloads |->
                   IF run[p][j] = None THEN None
                   ELSE [run[p][j] EXCEPT !.held = @ + 1]]]
  BY Zenon DEF Pass
<1>2. ASSUME NEW p \in Procs, NEW j \in Downloads
      PROVE  run'[p][j] = IF run[p][j] = None THEN None
                          ELSE [run[p][j] EXCEPT !.held = @ + 1]
  BY <1>1
<1>3. RunsOK'
  <2>1. run' = [p \in Procs |-> [j \in Downloads |-> run'[p][j]]]
    BY <1>1
  <2>2. ASSUME NEW p \in Procs, NEW j \in Downloads, run'[p][j] # None
        PROVE  DOMAIN run'[p][j] = RunFields /\ run'[p][j].held \in Nat
    <3>1. run[p][j] # None /\ run'[p][j] = [run[p][j] EXCEPT !.held = @ + 1]
      BY <1>2, <2>2
    <3>2. DOMAIN run[p][j] = RunFields /\ run[p][j].held \in Nat
      BY <3>1 DEF LeaseInv, RunsOK
    <3> QED
      BY <3>1, <3>2 DEF RunFields
  <2> QED
    BY <2>1, <2>2 DEF RunsOK
<1>4. lease # None => lease'.by = lease.by
                      /\ lease' \in [age : Int, by : Procs \X Downloads]
                      /\ lease'.age <= lease.age + 1
  BY <1>1, Times DEF LeaseInv, LeaseOK, Older
<1>5. LeaseOK'
  BY <1>1, <1>4 DEF LeaseOK
<1>6. HeldByFetcher'
  <2> SUFFICES ASSUME NEW p \in Procs, NEW j \in Downloads,
                      run'[p][j] # None, run'[p][j].stage = "fetch"
               PROVE  /\ lease' # None /\ lease'.by = <<p, j>>
                      /\ lease'.age <= run'[p][j].held /\ run'[p][j].held <= Takes[j]
    BY DEF HeldByFetcher
  <2>1. run[p][j] # None /\ run[p][j].stage = "fetch" /\ run[p][j].held \in Nat
        /\ run'[p][j].held = run[p][j].held + 1
    BY <1>2 DEF LeaseInv, RunsOK, RunFields
  <2>2. lease # None /\ lease.by = <<p, j>> /\ lease.age <= run[p][j].held
        /\ lease.age \in Int
    BY <2>1 DEF LeaseInv, HeldByFetcher, LeaseOK
  <2>3. run[p][j].held < Takes[j] /\ Takes[j] \in Nat
    BY <1>1, <2>1 DEF Out, TakesLess
  <2>4. lease' # None /\ lease'.by = <<p, j>> /\ lease'.age <= lease.age + 1
        /\ lease'.age \in Int
    BY <1>4, <2>2, Times
  <2> QED
    BY <2>1, <2>2, <2>3, <2>4
<1> QED
  BY <1>3, <1>5, <1>6 DEF LeaseInv

\* A clock set back makes a lease younger, never older.
LEMMA SetBackKeeps ==
  ASSUME LeaseInv, SetBack
  PROVE  LeaseInv'
<1>1. run' = run /\ lease' = IF lease = None THEN None ELSE [lease EXCEPT !.age = Younger(@)]
  BY DEF SetBack
<1>2. lease # None => lease' # None /\ lease'.by = lease.by
                      /\ lease' \in [age : Int, by : Procs \X Downloads]
                      /\ lease'.age <= lease.age
  BY <1>1, Times DEF LeaseInv, LeaseOK, Younger
<1>3. LeaseOK'
  BY <1>1, <1>2 DEF LeaseOK
<1>4. HeldByFetcher'
  <2> SUFFICES ASSUME NEW p \in Procs, NEW j \in Downloads,
                      run[p][j] # None, run[p][j].stage = "fetch"
               PROVE  /\ lease' # None /\ lease'.by = <<p, j>>
                      /\ lease'.age <= run[p][j].held /\ run[p][j].held <= Takes[j]
    BY <1>1 DEF HeldByFetcher
  <2>1. lease # None /\ lease.by = <<p, j>> /\ lease.age <= run[p][j].held
        /\ lease.age \in Int /\ run[p][j].held \in Nat /\ run[p][j].held <= Takes[j]
    BY DEF LeaseInv, HeldByFetcher, LeaseOK, RunsOK
  <2>2. lease'.age \in Int
    BY <1>2, <2>1
  <2> QED
    BY <1>2, <2>1, <2>2
<1> QED
  BY <1>1, <1>3, <1>4 DEF LeaseInv, RunsOK

\* The steps of the schedule alone.
LEMMA StepsKeep ==
  ASSUME TakesLess, LeaseInv, ScheduleSteps
  PROVE  LeaseInv'
<1>1. ASSUME NEW p \in Procs, StartDownload(p)
      PROVE  LeaseInv'
  <2>1. PICK j \in Downloads : UNCHANGED <<lease, run>> \/ Begin(p, j)
    BY <1>1, Zenon DEF StartDownload
  <2> QED
    BY <2>1, BeginKeeps, Idle
<1>2. ASSUME NEW p \in Procs, AskAll(p) \/ AskOne(p)
      PROVE  LeaseInv'
  <2>1. PICK j \in Downloads : Begin(p, j)
    BY <1>2, Zenon DEF AskAll, AskOne, Downloads
  <2> QED
    BY <2>1, BeginKeeps
<1>3. CASE TickApplies
  BY <1>3, Idle DEF TickApplies
<1> QED
  BY <1>1, <1>2, <1>3, PassKeeps, SetBackKeeps DEF ScheduleSteps

LEMMA LeaseInductive ==
  ASSUME TakesLess, LeaseInv, [Next]_vars
  PROVE  LeaseInv'
<1>1. CASE UNCHANGED vars
  BY <1>1, Idle DEF vars, schedule
<1>2. CASE ScheduleSteps
  BY <1>2, StepsKeep
<1>3. ASSUME NEW p \in Procs, Check(p)
      PROVE  LeaseInv'
  BY <1>3, Idle DEF Check
<1>4. ASSUME NEW p \in Procs, Work(p)
      PROVE  LeaseInv'
  BY <1>4, FetchKeeps, RecordKeeps, ReleaseKeeps DEF Work
<1>5. ASSUME NEW p \in Procs, CronStep(p) \/ Killed(p)
      PROVE  LeaseInv'
  BY <1>3, <1>4, <1>5, StopKeeps DEF CronStep, Killed
<1>6. CASE Edit \/ Show \/ Press
  BY <1>6, Idle DEF Edit, Show, Press, Key, Asked
<1>7. CASE CronApply
  BY <1>7, Idle DEF CronApply
<1>8. CASE Run
  BY <1>8, Idle DEF Run, RunApply, RunReload, RunCheck, RunRender, schedule
<1>9. CASE Finish
  BY <1>9, Idle DEF Finish, FinishApply, FinishReload, FinishCheck, FinishRender, schedule
<1> QED
  BY <1>1, <1>2, <1>5, <1>6, <1>7, <1>8, <1>9 DEF Next

LEMMA LeaseInitial == Init => LeaseInv
  BY DEF Init, ScheduleInit, LeaseInv, RunsOK, LeaseOK, HeldByFetcher

LEMMA LeaseInvIsEnough == LeaseInv => OneDownloader
  BY DEF LeaseInv, HeldByFetcher, OneDownloader, Fetching

\* However many TUIs, batches and ticks there are, in whatever order they
\* check, ask, fail, are killed and have their clock set back, one of them
\* downloads at a time, as long as no piece of work outlasts a lease.
THEOREM OneDownloaderHolds == TakesLess /\ Spec => []OneDownloader
<1>1. ASSUME TakesLess
      PROVE  Spec => []OneDownloader
  BY <1>1, LeaseInitial, LeaseInductive, LeaseInvIsEnough, PTL DEF Spec
<1> QED
  BY <1>1

-----------------------------------------------------------------------------
(* The jobs of the TUI.                                                    *)

StateFields == {"flight", "plan", "again", "cronApply", "everything", "stale",
                "current", "tags", "unloaded"}

IsState(s) ==
    /\ DOMAIN s = StateFields /\ s.flight \subseteq Kinds
    /\ DOMAIN s.plan = Kinds /\ "changed" \in DOMAIN s.plan["apply"]
    /\ "reload" \notin s.flight => ~s.plan["reload"].changed

\* What none of the start_ functions takes away.
Grows(s, t) ==
    /\ IsState(t)
    /\ s.flight \subseteq t.flight /\ s.again \subseteq t.again
    /\ s.unloaded => t.unloaded
    /\ t.plan["reload"] = s.plan["reload"]
    /\ "apply" \in s.flight => t.plan["apply"].changed = s.plan["apply"].changed

SameFlags(s, t) == t.cronApply = s.cronApply /\ t.everything = s.everything

FlagsOK(s) == s.cronApply \/ s.everything => "apply" \in s.flight

LEMMA GrowsOn ==
  ASSUME NEW s, NEW t, NEW u, Grows(s, t), Grows(t, u)
  PROVE  Grows(s, u)
  BY DEF Grows

LEMMA StartCheckGrows ==
  ASSUME NEW s, NEW now, IsState(s)
  PROVE  Grows(s, StartCheck(s, now)) /\ SameFlags(s, StartCheck(s, now))
<1>1. CASE "check" \in s.flight
  BY <1>1 DEF StartCheck, Grows, SameFlags, IsState, StateFields
<1>2. CASE "check" \notin s.flight
  BY <1>2 DEF StartCheck, Grows, SameFlags, IsState, StateFields, Kinds
<1> QED
  BY <1>1, <1>2

LEMMA StartReloadGrows ==
  ASSUME NEW s, NEW fails, IsState(s)
  PROVE  Grows(s, StartReload(s, fails)) /\ SameFlags(s, StartReload(s, fails))
  BY DEF StartReload, Grows, SameFlags, IsState, StateFields, Kinds

LEMMA StartRenderGrows ==
  ASSUME NEW s, NEW fails, IsState(s)
  PROVE  Grows(s, StartRender(s, fails)) /\ SameFlags(s, StartRender(s, fails))
  BY DEF StartRender, Grows, SameFlags, IsState, StateFields, Kinds

LEMMA StartApplyGrows ==
  ASSUME NEW s, NEW fails, IsState(s)
  PROVE  Grows(s, StartApply(s, fails)) /\ SameFlags(s, StartApply(s, fails))
  BY DEF StartApply, Grows, SameFlags, IsState, StateFields, Kinds

LEMMA RefreshGrows ==
  ASSUME NEW s, NEW now, IsState(s)
  PROVE  Grows(s, Refresh(s, now)) /\ SameFlags(s, Refresh(s, now))
<1> DEFINE t == [s EXCEPT !.stale = FALSE, !.current = FALSE]
<1>1. Grows(s, t) /\ SameFlags(s, t)
  BY DEF Grows, SameFlags, IsState, StateFields
<1>2. Grows(t, StartCheck(t, now)) /\ SameFlags(t, StartCheck(t, now))
  BY <1>1, StartCheckGrows DEF Grows
<1>3. Grows(s, [s EXCEPT !.stale = TRUE]) /\ SameFlags(s, [s EXCEPT !.stale = TRUE])
  BY DEF Grows, SameFlags, IsState, StateFields
<1> QED
  BY <1>1, <1>2, <1>3, GrowsOn DEF Refresh, SameFlags

LEMMA StartEverythingFirewallGrows ==
  ASSUME NEW s, NEW fails, IsState(s)
  PROVE  LET t == StartEverythingFirewall(s, fails) IN
          Grows(s, t) /\ t.everything = FALSE /\ t.cronApply = s.cronApply
<1> DEFINE u == [s EXCEPT !.everything = FALSE]
<1>1. Grows(s, u) /\ u.everything = FALSE /\ u.cronApply = s.cronApply
  BY DEF Grows, IsState, StateFields
<1>2. Grows(u, StartRender(u, fails)) /\ SameFlags(u, StartRender(u, fails))
  BY <1>1, StartRenderGrows DEF Grows
<1> QED
  BY <1>1, <1>2, GrowsOn DEF StartEverythingFirewall, SameFlags

-----------------------------------------------------------------------------
(* The invariant.                                                          *)

InQueue(k) == \E n \in DOMAIN queue : queue[n] = k

QueueOK ==
    /\ queue \in Seq(Kinds)
    /\ \A m, n \in DOMAIN queue : queue[m] = queue[n] => m = n
    /\ \A n \in DOMAIN queue : queue[n] \in flight

\* While an apply is at work its files are not written; when its event
\* waits, what it came to says whether there is something to load.
Ahead ==
    served # disk =>
        \/ InQueue("apply") /\ plan["apply"].changed
        \/ "reload" \in flight /\ ~InQueue("reload") /\ ~Loaded
        \/ "reload" \in flight /\ "reload" \in again
        \/ unloaded

JInv == IsState(State) /\ QueueOK /\ FlagsOK(State) /\ Ahead

\* The main thread starts something, and takes nothing from the queue.
LEMMA StartKeeps ==
  ASSUME JInv, NEW t, Grows(State, t), FlagsOK(t), Becomes(t),
         UNCHANGED <<disk, served, queue>>
  PROVE  JInv'
<1>1. IsState(State)' /\ FlagsOK(State)'
  BY DEF Grows, IsState, FlagsOK, Becomes, State, StateFields
<1>2. QueueOK'
  BY DEF JInv, QueueOK, Grows, Becomes, State
<1>3. InQueue("apply") => "apply" \in flight
  BY DEF JInv, QueueOK, InQueue
<1>4. /\ flight \subseteq flight' /\ again \subseteq again' /\ (unloaded => unloaded')
      /\ "apply" \in flight => plan'["apply"].changed = plan["apply"].changed
      /\ plan'["reload"] = plan["reload"]
  BY DEF Grows, Becomes, State
<1>5. Ahead'
  BY <1>3, <1>4 DEF JInv, Ahead, Loaded, InQueue
<1> QED
  BY <1>1, <1>2, <1>5 DEF JInv

LEMMA StateGrows ==
  ASSUME JInv
  PROVE  Grows(State, State) /\ FlagsOK(State)
  BY DEF JInv, Grows

\* Nothing of the TUI's own changes.
LEMMA AppIdle == JInv /\ UNCHANGED app => JInv'
  BY DEF JInv, IsState, QueueOK, FlagsOK, Ahead, Loaded, InQueue, State, app, files, shown

LEMMA FlagsCarry ==
  ASSUME NEW s, NEW t, Grows(s, t), SameFlags(s, t), FlagsOK(s)
  PROVE  FlagsOK(t)
  BY DEF Grows, SameFlags, FlagsOK

LEMMA KeysKeep ==
  ASSUME JInv, Edit \/ Show \/ Press
  PROVE  JInv'
<1> USE StateGrows
<1>1. CASE Edit
  <2>1. Grows(State, Refresh(State, settings + 1)) /\ FlagsOK(Refresh(State, settings + 1))
    BY RefreshGrows, FlagsCarry DEF JInv
  <2> QED
    BY <1>1, <2>1, StartKeeps DEF Edit
<1>2. CASE Show
  <2> DEFINE s == [State EXCEPT !.stale = FALSE, !.current = FALSE]
  <2>1. Grows(State, s) /\ SameFlags(State, s)
    BY DEF JInv, Grows, SameFlags, IsState, StateFields
  <2>2. Grows(s, StartCheck(s, settings)) /\ SameFlags(s, StartCheck(s, settings))
    BY <2>1, StartCheckGrows DEF Grows
  <2>3. Grows(State, StartCheck(s, settings)) /\ FlagsOK(StartCheck(s, settings))
    BY <2>1, <2>2, GrowsOn, FlagsCarry
  <2>4. PICK t \in {StartCheck(s, settings), State} : Becomes(t)
    BY <1>2 DEF Show
  <2> QED
    BY <1>2, <2>3, <2>4, StartKeeps DEF Show
<1>3. CASE Press
  <2>1. PICK fails \in Failing :
          \/ Key("apply", StartApply(State, fails))
          \/ Key("everything", StartEverything(State, fails))
          \/ Key("render", StartRender(State, fails))
          \/ Key("reload", StartReload(Refresh(State, settings), fails))
    BY <1>3, Zenon DEF Press
  <2>2. ASSUME NEW t, NEW what, Key(what, t), Grows(State, t), FlagsOK(t)
        PROVE  JInv'
    BY <2>2, StartKeeps DEF Key
  <2>3. Grows(State, StartApply(State, fails)) /\ FlagsOK(StartApply(State, fails))
    BY StartApplyGrows, FlagsCarry DEF JInv
  <2>4. Grows(State, StartRender(State, fails)) /\ FlagsOK(StartRender(State, fails))
    BY StartRenderGrows, FlagsCarry DEF JInv
  <2>5. Grows(State, StartReload(Refresh(State, settings), fails))
        /\ FlagsOK(StartReload(Refresh(State, settings), fails))
    <3>1. Grows(State, Refresh(State, settings)) /\ FlagsOK(Refresh(State, settings))
      BY RefreshGrows, FlagsCarry DEF JInv
    <3> QED
      BY <3>1, StartReloadGrows, FlagsCarry, GrowsOn DEF Grows
  <2>6. Grows(State, StartEverything(State, fails)) /\ FlagsOK(StartEverything(State, fails))
    <3> DEFINE u == [State EXCEPT !.everything = TRUE]
               t == StartApply(u, fails)
    <3>1. CASE State.flight \cap {"apply", "render"} # {}
      BY <3>1 DEF StartEverything
    <3>2. CASE State.flight \cap {"apply", "render"} = {}
      <4>1. Grows(State, u) /\ u.cronApply = State.cronApply
        BY DEF JInv, Grows, IsState, StateFields
      <4>2. Grows(u, t) /\ SameFlags(u, t)
        BY <4>1, StartApplyGrows DEF Grows
      <4>3. Grows(State, t) /\ t.cronApply = State.cronApply
        BY <4>1, <4>2, GrowsOn DEF SameFlags
      <4>4. ~State.cronApply
        BY <3>2 DEF FlagsOK
      <4>5. LET f == StartEverythingFirewall(t, fails)
            IN  Grows(t, f) /\ f.everything = FALSE /\ f.cronApply = t.cronApply
        BY <4>3, StartEverythingFirewallGrows DEF Grows
      <4> HIDE DEF t, u
      <4>6. StartEverything(State, fails) =
              IF "apply" \in t.flight THEN t ELSE StartEverythingFirewall(t, fails)
        BY <3>2 DEF StartEverything, t, u
      <4> QED
        BY <4>3, <4>4, <4>5, <4>6, GrowsOn DEF FlagsOK
    <3> QED
      BY <3>1, <3>2
  <2> QED
    BY <2>1, <2>2, <2>3, <2>4, <2>5, <2>6
<1> QED
  BY <1>1, <1>2, <1>3

LEMMA CronApplyKeeps ==
  ASSUME JInv, CronApply
  PROVE  JInv'
<1> DEFINE u == [State EXCEPT !.cronApply = TRUE]
<1>1. PICK fails \in Failing :
        LET s == StartApply(u, fails)
        IN  Becomes(IF "apply" \in s.flight THEN s ELSE [s EXCEPT !.cronApply = FALSE])
  BY DEF CronApply
<1> DEFINE s == StartApply(u, fails)
           t == [s EXCEPT !.cronApply = FALSE]
<1>2. Grows(State, u) /\ u.everything = State.everything
  BY DEF JInv, Grows, IsState, StateFields
<1>3. Grows(u, s) /\ SameFlags(u, s)
  BY <1>2, StartApplyGrows DEF Grows
<1>4. Grows(State, s) /\ s.everything = State.everything
  BY <1>2, <1>3, GrowsOn DEF SameFlags
<1> HIDE DEF u
<1>5. Grows(s, t) /\ t.everything = State.everything /\ t.cronApply = FALSE
  BY <1>4 DEF Grows, IsState, StateFields
<1>6. CASE "apply" \in s.flight
  <2>1. FlagsOK(s)
    BY <1>6 DEF FlagsOK
  <2> QED
    BY <1>1, <1>4, <1>6, <2>1, StartKeeps DEF CronApply
<1>7. CASE "apply" \notin s.flight
  <2>1. State.everything => "apply" \in State.flight
    BY DEF JInv, FlagsOK
  <2>2. "apply" \notin State.flight
    BY <1>4, <1>7 DEF Grows
  <2>3. FlagsOK(t)
    BY <1>5, <2>1, <2>2 DEF FlagsOK
  <2>4. Grows(State, t)
    BY <1>4, <1>5, GrowsOn
  <2> QED
    BY <1>1, <1>7, <2>3, <2>4, StartKeeps DEF CronApply
<1> QED
  BY <1>6, <1>7

LEMMA CronStepKeeps ==
  ASSUME JInv, NEW p, CronStep(p)
  PROVE  JInv'
<1>1. Grows(State, Refresh(State, settings)) /\ FlagsOK(Refresh(State, settings))
  BY StateGrows, RefreshGrows, FlagsCarry DEF JInv
<1>2. PICK t \in {Refresh(State, settings), State} : Becomes(t)
  BY DEF CronStep
<1> QED
  BY <1>1, <1>2, StateGrows, StartKeeps DEF CronStep

-----------------------------------------------------------------------------
(* The queue.                                                              *)

LEMMA QueuedMore ==
  ASSUME QueueOK, NEW k \in Kinds, Working(k), Done(k), flight' = flight
  PROVE  QueueOK' /\ \A j : InQueue(j)' <=> (InQueue(j) \/ j = k)
<1>1. queue' = Append(queue, k) /\ queue \in Seq(Kinds) /\ k \in flight /\ ~InQueue(k)
  BY DEF QueueOK, Working, Done, InQueue
<1>2. /\ queue' \in Seq(Kinds) /\ DOMAIN queue' = 1..(Len(queue) + 1)
      /\ queue'[Len(queue) + 1] = k /\ DOMAIN queue = 1..Len(queue) /\ Len(queue) \in Nat
      /\ \A n \in DOMAIN queue : queue'[n] = queue[n]
  BY <1>1
<1> QED
  BY <1>1, <1>2 DEF QueueOK, InQueue

LEMMA QueuedLess ==
  ASSUME QueueOK, NEW k, Finished(k), flight \ {k} \subseteq flight'
  PROVE  QueueOK' /\ InQueue(k) /\ \A j : InQueue(j)' <=> InQueue(j) /\ j # k
<1>1. queue' = Tail(queue) /\ queue # <<>> /\ Head(queue) = k /\ queue \in Seq(Kinds)
  BY DEF Finished, QueueOK
<1>2. /\ queue' \in Seq(Kinds) /\ DOMAIN queue = 1..Len(queue) /\ Len(queue) \in Nat
      /\ Len(queue) >= 1 /\ queue[1] = k /\ DOMAIN queue' = 1..(Len(queue) - 1)
      /\ \A n \in DOMAIN queue' : queue'[n] = queue[n + 1]
  BY <1>1
<1>3. \A n \in DOMAIN queue : n # 1 => queue[n] # k /\ n - 1 \in DOMAIN queue'
                                         /\ queue'[n - 1] = queue[n]
  BY <1>2 DEF QueueOK
<1>4. \A n \in DOMAIN queue' : n + 1 \in DOMAIN queue /\ n + 1 # 1
  BY <1>2
<1>5. InQueue(k)
  BY <1>2 DEF InQueue
<1>6. ASSUME NEW j
      PROVE  InQueue(j)' <=> InQueue(j) /\ j # k
  BY <1>2, <1>3, <1>4 DEF InQueue
<1>7. QueueOK'
  <2>1. \A m, n \in DOMAIN queue' : queue'[m] = queue'[n] => m = n
    <3> SUFFICES ASSUME NEW m \in DOMAIN queue', NEW n \in DOMAIN queue',
                        queue'[m] = queue'[n]
                 PROVE  m = n
      OBVIOUS
    <3>1. m + 1 = n + 1
      BY <1>2, <1>4 DEF QueueOK
    <3> QED
      BY <1>2, <3>1
  <2>2. \A n \in DOMAIN queue' : queue'[n] \in flight'
    BY <1>2, <1>3, <1>4 DEF QueueOK
  <2> QED
    BY <1>2, <2>1, <2>2 DEF QueueOK
<1> QED
  BY <1>5, <1>6, <1>7

-----------------------------------------------------------------------------
(* The pool's threads.                                                     *)

LEMMA RunKeeps ==
  ASSUME JInv, Run
  PROVE  JInv'
<1>1. CASE RunApply
  <2>1. QueueOK' /\ \A j : InQueue(j)' <=> (InQueue(j) \/ j = "apply")
    BY <1>1, QueuedMore DEF RunApply, JInv, Kinds, shown
  <2>2. PICK kept \in BOOLEAN, new \in BOOLEAN :
          /\ new = (plan["apply"].settings # disk /\ kept)
          /\ disk' = IF kept THEN plan["apply"].settings ELSE disk
          /\ plan' = [plan EXCEPT !["apply"].changed = new]
    BY <1>1, Zenon DEF RunApply
  <2>3. /\ UNCHANGED <<served, unloaded, flight, again, cronApply, everything, stale,
                       current, tags>>
        /\ ~InQueue("apply")
    BY <1>1 DEF RunApply, shown, Working, InQueue
  <2>4. DOMAIN plan = Kinds /\ "changed" \in DOMAIN plan["apply"]
    BY DEF JInv, IsState, State
  <2>5. DOMAIN plan' = Kinds /\ plan'["apply"].changed = new
        /\ "changed" \in DOMAIN plan'["apply"] /\ plan'["reload"] = plan["reload"]
    BY <2>2, <2>4 DEF Kinds
  <2>6. disk' # disk => new
    BY <2>2
  <2>7. Ahead'
    BY <2>1, <2>3, <2>5, <2>6 DEF JInv, Ahead, Loaded
  <2>8. IsState(State)' /\ FlagsOK(State)'
    BY <2>3, <2>5 DEF JInv, IsState, FlagsOK, State, StateFields
  <2> QED
    BY <2>1, <2>7, <2>8 DEF JInv
<1>2. CASE RunReload
  <2>1. /\ "reload" \in flight
        /\ UNCHANGED <<disk, flight, again, cronApply, everything, stale, current, tags>>
    BY <1>2 DEF RunReload, Working, shown
  <2>2. CASE Loaded
    <3>1. Working("reload") /\ Done("reload") /\ UNCHANGED <<plan, served, unloaded>>
      BY <1>2, <2>2 DEF RunReload
    <3>2. QueueOK' /\ \A j : InQueue(j)' <=> (InQueue(j) \/ j = "reload")
      BY <2>1, <3>1, QueuedMore DEF JInv, Kinds
    <3> QED
      BY <2>1, <2>2, <3>1, <3>2 DEF JInv, IsState, FlagsOK, Ahead, Loaded, State, StateFields
  <2>3. CASE ~Loaded
    <3>1. /\ plan' = [plan EXCEPT !["reload"].changed = TRUE]
          /\ (served' = disk \/ unloaded') /\ queue' = queue
      BY <1>2, <2>3 DEF RunReload
    <3>2. DOMAIN plan' = Kinds /\ plan'["apply"] = plan["apply"]
      BY <3>1 DEF JInv, IsState, State, Kinds
    <3>3. IsState(State)' /\ FlagsOK(State)'
      BY <2>1, <3>2 DEF JInv, IsState, FlagsOK, State, StateFields
    <3>4. QueueOK' /\ Ahead'
      BY <2>1, <3>1 DEF JInv, QueueOK, Ahead
    <3> QED
      BY <3>3, <3>4 DEF JInv
  <2> QED
    BY <2>2, <2>3
<1>3. CASE RunCheck
  <2>1. QueueOK' /\ \A j : InQueue(j)' <=> (InQueue(j) \/ j = "check")
    BY <1>3, QueuedMore DEF RunCheck, JInv, Kinds, shown
  <2>2. plan' = [plan EXCEPT !["check"].disk = disk]
        /\ UNCHANGED <<files, flight, again, cronApply, everything, stale, current, tags>>
    BY <1>3 DEF RunCheck, shown
  <2>3. DOMAIN plan = Kinds
    BY DEF JInv, IsState, State
  <2>4. DOMAIN plan' = Kinds /\ \A k \in {"apply", "reload"} : plan'[k] = plan[k]
    BY <2>2, <2>3 DEF Kinds
  <2> QED
    BY <2>1, <2>2, <2>4 DEF JInv, IsState, FlagsOK, Ahead, Loaded, State, StateFields, files
<1>4. CASE RunRender
  <2>1. QueueOK' /\ \A j : InQueue(j)' <=> (InQueue(j) \/ j = "render")
    BY <1>4, QueuedMore DEF RunRender, JInv, Kinds, shown
  <2>2. UNCHANGED <<files, flight, plan, again, cronApply, everything, stale, current, tags>>
    BY <1>4 DEF RunRender, shown
  <2> QED
    BY <2>1, <2>2 DEF JInv, IsState, FlagsOK, Ahead, Loaded, State, StateFields, files
<1> QED
  BY <1>1, <1>2, <1>3, <1>4 DEF Run

-----------------------------------------------------------------------------
(* The main thread takes an event.                                         *)

\* A reload that is asked for is out and not done, or is asked for again.
LEMMA ReloadAsked ==
  ASSUME NEW s, NEW fails, IsState(s)
  PROVE  LET t == StartReload(s, fails)
         IN  t.unloaded \/ ("reload" \in t.flight /\ ("reload" \in t.again \/ "reload" \notin s.flight))
  BY DEF StartReload, IsState, StateFields

LEMMA FinishApplyKeeps ==
  ASSUME JInv, FinishApply
  PROVE  JInv'
<1> DEFINE o == [Over("apply") EXCEPT !.cronApply = FALSE]
           r == Refresh(o, settings)
<1>1. PICK fails \in Failing :
        LET t == IF plan["apply"].changed THEN StartReload(r, fails) ELSE r
        IN  Becomes(IF everything THEN StartEverythingFirewall(t, fails) ELSE t)
  BY DEF FinishApply
<1> DEFINE t == IF plan["apply"].changed THEN StartReload(r, fails) ELSE r
           u == IF everything THEN StartEverythingFirewall(t, fails) ELSE t
<1>2. /\ IsState(o) /\ o.flight = flight \ {"apply"} /\ o.again = again
      /\ o.unloaded = unloaded /\ o.cronApply = FALSE /\ o.everything = everything
      /\ o.plan["reload"] = plan["reload"]
  BY DEF JInv, IsState, Over, State, StateFields, Kinds, NoPlan
<1> HIDE DEF o
<1>3. Grows(o, r) /\ SameFlags(o, r) /\ IsState(r)
  BY <1>2, RefreshGrows DEF Grows
<1> HIDE DEF r
<1>4. Grows(r, t) /\ SameFlags(r, t)
  BY <1>3, StartReloadGrows DEF Grows, SameFlags
<1>5. Grows(o, t) /\ SameFlags(o, t) /\ IsState(t)
  BY <1>3, <1>4, GrowsOn DEF SameFlags, Grows
<1>6. plan["apply"].changed =>
        t.unloaded \/ ("reload" \in t.flight /\ ("reload" \in t.again \/ "reload" \notin flight))
  BY <1>2, <1>3, ReloadAsked DEF Grows
<1> HIDE DEF t
<1>7. Grows(t, u) /\ u.everything = FALSE /\ u.cronApply = FALSE
  <2>1. CASE everything
    BY <1>2, <1>5, <2>1, StartEverythingFirewallGrows DEF SameFlags
  <2>2. CASE ~everything
    BY <1>2, <1>5, <2>2 DEF Grows, SameFlags
  <2> QED
    BY <2>1, <2>2
<1>8. Becomes(u) /\ Grows(o, u)
  BY <1>1, <1>5, <1>7, GrowsOn DEF t
<1> HIDE DEF u
<1>9. IsState(State)' /\ FlagsOK(State)'
  BY <1>7, <1>8 DEF Grows, IsState, FlagsOK, Becomes, State, StateFields
<1>10. /\ flight \ {"apply"} \subseteq flight' /\ again \subseteq again'
       /\ unloaded => unloaded'
       /\ t.flight \subseteq flight' /\ t.again \subseteq again' /\ (t.unloaded => unloaded')
       /\ plan'["reload"] = plan["reload"]
  BY <1>2, <1>7, <1>8 DEF Grows, Becomes
<1>11. Finished("apply") /\ UNCHANGED <<disk, served>>
  BY DEF FinishApply, Finished
<1>12. QueueOK' /\ \A j : InQueue(j)' <=> InQueue(j) /\ j # "apply"
  BY <1>10, <1>11, QueuedLess DEF JInv
<1>13. /\ InQueue("reload") => "reload" \in flight
       /\ "reload" \notin flight => ~Loaded
  BY DEF JInv, QueueOK, InQueue, IsState, State, Loaded
<1>14. Ahead'
  BY <1>6, <1>10, <1>11, <1>12, <1>13 DEF JInv, Ahead, Loaded
<1> QED
  BY <1>9, <1>12, <1>14 DEF JInv

LEMMA FinishReloadKeeps ==
  ASSUME JInv, FinishReload
  PROVE  JInv'
<1> DEFINE o == [Over("reload") EXCEPT !.again = @ \ {"reload"}]
<1>1. PICK fails \in Failing :
        Becomes(IF "reload" \in again THEN StartReload(o, fails) ELSE Over("reload"))
  BY DEF FinishReload
<1> DEFINE t == IF "reload" \in again THEN StartReload(o, fails) ELSE Over("reload")
<1>2. \A x \in {o, Over("reload")} :
        /\ IsState(x) /\ x.flight = flight \ {"reload"} /\ x.unloaded = unloaded
        /\ x.cronApply = cronApply /\ x.everything = everything
        /\ x.plan["apply"] = plan["apply"] /\ ~x.plan["reload"].changed
  <2>1. LET x == Over("reload") IN
        /\ IsState(x) /\ x.flight = flight \ {"reload"} /\ x.unloaded = unloaded
        /\ x.cronApply = cronApply /\ x.everything = everything
        /\ x.plan["apply"] = plan["apply"] /\ ~x.plan["reload"].changed
    BY DEF JInv, IsState, Over, State, StateFields, Kinds, NoPlan
  <2>2. /\ DOMAIN o = StateFields /\ o.flight = Over("reload").flight
        /\ o.unloaded = Over("reload").unloaded /\ o.cronApply = Over("reload").cronApply
        /\ o.everything = Over("reload").everything /\ o.plan = Over("reload").plan
    BY <2>1 DEF IsState, StateFields
  <2> QED
    BY <2>1, <2>2 DEF IsState
<1> HIDE DEF o
<1>3. Grows(o, StartReload(o, fails)) /\ SameFlags(o, StartReload(o, fails))
  BY <1>2, StartReloadGrows
<1>4. "reload" \in again =>
        t.unloaded \/ ("reload" \in t.flight /\ "reload" \notin o.flight)
               \/ ("reload" \in t.flight /\ "reload" \in t.again)
  BY <1>2, ReloadAsked
<1>5. /\ IsState(t) /\ flight \ {"reload"} \subseteq t.flight
      /\ unloaded => t.unloaded
      /\ "apply" \in flight => t.plan["apply"].changed = plan["apply"].changed
      /\ t.cronApply = cronApply /\ t.everything = everything /\ ~t.plan["reload"].changed
  BY <1>2, <1>3 DEF Grows, SameFlags
<1>6. Becomes(t)
  BY <1>1
<1> HIDE DEF t
<1>7. IsState(State)' /\ FlagsOK(State)'
  BY <1>5, <1>6 DEF JInv, IsState, FlagsOK, Becomes, State, StateFields
<1>8. Finished("reload") /\ UNCHANGED <<disk, served>>
  BY DEF FinishReload, Finished
<1>9. QueueOK' /\ InQueue("reload") /\ \A j : InQueue(j)' <=> InQueue(j) /\ j # "reload"
  BY <1>5, <1>6, <1>8, QueuedLess DEF JInv, Becomes
<1>10. InQueue("apply") => "apply" \in flight
  BY DEF JInv, QueueOK, InQueue
<1>11. Ahead'
  BY <1>4, <1>5, <1>6, <1>8, <1>9, <1>10 DEF JInv, Ahead, Loaded, Becomes
<1> QED
  BY <1>7, <1>9, <1>11 DEF JInv

\* The events that neither flag nor reload waits for.
LEMMA FinishOtherKeeps ==
  ASSUME JInv, NEW k \in {"check", "render"}, Finished(k), NEW o, NEW t,
         IsState(o), o.flight = flight \ {k}, again \ {"check"} \subseteq o.again,
         o.unloaded = unloaded, o.cronApply = cronApply, o.everything = everything,
         o.plan["apply"] = plan["apply"], o.plan["reload"] = plan["reload"],
         Grows(o, t), SameFlags(o, t), Becomes(t)
  PROVE  JInv'
<1>1. /\ flight \ {k} \subseteq flight' /\ again \ {"check"} \subseteq again'
      /\ unloaded => unloaded'
      /\ "apply" \in flight => plan'["apply"].changed = plan["apply"].changed
      /\ cronApply' = cronApply /\ everything' = everything
      /\ plan'["reload"] = plan["reload"]
  BY DEF Grows, SameFlags, Becomes
<1>2. UNCHANGED <<disk, served>>
  BY DEF Finished
<1>3. QueueOK' /\ \A j : InQueue(j)' <=> InQueue(j) /\ j # k
  BY <1>1, QueuedLess DEF JInv
<1>4. InQueue("apply") => "apply" \in flight
  BY DEF JInv, QueueOK, InQueue
<1>5. Ahead'
  BY <1>1, <1>2, <1>3, <1>4 DEF JInv, Ahead, Loaded
<1>6. IsState(State)' /\ FlagsOK(State)'
  BY <1>1 DEF JInv, Grows, IsState, FlagsOK, Becomes, State, StateFields
<1> QED
  BY <1>3, <1>5, <1>6 DEF JInv

LEMMA FinishKeeps ==
  ASSUME JInv, Finish
  PROVE  JInv'
<1>1. CASE FinishCheck
  <2> DEFINE o == [Over("check") EXCEPT !.current = TRUE, !.tags = plan["check"],
                                        !.again = @ \ {"check"}]
             t == IF "check" \in again THEN StartCheck(o, settings) ELSE o
  <2>1. Finished("check") /\ Becomes(t)
    BY <1>1 DEF FinishCheck
  <2>2. /\ IsState(o) /\ o.flight = flight \ {"check"} /\ o.again = again \ {"check"}
        /\ o.unloaded = unloaded /\ o.cronApply = cronApply /\ o.everything = everything
        /\ o.plan["apply"] = plan["apply"] /\ o.plan["reload"] = plan["reload"]
    BY DEF JInv, IsState, Over, State, StateFields, Kinds
  <2> HIDE DEF o
  <2>3. Grows(o, t) /\ SameFlags(o, t)
    BY <2>2, StartCheckGrows DEF Grows, SameFlags
  <2> HIDE DEF t
  <2> QED
    BY <2>1, <2>2, <2>3, FinishOtherKeeps
<1>2. CASE FinishRender
  <2> DEFINE o == Over("render")
             t == Refresh(o, settings)
  <2>1. Finished("render") /\ Becomes(t)
    BY <1>2 DEF FinishRender
  <2>2. /\ IsState(o) /\ o.flight = flight \ {"render"} /\ o.again = again
        /\ o.unloaded = unloaded /\ o.cronApply = cronApply /\ o.everything = everything
        /\ o.plan["apply"] = plan["apply"] /\ o.plan["reload"] = plan["reload"]
    BY DEF JInv, IsState, Over, State, StateFields, Kinds
  <2> HIDE DEF o
  <2>3. Grows(o, t) /\ SameFlags(o, t)
    BY <2>2, RefreshGrows
  <2> HIDE DEF t
  <2> QED
    BY <2>1, <2>2, <2>3, FinishOtherKeeps
<1> QED
  BY <1>1, <1>2, FinishApplyKeeps, FinishReloadKeeps DEF Finish

\* A TUI that was killed has nothing in flight, and nobody loads what it wrote.
LEMMA KilledKeeps ==
  ASSUME JInv, NEW p, Killed(p)
  PROVE  JInv'
<1>1. CASE p # Tui
  BY <1>1, AppIdle DEF Killed
<1>2. CASE p = Tui
  <2>1. /\ flight' = {} /\ plan' = [k \in Kinds |-> NoPlan] /\ again' = {}
        /\ cronApply' = FALSE /\ everything' = FALSE
        /\ unloaded' = (unloaded \/ served # disk)
        /\ queue' = <<>> /\ UNCHANGED <<disk, served>>
    BY <1>2 DEF Killed, Becomes, State
  <2>2. IsState(State)' /\ FlagsOK(State)' /\ QueueOK' /\ Ahead'
    <3>1. IsState(State)'
      BY <2>1 DEF IsState, State, StateFields, Kinds, NoPlan
    <3>2. FlagsOK(State)'
      BY <2>1 DEF FlagsOK, State
    <3>3. QueueOK'
      BY <2>1 DEF QueueOK
    <3>4. Ahead'
      <4>1. served' # disk' => unloaded'
        BY <2>1
      <4> QED
        BY <4>1 DEF Ahead
    <3> QED
      BY <3>1, <3>2, <3>3, <3>4
  <2> QED
    BY <2>2 DEF JInv
<1> QED
  BY <1>1, <1>2

LEMMA Inductive == JInv /\ [Next]_vars => JInv'
<1> SUFFICES ASSUME JInv, [Next]_vars
             PROVE  JInv'
  OBVIOUS
<1>1. CASE UNCHANGED vars
  BY <1>1, AppIdle DEF vars
<1>2. CASE ScheduleSteps /\ UNCHANGED app
  BY <1>2, AppIdle
<1> QED
  BY <1>1, <1>2, CronStepKeeps, KilledKeeps, KeysKeep, CronApplyKeeps, RunKeeps, FinishKeeps
  DEF Next

LEMMA Initial == Init => JInv
  BY DEF Init, AppInit, JInv, IsState, FlagsOK, QueueOK, Ahead, State, StateFields, Kinds, NoPlan

LEMMA JInvIsEnough == JInv => LastWriteReloaded /\ FlagsHaveAnApply
<1> SUFFICES ASSUME JInv
             PROVE  LastWriteReloaded /\ FlagsHaveAnApply
  OBVIOUS
<1>1. FlagsHaveAnApply
  BY DEF JInv, FlagsOK, State, FlagsHaveAnApply
<1>2. InQueue("apply") => "apply" \in flight
  BY DEF JInv, QueueOK, InQueue
<1>3. LastWriteReloaded
  BY <1>2 DEF JInv, Ahead, LastWriteReloaded, InQueue, Working, Loaded
<1> QED
  BY <1>1, <1>3

\* However applies, reloads, edits, failures and restarts overlap, what an
\* apply wrote is loaded by a reload that is still to come, or a reload failed.
THEOREM LastWriteHolds == Spec => []LastWriteReloaded
  BY Initial, Inductive, JInvIsEnough, PTL DEF Spec

\* A flag that says what an apply is for is up only while one is out.
THEOREM FlagsHold == Spec => []FlagsHaveAnApply
  BY Initial, Inductive, JInvIsEnough, PTL DEF Spec

-----------------------------------------------------------------------------
(* What the sites' tags say.                                               *)

CheckPlan == {"settings", "disk", "changed"}

\* Tags that are not to be worked out again when the screen comes into view
\* are right, but for an apply whose event waits; or a check is out that will
\* find what is so now, or that is followed by another.
TagsInv ==
    /\ DOMAIN plan["check"] = CheckPlan
    /\ screen = "sites" => ~stale
    /\ ~stale =>
        \/ /\ "check" \in flight
           /\ \/ "check" \in again
              \/ /\ plan["check"].settings = settings
                 /\ InQueue("check") => InQueue("apply") \/ plan["check"].disk = disk
        \/ /\ "check" \notin flight /\ current
           /\ tags.settings = settings
           /\ InQueue("apply") \/ tags.disk = disk

TagsJInv == JInv /\ TagsInv

\* What has nothing to do with the tags.
SameTags(s, t) ==
    /\ IsState(t)
    /\ t.stale = s.stale /\ t.current = s.current /\ t.tags = s.tags
    /\ t.plan["check"] = s.plan["check"]
    /\ "check" \in t.flight <=> "check" \in s.flight
    /\ "check" \in t.again <=> "check" \in s.again

\* The tags are to be worked out anew, at once if `sites` is in view.
Renewed(s, t, now, view) ==
    /\ DOMAIN t.plan["check"] = DOMAIN s.plan["check"]
    /\ view = "sites" => ~t.stale
    /\ ~t.stale => /\ "check" \in t.flight
                   /\ \/ "check" \in t.again
                      \/ "check" \notin s.flight /\ t.plan["check"].settings = now

LEMMA SameTagsOn ==
  ASSUME NEW s, NEW t, NEW u, SameTags(s, t), SameTags(t, u)
  PROVE  SameTags(s, u)
  BY DEF SameTags

LEMMA RenewedOn ==
  ASSUME NEW s, NEW t, NEW u, NEW now, NEW view, Renewed(s, t, now, view), SameTags(t, u)
  PROVE  Renewed(s, u, now, view)
  BY DEF SameTags, Renewed

LEMMA StartReloadTags ==
  ASSUME NEW s, NEW fails, IsState(s)
  PROVE  SameTags(s, StartReload(s, fails))
<1>1. IsState(StartReload(s, fails))
  BY StartReloadGrows DEF Grows
<1> QED
  BY <1>1 DEF StartReload, SameTags, IsState, StateFields

LEMMA StartRenderTags ==
  ASSUME NEW s, NEW fails, IsState(s)
  PROVE  SameTags(s, StartRender(s, fails))
<1>1. IsState(StartRender(s, fails))
  BY StartRenderGrows DEF Grows
<1> QED
  BY <1>1 DEF StartRender, SameTags, IsState, StateFields

LEMMA StartApplyTags ==
  ASSUME NEW s, NEW fails, IsState(s)
  PROVE  SameTags(s, StartApply(s, fails))
<1>1. IsState(StartApply(s, fails))
  BY StartApplyGrows DEF Grows
<1> QED
  BY <1>1 DEF StartApply, SameTags, IsState, StateFields, Kinds

LEMMA StartEverythingFirewallTags ==
  ASSUME NEW s, NEW fails, IsState(s)
  PROVE  SameTags(s, StartEverythingFirewall(s, fails))
<1> DEFINE u == [s EXCEPT !.everything = FALSE]
<1>1. SameTags(s, u)
  BY DEF SameTags, IsState, StateFields
<1>2. SameTags(u, StartRender(u, fails))
  BY <1>1, StartRenderTags DEF SameTags
<1> QED
  BY <1>1, <1>2, SameTagsOn DEF StartEverythingFirewall

LEMMA StartEverythingTags ==
  ASSUME NEW s, NEW fails, IsState(s)
  PROVE  SameTags(s, StartEverything(s, fails))
<1> DEFINE u == [s EXCEPT !.everything = TRUE]
           t == StartApply(u, fails)
<1>1. SameTags(s, u) /\ SameTags(s, s)
  BY DEF SameTags, IsState, StateFields
<1>2. SameTags(u, t)
  BY <1>1, StartApplyTags DEF SameTags
<1>3. SameTags(t, StartEverythingFirewall(t, fails))
  BY <1>2, StartEverythingFirewallTags DEF SameTags
<1>4. StartEverything(s, fails) \in {s, t, StartEverythingFirewall(t, fails)}
  BY DEF StartEverything
<1> HIDE DEF t, u
<1> QED
  BY <1>1, <1>2, <1>3, <1>4, SameTagsOn

\* A check is out for the settings as they are, or asked for again.
LEMMA StartCheckRenews ==
  ASSUME NEW s, NEW now, IsState(s), DOMAIN s.plan["check"] = CheckPlan, ~s.stale
  PROVE  Renewed(s, StartCheck(s, now), now, "sites")
<1>1. CASE "check" \in s.flight
  BY <1>1 DEF StartCheck, Renewed, IsState, StateFields
<1>2. CASE "check" \notin s.flight
  <2> DEFINE t == StartCheck(s, now)
  <2>1. t.plan["check"] = [s.plan["check"] EXCEPT !.settings = now]
        /\ "check" \in t.flight /\ t.stale = s.stale
    BY <1>2 DEF StartCheck, IsState, StateFields, Kinds
  <2> QED
    BY <1>2, <2>1 DEF Renewed, CheckPlan
<1> QED
  BY <1>1, <1>2

LEMMA RefreshRenews ==
  ASSUME NEW s, NEW now, IsState(s), DOMAIN s.plan["check"] = CheckPlan
  PROVE  Renewed(s, Refresh(s, now), now, screen)
<1> DEFINE u == [s EXCEPT !.stale = FALSE, !.current = FALSE]
           v == [s EXCEPT !.stale = TRUE]
<1>1. IsState(u) /\ ~u.stale /\ u.plan = s.plan /\ u.flight = s.flight
  BY DEF IsState, StateFields
<1>2. v.stale /\ v.plan = s.plan
  BY DEF IsState, StateFields
<1> HIDE DEF u, v
<1>3. CASE screen = "sites"
  <2>1. Renewed(u, StartCheck(u, now), now, "sites")
    BY <1>1, StartCheckRenews
  <2>2. Refresh(s, now) = StartCheck(u, now)
    BY <1>3 DEF Refresh, u
  <2> QED
    BY <1>1, <1>3, <2>1, <2>2 DEF Renewed
<1>4. CASE screen # "sites"
  <2>1. Refresh(s, now) = v
    BY <1>4 DEF Refresh, v
  <2> QED
    BY <1>2, <1>4, <2>1 DEF Renewed
<1> QED
  BY <1>3, <1>4

-----------------------------------------------------------------------------

\* A step that leaves the tags, the settings and the files alone.
LEMMA TagsLeft ==
  ASSUME TagsJInv, NEW t, SameTags(State, t), Becomes(t),
         UNCHANGED <<settings, disk>>, screen' = "sites" => ~stale,
         \A j \in {"apply", "check"} : InQueue(j)' <=> InQueue(j)
  PROVE  TagsInv'
<1>1. /\ UNCHANGED <<stale, current, tags>> /\ plan'["check"] = plan["check"]
      /\ "check" \in flight' <=> "check" \in flight
      /\ "check" \in again' <=> "check" \in again
  BY DEF SameTags, Becomes, State
<1> QED
  BY <1>1 DEF TagsJInv, TagsInv

\* A step that has them worked out anew.
LEMMA TagsRenewed ==
  ASSUME TagsJInv, NEW s, NEW t, Becomes(t), Renewed(s, t, settings', screen'),
         DOMAIN s.plan["check"] = CheckPlan, "check" \in flight => "check" \in s.flight,
         InQueue("check")' => InQueue("check")
  PROVE  TagsInv'
<1>1. InQueue("check") => "check" \in flight
  BY DEF TagsJInv, JInv, QueueOK, InQueue
<1> QED
  BY <1>1 DEF Renewed, Becomes, TagsInv

LEMMA TagsIdle == TagsJInv /\ UNCHANGED app => TagsInv'
  BY DEF TagsJInv, TagsInv, InQueue, app, files, shown

LEMMA StateTags ==
  ASSUME TagsJInv
  PROVE  /\ IsState(State) /\ SameTags(State, State)
         /\ DOMAIN State.plan["check"] = CheckPlan /\ State.flight = flight
         /\ State.again = again /\ State.plan = plan
  BY DEF TagsJInv, JInv, TagsInv, SameTags, State

\* What the main thread starts on a key.
LEMMA KeyTags ==
  ASSUME TagsJInv, NEW what, NEW t, Key(what, t),
         SameTags(State, t) \/ Renewed(State, t, settings, screen)
  PROVE  TagsInv'
<1>1. Becomes(t) /\ UNCHANGED <<settings, disk, screen, queue>>
  BY DEF Key
<1>2. \A j : InQueue(j)' <=> InQueue(j)
  BY <1>1 DEF InQueue
<1>3. screen' = "sites" => ~stale
  BY <1>1 DEF TagsJInv, TagsInv
<1> QED
  BY <1>1, <1>2, <1>3, TagsLeft, TagsRenewed, StateTags

LEMMA KeysTags ==
  ASSUME TagsJInv, Edit \/ Show \/ Press
  PROVE  TagsInv'
<1> USE StateTags
<1>1. CASE Edit
  <2>1. /\ Becomes(Refresh(State, settings + 1)) /\ UNCHANGED <<screen, queue>>
        /\ settings' = settings + 1
    BY <1>1 DEF Edit
  <2>2. Renewed(State, Refresh(State, settings + 1), settings', screen')
    BY <2>1, RefreshRenews
  <2> QED
    BY <2>1, <2>2, TagsRenewed DEF InQueue
<1>2. CASE Show
  <2>1. UNCHANGED <<settings, disk, queue>>
    BY <1>2 DEF Show
  <2>2. CASE screen' = "sites" /\ stale
    <3> DEFINE u == [State EXCEPT !.stale = FALSE, !.current = FALSE]
    <3>1. IsState(u) /\ ~u.stale /\ u.plan = plan /\ u.flight = flight
      BY DEF IsState, StateFields
    <3>2. Becomes(StartCheck(u, settings))
      BY <1>2, <2>2 DEF Show
    <3> HIDE DEF u
    <3>3. Renewed(u, StartCheck(u, settings), settings', screen')
      BY <2>1, <2>2, <3>1, StartCheckRenews
    <3> QED
      BY <2>1, <3>1, <3>2, <3>3, TagsRenewed DEF InQueue
  <2>3. CASE ~(screen' = "sites" /\ stale)
    <3>1. Becomes(State)
      BY <1>2, <2>3 DEF Show
    <3> QED
      BY <2>1, <2>3, <3>1, TagsLeft DEF InQueue
  <2> QED
    BY <2>2, <2>3
<1>3. CASE Press
  <2>1. PICK fails \in Failing :
          \/ Key("apply", StartApply(State, fails))
          \/ Key("everything", StartEverything(State, fails))
          \/ Key("render", StartRender(State, fails))
          \/ Key("reload", StartReload(Refresh(State, settings), fails))
    BY <1>3, Zenon DEF Press
  <2> DEFINE r == Refresh(State, settings)
  <2>2. IsState(r) /\ Renewed(State, r, settings, screen)
    BY RefreshGrows, RefreshRenews DEF Grows
  <2>3. Renewed(State, StartReload(r, fails), settings, screen)
    BY <2>2, StartReloadTags, RenewedOn
  <2>4. /\ SameTags(State, StartApply(State, fails))
        /\ SameTags(State, StartEverything(State, fails))
        /\ SameTags(State, StartRender(State, fails))
    BY StartApplyTags, StartEverythingTags, StartRenderTags
  <2> QED
    BY <2>1, <2>3, <2>4, KeyTags
<1> QED
  BY <1>1, <1>2, <1>3

LEMMA CronTags ==
  ASSUME TagsJInv, CronApply \/ \E p \in Procs : CronStep(p)
  PROVE  TagsInv'
<1> USE StateTags
<1>1. UNCHANGED <<settings, disk, screen, queue>>
  BY DEF CronApply, CronStep
<1>2. (\A j : InQueue(j)' <=> InQueue(j)) /\ (screen' = "sites" => ~stale)
  BY <1>1 DEF InQueue, TagsJInv, TagsInv
<1>3. CASE CronApply
  <2> DEFINE u == [State EXCEPT !.cronApply = TRUE]
  <2>1. PICK fails \in Failing :
          LET s == StartApply(u, fails)
          IN  Becomes(IF "apply" \in s.flight THEN s ELSE [s EXCEPT !.cronApply = FALSE])
    BY <1>3 DEF CronApply
  <2> DEFINE s == StartApply(u, fails)
             t == [s EXCEPT !.cronApply = FALSE]
  <2>2. SameTags(State, u)
    BY DEF SameTags, IsState, StateFields
  <2> HIDE DEF u
  <2>3. SameTags(u, s)
    BY <2>2, StartApplyTags DEF SameTags
  <2> HIDE DEF s
  <2>4. SameTags(s, t)
    BY <2>3 DEF SameTags, IsState, StateFields
  <2>5. PICK x \in {s, t} : Becomes(x)
    BY <2>1 DEF s
  <2> HIDE DEF t
  <2>6. SameTags(State, x)
    BY <2>2, <2>3, <2>4, <2>5, SameTagsOn
  <2> QED
    BY <1>1, <1>2, <2>5, <2>6, TagsLeft
<1>4. ASSUME NEW p \in Procs, CronStep(p)
      PROVE  TagsInv'
  <2>1. PICK t \in {Refresh(State, settings), State} : Becomes(t)
    BY <1>4 DEF CronStep
  <2>2. Renewed(State, Refresh(State, settings), settings, screen)
    BY RefreshRenews
  <2> QED
    BY <1>1, <1>2, <2>1, <2>2, TagsLeft, TagsRenewed
<1> QED
  BY <1>3, <1>4

LEMMA RunTags ==
  ASSUME TagsJInv, Run
  PROVE  TagsInv'
<1>1. QueueOK /\ DOMAIN plan = Kinds /\ DOMAIN plan["check"] = CheckPlan
  BY DEF TagsJInv, JInv, IsState, State, TagsInv
<1>2. CASE RunApply
  <2>1. \A j : InQueue(j)' <=> (InQueue(j) \/ j = "apply")
    BY <1>1, <1>2, QueuedMore DEF RunApply, Kinds
  <2>2. UNCHANGED <<settings, screen, stale, tags, current, flight, again>>
    BY <1>2 DEF RunApply, shown
  <2>3. plan'["check"] = plan["check"]
    BY <1>1, <1>2 DEF RunApply, Kinds
  <2> QED
    BY <2>1, <2>2, <2>3 DEF TagsJInv, TagsInv
<1>3. CASE RunReload
  <2>1. UNCHANGED <<settings, disk, screen, stale, tags, current, flight, again>>
    BY <1>3 DEF RunReload, shown
  <2>2. \A j \in {"apply", "check"} : InQueue(j)' <=> InQueue(j)
    <3>1. CASE UNCHANGED queue
      BY <3>1 DEF InQueue
    <3>2. CASE Done("reload")
      BY <1>1, <1>3, <2>1, <3>2, QueuedMore DEF RunReload, Kinds
    <3> QED
      BY <1>3, <3>1, <3>2 DEF RunReload
  <2>3. plan'["check"] = plan["check"]
    BY <1>1, <1>3 DEF RunReload, Kinds
  <2> QED
    BY <2>1, <2>2, <2>3 DEF TagsJInv, TagsInv
<1>4. CASE RunCheck
  <2>1. \A j : InQueue(j)' <=> (InQueue(j) \/ j = "check")
    BY <1>1, <1>4, QueuedMore DEF RunCheck, Kinds
  <2>2. UNCHANGED <<settings, disk, screen, stale, tags, current, flight, again>>
    BY <1>4 DEF RunCheck, shown, files
  <2>3. plan'["check"] = [plan["check"] EXCEPT !.disk = disk]
    BY <1>1, <1>4 DEF RunCheck, Kinds
  <2>4. /\ DOMAIN plan'["check"] = CheckPlan /\ plan'["check"].disk = disk
        /\ plan'["check"].settings = plan["check"].settings
    BY <1>1, <2>3 DEF CheckPlan
  <2> QED
    BY <2>1, <2>2, <2>4 DEF TagsJInv, TagsInv
<1>5. CASE RunRender
  <2>1. \A j : InQueue(j)' <=> (InQueue(j) \/ j = "render")
    BY <1>1, <1>5, QueuedMore DEF RunRender, Kinds
  <2>2. UNCHANGED <<settings, disk, screen, stale, tags, current, flight, again, plan>>
    BY <1>5 DEF RunRender, shown, files
  <2> QED
    BY <2>1, <2>2 DEF TagsJInv, TagsInv
<1> QED
  BY <1>2, <1>3, <1>4, <1>5 DEF Run


LEMMA OverTags ==
  ASSUME TagsJInv, NEW k \in Kinds \ {"check"}
  PROVE  /\ SameTags(State, Over(k)) /\ Over(k).flight = flight \ {k}
         /\ DOMAIN Over(k).plan["check"] = CheckPlan
<1>1. IsState(Over(k)) /\ Over(k).plan["check"] = plan["check"]
  BY DEF TagsJInv, JInv, IsState, Over, State, StateFields, Kinds, NoPlan
<1> QED
  BY <1>1 DEF TagsJInv, TagsInv, SameTags, Over, State, Kinds

LEMMA FinishApplyTags ==
  ASSUME TagsJInv, FinishApply
  PROVE  TagsInv'
<1> DEFINE o == [Over("apply") EXCEPT !.cronApply = FALSE]
           r == Refresh(o, settings)
<1>1. PICK fails \in Failing :
        LET t == IF plan["apply"].changed THEN StartReload(r, fails) ELSE r
        IN  Becomes(IF everything THEN StartEverythingFirewall(t, fails) ELSE t)
  BY DEF FinishApply
<1> DEFINE t == IF plan["apply"].changed THEN StartReload(r, fails) ELSE r
           u == IF everything THEN StartEverythingFirewall(t, fails) ELSE t
<1>2. Becomes(u)
  BY <1>1
<1>3. /\ IsState(o) /\ DOMAIN o.plan["check"] = CheckPlan
      /\ o.flight = flight \ {"apply"}
  BY OverTags DEF Kinds, SameTags, IsState, StateFields
<1> HIDE DEF o
<1>4. IsState(r) /\ Renewed(o, r, settings, screen) /\ Grows(o, r)
  BY <1>3, RefreshGrows, RefreshRenews DEF Grows
<1> HIDE DEF r
<1>5. IsState(t) /\ Renewed(o, t, settings, screen) /\ Grows(o, t)
  BY <1>4, StartReloadGrows, StartReloadTags, RenewedOn, GrowsOn DEF Grows
<1> HIDE DEF t
<1>6. Renewed(o, u, settings, screen) /\ Grows(o, u)
  BY <1>5, StartEverythingFirewallGrows, StartEverythingFirewallTags, RenewedOn, GrowsOn
<1> HIDE DEF u
<1>7. flight \ {"apply"} \subseteq flight' /\ Finished("apply")
  BY <1>2, <1>3, <1>6 DEF Grows, Becomes, FinishApply
<1>8. InQueue("check")' => InQueue("check")
  BY <1>7, QueuedLess DEF TagsJInv, JInv
<1>9. settings' = settings /\ screen' = screen
  BY <1>7 DEF Finished
<1> QED
  BY <1>2, <1>3, <1>6, <1>8, <1>9, TagsRenewed

LEMMA FinishReloadTags ==
  ASSUME TagsJInv, FinishReload
  PROVE  TagsInv'
<1> DEFINE o == [Over("reload") EXCEPT !.again = @ \ {"reload"}]
<1>1. SameTags(State, Over("reload")) /\ Over("reload").flight = flight \ {"reload"}
  BY OverTags DEF Kinds
<1>2. SameTags(Over("reload"), o) /\ o.flight = flight \ {"reload"}
  BY <1>1 DEF SameTags, IsState, StateFields
<1>3. PICK fails \in Failing :
        Becomes(IF "reload" \in again THEN StartReload(o, fails) ELSE Over("reload"))
  BY DEF FinishReload
<1> HIDE DEF o
<1>4. /\ SameTags(State, StartReload(o, fails))
      /\ flight \ {"reload"} \subseteq StartReload(o, fails).flight
  BY <1>1, <1>2, StartReloadTags, StartReloadGrows, SameTagsOn DEF SameTags, Grows
<1>5. PICK t : /\ t \in {StartReload(o, fails), Over("reload")}
               /\ Becomes(t)
  BY <1>3
<1>6. SameTags(State, t) /\ flight \ {"reload"} \subseteq flight' /\ Finished("reload")
  BY <1>1, <1>4, <1>5 DEF Becomes, FinishReload
<1>7. \A j \in {"apply", "check"} : InQueue(j)' <=> InQueue(j)
  BY <1>6, QueuedLess DEF TagsJInv, JInv
<1>8. UNCHANGED <<settings, disk, screen>>
  BY <1>6 DEF Finished
<1> QED
  BY <1>5, <1>6, <1>7, <1>8, TagsLeft DEF TagsJInv, TagsInv

LEMMA FinishRenderTags ==
  ASSUME TagsJInv, FinishRender
  PROVE  TagsInv'
<1> DEFINE o == Over("render")
           t == Refresh(o, settings)
<1>1. /\ IsState(o) /\ DOMAIN o.plan["check"] = CheckPlan
      /\ o.flight = flight \ {"render"}
  BY OverTags DEF Kinds, SameTags
<1>2. Becomes(t) /\ Finished("render")
  BY DEF FinishRender
<1> HIDE DEF o
<1>3. Renewed(o, t, settings, screen) /\ Grows(o, t)
  BY <1>1, RefreshGrows, RefreshRenews
<1> HIDE DEF t
<1>4. flight \ {"render"} \subseteq flight'
  BY <1>1, <1>2, <1>3 DEF Grows, Becomes
<1>5. InQueue("check")' => InQueue("check")
  BY <1>2, <1>4, QueuedLess DEF TagsJInv, JInv
<1>6. settings' = settings /\ screen' = screen
  BY <1>2 DEF Finished
<1> QED
  BY <1>1, <1>2, <1>3, <1>5, <1>6, TagsRenewed

\* A check that is done tells what is so now, or another follows.
LEMMA FinishCheckTags ==
  ASSUME TagsJInv, FinishCheck
  PROVE  TagsInv'
<1> DEFINE o == [Over("check") EXCEPT !.current = TRUE, !.tags = plan["check"],
                                      !.again = @ \ {"check"}]
           t == IF "check" \in again THEN StartCheck(o, settings) ELSE o
<1>1. Finished("check") /\ Becomes(t)
  BY DEF FinishCheck
<1>2. UNCHANGED <<settings, disk, screen>>
  BY <1>1 DEF Finished
<1>3. /\ IsState(o) /\ o.flight = flight \ {"check"} /\ o.current = TRUE
      /\ o.tags = plan["check"] /\ o.stale = stale
      /\ DOMAIN o.plan["check"] = CheckPlan
  <2>1. /\ DOMAIN o = StateFields /\ o.flight = flight \ {"check"} /\ o.current = TRUE
        /\ o.tags = plan["check"] /\ o.stale = stale
        /\ o.plan = [plan EXCEPT !["check"] = NoPlan]
    BY DEF Over, State, StateFields
  <2>2. DOMAIN plan = Kinds /\ flight \subseteq Kinds /\ "changed" \in DOMAIN plan["apply"]
        /\ ("reload" \notin flight => ~plan["reload"].changed)
    BY DEF TagsJInv, JInv, IsState, State
  <2>3. /\ DOMAIN o.plan = Kinds /\ o.plan["check"] = NoPlan
        /\ o.plan["apply"] = plan["apply"] /\ o.plan["reload"] = plan["reload"]
    BY <2>1, <2>2 DEF Kinds
  <2> HIDE DEF o
  <2> QED
    BY <2>1, <2>2, <2>3 DEF IsState, NoPlan, CheckPlan
<1> HIDE DEF o
<1>4. flight \ {"check"} \subseteq flight'
  <2>1. Grows(o, StartCheck(o, settings))
    BY <1>3, StartCheckGrows
  <2> QED
    BY <1>1, <1>3, <2>1 DEF Grows, Becomes
<1>5. /\ InQueue("check") /\ ~InQueue("check")'
      /\ InQueue("apply")' <=> InQueue("apply")
  BY <1>1, <1>4, QueuedLess DEF TagsJInv, JInv
<1>6. CASE "check" \in again
  <2>1. CASE stale
    <3>1. StartCheck(o, settings).stale
          /\ DOMAIN StartCheck(o, settings).plan["check"] = CheckPlan
      BY <1>3, <2>1 DEF StartCheck, IsState, StateFields, Kinds, CheckPlan
    <3> QED
      BY <1>1, <1>2, <1>6, <2>1, <3>1 DEF TagsJInv, TagsInv, Becomes
  <2>2. CASE ~stale
    <3>1. Renewed(o, StartCheck(o, settings), settings', "sites")
      BY <1>2, <1>3, <2>2, StartCheckRenews
    <3>2. Renewed(o, t, settings', "sites")
      BY <1>6, <3>1
    <3> HIDE DEF t
    <3> QED
      BY <1>1, <1>3, <1>5, <3>2 DEF Renewed, Becomes, TagsInv
  <2> QED
    BY <2>1, <2>2
<1>7. CASE "check" \notin again
  <2>1. InQueue("check") => "check" \in flight
    BY DEF TagsJInv, JInv, QueueOK, InQueue
  <2>2. t = o
    BY <1>7
  <2>3. /\ plan' = o.plan /\ stale' = stale /\ flight' = o.flight
        /\ current' /\ tags' = plan["check"]
    BY <1>1, <1>3, <2>2 DEF Becomes
  <2> QED
    BY <1>2, <1>3, <1>5, <1>7, <2>1, <2>3 DEF TagsJInv, TagsInv
<1> QED
  BY <1>6, <1>7

LEMMA KilledTags ==
  ASSUME TagsJInv, NEW p, Killed(p)
  PROVE  TagsInv'
<1>1. CASE p # Tui
  BY <1>1, TagsIdle DEF Killed
<1>2. CASE p = Tui
  <2>1. plan' = [k \in Kinds |-> NoPlan] /\ stale' = TRUE /\ screen' = "other"
    BY <1>2 DEF Killed, Becomes, State
  <2> QED
    BY <2>1 DEF TagsInv, CheckPlan, NoPlan, Kinds
<1> QED
  BY <1>1, <1>2

LEMMA TagsInductive == TagsJInv /\ [Next]_vars => TagsJInv'
<1> SUFFICES ASSUME TagsJInv, [Next]_vars
             PROVE  TagsInv'
  BY Inductive DEF TagsJInv
<1>1. CASE UNCHANGED vars
  BY <1>1, TagsIdle DEF vars
<1>2. CASE ScheduleSteps /\ UNCHANGED app
  BY <1>2, TagsIdle
<1>3. CASE Finish
  BY <1>3, FinishApplyTags, FinishReloadTags, FinishCheckTags, FinishRenderTags DEF Finish
<1> QED
  BY <1>1, <1>2, <1>3, CronTags, KilledTags, KeysTags, RunTags DEF Next

\* Through edits, applies, screens shown and left and restarts: a tag on
\* display that nobody works out any more is the one for the settings and the
\* files as they are.
THEOREM TagsHold == Spec => []TagsSettle
<1>1. Init => TagsJInv
  <2>1. Init => TagsInv
    BY DEF Init, AppInit, TagsInv, CheckPlan, NoPlan, Kinds
  <2> QED
    BY <2>1, Initial DEF TagsJInv
<1>2. TagsJInv => TagsSettle
  <2>1. TagsJInv /\ InQueue("apply") => "apply" \in flight
    BY DEF TagsJInv, JInv, QueueOK, InQueue
  <2> QED
    BY <2>1 DEF TagsJInv, TagsInv, TagsSettle
<1> QED
  BY <1>1, <1>2, TagsInductive, PTL DEF Spec
=============================================================================
