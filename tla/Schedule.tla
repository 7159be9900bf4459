------------------------------ MODULE Schedule -------------------------------
(***************************************************************************)
(* The schedule's downloads.  `tick` (one at a time, by its lock), every   *)
(* TUI and every `batch` ask the database which jobs are due and take the  *)
(* download lease, a row in it, before they fetch a list.  Time is in      *)
(* units of what one list may take to download; a time in the database is  *)
(* its age, which is negative after the clock was set back.                *)
(***************************************************************************)
EXTENDS Integers, FiniteSets, Sequences

CONSTANTS
    Tick,       \* the process `stop-bots tick`
    Tuis,       \* the processes that run the TUI
    Batches,    \* those that run `batch`
    None,       \* no run, no lease
    Never,      \* the age of what never happened
    LeaseTime,  \* LEASE_SECONDS
    Interval,   \* Interval[j]: when a job is due again
    Takes,      \* Takes[j]: at most, for one piece of j's work (see Fetch)
    Back,       \* how far the clock may be set back
    Oldest,     \* ages from here on are one age: no rule tells them apart
    Scenes      \* what a behaviour may be about

Procs == Tuis \union Batches \union {Tick}
Jobs == {"daily", "weekly", "sites", "feeds"}
Downloads == {"daily", "weekly", "feeds", "one"}
Lists == {"bots", "ranges"}

\* A scene says which jobs and processes there are, what is asked for by
\* hand, what goes wrong, how often anybody asks and anything goes wrong, and
\* how old the jobs and lists are at first.
ASSUME ConstantsAssumption ==
    /\ Tick \notin Tuis \union Batches /\ Tuis \cap Batches = {}
    /\ LeaseTime \in Nat /\ Back \in Nat
    /\ Interval \in [Jobs -> Nat \ {0}] /\ Takes \in [Downloads -> Nat]
    /\ Oldest \in Nat /\ LeaseTime <= Oldest /\ \A j \in Jobs : Interval[j] <= Oldest
    /\ Never \notin Int /\ None \notin [age : Int, by : Procs \X Downloads]
    /\ \A s \in Scenes :
        /\ s.jobs \subseteq Jobs /\ s.procs \subseteq Procs /\ s.most \in Nat
        /\ s.age \in [Jobs -> Nat \union {Never}]
        /\ s.fetched \in [Lists -> Nat \union {Never}]

VARIABLES
    scene,
    age,      \* age[j]: how long ago job j was recorded (set_cron_last_run)
    fetched,  \* fetched[l]: how long ago list l was downloaded
    lease,    \* keys::REFRESH_LEASE: its age and holder
    checked,  \* the processes that have looked at the schedule this minute
    todo,     \* todo[p]: the due jobs process p has still to start
    run,      \* run[p][j]: what p's run of the download j has in memory
    events    \* how often somebody asked or something went wrong

schedule == <<scene, age, fetched, lease, checked, todo, run, events>>

Older(a) == IF a = Never THEN Never ELSE IF a < Oldest THEN a + 1 ELSE a
Younger(a) == IF a = Never THEN Never ELSE a - Back

\* Once both jobs have been recorded nobody reads how old the lists are, and
\* `fetched` is left as it is.
FetchedIsRead == \E j \in {"weekly", "daily"} : age[j] = Never
Listed(new) == fetched' = IF FetchedIsRead THEN new ELSE fetched

Happens(what) ==
    /\ what \in scene.faults \union scene.asks
    /\ events < scene.most
    /\ events' = events + 1

-----------------------------------------------------------------------------
(* Which jobs are due (cron.rs).                                           *)

\* first_download_base: a host that has downloaded nothing does not begin to
\* by itself; one with lists counts from the oldest.
Base(j) ==
    IF j = "weekly" THEN fetched["bots"]
    ELSE IF fetched["bots"] = Never THEN fetched["ranges"]
    ELSE IF fetched["ranges"] = Never \/ fetched["ranges"] <= fetched["bots"]
      THEN fetched["bots"] ELSE fetched["ranges"]

IsDue(j) ==
    IF age[j] = Never
      THEN IF j \in {"weekly", "daily"}
             THEN Base(j) # Never /\ Base(j) >= Interval[j]
             ELSE TRUE
      ELSE age[j] >= Interval[j]

\* The weekly download is the daily one too.
DueJobs ==
    LET due == {j \in scene.jobs : IsDue(j)}
    IN  SelectSeq(<<"daily", "weekly", "sites", "feeds">>,
                  LAMBDA j : j \in due /\ ~(j = "daily" /\ "weekly" \in due))

Recorded(j) == age' = [age EXCEPT ![j] = 0]

-----------------------------------------------------------------------------
(* The lease (refresh.rs).                                                 *)

\* Mutant: a lease that is renewed too seldom is anybody's.
FreeEarly == lease = None \/ lease.age > 0
\* Mutant: a lease never expires.
FreeOnce == lease = None
\* claim: nobody has it, or its holder has shown no life for too long.
Free == lease = None \/ lease.age >= LeaseTime

Holder(p, j) == lease # None /\ lease.by = <<p, j>>

Renew(p, j) == lease' = IF Holder(p, j) THEN [lease EXCEPT !.age = 0] ELSE lease

\* release: if it is still ours.
GiveUp(p, j) == lease' = IF Holder(p, j) THEN None ELSE lease

-----------------------------------------------------------------------------
(* A run of a download.                                                    *)

\* The weekly plan goes list by list; the others' work is all in one piece.
Plan(j) ==
    CASE j = "weekly" -> <<"bots", "ranges">>
      [] j = "feeds" -> <<"feeds">>
      [] OTHER -> <<"ranges">>

\* held: how long since it took the lease or renewed it.
NewRun(j) == [left |-> Plan(j), ranges |-> FALSE, stage |-> "fetch", held |-> 0]

Out(p) == {j \in Downloads : run[p][j] # None}

\* The claim, and the run that begins with it.  Without it nothing happens:
\* the job is still due at the next check.
Begin(p, j) ==
    IF Free
      THEN /\ lease' = [age |-> 0, by |-> <<p, j>>]
           /\ run' = [run EXCEPT ![p][j] = NewRun(j)]
      ELSE UNCHANGED <<lease, run>>

\* What a run has come to when its next list has come, or failed to.
After(r, j, good) ==
    LET rest == Tail(r.left)
    IN  [left |-> rest,
         ranges |-> good /\ Head(r.left) = "ranges",
         held |-> IF j = "weekly" THEN 0 ELSE r.held,
         stage |-> IF rest # <<>> THEN "fetch"
                   ELSE IF j \in {"feeds", "one"} THEN "release" ELSE "record"]

\* A list is downloaded (or fails to), and stored.  The weekly run stores and
\* renews after each list; daily and feeds store what all their downloads
\* came to.  "ranges" is every crawler's list: one of them does not make the
\* oldest of them new.
Fetch(p, j) ==
    /\ run[p][j] # None /\ run[p][j].stage = "fetch"
    /\ \E good \in BOOLEAN :
        /\ IF good THEN UNCHANGED events ELSE Happens("net")
        /\ run' = [run EXCEPT ![p][j] = After(@, j, good)]
        /\ Listed(IF good /\ j # "feeds" /\ (j # "one" \/ fetched["ranges"] = Never)
                    THEN [fetched EXCEPT ![Head(run[p][j].left)] = 0] ELSE fetched)
    /\ IF j = "weekly" THEN Renew(p, j) ELSE UNCHANGED lease
    /\ UNCHANGED <<scene, age, checked, todo>>

\* refresh::record and store_ip_ranges.  The weekly run is the daily one too,
\* if all its crawler ranges came.
Record(p, j) ==
    /\ run[p][j] # None /\ run[p][j].stage = "record"
    /\ age' = [k \in Jobs |->
                 IF k = j \/ (j = "weekly" /\ k = "daily" /\ run[p][j].ranges)
                   THEN 0 ELSE age[k]]
    /\ run' = [run EXCEPT ![p][j] =
                 IF j = "feeds" THEN None ELSE [@ EXCEPT !.stage = "release"]]
    /\ UNCHANGED <<scene, fetched, lease, checked, todo, events>>

\* The feeds' job gives the lease back before it is recorded.
Release(p, j) ==
    /\ run[p][j] # None /\ run[p][j].stage = "release"
    /\ GiveUp(p, j)
    /\ run' = [run EXCEPT ![p][j] =
                 IF j = "feeds" THEN [@ EXCEPT !.stage = "record"] ELSE None]
    /\ UNCHANGED <<scene, age, fetched, checked, todo, events>>

Work(p) == \E j \in Downloads : Fetch(p, j) \/ Record(p, j) \/ Release(p, j)

-----------------------------------------------------------------------------
(* The front ends.                                                         *)

\* A check of the schedule, once a minute: the TUI's, or a `tick` that cron
\* starts.  It is read once; in `tick` the log pass comes before the rest,
\* and takes as long as it takes.
Check(p) ==
    /\ p \in scene.procs \ (Batches \union checked) /\ todo[p] = <<>> /\ DueJobs # <<>>
    /\ p = Tick => Out(p) = {}
    /\ checked' = checked \union {p}
    /\ todo' = [todo EXCEPT ![p] = DueJobs]
    /\ UNCHANGED <<scene, age, fetched, lease, run, events>>

\* cron_job_waits: the same job, or any of the two downloads of lists, is out
\* in this process.  `tick` runs one job after the other.
Waits(p, j) ==
    IF p = Tick THEN FALSE
    ELSE \E k \in Out(p) : k = j \/ {k, j} \subseteq {"weekly", "daily"}

\* cron::start of the next due job.
StartDownload(p) ==
    /\ todo[p] # <<>>
    /\ p = Tick => Out(p) = {}
    /\ LET j == Head(todo[p])
       IN  /\ j \in Downloads
           /\ todo' = [todo EXCEPT ![p] = Tail(@)]
           /\ IF Waits(p, j) THEN UNCHANGED <<lease, run>> ELSE Begin(p, j)
    /\ UNCHANGED <<scene, age, fetched, checked, events>>

\* `tick`'s ApplyNginx is done in line (SiteApply), and recorded.
TickApplies ==
    /\ todo[Tick] # <<>> /\ Head(todo[Tick]) = "sites" /\ Out(Tick) = {}
    /\ todo' = [todo EXCEPT ![Tick] = Tail(@)]
    /\ Recorded("sites")
    /\ UNCHANGED <<scene, fetched, lease, checked, run, events>>

\* `u` in the TUI, and `batch`: every list, due or not.
AskAll(p) ==
    /\ p \in scene.procs \ {Tick} /\ "weekly" \notin Out(p)
    /\ Happens("all")
    /\ Begin(p, "weekly")
    /\ UNCHANGED <<scene, age, fetched, checked, todo>>

\* Enter on a row of the Crawler IP ranges panel.
AskOne(p) ==
    /\ p \in scene.procs \cap Tuis /\ "one" \notin Out(p)
    /\ Happens("one")
    /\ Begin(p, "one")
    /\ UNCHANGED <<scene, age, fetched, checked, todo>>

\* A process is killed, or an error of the database ends it.
Stop(p) ==
    /\ todo[p] # <<>> \/ Out(p) # {}
    /\ Happens("crash")
    /\ todo' = [todo EXCEPT ![p] = <<>>]
    /\ run' = [run EXCEPT ![p] = [j \in Downloads |-> None]]
    /\ UNCHANGED <<scene, age, fetched, lease, checked>>

\* Time passes.  A piece of work takes no longer than its downloads may
\* (fetch.rs gives each TIMEOUT); cron starts a `tick` every minute, and its
\* log pass is over within a unit; the TUI starts what is due in one go.
Pass ==
    /\ \A p \in Procs : \A j \in Out(p) : run[p][j].held < Takes[j]
    /\ \/ Tick \in checked \/ Tick \notin scene.procs \/ Out(Tick) # {}
       \/ todo[Tick] = <<>> /\ DueJobs = <<>>
    /\ \A p \in Tuis : todo[p] = <<>>
    /\ age' = [j \in Jobs |-> Older(age[j])]
    /\ Listed([l \in Lists |-> Older(fetched[l])])
    /\ lease' = IF lease = None THEN None ELSE [lease EXCEPT !.age = Older(@)]
    /\ run' = [p \in Procs |-> [j \in Downloads |->
                 IF run[p][j] = None THEN None
                 ELSE [run[p][j] EXCEPT !.held = @ + 1]]]
    /\ checked' = {}
    /\ UNCHANGED <<scene, todo, events>>

\* The clock is set back.
SetBack ==
    /\ Happens("back")
    /\ age' = [j \in Jobs |-> Younger(age[j])]
    /\ Listed([l \in Lists |-> Younger(fetched[l])])
    /\ lease' = IF lease = None THEN None ELSE [lease EXCEPT !.age = Younger(@)]
    /\ UNCHANGED <<scene, checked, todo, run>>

ScheduleInit ==
    /\ scene \in Scenes
    /\ age = scene.age /\ fetched = scene.fetched
    /\ lease = None
    /\ checked = {} /\ todo = [p \in Procs |-> <<>>]
    /\ run = [p \in Procs |-> [j \in Downloads |-> None]]
    /\ events = 0

ScheduleSteps ==
    \/ \E p \in Procs : StartDownload(p) \/ AskAll(p) \/ AskOne(p)
    \/ TickApplies \/ Pass \/ SetBack

ScheduleNext == ScheduleSteps \/ \E p \in Procs : Check(p) \/ Work(p) \/ Stop(p)

ScheduleSpec == ScheduleInit /\ [][ScheduleNext]_schedule

-----------------------------------------------------------------------------
(* Properties.                                                             *)

Fetching == {d \in Procs \X Downloads :
                run[d[1]][d[2]] # None /\ run[d[1]][d[2]].stage = "fetch"}

\* "One download at a time, across every stop-bots" (app.rs 1537, refresh.rs
\* 357): however many front ends, whoever is killed while it holds the lease,
\* and with the clock set back, no two of them download at once.
OneDownloader == \A d, e \in Fetching : d = e

\* A job that is due is run: no lease is left behind for good, and no job is
\* put off every time.
DueIsRun == \A j \in Jobs \ {"sites"} :
    j \in scene.jobs /\ IsDue(j) ~> ~IsDue(j)
=============================================================================
