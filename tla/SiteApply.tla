------------------------------ MODULE SiteApply ------------------------------
(***************************************************************************)
(* One web server apply after another, as src/src/webserver.rs             *)
(* (apply_all_sites_and_reload, apply_site_and_reload, remove_everything,  *)
(* Snapshot) and the TUI's run_apply (src/src/tui/nginx.rs) run them on an *)
(* NGINX tree.                                                             *)
(*                                                                         *)
(* An apply writes the generated files (the trust file and the rate-limit  *)
(* zones), then a block into every site file that refers to them, then     *)
(* removes the generated files the settings no longer call for.  It tests  *)
(* the result, puts every file back if the test fails, and reloads.        *)
(***************************************************************************)
EXTENDS Naturals, Sequences, FiniteSets

CONSTANTS
    Procs,     \* processes that apply
    Sites,     \* site files, each with one server block
    Scenes,    \* what is asked for and what can go wrong
    Free,      \* nobody has the apply lock
    Absent,    \* no such generated file
    NoBlock    \* a site file without a stop-bots block

\* Every site; one site; taking stop-bots out.  The TUI's thread does the
\* first two its own way.
Kinds == {"all", "one", "strip", "tuiAll", "tuiOne"}
TuiKinds == {"tuiAll", "tuiOne"}
TrustLists == {"none", "t1", "t2", "bad"}
\* A setting is changed during an apply; a site file is edited between
\* applies, or during one; the host reloads its web server during one.
FaultKinds == {"midway", "edit", "hand", "certbot"}
Labels == {"idle", "lock", "plan", "unused", "snapshot", "record", "generate",
           "sites", "remove", "forget", "test", "reload", "restore"}

\* The generated files, in the order they are written and removed in.
WriteOrder == <<"trusted", "limits", "untrusted">>
RemoveOrder == <<"untrusted", "limits", "trusted">>
Gens == {"trusted", "limits", "untrusted"}

ASSUME SiteConstants ==
    /\ Free \notin Procs
    /\ Sites \intersect Gens = {}
    /\ Absent \notin TrustLists \union {"zone"}
    /\ \A s \in Scenes :
        /\ s.procs \subseteq Procs /\ s.files \subseteq Sites
        /\ s.requests \subseteq Kinds
        /\ s.trusts \subseteq TrustLists /\ "none" \in s.trusts
        /\ s.failAt \subseteq Labels /\ s.crashAt \subseteq Labels
        /\ s.faults \subseteq FaultKinds
        /\ s.most \in Nat

VARIABLES
    scene,   \* which of the Scenes this is
    rate,    \* database: whether rate limiting is on
    trust,   \* database: the trust list; "bad" is one NGINX rejects
    rows,    \* database: the generated files on record
    disk,    \* what each file holds
    served,  \* what the web server has loaded
    lock,    \* who holds the apply lock
    pc, job, \* where each process is and what it has in memory; found is
             \* history, the disk when it took its snapshot
    torn,    \* history: a put-back has failed, "fix these by hand"
    events   \* how much has changed or gone wrong so far

settings == <<rate, trust>>
vars == <<scene, settings, rows, disk, served, lock, pc, job, torn, events>>

Files == scene.files         \* the site files there are
Requests == scene.requests   \* the applies asked for
Trusts == scene.trusts       \* the trust lists the database may hold
FailAt == scene.failAt       \* the labels a step can fail at
CrashAt == scene.crashAt     \* the labels a process can be killed at
Faults == scene.faults
Places == Gens \union Files

\* What the settings call for: the body of each generated file ...
Planned ==
    [g \in Gens |->
        CASE g = "trusted"   -> IF trust = "none" THEN Absent ELSE trust
          [] g = "limits"    -> IF rate THEN "zone" ELSE Absent
          [] g = "untrusted" -> IF rate /\ trust # "none" THEN "zone" ELSE Absent]

\* ... and the generated files a site's block refers to.
Block ==
    (IF trust = "none" THEN {} ELSE {"trusted"})
    \union (CASE ~rate -> {}
              [] rate /\ trust = "none" -> {"limits"}
              [] rate /\ trust # "none" -> {"untrusted"})

\* The web server refuses a reference to a zone or a variable that no file
\* defines, a trust list it cannot parse and a site file broken by hand.
Needs(d, x) ==
    IF x \in Gens THEN IF x = "untrusted" /\ d[x] # Absent THEN {"trusted"} ELSE {}
    ELSE IF d[x].block = NoBlock THEN {} ELSE d[x].block
Resolves(d) == \A x \in Places : \A g \in Needs(d, x) : d[g] # Absent
Loads(d) ==
    /\ Resolves(d)
    /\ d["trusted"] # "bad"
    /\ \A f \in Files : d[f].own = "ok"

\* The part of a tree that stop-bots writes.
Ours(d) == [x \in Places |-> IF x \in Gens THEN d[x] ELSE d[x].block]
Wanted == [x \in Places |-> IF x \in Gens THEN Planned[x] ELSE Block]

Nothing == [x \in Gens |-> Absent]
NoSnap == [x \in {} |-> Absent]
NoJob == [kind |-> "all", scope |-> {}, writes |-> Nothing, block |-> NoBlock,
          drop |-> {}, snap |-> NoSnap, found |-> NoSnap, left |-> {},
          changed |-> FALSE, gone |-> FALSE, failed |-> FALSE]

Init ==
    /\ scene \in Scenes
    /\ rate \in BOOLEAN /\ trust \in Trusts \ {"bad"}
    /\ \E bare \in BOOLEAN :
        disk = [x \in Places |->
                  IF x \in Gens THEN IF bare THEN Absent ELSE Planned[x]
                  ELSE [own |-> "ok", block |-> IF bare THEN NoBlock ELSE Block]]
    /\ rows = {g \in Gens : disk[g] # Absent}
    /\ served = disk
    /\ lock = Free
    /\ pc = [p \in Procs |-> "idle"]
    /\ job = [p \in Procs |-> NoJob]
    /\ torn = FALSE
    /\ events = 0

-----------------------------------------------------------------------------
\* Mutant: what is unused is removed before the sites are written.
FlowRemoveFirst ==
    [all    |-> <<"lock", "plan", "unused", "snapshot", "record", "generate",
                  "remove", "sites", "forget", "test", "reload">>,
     one    |-> <<"lock", "plan", "record", "snapshot", "generate", "sites",
                  "test", "reload">>,
     strip  |-> <<"lock", "snapshot", "sites", "remove", "test", "reload">>,
     tuiAll |-> <<"plan", "record", "unused", "snapshot", "generate", "sites",
                  "remove", "test", "reload">>,
     tuiOne |-> <<"plan", "record", "snapshot", "generate", "sites", "test",
                  "reload">>]
\* The order of each apply.  The TUI reads the database on its main thread
\* and does the rest on a background one, without the lock.
Flow ==
    [all    |-> <<"lock", "plan", "unused", "snapshot", "record", "generate",
                  "sites", "remove", "forget", "test", "reload">>,
     one    |-> <<"lock", "plan", "record", "snapshot", "generate", "sites",
                  "test", "reload">>,
     strip  |-> <<"lock", "snapshot", "sites", "remove", "test", "reload">>,
     tuiAll |-> <<"plan", "record", "unused", "snapshot", "generate", "sites",
                  "remove", "test", "reload">>,
     tuiOne |-> <<"plan", "record", "snapshot", "generate", "sites", "test",
                  "reload">>]

After(p) == LET s == Flow[job[p].kind]
                i == CHOOSE k \in DOMAIN s : s[k] = pc[p]
            IN  s[i + 1]
GoOn(p) == pc' = [pc EXCEPT ![p] = After(p)]
Goto(p, l) == pc' = [pc EXCEPT ![p] = l]
InTui(p) == job[p].kind \in TuiKinds

\* An apply returns, and with it the guard that held the lock.
End(p) ==
    /\ Goto(p, "idle")
    /\ job' = [job EXCEPT ![p] = NoJob]
    /\ lock' = IF lock = p THEN Free ELSE lock

\* Changes, edits, failures and crashes together are bounded.
Happens == events < scene.most /\ events' = events + 1
Fails(p) == pc[p] \in FailAt /\ Happens
\* The web server refuses the disk, or its command fails for no such reason.
Refused(p) == IF Loads(disk) THEN Fails(p) ELSE UNCHANGED events

\* What the present step of an apply goes through, one file at a time.
Written(j) == {g \in Gens : j.writes[g] # Absent}
Items(j, l) ==
    CASE l = "generate" -> Written(j)
      [] l = "sites"    -> j.scope
      [] l = "remove"   -> j.drop
      [] OTHER          -> {}
\* The TUI removes nothing if a site could not be written.
Left(p) == IF pc[p] = "remove" /\ job[p].failed THEN {} ELSE job[p].left
FirstOf(order, S) ==
    order[CHOOSE i \in DOMAIN order :
            order[i] \in S /\ \A k \in 1 .. i - 1 : order[k] \notin S]

\* Asked for by an operator, by cron or by `uninstall web-server`.
Request(p, kind) ==
    /\ pc[p] = "idle"
    /\ p \in scene.procs
    /\ kind \in Requests
    /\ \E scope \in (IF kind \in {"one", "tuiOne"} THEN {{f} : f \in Files} ELSE {Files}) :
        job' = [job EXCEPT ![p] = [NoJob EXCEPT !.kind = kind, !.scope = scope]]
    /\ Goto(p, Flow[kind][1])
    /\ UNCHANGED <<settings, rows, disk, served, lock, events, torn>>

Lock(p) ==
    /\ pc[p] = "lock"
    /\ lock = Free
    /\ lock' = p
    /\ GoOn(p)
    /\ UNCHANGED <<settings, rows, disk, served, job, events, torn>>

Busy(p) ==
    /\ pc[p] = "lock"
    /\ lock # Free
    /\ Fails(p)
    /\ End(p)
    /\ UNCHANGED <<settings, rows, disk, served, torn>>

\* planned_managed_files; the TUI resolves its sites' blocks here too.
Plan(p) ==
    /\ pc[p] = "plan"
    /\ job' = [job EXCEPT ![p].writes = Planned,
                          ![p].block = IF InTui(p) THEN Block ELSE NoBlock]
    /\ GoOn(p)
    /\ UNCHANGED <<settings, rows, disk, served, lock, events, torn>>

\* Mutant: only what has a row is removed.
UnusedRows(p) ==
    /\ pc[p] = "unused"
    /\ job' = [job EXCEPT ![p].drop = {g \in rows : Planned[g] = Absent}]
    /\ GoOn(p)
    /\ UNCHANGED <<settings, rows, disk, served, lock, events, torn>>
\* unused_managed_files: the fixed list, and the rows that are not planned.
Unused(p) ==
    /\ pc[p] = "unused"
    /\ job' = [job EXCEPT ![p].drop = {g \in Gens : Planned[g] = Absent}]
    /\ GoOn(p)
    /\ UNCHANGED <<settings, rows, disk, served, lock, events, torn>>

\* Mutant: only the files that are there are recorded.
RecordThere(p) ==
    /\ pc[p] = "record"
    /\ rows' = {g \in rows \union Written(job[p]) : disk[g] # Absent}
    /\ job' = [job EXCEPT ![p].left = Items(job[p], After(p))]
    /\ GoOn(p)
    /\ UNCHANGED <<settings, disk, served, lock, events, torn>>
\* record_managed_files, before any of them is written.
Record(p) ==
    LET planned == Written(job[p])
    IN  /\ pc[p] = "record"
        /\ rows' = {g \in rows \union planned : g \in planned \/ disk[g] # Absent}
        /\ job' = [job EXCEPT ![p].left = Items(job[p], After(p))]
        /\ GoOn(p)
        /\ UNCHANGED <<settings, disk, served, lock, events, torn>>

\* What the apply may touch; remove_everything has just read the site files
\* with a block in them and the generated files that are there.
Blocked == {f \in Files : disk[f].block # NoBlock}
There == {g \in Gens : disk[g] # Absent}
Scoped(p) ==
    IF job[p].kind = "strip"
    THEN [job[p] EXCEPT !.scope = Blocked, !.drop = There, !.changed = TRUE]
    ELSE job[p]
\* Mutant: the files to remove are not in the snapshot.
HeldWritten(j) == Written(j) \union j.scope
Held(j) == Written(j) \union j.drop \union j.scope

\* Snapshot::of_apply.
Snapshot(p) ==
    LET j == Scoped(p)
    IN  /\ pc[p] = "snapshot"
        /\ job[p].kind = "strip" => Blocked \union There # {}
        /\ job' = [job EXCEPT ![p] = [j EXCEPT !.snap = [x \in Held(j) |-> disk[x]],
                                              !.found = disk,
                                              !.left = Items(j, After(p))]]
        /\ GoOn(p)
        /\ UNCHANGED <<settings, rows, disk, served, lock, events, torn>>

NothingToStrip(p) ==
    /\ pc[p] = "snapshot" /\ job[p].kind = "strip"
    /\ Blocked \union There = {}
    /\ End(p)
    /\ UNCHANGED <<settings, rows, disk, served, events, torn>>

\* Mutant: a generated file does not count as a change.
GenerateUnnoticed(p) ==
    /\ pc[p] = "generate" /\ Left(p) # {}
    /\ LET g == FirstOf(WriteOrder, job[p].left)
       IN  /\ disk' = [disk EXCEPT ![g] = job[p].writes[g]]
           /\ job' = [job EXCEPT ![p].left = @ \ {g}]
    /\ UNCHANGED <<settings, rows, served, lock, pc, events, torn>>
\* write_planned_managed_files, one file.
Generate(p) ==
    /\ pc[p] = "generate" /\ Left(p) # {}
    /\ LET g == FirstOf(WriteOrder, job[p].left)
       IN  /\ disk' = [disk EXCEPT ![g] = job[p].writes[g]]
           /\ job' = [job EXCEPT ![p].left = @ \ {g},
                                 ![p].changed = @ \/ disk[g] # job[p].writes[g]]
    /\ UNCHANGED <<settings, rows, served, lock, pc, events, torn>>

\* The text a site file gets.  The block of a locked apply is read from the
\* database now; remove_everything writes the text it read before, without
\* its block.
Rewritten(p, f) ==
    CASE job[p].kind = "strip" -> [own |-> job[p].snap[f].own, block |-> NoBlock]
      [] job[p].kind # "strip" ->
            [disk[f] EXCEPT !.block = IF InTui(p) THEN job[p].block ELSE Block]

\* apply_blocks_to_file or apply_block_for_site, one file.
Site(p) ==
    /\ pc[p] = "sites"
    /\ \E f \in Left(p) :
        LET text == Rewritten(p, f)
        IN  /\ disk' = [disk EXCEPT ![f] = text]
            /\ job' = [job EXCEPT ![p].left = @ \ {f},
                                  ![p].changed = @ \/ disk[f] # text]
    /\ UNCHANGED <<settings, rows, served, lock, pc, events, torn>>

\* remove_planned_managed_files, one file.
Remove(p) ==
    /\ pc[p] = "remove" /\ Left(p) # {}
    /\ LET g == FirstOf(RemoveOrder, job[p].left)
       IN  /\ disk' = [disk EXCEPT ![g] = Absent]
           /\ job' = [job EXCEPT ![p].left = @ \ {g},
                                 ![p].gone = @ \/ disk[g] # Absent]
    /\ UNCHANGED <<settings, rows, served, lock, pc, events, torn>>

\* The loop over the files is done.
NextPhase(p) ==
    /\ pc[p] \in {"generate", "sites", "remove"} /\ Left(p) = {}
    /\ job' = [job EXCEPT ![p].left = Items(job[p], After(p)),
                          ![p].changed = @ \/ job[p].gone]
    /\ GoOn(p)
    /\ UNCHANGED <<settings, rows, disk, served, lock, events, torn>>

\* A write or a removal is refused.  A locked apply puts everything back.
\* The TUI reports a site and goes on with the next; with a generated file
\* that could not be written it does nothing more, and after a removal that
\* failed it still tests.
WriteFails(p) ==
    /\ pc[p] \in {"generate", "sites", "remove"} /\ Left(p) # {}
    /\ Fails(p)
    /\ \/ /\ ~InTui(p)
          /\ Goto(p, "restore")
          /\ job' = [job EXCEPT ![p].left = DOMAIN job[p].snap]
          /\ UNCHANGED lock
       \/ /\ InTui(p) /\ pc[p] = "generate"
          /\ End(p)
       \/ /\ InTui(p) /\ pc[p] = "sites"
          /\ \E f \in job[p].left :
               job' = [job EXCEPT ![p].left = @ \ {f}, ![p].failed = TRUE]
          /\ UNCHANGED <<pc, lock>>
       \/ /\ InTui(p) /\ pc[p] = "remove"
          /\ job' = [job EXCEPT ![p].left = {}]
          /\ GoOn(p)
          /\ UNCHANGED lock
    /\ UNCHANGED <<settings, rows, disk, served, torn>>

\* remove_and_forget drops the rows of what it removed.
Forget(p) ==
    /\ pc[p] = "forget"
    /\ rows' = rows \ job[p].drop
    /\ GoOn(p)
    /\ UNCHANGED <<settings, disk, served, lock, job, events, torn>>

\* Nothing to test: no file changed, so there is nothing to reload either.
UpToDate(p) ==
    /\ pc[p] = "test"
    /\ ~job[p].changed
    /\ End(p)
    /\ UNCHANGED <<settings, rows, disk, served, events, torn>>

TestPasses(p) ==
    /\ pc[p] = "test"
    /\ job[p].changed
    /\ Loads(disk)
    /\ GoOn(p)
    /\ UNCHANGED <<settings, rows, disk, served, lock, job, events, torn>>

\* Mutant: nothing is put back.
TestFailsOnly(p) ==
    /\ pc[p] = "test"
    /\ job[p].changed
    /\ Refused(p)
    /\ End(p)
    /\ UNCHANGED <<settings, rows, disk, served, torn>>
\* The test command fails, or cannot be run.
TestFails(p) ==
    /\ pc[p] = "test"
    /\ job[p].changed
    /\ Refused(p)
    /\ Goto(p, "restore")
    /\ job' = [job EXCEPT ![p].left = DOMAIN job[p].snap]
    /\ UNCHANGED <<settings, rows, disk, served, lock, torn>>

\* Snapshot::restore goes through the generated files it holds, in the order
\* they are written, before the site files.
NextBack(p) ==
    LET left == job[p].left
        new  == left \intersect Written(job[p])
        old  == (left \intersect Gens) \ new
    IN  IF new # {} THEN {FirstOf(WriteOrder, new)}
        ELSE IF old # {} THEN {FirstOf(RemoveOrder, old)}
        ELSE left

Restore(p) ==
    /\ pc[p] = "restore"
    /\ \E x \in NextBack(p) :
        /\ disk' = [disk EXCEPT ![x] = job[p].snap[x]]
        /\ job' = [job EXCEPT ![p].left = @ \ {x}]
    /\ UNCHANGED <<settings, rows, served, lock, pc, events, torn>>

\* restore carries on past a file it cannot put back.
RestoreFails(p) ==
    /\ pc[p] = "restore" /\ Fails(p)
    /\ \E x \in NextBack(p) : job' = [job EXCEPT ![p].left = @ \ {x}]
    /\ torn' = TRUE
    /\ UNCHANGED <<settings, rows, disk, served, lock, pc>>

Restored(p) ==
    /\ pc[p] = "restore" /\ job[p].left = {}
    /\ End(p)
    /\ UNCHANGED <<settings, rows, disk, served, events, torn>>

\* The reload command; the TUI tests again first.
Reload(p) ==
    /\ pc[p] = "reload"
    /\ Loads(disk)
    /\ served' = disk
    /\ End(p)
    /\ UNCHANGED <<settings, rows, disk, events, torn>>

ReloadFails(p) ==
    /\ pc[p] = "reload"
    /\ Refused(p)
    /\ End(p)
    /\ UNCHANGED <<settings, rows, disk, served, torn>>

-----------------------------------------------------------------------------
Quiet == \A p \in Procs : pc[p] = "idle"

\* The operator, or a front end, changes a setting.
ChangeSettings ==
    /\ Quiet \/ "midway" \in Faults
    /\ Happens
    /\ rate' \in BOOLEAN /\ trust' \in Trusts
    /\ settings' # settings
    /\ UNCHANGED <<rows, disk, served, lock, pc, job, torn>>

\* The operator edits a site file, outside its block.
HandEdit(f) ==
    /\ "hand" \in Faults \/ (Quiet /\ "edit" \in Faults)
    /\ Happens
    /\ disk' = [disk EXCEPT ![f].own = IF @ = "ok" THEN "bad" ELSE "ok"]
    /\ UNCHANGED <<settings, rows, served, lock, pc, job, torn>>

\* certbot's renewal hook, or the operator, reloads the web server; a tree
\* it refuses leaves it with what it has.
HostReload ==
    /\ Quiet \/ "certbot" \in Faults
    /\ Loads(disk)
    /\ served' = disk
    /\ UNCHANGED <<settings, rows, disk, lock, pc, job, events, torn>>

\* The process is killed; the kernel drops its lock.
Crash(p) ==
    /\ pc[p] \in CrashAt
    /\ Happens
    /\ End(p)
    /\ UNCHANGED <<settings, rows, disk, served, torn>>

Step(p) ==
    \/ Plan(p) \/ Unused(p) \/ Record(p) \/ Snapshot(p) \/ NothingToStrip(p)
    \/ Generate(p) \/ Site(p) \/ Remove(p) \/ NextPhase(p) \/ Forget(p)
    \/ UpToDate(p) \/ TestPasses(p) \/ TestFails(p)
    \/ Restore(p) \/ Restored(p) \/ Reload(p) \/ ReloadFails(p)

Next ==
    /\ UNCHANGED scene
    /\ \/ \E p \in Procs :
           \/ \E kind \in Kinds : Request(p, kind)
           \/ Lock(p) \/ Busy(p) \/ Step(p)
           \/ WriteFails(p) \/ RestoreFails(p) \/ Crash(p)
       \/ ChangeSettings
       \/ \E f \in Files : HandEdit(f)
       \/ HostReload

Spec == Init /\ [][Next]_vars

\* An apply goes on by itself, the lock is polled until it is free, and cron
\* asks for an apply of every site each hour.
FairSpec ==
    /\ Spec
    /\ \A p \in Procs :
        /\ WF_vars(Step(p) /\ UNCHANGED scene)
        /\ SF_vars(Lock(p) /\ UNCHANGED scene)
        /\ SF_vars(Request(p, "all") /\ UNCHANGED scene)

-----------------------------------------------------------------------------
\* "The config on disk is valid at every point in between": whatever apply
\* is under way or was killed, no file refers to a zone or a variable that
\* no other file defines, so the next reload or reboot is not refused over
\* one.  Putting files back is excepted, and what it could not put back.
AlwaysResolves ==
    ~torn /\ (\A p \in Procs : pc[p] # "restore") => Resolves(disk)

\* A generated file is on record before it is written, so that a process
\* that dies in between leaves nothing that cleaning up cannot find.
RecordedFirst ==
    [][\A p \in Procs : \A g \in Gens :
         pc[p] = "generate" /\ disk[g] = Absent /\ disk'[g] # Absent
            => g \in rows]_vars

NobodyKilled == CrashAt = {}

\* What the config test refused is not left behind: between applies the
\* next reload finds a config that loads, unless an operator broke it or
\* was told that putting it back failed.  A killed process may leave it.
QuietLoads ==
    NobodyKilled /\ Quiet /\ ~torn /\ (\A f \in Files : disk[f].own = "ok") => Loads(disk)

\* An apply that is put back leaves every file as it found it.
PutBack ==
    [][\A p \in Procs :
         pc[p] = "restore" /\ pc'[p] = "idle" /\ ~torn => disk' = job[p].found]_vars

\* An apply that finds nothing to change is right not to reload: the web
\* server has loaded what is on disk.
UpToDateIsLoaded ==
    [][\A p \in Procs :
         NobodyKilled /\ pc[p] = "test" /\ ~job[p].changed /\ pc'[p] = "idle" /\ ~torn
            => Ours(served) = Ours(disk)]_vars

\* Once the settings stay put and are ones the web server accepts, they are
\* what it serves.
SettingsServed ==
    NobodyKilled /\ <>[](trust # "bad" /\ ~torn /\ \A f \in Files : disk[f].own = "ok")
        => <>[](Ours(served) = Wanted)
=============================================================================
