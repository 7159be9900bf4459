------------------------------- MODULE Contain -------------------------------
(***************************************************************************)
(* What happens to the container or user behind a connection to a listed   *)
(* address: the pass that answers what the kernel logged and keeps every   *)
(* containment true to what runs, the operator's `contain` and `release`,  *)
(* the container runtime that moves containers about behind their backs,   *)
(* and the firewall that is rendered, applied and loaded at boot.          *)
(* A hit is who connected (the address a container has, or a user) and     *)
(* where to; a row of `containments` has the addresses it cut off.         *)
(***************************************************************************)
EXTENDS Naturals, Sequences, FiniteSets, SequencesExt, Functions

CONSTANTS
    Containers, Users, Addrs,   \* what can be contained
    Passes,       \* processes that run the Egress job: tick, the TUI
    Hands,        \* operators at a shell
    Dests,        \* listed destinations
    MayContain,   \* those a feed that may contain lists
    Settings,     \* settings the operator may choose
    BreakerMax,   \* automatic containments an hour
    Hour,         \* an hour, in ticks of the clock
    MaxNow,       \* where the clock stops
    Scenes,       \* what the operator and the world do, and how much of it
    NoAddr, NoHost

Targets == Containers \union Users \union Addrs

ActKinds == {"restart", "remove", "hit", "apply", "reboot", "kill", "clock", "set",
             "reset", "mute", "unreadable", "contain", "release"}

ASSUME ContainAssumption ==
    /\ MayContain \subseteq Dests
    /\ {BreakerMax, Hour} \subseteq Nat \ {0}
    /\ MaxNow \in Nat
    /\ \A s \in Scenes : s.most \in Nat /\ s.acts \subseteq ActKinds
    /\ \A s \in Settings :
        /\ s.mode \in {"off", "monitor", "block"}
        /\ {s.auto, s.containers, s.users} \subseteq BOOLEAN
        /\ s.never \subseteq Targets
        /\ s.action \in {"isolate", "pause", "stop"}

VARIABLES
    scene,     \* which of the Scenes this is
    box,       \* box[c]: a container's state and address
    kernel,    \* the loaded firewall: are there containment sets, what is in them
    boot,      \* what the script loaded at boot has of them
    settings,  \* the stored settings
    tripped,   \* keys::EGRESS_BREAKER_TRIPPED is set
    hits,      \* hits[h]: "none", "new" (unanswered) or "answered"
    rows,      \* the table containments, in the order of its ids
    pc, job,   \* where each process is, and what it has in memory
    now, events

vars == <<scene, box, kernel, boot, settings, tripped, hits, rows, pc, job, now, events>>

Procs == Passes \union Hands
Hits == [source : Addrs \union Users, dest : Dests]
Section == [declared : BOOLEAN, cut : SUBSET (Addrs \union Users)]

NoJob == [host |-> NoHost, logged |-> {}, at |-> 0, auto |-> FALSE,
          action |-> "isolate", todo |-> {}, hits |-> {}, row |-> 0,
          drop |-> {}, list |-> <<>>]

Goto(p, step, j) == pc' = [pc EXCEPT ![p] = step] /\ job' = [job EXCEPT ![p] = j]

-----------------------------------------------------------------------------
(* The database.                                                           *)

Open == {i \in DOMAIN rows : rows[i].open}
IsOpen(t) == \E i \in Open : rows[i].target = t

\* What a row cuts off: a user, or the addresses it knows.
Bits(r) == IF r.target \in Users THEN {r.target} ELSE r.addrs

\* What the firewall renders of it: nothing with the mode off and nothing open.
Rendered ==
    [declared |-> settings.mode # "off" \/ Open # {},
     cut      |-> UNION {Bits(rows[i]) : i \in Open}]

\* Another open containment of a container or an address has this address.
Elsewhere(a, i) == \E k \in Open \ {i} : a \in rows[k].addrs

AutomaticSince(t) ==
    Cardinality({i \in DOMAIN rows : rows[i].auto /\ rows[i].at >= t})

-----------------------------------------------------------------------------
(* The container runtime, the kernel's log and the firewall.               *)

AddressesOf(host, c) == {host[c].addr} \ {NoAddr}
Free == Addrs \ {box[c].addr : c \in Containers}

May(kind) == kind \in scene.acts
Act(kind) == May(kind) /\ events < scene.most /\ events' = events + 1

Up(a) == [state |-> "up", addr |-> a]
Gone == [state |-> "gone", addr |-> NoAddr]

\* A restart policy, or somebody, starts a container again, where it was or at
\* another address.
Restart(c) ==
    /\ Act("restart")
    /\ box[c].state # "gone"
    /\ \E a \in Free \union AddressesOf(box, c) :
        box' = [box EXCEPT ![c] = Up(a)]
    /\ UNCHANGED <<kernel, boot, settings, tripped, hits, rows, pc, job, now>>

RemoveBox(c) ==
    /\ Act("remove")
    /\ box' = [box EXCEPT ![c] = Gone]
    /\ UNCHANGED <<kernel, boot, settings, tripped, hits, rows, pc, job, now>>

\* A connection out that the rules logged, once its line is in the database.
Hit(h) ==
    /\ Act("hit")
    /\ settings.mode # "off"
    /\ hits' = [hits EXCEPT ![h] = "new"]
    /\ UNCHANGED <<box, kernel, boot, settings, tripped, rows, pc, job, now>>

\* The firewall is rendered and applied, and its script becomes the boot's.
Apply ==
    /\ Act("apply")
    /\ kernel' = Rendered /\ boot' = Rendered
    /\ UNCHANGED <<box, settings, tripped, hits, rows, pc, job, now>>

\* The boot script is loaded, every process is gone, and the restart policies
\* start the containers again, at whatever addresses they get.
Reboot ==
    /\ Act("reboot")
    /\ kernel' = boot
    /\ \E at \in Injection(Containers, Addrs) :
        box' = [c \in Containers |-> IF box[c] = Gone THEN Gone ELSE Up(at[c])]
    /\ pc' = [p \in Procs |-> "idle"] /\ job' = [p \in Procs |-> NoJob]
    /\ UNCHANGED <<boot, settings, tripped, hits, rows, now>>

\* A process is killed between two of its steps.
Kill(p) ==
    /\ Act("kill") /\ pc[p] # "idle"
    /\ Goto(p, "idle", NoJob)
    /\ UNCHANGED <<box, kernel, boot, settings, tripped, hits, rows, now>>

Tick ==
    /\ May("clock") /\ now < MaxNow /\ now' = now + 1
    /\ UNCHANGED <<box, kernel, boot, settings, tripped, hits, rows, pc, job, events>>

Set(s) ==
    /\ Act("set")
    /\ settings' = s
    /\ UNCHANGED <<box, kernel, boot, tripped, hits, rows, pc, job, now>>

ResetBreaker ==
    /\ Act("reset")
    /\ tripped /\ tripped' = FALSE
    /\ UNCHANGED <<box, kernel, boot, settings, hits, rows, pc, job, now>>

World ==
    \/ \E c \in Containers : Restart(c) \/ RemoveBox(c)
    \/ \E h \in Hits : Hit(h)
    \/ \E s \in Settings : Set(s)
    \/ \E p \in Procs : Kill(p)
    \/ Apply \/ Reboot \/ Tick \/ ResetBreaker

-----------------------------------------------------------------------------
(* Answering the hits (contain::respond).                                  *)

\* The slow half of a pass: what the host looks like, and who is logged in.
Look(p) ==
    /\ p \in Passes /\ pc[p] = "idle"
    /\ \E logged \in SUBSET Users :
        Goto(p, "answer", [NoJob EXCEPT !.host = box, !.logged = logged,
                                        !.at = now, !.auto = TRUE])
    /\ UNCHANGED <<box, kernel, boot, settings, tripped, hits, rows, now, events>>

\* A runtime that does not answer: nothing is known of any container.
LookInVain(p) ==
    /\ p \in Passes /\ pc[p] = "idle" /\ Act("mute")
    /\ Goto(p, "answer", [NoJob EXCEPT !.at = now, !.auto = TRUE])
    /\ UNCHANGED <<box, kernel, boot, settings, tripped, hits, rows, now>>

\* Who a hit came from: the container that has the address, or whoever it is.
Culprit(h, host) ==
    IF host = NoHost THEN h.source
    ELSE LET there == {c \in Containers : host[c].addr = h.source}
         IN  IF there = {} THEN h.source ELSE CHOOSE c \in there : TRUE

MayContainAutomatically(t, j) ==
    /\ t \notin settings.never
    /\ t \in Containers => settings.containers
    /\ t \in Users => settings.users /\ t \notin j.logged

\* Destinations reached from as many sources as the breaker has room for.
Crowded(answered, host) ==
    {d \in Dests : Cardinality({Culprit(h, host) : h \in {g \in answered : g.dest = d}})
                     >= IF BreakerMax < 2 THEN 2 ELSE BreakerMax}

Candidates(answered, j) ==
    {t \in Containers \union Users :
        /\ ~IsOpen(t) /\ MayContainAutomatically(t, j)
        /\ \E h \in answered :
            /\ Culprit(h, j.host) = t
            /\ h.dest \in MayContain \ Crowded(answered, j.host)}

\* Mutant: the containments of the hour are not counted.
TripsUncounted(answered, j) ==
    \/ Crowded(answered, j.host) # {}
    \/ Cardinality(Candidates(answered, j)) > BreakerMax
Trips(answered, j) ==
    \/ Crowded(answered, j.host) # {}
    \/ AutomaticSince(IF j.at > Hour THEN j.at - Hour ELSE 0)
         + Cardinality(Candidates(answered, j)) > BreakerMax

Automatic == settings.auto /\ settings.mode = "block"

\* Mutant: a breaker that tripped in an earlier pass is forgotten.
RespondForgetful(p) ==
    /\ pc[p] = "answer"
    /\ LET answered == {h \in Hits : hits[h] = "new"}
           trips    == Automatic /\ Trips(answered, job[p])
       IN  /\ tripped' = (tripped \/ trips)
           /\ Goto(p, "open",
                   [job[p] EXCEPT !.at = 0, !.logged = {}, !.hits = answered, !.action = settings.action,
                      !.todo = IF Automatic /\ ~trips
                                 THEN Candidates(answered, job[p]) ELSE {}])
    /\ UNCHANGED <<box, kernel, boot, settings, hits, rows, now, events>>
\* Which hits there are, who is behind them and who of those is contained; or
\* nothing, with the mode off and nothing open.
Respond(p) ==
    /\ pc[p] = "answer"
    /\ ~(settings.mode = "off" /\ Open = {})
    /\ LET answered == {h \in Hits : hits[h] = "new"}
           trips    == Automatic /\ Trips(answered, job[p])
       IN  /\ tripped' = (tripped \/ trips)
           /\ Goto(p, "open",
                   [job[p] EXCEPT !.at = 0, !.logged = {}, !.hits = answered, !.action = settings.action,
                      !.todo = IF Automatic /\ ~tripped /\ ~trips
                                 THEN Candidates(answered, job[p]) ELSE {}])
    /\ UNCHANGED <<box, kernel, boot, settings, hits, rows, now, events>>

NothingToDo(p) ==
    /\ pc[p] = "answer"
    /\ settings.mode = "off" /\ Open = {}
    /\ Goto(p, "idle", NoJob)
    /\ UNCHANGED <<box, kernel, boot, settings, tripped, hits, rows, now, events>>

\* A kernel log that cannot be read: nothing to answer, containments to keep.
LogUnreadable(p) ==
    /\ pc[p] = "answer" /\ May("unreadable")
    /\ settings.mode # "off"
    /\ Goto(p, "list", [NoJob EXCEPT !.host = job[p].host])
    /\ UNCHANGED <<box, kernel, boot, settings, tripped, hits, rows, now, events>>

\* Every hit that was read is answered, whatever came of it.
Answer(p) ==
    /\ p \in Passes /\ pc[p] = "open" /\ job[p].todo = {}
    /\ hits' = [h \in Hits |-> IF h \in job[p].hits THEN "answered" ELSE hits[h]]
    /\ Goto(p, "list", [NoJob EXCEPT !.host = job[p].host])
    /\ UNCHANGED <<box, kernel, boot, settings, tripped, rows, now, events>>

-----------------------------------------------------------------------------
(* Containing one target (contain::contain): the row first, then the       *)
(* firewall, then the container.  A step that fails is said and no more.   *)

Done(p, t) == [job[p] EXCEPT !.todo = @ \ {t}, !.row = 0]

\* The addresses a row starts with.
KnownAt(host, t) == IF t \in Containers THEN AddressesOf(host, t) ELSE {t} \ Users

OpenRow(p, t) ==
    /\ pc[p] = "open" /\ t \in job[p].todo
    /\ IF IsOpen(t)
         THEN job' = [job EXCEPT ![p] = Done(p, t)] /\ UNCHANGED <<rows, pc>>
         ELSE /\ rows' = Append(rows,
                    [target |-> t, open |-> TRUE, auto |-> job[p].auto, at |-> now,
                     action |-> IF t \in Containers THEN job[p].action ELSE "isolate",
                     addrs  |-> KnownAt(job[p].host, t)])
              /\ Goto(p, "cut", [job[p] EXCEPT !.row = Len(rows) + 1])
    /\ UNCHANGED <<box, kernel, boot, settings, tripped, hits, now, events>>

\* LiveFirewall: the sets are changed in place, if the loaded firewall has any.
CutOff(bits) ==
    kernel' = IF kernel.declared THEN [kernel EXCEPT !.cut = @ \union bits] ELSE kernel

Cut(p) ==
    /\ pc[p] = "cut"
    /\ CutOff(LET t == rows[job[p].row].target
              IN  IF t \in Containers THEN AddressesOf(job[p].host, t) ELSE {t})
    /\ Goto(p, "act", job[p])
    /\ UNCHANGED <<box, boot, settings, tripped, hits, rows, now, events>>

\* The runtime pauses what runs and stops what is not stopped.
Paused(c) ==
    IF box[c].state = "up" THEN [box EXCEPT ![c].state = "paused"] ELSE box
Stopped(c) ==
    IF box[c].state \in {"up", "paused"}
      THEN [box EXCEPT ![c] = [state |-> "down", addr |-> NoAddr]] ELSE box

ActOn(p) ==
    /\ pc[p] = "act"
    /\ LET r == rows[job[p].row]
           t == r.target
       IN  /\ box' = CASE r.action = "pause" /\ job[p].host[t].state # "paused" -> Paused(t)
                       [] r.action = "stop" /\ job[p].host[t].state # "down" -> Stopped(t)
                       [] OTHER -> box
           /\ Goto(p, IF p \in Hands THEN "idle" ELSE "open",
                   IF p \in Hands THEN NoJob ELSE Done(p, t))
    /\ UNCHANGED <<kernel, boot, settings, tripped, hits, rows, now, events>>

\* `contain`: a target that can be found, by hand.
ContainByHand(p, t, action) ==
    /\ p \in Hands /\ pc[p] = "idle" /\ Act("contain")
    /\ t \in Containers => box[t].state # "gone"
    /\ t \notin Containers => action = "isolate"
    /\ Goto(p, "open", [NoJob EXCEPT !.host = box, !.action = action, !.todo = {t}])
    /\ UNCHANGED <<box, kernel, boot, settings, tripped, hits, rows, now>>

AlreadyContained(p) ==
    /\ p \in Hands /\ pc[p] = "open" /\ job[p].todo = {}
    /\ Goto(p, "idle", NoJob)
    /\ UNCHANGED <<box, kernel, boot, settings, tripped, hits, rows, now, events>>

-----------------------------------------------------------------------------
(* Releasing (contain::release): the firewall first, then the container,   *)
(* and the row last.                                                       *)

Release(p, i) ==
    /\ p \in Hands /\ pc[p] = "idle" /\ Act("release")
    /\ i \in Open
    /\ Goto(p, "drop", [NoJob EXCEPT !.row = i,
            !.drop = {b \in Bits(rows[i]) : b \in Users \/ ~Elsewhere(b, i)}])
    /\ UNCHANGED <<box, kernel, boot, settings, tripped, hits, rows, now>>

\* Letting go of an address or user, which no set may hold any more.
Drop(p) ==
    /\ pc[p] = "drop"
    /\ kernel' = [kernel EXCEPT !.cut = @ \ job[p].drop]
    /\ Goto(p, IF p \in Hands THEN "unpause" ELSE "move", [job[p] EXCEPT !.drop = {}])
    /\ UNCHANGED <<box, boot, settings, tripped, hits, rows, now, events>>

\* A runtime that refuses is said in the summary.
Unpause(p) ==
    /\ pc[p] = "unpause"
    /\ LET r == rows[job[p].row]
       IN  box' = IF r.action = "pause" /\ box[r.target].state = "paused"
                    THEN [box EXCEPT ![r.target].state = "up"] ELSE box
    /\ Goto(p, "close", job[p])
    /\ UNCHANGED <<kernel, boot, settings, tripped, hits, rows, now, events>>

Close(p) ==
    /\ pc[p] = "close"
    /\ rows' = [rows EXCEPT ![job[p].row].open = FALSE]
    /\ Goto(p, "idle", NoJob)
    /\ UNCHANGED <<box, kernel, boot, settings, tripped, hits, now, events>>

-----------------------------------------------------------------------------
(* Keeping the containments (contain::maintain): each one that was open    *)
(* when the pass listed them, with the host as it looked at the start.     *)

List(p) ==
    /\ pc[p] = "list"
    /\ Goto(p, "keep", [job[p] EXCEPT !.list =
            [k \in 1 .. Cardinality(Open) |->
                LET i == SetToSortSeq(Open, <)[k]
                IN  [row |-> i, addrs |-> rows[i].addrs]]])
    /\ UNCHANGED <<box, kernel, boot, settings, tripped, hits, rows, now, events>>

Onward(p) == Goto(p, "keep", [job[p] EXCEPT !.list = Tail(@)])

\* A user, an address, or a container nobody can be asked about is cut off
\* again, where it was known to be.
KeepKnown(p) ==
    /\ pc[p] = "keep" /\ job[p].list # <<>>
    /\ LET e == Head(job[p].list)
           t == rows[e.row].target
       IN  /\ t \in Containers => job[p].host = NoHost
           /\ CutOff(IF t \in Containers THEN e.addrs ELSE {t})
    /\ Onward(p)
    /\ UNCHANGED <<box, boot, settings, tripped, hits, rows, now, events>>

\* A container that is gone is passed over; one that came back elsewhere lets
\* its old addresses go first.
KeepContainer(p) ==
    /\ pc[p] = "keep" /\ job[p].list # <<>> /\ job[p].host # NoHost
    /\ LET e       == Head(job[p].list)
           t       == rows[e.row].target
           current == AddressesOf(job[p].host, t)
       IN  /\ t \in Containers
           /\ IF job[p].host[t] = Gone THEN Onward(p)
              ELSE IF current \in {e.addrs, {}}
                THEN Goto(p, "recut", job[p])
                ELSE Goto(p, "drop", [job[p] EXCEPT !.drop =
                        {a \in e.addrs \ current : ~Elsewhere(a, e.row)}])
    /\ UNCHANGED <<box, kernel, boot, settings, tripped, hits, rows, now, events>>

Move(p) ==
    /\ pc[p] = "move"
    /\ LET i == Head(job[p].list).row
       IN  rows' = [rows EXCEPT ![i].addrs = AddressesOf(job[p].host, rows[i].target)]
    /\ Goto(p, "recut", job[p])
    /\ UNCHANGED <<box, kernel, boot, settings, tripped, hits, now, events>>

Recut(p) ==
    /\ pc[p] = "recut"
    /\ CutOff(AddressesOf(job[p].host, rows[Head(job[p].list).row].target))
    /\ Goto(p, "repause", job[p])
    /\ UNCHANGED <<box, boot, settings, tripped, hits, rows, now, events>>

\* Mutant: only one that came back at another address is paused again.
RepauseMoved(p) ==
    /\ pc[p] = "repause"
    /\ LET e == Head(job[p].list)
           r == rows[e.row]
       IN  box' = IF /\ r.action = "pause" /\ job[p].host[r.target].state = "up"
                     /\ AddressesOf(job[p].host, r.target) # e.addrs
                    THEN Paused(r.target) ELSE box
    /\ Onward(p)
    /\ UNCHANGED <<kernel, boot, settings, tripped, hits, rows, now, events>>
\* What was paused and runs again is paused again.
Repause(p) ==
    /\ pc[p] = "repause"
    /\ LET r == rows[Head(job[p].list).row]
       IN  box' = IF r.action = "pause" /\ job[p].host[r.target].state = "up"
                    THEN Paused(r.target) ELSE box
    /\ Onward(p)
    /\ UNCHANGED <<kernel, boot, settings, tripped, hits, rows, now, events>>

Finished(p) ==
    /\ pc[p] = "keep" /\ job[p].list = <<>>
    /\ Goto(p, "idle", NoJob)
    /\ UNCHANGED <<box, kernel, boot, settings, tripped, hits, rows, now, events>>

-----------------------------------------------------------------------------

Going(p) ==
    \/ Look(p) \/ Respond(p) \/ NothingToDo(p) \/ Answer(p)
    \/ (\E t \in Targets : OpenRow(p, t)) \/ Cut(p) \/ ActOn(p) \/ AlreadyContained(p)
    \/ Drop(p) \/ Unpause(p) \/ Close(p)
    \/ List(p) \/ KeepKnown(p) \/ KeepContainer(p) \/ Move(p) \/ Recut(p) \/ Repause(p)
    \/ Finished(p)

Init ==
    /\ scene \in Scenes
    /\ \E at \in Injection(Containers, Addrs) : box = [c \in Containers |-> Up(at[c])]
    /\ settings \in Settings /\ tripped = FALSE
    /\ rows = <<>> /\ kernel = Rendered /\ boot = Rendered
    /\ hits = [h \in Hits |-> "none"]
    /\ pc = [p \in Procs |-> "idle"] /\ job = [p \in Procs |-> NoJob]
    /\ now = 0 /\ events = 0

Next ==
    /\ UNCHANGED scene
    /\ \/ World
       \/ \E p \in Procs :
            \/ Going(p) \/ LookInVain(p) \/ LogUnreadable(p)
            \/ \E t \in Targets, a \in {"isolate", "pause", "stop"} : ContainByHand(p, t, a)
            \/ \E i \in Open : Release(p, i)

Spec == Init /\ [][Next]_vars

\* tick runs every minute, and what has begun goes on.
FairSpec == Spec /\ \A p \in Procs : WF_vars(Going(p) /\ UNCHANGED scene)

-----------------------------------------------------------------------------
(* Properties.                                                             *)

States == {"up", "paused", "down", "gone"}

TypeOK ==
    /\ box \in [Containers -> [state : States, addr : Addrs \union {NoAddr}]]
    /\ {kernel, boot} \subseteq Section
    /\ settings \in Settings /\ tripped \in BOOLEAN
    /\ hits \in [Hits -> {"none", "new", "answered"}]
    /\ \A i \in DOMAIN rows :
        /\ rows[i].target \in Targets /\ rows[i].addrs \subseteq Addrs
        /\ rows[i].at \in 0 .. now
    /\ \A p \in Procs : job[p].row \in 0 .. Len(rows) /\ job[p].todo \subseteq Targets

\* No hour has more automatic containments than the breaker lets through,
\* whatever passes they were made in and wherever one was cut short.
BreakerHolds ==
    \A t \in 0 .. MaxNow :
        Cardinality({i \in DOMAIN rows : rows[i].auto /\ rows[i].at \in t .. t + Hour})
            <= BreakerMax

\* Nothing is contained automatically while the breaker is tripped.
TrippedMeansNone ==
    [][\A i \in DOMAIN rows' \ DOMAIN rows : rows'[i].auto => ~tripped]_vars

\* A contained container that runs where it is not cut off, or that should be
\* paused.
Loose(c) ==
    /\ kernel.declared /\ box[c].state = "up"
    /\ \E i \in Open : /\ rows[i].target = c
                      /\ \/ box[c].addr \notin kernel.cut
                         \/ rows[i].action = "pause"

\* Once nothing moves any more, no container that is contained is loose,
\* whatever it was restarted as and whatever was applied in the meantime.
StaysContained == <>[](\A c \in Containers : ~Loose(c))

\* An address no open containment has is not cut off for ever.
NoneLeftBehind ==
    \A a \in Addrs :
        <>[](\A i \in Open : a \notin rows[i].addrs) => <>[](a \notin kernel.cut)
=============================================================================
