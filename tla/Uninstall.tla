------------------------------- MODULE Uninstall -------------------------------
(***************************************************************************)
(* Taking stop-bots out of a host that runs it: src/src/uninstall.rs finds *)
(* out where the web server's configuration is, and removes, in an order   *)
(* that nothing puts back what is gone, the schedule, the boot unit, the   *)
(* rules in the kernel, the blocks in the sites and the scripts.  Every    *)
(* minute cron's `tick` applies the firewall (FirewallApply) and the sites *)
(* and, like every command, opens the database (Upgrade) meanwhile.        *)
(***************************************************************************)
EXTENDS FirewallApply, Upgrade

CONSTANTS
    RootKey,       \* the setting that says where the configuration is
    Uninstalled,   \* the hosts that are uninstalled
    MaxTries       \* how often it is run (bound); one step of each run fails

ASSUME UninstallAssumption ==
    /\ RootKey \in Keys
    /\ Uninstalled \subseteq Hosts /\ \A h \in Uninstalled : h.root # {}
    /\ MaxTries \in Nat

VARIABLES
    cron,     \* /etc/cron.d/stop-bots is there
    unit,     \* the boot unit: its file is there, and it is enabled
    web,      \* the configurations with stop-bots' blocks in their sites
    tick,     \* the configuration a tick is about to apply to, if any
    step,     \* where the uninstall is
    tries,    \* how often it was run
    found,    \* what it took the configuration to be
    listed,   \* the scripts it found and has not tried to remove
    failed,   \* one of its steps failed
    flight,   \* history: something was on its way when the schedule went
    missed    \* history: the live rules were taken for gone

here == <<vars, upVars, tick>>
installed == <<cron, unit, web>>
sofar == <<tries, found, listed, failed, flight, missed>>
unVars == <<here, installed, step, sofar>>

Scripts == <<"applied", "next", "pending", "prev">>   \* as they are sorted

\* Mutant: the live rules are removed before what loads them again.
OrderTableFirst == <<"rows", "conf", "open", "table", "cron", "disable", "unit",
                     "web", "list", "scripts", "done">>

\* uninstall::run, after Plan::resolve and release_for_uninstall.
Order == <<"rows", "conf", "open", "cron", "disable", "unit", "table", "web",
           "list", "scripts", "done">>

\* The steps that change the host.
Changing == {"cron", "disable", "unit", "table", "web", "scripts"}

After(s) == Order[1 + CHOOSE i \in DOMAIN Order : Order[i] = s]

\* The uninstall ends, and what it had in memory is gone.
Stops(where) == step' = where /\ found' = Unset /\ listed' = {}

UnInit ==
    /\ Init /\ UpInit
    /\ cron = (host \in Uninstalled)
    /\ unit = [file |-> cron, enabled |-> cron]
    /\ web = IF cron THEN {Effective(RootKey)} ELSE {}
    /\ tick = Missing
    /\ step = "idle" /\ tries = 0 /\ found = Unset /\ listed = {}
    /\ failed = FALSE /\ flight = FALSE /\ missed = FALSE

-----------------------------------------------------------------------------
(* What runs on the host.                                                  *)

\* A run of the firewall begins as long as cron starts a tick: nobody who
\* uninstalls applies by hand meanwhile.
FirewallRuns ==
    /\ Next
    /\ \A p \in Procs : pc[p] = "idle" /\ pc'[p] # "idle" => cron
    /\ UNCHANGED <<upVars, tick, installed, step, sofar>>

Opens ==
    /\ UpNext
    /\ UNCHANGED <<vars, tick, installed, step, sofar>>

\* A tick has opened the database, and so moved the settings, before it plans
\* what the sites should hold.
TickSites ==
    /\ cron /\ tick = Missing /\ conf # Missing
    /\ tick' = conf[RootKey]
    /\ UNCHANGED <<vars, upVars, installed, step, sofar>>

\* The apply is under the lock from its first read of a site.
TickWrites ==
    /\ tick # Missing /\ lock = Free
    /\ web' = web \union {tick} /\ tick' = Missing
    /\ UNCHANGED <<vars, upVars, cron, unit, step, sofar>>

-----------------------------------------------------------------------------
(* Finding out what there is to remove.                                    *)

\* It is root's to do.
Uninstall ==
    /\ host \in Uninstalled
    /\ step \in {"idle", "done"}
    /\ tries < MaxTries /\ tries' = tries + 1
    /\ step' = "rows" /\ failed' = FALSE
    /\ UNCHANGED <<here, installed, found, listed, flight, missed>>

\* Stored::read: the rows first, without migrating the database...
ReadRows ==
    /\ step = "rows"
    /\ found' = rows[RootKey]
    /\ step' = After("rows")
    /\ UNCHANGED <<here, installed, tries, listed, failed, flight, missed>>

\* ... then the file, which has the last word.  A row that nothing can use
\* ends the uninstall here.
ReadConf ==
    /\ step = "conf"
    /\ LET root == IF conf # Missing THEN conf[RootKey]
                   ELSE IF host.trusted THEN found ELSE Unset
       IN  IF root = Invalid THEN Stops("idle")
           ELSE found' = root /\ step' = After("conf") /\ UNCHANGED listed
    /\ UNCHANGED <<here, installed, tries, failed, flight, missed>>

\* release_for_uninstall opens the database, in vain or not.
Opened ==
    /\ step = "open"
    /\ \E p \in host.root : at[p] \in {"off", "ready"}
    /\ step' = After("open")
    /\ UNCHANGED <<here, installed, sofar>>

-----------------------------------------------------------------------------
(* Removing it.                                                            *)

InFlight ==
    \/ \E a \in Actors : pc[a] \notin {"idle", "off", "done"}
    \/ tick # Missing

RemoveCron ==
    /\ step = "cron"
    /\ cron' = FALSE /\ flight' = InFlight
    /\ step' = After("cron")
    /\ UNCHANGED <<here, unit, web, tries, found, listed, failed, missed>>

\* remove_unit: without its file there is nothing to disable.
Disable ==
    /\ step = "disable"
    /\ unit' = IF unit.file THEN [unit EXCEPT !.enabled = FALSE] ELSE unit
    /\ step' = After("disable")
    /\ UNCHANGED <<here, cron, web, sofar>>

RemoveUnit ==
    /\ step = "unit"
    /\ unit' = [unit EXCEPT !.file = FALSE]
    /\ step' = After("unit")
    /\ UNCHANGED <<here, cron, web, sofar>>

\* remove_nft_table, remove_iptables_chain: nobody is asked for the lock.  A
\* listing that fails, for whatever reason, is taken for "no such table".
RemoveTable ==
    /\ step = "table"
    /\ \/ kernel' = Absent
       \/ "unlisted" \in host.faults /\ kernel' = kernel
    /\ missed' = (kernel' # Absent)
    /\ step' = After("table")
    /\ UNCHANGED <<scene, db, files, pending, timing, lock, pc, job, history,
                   upVars, tick, installed, tries, found, listed, failed, flight>>

\* remove_everything, under the lock of every apply.
RemoveBlocks ==
    /\ step = "web" /\ lock = Free
    /\ web' = web \ {found}
    /\ step' = After("web")
    /\ UNCHANGED <<here, cron, unit, sofar>>

\* firewall_scripts: what is there now is what will be removed.
ListScripts ==
    /\ step = "list"
    /\ LET there == [applied |-> applied, next |-> next, prev |-> prev]
       IN  listed' = {s \in DOMAIN there : there[s] # Absent}
                     \union IF pending = NoToken THEN {} ELSE {"pending"}
    /\ step' = After("list")
    /\ UNCHANGED <<here, installed, tries, found, failed, flight, missed>>

\* One script after another.
Foremost == Scripts[CHOOSE i \in DOMAIN Scripts :
                      /\ Scripts[i] \in listed
                      /\ \A j \in 1 .. i - 1 : Scripts[j] \notin listed]

RemoveScript ==
    /\ step = "scripts" /\ listed # {}
    /\ applied' = IF Foremost = "applied" THEN Absent ELSE applied
    /\ next' = IF Foremost = "next" THEN Absent ELSE next
    /\ prev' = IF Foremost = "prev" THEN Absent ELSE prev
    /\ pending' = IF Foremost = "pending" THEN NoToken ELSE pending
    /\ listed' = listed \ {Foremost}
    /\ UNCHANGED <<scene, db, timing, kernel, lock, pc, job, history, upVars,
                   tick, installed, step, tries, found, failed, flight, missed>>

Finish ==
    /\ step = "scripts" /\ listed = {}
    /\ Stops(After("scripts"))
    /\ UNCHANGED <<here, installed, tries, failed, flight, missed>>

\* A step fails, and is reported; the ones after it are done all the same.
Refused ==
    /\ "refused" \in host.faults /\ ~failed
    /\ step \in Changing /\ (step = "scripts" => listed # {})
    /\ failed' = TRUE
    /\ flight' = IF step = "cron" THEN InFlight ELSE flight
    /\ IF step = "scripts" THEN listed' = listed \ {Foremost} /\ UNCHANGED step
       ELSE step' = After(step) /\ UNCHANGED listed
    /\ UNCHANGED <<here, installed, tries, found, missed>>

Killed ==
    /\ "killed" \in host.faults
    /\ step \notin {"idle", "done"}
    /\ Stops("idle")
    /\ UNCHANGED <<here, installed, tries, failed, flight, missed>>

\* The host boots: the unit loads the applied script, if it is still to.
Boots ==
    /\ "reboot" \in host.faults
    /\ kernel' = IF unit.file /\ unit.enabled THEN applied ELSE Absent
    /\ lock' = Free /\ writer' = Nobody
    /\ pc' = [a \in Actors |-> IF a \in Procs THEN "idle"
                               ELSE IF pc[a] = "off" THEN "off" ELSE "done"]
    /\ job' = [p \in Procs |-> NoJob]
    /\ at' = [p \in Openers |-> "off"]
    /\ mem' = [p \in Openers |-> NoMem]
    /\ tick' = Missing
    /\ Stops(IF step = "done" THEN "done" ELSE "idle")
    /\ UNCHANGED <<scene, db, files, pending, timing, history, host, base, ran,
                   copies, settings, installed, tries, failed, flight, missed>>

Removing ==
    \/ Uninstall \/ ReadRows \/ ReadConf \/ Opened
    \/ RemoveCron \/ Disable \/ RemoveUnit \/ RemoveTable \/ RemoveBlocks
    \/ ListScripts \/ RemoveScript \/ Finish \/ Refused \/ Killed

UnNext == FirewallRuns \/ Opens \/ TickSites \/ TickWrites \/ Removing \/ Boots

UnSpec == UnInit /\ [][UnNext]_unVars

-----------------------------------------------------------------------------
(* What must hold.                                                         *)

\* Nothing of stop-bots is left that runs, filters or answers for it, but for
\* live rules that could not be listed.
Clean ==
    /\ ~cron /\ ~unit.file /\ web = {}
    /\ kernel = Absent \/ missed
    /\ applied = Absent /\ next = Absent /\ prev = Absent /\ pending = NoToken

\* "So nothing puts back what the steps below remove" (uninstall.rs 427-428):
\* after an uninstall that reported no failure, whatever was killed, refused,
\* migrated or rebooted before or since, the host is clean and stays so; if
\* nothing was on its way when the schedule went, and the settings were not
\* lost (SettingsKept).
CleanStaysClean == step = "done" /\ ~failed /\ ~flight /\ ~unsure => Clean
=============================================================================
