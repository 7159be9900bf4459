------------------------------- MODULE AppJobs -------------------------------
(***************************************************************************)
(* The jobs a TUI has in flight beside its downloads: applying the sites,  *)
(* reloading the web server, reading what the sites' tags say, rendering   *)
(* the firewall.  Each is started on the main thread, done on a pool       *)
(* thread, and finished on the main thread by an event.  Settings, files   *)
(* and what the server runs are version numbers.                           *)
(***************************************************************************)
EXTENDS Schedule

CONSTANT Tui    \* the TUI

ASSUME TuiAssumption == Tui \in Tuis

VARIABLES
    settings,   \* the version of the settings in the database
    disk,       \* that of the files the last apply left
    served,     \* that of the files the server loaded
    screen,     \* the screen on display
    stale,      \* the sites screen is to be reloaded when it comes into view
    tags,       \* what the sites' tags were worked out from
    current,    \* the tags are shown: statuses_current
    flight,     \* jobs_in_flight, the ones modelled here
    queue,      \* the events of work that is done
    plan,       \* what the work out was planned with, or came to
    again,      \* jobs asked for while they were out: reload_nginx_pending,
                \* site_statuses_pending
    cronApply,  \* cron_apply_nginx
    everything, \* apply_everything
    unloaded    \* history: the last reload failed or could not start, or
                \* the TUI was killed before it

files == <<settings, disk, served, unloaded>>
shown == <<screen, stale, tags, current>>
app == <<files, shown, flight, queue, plan, again, cronApply, everything>>
vars == <<schedule, app>>

Kinds == {"apply", "reload", "check", "render"}
NoPlan == [settings |-> 0, disk |-> 0, changed |-> FALSE]

Working(k) == k \in flight /\ \A n \in DOMAIN queue : queue[n] # k

\* The server has read the files for the reload that is out.
Loaded == plan["reload"].changed

\* What the main thread does to the jobs in flight is a function of this
\* record, so that one of its functions can call another.
State == [flight |-> flight, plan |-> plan, again |-> again,
          cronApply |-> cronApply, everything |-> everything,
          stale |-> stale, current |-> current, tags |-> tags,
          unloaded |-> unloaded]

Becomes(s) ==
    /\ flight' = s.flight /\ plan' = s.plan /\ again' = s.again
    /\ cronApply' = s.cronApply /\ everything' = s.everything
    /\ stale' = s.stale /\ current' = s.current /\ tags' = s.tags
    /\ unloaded' = s.unloaded

-----------------------------------------------------------------------------
(* The main thread's functions: each start_ says what it leaves.  `fails`  *)
(* says what cannot be read this time: "host" is the host settings, "plan" *)
(* what an apply or a render is planned from.                              *)

Failing == SUBSET ({"host", "plan"} \cap scene.faults)

\* Mutant: a reload asked for while one is out is dropped.
StartReloadOnce(s, fails) ==
    IF "reload" \in s.flight THEN s
    ELSE IF "host" \in fails THEN [s EXCEPT !.unloaded = TRUE]
    ELSE [s EXCEPT !.flight = @ \union {"reload"}]
\* start_nginx_reload: one at a time, and one more if it was asked for
\* meanwhile.
StartReload(s, fails) ==
    IF "reload" \in s.flight THEN [s EXCEPT !.again = @ \union {"reload"}]
    ELSE IF "host" \in fails THEN [s EXCEPT !.unloaded = TRUE]
    ELSE [s EXCEPT !.flight = @ \union {"reload"}]

\* start_site_status_check, with the settings as they are now.
StartCheck(s, now) ==
    IF "check" \in s.flight THEN [s EXCEPT !.again = @ \union {"check"}]
    ELSE [s EXCEPT !.flight = @ \union {"check"}, !.plan["check"].settings = now]

\* Mutant: a screen that is off display is not marked.
RefreshShown(s, now) ==
    IF screen = "sites" THEN StartCheck([s EXCEPT !.current = FALSE], now) ELSE s
\* refresh: the screen on display is reloaded, the others when they next are.
Refresh(s, now) ==
    IF screen = "sites"
      THEN StartCheck([s EXCEPT !.stale = FALSE, !.current = FALSE], now)
      ELSE [s EXCEPT !.stale = TRUE]

\* start_site_action, to apply: refused while one is out.
StartApply(s, fails) ==
    IF "apply" \in s.flight \/ fails # {} THEN s
    ELSE [s EXCEPT !.flight = @ \union {"apply"},
                   !.plan["apply"].settings = settings]

\* start_firewall_render: refused while one is out.
StartRender(s, fails) ==
    IF "render" \in s.flight \/ "plan" \in fails THEN s
    ELSE [s EXCEPT !.flight = @ \union {"render"}]

StartEverythingFirewall(s, fails) ==
    StartRender([s EXCEPT !.everything = FALSE], fails)

\* start_apply_everything: the sites, then (finish_site_apply) the firewall;
\* the firewall at once if the sites cannot be.
StartEverything(s, fails) ==
    IF s.flight \cap {"apply", "render"} # {} THEN s
    ELSE LET t == StartApply([s EXCEPT !.everything = TRUE], fails)
         IN  IF "apply" \in t.flight THEN t ELSE StartEverythingFirewall(t, fails)

-----------------------------------------------------------------------------
(* Keys, and the schedule's check.                                         *)

Asked(what) == Happens(what) /\ UNCHANGED <<scene, age, fetched, lease, checked, todo, run>>

\* A setting is changed, in the database and on the screen.
Edit ==
    /\ Asked("edit")
    /\ settings' = settings + 1
    /\ Becomes(Refresh(State, settings + 1))
    /\ UNCHANGED <<disk, served, screen, queue>>

\* Another screen is shown; the draw loop reloads it if it is stale.
Show ==
    /\ Asked("show")
    /\ screen' = IF screen = "sites" THEN "other" ELSE "sites"
    /\ Becomes(IF screen' = "sites" /\ stale
                 THEN StartCheck([State EXCEPT !.stale = FALSE, !.current = FALSE], settings)
                 ELSE State)
    /\ UNCHANGED <<settings, disk, served, queue>>

Key(what, s) ==
    /\ Asked(what)
    /\ Becomes(s)
    /\ UNCHANGED <<settings, disk, served, screen, queue>>

Press ==
    \E fails \in Failing :
        \/ Key("apply", StartApply(State, fails))
        \/ Key("everything", StartEverything(State, fails))
        \/ Key("render", StartRender(State, fails))
        \/ Key("reload", StartReload(Refresh(State, settings), fails))

\* check_cron and finish_cron_job reload the screen, whatever they did.
CronStep(p) ==
    /\ Check(p) \/ Work(p)
    /\ Becomes(IF p = Tui THEN Refresh(State, settings) ELSE State)
    /\ UNCHANGED <<settings, disk, served, screen, queue>>

\* Mutant: the flag of an apply that was not started is left up.
CronApplyFlagged ==
    /\ todo[Tui] # <<>> /\ Head(todo[Tui]) = "sites"
    /\ todo' = [todo EXCEPT ![Tui] = Tail(@)]
    /\ \E fails \in Failing :
        Becomes(StartApply([State EXCEPT !.cronApply = TRUE], fails)) /\ UNCHANGED age
    /\ UNCHANGED <<scene, fetched, lease, checked, run, events,
                   settings, disk, served, screen, queue>>
\* start_cron_apply_nginx.  An apply that is out already is taken for the one
\* it started.
CronApply ==
    /\ todo[Tui] # <<>> /\ Head(todo[Tui]) = "sites"
    /\ todo' = [todo EXCEPT ![Tui] = Tail(@)]
    /\ \E fails \in Failing :
        LET s == StartApply([State EXCEPT !.cronApply = TRUE], fails)
        IN  IF "apply" \in s.flight
              THEN Becomes(s) /\ UNCHANGED age
              ELSE Becomes([s EXCEPT !.cronApply = FALSE]) /\ Recorded("sites")
    /\ UNCHANGED <<scene, fetched, lease, checked, run, events,
                   settings, disk, served, screen, queue>>

-----------------------------------------------------------------------------
(* The pool's threads, and what the main thread does with their events.    *)

Done(k) == queue' = Append(queue, k)

\* run_apply: the files become what was planned, or the server's test refuses
\* them and they are put back.
RunApply ==
    /\ Working("apply") /\ Done("apply")
    /\ LET new == plan["apply"].settings # disk
       IN  \E kept \in {TRUE} \union (IF new /\ "refused" \in scene.faults
                                        THEN {FALSE} ELSE {}) :
            /\ disk' = IF kept THEN plan["apply"].settings ELSE disk
            /\ plan' = [plan EXCEPT !["apply"].changed = new /\ kept]
    /\ UNCHANGED <<schedule, settings, served, unloaded, shown, flight, again,
                   cronApply, everything>>

\* reload_with: the server reads the files, and then answers.
RunReload ==
    /\ Working("reload")
    /\ \/ /\ ~Loaded
          /\ plan' = [plan EXCEPT !["reload"].changed = TRUE]
          /\ \E good \in {TRUE} \union (IF "refused" \in scene.faults THEN {FALSE} ELSE {}) :
                served' = (IF good THEN disk ELSE served) /\ unloaded' = ~good
          /\ UNCHANGED queue
       \/ Loaded /\ Done("reload") /\ UNCHANGED <<plan, served, unloaded>>
    /\ UNCHANGED <<schedule, settings, disk, shown, flight, again, cronApply, everything>>

RunCheck ==
    /\ Working("check") /\ Done("check")
    /\ plan' = [plan EXCEPT !["check"].disk = disk]
    /\ UNCHANGED <<schedule, files, shown, flight, again, cronApply, everything>>

\* firewall::execute: FirewallApply.
RunRender ==
    /\ Working("render") /\ Done("render")
    /\ UNCHANGED <<schedule, files, shown, flight, plan, again, cronApply, everything>>

Finished(k) ==
    /\ queue # <<>> /\ Head(queue) = k
    /\ queue' = Tail(queue)
    /\ UNCHANGED <<settings, disk, served, screen>>

Over(k) == [State EXCEPT !.flight = @ \ {k}, !.plan[k] = NoPlan]

\* finish_site_apply.
FinishApply ==
    /\ Finished("apply")
    /\ IF cronApply THEN Recorded("sites") ELSE UNCHANGED age
    /\ \E fails \in Failing :
        LET s == Refresh([Over("apply") EXCEPT !.cronApply = FALSE], settings)
            t == IF plan["apply"].changed THEN StartReload(s, fails) ELSE s
        IN  Becomes(IF everything THEN StartEverythingFirewall(t, fails) ELSE t)
    /\ UNCHANGED <<scene, fetched, lease, checked, todo, run, events>>

\* finish_nginx_reload.
FinishReload ==
    /\ Finished("reload")
    /\ \E fails \in Failing :
        Becomes(IF "reload" \in again
                  THEN StartReload([Over("reload") EXCEPT !.again = @ \ {"reload"}], fails)
                  ELSE Over("reload"))
    /\ UNCHANGED schedule

\* finish_site_status_check.
FinishCheck ==
    /\ Finished("check")
    /\ LET s == [Over("check") EXCEPT !.current = TRUE, !.tags = plan["check"],
                                      !.again = @ \ {"check"}]
       IN  Becomes(IF "check" \in again THEN StartCheck(s, settings) ELSE s)
    /\ UNCHANGED schedule

\* finish_firewall_render.
FinishRender ==
    /\ Finished("render")
    /\ Becomes(Refresh(Over("render"), settings))
    /\ UNCHANGED schedule

\* What is in flight in a TUI that is killed is lost, its pool's threads too;
\* the next one begins anew.  (Stopped within an apply: SiteApply.)
Killed(p) ==
    /\ Stop(p)
    /\ IF p # Tui THEN UNCHANGED app
       ELSE /\ Becomes([State EXCEPT !.flight = {}, !.plan = [k \in Kinds |-> NoPlan],
                        !.again = {}, !.cronApply = FALSE, !.everything = FALSE,
                        !.stale = TRUE, !.current = FALSE,
                        !.unloaded = @ \/ served # disk])
            /\ queue' = <<>> /\ screen' = "other"
            /\ UNCHANGED <<settings, disk, served>>

Run == RunApply \/ RunReload \/ RunCheck \/ RunRender
Finish == FinishApply \/ FinishReload \/ FinishCheck \/ FinishRender

-----------------------------------------------------------------------------

AppInit ==
    /\ settings = 0 /\ disk = 0 /\ served = 0 /\ unloaded = FALSE
    /\ screen = "other" /\ stale = TRUE /\ tags = NoPlan /\ current = FALSE
    /\ flight = {} /\ queue = <<>> /\ plan = [k \in Kinds |-> NoPlan]
    /\ again = {} /\ cronApply = FALSE /\ everything = FALSE

Init == ScheduleInit /\ AppInit

Next ==
    \/ ScheduleSteps /\ UNCHANGED app
    \/ \E p \in Procs : CronStep(p) \/ Killed(p)
    \/ Edit \/ Show \/ Press \/ CronApply \/ Run \/ Finish

Spec == Init /\ [][Next]_vars

\* Cron starts a `tick` every minute and what is begun goes on: a download
\* has a timeout, and the TUI's thread comes back for what is done.
Steps(p) ==
    \/ StartDownload(p) /\ UNCHANGED app
    \/ CronStep(p)
    \/ p = Tick /\ TickApplies /\ UNCHANGED app
    \/ p = Tui /\ (CronApply \/ Run \/ Finish)

FairSpec ==
    /\ Spec
    /\ WF_vars(Pass /\ UNCHANGED app)
    /\ \A p \in Procs : WF_vars(Steps(p))

-----------------------------------------------------------------------------
(* Properties.                                                             *)

\* "The act has to happen at least once after the last write" (app.rs 1267):
\* files the server has not loaded are in the hands of an apply or a reload
\* that is still to load them, however applies and reloads overlap; or the
\* last reload failed, and said so.
LastWriteReloaded ==
    served # disk =>
        \/ "apply" \in flight
        \/ Working("reload") /\ ~Loaded
        \/ "reload" \in flight /\ "reload" \in again
        \/ unloaded

\* A tag that is shown with no check out was worked out from the settings and
\* files as they are (app.rs 1150: "starts another if something changed while
\* it was out"), through screens shown and left, edits and applies.
TagsSettle ==
    screen = "sites" /\ {"check", "apply"} \cap flight = {} =>
        current /\ tags.settings = settings /\ tags.disk = disk

\* A flag that outlived its apply would have the operator's next one recorded
\* as the schedule's, or followed by a firewall apply nobody asked for
\* (app.rs 1105: "the flag has to come back down here").
FlagsHaveAnApply == cronApply \/ everything => "apply" \in flight
=============================================================================
