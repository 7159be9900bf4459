------------------------------- MODULE MCJobs --------------------------------
(* The constants of AppJobs that TLC needs by name, and its scenes.        *)
EXTENDS AppJobs, TLC

CONSTANTS tick, tui, batch

JobInterval == [j \in Jobs |-> IF j = "weekly" THEN 5 ELSE IF j = "sites" THEN 2 ELSE 4]
JobTakes == [j \in Downloads |-> IF j \in {"weekly", "one"} THEN 1 ELSE 2]

AllOld == [j \in Jobs |-> 4]
Unrun == [j \in Jobs |-> Never]
Fresh == [l \in Lists |-> Never]
Recent == [l \in Lists |-> 0]

All == {tick, tui, batch}

\* The downloads of a host that has run for long: a process is killed, or the
\* clock is set back, and somebody asks by hand: all of them for one job,
\* two of them for two.
Killing ==
    [jobs |-> {"weekly"}, procs |-> All, asks |-> {"all"},
     faults |-> {"crash"}, most |-> 3, age |-> AllOld, fetched |-> Recent]
Feeding ==
    [Killing EXCEPT !.jobs = {"weekly", "feeds"}, !.procs = {tick, batch}]
Together ==
    [Killing EXCEPT !.jobs = {"weekly", "feeds"}, !.procs = {tick, tui}, !.most = 1]
ClockBack ==
    [Killing EXCEPT !.jobs = {"weekly", "daily"}, !.procs = {tick, tui},
                   !.faults = {"back", "net"}, !.most = 2]

\* Those of a new host, and its sites' applies.
New ==
    [jobs |-> {"weekly", "daily", "sites"}, procs |-> {tick, tui}, asks |-> {"one"},
     faults |-> {"net"}, most |-> 1, age |-> Unrun, fetched |-> Fresh]

\* The TUI's site applies, its own and the schedule's: what the server runs,
\* what the tags say, and what the flags are left at.
Reloading ==
    [jobs |-> {}, procs |-> {tui}, asks |-> {"edit", "apply", "reload"},
     faults |-> {"host", "refused"}, most |-> 6, age |-> AllOld, fetched |-> Recent]
Tagging ==
    [Reloading EXCEPT !.asks = {"edit", "apply", "show"}, !.faults = {"refused"}, !.most = 5]
Scheduling ==
    [Tagging EXCEPT !.jobs = {"sites"}, !.most = 2]
Flagging ==
    [Reloading EXCEPT !.jobs = {"sites"}, !.asks = {"edit", "apply", "everything", "render"},
                      !.faults = {"host", "plan", "crash"}, !.most = 3]

JobScenes == {Killing, Feeding, Together, ClockBack, New, Reloading, Tagging, Scheduling, Flagging}
=============================================================================
