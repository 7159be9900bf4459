------------------------------- MODULE MCSite -------------------------------
(* The constants of SiteApply that TLC needs by name, and its scenes.      *)
EXTENDS SiteApply, TLC

CONSTANTS p1, p2, f1, f2

\* One process applies two sites, one or all, cleans up, and is refused or
\* killed anywhere.
Killed ==
    [procs |-> {p1}, files |-> {f1, f2}, requests |-> {"all", "one", "strip", "tuiAll"},
     trusts |-> {"none", "t1", "bad"},
     failAt |-> {"generate", "sites", "remove", "test", "reload"},
     crashAt |-> Labels \ {"idle", "restore"}, faults |-> {}, most |-> 3]

\* Two processes that take the lock, and put-backs that fail too.
Refusing ==
    [procs |-> {p1, p2}, files |-> {f1}, requests |-> {"all", "one"},
     trusts |-> TrustLists,
     failAt |-> {"lock", "generate", "sites", "remove", "test", "restore"},
     crashAt |-> {}, faults |-> {"edit"}, most |-> 2]

PassingScenes == {Killed, Refusing}
=============================================================================
