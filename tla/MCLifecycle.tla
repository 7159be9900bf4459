------------------------------ MODULE MCLifecycle ------------------------------
(* The hosts of Upgrade and Uninstall that TLC considers.                  *)
EXTENDS Uninstall

CONSTANTS p1, r1, t1, o1, o2, k1, k2, v1

Moved == <<k1, k2>>

Db(v, t) == [version |-> v, tables |-> t, today |-> FALSE]
Releases(a, b) == [o \in Openers |-> IF o = o1 THEN a ELSE b]
Stored(a, b) == [k \in Keys |-> IF k = k1 THEN a ELSE b]

Host(b, releases, roots, faults) ==
    [base |-> b, knows |-> releases, root |-> roots, trusted |-> TRUE,
     rows |-> Stored(Unset, Unset), edits |-> FALSE, faults |-> faults]

\* A new database, one from before versions and one of version 1, opened by
\* two processes of one release or of two.
UpgradeHosts ==
    {Host(b, r, {}, OpenFaults) :
        b \in {Db(0, FALSE), Db(0, TRUE), Db(1, TRUE)},
        r \in {Releases(2, 2), Releases(1, 2)}}

\* One root process or two, and settings to move that are right, another
\* user's, or of no use; and one that can lose the power.
SettingsHosts ==
    {[Host(Db(1, TRUE), Releases(1, 1), {o1}, {"kill", "power"}) EXCEPT
        !.rows = Stored(v1, v1), !.edits = TRUE]} \union
    {[Host(Db(1, TRUE), Releases(1, 1), r, {"kill", "io", "busy"}) EXCEPT
        !.trusted = t, !.rows = Stored(v1, x), !.edits = TRUE] :
        r \in {{o1}, {o1, o2}}, t \in BOOLEAN, x \in {v1, Invalid}}

Scene(requests) ==
    [alone |-> TRUE, requests |-> requests, verdicts |-> {"ran"},
     byHand |-> FALSE, faults |-> {}, crashAt |-> {}]
Quiet == Scene({})
Applied == Scene({"apply"})
Confirmed == Scene({"confirm"})

\* The process that is not root is of a release the database is too new for.
Leaving(faults, trusted, root) ==
    [Host(Db(1, TRUE), Releases(1, 0), {o1}, faults) EXCEPT
        !.trusted = trusted, !.rows = Stored(root, Unset)]

\* An uninstall that is refused somewhere or cannot list the live rules, one
\* that is killed or ended by a reboot, one whose settings are not root's or of
\* no use, and one where somebody is asked about an apply.
LeavingCases ==
    {<<Leaving({"refused", "unlisted"}, TRUE, v1), Applied>>,
     <<Leaving({"killed", "reboot"}, TRUE, v1), Applied>>,
     <<Leaving({"kill"}, FALSE, v1), Applied>>,
     <<Leaving({"kill"}, TRUE, Invalid), Applied>>,
     <<Leaving({"reboot"}, TRUE, v1), Confirmed>>}

LeavingHosts == {c[1] : c \in LeavingCases}
AllHosts == UpgradeHosts \union SettingsHosts \union LeavingHosts
AllScenes == {Quiet, Applied, Confirmed}

MCInit ==
    /\ UnInit
    /\ \/ <<host, scene>> \in LeavingCases
       \/ host \notin LeavingHosts /\ scene = Quiet

MCSpec == MCInit /\ [][UnNext]_unVars
=============================================================================
