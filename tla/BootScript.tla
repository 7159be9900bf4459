----------------------------- MODULE BootScript -----------------------------
(***************************************************************************)
(* What the firewall apply path promises about the rules the kernel runs   *)
(* and the script the boot unit loads: rules are tried in the kernel       *)
(* first, the boot script is only ever replaced by what is running, and    *)
(* what is tried and not kept goes back to the boot script.  Documented at *)
(* firewall.rs 1142-1168 and revert.rs 1-36.                               *)
(***************************************************************************)
CONSTANTS Rules, Absent

VARIABLES kernel, boot

Init == boot \in Rules \union {Absent} /\ kernel = boot

\* A script is loaded and not yet the one that boots.
Try == boot' = boot /\ kernel' \in Rules \union {Absent}

\* What runs becomes what boots.
Commit == kernel' = kernel /\ boot' = kernel

\* What boots is what runs: a revert, or a reboot.
Restore == boot' = boot /\ kernel' = boot

Next == Try \/ Commit \/ Restore

Spec == Init /\ [][Next]_<<kernel, boot>>

\* Unless somebody dies for good, a try ends: kept or put back.
Settles == kernel # boot ~> kernel = boot
=============================================================================
