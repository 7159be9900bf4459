------------------------------ MODULE MCContain ------------------------------
EXTENDS Contain, TLC

CONSTANTS c1, c2, u1, a1, a2

Block == [mode |-> "block", auto |-> TRUE, containers |-> TRUE, users |-> TRUE,
          never |-> {}, action |-> "pause"]

AnySettings == {Block, [Block EXCEPT !.mode = "monitor", !.action = "stop"]}

\* What a pass decides, over time; and what it and an operator do to each other.
Deciding == [most |-> 4, acts |-> {"hit", "kill", "clock", "reset", "set", "reboot"}]
ByHand == [most |-> 3, acts |-> {"contain", "release", "restart", "remove", "apply",
                                 "reboot", "mute", "unreadable"}]
Released == [most |-> 2, acts |-> {"contain", "release"}]

AnyScene == {Deciding, ByHand}
JustDeciding == {Deciding}
JustReleased == {Released}
=============================================================================
