---------------------------- MODULE ServiceGate ----------------------------
(* What a backup and a restore promise each other about the service          *)
(* directories: at most one command at a time works on them, and it starts    *)
(* only when nothing does.  The abstract specification that Restore           *)
(* implements: how a command learns of the others is not its business.        *)
CONSTANT Actors \* the commands that may work on the service directories

VARIABLE working \* those at work

Init == working = {}

Enter(a) == working = {} /\ working' = {a}

Leave(a) == working = {a} /\ working' = {}

Next == \E a \in Actors : Enter(a) \/ Leave(a)

Spec == Init /\ [][Next]_working
=============================================================================
