------------------------------- MODULE MCInUse -------------------------------
(* Instances of InUse for TLC. *)
EXTENDS InUse

===============================================================================
