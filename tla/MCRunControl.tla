---------------------------- MODULE MCRunControl ----------------------------
(* Instances of RunControl for TLC. *)
EXTENDS RunControl

===============================================================================
