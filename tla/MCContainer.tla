---------------------------- MODULE MCContainer ----------------------------
(* Instances of Container for TLC. *)
EXTENDS Container

===============================================================================
