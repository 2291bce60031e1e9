------------------------------ MODULE MCDrills ------------------------------
(* Drills of three services, one of them excluded, on two storages.         *)
EXTENDS Drills
===============================================================================
