---------------------------- MODULE MCMaintenance ----------------------------
(* Two storages, two places, and a collection for each, one elsewhere, one linked. *)
EXTENDS Maintenance, TLC

CONSTANTS here, there, first, second, moved, linked

MCOfName == (first :> 1) @@ (second :> 2) @@ (moved :> 1) @@ (linked :> 1)
MCOfURL == (first :> here) @@ (second :> there) @@ (moved :> there) @@ (linked :> here)
===============================================================================
