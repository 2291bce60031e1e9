----------------------------- MODULE MCIncidents -----------------------------
(* The incident's record for TLC; the bounds come with the .cfg. *)
EXTENDS Incidents, TLC
===============================================================================
