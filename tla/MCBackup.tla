------------------------------ MODULE MCBackup ------------------------------
(* Instances of Backup for TLC: three services, two of one snapshot ID. *)
EXTENDS Backup

CONSTANTS db, web, alias

MCServices == {db, web, alias}
MCGroups   == {{db, alias}, {web}}

===============================================================================
