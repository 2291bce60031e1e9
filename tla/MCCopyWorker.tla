---------------------------- MODULE MCCopyWorker ----------------------------
(* Instances of CopyWorker for TLC. *)
EXTENDS CopyWorker

===============================================================================
