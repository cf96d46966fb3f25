------------------------------ MODULE MCTaskLogger -----------------------------
(* Instances of TaskLogger for TLC. *)
EXTENDS TaskLogger
================================================================================
