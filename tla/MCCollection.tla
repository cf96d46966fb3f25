------------------------------ MODULE MCCollection -----------------------------
(* Instances of Collection for TLC. *)
EXTENDS Collection, TLC

\* The workers are interchangeable; main is not, it is thread 0.
WorkerSymmetry == Permutations(Workers)

================================================================================
