---------------------------- MODULE MCWorkerLock ----------------------------
(***************************************************************************)
(* WorkerLock for the model checker: the unit and two workers by hand.     *)
(***************************************************************************)
EXTENDS WorkerLock, TLC

CONSTANTS u, m1, m2, f1, f2, f3, f4

Interchangeable == Permutations({m1, m2}) \cup Permutations({f1, f2, f3, f4})

=============================================================================
