------------------------- MODULE MCTrainingService -------------------------
(***************************************************************************)
(* Values for the constants of TrainingService.                            *)
(***************************************************************************)
EXTENDS TrainingService

CONSTANTS u1, u2, r1, r2

\* Every job has an owner of its own, or all have the same one.
OwnersDiffer == [j \in Jobs |-> IF j = 1 THEN u1 ELSE u2]
OwnersSame == [j \in Jobs |-> u1]

=============================================================================
