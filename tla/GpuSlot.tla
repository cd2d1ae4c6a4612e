------------------------------ MODULE GpuSlot ------------------------------
(***************************************************************************)
(* What the worker promises about the GPU host: it is a slot that one job  *)
(* holds at a time and that is always given up before the next job takes   *)
(* it, so it never passes from one job straight to another.                *)
(***************************************************************************)
EXTENDS Integers

CONSTANT Jobs

VARIABLE holder   \* the job holding the slot, 0: none

Init == holder = 0

Acquire(j) == holder = 0 /\ holder' = j

Release == holder # 0 /\ holder' = 0

Next == Release \/ \E j \in Jobs : Acquire(j)

Spec == Init /\ [][Next]_holder

=============================================================================
