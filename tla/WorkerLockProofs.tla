-------------------------- MODULE WorkerLockProofs --------------------------
(***************************************************************************)
(* Proofs about WorkerLock, for any number of processes.                   *)
(***************************************************************************)
EXTENDS WorkerLock, FiniteSetTheorems, TLAPS

\* Nothing runs at first.
LEMMA InitLockInv == Init => LockInv
  <1> SUFFICES ASSUME Init PROVE LockInv
    OBVIOUS
  <1>1. TypeOK
    <2>1. dir \in BOOLEAN /\ orphaned \in BOOLEAN
      BY Zenon DEF Init
    <2>2. held = {p \in Procs : proc[p] = "loop"}
      BY DEF Init
    <2>3. proc[Unit] = "off" /\ path = NoFile
      BY DEF Init, Procs
    <2>4. proc \in [Procs -> States] /\ fd \in [Procs -> Files \cup {NoFile}]
      BY DEF Init, States
    <2> QED
      BY <2>1, <2>2, <2>3, <2>4 DEF TypeOK
  <1> QED
    BY <1>1 DEF Init, LockInv, OpenInv, FileInv

\* Every step keeps the types.
LEMMA TypeStep == LockInv /\ [Next]_vars => TypeOK'
  <1> SUFFICES ASSUME LockInv, [Next]_vars PROVE TypeOK'
    OBVIOUS
  <1> USE LockAssumption DEF LockInv, TypeOK, OpenInv, States
  <1>1. CASE UnitStarts
    BY <1>1 DEF UnitStarts, Procs
  <1>2. CASE RemoveDirectory
    BY <1>2 DEF RemoveDirectory, Procs
  <1>3. ASSUME NEW p \in Procs, StartedByHand(p) PROVE TypeOK'
    BY <1>3 DEF StartedByHand
  <1>4. ASSUME NEW p \in Procs, Open(p) PROVE TypeOK'
    <2>1. CASE ~dir
      BY <1>4, <2>1 DEF Open, Ended, Procs
    <2>2. CASE dir
      BY <1>4, <2>2 DEF Open
    <2> QED
      BY <2>1, <2>2
  <1>5. ASSUME NEW p \in Procs, Flock(p) PROVE TypeOK'
    <2>1. CASE LockedByOther(p)
      <3>1. /\ proc[p] = "opened" /\ proc' = [proc EXCEPT ![p] = Ended(p)]
            /\ fd' = [fd EXCEPT ![p] = NoFile]
            /\ UNCHANGED <<held, dir, path, orphaned>>
        BY <1>5, <2>1 DEF Flock
      <3>2. held' = {q \in Procs : proc'[q] = "loop"}
        BY <3>1 DEF Ended
      <3> QED
        BY <3>1, <3>2 DEF Ended
    <2>2. CASE ~LockedByOther(p)
      <3>1. /\ proc[p] = "opened" /\ proc' = [proc EXCEPT ![p] = "loop"]
            /\ held' = held \cup {p}
            /\ UNCHANGED <<fd, dir, path, orphaned>>
        BY <1>5, <2>2 DEF Flock
      <3>2. held' = {q \in Procs : proc'[q] = "loop"}
        BY <3>1
      <3> QED
        BY <3>1, <3>2
    <2> QED
      BY <2>1, <2>2
  <1>6. ASSUME NEW p \in Procs, Release(p) PROVE TypeOK'
    BY <1>6 DEF Release
  <1>7. ASSUME NEW p \in Procs, Die(p) PROVE TypeOK'
    BY <1>7 DEF Die, Ended
  <1>8. CASE UNCHANGED vars
    BY <1>8 DEF vars
  <1> QED
    BY <1>1, <1>2, <1>3, <1>4, <1>5, <1>6, <1>7, <1>8 DEF Next

\* Who opens the path opens what the others have open; only its removal under
\* them changes that.
LEMMA OpenStep == LockInv /\ TypeOK' /\ [Next]_vars => OpenInv'
  <1> SUFFICES ASSUME LockInv, TypeOK', [Next]_vars PROVE OpenInv'
    OBVIOUS
  <1> USE LockAssumption DEF LockInv, TypeOK, OpenInv, States
  <1>1. CASE UnitStarts
    BY <1>1 DEF UnitStarts, Procs
  <1>2. CASE RemoveDirectory
    BY <1>2 DEF RemoveDirectory, Procs
  <1>3. ASSUME NEW p \in Procs, StartedByHand(p) PROVE OpenInv'
    BY <1>3 DEF StartedByHand
  <1>4. ASSUME NEW p \in Procs, Open(p) PROVE OpenInv'
    BY <1>4 DEF Open, Ended
  <1>5. ASSUME NEW p \in Procs, Flock(p) PROVE OpenInv'
    BY <1>5 DEF Flock, Ended
  <1>6. ASSUME NEW p \in Procs, Release(p) PROVE OpenInv'
    BY <1>6 DEF Release
  <1>7. ASSUME NEW p \in Procs, Die(p) PROVE OpenInv'
    BY <1>7 DEF Die, Ended
  <1>8. CASE UNCHANGED vars
    BY <1>8 DEF vars
  <1> QED
    BY <1>1, <1>2, <1>3, <1>4, <1>5, <1>6, <1>7, <1>8 DEF Next

\* A flock is refused while another process holds that file.
LEMMA FileStep == LockInv /\ [Next]_vars => FileInv'
  <1> SUFFICES ASSUME LockInv, [Next]_vars PROVE FileInv'
    OBVIOUS
  <1> USE LockAssumption DEF LockInv, TypeOK, OpenInv, FileInv
  <1>1. CASE UnitStarts
    BY <1>1 DEF UnitStarts
  <1>2. CASE RemoveDirectory
    BY <1>2 DEF RemoveDirectory
  <1>3. ASSUME NEW p \in Procs, StartedByHand(p) PROVE FileInv'
    BY <1>3 DEF StartedByHand
  <1>4. ASSUME NEW p \in Procs, Open(p) PROVE FileInv'
    BY <1>4 DEF Open
  <1>5. ASSUME NEW p \in Procs, Flock(p) PROVE FileInv'
    BY <1>5 DEF Flock, LockedByOther
  <1>6. ASSUME NEW p \in Procs, Release(p) PROVE FileInv'
    BY <1>6 DEF Release
  <1>7. ASSUME NEW p \in Procs, Die(p) PROVE FileInv'
    BY <1>7 DEF Die
  <1>8. CASE UNCHANGED vars
    BY <1>8 DEF vars
  <1> QED
    BY <1>1, <1>2, <1>3, <1>4, <1>5, <1>6, <1>7, <1>8 DEF Next

\* The inductive invariant holds in every behaviour.
THEOREM LockInvHolds == Spec => []LockInv
  <1>1. Init => LockInv
    BY InitLockInv
  <1>2. LockInv /\ [Next]_vars => LockInv'
    BY TypeStep, OpenStep, FileStep DEF LockInv
  <1> QED
    BY <1>1, <1>2, PTL DEF Spec

\* The values each variable takes; only what is locked runs the loop.
THEOREM TypeOKHolds == Spec => []TypeOK
  <1>1. LockInv => TypeOK
    BY DEF LockInv
  <1> QED
    BY <1>1, LockInvHolds, PTL

\* The lock admits one worker loop, of any number of processes, as long as the
\* lock file was never removed under a process that had it open.
THEOREM OneLoopHolds == Spec => []OneLoop
  <1>1. LockInv => OneLoop
    <2> SUFFICES ASSUME LockInv, ~orphaned PROVE Cardinality(Loops) <= 1
      BY DEF OneLoop
    <2>1. \A p, q \in Loops : p = q
      BY DEF LockInv, TypeOK, OpenInv, FileInv, Loops
    <2>2. CASE Loops = {}
      BY <2>2, FS_EmptySet
    <2>3. CASE Loops # {}
      <3>1. PICK p : Loops = {p}
        BY <2>1, <2>3
      <3>2. Cardinality({p}) = 1
        BY FS_Singleton, Zenon
      <3> QED
        BY <3>1, <3>2
    <2> QED
      BY <2>2, <2>3
  <1> QED
    BY <1>1, LockInvHolds, PTL

=============================================================================
