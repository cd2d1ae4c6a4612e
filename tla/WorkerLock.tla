----------------------------- MODULE WorkerLock -----------------------------
(***************************************************************************)
(* The single-flight lock of the worker host: WorkerLock and main, the     *)
(* systemd unit that starts the worker again whenever it ends, and workers *)
(* somebody starts by hand.  A flock belongs to a file, not to a path:     *)
(* opening the path and locking what was opened are two steps, and the     *)
(* unit's RuntimeDirectory, where the lock file is, goes when its process  *)
(* has ended.                                                              *)
(***************************************************************************)
EXTENDS Naturals, FiniteSets

CONSTANTS
    Unit,    \* the unit's process
    Manual,  \* processes started by hand
    Files,   \* inodes of the lock file
    NoFile   \* none of them

Procs == {Unit} \cup Manual

\* There is always an inode to spare.
ASSUME LockAssumption ==
    /\ IsFiniteSet(Files) /\ IsFiniteSet(Manual) /\ Unit \notin Manual
    /\ Cardinality(Files) > Cardinality(Procs) /\ NoFile \notin Files

VARIABLES
    proc,     \* [Procs -> what the process does]
    fd,       \* [Procs -> the inode it has open]
    held,     \* the processes whose descriptor is locked
    dir,      \* /run/lerobot-worker exists
    path,     \* the inode at lock_file_path
    orphaned  \* the directory was removed while a process had the file open

vars == <<proc, fd, held, dir, path, orphaned>>

\* "ending": past release.  "dead": ended, and systemd has yet to clean up.
States == {"off", "starting", "opened", "loop", "ending", "dead"}

\* The values each variable takes; only what is locked runs the loop, and the
\* lock file is in its directory.
TypeOK ==
    /\ proc \in [Procs -> States]
    /\ fd \in [Procs -> Files \cup {NoFile}]
    /\ held = {p \in Procs : proc[p] = "loop"}
    /\ dir \in BOOLEAN /\ orphaned \in BOOLEAN
    /\ path \in Files \cup {NoFile} /\ (path # NoFile => dir)
    /\ proc[Unit] # "off" => dir

Init ==
    /\ proc = [p \in Procs |-> "off"] /\ fd = [p \in Procs |-> NoFile]
    /\ held = {} /\ dir = FALSE /\ path = NoFile /\ orphaned = FALSE

-----------------------------------------------------------------------------
(* systemd and the operator.                                               *)

\* Mutant: a unit without RuntimeDirectory.
UnitStarts_NoDirectory ==
    /\ proc[Unit] = "off"
    /\ proc' = [proc EXCEPT ![Unit] = "starting"]
    /\ UNCHANGED <<fd, held, dir, path, orphaned>>

\* RuntimeDirectory is made before ExecStart.
UnitStarts ==
    /\ proc[Unit] = "off"
    /\ proc' = [proc EXCEPT ![Unit] = "starting"]
    /\ dir' = TRUE
    /\ UNCHANGED <<fd, held, path, orphaned>>

StartedByHand(p) ==
    /\ p \in Manual /\ proc[p] = "off"
    /\ proc' = [proc EXCEPT ![p] = "starting"]
    /\ UNCHANGED <<fd, held, dir, path, orphaned>>

\* What the end of a process leaves for systemd to do.
Ended(p) == IF p = Unit THEN "dead" ELSE "off"

\* Killed, an exception, or main's end: the kernel closes what it had open.
Die(p) ==
    /\ proc[p] \notin {"off", "dead"}
    /\ proc' = [proc EXCEPT ![p] = Ended(p)]
    /\ fd' = [fd EXCEPT ![p] = NoFile]
    /\ held' = held \ {p}
    /\ UNCHANGED <<dir, path, orphaned>>

\* RuntimeDirectory is removed on stop, before Restart=always starts the next.
RemoveDirectory ==
    /\ proc[Unit] = "dead"
    /\ proc' = [proc EXCEPT ![Unit] = "off"]
    /\ dir' = FALSE /\ path' = NoFile
    /\ orphaned' = (orphaned \/ \E p \in Procs : fd[p] # NoFile)
    /\ UNCHANGED <<fd, held>>

-----------------------------------------------------------------------------
(* WorkerLock.                                                             *)

\* os.open with O_CREAT; without the directory it raises.
Open(p) ==
    /\ proc[p] = "starting"
    /\ \/ /\ ~dir
          /\ proc' = [proc EXCEPT ![p] = Ended(p)]
          /\ UNCHANGED <<fd, path>>
       \/ /\ dir /\ path # NoFile
          /\ proc' = [proc EXCEPT ![p] = "opened"]
          /\ fd' = [fd EXCEPT ![p] = path]
          /\ UNCHANGED path
       \/ /\ dir /\ path = NoFile
          /\ proc' = [proc EXCEPT ![p] = "opened"]
          /\ \E f \in Files : /\ \A q \in Procs : fd[q] # f
                              /\ fd' = [fd EXCEPT ![p] = f]
                              /\ path' = f
    /\ UNCHANGED <<held, dir, orphaned>>

LockedByOther(p) == \E q \in held : fd[q] = fd[p]

\* LOCK_NB: who does not get it closes the file and exits with code 1.
Flock(p) ==
    /\ proc[p] = "opened"
    /\ IF LockedByOther(p)
       THEN /\ proc' = [proc EXCEPT ![p] = Ended(p)]
            /\ fd' = [fd EXCEPT ![p] = NoFile]
            /\ UNCHANGED held
       ELSE /\ proc' = [proc EXCEPT ![p] = "loop"]
            /\ held' = held \cup {p}
            /\ UNCHANGED fd
    /\ UNCHANGED <<dir, path, orphaned>>

\* Mutant: the lock file is removed with the lock.
Release_Unlinks(p) ==
    /\ proc[p] = "loop"
    /\ proc' = [proc EXCEPT ![p] = "ending"]
    /\ held' = held \ {p}
    /\ fd' = [fd EXCEPT ![p] = NoFile]
    /\ path' = NoFile
    /\ UNCHANGED <<dir, orphaned>>

\* release, in main's finally; the file stays.
Release(p) ==
    /\ proc[p] = "loop"
    /\ proc' = [proc EXCEPT ![p] = "ending"]
    /\ held' = held \ {p}
    /\ fd' = [fd EXCEPT ![p] = NoFile]
    /\ UNCHANGED <<dir, path, orphaned>>

Next ==
    \/ UnitStarts \/ RemoveDirectory
    \/ \E p \in Procs : StartedByHand(p) \/ Open(p) \/ Flock(p) \/ Release(p) \/ Die(p)

Spec == Init /\ [][Next]_vars

-----------------------------------------------------------------------------
(* Properties.                                                             *)

Loops == {p \in Procs : proc[p] = "loop"}

\* At most one process runs the worker loop, whoever opens the file before
\* whoever locks or releases it, as long as the file was never removed under a
\* process that had it open: what TrainingService and WorkerHost take for
\* granted.
OneLoop == ~orphaned => Cardinality(Loops) <= 1

-----------------------------------------------------------------------------
(* What the comments say and the code does not do.                         *)

\* lock.py: the lock file keeps a second worker out, even across restarts.
OnlyOneWorker == Cardinality(Loops) <= 1

-----------------------------------------------------------------------------
(* The inductive invariant behind OneLoop.                                 *)

\* What is open is the file at the path, until it is removed under a process.
OpenInv ==
    /\ \A p \in Procs : fd[p] # NoFile <=> proc[p] \in {"opened", "loop"}
    /\ ~orphaned => \A p \in Procs : fd[p] \in {path, NoFile}

\* A file is locked by one process, also when it was removed.
FileInv == \A p, q \in held : fd[p] = fd[q] => p = q

LockInv == TypeOK /\ OpenInv /\ FileInv

=============================================================================
