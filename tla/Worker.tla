------------------------------- MODULE Worker -------------------------------
(***************************************************************************)
(* The worker process: one thread that reconciles at startup and then, on  *)
(* every tick, processes cancellations, starts the oldest queued job if no *)
(* job is running, and monitors the running one.  Each access to the store,*)
(* to Docker or to the disk is one step, named by the worker's pc, so the  *)
(* backend, the containers and a crash can come between any two.           *)
(*                                                                         *)
(*   down -> reconcile -> orphans -> cancel -> cancelling .. -> check      *)
(*     check -> queue -> start -> charge -> fetch -> run -> started        *)
(*     check -> monitor -> inspect -> toTraining -> record -> finalize ..  *)
(***************************************************************************)
EXTENDS Store

CONSTANT MaxCrashes   \* bound: how often the worker process dies

VARIABLES
    pc,       \* the access the worker performs next
    orphans,  \* the containers reconcile has yet to kill
    batch,    \* [Jobs -> Job]: the copies the cancel loop has yet to handle
    wjob,     \* the job in hand, 0: none
    wdoc,     \* the worker's copy of that job's document
    wuser,    \* the user document it is about to write
    wprog,    \* the progress it has read
    wexit,    \* the exit code it has read
    crashes

localVars == <<orphans, batch, wjob, wdoc, wuser, wprog, wexit>>
workerVars == <<pc, localVars, crashes>>

ASSUME WorkerAssumption == MaxCrashes \in Nat

ExitCode == {"none", "ok", "err"}

\* The steps between choosing a queued job and the end of its start, and the
\* steps of the completion monitor that hold a job.
StartPCs == {"start", "charge", "fetch", "run", "started", "failStart"}
MonitorPCs == {"inspect", "toTraining", "record", "alive", "finTraining",
               "package", "complete", "failClean", "failKeep"}
PCs == {"down", "reconcile", "orphans", "cancel", "cancelling", "cancelRm",
        "cancelWrite", "check", "queue", "monitor", "cleanup"}
       \cup StartPCs \cup MonitorPCs

WorkerTypeOK ==
    /\ pc \in PCs
    /\ orphans \subseteq Jobs
    /\ batch \in [Jobs -> Job]
    /\ wjob \in Jobs \cup {0}
    /\ pc \in StartPCs \cup MonitorPCs \cup {"cleanup"} => wjob \in Jobs
    /\ wdoc \in Job
    /\ wuser \in User
    /\ wprog \in 0 .. MaxStep
    /\ wexit \in ExitCode
    /\ crashes \in 0 .. MaxCrashes

NoBatch == [j \in Jobs |-> NoJob]

\* Nothing in hand: what the worker's locals are between two jobs.
LocalsAreReset ==
    /\ orphans' = {}
    /\ batch' = NoBatch
    /\ wjob' = 0
    /\ wdoc' = NoJob
    /\ wuser' = NewUser
    /\ wprog' = 0
    /\ wexit' = "none"

WorkerInit ==
    /\ pc = "down"
    /\ orphans = {}
    /\ batch = NoBatch
    /\ wjob = 0
    /\ wdoc = NoJob
    /\ wuser = NewUser
    /\ wprog = 0
    /\ wexit = "none"
    /\ crashes = 0

Goto(from, to) == pc = from /\ pc' = to

\* An exception nothing catches ends the process (systemd restarts it).
Dies == pc' = "down" /\ LocalsAreReset

-----------------------------------------------------------------------------
(* main, run_forever and reconcile.                                        *)

WorkerStart ==
    /\ Goto("down", "reconcile")
    /\ UNCHANGED <<storeVars, localVars, crashes>>

\* The running containers of this service that no running job records.
ReconcileList ==
    LET tracked == {j \in ListByStatuses(RunningStatuses) : HasContainer(jobs[j])}
    IN  /\ Goto("reconcile", "orphans")
        /\ orphans' = ListRunningContainers \ tracked
        /\ UNCHANGED <<storeVars, batch, wjob, wdoc, wuser, wprog, wexit, crashes>>

KillOrphan(j) ==
    /\ pc = "orphans"
    /\ j \in orphans
    /\ \/ /\ ~KillRaises(j)
          /\ DockerKill(j)
          /\ orphans' = orphans \ {j}
          /\ UNCHANGED <<pc, batch, wjob, wdoc, wuser, wprog, wexit>>
       \/ /\ KillRaises(j)
          /\ Dies
          /\ UNCHANGED containers
    /\ UNCHANGED <<jobs, users, checkpoints, workdir, progressFile, today, crashes>>

ReconcileDone ==
    /\ Goto("orphans", "cancel")
    /\ orphans = {}
    /\ UNCHANGED <<storeVars, localVars, crashes>>

-----------------------------------------------------------------------------
(* process_cancellations.                                                  *)

\* Copies of the jobs to cancel (their heartbeats will not be used again).
CancelList ==
    /\ Goto("cancel", "cancelling")
    /\ batch' = [j \in Jobs |-> IF jobs[j].status \in ActiveStatuses /\ CancelRequested(jobs[j])
                                THEN [jobs[j] EXCEPT !.hb = NoHeartbeat] ELSE NoJob]
    /\ UNCHANGED <<storeVars, orphans, wjob, wdoc, wuser, wprog, wexit, crashes>>

\* The next listed job; its container is killed only if the listed copy is
\* of a running job and records one.
MustKill(job) == job.status \in RunningStatuses /\ HasContainer(job)

CancelNext(j) ==
    /\ pc = "cancelling"
    /\ IsFirst(j, {i \in Jobs : batch[i] # NoJob})
    /\ \/ /\ ~MustKill(batch[j])
          /\ pc' = "cancelWrite"
          /\ wjob' = j /\ wdoc' = batch[j]
          /\ batch' = [batch EXCEPT ![j] = NoJob]
          /\ UNCHANGED <<containers, orphans, wuser, wprog, wexit>>
       \/ /\ MustKill(batch[j])
          /\ ~KillRaises(j)
          /\ DockerKill(j)
          /\ pc' = "cancelRm"
          /\ wjob' = j /\ wdoc' = batch[j]
          /\ batch' = [batch EXCEPT ![j] = NoJob]
          /\ UNCHANGED <<orphans, wuser, wprog, wexit>>
       \/ /\ MustKill(batch[j])
          /\ KillRaises(j)
          /\ Dies
          /\ UNCHANGED containers
    /\ UNCHANGED <<jobs, users, checkpoints, workdir, progressFile, today, crashes>>

CancelRm ==
    /\ Goto("cancelRm", "cancelWrite")
    /\ RemoveJobDir(wjob)
    /\ UNCHANGED <<jobs, users, checkpoints, containers, today, localVars, crashes>>

CancelUpdate ==
    /\ Goto("cancelWrite", "cancelling")
    /\ UpdateJob(wjob, Transition(wdoc, "cancelled"))
    /\ wjob' = 0 /\ wdoc' = NoJob
    /\ UNCHANGED <<users, checkpoints, hostVars, today,
                   orphans, batch, wuser, wprog, wexit, crashes>>

CancelDone ==
    /\ Goto("cancelling", "check")
    /\ batch = NoBatch
    /\ UNCHANGED <<storeVars, localVars, crashes>>

-----------------------------------------------------------------------------
(* JobPoller.tick and _start_next_queued_job.                              *)

\* A heartbeat is recorded now.
MarkAlive(job) == [job EXCEPT !.hb = 0]

\* Mutant: a job that is still initializing does not count as running.
CheckActive_TrainingOnly ==
    /\ pc = "check"
    /\ pc' = IF ListByStatuses({"training"}) = {} THEN "queue" ELSE "monitor"
    /\ UNCHANGED <<storeVars, localVars, crashes>>

CheckActive ==
    /\ pc = "check"
    /\ pc' = IF ListByStatuses(RunningStatuses) = {} THEN "queue" ELSE "monitor"
    /\ UNCHANGED <<storeVars, localVars, crashes>>

\* The queued jobs, the time, the user; what will be written is computed here.
\* The heartbeat is seeded with this time.
ListQueued ==
    LET queued == ListByStatuses({"queued"})
    IN  /\ pc = "queue"
        /\ \/ /\ queued = {}
              /\ pc' = "monitor"
              /\ UNCHANGED localVars
           \/ \E j \in Jobs :
              /\ IsFirst(j, queued)
              /\ pc' = "start"
              /\ wjob' = j
              /\ wdoc' = MarkAlive(Transition(jobs[j], "initializing"))
              /\ wuser' = RecordJobStarted(users[Owner[j]], today)
              /\ UNCHANGED <<orphans, batch, wprog, wexit>>
        /\ UNCHANGED <<storeVars, crashes>>

MarkInitializing ==
    /\ Goto("start", "charge")
    /\ UpdateJob(wjob, wdoc)
    /\ UNCHANGED <<users, checkpoints, hostVars, today, localVars, crashes>>

ChargeQuota ==
    /\ Goto("charge", "fetch")
    /\ UpdateUser(Owner[wjob], wuser)
    /\ wuser' = NewUser
    /\ UNCHANGED <<jobs, checkpoints, hostVars, today,
                   orphans, batch, wjob, wdoc, wprog, wexit, crashes>>

\* DatasetFetcher.fetch_for_job: a zip is extracted into the job's own
\* directory, which is made first.  A DatasetFetchError fails the job; any
\* other exception ends the process, and is counted with the crashes.
FetchDataset ==
    /\ pc = "fetch"
    /\ workdir' = IF wjob \in ZipJobs THEN workdir \cup {wjob} ELSE workdir
    /\ \/ /\ pc' \in {"run", "failStart"}
          /\ UNCHANGED <<localVars, crashes>>
       \/ /\ crashes < MaxCrashes
          /\ crashes' = crashes + 1
          /\ Dies
    /\ UNCHANGED <<jobs, users, checkpoints, containers, progressFile, today>>

\* DockerClient.run makes the mounted directories, then creates and starts
\* the container; it raises if the name is taken or the daemon refuses.
DockerRun ==
    /\ pc = "run"
    /\ workdir' = workdir \cup {wjob}
    /\ \/ /\ containers[wjob] = "absent"
          /\ containers' = [containers EXCEPT ![wjob] = "running"]
          /\ pc' = "started"
          /\ wdoc' = [wdoc EXCEPT !.container = "id"]
       \/ /\ pc' = "failStart"
          /\ UNCHANGED <<containers, wdoc>>
    /\ UNCHANGED <<jobs, users, checkpoints, progressFile, today,
                   orphans, batch, wjob, wuser, wprog, wexit, crashes>>

RecordContainer ==
    /\ Goto("started", "monitor")
    /\ UpdateJob(wjob, wdoc)
    /\ LocalsAreReset
    /\ UNCHANGED <<users, checkpoints, hostVars, today, crashes>>

\* Mutant: a failed start puts the job back in the queue.
FailDuringStart_Requeues ==
    /\ Goto("failStart", "monitor")
    /\ UpdateJob(wjob, [wdoc EXCEPT !.status = "queued"])
    /\ LocalsAreReset
    /\ UNCHANGED <<users, checkpoints, hostVars, today, crashes>>

FailDuringStart ==
    /\ Goto("failStart", "monitor")
    /\ UpdateJob(wjob, Failed(wdoc, "start"))
    /\ LocalsAreReset
    /\ UNCHANGED <<users, checkpoints, hostVars, today, crashes>>

-----------------------------------------------------------------------------
(* JobCompletionMonitor.tick.                                              *)

\* Mutant: _finalize without its hop through TRAINING.
AfterHeartbeat_NoHop(status, exit) ==
    IF exit = "none" THEN "cancel"
    ELSE IF exit = "ok" THEN "package" ELSE "failClean"

\* Where the monitor goes once the heartbeat is dealt with, given the status
\* its copy has by then and the exit code.
AfterHeartbeat(status, exit) ==
    IF exit = "none" THEN "cancel"
    ELSE IF status = "initializing" THEN "finTraining"
    ELSE IF exit = "ok" THEN "package" ELSE "failClean"

\* A step on with the job in hand, or the end of the tick.
Proceed(to, doc, exit) ==
    /\ pc' = to
    /\ IF to = "cancel"
       THEN wjob' = 0 /\ wdoc' = NoJob /\ wprog' = 0 /\ wexit' = "none"
       ELSE wdoc' = doc /\ wexit' = exit /\ UNCHANGED <<wjob, wprog>>
    /\ UNCHANGED <<orphans, batch, wuser>>

\* The first running job and its progress.json.
MonitorList ==
    LET running == ListByStatuses(RunningStatuses)
    IN  /\ pc = "monitor"
        /\ \/ /\ running = {}
              /\ pc' = "cancel"
              /\ UNCHANGED localVars
           \/ \E j \in Jobs :
              /\ IsFirst(j, running)
              /\ pc' = "inspect"
              /\ wjob' = j
              /\ wdoc' = jobs[j]
              /\ wprog' = ReadProgress(j)
              /\ UNCHANGED <<orphans, batch, wuser, wexit>>
        /\ UNCHANGED <<storeVars, crashes>>

\* Mutant: the ExitCode 0 that Docker reports for a running container is taken
\* for a success.
ExitCodeOf_IgnoresRunning(j) ==
    CASE containers[j] \in {"ok", "err"} -> containers[j]
      [] containers[j] = "running" -> "ok"
      [] containers[j] = "absent" -> "none"

\* DockerClient.get_exit_code, asked only if the copy records a container.
ExitCodeOf(j) == IF containers[j] \in {"ok", "err"} THEN containers[j] ELSE "none"

\* Which heartbeat rule applies.
HeartbeatStep(exit) ==
    IF wprog # 0 /\ wdoc.status = "initializing" THEN "toTraining"
    ELSE IF wprog # 0 /\ ProgressChanged(wdoc.progress, wprog) THEN "record"
    ELSE IF wprog = 0 /\ wdoc.status = "initializing" /\ exit = "none" THEN "alive"
    ELSE AfterHeartbeat(wdoc.status, exit)

Inspect ==
    LET exit == IF HasContainer(wdoc) THEN ExitCodeOf(wjob) ELSE "none"
    IN  /\ pc = "inspect"
        /\ Proceed(HeartbeatStep(exit), wdoc, exit)
        /\ UNCHANGED <<storeVars, crashes>>

MarkTraining ==
    LET doc == Transition(wdoc, "training")
    IN  /\ pc = "toTraining"
        /\ UpdateJob(wjob, doc)
        /\ Proceed(IF ProgressChanged(wdoc.progress, wprog) THEN "record"
                   ELSE AfterHeartbeat("training", wexit), doc, wexit)
        /\ UNCHANGED <<users, checkpoints, hostVars, today, crashes>>

RecordProgress ==
    LET doc == MarkAlive([wdoc EXCEPT !.progress = wprog])
    IN  /\ pc = "record"
        /\ UpdateJob(wjob, doc)
        /\ Proceed(AfterHeartbeat(wdoc.status, wexit), doc, wexit)
        /\ UNCHANGED <<users, checkpoints, hostVars, today, crashes>>

MarkContainerAlive ==
    /\ Goto("alive", "cancel")
    /\ UpdateJob(wjob, MarkAlive(wdoc))
    /\ LocalsAreReset
    /\ UNCHANGED <<users, checkpoints, hostVars, today, crashes>>

-----------------------------------------------------------------------------
(* JobCompletionMonitor._finalize.                                         *)

\* The container exited without ever writing progress.json.
FinalizeTraining ==
    LET doc == Transition(wdoc, "training")
    IN  /\ pc = "finTraining"
        /\ UpdateJob(wjob, doc)
        /\ Proceed(AfterHeartbeat("training", wexit), doc, wexit)
        /\ UNCHANGED <<users, checkpoints, hostVars, today, crashes>>

\* package_checkpoint raises CheckpointNotFoundError without the directory the
\* container wrote; it may also fail with it, on a full disk.
CanPackage(j) == j \in workdir

\* Packaging may fail; the upload, retries included, succeeds or not.
PackageAndUpload ==
    /\ pc = "package"
    /\ \/ /\ CanPackage(wjob)
          /\ checkpoints' = checkpoints \cup {wjob}
          /\ pc' = "complete"
       \/ /\ CanPackage(wjob)
          /\ pc' = "failKeep"
          /\ UNCHANGED checkpoints
       \/ /\ pc' = "failClean"
          /\ UNCHANGED checkpoints
    /\ UNCHANGED <<jobs, users, hostVars, today, localVars, crashes>>

\* Mutant: a failing clean-up after completion also marks the job failed.
MarkCompleted_FallsThrough ==
    /\ Goto("complete", "failClean")
    /\ UpdateJob(wjob, Completed(wdoc))
    /\ UNCHANGED <<users, checkpoints, hostVars, today, localVars, crashes>>

MarkCompleted ==
    /\ Goto("complete", "cleanup")
    /\ UpdateJob(wjob, Completed(wdoc))
    /\ wdoc' = NoJob
    /\ UNCHANGED <<users, checkpoints, hostVars, today,
                   orphans, batch, wjob, wuser, wprog, wexit, crashes>>

\* Mutant: a failed job's directory is kept, as after a failed upload.
MarkFailed_KeepsDir ==
    /\ Goto("failClean", "cancel")
    /\ UpdateJob(wjob, Failed(wdoc, "other"))
    /\ LocalsAreReset
    /\ UNCHANGED <<users, checkpoints, hostVars, today, crashes>>

MarkFailed ==
    /\ Goto("failClean", "cleanup")
    /\ UpdateJob(wjob, Failed(wdoc, "other"))
    /\ wdoc' = NoJob
    /\ UNCHANGED <<users, checkpoints, hostVars, today,
                   orphans, batch, wjob, wuser, wprog, wexit, crashes>>

\* UPLOAD_FAILED_MESSAGE: the job's directory is kept.
MarkUploadFailed ==
    /\ Goto("failKeep", "cancel")
    /\ UpdateJob(wjob, Failed(wdoc, "upload"))
    /\ LocalsAreReset
    /\ UNCHANGED <<users, checkpoints, hostVars, today, crashes>>

CleanupJobDir ==
    /\ Goto("cleanup", "cancel")
    /\ RemoveJobDir(wjob)
    /\ LocalsAreReset
    /\ UNCHANGED <<jobs, users, checkpoints, containers, today, crashes>>

-----------------------------------------------------------------------------
\* The process is killed, or an I/O call raises where nothing catches it.
WorkerCrash ==
    /\ pc # "down"
    /\ crashes < MaxCrashes
    /\ crashes' = crashes + 1
    /\ Dies
    /\ UNCHANGED storeVars

Reconcile == WorkerStart \/ ReconcileList \/ ReconcileDone \/ \E j \in Jobs : KillOrphan(j)

ProcessCancellations ==
    CancelList \/ CancelRm \/ CancelUpdate \/ CancelDone \/ \E j \in Jobs : CancelNext(j)

StartNextQueuedJob ==
    \/ CheckActive \/ ListQueued \/ MarkInitializing \/ ChargeQuota
    \/ FetchDataset \/ DockerRun \/ RecordContainer \/ FailDuringStart

MonitorTick ==
    \/ MonitorList \/ Inspect \/ MarkTraining \/ RecordProgress \/ MarkContainerAlive
    \/ FinalizeTraining \/ PackageAndUpload
    \/ MarkCompleted \/ MarkFailed \/ MarkUploadFailed \/ CleanupJobDir

WorkerStep == Reconcile \/ ProcessCancellations \/ StartNextQueuedJob \/ MonitorTick

=============================================================================
