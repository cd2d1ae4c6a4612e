-------------------------- MODULE TrainingService --------------------------
(***************************************************************************)
(* The whole service: the backend's requests and sweep (Backend), the      *)
(* worker process (Worker), the training containers it starts, and time.   *)
(***************************************************************************)
EXTENDS Backend, Worker

vars == <<storeVars, backendVars, workerVars>>

TypeOK == StoreTypeOK /\ BackendTypeOK /\ WorkerTypeOK

Init == StoreInit /\ BackendInit /\ WorkerInit

-----------------------------------------------------------------------------
(* The training container (docker/*/train_entrypoint.py).                  *)

\* Mutant: the loop reports one step too many.
ContainerProgress_OneMore(j) ==
    /\ containers[j] = "running"
    /\ progressFile[j] <= MaxStep
    /\ progressFile' = [progressFile EXCEPT ![j] = @ + 1]
    /\ UNCHANGED <<jobs, users, checkpoints, containers, workdir, today,
                   backendVars, workerVars>>

\* run_training_loop reports a step.
ContainerProgress(j) ==
    /\ containers[j] = "running"
    /\ progressFile[j] < MaxStep
    /\ progressFile' = [progressFile EXCEPT ![j] = @ + 1]
    /\ UNCHANGED <<jobs, users, checkpoints, containers, workdir, today,
                   backendVars, workerVars>>

\* The loop always reports the last step, then the checkpoint is written and
\* main returns.
ContainerSucceeds(j) ==
    /\ containers[j] = "running"
    /\ progressFile[j] = MaxStep
    /\ containers' = [containers EXCEPT ![j] = "ok"]
    /\ UNCHANGED <<jobs, users, checkpoints, workdir, progressFile, today,
                   backendVars, workerVars>>

\* An exception, an out-of-memory kill, a driver error: at any time.
ContainerFails(j) ==
    /\ containers[j] = "running"
    /\ containers' = [containers EXCEPT ![j] = "err"]
    /\ UNCHANGED <<jobs, users, checkpoints, workdir, progressFile, today,
                   backendVars, workerVars>>

ContainerStep(j) == ContainerProgress(j) \/ ContainerSucceeds(j) \/ ContainerFails(j)

-----------------------------------------------------------------------------
(* Time.                                                                   *)

\* A clock unit passes: every heartbeat, stored or held as a copy, is older.
\* Disabled when that changes nothing.
Advance ==
    /\ jobs' = [j \in Jobs |-> Age(jobs[j])]
    /\ wdoc' = Age(wdoc)
    /\ cancels' = [r \in CancelRequests |-> [cancels[r] EXCEPT !.doc = Age(@)]]
    /\ <<jobs, wdoc, cancels>>' # <<jobs, wdoc, cancels>>
    /\ UNCHANGED <<users, checkpoints, hostVars, today, submits, passwords, sweep,
                   pc, orphans, batch, wjob, wuser, wprog, wexit, crashes>>

\* Midnight UTC.
NextDay ==
    /\ today < MaxDay
    /\ today' = today + 1
    /\ UNCHANGED <<jobs, users, checkpoints, hostVars, backendVars, workerVars>>

-----------------------------------------------------------------------------
BackendStep == BackendNext /\ UNCHANGED workerVars
WorkerTakesStep == (WorkerStep \/ WorkerCrash) /\ UNCHANGED backendVars

Next ==
    \/ BackendStep
    \/ WorkerTakesStep
    \/ \E j \in Jobs : ContainerStep(j)
    \/ Advance
    \/ NextDay

Spec == Init /\ [][Next]_vars

\* The scheduling the deployment provides: systemd restarts the worker and its
\* loop never waits for anyone; a request that has begun runs to its end;
\* Cloud Scheduler keeps triggering the sweep; time passes.  Of a container
\* only this is assumed: it does not hang before its first progress report.
Fairness ==
    /\ WF_vars(WorkerStep /\ UNCHANGED backendVars)
    /\ \A j \in Jobs : WF_vars((SubmitReadUser(j) \/ SubmitCheck(j) \/ SubmitCreate(j))
                               /\ UNCHANGED workerVars)
    /\ \A r \in CancelRequests : WF_vars(CancelWrite(r) /\ UNCHANGED workerVars)
    /\ WF_vars((SweepList \/ \E j \in Jobs : SweepFail(j)) /\ UNCHANGED workerVars)
    /\ WF_vars(Advance)
    /\ \A j \in Jobs : WF_vars(progressFile[j] = 0 /\ ContainerStep(j))

FairSpec == Spec /\ Fairness

-----------------------------------------------------------------------------
(* What holds.                                                             *)

\* Every call of the state machine's transition() is from a status it allows,
\* whatever copy the caller holds by then, so InvalidTransitionError is never
\* raised in the worker: cancelling, failing a start, moving to training, and
\* ending a job.
TransitionsLegal ==
    /\ pc = "cancelWrite" => CanTransition(wdoc.status, "cancelled")
    /\ pc \in {"failStart", "failClean", "failKeep"} => CanTransition(wdoc.status, "failed")
    /\ pc \in {"toTraining", "finTraining"} => CanTransition(wdoc.status, "training")
    /\ pc = "complete" => CanTransition(wdoc.status, "completed")

UncancelledRunning(j) == jobs[j].status \in RunningStatuses /\ ~CancelRequested(jobs[j])

\* Among the jobs nobody asked to cancel, at most one is initializing or
\* training: JobPoller's check before starting a job, made on documents the
\* backend keeps overwriting, is enough for those.
OneUncancelledRunning ==
    \A i, j \in Jobs : UncancelledRunning(i) /\ UncancelledRunning(j) => i = j

\* A job that gave its claim to the GPU away while its container may be alive.
Excused(j) ==
    CancelRequested(jobs[j]) \/ (jobs[j].status = "failed" /\ jobs[j].error = "timeout")

\* A running container belongs to a job that is initializing or training,
\* unless the job was asked to cancel or was failed by the timeout sweep; so
\* at most one container runs for the jobs that were neither.
GpuHeldOnce ==
    /\ \A j \in Jobs : containers[j] = "running" => UncancelledRunning(j) \/ Excused(j)
    /\ \A i, j \in Jobs :
         /\ containers[i] = "running" /\ ~Excused(i)
         /\ containers[j] = "running" /\ ~Excused(j)
         => i = j

\* A job shown as completed has a checkpoint path, the uploaded object behind
\* it (so the download link works) and a container that exited with code 0.
CompletedHasCheckpoint ==
    \A j \in Jobs : jobs[j].status = "completed" =>
        jobs[j].checkpoint = "path" /\ j \in checkpoints /\ containers[j] = "ok"

\* The working directory of a running container is never removed under it, by
\* the cancel watcher or by the clean-up after a job.
RunningKeepsWorkdir == \A j \in Jobs : containers[j] = "running" => j \in workdir

Ended(j) == jobs[j].status \in TerminalStatuses

\* The worker never changes a verdict of its own.  An ended job's document is
\* overwritten only by a cancel request holding an older copy, by a sweep
\* holding an older copy, or by the worker over a sweep's verdict.
VerdictsStand ==
    [][\A j \in Jobs : Ended(j) /\ jobs'[j] # jobs[j] =>
          CancelRequested(jobs'[j]) \/ jobs'[j].error = "timeout" \/ jobs[j].error = "timeout"]_vars

\* No cancel request has written its copy of a job yet.
NobodyCancelled == \A r \in CancelRequests : cancels[r].at # "done"

\* Once the worker has let go of a job that completed, or that failed with its
\* container or its packaging, the job's directory is gone.  (Until somebody
\* cancels or the worker crashes.  For the other verdicts see EveryDirGoes.)
TrainedDirsGo ==
    pc = "cancel" /\ crashes = 0 /\ NobodyCancelled =>
        \A j \in Jobs : Ended(j) /\ jobs[j].error \in {"none", "other"} => j \notin workdir

\* The job that holds the GPU slot, of the jobs nobody asked to cancel.
GpuHolder ==
    IF \E j \in Jobs : UncancelledRunning(j)
    THEN CHOOSE j \in Jobs : UncancelledRunning(j) ELSE 0

Slot == INSTANCE GpuSlot WITH holder <- GpuHolder

\* The service implements the abstract slot: between two jobs nobody cancels,
\* there is always a state in which neither is initializing or training.
ImplementsGpuSlot == Slot!Spec

StartedContainers(u) == {j \in Jobs : Owner[j] = u /\ containers[j] # "absent"}

\* On the first day, every container a user's jobs started was charged to the
\* daily quota: the charge is written before the container starts, a crash in
\* between included, and no write of the worker or of a submission takes it
\* back.  Only a password change of the user's own may.
EveryStartCharged ==
    \A u \in Users : today = 0 /\ passwords[u].at = "idle" =>
        Cardinality(StartedContainers(u)) <= users[u].used

\* The user's jobs that have left the queue.
Dequeued(u) == {j \in Jobs : Owner[j] = u /\ jobs[j].status \notin {"absent", "queued"}}

\* Until somebody cancels, a user is charged for no more jobs than have left
\* the queue: a start is charged once, also across a crash or a failed start.
NeverOvercharged ==
    NobodyCancelled => \A u \in Users : users[u].used <= Cardinality(Dequeued(u))

\* One more start of the same day, or the first of a later one.
CountsOneMore(old, new) ==
    \/ new.day = old.day /\ new.used = old.used + 1
    \/ new.day > old.day /\ new.used = 1

\* The daily counter is the number of the starts charged to the day it stands
\* for: it only ever counts one more, and never returns to an earlier day,
\* although the worker takes the counter and the day from what it read before
\* the INITIALIZING write, and midnight may have passed since.  (Until the user
\* changes the password.)
DayCountedRight ==
    [][\A u \in Users : users'[u] # users[u] /\ passwords'[u].at = "idle" =>
          CountsOneMore(users[u], users'[u])]_vars

\* Every submitted job ends: the queue never stays blocked behind a job whose
\* container hangs or dies, or behind one whose start fails.
EveryJobEnds == \A j \in Jobs : jobs[j].status = "queued" ~> Ended(j)

-----------------------------------------------------------------------------
(* What the comments and documents say and the code does not do.           *)

\* orphan_reconciler.py: at most one training container occupies the GPU.
AtMostOneContainer ==
    \A i, j \in Jobs : containers[i] = "running" /\ containers[j] = "running" => i = j

\* A cancel_requested flag stays until the worker has acted on it.
CancelNotLost ==
    [][\A j \in Jobs : CancelRequested(jobs[j]) /\ ~Ended(j) => CancelRequested(jobs'[j])]_vars

\* cancel_watcher.py: the container of a job that is still queued was never
\* started, so there is nothing to kill.
QueuedNeverStarted ==
    pc = "cancelWrite" /\ wdoc.status = "queued" => containers[wjob] = "absent"

\* quota.py: at most MAX_CONCURRENT_JOBS jobs of a user are active.
ConcurrencyCapped ==
    \A u \in Users :
        Cardinality({j \in ListByStatuses(ActiveStatuses) : Owner[j] = u}) <= MaxConcurrent

\* job_poller.py: the charge is written before the container starts and stands.
ChargeStands ==
    today = 0 => \A u \in Users : Cardinality(StartedContainers(u)) <= users[u].used

\* dataset_fetcher.py: the job's directory is deleted when the job ends, however
\* it ends.  (It is kept on purpose when the upload of its checkpoint fails.)
EveryDirGoes ==
    \A j \in Jobs : Ended(j) /\ j \in workdir /\ jobs[j].error # "upload" ~> j \notin workdir

-----------------------------------------------------------------------------
(* The inductive invariant behind the safety properties.                   *)

Submitted(j) == submits[j].at = "done"

\* Every copy of a document that some actor still holds is of a submitted job
\* and has the status and flags its reader selected it for.
CopiesInv ==
    /\ \A j \in Jobs : ~Submitted(j) => jobs[j].status = "absent" /\ containers[j] = "absent"
    /\ wjob \in Jobs => Submitted(wjob)
    /\ \A j \in Jobs : batch[j] # NoJob =>
         CancelRequested(batch[j]) /\ batch[j].status \in ActiveStatuses /\ Submitted(j)
    /\ \A j \in Jobs : sweep[j] # NoJob =>
         /\ sweep[j].status = "failed" /\ sweep[j].error = "timeout"
         /\ sweep[j].hb = NoHeartbeat /\ Submitted(j)
    /\ \A r \in CancelRequests : cancels[r].at = "read" =>
         cancels[r].doc.status \in ActiveStatuses /\ Submitted(cancels[r].job)
    /\ pc \in {"cancelRm", "cancelWrite"} =>
         wjob \in Jobs /\ CancelRequested(wdoc) /\ wdoc.status \in ActiveStatuses
    /\ pc \in StartPCs \cup {"toTraining", "alive", "finTraining"} => wdoc.status = "initializing"
    /\ pc \in {"record", "package", "complete", "failClean", "failKeep"} => wdoc.status = "training"
    /\ pc \in MonitorPCs => wdoc.status \in RunningStatuses

\* Between the check and the start nobody has the slot; a worker that holds an
\* uncancelled copy is the only one whose writes can claim it.
SlotInv ==
    /\ OneUncancelledRunning
    /\ pc = "queue" => \A i \in Jobs : ~UncancelledRunning(i)
    /\ pc \in StartPCs \cup MonitorPCs /\ ~CancelRequested(wdoc) =>
         \A i \in Jobs : i # wjob => ~UncancelledRunning(i)

\* What a job's document says about its container.
ContainerInv ==
    /\ \A j \in Jobs : containers[j] = "running" => UncancelledRunning(j) \/ Excused(j)
    /\ \A j \in Jobs : containers[j] = "running" => j \in workdir
    /\ \A j \in Jobs : jobs[j].status = "queued" /\ ~CancelRequested(jobs[j])
                         => containers[j] = "absent"

\* What the worker's pc says about the container of the job in hand.
HeldInv ==
    /\ pc \in StartPCs \ {"started"} /\ ~CancelRequested(wdoc) => containers[wjob] = "absent"
    /\ pc \in {"charge", "fetch", "run", "started"} =>
         UncancelledRunning(wjob) \/ Excused(wjob)
    /\ pc = "cancelRm" => containers[wjob] # "running"
    /\ wexit # "none" => /\ pc \in (MonitorPCs \ {"inspect"}) \cup {"cleanup"}
                         /\ containers[wjob] = wexit
    /\ pc \in {"finTraining", "package", "complete", "failClean", "failKeep", "cleanup"} =>
         wexit # "none"
    /\ pc \in {"package", "complete", "failKeep"} => wexit = "ok"
    /\ pc = "complete" => wjob \in checkpoints

\* A job the worker holds has not ended, but for a sweep's verdict.
VerdictInv ==
    /\ pc \in StartPCs \cup MonitorPCs =>
         jobs[wjob].status \in ActiveStatuses \/ jobs[wjob].error = "timeout"
    /\ \A j \in Jobs : Ended(j) => jobs[j].hb = NoHeartbeat

IInv ==
    /\ TypeOK
    /\ CopiesInv
    /\ SlotInv
    /\ ContainerInv
    /\ HeldInv
    /\ VerdictInv
    /\ CompletedHasCheckpoint

=============================================================================
