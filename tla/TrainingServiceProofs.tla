----------------------- MODULE TrainingServiceProofs -----------------------
(***************************************************************************)
(* Proofs about TrainingService, for every value of its constants.         *)
(***************************************************************************)
EXTENDS TrainingService, FiniteSetTheorems, TLAPS

-----------------------------------------------------------------------------
(* The operators of JobDomain on documents.                                *)

\* The documents every component starts from are documents.
LEMMA ConstantDocs == NoJob \in Job /\ NewJob \in Job /\ NewUser \in User
<1> USE DomainAssumption DEF DomainAssumption
<1>1. NoJob \in Job
  BY DEF NoJob, Job, NoHeartbeat, MaxAge, ErrorMessage
<1>2. [NoJob EXCEPT !.status = "queued"] \in Job
  BY <1>1 DEF Job, JobStatus
<1>3. NewUser \in User
  BY DEF NewUser, User, NeverReset
<1> QED
  BY <1>1, <1>2, <1>3 DEF NewJob

\* Setting one field of a document gives a document.
LEMMA FieldTypes ==
  ASSUME NEW job \in Job
  PROVE  /\ \A s \in JobStatus : [job EXCEPT !.status = s] \in Job
         /\ \A h \in NoHeartbeat .. MaxAge : [job EXCEPT !.hb = h] \in Job
         /\ \A p \in 0 .. MaxStep : [job EXCEPT !.progress = p] \in Job
         /\ \A e \in ErrorMessage : [job EXCEPT !.error = e] \in Job
         /\ [job EXCEPT !.container = "id"] \in Job
         /\ [job EXCEPT !.cancel = "yes"] \in Job
         /\ [job EXCEPT !.checkpoint = "path"] \in Job
  BY DEF Job

\* Setting one field leaves the others alone.
LEMMA FieldFrame ==
  ASSUME NEW job \in Job
  PROVE  /\ \A h : /\ [job EXCEPT !.hb = h].status = job.status
                   /\ [job EXCEPT !.hb = h].cancel = job.cancel
                   /\ [job EXCEPT !.hb = h].error = job.error
                   /\ [job EXCEPT !.hb = h].checkpoint = job.checkpoint
                   /\ [job EXCEPT !.hb = h].hb = h
         /\ \A p : /\ [job EXCEPT !.progress = p].status = job.status
                   /\ [job EXCEPT !.progress = p].cancel = job.cancel
         /\ [job EXCEPT !.container = "id"].status = job.status
         /\ [job EXCEPT !.container = "id"].cancel = job.cancel
         /\ RequestCancel(job).status = job.status
         /\ RequestCancel(job).cancel = "yes"
  BY DEF Job, RequestCancel

\* No heartbeat and a fresh one are both ages a document may have.
LEMMA HeartbeatRange == NoHeartbeat \in NoHeartbeat .. MaxAge /\ 0 \in NoHeartbeat .. MaxAge
  BY DomainAssumption DEF DomainAssumption, NoHeartbeat, MaxAge

\* transition() returns a document with the new status, the rest kept.
LEMMA TransitionType ==
  ASSUME NEW job \in Job, NEW to \in JobStatus
  PROVE  /\ Transition(job, to) \in Job
         /\ Transition(job, to).status = to
         /\ Transition(job, to).cancel = job.cancel
         /\ Transition(job, to).error = job.error
         /\ to \in TerminalStatuses => Transition(job, to).hb = NoHeartbeat
<1> DEFINE moved == [job EXCEPT !.status = to]
           hb == IF to \in TerminalStatuses THEN NoHeartbeat ELSE job.hb
<1>1. moved \in Job /\ moved.status = to /\ moved.cancel = job.cancel
      /\ moved.error = job.error /\ moved.hb = job.hb
  BY FieldTypes DEF Job
<1>2. hb \in NoHeartbeat .. MaxAge
  BY HeartbeatRange DEF Job
<1>3. Transition(job, to) = [moved EXCEPT !.hb = hb]
  BY DEF Transition
<1> HIDE DEF moved, hb
<1>4. [moved EXCEPT !.hb = hb] \in Job /\ [moved EXCEPT !.hb = hb].hb = hb
      /\ [moved EXCEPT !.hb = hb].status = moved.status
      /\ [moved EXCEPT !.hb = hb].cancel = moved.cancel
      /\ [moved EXCEPT !.hb = hb].error = moved.error
  BY <1>1, <1>2, FieldTypes, FieldFrame
<1> QED
  BY <1>1, <1>3, <1>4 DEF hb

\* The document of a failed job.
LEMMA FailedType ==
  ASSUME NEW job \in Job, NEW message \in ErrorMessage
  PROVE  /\ Failed(job, message) \in Job
         /\ Failed(job, message).status = "failed"
         /\ Failed(job, message).error = message
         /\ Failed(job, message).cancel = job.cancel
         /\ Failed(job, message).hb = NoHeartbeat
<1> DEFINE moved == Transition(job, "failed")
<1>1. moved \in Job /\ moved.status = "failed" /\ moved.cancel = job.cancel
      /\ moved.hb = NoHeartbeat
  BY TransitionType DEF JobStatus, TerminalStatuses
<1>2. Failed(job, message) = [moved EXCEPT !.error = message]
  BY DEF Failed
<1> HIDE DEF moved
<1>3. [moved EXCEPT !.error = message] \in Job
  BY <1>1, FieldTypes
<1>4. /\ [moved EXCEPT !.error = message].status = moved.status
      /\ [moved EXCEPT !.error = message].error = message
      /\ [moved EXCEPT !.error = message].cancel = moved.cancel
      /\ [moved EXCEPT !.error = message].hb = moved.hb
  BY <1>1 DEF Job
<1> QED
  BY <1>1, <1>2, <1>3, <1>4

\* The document of a completed job.
LEMMA CompletedType ==
  ASSUME NEW job \in Job
  PROVE  /\ Completed(job) \in Job
         /\ Completed(job).status = "completed"
         /\ Completed(job).checkpoint = "path"
         /\ Completed(job).cancel = job.cancel
         /\ Completed(job).hb = NoHeartbeat
<1> DEFINE moved == Transition(job, "completed")
<1>1. moved \in Job /\ moved.status = "completed" /\ moved.cancel = job.cancel
      /\ moved.hb = NoHeartbeat
  BY TransitionType DEF JobStatus, TerminalStatuses
<1>2. Completed(job) = [moved EXCEPT !.checkpoint = "path"]
  BY DEF Completed
<1> HIDE DEF moved
<1>3. [moved EXCEPT !.checkpoint = "path"] \in Job
  BY <1>1, FieldTypes
<1>4. /\ [moved EXCEPT !.checkpoint = "path"].status = moved.status
      /\ [moved EXCEPT !.checkpoint = "path"].checkpoint = "path"
      /\ [moved EXCEPT !.checkpoint = "path"].cancel = moved.cancel
      /\ [moved EXCEPT !.checkpoint = "path"].hb = moved.hb
  BY <1>1 DEF Job
<1> QED
  BY <1>1, <1>2, <1>3, <1>4

\* A fresh heartbeat changes nothing else.
LEMMA MarkAliveType ==
  ASSUME NEW job \in Job
  PROVE  /\ MarkAlive(job) \in Job
         /\ MarkAlive(job).status = job.status
         /\ MarkAlive(job).cancel = job.cancel
         /\ MarkAlive(job).error = job.error
  BY FieldTypes, FieldFrame, HeartbeatRange DEF MarkAlive

\* record_progress stores the progress and a fresh heartbeat, nothing else.
LEMMA ProgressType ==
  ASSUME NEW job \in Job, NEW p \in 0 .. MaxStep
  PROVE  /\ MarkAlive([job EXCEPT !.progress = p]) \in Job
         /\ MarkAlive([job EXCEPT !.progress = p]).status = job.status
         /\ MarkAlive([job EXCEPT !.progress = p]).cancel = job.cancel
<1> DEFINE read == [job EXCEPT !.progress = p]
<1>1. read \in Job
  BY FieldTypes
<1>2. read.status = job.status /\ read.cancel = job.cancel
  BY FieldFrame
<1> HIDE DEF read
<1>3. /\ MarkAlive(read) \in Job
      /\ MarkAlive(read).status = read.status
      /\ MarkAlive(read).cancel = read.cancel
  BY <1>1, MarkAliveType
<1> QED
  BY <1>2, <1>3 DEF read

\* Time makes a heartbeat older and changes nothing else.
LEMMA AgeType ==
  ASSUME NEW job \in Job
  PROVE  /\ Age(job) \in Job
         /\ Age(job).status = job.status
         /\ Age(job).cancel = job.cancel
         /\ Age(job).error = job.error
         /\ Age(job).checkpoint = job.checkpoint
         /\ job.hb = NoHeartbeat => Age(job) = job
<1>1. Older(job.hb) \in NoHeartbeat .. MaxAge
  BY DomainAssumption DEF DomainAssumption, Older, Job, NoHeartbeat, MaxAge
<1>2. job.hb = NoHeartbeat => Older(job.hb) = job.hb
  BY DEF Older
<1>3. [job EXCEPT !.hb = job.hb] = job
  BY DEF Job
<1> QED
  BY <1>1, <1>2, <1>3, FieldTypes, FieldFrame DEF Age

\* record_job_started returns a user document.
LEMMA RecordJobStartedType ==
  ASSUME NEW user \in User, NEW d \in 0 .. MaxDay
  PROVE  RecordJobStarted(user, d) \in User
<1> DEFINE used == EffectiveDailyUsed(user, d) + 1
           counted == [user EXCEPT !.used = used]
<1>1. used \in Nat
  BY DEF EffectiveDailyUsed, User
<1>2. d \in NeverReset .. MaxDay
  BY DomainAssumption DEF DomainAssumption, NeverReset
<1>3. RecordJobStarted(user, d) = [counted EXCEPT !.day = d]
  BY DEF RecordJobStarted
<1> HIDE DEF used
<1>4. counted \in User
  BY <1>1 DEF User
<1> HIDE DEF counted
<1> QED
  BY <1>2, <1>3, <1>4 DEF User

\* change_password keeps a user document a user document.
LEMMA PasswordType ==
  ASSUME NEW user \in User
  PROVE  [user EXCEPT !.password = "new"] \in User
  BY DEF User

\* The whole fields of a document that the invariant speaks of have a type.
LEMMA DocFields ==
  ASSUME NEW job \in Job
  PROVE  /\ job.status \in JobStatus \cup {"absent"}
         /\ job.cancel \in {"no", "yes"}
  BY DEF Job

-----------------------------------------------------------------------------
(* Type correctness.                                                       *)

\* The service starts with every variable of its type.
LEMMA TypeInit == Init => TypeOK
  BY ConstantDocs, DomainAssumption, StoreAssumption, WorkerAssumption
  DEF DomainAssumption, WorkerAssumption, Init, StoreInit, BackendInit, WorkerInit, TypeOK,
      StoreTypeOK, BackendTypeOK, WorkerTypeOK, Submission, Cancellation, PasswordChange,
      NoSweep, NoBatch, ContainerState, PCs, StartPCs, MonitorPCs, ExitCode

\* No step of the backend, the worker, a container or the clock breaks a type.
LEMMA TypeStep == TypeOK /\ [Next]_vars => TypeOK'
<1> SUFFICES ASSUME TypeOK, [Next]_vars PROVE TypeOK'
  OBVIOUS
<1> USE ConstantDocs
<1> USE DEF TypeOK, StoreTypeOK, BackendTypeOK, WorkerTypeOK, storeVars, hostVars,
            backendVars, workerVars, localVars
<1>1. CASE BackendStep
  <2> USE DEF Submission, Cancellation, PasswordChange
  <2>1. CASE \E j \in Jobs : SubmitReadUser(j) /\ UNCHANGED workerVars
    <3> PICK j \in Jobs : SubmitReadUser(j) /\ UNCHANGED workerVars
      BY <2>1
    <3>1. users[Owner[j]] \in User
      BY StoreAssumption DEF StoreAssumption
    <3>2. [at |-> "read", user |-> users[Owner[j]]] \in Submission
      BY <3>1
    <3> HIDE DEF Submission
    <3>3. submits' \in [Jobs -> Submission]
      BY <3>2 DEF SubmitReadUser
    <3> QED
      BY <3>3 DEF SubmitReadUser
  <2>2. CASE \E j \in Jobs : SubmitCheck(j) /\ UNCHANGED workerVars
    <3> PICK j \in Jobs : SubmitCheck(j) /\ UNCHANGED workerVars
      BY <2>2
    <3>1. /\ [at |-> "checked", user |-> NewUser] \in Submission
          /\ [at |-> "done", user |-> NewUser] \in Submission
      OBVIOUS
    <3> HIDE DEF Submission
    <3>2. submits' \in [Jobs -> Submission]
      BY <3>1 DEF SubmitCheck, SubmitEnds
    <3> QED
      BY <3>2 DEF SubmitCheck
  <2>3. CASE \E j \in Jobs : SubmitCreate(j) /\ UNCHANGED workerVars
    BY <2>3 DEF SubmitCreate, SubmitEnds, UpdateJob
  <2>4. CASE \E j \in Jobs : SweepFail(j) /\ UNCHANGED workerVars
    BY <2>4 DEF SweepFail, UpdateJob
  <2>5. CASE \E r \in CancelRequests : CancelWrite(r) /\ UNCHANGED workerVars
    <3> PICK r \in CancelRequests : CancelWrite(r) /\ UNCHANGED workerVars
      BY <2>5
    <3>1. RequestCancel(cancels[r].doc) \in Job
      BY FieldTypes DEF RequestCancel
    <3>2. [at |-> "done", job |-> 0, doc |-> NoJob] \in Cancellation
      OBVIOUS
    <3>3. jobs' \in [Jobs -> Job]
      BY <3>1 DEF CancelWrite, UpdateJob
    <3> HIDE DEF Cancellation
    <3>4. cancels' \in [CancelRequests -> Cancellation]
      BY <3>2 DEF CancelWrite
    <3>5. \A q \in CancelRequests : cancels'[q].at = "read" => cancels'[q].job \in Jobs
      BY DEF CancelWrite
    <3> QED
      BY <3>3, <3>4, <3>5 DEF CancelWrite
  <2>6. CASE \E r \in CancelRequests, j \in Jobs : CancelRead(r, j) /\ UNCHANGED workerVars
    BY <2>6 DEF CancelRead
  <2>7. CASE \E u \in Users : PasswordRead(u) /\ UNCHANGED workerVars
    BY <2>7 DEF PasswordRead
  <2>8. CASE \E u \in Users : PasswordWrite(u) /\ UNCHANGED workerVars
    BY <2>8, PasswordType DEF PasswordWrite, UpdateUser
  <2>9. CASE SweepList /\ UNCHANGED workerVars
    <3>1. \A j \in Jobs : Failed(jobs[j], "timeout") \in Job
      BY FailedType DEF ErrorMessage
    <3> QED
      BY <2>9, <3>1 DEF SweepList
  <2> QED
    BY <1>1, <2>1, <2>2, <2>3, <2>4, <2>5, <2>6, <2>7, <2>8, <2>9
    DEF BackendStep, BackendNext
<1>2. CASE WorkerTakesStep
  <2> USE DEF PCs, StartPCs, MonitorPCs, ExitCode, LocalsAreReset, NoBatch, Goto, Dies
  <2>1. CASE Reconcile /\ UNCHANGED backendVars
    <3>1. CASE WorkerStart /\ UNCHANGED backendVars
      BY <3>1 DEF WorkerStart
    <3>2. CASE ReconcileList /\ UNCHANGED backendVars
      BY <3>2 DEF ReconcileList, ListRunningContainers
    <3>3. CASE ReconcileDone /\ UNCHANGED backendVars
      BY <3>3 DEF ReconcileDone
    <3>4. CASE \E j \in Jobs : KillOrphan(j) /\ UNCHANGED backendVars
      <4> PICK j \in Jobs : KillOrphan(j) /\ UNCHANGED backendVars
        BY <3>4
      <4>1. containers' \in [Jobs -> ContainerState]
        BY DEF KillOrphan, DockerKill, ContainerState
      <4>2. WorkerTypeOK'
        BY DomainAssumption DEF KillOrphan, DomainAssumption
      <4> QED
        BY <4>1, <4>2 DEF KillOrphan
    <3> QED
      BY <2>1, <3>1, <3>2, <3>3, <3>4 DEF Reconcile
  <2>2. CASE ProcessCancellations /\ UNCHANGED backendVars
    <3>1. CASE CancelList /\ UNCHANGED backendVars
      <4>1. \A j \in Jobs : [jobs[j] EXCEPT !.hb = NoHeartbeat] \in Job
        BY FieldTypes, HeartbeatRange
      <4> QED
        BY <3>1, <4>1 DEF CancelList
    <3>2. CASE \E j \in Jobs : CancelNext(j) /\ UNCHANGED backendVars
      <4> PICK j \in Jobs : CancelNext(j) /\ UNCHANGED backendVars
        BY <3>2
      <4>1. containers' \in [Jobs -> ContainerState]
        BY DEF CancelNext, DockerKill, ContainerState
      <4>2. WorkerTypeOK'
        BY DomainAssumption DEF CancelNext, DomainAssumption
      <4> QED
        BY <4>1, <4>2 DEF CancelNext
    <3>3. CASE CancelRm /\ UNCHANGED backendVars
      <4>1. 0 \in 0 .. MaxStep
        BY DomainAssumption DEF DomainAssumption
      <4>2. progressFile' \in [Jobs -> 0 .. MaxStep]
        BY <3>3, <4>1 DEF CancelRm, RemoveJobDir
      <4> QED
        BY <3>3, <4>2 DEF CancelRm, RemoveJobDir
    <3>4. CASE CancelUpdate /\ UNCHANGED backendVars
      <4>1. Transition(wdoc, "cancelled") \in Job
        BY TransitionType DEF JobStatus
      <4> QED
        BY <3>4, <4>1 DEF CancelUpdate, UpdateJob
    <3>5. CASE CancelDone /\ UNCHANGED backendVars
      BY <3>5 DEF CancelDone
    <3> QED
      BY <2>2, <3>1, <3>2, <3>3, <3>4, <3>5 DEF ProcessCancellations
  <2>3. CASE StartNextQueuedJob /\ UNCHANGED backendVars
    <3>1. CASE CheckActive /\ UNCHANGED backendVars
      BY <3>1 DEF CheckActive
    <3>2. CASE ListQueued /\ UNCHANGED backendVars
      <4>1. \A j \in Jobs : MarkAlive(Transition(jobs[j], "initializing")) \in Job
        BY TransitionType, MarkAliveType DEF JobStatus
      <4>2. \A j \in Jobs : RecordJobStarted(users[Owner[j]], today) \in User
        BY RecordJobStartedType, StoreAssumption DEF StoreAssumption
      <4> QED
        BY <3>2, <4>1, <4>2 DEF ListQueued
    <3>3. CASE MarkInitializing /\ UNCHANGED backendVars
      BY <3>3 DEF MarkInitializing, UpdateJob
    <3>4. CASE ChargeQuota /\ UNCHANGED backendVars
      BY <3>4 DEF ChargeQuota, UpdateUser
    <3>5. CASE FetchDataset /\ UNCHANGED backendVars
      <4>1. workdir' \subseteq Jobs
        BY <3>5 DEF FetchDataset
      <4>2. WorkerTypeOK'
        BY <3>5, WorkerAssumption, DomainAssumption
        DEF FetchDataset, WorkerAssumption, DomainAssumption
      <4> QED
        BY <3>5, <4>1, <4>2 DEF FetchDataset
    <3>6. CASE DockerRun /\ UNCHANGED backendVars
      BY <3>6, FieldTypes DEF DockerRun, ContainerState
    <3>7. CASE RecordContainer /\ UNCHANGED backendVars
      BY <3>7, DomainAssumption DEF DomainAssumption, RecordContainer, UpdateJob
    <3>8. CASE FailDuringStart /\ UNCHANGED backendVars
      <4>1. Failed(wdoc, "start") \in Job
        BY FailedType DEF ErrorMessage
      <4> QED
        BY <3>8, <4>1, DomainAssumption DEF DomainAssumption, FailDuringStart, UpdateJob
    <3> QED
      BY <2>3, <3>1, <3>2, <3>3, <3>4, <3>5, <3>6, <3>7, <3>8 DEF StartNextQueuedJob
  <2>4. CASE MonitorTick /\ UNCHANGED backendVars
    <3> USE DomainAssumption DEF DomainAssumption
    <3>1. CASE MonitorList /\ UNCHANGED backendVars
      BY <3>1 DEF MonitorList, ReadProgress
    <3>2. CASE Inspect /\ UNCHANGED backendVars
      BY <3>2 DEF Inspect, Proceed, HeartbeatStep, AfterHeartbeat, ExitCodeOf
    <3>3. CASE MarkTraining /\ UNCHANGED backendVars
      <4>1. Transition(wdoc, "training") \in Job
        BY TransitionType DEF JobStatus
      <4> QED
        BY <3>3, <4>1 DEF MarkTraining, Proceed, AfterHeartbeat, UpdateJob
    <3>4. CASE RecordProgress /\ UNCHANGED backendVars
      <4>1. MarkAlive([wdoc EXCEPT !.progress = wprog]) \in Job
        BY FieldTypes, MarkAliveType
      <4> QED
        BY <3>4, <4>1 DEF RecordProgress, Proceed, AfterHeartbeat, UpdateJob
    <3>5. CASE MarkContainerAlive /\ UNCHANGED backendVars
      BY <3>5, MarkAliveType DEF MarkContainerAlive, UpdateJob
    <3>6. CASE FinalizeTraining /\ UNCHANGED backendVars
      <4>1. Transition(wdoc, "training") \in Job
        BY TransitionType DEF JobStatus
      <4> QED
        BY <3>6, <4>1 DEF FinalizeTraining, Proceed, AfterHeartbeat, UpdateJob
    <3>7. CASE PackageAndUpload /\ UNCHANGED backendVars
      BY <3>7 DEF PackageAndUpload
    <3>8. CASE MarkCompleted /\ UNCHANGED backendVars
      BY <3>8, CompletedType DEF MarkCompleted, UpdateJob
    <3>9. CASE (MarkFailed \/ MarkUploadFailed) /\ UNCHANGED backendVars
      <4>1. Failed(wdoc, "other") \in Job /\ Failed(wdoc, "upload") \in Job
        BY FailedType DEF ErrorMessage
      <4> QED
        BY <3>9, <4>1 DEF MarkFailed, MarkUploadFailed, UpdateJob
    <3>10. CASE CleanupJobDir /\ UNCHANGED backendVars
      BY <3>10 DEF CleanupJobDir, RemoveJobDir
    <3> QED
      BY <2>4, <3>1, <3>2, <3>3, <3>4, <3>5, <3>6, <3>7, <3>8, <3>9, <3>10 DEF MonitorTick
  <2>5. CASE WorkerCrash /\ UNCHANGED backendVars
    BY <2>5, WorkerAssumption, DomainAssumption DEF WorkerCrash, WorkerAssumption, DomainAssumption
  <2> QED
    BY <1>2, <2>1, <2>2, <2>3, <2>4, <2>5 DEF WorkerTakesStep, WorkerStep
<1>3. CASE \E j \in Jobs : ContainerStep(j)
  BY <1>3, DomainAssumption
  DEF DomainAssumption, ContainerStep, ContainerProgress, ContainerSucceeds, ContainerFails,
      ContainerState
<1>4. CASE Advance
  <2>1. \A r \in CancelRequests : [cancels[r] EXCEPT !.doc = Age(cancels[r].doc)] \in Cancellation
    BY AgeType DEF Cancellation
  <2>2. \A r \in CancelRequests :
          /\ [cancels[r] EXCEPT !.doc = Age(cancels[r].doc)].at = cancels[r].at
          /\ [cancels[r] EXCEPT !.doc = Age(cancels[r].doc)].job = cancels[r].job
    BY DEF Cancellation
  <2> QED
    BY <1>4, <2>1, <2>2, AgeType DEF Advance
<1>5. CASE NextDay
  BY <1>5, DomainAssumption DEF DomainAssumption, NextDay
<1>6. CASE UNCHANGED vars
  BY <1>6 DEF vars
<1> QED
  BY <1>1, <1>2, <1>3, <1>4, <1>5, <1>6 DEF Next

\* Every variable keeps its type, for any number of jobs, users and requests.
THEOREM TypeCorrect == Spec => []TypeOK
  BY TypeInit, TypeStep, PTL DEF Spec

-----------------------------------------------------------------------------
(* The inductive invariant.                                                *)

\* No job has the number that stands for "none".
LEMMA ZeroIsNoJob == 0 \notin Jobs
  BY DEF Jobs

\* A job that was never created is neither running nor cancelled nor failed.
LEMMA NoJobFields == NoJob.status = "absent" /\ NoJob.cancel = "no" /\ NoJob.error = "none"
  BY DEF NoJob

\* The inductive invariant holds initially: nobody holds a copy of anything.
LEMMA InvInit == Init => IInv
<1> SUFFICES ASSUME Init PROVE IInv
  OBVIOUS
<1> USE NoJobFields, ZeroIsNoJob
<1> USE DEF Init, StoreInit, BackendInit, WorkerInit, NoSweep, NoBatch, RunningStatuses,
            ActiveStatuses, TerminalStatuses, StartPCs, MonitorPCs, UncancelledRunning,
            CancelRequested, Ended, Submitted
<1>1. CopiesInv
  BY DEF CopiesInv
<1>2. SlotInv
  BY DEF SlotInv, OneUncancelledRunning
<1>3. ContainerInv /\ HeldInv
  BY DEF ContainerInv, HeldInv
<1>4. VerdictInv /\ CompletedHasCheckpoint
  BY DEF VerdictInv, CompletedHasCheckpoint
<1> QED
  BY <1>1, <1>2, <1>3, <1>4, TypeInit DEF IInv

\* Every step of every actor preserves the inductive invariant.
LEMMA InvStep == IInv /\ TypeOK' /\ [Next]_vars => IInv'
<1> SUFFICES ASSUME IInv, TypeOK', [Next]_vars PROVE IInv'
  OBVIOUS
<1> USE ConstantDocs, DocFields, ZeroIsNoJob
<1> USE DEF TypeOK, StoreTypeOK, BackendTypeOK, WorkerTypeOK, storeVars, hostVars,
            backendVars, workerVars, localVars
<1> USE DEF IInv, CopiesInv, SlotInv, OneUncancelledRunning, ContainerInv, HeldInv, VerdictInv,
            CompletedHasCheckpoint, UncancelledRunning, Excused, CancelRequested, Ended,
            Submitted, RunningStatuses, ActiveStatuses, TerminalStatuses, StartPCs,
            MonitorPCs
<1>1. CASE BackendStep
  <2>1. CASE \E j \in Jobs : SubmitReadUser(j) /\ UNCHANGED workerVars
    <3> PICK j \in Jobs : SubmitReadUser(j) /\ UNCHANGED workerVars
      BY <2>1
    <3>1. CopiesInv'
      BY DEF SubmitReadUser
    <3>2. SlotInv'
      BY DEF SubmitReadUser
    <3>3. ContainerInv'
      BY DEF SubmitReadUser
    <3>4. HeldInv'
      BY DEF SubmitReadUser
    <3>5. VerdictInv'
      BY DEF SubmitReadUser
    <3>6. CompletedHasCheckpoint'
      BY DEF SubmitReadUser
    <3> QED
      BY <3>1, <3>2, <3>3, <3>4, <3>5, <3>6
  <2>2. CASE \E j \in Jobs : SubmitCheck(j) /\ UNCHANGED workerVars
    <3> PICK j \in Jobs : SubmitCheck(j) /\ UNCHANGED workerVars
      BY <2>2
    <3>1. \A i \in Jobs : submits[i].at = "done" => submits'[i].at = "done"
      BY DEF SubmitCheck, SubmitEnds
    <3>2. CopiesInv'
      <4>1. UNCHANGED <<jobs, containers, wjob, wdoc, batch, sweep, cancels, pc>>
        BY DEF SubmitCheck
      <4>2. /\ CopiesInv
            /\ \A r \in CancelRequests : cancels[r].at = "read" => cancels[r].job \in Jobs
        OBVIOUS
      <4> HIDE DEF TypeOK, StoreTypeOK, BackendTypeOK, WorkerTypeOK, IInv
      <4> QED
        BY <3>1, <4>1, <4>2
    <3>3. SlotInv'
      BY <3>1 DEF SubmitCheck
    <3>4. ContainerInv'
      BY <3>1 DEF SubmitCheck
    <3>5. HeldInv'
      BY <3>1 DEF SubmitCheck
    <3>6. VerdictInv'
      BY <3>1 DEF SubmitCheck
    <3>7. CompletedHasCheckpoint'
      BY <3>1 DEF SubmitCheck
    <3> QED
      BY <3>2, <3>3, <3>4, <3>5, <3>6, <3>7
  <2>3. CASE \E j \in Jobs : SubmitCreate(j) /\ UNCHANGED workerVars
    <3> PICK j \in Jobs : SubmitCreate(j) /\ UNCHANGED workerVars
      BY <2>3
    <3>1. /\ NewJob.status = "queued" /\ NewJob.cancel = "no"
        /\ NewJob.hb = NoHeartbeat
      BY DEF NewJob, NoJob
    <3>2. CopiesInv'
      BY <3>1 DEF SubmitCreate, SubmitEnds, UpdateJob
    <3>3. SlotInv'
      BY <3>1 DEF SubmitCreate, SubmitEnds, UpdateJob
    <3>4. ContainerInv'
      BY <3>1 DEF SubmitCreate, SubmitEnds, UpdateJob
    <3>5. HeldInv'
      BY <3>1 DEF SubmitCreate, SubmitEnds, UpdateJob
    <3>6. VerdictInv'
      BY <3>1 DEF SubmitCreate, SubmitEnds, UpdateJob
    <3>7. CompletedHasCheckpoint'
      BY <3>1 DEF SubmitCreate, SubmitEnds, UpdateJob
    <3> QED
      BY <3>2, <3>3, <3>4, <3>5, <3>6, <3>7
  <2>4. CASE \E j \in Jobs : SweepFail(j) /\ UNCHANGED workerVars
    <3> PICK j \in Jobs : SweepFail(j) /\ UNCHANGED workerVars
      BY <2>4
    <3>1. CopiesInv'
      BY DEF SweepFail, UpdateJob, IsFirst
    <3>2. SlotInv'
      BY DEF SweepFail, UpdateJob, IsFirst
    <3>3. ContainerInv'
      BY DEF SweepFail, UpdateJob, IsFirst
    <3>4. HeldInv'
      BY DEF SweepFail, UpdateJob, IsFirst
    <3>5. VerdictInv'
      BY DEF SweepFail, UpdateJob, IsFirst
    <3>6. CompletedHasCheckpoint'
      BY DEF SweepFail, UpdateJob, IsFirst
    <3> QED
      BY <3>1, <3>2, <3>3, <3>4, <3>5, <3>6
  <2>5. CASE \E r \in CancelRequests : CancelWrite(r) /\ UNCHANGED workerVars
    <3> PICK r \in CancelRequests : CancelWrite(r) /\ UNCHANGED workerVars
      BY <2>5
    <3>1. LET doc == RequestCancel(cancels[r].doc)
        IN  doc.status = cancels[r].doc.status /\ doc.cancel = "yes"
      BY FieldFrame DEF Cancellation
    <3>2. CopiesInv'
      BY <3>1 DEF CancelWrite, UpdateJob
    <3>3. SlotInv'
      BY <3>1 DEF CancelWrite, UpdateJob
    <3>4. ContainerInv'
      BY <3>1 DEF CancelWrite, UpdateJob
    <3>5. HeldInv'
      BY <3>1 DEF CancelWrite, UpdateJob
    <3>6. VerdictInv'
      BY <3>1 DEF CancelWrite, UpdateJob
    <3>7. CompletedHasCheckpoint'
      <4>1. /\ jobs' = [jobs EXCEPT ![cancels[r].job] = RequestCancel(cancels[r].doc)]
            /\ RequestCancel(cancels[r].doc).status # "completed"
            /\ UNCHANGED <<containers, checkpoints>>
            /\ jobs \in [Jobs -> Job]
        BY <3>1 DEF CancelWrite, UpdateJob
      <4> QED
        BY <4>1 DEF CompletedHasCheckpoint
    <3> QED
      BY <3>2, <3>3, <3>4, <3>5, <3>6, <3>7
  <2>6. CASE \E r \in CancelRequests, j \in Jobs : CancelRead(r, j) /\ UNCHANGED workerVars
    <3> PICK r \in CancelRequests, j \in Jobs : CancelRead(r, j) /\ UNCHANGED workerVars
      BY <2>6
    <3>1. CopiesInv'
      BY DEF CancelRead, CanRequestCancel
    <3>2. SlotInv'
      BY DEF CancelRead, CanRequestCancel
    <3>3. ContainerInv'
      BY DEF CancelRead, CanRequestCancel
    <3>4. HeldInv'
      BY DEF CancelRead, CanRequestCancel
    <3>5. VerdictInv'
      BY DEF CancelRead, CanRequestCancel
    <3>6. CompletedHasCheckpoint'
      BY DEF CancelRead, CanRequestCancel
    <3> QED
      BY <3>1, <3>2, <3>3, <3>4, <3>5, <3>6
  <2>7. CASE \E u \in Users : PasswordRead(u) /\ UNCHANGED workerVars
    <3> PICK u \in Users : PasswordRead(u) /\ UNCHANGED workerVars
      BY <2>7
    <3>1. CopiesInv'
      BY DEF PasswordRead
    <3>2. SlotInv'
      BY DEF PasswordRead
    <3>3. ContainerInv'
      BY DEF PasswordRead
    <3>4. HeldInv'
      BY DEF PasswordRead
    <3>5. VerdictInv'
      BY DEF PasswordRead
    <3>6. CompletedHasCheckpoint'
      BY DEF PasswordRead
    <3> QED
      BY <3>1, <3>2, <3>3, <3>4, <3>5, <3>6
  <2>8. CASE \E u \in Users : PasswordWrite(u) /\ UNCHANGED workerVars
    <3> PICK u \in Users : PasswordWrite(u) /\ UNCHANGED workerVars
      BY <2>8
    <3>1. CopiesInv'
      BY DEF PasswordWrite
    <3>2. SlotInv'
      BY DEF PasswordWrite
    <3>3. ContainerInv'
      BY DEF PasswordWrite
    <3>4. HeldInv'
      BY DEF PasswordWrite
    <3>5. VerdictInv'
      BY DEF PasswordWrite
    <3>6. CompletedHasCheckpoint'
      BY DEF PasswordWrite
    <3> QED
      BY <3>1, <3>2, <3>3, <3>4, <3>5, <3>6
  <2>9. CASE SweepList /\ UNCHANGED workerVars
    <3>1. \A j \in Jobs : LET doc == Failed(jobs[j], "timeout")
        IN  doc.status = "failed" /\ doc.error = "timeout" /\ doc.hb = NoHeartbeat
      BY FailedType DEF ErrorMessage
    <3>2. NoJob.status = "absent"
      BY DEF NoJob
    <3>3. CopiesInv'
      BY <2>9, <3>1, <3>2 DEF SweepList, ListByStatuses, IsTimedOut
    <3>4. SlotInv'
      BY <2>9, <3>1, <3>2 DEF SweepList, ListByStatuses, IsTimedOut
    <3>5. ContainerInv'
      BY <2>9, <3>1, <3>2 DEF SweepList, ListByStatuses, IsTimedOut
    <3>6. HeldInv'
      BY <2>9, <3>1, <3>2 DEF SweepList, ListByStatuses, IsTimedOut
    <3>7. VerdictInv'
      BY <2>9, <3>1, <3>2 DEF SweepList, ListByStatuses, IsTimedOut
    <3>8. CompletedHasCheckpoint'
      BY <2>9, <3>1, <3>2 DEF SweepList, ListByStatuses, IsTimedOut
    <3> QED
      BY <3>3, <3>4, <3>5, <3>6, <3>7, <3>8
  <2> QED
    BY <1>1, <2>1, <2>2, <2>3, <2>4, <2>5, <2>6, <2>7, <2>8, <2>9
    DEF BackendStep, BackendNext
<1>2. CASE WorkerTakesStep
  <2> USE DEF LocalsAreReset, NoBatch, Goto, Dies
  <2>1. CASE WorkerStart /\ UNCHANGED backendVars
    <3>1. CopiesInv'
      BY <2>1 DEF WorkerStart
    <3>2. SlotInv'
      BY <2>1 DEF WorkerStart
    <3>3. ContainerInv'
      BY <2>1 DEF WorkerStart
    <3>4. HeldInv'
      BY <2>1 DEF WorkerStart
    <3>5. VerdictInv'
      BY <2>1 DEF WorkerStart
    <3>6. CompletedHasCheckpoint'
      BY <2>1 DEF WorkerStart
    <3> QED
      BY <3>1, <3>2, <3>3, <3>4, <3>5, <3>6
  <2>2. CASE ReconcileList /\ UNCHANGED backendVars
    <3>1. CopiesInv'
      BY <2>2 DEF ReconcileList
    <3>2. SlotInv'
      BY <2>2 DEF ReconcileList
    <3>3. ContainerInv'
      BY <2>2 DEF ReconcileList
    <3>4. HeldInv'
      BY <2>2 DEF ReconcileList
    <3>5. VerdictInv'
      BY <2>2 DEF ReconcileList
    <3>6. CompletedHasCheckpoint'
      BY <2>2 DEF ReconcileList
    <3> QED
      BY <3>1, <3>2, <3>3, <3>4, <3>5, <3>6
  <2>3. CASE \E j \in Jobs : KillOrphan(j) /\ UNCHANGED backendVars
    <3> PICK j \in Jobs : KillOrphan(j) /\ UNCHANGED backendVars
      BY <2>3
    <3>1. CopiesInv'
      BY DEF KillOrphan, DockerKill
    <3>2. SlotInv'
      BY DEF KillOrphan, DockerKill
    <3>3. ContainerInv'
      BY DEF KillOrphan, DockerKill
    <3>4. HeldInv'
      BY DEF KillOrphan, DockerKill
    <3>5. VerdictInv'
      BY DEF KillOrphan, DockerKill
    <3>6. CompletedHasCheckpoint'
      BY DEF KillOrphan, DockerKill
    <3> QED
      BY <3>1, <3>2, <3>3, <3>4, <3>5, <3>6
  <2>4. CASE ReconcileDone /\ UNCHANGED backendVars
    <3>1. CopiesInv'
      BY <2>4 DEF ReconcileDone
    <3>2. SlotInv'
      BY <2>4 DEF ReconcileDone
    <3>3. ContainerInv'
      BY <2>4 DEF ReconcileDone
    <3>4. HeldInv'
      BY <2>4 DEF ReconcileDone
    <3>5. VerdictInv'
      BY <2>4 DEF ReconcileDone
    <3>6. CompletedHasCheckpoint'
      BY <2>4 DEF ReconcileDone
    <3> QED
      BY <3>1, <3>2, <3>3, <3>4, <3>5, <3>6
  <2>5. CASE CancelList /\ UNCHANGED backendVars
    <3>1. \A j \in Jobs : LET doc == [jobs[j] EXCEPT !.hb = NoHeartbeat]
        IN  doc.status = jobs[j].status /\ doc.cancel = jobs[j].cancel
      BY FieldFrame
    <3>2. CopiesInv'
      BY <2>5, <3>1 DEF CancelList
    <3>3. SlotInv'
      BY <2>5, <3>1 DEF CancelList
    <3>4. ContainerInv'
      BY <2>5, <3>1 DEF CancelList
    <3>5. HeldInv'
      BY <2>5, <3>1 DEF CancelList
    <3>6. VerdictInv'
      BY <2>5, <3>1 DEF CancelList
    <3>7. CompletedHasCheckpoint'
      BY <2>5, <3>1 DEF CancelList
    <3> QED
      BY <3>2, <3>3, <3>4, <3>5, <3>6, <3>7
  <2>6. CASE \E j \in Jobs : CancelNext(j) /\ UNCHANGED backendVars
    <3> PICK j \in Jobs : CancelNext(j) /\ UNCHANGED backendVars
      BY <2>6
    <3>1. CopiesInv'
      BY DEF CancelNext, DockerKill, IsFirst
    <3>2. SlotInv'
      BY DEF CancelNext, DockerKill, IsFirst
    <3>3. ContainerInv'
      BY DEF CancelNext, DockerKill, IsFirst
    <3>4. HeldInv'
      BY DEF CancelNext, DockerKill, IsFirst
    <3>5. VerdictInv'
      BY DEF CancelNext, DockerKill, IsFirst
    <3>6. CompletedHasCheckpoint'
      BY DEF CancelNext, DockerKill, IsFirst
    <3> QED
      BY <3>1, <3>2, <3>3, <3>4, <3>5, <3>6
  <2>7. CASE CancelRm /\ UNCHANGED backendVars
    <3>1. CopiesInv'
      BY <2>7 DEF CancelRm, RemoveJobDir
    <3>2. SlotInv'
      BY <2>7 DEF CancelRm, RemoveJobDir
    <3>3. ContainerInv'
      BY <2>7 DEF CancelRm, RemoveJobDir
    <3>4. HeldInv'
      BY <2>7 DEF CancelRm, RemoveJobDir
    <3>5. VerdictInv'
      BY <2>7 DEF CancelRm, RemoveJobDir
    <3>6. CompletedHasCheckpoint'
      BY <2>7 DEF CancelRm, RemoveJobDir
    <3> QED
      BY <3>1, <3>2, <3>3, <3>4, <3>5, <3>6
  <2>8. CASE CancelUpdate /\ UNCHANGED backendVars
    <3>1. LET doc == Transition(wdoc, "cancelled")
        IN  doc.status = "cancelled" /\ doc.cancel = wdoc.cancel /\ doc.hb = NoHeartbeat
      BY TransitionType DEF JobStatus
    <3>2. CopiesInv'
      BY <2>8, <3>1 DEF CancelUpdate, UpdateJob
    <3>3. SlotInv'
      BY <2>8, <3>1 DEF CancelUpdate, UpdateJob
    <3>4. ContainerInv'
      BY <2>8, <3>1 DEF CancelUpdate, UpdateJob
    <3>5. HeldInv'
      BY <2>8, <3>1 DEF CancelUpdate, UpdateJob
    <3>6. VerdictInv'
      BY <2>8, <3>1 DEF CancelUpdate, UpdateJob
    <3>7. CompletedHasCheckpoint'
      BY <2>8, <3>1 DEF CancelUpdate, UpdateJob
    <3> QED
      BY <3>2, <3>3, <3>4, <3>5, <3>6, <3>7
  <2>9. CASE CancelDone /\ UNCHANGED backendVars
    <3>1. CopiesInv'
      BY <2>9 DEF CancelDone
    <3>2. SlotInv'
      BY <2>9 DEF CancelDone
    <3>3. ContainerInv'
      BY <2>9 DEF CancelDone
    <3>4. HeldInv'
      BY <2>9 DEF CancelDone
    <3>5. VerdictInv'
      BY <2>9 DEF CancelDone
    <3>6. CompletedHasCheckpoint'
      BY <2>9 DEF CancelDone
    <3> QED
      BY <3>1, <3>2, <3>3, <3>4, <3>5, <3>6
  <2>10. CASE CheckActive /\ UNCHANGED backendVars
    <3>1. CopiesInv'
      BY <2>10 DEF CheckActive, ListByStatuses
    <3>2. SlotInv'
      BY <2>10 DEF CheckActive, ListByStatuses
    <3>3. ContainerInv'
      BY <2>10 DEF CheckActive, ListByStatuses
    <3>4. HeldInv'
      BY <2>10 DEF CheckActive, ListByStatuses
    <3>5. VerdictInv'
      BY <2>10 DEF CheckActive, ListByStatuses
    <3>6. CompletedHasCheckpoint'
      BY <2>10 DEF CheckActive, ListByStatuses
    <3> QED
      BY <3>1, <3>2, <3>3, <3>4, <3>5, <3>6
  <2>11. CASE ListQueued /\ UNCHANGED backendVars
    <3>1. \A j \in Jobs : LET doc == Transition(jobs[j], "initializing")
        IN  doc \in Job /\ doc.status = "initializing" /\ doc.cancel = jobs[j].cancel
      BY TransitionType DEF JobStatus
    <3>2. ASSUME NEW j \in Jobs
          PROVE  LET doc == MarkAlive(Transition(jobs[j], "initializing"))
                 IN  doc.status = "initializing" /\ doc.cancel = jobs[j].cancel
      <4> DEFINE moved == Transition(jobs[j], "initializing")
      <4>1. moved \in Job /\ moved.status = "initializing" /\ moved.cancel = jobs[j].cancel
        BY <3>1
      <4> HIDE DEF moved
      <4>2. MarkAlive(moved).status = "initializing" /\ MarkAlive(moved).cancel = jobs[j].cancel
        BY <4>1, MarkAliveType
      <4> QED
        BY <4>2 DEF moved
    <3>3. CopiesInv'
      BY <2>11, <3>1, <3>2 DEF ListQueued, ListByStatuses, IsFirst
    <3>4. SlotInv'
      BY <2>11, <3>1, <3>2 DEF ListQueued, ListByStatuses, IsFirst
    <3>5. ContainerInv'
      BY <2>11, <3>1, <3>2 DEF ListQueued, ListByStatuses, IsFirst
    <3>6. HeldInv'
      BY <2>11, <3>1, <3>2 DEF ListQueued, ListByStatuses, IsFirst
    <3>7. VerdictInv'
      BY <2>11, <3>1, <3>2 DEF ListQueued, ListByStatuses, IsFirst
    <3>8. CompletedHasCheckpoint'
      BY <2>11, <3>1, <3>2 DEF ListQueued, ListByStatuses, IsFirst
    <3> QED
      BY <3>3, <3>4, <3>5, <3>6, <3>7, <3>8
  <2>12. CASE MarkInitializing /\ UNCHANGED backendVars
    <3>1. CopiesInv'
      BY <2>12 DEF MarkInitializing, UpdateJob
    <3>2. SlotInv'
      BY <2>12 DEF MarkInitializing, UpdateJob
    <3>3. ContainerInv'
      BY <2>12 DEF MarkInitializing, UpdateJob
    <3>4. HeldInv'
      BY <2>12 DEF MarkInitializing, UpdateJob
    <3>5. VerdictInv'
      BY <2>12 DEF MarkInitializing, UpdateJob
    <3>6. CompletedHasCheckpoint'
      BY <2>12 DEF MarkInitializing, UpdateJob
    <3> QED
      BY <3>1, <3>2, <3>3, <3>4, <3>5, <3>6
  <2>13. CASE ChargeQuota /\ UNCHANGED backendVars
    <3>1. CopiesInv'
      BY <2>13 DEF ChargeQuota, UpdateUser
    <3>2. SlotInv'
      BY <2>13 DEF ChargeQuota, UpdateUser
    <3>3. ContainerInv'
      BY <2>13 DEF ChargeQuota, UpdateUser
    <3>4. HeldInv'
      BY <2>13 DEF ChargeQuota, UpdateUser
    <3>5. VerdictInv'
      BY <2>13 DEF ChargeQuota, UpdateUser
    <3>6. CompletedHasCheckpoint'
      BY <2>13 DEF ChargeQuota, UpdateUser
    <3> QED
      BY <3>1, <3>2, <3>3, <3>4, <3>5, <3>6
  <2>14. CASE FetchDataset /\ UNCHANGED backendVars
    <3>1. CopiesInv'
      BY <2>14 DEF FetchDataset
    <3>2. SlotInv'
      BY <2>14 DEF FetchDataset
    <3>3. ContainerInv'
      BY <2>14 DEF FetchDataset
    <3>4. HeldInv'
      BY <2>14 DEF FetchDataset
    <3>5. VerdictInv'
      BY <2>14 DEF FetchDataset
    <3>6. CompletedHasCheckpoint'
      BY <2>14 DEF FetchDataset
    <3> QED
      BY <3>1, <3>2, <3>3, <3>4, <3>5, <3>6
  <2>15. CASE DockerRun /\ UNCHANGED backendVars
    <3>1. LET doc == [wdoc EXCEPT !.container = "id"]
        IN  doc.status = wdoc.status /\ doc.cancel = wdoc.cancel
      BY FieldFrame
    <3>2. wdoc'.status = wdoc.status /\ wdoc'.cancel = wdoc.cancel
      BY <2>15, <3>1 DEF DockerRun
    <3>3. CopiesInv'
      BY <2>15, <3>1, <3>2 DEF DockerRun
    <3>4. SlotInv'
      BY <2>15, <3>1, <3>2 DEF DockerRun
    <3>5. ContainerInv'
      <4>1. /\ jobs' = jobs
            /\ workdir' = workdir \cup {wjob}
            /\ \A j \in Jobs : j # wjob => containers'[j] = containers[j]
            /\ wjob \in Jobs /\ (UncancelledRunning(wjob) \/ Excused(wjob))
        BY <2>15 DEF DockerRun
      <4>2. /\ jobs[wjob].status = "queued" => CancelRequested(jobs[wjob])
        BY <4>1
      <4> HIDE DEF TypeOK, StoreTypeOK, BackendTypeOK, WorkerTypeOK, CopiesInv, SlotInv,
                   HeldInv, VerdictInv, CompletedHasCheckpoint
      <4> QED
        BY <4>1, <4>2
    <3>6. HeldInv'
      BY <2>15, <3>1, <3>2 DEF DockerRun
    <3>7. VerdictInv'
      BY <2>15, <3>1, <3>2 DEF DockerRun
    <3>8. CompletedHasCheckpoint'
      BY <2>15, <3>1, <3>2 DEF DockerRun
    <3> QED
      BY <3>3, <3>4, <3>5, <3>6, <3>7, <3>8
  <2>16. CASE RecordContainer /\ UNCHANGED backendVars
    <3>1. CopiesInv'
      BY <2>16 DEF RecordContainer, UpdateJob
    <3>2. SlotInv'
      BY <2>16 DEF RecordContainer, UpdateJob
    <3>3. ContainerInv'
      BY <2>16 DEF RecordContainer, UpdateJob
    <3>4. HeldInv'
      BY <2>16 DEF RecordContainer, UpdateJob
    <3>5. VerdictInv'
      BY <2>16 DEF RecordContainer, UpdateJob
    <3>6. CompletedHasCheckpoint'
      BY <2>16 DEF RecordContainer, UpdateJob
    <3> QED
      BY <3>1, <3>2, <3>3, <3>4, <3>5, <3>6
  <2>17. CASE FailDuringStart /\ UNCHANGED backendVars
    <3>1. \A e \in ErrorMessage : LET doc == Failed(wdoc, e)
        IN  /\ doc.status = "failed" /\ doc.error = e
            /\ doc.cancel = wdoc.cancel /\ doc.hb = NoHeartbeat
      BY FailedType
    <3>2. CopiesInv'
      BY <2>17, <3>1 DEF FailDuringStart, UpdateJob, ErrorMessage
    <3>3. SlotInv'
      BY <2>17, <3>1 DEF FailDuringStart, UpdateJob, ErrorMessage
    <3>4. ContainerInv'
      BY <2>17, <3>1 DEF FailDuringStart, UpdateJob, ErrorMessage
    <3>5. HeldInv'
      BY <2>17, <3>1 DEF FailDuringStart, UpdateJob, ErrorMessage
    <3>6. VerdictInv'
      BY <2>17, <3>1 DEF FailDuringStart, UpdateJob, ErrorMessage
    <3>7. CompletedHasCheckpoint'
      BY <2>17, <3>1 DEF FailDuringStart, UpdateJob, ErrorMessage
    <3> QED
      BY <3>2, <3>3, <3>4, <3>5, <3>6, <3>7
  <2>18. CASE MonitorList /\ UNCHANGED backendVars
    <3>1. CopiesInv'
      BY <2>18 DEF MonitorList, ListByStatuses, IsFirst
    <3>2. SlotInv'
      BY <2>18 DEF MonitorList, ListByStatuses, IsFirst
    <3>3. ContainerInv'
      BY <2>18 DEF MonitorList, ListByStatuses, IsFirst
    <3>4. HeldInv'
      BY <2>18 DEF MonitorList, ListByStatuses, IsFirst
    <3>5. VerdictInv'
      BY <2>18 DEF MonitorList, ListByStatuses, IsFirst
    <3>6. CompletedHasCheckpoint'
      BY <2>18 DEF MonitorList, ListByStatuses, IsFirst
    <3> QED
      BY <3>1, <3>2, <3>3, <3>4, <3>5, <3>6
  <2>19. CASE Inspect /\ UNCHANGED backendVars
    <3>1. CopiesInv'
      BY <2>19 DEF Inspect, Proceed, HeartbeatStep, AfterHeartbeat, ExitCodeOf
    <3>2. SlotInv'
      BY <2>19 DEF Inspect, Proceed, HeartbeatStep, AfterHeartbeat, ExitCodeOf
    <3>3. ContainerInv'
      BY <2>19 DEF Inspect, Proceed, HeartbeatStep, AfterHeartbeat, ExitCodeOf
    <3>4. HeldInv'
      BY <2>19 DEF Inspect, Proceed, HeartbeatStep, AfterHeartbeat, ExitCodeOf
    <3>5. VerdictInv'
      BY <2>19 DEF Inspect, Proceed, HeartbeatStep, AfterHeartbeat, ExitCodeOf
    <3>6. CompletedHasCheckpoint'
      BY <2>19 DEF Inspect, Proceed, HeartbeatStep, AfterHeartbeat, ExitCodeOf
    <3> QED
      BY <3>1, <3>2, <3>3, <3>4, <3>5, <3>6
  <2>20. CASE MarkTraining /\ UNCHANGED backendVars
    <3>1. LET doc == Transition(wdoc, "training")
        IN  doc.status = "training" /\ doc.cancel = wdoc.cancel
      BY TransitionType DEF JobStatus
    <3>2. CopiesInv'
      BY <2>20, <3>1 DEF MarkTraining, Proceed, AfterHeartbeat, UpdateJob
    <3>3. SlotInv'
      BY <2>20, <3>1 DEF MarkTraining, Proceed, AfterHeartbeat, UpdateJob
    <3>4. ContainerInv'
      BY <2>20, <3>1 DEF MarkTraining, Proceed, AfterHeartbeat, UpdateJob
    <3>5. HeldInv'
      BY <2>20, <3>1 DEF MarkTraining, Proceed, AfterHeartbeat, UpdateJob
    <3>6. VerdictInv'
      BY <2>20, <3>1 DEF MarkTraining, Proceed, AfterHeartbeat, UpdateJob
    <3>7. CompletedHasCheckpoint'
      BY <2>20, <3>1 DEF MarkTraining, Proceed, AfterHeartbeat, UpdateJob
    <3> QED
      BY <3>2, <3>3, <3>4, <3>5, <3>6, <3>7
  <2>21. CASE RecordProgress /\ UNCHANGED backendVars
    <3>1. LET doc == MarkAlive([wdoc EXCEPT !.progress = wprog])
          IN  doc \in Job /\ doc.status = wdoc.status /\ doc.cancel = wdoc.cancel
      BY ProgressType
    <3>2. CopiesInv'
      BY <2>21, <3>1 DEF RecordProgress, Proceed, AfterHeartbeat, UpdateJob
    <3>3. SlotInv'
      BY <2>21, <3>1 DEF RecordProgress, Proceed, AfterHeartbeat, UpdateJob
    <3>4. ContainerInv'
      <4> DEFINE doc == MarkAlive([wdoc EXCEPT !.progress = wprog])
      <4>1. /\ jobs' = [jobs EXCEPT ![wjob] = doc]
            /\ jobs \in [Jobs -> Job] /\ wjob \in Jobs
            /\ doc.status = "training"
            /\ UNCHANGED <<containers, workdir>>
        BY <2>21, <3>1 DEF RecordProgress, UpdateJob
      <4> HIDE DEF doc
      <4> HIDE DEF TypeOK, StoreTypeOK, BackendTypeOK, WorkerTypeOK, CopiesInv, SlotInv,
                   HeldInv, VerdictInv, CompletedHasCheckpoint
      <4> QED
        BY <4>1
    <3>5. HeldInv'
      BY <2>21, <3>1 DEF RecordProgress, Proceed, AfterHeartbeat, UpdateJob
    <3>6. VerdictInv'
      <4> DEFINE doc == MarkAlive([wdoc EXCEPT !.progress = wprog])
      <4>1. /\ jobs' = [jobs EXCEPT ![wjob] = doc]
            /\ jobs \in [Jobs -> Job] /\ wjob \in Jobs
            /\ doc.status = "training"
            /\ pc' # "cancel" => wjob' = wjob
            /\ VerdictInv
        BY <2>21, <3>1 DEF RecordProgress, UpdateJob, Proceed
      <4>2. pc' \in StartPCs \cup MonitorPCs => wjob' = wjob
        BY <4>1
      <4> HIDE DEF doc, TypeOK, StoreTypeOK, BackendTypeOK, WorkerTypeOK, IInv
      <4> QED
        BY <4>1, <4>2
    <3>7. CompletedHasCheckpoint'
      BY <2>21, <3>1 DEF RecordProgress, Proceed, AfterHeartbeat, UpdateJob
    <3> QED
      BY <3>2, <3>3, <3>4, <3>5, <3>6, <3>7
  <2>22. CASE MarkContainerAlive /\ UNCHANGED backendVars
    <3>1. MarkAlive(wdoc).status = wdoc.status /\ MarkAlive(wdoc).cancel = wdoc.cancel
      BY MarkAliveType
    <3>2. CopiesInv'
      BY <2>22, <3>1 DEF MarkContainerAlive, UpdateJob
    <3>3. SlotInv'
      BY <2>22, <3>1 DEF MarkContainerAlive, UpdateJob
    <3>4. ContainerInv'
      BY <2>22, <3>1 DEF MarkContainerAlive, UpdateJob
    <3>5. HeldInv'
      BY <2>22, <3>1 DEF MarkContainerAlive, UpdateJob
    <3>6. VerdictInv'
      BY <2>22, <3>1 DEF MarkContainerAlive, UpdateJob
    <3>7. CompletedHasCheckpoint'
      BY <2>22, <3>1 DEF MarkContainerAlive, UpdateJob
    <3> QED
      BY <3>2, <3>3, <3>4, <3>5, <3>6, <3>7
  <2>23. CASE FinalizeTraining /\ UNCHANGED backendVars
    <3>1. LET doc == Transition(wdoc, "training")
        IN  doc.status = "training" /\ doc.cancel = wdoc.cancel
      BY TransitionType DEF JobStatus
    <3>2. CopiesInv'
      BY <2>23, <3>1 DEF FinalizeTraining, Proceed, AfterHeartbeat, UpdateJob
    <3>3. SlotInv'
      BY <2>23, <3>1 DEF FinalizeTraining, Proceed, AfterHeartbeat, UpdateJob
    <3>4. ContainerInv'
      BY <2>23, <3>1 DEF FinalizeTraining, Proceed, AfterHeartbeat, UpdateJob
    <3>5. HeldInv'
      BY <2>23, <3>1 DEF FinalizeTraining, Proceed, AfterHeartbeat, UpdateJob
    <3>6. VerdictInv'
      BY <2>23, <3>1 DEF FinalizeTraining, Proceed, AfterHeartbeat, UpdateJob
    <3>7. CompletedHasCheckpoint'
      BY <2>23, <3>1 DEF FinalizeTraining, Proceed, AfterHeartbeat, UpdateJob
    <3> QED
      BY <3>2, <3>3, <3>4, <3>5, <3>6, <3>7
  <2>24. CASE PackageAndUpload /\ UNCHANGED backendVars
    <3>1. CopiesInv'
      BY <2>24 DEF PackageAndUpload
    <3>2. SlotInv'
      BY <2>24 DEF PackageAndUpload
    <3>3. ContainerInv'
      BY <2>24 DEF PackageAndUpload
    <3>4. HeldInv'
      BY <2>24 DEF PackageAndUpload
    <3>5. VerdictInv'
      BY <2>24 DEF PackageAndUpload
    <3>6. CompletedHasCheckpoint'
      BY <2>24 DEF PackageAndUpload
    <3> QED
      BY <3>1, <3>2, <3>3, <3>4, <3>5, <3>6
  <2>25. CASE MarkCompleted /\ UNCHANGED backendVars
    <3>1. LET doc == Completed(wdoc)
        IN  /\ doc.status = "completed" /\ doc.checkpoint = "path"
            /\ doc.cancel = wdoc.cancel /\ doc.hb = NoHeartbeat
      BY CompletedType
    <3>2. CopiesInv'
      BY <2>25, <3>1 DEF MarkCompleted, UpdateJob
    <3>3. SlotInv'
      BY <2>25, <3>1 DEF MarkCompleted, UpdateJob
    <3>4. ContainerInv'
      BY <2>25, <3>1 DEF MarkCompleted, UpdateJob
    <3>5. HeldInv'
      BY <2>25, <3>1 DEF MarkCompleted, UpdateJob
    <3>6. VerdictInv'
      BY <2>25, <3>1 DEF MarkCompleted, UpdateJob
    <3>7. CompletedHasCheckpoint'
      BY <2>25, <3>1 DEF MarkCompleted, UpdateJob
    <3> QED
      BY <3>2, <3>3, <3>4, <3>5, <3>6, <3>7
  <2>26. CASE MarkFailed /\ UNCHANGED backendVars
    <3>1. \A e \in ErrorMessage : LET doc == Failed(wdoc, e)
        IN  /\ doc.status = "failed" /\ doc.error = e
            /\ doc.cancel = wdoc.cancel /\ doc.hb = NoHeartbeat
      BY FailedType
    <3>2. CopiesInv'
      BY <2>26, <3>1 DEF MarkFailed, UpdateJob, ErrorMessage
    <3>3. SlotInv'
      BY <2>26, <3>1 DEF MarkFailed, UpdateJob, ErrorMessage
    <3>4. ContainerInv'
      <4> DEFINE doc == Failed(wdoc, "other")
      <4>1. /\ jobs' = [jobs EXCEPT ![wjob] = doc]
            /\ jobs \in [Jobs -> Job] /\ wjob \in Jobs
            /\ doc.status = "failed"
            /\ UNCHANGED <<containers, workdir>>
            /\ containers[wjob] # "running"
        BY <2>26, <3>1 DEF MarkFailed, UpdateJob, ErrorMessage, ExitCode
      <4> HIDE DEF doc
      <4> HIDE DEF TypeOK, StoreTypeOK, BackendTypeOK, WorkerTypeOK, CopiesInv, SlotInv,
                   HeldInv, VerdictInv, CompletedHasCheckpoint
      <4> QED
        BY <4>1
    <3>5. HeldInv'
      BY <2>26, <3>1 DEF MarkFailed, UpdateJob, ErrorMessage
    <3>6. VerdictInv'
      BY <2>26, <3>1 DEF MarkFailed, UpdateJob, ErrorMessage
    <3>7. CompletedHasCheckpoint'
      BY <2>26, <3>1 DEF MarkFailed, UpdateJob, ErrorMessage
    <3> QED
      BY <3>2, <3>3, <3>4, <3>5, <3>6, <3>7
  <2>27. CASE MarkUploadFailed /\ UNCHANGED backendVars
    <3>1. \A e \in ErrorMessage : LET doc == Failed(wdoc, e)
        IN  /\ doc.status = "failed" /\ doc.error = e
            /\ doc.cancel = wdoc.cancel /\ doc.hb = NoHeartbeat
      BY FailedType
    <3>2. CopiesInv'
      BY <2>27, <3>1 DEF MarkUploadFailed, UpdateJob, ErrorMessage
    <3>3. SlotInv'
      BY <2>27, <3>1 DEF MarkUploadFailed, UpdateJob, ErrorMessage
    <3>4. ContainerInv'
      BY <2>27, <3>1 DEF MarkUploadFailed, UpdateJob, ErrorMessage
    <3>5. HeldInv'
      BY <2>27, <3>1 DEF MarkUploadFailed, UpdateJob, ErrorMessage
    <3>6. VerdictInv'
      BY <2>27, <3>1 DEF MarkUploadFailed, UpdateJob, ErrorMessage
    <3>7. CompletedHasCheckpoint'
      BY <2>27, <3>1 DEF MarkUploadFailed, UpdateJob, ErrorMessage
    <3> QED
      BY <3>2, <3>3, <3>4, <3>5, <3>6, <3>7
  <2>28. CASE CleanupJobDir /\ UNCHANGED backendVars
    <3>1. CopiesInv'
      BY <2>28 DEF CleanupJobDir, RemoveJobDir
    <3>2. SlotInv'
      BY <2>28 DEF CleanupJobDir, RemoveJobDir
    <3>3. ContainerInv'
      <4>1. /\ UNCHANGED <<jobs, containers>>
            /\ workdir' = workdir \ {wjob}
            /\ containers[wjob] # "running"
        BY <2>28 DEF CleanupJobDir, RemoveJobDir, ExitCode
      <4> HIDE DEF TypeOK, StoreTypeOK, BackendTypeOK, WorkerTypeOK, CopiesInv, SlotInv,
                   HeldInv, VerdictInv, CompletedHasCheckpoint
      <4> QED
        BY <4>1
    <3>4. HeldInv'
      BY <2>28 DEF CleanupJobDir, RemoveJobDir
    <3>5. VerdictInv'
      BY <2>28 DEF CleanupJobDir, RemoveJobDir
    <3>6. CompletedHasCheckpoint'
      BY <2>28 DEF CleanupJobDir, RemoveJobDir
    <3> QED
      BY <3>1, <3>2, <3>3, <3>4, <3>5, <3>6
  <2>29. CASE WorkerCrash /\ UNCHANGED backendVars
    <3>1. CopiesInv'
      BY <2>29 DEF WorkerCrash
    <3>2. SlotInv'
      BY <2>29 DEF WorkerCrash
    <3>3. ContainerInv'
      BY <2>29 DEF WorkerCrash
    <3>4. HeldInv'
      BY <2>29 DEF WorkerCrash
    <3>5. VerdictInv'
      BY <2>29 DEF WorkerCrash
    <3>6. CompletedHasCheckpoint'
      BY <2>29 DEF WorkerCrash
    <3> QED
      BY <3>1, <3>2, <3>3, <3>4, <3>5, <3>6
  <2> QED
    BY <1>2, <2>1, <2>2, <2>3, <2>4, <2>5, <2>6, <2>7, <2>8, <2>9, <2>10, <2>11, <2>12, <2>13, <2>14, <2>15, <2>16, <2>17, <2>18, <2>19, <2>20, <2>21, <2>22, <2>23, <2>24, <2>25, <2>26, <2>27, <2>28, <2>29
    DEF WorkerTakesStep, WorkerStep, Reconcile, ProcessCancellations, StartNextQueuedJob, MonitorTick
<1>3. CASE \E j \in Jobs : ContainerStep(j)
  <2> PICK j \in Jobs : ContainerStep(j)
    BY <1>3
  <2>1. CopiesInv'
    BY DEF ContainerStep, ContainerProgress, ContainerSucceeds, ContainerFails
  <2>2. SlotInv'
    BY DEF ContainerStep, ContainerProgress, ContainerSucceeds, ContainerFails
  <2>3. ContainerInv'
    BY DEF ContainerStep, ContainerProgress, ContainerSucceeds, ContainerFails
  <2>4. HeldInv'
    <3>1. /\ UNCHANGED <<jobs, checkpoints, pc, wjob, wdoc, wexit>>
          /\ \A i \in Jobs : i # j => containers'[i] = containers[i]
          /\ containers[j] = "running" /\ containers'[j] \in {"running", "ok", "err"}
      BY DEF ContainerStep, ContainerProgress, ContainerSucceeds, ContainerFails
    <3>2. /\ wexit # "none" => wjob # j
          /\ wjob \in Jobs \/ wjob = 0
      BY <3>1 DEF ExitCode
    <3> QED
      BY <3>1, <3>2
  <2>5. VerdictInv'
    BY DEF ContainerStep, ContainerProgress, ContainerSucceeds, ContainerFails
  <2>6. CompletedHasCheckpoint'
    BY DEF ContainerStep, ContainerProgress, ContainerSucceeds, ContainerFails
  <2> QED
    BY <2>1, <2>2, <2>3, <2>4, <2>5, <2>6
<1>4. CASE Advance
  <2>1. \A j \in Jobs : /\ jobs'[j].status = jobs[j].status
                        /\ jobs'[j].cancel = jobs[j].cancel
                        /\ jobs'[j].error = jobs[j].error
                        /\ jobs'[j].checkpoint = jobs[j].checkpoint
                        /\ jobs[j].hb = NoHeartbeat => jobs'[j].hb = NoHeartbeat
    BY <1>4, AgeType DEF Advance
  <2>2. wdoc'.status = wdoc.status /\ wdoc'.cancel = wdoc.cancel
    BY <1>4, AgeType DEF Advance
  <2>3. \A r \in CancelRequests : /\ cancels'[r].at = cancels[r].at
                                  /\ cancels'[r].job = cancels[r].job
                                  /\ cancels'[r].doc.status = cancels[r].doc.status
    BY <1>4, AgeType DEF Advance, Cancellation
  <2>4. /\ containers' = containers /\ workdir' = workdir /\ checkpoints' = checkpoints
        /\ submits' = submits /\ sweep' = sweep /\ batch' = batch
        /\ pc' = pc /\ wjob' = wjob /\ wexit' = wexit
    BY <1>4 DEF Advance
  <2>5. /\ TypeOK /\ CopiesInv /\ SlotInv /\ ContainerInv
        /\ wjob \in Jobs \cup {0} /\ (pc \in StartPCs \cup MonitorPCs => wjob \in Jobs)
        /\ \A r \in CancelRequests : cancels[r].at = "read" => cancels[r].job \in Jobs
    OBVIOUS
  <2> HIDE DEF TypeOK, StoreTypeOK, BackendTypeOK, WorkerTypeOK, IInv
  <2>6. CopiesInv'
    BY <2>1, <2>2, <2>3, <2>4, <2>5
  <2>7. SlotInv'
    BY <2>1, <2>2, <2>4, <2>5
  <2>8. ContainerInv'
    BY <2>1, <2>4, <2>5
  <2> USE DEF TypeOK, StoreTypeOK, BackendTypeOK, WorkerTypeOK, IInv
  <2>9. HeldInv'
    BY <2>1, <2>2, <2>3, <2>4
  <2>10. VerdictInv'
    BY <2>1, <2>2, <2>3, <2>4
  <2>11. CompletedHasCheckpoint'
    BY <2>1, <2>2, <2>3, <2>4
  <2> QED
    BY <2>6, <2>7, <2>8, <2>9, <2>10, <2>11
<1>5. CASE NextDay
  <2>1. CopiesInv'
    BY <1>5 DEF NextDay
  <2>2. SlotInv'
    BY <1>5 DEF NextDay
  <2>3. ContainerInv'
    BY <1>5 DEF NextDay
  <2>4. HeldInv'
    BY <1>5 DEF NextDay
  <2>5. VerdictInv'
    BY <1>5 DEF NextDay
  <2>6. CompletedHasCheckpoint'
    BY <1>5 DEF NextDay
  <2> QED
    BY <2>1, <2>2, <2>3, <2>4, <2>5, <2>6
<1>6. CASE UNCHANGED vars
  <2>1. CopiesInv'
    BY <1>6 DEF vars
  <2>2. SlotInv'
    BY <1>6 DEF vars
  <2>3. ContainerInv'
    BY <1>6 DEF vars
  <2>4. HeldInv'
    BY <1>6 DEF vars
  <2>5. VerdictInv'
    BY <1>6 DEF vars
  <2>6. CompletedHasCheckpoint'
    BY <1>6 DEF vars
  <2> QED
    BY <2>1, <2>2, <2>3, <2>4, <2>5, <2>6
<1> QED
  BY <1>1, <1>2, <1>3, <1>4, <1>5, <1>6 DEF Next

-----------------------------------------------------------------------------
(* What the inductive invariant gives: the safety properties, and that the *)
(* service implements the abstract GpuSlot.                                *)

\* The inductive invariant holds in every reachable state.
THEOREM InvHolds == Spec => []IInv
<1>1. IInv /\ [Next]_vars => IInv'
  BY TypeStep, InvStep DEF IInv
<1> QED
  BY InvInit, <1>1, PTL DEF Spec

-----------------------------------------------------------------------------
(* Invariants.                                                             *)

\* JobPoller's check lets at most one job nobody asked to cancel be
\* initializing or training.
THEOREM OneRunning == Spec => []OneUncancelledRunning
<1>1. IInv => OneUncancelledRunning
  BY DEF IInv, SlotInv
<1> QED
  BY InvHolds, <1>1, PTL

\* A container runs for a running job, or for one that was asked to cancel or
\* failed by the sweep; at most one runs for the jobs that were neither.
THEOREM GpuHeldOnceHolds == Spec => []GpuHeldOnce
<1>1. IInv => GpuHeldOnce
  BY DEF IInv, SlotInv, ContainerInv, OneUncancelledRunning, GpuHeldOnce
<1> QED
  BY InvHolds, <1>1, PTL

\* A completed job has its checkpoint uploaded and its container exited with 0.
THEOREM CheckpointHolds == Spec => []CompletedHasCheckpoint
<1>1. IInv => CompletedHasCheckpoint
  BY DEF IInv
<1> QED
  BY InvHolds, <1>1, PTL

\* No job directory is removed under its running container.
THEOREM WorkdirHolds == Spec => []RunningKeepsWorkdir
<1>1. IInv => RunningKeepsWorkdir
  BY DEF IInv, ContainerInv, RunningKeepsWorkdir
<1> QED
  BY InvHolds, <1>1, PTL

\* The worker never asks the state machine for a transition it refuses.
THEOREM TransitionsLegalHolds == Spec => []TransitionsLegal
<1>1. IInv => TransitionsLegal
  BY DEF IInv, CopiesInv, TransitionsLegal, CanTransition, AllowedTransitions, JobStatus,
         ActiveStatuses, StartPCs
<1> QED
  BY InvHolds, <1>1, PTL

-----------------------------------------------------------------------------
(* Steps.                                                                  *)

\* Who writes a job's document, and what they write: it is created, or a
\* cancellation or a sweep's verdict is written, or the worker writes the copy
\* it holds with the copy's cancel flag, or only its heartbeat ages.
Created(k) == jobs[k].status = "absent" /\ jobs'[k].status = "queued" /\ jobs'[k].cancel = "no"
SweptOrCancelled(k) ==
    \/ jobs'[k].cancel = "yes" /\ ~NobodyCancelled'
    \/ jobs'[k].cancel = "yes" /\ pc = "cancelWrite" /\ jobs'[k].status = "cancelled"
    \/ sweep[k] # NoJob /\ jobs'[k] = sweep[k] /\ jobs'[k].status = "failed" /\ jobs'[k].error = "timeout"
WrittenInHand(k) ==
    /\ pc \in StartPCs \cup MonitorPCs /\ k = wjob /\ jobs'[k].cancel = wdoc.cancel
    /\ \/ jobs'[k].status \in RunningStatuses
       \/ jobs'[k].status = "failed" /\ jobs'[k].error \in {"start", "upload"}
       \/ jobs'[k].status \in TerminalStatuses /\ pc' = "cleanup" /\ wjob' = wjob
OnlyAged(k) ==
    ~Ended(k) /\ jobs'[k].status = jobs[k].status /\ jobs'[k].cancel = jobs[k].cancel

\* A step that changes a job's document creates it, is a cancel request's or
\* the sweep's write, is the worker's write of the job in hand, or only ages it.
LEMMA WhoWrites ==
  ASSUME IInv, TypeOK', [Next]_vars, NEW k \in Jobs, jobs'[k] # jobs[k]
  PROVE  Created(k) \/ SweptOrCancelled(k) \/ WrittenInHand(k) \/ OnlyAged(k)
<1> USE ConstantDocs
<1> USE DEF IInv, TypeOK, StoreTypeOK, BackendTypeOK, WorkerTypeOK, UpdateJob, storeVars,
            StartPCs, MonitorPCs, Goto
<1>1. CASE BackendStep
  <2>1. CASE \E j \in Jobs : SubmitCreate(j)
    <3>1. NewJob.status = "queued" /\ NewJob.cancel = "no"
      BY DEF NewJob, NoJob
    <3> QED
      BY <2>1, <3>1 DEF SubmitCreate, Created, CopiesInv, Submitted
  <2>2. CASE \E j \in Jobs : SweepFail(j)
    BY <2>2 DEF SweepFail, SweptOrCancelled, CopiesInv, IsFirst
  <2>3. CASE \E r \in CancelRequests : CancelWrite(r)
    <3> PICK r \in CancelRequests : CancelWrite(r)
      BY <2>3
    <3>1. RequestCancel(cancels[r].doc).cancel = "yes"
      BY FieldFrame DEF Cancellation
    <3>2. cancels'[r].at = "done"
      BY DEF CancelWrite
    <3> QED
      BY <3>1, <3>2 DEF CancelWrite, SweptOrCancelled, NobodyCancelled
  <2>4. CASE \E j \in Jobs : SubmitReadUser(j) \/ SubmitCheck(j)
    BY <2>4 DEF SubmitReadUser, SubmitCheck
  <2>5. CASE \E r \in CancelRequests, j \in Jobs : CancelRead(r, j)
    BY <2>5 DEF CancelRead
  <2>6. CASE \E u \in Users : PasswordRead(u) \/ PasswordWrite(u)
    BY <2>6 DEF PasswordRead, PasswordWrite
  <2>7. CASE SweepList
    BY <2>7 DEF SweepList
  <2> QED
    BY <1>1, <2>1, <2>2, <2>3, <2>4, <2>5, <2>6, <2>7 DEF BackendStep, BackendNext
<1>2. CASE WorkerTakesStep
  <2>1. CASE Reconcile
    BY <2>1 DEF Reconcile, WorkerStart, ReconcileList, ReconcileDone, KillOrphan
  <2>2. CASE CancelUpdate
    <3>1. /\ Transition(wdoc, "cancelled").cancel = wdoc.cancel
          /\ Transition(wdoc, "cancelled").status = "cancelled"
          /\ wdoc.cancel = "yes"
      BY <2>2, TransitionType DEF JobStatus, CancelUpdate, CopiesInv, CancelRequested
    <3> QED
      BY <2>2, <3>1 DEF CancelUpdate, SweptOrCancelled
  <2>3. CASE CancelList \/ CancelRm \/ CancelDone \/ \E j \in Jobs : CancelNext(j)
    BY <2>3 DEF CancelList, CancelRm, CancelDone, CancelNext
  <2>4. CASE CheckActive \/ ListQueued \/ ChargeQuota \/ FetchDataset \/ DockerRun
    BY <2>4 DEF CheckActive, ListQueued, ChargeQuota, FetchDataset, DockerRun
  <2>5. CASE MarkInitializing \/ RecordContainer
    BY <2>5 DEF MarkInitializing, RecordContainer, WrittenInHand, CopiesInv, RunningStatuses
  <2>6. CASE FailDuringStart \/ MarkFailed \/ MarkUploadFailed
    <3>1. \A e \in {"start", "other", "upload"} :
             /\ Failed(wdoc, e).cancel = wdoc.cancel
             /\ Failed(wdoc, e).status = "failed" /\ Failed(wdoc, e).error = e
      BY FailedType DEF ErrorMessage
    <3> QED
      BY <2>6, <3>1 DEF FailDuringStart, MarkFailed, MarkUploadFailed, WrittenInHand, TerminalStatuses
  <2>7. CASE MonitorList \/ Inspect \/ PackageAndUpload \/ CleanupJobDir
    BY <2>7 DEF MonitorList, Inspect, PackageAndUpload, CleanupJobDir
  <2>8. CASE MarkTraining \/ FinalizeTraining
    <3>1. Transition(wdoc, "training").cancel = wdoc.cancel /\ Transition(wdoc, "training").status = "training"
      BY TransitionType DEF JobStatus
    <3> QED
      BY <2>8, <3>1 DEF MarkTraining, FinalizeTraining, WrittenInHand, RunningStatuses
  <2>9. CASE RecordProgress
    <3>1. /\ MarkAlive([wdoc EXCEPT !.progress = wprog]).cancel = wdoc.cancel
          /\ MarkAlive([wdoc EXCEPT !.progress = wprog]).status = wdoc.status
      BY ProgressType
    <3>2. wdoc.status \in RunningStatuses
      BY <2>9 DEF RecordProgress, CopiesInv
    <3> QED
      BY <2>9, <3>1, <3>2 DEF RecordProgress, WrittenInHand
  <2>10. CASE MarkContainerAlive
    <3>1. MarkAlive(wdoc).cancel = wdoc.cancel /\ MarkAlive(wdoc).status = wdoc.status
      BY MarkAliveType
    <3> QED
      BY <2>10, <3>1 DEF MarkContainerAlive, WrittenInHand, CopiesInv
  <2>11. CASE MarkCompleted
    <3>1. Completed(wdoc).cancel = wdoc.cancel /\ Completed(wdoc).status = "completed"
      BY CompletedType
    <3> QED
      BY <2>11, <3>1 DEF MarkCompleted, WrittenInHand, TerminalStatuses
  <2>12. CASE WorkerCrash
    BY <2>12 DEF WorkerCrash
  <2> QED
    BY <1>2, <2>1, <2>2, <2>3, <2>4, <2>5, <2>6, <2>7, <2>8, <2>9, <2>10, <2>11, <2>12
    DEF WorkerTakesStep, WorkerStep, ProcessCancellations, StartNextQueuedJob, MonitorTick
<1>3. CASE \E j \in Jobs : ContainerStep(j)
  BY <1>3 DEF ContainerStep, ContainerProgress, ContainerSucceeds, ContainerFails
<1>4. CASE Advance
  <2>1. jobs'[k] = Age(jobs[k])
    BY <1>4 DEF Advance
  <2>2. jobs[k].hb = NoHeartbeat => Age(jobs[k]) = jobs[k]
    BY DEF Age, Older, Job
  <2>3. ~Ended(k)
    BY <2>1, <2>2 DEF VerdictInv
  <2>4. Age(jobs[k]).status = jobs[k].status /\ Age(jobs[k]).cancel = jobs[k].cancel
    BY AgeType
  <2> QED
    BY <2>1, <2>3, <2>4 DEF OnlyAged
<1>5. CASE NextDay
  BY <1>5 DEF NextDay
<1>6. CASE UNCHANGED vars
  BY <1>6 DEF vars
<1> QED
  BY <1>1, <1>2, <1>3, <1>4, <1>5, <1>6 DEF Next

\* An ended job's document is overwritten only with a cancellation, by a sweep,
\* or by the worker over a sweep's verdict.
THEOREM VerdictsStandHolds == Spec => VerdictsStand
<1> DEFINE Stands(k) == Ended(k) /\ jobs'[k] # jobs[k] =>
             CancelRequested(jobs'[k]) \/ jobs'[k].error = "timeout" \/ jobs[k].error = "timeout"
<1>1. IInv /\ IInv' /\ [Next]_vars => [\A j \in Jobs : Stands(j)]_vars
  <2> SUFFICES ASSUME IInv, IInv', [Next]_vars, NEW k \in Jobs, Ended(k), jobs'[k] # jobs[k]
               PROVE  \/ CancelRequested(jobs'[k])
                      \/ jobs'[k].error = "timeout" \/ jobs[k].error = "timeout"
    OBVIOUS
  <2>1. Created(k) \/ SweptOrCancelled(k) \/ WrittenInHand(k) \/ OnlyAged(k)
    BY WhoWrites DEF IInv
  <2>2. ~Created(k) /\ ~OnlyAged(k)
    BY DEF Created, OnlyAged, Ended, TerminalStatuses
  <2>3. WrittenInHand(k) => jobs[k].error = "timeout"
    BY DEF WrittenInHand, IInv, VerdictInv, Ended, TerminalStatuses, ActiveStatuses
  <2> QED
    BY <2>1, <2>2, <2>3 DEF SweptOrCancelled, CancelRequested
<1> QED
  BY InvHolds, <1>1, PTL DEF Spec, VerdictsStand

-----------------------------------------------------------------------------
(* Refinement.                                                             *)

\* The holder is the one running job nobody asked to cancel.
LEMMA HolderIs ==
  ASSUME SlotInv
  PROVE  /\ \A j \in Jobs : UncancelledRunning(j) => GpuHolder = j
         /\ (\A j \in Jobs : ~UncancelledRunning(j)) => GpuHolder = 0
         /\ GpuHolder # 0 => GpuHolder \in Jobs /\ UncancelledRunning(GpuHolder)
  BY DEF SlotInv, OneUncancelledRunning, GpuHolder

\* A step never moves the slot from one job straight to another.
LEMMA SlotStep ==
  ASSUME IInv, IInv', [Next]_vars, NEW i \in Jobs, NEW k \in Jobs,
         UncancelledRunning(i), UncancelledRunning(k)'
  PROVE  i = k
<1>1. CASE jobs'[k] = jobs[k]
  BY <1>1 DEF IInv, SlotInv, OneUncancelledRunning, UncancelledRunning, CancelRequested
<1>2. CASE jobs'[k] # jobs[k]
  <2>1. Created(k) \/ SweptOrCancelled(k) \/ WrittenInHand(k) \/ OnlyAged(k)
    BY <1>2, WhoWrites DEF IInv
  <2>2. ~Created(k) /\ ~SweptOrCancelled(k)
    BY DEF Created, SweptOrCancelled, UncancelledRunning, RunningStatuses, CancelRequested
  <2>3. CASE WrittenInHand(k)
    BY <2>3 DEF WrittenInHand, UncancelledRunning, CancelRequested, IInv, SlotInv
  <2>4. CASE OnlyAged(k)
    BY <2>4 DEF OnlyAged, UncancelledRunning, CancelRequested, IInv, SlotInv,
                OneUncancelledRunning
  <2> QED
    BY <2>1, <2>2, <2>3, <2>4
<1> QED
  BY <1>1, <1>2

\* The service implements GpuSlot: its holder is given up before another job
\* becomes the holder.
THEOREM Refinement == Spec => ImplementsGpuSlot
<1>1. Init => Slot!Init
  <2> SUFFICES ASSUME Init PROVE GpuHolder = 0
    BY DEF Slot!Init
  <2>1. SlotInv /\ \A j \in Jobs : ~UncancelledRunning(j)
    BY InvInit, NoJobFields DEF IInv, Init, StoreInit, UncancelledRunning, RunningStatuses
  <2> QED
    BY <2>1, HolderIs
<1>2. IInv /\ IInv' /\ [Next]_vars => [Slot!Next]_GpuHolder
  <2> SUFFICES ASSUME IInv, IInv', [Next]_vars, GpuHolder' # GpuHolder
               PROVE  Slot!Next
    OBVIOUS
  <2>1. GpuHolder # 0 => GpuHolder \in Jobs /\ UncancelledRunning(GpuHolder)
    BY HolderIs DEF IInv
  <2>2. ASSUME GpuHolder' # 0
        PROVE  \E k \in Jobs : GpuHolder' = k /\ UncancelledRunning(k)'
    BY <2>2 DEF GpuHolder
  <2>3. GpuHolder = 0 \/ GpuHolder' = 0
    BY <2>1, <2>2, SlotStep
  <2> QED
    BY <2>2, <2>3 DEF Slot!Next, Slot!Acquire, Slot!Release
<1> QED
  BY InvHolds, <1>1, <1>2, PTL DEF Spec, ImplementsGpuSlot, Slot!Spec

-----------------------------------------------------------------------------
(* Until somebody cancels.                                                 *)

\* No copy of a document that will be written has the cancel flag.
FlagInv ==
    NobodyCancelled =>
        /\ \A j \in Jobs : ~CancelRequested(jobs[j]) /\ ~CancelRequested(batch[j]) /\ ~CancelRequested(sweep[j])
        /\ ~CancelRequested(wdoc)

\* The directory of an ended job is explained, or about to be removed.
DirInv ==
    NobodyCancelled /\ crashes = 0 =>
        \A j \in workdir : Ended(j) =>
            jobs[j].error \in {"start", "timeout", "upload"} \/ (pc = "cleanup" /\ j = wjob)

\* A cancel request that is done stays done.
LEMMA CancelledForGood ==
  ASSUME TypeOK, [Next]_vars, NobodyCancelled'
  PROVE  NobodyCancelled
<1> USE DEF TypeOK, BackendTypeOK, NobodyCancelled
<1>1. CASE UNCHANGED cancels
  BY <1>1
<1>2. ASSUME NEW r \in CancelRequests, CancelWrite(r) PROVE NobodyCancelled
  BY <1>2 DEF CancelWrite
<1>3. ASSUME NEW r \in CancelRequests, NEW j \in Jobs, CancelRead(r, j) PROVE NobodyCancelled
  BY <1>3 DEF CancelRead
<1>4. CASE Advance
  <2>1. \A r \in CancelRequests : cancels'[r] = [cancels[r] EXCEPT !.doc = Age(cancels[r].doc)]
    BY <1>4 DEF Advance
  <2>2. \A r \in CancelRequests : cancels'[r].at = cancels[r].at
    BY <2>1 DEF Cancellation
  <2> QED
    BY <2>2
<1> QED
  BY <1>1, <1>2, <1>3, <1>4
  DEF Next, BackendStep, BackendNext, WorkerTakesStep, ContainerStep, ContainerProgress, ContainerSucceeds, ContainerFails,
      NextDay, backendVars, vars, SubmitReadUser, SubmitCheck, SubmitCreate, SweepFail, SweepList, PasswordRead, PasswordWrite

\* A step that writes no document of a cancelled job makes none.
LEMMA FlagStep == IInv /\ IInv' /\ FlagInv /\ [Next]_vars => FlagInv'
<1> SUFFICES ASSUME IInv, IInv', FlagInv, [Next]_vars, NobodyCancelled'
             PROVE  /\ \A j \in Jobs : ~CancelRequested(jobs'[j]) /\ ~CancelRequested(batch'[j]) /\ ~CancelRequested(sweep'[j])
                    /\ ~CancelRequested(wdoc')
  BY DEF FlagInv, CancelRequested
<1>0. NobodyCancelled
  BY CancelledForGood DEF IInv
<1>1. /\ \A j \in Jobs : ~CancelRequested(jobs[j]) /\ ~CancelRequested(batch[j]) /\ ~CancelRequested(sweep[j])
      /\ ~CancelRequested(wdoc) /\ ~CancelRequested(NoJob)
  BY <1>0, NoJobFields DEF FlagInv, CancelRequested
<1>2. pc # "cancelWrite"
  BY <1>1 DEF IInv, CopiesInv
<1>3. ASSUME NEW k \in Jobs PROVE ~CancelRequested(jobs'[k])
  <2>1. CASE jobs'[k] = jobs[k]
    BY <1>1, <2>1
  <2>2. CASE jobs'[k] # jobs[k]
    <3>1. Created(k) \/ SweptOrCancelled(k) \/ WrittenInHand(k) \/ OnlyAged(k)
      BY <2>2, WhoWrites DEF IInv
    <3> QED
      BY <1>1, <1>2, <3>1 DEF Created, SweptOrCancelled, WrittenInHand, OnlyAged, CancelRequested
  <2> QED
    BY <2>1, <2>2
<1>4. ASSUME NEW k \in Jobs PROVE ~CancelRequested(sweep'[k])
  <2>1. CASE UNCHANGED sweep
    BY <1>1, <2>1
  <2>2. CASE SweepList
    <3>1. jobs[k] \in Job
      BY DEF IInv, TypeOK, StoreTypeOK
    <3>2. Failed(jobs[k], "timeout").cancel = jobs[k].cancel
      BY <3>1, FailedType DEF ErrorMessage
    <3>3. sweep'[k] \in {Failed(jobs[k], "timeout"), NoJob}
      BY <2>2 DEF SweepList
    <3> QED
      BY <1>1, <3>2, <3>3 DEF CancelRequested
  <2>3. ASSUME NEW j \in Jobs, SweepFail(j) PROVE ~CancelRequested(sweep'[k])
    <3>1. sweep'[k] \in {sweep[k], NoJob}
      BY <2>3 DEF SweepFail, IInv, TypeOK, BackendTypeOK
    <3> QED
      BY <1>1, <3>1
  <2> QED
    BY <2>1, <2>2, <2>3
    DEF Next, BackendStep, BackendNext, WorkerTakesStep, ContainerStep, ContainerProgress, ContainerSucceeds, ContainerFails,
        NextDay, Advance, backendVars, vars, SubmitReadUser, SubmitCheck, SubmitCreate, CancelRead, CancelWrite,
        PasswordRead, PasswordWrite
<1>5. (\A k \in Jobs : ~CancelRequested(batch'[k])) /\ ~CancelRequested(wdoc')
  <2> USE DEF IInv, TypeOK, StoreTypeOK, WorkerTypeOK
  <2>1. CASE UNCHANGED <<batch, wdoc>>
    BY <1>1, <2>1
  <2>2. CASE LocalsAreReset
    BY <1>1, <2>2 DEF LocalsAreReset, NoBatch
  <2>3. CASE UNCHANGED batch /\ (wdoc' = NoJob \/ wdoc' = Age(wdoc) \/ wdoc'.cancel = wdoc.cancel)
    BY <1>1, <2>3, AgeType DEF CancelRequested
  <2>4. CASE UNCHANGED batch /\ \E j \in Jobs : wdoc' = jobs[j] \/ wdoc' = MarkAlive(Transition(jobs[j], "initializing"))
    <3>1. \A j \in Jobs : MarkAlive(Transition(jobs[j], "initializing")).cancel = jobs[j].cancel
      BY TransitionType, MarkAliveType DEF JobStatus
    <3> QED
      BY <1>1, <2>4, <3>1 DEF CancelRequested
  <2>5. CASE CancelList
    <3>1. batch' = NoBatch
      BY <1>1, <2>5 DEF CancelList, NoBatch
    <3> QED
      BY <1>1, <2>5, <3>1 DEF CancelList, NoBatch
  <2>6. ASSUME NEW j \in Jobs, CancelNext(j) PROVE FALSE
    BY <1>1, <2>6 DEF CancelNext, IsFirst, CopiesInv
  <2>7. CASE Reconcile
    BY <2>1, <2>2, <2>7 DEF Reconcile, WorkerStart, ReconcileList, ReconcileDone, KillOrphan, Dies, localVars
  <2>8. CASE ProcessCancellations
    BY <2>1, <2>3, <2>5, <2>6, <2>8 DEF ProcessCancellations, CancelRm, CancelUpdate, CancelDone, localVars
  <2>9. CASE CheckActive \/ MarkInitializing \/ ChargeQuota \/ FetchDataset \/ RecordContainer \/ FailDuringStart
    BY <2>1, <2>2, <2>9
    DEF CheckActive, MarkInitializing, ChargeQuota, FetchDataset, RecordContainer, FailDuringStart, Dies, localVars
  <2>10. CASE ListQueued
    BY <2>1, <2>4, <2>10 DEF ListQueued, localVars
  <2>11. CASE DockerRun
    <3>1. [wdoc EXCEPT !.container = "id"].cancel = wdoc.cancel
      BY FieldFrame
    <3> QED
      BY <2>3, <2>11, <3>1 DEF DockerRun
  <2>12. CASE MonitorList
    BY <2>1, <2>4, <2>12 DEF MonitorList, localVars
  <2>13. ASSUME NEW to, NEW doc, NEW exit, doc.cancel = wdoc.cancel, Proceed(to, doc, exit)
         PROVE  (\A k \in Jobs : ~CancelRequested(batch'[k])) /\ ~CancelRequested(wdoc')
    BY <2>3, <2>13 DEF Proceed
  <2>14. CASE Inspect
    BY <2>13, <2>14 DEF Inspect
  <2>15. CASE MarkTraining \/ FinalizeTraining
    <3>1. Transition(wdoc, "training").cancel = wdoc.cancel
      BY TransitionType DEF JobStatus
    <3> QED
      BY <2>13, <2>15, <3>1 DEF MarkTraining, FinalizeTraining
  <2>16. CASE RecordProgress
    <3>1. MarkAlive([wdoc EXCEPT !.progress = wprog]).cancel = wdoc.cancel
      BY ProgressType
    <3> QED
      BY <2>13, <2>16, <3>1 DEF RecordProgress
  <2>17. CASE MarkContainerAlive \/ PackageAndUpload \/ MarkCompleted \/ MarkFailed \/ MarkUploadFailed \/ CleanupJobDir
    BY <2>1, <2>2, <2>3, <2>17
    DEF MarkContainerAlive, PackageAndUpload, MarkCompleted, MarkFailed, MarkUploadFailed, CleanupJobDir, localVars
  <2>18. CASE WorkerCrash
    BY <2>2, <2>18 DEF WorkerCrash, Dies
  <2>19. CASE Advance
    BY <2>3, <2>19 DEF Advance
  <2>20. CASE WorkerTakesStep
    BY <2>7, <2>8, <2>9, <2>10, <2>11, <2>12, <2>14, <2>15, <2>16, <2>17, <2>18, <2>20
    DEF WorkerTakesStep, WorkerStep, StartNextQueuedJob, MonitorTick
  <2>21. CASE UNCHANGED workerVars
    BY <2>1, <2>21 DEF workerVars, localVars
  <2> QED
    BY <2>19, <2>20, <2>21
    DEF Next, BackendStep, ContainerStep, ContainerProgress, ContainerSucceeds, ContainerFails, NextDay, vars
<1> QED
  BY <1>3, <1>4, <1>5

\* A step makes only the directory of the job in hand, and the worker that
\* has to remove one goes on to do so unless it crashes.
LEMMA DirFrame ==
  ASSUME IInv, [Next]_vars
  PROVE  /\ crashes' = 0 => crashes = 0
         /\ \A j \in workdir' : j \in workdir \/ (pc \in {"fetch", "run"} /\ j = wjob)
         /\ pc = "cleanup" /\ crashes' = 0 /\ wjob \in workdir' => pc' = "cleanup" /\ wjob' = wjob
<1> USE DEF IInv, TypeOK, StoreTypeOK, WorkerTypeOK
<1>0. crashes \in Nat
  BY WorkerAssumption DEF WorkerAssumption
<1>1. CASE UNCHANGED workdir /\ UNCHANGED <<pc, wjob, crashes>>
  BY <1>1
<1>2. CASE UNCHANGED <<workdir, crashes>> /\ pc # "cleanup"
  BY <1>2
<1>3. CASE FetchDataset \/ DockerRun
  BY <1>0, <1>3 DEF FetchDataset, DockerRun
<1>4. CASE CancelRm \/ CleanupJobDir
  BY <1>4 DEF CancelRm, CleanupJobDir, RemoveJobDir, Goto
<1>5. CASE WorkerCrash
  BY <1>0, <1>5 DEF WorkerCrash, storeVars
<1>6. CASE Reconcile \/ ProcessCancellations
  BY <1>2, <1>4, <1>6
  DEF Reconcile, WorkerStart, ReconcileList, ReconcileDone, KillOrphan, ProcessCancellations, CancelList, CancelUpdate,
      CancelDone, CancelNext, Goto, storeVars, hostVars
<1>7. CASE StartNextQueuedJob
  BY <1>2, <1>3, <1>7
  DEF StartNextQueuedJob, CheckActive, ListQueued, MarkInitializing, ChargeQuota, RecordContainer, FailDuringStart,
      Goto, storeVars, hostVars
<1>8. CASE MonitorTick
  BY <1>2, <1>4, <1>8
  DEF MonitorTick, MonitorList, Inspect, MarkTraining, RecordProgress, MarkContainerAlive, FinalizeTraining,
      PackageAndUpload, MarkCompleted, MarkFailed, MarkUploadFailed, Goto, storeVars, hostVars
<1>9. CASE WorkerTakesStep
  BY <1>5, <1>6, <1>7, <1>8, <1>9 DEF WorkerTakesStep, WorkerStep
<1>10. CASE BackendStep
  BY <1>1, <1>10
  DEF BackendStep, BackendNext, SubmitReadUser, SubmitCheck, SubmitCreate, SweepFail, SweepList, CancelRead, CancelWrite,
      PasswordRead, PasswordWrite, workerVars, localVars, storeVars, hostVars
<1>11. CASE Advance \/ NextDay \/ UNCHANGED vars \/ \E j \in Jobs : ContainerStep(j)
  BY <1>1, <1>11
  DEF Advance, NextDay, vars, ContainerStep, ContainerProgress, ContainerSucceeds, ContainerFails, workerVars, localVars,
      storeVars, hostVars
<1> QED
  BY <1>9, <1>10, <1>11 DEF Next

\* Every step leaves the directories explained.
LEMMA DirStep == IInv /\ IInv' /\ FlagInv /\ DirInv /\ [Next]_vars => DirInv'
<1> SUFFICES ASSUME IInv, IInv', FlagInv, DirInv, [Next]_vars, NobodyCancelled', crashes' = 0,
                    NEW j \in workdir', jobs'[j].status \in TerminalStatuses
             PROVE  jobs'[j].error \in {"start", "timeout", "upload"} \/ (pc' = "cleanup" /\ j = wjob')
  BY DEF DirInv, Ended
<1>1. NobodyCancelled /\ j \in Jobs
  BY CancelledForGood DEF IInv, TypeOK, StoreTypeOK
<1>2. crashes = 0 /\ (j \in workdir \/ (pc \in {"fetch", "run"} /\ j = wjob))
  BY DirFrame
<1>3. pc = "cleanup" /\ j = wjob => pc' = "cleanup" /\ wjob' = wjob
  BY DirFrame
<1>4. CASE jobs'[j] = jobs[j]
  <2>1. CASE j \in workdir
    BY <1>1, <1>2, <1>3, <1>4, <2>1 DEF DirInv, Ended
  <2>2. CASE pc \in {"fetch", "run"} /\ j = wjob
    BY <1>4, <2>2 DEF IInv, VerdictInv, StartPCs, ActiveStatuses, TerminalStatuses
  <2> QED
    BY <1>2, <2>1, <2>2
<1>5. CASE jobs'[j] # jobs[j]
  <2>1. Created(j) \/ SweptOrCancelled(j) \/ WrittenInHand(j) \/ OnlyAged(j)
    BY <1>1, <1>5, WhoWrites DEF IInv
  <2>2. pc # "cancelWrite"
    BY <1>1 DEF IInv, CopiesInv, FlagInv
  <2> QED
    BY <2>1, <2>2
    DEF Created, SweptOrCancelled, WrittenInHand, OnlyAged, Ended, TerminalStatuses, RunningStatuses
<1> QED
  BY <1>4, <1>5

\* JobCompletionMonitor removes the directory of a job that completed or that
\* failed with its container, until somebody cancels or the worker crashes.
THEOREM TrainedDirsGoHolds == Spec => []TrainedDirsGo
<1>1. Init => FlagInv /\ DirInv
  BY NoJobFields
  DEF Init, StoreInit, BackendInit, WorkerInit, FlagInv, DirInv, NoSweep, NoBatch, CancelRequested
<1>2. IInv /\ IInv' /\ (FlagInv /\ DirInv) /\ [Next]_vars => (FlagInv /\ DirInv)'
  BY FlagStep, DirStep
<1>3. DirInv => TrainedDirsGo
  BY DEF DirInv, TrainedDirsGo
<1> QED
  BY InvHolds, <1>1, <1>2, <1>3, PTL DEF Spec

-----------------------------------------------------------------------------
(* The daily quota.                                                        *)

\* A user is charged before a container starts: what has to be true while the
\* worker holds the user's document, on the first day and while the user does
\* not change the password.
ChargeInv ==
    \A u \in Users : today = 0 /\ passwords[u].at = "idle" =>
        /\ users[u].day # 0 => users[u].used = 0
        /\ Cardinality(StartedContainers(u)) <= users[u].used
        /\ pc \in {"start", "charge"} /\ Owner[wjob] = u =>
             wuser.day = 0 /\ Cardinality(StartedContainers(u)) < wuser.used
        /\ pc \in {"fetch", "run"} /\ Owner[wjob] = u =>
             Cardinality(StartedContainers(u) \cup {wjob}) <= users[u].used

\* No copy of a user's document charges for more jobs than have left the queue,
\* counting the one the worker is about to take.
OnceInv ==
    NobodyCancelled => \A u \in Users :
        /\ users[u].used <= Cardinality(Dequeued(u))
        /\ passwords[u].at = "read" => passwords[u].user.used <= Cardinality(Dequeued(u))
        /\ pc = "start" /\ Owner[wjob] = u => wuser.used <= Cardinality(Dequeued(u) \cup {wjob})
        /\ pc = "charge" /\ Owner[wjob] = u => wuser.used <= Cardinality(Dequeued(u))

\* record_job_started counts from zero on a new day.
LEMMA ChargedUser ==
  ASSUME NEW user \in User, NEW d \in 0 .. MaxDay
  PROVE  /\ RecordJobStarted(user, d).used = (IF user.day = d THEN user.used ELSE 0) + 1
         /\ RecordJobStarted(user, d).day = d
<1> DEFINE used == EffectiveDailyUsed(user, d) + 1
           counted == [user EXCEPT !.used = used]
<1>1. RecordJobStarted(user, d) = [counted EXCEPT !.day = d]
  BY DEF RecordJobStarted
<1>2. used \in Nat
  BY DEF EffectiveDailyUsed, User
<1> HIDE DEF used
<1>3. counted \in User /\ counted.used = used
  BY <1>2 DEF User
<1> HIDE DEF counted
<1>4. [counted EXCEPT !.day = d].used = counted.used /\ [counted EXCEPT !.day = d].day = d
  BY <1>3 DEF User
<1> QED
  BY <1>1, <1>3, <1>4 DEF used, EffectiveDailyUsed

\* Who writes a user's document: the worker, the copy it holds, and a password
\* change, its own; who reads one, and what containers start.
UserKept(u) ==
    \/ users'[u] = users[u]
    \/ pc = "charge" /\ pc' = "fetch" /\ Owner[wjob] = u /\ users'[u] = wuser
    \/ passwords[u].at = "read" /\ passwords'[u].at = "done" /\ users'[u].used = passwords[u].user.used
PasswordKept(u) ==
    \/ passwords'[u] = passwords[u]
    \/ passwords[u].at = "idle" /\ passwords'[u].at = "read" /\ passwords'[u].user = users[u]
    \/ passwords[u].at = "read" /\ passwords'[u].at = "done"
InHandKept == wjob' = wjob /\ wuser' = wuser
TakesJob ==
    /\ pc = "queue" /\ pc' = "start" /\ wjob' \in Jobs /\ jobs[wjob'].status = "queued"
    /\ wuser' = RecordJobStarted(users[Owner[wjob']], today)
    /\ users' = users /\ today' = today /\ jobs' = jobs /\ containers' = containers
ChargeKept ==
    /\ pc' = "start" => (pc = "start" /\ InHandKept) \/ TakesJob
    /\ pc' = "charge" => InHandKept /\ (pc = "charge" \/ (pc = "start" /\ jobs'[wjob] = wdoc))
    /\ pc' \in {"fetch", "run"} => \/ pc \in {"fetch", "run"} /\ InHandKept
                                   \/ pc = "charge" /\ wjob' = wjob /\ users'[Owner[wjob]] = wuser
ContainersKept ==
    \A j \in Jobs : containers'[j] # "absent" => containers[j] # "absent" \/ (pc = "run" /\ pc' = "started" /\ j = wjob)
Kept == (\A u \in Users : UserKept(u) /\ PasswordKept(u)) /\ ChargeKept /\ ContainersKept /\ today' >= today

\* Every step is one of those.
LEMMA QuotaFrame == IInv /\ [Next]_vars => Kept
<1> SUFFICES ASSUME IInv, [Next]_vars PROVE Kept
  OBVIOUS
<1> USE DEF IInv, TypeOK, StoreTypeOK, BackendTypeOK, WorkerTypeOK
<1>1. ASSUME UNCHANGED <<users, passwords, today>>, ContainersKept,
             pc' \in {"start", "charge", "fetch", "run"} => pc' = pc /\ InHandKept
      PROVE  Kept
  BY <1>1 DEF Kept, UserKept, PasswordKept, ChargeKept
<1>2. ASSUME UNCHANGED containers PROVE ContainersKept
  BY <1>2 DEF ContainersKept
<1>3. CASE BackendStep
  <2>1. UNCHANGED <<pc, wjob, wuser, containers, today>>
    BY <1>3
    DEF BackendStep, BackendNext, SubmitReadUser, SubmitCheck, SubmitCreate, SweepFail, SweepList, CancelRead, CancelWrite,
        PasswordRead, PasswordWrite, workerVars, localVars, storeVars, hostVars
  <2>2. ContainersKept /\ ChargeKept
    BY <1>2, <2>1 DEF ChargeKept, InHandKept
  <2>3. CASE UNCHANGED <<users, passwords>>
    BY <1>1, <2>1, <2>2, <2>3 DEF InHandKept
  <2>4. ASSUME NEW v \in Users, PasswordRead(v) PROVE Kept
    <3>1. users' = users
      BY <2>4 DEF PasswordRead, storeVars
    <3>2. \A u \in Users : PasswordKept(u)
      BY <2>4 DEF PasswordRead, PasswordKept
    <3> QED
      BY <2>1, <2>2, <3>1, <3>2 DEF Kept, UserKept
  <2>5. ASSUME NEW v \in Users, PasswordWrite(v) PROVE Kept
    <3>1. [passwords[v].user EXCEPT !.password = "new"].used = passwords[v].user.used
      BY DEF PasswordChange, User
    <3>2. \A u \in Users : UserKept(u) /\ PasswordKept(u)
      BY <2>5, <3>1 DEF PasswordWrite, UpdateUser, UserKept, PasswordKept
    <3> QED
      BY <2>1, <2>2, <3>2 DEF Kept
  <2> QED
    BY <1>3, <2>3, <2>4, <2>5
    DEF BackendStep, BackendNext, SubmitReadUser, SubmitCheck, SubmitCreate, SweepFail, SweepList, CancelRead, CancelWrite,
        storeVars
<1>4. CASE WorkerTakesStep
  <2>1. passwords' = passwords
    BY <1>4 DEF WorkerTakesStep, backendVars
  <2>2. CASE ListQueued
    <3>1. UNCHANGED storeVars
      BY <2>2 DEF ListQueued
    <3>2. pc' = "start" => TakesJob
      BY <2>2, <3>1 DEF ListQueued, TakesJob, IsFirst, ListByStatuses, storeVars
    <3>3. pc' \in {"start", "monitor"}
      BY <2>2 DEF ListQueued
    <3> QED
      BY <1>2, <2>1, <3>1, <3>2, <3>3 DEF Kept, UserKept, PasswordKept, ChargeKept, storeVars
  <2>3. CASE MarkInitializing
    BY <1>2, <2>1, <2>3, ZeroIsNoJob
    DEF MarkInitializing, UpdateJob, Goto, Kept, UserKept, PasswordKept, ChargeKept, InHandKept, hostVars, localVars, StartPCs
  <2>4. CASE ChargeQuota
    <3>1. wjob \in Jobs /\ Owner[wjob] \in Users
      BY <2>4, StoreAssumption DEF ChargeQuota, Goto, StartPCs
    <3>2. users' = [users EXCEPT ![Owner[wjob]] = wuser] /\ UNCHANGED <<containers, today, wjob>> /\ pc = "charge" /\ pc' = "fetch"
      BY <2>4 DEF ChargeQuota, UpdateUser, Goto, hostVars
    <3> QED
      BY <1>2, <2>1, <3>1, <3>2 DEF Kept, UserKept, PasswordKept, ChargeKept
  <2>5. CASE FetchDataset
    <3>1. UNCHANGED <<users, containers, today>> /\ pc = "fetch" /\ pc' \in {"run", "failStart", "down"}
      BY <2>5 DEF FetchDataset, Dies
    <3>2. pc' = "run" => InHandKept
      BY <2>5 DEF FetchDataset, Dies, localVars, InHandKept
    <3> QED
      BY <1>2, <2>1, <3>1, <3>2 DEF Kept, UserKept, PasswordKept, ChargeKept
  <2>6. CASE DockerRun
    <3>1. UNCHANGED <<users, today>> /\ pc = "run" /\ pc' \in {"started", "failStart"}
      BY <2>6 DEF DockerRun
    <3>2. ContainersKept
      BY <2>6 DEF DockerRun, ContainersKept
    <3> QED
      BY <1>1, <2>1, <3>1, <3>2
  <2>7. CASE UNCHANGED <<users, containers, today>> /\ pc' \notin {"start", "charge", "fetch", "run"}
    BY <1>1, <1>2, <2>1, <2>7
  <2>8. ASSUME NEW j \in Jobs, DockerKill(j), UNCHANGED <<users, today>>, pc' \notin {"start", "charge", "fetch", "run"}
        PROVE  Kept
    <3>1. ContainersKept
      BY <2>8 DEF DockerKill, ContainersKept
    <3> QED
      BY <1>1, <2>1, <2>8, <3>1
  <2>9. CASE Reconcile
    BY <2>7, <2>8, <2>9
    DEF Reconcile, WorkerStart, ReconcileList, ReconcileDone, KillOrphan, Dies, Goto, storeVars
  <2>10. CASE ProcessCancellations
    BY <2>7, <2>8, <2>10
    DEF ProcessCancellations, CancelList, CancelRm, CancelUpdate, CancelDone, CancelNext, Dies, Goto, storeVars, hostVars
  <2>11. CASE CheckActive \/ RecordContainer \/ FailDuringStart
    BY <2>7, <2>11 DEF CheckActive, RecordContainer, FailDuringStart, Goto, storeVars, hostVars
  <2>12. ASSUME NEW status, NEW exit PROVE AfterHeartbeat(status, exit) \notin {"start", "charge", "fetch", "run"}
    BY DEF AfterHeartbeat
  <2>13. CASE Inspect
    <3>1. \A exit : HeartbeatStep(exit) \notin {"start", "charge", "fetch", "run"}
      BY <2>12 DEF HeartbeatStep
    <3> QED
      BY <2>7, <2>13, <3>1 DEF Inspect, Proceed, storeVars
  <2>14. CASE MarkTraining \/ RecordProgress \/ FinalizeTraining
    BY <2>7, <2>12, <2>14 DEF MarkTraining, RecordProgress, FinalizeTraining, Proceed, hostVars
  <2>15. CASE MonitorList \/ MarkContainerAlive \/ PackageAndUpload \/ MarkCompleted \/ MarkFailed \/ MarkUploadFailed
              \/ CleanupJobDir
    BY <2>7, <2>15
    DEF MonitorList, MarkContainerAlive, PackageAndUpload, MarkCompleted, MarkFailed, MarkUploadFailed, CleanupJobDir,
        Goto, storeVars, hostVars
  <2>16. CASE WorkerCrash
    BY <2>7, <2>16 DEF WorkerCrash, Dies, storeVars
  <2> QED
    BY <1>4, <2>2, <2>3, <2>4, <2>5, <2>6, <2>9, <2>10, <2>11, <2>13, <2>14, <2>15, <2>16
    DEF WorkerTakesStep, WorkerStep, StartNextQueuedJob, MonitorTick
<1>5. ASSUME NEW j \in Jobs, ContainerStep(j) PROVE Kept
  <2>1. ContainersKept
    BY <1>5 DEF ContainerStep, ContainerProgress, ContainerSucceeds, ContainerFails, ContainersKept
  <2> QED
    BY <1>1, <1>5, <2>1
    DEF ContainerStep, ContainerProgress, ContainerSucceeds, ContainerFails, InHandKept, workerVars, localVars, backendVars
<1>6. CASE Advance \/ UNCHANGED vars
  BY <1>1, <1>2, <1>6 DEF Advance, vars, storeVars, hostVars, backendVars, workerVars, localVars, InHandKept
<1>7. CASE NextDay
  BY <1>2, <1>7, DomainAssumption
  DEF NextDay, Kept, UserKept, PasswordKept, ChargeKept, InHandKept, hostVars, backendVars, workerVars, localVars
<1> QED
  BY <1>3, <1>4, <1>5, <1>6, <1>7 DEF Next

\* While the user does not change the password, the copy the worker is about to
\* write counts one more than what is stored, of no later day than today.
DayInv ==
    \A u \in Users : passwords[u].at = "idle" =>
        /\ users[u].day <= today
        /\ pc \in {"start", "charge"} /\ Owner[wjob] = u =>
             CountsOneMore(users[u], wuser) /\ wuser.day <= today

\* Midnight between reading and writing only makes today later.
LEMMA DayStep == IInv /\ IInv' /\ DayInv /\ [Next]_vars => DayInv'
<1> SUFFICES ASSUME IInv, IInv', DayInv, [Next]_vars, NEW u \in Users, passwords'[u].at = "idle"
             PROVE  /\ users'[u].day <= today'
                    /\ pc' \in {"start", "charge"} /\ Owner[wjob'] = u =>
                         CountsOneMore(users'[u], wuser') /\ wuser'.day <= today'
  BY DEF DayInv
<1>1. Kept
  BY QuotaFrame
<1>2. passwords[u].at = "idle"
  BY <1>1 DEF Kept, PasswordKept
<1>3. /\ today \in 0 .. MaxDay /\ today' \in 0 .. MaxDay /\ today' >= today /\ MaxDay \in Nat
      /\ users[u] \in User /\ users[u].day \in Int /\ users[u].used \in Nat
      /\ wuser.day \in Int
  <2>1. today \in 0 .. MaxDay /\ today' \in 0 .. MaxDay /\ users[u] \in User /\ wuser \in User /\ MaxDay \in Nat
    BY DomainAssumption DEF IInv, TypeOK, StoreTypeOK, WorkerTypeOK
  <2> QED
    BY <1>1, <2>1 DEF Kept, User, NeverReset
<1>4. /\ users[u].day <= today
      /\ pc \in {"start", "charge"} /\ Owner[wjob] = u => CountsOneMore(users[u], wuser) /\ wuser.day <= today
  BY <1>2 DEF DayInv
<1>5. users'[u] = users[u] \/ (pc = "charge" /\ pc' = "fetch" /\ Owner[wjob] = u /\ users'[u] = wuser)
  BY <1>1, <1>2 DEF Kept, UserKept
<1>6. users'[u].day <= today'
  BY <1>3, <1>4, <1>5
<1>7. ASSUME pc' \in {"start", "charge"}, Owner[wjob'] = u
      PROVE  CountsOneMore(users'[u], wuser') /\ wuser'.day <= today'
  <2>1. CASE TakesJob
    <3> DEFINE w == RecordJobStarted(users[u], today)
    <3>1. w.used = (IF users[u].day = today THEN users[u].used ELSE 0) + 1 /\ w.day = today
      BY <1>3, ChargedUser
    <3>2. wuser' = w /\ users' = users /\ today' = today
      BY <1>7, <2>1 DEF TakesJob
    <3> HIDE DEF w
    <3> QED
      BY <1>3, <1>4, <3>1, <3>2 DEF CountsOneMore
  <2>2. CASE pc \in {"start", "charge"} /\ InHandKept /\ users'[u] = users[u]
    BY <1>3, <1>4, <1>7, <2>2 DEF InHandKept
  <2> QED
    BY <1>1, <1>5, <1>7, <2>1, <2>2 DEF Kept, ChargeKept
<1> QED
  BY <1>6, <1>7

\* The daily counter only ever counts one more start of its day, or the first of
\* a later one, wherever midnight falls between the worker's accesses.
THEOREM DayCountedRightHolds == Spec => DayCountedRight
<1>1. Init => DayInv
  <2> SUFFICES ASSUME Init PROVE DayInv
    OBVIOUS
  <2> QED
    BY DomainAssumption DEF Init, StoreInit, BackendInit, WorkerInit, DayInv, NewUser, NeverReset
<1>2. IInv /\ IInv' /\ DayInv /\ [Next]_vars => DayInv'
  BY DayStep
<1>3. IInv /\ DayInv /\ [Next]_vars =>
        [\A u \in Users : users'[u] # users[u] /\ passwords'[u].at = "idle" => CountsOneMore(users[u], users'[u])]_vars
  <2> SUFFICES ASSUME IInv, DayInv, [Next]_vars, NEW u \in Users, users'[u] # users[u], passwords'[u].at = "idle"
               PROVE  CountsOneMore(users[u], users'[u])
    OBVIOUS
  <2>1. Kept
    BY QuotaFrame
  <2>2. passwords[u].at = "idle"
    BY <2>1 DEF Kept, PasswordKept
  <2> QED
    BY <2>1, <2>2 DEF Kept, UserKept, DayInv
<1> QED
  BY InvHolds, <1>1, <1>2, <1>3, PTL DEF Spec, DayCountedRight

\* Sets of jobs are finite.
LEMMA JobSets ==
  ASSUME NEW S \in SUBSET Jobs
  PROVE  /\ IsFiniteSet(S) /\ Cardinality(S) \in Nat
         /\ \A T \in SUBSET S : Cardinality(T) \in Nat /\ Cardinality(T) <= Cardinality(S)
         /\ \A j \in Jobs : /\ Cardinality(S \cup {j}) \in Nat
                            /\ Cardinality(S \cup {j}) = IF j \in S THEN Cardinality(S) ELSE Cardinality(S) + 1
<1>1. IsFiniteSet(Jobs)
  BY StoreAssumption, FS_Interval DEF StoreAssumption, Jobs
<1>2. \A T \in SUBSET Jobs : IsFiniteSet(T) /\ Cardinality(T) \in Nat
  BY <1>1, FS_Subset, FS_CardinalityType
<1>3. \A T \in SUBSET S : Cardinality(T) <= Cardinality(S)
  BY <1>2, FS_Subset
<1>4. \A j \in Jobs : Cardinality(S \cup {j}) = IF j \in S THEN Cardinality(S) ELSE Cardinality(S) + 1
  BY <1>2, FS_AddElement
<1> QED
  BY <1>2, <1>3, <1>4

\* Every step charges before it starts a container.
LEMMA ChargeStep == IInv /\ IInv' /\ ChargeInv /\ [Next]_vars => ChargeInv'
<1> SUFFICES ASSUME IInv, IInv', ChargeInv, [Next]_vars, NEW u \in Users, today' = 0, passwords'[u].at = "idle"
             PROVE  /\ users'[u].day # 0 => users'[u].used = 0
                    /\ Cardinality(StartedContainers(u)') <= users'[u].used
                    /\ pc' \in {"start", "charge"} /\ Owner[wjob'] = u =>
                         wuser'.day = 0 /\ Cardinality(StartedContainers(u)') < wuser'.used
                    /\ pc' \in {"fetch", "run"} /\ Owner[wjob'] = u =>
                         Cardinality(StartedContainers(u)' \cup {wjob'}) <= users'[u].used
  BY DEF ChargeInv
<1> DEFINE S == StartedContainers(u)
           S2 == StartedContainers(u)'
<1>0. Kept
  BY QuotaFrame
<1>1. today = 0 /\ passwords[u].at = "idle"
  <2>1. today \in 0 .. MaxDay /\ MaxDay \in Nat
    BY DomainAssumption DEF IInv, TypeOK, StoreTypeOK
  <2> QED
    BY <1>0, <2>1 DEF Kept, PasswordKept
<1>2. S \in SUBSET Jobs /\ S2 \in SUBSET Jobs
  BY DEF StartedContainers
<1>3. \/ S2 \subseteq S
      \/ pc = "run" /\ pc' = "started" /\ Owner[wjob] = u /\ wjob \in Jobs /\ S2 \subseteq S \cup {wjob}
  BY <1>0 DEF Kept, ContainersKept, StartedContainers
<1>4. users'[u] = users[u] \/ (pc = "charge" /\ Owner[wjob] = u /\ users'[u] = wuser)
  BY <1>0, <1>1 DEF Kept, UserKept
<1>5. users[u] \in User /\ users'[u] \in User /\ wuser \in User /\ wuser' \in User
  BY DEF IInv, TypeOK, StoreTypeOK, WorkerTypeOK
<1>6. users[u].used \in Nat /\ users'[u].used \in Nat /\ wuser.used \in Nat /\ wuser'.used \in Nat
  BY <1>5 DEF User
<1>7. /\ users[u].day # 0 => users[u].used = 0
      /\ Cardinality(S) <= users[u].used
      /\ pc \in {"start", "charge"} /\ Owner[wjob] = u => wuser.day = 0 /\ Cardinality(S) < wuser.used
      /\ pc \in {"fetch", "run"} /\ Owner[wjob] = u => Cardinality(S \cup {wjob}) <= users[u].used
  BY <1>1 DEF ChargeInv
<1>8. pc' \in {"start", "charge", "fetch", "run"} => wjob' \in Jobs
  BY DEF IInv, TypeOK, WorkerTypeOK, StartPCs
<1> HIDE DEF S, S2
<1>9. Cardinality(S) \in Nat /\ Cardinality(S2) \in Nat
  BY <1>2, JobSets
<1>10. S2 \subseteq S => Cardinality(S2) <= Cardinality(S)
  BY <1>2, JobSets
<1>11. users'[u].day # 0 => users'[u].used = 0
  BY <1>4, <1>7
<1>12. Cardinality(S2) <= users'[u].used
  <2>1. CASE S2 \subseteq S
    BY <1>4, <1>6, <1>7, <1>9, <1>10, <2>1
  <2>2. CASE pc = "run" /\ Owner[wjob] = u /\ wjob \in Jobs /\ S2 \subseteq S \cup {wjob}
    <3>1. S \cup {wjob} \in SUBSET Jobs
      BY <1>2, <2>2
    <3>2. Cardinality(S2) <= Cardinality(S \cup {wjob}) /\ Cardinality(S \cup {wjob}) \in Nat
      BY <2>2, <3>1, JobSets
    <3> QED
      BY <1>4, <1>6, <1>7, <1>9, <2>2, <3>2
  <2> QED
    BY <1>3, <2>1, <2>2
<1>13. ASSUME pc' \in {"start", "charge"}, Owner[wjob'] = u PROVE wuser'.day = 0 /\ Cardinality(S2) < wuser'.used
  <2>1. S2 \subseteq S
    BY <1>3, <1>13
  <2>2. CASE pc \in {"start", "charge"} /\ InHandKept
    BY <1>6, <1>7, <1>9, <1>10, <1>13, <2>1, <2>2 DEF InHandKept
  <2>3. CASE TakesJob
    <3>1. wuser' = RecordJobStarted(users[u], 0)
      BY <1>1, <1>13, <2>3 DEF TakesJob
    <3>2. 0 \in 0 .. MaxDay
      BY DomainAssumption DEF DomainAssumption
    <3>3. wuser'.used = (IF users[u].day = 0 THEN users[u].used ELSE 0) + 1 /\ wuser'.day = 0
      BY <1>5, <3>1, <3>2, ChargedUser
    <3> QED
      BY <1>6, <1>7, <1>9, <1>10, <2>1, <3>3
  <2> QED
    BY <1>0, <1>13, <2>2, <2>3 DEF Kept, ChargeKept
<1>14. ASSUME pc' \in {"fetch", "run"}, Owner[wjob'] = u PROVE Cardinality(S2 \cup {wjob'}) <= users'[u].used
  <2>1. S2 \subseteq S /\ wjob' \in Jobs
    BY <1>3, <1>8, <1>14
  <2>2. S \cup {wjob'} \in SUBSET Jobs /\ S2 \cup {wjob'} \in SUBSET (S \cup {wjob'})
    BY <1>2, <2>1
  <2>3. /\ Cardinality(S2 \cup {wjob'}) <= Cardinality(S \cup {wjob'})
        /\ Cardinality(S2 \cup {wjob'}) \in Nat /\ Cardinality(S \cup {wjob'}) \in Nat
    BY <2>2, JobSets
  <2>4. CASE pc \in {"fetch", "run"} /\ InHandKept
    BY <1>4, <1>6, <1>7, <1>14, <2>3, <2>4 DEF InHandKept
  <2>5. CASE pc = "charge" /\ wjob' = wjob /\ users'[Owner[wjob]] = wuser
    <3>1. Cardinality(S \cup {wjob'}) <= Cardinality(S) + 1
      BY <1>2, <1>9, <2>1, JobSets
    <3> QED
      BY <1>6, <1>7, <1>9, <1>14, <2>3, <2>5, <3>1
  <2> QED
    BY <1>0, <1>14, <2>4, <2>5 DEF Kept, ChargeKept
<1> QED
  BY <1>11, <1>12, <1>13, <1>14 DEF S2

\* On the first day every container is charged to its user, crashes and cancel
\* requests notwithstanding, unless the user changes the password.
THEOREM EveryStartChargedHolds == Spec => []EveryStartCharged
<1>1. Init => ChargeInv
  <2> SUFFICES ASSUME Init, NEW u \in Users
               PROVE  users[u].used = 0 /\ Cardinality(StartedContainers(u)) = 0 /\ pc = "down"
    BY DEF ChargeInv
  <2>1. StartedContainers(u) = {}
    BY DEF Init, StoreInit, StartedContainers
  <2> QED
    BY <2>1, FS_EmptySet DEF Init, StoreInit, WorkerInit, NewUser
<1>2. IInv /\ IInv' /\ ChargeInv /\ [Next]_vars => ChargeInv'
  BY ChargeStep
<1>3. ChargeInv => EveryStartCharged
  BY DEF ChargeInv, EveryStartCharged
<1> QED
  BY InvHolds, <1>1, <1>2, <1>3, PTL DEF Spec

\* Until somebody cancels, a job that has left the queue does not return to it.
LEMMA DequeuedGrows ==
  ASSUME IInv, IInv', [Next]_vars, NobodyCancelled', NEW u \in Users
  PROVE  Dequeued(u) \subseteq Dequeued(u)'
<1> SUFFICES ASSUME NEW k \in Jobs, jobs[k].status \notin {"absent", "queued"}
             PROVE  jobs'[k].status \notin {"absent", "queued"}
  BY DEF Dequeued
<1>1. CASE jobs'[k] = jobs[k]
  BY <1>1
<1>2. CASE jobs'[k] # jobs[k]
  <2>1. Created(k) \/ SweptOrCancelled(k) \/ WrittenInHand(k) \/ OnlyAged(k)
    BY <1>2, WhoWrites DEF IInv
  <2> QED
    BY <2>1 DEF Created, SweptOrCancelled, WrittenInHand, OnlyAged, RunningStatuses, TerminalStatuses
<1> QED
  BY <1>1, <1>2

\* Every step charges a job that leaves the queue once.
LEMMA OnceStep == IInv /\ IInv' /\ OnceInv /\ [Next]_vars => OnceInv'
<1> SUFFICES ASSUME IInv, IInv', OnceInv, [Next]_vars, NobodyCancelled', NEW u \in Users
             PROVE  /\ users'[u].used <= Cardinality(Dequeued(u)')
                    /\ passwords'[u].at = "read" => passwords'[u].user.used <= Cardinality(Dequeued(u)')
                    /\ pc' = "start" /\ Owner[wjob'] = u => wuser'.used <= Cardinality(Dequeued(u)' \cup {wjob'})
                    /\ pc' = "charge" /\ Owner[wjob'] = u => wuser'.used <= Cardinality(Dequeued(u)')
  BY DEF OnceInv
<1> DEFINE D == Dequeued(u)
           D2 == Dequeued(u)'
<1>0. Kept /\ NobodyCancelled
  BY QuotaFrame, CancelledForGood DEF IInv
<1>1. D \in SUBSET Jobs /\ D2 \in SUBSET Jobs /\ D \subseteq D2
  BY DequeuedGrows DEF Dequeued
<1>2. /\ users[u].used <= Cardinality(D)
      /\ passwords[u].at = "read" => passwords[u].user.used <= Cardinality(D)
      /\ pc = "start" /\ Owner[wjob] = u => wuser.used <= Cardinality(D \cup {wjob})
      /\ pc = "charge" /\ Owner[wjob] = u => wuser.used <= Cardinality(D)
  BY <1>0 DEF OnceInv
<1>3. users[u] \in User /\ passwords[u].user \in User /\ wuser \in User
  BY DEF IInv, TypeOK, StoreTypeOK, BackendTypeOK, WorkerTypeOK, PasswordChange
<1>4. users[u].used \in Nat /\ passwords[u].user.used \in Nat /\ wuser.used \in Nat
  BY <1>3 DEF User
<1>5. Cardinality(D) \in Nat /\ Cardinality(D2) \in Nat /\ Cardinality(D) <= Cardinality(D2)
  BY <1>1, JobSets
<1>6. pc' \in {"start", "charge"} => wjob' \in Jobs
  BY DEF IInv, TypeOK, WorkerTypeOK, StartPCs
<1>7. users'[u].used <= Cardinality(D2)
  <2> HIDE DEF D, D2
  <2> QED
    BY <1>0, <1>2, <1>4, <1>5 DEF Kept, UserKept
<1>8. passwords'[u].at = "read" => passwords'[u].user.used <= Cardinality(D2)
  <2> HIDE DEF D, D2
  <2> QED
    BY <1>0, <1>2, <1>4, <1>5 DEF Kept, PasswordKept
<1>9. ASSUME wjob' \in Jobs
      PROVE  /\ Cardinality(D \cup {wjob'}) \in Nat /\ Cardinality(D2 \cup {wjob'}) \in Nat
             /\ Cardinality(D \cup {wjob'}) <= Cardinality(D2 \cup {wjob'})
  <2> HIDE DEF D, D2
  <2>1. D2 \cup {wjob'} \in SUBSET Jobs /\ D \cup {wjob'} \in SUBSET (D2 \cup {wjob'})
    BY <1>1, <1>9
  <2> QED
    BY <2>1, JobSets
<1>10. ASSUME pc' = "start", Owner[wjob'] = u PROVE wuser'.used <= Cardinality(D2 \cup {wjob'})
  <2>1. CASE pc = "start" /\ InHandKept
    <3> HIDE DEF D, D2
    <3> QED
      BY <1>2, <1>4, <1>6, <1>9, <1>10, <2>1 DEF InHandKept
  <2>2. CASE TakesJob
    <3>1. wuser' = RecordJobStarted(users[u], today) /\ wjob' \notin D
      BY <1>10, <2>2 DEF TakesJob, Dequeued
    <3>2. today \in 0 .. MaxDay
      BY DEF IInv, TypeOK, StoreTypeOK
    <3>3. wuser'.used = (IF users[u].day = today THEN users[u].used ELSE 0) + 1
      BY <1>3, <3>1, <3>2, ChargedUser
    <3> HIDE DEF D, D2
    <3>4. Cardinality(D \cup {wjob'}) = Cardinality(D) + 1
      BY <1>1, <1>6, <1>10, <3>1, JobSets
    <3> QED
      BY <1>2, <1>4, <1>5, <1>6, <1>9, <1>10, <3>3, <3>4
  <2> QED
    BY <1>0, <1>10, <2>1, <2>2 DEF Kept, ChargeKept
<1>11. ASSUME pc' = "charge", Owner[wjob'] = u PROVE wuser'.used <= Cardinality(D2)
  <2>1. InHandKept /\ (pc = "charge" \/ (pc = "start" /\ jobs'[wjob] = wdoc))
    BY <1>0, <1>11 DEF Kept, ChargeKept
  <2>2. CASE pc = "charge"
    <3> HIDE DEF D, D2
    <3> QED
      BY <1>2, <1>4, <1>5, <1>11, <2>1, <2>2 DEF InHandKept
  <2>3. CASE pc = "start" /\ jobs'[wjob] = wdoc
    <3>1. wdoc.status = "initializing"
      BY <2>3 DEF IInv, CopiesInv, StartPCs
    <3>2. wjob \in D2
      BY <1>6, <1>11, <2>1, <2>3, <3>1 DEF InHandKept, Dequeued
    <3> HIDE DEF D, D2
    <3>3. D2 \cup {wjob'} = D2
      BY <2>1, <3>2 DEF InHandKept
    <3>4. wjob' = wjob /\ wuser' = wuser /\ wjob' \in Jobs
      BY <1>6, <1>11, <2>1 DEF InHandKept
    <3>5. wuser.used <= Cardinality(D \cup {wjob'})
      BY <1>2, <1>11, <2>3, <3>4
    <3>6. Cardinality(D \cup {wjob'}) <= Cardinality(D2) /\ Cardinality(D \cup {wjob'}) \in Nat
      BY <1>9, <3>3, <3>4
    <3> QED
      BY <1>4, <1>5, <3>4, <3>5, <3>6
  <2> QED
    BY <2>1, <2>2, <2>3
<1> QED
  BY <1>7, <1>8, <1>10, <1>11

\* Until somebody cancels, no user is charged for more jobs than have left the
\* queue, across crashes, failed starts, days and password changes.
THEOREM NeverOverchargedHolds == Spec => []NeverOvercharged
<1>1. Init => OnceInv
  <2> SUFFICES ASSUME Init, NEW u \in Users
               PROVE  users[u].used = 0 /\ Cardinality(Dequeued(u)) \in Nat /\ passwords[u].at = "idle" /\ pc = "down"
    BY DEF OnceInv
  <2>1. Cardinality(Dequeued(u)) \in Nat
    BY JobSets DEF Dequeued
  <2> QED
    BY <2>1 DEF Init, StoreInit, BackendInit, WorkerInit, NewUser
<1>2. IInv /\ IInv' /\ OnceInv /\ [Next]_vars => OnceInv'
  BY OnceStep
<1>3. OnceInv => NeverOvercharged
  BY DEF OnceInv, NeverOvercharged
<1> QED
  BY InvHolds, <1>1, <1>2, <1>3, PTL DEF Spec

=============================================================================
