----------------------------- MODULE JobDomain -----------------------------
(***************************************************************************)
(* The pure rules of src/src/common: the job and user documents, the job   *)
(* status state machine, the heartbeat timeouts and the per-user quota.    *)
(* Nothing here performs I/O; Backend and Worker apply these rules to      *)
(* documents they have read earlier and write the result back whole.       *)
(*                                                                         *)
(* Points in time are kept as ages.  A document's hb is the number of      *)
(* clock units since its heartbeat_at, saturating one unit above the       *)
(* longest timeout (no rule tells larger ages apart); Age makes it older.  *)
(***************************************************************************)
EXTENDS Integers, FiniteSets

CONSTANTS
    InitTimeout,    \* INITIALIZING_TIMEOUT, in clock units
    TrainTimeout,   \* TRAINING_TIMEOUT, in clock units
    MaxConcurrent,  \* MAX_CONCURRENT_JOBS
    MaxDaily,       \* MAX_DAILY_JOBS
    MaxStep,        \* the number of different progress.json contents of a job
    MaxDay          \* bound: the last calendar day of a behaviour

ASSUME DomainAssumption ==
    /\ InitTimeout \in Nat
    /\ TrainTimeout \in Nat
    /\ TrainTimeout <= InitTimeout
    /\ MaxConcurrent \in Nat \ {0}
    /\ MaxDaily \in Nat \ {0}
    /\ MaxStep \in Nat \ {0}
    /\ MaxDay \in Nat

-----------------------------------------------------------------------------
(* Job documents.                                                          *)

JobStatus == {"queued", "initializing", "training",
              "completed", "failed", "cancelled"}

ActiveStatuses == {"queued", "initializing", "training"}

\* The statuses every component lists to find "the" running job
\* (_MONITORED_STATUSES, _ACTIVE_CONTAINER_STATUSES).
RunningStatuses == {"initializing", "training"}

TerminalStatuses == {"completed", "failed", "cancelled"}

NoHeartbeat == -1
MaxAge == InitTimeout + 1

\* Error messages, told apart only where a property needs it.
ErrorMessage == {"none", "start", "timeout", "upload", "other"}

\* A Job as the repository stores it.  The status "absent" marks a job id
\* without a document.  container is container_id, cancel is cancel_requested,
\* checkpoint is checkpoint_gcs_path.
Job == [status     : JobStatus \cup {"absent"},
        container  : {"none", "id"},
        hb         : NoHeartbeat .. MaxAge,
        progress   : 0 .. MaxStep,          \* 0: None
        cancel     : {"no", "yes"},
        checkpoint : {"none", "path"},
        error      : ErrorMessage]

NoJob == [status |-> "absent", container |-> "none", hb |-> NoHeartbeat,
          progress |-> 0, cancel |-> "no", checkpoint |-> "none",
          error |-> "none"]

NewJob == [NoJob EXCEPT !.status = "queued"]

HasContainer(job) == job.container = "id"
CancelRequested(job) == job.cancel = "yes"

-----------------------------------------------------------------------------
(* The status state machine.                                               *)

AllowedTransitions ==
    [queued       |-> {"initializing", "cancelled"},
     initializing |-> {"training", "failed", "cancelled"},
     training     |-> {"completed", "failed", "cancelled"},
     completed    |-> {},
     failed       |-> {},
     cancelled    |-> {}]

CanTransition(from, to) == from \in JobStatus /\ to \in AllowedTransitions[from]

\* Callers reach this only where CanTransition holds (TransitionsLegal);
\* elsewhere the code raises InvalidTransitionError.  No rule reads the
\* heartbeat of a job that has ended, so its age is not kept.
Transition(job, to) ==
    [job EXCEPT !.status = to,
                !.hb = IF to \in TerminalStatuses THEN NoHeartbeat ELSE @]

CanRequestCancel(status) == status \in ActiveStatuses

RequestCancel(job) == [job EXCEPT !.cancel = "yes"]

\* The documents that end a job.
Failed(job, message) == [Transition(job, "failed") EXCEPT !.error = message]
Completed(job) == [Transition(job, "completed") EXCEPT !.checkpoint = "path"]

-----------------------------------------------------------------------------
(* Heartbeats.                                                             *)

TimeoutForStatus(status) ==
    IF status = "initializing" THEN InitTimeout ELSE TrainTimeout

\* Mutant: only initializing jobs time out.
IsTimedOut_InitializingOnly(job) ==
    /\ job.status = "initializing"
    /\ job.hb # NoHeartbeat
    /\ job.hb > TimeoutForStatus(job.status)

IsTimedOut(job) ==
    /\ job.status \in RunningStatuses
    /\ job.hb # NoHeartbeat
    /\ job.hb > TimeoutForStatus(job.status)

\* The training loop's step and loss move together, so one number stands for
\* the pair that is compared.
ProgressChanged(previous, current) == previous # current

Older(hb) == IF hb \in {NoHeartbeat, MaxAge} THEN hb ELSE hb + 1
Age(job) == [job EXCEPT !.hb = Older(job.hb)]

-----------------------------------------------------------------------------
(* Users and their quota.                                                  *)

NeverReset == -1

\* used: daily_quota_used; day: quota_reset_date; password: which of the
\* two passwords the stored hash is of.
User == [used : Nat, day : NeverReset .. MaxDay, password : {"old", "new"}]

NewUser == [used |-> 0, day |-> NeverReset, password |-> "old"]

HasFreeConcurrentSlot(active) == Cardinality(active) < MaxConcurrent

EffectiveDailyUsed(user, today) == IF user.day = today THEN user.used ELSE 0

HasDailyQuotaRemaining(user, today) == EffectiveDailyUsed(user, today) < MaxDaily

CanCreateJob(user, active, today) ==
    /\ HasFreeConcurrentSlot(active)
    /\ HasDailyQuotaRemaining(user, today)

\* Mutant: the reset of a new day without counting the job.
RecordJobStarted_NotCounted(user, today) ==
    [user EXCEPT !.used = EffectiveDailyUsed(user, today), !.day = today]

\* Mutant: the count of the day before is carried on.
RecordJobStarted_NoReset(user, today) ==
    [user EXCEPT !.used = user.used + 1, !.day = today]

RecordJobStarted(user, today) ==
    [user EXCEPT !.used = EffectiveDailyUsed(user, today) + 1, !.day = today]

=============================================================================
