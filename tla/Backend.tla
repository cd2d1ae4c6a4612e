------------------------------ MODULE Backend ------------------------------
(***************************************************************************)
(* The backend API's writes to the store: submitting a job, requesting a   *)
(* cancellation, changing a password, and the timeout sweep that Cloud     *)
(* Scheduler triggers.  Every request runs concurrently with every other   *)
(* and with the worker: it reads documents in one step and writes the      *)
(* document it computed from them in another.                              *)
(***************************************************************************)
EXTENDS Store

CONSTANTS
    CancelRequests,   \* bound: the cancel requests clients ever send
    PasswordChangers  \* bound: the users who change their password, once

VARIABLES
    submits,    \* [Jobs -> request state] of POST /jobs
    cancels,    \* [CancelRequests -> request state] of POST /jobs/{id}/cancel
    passwords,  \* [Users -> request state] of POST /auth/change-password
    sweep       \* [Jobs -> Job]: the documents the running sweep has yet to write

backendVars == <<submits, cancels, passwords, sweep>>

ASSUME BackendAssumption == PasswordChangers \subseteq Users

\* A submission has read its user ("read"), passed the quota check
\* ("checked"), or ended.  user is the copy it holds.
Submission == [at : {"idle", "read", "checked", "done"}, user : User]

\* A cancel request that is "read" holds a copy of the job it names.
Cancellation == [at : {"idle", "read", "done"}, job : Jobs \cup {0}, doc : Job]

PasswordChange == [at : {"idle", "read", "done"}, user : User]

NoSweep == [j \in Jobs |-> NoJob]

BackendTypeOK ==
    /\ submits \in [Jobs -> Submission]
    /\ cancels \in [CancelRequests -> Cancellation]
    /\ \A r \in CancelRequests : cancels[r].at = "read" => cancels[r].job \in Jobs
    /\ passwords \in [Users -> PasswordChange]
    /\ sweep \in [Jobs -> Job]

BackendInit ==
    /\ submits = [j \in Jobs |-> [at |-> "idle", user |-> NewUser]]
    /\ cancels = [r \in CancelRequests |-> [at |-> "idle", job |-> 0, doc |-> NoJob]]
    /\ passwords = [u \in Users |-> [at |-> "idle", user |-> NewUser]]
    /\ sweep = NoSweep

-----------------------------------------------------------------------------
(* JobService.create_job, in its three accesses to the store.              *)

SubmitEnds(j) == submits' = [submits EXCEPT ![j] = [at |-> "done", user |-> NewUser]]

\* users.get
SubmitReadUser(j) ==
    /\ submits[j].at = "idle"
    /\ submits' = [submits EXCEPT ![j] = [at |-> "read", user |-> users[Owner[j]]]]
    /\ UNCHANGED <<storeVars, cancels, passwords, sweep>>

\* list_for_user, then the quota check of the user read earlier.  created_at
\* is taken right after, so submissions are numbered by this step.
SubmitCheck(j) ==
    LET active == {i \in ListByStatuses(ActiveStatuses) : Owner[i] = Owner[j]}
    IN  /\ submits[j].at = "read"
        /\ \A i \in Jobs : i < j => submits[i].at \in {"checked", "done"}
        /\ IF CanCreateJob(submits[j].user, active, today)
           THEN submits' = [submits EXCEPT ![j] = [at |-> "checked", user |-> NewUser]]
           ELSE SubmitEnds(j)       \* QuotaExceededError
        /\ UNCHANGED <<storeVars, cancels, passwords, sweep>>

\* jobs.create
SubmitCreate(j) ==
    /\ submits[j].at = "checked"
    /\ UpdateJob(j, NewJob)
    /\ SubmitEnds(j)
    /\ UNCHANGED <<users, checkpoints, hostVars, today, cancels, passwords, sweep>>

-----------------------------------------------------------------------------
(* JobService.request_cancel.                                              *)

\* jobs.get; a job that is not active answers 409 and changes nothing.
CancelRead(r, j) ==
    /\ cancels[r].at = "idle"
    /\ CanRequestCancel(jobs[j].status)
    /\ cancels' = [cancels EXCEPT ![r] = [at |-> "read", job |-> j, doc |-> jobs[j]]]
    /\ UNCHANGED <<storeVars, submits, passwords, sweep>>

CancelWrite(r) ==
    /\ cancels[r].at = "read"
    /\ UpdateJob(cancels[r].job, RequestCancel(cancels[r].doc))
    /\ cancels' = [cancels EXCEPT ![r] = [at |-> "done", job |-> 0, doc |-> NoJob]]
    /\ UNCHANGED <<users, checkpoints, hostVars, today, submits, passwords, sweep>>

-----------------------------------------------------------------------------
(* AuthService.change_password: the user document is written back whole.   *)

PasswordRead(u) ==
    /\ u \in PasswordChangers
    /\ passwords[u].at = "idle"
    /\ passwords' = [passwords EXCEPT ![u] = [at |-> "read", user |-> users[u]]]
    /\ UNCHANGED <<storeVars, submits, cancels, sweep>>

PasswordWrite(u) ==
    /\ passwords[u].at = "read"
    /\ UpdateUser(u, [passwords[u].user EXCEPT !.password = "new"])
    /\ passwords' = [passwords EXCEPT ![u] = [at |-> "done", user |-> NewUser]]
    /\ UNCHANGED <<jobs, checkpoints, hostVars, today, submits, cancels, sweep>>

-----------------------------------------------------------------------------
(* TimeoutService.check_and_fail_timed_out_jobs.                           *)

\* One query decides; what will be written is computed from its copies.  A
\* sweep that finds nothing to fail changes nothing.
SweepList ==
    LET timedOut == {j \in ListByStatuses(RunningStatuses) : IsTimedOut(jobs[j])}
    IN  /\ sweep = NoSweep
        /\ timedOut # {}
        /\ sweep' = [j \in Jobs |->
                        IF j \in timedOut
                        THEN Failed(jobs[j], "timeout")
                        ELSE NoJob]
        /\ UNCHANGED <<storeVars, submits, cancels, passwords>>

SweepFail(j) ==
    /\ IsFirst(j, {i \in Jobs : sweep[i] # NoJob})
    /\ UpdateJob(j, sweep[j])
    /\ sweep' = [sweep EXCEPT ![j] = NoJob]
    /\ UNCHANGED <<users, checkpoints, hostVars, today, submits, cancels, passwords>>

-----------------------------------------------------------------------------
BackendNext ==
    \/ \E j \in Jobs : SubmitReadUser(j) \/ SubmitCheck(j) \/ SubmitCreate(j) \/ SweepFail(j)
    \/ \E r \in CancelRequests : CancelWrite(r) \/ \E j \in Jobs : CancelRead(r, j)
    \/ \E u \in Users : PasswordRead(u) \/ PasswordWrite(u)
    \/ SweepList

=============================================================================
