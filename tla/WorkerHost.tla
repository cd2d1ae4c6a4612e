----------------------------- MODULE WorkerHost -----------------------------
(***************************************************************************)
(* One job in time, from the queue to its first verdict: the worker's tick,*)
(* the training container's loop and its reports, a cancel request, the    *)
(* sweep, and a worker process that may die at any time.  There is one such*)
(* process; WorkerLock says when that is so.                               *)
(*                                                                         *)
(* TrainingService has every interleaving of the accesses but no durations.*)
(* Here an access takes no time, so a tick is one step, and what takes time*)
(* is bounded by a constant: a fetch, a training step, saving, packaging   *)
(* with uploading, and the pause between two ticks (restarts included).    *)
(* Ages count time units; Advance lets one unit pass.                      *)
(***************************************************************************)
EXTENDS Integers

CONSTANTS
    InitTimeout,   \* INITIALIZING_TIMEOUT
    TrainTimeout,  \* TRAINING_TIMEOUT
    SweepEvery,    \* the period of Cloud Scheduler's job
    TotalSteps,    \* --training-steps
    Reports,       \* the 200 of progress_every
    WriteEvery,    \* MAX_SECONDS_BETWEEN_PROGRESS_WRITES
    MaxFetch,      \* what fetching a dataset takes at most
    MaxStep,       \* what one step of the training loop takes at most
    MaxSave,       \* what writing the checkpoint takes at most
    MaxUpload,     \* what packaging and uploading it takes at most
    MaxGap         \* the longest pause between two ticks: poll interval, restart

Durations == {InitTimeout, TrainTimeout, SweepEvery, WriteEvery,
              MaxFetch, MaxStep, MaxSave, MaxUpload, MaxGap}

\* The time limits and the timeouts are compatible.
ASSUME TimingAssumption ==
    /\ Durations \subseteq Nat
    /\ {TotalSteps, Reports} \subseteq Nat \ {0}
    /\ TrainTimeout <= InitTimeout
    /\ MaxFetch <= InitTimeout
    /\ MaxGap <= InitTimeout
    /\ WriteEvery + MaxStep + MaxGap <= TrainTimeout
    /\ MaxSave + MaxGap + MaxUpload <= TrainTimeout

VARIABLES
    proc,      \* the worker process: "off" or "loop"
    status,    \* the job document's status; "timedOut": failed by the sweep
    hb,        \* the age of its heartbeat_at
    cancel,    \* cancel_requested
    cancelAge, \* since it was requested
    seen,      \* progress, as the document has it
    cont,      \* the container
    hung,      \* it makes no further step
    step,      \* the steps it has made
    stepAge,   \* since the current step, or saving, began
    file,      \* progress.json
    writeAge,  \* since last_write_at
    busy,      \* "fetch" or "upload": what the tick in progress is doing
    gap,       \* since the last tick ended, or since busy began
    upset,     \* a worker died while fetching or uploading
    sweepGap   \* since the last sweep

jobVars == <<status, hb, cancel, cancelAge, seen>>
contVars == <<cont, hung, step, stepAge, file, writeAge>>
workVars == <<busy, gap, upset>>
vars == <<proc, jobVars, contVars, workVars, sweepGap>>

\* What progress.json holds.  A NaN is a loss like any other to the loop and
\* to JSON.  Step 0: no file.
Progress == [step : Nat, nan : BOOLEAN]
NoProgress == [step |-> 0, nan |-> FALSE]

Running == status \in {"initializing", "training"}
Active == status = "queued" \/ Running
Exited == cont \in {"ok", "err"}

\* writeAge is not told apart beyond this.
MaxAge == TrainTimeout + SweepEvery + MaxGap + WriteEvery + 1

TypeOK ==
    /\ proc \in {"off", "loop"}
    /\ status \in {"queued", "initializing", "training",
                   "completed", "failed", "timedOut", "cancelled"}
    /\ hb \in Nat /\ cancelAge \in Nat /\ stepAge \in Nat /\ gap \in Nat /\ sweepGap \in Nat
    /\ cancel \in BOOLEAN /\ hung \in BOOLEAN /\ upset \in BOOLEAN
    /\ cont \in {"none", "loading", "training", "saving", "ok", "err"}
    /\ seen \in Progress /\ file \in Progress
    /\ step \in 0 .. TotalSteps
    /\ writeAge \in 0 .. MaxAge
    /\ busy \in {"no", "fetch", "upload"}

Init ==
    /\ proc = "off"
    /\ status = "queued" /\ hb = 0 /\ cancel = FALSE /\ cancelAge = 0 /\ seen = NoProgress
    /\ cont = "none" /\ hung = FALSE /\ step = 0 /\ stepAge = 0
    /\ file = NoProgress /\ writeAge = 0
    /\ busy = "no" /\ gap = 0 /\ upset = FALSE
    /\ sweepGap = 0

-----------------------------------------------------------------------------
(* main.                                                                   *)

WorkerStarts ==
    /\ proc = "off"
    /\ proc' = "loop"
    /\ UNCHANGED <<jobVars, contVars, workVars, sweepGap>>

\* Killed, or an exception main does not catch.
WorkerDies ==
    /\ proc = "loop"
    /\ proc' = "off"
    /\ IF busy # "no"
       THEN busy' = "no" /\ gap' = 0 /\ upset' = TRUE
       ELSE UNCHANGED workVars
    /\ UNCHANGED <<jobVars, contVars, sweepGap>>

-----------------------------------------------------------------------------
(* The worker's tick.                                                      *)

Ticks == proc = "loop" /\ busy = "no"

\* JobPoller starts the job: its heartbeat is seeded, then the dataset fetched.
StartJob ==
    /\ Ticks /\ status = "queued" /\ ~cancel
    /\ status' = "initializing" /\ hb' = 0
    /\ busy' = "fetch" /\ gap' = 0
    /\ UNCHANGED <<proc, cancel, cancelAge, seen, contVars, upset, sweepGap>>

\* The container starts, or the start fails.  Either way the copy taken before
\* the fetch is written back, without a cancel request that came meanwhile;
\* the monitor then finds the container alive.
FetchEnds ==
    /\ proc = "loop" /\ busy = "fetch" /\ Running
    /\ \/ cont' = "loading" /\ hb' = 0 /\ UNCHANGED status
       \/ status' = "failed" /\ UNCHANGED <<cont, hb>>
    /\ cancel' = FALSE /\ cancelAge' = 0
    /\ busy' = "no" /\ gap' = 0
    /\ UNCHANGED <<proc, seen, hung, step, stepAge, file, writeAge, upset, sweepGap>>

\* process_cancellations: the container is killed.  Killing one that has
\* exited raises, which ends the process before it reaches the monitor.
CancelJob ==
    /\ Ticks /\ Active /\ cancel
    /\ gap' = 0
    /\ \/ /\ ~Exited
          /\ status' = "cancelled"
          /\ cont' = IF cont = "none" THEN "none" ELSE "err"
          /\ UNCHANGED proc
       \/ /\ Exited
          /\ proc' = "off"
          /\ UNCHANGED <<status, cont>>
    /\ UNCHANGED <<hb, cancel, cancelAge, seen, hung, step, stepAge, file, writeAge,
                   busy, upset, sweepGap>>

\* Mutant: a file read again is progress.
ProgressChanged_Always(previous, current) == TRUE

\* (step, loss) of the two; a NaN differs from itself.
ProgressChanged(previous, current) ==
    previous.step # current.step \/ previous.nan \/ current.nan

\* JobCompletionMonitor.tick, up to the end of a failed job or to the upload.
Monitor ==
    /\ Ticks /\ Running /\ ~cancel
    /\ LET reported == file.step > 0
           changed == reported /\ ProgressChanged(seen, file)
           alive == ~reported /\ status = "initializing" /\ ~Exited
       IN  /\ status' = IF cont = "err" THEN "failed"
                        ELSE IF reported THEN "training" ELSE status
           /\ seen' = IF changed THEN file ELSE seen
           /\ hb' = IF changed \/ alive THEN 0 ELSE hb
    /\ busy' = IF cont = "ok" THEN "upload" ELSE "no"
    /\ gap' = 0
    /\ UNCHANGED <<proc, cancel, cancelAge, contVars, upset, sweepGap>>

UploadEnds ==
    /\ proc = "loop" /\ busy = "upload" /\ Running
    /\ status' \in {"completed", "failed"}
    /\ busy' = "no" /\ gap' = 0
    /\ UNCHANGED <<proc, hb, cancel, cancelAge, seen, contVars, upset, sweepGap>>

-----------------------------------------------------------------------------
(* The container.                                                          *)

\* Parsing, building the policy and loading the dataset are over.
LoopStarts ==
    /\ cont = "loading" /\ ~hung /\ Running
    /\ cont' = "training" /\ stepAge' = 0 /\ writeAge' = 0
    /\ UNCHANGED <<proc, jobVars, hung, step, file, workVars, sweepGap>>

ProgressEvery ==
    LET every == TotalSteps \div Reports IN IF every > 1 THEN every ELSE 1

\* Mutant: the cadence is by steps alone.
MustWrite_ByStep(n) == n % ProgressEvery = 0 \/ n = TotalSteps

\* The loop's condition, evaluated once at the end of each step.
MustWrite(n) ==
    \/ n % ProgressEvery = 0
    \/ n = TotalSteps
    \/ writeAge >= WriteEvery

\* Mutant: one step too many.
LoopEnds_OneMore(n) == n > TotalSteps

LoopEnds(n) == n = TotalSteps

\* The body of run_training_loop, with its write_progress; after the last step
\* write_checkpoint begins.
StepEnds ==
    /\ cont = "training" /\ ~hung /\ Running
    /\ step' = step + 1 /\ stepAge' = 0
    /\ cont' = IF LoopEnds(step + 1) THEN "saving" ELSE "training"
    /\ IF MustWrite(step + 1)
       THEN (\E nan \in BOOLEAN : file' = [step |-> step + 1, nan |-> nan]) /\ writeAge' = 0
       ELSE UNCHANGED <<file, writeAge>>
    /\ UNCHANGED <<proc, jobVars, hung, workVars, sweepGap>>

ContainerExits ==
    /\ ~hung /\ Running
    /\ \/ cont = "saving" /\ cont' = "ok"
       \/ cont \in {"loading", "training", "saving"} /\ cont' = "err"
    /\ UNCHANGED <<proc, jobVars, hung, step, stepAge, file, writeAge, workVars, sweepGap>>

\* A deadlocked driver, a stalled disk.
ContainerHangs ==
    /\ cont \in {"loading", "training", "saving"} /\ ~hung /\ Running
    /\ hung' = TRUE
    /\ UNCHANGED <<proc, jobVars, cont, step, stepAge, file, writeAge, workVars, sweepGap>>

-----------------------------------------------------------------------------
(* The backend, and time.                                                  *)

RequestCancel ==
    /\ Active /\ ~cancel
    /\ cancel' = TRUE /\ cancelAge' = 0
    /\ UNCHANGED <<proc, status, hb, seen, contVars, workVars, sweepGap>>

\* Mutant: a job that is to be cancelled is left to the worker.
IsTimedOut_NotCancelled ==
    /\ ~cancel
    /\ \/ status = "initializing" /\ hb > InitTimeout
       \/ status = "training" /\ hb > TrainTimeout

IsTimedOut ==
    \/ status = "initializing" /\ hb > InitTimeout
    \/ status = "training" /\ hb > TrainTimeout

\* Triggered every SweepEvery, and whenever someone calls the endpoint.
Sweep ==
    /\ Active
    /\ status' = IF IsTimedOut THEN "timedOut" ELSE status
    /\ sweepGap' = 0
    /\ UNCHANGED <<proc, hb, cancel, cancelAge, seen, contVars, workVars>>

\* How long the tick in progress, or the pause before the next, may last.
GapLimit ==
    IF busy = "fetch" THEN MaxFetch ELSE IF busy = "upload" THEN MaxUpload ELSE MaxGap

\* Nothing that is due is put off.
NothingDue ==
    /\ gap < GapLimit
    /\ ~hung => (cont = "training" => stepAge < MaxStep) /\ (cont = "saving" => stepAge < MaxSave)
    /\ sweepGap < SweepEvery

Advance ==
    /\ Active /\ NothingDue
    /\ hb' = IF Running THEN hb + 1 ELSE 0
    /\ cancelAge' = IF cancel THEN cancelAge + 1 ELSE 0
    /\ stepAge' = IF cont \in {"training", "saving"} /\ ~hung THEN stepAge + 1 ELSE stepAge
    /\ writeAge' = IF cont \in {"none", "loading"} \/ writeAge = MaxAge THEN writeAge ELSE writeAge + 1
    /\ gap' = gap + 1
    /\ sweepGap' = sweepGap + 1
    /\ UNCHANGED <<proc, status, cancel, seen, cont, hung, step, file, busy, upset>>

-----------------------------------------------------------------------------
WorkerStep ==
    \/ WorkerStarts \/ WorkerDies
    \/ StartJob \/ FetchEnds \/ CancelJob \/ Monitor \/ UploadEnds

ContainerStep == LoopStarts \/ StepEnds \/ ContainerExits \/ ContainerHangs

Next ==
    \/ WorkerStep
    \/ ContainerStep
    \/ RequestCancel \/ Sweep \/ Advance

Spec == Init /\ [][Next]_vars

-----------------------------------------------------------------------------
(* Properties.                                                             *)

\* The sweep never fails a job whose container works within its time limits
\* and that nobody asked to cancel, however the ticks, the reports and the
\* sweep fall, and although the worker may die at any time but in the middle
\* of a fetch or an upload.
HealthySurvives == status = "timedOut" => hung \/ cancel \/ upset

\* A job whose progress.json has not changed for the timeout, one tick and one
\* sweep has ended, be its container hung, dead or saving; unless the last loss
\* was NaN, which the worker takes for progress at every tick.
QuietEndsSoon ==
    status = "training" /\ ~file.nan => writeAge <= TrainTimeout + MaxGap + SweepEvery

\* A cancel request that stands has ended the job by the longer timeout and
\* one sweep, also when the worker dies at each attempt to kill a container
\* that has exited.
CancelEndsSoon == Running /\ cancel => cancelAge <= InitTimeout + SweepEvery

-----------------------------------------------------------------------------
(* What the comments say and the code does not do.                         *)

\* heartbeat.py: the heartbeat is updated only when (step, loss) changes, so a
\* job whose progress.json stands still has ended, whatever its last loss.
StillEndsSoon == status = "training" => writeAge <= TrainTimeout + MaxGap + SweepEvery

-----------------------------------------------------------------------------
(* The inductive invariant behind the properties that hold.                *)

Unseen == seen.step # file.step

\* What the phases of job, container and worker say about each other.
PhaseInv ==
    /\ seen.step <= file.step /\ file.step <= step
    /\ ~Unseen => seen = file
    /\ status \in {"queued", "initializing"} => seen = NoProgress
    /\ status = "training" => file.step > 0
    /\ cont \in {"none", "loading"} => file = NoProgress /\ step = 0
    /\ cont = "training" => step < TotalSteps
    /\ cont \in {"saving", "ok"} => file.step > 0
    /\ status = "queued" => cont = "none"
    /\ Running /\ busy = "fetch" => status = "initializing" /\ cont = "none" /\ hb = gap
    /\ Running /\ busy = "upload" => status = "training" /\ cont = "ok" /\ ~Unseen
    /\ Active /\ busy # "no" => Running

\* Nothing is overdue.
DueInv ==
    /\ Active => gap <= GapLimit
    /\ sweepGap <= SweepEvery
    /\ ~hung /\ cont = "training" => stepAge <= MaxStep /\ writeAge <= WriteEvery + stepAge
    /\ ~hung /\ cont = "saving" => stepAge <= MaxSave /\ writeAge <= stepAge

\* How old the heartbeat of a healthy job can be, by what the worker has yet
\* to see.
HealthyInv ==
    Running /\ ~hung /\ ~cancel /\ ~upset =>
        /\ status = "initializing" => hb <= gap
        /\ status = "training" /\ Unseen => hb <= WriteEvery + MaxStep + gap
        /\ status = "training" /\ ~Unseen =>
             /\ cont \in {"training", "saving"} => hb <= writeAge
             /\ cont = "ok" /\ busy = "no" => hb <= MaxSave + gap
             /\ cont = "ok" /\ busy = "upload" => hb <= MaxSave + MaxGap + gap
             /\ cont = "err" => hb <= WriteEvery + MaxStep + gap \/ hb <= MaxSave + gap

\* How old it must be, and how old the sweep lets it grow.
AgeInv ==
    /\ ~cancel /\ Running /\ Unseen => writeAge <= gap
    /\ status = "training" /\ ~file.nan => writeAge <= hb + MaxGap
    /\ Running /\ cancel => cancelAge <= hb
    /\ status = "initializing" => hb <= InitTimeout + sweepGap
    /\ status = "training" => hb <= TrainTimeout + sweepGap

HostInv == TypeOK /\ PhaseInv /\ DueInv /\ HealthyInv /\ AgeInv /\ HealthySurvives

=============================================================================
