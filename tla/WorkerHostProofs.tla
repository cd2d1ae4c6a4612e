-------------------------- MODULE WorkerHostProofs --------------------------
(***************************************************************************)
(* WorkerHost's invariant and what follows from it, for all durations that *)
(* TimingAssumption allows.                                                *)
(***************************************************************************)
EXTENDS WorkerHost, TLAPS

\* The constants are numbers; the rest of TimingAssumption without the sets.
LEMMA Numbers ==
    /\ InitTimeout \in Nat /\ TrainTimeout \in Nat /\ SweepEvery \in Nat /\ WriteEvery \in Nat
    /\ MaxFetch \in Nat /\ MaxStep \in Nat /\ MaxSave \in Nat /\ MaxUpload \in Nat /\ MaxGap \in Nat
    /\ TotalSteps \in Nat /\ TotalSteps > 0
    /\ TrainTimeout <= InitTimeout
    /\ MaxFetch <= InitTimeout
    /\ MaxGap <= InitTimeout
    /\ WriteEvery + MaxStep + MaxGap <= TrainTimeout
    /\ MaxSave + MaxGap + MaxUpload <= TrainTimeout
  BY TimingAssumption DEF Durations

LEMMA InitHostInv == Init => HostInv
  <1> SUFFICES ASSUME Init PROVE HostInv
    OBVIOUS
  <1> USE Numbers DEF Init, Progress, NoProgress, Running, Active, Unseen
  <1>1. TypeOK
    <2>1. writeAge \in 0 .. MaxAge /\ step \in 0 .. TotalSteps
      BY DEF MaxAge
    <2>2. cancel \in BOOLEAN /\ hung \in BOOLEAN /\ upset \in BOOLEAN
      BY Zenon
    <2> QED
      BY <2>1, <2>2 DEF TypeOK
  <1>2. HealthySurvives
    BY DEF HealthySurvives
  <1>3. PhaseInv
    BY DEF PhaseInv
  <1>4. DueInv
    BY DEF DueInv, GapLimit
  <1>5. HealthyInv /\ AgeInv
    BY DEF HealthyInv, AgeInv
  <1> QED
    BY <1>1, <1>2, <1>3, <1>4, <1>5 DEF HostInv

\* Types are kept by every step.
LEMMA TypeStep == TypeOK /\ PhaseInv /\ [Next]_vars => TypeOK'
  <1> SUFFICES ASSUME TypeOK, PhaseInv, [Next]_vars PROVE TypeOK'
    OBVIOUS
  <1> USE Numbers DEF TypeOK, vars, jobVars, contVars, workVars
  <1>1. CASE WorkerStarts
    BY <1>1 DEF WorkerStarts
  <1>2. CASE WorkerDies
    <2>1. CASE busy # "no"
      <3>1. upset' \in BOOLEAN
        BY <1>2, <2>1, Zenon DEF WorkerDies
      <3> QED
        BY <1>2, <2>1, <3>1 DEF WorkerDies
    <2>2. CASE busy = "no"
      BY <1>2, <2>2 DEF WorkerDies
    <2> QED
      BY <2>1, <2>2
  <1>3. CASE StartJob
    BY <1>3 DEF StartJob, Ticks
  <1>4. CASE FetchEnds
    <2>1. cancel' \in BOOLEAN
      BY <1>4, Zenon DEF FetchEnds
    <2> QED
      BY <1>4, <2>1 DEF FetchEnds
  <1>5. CASE CancelJob
    BY <1>5 DEF CancelJob, Ticks, Exited
  <1>6. CASE Monitor
    BY <1>6 DEF Monitor, Ticks, Exited, ProgressChanged, Progress, MaxAge, PhaseInv
  <1>7. CASE UploadEnds
    BY <1>7 DEF UploadEnds
  <1>8. CASE LoopStarts
    BY <1>8 DEF LoopStarts, Progress, MaxAge, PhaseInv
  <1>9. CASE StepEnds
    BY <1>9 DEF StepEnds, MustWrite, LoopEnds, Progress, MaxAge, PhaseInv
  <1>10. CASE ContainerExits
    BY <1>10 DEF ContainerExits
  <1>11. CASE ContainerHangs
    BY <1>11 DEF ContainerHangs
  <1>12. CASE RequestCancel
    BY <1>12 DEF RequestCancel
  <1>13. CASE Sweep
    BY <1>13 DEF Sweep, IsTimedOut
  <1>14. CASE Advance
    BY <1>14 DEF Advance, NothingDue, Progress, MaxAge, PhaseInv
  <1>15. CASE UNCHANGED vars
    BY <1>15
  <1> QED
    BY <1>1, <1>2, <1>3, <1>4, <1>5, <1>6, <1>7, <1>8, <1>9, <1>10, <1>11, <1>12, <1>13, <1>14, <1>15 DEF Next, WorkerStep, ContainerStep

\* One step per action, and under it one per part of the invariant.
LEMMA HostInvStep == HostInv /\ [Next]_vars => HostInv'
  <1> SUFFICES ASSUME HostInv, [Next]_vars PROVE HostInv'
    OBVIOUS
  <1>a. TypeOK'
    BY TypeStep DEF HostInv
  <1> USE Numbers, <1>a DEF HostInv, TypeOK, Running, Active, Unseen, Progress, NoProgress, GapLimit,
      vars, jobVars, contVars, workVars
  <1>1. CASE WorkerStarts
    <2>1. PhaseInv'
      BY <1>1 DEF WorkerStarts, PhaseInv
    <2>2. DueInv'
      BY <1>1 DEF WorkerStarts, DueInv, PhaseInv
    <2>3. HealthyInv'
      BY <1>1 DEF WorkerStarts, HealthyInv, PhaseInv, DueInv
    <2>4. AgeInv'
      BY <1>1 DEF WorkerStarts, AgeInv, PhaseInv, DueInv
    <2>5. HealthySurvives'
      BY <1>1 DEF WorkerStarts, HealthySurvives, HealthyInv, PhaseInv, DueInv
    <2> QED
      BY <2>1, <2>2, <2>3, <2>4, <2>5
  <1>2. CASE WorkerDies
    <2>1. PhaseInv'
      BY <1>2 DEF WorkerDies, PhaseInv
    <2>2. DueInv'
      BY <1>2 DEF WorkerDies, DueInv, PhaseInv
    <2>3. HealthyInv'
      BY <1>2 DEF WorkerDies, HealthyInv, PhaseInv, DueInv
    <2>4. AgeInv'
      BY <1>2 DEF WorkerDies, AgeInv, PhaseInv, DueInv
    <2>5. HealthySurvives'
      BY <1>2 DEF WorkerDies, HealthySurvives, HealthyInv, PhaseInv, DueInv
    <2> QED
      BY <2>1, <2>2, <2>3, <2>4, <2>5
  <1>3. CASE StartJob
    <2>1. PhaseInv'
      BY <1>3 DEF StartJob, Ticks, PhaseInv
    <2>2. DueInv'
      BY <1>3 DEF StartJob, Ticks, DueInv, PhaseInv
    <2>3. HealthyInv'
      BY <1>3 DEF StartJob, Ticks, HealthyInv, PhaseInv, DueInv
    <2>4. AgeInv'
      BY <1>3 DEF StartJob, Ticks, AgeInv, PhaseInv, DueInv
    <2>5. HealthySurvives'
      BY <1>3 DEF StartJob, Ticks, HealthySurvives, HealthyInv, PhaseInv, DueInv
    <2> QED
      BY <2>1, <2>2, <2>3, <2>4, <2>5
  <1>4. CASE FetchEnds
    <2>1. PhaseInv'
      BY <1>4 DEF FetchEnds, PhaseInv
    <2>2. DueInv'
      BY <1>4 DEF FetchEnds, DueInv, PhaseInv
    <2>3. HealthyInv'
      BY <1>4 DEF FetchEnds, HealthyInv, PhaseInv, DueInv
    <2>4. AgeInv'
      <3>1. ~cancel' /\ ~Unseen' /\ status' # "training"
        BY <1>4 DEF FetchEnds, PhaseInv
      <3>2. status' = "initializing" => hb' <= InitTimeout + sweepGap'
        BY <1>4 DEF FetchEnds
      <3> QED
        BY <3>1, <3>2 DEF AgeInv
    <2>5. HealthySurvives'
      BY <1>4 DEF FetchEnds, HealthySurvives, HealthyInv, PhaseInv, DueInv
    <2> QED
      BY <2>1, <2>2, <2>3, <2>4, <2>5
  <1>5. CASE CancelJob
    <2>1. PhaseInv'
      BY <1>5 DEF CancelJob, Ticks, Exited, PhaseInv
    <2>2. DueInv'
      BY <1>5 DEF CancelJob, Ticks, Exited, DueInv, PhaseInv
    <2>3. HealthyInv'
      BY <1>5 DEF CancelJob, Ticks, Exited, HealthyInv, PhaseInv, DueInv
    <2>4. AgeInv'
      BY <1>5 DEF CancelJob, Ticks, Exited, AgeInv, PhaseInv, DueInv
    <2>5. HealthySurvives'
      BY <1>5 DEF CancelJob, Ticks, Exited, HealthySurvives, HealthyInv, PhaseInv, DueInv
    <2> QED
      BY <2>1, <2>2, <2>3, <2>4, <2>5
  <1>6. CASE Monitor
    <2>1. PhaseInv'
      BY <1>6 DEF Monitor, Ticks, Exited, ProgressChanged, PhaseInv
    <2>2. DueInv'
      BY <1>6 DEF Monitor, Ticks, Exited, ProgressChanged, DueInv, PhaseInv
    <2>3. HealthyInv'
      BY <1>6 DEF Monitor, Ticks, Exited, ProgressChanged, HealthyInv, PhaseInv, DueInv
    <2>4. AgeInv'
      BY <1>6 DEF Monitor, Ticks, Exited, ProgressChanged, AgeInv, PhaseInv, DueInv
    <2>5. HealthySurvives'
      BY <1>6 DEF Monitor, Ticks, Exited, ProgressChanged, HealthySurvives, HealthyInv, PhaseInv, DueInv
    <2> QED
      BY <2>1, <2>2, <2>3, <2>4, <2>5
  <1>7. CASE UploadEnds
    <2>1. PhaseInv'
      BY <1>7 DEF UploadEnds, PhaseInv
    <2>2. DueInv'
      BY <1>7 DEF UploadEnds, DueInv, PhaseInv
    <2>3. HealthyInv'
      BY <1>7 DEF UploadEnds, HealthyInv, PhaseInv, DueInv
    <2>4. AgeInv'
      BY <1>7 DEF UploadEnds, AgeInv, PhaseInv, DueInv
    <2>5. HealthySurvives'
      BY <1>7 DEF UploadEnds, HealthySurvives, HealthyInv, PhaseInv, DueInv
    <2> QED
      BY <2>1, <2>2, <2>3, <2>4, <2>5
  <1>8. CASE LoopStarts
    <2>1. PhaseInv'
      BY <1>8 DEF LoopStarts, PhaseInv
    <2>2. DueInv'
      BY <1>8 DEF LoopStarts, DueInv, PhaseInv
    <2>3. HealthyInv'
      BY <1>8 DEF LoopStarts, HealthyInv, PhaseInv, DueInv
    <2>4. AgeInv'
      BY <1>8 DEF LoopStarts, AgeInv, PhaseInv, DueInv
    <2>5. HealthySurvives'
      BY <1>8 DEF LoopStarts, HealthySurvives, HealthyInv, PhaseInv, DueInv
    <2> QED
      BY <2>1, <2>2, <2>3, <2>4, <2>5
  <1>9. CASE StepEnds
    <2>1. PhaseInv'
      BY <1>9 DEF StepEnds, MustWrite, LoopEnds, PhaseInv
    <2>2. DueInv'
      BY <1>9 DEF StepEnds, MustWrite, LoopEnds, DueInv, PhaseInv
    <2>3. HealthyInv'
      BY <1>9 DEF StepEnds, MustWrite, LoopEnds, HealthyInv, PhaseInv, DueInv
    <2>4. AgeInv'
      BY <1>9 DEF StepEnds, MustWrite, LoopEnds, AgeInv, PhaseInv, DueInv
    <2>5. HealthySurvives'
      BY <1>9 DEF StepEnds, MustWrite, LoopEnds, HealthySurvives, HealthyInv, PhaseInv, DueInv
    <2> QED
      BY <2>1, <2>2, <2>3, <2>4, <2>5
  <1>10. CASE ContainerExits
    <2>1. PhaseInv'
      BY <1>10 DEF ContainerExits, PhaseInv
    <2>2. DueInv'
      BY <1>10 DEF ContainerExits, DueInv, PhaseInv
    <2>3. HealthyInv'
      BY <1>10 DEF ContainerExits, HealthyInv, PhaseInv, DueInv
    <2>4. AgeInv'
      BY <1>10 DEF ContainerExits, AgeInv, PhaseInv, DueInv
    <2>5. HealthySurvives'
      BY <1>10 DEF ContainerExits, HealthySurvives, HealthyInv, PhaseInv, DueInv
    <2> QED
      BY <2>1, <2>2, <2>3, <2>4, <2>5
  <1>11. CASE ContainerHangs
    <2>1. PhaseInv'
      BY <1>11 DEF ContainerHangs, PhaseInv
    <2>2. DueInv'
      BY <1>11 DEF ContainerHangs, DueInv, PhaseInv
    <2>3. HealthyInv'
      BY <1>11 DEF ContainerHangs, HealthyInv, PhaseInv, DueInv
    <2>4. AgeInv'
      BY <1>11 DEF ContainerHangs, AgeInv, PhaseInv, DueInv
    <2>5. HealthySurvives'
      BY <1>11 DEF ContainerHangs, HealthySurvives, HealthyInv, PhaseInv, DueInv
    <2> QED
      BY <2>1, <2>2, <2>3, <2>4, <2>5
  <1>12. CASE RequestCancel
    <2>1. PhaseInv'
      BY <1>12 DEF RequestCancel, PhaseInv
    <2>2. DueInv'
      BY <1>12 DEF RequestCancel, DueInv, PhaseInv
    <2>3. HealthyInv'
      BY <1>12 DEF RequestCancel, HealthyInv, PhaseInv, DueInv
    <2>4. AgeInv'
      BY <1>12 DEF RequestCancel, AgeInv, PhaseInv, DueInv
    <2>5. HealthySurvives'
      BY <1>12 DEF RequestCancel, HealthySurvives, HealthyInv, PhaseInv, DueInv
    <2> QED
      BY <2>1, <2>2, <2>3, <2>4, <2>5
  <1>13. CASE Sweep
    <2>1. PhaseInv'
      BY <1>13 DEF Sweep, IsTimedOut, PhaseInv
    <2>2. DueInv'
      BY <1>13 DEF Sweep, IsTimedOut, DueInv, PhaseInv
    <2>3. HealthyInv'
      BY <1>13 DEF Sweep, IsTimedOut, HealthyInv, PhaseInv, DueInv
    <2>4. AgeInv'
      BY <1>13 DEF Sweep, IsTimedOut, AgeInv, PhaseInv, DueInv
    <2>5. HealthySurvives'
      BY <1>13 DEF Sweep, IsTimedOut, HealthySurvives, HealthyInv, PhaseInv, DueInv
    <2> QED
      BY <2>1, <2>2, <2>3, <2>4, <2>5
  <1>14. CASE Advance
    <2>1. PhaseInv'
      BY <1>14 DEF Advance, NothingDue, PhaseInv
    <2>2. DueInv'
      BY <1>14 DEF Advance, NothingDue, DueInv, PhaseInv, MaxAge
    <2>3. HealthyInv'
      BY <1>14 DEF Advance, NothingDue, HealthyInv, PhaseInv, DueInv, MaxAge
    <2>4. AgeInv'
      BY <1>14 DEF Advance, NothingDue, AgeInv, PhaseInv, DueInv, MaxAge
    <2>5. HealthySurvives'
      BY <1>14 DEF Advance, NothingDue, HealthySurvives, HealthyInv, PhaseInv, DueInv
    <2> QED
      BY <2>1, <2>2, <2>3, <2>4, <2>5
  <1>15. CASE UNCHANGED vars
    <2>1. PhaseInv'
      BY <1>15 DEF PhaseInv
    <2>2. DueInv'
      BY <1>15 DEF DueInv, PhaseInv
    <2>3. HealthyInv'
      BY <1>15 DEF HealthyInv, PhaseInv, DueInv
    <2>4. AgeInv'
      BY <1>15 DEF AgeInv, PhaseInv, DueInv
    <2>5. HealthySurvives'
      BY <1>15 DEF HealthySurvives, HealthyInv, PhaseInv, DueInv
    <2> QED
      BY <2>1, <2>2, <2>3, <2>4, <2>5
  <1> QED
    BY <1>1, <1>2, <1>3, <1>4, <1>5, <1>6, <1>7, <1>8, <1>9, <1>10, <1>11, <1>12, <1>13, <1>14, <1>15 DEF Next, WorkerStep, ContainerStep

\* The invariant holds.
THEOREM HostInvHolds == Spec => []HostInv
  <1>1. Init => HostInv
    BY InitHostInv
  <1>2. HostInv /\ [Next]_vars => HostInv'
    BY HostInvStep
  <1> QED
    BY <1>1, <1>2, PTL DEF Spec

\* The values each variable takes, a job's age and its step included.
THEOREM TypeOKHolds == Spec => []TypeOK
  <1>1. HostInv => TypeOK
    BY DEF HostInv
  <1> QED
    BY <1>1, HostInvHolds, PTL

\* The timeout sweep never fails a healthy job, whatever the durations, if they
\* satisfy TimingAssumption.
THEOREM HealthySurvivesHolds == Spec => []HealthySurvives
  <1>1. HostInv => HealthySurvives
    BY DEF HostInv
  <1> QED
    BY <1>1, HostInvHolds, PTL

\* A training job whose progress.json stands still is ended within the timeout,
\* one tick and one sweep.
THEOREM QuietEndsSoonHolds == Spec => []QuietEndsSoon
  <1>1. HostInv => QuietEndsSoon
    BY Numbers DEF HostInv, TypeOK, Progress, DueInv, AgeInv, QuietEndsSoon, MaxAge
  <1> QED
    BY <1>1, HostInvHolds, PTL

\* A standing cancel request ends the job within the longer timeout and one
\* sweep.
THEOREM CancelEndsSoonHolds == Spec => []CancelEndsSoon
  <1>1. HostInv => CancelEndsSoon
    BY Numbers DEF HostInv, TypeOK, DueInv, AgeInv, CancelEndsSoon, Running
  <1> QED
    BY <1>1, HostInvHolds, PTL

=============================================================================
