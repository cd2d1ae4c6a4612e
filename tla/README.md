# TLA+ specifications of the LeRobot training service

The repository is a small training-as-a-service system. A FastAPI backend on
Cloud Run takes jobs; a worker process on one GPU host runs them in Docker
containers, one at a time; the two share nothing but Firestore documents and a
GCS bucket. This directory holds TLA+ modules of the parts in which ordering,
concurrency and failure matter, TLC configurations that check them on small
instances, and TLAPS proofs for every instance.

Source paths below are relative to the repository: `src/` is its Python tree.

## 1. Inventory

| Part | State it keeps | Operations | How it is reached | What is hard | What makes it correct |
|---|---|---|---|---|---|
| Rules (`src/common`) | none; `Job` and `User` documents are values | `transition`, `request_cancel`, `is_timed_out`, `can_create_job`, `record_job_started` | called by backend and worker on copies | day roll-over, terminal statuses | the callers stay within the state machine |
| Repositories (`src/backend/adapters/firestore`) | collections `jobs`, `users` | `get`, `create`, `update`, two queries | every component | `update` is `document.set(whole document)` without precondition or transaction | - |
| Job API (`job_service.py`) | none between requests | `create_job`, `request_cancel`, `list_jobs_for_user`, `get_download_url` | HTTP, concurrent | read, check, write as separate accesses | concurrency limit, cancel is honoured |
| Timeout sweep (`timeout_service.py`) | none | one query, then a write per timed-out job | Cloud Scheduler, every 5 minutes | races with the worker that is still monitoring | a dead job frees the queue |
| Accounts (`auth_service.py`) | user documents | register, two logins, change password | HTTP | look-up and creation are two accesses; the user document also carries the quota, which the worker rewrites | who registered keeps getting in, with the password last set; no lost charge |
| Uploads (`upload_service.py`) | an object per upload | signed URL, confirm, reject, HF submission | HTTP, client PUT | object or repository is re-read by each check; lifecycle rule deletes the object; the cache keeps an old revision | a job trains on validated data, nothing leaks |
| Validation rules | none | structure, bomb, policy checks | uploads | limits at their boundary, early exits | accepts exactly what the limits allow |
| Worker loop (`main.py`, `job_poller.py`) | locals of one thread | reconcile, then tick: cancel, start, monitor | systemd | every access may interleave with the backend; crash anywhere | one container, charged once, no stuck job |
| Cancel watcher | a list of copies | kill, rmtree, write | tick | copies are stale, kill may raise | the container dies before its directory |
| Completion monitor | a copy of the running job | heartbeat, to training, package, upload, verdict, clean-up | tick | progress read before exit code; sweep in between | completed means uploaded |
| Orphan reconciler | a set of containers | compare, kill | worker start | sees a moment, kills later | no container without a job |
| Docker runner | containers on the host | run, kill, exit code | worker | errors swallowed or raised | - |
| Training containers (`docker/*/train_entrypoint.py`) | `progress.json`, checkpoint | report, finish, fail | bind mount | hang, die, finish while being cancelled; reports at a cadence the worker's timeout must allow | last report before exit 0; a healthy training is never timed out |
| Dataset cache (`dataset_fetcher.py`, `disk_manager.py`) | `<cache>/<repo>`, `<repo>.tmp` | hit, download, rename, evict, sweep of `.tmp` | start of a job | crash in a download or an eviction; LRU by directory mtime | a job is given the whole dataset |
| Worker lock (`lock.py`, the systemd unit) | an flock on the file at a path | open, lock, release | process start | opening and locking are two steps; the file goes with the unit's runtime directory | one loop |
| Frontend (`frontend/src`) | a token, a page, a list of jobs | log in, register, navigate, poll, submit, cancel, log out, reload | HTTP, any order of answers | answers to pages that were left and sessions that are over | the page shows the user's own, latest jobs; a valid session stays |
| Tokens (`jwt_tokens.py`, `deps.py`) | none | issue, decode | every authenticated endpoint | expiry between sending and serving | an expired token is a 401, nothing else is |
| API wiring, settings, captcha, OAuth, in-memory adapters, scripts | - | - | - | - | not modelled: wiring, I/O or cryptography |

`PROJECT.json` lists the same parts with their status, and the hazards at their
lines.

## 2. Modules

    JobDomain            documents, state machine, heartbeats, quota (pure)
      Store              Firestore, object store, Docker, job directories
        Backend          create, cancel, change password, sweep
        Worker           the worker thread, one step per access
          TrainingService   Backend + Worker + containers + time; all properties
            MCTrainingService        constants for TLC
            TrainingServiceProofs    its invariant and theorems
    GpuSlot              abstract: a slot one job holds at a time
    SumTheorems          sums over finite sets (lemmas)
    DatasetCache         the HF cache on the worker host
      MCDatasetCache       constants for TLC
      DatasetCacheProofs   its invariant and theorems
    WorkerLock           the single-flight lock: unit, workers by hand, lock file
      MCWorkerLock         constants for TLC
      WorkerLockProofs     its invariant and theorems
    WorkerHost           tick, container and sweep of one job, in time
      WorkerHostProofs     its invariant and theorems
    Accounts             user documents, logins, charges
      MCAccounts           constants for TLC
      AccountsProofs       its invariant and theorems
    DatasetValidation    validation rules of a submitted dataset
      Uploads            an uploaded zip and a Hub repository
        MCUploads          constants for TLC
        UploadsProofs      the bomb check, the invariant and the theorems
    WebClient            one browser tab and the API it calls
      WebClientProofs      its invariant and theorems

**Reading then writing.** `update()` stores the caller's whole copy. So each
request, the sweep and the worker are modelled as a step that copies a document
into the actor's own variable (`cancels[r].doc`, `sweep[j]`, `wdoc`, `batch`,
`wuser`) and a later step that writes the copy back changed. Almost everything
of interest in this system comes from the steps that fit in between.

**The worker's program counter.** `pc` names the next access of the single
worker thread: `reconcile`, `orphans` (startup); `cancel`, `cancelling`,
`cancelRm`, `cancelWrite` (`process_cancellations`); `check`, `queue`, `start`,
`charge`, `fetch`, `run`, `started`, `failStart` (`JobPoller`); `monitor`,
`inspect`, `toTraining`, `record`, `alive`, `finTraining`, `package`,
`complete`, `failClean`, `failKeep`, `cleanup` (`JobCompletionMonitor`). An
exception the code does not catch takes it to `down`, and systemd back to
`reconcile`.

**Time** is an age on each document that has a heartbeat, in abstract units,
saturating above the longest timeout; `Advance` makes stored documents and held
copies older together. Ended jobs keep no age, as no rule reads it. A training
timeout of 0 units and an initializing timeout of 0 or 1 is enough to have
every order of "heartbeat, time, sweep".

**Progress** is a number in `0..MaxStep`: the step and loss that
`progress_changed` compares move together.

**Directories in DatasetCache** are byte counts, so that a download and an
`rmtree` take several steps and a crash can leave either half done.
Modification times are fetch numbers: only their order matters. Whether adding
to or removing from a directory changes its own time depends on the level the
file is at, and is a choice. `RemoveGivesUp` is an `rmtree(ignore_errors=True)`
that leaves files, which the evictor counts as removed. A job is followed up to
the start of its container, which changes nothing in the cache.

**Uploads** follows one object and one Hugging Face repository. Each submission
(`Confirms`) is of one of the two, chosen initially. `HubExists`, `HubEntries`
and `HubInfo` are the reads of `submit_hf_dataset`, `Push` and `RepoGone` what
the repository's owner may do between them, and `FetchHub` takes the cached
revision if there is one. `Archives`, what may be uploaded or pushed, is any set
of records of type `Archive` (`UploadsAssumption`): entries of any number and
size. `create_job` is two steps, the quota check and the creation: a refusal is a
choice (it depends on the user's other jobs), certain if a job of this upload is
active when the check is made, and a job created since the check goes unseen.
So two confirmations may both get a job of one upload. The worker starts one at
a time (`Starts`), and finds no object for the second. `JobEnds` is also a
cancellation, of a job that waits or that a dead worker left behind.

**WorkerHost** follows one job, from the queue to its first verdict, with
durations. TrainingService has every interleaving of the store accesses and no
durations; here an access takes no time, so that a tick of the worker is one
step (`CancelJob`, `StartJob`, `Monitor`), and what takes time in the code
becomes an interval with a bound: fetching (`busy = "fetch"`), a training step,
saving, packaging with uploading (`busy = "upload"`), and the pause between two
ticks, which is the poll interval or a restart (`MaxGap`). `Advance` lets a unit
pass if nothing has used up its bound (`NothingDue`); it is how the model says
that the code keeps its time limits. `StepEnds` is the body of
`run_training_loop` with its three reasons to write `progress.json`, the one by
the clock evaluated, as in the code, only at the end of a step. The loss is told
apart as NaN or not, because `progress_changed` compares it. There is one worker
process, which may die at any time; that there is one is WorkerLock's business.

**WorkerLock** has the unit's process and any number started by hand. A flock
belongs to an inode, so `fd` says which one a process has open and `path` which
one the name leads to. `Open` and `Flock` are two steps, `Die` closes whatever
was open, and `RemoveDirectory` is systemd removing `RuntimeDirectory` after the
unit's process has ended and before it starts the next. `orphaned` is a history
variable: the file was removed while somebody had it open.

**Accounts** splits every operation where the code looks first and writes later:
`Register`, `HfLogin`, `ChangePassword` and `Charge` (the worker's) take what
they will write into `reqs`, `Create` and `Update` write it, and `Abandon` is a
process that stops in between. Document ids are numbers because
`where(...).limit(1)` without an order returns documents by id. `promised` is a
history variable, what the finished requests add up to, and `raced` another: the
emails, Hugging Face ids and documents that two requests dealt with at once.
Refused requests change nothing and have no step. The daily reset of the quota
is left to JobDomain.

**WebClient** follows one tab. Each `fetch` is a record in one of a few slots;
`at` says how far the backend is with it and `live` whether the component that
sent it is still mounted. A handler of an unmounted page keeps running (it may
still log out, navigate, or send its next request), but its `setState` calls
show nothing; after a reload, or when the connection broke, the backend may
still serve a request nobody waits for. `GoTo` is a navigation with
`ProtectedRoute` applied; the jobs page fetches when it mounts, and is not
mounted again when it is already up. `excuses` is a history variable: `orphan`
once a form's request has outlived its form, `revived` once a cancellation has
written back a status that had changed meanwhile (`CancelRead`, `CancelWrite`,
the same race as in Backend). An account is named by its number instead of its
email, so two registrations are always two accounts; whether a password is
right or a dataset acceptable is a choice. `localStorage` holds what the React
state holds or nothing, so it needs no variable: `Reload` keeps the token or
loses it. Completed, failed and cancelled are one status, `ended`, as the
polling treats them alike.

### Assumptions of the models

- `docker run` that raises leaves no running container.
- Job ids are in `created_at` order, the order of both queries. Submissions are
  therefore numbered by the step that takes the time.
- Sweeps do not overlap (they are triggered five minutes apart).
- Users and job documents are never deleted (no code does).
- `rmtree(ignore_errors=True)` of a job directory succeeds; for the cache it is
  byte by byte, may be cut short and may leave files.
- One worker process runs, in every module but WorkerLock. `OneLoop` gives that
  as long as nobody starts a worker beside the unit while the unit stops;
  `OnlyOneWorker` shows what happens then.
- Work stays within `TimingAssumption` of WorkerHost: with the code's values (5
  and 2 minutes, a report at least every 60 seconds), a dataset is fetched in 5
  minutes, a step and a pause together take 60 seconds, and saving, a pause and
  uploading take 2 minutes. Nothing in the code enforces these; beyond them the
  sweep fails healthy jobs.
- A cancel request names an active job; others answer 409 and change nothing.
- The jobs of an account are submitted from the one tab WebClient follows; a
  page that has stopped polling does not see what another device submits.
- The bucket's 7-day expiry of checkpoints is documented behaviour and is left
  out of `CompletedHasCheckpoint`.

## 3. Runs

The configurations of WebClient, WorkerHost and WorkerLock check for deadlock: a
tab can always go somewhere, a worker can always be restarted. The others turn
it off: requests, fetches and uploads are bounded in number, so a finished
behaviour stops, as the system does when nobody submits anything.

| Run | Question | Bounds |
|---|---|---|
| `cancel` | Does one cancel request, at any time, break what is left of mutual exclusion? Checks the inductive invariant too. | 2 jobs, 2 users, 1 cancel, sweep any time |
| `crash` | What survives a worker crash at any step? | 1 user with a quota of 1, 2 jobs, 2 crashes, 1 password change |
| `queue_lives` | Does the queue drain, through failures, hangs and midnight, and is each start counted on the day it was charged to? | 1 user with a quota of 1, 2 jobs, 2 days, fair |
| `cache` | Is the whole dataset there when the container starts, and does the cap survive what was interrupted before? | 4 datasets (1, 2, 3, 5 bytes), cap 4, 5 fetches, 1 failure, 1 crash, 1 failed removal |
| `uploads` | Does validation hold when everything is read again later? Do the checks agree with a declarative reading of the rules? | 2 PUTs of 12 kinds of archive, 2 pushes of 7 kinds, 2 submissions, 1 day |
| `lock` | Does the lock give one loop, when opening and locking are two steps? | the unit, 2 workers by hand, 4 inodes |
| `worker_host` | Do the timeouts spare healthy jobs, and how soon do the others end? | 8 steps, timeouts of 5 and 4 units, sweep every 2, limits that use them up |
| `accounts` | Does an owner keep getting into the account, whatever else is registered, changed or charged meanwhile? | 1 email, 2 passwords, 2 Hugging Face accounts, 3 documents, 2 requests in flight, 1 charge each |
| `webclient` | What does a page show, and what ends a session, when answers come late? | 2 accounts, 2 tokens, 1 job each, 2 fetches in flight, 1 cancel, 1 network failure |

Two jobs are the fewest with which one job's leftovers can disturb another's
start; a third adds no new pair. One cancel request is enough for a stale write
because a request holds its copy for as long as the model likes. Two crashes
let the second hit the recovery from the first. Datasets of 1, 2 and 3 bytes
over a cap that holds any two but one pair make the evictor remove one entry,
none, or two; the one of 5 bytes is larger than the cache. Five fetches fill the
cache, evict, and fetch again what was evicted. The archives meet each limit
exactly, miss each by one, and fail each other rule alone. WorkerHost's limits
add up to its timeouts exactly, so one unit more anywhere would be seen; eight
steps are two reports by count, with time for one by the clock between them.
Three documents are an account, one that duplicates it and one that shadows it;
any two requests can race. Its requests and passwords are interchangeable. Three
processes are one that holds the lock, one that waits for it and one that takes
another's place; each may have an inode of its own, and one is to spare. Two
jobs and two days put midnight before, between and after two charges, and
between the computation of a charge and its write. Two accounts and two
tokens are a session and the next one; two fetches are the late answer and the
one that overtakes it.

What the passing properties mean, where the name does not say it:

- `OneUncancelledRunning`, `GpuHeldOnce` and `ImplementsGpuSlot` exempt exactly
  the jobs someone asked to cancel and the jobs the sweep failed. Both
  exemptions are needed. A cancel request that read a job before it ended writes
  the old status back beside the next job; one that read it while queued makes
  the watcher cancel it "while queued", without a kill, although its container
  has started.
- `VerdictsStand` names everybody who may overwrite a verdict. Terminal statuses
  have no successor in the state machine, but `update()` does not ask it: the
  worker's copy of a training job replaces the sweep's `failed`, and a stale
  cancel request brings any ended job back.
- `EveryStartCharged` exempts a user who changes the password: that request
  writes back the whole user document, charge included.
- `NeverOvercharged` and `TrainedDirsGo` hold until somebody cancels
  (`NobodyCancelled`: no cancel request has written its copy yet). A request that read a queued job and writes after its start makes it a queued job
  again, which the watcher then cancels without removing the directory that the
  start made, and which no longer counts as having left the queue.
  `EveryStartCharged` and `DayCountedRight` need no such condition.
- `DayCountedRight` is about the day the document stands for. The worker takes
  that day from the clock when it reads the user, so a charge written after
  midnight may still be one of the day before. Like `EveryStartCharged` it is for
  a user who does not change the password meanwhile.
- `TrainedDirsGo` is about the jobs whose container ended. A failed upload keeps
  the directory by design; `dirs_left` is about the rest.
- `DatasetReady` exempts a dataset larger than the cache, which its own download
  evicts, and everything after an interrupted or failed download, whose resumed
  `.tmp` directory may keep an old modification time and be evicted first.
- `CapRespected` exempts an `rmtree` that left files: the evictor subtracts the
  entry all the same.
- `DatasetFitsJob` is for a client that uploads once and a repository that is
  pushed once: the signed URL may be used again after the checks
  (`ExtractedWasValidated`), and neither checks nor cache pin a revision of a
  repository. `Conforms` asks of each source what the service asks of it, so the
  size limits are asked of uploads only (`DatasetWithinLimits`).
- `OneLoop` exempts what happens once the lock file was removed under a process
  that had it open (`OnlyOneWorker`). Until then it rests on two things: nobody
  removes the file on release, and a process that loses the race closes it.
- `HealthySurvives` exempts a container that hangs (nobody can tell it from a
  dead one), a standing cancel request (a tick that dies killing an exited
  container never reaches the monitor), and a worker that died in a fetch or an
  upload (the next one starts the upload over, or never fetches again: the job
  of the last row in the table below).
- `QuietEndsSoon` exempts a last loss of NaN: it differs from itself, so the
  worker takes the same file for progress at every tick (`StillEndsSoon`).
- `CancelEndsSoon` is about a request that stands. `CancelNotLost` is about the one
  that does not.
- `OwnerGetsIn` and `LoginsStand` exempt what two requests at once can do to each
  other: two registrations of one email make two accounts of which one is never
  found again (`RegisteredOnce`), and a password change and a charge overwrite each
  other in either direction (`ChargeStands`). They also exempt a Hugging Face account that shows the email of an
  email account: `get_by_email` finds whichever has the lower document id and
  does not ask for the provider, so the owner is told that the password is
  wrong (`AccountsIndependent`).
- `ShownIsOwn` needs its excuse. A login form left for the registration form
  and answered after another login replaces the session while the jobs page is
  open: the page asks for the new account's jobs but shows the old ones until
  they come, and longer if the older list arrives last.
- `ShownSettled` is about a page that no longer polls: it is right unless a
  submission outlived its form. Then `navigate('/jobs')` on the jobs page
  fetches nothing, and the new job stays invisible until a reload
  (`PollsUntilEnded`).
- `SessionKept` lists a 401 to an older token among what ends a valid session:
  `useAuthErrorHandler` does not ask which token was refused (`DroppedOnlyExpired`). That no 401 to the
  *current* token does so rests on the backend answering 401 to nothing but a
  bad token, a wrong old password included.

### What the code does not do

Three runs end in a counterexample. Their properties state what a comment or a
document says; `PROJECT.json` quotes it.

| Run | Counterexample |
|---|---|
| `two_containers` | the sweep fails a job and leaves its container; the next job starts beside it |
| `cache_interrupted` | an eviction cut short by a crash leaves a partial directory, which the next fetch takes for a hit |
| `dirs_left` | a start that fails after the zip was extracted keeps the job's directory; so does a job the sweep fails |

The modules state further promises of this kind, each in its section "What ...
say and the code does not do". They have no run of their own. Each is an
exemption a passing property makes, and TLC gives its counterexample when it is
put in the place of the properties of the configuration named here; the hazard
in `PROJECT.json` quotes the comment or document.

| Property | Configuration | Counterexample |
|---|---|---|
| `CancelNotLost` | `MCCancel.cfg` | the worker's copy clears `cancel_requested` |
| `QueuedNeverStarted` | `MCCancel.cfg` | a cancel request writes the queued copy of a job back after its start: the job is cancelled, its container runs on |
| `ConcurrencyCapped` | `MCCrash.cfg` | two submissions of one user both pass the concurrency limit |
| `ChargeStands` | `MCCrash.cfg` | a password change takes the charge of a started job back |
| `DatasetWithinLimits` | `MCUploads.cfg` | a repository beyond the size limits is accepted and trained on |
| `ExtractedWasValidated` | `MCUploads.cfg` | the upload is replaced after its checks, and the worker extracts the new one |
| `QueuedKeepsUpload` | `MCUploads.cfg` | the lifecycle rule, or another confirmation, deletes the upload of a job that waits in the queue |
| `FailureDeletes` | `MCUploads.cfg` | an `info.json` that is not an object is an uncaught error, and a quota refusal comes after the checks: the object stays |
| `OnlyOneWorker` | `MCLock.cfg` | the unit ends while a worker started by hand has the lock file open; the restarted unit locks a new file |
| `StillEndsSoon` | `MCWorkerHost.cfg` | a container that hangs after reporting a NaN loss is never timed out |
| `AccountsIndependent` | `MCAccounts.cfg` | a Hugging Face account with the same email is found in the owner's place |
| `RegisteredOnce` | `MCAccounts.cfg` | two registrations of one email at once make two accounts |
| `DroppedOnlyExpired` | `MCWebClient.cfg` | a 401 to an expired token ends the session of a newer, valid one |
| `PollsUntilEnded` | `MCWebClient.cfg` | a job submitted from a form that was left never appears on a page that has stopped polling |
| `EveryJobEnds` | `MCQueueLives.cfg` with `MaxCrashes = 1` | after a crash before `docker run` the heartbeat of a job without a container is bumped for ever |

Two are of one kind, a reading that is stale when it is written back
(`CancelNotLost`, `ChargeStands`; `QueuedNeverStarted` is a consequence), two are
checks without a transaction (`ConcurrencyCapped`, `RegisteredOnce`).

### Fairness

`Fairness` of TrainingService assumes: the worker thread takes its next step
(its loop waits for nobody and systemd restarts it), a submission and a cancel
request that began are carried through, the sweep keeps being triggered and
writes what it decided, time passes, and a container does not hang *before* its
first progress report. The last is needed because during `initializing` the
heartbeat follows the container process, not its progress, so a container that
hangs there is by design never timed out. After its first report a container may
hang: the sweep ends its job. Crashes get no fairness, and `queue_lives` has no
crash: the last row above shows why. That a job ends which is being cancelled, or is
silent, is stated in WorkerHost with a time limit, as safety. `dirs_left` is
refuted under the same fairness: the directory stays although everybody goes on.

## 4. Proofs

Every invariant and every action property of the passing runs is also a theorem
that TLAPS checks, for every value of the constants the named assumptions allow:

| Modules | For every | Assumptions |
|---|---|---|
| `TrainingServiceProofs` | number of jobs, users, requests, crashes and days, every timeout | `DomainAssumption`, `StoreAssumption`, `BackendAssumption`, `WorkerAssumption` |
| `WorkerLockProofs` | finite number of processes | `LockAssumption` |
| `WorkerHostProofs` | number of steps, all durations within the limits | `TimingAssumption` |
| `AccountsProofs` | number of users and requests in flight | `AccountsAssumption` |
| `DatasetCacheProofs` | finite set of datasets, every size and cap, number of fetches, failures, crashes, failed removals | `CacheAssumption` |
| `UploadsProofs` | set of archives of any length and size, all limits, number of submissions | `LimitsAssumption`, `UploadsAssumption` |
| `WebClientProofs` | number of accounts, tokens, jobs and fetches in flight | `WebClientAssumption` |

`SumTheorems` holds the lemmas on sums that DatasetCache and Uploads share.

| Theorem | Statement |
|---|---|
| `TypeCorrect` | `Spec => []TypeOK` |
| `InvHolds` | `Spec => []IInv` |
| `OneRunning` | `Spec => []OneUncancelledRunning` |
| `GpuHeldOnceHolds` | `Spec => []GpuHeldOnce` |
| `CheckpointHolds` | `Spec => []CompletedHasCheckpoint` |
| `WorkdirHolds` | `Spec => []RunningKeepsWorkdir` |
| `TransitionsLegalHolds` | `Spec => []TransitionsLegal` |
| `VerdictsStandHolds` | `Spec => VerdictsStand` |
| `Refinement` | `Spec => ImplementsGpuSlot` |
| `EveryStartChargedHolds` | `Spec => []EveryStartCharged` |
| `NeverOverchargedHolds` | `Spec => []NeverOvercharged` |
| `TrainedDirsGoHolds` | `Spec => []TrainedDirsGo` |
| `DayCountedRightHolds` | `Spec => DayCountedRight` |
| `HostInvHolds` | `Spec => []HostInv` (WorkerHost) |
| `TypeOKHolds` | `Spec => []TypeOK` (WorkerLock, WorkerHost, DatasetCache, Uploads and WebClient, each in its own module) |
| `LockInvHolds` | `Spec => []LockInv` (WorkerLock) |
| `OneLoopHolds` | `Spec => []OneLoop` |
| `HealthySurvivesHolds` | `Spec => []HealthySurvives` |
| `QuietEndsSoonHolds` | `Spec => []QuietEndsSoon` |
| `CancelEndsSoonHolds` | `Spec => []CancelEndsSoon` |
| `AccountsTypeOK` | `Spec => []TypeOK` (Accounts) |
| `OwnerGetsInHolds` | `Spec => []OwnerGetsIn` |
| `LoginsStandHolds` | `Spec => LoginsStand` |
| `CacheInvHolds` | `Spec => []CacheInv` (DatasetCache) |
| `CapRespectedHolds` | `Spec => []CapRespected` |
| `DatasetReadyHolds` | `Spec => []DatasetReady` |
| `BombCheckIsExact` | the loop of `check_decompression_bomb` accepts an archive exactly if every file and their sum are within the limits |
| `UploadsInvHolds` | `Spec => []UploadsInv` (Uploads) |
| `DatasetFitsJobHolds` | `Spec => []DatasetFitsJob` |
| `RejectedIsUnsuitableHolds` | `Spec => RejectedIsUnsuitable` |
| `ClientInvHolds` | `Spec => []ClientInv` (WebClient) |
| `ShownIsOwnHolds` | `Spec => []ShownIsOwn` |
| `ShownSettledHolds` | `Spec => []ShownSettled` |
| `SessionKeptHolds` | `Spec => SessionKept` |

`OneUncancelledRunning` is not inductive: between the worker's check and its
write, something could make another job active. `IInv` says why nothing can.

- `CopiesInv`: each copy still held by someone is of a submitted job and has the
  status and flag it was selected for. A cancel request always writes the flag,
  a sweep always writes a timeout failure; so neither can make an uncancelled
  job active.
- `SlotInv`: at `queue` nobody has the slot; while the worker holds an
  uncancelled copy, nobody else has it.
- `ContainerInv`: a running container is of an active, cancelled or swept job,
  and a queued job nobody cancelled has none. The last is what lets `docker run`
  find no container of the same name.
- `HeldInv`: what each `pc` knows of the container in hand; an exit code, once
  read, is final.
- `VerdictInv`: a job the worker holds has not ended, but for a sweep.

`InvStep` has one case per action. `VerdictsStandHolds` and `Refinement` rest on
`WhoWrites`, which classifies every step that changes a job document.

**The quota and the directories.** These properties count or follow what several
documents say together, so each has an invariant of its own beside `IInv`,
proved with it.

- `ChargeInv`, for `EveryStartCharged`: the worker writes the charge before
  `docker run`, so the copy of the user it holds at `start` and `charge` is
  strictly above the number of the user's containers, and what is stored at
  `fetch` and `run` already counts the container to come. A user whose counter
  is from another day has a counter of 0 on the first one.
- `OnceInv`, for `NeverOvercharged`, is the other side: every copy of the user's
  document, a password change's included, counts no more jobs than have left the
  queue, the one the worker is about to take included. It needs that no job
  returns to the queue: `FlagInv` (nobody's copy carries the cancel flag) with
  `WhoWrites`.
- `DayInv`, for `DayCountedRight`: from the read to the write, the worker's copy
  counts one more than what is stored, and neither is of a later day than today.
- `DirInv`, for `TrainedDirsGo`: between the verdict and the removal the
  worker is at `cleanup` with that very job.

The cardinalities are those of arbitrary finite sets: a step adds at most one
job to `StartedContainers(u)` or `Dequeued(u)`.

**WorkerLock.** `OneLoop` alone is not inductive: two processes might have
different files open and each lock its own. `OpenInv` says they have not, until
the file is removed under one of them: a process has a file open exactly between
`Open` and its end, and that file is the one at the path. With `FileInv`, one
lock to an inode, which holds even afterwards, that gives one loop.

**WorkerHost.** `HealthySurvives` speaks of the moment of the sweep; what makes
it true is how old the heartbeat can be at every moment before. `HealthyInv`
bounds it by what the worker has yet to see: a report written and not yet read
is at most one pause old, and the one before it was at most `WriteEvery` and one
step older. `AgeInv` is the other side, how old the heartbeat must be when the
file has been quiet, and how old the sweep lets it grow. `DueInv` and `PhaseInv`
tie ages and phases together. The theorem gives the inequalities the four time
limits of the code must satisfy.

**Accounts.** The invariant says that a request nobody raced still sees what it
read. `CarryInv`: a document in flight is a new account, or has the email and
the provider of the stored one. `EmailFree` and `HfFree`: what is about to be
registered is free; hence `OneEmail` and `OneHf`. `RewriteInv`: a rewrite that
is alone differs from the stored document in its own field only; hence
`PromiseInv`.

**DatasetCache.** `CacheInv` has three parts beside the types.

- `SumInv`, for `CapRespected`: while the evictor runs, `listed` is exactly the
  entries there are (but the one being removed), and `total`, which the code
  computes once and then only decreases, is still their sum. That the sum over
  the entries changes by the bytes of one directory when that directory changes
  is `TotalRemove` and `TotalSplit` of SumTheorems.
- `ReadyInv`, for `DatasetReady`: while nothing was interrupted an entry is whole
  or being removed, and the dataset just fetched is strictly the youngest, so the
  evictor comes to it last; when it is the only one left, it fits.
- `PhaseInv`: what each program counter knows of `repo` and `victim`.

**Uploads.** `ZipInv` and `HubInv` state the same for the two sources: after one
upload (or push) there is a single archive that the bucket (repository, cache)
holds if it holds anything, that each submission has passed the checks up to
where it is with, and that each job was given. So the checks' separate reads
agree. `DatasetInv` says which jobs have a dataset.
`CheckedIsSuitable` and `RejectedBy` relate the code's checks to the declarative
`Conforms`; both rest on `BombCheckIsExact`: the code adds up sizes and leaves
the loop at the first violation, the reference asks each size and the whole sum.

**Induction over data.** The library's induction theorems are stated for an
operator parameter, which the provers cannot instantiate. Where an induction is
needed it is done with sets instead: the set of finite subsets (or of prefix
lengths) for which the claim fails has a minimal element, by `WFMin`, and that
element is refuted. `SubsetInduction` in SumTheorems packages this for subsets;
the lemmas `LoopUnique`, `LoopExists` and `BombLoopVerdict` use it to show that
the fold of the bomb check is what its loop computes, for archives of any length.

**WebClient.** `ClientInv` says what each request in flight still means.

- `ServerOK`, `TabOK`, `FetchesOK`: types, and that what a request or a page
  refers to (token, account, snapshot) exists and is no newer than the server.
- `OwnInv`, for `ShownIsOwn`: unless a request outlived its form, every form's
  request belongs to a mounted form, and every live request of the jobs page
  carries the current token.
- `SettledInv`, for `ShownSettled`: a list in hand or on the way is *older* than
  the server's (`Older`: as long, and what has ended in it has ended there), and
  a page that shows nothing has an error or a list request under way. A list in
  which all jobs have ended and that is older than the server's is equal to it.

The server only grows (`ServerStep`), so `FetchesOK` and `Older` survive its
steps (`SnapshotKept`, `RequestKept`, `OlderKept`). The tab's steps are of three
forms: the page stays and one request changes (`StayStep`, `SlotStep`), an answer
is used and its slot freed (`LandStep`), or the tab goes elsewhere and its
requests are unmounted (`GoToStep`). Each action is one of these.

**Only model-checked:** liveness under fairness, `EveryJobEnds`, which is out of
the prover's reach. What the code does not do is refuted and has nothing to
prove.

## 5. Plan

1. Lemmas about the rules as the code's tests state them: the state machine of
   JobDomain, and `check_policy_compatibility`.
2. An abstract specification of the dataset cache (a set of whole datasets within
   a cap) and of the session a tab keeps, with their refinements.
3. Liveness of WebClient (a page that shows an active job is brought up to
   date), which needs a smaller instance than the safety run.

## 6. Not modelled

- Wiring and settings (`deps.py`, `config.py`): they build the services and hold
  no state.
- The in-memory adapters, the development storage endpoint and the manual test
  scripts: stand-ins for what is modelled.
- The mathematics of the training, the libraries it calls, password hashing, the
  signature of tokens, the HTTP calls to reCAPTCHA and Hugging Face: only their
  outcomes matter to the rest, and those are choices in the models.
- Presentation in the frontend, the download button (a read), several tabs over
  one `localStorage`.
- The bucket's 7-day rule for checkpoints, a documented expiry.
