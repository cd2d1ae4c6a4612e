------------------------------ MODULE Uploads ------------------------------
(***************************************************************************)
(* The two ways to submit a dataset (UploadService).  A zip: the client    *)
(* PUTs it to a signed URL and asks the backend to confirm it, the worker  *)
(* extracts it for the job that was created and deletes it, and the        *)
(* bucket's lifecycle rule deletes what is older than a day.  A Hugging    *)
(* Face repository: checked in place and downloaded by the worker, through *)
(* its cache.  Each check reads anew, so every access is a step.           *)
(***************************************************************************)
EXTENDS DatasetValidation, FiniteSetsExt

CONSTANTS
    Archives,   \* what clients upload
    Repos,      \* what Hugging Face repositories hold: of the archives, as files
    NoObject,   \* no object at uploads/<user>/<upload>.zip
    Confirms,   \* bound: the submissions of this upload or of this repository
    MaxPuts,    \* bound: how often the client PUTs to the URL
    MaxPushes,  \* bound: how often the repository's owner changes it
    MaxDays     \* bound: days that pass

ASSUME UploadsAssumption ==
    /\ Archives \subseteq Archive /\ NoObject \notin Archives
    /\ Repos \subseteq Archives /\ \A files \in Repos : files.isZip
    /\ {MaxPuts, MaxPushes, MaxDays} \subseteq Nat

VARIABLES
    url,       \* "none", "valid" or "expired": the signed upload URL
    object,    \* the object in the bucket
    old,       \* it is older than the lifecycle rule's day
    repo,      \* what the Hugging Face repository holds
    cached,    \* what the worker's cache holds of it
    confirms,  \* [Confirms -> [at, source, policy]]
    jobs,      \* [Confirms -> state] of the job the submission created
    dataset,   \* [Confirms -> archive] in the job's input directory
    puts, pushes, days

zipVars == <<url, object, old, puts, days>>
hubVars == <<repo, cached, pushes>>
vars == <<zipVars, hubVars, confirms, jobs, dataset>>

\* "lost": initializing for good, because the worker died starting it.
JobStates == {"none", "queued", "extracted", "running", "done", "failed", "lost"}

\* What a submission does next.
Stages == {"idle", "entries", "info", "quota", "create"}

\* "missing": UploadNotFoundError, HFDatasetNotFoundError; "rejected": UploadValidationError;
\* "refused": QuotaExceededError; "error": an error nothing catches (500).
Answers == {"created", "missing", "rejected", "refused", "error"}

\* The values each variable takes; a job exists exactly when its submission
\* was answered with it, so a refused or rejected one leaves no job behind.
TypeOK ==
    /\ url \in {"none", "valid", "expired"}
    /\ {object, repo, cached} \subseteq Archives \cup {NoObject}
    /\ old \in BOOLEAN
    /\ \A c \in Confirms : /\ confirms[c].at \in Stages \cup Answers
                           /\ confirms[c].source \in {"zip", "hf"}
                           /\ confirms[c].policy \in Policies
                           /\ jobs[c] \in JobStates
                           /\ jobs[c] # "none" <=> confirms[c].at = "created"
                           /\ dataset[c] \in Archives \cup {NoObject}
    /\ puts \in 0 .. MaxPuts /\ pushes \in 0 .. MaxPushes /\ days \in 0 .. MaxDays

Init ==
    /\ url = "none" /\ object = NoObject /\ old = FALSE
    /\ repo = NoObject /\ cached = NoObject
    /\ confirms \in [Confirms -> [at : {"idle"}, source : {"zip", "hf"}, policy : Policies]]
    /\ jobs = [c \in Confirms |-> "none"]
    /\ dataset = [c \in Confirms |-> NoObject]
    /\ puts = 0 /\ pushes = 0 /\ days = 0

\* ObjectStorage.delete, which ignores an object that is gone.
DeleteObject == object' = NoObject /\ old' = FALSE

Goto(c, at) == confirms' = [confirms EXCEPT ![c].at = at]

-----------------------------------------------------------------------------
(* The client and the bucket.                                              *)

\* Nobody uploads, or changes a repository, that no submission names.
Named(source) == \E c \in Confirms : confirms[c].source = source

CreateUploadTarget ==
    /\ url = "none" /\ Named("zip")
    /\ url' = "valid"
    /\ UNCHANGED <<object, old, puts, days, hubVars, confirms, jobs, dataset>>

Put(archive) ==
    /\ url = "valid"
    /\ puts < MaxPuts
    /\ puts' = puts + 1
    /\ object' = archive
    /\ old' = FALSE
    /\ UNCHANGED <<url, days, hubVars, confirms, jobs, dataset>>

\* A day: the URL (15 minutes) has expired.
DayPasses ==
    /\ url # "none"
    /\ days < MaxDays
    /\ days' = days + 1
    /\ url' = "expired"
    /\ old' = (object # NoObject)
    /\ UNCHANGED <<object, puts, hubVars, confirms, jobs, dataset>>

\* deploy/gcs-lifecycle.json: uploads/ older than a day.
LifecycleDelete ==
    /\ old
    /\ object' = NoObject
    /\ old' = FALSE
    /\ UNCHANGED <<url, puts, days, hubVars, confirms, jobs, dataset>>

Push(files) ==
    /\ Named("hf")
    /\ pushes < MaxPushes
    /\ pushes' = pushes + 1
    /\ repo' = files
    /\ UNCHANGED <<cached, zipVars, confirms, jobs, dataset>>

\* The owner deletes the repository or makes it private.
RepoGone ==
    /\ repo # NoObject
    /\ repo' = NoObject
    /\ UNCHANGED <<cached, pushes, zipVars, confirms, jobs, dataset>>

-----------------------------------------------------------------------------
(* confirm_zip_upload.                                                     *)

ConfirmExists(c) ==
    /\ confirms[c].at = "idle" /\ confirms[c].source = "zip"
    /\ url # "none"
    /\ Goto(c, IF object = NoObject THEN "missing" ELSE "entries")
    /\ UNCHANGED <<zipVars, hubVars, jobs, dataset>>

\* _reject deletes the object.
Reject(c) == Goto(c, "rejected") /\ DeleteObject

\* _read_zip_entries, the structure and the decompression-bomb check.  An
\* object that is gone by now is an error of the storage library.
ConfirmEntries(c) ==
    /\ confirms[c].at = "entries" /\ confirms[c].source = "zip"
    /\ \/ /\ object = NoObject
          /\ Goto(c, "error")
          /\ UNCHANGED <<object, old>>
       \/ /\ object # NoObject /\ ~EntriesAccepted(object)
          /\ Reject(c)
       \/ /\ object # NoObject /\ EntriesAccepted(object)
          /\ Goto(c, "info")
          /\ UNCHANGED <<object, old>>
    /\ UNCHANGED <<url, puts, days, hubVars, jobs, dataset>>

\* _read_zip_member, parse_info_json and the policy check.
ConfirmInfo(c) ==
    /\ confirms[c].at = "info" /\ confirms[c].source = "zip"
    /\ \/ /\ object = NoObject \/ (object # NoObject /\ InfoVerdict(object, confirms[c].policy) = "error")
          /\ Goto(c, "error")
          /\ UNCHANGED <<object, old>>
       \/ /\ object # NoObject /\ InfoVerdict(object, confirms[c].policy) = "rejected"
          /\ Reject(c)
       \/ /\ object # NoObject /\ InfoVerdict(object, confirms[c].policy) = "ok"
          /\ Goto(c, "quota")
          /\ UNCHANGED <<object, old>>
    /\ UNCHANGED <<url, puts, days, hubVars, jobs, dataset>>

-----------------------------------------------------------------------------
(* submit_hf_dataset: the same checks of the repository, but for the       *)
(* decompression-bomb check, and nothing to delete.                        *)

HubExists(c) ==
    /\ confirms[c].at = "idle" /\ confirms[c].source = "hf"
    /\ Goto(c, IF repo = NoObject THEN "missing" ELSE "entries")
    /\ UNCHANGED <<zipVars, hubVars, jobs, dataset>>

\* A repository that is gone by now is an error nothing catches.
HubEntries(c) ==
    /\ confirms[c].at = "entries" /\ confirms[c].source = "hf"
    /\ Goto(c, IF repo = NoObject THEN "error"
               ELSE IF CheckLerobotStructure(repo.entries) THEN "info" ELSE "rejected")
    /\ UNCHANGED <<zipVars, hubVars, jobs, dataset>>

\* Here it is a missing meta/info.json.
HubInfo(c) ==
    /\ confirms[c].at = "info" /\ confirms[c].source = "hf"
    /\ Goto(c, IF repo = NoObject THEN "rejected"
               ELSE IF InfoVerdict(repo, confirms[c].policy) = "ok" THEN "quota"
               ELSE InfoVerdict(repo, confirms[c].policy))
    /\ UNCHANGED <<zipVars, hubVars, jobs, dataset>>

-----------------------------------------------------------------------------
(* Both end in JobService.create_job.                                      *)

\* It lists the user's jobs and asks can_create_job.  The quota also counts the
\* user's other jobs, so it may refuse at any time, and must while a job of
\* this upload or repository is active.
ConfirmQuota(c) ==
    /\ confirms[c].at = "quota"
    /\ \/ /\ \A d \in Confirms : jobs[d] \in {"none", "done", "failed"}
          /\ Goto(c, "create")
       \/ Goto(c, "refused")
    /\ UNCHANGED <<zipVars, hubVars, jobs, dataset>>

\* Mutant: the quota is checked once more, when the job is stored already.
ConfirmCreate_ThenQuota(c) ==
    /\ confirms[c].at = "create"
    /\ jobs' = [jobs EXCEPT ![c] = "queued"]
    /\ Goto(c, IF \A d \in Confirms : jobs[d] \in {"none", "done", "failed"}
               THEN "created" ELSE "refused")
    /\ UNCHANGED <<zipVars, hubVars, dataset>>

\* The job is stored, whatever other submissions have stored since the list.
ConfirmCreate(c) ==
    /\ confirms[c].at = "create"
    /\ jobs' = [jobs EXCEPT ![c] = "queued"]
    /\ Goto(c, "created")
    /\ UNCHANGED <<zipVars, hubVars, dataset>>

-----------------------------------------------------------------------------
(* The worker: DatasetFetcher.fetch_for_job, and the job's end.            *)

\* The poller starts a queued job while no other one is active.
Starts(c) ==
    /\ jobs[c] = "queued"
    /\ \A d \in Confirms : jobs[d] \notin {"extracted", "running", "lost"}

\* A file that is no zip is a DatasetFetchError.  A missing object is not: the
\* storage library's NotFound is no FileNotFoundError, and ends the worker.
ExtractZip(c) ==
    /\ Starts(c) /\ confirms[c].source = "zip"
    /\ \/ /\ object # NoObject /\ object.isZip
          /\ dataset' = [dataset EXCEPT ![c] = object]
          /\ jobs' = [jobs EXCEPT ![c] = "extracted"]
       \/ /\ object # NoObject /\ ~object.isZip
          /\ jobs' = [jobs EXCEPT ![c] = "failed"]
          /\ UNCHANGED dataset
       \/ /\ object = NoObject
          /\ jobs' = [jobs EXCEPT ![c] = "lost"]
          /\ UNCHANGED dataset
    /\ UNCHANGED <<zipVars, hubVars, confirms>>

\* The delete is best effort.
DeleteConsumed(c) ==
    /\ jobs[c] = "extracted"
    /\ jobs' = [jobs EXCEPT ![c] = "running"]
    /\ DeleteObject \/ UNCHANGED <<object, old>>
    /\ UNCHANGED <<url, puts, days, hubVars, confirms, dataset>>

\* _fetch_hf_dataset: from the cache, whatever the repository holds by now, or
\* downloaded into it.
FetchHub(c) ==
    /\ Starts(c) /\ confirms[c].source = "hf"
    /\ LET found == IF cached # NoObject THEN cached ELSE repo
       IN  /\ cached' = found
           /\ dataset' = [dataset EXCEPT ![c] = found]
           /\ jobs' = [jobs EXCEPT ![c] = IF found = NoObject THEN "failed" ELSE "running"]
    /\ UNCHANGED <<repo, pushes, zipVars, confirms>>

\* evict_lru_until_under_cap, after the download of another dataset.
Evict ==
    /\ cached # NoObject
    /\ cached' = NoObject
    /\ UNCHANGED <<repo, pushes, zipVars, confirms, jobs, dataset>>

\* Its container ends, or its user cancels it, which is how a job ends that is
\* queued or lost.  The job's directory goes with it.
JobEnds(c) ==
    /\ jobs[c] \in {"queued", "running", "lost"}
    /\ jobs' = [jobs EXCEPT ![c] = "done"]
    /\ dataset' = [dataset EXCEPT ![c] = NoObject]
    /\ UNCHANGED <<zipVars, hubVars, confirms>>

Confirm(c) == ConfirmExists(c) \/ ConfirmEntries(c) \/ ConfirmInfo(c)
SubmitHfDataset(c) == HubExists(c) \/ HubEntries(c) \/ HubInfo(c)

Next ==
    \/ CreateUploadTarget
    \/ \E archive \in Archives : Put(archive)
    \/ \E files \in Repos : Push(files)
    \/ RepoGone \/ Evict
    \/ \E c \in Confirms : \/ Confirm(c) \/ SubmitHfDataset(c)
                            \/ ConfirmQuota(c) \/ ConfirmCreate(c)
                            \/ ExtractZip(c) \/ DeleteConsumed(c) \/ FetchHub(c) \/ JobEnds(c)
    \/ DayPasses \/ LifecycleDelete

Spec == Init /\ [][Next]_vars

-----------------------------------------------------------------------------
(* Properties.                                                             *)

\* What submission c is about.
Source(c) == IF confirms[c].source = "zip" THEN object ELSE repo

\* The limits of check_decompression_bomb, without its loop.
TotalSize(entries) == MapThenSumSet(LAMBDA i : entries[i].size, DOMAIN entries)

WithinLimits(entries) ==
    /\ Len(entries) <= MaxFiles
    /\ \A i \in DOMAIN entries : entries[i].size <= MaxFile
    /\ TotalSize(entries) <= MaxTotal

\* Laid out as LeRobot does, with the inputs the policy needs.
WellFormed(archive, policy) ==
    /\ \A name \in {"info", "data"} : \E i \in DOMAIN archive.entries : archive.entries[i].name = name
    /\ archive.info = "features"
    /\ {"state", "action"} \subseteq archive.features
    /\ "image" \in archive.features
       \/ (policy = "act" /\ "environment_state" \in archive.features)

\* What UploadService asks of each source: the limits are asked of an upload
\* only (see DatasetWithinLimits).
Conforms(archive, source, policy) ==
    /\ WellFormed(archive, policy)
    /\ source = "zip" => archive.isZip /\ WithinLimits(archive.entries)

\* The source of submission c was written once.
WrittenOnce(c) == IF confirms[c].source = "zip" THEN puts <= 1 ELSE pushes <= 1

\* While the client uploads once and the repository's owner pushes once, the
\* dataset a job trains on conforms, for the job's own policy, although each
\* check, and then the worker, read it anew, other submissions run beside it,
\* the lifecycle rule or the owner may delete it in between, and the worker
\* takes a repository from its cache.
DatasetFitsJob ==
    \A c \in Confirms : dataset[c] # NoObject /\ WrittenOnce(c) =>
        Conforms(dataset[c], confirms[c].source, confirms[c].policy)

\* A submission is rejected, and an upload deleted, only for data that does not
\* conform at that moment, also when it has been replaced since, or for a
\* repository that is gone.
RejectedIsUnsuitable ==
    [][\A c \in Confirms : confirms[c].at # "rejected" /\ confirms'[c].at = "rejected" =>
          \/ repo = NoObject /\ confirms[c].source = "hf"
          \/ ~Conforms(Source(c), confirms[c].source, confirms[c].policy)]_vars

-----------------------------------------------------------------------------
(* What the documents say and the code does not do.                        *)

\* upload_service.py: both paths share the decompression-bomb rules; so every
\* dataset a job trains on, a repository too, is within the limits.
DatasetWithinLimits ==
    \A c \in Confirms : dataset[c] # NoObject /\ WrittenOnce(c) => WithinLimits(dataset[c].entries)

\* dataset_fetcher.py: what is extracted is the already-validated zip.
ExtractedWasValidated ==
    \A c \in Confirms : dataset[c] # NoObject /\ confirms[c].source = "zip" =>
        Conforms(dataset[c], "zip", confirms[c].policy)

\* dataset_fetcher.py: the upload of a job that waits in the queue is well
\* clear of the bucket's lifecycle rule.
QueuedKeepsUpload ==
    \A c \in Confirms : jobs[c] = "queued" /\ confirms[c].source = "zip" => object # NoObject

\* upload_service.py: any failure of a confirmation deletes the object.
FailureDeletes ==
    \A c \in Confirms :
        confirms[c].source = "zip" /\ confirms[c].at \in {"rejected", "refused", "error"} =>
            object = NoObject

=============================================================================
