------------------------------- MODULE Store -------------------------------
(***************************************************************************)
(* What the backend and the worker share: the Firestore collections jobs   *)
(* and users, the object store, and on the GPU host the Docker daemon's    *)
(* containers and the per-job working directories.                         *)
(*                                                                         *)
(* A repository's update writes the whole document that the caller holds   *)
(* (document.set(...), no precondition and no transaction), which is why   *)
(* every actor of this system is modelled as a read step followed by a     *)
(* separate write step of the document it read.                            *)
(***************************************************************************)
EXTENDS JobDomain

CONSTANTS
    NumJobs,   \* bound: how many jobs are ever submitted
    Users,     \* the registered users
    Owner,     \* [Jobs -> Users]
    ZipJobs    \* the jobs whose source_type is zip_upload; the others are hf_hub

\* Job ids are numbered by created_at, the order every query returns them in.
Jobs == 1 .. NumJobs

ASSUME StoreAssumption ==
    /\ NumJobs \in Nat \ {0}
    /\ Owner \in [Jobs -> Users]
    /\ ZipJobs \subseteq Jobs

VARIABLES
    jobs,          \* [Jobs -> Job], the documents of collection "jobs"
    users,         \* [Users -> User], the documents of collection "users"
    checkpoints,   \* the jobs with an object checkpoints/<id>.zip
    containers,    \* [Jobs -> ContainerState], the container lerobot-job-<id>
    workdir,       \* the jobs with a directory <workdir>/<id>
    progressFile,  \* [Jobs -> 0..MaxStep], output/progress.json; 0: no file
    today          \* the UTC calendar day

storeVars == <<jobs, users, checkpoints, containers, workdir, progressFile, today>>
hostVars == <<containers, workdir, progressFile>>

\* "ok" and "err" are exited with code 0 and with another code (137 after a
\* kill).  Containers are never removed, and their name is derived from the
\* job id, so a job has at most one in its life.
ContainerState == {"absent", "running", "ok", "err"}

StoreTypeOK ==
    /\ jobs \in [Jobs -> Job]
    /\ users \in [Users -> User]
    /\ checkpoints \subseteq Jobs
    /\ containers \in [Jobs -> ContainerState]
    /\ workdir \subseteq Jobs
    /\ progressFile \in [Jobs -> 0 .. MaxStep]
    /\ today \in 0 .. MaxDay

StoreInit ==
    /\ jobs = [j \in Jobs |-> NoJob]
    /\ users = [u \in Users |-> NewUser]
    /\ checkpoints = {}
    /\ containers = [j \in Jobs |-> "absent"]
    /\ workdir = {}
    /\ progressFile = [j \in Jobs |-> 0]
    /\ today = 0

\* JobRepository.list_by_statuses: the ids it returns; the documents are the
\* callers' to copy.
ListByStatuses(statuses) == {j \in Jobs : jobs[j].status \in statuses}

\* The first of a query's results, which are ordered by created_at.
IsFirst(j, S) == j \in S /\ \A i \in S : j <= i

\* JobRepository.create and update, UserRepository.update.
UpdateJob(j, doc) == jobs' = [jobs EXCEPT ![j] = doc]
UpdateUser(u, doc) == users' = [users EXCEPT ![u] = doc]

\* DockerClient.kill: a container Docker does not know is ignored, but
\* killing one that has already exited raises (409 Conflict).
KillRaises(j) == containers[j] \in {"ok", "err"}

\* Mutant: the signal is sent, but the container is not dead when kill returns.
DockerKill_Later(j) == containers' = containers

DockerKill(j) ==
    containers' = [containers EXCEPT ![j] = IF @ = "running" THEN "err" ELSE @]

\* DockerClient.list_running_container_ids: this service's, by their label.
ListRunningContainers == {j \in Jobs : containers[j] = "running"}

\* read_progress: 0 (None) if there is no progress.json.
ReadProgress(j) == progressFile[j]

\* shutil.rmtree(<workdir>/<id>): the progress file goes with it.
RemoveJobDir(j) ==
    /\ workdir' = workdir \ {j}
    /\ progressFile' = [progressFile EXCEPT ![j] = 0]

=============================================================================
