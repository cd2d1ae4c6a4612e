---------------------------- MODULE DatasetCache ----------------------------
(***************************************************************************)
(* The worker host's cache of Hugging Face datasets: DatasetFetcher's      *)
(* _fetch_hf_dataset over disk_manager, and what DockerRunner.run does to  *)
(* the directory it mounts.  A directory is the number of bytes in it, so  *)
(* a download and an rmtree take many steps and a crash can leave either   *)
(* half done.  Only the order of modification times matters: they are the  *)
(* number of the fetch that set them.  A container reads its dataset and   *)
(* changes nothing, so a job is followed up to the start of its container. *)
(***************************************************************************)
EXTENDS Integers, FiniteSets, FiniteSetsExt

CONSTANTS
    Repos,       \* dataset repositories
    NoRepo,      \* none of them
    Size,        \* [Repos -> bytes]
    MaxBytes,    \* hf_cache_max_bytes
    MaxFetches,  \* bound: jobs started
    MaxFailures, \* bound: downloads that fail
    MaxCrashes,  \* bound: how often the worker dies
    MaxErrors    \* bound: rmtree calls that leave something behind

ASSUME CacheAssumption ==
    /\ IsFiniteSet(Repos) /\ NoRepo \notin Repos
    /\ Size \in [Repos -> Nat \ {0}]
    /\ MaxBytes \in Nat
    /\ {MaxFetches, MaxFailures, MaxCrashes, MaxErrors} \subseteq Nat

NoDir == -1

VARIABLES
    cache,    \* [Repos -> bytes], the directory <cache_dir>/<repo>
    tmp,      \* [Repos -> bytes], the directory <cache_dir>/<repo>.tmp
    mtime,    \* [Repos -> fetch], the modification time of the former
    tmpTime,  \* [Repos -> fetch], of the latter
    pc,       \* what the worker does next
    repo,     \* the dataset being fetched
    listed,   \* the cache entries the evictor has yet to look at
    total,    \* the size it believes the cache has
    victim,   \* the entry it is removing
    fetches, failures, crashes, errors

cacheDirs == <<cache, tmp, mtime, tmpTime>>
evictor == <<listed, total, victim>>
vars == <<cacheDirs, pc, repo, evictor, fetches, failures, crashes, errors>>

TypeOK ==
    /\ \A r \in Repos : cache[r] \in NoDir .. Size[r] /\ tmp[r] \in NoDir .. Size[r]
    /\ \A r \in Repos : mtime[r] \in 0 .. fetches /\ tmpTime[r] \in 0 .. fetches
    /\ pc \in {"idle", "download", "evict", "evicting", "rmtree", "hit", "fetched", "down"}
    /\ {repo, victim} \subseteq Repos \cup {NoRepo}
    /\ listed \subseteq Repos
    /\ total \in Int
    /\ fetches \in 0 .. MaxFetches /\ failures \in 0 .. MaxFailures
    /\ crashes \in 0 .. MaxCrashes /\ errors \in 0 .. MaxErrors

Init ==
    /\ cache = [r \in Repos |-> NoDir] /\ tmp = [r \in Repos |-> NoDir]
    /\ mtime = [r \in Repos |-> 0] /\ tmpTime = [r \in Repos |-> 0]
    /\ pc = "down" /\ repo = NoRepo
    /\ listed = {} /\ total = 0 /\ victim = NoRepo
    /\ fetches = 0 /\ failures = 0 /\ crashes = 0 /\ errors = 0

\* list_cache_entries, and the bytes directory_size_bytes finds in them.
Entries == {r \in Repos : cache[r] # NoDir}
CacheBytes == MapThenSumSet(LAMBDA r : cache[r], Entries)

-----------------------------------------------------------------------------
(* _fetch_hf_dataset.                                                      *)

\* The poller starts a job of dataset r.  A dataset in the cache is touched and
\* used.  Otherwise snapshot_download begins, in the .tmp directory of an
\* interrupted download if there is one; that directory gets a new modification
\* time only if something is added right under it.
Fetch(r) ==
    /\ pc = "idle"
    /\ fetches < MaxFetches
    /\ fetches' = fetches + 1
    /\ repo' = r
    /\ \/ /\ cache[r] # NoDir
          /\ mtime' = [mtime EXCEPT ![r] = fetches']
          /\ pc' = "hit"
          /\ UNCHANGED <<tmp, tmpTime>>
       \/ /\ cache[r] = NoDir
          /\ pc' = "download"
          /\ tmp' = [tmp EXCEPT ![r] = IF @ = NoDir THEN 0 ELSE @]
          /\ \E t \in {fetches'} \cup (IF tmp[r] = NoDir THEN {} ELSE {tmpTime[r]}) :
               tmpTime' = [tmpTime EXCEPT ![r] = t]
          /\ UNCHANGED mtime
    /\ UNCHANGED <<cache, evictor, failures, crashes, errors>>

\* Mutant: a resumed download adds to what is complete already.
DownloadByte_Again ==
    /\ pc = "download"
    /\ tmp' = [tmp EXCEPT ![repo] = @ + 1]
    /\ UNCHANGED <<cache, mtime, tmpTime, pc, repo, evictor, fetches, failures, crashes, errors>>

DownloadByte ==
    /\ pc = "download"
    /\ tmp[repo] < Size[repo]
    /\ tmp' = [tmp EXCEPT ![repo] = @ + 1]
    /\ UNCHANGED <<cache, mtime, tmpTime, pc, repo, evictor, fetches, failures, crashes, errors>>

\* The repository is gone: DatasetFetchError, and the poller fails the job.
DownloadFails ==
    /\ pc = "download"
    /\ failures < MaxFailures
    /\ failures' = failures + 1
    /\ pc' = "idle" /\ repo' = NoRepo
    /\ UNCHANGED <<cacheDirs, evictor, fetches, crashes, errors>>

FinalizeDownload ==
    /\ pc = "download"
    /\ tmp[repo] = Size[repo]
    /\ cache' = [cache EXCEPT ![repo] = tmp[repo]]
    /\ mtime' = [mtime EXCEPT ![repo] = tmpTime[repo]]
    /\ tmp' = [tmp EXCEPT ![repo] = NoDir]
    /\ pc' = "evict"
    /\ UNCHANGED <<tmpTime, repo, evictor, fetches, failures, crashes, errors>>

-----------------------------------------------------------------------------
(* evict_lru_until_under_cap.                                              *)

\* Mutant: the dataset just downloaded is not counted.
EvictList_NotTheNew ==
    /\ pc = "evict"
    /\ pc' = "evicting"
    /\ listed' = Entries
    /\ total' = CacheBytes - cache[repo]
    /\ UNCHANGED <<cacheDirs, repo, victim, fetches, failures, crashes, errors>>

EvictList ==
    /\ pc = "evict"
    /\ pc' = "evicting"
    /\ listed' = Entries
    /\ total' = CacheBytes
    /\ UNCHANGED <<cacheDirs, repo, victim, fetches, failures, crashes, errors>>

\* Mutant: the most recently used entry first.
Older_Reversed(r, s) == mtime[r] >= mtime[s]

\* The order the entries are removed in; equal times come in any order.
Older(r, s) == mtime[r] <= mtime[s]

EvictNext ==
    /\ pc = "evicting"
    /\ \/ /\ total <= MaxBytes \/ listed = {}
          /\ pc' = "fetched"
          /\ listed' = {} /\ total' = 0
          /\ UNCHANGED victim
       \/ /\ total > MaxBytes
          /\ \E r \in listed :
               /\ \A s \in listed \ {r} : Older(r, s)
               /\ victim' = r
               /\ listed' = listed \ {r}
               /\ total' = total - cache[r]
          /\ pc' = "rmtree"
    /\ UNCHANGED <<cacheDirs, repo, fetches, failures, crashes, errors>>

\* shutil.rmtree, file by file; the directory goes last, and is modified when
\* the file is right under it.
RemoveByte ==
    /\ pc = "rmtree"
    /\ cache' = [cache EXCEPT ![victim] = @ - 1]
    /\ IF cache[victim] = 0
       THEN pc' = "evicting" /\ victim' = NoRepo
       ELSE UNCHANGED <<pc, victim>>
    /\ \E t \in {mtime[victim], fetches} : mtime' = [mtime EXCEPT ![victim] = t]
    /\ UNCHANGED <<tmp, tmpTime, repo, listed, total, fetches, failures, crashes, errors>>

\* ignore_errors: what cannot be removed stays, and the rest of the cache is
\* dealt with as if it were gone.
RemoveGivesUp ==
    /\ pc = "rmtree"
    /\ errors < MaxErrors
    /\ errors' = errors + 1
    /\ pc' = "evicting" /\ victim' = NoRepo
    /\ UNCHANGED <<cacheDirs, repo, listed, total, fetches, failures, crashes>>

-----------------------------------------------------------------------------
\* DockerRunner.run makes the directories it is about to mount if they do not
\* exist, then starts the container.
Mount ==
    /\ pc \in {"hit", "fetched"}
    /\ pc' = "idle" /\ repo' = NoRepo
    /\ cache' = [cache EXCEPT ![repo] = IF @ = NoDir THEN 0 ELSE @]
    /\ mtime' = IF cache[repo] = NoDir THEN [mtime EXCEPT ![repo] = fetches] ELSE mtime
    /\ UNCHANGED <<tmp, tmpTime, evictor, fetches, failures, crashes, errors>>

-----------------------------------------------------------------------------
(* The worker process.                                                     *)

Crash ==
    /\ pc # "down"
    /\ crashes < MaxCrashes
    /\ crashes' = crashes + 1
    /\ pc' = "down" /\ repo' = NoRepo
    /\ listed' = {} /\ total' = 0 /\ victim' = NoRepo
    /\ UNCHANGED <<cacheDirs, fetches, failures, errors>>

\* cleanup_stale_tmp_dirs: the .tmp directories last modified before some
\* moment go.
Startup ==
    /\ pc = "down"
    /\ pc' = "idle"
    /\ \E cutoff \in 0 .. fetches + 1 :
         tmp' = [r \in Repos |-> IF tmpTime[r] < cutoff THEN NoDir ELSE tmp[r]]
    /\ UNCHANGED <<cache, mtime, tmpTime, repo, evictor, fetches, failures, crashes, errors>>

Next ==
    \/ \E r \in Repos : Fetch(r)
    \/ DownloadByte \/ DownloadFails \/ FinalizeDownload
    \/ EvictList \/ EvictNext \/ RemoveByte \/ RemoveGivesUp
    \/ Mount
    \/ Crash \/ Startup

Spec == Init /\ [][Next]_vars

-----------------------------------------------------------------------------
(* Properties.                                                             *)

\* While nothing was ever interrupted, a job's container is started on the
\* whole dataset: what the fetch returns is there and complete, whatever the
\* evictor has just removed.  (A dataset larger than the cache is evicted by
\* its own fetch.)
DatasetReady ==
    /\ crashes = 0 /\ failures = 0 /\ errors = 0
    /\ pc \in {"hit", "fetched"} /\ Size[repo] <= MaxBytes
    => cache[repo] = Size[repo]

\* After a download the cache is within its cap, also when earlier evictions
\* were cut short or an earlier download was never followed by one; unless an
\* rmtree has left files behind, which the evictor counts as gone.
CapRespected == pc = "fetched" /\ errors = 0 => CacheBytes <= MaxBytes

-----------------------------------------------------------------------------
(* What the comments say and the code does not do.                         *)

\* dataset_fetcher.py: a job's training data is available on local disk before
\* its container starts.
DatasetAvailable == pc \in {"hit", "fetched"} => cache[repo] = Size[repo]

=============================================================================
