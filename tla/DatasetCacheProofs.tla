------------------------ MODULE DatasetCacheProofs ------------------------
(***************************************************************************)
(* The dataset cache, for any set of repositories, any sizes and any cap:  *)
(* the evictor's account of what it has yet to look at is right, and while  *)
(* nothing is interrupted it spares the dataset it runs for.               *)
(***************************************************************************)
EXTENDS DatasetCache, SumTheorems, TLAPS

\* From Fetch to Mount.
Fetching == {"download", "evict", "evicting", "rmtree", "hit", "fetched"}

\* The types TypeOK leaves open.
FunctionsOK ==
    /\ cache \in [Repos -> Int] /\ tmp \in [Repos -> Int]
    /\ mtime \in [Repos -> Int] /\ tmpTime \in [Repos -> Int]

\* What the program counter says about the dataset and the victim.
PhaseInv ==
    /\ pc \in Fetching => repo \in Repos
    /\ pc = "hit" => cache[repo] # NoDir
    /\ pc = "rmtree" => victim \in Repos /\ cache[victim] # NoDir

\* What the evictor has yet to look at is in the cache, and it knows its size;
\* as long as no rmtree leaves files behind, that is all of the cache but the
\* entry being removed.
SumInv ==
    /\ pc = "evicting" => listed \subseteq Entries /\ (errors = 0 => listed = Entries)
    /\ pc = "rmtree" => /\ listed \subseteq Entries \ {victim}
                        /\ errors = 0 => listed = Entries \ {victim}
    /\ pc \in {"evicting", "rmtree"} => total = Total(cache, listed)
    /\ pc = "fetched" /\ errors = 0 => Total(cache, Entries) <= MaxBytes

\* While nothing was interrupted: what is not being removed is whole, except
\* that Docker makes an empty directory for a dataset larger than the cache;
\* there is no .tmp directory but the download's; and the dataset being fetched
\* is the most recently used one, so that it is evicted only as the last entry.
ReadyInv ==
    crashes = 0 /\ failures = 0 /\ errors = 0 =>
        /\ \A r \in Repos : \/ cache[r] \in {NoDir, Size[r]}
                            \/ pc = "rmtree" /\ r = victim
                            \/ Size[r] > MaxBytes
        /\ \A r \in Repos : tmp[r] # NoDir => pc = "download" /\ r = repo
        /\ pc = "download" => tmpTime[repo] = fetches
        /\ pc \in {"evict", "evicting", "rmtree"} =>
              /\ mtime[repo] = fetches
              /\ \A r \in Entries \ {repo} : mtime[r] < fetches \/ (pc = "rmtree" /\ r = victim)
        /\ pc = "download" => \A r \in Entries : mtime[r] < fetches
        /\ pc = "evict" => cache[repo] # NoDir
        /\ pc \in {"evicting", "rmtree"} => repo \in listed \/ Size[repo] > MaxBytes
        /\ pc = "fetched" => cache[repo] # NoDir \/ Size[repo] > MaxBytes

\* The inductive invariant.
CacheInv == TypeOK /\ FunctionsOK /\ PhaseInv /\ SumInv /\ ReadyInv

\* CacheAssumption without its sets.
LEMMA Sizes ==
    /\ IsFiniteSet(Repos) /\ NoRepo \notin Repos
    /\ Size \in [Repos -> Int] /\ \A r \in Repos : Size[r] > 0
    /\ MaxBytes \in Nat /\ MaxFetches \in Nat /\ MaxFailures \in Nat /\ MaxCrashes \in Nat /\ MaxErrors \in Nat
  BY CacheAssumption

\* What directory_size_bytes adds up.
LEMMA CacheBytesTotal == CacheBytes = Total(cache, Entries)
  BY DEF CacheBytes, Total

\* Every sum over entries is a number.
LEMMA TotalInt == FunctionsOK => \A T \in SUBSET Repos : Total(cache, T) \in Int
  BY Sizes, TotalType DEF FunctionsOK

\* An empty cache and a worker that is down.
LEMMA InitCacheInv == Init => CacheInv
  <1> SUFFICES ASSUME Init PROVE CacheInv
    OBVIOUS
  <1> USE Sizes DEF Init, NoDir
  <1>1. TypeOK /\ FunctionsOK
    BY DEF TypeOK, FunctionsOK
  <1>2. PhaseInv /\ SumInv
    BY DEF PhaseInv, SumInv, Fetching
  <1>3. ReadyInv
    BY DEF ReadyInv, Entries
  <1> QED
    BY <1>1, <1>2, <1>3 DEF CacheInv

\* Every step keeps the types.
LEMMA TypeStep == TypeOK /\ FunctionsOK /\ PhaseInv /\ [Next]_vars => TypeOK' /\ FunctionsOK'
  <1> SUFFICES ASSUME TypeOK, FunctionsOK, PhaseInv, [Next]_vars PROVE TypeOK' /\ FunctionsOK'
    OBVIOUS
  <1> USE Sizes DEF TypeOK, FunctionsOK, PhaseInv, Fetching, NoDir
  <1>1. ASSUME NEW r \in Repos, Fetch(r) PROVE TypeOK' /\ FunctionsOK'
    BY <1>1 DEF Fetch, cacheDirs, evictor
  <1>2. CASE DownloadByte
    BY <1>2 DEF DownloadByte, cacheDirs, evictor
  <1>3. CASE DownloadFails
    BY <1>3 DEF DownloadFails, cacheDirs, evictor
  <1>4. CASE FinalizeDownload
    BY <1>4 DEF FinalizeDownload, cacheDirs, evictor
  <1>5. CASE EvictList
    BY <1>5, CacheBytesTotal, TotalInt DEF EvictList, cacheDirs, evictor, Entries
  <1>6. CASE EvictNext
    BY <1>6 DEF EvictNext, cacheDirs, evictor
  <1>7. CASE RemoveByte
    BY <1>7 DEF RemoveByte, cacheDirs, evictor
  <1>8. CASE Mount
    BY <1>8 DEF Mount, cacheDirs, evictor
  <1>9. CASE RemoveGivesUp
    BY <1>9 DEF RemoveGivesUp, cacheDirs, evictor
  <1>10. CASE Crash
    BY <1>10 DEF Crash, cacheDirs, evictor
  <1>11. CASE Startup
    BY <1>11 DEF Startup, cacheDirs, evictor
  <1>12. CASE UNCHANGED vars
    BY <1>12 DEF vars, cacheDirs, evictor
  <1> QED
    BY <1>1, <1>2, <1>3, <1>4, <1>5, <1>6, <1>7, <1>8, <1>9, <1>10, <1>11, <1>12 DEF Next

\* What is fetched, hit or removed exists.
LEMMA PhaseStep == TypeOK /\ FunctionsOK /\ PhaseInv /\ SumInv /\ [Next]_vars => PhaseInv'
  <1> SUFFICES ASSUME TypeOK, FunctionsOK, PhaseInv, SumInv, [Next]_vars PROVE PhaseInv'
    OBVIOUS
  <1> USE Sizes DEF TypeOK, FunctionsOK, PhaseInv, Fetching, NoDir
  <1>1. ASSUME NEW r \in Repos, Fetch(r) PROVE PhaseInv'
    BY <1>1 DEF Fetch, cacheDirs, evictor
  <1>2. CASE DownloadByte
    BY <1>2 DEF DownloadByte, cacheDirs, evictor
  <1>3. CASE DownloadFails
    BY <1>3 DEF DownloadFails, cacheDirs, evictor
  <1>4. CASE FinalizeDownload
    BY <1>4 DEF FinalizeDownload, cacheDirs, evictor
  <1>5. CASE EvictList
    BY <1>5 DEF EvictList, cacheDirs, evictor
  <1>6. CASE EvictNext
    BY <1>6 DEF EvictNext, cacheDirs, evictor, SumInv, Entries
  <1>7. CASE RemoveByte
    BY <1>7 DEF RemoveByte, cacheDirs, evictor
  <1>8. CASE Mount
    BY <1>8 DEF Mount, cacheDirs, evictor
  <1>9. CASE RemoveGivesUp
    BY <1>9 DEF RemoveGivesUp, cacheDirs, evictor
  <1>10. CASE Crash
    BY <1>10 DEF Crash, cacheDirs, evictor
  <1>11. CASE Startup
    BY <1>11 DEF Startup, cacheDirs, evictor
  <1>12. CASE UNCHANGED vars
    BY <1>12 DEF vars, cacheDirs, evictor
  <1> QED
    BY <1>1, <1>2, <1>3, <1>4, <1>5, <1>6, <1>7, <1>8, <1>9, <1>10, <1>11, <1>12 DEF Next

\* The evictor's list and its total follow what it removes.
LEMMA SumStep == TypeOK /\ FunctionsOK /\ PhaseInv /\ SumInv /\ [Next]_vars => SumInv'
  <1> SUFFICES ASSUME TypeOK, FunctionsOK, PhaseInv, SumInv, [Next]_vars PROVE SumInv'
    OBVIOUS
  <1> USE Sizes DEF TypeOK, FunctionsOK, PhaseInv, SumInv, Fetching, NoDir, Entries
  <1>1. ASSUME NEW r \in Repos, Fetch(r) PROVE SumInv'
    BY <1>1 DEF Fetch, cacheDirs, evictor
  <1>2. CASE DownloadByte
    BY <1>2 DEF DownloadByte, cacheDirs, evictor
  <1>3. CASE DownloadFails
    BY <1>3 DEF DownloadFails, cacheDirs, evictor
  <1>4. CASE FinalizeDownload
    BY <1>4 DEF FinalizeDownload, cacheDirs, evictor
  <1>5. CASE EvictList
    <2>1. total' = Total(cache', listed') /\ listed' = Entries'
      BY <1>5, CacheBytesTotal DEF EvictList, cacheDirs
    <2> QED
      BY <1>5, <2>1 DEF EvictList
  <1>6. CASE EvictNext
    <2>1. CASE pc' = "fetched"
      <3> SUFFICES ASSUME errors = 0 PROVE Total(cache', Entries') <= MaxBytes
        BY <1>6, <2>1 DEF EvictNext
      <3>1. Entries' = Entries /\ cache' = cache /\ total = Total(cache, Entries)
        BY <1>6, <2>1 DEF EvictNext, cacheDirs
      <3>2. CASE total <= MaxBytes
        BY <2>1, <3>1, <3>2
      <3>3. CASE Entries = {}
        <4>1. Total(cache, Entries) = 0
          BY <3>3, TotalEmpty
        <4> QED
          BY <2>1, <3>1, <4>1
      <3> QED
        BY <1>6, <2>1, <3>2, <3>3 DEF EvictNext
    <2>2. CASE pc' # "fetched"
      <3>1. PICK r \in listed : victim' = r /\ listed' = listed \ {r} /\ total' = total - cache[r]
        BY <1>6, <2>2 DEF EvictNext
      <3>2. pc' = "rmtree" /\ cache' = cache /\ errors' = errors /\ total = Total(cache, listed)
        BY <1>6, <2>2 DEF EvictNext, cacheDirs
      <3>3. Total(cache, listed) = cache[r] + Total(cache, listed \ {r})
        BY TotalRemove
      <3>4. Total(cache, listed \ {r}) \in Int /\ cache[r] \in Int
        BY TotalInt
      <3>5. total' = Total(cache', listed')
        BY <3>1, <3>2, <3>3, <3>4
      <3>6. /\ listed' \subseteq Entries' \ {victim'}
            /\ errors' = 0 => listed' = Entries' \ {victim'}
        BY <1>6, <3>1, <3>2 DEF EvictNext
      <3> QED
        BY <3>2, <3>5, <3>6
    <2> QED
      BY <2>1, <2>2
  <1>7. CASE RemoveByte
    <2>1. victim \in Repos /\ cache' = [cache EXCEPT ![victim] = cache[victim] - 1]
      BY <1>7 DEF RemoveByte
    <2>2. total' = total /\ listed' = listed /\ total = Total(cache, listed) /\ victim \notin listed
      BY <1>7 DEF RemoveByte
    <2>3. \A r \in listed : cache[r] = cache'[r]
      BY <2>1, <2>2
    <2>4. IsFiniteSet(listed)
      BY FS_Subset
    <2>5. Total(cache, listed) = Total(cache', listed)
      BY <2>3, <2>4, TotalSame
    <2>6. pc' = "evicting" => listed' \subseteq Entries' /\ (errors' = 0 => listed' = Entries')
      BY <1>7, <2>1 DEF RemoveByte
    <2>7. pc' = "rmtree" => /\ listed' \subseteq Entries' \ {victim'}
                            /\ errors' = 0 => listed' = Entries' \ {victim'}
      BY <1>7, <2>1 DEF RemoveByte
    <2>8. pc' \in {"evicting", "rmtree"}
      BY <1>7 DEF RemoveByte
    <2> QED
      BY <2>2, <2>5, <2>6, <2>7, <2>8
  <1>8. CASE Mount
    BY <1>8 DEF Mount, cacheDirs, evictor
  <1>9. CASE RemoveGivesUp
    BY <1>9 DEF RemoveGivesUp, cacheDirs, evictor
  <1>10. CASE Crash
    BY <1>10 DEF Crash, cacheDirs, evictor
  <1>11. CASE Startup
    BY <1>11 DEF Startup, cacheDirs, evictor
  <1>12. CASE UNCHANGED vars
    BY <1>12 DEF vars, cacheDirs, evictor
  <1> QED
    BY <1>1, <1>2, <1>3, <1>4, <1>5, <1>6, <1>7, <1>8, <1>9, <1>10, <1>11, <1>12 DEF Next

\* While nothing is interrupted, the dataset being fetched stays.
LEMMA ReadyStep == TypeOK /\ FunctionsOK /\ PhaseInv /\ SumInv /\ ReadyInv /\ [Next]_vars => ReadyInv'
  <1> SUFFICES ASSUME TypeOK, FunctionsOK, PhaseInv, SumInv, ReadyInv, [Next]_vars PROVE ReadyInv'
    OBVIOUS
  <1> USE Sizes DEF TypeOK, FunctionsOK, PhaseInv, SumInv, ReadyInv, Fetching, NoDir, Entries
  <1>1. ASSUME NEW r \in Repos, Fetch(r) PROVE ReadyInv'
    BY <1>1 DEF Fetch, cacheDirs, evictor
  <1>2. CASE DownloadByte
    BY <1>2 DEF DownloadByte, cacheDirs, evictor
  <1>3. CASE DownloadFails
    BY <1>3 DEF DownloadFails, cacheDirs, evictor
  <1>4. CASE FinalizeDownload
    BY <1>4 DEF FinalizeDownload, cacheDirs, evictor
  <1>5. CASE EvictList
    BY <1>5 DEF EvictList, cacheDirs, evictor
  <1>6. CASE EvictNext
    <2> SUFFICES ASSUME crashes = 0, failures = 0, errors = 0 PROVE ReadyInv'
      BY <1>6 DEF EvictNext
    <2>0. UNCHANGED <<cache, tmp, mtime, tmpTime, repo, fetches, crashes, failures, errors>>
      BY <1>6 DEF EvictNext, cacheDirs
    <2>1. CASE pc' = "fetched"
      <3>1. cache[repo] # NoDir \/ Size[repo] > MaxBytes
        <4>1. CASE total <= MaxBytes
          BY <1>6, <4>1 DEF EvictNext
        <4> QED
          BY <1>6, <2>1, <4>1 DEF EvictNext
      <3> QED
        BY <1>6, <2>0, <2>1, <3>1 DEF EvictNext
    <2>2. CASE pc' # "fetched"
      <3>1. PICK r \in listed : /\ \A s \in listed \ {r} : mtime[r] <= mtime[s]
                                /\ victim' = r /\ listed' = listed \ {r}
        BY <1>6, <2>2 DEF EvictNext, Older
      <3>2. pc' = "rmtree" /\ pc = "evicting" /\ total > MaxBytes
        BY <1>6, <2>2 DEF EvictNext
      <3>3. ASSUME r = repo PROVE Size[repo] > MaxBytes
        <4>1. listed = {r}
          BY <3>1, <3>2, <3>3
        <4>2. Total(cache, {r}) = cache[r] + Total(cache, {r} \ {r})
          BY TotalRemove
        <4>3. {r} \ {r} = {} /\ Total(cache, {}) = 0
          BY TotalEmpty
        <4>4. cache[r] > MaxBytes
          BY <3>2, <4>1, <4>2, <4>3
        <4> QED
          BY <3>3, <4>4
      <3>4. repo \in listed' \/ Size[repo] > MaxBytes
        BY <3>1, <3>2, <3>3
      <3> QED
        BY <2>0, <3>1, <3>2, <3>4
    <2> QED
      BY <2>1, <2>2
  <1>7. CASE RemoveByte
    BY <1>7 DEF RemoveByte, cacheDirs, evictor
  <1>8. CASE Mount
    BY <1>8 DEF Mount, cacheDirs, evictor
  <1>9. CASE RemoveGivesUp
    BY <1>9 DEF RemoveGivesUp, cacheDirs, evictor
  <1>10. CASE Crash
    BY <1>10 DEF Crash, cacheDirs, evictor
  <1>11. CASE Startup
    BY <1>11 DEF Startup, cacheDirs, evictor
  <1>12. CASE UNCHANGED vars
    BY <1>12 DEF vars, cacheDirs, evictor
  <1> QED
    BY <1>1, <1>2, <1>3, <1>4, <1>5, <1>6, <1>7, <1>8, <1>9, <1>10, <1>11, <1>12 DEF Next

\* The invariant holds.
THEOREM CacheInvHolds == Spec => []CacheInv
  <1>1. Init => CacheInv
    BY InitCacheInv
  <1>2. CacheInv /\ [Next]_vars => CacheInv'
    BY TypeStep, PhaseStep, SumStep, ReadyStep DEF CacheInv
  <1> QED
    BY <1>1, <1>2, PTL DEF Spec

\* The values each variable takes (DatasetFetcher and disk_manager).
THEOREM TypeOKHolds == Spec => []TypeOK
  <1>1. CacheInv => TypeOK
    BY DEF CacheInv
  <1> QED
    BY <1>1, CacheInvHolds, PTL

\* After a download evict_lru_until_under_cap leaves the cache within its cap,
\* whatever was interrupted before, unless an rmtree left files behind.
THEOREM CapRespectedHolds == Spec => []CapRespected
  <1>1. CacheInv => CapRespected
    BY CacheBytesTotal DEF CacheInv, SumInv, CapRespected
  <1> QED
    BY <1>1, CacheInvHolds, PTL

\* While nothing was interrupted, a fetch that fits in the cache returns the
\* whole dataset: the evictor never takes the one it runs for.
THEOREM DatasetReadyHolds == Spec => []DatasetReady
  <1>1. CacheInv => DatasetReady
    BY Sizes DEF CacheInv, TypeOK, PhaseInv, ReadyInv, DatasetReady, Fetching
  <1> QED
    BY <1>1, CacheInvHolds, PTL

=============================================================================
