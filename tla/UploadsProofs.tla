--------------------------- MODULE UploadsProofs ---------------------------
(***************************************************************************)
(* Uploads, for any archives and limits, any number of submissions and any *)
(* bounds: the loops over an archive's entries decide what they are meant   *)
(* to, and what was checked is what a job trains on.                       *)
(***************************************************************************)
EXTENDS Uploads, SumTheorems, TLAPS

-----------------------------------------------------------------------------
(* check_decompression_bomb.                                               *)

\* The loop's state before the first entry.
NoEntries == [total |-> 0, verdict |-> "ok"]

\* g gives every subset of S the state of the loop over its entries, in order.
IsLoop(entries, S, g) ==
    g = [s \in SUBSET S |-> IF s = {} THEN NoEntries ELSE BombStep(g[s \ {Max(s)}], entries[Max(s)])]

\* The loop over all entries.
BombLoop(entries) == FoldLeft(BombStep, NoEntries, entries)

\* What a sequence holds.
LEMMA Elements ==
    ASSUME NEW X, NEW s \in Seq(X)
    PROVE  DOMAIN s = 1 .. Len(s) /\ Len(s) \in Nat /\ \A i \in DOMAIN s : s[i] \in X
  OBVIOUS

\* A finite set of numbers has a largest one.
LEMMA MaxInSet ==
    ASSUME NEW S \in SUBSET Int, IsFiniteSet(S)
    PROVE  \A T \in SUBSET S : T # {} => Max(T) \in T
  <1> DEFINE Good == {T \in SUBSET S : T # {} => \E x \in T : \A y \in T : x >= y}
  <1>1. ASSUME NEW T \in SUBSET S, \A W \in SUBSET T : W # T => W \in Good PROVE T \in Good
    <2> SUFFICES ASSUME NEW z \in T PROVE \E x \in T : \A y \in T : x >= y
      OBVIOUS
    <2>1. CASE T \ {z} = {}
      <3>1. \A y \in T : z >= y
        BY <2>1
      <3> QED
        BY <3>1
    <2>2. CASE T \ {z} # {}
      <3>a. T \ {z} \in SUBSET T /\ T \ {z} # T
        OBVIOUS
      <3>1. PICK x \in T \ {z} : \A y \in T \ {z} : x >= y
        BY <1>1, <2>2, <3>a
      <3>2. CASE x >= z
        BY <3>1, <3>2
      <3>3. CASE ~(x >= z)
        <4>1. \A y \in T : z >= y
          BY <3>1, <3>3
        <4> QED
          BY <4>1
      <3> QED
        BY <3>2, <3>3
    <2> QED
      BY <2>1, <2>2
  <1> HIDE DEF Good
  <1>2. \A T \in SUBSET S : T \in Good
    BY <1>1, SubsetInduction
  <1> QED
    BY <1>2 DEF Good, Max

\* FoldLeft, without its local definitions.
LEMMA BombLoopDef ==
    ASSUME NEW entries
    PROVE  BombLoop(entries) = (CHOOSE g : IsLoop(entries, DOMAIN entries, g))[DOMAIN entries]
  BY DEF BombLoop, FoldLeft, MapThenFoldSet, IsLoop

\* The loop over some of the entries does not depend on the others.
LEMMA LoopUnique ==
    ASSUME NEW entries, NEW U \in SUBSET Int, IsFiniteSet(U), NEW V \in SUBSET U,
           NEW g, NEW h, IsLoop(entries, U, g), IsLoop(entries, V, h)
    PROVE  \A W \in SUBSET V : g[W] = h[W]
  <1> DEFINE Good == {W \in SUBSET V : g[W] = h[W]}
  <1>1. ASSUME NEW T \in SUBSET V, \A W \in SUBSET T : W # T => W \in Good PROVE T \in Good
    <2>1. CASE T = {}
      BY <2>1 DEF IsLoop
    <2>2. CASE T # {}
      <3>1. Max(T) \in T
        BY <2>2, MaxInSet
      <3>2. g[T \ {Max(T)}] = h[T \ {Max(T)}]
        BY <1>1, <3>1
      <3>3. /\ g[T] = BombStep(g[T \ {Max(T)}], entries[Max(T)])
            /\ h[T] = BombStep(h[T \ {Max(T)}], entries[Max(T)])
        BY <2>2 DEF IsLoop
      <3> QED
        BY <3>2, <3>3
    <2> QED
      BY <2>1, <2>2
  <1>2. IsFiniteSet(V)
    BY FS_Subset
  <1> HIDE DEF Good
  <1>3. \A W \in SUBSET V : W \in Good
    BY <1>1, <1>2, SubsetInduction
  <1> QED
    BY <1>3 DEF Good

\* The loop is well defined.
LEMMA LoopExists ==
    ASSUME NEW entries, NEW S \in SUBSET Int, IsFiniteSet(S)
    PROVE  \A T \in SUBSET S : \E g : IsLoop(entries, T, g)
  <1> DEFINE Good == {T \in SUBSET S : \E g : IsLoop(entries, T, g)}
  <1>1. ASSUME NEW T \in SUBSET S, \A W \in SUBSET T : W # T => W \in Good PROVE T \in Good
    <2> DEFINE end(W) == (CHOOSE g : IsLoop(entries, W, g))[W]
               step(W) == IF W = {} THEN NoEntries ELSE BombStep(end(W \ {Max(W)}), entries[Max(W)])
               G == [W \in SUBSET T |-> step(W)]
    <2>1. ASSUME NEW W \in SUBSET T, W # T PROVE end(W) = step(W)
      <3> DEFINE g == CHOOSE g : IsLoop(entries, W, g)
      <3>1. IsLoop(entries, W, g)
        BY <1>1, <2>1
      <3>2. CASE W = {}
        BY <3>1, <3>2 DEF IsLoop
      <3>3. CASE W # {}
        <4> DEFINE V == W \ {Max(W)}
                   h == CHOOSE h : IsLoop(entries, V, h)
        <4>1. Max(W) \in W
          BY <3>3, MaxInSet
        <4>2. V \in SUBSET T /\ V # T /\ V \in SUBSET W
          BY <4>1, <2>1
        <4>3. IsLoop(entries, V, h)
          BY <1>1, <4>2
        <4>4. IsFiniteSet(W) /\ W \in SUBSET Int
          BY FS_Subset
        <4> HIDE DEF g, h, V
        <4>5. g[V] = h[V]
          BY <3>1, <4>2, <4>3, <4>4, LoopUnique
        <4>6. g[W] = BombStep(g[V], entries[Max(W)])
          BY <3>1, <3>3 DEF IsLoop, V
        <4>7. end(W) = g[W] /\ end(V) = h[V]
          BY DEF g, h
        <4>8. step(W) = BombStep(end(V), entries[Max(W)])
          BY <3>3 DEF V
        <4> HIDE DEF end, step
        <4> QED
          BY <4>5, <4>6, <4>7, <4>8
      <3> QED
        BY <3>2, <3>3
    <2>2. ASSUME NEW W \in SUBSET T, W # {} PROVE G[W \ {Max(W)}] = end(W \ {Max(W)})
      <3>1. Max(W) \in W
        BY <2>2, MaxInSet
      <3>2. W \ {Max(W)} \in SUBSET T /\ W \ {Max(W)} # T
        BY <3>1
      <3> HIDE DEF end, step
      <3> QED
        BY <3>2, <2>1
    <2>3. G = [W \in SUBSET T |->
                  IF W = {} THEN NoEntries ELSE BombStep(G[W \ {Max(W)}], entries[Max(W)])]
      <3>1. \A W \in SUBSET T :
               step(W) = IF W = {} THEN NoEntries ELSE BombStep(G[W \ {Max(W)}], entries[Max(W)])
        <4> HIDE DEF end, G
        <4> QED
          BY <2>2
      <3>2. G = [W \in SUBSET T |-> step(W)]
        OBVIOUS
      <3> HIDE DEF step, end, G
      <3> QED
        BY <3>1, <3>2
    <2> HIDE DEF G
    <2> QED
      BY <2>3 DEF IsLoop
  <1> HIDE DEF Good
  <1>2. \A T \in SUBSET S : T \in Good
    BY <1>1, SubsetInduction
  <1> QED
    BY <1>2 DEF Good

\* The entries' sizes.
SizeOf(entries) == [i \in DOMAIN entries |-> entries[i].size]

\* The limits on sizes.
SizesFit(entries) ==
    /\ \A i \in DOMAIN entries : entries[i].size <= MaxFile
    /\ Total(SizeOf(entries), DOMAIN entries) <= MaxTotal

\* The sum in WithinLimits.
LEMMA LimitTotal ==
    ASSUME NEW entries \in Seq(Entry)
    PROVE  TotalSize(entries) = Total(SizeOf(entries), DOMAIN entries)
  <1> DEFINE S == DOMAIN entries
             f == SizeOf(entries)
             IsSum(g) == g = [s \in SUBSET S |-> IF s = {} THEN 0 ELSE entries[Pick(s)].size + g[s \ {Pick(s)}]]
             g1 == CHOOSE g : IsSum(g)
             g2 == CHOOSE g : IsTotal(f, S, g)
  <1>1. TotalSize(entries) = g1[S]
    BY DEF TotalSize, MapThenSumSet, MapThenFoldSet, Pick
  <1>2. \A s \in SUBSET S : s # {} => f[Pick(s)] = entries[Pick(s)].size
    BY DEF Pick, SizeOf
  <1>3. ASSUME NEW g PROVE IsTotal(f, S, g) <=> IsSum(g)
    <2> HIDE DEF f, S
    <2>1. [s \in SUBSET S |-> IF s = {} THEN 0 ELSE entries[Pick(s)].size + g[s \ {Pick(s)}]]
            = [s \in SUBSET S |-> IF s = {} THEN 0 ELSE f[Pick(s)] + g[s \ {Pick(s)}]]
      BY <1>2
    <2> QED
      BY <2>1 DEF IsTotal
  <1>4. IsFiniteSet(S)
    BY FS_Interval
  <1>5. IsTotal(f, S, g2)
    BY <1>4, TotalExists
  <1>6. IsTotal(f, S, g1)
    <2> HIDE DEF IsSum, g2
    <2>1. IsSum(g1)
      BY <1>3, <1>5
    <2> HIDE DEF g1
    <2> QED
      BY <1>3, <2>1
  <1>7. Total(f, S) = g2[S]
    BY TotalDef
  <1> HIDE DEF g1, g2, f, S
  <1>8. g1[S] = g2[S]
    BY <1>4, <1>5, <1>6, TotalUnique
  <1> QED
    BY <1>1, <1>7, <1>8 DEF f, S

\* A loop that stops at the first violation finds none exactly when no file
\* is too large and all of them together are not: once the total is exceeded,
\* no later file brings it back.
LEMMA BombLoopVerdict ==
    ASSUME NEW entries \in Seq(Entry)
    PROVE  BombLoop(entries).verdict = "ok" <=> SizesFit(entries)
  <1> DEFINE S == DOMAIN entries
             f == SizeOf(entries)
             g == CHOOSE g : IsLoop(entries, S, g)
             Fine(T) == (\A i \in T : entries[i].size <= MaxFile) /\ Total(f, T) <= MaxTotal
             Right(T) == /\ g[T] \in [total : Int, verdict : {"ok", "fileTooLarge", "totalTooLarge"}]
                         /\ g[T].verdict = "ok" <=> Fine(T)
                         /\ g[T].verdict = "ok" => g[T].total = Total(f, T)
             Good == {T \in SUBSET S : Right(T)}
  <1>1. IsFiniteSet(S) /\ S \in SUBSET Int
    BY FS_Interval
  <1>2. IsLoop(entries, S, g)
    BY <1>1, LoopExists
  <1>3. \A i \in S : f[i] = entries[i].size /\ f[i] \in Nat /\ f[i] \in Int
    <2>1. \A i \in S : entries[i] \in Entry
      BY Elements
    <2>2. \A i \in S : f[i] = entries[i].size
      BY DEF SizeOf
    <2> HIDE DEF f, S
    <2> QED
      BY <2>1, <2>2 DEF Entry
  <1>4. MaxFile \in Nat /\ MaxTotal \in Nat
    BY LimitsAssumption
  <1>5. BombLoop(entries) = g[S]
    BY BombLoopDef
  <1> HIDE DEF g, f, S
  <1>a. \A i \in S : f[i] \in Int
    BY <1>3
  <1>6. ASSUME NEW T \in SUBSET S, \A W \in SUBSET T : W # T => W \in Good PROVE T \in Good
    <2>1. CASE T = {}
      <3>1. g[T] = NoEntries
        BY <1>2, <2>1 DEF IsLoop
      <3>2. Total(f, T) = 0
        BY <2>1, TotalEmpty
      <3> QED
        BY <1>4, <2>1, <3>1, <3>2 DEF NoEntries
    <2>2. CASE T # {}
      <3> DEFINE m == Max(T)
                 W == T \ {m}
      <3>1. m \in T
        BY <1>1, <2>2, MaxInSet
      <3>2. g[T] = BombStep(g[W], entries[m])
        BY <1>2, <2>2 DEF IsLoop
      <3>3. Total(f, T) = f[m] + Total(f, W) /\ Total(f, W) \in Int
        <4>1. IsFiniteSet(T) /\ \A i \in T : f[i] \in Int
          BY <1>1, <1>a, FS_Subset
        <4> HIDE DEF m
        <4> QED
          BY <3>1, <4>1, TotalSplit
      <3>4. Total(f, W) \in Int /\ f[m] \in Nat /\ f[m] = entries[m].size
        BY <1>3, <3>1, <3>3
      <3>5. Right(W)
        <4>1. W \in SUBSET T /\ W # T
          BY <3>1
        <4> HIDE DEF Right, W
        <4> QED
          BY <1>6, <4>1
      <3>6. (\A i \in T : entries[i].size <= MaxFile) <=>
               (\A i \in W : entries[i].size <= MaxFile) /\ entries[m].size <= MaxFile
        BY <3>1
      <3> HIDE DEF m, W
      <3>7. CASE g[W].verdict # "ok"
        <4>1. g[T] = g[W]
          BY <3>2, <3>7 DEF BombStep
        <4>2. ~Fine(T)
          BY <1>4, <3>3, <3>4, <3>5, <3>6, <3>7
        <4> QED
          BY <3>5, <3>7, <4>1, <4>2
      <3>8. CASE g[W].verdict = "ok" /\ entries[m].size > MaxFile
        <4>1. g[T] = [g[W] EXCEPT !.verdict = "fileTooLarge"]
          BY <3>2, <3>8 DEF BombStep
        <4>2. ~Fine(T)
          BY <1>4, <3>4, <3>6, <3>8
        <4> QED
          BY <3>5, <4>1, <4>2
      <3>9. CASE g[W].verdict = "ok" /\ ~(entries[m].size > MaxFile)
        <4>1. g[T] = [total |-> Total(f, T), verdict |-> IF Total(f, T) > MaxTotal THEN "totalTooLarge" ELSE "ok"]
          <5>1. g[W].total + entries[m].size = Total(f, T)
            BY <3>3, <3>4, <3>5, <3>9
          <5> QED
            BY <3>2, <3>9, <5>1 DEF BombStep
        <4>2. Fine(T) <=> Total(f, T) <= MaxTotal
          BY <1>4, <3>4, <3>5, <3>6, <3>9
        <4> QED
          BY <1>4, <3>3, <3>4, <4>1, <4>2
      <3> QED
        BY <3>7, <3>8, <3>9
    <2> QED
      BY <2>1, <2>2
  <1>7. S \in Good
    <2> HIDE DEF Good
    <2> QED
      BY <1>1, <1>6, SubsetInduction
  <1> QED
    BY <1>5, <1>7 DEF S, f, SizesFit

\* check_decompression_bomb accepts exactly the archives within every limit.
THEOREM BombCheckIsExact ==
    ASSUME NEW entries \in Seq(Entry)
    PROVE  CheckDecompressionBomb(entries) = "ok" <=> WithinLimits(entries)
  <1>1. Len(entries) \in Nat /\ MaxFiles \in Nat
    BY LimitsAssumption
  <1>2. CheckDecompressionBomb(entries) =
          IF Len(entries) > MaxFiles THEN "tooManyFiles" ELSE BombLoop(entries).verdict
    BY DEF CheckDecompressionBomb, BombLoop, NoEntries
  <1>3. WithinLimits(entries) <=> Len(entries) <= MaxFiles /\ SizesFit(entries)
    BY LimitTotal DEF WithinLimits, SizesFit
  <1>4. BombLoop(entries).verdict = "ok" <=> SizesFit(entries)
    BY BombLoopVerdict
  <1> QED
    BY <1>1, <1>2, <1>3, <1>4

-----------------------------------------------------------------------------
(* What the submissions have read.                                         *)

\* Past each stage of the checks.
PastExists == {"entries", "info", "quota", "create", "created"}
PastEntries == {"info", "quota", "create", "created"}
PastInfo == {"quota", "create", "created"}

\* The types TypeOK leaves open.
FunctionsOK ==
    /\ confirms \in [Confirms -> [at : Stages \cup Answers,
                                  source : {"zip", "hf"}, policy : Policies]]
    /\ jobs \in [Confirms -> JobStates]
    /\ dataset \in [Confirms -> Archives \cup {NoObject}]
    /\ object \in Archives \cup {NoObject}
    /\ repo \in Repos \cup {NoObject} /\ cached \in Repos \cup {NoObject}

\* Archive a passed the checks that submission c has behind it.
Passed(c, a) ==
    /\ confirms[c].at \in PastEntries =>
         IF confirms[c].source = "zip" THEN EntriesAccepted(a) ELSE CheckLerobotStructure(a.entries)
    /\ confirms[c].at \in PastInfo => InfoVerdict(a, confirms[c].policy) = "ok"

\* Only a job has a dataset.
DatasetInv == \A c \in Confirms : dataset[c] # NoObject => confirms[c].at = "created"

\* Before the first upload there is nothing to check, and with one upload there
\* is one archive that every check has seen and every job is given.
ZipInv ==
    /\ puts = 0 => /\ object = NoObject
                   /\ \A c \in Confirms : confirms[c].source = "zip" => confirms[c].at \notin PastExists
    /\ puts = 1 => \E a \in Archives :
         /\ object \in {a, NoObject}
         /\ \A c \in Confirms : confirms[c].source = "zip" => Passed(c, a) /\ dataset[c] \in {a, NoObject}

\* The same of the repository and of the worker's cache of it.
HubInv ==
    /\ pushes = 0 => /\ repo = NoObject /\ cached = NoObject
                     /\ \A c \in Confirms : confirms[c].source = "hf" => confirms[c].at \notin PastExists
    /\ pushes = 1 => \E a \in Archives :
         /\ {repo, cached} \subseteq {a, NoObject}
         /\ \A c \in Confirms : confirms[c].source = "hf" => Passed(c, a) /\ dataset[c] \in {a, NoObject}

\* The inductive invariant.
UploadsInv == TypeOK /\ FunctionsOK /\ DatasetInv /\ ZipInv /\ HubInv

\* The assumptions, without their sets.
LEMMA Constants ==
    /\ NoObject \notin Archives /\ Repos \subseteq Archives
    /\ MaxPuts \in Nat /\ MaxPushes \in Nat /\ MaxDays \in Nat
  BY UploadsAssumption

\* What is known of an archive.
LEMMA ArchiveType ==
    ASSUME NEW a \in Archives
    PROVE  a.isZip \in BOOLEAN /\ a.entries \in Seq(Entry) /\ a.info \in InfoKinds
  <1>1. a \in Archive
    BY UploadsAssumption
  <1> QED
    BY <1>1 DEF Archive

\* What the checks on meta/info.json can say.
LEMMA VerdictType ==
    ASSUME NEW a \in Archives, NEW policy
    PROVE  InfoVerdict(a, policy) \in {"ok", "rejected", "error"}
  <1>1. a.isZip \in BOOLEAN /\ a.info \in InfoKinds
    BY ArchiveType
  <1> QED
    BY <1>1 DEF InfoVerdict, InfoKinds

\* What passed every check of its kind conforms.
LEMMA CheckedIsSuitable ==
    ASSUME NEW a \in Archives, NEW policy \in Policies, InfoVerdict(a, policy) = "ok"
    PROVE  /\ EntriesAccepted(a) => Conforms(a, "zip", policy)
           /\ CheckLerobotStructure(a.entries) => Conforms(a, "hf", policy)
  <1>1. a.isZip \in BOOLEAN /\ a.entries \in Seq(Entry) /\ a.info \in InfoKinds
    BY ArchiveType
  <1>2. a.info = "features" /\ CheckPolicyCompatibility(a.features, policy)
    BY <1>1 DEF InfoVerdict, InfoKinds
  <1>3. CheckDecompressionBomb(a.entries) = "ok" => WithinLimits(a.entries)
    BY <1>1, BombCheckIsExact
  <1>4. CheckLerobotStructure(a.entries) =>
          \A name \in {"info", "data"} : \E i \in DOMAIN a.entries : a.entries[i].name = name
    BY DEF CheckLerobotStructure, EntryNames
  <1>5. /\ {"state", "action"} \subseteq a.features
        /\ "image" \in a.features \/ (policy = "act" /\ "environment_state" \in a.features)
    BY <1>2 DEF CheckPolicyCompatibility, Policies
  <1> QED
    BY <1>2, <1>3, <1>4, <1>5 DEF WellFormed, Conforms, EntriesAccepted

\* What a check rejects does not conform.
LEMMA RejectedBy ==
    ASSUME NEW a \in Archives, NEW policy \in Policies, NEW source \in {"zip", "hf"}
    PROVE  /\ source = "zip" /\ ~EntriesAccepted(a) => ~Conforms(a, source, policy)
           /\ ~CheckLerobotStructure(a.entries) => ~Conforms(a, source, policy)
           /\ InfoVerdict(a, policy) = "rejected" => ~Conforms(a, source, policy)
  <1>1. a.isZip \in BOOLEAN /\ a.entries \in Seq(Entry) /\ a.info \in InfoKinds
    BY ArchiveType
  <1>2. WithinLimits(a.entries) => CheckDecompressionBomb(a.entries) = "ok"
    BY <1>1, BombCheckIsExact
  <1>3. ~CheckLerobotStructure(a.entries) => ~Conforms(a, source, policy)
    BY DEF CheckLerobotStructure, EntryNames, WellFormed, Conforms
  <1>4. source = "zip" /\ ~EntriesAccepted(a) => ~Conforms(a, source, policy)
    <2>1. Conforms(a, "zip", policy) => a.isZip /\ WithinLimits(a.entries)
      BY DEF WellFormed, Conforms
    <2> QED
      BY <1>2, <1>3, <2>1 DEF EntriesAccepted
  <1>5. ASSUME InfoVerdict(a, policy) = "rejected", Conforms(a, source, policy) PROVE FALSE
    <2>1. a.info = "features" /\ "info" \in EntryNames(a.entries)
      BY <1>5 DEF WellFormed, Conforms, EntryNames
    <2>2. CheckPolicyCompatibility(a.features, policy)
      BY <1>5 DEF WellFormed, Conforms, CheckPolicyCompatibility, Policies
    <2> QED
      BY <1>1, <1>5, <2>1, <2>2 DEF InfoVerdict
  <1> QED
    BY <1>3, <1>4, <1>5

\* Nothing is uploaded or submitted yet.
LEMMA InitUploadsInv == Init => UploadsInv
  <1> SUFFICES ASSUME Init PROVE UploadsInv
    OBVIOUS
  <1> USE Constants DEF Init
  <1>1. FunctionsOK
    BY DEF FunctionsOK, JobStates, Stages, Answers
  <1>2. TypeOK
    <2>1. old \in BOOLEAN
      BY Zenon
    <2> QED
      BY <1>1, <2>1 DEF TypeOK, FunctionsOK, JobStates, Stages, Answers
  <1>3. DatasetInv
    BY DEF DatasetInv
  <1>4. ZipInv /\ HubInv
    BY DEF ZipInv, HubInv, PastExists
  <1> QED
    BY <1>1, <1>2, <1>3, <1>4 DEF UploadsInv

\* Every step keeps the functions' types.
LEMMA FunctionsStep == TypeOK /\ FunctionsOK /\ [Next]_vars => FunctionsOK'
  <1> SUFFICES ASSUME TypeOK, FunctionsOK, [Next]_vars PROVE FunctionsOK'
    OBVIOUS
  <1> USE Constants DEF FunctionsOK, Stages, Answers, JobStates
  <1>1. ASSUME NEW archive \in Archives, Put(archive) PROVE FunctionsOK'
    BY <1>1 DEF Put, zipVars, hubVars
  <1>2. ASSUME NEW files \in Repos, Push(files) PROVE FunctionsOK'
    BY <1>2 DEF Push, zipVars, hubVars
  <1>3. CASE CreateUploadTarget
    BY <1>3 DEF CreateUploadTarget, zipVars, hubVars
  <1>4. CASE DayPasses
    BY <1>4 DEF DayPasses, zipVars, hubVars
  <1>5. CASE LifecycleDelete
    BY <1>5 DEF LifecycleDelete, zipVars, hubVars
  <1>6. CASE RepoGone
    BY <1>6 DEF RepoGone, zipVars, hubVars
  <1>7. CASE Evict
    BY <1>7 DEF Evict, zipVars, hubVars
  <1>8. ASSUME NEW c \in Confirms, ConfirmExists(c) PROVE FunctionsOK'
    BY <1>8 DEF ConfirmExists, Goto, zipVars, hubVars
  <1>9. ASSUME NEW c \in Confirms, ConfirmEntries(c) PROVE FunctionsOK'
    BY <1>9 DEF ConfirmEntries, Reject, DeleteObject, Goto, zipVars, hubVars
  <1>10. ASSUME NEW c \in Confirms, ConfirmInfo(c) PROVE FunctionsOK'
    BY <1>10 DEF ConfirmInfo, Reject, DeleteObject, Goto, zipVars, hubVars
  <1>11. ASSUME NEW c \in Confirms, HubExists(c) PROVE FunctionsOK'
    BY <1>11 DEF HubExists, Goto, zipVars, hubVars
  <1>12. ASSUME NEW c \in Confirms, HubEntries(c) PROVE FunctionsOK'
    BY <1>12 DEF HubEntries, Goto, zipVars, hubVars
  <1>13. ASSUME NEW c \in Confirms, HubInfo(c) PROVE FunctionsOK'
    <2>1. repo # NoObject => InfoVerdict(repo, confirms[c].policy) \in {"ok", "rejected", "error"}
      BY VerdictType
    <2> QED
      BY <1>13, <2>1 DEF HubInfo, Goto, zipVars, hubVars
  <1>14. ASSUME NEW c \in Confirms, ConfirmQuota(c) PROVE FunctionsOK'
    BY <1>14 DEF ConfirmQuota, Goto, zipVars, hubVars
  <1>15. ASSUME NEW c \in Confirms, ConfirmCreate(c) PROVE FunctionsOK'
    BY <1>15 DEF ConfirmCreate, Goto, zipVars, hubVars
  <1>16. ASSUME NEW c \in Confirms, ExtractZip(c) PROVE FunctionsOK'
    BY <1>16 DEF ExtractZip, Starts, zipVars, hubVars
  <1>17. ASSUME NEW c \in Confirms, DeleteConsumed(c) PROVE FunctionsOK'
    BY <1>17 DEF DeleteConsumed, DeleteObject, zipVars, hubVars
  <1>18. ASSUME NEW c \in Confirms, FetchHub(c) PROVE FunctionsOK'
    BY <1>18 DEF FetchHub, Starts, zipVars, hubVars
  <1>19. ASSUME NEW c \in Confirms, JobEnds(c) PROVE FunctionsOK'
    BY <1>19 DEF JobEnds, zipVars, hubVars
  <1>20. CASE UNCHANGED vars
    BY <1>20 DEF vars, zipVars, hubVars
  <1> QED
    BY <1>1, <1>2, <1>3, <1>4, <1>5, <1>6, <1>7, <1>8, <1>9, <1>10, <1>11, <1>12, <1>13, <1>14, <1>15, <1>16, <1>17, <1>18, <1>19, <1>20 DEF Next, Confirm, SubmitHfDataset

\* Every step keeps the types, and a job exists exactly after the answer with it.
LEMMA TypeStep == TypeOK /\ FunctionsOK /\ FunctionsOK' /\ [Next]_vars => TypeOK'
  <1> SUFFICES ASSUME TypeOK, FunctionsOK, FunctionsOK', [Next]_vars PROVE TypeOK'
    OBVIOUS
  <1> USE Constants DEF TypeOK, FunctionsOK, Stages, Answers
  <1>1. ASSUME NEW archive \in Archives, Put(archive) PROVE TypeOK'
    <2>1. old' \in BOOLEAN
      BY <1>1, Zenon DEF Put, DeleteObject, Reject, TypeOK
    <2> QED
      BY <1>1, <2>1 DEF Put, hubVars
  <1>2. ASSUME NEW files \in Repos, Push(files) PROVE TypeOK'
    BY <1>2 DEF Push, zipVars, hubVars
  <1>3. CASE CreateUploadTarget
    BY <1>3 DEF CreateUploadTarget, zipVars, hubVars
  <1>4. CASE DayPasses
    <2>1. old' \in BOOLEAN
      BY <1>4, Zenon DEF DayPasses, DeleteObject, Reject, TypeOK
    <2> QED
      BY <1>4, <2>1 DEF DayPasses, hubVars
  <1>5. CASE LifecycleDelete
    BY <1>5 DEF LifecycleDelete, zipVars, hubVars
  <1>6. CASE RepoGone
    BY <1>6 DEF RepoGone, zipVars, hubVars
  <1>7. CASE Evict
    BY <1>7 DEF Evict, zipVars, hubVars
  <1>8. ASSUME NEW c \in Confirms, ConfirmExists(c) PROVE TypeOK'
    BY <1>8 DEF ConfirmExists, Goto, zipVars, hubVars
  <1>9. ASSUME NEW c \in Confirms, ConfirmEntries(c) PROVE TypeOK'
    <2>1. old' \in BOOLEAN
      BY <1>9, Zenon DEF ConfirmEntries, DeleteObject, Reject, TypeOK
    <2> QED
      BY <1>9, <2>1 DEF ConfirmEntries, Reject, DeleteObject, Goto, hubVars
  <1>10. ASSUME NEW c \in Confirms, ConfirmInfo(c) PROVE TypeOK'
    <2>1. old' \in BOOLEAN
      BY <1>10, Zenon DEF ConfirmInfo, DeleteObject, Reject, TypeOK
    <2> QED
      BY <1>10, <2>1 DEF ConfirmInfo, Reject, DeleteObject, Goto, hubVars
  <1>11. ASSUME NEW c \in Confirms, HubExists(c) PROVE TypeOK'
    BY <1>11 DEF HubExists, Goto, zipVars, hubVars
  <1>12. ASSUME NEW c \in Confirms, HubEntries(c) PROVE TypeOK'
    BY <1>12 DEF HubEntries, Goto, zipVars, hubVars
  <1>13. ASSUME NEW c \in Confirms, HubInfo(c) PROVE TypeOK'
    <2>1. repo # NoObject => InfoVerdict(repo, confirms[c].policy) \in {"ok", "rejected", "error"}
      BY VerdictType
    <2> QED
      BY <1>13, <2>1 DEF HubInfo, Goto, zipVars, hubVars
  <1>14. ASSUME NEW c \in Confirms, ConfirmQuota(c) PROVE TypeOK'
    BY <1>14 DEF ConfirmQuota, Goto, zipVars, hubVars
  <1>15. ASSUME NEW c \in Confirms, ConfirmCreate(c) PROVE TypeOK'
    BY <1>15 DEF ConfirmCreate, Goto, zipVars, hubVars
  <1>16. ASSUME NEW c \in Confirms, ExtractZip(c) PROVE TypeOK'
    BY <1>16 DEF ExtractZip, Starts, zipVars, hubVars
  <1>17. ASSUME NEW c \in Confirms, DeleteConsumed(c) PROVE TypeOK'
    BY <1>17 DEF DeleteConsumed, DeleteObject, zipVars, hubVars
  <1>18. ASSUME NEW c \in Confirms, FetchHub(c) PROVE TypeOK'
    BY <1>18 DEF FetchHub, Starts, zipVars, hubVars
  <1>19. ASSUME NEW c \in Confirms, JobEnds(c) PROVE TypeOK'
    BY <1>19 DEF JobEnds, zipVars, hubVars
  <1>20. CASE UNCHANGED vars
    BY <1>20 DEF vars, zipVars, hubVars
  <1> QED
    BY <1>1, <1>2, <1>3, <1>4, <1>5, <1>6, <1>7, <1>8, <1>9, <1>10, <1>11, <1>12, <1>13, <1>14, <1>15, <1>16, <1>17, <1>18, <1>19, <1>20 DEF Next, Confirm, SubmitHfDataset

\* Only a job is given a dataset.
LEMMA DatasetStep == TypeOK /\ FunctionsOK /\ DatasetInv /\ [Next]_vars => DatasetInv'
  <1> SUFFICES ASSUME TypeOK, FunctionsOK, DatasetInv, [Next]_vars PROVE DatasetInv'
    OBVIOUS
  <1> USE Constants DEF TypeOK, FunctionsOK, DatasetInv
  <1>1. ASSUME NEW archive \in Archives, Put(archive) PROVE DatasetInv'
    BY <1>1 DEF Put, zipVars, hubVars
  <1>2. ASSUME NEW files \in Repos, Push(files) PROVE DatasetInv'
    BY <1>2 DEF Push, zipVars, hubVars
  <1>3. CASE CreateUploadTarget
    BY <1>3 DEF CreateUploadTarget, zipVars, hubVars
  <1>4. CASE DayPasses
    BY <1>4 DEF DayPasses, zipVars, hubVars
  <1>5. CASE LifecycleDelete
    BY <1>5 DEF LifecycleDelete, zipVars, hubVars
  <1>6. CASE RepoGone
    BY <1>6 DEF RepoGone, zipVars, hubVars
  <1>7. CASE Evict
    BY <1>7 DEF Evict, zipVars, hubVars
  <1>8. ASSUME NEW c \in Confirms, ConfirmExists(c) PROVE DatasetInv'
    BY <1>8 DEF ConfirmExists, Goto, zipVars, hubVars
  <1>9. ASSUME NEW c \in Confirms, ConfirmEntries(c) PROVE DatasetInv'
    BY <1>9 DEF ConfirmEntries, Reject, DeleteObject, Goto, zipVars, hubVars
  <1>10. ASSUME NEW c \in Confirms, ConfirmInfo(c) PROVE DatasetInv'
    BY <1>10 DEF ConfirmInfo, Reject, DeleteObject, Goto, zipVars, hubVars
  <1>11. ASSUME NEW c \in Confirms, HubExists(c) PROVE DatasetInv'
    BY <1>11 DEF HubExists, Goto, zipVars, hubVars
  <1>12. ASSUME NEW c \in Confirms, HubEntries(c) PROVE DatasetInv'
    BY <1>12 DEF HubEntries, Goto, zipVars, hubVars
  <1>13. ASSUME NEW c \in Confirms, HubInfo(c) PROVE DatasetInv'
    BY <1>13 DEF HubInfo, Goto, zipVars, hubVars
  <1>14. ASSUME NEW c \in Confirms, ConfirmQuota(c) PROVE DatasetInv'
    BY <1>14 DEF ConfirmQuota, Goto, zipVars, hubVars
  <1>15. ASSUME NEW c \in Confirms, ConfirmCreate(c) PROVE DatasetInv'
    BY <1>15 DEF ConfirmCreate, Goto, zipVars, hubVars
  <1>16. ASSUME NEW c \in Confirms, ExtractZip(c) PROVE DatasetInv'
    BY <1>16 DEF ExtractZip, Starts, zipVars, hubVars
  <1>17. ASSUME NEW c \in Confirms, DeleteConsumed(c) PROVE DatasetInv'
    BY <1>17 DEF DeleteConsumed, DeleteObject, zipVars, hubVars
  <1>18. ASSUME NEW c \in Confirms, FetchHub(c) PROVE DatasetInv'
    BY <1>18 DEF FetchHub, Starts, zipVars, hubVars
  <1>19. ASSUME NEW c \in Confirms, JobEnds(c) PROVE DatasetInv'
    BY <1>19 DEF JobEnds, zipVars, hubVars
  <1>20. CASE UNCHANGED vars
    BY <1>20 DEF vars, zipVars, hubVars
  <1> QED
    BY <1>1, <1>2, <1>3, <1>4, <1>5, <1>6, <1>7, <1>8, <1>9, <1>10, <1>11, <1>12, <1>13, <1>14, <1>15, <1>16, <1>17, <1>18, <1>19, <1>20 DEF Next, Confirm, SubmitHfDataset

\* With one upload, every check and every job sees the same archive.
LEMMA ZipStep == TypeOK /\ FunctionsOK /\ DatasetInv /\ ZipInv /\ [Next]_vars => ZipInv'
  <1> SUFFICES ASSUME TypeOK, FunctionsOK, DatasetInv, ZipInv, [Next]_vars PROVE ZipInv'
    OBVIOUS
  <1> USE Constants DEF TypeOK, FunctionsOK, DatasetInv, ZipInv, Passed, PastExists, PastEntries, PastInfo
  <1>1. ASSUME NEW archive \in Archives, Put(archive) PROVE ZipInv'
    BY <1>1 DEF Put, zipVars, hubVars
  <1>2. ASSUME NEW files \in Repos, Push(files) PROVE ZipInv'
    BY <1>2 DEF Push, zipVars, hubVars
  <1>3. CASE CreateUploadTarget
    BY <1>3 DEF CreateUploadTarget, zipVars, hubVars
  <1>4. CASE DayPasses
    BY <1>4 DEF DayPasses, zipVars, hubVars
  <1>5. CASE LifecycleDelete
    BY <1>5 DEF LifecycleDelete, zipVars, hubVars
  <1>6. CASE RepoGone
    BY <1>6 DEF RepoGone, zipVars, hubVars
  <1>7. CASE Evict
    BY <1>7 DEF Evict, zipVars, hubVars
  <1>8. ASSUME NEW c \in Confirms, ConfirmExists(c) PROVE ZipInv'
    BY <1>8 DEF ConfirmExists, Goto, zipVars, hubVars
  <1>9. ASSUME NEW c \in Confirms, ConfirmEntries(c) PROVE ZipInv'
    BY <1>9 DEF ConfirmEntries, Reject, DeleteObject, Goto, zipVars, hubVars
  <1>10. ASSUME NEW c \in Confirms, ConfirmInfo(c) PROVE ZipInv'
    BY <1>10 DEF ConfirmInfo, Reject, DeleteObject, Goto, zipVars, hubVars
  <1>11. ASSUME NEW c \in Confirms, HubExists(c) PROVE ZipInv'
    BY <1>11 DEF HubExists, Goto, zipVars, hubVars
  <1>12. ASSUME NEW c \in Confirms, HubEntries(c) PROVE ZipInv'
    BY <1>12 DEF HubEntries, Goto, zipVars, hubVars
  <1>13. ASSUME NEW c \in Confirms, HubInfo(c) PROVE ZipInv'
    BY <1>13 DEF HubInfo, Goto, zipVars, hubVars
  <1>14. ASSUME NEW c \in Confirms, ConfirmQuota(c) PROVE ZipInv'
    <2>1. /\ UNCHANGED <<object, puts, dataset>>
          /\ \A d \in Confirms \ {c} : confirms'[d] = confirms[d]
          /\ confirms'[c].source = confirms[c].source /\ confirms'[c].policy = confirms[c].policy
          /\ confirms[c].at = "quota" /\ confirms'[c].at \in {"create", "refused"}
      BY <1>14 DEF ConfirmQuota, Goto, zipVars, hubVars
    <2>2. \A d \in Confirms, a \in Archives : Passed(d, a) => Passed(d, a)'
      BY <2>1
    <2>3. \A d \in Confirms : /\ confirms'[d].source = confirms[d].source
                              /\ confirms'[d].at \in PastExists => confirms[d].at \in PastExists
      BY <2>1
    <2> HIDE DEF Passed, PastExists
    <2> QED
      BY <2>1, <2>2, <2>3
  <1>15. ASSUME NEW c \in Confirms, ConfirmCreate(c) PROVE ZipInv'
    BY <1>15 DEF ConfirmCreate, Goto, zipVars, hubVars
  <1>16. ASSUME NEW c \in Confirms, ExtractZip(c) PROVE ZipInv'
    BY <1>16 DEF ExtractZip, Starts, zipVars, hubVars
  <1>17. ASSUME NEW c \in Confirms, DeleteConsumed(c) PROVE ZipInv'
    BY <1>17 DEF DeleteConsumed, DeleteObject, zipVars, hubVars
  <1>18. ASSUME NEW c \in Confirms, FetchHub(c) PROVE ZipInv'
    BY <1>18 DEF FetchHub, Starts, zipVars, hubVars
  <1>19. ASSUME NEW c \in Confirms, JobEnds(c) PROVE ZipInv'
    BY <1>19 DEF JobEnds, zipVars, hubVars
  <1>20. CASE UNCHANGED vars
    BY <1>20 DEF vars, zipVars, hubVars
  <1> QED
    BY <1>1, <1>2, <1>3, <1>4, <1>5, <1>6, <1>7, <1>8, <1>9, <1>10, <1>11, <1>12, <1>13, <1>14, <1>15, <1>16, <1>17, <1>18, <1>19, <1>20 DEF Next, Confirm, SubmitHfDataset

\* With one push, every check, the cache and every job sees the same files.
LEMMA HubStep == TypeOK /\ FunctionsOK /\ DatasetInv /\ HubInv /\ [Next]_vars => HubInv'
  <1> SUFFICES ASSUME TypeOK, FunctionsOK, DatasetInv, HubInv, [Next]_vars PROVE HubInv'
    OBVIOUS
  <1> USE Constants DEF TypeOK, FunctionsOK, DatasetInv, HubInv, Passed, PastExists, PastEntries, PastInfo
  <1>1. ASSUME NEW archive \in Archives, Put(archive) PROVE HubInv'
    BY <1>1 DEF Put, zipVars, hubVars
  <1>2. ASSUME NEW files \in Repos, Push(files) PROVE HubInv'
    BY <1>2 DEF Push, zipVars, hubVars
  <1>3. CASE CreateUploadTarget
    BY <1>3 DEF CreateUploadTarget, zipVars, hubVars
  <1>4. CASE DayPasses
    BY <1>4 DEF DayPasses, zipVars, hubVars
  <1>5. CASE LifecycleDelete
    BY <1>5 DEF LifecycleDelete, zipVars, hubVars
  <1>6. CASE RepoGone
    BY <1>6 DEF RepoGone, zipVars, hubVars
  <1>7. CASE Evict
    BY <1>7 DEF Evict, zipVars, hubVars
  <1>8. ASSUME NEW c \in Confirms, ConfirmExists(c) PROVE HubInv'
    BY <1>8 DEF ConfirmExists, Goto, zipVars, hubVars
  <1>9. ASSUME NEW c \in Confirms, ConfirmEntries(c) PROVE HubInv'
    <2>1. /\ UNCHANGED <<repo, cached, pushes, dataset>>
          /\ \A d \in Confirms : /\ confirms'[d].source = confirms[d].source
                                 /\ confirms[d].source = "hf" => confirms'[d] = confirms[d]
      BY <1>9 DEF ConfirmEntries, Reject, DeleteObject, Goto, hubVars
    <2> QED
      BY <2>1
  <1>10. ASSUME NEW c \in Confirms, ConfirmInfo(c) PROVE HubInv'
    <2>1. /\ UNCHANGED <<repo, cached, pushes, dataset>>
          /\ \A d \in Confirms : /\ confirms'[d].source = confirms[d].source
                                 /\ confirms[d].source = "hf" => confirms'[d] = confirms[d]
      BY <1>10 DEF ConfirmInfo, Reject, DeleteObject, Goto, hubVars
    <2> QED
      BY <2>1
  <1>11. ASSUME NEW c \in Confirms, HubExists(c) PROVE HubInv'
    BY <1>11 DEF HubExists, Goto, zipVars, hubVars
  <1>12. ASSUME NEW c \in Confirms, HubEntries(c) PROVE HubInv'
    BY <1>12 DEF HubEntries, Goto, zipVars, hubVars
  <1>13. ASSUME NEW c \in Confirms, HubInfo(c) PROVE HubInv'
    <2>0. /\ UNCHANGED <<repo, cached, pushes, dataset>>
          /\ \A d \in Confirms \ {c} : confirms'[d] = confirms[d]
          /\ confirms'[c].source = "hf" /\ confirms'[c].policy = confirms[c].policy
      BY <1>13 DEF HubInfo, Goto, hubVars
    <2>1. repo # NoObject => InfoVerdict(repo, confirms[c].policy) \in {"ok", "rejected", "error"}
      BY VerdictType
    <2>2. \/ confirms'[c].at \in {"rejected", "error"}
          \/ /\ confirms'[c].at = "quota" /\ confirms[c].at = "info" /\ repo # NoObject
             /\ InfoVerdict(repo, confirms[c].policy) = "ok"
      BY <1>13, <2>1 DEF HubInfo, Goto
    <2>3. pushes # 0 /\ confirms[c].source = "hf"
      BY <1>13 DEF HubInfo
    <2>4. CASE pushes = 1
      <3>1. PICK a \in Archives :
               /\ {repo, cached} \subseteq {a, NoObject}
               /\ \A d \in Confirms : confirms[d].source = "hf" => Passed(d, a) /\ dataset[d] \in {a, NoObject}
        BY <2>4
      <3>2. Passed(c, a)'
        BY <2>0, <2>2, <2>3, <3>1
      <3>3. \A d \in Confirms \ {c} : confirms'[d].source = "hf" => Passed(d, a)'
        BY <2>0, <3>1
      <3> QED
        BY <2>0, <2>3, <2>4, <3>1, <3>2, <3>3
    <2> QED
      BY <2>0, <2>3, <2>4
  <1>14. ASSUME NEW c \in Confirms, ConfirmQuota(c) PROVE HubInv'
    <2>1. /\ UNCHANGED <<repo, cached, pushes, dataset>>
          /\ \A d \in Confirms \ {c} : confirms'[d] = confirms[d]
          /\ confirms'[c].source = confirms[c].source /\ confirms'[c].policy = confirms[c].policy
          /\ confirms[c].at = "quota" /\ confirms'[c].at \in {"create", "refused"}
      BY <1>14 DEF ConfirmQuota, Goto, zipVars, hubVars
    <2>2. \A d \in Confirms, a \in Archives : Passed(d, a) => Passed(d, a)'
      BY <2>1
    <2>3. \A d \in Confirms : /\ confirms'[d].source = confirms[d].source
                              /\ confirms'[d].at \in PastExists => confirms[d].at \in PastExists
      BY <2>1
    <2> HIDE DEF Passed, PastExists
    <2> QED
      BY <2>1, <2>2, <2>3
  <1>15. ASSUME NEW c \in Confirms, ConfirmCreate(c) PROVE HubInv'
    BY <1>15 DEF ConfirmCreate, Goto, zipVars, hubVars
  <1>16. ASSUME NEW c \in Confirms, ExtractZip(c) PROVE HubInv'
    BY <1>16 DEF ExtractZip, Starts, zipVars, hubVars
  <1>17. ASSUME NEW c \in Confirms, DeleteConsumed(c) PROVE HubInv'
    BY <1>17 DEF DeleteConsumed, DeleteObject, zipVars, hubVars
  <1>18. ASSUME NEW c \in Confirms, FetchHub(c) PROVE HubInv'
    BY <1>18 DEF FetchHub, Starts, zipVars, hubVars
  <1>19. ASSUME NEW c \in Confirms, JobEnds(c) PROVE HubInv'
    BY <1>19 DEF JobEnds, zipVars, hubVars
  <1>20. CASE UNCHANGED vars
    BY <1>20 DEF vars, zipVars, hubVars
  <1> QED
    BY <1>1, <1>2, <1>3, <1>4, <1>5, <1>6, <1>7, <1>8, <1>9, <1>10, <1>11, <1>12, <1>13, <1>14, <1>15, <1>16, <1>17, <1>18, <1>19, <1>20 DEF Next, Confirm, SubmitHfDataset

\* The invariant holds.
THEOREM UploadsInvHolds == Spec => []UploadsInv
  <1>1. Init => UploadsInv
    BY InitUploadsInv
  <1>2. UploadsInv /\ [Next]_vars => UploadsInv'
    BY FunctionsStep, TypeStep, DatasetStep, ZipStep, HubStep DEF UploadsInv
  <1> QED
    BY <1>1, <1>2, PTL DEF Spec

\* The values each variable takes; a submission UploadService refuses or
\* rejects leaves no job behind.
THEOREM TypeOKHolds == Spec => []TypeOK
  <1>1. UploadsInv => TypeOK
    BY DEF UploadsInv
  <1> QED
    BY <1>1, UploadsInvHolds, PTL

\* While the client uploads once and the owner pushes once, what a job trains on
\* is laid out and featured as its policy needs, and an upload is within the
\* limits, although confirm_zip_upload, submit_hf_dataset and the worker each
\* read it anew.
THEOREM DatasetFitsJobHolds == Spec => []DatasetFitsJob
  <1>1. UploadsInv => DatasetFitsJob
    <2> SUFFICES ASSUME UploadsInv, NEW c \in Confirms, dataset[c] # NoObject,
                        WrittenOnce(c)
                 PROVE  Conforms(dataset[c], confirms[c].source, confirms[c].policy)
      BY DEF DatasetFitsJob
    <2>1. confirms[c].at = "created" /\ confirms[c].policy \in Policies /\ confirms[c].source \in {"zip", "hf"}
      BY DEF UploadsInv, DatasetInv, TypeOK
    <2>2. dataset[c] \in Archives
      BY DEF UploadsInv, FunctionsOK
    <2>3. Passed(c, dataset[c])
      <3>1. CASE confirms[c].source = "zip"
        <4>1. puts = 1
          BY <2>1, <3>1 DEF UploadsInv, TypeOK, ZipInv, PastExists, WrittenOnce
        <4> QED
          BY <3>1, <4>1 DEF UploadsInv, ZipInv
      <3>2. CASE confirms[c].source = "hf"
        <4>1. pushes = 1
          BY <2>1, <3>2 DEF UploadsInv, TypeOK, HubInv, PastExists, WrittenOnce
        <4> QED
          BY <3>2, <4>1 DEF UploadsInv, HubInv
      <3> QED
        BY <2>1, <3>1, <3>2
    <2>4. /\ InfoVerdict(dataset[c], confirms[c].policy) = "ok"
          /\ IF confirms[c].source = "zip" THEN EntriesAccepted(dataset[c])
             ELSE CheckLerobotStructure(dataset[c].entries)
      BY <2>1, <2>3 DEF Passed, PastEntries, PastInfo
    <2> QED
      BY <2>1, <2>2, <2>4, CheckedIsSuitable
  <1> QED
    BY <1>1, UploadsInvHolds, PTL

\* UploadService rejects, and _reject deletes, only what does not conform.
THEOREM RejectedIsUnsuitableHolds == Spec => RejectedIsUnsuitable
  <1> DEFINE Justified == \A c \in Confirms :
               confirms[c].at # "rejected" /\ confirms'[c].at = "rejected" =>
                  \/ repo = NoObject /\ confirms[c].source = "hf"
                  \/ ~Conforms(Source(c), confirms[c].source, confirms[c].policy)
  <1>1. UploadsInv /\ [Next]_vars => [Justified]_vars
    <2> SUFFICES ASSUME UploadsInv, Next, NEW c \in Confirms,
                        confirms[c].at # "rejected", confirms'[c].at = "rejected",
                        ~(repo = NoObject /\ confirms[c].source = "hf")
                 PROVE  ~Conforms(Source(c), confirms[c].source, confirms[c].policy)
      OBVIOUS
    <2> USE Constants DEF UploadsInv, FunctionsOK
    <2>1. confirms[c].policy \in Policies /\ confirms[c].source \in {"zip", "hf"}
      OBVIOUS
    <2>2. ASSUME NEW d \in Confirms, ConfirmEntries(d)
          PROVE  confirms[c].source = "zip" /\ object \in Archives /\ ~EntriesAccepted(object)
      BY <2>2 DEF ConfirmEntries, Goto, Reject
    <2>3. ASSUME NEW d \in Confirms, ConfirmInfo(d)
          PROVE  /\ confirms[c].source = "zip" /\ object \in Archives
                 /\ InfoVerdict(object, confirms[c].policy) = "rejected"
      BY <2>3 DEF ConfirmInfo, Goto, Reject
    <2>4. ASSUME NEW d \in Confirms, HubEntries(d)
          PROVE  confirms[c].source = "hf" /\ repo \in Archives /\ ~CheckLerobotStructure(repo.entries)
      BY <2>4 DEF HubEntries, Goto
    <2>5. ASSUME NEW d \in Confirms, HubInfo(d)
          PROVE  /\ confirms[c].source = "hf" /\ repo \in Archives
                 /\ InfoVerdict(repo, confirms[c].policy) = "rejected"
      BY <2>5 DEF HubInfo, Goto
    <2>6. \E d \in Confirms : ConfirmEntries(d) \/ ConfirmInfo(d) \/ HubEntries(d) \/ HubInfo(d)
      BY DEF Next, Confirm, SubmitHfDataset, CreateUploadTarget, Put, Push, DayPasses, LifecycleDelete,
         RepoGone, Evict, ConfirmExists, HubExists, ConfirmQuota, ConfirmCreate, ExtractZip, DeleteConsumed, FetchHub,
         JobEnds, Goto
    <2>7. Source(c) = IF confirms[c].source = "zip" THEN object ELSE repo
      BY DEF Source
    <2>8. CASE \E d \in Confirms : ConfirmEntries(d)
      BY <2>1, <2>2, <2>7, <2>8, RejectedBy
    <2>9. CASE \E d \in Confirms : ConfirmInfo(d)
      BY <2>1, <2>3, <2>7, <2>9, RejectedBy
    <2>10. CASE \E d \in Confirms : HubEntries(d)
      BY <2>1, <2>4, <2>7, <2>10, RejectedBy
    <2>11. CASE \E d \in Confirms : HubInfo(d)
      BY <2>1, <2>5, <2>7, <2>11, RejectedBy
    <2> QED
      BY <2>6, <2>8, <2>9, <2>10, <2>11
  <1> QED
    BY <1>1, UploadsInvHolds, PTL DEF Spec, RejectedIsUnsuitable

=============================================================================
