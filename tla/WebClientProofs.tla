-------------------------- MODULE WebClientProofs --------------------------
(***************************************************************************)
(* One browser tab, for any number of accounts, tokens, jobs, requests in  *)
(* flight and network failures: an answer that comes late changes nothing  *)
(* but what the component that waits for it shows.                         *)
(***************************************************************************)
EXTENDS WebClient, SequenceTheorems, TLAPS

Kinds == {"none", "list", "password", "cancel"} \cup FormKinds

\* A request's fields.
RequestType(r) ==
    /\ r = [kind |-> r.kind, token |-> r.token, arg |-> r.arg, live |-> r.live, at |-> r.at, seen |-> r.seen]
    /\ r.kind \in Kinds /\ r.token \in Nat
    /\ r.live \in {"mounted", "unmounted", "gone"}
    /\ r.at \in {"free", "sent", "read", "ok", "error", "unauthorized"}

\* A list of jobs that the backend may have answered with while it had jobs js
\* or fewer.
IsSnapshot(s, js) ==
    /\ s = [of |-> s.of, list |-> s.list]
    /\ s.of \in DOMAIN js
    /\ s.list \in Seq(DisplayStatus)
    /\ Len(s.list) <= Len(js[s.of])

\* A request, and what the backend has read for it or answered, fits what the
\* backend holds: jobs js, tokens ts, of which ex have expired.
RequestOK(r, js, ts, ex) ==
    /\ RequestType(r)
    /\ r.token <= Len(ts)
    /\ r.kind = "login" => r.arg \in DOMAIN js
    /\ r.kind = "cancel" => r.arg[1] \in DOMAIN js /\ r.arg[2] \in DOMAIN js[r.arg[1]]
    /\ r.kind = "cancel" /\ r.at = "read" => r.seen \in DisplayStatus
    /\ r.kind \in {"login", "register"} /\ r.at = "ok" => r.seen \in 1 .. Len(ts)
    /\ r.kind = "list" /\ r.at = "ok" => r.token # 0 /\ IsSnapshot(r.seen, js) /\ r.seen.of = ts[r.token]
    /\ r.at = "unauthorized" => r.token <= ex
    /\ r.kind = "none" <=> r.at = "free"
    /\ r.kind = "none" => r.live = "gone"

\* What the backend holds.
DataOK(js, ts, ex) ==
    /\ js \in Seq(Seq(DisplayStatus)) /\ Len(js) <= MaxAccounts
    /\ \A a \in DOMAIN js : Len(js[a]) <= MaxJobs
    /\ ts \in Seq(Nat)
    /\ \A i \in DOMAIN ts : ts[i] \in DOMAIN js
    /\ ex \in Nat /\ ex <= Len(ts)

ServerOK == DataOK(jobs, tokens, expired)

TabOK ==
    /\ auth \in Nat /\ auth <= Len(tokens)
    /\ page \in Pages /\ (page \in Protected => auth # 0)
    /\ shown = NoJobs \/ IsSnapshot(shown, jobs)
    /\ failed \in BOOLEAN

FetchesOK ==
    /\ fetches = [f \in Fetches |-> fetches[f]]
    /\ \A f \in Fetches : RequestOK(fetches[f], jobs, tokens, expired)
    /\ \A f \in Fetches : fetches[f].live = "mounted" => page = Home(fetches[f].kind)

\* While no request has outlived its form, every form that waits is up, and
\* what waits on the jobs page, and what it shows, is of the session.
OwnInv ==
    "orphan" \notin excuses =>
        /\ \A f \in Fetches : fetches[f].kind \in FormKinds => fetches[f].live = "mounted"
        /\ page = "jobs" =>
             /\ \A f \in Fetches : fetches[f].live = "mounted" => fetches[f].token = auth
             /\ shown # NoJobs => shown.of = tokens[auth]

\* The backend that has js had s: as many jobs, and those that had ended have.
Older(s, js) ==
    /\ Len(s.list) = Len(js[s.of])
    /\ \A i \in DOMAIN s.list : s.list[i] = "ended" => js[s.of][i] = "ended"

\* Without an excuse, on the jobs page: every list answered or shown was the
\* backend's since the page is up, and there is one on the way, an error, or a
\* list shown.
SettledInv ==
    page = "jobs" /\ excuses = {} =>
        /\ \A f \in Fetches : fetches[f].live = "mounted" /\ fetches[f].kind = "list" /\ fetches[f].at = "ok" =>
              Older(fetches[f].seen, jobs)
        /\ shown # NoJobs => Older(shown, jobs)
        /\ \/ shown # NoJobs \/ failed
           \/ \E f \in Fetches : fetches[f].live = "mounted" /\ fetches[f].kind = "list"

\* The inductive invariant.
ClientInv == ServerOK /\ TabOK /\ FetchesOK /\ OwnInv /\ SettledInv

-----------------------------------------------------------------------------
(* What the backend holds only grows.                                      *)

\* From js, ts, ex to js2, ts2, ex2.
Grows(js, ts, ex, js2, ts2, ex2) ==
    /\ Len(js) <= Len(js2) /\ Len(ts) <= Len(ts2) /\ ex <= ex2
    /\ \A a \in DOMAIN js : Len(js[a]) <= Len(js2[a])
    /\ \A i \in DOMAIN ts : ts2[i] = ts[i]

ServerGrows == Grows(jobs, tokens, expired, jobs', tokens', expired')

\* WebClientAssumption without the set.
LEMMA Bounds == MaxAccounts \in Nat /\ MaxTokens \in Nat /\ MaxJobs \in Nat /\ MaxCancels \in Nat /\ MaxFailures \in Nat
  BY WebClientAssumption

\* What a sequence holds.
LEMMA Elements ==
    ASSUME NEW X, NEW s \in Seq(X)
    PROVE  DOMAIN s = 1 .. Len(s) /\ Len(s) \in Nat /\ \A i \in DOMAIN s : s[i] \in X
  OBVIOUS

\* What was a snapshot stays one.
LEMMA SnapshotKept ==
    ASSUME NEW js, NEW ts, NEW ex, NEW js2, NEW ts2, NEW ex2,
           DataOK(js, ts, ex), DataOK(js2, ts2, ex2), Grows(js, ts, ex, js2, ts2, ex2),
           NEW s, IsSnapshot(s, js)
    PROVE  IsSnapshot(s, js2)
  <1>1. js \in Seq(Seq(DisplayStatus)) /\ js2 \in Seq(Seq(DisplayStatus))
    BY DEF DataOK
  <1>2. DOMAIN js = 1 .. Len(js) /\ DOMAIN js2 = 1 .. Len(js2) /\ Len(js) \in Nat /\ Len(js2) \in Nat
    BY <1>1, Elements
  <1>3. s.of \in DOMAIN js2 /\ Len(js[s.of]) <= Len(js2[s.of])
    BY <1>2 DEF IsSnapshot, Grows
  <1>4. js[s.of] \in Seq(DisplayStatus) /\ js2[s.of] \in Seq(DisplayStatus) /\ s.list \in Seq(DisplayStatus)
    BY <1>1, <1>3, Elements DEF IsSnapshot
  <1>5. Len(js[s.of]) \in Nat /\ Len(js2[s.of]) \in Nat /\ Len(s.list) \in Nat
    BY <1>4, Elements
  <1> QED
    BY <1>3, <1>5 DEF IsSnapshot

\* What fitted the backend fits it still.
LEMMA RequestKept ==
    ASSUME NEW js, NEW ts, NEW ex, NEW js2, NEW ts2, NEW ex2,
           DataOK(js, ts, ex), DataOK(js2, ts2, ex2), Grows(js, ts, ex, js2, ts2, ex2),
           NEW r, RequestOK(r, js, ts, ex)
    PROVE  RequestOK(r, js2, ts2, ex2)
  <1>1. js \in Seq(Seq(DisplayStatus)) /\ js2 \in Seq(Seq(DisplayStatus)) /\ ts \in Seq(Nat) /\ ts2 \in Seq(Nat)
    BY DEF DataOK
  <1>2. /\ DOMAIN js = 1 .. Len(js) /\ DOMAIN js2 = 1 .. Len(js2) /\ Len(js) \in Nat /\ Len(js2) \in Nat
        /\ DOMAIN ts = 1 .. Len(ts) /\ DOMAIN ts2 = 1 .. Len(ts2) /\ Len(ts) \in Nat /\ Len(ts2) \in Nat
    BY <1>1, Elements
  <1>3. r.token \in Nat /\ r.token <= Len(ts2)
    BY <1>2 DEF RequestOK, RequestType, Grows
  <1>4. r.kind = "login" => r.arg \in DOMAIN js2
    BY <1>2 DEF RequestOK, Grows
  <1>5. r.kind = "cancel" => r.arg[1] \in DOMAIN js2 /\ r.arg[2] \in DOMAIN js2[r.arg[1]]
    <2> SUFFICES ASSUME r.kind = "cancel" PROVE r.arg[1] \in DOMAIN js2 /\ r.arg[2] \in DOMAIN js2[r.arg[1]]
      OBVIOUS
    <2>1. r.arg[1] \in DOMAIN js /\ r.arg[2] \in DOMAIN js[r.arg[1]] /\ Len(js[r.arg[1]]) <= Len(js2[r.arg[1]])
      BY DEF RequestOK, Grows
    <2>2. r.arg[1] \in DOMAIN js2
      BY <1>2, <2>1 DEF Grows
    <2>3. js[r.arg[1]] \in Seq(DisplayStatus) /\ js2[r.arg[1]] \in Seq(DisplayStatus)
      BY <1>1, <2>1, <2>2, Elements
    <2>4. /\ DOMAIN js[r.arg[1]] = 1 .. Len(js[r.arg[1]]) /\ Len(js[r.arg[1]]) \in Nat
          /\ DOMAIN js2[r.arg[1]] = 1 .. Len(js2[r.arg[1]]) /\ Len(js2[r.arg[1]]) \in Nat
      BY <2>3, Elements
    <2> QED
      BY <2>1, <2>2, <2>4
  <1>6. r.kind \in {"login", "register"} /\ r.at = "ok" => r.seen \in 1 .. Len(ts2)
    BY <1>2 DEF RequestOK, Grows
  <1>7. r.kind = "list" /\ r.at = "ok" => r.token # 0 /\ IsSnapshot(r.seen, js2) /\ r.seen.of = ts2[r.token]
    <2>1. r.token # 0 => r.token \in DOMAIN ts
      BY <1>2 DEF RequestOK, RequestType
    <2> QED
      BY <2>1, SnapshotKept DEF RequestOK, Grows
  <1>8. r.at = "unauthorized" => r.token <= ex2
    BY <1>3 DEF RequestOK, Grows, DataOK
  <1> QED
    BY <1>3, <1>4, <1>5, <1>6, <1>7, <1>8 DEF RequestOK

\* Nothing new.
LEMMA GrowsSame ==
    ASSUME NEW js, NEW ts, NEW ex, DataOK(js, ts, ex)
    PROVE  Grows(js, ts, ex, js, ts, ex)
  <1>1. js \in Seq(Seq(DisplayStatus)) /\ ts \in Seq(Nat) /\ ex \in Nat
    BY DEF DataOK
  <1>2. Len(js) \in Nat /\ Len(ts) \in Nat /\ \A a \in DOMAIN js : js[a] \in Seq(DisplayStatus)
    BY <1>1, Elements
  <1>3. \A a \in DOMAIN js : Len(js[a]) \in Nat
    BY <1>2, Elements
  <1> QED
    BY <1>1, <1>2, <1>3 DEF Grows

\* An account's list of jobs is replaced by one that is as long or longer.
LEMMA GrowsList ==
    ASSUME NEW js, NEW ts, NEW ex, DataOK(js, ts, ex),
           NEW a \in DOMAIN js, NEW l \in Seq(DisplayStatus), Len(js[a]) <= Len(l), Len(l) <= MaxJobs
    PROVE  /\ DataOK([js EXCEPT ![a] = l], ts, ex)
           /\ Grows(js, ts, ex, [js EXCEPT ![a] = l], ts, ex)
  <1> DEFINE js2 == [js EXCEPT ![a] = l]
  <1>1. js \in Seq(Seq(DisplayStatus)) /\ DOMAIN js = 1 .. Len(js)
    BY Elements DEF DataOK
  <1>2. js2 \in Seq(Seq(DisplayStatus)) /\ Len(js2) = Len(js)
    BY <1>1, ExceptSeq
  <1>3. DOMAIN js2 = DOMAIN js /\ \A b \in DOMAIN js : js2[b] = IF b = a THEN l ELSE js[b]
    OBVIOUS
  <1> HIDE DEF js2
  <1>4. DataOK(js2, ts, ex)
    BY <1>2, <1>3 DEF DataOK
  <1>5. Grows(js, ts, ex, js, ts, ex)
    BY GrowsSame
  <1>6. Grows(js, ts, ex, js2, ts, ex)
    BY <1>2, <1>3, <1>5 DEF Grows
  <1> QED
    BY <1>4, <1>6 DEF js2

\* A token is issued.
LEMMA GrowsToken ==
    ASSUME NEW js, NEW ts, NEW ex, DataOK(js, ts, ex), NEW a \in DOMAIN js
    PROVE  /\ DataOK(js, Append(ts, a), ex)
           /\ Grows(js, ts, ex, js, Append(ts, a), ex)
           /\ Len(Append(ts, a)) = Len(ts) + 1
  <1> DEFINE ts2 == Append(ts, a)
  <1>1. ts \in Seq(Nat) /\ DOMAIN ts = 1 .. Len(ts) /\ Len(ts) \in Nat /\ a \in Nat
    BY Elements DEF DataOK
  <1>2. ts2 \in Seq(Nat) /\ Len(ts2) = Len(ts) + 1 /\ \A i \in 1 .. Len(ts) + 1 : ts2[i] = IF i <= Len(ts) THEN ts[i] ELSE a
    BY <1>1, AppendProperties
  <1>3. DOMAIN ts2 = 1 .. Len(ts) + 1
    BY <1>2, Elements
  <1> HIDE DEF ts2
  <1>4. DataOK(js, ts2, ex)
    <2>1. \A i \in DOMAIN ts2 : ts2[i] \in DOMAIN js
      BY <1>1, <1>2, <1>3 DEF DataOK
    <2> QED
      BY <1>1, <1>2, <2>1 DEF DataOK
  <1>5. Grows(js, ts, ex, js, ts, ex)
    BY GrowsSame
  <1>6. Grows(js, ts, ex, js, ts2, ex)
    BY <1>1, <1>2, <1>5 DEF Grows
  <1> QED
    BY <1>2, <1>4, <1>6 DEF ts2

\* An account is registered.
LEMMA GrowsAccount ==
    ASSUME NEW js, NEW ts, NEW ex, DataOK(js, ts, ex), Len(js) < MaxAccounts
    PROVE  /\ DataOK(Append(js, <<>>), ts, ex)
           /\ Grows(js, ts, ex, Append(js, <<>>), ts, ex)
           /\ Len(Append(js, <<>>)) \in DOMAIN Append(js, <<>>)
           /\ \A b \in DOMAIN js : Append(js, <<>>)[b] = js[b]
  <1> DEFINE js2 == Append(js, <<>>)
  <1>1. js \in Seq(Seq(DisplayStatus)) /\ DOMAIN js = 1 .. Len(js) /\ Len(js) \in Nat
    BY Elements DEF DataOK
  <1>2. <<>> \in Seq(DisplayStatus) /\ Len(<<>>) = 0
    OBVIOUS
  <1>3. /\ js2 \in Seq(Seq(DisplayStatus)) /\ Len(js2) = Len(js) + 1
        /\ \A i \in 1 .. Len(js) + 1 : js2[i] = IF i <= Len(js) THEN js[i] ELSE <<>>
    BY <1>1, <1>2, AppendProperties
  <1>4. DOMAIN js2 = 1 .. Len(js) + 1
    BY <1>3, Elements
  <1> HIDE DEF js2
  <1>5. \A b \in DOMAIN js : js2[b] = js[b]
    BY <1>1, <1>3
  <1>6. DataOK(js2, ts, ex)
    <2>1. \A b \in DOMAIN js2 : Len(js2[b]) <= MaxJobs
      BY <1>1, <1>2, <1>3, <1>4, <1>5, Bounds DEF DataOK
    <2>2. \A i \in DOMAIN ts : ts[i] \in DOMAIN js2
      BY <1>1, <1>4 DEF DataOK
    <2> QED
      BY <1>1, <1>3, <2>1, <2>2, Bounds DEF DataOK
  <1>7. Grows(js, ts, ex, js, ts, ex)
    BY GrowsSame
  <1>8. Grows(js, ts, ex, js2, ts, ex)
    BY <1>1, <1>3, <1>5, <1>7 DEF Grows
  <1>9. Len(js2) \in DOMAIN js2
    BY <1>1, <1>3, <1>4
  <1> QED
    BY <1>5, <1>6, <1>8, <1>9 DEF js2

\* From js to js2, no account has more jobs and no job that ended runs again.
Steady(js, js2) ==
    \A a \in DOMAIN js : /\ Len(js2[a]) = Len(js[a])
                         /\ \A i \in DOMAIN js[a] : js[a][i] = "ended" => js2[a][i] = "ended"

\* A snapshot stays as good as it was.
LEMMA OlderKept ==
    ASSUME NEW js, NEW ts, NEW ex, NEW js2, NEW s,
           DataOK(js, ts, ex), IsSnapshot(s, js), Older(s, js), Steady(js, js2)
    PROVE  Older(s, js2)
  <1>1. s.of \in DOMAIN js /\ js[s.of] \in Seq(DisplayStatus) /\ s.list \in Seq(DisplayStatus)
    BY Elements DEF IsSnapshot, DataOK
  <1>2. DOMAIN js[s.of] = 1 .. Len(js[s.of]) /\ DOMAIN s.list = 1 .. Len(s.list)
    BY <1>1, Elements
  <1> QED
    BY <1>1, <1>2 DEF Older, Steady

\* What a step does to the backend, seen from the tab.
ServerKept ==
    /\ ServerOK' /\ ServerGrows
    /\ page = "jobs" /\ excuses' = {} => Steady(jobs, jobs')

\* A step that leaves the backend alone.
LEMMA ServerSame == ServerOK /\ UNCHANGED server => ServerKept
  <1> SUFFICES ASSUME ServerOK, UNCHANGED server PROVE ServerKept
    OBVIOUS
  <1>1. jobs' = jobs /\ tokens' = tokens /\ expired' = expired
    BY DEF server
  <1>2. Grows(jobs, tokens, expired, jobs, tokens, expired)
    BY GrowsSame DEF ServerOK
  <1>3. Steady(jobs, jobs)
    BY DEF Steady
  <1> QED
    BY <1>1, <1>2, <1>3 DEF ServerKept, ServerOK, ServerGrows

\* One status is written.
LEMMA StatusWritten ==
    ASSUME ServerOK, NEW a \in DOMAIN jobs, NEW i \in DOMAIN jobs[a], NEW st \in DisplayStatus,
           jobs' = [jobs EXCEPT ![a][i] = st], tokens' = tokens, expired' = expired,
           jobs[a][i] = "ended" => st = "ended" \/ excuses' # {}
    PROVE  ServerKept
  <1> DEFINE l == [jobs[a] EXCEPT ![i] = st]
  <1>1. jobs \in Seq(Seq(DisplayStatus)) /\ jobs[a] \in Seq(DisplayStatus) /\ Len(jobs[a]) <= MaxJobs
    BY Elements DEF ServerOK, DataOK
  <1>2. DOMAIN jobs[a] = 1 .. Len(jobs[a]) /\ Len(jobs[a]) \in Nat
    BY <1>1, Elements
  <1>3. l \in Seq(DisplayStatus) /\ Len(l) = Len(jobs[a])
    BY <1>1, <1>2, ExceptSeq
  <1>4. jobs' = [jobs EXCEPT ![a] = l]
    OBVIOUS
  <1>5. DOMAIN l = DOMAIN jobs[a] /\ \A j \in DOMAIN jobs[a] : l[j] = IF j = i THEN st ELSE jobs[a][j]
    OBVIOUS
  <1> HIDE DEF l
  <1>6. DataOK(jobs', tokens, expired) /\ Grows(jobs, tokens, expired, jobs', tokens, expired)
    <2>1. Len(jobs[a]) <= Len(l) /\ Len(l) <= MaxJobs
      BY <1>1, <1>2, <1>3
    <2>2. /\ DataOK([jobs EXCEPT ![a] = l], tokens, expired)
          /\ Grows(jobs, tokens, expired, [jobs EXCEPT ![a] = l], tokens, expired)
      BY <1>3, <2>1, GrowsList DEF ServerOK
    <2> QED
      BY <1>4, <2>2
  <1>7. excuses' = {} => Steady(jobs, jobs')
    BY <1>3, <1>4, <1>5 DEF Steady
  <1> QED
    BY <1>6, <1>7 DEF ServerKept, ServerOK, ServerGrows

\* The backend's data stay sound and only grow; while the jobs page is up and
\* nothing is excused, no job is added and none comes back to life.
LEMMA ServerStep == ClientInv /\ [Next]_vars => ServerKept
  <1> SUFFICES ASSUME ClientInv, [Next]_vars PROVE ServerKept
    OBVIOUS
  <1> USE DEF ClientInv
  <1>0. /\ jobs \in Seq(Seq(DisplayStatus)) /\ DOMAIN jobs = 1 .. Len(jobs)
        /\ tokens \in Seq(Nat) /\ DOMAIN tokens = 1 .. Len(tokens) /\ Len(tokens) \in Nat
        /\ \A i \in DOMAIN tokens : tokens[i] \in DOMAIN jobs
        /\ expired \in Nat /\ expired <= Len(tokens)
    BY Elements DEF ServerOK, DataOK
  <1>1. ASSUME UNCHANGED server PROVE ServerKept
    BY <1>1, ServerSame
  <1>2. ASSUME NEW f \in Fetches, Authorized(f, Kinds) PROVE Caller(f) \in DOMAIN jobs
    BY <1>0, <1>2 DEF Authorized, Caller, FetchesOK, RequestOK, RequestType
  <1>3. ASSUME NEW f \in Fetches, LoginWithEmail(f) PROVE ServerKept
    <2>1. fetches[f].arg \in DOMAIN jobs
      BY <1>3 DEF LoginWithEmail, Serving, FetchesOK, RequestOK
    <2>2. CASE IssueToken(f, fetches[f].arg)
      <3>1. jobs' = jobs /\ expired' = expired /\ tokens' = Append(tokens, fetches[f].arg)
        BY <1>3, <2>2 DEF LoginWithEmail, IssueToken
      <3>2. Steady(jobs, jobs)
        BY DEF Steady
      <3> QED
        BY <2>1, <3>1, <3>2, GrowsToken DEF ServerKept, ServerOK, ServerGrows
    <2>3. CASE UNCHANGED tokens
      BY <1>1, <1>3, <2>3 DEF LoginWithEmail, server
    <2> QED
      BY <1>3, <2>2, <2>3 DEF LoginWithEmail
  <1>4. ASSUME NEW f \in Fetches, RegisterWithEmail(f) PROVE ServerKept
    <2>1. CASE Len(jobs) < MaxAccounts /\ jobs' = Append(jobs, <<>>) /\ IssueToken(f, Len(jobs'))
      <3>1. expired' = expired /\ tokens' = Append(tokens, Len(jobs')) /\ jobs' = Append(jobs, <<>>)
        BY <1>4, <2>1 DEF RegisterWithEmail, IssueToken
      <3>2. /\ DataOK(jobs', tokens, expired) /\ Grows(jobs, tokens, expired, jobs', tokens, expired)
            /\ Len(jobs') \in DOMAIN jobs' /\ \A b \in DOMAIN jobs : jobs'[b] = jobs[b]
        BY <2>1, <3>1, GrowsAccount DEF ServerOK
      <3>3. DataOK(jobs', tokens', expired) /\ Grows(jobs', tokens, expired, jobs', tokens', expired)
        BY <3>1, <3>2, GrowsToken
      <3>4. Grows(jobs, tokens, expired, jobs', tokens', expired)
        BY <3>2, <3>3 DEF Grows
      <3>5. Steady(jobs, jobs')
        BY <3>2 DEF Steady
      <3> QED
        BY <3>1, <3>3, <3>4, <3>5 DEF ServerKept, ServerOK, ServerGrows
    <2>2. CASE UNCHANGED <<jobs, tokens>>
      BY <1>1, <1>4, <2>2 DEF RegisterWithEmail, server
    <2> QED
      BY <1>4, <2>1, <2>2 DEF RegisterWithEmail
  <1>5. ASSUME NEW f \in Fetches, CancelWrite(f) PROVE ServerKept
    <2> DEFINE a == fetches[f].arg[1]
               i == fetches[f].arg[2]
               copy == fetches[f].seen
    <2>1. a \in DOMAIN jobs /\ i \in DOMAIN jobs[a] /\ copy \in DisplayStatus
      BY <1>5 DEF CancelWrite, Serving, FetchesOK, RequestOK
    <2>2. jobs' = [jobs EXCEPT ![a][i] = copy] /\ tokens' = tokens /\ expired' = expired
      BY <1>5 DEF CancelWrite
    <2>3. jobs[a][i] = "ended" => copy = "ended" \/ excuses' # {}
      BY <1>5 DEF CancelWrite, Status
    <2> HIDE DEF a, i, copy
    <2> QED
      BY <2>1, <2>2, <2>3, StatusWritten
  <1>6. ASSUME NEW f \in Fetches, CreateJob(f) PROVE ServerKept
    <2>1. Caller(f) \in DOMAIN jobs /\ fetches[f].kind = "submit"
      BY <1>2, <1>6 DEF CreateJob, Authorized, Serving, Kinds, FormKinds, SubmitKinds
    <2> DEFINE a == Caller(f)
               l == Append(jobs[a], "queued")
    <2>2. CASE Len(jobs[a]) < MaxJobs /\ jobs' = [jobs EXCEPT ![a] = l]
      <3>1. jobs[a] \in Seq(DisplayStatus) /\ Len(jobs[a]) \in Nat
        BY <1>0, <2>1, Elements
      <3>2. l \in Seq(DisplayStatus) /\ Len(l) = Len(jobs[a]) + 1
        BY <3>1, AppendProperties DEF DisplayStatus
      <3>3. tokens' = tokens /\ expired' = expired /\ excuses' = excuses
        BY <1>6 DEF CreateJob
      <3> HIDE DEF l, a
      <3>4. DataOK(jobs', tokens, expired) /\ Grows(jobs, tokens, expired, jobs', tokens, expired)
        <4>1. a \in DOMAIN jobs /\ Len(jobs[a]) <= Len(l) /\ Len(l) <= MaxJobs
          BY <2>1, <2>2, <3>1, <3>2, Bounds DEF a
        <4>2. /\ DataOK([jobs EXCEPT ![a] = l], tokens, expired)
              /\ Grows(jobs, tokens, expired, [jobs EXCEPT ![a] = l], tokens, expired)
          BY <3>2, <4>1, GrowsList DEF ServerOK
        <4> QED
          BY <2>2, <4>2
      <3>5. page = "jobs" => excuses # {}
        BY <2>1 DEF OwnInv, FetchesOK, Home, FormKinds, SubmitKinds
      <3> QED
        BY <3>3, <3>4, <3>5 DEF ServerKept, ServerOK, ServerGrows
    <2>3. CASE UNCHANGED jobs
      BY <1>1, <1>6, <2>3 DEF CreateJob, server
    <2> QED
      BY <1>6, <2>2, <2>3 DEF CreateJob
  <1>7. ASSUME NEW a \in 1 .. MaxAccounts, NEW i \in 1 .. MaxJobs, JobAdvances(a, i) PROVE ServerKept
    <2>1. a \in DOMAIN jobs /\ i \in DOMAIN jobs[a] /\ jobs[a][i] \in {"queued", "running"}
      BY <1>7 DEF JobAdvances, Successors
    <2>2. PICK st \in DisplayStatus : jobs' = [jobs EXCEPT ![a][i] = st]
      <3>1. Successors["queued"] = {"running", "ended"} /\ Successors["running"] = {"ended"}
        BY DEF Successors
      <3>2. PICK st \in Successors[jobs[a][i]] : jobs' = [jobs EXCEPT ![a][i] = st]
        BY <1>7 DEF JobAdvances
      <3>3. st \in DisplayStatus
        BY <2>1, <3>1 DEF DisplayStatus
      <3> QED
        BY <3>2, <3>3
    <2>3. tokens' = tokens /\ expired' = expired
      BY <1>7 DEF JobAdvances
    <2> QED
      BY <2>1, <2>2, <2>3, StatusWritten
  <1>8. CASE Expire
    <2>1. jobs' = jobs /\ tokens' = tokens /\ expired' = expired + 1 /\ expired < Len(tokens)
      BY <1>8 DEF Expire
    <2>2. Grows(jobs, tokens, expired, jobs, tokens, expired)
      BY GrowsSame DEF ServerOK
    <2>3. Grows(jobs, tokens, expired, jobs, tokens, expired + 1)
      BY <1>0, <2>2 DEF Grows
    <2>4. DataOK(jobs, tokens, expired + 1)
      BY <1>0, <2>1 DEF ServerOK, DataOK
    <2>5. Steady(jobs, jobs)
      BY DEF Steady
    <2> QED
      BY <2>1, <2>3, <2>4, <2>5 DEF ServerKept, ServerOK, ServerGrows
  <1>9. ASSUME NEW f \in Fetches, Serve(f) PROVE ServerKept
    BY <1>1, <1>3, <1>4, <1>5, <1>6, <1>9
       DEF Serve, Unauthorized, ServePassword, ListJobs, CancelRead, CreateUploadTarget
  <1> QED
    BY <1>1, <1>7, <1>8, <1>9
       DEF Next, Navigate, Logout, Reload, SubmitRegister, SubmitJob, ChangePassword, Poll, SubmitLogin, SubmitForm,
           Send, ClickCancel, Fail, Deliver, vars, server

-----------------------------------------------------------------------------
(* Requests.                                                               *)

\* An empty slot.
LEMMA FreeOK ==
    ASSUME NEW js, NEW ts, NEW ex, DataOK(js, ts, ex)
    PROVE  RequestOK(Free, js, ts, ex)
  <1>1. ts \in Seq(Nat) /\ Len(ts) \in Nat
    BY Elements DEF DataOK
  <1> QED
    BY <1>1 DEF RequestOK, RequestType, Free, Kinds

\* A request that has just been sent.
LEMMA SentOK ==
    ASSUME NEW js, NEW ts, NEW ex, DataOK(js, ts, ex),
           NEW kind \in Kinds \ {"none"}, NEW token \in Nat, token <= Len(ts), NEW arg,
           NEW live \in {"mounted", "unmounted", "gone"},
           kind = "login" => arg \in DOMAIN js,
           kind = "cancel" => arg[1] \in DOMAIN js /\ arg[2] \in DOMAIN js[arg[1]]
    PROVE  RequestOK(Request(kind, token, arg, live), js, ts, ex)
  BY DEF RequestOK, RequestType, Request

\* A request whose page was left, or reloaded.
LEMMA LiveOK ==
    ASSUME NEW js, NEW ts, NEW ex, NEW r, RequestOK(r, js, ts, ex), r.kind # "none",
           NEW live \in {"mounted", "unmounted", "gone"}, NEW r2, r2 = [r EXCEPT !.live = live]
    PROVE  RequestOK(r2, js, ts, ex) /\ r2.kind = r.kind /\ r2.token = r.token /\ r2.live = live /\ r2.at = r.at
  <1>1. r2 = [kind |-> r.kind, token |-> r.token, arg |-> r.arg, live |-> live, at |-> r.at, seen |-> r.seen]
    BY DEF RequestOK, RequestType
  <1>2. r2.kind = r.kind /\ r2.token = r.token /\ r2.arg = r.arg /\ r2.live = live /\ r2.at = r.at /\ r2.seen = r.seen
    BY <1>1
  <1>3. RequestType(r2)
    BY <1>1, <1>2 DEF RequestOK, RequestType
  <1>4. RequestOK(r2, js, ts, ex)
    BY <1>2, <1>3 DEF RequestOK
  <1> QED
    BY <1>2, <1>4

\* What the backend may answer to r, or its handler read for r.
Result(r, a, result, js, ts, ex) ==
    /\ r.kind # "none" /\ a \in {"read", "ok", "error", "unauthorized"}
    /\ r.kind = "cancel" /\ a = "read" => result \in DisplayStatus
    /\ r.kind \in {"login", "register"} /\ a = "ok" => result \in 1 .. Len(ts)
    /\ r.kind = "list" /\ a = "ok" => r.token # 0 /\ IsSnapshot(result, js) /\ result.of = ts[r.token]
    /\ a = "unauthorized" => r.token <= ex

Answered(r, a, result) == [r EXCEPT !.at = a, !.seen = result]

\* An answer, or what the handler has read.
LEMMA AnswerOK ==
    ASSUME NEW js, NEW ts, NEW ex, NEW r, RequestOK(r, js, ts, ex),
           NEW a, NEW result, Result(r, a, result, js, ts, ex),
           NEW r2, r2 = Answered(r, a, result)
    PROVE  /\ RequestOK(r2, js, ts, ex)
           /\ r2.kind = r.kind /\ r2.token = r.token /\ r2.live = r.live /\ r2.at = a /\ r2.seen = result
  <1>1. r2 = [kind |-> r.kind, token |-> r.token, arg |-> r.arg, live |-> r.live, at |-> a, seen |-> result]
    <2>1. r = [kind |-> r.kind, token |-> r.token, arg |-> r.arg, live |-> r.live, at |-> r.at, seen |-> r.seen]
      BY DEF RequestOK, RequestType
    <2> DEFINE r1 == [r EXCEPT !.at = a]
    <2>2. r1 = [kind |-> r.kind, token |-> r.token, arg |-> r.arg, live |-> r.live, at |-> a, seen |-> r.seen]
      BY <2>1
    <2>3. r2 = [r1 EXCEPT !.seen = result]
      BY DEF Answered
    <2> HIDE DEF r1
    <2>4. [r1 EXCEPT !.seen = result]
            = [kind |-> r.kind, token |-> r.token, arg |-> r.arg, live |-> r.live, at |-> a, seen |-> result]
      BY <2>2
    <2> QED
      BY <2>3, <2>4
  <1>2. r2.kind = r.kind /\ r2.token = r.token /\ r2.arg = r.arg /\ r2.live = r.live /\ r2.at = a /\ r2.seen = result
    BY <1>1
  <1>3. RequestType(r2)
    BY <1>1, <1>2 DEF RequestOK, RequestType, Result
  <1>4. RequestOK(r2, js, ts, ex)
    BY <1>2, <1>3 DEF RequestOK, Result
  <1> QED
    BY <1>2, <1>4

\* A step keeps what it does not touch.
LEMMA AllKept ==
    ASSUME ClientInv, ServerKept
    PROVE  /\ \A g \in Fetches : RequestOK(fetches[g], jobs', tokens', expired')
           /\ shown = NoJobs \/ IsSnapshot(shown, jobs')
           /\ auth <= Len(tokens')
           /\ auth # 0 => tokens'[auth] = tokens[auth]
           /\ \A g \in Fetches : page = "jobs" /\ excuses' = {} /\ excuses = {} /\
                 fetches[g].live = "mounted" /\ fetches[g].kind = "list" /\ fetches[g].at = "ok" =>
                    Older(fetches[g].seen, jobs')
           /\ page = "jobs" /\ excuses' = {} /\ excuses = {} /\ shown # NoJobs => Older(shown, jobs')
  <1>1. DataOK(jobs, tokens, expired) /\ DataOK(jobs', tokens', expired')
    BY DEF ClientInv, ServerKept, ServerOK
  <1>2. Grows(jobs, tokens, expired, jobs', tokens', expired')
    BY DEF ServerKept, ServerGrows
  <1>3. \A g \in Fetches : RequestOK(fetches[g], jobs', tokens', expired')
    BY <1>1, <1>2, RequestKept DEF ClientInv, FetchesOK
  <1>4. shown = NoJobs \/ IsSnapshot(shown, jobs')
    BY <1>1, <1>2, SnapshotKept DEF ClientInv, TabOK
  <1>5. tokens \in Seq(Nat) /\ Len(tokens) \in Nat /\ DOMAIN tokens = 1 .. Len(tokens)
    BY <1>1, Elements DEF DataOK
  <1>6. tokens' \in Seq(Nat) /\ Len(tokens') \in Nat
    BY <1>1, Elements DEF DataOK
  <1>7. auth <= Len(tokens') /\ (auth # 0 => tokens'[auth] = tokens[auth])
    <2>1. auth \in Nat /\ auth <= Len(tokens)
      BY DEF ClientInv, TabOK
    <2>2. Len(tokens) <= Len(tokens') /\ \A i \in DOMAIN tokens : tokens'[i] = tokens[i]
      BY <1>2 DEF Grows
    <2> QED
      BY <1>5, <1>6, <2>1, <2>2
  <1>8. ASSUME page = "jobs", excuses' = {}, excuses = {}, NEW g \in Fetches,
               fetches[g].live = "mounted", fetches[g].kind = "list", fetches[g].at = "ok"
        PROVE  Older(fetches[g].seen, jobs')
    <2>1. IsSnapshot(fetches[g].seen, jobs) /\ Older(fetches[g].seen, jobs)
      BY <1>8 DEF ClientInv, FetchesOK, RequestOK, SettledInv
    <2>2. Steady(jobs, jobs')
      BY <1>8 DEF ServerKept
    <2> QED
      BY <1>1, <2>1, <2>2, OlderKept
  <1>9. ASSUME page = "jobs", excuses' = {}, excuses = {}, shown # NoJobs PROVE Older(shown, jobs')
    <2>1. IsSnapshot(shown, jobs) /\ Older(shown, jobs)
      BY <1>9 DEF ClientInv, TabOK, SettledInv
    <2>2. Steady(jobs, jobs')
      BY <1>9 DEF ServerKept
    <2> QED
      BY <1>1, <2>1, <2>2, OlderKept
  <1> QED
    BY <1>3, <1>4, <1>7, <1>8, <1>9

-----------------------------------------------------------------------------
(* Steps of the tab.                                                       *)

\* A request that the page that is up may have in a slot after a step.
Fits(r) ==
    /\ r.live = "mounted" => page = Home(r.kind)
    /\ "orphan" \notin excuses' =>
          /\ r.kind \in FormKinds => r.live = "mounted"
          /\ page = "jobs" /\ r.live = "mounted" => r.token = auth
    /\ page = "jobs" /\ excuses' = {} /\ r.live = "mounted" /\ r.kind = "list" /\ r.at = "ok" => Older(r.seen, jobs')

Listing(r) == r.live = "mounted" /\ r.kind = "list"

\* The page that is up stays up.
LEMMA StayStep ==
    ASSUME ClientInv, ServerKept,
           fetches' = [g \in Fetches |-> fetches'[g]],
           \A g \in Fetches : \/ fetches'[g] = fetches[g]
                              \/ RequestOK(fetches'[g], jobs', tokens', expired') /\ Fits(fetches'[g]),
           page' = page, excuses \subseteq excuses', failed' \in BOOLEAN,
           auth' \in Nat, auth' <= Len(tokens'), page \in Protected => auth' # 0,
           page = "jobs" => auth' = auth \/ "orphan" \in excuses',
           \/ shown' = shown
           \/ \E g \in Fetches : Listing(fetches[g]) /\ fetches[g].at = "ok" /\ shown' = fetches[g].seen,
           shown # NoJobs \/ failed \/ (\E g \in Fetches : Listing(fetches[g]))
             => shown' # NoJobs \/ failed' \/ (\E g \in Fetches : Listing(fetches'[g]))
    PROVE  ClientInv'
  <1>1. /\ \A g \in Fetches : RequestOK(fetches[g], jobs', tokens', expired')
        /\ auth # 0 => tokens'[auth] = tokens[auth]
    BY AllKept
  <1>2. FetchesOK'
    BY <1>1 DEF FetchesOK, ClientInv, Fits
  <1>3. shown' = NoJobs \/ IsSnapshot(shown', jobs')
    BY <1>1, AllKept DEF RequestOK, Listing
  <1>4. TabOK'
    BY <1>3 DEF TabOK, ClientInv
  <1>5. OwnInv'
    <2> SUFFICES ASSUME "orphan" \notin excuses'
                 PROVE  /\ \A g \in Fetches : fetches'[g].kind \in FormKinds => fetches'[g].live = "mounted"
                        /\ page' = "jobs" =>
                             /\ \A g \in Fetches : fetches'[g].live = "mounted" => fetches'[g].token = auth'
                             /\ shown' # NoJobs => shown'.of = tokens'[auth']
      BY DEF OwnInv
    <2>1. "orphan" \notin excuses
      OBVIOUS
    <2>2. \A g \in Fetches : fetches'[g].kind \in FormKinds => fetches'[g].live = "mounted"
      BY <2>1 DEF ClientInv, OwnInv, Fits
    <2>3. ASSUME page = "jobs", NEW g \in Fetches, fetches'[g].live = "mounted" PROVE fetches'[g].token = auth'
      BY <2>1, <2>3 DEF ClientInv, OwnInv, Fits
    <2>4. ASSUME page = "jobs", shown' # NoJobs PROVE shown'.of = tokens'[auth']
      <3>1. auth' = auth /\ tokens'[auth'] = tokens[auth]
        BY <1>1, <2>4 DEF ClientInv, TabOK, Protected
      <3>2. CASE shown' = shown
        BY <2>1, <2>4, <3>1, <3>2 DEF ClientInv, OwnInv
      <3>3. ASSUME NEW g \in Fetches, Listing(fetches[g]), fetches[g].at = "ok", shown' = fetches[g].seen
            PROVE  shown'.of = tokens[auth]
        BY <2>1, <2>4, <3>3 DEF ClientInv, OwnInv, FetchesOK, RequestOK, Listing
      <3> QED
        BY <3>1, <3>2, <3>3
    <2> QED
      BY <2>2, <2>3, <2>4
  <1>6. SettledInv'
    <2> SUFFICES ASSUME page = "jobs", excuses' = {}
                 PROVE  /\ \A g \in Fetches : fetches'[g].live = "mounted" /\ fetches'[g].kind = "list" /\ fetches'[g].at = "ok" =>
                              Older(fetches'[g].seen, jobs')
                        /\ shown' # NoJobs => Older(shown', jobs')
                        /\ \/ shown' # NoJobs \/ failed'
                           \/ \E g \in Fetches : fetches'[g].live = "mounted" /\ fetches'[g].kind = "list"
      BY DEF SettledInv
    <2>1. excuses = {}
      OBVIOUS
    <2>2. /\ \A g \in Fetches : Listing(fetches[g]) /\ fetches[g].at = "ok" => Older(fetches[g].seen, jobs')
          /\ shown # NoJobs => Older(shown, jobs')
      BY <2>1, AllKept DEF Listing
    <2>3. \A g \in Fetches : Listing(fetches'[g]) /\ fetches'[g].at = "ok" => Older(fetches'[g].seen, jobs')
      BY <2>2 DEF Fits, Listing
    <2>4. shown' # NoJobs => Older(shown', jobs')
      BY <2>2
    <2>5. shown # NoJobs \/ failed \/ \E g \in Fetches : Listing(fetches[g])
      BY <2>1 DEF ClientInv, SettledInv, Listing
    <2> QED
      BY <2>3, <2>4, <2>5 DEF Listing
  <1> QED
    BY <1>2, <1>4, <1>5, <1>6 DEF ClientInv, ServerKept

\* Nothing of the tab changes.
LEMMA QuietStep ==
    ASSUME ClientInv, ServerKept, UNCHANGED <<auth, view, fetches, excuses>>
    PROVE  ClientInv'
  <1>1. auth' = auth /\ page' = page /\ shown' = shown /\ fetches' = fetches /\ excuses' = excuses
    BY DEF view
  <1>2. failed' = failed
    BY DEF view
  <1>3. failed' \in BOOLEAN
    BY <1>2, Zenon DEF ClientInv, TabOK
  <1>4. auth \in Nat /\ auth <= Len(tokens') /\ (page \in Protected => auth # 0)
    BY AllKept DEF ClientInv, TabOK
  <1>5. fetches = [g \in Fetches |-> fetches[g]]
    BY DEF ClientInv, FetchesOK
  <1>6. shown # NoJobs \/ failed \/ (\E g \in Fetches : Listing(fetches[g]))
          => shown' # NoJobs \/ failed' \/ (\E g \in Fetches : Listing(fetches'[g]))
    BY <1>1, <1>2, Zenon
  <1>7. fetches' = [g \in Fetches |-> fetches'[g]] /\ \A g \in Fetches : fetches'[g] = fetches[g]
    BY <1>1, <1>5
  <1> QED
    BY <1>1, <1>3, <1>4, <1>6, <1>7, StayStep

\* One slot changes and the page that is up stays up.
LEMMA SlotStep ==
    ASSUME ClientInv, ServerKept, NEW f \in Fetches, NEW r,
           fetches' = [fetches EXCEPT ![f] = r],
           RequestOK(r, jobs', tokens', expired'), Fits(r),
           page' = page, excuses \subseteq excuses', failed' \in BOOLEAN,
           auth' \in Nat, auth' <= Len(tokens'), page \in Protected => auth' # 0,
           page = "jobs" => auth' = auth \/ "orphan" \in excuses',
           \/ shown' = shown
           \/ Listing(fetches[f]) /\ fetches[f].at = "ok" /\ shown' = fetches[f].seen,
           shown # NoJobs \/ failed \/ Listing(fetches[f]) => shown' # NoJobs \/ failed' \/ Listing(r)
    PROVE  ClientInv'
  <1>1. fetches = [g \in Fetches |-> fetches[g]]
    BY DEF ClientInv, FetchesOK
  <1>2. /\ fetches' = [g \in Fetches |-> fetches'[g]]
        /\ \A g \in Fetches : fetches'[g] = IF g = f THEN r ELSE fetches[g]
    BY <1>1
  <1>3. \A g \in Fetches : \/ fetches'[g] = fetches[g]
                           \/ RequestOK(fetches'[g], jobs', tokens', expired') /\ Fits(fetches'[g])
    BY <1>2
  <1>4. shown # NoJobs \/ failed \/ (\E g \in Fetches : Listing(fetches[g]))
          => shown' # NoJobs \/ failed' \/ (\E g \in Fetches : Listing(fetches'[g]))
    <2>1. ASSUME NEW g \in Fetches, Listing(fetches[g]), g # f PROVE \E h \in Fetches : Listing(fetches'[h])
      BY <1>2, <2>1
    <2>2. Listing(r) => \E h \in Fetches : Listing(fetches'[h])
      BY <1>2
    <2> QED
      BY <2>1, <2>2, Zenon
  <1>5. \/ shown' = shown
        \/ \E g \in Fetches : Listing(fetches[g]) /\ fetches[g].at = "ok" /\ shown' = fetches[g].seen
    OBVIOUS
  <1>6. fetches' = [g \in Fetches |-> fetches'[g]]
    BY <1>2
  <1> QED
    BY <1>3, <1>4, <1>5, <1>6, StayStep

\* Another page, or the page anew.
LEMMA LandStep ==
    ASSUME ClientInv, UNCHANGED server,
           fetches' = [g \in Fetches |-> fetches'[g]],
           \A g \in Fetches : RequestOK(fetches'[g], jobs, tokens, expired),
           \A g \in Fetches : fetches'[g].live = "mounted" =>
              page' = "jobs" /\ fetches'[g].kind = "list" /\ fetches'[g].at = "sent" /\ fetches'[g].token = auth',
           page' = "jobs" => \E g \in Fetches : Listing(fetches'[g]),
           "orphan" \notin excuses' => \A g \in Fetches : fetches'[g].kind \notin FormKinds,
           page' \in Pages, shown' = NoJobs, failed' = FALSE,
           auth' \in Nat, auth' <= Len(tokens), page' \in Protected => auth' # 0
    PROVE  ClientInv'
  <1>1. jobs' = jobs /\ tokens' = tokens /\ expired' = expired
    BY DEF server
  <1>2. ServerOK'
    BY <1>1 DEF ClientInv, ServerOK
  <1>3. TabOK'
    BY <1>1 DEF TabOK
  <1>4. FetchesOK'
    BY <1>1 DEF FetchesOK, Home, SubmitKinds
  <1>5. OwnInv'
    BY DEF OwnInv
  <1>6. SettledInv'
    BY DEF SettledInv, Listing
  <1> QED
    BY <1>2, <1>3, <1>4, <1>5, <1>6 DEF ClientInv

\* Navigation to another page than the one that is up.
LEMMA GoToStep ==
    ASSUME ClientInv, UNCHANGED server,
           NEW p \in Pages, NEW t \in Nat, t <= Len(tokens), auth' = t, NEW f \in Fetches, NEW reqs,
           \A g \in Fetches : RequestOK(reqs[g], jobs, tokens, expired),
           "orphan" \notin excuses => \A g \in Fetches : reqs[g].kind \in FormKinds => reqs[g].live = "mounted",
           Land(p, t) # page, GoTo(p, t, f, reqs)
    PROVE  ClientInv'
  <1> DEFINE target == Land(p, t)
             new == IF target = "jobs" THEN Request("list", t, 0, "mounted") ELSE Free
  <1>1. /\ page' = target /\ shown' = NoJobs
        /\ fetches' = [Unmount(reqs) EXCEPT ![f] = new]
        /\ excuses' = excuses \cup IF LeavesForm(reqs) THEN {"orphan"} ELSE {}
    BY DEF GoTo
  <1>2. failed' = FALSE
    BY Zenon DEF GoTo
  <1>3. target \in Pages /\ (target \in Protected => t # 0)
    BY DEF Land, Pages, Protected
  <1>4. \A g \in Fetches : Unmount(reqs)[g] = IF reqs[g].live = "mounted" THEN [reqs[g] EXCEPT !.live = "unmounted"] ELSE reqs[g]
    BY DEF Unmount
  <1>5. DOMAIN Unmount(reqs) = Fetches
    BY DEF Unmount
  <1>6. \A g \in Fetches : /\ RequestOK(Unmount(reqs)[g], jobs, tokens, expired)
                           /\ Unmount(reqs)[g].live # "mounted"
                           /\ Unmount(reqs)[g].kind = reqs[g].kind
    <2> TAKE g \in Fetches
    <2>1. CASE reqs[g].live = "mounted"
      <3>1. reqs[g].kind # "none"
        BY <2>1 DEF RequestOK
      <3>2. Unmount(reqs)[g] = [reqs[g] EXCEPT !.live = "unmounted"]
        BY <1>4, <2>1
      <3>3. RequestOK(Unmount(reqs)[g], jobs, tokens, expired) /\ Unmount(reqs)[g].kind = reqs[g].kind /\ Unmount(reqs)[g].live = "unmounted"
        BY <3>1, <3>2, LiveOK
      <3> QED
        BY <3>3
    <2>2. CASE reqs[g].live # "mounted"
      BY <1>4, <2>2
    <2> QED
      BY <2>1, <2>2
  <1>7. DataOK(jobs, tokens, expired)
    BY DEF ClientInv, ServerOK
  <1>8. RequestOK(new, jobs, tokens, expired)
    <2>1. RequestOK(Request("list", t, 0, "mounted"), jobs, tokens, expired)
      BY <1>7, SentOK DEF Kinds
    <2>2. RequestOK(Free, jobs, tokens, expired)
      BY <1>7, FreeOK
    <2> QED
      BY <2>1, <2>2
  <1>9. /\ target = "jobs" => new.kind = "list" /\ new.live = "mounted" /\ new.at = "sent" /\ new.token = t
        /\ target # "jobs" => new.kind = "none" /\ new.live = "gone"
    BY DEF Request, Free
  <1> HIDE DEF new, target
  <1>10. /\ fetches' = [g \in Fetches |-> fetches'[g]]
         /\ \A g \in Fetches : fetches'[g] = IF g = f THEN new ELSE Unmount(reqs)[g]
    BY <1>1, <1>5
  <1>11. \A g \in Fetches : RequestOK(fetches'[g], jobs, tokens, expired)
    BY <1>6, <1>8, <1>10
  <1>12. \A g \in Fetches : fetches'[g].live = "mounted" =>
            page' = "jobs" /\ fetches'[g].kind = "list" /\ fetches'[g].at = "sent" /\ fetches'[g].token = auth'
    BY <1>1, <1>6, <1>9, <1>10
  <1>13. page' = "jobs" => \E g \in Fetches : Listing(fetches'[g])
    BY <1>1, <1>9, <1>10 DEF Listing
  <1>14. "orphan" \notin excuses' => \A g \in Fetches : fetches'[g].kind \notin FormKinds
    BY <1>1, <1>6, <1>9, <1>10 DEF LeavesForm, FormKinds, SubmitKinds
  <1>15. page' \in Pages /\ (page' \in Protected => auth' # 0) /\ fetches' = [g \in Fetches |-> fetches'[g]]
    BY <1>1, <1>3, <1>10
  <1> QED
    BY <1>1, <1>2, <1>11, <1>12, <1>13, <1>14, <1>15, LandStep

\* What UNCHANGED <<auth, view>> says.
LEMMA ViewSame ==
    ASSUME ClientInv, ServerKept, UNCHANGED <<auth, view>>
    PROVE  /\ page' = page /\ shown' = shown /\ auth' = auth /\ failed' \in BOOLEAN /\ (failed => failed')
           /\ auth' \in Nat /\ auth' <= Len(tokens') /\ (page \in Protected => auth' # 0)
  <1>1. page' = page /\ shown' = shown /\ auth' = auth
    BY DEF view
  <1>2. failed' = failed
    BY DEF view
  <1>3. failed' \in BOOLEAN /\ (failed => failed')
    BY <1>2, Zenon DEF ClientInv, TabOK
  <1>4. auth \in Nat /\ auth <= Len(tokens') /\ (page \in Protected => auth # 0)
    BY AllKept DEF ClientInv, TabOK
  <1> QED
    BY <1>1, <1>3, <1>4

\* One slot changes and nothing else of the tab.
LEMMA SlotOnly ==
    ASSUME ClientInv, ServerKept, UNCHANGED <<auth, view>>, excuses \subseteq excuses',
           NEW f \in Fetches, NEW r, fetches' = [fetches EXCEPT ![f] = r],
           RequestOK(r, jobs', tokens', expired'), Fits(r), Listing(fetches[f]) => Listing(r)
    PROVE  ClientInv'
  <1>1. /\ page' = page /\ shown' = shown /\ auth' = auth /\ failed' \in BOOLEAN /\ (failed => failed')
        /\ auth' \in Nat /\ auth' <= Len(tokens') /\ (page \in Protected => auth' # 0)
    BY ViewSame
  <1>2. shown # NoJobs \/ failed \/ Listing(fetches[f]) => shown' # NoJobs \/ failed' \/ Listing(r)
    BY <1>1, Zenon
  <1> QED
    BY <1>1, <1>2, SlotStep

\* An empty slot fits every page.
LEMMA FreeFits ==
    ASSUME ClientInv, ServerKept
    PROVE  RequestOK(Free, jobs', tokens', expired') /\ Fits(Free) /\ ~Listing(Free)
  <1>1. RequestOK(Free, jobs', tokens', expired')
    BY FreeOK DEF ServerKept, ServerOK
  <1> QED
    BY <1>1 DEF Fits, Free, Listing, FormKinds, SubmitKinds

\* An answer is on its way back, or a handler has read the job.
LEMMA AnswerStep ==
    ASSUME ClientInv, ServerKept, UNCHANGED <<auth, view>>, excuses \subseteq excuses',
           NEW f \in Fetches, NEW a, NEW result,
           \/ Answer(f, a, result)
           \/ fetches' = [fetches EXCEPT ![f] = [fetches[f] EXCEPT !.at = a, !.seen = result]],
           Result(fetches[f], a, result, jobs', tokens', expired'),
           fetches[f].kind = "list" /\ a = "ok" => Older(result, jobs')
    PROVE  ClientInv'
  <1> DEFINE r2 == Answered(fetches[f], a, result)
  <1>1. RequestOK(fetches[f], jobs', tokens', expired')
    BY AllKept
  <1>0. r2 = Answered(fetches[f], a, result)
    OBVIOUS
  <1> HIDE DEF r2
  <1>2. /\ RequestOK(r2, jobs', tokens', expired')
        /\ r2.kind = fetches[f].kind /\ r2.token = fetches[f].token /\ r2.live = fetches[f].live
        /\ r2.at = a /\ r2.seen = result
    BY <1>0, <1>1, AnswerOK
  <1>3. fetches = [g \in Fetches |-> fetches[g]]
    BY DEF ClientInv, FetchesOK
  <1>4. \/ fetches[f].live = "gone" /\ fetches' = [fetches EXCEPT ![f] = Free]
        \/ fetches' = [fetches EXCEPT ![f] = r2]
    BY <1>0, <1>3 DEF Answer, Answered
  <1>5. CASE fetches[f].live = "gone" /\ fetches' = [fetches EXCEPT ![f] = Free]
    <2>1. ~Listing(fetches[f])
      BY <1>5 DEF Listing
    <2> QED
      BY <1>5, <2>1, FreeFits, SlotOnly
  <1>6. CASE fetches' = [fetches EXCEPT ![f] = r2]
    <2>1. Listing(fetches[f]) => Listing(r2)
      BY <1>2 DEF Listing
    <2>2. Fits(r2)
      BY <1>2 DEF Fits, ClientInv, FetchesOK, OwnInv
    <2> QED
      BY <1>2, <1>6, <2>1, <2>2, SlotOnly
  <1> QED
    BY <1>4, <1>5, <1>6

\* The slot for the next fetch.
LEMMA SlotIsFree ==
    ASSUME ClientInv, HasSlot
    PROVE  Slot \in Fetches /\ fetches[Slot].at = "free" /\ fetches[Slot].kind = "none" /\ fetches[Slot].live = "gone"
  <1>1. Slot \in Fetches /\ fetches[Slot].at = "free"
    BY DEF HasSlot, Slot
  <1> QED
    BY <1>1 DEF ClientInv, FetchesOK, RequestOK

\* A page sends a request.
LEMMA SendStep ==
    ASSUME ClientInv, NEW kind \in Kinds \ {"none"}, NEW arg, Send(kind, arg),
           kind = "login" => arg \in DOMAIN jobs,
           kind = "cancel" => arg[1] \in DOMAIN jobs /\ arg[2] \in DOMAIN jobs[arg[1]]
    PROVE  ClientInv'
  <1> DEFINE token == IF kind \in {"login", "register"} THEN 0 ELSE auth
             r == Request(kind, token, arg, "mounted")
  <1>1. /\ Slot \in Fetches /\ fetches' = [fetches EXCEPT ![Slot] = r] /\ page = Home(kind)
        /\ UNCHANGED server /\ UNCHANGED <<auth, view>> /\ excuses' = excuses
    BY SlotIsFree DEF Send
  <1>2. ServerKept /\ jobs' = jobs /\ tokens' = tokens /\ expired' = expired
    BY <1>1, ServerSame DEF ClientInv, server
  <1>3. tokens \in Seq(Nat) /\ Len(tokens) \in Nat
    BY Elements DEF ClientInv, ServerOK, DataOK
  <1>4. token \in Nat /\ token <= Len(tokens)
    BY <1>3 DEF ClientInv, TabOK
  <1>5. RequestOK(r, jobs, tokens, expired)
    <2> HIDE DEF token
    <2> QED
      BY <1>4, SentOK DEF ClientInv, ServerOK
  <1>6. r.kind = kind /\ r.token = token /\ r.live = "mounted" /\ r.at = "sent"
    BY DEF Request
  <1>7. page = "jobs" => token = auth
    BY <1>1 DEF Home
  <1> HIDE DEF r, token
  <1>8. Fits(r)
    BY <1>1, <1>6, <1>7 DEF Fits
  <1>9. ~Listing(fetches[Slot])
    BY SlotIsFree DEF Send, Listing
  <1> QED
    BY <1>1, <1>2, <1>5, <1>8, <1>9, SlotOnly

\* The backend takes a step for a request.
LEMMA ServeStep ==
    ASSUME ClientInv, ServerKept, NEW f \in Fetches, Serve(f)
    PROVE  ClientInv'
  <1>1. UNCHANGED <<auth, view>>
    BY DEF Serve
  <1>2. DataOK(jobs, tokens, expired) /\ DataOK(jobs', tokens', expired')
    BY DEF ClientInv, ServerKept, ServerOK
  <1>3. /\ tokens \in Seq(Nat) /\ DOMAIN tokens = 1 .. Len(tokens) /\ Len(tokens) \in Nat
        /\ jobs \in Seq(Seq(DisplayStatus)) /\ expired \in Nat /\ fetches[f].token \in Nat
        /\ fetches[f].token <= Len(tokens) /\ \A i \in DOMAIN tokens : tokens[i] \in DOMAIN jobs
    BY <1>2, Elements DEF DataOK, ClientInv, FetchesOK, RequestOK, RequestType
  <1>4. ASSUME NEW a \in {"ok", "error"}, Answer(f, a, 0), excuses \subseteq excuses', fetches[f].kind # "none",
               a = "ok" => fetches[f].kind \notin {"login", "register", "list"}
        PROVE  ClientInv'
    <2>1. Result(fetches[f], a, 0, jobs', tokens', expired')
      BY <1>4 DEF Result
    <2> QED
      BY <1>1, <1>4, <2>1, AnswerStep
  <1>5. CASE Unauthorized(f)
    <2>1. fetches[f].kind # "none" /\ fetches[f].token <= expired' /\ Answer(f, "unauthorized", 0) /\ excuses' = excuses
      BY <1>5 DEF Unauthorized, Serving, SubmitKinds, server
    <2>2. Result(fetches[f], "unauthorized", 0, jobs', tokens', expired')
      BY <2>1 DEF Result
    <2> QED
      BY <1>1, <2>1, <2>2, AnswerStep
  <1>6. ASSUME NEW account \in Nat, IssueToken(f, account), fetches[f].kind \in {"login", "register"}, excuses' = excuses
        PROVE  ClientInv'
    <2>1. Answer(f, "ok", Len(tokens'))
      BY <1>6 DEF IssueToken
    <2>2. Len(tokens') \in 1 .. Len(tokens')
      <3>1. tokens' = Append(tokens, account)
        BY <1>6 DEF IssueToken
      <3>2. Len(tokens') = Len(tokens) + 1
        BY <1>3, <3>1, AppendProperties
      <3> QED
        BY <1>3, <3>2
    <2>3. Result(fetches[f], "ok", Len(tokens'), jobs', tokens', expired')
      BY <1>6, <2>2 DEF Result
    <2> QED
      BY <1>1, <1>6, <2>1, <2>3, AnswerStep
  <1>7. CASE LoginWithEmail(f)
    <2>1. fetches[f].kind = "login" /\ excuses' = excuses
      BY <1>7 DEF LoginWithEmail, Serving
    <2>2. fetches[f].arg \in Nat
      BY <1>3, <2>1, Elements DEF ClientInv, FetchesOK, RequestOK
    <2> QED
      BY <1>4, <1>6, <1>7, <2>1, <2>2 DEF LoginWithEmail
  <1>8. CASE RegisterWithEmail(f)
    <2>1. fetches[f].kind = "register" /\ excuses' = excuses
      BY <1>8 DEF RegisterWithEmail, Serving
    <2>2. Len(jobs') \in Nat
      BY <1>2, Elements DEF DataOK
    <2> QED
      BY <1>4, <1>6, <1>8, <2>1, <2>2 DEF RegisterWithEmail
  <1>9. CASE ServePassword(f)
    BY <1>4, <1>9 DEF ServePassword, Authorized, Serving, WrongOldPassword
  <1>10. CASE ListJobs(f)
    <2> DEFINE c == Caller(f)
               s == [of |-> c, list |-> jobs[c]]
    <2>1. fetches[f].kind = "list" /\ fetches[f].token > expired /\ excuses' = excuses
          /\ jobs' = jobs /\ tokens' = tokens /\ expired' = expired
      BY <1>10 DEF ListJobs, Authorized, Serving, server
    <2>2. fetches[f].token # 0 /\ c = tokens[fetches[f].token] /\ c \in DOMAIN jobs
      BY <1>3, <2>1 DEF Caller
    <2>3. CASE Answer(f, "ok", s)
      <3>1. jobs[c] \in Seq(DisplayStatus) /\ Len(jobs[c]) \in Nat
        BY <1>3, <2>2, Elements
      <3>2. s.of = c /\ s.list = jobs[c] /\ s = [of |-> s.of, list |-> s.list]
        OBVIOUS
      <3> HIDE DEF s, c
      <3>3. IsSnapshot(s, jobs) /\ Older(s, jobs)
        BY <2>2, <3>1, <3>2 DEF IsSnapshot, Older
      <3>4. Result(fetches[f], "ok", s, jobs', tokens', expired') /\ Older(s, jobs')
        BY <2>1, <2>2, <3>2, <3>3 DEF Result
      <3> QED
        BY <1>1, <2>1, <2>3, <3>4, AnswerStep
    <2>4. CASE Answer(f, "error", 0)
      BY <1>4, <2>1, <2>4
    <2> QED
      BY <1>10, <2>3, <2>4 DEF ListJobs
  <1>11. CASE CancelRead(f)
    <2> DEFINE st == Status(fetches[f].arg)
    <2>1. fetches[f].kind = "cancel" /\ excuses' = excuses
      BY <1>11 DEF CancelRead, Authorized, Serving
    <2>2. CASE st \in PolledStatuses /\ Read(f, st)
      <3> HIDE DEF st
      <3>1. fetches = [g \in Fetches |-> fetches[g]]
        BY DEF ClientInv, FetchesOK
      <3>2. fetches' = [fetches EXCEPT ![f] = [fetches[f] EXCEPT !.at = "read", !.seen = st]]
        BY <2>2, <3>1 DEF Read
      <3>3. Result(fetches[f], "read", st, jobs', tokens', expired')
        BY <2>1, <2>2 DEF Result, PolledStatuses, DisplayStatus
      <3> QED
        BY <1>1, <2>1, <3>2, <3>3, AnswerStep
    <2>3. CASE Answer(f, "error", 0)
      BY <1>4, <2>1, <2>3
    <2> QED
      BY <1>11, <2>2, <2>3 DEF CancelRead
  <1>12. CASE CancelWrite(f)
    <2>1. fetches[f].kind = "cancel" /\ excuses \subseteq excuses' /\ \E a \in {"ok", "error"} : Answer(f, a, 0)
      BY <1>12 DEF CancelWrite, Serving
    <2> QED
      BY <1>4, <2>1
  <1>13. CASE CreateUploadTarget(f)
    BY <1>4, <1>13 DEF CreateUploadTarget, Authorized, Serving
  <1>14. CASE CreateJob(f)
    <2>1. fetches[f].kind = "submit" /\ excuses' = excuses /\ \E a \in {"ok", "error"} : Answer(f, a, 0)
      BY <1>14 DEF CreateJob, Authorized, Serving
    <2> QED
      BY <1>4, <2>1
  <1> QED
    BY <1>5, <1>7, <1>8, <1>9, <1>10, <1>11, <1>12, <1>13, <1>14 DEF Serve

\* Links, the logout button and a new page load.
LEMMA NavigationStep ==
    ASSUME ClientInv, (\E p \in Pages : Navigate(p)) \/ Logout \/ Reload
    PROVE  ClientInv'
  <1>1. \A g \in Fetches : RequestOK(fetches[g], jobs, tokens, expired)
    BY DEF ClientInv, FetchesOK
  <1>2. "orphan" \notin excuses => \A g \in Fetches : fetches[g].kind \in FormKinds => fetches[g].live = "mounted"
    BY DEF ClientInv, OwnInv
  <1>3. tokens \in Seq(Nat) /\ Len(tokens) \in Nat /\ auth \in Nat /\ auth <= Len(tokens) /\ 0 <= Len(tokens)
    BY Elements DEF ClientInv, ServerOK, DataOK, TabOK
  <1>4. UNCHANGED server
    BY DEF Navigate, Logout, Reload
  <1>5. Slot \in Fetches
    BY SlotIsFree DEF Navigate, Logout, Reload
  <1>6. ASSUME NEW p \in Pages, Navigate(p) PROVE ClientInv'
    <2>1. GoTo(p, auth, Slot, fetches) /\ auth' = auth
      BY <1>6 DEF Navigate
    <2>2. CASE Land(p, auth) = page
      <3>1. UNCHANGED <<auth, view, fetches, excuses>>
        BY <2>1, <2>2 DEF GoTo
      <3>2. ServerKept
        BY <1>4, ServerSame DEF ClientInv
      <3> QED
        BY <3>1, <3>2, QuietStep
    <2>3. CASE Land(p, auth) # page
      BY <1>1, <1>2, <1>3, <1>4, <1>5, <2>1, <2>3, GoToStep
    <2> QED
      BY <2>2, <2>3
  <1>7. CASE Logout
    <2>1. GoTo("login", 0, Slot, fetches) /\ auth' = 0 /\ page \in Protected
      BY <1>7 DEF Logout, SetAuth
    <2>2. "login" \in Pages /\ 0 \in Nat /\ Land("login", 0) # page
      BY <2>1 DEF Pages, Land, Protected
    <2> QED
      BY <1>1, <1>2, <1>3, <1>4, <1>5, <2>1, <2>2, GoToStep
  <1>8. CASE Reload
    <2> DEFINE target == Land(page, auth')
               dropped == [g \in Fetches |-> IF fetches[g].at \in {"sent", "read"} /\ fetches[g].kind # "list"
                                                THEN [fetches[g] EXCEPT !.live = "gone"] ELSE Free]
               new == IF target = "jobs" THEN Request("list", auth', 0, "mounted") ELSE Free
    <2>1. /\ page' = target /\ shown' = NoJobs /\ auth' \in {auth, 0}
          /\ fetches' = [dropped EXCEPT ![Slot] = new]
          /\ excuses' = excuses \cup IF LeavesForm(fetches) THEN {"orphan"} ELSE {}
      BY <1>8 DEF Reload
    <2>2. failed' = FALSE
      BY <1>8, Zenon DEF Reload
    <2>3. auth' \in Nat /\ auth' <= Len(tokens)
      BY <1>3, <2>1
    <2>4. target \in Pages /\ (target \in Protected => auth' # 0)
      BY DEF Land, Pages, Protected, ClientInv, TabOK
    <2>5. DataOK(jobs, tokens, expired)
      BY DEF ClientInv, ServerOK
    <2>6. RequestOK(Free, jobs, tokens, expired) /\ Free.kind = "none" /\ Free.live = "gone"
      BY <2>5, FreeOK DEF Free
    <2>7. \A g \in Fetches : dropped[g] = IF fetches[g].at \in {"sent", "read"} /\ fetches[g].kind # "list"
                                            THEN [fetches[g] EXCEPT !.live = "gone"] ELSE Free
      OBVIOUS
    <2>8. DOMAIN dropped = Fetches
      OBVIOUS
    <2> HIDE DEF dropped
    <2>9. \A g \in Fetches : /\ RequestOK(dropped[g], jobs, tokens, expired) /\ dropped[g].live # "mounted"
                             /\ dropped[g].kind \in {"none", fetches[g].kind}
      <3> TAKE g \in Fetches
      <3>1. CASE fetches[g].at \in {"sent", "read"} /\ fetches[g].kind # "list"
        <4>1. dropped[g] = [fetches[g] EXCEPT !.live = "gone"] /\ fetches[g].kind # "none"
          BY <1>1, <2>7, <3>1 DEF RequestOK
        <4> QED
          BY <1>1, <4>1, LiveOK
      <3>2. CASE ~(fetches[g].at \in {"sent", "read"} /\ fetches[g].kind # "list")
        BY <2>6, <2>7, <3>2
      <3> QED
        BY <3>1, <3>2
    <2>10. RequestOK(new, jobs, tokens, expired)
      <3>1. RequestOK(Request("list", auth', 0, "mounted"), jobs, tokens, expired)
        BY <2>3, <2>5, SentOK DEF Kinds
      <3> QED
        BY <2>6, <3>1
    <2>11. /\ target = "jobs" => new.kind = "list" /\ new.live = "mounted" /\ new.at = "sent" /\ new.token = auth'
           /\ target # "jobs" => new.kind = "none" /\ new.live = "gone"
      BY <2>6 DEF Request
    <2> HIDE DEF new, target
    <2>12. /\ fetches' = [g \in Fetches |-> fetches'[g]]
           /\ \A g \in Fetches : fetches'[g] = IF g = Slot THEN new ELSE dropped[g]
      BY <2>1, <2>8
    <2>13. \A g \in Fetches : RequestOK(fetches'[g], jobs, tokens, expired)
      BY <2>9, <2>10, <2>12
    <2>14. \A g \in Fetches : fetches'[g].live = "mounted" =>
             page' = "jobs" /\ fetches'[g].kind = "list" /\ fetches'[g].at = "sent" /\ fetches'[g].token = auth'
      BY <2>1, <2>9, <2>11, <2>12
    <2>15. page' = "jobs" => \E g \in Fetches : Listing(fetches'[g])
      BY <1>5, <2>1, <2>11, <2>12 DEF Listing
    <2>16. "orphan" \notin excuses' => \A g \in Fetches : fetches'[g].kind \notin FormKinds
      BY <1>2, <2>1, <2>9, <2>11, <2>12 DEF LeavesForm, FormKinds, SubmitKinds
    <2>17. page' \in Pages /\ (page' \in Protected => auth' # 0) /\ fetches' = [g \in Fetches |-> fetches'[g]]
      BY <2>1, <2>4, <2>12
    <2> QED
      BY <1>4, <2>1, <2>2, <2>3, <2>13, <2>14, <2>15, <2>16, <2>17, LandStep
  <1> QED
    BY <1>6, <1>7, <1>8

\* The connection of a request breaks.
LEMMA FailStep ==
    ASSUME ClientInv, NEW f \in Fetches, Fail(f)
    PROVE  ClientInv'
  <1> DEFINE r == fetches[f]
             gone == [r EXCEPT !.live = "gone"]
  <1>1. UNCHANGED server /\ auth' = auth /\ page' = page /\ shown' = shown
    BY DEF Fail
  <1>2. ServerKept
    BY <1>1, ServerSame DEF ClientInv
  <1>3. auth' \in Nat /\ auth' <= Len(tokens') /\ (page \in Protected => auth' # 0)
    BY <1>1, <1>2, AllKept DEF ClientInv, TabOK
  <1>4. excuses' = excuses \cup IF r.kind \in FormKinds THEN {"orphan"} ELSE {}
    BY DEF Fail
  <1>5. failed' = (failed \/ (r.kind = "list" /\ r.live = "mounted"))
    BY DEF Fail
  <1>6. failed' \in BOOLEAN
    BY <1>5, Zenon
  <1>7. fetches = [g \in Fetches |-> fetches[g]] /\ RequestOK(r, jobs', tokens', expired')
    BY <1>2, AllKept DEF ClientInv, FetchesOK
  <1>8. \/ fetches' = [fetches EXCEPT ![f] = Free]
        \/ r.kind \notin {"none", "list"} /\ fetches' = [fetches EXCEPT ![f] = gone]
    BY <1>7 DEF Fail, RequestOK
  <1>9. shown # NoJobs \/ failed \/ Listing(r) => shown' # NoJobs \/ failed'
    BY <1>1, <1>5, Zenon DEF Listing
  <1>10. CASE fetches' = [fetches EXCEPT ![f] = Free]
    BY <1>1, <1>2, <1>3, <1>4, <1>6, <1>9, <1>10, FreeFits, SlotStep
  <1>11. CASE r.kind \notin {"none", "list"} /\ fetches' = [fetches EXCEPT ![f] = gone]
    <2>1. gone = [r EXCEPT !.live = "gone"]
      OBVIOUS
    <2> HIDE DEF gone
    <2>2. RequestOK(gone, jobs', tokens', expired') /\ gone.kind = r.kind /\ gone.live = "gone"
      BY <1>7, <1>11, <2>1, LiveOK
    <2>3. Fits(gone)
      BY <1>4, <2>2 DEF Fits
    <2> QED
      BY <1>1, <1>2, <1>3, <1>4, <1>6, <1>9, <1>11, <2>2, <2>3, SlotStep
  <1> QED
    BY <1>8, <1>10, <1>11

\* An answer arrives.
LEMMA DeliverStep ==
    ASSUME ClientInv, NEW f \in Fetches, Deliver(f)
    PROVE  ClientInv'
  <1> DEFINE r == fetches[f]
  <1>1. UNCHANGED server /\ ServerKept
    BY ServerSame DEF Deliver, ClientInv
  <1>2. jobs' = jobs /\ tokens' = tokens /\ expired' = expired
    BY <1>1 DEF server
  <1>3. /\ fetches = [g \in Fetches |-> fetches[g]]
        /\ \A g \in Fetches : RequestOK(fetches[g], jobs, tokens, expired)
        /\ \A g \in Fetches : fetches[g].live = "mounted" => page = Home(fetches[g].kind)
    BY DEF ClientInv, FetchesOK
  <1>4. tokens \in Seq(Nat) /\ Len(tokens) \in Nat /\ DataOK(jobs, tokens, expired)
    BY Elements DEF ClientInv, ServerOK, DataOK
  <1>5. auth \in Nat /\ auth <= Len(tokens) /\ page \in Pages /\ (page \in Protected => auth # 0)
    BY DEF ClientInv, TabOK
  <1>6. RequestOK(Free, jobs, tokens, expired) /\ Free.kind = "none" /\ Free.live = "gone"
    BY <1>4, FreeOK DEF Free
  <1>7. "orphan" \notin excuses => \A g \in Fetches : fetches[g].kind \in FormKinds => fetches[g].live = "mounted"
    BY DEF ClientInv, OwnInv
  <1>8. ASSUME NEW g \in Fetches PROVE Freed(f)[g] = IF g = f THEN Free ELSE fetches[g]
    BY <1>3 DEF Freed
  <1>9. /\ \A g \in Fetches : RequestOK(Freed(f)[g], jobs, tokens, expired)
        /\ "orphan" \notin excuses => \A g \in Fetches : Freed(f)[g].kind \in FormKinds => Freed(f)[g].live = "mounted"
    BY <1>3, <1>6, <1>7, <1>8 DEF FormKinds, SubmitKinds
  \* The slot is emptied and nothing else changes.
  <1>10. ASSUME r.kind # "list", fetches' = Freed(f), UNCHANGED <<auth, view>>, excuses' = excuses PROVE ClientInv'
    <2>1. ~Listing(r)
      BY <1>10 DEF Listing
    <2> QED
      BY <1>1, <1>10, <2>1, FreeFits, SlotOnly DEF Freed
  <1>11. CASE LoggedIn(f)
    <2> DEFINE t == r.seen
               refetch == Request("list", t, 0, "mounted")
               reqs == [fetches EXCEPT ![f] = IF page = "jobs" THEN refetch ELSE Free]
    <2>1. r.kind \in {"login", "register"} /\ r.at = "ok" /\ auth' = t /\ GoTo("jobs", t, f, reqs)
      BY <1>11 DEF LoggedIn, SetAuth
    <2>2. t \in Nat /\ t <= Len(tokens) /\ t # 0
      BY <1>3, <1>4, <2>1 DEF RequestOK
    <2>3. Land("jobs", t) = "jobs" /\ "jobs" \in Pages
      BY <2>2 DEF Land, Pages
    <2>4. CASE page = "jobs"
      <3>1. "orphan" \in excuses
        BY <1>3, <1>7, <2>1, <2>4 DEF Home, FormKinds
      <3>2. fetches' = [fetches EXCEPT ![f] = refetch] /\ page' = page /\ shown' = shown /\ excuses' = excuses
        BY <2>1, <2>3, <2>4 DEF GoTo, view
      <3>3. failed' = failed
        BY <2>1, <2>3, <2>4 DEF GoTo, view
      <3>4. failed' \in BOOLEAN
        BY <3>3, Zenon DEF ClientInv, TabOK
      <3>5. RequestOK(refetch, jobs, tokens, expired)
        <4> HIDE DEF t
        <4> QED
          BY <1>4, <2>2, SentOK DEF Kinds
      <3>6. refetch.kind = "list" /\ refetch.live = "mounted"
        BY DEF Request
      <3> HIDE DEF refetch, t, reqs
      <3>7. Fits(refetch) /\ Listing(refetch)
        BY <2>4, <3>1, <3>2, <3>6 DEF Fits, Listing, Home, SubmitKinds
      <3> QED
        BY <1>1, <1>2, <2>1, <2>2, <3>1, <3>2, <3>4, <3>5, <3>7, SlotStep
    <2>5. CASE page # "jobs"
      <3>1. reqs = Freed(f)
        BY <2>5 DEF Freed
      <3> HIDE DEF reqs, t
      <3> QED
        BY <1>1, <1>9, <2>1, <2>2, <2>3, <2>5, <3>1, GoToStep
    <2> QED
      BY <2>4, <2>5
  <1>12. CASE SessionOver(f)
    <2>1. auth' = 0 /\ GoTo("login", 0, f, Freed(f)) /\ r.at = "unauthorized"
      BY <1>12 DEF SessionOver, SetAuth
    <2>2. Land("login", 0) = "login" /\ "login" \in Pages /\ 0 \in Nat /\ 0 <= Len(tokens)
      BY <1>4 DEF Land, Pages, Protected
    <2>3. CASE page = "login"
      <3>1. fetches' = [fetches EXCEPT ![f] = Free] /\ page' = page /\ shown' = shown /\ excuses' = excuses
        BY <2>1, <2>2, <2>3 DEF GoTo, view, Freed
      <3>2. failed' = failed
        BY <2>1, <2>2, <2>3 DEF GoTo, view
      <3>3. failed' \in BOOLEAN /\ (failed => failed')
        BY <3>2, Zenon DEF ClientInv, TabOK
      <3>4. ~Listing(r)
        BY <1>3, <2>3 DEF Listing, Home, SubmitKinds
      <3>5. shown # NoJobs \/ failed \/ Listing(r) => shown' # NoJobs \/ failed'
        BY <3>1, <3>3, <3>4, Zenon
      <3> QED
        BY <1>1, <1>2, <2>1, <2>2, <2>3, <3>1, <3>3, <3>5, FreeFits, SlotStep DEF Protected
    <2>4. CASE page # "login"
      BY <1>1, <1>9, <2>1, <2>2, <2>4, GoToStep
    <2> QED
      BY <2>3, <2>4
  <1>13. CASE ListShown(f)
    <2>1. /\ r.kind = "list" /\ r.at \in {"ok", "error"} /\ fetches' = [fetches EXCEPT ![f] = Free]
          /\ page' = page /\ auth' = auth /\ excuses' = excuses
      BY <1>13 DEF ListShown, Freed
    <2>2. auth' \in Nat /\ auth' <= Len(tokens') /\ (page \in Protected => auth' # 0)
      BY <1>2, <1>5, <2>1
    <2>3. CASE r.live = "mounted"
      <3>1. failed' = (r.at = "error") /\ shown' = IF r.at = "ok" THEN r.seen ELSE shown
        BY <1>13, <2>3 DEF ListShown
      <3>2. failed' \in BOOLEAN /\ (r.at = "error" => failed')
        BY <3>1, Zenon
      <3>3. r.at = "ok" => shown' # NoJobs
        <4>1. r.at = "ok" => r.seen.of \in DOMAIN jobs /\ DOMAIN jobs = 1 .. Len(jobs) /\ Len(jobs) \in Nat
          BY <1>3, <1>4, <2>1, Elements DEF RequestOK, IsSnapshot, DataOK
        <4>2. NoJobs.of = 0
          BY DEF NoJobs
        <4> QED
          BY <3>1, <4>1, <4>2
      <3>4. shown' # NoJobs \/ failed'
        BY <2>1, <3>2, <3>3
      <3>5. shown' = shown \/ (Listing(r) /\ r.at = "ok" /\ shown' = r.seen)
        BY <2>1, <2>3, <3>1 DEF Listing
      <3> QED
        BY <1>1, <2>1, <2>2, <3>2, <3>4, <3>5, FreeFits, SlotStep
    <2>4. CASE r.live # "mounted"
      <3>1. shown' = shown
        BY <1>13, <2>4 DEF ListShown
      <3>2. failed' = failed
        BY <1>13, <2>4 DEF ListShown
      <3>3. ~Listing(r) /\ UNCHANGED <<auth, view>>
        BY <2>1, <2>4, <3>1, <3>2 DEF Listing, view
      <3> QED
        BY <1>1, <2>1, <3>3, FreeFits, SlotOnly
    <2> QED
      BY <2>3, <2>4
  <1>14. CASE CancelDone(f)
    <2> DEFINE new == Request("list", r.token, 0, r.live)
    <2>1. r.kind = "cancel" /\ fetches' = [fetches EXCEPT ![f] = new] /\ UNCHANGED <<auth, view>> /\ excuses' = excuses
      BY <1>3, <1>14 DEF CancelDone
    <2>2. RequestOK(new, jobs, tokens, expired)
      <3>1. r.token \in Nat /\ r.token <= Len(tokens) /\ r.live \in {"mounted", "unmounted", "gone"}
        BY <1>3 DEF RequestOK, RequestType
      <3> QED
        BY <1>4, <3>1, SentOK DEF Kinds
    <2>3. new.kind = "list" /\ new.live = r.live /\ new.token = r.token /\ new.at = "sent"
      BY DEF Request
    <2> HIDE DEF new
    <2>4. Fits(new)
      BY <1>3, <2>1, <2>3 DEF Fits, Home, SubmitKinds, FormKinds, ClientInv, OwnInv
    <2>5. ~Listing(r)
      BY <2>1 DEF Listing
    <2> QED
      BY <1>1, <1>2, <2>1, <2>2, <2>4, <2>5, SlotOnly
  <1>15. CASE UploadZip(f)
    <2> DEFINE new == [r EXCEPT !.kind = "submit", !.at = "sent"]
    <2>1. r.kind = "target" /\ r.at = "ok" /\ UNCHANGED <<auth, view>> /\ excuses' = excuses
      BY <1>15 DEF UploadZip
    <2>2. CASE fetches' = Freed(f)
      BY <1>10, <2>1, <2>2
    <2>3. CASE fetches' = [fetches EXCEPT ![f].kind = "submit", ![f].at = "sent"]
      <3>1. fetches' = [fetches EXCEPT ![f] = new]
        BY <1>3, <2>3
      <3>2. new = [kind |-> "submit", token |-> r.token, arg |-> r.arg, live |-> r.live, at |-> "sent", seen |-> r.seen]
        <4>1. r = [kind |-> r.kind, token |-> r.token, arg |-> r.arg, live |-> r.live, at |-> r.at, seen |-> r.seen]
          BY <1>3 DEF RequestOK, RequestType
        <4> DEFINE r1 == [r EXCEPT !.kind = "submit"]
        <4>2. r1 = [kind |-> "submit", token |-> r.token, arg |-> r.arg, live |-> r.live, at |-> r.at, seen |-> r.seen]
          BY <4>1
        <4>3. new = [r1 EXCEPT !.at = "sent"]
          OBVIOUS
        <4> HIDE DEF r1
        <4> QED
          BY <4>2, <4>3
      <3> HIDE DEF new
      <3>3. /\ new.kind = "submit" /\ new.token = r.token /\ new.arg = r.arg /\ new.live = r.live
            /\ new.at = "sent" /\ new.seen = r.seen
        BY <3>2
      <3>4. RequestType(new)
        BY <1>3, <3>2, <3>3 DEF RequestOK, RequestType, Kinds, FormKinds, SubmitKinds
      <3>5. RequestOK(new, jobs, tokens, expired)
        BY <1>3, <3>3, <3>4 DEF RequestOK
      <3>6. Fits(new)
        BY <1>3, <2>1, <3>3 DEF Fits, Home, SubmitKinds, FormKinds, ClientInv, OwnInv
      <3>7. ~Listing(r)
        BY <2>1 DEF Listing
      <3> QED
        BY <1>1, <1>2, <2>1, <3>1, <3>5, <3>6, <3>7, SlotOnly
    <2> QED
      BY <1>15, <2>2, <2>3 DEF UploadZip
  <1>16. CASE JobSubmitted(f)
    <2>1. r.kind = "submit" /\ auth' = auth /\ GoTo("jobs", auth, f, Freed(f))
      BY <1>16 DEF JobSubmitted
    <2>2. CASE Land("jobs", auth) = page
      <3>1. fetches' = Freed(f) /\ UNCHANGED <<auth, view>> /\ excuses' = excuses
        BY <2>1, <2>2 DEF GoTo
      <3> QED
        BY <1>10, <2>1, <3>1
    <2>3. CASE Land("jobs", auth) # page
      <3>1. "jobs" \in Pages
        BY DEF Pages
      <3> QED
        BY <1>1, <1>5, <1>9, <2>1, <2>3, <3>1, GoToStep
    <2> QED
      BY <2>2, <2>3
  <1>17. CASE Reported(f)
    BY <1>10, <1>17 DEF Reported
  <1> QED
    BY <1>11, <1>12, <1>13, <1>14, <1>15, <1>16, <1>17 DEF Deliver

-----------------------------------------------------------------------------
(* Theorems.                                                               *)

\* The tab starts at the login page, with nothing in flight.
LEMMA ClientInit == Init => ClientInv
  <1> SUFFICES ASSUME Init PROVE ClientInv
    OBVIOUS
  <1>1. /\ jobs = <<>> /\ tokens = <<>> /\ expired = 0 /\ auth = 0 /\ page = "login" /\ shown = NoJobs
        /\ fetches = [f \in Fetches |-> Free] /\ excuses = {}
    BY DEF Init
  <1>2. failed = FALSE
    BY DEF Init
  <1>3. DataOK(jobs, tokens, expired)
    BY <1>1, Bounds DEF DataOK
  <1>4. RequestOK(Free, jobs, tokens, expired) /\ Free.kind = "none" /\ Free.live = "gone"
    BY <1>3, FreeOK DEF Free
  <1>5. \A f \in Fetches : fetches[f] = Free
    BY <1>1
  <1>6. TabOK
    <2>1. failed \in BOOLEAN
      BY <1>2, Zenon
    <2>2. Len(tokens) = 0
      BY <1>1
    <2> QED
      BY <1>1, <2>1, <2>2 DEF TabOK, Pages, Protected
  <1>7. FetchesOK /\ OwnInv /\ SettledInv
    BY <1>1, <1>4, <1>5 DEF FetchesOK, OwnInv, SettledInv, FormKinds, SubmitKinds
  <1> QED
    BY <1>3, <1>6, <1>7 DEF ClientInv, ServerOK

\* Every step keeps the invariant.
LEMMA ClientStep == ClientInv /\ [Next]_vars => ClientInv'
  <1> SUFFICES ASSUME ClientInv, [Next]_vars PROVE ClientInv'
    OBVIOUS
  <1>1. ServerKept
    BY ServerStep
  <1>2. ASSUME NEW kinds, NEW kind \in {"register", "password"} \cup SubmitKinds, SubmitForm(kinds, kind, 0) PROVE ClientInv'
    BY <1>2, SendStep DEF SubmitForm, Kinds, FormKinds, SubmitKinds
  <1>3. CASE SubmitRegister \/ SubmitJob \/ ChangePassword
    BY <1>2, <1>3 DEF SubmitRegister, SubmitJob, ChangePassword
  <1>4. CASE Poll
    BY <1>4, SendStep DEF Poll, Kinds
  <1>5. ASSUME NEW a \in DOMAIN jobs, SubmitLogin(a) PROVE ClientInv'
    BY <1>5, SendStep DEF SubmitLogin, SubmitForm, Kinds, FormKinds
  <1>6. ASSUME NEW i \in 1 .. MaxJobs, ClickCancel(i) PROVE ClientInv'
    <2> DEFINE job == <<shown.of, i>>
    <2>1. i \in DOMAIN shown.list /\ Send("cancel", job)
      BY <1>6 DEF ClickCancel
    <2>2. job[1] = shown.of /\ job[2] = i
      OBVIOUS
    <2> HIDE DEF job
    <2>3. shown # NoJobs
      BY <2>1 DEF NoJobs
    <2>4. shown.of \in DOMAIN jobs /\ shown.list \in Seq(DisplayStatus) /\ Len(shown.list) <= Len(jobs[shown.of])
      BY <2>3 DEF ClientInv, TabOK, IsSnapshot
    <2>5. jobs[shown.of] \in Seq(DisplayStatus)
      BY <2>4, Elements DEF ClientInv, ServerOK, DataOK
    <2>6. i \in DOMAIN jobs[shown.of]
      <3>1. DOMAIN shown.list = 1 .. Len(shown.list) /\ Len(shown.list) \in Nat
        BY <2>4, Elements
      <3>2. DOMAIN jobs[shown.of] = 1 .. Len(jobs[shown.of]) /\ Len(jobs[shown.of]) \in Nat
        BY <2>5, Elements
      <3> QED
        BY <2>1, <2>4, <3>1, <3>2
    <2> QED
      BY <2>1, <2>2, <2>4, <2>6, SendStep DEF Kinds
  <1>7. ASSUME UNCHANGED <<auth, view, fetches, excuses>> PROVE ClientInv'
    BY <1>1, <1>7, QuietStep
  <1>8. CASE UNCHANGED vars
    BY <1>7, <1>8 DEF vars
  <1>9. CASE Expire \/ \E a \in 1 .. MaxAccounts, i \in 1 .. MaxJobs : JobAdvances(a, i)
    BY <1>7, <1>9 DEF Expire, JobAdvances
  <1>10. ASSUME NEW f \in Fetches, Serve(f) \/ Fail(f) \/ Deliver(f) PROVE ClientInv'
    BY <1>1, <1>10, ServeStep, FailStep, DeliverStep
  <1>11. CASE (\E p \in Pages : Navigate(p)) \/ Logout \/ Reload
    BY <1>11, NavigationStep
  <1> QED
    BY <1>3, <1>4, <1>5, <1>6, <1>8, <1>9, <1>10, <1>11 DEF Next

\* ClientInv holds throughout.
THEOREM ClientInvHolds == Spec => []ClientInv
  BY ClientInit, ClientStep, PTL DEF Spec

\* The variables keep their types, no page behind ProtectedRoute is up without
\* a token, and a component only waits while its page is up.
THEOREM TypeOKHolds == Spec => []TypeOK
  <1>1. ClientInv => TypeOK
    <2> SUFFICES ASSUME ClientInv PROVE TypeOK
      OBVIOUS
    <2>1. /\ jobs \in Seq(Seq(DisplayStatus)) /\ Len(jobs) \in Nat /\ Len(jobs) <= MaxAccounts
          /\ DOMAIN jobs = 1 .. Len(jobs) /\ tokens \in Seq(Nat) /\ Len(tokens) \in Nat
          /\ \A i \in DOMAIN tokens : tokens[i] \in DOMAIN jobs
          /\ expired \in 0 .. Len(tokens)
      BY Elements DEF ClientInv, ServerOK, DataOK
    <2>2. \A a \in DOMAIN jobs : Len(jobs[a]) <= MaxJobs /\ \A i \in DOMAIN jobs[a] : jobs[a][i] \in DisplayStatus
      <3> TAKE a \in DOMAIN jobs
      <3>1. jobs[a] \in Seq(DisplayStatus)
        BY <2>1, Elements
      <3> QED
        BY <3>1, Elements DEF ClientInv, ServerOK, DataOK
    <2>3. auth \in 0 .. Len(tokens) /\ page \in Pages /\ (page \in Protected => auth # 0)
      BY <2>1 DEF ClientInv, TabOK
    <2>4. shown.of \in 0 .. Len(jobs)
      <3>1. NoJobs.of = 0
        BY DEF NoJobs
      <3> QED
        BY <2>1, <3>1 DEF ClientInv, TabOK, IsSnapshot
    <2>5. failed \in BOOLEAN
      BY Zenon DEF ClientInv, TabOK
    <2>6. \A f \in Fetches : /\ fetches[f].live \in {"mounted", "unmounted", "gone"}
                             /\ fetches[f].live = "mounted" => page = Home(fetches[f].kind)
      BY DEF ClientInv, FetchesOK, RequestOK, RequestType
    <2> QED
      BY <2>1, <2>2, <2>3, <2>4, <2>5, <2>6 DEF TypeOK
  <1> QED
    BY <1>1, ClientInvHolds, PTL

\* The jobs page shows the jobs of the account that is logged in, unless a
\* request has outlived its form.
THEOREM ShownIsOwnHolds == Spec => []ShownIsOwn
  <1>1. ClientInv => ShownIsOwn
    BY DEF ClientInv, OwnInv, ShownIsOwn, NoJobs
  <1> QED
    BY <1>1, ClientInvHolds, PTL

\* A jobs page that has stopped polling, without an error or an excuse, shows
\* the jobs the backend has.
THEOREM ShownSettledHolds == Spec => []ShownSettled
  <1>1. ClientInv => ShownSettled
    <2> SUFFICES ASSUME ClientInv, page = "jobs", ~failed, excuses = {},
                        ~ActiveShown, Waiting({"list", "cancel"}) = {}
                 PROVE  shown.list = jobs[tokens[auth]]
      BY DEF ShownSettled
    <2>1. shown # NoJobs /\ Older(shown, jobs)
      BY DEF ClientInv, SettledInv, Waiting
    <2>2. shown.of = tokens[auth] /\ shown.of \in DOMAIN jobs /\ shown.list \in Seq(DisplayStatus)
      BY <2>1 DEF ClientInv, OwnInv, TabOK, IsSnapshot
    <2>3. jobs[shown.of] \in Seq(DisplayStatus)
      BY <2>2, Elements DEF ClientInv, ServerOK, DataOK
    <2>4. \A i \in DOMAIN shown.list : shown.list[i] = "ended"
      BY <2>2, Elements DEF ActiveShown, PolledStatuses, DisplayStatus
    <2>5. Len(shown.list) = Len(jobs[shown.of]) /\ \A i \in DOMAIN shown.list : shown.list[i] = jobs[shown.of][i]
      BY <2>1, <2>4 DEF Older
    <2>6. DOMAIN shown.list = 1 .. Len(shown.list)
      BY <2>2, Elements
    <2>7. shown.list = jobs[shown.of]
      BY <2>2, <2>3, <2>5, <2>6, SeqEqual
    <2> QED
      BY <2>2, <2>7
  <1> QED
    BY <1>1, ClientInvHolds, PTL

\* A valid session ends only by the user, a reload, another login or a 401 to
\* an older token.
THEOREM SessionKeptHolds == Spec => SessionKept
  <1> DEFINE Kept == auth > expired /\ auth' # auth =>
                        \/ Logout
                        \/ Reload
                        \/ \E f \in Fetches : \/ LoggedIn(f)
                                              \/ SessionOver(f) /\ fetches[f].token < auth
  <1>1. ClientInv /\ [Next]_vars => [Kept]_vars
    <2> SUFFICES ASSUME ClientInv, Next, auth > expired, auth' # auth
                 PROVE  \/ Logout \/ Reload
                        \/ \E f \in Fetches : LoggedIn(f) \/ (SessionOver(f) /\ fetches[f].token < auth)
      OBVIOUS
    <2>1. ASSUME NEW f \in Fetches, SessionOver(f) PROVE fetches[f].token < auth
      <3>1. fetches[f].token \in Nat /\ fetches[f].token <= expired /\ expired \in Nat /\ auth \in Nat
        BY <2>1 DEF SessionOver, ClientInv, FetchesOK, RequestOK, RequestType, ServerOK, DataOK, TabOK
      <3> QED
        BY <3>1
    <2>2. Logout \/ Reload \/ \E f \in Fetches : LoggedIn(f) \/ SessionOver(f)
      BY DEF Next, Navigate, SubmitRegister, SubmitJob, ChangePassword, Poll, SubmitLogin, SubmitForm, Send, ClickCancel,
             Serve, Fail, Deliver, ListShown, CancelDone, UploadZip, JobSubmitted, Reported, JobAdvances, Expire
    <2> QED
      BY <2>1, <2>2
  <1> QED
    BY <1>1, ClientInvHolds, PTL DEF Spec, SessionKept

=============================================================================
