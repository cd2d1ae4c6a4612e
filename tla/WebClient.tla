----------------------------- MODULE WebClient -----------------------------
(***************************************************************************)
(* One browser tab of the frontend against the account and job API.  The   *)
(* tab keeps a token (in React state and in localStorage) and a page; each *)
(* fetch is a request that the backend serves and whose answer comes back  *)
(* in any order, possibly to a page the user has left or a session that is *)
(* over.  Whether a password is right and what the quota says are choices. *)
(***************************************************************************)
EXTENDS Naturals, Sequences

CONSTANTS
    MaxAccounts,  \* bound: accounts registered
    MaxTokens,    \* bound: tokens issued
    MaxJobs,      \* bound: jobs of an account
    MaxCancels,   \* bound: clicks on Cancel
    MaxFailures,  \* bound: requests that fail on the network
    Fetches       \* bound: slots for the fetches in flight

ASSUME WebClientAssumption ==
    {MaxAccounts, MaxTokens, MaxJobs, MaxCancels, MaxFailures} \subseteq Nat

VARIABLES
    jobs,       \* a sequence of display statuses for each account registered
    tokens,     \* the account each token issued so far names
    expired,    \* the tokens 1 .. expired are past their exp
    auth,       \* the token in AuthContext, 0 for null
    page,
    shown,      \* useJobsPolling: jobs, and the account whose jobs they are
    failed,     \* useJobsPolling: error is not null
    fetches,    \* [Fetches -> request]
    excuses,    \* history: events after which a page may lag behind
    cancels, failures

server == <<jobs, tokens, expired>>
view == <<page, shown, failed>>
bounds == <<cancels, failures>>
vars == <<server, auth, view, fetches, excuses, bounds>>

\* _DISPLAY_STATUS; "ended" stands for completed, failed and cancelled.
DisplayStatus == {"queued", "running", "ended"}

\* Mutant: polling stops when nothing is queued.
PolledStatuses_Queued == {"queued"}

\* ACTIVE_STATUSES of the hook and CANCELLABLE_STATUSES of the page.
PolledStatuses == {"queued", "running"}

Pages == {"login", "register", "jobs", "new", "account"}
Protected == {"jobs", "new", "account"}

NoJobs == [of |-> 0, list |-> <<>>]

SubmitKinds == {"target", "submit"}
FormKinds == {"login", "register"} \cup SubmitKinds

\* The page of the component that waits for a request of this kind.
Home(kind) == CASE kind \in {"login", "register"} -> kind
                [] kind \in SubmitKinds -> "new"
                [] kind = "password" -> "account"
                [] OTHER -> "jobs"

\* arg: the account or the job; live: the component that waits for the answer
\* is mounted, unmounted, or gone with its page load or connection; seen: what
\* the handler has read, or the result it returns.
Free == [kind |-> "none", token |-> 0, arg |-> 0, live |-> "gone", at |-> "free", seen |-> 0]

\* request() in client.ts; login and register send no token.
Request(kind, token, arg, live) ==
    [kind |-> kind, token |-> token, arg |-> arg, live |-> live, at |-> "sent", seen |-> 0]

Init ==
    /\ jobs = <<>>
    /\ tokens = <<>> /\ expired = 0
    /\ auth = 0
    /\ page = "login" /\ shown = NoJobs /\ failed = FALSE
    /\ fetches = [f \in Fetches |-> Free]
    /\ excuses = {} /\ cancels = 0 /\ failures = 0

\* A slot for the next fetch.
HasSlot == \E f \in Fetches : fetches[f].at = "free"
Slot == CHOOSE f \in Fetches : fetches[f].at = "free"
Waiting(kinds) == {f \in Fetches : fetches[f].kind \in kinds /\ fetches[f].live = "mounted"}

-----------------------------------------------------------------------------
(* Navigation.                                                             *)

\* Mutant: the route is not protected.
Land_Unprotected(p, t) == p

\* ProtectedRoute: where a navigation to p ends for a token t.
Land(p, t) == IF p \in Protected /\ t = 0 THEN "login" ELSE p

\* Mutant: answers reach whichever page is up.
Unmount_KeepsWaiting(reqs) == reqs

\* React drops what an unmounted component would show, but not what its
\* handler still does.
Unmount(reqs) == [f \in Fetches |-> IF reqs[f].live = "mounted"
                                       THEN [reqs[f] EXCEPT !.live = "unmounted"]
                                       ELSE reqs[f]]

\* A request outlives the form that sent it.
LeavesForm(reqs) == \E f \in Fetches : reqs[f].live = "mounted" /\ reqs[f].kind \in FormKinds

\* Go to p with token t, fetch slot f being free in reqs.  A page that is left
\* loses its state, the jobs page fetches as it mounts.
GoTo(p, t, f, reqs) ==
    LET target == Land(p, t) IN
    IF target = page
    THEN fetches' = reqs /\ UNCHANGED <<view, excuses>>
    ELSE /\ page' = target /\ shown' = NoJobs /\ failed' = FALSE
         /\ fetches' = [Unmount(reqs) EXCEPT
                          ![f] = IF target = "jobs" THEN Request("list", t, 0, "mounted") ELSE Free]
         /\ excuses' = excuses \cup IF LeavesForm(reqs) THEN {"orphan"} ELSE {}

\* AuthContext login and logout: React state, and localStorage if it works.
SetAuth(t) == auth' = t

\* A link or a typed path within the tab.
Navigate(p) ==
    /\ HasSlot /\ p # page
    /\ GoTo(p, auth, Slot, fetches)
    /\ UNCHANGED <<server, auth, bounds>>

Logout ==
    /\ HasSlot /\ page \in Protected
    /\ SetAuth(0)
    /\ GoTo("login", 0, Slot, fetches)
    /\ UNCHANGED <<server, bounds>>

\* The page is loaded anew.  The session is read from localStorage, which holds
\* what AuthContext has, or nothing where it is unavailable.  Requests in flight
\* may still be served; nobody waits for them, and of a list nothing is left.
Reload ==
    LET target == Land(page, auth')
        dropped == [g \in Fetches |-> IF fetches[g].at \in {"sent", "read"} /\ fetches[g].kind # "list"
                                         THEN [fetches[g] EXCEPT !.live = "gone"] ELSE Free] IN
    /\ HasSlot
    /\ auth' \in {auth, 0}
    /\ page' = target /\ shown' = NoJobs /\ failed' = FALSE
    /\ fetches' = [dropped EXCEPT
                     ![Slot] = IF target = "jobs" THEN Request("list", auth', 0, "mounted") ELSE Free]
    /\ excuses' = excuses \cup IF LeavesForm(fetches) THEN {"orphan"} ELSE {}
    /\ UNCHANGED <<server, bounds>>

-----------------------------------------------------------------------------
(* What the user and the polling timer send.                               *)

Send(kind, arg) ==
    /\ HasSlot /\ page = Home(kind)
    /\ fetches' = [fetches EXCEPT ![Slot] = Request(kind, IF kind \in {"login", "register"} THEN 0 ELSE auth, arg, "mounted")]
    /\ UNCHANGED <<server, auth, view, excuses, failures>>

\* The forms disable their button while they wait.
SubmitForm(kinds, kind, arg) == Waiting(kinds) = {} /\ Send(kind, arg) /\ UNCHANGED cancels

\* An email, as the account it names.
SubmitLogin(account) == SubmitForm({"login"}, "login", account)
SubmitRegister == SubmitForm({"register"}, "register", 0)

\* A Hugging Face dataset is submitted at once, a zip is uploaded first.
SubmitJob == \E kind \in SubmitKinds : SubmitForm(SubmitKinds, kind, 0)

ChangePassword == SubmitForm({"password"}, "password", 0)

ActiveShown == \E i \in DOMAIN shown.list : shown.list[i] \in PolledStatuses

\* setInterval(refresh): it does not wait for the previous answer.
Poll == ActiveShown /\ Send("list", 0) /\ UNCHANGED cancels

\* A card is busy while one of its actions waits.
Busy(job) == \E f \in Waiting({"cancel"}) : fetches[f].arg = job

ClickCancel(i) ==
    /\ i \in DOMAIN shown.list /\ shown.list[i] \in PolledStatuses
    /\ ~Busy(<<shown.of, i>>) /\ cancels < MaxCancels
    /\ Send("cancel", <<shown.of, i>>)
    /\ cancels' = cancels + 1

-----------------------------------------------------------------------------
(* The backend.                                                            *)

\* The answer a to request f, with its result.
Answer(f, a, result) ==
    fetches' = [fetches EXCEPT ![f] = IF @.live = "gone" THEN Free
                                      ELSE [@ EXCEPT !.at = a, !.seen = result]]

Read(f, result) == fetches' = [fetches EXCEPT ![f].at = "read", ![f].seen = result]

Serving(f, kinds, at) == fetches[f].kind \in kinds /\ fetches[f].at = at
Caller(f) == tokens[fetches[f].token]

\* get_current_user_id raised: no token, or one that is past its exp.
Unauthorized(f) ==
    /\ Serving(f, {"list", "password", "cancel"} \cup SubmitKinds, "sent")
    /\ fetches[f].token <= expired
    /\ Answer(f, "unauthorized", 0)
    /\ UNCHANGED <<server, excuses>>

Authorized(f, kinds) == Serving(f, kinds, "sent") /\ fetches[f].token > expired

\* _token_for
IssueToken(f, account) ==
    /\ Len(tokens) < MaxTokens
    /\ tokens' = Append(tokens, account)
    /\ Answer(f, "ok", Len(tokens'))

LoginWithEmail(f) ==
    /\ Serving(f, {"login"}, "sent")
    /\ \/ IssueToken(f, fetches[f].arg)
       \/ Answer(f, "error", 0) /\ UNCHANGED tokens          \* InvalidCredentialsError
    /\ UNCHANGED <<jobs, expired, excuses>>

RegisterWithEmail(f) ==
    /\ Serving(f, {"register"}, "sent")
    /\ \/ /\ Len(jobs) < MaxAccounts
          /\ jobs' = Append(jobs, <<>>)
          /\ IssueToken(f, Len(jobs'))
       \/ /\ Answer(f, "error", 0)      \* captcha, or EmailAlreadyRegisteredError
          /\ UNCHANGED <<jobs, tokens>>
    /\ UNCHANGED <<expired, excuses>>

\* Mutant: answered like wrong credentials at login.
WrongOldPassword_401 == "unauthorized"

\* WrongOldPasswordError, a 400.
WrongOldPassword == "error"

\* change_password; the passwords are in Backend.
ServePassword(f) ==
    /\ Authorized(f, {"password"})
    /\ \E a \in {"ok", WrongOldPassword} : Answer(f, a, 0)
    /\ UNCHANGED <<server, excuses>>

\* list_jobs_for_user: a job it reads as queued may have left the queue when it
\* reads that; then index() raises ValueError, a 500.
ListJobs(f) ==
    LET list == jobs[Caller(f)] IN
    /\ Authorized(f, {"list"})
    /\ \/ Answer(f, "ok", [of |-> Caller(f), list |-> list])
       \/ (\E i \in DOMAIN list : list[i] = "queued") /\ Answer(f, "error", 0)
    /\ UNCHANGED <<server, excuses>>

Status(job) == jobs[job[1]][job[2]]

\* request_cancel reads the job ...
CancelRead(f) ==
    LET job == fetches[f].arg IN
    /\ Authorized(f, {"cancel"})
    /\ IF job[1] = Caller(f) /\ Status(job) \in PolledStatuses
          THEN Read(f, Status(job))
          ELSE Answer(f, "error", 0)     \* NotJobOwnerError, CancelNotAllowedError
    /\ UNCHANGED <<server, excuses>>

\* ... and writes its copy back with cancel_requested.  The listing for the
\* answer may fail as in ListJobs.
CancelWrite(f) ==
    LET job == fetches[f].arg
        copy == fetches[f].seen IN
    /\ Serving(f, {"cancel"}, "read")
    /\ jobs' = [jobs EXCEPT ![job[1]][job[2]] = copy]
    /\ excuses' = excuses \cup IF Status(job) # copy THEN {"revived"} ELSE {}
    /\ \E a \in {"ok"} \cup (IF copy = "queued" THEN {"error"} ELSE {}) : Answer(f, a, 0)
    /\ UNCHANGED <<tokens, expired>>

CreateUploadTarget(f) ==
    /\ Authorized(f, {"target"})
    /\ Answer(f, "ok", 0)
    /\ UNCHANGED <<server, excuses>>

\* submit_hf_dataset and confirm_zip_upload.  The answer takes a listing, which
\* may fail although the job was created.
CreateJob(f) ==
    /\ Authorized(f, {"submit"})
    /\ \/ /\ Len(jobs[Caller(f)]) < MaxJobs
          /\ jobs' = [jobs EXCEPT ![Caller(f)] = Append(@, "queued")]
          /\ \E a \in {"ok", "error"} : Answer(f, a, 0)
       \/ Answer(f, "error", 0) /\ UNCHANGED jobs    \* a check, or the quota
    /\ UNCHANGED <<tokens, expired, excuses>>

Serve(f) ==
    /\ \/ Unauthorized(f) \/ LoginWithEmail(f) \/ RegisterWithEmail(f)
       \/ ServePassword(f) \/ ListJobs(f) \/ CancelRead(f) \/ CancelWrite(f)
       \/ CreateUploadTarget(f) \/ CreateJob(f)
    /\ UNCHANGED <<auth, view, bounds>>

\* What the worker and the sweep do to a job, as _DISPLAY_STATUS shows it.
Successors == [queued |-> {"running", "ended"}, running |-> {"ended"}]

JobAdvances(a, i) ==
    /\ a \in DOMAIN jobs /\ i \in DOMAIN jobs[a] /\ jobs[a][i] \in DOMAIN Successors
    /\ \E s \in Successors[jobs[a][i]] : jobs' = [jobs EXCEPT ![a][i] = s]
    /\ UNCHANGED <<tokens, expired, auth, view, fetches, excuses, bounds>>

\* Twelve hours after it was issued, the oldest token.
Expire ==
    /\ expired < Len(tokens) /\ expired' = expired + 1
    /\ UNCHANGED <<jobs, tokens, auth, view, fetches, excuses, bounds>>

-----------------------------------------------------------------------------
(* Answers.                                                                *)

\* The connection breaks: before the request arrives, while it is served, or
\* with the answer.  The user is shown an error.
Fail(f) ==
    LET r == fetches[f] IN
    /\ failures < MaxFailures /\ failures' = failures + 1
    /\ \/ r.at \in {"sent", "ok", "unauthorized"} /\ fetches' = [fetches EXCEPT ![f] = Free]
       \/ r.at \in {"sent", "read"} /\ r.kind # "list" /\ fetches' = [fetches EXCEPT ![f].live = "gone"]
    /\ failed' = (failed \/ (r.kind = "list" /\ r.live = "mounted"))
    /\ excuses' = excuses \cup IF r.kind \in FormKinds THEN {"orphan"} ELSE {}
    /\ UNCHANGED <<server, auth, page, shown, cancels>>

Freed(f) == [fetches EXCEPT ![f] = Free]

\* LoginPage and RegisterPage: the new token, then /jobs.  On /jobs already,
\* the new client makes the hook fetch again.
LoggedIn(f) ==
    LET token == fetches[f].seen
        refetch == Request("list", token, 0, "mounted") IN
    /\ fetches[f].kind \in {"login", "register"} /\ fetches[f].at = "ok"
    /\ SetAuth(token)
    /\ GoTo("jobs", token, f,
            [fetches EXCEPT ![f] = IF page = "jobs" THEN refetch ELSE Free])

\* useAuthErrorHandler, on whichever page the tab is by now.
SessionOver(f) ==
    /\ fetches[f].at = "unauthorized"
    /\ SetAuth(0)
    /\ GoTo("login", 0, f, Freed(f))

ListShown(f) ==
    /\ fetches[f].kind = "list" /\ fetches[f].at \in {"ok", "error"}
    /\ fetches' = Freed(f)
    /\ IF fetches[f].live = "mounted"
          THEN /\ failed' = (fetches[f].at = "error")
               /\ shown' = IF fetches[f].at = "ok" THEN fetches[f].seen ELSE shown
          ELSE UNCHANGED <<shown, failed>>
    /\ UNCHANGED <<page, auth, excuses>>

\* onChanged: refresh, with the client the card was rendered with.
CancelDone(f) ==
    /\ fetches[f].kind = "cancel" /\ fetches[f].at = "ok"
    /\ fetches' = [fetches EXCEPT ![f] = Request("list", @.token, 0, @.live)]
    /\ UNCHANGED <<view, auth, excuses>>

\* handleSubmit of NewJobPage with a zip: the PUT to the signed URL, which
\* may fail, and then the confirmation.
UploadZip(f) ==
    /\ fetches[f].kind = "target" /\ fetches[f].at = "ok"
    /\ fetches' \in {[fetches EXCEPT ![f].kind = "submit", ![f].at = "sent"], Freed(f)}
    /\ UNCHANGED <<view, auth, excuses>>

JobSubmitted(f) ==
    /\ fetches[f].kind = "submit" /\ fetches[f].at = "ok"
    /\ GoTo("jobs", auth, f, Freed(f))
    /\ UNCHANGED auth

\* Nothing but a message.
Reported(f) ==
    /\ fetches[f].kind # "list"
    /\ \/ fetches[f].at = "error"
       \/ fetches[f].at = "ok" /\ fetches[f].kind = "password"
    /\ fetches' = Freed(f)
    /\ UNCHANGED <<view, auth, excuses>>

Deliver(f) ==
    /\ \/ LoggedIn(f) \/ SessionOver(f) \/ ListShown(f) \/ CancelDone(f)
       \/ UploadZip(f) \/ JobSubmitted(f) \/ Reported(f)
    /\ UNCHANGED <<server, bounds>>

Next ==
    \/ \E p \in Pages : Navigate(p)
    \/ Logout \/ Reload \/ SubmitRegister \/ SubmitJob \/ ChangePassword \/ Poll
    \/ \E a \in DOMAIN jobs : SubmitLogin(a)
    \/ \E i \in 1 .. MaxJobs : ClickCancel(i)
    \/ \E f \in Fetches : Serve(f) \/ Fail(f) \/ Deliver(f)
    \/ \E a \in 1 .. MaxAccounts, i \in 1 .. MaxJobs : JobAdvances(a, i)
    \/ Expire

Spec == Init /\ [][Next]_vars

-----------------------------------------------------------------------------
(* Properties.                                                             *)

\* The values each variable takes; a page behind ProtectedRoute is only up
\* with a token, and only accounts that exist have tokens and jobs.
TypeOK ==
    /\ Len(jobs) <= MaxAccounts
    /\ \A a \in DOMAIN jobs : /\ Len(jobs[a]) <= MaxJobs
                              /\ \A i \in DOMAIN jobs[a] : jobs[a][i] \in DisplayStatus
    /\ \A i \in DOMAIN tokens : tokens[i] \in DOMAIN jobs
    /\ expired \in 0 .. Len(tokens)
    /\ auth \in 0 .. Len(tokens)
    /\ page \in Pages /\ (page \in Protected => auth # 0)
    /\ shown.of \in 0 .. Len(jobs) /\ failed \in BOOLEAN
    /\ \A f \in Fetches : /\ fetches[f].live \in {"mounted", "unmounted", "gone"}
                          /\ fetches[f].live = "mounted" => page = Home(fetches[f].kind)

\* The jobs page (JobsPage.tsx, useJobsPolling.ts) shows jobs of the account
\* that is logged in, however late the answers to an earlier session arrive;
\* except after a request outlived its form, as the token it brings replaces
\* the session under an open page.
ShownIsOwn ==
    page = "jobs" /\ "orphan" \notin excuses /\ shown.list # <<>> => shown.of = tokens[auth]

\* When the jobs page has stopped polling and shows no error, it shows what the
\* backend has.  Excused: a submission that outlives its form creates a job the
\* page does not learn of, and a cancellation that writes an old copy back
\* revives an ended job.
ShownSettled ==
    /\ page = "jobs" /\ ~failed /\ excuses = {}
    /\ ~ActiveShown /\ Waiting({"list", "cancel"}) = {}
    => shown.list = jobs[tokens[auth]]

\* A session whose token is valid is only ended by the user, by a reload without
\* localStorage, by another login, or by a 401 to a request that carried an
\* older token (useAuthErrorHandler does not ask which token was refused).
SessionKept ==
    [][auth > expired /\ auth' # auth =>
         \/ Logout
         \/ Reload
         \/ \E f \in Fetches : \/ LoggedIn(f)
                               \/ SessionOver(f) /\ fetches[f].token < auth]_vars

-----------------------------------------------------------------------------
(* What the comments say and the code does not do.                         *)

\* useAuthErrorHandler.ts: a 401 means that the token is gone or expired, so a
\* session whose token is valid is never dropped for the login page.
DroppedOnlyExpired == [][auth > expired /\ auth' = 0 => Logout \/ Reload]_vars

\* useJobsPolling.ts: a page that shows the account's jobs stops polling when
\* every one of them has ended.  (Until a cancellation revives an ended job.)
PollsUntilEnded ==
    /\ page = "jobs" /\ ~failed /\ "revived" \notin excuses
    /\ ~ActiveShown /\ Waiting({"list", "cancel"}) = {}
    => \A i \in DOMAIN jobs[tokens[auth]] : jobs[tokens[auth]][i] \notin PolledStatuses

=============================================================================
