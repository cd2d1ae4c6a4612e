------------------------------ MODULE Accounts ------------------------------
(***************************************************************************)
(* User documents: registration with an email, the Hugging Face login,     *)
(* password changes (AuthService), and the worker's charge of the daily    *)
(* quota, which rewrites the same document.  Each looks first and writes   *)
(* later, a whole document, under no transaction; a request is in between  *)
(* when reqs has it.  What is refused changes nothing and has no step: a   *)
(* bad captcha, a taken email, wrong credentials, a failed code exchange.  *)
(***************************************************************************)
EXTENDS Integers

CONSTANTS
    Ids,        \* document ids: uuid4s, as the numbers they are ordered like
    Emails, Passwords,
    HfIds,      \* Hugging Face accounts
    HfEmail,    \* [HfIds -> Emails or None]: the email their profile shows
    Requests,   \* bound: the requests in flight at once
    MaxUsed,    \* bound: the charges to one account
    None

ASSUME AccountsAssumption ==
    /\ Ids \subseteq Nat \ {0}
    /\ HfEmail \in [HfIds -> Emails \cup {None}]
    /\ None \notin Emails \cup Passwords \cup HfIds
    /\ MaxUsed \in Nat

VARIABLES
    users,     \* [Ids -> document], without the day the quota counts for
    reqs,      \* [Requests -> [op, id, doc]]: doc is what the request will write
    promised,  \* [Ids -> [password, used]]: what the finished requests add up to
    raced      \* the emails, Hugging Face ids and document ids that two
               \* requests have dealt with at the same time
vars == <<users, reqs, promised, raced>>

\* A password stands for its hash; only an account made by email has one.
User == [email : Emails \cup {None}, password : Passwords \cup {None},
         hf : HfIds \cup {None}, used : Nat]
NoUser == [email |-> None, password |-> None, hf |-> None, used |-> 0]

Exists(i) == users[i] # NoUser
HasPassword(doc) == doc.password # None

Idle == [op |-> "idle", id |-> 0, doc |-> NoUser]

\* No email account lacks an email, no Hugging Face account its id.
TypeOK ==
    /\ users \in [Ids -> User]
    /\ reqs \in [Requests -> [op : {"idle", "register", "hf", "change", "charge"},
                              id : Ids \cup {0}, doc : User]]
    /\ promised \in [Ids -> [password : Passwords \cup {None}, used : Nat]]
    /\ raced \subseteq Emails \cup HfIds \cup Ids
    /\ \A i \in Ids : Exists(i) => (HasPassword(users[i]) <=> users[i].hf = None)
                                /\ (HasPassword(users[i]) => users[i].email # None)

Init ==
    /\ users = [i \in Ids |-> NoUser]
    /\ reqs = [r \in Requests |-> Idle]
    /\ promised = [i \in Ids |-> [password |-> None, used |-> 0]]
    /\ raced = {}

-----------------------------------------------------------------------------
(* UserRepository.                                                         *)

WithEmail(e) == {i \in Ids : Exists(i) /\ users[i].email = e}
WithHf(h) == {i \in Ids : Exists(i) /\ users[i].hf = h}

\* where(...).limit(1): of several documents, the one with the lowest id.
IsFirst(i, S) == i \in S /\ \A j \in S : i <= j

-----------------------------------------------------------------------------
(* AuthService and the worker: the first half of each operation.           *)

\* The request r goes on with what it will write, and S is what it deals with.
Begin(r, op, id, doc, S) ==
    /\ reqs' = [reqs EXCEPT ![r] = [op |-> op, id |-> id, doc |-> doc]]
    /\ raced' = raced \cup S
    /\ UNCHANGED <<users, promised>>

InFlight(op) == {q \in Requests : reqs[q].op = op}

\* Mutant: the email is not looked up first.
Register_Unchecked(r, e, p) ==
    /\ reqs[r].op = "idle"
    /\ Begin(r, "register", 0, [NoUser EXCEPT !.email = e, !.password = p],
             {f \in {e} : \E q \in InFlight("register") : reqs[q].doc.email = f})

\* register_with_email, once the captcha is passed.
Register(r, e, p) ==
    /\ reqs[r].op = "idle"
    /\ WithEmail(e) = {}
    /\ Begin(r, "register", 0, [NoUser EXCEPT !.email = e, !.password = p],
             {f \in {e} : \E q \in InFlight("register") : reqs[q].doc.email = f})

\* Mutant: a login makes an account every time.
HfLogin_Unchecked(r, h) ==
    /\ reqs[r].op = "idle"
    /\ Begin(r, "hf", 0, [NoUser EXCEPT !.email = HfEmail[h], !.hf = h],
             {g \in {h} : \E q \in InFlight("hf") : reqs[q].doc.hf = g})

\* login_or_register_with_hf for an account not seen before.
HfLogin(r, h) ==
    /\ reqs[r].op = "idle"
    /\ WithHf(h) = {}
    /\ Begin(r, "hf", 0, [NoUser EXCEPT !.email = HfEmail[h], !.hf = h],
             {g \in {h} : \E q \in InFlight("hf") : reqs[q].doc.hf = g})

\* The requests that will rewrite document i.
Rewriting(i) == {q \in Requests : reqs[q].id = i}

\* change_password by someone who knows the old password.
ChangePassword(r, i, p) ==
    /\ reqs[r].op = "idle"
    /\ Exists(i) /\ HasPassword(users[i])
    /\ Begin(r, "change", i, [users[i] EXCEPT !.password = p],
             {j \in {i} : Rewriting(j) # {}})

\* Mutant: the charged document is built anew, with the fields the worker knows.
RecordJobStarted_Anew(user) == [user EXCEPT !.used = @ + 1, !.password = None]

RecordJobStarted(user) == [user EXCEPT !.used = @ + 1]

\* JobPoller reads the user of the job it starts.  There is one worker.
Charge(r, i) ==
    /\ reqs[r].op = "idle"
    /\ InFlight("charge") = {}
    /\ Exists(i) /\ promised[i].used < MaxUsed
    /\ Begin(r, "charge", i, RecordJobStarted(users[i]),
             {j \in {i} : Rewriting(j) # {}})

-----------------------------------------------------------------------------
(* The second half.                                                        *)

\* UserRepository.create, under an id nobody has.
Create(r, i) ==
    /\ reqs[r].op \in {"register", "hf"}
    /\ ~Exists(i)
    /\ users' = [users EXCEPT ![i] = reqs[r].doc]
    /\ promised' = [promised EXCEPT ![i] = [password |-> reqs[r].doc.password, used |-> 0]]
    /\ reqs' = [reqs EXCEPT ![r] = Idle]
    /\ UNCHANGED raced

\* UserRepository.update.
Update(r) ==
    LET i == reqs[r].id
    IN  /\ reqs[r].op \in {"change", "charge"}
        /\ users' = [users EXCEPT ![i] = reqs[r].doc]
        /\ promised' = IF reqs[r].op = "change"
                       THEN [promised EXCEPT ![i].password = reqs[r].doc.password]
                       ELSE [promised EXCEPT ![i].used = @ + 1]
        /\ reqs' = [reqs EXCEPT ![r] = Idle]
        /\ UNCHANGED raced

\* The instance is stopped, or the worker dies, between the two halves.
Abandon(r) ==
    /\ reqs[r].op # "idle"
    /\ reqs' = [reqs EXCEPT ![r] = Idle]
    /\ UNCHANGED <<users, promised, raced>>

Next ==
    \E r \in Requests :
        \/ \E e \in Emails, p \in Passwords : Register(r, e, p)
        \/ \E h \in HfIds : HfLogin(r, h)
        \/ \E i \in Ids, p \in Passwords : ChangePassword(r, i, p)
        \/ \E i \in Ids : Charge(r, i) \/ Create(r, i)
        \/ Update(r) \/ Abandon(r)

Spec == Init /\ [][Next]_vars

-----------------------------------------------------------------------------
(* Properties.                                                             *)

\* login_with_email(e, p) returns the account i.
LogsIn(e, p, i) == IsFirst(i, WithEmail(e)) /\ users[i].password = p

\* Another account made by a Hugging Face login has the email, and is found
\* instead of account i.
Shadowed(i) == \E j \in WithEmail(users[i].email) : users[j].hf # None /\ j < i

\* Who registered with an email gets into that account with the password last
\* set, and its quota counts every charge, whatever else was created or charged
\* meanwhile; unless two requests raced for the email or for the document, or a
\* Hugging Face account with the same email has the lower document id.
OwnerGetsIn ==
    \A i \in Ids :
        /\ promised[i].password # None
        /\ raced \cap {i, users[i].email} = {}
        /\ ~Shadowed(i)
        => /\ LogsIn(users[i].email, promised[i].password, i)
           /\ users[i].used = promised[i].used

\* A login that reaches an account keeps reaching that account (and its jobs
\* and quota), by email and by Hugging Face id, when nobody raced for it; by
\* email until a Hugging Face account with the same email is created.
LoginsStand ==
    [][\A i \in Ids :
         /\ \A h \in HfIds : IsFirst(i, WithHf(h)) => IsFirst(i, WithHf(h))' \/ h \in raced'
         /\ \A e \in Emails : IsFirst(i, WithEmail(e)) =>
                IsFirst(i, WithEmail(e))' \/ e \in raced' \/ \E j \in WithEmail(e)' : users'[j].hf # None]_vars

-----------------------------------------------------------------------------
(* What the comments say and the code does not do.                         *)

\* auth_service.py: the two ways to log in are independent, each with its own
\* account, so who registered with an email gets into that account with the
\* password last set, whoever logs in through Hugging Face.
AccountsIndependent ==
    \A i \in Ids : promised[i].password # None /\ raced = {}
        => LogsIn(users[i].email, promised[i].password, i)

\* auth_service.py: a registration of an email that is registered already is
\* rejected, so one account at most was made with it.
RegisteredOnce ==
    \A i, j \in Ids : /\ HasPassword(users[i]) /\ HasPassword(users[j])
                      /\ users[i].email = users[j].email
                      => i = j

=============================================================================
