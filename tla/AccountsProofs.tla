--------------------------- MODULE AccountsProofs ---------------------------
(***************************************************************************)
(* What holds of the user documents for all numbers of users and requests. *)
(* The argument: a request that nobody raced still sees what it read.      *)
(***************************************************************************)
EXTENDS Accounts, TLAPS

Rewrites(r) == reqs[r].op \in {"change", "charge"}

\* What a request in flight carries: a new account with no id yet, or a document
\* that exists, with its email and provider.
CarryInv ==
    \A r \in Requests :
        /\ reqs[r].op \in {"idle", "register", "hf"} => reqs[r].id = 0
        /\ reqs[r].op = "register" =>
             HasPassword(reqs[r].doc) /\ reqs[r].doc.email # None /\ reqs[r].doc.hf = None
        /\ reqs[r].op = "hf" => ~HasPassword(reqs[r].doc) /\ reqs[r].doc.hf # None
        /\ reqs[r].op \in {"register", "hf"} => reqs[r].doc.used = 0
        /\ Rewrites(r) =>
             /\ reqs[r].id \in Ids
             /\ Exists(reqs[r].id)
             /\ reqs[r].doc.email = users[reqs[r].id].email
             /\ reqs[r].doc.hf = users[reqs[r].id].hf
             /\ HasPassword(reqs[r].doc) <=> HasPassword(users[reqs[r].id])
        /\ reqs[r].op = "change" => HasPassword(reqs[r].doc)

\* The email that a request is about to register is free, if nobody raced for it.
EmailFree ==
    \A r \in Requests :
        reqs[r].op = "register" /\ reqs[r].doc.email \notin raced =>
            /\ \A i \in Ids : HasPassword(users[i]) => users[i].email # reqs[r].doc.email
            /\ \A q \in Requests \ {r} :
                 reqs[q].op = "register" => reqs[q].doc.email # reqs[r].doc.email

\* And so is the Hugging Face id of a first login.
HfFree ==
    \A r \in Requests :
        reqs[r].op = "hf" /\ reqs[r].doc.hf \notin raced =>
            /\ \A i \in Ids : users[i].hf # reqs[r].doc.hf
            /\ \A q \in Requests \ {r} :
                 reqs[q].op = "hf" => reqs[q].doc.hf # reqs[r].doc.hf

\* Two email accounts share an email only if two registrations raced for it.
OneEmail ==
    \A i, j \in Ids :
        /\ i # j
        /\ HasPassword(users[i]) /\ HasPassword(users[j])
        /\ users[i].email = users[j].email
        => users[i].email \in raced

OneHf ==
    \A i, j \in Ids :
        i # j /\ users[i].hf # None /\ users[i].hf = users[j].hf => users[i].hf \in raced

\* A rewrite that nobody raced is alone, and its document is the stored one but
\* for the field it sets.
RewriteInv ==
    \A r \in Requests :
        Rewrites(r) /\ reqs[r].id \notin raced =>
            /\ \A q \in Requests \ {r} : reqs[q].id # reqs[r].id
            /\ reqs[r].op = "change" => reqs[r].doc.used = users[reqs[r].id].used
            /\ reqs[r].op = "charge" => /\ reqs[r].doc.password = users[reqs[r].id].password
                                        /\ reqs[r].doc.used = users[reqs[r].id].used + 1

\* A document nobody raced for holds what the finished requests add up to.
PromiseInv ==
    \A i \in Ids :
        /\ HasPassword(users[i]) <=> promised[i].password # None
        /\ i \notin raced => /\ users[i].password = promised[i].password
                             /\ users[i].used = promised[i].used

AccountsInv ==
    TypeOK /\ CarryInv /\ EmailFree /\ HfFree /\ OneEmail /\ OneHf /\ RewriteInv /\ PromiseInv

LEMMA Init_Inv == Init => AccountsInv
  BY AccountsAssumption DEF Init, AccountsInv, TypeOK, CarryInv, EmailFree, HfFree, OneEmail,
     OneHf, RewriteInv, PromiseInv, Rewrites, Exists, HasPassword, User, NoUser, Idle

LEMMA TypeStep == TypeOK /\ CarryInv /\ [Next]_vars => TypeOK'
  <1> SUFFICES ASSUME TypeOK /\ CarryInv, [Next]_vars PROVE TypeOK'
    OBVIOUS
  <1> USE AccountsAssumption DEF TypeOK, CarryInv, Rewrites, Exists, HasPassword, User, NoUser
  <1>1. ASSUME NEW r \in Requests, NEW e \in Emails, NEW p \in Passwords, Register(r, e, p) PROVE TypeOK'
    BY <1>1 DEF Register, Begin, WithEmail, InFlight
  <1>2. ASSUME NEW r \in Requests, NEW h \in HfIds, HfLogin(r, h) PROVE TypeOK'
    BY <1>2 DEF HfLogin, Begin, WithHf, InFlight
  <1>3. ASSUME NEW r \in Requests, NEW i \in Ids, NEW p \in Passwords, ChangePassword(r, i, p) PROVE TypeOK'
    <2>1. [users[i] EXCEPT !.password = p] \in User
      OBVIOUS
    <2>2. reqs' \in [Requests -> [op : {"idle", "register", "hf", "change", "charge"},
                                  id : Ids \cup {0}, doc : User]]
      BY <1>3, <2>1 DEF ChangePassword, Begin
    <2>3. raced' \subseteq Emails \cup HfIds \cup Ids /\ UNCHANGED <<users, promised>>
      BY <1>3 DEF ChangePassword, Begin
    <2> QED
      BY <2>2, <2>3
  <1>4. ASSUME NEW r \in Requests, NEW i \in Ids, Charge(r, i) PROVE TypeOK'
    BY <1>4 DEF Charge, Begin, Rewriting, RecordJobStarted
  <1>5. ASSUME NEW r \in Requests, NEW i \in Ids, Create(r, i) PROVE TypeOK'
    BY <1>5 DEF Create, Idle
  <1>6. ASSUME NEW r \in Requests, Update(r) PROVE TypeOK'
    <2> DEFINE i == reqs[r].id
    <2>1. i \in Ids /\ reqs[r].doc \in User /\ Exists(i)
      BY <1>6 DEF Update
    <2>2. users' = [users EXCEPT ![i] = reqs[r].doc] /\ UNCHANGED raced
      BY <1>6 DEF Update
    <2>3. reqs' \in [Requests -> [op : {"idle", "register", "hf", "change", "charge"},
                                  id : Ids \cup {0}, doc : User]]
      BY <1>6 DEF Update, Idle
    <2>4. promised' \in [Ids -> [password : Passwords \cup {None}, used : Nat]]
      <3>1. CASE reqs[r].op = "change"
        BY <1>6, <2>1, <3>1 DEF Update
      <3>2. CASE reqs[r].op = "charge"
        BY <1>6, <2>1, <3>2 DEF Update
      <3> QED
        BY <1>6, <3>1, <3>2 DEF Update
    <2>5. \A j \in Ids : Exists(j)' =>
             (HasPassword(users'[j]) <=> users'[j].hf = None)
                /\ (HasPassword(users'[j]) => users'[j].email # None)
      BY <1>6, <2>1, <2>2 DEF Update
    <2> QED
      BY <2>1, <2>2, <2>3, <2>4, <2>5
  <1>7. ASSUME NEW r \in Requests, Abandon(r) PROVE TypeOK'
    BY <1>7 DEF Abandon, Idle
  <1>8. ASSUME UNCHANGED vars PROVE TypeOK'
    BY <1>8 DEF vars
  <1> QED
    BY <1>1, <1>2, <1>3, <1>4, <1>5, <1>6, <1>7, <1>8 DEF Next

LEMMA CarryStep == TypeOK /\ CarryInv /\ [Next]_vars => CarryInv'
  <1> SUFFICES ASSUME TypeOK /\ CarryInv, [Next]_vars PROVE CarryInv'
    OBVIOUS
  <1> USE AccountsAssumption DEF TypeOK, CarryInv, Rewrites, Exists, HasPassword, User, NoUser
  <1>1. ASSUME NEW r \in Requests, NEW e \in Emails, NEW p \in Passwords, Register(r, e, p) PROVE CarryInv'
    BY <1>1 DEF Register, Begin, WithEmail, InFlight
  <1>2. ASSUME NEW r \in Requests, NEW h \in HfIds, HfLogin(r, h) PROVE CarryInv'
    BY <1>2 DEF HfLogin, Begin, WithHf, InFlight
  <1>3. ASSUME NEW r \in Requests, NEW i \in Ids, NEW p \in Passwords, ChangePassword(r, i, p) PROVE CarryInv'
    BY <1>3 DEF ChangePassword, Begin, Rewriting
  <1>4. ASSUME NEW r \in Requests, NEW i \in Ids, Charge(r, i) PROVE CarryInv'
    BY <1>4 DEF Charge, Begin, Rewriting, RecordJobStarted
  <1>5. ASSUME NEW r \in Requests, NEW i \in Ids, Create(r, i) PROVE CarryInv'
    BY <1>5 DEF Create, Idle
  <1>6. ASSUME NEW r \in Requests, Update(r) PROVE CarryInv'
    BY <1>6 DEF Update, Idle
  <1>7. ASSUME NEW r \in Requests, Abandon(r) PROVE CarryInv'
    BY <1>7 DEF Abandon, Idle
  <1>8. ASSUME UNCHANGED vars PROVE CarryInv'
    BY <1>8 DEF vars
  <1> QED
    BY <1>1, <1>2, <1>3, <1>4, <1>5, <1>6, <1>7, <1>8 DEF Next

LEMMA EmailFreeStep == TypeOK /\ CarryInv /\ EmailFree /\ [Next]_vars => EmailFree'
  <1> SUFFICES ASSUME TypeOK /\ CarryInv /\ EmailFree, [Next]_vars PROVE EmailFree'
    OBVIOUS
  <1> USE AccountsAssumption DEF TypeOK, CarryInv, EmailFree, Rewrites, Exists, HasPassword, User, NoUser
  <1>1. ASSUME NEW r \in Requests, NEW e \in Emails, NEW p \in Passwords, Register(r, e, p) PROVE EmailFree'
    BY <1>1 DEF Register, Begin, WithEmail, InFlight
  <1>2. ASSUME NEW r \in Requests, NEW h \in HfIds, HfLogin(r, h) PROVE EmailFree'
    BY <1>2 DEF HfLogin, Begin, WithHf, InFlight
  <1>3. ASSUME NEW r \in Requests, NEW i \in Ids, NEW p \in Passwords, ChangePassword(r, i, p) PROVE EmailFree'
    BY <1>3 DEF ChangePassword, Begin, Rewriting
  <1>4. ASSUME NEW r \in Requests, NEW i \in Ids, Charge(r, i) PROVE EmailFree'
    BY <1>4 DEF Charge, Begin, Rewriting, RecordJobStarted
  <1>5. ASSUME NEW r \in Requests, NEW i \in Ids, Create(r, i) PROVE EmailFree'
    BY <1>5 DEF Create, Idle
  <1>6. ASSUME NEW r \in Requests, Update(r) PROVE EmailFree'
    BY <1>6 DEF Update, Idle
  <1>7. ASSUME NEW r \in Requests, Abandon(r) PROVE EmailFree'
    BY <1>7 DEF Abandon, Idle
  <1>8. ASSUME UNCHANGED vars PROVE EmailFree'
    BY <1>8 DEF vars
  <1> QED
    BY <1>1, <1>2, <1>3, <1>4, <1>5, <1>6, <1>7, <1>8 DEF Next

LEMMA HfFreeStep == TypeOK /\ CarryInv /\ HfFree /\ [Next]_vars => HfFree'
  <1> SUFFICES ASSUME TypeOK /\ CarryInv /\ HfFree, [Next]_vars PROVE HfFree'
    OBVIOUS
  <1> USE AccountsAssumption DEF TypeOK, CarryInv, HfFree, Rewrites, Exists, HasPassword, User, NoUser
  <1>1. ASSUME NEW r \in Requests, NEW e \in Emails, NEW p \in Passwords, Register(r, e, p) PROVE HfFree'
    BY <1>1 DEF Register, Begin, WithEmail, InFlight
  <1>2. ASSUME NEW r \in Requests, NEW h \in HfIds, HfLogin(r, h) PROVE HfFree'
    BY <1>2 DEF HfLogin, Begin, WithHf, InFlight
  <1>3. ASSUME NEW r \in Requests, NEW i \in Ids, NEW p \in Passwords, ChangePassword(r, i, p) PROVE HfFree'
    BY <1>3 DEF ChangePassword, Begin, Rewriting
  <1>4. ASSUME NEW r \in Requests, NEW i \in Ids, Charge(r, i) PROVE HfFree'
    BY <1>4 DEF Charge, Begin, Rewriting, RecordJobStarted
  <1>5. ASSUME NEW r \in Requests, NEW i \in Ids, Create(r, i) PROVE HfFree'
    BY <1>5 DEF Create, Idle
  <1>6. ASSUME NEW r \in Requests, Update(r) PROVE HfFree'
    BY <1>6 DEF Update, Idle
  <1>7. ASSUME NEW r \in Requests, Abandon(r) PROVE HfFree'
    BY <1>7 DEF Abandon, Idle
  <1>8. ASSUME UNCHANGED vars PROVE HfFree'
    BY <1>8 DEF vars
  <1> QED
    BY <1>1, <1>2, <1>3, <1>4, <1>5, <1>6, <1>7, <1>8 DEF Next

LEMMA OneEmailStep == TypeOK /\ CarryInv /\ EmailFree /\ OneEmail /\ [Next]_vars => OneEmail'
  <1> SUFFICES ASSUME TypeOK /\ CarryInv /\ EmailFree /\ OneEmail, [Next]_vars PROVE OneEmail'
    OBVIOUS
  <1> USE AccountsAssumption DEF TypeOK, CarryInv, EmailFree, OneEmail, Rewrites, Exists, HasPassword, User, NoUser
  <1>1. ASSUME NEW r \in Requests, NEW e \in Emails, NEW p \in Passwords, Register(r, e, p) PROVE OneEmail'
    BY <1>1 DEF Register, Begin, WithEmail, InFlight
  <1>2. ASSUME NEW r \in Requests, NEW h \in HfIds, HfLogin(r, h) PROVE OneEmail'
    BY <1>2 DEF HfLogin, Begin, WithHf, InFlight
  <1>3. ASSUME NEW r \in Requests, NEW i \in Ids, NEW p \in Passwords, ChangePassword(r, i, p) PROVE OneEmail'
    BY <1>3 DEF ChangePassword, Begin, Rewriting
  <1>4. ASSUME NEW r \in Requests, NEW i \in Ids, Charge(r, i) PROVE OneEmail'
    BY <1>4 DEF Charge, Begin, Rewriting, RecordJobStarted
  <1>5. ASSUME NEW r \in Requests, NEW i \in Ids, Create(r, i) PROVE OneEmail'
    BY <1>5 DEF Create, Idle
  <1>6. ASSUME NEW r \in Requests, Update(r) PROVE OneEmail'
    BY <1>6 DEF Update, Idle
  <1>7. ASSUME NEW r \in Requests, Abandon(r) PROVE OneEmail'
    BY <1>7 DEF Abandon, Idle
  <1>8. ASSUME UNCHANGED vars PROVE OneEmail'
    BY <1>8 DEF vars
  <1> QED
    BY <1>1, <1>2, <1>3, <1>4, <1>5, <1>6, <1>7, <1>8 DEF Next

LEMMA OneHfStep == TypeOK /\ CarryInv /\ HfFree /\ OneHf /\ [Next]_vars => OneHf'
  <1> SUFFICES ASSUME TypeOK /\ CarryInv /\ HfFree /\ OneHf, [Next]_vars PROVE OneHf'
    OBVIOUS
  <1> USE AccountsAssumption DEF TypeOK, CarryInv, HfFree, OneHf, Rewrites, Exists, HasPassword, User, NoUser
  <1>1. ASSUME NEW r \in Requests, NEW e \in Emails, NEW p \in Passwords, Register(r, e, p) PROVE OneHf'
    BY <1>1 DEF Register, Begin, WithEmail, InFlight
  <1>2. ASSUME NEW r \in Requests, NEW h \in HfIds, HfLogin(r, h) PROVE OneHf'
    BY <1>2 DEF HfLogin, Begin, WithHf, InFlight
  <1>3. ASSUME NEW r \in Requests, NEW i \in Ids, NEW p \in Passwords, ChangePassword(r, i, p) PROVE OneHf'
    BY <1>3 DEF ChangePassword, Begin, Rewriting
  <1>4. ASSUME NEW r \in Requests, NEW i \in Ids, Charge(r, i) PROVE OneHf'
    BY <1>4 DEF Charge, Begin, Rewriting, RecordJobStarted
  <1>5. ASSUME NEW r \in Requests, NEW i \in Ids, Create(r, i) PROVE OneHf'
    <2>1. /\ \A j \in Ids \ {i} : users'[j] = users[j]
          /\ users'[i] = reqs[r].doc /\ raced' = raced
      BY <1>5 DEF Create
    <2>2. CASE reqs[r].op = "register"
      <3>1. users'[i].hf = None
        BY <2>1, <2>2
      <3> SUFFICES ASSUME NEW j \in Ids, NEW k \in Ids, j # k,
                          users'[j].hf # None, users'[j].hf = users'[k].hf
                   PROVE  users'[j].hf \in raced'
        OBVIOUS
      <3>2. users'[j] = users[j] /\ users'[k] = users[k]
        BY <2>1, <3>1
      <3>3. users[j].hf # None /\ users[j].hf = users[k].hf
        BY <3>2
      <3>4. users[j].hf \in raced
        <4> HIDE DEF TypeOK, CarryInv, HfFree
        <4> QED
          BY <3>3
      <3> QED
        BY <2>1, <3>2, <3>4
    <2>3. CASE reqs[r].op = "hf"
      <3>1. reqs[r].doc.hf \in raced \/ \A j \in Ids : users[j].hf # reqs[r].doc.hf
        BY <2>3
      <3> QED
        BY <2>1, <3>1
    <2> QED
      BY <1>5, <2>2, <2>3 DEF Create
  <1>6. ASSUME NEW r \in Requests, Update(r) PROVE OneHf'
    BY <1>6 DEF Update, Idle
  <1>7. ASSUME NEW r \in Requests, Abandon(r) PROVE OneHf'
    BY <1>7 DEF Abandon, Idle
  <1>8. ASSUME UNCHANGED vars PROVE OneHf'
    BY <1>8 DEF vars
  <1> QED
    BY <1>1, <1>2, <1>3, <1>4, <1>5, <1>6, <1>7, <1>8 DEF Next

LEMMA RewriteStep == TypeOK /\ CarryInv /\ RewriteInv /\ [Next]_vars => RewriteInv'
  <1> SUFFICES ASSUME TypeOK /\ CarryInv /\ RewriteInv, [Next]_vars PROVE RewriteInv'
    OBVIOUS
  <1> USE AccountsAssumption DEF TypeOK, CarryInv, RewriteInv, Rewrites, Exists, HasPassword, User, NoUser
  <1>1. ASSUME NEW r \in Requests, NEW e \in Emails, NEW p \in Passwords, Register(r, e, p) PROVE RewriteInv'
    BY <1>1 DEF Register, Begin, WithEmail, InFlight
  <1>2. ASSUME NEW r \in Requests, NEW h \in HfIds, HfLogin(r, h) PROVE RewriteInv'
    BY <1>2 DEF HfLogin, Begin, WithHf, InFlight
  <1>3. ASSUME NEW r \in Requests, NEW i \in Ids, NEW p \in Passwords, ChangePassword(r, i, p) PROVE RewriteInv'
    BY <1>3 DEF ChangePassword, Begin, Rewriting
  <1>4. ASSUME NEW r \in Requests, NEW i \in Ids, Charge(r, i) PROVE RewriteInv'
    BY <1>4 DEF Charge, Begin, Rewriting, RecordJobStarted
  <1>5. ASSUME NEW r \in Requests, NEW i \in Ids, Create(r, i) PROVE RewriteInv'
    BY <1>5 DEF Create, Idle
  <1>6. ASSUME NEW r \in Requests, Update(r) PROVE RewriteInv'
    BY <1>6 DEF Update, Idle
  <1>7. ASSUME NEW r \in Requests, Abandon(r) PROVE RewriteInv'
    BY <1>7 DEF Abandon, Idle
  <1>8. ASSUME UNCHANGED vars PROVE RewriteInv'
    BY <1>8 DEF vars
  <1> QED
    BY <1>1, <1>2, <1>3, <1>4, <1>5, <1>6, <1>7, <1>8 DEF Next

LEMMA PromiseStep == TypeOK /\ CarryInv /\ RewriteInv /\ PromiseInv /\ [Next]_vars => PromiseInv'
  <1> SUFFICES ASSUME TypeOK /\ CarryInv /\ RewriteInv /\ PromiseInv, [Next]_vars PROVE PromiseInv'
    OBVIOUS
  <1> USE AccountsAssumption DEF TypeOK, CarryInv, RewriteInv, PromiseInv, Rewrites, Exists, HasPassword, User, NoUser
  <1>1. ASSUME NEW r \in Requests, NEW e \in Emails, NEW p \in Passwords, Register(r, e, p) PROVE PromiseInv'
    BY <1>1 DEF Register, Begin, WithEmail, InFlight
  <1>2. ASSUME NEW r \in Requests, NEW h \in HfIds, HfLogin(r, h) PROVE PromiseInv'
    BY <1>2 DEF HfLogin, Begin, WithHf, InFlight
  <1>3. ASSUME NEW r \in Requests, NEW i \in Ids, NEW p \in Passwords, ChangePassword(r, i, p) PROVE PromiseInv'
    BY <1>3 DEF ChangePassword, Begin, Rewriting
  <1>4. ASSUME NEW r \in Requests, NEW i \in Ids, Charge(r, i) PROVE PromiseInv'
    BY <1>4 DEF Charge, Begin, Rewriting, RecordJobStarted
  <1>5. ASSUME NEW r \in Requests, NEW i \in Ids, Create(r, i) PROVE PromiseInv'
    BY <1>5 DEF Create, Idle
  <1>6. ASSUME NEW r \in Requests, Update(r) PROVE PromiseInv'
    <2>1. CASE reqs[r].op = "change"
      BY <1>6, <2>1 DEF Update
    <2>2. CASE reqs[r].op = "charge"
      BY <1>6, <2>2 DEF Update
    <2> QED
      BY <1>6, <2>1, <2>2 DEF Update
  <1>7. ASSUME NEW r \in Requests, Abandon(r) PROVE PromiseInv'
    BY <1>7 DEF Abandon, Idle
  <1>8. ASSUME UNCHANGED vars PROVE PromiseInv'
    BY <1>8 DEF vars
  <1> QED
    BY <1>1, <1>2, <1>3, <1>4, <1>5, <1>6, <1>7, <1>8 DEF Next

\* The invariant holds of every reachable state.
THEOREM AccountsInvHolds == Spec => []AccountsInv
  <1>1. AccountsInv /\ [Next]_vars => AccountsInv'
    BY TypeStep, CarryStep, EmailFreeStep, HfFreeStep, OneEmailStep, OneHfStep, RewriteStep,
       PromiseStep DEF AccountsInv
  <1> QED
    BY Init_Inv, <1>1, PTL DEF Spec

\* Every document has the fields of its provider, with any number of requests
\* to AuthService and charges by the worker in flight.
THEOREM AccountsTypeOK == Spec => []TypeOK
  <1>1. AccountsInv => TypeOK
    BY DEF AccountsInv
  <1> QED
    BY AccountsInvHolds, <1>1, PTL

\* Who registered by email logs in with the password last set and is charged
\* what the worker charged, whatever AuthService does meanwhile, but for races
\* and a Hugging Face account with the same email.
THEOREM OwnerGetsInHolds == Spec => []OwnerGetsIn
  <1>1. AccountsInv => OwnerGetsIn
    <2> SUFFICES ASSUME AccountsInv,
                        NEW i \in Ids,
                        promised[i].password # None,
                        raced \cap {i, users[i].email} = {},
                        ~Shadowed(i)
                 PROVE  /\ LogsIn(users[i].email, promised[i].password, i)
                        /\ users[i].used = promised[i].used
      BY DEF OwnerGetsIn
    <2> USE DEF AccountsInv, HasPassword
    <2>1. i \notin raced /\ users[i].email \notin raced
      OBVIOUS
    <2>2. HasPassword(users[i]) /\ users[i].password = promised[i].password
      BY <2>1 DEF PromiseInv
    <2>3. Exists(i)
      BY <2>2 DEF Exists, NoUser
    <2>4. ASSUME NEW j \in WithEmail(users[i].email) PROVE i <= j
      <3>1. j \in Ids /\ Exists(j) /\ users[j].email = users[i].email
        BY DEF WithEmail
      <3>2. CASE HasPassword(users[j])
        BY <2>1, <2>2, <3>1, <3>2, AccountsAssumption DEF OneEmail
      <3>3. CASE ~HasPassword(users[j])
        <4>1. users[j].hf # None
          BY <3>1, <3>3 DEF TypeOK
        <4> QED
          BY <3>1, <4>1, AccountsAssumption DEF Shadowed
      <3> QED
        BY <3>2, <3>3
    <2>5. IsFirst(i, WithEmail(users[i].email))
      BY <2>3, <2>4 DEF IsFirst, WithEmail
    <2> QED
      BY <2>1, <2>2, <2>5 DEF LogsIn, PromiseInv
  <1> QED
    BY AccountsInvHolds, <1>1, PTL

\* No step of AuthService or the worker takes a login to another account, but
\* for races and a Hugging Face account with the same email.
THEOREM LoginsStandHolds == Spec => LoginsStand
  <1> DEFINE HfStands == \A i \in Ids, h \in HfIds :
                 IsFirst(i, WithHf(h)) => IsFirst(i, WithHf(h))' \/ h \in raced'
             EmailStands == \A i \in Ids, e \in Emails :
                 IsFirst(i, WithEmail(e)) =>
                     \/ IsFirst(i, WithEmail(e))' \/ e \in raced'
                     \/ \E j \in WithEmail(e)' : users'[j].hf # None
  <1>1. AccountsInv /\ [Next]_vars => HfStands /\ EmailStands
    <2> SUFFICES ASSUME AccountsInv, [Next]_vars PROVE HfStands /\ EmailStands
      OBVIOUS
    <2> USE AccountsAssumption
            DEF AccountsInv, TypeOK, CarryInv, IsFirst, WithHf, WithEmail, Exists, HasPassword,
                Rewrites, User, NoUser
    <2>1. CASE UNCHANGED <<users>>
      <3>1. raced \subseteq raced'
        BY DEF Next, Register, HfLogin, ChangePassword, Charge, Begin, Create, Update, Abandon, vars
      <3> QED
        BY <2>1, <3>1
    <2>2. ASSUME NEW r \in Requests, NEW k \in Ids, Create(r, k)
          PROVE  HfStands /\ EmailStands
      <3>1. HfStands
        <4> SUFFICES ASSUME NEW i \in Ids, NEW h \in HfIds, IsFirst(i, WithHf(h)), h \notin raced
                     PROVE  IsFirst(i, WithHf(h))'
          BY <2>2 DEF Create
        <4>1. users[i].hf = h /\ Exists(i) /\ k # i
          BY <2>2 DEF Create
        <4>2. reqs[r].doc.hf # h
          BY <2>2, <4>1 DEF Create, HfFree
        <4>3. \A j \in Ids \ {k} : users'[j] = users[j]
          BY <2>2 DEF Create
        <4>4. users'[k].hf # h
          BY <2>2, <4>2 DEF Create
        <4> QED
          BY <4>1, <4>3, <4>4
      <3>2. EmailStands
        <4> SUFFICES ASSUME NEW i \in Ids, NEW e \in Emails, IsFirst(i, WithEmail(e)), e \notin raced,
                            ~(\E j \in WithEmail(e)' : users'[j].hf # None)
                     PROVE  IsFirst(i, WithEmail(e))'
          BY <2>2 DEF Create
        <4>1. users[i].email = e /\ Exists(i) /\ k # i
          BY <2>2 DEF Create
        <4>2. \A j \in Ids \ {k} : users'[j] = users[j]
          BY <2>2 DEF Create
        <4>3. users'[k] = reqs[r].doc /\ users'[k] # NoUser
          BY <2>2 DEF Create
        <4>4. HasPassword(users[i])
          <5>1. users[i].hf = None
            BY <4>1, <4>2
          <5> QED
            BY <4>1, <5>1
        <4>5. users'[k].email # e
          <5>1. CASE reqs[r].op = "register"
            BY <4>1, <4>3, <4>4, <5>1 DEF EmailFree
          <5>2. CASE reqs[r].op = "hf"
            BY <4>3, <5>2
          <5> QED
            BY <2>2, <5>1, <5>2 DEF Create
        <4> QED
          BY <4>1, <4>2, <4>5
      <3> QED
        BY <3>1, <3>2
    <2>3. ASSUME NEW r \in Requests, Update(r) PROVE HfStands /\ EmailStands
      <3>1. \A j \in Ids : /\ users'[j].hf = users[j].hf /\ users'[j].email = users[j].email
                           /\ Exists(j) <=> users'[j] # NoUser
        BY <2>3 DEF Update
      <3> QED
        BY <3>1
    <2> QED
      BY <2>1, <2>2, <2>3 DEF Next, Register, HfLogin, ChangePassword, Charge, Begin, Abandon, vars
  <1>2. HfStands /\ EmailStands =>
          [\A i \in Ids :
            /\ \A h \in HfIds : IsFirst(i, WithHf(h)) => IsFirst(i, WithHf(h))' \/ h \in raced'
            /\ \A e \in Emails : IsFirst(i, WithEmail(e)) =>
                 IsFirst(i, WithEmail(e))' \/ e \in raced' \/ \E j \in WithEmail(e)' : users'[j].hf # None]_vars
    OBVIOUS
  <1> QED
    BY AccountsInvHolds, <1>1, <1>2, PTL DEF Spec, LoginsStand

=============================================================================
