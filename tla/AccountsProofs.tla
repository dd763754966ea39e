--------------------------- MODULE AccountsProofs ---------------------------
(***************************************************************************)
(* What Accounts promises, for any addresses, passwords, threads, processes *)
(* and bounds.                                                             *)
(***************************************************************************)
EXTENDS Accounts, TLAPS

-----------------------------------------------------------------------------
\* The inductive invariant.

\* The index does what MongoDB promises of it.
Indexed == unique => Distinct

\* An account is stored in lower case, or as Google spells it; the latter has no
\* password.
Spelled == \A i \in DOMAIN accounts :
  \/ accounts[i].email[2] = "lower"
  \/ accounts[i].email \in GoogleGives /\ accounts[i].pwd = None

\* A token belongs to an account of its address; one that was given for a
\* password, to the account in lower case with that password.
Held == \A k \in issued :
  /\ k.id \in DOMAIN accounts
  /\ accounts[k.id].email[1] = k.email[1]
  /\ k.pwd # None => accounts[k.id].email = Lower(k.email) /\ accounts[k.id].pwd = k.pwd

\* A request that has found an account, or will insert one, does so for Google or
\* for a password.
Tasks == \A t \in Threads :
  /\ At(t, "google", "link") =>
       task[t].id \in DOMAIN accounts /\ accounts[task[t].id].email = task[t].email
  /\ task[t].pc # "idle" =>
       /\ (task[t].kind = "google") = (task[t].pwd = None)
       /\ task[t].kind = "google" => task[t].email \in GoogleGives

AInv == TypeOK /\ Indexed /\ Spelled /\ Held /\ Tasks

-----------------------------------------------------------------------------
LEMMA LowerType ==
  ASSUME NEW e \in Emails
  PROVE  Lower(e) \in Emails /\ Lower(e)[1] = e[1] /\ Lower(e)[2] = "lower"
BY DEF Emails, Lower

\* Two e-mails in lower case with one address are the same.
LEMMA LowerSame ==
  ASSUME NEW e \in Emails, NEW f \in Emails,
         e[1] = f[1], e[2] = "lower", f[2] = "lower"
  PROVE  e = f
BY DEF Emails

\* The fields of a request.
LEMMA TaskFields ==
  ASSUME TypeOK, NEW t \in Threads, task[t].pc # "idle"
  PROVE  /\ task[t] \in Task
         /\ task[t].email \in Emails /\ task[t].pwd \in Passwords \cup {None}
         /\ task[t].kind \in Kinds /\ task[t].pc \in Pcs /\ task[t].id \in Nat
BY DEF TypeOK, Task, Idle

\* A request that ends disturbs no other.
LEMMA FinishTasks ==
  ASSUME AInv, NEW t \in Threads, Finish(t), UNCHANGED accounts
  PROVE  task' \in [Threads -> Task \cup {Idle}] /\ Tasks'
BY DEF AInv, TypeOK, Tasks, Finish, Idle, At

\* An inserted account.
Made(e, pwd, provider) == [email |-> e, pwd |-> pwd, provider |-> provider]

LEMMA InsertFacts ==
  ASSUME AInv, NEW e \in Emails, NEW pwd \in Passwords \cup {None},
         NEW provider \in {"email", "google"}, Insert(e, pwd, provider)
  PROVE  /\ accounts' \in Seq(Account)
         /\ Len(accounts') = Len(accounts) + 1
         /\ Len(accounts') \in Nat
         /\ DOMAIN accounts' = DOMAIN accounts \cup {Len(accounts')}
         /\ Len(accounts') \notin DOMAIN accounts
         /\ \A i \in DOMAIN accounts : accounts'[i] = accounts[i]
         /\ accounts'[Len(accounts')] = Made(e, pwd, provider)
         /\ unique => \A i \in DOMAIN accounts : accounts[i].email # e
<1>1. accounts \in Seq(Account) /\ Made(e, pwd, provider) \in Account
  BY DEF AInv, TypeOK, Account, Made
<1>2. accounts' = Append(accounts, Made(e, pwd, provider))
  BY DEF Insert, Made
<1>3. unique => \A i \in DOMAIN accounts : accounts[i].email # e
  BY DEF Insert, Found
<1>4. DOMAIN accounts = 1..Len(accounts) /\ Len(accounts) \in Nat
  BY <1>1
<1>5. accounts' \in Seq(Account) /\ Len(accounts') = Len(accounts) + 1
  BY <1>1, <1>2
<1>6. DOMAIN accounts' = 1..Len(accounts')
  BY <1>5
<1>7. \A i \in 1..Len(accounts) : accounts'[i] = accounts[i]
  BY <1>1, <1>2
<1>8. accounts'[Len(accounts) + 1] = Made(e, pwd, provider)
  BY <1>1, <1>2
<1> QED BY <1>3, <1>4, <1>5, <1>6, <1>7, <1>8

\* An insert, with the token given for it, keeps what is said of the accounts.
LEMMA InsertKeeps ==
  ASSUME AInv, NEW t \in Threads, NEW e \in Emails,
         task[t].pc # "idle",
         NEW provider \in {"email", "google"},
         e[1] = task[t].email[1],
         task[t].pwd # None => e = Lower(task[t].email),
         e[2] = "lower" \/ (e \in GoogleGives /\ task[t].pwd = None),
         Insert(e, task[t].pwd, provider), Issue(t, Len(accounts')),
         UNCHANGED <<unique, opened, requests, failures>>
  PROVE  AInv'
<1> DEFINE id == Len(accounts')
<1>1. task[t].email \in Emails /\ task[t].pwd \in Passwords \cup {None}
  BY TaskFields DEF AInv
<1>2. /\ accounts' \in Seq(Account) /\ id \in Nat
      /\ DOMAIN accounts' = DOMAIN accounts \cup {id} /\ id \notin DOMAIN accounts
      /\ \A i \in DOMAIN accounts : accounts'[i] = accounts[i]
      /\ accounts'[id] = Made(e, task[t].pwd, provider)
      /\ unique => \A i \in DOMAIN accounts : accounts[i].email # e
  BY <1>1, InsertFacts
<1>3. accounts'[id].email = e /\ accounts'[id].pwd = task[t].pwd
  BY <1>2 DEF Made
<1>4. task' \in [Threads -> Task \cup {Idle}]
  BY DEF AInv, TypeOK, Issue, Finish, Idle
<1>5. issued' \subseteq issued \cup {[email |-> task[t].email, pwd |-> task[t].pwd, id |-> id]}
  BY DEF Issue
<1>6. TypeOK'
  <2>1. [email |-> task[t].email, pwd |-> task[t].pwd, id |-> id] \in Token
    BY <1>1, <1>2 DEF Token
  <2>2. issued' \subseteq Token
    BY <1>5, <2>1 DEF AInv, TypeOK
  <2>3. /\ unique' \in BOOLEAN /\ opened' \in [Procs -> BOOLEAN]
        /\ requests' \in Nat /\ failures' \in Nat
    BY DEF AInv, TypeOK
  <2> QED BY <1>2, <1>4, <2>2, <2>3 DEF TypeOK
<1>7. Indexed'
  <2>1. SUFFICES ASSUME unique, NEW i \in DOMAIN accounts', NEW j \in DOMAIN accounts',
                        accounts'[i].email = accounts'[j].email
                 PROVE  i = j
    BY DEF Indexed, Distinct
  <2>2. CASE i \in DOMAIN accounts /\ j \in DOMAIN accounts
    BY <2>1, <2>2, <1>2 DEF AInv, Indexed, Distinct
  <2>3. CASE i = id \/ j = id
    BY <2>1, <2>3, <1>2, <1>3
  <2> QED BY <2>2, <2>3, <1>2
<1>8. Spelled'
  BY <1>2, <1>3 DEF AInv, Spelled
<1>9. Held'
  <2>1. SUFFICES ASSUME NEW k \in issued'
                 PROVE  /\ k.id \in DOMAIN accounts'
                        /\ accounts'[k.id].email[1] = k.email[1]
                        /\ k.pwd # None => /\ accounts'[k.id].email = Lower(k.email)
                                           /\ accounts'[k.id].pwd = k.pwd
    BY DEF Held, Lower
  <2>2. CASE k \in issued
    BY <2>2, <1>2 DEF AInv, Held
  <2>3. CASE k = [email |-> task[t].email, pwd |-> task[t].pwd, id |-> id]
    BY <2>3, <1>2, <1>3
  <2> QED BY <2>2, <2>3, <1>5
<1>10. Tasks'
  BY <1>2 DEF AInv, TypeOK, Tasks, Issue, Finish, Idle, At
<1> QED BY <1>6, <1>7, <1>8, <1>9, <1>10 DEF AInv

-----------------------------------------------------------------------------
\* The invariant holds at the start and is kept by every step.

LEMMA AInit == Init => AInv
BY DEF Init, AInv, TypeOK, Indexed, Distinct, Spelled, Held, Tasks, At, Idle

LEMMA AStep ==
  ASSUME AInv, AccountsAssumption, [Next]_vars
  PROVE  AInv'
<1>1. CASE UNCHANGED vars
  BY <1>1 DEF AInv, vars, TypeOK, Indexed, Distinct, Spelled, Held, Tasks, At, Lower
<1>2. ASSUME NEW t \in Threads, NEW kind \in Kinds, NEW e \in Emails,
             NEW pwd \in Passwords \cup {None}, Begin(t, kind, e, pwd)
      PROVE  AInv'
  <2> DEFINE r == [kind |-> kind, email |-> e, pwd |-> pwd, id |-> 0,
                   pc |-> IF opened[ProcOf[t]] THEN "lookup" ELSE "index"]
  <2>1. task' = [task EXCEPT ![t] = r]
    BY <1>2 DEF Begin
  <2>2. r \in Task
    BY DEF Task, Pcs
  <2>3. TypeOK'
    <3>1. task' \in [Threads -> Task \cup {Idle}]
      BY <2>1, <2>2 DEF AInv, TypeOK
    <3>2. opened' \in [Procs -> BOOLEAN] /\ requests' \in Nat
      BY <1>2 DEF AInv, TypeOK, Begin
    <3> QED BY <1>2, <3>1, <3>2 DEF AInv, TypeOK, Begin
  <2>4. (kind = "google") = (pwd = None) /\ (kind = "google" => e \in GoogleGives)
    BY <1>2 DEF Begin
  <2>5. Tasks'
    BY <1>2, <2>1, <2>4 DEF AInv, TypeOK, Tasks, At, Begin
  <2>6. Indexed' /\ Spelled' /\ Held'
    BY <1>2 DEF AInv, Indexed, Distinct, Spelled, Held, Lower, Begin
  <2> QED BY <2>3, <2>5, <2>6 DEF AInv
<1>3. ASSUME NEW t \in Threads, EnsureIndexes(t) PROVE AInv'
  <2>1. Indexed'
    BY <1>3 DEF EnsureIndexes, AInv, Indexed, Distinct
  <2>2. task[t] \in Task
    BY <1>3, TaskFields DEF EnsureIndexes, AInv
  <2>3. TypeOK'
    <3>1. [task[t] EXCEPT !.pc = "lookup"] \in Task
      BY <2>2 DEF Task, Pcs
    <3>2. task' = [task EXCEPT ![t] = [task[t] EXCEPT !.pc = "lookup"]]
      BY <1>3 DEF EnsureIndexes, Goto
    <3>3. task' \in [Threads -> Task \cup {Idle}]
      BY <3>1, <3>2 DEF AInv, TypeOK
    <3>4. unique' \in BOOLEAN
      <4>1. CASE unique' = (unique \/ Distinct)
        BY <4>1, Zenon
      <4>2. CASE UNCHANGED unique
        BY <4>2 DEF AInv, TypeOK
      <4> QED BY <1>3, <4>1, <4>2 DEF EnsureIndexes
    <3>5. failures' \in Nat
      BY <1>3 DEF EnsureIndexes, AInv, TypeOK
    <3>6. UNCHANGED <<accounts, opened, issued, requests>>
      BY <1>3 DEF EnsureIndexes
    <3> QED BY <3>3, <3>4, <3>5, <3>6 DEF AInv, TypeOK
  <2>4. Tasks'
    BY <1>3, <2>2 DEF EnsureIndexes, Goto, AInv, TypeOK, Tasks, At, Task
  <2>5. Spelled' /\ Held'
    BY <1>3 DEF EnsureIndexes, AInv, Spelled, Held, Lower
  <2> QED BY <2>1, <2>3, <2>4, <2>5 DEF AInv
<1>4. ASSUME NEW t \in Threads, Finish(t),
             UNCHANGED <<accounts, unique, opened, requests, failures>>, UNCHANGED issued
      PROVE  AInv'
  <2>1. task' \in [Threads -> Task \cup {Idle}] /\ Tasks'
    BY <1>4, FinishTasks
  <2> QED BY <1>4, <2>1 DEF AInv, TypeOK, Indexed, Distinct, Spelled, Held, Lower
<1>5. ASSUME NEW t \in Threads, Abort(t) PROVE AInv'
  BY <1>4, <1>5 DEF Abort
<1>6. ASSUME NEW t \in Threads, NEW pc \in Pcs, task[t].pc # "idle", pc # "link",
             Goto(t, pc),
             UNCHANGED <<accounts, unique, opened, requests, failures>>, UNCHANGED issued
      PROVE  AInv'
  <2>1. task[t] \in Task
    BY <1>6, TaskFields DEF AInv
  <2>2. task' \in [Threads -> Task \cup {Idle}]
    BY <1>6, <2>1 DEF Goto, AInv, TypeOK, Task
  <2>3. Tasks'
    BY <1>6, <2>1 DEF Goto, AInv, TypeOK, Tasks, At, Task
  <2> QED BY <1>6, <2>2, <2>3 DEF AInv, TypeOK, Indexed, Distinct, Spelled, Held, Lower
<1>7. ASSUME NEW t \in Threads, RegisterLookup(t) PROVE AInv'
  BY <1>4, <1>6, <1>7 DEF RegisterLookup, At, Pcs
<1>8. ASSUME NEW t \in Threads, RegisterInsert(t) PROVE AInv'
  <2>1. task[t].pc # "idle" /\ task[t].email \in Emails
    BY <1>8, TaskFields DEF RegisterInsert, At, AInv
  <2>2. /\ Lower(task[t].email) \in Emails
        /\ Lower(task[t].email)[1] = task[t].email[1]
        /\ Lower(task[t].email)[2] = "lower"
    BY <2>1, LowerType
  <2> QED BY <1>8, <2>1, <2>2, InsertKeeps DEF RegisterInsert
\* A token for an account that was found.
<1>9. ASSUME NEW t \in Threads, NEW i \in DOMAIN accounts, task[t].pc # "idle",
             accounts[i].email[1] = task[t].email[1],
             task[t].pwd # None => accounts[i].email = Lower(task[t].email)
                                   /\ accounts[i].pwd = task[t].pwd,
             Issue(t, i), UNCHANGED <<accounts, unique, opened, requests, failures>>
      PROVE  AInv'
  <2>1. task[t].email \in Emails /\ task[t].pwd \in Passwords \cup {None}
    BY <1>9, TaskFields DEF AInv
  <2>2. i \in Nat
    BY DEF AInv, TypeOK
  <2>3. issued' \subseteq issued \cup {[email |-> task[t].email, pwd |-> task[t].pwd, id |-> i]}
    BY <1>9 DEF Issue
  <2>4. task' \in [Threads -> Task \cup {Idle}] /\ Tasks'
    BY <1>9, FinishTasks DEF Issue
  <2>5. TypeOK'
    BY <1>9, <2>1, <2>2, <2>3, <2>4 DEF AInv, TypeOK, Token
  <2>6. Held'
    <3>1. SUFFICES ASSUME NEW k \in issued'
                   PROVE  /\ k.id \in DOMAIN accounts
                          /\ accounts[k.id].email[1] = k.email[1]
                          /\ k.pwd # None => /\ accounts[k.id].email = Lower(k.email)
                                             /\ accounts[k.id].pwd = k.pwd
      BY <1>9 DEF Held, Lower
    <3>2. CASE k \in issued
      BY <3>2 DEF AInv, Held
    <3>3. CASE k = [email |-> task[t].email, pwd |-> task[t].pwd, id |-> i]
      BY <3>3, <1>9
    <3> QED BY <3>2, <3>3, <2>3
  <2>7. Indexed' /\ Spelled'
    BY <1>9 DEF AInv, Indexed, Distinct, Spelled
  <2> QED BY <2>4, <2>5, <2>6, <2>7 DEF AInv
<1>10. ASSUME NEW t \in Threads, Login(t) PROVE AInv'
  <2>1. task[t].pc # "idle" /\ task[t].email \in Emails
    BY <1>10, TaskFields DEF Login, At, AInv
  <2>2. CASE \E i \in Found(Lower(task[t].email)) :
               accounts[i].pwd = task[t].pwd /\ Issue(t, i)
    <3>1. PICK i \in Found(Lower(task[t].email)) :
               accounts[i].pwd = task[t].pwd /\ Issue(t, i)
      BY <2>2
    <3>2. i \in DOMAIN accounts /\ accounts[i].email = Lower(task[t].email)
      BY <3>1 DEF Found
    <3>3. accounts[i].email[1] = task[t].email[1]
      BY <2>1, <3>2, LowerType
    <3>4. UNCHANGED <<accounts, unique, opened, requests, failures>>
      BY <1>10 DEF Login
    <3> QED BY <1>9, <2>1, <3>1, <3>2, <3>3, <3>4
  <2>3. CASE Finish(t) /\ UNCHANGED issued
    BY <1>4, <1>10, <2>3 DEF Login
  <2> QED BY <1>10, <2>2, <2>3 DEF Login
<1>11. ASSUME NEW t \in Threads, GoogleLookup(t) PROVE AInv'
  <2>1. /\ task[t].pc # "idle" /\ task[t].kind = "google"
        /\ UNCHANGED <<accounts, unique, opened, requests, failures>>
    BY <1>11 DEF GoogleLookup, At
  <2>2. CASE Goto(t, "insert") /\ UNCHANGED issued
    BY <1>6, <2>1, <2>2 DEF Pcs
  <2>3. ASSUME NEW i \in Found(task[t].email),
               task' = [task EXCEPT ![t].pc = "link", ![t].id = i], UNCHANGED issued
        PROVE  AInv'
    <3>1. task[t] \in Task /\ i \in DOMAIN accounts /\ i \in Nat
          /\ accounts[i].email = task[t].email
      BY <2>1, TaskFields DEF Found, AInv, TypeOK
    <3>2. task' = [task EXCEPT ![t] = [task[t] EXCEPT !.pc = "link", !.id = i]]
      BY <2>3, <3>1 DEF AInv, TypeOK, Task
    <3>3. [task[t] EXCEPT !.pc = "link", !.id = i] \in Task
      BY <3>1 DEF Task, Pcs
    <3>4. task' \in [Threads -> Task \cup {Idle}]
      BY <3>2, <3>3 DEF AInv, TypeOK
    <3>5. Tasks'
      BY <2>1, <3>1, <3>2 DEF AInv, TypeOK, Tasks, At, Task
    <3> QED BY <2>1, <2>3, <3>4, <3>5 DEF AInv, TypeOK, Indexed, Distinct, Spelled, Held, Lower
  <2>4. ASSUME NEW i \in Found(task[t].email), Issue(t, i) PROVE AInv'
    <3>1. i \in DOMAIN accounts /\ accounts[i].email = task[t].email
      BY DEF Found
    <3>2. task[t].pwd = None
      BY <2>1 DEF AInv, Tasks
    <3> QED BY <1>9, <2>1, <2>4, <3>1, <3>2
  <2> QED BY <1>11, <2>2, <2>3, <2>4 DEF GoogleLookup
<1>12. ASSUME NEW t \in Threads, GoogleLink(t) PROVE AInv'
  <2> DEFINE i == task[t].id
  <2>1. /\ task[t].pc # "idle" /\ i \in DOMAIN accounts /\ task[t].pwd = None
        /\ accounts[i].email = task[t].email /\ accounts \in Seq(Account)
    BY <1>12 DEF GoogleLink, At, AInv, Tasks, TypeOK
  <2>2. accounts' = [accounts EXCEPT ![i].provider = "google"]
    BY <1>12 DEF GoogleLink
  <2>3. /\ accounts' \in Seq(Account) /\ DOMAIN accounts' = DOMAIN accounts
        /\ \A j \in DOMAIN accounts : /\ accounts'[j].email = accounts[j].email
                                      /\ accounts'[j].pwd = accounts[j].pwd
    <3>1. accounts[i] \in Account
      BY <2>1
    <3>2. [accounts[i] EXCEPT !.provider = "google"] \in Account
      BY <3>1 DEF Account
    <3>3. accounts' = [accounts EXCEPT ![i] = [accounts[i] EXCEPT !.provider = "google"]]
      BY <2>1, <2>2
    <3>4. accounts' \in Seq(Account) /\ DOMAIN accounts' = DOMAIN accounts
      BY <2>1, <3>2, <3>3
    <3>5. \A j \in DOMAIN accounts : accounts[j] \in Account
      BY <2>1
    <3> QED BY <3>1, <3>3, <3>4, <3>5 DEF Account
  <2>4. i \in Nat /\ task[t].email \in Emails
    BY <2>1, TaskFields DEF AInv
  <2>5. issued' \subseteq issued \cup {[email |-> task[t].email, pwd |-> None, id |-> i]}
    BY <1>12, <2>1 DEF GoogleLink, Issue
  <2>6. task' \in [Threads -> Task \cup {Idle}]
    BY <1>12 DEF GoogleLink, Issue, Finish, AInv, TypeOK
  <2>7. TypeOK'
    BY <1>12, <2>3, <2>4, <2>5, <2>6 DEF GoogleLink, AInv, TypeOK, Token
  <2>8. Tasks'
    BY <1>12, <2>3 DEF GoogleLink, Issue, Finish, AInv, TypeOK, Tasks, At, Idle
  <2>9. Indexed'
    BY <1>12, <2>3 DEF GoogleLink, AInv, Indexed, Distinct
  <2>10. Spelled'
    BY <2>3 DEF AInv, Spelled
  <2>11. Held'
    <3>1. \A k \in issued : k.id \in DOMAIN accounts
      BY DEF AInv, Held
    <3>2. \A k \in issued' \ issued :
            k.email = task[t].email /\ k.pwd = None /\ k.id = i
      BY <2>5
    <3> QED BY <2>1, <2>3, <3>1, <3>2 DEF AInv, Held, Lower
  <2> QED BY <2>7, <2>8, <2>9, <2>10, <2>11 DEF AInv
<1>13. ASSUME NEW t \in Threads, GoogleInsert(t) PROVE AInv'
  <2>1. /\ task[t].pc # "idle" /\ task[t].email \in Emails
        /\ task[t].pwd = None /\ task[t].email \in GoogleGives
    BY <1>13, TaskFields DEF GoogleInsert, At, AInv, Tasks
  <2> QED BY <1>13, <2>1, InsertKeeps DEF GoogleInsert
<1> QED
  BY <1>1, <1>2, <1>3, <1>5, <1>7, <1>8, <1>10, <1>11, <1>12, <1>13 DEF Next, Step

-----------------------------------------------------------------------------
\* The invariant is one of the specification.
THEOREM AInvariant == Spec => []AInv
<1>1. AInv /\ [Next]_vars => AInv'
  BY AStep, AccountsAssumption
<1> QED BY AInit, <1>1, PTL DEF Spec

\* Every variable keeps its type.
THEOREM AccountsTyped == Spec => []TypeOK
<1>1. AInv => TypeOK
  BY DEF AInv
<1> QED BY AInvariant, <1>1, PTL

\* Once the unique index exists, an e-mail and a password that were accepted once
\* are accepted in any spelling, and lead to the same account.
THEOREM PasswordsHold == Spec => []RegisteredCanLogIn
<1>1. AInv => RegisteredCanLogIn
  BY DEF AInv, Indexed, Distinct, Held, RegisteredCanLogIn, Found
<1> QED BY AInvariant, <1>1, PTL

\* Once the unique index exists, every way to sign in with an address that Google
\* spells in lower case leads to one account.
THEOREM OneAccount == Spec => []OneAccountPerAddress
<1>1. ASSUME AInv PROVE OneAccountPerAddress
  <2>1. SUFFICES ASSUME unique, NEW k \in issued, NEW l \in issued,
                        k.email[1] = l.email[1],
                        <<k.email[1], "mixed">> \notin GoogleGives
                 PROVE  k.id = l.id
    BY DEF OneAccountPerAddress
  <2>2. /\ k.id \in DOMAIN accounts /\ l.id \in DOMAIN accounts
        /\ accounts[k.id].email[1] = accounts[l.id].email[1]
    BY <1>1, <2>1 DEF AInv, Held
  <2>3. /\ accounts[k.id].email \in Emails /\ accounts[l.id].email \in Emails
    <3>1. accounts \in Seq(Account)
      BY <1>1 DEF AInv, TypeOK
    <3>2. accounts[k.id] \in Account /\ accounts[l.id] \in Account
      BY <2>2, <3>1
    <3> QED BY <3>2 DEF Account
  <2>4. \A e \in Emails : e[2] = "lower" \/ e = <<e[1], "mixed">>
    BY DEF Emails
  <2>5. accounts[k.id].email[1] = k.email[1]
    BY <1>1 DEF AInv, Held
  <2>6. accounts[k.id].email[2] = "lower" /\ accounts[l.id].email[2] = "lower"
    BY <1>1, <2>1, <2>2, <2>3, <2>4, <2>5 DEF AInv, Spelled
  <2>7. accounts[k.id].email = accounts[l.id].email
    BY <2>2, <2>3, <2>6, LowerSame
  <2> QED BY <1>1, <2>1, <2>2, <2>7 DEF AInv, Indexed, Distinct
<1> QED BY AInvariant, <1>1, PTL

=============================================================================
