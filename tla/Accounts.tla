------------------------------ MODULE Accounts ------------------------------
(***************************************************************************)
(* Accounts: registration, login and Google sign-in (rag/auth.py,          *)
(* routes/v1/auth.py) against the users collection.  A step is one call of *)
(* MongoDB; a handler looks an e-mail up and inserts an account later,     *)
(* after some tenths of a second of bcrypt or without them.  Each process  *)
(* builds the unique index on its first access, and swallows a failure.    *)
(*                                                                         *)
(* An e-mail is an address in one of two spellings: the schemas keep the   *)
(* case of the local part.  A password is a model value, never changed.    *)
(***************************************************************************)
EXTENDS Naturals, Sequences, FiniteSets

CONSTANTS
  Addresses, Passwords,
  GoogleGives,       \* the e-mails Google reports, as it spells them
  Threads, Procs,
  ProcOf,            \* ProcOf[t]: the gunicorn worker thread t belongs to
  None               \* no password

CONSTANTS            \* bounds of the instance
  MaxRequests, MaxIndexFailures

Emails == Addresses \X {"lower", "mixed"}

\* email.lower().strip()
Lower(e) == <<e[1], "lower">>

ASSUME AccountsAssumption ==
  /\ GoogleGives \subseteq Emails
  /\ ProcOf \in [Threads -> Procs]
  /\ None \notin Passwords
  /\ {MaxRequests, MaxIndexFailures} \subseteq Nat

VARIABLES
  accounts,          \* db.users, in the order of insertion; an id is a position
  unique,            \* the unique index on email exists
  opened,            \* opened[p]: _db is set in process p
  task,              \* task[t]: the request thread t works on
  issued,            \* the tokens given out: e-mail, password used, account
  requests, failures \* requests begun, index builds that failed

vars == <<accounts, unique, opened, task, issued, requests, failures>>

Kinds == {"register", "login", "google"}
Pcs   == {"index", "lookup", "insert", "link"}

Task == [kind : Kinds, pc : Pcs, email : Emails, pwd : Passwords \cup {None}, id : Nat]
Idle == [pc |-> "idle"]

Account == [email : Emails, pwd : Passwords \cup {None}, provider : {"email", "google"}]
Token   == [email : Emails, pwd : Passwords \cup {None}, id : Nat]

TypeOK ==
  /\ accounts \in Seq(Account)
  /\ unique \in BOOLEAN /\ opened \in [Procs -> BOOLEAN]
  /\ task \in [Threads -> Task \cup {Idle}]
  /\ issued \subseteq Token
  /\ requests \in Nat /\ failures \in Nat

\* A new deployment, or one whose index has been built before.
Init ==
  /\ accounts = <<>> /\ unique \in BOOLEAN
  /\ opened = [p \in Procs |-> FALSE]
  /\ task = [t \in Threads |-> Idle]
  /\ issued = {} /\ requests = 0 /\ failures = 0

-----------------------------------------------------------------------------
At(t, kind, pc) == task[t].pc = pc /\ task[t].kind = kind
Goto(t, pc)     == task' = [task EXCEPT ![t].pc = pc]
Finish(t)       == task' = [task EXCEPT ![t] = Idle]

\* What find_one({"email": e}) may return.
Found(e) == {i \in DOMAIN accounts : accounts[i].email = e}

\* No two accounts have one e-mail, so that a unique index can be built.
Distinct == \A i, j \in DOMAIN accounts : accounts[i].email = accounts[j].email => i = j

\* Variant of Insert: a duplicate is ignored, and the request goes on.
InsertIgnore(e, pwd, provider) ==
  accounts' = IF unique /\ Found(e) # {} THEN accounts
              ELSE Append(accounts, [email |-> e, pwd |-> pwd, provider |-> provider])

\* create_user: insert_one raises DuplicateKeyError when the unique index has
\* the e-mail.
Insert(e, pwd, provider) ==
  /\ unique => Found(e) = {}
  /\ accounts' = Append(accounts, [email |-> e, pwd |-> pwd, provider |-> provider])

\* generate_token, and the end of the request; the reply may be lost.
Issue(t, id) ==
  /\ \/ issued' = issued \cup {[email |-> task[t].email, pwd |-> task[t].pwd, id |-> id]}
     \/ UNCHANGED issued
  /\ Finish(t)

-----------------------------------------------------------------------------
\* A request arrives.  get_database: the first access of the process sets _db and
\* then builds the indexes; from there on other threads no longer wait for them.
Begin(t, kind, e, pwd) ==
  /\ task[t].pc = "idle" /\ requests < MaxRequests
  /\ kind = "google" => e \in GoogleGives
  /\ (kind = "google") = (pwd = None)
  /\ requests' = requests + 1
  /\ opened' = [opened EXCEPT ![ProcOf[t]] = TRUE]
  /\ task' = [task EXCEPT ![t] =
       [kind |-> kind, email |-> e, pwd |-> pwd, id |-> 0,
        pc |-> IF opened[ProcOf[t]] THEN "lookup" ELSE "index"]]
  /\ UNCHANGED <<accounts, unique, issued, failures>>

\* _ensure_indexes, in the try of get_database: it fails when two accounts have
\* one e-mail, or when the server is not ready, and is not tried again.
EnsureIndexes(t) ==
  /\ task[t].pc = "index"
  /\ \/ unique' = (unique \/ Distinct) /\ UNCHANGED failures
     \/ failures < MaxIndexFailures /\ failures' = failures + 1 /\ UNCHANGED unique
  /\ Goto(t, "lookup")
  /\ UNCHANGED <<accounts, opened, issued, requests>>

\* A thread killed or a database call that fails: the request ends with a 500.
Abort(t) ==
  /\ task[t].pc # "idle"
  /\ Finish(t)
  /\ UNCHANGED <<accounts, unique, opened, issued, requests, failures>>

\* register_user looks the e-mail up as it was typed ...
RegisterLookup(t) ==
  /\ At(t, "register", "lookup")
  /\ IF Found(task[t].email) = {} THEN Goto(t, "insert") ELSE Finish(t)
  /\ UNCHANGED <<accounts, unique, opened, issued, requests, failures>>

\* Variant of RegisterInsert: keeps the spelling that was typed.
RegisterAsTyped(t) ==
  /\ At(t, "register", "insert")
  /\ Insert(task[t].email, task[t].pwd, "email")
  /\ Issue(t, Len(accounts'))
  /\ UNCHANGED <<unique, opened, requests, failures>>

\* ... and inserts it in lower case.
RegisterInsert(t) ==
  /\ At(t, "register", "insert")
  /\ Insert(Lower(task[t].email), task[t].pwd, "email")
  /\ Issue(t, Len(accounts'))
  /\ UNCHANGED <<unique, opened, requests, failures>>

\* login_user: an account without a password rejects every one.
Login(t) ==
  /\ At(t, "login", "lookup")
  /\ \/ \E i \in Found(Lower(task[t].email)) :
          /\ accounts[i].pwd = task[t].pwd
          /\ Issue(t, i)
     \/ /\ \E i \in Found(Lower(task[t].email)) : accounts[i].pwd # task[t].pwd
        /\ Finish(t) /\ UNCHANGED issued
     \/ /\ Found(Lower(task[t].email)) = {}
        /\ Finish(t) /\ UNCHANGED issued
  /\ UNCHANGED <<accounts, unique, opened, requests, failures>>

\* google_auth: the e-mail is looked up as Google spells it.  An account that is
\* Google's already is signed in at once.
GoogleLookup(t) ==
  /\ At(t, "google", "lookup")
  /\ \/ /\ Found(task[t].email) = {}
        /\ Goto(t, "insert") /\ UNCHANGED issued
     \/ \E i \in Found(task[t].email) :
          \/ /\ accounts[i].provider # "google"
             /\ task' = [task EXCEPT ![t].pc = "link", ![t].id = i]
             /\ UNCHANGED issued
          \/ accounts[i].provider = "google" /\ Issue(t, i)
  /\ UNCHANGED <<accounts, unique, opened, requests, failures>>

\* Variant of GoogleLink: an account signed in through Google loses its password.
LinkWithoutPassword(t) ==
  /\ At(t, "google", "link")
  /\ accounts' = [accounts EXCEPT ![task[t].id].provider = "google",
                                  ![task[t].id].pwd = None]
  /\ Issue(t, task[t].id)
  /\ UNCHANGED <<unique, opened, requests, failures>>

\* Variant of GoogleLink: provider and providerId exchanged.
LinkSwapped(t) ==
  /\ At(t, "google", "link")
  /\ accounts' = [accounts EXCEPT ![task[t].id].provider = "sub"]
  /\ Issue(t, task[t].id)
  /\ UNCHANGED <<unique, opened, requests, failures>>

\* update_user_provider sets provider and providerId and leaves the password.
GoogleLink(t) ==
  /\ At(t, "google", "link")
  /\ accounts' = [accounts EXCEPT ![task[t].id].provider = "google"]
  /\ Issue(t, task[t].id)
  /\ UNCHANGED <<unique, opened, requests, failures>>

\* A first sign-in creates the account, with the e-mail as Google spells it.
GoogleInsert(t) ==
  /\ At(t, "google", "insert")
  /\ Insert(task[t].email, None, "google")
  /\ Issue(t, Len(accounts'))
  /\ UNCHANGED <<unique, opened, requests, failures>>

Step(t) == \/ EnsureIndexes(t) \/ Abort(t)
           \/ RegisterLookup(t) \/ RegisterInsert(t) \/ Login(t)
           \/ GoogleLookup(t) \/ GoogleLink(t) \/ GoogleInsert(t)

Next == \E t \in Threads :
  \/ \E kind \in Kinds, e \in Emails, pwd \in Passwords \cup {None} : Begin(t, kind, e, pwd)
  \/ Step(t)

Spec == Init /\ [][Next]_vars
-----------------------------------------------------------------------------
\* Properties.  Without the unique index two requests can insert one e-mail twice
\* (and then it can never be built); with it, what was promised holds.

\* Whoever registered, or logged in, with an e-mail and a password can log in with
\* them in any spelling, and gets the same account, whatever sign-ins came since:
\* login_user finds that account and no other.
RegisteredCanLogIn ==
  unique => \A k \in issued : k.pwd # None =>
    /\ Found(Lower(k.email)) = {k.id}
    /\ accounts[k.id].pwd = k.pwd

\* Registration, login and Google sign-in of one address lead to one account, so
\* that its chats, documents and credits are never split, if Google spells the
\* address in lower case.  (google_auth looks up and stores what Google gives.)
OneAccountPerAddress ==
  unique => \A k, l \in issued :
    k.email[1] = l.email[1] /\ <<k.email[1], "mixed">> \notin GoogleGives => k.id = l.id

=============================================================================
