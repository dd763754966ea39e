------------------------------ MODULE Credits -------------------------------
(***************************************************************************)
(* The credit balance of a user document, and the two kinds of request     *)
(* handler that write it: the chat routes of routes/v1/rag_chat.py, which  *)
(* burn one credit per answer, and the Stripe webhook of                   *)
(* routes/v1/billing.py, which adds a plan's credits.                      *)
(*                                                                         *)
(* A handler is a gunicorn thread.  Every MongoDB call is a step of its    *)
(* own; between two calls of one handler the others may run.  Both kinds   *)
(* of handler read the balance, keep the number, and later store an        *)
(* absolute value computed from it (update_user_credits is a $set).        *)
(***************************************************************************)
EXTENDS Naturals, Sequences, FiniteSets, FiniteSetsExt

CONSTANTS
  Users,
  Handlers,        \* gunicorn threads, over all worker processes
  Events,          \* Stripe events
  Buyer,           \* Buyer[e]: the user_id in the event's metadata
  Amount,          \* Amount[e]: PLANS[plan].credits; 0 when the event is of
                   \* another type or lacks a user or a known plan
  SignupCredits,   \* create_user's 100
  RetryDays,       \* days during which Stripe redelivers an event
  TtlDays,         \* days after which processed_events forgets an event
  FaultBudget,     \* FaultBudget[k]: how many faults of kind k may happen
  NoUser, NoEvent

CONSTANTS          \* bounds of the instance
  MaxPerUser,      \* requests of one user in flight at once
  MaxExchanges,    \* saved exchanges of one user after which it stops asking
  MaxAttempts,     \* deliveries of one event
  MaxDay

FaultKinds == {"crash",   \* the handler dies between two steps
               "read",    \* find_one raises inside get_user_by_id
               "index"}   \* create_index raises inside the webhook

ASSUME CreditsAssumption ==
  /\ Buyer \in [Events -> Users]
  /\ Amount \in [Events -> Nat]
  /\ FaultBudget \in [FaultKinds -> Nat]
  /\ SignupCredits \in Nat /\ RetryDays \in Nat /\ TtlDays \in Nat
  /\ MaxPerUser \in Nat /\ MaxExchanges \in Nat /\ MaxAttempts \in Nat
  /\ MaxDay \in Nat
  /\ RetryDays + 1 < TtlDays     \* Stripe gives up after days, the TTL is 30
  /\ NoUser \notin Users /\ NoEvent \notin Events

ASSUME FiniteHandlers == IsFiniteSet(Handlers)

VARIABLES
  credits,       \* users.credits
  processed,     \* processed[e]: receivedAt of the processed_events documents
                 \* of e, oldest first
  uniqueIndex,   \* processed_events has its unique index on event_id
  ttlIndex,      \* ... and its TTL index on receivedAt
  task,          \* task[h]: the request handler h works on
  exchanges,     \* exchanges[u]: prompt/answer pairs saved for u
  burned,        \* burned[u]: CREDIT_BURN increments
  applied,       \* applied[e]: times e's credits were written
  paidAt,        \* paidAt[e]: day Stripe created e, or Unpaid
  attempts,      \* attempts[e]: deliveries of e so far
  acked,         \* events Stripe got a 2xx for
  today,
  faults         \* faults[k]: faults of kind k so far

money   == <<credits, burned, exchanges, applied>>
store   == <<processed, uniqueIndex, ttlIndex>>
stripe  == <<paidAt, attempts, acked, today>>
vars    == <<money, store, stripe, task, faults>>

Unpaid == MaxDay + 1

Pcs == {"idle", "answering", "charging", "index", "insert", "read", "grant"}

\* user: the user charged or credited; seen: the balance read earlier;
\* since: the day the request came in.
Task == [pc : Pcs, user : Users \cup {NoUser}, event : Events \cup {NoEvent},
         seen : Nat, since : 0..MaxDay]

Idle == [pc |-> "idle", user |-> NoUser, event |-> NoEvent,
         seen |-> 0, since |-> 0]

MoneyOK ==
  /\ credits \in [Users -> Nat] /\ burned \in [Users -> Nat]
  /\ exchanges \in [Users -> Nat] /\ applied \in [Events -> Nat]

StoreOK ==
  /\ processed \in [Events -> Seq(0..MaxDay)]
  /\ uniqueIndex \in BOOLEAN /\ ttlIndex \in BOOLEAN

StripeOK ==
  /\ paidAt \in [Events -> 0..Unpaid] /\ attempts \in [Events -> Nat]
  /\ acked \subseteq Events
  /\ today \in 0..MaxDay

\* A handler has a user and an event exactly when its place in the code needs
\* them, and only an event that grants credits gets past the insert.
TaskOK ==
  /\ task \in [Handlers -> Task]
  /\ \A h \in Handlers :
       /\ task[h].pc = "idle" => task[h] = Idle
       /\ task[h].pc \in {"answering", "charging"} =>
            task[h].user \in Users /\ task[h].event = NoEvent
       /\ task[h].pc \in {"index", "insert", "read", "grant"} =>
            task[h].event \in Events /\ task[h].user = Buyer[task[h].event]
       /\ task[h].pc \in {"read", "grant"} => Amount[task[h].event] > 0

TypeOK == MoneyOK /\ StoreOK /\ StripeOK /\ TaskOK /\ faults \in [FaultKinds -> Nat]

Init ==
  /\ credits = [u \in Users |-> SignupCredits]
  /\ processed = [e \in Events |-> <<>>]
  /\ uniqueIndex = FALSE /\ ttlIndex = FALSE
  /\ task = [h \in Handlers |-> Idle]
  /\ exchanges = [u \in Users |-> 0] /\ burned = [u \in Users |-> 0]
  /\ applied = [e \in Events |-> 0]
  /\ paidAt = [e \in Events |-> Unpaid] /\ attempts = [e \in Events |-> 0]
  /\ acked = {}
  /\ today = 0
  /\ faults = [k \in FaultKinds |-> 0]

-----------------------------------------------------------------------------
\* Faults and admission.

MayFail(k) == faults[k] < FaultBudget[k]
Fail(k)    == MayFail(k) /\ faults' = [faults EXCEPT ![k] = @ + 1]

InFlight(u) == {h \in Handlers : task[h].user = u}

Admit(h, u) == /\ task[h].pc = "idle"
               /\ Cardinality(InFlight(u)) < MaxPerUser

Finish(h) == task' = [task EXCEPT ![h] = Idle]

-----------------------------------------------------------------------------
\* The chat routes: POST /chat, /chat/stream and /chat/upload.

\* _check_credits.  A balance of 0 is refused with a 402; when the user
\* cannot be read nothing is checked, and the handler goes on without a user.
CheckCredits(h, u) ==
  /\ Admit(h, u)
  /\ exchanges[u] < MaxExchanges
  /\ LET Answering(n) == task' = [task EXCEPT ![h] =
           [pc |-> "answering", user |-> u, event |-> NoEvent,
            seen |-> n, since |-> today]]
     IN \/ credits[u] > 0 /\ Answering(credits[u]) /\ UNCHANGED faults
        \/ Fail("read") /\ Answering(0)
  /\ UNCHANGED <<money, store, stripe>>

\* Retrieval and generation are over and _persist_chat_messages has run.
PersistAnswer(h) ==
  /\ task[h].pc = "answering"
  /\ exchanges' = [exchanges EXCEPT ![task[h].user] = @ + 1]
  /\ task' = [task EXCEPT ![h].pc = "charging"]
  /\ UNCHANGED <<credits, burned, applied, store, stripe, faults>>

\* The request ends before anything is saved: an invalid upload, a 202 in
\* Celery mode, a chat id that cannot be written, or a client that closes the
\* stream while the generator is suspended at a yield.
LeaveUncharged(h) ==
  /\ task[h].pc = "answering"
  /\ Finish(h)
  /\ UNCHANGED <<money, store, stripe, faults>>

\* Variant of Charge: the decrement is stored without testing the balance read.
ChargeUnchecked(h) ==
  /\ task[h].pc = "charging"
  /\ LET u == task[h].user
     IN credits' = [credits EXCEPT ![u] = task[h].seen - 1]
        /\ burned' = [burned EXCEPT ![u] = @ + 1]
  /\ Finish(h)
  /\ UNCHANGED <<exchanges, applied, store, stripe, faults>>

\* Variant of Charge: a compare-and-set that gives up when the balance moved.
ChargeIfUnchanged(h) ==
  /\ task[h].pc = "charging"
  /\ LET u == task[h].user
     IN IF task[h].seen > 0 /\ credits[u] = task[h].seen
        THEN /\ credits' = [credits EXCEPT ![u] = @ - 1]
             /\ burned' = [burned EXCEPT ![u] = @ + 1]
        ELSE UNCHANGED <<credits, burned>>
  /\ Finish(h)
  /\ UNCHANGED <<exchanges, applied, store, stripe, faults>>

\* The charge: the balance read by CheckCredits, less one, is stored.
Charge(h) ==
  /\ task[h].pc = "charging"
  /\ LET u == task[h].user
     IN IF task[h].seen > 0
        THEN /\ credits' = [credits EXCEPT ![u] = task[h].seen - 1]
             /\ burned' = [burned EXCEPT ![u] = @ + 1]
        ELSE UNCHANGED <<credits, burned>>
  /\ Finish(h)
  /\ UNCHANGED <<exchanges, applied, store, stripe, faults>>

-----------------------------------------------------------------------------
\* Stripe, as billing.py uses it: a completed checkout becomes an event, which
\* is delivered at least once and redelivered for RetryDays.

Pay(e) == /\ paidAt[e] = Unpaid
          /\ paidAt' = [paidAt EXCEPT ![e] = today]
          /\ UNCHANGED <<attempts, acked, today, money, store, task, faults>>

Deliverable(e) == /\ paidAt[e] <= today
                  /\ today <= paidAt[e] + RetryDays
                  /\ attempts[e] < MaxAttempts

Deliver(h, e) ==
  /\ Deliverable(e)
  /\ Admit(h, Buyer[e])
  /\ attempts' = [attempts EXCEPT ![e] = @ + 1]
  /\ task' = [task EXCEPT ![h] = [pc |-> "index", user |-> Buyer[e],
                event |-> e, seen |-> 0, since |-> today]]
  /\ UNCHANGED <<paidAt, acked, today, money, store, faults>>

\* A day passes.  No request outlives two midnights (its calls of MongoDB and
\* of the model have timeouts of seconds), and a first delivery is not put off to the next day.
Tick ==
  /\ today < MaxDay
  /\ \A h \in Handlers : task[h].pc # "idle" => task[h].since = today
  /\ \A e \in Events : paidAt[e] # Unpaid => attempts[e] > 0
  /\ today' = today + 1
  /\ UNCHANGED <<paidAt, attempts, acked, money, store, task, faults>>

-----------------------------------------------------------------------------
\* The webhook.

\* _ensure_processed_events_index: two create_index calls; an exception in
\* either is logged and swallowed.  The unique index cannot be built over
\* duplicate documents.
Buildable == uniqueIndex \/ \A e \in Events : Len(processed[e]) <= 1

EnsureIndex(h) ==
  /\ task[h].pc = "index"
  /\ task' = [task EXCEPT ![h].pc = "insert"]
  /\ \/ Buildable /\ uniqueIndex' = TRUE /\ ttlIndex' = TRUE /\ UNCHANGED faults
     \/ Buildable /\ uniqueIndex' = TRUE /\ UNCHANGED ttlIndex /\ Fail("index")
     \/ UNCHANGED <<uniqueIndex, ttlIndex>> /\ Fail("index")
     \/ ~Buildable /\ UNCHANGED <<uniqueIndex, ttlIndex, faults>>
  /\ UNCHANGED <<processed, money, stripe>>

Duplicate(e) == uniqueIndex /\ processed[e] # <<>>

\* insert_one raises DuplicateKeyError: answered 200, nothing else happens.
RejectDuplicate(h) ==
  /\ task[h].pc = "insert"
  /\ Duplicate(task[h].event)
  /\ acked' = acked \cup {task[h].event}
  /\ Finish(h)
  /\ UNCHANGED <<paidAt, attempts, today, money, store, faults>>

Inserted(h) ==
  LET e == task[h].event
  IN /\ processed' = [processed EXCEPT ![e] = Append(@, today)]
     /\ IF Amount[e] > 0
        THEN /\ task' = [task EXCEPT ![h].pc = "read"]
             /\ UNCHANGED acked
        ELSE /\ Finish(h)
             /\ acked' = acked \cup {e}
     /\ UNCHANGED <<uniqueIndex, ttlIndex, paidAt, attempts, today, money, faults>>

\* Variant of InsertEvent: goes on whether or not the event is a duplicate.
InsertAnyEvent(h) == task[h].pc = "insert" /\ Inserted(h)

\* Variant of InsertEvent: returns once the event is recorded.
InsertAndReturn(h) ==
  /\ task[h].pc = "insert"
  /\ ~Duplicate(task[h].event)
  /\ processed' = [processed EXCEPT ![task[h].event] = Append(@, today)]
  /\ Finish(h)
  /\ UNCHANGED <<uniqueIndex, ttlIndex, stripe, money, faults>>

\* insert_one succeeds.  Only a completed checkout with a user and a known
\* plan goes on; any other event is answered 200.
InsertEvent(h) == /\ task[h].pc = "insert"
                  /\ ~Duplicate(task[h].event)
                  /\ Inserted(h)

\* get_user_by_id; a failed read counts as a balance of 0.
ReadBalance(h) ==
  /\ task[h].pc = "read"
  /\ \/ /\ task' = [task EXCEPT ![h].pc = "grant", ![h].seen = credits[task[h].user]]
        /\ UNCHANGED faults
     \/ /\ task' = [task EXCEPT ![h].pc = "grant", ![h].seen = 0]
        /\ Fail("read")
  /\ UNCHANGED <<money, store, stripe>>

\* Variant of GrantCredits: stores the plan's credits alone.
GrantOverwrites(h) ==
  /\ task[h].pc = "grant"
  /\ LET e == task[h].event
     IN /\ credits' = [credits EXCEPT ![task[h].user] = Amount[e]]
        /\ applied' = [applied EXCEPT ![e] = @ + 1]
        /\ acked' = acked \cup {e}
  /\ Finish(h)
  /\ UNCHANGED <<burned, exchanges, store, paidAt, attempts, today, faults>>

\* update_user_credits with the balance read plus the plan's credits, then 200.
GrantCredits(h) ==
  /\ task[h].pc = "grant"
  /\ LET u == task[h].user
         e == task[h].event
     IN /\ credits' = [credits EXCEPT ![u] = task[h].seen + Amount[e]]
        /\ applied' = [applied EXCEPT ![e] = @ + 1]
        /\ acked' = acked \cup {e}
  /\ Finish(h)
  /\ UNCHANGED <<burned, exchanges, store, paidAt, attempts, today, faults>>

-----------------------------------------------------------------------------
\* The environment of the handlers.

\* A worker is killed, or a MongoDB call raises: what was written stays, the
\* rest of the handler never runs, and Stripe gets no 2xx.
Crash(h) ==
  /\ task[h].pc # "idle"
  /\ Fail("crash")
  /\ Finish(h)
  /\ UNCHANGED <<money, store, stripe>>

\* Variant of Expire: forgets a document after Stripe's retry window.
ExpireEarly(e) ==
  /\ ttlIndex
  /\ processed[e] # <<>>
  /\ Head(processed[e]) + RetryDays <= today
  /\ processed' = [processed EXCEPT ![e] = Tail(@)]
  /\ UNCHANGED <<uniqueIndex, ttlIndex, money, stripe, task, faults>>

\* MongoDB's TTL monitor removes a document TtlDays after receivedAt.
Expire(e) ==
  /\ ttlIndex
  /\ processed[e] # <<>>
  /\ Head(processed[e]) + TtlDays <= today
  /\ processed' = [processed EXCEPT ![e] = Tail(@)]
  /\ UNCHANGED <<uniqueIndex, ttlIndex, money, stripe, task, faults>>

\* Nothing more can happen within the bounds.
Done == /\ \A h \in Handlers : task[h] = Idle
        /\ today = MaxDay
        /\ UNCHANGED vars

ChatStep(h) == PersistAnswer(h) \/ LeaveUncharged(h) \/ Charge(h)

WebhookStep(h) == \/ EnsureIndex(h) \/ RejectDuplicate(h) \/ InsertEvent(h)
                  \/ ReadBalance(h) \/ GrantCredits(h)

Next ==
  \/ \E h \in Handlers : \/ ChatStep(h) \/ WebhookStep(h) \/ Crash(h)
                         \/ \E u \in Users : CheckCredits(h, u)
                         \/ \E e \in Events : Deliver(h, e)
  \/ \E e \in Events : Pay(e) \/ Expire(e)
  \/ Tick
  \/ Done

Spec == Init /\ [][Next]_vars

\* gunicorn lets every request it has taken run; a delivery waits in the listen
\* queue for a free thread, so it is served however often the threads are busy.
FairSpec ==
  /\ Spec
  /\ \A h \in Handlers : WF_vars(ChatStep(h)) /\ WF_vars(WebhookStep(h))
  /\ \A e \in Events : SF_vars(\E h \in Handlers : Deliver(h, e))
-----------------------------------------------------------------------------
\* Properties.

Handling(e) == {h \in Handlers : task[h].event = e}
Charging(u) == {h \in Handlers : task[h].user = u /\ task[h].pc = "charging"}

\* A redelivered or concurrently delivered event never adds its credits twice
\* (billing.py: "retries never double-credit").  It needs the unique index, and
\* the record of the event to live longer than Stripe's retries.
CreditedAtMostOnce == \A e \in Events : applied[e] <= 1

\* As long as an event whose credits were written can still be delivered, or a
\* handler still holds a delivery of it, its processed_events document exists.
RecordOutlivesRetries ==
  \A e \in Events : applied[e] > 0 /\ (Deliverable(e) \/ Handling(e) # {})
                      => processed[e] # <<>>

\* However stale the balances that handlers store are, nobody ever holds more
\* than the signup allowance plus the plans paid for.
PaidBy(u) == {e \in Events : Buyer[e] = u /\ paidAt[e] # Unpaid}
BalanceBacked ==
  \A u \in Users :
    credits[u] <= SignupCredits + MapThenSumSet(LAMBDA e : Amount[e], PaidBy(u))

\* CREDIT_BURN never counts an exchange that was not saved, and a saved exchange
\* goes uncounted only while its handler is about to charge it, or because a
\* handler died or a balance could not be read.
ExchangesAccounted ==
  \A u \in Users :
    /\ burned[u] <= exchanges[u]
    /\ exchanges[u] <= burned[u] + Cardinality(Charging(u))
                                 + faults["crash"] + faults["read"]

\* Once no request of a user is in flight, the balance is the signup allowance
\* plus the credits written for purchases minus the credits burned.  (Concurrent
\* requests of one user break it.)
Settled(u) == InFlight(u) = {}
AppliedTo(u) == MapThenSumSet(LAMBDA e : applied[e] * Amount[e],
                              {e \in Events : Buyer[e] = u})
BalanceSettled ==
  \A u \in Users :
    Settled(u) => credits[u] + burned[u] = SignupCredits + AppliedTo(u)

\* A purchase "increments the user's credits" (docs/API.md): once no request of
\* the user is in flight, the credits written for purchases are in the balance or
\* were burned.  (A chat that read the balance before a grant and stores it after
\* breaks it.)
GrantsKept ==
  \A u \in Users :
    Settled(u) => credits[u] + burned[u] >= SignupCredits + AppliedTo(u)

\* Every purchase is credited in the end.
PurchasesCredited ==
  \A e \in Events : (paidAt[e] # Unpaid /\ Amount[e] > 0) ~> applied[e] > 0

\* When requests of one user do not overlap and nothing fails, the handlers
\* implement the ledger.
Sales == {e \in Events : Amount[e] > 0}
Promise == INSTANCE Ledger WITH
  Purchases <- Sales,
  balance   <- credits,
  owed      <- {e \in Sales : paidAt[e] # Unpaid /\ applied[e] = 0},
  settled   <- {e \in Sales : applied[e] > 0}
ImplementsLedger == Promise!Spec

=============================================================================
