---------------------------- MODULE CreditsProofs ----------------------------
(***************************************************************************)
(* What the handlers of Credits keep true for any number of users, threads *)
(* and events: types first, then that no event is credited twice.          *)
(***************************************************************************)
EXTENDS Credits, FiniteSetTheorems, TLAPS

-----------------------------------------------------------------------------
\* Types.

LEMMA InitTypeOK == Init => TypeOK
<1> USE CreditsAssumption DEF CreditsAssumption, Init
<1> SUFFICES ASSUME Init PROVE TypeOK
  OBVIOUS
<1>1. MoneyOK
  BY DEF MoneyOK
<1>2. StoreOK
  <2>1. <<>> \in Seq(0..MaxDay)
    OBVIOUS
  <2> QED
    BY <2>1 DEF StoreOK
<1>3. StripeOK
  BY DEF StripeOK, Unpaid
<1>4. TaskOK
  BY DEF TaskOK, Task, Idle, Pcs
<1>5. faults \in [FaultKinds -> Nat]
  BY DEF FaultKinds
<1> QED
  BY <1>1, <1>2, <1>3, <1>4, <1>5 DEF TypeOK

\* A fault leaves the fault counters numbers.
LEMMA FailOK ==
  ASSUME faults \in [FaultKinds -> Nat], NEW k \in FaultKinds, Fail(k)
  PROVE  faults' \in [FaultKinds -> Nat]
  BY DEF Fail

\* A handler that ends leaves every handler in a legal place.
LEMMA FinishOK ==
  ASSUME TaskOK, NEW h \in Handlers, Finish(h)
  PROVE  TaskOK'
  BY CreditsAssumption DEF CreditsAssumption, TaskOK, Task, Pcs, Idle, Finish

LEMMA NextTypeOK == TypeOK /\ [Next]_vars => TypeOK'
<1> SUFFICES ASSUME TypeOK, [Next]_vars PROVE TypeOK'
  OBVIOUS
<1> USE CreditsAssumption DEF CreditsAssumption, TypeOK
<1>1. ASSUME NEW h \in Handlers, NEW u \in Users, CheckCredits(h, u) PROVE TypeOK'
  <2>1. faults' \in [FaultKinds -> Nat]
    BY <1>1, FailOK DEF CheckCredits, FaultKinds
  <2>2. TaskOK'
    BY <1>1 DEF CheckCredits, TaskOK, Task, Pcs, Admit, MoneyOK, StripeOK
  <2>3. MoneyOK' /\ StoreOK' /\ StripeOK'
    BY <1>1 DEF CheckCredits, money, store, stripe, MoneyOK, StoreOK, StripeOK
  <2> QED
    BY <2>1, <2>2, <2>3
<1>2. ASSUME NEW h \in Handlers, PersistAnswer(h) PROVE TypeOK'
  <2>1. TaskOK' /\ faults' \in [FaultKinds -> Nat]
    BY <1>2 DEF PersistAnswer, TaskOK, Task, Pcs, Idle
  <2>2. MoneyOK'
    BY <1>2 DEF PersistAnswer, MoneyOK, TaskOK
  <2>3. StoreOK' /\ StripeOK'
    BY <1>2 DEF PersistAnswer, store, stripe, StoreOK, StripeOK
  <2> QED
    BY <2>1, <2>2, <2>3
<1>3. ASSUME NEW h \in Handlers, LeaveUncharged(h) PROVE TypeOK'
  <2>1. TaskOK' /\ faults' \in [FaultKinds -> Nat]
    BY <1>3, FinishOK DEF LeaveUncharged
  <2>2. MoneyOK' /\ StoreOK' /\ StripeOK'
    BY <1>3 DEF LeaveUncharged, money, store, stripe, MoneyOK, StoreOK, StripeOK
  <2> QED
    BY <2>1, <2>2
<1>4. ASSUME NEW h \in Handlers, Charge(h) PROVE TypeOK'
  <2>1. TaskOK' /\ faults' \in [FaultKinds -> Nat]
    BY <1>4, FinishOK DEF Charge
  <2>2. task[h].user \in Users /\ task[h].seen \in Nat
    BY <1>4 DEF Charge, TaskOK, Task
  <2>3. MoneyOK'
    BY <1>4, <2>2 DEF Charge, MoneyOK
  <2>4. StoreOK' /\ StripeOK'
    BY <1>4 DEF Charge, store, stripe, StoreOK, StripeOK
  <2> QED
    BY <2>1, <2>2, <2>3, <2>4
<1>5. ASSUME NEW h \in Handlers, EnsureIndex(h) PROVE TypeOK'
  <2>1. faults' \in [FaultKinds -> Nat]
    BY <1>5, FailOK DEF EnsureIndex, FaultKinds
  <2>2. TaskOK'
    BY <1>5 DEF EnsureIndex, TaskOK, Task, Pcs, Idle
  <2>3. StoreOK'
    BY <1>5 DEF EnsureIndex, StoreOK
  <2>4. MoneyOK' /\ StripeOK'
    BY <1>5 DEF EnsureIndex, money, stripe, MoneyOK, StripeOK
  <2> QED
    BY <2>1, <2>2, <2>3, <2>4
<1>6. ASSUME NEW h \in Handlers, RejectDuplicate(h) PROVE TypeOK'
  <2>1. TaskOK' /\ faults' \in [FaultKinds -> Nat]
    BY <1>6, FinishOK DEF RejectDuplicate
  <2>2. StripeOK'
    BY <1>6 DEF RejectDuplicate, StripeOK, TaskOK
  <2>3. MoneyOK' /\ StoreOK'
    BY <1>6 DEF RejectDuplicate, money, store, MoneyOK, StoreOK
  <2> QED
    BY <2>1, <2>2, <2>3
<1>7. ASSUME NEW h \in Handlers, InsertEvent(h) PROVE TypeOK'
  <2>1. task[h].event \in Events
    BY <1>7 DEF InsertEvent, TaskOK
  <2>2. TaskOK'
    <3>1. CASE Amount[task[h].event] > 0
      <4>1. task[h].pc = "insert" /\ task' = [task EXCEPT ![h].pc = "read"]
        BY <1>7, <3>1 DEF InsertEvent, Inserted
      <4> QED
        BY <2>1, <3>1, <4>1 DEF TaskOK, Task, Pcs, Idle
    <3>2. CASE ~(Amount[task[h].event] > 0)
      BY <1>7, <3>2, FinishOK DEF InsertEvent, Inserted
    <3> QED
      BY <3>1, <3>2
  <2>3. Append(processed[task[h].event], today) \in Seq(0..MaxDay)
    BY <2>1 DEF StoreOK, StripeOK
  <2>4. StoreOK'
    BY <1>7, <2>1, <2>3 DEF InsertEvent, Inserted, StoreOK
  <2>5. MoneyOK' /\ StripeOK' /\ faults' \in [FaultKinds -> Nat]
    BY <1>7, <2>1 DEF InsertEvent, Inserted, money, MoneyOK, StripeOK
  <2> QED
    BY <2>1, <2>2, <2>3, <2>4, <2>5
<1>8. ASSUME NEW h \in Handlers, ReadBalance(h) PROVE TypeOK'
  <2>1. faults' \in [FaultKinds -> Nat]
    BY <1>8, FailOK DEF ReadBalance, FaultKinds
  <2>2. TaskOK'
    <3>1. task[h] \in Task /\ credits[task[h].user] \in Nat
      BY <1>8 DEF ReadBalance, TaskOK, Task, Idle, MoneyOK
    <3>2. \E n \in Nat : task' = [task EXCEPT ![h].pc = "grant", ![h].seen = n]
      BY <1>8, <3>1 DEF ReadBalance
    <3> QED
      BY <1>8, <3>1, <3>2 DEF ReadBalance, TaskOK, Task, Pcs, Idle
  <2>3. MoneyOK' /\ StoreOK' /\ StripeOK'
    BY <1>8 DEF ReadBalance, money, store, stripe, MoneyOK, StoreOK, StripeOK
  <2> QED
    BY <2>1, <2>2, <2>3
<1>9. ASSUME NEW h \in Handlers, GrantCredits(h) PROVE TypeOK'
  <2>1. TaskOK' /\ faults' \in [FaultKinds -> Nat]
    BY <1>9, FinishOK DEF GrantCredits
  <2>2. MoneyOK'
    BY <1>9 DEF GrantCredits, MoneyOK, TaskOK, Task
  <2>3. StoreOK' /\ StripeOK'
    BY <1>9 DEF GrantCredits, store, StoreOK, StripeOK, TaskOK
  <2> QED
    BY <2>1, <2>2, <2>3
<1>10. ASSUME NEW h \in Handlers, Crash(h) PROVE TypeOK'
  <2>1. faults' \in [FaultKinds -> Nat]
    BY <1>10, FailOK DEF Crash, FaultKinds
  <2>2. TaskOK'
    BY <1>10, FinishOK DEF Crash
  <2>3. MoneyOK' /\ StoreOK' /\ StripeOK'
    BY <1>10 DEF Crash, money, store, stripe, MoneyOK, StoreOK, StripeOK
  <2> QED
    BY <2>1, <2>2, <2>3
<1>11. ASSUME NEW h \in Handlers, NEW e \in Events, Deliver(h, e) PROVE TypeOK'
  <2>1. TaskOK'
    BY <1>11 DEF Deliver, TaskOK, Task, Pcs, Admit, StripeOK
  <2>2. StripeOK'
    BY <1>11 DEF Deliver, StripeOK
  <2>3. MoneyOK' /\ StoreOK' /\ faults' \in [FaultKinds -> Nat]
    BY <1>11 DEF Deliver, money, store, MoneyOK, StoreOK
  <2> QED
    BY <2>1, <2>2, <2>3
<1>12. ASSUME NEW e \in Events, Pay(e) PROVE TypeOK'
  <2>1. StripeOK'
    BY <1>12 DEF Pay, StripeOK, Unpaid
  <2>2. MoneyOK' /\ StoreOK' /\ TaskOK' /\ faults' \in [FaultKinds -> Nat]
    BY <1>12 DEF Pay, money, store, MoneyOK, StoreOK, TaskOK
  <2> QED
    BY <2>1, <2>2
<1>13. ASSUME NEW e \in Events, Expire(e) PROVE TypeOK'
  <2>1. StoreOK'
    BY <1>13 DEF Expire, StoreOK
  <2>2. MoneyOK' /\ StripeOK' /\ TaskOK' /\ faults' \in [FaultKinds -> Nat]
    BY <1>13 DEF Expire, money, stripe, MoneyOK, StripeOK, TaskOK
  <2> QED
    BY <2>1, <2>2
<1>14. ASSUME Tick PROVE TypeOK'
  <2>1. StripeOK'
    BY <1>14 DEF Tick, StripeOK
  <2>2. MoneyOK' /\ StoreOK' /\ TaskOK' /\ faults' \in [FaultKinds -> Nat]
    BY <1>14 DEF Tick, money, store, MoneyOK, StoreOK, TaskOK
  <2> QED
    BY <2>1, <2>2
<1>15. ASSUME UNCHANGED vars PROVE TypeOK'
  BY <1>15 DEF vars, money, store, stripe, MoneyOK, StoreOK, StripeOK, TaskOK
<1> QED
  BY <1>1, <1>2, <1>3, <1>4, <1>5, <1>6, <1>7, <1>8, <1>9, <1>10, <1>11, <1>12,
     <1>13, <1>14, <1>15 DEF Next, ChatStep, WebhookStep, Done

\* Every reachable state has its type: in particular no balance and no counter
\* is ever negative, and a handler never runs without the user or the event its
\* place in the code needs.
THEOREM TypeCorrect == Spec => []TypeOK
  BY InitTypeOK, NextTypeOK, PTL DEF Spec

-----------------------------------------------------------------------------
\* At most once.  A handler may write the credits of an event only after an
\* insert that found no record of it; the record stays as long as a delivery is
\* under way or may still come; and until the unique index exists at most one
\* handler has got past building it, because building it can fail once only.

Window(e)    == paidAt[e] <= today /\ today <= paidAt[e] + RetryDays
Writes(h, e) == task[h].event = e /\ task[h].pc \in {"read", "grant"}
Inserts(h)   == task[h].pc = "insert"

\* No request is older than a day, and a delivery came within Stripe's window.
RecentTasks ==
  \A h \in Handlers :
    /\ task[h].pc # "idle" => task[h].since <= today /\ today <= task[h].since + 1
    /\ \A e \in Events : task[h].event = e =>
         paidAt[e] <= task[h].since /\ task[h].since <= paidAt[e] + RetryDays

\* An event has one record at most, made no earlier than the payment.
OneRecord ==
  \A e \in Events :
    processed[e] = <<>> \/ \E d \in 0..MaxDay : processed[e] = <<d>> /\ paidAt[e] <= d

PaidBefore ==
  \A e \in Events : /\ paidAt[e] # Unpaid => paidAt[e] <= today
                    /\ applied[e] > 0 => paidAt[e] # Unpaid

\* Without the unique index, the one failure of building it has been used up by
\* the only handler that went on to insert.
OneUnindexed ==
  ~uniqueIndex =>
    /\ ~ttlIndex
    /\ \A g, h \in Handlers : Inserts(g) /\ Inserts(h) => g = h
    /\ \A h \in Handlers : Inserts(h) =>
         faults["index"] > 0 /\ \A e \in Events : processed[e] = <<>>
    /\ \A e \in Events : processed[e] # <<>> => faults["index"] > 0

\* The handler about to write an event's credits is the only one, and the first.
OneWriter ==
  \A e \in Events : \A g \in Handlers : Writes(g, e) =>
    /\ applied[e] = 0 /\ processed[e] # <<>>
    /\ \A h \in Handlers : Writes(h, e) => g = h

Recorded ==
  \A e \in Events : applied[e] > 0 /\ (Window(e) \/ Handling(e) # {}) => processed[e] # <<>>

FaultsBounded == faults["index"] <= FaultBudget["index"]

IInv == /\ TypeOK
        /\ RecentTasks /\ OneRecord /\ PaidBefore
        /\ OneUnindexed /\ FaultsBounded
        /\ OneWriter /\ Recorded /\ CreditedAtMostOnce

LEMMA InitIInv == Init => IInv
<1> SUFFICES ASSUME Init PROVE IInv
  OBVIOUS
<1> USE CreditsAssumption DEF CreditsAssumption, Init, Idle
<1>1. TypeOK
  BY InitTypeOK
<1>2. RecentTasks
  BY DEF RecentTasks
<1>3. OneRecord /\ PaidBefore /\ CreditedAtMostOnce /\ Recorded
  BY DEF OneRecord, PaidBefore, CreditedAtMostOnce, Recorded
<1>4. OneUnindexed /\ OneWriter
  BY DEF OneUnindexed, OneWriter, Inserts, Writes
<1>5. FaultsBounded
  BY DEF FaultsBounded, FaultKinds
<1> QED
  BY <1>1, <1>2, <1>3, <1>4, <1>5 DEF IInv

\* Steps that leave the records, the indexes, the grants and the calendar alone,
\* and in which no handler takes up an event or reaches the insert.
Frame ==
  /\ UNCHANGED <<processed, uniqueIndex, ttlIndex, paidAt, applied, today>>
  /\ faults'["index"] = faults["index"]
  /\ \A h \in Handlers :
       /\ \A e \in Events : task'[h].event = e =>
            task[h].event = e /\ task'[h].since = task[h].since
       /\ \A e \in Events : Writes(h, e)' => Writes(h, e)
       /\ Inserts(h)' => Inserts(h)
       /\ task'[h].pc # "idle" =>
            \/ task'[h].since = today
            \/ task[h].pc # "idle" /\ task'[h].since = task[h].since

LEMMA FrameIInv == IInv /\ TypeOK' /\ Frame => IInv'
<1> SUFFICES ASSUME IInv, TypeOK', Frame PROVE IInv'
  OBVIOUS
<1> USE DEF IInv
<1>1. RecentTasks'
  BY DEF RecentTasks, Frame, TypeOK, StripeOK
<1>2. OneRecord' /\ PaidBefore' /\ CreditedAtMostOnce' /\ FaultsBounded'
  BY DEF OneRecord, PaidBefore, CreditedAtMostOnce, FaultsBounded, Frame
<1>3. OneUnindexed'
  BY DEF OneUnindexed, Frame
<1>4. OneWriter'
  BY DEF OneWriter, Frame
<1>5. Recorded'
  BY DEF Recorded, Window, Handling, Frame
<1> QED
  BY <1>1, <1>2, <1>3, <1>4, <1>5

\* The chat routes, the reads, the rejections and the crashes are such steps.
LEMMA FrameSteps ==
  ASSUME IInv, NEW h \in Handlers,
         \/ \E u \in Users : CheckCredits(h, u)
         \/ PersistAnswer(h) \/ LeaveUncharged(h) \/ Charge(h)
         \/ RejectDuplicate(h) \/ ReadBalance(h) \/ Crash(h)
  PROVE  Frame
<1> USE CreditsAssumption DEF CreditsAssumption, IInv, TypeOK, TaskOK, Task, Idle, Pcs, FaultKinds
<1>1. ASSUME NEW u \in Users, CheckCredits(h, u) PROVE Frame
  BY <1>1 DEF CheckCredits, Admit, Fail, Frame, Writes, Inserts, money, store, stripe
<1>2. CASE PersistAnswer(h)
  BY <1>2 DEF PersistAnswer, Frame, Writes, Inserts, money, store, stripe
<1>3. CASE LeaveUncharged(h)
  BY <1>3 DEF LeaveUncharged, Finish, Frame, Writes, Inserts, money, store, stripe
<1>4. CASE Charge(h)
  BY <1>4 DEF Charge, Finish, Frame, Writes, Inserts, money, store, stripe
<1>5. CASE RejectDuplicate(h)
  BY <1>5 DEF RejectDuplicate, Finish, Frame, Writes, Inserts, money, store, stripe
<1>6. CASE ReadBalance(h)
  BY <1>6 DEF ReadBalance, Fail, Frame, Writes, Inserts, money, store, stripe
<1>7. CASE Crash(h)
  BY <1>7 DEF Crash, Fail, Finish, Frame, Writes, Inserts, money, store, stripe
<1> QED
  BY <1>1, <1>2, <1>3, <1>4, <1>5, <1>6, <1>7

LEMMA GrantIInv ==
  ASSUME IInv, TypeOK', NEW h \in Handlers, GrantCredits(h)
  PROVE  IInv'
<1> USE CreditsAssumption DEF CreditsAssumption, IInv
<1> DEFINE e == task[h].event
<1>1. e \in Events /\ Writes(h, e)
  BY DEF GrantCredits, TypeOK, TaskOK, Writes
<1>2. /\ task' = [task EXCEPT ![h] = Idle]
      /\ applied' = [applied EXCEPT ![e] = @ + 1]
      /\ UNCHANGED <<processed, uniqueIndex, ttlIndex, paidAt, today, faults>>
  BY DEF GrantCredits, Finish, store
<1>3. applied[e] = 0 /\ processed[e] # <<>> /\ \A g \in Handlers : Writes(g, e) => g = h
  BY <1>1 DEF OneWriter
<1>4. \A g \in Handlers : g # h => task'[g] = task[g]
  BY <1>2 DEF TypeOK, TaskOK
<1>5. task'[h] = Idle /\ \A d \in Events : ~ Writes(h, d)' /\ task'[h].event # d
  BY <1>2 DEF TypeOK, TaskOK, Idle, Writes
<1>6. applied'[e] = 1 /\ \A d \in Events : d # e => applied'[d] = applied[d]
  BY <1>1, <1>2, <1>3 DEF TypeOK, MoneyOK
<1>7. RecentTasks'
  BY <1>2, <1>4, <1>5 DEF RecentTasks, Idle
<1>8. OneRecord' /\ FaultsBounded'
  BY <1>2 DEF OneRecord, FaultsBounded
<1>9. PaidBefore'
  <2>1. paidAt[e] # Unpaid
    BY <1>1, <1>3 DEF OneRecord, TypeOK, StripeOK, Unpaid
  <2> QED
    BY <2>1, <1>2, <1>6 DEF PaidBefore
<1>10. OneUnindexed'
  BY <1>2, <1>4, <1>5 DEF OneUnindexed, Inserts, Idle
<1>11. OneWriter'
  BY <1>2, <1>3, <1>4, <1>5, <1>6 DEF OneWriter, Writes
<1>12. Recorded'
  BY <1>1, <1>2, <1>3, <1>4, <1>5, <1>6 DEF Recorded, Window, Handling
<1>13. CreditedAtMostOnce'
  BY <1>6 DEF CreditedAtMostOnce
<1> QED
  BY <1>7, <1>8, <1>9, <1>10, <1>11, <1>12, <1>13

LEMMA InsertIInv ==
  ASSUME IInv, TypeOK', NEW h \in Handlers, InsertEvent(h)
  PROVE  IInv'
<1> USE CreditsAssumption DEF CreditsAssumption, IInv
<1> DEFINE e == task[h].event
<1>1. e \in Events /\ Inserts(h)
  BY DEF InsertEvent, TypeOK, TaskOK, Inserts
<1>2. /\ processed' = [processed EXCEPT ![e] = Append(@, today)]
      /\ UNCHANGED <<applied, uniqueIndex, ttlIndex, paidAt, today, faults>>
      /\ \/ task' = [task EXCEPT ![h].pc = "read"]
         \/ task' = [task EXCEPT ![h] = Idle]
  BY DEF InsertEvent, Inserted, Finish, money
<1>3. processed[e] = <<>>
  BY <1>1 DEF InsertEvent, Duplicate, OneUnindexed
<1>4. applied[e] = 0 /\ \A g \in Handlers : ~ Writes(g, e)
  <2>1. ~ (applied[e] > 0)
    BY <1>1, <1>3 DEF Recorded, Handling
  <2>2. applied[e] = 0
    BY <1>1, <2>1 DEF TypeOK, MoneyOK
  <2> QED
    BY <1>1, <1>3, <2>2 DEF OneWriter
<1>5. processed'[e] = <<today>> /\ processed'[e] # <<>> /\ \A d \in Events : d # e => processed'[d] = processed[d]
  BY <1>1, <1>2, <1>3 DEF TypeOK, StoreOK
<1>6. \A g \in Handlers : g # h => task'[g] = task[g]
  BY <1>2 DEF TypeOK, TaskOK
<1>7. /\ task'[h].pc \in {"idle", "read"}
      /\ task'[h].pc = "read" => task'[h].event = e /\ task'[h].since = task[h].since
      /\ task'[h].pc = "idle" => task'[h].event \notin Events
  BY <1>2 DEF TypeOK, TaskOK, Task, Idle
<1>8. paidAt[e] <= today
  BY <1>1 DEF RecentTasks, TypeOK, TaskOK, StripeOK, Inserts, Task
<1>9. RecentTasks'
  BY <1>1, <1>2, <1>6, <1>7 DEF RecentTasks, Inserts
<1>10. OneRecord'
  BY <1>2, <1>5, <1>8 DEF OneRecord, TypeOK, StripeOK
<1>11. PaidBefore' /\ FaultsBounded' /\ CreditedAtMostOnce'
  BY <1>2 DEF PaidBefore, FaultsBounded, CreditedAtMostOnce
<1>12. OneUnindexed'
  <2>1. \A g \in Handlers : Inserts(g)' => g # h /\ Inserts(g)
    BY <1>6, <1>7 DEF Inserts
  <2> QED
    BY <1>1, <1>2, <1>5, <2>1 DEF OneUnindexed
<1>13. OneWriter'
  <2>1. \A d \in Events, g \in Handlers : Writes(g, d)' => IF g = h THEN d = e ELSE d # e /\ Writes(g, d)
    BY <1>4, <1>6, <1>7 DEF Writes
  <2> QED
    BY <1>2, <1>4, <1>5, <2>1 DEF OneWriter
<1>14. Recorded'
  <2>1. \A d \in Events, g \in Handlers : task'[g].event = d => d = e \/ task[g].event = d
    BY <1>6, <1>7
  <2>2. \A d \in Events : d # e /\ (Window(d)' \/ Handling(d)' # {}) => Window(d) \/ Handling(d) # {}
    BY <1>2, <2>1 DEF Window, Handling
  <2> QED
    BY <1>2, <1>5, <2>2 DEF Recorded
<1> QED
  BY <1>9, <1>10, <1>11, <1>12, <1>13, <1>14

LEMMA EnsureIndexIInv ==
  ASSUME FaultBudget["index"] <= 1,
         IInv, TypeOK', NEW h \in Handlers, EnsureIndex(h)
  PROVE  IInv'
<1> USE CreditsAssumption DEF CreditsAssumption, IInv
<1>1. /\ task' = [task EXCEPT ![h].pc = "insert"]
      /\ UNCHANGED <<applied, processed, paidAt, today>>
  BY DEF EnsureIndex, money, stripe
<1>2. task[h].pc = "index" /\ faults["index"] \in Nat
  BY DEF EnsureIndex, TypeOK, FaultKinds
<1>3. \A g \in Handlers : task'[g].event = task[g].event /\ task'[g].since = task[g].since
  BY <1>1 DEF TypeOK, TaskOK, Task
<1>4. \A g \in Handlers : g # h => task'[g].pc = task[g].pc
  BY <1>1 DEF TypeOK, TaskOK
<1>5. task'[h].pc = "insert"
  BY <1>1 DEF TypeOK, TaskOK, Task
<1>6. RecentTasks'
  BY <1>1, <1>2, <1>3, <1>4 DEF RecentTasks
<1>7. OneRecord' /\ PaidBefore' /\ CreditedAtMostOnce'
  BY <1>1 DEF OneRecord, PaidBefore, CreditedAtMostOnce
<1>8. Recorded'
  BY <1>1, <1>3 DEF Recorded, Window, Handling
<1>9. OneWriter'
  BY <1>1, <1>3, <1>4, <1>5 DEF OneWriter, Writes
<1>10. \/ uniqueIndex'
       \/ UNCHANGED <<uniqueIndex, ttlIndex>> /\ Fail("index")
  <2>1. Buildable
    <3>1. ASSUME NEW e \in Events PROVE Len(processed[e]) <= 1
      <4>1. CASE processed[e] = <<>>
        BY <4>1
      <4>2. ASSUME NEW d \in 0..MaxDay, processed[e] = <<d>> PROVE Len(processed[e]) <= 1
        BY <4>2
      <4> QED
        BY <4>1, <4>2 DEF OneRecord
    <3> QED
      BY <3>1 DEF Buildable
  <2> QED
    BY <2>1 DEF EnsureIndex
<1>11. OneUnindexed' /\ FaultsBounded'
  <2>1. CASE Fail("index") /\ UNCHANGED <<uniqueIndex, ttlIndex>>
    <3>1. faults'["index"] = faults["index"] + 1 /\ faults["index"] = 0 /\ FaultsBounded'
      BY <2>1, <1>2 DEF Fail, MayFail, TypeOK, FaultKinds, FaultsBounded
    <3>2. ~ uniqueIndex => /\ ~ ttlIndex
                           /\ \A g \in Handlers : ~ Inserts(g)
                           /\ \A e \in Events : processed[e] = <<>>
      BY <3>1 DEF OneUnindexed
    <3> QED
      BY <1>1, <1>4, <2>1, <3>1, <3>2 DEF OneUnindexed, Inserts
  <2>2. CASE uniqueIndex'
    <3>1. OneUnindexed'
      BY <2>2 DEF OneUnindexed
    <3>2. FaultsBounded'
      BY <1>2 DEF EnsureIndex, Fail, MayFail, TypeOK, FaultKinds, FaultsBounded
    <3> QED
      BY <3>1, <3>2
  <2> QED
    BY <1>10, <2>1, <2>2
<1> QED
  BY <1>6, <1>7, <1>8, <1>9, <1>11

LEMMA DeliverIInv ==
  ASSUME IInv, TypeOK', NEW h \in Handlers, NEW e \in Events, Deliver(h, e)
  PROVE  IInv'
<1> USE CreditsAssumption DEF CreditsAssumption, IInv
<1>1. /\ task[h].pc = "idle" /\ Window(e)
      /\ task' = [task EXCEPT ![h] = [pc |-> "index", user |-> Buyer[e],
                    event |-> e, seen |-> 0, since |-> today]]
      /\ UNCHANGED <<applied, processed, uniqueIndex, ttlIndex, paidAt, today, faults>>
  BY DEF Deliver, Deliverable, Admit, Window, money, store
<1>2. task'[h].pc = "index" /\ task'[h].event = e /\ task'[h].since = today
  BY <1>1 DEF TypeOK, TaskOK
<1>3. \A g \in Handlers : g # h => task'[g] = task[g]
  BY <1>1 DEF TypeOK, TaskOK
<1>4. RecentTasks'
  BY <1>1, <1>2, <1>3 DEF RecentTasks, Window, TypeOK, StripeOK
<1>5. OneRecord' /\ PaidBefore' /\ CreditedAtMostOnce' /\ FaultsBounded'
  BY <1>1 DEF OneRecord, PaidBefore, CreditedAtMostOnce, FaultsBounded
<1>6. OneUnindexed' /\ OneWriter'
  BY <1>1, <1>2, <1>3 DEF OneUnindexed, OneWriter, Inserts, Writes
<1>7. Recorded'
  <2>1. \A d \in Events : Window(d)' \/ Handling(d)' # {} => Window(d) \/ Handling(d) # {}
    BY <1>1, <1>2, <1>3 DEF Window, Handling
  <2> QED
    BY <1>1, <2>1 DEF Recorded
<1> QED
  BY <1>4, <1>5, <1>6, <1>7

LEMMA PayIInv ==
  ASSUME IInv, TypeOK', NEW e \in Events, Pay(e)
  PROVE  IInv'
<1> USE CreditsAssumption DEF CreditsAssumption, IInv
<1>1. /\ paidAt[e] = Unpaid /\ paidAt' = [paidAt EXCEPT ![e] = today]
      /\ UNCHANGED <<applied, processed, uniqueIndex, ttlIndex, task, today, faults>>
  BY DEF Pay, money, store
<1>2. paidAt'[e] = today /\ \A d \in Events : d # e => paidAt'[d] = paidAt[d]
  BY <1>1 DEF TypeOK, StripeOK
<1>3. /\ processed[e] = <<>> /\ ~ (applied[e] > 0)
      /\ \A h \in Handlers : task[h].event # e
  BY <1>1 DEF OneRecord, PaidBefore, RecentTasks, TypeOK, TaskOK, Task, Unpaid
<1>4. RecentTasks' /\ OneRecord'
  BY <1>1, <1>2, <1>3 DEF RecentTasks, OneRecord
<1>5. PaidBefore'
  BY <1>1, <1>2, <1>3 DEF PaidBefore, Unpaid, TypeOK, StripeOK
<1>6. CreditedAtMostOnce' /\ FaultsBounded' /\ OneUnindexed' /\ OneWriter'
  BY <1>1 DEF CreditedAtMostOnce, FaultsBounded, OneUnindexed, OneWriter, Inserts, Writes
<1>7. Recorded'
  BY <1>1, <1>2, <1>3 DEF Recorded, Window, Handling
<1> QED
  BY <1>4, <1>5, <1>6, <1>7

LEMMA ExpireIInv ==
  ASSUME IInv, TypeOK', NEW e \in Events, Expire(e)
  PROVE  IInv'
<1> USE CreditsAssumption DEF CreditsAssumption, IInv
<1>1. /\ uniqueIndex /\ processed' = [processed EXCEPT ![e] = Tail(@)]
      /\ UNCHANGED <<applied, uniqueIndex, ttlIndex, paidAt, task, today, faults>>
  BY DEF Expire, OneUnindexed, money, stripe
<1>2. PICK d \in 0..MaxDay : processed[e] = <<d>> /\ paidAt[e] <= d
  BY DEF Expire, OneRecord
<1>3. d + TtlDays <= today
  BY <1>2 DEF Expire
<1>4. processed'[e] = <<>> /\ \A c \in Events : c # e => processed'[c] = processed[c]
  BY <1>1, <1>2 DEF TypeOK, StoreOK
<1>5. ~ Window(e) /\ \A h \in Handlers : task[h].event # e
  <2>1. paidAt[e] \in Nat /\ today \in Nat /\ d \in Nat
    BY DEF TypeOK, StripeOK, Unpaid
  <2>2. ~ Window(e)
    BY <1>2, <1>3, <2>1 DEF Window
  <2>3. ASSUME NEW h \in Handlers, task[h].event = e PROVE FALSE
    <3>1. task[h].since \in Nat /\ task[h].pc # "idle"
      BY <2>3 DEF TypeOK, TaskOK, Task, Idle
    <3>2. task[h].since <= paidAt[e] + RetryDays /\ today <= task[h].since + 1
      BY <2>3, <3>1 DEF RecentTasks
    <3> QED
      BY <1>2, <1>3, <2>1, <3>1, <3>2
  <2> QED
    BY <2>2, <2>3
<1>6. RecentTasks' /\ PaidBefore' /\ CreditedAtMostOnce' /\ FaultsBounded' /\ OneUnindexed'
  BY <1>1 DEF RecentTasks, PaidBefore, CreditedAtMostOnce, FaultsBounded, OneUnindexed
<1>7. OneRecord'
  BY <1>1, <1>4 DEF OneRecord
<1>8. OneWriter' /\ Recorded'
  BY <1>1, <1>4, <1>5 DEF OneWriter, Recorded, Writes, Window, Handling
<1> QED
  BY <1>6, <1>7, <1>8

LEMMA TickIInv ==
  ASSUME IInv, TypeOK', Tick
  PROVE  IInv'
<1> USE CreditsAssumption DEF CreditsAssumption, IInv
<1>1. /\ today < MaxDay /\ today' = today + 1
      /\ \A h \in Handlers : task[h].pc # "idle" => task[h].since = today
      /\ UNCHANGED <<applied, processed, uniqueIndex, ttlIndex, paidAt, task, faults>>
  BY DEF Tick, money, store
<1>2. today \in Nat /\ \A e \in Events : paidAt[e] \in Nat
  BY DEF TypeOK, StripeOK, Unpaid
<1>3. RecentTasks' /\ PaidBefore'
  BY <1>1, <1>2 DEF RecentTasks, PaidBefore
<1>4. OneRecord' /\ CreditedAtMostOnce' /\ FaultsBounded' /\ OneUnindexed' /\ OneWriter'
  BY <1>1 DEF OneRecord, CreditedAtMostOnce, FaultsBounded, OneUnindexed, OneWriter,
              Inserts, Writes
<1>5. Recorded'
  <2>1. \A e \in Events : Window(e)' => Window(e)
    BY <1>1, <1>2 DEF Window, PaidBefore, Unpaid
  <2> QED
    BY <1>1, <2>1 DEF Recorded, Handling
<1> QED
  BY <1>3, <1>4, <1>5

LEMMA NextIInv ==
  ASSUME FaultBudget["index"] <= 1
  PROVE  IInv /\ [Next]_vars => IInv'
<1> SUFFICES ASSUME IInv, [Next]_vars PROVE IInv'
  OBVIOUS
<1>1. TypeOK'
  BY NextTypeOK DEF IInv
<1>2. CASE UNCHANGED vars
  BY <1>1, <1>2, FrameIInv DEF vars, money, store, stripe, Frame, Writes, Inserts
<1>3. ASSUME NEW h \in Handlers,
             ChatStep(h) \/ Crash(h) \/ \E u \in Users : CheckCredits(h, u)
      PROVE  IInv'
  BY <1>1, <1>3, FrameSteps, FrameIInv DEF ChatStep
<1>4. ASSUME NEW h \in Handlers, WebhookStep(h) PROVE IInv'
  BY <1>1, <1>4, FrameSteps, FrameIInv, EnsureIndexIInv, InsertIInv, GrantIInv DEF WebhookStep
<1>5. ASSUME NEW h \in Handlers, NEW e \in Events, Deliver(h, e) PROVE IInv'
  BY <1>1, <1>5, DeliverIInv
<1>6. ASSUME NEW e \in Events, Pay(e) \/ Expire(e) PROVE IInv'
  BY <1>1, <1>6, PayIInv, ExpireIInv
<1>7. CASE Tick
  BY <1>1, <1>7, TickIInv
<1> QED
  BY <1>2, <1>3, <1>4, <1>5, <1>6, <1>7 DEF Next, Done

\* However many threads serve however many deliveries of however many events,
\* and wherever they die, an event's credits are written once at most, as long as
\* building the unique index fails no more than once.
THEOREM AtMostOnce ==
  ASSUME FaultBudget["index"] <= 1
  PROVE  Spec => []CreditedAtMostOnce
<1>1. Init => IInv
  BY InitIInv
<1>2. IInv /\ [Next]_vars => IInv'
  BY NextIInv
<1>3. IInv => CreditedAtMostOnce
  BY DEF IInv
<1> QED
  BY <1>1, <1>2, <1>3, PTL DEF Spec

\* The record that makes a redelivery a duplicate is still there whenever a
\* redelivery can come: the TTL index never forgets an event too early.
THEOREM RecordKept ==
  ASSUME FaultBudget["index"] <= 1
  PROVE  Spec => []RecordOutlivesRetries
<1>1. Init => IInv
  BY InitIInv
<1>2. IInv /\ [Next]_vars => IInv'
  BY NextIInv
<1>3. IInv => RecordOutlivesRetries
  BY DEF IInv, Recorded, RecordOutlivesRetries, Deliverable, Window
<1> QED
  BY <1>1, <1>2, <1>3, PTL DEF Spec

-----------------------------------------------------------------------------
\* The ledger.  When the requests of one user never overlap and the balance can
\* be read, the balance a handler keeps is the balance of the user document until
\* the handler ends, so what it stores is the balance less one, or plus the plan.

Sole(h)  == \A g \in Handlers : task[g].user = task[h].user => g = h
Fresh(h) == task[h].pc \in {"answering", "charging", "grant"}
              => task[h].seen = credits[task[h].user]
Serial   == \A h \in Handlers : task[h].user \in Users => Sole(h) /\ Fresh(h)

SInv == IInv /\ Serial /\ faults["read"] = 0

\* A user below a bound of one request has none in flight.
LEMMA AdmitAlone ==
  ASSUME MaxPerUser = 1, NEW h \in Handlers, NEW u, Admit(h, u)
  PROVE  \A g \in Handlers : task[g].user # u
<1>1. InFlight(u) \subseteq Handlers
  BY DEF InFlight
<1>2. IsFiniteSet(InFlight(u))
  BY <1>1, FiniteHandlers, FS_Subset DEF FiniteHandlers
<1>3. Cardinality(InFlight(u)) = 0
  BY <1>2, FS_CardinalityType DEF Admit
<1>4. InFlight(u) = {}
  BY <1>2, <1>3, FS_EmptySet
<1> QED
  BY <1>4 DEF InFlight

LEMMA InitSInv == Init => SInv
<1> SUFFICES ASSUME Init PROVE SInv
  OBVIOUS
<1>1. IInv
  BY InitIInv
<1>2. Serial
  BY CreditsAssumption DEF CreditsAssumption, Init, Idle, Serial
<1>3. faults["read"] = 0
  BY DEF Init, FaultKinds
<1> QED
  BY <1>1, <1>2, <1>3 DEF SInv

\* Steps that leave the balances alone, and in which no handler takes up a user
\* or a new place where it holds a balance.
Still ==
  /\ UNCHANGED credits
  /\ \A h \in Handlers : task'[h].user \in Users =>
       /\ task'[h].user = task[h].user /\ task'[h].seen = task[h].seen
       /\ task'[h].pc \in {"answering", "charging", "grant"}
            => task[h].pc \in {"answering", "charging", "grant"}

LEMMA StillSerial == Serial /\ Still => Serial'
  BY DEF Serial, Sole, Fresh, Still

\* Nothing else than a failed read counts as one, and reads do not fail.
LEMMA ReadsSucceed ==
  ASSUME FaultBudget["read"] = 0, SInv, [Next]_vars
  PROVE  ~ Fail("read") /\ faults'["read"] = 0
<1> USE CreditsAssumption DEF CreditsAssumption, SInv, IInv, TypeOK, FaultKinds
<1>1. ~ Fail("read")
  BY DEF Fail, MayFail
<1>2. \/ UNCHANGED faults
      \/ \E k \in {"crash", "index"} : Fail(k)
  BY <1>1 DEF Next, ChatStep, WebhookStep, CheckCredits, PersistAnswer, LeaveUncharged, Charge,
     EnsureIndex, RejectDuplicate, InsertEvent, Inserted, ReadBalance, GrantCredits, Crash,
     Deliver, Pay, Expire, Tick, Done, vars
<1> QED
  BY <1>1, <1>2 DEF Fail

LEMMA StillSteps ==
  ASSUME TypeOK, NEW h \in Handlers,
         \/ PersistAnswer(h) \/ LeaveUncharged(h) \/ EnsureIndex(h)
         \/ RejectDuplicate(h) \/ InsertEvent(h) \/ Crash(h)
  PROVE  Still
<1> USE CreditsAssumption DEF CreditsAssumption, TypeOK, TaskOK, Task, Idle
<1>1. CASE PersistAnswer(h)
  BY <1>1 DEF PersistAnswer, Still
<1>2. CASE LeaveUncharged(h)
  BY <1>2 DEF LeaveUncharged, Finish, Still, money
<1>3. CASE EnsureIndex(h)
  BY <1>3 DEF EnsureIndex, Still, money
<1>4. CASE RejectDuplicate(h)
  BY <1>4 DEF RejectDuplicate, Finish, Still, money
<1>5. CASE InsertEvent(h)
  <2>1. /\ task[h].pc = "insert" /\ UNCHANGED credits
        /\ \/ task' = [task EXCEPT ![h].pc = "read"]
           \/ task' = [task EXCEPT ![h] = Idle]
    BY <1>5 DEF InsertEvent, Inserted, Finish, money
  <2> QED
    BY <2>1 DEF Still
<1>6. CASE Crash(h)
  BY <1>6 DEF Crash, Finish, Still, money
<1> QED
  BY <1>1, <1>2, <1>3, <1>4, <1>5, <1>6

\* A handler that ends by writing its own user's balance.
LEMMA WriteSerial ==
  ASSUME TypeOK, Serial, NEW h \in Handlers, task[h].user \in Users, Finish(h),
         \A u \in Users : u # task[h].user => credits'[u] = credits[u]
  PROVE  Serial'
<1>1. \A g \in Handlers : g # h => task'[g] = task[g]
  BY DEF Finish, TypeOK, TaskOK
<1>2. task'[h].user \notin Users
  BY CreditsAssumption DEF CreditsAssumption, Finish, TypeOK, TaskOK, Idle
<1>3. \A g \in Handlers : g # h => task[g].user # task[h].user
  BY DEF Serial, Sole
<1> QED
  BY <1>1, <1>2, <1>3 DEF Serial, Sole, Fresh

LEMMA NextSerial ==
  ASSUME MaxPerUser = 1, FaultBudget["read"] = 0, SInv, [Next]_vars
  PROVE  Serial'
<1> USE CreditsAssumption DEF CreditsAssumption
<1>1. TypeOK /\ Serial /\ ~ Fail("read")
  BY ReadsSucceed DEF SInv, IInv
<1>2. ASSUME NEW h \in Handlers, NEW u \in Users, CheckCredits(h, u) PROVE Serial'
  <2>1. /\ \A g \in Handlers : task[g].user # u
        /\ UNCHANGED credits
    BY <1>2, AdmitAlone DEF CheckCredits, money
  <2>2. task'[h].user = u /\ task'[h].seen = credits[u]
    BY <1>1, <1>2 DEF CheckCredits, TypeOK, TaskOK
  <2>3. \A g \in Handlers : g # h => task'[g] = task[g]
    BY <1>1, <1>2 DEF CheckCredits, TypeOK, TaskOK
  <2> QED
    BY <1>1, <2>1, <2>2, <2>3 DEF Serial, Sole, Fresh
<1>3. ASSUME NEW h \in Handlers, NEW e \in Events, Deliver(h, e) PROVE Serial'
  <2>1. /\ \A g \in Handlers : task[g].user # Buyer[e]
        /\ UNCHANGED credits
    BY <1>3, AdmitAlone DEF Deliver, money
  <2>2. task'[h].user = Buyer[e] /\ task'[h].pc = "index"
    BY <1>1, <1>3 DEF Deliver, TypeOK, TaskOK
  <2>3. \A g \in Handlers : g # h => task'[g] = task[g]
    BY <1>1, <1>3 DEF Deliver, TypeOK, TaskOK
  <2> QED
    BY <1>1, <2>1, <2>2, <2>3 DEF Serial, Sole, Fresh
<1>4. ASSUME NEW h \in Handlers, ReadBalance(h) PROVE Serial'
  <2>1. /\ task' = [task EXCEPT ![h].pc = "grant", ![h].seen = credits[task[h].user]]
        /\ UNCHANGED credits
    BY <1>1, <1>4 DEF ReadBalance, money
  <2>2. /\ \A g \in Handlers : task'[g].user = task[g].user
        /\ \A g \in Handlers : g # h => task'[g] = task[g]
        /\ task'[h].seen = credits[task[h].user]
        /\ credits' = credits
    BY <1>1, <2>1 DEF TypeOK, TaskOK, Task
  <2>3. ASSUME NEW g \in Handlers, task'[g].user \in Users PROVE Sole(g)' /\ Fresh(g)'
    BY <1>1, <2>2, <2>3 DEF Serial, Sole, Fresh
  <2> QED
    BY <2>3 DEF Serial
<1>5. ASSUME NEW h \in Handlers, Charge(h) \/ GrantCredits(h) PROVE Serial'
  <2>1. /\ task[h].user \in Users /\ Finish(h)
        /\ \A u \in Users : u # task[h].user => credits'[u] = credits[u]
    BY <1>1, <1>5 DEF Charge, GrantCredits, TypeOK, TaskOK, MoneyOK
  <2> QED
    BY <1>1, <2>1, WriteSerial
<1>6. ASSUME Still PROVE Serial'
  BY <1>1, <1>6, StillSerial
<1>7. ASSUME UNCHANGED <<credits, task>> PROVE Still
  BY <1>7 DEF Still
<1> QED
  BY <1>1, <1>2, <1>3, <1>4, <1>5, <1>6, <1>7, StillSteps
     DEF Next, ChatStep, WebhookStep, Pay, Expire, Tick, Done, vars, money

LEMMA NextSInv ==
  ASSUME MaxPerUser = 1, FaultBudget["read"] = 0, FaultBudget["index"] <= 1
  PROVE  SInv /\ [Next]_vars => SInv'
<1> SUFFICES ASSUME SInv, [Next]_vars PROVE SInv'
  OBVIOUS
<1>1. IInv'
  BY NextIInv DEF SInv
<1>2. Serial'
  BY NextSerial
<1>3. faults'["read"] = 0
  BY ReadsSucceed
<1> QED
  BY <1>1, <1>2, <1>3 DEF SInv

LEMMA InitLedger == Init => Promise!Init
  BY CreditsAssumption DEF CreditsAssumption, Init, Promise!Init, Sales

LEMMA StepLedger ==
  ASSUME SInv, SInv', [Next]_vars
  PROVE  [Promise!Next]_(Promise!vars)
<1> USE CreditsAssumption DEF CreditsAssumption
<1>1. TypeOK /\ Serial /\ IInv
  BY DEF SInv, IInv
<1>2. ASSUME UNCHANGED <<credits, paidAt, applied>> PROVE UNCHANGED Promise!vars
  BY <1>2 DEF Promise!vars, Sales
<1>3. ASSUME NEW h \in Handlers, Charge(h) PROVE [Promise!Next]_(Promise!vars)
  <2> DEFINE u == task[h].user
  <2>1. u \in Users /\ UNCHANGED <<paidAt, applied>>
    BY <1>1, <1>3 DEF Charge, TypeOK, TaskOK, stripe
  <2>2. CASE task[h].seen > 0
    <3>1. credits[u] = task[h].seen
      BY <1>1, <1>3, <2>1 DEF Charge, Serial, Fresh
    <3>2. credits[u] > 0 /\ credits' = [credits EXCEPT ![u] = credits[u] - 1]
      BY <1>3, <2>2, <3>1 DEF Charge
    <3>3. Promise!Burn(u)
      BY <2>1, <3>2 DEF Promise!Burn, Sales
    <3> QED
      BY <2>1, <3>3 DEF Promise!Next
  <2>3. CASE ~ (task[h].seen > 0)
    BY <1>2, <1>3, <2>1, <2>3 DEF Charge
  <2> QED
    BY <2>2, <2>3
<1>4. ASSUME NEW h \in Handlers, GrantCredits(h) PROVE [Promise!Next]_(Promise!vars)
  <2>0. PICK e \in Events : e = task[h].event
    BY <1>1, <1>4 DEF GrantCredits, TypeOK, TaskOK
  <2>1. Amount[e] > 0 /\ task[h].user = Buyer[e] /\ Buyer[e] \in Users
    BY <1>1, <1>4, <2>0 DEF GrantCredits, TypeOK, TaskOK
  <2>2. applied[e] = 0 /\ processed[e] # <<>>
    BY <1>1, <1>4, <2>0, <2>1 DEF GrantCredits, IInv, OneWriter, Writes
  <2>3. paidAt[e] # Unpaid
    BY <1>1, <2>1, <2>2 DEF IInv, OneRecord, TypeOK, StripeOK, Unpaid
  <2>4. task[h].seen = credits[Buyer[e]]
    BY <1>1, <1>4, <2>0, <2>1 DEF GrantCredits, Serial, Fresh
  <2>5. /\ credits' = [credits EXCEPT ![Buyer[e]] = credits[Buyer[e]] + Amount[e]]
        /\ applied' = [applied EXCEPT ![e] = @ + 1] /\ paidAt' = paidAt
    BY <1>4, <2>0, <2>1, <2>4 DEF GrantCredits
  <2>6. applied'[e] = 1 /\ \A d \in Events : d # e => applied'[d] = applied[d]
    BY <1>1, <2>1, <2>2, <2>5 DEF TypeOK, MoneyOK
  <2>7. Promise!Credit(e)
    BY <2>1, <2>2, <2>3, <2>5, <2>6 DEF Promise!Credit, Sales
  <2>8. e \in Sales
    BY <2>1 DEF Sales
  <2> QED
    BY <2>7, <2>8 DEF Promise!Next
<1>5. ASSUME NEW e \in Events, Pay(e) PROVE [Promise!Next]_(Promise!vars)
  <2>1. /\ paidAt[e] = Unpaid /\ UNCHANGED <<credits, applied>>
        /\ paidAt' = [paidAt EXCEPT ![e] = today]
    BY <1>5 DEF Pay, money
  <2>2. paidAt'[e] # Unpaid /\ \A d \in Events : d # e => paidAt'[d] = paidAt[d]
    BY <1>1, <2>1 DEF TypeOK, StripeOK, Unpaid
  <2>3. applied[e] = 0
    BY <1>1, <2>1 DEF IInv, PaidBefore, TypeOK, MoneyOK
  <2>4. CASE Amount[e] > 0
    <3>1. Promise!Purchase(e)
      BY <2>1, <2>2, <2>3, <2>4 DEF Promise!Purchase, Sales
    <3> QED
      BY <2>4, <3>1 DEF Promise!Next, Sales
  <2>5. CASE ~ (Amount[e] > 0)
    BY <2>1, <2>2, <2>5 DEF Promise!vars, Sales
  <2> QED
    BY <2>4, <2>5
<1> QED
  BY <1>2, <1>3, <1>4, <1>5
     DEF Next, ChatStep, WebhookStep, CheckCredits, PersistAnswer, LeaveUncharged, EnsureIndex,
         RejectDuplicate, InsertEvent, Inserted, ReadBalance, Crash, Deliver, Expire, Tick,
         Done, vars, money, stripe

\* Where the requests of one user never overlap and balances can be read, the
\* handlers keep the promise of Ledger: every purchase is added exactly once and
\* every charge takes one credit from a positive balance, whatever handlers die.
THEOREM LedgerKept ==
  ASSUME MaxPerUser = 1, FaultBudget["read"] = 0, FaultBudget["index"] <= 1
  PROVE  Spec => ImplementsLedger
<1>1. Init => SInv
  BY InitSInv
<1>2. SInv /\ [Next]_vars => SInv'
  BY NextSInv
<1>3. Init => Promise!Init
  BY InitLedger
<1>4. SInv /\ SInv' /\ [Next]_vars => [Promise!Next]_(Promise!vars)
  BY StepLedger
<1> QED
  BY <1>1, <1>2, <1>3, <1>4, PTL DEF Spec, ImplementsLedger, Promise!Spec


-----------------------------------------------------------------------------
\* Every saved exchange is accounted for.

\* The requests that saved or will save an answer although no balance could be read.
Blind(u) == {h \in Handlers : /\ task[h].user = u /\ task[h].seen = 0
                              /\ task[h].pc \in {"answering", "charging"}}

\* Every exchange counted was saved, and a handler that is about to charge has saved one
\* that is not counted yet.  What nobody counts was saved by a request that read no
\* balance, each after a failed read of its own, or by one that died.
ExchangesInv ==
  /\ TypeOK
  /\ \A u \in Users :
       /\ burned[u] + Cardinality(Charging(u)) <= exchanges[u]
       /\ exchanges[u] + Cardinality(Blind(u))
            <= burned[u] + Cardinality(Charging(u)) + faults["crash"] + faults["read"]

LEMMA FiniteTasks ==
  ASSUME NEW S \in SUBSET Handlers
  PROVE  IsFiniteSet(S) /\ Cardinality(S) \in Nat
  BY FiniteHandlers, FS_Subset, FS_CardinalityType

\* A set of handlers that h enters, leaves, or that stays as it is.
LEMMA Enters ==
  ASSUME NEW S \in SUBSET Handlers, NEW h \in Handlers, h \notin S
  PROVE  Cardinality(S \cup {h}) = Cardinality(S) + 1
  BY FiniteTasks, FS_AddElement

LEMMA Leaves ==
  ASSUME NEW S \in SUBSET Handlers, NEW h \in S
  PROVE  Cardinality(S \ {h}) = Cardinality(S) - 1
  BY FiniteTasks, FS_RemoveElement

LEMMA InitExchanges == Init => ExchangesInv
<1> SUFFICES ASSUME Init PROVE ExchangesInv
  OBVIOUS
<1>1. TypeOK
  BY InitTypeOK
<1>2. ASSUME NEW u \in Users PROVE Charging(u) = {} /\ Blind(u) = {}
  BY DEF Init, Idle, Charging, Blind
<1>3. Cardinality({}) = 0
  BY FS_EmptySet
<1>4. /\ \A u \in Users : burned[u] = 0 /\ exchanges[u] = 0
      /\ faults["crash"] = 0 /\ faults["read"] = 0
  BY DEF Init, FaultKinds
<1> QED
  BY <1>1, <1>2, <1>3, <1>4 DEF ExchangesInv

\* What u's numbers are now, and the two sets of its requests.
LEMMA Numbers ==
  ASSUME TypeOK, NEW u \in Users
  PROVE  /\ burned[u] \in Nat /\ exchanges[u] \in Nat
         /\ faults["crash"] \in Nat /\ faults["read"] \in Nat
         /\ Charging(u) \in SUBSET Handlers /\ Blind(u) \in SUBSET Handlers
         /\ Cardinality(Charging(u)) \in Nat /\ Cardinality(Blind(u)) \in Nat
<1>1. Charging(u) \in SUBSET Handlers /\ Blind(u) \in SUBSET Handlers
  BY DEF Charging, Blind
<1>2. Cardinality(Charging(u)) \in Nat /\ Cardinality(Blind(u)) \in Nat
  BY <1>1, FiniteTasks
<1>3. burned[u] \in Nat /\ exchanges[u] \in Nat
  BY DEF TypeOK, MoneyOK
<1>4. faults["crash"] \in Nat /\ faults["read"] \in Nat
  BY DEF TypeOK, FaultKinds
<1> QED
  BY <1>1, <1>2, <1>3, <1>4

\* A step that neither saves nor burns for u, and after which no more of its requests
\* are blind.
LEMMA QuietExchanges ==
  ASSUME ExchangesInv, TypeOK', NEW u \in Users,
         burned'[u] = burned[u], exchanges'[u] = exchanges[u],
         Charging(u)' = Charging(u), Blind(u)' \subseteq Blind(u),
         faults'["crash"] >= faults["crash"], faults'["read"] >= faults["read"]
  PROVE  /\ burned'[u] + Cardinality(Charging(u)') <= exchanges'[u]
         /\ exchanges'[u] + Cardinality(Blind(u)')
              <= burned'[u] + Cardinality(Charging(u)') + faults'["crash"] + faults'["read"]
<1>1. TypeOK
  BY DEF ExchangesInv
<1>2. Cardinality(Blind(u)') \in Nat /\ Cardinality(Blind(u)') <= Cardinality(Blind(u))
  BY <1>1, Numbers, FiniteTasks, FS_Subset
<1>3. /\ burned[u] + Cardinality(Charging(u)) <= exchanges[u]
      /\ exchanges[u] + Cardinality(Blind(u))
           <= burned[u] + Cardinality(Charging(u)) + faults["crash"] + faults["read"]
  BY DEF ExchangesInv
<1>4. faults'["crash"] \in Nat /\ faults'["read"] \in Nat
  BY DEF TypeOK, FaultKinds
<1> DEFINE ch == Cardinality(Charging(u))
           bl == Cardinality(Blind(u))
           bn == Cardinality(Blind(u)')
<1>5. /\ burned[u] \in Nat /\ exchanges[u] \in Nat /\ ch \in Nat /\ bl \in Nat /\ bn \in Nat
      /\ faults["crash"] \in Nat /\ faults["read"] \in Nat /\ bn <= bl
      /\ burned[u] + ch <= exchanges[u]
      /\ exchanges[u] + bl <= burned[u] + ch + faults["crash"] + faults["read"]
  BY <1>1, <1>2, <1>3, Numbers
<1>6. Cardinality(Charging(u)') = ch
  OBVIOUS
<1> HIDE DEF ch, bl
<1> QED
  BY <1>4, <1>5, <1>6

\* The steps of the webhook, of Stripe and of the clock, and a request that gives up.
QuietStep == \/ \E h \in Handlers : \/ WebhookStep(h) \/ LeaveUncharged(h)
                                    \/ \E e \in Events : Deliver(h, e)
             \/ \E e \in Events : Pay(e) \/ Expire(e)
             \/ Tick \/ UNCHANGED vars

LEMMA QuietSteps ==
  ASSUME TypeOK, QuietStep
  PROVE  /\ burned' = burned /\ exchanges' = exchanges
         /\ faults'["crash"] >= faults["crash"] /\ faults'["read"] >= faults["read"]
         /\ \A u \in Users : Charging(u)' = Charging(u) /\ Blind(u)' \subseteq Blind(u)
<1>1. faults["crash"] \in Nat /\ faults["read"] \in Nat /\ task \in [Handlers -> Task]
  BY DEF TypeOK, FaultKinds, TaskOK
<1>2. ASSUME NEW h \in Handlers, WebhookStep(h) \/ LeaveUncharged(h)
      PROVE  /\ burned' = burned /\ exchanges' = exchanges
             /\ faults'["crash"] >= faults["crash"] /\ faults'["read"] >= faults["read"]
             /\ task[h].pc \in {"index", "insert", "read", "grant", "answering"}
             /\ task'[h].pc \in {"insert", "read", "grant", "idle"}
             /\ \A g \in Handlers : g # h => task'[g] = task[g]
  <2>1. burned' = burned /\ exchanges' = exchanges
    BY <1>2 DEF WebhookStep, EnsureIndex, RejectDuplicate, InsertEvent, Inserted, ReadBalance,
                GrantCredits, LeaveUncharged, money
  <2>2. faults' = faults \/ Fail("index") \/ Fail("read")
    BY <1>2 DEF WebhookStep, EnsureIndex, RejectDuplicate, InsertEvent, Inserted, ReadBalance,
                GrantCredits, LeaveUncharged
  <2>3. faults'["crash"] >= faults["crash"] /\ faults'["read"] >= faults["read"]
    BY <1>1, <2>2 DEF Fail, TypeOK, FaultKinds
  <2>4. /\ task[h].pc \in {"index", "insert", "read", "grant", "answering"}
        /\ task'[h].pc \in {"insert", "read", "grant", "idle"}
        /\ \A g \in Handlers : g # h => task'[g] = task[g]
    BY <1>1, <1>2 DEF WebhookStep, EnsureIndex, RejectDuplicate, InsertEvent, Inserted,
                ReadBalance, GrantCredits, LeaveUncharged, Finish, Idle, Task
  <2> QED
    BY <2>1, <2>3, <2>4
<1>3. ASSUME NEW h \in Handlers, NEW e \in Events, Deliver(h, e)
      PROVE  /\ burned' = burned /\ exchanges' = exchanges /\ faults' = faults
             /\ task[h].pc = "idle" /\ task'[h].pc = "index"
             /\ \A g \in Handlers : g # h => task'[g] = task[g]
  BY <1>1, <1>3 DEF Deliver, Admit, money
<1>4. ASSUME \/ \E e \in Events : Pay(e) \/ Expire(e)
             \/ Tick \/ UNCHANGED vars
      PROVE  burned' = burned /\ exchanges' = exchanges /\ faults' = faults /\ task' = task
  BY <1>4 DEF Pay, Expire, Tick, vars, money
<1>5. ASSUME NEW h \in Handlers, NEW u \in Users,
             task[h].pc # "charging", task'[h].pc \notin {"answering", "charging"},
             \A g \in Handlers : g # h => task'[g] = task[g]
      PROVE  Charging(u)' = Charging(u) /\ Blind(u)' \subseteq Blind(u)
  <2>1. \A g \in Handlers : g \in Charging(u)' <=> g \in Charging(u)
    BY <1>5 DEF Charging
  <2>2. \A g \in Handlers : g \in Blind(u)' => g \in Blind(u)
    BY <1>5 DEF Blind
  <2> QED
    BY <2>1, <2>2 DEF Charging, Blind
<1>6. ASSUME task' = task, NEW u \in Users
      PROVE  Charging(u)' = Charging(u) /\ Blind(u)' \subseteq Blind(u)
  BY <1>6 DEF Charging, Blind
<1>7. CASE \E h \in Handlers : WebhookStep(h) \/ LeaveUncharged(h)
  BY <1>2, <1>5, <1>7
<1>8. CASE \E h \in Handlers : \E e \in Events : Deliver(h, e)
  <2>1. PICK h \in Handlers, e \in Events : Deliver(h, e)
    BY <1>8
  <2>2. /\ burned' = burned /\ exchanges' = exchanges /\ faults' = faults
        /\ task[h].pc = "idle" /\ task'[h].pc = "index"
        /\ \A g \in Handlers : g # h => task'[g] = task[g]
    BY <1>3, <2>1
  <2> QED
    BY <1>1, <1>5, <2>2
<1>9. CASE \/ \E e \in Events : Pay(e) \/ Expire(e)
           \/ Tick \/ UNCHANGED vars
  BY <1>1, <1>4, <1>6, <1>9
<1> QED
  BY <1>7, <1>8, <1>9 DEF QuietStep

\* A step of a chat request h of u changes nothing of the other users.
LEMMA OthersQuiet ==
  ASSUME TypeOK, NEW h \in Handlers, NEW v \in Users, task[h].user # v,
         task'[h].user # v \/ task'[h].pc = "idle",
         \A g \in Handlers : g # h => task'[g] = task[g]
  PROVE  Charging(v)' = Charging(v) /\ Blind(v)' \subseteq Blind(v)
<1>1. \A g \in Handlers : g \in Charging(v)' <=> g \in Charging(v)
  BY DEF Charging
<1>2. \A g \in Handlers : g \in Blind(v)' => g \in Blind(v)
  BY DEF Blind
<1> QED
  BY <1>1, <1>2 DEF Charging, Blind

\* One request h of u starts, saves, charges or dies: who joins and leaves the two sets.
LEMMA OwnSets ==
  ASSUME TypeOK, NEW h \in Handlers, NEW u \in Users,
         \A g \in Handlers : g # h => task'[g] = task[g]
  PROVE  /\ Charging(u)' = (Charging(u) \ {h})
              \cup (IF task'[h].user = u /\ task'[h].pc = "charging" THEN {h} ELSE {})
         /\ Blind(u)' = (Blind(u) \ {h})
              \cup (IF /\ task'[h].user = u /\ task'[h].seen = 0
                       /\ task'[h].pc \in {"answering", "charging"} THEN {h} ELSE {})
<1>1. \A g \in Handlers : g \in Charging(u)' <=>
        \/ g \in Charging(u) /\ g # h
        \/ g = h /\ task'[h].user = u /\ task'[h].pc = "charging"
  BY DEF Charging
<1>2. \A g \in Handlers : g \in Blind(u)' <=>
        \/ g \in Blind(u) /\ g # h
        \/ /\ g = h /\ task'[h].user = u /\ task'[h].seen = 0
           /\ task'[h].pc \in {"answering", "charging"}
  BY DEF Blind
<1>3. /\ Charging(u) \subseteq Handlers /\ Charging(u)' \subseteq Handlers
      /\ Blind(u) \subseteq Handlers /\ Blind(u)' \subseteq Handlers
  BY DEF Charging, Blind
<1> QED
  BY <1>1, <1>2, <1>3

\* Only a request whose read has failed starts blind.
LEMMA CheckExchanges ==
  ASSUME ExchangesInv, TypeOK', NEW h \in Handlers, NEW v \in Users, CheckCredits(h, v)
  PROVE  ExchangesInv'
<1>1. TypeOK
  BY DEF ExchangesInv
<1>2. /\ burned' = burned /\ exchanges' = exchanges
      /\ task[h].pc = "idle"
      /\ task'[h].pc = "answering" /\ task'[h].user = v
      /\ \A g \in Handlers : g # h => task'[g] = task[g]
      /\ \/ faults' = faults /\ task'[h].seen > 0
         \/ faults'["read"] = faults["read"] + 1 /\ faults'["crash"] = faults["crash"]
  BY <1>1 DEF CheckCredits, Admit, money, Fail, TypeOK, TaskOK, FaultKinds, MoneyOK
<1>3. \A u \in Users : h \notin Charging(u) /\ h \notin Blind(u)
  BY <1>2 DEF Charging, Blind
<1>4. ASSUME NEW u \in Users
      PROVE  /\ burned'[u] + Cardinality(Charging(u)') <= exchanges'[u]
             /\ exchanges'[u] + Cardinality(Blind(u)')
                  <= burned'[u] + Cardinality(Charging(u)') + faults'["crash"] + faults'["read"]
  <2>1. Charging(u)' = Charging(u)
    BY <1>1, <1>2, <1>3, OwnSets
  <2>2. Blind(u)' = Blind(u) \/ (Blind(u)' = Blind(u) \cup {h} /\ task'[h].seen = 0)
    BY <1>1, <1>2, <1>3, OwnSets
  <2>3. faults["crash"] \in Nat /\ faults["read"] \in Nat
    BY <1>1 DEF TypeOK, FaultKinds
  <2>4. CASE Blind(u)' = Blind(u)
    BY <1>2, <2>1, <2>3, <2>4, QuietExchanges
  <2>5. CASE Blind(u)' = Blind(u) \cup {h} /\ task'[h].seen = 0
    <3> DEFINE ch == Cardinality(Charging(u))
               bl == Cardinality(Blind(u))
    <3>1. Cardinality(Blind(u)') = bl + 1
      BY <1>1, <1>3, <2>5, Enters, Numbers
    <3>2. faults'["read"] = faults["read"] + 1 /\ faults'["crash"] = faults["crash"]
      BY <1>2, <2>5
    <3>3. /\ burned[u] \in Nat /\ exchanges[u] \in Nat /\ ch \in Nat /\ bl \in Nat
      BY <1>1, Numbers
    <3>4. /\ burned[u] + ch <= exchanges[u]
          /\ exchanges[u] + bl <= burned[u] + ch + faults["crash"] + faults["read"]
      BY DEF ExchangesInv
    <3>5. Cardinality(Charging(u)') = ch
      BY <2>1
    <3> HIDE DEF ch, bl
    <3> QED
      BY <1>2, <2>3, <3>1, <3>2, <3>3, <3>4, <3>5
  <2> QED
    BY <2>2, <2>4, <2>5
<1> QED
  BY <1>4 DEF ExchangesInv

LEMMA PersistExchanges ==
  ASSUME ExchangesInv, TypeOK', NEW h \in Handlers, PersistAnswer(h)
  PROVE  ExchangesInv'
<1>1. TypeOK
  BY DEF ExchangesInv
<1> DEFINE v == task[h].user
<1>2. v \in Users /\ task[h].pc = "answering"
  BY <1>1 DEF PersistAnswer, TypeOK, TaskOK
<1>3. /\ burned' = burned /\ faults' = faults
      /\ exchanges'[v] = exchanges[v] + 1
      /\ \A u \in Users : u # v => exchanges'[u] = exchanges[u]
  BY <1>1, <1>2 DEF PersistAnswer, TypeOK, MoneyOK
<1>4. /\ task'[h].pc = "charging" /\ task'[h].user = v /\ task'[h].seen = task[h].seen
      /\ \A g \in Handlers : g # h => task'[g] = task[g]
  BY <1>1 DEF PersistAnswer, TypeOK, TaskOK, Task
<1>5. faults["crash"] \in Nat /\ faults["read"] \in Nat
  BY <1>1 DEF TypeOK, FaultKinds
<1>6. ASSUME NEW u \in Users
      PROVE  /\ burned'[u] + Cardinality(Charging(u)') <= exchanges'[u]
             /\ exchanges'[u] + Cardinality(Blind(u)')
                  <= burned'[u] + Cardinality(Charging(u)') + faults'["crash"] + faults'["read"]
  <2>1. h \notin Charging(u) /\ (h \in Blind(u) <=> u = v /\ task[h].seen = 0)
    BY <1>2 DEF Charging, Blind
  <2>2. CASE u # v
    <3>1. Charging(u)' = Charging(u) /\ Blind(u)' = Blind(u)
      BY <1>1, <1>4, <2>1, <2>2, OwnSets
    <3> QED
      BY <1>3, <1>5, <2>2, <3>1, QuietExchanges
  <2>3. CASE u = v
    <3>1. Charging(u)' = Charging(u) \cup {h} /\ Blind(u)' = Blind(u)
      BY <1>1, <1>4, <2>1, <2>3, OwnSets
    <3> DEFINE ch == Cardinality(Charging(u))
               bl == Cardinality(Blind(u))
    <3>2. Cardinality(Charging(u)') = ch + 1 /\ Cardinality(Blind(u)') = bl
      BY <1>1, <2>1, <3>1, Enters, Numbers
    <3>3. /\ burned[u] \in Nat /\ exchanges[u] \in Nat /\ ch \in Nat /\ bl \in Nat
      BY <1>1, Numbers
    <3>4. /\ burned[u] + ch <= exchanges[u]
          /\ exchanges[u] + bl <= burned[u] + ch + faults["crash"] + faults["read"]
      BY DEF ExchangesInv
    <3>5. burned'[u] = burned[u] /\ exchanges'[u] = exchanges[u] + 1 /\ faults' = faults
      BY <1>3, <2>3
    <3> HIDE DEF ch, bl
    <3> QED
      BY <1>5, <3>2, <3>3, <3>4, <3>5
  <2> QED
    BY <2>2, <2>3
<1> QED
  BY <1>6 DEF ExchangesInv

\* A blind request leaves both sets, any other is counted.
LEMMA ChargeExchanges ==
  ASSUME ExchangesInv, TypeOK', NEW h \in Handlers, Charge(h)
  PROVE  ExchangesInv'
<1>1. TypeOK
  BY DEF ExchangesInv
<1> DEFINE v == task[h].user
<1>2. v \in Users /\ task[h].pc = "charging" /\ task[h].seen \in Nat
  BY <1>1 DEF Charge, TypeOK, TaskOK, Task
<1>3. /\ exchanges' = exchanges /\ faults' = faults
      /\ burned'[v] = IF task[h].seen > 0 THEN burned[v] + 1 ELSE burned[v]
      /\ \A u \in Users : u # v => burned'[u] = burned[u]
  BY <1>1, <1>2 DEF Charge, TypeOK, MoneyOK
<1>4. /\ task'[h].pc = "idle"
      /\ \A g \in Handlers : g # h => task'[g] = task[g]
  BY <1>1 DEF Charge, Finish, Idle, TypeOK, TaskOK
<1>5. faults["crash"] \in Nat /\ faults["read"] \in Nat
  BY <1>1 DEF TypeOK, FaultKinds
<1>6. ASSUME NEW u \in Users
      PROVE  /\ burned'[u] + Cardinality(Charging(u)') <= exchanges'[u]
             /\ exchanges'[u] + Cardinality(Blind(u)')
                  <= burned'[u] + Cardinality(Charging(u)') + faults'["crash"] + faults'["read"]
  <2>1. (h \in Charging(u) <=> u = v) /\ (h \in Blind(u) <=> u = v /\ task[h].seen = 0)
    BY <1>2 DEF Charging, Blind
  <2>2. Charging(u)' = Charging(u) \ {h} /\ Blind(u)' = Blind(u) \ {h}
    BY <1>1, <1>4, OwnSets
  <2>3. CASE u # v
    <3>1. Charging(u)' = Charging(u) /\ Blind(u)' = Blind(u)
      BY <2>1, <2>2, <2>3
    <3> QED
      BY <1>3, <1>5, <2>3, <3>1, QuietExchanges
  <2>4. CASE u = v
    <3> DEFINE ch == Cardinality(Charging(u))
               bl == Cardinality(Blind(u))
    <3>1. Cardinality(Charging(u)') = ch - 1
      BY <1>1, <2>1, <2>2, <2>4, Leaves, Numbers
    <3>2. CASE task[h].seen > 0
      <4>1. Cardinality(Blind(u)') = bl /\ burned'[u] = burned[u] + 1
        BY <1>3, <2>1, <2>2, <2>4, <3>2
      <4>2. /\ burned[u] \in Nat /\ exchanges[u] \in Nat /\ ch \in Nat /\ bl \in Nat
        BY <1>1, Numbers
      <4>3. /\ burned[u] + ch <= exchanges[u]
            /\ exchanges[u] + bl <= burned[u] + ch + faults["crash"] + faults["read"]
        BY DEF ExchangesInv
      <4> HIDE DEF ch, bl
      <4> QED
        BY <1>3, <1>5, <3>1, <4>1, <4>2, <4>3
    <3>3. CASE task[h].seen = 0
      <4>1. Cardinality(Blind(u)') = bl - 1 /\ burned'[u] = burned[u]
        BY <1>1, <1>3, <2>1, <2>2, <2>4, <3>3, Leaves, Numbers
      <4>2. /\ burned[u] \in Nat /\ exchanges[u] \in Nat /\ ch \in Nat /\ bl \in Nat
        BY <1>1, Numbers
      <4>3. /\ burned[u] + ch <= exchanges[u]
            /\ exchanges[u] + bl <= burned[u] + ch + faults["crash"] + faults["read"]
        BY DEF ExchangesInv
      <4> HIDE DEF ch, bl
      <4> QED
        BY <1>3, <1>5, <3>1, <4>1, <4>2, <4>3
    <3> QED
      BY <1>2, <3>2, <3>3
  <2> QED
    BY <2>3, <2>4
<1> QED
  BY <1>6 DEF ExchangesInv

LEMMA CrashExchanges ==
  ASSUME ExchangesInv, TypeOK', NEW h \in Handlers, Crash(h)
  PROVE  ExchangesInv'
<1>1. TypeOK
  BY DEF ExchangesInv
<1>2. /\ exchanges' = exchanges /\ burned' = burned
      /\ faults'["crash"] = faults["crash"] + 1 /\ faults'["read"] = faults["read"]
  BY <1>1 DEF Crash, Fail, money, TypeOK, FaultKinds
<1>3. /\ task'[h].pc = "idle"
      /\ \A g \in Handlers : g # h => task'[g] = task[g]
  BY <1>1 DEF Crash, Finish, Idle, TypeOK, TaskOK
<1>4. faults["crash"] \in Nat /\ faults["read"] \in Nat
  BY <1>1 DEF TypeOK, FaultKinds
<1>5. ASSUME NEW u \in Users
      PROVE  /\ burned'[u] + Cardinality(Charging(u)') <= exchanges'[u]
             /\ exchanges'[u] + Cardinality(Blind(u)')
                  <= burned'[u] + Cardinality(Charging(u)') + faults'["crash"] + faults'["read"]
  <2> DEFINE ch == Cardinality(Charging(u))
             bl == Cardinality(Blind(u))
             cn == Cardinality(Charging(u)')
             bn == Cardinality(Blind(u)')
  <2>1. Charging(u)' = Charging(u) \ {h} /\ Blind(u)' = Blind(u) \ {h}
    BY <1>1, <1>3, OwnSets
  <2>2. cn \in {ch, ch - 1}
    <3>1. CASE h \in Charging(u)
      BY <1>1, <2>1, <3>1, Leaves, Numbers
    <3>2. CASE h \notin Charging(u)
      BY <2>1, <3>2
    <3> QED
      BY <3>1, <3>2
  <2>3. bn \in Nat /\ bn <= bl
    BY <1>1, <2>1, Numbers, FiniteTasks, FS_Subset
  <2>4. /\ burned[u] \in Nat /\ exchanges[u] \in Nat /\ ch \in Nat /\ bl \in Nat
    BY <1>1, Numbers
  <2>5. /\ burned[u] + ch <= exchanges[u]
        /\ exchanges[u] + bl <= burned[u] + ch + faults["crash"] + faults["read"]
    BY DEF ExchangesInv
  <2> HIDE DEF ch, bl, cn, bn
  <2>6. /\ burned'[u] + cn <= exchanges'[u]
        /\ exchanges'[u] + bn <= burned'[u] + cn + faults'["crash"] + faults'["read"]
    BY <1>2, <1>4, <2>2, <2>3, <2>4, <2>5
  <2> QED
    BY <2>6 DEF cn, bn
<1> QED
  BY <1>5 DEF ExchangesInv

LEMMA NextExchanges == ExchangesInv /\ [Next]_vars => ExchangesInv'
<1> SUFFICES ASSUME ExchangesInv, [Next]_vars PROVE ExchangesInv'
  OBVIOUS
<1>1. TypeOK /\ TypeOK'
  BY NextTypeOK DEF ExchangesInv
<1>2. CASE QuietStep
  <2>1. /\ burned' = burned /\ exchanges' = exchanges
        /\ faults'["crash"] >= faults["crash"] /\ faults'["read"] >= faults["read"]
        /\ \A u \in Users : Charging(u)' = Charging(u) /\ Blind(u)' \subseteq Blind(u)
    BY <1>1, <1>2, QuietSteps
  <2>2. ASSUME NEW u \in Users
        PROVE  /\ burned'[u] + Cardinality(Charging(u)') <= exchanges'[u]
               /\ exchanges'[u] + Cardinality(Blind(u)')
                    <= burned'[u] + Cardinality(Charging(u)') + faults'["crash"] + faults'["read"]
    BY <1>1, <2>1, QuietExchanges
  <2> QED
    BY <1>1, <2>2 DEF ExchangesInv
<1>3. ASSUME NEW h \in Handlers, NEW u \in Users, CheckCredits(h, u) PROVE ExchangesInv'
  BY <1>1, <1>3, CheckExchanges
<1>4. ASSUME NEW h \in Handlers, PersistAnswer(h) PROVE ExchangesInv'
  BY <1>1, <1>4, PersistExchanges
<1>5. ASSUME NEW h \in Handlers, Charge(h) PROVE ExchangesInv'
  BY <1>1, <1>5, ChargeExchanges
<1>6. ASSUME NEW h \in Handlers, Crash(h) PROVE ExchangesInv'
  BY <1>1, <1>6, CrashExchanges
<1> QED
  BY <1>2, <1>3, <1>4, <1>5, <1>6 DEF Next, ChatStep, QuietStep, Done

\* Whatever fails and however many requests of a user overlap: CREDIT_BURN never runs
\* ahead of the saved exchanges, and lags behind only by the requests about to charge and
\* by as many as have died or read no balance.
THEOREM ExchangesCounted == Spec => []ExchangesAccounted
<1>1. ExchangesInv => ExchangesAccounted
  <2> SUFFICES ASSUME ExchangesInv, NEW u \in Users
               PROVE  /\ burned[u] <= exchanges[u]
                      /\ exchanges[u] <= burned[u] + Cardinality(Charging(u))
                                                   + faults["crash"] + faults["read"]
    BY DEF ExchangesAccounted
  <2> DEFINE ch == Cardinality(Charging(u))
             bl == Cardinality(Blind(u))
  <2>1. /\ burned[u] \in Nat /\ exchanges[u] \in Nat /\ ch \in Nat /\ bl \in Nat
        /\ faults["crash"] \in Nat /\ faults["read"] \in Nat
    BY Numbers DEF ExchangesInv
  <2>2. /\ burned[u] + ch <= exchanges[u]
        /\ exchanges[u] + bl <= burned[u] + ch + faults["crash"] + faults["read"]
    BY DEF ExchangesInv
  <2> HIDE DEF ch, bl
  <2>3. burned[u] <= exchanges[u]
    BY <2>1, <2>2
  <2>4. exchanges[u] <= burned[u] + ch + faults["crash"] + faults["read"]
    BY <2>1, <2>2
  <2> QED
    BY <2>3, <2>4 DEF ch
<1> QED
  BY <1>1, InitExchanges, NextExchanges, PTL DEF Spec


-----------------------------------------------------------------------------
\* Sums.  The library's sum over a set is a recursion that takes one element
\* away at a time; these are the facts about it that the balances need.

Pick(s) == CHOOSE x \in s : TRUE
SumsOf(f, S, g) ==
  g = [s \in SUBSET S |-> IF s = {} THEN 0 ELSE f[Pick(s)] + g[s \ {Pick(s)}]]
Sums(f, S)  == CHOOSE g : SumsOf(f, S, g)
Total(f, S) == MapThenSumSet(LAMBDA e : f[e], S)

\* The library's sum is the value at S of a function that satisfies the recursion.
LEMMA TotalIsSums == ASSUME NEW f, NEW S PROVE Total(f, S) = Sums(f, S)[S]
  BY DEF Total, MapThenSumSet, MapThenFoldSet, Sums, SumsOf, Pick

\* A set of numbers that is not empty has a smallest one.
LEMMA LeastNat ==
  ASSUME NEW B \in SUBSET Nat, NEW k \in B
  PROVE  \E n \in B : \A m \in B : n <= m
<1>1. \E n \in B : \A m \in B : ~(<<m, n>> \in OpToRel(<, Nat))
  BY WFMin, NatLessThanWellFounded
<1>2. \A m, n \in B : <<m, n>> \in OpToRel(<, Nat) <=> m < n
  BY DEF OpToRel
<1>3. \A m, n \in B : ~(m < n) => n <= m
  OBVIOUS
<1> QED
  BY <1>1, <1>2, <1>3

LEMMA PickIn == ASSUME NEW s, s # {} PROVE Pick(s) \in s
  BY DEF Pick

\* Taking an element away makes a finite set smaller.
LEMMA Smaller ==
  ASSUME NEW s, IsFiniteSet(s), NEW x \in s
  PROVE  /\ IsFiniteSet(s \ {x}) /\ Cardinality(s \ {x}) \in Nat /\ Cardinality(s) \in Nat
         /\ Cardinality(s \ {x}) < Cardinality(s)
<1>1. IsFiniteSet(s \ {x}) /\ Cardinality(s \ {x}) = Cardinality(s) - 1
  BY FS_RemoveElement
<1>2. Cardinality(s) \in Nat /\ Cardinality(s \ {x}) \in Nat
  BY <1>1, FS_CardinalityType
<1> QED
  BY <1>1, <1>2

\* Two such functions agree on every finite set that both are defined on.
LEMMA SumsAgree ==
  ASSUME NEW f, NEW S, NEW T, NEW g, NEW h, SumsOf(f, S, g), SumsOf(f, T, h),
         NEW U, IsFiniteSet(U), U \subseteq S, U \subseteq T
  PROVE  g[U] = h[U]
<1> DEFINE B == {n \in Nat : \E u \in SUBSET U : Cardinality(u) = n /\ g[u] # h[u]}
<1>1. SUFFICES ASSUME g[U] # h[U] PROVE FALSE
  OBVIOUS
<1>2. Cardinality(U) \in B
  BY <1>1, FS_CardinalityType
<1>3. PICK n \in B : \A m \in B : n <= m
  <2> HIDE DEF B
  <2>1. B \in SUBSET Nat
    BY DEF B
  <2> QED
    BY <2>1, <1>2, LeastNat
<1>N. n \in Nat
  OBVIOUS
<1>4. PICK u \in SUBSET U : Cardinality(u) = n /\ g[u] # h[u]
  BY <1>3
<1>5. IsFiniteSet(u) /\ u \in SUBSET S /\ u \in SUBSET T
  BY FS_Subset
<1>6. u # {}
  <2>1. SUFFICES ASSUME u = {} PROVE FALSE
    OBVIOUS
  <2>2. g[u] = 0
    BY <1>5, <2>1 DEF SumsOf
  <2>3. h[u] = 0
    BY <1>5, <2>1 DEF SumsOf
  <2> QED
    BY <1>4, <2>2, <2>3
<1> DEFINE v == u \ {Pick(u)}
<1>7. Pick(u) \in u
  BY <1>6, PickIn
<1>8. Cardinality(v) \in Nat /\ Cardinality(v) < n /\ v \in SUBSET U
  BY <1>4, <1>5, <1>7, Smaller
<1>9. g[v] = h[v]
  <2>1. Cardinality(v) \notin B
    <3> HIDE DEF B, v
    <3> QED
      BY <1>3, <1>8, <1>N
  <2> QED
    BY <2>1, <1>8
<1>10. g[u] = f[Pick(u)] + g[v]
  BY <1>5, <1>6 DEF SumsOf
<1>11. h[u] = f[Pick(u)] + h[v]
  BY <1>5, <1>6 DEF SumsOf
<1> QED
  BY <1>4, <1>9, <1>10, <1>11

\* On a finite set the recursion has a solution.
LEMMA SumsExist ==
  ASSUME NEW f, NEW S, IsFiniteSet(S)
  PROVE  SumsOf(f, S, Sums(f, S))
<1> DEFINE Bad(s) == ~ SumsOf(f, s, Sums(f, s))
           B == {n \in Nat : \E s \in SUBSET S : Cardinality(s) = n /\ Bad(s)}
<1>1. SUFFICES ASSUME Bad(S) PROVE FALSE
  OBVIOUS
<1>2. Cardinality(S) \in B
  BY <1>1, FS_CardinalityType
<1>3. PICK n \in B : \A m \in B : n <= m
  <2> HIDE DEF B
  <2>1. B \in SUBSET Nat
    BY DEF B
  <2> QED
    BY <2>1, <1>2, LeastNat
<1>N. n \in Nat
  OBVIOUS
<1>4. PICK s \in SUBSET S : Cardinality(s) = n /\ Bad(s)
  BY <1>3
<1>5. IsFiniteSet(s)
  BY FS_Subset
<1> DEFINE G == [t \in SUBSET s |-> IF t = {} THEN 0
                  ELSE f[Pick(t)] + Sums(f, t \ {Pick(t)})[t \ {Pick(t)}]]
<1>6. ASSUME NEW t \in SUBSET s, t # s PROVE SumsOf(f, t, Sums(f, t)) /\ IsFiniteSet(t)
  <2>1. PICK x \in s : t \subseteq s \ {x}
    BY <1>6
  <2>2. /\ IsFiniteSet(s \ {x}) /\ Cardinality(s \ {x}) \in Nat
        /\ Cardinality(s \ {x}) < n
    BY <1>4, <1>5, Smaller
  <2>3. IsFiniteSet(t) /\ Cardinality(t) \in Nat /\ Cardinality(t) <= Cardinality(s \ {x})
    BY <2>1, <2>2, FS_Subset, FS_CardinalityType
  <2>4. Cardinality(t) \notin B
    <3> HIDE DEF B, Bad
    <3>1. Cardinality(t) < n
      BY <2>2, <2>3, <1>N
    <3> QED
      BY <3>1, <2>3, <1>3, <1>N
  <2>5. t \in SUBSET S
    OBVIOUS
  <2> QED
    BY <2>3, <2>4, <2>5
<1>7. ASSUME NEW t \in SUBSET s, t # s PROVE G[t] = Sums(f, t)[t]
  <2>1. CASE t = {}
    <3>1. Sums(f, t)[t] = 0
      BY <1>6, <1>7, <2>1 DEF SumsOf
    <3> QED
      BY <2>1, <3>1
  <2>2. CASE t # {}
    <3> DEFINE v == t \ {Pick(t)}
    <3>1. v \in SUBSET s /\ v # s /\ v \in SUBSET t
      BY <1>7, <2>2
    <3>2. SumsOf(f, t, Sums(f, t))
      BY <1>6, <1>7
    <3>3. SumsOf(f, v, Sums(f, v)) /\ IsFiniteSet(v)
      <4> HIDE DEF v
      <4> QED
        BY <1>6, <3>1
    <3>4. Sums(f, t)[v] = Sums(f, v)[v]
      <4> HIDE DEF v
      <4> QED
        BY <3>1, <3>2, <3>3, SumsAgree
    <3>5. Sums(f, t)[t] = f[Pick(t)] + Sums(f, t)[v]
      BY <2>2, <3>2 DEF SumsOf
    <3> QED
      BY <2>2, <3>4, <3>5
  <2> QED
    BY <2>1, <2>2
<1>8. \A t \in SUBSET s : G[t] = IF t = {} THEN 0 ELSE f[Pick(t)] + G[t \ {Pick(t)}]
  <2>1. SUFFICES ASSUME NEW t \in SUBSET s, t # {}
                 PROVE  G[t] = f[Pick(t)] + G[t \ {Pick(t)}]
    OBVIOUS
  <2> DEFINE v == t \ {Pick(t)}
  <2>2. v \in SUBSET s /\ v # s
    BY <2>1, PickIn
  <2>3. G[v] = Sums(f, v)[v]
    <3> HIDE DEF v, G
    <3> QED
      BY <1>7, <2>2
  <2>4. G[t] = f[Pick(t)] + Sums(f, v)[v]
    BY <2>1
  <2> QED
    BY <2>3, <2>4
<1>9. SumsOf(f, s, G)
  BY <1>8 DEF SumsOf
<1>10. SumsOf(f, s, Sums(f, s))
  <2> HIDE DEF G
  <2> QED
    BY <1>9 DEF Sums
<1> QED
  BY <1>4, <1>10

\* The sum over no element is 0.
LEMMA TotalEmpty == ASSUME NEW f PROVE Total(f, {}) = 0
<1>1. SumsOf(f, {}, Sums(f, {}))
  BY SumsExist, FS_EmptySet
<1>2. Sums(f, {})[{}] = 0
  BY <1>1 DEF SumsOf
<1> QED
  BY <1>2, TotalIsSums

\* The recursion, for the sum itself.
LEMMA TotalStep ==
  ASSUME NEW f, NEW S, IsFiniteSet(S), S # {}
  PROVE  Total(f, S) = f[Pick(S)] + Total(f, S \ {Pick(S)})
<1> DEFINE v == S \ {Pick(S)}
<1>1. IsFiniteSet(v) /\ v \subseteq S
  BY FS_Subset
<1>2. SumsOf(f, S, Sums(f, S)) /\ SumsOf(f, v, Sums(f, v))
  BY <1>1, SumsExist
<1>3. Sums(f, S)[S] = f[Pick(S)] + Sums(f, S)[v]
  BY <1>2 DEF SumsOf
<1>4. Sums(f, S)[v] = Sums(f, v)[v]
  <2> HIDE DEF v
  <2> QED
    BY <1>1, <1>2, SumsAgree
<1> QED
  BY <1>3, <1>4, TotalIsSums

\* A sum of natural numbers is one.
LEMMA TotalNat ==
  ASSUME NEW D, NEW f \in [D -> Nat], NEW S, IsFiniteSet(S), S \subseteq D
  PROVE  Total(f, S) \in Nat
<1> DEFINE B == {n \in Nat : \E s \in SUBSET S : Cardinality(s) = n /\ Total(f, s) \notin Nat}
<1>1. SUFFICES ASSUME Total(f, S) \notin Nat PROVE FALSE
  OBVIOUS
<1>2. Cardinality(S) \in B
  BY <1>1, FS_CardinalityType
<1>3. PICK n \in B : \A m \in B : n <= m
  <2> HIDE DEF B
  <2>1. B \in SUBSET Nat
    BY DEF B
  <2> QED
    BY <2>1, <1>2, LeastNat
<1>N. n \in Nat
  OBVIOUS
<1>4. PICK s \in SUBSET S : Cardinality(s) = n /\ Total(f, s) \notin Nat
  BY <1>3
<1>5. IsFiniteSet(s)
  BY FS_Subset
<1>6. s # {}
  BY <1>4, TotalEmpty
<1>7. Pick(s) \in s
  BY <1>6, PickIn
<1> DEFINE v == s \ {Pick(s)}
<1>8. Cardinality(v) \in Nat /\ Cardinality(v) < n /\ v \in SUBSET S
  BY <1>4, <1>5, <1>7, Smaller
<1>9. Total(f, v) \in Nat
  <2>1. Cardinality(v) \notin B
    <3> HIDE DEF B, v
    <3> QED
      BY <1>3, <1>8, <1>N
  <2> QED
    BY <2>1, <1>8
<1>10. f[Pick(s)] \in Nat
  BY <1>7
<1> QED
  BY <1>4, <1>5, <1>6, <1>9, <1>10, TotalStep

\* Any element of the set may be the one taken away.
LEMMA TotalRemove ==
  ASSUME NEW D, NEW f \in [D -> Nat], NEW S, IsFiniteSet(S), S \subseteq D, NEW e \in S
  PROVE  Total(f, S) = f[e] + Total(f, S \ {e})
<1> DEFINE Bad(s) == \E x \in s : Total(f, s) # f[x] + Total(f, s \ {x})
           B == {n \in Nat : \E s \in SUBSET S : Cardinality(s) = n /\ Bad(s)}
<1>1. SUFFICES ASSUME Bad(S) PROVE FALSE
  OBVIOUS
<1>2. Cardinality(S) \in B
  <2> HIDE DEF Bad
  <2> QED
    BY <1>1, FS_CardinalityType
<1>3. PICK n \in B : \A m \in B : n <= m
  <2> HIDE DEF B
  <2>1. B \in SUBSET Nat
    BY DEF B
  <2> QED
    BY <2>1, <1>2, LeastNat
<1>N. n \in Nat
  OBVIOUS
<1>4. PICK s \in SUBSET S : Cardinality(s) = n /\ Bad(s)
  <2> HIDE DEF Bad
  <2> QED
    BY <1>3
<1>5. PICK x \in s : Total(f, s) # f[x] + Total(f, s \ {x})
  BY <1>4
<1>6. IsFiniteSet(s) /\ s # {}
  BY FS_Subset
<1> DEFINE y == Pick(s)
<1>7. y \in s /\ Total(f, s) = f[y] + Total(f, s \ {y})
  BY <1>6, PickIn, TotalStep
<1>8. x # y
  BY <1>5, <1>7
<1>9. ASSUME NEW z \in s PROVE ~ Bad(s \ {z})
  <2>1. /\ Cardinality(s \ {z}) \in Nat /\ Cardinality(s \ {z}) < n
        /\ s \ {z} \in SUBSET S
    BY <1>4, <1>6, Smaller
  <2>2. Cardinality(s \ {z}) \notin B
    <3> HIDE DEF B
    <3> QED
      BY <1>3, <2>1, <1>N
  <2> HIDE DEF Bad
  <2> QED
    BY <2>1, <2>2
<1>10. Total(f, s \ {y}) = f[x] + Total(f, (s \ {y}) \ {x})
  BY <1>7, <1>8, <1>9
<1>11. Total(f, s \ {x}) = f[y] + Total(f, (s \ {x}) \ {y})
  BY <1>7, <1>8, <1>9
<1>12. (s \ {y}) \ {x} = (s \ {x}) \ {y}
  OBVIOUS
<1> DEFINE w == (s \ {x}) \ {y}
<1>13. Total(f, w) \in Nat
  BY <1>6, FS_Subset, TotalNat
<1>14. f[x] \in Nat /\ f[y] \in Nat
  BY <1>7
<1>15. Total(f, s) = f[y] + (f[x] + Total(f, w)) /\ Total(f, s \ {x}) = f[y] + Total(f, w)
  BY <1>7, <1>10, <1>11, <1>12
<1> HIDE DEF y, w
<1> QED
  BY <1>5, <1>13, <1>14, <1>15

\* Only the values on the set count.
LEMMA TotalSame ==
  ASSUME NEW f, NEW g, NEW S, IsFiniteSet(S), \A x \in S : f[x] = g[x]
  PROVE  Total(f, S) = Total(g, S)
<1>1. SumsOf(f, S, Sums(f, S)) /\ SumsOf(g, S, Sums(g, S))
  BY SumsExist
<1>2. \A s \in SUBSET S : s # {} => f[Pick(s)] = g[Pick(s)]
  BY PickIn
<1>3. SumsOf(g, S, Sums(f, S))
  BY <1>1, <1>2 DEF SumsOf
<1>4. Sums(f, S)[S] = Sums(g, S)[S]
  BY <1>1, <1>3, SumsAgree
<1> QED
  BY <1>4, TotalIsSums

\* One more element adds its value.
LEMMA TotalAdd ==
  ASSUME NEW D, NEW f \in [D -> Nat], NEW S, IsFiniteSet(S), S \subseteq D,
         NEW e \in D, e \notin S
  PROVE  Total(f, S \cup {e}) = Total(f, S) + f[e]
<1>1. IsFiniteSet(S \cup {e})
  BY FS_AddElement
<1>2. Total(f, S \cup {e}) = f[e] + Total(f, (S \cup {e}) \ {e})
  BY <1>1, TotalRemove
<1>3. (S \cup {e}) \ {e} = S
  OBVIOUS
<1>4. Total(f, S \cup {e}) = f[e] + Total(f, S)
  BY <1>2, <1>3
<1>5. f[e] \in Nat /\ Total(f, S) \in Nat
  BY TotalNat
<1> QED
  BY <1>4, <1>5

\* A larger set has a sum that is no smaller.
LEMMA TotalMonotone ==
  ASSUME NEW D, NEW f \in [D -> Nat], NEW S, NEW T, IsFiniteSet(T), T \subseteq D,
         S \subseteq T
  PROVE  Total(f, S) <= Total(f, T)
<1> DEFINE Bad(t) == S \subseteq t /\ ~ (Total(f, S) <= Total(f, t))
           B == {n \in Nat : \E t \in SUBSET T : Cardinality(t) = n /\ Bad(t)}
<1>1. SUFFICES ASSUME Bad(T) PROVE FALSE
  OBVIOUS
<1>2. Cardinality(T) \in B
  <2> HIDE DEF Bad
  <2> QED
    BY <1>1, FS_CardinalityType
<1>3. PICK n \in B : \A m \in B : n <= m
  <2> HIDE DEF B
  <2>1. B \in SUBSET Nat
    BY DEF B
  <2> QED
    BY <2>1, <1>2, LeastNat
<1>N. n \in Nat
  OBVIOUS
<1>4. PICK t \in SUBSET T : Cardinality(t) = n /\ Bad(t)
  <2> HIDE DEF Bad
  <2> QED
    BY <1>3
<1>5. IsFiniteSet(t) /\ IsFiniteSet(S) /\ Total(f, S) \in Nat
  BY FS_Subset, TotalNat
<1>6. PICK x \in t : x \notin S
  BY <1>4, <1>5
<1>7. /\ Cardinality(t \ {x}) \in Nat /\ Cardinality(t \ {x}) < n
      /\ t \ {x} \in SUBSET T /\ IsFiniteSet(t \ {x})
  BY <1>4, <1>5, Smaller
<1>8. Cardinality(t \ {x}) \notin B
  <2> HIDE DEF B
  <2> QED
    BY <1>3, <1>7, <1>N
<1>9. ~ Bad(t \ {x})
  <2> HIDE DEF Bad
  <2> QED
    BY <1>7, <1>8
<1>10. Total(f, S) <= Total(f, t \ {x})
  BY <1>4, <1>6, <1>9
<1>11. Total(f, t) = f[x] + Total(f, t \ {x}) /\ f[x] \in Nat
  BY <1>5, TotalRemove
<1>12. Total(f, t \ {x}) \in Nat
  BY <1>7, TotalNat
<1>13. Total(f, S) <= Total(f, t)
  BY <1>5, <1>10, <1>11, <1>12
<1> QED
  BY <1>4, <1>13

-----------------------------------------------------------------------------
\* No balance is larger than what was given and sold.

AppliedOf(u) == {e \in Events : Buyer[e] = u /\ applied[e] > 0}
Cap(u)       == SignupCredits + Total(Amount, AppliedOf(u))
Bought       == {e \in Events : paidAt[e] # Unpaid}
Holding(h)   == task[h].pc \in {"answering", "charging", "grant"}

\* The balance, and every old balance a handler keeps, is within what has been written for
\* purchases so far; and only finitely many purchases have been made.
BackedInv ==
  /\ IInv
  /\ IsFiniteSet(Bought)
  /\ \A u \in Users : credits[u] <= Cap(u)
  /\ \A h \in Handlers : Holding(h) => task[h].seen <= Cap(task[h].user)

\* Purchases written were paid for.
LEMMA AppliedBought ==
  ASSUME TypeOK, PaidBefore, IsFiniteSet(Bought), NEW u
  PROVE  /\ AppliedOf(u) \subseteq PaidBy(u)
         /\ PaidBy(u) \subseteq Events /\ IsFiniteSet(PaidBy(u)) /\ IsFiniteSet(AppliedOf(u))
         /\ Total(Amount, AppliedOf(u)) \in Nat
<1>1. AppliedOf(u) \subseteq PaidBy(u)
  BY DEF AppliedOf, PaidBy, PaidBefore
<1>2. PaidBy(u) \subseteq Bought /\ PaidBy(u) \subseteq Events
  BY DEF PaidBy, Bought
<1>3. IsFiniteSet(PaidBy(u)) /\ IsFiniteSet(AppliedOf(u))
  BY <1>1, <1>2, FS_Subset
<1>4. Total(Amount, AppliedOf(u)) \in Nat
  BY <1>1, <1>2, <1>3, TotalNat, CreditsAssumption DEF CreditsAssumption
<1> QED
  BY <1>1, <1>2, <1>3, <1>4

LEMMA InitBacked == Init => BackedInv
<1> SUFFICES ASSUME Init PROVE BackedInv
  OBVIOUS
<1>1. IInv
  BY InitIInv
<1>2. Bought = {}
  BY DEF Init, Bought
<1>3. IsFiniteSet(Bought)
  BY <1>2, FS_EmptySet
<1>4. ASSUME NEW u \in Users PROVE credits[u] <= Cap(u)
  <2>1. AppliedOf(u) = {}
    BY DEF Init, AppliedOf
  <2>2. Cap(u) = SignupCredits
    BY <2>1, TotalEmpty, CreditsAssumption DEF Cap, CreditsAssumption
  <2> QED
    BY <2>2, CreditsAssumption DEF Init, CreditsAssumption
<1>5. \A h \in Handlers : ~ Holding(h)
  BY DEF Init, Idle, Holding
<1> QED
  BY <1>1, <1>3, <1>4, <1>5 DEF BackedInv

\* A step that writes no purchase, and stores and keeps only what is within the cap.
LEMMA WithinCap ==
  ASSUME BackedInv, IInv', IsFiniteSet(Bought'), applied' = applied,
         \A u \in Users : credits'[u] <= Cap(u),
         \A h \in Handlers : Holding(h)' => task'[h].seen <= Cap(task'[h].user)
  PROVE  BackedInv'
<1>1. \A u : AppliedOf(u)' = AppliedOf(u)
  BY DEF AppliedOf
<1>2. \A u : Cap(u)' = Cap(u)
  BY <1>1 DEF Cap
<1> QED
  BY <1>2 DEF BackedInv

\* What each step does to the balances and to what handlers keep of them.
LEMMA CheckBacked ==
  ASSUME BackedInv, IInv', NEW h \in Handlers, NEW v \in Users, CheckCredits(h, v)
  PROVE  BackedInv'
<1>1. TypeOK /\ TypeOK' /\ PaidBefore
  BY DEF BackedInv, IInv
<1>2. /\ applied' = applied /\ credits' = credits /\ paidAt' = paidAt
      /\ task'[h].user = v /\ task'[h].seen \in {0, credits[v]}
      /\ \A g \in Handlers : g # h => task'[g] = task[g]
  BY <1>1 DEF CheckCredits, money, stripe, TypeOK, TaskOK
<1>3. IsFiniteSet(Bought')
  BY <1>2 DEF BackedInv, Bought
<1>4. 0 <= Cap(v)
  BY <1>1, AppliedBought, CreditsAssumption DEF BackedInv, Cap, CreditsAssumption
<1>5. task'[h].seen <= Cap(task'[h].user)
  BY <1>2, <1>4 DEF BackedInv
<1>6. \A g \in Handlers : Holding(g)' => task'[g].seen <= Cap(task'[g].user)
  BY <1>2, <1>5 DEF BackedInv, Holding
<1> QED
  BY <1>2, <1>3, <1>6, WithinCap DEF BackedInv

LEMMA ReadBacked ==
  ASSUME BackedInv, IInv', NEW h \in Handlers, ReadBalance(h)
  PROVE  BackedInv'
<1>1. TypeOK /\ TypeOK' /\ PaidBefore
  BY DEF BackedInv, IInv
<1>2. task[h].user \in Users
  BY <1>1, CreditsAssumption DEF ReadBalance, TypeOK, TaskOK, CreditsAssumption
<1>3. /\ applied' = applied /\ credits' = credits /\ paidAt' = paidAt
      /\ task'[h].user = task[h].user /\ task'[h].seen \in {0, credits[task[h].user]}
      /\ \A g \in Handlers : g # h => task'[g] = task[g]
  BY <1>1 DEF ReadBalance, money, stripe, TypeOK, TaskOK, Task
<1>4. IsFiniteSet(Bought')
  BY <1>3 DEF BackedInv, Bought
<1>5. 0 <= Cap(task[h].user)
  BY <1>1, AppliedBought, CreditsAssumption DEF BackedInv, Cap, CreditsAssumption
<1>6. task'[h].seen <= Cap(task'[h].user)
  BY <1>2, <1>3, <1>5 DEF BackedInv
<1>7. \A g \in Handlers : Holding(g)' => task'[g].seen <= Cap(task'[g].user)
  BY <1>3, <1>6 DEF BackedInv, Holding
<1> QED
  BY <1>3, <1>4, <1>7, WithinCap DEF BackedInv

LEMMA ChargeBacked ==
  ASSUME BackedInv, IInv', NEW h \in Handlers, Charge(h)
  PROVE  BackedInv'
<1>1. TypeOK /\ TypeOK' /\ PaidBefore
  BY DEF BackedInv, IInv
<1> DEFINE v == task[h].user
<1>2. v \in Users /\ task[h].seen \in Nat /\ Holding(h)
  BY <1>1 DEF Charge, TypeOK, TaskOK, Task, Holding
<1>3. /\ applied' = applied /\ paidAt' = paidAt
      /\ credits'[v] = credits[v] \/ (task[h].seen > 0 /\ credits'[v] = task[h].seen - 1)
      /\ \A u \in Users : u # v => credits'[u] = credits[u]
  BY <1>1, <1>2 DEF Charge, stripe, TypeOK, MoneyOK
<1>4. /\ ~ Holding(h)'
      /\ \A g \in Handlers : g # h => task'[g] = task[g]
  BY <1>1 DEF Charge, Finish, Idle, Holding, TypeOK, TaskOK
<1>5. IsFiniteSet(Bought')
  BY <1>3 DEF BackedInv, Bought
<1>6. Cap(v) \in Nat
  BY <1>1, AppliedBought, CreditsAssumption DEF BackedInv, Cap, CreditsAssumption
<1>7. credits[v] <= Cap(v) /\ task[h].seen <= Cap(v)
  BY <1>2 DEF BackedInv
<1>8. credits'[v] <= Cap(v)
  BY <1>2, <1>3, <1>6, <1>7
<1>9. \A u \in Users : credits'[u] <= Cap(u)
  BY <1>3, <1>8 DEF BackedInv
<1>10. \A g \in Handlers : Holding(g)' => task'[g].seen <= Cap(task'[g].user)
  BY <1>4 DEF BackedInv, Holding
<1> QED
  BY <1>3, <1>5, <1>9, <1>10, WithinCap

\* The credits of e are added to an old balance that does not hold them yet.
LEMMA GrantBacked ==
  ASSUME BackedInv, IInv', NEW h \in Handlers, GrantCredits(h)
  PROVE  BackedInv'
<1>1. TypeOK /\ TypeOK' /\ PaidBefore /\ OneWriter
  BY DEF BackedInv, IInv
<1>2. PICK e \in Events : e = task[h].event
  BY <1>1 DEF GrantCredits, TypeOK, TaskOK
<1>3. task[h].user = Buyer[e] /\ Buyer[e] \in Users /\ Holding(h) /\ Amount[e] \in Nat
  BY <1>1, <1>2, CreditsAssumption DEF GrantCredits, TypeOK, TaskOK, Holding, CreditsAssumption
<1>4. applied[e] = 0
  BY <1>1, <1>2 DEF GrantCredits, OneWriter, Writes
<1>5. /\ applied' = [applied EXCEPT ![e] = @ + 1] /\ paidAt' = paidAt
      /\ credits' = [credits EXCEPT ![Buyer[e]] = task[h].seen + Amount[e]]
  BY <1>2, <1>3 DEF GrantCredits
<1>6. applied'[e] = 1 /\ \A d \in Events : d # e => applied'[d] = applied[d]
  BY <1>1, <1>4, <1>5 DEF TypeOK, MoneyOK
<1>7. /\ credits'[Buyer[e]] = task[h].seen + Amount[e]
      /\ \A u \in Users : u # Buyer[e] => credits'[u] = credits[u]
  BY <1>1, <1>3, <1>5 DEF TypeOK, MoneyOK
<1>8. /\ ~ Holding(h)'
      /\ \A g \in Handlers : g # h => task'[g] = task[g]
  BY <1>1 DEF GrantCredits, Finish, Idle, Holding, TypeOK, TaskOK
<1>9. IsFiniteSet(Bought')
  BY <1>5 DEF BackedInv, Bought
<1>10. \A u \in Users : u # Buyer[e] => Cap(u)' = Cap(u)
  <2> SUFFICES ASSUME NEW u \in Users, u # Buyer[e] PROVE Cap(u)' = Cap(u)
    OBVIOUS
  <2>1. AppliedOf(u)' = AppliedOf(u)
    BY <1>6 DEF AppliedOf
  <2> QED
    BY <2>1 DEF Cap
<1>11. Cap(Buyer[e])' = Cap(Buyer[e]) + Amount[e]
  <2>1. AppliedOf(Buyer[e])' = AppliedOf(Buyer[e]) \cup {e}
    BY <1>6 DEF AppliedOf
  <2>2. e \notin AppliedOf(Buyer[e])
    BY <1>4 DEF AppliedOf
  <2>3. /\ IsFiniteSet(AppliedOf(Buyer[e])) /\ AppliedOf(Buyer[e]) \subseteq Events
        /\ Total(Amount, AppliedOf(Buyer[e])) \in Nat
    BY <1>1, AppliedBought DEF BackedInv
  <2>4. Total(Amount, AppliedOf(Buyer[e]) \cup {e}) = Total(Amount, AppliedOf(Buyer[e])) + Amount[e]
    BY <2>2, <2>3, TotalAdd, CreditsAssumption DEF CreditsAssumption
  <2> QED
    BY <1>3, <2>1, <2>3, <2>4, CreditsAssumption DEF Cap, CreditsAssumption
<1>12. \A u \in Users : Cap(u) \in Nat
  BY <1>1, AppliedBought, CreditsAssumption DEF BackedInv, Cap, CreditsAssumption
<1>13. task[h].seen <= Cap(Buyer[e]) /\ task[h].seen \in Nat
  BY <1>1, <1>3 DEF BackedInv, TypeOK, TaskOK, Task
<1>14. ASSUME NEW u \in Users PROVE credits'[u] <= Cap(u)'
  <2>1. CASE u = Buyer[e]
    BY <1>3, <1>7, <1>11, <1>12, <1>13, <2>1
  <2>2. CASE u # Buyer[e]
    BY <1>7, <1>10, <2>2 DEF BackedInv
  <2> QED
    BY <2>1, <2>2
<1>15. ASSUME NEW g \in Handlers, Holding(g)' PROVE (task[g].seen <= Cap(task[g].user))'
  <2>1. g # h /\ Holding(g)
    BY <1>8, <1>15 DEF Holding
  <2>2. task[g].user \in Users /\ task[g].seen \in Nat /\ task[g].seen <= Cap(task[g].user)
    BY <1>1, <2>1, CreditsAssumption
       DEF BackedInv, Holding, TypeOK, TaskOK, Task, CreditsAssumption
  <2>3. PICK u \in Users : u = task[g].user
    BY <2>2
  <2>4. Cap(u) \in Nat /\ task[g].seen <= Cap(u)
    BY <1>12, <2>2, <2>3
  <2>5. Cap(u)' >= Cap(u) /\ Cap(u)' \in Nat
    BY <1>3, <1>10, <1>11, <1>12
  <2>6. task[g].seen <= Cap(u)'
    BY <2>2, <2>4, <2>5
  <2>7. task'[g] = task[g]
    BY <1>8, <2>1
  <2>8. task'[g].user = u /\ task'[g].seen <= Cap(u)'
    BY <2>3, <2>6, <2>7
  <2> QED
    BY <2>8
<1> QED
  BY <1>9, <1>14, <1>15 DEF BackedInv

\* The other steps leave the balances and the purchases written alone.
LEMMA OtherBacked ==
  ASSUME BackedInv, IInv', Still, applied' = applied, IsFiniteSet(Bought'), [Next]_vars
  PROVE  BackedInv'
<1>1. TypeOK /\ TypeOK'
  BY DEF BackedInv, IInv
<1>2. ASSUME NEW h \in Handlers, Holding(h)' PROVE task'[h].seen <= Cap(task'[h].user)
  <2>1. task'[h].user \in Users
    BY <1>1, <1>2, CreditsAssumption DEF Holding, TypeOK, TaskOK, CreditsAssumption
  <2> QED
    BY <1>2, <2>1 DEF Still, Holding, BackedInv
<1>3. \A u \in Users : credits'[u] <= Cap(u)
  BY DEF Still, BackedInv
<1> QED
  BY <1>2, <1>3, WithinCap

LEMMA NextBacked ==
  ASSUME FaultBudget["index"] <= 1
  PROVE  BackedInv /\ [Next]_vars => BackedInv'
<1> SUFFICES ASSUME BackedInv, [Next]_vars PROVE BackedInv'
  OBVIOUS
<1>1. IInv' /\ TypeOK /\ TypeOK'
  BY NextIInv DEF BackedInv, IInv
<1>2. ASSUME NEW h \in Handlers, NEW u \in Users, CheckCredits(h, u) PROVE BackedInv'
  BY <1>1, <1>2, CheckBacked
<1>3. ASSUME NEW h \in Handlers, Charge(h) PROVE BackedInv'
  BY <1>1, <1>3, ChargeBacked
<1>4. ASSUME NEW h \in Handlers, ReadBalance(h) PROVE BackedInv'
  BY <1>1, <1>4, ReadBacked
<1>5. ASSUME NEW h \in Handlers, GrantCredits(h) PROVE BackedInv'
  BY <1>1, <1>5, GrantBacked
<1>6. ASSUME NEW h \in Handlers,
             \/ PersistAnswer(h) \/ LeaveUncharged(h) \/ EnsureIndex(h)
             \/ RejectDuplicate(h) \/ InsertEvent(h) \/ Crash(h)
      PROVE  BackedInv'
  <2>1. Still
    BY <1>1, <1>6, StillSteps
  <2>2. applied' = applied /\ paidAt' = paidAt
    BY <1>6 DEF PersistAnswer, LeaveUncharged, EnsureIndex, RejectDuplicate, InsertEvent,
                Inserted, Crash, money, stripe
  <2>3. IsFiniteSet(Bought')
    BY <2>2 DEF BackedInv, Bought
  <2> QED
    BY <1>1, <2>1, <2>2, <2>3, OtherBacked
<1>7. ASSUME NEW h \in Handlers, NEW e \in Events, Deliver(h, e) PROVE BackedInv'
  <2>1. /\ applied' = applied /\ credits' = credits /\ paidAt' = paidAt
        /\ ~ Holding(h)' /\ \A g \in Handlers : g # h => task'[g] = task[g]
    BY <1>1, <1>7 DEF Deliver, money, Holding, TypeOK, TaskOK
  <2>2. IsFiniteSet(Bought')
    BY <2>1 DEF BackedInv, Bought
  <2>3. \A g \in Handlers : Holding(g)' => task'[g].seen <= Cap(task'[g].user)
    BY <2>1 DEF BackedInv, Holding
  <2> QED
    BY <1>1, <2>1, <2>2, <2>3, WithinCap DEF BackedInv
<1>8. ASSUME NEW e \in Events, Pay(e) PROVE BackedInv'
  <2>1. /\ applied' = applied /\ credits' = credits /\ task' = task
        /\ paidAt' = [paidAt EXCEPT ![e] = today]
    BY <1>8 DEF Pay, money
  <2>2. Bought' = Bought \cup {e}
    <3>1. paidAt'[e] # Unpaid /\ \A d \in Events : d # e => paidAt'[d] = paidAt[d]
      BY <1>1, <2>1, CreditsAssumption DEF TypeOK, StripeOK, Unpaid, CreditsAssumption
    <3>2. \A d \in Events : d \in Bought' <=> d \in Bought \cup {e}
      BY <3>1 DEF Bought
    <3> QED
      BY <3>2 DEF Bought
  <2>3. IsFiniteSet(Bought')
    BY <2>2, FS_AddElement DEF BackedInv
  <2>4. Still
    BY <2>1 DEF Still
  <2> QED
    BY <1>1, <2>1, <2>3, <2>4, OtherBacked
<1>9. ASSUME UNCHANGED <<applied, credits, task, paidAt>> PROVE BackedInv'
  <2>1. IsFiniteSet(Bought')
    BY <1>9 DEF BackedInv, Bought
  <2>2. Still
    BY <1>9 DEF Still
  <2> QED
    BY <1>1, <1>9, <2>1, <2>2, OtherBacked
<1>10. ASSUME (\E e \in Events : Expire(e)) \/ Tick \/ Done \/ UNCHANGED vars
       PROVE  UNCHANGED <<applied, credits, task, paidAt>>
  BY <1>10 DEF Expire, Tick, Done, vars, money, stripe
<1> QED
  BY <1>2, <1>3, <1>4, <1>5, <1>6, <1>7, <1>8, <1>9, <1>10 DEF Next, ChatStep, WebhookStep

\* However many requests of a user overlap, whatever fails and however stale the balances
\* that handlers store are: as long as building the unique index fails no more than once,
\* nobody ever holds more than the signup allowance plus the plans paid for.
THEOREM BalancesBacked ==
  ASSUME FaultBudget["index"] <= 1
  PROVE  Spec => []BalanceBacked
<1>1. BackedInv => BalanceBacked
  <2> SUFFICES ASSUME BackedInv, NEW u \in Users
               PROVE  credits[u] <= SignupCredits
                                      + MapThenSumSet(LAMBDA e : Amount[e], PaidBy(u))
    BY DEF BalanceBacked
  <2>1. TypeOK /\ PaidBefore /\ IsFiniteSet(Bought) /\ credits[u] <= Cap(u)
    BY DEF BackedInv, IInv
  <2>2. /\ AppliedOf(u) \subseteq PaidBy(u) /\ PaidBy(u) \subseteq Events
        /\ IsFiniteSet(PaidBy(u)) /\ Total(Amount, AppliedOf(u)) \in Nat
    BY <2>1, AppliedBought
  <2>3. /\ Total(Amount, AppliedOf(u)) <= Total(Amount, PaidBy(u))
        /\ Total(Amount, PaidBy(u)) \in Nat
    BY <2>2, TotalMonotone, TotalNat, CreditsAssumption DEF CreditsAssumption
  <2>4. credits[u] \in Nat /\ SignupCredits \in Nat
    BY <2>1, CreditsAssumption DEF TypeOK, MoneyOK, CreditsAssumption
  <2>5. credits[u] <= SignupCredits + Total(Amount, PaidBy(u))
    BY <2>1, <2>2, <2>3, <2>4 DEF Cap
  <2> QED
    BY <2>5 DEF Total
<1> QED
  BY <1>1, InitBacked, NextBacked, PTL DEF Spec

-----------------------------------------------------------------------------
\* The balance of a user whose requests never overlap.

\* What has been written for e.
Worth == [e \in Events |-> applied[e] * Amount[e]]
Of(u) == {e \in Events : Buyer[e] = u}

LEMMA WorthNat == ASSUME TypeOK PROVE Worth \in [Events -> Nat]
<1>1. ASSUME NEW e \in Events PROVE applied[e] * Amount[e] \in Nat
  BY CreditsAssumption DEF TypeOK, MoneyOK, CreditsAssumption
<1> QED
  BY <1>1 DEF Worth

\* The sum over the purchases of u is the sum of their worth.
LEMMA AppliedToTotal ==
  ASSUME IsFiniteSet(Events), NEW u
  PROVE  AppliedTo(u) = Total(Worth, Of(u))
<1> DEFINE Rec(g) == g = [s \in SUBSET Of(u) |-> IF s = {} THEN 0
                            ELSE applied[Pick(s)] * Amount[Pick(s)] + g[s \ {Pick(s)}]]
<1>1. AppliedTo(u) = (CHOOSE g : Rec(g))[Of(u)]
  BY DEF AppliedTo, Of, MapThenSumSet, MapThenFoldSet, Pick
<1>2. IsFiniteSet(Of(u))
  BY FS_Subset DEF Of
<1>3. ASSUME NEW g PROVE Rec(g) <=> SumsOf(Worth, Of(u), g)
  <2>1. \A s \in SUBSET Of(u) : s # {} => Worth[Pick(s)] = applied[Pick(s)] * Amount[Pick(s)]
    BY PickIn DEF Of, Worth
  <2> QED
    BY <2>1 DEF SumsOf
<1>4. Rec(Sums(Worth, Of(u))) /\ SumsOf(Worth, Of(u), Sums(Worth, Of(u)))
  <2> HIDE DEF Rec
  <2> QED
    BY <1>2, <1>3, SumsExist
<1> DEFINE c == CHOOSE g : Rec(g)
<1>5. Rec(c)
  <2> HIDE DEF Rec
  <2> QED
    BY <1>4
<1>6. SumsOf(Worth, Of(u), c)
  <2> HIDE DEF Rec, c
  <2> QED
    BY <1>3, <1>5
<1>7. c[Of(u)] = Sums(Worth, Of(u))[Of(u)]
  <2> HIDE DEF c
  <2> QED
    BY <1>2, <1>4, <1>6, SumsAgree
<1> QED
  BY <1>1, <1>7, TotalIsSums

\* What is on the balance and what was burned come from the signup and the purchases.
SettledInv ==
  /\ SInv
  /\ \A u \in Users : credits[u] + burned[u] = SignupCredits + Total(Worth, Of(u))

LEMMA InitSettled == IsFiniteSet(Events) /\ Init => SettledInv
<1> SUFFICES ASSUME IsFiniteSet(Events), Init PROVE SettledInv
  OBVIOUS
<1>1. ASSUME NEW u PROVE Total(Worth, Of(u)) = 0
  <2>1. \A s \in SUBSET Events : s = {} \/ Pick(s) \in Events
    BY PickIn
  <2>2. SumsOf(Worth, Of(u), [s \in SUBSET Of(u) |-> 0])
    <3>1. \A e \in Events : Worth[e] = 0
      BY CreditsAssumption DEF Init, Worth, CreditsAssumption
    <3>2. ASSUME NEW s \in SUBSET Of(u), s # {} PROVE Worth[Pick(s)] + 0 = 0
      BY <3>1, <3>2, PickIn DEF Of
    <3> QED
      BY <3>2 DEF SumsOf
  <2>3. IsFiniteSet(Of(u))
    BY FS_Subset DEF Of
  <2>4. SumsOf(Worth, Of(u), Sums(Worth, Of(u)))
    BY <2>3, SumsExist
  <2>5. Sums(Worth, Of(u))[Of(u)] = [s \in SUBSET Of(u) |-> 0][Of(u)]
    BY <2>2, <2>3, <2>4, SumsAgree
  <2> QED
    BY <2>5, TotalIsSums
<1>2. \A u \in Users : credits[u] + burned[u] = SignupCredits
  BY CreditsAssumption DEF Init, CreditsAssumption
<1>3. SignupCredits \in Nat
  BY CreditsAssumption DEF CreditsAssumption
<1> QED
  BY <1>1, <1>2, <1>3, InitSInv DEF SettledInv

\* A step that moves neither the balances nor the purchases written.
LEMMA SettledFrame ==
  ASSUME SettledInv, SInv', UNCHANGED <<credits, burned, applied>>
  PROVE  SettledInv'
<1>1. Worth' = Worth
  BY DEF Worth
<1> QED
  BY <1>1 DEF SettledInv, Of

\* A charge moves one credit from the balance to the burned ones.
LEMMA ChargeSettled ==
  ASSUME SettledInv, SInv', NEW h \in Handlers, Charge(h)
  PROVE  SettledInv'
<1>1. TypeOK /\ Serial
  BY DEF SettledInv, SInv, IInv
<1> DEFINE v == task[h].user
<1>2. v \in Users /\ task[h].seen \in Nat /\ task[h].seen = credits[v]
  <2>1. v \in Users /\ task[h].seen \in Nat /\ task[h].pc = "charging"
    BY <1>1 DEF Charge, TypeOK, TaskOK, Task
  <2> QED
    BY <1>1, <2>1 DEF Serial, Fresh
<1>3. applied' = applied
  BY DEF Charge
<1>4. CASE task[h].seen > 0
  <2>1. /\ credits'[v] = credits[v] - 1 /\ burned'[v] = burned[v] + 1
        /\ \A u \in Users : u # v => credits'[u] = credits[u] /\ burned'[u] = burned[u]
    BY <1>1, <1>2, <1>4 DEF Charge, TypeOK, MoneyOK
  <2>2. \A u \in Users : credits[u] \in Nat /\ burned[u] \in Nat
    BY <1>1 DEF TypeOK, MoneyOK
  <2>3. \A u \in Users : credits'[u] + burned'[u] = credits[u] + burned[u]
    BY <1>2, <2>1, <2>2
  <2>4. Worth' = Worth
    BY <1>3 DEF Worth
  <2> QED
    BY <2>3, <2>4 DEF SettledInv, Of
<1>5. CASE ~ (task[h].seen > 0)
  <2>1. UNCHANGED <<credits, burned>>
    BY <1>5 DEF Charge
  <2> QED
    BY <1>3, <2>1, SettledFrame
<1> QED
  BY <1>4, <1>5

\* A grant adds what it writes for its event.
LEMMA GrantSettled ==
  ASSUME IsFiniteSet(Events), SettledInv, SInv', NEW h \in Handlers, GrantCredits(h)
  PROVE  SettledInv'
<1>1. TypeOK /\ Serial /\ OneWriter /\ TypeOK'
  BY DEF SettledInv, SInv, IInv
<1>2. PICK e \in Events : e = task[h].event
  BY <1>1 DEF GrantCredits, TypeOK, TaskOK
<1>3. task[h].user = Buyer[e] /\ Buyer[e] \in Users /\ Amount[e] \in Nat /\ e \in Of(Buyer[e])
  BY <1>1, <1>2, CreditsAssumption DEF GrantCredits, TypeOK, TaskOK, Of, CreditsAssumption
<1>4. applied[e] = 0
  BY <1>1, <1>2 DEF GrantCredits, OneWriter, Writes
<1>5. task[h].seen = credits[Buyer[e]]
  BY <1>1, <1>3 DEF GrantCredits, Serial, Fresh
<1>6. /\ applied' = [applied EXCEPT ![e] = @ + 1] /\ burned' = burned
      /\ credits' = [credits EXCEPT ![Buyer[e]] = task[h].seen + Amount[e]]
  BY <1>2, <1>3 DEF GrantCredits
<1>7. applied'[e] = 1 /\ \A d \in Events : d # e => applied'[d] = applied[d]
  BY <1>1, <1>4, <1>6 DEF TypeOK, MoneyOK
<1>8. /\ credits'[Buyer[e]] = credits[Buyer[e]] + Amount[e]
      /\ \A u \in Users : u # Buyer[e] => credits'[u] = credits[u]
  BY <1>1, <1>3, <1>5, <1>6 DEF TypeOK, MoneyOK
<1>9. /\ Worth[e] = 0 /\ Worth'[e] = Amount[e]
      /\ \A d \in Events : d # e => Worth'[d] = Worth[d]
  <2>1. 0 * Amount[e] = 0 /\ 1 * Amount[e] = Amount[e]
    BY <1>3
  <2> QED
    BY <1>4, <1>7, <2>1 DEF Worth
<1>10. Worth \in [Events -> Nat] /\ Worth' \in [Events -> Nat]
  <2>1. \A d \in Events : applied'[d] * Amount[d] \in Nat
    BY <1>1, CreditsAssumption DEF TypeOK, MoneyOK, CreditsAssumption
  <2> QED
    BY <1>1, <2>1, WorthNat DEF Worth
<1>11. PICK w : w = Worth'
  OBVIOUS
<1>12. ASSUME NEW u \in Users, u # Buyer[e] PROVE Total(w, Of(u)) = Total(Worth, Of(u))
  <2>1. IsFiniteSet(Of(u)) /\ \A d \in Of(u) : w[d] = Worth[d]
    BY <1>9, <1>11, <1>12, FS_Subset DEF Of
  <2> QED
    BY <2>1, TotalSame
<1>13. Total(w, Of(Buyer[e])) = Total(Worth, Of(Buyer[e])) + Amount[e]
  <2> DEFINE S == Of(Buyer[e])
             T == S \ {e}
  <2>1. IsFiniteSet(S) /\ IsFiniteSet(T) /\ S \subseteq Events /\ e \in S
    BY <1>3, FS_Subset DEF Of
  <2>2. Total(w, S) = w[e] + Total(w, T)
    BY <1>10, <1>11, <2>1, TotalRemove
  <2>3. Total(Worth, S) = Worth[e] + Total(Worth, T)
    BY <1>10, <2>1, TotalRemove
  <2>4. Total(w, T) = Total(Worth, T)
    <3>1. \A d \in T : w[d] = Worth[d]
      BY <1>9, <1>11, <2>1
    <3> HIDE DEF T
    <3> QED
      BY <2>1, <3>1, TotalSame
  <2>5. Total(Worth, T) \in Nat
    BY <1>10, <2>1, TotalNat
  <2>6. w[e] = Amount[e] /\ Worth[e] = 0
    BY <1>9, <1>11
  <2> HIDE DEF S, T
  <2>7. Total(w, S) = Total(Worth, S) + Amount[e]
    BY <1>3, <2>2, <2>3, <2>4, <2>5, <2>6
  <2> QED
    BY <2>7 DEF S
<1>14. \A u \in Users : credits[u] \in Nat /\ burned[u] \in Nat /\ SignupCredits \in Nat
  BY <1>1, CreditsAssumption DEF TypeOK, MoneyOK, CreditsAssumption
<1>15. \A u \in Users : credits[u] + burned[u] = SignupCredits + Total(Worth, Of(u))
  BY DEF SettledInv
<1>16. \A u \in Users : Total(Worth, Of(u)) \in Nat
  <2>1. ASSUME NEW u \in Users PROVE Total(Worth, Of(u)) \in Nat
    <3>1. IsFiniteSet(Of(u)) /\ Of(u) \subseteq Events
      BY FS_Subset DEF Of
    <3> QED
      BY <1>10, <3>1, TotalNat
  <2> QED
    BY <2>1
<1>17. ASSUME NEW u \in Users PROVE credits'[u] + burned'[u] = SignupCredits + Total(w, Of(u))
  <2>1. CASE u = Buyer[e]
    <3>1. credits'[u] = credits[u] + Amount[e] /\ burned'[u] = burned[u]
      BY <1>6, <1>8, <2>1
    <3>2. Total(w, Of(u)) = Total(Worth, Of(u)) + Amount[e]
      BY <1>13, <2>1
    <3> DEFINE t == Total(Worth, Of(u))
               n == Total(w, Of(u))
    <3>3. t \in Nat /\ credits[u] + burned[u] = SignupCredits + t /\ n = t + Amount[e]
      BY <1>15, <1>16, <3>2
    <3>4. credits[u] \in Nat /\ burned[u] \in Nat /\ SignupCredits \in Nat
      BY <1>14
    <3> HIDE DEF t, n
    <3>5. credits'[u] + burned'[u] = SignupCredits + n
      BY <1>3, <3>1, <3>3, <3>4
    <3> QED
      BY <3>5 DEF n
  <2>2. CASE u # Buyer[e]
    BY <1>6, <1>8, <1>12, <1>15, <2>2
  <2> QED
    BY <2>1, <2>2
<1> QED
  BY <1>11, <1>17 DEF SettledInv, Of

LEMMA NextSettled ==
  ASSUME MaxPerUser = 1, FaultBudget["read"] = 0, FaultBudget["index"] <= 1,
         IsFiniteSet(Events)
  PROVE  SettledInv /\ [Next]_vars => SettledInv'
<1> SUFFICES ASSUME SettledInv, [Next]_vars PROVE SettledInv'
  OBVIOUS
<1>1. SInv'
  BY NextSInv DEF SettledInv
<1>2. ASSUME NEW h \in Handlers, Charge(h) PROVE SettledInv'
  BY <1>1, <1>2, ChargeSettled
<1>3. ASSUME NEW h \in Handlers, GrantCredits(h) PROVE SettledInv'
  BY <1>1, <1>3, GrantSettled
<1>4. \/ \E h \in Handlers : Charge(h) \/ GrantCredits(h)
      \/ UNCHANGED <<credits, burned, applied>>
  BY DEF Next, ChatStep, WebhookStep, CheckCredits, PersistAnswer, LeaveUncharged, EnsureIndex,
         RejectDuplicate, InsertEvent, Inserted, ReadBalance, Crash, Deliver, Pay, Expire,
         Tick, Done, vars, money
<1> QED
  BY <1>1, <1>2, <1>3, <1>4, SettledFrame

\* Where the requests of one user never overlap and balances can be read, no credit is lost
\* or made up: the balance is the signup allowance plus the credits written for purchases
\* minus the credits burned, whatever handlers die.
THEOREM BalancesSettled ==
  ASSUME MaxPerUser = 1, FaultBudget["read"] = 0, FaultBudget["index"] <= 1,
         IsFiniteSet(Events)
  PROVE  Spec => []BalanceSettled
<1>1. Init => SettledInv
  BY InitSettled
<1>2. SettledInv /\ [Next]_vars => SettledInv'
  BY NextSettled
<1>3. SettledInv => BalanceSettled
  BY AppliedToTotal DEF SettledInv, BalanceSettled
<1> QED
  BY <1>1, <1>2, <1>3, PTL DEF Spec

==============================================================================
