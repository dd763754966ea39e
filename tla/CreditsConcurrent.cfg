\* Requests of one user overlap, and one fault of each kind may happen.
SPECIFICATION Spec
CONSTANTS
  alice = alice  bob = bob  starter = starter  pro = pro  other = other
  NoUser = NoUser  NoEvent = NoEvent
  Users = {alice}
  Handlers = {t1, t2, t3}
  Events = {pro}
  Buyer <- ToAlice
  Amount <- Plans
  FaultBudget <- OneFault
  SignupCredits = 1
  RetryDays = 1
  TtlDays = 3
  MaxPerUser = 3
  MaxExchanges = 1
  MaxAttempts = 3
  MaxDay = 3
SYMMETRY Threads
INVARIANTS
  TypeOK
  CreditedAtMostOnce
  RecordOutlivesRetries
  BalanceBacked
  ExchangesAccounted
