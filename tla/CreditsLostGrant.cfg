\* A chat and the delivery of a purchase of the same user overlap; no faults.
SPECIFICATION Spec
CONSTANTS
  alice = alice  bob = bob  starter = starter  pro = pro  other = other
  NoUser = NoUser  NoEvent = NoEvent
  Users = {alice}
  Handlers = {t1, t2}
  Events = {pro}
  Buyer <- ToAlice
  Amount <- Plans
  FaultBudget <- NoFaults
  SignupCredits = 1
  RetryDays = 1
  TtlDays = 3
  MaxPerUser = 2
  MaxExchanges = 1
  MaxAttempts = 1
  MaxDay = 1
INVARIANT
  GrantsKept
