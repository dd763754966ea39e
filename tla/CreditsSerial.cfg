\* Two users whose own requests never overlap; no faults.
SPECIFICATION FairSpec
CONSTANTS
  alice = alice  bob = bob  starter = starter  pro = pro  other = other
  NoUser = NoUser  NoEvent = NoEvent
  Users = {alice, bob}
  Handlers = {t1, t2}
  Events = {starter, pro, other}
  Buyer <- TwoBuyers
  Amount <- WithOther
  FaultBudget <- NoFaults
  SignupCredits = 1
  RetryDays = 1
  TtlDays = 3
  MaxPerUser = 1
  MaxExchanges = 1
  MaxAttempts = 2
  MaxDay = 1
INVARIANT
  BalanceSettled
PROPERTIES
  ImplementsLedger
  PurchasesCredited
