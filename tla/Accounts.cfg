\* Three threads of two processes, two addresses; the index is new or old, and
\* one build may fail.
SPECIFICATION Spec
CONSTANTS
  ann = ann  bea = bea  t1 = t1  t2 = t2  t3 = t3  p1 = p1  p2 = p2
  Addresses = {ann, bea}
  Passwords = {x, y}
  GoogleGives <- Google
  Threads = {t1, t2, t3}
  Procs = {p1, p2}
  ProcOf <- Homes
  None = None
  MaxRequests = 3
  MaxIndexFailures = 1
SYMMETRY Same
INVARIANTS
  TypeOK
  RegisteredCanLogIn
  OneAccountPerAddress
CHECK_DEADLOCK FALSE
