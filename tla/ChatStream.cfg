SPECIFICATION Spec
CONSTANTS
  Requests = {r1, r2}
  MaxAttempts = 3
  MaxWords = 2
  Notice = Notice
  NoDocs = NoDocs
  None = None
INVARIANTS
  TypeOK
  KeptWhole
  SavedAsSent
PROPERTIES
  RequestsEnd
CHECK_DEADLOCK FALSE
