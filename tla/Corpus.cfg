\* One upload or deletion at a time, questions at any time, two web processes;
\* one call whose failure leaves something behind.
SPECIFICATION FairSpec
CONSTANTS
  report = report  notes = notes  t1 = t1  t2 = t2  web1 = web1  web2 = web2
  Nothing = Nothing
  Deployments <- Either
  Docs = {report, notes}
  Readable = {report, notes}
  Name <- SameName
  Size <- Bytes
  Quota = 3
  Threads = {t1, t2}
  Procs = {web1, web2}
  Writing <- Scribe
  Asking <- Reader
  MaxWriters = 1
  MaxFailing = 1
INVARIANTS
  TypeOK
  RowsMatchFiles
  SucceededIndexed
  VectorCacheFresh
PROPERTIES
  OthersKept
  UploadsFinish
