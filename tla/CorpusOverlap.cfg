\* Two uploads of different files overlap; sync mode.
SPECIFICATION Spec
CONSTANTS
  report = report  notes = notes  t1 = t1  t2 = t2  web1 = web1  web2 = web2
  Nothing = Nothing
  Deployments <- Plain
  Docs = {report, notes}
  Readable = {report, notes}
  Name <- OwnName
  Size <- Bytes
  Quota = 3
  Threads = {t1, t2}
  Procs = {web1}
  Writing <- Both
  Asking <- Both
  MaxWriters = 2
  MaxFailing = 0
SYMMETRY Twins
INVARIANT
  SucceededFindable
