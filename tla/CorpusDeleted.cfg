\* One thread, one request after the other: upload, ask, delete.
SPECIFICATION Spec
CONSTANTS
  report = report  notes = notes  t1 = t1  t2 = t2  web1 = web1  web2 = web2
  Nothing = Nothing
  Deployments <- Plain
  Docs = {report}
  Readable = {report}
  Name <- SameName
  Size <- Bytes
  Quota = 2
  Threads = {t1}
  Procs = {web1}
  Writing <- One
  Asking <- One
  MaxWriters = 1
  MaxFailing = 0
INVARIANT
  DeletedForgotten
