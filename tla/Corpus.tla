------------------------------- MODULE Corpus -------------------------------
(***************************************************************************)
(* One user's documents: the rows of db.documents, the raw files, the      *)
(* index files made from them, and the in-memory copies of the index that  *)
(* each web process keeps.  Uploads (rag_chat.py), deletions (documents.py)  *)
(* and questions (rag/retrieve.py) run on threads of these processes; a     *)
(* step is one access to MongoDB, to the disk or to a cache.  With          *)
(* ASYNC_MODE=celery an upload leaves the ingest to a queue.               *)
(*                                                                         *)
(* Raw files are on local disk or in S3; the index is FAISS.  A call of S3  *)
(* that fails has been retried; most failures are swallowed.  An ingest may *)
(* raise at each of its writes, also after it has emptied the index.        *)
(* The content of a file, and the text indexed from it, are the document   *)
(* it belongs to.                                                          *)
(***************************************************************************)
EXTENDS Naturals, Sequences, FiniteSets, FiniteSetsExt

CONSTANTS
  Docs,          \* documents the user may upload, each once
  Name,          \* Name[d]: the file name d is uploaded under
  Readable,      \* documents from which text can be extracted
  Size,          \* Size[d]: bytes
  Quota,         \* per_user_storage_mb
  Threads,       \* requests at work at once, each followed by another
  Procs,         \* gunicorn workers, any of which may take a request
  Deployments,   \* where an upload's ingest runs and where raw files are
  Nothing        \* no document, no key, no process

CONSTANTS        \* bounds of the instance
  Writing,       \* the threads of workers that take uploads and deletions ...
  Asking,        \* ... and those that take questions
  MaxWriters,    \* uploads and deletions of the user in flight at once
  MaxFailing     \* calls that fail, of those whose failure leaves something behind

Names == {Name[d] : d \in Docs}
Keys  == Names \X (0..Cardinality(Docs))    \* "name.ext", "name (1).ext", ...

ASSUME CorpusAssumption ==
  /\ IsFiniteSet(Docs) /\ IsFiniteSet(Threads)
  /\ Readable \subseteq Docs
  /\ Size \in [Docs -> Nat] /\ Quota \in Nat
  /\ Deployments \subseteq {"inline", "celery"} \X {"local", "s3"}
  /\ Writing \cup Asking \subseteq Threads \X Procs
  /\ Nothing \notin Docs \cup Keys \cup Procs
  /\ {MaxWriters, MaxFailing} \subseteq Nat

VARIABLES
  row,           \* row[d]: rawPath of d's row in db.documents, or Nothing
  raw,           \* raw[k]: the document stored in raw file k, or Nothing
  faiss, meta,   \* documents in faiss.index and metadata.json; {}: none to be read
  bm25,          \* documents in bm25.pkl; {}: none to be read
  bytes,         \* storage.json; 0 when absent
  vecCache,      \* vecCache[p]: _FaissStore._cache, <<faiss, meta>> or <<{}, {}>>
  bmCache,       \* bmCache[p]: _bm25_cache, {} when not loaded
  mode,          \* "celery": ASYNC_MODE says so, Celery is installed and has a broker
  job,           \* job[d]: status of the ingest job of d's upload
  queue,         \* documents whose job is in the Celery broker
  storage,       \* the raw storage of the deployment, fixed at start
  failed,        \* history: the calls that have failed
  indexer,       \* history: the process that brought faiss and meta to where they
                 \* are, Nothing while (or after) they are not complete
  req            \* req[t]: the request thread t works on

disk   == <<faiss, meta, bm25, indexer>>
caches == <<vecCache, bmCache>>
service == <<mode, queue, storage>>
outside == <<service, failed>>
vars   == <<row, raw, disk, bytes, caches, job, outside, req>>

NotCached == <<{}, {}>>

UploadPcs == {"save", "copy", "row", "enqueue", "list", "fetch", "wipe", "faiss", "meta",
              "popvec", "bm25", "popbm", "bytes"}
DeletePcs == {"delrow", "remove", "list", "fetch", "wipe", "faiss", "meta",
              "popvec", "bm25", "popbm", "delvec", "delpop", "rmtree"}
QueryPcs  == {"vecmeta", "bm", "bmstore"}

\* kind: what the request is; doc: the document it is about; key: its raw file;
\* keys: the raw files listed; docs: what was read, from them or from an index;
\* proc: the process whose thread works on it.
Request == [kind : {"idle", "upload", "delete", "query"},
            pc   : {"idle"} \cup UploadPcs \cup DeletePcs \cup QueryPcs,
            doc  : Docs \cup {Nothing}, key : Keys \cup {Nothing},
            keys : SUBSET Keys, docs : SUBSET Docs, proc : Procs \cup {Nothing}]

Idle == [kind |-> "idle", pc |-> "idle", doc |-> Nothing, key |-> Nothing,
         keys |-> {}, docs |-> {}, proc |-> Nothing]

\* MongoDB's, those for raw files, and the building of the BM25 index.
Calls == {"insert_one", "delete_one", "head", "delete", "list", "download", "bm25"}

JobStatus == {"none", "pending", "running", "succeeded", "failed"}

TypeOK ==
  /\ row \in [Docs -> Keys \cup {Nothing}]
  /\ raw \in [Keys -> Docs \cup {Nothing}]
  /\ faiss \subseteq Docs /\ meta \subseteq Docs /\ bm25 \subseteq Docs
  /\ bytes \in Nat
  /\ vecCache \in [Procs -> (SUBSET Docs) \X (SUBSET Docs)]
  /\ bmCache \in [Procs -> SUBSET Docs]
  /\ <<mode, storage>> \in Deployments /\ queue \subseteq Docs
  /\ failed \in Seq(Calls)
  /\ indexer \in Procs \cup {Nothing}
  /\ job \in [Docs -> JobStatus]
  /\ req \in [Threads -> Request]

Init ==
  /\ row = [d \in Docs |-> Nothing] /\ raw = [k \in Keys |-> Nothing]
  /\ faiss = {} /\ meta = {} /\ bm25 = {} /\ bytes = 0
  /\ vecCache = [p \in Procs |-> NotCached] /\ bmCache = [p \in Procs |-> {}]
  /\ \E d \in Deployments : mode = d[1] /\ storage = d[2]
  /\ queue = {} /\ failed = <<>> /\ indexer = Nothing
  /\ job = [d \in Docs |-> "none"]
  /\ req = [t \in Threads |-> Idle]

-----------------------------------------------------------------------------
At(t, pc)   == req[t].pc = pc
Goto(t, pc) == req' = [req EXCEPT ![t].pc = pc]
Finish(t)   == req' = [req EXCEPT ![t] = Idle]
Is(t, kind) == req[t].kind = kind

Writers     == {t \in Threads : req[t].kind \in {"upload", "delete"}}
MayWrite    == Cardinality(Writers) < MaxWriters
Stored      == {k \in Keys : raw[k] # Nothing}
Contents(S) == {raw[k] : k \in S} \ {Nothing}

\* The first suffix not in use, and raw without a file.
FirstFree(name) == Min({n \in 0..Cardinality(Docs) : raw[<<name, n>>] = Nothing})
Without(k)      == [raw EXCEPT ![k] = Nothing]

\* A call raises; one of S3 after its retries.
Fails(call)   == Len(failed) < MaxFailing /\ failed' = Append(failed, call)
S3Fails(call) == storage = "s3" /\ Fails(call)

-----------------------------------------------------------------------------
\* POST /upload and /chat/upload up to the ingest: validate, store, record.

\* validate_uploads against the recorded usage, read_user_bytes.
BeginUpload(t, d) ==
  /\ At(t, "idle") /\ MayWrite
  /\ job[d] = "none" /\ d \notin Contents(Stored) /\ \A s \in Threads : req[s].doc # d
  /\ bytes + Size[d] <= Quota
  /\ \E p \in Procs :
       /\ <<t, p>> \in Writing
       /\ req' = [req EXCEPT ![t] = [Idle EXCEPT !.kind = "upload", !.pc = "save",
                                                 !.doc = d, !.proc = p]]
  /\ UNCHANGED <<row, raw, disk, bytes, caches, job, outside>>

\* Variant of PickKey: keeps the name even when a file has it.
PickName(t) ==
  /\ At(t, "save")
  /\ req' = [req EXCEPT ![t].pc = "copy", ![t].key = <<Name[req[t].doc], 0>>]
  /\ UNCHANGED <<row, raw, disk, bytes, caches, job, outside>>

\* save, the loop on dest.exists() or _object_exists: the first free suffix.  A
\* look-up in S3 that fails counts as a free one.
PickKey(t) ==
  /\ At(t, "save")
  /\ LET name == Name[req[t].doc] IN
     \E n \in 0..FirstFree(name) :
       /\ IF n = FirstFree(name) THEN UNCHANGED failed ELSE S3Fails("head")
       /\ req' = [req EXCEPT ![t].pc = "copy", ![t].key = <<name, n>>]
  /\ UNCHANGED <<row, raw, disk, bytes, caches, job, service>>

\* ... and its copy2 or upload_file, which overwrite.  A failure is a 500.
CopyRaw(t) ==
  /\ At(t, "copy")
  /\ \/ raw' = [raw EXCEPT ![req[t].key] = req[t].doc] /\ Goto(t, "row")
     \/ UNCHANGED raw /\ Finish(t)
  /\ UNCHANGED <<row, disk, bytes, caches, job, outside>>

\* insert_document.  A failure is a 500; the file stays.
InsertDocument(t) ==
  /\ At(t, "row")
  /\ \/ /\ row' = [row EXCEPT ![req[t].doc] = req[t].key]
        /\ Goto(t, "enqueue") /\ UNCHANGED failed
     \/ Fails("insert_one") /\ Finish(t) /\ UNCHANGED row
  /\ UNCHANGED <<raw, disk, bytes, caches, job, service>>

\* enqueue_ingest: the job record is saved, and _run_ingest runs here if
\* ASYNC_MODE is sync, or if Celery is not installed or has no broker.
RunInline(t) ==
  /\ At(t, "enqueue") /\ mode = "inline"
  /\ job' = [job EXCEPT ![req[t].doc] = "running"]
  /\ Goto(t, "list")
  /\ UNCHANGED <<row, raw, disk, bytes, caches, outside>>

\* enqueue_ingest, celery: the job record is saved as pending and task.delay
\* hands the message to the broker, or raises (a 500).
Delay(t) ==
  /\ At(t, "enqueue") /\ mode = "celery"
  /\ job' = [job EXCEPT ![req[t].doc] = "pending"]
  /\ queue' \in {queue, queue \cup {req[t].doc}}
  /\ Finish(t)
  /\ UNCHANGED <<row, raw, disk, bytes, caches, mode, storage, failed>>

\* External: the worker ("celery -A tasks.celery_app worker") imports tasks.ingest_tasks,
\* but tasks.ingest.run exists only in a process that has called
\* _register_celery_task, which nothing but enqueue_ingest does.  Celery
\* discards a message whose task is not registered.
DiscardMessage(d) ==
  /\ d \in queue
  /\ queue' = queue \ {d}
  /\ UNCHANGED <<row, raw, disk, bytes, caches, mode, storage, failed, job, req>>

-----------------------------------------------------------------------------
\* DELETE /documents/<id>.

\* get_document and the second lookup of rawPath; an unknown id is a 404.
BeginDelete(t, d) ==
  /\ At(t, "idle") /\ MayWrite
  /\ row[d] # Nothing
  /\ \E p \in Procs :
       /\ <<t, p>> \in Writing
       /\ req' = [req EXCEPT ![t] = [Idle EXCEPT !.kind = "delete", !.pc = "delrow",
                                                 !.doc = d, !.key = row[d], !.proc = p]]
  /\ UNCHANGED <<row, raw, disk, bytes, caches, job, outside>>

\* delete_document; it may find the row gone already.  That it failed, it returns
\* as False, and the handler goes on.
DeleteDocument(t) ==
  /\ At(t, "delrow")
  /\ \/ row' = [row EXCEPT ![req[t].doc] = Nothing] /\ UNCHANGED failed
     \/ Fails("delete_one") /\ UNCHANGED row
  /\ Goto(t, "remove")
  /\ UNCHANGED <<raw, disk, bytes, caches, job, service>>

\* Variant of RemoveRaw: takes the file off the recorded usage as well.
RemoveAndRefund(t) ==
  /\ At(t, "remove")
  /\ raw' = Without(req[t].key)
  /\ bytes' = bytes - Size[req[t].doc]
  /\ Goto(t, "list")
  /\ UNCHANGED <<row, disk, caches, job, outside>>

\* remove_raw_file, whose failure is not looked at.
RemoveRaw(t) ==
  /\ At(t, "remove")
  /\ \/ raw' = Without(req[t].key) /\ UNCHANGED failed
     \/ Fails("delete") /\ UNCHANGED raw
  /\ Goto(t, "list")
  /\ UNCHANGED <<row, disk, bytes, caches, job, service>>

-----------------------------------------------------------------------------
\* Both go on to re-ingest whatever is stored: _run_ingest for an upload, the
\* second half of delete_user_document for a deletion.

\* list_raw_files; S3 lists the pages before the one that fails.  A deletion that
\* finds nothing clears the namespace.
ListRaw(t) ==
  /\ At(t, "list")
  /\ \E keys \in SUBSET Stored :
       /\ IF keys = Stored THEN UNCHANGED failed ELSE S3Fails("list")
       /\ req' = [req EXCEPT ![t].keys = keys,
                             ![t].pc = IF Is(t, "delete") /\ keys = {} THEN "delvec" ELSE "fetch"]
  /\ UNCHANGED <<row, raw, disk, bytes, caches, job, service>>

\* Variant of Materialize: an upload indexes its own file only.
MaterializeOwn(t) ==
  /\ At(t, "fetch")
  /\ LET found == IF Is(t, "upload") THEN {req[t].doc} ELSE Contents(req[t].keys)
     IN req' = [req EXCEPT ![t].docs = found \cap Readable, ![t].keys = {}, ![t].pc = "wipe"]
  /\ UNCHANGED <<row, raw, disk, bytes, caches, job, outside>>

\* materialize_keys_to_dir skips files that are gone or cannot be fetched; an
\* upload left with none takes its temporary file.  Extraction and chunking keep the
\* documents that have text.
Materialize(t) ==
  /\ At(t, "fetch")
  /\ \E fetched \in SUBSET Contents(req[t].keys) :
       /\ IF fetched = Contents(req[t].keys) THEN UNCHANGED failed ELSE Fails("download")
       /\ LET found == IF Is(t, "upload") /\ fetched = {} THEN {req[t].doc} ELSE fetched
          IN req' = [req EXCEPT ![t].docs = found \cap Readable, ![t].keys = {},
                                ![t].pc = "wipe"]
  /\ UNCHANGED <<row, raw, disk, bytes, caches, job, service>>

\* Where an ingest may raise: no text in any document, or the embedding model fails;
\* a file cannot be written; BM25Okapi finds no word in any chunk.
MayRaise(t) == \/ req[t].pc \in {"wipe", "faiss", "meta", "bytes"} /\ UNCHANGED failed
               \/ At(t, "bm25") /\ Fails("bm25")

\* Variant of FailIngest: the exception ends the request, not the job.
FailSilently(t) ==
  /\ MayRaise(t)
  /\ Finish(t)
  /\ UNCHANGED <<row, raw, disk, bytes, caches, job, service>>

\* The ingest ends there.  An upload's job becomes failed; a deletion is answered 500.
FailIngest(t) ==
  /\ MayRaise(t)
  /\ job' = IF Is(t, "upload") THEN [job EXCEPT ![req[t].doc] = "failed"] ELSE job
  /\ Finish(t)
  /\ UNCHANGED <<row, raw, disk, bytes, caches, service>>

\* Variant of WipeIndex: empties raw/ too.
WipeAll(t) ==
  /\ At(t, "wipe") /\ req[t].docs # {}
  /\ raw' = [k \in Keys |-> Nothing]
  /\ faiss' = {} /\ meta' = {} /\ bm25' = {} /\ bytes' = 0 /\ indexer' = Nothing
  /\ Goto(t, "faiss")
  /\ UNCHANGED <<row, caches, job, outside>>

\* _FaissStore.upsert empties the namespace directory except raw/.
WipeIndex(t) ==
  /\ At(t, "wipe") /\ req[t].docs # {}
  /\ faiss' = {} /\ meta' = {} /\ bm25' = {} /\ bytes' = 0 /\ indexer' = Nothing
  /\ Goto(t, "faiss")
  /\ UNCHANGED <<row, raw, caches, job, outside>>

WriteFaiss(t) ==
  /\ At(t, "faiss")
  /\ faiss' = req[t].docs
  /\ Goto(t, "meta")
  /\ UNCHANGED <<row, raw, meta, bm25, indexer, bytes, caches, job, outside>>

WriteMetadata(t) ==
  /\ At(t, "meta")
  /\ meta' = req[t].docs
  /\ Goto(t, "popvec")
  /\ UNCHANGED <<row, raw, faiss, bm25, indexer, bytes, caches, job, outside>>

\* A thread of p is inside _FaissStore._load, which holds the store's lock.
Locked(p) == \E t \in Threads : req[t].proc = p /\ At(t, "vecmeta")

\* Variant of PopVec: the cached index is left alone.
KeepVec(t) ==
  /\ At(t, "popvec")
  /\ indexer' = req[t].proc
  /\ Goto(t, "bm25")
  /\ UNCHANGED <<row, raw, faiss, meta, bm25, bytes, caches, job, outside>>

\* upsert's last statement: this process forgets its copy, under the lock.
PopVec(t) ==
  /\ At(t, "popvec") /\ ~Locked(req[t].proc)
  /\ vecCache' = [vecCache EXCEPT ![req[t].proc] = NotCached]
  /\ indexer' = req[t].proc
  /\ Goto(t, "bm25")
  /\ UNCHANGED <<row, raw, faiss, meta, bm25, bytes, bmCache, job, outside>>

\* build_bm25, which only logs it when rank_bm25 is not installed.
BuildBm25(t) ==
  /\ At(t, "bm25")
  /\ \/ bm25' = req[t].docs /\ UNCHANGED failed
     \/ Fails("bm25") /\ UNCHANGED bm25
  /\ Goto(t, "popbm")
  /\ UNCHANGED <<row, raw, faiss, meta, indexer, bytes, caches, job, service>>

\* reload_bm25 (twice, once from reload_index).  A deletion is done.
PopBm25(t) ==
  /\ At(t, "popbm")
  /\ bmCache' = [bmCache EXCEPT ![req[t].proc] = {}]
  /\ IF Is(t, "delete") THEN Finish(t) ELSE Goto(t, "bytes")
  /\ UNCHANGED <<row, raw, disk, bytes, vecCache, job, outside>>

\* add_user_bytes, and the job has succeeded.
AddBytes(t) ==
  /\ At(t, "bytes")
  /\ bytes' = bytes + Size[req[t].doc]
  /\ job' = [job EXCEPT ![req[t].doc] = "succeeded"]
  /\ Finish(t)
  /\ UNCHANGED <<row, raw, disk, caches, outside>>

-----------------------------------------------------------------------------
\* A deletion of the last document.

\* get_store().delete removes the two files ...
DeleteVectors(t) ==
  /\ At(t, "delvec")
  /\ faiss' = {} /\ meta' = {} /\ indexer' = Nothing
  /\ Goto(t, "delpop")
  /\ UNCHANGED <<row, raw, bm25, bytes, caches, job, outside>>

\* ... and forgets this process's copy, under the lock.
DeletePop(t) ==
  /\ At(t, "delpop") /\ ~Locked(req[t].proc)
  /\ vecCache' = [vecCache EXCEPT ![req[t].proc] = NotCached]
  /\ indexer' = req[t].proc
  /\ Goto(t, "rmtree")
  /\ UNCHANGED <<row, raw, faiss, meta, bm25, bytes, bmCache, job, outside>>

\* wipe_namespace: rmtree of the whole directory, with raw/ if that is local.
WipeNamespace(t) ==
  /\ At(t, "rmtree")
  /\ raw' = IF storage = "local" THEN [k \in Keys |-> Nothing] ELSE raw
  /\ faiss' = {} /\ meta' = {} /\ bm25' = {} /\ bytes' = 0
  /\ Finish(t)
  /\ UNCHANGED <<row, indexer, caches, job, outside>>

-----------------------------------------------------------------------------
\* A question: retrieve() loads both indexes, from the caches or from disk.

\* _FaissStore._load takes the lock; a hit or a missing file needs no read,
\* otherwise read_index reads the first file.  (If it cannot, the file being half
\* written, the question is answered with a 500, and nothing has changed.)
LoadFaiss(t, p) ==
  LET hit == vecCache[p] # NotCached
      Go(pc, docs) == req' = [req EXCEPT ![t] = [Idle EXCEPT !.kind = "query", !.pc = pc,
                                                             !.docs = docs, !.proc = p]]
  IN
  /\ At(t, "idle") /\ <<t, p>> \in Asking /\ ~Locked(p)
  /\ IF hit \/ faiss = {} \/ meta = {} THEN Go("bm", {}) ELSE Go("vecmeta", faiss)
  /\ UNCHANGED <<row, raw, disk, bytes, caches, job, outside>>

\* ... and open() and json.load() the second, which a writer may have removed by now,
\* or be writing.
LoadMetadata(t) ==
  /\ At(t, "vecmeta")
  /\ \/ Finish(t) /\ UNCHANGED vecCache
     \/ /\ meta # {}
        /\ vecCache' = [vecCache EXCEPT ![req[t].proc] = <<req[t].docs, meta>>]
        /\ req' = [req EXCEPT ![t].pc = "bm", ![t].docs = {}]
  /\ UNCHANGED <<row, raw, disk, bytes, bmCache, job, outside>>

\* _load_bm25, without a lock: a hit, a missing or unreadable pickle, or its content ...
LoadBm25(t) ==
  /\ At(t, "bm")
  /\ \/ Finish(t)
     \/ /\ bmCache[req[t].proc] = {} /\ bm25 # {}
        /\ req' = [req EXCEPT ![t].pc = "bmstore", ![t].docs = bm25]
  /\ UNCHANGED <<row, raw, disk, bytes, caches, job, outside>>

\* ... which is cached in a step of its own.
StoreBm25(t) ==
  /\ At(t, "bmstore")
  /\ bmCache' = [bmCache EXCEPT ![req[t].proc] = req[t].docs]
  /\ Finish(t)
  /\ UNCHANGED <<row, raw, disk, bytes, vecCache, job, outside>>

-----------------------------------------------------------------------------
UploadStep(t) == \/ PickKey(t) \/ CopyRaw(t) \/ InsertDocument(t)
                 \/ RunInline(t) \/ Delay(t) \/ AddBytes(t)

DeleteStep(t) == \/ DeleteDocument(t) \/ RemoveRaw(t)
                 \/ DeleteVectors(t) \/ DeletePop(t) \/ WipeNamespace(t)

IngestStep(t) == \/ ListRaw(t) \/ Materialize(t) \/ FailIngest(t) \/ WipeIndex(t)
                 \/ WriteFaiss(t) \/ WriteMetadata(t) \/ PopVec(t)
                 \/ BuildBm25(t) \/ PopBm25(t)

QueryStep(t)  == LoadMetadata(t) \/ LoadBm25(t) \/ StoreBm25(t)

Step(t) == \/ Is(t, "upload") /\ (UploadStep(t) \/ IngestStep(t))
           \/ Is(t, "delete") /\ (DeleteStep(t) \/ IngestStep(t))
           \/ Is(t, "query") /\ QueryStep(t)

Next == \/ \E t \in Threads : \/ \E p \in Procs : LoadFaiss(t, p)
                              \/ \E d \in Docs : BeginUpload(t, d) \/ BeginDelete(t, d)
                              \/ Step(t)
        \/ \E d \in Docs : DiscardMessage(d)

Spec == Init /\ [][Next]_vars

\* The operating system runs every thread, and a lock is handed on.
FairSpec == Spec /\ \A t \in Threads : SF_vars(Step(t))
-----------------------------------------------------------------------------
\* Properties.

Quiet     == Writers = {}
Loaded(d) == row[d] # Nothing

Lost(calls) == \E i \in DOMAIN failed : failed[i] \in calls

\* Between uploads and deletions every row of db.documents names a raw file that
\* holds this very document, so no two rows share a file, and no raw file is
\* without a row.  Only a look-up in S3 or a delete_one that failed can have damaged
\* the one, and only a removal or an insert_one that failed the other.
RowsMatchFiles ==
  Quiet => /\ \A d \in Docs : Loaded(d) /\ ~Lost({"head", "delete_one"}) => raw[row[d]] = d
           /\ \A k \in Stored : ~Lost({"delete", "insert_one"}) => row[raw[k]] = k

\* Between uploads and deletions, if the last ingest or clearing that touched the
\* index got as far as its last write, the index files come from it alone (or there
\* is no BM25 index, which once could not be built), and every document that is
\* stored, and whose upload reported success, can be found through them: whatever
\* else failed, then or before, has not cost it its place.  (A call that failed to
\* list or to fetch files has: a deletion takes the other files for gone.)
SucceededIndexed ==
  Quiet /\ indexer # Nothing =>
    /\ faiss = meta /\ (bm25 = meta \/ (bm25 = {} /\ Lost({"bm25"})))
    /\ ~Lost({"list", "download"}) =>
         \A d \in Readable \cap Contents(Stored) : job[d] = "succeeded" => d \in meta

\* An upload that "ingested and updated the index successfully" (rag_chat.py:374)
\* can be found by its user: "retrieval stays consistent after uploads/deletions"
\* (ingest_tasks.py:75).  (Two overlapping uploads break it: the ingest that
\* listed fewer files may write the index last.)
SucceededFindable ==
  Quiet => \A d \in Readable :
    job[d] = "succeeded" /\ Loaded(d) => d \in faiss \cap meta \cap bm25

\* The process that brought the index files to where they are has no other version of
\* them cached, neither an older one nor vectors of one ingest with the metadata of
\* another, whatever its questions had read when it forgot its copy.  (Another process
\* may have either, for good.)
VectorCacheFresh ==
  \A p \in {indexer} \cap Procs :
    vecCache[p] # NotCached => vecCache[p] = <<faiss, meta>>

\* While a document is deleted or uploaded, the others stay in their raw files:
\* re-ingesting reads them and never removes them, also when S3 lists or fetches
\* only some.  (A row that could not be deleted goes on naming its file, and when it
\* is deleted once more the file may be another document's.)
OthersKept ==
  [][\A d \in Docs :
       /\ ~Lost({"head", "delete_one"}) /\ Loaded(d) /\ raw[row[d]] = d
       /\ \A t \in Threads : req[t].doc # d
       => raw'[row[d]] = d]_vars

\* An ingest that was started ends with its job succeeded or failed.
UploadsFinish == \A d \in Docs : job[d] = "running" ~> job[d] \in {"succeeded", "failed"}

\* Once a deletion is over and nothing runs, no index of the process that served
\* it, on disk or cached, finds the deleted document ("re-ingest remaining files
\* so the index reflects the deletion", documents.py:60).
DeletedForgotten ==
  (\A t \in Threads : At(t, "idle")) =>
    \A d \in Docs : job[d] = "succeeded" /\ ~Loaded(d) =>
      /\ d \notin faiss \cup meta \cup bm25
      /\ \A p \in Procs : d \notin bmCache[p] /\ \A i \in 1..2 : d \notin vecCache[p][i]

=============================================================================
