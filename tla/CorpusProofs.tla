---------------------------- MODULE CorpusProofs ----------------------------
(***************************************************************************)
(* What Corpus promises, for any documents, names, sizes, threads and       *)
(* bounds; where a promise needs one writer at a time, the theorem says so.  *)
(***************************************************************************)
EXTENDS Corpus, FiniteSetTheorems, WellFoundedInduction, TLAPS

-----------------------------------------------------------------------------
\* Requests and jobs, for any number of writers.

\* The steps of an upload before its job has a record.
Unrecorded == {"save", "copy", "row", "enqueue"}

\* What a request knows at its step.
ShapedAt(t) ==
  /\ req[t].kind = "idle" <=> req[t].pc = "idle"
  /\ Is(t, "upload") => /\ req[t].pc \in UploadPcs /\ req[t].doc \in Docs
                        /\ req[t].pc # "save" => req[t].key \in Keys
  /\ Is(t, "delete") => /\ req[t].pc \in DeletePcs /\ req[t].doc \in Docs
                        /\ req[t].key \in Keys
  /\ Is(t, "query")  => req[t].pc \in QueryPcs

Shaped == \A t \in Threads : ShapedAt(t)

\* A document is uploaded once: until its job is recorded one request knows of it.
Once ==
  /\ \A t \in Threads : Is(t, "upload") /\ req[t].pc \in Unrecorded => job[req[t].doc] = "none"
  /\ \A s, t \in Threads :
       Is(s, "upload") /\ Is(t, "upload") /\ req[s].doc = req[t].doc => s = t

\* A request that has made the row of document d and has not recorded its job.
Storing(t, d) == Is(t, "upload") /\ req[t].doc = d /\ req[t].pc = "enqueue"

\* No document is in two files ...
OneFile == \A k, l \in Stored : raw[k] = raw[l] => k = l

\* ... since one that is about to be stored is in none.
NotYet ==
  \A t \in Threads : Is(t, "upload") /\ req[t].pc \in {"save", "copy"} =>
    \A k \in Stored : raw[k] # req[t].doc

\* A document that has a row has a job, or will get one.
Recorded == \A d \in Docs : Loaded(d) => job[d] # "none" \/ \E t \in Threads : Storing(t, d)

TInv == TypeOK /\ Shaped /\ Once /\ OneFile /\ NotYet /\ Recorded

-----------------------------------------------------------------------------
\* Keys.

LEMMA MinIsMember ==
  ASSUME NEW S \in SUBSET Nat, S # {}
  PROVE  Min(S) \in S
<1>1. \E n \in S : \A m \in S : ~(<<m, n>> \in OpToRel(<, Nat))
  BY WFMin, NatLessThanWellFounded
<1>2. \A m, n \in S : <<m, n>> \in OpToRel(<, Nat) <=> m < n
  BY DEF OpToRel
<1>3. \A m, n \in S : ~(m < n) => n <= m
  OBVIOUS
<1>4. \E n \in S : \A m \in S : n <= m
  BY <1>1, <1>2, <1>3
<1> QED BY <1>4 DEF Min

LEMMA KeyType ==
  ASSUME NEW d \in Docs, NEW n \in 0..Cardinality(Docs)
  PROVE  <<Name[d], n>> \in Keys
BY DEF Keys, Names

\* There is always a free suffix: a document is in one file, and there are more
\* suffixes than documents.
LEMMA FreeSuffix ==
  ASSUME TypeOK, OneFile, NEW d \in Docs
  PROVE  /\ FirstFree(Name[d]) \in 0..Cardinality(Docs)
         /\ raw[<<Name[d], FirstFree(Name[d])>>] = Nothing
<1> DEFINE C == Cardinality(Docs)
           Free == {n \in 0..C : raw[<<Name[d], n>>] = Nothing}
           f == [n \in 0..C |-> raw[<<Name[d], n>>]]
<1>1. IsFiniteSet(Docs) /\ C \in Nat
  BY CorpusAssumption, FS_CardinalityType
<1>2. IsFiniteSet(0..C) /\ Cardinality(0..C) = C + 1
  BY <1>1, FS_Interval
<1>3. Free # {}
  <2> SUFFICES ASSUME Free = {} PROVE FALSE
    OBVIOUS
  <2>1. \A n \in 0..C : <<Name[d], n>> \in Keys
    BY KeyType
  <2>2. f \in [0..C -> Docs]
    BY <2>1 DEF TypeOK
  <2>3. PICK x, y \in 0..C : x # y /\ f[x] = f[y]
    <3> HIDE DEF f
    <3>1. Cardinality(Docs) < Cardinality(0..C)
      BY <1>1, <1>2
    <3> QED BY <1>1, <1>2, <2>2, <3>1, FS_PigeonHole
  <2>4. <<Name[d], x>> \in Stored /\ <<Name[d], y>> \in Stored
    BY <2>1, <2>3 DEF Stored
  <2>5. raw[<<Name[d], x>>] = raw[<<Name[d], y>>]
    BY <2>3
  <2>6. <<Name[d], x>> = <<Name[d], y>>
    BY <2>4, <2>5 DEF OneFile
  <2> QED BY <2>3, <2>6
<1>4. Free \in SUBSET Nat
  BY <1>1
<1>5. Min(Free) \in Free
  BY <1>3, <1>4, MinIsMember
<1>6. FirstFree(Name[d]) = Min(Free)
  BY DEF FirstFree
<1> QED BY <1>5, <1>6

-----------------------------------------------------------------------------
\* A step is a move of one thread; the others' requests stay.

Moved(t) == /\ req' \in [Threads -> Request]
            /\ \A s \in Threads \ {t} : req'[s] = req[s]

\* The failures so far, and perhaps one more.
LEMMA FailsType ==
  ASSUME TypeOK, NEW call \in Calls, Fails(call) \/ UNCHANGED failed
  PROVE  failed' \in Seq(Calls)
<1>1. failed \in Seq(Calls)
  BY DEF TypeOK
<1>2. CASE Fails(call)
  <2>1. failed' = Append(failed, call)
    BY <1>2 DEF Fails
  <2> QED BY <1>1, <2>1
<1> QED BY <1>1, <1>2

LEMMA GotoMoves ==
  ASSUME TypeOK, NEW t \in Threads,
         NEW pc \in {"idle"} \cup UploadPcs \cup DeletePcs \cup QueryPcs, Goto(t, pc)
  PROVE  /\ Moved(t) /\ req'[t].pc = pc
         /\ req'[t].kind = req[t].kind /\ req'[t].doc = req[t].doc
         /\ req'[t].key = req[t].key /\ req'[t].docs = req[t].docs
         /\ req'[t].keys = req[t].keys
BY DEF TypeOK, Goto, Moved, Request

LEMMA FinishMoves ==
  ASSUME TypeOK, NEW t \in Threads, Finish(t)
  PROVE  Moved(t) /\ req'[t] = Idle /\ req'[t].kind = "idle" /\ req'[t].pc = "idle"
<1>1. Idle \in Request
  BY DEF Idle, Request
<1>2. req' = [req EXCEPT ![t] = Idle]
  BY DEF Finish
<1> QED BY <1>1, <1>2 DEF TypeOK, Moved, Idle

LEMMA WithMoves ==
  ASSUME TypeOK, NEW t \in Threads, NEW r \in Request, req' = [req EXCEPT ![t] = r]
  PROVE  Moved(t) /\ req'[t] = r
BY DEF TypeOK, Moved

\* The steps only an upload takes, only a deletion, both of them.
OnlyUpload == {"save", "copy", "row", "enqueue", "bytes"}
OnlyDelete == {"delrow", "remove", "delvec", "delpop", "rmtree"}
Ingesting  == {"list", "fetch", "wipe", "faiss", "meta", "popvec", "bm25", "popbm"}

\* What the step of a request says of it.
LEMMA KindOf ==
  ASSUME TypeOK, Shaped, NEW t \in Threads
  PROVE  /\ req[t] \in Request
         /\ req[t].pc \in OnlyUpload => Is(t, "upload")
         /\ req[t].pc \in OnlyDelete => Is(t, "delete")
         /\ req[t].pc \in Ingesting => Is(t, "upload") \/ Is(t, "delete")
         /\ Is(t, "upload") \/ Is(t, "delete") => req[t].doc \in Docs
         /\ Is(t, "upload") /\ req[t].pc # "save" => req[t].key \in Keys
         /\ Is(t, "delete") => req[t].key \in Keys
         /\ req[t].pc \in QueryPcs => Is(t, "query")
         /\ req[t].pc = "idle" => Is(t, "idle")
<1>1. ShapedAt(t) /\ req[t] \in Request
  BY DEF Shaped, TypeOK
<1>2. req[t].kind \in {"idle", "upload", "delete", "query"}
  BY <1>1 DEF Request
<1> QED BY <1>1, <1>2
     DEF ShapedAt, Is, OnlyUpload, OnlyDelete, Ingesting, UploadPcs, DeletePcs, QueryPcs

\* A request goes on: same kind, same document, another step.
Went(t, pc) == /\ Moved(t) /\ req'[t].pc = pc
               /\ req'[t].kind = req[t].kind /\ req'[t].doc = req[t].doc

\* The move of every step that is neither a Goto nor a Finish.
LEMMA PickKeyMoves ==
  ASSUME TInv, NEW t \in Threads, PickKey(t)
  PROVE  /\ Went(t, "copy") /\ req'[t].key \in Keys
         /\ req'[t].docs = req[t].docs /\ req'[t].keys = req[t].keys
         /\ \/ failed' = failed /\ raw[req'[t].key] = Nothing
            \/ S3Fails("head")
<1>1. Is(t, "upload") /\ req[t].doc \in Docs /\ req[t] \in Request
  BY KindOf DEF TInv, PickKey, At, OnlyUpload
<1> DEFINE name == Name[req[t].doc]
<1>2. FirstFree(name) \in 0..Cardinality(Docs) /\ raw[<<name, FirstFree(name)>>] = Nothing
  BY <1>1, FreeSuffix DEF TInv
<1>3. PICK n \in 0..FirstFree(name) :
        /\ IF n = FirstFree(name) THEN UNCHANGED failed ELSE S3Fails("head")
        /\ req' = [req EXCEPT ![t].pc = "copy", ![t].key = <<name, n>>]
  BY DEF PickKey
<1>4. n \in 0..Cardinality(Docs)
  BY <1>2, <1>3, CorpusAssumption, FS_CardinalityType
<1>5. <<name, n>> \in Keys
  BY <1>1, <1>4, KeyType
<1> DEFINE r == [req[t] EXCEPT !.pc = "copy", !.key = <<name, n>>]
<1>6. r \in Request
  BY <1>1, <1>5 DEF Request, UploadPcs
<1>7. req' = [req EXCEPT ![t] = r]
  BY <1>3 DEF TInv, TypeOK
<1>8. Moved(t) /\ req'[t] = r
  BY <1>6, <1>7, WithMoves DEF TInv
<1>9. \/ failed' = failed /\ raw[<<name, n>>] = Nothing
      \/ S3Fails("head")
  BY <1>2, <1>3
<1> QED BY <1>1, <1>5, <1>8, <1>9 DEF Went, Request

LEMMA ListRawMoves ==
  ASSUME TInv, NEW t \in Threads, ListRaw(t)
  PROVE  /\ Went(t, req'[t].pc) /\ req'[t].key = req[t].key /\ req'[t].docs = req[t].docs
         /\ req'[t].keys \subseteq Stored
         /\ \/ failed' = failed /\ req'[t].keys = Stored
            \/ S3Fails("list")
         /\ \/ req'[t].pc = "fetch"
            \/ req'[t].pc = "delvec" /\ Is(t, "delete") /\ req'[t].keys = {}
<1>1. req[t] \in Request
  BY KindOf DEF TInv
<1>2. PICK keys \in SUBSET Stored :
       /\ IF keys = Stored THEN UNCHANGED failed ELSE S3Fails("list")
       /\ req' = [req EXCEPT ![t].keys = keys,
                             ![t].pc = IF Is(t, "delete") /\ keys = {} THEN "delvec" ELSE "fetch"]
  BY DEF ListRaw
<1> DEFINE r == [req[t] EXCEPT !.keys = keys,
                               !.pc = IF Is(t, "delete") /\ keys = {} THEN "delvec" ELSE "fetch"]
<1>3. keys \in SUBSET Keys
  BY DEF Stored
<1>4. r \in Request
  BY <1>1, <1>3 DEF Request, UploadPcs, DeletePcs
<1>5. req' = [req EXCEPT ![t] = r]
  BY <1>2 DEF TInv, TypeOK
<1>6. Moved(t) /\ req'[t] = r
  BY <1>4, <1>5, WithMoves DEF TInv
<1>7. /\ req'[t].keys = keys /\ req'[t].key = req[t].key /\ req'[t].docs = req[t].docs
      /\ req'[t].kind = req[t].kind /\ req'[t].doc = req[t].doc
      /\ req'[t].pc = IF Is(t, "delete") /\ keys = {} THEN "delvec" ELSE "fetch"
  BY <1>1, <1>6 DEF Request
<1> QED BY <1>2, <1>6, <1>7 DEF Went

LEMMA MaterializeMoves ==
  ASSUME TInv, NEW t \in Threads, Materialize(t)
  PROVE  /\ Went(t, "wipe") /\ req'[t].key = req[t].key
         /\ req'[t].docs \subseteq Docs
         /\ \/ failed' = failed /\ Contents(req[t].keys) \cap Readable \subseteq req'[t].docs
            \/ Fails("download")
<1>1. req[t] \in Request /\ req[t].keys \subseteq Keys
  BY KindOf DEF TInv, Request
<1>2. PICK fetched \in SUBSET Contents(req[t].keys) :
       /\ IF fetched = Contents(req[t].keys) THEN UNCHANGED failed ELSE Fails("download")
       /\ LET found == IF Is(t, "upload") /\ fetched = {} THEN {req[t].doc} ELSE fetched
          IN req' = [req EXCEPT ![t].docs = found \cap Readable, ![t].keys = {},
                                ![t].pc = "wipe"]
  BY DEF Materialize
<1> DEFINE found == IF Is(t, "upload") /\ fetched = {} THEN {req[t].doc} ELSE fetched
           r == [req[t] EXCEPT !.docs = found \cap Readable, !.keys = {}, !.pc = "wipe"]
<1>3. found \cap Readable \subseteq Docs
  BY CorpusAssumption
<1>4. r \in Request
  BY <1>1, <1>3 DEF Request, UploadPcs
<1>5. req' = [req EXCEPT ![t] = r]
  BY <1>2 DEF TInv, TypeOK
<1>6. Moved(t) /\ req'[t] = r
  BY <1>4, <1>5, WithMoves DEF TInv
<1>7. /\ req'[t].pc = "wipe" /\ req'[t].key = req[t].key /\ req'[t].kind = req[t].kind
      /\ req'[t].doc = req[t].doc /\ req'[t].docs = found \cap Readable
  BY <1>1, <1>6 DEF Request
<1>8. fetched \subseteq found
  OBVIOUS
<1>9. \/ failed' = failed /\ Contents(req[t].keys) \cap Readable \subseteq found \cap Readable
      \/ Fails("download")
  BY <1>2, <1>8
<1> QED BY <1>3, <1>6, <1>7, <1>9 DEF Went

\* The steps of a question.
LEMMA QueryMoves ==
  ASSUME TInv, NEW t \in Threads, QueryStep(t)
  PROVE  /\ Moved(t) /\ Is(t, "query")
         /\ req'[t] = Idle \/ (req'[t].kind = "query" /\ req'[t].pc \in QueryPcs)
<1>1. Is(t, "query") /\ req[t] \in Request
  BY KindOf DEF TInv, QueryStep, LoadMetadata, LoadBm25, StoreBm25, At, QueryPcs
<1>2. bm25 \subseteq Docs
  BY DEF TInv, TypeOK
<1>3. \/ Finish(t)
      \/ \E docs \in SUBSET Docs, pc \in QueryPcs :
           req' = [req EXCEPT ![t].pc = pc, ![t].docs = docs]
  <2>1. CASE LoadMetadata(t)
    BY <2>1 DEF LoadMetadata, QueryPcs
  <2>2. CASE LoadBm25(t)
    BY <2>2, <1>2 DEF LoadBm25, QueryPcs
  <2>3. CASE StoreBm25(t)
    BY <2>3 DEF StoreBm25
  <2> QED BY <2>1, <2>2, <2>3 DEF QueryStep
<1>4. CASE Finish(t)
  BY <1>1, <1>4, FinishMoves DEF TInv
<1>5. ASSUME NEW docs \in SUBSET Docs, NEW pc \in QueryPcs,
             req' = [req EXCEPT ![t].pc = pc, ![t].docs = docs]
      PROVE  Moved(t) /\ req'[t].kind = "query" /\ req'[t].pc \in QueryPcs
  <2> DEFINE r == [req[t] EXCEPT !.pc = pc, !.docs = docs]
  <2>1. r \in Request
    BY <1>1 DEF Request
  <2>2. req' = [req EXCEPT ![t] = r]
    BY <1>5 DEF TInv, TypeOK
  <2>3. Moved(t) /\ req'[t] = r
    BY <2>1, <2>2, WithMoves DEF TInv
  <2> QED BY <1>1, <2>3 DEF Request, Is
<1> QED BY <1>1, <1>3, <1>4, <1>5

-----------------------------------------------------------------------------
\* The invariant of any number of writers.

LEMMA InitT == Init => TInv
<1> SUFFICES ASSUME Init PROVE TInv
  OBVIOUS
<1>1. TypeOK
  <2>1. <<mode, storage>> \in Deployments
    <3>1. PICK d \in Deployments : mode = d[1] /\ storage = d[2]
      BY DEF Init
    <3>2. d = <<d[1], d[2]>>
      BY CorpusAssumption
    <3> QED BY <3>1, <3>2
  <2>2. Idle \in Request
    BY DEF Idle, Request
  <2>3. failed \in Seq(Calls)
    BY DEF Init
  <2> QED BY <2>1, <2>2, <2>3 DEF Init, TypeOK, NotCached, JobStatus
<1>2. \A t \in Threads : req[t] = Idle
  BY DEF Init
<1>3. Shaped /\ Once
  BY <1>2 DEF Shaped, ShapedAt, Once, Is, Idle
<1>4. Stored = {}
  BY DEF Init, Stored
<1>5. OneFile /\ NotYet
  BY <1>4 DEF OneFile, NotYet
<1>6. Recorded
  BY DEF Init, Recorded, Loaded
<1> QED BY <1>1, <1>3, <1>5, <1>6 DEF TInv

\* Another request is as before.
LEMMA ShapedMove ==
  ASSUME Shaped, NEW t \in Threads, Moved(t), ShapedAt(t)'
  PROVE  Shaped'
<1>1. ASSUME NEW s \in Threads, s # t PROVE ShapedAt(s)'
  <2>1. ShapedAt(s) /\ req'[s] = req[s]
    BY <1>1 DEF Shaped, Moved
  <2> QED BY <2>1 DEF ShapedAt, Is
<1> QED BY <1>1 DEF Shaped

\* The move of t stores no new file, and changes no job but that of its own upload;
\* if it makes a row, its own upload has still to record the job.
Mild(t) ==
  /\ \A d \in Docs : \/ job'[d] = job[d]
                     \/ Is(t, "upload") /\ req[t].doc = d /\ job'[d] # "none"
  /\ \A k \in Keys : raw'[k] \in {raw[k], Nothing}
  /\ \A d \in Docs : row'[d] \in {row[d], Nothing} \/ Storing(t, d)'
  /\ \/ req'[t].kind # "upload" /\ (\A d \in Docs : Storing(t, d) => job'[d] # "none")
     \/ /\ req'[t].kind = "upload" /\ Is(t, "upload") /\ req'[t].doc = req[t].doc
        /\ req'[t].pc \in Unrecorded => req[t].pc \in Unrecorded /\ job' = job
        /\ req'[t].pc \in {"save", "copy"} => req[t].pc \in {"save", "copy"}
        /\ req[t].pc = "enqueue" => req'[t].pc = "enqueue" \/ job'[req[t].doc] # "none"

LEMMA MildKeeps ==
  ASSUME TInv, NEW t \in Threads, Moved(t), Mild(t), TypeOK', ShapedAt(t)'
  PROVE  TInv'
<1>1. Shaped'
  BY ShapedMove DEF TInv
<1>2. ASSUME NEW s \in Threads, Is(s, "upload")', req'[s].pc \in Unrecorded
      PROVE  job'[req'[s].doc] = "none"
  <2>1. CASE s = t
    <3>1. Is(t, "upload") /\ req'[t].doc = req[t].doc /\ req[t].pc \in Unrecorded /\ job' = job
      BY <1>2, <2>1 DEF Mild, Is
    <3> QED BY <2>1, <3>1 DEF TInv, Once
  <2>2. CASE s # t
    <3>1. req'[s] = req[s]
      BY <2>2 DEF Moved
    <3>2. Is(s, "upload") /\ job[req[s].doc] = "none" /\ req[s].doc \in Docs
      BY <1>2, <3>1, KindOf DEF TInv, Once, Is
    <3>3. ~(Is(t, "upload") /\ req[t].doc = req[s].doc)
      BY <2>2, <3>2 DEF TInv, Once
    <3>4. job'[req[s].doc] = job[req[s].doc]
      BY <3>2, <3>3 DEF Mild
    <3> QED BY <3>1, <3>2, <3>4
  <2> QED BY <2>1, <2>2
<1>3. ASSUME NEW s \in Threads, NEW u \in Threads,
             Is(s, "upload")', Is(u, "upload")', req'[s].doc = req'[u].doc
      PROVE  s = u
  <2>1. \A v \in {s, u} : Is(v, "upload") /\ req'[v].doc = req[v].doc
    BY <1>3 DEF Moved, Mild, Is
  <2> QED BY <1>3, <2>1 DEF TInv, Once
<1>4. \A k \in Stored' : k \in Stored /\ raw'[k] = raw[k] /\ raw[k] \in Docs
  BY DEF Stored, Mild, TInv, TypeOK
<1>5. ASSUME NEW s \in Threads, Is(s, "upload")', req'[s].pc \in {"save", "copy"},
             NEW k \in Stored'
      PROVE  raw'[k] # req'[s].doc
  <2>1. Is(s, "upload") /\ req[s].pc \in {"save", "copy"} /\ req'[s].doc = req[s].doc
    BY <1>5 DEF Moved, Mild, Is
  <2> QED BY <1>4, <2>1 DEF TInv, NotYet
<1>6. Once'
  BY <1>2, <1>3 DEF Once
<1>7. OneFile'
  <2>1. ASSUME NEW k \in Stored', NEW l \in Stored', raw'[k] = raw'[l] PROVE k = l
    BY <1>4, <2>1 DEF TInv, OneFile
  <2> QED BY <2>1 DEF OneFile
<1>8. ASSUME NEW d \in Docs, Loaded(d)'
      PROVE  job'[d] # "none" \/ \E s \in Threads : Storing(s, d)'
  <2>1. CASE Loaded(d) /\ job[d] # "none"
    BY <2>1 DEF Mild
  <2>2. CASE Storing(t, d)'
    BY <2>2
  <2>3. CASE \E s \in Threads : Storing(s, d)
    <3>1. PICK s \in Threads : Storing(s, d)
      BY <2>3
    <3>2. CASE s = t
      BY <3>1, <3>2 DEF Mild, Storing, Is
    <3>3. CASE s # t
      <4>1. req'[s] = req[s]
        BY <3>3 DEF Moved
      <4> QED BY <3>1, <4>1 DEF Storing, Is
    <3> QED BY <3>2, <3>3
  <2>4. Loaded(d) \/ Storing(t, d)'
    BY <1>8 DEF Mild, Loaded
  <2> QED BY <2>1, <2>2, <2>3, <2>4 DEF TInv, Recorded
<1>9. Recorded' /\ NotYet'
  BY <1>5, <1>8 DEF Recorded, NotYet
<1> QED BY <1>1, <1>6, <1>7, <1>9 DEF TInv

\* A request that goes on or ends, with its steps, leaves its thread shaped.
LEMMA WentShaped ==
  ASSUME TInv, NEW t \in Threads, NEW pc, Went(t, pc),
         \/ Is(t, "upload") /\ pc \in UploadPcs /\ req'[t].key \in Keys
         \/ Is(t, "delete") /\ pc \in DeletePcs /\ req'[t].key \in Keys
  PROVE  ShapedAt(t)'
<1>1. req[t].doc \in Docs
  BY KindOf DEF TInv
<1>2. req'[t].pc = pc /\ req'[t].kind = req[t].kind /\ req'[t].doc = req[t].doc
  BY DEF Went
<1> QED BY <1>1, <1>2 DEF ShapedAt, Is, UploadPcs, DeletePcs

LEMMA IdleShaped ==
  ASSUME NEW t \in Threads, req'[t].kind = "idle", req'[t].pc = "idle"
  PROVE  ShapedAt(t)'
BY DEF ShapedAt, Is

LEMMA UploadKeeps ==
  ASSUME TInv, NEW t \in Threads, UploadStep(t)
  PROVE  Moved(t) /\ TInv'
<1>1. /\ Is(t, "upload") /\ req[t].doc \in Docs /\ req[t] \in Request
      /\ req[t].pc # "save" => req[t].key \in Keys
  BY KindOf DEF TInv, UploadStep, PickKey, CopyRaw, InsertDocument, RunInline, Delay, AddBytes,
                At, OnlyUpload
<1>2. CASE PickKey(t)
  <2>1. Went(t, "copy") /\ req'[t].key \in Keys
    BY <1>2, PickKeyMoves
  <2>2. ShapedAt(t)'
    BY <1>1, <2>1, WentShaped DEF UploadPcs
  <2>3. failed' \in Seq(Calls)
    BY <1>2, PickKeyMoves, FailsType DEF S3Fails, Calls, TInv
  <2>4. TypeOK'
    BY <1>2, <2>1, <2>3 DEF PickKey, TInv, TypeOK, disk, caches, service, Went, Moved
  <2>5. Mild(t)
    BY <1>1, <1>2, <2>1 DEF PickKey, Mild, Went, Is, At, Unrecorded, TInv, TypeOK
  <2> QED BY <2>1, <2>2, <2>4, <2>5, MildKeeps DEF Went
<1>3. CASE CopyRaw(t)
  <2>1. req[t].pc = "copy" /\ job' = job
    BY <1>3 DEF CopyRaw, At
  <2>3. CASE Finish(t) /\ UNCHANGED raw
    <3>1. Moved(t) /\ req'[t].kind = "idle" /\ req'[t].pc = "idle"
      BY <2>3, FinishMoves DEF TInv
    <3>2. TypeOK'
      BY <1>3, <2>3, <3>1 DEF CopyRaw, TInv, TypeOK, disk, caches, outside, service, Moved
    <3>3. Mild(t)
      BY <1>3, <2>1, <2>3, <3>1 DEF CopyRaw, Mild, Storing, TInv, TypeOK
    <3> QED BY <3>1, <3>2, <3>3, IdleShaped, MildKeeps
  <2>4. CASE raw' = [raw EXCEPT ![req[t].key] = req[t].doc] /\ Goto(t, "row")
    <3>1. Went(t, "row") /\ req'[t].key = req[t].key
      BY <2>4, GotoMoves DEF TInv, Went, UploadPcs
    <3>2. TypeOK'
      BY <1>1, <1>3, <2>1, <2>4, <3>1
         DEF CopyRaw, TInv, TypeOK, disk, caches, outside, service, Went, Moved
    <3>3. ShapedAt(t)'
      BY <1>1, <2>1, <3>1, WentShaped DEF UploadPcs
    <3>4. Shaped'
      BY <3>1, <3>3, ShapedMove DEF TInv, Went
    <3>5. \A s \in Threads : req'[s].kind = req[s].kind /\ req'[s].doc = req[s].doc
      BY <3>1 DEF Went, Moved
    <3>6. Once'
      <4>1. ASSUME NEW s \in Threads, Is(s, "upload")', req'[s].pc \in Unrecorded
            PROVE  job'[req'[s].doc] = "none"
        <5>1. Is(s, "upload") /\ req[s].pc \in Unrecorded
          BY <2>1, <3>1, <3>5, <4>1 DEF Is, Unrecorded, Went, Moved
        <5> QED BY <2>1, <3>5, <5>1 DEF TInv, Once
      <4>2. \A s, u \in Threads :
              Is(s, "upload")' /\ Is(u, "upload")' /\ req'[s].doc = req'[u].doc => s = u
        BY <3>5 DEF Is, TInv, Once
      <4> QED BY <4>1, <4>2 DEF Once
    <3>7. \A k \in Stored : raw[k] # req[t].doc
      BY <1>1, <2>1 DEF TInv, NotYet
    <3>8. \A k \in Stored' : \/ k = req[t].key /\ raw'[k] = req[t].doc
                             \/ k \in Stored /\ raw'[k] = raw[k]
      BY <1>1, <2>1, <2>4 DEF Stored, TInv, TypeOK
    <3>9. OneFile'
      BY <3>7, <3>8 DEF TInv, OneFile
    <3>10. NotYet'
      <4>1. ASSUME NEW s \in Threads, Is(s, "upload")', req'[s].pc \in {"save", "copy"},
                   NEW k \in Stored'
            PROVE  raw'[k] # req'[s].doc
        <5>1. s # t
          BY <3>1, <4>1 DEF Went
        <5>2. req'[s] = req[s] /\ Is(s, "upload")
          BY <3>1, <4>1, <5>1 DEF Went, Moved, Is
        <5>3. req[s].doc # req[t].doc
          BY <1>1, <5>1, <5>2 DEF TInv, Once
        <5>4. k \in Stored => raw[k] # req[s].doc
          BY <4>1, <5>2 DEF TInv, NotYet
        <5> QED BY <3>8, <4>1, <5>2, <5>3, <5>4
      <4> QED BY <4>1 DEF NotYet
    <3>11. Recorded'
      <4>1. row' = row
        BY <1>3 DEF CopyRaw
      <4>2. ASSUME NEW d \in Docs, NEW s \in Threads, Storing(s, d) PROVE Storing(s, d)'
        <5>1. s # t
          BY <2>1, <4>2 DEF Storing
        <5> QED BY <3>1, <4>2, <5>1 DEF Storing, Is, Went, Moved
      <4>3. ASSUME NEW d \in Docs, Loaded(d)'
            PROVE  job'[d] # "none" \/ \E s \in Threads : Storing(s, d)'
        <5>1. Loaded(d)
          BY <4>1, <4>3 DEF Loaded
        <5> QED BY <2>1, <4>2, <5>1 DEF TInv, Recorded
      <4> QED BY <4>3 DEF Recorded
    <3> QED BY <3>1, <3>2, <3>4, <3>6, <3>9, <3>10, <3>11 DEF TInv, Went
  <2> QED BY <1>3, <2>3, <2>4 DEF CopyRaw
<1>4. CASE InsertDocument(t) /\ Goto(t, "enqueue")
  <2>1. Went(t, "enqueue") /\ req'[t].key = req[t].key /\ req[t].pc = "row"
    BY <1>4, GotoMoves DEF TInv, Went, UploadPcs, InsertDocument, At
  <2>2. failed' \in Seq(Calls) /\ row' \in [Docs -> Keys \cup {Nothing}]
    BY <1>1, <1>4, <2>1, FailsType DEF InsertDocument, Calls, TInv, TypeOK
  <2>3. TypeOK'
    BY <1>4, <2>1, <2>2 DEF InsertDocument, TInv, TypeOK, disk, caches, service, Went, Moved
  <2>4. ShapedAt(t)'
    BY <1>1, <2>1, WentShaped DEF UploadPcs
  <2>5. ASSUME NEW d \in Docs PROVE row'[d] \in {row[d], Nothing} \/ Storing(t, d)'
    <3>1. CASE d = req[t].doc
      BY <1>1, <2>1, <3>1 DEF Went, Storing, Is
    <3>2. CASE d # req[t].doc
      BY <1>1, <1>4, <3>2 DEF InsertDocument, TInv, TypeOK
    <3> QED BY <3>1, <3>2
  <2>6. Mild(t)
    BY <1>1, <1>4, <2>1, <2>5 DEF InsertDocument, Mild, Went, Is, Unrecorded, TInv, TypeOK
  <2> QED BY <2>1, <2>3, <2>4, <2>6, MildKeeps DEF Went
<1>8. CASE InsertDocument(t) /\ Fails("insert_one") /\ Finish(t) /\ UNCHANGED row
  <2>1. Moved(t) /\ req'[t].kind = "idle" /\ req'[t].pc = "idle" /\ req[t].pc = "row"
    BY <1>8, FinishMoves DEF TInv, InsertDocument, At
  <2>2. failed' \in Seq(Calls)
    BY <1>8, FailsType DEF Calls, TInv
  <2>3. TypeOK'
    BY <1>8, <2>1, <2>2 DEF InsertDocument, TInv, TypeOK, disk, caches, service, Moved
  <2>4. Mild(t)
    BY <1>8, <2>1 DEF InsertDocument, Mild, Storing, TInv, TypeOK
  <2> QED BY <2>1, <2>3, <2>4, IdleShaped, MildKeeps
<1>5. CASE RunInline(t)
  <2>1. Went(t, "list") /\ req'[t].key = req[t].key /\ req[t].pc = "enqueue"
    BY <1>5, GotoMoves DEF TInv, Went, UploadPcs, RunInline, At
  <2>2. job' \in [Docs -> JobStatus]
    BY <1>1, <1>5 DEF RunInline, TInv, TypeOK, JobStatus
  <2>3. TypeOK'
    BY <1>5, <2>1, <2>2
       DEF RunInline, TInv, TypeOK, disk, caches, outside, service, Went, Moved
  <2>4. ShapedAt(t)'
    BY <1>1, <2>1, WentShaped DEF UploadPcs
  <2>5. Mild(t)
    BY <1>1, <1>5, <2>1 DEF RunInline, Mild, Went, Is, Unrecorded, TInv, TypeOK
  <2> QED BY <2>1, <2>3, <2>4, <2>5, MildKeeps DEF Went
<1>6. CASE Delay(t)
  <2>1. Moved(t) /\ req'[t].kind = "idle" /\ req'[t].pc = "idle"
    BY <1>6, FinishMoves DEF TInv, Delay
  <2>2. job' \in [Docs -> JobStatus] /\ queue' \subseteq Docs
    BY <1>1, <1>6 DEF Delay, TInv, TypeOK, JobStatus
  <2>3. TypeOK'
    BY <1>6, <2>1, <2>2 DEF Delay, TInv, TypeOK, disk, caches, Moved
  <2>4. Mild(t)
    BY <1>1, <1>6, <2>1 DEF Delay, Mild, Storing, TInv, TypeOK
  <2> QED BY <2>1, <2>3, <2>4, IdleShaped, MildKeeps
<1>7. CASE AddBytes(t)
  <2>1. Moved(t) /\ req'[t].kind = "idle" /\ req'[t].pc = "idle"
    BY <1>7, FinishMoves DEF TInv, AddBytes
  <2>2. job' \in [Docs -> JobStatus]
    BY <1>1, <1>7 DEF AddBytes, TInv, TypeOK, JobStatus
  <2>5. bytes' \in Nat
    <3>1. bytes \in Nat /\ Size[req[t].doc] \in Nat
      BY <1>1, CorpusAssumption DEF TInv, TypeOK
    <3> QED BY <1>7, <3>1 DEF AddBytes
  <2>3. TypeOK'
    BY <1>7, <2>1, <2>2, <2>5 DEF AddBytes, TInv, TypeOK, disk, caches, outside, service, Moved
  <2>4. Mild(t)
    BY <1>1, <1>7, <2>1 DEF AddBytes, Mild, Storing, TInv, TypeOK
  <2> QED BY <2>1, <2>3, <2>4, IdleShaped, MildKeeps
<1> QED BY <1>2, <1>3, <1>4, <1>5, <1>6, <1>7, <1>8 DEF UploadStep, InsertDocument

\* A step that stores no file and records no job, and a request that goes on after
\* its job was recorded, or ends.
LEMMA CalmKeeps ==
  ASSUME TInv, NEW t \in Threads, TypeOK', UNCHANGED job,
         \A k \in Keys : raw'[k] \in {raw[k], Nothing},
         \A d \in Docs : row'[d] \in {row[d], Nothing},
         \/ /\ Moved(t) /\ req'[t].kind = "idle" /\ req'[t].pc = "idle"
            /\ ~Is(t, "upload") \/ req[t].pc # "enqueue"
         \/ \E pc : /\ Went(t, pc) /\ req[t].pc # "enqueue" /\ pc \notin Unrecorded
                    /\ req'[t].key \in Keys
                    /\ \/ Is(t, "upload") /\ pc \in UploadPcs
                       \/ Is(t, "delete") /\ pc \in DeletePcs
  PROVE  Moved(t) /\ TInv'
<1>1. \A d \in Docs : job'[d] = job[d]
  OBVIOUS
<1>2. CASE /\ Moved(t) /\ req'[t].kind = "idle" /\ req'[t].pc = "idle"
           /\ ~Is(t, "upload") \/ req[t].pc # "enqueue"
  <2>1. Mild(t)
    BY <1>1, <1>2 DEF Mild, Storing
  <2> QED BY <1>2, <2>1, IdleShaped, MildKeeps
<1>3. ASSUME NEW pc, Went(t, pc), req[t].pc # "enqueue", pc \notin Unrecorded,
             req'[t].key \in Keys,
             \/ Is(t, "upload") /\ pc \in UploadPcs
             \/ Is(t, "delete") /\ pc \in DeletePcs
      PROVE  Moved(t) /\ TInv'
  <2>1. ShapedAt(t)'
    BY <1>3, WentShaped
  <2>2. Mild(t)
    BY <1>1, <1>3 DEF Mild, Storing, Went, Is, Unrecorded
  <2> QED BY <1>3, <2>1, <2>2, MildKeeps DEF Went
<1> QED BY <1>2, <1>3

LEMMA DeleteKeeps ==
  ASSUME TInv, NEW t \in Threads, DeleteStep(t)
  PROVE  Moved(t) /\ TInv'
<1>1. Is(t, "delete") /\ req[t].doc \in Docs /\ req[t].key \in Keys /\ req[t] \in Request
  BY KindOf DEF TInv, DeleteStep, DeleteDocument, RemoveRaw, DeleteVectors, DeletePop,
                WipeNamespace, At, OnlyDelete
<1>2. ~Is(t, "upload")
  BY <1>1 DEF Is
<1>3. \A pc \in DeletePcs : Goto(t, pc) => Went(t, pc) /\ req'[t].key \in Keys
  BY <1>1, GotoMoves DEF TInv, Went
<1>rows. \A d \in Docs : row'[d] \in {row[d], Nothing}
  BY <1>1 DEF DeleteStep, DeleteDocument, RemoveRaw, DeleteVectors, DeletePop, WipeNamespace,
              TInv, TypeOK
<1>4. CASE DeleteDocument(t)
  <2>1. Went(t, "remove") /\ req'[t].key \in Keys /\ req[t].pc = "delrow"
    BY <1>3, <1>4 DEF DeleteDocument, DeletePcs, At
  <2>2. TypeOK'
    <3>1. failed' \in Seq(Calls) /\ row' \in [Docs -> Keys \cup {Nothing}]
      BY <1>1, <1>4, FailsType DEF DeleteDocument, Calls, TInv, TypeOK
    <3> QED BY <1>4, <2>1, <3>1
            DEF DeleteDocument, TInv, TypeOK, disk, caches, service, Went, Moved
  <2>3. UNCHANGED job /\ \A k \in Keys : raw'[k] \in {raw[k], Nothing}
    BY <1>4 DEF DeleteDocument
  <2> QED BY <1>1, <2>1, <2>2, <2>3, <1>rows, CalmKeeps DEF DeletePcs, Unrecorded
<1>5. CASE RemoveRaw(t)
  <2>1. Went(t, "list") /\ req'[t].key \in Keys /\ req[t].pc = "remove"
    BY <1>3, <1>5 DEF RemoveRaw, DeletePcs, At
  <2>2. failed' \in Seq(Calls)
    BY <1>5, FailsType DEF RemoveRaw, Calls, TInv
  <2>3. raw' \in [Keys -> Docs \cup {Nothing}] /\ \A k \in Keys : raw'[k] \in {raw[k], Nothing}
    BY <1>1, <1>5 DEF RemoveRaw, Without, TInv, TypeOK
  <2>4. TypeOK'
    BY <1>5, <2>1, <2>2, <2>3
       DEF RemoveRaw, TInv, TypeOK, disk, caches, service, Went, Moved
  <2>5. UNCHANGED job
    BY <1>5 DEF RemoveRaw
  <2> QED BY <1>1, <2>1, <2>3, <2>4, <2>5, <1>rows, CalmKeeps DEF DeletePcs, Unrecorded
<1>6. CASE DeleteVectors(t)
  <2>1. Went(t, "delpop") /\ req'[t].key \in Keys /\ req[t].pc = "delvec"
    BY <1>3, <1>6 DEF DeleteVectors, DeletePcs, At
  <2>2. TypeOK'
    BY <1>6, <2>1 DEF DeleteVectors, TInv, TypeOK, caches, outside, service, Went, Moved
  <2>3. UNCHANGED job /\ \A k \in Keys : raw'[k] \in {raw[k], Nothing}
    BY <1>6 DEF DeleteVectors
  <2> QED BY <1>1, <2>1, <2>2, <2>3, <1>rows, CalmKeeps DEF DeletePcs, Unrecorded
<1>7. CASE DeletePop(t)
  <2>1. Went(t, "rmtree") /\ req'[t].key \in Keys /\ req[t].pc = "delpop"
    BY <1>3, <1>7 DEF DeletePop, DeletePcs, At
  <2>2. vecCache' \in [Procs -> (SUBSET Docs) \X (SUBSET Docs)]
    BY <1>7 DEF DeletePop, NotCached, TInv, TypeOK
  <2>3. TypeOK'
    BY <1>1, <1>7, <2>1, <2>2 DEF Request, DeletePop, TInv, TypeOK, disk, outside, service, Went, Moved
  <2>4. UNCHANGED job /\ \A k \in Keys : raw'[k] \in {raw[k], Nothing}
    BY <1>7 DEF DeletePop
  <2> QED BY <1>1, <2>1, <2>3, <2>4, <1>rows, CalmKeeps DEF DeletePcs, Unrecorded
<1>8. CASE WipeNamespace(t)
  <2>1. Moved(t) /\ req'[t].kind = "idle" /\ req'[t].pc = "idle"
    BY <1>8, FinishMoves DEF TInv, WipeNamespace
  <2>2. raw' \in [Keys -> Docs \cup {Nothing}] /\ \A k \in Keys : raw'[k] \in {raw[k], Nothing}
    BY <1>8 DEF WipeNamespace, TInv, TypeOK
  <2>3. TypeOK'
    BY <1>8, <2>1, <2>2 DEF WipeNamespace, TInv, TypeOK, caches, outside, service, Moved
  <2>4. UNCHANGED job
    BY <1>8 DEF WipeNamespace
  <2> QED BY <1>2, <2>1, <2>2, <2>3, <2>4, <1>rows, CalmKeeps
<1> QED BY <1>4, <1>5, <1>6, <1>7, <1>8 DEF DeleteStep

LEMMA IngestKeeps ==
  ASSUME TInv, NEW t \in Threads, IngestStep(t)
  PROVE  Moved(t) /\ TInv'
<1>1. /\ Is(t, "upload") \/ Is(t, "delete")
      /\ req[t].doc \in Docs /\ req[t].key \in Keys /\ req[t] \in Request
      /\ req[t].pc \in Ingesting \cup {"bytes"}
  BY KindOf DEF TInv, IngestStep, ListRaw, Materialize, FailIngest, MayRaise, WipeIndex,
                WriteFaiss, WriteMetadata, PopVec, BuildBm25, PopBm25, At, Ingesting, OnlyUpload
<1>2. req[t].pc # "enqueue" /\ req[t].docs \subseteq Docs
  BY <1>1 DEF Ingesting, Request
<1>3. \A pc \in Ingesting : Goto(t, pc) => Went(t, pc) /\ req'[t].key \in Keys
  BY <1>1, GotoMoves DEF TInv, Went, Ingesting, UploadPcs
<1>rows. row' = row
  BY DEF IngestStep, ListRaw, Materialize, FailIngest, WipeIndex, WriteFaiss, WriteMetadata,
         PopVec, BuildBm25, PopBm25
<1>4. ASSUME NEW pc \in Ingesting, Went(t, pc), req'[t].key \in Keys, UNCHANGED <<raw, job>>, TypeOK'
      PROVE  Moved(t) /\ TInv'
  <2>1. /\ pc \notin Unrecorded
        /\ \/ Is(t, "upload") /\ pc \in UploadPcs
           \/ Is(t, "delete") /\ pc \in DeletePcs
    BY <1>1, <1>4 DEF Ingesting, UploadPcs, DeletePcs, Unrecorded
  <2>2. \A k \in Keys : raw'[k] \in {raw[k], Nothing}
    BY <1>4
  <2> QED BY <1>2, <1>4, <2>1, <2>2, <1>rows, CalmKeeps
<1>5. CASE ListRaw(t)
  <2>1. Went(t, req'[t].pc) /\ req'[t].key \in Keys
    BY <1>1, <1>5, ListRawMoves
  <2>2. failed' \in Seq(Calls)
    BY <1>5, ListRawMoves, FailsType DEF S3Fails, Calls, TInv
  <2>3. TypeOK'
    BY <1>5, <2>1, <2>2 DEF ListRaw, TInv, TypeOK, disk, caches, service, Went, Moved
  <2>4. UNCHANGED job /\ \A k \in Keys : raw'[k] \in {raw[k], Nothing}
    BY <1>5 DEF ListRaw
  <2>5. \/ Is(t, "upload") /\ req'[t].pc \in UploadPcs \ Unrecorded
        \/ Is(t, "delete") /\ req'[t].pc \in DeletePcs \ Unrecorded
    BY <1>1, <1>5, ListRawMoves DEF UploadPcs, DeletePcs, Unrecorded
  <2> QED BY <1>2, <2>1, <2>3, <2>4, <2>5, <1>rows, CalmKeeps
<1>6. CASE Materialize(t)
  <2>1. Went(t, "wipe") /\ req'[t].key \in Keys
    BY <1>1, <1>6, MaterializeMoves
  <2>2. failed' \in Seq(Calls)
    BY <1>6, MaterializeMoves, FailsType DEF Calls, TInv
  <2>3. TypeOK'
    BY <1>6, <2>1, <2>2 DEF Materialize, TInv, TypeOK, disk, caches, service, Went, Moved
  <2> QED BY <1>4, <1>6, <2>1, <2>3 DEF Materialize, Ingesting
<1>7. CASE FailIngest(t)
  <2>1. Moved(t) /\ req'[t].kind = "idle" /\ req'[t].pc = "idle"
    BY <1>7, FinishMoves DEF TInv, FailIngest
  <2>2. job' \in [Docs -> JobStatus] /\ failed' \in Seq(Calls)
    BY <1>1, <1>7, FailsType DEF FailIngest, MayRaise, Calls, TInv, TypeOK, JobStatus
  <2>3. TypeOK'
    BY <1>7, <2>1, <2>2 DEF FailIngest, TInv, TypeOK, disk, caches, service, Moved
  <2>4. Mild(t)
    BY <1>1, <1>2, <1>7, <2>1, <1>rows DEF FailIngest, Mild, Storing, TInv, TypeOK
  <2> QED BY <2>1, <2>3, <2>4, IdleShaped, MildKeeps
<1>8. CASE WipeIndex(t)
  <2>1. Went(t, "faiss") /\ req'[t].key \in Keys
    BY <1>3, <1>8 DEF WipeIndex, Ingesting
  <2>2. TypeOK'
    BY <1>8, <2>1 DEF WipeIndex, TInv, TypeOK, caches, outside, service, Went, Moved
  <2> QED BY <1>4, <1>8, <2>1, <2>2 DEF WipeIndex, Ingesting
<1>9. CASE WriteFaiss(t)
  <2>1. Went(t, "meta") /\ req'[t].key \in Keys
    BY <1>3, <1>9 DEF WriteFaiss, Ingesting
  <2>2. TypeOK'
    BY <1>2, <1>9, <2>1 DEF WriteFaiss, TInv, TypeOK, caches, outside, service, Went, Moved
  <2> QED BY <1>4, <1>9, <2>1, <2>2 DEF WriteFaiss, Ingesting
<1>10. CASE WriteMetadata(t)
  <2>1. Went(t, "popvec") /\ req'[t].key \in Keys
    BY <1>3, <1>10 DEF WriteMetadata, Ingesting
  <2>2. TypeOK'
    BY <1>2, <1>10, <2>1 DEF WriteMetadata, TInv, TypeOK, caches, outside, service, Went, Moved
  <2> QED BY <1>4, <1>10, <2>1, <2>2 DEF WriteMetadata, Ingesting
<1>11. CASE PopVec(t)
  <2>1. Went(t, "bm25") /\ req'[t].key \in Keys
    BY <1>3, <1>11 DEF PopVec, Ingesting
  <2>2. vecCache' \in [Procs -> (SUBSET Docs) \X (SUBSET Docs)]
    BY <1>11 DEF PopVec, NotCached, TInv, TypeOK
  <2>3. TypeOK'
    BY <1>1, <1>11, <2>1, <2>2 DEF Request, PopVec, TInv, TypeOK, disk, outside, service, Went, Moved
  <2> QED BY <1>4, <1>11, <2>1, <2>3 DEF PopVec, Ingesting
<1>12. CASE BuildBm25(t)
  <2>1. Went(t, "popbm") /\ req'[t].key \in Keys
    BY <1>3, <1>12 DEF BuildBm25, Ingesting
  <2>2. failed' \in Seq(Calls)
    BY <1>12, FailsType DEF BuildBm25, Calls, TInv
  <2>3. TypeOK'
    BY <1>2, <1>12, <2>1, <2>2 DEF BuildBm25, TInv, TypeOK, caches, service, Went, Moved
  <2> QED BY <1>4, <1>12, <2>1, <2>3 DEF BuildBm25, Ingesting
<1>13. CASE PopBm25(t)
  <2>1. bmCache' \in [Procs -> SUBSET Docs]
    BY <1>13 DEF PopBm25, TInv, TypeOK
  <2>2. Moved(t) => TypeOK'
    BY <1>13, <2>1 DEF PopBm25, TInv, TypeOK, disk, outside, service, Moved
  <2>3. UNCHANGED job /\ \A k \in Keys : raw'[k] \in {raw[k], Nothing}
    BY <1>13 DEF PopBm25
  <2>4. CASE Finish(t)
    BY <1>2, <2>2, <2>3, <2>4, FinishMoves, <1>rows, CalmKeeps DEF TInv
  <2>5. CASE Is(t, "upload") /\ Goto(t, "bytes")
    <3>1. Went(t, "bytes") /\ req'[t].key \in Keys
      BY <1>1, <2>5, GotoMoves DEF TInv, Went, UploadPcs
    <3>2. TypeOK' /\ "bytes" \in UploadPcs \ Unrecorded
      BY <2>2, <3>1 DEF Went, UploadPcs, Unrecorded
    <3> QED BY <1>2, <2>3, <2>5, <3>1, <3>2, <1>rows, CalmKeeps
  <2> QED BY <1>1, <1>13, <2>4, <2>5 DEF PopBm25
<1> QED BY <1>5, <1>6, <1>7, <1>8, <1>9, <1>10, <1>11, <1>12, <1>13 DEF IngestStep

LEMMA QueryKeeps ==
  ASSUME TInv, NEW t \in Threads, QueryStep(t)
  PROVE  Moved(t) /\ TInv'
<1>1. /\ Moved(t) /\ Is(t, "query")
      /\ req'[t] = Idle \/ (req'[t].kind = "query" /\ req'[t].pc \in QueryPcs)
  BY QueryMoves
<1>2. req'[t].kind # "upload" /\ ~Is(t, "upload")
  BY <1>1 DEF Idle, Is
<1>3. ShapedAt(t)'
  BY <1>1 DEF ShapedAt, Is, Idle, QueryPcs
<1>4. req[t].docs \subseteq Docs
  BY DEF TInv, TypeOK, Request
<1>5. vecCache' \in [Procs -> (SUBSET Docs) \X (SUBSET Docs)] /\ bmCache' \in [Procs -> SUBSET Docs]
  <2>1. CASE LoadMetadata(t)
    <3>1. vecCache \in [Procs -> (SUBSET Docs) \X (SUBSET Docs)] /\ meta \subseteq Docs
      BY DEF TInv, TypeOK
    <3>2. <<req[t].docs, meta>> \in (SUBSET Docs) \X (SUBSET Docs)
      BY <1>4, <3>1
    <3>3. \/ vecCache' = vecCache
          \/ vecCache' = [vecCache EXCEPT ![req[t].proc] = <<req[t].docs, meta>>]
      BY <2>1 DEF LoadMetadata
    <3>4. vecCache' \in [Procs -> (SUBSET Docs) \X (SUBSET Docs)]
      BY <3>1, <3>2, <3>3
    <3> QED BY <2>1, <3>4 DEF LoadMetadata, TInv, TypeOK
  <2>2. CASE LoadBm25(t)
    BY <2>2 DEF LoadBm25, caches, TInv, TypeOK
  <2>3. CASE StoreBm25(t)
    BY <1>4, <2>3 DEF StoreBm25, TInv, TypeOK
  <2> QED BY <2>1, <2>2, <2>3 DEF QueryStep
<1>6. UNCHANGED <<row, raw, disk, bytes, job, outside>>
  BY DEF QueryStep, LoadMetadata, LoadBm25, StoreBm25
<1>7. TypeOK'
  BY <1>1, <1>5, <1>6 DEF TInv, TypeOK, Moved, disk, outside, service
<1>8. Mild(t)
  BY <1>2, <1>6 DEF Mild, Storing
<1> QED BY <1>1, <1>3, <1>7, <1>8, MildKeeps

\* A request begins, and nothing has been done yet.
Begins(t) == Moved(t) /\ Is(t, "idle")
             /\ UNCHANGED <<row, raw, disk, bytes, caches, job, outside>>

LEMMA BeginUploadMoves ==
  ASSUME TInv, NEW t \in Threads, NEW d \in Docs, BeginUpload(t, d)
  PROVE  /\ Begins(t)
         /\ req'[t].kind = "upload" /\ req'[t].pc = "save" /\ req'[t].doc = d
<1>1. PICK p \in Procs :
        req' = [req EXCEPT ![t] = [Idle EXCEPT !.kind = "upload", !.pc = "save",
                                               !.doc = d, !.proc = p]]
  BY DEF BeginUpload
<1> DEFINE r == [Idle EXCEPT !.kind = "upload", !.pc = "save", !.doc = d, !.proc = p]
<1>2. r \in Request
  BY DEF Idle, Request, UploadPcs
<1>3. Moved(t) /\ req'[t] = r
  BY <1>1, <1>2, WithMoves DEF TInv
<1>4. Is(t, "idle")
  BY KindOf DEF TInv, BeginUpload, At
<1>5. req'[t].kind = "upload" /\ req'[t].pc = "save" /\ req'[t].doc = d
  BY <1>3 DEF Idle
<1> QED BY <1>3, <1>4, <1>5 DEF Begins, BeginUpload

LEMMA BeginDeleteMoves ==
  ASSUME TInv, NEW t \in Threads, NEW d \in Docs, BeginDelete(t, d)
  PROVE  /\ Begins(t)
         /\ req'[t].kind = "delete" /\ req'[t].pc = "delrow" /\ req'[t].doc = d
         /\ req'[t].key = row[d] /\ row[d] \in Keys
<1>1. PICK p \in Procs :
        req' = [req EXCEPT ![t] = [Idle EXCEPT !.kind = "delete", !.pc = "delrow",
                                               !.doc = d, !.key = row[d], !.proc = p]]
  BY DEF BeginDelete
<1> DEFINE r == [Idle EXCEPT !.kind = "delete", !.pc = "delrow",
                             !.doc = d, !.key = row[d], !.proc = p]
<1>2. row[d] \in Keys
  BY DEF TInv, TypeOK, BeginDelete
<1>3. r \in Request
  BY <1>2 DEF Idle, Request, DeletePcs
<1>4. Moved(t) /\ req'[t] = r
  BY <1>1, <1>3, WithMoves DEF TInv
<1>5. Is(t, "idle")
  BY KindOf DEF TInv, BeginDelete, At
<1>6. /\ req'[t].kind = "delete" /\ req'[t].pc = "delrow" /\ req'[t].doc = d
      /\ req'[t].key = row[d]
  BY <1>4 DEF Idle
<1> QED BY <1>2, <1>4, <1>5, <1>6 DEF Begins, BeginDelete

LEMMA LoadFaissMoves ==
  ASSUME TInv, NEW t \in Threads, NEW p \in Procs, LoadFaiss(t, p)
  PROVE  /\ Begins(t) /\ req'[t].kind = "query"
         /\ req'[t].pc = "bm" \/ (req'[t].pc = "vecmeta" /\ req'[t].docs = faiss)
<1>1. PICK pc \in {"bm", "vecmeta"}, docs \in {{}, faiss} :
        /\ pc = "vecmeta" => docs = faiss
        /\ req' = [req EXCEPT ![t] = [Idle EXCEPT !.kind = "query", !.pc = pc,
                                                  !.docs = docs, !.proc = p]]
  BY DEF LoadFaiss
<1> DEFINE r == [Idle EXCEPT !.kind = "query", !.pc = pc, !.docs = docs, !.proc = p]
<1>2. docs \subseteq Docs
  BY DEF TInv, TypeOK
<1>3. r \in Request
  BY <1>2 DEF Idle, Request, QueryPcs
<1>4. Moved(t) /\ req'[t] = r
  BY <1>1, <1>3, WithMoves DEF TInv
<1>5. Is(t, "idle")
  BY KindOf DEF TInv, LoadFaiss, At
<1>6. req'[t].kind = "query" /\ req'[t].pc = pc /\ req'[t].docs = docs
  BY <1>4 DEF Idle
<1> QED BY <1>1, <1>4, <1>5, <1>6 DEF Begins, LoadFaiss

LEMMA BeginTyped ==
  ASSUME TInv, NEW t \in Threads, Begins(t)
  PROVE  Moved(t) /\ Is(t, "idle") /\ TypeOK'
BY DEF TInv, TypeOK, Moved, Begins, disk, caches, outside, service

LEMMA NextKeepsT == TInv /\ [Next]_vars => TInv'
<1> SUFFICES ASSUME TInv, [Next]_vars PROVE TInv'
  OBVIOUS
<1>1. ASSUME NEW t \in Threads, Step(t) PROVE TInv'
  BY <1>1, UploadKeeps, DeleteKeeps, IngestKeeps, QueryKeeps DEF Step
<1>2. ASSUME NEW t \in Threads, NEW p \in Procs, LoadFaiss(t, p) PROVE TInv'
  <2>1. Begins(t) /\ req'[t].kind = "query" /\ req'[t].pc \in {"bm", "vecmeta"}
    BY <1>2, LoadFaissMoves
  <2>2. Moved(t) /\ Is(t, "idle") /\ TypeOK'
    BY <2>1, BeginTyped
  <2>3. ShapedAt(t)'
    BY <2>1 DEF ShapedAt, Is, QueryPcs
  <2>4. Mild(t)
    BY <2>1, <2>2 DEF Mild, Begins, Storing, Is
  <2> QED BY <2>2, <2>3, <2>4, MildKeeps
<1>3. ASSUME NEW t \in Threads, NEW d \in Docs, BeginDelete(t, d) PROVE TInv'
  <2>1. /\ Begins(t) /\ req'[t].kind = "delete" /\ req'[t].pc = "delrow"
        /\ req'[t].doc = d /\ req'[t].key \in Keys
    BY <1>3, BeginDeleteMoves
  <2>2. Moved(t) /\ Is(t, "idle") /\ TypeOK'
    BY <2>1, BeginTyped
  <2>3. ShapedAt(t)'
    BY <2>1 DEF ShapedAt, Is, DeletePcs
  <2>4. Mild(t)
    BY <2>1, <2>2 DEF Mild, Begins, Storing, Is
  <2> QED BY <2>2, <2>3, <2>4, MildKeeps
<1>4. ASSUME NEW t \in Threads, NEW d \in Docs, BeginUpload(t, d) PROVE TInv'
  <2>1. /\ Begins(t)
        /\ req'[t].kind = "upload" /\ req'[t].pc = "save" /\ req'[t].doc = d
    BY <1>4, BeginUploadMoves
  <2>2. /\ job' = job /\ raw' = raw /\ row' = row
        /\ job[d] = "none" /\ d \notin Contents(Stored) /\ \A s \in Threads : req[s].doc # d
    BY <1>4 DEF BeginUpload
  <2>3. Moved(t) /\ Is(t, "idle") /\ TypeOK'
    BY <2>1, BeginTyped
  <2>4. ShapedAt(t)'
    BY <2>1 DEF ShapedAt, Is, UploadPcs
  <2>5. Shaped'
    BY <2>3, <2>4, ShapedMove DEF TInv
  <2>6. Once'
    <3>1. ASSUME NEW s \in Threads, Is(s, "upload")', req'[s].pc \in Unrecorded
          PROVE  job'[req'[s].doc] = "none"
      BY <2>1, <2>2, <2>3, <3>1 DEF Moved, TInv, Once, Is
    <3>2. ASSUME NEW s \in Threads, NEW u \in Threads,
                 Is(s, "upload")', Is(u, "upload")', req'[s].doc = req'[u].doc
          PROVE  s = u
      BY <2>1, <2>2, <2>3, <3>2 DEF Moved, TInv, Once, Is
    <3> QED BY <3>1, <3>2 DEF Once
  <2>7. OneFile' /\ Stored' = Stored
    BY <2>2 DEF TInv, OneFile, Stored
  <2>8. NotYet'
    <3>1. ASSUME NEW s \in Threads, Is(s, "upload")', req'[s].pc \in {"save", "copy"},
                 NEW k \in Stored
          PROVE  raw[k] # req'[s].doc
      <4>1. CASE s = t
        BY <2>1, <2>2, <4>1 DEF Contents, Stored
      <4>2. CASE s # t
        <5>1. req'[s] = req[s] /\ Is(s, "upload")
          BY <2>3, <3>1, <4>2 DEF Moved, Is
        <5> QED BY <3>1, <5>1 DEF TInv, NotYet
      <4> QED BY <4>1, <4>2
    <3> QED BY <2>2, <2>7, <3>1 DEF NotYet
  <2>9. Recorded'
    <3>1. ASSUME NEW e \in Docs, NEW s \in Threads, Storing(s, e) PROVE Storing(s, e)'
      BY <2>3, <3>1 DEF Moved, Storing, Is
    <3>2. ASSUME NEW e \in Docs, Loaded(e)'
          PROVE  job'[e] # "none" \/ \E s \in Threads : Storing(s, e)'
      <4>1. Loaded(e)
        BY <2>2, <3>2 DEF Loaded
      <4> QED BY <2>2, <3>1, <4>1 DEF TInv, Recorded
    <3> QED BY <3>2 DEF Recorded
  <2> QED BY <2>3, <2>5, <2>6, <2>7, <2>8, <2>9 DEF TInv
<1>5. ASSUME NEW d \in Docs, DiscardMessage(d) PROVE TInv'
  <2>1. TypeOK'
    BY <1>5 DEF DiscardMessage, TInv, TypeOK, disk, caches
  <2> QED BY <1>5, <2>1 DEF DiscardMessage, TInv, Shaped, ShapedAt, Once, OneFile, NotYet,
                            Recorded, Storing, Stored, Loaded, Is
<1>6. CASE UNCHANGED vars
  <2>1. UNCHANGED <<row, raw, faiss, meta, bm25, indexer, bytes, vecCache, bmCache, job, mode,
                    queue, storage, failed, req>>
    BY <1>6 DEF vars, disk, caches, outside, service
  <2>2. TypeOK'
    BY <2>1 DEF TInv, TypeOK
  <2> QED BY <2>1, <2>2 DEF TInv, Shaped, ShapedAt, Once, OneFile, NotYet, Recorded,
                            Storing, Stored, Loaded, Is
<1> QED BY <1>1, <1>2, <1>3, <1>4, <1>5, <1>6 DEF Next

\* Rows, files, index files, cached copies and requests are what their declarations
\* say: above all an upload always finds a free key, its search for one always ends.
THEOREM CorpusTyped == Spec => []TypeOK
<1>1. TInv => TypeOK
  BY DEF TInv
<1> QED BY <1>1, InitT, NextKeepsT, PTL DEF Spec

\* However uploads of one name overlap, and whatever fails, no document is in two raw
\* files, and so the search for a name always ends at a suffix that no file has.
THEOREM CorpusOneFile ==
  Spec => [](OneFile /\ \A d \in Docs : raw[<<Name[d], FirstFree(Name[d])>>] = Nothing)
<1>1. TInv => OneFile /\ \A d \in Docs : raw[<<Name[d], FirstFree(Name[d])>>] = Nothing
  BY FreeSuffix DEF TInv
<1> QED BY <1>1, InitT, NextKeepsT, PTL DEF Spec

-----------------------------------------------------------------------------
\* One upload or deletion at a time.

Alone == \A s, t \in Writers : s = t

\* What the writer works on.
Working == IF Writers = {} THEN Idle ELSE req[CHOOSE t \in Writers : TRUE]

\* Only S3 lists some of the files.
InS3 == Lost({"list"}) => storage = "s3"

\* Rows and files, but for what the writer is about to do.
RowsHeld ==
  /\ ~Lost({"head", "delete_one"}) => \A d \in Docs : Loaded(d) => raw[row[d]] = d
  /\ ~Lost({"delete", "insert_one"}) => \A k \in Stored :
       row[raw[k]] = k \/ (Working.pc \in {"row", "remove"} /\ Working.key = k)

\* What the writer has found out about its row and its file, and still holds.
WriterKnows ==
  /\ Working.pc \in {"save", "copy", "row"} => row[Working.doc] = Nothing
  /\ Working.pc = "copy" /\ ~Lost({"head"}) => raw[Working.key] = Nothing
  /\ Working.pc = "row" => raw[Working.key] = Working.doc
  /\ Working.pc = "delrow" => row[Working.doc] = Working.key
  /\ Working.pc = "remove" /\ ~Lost({"head", "delete_one"}) =>
       row[Working.doc] = Nothing /\ raw[Working.key] = Working.doc
  /\ Working.pc \in {"delvec", "delpop", "rmtree"} /\ ~Lost({"list"}) => Stored = {}

\* The BM25 index goes with the other two files, or could not be built once.
Bm25Held == bm25 = meta \/ (bm25 = {} /\ Lost({"bm25"}))

\* The index files differ only while a writer is at work on them, or after an ingest
\* that has not written them all.
IndexHeld ==
  /\ \/ indexer = Nothing
     \/ faiss = meta /\ Bm25Held
     \/ Working.pc \in {"bm25", "rmtree"}
  /\ Working.pc \in {"faiss", "meta", "popvec", "delpop"} => indexer = Nothing
  /\ Working.pc \in {"faiss", "meta", "popvec", "bm25"} => bm25 = {}
  /\ Working.pc \in {"meta", "popvec", "bm25", "popbm", "bytes"} => faiss = Working.docs
  /\ Working.pc \in {"popvec", "bm25", "popbm", "bytes"} => meta = Working.docs
  /\ Working.pc \in {"delpop", "rmtree"} => faiss = {} /\ meta = {}

\* What is stored and can be read.
Legible == Readable \cap Contents(Stored)

\* The documents that have to be in the index are in it, or about to be.
Covered ==
  ~Lost({"list", "download"}) =>
    /\ indexer = Nothing \/ \A d \in Legible : job[d] = "succeeded" => d \in meta
    /\ Working.pc = "fetch" => Working.keys = Stored
    /\ Working.pc \in {"wipe", "faiss", "meta", "popvec", "bm25", "popbm", "bytes"} =>
         Legible \subseteq Working.docs

WInv == Alone /\ InS3 /\ RowsHeld /\ WriterKnows /\ IndexHeld /\ Covered

LEMMA WriterSteps ==
  ASSUME Alone, NEW t \in Threads, Moved(t), Is(t, "upload") \/ Is(t, "delete"),
         req'[t].kind = req[t].kind \/ req'[t] = Idle
  PROVE  Alone' /\ Working = req[t] /\ Working' = req'[t]
<1>1. t \in Writers /\ \A s \in Writers : s = t
  BY DEF Writers, Alone, Is
<1>2. Writers = {t}
  BY <1>1
<1>3. \A s \in Threads : s # t => s \notin Writers'
  BY <1>2 DEF Moved, Writers
<1>4. CASE req'[t].kind = req[t].kind
  <2>1. Writers' = {t}
    BY <1>3, <1>4 DEF Writers, Is
  <2> QED BY <1>2, <2>1 DEF Alone, Working
<1>5. CASE req'[t] = Idle
  <2>1. Writers' = {}
    BY <1>3, <1>5 DEF Writers, Idle
  <2> QED BY <1>2, <1>5, <2>1 DEF Alone, Working
<1> QED BY <1>4, <1>5

LEMMA WorkingIs ==
  ASSUME Alone, NEW t \in Writers
  PROVE  Working = req[t]
<1>1. (CHOOSE s \in Writers : TRUE) \in Writers
  OBVIOUS
<1>2. (CHOOSE s \in Writers : TRUE) = t
  BY <1>1 DEF Alone
<1> QED BY <1>2 DEF Working

\* A writer stays one until its request ends.
LEMMA WriterMoves ==
  ASSUME TInv, Alone, NEW t \in Threads, UploadStep(t) \/ DeleteStep(t) \/ IngestStep(t)
  PROVE  Alone' /\ Working = req[t] /\ Working' = req'[t]
<1>1. req[t].pc \in OnlyUpload \cup OnlyDelete \cup Ingesting
  BY DEF UploadStep, PickKey, CopyRaw, InsertDocument, RunInline, Delay, AddBytes,
         DeleteStep, DeleteDocument, RemoveRaw, DeleteVectors, DeletePop, WipeNamespace,
         IngestStep, ListRaw, Materialize, FailIngest, MayRaise, WipeIndex, WriteFaiss,
         WriteMetadata, PopVec, BuildBm25, PopBm25, At, OnlyUpload, OnlyDelete, Ingesting
<1>2. Is(t, "upload") \/ Is(t, "delete")
  BY <1>1, KindOf DEF TInv
<1>3. Moved(t)
  BY UploadKeeps, DeleteKeeps, IngestKeeps
<1>4. \A pc \in UploadPcs \cup DeletePcs : Goto(t, pc) => req'[t].kind = req[t].kind
  BY GotoMoves DEF TInv
<1>5. Finish(t) => req'[t] = Idle
  BY FinishMoves DEF TInv
<1>6. PickKey(t) \/ ListRaw(t) \/ Materialize(t) => req'[t].kind = req[t].kind
  BY PickKeyMoves, ListRawMoves, MaterializeMoves DEF Went
<1>7. req'[t].kind = req[t].kind \/ req'[t] = Idle
  BY <1>4, <1>5, <1>6 DEF UploadStep, CopyRaw, InsertDocument, RunInline, Delay, AddBytes,
         DeleteStep, DeleteDocument, RemoveRaw, DeleteVectors, DeletePop, WipeNamespace,
         IngestStep, FailIngest, WipeIndex, WriteFaiss, WriteMetadata, PopVec, BuildBm25,
         PopBm25, UploadPcs, DeletePcs
<1> QED BY <1>2, <1>3, <1>7, WriterSteps

LEMMA NoWriter ==
  ASSUME MaxWriters = 1, MayWrite
  PROVE  Writers = {}
<1>1. Writers \in SUBSET Threads
  BY DEF Writers
<1>2. IsFiniteSet(Writers) /\ Cardinality(Writers) \in Nat
  BY <1>1, CorpusAssumption, FS_Subset, FS_CardinalityType
<1>3. Cardinality(Writers) = 0
  BY <1>2 DEF MayWrite
<1> QED BY <1>2, <1>3, FS_EmptySet

LEMMA WriterBegins ==
  ASSUME MaxWriters = 1, MayWrite, NEW t \in Threads, Moved(t), Is(t, "idle"),
         req'[t].kind \in {"upload", "delete"}
  PROVE  Alone' /\ Working = Idle /\ Working' = req'[t]
<1>1. Writers = {}
  BY NoWriter
<1>2. Writers' = {t}
  BY <1>1 DEF Moved, Writers
<1> QED BY <1>1, <1>2 DEF Alone, Working

LEMMA OthersStep ==
  ASSUME Alone, NEW t \in Threads, Moved(t), Is(t, "query") \/ Is(t, "idle"),
         req'[t].kind \notin {"upload", "delete"}
  PROVE  Alone' /\ Writers' = Writers /\ Working' = Working
<1>1. t \notin Writers /\ t \notin Writers'
  BY DEF Writers, Is
<1>2. \A s \in Threads : s # t => (s \in Writers' <=> s \in Writers)
  BY DEF Moved, Writers
<1>3. Writers' = Writers
  BY <1>1, <1>2 DEF Writers
<1>4. Working' = Working
  <2>1. CASE Writers = {}
    BY <1>3, <2>1 DEF Working
  <2>2. CASE Writers # {}
    <3>1. (CHOOSE s \in Writers : TRUE) \in Writers
      BY <2>2
    <3>2. req'[CHOOSE s \in Writers : TRUE] = req[CHOOSE s \in Writers : TRUE]
      BY <1>1, <3>1 DEF Moved, Writers
    <3> QED BY <1>3, <2>2, <3>2 DEF Working
  <2> QED BY <2>1, <2>2
<1> QED BY <1>3, <1>4 DEF Alone

\* What a writer's request is, whether there is one or not.
LEMMA WorkingType ==
  ASSUME TypeOK
  PROVE  Working \in Request
<1>1. Idle \in Request
  BY DEF Idle, Request
<1>2. Writers # {} => (CHOOSE s \in Writers : TRUE) \in Threads
  BY DEF Writers
<1> QED BY <1>1, <1>2 DEF TypeOK, Working

\* Nothing the invariant speaks of changes.
LEMMA SameKeepsW ==
  ASSUME WInv, Alone', Working' = Working,
         UNCHANGED <<row, raw, faiss, meta, bm25, indexer, job, failed, storage>>
  PROVE  WInv'
<1>1. Stored' = Stored /\ Legible' = Legible
  BY DEF Stored, Legible, Contents
<1>2. InS3' /\ RowsHeld'
  BY <1>1 DEF WInv, InS3, RowsHeld, Lost, Loaded
<1>3. WriterKnows' /\ IndexHeld'
  BY <1>1 DEF WInv, WriterKnows, IndexHeld, Bm25Held, Lost
<1>4. Covered'
  BY <1>1 DEF WInv, Covered, Lost
<1> QED BY <1>2, <1>3, <1>4 DEF WInv

LEMMA InitW == Init => WInv
<1> SUFFICES ASSUME Init PROVE WInv
  OBVIOUS
<1>1. Writers = {}
  BY DEF Init, Writers, Idle
<1>2. Working = Idle
  BY <1>1 DEF Working
<1>3. Working.pc = "idle"
  BY <1>2 DEF Idle
<1>4. Stored = {} /\ \A d \in Docs : ~Loaded(d)
  BY DEF Init, Stored, Loaded
<1>5. ~\E calls : Lost(calls)
  BY DEF Init, Lost
<1>6. Legible = {} /\ indexer = Nothing
  BY <1>4 DEF Init, Legible, Contents
<1> QED BY <1>1, <1>3, <1>4, <1>5, <1>6
     DEF WInv, Alone, InS3, RowsHeld, WriterKnows, IndexHeld, Covered

LEMMA QueryKeepsW ==
  ASSUME TInv, WInv, NEW t \in Threads, QueryStep(t)
  PROVE  WInv'
<1>1. /\ Moved(t) /\ Is(t, "query")
      /\ req'[t] = Idle \/ (req'[t].kind = "query" /\ req'[t].pc \in QueryPcs)
  BY QueryMoves
<1>2. UNCHANGED <<row, raw, disk, bytes, job, outside>>
  BY DEF QueryStep, LoadMetadata, LoadBm25, StoreBm25
<1>3. Alone' /\ Working' = Working
  BY <1>1, OthersStep DEF Idle, WInv
<1> QED BY <1>2, <1>3, SameKeepsW DEF disk, outside, service

\* A call that fails, or none.
LEMMA FailureGrows ==
  ASSUME TypeOK, InS3, NEW call \in Calls, UNCHANGED storage,
         \/ Fails(call) /\ (call # "list" \/ storage = "s3")
         \/ UNCHANGED failed
  PROVE  InS3' /\ \A calls : Lost(calls) => Lost(calls)'
<1>1. failed \in Seq(Calls)
  BY DEF TypeOK
<1>2. CASE UNCHANGED failed
  BY <1>2 DEF InS3, Lost
<1>3. CASE Fails(call) /\ (call # "list" \/ storage = "s3")
  <2>1. failed' = Append(failed, call)
    BY <1>3 DEF Fails
  <2>2. /\ DOMAIN failed = 1..Len(failed) /\ DOMAIN failed' = 1..(Len(failed) + 1)
        /\ Len(failed) \in Nat
        /\ \A i \in 1..Len(failed) : failed'[i] = failed[i]
        /\ failed'[Len(failed) + 1] = call
    BY <1>1, <2>1
  <2>3. \A i \in DOMAIN failed' : (i \in DOMAIN failed /\ failed'[i] = failed[i]) \/ failed'[i] = call
    BY <2>2
  <2>4. \A i \in DOMAIN failed : i \in DOMAIN failed' /\ failed'[i] = failed[i]
    BY <2>2
  <2>5. Lost({"list"})' => Lost({"list"}) \/ call = "list"
    BY <2>3 DEF Lost
  <2>6. \A calls : Lost(calls) => Lost(calls)'
    BY <2>4 DEF Lost
  <2> QED BY <1>3, <2>5, <2>6 DEF InS3
<1> QED BY <1>2, <1>3

LEMMA Loses ==
  ASSUME TypeOK, NEW call \in Calls, Fails(call), NEW calls, call \in calls
  PROVE  Lost(calls)'
<1>1. failed \in Seq(Calls) /\ failed' = Append(failed, call)
  BY DEF TypeOK, Fails
<1>2. Len(failed) + 1 \in DOMAIN failed' /\ failed'[Len(failed) + 1] = call
  BY <1>1
<1> QED BY <1>2 DEF Lost

\* The steps at which no row and no file is about to change.
Settled == {"idle", "enqueue", "list", "fetch", "wipe", "faiss", "meta", "popvec", "bm25",
            "popbm", "bytes"}

\* From one of them to another, rows and files are as they were.
LEMMA SettledKeeps ==
  ASSUME WInv, UNCHANGED <<row, raw>>, \A calls : Lost(calls) => Lost(calls)',
         Working.pc \notin {"row", "remove"}, Working'.pc \in Settled
  PROVE  RowsHeld' /\ WriterKnows'
<1>1. Stored' = Stored
  BY DEF Stored
<1>2. RowsHeld'
  BY <1>1 DEF WInv, RowsHeld, Loaded
<1>3. WriterKnows'
  BY DEF WriterKnows, Settled
<1> QED BY <1>2, <1>3

\* Away from the index files, they stay equal, and cover what they covered.
Aside == {"idle", "save", "copy", "row", "enqueue", "delrow", "remove", "list"}

\* No more documents have to be in the index than before.
NoMoreSucceed == \A d \in Legible' : job'[d] = "succeeded" => d \in Legible /\ job[d] = "succeeded"

LEMMA AsideKeeps ==
  ASSUME WInv, UNCHANGED <<faiss, meta, bm25, indexer>>, \A calls : Lost(calls) => Lost(calls)',
         Working.pc \in Aside \cup {"wipe", "popbm", "bytes"}, Working'.pc \in Aside,
         NoMoreSucceed
  PROVE  IndexHeld' /\ Covered'
<1>1. indexer = Nothing \/ (faiss = meta /\ Bm25Held)
  BY DEF WInv, IndexHeld, Aside
<1>2. IndexHeld'
  BY <1>1 DEF IndexHeld, Bm25Held, Aside
<1>3. Covered'
  BY DEF WInv, Covered, Aside, NoMoreSucceed
<1> QED BY <1>2, <1>3

LEMMA SameStored ==
  ASSUME UNCHANGED raw
  PROVE  Stored' = Stored /\ Legible' = Legible
BY DEF Stored, Legible, Contents

LEMMA UploadKeepsW ==
  ASSUME TInv, WInv, NEW t \in Threads, UploadStep(t)
  PROVE  WInv'
<1> DEFINE d == req[t].doc
           k == req[t].key
<1>1. /\ Is(t, "upload") /\ d \in Docs /\ req[t] \in Request
      /\ req[t].pc # "save" => k \in Keys
  BY KindOf DEF TInv, UploadStep, PickKey, CopyRaw, InsertDocument, RunInline, Delay, AddBytes,
                At, OnlyUpload
<1>2. TypeOK /\ Moved(t) /\ TInv'
  BY UploadKeeps DEF TInv
<1>3. Alone' /\ Working = req[t] /\ Working' = req'[t]
  BY WriterMoves DEF WInv
<1>4. Nothing \notin Docs /\ Nothing \notin Keys
  BY CorpusAssumption
<1>5. CASE PickKey(t)
  <2>1. /\ Went(t, "copy") /\ req'[t].key \in Keys /\ req[t].pc = "save"
        /\ (failed' = failed /\ raw[req'[t].key] = Nothing) \/ S3Fails("head")
    BY <1>5, PickKeyMoves DEF PickKey, At
  <2>2. UNCHANGED <<row, raw, faiss, meta, bm25, indexer, job, storage>>
    BY <1>5 DEF PickKey, disk, service
  <2>3. InS3' /\ \A calls : Lost(calls) => Lost(calls)'
    BY <1>2, <2>1, <2>2, FailureGrows DEF WInv, S3Fails, Calls
  <2>4. S3Fails("head") => Lost({"head"})'
    BY <1>2, Loses DEF S3Fails, Calls
  <2>5. Stored' = Stored /\ NoMoreSucceed
    BY <2>2, SameStored DEF NoMoreSucceed
  <2>6. RowsHeld'
    BY <1>3, <2>1, <2>2, <2>3, <2>5 DEF WInv, RowsHeld, Loaded, Went
  <2>7. row[d] = Nothing /\ req'[t].doc = d /\ req'[t].pc = "copy"
    BY <1>3, <2>1 DEF WInv, WriterKnows, Went
  <2>8. WriterKnows'
    BY <1>3, <2>1, <2>2, <2>4, <2>7 DEF WriterKnows
  <2>9. IndexHeld' /\ Covered'
    BY <1>3, <2>1, <2>2, <2>3, <2>5, <2>7, AsideKeeps DEF Aside
  <2> QED BY <1>3, <2>3, <2>6, <2>8, <2>9 DEF WInv
<1>6. CASE CopyRaw(t)
  <2>1. /\ req[t].pc = "copy"
        /\ UNCHANGED <<row, faiss, meta, bm25, indexer, job, failed, storage>>
    BY <1>6 DEF CopyRaw, At, disk, outside, service
  <2>2. CASE Finish(t) /\ UNCHANGED raw
    <3>1. InS3' /\ \A calls : Lost(calls) => Lost(calls)'
      BY <2>1 DEF WInv, InS3, Lost
    <3>2. req'[t].pc = "idle"
      BY <1>2, <2>2, FinishMoves
    <3>3. RowsHeld' /\ WriterKnows'
      BY <1>3, <2>1, <2>2, <3>1, <3>2, SettledKeeps DEF Settled
    <3>4. NoMoreSucceed
      BY <2>1, <2>2, SameStored DEF NoMoreSucceed
    <3>5. IndexHeld' /\ Covered'
      BY <1>3, <2>1, <3>1, <3>2, <3>4, AsideKeeps DEF Aside
    <3> QED BY <1>3, <3>1, <3>3, <3>5 DEF WInv
  <2>3. CASE raw' = [raw EXCEPT ![k] = d] /\ Goto(t, "row")
    <3>1. req'[t].pc = "row" /\ req'[t].doc = d /\ req'[t].key = k
      BY <1>2, <2>3, GotoMoves DEF UploadPcs
    <3>2. InS3' /\ \A calls : Lost(calls)' <=> Lost(calls)
      BY <2>1, <2>3 DEF WInv, InS3, Lost
    <3>3. /\ row[d] = Nothing
          /\ ~Lost({"head"}) => raw[k] = Nothing
          /\ k \in Keys
      BY <1>1, <1>3, <2>1 DEF WInv, WriterKnows
    <3>4. raw'[k] = d /\ \A l \in Keys : l # k => raw'[l] = raw[l]
      BY <2>3, <3>3, <1>2 DEF TypeOK
    <3>5. ASSUME ~Lost({"head", "delete_one"}), NEW e \in Docs, Loaded(e)
          PROVE  raw'[row[e]] = e
      <4>1. raw[row[e]] = e /\ row[e] \in Keys
        BY <1>2, <3>5 DEF WInv, RowsHeld, Loaded, TypeOK
      <4>2. ~Lost({"head"})
        BY <3>5 DEF Lost
      <4>3. row[e] # k
        BY <1>4, <3>3, <4>1, <4>2
      <4> QED BY <3>4, <4>1, <4>3
    <3>6. ASSUME ~Lost({"delete", "insert_one"}), NEW l \in Stored', l # k PROVE row[raw'[l]] = l
      <4>1. l \in Stored /\ raw'[l] = raw[l]
        BY <3>4, <3>6 DEF Stored
      <4> QED BY <1>3, <2>1, <3>6, <4>1 DEF WInv, RowsHeld
    <3>7. RowsHeld'
      <4>1. Working'.pc = "row" /\ Working'.key = k
        BY <1>3, <3>1
      <4>2. ~Lost({"head", "delete_one"})' => \A e \in Docs : Loaded(e)' => raw'[row'[e]] = e
        BY <2>1, <3>2, <3>5 DEF Loaded
      <4>3. ~Lost({"delete", "insert_one"})' => \A l \in Stored' : l # k => row'[raw'[l]] = l
        BY <2>1, <3>2, <3>6
      <4> QED BY <4>1, <4>2, <4>3 DEF RowsHeld, Lost, Loaded
    <3>8. WriterKnows'
      BY <1>3, <2>1, <3>1, <3>3, <3>4 DEF WriterKnows
    <3>9. NoMoreSucceed
      <4>1. job[d] = "none"
        BY <1>1, <2>1 DEF TInv, Once, Unrecorded
      <4>2. ASSUME NEW e \in Legible', job'[e] = "succeeded"
            PROVE  e \in Legible /\ job[e] = "succeeded"
        <5>1. PICK l \in Keys : l \in Stored' /\ raw'[l] = e /\ e # Nothing /\ e \in Readable
          BY <4>2 DEF Legible, Contents, Stored
        <5>2. e # d
          BY <2>1, <4>1, <4>2
        <5>3. raw[l] = e
          BY <3>4, <5>1, <5>2
        <5> QED BY <2>1, <4>2, <5>1, <5>3 DEF Legible, Contents, Stored
      <4> QED BY <4>2 DEF NoMoreSucceed
    <3>10. IndexHeld' /\ Covered'
      BY <1>3, <2>1, <3>1, <3>2, <3>9, AsideKeeps DEF Aside
    <3> QED BY <1>3, <3>2, <3>7, <3>8, <3>10 DEF WInv
  <2> QED BY <1>6, <2>2, <2>3 DEF CopyRaw
<1>7. CASE InsertDocument(t) /\ row' = [row EXCEPT ![d] = k] /\ Goto(t, "enqueue") /\ UNCHANGED failed
  <2>1. /\ req[t].pc = "row" /\ row' = [row EXCEPT ![d] = k] /\ Goto(t, "enqueue")
        /\ UNCHANGED <<raw, faiss, meta, bm25, indexer, job, failed, storage>>
    BY <1>7 DEF InsertDocument, At, disk, service
  <2>2. req'[t].pc = "enqueue"
    BY <1>2, <2>1, GotoMoves DEF UploadPcs
  <2>3. InS3' /\ \A calls : Lost(calls)' <=> Lost(calls)
    BY <2>1 DEF WInv, InS3, Lost
  <2>4. Stored' = Stored /\ NoMoreSucceed
    BY <2>1, SameStored DEF NoMoreSucceed
  <2>5. raw[k] = d /\ job[d] = "none" /\ k \in Keys
    BY <1>1, <1>3, <2>1 DEF WInv, WriterKnows, TInv, Once, Unrecorded
  <2>6. row'[d] = k /\ \A e \in Docs : e # d => row'[e] = row[e]
    BY <1>1, <1>2, <2>1 DEF TypeOK
  <2>7. ASSUME NEW l \in Stored, ~Lost({"delete", "insert_one"}) PROVE row'[raw[l]] = l
    <3>1. raw[l] \in Docs /\ (raw[l] = d => l = k)
      BY <1>1, <1>2, <1>4, <2>5 DEF Stored, TypeOK, TInv, OneFile
    <3>2. l # k => row[raw[l]] = l
      BY <1>3, <2>7 DEF WInv, RowsHeld
    <3> QED BY <2>5, <2>6, <3>1, <3>2
  <2>8. ASSUME NEW e \in Docs, row'[e] # Nothing, ~Lost({"head", "delete_one"})
        PROVE  raw[row'[e]] = e
    BY <2>5, <2>6, <2>8 DEF WInv, RowsHeld, Loaded
  <2>9. RowsHeld'
    BY <2>1, <2>3, <2>4, <2>7, <2>8 DEF RowsHeld, Loaded
  <2>10. WriterKnows'
    BY <1>3, <2>2 DEF WriterKnows
  <2>11. IndexHeld' /\ Covered'
    BY <1>3, <2>1, <2>2, <2>3, <2>4, AsideKeeps DEF Aside
  <2> QED BY <1>3, <2>3, <2>9, <2>10, <2>11 DEF WInv
<1>10. CASE InsertDocument(t) /\ Fails("insert_one") /\ Finish(t) /\ UNCHANGED row
  <2>1. /\ req[t].pc = "row"
        /\ UNCHANGED <<row, raw, faiss, meta, bm25, indexer, job, storage>>
    BY <1>10 DEF InsertDocument, At, disk, service
  <2>2. req'[t].pc = "idle"
    BY <1>2, <1>10, FinishMoves
  <2>3. InS3' /\ (\A calls : Lost(calls) => Lost(calls)') /\ Lost({"delete", "insert_one"})'
    BY <1>2, <1>10, <2>1, FailureGrows, Loses DEF WInv, Calls
  <2>4. RowsHeld'
    BY <2>1, <2>3 DEF WInv, RowsHeld, Loaded
  <2>5. WriterKnows'
    BY <1>3, <2>2 DEF WriterKnows
  <2>6. NoMoreSucceed
    BY <2>1, SameStored DEF NoMoreSucceed
  <2>7. IndexHeld' /\ Covered'
    BY <1>3, <2>1, <2>2, <2>3, <2>6, AsideKeeps DEF Aside
  <2> QED BY <1>3, <2>3, <2>4, <2>5, <2>7 DEF WInv
<1>8. CASE RunInline(t) \/ Delay(t)
  <2>1. /\ req[t].pc = "enqueue"
        /\ UNCHANGED <<row, raw, faiss, meta, bm25, indexer, failed, storage>>
        /\ Goto(t, "list") \/ Finish(t)
        /\ job'[d] # "succeeded" /\ \A e \in Docs : e # d => job'[e] = job[e]
    BY <1>1, <1>2, <1>8 DEF RunInline, Delay, At, disk, outside, service, TypeOK
  <2>2. req'[t].pc \in {"list", "idle"}
    BY <1>2, <2>1, GotoMoves, FinishMoves DEF UploadPcs
  <2>3. InS3' /\ \A calls : Lost(calls)' <=> Lost(calls)
    BY <2>1 DEF WInv, InS3, Lost
  <2>4. RowsHeld' /\ WriterKnows'
    BY <1>3, <2>1, <2>2, <2>3, SettledKeeps DEF Settled
  <2>5. NoMoreSucceed
    <3>1. Legible' = Legible /\ Legible \subseteq Docs
      BY <2>1, SameStored, CorpusAssumption DEF Legible
    <3> QED BY <2>1, <3>1 DEF NoMoreSucceed
  <2>6. IndexHeld' /\ Covered'
    BY <1>3, <2>1, <2>2, <2>3, <2>5, AsideKeeps DEF Aside
  <2> QED BY <1>3, <2>3, <2>4, <2>6 DEF WInv
<1>9. CASE AddBytes(t)
  <2>1. req[t].pc = "bytes" /\ UNCHANGED <<row, raw, faiss, meta, bm25, indexer, failed, storage>>
    BY <1>9 DEF AddBytes, At, disk, outside, service
  <2>2. req'[t].pc = "idle"
    BY <1>2, <1>9, FinishMoves DEF AddBytes
  <2>3. InS3' /\ \A calls : Lost(calls)' <=> Lost(calls)
    BY <2>1 DEF WInv, InS3, Lost
  <2>4. RowsHeld' /\ WriterKnows'
    BY <1>3, <2>1, <2>2, <2>3, SettledKeeps DEF Settled
  <2>5. meta = req[t].docs /\ (indexer = Nothing \/ (faiss = meta /\ Bm25Held))
    BY <1>3, <2>1 DEF WInv, IndexHeld
  <2>6. IndexHeld'
    BY <1>3, <2>1, <2>2, <2>3, <2>5 DEF IndexHeld, Bm25Held
  <2>7. ~Lost({"list", "download"}) => Legible \subseteq meta
    BY <1>3, <2>1, <2>5 DEF WInv, Covered
  <2>8. Legible' = Legible
    BY <2>1, SameStored
  <2>9. Covered'
    BY <1>3, <2>1, <2>2, <2>3, <2>7, <2>8 DEF Covered
  <2> QED BY <1>3, <2>3, <2>4, <2>6, <2>9 DEF WInv
<1> QED BY <1>5, <1>6, <1>7, <1>8, <1>9, <1>10 DEF UploadStep, InsertDocument

LEMMA DeleteKeepsW ==
  ASSUME TInv, WInv, NEW t \in Threads, DeleteStep(t)
  PROVE  WInv'
<1> DEFINE d == req[t].doc
           k == req[t].key
<1>1. Is(t, "delete") /\ d \in Docs /\ k \in Keys /\ req[t] \in Request
  BY KindOf DEF TInv, DeleteStep, DeleteDocument, RemoveRaw, DeleteVectors, DeletePop,
                WipeNamespace, At, OnlyDelete
<1>2. TypeOK /\ Moved(t) /\ TInv'
  BY DeleteKeeps DEF TInv
<1>3. \A pc \in DeletePcs : Goto(t, pc) =>
        /\ req'[t].pc = pc /\ req'[t].kind = req[t].kind /\ req'[t].doc = d
        /\ req'[t].key = k
  BY <1>2, GotoMoves
<1>4. Finish(t) => req'[t] = Idle /\ req'[t].pc = "idle"
  BY <1>2, FinishMoves
<1>5. Alone' /\ Working = req[t] /\ Working' = req'[t]
  BY WriterMoves DEF WInv
<1>6. Nothing \notin Docs /\ Nothing \notin Keys
  BY CorpusAssumption
<1>7. CASE DeleteDocument(t)
  <2>1. /\ req[t].pc = "delrow" /\ UNCHANGED <<raw, faiss, meta, bm25, indexer, job, storage>>
        /\ \/ row' = [row EXCEPT ![d] = Nothing] /\ failed' = failed
           \/ Fails("delete_one") /\ row' = row
    BY <1>7 DEF DeleteDocument, At, disk, service
  <2>2. req'[t].pc = "remove" /\ req'[t].doc = d /\ req'[t].key = k
    BY <1>3, <1>7 DEF DeleteDocument, DeletePcs
  <2>3. InS3' /\ \A calls : Lost(calls) => Lost(calls)'
    BY <1>2, <2>1, FailureGrows DEF WInv, Calls
  <2>4. Stored' = Stored /\ NoMoreSucceed
    BY <2>1, SameStored DEF NoMoreSucceed
  <2>5. row[d] = k /\ (~Lost({"head", "delete_one"}) => raw[k] = d)
    BY <1>1, <1>5, <1>6, <2>1 DEF WInv, WriterKnows, RowsHeld, Loaded
  <2>6. /\ row'[d] = Nothing \/ (row'[d] = k /\ Fails("delete_one"))
        /\ \A e \in Docs : e # d => row'[e] = row[e]
    BY <1>1, <1>2, <2>1, <2>5 DEF TypeOK
  <2>7. ASSUME NEW l \in Stored, ~Lost({"delete", "insert_one"}), l # k PROVE row'[raw[l]] = l
    <3>1. raw[l] \in Docs
      BY <1>2 DEF Stored, TypeOK
    <3>2. row[raw[l]] = l
      BY <1>5, <2>1, <2>7 DEF WInv, RowsHeld
    <3> QED BY <2>5, <2>6, <2>7, <3>1, <3>2
  <2>8. RowsHeld'
    <3>1. ~Lost({"head", "delete_one"})' => \A e \in Docs : Loaded(e)' => raw'[row'[e]] = e
      BY <2>1, <2>3, <2>5, <2>6 DEF WInv, RowsHeld, Loaded
    <3>2. ~Lost({"delete", "insert_one"})' => \A l \in Stored' : l # k => row'[raw'[l]] = l
      BY <2>1, <2>3, <2>4, <2>7
    <3> QED BY <1>5, <2>2, <3>1, <3>2 DEF RowsHeld, Lost, Loaded
  <2>9. WriterKnows'
    <3>1. Fails("delete_one") => Lost({"head", "delete_one"})'
      BY <1>2, Loses DEF Calls
    <3> QED BY <1>5, <2>1, <2>2, <2>3, <2>5, <2>6, <3>1 DEF WriterKnows
  <2>10. IndexHeld' /\ Covered'
    BY <1>5, <2>1, <2>2, <2>3, <2>4, AsideKeeps DEF Aside
  <2> QED BY <1>5, <2>3, <2>8, <2>9, <2>10 DEF WInv
<1>8. CASE RemoveRaw(t)
  <2>1. req[t].pc = "remove" /\ UNCHANGED <<row, faiss, meta, bm25, indexer, job, storage>>
    BY <1>8 DEF RemoveRaw, At, disk, service
  <2>2. req'[t].pc = "list"
    BY <1>3, <1>8 DEF RemoveRaw, DeletePcs
  <2>3. \/ Fails("delete") /\ raw' = raw
        \/ failed' = failed /\ raw' = [raw EXCEPT ![k] = Nothing]
    BY <1>8 DEF RemoveRaw, Without
  <2>4. InS3' /\ \A calls : Lost(calls) => Lost(calls)'
    BY <1>2, <2>1, <2>3, FailureGrows DEF WInv, Calls
  <2>5. ~Lost({"head", "delete_one"}) => row[d] = Nothing /\ raw[k] = d
    BY <1>5, <2>1 DEF WInv, WriterKnows
  <2>6. \A l \in Keys : l # k => raw'[l] = raw[l]
    BY <1>1, <1>2, <2>3 DEF TypeOK
  <2>7. ASSUME ~Lost({"head", "delete_one"}), NEW e \in Docs, Loaded(e) PROVE raw'[row[e]] = e
    <3>1. raw[row[e]] = e /\ row[e] \in Keys
      BY <1>2, <2>7 DEF WInv, RowsHeld, Loaded, TypeOK
    <3>2. e # d
      BY <2>5, <2>7 DEF Loaded
    <3>3. row[e] # k
      BY <2>5, <2>7, <3>1, <3>2
    <3> QED BY <2>6, <3>1, <3>3
  <2>8. ASSUME ~Lost({"delete", "insert_one"})', NEW l \in Stored' PROVE row[raw'[l]] = l
    <3>1. ~Fails("delete")
      BY <1>2, <2>8, Loses DEF Calls
    <3>2. ~Lost({"delete", "insert_one"})
      BY <2>4, <2>8
    <3>3. raw'[k] = Nothing
      BY <1>1, <1>2, <2>3, <3>1 DEF TypeOK
    <3>4. l # k /\ l \in Keys
      BY <2>8, <3>3 DEF Stored
    <3>5. l \in Stored /\ raw'[l] = raw[l]
      BY <2>6, <2>8, <3>4 DEF Stored
    <3> QED BY <1>5, <3>2, <3>4, <3>5 DEF WInv, RowsHeld
  <2>9. RowsHeld'
    <3>1. ~Lost({"head", "delete_one"})' => \A e \in Docs : Loaded(e)' => raw'[row'[e]] = e
      BY <2>1, <2>4, <2>7 DEF Loaded
    <3>2. ~Lost({"delete", "insert_one"})' => \A l \in Stored' : row'[raw'[l]] = l
      BY <2>1, <2>8
    <3> QED BY <3>1, <3>2 DEF RowsHeld, Lost, Loaded
  <2>10. WriterKnows'
    BY <1>5, <2>2 DEF WriterKnows
  <2>11. NoMoreSucceed
    <3>1. \A l \in Stored' : l \in Stored /\ raw'[l] = raw[l]
      BY <1>1, <1>2, <2>3 DEF Stored, TypeOK
    <3>2. Legible' \subseteq Legible
      BY <3>1 DEF Legible, Contents
    <3> QED BY <2>1, <3>2 DEF NoMoreSucceed
  <2>12. IndexHeld' /\ Covered'
    BY <1>5, <2>1, <2>2, <2>4, <2>11, AsideKeeps DEF Aside
  <2> QED BY <1>5, <2>4, <2>9, <2>10, <2>12 DEF WInv
<1>9. CASE DeleteVectors(t) \/ DeletePop(t)
  <2>1. /\ req[t].pc \in {"delvec", "delpop"}
        /\ UNCHANGED <<row, raw, bm25, job, failed, storage>>
        /\ \/ faiss' = {} /\ meta' = {} /\ indexer' = Nothing
           \/ req[t].pc = "delpop" /\ UNCHANGED <<faiss, meta>>
    BY <1>9 DEF DeleteVectors, DeletePop, At, outside, service
  <2>2. \/ req'[t].pc = "delpop" /\ indexer' = Nothing
        \/ req'[t].pc = "rmtree"
    BY <1>3, <1>9 DEF DeleteVectors, DeletePop, DeletePcs
  <2>3. InS3' /\ \A calls : Lost(calls)' <=> Lost(calls)
    BY <2>1 DEF WInv, InS3, Lost
  <2>4. Stored' = Stored /\ Legible' = Legible /\ (~Lost({"list"}) => Stored = {})
    BY <1>5, <2>1, SameStored DEF WInv, WriterKnows
  <2>5. RowsHeld'
    BY <1>5, <2>1, <2>3, <2>4 DEF WInv, RowsHeld, Loaded, Lost
  <2>6. WriterKnows'
    BY <1>5, <2>2, <2>3, <2>4 DEF WriterKnows
  <2>7. faiss' = {} /\ meta' = {}
    BY <1>5, <2>1 DEF WInv, IndexHeld
  <2>8. IndexHeld'
    BY <1>5, <2>2, <2>7 DEF IndexHeld
  <2>9. ~Lost({"list", "download"}) => Legible = {}
    BY <2>4 DEF Lost, Legible, Contents
  <2>10. Covered'
    BY <1>5, <2>1, <2>2, <2>3, <2>4, <2>9 DEF Covered
  <2> QED BY <1>5, <2>3, <2>5, <2>6, <2>8, <2>10 DEF WInv
<1>10. CASE WipeNamespace(t)
  <2>1. /\ req[t].pc = "rmtree" /\ UNCHANGED <<row, job, failed, storage>>
        /\ faiss' = {} /\ meta' = {} /\ bm25' = {}
        /\ raw' = IF storage = "local" THEN [l \in Keys |-> Nothing] ELSE raw
    BY <1>10 DEF WipeNamespace, At, outside, service
  <2>2. req'[t].pc = "idle"
    BY <1>4, <1>10 DEF WipeNamespace
  <2>3. InS3' /\ \A calls : Lost(calls)' <=> Lost(calls)
    BY <2>1 DEF WInv, InS3, Lost
  <2>4. ~Lost({"list"}) => Stored = {}
    BY <1>5, <2>1 DEF WInv, WriterKnows
  <2>5. raw' = raw
    <3>1. CASE storage = "local"
      <4>1. Stored = {}
        BY <2>4, <3>1 DEF WInv, InS3, Lost
      <4>2. \A l \in Keys : raw[l] = Nothing
        BY <4>1 DEF Stored
      <4> QED BY <1>2, <2>1, <3>1, <4>2 DEF TypeOK
    <3>2. CASE storage # "local"
      BY <2>1, <3>2
    <3> QED BY <3>1, <3>2
  <2>6. RowsHeld' /\ WriterKnows'
    BY <1>5, <2>1, <2>2, <2>3, <2>5, SettledKeeps DEF Settled
  <2>7. IndexHeld'
    BY <1>5, <2>1, <2>2 DEF IndexHeld, Bm25Held
  <2>8. ~Lost({"list", "download"}) => Legible = {}
    BY <2>4 DEF Lost, Legible, Contents
  <2>9. Legible' = Legible
    BY <2>5, SameStored
  <2>10. Covered'
    BY <1>5, <2>2, <2>3, <2>8, <2>9 DEF Covered
  <2> QED BY <1>5, <2>3, <2>6, <2>7, <2>10 DEF WInv
<1> QED BY <1>7, <1>8, <1>9, <1>10 DEF DeleteStep

LEMMA IngestKeepsW ==
  ASSUME TInv, WInv, NEW t \in Threads, IngestStep(t)
  PROVE  WInv'
<1> DEFINE d == req[t].doc
<1>1. (Is(t, "upload") \/ Is(t, "delete")) /\ d \in Docs /\ req[t] \in Request
  BY KindOf DEF TInv, IngestStep, ListRaw, Materialize, FailIngest, MayRaise, WipeIndex,
                WriteFaiss, WriteMetadata, PopVec, BuildBm25, PopBm25, At, Ingesting, OnlyUpload
<1>2. TypeOK /\ Moved(t) /\ TInv'
  BY IngestKeeps DEF TInv
<1>3. \A pc \in UploadPcs : Goto(t, pc) =>
        req'[t].pc = pc /\ req'[t].kind = req[t].kind /\ req'[t].docs = req[t].docs
  BY <1>2, GotoMoves
<1>4. Finish(t) => req'[t] = Idle /\ req'[t].pc = "idle"
  BY <1>2, FinishMoves
<1>5. Alone' /\ Working = req[t] /\ Working' = req'[t]
  BY WriterMoves DEF WInv
<1>6. Readable \subseteq Docs /\ Nothing \notin Docs
  BY CorpusAssumption
<1>7. CASE ListRaw(t)
  <2>1. req[t].pc = "list" /\ UNCHANGED <<row, raw, faiss, meta, bm25, indexer, job, storage>>
    BY <1>7 DEF ListRaw, At, disk, service
  <2>2. /\ \/ failed' = failed /\ req'[t].keys = Stored
           \/ S3Fails("list")
        /\ \/ req'[t].pc = "fetch"
           \/ req'[t].pc = "delvec" /\ req'[t].keys = {}
    BY <1>7, ListRawMoves
  <2>3. InS3' /\ \A calls : Lost(calls) => Lost(calls)'
    BY <1>2, <2>1, <2>2, FailureGrows DEF WInv, S3Fails, Calls
  <2>4. Stored' = Stored /\ Legible' = Legible
    BY <2>1, SameStored
  <2>5. RowsHeld'
    BY <1>5, <2>1, <2>3, <2>4 DEF WInv, RowsHeld, Loaded
  <2>6. ~Lost({"list"})' => req'[t].keys = Stored
    BY <1>2, <2>2, Loses DEF S3Fails, Calls
  <2>7. WriterKnows'
    BY <1>5, <2>2, <2>4, <2>6 DEF WriterKnows
  <2>8. indexer = Nothing \/ (faiss = meta /\ Bm25Held)
    BY <1>5, <2>1 DEF WInv, IndexHeld
  <2>9. IndexHeld'
    BY <1>5, <2>1, <2>2, <2>3, <2>8 DEF IndexHeld, Bm25Held
  <2>10. ~Lost({"list", "download"})' => req'[t].keys = Stored
    BY <1>2, <2>2, Loses DEF S3Fails, Calls
  <2>11. Covered'
    BY <1>5, <2>1, <2>2, <2>3, <2>4, <2>10 DEF WInv, Covered
  <2> QED BY <1>5, <2>3, <2>5, <2>7, <2>9, <2>11 DEF WInv
<1>8. CASE Materialize(t)
  <2>1. req[t].pc = "fetch" /\ UNCHANGED <<row, raw, faiss, meta, bm25, indexer, job, storage>>
    BY <1>8 DEF Materialize, At, disk, service
  <2>2. /\ req'[t].pc = "wipe"
        /\ \/ failed' = failed /\ Contents(req[t].keys) \cap Readable \subseteq req'[t].docs
           \/ Fails("download")
    BY <1>8, MaterializeMoves DEF Went
  <2>3. InS3' /\ \A calls : Lost(calls) => Lost(calls)'
    BY <1>2, <2>1, <2>2, FailureGrows DEF WInv, Calls
  <2>4. RowsHeld' /\ WriterKnows'
    BY <1>5, <2>1, <2>2, <2>3, SettledKeeps DEF Settled
  <2>5. indexer = Nothing \/ (faiss = meta /\ Bm25Held)
    BY <1>5, <2>1 DEF WInv, IndexHeld
  <2>6. IndexHeld'
    BY <1>5, <2>1, <2>2, <2>3, <2>5 DEF IndexHeld, Bm25Held
  <2>7. ~Lost({"list", "download"})' => Legible \subseteq req'[t].docs
    <3>1. Fails("download") => Lost({"list", "download"})'
      BY <1>2, Loses DEF Calls
    <3>2. ~Lost({"list", "download"}) => req[t].keys = Stored
      BY <1>5, <2>1 DEF WInv, Covered
    <3> QED BY <2>2, <2>3, <3>1, <3>2 DEF Legible
  <2>8. Legible' = Legible
    BY <2>1, SameStored
  <2>9. Covered'
    BY <1>5, <2>1, <2>2, <2>3, <2>7, <2>8 DEF WInv, Covered
  <2> QED BY <1>5, <2>3, <2>4, <2>6, <2>9 DEF WInv
<1>9. CASE FailIngest(t)
  <2>1. /\ UNCHANGED <<row, raw, faiss, meta, bm25, indexer, storage>>
        /\ \A e \in Docs : job'[e] = "succeeded" => job[e] = "succeeded"
        /\ \/ req[t].pc \in {"wipe", "faiss", "meta", "bytes"} /\ failed' = failed
           \/ req[t].pc = "bm25" /\ Fails("bm25")
    BY <1>1, <1>2, <1>9 DEF FailIngest, MayRaise, At, disk, service, TypeOK
  <2>2. req'[t].pc = "idle"
    BY <1>4, <1>9 DEF FailIngest
  <2>3. InS3' /\ \A calls : Lost(calls) => Lost(calls)'
    BY <1>2, <2>1, FailureGrows DEF WInv, Calls
  <2>4. RowsHeld' /\ WriterKnows'
    BY <1>5, <2>1, <2>2, <2>3, SettledKeeps DEF Settled
  <2>5. IndexHeld'
    <3>1. CASE req[t].pc = "bm25" /\ Fails("bm25")
      <4>1. faiss = meta /\ bm25 = {} /\ Lost({"bm25"})'
        BY <1>2, <1>5, <3>1, Loses DEF WInv, IndexHeld, Calls
      <4> QED BY <1>5, <2>1, <2>2, <4>1 DEF IndexHeld, Bm25Held
    <3>2. CASE req[t].pc \in {"wipe", "faiss", "meta", "bytes"} /\ failed' = failed
      <4>1. indexer = Nothing \/ (faiss = meta /\ Bm25Held)
        BY <1>5, <3>2 DEF WInv, IndexHeld
      <4> QED BY <1>5, <2>1, <2>2, <2>3, <4>1 DEF IndexHeld, Bm25Held
    <3> QED BY <2>1, <3>1, <3>2
  <2>6. Covered'
    <3>1. Legible' = Legible /\ Legible \subseteq Docs
      BY <1>6, <2>1, SameStored DEF Legible
    <3>2. ~Lost({"list", "download"})' =>
            indexer = Nothing \/ \A e \in Legible : job[e] = "succeeded" => e \in meta
      BY <2>3 DEF WInv, Covered
    <3> QED BY <1>5, <2>1, <2>2, <3>1, <3>2 DEF Covered
  <2> QED BY <1>5, <2>3, <2>4, <2>5, <2>6 DEF WInv
<1>10. CASE WipeIndex(t) \/ WriteFaiss(t) \/ WriteMetadata(t) \/ PopVec(t) \/ BuildBm25(t)
  <2>1. /\ UNCHANGED <<row, raw, job, storage>>
        /\ failed' = failed \/ (BuildBm25(t) /\ Fails("bm25"))
    BY <1>10 DEF WipeIndex, WriteFaiss, WriteMetadata, PopVec, BuildBm25, outside, service
  <2>2. /\ req[t].pc \in {"wipe", "faiss", "meta", "popvec", "bm25"}
        /\ req'[t].pc \in {"faiss", "meta", "popvec", "bm25", "popbm"}
        /\ req'[t].docs = req[t].docs
    BY <1>3, <1>10 DEF WipeIndex, WriteFaiss, WriteMetadata, PopVec, BuildBm25, At, UploadPcs
  <2>3. InS3' /\ \A calls : Lost(calls) => Lost(calls)'
    BY <1>2, <2>1, FailureGrows DEF WInv, Calls
  <2>4. RowsHeld' /\ WriterKnows'
    BY <1>5, <2>1, <2>2, <2>3, SettledKeeps DEF Settled
  <2>5. IndexHeld' /\ (indexer' = Nothing \/ meta' = req[t].docs)
    <3>1. CASE WipeIndex(t)
      <4>1. req'[t].pc = "faiss" /\ indexer' = Nothing /\ bm25' = {}
        BY <1>3, <3>1 DEF WipeIndex, UploadPcs
      <4> QED BY <1>5, <4>1 DEF IndexHeld
    <3>2. CASE WriteFaiss(t)
      <4>1. /\ req[t].pc = "faiss" /\ req'[t].pc = "meta" /\ faiss' = req[t].docs
            /\ UNCHANGED <<meta, bm25, indexer>>
        BY <1>3, <3>2 DEF WriteFaiss, UploadPcs, At
      <4> QED BY <1>5, <2>2, <4>1 DEF WInv, IndexHeld
    <3>3. CASE WriteMetadata(t)
      <4>1. /\ req[t].pc = "meta" /\ req'[t].pc = "popvec" /\ meta' = req[t].docs
            /\ UNCHANGED <<faiss, bm25, indexer>>
        BY <1>3, <3>3 DEF WriteMetadata, UploadPcs, At
      <4> QED BY <1>5, <2>2, <4>1 DEF WInv, IndexHeld
    <3>4. CASE PopVec(t)
      <4>1. /\ req[t].pc = "popvec" /\ req'[t].pc = "bm25" /\ UNCHANGED <<faiss, meta, bm25>>
        BY <1>3, <3>4 DEF PopVec, UploadPcs, At
      <4> QED BY <1>5, <2>2, <4>1 DEF WInv, IndexHeld
    <3>5. CASE BuildBm25(t)
      <4>1. /\ req[t].pc = "bm25" /\ req'[t].pc = "popbm" /\ UNCHANGED <<faiss, meta, indexer>>
            /\ bm25' = req[t].docs \/ (Fails("bm25") /\ bm25' = bm25)
        BY <1>3, <3>5 DEF BuildBm25, UploadPcs, At
      <4>2. Fails("bm25") => Lost({"bm25"})'
        BY <1>2, Loses DEF Calls
      <4>3. faiss = req[t].docs /\ meta = req[t].docs /\ bm25 = {}
        BY <1>5, <4>1 DEF WInv, IndexHeld
      <4> QED BY <1>5, <2>2, <4>1, <4>2, <4>3 DEF IndexHeld, Bm25Held
    <3> QED BY <1>10, <3>1, <3>2, <3>3, <3>4, <3>5
  <2>6. Legible' = Legible
    BY <2>1, SameStored
  <2>7. ~Lost({"list", "download"})' => Legible \subseteq req[t].docs
    BY <1>5, <2>2, <2>3 DEF WInv, Covered
  <2>8. Covered'
    BY <1>5, <2>2, <2>5, <2>6, <2>7 DEF Covered
  <2> QED BY <1>5, <2>3, <2>4, <2>5, <2>8 DEF WInv
<1>11. CASE PopBm25(t)
  <2>1. /\ req[t].pc = "popbm"
        /\ UNCHANGED <<row, raw, faiss, meta, bm25, indexer, job, failed, storage>>
    BY <1>11 DEF PopBm25, At, disk, outside, service
  <2>2. req'[t].pc = "idle" \/ (req'[t].pc = "bytes" /\ req'[t].docs = req[t].docs)
    BY <1>3, <1>4, <1>11 DEF PopBm25, UploadPcs
  <2>3. InS3' /\ \A calls : Lost(calls)' <=> Lost(calls)
    BY <2>1 DEF WInv, InS3, Lost
  <2>4. RowsHeld' /\ WriterKnows'
    BY <1>5, <2>1, <2>2, <2>3, SettledKeeps DEF Settled
  <2>5. IndexHeld'
    BY <1>5, <2>1, <2>2, <2>3 DEF WInv, IndexHeld, Bm25Held
  <2>6. Legible' = Legible
    BY <2>1, SameStored
  <2>7. Covered'
    BY <1>5, <2>1, <2>2, <2>3, <2>6 DEF WInv, Covered
  <2> QED BY <1>5, <2>3, <2>4, <2>5, <2>7 DEF WInv
<1> QED BY <1>7, <1>8, <1>9, <1>10, <1>11 DEF IngestStep

LEMMA NextKeepsW ==
  ASSUME MaxWriters = 1
  PROVE  TInv /\ WInv /\ [Next]_vars => WInv'
<1> SUFFICES ASSUME TInv, WInv, [Next]_vars PROVE WInv'
  OBVIOUS
<1>1. ASSUME NEW t \in Threads, Step(t) PROVE WInv'
  BY <1>1, UploadKeepsW, DeleteKeepsW, IngestKeepsW, QueryKeepsW DEF Step
<1>3. ASSUME NEW t \in Threads, MayWrite, Begins(t), NEW d \in Docs, req'[t].doc = d,
             \/ req'[t].kind = "upload" /\ req'[t].pc = "save" /\ row[d] = Nothing
             \/ /\ req'[t].kind = "delete" /\ req'[t].pc = "delrow"
                /\ row[d] # Nothing /\ req'[t].key = row[d]
      PROVE  WInv'
  <2>1. Alone' /\ Working = Idle /\ Working' = req'[t]
    BY <1>3, WriterBegins DEF Begins
  <2>2. UNCHANGED <<row, raw, faiss, meta, bm25, indexer, job, failed, storage>>
    BY <1>3 DEF Begins, disk, outside, service
  <2>3. Stored' = Stored /\ Working.pc = "idle" /\ req'[t].pc \in {"save", "delrow"}
    BY <1>3, <2>1, <2>2 DEF Stored, Idle
  <2>4. InS3' /\ \A calls : Lost(calls)' <=> Lost(calls)
    BY <2>2 DEF WInv, InS3, Lost
  <2>5. RowsHeld'
    BY <2>1, <2>2, <2>3 DEF WInv, RowsHeld, Lost, Loaded
  <2>6. WriterKnows'
    BY <1>3, <2>1, <2>2 DEF WriterKnows
  <2>7. NoMoreSucceed
    BY <2>2, SameStored DEF NoMoreSucceed
  <2>8. IndexHeld' /\ Covered'
    BY <2>1, <2>2, <2>3, <2>4, <2>7, AsideKeeps DEF Aside
  <2> QED BY <2>1, <2>4, <2>5, <2>6, <2>8 DEF WInv
<1>4. ASSUME NEW t \in Threads, NEW p \in Procs, LoadFaiss(t, p) PROVE WInv'
  <2>1. Begins(t) /\ req'[t].kind = "query"
    BY <1>4, LoadFaissMoves
  <2>2. Alone' /\ Working' = Working
    BY <2>1, OthersStep DEF WInv, Begins
  <2> QED BY <2>1, <2>2, SameKeepsW DEF Begins, disk, outside, service
<1>5. ASSUME NEW t \in Threads, NEW d \in Docs, BeginDelete(t, d) PROVE WInv'
  <2>1. MayWrite /\ row[d] # Nothing
    BY <1>5 DEF BeginDelete
  <2> QED BY <1>3, <1>5, <2>1, BeginDeleteMoves
<1>6. ASSUME NEW t \in Threads, NEW d \in Docs, BeginUpload(t, d) PROVE WInv'
  <2>1. MayWrite /\ job[d] = "none"
    BY <1>6 DEF BeginUpload
  <2>2. row[d] = Nothing
    <3>1. Writers = {}
      BY <2>1, NoWriter
    <3>2. \A s \in Threads : ~Storing(s, d)
      BY <3>1 DEF Writers, Storing, Is
    <3> QED BY <2>1, <3>2 DEF TInv, Recorded, Loaded
  <2> QED BY <1>3, <1>6, <2>1, <2>2, BeginUploadMoves
<1>7. ASSUME NEW d \in Docs, DiscardMessage(d) PROVE WInv'
  <2>1. UNCHANGED <<row, raw, faiss, meta, bm25, indexer, job, failed, storage, req>>
    BY <1>7 DEF DiscardMessage, disk
  <2>2. Alone' /\ Working' = Working
    BY <2>1 DEF WInv, Alone, Working, Writers
  <2> QED BY <2>1, <2>2, SameKeepsW
<1>8. CASE UNCHANGED vars
  <2>1. UNCHANGED <<row, raw, faiss, meta, bm25, indexer, job, failed, storage, req>>
    BY <1>8 DEF vars, disk, outside, service
  <2>2. Alone' /\ Working' = Working
    BY <2>1 DEF WInv, Alone, Working, Writers
  <2> QED BY <2>1, <2>2, SameKeepsW
<1> QED BY <1>1, <1>4, <1>5, <1>6, <1>7, <1>8 DEF Next

\* With one upload or deletion at a time every row keeps naming the raw file of its
\* own document, and every raw file has its row, whatever the questions, the names, the
\* ingests that raise and the number of documents and processes: of all the calls that
\* fail, a look-up in S3 or a delete_one alone can break the one, a removal or an
\* insert_one the other.
THEOREM SerialRowsMatchFiles ==
  ASSUME MaxWriters = 1
  PROVE  Spec => []RowsMatchFiles
<1>1. TInv /\ WInv => RowsMatchFiles
  <2> SUFFICES ASSUME TInv, WInv, Quiet PROVE RowsMatchFiles
    BY DEF RowsMatchFiles
  <2>1. Working.pc = "idle"
    BY DEF Quiet, Working, Idle
  <2> QED BY <2>1 DEF WInv, RowsHeld, RowsMatchFiles, Lost
<1> QED BY <1>1, InitT, InitW, NextKeepsT, NextKeepsW, PTL DEF Spec

\* With one upload or deletion at a time, once the last ingest has got as far as its
\* last write, the index files come from it alone, and hold every stored document
\* whose upload reported success: calls of MongoDB that fail, files that could not be
\* removed, ingests that raised before or after they emptied the index, cost none its
\* place in them.
THEOREM SerialSucceededIndexed ==
  ASSUME MaxWriters = 1
  PROVE  Spec => []SucceededIndexed
<1>1. WInv => SucceededIndexed
  <2> SUFFICES ASSUME WInv, Quiet PROVE SucceededIndexed
    BY DEF SucceededIndexed
  <2>1. Working.pc = "idle"
    BY DEF Quiet, Working, Idle
  <2> QED BY <2>1 DEF WInv, IndexHeld, Bm25Held, Covered, Legible, SucceededIndexed
<1> QED BY <1>1, InitT, InitW, NextKeepsT, NextKeepsW, PTL DEF Spec

\* Two uploads that overlap are one way to hide a document that reported success, and
\* these are the others: the last ingest raised after it had emptied the index, or one
\* of five calls has failed.  Else it is found in every index.
THEOREM SerialSucceededFindable ==
  ASSUME MaxWriters = 1
  PROVE  Spec => [](/\ indexer # Nothing
                    /\ ~Lost({"head", "delete_one", "list", "download", "bm25"})
                    => SucceededFindable)
<1> DEFINE Unharmed == /\ indexer # Nothing
                       /\ ~Lost({"head", "delete_one", "list", "download", "bm25"})
<1>1. TypeOK /\ RowsMatchFiles /\ SucceededIndexed /\ Unharmed => SucceededFindable
  <2> SUFFICES ASSUME TypeOK, RowsMatchFiles, SucceededIndexed, Unharmed, Quiet,
                      NEW d \in Readable, job[d] = "succeeded", Loaded(d)
               PROVE  d \in faiss \cap meta \cap bm25
    BY DEF SucceededFindable
  <2>1. ~Lost({"head", "delete_one"}) /\ ~Lost({"list", "download"}) /\ ~Lost({"bm25"})
    BY DEF Lost
  <2>2. d \in Docs /\ d # Nothing
    BY CorpusAssumption
  <2>3. raw[row[d]] = d /\ row[d] \in Keys
    BY <2>1, <2>2 DEF RowsMatchFiles, TypeOK, Loaded
  <2>4. d \in Contents(Stored)
    BY <2>2, <2>3 DEF Contents, Stored
  <2> QED BY <2>1, <2>4 DEF SucceededIndexed
<1>2. Spec => []TypeOK /\ []RowsMatchFiles /\ []SucceededIndexed
  BY CorpusTyped, SerialRowsMatchFiles, SerialSucceededIndexed
<1> QED BY <1>1, <1>2, PTL

-----------------------------------------------------------------------------
\* What the writer leaves alone.

\* The action of OthersKept.
OthersStay == \A d \in Docs :
  /\ ~Lost({"head", "delete_one"}) /\ Loaded(d) /\ raw[row[d]] = d
  /\ \A t \in Threads : req[t].doc # d
  => raw'[row[d]] = d

LEMMA StepKeepsOthers ==
  ASSUME TInv, WInv, NEW t \in Threads, Step(t), NEW d \in Docs,
         ~Lost({"head", "delete_one"}), Loaded(d), raw[row[d]] = d, req[t].doc # d
  PROVE  raw'[row[d]] = d
<1>1. row[d] \in Keys /\ raw \in [Keys -> Docs \cup {Nothing}]
  BY DEF TInv, TypeOK, Loaded
<1>2. d # Nothing
  BY CorpusAssumption
<1>3. req[t].pc \in OnlyUpload \cup OnlyDelete => t \in Writers
  BY KindOf DEF TInv, Writers, Is
<1>4. t \in Writers => Working = req[t]
  BY WorkingIs DEF WInv
<1>5. CASE CopyRaw(t)
  <2>1. req[t].pc = "copy" /\ (raw' = raw \/ raw' = [raw EXCEPT ![req[t].key] = req[t].doc])
    BY <1>5 DEF CopyRaw, At
  <2>2. raw[req[t].key] = Nothing
    BY <1>3, <1>4, <2>1 DEF OnlyUpload, WInv, WriterKnows, Lost
  <2>3. row[d] # req[t].key
    BY <1>2, <2>2
  <2> QED BY <1>1, <2>1, <2>3
<1>6. CASE RemoveRaw(t)
  <2>1. req[t].pc = "remove" /\ (raw' = raw \/ raw' = [raw EXCEPT ![req[t].key] = Nothing])
    BY <1>6 DEF RemoveRaw, Without, At
  <2>2. raw[req[t].key] = req[t].doc
    BY <1>3, <1>4, <2>1 DEF OnlyDelete, WInv, WriterKnows
  <2>3. row[d] # req[t].key
    BY <2>2
  <2> QED BY <1>1, <2>1, <2>3
<1>7. CASE WipeNamespace(t)
  <2>1. req[t].pc = "rmtree" /\ (storage = "local" \/ raw' = raw)
    BY <1>7 DEF WipeNamespace, At
  <2>2. ~Lost({"list"}) => Stored = {}
    BY <1>3, <1>4, <2>1 DEF OnlyDelete, WInv, WriterKnows
  <2>3. storage = "local" => Stored = {}
    BY <2>2 DEF WInv, InS3, Lost
  <2>4. row[d] \in Stored
    BY <1>1, <1>2 DEF Stored
  <2> QED BY <2>1, <2>3, <2>4
<1>8. raw' = raw \/ CopyRaw(t) \/ RemoveRaw(t) \/ WipeNamespace(t)
  BY DEF Step, UploadStep, DeleteStep, IngestStep, QueryStep, PickKey, InsertDocument,
         RunInline, Delay, AddBytes, DeleteDocument, DeleteVectors, DeletePop, ListRaw,
         Materialize, FailIngest, WipeIndex, WriteFaiss, WriteMetadata, PopVec, BuildBm25,
         PopBm25, LoadMetadata, LoadBm25, StoreBm25
<1> QED BY <1>5, <1>6, <1>7, <1>8

LEMMA NextKeepsOthers == TInv /\ WInv /\ [Next]_vars => OthersStay
<1> SUFFICES ASSUME TInv, WInv, [Next]_vars, NEW d \in Docs,
                    ~Lost({"head", "delete_one"}), Loaded(d), raw[row[d]] = d,
                    \A t \in Threads : req[t].doc # d
             PROVE  raw'[row[d]] = d
  BY DEF OthersStay
<1>1. raw' = raw \/ \E t \in Threads : Step(t)
  BY DEF Next, LoadFaiss, BeginUpload, BeginDelete, DiscardMessage, vars
<1> QED BY <1>1, StepKeepsOthers

\* With one upload or deletion at a time nothing that is done for one document removes
\* or overwrites the raw file of another, also when S3 lists or fetches only some of the
\* files, unless a look-up in S3 or a delete_one has failed.
THEOREM SerialOthersKept ==
  ASSUME MaxWriters = 1
  PROVE  Spec => OthersKept
<1>1. TInv /\ WInv /\ [Next]_vars => [OthersStay]_vars
  BY NextKeepsOthers
<1> QED BY <1>1, InitT, InitW, NextKeepsT, NextKeepsW, PTL DEF Spec, OthersKept, OthersStay

-----------------------------------------------------------------------------
\* While the index files are those of process indexer, what it has cached of them is
\* what is on disk, and so is what a question of it has read with the lock held.

CacheHeld ==
  \/ indexer = Nothing
  \/ /\ indexer \in Procs => vecCache[indexer] \in {NotCached, <<faiss, meta>>}
     /\ \A t \in Threads : At(t, "vecmeta") /\ req[t].proc = indexer => req[t].docs = faiss

\* The steps that change neither the index files nor a cached index.
LEMMA SameKeepsCache ==
  ASSUME CacheHeld, NEW t \in Threads, Moved(t),
         req'[t].pc # "vecmeta" \/ req'[t].docs = faiss,
         UNCHANGED <<faiss, meta, indexer, vecCache>>
  PROVE  CacheHeld'
BY DEF CacheHeld, Moved, At

\* A question reads the two files with the lock held.
LEMMA QueryKeepsCache ==
  ASSUME TInv, CacheHeld, NEW t \in Threads, QueryStep(t)
  PROVE  CacheHeld'
<1>1. Moved(t)
  BY QueryMoves
<1>2. UNCHANGED <<faiss, meta, indexer>>
  BY DEF QueryStep, LoadMetadata, LoadBm25, StoreBm25, disk
<1>3. req'[t].pc # "vecmeta"
  <2>1. req \in [Threads -> Request]
    BY DEF TInv, TypeOK
  <2>2. Finish(t) => req'[t].pc # "vecmeta"
    BY FinishMoves DEF TInv
  <2>3. \A pc, docs : req' = [req EXCEPT ![t].pc = pc, ![t].docs = docs] => req'[t].pc = pc
    BY <2>1 DEF Request
  <2>4. CASE LoadMetadata(t)
    BY <2>2, <2>3, <2>4 DEF LoadMetadata
  <2>5. CASE LoadBm25(t)
    BY <2>2, <2>3, <2>5 DEF LoadBm25
  <2>6. CASE StoreBm25(t)
    BY <2>2, <2>6 DEF StoreBm25
  <2> QED BY <2>4, <2>5, <2>6 DEF QueryStep
<1>4. CASE vecCache' = vecCache
  BY <1>1, <1>2, <1>3, <1>4, SameKeepsCache
<1>5. CASE LoadMetadata(t) /\ vecCache' = [vecCache EXCEPT ![req[t].proc] = <<req[t].docs, meta>>]
  <2>1. At(t, "vecmeta")
    BY <1>5 DEF LoadMetadata
  <2>2. indexer \in Procs => vecCache'[indexer] \in {vecCache[indexer], <<req[t].docs, meta>>}
    BY <1>5 DEF TInv, TypeOK
  <2>3. indexer \in Procs /\ indexer # req[t].proc => vecCache'[indexer] = vecCache[indexer]
    BY <1>5 DEF TInv, TypeOK
  <2> QED BY <1>1, <1>2, <1>3, <2>1, <2>2, <2>3 DEF CacheHeld, Moved, At
<1> QED BY <1>4, <1>5 DEF QueryStep, LoadMetadata, LoadBm25, StoreBm25, caches

LEMMA WriterKeepsCache ==
  ASSUME TInv, WInv, CacheHeld, NEW t \in Threads,
         UploadStep(t) \/ DeleteStep(t) \/ IngestStep(t)
  PROVE  CacheHeld'
<1>1. TypeOK /\ Moved(t) /\ Working = req[t]
  BY UploadKeeps, DeleteKeeps, IngestKeeps, WriterMoves DEF TInv, WInv
<1>2. \A pc \in UploadPcs \cup DeletePcs : Goto(t, pc) => req'[t].pc = pc
  BY <1>1, GotoMoves
<1>3. Finish(t) => req'[t].pc = "idle"
  BY <1>1, FinishMoves
<1>4. CASE PopVec(t) \/ DeletePop(t)
  <2>1. /\ req'[t].pc \in {"bm25", "rmtree"} /\ ~Locked(req[t].proc)
        /\ indexer' = req[t].proc
        /\ vecCache' = [vecCache EXCEPT ![req[t].proc] = NotCached]
    BY <1>2, <1>4 DEF PopVec, DeletePop, UploadPcs, DeletePcs
  <2>2. indexer' \in Procs => vecCache'[indexer'] = NotCached
    BY <1>1, <2>1 DEF TypeOK
  <2>3. \A s \in Threads : ~(At(s, "vecmeta")' /\ req'[s].proc = indexer')
    BY <1>1, <2>1 DEF Moved, At, Locked
  <2> QED BY <2>2, <2>3 DEF CacheHeld
<1>5. CASE WipeIndex(t) \/ WriteFaiss(t) \/ WriteMetadata(t) \/ DeleteVectors(t)
  <2>1. req[t].pc \in {"faiss", "meta"} => indexer = Nothing
    BY <1>1 DEF WInv, IndexHeld
  <2>2. indexer' = Nothing
    BY <1>5, <2>1 DEF WipeIndex, WriteFaiss, WriteMetadata, DeleteVectors, At
  <2> QED BY <2>2 DEF CacheHeld
<1>6. CASE WipeNamespace(t)
  <2>1. req[t].pc = "rmtree" /\ faiss' = {} /\ meta' = {} /\ vecCache' = vecCache /\ indexer' = indexer
    BY <1>6 DEF WipeNamespace, At, caches
  <2>2. faiss = {} /\ meta = {}
    BY <1>1, <2>1 DEF WInv, IndexHeld
  <2>3. req'[t].pc = "idle"
    BY <1>3, <1>6 DEF WipeNamespace
  <2> QED BY <1>1, <2>1, <2>2, <2>3, SameKeepsCache
<1>7. CASE \/ UploadStep(t) \/ DeleteDocument(t) \/ RemoveRaw(t) \/ ListRaw(t)
           \/ Materialize(t) \/ FailIngest(t) \/ BuildBm25(t) \/ PopBm25(t)
  <2>1. UNCHANGED <<faiss, meta, indexer, vecCache>>
    BY <1>7 DEF UploadStep, PickKey, CopyRaw, InsertDocument, RunInline, Delay, AddBytes,
                DeleteDocument, RemoveRaw, ListRaw, Materialize, FailIngest, BuildBm25,
                PopBm25, disk, caches
  <2>2. req'[t].pc # "vecmeta"
    <3>1. PickKey(t) \/ ListRaw(t) \/ Materialize(t) => req'[t].pc # "vecmeta"
      BY PickKeyMoves, ListRawMoves, MaterializeMoves DEF Went
    <3> QED BY <1>2, <1>3, <1>7, <3>1
            DEF UploadStep, CopyRaw, InsertDocument, RunInline, Delay, AddBytes,
                DeleteDocument, RemoveRaw, FailIngest, BuildBm25, PopBm25, UploadPcs, DeletePcs
  <2> QED BY <1>1, <2>1, <2>2, SameKeepsCache
<1> QED BY <1>4, <1>5, <1>6, <1>7 DEF DeleteStep, IngestStep

LEMMA NextKeepsCache ==
  TInv /\ WInv /\ CacheHeld /\ [Next]_vars => CacheHeld'
<1> SUFFICES ASSUME TInv, WInv, CacheHeld, [Next]_vars PROVE CacheHeld'
  OBVIOUS
<1>1. ASSUME NEW t \in Threads, Step(t) PROVE CacheHeld'
  BY <1>1, QueryKeepsCache, WriterKeepsCache DEF Step
<1>2. ASSUME NEW t \in Threads, Begins(t), req'[t].pc # "vecmeta" \/ req'[t].docs = faiss
      PROVE  CacheHeld'
  BY <1>2, SameKeepsCache DEF Begins, disk, caches
<1>3. ASSUME NEW t \in Threads, NEW p \in Procs, LoadFaiss(t, p) PROVE CacheHeld'
  BY <1>2, <1>3, LoadFaissMoves
<1>4. ASSUME NEW t \in Threads, NEW d \in Docs, BeginUpload(t, d) \/ BeginDelete(t, d)
      PROVE  CacheHeld'
  BY <1>2, <1>4, BeginUploadMoves, BeginDeleteMoves
<1>5. ASSUME \/ \E d \in Docs : DiscardMessage(d)
             \/ UNCHANGED vars
      PROVE  CacheHeld'
  BY <1>5 DEF DiscardMessage, vars, disk, caches, CacheHeld, At
<1> QED BY <1>1, <1>3, <1>4, <1>5 DEF Next

\* With one upload or deletion at a time, in any number of processes, the one that wrote
\* or cleared the index files never pairs vectors of one ingest with metadata of another
\* nor answers from replaced files, however its questions and the writer interleave and
\* wherever an ingest has raised: the lock, and the order in which upsert writes and
\* forgets, suffice.
THEOREM SerialVectorCacheFresh ==
  ASSUME MaxWriters = 1
  PROVE  Spec => []VectorCacheFresh
<1>1. CacheHeld => VectorCacheFresh
  BY CorpusAssumption DEF CacheHeld, VectorCacheFresh
<1>2. Init => CacheHeld
  BY DEF Init, CacheHeld
<1> QED BY <1>1, <1>2, InitT, InitW, NextKeepsT, NextKeepsW, NextKeepsCache, PTL DEF Spec
=============================================================================
