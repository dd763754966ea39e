----------------------------- MODULE AnswerCache -----------------------------
(***************************************************************************)
(* The answer cache of cache.py, as the chat routes use it for one user:    *)
(* an exact layer keyed by the question, a semantic layer that reuses the  *)
(* answer to a similar question, and the answers they miss.                *)
(*                                                                         *)
(* Both layers live in one backend, a process-local LRU or Redis.  Each    *)
(* backend call is a step: _InMemoryBackend holds its lock for one call,   *)
(* and between two calls of a request the other threads may run, documents *)
(* may be ingested and time may pass.                                      *)
(***************************************************************************)
EXTENDS Naturals, SequencesExt

CONSTANTS
  Queries,         \* questions, up to strip().lower()
  Sim,             \* Sim[p, q]: the cosine of their embeddings, in steps
  Threshold,       \* SEMANTIC_SIM_THRESHOLD, in the same steps
  Threads,
  Backends,        \* backends the instance is deployed with
  ExactTtl, SemanticTtl,   \* DEFAULT_TTL, SEMANTIC_TTL
  MaxSize,         \* _InMemoryBackend's maxsize
  ZCap, ZCount,    \* members kept in the semantic index, members looked at
  Nothing

CONSTANTS          \* bounds of the instance
  MaxNow, MaxVersion, MaxAsks, MaxRaises

Never == MaxNow + ExactTtl + 1

\* An answer is known by the question it was generated for and the documents it
\* was generated from.
Answers == [query : Queries, version : 1..MaxVersion]
Keys    == {"answer", "entry"} \X Queries
Entries == [expires : 0..Never, answer : Answers]

ASSUME AnswerCacheAssumption ==
  /\ Sim \in [Queries \X Queries -> Nat] /\ Threshold \in Nat
  /\ Backends \subseteq {"memory", "redis"}
  /\ ExactTtl \in Nat /\ SemanticTtl \in Nat /\ SemanticTtl <= ExactTtl
  /\ MaxSize \in Nat \ {0} /\ ZCap \in Nat \ {0} /\ ZCount \in 1..ZCap
  /\ {MaxNow, MaxAsks, MaxRaises} \subseteq Nat /\ MaxVersion \in Nat \ {0}
  /\ Nothing \notin Queries \cup Answers \cup Entries

VARIABLES
  backend,         \* which one the process has selected
  kv,              \* kv[k]: the entry under key k, or Nothing
  order,           \* the keys of the LRU, least recently used first; <<>> in Redis
  z,               \* the members of the semantic index, oldest first
  zExpires,        \* when Redis drops the semantic index
  corpus,          \* version of the user's documents
  copies,          \* replaced versions still to be retrieved from: index files that no ingest
                   \* has replaced, and the FAISS and BM25 caches of the processes
  retired,         \* retired[v]: when no retrieval could be given version v any more
  now,
  req,             \* req[t]: the chat request thread t works on
  asks, raises     \* requests begun, Redis calls that raised

entries == <<kv, order>>
index   == <<z, zExpires>>
world   == <<backend, corpus, copies, retired, now, asks>>
vars    == <<entries, index, world, req, raises>>

Pcs == {"idle", "exact", "members", "scan", "hit", "setexact", "setentry", "zadd"}

\* members: semantic members still to look at; answer: the best hit so far, or
\* the answer generated; since: when the request came in.
Request == [pc : Pcs, query : Queries \cup {Nothing}, members : Seq(Queries),
            answer : Answers \cup {Nothing}, since : 0..MaxNow]

Idle == [pc |-> "idle", query |-> Nothing, members |-> <<>>,
         answer |-> Nothing, since |-> 0]

TypeOK ==
  /\ backend \in Backends
  /\ kv \in [Keys -> Entries \cup {Nothing}]
  /\ order \in Seq(Keys) /\ IsInjective(order) /\ Len(order) <= MaxSize
  /\ Range(order) = IF backend = "memory" THEN {k \in Keys : kv[k] # Nothing} ELSE {}
  /\ z \in Seq(Queries) /\ Len(z) <= ZCap + raises
  /\ zExpires \in 0..Never
  /\ corpus \in 1..MaxVersion /\ now \in 0..MaxNow
  /\ copies \subseteq 1..(corpus - 1)
  /\ retired \in [1..MaxVersion -> 0..Never]
  /\ req \in [Threads -> Request]
  /\ asks \in 0..MaxAsks /\ raises \in 0..MaxRaises

Init ==
  /\ backend \in Backends
  /\ kv = [k \in Keys |-> Nothing] /\ order = <<>> /\ z = <<>> /\ zExpires = Never
  /\ corpus = 1 /\ now = 0
  /\ copies = {} /\ retired = [v \in 1..MaxVersion |-> Never]
  /\ req = [t \in Threads |-> Idle]
  /\ asks = 0 /\ raises = 0

-----------------------------------------------------------------------------
\* The backend.

\* A key is live until its expiry: get of the LRU compares with <, Redis has
\* dropped the key when the time has come.
Live(k) == /\ kv[k] # Nothing
           /\ IF backend = "memory" THEN kv[k].expires >= now ELSE kv[k].expires > now

\* A Redis call may raise (the socket timeout is half a second); the exception is
\* logged and swallowed.  One that raises after Redis has obeyed is like one that
\* does not.
Raise == backend = "redis" /\ raises < MaxRaises /\ raises' = raises + 1

\* Variant of Touch: a read renews the expiry.
TouchAndRenew(k) ==
  /\ kv' = [kv EXCEPT ![k].expires = now + ExactTtl]
  /\ order' = IF backend = "memory" THEN Append(RemoveFirst(order, k), k) ELSE order

\* get moves a live key of the LRU to the recently used end, and drops a dead one.
Touch(k) ==
  /\ order' = IF backend = "memory" THEN Append(RemoveFirst(order, k), k) ELSE order
  /\ UNCHANGED kv

Drop(k) == kv' = [kv EXCEPT ![k] = Nothing] /\ order' = RemoveFirst(order, k)

Hit(k)  == Live(k) /\ Touch(k) /\ UNCHANGED raises
Miss(k) == \/ ~Live(k) /\ Drop(k) /\ UNCHANGED raises
           \/ Raise /\ UNCHANGED entries

\* Variant of Store: the LRU never evicts.
StoreUnbounded(k, entry) ==
  /\ kv' = [kv EXCEPT ![k] = entry]
  /\ order' = IF backend = "memory" THEN Append(RemoveFirst(order, k), k) ELSE order

\* set stores at the recently used end; the LRU then evicts from the other one.
Store(k, entry) ==
  LET used == Append(RemoveFirst(order, k), k) IN
  \/ /\ backend = "memory" /\ Len(used) <= MaxSize
     /\ kv' = [kv EXCEPT ![k] = entry] /\ order' = used
  \/ /\ backend = "memory" /\ Len(used) > MaxSize
     /\ kv' = [kv EXCEPT ![k] = entry, ![Head(used)] = Nothing] /\ order' = Tail(used)
  \/ /\ backend = "redis"
     /\ kv' = [kv EXCEPT ![k] = entry] /\ UNCHANGED order

Put(k, a, ttl) ==
  \/ Store(k, [expires |-> now + ttl, answer |-> a]) /\ UNCHANGED raises
  \/ Raise /\ UNCHANGED entries

Newest(s, n) == SubSeq(s, IF Len(s) > n THEN Len(s) - n + 1 ELSE 1, Len(s))

\* Variant of AddMember: the index is given a TTL only when it is created.
AddMemberOnce(q) ==
  LET added == Append(RemoveFirst(z, q), q) IN
  /\ z' = Newest(added, ZCap)
  /\ zExpires' = IF z = <<>> /\ backend = "redis" THEN now + SemanticTtl ELSE zExpires
  /\ UNCHANGED raises

\* zadd: the list of the LRU keeps duplicates; the sorted set of Redis does not.
\* In Redis it is three commands: add, renew the TTL, trim.
AddMember(q) ==
  LET added == Append(RemoveFirst(z, q), q)
      renewed == now + SemanticTtl
  IN \/ /\ backend = "memory" /\ z' = Newest(Append(z, q), ZCap)
        /\ UNCHANGED <<zExpires, raises>>
     \/ /\ backend = "redis" /\ z' = Newest(added, ZCap) /\ zExpires' = renewed
        /\ UNCHANGED raises
     \/ /\ Raise
        /\ \/ UNCHANGED index
           \/ z' = added /\ zExpires' \in {zExpires, renewed}

-----------------------------------------------------------------------------
\* A chat request: _retrieve_with_cache, then the body of the route.

Goto(t, pc) == req' = [req EXCEPT ![t].pc = pc]
Finish(t)   == req' = [req EXCEPT ![t] = Idle]

Ask(t, q) ==
  /\ req[t].pc = "idle" /\ asks < MaxAsks
  /\ asks' = asks + 1
  /\ req' = [req EXCEPT ![t] = [Idle EXCEPT !.pc = "exact", !.query = q, !.since = now]]
  /\ UNCHANGED <<entries, index, backend, corpus, copies, retired, now, raises>>

\* get_exact.
GetExact(t) ==
  LET k == <<"answer", req[t].query>> IN
  /\ req[t].pc = "exact"
  /\ \/ Hit(k) /\ req' = [req EXCEPT ![t].pc = "hit", ![t].answer = kv[k].answer]
     \/ Miss(k) /\ Goto(t, "members")
  /\ UNCHANGED <<index, world>>

\* semantic_get: first the members ...
GetMembers(t) ==
  /\ req[t].pc = "members"
  /\ \/ /\ req' = [req EXCEPT ![t].pc = "scan", ![t].members = Newest(z, ZCount)]
        /\ UNCHANGED raises
     \/ Raise /\ Goto(t, "scan")
  /\ UNCHANGED <<entries, index, world>>

\* ... then their entries one by one, keeping the most similar of those close
\* enough; a member whose entry is gone is skipped.
Closer(t, p) == /\ Sim[req[t].query, p] >= Threshold
                /\ \/ req[t].answer = Nothing
                   \/ Sim[req[t].query, p] > Sim[req[t].query, req[t].answer.query]

ScanMember(t) ==
  /\ req[t].pc = "scan" /\ req[t].members # <<>>
  /\ LET p == Head(req[t].members)
         k == <<"entry", p>>
         rest == [req[t] EXCEPT !.members = Tail(@)]
     IN \/ /\ Hit(k)
           /\ req' = [req EXCEPT ![t] = IF Closer(t, p)
                THEN [rest EXCEPT !.answer = kv[k].answer] ELSE rest]
        \/ Miss(k) /\ req' = [req EXCEPT ![t] = rest]
  /\ UNCHANGED <<index, world>>

\* The entry found is the answer to serve; so is one found by get_exact.
Hitting(t) == /\ req[t].pc \in {"scan", "hit"} /\ req[t].members = <<>>
              /\ req[t].answer # Nothing

\* Variant of ServeHit: the answer found is stored for this question as well.
ServeAndStore(t) ==
  /\ Hitting(t)
  /\ Goto(t, "setexact")
  /\ UNCHANGED <<entries, index, world, raises>>

\* A hit is served as it is (stream and upload) ...
ServeHit(t) ==
  /\ Hitting(t)
  /\ Finish(t)
  /\ UNCHANGED <<entries, index, world, raises>>

\* ... or chat asks the exact layer once more, for the list of sources.
GetSources(t) ==
  LET k == <<"answer", req[t].query>> IN
  /\ Hitting(t)
  /\ Hit(k) \/ Miss(k)
  /\ Finish(t)
  /\ UNCHANGED <<index, world>>

\* The versions a retrieval may be given: the documents', and those that outlive them in
\* index files and in the FAISS and BM25 caches of the processes.
Present == copies \cup {corpus}

\* retrieve_top_chunks, then generate_answer (the text it returns when the model
\* fails is an answer, too).  Of two versions, FAISS's and BM25's, the older one counts.
\* When no chunk is found nothing is generated from the documents and nothing is cached.
Retrieve(t) ==
  /\ req[t].pc = "scan" /\ req[t].members = <<>> /\ req[t].answer = Nothing
  /\ \/ Finish(t)
     \/ \E v \in Present :
          req' = [req EXCEPT ![t].pc = "setexact",
                    ![t].answer = [query |-> req[t].query, version |-> v]]
  /\ UNCHANGED <<entries, index, world, raises>>

SetExact(t) ==
  /\ req[t].pc = "setexact"
  /\ Put(<<"answer", req[t].query>>, req[t].answer, ExactTtl)
  /\ Goto(t, "setentry")
  /\ UNCHANGED <<index, world>>

\* semantic_set: the entry, then the member.
SetEntry(t) ==
  /\ req[t].pc = "setentry"
  /\ Put(<<"entry", req[t].query>>, req[t].answer, SemanticTtl)
  /\ Goto(t, "zadd")
  /\ UNCHANGED <<index, world>>

ZAdd(t) ==
  /\ req[t].pc = "zadd"
  /\ AddMember(req[t].query)
  /\ Finish(t)
  /\ UNCHANGED <<entries, world>>

-----------------------------------------------------------------------------
\* Processes go on with their copies of the versions kept; all others are gone.
Keep(kept) ==
  /\ copies' = kept
  /\ retired' = [v \in 1..MaxVersion |-> IF v \in Present \ kept /\ v < corpus' THEN now
                                         ELSE retired[v]]

\* The documents change (an upload or a deletion ends).  Processes that have loaded the
\* index keep their copies, all but the writer's FAISS and, after an ingest, BM25, and a
\* failed ingest leaves the files; invalidate_user, called then, only writes a log line.
Ingest ==
  /\ corpus < MaxVersion
  /\ corpus' = corpus + 1
  /\ \E kept \in SUBSET Present : Keep(kept)
  /\ UNCHANGED <<entries, index, backend, now, asks, req, raises>>

\* Copies of replaced documents go: an ingest is repeated, or a process ends.
Forget ==
  /\ UNCHANGED <<entries, index, backend, corpus, now, asks, req, raises>>
  /\ \E kept \in SUBSET copies : kept # copies /\ Keep(kept)

\* Time passes, and Redis drops what has expired; a request lasts for less than
\* one unit.  Time starts with the first request.
Tick ==
  /\ now < MaxNow /\ asks > 0
  /\ \A t \in Threads : req[t].pc # "idle" => req[t].since = now
  /\ now' = now + 1
  /\ IF backend = "memory" THEN UNCHANGED <<kv, index>>
     ELSE /\ kv' = [k \in Keys |-> IF kv[k] # Nothing /\ kv[k].expires > now'
                                   THEN kv[k] ELSE Nothing]
          /\ z' = IF zExpires > now' THEN z ELSE <<>>
          /\ zExpires' = IF zExpires > now' THEN zExpires ELSE Never
  /\ UNCHANGED <<order, backend, corpus, copies, retired, asks, req, raises>>

Step(t) == \/ GetExact(t) \/ GetMembers(t) \/ ScanMember(t)
           \/ ServeHit(t) \/ GetSources(t) \/ Retrieve(t)
           \/ SetExact(t) \/ SetEntry(t) \/ ZAdd(t)

Next == \/ \E t \in Threads : Step(t) \/ \E q \in Queries : Ask(t, q)
        \/ Ingest \/ Forget \/ Tick

Spec == Init /\ [][Next]_vars
-----------------------------------------------------------------------------
\* Properties.

\* An answer served from the cache (_retrieve_with_cache) was generated for the
\* same question or for one close enough to it: closeness is never chained
\* through a third question, which is why a semantic hit must not be stored.
ServedClose ==
  \A t \in Threads : Hitting(t) =>
    LET p == req[t].answer.query
    IN p = req[t].query \/ Sim[req[t].query, p] >= Threshold

\* invalidate_user relies on TTL expiry: an answer generated from documents that have been
\* replaced is served no longer than the exact TTL after the last process forgot its copy
\* of them, plus the request that generated it and the one that is served.  For as long as
\* a process has its copy of replaced documents, it goes on to make such answers.
StalenessBounded ==
  \A t \in Threads : Hitting(t) =>
    now <= retired[req[t].answer.version] + ExactTtl + 2

\* semantic_get can find every entry that semantic_set has stored and that has
\* not expired: the index never expires before the entries it names.  It can miss
\* one whose writer has not reached zadd, one pushed out of a full index, and one
\* whose index entry a failed Redis call lost.
EntriesIndexed ==
  \A q \in Queries :
    \/ Live(<<"entry", q>>) => \E i \in DOMAIN z : z[i] = q
    \/ \E t \in Threads : req[t].pc = "zadd" /\ req[t].query = q
    \/ Len(z) >= ZCap \/ raises > 0

=============================================================================
