------------------------------ MODULE Retrieval ------------------------------
(***************************************************************************)
(* Retrieval of chunks for a question (rag/retrieve.py): vector search,    *)
(* lexical search (BM25), reciprocal rank fusion, reranking.  A missing    *)
(* index, and Qdrant, BM25 or a reranker that fails, are done without;     *)
(* FAISS files that cannot be read fail the question.                      *)
(*                                                                         *)
(* A chunk is its position in the index.  Scores are numbers of which only *)
(* the order matters; those of the fusion are exact fractions.             *)
(***************************************************************************)
EXTENDS Integers, FiniteSets

CONSTANTS
  Size,              \* chunks a user may have
  Scores, Threshold, \* what searches and reranker give; SIMILARITY_THRESHOLD
  K,                 \* _RRF_K
  Wide, TopK         \* _TOP_K_RETRIEVE, and the chunks the model is shown

\* With _RRF_K = 60 and _TOP_K_RETRIEVE = 50 the last holds.
ASSUME RetrievalAssumption ==
  /\ {Size, K} \subseteq Nat /\ {Wide, TopK} \subseteq Nat \ {0}
  /\ Scores \subseteq Int /\ Threshold \in Int
  /\ Wide <= K + 1

VARIABLES
  backend,           \* the vector store of this process
  model,             \* the reranker of this process
  pc,                \* the next step of the question at hand
  vec, bm,           \* hits of the two searches, best first
  fused,             \* the candidates for reranking, best first
  result             \* the chunks for the model

vars == <<backend, model, pc, vec, bm, fused, result>>

Chunks == 1..Size
None   == <<>>
Elems(s) == {s[i] : i \in DOMAIN s}

\* Lists of distinct chunks.
Lists == UNION {{s \in [1..n -> Chunks] : \A i, j \in 1..n : s[i] = s[j] => i = j} :
                  n \in 0..Size}

TypeOK ==
  /\ backend \in {"faiss", "qdrant"}
  /\ model \in {"disabled", "unloaded", "loaded"}
  /\ pc \in {"vector", "lexical", "fuse", "rerank", "done", "failed"}
  /\ vec \in Lists /\ bm \in Lists /\ fused \in Lists /\ result \in Lists
  /\ DOMAIN vec \cup DOMAIN bm \cup DOMAIN fused \subseteq 1..Wide
  /\ DOMAIN result \subseteq 1..TopK

\* _build_store, and RERANK_DISABLE.
Init ==
  /\ backend \in {"faiss", "qdrant"} /\ model \in {"disabled", "unloaded"}
  /\ pc = "vector"
  /\ vec = None /\ bm = None /\ fused = None /\ result = None

-----------------------------------------------------------------------------
\* The ways to list set S so that every element is Less than those after it.
Ordered(S, Less(_, _)) ==
  {s \in [1..Cardinality(S) -> S] :
     Elems(s) = S /\ \A i, j \in DOMAIN s : i < j => Less(s[i], s[j])}

\* s[:n]
First(n, s) == [i \in DOMAIN s \cap 1..n |-> s[i]]

Goto(next) == pc' = next /\ UNCHANGED backend

\* _FaissStore.search: up to Wide positions of the index, nearest first; those
\* that metadata.json does not have, or that are too far, are passed over.
FaissSearch ==
  /\ pc = "vector" /\ backend = "faiss"
  /\ \E length \in 0..Size, near \in SUBSET Chunks, score \in [Chunks -> Scores] :
       /\ Cardinality(near) <= Wide
       /\ vec' \in Ordered({c \in near : c <= length /\ score[c] >= Threshold},
                           LAMBDA c, d : c # d /\ score[c] >= score[d])
  /\ Goto("lexical") /\ UNCHANGED <<model, bm, fused, result>>

\* _load raises when metadata.json is missing beside faiss.index, or a file is torn, as
\* while an upsert rewrites them.  Nobody catches it: the question ends in an error.
FaissRaises ==
  /\ pc = "vector" /\ backend = "faiss"
  /\ Goto("failed") /\ UNCHANGED <<model, vec, bm, fused, result>>

\* _QdrantStore.search: the threshold is the server's; a call that fails, after
\* its retries, finds nothing.
QdrantSearch ==
  /\ pc = "vector" /\ backend = "qdrant"
  /\ \/ \E near \in SUBSET Chunks, score \in [Chunks -> Scores] :
          /\ Cardinality(near) <= Wide
          /\ \A c \in near : score[c] >= Threshold
          /\ vec' \in Ordered(near, LAMBDA c, d : c # d /\ score[c] >= score[d])
     \/ vec' = None
  /\ Goto("lexical") /\ UNCHANGED <<model, bm, fused, result>>

\* bm25_search: every chunk of the pickle has a score, and none is too low.
\* Without a pickle, or when scoring raises, nothing is found.
Bm25Search ==
  /\ pc = "lexical"
  /\ \/ \E length \in 0..Size, score \in [Chunks -> Scores] :
          \E s \in Ordered(1..length, LAMBDA c, d :
                     score[c] > score[d] \/ (score[c] = score[d] /\ c < d)) :
            bm' = First(Wide, s)
     \/ bm' = None
  /\ Goto("fuse") /\ UNCHANGED <<model, vec, fused, result>>

-----------------------------------------------------------------------------
\* rrf_fuse.
Rank(s, c) == CHOOSE i \in DOMAIN s : s[i] = c

\* Variant of Share: no constant, as in 1 / rank.
ShareOfRank(s, c) == IF c \in Elems(s) THEN <<1, Rank(s, c)>> ELSE <<0, 1>>

\* What list s adds to the score of c, as a fraction.
Share(s, c) == IF c \in Elems(s) THEN <<1, K + Rank(s, c)>> ELSE <<0, 1>>

Plus(p, q)  == <<p[1] * q[2] + q[1] * p[2], p[2] * q[2]>>
More(p, q)  == p[1] * q[2] > q[1] * p[2]

Hits == Elems(vec) \cup Elems(bm)

\* Variant of Score: the second list overwrites what the first has given.
ScoreOfLast(c) == IF c \in Elems(bm) THEN Share(bm, c) ELSE Share(vec, c)

Score(c) == Plus(Share(vec, c), Share(bm, c))

\* c entered the dictionary of scores before d.
Earlier(c, d) ==
  IF c \in Elems(vec) THEN d \in Elems(vec) => Rank(vec, c) < Rank(vec, d)
  ELSE d \notin Elems(vec) /\ Rank(bm, c) < Rank(bm, d)

\* The sort is by score, and stable.  (Sums that are equal of different ranks may
\* differ as floating-point numbers, either way.)
SameShares(c, d) ==
  {Share(vec, c), Share(bm, c)} = {Share(vec, d), Share(bm, d)}

Before(c, d) ==
  \/ More(Score(c), Score(d))
  \/ /\ c # d /\ ~More(Score(d), Score(c))
     /\ SameShares(c, d) => Earlier(c, d)

\* retrieve: fusion is left out when the lexical search has found nothing.
Fuse ==
  /\ pc = "fuse"
  /\ IF bm = None THEN fused' = vec
     ELSE \E s \in Ordered(Hits, Before) : fused' = First(Wide, s)
  /\ IF fused' = None THEN Goto("done") ELSE Goto("rerank")
  /\ UNCHANGED <<model, vec, bm, result>>

\* Variant of Keep: a reranker that fails leaves nothing.
KeepNone == result' = None

\* Variant of Keep: the candidates are not cut to the chunks asked for.
KeepAll == result' = fused

\* rerank without a model, or when it raises: the order of the fusion.
Keep == result' = First(TopK, fused)

\* rerank: the model is loaded when first used, and again after it could not be.
\* Its scores are sorted stably.
Rerank ==
  /\ pc = "rerank"
  /\ \/ /\ model # "disabled" /\ model' = "loaded"
        /\ \E score \in [Elems(fused) -> Scores] :
             \E s \in Ordered(Elems(fused), LAMBDA c, d :
                        \/ score[c] > score[d]
                        \/ score[c] = score[d] /\ Rank(fused, c) < Rank(fused, d)) :
               result' = First(TopK, s)
     \/ model' \in (IF model = "unloaded" THEN {"unloaded", "loaded"} ELSE {model}) /\ Keep
  /\ Goto("done") /\ UNCHANGED <<vec, bm, fused>>

\* The next question.
Ask ==
  /\ pc \in {"done", "failed"}
  /\ vec' = None /\ bm' = None /\ fused' = None /\ result' = None
  /\ Goto("vector") /\ UNCHANGED model

Next == \/ FaissSearch \/ FaissRaises \/ QdrantSearch \/ Bm25Search
        \/ Fuse \/ Rerank \/ Ask

Spec == Init /\ [][Next]_vars
-----------------------------------------------------------------------------
\* Properties.

Least(S) == CHOOSE n \in S : \A m \in S : n <= m

Both    == Elems(vec) \cap Elems(bm)
Decided == pc \in {"rerank", "done"}

\* c was a candidate, and before d.
Ahead(c, d) == c \in Elems(fused) /\ Rank(fused, c) < Rank(fused, d)

\* c is at least as good as d in list l.
NoWorse(l, c, d) ==
  d \in Elems(l) => c \in Elems(l) /\ Rank(l, c) <= Rank(l, d)

Outdoes(c, d) ==
  \/ c \in Both /\ d \notin Both
  \/ c # d /\ NoWorse(vec, c, d) /\ NoWorse(bm, c, d)

\* A chunk that both searches found comes before every chunk that only one found,
\* at whatever ranks, and a chunk no worse in either search before the other; it is
\* not cut off while the other is kept.  (rrf_fuse: the ranks must not outweigh
\* the agreement.)
FusionOrder ==
  Decided => \A c \in Hits, d \in Elems(fused) : Outdoes(c, d) => Ahead(c, d)

\* A question that gets past its searches is answered from as many of the chunks found as
\* there is room for: an index that is missing, Qdrant, BM25 or a reranker that fails takes
\* none of what the others have found (retrieve, rerank).  FAISS files that cannot be read
\* fail the whole question, what BM25 would have found included: FaissRaises.
NothingWasted ==
  pc = "done" =>
    Cardinality(Elems(result)) = Least({Cardinality(Hits), Wide, TopK})

=============================================================================
