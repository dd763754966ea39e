-------------------------- MODULE AnswerCacheProofs --------------------------
(***************************************************************************)
(* What AnswerCache promises, for any questions, similarities, TTLs, sizes  *)
(* and threads, and whichever backend the process has selected.            *)
(***************************************************************************)
EXTENDS AnswerCache, WellFoundedInduction, TLAPS

-----------------------------------------------------------------------------
\* The inductive invariant.

\* The steps with an answer to store.
Writing == {"setexact", "setentry", "zadd"}

Close(q, p) == p = q \/ Sim[q, p] >= Threshold

\* A request came in at most one unit ago.  The answer it has generated is to its own
\* question, from documents that could be retrieved after it came in.  The answer it has
\* found is to a question close to its own, and was found in time.
Holds(t) ==
  /\ req[t].pc # "idle" => /\ req[t].query \in Queries
                           /\ req[t].since <= now /\ now <= req[t].since + 1
  /\ req[t].pc \in {"idle", "exact", "members"} => req[t].answer = Nothing
  /\ req[t].pc \in Writing =>
       /\ req[t].answer \in Answers /\ req[t].answer.query = req[t].query
       /\ req[t].answer.version <= corpus
       /\ req[t].since <= retired[req[t].answer.version]
  /\ req[t].pc \in {"scan", "hit"} /\ req[t].answer # Nothing =>
       /\ Close(req[t].query, req[t].answer.query)
       /\ req[t].answer.version <= corpus
       /\ req[t].since <= retired[req[t].answer.version] + ExactTtl + 1

\* An entry holds the answer to its own question, and expires at most ExactTtl and one
\* unit after the documents it was generated from could last be retrieved.
Stored(k) == kv[k] # Nothing =>
  /\ kv[k].answer.query = k[2] /\ kv[k].answer.version <= corpus
  /\ kv[k].expires <= retired[kv[k].answer.version] + ExactTtl + 1
  /\ kv[k].expires <= now + (IF k[1] = "entry" THEN SemanticTtl ELSE ExactTtl)

\* What can be retrieved, and what is to come, has not been retired.
InForce == \A v \in copies \cup corpus..MaxVersion : retired[v] = Never

\* A member of the semantic index, or one that a full index has pushed out.
Member(q) == q \in Range(z) \/ Len(z) >= ZCap

Adding(t, q) == req[t].pc = "zadd" /\ req[t].query = q

\* An entry is named by an index that lives as long, or its writer is about to add it.
Indexed == raises = 0 =>
  \A q \in Queries : kv[<<"entry", q>>] # Nothing =>
    \/ \E t \in Threads : Adding(t, q)
    \/ Member(q) /\ (backend = "redis" => kv[<<"entry", q>>].expires <= zExpires)

CInv == /\ TypeOK /\ InForce /\ Indexed
        /\ \A k \in Keys : Stored(k)
        /\ \A t \in Threads : Holds(t)

-----------------------------------------------------------------------------
\* Sequences.

LEMMA MinIsMember ==
  ASSUME NEW S \in SUBSET Nat, S # {}
  PROVE  Min(S) \in S
<1>1. \E n \in S : \A m \in S : ~(<<m, n>> \in OpToRel(<, Nat))
  BY WFMin, NatLessThanWellFounded
<1>2. \A m, n \in S : <<m, n>> \in OpToRel(<, Nat) <=> m < n
  BY DEF OpToRel
<1>3. \A m, n \in S : ~(m < n) => n <= m
  OBVIOUS
<1>4. \E n \in S : \A m \in S : n <= m
  BY <1>1, <1>2, <1>3
<1> QED BY <1>4 DEF Min

\* Removing the first e leaves every other element, in its order.
LEMMA RemoveFirstFacts ==
  ASSUME NEW S, NEW s \in Seq(S), NEW e, NEW r, r = RemoveFirst(s, e)
  PROVE  /\ r \in Seq(S)
         /\ \/ r = s /\ \A i \in 1..Len(s) : s[i] # e
            \/ \E i \in 1..Len(s) :
                 /\ s[i] = e /\ Len(r) = Len(s) - 1
                 /\ \A j \in 1..Len(r) : r[j] = IF j < i THEN s[j] ELSE s[j + 1]
<1>1. CASE \A i \in 1..Len(s) : s[i] # e
  BY <1>1 DEF RemoveFirst
<1>2. CASE \E i \in 1..Len(s) : s[i] = e
  <2> DEFINE I == {i \in 1..Len(s) : s[i] = e}
  <2>1. I # {} /\ I \in SUBSET Nat
    BY <1>2
  <2>2. PICK n \in I : n = Min(I)
    <3> HIDE DEF I
    <3> QED BY <2>1, MinIsMember
  <2>3. r = RemoveAt(s, n)
    BY <1>2, <2>1, <2>2 DEF RemoveFirst, SelectInSeq
  <2>4. n \in 1..Len(s) /\ s[n] = e
    BY <2>2
  <2> DEFINE A == SubSeq(s, 1, n - 1)
             B == SubSeq(s, n + 1, Len(s))
  <2>5. /\ A \in Seq(S) /\ Len(A) = n - 1 /\ \A j \in 1..(n - 1) : A[j] = s[j]
        /\ B \in Seq(S) /\ Len(B) = Len(s) - n
    BY <2>4
  <2>6. ASSUME NEW j \in 1..(Len(s) - n) PROVE B[j] = s[j + n]
    <3>1. B[j] = s[(n + 1) + j - 1]
      BY <2>4
    <3>2. (n + 1) + j - 1 = j + n
      BY <2>4
    <3> QED BY <3>1, <3>2
  <2>7. r = A \o B
    BY <2>3 DEF RemoveAt
  <2> HIDE DEF A, B
  <2>8. r \in Seq(S) /\ Len(r) = Len(s) - 1
    <3>1. A \in Seq(S) /\ B \in Seq(S)
      BY <2>5
    <3>2. A \o B \in Seq(S) /\ Len(A \o B) = Len(A) + Len(B)
      BY <3>1
    <3>3. Len(s) \in Nat
      OBVIOUS
    <3> QED BY <2>4, <2>5, <2>7, <3>2, <3>3
  <2>9. ASSUME NEW j \in 1..Len(r) PROVE r[j] = IF j < n THEN s[j] ELSE s[j + 1]
    <3>1. CASE j < n
      BY <2>4, <2>5, <2>7, <2>8, <3>1
    <3>2. CASE ~(j < n)
      <4>1. j - (n - 1) \in 1..(Len(s) - n)
        BY <2>4, <2>8, <3>2
      <4>2. r[j] = B[j - (n - 1)]
        BY <2>4, <2>5, <2>7, <2>8, <3>2
      <4>3. B[j - (n - 1)] = s[(j - (n - 1)) + n]
        BY <2>6, <4>1
      <4>4. (j - (n - 1)) + n = j + 1
        BY <2>4
      <4> QED BY <3>2, <4>2, <4>3, <4>4
    <3> QED BY <3>1, <3>2
  <2> QED BY <2>4, <2>8, <2>9
<1> QED BY <1>1, <1>2

LEMMA RangeIs ==
  ASSUME NEW S, NEW s \in Seq(S)
  PROVE  \A x : x \in Range(s) <=> \E i \in 1..Len(s) : s[i] = x
BY DEF Range

LEMMA EmptyRange ==
  ASSUME NEW S, NEW s \in Seq(S), Range(s) = {}
  PROVE  s = <<>>
<1>1. Len(s) \in Nat /\ DOMAIN s = 1..Len(s)
  OBVIOUS
<1>2. Len(s) = 0
  <2> SUFFICES ASSUME Len(s) # 0 PROVE FALSE
    OBVIOUS
  <2>1. s[1] \in Range(s)
    BY <1>1 DEF Range
  <2> QED BY <2>1
<1> QED BY <1>2

\* Moving e to the end: every other element stays, none appears.
ToEnd(s, e) == Append(RemoveFirst(s, e), e)

LEMMA MovedLast ==
  ASSUME NEW S, NEW s \in Seq(S), NEW e \in S
  PROVE  /\ ToEnd(s, e) \in Seq(S) /\ Len(ToEnd(s, e)) \in {Len(s), Len(s) + 1}
         /\ ToEnd(s, e)[Len(ToEnd(s, e))] = e
         /\ Range(ToEnd(s, e)) = Range(s) \cup {e}
         /\ e \in Range(s) => Len(ToEnd(s, e)) = Len(s)
<1> DEFINE m == ToEnd(s, e)
           r == RemoveFirst(s, e)
<1>1. /\ r \in Seq(S)
      /\ \/ r = s /\ \A i \in 1..Len(s) : s[i] # e
         \/ \E i \in 1..Len(s) :
              /\ s[i] = e /\ Len(r) = Len(s) - 1
              /\ \A j \in 1..Len(r) : r[j] = IF j < i THEN s[j] ELSE s[j + 1]
  BY RemoveFirstFacts
<1>2. m = Append(r, e)
  BY DEF ToEnd
<1> HIDE DEF m, r
<1>3. /\ m \in Seq(S) /\ Len(m) = Len(r) + 1 /\ m[Len(m)] = e
      /\ \A j \in 1..Len(r) : m[j] = r[j]
  BY <1>1, <1>2
<1>4. Len(s) \in Nat /\ Len(r) \in Nat /\ Len(m) \in 1..Len(m)
  BY <1>1, <1>3
<1>5. ASSUME r = s, \A i \in 1..Len(s) : s[i] # e
      PROVE  /\ Len(m) = Len(s) + 1
             /\ \A p : (\E i \in 1..Len(m) : m[i] = p) <=> (p = e \/ \E i \in 1..Len(s) : s[i] = p)
  <2>1. 1..Len(m) = (1..Len(s)) \cup {Len(m)}
    BY <1>3, <1>4, <1>5
  <2>2. \A i \in 1..Len(s) : m[i] = s[i]
    BY <1>3, <1>5
  <2> QED BY <1>3, <1>4, <1>5, <2>1, <2>2
<1>6. ASSUME NEW i \in 1..Len(s), s[i] = e, Len(r) = Len(s) - 1,
             \A j \in 1..Len(r) : r[j] = IF j < i THEN s[j] ELSE s[j + 1]
      PROVE  /\ Len(m) = Len(s)
             /\ \A p : (\E j \in 1..Len(m) : m[j] = p) <=> (p = e \/ \E j \in 1..Len(s) : s[j] = p)
  <2> DEFINE at(j) == IF j < i THEN j ELSE j + 1
  <2>1. Len(m) = Len(s)
    BY <1>3, <1>4, <1>6
  <2>2. \A j \in 1..Len(r) : at(j) \in (1..Len(s)) \ {i} /\ m[j] = s[at(j)]
    BY <1>3, <1>4, <1>6
  <2>3. ASSUME NEW p, NEW j \in 1..Len(m), m[j] = p
        PROVE  p = e \/ \E l \in 1..Len(s) : s[l] = p
    <3>1. CASE j = Len(m)
      BY <1>3, <2>3, <3>1
    <3>2. CASE j \in 1..Len(r)
      BY <2>2, <2>3, <3>2
    <3> QED BY <1>3, <1>4, <3>1, <3>2
  <2>4. ASSUME NEW p, NEW j \in 1..Len(s), s[j] = p
        PROVE  \E l \in 1..Len(m) : m[l] = p
    <3>1. CASE j < i
      <4>1. j \in 1..Len(r) /\ m[j] = s[j] /\ j \in 1..Len(m)
        BY <1>3, <1>4, <1>6, <3>1
      <4> QED BY <2>4, <4>1
    <3>2. CASE j = i
      BY <1>3, <1>4, <1>6, <2>4, <3>2
    <3>3. CASE j > i
      <4>1. j - 1 \in 1..Len(r) /\ j - 1 \in 1..Len(m) /\ at(j - 1) = j
        BY <1>3, <1>4, <1>6, <3>3
      <4> QED BY <2>2, <2>4, <4>1
    <3> QED BY <3>1, <3>2, <3>3
  <2>5. \E l \in 1..Len(m) : m[l] = e
    BY <1>3, <1>4
  <2> QED BY <2>1, <2>3, <2>4, <2>5
<1>7. \A p : (\E i \in 1..Len(m) : m[i] = p) <=> (p = e \/ \E i \in 1..Len(s) : s[i] = p)
  BY <1>1, <1>5, <1>6
<1>8. (\E i \in 1..Len(s) : s[i] = e) => Len(m) = Len(s)
  BY <1>1, <1>5, <1>6
<1>9. Len(m) \in {Len(s), Len(s) + 1}
  BY <1>1, <1>3, <1>4, <1>5, <1>6
<1>10. \A p : p \in Range(m) <=> p = e \/ p \in Range(s)
  BY <1>3, <1>7, RangeIs
<1>11. Range(m) = Range(s) \cup {e}
  BY <1>10
<1>12. e \in Range(s) => Len(m) = Len(s)
  BY <1>8, RangeIs
<1> QED BY <1>3, <1>9, <1>11, <1>12 DEF m

\* An LRU whose keys are distinct loses exactly k.
LEMMA RemoveOnly ==
  ASSUME NEW S, NEW s \in Seq(S), IsInjective(s), NEW e, NEW r, r = RemoveFirst(s, e)
  PROVE  r \in Seq(S) /\ Len(r) <= Len(s) /\ IsInjective(r) /\ Range(r) = Range(s) \ {e}
<1>1. /\ r \in Seq(S)
      /\ \/ r = s /\ \A i \in 1..Len(s) : s[i] # e
         \/ \E i \in 1..Len(s) :
              /\ s[i] = e /\ Len(r) = Len(s) - 1
              /\ \A j \in 1..Len(r) : r[j] = IF j < i THEN s[j] ELSE s[j + 1]
  BY RemoveFirstFacts
<1>2. /\ DOMAIN s = 1..Len(s) /\ DOMAIN r = 1..Len(r) /\ Len(s) \in Nat /\ Len(r) \in Nat
      /\ \A j, l \in 1..Len(s) : s[j] = s[l] => j = l
  BY <1>1 DEF IsInjective
<1>3. /\ \A x : x \in Range(s) <=> \E j \in 1..Len(s) : s[j] = x
      /\ \A x : x \in Range(r) <=> \E j \in 1..Len(r) : r[j] = x
  BY <1>2 DEF Range
<1>4. CASE r = s /\ \A i \in 1..Len(s) : s[i] # e
  BY <1>2, <1>4, <1>3
<1>5. ASSUME NEW i \in 1..Len(s), s[i] = e, Len(r) = Len(s) - 1,
             \A j \in 1..Len(r) : r[j] = IF j < i THEN s[j] ELSE s[j + 1]
      PROVE  Len(r) <= Len(s) /\ IsInjective(r) /\ Range(r) = Range(s) \ {e}
  <2> DEFINE at(j) == IF j < i THEN j ELSE j + 1
  <2>1. \A j \in 1..Len(r) : at(j) \in (1..Len(s)) \ {i} /\ r[j] = s[at(j)]
    BY <1>2, <1>5
  <2>2. \A j, l \in 1..Len(r) : at(j) = at(l) => j = l
    BY <1>2
  <2>3. ASSUME NEW j \in 1..Len(s), j # i PROVE \E l \in 1..Len(r) : r[l] = s[j]
    <3>1. CASE j < i
      <4>1. j \in 1..Len(r) /\ r[j] = s[j]
        BY <1>2, <1>5, <3>1
      <4> QED BY <4>1
    <3>2. CASE j > i
      <4>1. j - 1 \in 1..Len(r) /\ at(j - 1) = j
        BY <1>2, <1>5, <3>2
      <4> QED BY <2>1, <4>1
    <3> QED BY <2>3, <3>1, <3>2
  <2> HIDE DEF at
  <2>4. \A j \in 1..Len(r) : r[j] \in Range(s) \ {e}
    BY <1>2, <1>5, <1>3, <2>1
  <2>5. \A x \in Range(s) \ {e} : x \in Range(r)
    BY <1>5, <1>3, <2>3
  <2>6. Range(r) = Range(s) \ {e}
    BY <1>3, <2>4, <2>5
  <2>7. IsInjective(r)
    BY <1>2, <2>1, <2>2 DEF IsInjective
  <2> QED BY <1>2, <1>5, <2>6, <2>7
<1> QED BY <1>1, <1>4, <1>5

LEMMA MovedDistinct ==
  ASSUME NEW S, NEW s \in Seq(S), IsInjective(s), NEW e \in S
  PROVE  IsInjective(ToEnd(s, e))
<1> DEFINE r == RemoveFirst(s, e)
<1>1. r \in Seq(S) /\ IsInjective(r) /\ Range(r) = Range(s) \ {e}
  BY RemoveOnly
<1>2. ToEnd(s, e) = Append(r, e)
  BY DEF ToEnd
<1> HIDE DEF r
<1>3. /\ DOMAIN r = 1..Len(r) /\ Len(r) \in Nat /\ DOMAIN Append(r, e) = 1..(Len(r) + 1)
      /\ Append(r, e)[Len(r) + 1] = e /\ \A i \in 1..Len(r) : Append(r, e)[i] = r[i]
  BY <1>1
<1>4. \A i \in 1..Len(r) : r[i] # e
  BY <1>1, <1>3 DEF Range
<1>5. \A i, j \in 1..Len(r) : r[i] = r[j] => i = j
  BY <1>1, <1>3 DEF IsInjective
<1>6. \A i \in 1..(Len(r) + 1) : i \in 1..Len(r) \/ i = Len(r) + 1
  BY <1>3
<1> QED BY <1>2, <1>3, <1>4, <1>5, <1>6 DEF IsInjective

\* The newest n elements: all of them, or n.
LEMMA NewestFacts ==
  ASSUME NEW S, NEW s \in Seq(S), NEW n \in Nat \ {0}, NEW w, w = Newest(s, n)
  PROVE  /\ w \in Seq(S)
         /\ (w = s /\ Len(s) <= n) \/ (Len(w) = n /\ Len(s) > n)
         /\ Len(s) > 0 => s[Len(s)] \in Range(w)
<1>1. Len(s) \in Nat
  OBVIOUS
<1>2. CASE Len(s) <= n
  <2>1. w = SubSeq(s, 1, Len(s))
    <3>1. ~(Len(s) > n)
      BY <1>2, <1>1
    <3> QED BY <3>1, Zenon DEF Newest
  <2>2. w = s
    BY <2>1
  <2>3. Len(s) > 0 => s[Len(s)] \in Range(s)
    BY <1>1, RangeIs
  <2> QED BY <1>2, <2>2, <2>3
<1>3. CASE Len(s) > n
  <2>1. w = SubSeq(s, Len(s) - n + 1, Len(s))
    BY <1>3 DEF Newest
  <2>2. Len(s) - n + 1 \in 1..Len(s)
    BY <1>3
  <2>3. w \in Seq(S) /\ Len(w) = n
    BY <2>1, <2>2
  <2>4. w[n] = s[(Len(s) - n + 1) + n - 1]
    BY <2>1, <2>2, <2>3
  <2>5. (Len(s) - n + 1) + n - 1 = Len(s)
    OBVIOUS
  <2>6. w[n] \in Range(w)
    BY <2>3, RangeIs
  <2> QED BY <1>3, <2>3, <2>4, <2>5, <2>6
<1> QED BY <1>2, <1>3, <1>1

-----------------------------------------------------------------------------
\* The backend.

\* The LRU knows the keys it holds, each once.
Ordered == /\ order \in Seq(Keys) /\ IsInjective(order) /\ Len(order) <= MaxSize
           /\ Range(order) = IF backend = "memory" THEN {k \in Keys : kv[k] # Nothing} ELSE {}

\* The entries change within their type; raises may go up.
Sound == /\ kv' \in [Keys -> Entries \cup {Nothing}] /\ Ordered'
         /\ raises' \in raises..MaxRaises

\* No entry appears.
Shrunk == \A k \in Keys : kv'[k] \in {kv[k], Nothing}

LEMMA Numbers ==
  /\ MaxSize \in Nat \ {0} /\ ZCap \in Nat \ {0} /\ ZCount \in Nat \ {0}
  /\ ExactTtl \in Nat /\ SemanticTtl \in Nat /\ SemanticTtl <= ExactTtl
  /\ MaxNow \in Nat /\ MaxRaises \in Nat /\ MaxVersion \in Nat /\ MaxAsks \in Nat
  /\ Never = MaxNow + ExactTtl + 1 /\ Never \in Nat
BY AnswerCacheAssumption DEF Never

\* The keys after k was used.
LEMMA UsedFacts ==
  ASSUME TypeOK, NEW k \in Keys, NEW used, used = ToEnd(order, k)
  PROVE  /\ used \in Seq(Keys) /\ IsInjective(used)
         /\ Len(used) \in {Len(order), Len(order) + 1} /\ used[Len(used)] = k
         /\ Range(used) = Range(order) \cup {k}
         /\ k \in Range(order) => Len(used) = Len(order)
<1>1. order \in Seq(Keys) /\ IsInjective(order)
  BY DEF TypeOK
<1>2. used \in Seq(Keys) /\ Len(used) \in {Len(order), Len(order) + 1}
  BY <1>1, MovedLast
<1>3. used[Len(used)] = k
  BY <1>1, MovedLast
<1>4. Range(used) = Range(order) \cup {k} /\ (k \in Range(order) => Len(used) = Len(order))
  BY <1>1, MovedLast
<1>5. IsInjective(used)
  BY <1>1, MovedDistinct
<1> QED BY <1>2, <1>3, <1>4, <1>5

LEMMA HitFacts ==
  ASSUME TypeOK, NEW k \in Keys, Hit(k)
  PROVE  kv' = kv /\ raises' = raises /\ kv[k] \in Entries /\ now <= kv[k].expires
         /\ (UNCHANGED backend => Ordered')
<1>1. kv[k] \in Entries /\ kv[k] # Nothing /\ kv' = kv /\ raises' = raises
  BY DEF TypeOK, Hit, Live, Touch
<1>2. kv[k].expires \in Nat /\ now \in Nat
  BY <1>1, Numbers DEF Entries, TypeOK
<1>3. now <= kv[k].expires
  BY <1>2 DEF Hit, Live
<1>4. ASSUME UNCHANGED backend PROVE Ordered'
  <2>1. CASE backend = "memory"
    <3> DEFINE used == ToEnd(order, k)
    <3>1. order' = used
      BY <2>1 DEF Hit, Touch, ToEnd
    <3>2. /\ used \in Seq(Keys) /\ IsInjective(used)
          /\ Range(used) = Range(order) \cup {k}
          /\ k \in Range(order) => Len(used) = Len(order)
      BY UsedFacts
    <3>3. Range(order) = {l \in Keys : kv[l] # Nothing} /\ k \in Range(order)
      BY <1>1, <2>1 DEF TypeOK
    <3> HIDE DEF used
    <3>4. Range(used) = {l \in Keys : kv[l] # Nothing}
      BY <3>2, <3>3
    <3>5. Len(used) <= MaxSize
      BY <3>2, <3>3 DEF TypeOK
    <3> QED BY <1>1, <1>4, <2>1, <3>1, <3>2, <3>4, <3>5 DEF Ordered
  <2>2. CASE backend # "memory"
    BY <1>1, <1>4, <2>2 DEF Hit, Touch, TypeOK, Ordered
  <2> QED BY <2>1, <2>2
<1> QED BY <1>1, <1>3, <1>4

LEMMA TailFacts ==
  ASSUME NEW S, NEW s \in Seq(S), IsInjective(s), Len(s) > 0, NEW r, r = Tail(s)
  PROVE  r \in Seq(S) /\ Len(r) = Len(s) - 1 /\ IsInjective(r) /\ Range(r) = Range(s) \ {Head(s)}
<1>1. /\ r \in Seq(S) /\ Len(r) = Len(s) - 1 /\ Head(s) = s[1] /\ Len(s) \in Nat
      /\ DOMAIN s = 1..Len(s) /\ DOMAIN r = 1..Len(r) /\ \A i \in 1..Len(r) : r[i] = s[i + 1]
  OBVIOUS
<1>2. \A i, j \in 1..Len(s) : s[i] = s[j] => i = j
  BY <1>1 DEF IsInjective
<1>3. IsInjective(r)
  BY <1>1, <1>2 DEF IsInjective
<1>4. \A i \in 1..Len(r) : r[i] \in Range(s) \ {Head(s)}
  <2>1. \A i \in 1..Len(r) : i + 1 \in 1..Len(s) /\ i + 1 # 1
    BY <1>1
  <2>2. 1 \in 1..Len(s)
    BY <1>1
  <2> QED BY <1>1, <1>2, <2>1, <2>2, RangeIs
<1>5. ASSUME NEW x \in Range(s), x # Head(s) PROVE x \in Range(r)
  <2>1. PICK i \in 1..Len(s) : s[i] = x
    BY RangeIs
  <2>2. i - 1 \in 1..Len(r) /\ (i - 1) + 1 = i
    BY <1>1, <1>5, <2>1
  <2>3. r[i - 1] = x
    BY <1>1, <2>1, <2>2
  <2>4. r[i - 1] \in Range(r)
    BY <1>1, <2>2, RangeIs
  <2> QED BY <2>3, <2>4
<1>6. \A x \in Range(r) : x \in Range(s) \ {Head(s)}
  BY <1>1, <1>4 DEF Range
<1>7. Range(r) = Range(s) \ {Head(s)}
  BY <1>5, <1>6
<1> QED BY <1>1, <1>3, <1>7

LEMMA RaiseFacts ==
  ASSUME TypeOK, Raise
  PROVE  backend = "redis" /\ raises' \in raises..MaxRaises /\ raises' > 0
BY Numbers DEF TypeOK, Raise

LEMMA UnchangedIsSound ==
  ASSUME TypeOK, UNCHANGED <<entries, backend>>
  PROVE  kv' = kv /\ Ordered'
BY DEF TypeOK, Ordered, entries

LEMMA MissFacts ==
  ASSUME TypeOK, NEW k \in Keys, Miss(k), UNCHANGED backend
  PROVE  Sound /\ Shrunk
<1>1. /\ kv \in [Keys -> Entries \cup {Nothing}] /\ raises \in 0..MaxRaises
      /\ order \in Seq(Keys) /\ IsInjective(order) /\ Len(order) <= MaxSize
      /\ Range(order) = IF backend = "memory" THEN {l \in Keys : kv[l] # Nothing} ELSE {}
  BY DEF TypeOK
<1>2. CASE Drop(k) /\ UNCHANGED raises
  <2>1. /\ kv' \in [Keys -> Entries \cup {Nothing}]
        /\ \A l \in Keys : kv'[l] = IF l = k THEN Nothing ELSE kv[l]
    BY <1>1, <1>2 DEF Drop
  <2>2. /\ order' \in Seq(Keys) /\ Len(order') <= Len(order) /\ IsInjective(order')
        /\ Range(order') = Range(order) \ {k}
    BY <1>1, <1>2, RemoveOnly DEF Drop
  <2>3. Len(order') <= MaxSize
    BY <1>1, <2>2, Numbers
  <2>4. Range(order') = IF backend = "memory" THEN {l \in Keys : kv'[l] # Nothing} ELSE {}
    BY <1>1, <2>1, <2>2
  <2>5. Shrunk
    BY <2>1 DEF Shrunk
  <2>6. Ordered'
    BY <2>2, <2>3, <2>4 DEF Ordered
  <2>7. raises' \in raises..MaxRaises
    BY <1>1, <1>2, Numbers
  <2> QED BY <2>1, <2>5, <2>6, <2>7 DEF Sound
<1>3. CASE Raise /\ UNCHANGED entries
  <2>1. kv' = kv /\ Ordered'
    BY <1>3, UnchangedIsSound
  <2> QED BY <1>1, <1>3, <2>1, RaiseFacts DEF Sound, Shrunk
<1> QED BY <1>2, <1>3 DEF Miss

\* set leaves entry under k, unless it raises, and may evict others.
LEMMA PutFacts ==
  ASSUME TypeOK, NEW k \in Keys, NEW a \in Answers, NEW ttl \in 0..ExactTtl,
         Put(k, a, ttl), UNCHANGED backend
  PROVE  /\ Sound
         /\ \A l \in Keys : \/ kv'[l] \in {kv[l], Nothing}
                            \/ l = k /\ kv'[l] = [expires |-> now + ttl, answer |-> a]
<1> DEFINE entry == [expires |-> now + ttl, answer |-> a]
           used == ToEnd(order, k)
<1>1. /\ kv \in [Keys -> Entries \cup {Nothing}] /\ raises \in 0..MaxRaises
      /\ order \in Seq(Keys) /\ IsInjective(order) /\ Len(order) <= MaxSize
      /\ Range(order) = IF backend = "memory" THEN {l \in Keys : kv[l] # Nothing} ELSE {}
  BY DEF TypeOK
<1>2. entry \in Entries /\ entry # Nothing
  <2>1. now + ttl \in 0..Never
    BY Numbers DEF TypeOK
  <2>2. entry \in Entries
    BY <2>1 DEF Entries
  <2> QED BY <2>2, AnswerCacheAssumption
<1>3. /\ used \in Seq(Keys) /\ IsInjective(used)
      /\ Len(used) \in {Len(order), Len(order) + 1} /\ used[Len(used)] = k
      /\ Range(used) = Range(order) \cup {k}
  BY UsedFacts
<1>4. ASSUME Store(k, entry), UNCHANGED raises
      PROVE  Sound /\ \A l \in Keys : kv'[l] \in {kv[l], Nothing} \/ (l = k /\ kv'[l] = entry)
  <2> HIDE DEF entry
  <2>1. Store(k, entry) <=>
          \/ /\ backend = "memory" /\ Len(used) <= MaxSize
             /\ kv' = [kv EXCEPT ![k] = entry] /\ order' = used
          \/ /\ backend = "memory" /\ Len(used) > MaxSize
             /\ kv' = [kv EXCEPT ![k] = entry, ![Head(used)] = Nothing] /\ order' = Tail(used)
          \/ /\ backend = "redis"
             /\ kv' = [kv EXCEPT ![k] = entry] /\ UNCHANGED order
    BY DEF Store, ToEnd
  <2> HIDE DEF used
  <2>2. raises' \in raises..MaxRaises
    BY <1>1, <1>4, Numbers
  <2>3. CASE /\ backend = "memory" /\ Len(used) <= MaxSize
             /\ kv' = [kv EXCEPT ![k] = entry] /\ order' = used
    <3>1. /\ kv' \in [Keys -> Entries \cup {Nothing}]
          /\ \A l \in Keys : kv'[l] = IF l = k THEN entry ELSE kv[l]
      BY <1>1, <1>2, <2>3
    <3>2. Range(order') = {l \in Keys : kv'[l] # Nothing}
      BY <1>1, <1>2, <1>3, <2>3, <3>1
    <3>3. Ordered'
      BY <1>3, <2>3, <3>2 DEF Ordered
    <3>4. Sound
      BY <2>2, <3>1, <3>3 DEF Sound
    <3> QED BY <3>1, <3>4
  <2>4. CASE /\ backend = "memory" /\ Len(used) > MaxSize
             /\ kv' = [kv EXCEPT ![k] = entry, ![Head(used)] = Nothing] /\ order' = Tail(used)
    <3>1. Len(used) > 0 /\ Head(used) \in Keys
      BY <1>3, <2>4, Numbers
    <3>2. /\ kv' \in [Keys -> Entries \cup {Nothing}]
          /\ \A l \in Keys : kv'[l] = IF l = Head(used) THEN Nothing
                                      ELSE IF l = k THEN entry ELSE kv[l]
      BY <1>1, <1>2, <2>4, <3>1
    <3>3. /\ order' \in Seq(Keys) /\ Len(order') = Len(used) - 1 /\ IsInjective(order')
          /\ Range(order') = Range(used) \ {Head(used)}
      BY <1>3, <2>4, <3>1, TailFacts
    <3>4. Range(order') = {l \in Keys : kv'[l] # Nothing}
      <4>1. \A l : l \in Range(order') <=> l # Head(used) /\ l \in Keys /\ (kv[l] # Nothing \/ l = k)
        BY <1>1, <1>3, <2>4, <3>3
      <4>2. \A l \in Keys : kv'[l] # Nothing <=> l # Head(used) /\ (kv[l] # Nothing \/ l = k)
        BY <1>2, <3>2
      <4> QED BY <4>1, <4>2
    <3>5. Len(order') <= MaxSize
      BY <1>1, <1>3, <3>3, Numbers
    <3>6. Ordered'
      BY <2>4, <3>3, <3>4, <3>5 DEF Ordered
    <3>7. Sound
      BY <2>2, <3>2, <3>6 DEF Sound
    <3> QED BY <3>2, <3>7
  <2>5. CASE /\ backend = "redis"
             /\ kv' = [kv EXCEPT ![k] = entry] /\ UNCHANGED order
    <3>1. /\ kv' \in [Keys -> Entries \cup {Nothing}]
          /\ \A l \in Keys : kv'[l] = IF l = k THEN entry ELSE kv[l]
      BY <1>1, <1>2, <2>5
    <3>2. Ordered'
      BY <1>1, <2>5 DEF Ordered
    <3>3. Sound
      BY <2>2, <3>1, <3>2 DEF Sound
    <3> QED BY <3>1, <3>3
  <2> QED BY <1>4, <2>1, <2>3, <2>4, <2>5
<1>5. CASE Raise /\ UNCHANGED entries
  <2>1. kv' = kv /\ Ordered'
    BY <1>5, UnchangedIsSound
  <2> QED BY <1>1, <1>5, <2>1, RaiseFacts DEF Sound
<1> QED BY <1>4, <1>5 DEF Put

-----------------------------------------------------------------------------
\* Steps of a request.

\* Only the request of t changes.
Moved(t) == /\ req' \in [Threads -> Request]
            /\ \A u \in Threads : u # t => req'[u] = req[u]

\* What is stored was there, or is as it should be.
Kept == \A k \in Keys : kv'[k] \in {kv[k], Nothing} \/ Stored(k)'

LEMMA Fields ==
  ASSUME TypeOK, NEW t \in Threads
  PROVE  /\ req[t] \in Request /\ req[t].pc \in Pcs /\ req[t].query \in Queries \cup {Nothing}
         /\ req[t].members \in Seq(Queries) /\ req[t].answer \in Answers \cup {Nothing}
         /\ req[t].since \in 0..MaxNow /\ req[t].since \in Nat
BY Numbers DEF TypeOK, Request

LEMMA NoQuery == Nothing \notin Queries /\ Nothing \notin Answers /\ Nothing \notin Entries
BY AnswerCacheAssumption

LEMMA IdleIsTyped == Idle \in Request /\ Idle.pc = "idle" /\ Idle.answer = Nothing
BY Numbers DEF Idle, Request, Pcs

LEMMA GotoMoves ==
  ASSUME TypeOK, NEW t \in Threads, NEW pc \in Pcs, Goto(t, pc)
  PROVE  /\ Moved(t) /\ req'[t].pc = pc /\ req'[t].query = req[t].query
         /\ req'[t].answer = req[t].answer /\ req'[t].since = req[t].since
<1>1. req \in [Threads -> Request]
  BY DEF TypeOK
<1> QED BY <1>1 DEF Goto, Moved, Request

LEMMA FinishMoves ==
  ASSUME TypeOK, NEW t \in Threads, Finish(t)
  PROVE  Moved(t) /\ req'[t] = Idle
<1>1. req \in [Threads -> Request]
  BY DEF TypeOK
<1> QED BY <1>1, IdleIsTyped DEF Finish, Moved

\* A step of t that leaves the world alone has to see to its own request and to the index.
LEMMA StepFrame ==
  ASSUME CInv, NEW t \in Threads, Moved(t), Holds(t)', Sound, Kept, Indexed',
         z' \in Seq(Queries), Len(z') <= ZCap + raises', zExpires' \in 0..Never,
         UNCHANGED world
  PROVE  CInv'
<1>1. /\ backend' = backend /\ corpus' = corpus /\ copies' = copies /\ retired' = retired /\ now' = now
      /\ asks' = asks
  BY DEF world
<1>2. TypeOK'
  <2>1. /\ backend' \in Backends /\ corpus' \in 1..MaxVersion /\ now' \in 0..MaxNow
        /\ copies' \subseteq 1..(corpus' - 1) /\ retired' \in [1..MaxVersion -> 0..Never] /\ asks' \in 0..MaxAsks
    BY <1>1 DEF CInv, TypeOK
  <2>2. raises' \in 0..MaxRaises /\ kv' \in [Keys -> Entries \cup {Nothing}]
    BY Numbers DEF CInv, TypeOK, Sound
  <2>3. Ordered'
    BY DEF Sound
  <2>4. req' \in [Threads -> Request]
    BY DEF Moved
  <2> QED BY <2>1, <2>2, <2>3, <2>4 DEF TypeOK, Ordered
<1>3. InForce'
  BY <1>1 DEF CInv, InForce
<1>4. ASSUME NEW k \in Keys PROVE Stored(k)'
  <2>1. Stored(k)
    BY DEF CInv
  <2>2. kv'[k] \in {kv[k], Nothing} \/ Stored(k)'
    BY DEF Kept
  <2> QED BY <1>1, <2>1, <2>2 DEF Stored
<1>5. ASSUME NEW u \in Threads PROVE Holds(u)'
  <2>1. CASE u = t
    BY <2>1
  <2>2. CASE u # t
    <3>1. Holds(u) /\ req'[u] = req[u]
      BY <2>2 DEF CInv, Moved
    <3> QED BY <1>1, <3>1 DEF Holds
  <2> QED BY <2>1, <2>2
<1> QED BY <1>2, <1>3, <1>4, <1>5 DEF CInv

\* The index stays as it is, and no entry appears that nobody is about to add.
LEMMA IndexKept ==
  ASSUME CInv, NEW t \in Threads, Moved(t), Sound, UNCHANGED <<index, backend>>,
         raises = 0 => req[t].pc # "zadd",
         \A q \in Queries : \/ kv'[<<"entry", q>>] \in {kv[<<"entry", q>>], Nothing}
                            \/ Adding(t, q)'
  PROVE  /\ Indexed' /\ z' \in Seq(Queries) /\ Len(z') <= ZCap + raises' /\ zExpires' \in 0..Never
<1>1. z' = z /\ zExpires' = zExpires /\ backend' = backend
  BY DEF index
<1>2. raises' \in raises..MaxRaises /\ raises \in Nat
  BY Numbers DEF Sound, CInv, TypeOK
<1>3. z' \in Seq(Queries) /\ Len(z') <= ZCap + raises' /\ zExpires' \in 0..Never
  BY <1>1, <1>2, Numbers DEF CInv, TypeOK
<1>4. ASSUME raises' = 0, NEW q \in Queries, kv'[<<"entry", q>>] # Nothing
      PROVE  \/ \E u \in Threads : Adding(u, q)'
             \/ Member(q)' /\ (backend' = "redis" => kv'[<<"entry", q>>].expires <= zExpires')
  <2>1. raises = 0
    BY <1>2, <1>4
  <2>2. CASE kv'[<<"entry", q>>] = kv[<<"entry", q>>]
    <3>1. \/ \E u \in Threads : Adding(u, q)
          \/ Member(q) /\ (backend = "redis" => kv[<<"entry", q>>].expires <= zExpires)
      BY <1>4, <2>1, <2>2 DEF CInv, Indexed
    <3>2. CASE \E u \in Threads : Adding(u, q)
      <4>1. PICK u \in Threads : Adding(u, q)
        BY <3>2
      <4>2. u # t
        BY <2>1, <4>1 DEF Adding
      <4>3. Adding(u, q)'
        BY <4>1, <4>2 DEF Adding, Moved
      <4> QED BY <4>3
    <3>3. CASE Member(q) /\ (backend = "redis" => kv[<<"entry", q>>].expires <= zExpires)
      BY <1>1, <2>2, <3>3 DEF Member
    <3> QED BY <3>1, <3>2, <3>3
  <2>3. CASE Adding(t, q)'
    BY <2>3
  <2> QED BY <1>4, <2>2, <2>3
<1>5. Indexed'
  BY <1>4 DEF Indexed
<1> QED BY <1>3, <1>5

LEMMA ShrunkKeeps ==
  ASSUME Shrunk
  PROVE  Kept /\ \A q \in Queries : kv'[<<"entry", q>>] \in {kv[<<"entry", q>>], Nothing}
BY DEF Shrunk, Kept, Keys

\* The entry of a hit is to its own question, and found in time.
LEMMA FoundInTime ==
  ASSUME CInv, NEW t \in Threads, req[t].pc # "idle", NEW k \in Keys, Hit(k)
  PROVE  /\ kv[k].answer \in Answers /\ kv[k].answer # Nothing /\ kv[k].answer.query = k[2]
         /\ kv[k].answer.version <= corpus
         /\ req[t].since <= retired[kv[k].answer.version] + ExactTtl + 1
<1>1. TypeOK /\ Holds(t) /\ Stored(k)
  BY DEF CInv
<1>2. kv[k] \in Entries /\ now <= kv[k].expires /\ kv[k] # Nothing
  BY <1>1, HitFacts, NoQuery
<1>3. kv[k].answer \in Answers /\ kv[k].expires \in Nat /\ kv[k].answer.version \in 1..MaxVersion
  BY <1>2, Numbers DEF Entries, Answers
<1>4. /\ kv[k].answer.query = k[2] /\ kv[k].answer.version <= corpus
      /\ kv[k].expires <= retired[kv[k].answer.version] + ExactTtl + 1
  BY <1>1, <1>2 DEF Stored
<1>5. req[t].since <= now /\ req[t].since \in Nat /\ now \in Nat
  <2>1. req[t].since <= now
    BY <1>1 DEF Holds
  <2>2. req[t].since \in Nat
    BY <1>1, Fields
  <2>3. now \in Nat
    BY <1>1, Numbers DEF TypeOK
  <2> QED BY <2>1, <2>2, <2>3
<1>6. retired[kv[k].answer.version] + ExactTtl + 1 \in Nat
  <2>1. retired[kv[k].answer.version] \in Nat
    BY <1>1, <1>3, Numbers DEF TypeOK
  <2> QED BY <2>1, Numbers
<1>7. req[t].since <= retired[kv[k].answer.version] + ExactTtl + 1
  BY <1>2, <1>3, <1>4, <1>5, <1>6
<1> QED BY <1>3, <1>4, <1>7, NoQuery

LEMMA HitIsSound ==
  ASSUME TypeOK, NEW k \in Keys, Hit(k) \/ Miss(k), UNCHANGED world
  PROVE  Sound /\ Shrunk
<1>1. UNCHANGED backend
  BY DEF world
<1>2. CASE Hit(k)
  <2>1. kv' = kv /\ raises' = raises /\ Ordered'
    BY <1>1, <1>2, HitFacts
  <2>2. raises' \in raises..MaxRaises /\ kv' \in [Keys -> Entries \cup {Nothing}]
    BY <2>1, Numbers DEF TypeOK
  <2> QED BY <2>1, <2>2 DEF Sound, Shrunk
<1>3. CASE Miss(k)
  BY <1>1, <1>3, MissFacts
<1> QED BY <1>2, <1>3

LEMMA EntriesKept ==
  ASSUME TypeOK, UNCHANGED entries, UNCHANGED world, raises' \in raises..MaxRaises
  PROVE  Sound /\ Shrunk
BY UnchangedIsSound DEF Sound, Shrunk, world, TypeOK

\* A step of a request that is not about to add a member, and stores nothing.
LEMMA ReadStep ==
  ASSUME CInv, NEW t \in Threads, req[t].pc # "zadd", Moved(t), Holds(t)', Sound, Shrunk,
         UNCHANGED <<index, world>>
  PROVE  CInv'
<1>1. /\ Kept
      /\ \A q \in Queries : kv'[<<"entry", q>>] \in {kv[<<"entry", q>>], Nothing}
  BY ShrunkKeeps
<1>2. UNCHANGED <<index, backend>>
  BY DEF world
<1>3. /\ Indexed' /\ z' \in Seq(Queries) /\ Len(z') <= ZCap + raises' /\ zExpires' \in 0..Never
  BY <1>1, <1>2, IndexKept
<1> QED BY <1>1, <1>3, StepFrame

LEMMA IdleHolds ==
  ASSUME NEW t \in Threads, req'[t] = Idle
  PROVE  Holds(t)'
BY IdleIsTyped DEF Holds, Writing

LEMMA GetExactStep ==
  ASSUME CInv, NEW t \in Threads, GetExact(t)
  PROVE  CInv'
<1> DEFINE k == <<"answer", req[t].query>>
<1>1. TypeOK /\ Holds(t)
  BY DEF CInv
<1>2. /\ req[t].pc = "exact" /\ req[t].query \in Queries /\ k \in Keys
      /\ req[t].since <= now /\ now <= req[t].since + 1 /\ req[t].answer = Nothing
  BY <1>1 DEF GetExact, Holds, Keys
<1>3. now' = now /\ corpus' = corpus /\ copies' = copies /\ retired' = retired
  BY DEF GetExact, world
<1>4. Sound /\ Shrunk
  BY <1>1, <1>2, HitIsSound DEF GetExact
<1>5. CASE Hit(k) /\ req' = [req EXCEPT ![t].pc = "hit", ![t].answer = kv[k].answer]
  <2>1. /\ kv[k].answer \in Answers /\ kv[k].answer.query = req[t].query
        /\ kv[k].answer.version <= corpus
        /\ req[t].since <= retired[kv[k].answer.version] + ExactTtl + 1
    BY <1>2, <1>5, FoundInTime
  <2>2. /\ req'[t] = [req[t] EXCEPT !.pc = "hit", !.answer = kv[k].answer]
        /\ \A u \in Threads : u # t => req'[u] = req[u]
        /\ DOMAIN req' = Threads /\ req' = [u \in Threads |-> req'[u]]
    BY <1>1, <1>5 DEF TypeOK
  <2>3. req'[t] \in Request
    BY <1>1, <2>1, <2>2, Fields DEF Request, Pcs
  <2>4. /\ req'[t].pc = "hit" /\ req'[t].query = req[t].query
        /\ req'[t].answer = kv[k].answer /\ req'[t].since = req[t].since
    BY <1>1, <2>2, Fields DEF Request
  <2>5. Moved(t)
    BY <1>1, <2>2, <2>3 DEF Moved, TypeOK
  <2>6. Holds(t)'
    BY <1>2, <1>3, <2>1, <2>4 DEF Holds, Close, Writing
  <2> QED BY <1>2, <1>4, <2>5, <2>6, ReadStep DEF GetExact
<1>6. CASE Miss(k) /\ Goto(t, "members")
  <2>1. /\ Moved(t) /\ req'[t].pc = "members" /\ req'[t].query = req[t].query
        /\ req'[t].answer = req[t].answer /\ req'[t].since = req[t].since
    BY <1>1, <1>6, GotoMoves DEF Pcs
  <2>2. Holds(t)'
    BY <1>2, <1>3, <2>1 DEF Holds, Writing
  <2> QED BY <1>2, <1>4, <2>1, <2>2, ReadStep DEF GetExact
<1> QED BY <1>5, <1>6 DEF GetExact

LEMMA GetMembersStep ==
  ASSUME CInv, NEW t \in Threads, GetMembers(t)
  PROVE  CInv'
<1>1. TypeOK /\ Holds(t)
  BY DEF CInv
<1>2. /\ req[t].pc = "members" /\ req[t].query \in Queries
      /\ req[t].since <= now /\ now <= req[t].since + 1 /\ req[t].answer = Nothing
  BY <1>1 DEF GetMembers, Holds
<1>3. now' = now /\ corpus' = corpus /\ copies' = copies /\ retired' = retired
  BY DEF GetMembers, world
<1>4. raises' \in raises..MaxRaises
  <2>1. CASE UNCHANGED raises
    BY <1>1, <2>1, Numbers DEF TypeOK
  <2>2. CASE Raise
    BY <1>1, <2>2, RaiseFacts
  <2> QED BY <2>1, <2>2 DEF GetMembers
<1>5. Sound /\ Shrunk
  BY <1>1, <1>4, EntriesKept DEF GetMembers
<1>6. Moved(t) /\ req'[t].pc = "scan" /\ req'[t].query = req[t].query
      /\ req'[t].answer = req[t].answer /\ req'[t].since = req[t].since
  <2>1. CASE req' = [req EXCEPT ![t].pc = "scan", ![t].members = Newest(z, ZCount)]
    <3>1. Newest(z, ZCount) \in Seq(Queries)
      BY <1>1, NewestFacts, Numbers DEF TypeOK
    <3>2. /\ req'[t] = [req[t] EXCEPT !.pc = "scan", !.members = Newest(z, ZCount)]
          /\ \A u \in Threads : u # t => req'[u] = req[u]
          /\ DOMAIN req' = Threads /\ req' = [u \in Threads |-> req'[u]]
      BY <1>1, <2>1 DEF TypeOK
    <3>3. req'[t] \in Request
      BY <1>1, <3>1, <3>2, Fields DEF Request, Pcs
    <3>4. /\ req'[t].pc = "scan" /\ req'[t].query = req[t].query
          /\ req'[t].answer = req[t].answer /\ req'[t].since = req[t].since
      BY <1>1, <3>2, Fields DEF Request
    <3>5. Moved(t)
      BY <1>1, <3>2, <3>3 DEF Moved, TypeOK
    <3> QED BY <3>4, <3>5
  <2>2. CASE Goto(t, "scan")
    BY <1>1, <2>2, GotoMoves DEF Pcs
  <2> QED BY <2>1, <2>2 DEF GetMembers
<1>7. Holds(t)'
  BY <1>2, <1>3, <1>6 DEF Holds, Writing
<1> QED BY <1>2, <1>5, <1>6, <1>7, ReadStep DEF GetMembers

LEMMA ScanMemberStep ==
  ASSUME CInv, NEW t \in Threads, ScanMember(t)
  PROVE  CInv'
<1> DEFINE p == Head(req[t].members)
           k == <<"entry", p>>
           rest == [req[t] EXCEPT !.members = Tail(@)]
<1>1. TypeOK /\ Holds(t)
  BY DEF CInv
<1>2. /\ req[t].pc = "scan" /\ req[t].query \in Queries
      /\ req[t].since <= now /\ now <= req[t].since + 1
  BY <1>1 DEF ScanMember, Holds
<1>3. p \in Queries /\ k \in Keys /\ Tail(req[t].members) \in Seq(Queries) /\ k[2] = p
  <2>1. req[t].members \in Seq(Queries) /\ req[t].members # <<>>
    BY <1>1, Fields DEF ScanMember
  <2> QED BY <2>1 DEF Keys
<1>4. now' = now /\ corpus' = corpus /\ copies' = copies /\ retired' = retired
  BY DEF ScanMember, world
<1>5. Sound /\ Shrunk
  BY <1>1, <1>3, HitIsSound DEF ScanMember
<1>6. /\ rest \in Request /\ rest.pc = "scan" /\ rest.query = req[t].query
      /\ rest.answer = req[t].answer /\ rest.since = req[t].since
  BY <1>1, <1>2, <1>3, Fields DEF Request
<1>7. \/ Hit(k) /\ Closer(t, p) /\ req' = [req EXCEPT ![t] = [rest EXCEPT !.answer = kv[k].answer]]
      \/ req' = [req EXCEPT ![t] = rest]
  BY DEF ScanMember
<1> HIDE DEF rest, k
<1>8. CASE Hit(k) /\ Closer(t, p) /\ req' = [req EXCEPT ![t] = [rest EXCEPT !.answer = kv[k].answer]]
  <2>1. /\ kv[k].answer \in Answers /\ kv[k].answer.query = p
        /\ kv[k].answer.version <= corpus
        /\ req[t].since <= retired[kv[k].answer.version] + ExactTtl + 1
    BY <1>2, <1>3, <1>8, FoundInTime
  <2>2. /\ req'[t] = [rest EXCEPT !.answer = kv[k].answer]
        /\ \A u \in Threads : u # t => req'[u] = req[u]
        /\ DOMAIN req' = Threads /\ req' = [u \in Threads |-> req'[u]]
    BY <1>1, <1>8 DEF TypeOK
  <2>3. req'[t] \in Request
    BY <1>6, <2>1, <2>2 DEF Request
  <2>4. /\ req'[t].pc = "scan" /\ req'[t].query = req[t].query
        /\ req'[t].answer = kv[k].answer /\ req'[t].since = req[t].since
    BY <1>6, <2>2 DEF Request
  <2>5. Moved(t)
    BY <1>1, <2>2, <2>3 DEF Moved, TypeOK
  <2>6. Close(req[t].query, p)
    BY <1>8 DEF Closer, Close
  <2>7. Holds(t)'
    BY <1>2, <1>4, <2>1, <2>4, <2>6 DEF Holds, Close, Writing
  <2> QED BY <1>2, <1>5, <2>5, <2>7, ReadStep DEF ScanMember
<1>9. CASE req' = [req EXCEPT ![t] = rest]
  <2>1. req'[t] = rest /\ Moved(t)
    BY <1>1, <1>6, <1>9 DEF Moved, TypeOK
  <2>2. Holds(t)'
    BY <1>1, <1>2, <1>4, <1>6, <2>1 DEF Holds, Close, Writing
  <2> QED BY <1>2, <1>5, <2>1, <2>2, ReadStep DEF ScanMember
<1> QED BY <1>7, <1>8, <1>9

LEMMA ServeHitStep ==
  ASSUME CInv, NEW t \in Threads, ServeHit(t)
  PROVE  CInv'
<1>1. TypeOK
  BY DEF CInv
<1>2. Moved(t) /\ Holds(t)'
  BY <1>1, FinishMoves, IdleHolds DEF ServeHit
<1>3. raises' \in raises..MaxRaises
  BY <1>1, Numbers DEF ServeHit, TypeOK
<1>4. Sound /\ Shrunk
  BY <1>1, <1>3, EntriesKept DEF ServeHit
<1>5. req[t].pc # "zadd"
  BY DEF ServeHit, Hitting
<1> QED BY <1>2, <1>4, <1>5, ReadStep DEF ServeHit

LEMMA GetSourcesStep ==
  ASSUME CInv, NEW t \in Threads, GetSources(t)
  PROVE  CInv'
<1>1. TypeOK /\ Holds(t)
  BY DEF CInv
<1>2. req[t].pc \in {"scan", "hit"} /\ req[t].query \in Queries
  BY <1>1 DEF GetSources, Hitting, Holds
<1>3. Moved(t) /\ Holds(t)'
  BY <1>1, FinishMoves, IdleHolds DEF GetSources
<1>4. <<"answer", req[t].query>> \in Keys
  BY <1>2 DEF Keys
<1>5. Sound /\ Shrunk
  BY <1>1, <1>4, HitIsSound DEF GetSources
<1> QED BY <1>2, <1>3, <1>5, ReadStep DEF GetSources

\* The answer generated is to the question asked, from documents that are not retired.
LEMMA RetrieveStep ==
  ASSUME CInv, NEW t \in Threads, Retrieve(t)
  PROVE  CInv'
<1>1. TypeOK /\ Holds(t)
  BY DEF CInv
<1>2. /\ req[t].pc = "scan" /\ req[t].query \in Queries
      /\ req[t].since <= now /\ now <= req[t].since + 1
  BY <1>1 DEF Retrieve, Holds
<1>3. now' = now /\ corpus' = corpus /\ copies' = copies /\ retired' = retired
  BY DEF Retrieve, world
<1>4. raises' \in raises..MaxRaises
  BY <1>1, Numbers DEF Retrieve, TypeOK
<1>5. Sound /\ Shrunk
  BY <1>1, <1>4, EntriesKept DEF Retrieve
<1>6. Moved(t) /\ Holds(t)'
  <2>1. CASE Finish(t)
    BY <1>1, <2>1, FinishMoves, IdleHolds
  <2>2. ASSUME NEW v \in Present,
               req' = [req EXCEPT ![t].pc = "setexact",
                         ![t].answer = [query |-> req[t].query, version |-> v]]
        PROVE  Moved(t) /\ Holds(t)'
    <3> DEFINE a == [query |-> req[t].query, version |-> v]
    <3>0. v \in 1..MaxVersion /\ v <= corpus /\ retired[v] = Never
      <4>1. corpus \in 1..MaxVersion /\ copies \subseteq 1..(corpus - 1)
        BY <1>1 DEF TypeOK
      <4>2. v \in 1..MaxVersion /\ v <= corpus /\ v \in copies \cup corpus..MaxVersion
        BY <2>2, <4>1, Numbers DEF Present
      <4> QED BY <4>2 DEF CInv, InForce
    <3>1. a \in Answers /\ a.query = req[t].query /\ a.version = v
      BY <1>2, <3>0 DEF Answers
    <3>2. /\ req'[t] = [req[t] EXCEPT !.pc = "setexact", !.answer = a]
          /\ \A u \in Threads : u # t => req'[u] = req[u]
          /\ DOMAIN req' = Threads /\ req' = [u \in Threads |-> req'[u]]
      BY <1>1, <2>2 DEF TypeOK
    <3> HIDE DEF a
    <3>3. req'[t] \in Request
      BY <1>1, <3>1, <3>2, Fields DEF Request, Pcs
    <3>4. /\ req'[t].pc = "setexact" /\ req'[t].query = req[t].query
          /\ req'[t].answer = a /\ req'[t].since = req[t].since
      BY <1>1, <3>2, Fields DEF Request
    <3>5. Moved(t)
      BY <1>1, <3>2, <3>3 DEF Moved, TypeOK
    <3>6. req[t].since <= retired[v]
      BY <1>1, <3>0, Fields, Numbers
    <3>7. Holds(t)'
      BY <1>2, <1>3, <3>0, <3>1, <3>4, <3>6 DEF Holds, Writing
    <3> QED BY <3>5, <3>7
  <2> QED BY <2>1, <2>2 DEF Retrieve
<1> QED BY <1>2, <1>5, <1>6, ReadStep DEF Retrieve

\* The entry that a request stores is as it should be.
LEMMA StoredIsSound ==
  ASSUME CInv, NEW t \in Threads, req[t].pc \in Writing, UNCHANGED world,
         NEW k \in Keys, k[2] = req[t].query,
         Put(k, req[t].answer, IF k[1] = "entry" THEN SemanticTtl ELSE ExactTtl)
  PROVE  Sound /\ Kept /\ \A l \in Keys : l = k \/ kv'[l] \in {kv[l], Nothing}
<1> DEFINE a   == req[t].answer
           ttl == IF k[1] = "entry" THEN SemanticTtl ELSE ExactTtl
<1>1. TypeOK /\ Holds(t)
  BY DEF CInv
<1>2. /\ a \in Answers /\ a.query = k[2] /\ a.version <= corpus
      /\ req[t].since <= retired[a.version] /\ now <= req[t].since + 1
  BY <1>1 DEF Holds, Writing
<1>3. UNCHANGED backend /\ now' = now /\ corpus' = corpus /\ copies' = copies /\ retired' = retired
  BY DEF world
<1>4. ttl \in 0..ExactTtl
  BY Numbers
<1>5. /\ Sound
      /\ \A l \in Keys : \/ kv'[l] \in {kv[l], Nothing}
                         \/ l = k /\ kv'[l] = [expires |-> now + ttl, answer |-> a]
  <2> HIDE DEF a, ttl
  <2>1. Put(k, a, ttl)
    BY DEF a, ttl
  <2> QED BY <1>1, <1>2, <1>3, <1>4, <2>1, PutFacts
<1>6. ASSUME kv'[k] = [expires |-> now + ttl, answer |-> a] PROVE Stored(k)'
  <2>1. a.version \in 1..MaxVersion
    BY <1>2 DEF Answers
  <2>2. retired[a.version] \in Nat /\ now \in Nat /\ req[t].since \in Nat
    <3>1. retired \in [1..MaxVersion -> 0..Never] /\ now \in Nat
      BY <1>1, Numbers DEF TypeOK
    <3>2. req[t].since \in Nat
      BY <1>1, Fields
    <3> HIDE DEF a
    <3>3. retired[a.version] \in 0..Never
      BY <2>1, <3>1
    <3> QED BY <3>1, <3>2, <3>3, Numbers
  <2> HIDE DEF a
  <2>3. now + ttl <= retired[a.version] + ExactTtl + 1
    BY <1>2, <1>4, <2>2, Numbers DEF a
  <2>4. kv'[k].expires = now + ttl /\ kv'[k].answer = a
    BY <1>6
  <2>5. now + ttl <= now + ttl
    BY <1>4, <2>2
  <2> QED BY <1>2, <1>3, <2>3, <2>4, <2>5 DEF Stored
<1>7. Kept
  BY <1>5, <1>6 DEF Kept
<1> QED BY <1>5, <1>7

\* A request that has stored goes on with the same answer.
LEMMA WritingGoesOn ==
  ASSUME CInv, NEW t \in Threads, req[t].pc \in Writing, UNCHANGED world,
         NEW pc \in {"setentry", "zadd"}, Goto(t, pc)
  PROVE  Moved(t) /\ Holds(t)' /\ req'[t].pc = pc /\ req'[t].query = req[t].query
<1>1. TypeOK /\ Holds(t) /\ pc \in Pcs /\ pc \in Writing
  BY DEF CInv, Pcs, Writing
<1>2. /\ Moved(t) /\ req'[t].pc = pc /\ req'[t].query = req[t].query
      /\ req'[t].answer = req[t].answer /\ req'[t].since = req[t].since
  BY <1>1, GotoMoves
<1>3. now' = now /\ corpus' = corpus /\ copies' = copies /\ retired' = retired
  BY DEF world
<1>4. /\ req[t].query \in Queries /\ req[t].since <= now /\ now <= req[t].since + 1
      /\ req[t].answer \in Answers /\ req[t].answer.query = req[t].query
      /\ req[t].answer.version <= corpus /\ req[t].since <= retired[req[t].answer.version]
  BY <1>1 DEF Holds, Writing
<1>5. pc # "idle" /\ pc \notin {"idle", "exact", "members"} /\ pc \notin {"scan", "hit"}
  OBVIOUS
<1>6. Holds(t)'
  BY <1>2, <1>3, <1>4, <1>5 DEF Holds
<1> QED BY <1>2, <1>6

LEMMA SetExactStep ==
  ASSUME CInv, NEW t \in Threads, SetExact(t)
  PROVE  CInv'
<1> DEFINE k == <<"answer", req[t].query>>
<1>1. req[t].pc = "setexact" /\ req[t].pc \in Writing /\ UNCHANGED world /\ Goto(t, "setentry")
  BY DEF SetExact, Writing
<1>2. k \in Keys /\ k[1] = "answer" /\ k[2] = req[t].query
  BY <1>1 DEF CInv, Holds, Keys
<1>3. Put(k, req[t].answer, IF k[1] = "entry" THEN SemanticTtl ELSE ExactTtl)
  BY <1>2 DEF SetExact
<1>4. Sound /\ Kept /\ \A l \in Keys : l = k \/ kv'[l] \in {kv[l], Nothing}
  <2> HIDE DEF k
  <2> QED BY <1>1, <1>2, <1>3, StoredIsSound
<1>5. Moved(t) /\ Holds(t)'
  BY <1>1, WritingGoesOn
<1>6. \A q \in Queries : kv'[<<"entry", q>>] \in {kv[<<"entry", q>>], Nothing}
  BY <1>4 DEF Keys
<1>7. UNCHANGED <<index, backend>>
  BY <1>1 DEF SetExact, world
<1>8. /\ Indexed' /\ z' \in Seq(Queries) /\ Len(z') <= ZCap + raises' /\ zExpires' \in 0..Never
  BY <1>1, <1>4, <1>5, <1>6, <1>7, IndexKept
<1> QED BY <1>1, <1>4, <1>5, <1>8, StepFrame

\* Between set and zadd the new entry has no member yet: its writer is about to add it.
LEMMA SetEntryStep ==
  ASSUME CInv, NEW t \in Threads, SetEntry(t)
  PROVE  CInv'
<1> DEFINE k == <<"entry", req[t].query>>
<1>1. req[t].pc = "setentry" /\ req[t].pc \in Writing /\ UNCHANGED world /\ Goto(t, "zadd")
  BY DEF SetEntry, Writing
<1>2. k \in Keys /\ k[1] = "entry" /\ k[2] = req[t].query
  BY <1>1 DEF CInv, Holds, Keys
<1>3. Put(k, req[t].answer, IF k[1] = "entry" THEN SemanticTtl ELSE ExactTtl)
  BY <1>2 DEF SetEntry
<1>4. Sound /\ Kept /\ \A l \in Keys : l = k \/ kv'[l] \in {kv[l], Nothing}
  <2> HIDE DEF k
  <2> QED BY <1>1, <1>2, <1>3, StoredIsSound
<1>5. Moved(t) /\ Holds(t)' /\ req'[t].pc = "zadd" /\ req'[t].query = req[t].query
  BY <1>1, WritingGoesOn
<1>6. ASSUME NEW q \in Queries
      PROVE  kv'[<<"entry", q>>] \in {kv[<<"entry", q>>], Nothing} \/ Adding(t, q)'
  <2>1. CASE q = req[t].query
    BY <1>5, <2>1 DEF Adding
  <2>2. CASE q # req[t].query
    BY <1>4, <2>2 DEF Keys
  <2> QED BY <2>1, <2>2
<1>7. UNCHANGED <<index, backend>>
  BY <1>1 DEF SetEntry, world
<1>8. /\ Indexed' /\ z' \in Seq(Queries) /\ Len(z') <= ZCap + raises' /\ zExpires' \in 0..Never
  BY <1>1, <1>4, <1>5, <1>6, <1>7, IndexKept
<1> QED BY <1>1, <1>4, <1>5, <1>8, StepFrame

\* The member added is in the index, and so are the others or the index is full.
LEMMA AddMemberFacts ==
  ASSUME TypeOK, NEW q \in Queries, AddMember(q), UNCHANGED world
  PROVE  /\ z' \in Seq(Queries) /\ Len(z') <= ZCap + raises' /\ zExpires' \in 0..Never
         /\ raises' \in raises..MaxRaises
         /\ raises' = 0 => /\ Member(q)' /\ \A p \in Queries : Member(p) => Member(p)'
                           /\ zExpires' = IF backend = "redis" THEN now + SemanticTtl ELSE zExpires
<1> DEFINE added == ToEnd(z, q)
           grown == Append(z, q)
           renewed == now + SemanticTtl
<1>1. /\ z \in Seq(Queries) /\ Len(z) <= ZCap + raises /\ raises \in Nat /\ Len(z) \in Nat
      /\ zExpires \in 0..Never /\ raises \in raises..MaxRaises
  BY Numbers DEF TypeOK
<1>2. renewed \in 0..Never
  BY Numbers DEF TypeOK
<1>3. /\ added \in Seq(Queries) /\ Len(added) \in {Len(z), Len(z) + 1}
      /\ Range(added) = Range(z) \cup {q} /\ added[Len(added)] = q /\ Len(added) > 0
  <2>1. /\ added \in Seq(Queries) /\ Len(added) \in {Len(z), Len(z) + 1}
        /\ Range(added) = Range(z) \cup {q} /\ added[Len(added)] = q
    BY <1>1, MovedLast
  <2>2. Len(added) > 0
    <3> HIDE DEF added
    <3>1. q \in Range(added)
      BY <2>1
    <3>2. PICK i \in 1..Len(added) : added[i] = q
      BY <2>1, <3>1, RangeIs
    <3> QED BY <2>1, <3>2
  <2> QED BY <2>1, <2>2
<1>4. /\ grown \in Seq(Queries) /\ Len(grown) = Len(z) + 1 /\ Len(grown) > 0
      /\ grown[Len(grown)] = q /\ \A i \in 1..Len(z) : grown[i] = z[i]
  BY <1>1
<1>5. Range(z) \subseteq Range(grown)
  <2> HIDE DEF grown
  <2>1. ASSUME NEW x \in Range(z) PROVE x \in Range(grown)
    <3>1. PICK i \in 1..Len(z) : z[i] = x
      BY <1>1, RangeIs
    <3>2. i \in 1..Len(grown) /\ grown[i] = x
      BY <1>1, <1>4, <3>1
    <3> QED BY <1>4, <3>2, RangeIs
  <2> QED BY <2>1
<1>6. AddMember(q) <=>
        \/ /\ backend = "memory" /\ z' = Newest(grown, ZCap)
           /\ UNCHANGED <<zExpires, raises>>
        \/ /\ backend = "redis" /\ z' = Newest(added, ZCap) /\ zExpires' = renewed
           /\ UNCHANGED raises
        \/ /\ Raise
           /\ \/ UNCHANGED index
              \/ z' = added /\ zExpires' \in {zExpires, renewed}
  BY DEF AddMember, ToEnd
<1>7. ASSUME NEW s \in Seq(Queries), Len(s) >= Len(z), Len(s) > 0, Range(z) \subseteq Range(s),
             s[Len(s)] = q, z' = Newest(s, ZCap)
      PROVE  /\ z' \in Seq(Queries) /\ Len(z') <= ZCap
             /\ Member(q)' /\ \A p \in Queries : Member(p) => Member(p)'
  <2>1. /\ z' \in Seq(Queries)
        /\ (z' = s /\ Len(s) <= ZCap) \/ (Len(z') = ZCap /\ Len(s) > ZCap)
        /\ s[Len(s)] \in Range(z')
    <3>1. ZCap \in Nat \ {0}
      BY Numbers
    <3>2. z' \in Seq(Queries)
      BY <1>7, <3>1, NewestFacts
    <3>3. (z' = s /\ Len(s) <= ZCap) \/ (Len(z') = ZCap /\ Len(s) > ZCap)
      BY <1>7, <3>1, NewestFacts
    <3>4. s[Len(s)] \in Range(z')
      BY <1>7, <3>1, NewestFacts
    <3> QED BY <3>2, <3>3, <3>4
  <2>2. Len(z') <= ZCap
    BY <2>1, Numbers
  <2>3. Member(q)'
    BY <1>7, <2>1 DEF Member
  <2>4. ASSUME NEW p \in Queries, Member(p) PROVE Member(p)'
    <3>1. CASE z' = s
      BY <1>1, <1>7, <2>4, <3>1, Numbers DEF Member
    <3>2. CASE Len(z') = ZCap
      BY <3>2, Numbers DEF Member
    <3> QED BY <2>1, <3>1, <3>2
  <2> QED BY <2>1, <2>2, <2>3, <2>4
<1> HIDE DEF added, grown, renewed
<1>8. CASE /\ backend = "memory" /\ z' = Newest(grown, ZCap)
           /\ UNCHANGED <<zExpires, raises>>
  <2>1. /\ z' \in Seq(Queries) /\ Len(z') <= ZCap
        /\ Member(q)' /\ \A p \in Queries : Member(p) => Member(p)'
    <3>1. Len(grown) >= Len(z)
      BY <1>1, <1>4
    <3> QED BY <1>4, <1>5, <1>7, <1>8, <3>1
  <2>2. Len(z') <= ZCap + raises'
    BY <1>1, <1>8, <2>1, Numbers
  <2> QED BY <1>1, <1>8, <2>1, <2>2
<1>9. CASE /\ backend = "redis" /\ z' = Newest(added, ZCap) /\ zExpires' = renewed
           /\ UNCHANGED raises
  <2>1. /\ z' \in Seq(Queries) /\ Len(z') <= ZCap
        /\ Member(q)' /\ \A p \in Queries : Member(p) => Member(p)'
    <3>1. Len(added) >= Len(z) /\ Range(z) \subseteq Range(added)
      BY <1>1, <1>3
    <3> QED BY <1>3, <1>7, <1>9, <3>1
  <2>2. Len(z') <= ZCap + raises'
    BY <1>1, <1>9, <2>1, Numbers
  <2> QED BY <1>1, <1>2, <1>9, <2>1, <2>2 DEF renewed
<1>10. CASE /\ Raise
            /\ \/ UNCHANGED index
               \/ z' = added /\ zExpires' \in {zExpires, renewed}
  <2>1. raises' = raises + 1 /\ raises' \in raises..MaxRaises /\ raises' # 0
    BY <1>1, <1>10, Numbers DEF Raise, TypeOK
  <2>2. z' \in {z, added} /\ zExpires' \in {zExpires, renewed}
    BY <1>10 DEF index
  <2>3. z' \in Seq(Queries) /\ Len(z') <= ZCap + raises'
    BY <1>1, <1>3, <2>1, <2>2, Numbers
  <2> QED BY <1>1, <1>2, <2>1, <2>2, <2>3
<1> QED BY <1>6, <1>8, <1>9, <1>10

LEMMA ZAddStep ==
  ASSUME CInv, NEW t \in Threads, ZAdd(t)
  PROVE  CInv'
<1>1. TypeOK /\ Indexed /\ Holds(t) /\ \A k \in Keys : Stored(k)
  BY DEF CInv
<1> PICK q \in Queries : q = req[t].query
  BY <1>1 DEF Holds, ZAdd
<1>2. req[t].pc = "zadd" /\ AddMember(q) /\ Finish(t) /\ UNCHANGED entries
  BY DEF ZAdd
<1>3. UNCHANGED world
  BY DEF ZAdd
<1>4. /\ z' \in Seq(Queries) /\ Len(z') <= ZCap + raises' /\ zExpires' \in 0..Never
      /\ raises' \in raises..MaxRaises
      /\ raises' = 0 => /\ Member(q)' /\ \A p \in Queries : Member(p) => Member(p)'
                        /\ zExpires' = IF backend = "redis" THEN now + SemanticTtl ELSE zExpires
  BY <1>1, <1>2, <1>3, AddMemberFacts
<1>5. Moved(t) /\ Holds(t)'
  BY <1>1, <1>2, FinishMoves, IdleHolds
<1>6. Sound /\ Shrunk
  BY <1>1, <1>2, <1>3, <1>4, EntriesKept
<1>7. Kept
  BY <1>6, ShrunkKeeps
<1>8. ASSUME raises' = 0, NEW p \in Queries, kv'[<<"entry", p>>] # Nothing
      PROVE  \/ \E u \in Threads : Adding(u, p)'
             \/ Member(p)' /\ (backend' = "redis" => kv'[<<"entry", p>>].expires <= zExpires')
  <2>1. kv' = kv /\ backend' = backend /\ raises = 0
    BY <1>1, <1>2, <1>3, <1>4, <1>8, Numbers DEF entries, world, TypeOK
  <2>2. /\ Member(q)' /\ \A x \in Queries : Member(x) => Member(x)'
        /\ zExpires' = IF backend = "redis" THEN now + SemanticTtl ELSE zExpires
    BY <1>4, <1>8
  <2>3. kv[<<"entry", p>>].expires <= now + SemanticTtl
    <3>1. <<"entry", p>> \in Keys /\ <<"entry", p>>[1] = "entry"
      BY DEF Keys
    <3> QED BY <1>1, <1>8, <2>1, <3>1 DEF Stored
  <2>4. backend' = "redis" => kv'[<<"entry", p>>].expires <= zExpires'
    BY <2>1, <2>2, <2>3
  <2>5. \/ \E u \in Threads : Adding(u, p)
        \/ Member(p)
    BY <1>1, <1>8, <2>1 DEF Indexed
  <2>6. CASE Member(p)
    <3>1. Member(p)'
      BY <2>2, <2>6
    <3> QED BY <2>4, <3>1
  <2>7. CASE p = q
    BY <2>2, <2>4, <2>7
  <2>8. CASE p # q /\ \E u \in Threads : Adding(u, p)
    <3>1. PICK u \in Threads : Adding(u, p)
      BY <2>8
    <3>2. u # t
      BY <2>8, <3>1 DEF Adding
    <3>3. Adding(u, p)'
      BY <1>5, <3>1, <3>2 DEF Adding, Moved
    <3> QED BY <3>3
  <2> QED BY <2>5, <2>6, <2>7, <2>8
<1>9. Indexed'
  BY <1>8 DEF Indexed
<1> QED BY <1>3, <1>4, <1>5, <1>6, <1>7, <1>9, StepFrame

LEMMA StepKeepsC ==
  ASSUME CInv, NEW t \in Threads, Step(t)
  PROVE  CInv'
BY GetExactStep, GetMembersStep, ScanMemberStep, ServeHitStep, GetSourcesStep, RetrieveStep,
   SetExactStep, SetEntryStep, ZAddStep DEF Step

-----------------------------------------------------------------------------
\* The other steps.

LEMMA AskStep ==
  ASSUME CInv, NEW t \in Threads, NEW q \in Queries, Ask(t, q)
  PROVE  CInv'
<1>1. /\ TypeOK /\ InForce /\ Indexed /\ \A k \in Keys : Stored(k)
      /\ \A u \in Threads : Holds(u)
  BY DEF CInv
<1>2. /\ kv' = kv /\ order' = order /\ z' = z /\ zExpires' = zExpires /\ backend' = backend
      /\ corpus' = corpus /\ copies' = copies /\ retired' = retired /\ now' = now /\ raises' = raises
  BY DEF Ask, entries, index
<1>3. asks' \in 0..MaxAsks
  <2>1. asks < MaxAsks /\ asks' = asks + 1
    BY DEF Ask
  <2>2. asks \in 0..MaxAsks
    BY <1>1 DEF TypeOK
  <2> QED BY <2>1, <2>2, Numbers
<1>4. /\ req'[t] = [Idle EXCEPT !.pc = "exact", !.query = q, !.since = now]
      /\ \A u \in Threads : u # t => req'[u] = req[u]
      /\ DOMAIN req' = Threads /\ req' = [u \in Threads |-> req'[u]]
  BY <1>1 DEF Ask, TypeOK
<1>5. /\ req'[t] \in Request /\ req'[t].pc = "exact" /\ req'[t].query = q
      /\ req'[t].answer = Nothing /\ req'[t].since = now
  <2>1. now \in 0..MaxNow
    BY <1>1 DEF TypeOK
  <2>2. req'[t] = [pc |-> "exact", query |-> q, members |-> <<>>, answer |-> Nothing, since |-> now]
    BY <1>4 DEF Idle
  <2> QED BY <2>1, <2>2 DEF Request, Pcs
<1>6. req' \in [Threads -> Request]
  BY <1>1, <1>4, <1>5 DEF TypeOK
<1>7. TypeOK'
  BY <1>1, <1>2, <1>3, <1>6 DEF TypeOK
<1>8. ASSUME NEW u \in Threads PROVE Holds(u)'
  <2>1. CASE u = t
    <3>1. now <= now /\ now <= now + 1
      BY <1>1, Numbers DEF TypeOK
    <3> QED BY <1>2, <1>5, <2>1, <3>1 DEF Holds, Writing
  <2>2. CASE u # t
    <3>1. Holds(u) /\ req'[u] = req[u]
      BY <1>1, <1>4, <2>2
    <3> QED BY <1>2, <3>1 DEF Holds
  <2> QED BY <2>1, <2>2
<1>9. ASSUME NEW k \in Keys PROVE Stored(k)'
  <2>1. Stored(k)
    BY <1>1
  <2> QED BY <1>2, <2>1 DEF Stored
<1>10. \A u \in Threads, p \in Queries : Adding(u, p) => Adding(u, p)'
  BY <1>4 DEF Adding, Ask
<1>11. \A p \in Queries : Member(p)' <=> Member(p)
  BY <1>2 DEF Member
<1>12. Indexed'
  BY <1>1, <1>2, <1>10, <1>11 DEF Indexed
<1>13. InForce'
  BY <1>1, <1>2 DEF InForce
<1> QED BY <1>7, <1>8, <1>9, <1>12, <1>13 DEF CInv

\* The documents may change, and copies go: what is retired is so from now on, which is
\* after every request came in.
LEMMA KeepStep ==
  ASSUME CInv, corpus' \in {corpus, corpus + 1}, corpus' <= MaxVersion,
         NEW kept \in SUBSET Present, corpus' = corpus => kept \subseteq copies, Keep(kept),
         UNCHANGED <<entries, index, backend, now, asks, req, raises>>
  PROVE  CInv'
<1>1. /\ TypeOK /\ InForce /\ Indexed /\ \A k \in Keys : Stored(k)
      /\ \A u \in Threads : Holds(u)
  BY DEF CInv
<1>2. /\ kv' = kv /\ order' = order /\ z' = z /\ zExpires' = zExpires /\ backend' = backend
      /\ now' = now /\ raises' = raises /\ req' = req /\ asks' = asks
  BY DEF entries, index
<1>3. /\ \A v \in 1..MaxVersion : retired'[v] \in {now, retired[v]}
      /\ \A v \in 1..MaxVersion : v \in kept \/ v >= corpus' => retired'[v] = retired[v]
      /\ retired' = [v \in 1..MaxVersion |-> retired'[v]] /\ copies' = kept
  <2>1. corpus' \in Int
    BY Numbers DEF CInv, TypeOK
  <2> QED BY <2>1 DEF Keep
<1>4. /\ corpus \in Nat /\ corpus >= 1 /\ now \in 0..MaxNow /\ now \in Nat /\ now \in 0..Never
      /\ retired \in [1..MaxVersion -> 0..Never] /\ copies \subseteq 1..(corpus - 1)
  BY <1>1, Numbers DEF TypeOK
<1>5. /\ retired' \in [1..MaxVersion -> 0..Never] /\ corpus' \in 1..MaxVersion
      /\ copies' \subseteq 1..(corpus' - 1)
  <2>1. \A v \in 1..MaxVersion : retired'[v] \in 0..Never
    BY <1>3, <1>4
  <2>2. corpus' \in 1..MaxVersion
    BY <1>4, Numbers
  <2>3. copies' \subseteq 1..(corpus' - 1)
    BY <1>3, <1>4 DEF Present
  <2> QED BY <1>3, <2>1, <2>2, <2>3
<1>6. TypeOK'
  BY <1>1, <1>2, <1>5 DEF TypeOK
<1>7. InForce'
  <2>1. ASSUME NEW v \in copies' \cup (corpus')..MaxVersion PROVE retired'[v] = Never
    <3>1. /\ v \in 1..MaxVersion /\ v \in copies \cup corpus..MaxVersion
          /\ v \in kept \/ v >= corpus'
      BY <1>3, <1>4, <1>5, Numbers DEF Present
    <3> QED BY <1>1, <1>3, <3>1 DEF InForce
  <2> QED BY <2>1 DEF InForce
<1>8. ASSUME NEW u \in Threads PROVE Holds(u)'
  <2>1. /\ req[u].since \in Nat /\ req[u].answer \in Answers \cup {Nothing}
        /\ req[u].answer \in Answers => req[u].answer.version \in 1..MaxVersion
    BY <1>1, Fields DEF Answers
  <2>2. Holds(u)
    BY <1>1
  <2>3. \A v \in 1..MaxVersion : v <= corpus => v <= corpus'
    BY <1>4
  <2>4. CASE req[u].pc = "idle"
    BY <1>2, <2>2, <2>4 DEF Holds, Writing
  <2>5. CASE req[u].pc # "idle"
    <3>1. req[u].query \in Queries /\ req[u].since <= now /\ now <= req[u].since + 1
      BY <2>2, <2>5 DEF Holds
    <3>2. ASSUME req[u].pc \in Writing
          PROVE  /\ req[u].answer \in Answers /\ req[u].answer.query = req[u].query
                 /\ req[u].answer.version <= corpus'
                 /\ req[u].since <= retired'[req[u].answer.version]
      <4>1. /\ req[u].answer \in Answers /\ req[u].answer.query = req[u].query
            /\ req[u].answer.version <= corpus
            /\ req[u].since <= retired[req[u].answer.version]
        BY <2>2, <3>2 DEF Holds
      <4> QED BY <1>3, <2>1, <2>3, <3>1, <4>1
    <3>3. ASSUME req[u].pc \in {"scan", "hit"}, req[u].answer # Nothing
          PROVE  /\ Close(req[u].query, req[u].answer.query)
                 /\ req[u].answer.version <= corpus'
                 /\ req[u].since <= retired'[req[u].answer.version] + ExactTtl + 1
      <4>1. /\ Close(req[u].query, req[u].answer.query)
            /\ req[u].answer.version <= corpus
            /\ req[u].since <= retired[req[u].answer.version] + ExactTtl + 1
        BY <2>2, <3>3 DEF Holds
      <4>2. req[u].since <= now + ExactTtl + 1
        BY <1>4, <2>1, <3>1, Numbers
      <4> QED BY <1>3, <2>1, <2>3, <3>3, <4>1, <4>2
    <3>4. req[u].pc \in {"idle", "exact", "members"} => req[u].answer = Nothing
      BY <2>2 DEF Holds
    <3> QED BY <1>2, <2>5, <3>1, <3>2, <3>3, <3>4 DEF Holds, Close
  <2> QED BY <2>4, <2>5
<1>9. ASSUME NEW k \in Keys PROVE Stored(k)'
  <2>1. CASE kv[k] = Nothing
    BY <1>2, <2>1 DEF Stored
  <2>2. CASE kv[k] # Nothing
    <3>1. /\ kv[k].answer.query = k[2] /\ kv[k].answer.version <= corpus
          /\ kv[k].expires <= retired[kv[k].answer.version] + ExactTtl + 1
          /\ kv[k].expires <= now + (IF k[1] = "entry" THEN SemanticTtl ELSE ExactTtl)
      BY <1>1, <2>2 DEF Stored
    <3>2. kv[k].expires \in Nat /\ kv[k].answer.version \in 1..MaxVersion
      BY <1>1, <2>2, Numbers DEF TypeOK, Entries, Answers
    <3>3. kv[k].expires <= now + ExactTtl + 1
      <4>1. kv[k].expires <= now + SemanticTtl \/ kv[k].expires <= now + ExactTtl
        BY <3>1
      <4> QED BY <1>4, <3>2, <4>1, Numbers
    <3>4. retired'[kv[k].answer.version] \in {now, retired[kv[k].answer.version]}
      BY <1>3, <3>2
    <3>5. kv[k].expires <= retired'[kv[k].answer.version] + ExactTtl + 1
      BY <3>1, <3>3, <3>4
    <3>6. kv[k].answer.version <= corpus'
      BY <1>4, <3>1, <3>2
    <3> QED BY <1>2, <3>1, <3>5, <3>6 DEF Stored
  <2> QED BY <2>1, <2>2
<1>10. Indexed'
  BY <1>1, <1>2 DEF Indexed, Member, Adding
<1> QED BY <1>6, <1>7, <1>8, <1>9, <1>10 DEF CInv

LEMMA IngestStep ==
  ASSUME CInv, Ingest \/ Forget
  PROVE  CInv'
<1>1. corpus \in 1..MaxVersion /\ MaxVersion \in Nat
  BY Numbers DEF CInv, TypeOK
<1>2. CASE Ingest
  <2>1. /\ corpus' = corpus + 1 /\ corpus' # corpus /\ corpus' <= MaxVersion
        /\ UNCHANGED <<entries, index, backend, now, asks, req, raises>>
    BY <1>1, <1>2 DEF Ingest
  <2>2. PICK kept \in SUBSET Present : Keep(kept)
    BY <1>2 DEF Ingest
  <2> QED BY <2>1, <2>2, KeepStep
<1>3. CASE Forget
  <2>1. /\ corpus' = corpus /\ corpus' <= MaxVersion
        /\ UNCHANGED <<entries, index, backend, now, asks, req, raises>>
    BY <1>1, <1>3 DEF Forget
  <2>2. PICK kept \in SUBSET copies : Keep(kept)
    BY <1>3 DEF Forget
  <2>3. kept \in SUBSET Present
    BY <2>2 DEF Present
  <2> QED BY <2>1, <2>2, <2>3, KeepStep
<1> QED BY <1>2, <1>3

\* Every request came in within the unit that ends.  Redis drops the index only when it
\* has dropped the entries that the index names.
LEMMA TickStep ==
  ASSUME CInv, Tick
  PROVE  CInv'
<1>1. /\ TypeOK /\ InForce /\ Indexed /\ \A k \in Keys : Stored(k)
      /\ \A u \in Threads : Holds(u)
  BY DEF CInv
<1>2. /\ order' = order /\ backend' = backend /\ corpus' = corpus /\ copies' = copies /\ retired' = retired
      /\ raises' = raises /\ req' = req /\ asks' = asks /\ now' = now + 1 /\ now < MaxNow
      /\ \A u \in Threads : req[u].pc # "idle" => req[u].since = now
  BY DEF Tick
<1>3. now \in Nat /\ now' \in 0..MaxNow /\ zExpires \in 0..Never /\ backend \in {"memory", "redis"}
  BY <1>1, <1>2, Numbers, AnswerCacheAssumption DEF TypeOK
<1>4. \/ backend = "memory" /\ kv' = kv /\ z' = z /\ zExpires' = zExpires
      \/ /\ backend = "redis"
         /\ kv' = [k \in Keys |-> IF kv[k] # Nothing /\ kv[k].expires > now'
                                  THEN kv[k] ELSE Nothing]
         /\ z' = IF zExpires > now' THEN z ELSE <<>>
         /\ zExpires' = IF zExpires > now' THEN zExpires ELSE Never
  BY <1>3 DEF Tick, index
<1>5. Shrunk
  BY <1>4 DEF Shrunk
<1>6. TypeOK'
  <2>1. kv' \in [Keys -> Entries \cup {Nothing}]
    BY <1>1, <1>4 DEF TypeOK
  <2>2. z' \in Seq(Queries) /\ Len(z') <= ZCap + raises'
    <3>1. z \in Seq(Queries) /\ Len(z) <= ZCap + raises /\ raises \in Nat
      BY <1>1, Numbers DEF TypeOK
    <3>2. <<>> \in Seq(Queries) /\ Len(<<>>) <= ZCap + raises
      BY <3>1, Numbers
    <3>3. z' = z \/ z' = <<>>
      BY <1>4
    <3> QED BY <1>2, <3>1, <3>2, <3>3
  <2>3. zExpires' \in 0..Never
    BY <1>3, <1>4, Numbers
  <2>4. Range(order)' = IF backend' = "memory" THEN {k \in Keys : kv'[k] # Nothing} ELSE {}
    BY <1>1, <1>2, <1>3, <1>4 DEF TypeOK
  <2> QED BY <1>1, <1>2, <1>3, <2>1, <2>2, <2>3, <2>4 DEF TypeOK
<1>7. InForce'
  BY <1>1, <1>2 DEF InForce
<1>8. ASSUME NEW u \in Threads PROVE Holds(u)'
  <2>1. Holds(u) /\ req'[u] = req[u]
    BY <1>1, <1>2
  <2>2. req[u].pc # "idle" => req[u].since <= now' /\ now' <= req[u].since + 1
    BY <1>2, <1>3
  <2> QED BY <1>2, <2>1, <2>2 DEF Holds
<1>9. ASSUME NEW k \in Keys PROVE Stored(k)'
  <2>1. CASE kv'[k] = Nothing
    BY <2>1 DEF Stored
  <2>2. CASE kv'[k] # Nothing
    <3>1. kv'[k] = kv[k] /\ kv[k] # Nothing
      BY <1>5, <2>2 DEF Shrunk
    <3>2. /\ kv[k].answer.query = k[2] /\ kv[k].answer.version <= corpus
          /\ kv[k].expires <= retired[kv[k].answer.version] + ExactTtl + 1
          /\ kv[k].expires <= now + (IF k[1] = "entry" THEN SemanticTtl ELSE ExactTtl)
      BY <1>1, <3>1 DEF Stored
    <3>3. kv[k].expires \in Nat
      BY <1>1, <3>1, Numbers DEF TypeOK, Entries
    <3>4. kv[k].expires <= now' + (IF k[1] = "entry" THEN SemanticTtl ELSE ExactTtl)
      BY <1>2, <1>3, <3>2, <3>3, Numbers
    <3> QED BY <1>2, <3>1, <3>2, <3>4 DEF Stored
  <2> QED BY <2>1, <2>2
<1>10. ASSUME raises' = 0, NEW q \in Queries, kv'[<<"entry", q>>] # Nothing
       PROVE  \/ \E u \in Threads : Adding(u, q)'
              \/ Member(q)' /\ (backend' = "redis" => kv'[<<"entry", q>>].expires <= zExpires')
  <2> DEFINE k == <<"entry", q>>
  <2>1. k \in Keys
    BY DEF Keys
  <2>2. kv'[k] = kv[k] /\ kv[k] # Nothing
    BY <1>5, <1>10, <2>1 DEF Shrunk
  <2>3. \/ \E u \in Threads : Adding(u, q)
        \/ Member(q) /\ (backend = "redis" => kv[k].expires <= zExpires)
    BY <1>1, <1>2, <1>10, <2>2 DEF Indexed
  <2>4. kv[k].expires \in Nat
    BY <1>1, <2>1, <2>2, Numbers DEF TypeOK, Entries
  <2>5. CASE \E u \in Threads : Adding(u, q)
    BY <1>2, <2>5 DEF Adding
  <2>6. CASE Member(q) /\ (backend = "redis" => kv[k].expires <= zExpires)
    <3>1. z' = z /\ zExpires' = zExpires
      <4>1. CASE backend = "memory"
        BY <1>4, <4>1
      <4>2. CASE backend = "redis"
        <5>1. kv[k].expires > now'
          BY <1>4, <1>10, <2>1, <4>2
        <5>2. zExpires > now'
          BY <1>2, <1>3, <2>4, <2>6, <4>2, <5>1
        <5> QED BY <1>4, <4>2, <5>2
      <4> QED BY <1>3, <4>1, <4>2
    <3> QED BY <1>2, <2>2, <2>6, <3>1 DEF Member
  <2> QED BY <2>3, <2>5, <2>6
<1>11. Indexed'
  BY <1>10 DEF Indexed
<1> QED BY <1>6, <1>7, <1>8, <1>9, <1>11 DEF CInv

-----------------------------------------------------------------------------
\* The theorems.

LEMMA InitC == Init => CInv
<1> SUFFICES ASSUME Init PROVE CInv
  OBVIOUS
<1>1. \A k \in Keys : kv[k] = Nothing
  BY DEF Init
<1>2. order = <<>> /\ IsInjective(order) /\ order \in Seq(Keys) /\ Range(order) = {}
  <2>1. order = <<>>
    BY DEF Init
  <2>2. DOMAIN order = {} /\ order \in Seq(Keys)
    BY <2>1
  <2> QED BY <2>1, <2>2 DEF IsInjective, Range
<1>3. TypeOK
  <2>1. kv \in [Keys -> Entries \cup {Nothing}] /\ Len(order) <= MaxSize
    BY <1>2, Numbers DEF Init
  <2>2. Range(order) = IF backend = "memory" THEN {k \in Keys : kv[k] # Nothing} ELSE {}
    BY <1>1, <1>2
  <2>3. /\ z \in Seq(Queries) /\ Len(z) <= ZCap + raises /\ zExpires \in 0..Never
        /\ backend \in Backends /\ asks \in 0..MaxAsks /\ raises \in 0..MaxRaises
        /\ now \in 0..MaxNow
    BY Numbers DEF Init
  <2>4. /\ corpus \in 1..MaxVersion /\ retired \in [1..MaxVersion -> 0..Never]
        /\ copies \subseteq 1..(corpus - 1)
    BY Numbers, AnswerCacheAssumption DEF Init
  <2>5. req \in [Threads -> Request]
    BY IdleIsTyped DEF Init
  <2> QED BY <1>2, <2>1, <2>2, <2>3, <2>4, <2>5 DEF TypeOK
<1>4. InForce
  BY DEF Init, InForce
<1>5. \A k \in Keys : Stored(k)
  BY <1>1 DEF Stored
<1>6. \A t \in Threads : Holds(t)
  BY IdleIsTyped DEF Init, Holds, Writing
<1>7. Indexed
  BY <1>1 DEF Indexed, Keys
<1> QED BY <1>3, <1>4, <1>5, <1>6, <1>7 DEF CInv

LEMMA NextKeepsC == CInv /\ [Next]_vars => CInv'
<1> SUFFICES ASSUME CInv, [Next]_vars PROVE CInv'
  OBVIOUS
<1>1. CASE Next
  BY <1>1, StepKeepsC, AskStep, IngestStep, TickStep DEF Next
<1>2. CASE UNCHANGED vars
  BY <1>2 DEF vars, entries, index, world, CInv, TypeOK, InForce, Indexed, Stored, Holds,
              Adding, Member
<1> QED BY <1>1, <1>2

LEMMA CacheInv == Spec => []CInv
<1>1. Init => CInv
  BY InitC
<1>2. CInv /\ [Next]_vars => CInv'
  BY NextKeepsC
<1> QED BY <1>1, <1>2, PTL DEF Spec

\* The cache stays within its types and its bounds: the LRU holds at most MaxSize keys,
\* each once, and the index at most ZCap members beside those that a failed Redis call
\* left over.
THEOREM CacheTyped == Spec => []TypeOK
<1>1. CInv => TypeOK
  BY DEF CInv
<1> QED BY <1>1, CacheInv, PTL

\* An answer served from the cache was generated for the question asked or for one close
\* to it, whatever the similarities: no chain of hits leads further away.
THEOREM CacheServesClose == Spec => []ServedClose
<1>1. CInv => ServedClose
  BY DEF CInv, ServedClose, Hitting, Holds, Close
<1> QED BY <1>1, CacheInv, PTL

\* No answer is served later than the exact TTL after its documents were replaced and the
\* last process forgot its copy of them, plus the request that generated it and the one that
\* is served, whatever the TTLs.
THEOREM CacheStalenessBounded == Spec => []StalenessBounded
<1>1. ASSUME CInv, NEW t \in Threads, Hitting(t)
      PROVE  now <= retired[req[t].answer.version] + ExactTtl + 2
  <2>1. TypeOK /\ Holds(t) /\ req[t].pc \in {"scan", "hit"} /\ req[t].answer # Nothing
    BY <1>1 DEF CInv, Hitting
  <2>2. /\ now <= req[t].since + 1
        /\ req[t].since <= retired[req[t].answer.version] + ExactTtl + 1
    BY <2>1 DEF Holds
  <2>3. req[t].since \in Nat /\ now \in Nat /\ req[t].answer.version \in 1..MaxVersion
    BY <2>1, Fields, Numbers DEF TypeOK, Answers
  <2>4. retired[req[t].answer.version] \in Nat
    BY <2>1, <2>3, Numbers DEF TypeOK
  <2> QED BY <2>2, <2>3, <2>4, Numbers
<1>2. CInv => StalenessBounded
  BY <1>1 DEF StalenessBounded
<1> QED BY <1>2, CacheInv, PTL

\* Every entry semantic_set has stored can be found through the index as long as it lives,
\* unless its writer is still about to add it, the index is full or a Redis call failed.
THEOREM CacheEntriesIndexed == Spec => []EntriesIndexed
<1>1. ASSUME CInv, NEW q \in Queries
      PROVE  \/ Live(<<"entry", q>>) => \E i \in DOMAIN z : z[i] = q
             \/ \E t \in Threads : req[t].pc = "zadd" /\ req[t].query = q
             \/ Len(z) >= ZCap \/ raises > 0
  <2>1. TypeOK /\ Indexed
    BY <1>1 DEF CInv
  <2>2. CASE raises # 0
    BY <2>1, <2>2, Numbers DEF TypeOK
  <2>3. CASE raises = 0 /\ Live(<<"entry", q>>)
    <3>1. (\E t \in Threads : Adding(t, q)) \/ Member(q)
      BY <2>1, <2>3 DEF Indexed, Live
    <3>2. q \in Range(z) => \E i \in DOMAIN z : z[i] = q
      BY <2>1, RangeIs DEF TypeOK
    <3> QED BY <3>1, <3>2 DEF Adding, Member
  <2> QED BY <2>2, <2>3
<1>2. CInv => EntriesIndexed
  BY <1>1 DEF EntriesIndexed
<1> QED BY <1>2, CacheInv, PTL

=============================================================================
