--------------------------- MODULE RetrievalProofs ---------------------------
(***************************************************************************)
(* What Retrieval promises, for any number of chunks, any scores, and any  *)
(* K and Wide with Wide <= K + 1.                                          *)
(***************************************************************************)
EXTENDS Retrieval, FiniteSetTheorems, TLAPS

-----------------------------------------------------------------------------
\* Lists.

\* An order without repetitions is a list.
LEMMA OrderIsList ==
  ASSUME RetrievalAssumption, NEW S \in SUBSET Chunks,
         NEW s \in [1..Cardinality(S) -> S],
         \A i, j \in DOMAIN s : i < j => s[i] # s[j]
  PROVE  s \in Lists /\ Cardinality(S) \in 0..Size
<1>1. Size \in Nat
  BY DEF RetrievalAssumption
<1>2. IsFiniteSet(Chunks) /\ Cardinality(Chunks) = Size
  <2>1. 1 \in Int /\ Size \in Int
    BY <1>1
  <2>2. /\ IsFiniteSet(1..Size)
        /\ Cardinality(1..Size) = IF 1 > Size THEN 0 ELSE Size - 1 + 1
    BY <2>1, FS_Interval
  <2>3. Cardinality(1..Size) = Size
    BY <1>1, <2>2
  <2> QED BY <2>2, <2>3 DEF Chunks
<1>3. IsFiniteSet(S) /\ Cardinality(S) <= Size
  BY <1>2, FS_Subset
<1>4. Cardinality(S) \in 0..Size
  BY <1>1, <1>3, FS_CardinalityType
<1>5. s \in [1..Cardinality(S) -> Chunks]
  OBVIOUS
<1>6. \A i, j \in 1..Cardinality(S) : s[i] = s[j] => i = j
  <2>1. SUFFICES ASSUME NEW i \in 1..Cardinality(S), NEW j \in 1..Cardinality(S), i # j
                 PROVE  s[i] # s[j]
    OBVIOUS
  <2>2. i < j \/ j < i
    BY <2>1, <1>4
  <2> QED BY <2>2
<1> QED BY <1>4, <1>5, <1>6 DEF Lists

LEMMA ListType ==
  ASSUME NEW s \in Lists
  PROVE  /\ \A i \in DOMAIN s : i \in Nat /\ s[i] \in Chunks
         /\ \A i, j \in DOMAIN s : s[i] = s[j] => i = j
BY DEF Lists

\* The beginning of a list.
LEMMA FirstList ==
  ASSUME Size \in Nat, NEW s \in Lists, NEW n \in Nat
  PROVE  /\ First(n, s) \in Lists
         /\ DOMAIN First(n, s) \subseteq 1..n /\ DOMAIN First(n, s) \subseteq DOMAIN s
         /\ \A i \in DOMAIN First(n, s) : First(n, s)[i] = s[i]
<1>1. PICK m \in 0..Size : s \in [1..m -> Chunks] /\ \A i, j \in 1..m : s[i] = s[j] => i = j
  BY DEF Lists
<1>2. PICK k \in 0..m : 1..m \cap 1..n = 1..k
  <2>1. CASE m <= n
    BY <2>1
  <2>2. CASE n <= m
    BY <2>2
  <2> QED BY <2>1, <2>2
<1>3. First(n, s) = [i \in 1..k |-> s[i]]
  BY <1>1, <1>2 DEF First
<1>4. k \in 0..Size /\ 1..k \subseteq 1..m
  BY <1>2
<1>5. First(n, s) \in [1..k -> Chunks] /\ \A i, j \in 1..k : First(n, s)[i] = First(n, s)[j] => i = j
  BY <1>1, <1>3, <1>4
<1>6. First(n, s) \in Lists
  BY <1>4, <1>5 DEF Lists
<1> QED BY <1>1, <1>2, <1>3, <1>6

LEMMA NoneList ==
  ASSUME Size \in Nat
  PROVE  None \in Lists /\ DOMAIN None = {} /\ Elems(None) = {}
<1>1. None \in [1..0 -> Chunks] /\ 0 \in 0..Size
  BY DEF None
<1>2. DOMAIN None = {}
  BY DEF None
<1> QED BY <1>1, <1>2 DEF Lists, Elems

\* The rank of a chunk of a list is its position, and no other.
LEMMA RankOf ==
  ASSUME NEW s \in Lists, NEW c \in Elems(s)
  PROVE  /\ Rank(s, c) \in DOMAIN s /\ s[Rank(s, c)] = c
         /\ Rank(s, c) \in Nat
         /\ \A i \in DOMAIN s : s[i] = c => i = Rank(s, c)
<1>1. \E i \in DOMAIN s : s[i] = c
  BY DEF Elems
<1>2. Rank(s, c) \in DOMAIN s /\ s[Rank(s, c)] = c
  BY <1>1 DEF Rank
<1> QED BY <1>2, ListType

\* Chunks of equal rank are the same.
LEMMA RankApart ==
  ASSUME NEW s \in Lists, NEW c \in Elems(s), NEW d \in Elems(s), c # d
  PROVE  Rank(s, c) # Rank(s, d)
BY RankOf

-----------------------------------------------------------------------------
\* Fractions.

LEMMA TwoBeatOne ==
  ASSUME NEW x \in Nat \ {0}, NEW y \in Nat \ {0}, NEW z \in Nat, 2 * z > x, 2 * z > y
  PROVE  (x + y) * z > x * y
<1>1. x * (2 * z - y) > 0 /\ y * (2 * z - x) > 0
  <2>1. \A u, v \in Int : u > 0 /\ v > 0 => u * v > 0
    OBVIOUS
  <2>2. 2 * z - y \in Int /\ 2 * z - x \in Int /\ 2 * z - y > 0 /\ 2 * z - x > 0
    OBVIOUS
  <2> QED BY <2>1, <2>2
<1>2. x * (2 * z - y) = 2 * (x * z) - x * y /\ y * (2 * z - x) = 2 * (y * z) - x * y
  OBVIOUS
<1>3. (x + y) * z = x * z + y * z
  OBVIOUS
<1>4. x * z \in Int /\ y * z \in Int /\ x * y \in Int
  OBVIOUS
<1> QED BY <1>1, <1>2, <1>3, <1>4

LEMMA SmallerRanksMore ==
  ASSUME NEW x \in Nat \ {0}, NEW y \in Nat \ {0}, NEW v \in Nat \ {0}, NEW w \in Nat \ {0},
         x < v, y < w
  PROVE  (x + y) * (v * w) > (v + w) * (x * y)
<1>1. \A a, b \in Int : a > 0 /\ b > 0 => a * b > 0
  OBVIOUS
<1>2. x * v > 0 /\ y * w > 0 /\ w - y > 0 /\ v - x > 0
  BY <1>1
<1>3. (x * v) * (w - y) > 0 /\ (y * w) * (v - x) > 0
  BY <1>1, <1>2
<1>4. (x + y) * (v * w) - (v + w) * (x * y) = (x * v) * (w - y) + (y * w) * (v - x)
  OBVIOUS
<1>5. (x + y) * (v * w) \in Int /\ (v + w) * (x * y) \in Int
  OBVIOUS
<1> QED BY <1>3, <1>4, <1>5

-----------------------------------------------------------------------------
\* Scores.  A chunk found by one search at rank r has 1 / (K + r); one found by both
\* has the sum of two of these.

LEMMA ShareOf ==
  ASSUME NEW s \in Lists, NEW c
  PROVE  /\ c \in Elems(s) => Share(s, c) = <<1, K + Rank(s, c)>>
         /\ c \notin Elems(s) => Share(s, c) = <<0, 1>>
BY DEF Share

\* A list of one of the searches.
IsHits(s) == s \in Lists /\ DOMAIN s \subseteq 1..Wide

LEMMA Denominator ==
  ASSUME RetrievalAssumption, NEW s, IsHits(s), NEW c \in Elems(s)
  PROVE  /\ Rank(s, c) \in 1..Wide
         /\ K + Rank(s, c) \in Nat \ {0}
         /\ K + Rank(s, c) <= 2 * K + 1
         /\ K + Rank(s, c) >= K + 1
<1>1. Rank(s, c) \in 1..Wide
  BY RankOf DEF IsHits
<1> QED BY <1>1 DEF RetrievalAssumption

\* The sum of two shares, by where a chunk was found.
LEMMA SumOfBoth ==
  ASSUME NEW x \in Nat \ {0}, NEW y \in Nat \ {0}
  PROVE  Plus(<<1, x>>, <<1, y>>) = <<x + y, x * y>>
<1>1. 1 * y + 1 * x = x + y
  OBVIOUS
<1> QED BY <1>1 DEF Plus

LEMMA SumOfOne ==
  ASSUME NEW x \in Nat \ {0}
  PROVE  Plus(<<1, x>>, <<0, 1>>) = <<1, x>> /\ Plus(<<0, 1>>, <<1, x>>) = <<1, x>>
<1>1. 1 * 1 + 0 * x = 1 /\ 0 * x + 1 * 1 = 1 /\ x * 1 = x /\ 1 * x = x
  OBVIOUS
<1> QED BY <1>1 DEF Plus

LEMMA ScoreOf ==
  ASSUME RetrievalAssumption, IsHits(vec), IsHits(bm), NEW c \in Hits
  PROVE  LET x == K + Rank(vec, c)
             y == K + Rank(bm, c)
         IN  /\ c \in Elems(vec) /\ c \in Elems(bm) =>
                  /\ x \in Nat \ {0} /\ y \in Nat \ {0}
                  /\ Score(c) = <<x + y, x * y>>
             /\ c \in Elems(vec) /\ c \notin Elems(bm) =>
                  x \in Nat \ {0} /\ Score(c) = <<1, x>>
             /\ c \notin Elems(vec) =>
                  y \in Nat \ {0} /\ Score(c) = <<1, y>>
<1> DEFINE x == K + Rank(vec, c)
           y == K + Rank(bm, c)
<1>1. vec \in Lists /\ bm \in Lists
  BY DEF IsHits
<1>2. CASE c \in Elems(vec) /\ c \in Elems(bm)
  <2>1. x \in Nat \ {0} /\ y \in Nat \ {0}
    BY <1>2, Denominator
  <2>2. Score(c) = Plus(<<1, x>>, <<1, y>>)
    BY <1>1, <1>2, ShareOf DEF Score
  <2>3. Score(c) = <<x + y, x * y>>
    BY <2>1, <2>2, SumOfBoth
  <2> QED BY <1>2, <2>1, <2>3
<1>3. CASE c \in Elems(vec) /\ c \notin Elems(bm)
  <2>1. x \in Nat \ {0}
    BY <1>3, Denominator
  <2>2. Score(c) = Plus(<<1, x>>, <<0, 1>>)
    BY <1>1, <1>3, ShareOf DEF Score
  <2>3. Score(c) = <<1, x>>
    BY <2>1, <2>2, SumOfOne
  <2> QED BY <1>3, <2>1, <2>3
<1>4. CASE c \notin Elems(vec) /\ c \in Elems(bm)
  <2>1. y \in Nat \ {0}
    BY <1>4, Denominator
  <2>2. Score(c) = Plus(<<0, 1>>, <<1, y>>)
    BY <1>1, <1>4, ShareOf DEF Score
  <2>3. Score(c) = <<1, y>>
    BY <2>1, <2>2, SumOfOne
  <2> QED BY <1>4, <2>1, <2>3
<1> QED BY <1>2, <1>3, <1>4 DEF Hits

\* A chunk with the greater score does not come after the other.
LEMMA MoreIsBefore ==
  ASSUME NEW c, NEW d, More(Score(c), Score(d)), ~More(Score(d), Score(c))
  PROVE  ~Before(d, c)
BY DEF Before

LEMMA MoreAsymmetric ==
  ASSUME NEW p, NEW q, p[1] * q[2] \in Int, q[1] * p[2] \in Int, More(p, q)
  PROVE  ~More(q, p)
BY DEF More

\* Two searches beat one.
LEMMA BothScoreMore ==
  ASSUME RetrievalAssumption, IsHits(vec), IsHits(bm), NEW c \in Both, NEW d \in Hits \ Both
  PROVE  More(Score(c), Score(d)) /\ ~More(Score(d), Score(c))
<1> DEFINE x == K + Rank(vec, c)
           y == K + Rank(bm, c)
<1>1. c \in Elems(vec) /\ c \in Elems(bm) /\ c \in Hits
  BY DEF Both, Hits
<1>2. x \in Nat \ {0} /\ y \in Nat \ {0} /\ Score(c) = <<x + y, x * y>>
  BY <1>1, ScoreOf
<1>3. x <= 2 * K + 1 /\ y <= 2 * K + 1
  BY <1>1, Denominator
<1>4. PICK z \in Nat \ {0} : z >= K + 1 /\ Score(d) = <<1, z>>
  <2>1. CASE d \in Elems(vec)
    BY <2>1, ScoreOf, Denominator DEF Both
  <2>2. CASE d \notin Elems(vec)
    BY <2>2, ScoreOf, Denominator DEF Hits
  <2> QED BY <2>1, <2>2
<1>5. 2 * z > x /\ 2 * z > y
  BY <1>2, <1>3, <1>4 DEF RetrievalAssumption
<1>6. (x + y) * z > x * y
  BY <1>2, <1>4, <1>5, TwoBeatOne
<1>7. x * y \in Int /\ (x + y) * z \in Int /\ 1 * (x * y) = x * y
  BY <1>2, <1>4
<1>8. More(Score(c), Score(d))
  BY <1>2, <1>4, <1>6, <1>7 DEF More
<1> QED BY <1>2, <1>4, <1>7, <1>8, MoreAsymmetric

\* What is no worse in both searches, and not the same chunk, has the greater score.
LEMMA BetterScoresMore ==
  ASSUME RetrievalAssumption, IsHits(vec), IsHits(bm), NEW c \in Hits, NEW d \in Hits, c # d,
         NoWorse(vec, c, d), NoWorse(bm, c, d)
  PROVE  More(Score(c), Score(d)) /\ ~More(Score(d), Score(c))
<1> DEFINE x == K + Rank(vec, c)
           y == K + Rank(bm, c)
           v == K + Rank(vec, d)
           w == K + Rank(bm, d)
<1>1. d \in Elems(vec) => /\ c \in Elems(vec) /\ x \in Nat \ {0} /\ v \in Nat \ {0}
                          /\ x < v
  <2>1. SUFFICES ASSUME d \in Elems(vec)
                 PROVE  c \in Elems(vec) /\ x \in Nat \ {0} /\ v \in Nat \ {0} /\ x < v
    OBVIOUS
  <2>2. c \in Elems(vec) /\ Rank(vec, c) <= Rank(vec, d)
    BY <2>1 DEF NoWorse
  <2>3. Rank(vec, c) # Rank(vec, d)
    BY <2>1, <2>2, RankApart DEF IsHits
  <2> QED BY <2>1, <2>2, <2>3, Denominator DEF RetrievalAssumption
<1>2. d \in Elems(bm) => /\ c \in Elems(bm) /\ y \in Nat \ {0} /\ w \in Nat \ {0}
                         /\ y < w
  <2>1. SUFFICES ASSUME d \in Elems(bm)
                 PROVE  c \in Elems(bm) /\ y \in Nat \ {0} /\ w \in Nat \ {0} /\ y < w
    OBVIOUS
  <2>2. c \in Elems(bm) /\ Rank(bm, c) <= Rank(bm, d)
    BY <2>1 DEF NoWorse
  <2>3. Rank(bm, c) # Rank(bm, d)
    BY <2>1, <2>2, RankApart DEF IsHits
  <2> QED BY <2>1, <2>2, <2>3, Denominator DEF RetrievalAssumption
<1>3. CASE d \in Elems(vec) /\ d \in Elems(bm)
  <2>1. Score(c) = <<x + y, x * y>> /\ Score(d) = <<v + w, v * w>>
    BY <1>1, <1>2, <1>3, ScoreOf
  <2>2. (x + y) * (v * w) > (v + w) * (x * y)
    BY <1>1, <1>2, <1>3, SmallerRanksMore
  <2>3. (x + y) * (v * w) \in Int /\ (v + w) * (x * y) \in Int
    BY <1>1, <1>2, <1>3
  <2>4. More(Score(c), Score(d))
    BY <2>1, <2>2 DEF More
  <2> QED BY <2>1, <2>3, <2>4, MoreAsymmetric
<1>4. CASE c \in Both /\ d \notin Both
  BY <1>4, BothScoreMore
<1>5. CASE c \notin Both /\ d \in Elems(vec) /\ d \notin Elems(bm)
  <2>1. Score(c) = <<1, x>> /\ Score(d) = <<1, v>> /\ x < v /\ x \in Nat /\ v \in Nat
    BY <1>1, <1>5, ScoreOf DEF Both
  <2> QED BY <2>1 DEF More
<1>6. CASE c \notin Both /\ d \notin Elems(vec) /\ d \in Elems(bm)
  <2>1. Score(c) = <<1, y>> /\ Score(d) = <<1, w>> /\ y < w /\ y \in Nat /\ w \in Nat
    BY <1>2, <1>6, ScoreOf DEF Both
  <2> QED BY <2>1 DEF More
<1> QED BY <1>3, <1>4, <1>5, <1>6 DEF Both, Hits

LEMMA BeforeApart ==
  ASSUME RetrievalAssumption, IsHits(vec), IsHits(bm), NEW c \in Hits
  PROVE  ~Before(c, c)
<1> DEFINE p == Score(c)
<1>1. p[1] \in Int /\ p[2] \in Int
  <2>1. CASE c \in Elems(vec) /\ c \in Elems(bm)
    BY <2>1, ScoreOf
  <2>2. CASE c \in Elems(vec) /\ c \notin Elems(bm)
    BY <2>2, ScoreOf
  <2>3. CASE c \notin Elems(vec)
    BY <2>3, ScoreOf
  <2> QED BY <2>1, <2>2, <2>3
<1>2. p[1] * p[2] \in Int
  BY <1>1
<1>3. ~More(p, p)
  BY <1>2 DEF More
<1> QED BY <1>3 DEF Before

\* The fused list: whatever cannot come after a candidate comes before it.
LEMMA FusedOrder ==
  ASSUME RetrievalAssumption, IsHits(vec), IsHits(bm),
         NEW s \in [1..Cardinality(Hits) -> Hits], Elems(s) = Hits,
         \A i, j \in DOMAIN s : i < j => Before(s[i], s[j])
  PROVE  LET f == First(Wide, s)
         IN  /\ IsHits(f) /\ Elems(f) \subseteq Hits
             /\ \A c \in Hits, d \in Elems(f) :
                  c # d /\ ~Before(d, c) =>
                    c \in Elems(f) /\ Rank(f, c) < Rank(f, d)
<1> DEFINE f == First(Wide, s)
<1>1. Hits \in SUBSET Chunks
  BY ListType DEF Hits, IsHits, Elems
<1>2. \A i, j \in DOMAIN s : i < j => s[i] # s[j]
  BY BeforeApart
<1>3. s \in Lists /\ DOMAIN s = 1..Cardinality(Hits) /\ Cardinality(Hits) \in 0..Size
  BY <1>1, <1>2, OrderIsList
<1>4. Size \in Nat /\ Wide \in Nat
  BY DEF RetrievalAssumption
<1>5. /\ f \in Lists /\ DOMAIN f \subseteq 1..Wide /\ DOMAIN f \subseteq DOMAIN s
      /\ \A i \in DOMAIN f : f[i] = s[i]
  BY <1>3, <1>4, FirstList
<1>6. Elems(f) \subseteq Hits
  BY <1>5 DEF Elems
<1>7. \A i \in DOMAIN s : i \in DOMAIN f \/ i > Wide
  BY <1>3, <1>4 DEF First
<1>8. ASSUME NEW c \in Hits, NEW d \in Elems(f), c # d, ~Before(d, c)
      PROVE  c \in Elems(f) /\ Rank(f, c) < Rank(f, d)
  <2> DEFINE j == Rank(f, d)
  <2>1. j \in DOMAIN f /\ f[j] = d /\ j \in 1..Wide /\ j \in DOMAIN s /\ s[j] = d
    BY <1>5, RankOf
  <2>2. PICK i \in DOMAIN s : s[i] = c
    BY DEF Elems
  <2>3. i \in Nat /\ j \in Nat /\ i # j
    BY <1>3, <1>8, <2>1, <2>2
  <2>4. ~(j < i)
    BY <1>8, <2>1, <2>2
  <2>5. i < j /\ i \in DOMAIN f
    BY <1>4, <1>7, <2>1, <2>2, <2>3, <2>4
  <2>6. c \in Elems(f) /\ f[i] = c
    BY <1>5, <2>2, <2>5 DEF Elems
  <2>7. i = Rank(f, c)
    BY <1>5, <2>5, <2>6, RankOf
  <2> QED BY <2>5, <2>6, <2>7
<1> QED BY <1>5, <1>6, <1>8 DEF IsHits

-----------------------------------------------------------------------------
\* The invariant.  The lists of the searches are within Wide, which the scores rest
\* on, and the order holds from the step that fuses to the next question.
RInv == TypeOK /\ FusionOrder

LEMMA SearchesTyped ==
  ASSUME TypeOK
  PROVE  IsHits(vec) /\ IsHits(bm) /\ IsHits(fused)
BY DEF TypeOK, IsHits

LEMMA RInit == RetrievalAssumption /\ Init => RInv
<1> SUFFICES ASSUME RetrievalAssumption, Init PROVE RInv
  OBVIOUS
<1>1. None \in Lists /\ DOMAIN None = {}
  BY NoneList DEF RetrievalAssumption
<1>2. TypeOK
  BY <1>1 DEF Init, TypeOK
<1> QED BY <1>2 DEF Init, RInv, FusionOrder, Decided

\* A search changes nothing that has been decided.
LEMMA VectorStep ==
  ASSUME RetrievalAssumption, RInv, FaissSearch \/ QdrantSearch
  PROVE  RInv'
<1>1. None \in Lists /\ DOMAIN None = {}
  BY NoneList DEF RetrievalAssumption
<1>2. IsHits(vec')
  <2>1. ASSUME NEW S \in SUBSET Chunks, NEW near \in SUBSET Chunks, S \subseteq near,
               Cardinality(near) <= Wide,
               NEW s \in [1..Cardinality(S) -> S],
               \A i, j \in DOMAIN s : i < j => s[i] # s[j]
        PROVE  IsHits(s)
    <3>1. s \in Lists /\ Cardinality(S) \in 0..Size
      BY <2>1, OrderIsList
    <3>2. IsFiniteSet(Chunks)
      BY FS_Interval DEF Chunks, RetrievalAssumption
    <3>3. IsFiniteSet(near)
      BY <3>2, FS_Subset
    <3>4. Cardinality(S) <= Cardinality(near) /\ Cardinality(near) \in Nat
      BY <2>1, <3>3, FS_Subset, FS_CardinalityType
    <3>5. 1..Cardinality(S) \subseteq 1..Wide
      BY <2>1, <3>1, <3>4 DEF RetrievalAssumption
    <3> QED BY <3>1, <3>5 DEF IsHits
  <2>2. CASE FaissSearch
    <3>1. PICK length \in 0..Size, near \in SUBSET Chunks, score \in [Chunks -> Scores] :
            /\ Cardinality(near) <= Wide
            /\ vec' \in Ordered({c \in near : c <= length /\ score[c] >= Threshold},
                                LAMBDA c, d : c # d /\ score[c] >= score[d])
      BY <2>2 DEF FaissSearch
    <3> DEFINE S == {c \in near : c <= length /\ score[c] >= Threshold}
    <3>2. vec' \in [1..Cardinality(S) -> S]
          /\ \A i, j \in DOMAIN vec' : i < j => vec'[i] # vec'[j]
      BY <3>1 DEF Ordered
    <3>3. S \subseteq near /\ S \in SUBSET Chunks
      OBVIOUS
    <3> HIDE DEF S
    <3> QED BY <2>1, <3>1, <3>2, <3>3
  <2>3. CASE QdrantSearch
    <3>1. CASE vec' = None
      BY <1>1, <3>1 DEF IsHits
    <3>2. ASSUME NEW near \in SUBSET Chunks, NEW score \in [Chunks -> Scores],
                 Cardinality(near) <= Wide,
                 vec' \in Ordered(near, LAMBDA c, d : c # d /\ score[c] >= score[d])
          PROVE  IsHits(vec')
      <4>1. vec' \in [1..Cardinality(near) -> near]
            /\ \A i, j \in DOMAIN vec' : i < j => vec'[i] # vec'[j]
        BY <3>2 DEF Ordered
      <4> QED BY <2>1, <3>2, <4>1
    <3> QED BY <2>3, <3>1, <3>2 DEF QdrantSearch
  <2> QED BY <2>2, <2>3
<1>3. pc' = "lexical" /\ UNCHANGED <<backend, model, bm, fused, result>>
  BY DEF FaissSearch, QdrantSearch, Goto
<1>4. TypeOK'
  BY <1>2, <1>3 DEF RInv, TypeOK, IsHits
<1> QED BY <1>3, <1>4 DEF RInv, FusionOrder, Decided

LEMMA LexicalStep ==
  ASSUME RetrievalAssumption, RInv, Bm25Search
  PROVE  RInv'
<1>1. None \in Lists /\ DOMAIN None = {}
  BY NoneList DEF RetrievalAssumption
<1>2. IsHits(bm')
  <2>1. CASE bm' = None
    BY <1>1, <2>1 DEF IsHits
  <2>2. ASSUME NEW length \in 0..Size, NEW score \in [Chunks -> Scores],
               NEW s,
               s \in Ordered(1..length, LAMBDA c, d :
                       score[c] > score[d] \/ (score[c] = score[d] /\ c < d)),
               bm' = First(Wide, s)
        PROVE  IsHits(bm')
    <3>0. Size \in Nat /\ \A x \in Scores : x \in Int
      BY DEF RetrievalAssumption
    <3>1. 1..length \in SUBSET Chunks
      BY <3>0 DEF Chunks
    <3>2. /\ s \in [1..Cardinality(1..length) -> 1..length]
          /\ \A i, j \in DOMAIN s : i < j =>
               score[s[i]] > score[s[j]] \/ (score[s[i]] = score[s[j]] /\ s[i] < s[j])
      BY <2>2 DEF Ordered
    <3>3. \A c \in 1..length : c \in Int /\ score[c] \in Int
      <4>1. SUFFICES ASSUME NEW c \in 1..length
                     PROVE  c \in Int /\ score[c] \in Int
        OBVIOUS
      <4>2. c \in Chunks /\ c \in Int
        <5>1. c \in Chunks
          BY <3>1
        <5> QED BY <5>1, <3>0 DEF Chunks
      <4>3. score[c] \in Scores
        BY <2>2, <4>2
      <4> QED BY <3>0, <4>2, <4>3
    <3>4. \A i, j \in DOMAIN s : i < j => s[i] # s[j]
      <4>1. SUFFICES ASSUME NEW i \in DOMAIN s, NEW j \in DOMAIN s, i < j, s[i] = s[j]
                     PROVE  FALSE
        OBVIOUS
      <4>2. s[i] \in Int /\ score[s[i]] \in Int
        BY <3>2, <3>3
      <4>3. \/ score[s[i]] > score[s[j]]
            \/ score[s[i]] = score[s[j]] /\ s[i] < s[j]
        BY <3>2, <4>1
      <4> QED BY <4>1, <4>2, <4>3
    <3>5. s \in Lists
      BY <3>1, <3>2, <3>4, OrderIsList
    <3> QED BY <2>2, <3>5, FirstList DEF IsHits, RetrievalAssumption
  <2> QED BY <2>1, <2>2 DEF Bm25Search
<1>3. pc' = "fuse" /\ UNCHANGED <<backend, model, vec, fused, result>>
  BY DEF Bm25Search, Goto
<1>4. TypeOK'
  BY <1>2, <1>3 DEF RInv, TypeOK, IsHits
<1> QED BY <1>3, <1>4 DEF RInv, FusionOrder, Decided

LEMMA FuseStep ==
  ASSUME RetrievalAssumption, RInv, Fuse
  PROVE  RInv'
<1>1. IsHits(vec) /\ IsHits(bm)
  BY SearchesTyped DEF RInv
<1>2. pc' \in {"rerank", "done"} /\ UNCHANGED <<backend, model, vec, bm, result>>
  BY DEF Fuse, Goto
<1>3. /\ IsHits(fused') /\ Elems(fused') \subseteq Hits
      /\ \A c \in Hits, d \in Elems(fused') :
           Outdoes(c, d) => c \in Elems(fused') /\ Rank(fused', c) < Rank(fused', d)
  <2>1. CASE bm = None
    <3>1. fused' = vec /\ Both = {} /\ Hits = Elems(vec)
      BY <2>1, NoneList DEF Fuse, Both, Hits, RetrievalAssumption
    <3>2. ASSUME NEW c \in Elems(vec), NEW d \in Elems(vec), c # d, NoWorse(vec, c, d)
          PROVE  Rank(vec, c) < Rank(vec, d)
      <4>1. Rank(vec, c) <= Rank(vec, d)
        BY <3>2 DEF NoWorse
      <4>2. Rank(vec, c) # Rank(vec, d) /\ Rank(vec, c) \in Nat /\ Rank(vec, d) \in Nat
        BY <1>1, <3>2, RankApart, RankOf DEF IsHits
      <4> QED BY <4>1, <4>2
    <3> QED BY <1>1, <3>1, <3>2 DEF Outdoes
  <2>2. CASE bm # None
    <3>1. PICK s \in Ordered(Hits, Before) : fused' = First(Wide, s)
      BY <2>2 DEF Fuse
    <3>2. /\ s \in [1..Cardinality(Hits) -> Hits] /\ Elems(s) = Hits
          /\ \A i, j \in DOMAIN s : i < j => Before(s[i], s[j])
      BY <3>1 DEF Ordered
    <3>3. /\ IsHits(fused') /\ Elems(fused') \subseteq Hits
          /\ \A c \in Hits, d \in Elems(fused') :
               c # d /\ ~Before(d, c) =>
                 c \in Elems(fused') /\ Rank(fused', c) < Rank(fused', d)
      BY <1>1, <3>1, <3>2, FusedOrder
    <3>4. ASSUME NEW c \in Hits, NEW d \in Elems(fused'), Outdoes(c, d)
          PROVE  c # d /\ ~Before(d, c)
      <4>1. d \in Hits
        BY <3>3
      <4>2. CASE c \in Both /\ d \notin Both
        BY <1>1, <4>1, <4>2, BothScoreMore, MoreIsBefore
      <4>3. CASE c # d /\ NoWorse(vec, c, d) /\ NoWorse(bm, c, d)
        BY <1>1, <4>1, <4>3, BetterScoresMore, MoreIsBefore
      <4> QED BY <3>4, <4>2, <4>3 DEF Outdoes
    <3> QED BY <3>3, <3>4
  <2> QED BY <2>1, <2>2
<1>4. TypeOK'
  BY <1>2, <1>3 DEF RInv, TypeOK, IsHits
<1>5. FusionOrder'
  BY <1>2, <1>3 DEF FusionOrder, Outdoes, NoWorse, Ahead, Both, Hits
<1> QED BY <1>4, <1>5 DEF RInv

\* The candidates in the order of the reranker are a list.
LEMMA RerankedList ==
  ASSUME RetrievalAssumption, fused \in Lists,
         NEW score \in [Elems(fused) -> Scores],
         NEW s \in [1..Cardinality(Elems(fused)) -> Elems(fused)],
         \A i, j \in DOMAIN s : i < j =>
           \/ score[s[i]] > score[s[j]]
           \/ score[s[i]] = score[s[j]] /\ Rank(fused, s[i]) < Rank(fused, s[j])
  PROVE  s \in Lists
<1>1. Elems(fused) \in SUBSET Chunks
  BY ListType DEF Elems
<1>2. \A c \in Elems(fused) : score[c] \in Int /\ Rank(fused, c) \in Nat
  <2>1. \A x \in Scores : x \in Int
    BY DEF RetrievalAssumption
  <2> QED BY <2>1, RankOf
<1>3. \A i, j \in DOMAIN s : i < j => s[i] # s[j]
  <2>1. SUFFICES ASSUME NEW i \in DOMAIN s, NEW j \in DOMAIN s, i < j, s[i] = s[j]
                 PROVE  FALSE
    OBVIOUS
  <2>2. Rank(fused, s[i]) \in Nat /\ score[s[i]] \in Int
    BY <1>2
  <2>3. \/ score[s[i]] > score[s[j]]
        \/ score[s[i]] = score[s[j]] /\ Rank(fused, s[i]) < Rank(fused, s[j])
    BY <2>1
  <2> QED BY <2>1, <2>2, <2>3
<1> QED BY <1>1, <1>3, OrderIsList

LEMMA RerankStep ==
  ASSUME RetrievalAssumption, RInv, Rerank
  PROVE  RInv'
<1>1. pc = "rerank" /\ pc' = "done" /\ UNCHANGED <<backend, vec, bm, fused>>
  BY DEF Rerank, Goto
<1>2. model' \in {"disabled", "unloaded", "loaded"}
  BY DEF Rerank, RInv, TypeOK
<1>3. /\ fused \in Lists /\ Size \in Nat /\ TopK \in Nat
      /\ Elems(fused) \in SUBSET Chunks
  BY ListType DEF RInv, TypeOK, RetrievalAssumption, Elems
<1>4. PICK l \in Lists : result' = First(TopK, l)
  <2>1. CASE Keep
    BY <1>3, <2>1 DEF Keep
  <2>2. ASSUME NEW score \in [Elems(fused) -> Scores],
               NEW s,
               s \in Ordered(Elems(fused), LAMBDA c, d :
                       \/ score[c] > score[d]
                       \/ score[c] = score[d] /\ Rank(fused, c) < Rank(fused, d)),
               result' = First(TopK, s)
        PROVE  \E l \in Lists : result' = First(TopK, l)
    <3>1. /\ s \in [1..Cardinality(Elems(fused)) -> Elems(fused)]
          /\ \A i, j \in DOMAIN s : i < j =>
               \/ score[s[i]] > score[s[j]]
               \/ score[s[i]] = score[s[j]] /\ Rank(fused, s[i]) < Rank(fused, s[j])
      BY <2>2 DEF Ordered
    <3>2. s \in Lists
      BY <1>3, <2>2, <3>1, RerankedList
    <3> QED BY <2>2, <3>2
  <2> QED BY <2>1, <2>2 DEF Rerank
<1>5. result' \in Lists /\ DOMAIN result' \subseteq 1..TopK
  BY <1>3, <1>4, FirstList
<1>6. TypeOK'
  BY <1>1, <1>2, <1>5 DEF RInv, TypeOK
<1>7. FusionOrder'
  BY <1>1 DEF RInv, FusionOrder, Decided, Outdoes, NoWorse, Ahead, Both, Hits
<1> QED BY <1>6, <1>7 DEF RInv

LEMMA RStep ==
  ASSUME RetrievalAssumption, RInv, [Next]_vars
  PROVE  RInv'
<1>1. CASE FaissSearch \/ QdrantSearch
  BY <1>1, VectorStep
<1>2. CASE Bm25Search
  BY <1>2, LexicalStep
<1>3. CASE Fuse
  BY <1>3, FuseStep
<1>4. CASE Rerank
  BY <1>4, RerankStep
<1>5. CASE Ask
  <2>1. None \in Lists /\ DOMAIN None = {}
    BY NoneList DEF RetrievalAssumption
  <2>2. TypeOK'
    BY <1>5, <2>1 DEF Ask, Goto, RInv, TypeOK
  <2>3. pc' = "vector"
    BY <1>5 DEF Ask, Goto
  <2> QED BY <2>2, <2>3 DEF RInv, FusionOrder, Decided
<1>6. CASE FaissRaises
  BY <1>6 DEF FaissRaises, Goto, RInv, TypeOK, FusionOrder, Decided
<1>7. CASE UNCHANGED vars
  BY <1>7 DEF vars, RInv, TypeOK, FusionOrder, Decided, Outdoes, NoWorse, Ahead, Both, Hits
<1> QED BY <1>1, <1>2, <1>3, <1>4, <1>5, <1>6, <1>7 DEF Next

THEOREM RInvariant == Spec => []RInv
<1>1. RInv /\ [Next]_vars => RInv'
  BY RStep, RetrievalAssumption
<1>2. Init => RInv
  BY RInit, RetrievalAssumption
<1> QED BY <1>1, <1>2, PTL DEF Spec

\* Searches, fusion and reranker hand on lists of distinct chunks, no longer than
\* they should be.
THEOREM RetrievalTyped == Spec => []TypeOK
<1>1. RInv => TypeOK
  BY DEF RInv
<1> QED BY RInvariant, <1>1, PTL

\* A chunk both searches found beats every chunk that one of them found, and a
\* better chunk a worse one, whenever Wide <= K + 1.
THEOREM FusionOrdered == Spec => []FusionOrder
<1>1. RInv => FusionOrder
  BY DEF RInv
<1> QED BY RInvariant, <1>1, PTL

-----------------------------------------------------------------------------
\* How many chunks are handed on.

Fewer(m, n) == IF m <= n THEN m ELSE n

\* A list has as many chunks as positions.
LEMMA ListCount ==
  ASSUME NEW m \in Nat, NEW s \in [1..m -> Chunks],
         \A i, j \in 1..m : s[i] = s[j] => i = j
  PROVE  Cardinality(Elems(s)) = m
<1>1. s \in [1..m -> Elems(s)] /\ \A c \in Elems(s) : \E i \in 1..m : s[i] = c
  BY DEF Elems
<1>2. s \in Bijection(1..m, Elems(s))
  BY <1>1 DEF Bijection, Injection, Surjection, IsInjective
<1>3. ExistsBijection(1..m, Elems(s))
  BY <1>2 DEF ExistsBijection
<1> QED BY <1>3, FS_CountingElements

\* Its beginning has that many, or as many as were asked for.
LEMMA FirstCount ==
  ASSUME NEW s \in Lists, NEW n \in Nat, Size \in Nat
  PROVE  /\ Cardinality(Elems(s)) \in Nat
         /\ Cardinality(Elems(First(n, s))) = Fewer(Cardinality(Elems(s)), n)
<1>1. PICK m \in 0..Size : s \in [1..m -> Chunks] /\ \A i, j \in 1..m : s[i] = s[j] => i = j
  BY DEF Lists
<1>2. m \in Nat /\ Cardinality(Elems(s)) = m
  BY <1>1, ListCount
<1> DEFINE k == Fewer(m, n)
<1>3. k \in Nat /\ 1..m \cap 1..n = 1..k /\ 1..k \subseteq 1..m
  <2>1. CASE m <= n
    BY <1>2, <2>1 DEF Fewer
  <2>2. CASE ~(m <= n)
    BY <1>2, <2>2 DEF Fewer
  <2> QED BY <2>1, <2>2
<1> HIDE DEF k
<1>4. First(n, s) = [i \in 1..k |-> s[i]]
  BY <1>1, <1>3 DEF First
<1>5. PICK f : f = First(n, s)
  OBVIOUS
<1>6. f \in [1..k -> Chunks] /\ \A i, j \in 1..k : f[i] = f[j] => i = j
  BY <1>1, <1>3, <1>4, <1>5
<1>7. Cardinality(Elems(f)) = k
  BY <1>3, <1>6, ListCount
<1> QED BY <1>2, <1>5, <1>7 DEF k

\* A list within n has no more than n chunks.
LEMMA CountWithin ==
  ASSUME NEW s \in Lists, NEW n \in Nat, Size \in Nat, DOMAIN s \subseteq 1..n
  PROVE  Cardinality(Elems(s)) = Fewer(Cardinality(Elems(s)), n)
<1>1. PICK m \in 0..Size : s \in [1..m -> Chunks] /\ \A i, j \in 1..m : s[i] = s[j] => i = j
  BY DEF Lists
<1>2. m \in Nat /\ Cardinality(Elems(s)) = m
  BY <1>1, ListCount
<1>3. m <= n
  <2>1. CASE m = 0
    BY <2>1
  <2>2. CASE m # 0
    <3>1. m \in DOMAIN s
      BY <1>1, <1>2, <2>2
    <3> QED BY <3>1
  <2> QED BY <2>1, <2>2
<1> QED BY <1>2, <1>3 DEF Fewer

-----------------------------------------------------------------------------
\* Nothing is shown before the reranking; from the fusion on, the candidates are as
\* many of the hits as Wide allows, and what is shown as many of those as TopK does.
Handed ==
  /\ pc # "done" => result = None
  /\ Decided => Cardinality(Elems(fused)) = Fewer(Cardinality(Hits), Wide)
  /\ pc = "done" => Cardinality(Elems(result)) = Fewer(Cardinality(Elems(fused)), TopK)

LEMMA HandedFuse ==
  ASSUME RetrievalAssumption, TypeOK, Handed, Fuse
  PROVE  Handed'
<1>1. Size \in Nat /\ Wide \in Nat /\ TopK \in Nat \ {0}
  BY DEF RetrievalAssumption
<1>2. /\ pc = "fuse" /\ result = None
      /\ UNCHANGED <<vec, bm, result>>
      /\ IF fused' = None THEN pc' = "done" ELSE pc' = "rerank"
  BY DEF Fuse, Goto, Handed
<1>3. Cardinality(Elems(fused')) = Fewer(Cardinality(Hits), Wide)
  <2>1. CASE bm = None
    <3>1. fused' = vec /\ Hits = Elems(vec)
      BY <1>1, <2>1, NoneList DEF Fuse, Hits
    <3>2. vec \in Lists /\ DOMAIN vec \subseteq 1..Wide
      BY DEF TypeOK
    <3>3. Cardinality(Elems(vec)) = Fewer(Cardinality(Elems(vec)), Wide)
      BY <1>1, <3>2, CountWithin
    <3> QED BY <3>1, <3>3
  <2>2. CASE bm # None
    <3>1. PICK s \in Ordered(Hits, Before) : fused' = First(Wide, s)
      BY <2>2 DEF Fuse
    <3>2. /\ s \in [1..Cardinality(Hits) -> Hits] /\ Elems(s) = Hits
          /\ \A i, j \in DOMAIN s : i < j => Before(s[i], s[j])
      BY <3>1 DEF Ordered
    <3>3. Hits \in SUBSET Chunks /\ IsHits(vec) /\ IsHits(bm)
      BY SearchesTyped, ListType DEF Hits, IsHits, Elems
    <3>4. \A i, j \in DOMAIN s : i < j => s[i] # s[j]
      BY <3>2, <3>3, BeforeApart
    <3>5. s \in Lists
      BY <3>2, <3>3, <3>4, OrderIsList
    <3> QED BY <1>1, <3>1, <3>2, <3>5, FirstCount
  <2> QED BY <2>1, <2>2
<1>4. Hits' = Hits
  BY <1>2 DEF Hits
<1>5. pc' = "done" => Cardinality(Elems(result')) = Fewer(Cardinality(Elems(fused')), TopK)
  <2>1. SUFFICES ASSUME pc' = "done"
                 PROVE  Cardinality(Elems(result')) = Fewer(Cardinality(Elems(fused')), TopK)
    OBVIOUS
  <2>2. fused' = None /\ result' = None
    BY <1>2, <2>1
  <2>3. Cardinality(Elems(None)) = 0
    BY <1>1, NoneList, FS_EmptySet
  <2> QED BY <1>1, <2>2, <2>3 DEF Fewer
<1> QED BY <1>2, <1>3, <1>4, <1>5 DEF Handed

LEMMA HandedRerank ==
  ASSUME RetrievalAssumption, TypeOK, Handed, Rerank
  PROVE  Handed'
<1>1. Size \in Nat /\ TopK \in Nat /\ fused \in Lists
  BY DEF RetrievalAssumption, TypeOK
<1>2. pc = "rerank" /\ pc' = "done" /\ UNCHANGED <<vec, bm, fused>>
  BY DEF Rerank, Goto
<1>3. PICK l \in Lists : result' = First(TopK, l) /\ Elems(l) = Elems(fused)
  <2>1. CASE Keep
    BY <1>1, <2>1 DEF Keep
  <2>2. ASSUME NEW score \in [Elems(fused) -> Scores],
               NEW s,
               s \in Ordered(Elems(fused), LAMBDA c, d :
                       \/ score[c] > score[d]
                       \/ score[c] = score[d] /\ Rank(fused, c) < Rank(fused, d)),
               result' = First(TopK, s)
        PROVE  \E l \in Lists : result' = First(TopK, l) /\ Elems(l) = Elems(fused)
    <3>1. /\ s \in [1..Cardinality(Elems(fused)) -> Elems(fused)] /\ Elems(s) = Elems(fused)
          /\ \A i, j \in DOMAIN s : i < j =>
               \/ score[s[i]] > score[s[j]]
               \/ score[s[i]] = score[s[j]] /\ Rank(fused, s[i]) < Rank(fused, s[j])
      BY <2>2 DEF Ordered
    <3>2. s \in Lists
      BY <1>1, <2>2, <3>1, RerankedList
    <3> QED BY <2>2, <3>1, <3>2
  <2> QED BY <2>1, <2>2 DEF Rerank
<1>4. Cardinality(Elems(result')) = Fewer(Cardinality(Elems(fused)), TopK)
  BY <1>1, <1>3, FirstCount
<1>5. Hits' = Hits
  BY <1>2 DEF Hits
<1> QED BY <1>2, <1>4, <1>5 DEF Handed, Decided

LEMMA HandedStep ==
  ASSUME RetrievalAssumption, TypeOK, Handed, [Next]_vars
  PROVE  Handed'
<1>1. CASE FaissSearch \/ FaissRaises \/ QdrantSearch \/ Bm25Search
  BY <1>1 DEF FaissSearch, FaissRaises, QdrantSearch, Bm25Search, Goto, Handed, Decided
<1>2. CASE Fuse
  BY <1>2, HandedFuse
<1>3. CASE Rerank
  BY <1>3, HandedRerank
<1>4. CASE Ask
  BY <1>4 DEF Ask, Goto, Handed, Decided
<1>5. CASE UNCHANGED vars
  BY <1>5 DEF vars, Handed, Decided, Hits
<1> QED BY <1>1, <1>2, <1>3, <1>4, <1>5 DEF Next

\* Of a question that FAISS files have not failed, the model is shown as many of the chunks
\* found as there is room for, whatever index is missing and whatever of Qdrant, BM25 and the
\* reranker fails (retrieve, rrf_fuse, rerank).
THEOREM NothingIsWasted == Spec => []NothingWasted
<1>1. Init => Handed
  BY DEF Init, Handed, Decided
<1>2. TypeOK /\ Handed /\ [Next]_vars => Handed'
  BY HandedStep, RetrievalAssumption
<1>3. TypeOK /\ Handed => NothingWasted
  <2>1. SUFFICES ASSUME TypeOK, Handed, pc = "done"
                 PROVE  Cardinality(Elems(result)) = Least({Cardinality(Hits), Wide, TopK})
    BY DEF NothingWasted
  <2> DEFINE h == Cardinality(Hits)
             r == Cardinality(Elems(result))
             S == {h, Wide, TopK}
  <2>2. r = Fewer(Fewer(h, Wide), TopK)
    BY <2>1 DEF Handed, Decided
  <2>3. h \in Nat /\ Wide \in Nat /\ TopK \in Nat
    <3>1. Hits \in SUBSET Chunks
      BY <2>1, ListType DEF Hits, Elems, TypeOK
    <3>2. IsFiniteSet(Chunks)
      BY RetrievalAssumption, FS_Interval DEF Chunks, RetrievalAssumption
    <3>3. IsFiniteSet(Hits)
      BY <3>1, <3>2, FS_Subset
    <3> QED BY <3>3, FS_CardinalityType, RetrievalAssumption DEF RetrievalAssumption
  <2> HIDE DEF h, r
  <2>4. r \in S /\ \A m \in S : r <= m
    BY <2>2, <2>3 DEF Fewer
  <2>5. \A n \in S : (\A m \in S : n <= m) => n = r
    BY <2>3, <2>4
  <2>6. r = Least(S)
    BY <2>4, <2>5 DEF Least
  <2> QED BY <2>6 DEF h, r
<1> QED BY RetrievalTyped, <1>1, <1>2, <1>3, PTL DEF Spec

=============================================================================
