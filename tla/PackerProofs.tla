----------------------------- MODULE PackerProofs -----------------------------
(***************************************************************************)
(* What Packer promises, for every list of pieces, chunk size and overlap.  *)
(***************************************************************************)
EXTENDS Packer, WellFoundedInduction, TLAPS

-----------------------------------------------------------------------------
\* The inductive invariant: the properties, and what ties the chunks emitted to
\* the buffer.

\* A chunk starts no later than the buffer and ends before the last piece in it,
\* so that the next chunk will add that piece; what it shares with the buffer is
\* an overlap tail, and the piece after it did not fit.
Behind ==
  \A c \in DOMAIN chunks :
    /\ chunks[c].first <= first /\ chunks[c].first <= chunks[c].last
    /\ chunks[c].last < next
    /\ first > chunks[c].last \/ Span(first, chunks[c].last) <= Overlap
    /\ first < next =>
         chunks[c].last < next - 1 /\ Span(chunks[c].first, chunks[c].last + 1) > ChunkSize

\* The buffer is bounded like a chunk.
BufferBounded ==
  first < next => Span(first, next - 1) <= ChunkSize \/ Span(first, next - 2) <= Overlap

\* The buffer is empty only before the first piece and after the last one.
BufferEmpty == first = next => chunks = <<>> \/ next > text.count

PInv == TypeOK /\ Covered /\ Bounded /\ Progress /\ Dense
        /\ Behind /\ BufferBounded /\ BufferEmpty

-----------------------------------------------------------------------------
\* Spans of pieces.

LEMMA SpanType ==
  ASSUME IsText(text), NEW a \in 1..(text.count + 1), NEW b \in 0..text.count
  PROVE  Span(a, b) \in Int
<1>1. a \in 1..(text.count + 1) /\ b + 1 \in 1..(text.count + 1)
  BY DEF IsText
<1>2. text.start[a] \in Nat /\ text.start[b + 1] \in Nat
  BY <1>1 DEF IsText
<1> QED BY <1>2 DEF Span

\* A span that starts later is shorter.
LEMMA SpanShrinks ==
  ASSUME IsText(text), NEW a \in 1..(text.count + 1), NEW b \in 0..text.count,
         NEW f \in a..(text.count + 1)
  PROVE  Span(f, b) <= Span(a, b)
<1>1. /\ a \in 1..(text.count + 1) /\ b + 1 \in 1..(text.count + 1)
      /\ f \in 1..(text.count + 1) /\ (a = f \/ a < f)
  BY DEF IsText
<1>2. text.start[a] \in Nat /\ text.start[b + 1] \in Nat /\ text.start[f] \in Nat
  BY <1>1 DEF IsText
<1>3. text.start[a] <= text.start[f]
  BY <1>1, <1>2 DEF IsText
<1> QED BY <1>2, <1>3 DEF Span

\* An empty span has no length.
LEMMA SpanEmpty ==
  ASSUME IsText(text), NEW a \in 1..(text.count + 1)
  PROVE  Span(a, a - 1) = 0
  BY DEF IsText, Span

\* The overlap tail is a suffix of the buffer, of at most overlap characters.
LEMMA TailBounded ==
  ASSUME TypeOK
  PROVE  TailStart \in first..next /\ Span(TailStart, next - 1) <= Overlap
<1> DEFINE Fits == {f \in first..next : Span(f, next - 1) <= Overlap}
<1>1. Fits \subseteq Nat
  BY DEF TypeOK, IsText
<1>2. next \in Fits
  BY SpanEmpty, PackerAssumption DEF TypeOK, IsText
<1>3. PICK f \in Fits : \A g \in Fits : f <= g
  <2>1. \E f \in Fits : \A g \in Fits : ~(<<g, f>> \in OpToRel(<, Nat))
    <3> HIDE DEF Fits
    <3> QED BY <1>1, <1>2, WFMin, NatLessThanWellFounded
  <2>2. \A f, g \in Fits : <<g, f>> \in OpToRel(<, Nat) <=> g < f
    <3> HIDE DEF Fits
    <3> QED BY <1>1 DEF OpToRel
  <2>3. \A f, g \in Fits : ~(g < f) => f <= g
    <3> HIDE DEF Fits
    <3> QED BY <1>1
  <2> HIDE DEF Fits
  <2> QED BY <2>1, <2>2, <2>3
<1>4. \A g \in first..(f - 1) : Span(g, next - 1) > Overlap
  <2> SUFFICES ASSUME NEW g \in first..(f - 1), ~(Span(g, next - 1) > Overlap) PROVE FALSE
    OBVIOUS
  <2>1. g \in first..next /\ g < f /\ next - 1 \in 0..text.count /\ g \in 1..(text.count + 1)
    BY <1>3 DEF TypeOK, IsText
  <2>2. Span(g, next - 1) \in Int
    BY <2>1, SpanType DEF TypeOK
  <2>3. g \in Fits
    BY <2>1, <2>2, PackerAssumption
  <2> QED BY <2>1, <2>3, <1>3 DEF TypeOK, IsText
<1> QED BY <1>3, <1>4 DEF TailStart

-----------------------------------------------------------------------------
\* What a step keeps.

LEMMA InitInv == Init => PInv
<1> SUFFICES ASSUME Init PROVE PInv
  OBVIOUS
<1> USE PackerAssumption
<1>1. IsText(text) /\ text.count \in Nat
  BY DEF Init, IsText
<1>2. TypeOK
  BY <1>1 DEF Init, TypeOK
<1> QED
  BY <1>1, <1>2 DEF Init, PInv, Covered, Bounded, Progress, Dense, Behind,
                    BufferBounded, BufferEmpty

\* Chunks emitted: those there were, and one that holds the whole buffer, which
\* is left out only when all of it is blank.
LEMMA EmittedChunks ==
  ASSUME TypeOK, first < next
  PROVE  /\ Emitted \in Seq(Chunk)
         /\ \/ Emitted = chunks /\ first..(next - 1) \subseteq text.blank
            \/ /\ Len(Emitted) = Len(chunks) + 1
               /\ \A c \in DOMAIN chunks : c \in DOMAIN Emitted /\ Emitted[c] = chunks[c]
               /\ \A c \in DOMAIN Emitted : c \in DOMAIN chunks \/ c = Len(chunks) + 1
               /\ Len(chunks) + 1 \in DOMAIN Emitted
               /\ Emitted[Len(chunks) + 1] = [first |-> first, last |-> next - 1]
<1> DEFINE new == [first |-> first, last |-> next - 1]
<1>1. new \in Chunk
  BY DEF TypeOK, IsText, Chunk
<1>2. CASE first..(next - 1) \subseteq text.blank
  BY <1>2 DEF Emitted, TypeOK
<1>3. CASE ~(first..(next - 1) \subseteq text.blank)
  <2>1. Emitted = Append(chunks, new) /\ chunks \in Seq(Chunk)
    BY <1>3 DEF Emitted, TypeOK
  <2> HIDE DEF new
  <2>2. /\ Append(chunks, new) \in Seq(Chunk)
        /\ Len(Append(chunks, new)) = Len(chunks) + 1 /\ Len(chunks) \in Nat
        /\ DOMAIN chunks = 1..Len(chunks)
        /\ DOMAIN Append(chunks, new) = 1..(Len(chunks) + 1)
        /\ \A c \in 1..Len(chunks) : Append(chunks, new)[c] = chunks[c]
        /\ Append(chunks, new)[Len(chunks) + 1] = new
    BY <2>1, <1>1
  <2>3. /\ \A c \in DOMAIN chunks : c \in DOMAIN Emitted /\ Emitted[c] = chunks[c]
        /\ \A c \in DOMAIN Emitted : c \in DOMAIN chunks \/ c = Len(chunks) + 1
        /\ Len(chunks) + 1 \in DOMAIN Emitted
    BY <2>1, <2>2
  <2> QED BY <2>1, <2>2, <2>3 DEF new
<1> QED BY <1>2, <1>3

\* Emitting the buffer keeps what is promised of the chunks.
LEMMA EmissionKeeps ==
  ASSUME PInv, first < next, chunks' = Emitted, text' = text
  PROVE  Bounded' /\ Progress' /\ Dense'
<1> DEFINE n == Len(chunks)
           new == [first |-> first, last |-> next - 1]
<1> USE DEF PInv
<1>1. CASE Emitted = chunks
  BY <1>1 DEF Bounded, Progress, Dense, Span
<1>2. CASE /\ \A c \in DOMAIN chunks : Emitted[c] = chunks[c]
           /\ \A c \in DOMAIN Emitted : c \in DOMAIN chunks \/ c = n + 1
           /\ Emitted[n + 1] = new
  <2>1. DOMAIN chunks = 1..n /\ n \in Nat
    BY DEF TypeOK
  <2>2. new.first = first /\ new.last = next - 1
    OBVIOUS
  <2> HIDE DEF new, n
  <2>3. Bounded'
    <3> SUFFICES ASSUME NEW c \in DOMAIN Emitted
                 PROVE  \/ Span(Emitted[c].first, Emitted[c].last) <= ChunkSize
                        \/ Span(Emitted[c].first, Emitted[c].last - 1) <= Overlap
      BY DEF Bounded, Span
    <3>1. CASE c \in DOMAIN chunks
      BY <3>1, <1>2 DEF Bounded
    <3>2. CASE c = n + 1
      <4>1. next - 1 - 1 = next - 2
        BY DEF TypeOK, IsText
      <4> QED BY <3>2, <1>2, <2>2, <4>1 DEF BufferBounded
    <3> QED BY <3>1, <3>2, <1>2
  <2>4. Progress'
    <3> SUFFICES ASSUME NEW c \in DOMAIN Emitted, NEW d \in DOMAIN Emitted, c < d
                 PROVE  /\ Emitted[c].first <= Emitted[d].first
                        /\ Emitted[c].last < Emitted[d].last
                        /\ \/ Emitted[d].first > Emitted[c].last
                           \/ Span(Emitted[d].first, Emitted[c].last) <= Overlap
      BY DEF Progress, Span
    <3>1. c \in DOMAIN chunks
      BY <1>2, <2>1
    <3>2. CASE d \in DOMAIN chunks
      BY <3>1, <3>2, <1>2 DEF Progress
    <3>3. CASE d = n + 1
      BY <3>1, <3>3, <1>2, <2>2 DEF Behind
    <3> QED BY <3>2, <3>3, <1>2
  <2>5. Dense'
    <3> SUFFICES ASSUME NEW c \in DOMAIN Emitted, NEW d \in DOMAIN Emitted, c < d
                 PROVE  Span(Emitted[c].first, Emitted[c].last + 1) > ChunkSize
      BY DEF Dense, Span
    <3>1. c \in DOMAIN chunks
      BY <1>2, <2>1
    <3> QED BY <3>1, <1>2 DEF Behind
  <2> QED BY <2>3, <2>4, <2>5
<1> QED BY <1>1, <1>2, EmittedChunks

\* Emitting the buffer covers it.
LEMMA EmissionCovers ==
  ASSUME PInv, first < next, NEW i \in 1..(next - 1), i \notin text.blank
  PROVE  \E c \in DOMAIN Emitted : i \in Emitted[c].first..Emitted[c].last
<1> USE DEF PInv
<1>1. \/ Emitted = chunks /\ first..(next - 1) \subseteq text.blank
      \/ /\ \A c \in DOMAIN chunks : c \in DOMAIN Emitted /\ Emitted[c] = chunks[c]
         /\ Len(chunks) + 1 \in DOMAIN Emitted
         /\ Emitted[Len(chunks) + 1] = [first |-> first, last |-> next - 1]
  BY EmittedChunks
<1>2. CASE i < first
  <2>1. PICK c \in DOMAIN chunks : In(i, c)
    BY <1>2 DEF Covered, TypeOK, IsText
  <2>2. c \in DOMAIN Emitted /\ Emitted[c] = chunks[c]
    BY <1>1
  <2> QED BY <2>1, <2>2 DEF In
<1>3. CASE i >= first
  <2>1. i \in first..(next - 1)
    BY <1>3 DEF TypeOK, IsText
  <2> QED BY <1>1, <2>1
<1> QED BY <1>2, <1>3 DEF TypeOK, IsText

\* The ends of a chunk are pieces of the text.
LEMMA ChunkEnds ==
  ASSUME TypeOK, NEW s \in Seq(Chunk), NEW c \in DOMAIN s
  PROVE  /\ s[c].first \in 1..text.count /\ s[c].last \in 1..text.count
         /\ s[c].first \in Int /\ s[c].last \in Int
<1>1. s[c] \in Chunk
  OBVIOUS
<1>2. s[c].first \in 1..text.count /\ s[c].last \in 1..text.count /\ text.count \in Nat
  BY <1>1 DEF TypeOK, IsText, Chunk
<1> QED BY <1>2

LEMMA EmitKeeps == PInv /\ Emit => PInv'
<1> SUFFICES ASSUME PInv, Emit PROVE PInv'
  OBVIOUS
<1> USE PackerAssumption
<1>1. /\ first < next /\ next <= text.count /\ chunks' = Emitted /\ text' = text
      /\ next' = next + 1 /\ first' = TailStart /\ Span(first, next) > ChunkSize
  BY DEF Emit, Full
<1>2. TypeOK /\ IsText(text) /\ text.count \in Nat /\ next \in 1..text.count /\ first \in 1..next
  BY <1>1 DEF PInv, TypeOK, IsText
<1>3. first' \in first..next /\ Span(first', next - 1) <= Overlap
  BY <1>1, <1>2, TailBounded
<1>4. Emitted \in Seq(Chunk)
  BY <1>1, <1>2, EmittedChunks
<1>5. TypeOK'
  BY <1>1, <1>2, <1>3, <1>4 DEF TypeOK, Chunk
<1>6. Bounded' /\ Progress' /\ Dense'
  BY <1>1, EmissionKeeps
<1>7. Covered'
  <2> SUFFICES ASSUME NEW i \in 1..next, i \notin text.blank, ~(i >= first')
               PROVE  \E c \in DOMAIN chunks' : In(i, c)'
    BY <1>1, <1>2 DEF Covered
  <2>1. i \in 1..(next - 1)
    BY <1>2, <1>3
  <2>2. PICK c \in DOMAIN Emitted : i \in Emitted[c].first..Emitted[c].last
    BY <1>1, <2>1, EmissionCovers
  <2> QED BY <1>1, <2>2 DEF In
<1>8. Behind'
  <2> SUFFICES ASSUME NEW c \in DOMAIN Emitted
        PROVE /\ Emitted[c].first <= first' /\ Emitted[c].first <= Emitted[c].last
              /\ Emitted[c].last < next
              /\ \/ first' > Emitted[c].last
                 \/ Span(first', Emitted[c].last) <= Overlap
              /\ Span(Emitted[c].first, Emitted[c].last + 1) > ChunkSize
    <3>1. \A k \in Int : k < next => k < next + 1 /\ k < (next + 1) - 1
      BY <1>2
    <3>2. \A d \in DOMAIN Emitted : Emitted[d].last \in Int
      BY <1>2, <1>4, ChunkEnds
    <3> QED BY <1>1, <3>1, <3>2 DEF Behind, Span
  <2>1. CASE c \in DOMAIN chunks /\ Emitted[c] = chunks[c]
    <3>1. /\ chunks[c].first <= first /\ chunks[c].first <= chunks[c].last
          /\ chunks[c].last < next
          /\ first > chunks[c].last \/ Span(first, chunks[c].last) <= Overlap
          /\ Span(chunks[c].first, chunks[c].last + 1) > ChunkSize
      BY <2>1, <1>1 DEF PInv, Behind
    <3>2. chunks[c].first \in 1..text.count /\ chunks[c].last \in 1..text.count
      BY <2>1, <1>2, ChunkEnds DEF TypeOK
    <3>3. Span(first', chunks[c].last) <= Span(first, chunks[c].last)
      BY <3>2, <1>2, <1>3, SpanShrinks
    <3>4. /\ Span(first', chunks[c].last) \in Int /\ Span(first, chunks[c].last) \in Int
      BY <3>2, <1>2, <1>3, SpanType
    <3>5. first' > chunks[c].last \/ Span(first', chunks[c].last) <= Overlap
      BY <3>1, <3>2, <3>3, <3>4, <1>2, <1>3
    <3> QED BY <3>1, <3>2, <3>5, <1>2, <1>3, <2>1
  <2>2. CASE Emitted[c] = [first |-> first, last |-> next - 1]
    <3>1. Emitted[c].first = first /\ Emitted[c].last = next - 1 /\ next - 1 + 1 = next
      BY <2>2, <1>2
    <3> QED BY <3>1, <1>1, <1>2, <1>3
  <2> QED BY <2>1, <2>2, <1>1, <1>2, EmittedChunks
<1>9. BufferBounded'
  <2>1. (next + 1) - 2 = next - 1
    BY <1>2
  <2> QED BY <2>1, <1>1, <1>3 DEF BufferBounded, Span
<1>10. BufferEmpty'
  BY <1>1, <1>2, <1>3 DEF BufferEmpty
<1> QED BY <1>5, <1>6, <1>7, <1>8, <1>9, <1>10 DEF PInv

LEMMA TakeKeeps == PInv /\ Take => PInv'
<1> SUFFICES ASSUME PInv, Take PROVE PInv'
  OBVIOUS
<1> USE PackerAssumption
<1>1. /\ next <= text.count /\ ~Full /\ chunks' = chunks /\ text' = text
      /\ next' = next + 1 /\ first' = first
  BY DEF Take
<1>2. TypeOK /\ IsText(text) /\ text.count \in Nat /\ next \in 1..text.count /\ first \in 1..next
  <2>1. next <= text.count
    BY <1>1
  <2> QED BY <2>1 DEF PInv, TypeOK, IsText
<1>3. TypeOK'
  BY <1>1, <1>2 DEF TypeOK, Chunk
<1>4. Bounded' /\ Progress' /\ Dense'
  BY <1>1 DEF PInv, Bounded, Progress, Dense, Span
<1>5. Covered'
  <2> SUFFICES ASSUME NEW i \in 1..next, i \notin text.blank, ~(i >= first)
               PROVE  \E c \in DOMAIN chunks : In(i, c)
    BY <1>1, <1>2 DEF Covered, In
  <2>1. i \in 1..(next - 1)
    BY <1>2
  <2> QED BY <2>1 DEF PInv, Covered
<1>6. Behind'
  <2>1. CASE first = next
    BY <2>1, <1>1, <1>2 DEF PInv, BufferEmpty, Behind
  <2>2. CASE first < next
    <3> SUFFICES ASSUME NEW c \in DOMAIN chunks
          PROVE /\ chunks[c].first <= first /\ chunks[c].first <= chunks[c].last
                /\ chunks[c].last < next + 1 /\ chunks[c].last < (next + 1) - 1
                /\ first > chunks[c].last \/ Span(first, chunks[c].last) <= Overlap
                /\ Span(chunks[c].first, chunks[c].last + 1) > ChunkSize
      BY <1>1 DEF Behind, Span
    <3>1. chunks[c].last \in Int
      BY <1>2, ChunkEnds DEF TypeOK
    <3> QED BY <3>1, <2>2, <1>2 DEF PInv, Behind
  <2> QED BY <2>1, <2>2, <1>2
<1>7. BufferBounded'
  <2>1. CASE first = next
    <3>1. Span(first, next - 1) = 0 /\ (next + 1) - 2 = next - 1
      BY <2>1, <1>2, SpanEmpty
    <3> QED BY <3>1, <1>1 DEF BufferBounded, Span
  <2>2. CASE first < next
    <3>1. Span(first, next) <= ChunkSize
      BY <2>2, <1>1, <1>2, SpanType DEF Full
    <3>2. (next + 1) - 1 = next
      BY <1>2
    <3> QED BY <3>1, <3>2, <1>1 DEF BufferBounded, Span
  <2> QED BY <2>1, <2>2, <1>2
<1>8. BufferEmpty'
  BY <1>1, <1>2 DEF BufferEmpty
<1> QED BY <1>3, <1>4, <1>5, <1>6, <1>7, <1>8 DEF PInv

LEMMA FlushKeeps == PInv /\ Flush => PInv'
<1> SUFFICES ASSUME PInv, Flush PROVE PInv'
  OBVIOUS
<1> USE PackerAssumption
<1>1. /\ next > text.count /\ first < next /\ chunks' = Emitted /\ text' = text
      /\ next' = next /\ first' = next
  BY DEF Flush
<1>2. /\ TypeOK /\ IsText(text) /\ text.count \in Nat
      /\ next \in 1..(text.count + 1) /\ first \in 1..next
  BY <1>1 DEF PInv, TypeOK, IsText
<1>3. Emitted \in Seq(Chunk)
  BY <1>1, <1>2, EmittedChunks
<1>4. TypeOK'
  BY <1>1, <1>2, <1>3 DEF TypeOK, Chunk
<1>5. Bounded' /\ Progress' /\ Dense'
  BY <1>1, EmissionKeeps
<1>6. Covered'
  <2> SUFFICES ASSUME NEW i \in 1..(next - 1), i \notin text.blank
               PROVE  \E c \in DOMAIN chunks' : In(i, c)'
    BY <1>1, <1>2 DEF Covered
  <2>1. PICK c \in DOMAIN Emitted : i \in Emitted[c].first..Emitted[c].last
    BY <1>1, EmissionCovers
  <2> QED BY <1>1, <2>1 DEF In
<1>7. Behind'
  <2> SUFFICES ASSUME NEW c \in DOMAIN Emitted
        PROVE /\ Emitted[c].first <= next /\ Emitted[c].first <= Emitted[c].last
              /\ Emitted[c].last < next
    <3>1. \A d \in DOMAIN Emitted : Emitted[d].last \in Int
      BY <1>3, <1>2, ChunkEnds
    <3> QED BY <1>1, <1>2, <3>1 DEF Behind
  <2>1. CASE c \in DOMAIN chunks /\ Emitted[c] = chunks[c]
    <3>1. chunks[c].first \in Int /\ chunks[c].last \in Int
      BY <2>1, <1>2, ChunkEnds DEF TypeOK
    <3> QED BY <2>1, <3>1, <1>1, <1>2 DEF PInv, Behind
  <2>2. CASE Emitted[c] = [first |-> first, last |-> next - 1]
    BY <2>2, <1>1, <1>2
  <2> QED BY <2>1, <2>2, <1>1, <1>2, EmittedChunks
<1>8. BufferBounded' /\ BufferEmpty'
  BY <1>1, <1>2 DEF BufferBounded, BufferEmpty
<1> QED BY <1>4, <1>5, <1>6, <1>7, <1>8 DEF PInv

LEMMA StepInv == PInv /\ [Next]_vars => PInv'
<1>1. ASSUME PInv, UNCHANGED vars PROVE PInv'
  BY <1>1 DEF vars, PInv, TypeOK, Chunk, Covered, In, Bounded, Progress, Dense, Behind,
              BufferBounded, BufferEmpty, Span
<1> QED BY <1>1, EmitKeeps, TakeKeeps, FlushKeeps DEF Next

-----------------------------------------------------------------------------
\* The theorems.

LEMMA Invariance == Spec => []PInv
  BY InitInv, StepInv, PTL DEF Spec

\* _merge, for every list of pieces: it emits sequences of pieces of the text.
THEOREM PackerTypeCorrect == Spec => []TypeOK
<1>1. PInv => TypeOK
  BY DEF PInv
<1> QED BY <1>1, Invariance, PTL

\* _merge loses no text: every piece that is not blank ends up in a chunk.
THEOREM NothingLost == Spec => []Covered
<1>1. PInv => Covered
  BY DEF PInv
<1> QED BY <1>1, Invariance, PTL

\* No chunk of _merge is longer than chunk_size, but for an overlap tail with one
\* more piece.
THEOREM ChunksBounded == Spec => []Bounded
<1>1. PInv => Bounded
  BY DEF PInv
<1> QED BY <1>1, Invariance, PTL

\* Successive chunks of _merge advance through the text and share no more than
\* the overlap.
THEOREM ChunksAdvance == Spec => []Progress
<1>1. PInv => Progress
  BY DEF PInv
<1> QED BY <1>1, Invariance, PTL

\* _merge leaves no chunk short: the piece after it would not have fitted.
THEOREM ChunksDense == Spec => []Dense
<1>1. PInv => Dense
  BY DEF PInv
<1> QED BY <1>1, Invariance, PTL

=============================================================================
