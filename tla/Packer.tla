-------------------------------- MODULE Packer --------------------------------
(***************************************************************************)
(* The packer of chunking.py: _merge takes the pieces a text was split      *)
(* into, one after the other, and joins them into chunks that overlap.     *)
(*                                                                         *)
(* A piece is known by its number; what the packer looks at is where it     *)
(* starts in the joined pieces and whether it is blank.  Its buffer always    *)
(* holds consecutive pieces, first..next-1.                                *)
(***************************************************************************)
EXTENDS Integers, Sequences

CONSTANTS
  Texts,             \* piece lists: count, where each piece starts, the blank ones
  ChunkSize, Overlap \* CHUNK_SIZE, CHUNK_OVERLAP

IsText(t) ==
  /\ t.count \in Nat
  /\ t.start \in [1..(t.count + 1) -> Nat]
  /\ \A i, j \in 1..(t.count + 1) : i < j => t.start[i] < t.start[j]
  /\ t.blank \subseteq 1..t.count

\* _split_on drops empty pieces, and recursive_split empty chunks.
ASSUME PackerAssumption ==
  /\ \A t \in Texts : IsText(t)
  /\ ChunkSize \in Nat \ {0} /\ Overlap \in Nat

VARIABLES
  text,
  first, next,       \* the buffer holds pieces first..next-1
  chunks             \* the chunks emitted

vars == <<text, first, next, chunks>>

Chunk == [first : 1..text.count, last : 1..text.count]

TypeOK ==
  /\ IsText(text)
  /\ next \in 1..(text.count + 1) /\ first \in 1..next
  /\ chunks \in Seq(Chunk)

Init ==
  /\ text \in Texts
  /\ first = 1 /\ next = 1 /\ chunks = <<>>

-----------------------------------------------------------------------------
\* The length of pieces a..b.
Span(a, b) == text.start[b + 1] - text.start[a]

\* Variant of Full: the size is tested once the piece is in the buffer.
FullLate == first < next /\ Span(first, next - 1) > ChunkSize

\* Variant of Full: a buffer is emitted as soon as it reaches the overlap.
FullEarly == first < next /\ Span(first, next - 1) > Overlap

\* buf_len + piece_len > chunk_size, with a piece in the buffer.
Full == first < next /\ Span(first, next) > ChunkSize

\* Variant of Emitted: a chunk is dropped when any of its pieces is blank.
EmittedIfSolid ==
  IF (first..(next - 1)) \cap text.blank # {} THEN chunks
  ELSE Append(chunks, [first |-> first, last |-> next - 1])

\* Variant of Emitted: the piece that did not fit is in the chunk already.
EmittedNext == Append(chunks, [first |-> first, last |-> next])

\* The joined buffer is stripped and appended, unless nothing is left of it.
Emitted ==
  IF first..(next - 1) \subseteq text.blank THEN chunks
  ELSE Append(chunks, [first |-> first, last |-> next - 1])

\* Variant of TailStart: the length is tested before the piece is added to it.
TailStartLate ==
  CHOOSE f \in first..next :
    /\ f = next \/ Span(f + 1, next - 1) <= Overlap
    /\ \A g \in first..(f - 1) : Span(g + 1, next - 1) > Overlap

\* Where the overlap tail starts: the longest run of last pieces of the buffer
\* that is no longer than overlap.
TailStart ==
  CHOOSE f \in first..next :
    /\ Span(f, next - 1) <= Overlap
    /\ \A g \in first..(f - 1) : Span(g, next - 1) > Overlap

\* The next piece does not fit: emit the buffer, keep its tail, take the piece.
Emit ==
  /\ next <= text.count /\ Full
  /\ chunks' = Emitted
  /\ first' = TailStart
  /\ next' = next + 1
  /\ UNCHANGED text

\* The next piece fits, or the buffer is empty.
Take ==
  /\ next <= text.count /\ ~Full
  /\ next' = next + 1
  /\ UNCHANGED <<text, first, chunks>>

\* After the last piece what is left in the buffer is emitted.
Flush ==
  /\ next > text.count /\ first < next
  /\ chunks' = Emitted
  /\ first' = next
  /\ UNCHANGED <<text, next>>

Next == Emit \/ Take \/ Flush

Spec == Init /\ [][Next]_vars
-----------------------------------------------------------------------------
\* Properties.

In(i, c) == i \in chunks[c].first..chunks[c].last

\* No text is lost between two chunks (_merge): every piece taken is blank, or in
\* the buffer, or in a chunk.
Covered ==
  \A i \in 1..(next - 1) :
    \/ i \in text.blank \/ i >= first
    \/ \E c \in DOMAIN chunks : In(i, c)

\* A chunk is no longer than chunk_size, unless it is an overlap tail and one more
\* piece, which _merge appends without testing the size again.
Bounded ==
  \A c \in DOMAIN chunks :
    \/ Span(chunks[c].first, chunks[c].last) <= ChunkSize
    \/ Span(chunks[c].first, chunks[c].last - 1) <= Overlap

\* Every chunk holds a piece no chunk before it holds, starts no earlier, and
\* repeats at most overlap characters of any of them.
Progress ==
  \A c, d \in DOMAIN chunks : c < d =>
    /\ chunks[c].first <= chunks[d].first /\ chunks[c].last < chunks[d].last
    /\ \/ chunks[d].first > chunks[c].last
       \/ Span(chunks[d].first, chunks[c].last) <= Overlap

\* A chunk that another follows could not have held one more piece: the packer
\* does not leave short chunks behind.
Dense ==
  \A c, d \in DOMAIN chunks : c < d =>
    Span(chunks[c].first, chunks[c].last + 1) > ChunkSize

=============================================================================
