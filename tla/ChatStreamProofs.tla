-------------------------- MODULE ChatStreamProofs --------------------------
(***************************************************************************)
(* Proofs about ChatStream: what the cache and the chats keep was generated *)
(* as it is, and a streaming client has seen what is saved.                *)
(***************************************************************************)
EXTENDS ChatStream, TLAPS

\* A request whose answer is complete, cut or given up: no step changes its
\* generation any more.
Settled(q) == pc[q] \in {"store", "persist", "reply"} \cup Ended

\* A generation for q as it was, or marked as cut.
Generated(t, q) == WholeOf(t, q) \/ CutOf(t, q)

FromDocuments(t) ==
  \E q \in Requests : Settled(q) /\ mode[q] = "documents" /\ Generated(t, q)

\* What may be saved for request r.
Kept(t, r) ==
  \/ t = <<NoDocs>> /\ mode[r] = "nothing"
  \/ \E q \in Requests : Settled(q) /\ Generated(t, q)

\* s is a part of t, from its start.
Begins(s, t) == Len(s) <= Len(t) /\ \A i \in 1..Len(s) : s[i] = t[i]

Starting(r) ==
  /\ pc[r] \in {"idle", "meta", "canned", "call"} => text[r] = <<>>
  /\ pc[r] = "idle" => sent[r] = <<>>
  /\ pc[r] \in {"idle", "meta", "call"} => attempts[r] < MaxAttempts
  /\ pc[r] = "canned" => mode[r] = "nothing"

Replaying(r) ==
  /\ pc[r] = "replay" => mode[r] = "cache" /\ Begins(text[r], replay[r])
  /\ pc[r] \in {"meta", "replay"} /\ mode[r] = "cache" =>
       replay[r] \in Text /\ FromDocuments(replay[r])

Generating(r) ==
  /\ pc[r] \in {"read", "fail"} =>
       Len(text[r]) <= full[r] /\ \A i \in 1..Len(text[r]) : text[r][i] = Word(r, i)
  /\ pc[r] = "store" => Generated(text[r], r)

Saving(r) ==
  /\ pc[r] = "persist" => Kept(text[r], r)
  /\ pc[r] \in {"reply", "done"} => saved[r] = text[r]
  /\ saved[r] # None => /\ pc[r] \in {"reply"} \cup Ended
                        /\ saved[r] = text[r] /\ Kept(saved[r], r)

Sending(r) ==
  /\ Streams(r) => sent[r] = text[r]
  /\ pc[r] = "done" => sent[r] = text[r]

Local(r) == Starting(r) /\ Replaying(r) /\ Generating(r) /\ Saving(r) /\ Sending(r)

CacheKept == cached # None => FromDocuments(cached)

IInv == TypeOK /\ (\A r \in Requests : Local(r)) /\ CacheKept

-----------------------------------------------------------------------------
LEMMA AppendOne ==
  ASSUME NEW S, NEW s \in Seq(S), NEW e \in S
  PROVE  /\ s \o <<e>> \in Seq(S) /\ Len(s \o <<e>>) = Len(s) + 1
         /\ \A i \in 1..Len(s) : (s \o <<e>>)[i] = s[i]
         /\ (s \o <<e>>)[Len(s) + 1] = e
  BY SMT

LEMMA InText ==
  /\ <<>> \in Text /\ NoDocs \in Words \cup {Notice, NoDocs}
  /\ Notice \in Words \cup {Notice, NoDocs}
  /\ \A r \in Requests, i \in 1..MaxWords : Word(r, i) \in Words \cup {Notice, NoDocs}
  BY ChatStreamAssumption DEF Text, Words, Word

LEMMA WordsText ==
  ASSUME NEW r \in Requests, NEW n \in 0..MaxWords
  PROVE  [i \in 1..n |-> Word(r, i)] \in Text
<1>1. \A i \in 1..n : Word(r, i) \in Words \cup {Notice, NoDocs}
  BY InText, ChatStreamAssumption
<1>2. n \in Nat
  BY ChatStreamAssumption
<1> QED
  BY <1>1, <1>2 DEF Text

LEMMA InitInv == Init => IInv
<1> SUFFICES ASSUME Init PROVE IInv
  OBVIOUS
<1>1. TypeOK
  BY InText, ChatStreamAssumption DEF Init, TypeOK, Pcs, Ended
<1>2. ASSUME NEW r \in Requests PROVE Local(r)
  <2>1. /\ pc[r] = "idle" /\ text[r] = <<>> /\ sent[r] = <<>> /\ saved[r] = None
        /\ attempts[r] = 0
    BY DEF Init
  <2> QED
    BY <2>1, ChatStreamAssumption
    DEF Local, Starting, Replaying, Generating, Saving, Sending, Streams
<1> QED
  BY <1>1, <1>2 DEF IInv, CacheKept, Init

-----------------------------------------------------------------------------
\* A step of r leaves the other requests alone.
Others(r) ==
  \A q \in Requests \ {r} :
    /\ pc'[q] = pc[q] /\ kind'[q] = kind[q] /\ mode'[q] = mode[q]
    /\ attempts'[q] = attempts[q] /\ full'[q] = full[q] /\ text'[q] = text[q]
    /\ replay'[q] = replay[q] /\ sent'[q] = sent[q] /\ saved'[q] = saved[q]

\* What is settled stays as it is.
Lasting ==
  \A q \in Requests : Settled(q) => Settled(q)' /\ mode'[q] = mode[q] /\ full'[q] = full[q]

LEMMA KeptStays ==
  ASSUME Lasting, NEW t
  PROVE  /\ FromDocuments(t) => FromDocuments(t)'
         /\ \A r \in Requests : mode'[r] = mode[r] /\ Kept(t, r) => Kept(t, r)'
  BY DEF Lasting, FromDocuments, Kept, Generated, WholeOf, CutOf, Word

LEMMA OthersStay ==
  ASSUME NEW r \in Requests, Others(r), Lasting, NEW q \in Requests \ {r}, Local(q)
  PROVE  Local(q)'
<1>1. /\ pc'[q] = pc[q] /\ kind'[q] = kind[q] /\ mode'[q] = mode[q]
      /\ attempts'[q] = attempts[q] /\ full'[q] = full[q] /\ text'[q] = text[q]
      /\ replay'[q] = replay[q] /\ sent'[q] = sent[q] /\ saved'[q] = saved[q]
  BY DEF Others
<1>2. Starting(q)'
  BY <1>1 DEF Local, Starting
<1>3. Replaying(q)'
  BY <1>1, KeptStays DEF Local, Replaying, Begins
<1>4. Generating(q)'
  BY <1>1 DEF Local, Generating, Generated, WholeOf, CutOf, Word
<1>5. Saving(q)'
  <2>1. pc'[q] = "persist" => Kept(text[q], q)'
    BY <1>1, KeptStays DEF Local, Saving
  <2>2. saved[q] # None => Kept(saved[q], q)'
    BY <1>1, KeptStays DEF Local, Saving
  <2> QED
    BY <1>1, <2>1, <2>2 DEF Local, Saving, Kept, Generated, WholeOf, CutOf
<1>6. Sending(q)'
  BY <1>1 DEF Local, Sending, Streams
<1> QED
  BY <1>2, <1>3, <1>4, <1>5, <1>6 DEF Local

LEMMA Together ==
  ASSUME IInv, NEW r \in Requests, TypeOK', Others(r), Lasting, Local(r)',
         cached' = cached \/ CacheKept'
  PROVE  IInv'
<1>1. ASSUME NEW q \in Requests PROVE Local(q)'
  <2>1. CASE q = r
    BY <2>1
  <2>2. CASE q # r
    BY <2>2, OthersStay DEF IInv
  <2> QED
    BY <2>1, <2>2
<1>2. CacheKept'
  <2>1. CASE cached' = cached
    BY <2>1, KeptStays DEF IInv, CacheKept
  <2> QED
    BY <2>1
<1> QED
  BY <1>1, <1>2 DEF IInv

LEMMA BeginStays ==
  ASSUME IInv, NEW r \in Requests, NEW k \in {"chat", "stream"},
         NEW c \in Requests \cup {None},
         NEW m \in {"cache", "documents", "history", "nothing"},
         NEW answer \in {cached, None}, Begin(r, k, c, m, answer)
  PROVE  IInv'
<1>1. TypeOK'
  BY DEF IInv, TypeOK, Begin, At, Goto, Produce, Pcs
<1>2. Others(r) /\ cached' = cached
  BY DEF IInv, TypeOK, Begin, At, Goto, Others
<1>3. Lasting
  BY DEF IInv, TypeOK, Begin, At, Goto, Lasting, Settled, Ended
<1>4. /\ pc[r] = "idle" /\ pc'[r] \in {"meta", Produce(m)} /\ kind'[r] = k /\ mode'[r] = m
      /\ replay'[r] = answer /\ attempts'[r] = attempts[r] /\ text'[r] = text[r]
      /\ sent'[r] = sent[r] /\ saved'[r] = saved[r]
  BY DEF IInv, TypeOK, Begin, At, Goto
<1>5. text[r] = <<>> /\ sent[r] = <<>> /\ attempts[r] < MaxAttempts /\ saved[r] = None
  BY <1>4 DEF IInv, Local, Starting, Saving, Ended
<1>6. m = "cache" => answer \in Text /\ FromDocuments(answer)'
  BY <1>3, KeptStays DEF IInv, TypeOK, CacheKept, Begin
<1>7. Local(r)'
  <2>1. /\ pc'[r] \in {"meta", "replay", "canned", "call"}
        /\ pc'[r] = "replay" => m = "cache"
        /\ pc'[r] = "canned" => m = "nothing"
    BY <1>4 DEF Produce
  <2>2. Starting(r)' /\ Generating(r)' /\ Sending(r)'
    BY <1>4, <1>5, <2>1 DEF Starting, Generating, Sending, Streams
  <2>3. Replaying(r)'
    BY <1>4, <1>5, <1>6, <2>1 DEF Replaying, Begins, Text
  <2>4. Saving(r)'
    BY <1>4, <1>5, <2>1 DEF Saving
  <2> QED
    BY <2>2, <2>3, <2>4 DEF Local
<1> QED
  BY <1>1, <1>2, <1>3, <1>7, Together

LEMMA SendMetaStays ==
  ASSUME IInv, NEW r \in Requests, SendMeta(r)
  PROVE  IInv'
<1>1. TypeOK'
  BY DEF IInv, TypeOK, SendMeta, At, Goto, Produce, Pcs
<1>2. Others(r) /\ cached' = cached
  BY DEF IInv, TypeOK, SendMeta, At, Goto, Others
<1>3. Lasting
  BY DEF IInv, TypeOK, SendMeta, At, Goto, Lasting, Settled, Ended
<1>4. /\ pc[r] = "meta" /\ pc'[r] = Produce(mode[r]) /\ kind' = kind /\ mode' = mode
      /\ replay' = replay /\ attempts' = attempts /\ text' = text
      /\ sent' = sent /\ saved' = saved
  BY DEF IInv, TypeOK, SendMeta, At, Goto
<1>5. Local(r)
  BY DEF IInv
<1>6. /\ pc'[r] \in {"replay", "canned", "call"}
      /\ pc'[r] = "replay" => mode[r] = "cache"
      /\ pc'[r] = "canned" => mode[r] = "nothing"
  BY <1>4 DEF Produce, IInv, TypeOK
<1>7. Local(r)'
  <2>1. Starting(r)' /\ Generating(r)' /\ Sending(r)'
    BY <1>4, <1>5, <1>6 DEF Local, Starting, Generating, Sending, Streams
  <2>2. Replaying(r)'
    BY <1>3, <1>4, <1>5, <1>6, KeptStays DEF Local, Starting, Replaying, Begins, Text
  <2>3. Saving(r)'
    BY <1>4, <1>5, <1>6 DEF Local, Saving, Ended
  <2> QED
    BY <2>1, <2>2, <2>3 DEF Local
<1> QED
  BY <1>1, <1>2, <1>3, <1>7, Together

LEMMA ReplayStays ==
  ASSUME IInv, NEW r \in Requests, Replay(r)
  PROVE  IInv'
<1>1. /\ pc[r] = "replay" /\ Local(r) /\ text[r] \in Text /\ replay[r] \in Text
      /\ Begins(text[r], replay[r]) /\ FromDocuments(replay[r])
  BY DEF IInv, TypeOK, Replay, At, Local, Replaying
<1>2. CASE Streams(r) /\ text[r] # replay[r]
  <2> DEFINE w == replay[r][Len(text[r]) + 1]
  <2>1. Emit(r, <<w>>) /\ pc' = pc /\ Same /\ UNCHANGED <<attempts, full>>
    BY <1>2 DEF Replay
  <2>2. Len(text[r]) + 1 \in 1..Len(replay[r])
    BY <1>1, <1>2 DEF Begins, Text
  <2>3. w \in Words \cup {Notice, NoDocs}
    BY <1>1, <2>2 DEF Text
  <2>4. sent[r] = text[r] /\ sent[r] \in Text
    BY <1>1, <1>2 DEF Local, Sending, IInv, TypeOK
  <2>5. /\ text' = [text EXCEPT ![r] = text[r] \o <<w>>]
        /\ sent' = [sent EXCEPT ![r] = text[r] \o <<w>>]
    BY <1>2, <2>1, <2>4 DEF Emit
  <2>6. /\ text[r] \o <<w>> \in Text /\ Len(text[r] \o <<w>>) = Len(text[r]) + 1
        /\ \A i \in 1..Len(text[r]) : (text[r] \o <<w>>)[i] = text[r][i]
        /\ (text[r] \o <<w>>)[Len(text[r]) + 1] = w
    BY <1>1, <2>3, AppendOne DEF Text
  <2> HIDE DEF w
  <2>7. TypeOK'
    BY <2>1, <2>5, <2>6 DEF IInv, TypeOK, Same
  <2>8. Others(r) /\ cached' = cached /\ Lasting
    BY <2>1, <2>5 DEF IInv, TypeOK, Same, Others, Lasting, Settled, Ended
  <2>9. text'[r] = text[r] \o <<w>> /\ sent'[r] = text'[r]
    BY <2>5 DEF IInv, TypeOK
  <2>10. Begins(text[r] \o <<w>>, replay[r])
    BY <1>1, <2>2, <2>6 DEF Begins, Text, w
  <2>11. Local(r)'
    <3>1. Starting(r)' /\ Generating(r)' /\ Sending(r)'
      BY <1>1, <2>1, <2>9 DEF Same, Local, Starting, Generating, Sending
    <3>2. Replaying(r)'
      BY <1>1, <2>1, <2>8, <2>9, <2>10, KeptStays DEF Same, Local, Replaying, Begins
    <3>3. Saving(r)'
      BY <1>1, <2>1 DEF Same, Local, Saving, Ended
    <3> QED
      BY <3>1, <3>2, <3>3 DEF Local
  <2> QED
    BY <2>7, <2>8, <2>11, Together
<1>3. CASE ~(Streams(r) /\ text[r] # replay[r])
  <2>1. /\ text' = [text EXCEPT ![r] = replay[r]] /\ sent' = sent
        /\ pc' = [pc EXCEPT ![r] = "persist"] /\ Same /\ UNCHANGED <<attempts, full>>
    BY <1>3 DEF Replay, Goto
  <2>2. TypeOK'
    BY <1>1, <2>1 DEF IInv, TypeOK, Same, Pcs
  <2>3. Others(r) /\ cached' = cached /\ Lasting
    BY <1>1, <2>1 DEF IInv, TypeOK, Same, Others, Lasting, Settled, Ended
  <2>4. text'[r] = replay[r] /\ pc'[r] = "persist" /\ (Streams(r) => text[r] = replay[r])
    BY <1>3, <2>1 DEF IInv, TypeOK
  <2>5. FromDocuments(replay[r])'
    BY <1>1, <2>1, <2>3, KeptStays DEF Same
  <2>6. Kept(text[r], r)'
    BY <2>1, <2>4, <2>5 DEF Same, FromDocuments, Kept
  <2>7. Local(r)'
    BY <1>1, <2>1, <2>4, <2>6
    DEF Same, Local, Starting, Replaying, Generating, Saving, Sending, Streams, Ended
  <2> QED
    BY <2>2, <2>3, <2>7, Together
<1> QED
  BY <1>2, <1>3

LEMMA CannedStays ==
  ASSUME IInv, NEW r \in Requests, Canned(r)
  PROVE  IInv'
<1>1. pc[r] = "canned" /\ Local(r) /\ text[r] = <<>> /\ mode[r] = "nothing"
  BY DEF IInv, Canned, At, Local, Starting
<1>2. <<>> \o <<NoDocs>> = <<NoDocs>> /\ <<NoDocs>> \in Text
  BY InText DEF Text
<1>3. /\ text' = [text EXCEPT ![r] = <<NoDocs>>]
      /\ sent' = IF Streams(r) THEN [sent EXCEPT ![r] = <<NoDocs>>] ELSE sent
      /\ pc' = [pc EXCEPT ![r] = "persist"] /\ Same /\ UNCHANGED <<attempts, full>>
  BY <1>1, <1>2 DEF Canned, Emit, Goto, Local, Sending
<1>4. TypeOK'
  BY <1>2, <1>3 DEF IInv, TypeOK, Same, Pcs
<1>5. Others(r) /\ cached' = cached /\ Lasting
  BY <1>1, <1>3 DEF IInv, TypeOK, Same, Others, Lasting, Settled, Ended
<1>6. text'[r] = <<NoDocs>> /\ pc'[r] = "persist" /\ (Streams(r) => sent'[r] = <<NoDocs>>)
  BY <1>3 DEF IInv, TypeOK
<1>7. Local(r)'
  BY <1>1, <1>3, <1>6
  DEF Same, Local, Starting, Replaying, Generating, Saving, Sending, Streams, Ended, Kept
<1> QED
  BY <1>4, <1>5, <1>7, Together

-----------------------------------------------------------------------------
\* The model is called only while nothing has been collected.
LEMMA CallModelStays ==
  ASSUME IInv, NEW r \in Requests, CallModel(r)
  PROVE  IInv'
<1>1. pc[r] = "call" /\ Local(r) /\ text[r] = <<>> /\ attempts[r] < MaxAttempts /\ saved[r] = None
  BY DEF IInv, CallModel, At, Local, Starting, Saving, Ended
<1>2. Same /\ sent' = sent
  BY DEF CallModel
<1>3. /\ pc' = [pc EXCEPT ![r] = pc'[r]] /\ pc'[r] \in {"call", "read", "store", "fail"}
      /\ attempts' = [attempts EXCEPT ![r] = attempts'[r]] /\ attempts'[r] \in 0..MaxAttempts
      /\ full' = [full EXCEPT ![r] = full'[r]] /\ full'[r] \in 0..MaxWords
      /\ text' = [text EXCEPT ![r] = text'[r]]
      /\ pc'[r] = "call" => attempts'[r] < MaxAttempts
      /\ pc'[r] # "store" => text'[r] = <<>>
      /\ pc'[r] = "store" => ~Streams(r) /\ text'[r] = [i \in 1..full'[r] |-> Word(r, i)]
  <2>1. CASE /\ \E n \in 0..MaxWords : full' = [full EXCEPT ![r] = n]
             /\ IF Streams(r) THEN UNCHANGED text
                ELSE text' = [text EXCEPT ![r] = [i \in 1..full'[r] |-> Word(r, i)]]
             /\ Goto(r, IF Streams(r) THEN "read" ELSE "store")
             /\ UNCHANGED attempts
    BY <1>1, <2>1 DEF IInv, TypeOK, Goto
  <2>2. CASE Attempt(r) /\ UNCHANGED <<full, text>>
    BY <1>1, <2>2, ChatStreamAssumption DEF IInv, TypeOK, Attempt, Goto
  <2>3. CASE Goto(r, "fail") /\ UNCHANGED <<attempts, full, text>>
    BY <1>1, <2>3 DEF IInv, TypeOK, Goto
  <2> QED
    BY <2>1, <2>2, <2>3 DEF CallModel
<1>4. text'[r] \in Text
  <2>1. CASE pc'[r] = "store"
    <3>1. text'[r] = [i \in 1..full'[r] |-> Word(r, i)] /\ full'[r] \in 0..MaxWords
      BY <1>3, <2>1
    <3> QED
      BY <3>1, WordsText
  <2>2. CASE pc'[r] # "store"
    <3>1. text'[r] = <<>>
      BY <1>3, <2>2
    <3> QED
      BY <3>1, InText
  <2> QED
    BY <2>1, <2>2
<1>5. TypeOK'
  <2>1. text \in [Requests -> Text] /\ text' = [text EXCEPT ![r] = text'[r]]
    BY <1>3 DEF IInv, TypeOK
  <2>2. text' \in [Requests -> Text]
    BY <1>4, <2>1
  <2>3. pc \in [Requests -> Pcs] /\ pc'[r] \in Pcs
    BY <1>3 DEF IInv, TypeOK, Pcs
  <2>4. pc' \in [Requests -> Pcs]
    BY <1>3, <2>3
  <2>5. attempts' \in [Requests -> 0..MaxAttempts] /\ full' \in [Requests -> 0..MaxWords]
    BY <1>3 DEF IInv, TypeOK
  <2> QED
    BY <1>2, <2>2, <2>4, <2>5 DEF IInv, TypeOK, Same
<1>6. Others(r) /\ cached' = cached
  BY <1>2, <1>3 DEF IInv, TypeOK, Same, Others
<1>7. Lasting
  BY <1>1, <1>2, <1>3 DEF IInv, TypeOK, Same, Lasting, Settled, Ended
<1>8. Local(r)'
  <2>1. Starting(r)' /\ Replaying(r)' /\ Saving(r)' /\ Sending(r)'
    BY <1>1, <1>2, <1>3
    DEF Same, Local, Starting, Replaying, Saving, Sending, Streams, Ended
  <2>2. Generating(r)'
    BY <1>3 DEF Generating, Generated, WholeOf, Word
  <2> QED
    BY <2>1, <2>2 DEF Local
<1> QED
  BY <1>5, <1>6, <1>7, <1>8, Together

LEMMA ReadStays ==
  ASSUME IInv, NEW r \in Requests, Read(r)
  PROVE  IInv'
<1>1. /\ pc[r] = "read" /\ Local(r) /\ text[r] \in Text /\ full[r] \in 0..MaxWords
      /\ Len(text[r]) <= full[r] /\ \A i \in 1..Len(text[r]) : text[r][i] = Word(r, i)
      /\ saved[r] = None
  BY DEF IInv, TypeOK, Read, At, Local, Generating, Saving, Ended
<1>2. Same /\ full' = full
  BY DEF Read
<1>3. CASE Len(text[r]) < full[r] /\ Emit(r, <<Word(r, Len(text[r]) + 1)>>)
           /\ UNCHANGED <<pc, attempts>>
  <2> DEFINE w == Word(r, Len(text[r]) + 1)
  <2>1. w \in Words \cup {Notice, NoDocs}
    <3>1. Len(text[r]) \in Nat
      BY <1>1 DEF Text
    <3>2. Len(text[r]) + 1 \in 1..MaxWords
      BY <1>1, <1>3, <3>1, ChatStreamAssumption
    <3> QED
      BY <3>2, InText
  <2>2. Streams(r) => sent[r] = text[r]
    BY <1>1 DEF Local, Sending
  <2>3. /\ text' = [text EXCEPT ![r] = text[r] \o <<w>>]
        /\ sent' = IF Streams(r) THEN [sent EXCEPT ![r] = text[r] \o <<w>>] ELSE sent
    BY <1>3, <2>2 DEF Emit
  <2>4. /\ text[r] \o <<w>> \in Text /\ Len(text[r] \o <<w>>) = Len(text[r]) + 1
        /\ \A i \in 1..Len(text[r]) : (text[r] \o <<w>>)[i] = text[r][i]
        /\ (text[r] \o <<w>>)[Len(text[r]) + 1] = w
    BY <1>1, <2>1, AppendOne DEF Text
  <2>5. \A i \in 1..Len(text[r] \o <<w>>) : (text[r] \o <<w>>)[i] = Word(r, i)
    BY <1>1, <2>4 DEF Text
  <2> HIDE DEF w
  <2>6. TypeOK'
    BY <1>2, <1>3, <2>3, <2>4 DEF IInv, TypeOK, Same
  <2>7. Others(r) /\ cached' = cached /\ Lasting
    BY <1>2, <1>3, <2>3 DEF IInv, TypeOK, Same, Others, Lasting, Settled, Ended
  <2>8. text'[r] = text[r] \o <<w>> /\ (Streams(r) => sent'[r] = text[r] \o <<w>>)
    BY <2>3 DEF IInv, TypeOK
  <2>9. Generating(r)'
    BY <1>1, <1>2, <1>3, <2>4, <2>5, <2>8 DEF Generating, Word, Text
  <2>10. Local(r)'
    BY <1>1, <1>2, <1>3, <2>8, <2>9
    DEF Same, Local, Starting, Replaying, Saving, Sending, Streams
  <2> QED
    BY <2>6, <2>7, <2>10, Together
<1>4. CASE /\ (Len(text[r]) = full[r] /\ Goto(r, "store")) \/ ReadFails(r)
           /\ UNCHANGED <<attempts, text, sent>>
  <2>1. /\ pc' = [pc EXCEPT ![r] = pc'[r]] /\ pc'[r] \in {"store", "fail"}
        /\ pc'[r] = "store" => Len(text[r]) = full[r]
    BY <1>4 DEF IInv, TypeOK, Goto, ReadFails
  <2>2. TypeOK'
    BY <1>2, <1>4, <2>1 DEF IInv, TypeOK, Same, Pcs
  <2>3. Others(r) /\ cached' = cached
    BY <1>2, <1>4, <2>1 DEF IInv, TypeOK, Same, Others
  <2>4. Lasting
    BY <1>1, <1>2, <2>1 DEF IInv, TypeOK, Same, Lasting, Settled, Ended
  <2>5. ASSUME pc'[r] = "store" PROVE WholeOf(text[r], r)
    <3>1. Len(text[r]) = full[r]
      BY <2>1, <2>5
    <3>2. text[r] = [i \in 1..Len(text[r]) |-> text[r][i]]
      BY <1>1 DEF Text
    <3>3. text[r] = [i \in 1..Len(text[r]) |-> Word(r, i)]
      BY <1>1, <3>2
    <3> QED
      BY <3>1, <3>3 DEF WholeOf
  <2>6. Generating(r)'
    BY <1>1, <1>2, <1>4, <2>1, <2>5 DEF Generating, Generated, WholeOf, Word
  <2>7. Local(r)'
    BY <1>1, <1>2, <1>4, <2>1, <2>6
    DEF Same, Local, Starting, Replaying, Saving, Sending, Streams
  <2> QED
    BY <2>2, <2>3, <2>4, <2>7, Together
<1> QED
  BY <1>3, <1>4 DEF Read, ReadFails

LEMMA ApologizeStays ==
  ASSUME IInv, NEW r \in Requests, Apologize(r)
  PROVE  IInv'
<1>1. /\ pc[r] = "fail" /\ Local(r) /\ text[r] \in Text /\ full[r] \in 0..MaxWords
      /\ Len(text[r]) <= full[r] /\ \A i \in 1..Len(text[r]) : text[r][i] = Word(r, i)
      /\ saved[r] = None /\ (Streams(r) => sent[r] = text[r])
  BY DEF IInv, TypeOK, Apologize, At, Local, Generating, Saving, Sending, Ended
<1> DEFINE cut == text[r] \o <<Notice>>
<1>2. /\ text' = [text EXCEPT ![r] = cut]
      /\ sent' = IF Streams(r) THEN [sent EXCEPT ![r] = cut] ELSE sent
      /\ pc' = [pc EXCEPT ![r] = "store"] /\ Same /\ UNCHANGED <<attempts, full>>
  BY <1>1 DEF Apologize, Emit, Goto
<1>3. /\ cut \in Text /\ Len(cut) = Len(text[r]) + 1 /\ cut[Len(text[r]) + 1] = Notice
      /\ \A i \in 1..Len(text[r]) : cut[i] = text[r][i]
  BY <1>1, InText, AppendOne DEF Text
<1> HIDE DEF cut
<1>4. CutOf(cut, r)
  BY <1>1, <1>3 DEF CutOf, Text
<1>5. TypeOK'
  BY <1>2, <1>3 DEF IInv, TypeOK, Same, Pcs
<1>6. Others(r) /\ cached' = cached /\ Lasting
  BY <1>1, <1>2 DEF IInv, TypeOK, Same, Others, Lasting, Settled, Ended
<1>7. text'[r] = cut /\ pc'[r] = "store" /\ (Streams(r) => sent'[r] = cut)
  BY <1>2 DEF IInv, TypeOK
<1>8. Generating(r)'
  BY <1>2, <1>4, <1>7 DEF Generating, Generated, CutOf, Word
<1>9. Local(r)'
  BY <1>1, <1>2, <1>7, <1>8 DEF Same, Local, Starting, Replaying, Saving, Sending, Streams
<1> QED
  BY <1>5, <1>6, <1>9, Together

-----------------------------------------------------------------------------
LEMMA StoreStays ==
  ASSUME IInv, NEW r \in Requests, Store(r)
  PROVE  IInv'
<1>1. pc[r] = "store" /\ Local(r) /\ Generated(text[r], r) /\ saved[r] = None
  BY DEF IInv, Store, At, Local, Generating, Saving, Ended
<1>2. /\ pc' = [pc EXCEPT ![r] = "persist"]
      /\ cached' = IF mode[r] = "documents" THEN text[r] ELSE cached
      /\ UNCHANGED <<kind, mode, chat, attempts, full, text, replay, sent, saved>>
  BY DEF Store, Goto
<1>3. TypeOK'
  BY <1>2 DEF IInv, TypeOK, Pcs
<1>4. Others(r) /\ Lasting
  BY <1>1, <1>2 DEF IInv, TypeOK, Others, Lasting, Settled, Ended
<1>5. pc'[r] = "persist"
  BY <1>2 DEF IInv, TypeOK
<1>6. Settled(r)' /\ Generated(text[r], r)'
  BY <1>1, <1>2, <1>5 DEF Settled, Generated, WholeOf, CutOf, Word
<1>7. cached' = cached \/ CacheKept'
  BY <1>2, <1>6 DEF CacheKept, FromDocuments
<1>8. Local(r)'
  BY <1>1, <1>2, <1>5, <1>6
  DEF Local, Starting, Replaying, Generating, Saving, Sending, Streams, Kept
<1> QED
  BY <1>3, <1>4, <1>7, <1>8, Together

LEMMA PersistStays ==
  ASSUME IInv, NEW r \in Requests, Persist(r)
  PROVE  IInv'
<1>1. pc[r] = "persist" /\ Local(r) /\ Kept(text[r], r)
  BY DEF IInv, Persist, At, Local, Saving
<1>2. /\ pc' = [pc EXCEPT ![r] = "reply"] /\ saved' = [saved EXCEPT ![r] = text[r]]
      /\ chat' = [chat EXCEPT ![r] = IF @ = None THEN r ELSE @]
      /\ UNCHANGED <<kind, mode, attempts, full, text, replay, sent, cached>>
  BY DEF Persist, Goto
<1>3. TypeOK'
  BY <1>2 DEF IInv, TypeOK, Pcs
<1>4. Others(r) /\ Lasting
  BY <1>1, <1>2 DEF IInv, TypeOK, Others, Lasting, Settled, Ended
<1>5. pc'[r] = "reply" /\ saved'[r] = text[r] /\ Kept(text[r], r)'
  BY <1>1, <1>2, <1>4, KeptStays DEF IInv, TypeOK
<1>6. Local(r)'
  BY <1>1, <1>2, <1>5
  DEF Local, Starting, Replaying, Generating, Saving, Sending, Streams
<1> QED
  BY <1>2, <1>3, <1>4, <1>6, Together

LEMMA ReplyStays ==
  ASSUME IInv, NEW r \in Requests, Reply(r)
  PROVE  IInv'
<1>1. /\ pc[r] = "reply" /\ Local(r) /\ saved[r] = text[r]
      /\ (Streams(r) => sent[r] = text[r]) /\ text[r] \in Text
  BY DEF IInv, TypeOK, Reply, At, Local, Saving, Sending
<1>2. /\ pc' = [pc EXCEPT ![r] = "done"]
      /\ sent' = IF Streams(r) THEN sent ELSE [sent EXCEPT ![r] = text[r]]
      /\ UNCHANGED <<kind, mode, chat, attempts, full, text, replay, saved, cached>>
  BY DEF Reply, Goto
<1>3. TypeOK'
  BY <1>1, <1>2 DEF IInv, TypeOK, Pcs, Ended
<1>4. Others(r) /\ Lasting
  BY <1>1, <1>2 DEF IInv, TypeOK, Others, Lasting, Settled, Ended
<1>5. pc'[r] = "done" /\ sent'[r] = text[r]
  BY <1>1, <1>2 DEF IInv, TypeOK
<1>6. saved[r] # None => Kept(saved[r], r)'
  BY <1>1, <1>2, <1>4, KeptStays DEF Local, Saving
<1>7. Saving(r)'
  BY <1>1, <1>2, <1>5, <1>6 DEF Saving, Kept, Generated, WholeOf, CutOf, Ended
<1>8. Local(r)'
  BY <1>1, <1>2, <1>5, <1>7
  DEF Local, Starting, Replaying, Generating, Sending, Streams
<1> QED
  BY <1>2, <1>3, <1>4, <1>8, Together

\* A request that is closed or broken keeps what it has.
LEMMA EndStays ==
  ASSUME IInv, NEW r \in Requests, Close(r) \/ Break(r)
  PROVE  IInv'
<1>1. PICK e \in {"closed", "broken"} :
        /\ pc' = [pc EXCEPT ![r] = e]
        /\ UNCHANGED <<kind, mode, chat, attempts, full, text, replay, sent, saved, cached>>
  BY DEF Close, Break, Goto
<1>2. Local(r) /\ pc'[r] = e
  BY <1>1 DEF IInv, TypeOK
<1>3. TypeOK'
  BY <1>1 DEF IInv, TypeOK, Pcs, Ended
<1>4. Others(r) /\ Lasting
  BY <1>1 DEF IInv, TypeOK, Others, Lasting, Settled, Ended
<1>5. saved[r] # None => saved[r] = text[r] /\ Kept(saved[r], r)'
  BY <1>1, <1>2, <1>4, KeptStays DEF Local, Saving
<1>6. Saving(r)'
  BY <1>1, <1>2, <1>5 DEF Saving, Kept, Generated, WholeOf, CutOf, Ended
<1>7. Local(r)'
  BY <1>1, <1>2, <1>6
  DEF Local, Starting, Replaying, Generating, Sending, Streams
<1> QED
  BY <1>1, <1>3, <1>4, <1>7, Together

-----------------------------------------------------------------------------
LEMMA NextInv == IInv /\ [Next]_vars => IInv'
<1> SUFFICES ASSUME IInv, [Next]_vars PROVE IInv'
  OBVIOUS
<1>1. CASE UNCHANGED vars
  <2>1. TypeOK'
    BY <1>1 DEF vars, IInv, TypeOK
  <2>2. Lasting
    BY <1>1 DEF vars, Lasting, Settled
  <2>3. ASSUME NEW r \in Requests PROVE Local(r)'
    <3>1. Local(r)
      BY DEF IInv
    <3>2. Starting(r)' /\ Sending(r)'
      BY <1>1, <3>1 DEF vars, Local, Starting, Sending, Streams
    <3>3. Replaying(r)'
      BY <1>1, <2>2, <3>1, KeptStays DEF vars, Local, Replaying, Begins
    <3>4. Generating(r)'
      BY <1>1, <3>1 DEF vars, Local, Generating, Generated, WholeOf, CutOf, Word
    <3>5. ASSUME NEW t, Kept(t, r) PROVE Kept(t, r)'
      <4>1. mode'[r] = mode[r]
        BY <1>1 DEF vars
      <4> QED
        BY <2>2, <3>5, <4>1, KeptStays
    <3>6. Saving(r)'
      <4>1. pc'[r] = pc[r] /\ saved'[r] = saved[r] /\ text'[r] = text[r]
        BY <1>1 DEF vars
      <4>2. Kept(text[r], r) => Kept(text[r], r)'
        BY <1>1, <3>5 DEF vars
      <4>3. Kept(saved[r], r) => Kept(saved[r], r)'
        BY <1>1, <3>5 DEF vars
      <4> QED
        BY <3>1, <4>1, <4>2, <4>3 DEF Local, Saving
    <3> QED
      BY <3>2, <3>3, <3>4, <3>6 DEF Local
  <2>4. CacheKept'
    BY <1>1, <2>2, KeptStays DEF vars, IInv, CacheKept
  <2> QED
    BY <2>1, <2>3, <2>4 DEF IInv
<1>2. ASSUME NEW r \in Requests, Arrive(r) \/ Step(r) \/ Close(r) \/ Break(r) PROVE IInv'
  <2>1. CASE Arrive(r)
    BY <2>1, BeginStays DEF Arrive
  <2>2. CASE Step(r)
    BY <2>2, SendMetaStays, ReplayStays, CannedStays, CallModelStays, ReadStays,
       ApologizeStays, StoreStays, PersistStays, ReplyStays DEF Step
  <2>3. CASE Close(r) \/ Break(r)
    BY <2>3, EndStays
  <2> QED
    BY <1>2, <2>1, <2>2, <2>3
<1> QED
  BY <1>1, <1>2 DEF Next

\* The invariant, for any number of requests, attempts and words.
THEOREM ChatInvariant == Spec => []IInv
<1> QED
  BY InitInv, NextInv, PTL DEF Spec

\* Texts are made of words of the model and the two fixed texts, and a request's
\* failures are within the attempts of with_retry.
THEOREM ChatTyped == Spec => []TypeOK
<1>1. IInv => TypeOK
  BY DEF IInv
<1> QED
  BY <1>1, ChatInvariant, PTL

\* What the cache and the chats keep was generated whole, or is marked as cut, for
\* any number of requests, retries and words.
THEOREM AnswersKeptWhole == Spec => []KeptWhole
<1>1. IInv => KeptWhole
  BY DEF IInv, Local, Saving, Kept, Generated, CacheKept, FromDocuments, KeptWhole
<1> QED
  BY <1>1, ChatInvariant, PTL

\* A streaming client has been sent what is saved in its chat, and every client
\* whose request is done.
THEOREM AnswersSavedAsSent == Spec => []SavedAsSent
<1>1. IInv => SavedAsSent
  BY DEF IInv, Local, Saving, Sending, SavedAsSent
<1> QED
  BY <1>1, ChatInvariant, PTL

=============================================================================
