------------------------------ MODULE ChatStream ------------------------------
(***************************************************************************)
(* Answering a question (routes/v1/rag_chat.py: chat and chat_stream, with  *)
(* rag/generate.py and resilience.py), from the cache to the last frame.    *)
(* A stream is a generator: it stands still at every token it yields, and is *)
(* closed there when its client has gone.  The model is called again only   *)
(* while no answer has begun.                                              *)
(*                                                                         *)
(* One user, one question asked several times, so that one cache entry is   *)
(* shared; texts are compared without the white space at their ends.        *)
(***************************************************************************)
EXTENDS Naturals, Sequences

CONSTANTS
  Requests,
  MaxAttempts,       \* attempts of with_retry
  MaxWords,          \* bound: words of a generation
  Notice, NoDocs, None

ASSUME ChatStreamAssumption ==
  /\ MaxAttempts \in Nat \ {0} /\ MaxWords \in Nat

VARIABLES
  pc, kind, mode,    \* of a request: next step, route, where the answer comes from
  chat,              \* the chat it belongs to, named after the request that made it
  attempts,          \* calls of the model that failed
  full,              \* words of the generation, once the model has begun
  text,              \* collected so far
  replay,            \* the cached answer a request has found
  sent,              \* what its client has been sent
  saved,             \* the answer in the chat (what it costs is in Credits)
  cached             \* the entry of the cache

vars == <<pc, kind, mode, chat, attempts, full, text, replay, sent, saved, cached>>

\* The i-th word the model gives to request r.
Word(r, i) == [of |-> r, at |-> i]
Words      == [of : Requests, at : 1..MaxWords]
Text       == Seq(Words \cup {Notice, NoDocs})

Ended == {"done", "closed", "broken"}
Pcs   == {"idle", "meta", "replay", "canned", "call", "fail", "read", "store",
          "persist", "reply"} \cup Ended

TypeOK ==
  /\ pc \in [Requests -> Pcs]
  /\ kind \in [Requests -> {"chat", "stream"}]
  /\ mode \in [Requests -> {"cache", "documents", "history", "nothing"}]
  /\ chat \in [Requests -> Requests \cup {None}]
  /\ attempts \in [Requests -> 0..MaxAttempts]
  /\ full \in [Requests -> 0..MaxWords]
  /\ text \in [Requests -> Text] /\ sent \in [Requests -> Text]
  /\ replay \in [Requests -> Text \cup {None}]
  /\ saved \in [Requests -> Text \cup {None}] /\ cached \in Text \cup {None}

Init ==
  /\ pc = [r \in Requests |-> "idle"] /\ kind = [r \in Requests |-> "chat"]
  /\ mode = [r \in Requests |-> "nothing"] /\ chat = [r \in Requests |-> None]
  /\ attempts = [r \in Requests |-> 0] /\ full = [r \in Requests |-> 0]
  /\ text = [r \in Requests |-> <<>>] /\ replay = [r \in Requests |-> None]
  /\ sent = [r \in Requests |-> <<>>] /\ saved = [r \in Requests |-> None]
  /\ cached = None

-----------------------------------------------------------------------------
At(r, step)   == pc[r] = step
Goto(r, step) == pc' = [pc EXCEPT ![r] = step]
Streams(r)    == kind[r] = "stream"

\* get_recent_messages: the chat has an exchange already.
HasHistory(c) == \E q \in Requests : chat[q] = c /\ saved[q] # None

\* The step that produces the answer.
Produce(m) == CASE m = "cache" -> "replay" [] m = "nothing" -> "canned" [] OTHER -> "call"

\* A request arrives: the cache is looked up (an entry may have expired), then the
\* documents, then the chat; a chat that cannot be read has no history.  A stream
\* without a chat makes one now, so that its client can go on in it.
Begin(r, k, c, m, answer) ==
  /\ At(r, "idle")
  /\ c \in {chat[q] : q \in Requests} \cup {None}
  /\ m = "cache"   => cached # None /\ answer = cached
  /\ m # "cache"   => answer = None
  /\ m = "history" => HasHistory(c) /\ c # None
  /\ kind' = [kind EXCEPT ![r] = k] /\ mode' = [mode EXCEPT ![r] = m]
  /\ replay' = [replay EXCEPT ![r] = answer]
  /\ chat' = [chat EXCEPT ![r] = IF k = "stream" /\ c = None THEN r ELSE c]
  /\ Goto(r, IF k = "stream" THEN "meta" ELSE Produce(m))
  /\ UNCHANGED <<attempts, full, text, sent, saved, cached>>

\* The first frame names the chat and the sources.
SendMeta(r) ==
  /\ At(r, "meta") /\ Goto(r, Produce(mode[r]))
  /\ UNCHANGED <<kind, mode, chat, attempts, full, text, replay, sent, saved, cached>>

\* Collects words, and yields them if the request streams.
Emit(r, words) ==
  /\ text' = [text EXCEPT ![r] = @ \o words]
  /\ sent' = IF Streams(r) THEN [sent EXCEPT ![r] = @ \o words] ELSE sent

Same == UNCHANGED <<kind, mode, chat, replay, saved, cached>>

\* A cached answer is split into words again for a stream.
Replay(r) ==
  /\ At(r, "replay")
  /\ IF Streams(r) /\ text[r] # replay[r]
     THEN Emit(r, <<replay[r][Len(text[r]) + 1]>>) /\ UNCHANGED pc
     ELSE /\ text' = [text EXCEPT ![r] = replay[r]] /\ UNCHANGED sent
          /\ Goto(r, "persist")
  /\ Same /\ UNCHANGED <<attempts, full>>

\* No documents, no history: a fixed answer, which is not cached.
Canned(r) ==
  /\ At(r, "canned") /\ Emit(r, <<NoDocs>>) /\ Goto(r, "persist")
  /\ Same /\ UNCHANGED <<attempts, full>>

-----------------------------------------------------------------------------
\* Variant of Attempt: the count starts over where it should end.
AttemptForever(r) ==
  /\ attempts' = [attempts EXCEPT ![r] = (@ + 1) % MaxAttempts]
  /\ Goto(r, "call")

\* Variant of Attempt: one call too many.
AttemptOneMore(r) ==
  /\ attempts' = [attempts EXCEPT ![r] = @ + 1]
  /\ Goto(r, IF attempts'[r] <= MaxAttempts THEN "call" ELSE "fail")

\* with_retry: after a failure that may pass, another call, MaxAttempts in all.
Attempt(r) ==
  /\ attempts' = [attempts EXCEPT ![r] = @ + 1]
  /\ Goto(r, IF attempts'[r] < MaxAttempts THEN "call" ELSE "fail")

\* _openai_chat: the call alone is retried.  Without streaming the answer is there
\* when it returns; a stream has only begun.
CallModel(r) ==
  /\ At(r, "call")
  /\ \/ /\ \E n \in 0..MaxWords : full' = [full EXCEPT ![r] = n]
        /\ IF Streams(r) THEN UNCHANGED text
           ELSE text' = [text EXCEPT ![r] = [i \in 1..full'[r] |-> Word(r, i)]]
        /\ Goto(r, IF Streams(r) THEN "read" ELSE "store")
        /\ UNCHANGED attempts
     \/ Attempt(r) /\ UNCHANGED <<full, text>>           \* _OPENAI_RETRY_TYPES
     \/ Goto(r, "fail") /\ UNCHANGED <<attempts, full, text>>
  /\ Same /\ UNCHANGED sent

\* Variant of ReadFails: an interrupted stream counts as an answer.
ReadAccepted(r) == Goto(r, "store") /\ UNCHANGED <<attempts, text, sent>>

\* An error while words arrive.
ReadFails(r) == Goto(r, "fail") /\ UNCHANGED <<attempts, text, sent>>

\* The loop over the events of the model.
Read(r) ==
  /\ At(r, "read")
  /\ \/ /\ Len(text[r]) < full[r]
        /\ Emit(r, <<Word(r, Len(text[r]) + 1)>>)
        /\ UNCHANGED <<pc, attempts>>
     \/ /\ Len(text[r]) = full[r] /\ Goto(r, "store")
        /\ UNCHANGED <<attempts, text, sent>>
     \/ ReadFails(r)
  /\ Same /\ UNCHANGED full

\* Variant of Apologize: the text takes the place of what has been sent.
ApologizeInstead(r) ==
  /\ At(r, "fail") /\ Goto(r, "store")
  /\ text' = [text EXCEPT ![r] = <<Notice>>]
  /\ sent' = IF Streams(r) THEN [sent EXCEPT ![r] = @ \o <<Notice>>] ELSE sent
  /\ Same /\ UNCHANGED <<attempts, full>>

\* The except clause: a last delta, or a text in place of the answer.
Apologize(r) ==
  /\ At(r, "fail") /\ Emit(r, <<Notice>>) /\ Goto(r, "store")
  /\ Same /\ UNCHANGED <<attempts, full>>

-----------------------------------------------------------------------------
\* set_exact and semantic_set, for an answer from documents.
Store(r) ==
  /\ At(r, "store")
  /\ cached' = IF mode[r] = "documents" THEN text[r] ELSE cached
  /\ Goto(r, "persist")
  /\ UNCHANGED <<kind, mode, chat, attempts, full, text, replay, sent, saved>>

\* _persist_chat_messages, which makes the chat of a blocking request.
Persist(r) ==
  /\ At(r, "persist")
  /\ saved' = [saved EXCEPT ![r] = text[r]]
  /\ chat' = [chat EXCEPT ![r] = IF @ = None THEN r ELSE @]
  /\ Goto(r, "reply")
  /\ UNCHANGED <<kind, mode, attempts, full, text, replay, sent, cached>>

\* The done frame, or the reply.
Reply(r) ==
  /\ At(r, "reply")
  /\ sent' = IF Streams(r) THEN sent ELSE [sent EXCEPT ![r] = text[r]]
  /\ Goto(r, "done")
  /\ UNCHANGED <<kind, mode, chat, attempts, full, text, replay, saved, cached>>

\* The generator stands at a yield.
AtYield(r) ==
  /\ Streams(r)
  /\ \/ At(r, "replay") \/ At(r, "canned")
     \/ At(r, "call") /\ attempts[r] = 0
     \/ At(r, "read") /\ text[r] # <<>>
     \/ At(r, "store") /\ text[r] # <<>> /\ text[r][Len(text[r])] = Notice
     \/ At(r, "persist") /\ mode[r] = "nothing"

\* The client has gone: GeneratorExit at the yield, which no handler catches.
Close(r) ==
  /\ AtYield(r) /\ Goto(r, "closed")
  /\ UNCHANGED <<kind, mode, chat, attempts, full, text, replay, sent, saved, cached>>

\* A database call fails, or the worker dies.  Nothing is sent any more: a stream
\* ends without a done frame, and no error frame is ever sent.
Break(r) ==
  /\ pc[r] \notin Ended \cup {"idle"} /\ Goto(r, "broken")
  /\ UNCHANGED <<kind, mode, chat, attempts, full, text, replay, sent, saved, cached>>

Step(r) == \/ SendMeta(r) \/ Replay(r) \/ Canned(r) \/ CallModel(r) \/ Read(r)
           \/ Apologize(r) \/ Store(r) \/ Persist(r) \/ Reply(r)

Arrive(r) ==
  \E k \in {"chat", "stream"}, c \in Requests \cup {None},
     m \in {"cache", "documents", "history", "nothing"}, answer \in {cached, None} :
    Begin(r, k, c, m, answer)

Next == \E r \in Requests : Arrive(r) \/ Step(r) \/ Close(r) \/ Break(r)

\* A thread that can go on does; a read of the model ends within its timeout.
Spec == Init /\ [][Next]_vars /\ \A r \in Requests : WF_vars(Step(r))
-----------------------------------------------------------------------------
\* Properties.

\* The words of one generation for r, all of them in order.
WholeOf(t, r) == t = [i \in 1..full[r] |-> Word(r, i)]

\* Some of its first words, or none, and the notice that the rest is missing.
CutOf(t, r) ==
  /\ Len(t) \in 1..(full[r] + 1) /\ t[Len(t)] = Notice
  /\ \A i \in 1..(Len(t) - 1) : t[i] = Word(r, i)

\* Nothing is kept in the cache or in a chat but a generation as it was, all of it or
\* marked as cut: no retry repeats words, no lost client or model leaves a part.
\* What the cache gives to later questions was generated from documents.
KeptWhole ==
  /\ cached # None => \E r \in Requests :
       mode[r] = "documents" /\ (WholeOf(cached, r) \/ CutOf(cached, r))
  /\ \A q \in Requests : saved[q] # None =>
       \/ saved[q] = <<NoDocs>> /\ mode[q] = "nothing"
       \/ \E r \in Requests : WholeOf(saved[q], r) \/ CutOf(saved[q], r)

\* An answer is saved (and then paid for) only when a streaming client has been sent
\* all of it; and when a request is done, the chat has what the client has.
SavedAsSent ==
  \A r \in Requests :
    /\ Streams(r) /\ saved[r] # None => saved[r] = sent[r]
    /\ pc[r] = "done" => saved[r] = sent[r]

\* Every request ends, however the model behaves.
RequestsEnd == \A r \in Requests : pc[r] # "idle" ~> pc[r] \in Ended

=============================================================================
