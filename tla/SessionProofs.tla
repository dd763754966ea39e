--------------------------- MODULE SessionProofs ----------------------------
(***************************************************************************)
(* What a page of Session keeps true for any accounts, any requests in     *)
(* flight and any replies, lost ones included: that the spinner is never   *)
(* stuck, that the page speaks for one account, that page and collection   *)
(* keep their types, that an answer is shown in the chat that has it, and  *)
(* that sidebar and selection agree with the server once all is answered.  *)
(***************************************************************************)
EXTENDS Session, FiniteSetTheorems, WellFoundedInduction, TLAPS

-----------------------------------------------------------------------------
\* Sequences of requests, whatever their fields hold.

Fields == {"kind", "tok", "chat", "ask", "live", "sel", "list", "status", "reply"}
IsRequest(r) == Fields \subseteq DOMAIN r
IsNet(q) == q \in Seq(ToSet(q)) /\ \A i \in DOMAIN q : IsRequest(q[i])

LEMMA NetLen ==
  ASSUME NEW q, IsNet(q)
  PROVE  Len(q) \in Nat /\ DOMAIN q = 1..Len(q)
<1> DEFINE S == ToSet(q)
<1>1. q \in Seq(S)
  BY DEF IsNet
<1> HIDE DEF S
<1> QED
  BY <1>1

\* A sequence over any set of requests is one.
LEMMA NetOf ==
  ASSUME NEW S, NEW q \in Seq(S), \A i \in DOMAIN q : IsRequest(q[i])
  PROVE  IsNet(q)
<1>1. \A i \in 1..Len(q) : q[i] \in ToSet(q)
  BY DEF ToSet
<1>2. q \in Seq(ToSet(q))
  <2> DEFINE T == ToSet(q)
  <2>1. \A i \in 1..Len(q) : q[i] \in T
    BY <1>1
  <2> HIDE DEF T
  <2>2. q = [i \in 1..Len(q) |-> q[i]] /\ Len(q) \in Nat
    OBVIOUS
  <2>3. q \in [1..Len(q) -> T]
    BY <2>1, <2>2
  <2>4. q \in Seq(T)
    BY <2>2, <2>3
  <2> QED
    BY <2>4 DEF T
<1> QED
  BY <1>2 DEF IsNet

LEMMA NetEmpty == IsNet(<<>>) /\ Len(<<>>) = 0
<1>1. <<>> \in Seq({}) /\ Len(<<>>) = 0
  OBVIOUS
<1>2. \A i \in DOMAIN <<>> : IsRequest(<<>>[i])
  OBVIOUS
<1> QED
  BY <1>1, <1>2, NetOf

\* A request is sent.
LEMMA NetAppend ==
  ASSUME NEW q, IsNet(q), NEW r, IsRequest(r)
  PROVE  /\ IsNet(Append(q, r)) /\ Len(Append(q, r)) = Len(q) + 1
         /\ Append(q, r)[Len(q) + 1] = r
         /\ \A i \in DOMAIN q : Append(q, r)[i] = q[i]
<1> DEFINE S == ToSet(q) \cup {r}
<1>1. q \in Seq(S)
  <2> DEFINE T == ToSet(q)
  <2>1. q \in Seq(T)
    BY DEF IsNet
  <2>2. T \subseteq S
    OBVIOUS
  <2> HIDE DEF S, T
  <2> QED
    BY <2>1, <2>2
<1>2. r \in S
  OBVIOUS
<1> HIDE DEF S
<1>3. /\ Append(q, r) \in Seq(S) /\ Len(Append(q, r)) = Len(q) + 1
      /\ Append(q, r)[Len(q) + 1] = r
      /\ \A i \in 1..Len(q) : Append(q, r)[i] = q[i]
  BY <1>1, <1>2
<1>4. Len(q) \in Nat /\ DOMAIN q = 1..Len(q) /\ DOMAIN Append(q, r) = 1..(Len(q) + 1)
  BY <1>1, <1>3
<1>5. ASSUME NEW i \in DOMAIN Append(q, r) PROVE IsRequest(Append(q, r)[i])
  <2>1. i \in DOMAIN q \/ i = Len(q) + 1
    BY <1>4
  <2> QED
    BY <1>3, <1>4, <2>1 DEF IsNet
<1>6. IsNet(Append(q, r))
  BY <1>3, <1>5, NetOf
<1> QED
  BY <1>3, <1>4, <1>6

\* A reply is handled: the request leaves, the later ones close up.
LEMMA NetRest ==
  ASSUME NEW q, IsNet(q), NEW i \in DOMAIN q
  PROVE  /\ IsNet(RemoveAt(q, i)) /\ Len(RemoveAt(q, i)) = Len(q) - 1
         /\ \A j \in DOMAIN RemoveAt(q, i) :
              /\ (IF j < i THEN j ELSE j + 1) \in DOMAIN q
              /\ RemoveAt(q, i)[j] = q[IF j < i THEN j ELSE j + 1]
<1> DEFINE S == ToSet(q)
<1>1. q \in Seq(S)
  BY DEF IsNet
<1> HIDE DEF S
<1>2. Len(q) \in Nat /\ i \in 1..Len(q) /\ DOMAIN q = 1..Len(q)
  BY <1>1
<1> DEFINE a == SubSeq(q, 1, i - 1)
           b == SubSeq(q, i + 1, Len(q))
<1>3. a \in Seq(S) /\ Len(a) = i - 1 /\ \A j \in 1..(i - 1) : a[j] = q[j]
  BY <1>1, <1>2
<1>4. b \in Seq(S) /\ Len(b) = Len(q) - i /\ \A j \in 1..(Len(q) - i) : b[j] = q[i + j]
  BY <1>1, <1>2
<1> HIDE DEF a, b
<1>5. /\ a \o b \in Seq(S) /\ Len(a \o b) = Len(q) - 1
      /\ \A j \in 1..(Len(q) - 1) : (a \o b)[j] = IF j < i THEN a[j] ELSE b[j - (i - 1)]
  <2>1. a \o b \in Seq(S) /\ Len(a \o b) = Len(a) + Len(b)
    <3>1. a \in Seq(S) /\ b \in Seq(S)
      BY <1>3, <1>4
    <3>2. a \o b \in Seq(S)
      BY <3>1
    <3>3. Len(a \o b) = Len(a) + Len(b)
      BY <3>1
    <3> QED
      BY <3>2, <3>3
  <2>2. \A j \in 1..(Len(a) + Len(b)) :
          (a \o b)[j] = IF j <= Len(a) THEN a[j] ELSE b[j - Len(a)]
    BY <1>3, <1>4
  <2>3. Len(a) + Len(b) = Len(q) - 1 /\ \A j \in Nat : j <= i - 1 <=> j < i
    BY <1>2, <1>3, <1>4
  <2> QED
    BY <1>2, <1>3, <2>1, <2>2, <2>3
<1>6. DOMAIN (a \o b) = 1..(Len(q) - 1)
  BY <1>5
<1>7. ASSUME NEW j \in 1..(Len(q) - 1)
      PROVE  /\ (IF j < i THEN j ELSE j + 1) \in DOMAIN q
             /\ (a \o b)[j] = q[IF j < i THEN j ELSE j + 1]
  <2>1. CASE j < i
    <3>1. j \in 1..(i - 1) /\ j \in 1..Len(q)
      BY <1>2, <2>1
    <3>2. (a \o b)[j] = a[j] /\ a[j] = q[j]
      BY <1>3, <1>5, <2>1, <3>1
    <3> QED
      BY <1>2, <2>1, <3>1, <3>2
  <2>2. CASE ~ (j < i)
    <3> DEFINE k == j - (i - 1)
    <3>1. k \in 1..(Len(q) - i) /\ i + k = j + 1 /\ j + 1 \in 1..Len(q)
      BY <1>2, <2>2
    <3>2. (a \o b)[j] = b[k]
      BY <1>5, <2>2
    <3> HIDE DEF k
    <3>3. b[k] = q[i + k]
      BY <1>4, <3>1
    <3> QED
      BY <1>2, <2>2, <3>1, <3>2, <3>3
  <2> QED
    BY <2>1, <2>2
<1>8. RemoveAt(q, i) = a \o b
  BY DEF RemoveAt, a, b
<1>9. \A j \in DOMAIN (a \o b) : IsRequest((a \o b)[j])
  BY <1>6, <1>7 DEF IsNet
<1>10. IsNet(a \o b)
  BY <1>5, <1>9, NetOf
<1> QED
  BY <1>5, <1>6, <1>7, <1>8, <1>10

\* Requests change in place.
LEMMA NetUpdate ==
  ASSUME NEW q, IsNet(q), NEW T, NEW n \in [DOMAIN q -> T],
         \A i \in DOMAIN q : IsRequest(n[i])
  PROVE  IsNet(n) /\ Len(n) = Len(q)
<1>1. Len(q) \in Nat /\ DOMAIN q = 1..Len(q)
  BY NetLen
<1> DEFINE m == Len(q)
<1>2. m \in Nat /\ n \in [1..m -> T]
  BY <1>1
<1> HIDE DEF m
<1>3. n \in Seq(T) /\ Len(n) = m
  BY <1>2
<1>4. \A i \in DOMAIN n : IsRequest(n[i])
  OBVIOUS
<1>5. IsNet(n)
  BY <1>3, <1>4, NetOf
<1> QED
  BY <1>3, <1>5 DEF m

-----------------------------------------------------------------------------
\* The requests the page makes.

Made(r, kind, tok) == /\ IsRequest(r) /\ r.kind = kind /\ r.tok = tok
                      /\ r.live = FALSE /\ r.status = "sent"

LEMMA MakesPlain == ASSUME NEW k, NEW t PROVE Made(Request(k, t), k, t)
  BY DEF Made, IsRequest, Fields, Request

LEMMA Makes ==
  ASSUME NEW k, NEW t, NEW c, NEW s, NEW l
  PROVE  /\ Made(FetchChats(t, s), "list", t)
         /\ Made([Request(k, t) EXCEPT !.chat = c], k, t)
         /\ Made([Request(k, t) EXCEPT !.chat = c, !.sel = s, !.list = l], k, t)
<1>1. Made(FetchChats(t, s), "list", t)
  BY DEF Made, IsRequest, Fields, Request, FetchChats
<1>2. Made([Request(k, t) EXCEPT !.chat = c], k, t)
  BY DEF Made, IsRequest, Fields, Request
<1>3. Made([Request(k, t) EXCEPT !.chat = c, !.sel = s, !.list = l], k, t)
  BY DEF Made, IsRequest, Fields, Request
<1> QED
  BY <1>1, <1>2, <1>3

-----------------------------------------------------------------------------
\* What every update of the page does to the requests.

\* A question whose ChatBox is still there.
Live(r)   == r.kind = "ask" /\ r.live
Lively(q) == \E i \in DOMAIN q : Live(q[i])
Solo(q)   == \A i, j \in DOMAIN q : Live(q[i]) /\ Live(q[j]) => i = j

LEMMA DetachedNet ==
  ASSUME NEW q, IsNet(q)
  PROVE  /\ IsNet(Detached(q)) /\ Len(Detached(q)) = Len(q) /\ DOMAIN Detached(q) = DOMAIN q
         /\ \A i \in DOMAIN q : /\ Detached(q)[i].kind = q[i].kind
                                /\ Detached(q)[i].tok = q[i].tok
         /\ ~ Lively(Detached(q))
<1>1. /\ DOMAIN Detached(q) = DOMAIN q
      /\ \A i \in DOMAIN q : Detached(q)[i] = [q[i] EXCEPT !.live = FALSE]
      /\ Detached(q) \in [DOMAIN q -> {[q[i] EXCEPT !.live = FALSE] : i \in DOMAIN q}]
  BY DEF Detached
<1>2. ASSUME NEW i \in DOMAIN q
      PROVE  /\ IsRequest(Detached(q)[i]) /\ Detached(q)[i].kind = q[i].kind
             /\ Detached(q)[i].tok = q[i].tok /\ ~ Detached(q)[i].live
  BY <1>1 DEF IsNet, IsRequest, Fields
<1>3. IsNet(Detached(q)) /\ Len(Detached(q)) = Len(q)
  BY <1>1, <1>2, NetUpdate
<1> QED
  BY <1>1, <1>2, <1>3 DEF Lively, Live

LEMMA RenderNet ==
  ASSUME NEW u, NEW p, NEW sel, NEW fresh, NEW q, IsNet(q), busy \in BOOLEAN,
         Render(u, p, sel, fresh, q)
  PROVE  /\ IsNet(net') /\ Len(net') = Len(q) /\ DOMAIN net' = DOMAIN q
         /\ user' = u /\ page' = p
         /\ \A i \in DOMAIN q : net'[i].kind = q[i].kind /\ net'[i].tok = q[i].tok
         /\ \/ Mounted /\ Mounted' /\ net' = q /\ busy' = busy
            \/ ~ busy' /\ busy' \in BOOLEAN /\ ~ Lively(net')
<1> DEFINE stays == Mounted /\ u # None /\ p = "chat"
<1>1. user' = u /\ page' = p /\ busy' = (busy /\ stays)
  BY DEF Render
<1>2. net' = IF stays THEN q ELSE Detached(q)
  BY DEF Render
<1>3. CASE stays
  <2>1. Mounted'
    BY <1>1, <1>3 DEF Mounted
  <2>2. net' = q /\ busy' = busy
    BY <1>1, <1>2, <1>3
  <2> QED
    BY <1>1, <1>3, <2>1, <2>2
<1>4. CASE ~ stays
  <2>1. net' = Detached(q) /\ busy' = FALSE
    BY <1>1, <1>2, <1>4
  <2> QED
    BY <1>1, <2>1, DetachedNet
<1> QED
  BY <1>3, <1>4

\* Any request but a question may join without a change to the questions ...
LEMMA QuietAppend ==
  ASSUME NEW q, IsNet(q), NEW r, IsRequest(r), ~ Live(r)
  PROVE  /\ IsNet(Append(q, r))
         /\ Solo(q) => Solo(Append(q, r))
         /\ Lively(Append(q, r)) <=> Lively(q)
<1>1. /\ IsNet(Append(q, r)) /\ Len(Append(q, r)) = Len(q) + 1
      /\ Append(q, r)[Len(q) + 1] = r
      /\ \A i \in DOMAIN q : Append(q, r)[i] = q[i]
  BY NetAppend
<1>2. Len(q) \in Nat /\ DOMAIN q = 1..Len(q) /\ DOMAIN Append(q, r) = 1..(Len(q) + 1)
  BY <1>1, NetLen
<1>3. \A i \in DOMAIN Append(q, r) : Live(Append(q, r)[i]) => i \in DOMAIN q /\ Live(q[i])
  BY <1>1, <1>2
<1>4. \A i \in DOMAIN q : i \in DOMAIN Append(q, r)
  BY <1>2
<1> QED
  BY <1>1, <1>3, <1>4 DEF Solo, Lively

\* ... and leave, and when the only live question leaves there is none.
LEMMA QuietRest ==
  ASSUME NEW q, IsNet(q), NEW i \in DOMAIN q
  PROVE  /\ IsNet(RemoveAt(q, i))
         /\ Solo(q) => Solo(RemoveAt(q, i))
         /\ ~ Live(q[i]) => (Lively(RemoveAt(q, i)) <=> Lively(q))
         /\ Solo(q) /\ Live(q[i]) => ~ Lively(RemoveAt(q, i))
<1> DEFINE at(j) == IF j < i THEN j ELSE j + 1
           s == RemoveAt(q, i)
<1>1. /\ IsNet(s) /\ Len(s) = Len(q) - 1
      /\ \A j \in DOMAIN s : at(j) \in DOMAIN q /\ s[j] = q[at(j)]
  BY NetRest
<1>2. /\ Len(q) \in Nat /\ DOMAIN q = 1..Len(q) /\ DOMAIN s = 1..(Len(q) - 1)
      /\ i \in 1..Len(q)
  BY <1>1, NetLen
<1>3. /\ \A j, k \in DOMAIN s : at(j) = at(k) => j = k
      /\ \A j \in DOMAIN s : at(j) # i
      /\ \A k \in DOMAIN q : k # i => \E j \in DOMAIN s : at(j) = k
  <2>1. \A j, k \in 1..(Len(q) - 1) : at(j) = at(k) => j = k
    BY <1>2
  <2>2. \A j \in 1..(Len(q) - 1) : at(j) # i
    BY <1>2
  <2>3. ASSUME NEW k \in 1..Len(q), k # i PROVE \E j \in 1..(Len(q) - 1) : at(j) = k
    <3>1. CASE k < i
      <4>1. k \in 1..(Len(q) - 1) /\ at(k) = k
        BY <1>2, <3>1
      <4> QED
        BY <4>1
    <3>2. CASE ~ (k < i)
      <4>1. k - 1 \in 1..(Len(q) - 1) /\ at(k - 1) = k
        BY <1>2, <2>3, <3>2
      <4> QED
        BY <4>1
    <3> QED
      BY <3>1, <3>2
  <2> QED
    BY <1>2, <2>1, <2>2, <2>3
<1> HIDE DEF at, s
<1>4. Solo(q) => Solo(s)
  BY <1>1, <1>3 DEF Solo
<1>5. ~ Live(q[i]) => (Lively(s) <=> Lively(q))
  BY <1>1, <1>3 DEF Lively
<1>6. Solo(q) /\ Live(q[i]) => ~ Lively(s)
  BY <1>1, <1>3 DEF Solo, Lively
<1> QED
  BY <1>1, <1>4, <1>5, <1>6 DEF s

\* The follow-up reads of an answer.
LEMMA QuietFollow ==
  ASSUME NEW q, IsNet(q), NEW r, NEW f, f \in {<<>>, FollowUps(r)}
  PROVE  /\ IsNet(q \o f)
         /\ Solo(q) => Solo(q \o f)
         /\ Lively(q \o f) <=> Lively(q)
<1>1. q \in Seq(ToSet(q))
  BY DEF IsNet
<1>2. CASE f = <<>>
  <2> DEFINE S == ToSet(q)
  <2>1. q \in Seq(S)
    BY <1>1
  <2> HIDE DEF S
  <2>2. q \o <<>> = q
    BY <2>1
  <2> QED
    BY <1>2, <2>2
<1>3. CASE f # <<>>
  <2> DEFINE a == FetchChats(r.tok, r.sel)
             b == Request("refresh", r.tok)
             S == ToSet(q) \cup {a, b}
  <2>1. f = <<a, b>>
    BY <1>3 DEF FollowUps
  <2>2. q \in Seq(S) /\ a \in S /\ b \in S
    <3> DEFINE T == ToSet(q)
    <3>1. q \in Seq(T) /\ T \subseteq S /\ a \in S /\ b \in S
      BY <1>1
    <3> HIDE DEF T, S
    <3> QED
      BY <3>1
  <2>3. Made(a, "list", r.tok) /\ Made(b, "refresh", r.tok)
    BY Makes, MakesPlain
  <2> HIDE DEF a, b, S
  <2>4. q \o <<a, b>> = Append(Append(q, a), b)
    BY <2>2
  <2>5. IsRequest(a) /\ ~ Live(a) /\ IsRequest(b) /\ ~ Live(b)
    BY <2>3 DEF Made, Live
  <2>6. /\ IsNet(Append(q, a))
        /\ Solo(q) => Solo(Append(q, a))
        /\ Lively(Append(q, a)) <=> Lively(q)
    BY <2>5, QuietAppend
  <2>7. /\ IsNet(Append(Append(q, a), b))
        /\ Solo(Append(q, a)) => Solo(Append(Append(q, a), b))
        /\ Lively(Append(Append(q, a), b)) <=> Lively(Append(q, a))
    BY <2>5, <2>6, QuietAppend
  <2> QED
    BY <2>1, <2>4, <2>6, <2>7
<1> QED
  BY <1>2, <1>3

\* A request is answered or lost in place.
Answered(q, i, x, y) == [q EXCEPT ![i].status = x, ![i].reply = y]

LEMMA QuietAnswer ==
  ASSUME NEW q, IsNet(q), NEW i \in DOMAIN q, NEW x, NEW y, NEW n, n = Answered(q, i, x, y)
  PROVE  /\ IsNet(n) /\ Len(n) = Len(q) /\ DOMAIN n = DOMAIN q
         /\ \A j \in DOMAIN q : /\ n[j].kind = q[j].kind /\ n[j].tok = q[j].tok
                                /\ n[j].live = q[j].live
         /\ Solo(q) => Solo(n)
         /\ Lively(n) <=> Lively(q)
<1>1. /\ DOMAIN n = DOMAIN q /\ n \in [DOMAIN q -> {n[j] : j \in DOMAIN q}]
      /\ n[i] = [[q[i] EXCEPT !.status = x] EXCEPT !.reply = y]
      /\ \A j \in DOMAIN q : j # i => n[j] = q[j]
  BY DEF Answered
<1>2. ASSUME NEW j \in DOMAIN q
      PROVE  /\ IsRequest(n[j]) /\ n[j].kind = q[j].kind /\ n[j].tok = q[j].tok
             /\ n[j].live = q[j].live
  <2>1. IsRequest(q[j])
    BY DEF IsNet
  <2>2. CASE j = i
    BY <1>1, <2>1, <2>2 DEF IsRequest, Fields
  <2>3. CASE j # i
    BY <1>1, <2>1, <2>3
  <2> QED
    BY <2>2, <2>3
<1>3. IsNet(n) /\ Len(n) = Len(q)
  <2> DEFINE T == {n[j] : j \in DOMAIN q}
  <2>1. n \in [DOMAIN q -> T] /\ \A j \in DOMAIN q : IsRequest(n[j])
    BY <1>1, <1>2
  <2>2. PICK m : m = n
    OBVIOUS
  <2> HIDE DEF T
  <2>3. m \in [DOMAIN q -> T] /\ \A j \in DOMAIN q : IsRequest(m[j])
    BY <2>1, <2>2
  <2>4. IsNet(m) /\ Len(m) = Len(q)
    BY <2>3, NetUpdate
  <2> QED
    BY <2>2, <2>4
<1>4. \A j \in DOMAIN q : Live(n[j]) <=> Live(q[j])
  BY <1>2 DEF Live
<1> QED
  BY <1>1, <1>2, <1>3, <1>4 DEF Solo, Lively

-----------------------------------------------------------------------------
\* The spinner.  At most one question belongs to the ChatBox on display, and the
\* spinner is on as long as it is in flight.

SpinInv ==
  /\ IsNet(net) /\ Solo(net)
  /\ busy \in BOOLEAN
  /\ busy <=> Lively(net)
  /\ busy => Mounted

\* Nothing more than the requests of other kinds has changed, or the ChatBox is left.
Unasked(q) == IsNet(q) /\ Solo(q) /\ (Lively(q) <=> Lively(net))

LEMMA SpinRender ==
  ASSUME SpinInv, NEW u, NEW p, NEW sel, NEW fresh, NEW q, Unasked(q),
         Render(u, p, sel, fresh, q)
  PROVE  SpinInv'
<1>1. /\ IsNet(net')
      /\ \/ Mounted /\ Mounted' /\ net' = q /\ busy' = busy
         \/ ~ busy' /\ busy' \in BOOLEAN /\ ~ Lively(net')
  BY RenderNet DEF SpinInv, Unasked
<1>2. CASE Mounted /\ Mounted' /\ net' = q /\ busy' = busy
  BY <1>2 DEF SpinInv, Unasked
<1>3. CASE ~ busy' /\ busy' \in BOOLEAN /\ ~ Lively(net')
  <2>1. Solo(net')
    BY <1>3 DEF Solo, Lively
  <2> QED
    BY <1>1, <1>3, <2>1 DEF SpinInv
<1> QED
  BY <1>1, <1>2, <1>3

LEMMA SpinAccount ==
  ASSUME SpinInv, NEW s, NEW t, NEW u, NEW p, NEW q, Unasked(q), SetAccount(s, t, u, p, q)
  PROVE  SpinInv'
<1>1. CASE Render(u, p, selected, FALSE, Append(q, FetchChats(t, selected)))
  <2>1. Unasked(Append(q, FetchChats(t, selected)))
    <3>1. Made(FetchChats(t, selected), "list", t)
      BY Makes
    <3> QED
      BY <3>1, QuietAppend DEF Unasked, Made, Live
  <2> QED
    BY <1>1, <2>1, SpinRender
<1>2. CASE Render(u, p, None, selected # None, q)
  BY <1>2, SpinRender
<1> QED
  BY <1>1, <1>2 DEF SetAccount

\* The requests of a page on which no question joins or leaves.
LEMMA SpinStill ==
  ASSUME SpinInv, Unasked(net'), UNCHANGED <<user, page, busy>>
  PROVE  SpinInv'
<1>1. Mounted' <=> Mounted
  BY DEF Mounted
<1> QED
  BY <1>1 DEF SpinInv, Unasked

LEMMA SpinStart ==
  ASSUME SpinInv, NEW r, NEW k, NEW t, Made(r, k, t), k # "ask", Start(r)
  PROVE  SpinInv'
<1>1. net' = Append(net, r) /\ UNCHANGED <<user, page, busy>>
  BY DEF Start, account, box
<1>2. Unasked(net')
  BY <1>1, QuietAppend DEF SpinInv, Unasked, Made, Live
<1> QED
  BY <1>1, <1>2, SpinStill

LEMMA SpinRest ==
  ASSUME SpinInv, NEW i \in DOMAIN net, ~ Live(net[i])
  PROVE  Unasked(Rest(i))
  BY QuietRest DEF SpinInv, Unasked, Rest

LEMMA SpinKept == SpinInv => Unasked(net)
  BY DEF SpinInv, Unasked

LEMMA SpinActs == SpinInv /\ Acts => SpinInv'
<1> SUFFICES ASSUME SpinInv, Acts PROVE SpinInv'
  OBVIOUS
<1>1. ASSUME NEW u \in Users, Login(u) PROVE SpinInv'
  <2>1. Made(Request("login", u), "login", u) /\ Start(Request("login", u))
    BY <1>1, MakesPlain DEF Login
  <2> QED
    BY <2>1, SpinStart
<1>2. CASE Logout
  BY <1>2, SpinKept, SpinRender DEF Logout
<1>3. CASE Reload
  <2>1. IsNet(net') /\ ~ Lively(net') /\ busy' = FALSE
    <3>1. net' = VerifyAuth(stored) /\ busy' = FALSE
      BY <1>3 DEF Reload
    <3>2. CASE stored = None
      BY <3>1, <3>2, NetEmpty DEF VerifyAuth, Lively
    <3>3. CASE stored # None
      <4>1. PICK r : r = Request("verify", stored)
        OBVIOUS
      <4>2. net' = Append(<<>>, r)
        BY <3>1, <3>3, <4>1 DEF VerifyAuth
      <4>3. IsRequest(r) /\ ~ Live(r)
        BY <4>1, MakesPlain DEF Made, Live
      <4>4. ~ Lively(<<>>)
        BY DEF Lively
      <4> QED
        BY <3>1, <4>2, <4>3, <4>4, NetEmpty, QuietAppend
    <3> QED
      BY <3>1, <3>2, <3>3
  <2>2. Solo(net')
    BY <2>1 DEF Solo, Lively
  <2> QED
    BY <2>1, <2>2 DEF SpinInv
<1>4. ASSUME NEW p \in {"chat", "other"}, Visit(p) PROVE SpinInv'
  BY <1>4, SpinKept, SpinRender DEF Visit
<1>5. CASE NewChat
  <2>1. Made(Request("create", token), "create", token) /\ Start(Request("create", token))
    BY <1>5, MakesPlain DEF NewChat
  <2> QED
    BY <2>1, SpinStart
<1>6. ASSUME NEW c \in DOMAIN owner, OpenChat(c) PROVE SpinInv'
  <2>1. PICK r : r = [Request("open", token) EXCEPT !.chat = c]
    OBVIOUS
  <2>2. Made(r, "open", token)
    BY <2>1, Makes
  <2>3. Unasked(Append(net, r))
    BY <2>2, QuietAppend DEF SpinInv, Unasked, Made, Live
  <2>4. Render(user, "chat", selected, FALSE, Append(net, r))
    BY <1>6, <2>1 DEF OpenChat
  <2> QED
    BY <2>3, <2>4, SpinRender
<1>7. ASSUME NEW c \in DOMAIN owner, DeleteChat(c) PROVE SpinInv'
  <2>1. PICK r : r = [Request("delete", token) EXCEPT !.chat = c, !.sel = selected, !.list = chats]
    OBVIOUS
  <2>2. Made(r, "delete", token) /\ Start(r)
    BY <1>7, <2>1, Makes DEF DeleteChat
  <2> QED
    BY <2>2, SpinStart
<1>8. CASE Submit
  <2>1. PICK r : r = [Request("ask", token) EXCEPT
                !.chat = current, !.ask = asked + 1, !.live = TRUE, !.sel = selected]
    OBVIOUS
  <2>2. IsRequest(r) /\ Live(r)
    BY <2>1 DEF IsRequest, Fields, Live, Request
  <2>3. /\ net' = Append(net, r) /\ busy' = TRUE /\ ~ busy
        /\ UNCHANGED <<user, page>> /\ Mounted
    BY <1>8, <2>1 DEF Submit, account
  <2>4. /\ IsNet(net') /\ Len(net') = Len(net) + 1
        /\ net'[Len(net) + 1] = r
        /\ \A i \in DOMAIN net : net'[i] = net[i]
    BY <2>2, <2>3, NetAppend DEF SpinInv
  <2>5. Len(net) \in Nat /\ DOMAIN net = 1..Len(net) /\ DOMAIN net' = 1..(Len(net) + 1)
    BY <2>4, NetLen DEF SpinInv
  <2>6. ~ Lively(net)
    BY <2>3 DEF SpinInv
  <2>7. ASSUME NEW i \in DOMAIN net', Live(net'[i]) PROVE i = Len(net) + 1
    BY <2>4, <2>5, <2>6, <2>7 DEF Lively
  <2>8. Solo(net') /\ Lively(net')
    BY <2>2, <2>4, <2>5, <2>7 DEF Solo, Lively
  <2>9. Mounted'
    BY <2>3 DEF Mounted
  <2> QED
    BY <2>3, <2>4, <2>8, <2>9 DEF SpinInv
<1> QED
  BY <1>1, <1>2, <1>3, <1>4, <1>5, <1>6, <1>7, <1>8 DEF Acts

\* A served or lost request changes in place.
LEMMA InPlace ==
  ASSUME NEW i \in DOMAIN net, Serve(i) \/ LoseRequest(i)
  PROVE  /\ \E x, y : net' = Answered(net, i, x, y)
         /\ UNCHANGED <<stored, token, user, page, busy>>
<1>1. CASE Serve(i)
  BY <1>1 DEF Serve, ServeRead, ServeCreate, ServeDelete, ServeAsk, Answer, Answered, account, box
<1>2. CASE LoseRequest(i)
  BY <1>2 DEF LoseRequest, Answered, account, box
<1> QED
  BY <1>1, <1>2

LEMMA SpinArrive ==
  ASSUME SpinInv, NEW i \in DOMAIN net, Arrive(i)
  PROVE  SpinInv'
<1>1. ASSUME net[i].kind # "ask" PROVE Unasked(Rest(i))
  BY <1>1, SpinRest DEF Live
<1>2. CASE ArriveVerified(i)
  <2>1. net[i].kind = "verify"
    BY <1>2 DEF ArriveVerified, Ok, Bad
  <2>2. Unasked(Rest(i))
    BY <1>1, <2>1
  <2>3. CASE \E s, t, u : SetAccount(s, t, u, page, Rest(i))
    BY <2>2, <2>3, SpinAccount
  <2>4. CASE net' = Rest(i) /\ UNCHANGED <<user, page, busy>>
    BY <2>2, <2>4, SpinStill
  <2> QED
    BY <1>2, <2>3, <2>4 DEF ArriveVerified, box
<1>3. CASE ArriveUser(i)
  BY <1>1, <1>3, SpinAccount DEF ArriveUser, Ok
<1>4. CASE ArriveLogin(i)
  BY <1>1, <1>4, SpinAccount DEF ArriveLogin, Ok
<1>5. CASE ArriveNothing(i)
  <2>1. net[i].kind # "ask" /\ net' = Rest(i) /\ UNCHANGED <<user, page, busy>>
    BY <1>5 DEF ArriveNothing, Bad, account, box
  <2> QED
    BY <1>1, <2>1, SpinStill
<1>6. CASE ArriveChats(i)
  BY <1>1, <1>6, SpinRender DEF ArriveChats, Ok
<1>7. CASE ArriveNewChat(i)
  BY <1>1, <1>7, SpinRender DEF ArriveNewChat, Ok
<1>8. CASE ArriveDeleted(i)
  <2>1. net[i].kind # "ask" /\ \E sel, fresh : Render(user, page, sel, fresh, Rest(i))
    BY <1>8 DEF ArriveDeleted, Ok
  <2> QED
    BY <1>1, <2>1, SpinRender
<1>9. CASE ArriveOpened(i)
  BY <1>1, <1>9, SpinRender DEF ArriveOpened, Ok
<1>10. CASE ArriveAnswer(i)
  <2>1. PICK f : /\ f \in {<<>>, FollowUps(net[i])} /\ net' = Rest(i) \o f
                 /\ net[i].kind = "ask"
                 /\ IF net[i].live THEN busy' = FALSE ELSE busy' = busy
                 /\ UNCHANGED <<user, page>>
    BY <1>10 DEF ArriveAnswer, account, box
  <2>2. /\ IsNet(Rest(i)) /\ Solo(Rest(i))
        /\ ~ Live(net[i]) => (Lively(Rest(i)) <=> Lively(net))
        /\ Live(net[i]) => ~ Lively(Rest(i))
    BY QuietRest DEF SpinInv, Rest
  <2>3. PICK q : q = Rest(i)
    OBVIOUS
  <2>4. IsNet(q \o f) /\ Solo(q \o f) /\ (Lively(q \o f) <=> Lively(q))
    BY <2>1, <2>2, <2>3, QuietFollow
  <2>5. CASE net[i].live
    <3>1. Live(net[i]) /\ busy' = FALSE
      BY <2>1, <2>5 DEF Live
    <3> QED
      BY <2>1, <2>2, <2>3, <2>4, <3>1 DEF SpinInv
  <2>6. CASE ~ net[i].live
    <3>1. ~ Live(net[i]) /\ busy' = busy
      BY <2>1, <2>6 DEF Live
    <3>2. Unasked(net')
      BY <2>1, <2>2, <2>3, <2>4, <3>1 DEF Unasked
    <3> QED
      BY <2>1, <3>1, <3>2, SpinStill
  <2> QED
    BY <2>5, <2>6
<1> QED
  BY <1>2, <1>3, <1>4, <1>5, <1>6, <1>7, <1>8, <1>9, <1>10 DEF Arrive

LEMMA SpinInit == Init => SpinInv
<1> SUFFICES ASSUME Init PROVE SpinInv
  OBVIOUS
<1>1. net = VerifyAuth(stored) /\ busy = FALSE
  BY DEF Init
<1>2. IsNet(net) /\ ~ Lively(net)
  <2>1. CASE stored = None
    BY <1>1, <2>1, NetEmpty DEF VerifyAuth, Lively
  <2>2. CASE stored # None
    <3>1. PICK r : r = Request("verify", stored)
      OBVIOUS
    <3>2. net = Append(<<>>, r)
      BY <1>1, <2>2, <3>1 DEF VerifyAuth
    <3>3. IsRequest(r) /\ ~ Live(r)
      BY <3>1, MakesPlain DEF Made, Live
    <3>4. ~ Lively(<<>>)
      BY DEF Lively
    <3> QED
      BY <3>2, <3>3, <3>4, NetEmpty, QuietAppend
  <2> QED
    BY <2>1, <2>2
<1>3. Solo(net)
  BY <1>2 DEF Solo, Lively
<1> QED
  BY <1>1, <1>2, <1>3 DEF SpinInv

LEMMA SpinNext == SpinInv /\ [Next]_vars => SpinInv'
<1> SUFFICES ASSUME SpinInv, [Next]_vars PROVE SpinInv'
  OBVIOUS
<1>1. CASE Acts
  BY <1>1, SpinActs
<1>2. ASSUME NEW i \in DOMAIN net, Serve(i) \/ LoseRequest(i) PROVE SpinInv'
  <2>1. PICK x, y : /\ net' = Answered(net, i, x, y)
                    /\ UNCHANGED <<user, page, busy>>
    BY <1>2, InPlace
  <2>2. Unasked(net')
    <3>1. PICK n : n = Answered(net, i, x, y)
      OBVIOUS
    <3>2. IsNet(n) /\ (Solo(net) => Solo(n)) /\ (Lively(n) <=> Lively(net))
      BY <3>1, QuietAnswer DEF SpinInv
    <3> QED
      BY <2>1, <3>1, <3>2 DEF SpinInv, Unasked
  <2> QED
    BY <2>1, <2>2, SpinStill
<1>3. ASSUME NEW i \in DOMAIN net, Arrive(i) PROVE SpinInv'
  BY <1>3, SpinArrive
<1>4. CASE UNCHANGED vars
  <2>1. net' = net /\ UNCHANGED <<user, page, busy>>
    BY <1>4 DEF vars, account, box
  <2> QED
    BY <2>1, SpinKept, SpinStill
<1> QED
  BY <1>1, <1>2, <1>3, <1>4 DEF Next, Network

\* Whatever the user does while requests are in flight, and whichever replies are late or
\* lost, the spinner that blocks sending is on exactly while a question of the ChatBox on
\* display is being answered.
THEOREM SpinnerTrue == Spec => []SpinnerHonest
<1>1. SpinInv => SpinnerHonest
  BY DEF SpinInv, SpinnerHonest, Lively, Live
<1> QED
  BY <1>1, SpinInit, SpinNext, PTL DEF Spec

-----------------------------------------------------------------------------
\* One account.  Beside requests that set the account, or are followed by one that does,
\* signing in and out is remembered in crossed; else it comes and goes between them.

\* No request of the kinds K, and those of the kinds B are of account t.
Fits(q, K, B, t) == \A i \in DOMAIN q : q[i].kind \notin K /\ (q[i].kind \in B => q[i].tok = t)

\* One request at most that has to do with the account.
Alone(q) == \A i, j \in DOMAIN q :
              q[i].kind \in AccountKinds /\ q[j].kind \in AccountKinds => i = j

\* The token of a page just loaded is checked; somebody signs in; or all is settled.
Verifying ==
  /\ Len(net) = 1 /\ net[1].kind = "verify" /\ net[1].tok = stored
  /\ user = None /\ token = stored
SigningIn ==
  /\ Alone(net) /\ Fits(net, {"verify", "refresh", "ask"}, {}, None)
  /\ user = None /\ token = None /\ stored = None
Settled ==
  /\ user = token /\ token = stored
  /\ Fits(net, {"verify", "login"}, {"refresh", "ask"}, token)

Uncrossed == Verifying \/ SigningIn \/ Settled

\* The token sent is the one stored, as long as signing in and out kept off verifyAuth.
Unmixed == token = stored /\ (Verifying \/ Fits(net, {"verify"}, {}, None))

AccountInv ==
  /\ SpinInv
  /\ mishaps \in Nat /\ (mishaps = 0 => crossed = {})
  /\ page = "login" => stored = None
  /\ crossed = {} => Uncrossed
  /\ "verify" \notin crossed => Unmixed

LEMMA FitsAppend ==
  ASSUME NEW q, IsNet(q), NEW K, NEW B, NEW t, Fits(q, K, B, t),
         NEW r, NEW k, NEW x, IsRequest(r), r.kind = k, r.tok = x, k \notin K, k \in B => x = t
  PROVE  IsNet(Append(q, r)) /\ Fits(Append(q, r), K, B, t)
<1>1. /\ Len(Append(q, r)) = Len(q) + 1 /\ IsNet(Append(q, r))
      /\ Append(q, r)[Len(q) + 1] = r
      /\ \A i \in DOMAIN q : Append(q, r)[i] = q[i]
  BY NetAppend
<1>2. Len(q) \in Nat /\ DOMAIN q = 1..Len(q) /\ DOMAIN Append(q, r) = 1..(Len(q) + 1)
  BY <1>1, NetLen
<1>3. ASSUME NEW i \in DOMAIN Append(q, r)
      PROVE  /\ Append(q, r)[i].kind \notin K
             /\ Append(q, r)[i].kind \in B => Append(q, r)[i].tok = t
  <2>1. CASE i = Len(q) + 1
    BY <1>1, <2>1
  <2>2. CASE i \in DOMAIN q
    BY <1>1, <2>2 DEF Fits
  <2> QED
    BY <1>2, <2>1, <2>2
<1> QED
  BY <1>1, <1>3 DEF Fits

LEMMA FitsRest ==
  ASSUME NEW q, IsNet(q), NEW K, NEW B, NEW t, Fits(q, K, B, t), NEW i \in DOMAIN q
  PROVE  IsNet(RemoveAt(q, i)) /\ Fits(RemoveAt(q, i), K, B, t)
  BY NetRest DEF Fits

\* When the only request that has to do with the account leaves there is none, and with
\* any other leaving it stays the only one.
LEMMA AloneRest ==
  ASSUME NEW q, IsNet(q), NEW i \in DOMAIN q, Alone(q)
  PROVE  /\ Alone(RemoveAt(q, i))
         /\ q[i].kind \in AccountKinds =>
              \A j \in DOMAIN RemoveAt(q, i) : RemoveAt(q, i)[j].kind \notin AccountKinds
<1> DEFINE s == RemoveAt(q, i)
<1>1. /\ Len(s) = Len(q) - 1 /\ IsNet(s)
      /\ \A j \in DOMAIN s : /\ (IF j < i THEN j ELSE j + 1) \in DOMAIN q
                             /\ s[j] = q[IF j < i THEN j ELSE j + 1]
  BY NetRest
<1>2. /\ Len(q) \in Nat /\ i \in 1..Len(q) /\ DOMAIN s = 1..(Len(q) - 1)
  BY <1>1, NetLen
<1> HIDE DEF s
<1>3. ASSUME NEW j \in DOMAIN s, NEW k \in DOMAIN s,
             s[j].kind \in AccountKinds, s[k].kind \in AccountKinds
      PROVE  j = k
  <2>1. (IF j < i THEN j ELSE j + 1) = (IF k < i THEN k ELSE k + 1)
    BY <1>1, <1>3 DEF Alone
  <2> QED BY <1>2, <2>1
<1>4. ASSUME q[i].kind \in AccountKinds, NEW j \in DOMAIN s PROVE s[j].kind \notin AccountKinds
  <2>1. (IF j < i THEN j ELSE j + 1) # i
    BY <1>2
  <2> QED BY <1>1, <1>4, <2>1 DEF Alone
<1> QED BY <1>3, <1>4 DEF s, Alone

\* An update of the page keeps kinds and accounts of its requests.
LEMMA FitsRender ==
  ASSUME busy \in BOOLEAN, NEW u, NEW p, NEW sel, NEW fresh, NEW q, IsNet(q),
         Render(u, p, sel, fresh, q)
  PROVE  /\ user' = u /\ page' = p /\ IsNet(net')
         /\ Alone(q) => Alone(net')
         /\ \A K, B, t : Fits(q, K, B, t) => Fits(net', K, B, t)
<1>1. /\ user' = u /\ page' = p /\ DOMAIN net' = DOMAIN q /\ IsNet(net')
      /\ \A i \in DOMAIN q : net'[i].kind = q[i].kind /\ net'[i].tok = q[i].tok
  BY RenderNet
<1>2. Alone(q) => Alone(net')
  BY <1>1 DEF Alone
<1>3. ASSUME NEW K, NEW B, NEW t, Fits(q, K, B, t) PROVE Fits(net', K, B, t)
  BY <1>1, <1>3 DEF Fits
<1> QED BY <1>1, <1>2, <1>3

LEMMA FitsEmpty ==
  ASSUME NEW q, IsNet(q), Len(q) = 0
  PROVE  Alone(q) /\ \A K, B, t : Fits(q, K, B, t)
<1>1. DOMAIN q = {}
  BY NetLen
<1> QED BY <1>1 DEF Fits, Alone

\* The reads that follow an answer.
LEMMA FitsFollow ==
  ASSUME NEW q, IsNet(q), NEW r, NEW f, f \in {<<>>, FollowUps(r)},
         NEW K, NEW B, NEW t, Fits(q, K, B, t), "list" \notin K, "refresh" \notin K,
         "list" \notin B, "refresh" \in B => r.tok = t
  PROVE  Fits(q \o f, K, B, t)
<1>1. q \in Seq(ToSet(q))
  BY DEF IsNet
<1>2. CASE f = <<>>
  <2> DEFINE S == ToSet(q)
  <2>1. q \in Seq(S)
    BY <1>1
  <2> HIDE DEF S
  <2>2. q \o <<>> = q
    BY <2>1
  <2> QED
    BY <1>2, <2>2
<1>3. CASE f # <<>>
  <2>1. PICK a, b : a = FetchChats(r.tok, r.sel) /\ b = Request("refresh", r.tok)
    OBVIOUS
  <2>2. f = <<a, b>>
    BY <1>3, <2>1 DEF FollowUps
  <2>3. Made(a, "list", r.tok) /\ Made(b, "refresh", r.tok)
    BY <2>1, Makes, MakesPlain
  <2>4. /\ IsRequest(a) /\ a.kind = "list" /\ a.tok = r.tok
        /\ IsRequest(b) /\ b.kind = "refresh" /\ b.tok = r.tok
    BY <2>3 DEF Made
  <2>5. q \o <<a, b>> = Append(Append(q, a), b)
    <3> DEFINE T == ToSet(q)
               S == T \cup {a, b}
    <3>1. q \in Seq(T) /\ T \subseteq S /\ a \in S /\ b \in S
      BY <1>1
    <3> HIDE DEF S, T
    <3>2. q \in Seq(S)
      BY <3>1
    <3> QED
      BY <3>1, <3>2
  <2>6. PICK s : s = Append(q, a)
    OBVIOUS
  <2>7. IsNet(s) /\ Fits(s, K, B, t)
    BY <2>4, <2>6, FitsAppend
  <2>8. Fits(Append(s, b), K, B, t)
    BY <2>4, <2>7, FitsAppend
  <2> QED
    BY <2>2, <2>5, <2>6, <2>8
<1> QED
  BY <1>2, <1>3

\* An update of user or token that comes with no account request of another account.
LEMMA SettledAccount ==
  ASSUME busy \in BOOLEAN, NEW s, NEW t, NEW u, NEW p, NEW q, IsNet(q), SetAccount(s, t, u, p, q)
  PROVE  /\ stored' = s /\ token' = t /\ user' = u /\ page' = p
         /\ Fits(q, {"verify"}, {}, None) => Fits(net', {"verify"}, {}, None)
         /\ /\ s = t /\ u = t /\ Fits(q, {"verify", "login"}, {"refresh", "ask"}, t)
            => Settled'
<1>1. stored' = s /\ token' = t
  BY DEF SetAccount
<1>2. PICK r : r = FetchChats(t, selected)
  OBVIOUS
<1>3. IsRequest(r) /\ r.kind = "list" /\ r.tok = t
  <2>1. Made(r, "list", t)
    BY <1>2, Makes
  <2> QED BY <2>1 DEF Made
<1>4. PICK n : /\ n \in {q, Append(q, r)} /\ \E sel, fresh : Render(u, p, sel, fresh, n)
  BY <1>2 DEF SetAccount
<1>5. /\ IsNet(n)
      /\ \A K, B, x : Fits(q, K, B, x) /\ "list" \notin K /\ "list" \notin B => Fits(n, K, B, x)
  <2>1. CASE n = q
    BY <2>1
  <2>2. CASE n = Append(q, r)
    <3>1. IsNet(n)
      BY <1>3, <2>2, NetAppend
    <3>2. ASSUME NEW K, NEW B, NEW x, Fits(q, K, B, x), "list" \notin K, "list" \notin B
          PROVE  Fits(n, K, B, x)
      BY <1>3, <2>2, <3>2, FitsAppend
    <3> QED BY <3>1, <3>2
  <2> QED BY <1>4, <2>1, <2>2
<1>6. user' = u /\ page' = p /\ \A K, B, x : Fits(n, K, B, x) => Fits(net', K, B, x)
  BY <1>4, <1>5, FitsRender
<1>7. Fits(q, {"verify"}, {}, None) => Fits(net', {"verify"}, {}, None)
  BY <1>5, <1>6
<1>8. ASSUME s = t, u = t, Fits(q, {"verify", "login"}, {"refresh", "ask"}, t)
      PROVE  Settled'
  <2>1. Fits(net', {"verify", "login"}, {"refresh", "ask"}, t)
    BY <1>5, <1>6, <1>8
  <2> QED BY <1>1, <1>6, <1>8, <2>1 DEF Settled
<1> QED BY <1>1, <1>6, <1>7, <1>8

\* What an act beside requests leaves behind.
LEMMA Hurried ==
  ASSUME NEW K, Hurry(K), mishaps \in Nat
  PROVE  /\ mishaps' \in Nat
         /\ mishaps' = 0 => mishaps = 0 /\ \A i \in DOMAIN net : net[i].kind \in K
<1>1. CASE InFlight \subseteq K
  BY <1>1 DEF Hurry, InFlight
<1>2. CASE ~ (InFlight \subseteq K)
  <2>1. mishaps' = mishaps + 1
    BY <1>2 DEF Hurry, Mishap
  <2> QED BY <2>1
<1> QED BY <1>1, <1>2

\* Signing in or out: what is in flight when crossed stays clear.
LEMMA Crossed ==
  ASSUME AccountInv, Crossing
  PROVE  /\ mishaps' \in Nat /\ (mishaps' = 0 => crossed' = {})
         /\ crossed' = {} =>
              crossed = {} /\ \A i \in DOMAIN net : net[i].kind \notin AccountKinds
         /\ "verify" \notin crossed' =>
              "verify" \notin crossed /\ Fits(net, {"verify"}, {}, None)
<1>1. Hurry({}) /\ crossed' = crossed \cup (InFlight \cap AccountKinds) /\ mishaps \in Nat
  BY DEF Crossing, AccountInv
<1>2. /\ mishaps' \in Nat
      /\ mishaps' = 0 => mishaps = 0 /\ \A i \in DOMAIN net : net[i].kind \in {}
  BY <1>1, Hurried
<1>3. mishaps' = 0 => crossed' = {}
  BY <1>1, <1>2 DEF InFlight, AccountInv
<1>4. crossed' = {} => crossed = {} /\ \A i \in DOMAIN net : net[i].kind \notin AccountKinds
  BY <1>1 DEF InFlight
<1>5. ASSUME "verify" \notin crossed'
      PROVE  "verify" \notin crossed /\ Fits(net, {"verify"}, {}, None)
  <2>1. \A i \in DOMAIN net : net[i].kind # "verify"
    BY <1>1, <1>5 DEF InFlight, AccountKinds
  <2> QED BY <1>1, <1>5, <2>1 DEF Fits
<1> QED BY <1>2, <1>3, <1>4, <1>5

LEMMA VerifyNet ==
  ASSUME NEW s, NEW q, q = VerifyAuth(s)
  PROVE  \/ s = None /\ q = <<>>
         \/ Len(q) = 1 /\ q[1].kind = "verify" /\ q[1].tok = s
<1>1. PICK r : r = Request("verify", s)
  OBVIOUS
<1>2. CASE s # None
  <2>1. q = <<r>> /\ r.kind = "verify" /\ r.tok = s
    BY <1>1, <1>2 DEF VerifyAuth, Request
  <2>2. Len(q) = 1 /\ q[1] = r
    BY <2>1
  <2> QED
    BY <2>1, <2>2
<1>3. CASE s = None
  BY <1>3 DEF VerifyAuth
<1> QED
  BY <1>2, <1>3

LEMMA AccountInit == Init => AccountInv
<1> SUFFICES ASSUME Init PROVE AccountInv
  OBVIOUS
<1>1. /\ net = VerifyAuth(stored) /\ user = None /\ token = stored /\ page = "chat"
      /\ mishaps = 0 /\ crossed = {}
  BY DEF Init
<1>2. SpinInv
  BY SpinInit
<1>3. CASE stored = None /\ net = <<>>
  <2>1. Settled /\ Unmixed
    BY <1>1, <1>3, NetEmpty, FitsEmpty DEF Settled, Unmixed
  <2> QED BY <1>1, <1>2, <2>1 DEF AccountInv, Uncrossed
<1>4. CASE Len(net) = 1 /\ net[1].kind = "verify" /\ net[1].tok = stored
  BY <1>1, <1>2, <1>4 DEF AccountInv, Verifying, Uncrossed, Unmixed
<1> QED
  BY <1>1, <1>3, <1>4, VerifyNet

\* A step that is not about the account, of a page that does more than verify a token.
LEMMA AccountKeeps ==
  ASSUME AccountInv, SpinInv', ~ Verifying, UNCHANGED <<stored, token, user, crossed>>,
         page' = page \/ page' # "login", mishaps' \in Nat, mishaps' = 0 => mishaps = 0,
         SigningIn => Alone(net') /\ Fits(net', {"verify", "refresh", "ask"}, {}, None),
         Settled => Fits(net', {"verify", "login"}, {"refresh", "ask"}, token),
         Fits(net, {"verify"}, {}, None) => Fits(net', {"verify"}, {}, None)
  PROVE  AccountInv'
<1>1. (page = "login" => stored = None)' /\ (mishaps = 0 => crossed = {})'
  BY DEF AccountInv
<1>2. SigningIn => SigningIn'
  BY DEF SigningIn
<1>3. Settled => Settled'
  BY DEF Settled
<1>4. (crossed = {} => Uncrossed)'
  BY <1>2, <1>3 DEF AccountInv, Uncrossed
<1>5. ("verify" \notin crossed => Unmixed)'
  BY DEF AccountInv, Unmixed
<1> QED BY <1>1, <1>4, <1>5 DEF AccountInv

\* A request that is not about the account is made by a page with a user.
LEMMA AccountStart ==
  ASSUME AccountInv, SpinInv', user # None, UNCHANGED <<stored, token, user, crossed>>,
         page' = page \/ page' # "login", mishaps' \in Nat, mishaps' = 0 => mishaps = 0,
         NEW r, NEW k, IsRequest(r), r.kind = k, r.tok = token, k \notin {"verify", "login"},
         \A K, B, t : Fits(Append(net, r), K, B, t) => Fits(net', K, B, t)
  PROVE  AccountInv'
<1>1. IsNet(net)
  BY DEF AccountInv, SpinInv
<1>2. ~ Verifying /\ ~ SigningIn
  BY DEF Verifying, SigningIn
<1>3. Settled => Fits(net', {"verify", "login"}, {"refresh", "ask"}, token)
  <2>1. ASSUME Settled PROVE Fits(Append(net, r), {"verify", "login"}, {"refresh", "ask"}, token)
    BY <1>1, <2>1, FitsAppend DEF Settled
  <2> QED BY <2>1
<1>4. Fits(net, {"verify"}, {}, None) => Fits(net', {"verify"}, {}, None)
  <2>1. ASSUME Fits(net, {"verify"}, {}, None) PROVE Fits(Append(net, r), {"verify"}, {}, None)
    BY <1>1, <2>1, FitsAppend
  <2> QED BY <2>1
<1> QED BY <1>2, <1>3, <1>4, AccountKeeps

LEMMA AccountActs ==
  ASSUME AccountInv, SpinInv', Acts
  PROVE  AccountInv'
<1> USE SessionAssumption DEF SessionAssumption
<1>1. IsNet(net) /\ busy \in BOOLEAN /\ mishaps \in Nat
  BY DEF AccountInv, SpinInv
<1>2. ASSUME NEW K, Beside(K)
      PROVE  crossed' = crossed /\ mishaps' \in Nat /\ (mishaps' = 0 => mishaps = 0)
  BY <1>1, <1>2, Hurried DEF Beside
<1>3. ASSUME NEW u \in Users, Login(u) PROVE AccountInv'
  <2>1. /\ Crossing /\ (user = None \/ page = "login")
        /\ UNCHANGED <<stored, token, user, page>>
    BY <1>3 DEF Login, Start, account
  <2>2. PICK r : r = Request("login", u)
    OBVIOUS
  <2>3. net' = Append(net, r) /\ r.kind = "login" /\ IsRequest(r)
    BY <1>3, <2>2, MakesPlain DEF Login, Start, Made
  <2>4. /\ mishaps' \in Nat /\ (mishaps' = 0 => crossed' = {})
        /\ crossed' = {} =>
             crossed = {} /\ \A i \in DOMAIN net : net[i].kind \notin AccountKinds
        /\ "verify" \notin crossed' =>
             "verify" \notin crossed /\ Fits(net, {"verify"}, {}, None)
    BY <2>1, Crossed
  <2>5. ASSUME crossed' = {} PROVE SigningIn'
    <3>1. Uncrossed /\ Len(net) \in Nat /\ DOMAIN net = 1..Len(net)
      BY <1>1, <2>4, <2>5, NetLen DEF AccountInv
    <3>2. ~ Verifying
      BY <2>4, <2>5, <3>1 DEF Verifying, AccountKinds
    <3>3. user = None /\ token = None /\ stored = None
      BY <2>1, <3>1, <3>2 DEF Uncrossed, SigningIn, Settled, AccountInv
    <3>4. Fits(net, {"verify", "refresh", "ask"}, {}, None)
      BY <2>4, <2>5 DEF Fits, AccountKinds
    <3>5. Fits(net', {"verify", "refresh", "ask"}, {}, None)
      BY <1>1, <2>3, <3>4, FitsAppend
    <3>6. /\ Len(net') = Len(net) + 1 /\ IsNet(net')
          /\ \A i \in DOMAIN net : net'[i] = net[i]
      BY <1>1, <2>3, NetAppend
    <3>7. DOMAIN net' = 1..(Len(net) + 1)
      BY <3>6, NetLen
    <3>8. ASSUME NEW i \in DOMAIN net', net'[i].kind \in AccountKinds PROVE i = Len(net) + 1
      BY <2>4, <2>5, <3>1, <3>6, <3>7, <3>8
    <3>9. Alone(net')
      BY <3>8 DEF Alone
    <3> QED BY <2>1, <3>3, <3>5, <3>9 DEF SigningIn
  <2>6. ASSUME "verify" \notin crossed' PROVE Unmixed'
    <3>1. Unmixed /\ Fits(net, {"verify"}, {}, None)
      BY <2>4, <2>6 DEF AccountInv
    <3>2. Fits(net', {"verify"}, {}, None)
      BY <1>1, <2>3, <3>1, FitsAppend
    <3> QED BY <2>1, <3>1, <3>2 DEF Unmixed
  <2> QED BY <2>1, <2>4, <2>5, <2>6 DEF AccountInv, Uncrossed
<1>4. CASE Logout
  <2>1. stored' = None /\ token' = None /\ Render(None, "login", None, TRUE, net) /\ Crossing
    BY <1>4 DEF Logout
  <2>2. user' = None /\ \A K, B, t : Fits(net, K, B, t) => Fits(net', K, B, t)
    BY <1>1, <2>1, FitsRender
  <2>3. /\ mishaps' \in Nat /\ (mishaps' = 0 => crossed' = {})
        /\ crossed' = {} =>
             crossed = {} /\ \A i \in DOMAIN net : net[i].kind \notin AccountKinds
        /\ "verify" \notin crossed' =>
             "verify" \notin crossed /\ Fits(net, {"verify"}, {}, None)
    BY <2>1, Crossed
  <2>4. ASSUME crossed' = {} PROVE Settled'
    <3>1. Fits(net, {"verify", "login"}, {"refresh", "ask"}, None)
      BY <2>3, <2>4 DEF Fits, AccountKinds
    <3> QED BY <2>1, <2>2, <3>1 DEF Settled
  <2>5. ASSUME "verify" \notin crossed' PROVE Unmixed'
    BY <2>1, <2>2, <2>3, <2>5 DEF Unmixed
  <2> QED BY <2>1, <2>3, <2>4, <2>5 DEF AccountInv, Uncrossed
<1>5. CASE Reload
  <2>1. /\ net' = VerifyAuth(stored) /\ stored' = stored /\ token' = stored /\ user' = None
        /\ UNCHANGED <<page, mishaps>> /\ crossed' = {}
    BY <1>5 DEF Reload
  <2>2. CASE stored = None /\ net' = <<>>
    <3>1. \A K, B, t : Fits(net', K, B, t)
      BY <2>2, NetEmpty, FitsEmpty
    <3>2. Settled' /\ Unmixed'
      BY <2>1, <2>2, <3>1 DEF Settled, Unmixed
    <3> QED
      BY <2>1, <3>2 DEF AccountInv, Uncrossed
  <2>3. CASE Len(net') = 1 /\ net'[1].kind = "verify" /\ net'[1].tok = stored
    BY <2>1, <2>3 DEF AccountInv, Verifying, Uncrossed, Unmixed
  <2>4. PICK q : q = net'
    OBVIOUS
  <2> QED
    BY <2>1, <2>2, <2>3, <2>4, VerifyNet
<1>6. ASSUME NEW p \in {"chat", "other"}, Visit(p) PROVE AccountInv'
  <2>1. /\ user # None /\ Render(user, p, selected, FALSE, net)
        /\ UNCHANGED <<stored, token, mishaps, crossed>>
    BY <1>6 DEF Visit, counts
  <2>2. /\ user' = user /\ page' = p
        /\ \A K, B, t : Fits(net, K, B, t) => Fits(net', K, B, t)
    BY <1>1, <2>1, FitsRender
  <2>3. ~ Verifying /\ ~ SigningIn
    BY <2>1 DEF Verifying, SigningIn
  <2>4. Settled => Fits(net', {"verify", "login"}, {"refresh", "ask"}, token)
    BY <2>2 DEF Settled
  <2> QED
    BY <1>1, <2>1, <2>2, <2>3, <2>4, AccountKeeps
<1>7. CASE NewChat
  <2>1. PICK r : r = Request("create", token)
    OBVIOUS
  <2>2. IsRequest(r) /\ r.kind = "create" /\ r.tok = token
    BY <2>1, MakesPlain DEF Made
  <2>3. /\ user # None /\ net' = Append(net, r) /\ UNCHANGED <<stored, token, user, page>>
        /\ Beside({})
    BY <1>7, <2>1 DEF NewChat, Start, account
  <2> QED
    BY <1>2, <2>2, <2>3, AccountStart
<1>8. ASSUME NEW c \in DOMAIN owner, OpenChat(c) PROVE AccountInv'
  <2>1. PICK r : r = [Request("open", token) EXCEPT !.chat = c]
    OBVIOUS
  <2>2. IsRequest(r) /\ r.kind = "open" /\ r.tok = token
    <3>1. Made(r, "open", token)
      BY <2>1, Makes
    <3> QED BY <3>1 DEF Made
  <2>3. /\ user # None /\ stored' = stored /\ token' = token /\ Beside(Reads)
        /\ Render(user, "chat", selected, FALSE, Append(net, r))
    BY <1>8, <2>1 DEF OpenChat
  <2>4. IsNet(Append(net, r))
    BY <1>1, <2>2, NetAppend
  <2>5. /\ user' = user /\ page' = "chat"
        /\ \A K, B, t : Fits(Append(net, r), K, B, t) => Fits(net', K, B, t)
    BY <1>1, <2>3, <2>4, FitsRender
  <2>6. crossed' = crossed /\ mishaps' \in Nat /\ (mishaps' = 0 => mishaps = 0)
    BY <1>2, <2>3
  <2> QED
    BY <2>2, <2>3, <2>5, <2>6, AccountStart
<1>9. ASSUME NEW c \in DOMAIN owner, DeleteChat(c) PROVE AccountInv'
  <2>1. PICK r : r = [Request("delete", token) EXCEPT !.chat = c, !.sel = selected, !.list = chats]
    OBVIOUS
  <2>2. IsRequest(r) /\ r.kind = "delete" /\ r.tok = token
    <3>1. Made(r, "delete", token)
      BY <2>1, Makes
    <3> QED BY <3>1 DEF Made
  <2>3. /\ user # None /\ net' = Append(net, r) /\ UNCHANGED <<stored, token, user, page>>
        /\ Beside({})
    BY <1>9, <2>1 DEF DeleteChat, Start, account
  <2> QED
    BY <1>2, <2>2, <2>3, AccountStart
<1>10. CASE Submit
  <2>1. PICK r : r = [Request("ask", token) EXCEPT
                !.chat = current, !.ask = asked + 1, !.live = TRUE, !.sel = selected]
    OBVIOUS
  <2>2. IsRequest(r) /\ r.kind = "ask" /\ r.tok = token
    BY <2>1 DEF IsRequest, Fields, Request
  <2>3. /\ net' = Append(net, r) /\ user # None /\ UNCHANGED <<stored, token, user, page>>
        /\ Beside({})
    BY <1>10, <2>1 DEF Submit, Mounted, account
  <2> QED
    BY <1>2, <2>2, <2>3, AccountStart
<1> QED
  BY <1>3, <1>4, <1>5, <1>6, <1>7, <1>8, <1>9, <1>10 DEF Acts

\* The reply to verifyAuth: nothing else is in flight, or somebody crossed it.
LEMMA AccountVerified ==
  ASSUME AccountInv, SpinInv', NEW i \in DOMAIN net, ArriveVerified(i)
  PROVE  AccountInv'
<1> USE SessionAssumption DEF SessionAssumption
<1>1. IsNet(net) /\ busy \in BOOLEAN /\ net[i].kind = "verify"
  BY DEF AccountInv, SpinInv, ArriveVerified, Ok, Bad
<1>2. UNCHANGED <<mishaps, crossed>>
  BY DEF ArriveVerified, counts
<1>3. IsNet(Rest(i)) /\ Len(Rest(i)) = Len(net) - 1
  BY <1>1, NetRest DEF Rest
<1>4. page' = page /\ stored' \in {stored, None}
  <2>1. ASSUME NEW s, NEW t, NEW u, SetAccount(s, t, u, page, Rest(i))
        PROVE  page' = page /\ stored' = s
    BY <1>1, <1>3, <2>1, SettledAccount
  <2> QED BY <2>1 DEF ArriveVerified, lists
<1>5. ASSUME Verifying PROVE Settled'
  <2>1. i = 1 /\ Len(Rest(i)) = 0 /\ user = None /\ net[i].tok = stored /\ token = stored
    <3>1. DOMAIN net = 1..Len(net) /\ Len(net) = 1
      BY <1>1, <1>5, NetLen DEF Verifying
    <3>2. i = 1
      BY <3>1
    <3> QED BY <1>3, <1>5, <3>1, <3>2 DEF Verifying
  <2>2. \A K, B, t : Fits(Rest(i), K, B, t)
    BY <1>3, <2>1, FitsEmpty
  <2>3. ASSUME NEW t, SetAccount(t, t, t, page, Rest(i)) PROVE Settled'
    BY <1>1, <1>3, <2>2, <2>3, SettledAccount
  <2>4. CASE Ok(i, "verify") /\ SetAccount(stored, net[i].tok, net[i].tok, page, Rest(i))
    BY <2>1, <2>3, <2>4
  <2>5. ASSUME NEW u, u \in {None, user}, SetAccount(None, None, u, page, Rest(i)) PROVE Settled'
    BY <2>1, <2>3, <2>5
  <2>6. CASE token = None /\ stored' = None /\ net' = Rest(i) /\ UNCHANGED <<token, user>>
    BY <2>1, <2>2, <2>6 DEF Settled
  <2> QED BY <2>4, <2>5, <2>6 DEF ArriveVerified
<1>6. ASSUME ~ Verifying PROVE "verify" \in crossed
  <2>1. ~ Fits(net, {"verify"}, {}, None)
    BY <1>1 DEF Fits
  <2> QED BY <1>6, <2>1 DEF AccountInv, Unmixed
<1>7. Settled' => Uncrossed' /\ Unmixed'
  BY DEF Settled, Uncrossed, Unmixed, Fits
<1> QED BY <1>2, <1>4, <1>5, <1>6, <1>7 DEF AccountInv

\* The reply to a login: no other of its kind is in flight, or somebody crossed it.
LEMMA AccountLogin ==
  ASSUME AccountInv, SpinInv', NEW i \in DOMAIN net, ArriveLogin(i)
  PROVE  AccountInv'
<1>1. IsNet(net) /\ busy \in BOOLEAN /\ net[i].kind = "login"
  BY DEF AccountInv, SpinInv, ArriveLogin, Ok
<1>2. UNCHANGED <<mishaps, crossed>>
  BY DEF ArriveLogin, counts
<1>3. PICK t : SetAccount(t, t, t, "chat", Rest(i))
  BY DEF ArriveLogin
<1>4. IsNet(Rest(i))
  BY <1>1, NetRest DEF Rest
<1>5. /\ stored' = t /\ token' = t /\ user' = t /\ page' = "chat"
      /\ Fits(Rest(i), {"verify"}, {}, None) => Fits(net', {"verify"}, {}, None)
      /\ Fits(Rest(i), {"verify", "login"}, {"refresh", "ask"}, t) => Settled'
  BY <1>1, <1>3, <1>4, SettledAccount
<1>6. ~ Verifying
  BY <1>1, NetLen DEF Verifying
<1>7. ASSUME crossed = {} PROVE Settled'
  <2>1. SigningIn
    BY <1>1, <1>6, <1>7 DEF AccountInv, Uncrossed, Settled, Fits
  <2>2. \A j \in DOMAIN Rest(i) : Rest(i)[j].kind \notin AccountKinds
    BY <1>1, <2>1, AloneRest DEF SigningIn, Rest, AccountKinds
  <2>3. Fits(Rest(i), {"verify", "login"}, {"refresh", "ask"}, t)
    BY <2>2 DEF Fits, AccountKinds
  <2> QED BY <1>5, <2>3
<1>8. ASSUME "verify" \notin crossed PROVE Unmixed'
  <2>1. Fits(net, {"verify"}, {}, None)
    BY <1>6, <1>8 DEF AccountInv, Unmixed
  <2>2. Fits(Rest(i), {"verify"}, {}, None)
    BY <1>1, <2>1, FitsRest DEF Rest
  <2> QED BY <1>5, <2>2 DEF Unmixed
<1> QED BY <1>2, <1>5, <1>7, <1>8 DEF AccountInv, Uncrossed

\* refreshUser: the user shown becomes that of the token, or somebody crossed it.
LEMMA AccountUser ==
  ASSUME AccountInv, SpinInv', NEW i \in DOMAIN net, ArriveUser(i)
  PROVE  AccountInv'
<1>1. IsNet(net) /\ busy \in BOOLEAN /\ net[i].kind = "refresh"
  BY DEF AccountInv, SpinInv, ArriveUser, Ok
<1>2. UNCHANGED <<mishaps, crossed>>
  BY DEF ArriveUser, counts
<1>3. PICK u : u = net[i].tok /\ SetAccount(stored, token, u, page, Rest(i))
  BY DEF ArriveUser
<1>4. IsNet(Rest(i))
  BY <1>1, NetRest DEF Rest
<1>5. /\ stored' = stored /\ token' = token /\ page' = page
      /\ Fits(Rest(i), {"verify"}, {}, None) => Fits(net', {"verify"}, {}, None)
      /\ /\ stored = token /\ u = token
         /\ Fits(Rest(i), {"verify", "login"}, {"refresh", "ask"}, token)
         => Settled'
  BY <1>1, <1>3, <1>4, SettledAccount
<1>6. ~ Verifying
  BY <1>1, NetLen DEF Verifying
<1>7. ASSUME crossed = {} PROVE Settled'
  <2>1. Settled
    BY <1>1, <1>6, <1>7 DEF AccountInv, Uncrossed, SigningIn, Fits
  <2>2. u = token /\ token = stored
    BY <1>1, <1>3, <2>1 DEF Settled, Fits
  <2>3. Fits(Rest(i), {"verify", "login"}, {"refresh", "ask"}, token)
    BY <1>1, <2>1, FitsRest DEF Settled, Rest
  <2> QED BY <1>5, <2>2, <2>3
<1>8. ASSUME "verify" \notin crossed PROVE Unmixed'
  <2>1. token = stored /\ Fits(net, {"verify"}, {}, None)
    BY <1>6, <1>8 DEF AccountInv, Unmixed
  <2>2. Fits(Rest(i), {"verify"}, {}, None)
    BY <1>1, <2>1, FitsRest DEF Rest
  <2> QED BY <1>5, <2>1, <2>2 DEF Unmixed
<1> QED BY <1>2, <1>5, <1>7, <1>8 DEF AccountInv, Uncrossed

\* Any other reply.
LEMMA AccountArrive ==
  ASSUME AccountInv, SpinInv', NEW i \in DOMAIN net, Arrive(i)
  PROVE  AccountInv'
<1>1. IsNet(net) /\ busy \in BOOLEAN /\ mishaps \in Nat
  BY DEF AccountInv, SpinInv
<1>2. IsNet(Rest(i)) /\ \A K, B, t : Fits(net, K, B, t) => Fits(Rest(i), K, B, t)
  BY <1>1, FitsRest, NetRest DEF Rest
<1>3. Alone(net) => Alone(Rest(i))
  BY <1>1, AloneRest DEF Rest
<1>4. net[i].kind # "verify" => ~ Verifying
  BY <1>1, NetLen DEF Verifying
<1>5. ASSUME net[i].kind # "verify", UNCHANGED <<stored, token, user, mishaps, crossed>>,
             page' = page \/ page' # "login",
             Alone(Rest(i)) => Alone(net'),
             \A K, B, t : Fits(Rest(i), K, B, t) => Fits(net', K, B, t)
      PROVE  AccountInv'
  <2>1. SigningIn => Alone(net') /\ Fits(net', {"verify", "refresh", "ask"}, {}, None)
    BY <1>2, <1>3, <1>5 DEF SigningIn
  <2>2. Settled => Fits(net', {"verify", "login"}, {"refresh", "ask"}, token)
    BY <1>2, <1>5 DEF Settled
  <2>3. Fits(net, {"verify"}, {}, None) => Fits(net', {"verify"}, {}, None)
    BY <1>2, <1>5
  <2> QED BY <1>1, <1>4, <1>5, <2>1, <2>2, <2>3, AccountKeeps
<1>6. ASSUME NEW p, NEW sel, NEW fresh, Render(user, p, sel, fresh, Rest(i)),
             p \in {page, "chat"}, net[i].kind # "verify",
             UNCHANGED <<stored, token, mishaps, crossed>>
      PROVE  AccountInv'
  <2>1. /\ user' = user /\ page' = p
        /\ Alone(Rest(i)) => Alone(net')
        /\ \A K, B, t : Fits(Rest(i), K, B, t) => Fits(net', K, B, t)
    BY <1>1, <1>2, <1>6, FitsRender
  <2> QED BY <1>5, <1>6, <2>1
<1>7. CASE ArriveNothing(i)
  <2>1. /\ net[i].kind # "verify" /\ net' = Rest(i)
        /\ UNCHANGED <<stored, token, user, page, mishaps, crossed>>
    BY <1>7 DEF ArriveNothing, account, counts, Bad
  <2> QED BY <1>5, <2>1
<1>8. CASE ArriveChats(i)
  <2>1. \E sel, fresh : Render(user, page, sel, fresh, Rest(i))
    BY <1>8 DEF ArriveChats
  <2>2. net[i].kind # "verify" /\ UNCHANGED <<stored, token, mishaps, crossed>>
    BY <1>8 DEF ArriveChats, counts, Ok
  <2> QED
    BY <1>6, <2>1, <2>2
<1>9. CASE ArriveNewChat(i)
  <2>1. net[i].kind # "verify" /\ UNCHANGED <<stored, token, mishaps, crossed>>
    BY <1>9 DEF ArriveNewChat, counts, Ok
  <2> QED BY <1>6, <1>9, <2>1 DEF ArriveNewChat
<1>10. CASE ArriveDeleted(i)
  <2>1. \E sel, fresh : Render(user, page, sel, fresh, Rest(i))
    BY <1>10 DEF ArriveDeleted
  <2>2. net[i].kind # "verify" /\ UNCHANGED <<stored, token, mishaps, crossed>>
    BY <1>10 DEF ArriveDeleted, counts, Ok
  <2> QED
    BY <1>6, <2>1, <2>2
<1>11. CASE ArriveOpened(i)
  <2>1. net[i].kind # "verify" /\ UNCHANGED <<stored, token, mishaps, crossed>>
    BY <1>11 DEF ArriveOpened, counts, Ok
  <2> QED BY <1>6, <1>11, <2>1 DEF ArriveOpened
<1>12. CASE ArriveAnswer(i)
  <2>1. PICK f : f \in {<<>>, FollowUps(net[i])} /\ net' = Rest(i) \o f
    BY <1>12 DEF ArriveAnswer
  <2>2. /\ net[i].kind = "ask"
        /\ UNCHANGED <<stored, token, user, page, mishaps, crossed>>
    BY <1>12 DEF ArriveAnswer, account, counts
  <2>3. ~ SigningIn
    BY <2>2 DEF SigningIn, Fits
  <2>4. Settled => Fits(net', {"verify", "login"}, {"refresh", "ask"}, token)
    <3>1. ASSUME Settled PROVE Fits(Rest(i) \o f, {"verify", "login"}, {"refresh", "ask"}, token)
      <4>1. net[i].tok = token /\ Fits(Rest(i), {"verify", "login"}, {"refresh", "ask"}, token)
        <5>1. Fits(net, {"verify", "login"}, {"refresh", "ask"}, token)
          BY <3>1 DEF Settled
        <5>2. net[i].tok = token
          BY <2>2, <5>1 DEF Fits
        <5> QED BY <1>2, <5>1, <5>2
      <4>2. PICK q : q = Rest(i) /\ IsNet(q)
        BY <1>2
      <4>3. Fits(q, {"verify", "login"}, {"refresh", "ask"}, token)
        BY <4>1, <4>2
      <4>4. Fits(q \o f, {"verify", "login"}, {"refresh", "ask"}, token)
        BY <2>1, <4>1, <4>2, <4>3, FitsFollow
      <4> QED BY <4>2, <4>4
    <3> QED BY <2>1, <3>1
  <2>5. Fits(net, {"verify"}, {}, None) => Fits(net', {"verify"}, {}, None)
    <3>1. ASSUME Fits(net, {"verify"}, {}, None) PROVE Fits(Rest(i) \o f, {"verify"}, {}, None)
      <4>1. Fits(Rest(i), {"verify"}, {}, None)
        BY <1>2, <3>1
      <4> QED BY <1>2, <2>1, <4>1, FitsFollow
    <3> QED BY <2>1, <3>1
  <2> QED
    BY <1>1, <1>4, <2>2, <2>3, <2>4, <2>5, AccountKeeps
<1> QED
  BY <1>7, <1>8, <1>9, <1>10, <1>11, <1>12, AccountVerified, AccountLogin, AccountUser DEF Arrive

LEMMA AccountNext == AccountInv /\ [Next]_vars => AccountInv'
<1> SUFFICES ASSUME AccountInv, [Next]_vars PROVE AccountInv'
  OBVIOUS
<1>1. SpinInv /\ SpinInv' /\ IsNet(net) /\ mishaps \in Nat
  BY SpinNext DEF AccountInv, SpinInv
<1>2. CASE Acts
  BY <1>1, <1>2, AccountActs
<1>3. ASSUME NEW i \in DOMAIN net, Serve(i) \/ LoseRequest(i) PROVE AccountInv'
  <2>1. PICK x, y : /\ net' = Answered(net, i, x, y)
                    /\ UNCHANGED <<stored, token, user, page>>
    BY <1>3, InPlace
  <2>2. PICK n : n = Answered(net, i, x, y)
    OBVIOUS
  <2>3. /\ Len(n) = Len(net) /\ DOMAIN n = DOMAIN net
        /\ \A j \in DOMAIN net : n[j].kind = net[j].kind /\ n[j].tok = net[j].tok
    BY <1>1, <2>2, QuietAnswer
  <2>4. DOMAIN net = 1..Len(net)
    BY <1>1, NetLen
  <2>5. /\ crossed' = crossed /\ mishaps' \in Nat /\ (mishaps' = 0 => mishaps = 0)
    <3>1. CASE Serve(i)
      BY <1>1, <3>1 DEF Serve, ServeRead, ServeCreate, ServeDelete, ServeAsk, Answer, counts
    <3>2. CASE LoseRequest(i)
      BY <1>1, <3>2 DEF LoseRequest, Mishap
    <3> QED BY <1>3, <3>1, <3>2
  <2>6. Verifying => Verifying'
    BY <2>1, <2>2, <2>3, <2>4 DEF Verifying
  <2>7. /\ Alone(net) => Alone(net')
        /\ \A K, B, t : Fits(net, K, B, t) => Fits(net', K, B, t)
    <3>1. Alone(net) => Alone(net')
      BY <2>1, <2>2, <2>3 DEF Alone
    <3>2. ASSUME NEW K, NEW B, NEW t, Fits(net, K, B, t) PROVE Fits(net', K, B, t)
      BY <2>1, <2>2, <2>3, <3>2 DEF Fits
    <3> QED BY <3>1, <3>2
  <2>8. CASE Verifying
    BY <1>1, <2>1, <2>5, <2>6, <2>8 DEF AccountInv, Uncrossed, Unmixed, Verifying
  <2>9. CASE ~ Verifying
    <3>1. SigningIn => Alone(net') /\ Fits(net', {"verify", "refresh", "ask"}, {}, None)
      BY <2>7 DEF SigningIn
    <3>2. Settled => Fits(net', {"verify", "login"}, {"refresh", "ask"}, token)
      BY <2>7 DEF Settled
    <3>3. Fits(net, {"verify"}, {}, None) => Fits(net', {"verify"}, {}, None)
      BY <2>7
    <3> QED BY <1>1, <2>1, <2>5, <2>9, <3>1, <3>2, <3>3, AccountKeeps
  <2> QED
    BY <2>8, <2>9
<1>4. ASSUME NEW i \in DOMAIN net, Arrive(i) PROVE AccountInv'
  BY <1>1, <1>4, AccountArrive
<1>5. CASE UNCHANGED vars
  BY <1>1, <1>5 DEF vars, account, counts, AccountInv, Uncrossed, Unmixed, Verifying, SigningIn,
     Settled, Alone, Fits
<1> QED
  BY <1>2, <1>3, <1>4, <1>5 DEF Next, Network

\* Whatever the user does beside requests and whichever replies are lost: the token sent is
\* that in localStorage unless verifyAuth was crossed by signing in or out, and once all
\* replies are in it is that of the user displayed unless a request that sets the user was.
THEOREM OneAccountAtRest == Spec => []OneAccount
<1>1. AccountInv => OneAccount
  <2> SUFFICES ASSUME AccountInv PROVE OneAccount
    OBVIOUS
  <2>1. "verify" \notin crossed => token = stored
    BY DEF AccountInv, Unmixed
  <2>2. ASSUME crossed = {}, net = <<>> PROVE user = token
    <3>1. ~ Verifying
      BY <2>2 DEF Verifying
    <3> QED BY <2>2, <3>1 DEF AccountInv, Uncrossed, SigningIn, Settled
  <2> QED BY <2>1, <2>2 DEF OneAccount
<1> QED
  BY <1>1, AccountInit, AccountNext, PTL DEF Spec

-----------------------------------------------------------------------------
\* The elements of a list at some of its places.  An enumeration lists the places in
\* their order, and there is one only.

Enumerates(g, m, P) ==
  /\ m \in Nat /\ g \in [1..m -> P]
  /\ \A j, k \in 1..m : j < k => g[j] < g[k]
  /\ \A p \in P : \E k \in 1..m : g[k] = p

LEMMA LeastOf ==
  ASSUME NEW S \in SUBSET Nat, S # {}
  PROVE  \E n \in S : \A m \in S : n <= m
<1>1. \E n \in S : \A m \in S : ~(<<m, n>> \in OpToRel(<, Nat))
  BY WFMin, NatLessThanWellFounded
<1>2. \A m, n \in S : <<m, n>> \in OpToRel(<, Nat) <=> m < n
  BY DEF OpToRel
<1>3. \A m, n \in S : ~(m < n) => n <= m
  OBVIOUS
<1> QED
  BY <1>1, <1>2, <1>3

\* One more place, after all others.
Extended(g, m, n) == [k \in 1..(m + 1) |-> IF k = m + 1 THEN n ELSE g[k]]

LEMMA EnumExtend ==
  ASSUME NEW P \in SUBSET Nat, NEW g, NEW m, Enumerates(g, m, P),
         NEW n \in Nat, \A p \in P : p < n
  PROVE  Enumerates(Extended(g, m, n), m + 1, P \cup {n})
<1> USE DEF Extended
<1> DEFINE h == Extended(g, m, n)
           Q == P \cup {n}
<1>1. m \in Nat /\ g \in [1..m -> P] /\ \A k \in 1..m : g[k] \in P /\ g[k] \in Nat /\ g[k] < n
  BY DEF Enumerates
<1>2. m + 1 \in Nat /\ h \in [1..(m + 1) -> Q]
  BY <1>1
<1>3. \A j, k \in 1..(m + 1) : j < k => h[j] < h[k]
  <2>1. SUFFICES ASSUME NEW j \in 1..(m + 1), NEW k \in 1..(m + 1), j < k PROVE h[j] < h[k]
    OBVIOUS
  <2>2. j \in 1..m /\ h[j] = g[j]
    BY <1>1, <2>1
  <2>3. CASE k = m + 1
    BY <1>1, <2>2, <2>3
  <2>4. CASE k # m + 1
    <3>1. k \in 1..m /\ h[k] = g[k]
      BY <1>1, <2>4
    <3> QED
      BY <2>1, <2>2, <3>1 DEF Enumerates
  <2> QED
    BY <2>3, <2>4
<1>4. \A p \in Q : \E k \in 1..(m + 1) : h[k] = p
  <2>1. ASSUME NEW p \in P PROVE \E k \in 1..(m + 1) : h[k] = p
    <3>1. PICK k \in 1..m : g[k] = p
      BY DEF Enumerates
    <3>2. k \in 1..(m + 1) /\ h[k] = p
      BY <1>1, <3>1
    <3> QED
      BY <3>2
  <2>2. m + 1 \in 1..(m + 1) /\ h[m + 1] = n
    BY <1>1
  <2> QED
    BY <2>1, <2>2
<1> QED
  BY <1>2, <1>3, <1>4 DEF Enumerates

\* Any places of a list can be enumerated: if not, take a shortest list with such places.
LEMMA EnumExists ==
  ASSUME NEW n \in Nat, NEW P \in SUBSET (1..n)
  PROVE  \E m, g : Enumerates(g, m, P)
<1> DEFINE B == {b \in Nat : \E Q \in SUBSET (1..b) : ~ \E m, g : Enumerates(g, m, Q)}
<1>1. SUFFICES B = {}
  OBVIOUS
<1>2. SUFFICES ASSUME B # {} PROVE FALSE
  OBVIOUS
<1>3. PICK b \in B : \A c \in B : b <= c
  <2>1. B \in SUBSET Nat
    OBVIOUS
  <2> HIDE DEF B
  <2> QED
    BY <1>2, <2>1, LeastOf
<1>4. PICK Q \in SUBSET (1..b) : ~ \E m, g : Enumerates(g, m, Q)
  BY <1>3
<1>5. b \in Nat
  OBVIOUS
<1>6. CASE b = 0
  <2>1. Q = {}
    BY <1>6
  <2>2. 0 \in Nat /\ <<>> \in [1..0 -> Q] /\ \A j \in 1..0 : FALSE
    OBVIOUS
  <2>3. Enumerates(<<>>, 0, Q)
    BY <2>1, <2>2 DEF Enumerates
  <2> QED
    BY <1>4, <2>3
<1>7. CASE b # 0
  <2>1. b - 1 \in Nat /\ ~(b <= b - 1) /\ Q \ {b} \in SUBSET (1..(b - 1))
    BY <1>5, <1>7
  <2>2. b - 1 \notin B
    BY <1>3, <2>1
  <2>3. PICK m, g : Enumerates(g, m, Q \ {b})
    BY <2>1, <2>2
  <2>4. CASE b \in Q
    <3>1. Q \ {b} \in SUBSET Nat /\ \A p \in Q \ {b} : p < b
      BY <1>5, <2>1
    <3>2. Enumerates(Extended(g, m, b), m + 1, (Q \ {b}) \cup {b})
      BY <1>5, <2>3, <3>1, EnumExtend
    <3>3. Q = (Q \ {b}) \cup {b}
      BY <2>4
    <3>4. Enumerates(Extended(g, m, b), m + 1, Q)
      BY <3>2, <3>3
    <3> QED
      BY <1>4, <3>4
  <2>5. CASE b \notin Q
    BY <1>4, <2>3, <2>5
  <2> QED
    BY <2>4, <2>5
<1> QED
  BY <1>6, <1>7

LEMMA EnumApart ==
  ASSUME NEW P \in SUBSET Nat, NEW g, NEW m, Enumerates(g, m, P),
         NEW j \in 1..m, NEW k \in 1..m
  PROVE  g[j] \in Nat /\ g[k] \in Nat /\ (g[j] = g[k] => j = k) /\ (g[j] < g[k] => j < k)
<1>1. m \in Nat /\ g[j] \in Nat /\ g[k] \in Nat
  BY DEF Enumerates
<1>2. j < k => g[j] < g[k]
  BY DEF Enumerates
<1>3. k < j => g[k] < g[j]
  BY DEF Enumerates
<1> QED
  BY <1>1, <1>2, <1>3

LEMMA EnumCard ==
  ASSUME NEW P \in SUBSET Nat, NEW g, NEW m, Enumerates(g, m, P)
  PROVE  Cardinality(P) = m
<1>1. m \in Nat /\ g \in [1..m -> P] /\ \A p \in P : \E k \in 1..m : g[k] = p
  BY DEF Enumerates
<1>2. \A j, k \in 1..m : g[j] = g[k] => j = k
  BY EnumApart
<1>3. g \in Bijection(1..m, P)
  BY <1>1, <1>2 DEF Bijection, Injection, Surjection, IsInjective
<1>4. ExistsBijection(1..m, P)
  BY <1>3 DEF ExistsBijection
<1> QED
  BY <1>1, <1>4, FS_CountingElements

\* Two enumerations of one set agree: look at the first place where they do not.
LEMMA EnumUnique ==
  ASSUME NEW P \in SUBSET Nat, NEW g, NEW m, Enumerates(g, m, P),
         NEW h, Enumerates(h, m, P)
  PROVE  g = h
<1> DEFINE B == {k \in 1..m : g[k] # h[k]}
<1>1. m \in Nat /\ g \in [1..m -> P] /\ h \in [1..m -> P]
  BY DEF Enumerates
<1>2. SUFFICES ASSUME B # {} PROVE FALSE
  BY <1>1
<1>3. PICK k \in B : \A c \in B : k <= c
  <2>1. B \in SUBSET Nat
    BY <1>1
  <2> HIDE DEF B
  <2> QED
    BY <1>2, <2>1, LeastOf
<1>4. k \in 1..m /\ g[k] # h[k] /\ g[k] \in P /\ h[k] \in P /\ g[k] \in Nat /\ h[k] \in Nat
  BY <1>1, <1>3
<1>5. ASSUME NEW a, NEW b, Enumerates(a, m, P), Enumerates(b, m, P), a[k] < b[k],
             \A c \in 1..m : c < k => a[c] = b[c]
      PROVE  FALSE
  <2>1. a[k] \in P
    BY <1>4, <1>5 DEF Enumerates
  <2>2. PICK l \in 1..m : b[l] = a[k]
    BY <1>5, <2>1 DEF Enumerates
  <2>3. l < k
    BY <1>4, <1>5, <2>2, EnumApart
  <2>4. a[l] = a[k]
    BY <1>5, <2>2, <2>3
  <2>5. l = k
    BY <1>4, <1>5, <2>4, EnumApart
  <2> QED
    BY <1>1, <1>4, <2>3, <2>5
<1>6. \A c \in 1..m : c < k => g[c] = h[c]
  <2>1. SUFFICES ASSUME NEW c \in 1..m, c < k, g[c] # h[c] PROVE FALSE
    OBVIOUS
  <2>2. c \in B /\ ~(k <= c)
    BY <1>1, <1>4, <2>1
  <2> QED
    BY <1>3, <2>2
<1>7. g[k] < h[k] \/ h[k] < g[k]
  BY <1>4
<1> QED
  BY <1>5, <1>6, <1>7

\* The model's choice is the enumeration.
Along(s, g, m) == [k \in 1..m |-> s[g[k]]]

LEMMA AtEnum ==
  ASSUME NEW n \in Nat, NEW P \in SUBSET (1..n), NEW s, NEW m, NEW g, Enumerates(g, m, P)
  PROVE  At(s, P) = Along(s, g, m)
<1> DEFINE F == [1..Cardinality(P) -> P]
           Up(f) == \A j, k \in DOMAIN f : j < k => f[j] < f[k]
           at == CHOOSE f \in F : Up(f)
<1>1. P \in SUBSET Nat
  OBVIOUS
<1>2. Cardinality(P) = m /\ m \in Nat /\ g \in [1..m -> P]
  BY <1>1, EnumCard DEF Enumerates
<1>3. g \in F /\ Up(g)
  BY <1>2 DEF Enumerates
<1>4. at \in F /\ Up(at)
  <2> HIDE DEF F, Up
  <2> QED
    BY <1>3
<1> HIDE DEF at
<1>5. at \in [1..m -> P] /\ \A j, k \in 1..m : j < k => at[j] < at[k]
  BY <1>2, <1>4
<1>6. \A j, k \in 1..m : at[j] = at[k] => j = k
  <2>1. SUFFICES ASSUME NEW j \in 1..m, NEW k \in 1..m, at[j] = at[k], j # k PROVE FALSE
    OBVIOUS
  <2>2. j < k \/ k < j
    BY <1>2, <2>1
  <2>3. at[j] \in Nat /\ at[k] \in Nat
    BY <1>1, <1>5
  <2> QED
    BY <1>5, <2>1, <2>2, <2>3
<1>7. at \in Injection(1..m, P)
  BY <1>5, <1>6 DEF Injection, IsInjective
<1>8. IsFiniteSet(1..m) /\ Cardinality(1..m) = m
  <2>1. 1 \in Int /\ m \in Int
    BY <1>2
  <2>2. IsFiniteSet(1..m) /\ Cardinality(1..m) = IF 1 > m THEN 0 ELSE m - 1 + 1
    BY <2>1, FS_Interval
  <2> QED
    BY <1>2, <2>2
<1>9. IsFiniteSet(P)
  <2>1. 1 \in Int /\ n \in Int
    OBVIOUS
  <2>2. IsFiniteSet(1..n)
    BY <2>1, FS_Interval
  <2> QED
    BY <2>2, FS_Subset
<1>10. at \in Surjection(1..m, P)
  BY <1>2, <1>7, <1>8, <1>9, FS_Injection
<1>11. Enumerates(at, m, P)
  BY <1>2, <1>5, <1>10 DEF Surjection, Enumerates
<1>12. at = g
  BY <1>1, <1>11, EnumUnique
<1>13. At(s, P) = [k \in DOMAIN at |-> s[at[k]]]
  BY DEF At, at
<1> QED
  BY <1>2, <1>12, <1>13 DEF Along

LEMMA AtHas ==
  ASSUME NEW n \in Nat, NEW P \in SUBSET (1..n), NEW s
  PROVE  \E m, g : Enumerates(g, m, P) /\ At(s, P) = Along(s, g, m)
<1>1. PICK m, g : Enumerates(g, m, P)
  BY EnumExists
<1>2. At(s, P) = Along(s, g, m)
  BY <1>1, AtEnum
<1> QED
  BY <1>1, <1>2

\* What is at the places P of a list.
LEMMA AtElements ==
  ASSUME NEW T, NEW s \in Seq(T), NEW P \in SUBSET (DOMAIN s)
  PROVE  /\ At(s, P) \in Seq(T)
         /\ \A k \in DOMAIN At(s, P) : \E p \in P : At(s, P)[k] = s[p]
         /\ \A p \in P : \E k \in DOMAIN At(s, P) : At(s, P)[k] = s[p]
<1>1. Len(s) \in Nat /\ DOMAIN s = 1..Len(s) /\ P \in SUBSET (1..Len(s))
  OBVIOUS
<1>2. PICK m, g : Enumerates(g, m, P) /\ At(s, P) = Along(s, g, m)
  BY <1>1, AtHas
<1>3. m \in Nat /\ g \in [1..m -> P] /\ \A p \in P : \E k \in 1..m : g[k] = p
  BY <1>2 DEF Enumerates
<1>4. PICK t : t = At(s, P)
  OBVIOUS
<1>5. DOMAIN t = 1..m /\ \A k \in 1..m : t[k] = s[g[k]] /\ t[k] \in T
  BY <1>2, <1>3, <1>4 DEF Along
<1>6. t = [k \in 1..m |-> t[k]]
  BY <1>2, <1>4 DEF Along
<1>7. t \in [1..m -> T]
  BY <1>5, <1>6
<1>8. t \in Seq(T)
  BY <1>3, <1>7
<1>9. \A k \in 1..m : t[k] = s[g[k]] /\ g[k] \in P
  BY <1>3, <1>5
<1>10. \A p \in P : \E k \in 1..m : t[k] = s[p]
  BY <1>3, <1>5
<1>11. DOMAIN t = 1..m
  BY <1>5
<1> QED
  BY <1>4, <1>8, <1>9, <1>10, <1>11

\* A list without repetitions stays one.
LEMMA AtInjective ==
  ASSUME NEW T, NEW s \in Seq(T), IsInjective(s), NEW P \in SUBSET (DOMAIN s)
  PROVE  IsInjective(At(s, P))
<1>1. Len(s) \in Nat /\ DOMAIN s = 1..Len(s) /\ P \in SUBSET (1..Len(s)) /\ P \in SUBSET Nat
  OBVIOUS
<1>2. PICK m, g : Enumerates(g, m, P) /\ At(s, P) = Along(s, g, m)
  BY <1>1, AtHas
<1>3. m \in Nat /\ g \in [1..m -> P]
  BY <1>2 DEF Enumerates
<1>4. PICK t : t = At(s, P)
  OBVIOUS
<1>5. DOMAIN t = 1..m /\ \A k \in 1..m : t[k] = s[g[k]] /\ g[k] \in P
  BY <1>2, <1>3, <1>4 DEF Along
<1>6. \A j, k \in 1..m : g[j] = g[k] => j = k
  BY <1>1, <1>2, EnumApart
<1>7. \A a, b \in DOMAIN s : s[a] = s[b] => a = b
  BY DEF IsInjective
<1>8. \A j, k \in 1..m : t[j] = t[k] => j = k
  BY <1>5, <1>6, <1>7
<1> QED
  BY <1>4, <1>5, <1>8 DEF IsInjective

\* A new first element.
LEMMA AtCons ==
  ASSUME NEW T, NEW s \in Seq(T), NEW x \in T, NEW P \in SUBSET (DOMAIN s),
         NEW Q, Q = {1} \cup {p + 1 : p \in P}
  PROVE  At(<<x>> \o s, Q) = <<x>> \o At(s, P)
<1>1. Len(s) \in Nat /\ DOMAIN s = 1..Len(s) /\ P \in SUBSET (1..Len(s)) /\ P \in SUBSET Nat
  OBVIOUS
<1>2. PICK m, g : Enumerates(g, m, P) /\ At(s, P) = Along(s, g, m)
  BY <1>1, AtHas
<1>3. m \in Nat /\ g \in [1..m -> P] /\ \A k \in 1..m : g[k] \in P /\ g[k] \in 1..Len(s)
  BY <1>1, <1>2 DEF Enumerates
<1> DEFINE h == [k \in 1..(m + 1) |-> IF k = 1 THEN 1 ELSE g[k - 1] + 1]
           r == <<x>> \o s
           t == At(s, P)
<1>4. Q \in SUBSET (1..(Len(s) + 1)) /\ Len(s) + 1 \in Nat
  BY <1>1
<1>5. \A k \in 1..m : k + 1 \in 1..(m + 1) /\ h[k + 1] = g[k] + 1
  BY <1>3
<1>6. h[1] = 1 /\ \A k \in 1..(m + 1) : k = 1 \/ k - 1 \in 1..m
  BY <1>3
<1>7. Enumerates(h, m + 1, Q)
  <2>1. m + 1 \in Nat
    BY <1>3
  <2>2. \A k \in 1..(m + 1) : h[k] \in Q
    <3>1. SUFFICES ASSUME NEW k \in 1..(m + 1) PROVE h[k] \in Q
      OBVIOUS
    <3>2. CASE k = 1
      BY <1>6, <3>2
    <3>3. CASE k # 1
      <4>1. k - 1 \in 1..m /\ h[k] = g[k - 1] + 1
        BY <1>6, <3>3
      <4> QED
        BY <1>3, <4>1
    <3> QED
      BY <3>2, <3>3
  <2>3. \A j, k \in 1..(m + 1) : j < k => h[j] < h[k]
    <3>1. SUFFICES ASSUME NEW j \in 1..(m + 1), NEW k \in 1..(m + 1), j < k PROVE h[j] < h[k]
      OBVIOUS
    <3>2. k # 1 /\ k - 1 \in 1..m /\ h[k] = g[k - 1] + 1 /\ g[k - 1] \in 1..Len(s)
      BY <1>3, <1>6, <3>1
    <3>3. CASE j = 1
      BY <1>1, <1>6, <3>2, <3>3
    <3>4. CASE j # 1
      <4>1. j - 1 \in 1..m /\ h[j] = g[j - 1] + 1 /\ g[j - 1] \in 1..Len(s) /\ j - 1 < k - 1
        BY <1>3, <1>6, <3>1, <3>4
      <4>2. g[j - 1] < g[k - 1]
        BY <1>2, <3>2, <4>1 DEF Enumerates
      <4> QED
        BY <1>1, <3>2, <4>1, <4>2
    <3> QED
      BY <3>3, <3>4
  <2>4. \A q \in Q : \E k \in 1..(m + 1) : h[k] = q
    <3>1. SUFFICES ASSUME NEW q \in Q PROVE \E k \in 1..(m + 1) : h[k] = q
      OBVIOUS
    <3>2. CASE q = 1
      <4>1. 1 \in 1..(m + 1)
        BY <1>3
      <4> QED
        BY <1>6, <3>2, <4>1
    <3>3. CASE q # 1
      <4>1. PICK p \in P : q = p + 1
        BY <3>3
      <4>2. PICK k \in 1..m : g[k] = p
        BY <1>2 DEF Enumerates
      <4>3. k + 1 \in 1..(m + 1) /\ h[k + 1] = q
        BY <1>5, <4>1, <4>2
      <4> QED
        BY <4>3
    <3> QED
      BY <3>2, <3>3
  <2>5. h \in [1..(m + 1) -> Q]
    BY <2>2
  <2> QED
    BY <2>1, <2>3, <2>4, <2>5 DEF Enumerates
<1> HIDE DEF h
<1>8. At(r, Q) = Along(r, h, m + 1)
  <2>1. PICK n \in Nat : n = Len(s) + 1
    BY <1>4
  <2>2. Q \in SUBSET (1..n)
    BY <1>4, <2>1
  <2>3. \A a, l, f : Enumerates(f, l, Q) => At(a, Q) = Along(a, f, l)
    BY <2>2, AtEnum
  <2> HIDE DEF r
  <2> QED
    BY <1>7, <2>3
<1>9. /\ r \in Seq(T) /\ r[1] = x /\ \A p \in 1..Len(s) : r[p + 1] = s[p]
  OBVIOUS
<1>10. /\ t \in Seq(T) /\ Len(t) = m /\ \A k \in 1..m : t[k] = s[g[k]]
  <2>1. t \in Seq(T)
    BY AtElements
  <2>2. DOMAIN t = 1..m /\ \A k \in 1..m : t[k] = s[g[k]]
    BY <1>2 DEF Along
  <2> HIDE DEF t
  <2> QED
    BY <1>3, <2>1, <2>2
<1> HIDE DEF t
<1>11. /\ <<x>> \o t \in Seq(T) /\ Len(<<x>> \o t) = m + 1
       /\ (<<x>> \o t)[1] = x /\ \A k \in 1..m : (<<x>> \o t)[k + 1] = t[k]
  BY <1>3, <1>10
<1> HIDE DEF r
<1>12. \A k \in 1..(m + 1) : r[h[k]] = (<<x>> \o t)[k]
  <2>1. SUFFICES ASSUME NEW k \in 1..(m + 1) PROVE r[h[k]] = (<<x>> \o t)[k]
    OBVIOUS
  <2>2. CASE k = 1
    BY <1>6, <1>9, <1>11, <2>2
  <2>3. CASE k # 1
    <3>1. PICK l \in 1..m : k = l + 1
      <4>1. k - 1 \in 1..m /\ k = (k - 1) + 1
        BY <1>3, <2>3
      <4> QED
        BY <4>1
    <3>2. h[k] = g[l] + 1 /\ g[l] \in 1..Len(s)
      BY <1>3, <1>5, <3>1
    <3>3. r[h[k]] = s[g[l]]
      BY <1>9, <3>2
    <3> QED
      BY <1>10, <1>11, <3>1, <3>3
  <2> QED
    BY <2>2, <2>3
<1>13. Along(r, h, m + 1) = <<x>> \o t
  <2>1. PICK u : u = <<x>> \o t
    OBVIOUS
  <2>2. u \in Seq(T) /\ Len(u) = m + 1
    BY <1>11, <2>1
  <2>3. u = [k \in 1..(m + 1) |-> u[k]]
    BY <1>3, <2>2
  <2>4. \A k \in 1..(m + 1) : u[k] = r[h[k]]
    BY <1>12, <2>1
  <2>5. Along(r, h, m + 1) = [k \in 1..(m + 1) |-> u[k]]
    BY <2>4 DEF Along
  <2> QED
    BY <2>1, <2>3, <2>5
<1> QED
  BY <1>8, <1>13 DEF r, t

\* Places among places.
LEMMA EnumCompose ==
  ASSUME NEW P \in SUBSET Nat, NEW f, NEW m, Enumerates(f, m, P),
         NEW Q \in SUBSET (1..m), NEW g, NEW l, Enumerates(g, l, Q)
  PROVE  Enumerates(Along(f, g, l), l, {f[q] : q \in Q})
<1> DEFINE h == Along(f, g, l)
           R == {f[q] : q \in Q}
<1>1. m \in Nat /\ f \in [1..m -> P] /\ l \in Nat /\ g \in [1..l -> Q]
  BY DEF Enumerates
<1>2. \A k \in 1..l : h[k] = f[g[k]] /\ g[k] \in Q /\ g[k] \in 1..m
  BY <1>1 DEF Along
<1>3. h \in [1..l -> R]
  BY <1>1 DEF Along
<1>4. \A j, k \in 1..l : j < k => h[j] < h[k]
  <2>1. SUFFICES ASSUME NEW j \in 1..l, NEW k \in 1..l, j < k PROVE h[j] < h[k]
    OBVIOUS
  <2>2. g[j] < g[k]
    BY <2>1 DEF Enumerates
  <2>3. f[g[j]] < f[g[k]]
    BY <1>2, <2>2 DEF Enumerates
  <2> QED
    BY <1>2, <2>3
<1>5. \A r \in R : \E k \in 1..l : h[k] = r
  <2>1. SUFFICES ASSUME NEW q \in Q PROVE \E k \in 1..l : h[k] = f[q]
    OBVIOUS
  <2>2. PICK k \in 1..l : g[k] = q
    BY DEF Enumerates
  <2> QED
    BY <1>2, <2>2
<1> HIDE DEF h, R
<1>6. Enumerates(h, l, R)
  BY <1>1, <1>3, <1>4, <1>5 DEF Enumerates
<1> QED
  BY <1>6 DEF h, R

-----------------------------------------------------------------------------
\* What a user is shown of the chats rc, with owners ow and messages lg.

Item(lg, c) == [id |-> c, messages |-> lg[c]]
OwnedAt(rc, ow, u) == {i \in DOMAIN rc : ow[rc[i]] = u}
Items(lg, own) == [i \in DOMAIN own |-> Item(lg, own[i])]
ListOf(rc, ow, lg, u) == Items(lg, At(rc, OwnedAt(rc, ow, u)))

LEMMA ListingIs == ASSUME NEW u PROVE Listing(u) = ListOf(recent, owner, logs, u)
  BY DEF Listing, ListOf, Items, OwnedAt, Item, Copy

\* The chats listed are those there are of the user.
LEMMA ListHas ==
  ASSUME NEW D, NEW rc \in Seq(D), NEW ow, NEW lg, NEW u, NEW l, l = ListOf(rc, ow, lg, u)
  PROVE  /\ \E n \in Nat : DOMAIN l = 1..n
         /\ \A k \in DOMAIN l : \E i \in DOMAIN rc : ow[rc[i]] = u /\ l[k] = Item(lg, rc[i])
         /\ \A i \in DOMAIN rc : ow[rc[i]] = u => \E k \in DOMAIN l : l[k] = Item(lg, rc[i])
<1> DEFINE P == OwnedAt(rc, ow, u)
<1>1. PICK own : own = At(rc, P)
  OBVIOUS
<1>2. P \in SUBSET (DOMAIN rc)
  BY DEF OwnedAt
<1>3. /\ own \in Seq(D)
      /\ \A k \in DOMAIN own : \E p \in P : own[k] = rc[p]
      /\ \A p \in P : \E k \in DOMAIN own : own[k] = rc[p]
  <2> HIDE DEF P
  <2> QED
    BY <1>1, <1>2, AtElements
<1>4. l = Items(lg, own)
  BY <1>1 DEF ListOf
<1>5. DOMAIN l = DOMAIN own /\ \A k \in DOMAIN own : l[k] = Item(lg, own[k])
  BY <1>4 DEF Items
<1>6. Len(own) \in Nat /\ DOMAIN own = 1..Len(own)
  BY <1>3
<1> QED
  BY <1>3, <1>5, <1>6 DEF OwnedAt

\* A new chat heads the list.
Ahead(x, s) == <<x>> \o s
Entry(n, e) == [id |-> n, messages |-> e]

LEMMA ListCreate ==
  ASSUME NEW U, NEW ow \in Seq(U), NEW M, NEW lg \in Seq(M), Len(lg) = Len(ow),
         NEW rc \in Seq(1..Len(ow)), NEW u \in U, NEW e \in M, NEW n, n = Len(ow) + 1
  PROVE  ListOf(Ahead(n, rc), Append(ow, u), Append(lg, e), u) =
           Ahead(Entry(n, e), ListOf(rc, ow, lg, u))
<1> USE DEF Ahead, Entry
<1>1. PICK rn, on, ln : rn = <<n>> \o rc /\ on = Append(ow, u) /\ ln = Append(lg, e)
  OBVIOUS
<1> DEFINE D == 1..n
<1>2. Len(ow) \in Nat /\ n \in D /\ rc \in Seq(D) /\ \A i \in DOMAIN rc : rc[i] \in 1..Len(ow)
  <2> DEFINE E == 1..Len(ow)
  <2>1. Len(ow) \in Nat /\ n \in D /\ E \subseteq D /\ rc \in Seq(E)
    OBVIOUS
  <2> HIDE DEF D, E
  <2>2. rc \in Seq(D) /\ \A i \in DOMAIN rc : rc[i] \in E
    BY <2>1
  <2> QED
    BY <2>1, <2>2 DEF E
<1>3. /\ on[n] = u /\ ln[n] = e
      /\ \A c \in 1..Len(ow) : on[c] = ow[c] /\ ln[c] = lg[c]
  BY <1>1
<1>4. /\ DOMAIN rn = 1..(Len(rc) + 1) /\ Len(rc) \in Nat /\ DOMAIN rc = 1..Len(rc)
      /\ rn[1] = n /\ \A i \in 1..Len(rc) : rn[i + 1] = rc[i]
  <2> HIDE DEF D
  <2>1. rc \in Seq(D) /\ n \in D
    BY <1>2
  <2> QED
    BY <1>1, <2>1
<1> DEFINE P == OwnedAt(rc, ow, u)
           Q == OwnedAt(rn, on, u)
<1>5. Q = {1} \cup {p + 1 : p \in P}
  <2>1. 1 \in Q
    BY <1>3, <1>4 DEF OwnedAt
  <2>2. ASSUME NEW i \in 1..Len(rc) PROVE i + 1 \in Q <=> i \in P
    <3>1. on[rn[i + 1]] = ow[rc[i]] /\ i + 1 \in DOMAIN rn
      BY <1>2, <1>3, <1>4
    <3> QED
      BY <1>4, <3>1 DEF OwnedAt
  <2>3. P \subseteq 1..Len(rc) /\ Q \subseteq 1..(Len(rc) + 1)
    BY <1>4 DEF OwnedAt
  <2>4. \A j \in 1..(Len(rc) + 1) : j = 1 \/ (j - 1 \in 1..Len(rc) /\ j = (j - 1) + 1)
    BY <1>4
  <2> HIDE DEF P, Q
  <2>5. ASSUME NEW j \in Q PROVE j \in {1} \cup {p + 1 : p \in P}
    <3>1. CASE j = 1
      BY <3>1
    <3>2. CASE j # 1
      <4>1. j - 1 \in 1..Len(rc) /\ j = (j - 1) + 1
        BY <2>3, <2>4, <3>2
      <4>2. j - 1 \in P
        BY <2>2, <4>1
      <4> QED
        BY <4>1, <4>2
    <3> QED
      BY <3>1, <3>2
  <2>6. ASSUME NEW p \in P PROVE p + 1 \in Q
    BY <2>2, <2>3
  <2> QED
    BY <2>1, <2>5, <2>6
<1>6. PICK own : own = At(rc, P)
  OBVIOUS
<1>7. P \in SUBSET (DOMAIN rc)
  BY DEF OwnedAt
<1>8. At(rn, Q) = <<n>> \o own
  <2> HIDE DEF P, Q, D
  <2> QED
    BY <1>1, <1>2, <1>5, <1>6, <1>7, AtCons
<1>9. own \in Seq(1..Len(ow)) /\ Len(own) \in Nat /\ DOMAIN own = 1..Len(own)
  <2>1. own \in Seq(1..Len(ow))
    <3> DEFINE E == 1..Len(ow)
    <3>1. rc \in Seq(E)
      OBVIOUS
    <3> HIDE DEF E, P
    <3>2. own \in Seq(E)
      BY <1>6, <1>7, <3>1, AtElements
    <3> QED
      BY <3>2 DEF E
  <2>2. Len(own) \in Nat /\ DOMAIN own = 1..Len(own)
    <3> DEFINE E == 1..Len(ow)
    <3>1. own \in Seq(E)
      BY <2>1
    <3> HIDE DEF E
    <3> QED
      BY <3>1
  <2> QED
    BY <2>1, <2>2
<1>10. PICK nw : nw = <<n>> \o own
  OBVIOUS
<1>11. /\ DOMAIN nw = 1..(Len(own) + 1) /\ nw[1] = n
       /\ \A k \in 1..Len(own) : nw[k + 1] = own[k] /\ own[k] \in 1..Len(ow)
  <2>1. own \in Seq(Nat) /\ n \in Nat
    <3>1. 1..Len(ow) \subseteq Nat
      BY <1>2
    <3> QED
      BY <1>2, <1>9, <3>1
  <2>2. \A k \in 1..Len(own) : own[k] \in 1..Len(ow)
    BY <1>9
  <2>3. DOMAIN nw = 1..(Len(own) + 1) /\ nw[1] = n /\ \A k \in 1..Len(own) : nw[k + 1] = own[k]
    BY <1>10, <2>1
  <2> QED
    BY <2>2, <2>3
<1> DEFINE x == Item(ln, n)
           l == Items(lg, own)
           S == {x} \cup {l[k] : k \in DOMAIN l}
<1>12. l \in Seq(S) /\ Len(l) = Len(own) /\ \A k \in 1..Len(own) : l[k] = Item(lg, own[k])
  <2>1. l = [k \in 1..Len(own) |-> l[k]] /\ \A k \in 1..Len(own) : l[k] = Item(lg, own[k])
    BY <1>9 DEF Items
  <2>2. DOMAIN l = 1..Len(own)
    BY <1>9 DEF Items
  <2>3. \A k \in 1..Len(own) : l[k] \in S
    BY <2>2
  <2> HIDE DEF l, S
  <2>4. l \in [1..Len(own) -> S]
    BY <2>1, <2>3
  <2>5. l \in Seq(S) /\ Len(l) = Len(own)
    <3> DEFINE m == Len(own)
    <3>1. m \in Nat /\ l \in [1..m -> S]
      BY <1>9, <2>4
    <3> HIDE DEF m
    <3>2. l \in Seq(S) /\ Len(l) = m
      BY <3>1
    <3> QED
      BY <3>2 DEF m
  <2> QED
    BY <2>1, <2>5
<1>13. x \in S
  OBVIOUS
<1>14. PICK y : y = <<x>> \o l
  OBVIOUS
<1>15. /\ y \in Seq(S) /\ DOMAIN y = 1..(Len(own) + 1) /\ y[1] = x
       /\ \A k \in 1..Len(own) : y[k + 1] = l[k]
  <2> HIDE DEF x, l, S
  <2> QED
    BY <1>9, <1>12, <1>13, <1>14
<1>16. \A k \in 1..(Len(own) + 1) : y[k] = Item(ln, nw[k])
  <2>1. SUFFICES ASSUME NEW k \in 1..(Len(own) + 1) PROVE y[k] = Item(ln, nw[k])
    OBVIOUS
  <2>2. CASE k = 1
    BY <1>11, <1>15, <2>2
  <2>3. CASE k # 1
    <3>1. PICK j \in 1..Len(own) : k = j + 1
      <4>1. k - 1 \in 1..Len(own) /\ k = (k - 1) + 1
        BY <1>9, <2>3
      <4> QED
        BY <4>1
    <3>2. y[k] = Item(lg, own[j]) /\ nw[k] = own[j] /\ ln[own[j]] = lg[own[j]]
      BY <1>3, <1>11, <1>12, <1>15, <3>1
    <3> QED
      BY <3>2 DEF Item
  <2> QED
    BY <2>2, <2>3
<1>17. y = [k \in 1..(Len(own) + 1) |-> y[k]]
  <2> HIDE DEF S
  <2> QED
    BY <1>15
<1>18. Items(ln, nw) = y
  <2>1. Items(ln, nw) = [k \in 1..(Len(own) + 1) |-> Item(ln, nw[k])]
    BY <1>11 DEF Items
  <2>2. [k \in 1..(Len(own) + 1) |-> Item(ln, nw[k])] = [k \in 1..(Len(own) + 1) |-> y[k]]
    BY <1>16
  <2> QED
    BY <1>17, <2>1, <2>2
<1>19. x = [id |-> n, messages |-> e]
  BY <1>3 DEF Item
<1>20. ListOf(rn, on, ln, u) = Items(ln, nw)
  BY <1>8, <1>10 DEF ListOf
<1>21. ListOf(rc, ow, lg, u) = l
  BY <1>6 DEF ListOf
<1> HIDE DEF x, l
<1> QED
  BY <1>1, <1>14, <1>18, <1>19, <1>20, <1>21

-----------------------------------------------------------------------------
\* Requests that are all of a set.

Within(q, X) == \A i \in DOMAIN q : q[i] \in X

\* The set does not tell whether the ChatBox is still there.
Deaf(X) == \A r \in X : [r EXCEPT !.live = FALSE] \in X

LEMMA WithinAppend ==
  ASSUME NEW q, IsNet(q), NEW r, IsRequest(r), NEW X, Within(q, X), r \in X
  PROVE  IsNet(Append(q, r)) /\ Within(Append(q, r), X)
<1>1. /\ IsNet(Append(q, r)) /\ Len(Append(q, r)) = Len(q) + 1
      /\ Append(q, r)[Len(q) + 1] = r
      /\ \A i \in DOMAIN q : Append(q, r)[i] = q[i]
  BY NetAppend
<1>2. Len(q) \in Nat /\ DOMAIN q = 1..Len(q) /\ DOMAIN Append(q, r) = 1..(Len(q) + 1)
  BY <1>1, NetLen
<1>3. ASSUME NEW i \in DOMAIN Append(q, r) PROVE Append(q, r)[i] \in X
  <2>1. i \in DOMAIN q \/ i = Len(q) + 1
    BY <1>2
  <2> QED
    BY <1>1, <2>1 DEF Within
<1> QED
  BY <1>1, <1>3 DEF Within

LEMMA WithinRest ==
  ASSUME NEW q, IsNet(q), NEW X, Within(q, X), NEW i \in DOMAIN q
  PROVE  IsNet(RemoveAt(q, i)) /\ Within(RemoveAt(q, i), X)
  BY NetRest DEF Within

LEMMA WithinRender ==
  ASSUME NEW u, NEW p, NEW sel, NEW fresh, NEW q, IsNet(q), busy \in BOOLEAN,
         Render(u, p, sel, fresh, q), NEW X, Within(q, X), Deaf(X)
  PROVE  Within(net', X)
<1>1. net' = q \/ net' = Detached(q)
  BY DEF Render
<1>2. Within(Detached(q), X)
  BY DEF Detached, Within, Deaf
<1> QED
  BY <1>1, <1>2

LEMMA WithinAnswered ==
  ASSUME NEW q, NEW i \in DOMAIN q, NEW x, NEW y, NEW X,
         \A j \in DOMAIN q : j # i => q[j] \in X,
         [q[i] EXCEPT !.status = x, !.reply = y] \in X
  PROVE  Within(Answered(q, i, x, y), X)
<1>1. PICK n : n = Answered(q, i, x, y)
  OBVIOUS
<1>2. /\ DOMAIN n = DOMAIN q /\ n[i] = [q[i] EXCEPT !.status = x, !.reply = y]
      /\ \A j \in DOMAIN q : j # i => n[j] = q[j]
  BY <1>1 DEF Answered
<1> QED
  BY <1>1, <1>2 DEF Within

LEMMA MakesFollow ==
  ASSUME NEW r
  PROVE  /\ Made(FetchChats(r.tok, r.sel), "list", r.tok)
         /\ Made(Request("refresh", r.tok), "refresh", r.tok)
  BY Makes, MakesPlain

\* The reads that follow an answer join one after the other.
LEMMA FollowNet ==
  ASSUME NEW q, IsNet(q), NEW r, NEW f, f \in {<<>>, FollowUps(r)}
  PROVE  q \o f = IF f = <<>> THEN q
                  ELSE Append(Append(q, FetchChats(r.tok, r.sel)), Request("refresh", r.tok))
<1> DEFINE T == ToSet(q)
<1>1. q \in Seq(T)
  BY DEF IsNet
<1> HIDE DEF T
<1>2. q \o <<>> = q
  BY <1>1
<1>3. PICK a, b : a = FetchChats(r.tok, r.sel) /\ b = Request("refresh", r.tok)
  OBVIOUS
<1>4. q \o <<a, b>> = Append(Append(q, a), b)
  <2> DEFINE S == T \cup {a, b}
  <2>1. T \subseteq S /\ a \in S /\ b \in S
    OBVIOUS
  <2> HIDE DEF S
  <2>2. q \in Seq(S)
    BY <1>1, <2>1
  <2> QED
    BY <2>1, <2>2
<1>5. f # <<>> => f = <<a, b>>
  BY <1>3 DEF FollowUps
<1> QED
  BY <1>2, <1>3, <1>4, <1>5

LEMMA WithinFollow ==
  ASSUME NEW q, IsNet(q), NEW X, Within(q, X), NEW r, NEW f, f \in {<<>>, FollowUps(r)},
         f # <<>> => FetchChats(r.tok, r.sel) \in X /\ Request("refresh", r.tok) \in X
  PROVE  IsNet(q \o f) /\ Within(q \o f, X)
<1>1. CASE f = <<>>
  BY <1>1, FollowNet
<1>2. CASE f # <<>>
  <2>1. PICK a, b : a = FetchChats(r.tok, r.sel) /\ b = Request("refresh", r.tok)
    OBVIOUS
  <2>2. IsRequest(a) /\ IsRequest(b) /\ a \in X /\ b \in X
    BY <1>2, <2>1, MakesFollow DEF Made
  <2>3. IsNet(Append(q, a)) /\ Within(Append(q, a), X)
    BY <2>2, WithinAppend
  <2>4. IsNet(Append(Append(q, a), b)) /\ Within(Append(Append(q, a), b), X)
    BY <2>2, <2>3, WithinAppend
  <2> QED
    BY <1>2, <2>1, <2>4, FollowNet
<1> QED
  BY <1>1, <1>2

-----------------------------------------------------------------------------
\* Types.  What the page holds of chats are copies the server made: every answer in one is
\* among the messages of its chat, for messages are only added.

Told(l, m) == \A j \in DOMAIN l : l[j].role = "assistant" => \E k \in DOMAIN m : m[k] = l[j]

Copies(lg) == {x \in Chat : x.id \in DOMAIN lg /\ Told(x.messages, lg[x.id])}

Kinds == {"verify", "login", "refresh", "list", "open", "create", "delete", "ask"}
Statuses == {"sent", "ok", "failed", "lost"}

\* Requests that know the chats S, with ids D.
Over(S, D) ==
  [kind : Kinds, tok : Users \cup {None}, chat : D \cup {None}, ask : Nat, live : BOOLEAN,
   sel : S \cup {None}, list : Seq(S), status : Statuses, reply : Seq(S) \cup S \cup D \cup {None}]

Replied(r, S, D) ==
  r.status = "ok" =>
    /\ r.kind = "list" => r.reply \in Seq(S)
    /\ r.kind \in {"open", "create"} => r.reply \in S
    /\ r.kind = "ask" => r.reply \in D \cup {None}

Asks(S, D) == {r \in Over(S, D) : Replied(r, S, D)}

Known(lg) == Asks(Copies(lg), DOMAIN lg)

ServerTyped(ow, lg, rc) ==
  /\ ow \in Seq(Users \cup {None}) /\ lg \in Seq(Seq(Message)) /\ Len(lg) = Len(ow)
  /\ rc \in Seq(DOMAIN lg) /\ IsInjective(rc)

Pages == {"chat", "other", "login"}

AccountTyped == stored \in Users \cup {None} /\ token \in Users \cup {None}
PageTyped(S, D) ==
  /\ user \in Users \cup {None} /\ page \in Pages
  /\ selected \in S \cup {None}
  /\ shown \in Seq(Message) /\ current \in D \cup {None}

CountsTyped ==
  asked \in 0..MaxAsks /\ mishaps \in 0..MaxMishaps /\ crossed \subseteq AccountKinds

TypeInv ==
  /\ SpinInv
  /\ ServerTyped(owner, logs, recent)
  /\ AccountTyped /\ PageTyped(Copies(logs), DOMAIN logs) /\ chats \in Seq(Copies(logs))
  /\ Within(net, Known(logs))
  /\ CountsTyped

\* Of a bigger server more is known.
LEMMA AsksMono ==
  ASSUME NEW S, NEW S2, S \subseteq S2, NEW D, NEW D2, D \subseteq D2,
         NEW r \in Asks(S, D)
  PROVE  r \in Asks(S2, D2)
<1>1. Seq(S) \subseteq Seq(S2)
  OBVIOUS
<1>2. r \in Over(S, D) /\ Replied(r, S, D)
  BY DEF Asks
<1>3. r \in Over(S2, D2)
  <2>1. r.list \in Seq(S2) /\ r.reply \in Seq(S2) \cup S2 \cup D2 \cup {None}
    BY <1>1, <1>2 DEF Over
  <2> QED
    BY <1>2, <2>1 DEF Over
<1>4. Replied(r, S2, D2)
  BY <1>1, <1>2 DEF Replied
<1> QED
  BY <1>3, <1>4 DEF Asks

LEMMA AsksDeaf == ASSUME NEW S, NEW D PROVE Deaf(Asks(S, D))
<1>1. SUFFICES ASSUME NEW r \in Asks(S, D) PROVE [r EXCEPT !.live = FALSE] \in Asks(S, D)
  BY DEF Deaf
<1>2. r \in Over(S, D) /\ Replied(r, S, D)
  BY DEF Asks
<1>3. PICK n : n = [r EXCEPT !.live = FALSE]
  OBVIOUS
<1>4. n \in Over(S, D)
  BY <1>2, <1>3 DEF Over
<1>5. n.kind = r.kind /\ n.chat = r.chat /\ n.status = r.status /\ n.reply = r.reply
  BY <1>2, <1>3 DEF Over
<1>6. Replied(n, S, D)
  BY <1>2, <1>5 DEF Replied
<1> QED
  BY <1>3, <1>4, <1>6 DEF Asks

\* A request made by the page.
LEMMA AsksMade ==
  ASSUME NEW S, NEW D, NEW r \in Over(S, D), r.status = "sent"
  PROVE  r \in Asks(S, D)
  BY DEF Asks, Replied

LEMMA OverRequest ==
  ASSUME NEW S, NEW D, NEW k \in Kinds, NEW t \in Users \cup {None}
  PROVE  Request(k, t) \in Over(S, D)
<1>1. <<>> \in Seq(S)
  OBVIOUS
<1> QED
  BY <1>1 DEF Request, Over, Statuses

LEMMA AsksRead ==
  ASSUME NEW S, NEW D, NEW t \in Users \cup {None}, NEW s \in S \cup {None}
  PROVE  /\ FetchChats(t, s) \in Asks(S, D)
         /\ \A k \in {"verify", "login", "refresh"} : Request(k, t) \in Asks(S, D)
<1>1. \A k \in Kinds : Request(k, t) \in Over(S, D)
  BY OverRequest
<1>2. ASSUME NEW k \in {"verify", "login", "refresh"} PROVE Request(k, t) \in Asks(S, D)
  <2>1. Request(k, t).kind = k /\ Request(k, t).status = "sent"
    BY DEF Request
  <2> QED
    BY <1>1, <2>1, AsksMade DEF Kinds
<1>3. FetchChats(t, s) \in Over(S, D)
  BY <1>1 DEF FetchChats, Over, Kinds
<1>4. FetchChats(t, s).kind = "list" /\ FetchChats(t, s).status = "sent"
  BY DEF FetchChats, Request
<1> QED
  BY <1>2, <1>3, <1>4, AsksMade

\* A request answered.
LEMMA AsksAnswered ==
  ASSUME NEW S, NEW D, NEW r \in Over(S, D), NEW x \in Statuses \ {"sent"},
         NEW y \in Seq(S) \cup S \cup D \cup {None},
         x = "ok" => /\ r.kind = "list" => y \in Seq(S)
                     /\ r.kind \in {"open", "create"} => y \in S
                     /\ r.kind = "ask" => y \in D \cup {None}
  PROVE  [r EXCEPT !.status = x, !.reply = y] \in Asks(S, D)
<1>1. PICK n : n = [r EXCEPT !.status = x, !.reply = y]
  OBVIOUS
<1>2. n \in Over(S, D)
  BY <1>1 DEF Over
<1>3. n.kind = r.kind /\ n.status = x /\ n.reply = y
  BY <1>1 DEF Over
<1>4. Replied(n, S, D)
  BY <1>3 DEF Replied
<1> QED
  BY <1>1, <1>2, <1>4 DEF Asks

\* Chats grow.
Grows(lg, lg2) ==
  /\ DOMAIN lg \subseteq DOMAIN lg2
  /\ \A c \in DOMAIN lg : \A j \in DOMAIN lg[c] : \E k \in DOMAIN lg2[c] : lg2[c][k] = lg[c][j]

LEMMA CopiesGrow ==
  ASSUME NEW lg, NEW lg2, Grows(lg, lg2)
  PROVE  Copies(lg) \subseteq Copies(lg2)
<1>1. SUFFICES ASSUME NEW x \in Copies(lg) PROVE x \in Copies(lg2)
  OBVIOUS
<1>2. x \in Chat /\ x.id \in DOMAIN lg /\ Told(x.messages, lg[x.id])
  BY DEF Copies
<1>3. ASSUME NEW j \in DOMAIN x.messages, x.messages[j].role = "assistant"
      PROVE  \E k \in DOMAIN lg2[x.id] : lg2[x.id][k] = x.messages[j]
  <2>1. PICK i \in DOMAIN lg[x.id] : lg[x.id][i] = x.messages[j]
    BY <1>2, <1>3 DEF Told
  <2> QED
    BY <1>2, <2>1 DEF Grows
<1> QED
  BY <1>2, <1>3 DEF Copies, Told, Grows

\* An update of the page.
LEMMA RenderTyped ==
  ASSUME busy \in BOOLEAN, NEW lg, PageTyped(Copies(lg), DOMAIN lg),
         NEW u \in Users \cup {None}, NEW p \in Pages,
         NEW sel \in Copies(lg) \cup {None}, NEW fresh, NEW q, Render(u, p, sel, fresh, q)
  PROVE  PageTyped(Copies(lg), DOMAIN lg)'
<1> DEFINE S == Copies(lg)
           D == DOMAIN lg
<1>1. \A x \in S : x.id \in D /\ x.messages \in Seq(Message)
  BY DEF Copies, Chat
<1> HIDE DEF S, D
<1>2. MessagesOf(sel) \in Seq(Message) /\ IdOf(sel) \in D \cup {None}
  BY <1>1 DEF MessagesOf, IdOf, S
<1>3. <<>> \in Seq(Message)
  OBVIOUS
<1>4. shown \in Seq(Message) /\ current \in D \cup {None}
  BY DEF PageTyped, D
<1>5. user' = u /\ page' = p /\ selected' = sel
  BY DEF Render
<1>6. shown' \in Seq(Message) /\ current' \in D \cup {None}
  BY <1>2, <1>3, <1>4 DEF Render
<1> QED
  BY <1>5, <1>6 DEF PageTyped, S, D

-----------------------------------------------------------------------------
\* The server's lists.

LEMMA ConsInjective ==
  ASSUME NEW T, NEW s \in Seq(T), IsInjective(s), NEW c \in T, \A k \in DOMAIN s : s[k] # c
  PROVE  <<c>> \o s \in Seq(T) /\ IsInjective(<<c>> \o s)
<1>1. PICK r : r = <<c>> \o s
  OBVIOUS
<1>2. /\ r \in Seq(T) /\ DOMAIN r = 1..(Len(s) + 1) /\ Len(s) \in Nat /\ DOMAIN s = 1..Len(s)
      /\ r[1] = c /\ \A k \in 1..Len(s) : r[k + 1] = s[k]
  BY <1>1
<1>3. \A k \in 1..(Len(s) + 1) : k # 1 => k - 1 \in 1..Len(s) /\ r[k] = s[k - 1]
  <2>1. SUFFICES ASSUME NEW k \in 1..(Len(s) + 1), k # 1
                 PROVE  k - 1 \in 1..Len(s) /\ r[k] = s[k - 1]
    OBVIOUS
  <2>2. k - 1 \in 1..Len(s) /\ (k - 1) + 1 = k
    BY <1>2, <2>1
  <2> QED
    BY <1>2, <2>2
<1>4. ASSUME NEW a \in 1..(Len(s) + 1), NEW b \in 1..(Len(s) + 1), r[a] = r[b] PROVE a = b
  <2>1. CASE a = 1 \/ b = 1
    <3>1. \A k \in 1..(Len(s) + 1) : k # 1 => r[k] # c
      BY <1>2, <1>3
    <3> QED
      BY <1>2, <1>4, <2>1, <3>1
  <2>2. CASE a # 1 /\ b # 1
    <3>1. a - 1 \in DOMAIN s /\ b - 1 \in DOMAIN s /\ s[a - 1] = s[b - 1]
      BY <1>2, <1>3, <1>4, <2>2
    <3>2. a - 1 = b - 1
      BY <3>1 DEF IsInjective
    <3> QED
      BY <1>2, <3>2
  <2> QED
    BY <2>1, <2>2
<1> QED
  BY <1>1, <1>2, <1>4 DEF IsInjective

\* new_chat
LEMMA ServerAdds ==
  ASSUME NEW ow, NEW lg, NEW rc, ServerTyped(ow, lg, rc),
         NEW u \in Users \cup {None}, NEW e \in Seq(Message)
  PROVE  /\ ServerTyped(Append(ow, u), Append(lg, e), <<Len(ow) + 1>> \o rc)
         /\ DOMAIN lg \subseteq DOMAIN Append(lg, e)
         /\ Len(ow) + 1 \in DOMAIN Append(lg, e)
         /\ Append(lg, e)[Len(ow) + 1] = e
         /\ \A c \in DOMAIN lg : Append(lg, e)[c] = lg[c]
         /\ Grows(lg, Append(lg, e)) /\ Copies(lg) \subseteq Copies(Append(lg, e))
         /\ [id |-> Len(ow) + 1, messages |-> e] \in Copies(Append(lg, e))
<1> DEFINE M == Seq(Message)
           V == Users \cup {None}
<1>1. /\ ow \in Seq(V) /\ lg \in Seq(M) /\ e \in M /\ u \in V /\ Len(lg) = Len(ow)
      /\ rc \in Seq(DOMAIN lg) /\ IsInjective(rc)
  BY DEF ServerTyped
<1> HIDE DEF M, V
<1>3. PICK n, o2, l2 : n = Len(ow) + 1 /\ o2 = Append(ow, u) /\ l2 = Append(lg, e)
  OBVIOUS
<1>4. /\ Len(lg) \in Nat /\ DOMAIN lg = 1..Len(lg) /\ n = Len(lg) + 1 /\ n \in Nat /\ n # 0
  BY <1>1, <1>3
<1>5. /\ o2 \in Seq(V) /\ Len(o2) = n /\ l2 \in Seq(M) /\ Len(l2) = n /\ DOMAIN l2 = 1..n
      /\ l2[n] = e /\ \A c \in 1..Len(lg) : l2[c] = lg[c]
  BY <1>1, <1>3, <1>4
<1>6. 1..Len(lg) \subseteq 1..n /\ n \in 1..n /\ n \notin 1..Len(lg)
  BY <1>4
<1>7. <<n>> \o rc \in Seq(1..n) /\ IsInjective(<<n>> \o rc)
  <2> DEFINE D == 1..Len(lg)
             D2 == 1..n
  <2>1. rc \in Seq(D) /\ D \subseteq D2 /\ n \in D2 /\ n \notin D
    BY <1>1, <1>4, <1>6
  <2> HIDE DEF D, D2
  <2>2. rc \in Seq(D2) /\ \A k \in DOMAIN rc : rc[k] # n
    BY <2>1
  <2>3. <<n>> \o rc \in Seq(D2) /\ IsInjective(<<n>> \o rc)
    BY <1>1, <2>1, <2>2, ConsInjective
  <2> QED
    BY <2>3 DEF D2
<1>8. ServerTyped(o2, l2, <<n>> \o rc)
  BY <1>4, <1>5, <1>7 DEF ServerTyped, M, V
<1>9. Grows(lg, l2) /\ Copies(lg) \subseteq Copies(l2)
  <2>1. DOMAIN lg \subseteq DOMAIN l2 /\ \A c \in DOMAIN lg : l2[c] = lg[c]
    BY <1>4, <1>5, <1>6
  <2>2. Grows(lg, l2)
    BY <2>1 DEF Grows
  <2> QED
    BY <2>2, CopiesGrow
<1>10. [id |-> n, messages |-> e] \in Copies(l2)
  <2>1. [id |-> n, messages |-> e] \in Chat
    BY <1>4 DEF Chat
  <2>2. Told(e, e)
    BY DEF Told
  <2> QED
    BY <1>5, <1>6, <2>1, <2>2 DEF Copies
<1> QED
  BY <1>3, <1>4, <1>5, <1>6, <1>8, <1>9, <1>10

\* delete_single_chat
Others(rc, c) == {j \in DOMAIN rc : rc[j] # c}

LEMMA ServerRemoves ==
  ASSUME NEW ow, NEW lg, NEW rc, ServerTyped(ow, lg, rc), NEW c,
         NEW r, r = At(rc, Others(rc, c))
  PROVE  /\ ServerTyped(ow, lg, r)
         /\ \A k \in DOMAIN r : r[k] # c /\ \E j \in DOMAIN rc : r[k] = rc[j]
         /\ \A j \in DOMAIN rc : rc[j] # c => \E k \in DOMAIN r : r[k] = rc[j]
<1> DEFINE D == DOMAIN lg
           P == Others(rc, c)
<1>1. rc \in Seq(D) /\ IsInjective(rc) /\ P \in SUBSET (DOMAIN rc) /\ r = At(rc, P)
  BY DEF ServerTyped, Others
<1> HIDE DEF D, P
<1>2. /\ r \in Seq(D)
      /\ \A k \in DOMAIN r : \E p \in P : r[k] = rc[p]
      /\ \A p \in P : \E k \in DOMAIN r : r[k] = rc[p]
  <2>1. /\ At(rc, P) \in Seq(D)
        /\ \A k \in DOMAIN At(rc, P) : \E p \in P : At(rc, P)[k] = rc[p]
        /\ \A p \in P : \E k \in DOMAIN At(rc, P) : At(rc, P)[k] = rc[p]
    BY <1>1, AtElements
  <2> QED
    BY <1>1, <2>1
<1>3. IsInjective(r)
  BY <1>1, AtInjective
<1> QED
  BY <1>2, <1>3 DEF ServerTyped, D, P, Others

\* _persist_chat_messages
Longer(lg, c, e) == [lg EXCEPT ![c] = @ \o e]
Moved(rc, c) == <<c>> \o At(rc, Others(rc, c))

LEMMA ServerExtends ==
  ASSUME NEW ow, NEW lg, NEW rc, ServerTyped(ow, lg, rc), NEW c \in DOMAIN lg,
         NEW e \in Seq(Message),
         NEW l2, l2 = Longer(lg, c, e), NEW r2, r2 = Moved(rc, c)
  PROVE  /\ ServerTyped(ow, l2, r2)
         /\ DOMAIN l2 = DOMAIN lg /\ Len(l2) = Len(lg)
         /\ l2[c] = lg[c] \o e /\ \A d \in DOMAIN lg : d # c => l2[d] = lg[d]
         /\ Grows(lg, l2) /\ Copies(lg) \subseteq Copies(l2)
         /\ \A d : (\E j \in DOMAIN rc : rc[j] = d) => \E k \in DOMAIN r2 : r2[k] = d
         /\ \A k \in DOMAIN r2 : r2[k] = c \/ \E j \in DOMAIN rc : rc[j] = r2[k]
<1> USE DEF Longer, Moved
<1> DEFINE M == Seq(Message)
<1>1. /\ lg \in Seq(M) /\ lg[c] \in M /\ lg[c] \o e \in M
      /\ \A j \in DOMAIN lg[c] : j \in DOMAIN (lg[c] \o e) /\ (lg[c] \o e)[j] = lg[c][j]
  <2>1. lg \in Seq(M)
    BY DEF ServerTyped
  <2>2. lg[c] \in Seq(Message)
    <3> HIDE DEF M
    <3>1. lg[c] \in M
      BY <2>1
    <3> QED
      BY <3>1 DEF M
  <2>3. \A m, w \in Seq(Message) : /\ m \o w \in Seq(Message)
                                   /\ \A j \in DOMAIN m : j \in DOMAIN (m \o w) /\ (m \o w)[j] = m[j]
    OBVIOUS
  <2> QED
    BY <2>1, <2>2, <2>3
<1> HIDE DEF M
<1>2. l2 \in Seq(M) /\ Len(l2) = Len(lg) /\ DOMAIN l2 = DOMAIN lg
  BY <1>1
<1>3. l2[c] = lg[c] \o e /\ \A d \in DOMAIN lg : d # c => l2[d] = lg[d]
  OBVIOUS
<1>4. \A d \in DOMAIN lg : \A j \in DOMAIN lg[d] : \E k \in DOMAIN l2[d] : l2[d][k] = lg[d][j]
  BY <1>1, <1>3
<1>5. Grows(lg, l2) /\ Copies(lg) \subseteq Copies(l2)
  <2>1. DOMAIN lg \subseteq DOMAIN l2
    BY <1>2
  <2>2. Grows(lg, l2)
    BY <1>4, <2>1 DEF Grows
  <2> QED
    BY <2>2, CopiesGrow
<1>6. PICK r : r = At(rc, Others(rc, c))
  OBVIOUS
<1>7. /\ ServerTyped(ow, lg, r)
      /\ \A k \in DOMAIN r : r[k] # c /\ \E j \in DOMAIN rc : r[k] = rc[j]
      /\ \A j \in DOMAIN rc : rc[j] # c => \E k \in DOMAIN r : r[k] = rc[j]
  BY <1>6, ServerRemoves
<1> DEFINE D == DOMAIN lg
<1>8. r \in Seq(D) /\ IsInjective(r) /\ c \in D
  BY <1>7 DEF ServerTyped
<1> HIDE DEF D
<1>9. r2 \in Seq(D) /\ IsInjective(r2)
  BY <1>6, <1>7, <1>8, ConsInjective
<1>10. /\ DOMAIN r2 = 1..(Len(r) + 1) /\ Len(r) \in Nat /\ DOMAIN r = 1..Len(r)
       /\ r2[1] = c /\ \A k \in 1..Len(r) : r2[k + 1] = r[k]
  BY <1>6, <1>8
<1>11. \A k \in 1..Len(r) : k + 1 \in DOMAIN r2
  BY <1>10
<1>12. \A k \in DOMAIN r2 : k = 1 \/ (k - 1 \in 1..Len(r) /\ r2[k] = r[k - 1])
  <2>1. SUFFICES ASSUME NEW k \in DOMAIN r2, k # 1 PROVE k - 1 \in 1..Len(r) /\ r2[k] = r[k - 1]
    OBVIOUS
  <2>2. k - 1 \in 1..Len(r) /\ (k - 1) + 1 = k
    BY <1>10, <2>1
  <2> QED
    BY <1>10, <2>2
<1>13. ASSUME NEW j \in DOMAIN rc PROVE \E k \in DOMAIN r2 : r2[k] = rc[j]
  <2>1. CASE rc[j] = c
    <3>1. 1 \in DOMAIN r2
      BY <1>10
    <3> QED
      BY <1>10, <2>1, <3>1
  <2>2. CASE rc[j] # c
    <3>1. PICK k \in 1..Len(r) : r[k] = rc[j]
      BY <1>7, <1>10, <2>2
    <3> QED
      BY <1>10, <1>11, <3>1
  <2> QED
    BY <2>1, <2>2
<1>14. ASSUME NEW k \in DOMAIN r2 PROVE r2[k] = c \/ \E j \in DOMAIN rc : rc[j] = r2[k]
  <2>1. CASE k = 1
    BY <1>10, <2>1
  <2>2. CASE k # 1
    <3>1. k - 1 \in DOMAIN r /\ r2[k] = r[k - 1]
      BY <1>10, <1>12, <2>2
    <3> QED
      BY <1>7, <3>1
  <2> QED
    BY <2>1, <2>2
<1>15. ServerTyped(ow, l2, r2)
  <2>1. Len(lg) = Len(ow) /\ ow \in Seq(Users \cup {None})
    BY DEF ServerTyped
  <2> QED
    BY <1>2, <1>9, <2>1 DEF ServerTyped, M, D
<1> QED
  BY <1>2, <1>3, <1>5, <1>13, <1>14, <1>15

LEMMA TypedRender ==
  ASSUME TypeInv, SpinInv', UNCHANGED server, CountsTyped',
         stored' \in Users \cup {None}, token' \in Users \cup {None}, chats' \in Seq(Copies(logs)),
         NEW u \in Users \cup {None}, NEW p \in Pages,
         NEW sel \in Copies(logs) \cup {None}, NEW fresh,
         NEW q, IsNet(q), Within(q, Known(logs)), Render(u, p, sel, fresh, q)
  PROVE  TypeInv'
<1>1. PICK lg : lg = logs
  OBVIOUS
<1>2. /\ owner' = owner /\ logs' = lg /\ recent' = recent
      /\ busy \in BOOLEAN /\ PageTyped(Copies(lg), DOMAIN lg)
      /\ ServerTyped(owner, lg, recent)
  BY <1>1 DEF TypeInv, SpinInv, server
<1>3. PageTyped(Copies(lg), DOMAIN lg)'
  BY <1>1, <1>2, RenderTyped
<1>4. Within(net', Known(lg))
  <2>1. Deaf(Known(lg))
    BY AsksDeaf DEF Known
  <2> QED
    BY <1>1, <1>2, <2>1, WithinRender
<1> QED
  BY <1>1, <1>2, <1>3, <1>4 DEF TypeInv, AccountTyped

LEMMA TypedAccount ==
  ASSUME TypeInv, SpinInv', UNCHANGED server, CountsTyped',
         NEW s \in Users \cup {None}, NEW t \in Users \cup {None},
         NEW u \in Users \cup {None}, NEW p \in Pages,
         NEW q, IsNet(q), Within(q, Known(logs)), SetAccount(s, t, u, p, q)
  PROVE  TypeInv'
<1>1. stored' = s /\ token' = t
  BY DEF SetAccount
<1>2. selected \in Copies(logs) \cup {None} /\ chats \in Seq(Copies(logs))
  BY DEF TypeInv, PageTyped
<1>3. CASE /\ Render(u, p, selected, FALSE, Append(q, FetchChats(t, selected)))
           /\ UNCHANGED chats
  <2>1. PICK r : r = FetchChats(t, selected)
    OBVIOUS
  <2>2. r \in Known(logs) /\ IsRequest(r) /\ r.kind = "list"
    <3>1. r \in Known(logs)
      BY <1>2, <2>1, AsksRead DEF Known
    <3>2. Made(r, "list", t)
      BY <2>1, Makes
    <3> QED
      BY <3>1, <3>2 DEF Made
  <2>3. IsNet(Append(q, r)) /\ Within(Append(q, r), Known(logs))
    BY <2>2, WithinAppend
  <2>4. Render(u, p, selected, FALSE, Append(q, r)) /\ chats' \in Seq(Copies(logs))
    BY <1>2, <1>3, <2>1
  <2> QED
    BY <1>1, <1>2, <2>3, <2>4, TypedRender
<1>4. CASE Render(u, p, None, selected # None, q) /\ chats' = <<>>
  <2>1. chats' \in Seq(Copies(logs)) /\ None \in Copies(logs) \cup {None}
    BY <1>4
  <2> QED
    BY <1>1, <1>4, <2>1, TypedRender
<1> QED
  BY <1>3, <1>4 DEF SetAccount

\* The page is as it was, but for the requests.
LEMMA TypedStill ==
  ASSUME TypeInv, SpinInv', UNCHANGED <<account, lists, page, shown, current, server>>,
         CountsTyped', Within(net', Known(logs))
  PROVE  TypeInv'
<1>1. PICK lg : lg = logs
  OBVIOUS
<1>2. /\ owner' = owner /\ logs' = lg /\ recent' = recent
      /\ stored' = stored /\ token' = token /\ user' = user /\ chats' = chats
      /\ selected' = selected /\ page' = page /\ shown' = shown /\ current' = current
  BY <1>1 DEF account, lists, server
<1> QED
  BY <1>1, <1>2 DEF TypeInv, AccountTyped, PageTyped

LEMMA TypedStart ==
  ASSUME TypeInv, SpinInv', NEW r, Start(r), IsRequest(r), r \in Known(logs), CountsTyped'
  PROVE  TypeInv'
<1>1. net' = Append(net, r) /\ UNCHANGED <<account, lists, page, shown, current, server>>
  BY DEF Start, box
<1>2. Within(Append(net, r), Known(logs))
  BY WithinAppend DEF TypeInv, SpinInv
<1> QED
  BY <1>1, <1>2, TypedStill

\* What acts count stays within its bounds.
LEMMA CountsKept ==
  ASSUME CountsTyped, asked' \in 0..MaxAsks,
         Crossing \/ (\E K : Beside(K)) \/ UNCHANGED <<mishaps, crossed>>
  PROVE  CountsTyped'
<1>1. MaxMishaps \in Nat
  BY SessionAssumption DEF SessionAssumption
<1>2. ASSUME NEW K, Hurry(K) PROVE mishaps' \in 0..MaxMishaps
  BY <1>1, <1>2 DEF Hurry, Mishap, CountsTyped
<1>3. mishaps' \in 0..MaxMishaps
  BY <1>2 DEF Crossing, Beside, CountsTyped
<1>4. crossed' \subseteq AccountKinds
  BY DEF Crossing, Beside, CountsTyped
<1> QED BY <1>3, <1>4 DEF CountsTyped

LEMMA TypedActs ==
  ASSUME TypeInv, SpinInv', Acts
  PROVE  TypeInv'
<1>1. /\ IsNet(net) /\ Within(net, Known(logs)) /\ busy \in BOOLEAN
      /\ ServerTyped(owner, logs, recent) /\ AccountTyped
      /\ user \in Users \cup {None} /\ page \in Pages
      /\ selected \in Copies(logs) \cup {None} /\ chats \in Seq(Copies(logs))
      /\ current \in DOMAIN logs \cup {None} /\ shown \in Seq(Message)
      /\ CountsTyped /\ asked \in 0..MaxAsks
  BY DEF TypeInv, SpinInv, PageTyped, CountsTyped
<1> DEFINE S == Copies(logs)
           D == DOMAIN logs
<1>2. token \in Users \cup {None} /\ stored \in Users \cup {None}
  BY <1>1 DEF AccountTyped
<1>3. \A c \in S : c.id \in D
  BY DEF Copies
<1>4. Known(logs) = Asks(S, D)
  BY DEF Known
<1> HIDE DEF S, D
<1>5. ASSUME NEW u \in Users, Login(u) PROVE TypeInv'
  <2>1. PICK r : r = Request("login", u)
    OBVIOUS
  <2>2. Start(r) /\ IsRequest(r) /\ Crossing
    BY <1>5, <2>1, MakesPlain DEF Login, Made
  <2>3. r \in Known(logs)
    <3>1. None \in S \cup {None} /\ u \in Users \cup {None}
      OBVIOUS
    <3> QED
      BY <1>4, <2>1, <3>1, AsksRead
  <2>4. CountsTyped'
    BY <1>1, <2>2, CountsKept DEF Start
  <2> QED
    BY <2>2, <2>3, <2>4, TypedStart
<1>6. CASE Logout
  <2>1. chats' \in Seq(Copies(logs)) /\ None \in Users \cup {None} /\ None \in Copies(logs) \cup {None}
    BY <1>6 DEF Logout
  <2>2. /\ stored' \in Users \cup {None} /\ token' \in Users \cup {None}
        /\ UNCHANGED <<server, asked>> /\ Crossing
    BY <1>6 DEF Logout
  <2>3. Render(None, "login", None, TRUE, net) /\ "login" \in Pages
    BY <1>6 DEF Logout, Pages
  <2>4. CountsTyped'
    BY <1>1, <2>2, CountsKept
  <2> QED
    BY <1>1, <2>1, <2>2, <2>3, <2>4, TypedRender
<1>7. CASE Reload
  <2>1. PICK lg : lg = logs
    OBVIOUS
  <2>2. /\ token' = stored /\ user' = None /\ chats' = <<>> /\ selected' = None /\ page' = page
        /\ shown' = <<>> /\ current' = None /\ net' = VerifyAuth(stored) /\ stored' = stored
        /\ owner' = owner /\ logs' = lg /\ recent' = recent /\ CountsTyped'
    BY <1>1, <1>7, <2>1 DEF Reload, server, CountsTyped
  <2>3. Within(net', Known(lg))
    <3>1. PICK r : r = Request("verify", stored)
      OBVIOUS
    <3>2. r \in Known(logs) /\ r.kind = "verify" /\ IsRequest(r)
      <4>1. None \in S \cup {None}
        OBVIOUS
      <4>2. r \in Known(logs)
        BY <1>2, <1>4, <3>1, <4>1, AsksRead
      <4> QED
        BY <3>1, <4>2, MakesPlain DEF Made
    <3>3. Within(<<>>, Known(logs))
      BY DEF Within
    <3>4. Within(Append(<<>>, r), Known(logs))
      BY <3>2, <3>3, NetEmpty, WithinAppend
    <3>5. net' = <<>> \/ net' = Append(<<>>, r)
      BY <2>2, <3>1 DEF VerifyAuth
    <3> QED
      BY <2>1, <3>3, <3>4, <3>5
  <2>4. chats' \in Seq(Copies(lg)) /\ shown' \in Seq(Message)
    BY <2>2
  <2> QED
    BY <1>1, <1>2, <2>1, <2>2, <2>3, <2>4 DEF TypeInv, AccountTyped, PageTyped
<1>8. ASSUME NEW p \in {"chat", "other"}, Visit(p) PROVE TypeInv'
  <2>1. /\ Render(user, p, selected, FALSE, net)
        /\ UNCHANGED <<stored, token, chats, server, asked, mishaps, crossed>>
    BY <1>8 DEF Visit, counts
  <2>2. CountsTyped' /\ p \in Pages
    BY <1>1, <2>1, CountsKept DEF Pages
  <2> QED
    BY <1>1, <1>2, <2>1, <2>2, TypedRender
<1>9. CASE NewChat
  <2>1. PICK r : r = Request("create", token)
    OBVIOUS
  <2>2. Start(r) /\ IsRequest(r) /\ r.status = "sent" /\ Beside({})
    BY <1>9, <2>1, MakesPlain DEF NewChat, Made
  <2>3. r \in Known(logs)
    <3>1. r \in Over(S, D)
      BY <1>2, <2>1, OverRequest DEF Kinds
    <3> QED
      BY <1>4, <2>2, <3>1, AsksMade
  <2>4. CountsTyped'
    BY <1>1, <2>2, CountsKept DEF Start
  <2> QED
    BY <2>2, <2>3, <2>4, TypedStart
<1>10. ASSUME NEW c \in DOMAIN owner, OpenChat(c) PROVE TypeInv'
  <2>1. PICK r : r = [Request("open", token) EXCEPT !.chat = c]
    OBVIOUS
  <2>2. Made(r, "open", token)
    BY <2>1, Makes
  <2>3. /\ Render(user, "chat", selected, FALSE, Append(net, r)) /\ Beside(Reads)
        /\ UNCHANGED <<stored, token, chats, server, asked>>
        /\ \E i \in DOMAIN chats : chats[i].id = c
    BY <1>10, <2>1 DEF OpenChat
  <2>4. c \in D
    <3>1. chats \in Seq(S)
      BY <1>1 DEF S
    <3> QED
      BY <1>3, <2>3, <3>1
  <2>5. r \in Known(logs)
    <3>1. Request("open", token) \in Over(S, D)
      BY <1>2, OverRequest DEF Kinds
    <3>2. r \in Over(S, D)
      BY <2>1, <2>4, <3>1 DEF Over
    <3> QED
      BY <1>4, <2>2, <3>2, AsksMade DEF Made
  <2>6. IsNet(Append(net, r)) /\ Within(Append(net, r), Known(logs))
    <3>1. IsRequest(r)
      BY <2>2 DEF Made
    <3> QED
      BY <1>1, <2>5, <3>1, WithinAppend
  <2>7. CountsTyped' /\ "chat" \in Pages
    BY <1>1, <2>3, CountsKept DEF Pages
  <2> QED
    BY <1>1, <1>2, <2>3, <2>6, <2>7, TypedRender
<1>11. ASSUME NEW c \in DOMAIN owner, DeleteChat(c) PROVE TypeInv'
  <2>1. PICK r : r = [Request("delete", token) EXCEPT !.chat = c, !.sel = selected, !.list = chats]
    OBVIOUS
  <2>2. Made(r, "delete", token)
    BY <2>1, Makes
  <2>3. Start(r) /\ Beside({}) /\ \E i \in DOMAIN chats : chats[i].id = c
    BY <1>11, <2>1 DEF DeleteChat
  <2>4. c \in D
    <3>1. chats \in Seq(S)
      BY <1>1 DEF S
    <3> QED
      BY <1>3, <2>3, <3>1
  <2>5. r \in Known(logs)
    <3>1. Request("delete", token) \in Over(S, D)
      BY <1>2, OverRequest DEF Kinds
    <3>2. selected \in S \cup {None} /\ chats \in Seq(S)
      BY <1>1 DEF S
    <3>3. r \in Over(S, D)
      BY <2>1, <2>4, <3>1, <3>2 DEF Over
    <3> QED
      BY <1>4, <2>2, <3>3, AsksMade DEF Made
  <2>6. CountsTyped'
    BY <1>1, <2>3, CountsKept DEF Start
  <2> QED
    BY <2>2, <2>3, <2>5, <2>6, TypedStart DEF Made
<1>12. CASE Submit
  <2>1. PICK r : r = [Request("ask", token) EXCEPT
                !.chat = current, !.ask = asked + 1, !.live = TRUE, !.sel = selected]
    OBVIOUS
  <2>2. PICK lg : lg = logs
    OBVIOUS
  <2>3. /\ asked < MaxAsks
        /\ asked' = asked + 1 /\ shown' = Append(shown, Said("user", asked + 1))
        /\ net' = Append(net, r)
        /\ stored' = stored /\ token' = token /\ user' = user /\ chats' = chats
        /\ selected' = selected /\ page' = page /\ current' = current
        /\ owner' = owner /\ logs' = lg /\ recent' = recent /\ Beside({})
    BY <1>12, <2>1, <2>2 DEF Submit, account, lists, server
  <2>4. asked \in 0..MaxAsks /\ MaxAsks \in Nat
    BY <1>1, SessionAssumption DEF SessionAssumption
  <2>5. asked + 1 \in Nat /\ asked' \in 0..MaxAsks /\ shown' \in Seq(Message)
    <3>1. Said("user", asked + 1) \in Message
      BY <2>4 DEF Said, Message
    <3>2. shown' \in Seq(Message)
      BY <1>1, <2>3, <3>1
    <3> QED
      BY <2>3, <2>4, <3>2
  <2>5a. CountsTyped'
    BY <1>1, <2>3, <2>5, CountsKept
  <2>6. r \in Over(S, D)
    <3>1. Request("ask", token) \in Over(S, D)
      BY <1>2, OverRequest DEF Kinds
    <3>2. selected \in S \cup {None} /\ current \in D \cup {None}
      BY <1>1 DEF S, D
    <3> QED
      BY <2>1, <2>5, <3>1, <3>2 DEF Over
  <2>7. r.status = "sent" /\ IsRequest(r)
    BY <2>1 DEF Request, IsRequest, Fields
  <2>8. r \in Known(logs)
    BY <1>4, <2>6, <2>7, AsksMade
  <2>9. Within(net', Known(lg))
    BY <1>1, <2>2, <2>3, <2>7, <2>8, WithinAppend
  <2> QED
    BY <1>1, <1>2, <2>2, <2>3, <2>5, <2>5a, <2>9 DEF TypeInv, AccountTyped, PageTyped
<1> QED
  BY <1>5, <1>6, <1>7, <1>8, <1>9, <1>10, <1>11, <1>12 DEF Acts

\* A request is served, or lost: the chats may grow, and what is known with them.
LEMMA TypedAnswer ==
  ASSUME TypeInv, SpinInv', NEW i \in DOMAIN net, NEW x \in Statuses \ {"sent"}, NEW y,
         net' = Answered(net, i, x, y),
         UNCHANGED <<account, lists, page, shown, current>>, CountsTyped',
         ServerTyped(owner', logs', recent'),
         DOMAIN logs \subseteq DOMAIN logs', Copies(logs) \subseteq Copies(logs'),
         y \in Seq(Copies(logs')) \cup Copies(logs') \cup DOMAIN logs' \cup {None},
         x = "ok" => /\ net[i].kind = "list" => y \in Seq(Copies(logs'))
                     /\ net[i].kind \in {"open", "create"} => y \in Copies(logs')
                     /\ net[i].kind = "ask" => y \in DOMAIN logs' \cup {None}
  PROVE  TypeInv'
<1>1. PICK lg, lg2 : lg = logs /\ lg2 = logs'
  OBVIOUS
<1> DEFINE S == Copies(lg)
           S2 == Copies(lg2)
           D == DOMAIN lg
           D2 == DOMAIN lg2
<1>2. /\ \A j \in DOMAIN net : net[j] \in Asks(S, D)
      /\ IsNet(net)
      /\ selected \in S \cup {None} /\ chats \in Seq(S) /\ current \in D \cup {None}
      /\ S \subseteq S2 /\ D \subseteq D2
      /\ y \in Seq(S2) \cup S2 \cup D2 \cup {None}
      /\ x = "ok" => /\ net[i].kind = "list" => y \in Seq(S2)
                     /\ net[i].kind \in {"open", "create"} => y \in S2
                     /\ net[i].kind = "ask" => y \in D2 \cup {None}
  BY <1>1 DEF TypeInv, SpinInv, Within, Known, PageTyped
<1>4. Known(lg2) = Asks(S2, D2)
  BY DEF Known
<1> HIDE DEF S, S2, D, D2
<1>5. ASSUME NEW j \in DOMAIN net PROVE net[j] \in Asks(S2, D2)
  BY <1>2, AsksMono
<1>6. [net[i] EXCEPT !.status = x, !.reply = y] \in Asks(S2, D2)
  <2>1. net[i] \in Over(S2, D2)
    BY <1>5 DEF Asks
  <2> QED
    BY <1>2, <2>1, AsksAnswered
<1>7. Within(net', Known(lg2))
  BY <1>4, <1>5, <1>6, WithinAnswered
<1>9. chats \in Seq(S2)
  BY <1>2
<1>10. PageTyped(S2, D2)'
  <2>1. /\ user' = user /\ page' = page /\ selected' = selected /\ shown' = shown
        /\ current' = current
    BY DEF account, lists
  <2>2. /\ user \in Users \cup {None} /\ page \in Pages /\ shown \in Seq(Message)
    BY DEF TypeInv, PageTyped
  <2> QED
    BY <1>2, <2>1, <2>2 DEF PageTyped, S2, D2
<1> QED
  BY <1>1, <1>7, <1>9, <1>10 DEF TypeInv, AccountTyped, account, lists, S2, D2

\* What the server returns of a chat and of a user's chats.
LEMMA CopyTyped ==
  ASSUME NEW ow, NEW lg, NEW rc, ServerTyped(ow, lg, rc), NEW c \in DOMAIN lg
  PROVE  [id |-> c, messages |-> lg[c]] \in Copies(lg)
<1> DEFINE M == Seq(Message)
<1>1. lg \in Seq(M)
  BY DEF ServerTyped
<1> HIDE DEF M
<1>2. lg[c] \in M /\ c \in Nat \ {0}
  BY <1>1
<1>3. [id |-> c, messages |-> lg[c]] \in Chat
  BY <1>2 DEF Chat, M
<1> QED
  BY <1>3 DEF Copies, Told

LEMMA ListTyped ==
  ASSUME NEW ow, NEW lg, NEW rc, ServerTyped(ow, lg, rc), NEW u
  PROVE  ListOf(rc, ow, lg, u) \in Seq(Copies(lg))
<1> DEFINE D == DOMAIN lg
           S == Copies(lg)
<1>1. rc \in Seq(D)
  BY DEF ServerTyped
<1>2. PICK l : l = ListOf(rc, ow, lg, u)
  OBVIOUS
<1>3. \A c \in D : Item(lg, c) \in S
  BY CopyTyped DEF Item
<1> HIDE DEF D, S
<1>4. /\ \E n \in Nat : DOMAIN l = 1..n
      /\ \A k \in DOMAIN l : \E i \in DOMAIN rc : ow[rc[i]] = u /\ l[k] = Item(lg, rc[i])
  BY <1>1, <1>2, ListHas
<1>5. \A k \in DOMAIN l : l[k] \in S
  BY <1>1, <1>3, <1>4
<1>6. l = [k \in DOMAIN l |-> l[k]]
  BY <1>2 DEF ListOf, Items
<1>7. l \in Seq(S)
  <2>1. PICK n \in Nat : DOMAIN l = 1..n
    BY <1>4
  <2>2. l \in [1..n -> S]
    BY <1>5, <1>6, <2>1
  <2> QED
    BY <2>1, <2>2
<1> QED
  BY <1>2, <1>7 DEF D, S

LEMMA AppendLen ==
  ASSUME NEW ow, NEW lg, NEW rc, ServerTyped(ow, lg, rc), NEW u \in Users \cup {None}
  PROVE  Len(Append(ow, u)) = Len(ow) + 1
<1> DEFINE V == Users \cup {None}
<1>1. ow \in Seq(V) /\ u \in V
  BY DEF ServerTyped
<1> HIDE DEF V
<1> QED
  BY <1>1

LEMMA ExchangeTyped == ASSUME NEW n \in Nat PROVE Exchange(n) \in Seq(Message)
<1>1. Said("user", n) \in Message /\ Said("assistant", n) \in Message
  BY DEF Said, Message
<1> HIDE DEF Message
<1> QED
  BY <1>1 DEF Exchange

LEMMA TypedServe ==
  ASSUME TypeInv, SpinInv', NEW i \in DOMAIN net, Serve(i)
  PROVE  TypeInv'
<1>1. PICK ow, lg, rc, r : ow = owner /\ lg = logs /\ rc = recent /\ r = net[i]
  OBVIOUS
<1> DEFINE S == Copies(lg)
           D == DOMAIN lg
<1>2. ServerTyped(ow, lg, rc) /\ CountsTyped
  BY <1>1 DEF TypeInv
<1>3. r \in Over(S, D)
  <2>1. r \in Asks(S, D)
    BY <1>1 DEF TypeInv, Within, Known
  <2> QED
    BY <2>1 DEF Asks
<1>4. r.tok \in Users \cup {None} /\ r.chat \in D \cup {None} /\ r.ask \in Nat
  BY <1>3 DEF Over
<1>5. ASSUME NEW x \in {"ok", "failed"}, NEW y, Answer(i, x, y),
             ServerTyped(owner', logs', recent'), D \subseteq DOMAIN logs', S \subseteq Copies(logs'),
             y \in Seq(Copies(logs')) \cup Copies(logs') \cup DOMAIN logs' \cup {None},
             x = "ok" => /\ r.kind = "list" => y \in Seq(Copies(logs'))
                         /\ r.kind \in {"open", "create"} => y \in Copies(logs')
                         /\ r.kind = "ask" => y \in DOMAIN logs' \cup {None}
      PROVE  TypeInv'
  <2>1. /\ net' = Answered(net, i, x, y)
        /\ UNCHANGED <<account, lists, page, shown, current>> /\ CountsTyped'
    BY <1>2, <1>5 DEF Answer, Answered, box, counts, CountsTyped
  <2>2. x \in Statuses \ {"sent"}
    BY <1>5 DEF Statuses
  <2> QED
    BY <1>1, <1>2, <1>5, <2>1, <2>2, TypedAnswer
<1>6. ASSUME UNCHANGED server, NEW x \in {"ok", "failed"},
             NEW y \in Seq(S) \cup S \cup D \cup {None}, Answer(i, x, y),
             x = "ok" => /\ r.kind = "list" => y \in Seq(S)
                         /\ r.kind \in {"open", "create"} => y \in S
                         /\ r.kind = "ask" => y \in D \cup {None}
      PROVE  TypeInv'
  <2>1. owner' = ow /\ logs' = lg /\ recent' = rc
    BY <1>1, <1>6 DEF server
  <2> QED
    BY <1>2, <1>5, <1>6, <2>1
<1>7. CASE ServeRead(i)
  <2>1. UNCHANGED server
    BY <1>7 DEF ServeRead
  <2>2. CASE r.kind \in {"verify", "refresh", "login"} /\ Answer(i, "ok", None)
    BY <1>6, <2>1, <2>2
  <2>3. CASE r.kind = "list" /\ Answer(i, "ok", Listing(r.tok))
    <3>1. Listing(r.tok) = ListOf(rc, ow, lg, r.tok)
      BY <1>1, ListingIs
    <3>2. Listing(r.tok) \in Seq(S)
      BY <1>2, <3>1, ListTyped
    <3> QED
      BY <1>6, <2>1, <2>3, <3>2
  <2>4. CASE r.kind = "open" /\ Exists(r.chat) /\ Answer(i, "ok", Copy(r.chat))
    <3>1. r.chat \in D
      <4> HIDE DEF D
      <4>1. rc \in Seq(D)
        BY <1>2 DEF ServerTyped, D
      <4>2. \E j \in 1..Len(rc) : rc[j] = r.chat
        BY <1>1, <2>4 DEF Exists, Contains
      <4> QED
        BY <4>1, <4>2
    <3>2. Copy(r.chat) = [id |-> r.chat, messages |-> lg[r.chat]]
      BY <1>1 DEF Copy
    <3>3. Copy(r.chat) \in S
      BY <1>2, <3>1, <3>2, CopyTyped
    <3> QED
      BY <1>6, <2>1, <2>4, <3>3
  <2>5. CASE r.kind = "open" /\ Answer(i, "failed", None)
    BY <1>6, <2>1, <2>5
  <2> QED
    BY <1>1, <1>7, <2>2, <2>3, <2>4, <2>5 DEF ServeRead, Sent
<1>8. CASE ServeCreate(i)
  <2>1. /\ r.kind = "create" /\ r.status = "sent"
        /\ owner' = Append(ow, r.tok) /\ logs' = Append(lg, <<>>)
        /\ recent' = <<Len(owner')>> \o rc
        /\ Answer(i, "ok", [id |-> Len(owner'), messages |-> <<>>])
    BY <1>1, <1>8 DEF ServeCreate, Sent
  <2>3. Len(owner') = Len(ow) + 1
    BY <1>2, <1>4, <2>1, AppendLen
  <2>4. PICK y : y = [id |-> Len(ow) + 1, messages |-> <<>>]
    OBVIOUS
  <2>5. /\ ServerTyped(owner', logs', recent') /\ D \subseteq DOMAIN logs' /\ S \subseteq Copies(logs')
        /\ y \in Copies(logs')
    <3>1. <<>> \in Seq(Message)
      OBVIOUS
    <3> QED
      BY <1>2, <1>4, <2>1, <2>3, <2>4, <3>1, ServerAdds
  <2>6. Answer(i, "ok", y)
    BY <2>1, <2>3, <2>4
  <2> QED
    BY <1>5, <2>1, <2>5, <2>6
<1>9. CASE ServeDelete(i)
  <2>1. CASE UNCHANGED recent
    <3>1. /\ r.kind = "delete" /\ UNCHANGED server
          /\ \E x \in {"ok", "failed"} : Answer(i, x, None)
      BY <1>1, <1>9, <2>1 DEF ServeDelete, Sent, server
    <3> QED
      BY <1>6, <3>1
  <2>2. CASE recent' = At(rc, Others(rc, r.chat)) /\ Answer(i, "ok", None)
    <3>1. r.kind = "delete" /\ owner' = ow /\ logs' = lg
      BY <1>1, <1>9, <2>2 DEF ServeDelete, Sent
    <3>2. ServerTyped(ow, lg, recent')
      BY <1>2, <2>2, ServerRemoves
    <3> QED
      BY <1>5, <2>2, <3>1, <3>2
  <2> QED
    BY <1>1, <1>9, <2>1, <2>2 DEF ServeDelete, Others
<1>10. CASE ServeAsk(i)
  <2>1. r.kind = "ask" /\ r.status = "sent"
    BY <1>1, <1>10 DEF ServeAsk, Sent
  <2>2. Exchange(r.ask) \in Seq(Message)
    BY <1>4, ExchangeTyped
  <2>3. CASE /\ r.chat = None /\ owner' = Append(ow, r.tok) /\ logs' = Append(lg, Exchange(r.ask))
             /\ recent' = <<Len(owner')>> \o rc /\ Answer(i, "ok", Len(owner'))
    <3>2. Len(owner') = Len(ow) + 1
      BY <1>2, <1>4, <2>3, AppendLen
    <3>3. /\ ServerTyped(owner', logs', recent') /\ D \subseteq DOMAIN logs' /\ S \subseteq Copies(logs')
          /\ Len(ow) + 1 \in DOMAIN logs'
      BY <1>2, <1>4, <2>2, <2>3, <3>2, ServerAdds
    <3>4. Answer(i, "ok", Len(ow) + 1)
      BY <2>3, <3>2
    <3> QED
      BY <1>5, <2>1, <3>3, <3>4
  <2>4. CASE /\ r.chat # None /\ owner' = ow /\ logs' = [lg EXCEPT ![r.chat] = @ \o Exchange(r.ask)]
             /\ recent' = <<r.chat>> \o At(rc, Others(rc, r.chat)) /\ Answer(i, "ok", r.chat)
    <3>1. r.chat \in D
      BY <1>4, <2>4
    <3>2. /\ ServerTyped(ow, logs', recent') /\ DOMAIN logs' = DOMAIN lg /\ Len(logs') = Len(lg)
          /\ S \subseteq Copies(logs')
      <4>1. PICK c \in DOMAIN lg, e \in Seq(Message) : c = r.chat /\ e = Exchange(r.ask)
        BY <2>2, <3>1
      <4>2. PICK l2, r2 : l2 = Longer(lg, c, e) /\ r2 = Moved(rc, c)
        OBVIOUS
      <4>3. ServerTyped(ow, l2, r2) /\ DOMAIN l2 = DOMAIN lg /\ Len(l2) = Len(lg) /\ Copies(lg) \subseteq Copies(l2)
        BY <1>2, <4>2, ServerExtends
      <4> QED
        BY <2>4, <4>1, <4>2, <4>3 DEF Longer, Moved
    <3> QED
      BY <1>5, <2>1, <2>4, <3>1, <3>2
  <2>5. CASE Answer(i, "ok", r.chat) /\ UNCHANGED server
    BY <1>4, <1>6, <2>1, <2>5
  <2> QED
    BY <1>1, <1>10, <2>3, <2>4, <2>5 DEF ServeAsk, Others
<1> QED
  BY <1>7, <1>8, <1>9, <1>10 DEF Serve

LEMMA TypedArrive ==
  ASSUME TypeInv, SpinInv', NEW i \in DOMAIN net, Arrive(i)
  PROVE  TypeInv'
<1>1. PICK lg, r : lg = logs /\ r = net[i]
  OBVIOUS
<1> DEFINE S == Copies(lg)
           D == DOMAIN lg
<1>2. /\ IsNet(net) /\ Within(net, Known(logs)) /\ busy \in BOOLEAN
      /\ AccountTyped /\ CountsTyped
      /\ user \in Users \cup {None} /\ page \in Pages
      /\ selected \in S \cup {None} /\ chats \in Seq(S)
      /\ current \in D \cup {None} /\ shown \in Seq(Message)
  BY <1>1 DEF TypeInv, SpinInv, PageTyped
<1>3. token \in Users \cup {None} /\ stored \in Users \cup {None}
  BY <1>2 DEF AccountTyped
<1>4. r \in Asks(S, D)
  BY <1>1, <1>2 DEF Within, Known
<1>5. /\ r.tok \in Users \cup {None} /\ r.chat \in D \cup {None} /\ r.sel \in S \cup {None}
      /\ r.list \in Seq(S) /\ r.ask \in Nat /\ r.status \in Statuses /\ IsRequest(r)
      /\ Replied(r, S, D)
  BY <1>1, <1>2, <1>4 DEF Asks, Over, IsNet
<1>6. IsNet(Rest(i)) /\ Within(Rest(i), Known(logs))
  BY <1>2, WithinRest DEF Rest
<1>6a. ASSUME UNCHANGED counts PROVE CountsTyped'
  BY <1>2, <1>6a DEF counts, CountsTyped
<1>7. ASSUME NEW s \in Users \cup {None}, NEW t \in Users \cup {None}, NEW u \in Users \cup {None},
             NEW p \in Pages, SetAccount(s, t, u, p, Rest(i)), UNCHANGED <<server, counts>>
      PROVE  TypeInv'
  BY <1>6, <1>6a, <1>7, TypedAccount
<1>8. ASSUME NEW p \in Pages, NEW sel \in S \cup {None}, NEW fresh,
             Render(user, p, sel, fresh, Rest(i)), chats' \in Seq(S),
             UNCHANGED <<stored, token, server, counts>>
      PROVE  TypeInv'
  BY <1>1, <1>2, <1>3, <1>6, <1>6a, <1>8, TypedRender
<1>9. \A c : Without(chats, c) \in Seq(S) /\ Without(r.list, c) \in Seq(S)
  <2> HIDE DEF S
  <2>1. \A l \in Seq(S) : \A c : Without(l, c) \in Seq(S)
    <3>1. SUFFICES ASSUME NEW l \in Seq(S), NEW c PROVE Without(l, c) \in Seq(S)
      OBVIOUS
    <3> DEFINE P == {j \in DOMAIN l : l[j].id # c}
    <3>2. P \in SUBSET (DOMAIN l) /\ Without(l, c) = At(l, P)
      BY DEF Without
    <3> HIDE DEF P
    <3> QED
      BY <3>2, AtElements
  <2> QED
    BY <1>2, <1>5, <2>1
<1>10. ASSUME NEW l \in Seq(S), l # <<>> PROVE Head(l) \in S
  <2> HIDE DEF S
  <2> QED
    BY <1>10
<1>11. CASE ArriveVerified(i)
  <2>1. CASE UNCHANGED <<server, counts>> /\ \E s, t, u \in Users \cup {None} : SetAccount(s, t, u, page, Rest(i))
    BY <1>2, <1>7, <2>1
  <2>2. CASE /\ stored' = None /\ net' = Rest(i)
             /\ UNCHANGED <<token, user, lists, page, box, server, counts>>
    <3>1. CountsTyped'
      BY <1>6a, <2>2
    <3>2. PICK m : m = logs
      OBVIOUS
    <3>3. /\ owner' = owner /\ logs' = m /\ recent' = recent
          /\ token' = token /\ user' = user /\ chats' = chats
          /\ selected' = selected /\ page' = page /\ shown' = shown /\ current' = current
      BY <2>2, <3>2 DEF lists, server, box
    <3>4. Within(net', Known(m))
      BY <1>6, <2>2, <3>2
    <3> QED
      BY <1>2, <1>3, <2>2, <3>1, <3>2, <3>3, <3>4 DEF TypeInv, AccountTyped, PageTyped
  <2>3. (IF net[i].status = "failed" THEN None ELSE user) \in Users \cup {None}
    BY <1>2
  <2> QED
    BY <1>1, <1>2, <1>3, <1>5, <1>11, <2>1, <2>2, <2>3 DEF ArriveVerified
<1>12. CASE ArriveUser(i)
  BY <1>1, <1>2, <1>3, <1>5, <1>7, <1>12 DEF ArriveUser
<1>13. CASE ArriveLogin(i)
  <2>1. "chat" \in Pages
    BY DEF Pages
  <2> QED
    BY <1>1, <1>5, <1>7, <1>13, <2>1 DEF ArriveLogin
<1>14. CASE ArriveNothing(i)
  <2>1. net' = Rest(i) /\ UNCHANGED <<account, lists, page, shown, current, server, counts>>
    BY <1>14 DEF ArriveNothing, box
  <2> QED
    BY <1>6, <1>6a, <2>1, TypedStill
<1>15. CASE ArriveChats(i)
  <2>1. r.reply \in Seq(S)
    BY <1>1, <1>5, <1>15 DEF ArriveChats, Ok, Replied
  <2>2. chats' = r.reply /\ UNCHANGED <<stored, token, server, counts>>
    BY <1>1, <1>15 DEF ArriveChats
  <2>3. CASE chats' # <<>> /\ Render(user, page, Head(chats'), TRUE, Rest(i))
    <3>1. Head(r.reply) \in S \cup {None} /\ Render(user, page, Head(r.reply), TRUE, Rest(i))
      BY <1>10, <2>1, <2>2, <2>3
    <3> QED
      BY <1>2, <1>8, <2>1, <2>2, <3>1
  <2>4. CASE Render(user, page, selected, FALSE, Rest(i))
    BY <1>2, <1>8, <2>1, <2>2, <2>4
  <2> QED
    BY <1>15, <2>3, <2>4 DEF ArriveChats
<1>16. CASE ArriveNewChat(i)
  <2>1. r.reply \in S
    BY <1>1, <1>5, <1>16 DEF ArriveNewChat, Ok, Replied
  <2>2. /\ chats' = <<r.reply>> \o chats /\ UNCHANGED <<stored, token, server, counts>>
        /\ Render(user, "chat", r.reply, TRUE, Rest(i))
    BY <1>1, <1>16 DEF ArriveNewChat
  <2>3. chats' \in Seq(S)
    <3> HIDE DEF S
    <3>1. <<r.reply>> \o chats \in Seq(S)
      BY <1>2, <2>1
    <3> QED
      BY <2>2, <3>1
  <2>4. "chat" \in Pages
    BY DEF Pages
  <2> QED
    BY <1>8, <2>1, <2>2, <2>3, <2>4
<1>17. CASE ArriveDeleted(i)
  <2>1. PICK others : others = Without(r.list, r.chat)
    OBVIOUS
  <2>2. /\ chats' = Without(chats, r.chat) /\ UNCHANGED <<stored, token, server, counts>>
        /\ \/ Render(user, page, IF others = <<>> THEN None ELSE Head(others), TRUE, Rest(i))
           \/ Render(user, page, selected, FALSE, Rest(i))
    BY <1>1, <1>17, <2>1 DEF ArriveDeleted
  <2>3. others \in Seq(S) /\ chats' \in Seq(S)
    BY <1>9, <2>1, <2>2
  <2>4. (IF others = <<>> THEN None ELSE Head(others)) \in S \cup {None}
    BY <1>10, <2>3
  <2> QED
    BY <1>2, <1>8, <2>2, <2>3, <2>4
<1>18. CASE ArriveOpened(i)
  <2>1. r.reply \in S
    BY <1>1, <1>5, <1>18 DEF ArriveOpened, Ok, Replied
  <2>2. /\ chats' = [j \in DOMAIN chats |-> IF chats[j].id = r.chat THEN r.reply ELSE chats[j]]
        /\ UNCHANGED <<stored, token, server, counts>>
        /\ Render(user, page, r.reply, TRUE, Rest(i))
    BY <1>1, <1>18 DEF ArriveOpened
  <2>3. chats' \in Seq(S)
    <3> HIDE DEF S
    <3>1. Len(chats) \in Nat /\ DOMAIN chats = 1..Len(chats) /\ \A j \in DOMAIN chats : chats[j] \in S
      BY <1>2
    <3>2. PICK n \in Nat : n = Len(chats)
      BY <3>1
    <3>3. [j \in DOMAIN chats |-> IF chats[j].id = r.chat THEN r.reply ELSE chats[j]] \in [1..n -> S]
      BY <2>1, <3>1, <3>2
    <3> QED
      BY <2>2, <3>2, <3>3
  <2> QED
    BY <1>2, <1>8, <2>1, <2>2, <2>3
<1>19. CASE ArriveAnswer(i)
  <2>1. PICK f : /\ f \in {<<>>, FollowUps(r)} /\ net' = Rest(i) \o f
                 /\ r.kind = "ask"
                 /\ \/ shown' = Append(shown, Said(Bubble(r), r.ask)) /\ current' = NextChat(r)
                    \/ UNCHANGED box
                 /\ UNCHANGED <<account, lists, page, server, counts>>
    BY <1>1, <1>19 DEF ArriveAnswer
  <2>2. NextChat(r) \in D \cup {None}
    BY <1>2, <1>5, <2>1 DEF NextChat, Replied
  <2>3. IsNet(net') /\ Within(net', Known(logs))
    <3>1. FetchChats(r.tok, r.sel) \in Known(logs) /\ Request("refresh", r.tok) \in Known(logs)
      BY <1>1, <1>5, AsksRead DEF Known
    <3>2. PICK q : q = Rest(i)
      OBVIOUS
    <3>3. IsNet(q \o f) /\ Within(q \o f, Known(logs))
      BY <1>6, <2>1, <3>1, <3>2, WithinFollow
    <3> QED
      BY <2>1, <3>2, <3>3
  <2>4. shown' \in Seq(Message) /\ current' \in D \cup {None}
    <3>1. CASE UNCHANGED box
      BY <1>2, <3>1 DEF box
    <3>2. CASE ~ UNCHANGED box
      <4>1. shown' = Append(shown, Said(Bubble(r), r.ask)) /\ current' = NextChat(r)
        BY <2>1, <3>2
      <4>2. Said(Bubble(r), r.ask) \in Message
        BY <1>5 DEF Said, Message, Bubble
      <4>3. shown' \in Seq(Message)
        BY <1>2, <4>1, <4>2
      <4> QED
        BY <2>2, <4>1, <4>3
    <3> QED
      BY <3>1, <3>2
  <2>5. /\ owner' = owner /\ logs' = lg /\ recent' = recent /\ CountsTyped'
        /\ stored' = stored /\ token' = token /\ user' = user /\ chats' = chats
        /\ selected' = selected /\ page' = page
    BY <1>1, <1>6a, <2>1 DEF account, lists, server
  <2> QED
    BY <1>1, <1>2, <2>3, <2>4, <2>5 DEF TypeInv, AccountTyped, PageTyped
<1> QED
  BY <1>11, <1>12, <1>13, <1>14, <1>15, <1>16, <1>17, <1>18, <1>19 DEF Arrive

LEMMA TypedInit == Init => TypeInv
<1> SUFFICES ASSUME Init PROVE TypeInv
  OBVIOUS
<1>1. SpinInv
  BY SpinInit
<1>2. /\ stored \in Users \cup {None} /\ token = stored /\ user = None
      /\ chats = <<>> /\ selected = None /\ page = "chat" /\ shown = <<>> /\ current = None
      /\ net = VerifyAuth(stored) /\ owner = <<>> /\ logs = <<>> /\ recent = <<>>
      /\ asked = 0 /\ mishaps = 0 /\ crossed = {}
  BY DEF Init
<1>3. CountsTyped
  BY <1>2, SessionAssumption DEF SessionAssumption, CountsTyped
<1>4. ServerTyped(owner, logs, recent)
  <2>1. Len(<<>>) = 0 /\ DOMAIN <<>> = {}
    OBVIOUS
  <2>2. \A T : <<>> \in Seq(T)
    OBVIOUS
  <2>3. IsInjective(<<>>)
    BY DEF IsInjective
  <2> QED
    BY <1>2, <2>1, <2>2, <2>3 DEF ServerTyped
<1>5. chats \in Seq(Copies(logs)) /\ shown \in Seq(Message)
  BY <1>2
<1>6. Within(net, Known(logs))
  <2>1. PICK r : r = Request("verify", stored)
    OBVIOUS
  <2>2. r \in Known(logs)
    <3>1. None \in Copies(logs) \cup {None}
      OBVIOUS
    <3> QED
      BY <1>2, <2>1, <3>1, AsksRead DEF Known
  <2>3. IsRequest(r) /\ r.kind = "verify"
    BY <2>1, MakesPlain DEF Made
  <2>4. Within(<<>>, Known(logs))
    BY DEF Within
  <2>5. Within(Append(<<>>, r), Known(logs))
    BY <2>2, <2>3, <2>4, NetEmpty, WithinAppend
  <2>6. net = <<>> \/ net = Append(<<>>, r)
    BY <1>2, <2>1 DEF VerifyAuth
  <2> QED
    BY <2>4, <2>5, <2>6
<1> QED
  BY <1>1, <1>2, <1>3, <1>4, <1>5, <1>6 DEF TypeInv, AccountTyped, PageTyped, Pages

LEMMA TypedLose ==
  ASSUME TypeInv, SpinInv', NEW i \in DOMAIN net, LoseRequest(i)
  PROVE  TypeInv'
<1>1. PICK x \in {"failed", "lost"} : net' = Answered(net, i, x, None)
  BY DEF LoseRequest, Answered
<1>2. /\ UNCHANGED <<account, lists, page, shown, current>> /\ CountsTyped'
      /\ owner' = owner /\ logs' = logs /\ recent' = recent
  <2>1. CountsTyped /\ MaxMishaps \in Nat
    BY SessionAssumption DEF TypeInv, SessionAssumption
  <2>2. CountsTyped'
    BY <2>1 DEF LoseRequest, Mishap, CountsTyped
  <2> QED
    BY <2>2 DEF LoseRequest, box, server
<1>3. ServerTyped(owner', logs', recent') /\ x \in Statuses \ {"sent"}
  BY <1>2 DEF TypeInv, Statuses
<1>4. PICK lg : lg = logs /\ lg = logs'
  BY <1>2
<1> QED
  BY <1>1, <1>2, <1>3, <1>4, TypedAnswer

LEMMA TypedNext == TypeInv /\ [Next]_vars => TypeInv'
<1> SUFFICES ASSUME TypeInv, [Next]_vars PROVE TypeInv'
  OBVIOUS
<1>1. SpinInv'
  BY SpinNext DEF TypeInv
<1>2. CASE UNCHANGED vars
  <2>1. /\ UNCHANGED <<account, lists, page, shown, current, server, counts>> /\ net' = net
    BY <1>2 DEF vars, box
  <2>2. CountsTyped' /\ Within(net', Known(logs))
    BY <2>1 DEF TypeInv, CountsTyped, counts
  <2> QED
    BY <1>1, <2>1, <2>2, TypedStill
<1> QED
  BY <1>1, <1>2, TypedActs, TypedServe, TypedArrive, TypedLose DEF Next, Network

\* Whatever the user does while requests are in flight, the page and the collection keep
\* their types: a chat that exists has an owner and is listed once, and what the page holds
\* are chats that were made.
THEOREM SessionTyped == Spec => []TypeOK
<1>1. TypeInv => TypeOK
  <2> SUFFICES ASSUME TypeInv PROVE TypeOK
    OBVIOUS
  <2>1. /\ ServerTyped(owner, logs, recent) /\ AccountTyped /\ busy \in BOOLEAN
        /\ PageTyped(Copies(logs), DOMAIN logs) /\ CountsTyped
    BY DEF TypeInv, SpinInv
  <2>2. DOMAIN logs = DOMAIN owner
    <3> DEFINE M == Seq(Message)
               V == Users \cup {None}
    <3>1. logs \in Seq(M) /\ owner \in Seq(V) /\ Len(logs) = Len(owner)
      BY <2>1 DEF ServerTyped
    <3> HIDE DEF M, V
    <3> QED
      BY <3>1
  <2>3. ToSet(recent) \subseteq DOMAIN owner /\ IsInjective(recent)
    <3> DEFINE D == DOMAIN logs
    <3>1. recent \in Seq(D) /\ IsInjective(recent)
      BY <2>1 DEF ServerTyped
    <3>2. D = DOMAIN owner
      BY <2>2
    <3> HIDE DEF D
    <3>3. ToSet(recent) \subseteq D
      BY <3>1 DEF ToSet
    <3> QED
      BY <3>1, <3>2, <3>3
  <2> QED
    BY <2>1, <2>2, <2>3 DEF TypeOK, ServerTyped, AccountTyped, PageTyped, Pages, CountsTyped
<1> QED
  BY <1>1, TypedInit, TypedNext, PTL DEF Spec

-----------------------------------------------------------------------------
\* Answers in place.

Kept(rc, c) == \E j \in DOMAIN rc : rc[j] = c
Holds(lg, rc, c, n) ==
  (\E k \in DOMAIN lg[c] : lg[c][k] = Said("assistant", n)) \/ ~ Kept(rc, c)

LastAnswer(sh, j) ==
  sh[j].role = "assistant" /\ \A k \in DOMAIN sh : sh[k].role = "assistant" => k <= j

\* The last answer on the screen is in the chat the next question goes to ...
LastPlaced(sh, cur, lg, rc) ==
  \A j \in DOMAIN sh : LastAnswer(sh, j) => cur # None /\ Holds(lg, rc, cur, sh[j].ask)

\* ... and one on its way to a user is in the chat the next question will go to.
Answering(r, lg, rc) ==
  r.status = "ok" /\ r.tok # None => r.reply # None /\ Holds(lg, rc, r.reply, r.ask)

Placed(q, lg, rc) == \A i \in DOMAIN q : q[i].kind = "ask" => Answering(q[i], lg, rc)

PlaceInv ==
  TypeInv /\ LastPlaced(shown, current, logs, recent) /\ Placed(net, logs, recent)

LEMMA KeptExists ==
  ASSUME NEW c, ServerTyped(owner, logs, recent)
  PROVE  Exists(c) <=> Kept(recent, c)
<1> DEFINE D == DOMAIN logs
<1>1. recent \in Seq(D)
  BY DEF ServerTyped
<1> HIDE DEF D
<1>2. DOMAIN recent = 1..Len(recent)
  BY <1>1
<1> QED
  BY <1>2 DEF Exists, Contains, Kept

\* A message that says an answer.
LEMMA SaysAnswer ==
  ASSUME NEW m \in Message, m.role = "assistant"
  PROVE  m = Said("assistant", m.ask)
  BY DEF Message, Said

LEMMA CopyPlaced ==
  ASSUME NEW lg, NEW rc, NEW x \in Copies(lg)
  PROVE  \A j \in DOMAIN x.messages :
           x.messages[j].role = "assistant" => Holds(lg, rc, x.id, x.messages[j].ask)
<1>1. x.messages \in Seq(Message) /\ Told(x.messages, lg[x.id])
  BY DEF Copies, Chat
<1>2. SUFFICES ASSUME NEW j \in DOMAIN x.messages, x.messages[j].role = "assistant"
               PROVE  Holds(lg, rc, x.id, x.messages[j].ask)
  OBVIOUS
<1>3. x.messages[j] \in Message
  <2> DEFINE M == Message
  <2>1. x.messages \in Seq(M)
    BY <1>1
  <2> HIDE DEF M
  <2>2. x.messages[j] \in M
    BY <2>1
  <2> QED
    BY <2>2 DEF M
<1>4. x.messages[j] = Said("assistant", x.messages[j].ask)
  BY <1>2, <1>3, SaysAnswer
<1>5. PICK k \in DOMAIN lg[x.id] : lg[x.id][k] = x.messages[j]
  BY <1>1, <1>2 DEF Told
<1> QED
  BY <1>4, <1>5 DEF Holds

LEMMA LastAppend ==
  ASSUME NEW sh \in Seq(Message), NEW m \in Message, NEW s2, s2 = Append(sh, m),
         NEW cur, NEW lg, NEW rc, LastPlaced(sh, cur, lg, rc), NEW c,
         m.role # "assistant" => c = cur,
         m.role = "assistant" => c # None /\ Holds(lg, rc, c, m.ask)
  PROVE  LastPlaced(s2, c, lg, rc)
<1> DEFINE M == Message
<1>1. sh \in Seq(M) /\ m \in M
  OBVIOUS
<1> HIDE DEF M
<1>2. PICK n : n = Len(sh) + 1
  OBVIOUS
<1>3. /\ Len(sh) \in Nat /\ DOMAIN sh = 1..Len(sh) /\ DOMAIN s2 = 1..n
      /\ s2[n] = m /\ \A k \in DOMAIN sh : s2[k] = sh[k]
  BY <1>1, <1>2
<1>4. \A k \in DOMAIN s2 : k = n \/ k \in DOMAIN sh
  BY <1>2, <1>3
<1>5. DOMAIN sh \subseteq DOMAIN s2 /\ n \in DOMAIN s2
  BY <1>2, <1>3
<1>6. SUFFICES ASSUME NEW j \in DOMAIN s2, LastAnswer(s2, j)
               PROVE  c # None /\ Holds(lg, rc, c, s2[j].ask)
  BY DEF LastPlaced
<1>7. CASE m.role = "assistant"
  <2>1. n <= j
    BY <1>3, <1>5, <1>6, <1>7 DEF LastAnswer
  <2>2. j = n
    BY <1>2, <1>3, <1>4, <2>1
  <2> QED BY <1>3, <1>7, <2>2
<1>8. CASE m.role # "assistant"
  <2>1. j \in DOMAIN sh
    BY <1>3, <1>4, <1>6, <1>8 DEF LastAnswer
  <2>2. \A k \in DOMAIN sh : sh[k].role = "assistant" => k <= j
    BY <1>3, <1>5, <1>6 DEF LastAnswer
  <2>3. LastAnswer(sh, j)
    BY <1>3, <1>6, <2>1, <2>2 DEF LastAnswer
  <2> QED BY <1>3, <1>8, <2>1, <2>3 DEF LastPlaced
<1> QED BY <1>7, <1>8

\* Answering says nothing of the ChatBox.
LEMMA AnsweringSame ==
  ASSUME NEW a, NEW b, NEW lg, NEW rc, Answering(a, lg, rc),
         b.tok = a.tok, b.status = a.status, b.reply = a.reply, b.ask = a.ask
  PROVE  Answering(b, lg, rc)
  BY DEF Answering

LEMMA PlacedAppend ==
  ASSUME NEW q, IsNet(q), NEW lg, NEW rc, Placed(q, lg, rc),
         NEW r, IsRequest(r), r.status = "sent"
  PROVE  IsNet(Append(q, r)) /\ Placed(Append(q, r), lg, rc)
<1>1. /\ IsNet(Append(q, r)) /\ Len(Append(q, r)) = Len(q) + 1
      /\ Append(q, r)[Len(q) + 1] = r
      /\ \A i \in DOMAIN q : Append(q, r)[i] = q[i]
  BY NetAppend
<1>2. Len(q) \in Nat /\ DOMAIN q = 1..Len(q) /\ DOMAIN Append(q, r) = 1..(Len(q) + 1)
  BY <1>1, NetLen
<1>3. ASSUME NEW i \in DOMAIN Append(q, r), Append(q, r)[i].kind = "ask"
      PROVE  Answering(Append(q, r)[i], lg, rc)
  <2>1. i \in DOMAIN q \/ i = Len(q) + 1
    BY <1>2
  <2>2. CASE i = Len(q) + 1
    BY <1>1, <2>2 DEF Answering
  <2>3. CASE i \in DOMAIN q
    <3>1. Append(q, r)[i] = q[i]
      BY <1>1, <2>3
    <3> QED BY <1>3, <2>3, <3>1 DEF Placed
  <2> QED BY <2>1, <2>2, <2>3
<1> QED
  BY <1>1, <1>3 DEF Placed

LEMMA PlacedRest ==
  ASSUME NEW q, IsNet(q), NEW lg, NEW rc, Placed(q, lg, rc), NEW i \in DOMAIN q
  PROVE  IsNet(RemoveAt(q, i)) /\ Placed(RemoveAt(q, i), lg, rc)
  BY NetRest DEF Placed

LEMMA PlacedFollow ==
  ASSUME NEW q, IsNet(q), NEW lg, NEW rc, Placed(q, lg, rc), NEW r, NEW f, f \in {<<>>, FollowUps(r)}
  PROVE  Placed(q \o f, lg, rc)
<1>1. CASE f = <<>>
  BY <1>1, FollowNet
<1>2. CASE f # <<>>
  <2>1. PICK a, b : a = FetchChats(r.tok, r.sel) /\ b = Request("refresh", r.tok)
    OBVIOUS
  <2>2. IsRequest(a) /\ IsRequest(b) /\ a.status = "sent" /\ b.status = "sent"
    BY <2>1, MakesFollow DEF Made
  <2>3. IsNet(Append(q, a)) /\ Placed(Append(q, a), lg, rc)
    BY <2>2, PlacedAppend
  <2>4. Placed(Append(Append(q, a), b), lg, rc)
    BY <2>2, <2>3, PlacedAppend
  <2> QED
    BY <1>2, <2>1, <2>4, FollowNet
<1> QED
  BY <1>1, <1>2

LEMMA RenderPlaced ==
  ASSUME NEW u, NEW p, NEW sel, NEW fresh, NEW q, IsNet(q), Render(u, p, sel, fresh, q),
         NEW lg, NEW rc, Placed(q, lg, rc)
  PROVE  Placed(net', lg, rc)
<1>1. net' = q \/ net' = Detached(q)
  BY DEF Render
<1>2. ASSUME NEW i \in DOMAIN Detached(q), Detached(q)[i].kind = "ask"
      PROVE  Answering(Detached(q)[i], lg, rc)
  <2>1. i \in DOMAIN q /\ Detached(q)[i] = [q[i] EXCEPT !.live = FALSE]
    BY DEF Detached
  <2>2. PICK a, b : a = q[i] /\ b = Detached(q)[i]
    OBVIOUS
  <2>3. IsRequest(a)
    BY <2>1, <2>2 DEF IsNet
  <2>4. /\ b.kind = a.kind /\ b.tok = a.tok /\ b.status = a.status /\ b.reply = a.reply
        /\ b.ask = a.ask
    BY <2>1, <2>2, <2>3 DEF IsRequest, Fields
  <2>5. Answering(a, lg, rc)
    BY <1>2, <2>1, <2>2, <2>4 DEF Placed
  <2> QED BY <2>2, <2>4, <2>5, AnsweringSame
<1>3. Placed(Detached(q), lg, rc)
  BY <1>2 DEF Placed
<1> QED BY <1>1, <1>3

LEMMA RenderShown ==
  ASSUME NEW lg, NEW rc, LastPlaced(shown, current, lg, rc),
         NEW u, NEW p, NEW sel \in Copies(lg) \cup {None}, NEW fresh, NEW q,
         Render(u, p, sel, fresh, q)
  PROVE  LastPlaced(shown', current', lg, rc)
<1>1. CASE UNCHANGED <<shown, current>>
  BY <1>1
<1>2. CASE shown' = <<>>
  BY <1>2 DEF LastPlaced
<1>3. CASE shown' = MessagesOf(sel) /\ current' = IdOf(sel) /\ sel # None
  <2>1. sel \in Copies(lg) /\ sel # None
    BY <1>3
  <2>2. current' = sel.id /\ shown' = sel.messages
    BY <1>3, <2>1 DEF MessagesOf, IdOf
  <2>3. sel.id # None
    <3>1. sel.id \in Nat
      BY <2>1 DEF Copies, Chat
    <3> QED
      BY <3>1, SessionAssumption DEF SessionAssumption
  <2> QED
    BY <2>1, <2>2, <2>3, CopyPlaced DEF LastPlaced, LastAnswer
<1>4. CASE shown' = MessagesOf(sel) /\ sel = None
  <2>1. shown' = <<>>
    BY <1>4 DEF MessagesOf
  <2> QED
    BY <1>2, <2>1
<1> QED
  BY <1>1, <1>2, <1>3, <1>4 DEF Render

LEMMA PlacedRender ==
  ASSUME PlaceInv, TypeInv', UNCHANGED server,
         NEW u, NEW p, NEW sel \in Copies(logs) \cup {None}, NEW fresh, NEW q, IsNet(q),
         Placed(q, logs, recent), Render(u, p, sel, fresh, q)
  PROVE  PlaceInv'
<1>1. logs' = logs /\ recent' = recent /\ LastPlaced(shown, current, logs, recent)
  BY DEF server, PlaceInv
<1>2. PICK lg, rc : lg = logs /\ rc = recent
  OBVIOUS
<1>3. LastPlaced(shown', current', lg, rc)
  BY <1>1, <1>2, RenderShown
<1>4. Placed(net', lg, rc)
  BY <1>2, RenderPlaced
<1> QED
  BY <1>1, <1>2, <1>3, <1>4 DEF PlaceInv

\* Nothing changes that the places depend on but the requests.
LEMMA PlacedStill ==
  ASSUME PlaceInv, TypeInv', UNCHANGED <<shown, current, server>>, Placed(net', logs, recent)
  PROVE  PlaceInv'
<1>1. shown' = shown /\ current' = current /\ logs' = logs /\ recent' = recent
  BY DEF server
<1>2. PICK lg, rc : lg = logs /\ rc = recent
  OBVIOUS
<1>3. LastPlaced(shown, current, lg, rc) /\ Placed(net', lg, rc)
  BY <1>2 DEF PlaceInv
<1> QED
  BY <1>1, <1>2, <1>3 DEF PlaceInv

LEMMA PlacedAccount ==
  ASSUME PlaceInv, TypeInv', UNCHANGED server,
         NEW s, NEW t, NEW u, NEW p, NEW q, IsNet(q), Placed(q, logs, recent),
         SetAccount(s, t, u, p, q)
  PROVE  PlaceInv'
<1>1. selected \in Copies(logs) \cup {None}
  BY DEF PlaceInv, TypeInv, PageTyped
<1>2. CASE Render(u, p, selected, FALSE, Append(q, FetchChats(t, selected)))
  <2>1. PICK r : r = FetchChats(t, selected)
    OBVIOUS
  <2>2. Made(r, "list", t)
    BY <2>1, Makes
  <2>3. IsNet(Append(q, r)) /\ Placed(Append(q, r), logs, recent)
    BY <2>2, PlacedAppend DEF Made
  <2> QED
    BY <1>1, <1>2, <2>1, <2>3, PlacedRender
<1>3. CASE Render(u, p, None, selected # None, q)
  <2>1. None \in Copies(logs) \cup {None}
    OBVIOUS
  <2> QED
    BY <1>3, <2>1, PlacedRender
<1> QED
  BY <1>2, <1>3 DEF SetAccount

LEMMA PlacedStart ==
  ASSUME PlaceInv, TypeInv', NEW r, NEW k, NEW t, Made(r, k, t), Start(r)
  PROVE  PlaceInv'
<1>1. IsNet(net) /\ Placed(net, logs, recent)
  BY DEF PlaceInv, TypeInv, SpinInv
<1>2. /\ net' = Append(net, r) /\ UNCHANGED <<shown, current, server>>
      /\ IsRequest(r) /\ r.status = "sent"
  BY DEF Start, box, Made
<1>3. Placed(Append(net, r), logs, recent)
  BY <1>1, <1>2, PlacedAppend
<1> QED
  BY <1>2, <1>3, PlacedStill

LEMMA ServerLen ==
  ASSUME NEW ow, NEW lg, NEW rc, ServerTyped(ow, lg, rc)
  PROVE  /\ Len(lg) \in Nat /\ Len(ow) = Len(lg) /\ DOMAIN lg = 1..Len(lg) /\ DOMAIN ow = DOMAIN lg
         /\ \A c \in DOMAIN lg : lg[c] \in Seq(Message)
<1> DEFINE M == Seq(Message)
           V == Users \cup {None}
<1>1. lg \in Seq(M) /\ ow \in Seq(V) /\ Len(lg) = Len(ow)
  BY DEF ServerTyped
<1> HIDE DEF M, V
<1>2. /\ Len(lg) \in Nat /\ Len(ow) = Len(lg) /\ DOMAIN lg = 1..Len(lg) /\ DOMAIN ow = DOMAIN lg
      /\ \A c \in DOMAIN lg : lg[c] \in M
  BY <1>1
<1> QED
  BY <1>2 DEF M

\* A new chat takes the place of none that is gone.
LEMMA KeptOlder ==
  ASSUME NEW ow, NEW lg, NEW rc, ServerTyped(ow, lg, rc)
  PROVE  \A c \in DOMAIN lg : Kept(<<Len(ow) + 1>> \o rc, c) => Kept(rc, c)
<1>1. Len(lg) \in Nat /\ Len(ow) = Len(lg) /\ DOMAIN lg = 1..Len(lg)
  BY ServerLen
<1>2. PICK n : n = Len(ow) + 1
  OBVIOUS
<1>3. n \notin DOMAIN lg /\ DOMAIN lg \subseteq Nat
  BY <1>1, <1>2
<1> DEFINE D == DOMAIN lg
           T == D \cup {n}
<1>4. rc \in Seq(T) /\ n \in T
  <2>1. rc \in Seq(D) /\ D \subseteq T /\ n \in T
    BY DEF ServerTyped
  <2> HIDE DEF D, T
  <2> QED
    BY <2>1
<1> HIDE DEF T
<1>5. PICK r : r = <<n>> \o rc
  OBVIOUS
<1>6. /\ DOMAIN r = 1..(Len(rc) + 1) /\ Len(rc) \in Nat /\ DOMAIN rc = 1..Len(rc)
      /\ r[1] = n /\ \A k \in 1..Len(rc) : r[k + 1] = rc[k]
  BY <1>4, <1>5
<1>7. ASSUME NEW c \in DOMAIN lg, NEW k \in DOMAIN r, r[k] = c PROVE \E j \in DOMAIN rc : rc[j] = c
  <2>1. k # 1
    BY <1>3, <1>6, <1>7
  <2>2. k - 1 \in 1..Len(rc) /\ (k - 1) + 1 = k
    BY <1>6, <2>1
  <2> QED
    BY <1>6, <1>7, <2>2
<1> QED
  BY <1>2, <1>5, <1>7 DEF Kept

LEMMA SaysLast ==
  ASSUME NEW m \in Seq(Message), NEW e \in Seq(Message), DOMAIN e = 1..2
  PROVE  \E k \in DOMAIN (m \o e) : (m \o e)[k] = e[2]
<1>1. Len(m) \in Nat /\ Len(e) = 2
  OBVIOUS
<1>2. Len(m) + 2 \in DOMAIN (m \o e) /\ (m \o e)[Len(m) + 2] = e[2]
  <2> DEFINE M == Message
  <2>1. m \in Seq(M) /\ e \in Seq(M)
    OBVIOUS
  <2> HIDE DEF M
  <2>2. PICK s : s = m \o e
    OBVIOUS
  <2>3. s \in Seq(M) /\ Len(s) = Len(m) + Len(e)
    BY <2>1, <2>2
  <2>4. DOMAIN s = 1..(Len(m) + 2)
    BY <1>1, <2>3
  <2>5. \A k \in 1..Len(e) : (m \o e)[Len(m) + k] = e[k]
    BY <2>1
  <2> QED
    BY <1>1, <2>2, <2>4, <2>5
<1> QED
  BY <1>2

LEMMA AddsGrow ==
  ASSUME NEW ow, NEW lg, NEW rc, ServerTyped(ow, lg, rc), NEW e \in Seq(Message)
  PROVE  Grows(lg, Append(lg, e)) /\ Append(lg, e)[Len(ow) + 1] = e
<1> DEFINE M == Seq(Message)
<1>1. lg \in Seq(M) /\ e \in M /\ Len(ow) = Len(lg)
  BY DEF ServerTyped
<1> HIDE DEF M
<1>2. PICK l2 : l2 = Append(lg, e)
  OBVIOUS
<1>3. /\ DOMAIN lg \subseteq DOMAIN l2 /\ \A c \in DOMAIN lg : l2[c] = lg[c]
      /\ l2[Len(lg) + 1] = e
  BY <1>1, <1>2
<1> QED
  BY <1>1, <1>2, <1>3 DEF Grows

LEMMA PlacedActs ==
  ASSUME PlaceInv, TypeInv', Acts
  PROVE  PlaceInv'
<1>1. /\ IsNet(net) /\ Placed(net, logs, recent) /\ selected \in Copies(logs) \cup {None}
      /\ None \in Copies(logs) \cup {None}
  BY DEF PlaceInv, TypeInv, SpinInv, PageTyped
<1>2. ASSUME NEW u \in Users, Login(u) PROVE PlaceInv'
  <2>1. Start(Request("login", u)) /\ Made(Request("login", u), "login", u)
    BY <1>2, MakesPlain DEF Login
  <2> QED
    BY <2>1, PlacedStart
<1>3. CASE Logout
  <2>1. Render(None, "login", None, TRUE, net) /\ UNCHANGED server
    BY <1>3 DEF Logout
  <2> QED
    BY <1>1, <2>1, PlacedRender
<1>4. CASE Reload
  <2>1. shown' = <<>> /\ net' = VerifyAuth(stored)
    BY <1>4 DEF Reload
  <2>2. LastPlaced(shown', current', logs', recent')
    BY <2>1 DEF LastPlaced
  <2>3. Placed(net', logs', recent')
    <3>1. PICK r : r = Request("verify", stored)
      OBVIOUS
    <3>2. r.kind = "verify"
      BY <3>1 DEF Request
    <3>3. Placed(<<>>, logs', recent') /\ Placed(<<r>>, logs', recent')
      BY <3>2 DEF Placed
    <3> QED
      BY <2>1, <3>1, <3>3 DEF VerifyAuth
  <2> QED
    BY <2>2, <2>3 DEF PlaceInv
<1>5. ASSUME NEW p \in {"chat", "other"}, Visit(p) PROVE PlaceInv'
  BY <1>1, <1>5, PlacedRender DEF Visit
<1>6. CASE NewChat
  <2>1. Start(Request("create", token)) /\ Made(Request("create", token), "create", token)
    BY <1>6, MakesPlain DEF NewChat
  <2> QED
    BY <2>1, PlacedStart
<1>7. ASSUME NEW c \in DOMAIN owner, OpenChat(c) PROVE PlaceInv'
  <2>1. PICK r : r = [Request("open", token) EXCEPT !.chat = c]
    OBVIOUS
  <2>2. Made(r, "open", token)
    BY <2>1, Makes
  <2>3. Render(user, "chat", selected, FALSE, Append(net, r)) /\ UNCHANGED server
    BY <1>7, <2>1 DEF OpenChat
  <2>4. IsNet(Append(net, r)) /\ Placed(Append(net, r), logs, recent)
    BY <1>1, <2>2, PlacedAppend DEF Made
  <2> QED
    BY <1>1, <2>3, <2>4, PlacedRender
<1>8. ASSUME NEW c \in DOMAIN owner, DeleteChat(c) PROVE PlaceInv'
  <2>1. PICK r : r = [Request("delete", token) EXCEPT !.chat = c, !.sel = selected, !.list = chats]
    OBVIOUS
  <2>2. Made(r, "delete", token) /\ Start(r)
    BY <1>8, <2>1, Makes DEF DeleteChat
  <2> QED
    BY <2>2, PlacedStart
<1>9. CASE Submit
  <2>1. PICK r : r = [Request("ask", token) EXCEPT
                !.chat = current, !.ask = asked + 1, !.live = TRUE, !.sel = selected]
    OBVIOUS
  <2>2. IsRequest(r) /\ r.status = "sent"
    BY <2>1 DEF IsRequest, Fields, Request
  <2>3. PICK lg, rc, cur : lg = logs /\ rc = recent /\ cur = current
    OBVIOUS
  <2>4. /\ net' = Append(net, r)
        /\ shown' = Append(shown, Said("user", asked + 1)) /\ current' = cur
        /\ logs' = lg /\ recent' = rc /\ LastPlaced(shown, cur, lg, rc) /\ Placed(net, lg, rc)
    BY <1>9, <2>1, <2>3 DEF Submit, server, PlaceInv
  <2>5. PICK m \in Message : m = Said("user", asked + 1) /\ m.role # "assistant"
    <3>1. asked \in 0..MaxAsks /\ MaxAsks \in Nat
      BY SessionAssumption DEF PlaceInv, TypeInv, CountsTyped, SessionAssumption
    <3>2. PICK n \in Nat : n = asked + 1
      BY <3>1
    <3>3. Said("user", n) \in Message /\ Said("user", n).role # "assistant"
      BY DEF Said, Message
    <3> QED
      BY <3>2, <3>3
  <2>6. shown \in Seq(Message)
    BY DEF PlaceInv, TypeInv, PageTyped
  <2>7. PICK s2 : s2 = Append(shown, m)
    OBVIOUS
  <2>8. LastPlaced(s2, cur, lg, rc)
    BY <2>4, <2>5, <2>6, <2>7, LastAppend
  <2>9. Placed(net', lg, rc)
    BY <1>1, <2>2, <2>4, PlacedAppend
  <2> QED
    BY <2>4, <2>5, <2>7, <2>8, <2>9 DEF PlaceInv
<1> QED
  BY <1>2, <1>3, <1>4, <1>5, <1>6, <1>7, <1>8, <1>9 DEF Acts

\* What is on its way stays in place when the server changes.
LEMMA HoldsOn ==
  ASSUME NEW lg, NEW rc, NEW l2, NEW r2, Grows(lg, l2), NEW c \in DOMAIN lg,
         Kept(r2, c) => Kept(rc, c), NEW n, Holds(lg, rc, c, n)
  PROVE  Holds(l2, r2, c, n)
<1>1. CASE ~ Kept(rc, c)
  BY <1>1 DEF Holds
<1>2. CASE Kept(rc, c)
  <2>1. PICK k \in DOMAIN lg[c] : lg[c][k] = Said("assistant", n)
    BY <1>2 DEF Holds
  <2>2. \E j \in DOMAIN l2[c] : l2[c][j] = lg[c][k]
    BY DEF Grows
  <2> QED
    BY <2>1, <2>2 DEF Holds
<1> QED
  BY <1>1, <1>2

LEMMA PlacedServe ==
  ASSUME PlaceInv, TypeInv', NEW i \in DOMAIN net, Serve(i)
  PROVE  PlaceInv'
<1>1. PICK ow, lg, rc, r : ow = owner /\ lg = logs /\ rc = recent /\ r = net[i]
  OBVIOUS
<1>2. PICK l2, r2 : l2 = logs' /\ r2 = recent'
  OBVIOUS
<1>3. PICK x, y : net' = Answered(net, i, x, y) /\ Answer(i, x, y)
  BY DEF Serve, ServeRead, ServeCreate, ServeDelete, ServeAsk, Answer, Answered
<1>4. shown' = shown /\ current' = current
  BY <1>3 DEF Answer, box
<1>5. /\ ServerTyped(ow, lg, rc) /\ IsNet(net) /\ current \in DOMAIN lg \cup {None}
      /\ LastPlaced(shown, current, lg, rc) /\ Placed(net, lg, rc)
  BY <1>1 DEF PlaceInv, TypeInv, SpinInv, PageTyped
<1>6. \A j \in DOMAIN net : /\ net[j] \in Over(Copies(lg), DOMAIN lg)
                            /\ Replied(net[j], Copies(lg), DOMAIN lg)
  BY <1>1 DEF PlaceInv, TypeInv, Within, Known, Asks
<1>7. r.tok \in Users \cup {None} /\ r.chat \in DOMAIN lg \cup {None} /\ r.ask \in Nat /\ IsRequest(r)
  BY <1>1, <1>5, <1>6 DEF Over, IsNet
<1>8. Grows(lg, lg)
  BY DEF Grows
<1>9. ASSUME Grows(lg, l2), \A c \in DOMAIN lg : Kept(r2, c) => Kept(rc, c),
             r.kind = "ask" => x = "ok" /\ (r.tok # None => y # None /\ Holds(l2, r2, y, r.ask))
      PROVE  PlaceInv'
  <2>1. LastPlaced(shown', current', l2, r2)
    BY <1>4, <1>5, <1>9, HoldsOn DEF LastPlaced
  <2>2. PICK n : n = Answered(net, i, x, y)
    OBVIOUS
  <2>3. /\ DOMAIN n = DOMAIN net /\ \A j \in DOMAIN net : n[j].kind = net[j].kind
        /\ n[i] = [[r EXCEPT !.status = x] EXCEPT !.reply = y]
        /\ \A j \in DOMAIN net : j # i => n[j] = net[j]
    <3>1. IsNet(net) /\ n = Answered(net, i, x, y)
      BY <1>5, <2>2
    <3>2. DOMAIN n = DOMAIN net /\ \A j \in DOMAIN net : n[j].kind = net[j].kind
      BY <3>1, QuietAnswer
    <3>3. /\ n[i] = [[net[i] EXCEPT !.status = x] EXCEPT !.reply = y]
          /\ \A j \in DOMAIN net : j # i => n[j] = net[j]
      BY <3>1 DEF Answered
    <3> QED BY <1>1, <3>2, <3>3
  <2>4. /\ n[i].status = x /\ n[i].reply = y /\ n[i].ask = r.ask /\ n[i].tok = r.tok
    BY <1>7, <2>3 DEF IsRequest, Fields
  <2>5. ASSUME NEW j \in DOMAIN net, net[j].kind = "ask" PROVE Answering(n[j], l2, r2)
    <3>1. CASE j = i
      BY <1>1, <1>9, <2>4, <2>5, <3>1 DEF Answering
    <3>2. CASE j # i
      <4>1. n[j] = net[j] /\ Answering(net[j], lg, rc)
        BY <1>5, <2>3, <2>5, <3>2 DEF Placed
      <4>2. SUFFICES ASSUME net[j].status = "ok", net[j].tok # None
                     PROVE  net[j].reply # None /\ Holds(l2, r2, net[j].reply, net[j].ask)
        BY <4>1 DEF Answering
      <4>3. net[j].reply # None /\ Holds(lg, rc, net[j].reply, net[j].ask)
        BY <4>1, <4>2 DEF Answering
      <4>4. net[j].reply \in DOMAIN lg
        BY <1>6, <2>5, <4>2, <4>3 DEF Replied
      <4> QED BY <1>9, <4>3, <4>4, HoldsOn
    <3> QED BY <3>1, <3>2
  <2>6. Placed(net', l2, r2)
    BY <1>3, <2>2, <2>3, <2>5 DEF Placed
  <2> QED BY <1>2, <2>1, <2>6 DEF PlaceInv
<1>11. CASE UNCHANGED server /\ r.kind # "ask"
  BY <1>1, <1>2, <1>8, <1>9, <1>11 DEF server
<1>12. CASE ServeRead(i)
  BY <1>1, <1>11, <1>12 DEF ServeRead, Sent
<1>13. CASE ServeCreate(i)
  <2>1. r.kind = "create" /\ l2 = Append(lg, <<>>) /\ owner' = Append(ow, r.tok) /\ r2 = <<Len(owner')>> \o rc
    BY <1>1, <1>2, <1>13 DEF ServeCreate, Sent
  <2>2. Len(owner') = Len(ow) + 1
    BY <1>5, <1>7, <2>1, AppendLen
  <2>3. Grows(lg, l2)
    <3>1. <<>> \in Seq(Message)
      OBVIOUS
    <3> QED
      BY <1>5, <1>7, <2>1, <3>1, ServerAdds
  <2>4. \A c \in DOMAIN lg : Kept(r2, c) => Kept(rc, c)
    BY <1>5, <2>1, <2>2, KeptOlder
  <2> QED
    BY <1>9, <2>1, <2>3, <2>4
<1>14. CASE ServeDelete(i)
  <2>1. /\ r.kind = "delete" /\ l2 = lg
        /\ r2 = rc \/ r2 = At(rc, Others(rc, r.chat))
    BY <1>1, <1>2, <1>14 DEF ServeDelete, Sent, Others
  <2>2. \A c : Kept(r2, c) => Kept(rc, c)
    BY <1>5, <2>1, ServerRemoves DEF Kept
  <2> QED
    BY <1>8, <1>9, <2>1, <2>2
<1>15. CASE ServeAsk(i)
  <2>1. r.kind = "ask" /\ r.status = "sent"
    BY <1>1, <1>15 DEF ServeAsk, Sent
  <2>2. ASSUME NEW z, Answer(i, "ok", z), Grows(lg, l2), \A c \in DOMAIN lg : Kept(r2, c) => Kept(rc, c),
               r.tok # None => z # None /\ Holds(l2, r2, z, r.ask)
        PROVE  PlaceInv'
    <3>1. x = "ok" /\ y = z
      <4>1. net'[i].status = x /\ net'[i].reply = y
        <5>1. net' = [net EXCEPT ![i].status = x, ![i].reply = y]
          BY <1>3 DEF Answer
        <5>2. net'[i] = [[r EXCEPT !.status = x] EXCEPT !.reply = y]
          BY <1>1, <5>1
        <5> QED BY <1>7, <5>2 DEF IsRequest, Fields
      <4>2. net'[i].status = "ok" /\ net'[i].reply = z
        <5>1. net' = [net EXCEPT ![i].status = "ok", ![i].reply = z]
          BY <2>2 DEF Answer
        <5>2. net'[i] = [[r EXCEPT !.status = "ok"] EXCEPT !.reply = z]
          BY <1>1, <5>1
        <5> QED BY <1>7, <5>2 DEF IsRequest, Fields
      <4> QED BY <4>1, <4>2
    <3> QED BY <1>9, <2>2, <3>1
  <2>3. Exchange(r.ask) \in Seq(Message)
    BY <1>7, ExchangeTyped
  <2>4. Exchange(r.ask)[2] = Said("assistant", r.ask) /\ DOMAIN Exchange(r.ask) = 1..2
    BY DEF Exchange
  <2>5. CASE /\ r.chat = None /\ owner' = Append(ow, r.tok) /\ l2 = Append(lg, Exchange(r.ask))
             /\ r2 = <<Len(owner')>> \o rc /\ Answer(i, "ok", Len(owner'))
    <3>2. Len(owner') = Len(ow) + 1
      BY <1>5, <1>7, <2>5, AppendLen
    <3>3. Grows(lg, l2) /\ l2[Len(ow) + 1] = Exchange(r.ask)
      <4>1. PICK e \in Seq(Message), u \in Users \cup {None} : e = Exchange(r.ask) /\ u = r.tok
        BY <1>7, <2>3
      <4>2. ServerTyped(ow, lg, rc)
        BY <1>5
      <4>3. Grows(lg, Append(lg, e)) /\ Append(lg, e)[Len(ow) + 1] = e
        BY <4>2, AddsGrow
      <4> QED
        BY <2>5, <4>1, <4>3
    <3>4. \A c \in DOMAIN lg : Kept(r2, c) => Kept(rc, c)
      BY <1>5, <2>5, <3>2, KeptOlder
    <3>5. PICK z : z = Len(ow) + 1
      OBVIOUS
    <3>6. Holds(l2, r2, z, r.ask)
      <4>1. 2 \in DOMAIN l2[z] /\ l2[z][2] = Said("assistant", r.ask)
        BY <2>4, <3>3, <3>5
      <4> QED
        BY <4>1 DEF Holds
    <3>7. z # None
      <4>1. z \in Nat
        <5>1. Len(lg) \in Nat /\ Len(ow) = Len(lg)
          BY <1>5, ServerLen
        <5> QED
          BY <3>5, <5>1
      <4> QED
        BY <4>1, SessionAssumption DEF SessionAssumption
    <3> QED
      BY <2>2, <2>5, <3>2, <3>3, <3>4, <3>5, <3>6, <3>7
  <2>6. CASE /\ r.chat # None /\ l2 = Longer(lg, r.chat, Exchange(r.ask))
             /\ Exists(r.chat) /\ r2 = Moved(rc, r.chat) /\ Answer(i, "ok", r.chat)
    <3>1. PICK c \in DOMAIN lg, e \in Seq(Message) : c = r.chat /\ e = Exchange(r.ask)
      BY <1>7, <2>3, <2>6
    <3>2. l2 = Longer(lg, c, e) /\ r2 = Moved(rc, c)
      BY <2>6, <3>1
    <3>3. /\ Grows(lg, l2) /\ l2[c] = lg[c] \o e
          /\ \A k \in DOMAIN r2 : r2[k] = c \/ \E j \in DOMAIN rc : rc[j] = r2[k]
      <4>1. ServerTyped(ow, l2, r2)
        BY <1>5, <3>2, ServerExtends
      <4>2. Grows(lg, l2)
        BY <1>5, <3>2, <4>1, ServerExtends
      <4>3. l2[c] = lg[c] \o e
        BY <3>2, <1>5, ServerLen DEF Longer
      <4>4. \A k \in DOMAIN r2 : r2[k] = c \/ \E j \in DOMAIN rc : rc[j] = r2[k]
        BY <1>5, <3>2, <4>1, ServerExtends
      <4> QED
        BY <4>2, <4>3, <4>4
    <3>4. Kept(rc, c)
      BY <1>1, <1>5, <2>6, <3>1, KeptExists
    <3>5. \A d \in DOMAIN lg : Kept(r2, d) => Kept(rc, d)
      BY <3>3, <3>4 DEF Kept
    <3>6. Holds(l2, r2, c, r.ask)
      <4>1. lg[c] \in Seq(Message)
        BY <1>5, ServerLen
      <4>2. \E k \in DOMAIN (lg[c] \o e) : (lg[c] \o e)[k] = Said("assistant", r.ask)
        <5>1. DOMAIN e = 1..2 /\ e[2] = Said("assistant", r.ask)
          BY <2>4, <3>1
        <5>2. \E k \in DOMAIN (lg[c] \o e) : (lg[c] \o e)[k] = e[2]
          BY <4>1, <5>1, SaysLast
        <5> QED
          BY <5>1, <5>2
      <4> QED
        BY <3>3, <4>2 DEF Holds
    <3> QED
      BY <2>2, <2>6, <3>1, <3>3, <3>5, <3>6
  <2>7. CASE /\ r.tok = None \/ (r.chat # None /\ ~ Exists(r.chat))
             /\ Answer(i, "ok", r.chat) /\ l2 = lg /\ r2 = rc
    <3>1. ASSUME r.tok # None PROVE r.chat # None /\ Holds(l2, r2, r.chat, r.ask)
      BY <1>1, <1>5, <2>7, <3>1, KeptExists DEF Holds
    <3> QED
      BY <1>8, <2>2, <2>7, <3>1
  <2> QED
    BY <1>1, <1>2, <1>15, <2>1, <2>5, <2>6, <2>7 DEF ServeAsk, Others, Moved, Longer, server
<1> QED
  BY <1>12, <1>13, <1>14, <1>15 DEF Serve

\* The answer arrives, in the ChatBox it was asked in or when that is gone.
LEMMA PlacedAnswer ==
  ASSUME PlaceInv, TypeInv', NEW i \in DOMAIN net, ArriveAnswer(i)
  PROVE  PlaceInv'
<1>1. PICK r, lg, rc : r = net[i] /\ lg = logs /\ rc = recent
  OBVIOUS
<1>2. /\ IsNet(net) /\ shown \in Seq(Message) /\ LastPlaced(shown, current, lg, rc)
      /\ Placed(net, lg, rc) /\ r.ask \in Nat
  <2>1. r \in Over(Copies(lg), DOMAIN lg)
    BY <1>1 DEF PlaceInv, TypeInv, Within, Known, Asks
  <2>2. r.ask \in Nat
    BY <2>1 DEF Over
  <2> QED
    BY <1>1, <2>2 DEF PlaceInv, TypeInv, SpinInv, PageTyped
<1>3. r.kind = "ask" /\ Answering(r, lg, rc)
  BY <1>1, <1>2 DEF ArriveAnswer, Placed
<1>4. PICK f : /\ f \in {<<>>, FollowUps(r)} /\ net' = Rest(i) \o f
               /\ r.live => /\ shown' = Append(shown, Said(Bubble(r), r.ask))
                            /\ current' = NextChat(r)
               /\ ~ r.live => shown' = shown /\ current' = current
               /\ logs' = lg /\ recent' = rc
  BY <1>1 DEF ArriveAnswer, box, server
<1>5. Placed(net', lg, rc)
  <2>1. PICK q : q = Rest(i)
    OBVIOUS
  <2>2. IsNet(q) /\ Placed(q, lg, rc)
    BY <1>2, <2>1, PlacedRest DEF Rest
  <2>3. Placed(q \o f, lg, rc)
    BY <1>4, <2>2, PlacedFollow
  <2> QED
    BY <1>4, <2>1, <2>3
<1>6. CASE ~ r.live
  BY <1>2, <1>4, <1>5, <1>6 DEF PlaceInv
<1>7. CASE r.live
  <2>1. PICK m \in Message : /\ m = Said(Bubble(r), r.ask) /\ m.ask = r.ask
                             /\ m.role = "assistant" <=> r.status = "ok" /\ r.tok # None
    <3>1. PICK m : m = Said(Bubble(r), r.ask)
      OBVIOUS
    <3>2. /\ m \in Message /\ m.ask = r.ask
          /\ m.role = "assistant" <=> r.status = "ok" /\ r.tok # None
      BY <1>2, <3>1 DEF Message, Said, Bubble
    <3> QED BY <3>1, <3>2
  <2>2. PICK cur : cur = current
    OBVIOUS
  <2>3. PICK c : c = NextChat(r)
    OBVIOUS
  <2>4. m.role # "assistant" => c = cur
    BY <2>1, <2>2, <2>3 DEF NextChat
  <2>5. m.role = "assistant" => c # None /\ Holds(lg, rc, c, m.ask)
    BY <1>3, <2>1, <2>3 DEF NextChat, Answering
  <2>6. PICK s2 : s2 = Append(shown, m)
    OBVIOUS
  <2>7. LastPlaced(shown, cur, lg, rc)
    BY <1>2, <2>2
  <2>8. LastPlaced(s2, c, lg, rc)
    BY <1>2, <2>1, <2>4, <2>5, <2>6, <2>7, LastAppend
  <2> QED
    BY <1>4, <1>5, <1>7, <2>1, <2>3, <2>6, <2>8 DEF PlaceInv
<1> QED
  BY <1>6, <1>7

LEMMA PlacedArrive ==
  ASSUME PlaceInv, TypeInv', NEW i \in DOMAIN net, Arrive(i)
  PROVE  PlaceInv'
<1>1. IsNet(net) /\ Placed(net, logs, recent)
  BY DEF PlaceInv, TypeInv, SpinInv
<1>2. IsNet(Rest(i)) /\ Placed(Rest(i), logs, recent)
  BY <1>1, PlacedRest DEF Rest
<1>3. ASSUME UNCHANGED server,
             NEW u, NEW p, NEW sel, NEW fresh, Render(u, p, sel, fresh, Rest(i))
      PROVE  PlaceInv'
  <2>1. selected' = sel /\ logs' = logs
    BY <1>3 DEF Render, server
  <2>2. sel \in Copies(logs) \cup {None}
    BY <2>1 DEF TypeInv, PageTyped
  <2> QED
    BY <1>2, <1>3, <2>2, PlacedRender
<1>4. ASSUME UNCHANGED server,
             NEW s, NEW t, NEW u, NEW p, SetAccount(s, t, u, p, Rest(i))
      PROVE  PlaceInv'
  BY <1>2, <1>4, PlacedAccount
<1>5. CASE ArriveVerified(i)
  <2>1. UNCHANGED server
    BY <1>5 DEF ArriveVerified
  <2>2. CASE net' = Rest(i) /\ UNCHANGED box
    <3>1. UNCHANGED <<shown, current, server>>
      BY <2>1, <2>2 DEF box
    <3> QED
      BY <1>2, <2>2, <3>1, PlacedStill
  <2> QED
    BY <1>4, <1>5, <2>1, <2>2 DEF ArriveVerified
<1>6. CASE ArriveUser(i)
  BY <1>4, <1>6 DEF ArriveUser
<1>7. CASE ArriveLogin(i)
  BY <1>4, <1>7 DEF ArriveLogin
<1>8. CASE ArriveNothing(i)
  <2>1. net' = Rest(i) /\ UNCHANGED <<shown, current, server>>
    BY <1>8 DEF ArriveNothing, Bad, box
  <2> QED
    BY <1>2, <2>1, PlacedStill
<1>9. CASE ArriveChats(i)
  BY <1>3, <1>9 DEF ArriveChats
<1>10. CASE ArriveNewChat(i)
  BY <1>3, <1>10 DEF ArriveNewChat
<1>11. CASE ArriveDeleted(i)
  <2>1. /\ UNCHANGED server
        /\ \E sel, fresh : Render(user, page, sel, fresh, Rest(i))
    BY <1>11 DEF ArriveDeleted, Ok
  <2> QED
    BY <1>3, <2>1
<1>12. CASE ArriveOpened(i)
  BY <1>3, <1>12 DEF ArriveOpened
<1> QED
  BY <1>5, <1>6, <1>7, <1>8, <1>9, <1>10, <1>11, <1>12, PlacedAnswer DEF Arrive

LEMMA PlacedLose ==
  ASSUME PlaceInv, TypeInv', NEW i \in DOMAIN net, LoseRequest(i)
  PROVE  PlaceInv'
<1>1. PICK x \in {"failed", "lost"} :
        net' = [net EXCEPT ![i].status = x, ![i].reply = None] /\ UNCHANGED <<box, server>>
  BY DEF LoseRequest
<1>2. PICK lg, rc : lg = logs /\ rc = recent
  OBVIOUS
<1>3. /\ shown' = shown /\ current' = current /\ logs' = lg /\ recent' = rc
      /\ LastPlaced(shown, current, lg, rc) /\ Placed(net, lg, rc)
  BY <1>1, <1>2 DEF box, server, PlaceInv
<1>4. DOMAIN net' = DOMAIN net
  BY <1>1
<1>5. ASSUME NEW j \in DOMAIN net, net'[j].kind = "ask" PROVE Answering(net'[j], lg, rc)
  <2>1. IsRequest(net[j])
    BY DEF PlaceInv, TypeInv, SpinInv, IsNet
  <2>2. PICK a, b : a = net[j] /\ b = net'[j]
    OBVIOUS
  <2>3. CASE j = i
    <3>1. b = [[a EXCEPT !.status = x] EXCEPT !.reply = None]
      BY <1>1, <2>2, <2>3
    <3>2. b.status = x
      BY <2>1, <2>2, <3>1 DEF IsRequest, Fields
    <3> QED BY <2>2, <3>2 DEF Answering
  <2>4. CASE j # i
    BY <1>1, <1>3, <1>5, <2>4 DEF Placed
  <2> QED
    BY <2>3, <2>4
<1>6. Placed(net', lg, rc)
  BY <1>4, <1>5 DEF Placed
<1> QED
  BY <1>3, <1>6 DEF PlaceInv

LEMMA PlacedInit == Init => PlaceInv
<1> SUFFICES ASSUME Init PROVE PlaceInv
  OBVIOUS
<1>1. TypeInv
  BY TypedInit
<1>2. shown = <<>> /\ net = VerifyAuth(stored)
  BY DEF Init
<1>3. LastPlaced(shown, current, logs, recent)
  BY <1>2 DEF LastPlaced
<1>4. \A i \in DOMAIN net : net[i].kind # "ask"
  <2>1. PICK q : q = net
    OBVIOUS
  <2>2. \/ stored = None /\ q = <<>>
        \/ Len(q) = 1 /\ q[1].kind = "verify" /\ q[1].tok = stored
    <3>1. q = VerifyAuth(stored)
      BY <1>2, <2>1
    <3> QED
      BY <3>1, VerifyNet
  <2>3. IsNet(q)
    BY <1>1, <2>1 DEF TypeInv, SpinInv
  <2>4. DOMAIN q = 1..Len(q)
    BY <2>3, NetLen
  <2>5. CASE q = <<>>
    BY <2>1, <2>5
  <2>6. CASE Len(q) = 1 /\ q[1].kind = "verify"
    <3>1. \A i \in DOMAIN q : i = 1
      BY <2>4, <2>6
    <3> QED
      BY <2>1, <2>6, <3>1
  <2> QED
    BY <2>2, <2>5, <2>6
<1> QED
  BY <1>1, <1>3, <1>4 DEF PlaceInv, Placed

LEMMA PlacedNext == PlaceInv /\ [Next]_vars => PlaceInv'
<1> SUFFICES ASSUME PlaceInv, [Next]_vars PROVE PlaceInv'
  OBVIOUS
<1>1. TypeInv'
  BY TypedNext DEF PlaceInv
<1>2. CASE UNCHANGED vars
  <2>1. shown' = shown /\ current' = current /\ logs' = logs /\ recent' = recent /\ net' = net
    BY <1>2 DEF vars, box, server
  <2> QED
    BY <1>1, <2>1 DEF PlaceInv
<1> QED
  BY <1>1, <1>2, PlacedActs, PlacedServe, PlacedArrive, PlacedLose DEF Next, Network

\* Whatever the user opens, creates, deletes or leaves while an answer is on its way, and
\* whichever requests are lost: the next question goes to the chat that has the last answer
\* on the screen, unless that chat has been deleted.
THEOREM AnswersStayInPlace == Spec => []AnswersInPlace
<1>1. PlaceInv => AnswersInPlace
  <2> SUFFICES ASSUME PlaceInv, NEW j \in DOMAIN shown, LastAnswer(shown, j)
               PROVE  StoredHere(shown[j].ask)
    BY DEF AnswersInPlace, LastAnswer
  <2>1. current # None /\ Holds(logs, recent, current, shown[j].ask)
    BY DEF PlaceInv, LastPlaced
  <2>2. Exists(current) <=> Kept(recent, current)
    BY KeptExists DEF PlaceInv, TypeInv
  <2> QED
    BY <2>1, <2>2 DEF Holds, Says, StoredHere
<1> QED
  BY <1>1, PlacedInit, PlacedNext, PTL DEF Spec

-----------------------------------------------------------------------------
\* The sidebar.  L is what the server has for the user, q what is in flight.

Has(L, c) == \E k \in DOMAIN L : L[k].id = c

\* Either reads only: one of the list is to come or the list is there, ...
Ready(r, u, L) ==
  /\ r.kind \in Reads /\ r.tok = u
  /\ r.status \in {"sent", "ok"} \/ r.kind = "open"
  /\ r.status = "ok" /\ r.kind = "list" => r.reply = L
  /\ r.status = "ok" /\ r.kind = "open" =>
       r.reply.id = r.chat /\ \E k \in DOMAIN L : L[k] = r.reply
Fetches(q) == \E i \in DOMAIN q : q[i].kind = "list"
Chooses(q) == \E i \in DOMAIN q : q[i].kind = "list" /\ q[i].sel = None

Reading(q, u, sel, list, L) ==
  /\ \A i \in DOMAIN q : Ready(q[i], u, L)
  /\ sel # None => Has(L, sel.id)
  /\ list = L \/ Fetches(q)
  /\ sel = None => L = <<>> \/ Chooses(q)

\* ... or one request, sent by a page that was up to date.
Only(q, k, u) == Len(q) = 1 /\ q[1].kind = k /\ q[1].tok = u
UpToDate(sel, list, L) == list = L /\ (sel = None => L = <<>>) /\ (sel # None => Has(L, sel.id))

Creating(q, u, sel, list, L) ==
  /\ Only(q, "create", u)
  /\ \/ q[1].status = "sent" /\ UpToDate(sel, list, L)
     \/ q[1].status = "ok" /\ L = <<q[1].reply>> \o list

Deleting(q, u, sel, list, L) ==
  /\ Only(q, "delete", u) /\ q[1].sel = sel /\ q[1].list = list
  /\ \/ q[1].status = "sent" /\ UpToDate(sel, list, L) /\ Has(L, q[1].chat)
     \/ /\ q[1].status = "ok" /\ L = Without(list, q[1].chat)
        /\ sel = None => L = <<>>
        /\ sel # None => sel.id = q[1].chat \/ Has(L, sel.id)

Asking(q, u, sel, list, L) ==
  /\ Only(q, "ask", u) /\ q[1].sel = sel
  /\ sel # None => Has(L, sel.id)
  /\ \/ q[1].status = "sent" /\ UpToDate(sel, list, L)
     \/ q[1].status = "ok" /\ q[1].reply # None

Tidy(q, u, sel, list, L) ==
  \/ Reading(q, u, sel, list, L) \/ Creating(q, u, sel, list, L)
  \/ Deleting(q, u, sel, list, L) \/ Asking(q, u, sel, list, L)

Own == ListOf(recent, owner, logs, user)

Entering == Len(net) = 1 /\ net[1].kind = "login"
Blank ==
  /\ user = None /\ chats = <<>> /\ selected = None
  /\ Len(net) = 0 \/ Verifying \/ Entering

Signed == user # None /\ Tidy(net, user, selected, chats, Own)

ListInv == TypeInv /\ AccountInv /\ (mishaps = 0 => Blank \/ Signed)

\* A chat deleted leaves the list.
LEMMA ListDelete ==
  ASSUME NEW D, NEW rc \in Seq(D), NEW ow, NEW lg, NEW u, NEW c
  PROVE  ListOf(At(rc, Others(rc, c)), ow, lg, u) = Without(ListOf(rc, ow, lg, u), c)
<1> DEFINE n == Len(rc)
           A == Others(rc, c)
           B == OwnedAt(rc, ow, u)
<1>1. n \in Nat /\ DOMAIN rc = 1..n /\ A \in SUBSET (1..n) /\ B \in SUBSET (1..n)
  BY DEF Others, OwnedAt
<1>2. \A i \in 1..n : (i \in A <=> rc[i] # c) /\ (i \in B <=> ow[rc[i]] = u)
  BY <1>1 DEF Others, OwnedAt
<1> HIDE DEF n, A, B
<1>3. PICK m, f : Enumerates(f, m, A) /\ At(rc, A) = Along(rc, f, m)
  BY <1>1, AtHas
<1>4. PICK m2, f2 : Enumerates(f2, m2, B) /\ At(rc, B) = Along(rc, f2, m2)
  BY <1>1, AtHas
<1>5. PICK t, own : t = At(rc, A) /\ own = At(rc, B)
  OBVIOUS
<1>6. m \in Nat /\ DOMAIN t = 1..m /\ \A k \in 1..m : t[k] = rc[f[k]] /\ f[k] \in A
  BY <1>3, <1>5 DEF Along, Enumerates
<1>7. m2 \in Nat /\ DOMAIN own = 1..m2 /\ \A k \in 1..m2 : own[k] = rc[f2[k]] /\ f2[k] \in B
  BY <1>4, <1>5 DEF Along, Enumerates
<1>8. PICK L : L = Items(lg, own)
  OBVIOUS
<1>9. DOMAIN L = 1..m2 /\ \A k \in 1..m2 : L[k] = Item(lg, rc[f2[k]]) /\ L[k].id = rc[f2[k]]
  BY <1>7, <1>8 DEF Items, Item
<1> DEFINE Q == OwnedAt(t, ow, u)
           Q2 == {k \in DOMAIN L : L[k].id # c}
<1>10. Q \in SUBSET (1..m) /\ \A k \in 1..m : k \in Q <=> f[k] \in B
  <2>1. Q \in SUBSET (1..m)
    BY <1>6 DEF OwnedAt
  <2>2. ASSUME NEW k \in 1..m PROVE k \in Q <=> f[k] \in B
    <3>1. t[k] = rc[f[k]] /\ f[k] \in 1..n
      BY <1>1, <1>6
    <3>2. k \in Q <=> ow[t[k]] = u
      BY <1>6 DEF OwnedAt
    <3> QED
      BY <1>2, <3>1, <3>2
  <2> QED
    BY <2>1, <2>2
<1>11. Q2 \in SUBSET (1..m2) /\ \A k \in 1..m2 : k \in Q2 <=> f2[k] \in A
  <2>1. ASSUME NEW k \in 1..m2 PROVE k \in Q2 <=> f2[k] \in A
    <3>1. L[k].id = rc[f2[k]] /\ f2[k] \in 1..n
      BY <1>1, <1>7, <1>9
    <3> QED
      BY <1>2, <1>9, <3>1
  <2> QED
    BY <1>9, <2>1
<1> HIDE DEF Q, Q2
<1>12. PICK l, g : Enumerates(g, l, Q) /\ At(t, Q) = Along(t, g, l)
  BY <1>6, <1>10, AtHas
<1>13. PICK l2, g2 : Enumerates(g2, l2, Q2) /\ At(L, Q2) = Along(L, g2, l2)
  BY <1>7, <1>11, AtHas
<1>14. {f[q] : q \in Q} = A \cap B
  <2>1. \A p \in A : \E k \in 1..m : f[k] = p
    BY <1>3 DEF Enumerates
  <2> QED
    BY <1>6, <1>10, <2>1
<1>15. {f2[q] : q \in Q2} = A \cap B
  <2>1. \A p \in B : \E k \in 1..m2 : f2[k] = p
    BY <1>4 DEF Enumerates
  <2> QED
    BY <1>7, <1>11, <2>1
<1>16. A \in SUBSET Nat /\ B \in SUBSET Nat
  BY <1>1
<1>17. PICK h, h2 : h = Along(f, g, l) /\ h2 = Along(f2, g2, l2)
  OBVIOUS
<1>18. Enumerates(h, l, A \cap B)
  <2>1. Enumerates(Along(f, g, l), l, {f[q] : q \in Q})
    BY <1>3, <1>10, <1>12, <1>16, EnumCompose
  <2> QED
    BY <1>14, <1>17, <2>1
<1>19. Enumerates(h2, l2, A \cap B)
  <2>1. Enumerates(Along(f2, g2, l2), l2, {f2[q] : q \in Q2})
    BY <1>4, <1>11, <1>13, <1>16, EnumCompose
  <2> QED
    BY <1>15, <1>17, <2>1
<1>20. l = l2 /\ h = h2
  <2>1. A \cap B \in SUBSET Nat
    BY <1>16
  <2>2. Cardinality(A \cap B) = l /\ Cardinality(A \cap B) = l2
    BY <1>18, <1>19, <2>1, EnumCard
  <2> QED
    BY <1>18, <1>19, <2>1, <2>2, EnumUnique
<1>21. l \in Nat /\ \A k \in 1..l : /\ g[k] \in 1..m /\ g2[k] \in 1..m2
                                   /\ f[g[k]] = f2[g2[k]]
  <2>1. l \in Nat /\ g \in [1..l -> Q] /\ g2 \in [1..l -> Q2]
    BY <1>12, <1>13, <1>20 DEF Enumerates
  <2>2. \A k \in 1..l : h[k] = f[g[k]] /\ h2[k] = f2[g2[k]]
    BY <1>17, <1>20 DEF Along
  <2> QED
    BY <1>10, <1>11, <1>20, <2>1, <2>2
<1>22. Items(lg, At(t, Q)) = [k \in 1..l |-> Item(lg, rc[f[g[k]]])]
  <2>1. PICK s : s = At(t, Q)
    OBVIOUS
  <2>2. DOMAIN s = 1..l /\ \A k \in 1..l : s[k] = rc[f[g[k]]]
    BY <1>6, <1>12, <1>21, <2>1 DEF Along
  <2> QED
    BY <2>1, <2>2 DEF Items
<1>23. At(L, Q2) = [k \in 1..l |-> Item(lg, rc[f2[g2[k]]])]
  BY <1>9, <1>13, <1>20, <1>21 DEF Along
<1>24. Items(lg, At(t, Q)) = At(L, Q2)
  BY <1>21, <1>22, <1>23
<1>25. ListOf(At(rc, A), ow, lg, u) = Items(lg, At(t, Q))
  BY <1>5 DEF ListOf, Q
<1>26. Without(ListOf(rc, ow, lg, u), c) = At(L, Q2)
  BY <1>5, <1>8 DEF ListOf, Without, Q2, B
<1> QED
  BY <1>24, <1>25, <1>26 DEF A

LEMMA ListFacts ==
  ASSUME NEW ow, NEW lg, NEW rc, ServerTyped(ow, lg, rc), NEW u, NEW l, l = ListOf(rc, ow, lg, u)
  PROVE  /\ l \in Seq(Copies(lg)) /\ \E n \in Nat : DOMAIN l = 1..n
         /\ \A c : Has(l, c) <=> Kept(rc, c) /\ ow[c] = u
         /\ \A c : Has(l, c) => \E k \in DOMAIN l : l[k] = Item(lg, c)
         /\ \A j, k \in DOMAIN l : l[j].id = l[k].id => l[j] = l[k]
<1> DEFINE D == DOMAIN lg
<1>1. rc \in Seq(D)
  BY DEF ServerTyped
<1> HIDE DEF D
<1>2. /\ \E n \in Nat : DOMAIN l = 1..n
      /\ \A k \in DOMAIN l : \E i \in DOMAIN rc : ow[rc[i]] = u /\ l[k] = Item(lg, rc[i])
      /\ \A i \in DOMAIN rc : ow[rc[i]] = u => \E k \in DOMAIN l : l[k] = Item(lg, rc[i])
  BY <1>1, ListHas
<1>3. \A c : Item(lg, c).id = c
  BY DEF Item
<1>4. ASSUME NEW c, Has(l, c) PROVE Kept(rc, c) /\ ow[c] = u /\ \E k \in DOMAIN l : l[k] = Item(lg, c)
  BY <1>2, <1>3, <1>4 DEF Has, Kept
<1>5. ASSUME NEW c, Kept(rc, c), ow[c] = u PROVE Has(l, c)
  <2>1. PICK i \in DOMAIN rc : rc[i] = c
    BY <1>5 DEF Kept
  <2>2. PICK k \in DOMAIN l : l[k] = Item(lg, c)
    BY <1>2, <1>5, <2>1
  <2> QED
    BY <1>3, <2>2 DEF Has
<1>6. \A j \in DOMAIN l : l[j] = Item(lg, l[j].id)
  BY <1>2, <1>3
<1>7. l \in Seq(Copies(lg))
  BY ListTyped
<1> QED
  BY <1>2, <1>4, <1>5, <1>6, <1>7

LEMMA HeadHas ==
  ASSUME NEW S, NEW l \in Seq(S), l # <<>>
  PROVE  Head(l) \in S /\ Has(l, Head(l).id)
<1>1. 1 \in DOMAIN l /\ Head(l) = l[1] /\ l[1] \in S
  OBVIOUS
<1> QED
  BY <1>1 DEF Has

LEMMA ConsHas ==
  ASSUME NEW S, NEW l \in Seq(S), NEW x \in S
  PROVE  /\ Has(<<x>> \o l, x.id) /\ \A c : Has(l, c) => Has(<<x>> \o l, c)
<1>1. PICK m : m = <<x>> \o l
  OBVIOUS
<1>2. /\ DOMAIN m = 1..(Len(l) + 1) /\ Len(l) \in Nat /\ DOMAIN l = 1..Len(l)
      /\ m[1] = x /\ \A k \in 1..Len(l) : m[k + 1] = l[k]
  BY <1>1
<1>3. 1 \in DOMAIN m /\ \A k \in DOMAIN l : k + 1 \in DOMAIN m
  BY <1>2
<1> QED
  BY <1>1, <1>2, <1>3 DEF Has

\* Requests that differ in no more than whether the ChatBox is still there.
Same(q, n) ==
  /\ Len(n) = Len(q) /\ DOMAIN n = DOMAIN q
  /\ \A i \in DOMAIN q :
       /\ n[i].kind = q[i].kind /\ n[i].tok = q[i].tok /\ n[i].chat = q[i].chat
       /\ n[i].sel = q[i].sel /\ n[i].list = q[i].list
       /\ n[i].status = q[i].status /\ n[i].reply = q[i].reply

LEMMA RenderSame ==
  ASSUME NEW u, NEW p, NEW sel, NEW fresh, NEW q, IsNet(q), Render(u, p, sel, fresh, q)
  PROVE  Same(q, net') /\ user' = u /\ selected' = sel
<1>1. user' = u /\ selected' = sel /\ (net' = q \/ net' = Detached(q))
  BY DEF Render
<1>2. ASSUME NEW i \in DOMAIN q
      PROVE  /\ Detached(q)[i].kind = q[i].kind /\ Detached(q)[i].tok = q[i].tok
             /\ Detached(q)[i].chat = q[i].chat
             /\ Detached(q)[i].sel = q[i].sel /\ Detached(q)[i].list = q[i].list
             /\ Detached(q)[i].status = q[i].status /\ Detached(q)[i].reply = q[i].reply
  <2>1. Detached(q)[i] = [q[i] EXCEPT !.live = FALSE] /\ IsRequest(q[i])
    BY DEF Detached, IsNet
  <2> QED
    BY <2>1 DEF IsRequest, Fields
<1>3. Same(q, Detached(q))
  BY <1>2, DetachedNet DEF Same
<1>4. Same(q, q)
  BY DEF Same
<1> QED
  BY <1>1, <1>3, <1>4

LEMMA OnlyFirst ==
  ASSUME NEW q, IsNet(q), NEW k, NEW u, Only(q, k, u)
  PROVE  1 \in DOMAIN q /\ \A i \in DOMAIN q : i = 1
<1>1. DOMAIN q = 1..Len(q)
  BY NetLen
<1> QED
  BY <1>1 DEF Only

LEMMA TidySame ==
  ASSUME NEW q, IsNet(q), NEW n, Same(q, n), NEW u, NEW sel, NEW list, NEW L,
         Tidy(q, u, sel, list, L)
  PROVE  Tidy(n, u, sel, list, L)
<1>1. ASSUME Reading(q, u, sel, list, L) PROVE Reading(n, u, sel, list, L)
  <2>1. \A i \in DOMAIN n : Ready(n[i], u, L)
    BY <1>1 DEF Reading, Same, Ready
  <2>2. (Fetches(q) => Fetches(n)) /\ (Chooses(q) => Chooses(n))
    BY DEF Same, Fetches, Chooses
  <2> QED
    BY <1>1, <2>1, <2>2 DEF Reading
<1>2. ASSUME Creating(q, u, sel, list, L) PROVE Creating(n, u, sel, list, L)
  <2>1. 1 \in DOMAIN q
    BY <1>2, OnlyFirst DEF Creating
  <2> QED
    BY <1>2, <2>1 DEF Creating, Only, Same
<1>3. ASSUME Deleting(q, u, sel, list, L) PROVE Deleting(n, u, sel, list, L)
  <2>1. 1 \in DOMAIN q
    BY <1>3, OnlyFirst DEF Deleting
  <2> QED
    BY <1>3, <2>1 DEF Deleting, Only, Same
<1>4. ASSUME Asking(q, u, sel, list, L) PROVE Asking(n, u, sel, list, L)
  <2>1. 1 \in DOMAIN q
    BY <1>4, OnlyFirst DEF Asking
  <2> QED
    BY <1>4, <2>1 DEF Asking, Only, Same
<1> QED
  BY <1>1, <1>2, <1>3, <1>4 DEF Tidy

\* The page renders, with nothing new from the server.
LEMMA ListRender ==
  ASSUME UNCHANGED server, NEW u, u # None, NEW p, NEW sel, NEW fresh, NEW q, IsNet(q),
         Render(u, p, sel, fresh, q), NEW L, L = ListOf(recent, owner, logs, u),
         Tidy(q, u, sel, chats', L)
  PROVE  Signed'
<1>1. Same(q, net') /\ user' = u /\ selected' = sel
  BY RenderSame
<1>2. PICK l : l = chats'
  OBVIOUS
<1>3. Tidy(net', u, sel, l, L)
  BY <1>1, <1>2, TidySame
<1>4. Own' = L
  BY <1>1 DEF Own, server
<1> QED
  BY <1>1, <1>2, <1>3, <1>4 DEF Signed

\* A page on which nothing but reads is in flight.
LEMMA TidyReads ==
  ASSUME NEW q, IsNet(q), NEW u, NEW sel, NEW list, NEW L, Tidy(q, u, sel, list, L),
         \A i \in DOMAIN q : q[i].kind \in Reads
  PROVE  Reading(q, u, sel, list, L)
<1>1. ASSUME NEW k, Only(q, k, u) PROVE k \in Reads
  BY <1>1, OnlyFirst DEF Only
<1> QED
  BY <1>1 DEF Tidy, Creating, Deleting, Asking, Reads

LEMMA ReadsNone ==
  ASSUME NEW q, DOMAIN q = {}, NEW u, NEW sel, NEW list, NEW L, Reading(q, u, sel, list, L)
  PROVE  UpToDate(sel, list, L)
  BY DEF Reading, Fetches, Chooses, UpToDate

LEMMA ReadsAppend ==
  ASSUME NEW q, IsNet(q), NEW u, NEW sel, NEW list, NEW L, Reading(q, u, sel, list, L),
         NEW r, IsRequest(r), r.kind \in Reads, r.tok = u, r.status = "sent"
  PROVE  Reading(Append(q, r), u, sel, list, L)
<1>1. PICK m, n : m = Append(q, r) /\ n = Len(q) + 1
  OBVIOUS
<1>2. /\ m[n] = r /\ \A i \in DOMAIN q : i \in DOMAIN m /\ m[i] = q[i]
      /\ \A i \in DOMAIN m : i \in DOMAIN q \/ i = n
  <2>1. /\ IsNet(m) /\ Len(m) = Len(q) + 1 /\ m[n] = r /\ \A i \in DOMAIN q : m[i] = q[i]
    BY <1>1, NetAppend
  <2>2. DOMAIN q = 1..Len(q) /\ DOMAIN m = 1..(Len(q) + 1) /\ Len(q) \in Nat
    BY <2>1, NetLen
  <2> QED
    BY <1>1, <2>1, <2>2
<1>3. Ready(r, u, L)
  BY DEF Ready
<1>4. \A i \in DOMAIN m : Ready(m[i], u, L)
  BY <1>2, <1>3 DEF Reading
<1>5. (Fetches(q) => Fetches(m)) /\ (Chooses(q) => Chooses(m))
  BY <1>2 DEF Fetches, Chooses
<1> QED
  BY <1>1, <1>4, <1>5 DEF Reading

\* Whatever leaves, the others stay.
LEMMA RestKeeps ==
  ASSUME NEW q, IsNet(q), NEW i \in DOMAIN q, NEW s, s = RemoveAt(q, i)
  PROVE  /\ IsNet(s) /\ Len(s) = Len(q) - 1
         /\ \A j \in DOMAIN s : \E k \in DOMAIN q : s[j] = q[k]
         /\ \A k \in DOMAIN q : k # i => \E j \in DOMAIN s : s[j] = q[k]
<1> DEFINE at(j) == IF j < i THEN j ELSE j + 1
<1>1. /\ IsNet(s) /\ Len(s) = Len(q) - 1
      /\ \A j \in DOMAIN s : at(j) \in DOMAIN q /\ s[j] = q[at(j)]
  BY NetRest
<1>2. /\ Len(q) \in Nat /\ DOMAIN q = 1..Len(q) /\ DOMAIN s = 1..(Len(q) - 1)
      /\ i \in 1..Len(q)
  BY <1>1, NetLen
<1>3. ASSUME NEW k \in DOMAIN q, k # i PROVE \E j \in DOMAIN s : at(j) = k
  <2>1. CASE k < i
    <3>1. k \in DOMAIN s /\ at(k) = k
      BY <1>2, <2>1
    <3> QED
      BY <3>1
  <2>2. CASE ~ (k < i)
    <3>1. k - 1 \in DOMAIN s /\ at(k - 1) = k
      BY <1>2, <1>3, <2>2
    <3> QED
      BY <3>1
  <2> QED
    BY <2>1, <2>2
<1> HIDE DEF at
<1> QED
  BY <1>1, <1>3

\* A page at rest, or one that waits for a single request.
LEMMA TidyRest ==
  ASSUME NEW q, IsNet(q), Len(q) = 0, NEW u, NEW sel, NEW list, NEW L,
         Tidy(q, u, sel, list, L)
  PROVE  UpToDate(sel, list, L)
<1>1. DOMAIN q = {}
  BY NetLen
<1>2. Reading(q, u, sel, list, L)
  BY <1>1, TidyReads
<1> QED
  BY <1>1, <1>2, ReadsNone

\* The account of a page that displays a user.
LEMMA UserSettled ==
  ASSUME AccountInv, mishaps = 0, user # None
  PROVE  user = token /\ token = stored
  BY DEF AccountInv, Uncrossed, Verifying, SigningIn, Settled

LEMMA ListActs ==
  ASSUME TypeInv, AccountInv, AccountInv', mishaps = 0, mishaps' = 0, Blank \/ Signed, Acts
  PROVE  Blank' \/ Signed'
<1>1. IsNet(net) /\ DOMAIN net = 1..Len(net) /\ Len(net) \in Nat
  <2>1. IsNet(net)
    BY DEF TypeInv, SpinInv
  <2> QED BY <2>1, NetLen
<1>2. Len(<<>>) = 0
  OBVIOUS
<1>3. ASSUME Hurry({}) PROVE Len(net) = 0
  <2>1. \A i \in DOMAIN net : net[i].kind \in {}
    BY <1>3, Hurried DEF AccountInv
  <2> QED BY <1>1, <2>1
<1>4. ASSUME user # None PROVE Tidy(net, user, selected, chats, Own) /\ user = token
  BY <1>4, UserSettled DEF Blank, Signed
<1>5. ASSUME UNCHANGED <<user, chats, selected, server>> PROVE Own' = Own
  BY <1>5 DEF Own, server
<1>6. ASSUME NEW r, Len(net) = 0, IsRequest(r), net' = Append(net, r)
      PROVE  Len(net') = 1 /\ net'[1] = r
  BY <1>1, <1>6, NetAppend
<1>7. ASSUME NEW u \in Users, Login(u) PROVE Blank'
  <2>1. PICK r : r = Request("login", u)
    OBVIOUS
  <2>2. IsRequest(r) /\ r.kind = "login"
    BY <2>1, MakesPlain DEF Made
  <2>3. /\ Len(net) = 0 /\ net' = Append(net, r) /\ (user = None \/ page = "login")
        /\ user' = user /\ chats' = chats /\ selected' = selected
    BY <1>3, <1>7, <2>1 DEF Login, Crossing, Start, account, lists
  <2>4. Len(net') = 1 /\ net'[1] = r
    BY <1>6, <2>2, <2>3
  <2>5. user = None
    BY <2>3, UserSettled DEF AccountInv
  <2>6. chats = <<>> /\ selected = None
    BY <2>5 DEF Blank, Signed
  <2> QED
    BY <2>2, <2>3, <2>4, <2>5, <2>6 DEF Blank, Entering
<1>8. CASE Logout
  <2>1. chats' = <<>> /\ Render(None, "login", None, TRUE, net) /\ Len(net) = 0
    BY <1>3, <1>8 DEF Logout, Crossing
  <2>2. Same(net, net') /\ user' = None /\ selected' = None
    BY <1>1, <2>1, RenderSame
  <2> QED
    BY <2>1, <2>2 DEF Blank, Same
<1>9. CASE Reload
  <2>1. /\ net' = VerifyAuth(stored) /\ user' = None /\ chats' = <<>> /\ selected' = None
        /\ stored' = stored /\ token' = stored
    BY <1>9 DEF Reload
  <2>2. PICK q : q = VerifyAuth(stored)
    OBVIOUS
  <2>3. \/ stored = None /\ q = <<>>
        \/ Len(q) = 1 /\ q[1].kind = "verify" /\ q[1].tok = stored
    BY <2>2, VerifyNet
  <2> QED
    BY <1>2, <2>1, <2>2, <2>3 DEF Blank, Verifying
<1>10. ASSUME NEW p \in {"chat", "other"}, Visit(p) PROVE Signed'
  <2>1. /\ user # None /\ Render(user, p, selected, FALSE, net) /\ chats' = chats /\ UNCHANGED server
    BY <1>10 DEF Visit
  <2>2. PICK u, L : u = user /\ L = Own
    OBVIOUS
  <2> QED
    BY <1>1, <1>4, <2>1, <2>2, ListRender DEF Own
<1>11. CASE NewChat
  <2>1. PICK r : r = Request("create", token)
    OBVIOUS
  <2>2. IsRequest(r) /\ r.kind = "create" /\ r.tok = token /\ r.status = "sent"
    <3>1. Made(r, "create", token)
      BY <2>1, MakesPlain
    <3> QED
      BY <3>1 DEF Made
  <2>3. /\ user # None /\ Len(net) = 0 /\ net' = Append(net, r)
        /\ UNCHANGED <<user, chats, selected, server>>
    BY <1>3, <1>11, <2>1 DEF NewChat, Beside, Start, account, lists
  <2>4. UpToDate(selected, chats, Own)
    BY <1>1, <1>4, <2>3, TidyRest
  <2>5. Creating(net', user, selected, chats, Own)
    BY <1>4, <1>6, <2>2, <2>3, <2>4 DEF Creating, Only
  <2> QED
    BY <1>5, <2>3, <2>5 DEF Signed, Tidy
<1>12. ASSUME NEW c \in DOMAIN owner, OpenChat(c) PROVE Signed'
  <2>1. PICK r : r = [Request("open", token) EXCEPT !.chat = c]
    OBVIOUS
  <2>2. Made(r, "open", token)
    BY <2>1, Makes
  <2>3. /\ Hurry(Reads) /\ user # None /\ Render(user, "chat", selected, FALSE, Append(net, r))
        /\ chats' = chats /\ UNCHANGED server
    BY <1>12, <2>1 DEF OpenChat, Beside
  <2>4. Reading(net, user, selected, chats, Own)
    <3>1. \A i \in DOMAIN net : net[i].kind \in Reads
      BY <2>3, Hurried DEF AccountInv
    <3> QED
      BY <1>1, <1>4, <2>3, <3>1, TidyReads
  <2>5. IsRequest(r) /\ r.kind \in Reads /\ r.tok = user /\ r.status = "sent"
    BY <1>4, <2>2, <2>3 DEF Made, Reads
  <2>6. Reading(Append(net, r), user, selected, chats, Own)
    BY <1>1, <2>4, <2>5, ReadsAppend
  <2>7. IsNet(Append(net, r))
    BY <1>1, <2>5, NetAppend
  <2>8. Tidy(Append(net, r), user, selected, chats', Own)
    BY <2>3, <2>6 DEF Tidy
  <2>9. PICK u, L, q : u = user /\ L = Own /\ q = Append(net, r)
    OBVIOUS
  <2> QED
    BY <2>3, <2>7, <2>8, <2>9, ListRender DEF Own
<1>13. ASSUME NEW c \in DOMAIN owner, DeleteChat(c) PROVE Signed'
  <2>1. PICK r : r = [Request("delete", token) EXCEPT !.chat = c, !.sel = selected, !.list = chats]
    OBVIOUS
  <2>2. Made(r, "delete", token) /\ r.chat = c /\ r.sel = selected /\ r.list = chats
    <3>1. Made(r, "delete", token)
      BY <2>1, Makes
    <3> QED
      BY <2>1, <3>1 DEF Request
  <2>3. /\ user # None /\ Len(net) = 0 /\ net' = Append(net, r) /\ Has(chats, c)
        /\ UNCHANGED <<user, chats, selected, server>>
    BY <1>3, <1>13, <2>1 DEF DeleteChat, Beside, Start, account, lists, Has
  <2>4. UpToDate(selected, chats, Own)
    BY <1>1, <1>4, <2>3, TidyRest
  <2>5. Deleting(net', user, selected, chats, Own)
    BY <1>4, <1>6, <2>2, <2>3, <2>4 DEF Deleting, Only, Made, UpToDate
  <2> QED
    BY <1>5, <2>3, <2>5 DEF Signed, Tidy
<1>14. CASE Submit
  <2>1. PICK r : r = [Request("ask", token) EXCEPT
                !.chat = current, !.ask = asked + 1, !.live = TRUE, !.sel = selected]
    OBVIOUS
  <2>2. /\ IsRequest(r) /\ r.kind = "ask" /\ r.tok = token /\ r.status = "sent"
        /\ r.sel = selected
    BY <2>1 DEF IsRequest, Fields, Request
  <2>3. /\ user # None /\ Len(net) = 0 /\ net' = Append(net, r)
        /\ UNCHANGED <<user, chats, selected, server>>
    BY <1>3, <1>14, <2>1 DEF Submit, Beside, Mounted, account, lists
  <2>4. UpToDate(selected, chats, Own)
    BY <1>1, <1>4, <2>3, TidyRest
  <2>5. Asking(net', user, selected, chats, Own)
    BY <1>4, <1>6, <2>2, <2>3, <2>4 DEF Asking, Only, UpToDate
  <2> QED
    BY <1>5, <2>3, <2>5 DEF Signed, Tidy
<1> QED
  BY <1>7, <1>8, <1>9, <1>10, <1>11, <1>12, <1>13, <1>14 DEF Acts

\* The collection as it is between two steps.
LEMMA OwnFacts ==
  ASSUME TypeInv
  PROVE  /\ Own \in Seq(Copies(logs)) /\ \E n \in Nat : DOMAIN Own = 1..n
         /\ \A c : Has(Own, c) <=> Kept(recent, c) /\ owner[c] = user
         /\ \A c : Has(Own, c) => \E k \in DOMAIN Own : Own[k] = Item(logs, c)
         /\ \A j, k \in DOMAIN Own : Own[j].id = Own[k].id => Own[j] = Own[k]
<1>1. PICK ow, lg, rc, u, l : /\ ow = owner /\ lg = logs /\ rc = recent /\ u = user
                              /\ l = ListOf(rc, ow, lg, u)
  OBVIOUS
<1>2. ServerTyped(ow, lg, rc) /\ Own = l
  BY <1>1 DEF TypeInv, Own
<1>3. /\ l \in Seq(Copies(lg)) /\ \E n \in Nat : DOMAIN l = 1..n
      /\ \A c : Has(l, c) <=> Kept(rc, c) /\ ow[c] = u
      /\ \A c : Has(l, c) => \E k \in DOMAIN l : l[k] = Item(lg, c)
      /\ \A j, k \in DOMAIN l : l[j].id = l[k].id => l[j] = l[k]
  BY <1>1, <1>2, ListFacts
<1> QED
  BY <1>1, <1>2, <1>3

LEMMA ListGrows ==
  ASSUME NEW ow, NEW lg, NEW rc, ServerTyped(ow, lg, rc), NEW u \in Users,
         NEW e \in Seq(Message), NEW n, n = Len(ow) + 1
  PROVE  ListOf(Ahead(n, rc), Append(ow, u), Append(lg, e), u) =
           Ahead(Entry(n, e), ListOf(rc, ow, lg, u))
<1> DEFINE M == Seq(Message)
           V == Users \cup {None}
           D == 1..Len(ow)
<1>1. ow \in Seq(V) /\ lg \in Seq(M) /\ Len(lg) = Len(ow) /\ rc \in Seq(D) /\ u \in V /\ e \in M
  <2>1. rc \in Seq(DOMAIN lg) /\ ow \in Seq(V) /\ lg \in Seq(M) /\ Len(lg) = Len(ow)
    BY DEF ServerTyped
  <2>2. DOMAIN lg = 1..Len(ow)
    BY ServerLen
  <2> QED
    BY <2>1, <2>2
<1> HIDE DEF M, V
<1> QED
  BY <1>1, ListCreate

\* A chat of the user is created, and heads the list.
LEMMA OwnCreated ==
  ASSUME TypeInv, user' = user, user \in Users, NEW e \in Seq(Message),
         owner' = Append(owner, user), logs' = Append(logs, e),
         recent' = <<Len(owner')>> \o recent
  PROVE  /\ Own' = Ahead(Entry(Len(owner'), e), Own)
         /\ \A c : Has(Own, c) => Has(Own', c)
<1>1. PICK ow, lg, rc, u : ow = owner /\ lg = logs /\ rc = recent /\ u = user
  OBVIOUS
<1>2. ServerTyped(ow, lg, rc) /\ u \in Users
  BY <1>1 DEF TypeInv
<1>3. PICK n, x, l : n = Len(ow) + 1 /\ x = Entry(n, e) /\ l = ListOf(rc, ow, lg, u)
  OBVIOUS
<1>4. Len(owner') = n
  BY <1>1, <1>2, <1>3, AppendLen
<1>5. ListOf(Ahead(n, rc), Append(ow, u), Append(lg, e), u) = Ahead(x, l)
  BY <1>2, <1>3, ListGrows
<1>6. \A c : Has(l, c) => Has(Ahead(x, l), c)
  <2> DEFINE T == Copies(lg)
             S == T \cup {x}
  <2>1. l \in Seq(T) /\ T \subseteq S /\ x \in S
    BY <1>2, <1>3, ListTyped
  <2> HIDE DEF S, T
  <2>2. l \in Seq(S)
    BY <2>1
  <2> QED
    BY <2>1, <2>2, ConsHas DEF Ahead
<1>7. Own' = Ahead(x, l) /\ Own = l
  BY <1>1, <1>3, <1>4, <1>5 DEF Own, Ahead
<1> QED
  BY <1>3, <1>4, <1>6, <1>7

\* An answered request, field by field.
LEMMA AnsweredField ==
  ASSUME NEW q, IsNet(q), NEW i \in DOMAIN q, NEW x, NEW y, NEW n, n = Answered(q, i, x, y)
  PROVE  /\ Len(n) = Len(q) /\ DOMAIN n = DOMAIN q
         /\ n[i].kind = q[i].kind /\ n[i].tok = q[i].tok /\ n[i].chat = q[i].chat
         /\ n[i].sel = q[i].sel /\ n[i].list = q[i].list
         /\ n[i].status = x /\ n[i].reply = y
         /\ \A j \in DOMAIN q : j # i => n[j] = q[j]
<1>1. /\ n[i] = [[q[i] EXCEPT !.status = x] EXCEPT !.reply = y] /\ IsRequest(q[i])
      /\ \A j \in DOMAIN q : j # i => n[j] = q[j]
  BY DEF Answered, IsNet
<1>2. Len(n) = Len(q) /\ DOMAIN n = DOMAIN q
  BY QuietAnswer
<1>3. /\ n[i].kind = q[i].kind /\ n[i].tok = q[i].tok /\ n[i].chat = q[i].chat
      /\ n[i].sel = q[i].sel /\ n[i].list = q[i].list
      /\ n[i].status = x /\ n[i].reply = y
  BY <1>1 DEF IsRequest, Fields
<1> QED
  BY <1>1, <1>2, <1>3

\* A read is answered with what there is.
LEMMA ListServeRead ==
  ASSUME TypeInv, NEW i \in DOMAIN net, ServeRead(i), user # None,
         Reading(net, user, selected, chats, Own)
  PROVE  Signed'
<1>1. IsNet(net)
  BY DEF TypeInv, SpinInv
<1>2. PICK x, y : Answer(i, x, y) /\ net' = Answered(net, i, x, y)
  BY DEF ServeRead, Answer, Answered
<1>3. PICK n, r : n = Answered(net, i, x, y) /\ r = net[i]
  OBVIOUS
<1>4. /\ Len(n) = Len(net) /\ DOMAIN n = DOMAIN net
      /\ n[i].kind = r.kind /\ n[i].tok = r.tok /\ n[i].chat = r.chat
      /\ n[i].sel = r.sel /\ n[i].status = x /\ n[i].reply = y
      /\ \A j \in DOMAIN net : j # i => n[j] = net[j]
  BY <1>1, <1>3, AnsweredField
<1>5. Own' = Own /\ user' = user /\ chats' = chats /\ selected' = selected
  BY <1>2 DEF ServeRead, Answer, server, account, lists, Own
<1>6. Ready(r, user, Own) /\ r.tok = user
  BY <1>3 DEF Reading, Ready
<1>7. Ready(n[i], user, Own)
  <2>1. CASE r.kind = "refresh"
    <3>1. x \in {"ok"}
      <4>1. net'[i].status = "ok"
        BY <1>1, <1>3, <2>1 DEF ServeRead, Sent, Answer, IsNet, IsRequest, Fields
      <4> QED
        BY <1>2, <1>3, <1>4, <4>1
    <3> QED
      BY <1>4, <1>6, <2>1, <3>1 DEF Ready
  <2>2. CASE r.kind = "list"
    <3>1. net'[i].status = "ok" /\ net'[i].reply = Listing(r.tok)
      BY <1>1, <1>3, <2>2 DEF ServeRead, Sent, Answer, IsNet, IsRequest, Fields
    <3>2. x = "ok" /\ y = Listing(user)
      BY <1>2, <1>3, <1>4, <1>6, <3>1
    <3>3. y = Own
      BY <3>2, ListingIs DEF Own
    <3> QED
      BY <1>4, <1>6, <2>2, <3>2, <3>3 DEF Ready
  <2>3. CASE r.kind = "open"
    <3>1. CASE Exists(r.chat) /\ owner[r.chat] = r.tok
      <4>1. net'[i].status = "ok" /\ net'[i].reply = Copy(r.chat)
        BY <1>1, <1>3, <2>3, <3>1 DEF ServeRead, Sent, Answer, IsNet, IsRequest, Fields
      <4>2. x = "ok" /\ y = Item(logs, r.chat)
        BY <1>2, <1>3, <1>4, <4>1 DEF Copy, Item
      <4>3. Kept(recent, r.chat)
        BY <3>1, KeptExists DEF TypeInv
      <4>4. Has(Own, r.chat)
        BY <1>6, <3>1, <4>3, OwnFacts
      <4>5. \E k \in DOMAIN Own : Own[k] = y
        BY <4>2, <4>4, OwnFacts
      <4>6. y.id = r.chat
        BY <4>2 DEF Item
      <4> QED
        BY <1>4, <1>6, <2>3, <4>2, <4>5, <4>6 DEF Ready
    <3>2. CASE ~ (Exists(r.chat) /\ owner[r.chat] = r.tok)
      <4>1. net'[i].status = "failed"
        BY <1>1, <1>3, <2>3, <3>2 DEF ServeRead, Sent, Answer, IsNet, IsRequest, Fields
      <4>2. x = "failed"
        BY <1>2, <1>3, <1>4, <4>1
      <4> QED
        BY <1>4, <1>6, <2>3, <4>2 DEF Ready
    <3> QED
      BY <3>1, <3>2
  <2> QED
    BY <1>6, <2>1, <2>2, <2>3 DEF Ready, Reads
<1>8. \A j \in DOMAIN n : Ready(n[j], user, Own)
  BY <1>4, <1>7 DEF Reading
<1>9. (Fetches(net) => Fetches(n)) /\ (Chooses(net) => Chooses(n))
  <2>1. \A j \in DOMAIN net : n[j].kind = net[j].kind /\ n[j].sel = net[j].sel
    BY <1>3, <1>4
  <2> QED
    BY <1>4, <2>1 DEF Fetches, Chooses
<1>10. Reading(n, user, selected, chats, Own)
  BY <1>8, <1>9 DEF Reading
<1> QED
  BY <1>2, <1>3, <1>5, <1>10 DEF Signed, Tidy

LEMMA ListServeCreate ==
  ASSUME TypeInv, ServeCreate(1), user # None, Creating(net, user, selected, chats, Own)
  PROVE  Signed'
<1>1. IsNet(net) /\ user \in Users /\ 1 \in DOMAIN net
  BY OnlyFirst DEF TypeInv, SpinInv, PageTyped, Creating
<1>2. PICK y : y = Entry(Len(owner'), <<>>)
  OBVIOUS
<1>3. /\ net' = Answered(net, 1, "ok", y) /\ UNCHANGED <<user, chats, selected>>
      /\ owner' = Append(owner, user) /\ logs' = Append(logs, <<>>)
      /\ recent' = <<Len(owner')>> \o recent /\ net[1].status = "sent"
  BY <1>2 DEF ServeCreate, Sent, Answer, Answered, account, lists, Creating, Only, Entry
<1>4. PICK n : n = Answered(net, 1, "ok", y)
  OBVIOUS
<1>5. /\ Len(n) = Len(net) /\ n[1].kind = net[1].kind /\ n[1].tok = net[1].tok
      /\ n[1].status = "ok" /\ n[1].reply = y
  BY <1>1, <1>4, AnsweredField
<1>6. <<>> \in Seq(Message)
  OBVIOUS
<1>7. Own' = Ahead(y, Own)
  BY <1>1, <1>2, <1>3, <1>6, OwnCreated
<1>8. chats = Own
  BY <1>3 DEF Creating, UpToDate
<1>9. Creating(n, user, selected, chats, Own')
  BY <1>5, <1>7, <1>8 DEF Creating, Only, Ahead
<1> QED
  BY <1>3, <1>4, <1>9 DEF Signed, Tidy

LEMMA ListServeDelete ==
  ASSUME TypeInv, TypeInv', ServeDelete(1), user # None,
         Deleting(net, user, selected, chats, Own)
  PROVE  Signed'
<1>1. IsNet(net) /\ 1 \in DOMAIN net
  BY OnlyFirst DEF TypeInv, SpinInv, Deleting
<1>2. PICK c : c = net[1].chat
  OBVIOUS
<1>3. /\ net[1].status = "sent" /\ net[1].tok = user /\ chats = Own /\ Has(Own, c)
      /\ selected # None => Has(Own, selected.id)
  BY <1>2 DEF ServeDelete, Sent, Deleting, Only, UpToDate
<1>4. selected # None
  <2>1. Own # <<>>
    BY <1>3 DEF Has
  <2> QED
    BY <1>3, <2>1 DEF ServeDelete, Sent, Deleting, UpToDate
<1>5. Exists(c) /\ owner[c] = user
  BY <1>3, OwnFacts, KeptExists DEF TypeInv
<1>6. /\ net' = Answered(net, 1, "ok", None) /\ UNCHANGED <<user, chats, selected, owner, logs>>
      /\ recent' = At(recent, Others(recent, c))
  BY <1>2, <1>3, <1>5 DEF ServeDelete, Answer, Answered, account, lists, Others
<1>7. PICK n : n = Answered(net, 1, "ok", None)
  OBVIOUS
<1>8. /\ Len(n) = Len(net) /\ n[1].kind = net[1].kind /\ n[1].tok = net[1].tok
      /\ n[1].sel = net[1].sel /\ n[1].list = net[1].list /\ n[1].chat = c
      /\ n[1].status = "ok"
  BY <1>1, <1>2, <1>7, AnsweredField
<1>9. Own' = Without(Own, c)
  <2>1. recent \in Seq(DOMAIN logs)
    BY DEF TypeInv, ServerTyped
  <2>2. PICK ow, lg, rc, u : ow = owner /\ lg = logs /\ rc = recent /\ u = user
    OBVIOUS
  <2>3. ListOf(At(rc, Others(rc, c)), ow, lg, u) = Without(ListOf(rc, ow, lg, u), c)
    BY <2>1, <2>2, ListDelete
  <2> QED
    BY <1>6, <2>2, <2>3 DEF Own
<1>10. selected.id # c => Has(Own', selected.id)
  <2>1. Kept(recent, selected.id) /\ owner[selected.id] = user
    BY <1>3, <1>4, OwnFacts
  <2>2. PICK rc, r2 : rc = recent /\ r2 = recent'
    OBVIOUS
  <2>3. \A j \in DOMAIN rc : rc[j] # c => \E k \in DOMAIN r2 : r2[k] = rc[j]
    BY <1>6, <2>2, ServerRemoves DEF TypeInv
  <2>4. selected.id # c => Kept(recent', selected.id)
    BY <2>1, <2>2, <2>3 DEF Kept
  <2>5. \A d : Has(Own', d) <=> Kept(recent', d) /\ owner'[d] = user'
    <3>1. PICK ow, lg, u, l : ow = owner' /\ lg = logs' /\ u = user' /\ l = ListOf(r2, ow, lg, u)
      OBVIOUS
    <3>2. ServerTyped(ow, lg, r2) /\ Own' = l
      BY <2>2, <3>1 DEF TypeInv, Own
    <3>3. \A d : Has(l, d) <=> Kept(r2, d) /\ ow[d] = u
      BY <3>1, <3>2, ListFacts
    <3> QED
      BY <2>2, <3>1, <3>2, <3>3
  <2> QED
    BY <1>6, <2>1, <2>4, <2>5
<1>11. Deleting(n, user, selected, chats, Own')
  BY <1>3, <1>4, <1>8, <1>9, <1>10 DEF Deleting, Only
<1> QED
  BY <1>6, <1>7, <1>11 DEF Signed, Tidy

LEMMA MovedKeeps ==
  ASSUME NEW ow, NEW lg, NEW rc, ServerTyped(ow, lg, rc), NEW c \in DOMAIN lg
  PROVE  \A d : Kept(rc, d) => Kept(Moved(rc, c), d)
<1>1. PICK r2 : r2 = Moved(rc, c)
  OBVIOUS
<1>2. PICK r : r = At(rc, Others(rc, c))
  OBVIOUS
<1>3. \A j \in DOMAIN rc : rc[j] # c => \E k \in DOMAIN r : r[k] = rc[j]
  BY <1>2, ServerRemoves
<1>4. r \in Seq(DOMAIN lg)
  BY <1>2, ServerRemoves DEF ServerTyped
<1>5. /\ DOMAIN r2 = 1..(Len(r) + 1) /\ Len(r) \in Nat /\ DOMAIN r = 1..Len(r)
      /\ r2[1] = c /\ \A k \in 1..Len(r) : r2[k + 1] = r[k]
  <2> DEFINE D == DOMAIN lg
  <2>1. r \in Seq(D) /\ c \in D /\ r2 = <<c>> \o r
    BY <1>1, <1>2, <1>4 DEF Moved
  <2> HIDE DEF D
  <2> QED
    BY <2>1
<1>6. 1 \in DOMAIN r2 /\ \A k \in DOMAIN r : k + 1 \in DOMAIN r2
  BY <1>5
<1>7. ASSUME NEW j \in DOMAIN rc PROVE \E k \in DOMAIN r2 : r2[k] = rc[j]
  <2>1. CASE rc[j] = c
    BY <1>5, <1>6, <2>1
  <2>2. CASE rc[j] # c
    <3>1. PICK k \in DOMAIN r : r[k] = rc[j]
      BY <1>3, <2>2
    <3> QED
      BY <1>5, <1>6, <3>1
  <2> QED
    BY <2>1, <2>2
<1> QED
  BY <1>1, <1>7 DEF Kept

LEMMA ListServeAsk ==
  ASSUME TypeInv, TypeInv', ServeAsk(1), user # None,
         Asking(net, user, selected, chats, Own)
  PROVE  Signed'
<1>1. IsNet(net) /\ user \in Users /\ 1 \in DOMAIN net
  BY OnlyFirst DEF TypeInv, SpinInv, PageTyped, Asking
<1>2. PICK r : r = net[1]
  OBVIOUS
<1>3. /\ r.status = "sent" /\ r.tok = user /\ r.kind = "ask"
      /\ selected # None => Has(Own, selected.id)
  BY <1>2 DEF ServeAsk, Sent, Asking, Only
<1>4. UNCHANGED <<user, chats, selected>>
  BY DEF ServeAsk, Answer, account, lists
<1>5. r \in Over(Copies(logs), DOMAIN logs) /\ r.ask \in Nat /\ r.chat \in DOMAIN logs \cup {None}
  <2>1. r \in Over(Copies(logs), DOMAIN logs)
    BY <1>1, <1>2 DEF TypeInv, Within, Known, Asks
  <2> QED
    BY <2>1 DEF Over
<1>6. ASSUME NEW y, y # None, net' = Answered(net, 1, "ok", y),
             \A c : Has(Own, c) => Has(Own', c)
      PROVE  Signed'
  <2>1. PICK n : n = Answered(net, 1, "ok", y)
    OBVIOUS
  <2>2. /\ Len(n) = Len(net) /\ n[1].kind = r.kind /\ n[1].tok = r.tok
        /\ n[1].sel = r.sel /\ n[1].status = "ok" /\ n[1].reply = y
    BY <1>1, <1>2, <2>1, AnsweredField
  <2>3. Asking(n, user, selected, chats, Own')
    BY <1>2, <1>3, <1>6, <2>2 DEF Asking, Only
  <2> QED
    BY <1>4, <1>6, <2>1, <2>3 DEF Signed, Tidy
<1>7. CASE /\ r.chat = None /\ owner' = Append(owner, r.tok)
           /\ logs' = Append(logs, Exchange(r.ask)) /\ recent' = <<Len(owner')>> \o recent
           /\ Answer(1, "ok", Len(owner'))
  <2>1. PICK e \in Seq(Message) : e = Exchange(r.ask)
    BY <1>5, ExchangeTyped
  <2>2. \A c : Has(Own, c) => Has(Own', c)
    BY <1>1, <1>3, <1>4, <1>7, <2>1, OwnCreated
  <2>3. Len(owner') # None
    <3>1. Len(owner') \in Nat
      BY ServerLen DEF TypeInv
    <3> QED
      BY <3>1, SessionAssumption DEF SessionAssumption
  <2> QED
    BY <1>6, <1>7, <2>2, <2>3 DEF Answer, Answered
<1>8. CASE /\ r.chat # None /\ recent' = Moved(recent, r.chat)
           /\ logs' = Longer(logs, r.chat, Exchange(r.ask)) /\ owner' = owner
           /\ Answer(1, "ok", r.chat)
  <2>1. PICK c \in DOMAIN logs, e \in Seq(Message) : c = r.chat /\ e = Exchange(r.ask)
    BY <1>5, <1>8, ExchangeTyped
  <2>2. PICK ow, lg, rc, l2, r2 : /\ ow = owner /\ lg = logs /\ rc = recent
                                  /\ l2 = Longer(lg, c, e) /\ r2 = Moved(rc, c)
    OBVIOUS
  <2>3. l2 = logs' /\ r2 = recent' /\ ServerTyped(ow, lg, rc)
    BY <1>8, <2>1, <2>2 DEF TypeInv
  <2>4. ServerTyped(ow, l2, r2)
    BY <2>2, <2>3, ServerExtends
  <2>5. \A d : Kept(recent, d) => Kept(recent', d)
    <3>1. \A d : Kept(rc, d) => Kept(Moved(rc, c), d)
      BY <2>2, <2>3, MovedKeeps
    <3> QED
      BY <2>2, <2>3, <3>1
  <2>6. \A d : Has(Own', d) <=> Kept(recent', d) /\ owner'[d] = user'
    <3>1. PICK u, l : u = user' /\ l = ListOf(r2, ow, l2, u)
      OBVIOUS
    <3>2. Own' = l
      BY <1>8, <2>2, <2>3, <3>1 DEF Own
    <3>3. \A d : Has(l, d) <=> Kept(r2, d) /\ ow[d] = u
      BY <2>4, <3>1, ListFacts
    <3> QED
      BY <1>8, <2>2, <2>3, <3>1, <3>2, <3>3
  <2>7. \A d : Has(Own, d) => Has(Own', d)
    BY <1>4, <1>8, <2>5, <2>6, OwnFacts
  <2> QED
    BY <1>6, <1>8, <2>7 DEF Answer, Answered
<1>9. CASE r.chat # None /\ Answer(1, "ok", r.chat) /\ UNCHANGED server
  <2>1. Own' = Own
    BY <1>4, <1>9 DEF Own, server
  <2> QED
    BY <1>6, <1>9, <2>1 DEF Answer, Answered
<1> QED
  BY <1>2, <1>3, <1>7, <1>8, <1>9 DEF ServeAsk, Longer, Moved, Others

LEMMA BlankServe ==
  ASSUME TypeInv, NEW i \in DOMAIN net, Serve(i), Blank
  PROVE  Blank'
<1>1. IsNet(net)
  BY DEF TypeInv, SpinInv
<1>2. PICK x, y : /\ net' = Answered(net, i, x, y)
                  /\ UNCHANGED <<stored, token, user, chats, selected>>
  <2>1. UNCHANGED <<account, lists>>
    BY DEF Serve, ServeRead, ServeCreate, ServeDelete, ServeAsk, Answer
  <2> QED
    BY <2>1, InPlace DEF account, lists
<1>3. PICK n : n = Answered(net, i, x, y)
  OBVIOUS
<1>4. /\ Len(n) = Len(net) /\ DOMAIN n = DOMAIN net
      /\ \A j \in DOMAIN net : n[j].kind = net[j].kind /\ n[j].tok = net[j].tok
  BY <1>1, <1>3, QuietAnswer
<1>5. DOMAIN net = 1..Len(net)
  BY <1>1, NetLen
<1>6. Verifying => Verifying'
  BY <1>2, <1>3, <1>4, <1>5 DEF Verifying
<1>7. Entering => Entering'
  BY <1>2, <1>3, <1>4, <1>5 DEF Entering
<1> QED
  BY <1>2, <1>3, <1>4, <1>6, <1>7 DEF Blank

LEMMA SignedServe ==
  ASSUME TypeInv, TypeInv', NEW i \in DOMAIN net, Serve(i), Signed
  PROVE  Signed'
<1>1. IsNet(net) /\ user # None
  BY DEF TypeInv, SpinInv, Signed
<1>2. CASE Reading(net, user, selected, chats, Own)
  <2>1. net[i].kind \in {"list", "open", "refresh"}
    BY <1>2 DEF Reading, Ready, Reads
  <2>2. ServeRead(i)
    BY <2>1 DEF Serve, ServeCreate, ServeDelete, ServeAsk, Sent
  <2> QED
    BY <1>1, <1>2, <2>2, ListServeRead
<1>3. CASE Creating(net, user, selected, chats, Own)
  <2>1. i = 1 /\ net[1].kind = "create"
    BY <1>1, <1>3, OnlyFirst DEF Creating, Only
  <2>2. ServeCreate(1)
    BY <2>1 DEF Serve, ServeRead, ServeDelete, ServeAsk, Sent
  <2> QED
    BY <1>1, <1>3, <2>2, ListServeCreate
<1>4. CASE Deleting(net, user, selected, chats, Own)
  <2>1. i = 1 /\ net[1].kind = "delete"
    BY <1>1, <1>4, OnlyFirst DEF Deleting, Only
  <2>2. ServeDelete(1)
    BY <2>1 DEF Serve, ServeRead, ServeCreate, ServeAsk, Sent
  <2> QED
    BY <1>1, <1>4, <2>2, ListServeDelete
<1>5. CASE Asking(net, user, selected, chats, Own)
  <2>1. i = 1 /\ net[1].kind = "ask"
    BY <1>1, <1>5, OnlyFirst DEF Asking, Only
  <2>2. ServeAsk(1)
    BY <2>1 DEF Serve, ServeRead, ServeCreate, ServeDelete, Sent
  <2> QED
    BY <1>1, <1>5, <2>2, ListServeAsk
<1> QED
  BY <1>2, <1>3, <1>4, <1>5 DEF Signed, Tidy

\* The account of the page is set: its chats are read, or there is none.
LEMMA ListAccount ==
  ASSUME UNCHANGED server, NEW s, NEW u, NEW p, NEW q, IsNet(q), SetAccount(s, u, u, p, q),
         NEW L, L = ListOf(recent, owner, logs, u),
         u = None => Len(q) = 0,
         \A i \in DOMAIN q : Ready(q[i], u, L),
         selected # None => Has(L, selected.id)
  PROVE  Blank' \/ Signed'
<1>1. CASE /\ u # None /\ chats' = chats
           /\ Render(u, p, selected, FALSE, Append(q, FetchChats(u, selected)))
  <2>1. PICK r : r = FetchChats(u, selected)
    OBVIOUS
  <2>2. Made(r, "list", u) /\ r.sel = selected
    <3>1. Made(r, "list", u)
      BY <2>1, Makes
    <3> QED
      BY <2>1, <3>1 DEF FetchChats, Request
  <2>3. PICK m : m = Append(q, r)
    OBVIOUS
  <2>4. /\ IsNet(m) /\ Len(m) = Len(q) + 1 /\ m[Len(q) + 1] = r
        /\ \A i \in DOMAIN q : m[i] = q[i]
    BY <2>2, <2>3, NetAppend DEF Made
  <2>5. PICK n : n = Len(q) + 1
    OBVIOUS
  <2>6. n \in DOMAIN m /\ m[n] = r /\ \A i \in DOMAIN m : i = n \/ (i \in DOMAIN q /\ m[i] = q[i])
    <3>1. Len(q) \in Nat /\ DOMAIN q = 1..Len(q) /\ DOMAIN m = 1..(Len(q) + 1)
      BY <2>4, NetLen
    <3> QED
      BY <2>4, <2>5, <3>1
  <2>7. Ready(r, u, L)
    BY <2>2 DEF Ready, Reads, Made
  <2>8. \A i \in DOMAIN m : Ready(m[i], u, L)
    BY <2>6, <2>7
  <2>9. Fetches(m) /\ (selected = None => Chooses(m))
    BY <2>2, <2>6 DEF Fetches, Chooses, Made
  <2>10. Tidy(m, u, selected, chats', L)
    BY <2>8, <2>9 DEF Tidy, Reading
  <2>11. Render(u, p, selected, FALSE, m)
    BY <1>1, <2>1, <2>3
  <2>12. PICK sel : sel = selected
    OBVIOUS
  <2> QED
    BY <1>1, <2>4, <2>10, <2>11, <2>12, ListRender
<1>2. CASE u = None /\ chats' = <<>> /\ Render(u, p, None, selected # None, q)
  <2>1. Same(q, net') /\ user' = u /\ selected' = None
    BY <1>2, RenderSame
  <2> QED
    BY <1>2, <2>1 DEF Same, Blank
<1> QED
  BY <1>1, <1>2 DEF SetAccount

LEMMA BlankArrive ==
  ASSUME TypeInv, NEW i \in DOMAIN net, Arrive(i), Blank
  PROVE  Blank' \/ Signed'
<1>1. IsNet(net)
  BY DEF TypeInv, SpinInv
<1>2. i = 1 /\ (Verifying \/ Entering)
  <2>1. DOMAIN net = 1..Len(net)
    BY <1>1, NetLen
  <2> QED
    BY <2>1 DEF Blank, Verifying, Entering
<1>3. Len(Rest(i)) = 0 /\ IsNet(Rest(i)) /\ DOMAIN Rest(i) = {}
  <2>1. PICK s : s = RemoveAt(net, i)
    OBVIOUS
  <2>2. IsNet(s) /\ Len(s) = Len(net) - 1
    BY <1>1, <2>1, NetRest
  <2>3. Len(s) = 0
    BY <1>2, <2>2 DEF Verifying, Entering
  <2>4. DOMAIN s = 1..Len(s)
    BY <2>2, NetLen
  <2> QED
    BY <2>1, <2>2, <2>3, <2>4 DEF Rest
<1>4. selected = None /\ chats = <<>> /\ user = None
  BY DEF Blank
<1>5. ASSUME NEW s, NEW u, NEW p, SetAccount(s, u, u, p, Rest(i)), UNCHANGED server
      PROVE  Blank' \/ Signed'
  <2>1. PICK L : L = ListOf(recent, owner, logs, u)
    OBVIOUS
  <2>2. PICK q : q = Rest(i)
    OBVIOUS
  <2> QED
    BY <1>3, <1>4, <1>5, <2>1, <2>2, ListAccount
<1>6. CASE Verifying
  <2>1. ArriveVerified(i)
    BY <1>2, <1>6 DEF Verifying, Arrive, ArriveUser, ArriveLogin, ArriveNothing, ArriveChats,
       ArriveNewChat, ArriveDeleted, ArriveOpened, ArriveAnswer, Ok, Bad
  <2>2. \/ \E s, u : SetAccount(s, u, u, page, Rest(i)) /\ UNCHANGED server
        \/ net' = Rest(i) /\ UNCHANGED <<user, chats, selected>>
    BY <1>4, <2>1 DEF ArriveVerified, lists
  <2>3. CASE net' = Rest(i) /\ UNCHANGED <<user, chats, selected>>
    BY <1>3, <1>4, <2>3 DEF Blank
  <2> QED
    BY <1>5, <2>2, <2>3
<1>7. CASE Entering
  <2>1. ArriveLogin(i) \/ ArriveNothing(i)
    BY <1>2, <1>7 DEF Entering, Arrive, ArriveVerified, ArriveUser, ArriveChats,
       ArriveNewChat, ArriveDeleted, ArriveOpened, ArriveAnswer, Ok, Bad
  <2>2. CASE ArriveLogin(i)
    BY <1>5, <2>2 DEF ArriveLogin
  <2>3. CASE ArriveNothing(i)
    <3>1. net' = Rest(i) /\ user' = None /\ chats' = <<>> /\ selected' = None
      BY <1>4, <2>3 DEF ArriveNothing, account, lists
    <3> QED
      BY <1>3, <3>1 DEF Blank
  <2> QED
    BY <2>1, <2>2, <2>3
<1> QED
  BY <1>2, <1>6, <1>7

\* What is left when a read arrives.
LEMMA ReadsRest ==
  ASSUME NEW q, IsNet(q), NEW u, NEW L, \A j \in DOMAIN q : Ready(q[j], u, L),
         NEW i \in DOMAIN q, NEW s, s = RemoveAt(q, i)
  PROVE  /\ IsNet(s) /\ \A j \in DOMAIN s : Ready(s[j], u, L)
         /\ q[i].kind # "list" /\ Fetches(q) => Fetches(s)
         /\ q[i].kind # "list" \/ q[i].sel # None => (Chooses(q) => Chooses(s))
<1>1. /\ IsNet(s)
      /\ \A j \in DOMAIN s : \E k \in DOMAIN q : s[j] = q[k]
      /\ \A k \in DOMAIN q : k # i => \E j \in DOMAIN s : s[j] = q[k]
  BY RestKeeps
<1>2. \A j \in DOMAIN s : Ready(s[j], u, L)
  BY <1>1
<1>3. q[i].kind # "list" /\ Fetches(q) => Fetches(s)
  BY <1>1 DEF Fetches
<1>4. q[i].kind # "list" \/ q[i].sel # None => (Chooses(q) => Chooses(s))
  BY <1>1 DEF Chooses
<1> QED
  BY <1>1, <1>2, <1>3, <1>4

\* A page that has its list, with a chat of it selected if there is one.
LEMMA ListTaken ==
  ASSUME UNCHANGED server, user # None, NEW q, IsNet(q),
         \A j \in DOMAIN q : Ready(q[j], user, Own),
         chats' = Own, NEW p, NEW sel, NEW fresh, Render(user, p, sel, fresh, q),
         sel # None => Has(Own, sel.id), sel = None => Own = <<>> \/ Chooses(q)
  PROVE  Signed'
<1>1. PICK u, L : u = user /\ L = Own
  OBVIOUS
<1>2. Tidy(q, u, sel, chats', L)
  BY <1>1 DEF Tidy, Reading
<1>3. L = ListOf(recent, owner, logs, u)
  BY <1>1 DEF Own
<1> QED
  BY <1>1, <1>2, <1>3, ListRender

LEMMA HeadOwn ==
  ASSUME TypeInv, Own # <<>>
  PROVE  Head(Own) # None /\ Has(Own, Head(Own).id)
<1>1. PICK l : l = Own
  OBVIOUS
<1> DEFINE S == Copies(logs)
<1>2. l \in Seq(S) /\ l # <<>>
  BY <1>1, OwnFacts
<1>3. None \notin S
  BY SessionAssumption DEF SessionAssumption, Copies
<1> HIDE DEF S
<1>4. Head(l) \in S /\ Has(l, Head(l).id)
  BY <1>2, HeadHas
<1> QED
  BY <1>1, <1>3, <1>4

LEMMA ReadingArrive ==
  ASSUME TypeInv, AccountInv, mishaps = 0, NEW i \in DOMAIN net, Arrive(i), user # None,
         Reading(net, user, selected, chats, Own)
  PROVE  Blank' \/ Signed'
<1>1. IsNet(net) /\ user = token /\ IsNet(Rest(i))
  BY UserSettled, NetRest DEF TypeInv, SpinInv, Rest
<1>2. PICK r, q : r = net[i] /\ q = Rest(i)
  OBVIOUS
<1>3. \A j \in DOMAIN net : Ready(net[j], user, Own)
  BY DEF Reading
<1>4. /\ IsNet(q) /\ \A j \in DOMAIN q : Ready(q[j], user, Own)
      /\ r.kind # "list" /\ Fetches(net) => Fetches(q)
      /\ r.kind # "list" \/ r.sel # None => (Chooses(net) => Chooses(q))
  BY <1>1, <1>2, <1>3, ReadsRest DEF Rest
<1>5. Ready(r, user, Own)
  BY <1>2, <1>3
<1>6. /\ selected # None => Has(Own, selected.id)
      /\ chats = Own \/ Fetches(net)
      /\ selected = None => Own = <<>> \/ Chooses(net)
  BY DEF Reading
<1>7. CASE r.kind = "refresh"
  <2>1. ArriveUser(i)
    BY <1>2, <1>5, <1>7 DEF Ready, Reads, Arrive, ArriveVerified, ArriveLogin, ArriveNothing,
       ArriveChats, ArriveNewChat, ArriveDeleted, ArriveOpened, ArriveAnswer, Ok, Bad
  <2>2. PICK u, L : u = user /\ L = Own
    OBVIOUS
  <2>3. SetAccount(stored, u, u, page, q) /\ UNCHANGED server
    BY <1>1, <1>2, <1>5, <2>1, <2>2 DEF ArriveUser, Ready
  <2>4. L = ListOf(recent, owner, logs, u)
    BY <2>2 DEF Own
  <2>5. PICK s, p : s = stored /\ p = page
    OBVIOUS
  <2> QED
    BY <1>4, <1>6, <2>2, <2>3, <2>4, <2>5, ListAccount
<1>8. CASE r.kind = "list"
  <2>1. ArriveChats(i)
    BY <1>2, <1>5, <1>8 DEF Ready, Arrive, ArriveVerified, ArriveLogin, ArriveNothing,
       ArriveUser, ArriveNewChat, ArriveDeleted, ArriveOpened, ArriveAnswer, Ok, Bad
  <2>2. r.status = "ok" /\ chats' = Own /\ UNCHANGED server
    BY <1>2, <1>5, <2>1 DEF ArriveChats, Ok, Ready
  <2>3. CASE Own # <<>> /\ r.sel = None
    <3>1. Render(user, page, Head(Own), TRUE, q)
      BY <1>2, <2>1, <2>2, <2>3 DEF ArriveChats
    <3>2. Head(Own) # None /\ Has(Own, Head(Own).id)
      BY <2>3, HeadOwn
    <3>3. PICK sel : sel = Head(Own)
      OBVIOUS
    <3> QED
      BY <1>4, <2>2, <3>1, <3>2, <3>3, ListTaken
  <2>4. CASE ~ (Own # <<>> /\ r.sel = None)
    <3>1. Render(user, page, selected, FALSE, q)
      BY <1>2, <2>1, <2>2, <2>4 DEF ArriveChats
    <3>2. selected = None => Own = <<>> \/ Chooses(q)
      BY <1>4, <1>6, <2>4
    <3> QED
      BY <1>4, <1>6, <2>2, <3>1, <3>2, ListTaken
  <2> QED
    BY <2>3, <2>4
<1>9. CASE r.kind = "open"
  <2>1. CASE ArriveOpened(i)
    <3>1. /\ r.reply.id = r.chat /\ r.status = "ok" /\ UNCHANGED server
          /\ Render(user, page, r.reply, TRUE, q)
          /\ chats' = [j \in DOMAIN chats |-> IF chats[j].id = r.chat THEN r.reply ELSE chats[j]]
      BY <1>2, <1>5, <1>9, <2>1 DEF ArriveOpened, Ok, Ready
    <3>2. PICK k \in DOMAIN Own : Own[k] = r.reply
      BY <1>5, <1>9, <3>1 DEF Ready
    <3>3. chats = Own => chats' = chats
      <4>1. ASSUME chats = Own, NEW j \in DOMAIN chats, chats[j].id = r.chat
            PROVE  chats[j] = r.reply
        BY <3>1, <3>2, <4>1, OwnFacts
      <4>2. chats = Own => chats = [j \in DOMAIN chats |-> chats[j]]
        <5> DEFINE S == Copies(logs)
        <5>1. Own \in Seq(S)
          BY OwnFacts
        <5> HIDE DEF S
        <5>2. Own = [j \in DOMAIN Own |-> Own[j]]
          BY <5>1
        <5> QED
          BY <5>2
      <4> QED
        BY <3>1, <4>1, <4>2
    <3>4. r.reply # None
      <4> DEFINE S == Copies(logs)
      <4>1. Own \in Seq(S) /\ None \notin S
        BY OwnFacts, SessionAssumption DEF SessionAssumption, Copies
      <4> HIDE DEF S
      <4> QED
        BY <3>2, <4>1
    <3>5. Has(Own, r.reply.id)
      BY <3>2 DEF Has
    <3>6. PICK u, L, x : u = user /\ L = Own /\ x = r.reply
      OBVIOUS
    <3>7. Tidy(q, u, x, chats', L)
      BY <1>4, <1>6, <1>9, <3>3, <3>4, <3>5, <3>6 DEF Tidy, Reading
    <3>8. L = ListOf(recent, owner, logs, u) /\ Render(u, page, x, TRUE, q)
      BY <3>1, <3>6 DEF Own
    <3> QED
      BY <1>4, <3>1, <3>6, <3>7, <3>8, ListRender
  <2>2. CASE ArriveNothing(i)
    <3>1. net' = q /\ UNCHANGED <<user, chats, selected, server>>
      BY <1>2, <2>2 DEF ArriveNothing, account, lists
    <3>2. Own' = Own
      BY <3>1 DEF Own, server
    <3>3. Reading(q, user, selected, chats, Own)
      BY <1>4, <1>6, <1>9 DEF Reading
    <3> QED
      BY <3>1, <3>2, <3>3 DEF Signed, Tidy
  <2> QED
    BY <1>2, <1>9, <2>1, <2>2 DEF Arrive, ArriveVerified, ArriveLogin, ArriveChats,
       ArriveUser, ArriveNewChat, ArriveDeleted, ArriveAnswer, Ok, Bad
<1> QED
  BY <1>5, <1>7, <1>8, <1>9 DEF Ready, Reads

\* The reply to the only request of a page that was up to date.
LEMMA OnlyRest ==
  ASSUME TypeInv, NEW k, Only(net, k, user)
  PROVE  /\ IsNet(net) /\ 1 \in DOMAIN net /\ \A i \in DOMAIN net : i = 1
         /\ IsNet(Rest(1)) /\ Len(Rest(1)) = 0 /\ DOMAIN Rest(1) = {}
<1>1. IsNet(net)
  BY DEF TypeInv, SpinInv
<1>2. 1 \in DOMAIN net /\ \A i \in DOMAIN net : i = 1
  BY <1>1, OnlyFirst
<1>3. PICK s : s = RemoveAt(net, 1)
  OBVIOUS
<1>4. IsNet(s) /\ Len(s) = Len(net) - 1
  BY <1>1, <1>2, <1>3, NetRest
<1>5. Len(s) = 0
  BY <1>4 DEF Only
<1>6. DOMAIN s = 1..Len(s)
  BY <1>4, NetLen
<1> QED
  BY <1>1, <1>2, <1>3, <1>4, <1>5, <1>6 DEF Rest

LEMMA CreatedArrive ==
  ASSUME TypeInv, Arrive(1), user # None, Creating(net, user, selected, chats, Own)
  PROVE  Signed'
<1>1. PICK r, q : r = net[1] /\ q = Rest(1)
  OBVIOUS
<1>2. IsNet(q) /\ DOMAIN q = {} /\ r.kind = "create"
  BY <1>1, OnlyRest DEF Creating, Only
<1>3. ArriveNewChat(1)
  BY <1>1, <1>2 DEF Creating, Arrive, ArriveVerified, ArriveLogin, ArriveNothing, ArriveChats,
     ArriveUser, ArriveDeleted, ArriveOpened, ArriveAnswer, Ok, Bad
<1>4. /\ Own = <<r.reply>> \o chats /\ chats' = <<r.reply>> \o chats /\ UNCHANGED server
      /\ Render(user, "chat", r.reply, TRUE, q)
  BY <1>1, <1>3 DEF ArriveNewChat, Creating, Ok
<1>5. r.reply # None /\ Has(Own, r.reply.id)
  <2> DEFINE S == Copies(logs)
  <2>1. r.reply \in S /\ chats \in Seq(S)
    <3>1. r \in Asks(S, DOMAIN logs)
      BY <1>1, OnlyRest DEF TypeInv, Within, Known, Creating
    <3>2. r.status = "ok"
      BY <1>1, <1>3 DEF ArriveNewChat, Ok
    <3> QED
      BY <1>2, <3>1, <3>2 DEF Asks, Replied, TypeInv
  <2>2. None \notin S
    BY SessionAssumption DEF SessionAssumption, Copies
  <2> HIDE DEF S
  <2>3. Has(<<r.reply>> \o chats, r.reply.id)
    BY <2>1, ConsHas
  <2> QED
    BY <1>4, <2>1, <2>2, <2>3
<1>6. PICK x : x = r.reply
  OBVIOUS
<1> QED
  BY <1>2, <1>4, <1>5, <1>6, ListTaken

LEMMA DeletedArrive ==
  ASSUME TypeInv, Arrive(1), user # None, Deleting(net, user, selected, chats, Own)
  PROVE  Signed'
<1>1. PICK r, q : r = net[1] /\ q = Rest(1)
  OBVIOUS
<1>2. IsNet(q) /\ DOMAIN q = {} /\ r.kind = "delete"
  BY <1>1, OnlyRest DEF Deleting, Only
<1>3. ArriveDeleted(1)
  BY <1>1, <1>2 DEF Deleting, Arrive, ArriveVerified, ArriveLogin, ArriveNothing, ArriveChats,
     ArriveUser, ArriveNewChat, ArriveOpened, ArriveAnswer, Ok, Bad
<1>4. /\ r.status = "ok" /\ r.sel = selected /\ r.list = chats /\ Own = Without(chats, r.chat)
      /\ selected = None => Own = <<>>
      /\ selected # None => selected.id = r.chat \/ Has(Own, selected.id)
  BY <1>1, <1>3 DEF ArriveDeleted, Deleting, Ok
<1>5. chats' = Own /\ UNCHANGED server
  BY <1>1, <1>3, <1>4 DEF ArriveDeleted
<1>6. CASE selected # None /\ selected.id = r.chat
  <2>1. PICK sel : sel = IF Own = <<>> THEN None ELSE Head(Own)
    OBVIOUS
  <2>2. Render(user, page, sel, TRUE, q)
    BY <1>1, <1>3, <1>4, <1>6, <2>1 DEF ArriveDeleted
  <2>3. (sel # None => Has(Own, sel.id)) /\ (sel = None => Own = <<>>)
    BY <2>1, HeadOwn
  <2> QED
    BY <1>2, <1>5, <2>2, <2>3, ListTaken
<1>7. CASE ~ (selected # None /\ selected.id = r.chat)
  <2>1. Render(user, page, selected, FALSE, q)
    BY <1>1, <1>3, <1>4, <1>7 DEF ArriveDeleted
  <2> QED
    BY <1>2, <1>4, <1>5, <1>7, <2>1, ListTaken
<1> QED
  BY <1>6, <1>7

LEMMA AnsweredArrive ==
  ASSUME TypeInv, Arrive(1), user # None, Asking(net, user, selected, chats, Own)
  PROVE  Signed'
<1>1. PICK r, q : r = net[1] /\ q = Rest(1)
  OBVIOUS
<1>2. /\ IsNet(q) /\ Len(q) = 0 /\ DOMAIN q = {} /\ r.kind = "ask" /\ r.tok = user
      /\ r.sel = selected
  BY <1>1, OnlyRest DEF Asking, Only
<1>3. ArriveAnswer(1)
  BY <1>1, <1>2 DEF Arrive, ArriveVerified, ArriveLogin, ArriveNothing, ArriveChats,
     ArriveUser, ArriveNewChat, ArriveDeleted, ArriveOpened, Ok, Bad
<1>4. r.status = "ok" /\ r.reply # None /\ (selected # None => Has(Own, selected.id))
  BY <1>1, <1>3 DEF ArriveAnswer, Asking
<1>5. PICK a, b : a = FetchChats(r.tok, r.sel) /\ b = Request("refresh", r.tok)
  OBVIOUS
<1>6. net' = q \o <<a, b>> /\ UNCHANGED <<user, chats, selected, server>>
  BY <1>1, <1>2, <1>3, <1>4, <1>5 DEF ArriveAnswer, FollowUps, account, lists
<1>7. q \o <<a, b>> = Append(Append(q, a), b)
  <2>1. FollowUps(r) = <<a, b>> /\ <<a, b>> # <<>>
    BY <1>2, <1>4, <1>5 DEF FollowUps
  <2>2. PICK f : f = FollowUps(r)
    OBVIOUS
  <2>3. f \in {<<>>, FollowUps(r)}
    BY <2>2
  <2>4. q \o f = IF f = <<>> THEN q
                 ELSE Append(Append(q, FetchChats(r.tok, r.sel)), Request("refresh", r.tok))
    BY <1>2, <2>3, FollowNet
  <2> QED
    BY <1>5, <2>1, <2>2, <2>4
<1>8. /\ Made(a, "list", user) /\ a.sel = selected /\ Made(b, "refresh", user)
  <2>1. Made(a, "list", r.tok) /\ Made(b, "refresh", r.tok)
    BY <1>5, MakesFollow
  <2> QED
    BY <1>2, <1>5, <2>1 DEF FetchChats, Request
<1>9. PICK m, n : m = Append(q, a) /\ n = Append(m, b)
  OBVIOUS
<1>10. /\ IsNet(m) /\ Len(m) = 1 /\ m[1] = a
  <2>1. IsRequest(a) /\ IsNet(q)
    BY <1>2, <1>8 DEF Made
  <2>2. /\ IsNet(Append(q, a)) /\ Len(Append(q, a)) = Len(q) + 1
        /\ Append(q, a)[Len(q) + 1] = a
    BY <2>1, NetAppend
  <2> QED
    BY <1>2, <1>9, <2>2
<1>11. Reading(m, user, selected, chats, Own)
  <2>1. DOMAIN m = {1}
    <3>1. DOMAIN m = 1..Len(m)
      BY <1>10, NetLen
    <3> QED
      BY <1>10, <3>1
  <2>2. Ready(a, user, Own)
    BY <1>8 DEF Made, Ready, Reads
  <2>3. Fetches(m) /\ (selected = None => Chooses(m))
    BY <1>8, <1>10, <2>1 DEF Fetches, Chooses, Made
  <2> QED
    BY <1>4, <1>10, <2>1, <2>2, <2>3 DEF Reading
<1>12. Reading(n, user, selected, chats, Own)
  BY <1>8, <1>9, <1>10, <1>11, ReadsAppend DEF Made, Reads
<1>13. Own' = Own
  BY <1>6 DEF Own, server
<1> QED
  BY <1>6, <1>7, <1>9, <1>12, <1>13 DEF Signed, Tidy

LEMMA SignedArrive ==
  ASSUME TypeInv, AccountInv, mishaps = 0, NEW i \in DOMAIN net, Arrive(i), Signed
  PROVE  Blank' \/ Signed'
<1>1. user # None
  BY DEF Signed
<1>2. CASE Reading(net, user, selected, chats, Own)
  BY <1>1, <1>2, ReadingArrive
<1>3. CASE Creating(net, user, selected, chats, Own)
  <2>1. i = 1
    BY <1>3, OnlyRest DEF Creating
  <2> QED
    BY <1>1, <1>3, <2>1, CreatedArrive
<1>4. CASE Deleting(net, user, selected, chats, Own)
  <2>1. i = 1
    BY <1>4, OnlyRest DEF Deleting
  <2> QED
    BY <1>1, <1>4, <2>1, DeletedArrive
<1>5. CASE Asking(net, user, selected, chats, Own)
  <2>1. i = 1
    BY <1>5, OnlyRest DEF Asking
  <2> QED
    BY <1>1, <1>5, <2>1, AnsweredArrive
<1> QED
  BY <1>2, <1>3, <1>4, <1>5 DEF Signed, Tidy

-----------------------------------------------------------------------------
\* The invariant of the lists.

LEMMA ListStart == Init => ListInv
<1> SUFFICES ASSUME Init PROVE ListInv
  OBVIOUS
<1>1. TypeInv /\ AccountInv
  BY TypedInit, AccountInit
<1>2. /\ user = None /\ token = stored /\ chats = <<>> /\ selected = None
      /\ net = VerifyAuth(stored)
  BY DEF Init
<1>3. Len(net) = 0 \/ Verifying
  BY <1>2, VerifyNet DEF Verifying
<1> QED
  BY <1>1, <1>2, <1>3 DEF ListInv, Blank

\* A mishap is never forgotten: while there was none each step is an act or a reply.
LEMMA MishapsKept ==
  ASSUME AccountInv, Next, mishaps' = 0
  PROVE  mishaps = 0 /\ (Acts \/ Network)
<1>1. mishaps \in Nat
  BY DEF AccountInv
<1>2. CASE Acts
  <2>1. ASSUME NEW K, Hurry(K) PROVE mishaps = 0
    BY <1>1, <2>1, Hurried
  <2>2. (\E K : Hurry(K)) \/ UNCHANGED mishaps
    BY <1>2 DEF Acts, Login, Logout, Reload, Visit, NewChat, OpenChat, DeleteChat, Submit,
       Crossing, Beside, counts
  <2> QED BY <1>2, <2>1, <2>2
<1>3. ASSUME NEW i \in DOMAIN net, Serve(i) PROVE UNCHANGED mishaps
  BY <1>3 DEF Serve, ServeRead, ServeCreate, ServeDelete, ServeAsk, Answer, counts
<1>4. ASSUME NEW i \in DOMAIN net, Arrive(i) PROVE UNCHANGED mishaps
  BY <1>4 DEF Arrive, ArriveVerified, ArriveUser, ArriveLogin, ArriveNothing, ArriveChats,
     ArriveNewChat, ArriveDeleted, ArriveOpened, ArriveAnswer, counts
<1>5. ASSUME NEW i \in DOMAIN net, LoseRequest(i) PROVE FALSE
  BY <1>1, <1>5 DEF LoseRequest, Mishap
<1>6. CASE Network
  BY <1>3, <1>4, <1>6 DEF Network
<1> QED
  BY <1>2, <1>5, <1>6 DEF Next

LEMMA ListNext == ListInv /\ [Next]_vars => ListInv'
<1> SUFFICES ASSUME ListInv, [Next]_vars PROVE ListInv'
  OBVIOUS
<1>1. TypeInv /\ AccountInv /\ (mishaps = 0 => Blank \/ Signed)
  BY DEF ListInv
<1>2. TypeInv' /\ AccountInv'
  BY <1>1, TypedNext, AccountNext
<1>3. ASSUME mishaps = 0, mishaps' = 0, Acts PROVE Blank' \/ Signed'
  BY <1>1, <1>2, <1>3, ListActs
<1>4. ASSUME mishaps = 0, NEW i \in DOMAIN net, Serve(i) PROVE Blank' \/ Signed'
  BY <1>1, <1>2, <1>4, BlankServe, SignedServe
<1>5. ASSUME mishaps = 0, NEW i \in DOMAIN net, Arrive(i) PROVE Blank' \/ Signed'
  BY <1>1, <1>5, BlankArrive, SignedArrive
<1>6. CASE UNCHANGED vars
  <2>1. /\ UNCHANGED <<user, chats, selected, net, token, stored, mishaps>>
        /\ UNCHANGED <<recent, owner, logs>>
    BY <1>6 DEF vars, account, lists, server, counts
  <2>2. Own' = Own
    BY <2>1 DEF Own
  <2>3. Blank => Blank'
    BY <2>1 DEF Blank, Verifying, Entering
  <2>4. Signed => Signed'
    BY <2>1, <2>2 DEF Signed
  <2> QED
    BY <1>1, <1>2, <2>1, <2>3, <2>4 DEF ListInv
<1>7. CASE Next
  <2>1. ASSUME mishaps' = 0 PROVE Blank' \/ Signed'
    <3>1. mishaps = 0 /\ (Acts \/ Network)
      BY <1>1, <1>7, <2>1, MishapsKept
    <3> QED BY <1>3, <1>4, <1>5, <2>1, <3>1 DEF Network
  <2> QED BY <1>2, <2>1 DEF ListInv
<1> QED
  BY <1>6, <1>7

\* At rest the page is up to date.
LEMMA RestsUpToDate ==
  ASSUME ListInv, Resting
  PROVE  UpToDate(selected, chats, Listing(user))
<1>1. TypeInv /\ user # None /\ net = <<>> /\ (Blank \/ Signed)
  BY DEF ListInv, Resting
<1>2. Tidy(net, user, selected, chats, Own)
  BY <1>1 DEF Blank, Signed
<1>3. IsNet(net) /\ Len(net) = 0
  BY <1>1 DEF TypeInv, SpinInv
<1>4. UpToDate(selected, chats, Own)
  BY <1>2, <1>3, TidyRest
<1>5. Own = Listing(user)
  BY ListingIs DEF Own
<1> QED
  BY <1>4, <1>5

\* However opening chats overlaps with the reads a reply asks for: once all replies are in,
\* the sidebar lists the user's chats as the server has them, unless a request was lost or
\* the user did more than open chats beside one.
THEOREM SidebarIsCurrent == Spec => []SidebarCurrent
<1>1. ListInv => SidebarCurrent
  BY RestsUpToDate DEF SidebarCurrent, UpToDate
<1> QED
  BY <1>1, ListStart, ListNext, PTL DEF Spec

\* Likewise: once all replies are in, a chat is selected when there is one, and it is one of
\* those listed, whatever was deleted.
THEOREM SelectionIsListed == Spec => []SelectionListed
<1>1. ListInv => SelectionListed
  <2> SUFFICES ASSUME ListInv, Resting
               PROVE  /\ selected = None <=> chats = <<>>
                      /\ selected # None => Listed(selected.id)
    BY DEF SelectionListed
  <2>1. UpToDate(selected, chats, Listing(user))
    BY RestsUpToDate
  <2>2. selected # None => Has(chats, selected.id)
    BY <2>1 DEF UpToDate
  <2>3. chats = <<>> => DOMAIN chats = {}
    OBVIOUS
  <2>4. selected = None => chats = <<>>
    BY <2>1 DEF UpToDate
  <2> QED
    BY <2>2, <2>3, <2>4 DEF Has, Listed
<1> QED
  BY <1>1, ListStart, ListNext, PTL DEF Spec

=============================================================================
