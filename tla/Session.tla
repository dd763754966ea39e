------------------------------ MODULE Session -------------------------------
(***************************************************************************)
(* One browser page: the state AppContextProvider and ChatBox keep, the    *)
(* requests they have in flight, and the chats collection that answers     *)
(* them.                                                                   *)
(*                                                                         *)
(* A request carries what its closure captured when it was sent (token,    *)
(* selectedChat, chats), is served at one moment and its reply is handled  *)
(* at a later one, in any order with respect to the others.  React runs    *)
(* the effects of an update before the next event, so they are part of the *)
(* action that made the update.  The user waits for nothing: whatever a    *)
(* button allows may be done beside any requests in flight.                *)
(***************************************************************************)
EXTENDS Naturals, SequencesExt, FiniteSets

CONSTANTS
  Users,
  None

CONSTANTS          \* bounds of the instance
  MaxChats, MaxAsks, MaxInFlight, MaxMishaps

\* What the server keeps of a chat and the page shows of it.  A notice says that a
\* question failed; the answer a guest is given is stored nowhere.
Message == [role : {"user", "assistant", "guest", "notice"}, ask : Nat]
Chat    == [id : Nat \ {0}, messages : Seq(Message)]

ASSUME SessionAssumption ==
  /\ None \notin Users \cup Chat \cup Nat
  /\ {MaxChats, MaxAsks, MaxInFlight, MaxMishaps} \subseteq Nat

VARIABLES
  stored,          \* the token in localStorage; a token stands for its user
  token, user,     \* AppContext
  chats, selected,
  page,            \* "chat" is the route of ChatBox
  shown, current, busy,   \* ChatBox: messages, currentChatId, loading
  net,             \* requests in flight
  owner, logs,     \* the chats created: userId and messages
  recent,          \* those that exist, last updated first
  asked,
  mishaps,         \* requests that failed, and what the user did beside requests in flight,
                   \* but for opening chats beside reads
  crossed          \* account requests beside which the user signed in or out, on this page

account == <<stored, token, user>>
lists == <<chats, selected>>
box == <<shown, current, busy>>
server == <<owner, logs, recent>>
counts == <<asked, mishaps, crossed>>
vars == <<account, lists, page, box, net, server, counts>>

\* The elements of s at the places P, in their order: what SelectSeq keeps, by its
\* places and not by a test.
At(s, P) ==
  LET at == CHOOSE f \in [1..Cardinality(P) -> P] : \A j, k \in DOMAIN f : j < k => f[j] < f[k]
  IN [k \in DOMAIN at |-> s[at[k]]]

Without(list, c) == At(list, {i \in DOMAIN list : list[i].id # c})

Exists(c) == Contains(recent, c)
Copy(c) == [id |-> c, messages |-> logs[c]]

\* get_user_chats
Listing(u) == LET own == At(recent, {i \in DOMAIN recent : owner[recent[i]] = u})
              IN [i \in DOMAIN own |-> Copy(own[i])]

Request(kind, tok) ==
  [kind |-> kind, tok |-> tok, chat |-> None, ask |-> 0, live |-> FALSE,
   sel |-> None, list |-> <<>>, status |-> "sent", reply |-> None]

FetchChats(tok, sel) == [Request("list", tok) EXCEPT !.sel = sel]

Said(role, n) == [role |-> role, ask |-> n]

-----------------------------------------------------------------------------
\* Updates and their effects.

Mounted == user # None /\ page = "chat"

\* Variant of Detached: the reply finds the next ChatBox.
Reattached(requests) == requests

\* Requests of a ChatBox that is gone change no state of the next one.
Detached(requests) == [i \in DOMAIN requests |-> [requests[i] EXCEPT !.live = FALSE]]

\* Variant of MessagesOf: leaves the messages when no chat is selected.
MessagesKept(sel) == IF sel = None THEN shown ELSE sel.messages

\* Variant of IdOf: no chat has the id 0.
IdOrZero(sel) == IF sel = None THEN 0 ELSE sel.id

\* The effect on selectedChat: setMessages and setCurrentChatId.
MessagesOf(sel) == IF sel = None THEN <<>> ELSE sel.messages
IdOf(sel) == IF sel = None THEN None ELSE sel.id

\* An update that leaves user u on page p with chat sel selected; fresh says
\* that sel is a new object, which runs the effect.  A ChatBox that is not
\* displayed has no state.
Render(u, p, sel, fresh, requests) ==
  LET mounts == u # None /\ p = "chat"
      stays == Mounted /\ mounts
  IN /\ user' = u /\ page' = p /\ selected' = sel
     /\ \/ /\ mounts /\ (fresh \/ ~stays)
           /\ shown' = MessagesOf(sel) /\ current' = IdOf(sel)
        \/ ~mounts /\ shown' = <<>> /\ current' = None
        \/ stays /\ ~fresh /\ UNCHANGED <<shown, current>>
     /\ busy' = (busy /\ stays)
     /\ net' = IF stays THEN requests ELSE Detached(requests)

\* An update of user or token: the effect on them reads the chats again, or
\* clears the lists of a page that is signed out.
SetAccount(s, t, u, p, requests) ==
  /\ stored' = s /\ token' = t
  /\ \/ /\ u # None /\ t # None
        /\ Render(u, p, selected, FALSE, Append(requests, FetchChats(t, selected)))
        /\ UNCHANGED chats
     \/ /\ u = None \/ t = None
        /\ Render(u, p, None, selected # None, requests)
        /\ chats' = <<>>

-----------------------------------------------------------------------------
\* What the user does.

Room == Len(net) < MaxInFlight

Reads == {"list", "open", "refresh"}

\* Requests that set the account, or are followed by one that does.
AccountKinds == {"verify", "login", "refresh", "ask"}

InFlight == {net[i].kind : i \in DOMAIN net}

\* mishaps and crossed record what has happened; only the bound on mishaps is read.
Mishap == mishaps < MaxMishaps /\ mishaps' = mishaps + 1

Hurry(kinds) == IF InFlight \subseteq kinds THEN UNCHANGED mishaps ELSE Mishap
Beside(kinds) == Hurry(kinds) /\ UNCHANGED crossed
Crossing == Hurry({}) /\ crossed' = crossed \cup (InFlight \cap AccountKinds)

Start(r) == /\ Room
            /\ net' = Append(net, r)
            /\ UNCHANGED <<account, lists, page, box, server, asked>>

\* The forms of Login, which App shows when there is no user, and on its own page.
Login(u) == /\ user = None \/ page = "login"
            /\ Start(Request("login", u)) /\ Crossing

\* handleLogout and logout.
Logout ==
  /\ user # None
  /\ stored' = None /\ token' = None /\ chats' = <<>>
  /\ Render(None, "login", None, TRUE, net)
  /\ Crossing /\ UNCHANGED <<server, asked>>

\* A link to another page, or back to the chat.
Visit(p) ==
  /\ user # None /\ page # p
  /\ Render(user, p, selected, FALSE, net)
  /\ UNCHANGED <<stored, token, chats, server, counts>>

NewChat ==
  /\ user # None /\ token # None
  /\ Len(owner) < MaxChats
  /\ Start(Request("create", token)) /\ Beside({})

\* handleChatSelect: the page changes at once, the chat when the reply is there.
OpenChat(c) ==
  /\ user # None /\ token # None /\ Room
  /\ \E i \in DOMAIN chats : chats[i].id = c
  /\ Render(user, "chat", selected, FALSE,
            Append(net, [Request("open", token) EXCEPT !.chat = c]))
  /\ Beside(Reads) /\ UNCHANGED <<stored, token, chats, server, asked>>

DeleteChat(c) ==
  /\ user # None /\ token # None
  /\ \E i \in DOMAIN chats : chats[i].id = c
  /\ Start([Request("delete", token) EXCEPT
                !.chat = c, !.sel = selected, !.list = chats])
  /\ Beside({})

\* onSubmit, up to the request.  The send button is off while one is loading.
Submit ==
  /\ Mounted /\ ~busy /\ Room
  /\ asked < MaxAsks
  /\ current # None \/ Len(owner) < MaxChats
  /\ asked' = asked + 1
  /\ shown' = Append(shown, Said("user", asked + 1))
  /\ busy' = TRUE
  /\ net' = Append(net, [Request("ask", token) EXCEPT
                !.chat = current, !.ask = asked + 1, !.live = TRUE, !.sel = selected])
  /\ Beside({}) /\ UNCHANGED <<account, lists, page, current, server>>

-----------------------------------------------------------------------------
\* The server answers.

Answer(i, status, reply) ==
  /\ net' = [net EXCEPT ![i].status = status, ![i].reply = reply]
  /\ UNCHANGED <<account, lists, page, box, counts>>

Sent(i, kind) == net[i].status = "sent" /\ net[i].kind = kind

\* verify and login; list_chats; single_chat, which answers 404 or 403.
ServeRead(i) ==
  /\ \/ /\ net[i].status = "sent" /\ net[i].kind \in {"verify", "refresh", "login"}
        /\ Answer(i, "ok", None)
     \/ Sent(i, "list") /\ Answer(i, "ok", Listing(net[i].tok))
     \/ /\ Sent(i, "open")
        /\ IF Exists(net[i].chat) /\ owner[net[i].chat] = net[i].tok
           THEN Answer(i, "ok", Copy(net[i].chat)) ELSE Answer(i, "failed", None)
  /\ UNCHANGED server

\* new_chat
ServeCreate(i) ==
  /\ Sent(i, "create")
  /\ owner' = Append(owner, net[i].tok)
  /\ logs' = Append(logs, <<>>)
  /\ recent' = <<Len(owner')>> \o recent
  /\ Answer(i, "ok", [id |-> Len(owner'), messages |-> <<>>])

\* delete_single_chat
ServeDelete(i) ==
  /\ Sent(i, "delete")
  /\ LET c == net[i].chat
     IN IF Exists(c) /\ owner[c] = net[i].tok
        THEN /\ recent' = At(recent, {j \in DOMAIN recent : recent[j] # c})
             /\ Answer(i, "ok", None)
        ELSE UNCHANGED recent /\ Answer(i, "failed", None)
  /\ UNCHANGED <<owner, logs>>

Exchange(n) == <<Said("user", n), Said("assistant", n)>>

\* _persist_chat_messages: a question without a chat makes one; pushing to a
\* chat that is gone matches no document, which nobody looks at.
ServeAsk(i) ==
  /\ Sent(i, "ask")
  /\ LET r == net[i]
     IN \/ /\ r.tok # None /\ r.chat = None
           /\ owner' = Append(owner, r.tok)
           /\ logs' = Append(logs, Exchange(r.ask))
           /\ recent' = <<Len(owner')>> \o recent
           /\ Answer(i, "ok", Len(owner'))
        \/ /\ r.tok # None /\ r.chat # None /\ Exists(r.chat)
           /\ logs' = [logs EXCEPT ![r.chat] = @ \o Exchange(r.ask)]
           /\ recent' = <<r.chat>> \o At(recent, {j \in DOMAIN recent : recent[j] # r.chat})
           /\ Answer(i, "ok", r.chat) /\ UNCHANGED owner
        \/ /\ r.tok = None \/ (r.chat # None /\ ~Exists(r.chat))
           /\ Answer(i, "ok", r.chat) /\ UNCHANGED server

\* The request or its reply is lost, the server answers an error, or the
\* token has expired.
LoseRequest(i) ==
  /\ Mishap /\ net[i].status \in {"sent", "ok"}
  /\ \E outcome \in {"failed", "lost"} :
       net' = [net EXCEPT ![i].status = outcome, ![i].reply = None]
  /\ UNCHANGED <<account, lists, page, box, server, asked, crossed>>

-----------------------------------------------------------------------------
\* Replies are handled.

Rest(i) == RemoveAt(net, i)
Ok(i, kind) == net[i].kind = kind /\ net[i].status = "ok"
Bad(i, kinds) == net[i].kind \in kinds /\ net[i].status \in {"failed", "lost"}

\* verifyAuth.  Only a refusal clears the user; a network error the token alone.  The
\* effect runs when one of the two changes.
ArriveVerified(i) ==
  LET u == IF net[i].status = "failed" THEN None ELSE user
  IN /\ \/ Ok(i, "verify") /\ SetAccount(stored, net[i].tok, net[i].tok, page, Rest(i))
        \/ /\ Bad(i, {"verify"}) /\ (token # None \/ user # u)
           /\ SetAccount(None, None, u, page, Rest(i))
        \/ /\ Bad(i, {"verify"}) /\ token = None /\ user = u
           /\ stored' = None /\ net' = Rest(i)
           /\ UNCHANGED <<token, user, lists, page, box>>
     /\ UNCHANGED <<server, counts>>

\* Variant of ArriveUser: takes the token back as well.
ArriveUserAndToken(i) ==
  /\ Ok(i, "refresh") /\ SetAccount(stored, net[i].tok, net[i].tok, page, Rest(i))
  /\ UNCHANGED <<server, counts>>

\* refreshUser: the token stays what it is now.
ArriveUser(i) ==
  /\ Ok(i, "refresh") /\ SetAccount(stored, token, net[i].tok, page, Rest(i))
  /\ UNCHANGED <<server, counts>>

\* login, register and googleLogin, then navigate('/').
ArriveLogin(i) ==
  /\ Ok(i, "login") /\ SetAccount(net[i].tok, net[i].tok, net[i].tok, "chat", Rest(i))
  /\ UNCHANGED <<server, counts>>

\* A failed request leaves the state as it is.
ArriveNothing(i) ==
  /\ Bad(i, {"refresh", "login", "list", "create", "delete", "open"})
  /\ net' = Rest(i)
  /\ UNCHANGED <<account, lists, page, box, server, counts>>

\* Variant of ArriveChats: reads the account again as well.
ArriveChatsRefreshes(i) ==
  /\ Ok(i, "list")
  /\ chats' = net[i].reply
  /\ Render(user, page, selected, FALSE, Append(Rest(i), Request("refresh", net[i].tok)))
  /\ UNCHANGED <<stored, token, server, counts>>

\* fetchUserChats: selects the first chat if none was selected when it began.
ArriveChats(i) ==
  /\ Ok(i, "list")
  /\ chats' = net[i].reply
  /\ IF chats' # <<>> /\ net[i].sel = None
     THEN Render(user, page, Head(chats'), TRUE, Rest(i))
     ELSE Render(user, page, selected, FALSE, Rest(i))
  /\ UNCHANGED <<stored, token, server, counts>>

\* createNewChat, then handleNewChat.
ArriveNewChat(i) ==
  /\ Ok(i, "create")
  /\ chats' = <<net[i].reply>> \o chats
  /\ Render(user, "chat", net[i].reply, TRUE, Rest(i))
  /\ UNCHANGED <<stored, token, server, counts>>

\* Variant of ArriveDeleted: the chat that was selected stays selected.
ArriveDeletedKeeps(i) ==
  /\ Ok(i, "delete")
  /\ chats' = Without(chats, net[i].chat)
  /\ Render(user, page, selected, FALSE, Rest(i))
  /\ UNCHANGED <<stored, token, server, counts>>

\* deleteChat: selected and the list to choose from are those of the closure.
ArriveDeleted(i) ==
  /\ Ok(i, "delete")
  /\ LET c == net[i].chat
         others == Without(net[i].list, c)
     IN /\ chats' = Without(chats, c)
        /\ IF net[i].sel # None /\ net[i].sel.id = c
           THEN Render(user, page, IF others = <<>> THEN None ELSE Head(others),
                       TRUE, Rest(i))
           ELSE Render(user, page, selected, FALSE, Rest(i))
  /\ UNCHANGED <<stored, token, server, counts>>

\* refreshChat.
ArriveOpened(i) ==
  /\ Ok(i, "open")
  /\ chats' = [j \in DOMAIN chats |-> IF chats[j].id = net[i].chat
                                      THEN net[i].reply ELSE chats[j]]
  /\ Render(user, page, net[i].reply, TRUE, Rest(i))
  /\ UNCHANGED <<stored, token, server, counts>>

\* Variant of FollowUps: the answer is all there is.
NoFollowUps(r) == <<>>

\* The reads that follow an answer, in the closure of onSubmit.
FollowUps(r) == IF r.tok = None \/ r.reply = None THEN <<>>
                ELSE <<FetchChats(r.tok, r.sel), Request("refresh", r.tok)>>

Bubble(r) == IF r.status # "ok" THEN "notice" ELSE IF r.tok = None THEN "guest" ELSE "assistant"

\* Variant of NextChat: a chat that is there stays.
NextChatKept(r) == IF current # None \/ r.tok = None \/ r.status # "ok" THEN current ELSE r.reply

\* setCurrentChatId: where the next question goes.
NextChat(r) == IF r.status # "ok" \/ r.tok = None \/ r.reply = None THEN current ELSE r.reply

\* onSubmit, after the reply.  A ChatBox that is gone sees none of it.
ArriveAnswer(i) ==
  LET r == net[i]
      follow == IF r.status = "ok" THEN FollowUps(r) ELSE <<>>
  IN /\ r.kind = "ask" /\ r.status # "sent"
     /\ net' = Rest(i) \o follow
     /\ IF r.live
        THEN /\ shown' = Append(shown, Said(Bubble(r), r.ask))
             /\ current' = NextChat(r)
             /\ busy' = FALSE
        ELSE UNCHANGED box
     /\ UNCHANGED <<account, lists, page, server, counts>>

-----------------------------------------------------------------------------
\* A page just loaded: verifyAuth runs when there is a token.
VerifyAuth(s) == IF s = None THEN <<>> ELSE <<Request("verify", s)>>

\* Nobody handles the replies of the page that was; its requests have been served or
\* never are.
Reload ==
  /\ token' = stored /\ user' = None
  /\ chats' = <<>> /\ selected' = None /\ UNCHANGED page
  /\ shown' = <<>> /\ current' = None /\ busy' = FALSE
  /\ net' = VerifyAuth(stored)
  /\ crossed' = {}
  /\ UNCHANGED <<stored, server, asked, mishaps>>

Init ==
  /\ stored \in Users \cup {None} /\ token = stored /\ user = None
  /\ chats = <<>> /\ selected = None /\ page = "chat"
  /\ shown = <<>> /\ current = None /\ busy = FALSE
  /\ net = VerifyAuth(stored)
  /\ owner = <<>> /\ logs = <<>> /\ recent = <<>>
  /\ asked = 0 /\ mishaps = 0 /\ crossed = {}

Acts == \/ \E u \in Users : Login(u)
        \/ Logout \/ Reload
        \/ \E p \in {"chat", "other"} : Visit(p)
        \/ NewChat
        \/ \E c \in DOMAIN owner : OpenChat(c) \/ DeleteChat(c)
        \/ Submit

Serve(i) == ServeRead(i) \/ ServeCreate(i) \/ ServeDelete(i) \/ ServeAsk(i)

Arrive(i) == \/ ArriveVerified(i) \/ ArriveUser(i) \/ ArriveLogin(i)
             \/ ArriveNothing(i) \/ ArriveChats(i)
             \/ ArriveNewChat(i) \/ ArriveDeleted(i) \/ ArriveOpened(i)
             \/ ArriveAnswer(i)

Network == \E i \in DOMAIN net : Serve(i) \/ Arrive(i)

Next == Acts \/ Network \/ \E i \in DOMAIN net : LoseRequest(i)

Spec == Init /\ [][Next]_vars

\* fetch settles: every request is answered or fails in the end.
FairSpec == Spec /\ WF_vars(Network)

-----------------------------------------------------------------------------
Says(log, n) == \E j \in DOMAIN log : log[j] = Said("assistant", n)
Listed(c) == \E i \in DOMAIN chats : chats[i].id = c
Resting == net = <<>> /\ user # None /\ mishaps = 0

\* The types of the state; a chat that exists has an owner and is listed once.
TypeOK ==
  /\ {stored, token, user} \subseteq Users \cup {None}
  /\ page \in {"chat", "other", "login"} /\ busy \in BOOLEAN
  /\ current \in DOMAIN owner \cup {None}
  /\ Len(logs) = Len(owner)
  /\ ToSet(recent) \subseteq DOMAIN owner /\ IsInjective(recent)
  /\ asked \in 0..MaxAsks /\ mishaps \in 0..MaxMishaps /\ crossed \subseteq AccountKinds

\* The spinner, which blocks sending, is on exactly while a question of this
\* ChatBox is being answered: it survives neither a lost reply nor a ChatBox
\* that was left with a question under way (finally in onSubmit), and the answer
\* that ChatBox is given does not stop that of the next one.
SpinnerHonest == busy <=> \E i \in DOMAIN net : net[i].kind = "ask" /\ net[i].live

\* Once all replies are in, the sidebar lists the user's chats as the server
\* has them, messages and order included, although creating, opening and
\* deleting a chat change the client's list each in its own way.  A user who acts
\* beside a request, other than to open a chat, can be left with an old list.
SidebarCurrent == Resting => chats = Listing(user)

\* Once all replies are in, a chat is selected when there is one, and it is one
\* of those listed, whatever was deleted (deleteChat, fetchUserChats).
SelectionListed == Resting => /\ selected = None <=> chats = <<>>
                              /\ selected # None => Listed(selected.id)

\* Where the answer to question n is: in the chat the next question goes to, unless that
\* chat has been deleted.
StoredHere(n) == current # None /\ (Says(logs[current], n) \/ ~Exists(current))

\* The question that is asked next goes to the chat of the last answer on the screen,
\* whatever the user opened, created, deleted or left while that answer was on its way
\* (onSubmit, the effect on selectedChat).
AnswersInPlace ==
  \A j \in DOMAIN shown :
    /\ shown[j].role = "assistant"
    /\ \A k \in DOMAIN shown : shown[k].role = "assistant" => k <= j
    => StoredHere(shown[j].ask)

\* The token sent is the one that a reload would use, unless the user signed in or out
\* beside verifyAuth; and once all replies are in it is of the user displayed, unless it
\* was beside any request that sets the user when it is answered (logout, refreshUser).
OneAccount == /\ "verify" \notin crossed => token = stored
              /\ crossed = {} /\ net = <<>> => user = token

\* A page the user leaves alone comes to rest: the effects of a reply ask for
\* further reads, but not for ever (the effect on user and token).
ComesToRest == <>[][~Acts]_vars => <>[](net = <<>>)

=============================================================================
