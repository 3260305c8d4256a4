------------------------------ MODULE ChatPage ------------------------------
(***************************************************************************)
(* The chat page of the web frontend: the list of chats, the window of the *)
(* selected one, older messages loaded page by page, messages that come    *)
(* over the socket, and the dialog that opens a new chat.                  *)
(*                                                                         *)
(* Every handler is asynchronous and nothing ties an answer to the state   *)
(* the page is in when it arrives.  A chat is named by the peer it is      *)
(* with; a message by its id.  The gateway hands a message to the socket   *)
(* and stores it later, so a load may read the store before or after the   *)
(* socket has delivered.  A request lives in a slot of "call": it is sent, *)
(* the server reads ("read"), the page takes the answer over.              *)
(***************************************************************************)
EXTENDS Naturals, Sequences, FiniteSets, SequencesExt

CONSTANTS
  Peers,      \* the other users; a chat is named by its peer
  Typed,      \* the users whose email gets typed into the dialog
  chatOfOld,  \* the chats of the messages stored before the page is opened
  New,        \* ids of messages yet to be written
  PageSize,   \* messages per load (50 in the code)
  Calls,      \* slots of requests in flight: the bound on their number
  None

\* The messages stored by then are known by their place.
Old == 1..Len(chatOfOld)

ASSUME ChatAssumption ==
  /\ IsFiniteSet(Peers) /\ Typed \subseteq Peers
  /\ chatOfOld \in Seq(Peers)
  /\ New \intersect Old = {}
  /\ PageSize \in Nat \ {0}
  /\ None \notin Peers \union Old \union New

Ids == Old \union New

VARIABLES
  \* the server
  chatOf,     \* the chat of each message, None before it is written
  own,        \* the messages this user wrote
  pending,    \* messages the gateway has taken and that are not stored yet
  log,        \* stored messages in the order of created_at
  hasChat,    \* peers there is a chat with
  wire,       \* messages the socket will deliver, in order
  \* the page
  chats,      \* the list: [id, other], other being the user it is shown under
  selected,
  messages,
  isLoading,
  isLoadingMore,
  nextCursor,
  hasMore,
  heard,      \* selectedChat in the closure of the socket's handler
  listener,   \* what the scroll listener has captured, and if it is attached
  dialog,     \* the dialog for a new chat
  call,
  \* history
  switched,   \* the selection moved during a load of another chat, or a
              \* message came before the handler knew the new selection
  doubled,    \* older messages were asked for by a listener of an earlier render,
              \* or while a first page was still under way
  crossed,    \* messages delivered after they were stored, or during a load
  clicked     \* a chat was created during the creation of one, or though listed

server  == <<chatOf, own, pending, log, hasChat, wire>>
window  == <<selected, messages, isLoading, isLoadingMore, nextCursor, hasMore>>
closures == <<heard, listener>>
history == <<switched, doubled, crossed, clicked>>
vars == <<server, chats, window, closures, dialog, call, history>>

(***************************************************************************)
(* Requests.                                                               *)
(***************************************************************************)

\* A load is answered with ids; a search compares with the chats known to the
\* page; a request to mark names messages and, if it is part of a load, which.
NoCall == [kind |-> "none", chat |-> None, cursor |-> None, ids |-> <<>>, more |-> FALSE,
           known |-> {}, marks |-> {}, stage |-> "sent", of |-> "none"]

Call(kind, p, c) == [NoCall EXCEPT !.kind = kind, !.chat = p, !.cursor = c]
Free(k) == call[k].kind = "none"
Put(k, c) == call' = [call EXCEPT ![k] = c]
Loads == {"load", "more"}

(***************************************************************************)
(* The screen.  While isLoading is up it is a spinner and nothing else.    *)
(***************************************************************************)

Shown == ~isLoading
DialogShown == Shown /\ dialog.open
Usable == Shown /\ ~dialog.open

\* The list that can be clicked, and the messages of the open window.
Listed == IF Shown THEN Range(chats) ELSE {}
Displayed == IF Shown /\ selected # None THEN messages ELSE <<>>
CanSend == Usable /\ selected # None
MoreButton == Usable /\ selected # None /\ hasMore /\ ~isLoadingMore /\ nextCursor # None

(***************************************************************************)
(* Loads under way.                                                        *)
(***************************************************************************)

\* Loads under way, those included that are still marking what they read.
Loading(kinds) == {k \in Calls : call[k].kind \in kinds \/ call[k].of \in kinds}

\* The history part of sending a load: one of another chat is not answered.
NoteLoad(p) == switched' = (switched \/ \E k \in Loading(Loads) : call[k].chat # p)

(***************************************************************************)
(* chat_service.                                                           *)
(***************************************************************************)

Older(m, n) == \E i, j \in DOMAIN log : i < j /\ log[i] = m /\ log[j] = n

\* Stored messages of a chat before the cursor, and the last PageSize of them.
Before(p, c) == {m \in Range(log) : chatOf[m] = p /\ (c # None => Older(m, c))}
LastPage(p, c) ==
  {m \in Before(p, c) : Cardinality({n \in Before(p, c) : Older(m, n)}) < PageSize}

\* GetChatMessages: a page, oldest first, and whether there is more.
ServerReads(k) ==
  /\ call[k].kind \in Loads /\ call[k].stage = "sent"
  /\ LET page == LastPage(call[k].chat, call[k].cursor)
     IN \E ids \in SetToSeqs(page) :
          /\ \A i, j \in DOMAIN ids : i < j => Older(ids[i], ids[j])
          /\ Put(k, [call[k] EXCEPT !.stage = "read", !.ids = ids,
                                    !.more = Before(call[k].chat, call[k].cursor) # page])
  /\ UNCHANGED <<server, chats, window, closures, dialog, history>>

\* A peer writes: the gateway delivers over the socket if there is one, and
\* hands the message on to be stored.
PeerWrites(p) ==
  /\ p \in hasChat
  /\ \E m \in New :
       /\ chatOf[m] = None
       /\ chatOf' = [chatOf EXCEPT ![m] = p]
       /\ \/ wire' = Append(wire, m)
          \/ UNCHANGED wire
       /\ pending' = pending \union {m}
  /\ UNCHANGED <<own, log, hasChat, chats, window, closures, dialog, call, history>>

\* ProcessNewMessage: created_at is the time of the INSERT.
StoreMessage(m) ==
  /\ m \in pending
  /\ pending' = pending \ {m}
  /\ log' = Append(log, m)
  /\ UNCHANGED <<chatOf, own, hasChat, wire, chats, window, closures, dialog, call, history>>

(***************************************************************************)
(* Loading.                                                                *)
(***************************************************************************)

\* What handleScroll and loadMoreMessages capture.
Captured == [chat |-> selected, cursor |-> nextCursor, has |-> hasMore, more |-> isLoadingMore]

\* isLoading takes the whole page away, and the message container with it.
Hidden(l) == [l EXCEPT !.on = FALSE]

\* GET /chats has been answered; on any error the list is empty.
ChatsLoaded(k) ==
  /\ call[k].kind = "chats"
  /\ \/ \E list \in SetToSeqs(hasChat) : chats' = [i \in DOMAIN list |-> [id |-> list[i], other |-> list[i]]]
     \/ chats' = <<>>
  /\ isLoading' = FALSE
  /\ Put(k, NoCall)
  /\ UNCHANGED <<server, selected, messages, isLoadingMore, nextCursor, hasMore,
                 closures, dialog, history>>

\* The effect of a change of the selected chat: its first page is asked for.
FirstPage(k, p) ==
  /\ Free(k)
  /\ nextCursor' = None
  /\ hasMore' = TRUE
  /\ isLoading' = TRUE
  /\ listener' = Hidden(listener)
  /\ Put(k, Call("load", p, None))
  /\ NoteLoad(p)

\* Mutant: a chat that is selected is not loaded.
SelectWithoutLoad(k, e) ==
  /\ Usable
  /\ e \in Listed
  /\ selected' = e.id
  /\ heard' = e.id
  /\ UNCHANGED <<server, chats, messages, isLoading, isLoadingMore, nextCursor, hasMore, listener,
                 dialog, call, history>>

\* Mutant: the entry of the list is taken for the id of the chat.
SelectEntry(k, e) ==
  /\ Usable
  /\ e \in Listed
  /\ selected' = e
  /\ UNCHANGED <<server, chats, messages, isLoading, isLoadingMore, nextCursor, hasMore, closures,
                 dialog, call, history>>

\* A click on a chat of the list.  The effects of a click run before anything
\* else: the socket's handler is replaced and, if the chat is another one, its
\* first page is asked for.  The messages stay what they are.
SelectChat(k, e) ==
  /\ Usable
  /\ e \in Listed
  /\ e.id # selected
  /\ selected' = e.id
  /\ heard' = e.id
  /\ FirstPage(k, e.id)
  /\ UNCHANGED <<server, chats, messages, isLoadingMore, dialog, doubled, crossed, clicked>>

\* The finally block of loadMessages.
LoadEnds(kind) ==
  /\ isLoading' = IF kind = "load" THEN FALSE ELSE isLoading
  /\ isLoadingMore' = IF kind = "more" THEN FALSE ELSE isLoadingMore

\* Mutant: a load ends when its answer has come, except if it is empty.
LoadAnsweredEarlyReturn(k) ==
  /\ call[k].kind \in Loads /\ call[k].stage = "read"
  /\ nextCursor' = IF call[k].more THEN call[k].ids[1] ELSE None
  /\ hasMore' = call[k].more
  /\ messages' = call[k].ids \o (IF call[k].kind = "more" THEN messages ELSE <<>>)
  /\ IF call[k].ids = <<>> THEN UNCHANGED <<isLoading, isLoadingMore>> ELSE LoadEnds(call[k].kind)
  /\ Put(k, NoCall)
  /\ UNCHANGED <<server, chats, selected, closures, dialog, history>>

\* Mutant: a first page is put before what is there, as older messages are.
LoadAnsweredPrepends(k) ==
  /\ call[k].kind \in Loads /\ call[k].stage = "read"
  /\ nextCursor' = IF call[k].more THEN call[k].ids[1] ELSE None
  /\ hasMore' = call[k].more
  /\ messages' = call[k].ids \o messages
  /\ LoadEnds(call[k].kind)
  /\ Put(k, NoCall)
  /\ UNCHANGED <<server, chats, selected, closures, dialog, history>>

\* The answer to loadMessages, taken over whatever chat is selected by now.
\* Messages of the peer are marked if unread (a choice: is_read is not kept
\* here), and the load waits for that.
LoadAnswered(k) ==
  /\ call[k].kind \in Loads /\ call[k].stage = "read"
  /\ nextCursor' = IF call[k].more THEN call[k].ids[1] ELSE None
  /\ hasMore' = call[k].more
  /\ messages' = call[k].ids \o (IF call[k].kind = "more" THEN messages ELSE <<>>)
  /\ \E unread \in {{}, Range(call[k].ids) \ own} :
        IF unread = {}
        THEN LoadEnds(call[k].kind) /\ Put(k, NoCall)
        ELSE /\ Put(k, [Call("mark", call[k].chat, None) EXCEPT
                          !.marks = unread, !.of = call[k].kind])
             /\ UNCHANGED <<isLoading, isLoadingMore>>
  /\ UNCHANGED <<server, chats, selected, closures, dialog, history>>

\* A failed load empties the window, one of older messages too.
LoadFails(k) ==
  /\ call[k].kind \in Loads
  /\ messages' = <<>>
  /\ LoadEnds(call[k].kind)
  /\ Put(k, NoCall)
  /\ UNCHANGED <<server, chats, selected, nextCursor, hasMore, closures, dialog, history>>

\* POST /chats/messages/read: the page goes on whether it worked or not.
MarkAnswered(k) ==
  /\ call[k].kind = "mark"
  /\ LoadEnds(call[k].of)
  /\ Put(k, NoCall)
  /\ UNCHANGED <<server, chats, selected, messages, nextCursor, hasMore,
                  closures, dialog, history>>

(***************************************************************************)
(* Older messages: by the button, or by scrolling near the top.            *)
(***************************************************************************)

StartMore(k, at) ==
  /\ Free(k)
  /\ at.chat # None /\ at.has /\ at.cursor # None /\ ~at.more
  /\ isLoadingMore' = TRUE
  /\ Put(k, Call("more", at.chat, at.cursor))
  /\ NoteLoad(at.chat)
  /\ doubled' = (doubled \/ at # Captured \/ Loading({"load"}) # {})
  /\ UNCHANGED <<server, chats, selected, messages, isLoading, nextCursor, hasMore, heard,
                 dialog, crossed, clicked>>

ClickMore(k) ==
  /\ MoreButton
  /\ StartMore(k, Captured)
  /\ listener' = [on |-> listener.on, at |-> [Captured EXCEPT !.more = TRUE]]

\* Scroll events come faster than renders: the listener is the one of an
\* earlier render until the effect replaces it.
Scroll(k) ==
  /\ listener.on
  /\ Len(messages) <= Cardinality(Ids)
  /\ StartMore(k, listener.at)
  /\ UNCHANGED listener

(***************************************************************************)
(* Messages over the socket.                                               *)
(***************************************************************************)

\* Mutant: the message is marked in the chat that is open.
ReceiveMarksOpenChat(k) ==
  /\ wire # <<>> /\ Free(k)
  /\ wire' = Tail(wire)
  /\ messages' = Append(messages, Head(wire))
  /\ Put(k, [Call("mark", heard, None) EXCEPT !.marks = {Head(wire)}])
  /\ UNCHANGED <<chatOf, own, pending, log, hasChat, chats, selected, isLoading, isLoadingMore,
                 nextCursor, hasMore, closures, dialog, history>>

\* onChatMessage: appended, and marked as read, if it is of the chat that the
\* handler knows as the selected one; otherwise only the list shows it.
ReceiveMessage(k) ==
  /\ wire # <<>> /\ Free(k)
  /\ LET m == Head(wire) IN
     /\ crossed' = IF \/ m \in Range(log)
                        \/ \E l \in Loading(Loads) : call[l].chat = chatOf[m]
                   THEN crossed \union {m} ELSE crossed
     /\ IF chatOf[m] = heard
        THEN /\ messages' = Append(messages, m)
             /\ Put(k, [Call("mark", chatOf[m], None) EXCEPT !.marks = {m}])
        ELSE UNCHANGED <<messages, call>>
  /\ wire' = Tail(wire)
  /\ switched' = (switched \/ heard # selected)
  /\ UNCHANGED <<chatOf, own, pending, log, hasChat, chats, selected, isLoading, isLoadingMore,
                 nextCursor, hasMore, closures, dialog, doubled, clicked>>

\* sendMessage: shown at once; the socket drops it when it is not open.
SendMessage ==
  /\ CanSend
  /\ \E m \in New :
       /\ chatOf[m] = None
       /\ chatOf' = [chatOf EXCEPT ![m] = selected]
       /\ own' = own \union {m}
       /\ messages' = Append(messages, m)
       /\ pending' \in {pending, pending \union {m}}
  /\ UNCHANGED <<log, hasChat, wire, chats, selected, isLoading, isLoadingMore,
                 nextCursor, hasMore, closures, dialog, call, history>>

(***************************************************************************)
(* The dialog for a new chat.                                              *)
(***************************************************************************)

Closed == [open |-> FALSE, email |-> None, searching |-> FALSE, found |-> None]

OpenDialog ==
  /\ Usable
  /\ dialog' = [dialog EXCEPT !.open = TRUE]
  /\ UNCHANGED <<server, chats, window, closures, call, history>>

TypeEmail(e) ==
  /\ DialogShown
  /\ dialog' = [dialog EXCEPT !.email = e, !.found = None]
  /\ UNCHANGED <<server, chats, window, closures, call, history>>

\* A search under way is not called off: its answer still sets the user found.
CancelDialog ==
  /\ DialogShown
  /\ dialog' = [Closed EXCEPT !.searching = dialog.searching]
  /\ UNCHANGED <<server, chats, window, closures, call, history>>

\* The chats the search compares with are those of the render of the click.
SearchUser(k) ==
  /\ DialogShown /\ dialog.email # None /\ ~dialog.searching
  /\ Free(k)
  /\ dialog' = [dialog EXCEPT !.searching = TRUE, !.found = None]
  /\ Put(k, [Call("search", dialog.email, None) EXCEPT !.known = {e.id : e \in Range(chats)}])
  /\ UNCHANGED <<server, chats, window, closures, history>>

SearchAnswered(k) ==
  /\ call[k].kind = "search"
  /\ \E found \in {call[k].chat, None} :
       /\ found \notin call[k].known
       /\ dialog' = [dialog EXCEPT !.searching = FALSE, !.found =
                       IF found = None THEN @ ELSE found]
  /\ Put(k, NoCall)
  /\ UNCHANGED <<server, chats, window, closures, history>>

\* The button stays enabled while a creation is under way.  The length of the
\* list bounds how often a chat is created again.
CreateChat(k) ==
  /\ DialogShown /\ dialog.found # None
  /\ Len(chats) <= Cardinality(Peers)
  /\ Free(k)
  /\ clicked' = (clicked \/ (\E l \in Calls : call[l].kind = "create")
                      \/ \E e \in Range(chats) : e.id = dialog.found)
  /\ Put(k, Call("create", dialog.found, None))
  /\ UNCHANGED <<server, chats, window, closures, dialog, switched, doubled, crossed>>

\* Mutant: the new entry is named after the user found by now.
ChatCreatedUnderPresentUser(k) ==
  /\ call[k].kind = "create"
  /\ chats' = <<[id |-> call[k].chat, other |-> dialog.found]>> \o chats
  /\ hasChat' = hasChat \union {call[k].chat}
  /\ Put(k, NoCall)
  /\ UNCHANGED <<chatOf, own, pending, log, wire, window, closures, dialog, history>>

\* chat_service answers with the id of the chat that is there, or a new one.  It
\* becomes the selected one, whatever the user did meanwhile, and its messages
\* are asked for; the effects of the change run later.
ChatCreated(k) ==
  /\ call[k].kind = "create"
  /\ chats' = <<[id |-> call[k].chat, other |-> call[k].chat]>> \o chats
  /\ selected' = call[k].chat
  /\ dialog' = [Closed EXCEPT !.searching = dialog.searching]
  /\ isLoading' = TRUE
  /\ listener' = Hidden(listener)
  /\ Put(k, Call("load", call[k].chat, None))
  /\ NoteLoad(call[k].chat)
  /\ hasChat' = hasChat \union {call[k].chat}
  /\ UNCHANGED <<chatOf, own, pending, log, wire, messages, isLoadingMore, nextCursor, hasMore, heard, doubled, crossed, clicked>>

\* Refused or failed, before or after the server has created it.
CreateFails(k) ==
  /\ call[k].kind = "create"
  /\ hasChat' \in {hasChat, hasChat \union {call[k].chat}}
  /\ Put(k, NoCall)
  /\ UNCHANGED <<chatOf, own, pending, log, wire, chats, window, closures, dialog, history>>

(***************************************************************************)
(* Effects.  A change of the state renders the page again, and the effects *)
(* of that render renew the handlers of the socket and of scrolling; a     *)
(* selection that did not come from a click loads its first page here, a   *)
(* second time.  Only an event for one of those two handlers gets in       *)
(* between: all other steps wait for them (unless no slot is free).        *)
(***************************************************************************)

Fresh == heard = selected /\ listener.at = Captured
NoSlotFree == \A k \in Calls : ~Free(k)

\* Without a container at that moment no scroll listener is attached.
RunEffects(k) ==
  /\ ~Fresh
  /\ heard' = selected
  /\ IF heard = selected
     THEN /\ listener' = [on |-> ~isLoading /\ selected # None, at |-> Captured]
          /\ UNCHANGED <<nextCursor, hasMore, isLoading, call, switched>>
     ELSE FirstPage(k, selected)
  /\ UNCHANGED <<server, chats, selected, messages, isLoadingMore, dialog, doubled, crossed,
                 clicked>>

(***************************************************************************)
(* The specification.                                                      *)
(***************************************************************************)

Init ==
  /\ chatOf = [m \in Ids |-> IF m \in Old THEN chatOfOld[m] ELSE None]
  /\ own = {} /\ pending = {}
  /\ log = [m \in Old |-> m]
  /\ hasChat = Range(chatOfOld)
  /\ wire = <<>>
  /\ chats = <<>> /\ selected = None /\ messages = <<>>
  /\ isLoading = TRUE /\ isLoadingMore = FALSE
  /\ nextCursor = None /\ hasMore = TRUE
  /\ heard = None
  /\ listener = [on |-> FALSE, at |-> Captured]
  /\ dialog = Closed
  /\ \E k \in Calls : call = [l \in Calls |-> IF l = k THEN Call("chats", None, None) ELSE NoCall]
  /\ switched = FALSE /\ doubled = FALSE /\ crossed = {} /\ clicked = FALSE

\* The page takes over the outcome of the request in slot k.
Answer(k) ==
  \/ ChatsLoaded(k) \/ LoadAnswered(k) \/ LoadFails(k) \/ MarkAnswered(k)
  \/ SearchAnswered(k) \/ ChatCreated(k) \/ CreateFails(k)

User(k) ==
  \/ \E e \in Range(chats) : SelectChat(k, e)
  \/ ClickMore(k)
  \/ SearchUser(k) \/ CreateChat(k)

Next ==
  \/ \E k \in Calls : RunEffects(k) \/ Scroll(k) \/ ReceiveMessage(k)
  \/ /\ Fresh \/ NoSlotFree
     /\ \/ \E k \in Calls : Answer(k) \/ ServerReads(k) \/ User(k)
        \/ SendMessage \/ OpenDialog \/ CancelDialog
        \/ \E p \in Peers : PeerWrites(p)
        \/ \E e \in Typed : TypeEmail(e)
        \/ \E m \in New : StoreMessage(m)

Spec == Init /\ [][Next]_vars

(***************************************************************************)
(* Properties.                                                             *)
(***************************************************************************)

Seen == [chat : Peers \union {None}, cursor : Ids \union {None}, has : BOOLEAN, more : BOOLEAN]
Kinds == {"none", "chats", "load", "more", "mark", "search", "create"}
Requests == [kind : Kinds, chat : Peers \union {None}, cursor : Ids \union {None}, ids : Seq(Ids), more : BOOLEAN,
             known : SUBSET Peers, marks : SUBSET Ids, stage : {"sent", "read"}, of : {"none"} \union Loads]

\* The variables have their types.
TypeOK ==
  /\ chatOf \in [Ids -> Peers \union {None}]
  /\ own \subseteq New /\ pending \subseteq New /\ crossed \subseteq New
  /\ log \in Seq(Ids) /\ wire \in Seq(New) /\ messages \in Seq(Ids)
  /\ hasChat \subseteq Peers
  /\ chats \in Seq([id : Peers, other : Peers])
  /\ selected \in Peers \union {None} /\ heard \in Peers \union {None}
  /\ {isLoading, isLoadingMore, hasMore, switched, doubled, clicked} \subseteq BOOLEAN
  /\ nextCursor \in Ids \union {None}
  /\ listener \in [on : BOOLEAN, at : Seen]
  /\ dialog \in [open : BOOLEAN, email : Peers \union {None}, searching : BOOLEAN,
                 found : Peers \union {None}]
  /\ call \in [Calls -> Requests]

\* A message of another chat stands in the window only if the selection moved
\* while a load of another chat was under way, or while the socket's handler
\* did not know of it yet: nothing in loadMessages looks at
\* the selection again, what protects the page is that isLoading hides it.
ForeignOnlyAfterSwitch ==
  (\E i \in DOMAIN Displayed : chatOf[messages[i]] # selected) => switched

\* A message stands in the window twice only if a listener of an earlier render
\* asked for older messages, they were asked for during the load of a first
\* page, the selection moved during a load, or the socket delivered the
\* message late: after it was stored, or during a load of its chat.
TwiceOnlyWhenOvertaken ==
  \A i, j \in DOMAIN messages :
    i # j /\ messages[i] = messages[j] => doubled \/ switched \/ messages[i] \in crossed

\* The window shows what it should: messages of the selected chat, each once,
\* except after the selection moved during a load or the socket overtook one.
WindowIsTrue == ForeignOnlyAfterSwitch /\ TwiceOnlyWhenOvertaken

\* A request to mark messages as read names the chat they are in, and only
\* messages of the peer: ValidateMessagesInChat silently leaves out others.
MarksNameTheirChat ==
  \A k \in Calls : call[k].kind = "mark" =>
    \A m \in call[k].marks : chatOf[m] = call[k].chat /\ m \notin own

\* A flag that hides the page or holds back loads is up only while a request
\* that will take it down is under way, whatever failed before.
SpinnerHasRequest ==
  /\ isLoading => Loading({"chats", "load"}) # {}
  /\ isLoadingMore => Loading({"more"}) # {}

\* A chat is listed under the user it was opened with, although the dialog may
\* show another one when the answer comes; and twice only after a double click
\* or a search that had compared with an older list.
ListedOnceUnderItsUser ==
  /\ \A i \in DOMAIN chats : chats[i].other = chats[i].id
  /\ \A i, j \in DOMAIN chats : i # j /\ chats[i].id = chats[j].id => clicked
=============================================================================
