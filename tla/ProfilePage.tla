---------------------------- MODULE ProfilePage ----------------------------
(***************************************************************************)
(* The profile of a user: loaded in three requests, one after the other,   *)
(* each time the URL names another user or the token is renewed; and the   *)
(* button that opens a chat with them, or creates it.                      *)
(*                                                                         *)
(* A profile and a list of courses are the user they belong to.            *)
(***************************************************************************)
EXTENDS WebPage

CONSTANT Others     \* the users beside the one who is signed in

Users == Others \union {"own"}

Open == ~page.loading /\ ~page.error /\ page.shown # None /\ page.left = None
CanWrite == Open /\ page.id # "own"

Request(kind, of, stage) == [kind |-> kind, of |-> of, stage |-> stage]

(***************************************************************************)
(* Loading.                                                                *)
(***************************************************************************)

Load(id) == Request("load", id, "profile")

\* Mutant: the profile is loaded once, and not for another id.
GoToWithoutLoad(id) ==
  /\ page.left = None /\ id # page.id
  /\ page' = [page EXCEPT !.id = id]
  /\ UNCHANGED <<server, calls, seen>>

\* Another URL: the page stays mounted and keeps what it shows.
GoTo(id) ==
  /\ page.left = None /\ id # page.id
  /\ Send(Load(id))
  /\ page' = [page EXCEPT !.id = id, !.loading = TRUE, !.error = FALSE]
  /\ Saw(If(Of({"list", "create"}) # {}, "moved"))
  /\ UNCHANGED server

TokenRenewed ==
  /\ page.left = None
  /\ Send(Load(page.id))
  /\ page' = [page EXCEPT !.loading = TRUE, !.error = FALSE]
  /\ UNCHANGED <<server, seen>>

\* The load of another URL answers, and none of this URL is left to answer after it.
Overtaken(c, stages) ==
  If(c.of # page.id /\ ~\E d \in Of({"load"}) : d.of = page.id /\ d.stage \in stages, "overtaken")

ProfileLoaded(c) ==
  /\ c.kind = "load" /\ c.stage = "profile"
  /\ page' = [page EXCEPT !.shown = c.of]
  /\ Turn(c, [c EXCEPT !.stage = "favorites"])
  /\ Saw(Overtaken(c, {"profile"}))
  /\ UNCHANGED server

ProfileFails(c) ==
  /\ c.kind = "load" /\ c.stage = "profile"
  /\ Trouble(TRUE) /\ End(c)
  /\ page' = [page EXCEPT !.loading = FALSE, !.error = TRUE]
  /\ UNCHANGED seen

\* The signed-in user's favourites, whoever the profile is of; a failure is ignored.
FavoritesAnswered(c) ==
  /\ c.kind = "load" /\ c.stage = "favorites"
  /\ Turn(c, [c EXCEPT !.stage = "courses"])
  /\ UNCHANGED <<page, server, seen>>

\* A failure is ignored here too: the list stays that of the last profile.
CoursesAnswered(c) ==
  /\ c.kind = "load" /\ c.stage = "courses"
  /\ \E fails \in BOOLEAN :
       /\ Trouble(fails)
       /\ page' = [page EXCEPT !.loading = FALSE, !.courses = IF fails THEN @ ELSE c.of]
       /\ Saw(If(fails, "kept") \union Overtaken(c, {"profile", "favorites", "courses"}))
  /\ End(c)

(***************************************************************************)
(* The button of the chat.                                                 *)
(***************************************************************************)

\* It is not disabled by a click; the user is the one that is shown.
Write ==
  /\ CanWrite
  /\ Send(Request("list", page.shown, "sent"))
  /\ Saw(If(page.shown # page.id, "moved"))
  /\ UNCHANGED <<page, server>>

OpenChat(user) == page' = [page EXCEPT !.left = user]

\* The page asks for the first twenty chats.
Listed(user) == server.chats[user] > 0 /\ user \notin server.old

\* Mutant: one of the two users of a chat is not compared.
ChatsListedAny(c) ==
  /\ c.kind = "list"
  /\ \E u \in Users : Listed(u) /\ OpenChat(u)
  /\ End(c)
  /\ UNCHANGED <<server, seen>>

ChatsListed(c) ==
  /\ c.kind = "list"
  /\ IF Listed(c.of)
     THEN OpenChat(c.of) /\ End(c)
     ELSE Turn(c, Request("create", c.of, "sent")) /\ UNCHANGED page
  /\ UNCHANGED <<server, seen>>

\* Mutant: no trigger.
CheckNothing(c) ==
  /\ c.kind = "create" /\ c.stage = "sent"
  /\ Turn(c, [c EXCEPT !.stage = "checked"])
  /\ UNCHANGED <<page, server, seen>>

\* check_chat_unique() sees the chats committed before the statement, and the
\* table has no unique key; a user has no chat with themselves.  Nothing is
\* shown of a refusal.
Check(c) ==
  /\ c.kind = "create" /\ c.stage = "sent"
  /\ IF c.of = "own" \/ server.chats[c.of] > 0 THEN End(c) ELSE Turn(c, [c EXCEPT !.stage = "checked"])
  /\ Saw(If(BagIn([c EXCEPT !.stage = "checked"], calls), "raced"))
  /\ UNCHANGED <<page, server>>

Insert(c) ==
  /\ c.kind = "create" /\ c.stage = "checked"
  /\ server' = [server EXCEPT !.chats[c.of] = @ + 1]
  /\ Turn(c, [c EXCEPT !.stage = "done"])
  /\ UNCHANGED <<page, seen>>

ChatCreated(c) ==
  /\ c.kind = "create" /\ c.stage = "done"
  /\ OpenChat(c.of) /\ End(c)
  /\ UNCHANGED <<server, seen>>

\* Any of the requests may fail; the page stays as it is.
ChatFails(c) ==
  /\ c.kind \in {"list", "create"}
  /\ Trouble(TRUE) /\ End(c)
  /\ UNCHANGED <<page, seen>>

Init ==
  /\ \E id \in Users :
       /\ page = [id |-> id, shown |-> None, courses |-> None, loading |-> TRUE, error |-> FALSE, left |-> None]
       /\ calls = Only(Load(id))
  /\ \E known, old \in SUBSET Others :
       /\ old \subseteq known
       /\ server = [chats |-> [u \in Users |-> IF u \in known THEN 1 ELSE 0], old |-> old, trouble |-> 0]
  /\ seen = {}

Takes(c) ==
  \/ ProfileLoaded(c) \/ ProfileFails(c) \/ FavoritesAnswered(c) \/ CoursesAnswered(c)
  \/ ChatsListed(c) \/ ChatCreated(c) \/ ChatFails(c)

\* A page that was left takes nothing any more.
Next ==
  \/ page.left = None /\ (TokenRenewed \/ Write \/ (\E id \in Users : GoTo(id)) \/ \E c \in Busy : Takes(c))
  \/ \E c \in Busy : Check(c) \/ Insert(c)

(***************************************************************************)
(* Properties.                                                             *)
(***************************************************************************)

TypeOK ==
  /\ page.id \in Users /\ {page.shown, page.courses, page.left} \subseteq Users \union {None}
  /\ {page.loading, page.error} \subseteq BOOLEAN
  /\ server.chats \in [Users -> Nat]
  /\ seen \subseteq {"moved", "overtaken", "kept", "raced"}

\* At rest the page shows the profile and the courses of the user its URL
\* names, unless the load of another URL answered last or courses did not load.
ProfileIsTrue ==
  Of({"load"}) = {} /\ Open /\ "overtaken" \notin seen
    => page.shown = page.id /\ (page.courses = page.id \/ "kept" \in seen)

\* Two users have one chat, unless two requests to create it were checked
\* before either was committed: the button takes two clicks.
OneChat == "raced" \in seen \/ \A u \in Users : server.chats[u] <= 1

\* The chat that opens is with the user of the URL, unless another profile was
\* shown under it at the click, or the URL changed since.
ChatIsAsked == page.left # None /\ "moved" \notin seen => page.left = page.id

\* A spinner has a request that will end it.
BusyHasRequest == page.loading => Of({"load"}) # {}
=============================================================================
