--------------------------- MODULE WebPagesProofs ---------------------------
(***************************************************************************)
(* Theorems about WebPages, for every number of rows, requests, failures   *)
(* and edits, and any files, names, filters and sessions.                  *)
(*                                                                         *)
(* A page is proved by itself: an invariant (SlotsInv, PaymentsInv,        *)
(* CourseInv, FormInv, CoursesInv, ProfileInv, EditInv, DashboardInv), of  *)
(* which each part says what a request under way, or what it has read, has *)
(* to do with the page and the server; then Init, one lemma for each       *)
(* operation or group of them, and the properties that follow.  PagesInv   *)
(* joins them.  (A page's module is instantiated, so that its bag of       *)
(* requests and that of WebPage are first shown to be one: SlotsCalls and  *)
(* its like.)                                                              *)
(***************************************************************************)
EXTENDS WebPages, FiniteSetTheorems, WellFoundedInduction, TLAPS

(***************************************************************************)
(* Requests under way.                                                     *)
(***************************************************************************)

\* A request is added; one copy of it ends; one copy becomes another request.
Added(c) == calls' = calls (+) SetToBag({c})

LEMMA AddedCall ==
  ASSUME IsABag(calls), NEW c, Added(c)
  PROVE  /\ IsABag(calls)' /\ Busy' = Busy \union {c}
         /\ \A d \in Busy \ {c} : calls'[d] = calls[d]
         /\ c \notin Busy => calls'[c] = 1
BY DEF Added, Busy, BagToSet, SetToBag, IsABag, (+)

LEMMA EndedCall ==
  ASSUME IsABag(calls), NEW c \in Busy, End(c)
  PROVE  /\ IsABag(calls)' /\ Busy' \subseteq Busy /\ Busy \ {c} \subseteq Busy'
         /\ calls[c] = 1 => c \notin Busy'
         /\ \A d \in Busy \ {c} : calls'[d] = calls[d]
<1> DEFINE B == [e \in DOMAIN calls |-> IF e = c THEN calls[e] - 1 ELSE calls[e]]
<1>1. calls' = [e \in {d \in DOMAIN B : B[d] > 0} |-> B[e]]
  BY DEF End, Busy, BagToSet, SetToBag, IsABag, (-)
<1>2. QED
  BY <1>1 DEF Busy, BagToSet, IsABag

LEMMA TurnedCall ==
  ASSUME IsABag(calls), NEW c \in Busy, NEW d, Turn(c, d)
  PROVE  /\ IsABag(calls)' /\ d \in Busy' /\ Busy' \subseteq Busy \union {d} /\ Busy \ {c} \subseteq Busy'
         /\ calls[c] = 1 /\ c # d => c \notin Busy'
         /\ \A e \in Busy \ {c, d} : calls'[e] = calls[e]
         /\ c # d /\ d \notin Busy => calls'[d] = 1
         /\ c = d => calls' = calls
<1> DEFINE B == [e \in DOMAIN calls |-> IF e = c THEN calls[e] - 1 ELSE calls[e]]
           less == [e \in {x \in DOMAIN B : B[x] > 0} |-> B[e]]
<1>1. calls (-) SetToBag({c}) = less
  BY DEF Busy, BagToSet, SetToBag, IsABag, (-)
<1>2. calls' = [e \in DOMAIN less \union {d} |-> (IF e \in DOMAIN less THEN less[e] ELSE 0) + (IF e = d THEN 1 ELSE 0)]
  BY <1>1 DEF Turn, SetToBag, (+)
<1>3. /\ \A e : e \in DOMAIN less <=> e \in DOMAIN calls /\ (e = c => calls[e] > 1)
      /\ \A e \in DOMAIN less : less[e] = IF e = c THEN calls[e] - 1 ELSE calls[e]
  BY DEF IsABag
<1> HIDE DEF less
<1>4. /\ \A e : e \in DOMAIN calls' <=> e \in DOMAIN less \/ e = d
      /\ \A e \in DOMAIN calls' : calls'[e] = (IF e \in DOMAIN less THEN less[e] ELSE 0) + (IF e = d THEN 1 ELSE 0)
  BY <1>2
<1>5. \A e \in DOMAIN calls : calls[e] \in Nat /\ calls[e] > 0
  BY DEF IsABag
<1>6. \A e \in DOMAIN calls' : calls'[e] \in Nat /\ calls'[e] > 0
  BY <1>3, <1>4, <1>5
<1>7. IsABag(calls)'
  BY <1>2, <1>6 DEF IsABag
<1>8. c = d => calls' = calls
  <2> SUFFICES ASSUME c = d PROVE calls' = calls
    OBVIOUS
  <2>1. DOMAIN calls' = DOMAIN calls
    BY <1>3, <1>4 DEF Busy, BagToSet
  <2>2. \A e \in DOMAIN calls : calls'[e] = calls[e]
    BY <1>3, <1>4, <1>5, <2>1
  <2>3. QED
    BY <1>2, <2>1, <2>2 DEF IsABag
<1>9. QED
  BY <1>3, <1>4, <1>5, <1>7, <1>8 DEF Busy, BagToSet

(***************************************************************************)
(* The slots of a mentor.                                                  *)
(***************************************************************************)

LEMMA SlotsCalls ==
  /\ Slots!Busy = Busy
  /\ \A c : Slots!Send(c) => Added(c)
  /\ \A c : Slots!End(c) <=> End(c)
  /\ \A c, d : Slots!Turn(c, d) <=> Turn(c, d)
  /\ \A c : Slots!Only(c) = Only(c)
BY DEF Slots!Busy, Slots!BagToSet, Busy, BagToSet, Slots!Send, Slots!End, Slots!Turn, Slots!Only,
       Slots!(+), Slots!(-), Slots!SetToBag, Added, End, Turn, Only, SetToBag, (+), (-)

SlotsLists == UNION {[D -> SUBSET Slots!Slot] : D \in SUBSET {"post", "all"}}
SlotsStates == [slots : SUBSET Slots!Slot, all : SUBSET Slots!Slot, loading : BOOLEAN, updating : Slots!Ids \union {None},
                creating : BOOLEAN, dialog : Days \union {None}, timers : Nat]
SlotsServer == [slots : SUBSET Slots!Slot, made : 0..MaxSlots, trouble : Nat]
SlotsRequests == [kind : {"week", "create", "status", "delete"}, slot : Slots!Slot \union {None},
                  stage : {"sent", "done", "refused", "waits"}, asked : SUBSET {"post", "all"}, lists : SlotsLists]

Posts(c) == "post" \in c.asked \union DOMAIN c.lists

SlotsTyped ==
  /\ IsABag(calls) /\ Busy \subseteq SlotsRequests
  /\ page \in SlotsStates /\ server \in SlotsServer
  /\ seen \subseteq {"excused", "several"}
  /\ \A c \in Busy :
       /\ IF c.kind = "week" THEN c.stage = "waits" /\ Posts(c) /\ "all" \notin c.asked \union DOMAIN c.lists ELSE c.slot \in Slots!Slot
       /\ c.stage # "waits" => c.asked = {} /\ DOMAIN c.lists = {}

Creating == {c \in Busy : c.kind = "create"}
Changing == {c \in Busy : c.kind \in {"status", "delete"}}

\* One creation at a time, and one change unless two slots were clicked at once.
SlotsBusy ==
  /\ page.loading => \E c \in Busy : Posts(c)
  /\ page.creating => Creating # {}
  /\ page.updating # None => Changing # {}
  /\ \A c \in Creating : calls[c] = 1 /\ page.creating /\ \A d \in Creating : c = d
  /\ \A c \in Creating : c.stage = "sent" => server.made < MaxSlots
  /\ "several" \notin seen => \A c \in Changing : calls[c] = 1 /\ page.updating = c.slot.id /\ \A d \in Changing : c = d

\* A change that is done brings a list that has not come yet.
Coming(c) == c.stage = "done" \/ Posts(c)

\* Until a creation brings a new list, or before the first one, the page knows
\* every open slot of the server; so a creation that it lets through is accepted.
SlotsFresh ==
  "excused" \notin seen =>
    /\ \/ page.all = server.slots /\ page.slots = {s \in server.slots : s.mine}
       \/ \E c \in Busy : Coming(c)
    /\ \/ \A t \in server.slots : t.status # "closed" => t \in page.all
       \/ page.loading /\ page.dialog = None /\ Creating = {}
       \/ \E c \in Creating : Coming(c)
    /\ \A c \in Creating : c.stage # "refused" /\ (c.stage = "sent" => Slots!Accepts(c.slot))

SlotsInv == SlotsTyped /\ SlotsBusy /\ SlotsFresh

LEMMA SlotsOf == \A kinds : Slots!Of(kinds) = Of(kinds)
BY SlotsCalls DEF Slots!Of, Of

LEMMA SlotsLoad ==
  LET c == Slots!Loads
  IN  /\ c \in SlotsRequests /\ c.kind = "week" /\ c.slot = None /\ c.stage = "waits"
      /\ c.asked = {"post"} /\ DOMAIN c.lists = {}
<1>1. DOMAIN <<>> = {} /\ <<>> \in [{} -> SUBSET Slots!Slot]
  OBVIOUS
<1>2. <<>> \in SlotsLists
  BY <1>1 DEF SlotsLists
<1>3. QED
  BY <1>1, <1>2 DEF Slots!Loads, SlotsRequests

LEMMA SlotsInit == Slots!Init => SlotsInv
<1> SUFFICES ASSUME Slots!Init PROVE SlotsInv
  OBVIOUS
<1> DEFINE load == Slots!Loads
<1>1. PICK status \in {"available", "booked", "closed"} :
        server = [slots |-> {[id |-> 1, start |-> 2, len |-> 1, status |-> status, mine |-> status # "closed"]},
                  made |-> 1, trouble |-> 0]
  BY DEF Slots!Init
<1>2. /\ page = [slots |-> {}, all |-> {}, loading |-> TRUE, updating |-> None, creating |-> FALSE,
                 dialog |-> None, timers |-> 0]
      /\ calls = Only(load) /\ seen = {}
  BY SlotsCalls DEF Slots!Init
<1>3. load \in SlotsRequests /\ load.kind = "week" /\ load.stage = "waits" /\ load.asked = {"post"} /\ DOMAIN load.lists = {}
  BY SlotsLoad
<1> HIDE DEF load
<1>4. IsABag(calls) /\ Busy = {load}
  BY <1>2 DEF Only, SetToBag, IsABag, Busy, BagToSet
<1>5. page \in SlotsStates
  BY <1>2 DEF SlotsStates
<1>6. server \in SlotsServer
  <2>1. [id |-> 1, start |-> 2, len |-> 1, status |-> status, mine |-> status # "closed"] \in Slots!Slot
    BY PagesAssumption DEF Slots!Slot, Slots!Ids
  <2>2. QED
    BY <1>1, <2>1, PagesAssumption DEF SlotsServer
<1>7. SlotsTyped
  BY <1>2, <1>3, <1>4, <1>5, <1>6 DEF SlotsTyped, Posts
<1>8. SlotsBusy
  BY <1>2, <1>3, <1>4 DEF SlotsBusy, Posts, Creating, Changing
<1>9. SlotsFresh
  BY <1>2, <1>3, <1>4 DEF SlotsFresh, Coming, Posts, Creating
<1>10. QED
  BY <1>7, <1>8, <1>9 DEF SlotsInv

LEMMA SlotsImplies ==
  ASSUME SlotsInv
  PROVE  /\ Slots!TypeOK /\ Slots!BusyHasRequest /\ Slots!ListFresh
         /\ Slots!OneChangePerSlot /\ Slots!RefusedOnlyWhenStale
<1> USE DEF SlotsInv
<1>1. Slots!TypeOK
  BY DEF SlotsTyped, SlotsStates, SlotsServer, Slots!TypeOK
<1>2. Slots!BusyHasRequest
  BY SlotsCalls DEF SlotsBusy, Posts, Creating, Changing, Slots!BusyHasRequest, Slots!Of
<1>3. Slots!ListFresh
  BY SlotsCalls DEF SlotsFresh, Slots!ListFresh
<1>4. Slots!OneChangePerSlot
  BY SlotsCalls DEF SlotsBusy, Changing, Slots!OneChangePerSlot, Slots!Of
<1>5. Slots!RefusedOnlyWhenStale
  BY SlotsCalls DEF SlotsFresh, Creating, Slots!RefusedOnlyWhenStale, Slots!Of
<1>6. QED
  BY <1>1, <1>2, <1>3, <1>4, <1>5

LEMMA SlotsTypes ==
  ASSUME SlotsInv
  PROVE  /\ page.slots \subseteq Slots!Slot /\ page.all \subseteq Slots!Slot /\ page.updating \in Slots!Ids \union {None}
         /\ page.dialog \in Days \union {None} /\ page.timers \in Nat /\ page.loading \in BOOLEAN /\ page.creating \in BOOLEAN
         /\ server.slots \subseteq Slots!Slot /\ server.made \in 0..MaxSlots /\ server.trouble \in Nat
         /\ \A c \in Busy : /\ c.slot \in Slots!Slot \union {None} /\ c.asked \subseteq {"post", "all"} /\ c.lists \in SlotsLists
                            /\ c.kind \in {"week", "create", "status", "delete"}
                            /\ c.stage \in {"sent", "done", "refused", "waits"}
BY DEF SlotsInv, SlotsTyped, SlotsStates, SlotsServer, SlotsRequests

\* There is room for one more slot than are being created.
LEMMA SlotsHaveRoom ==
  ASSUME SlotsInv, Slots!Room
  PROVE  server.made + 1 \in 1..MaxSlots /\ (Creating # {} => server.made + 1 < MaxSlots)
<1>0. Slots!Of({"create"}) = Creating
  BY SlotsOf DEF Of, Creating
<1>1. server.made + Cardinality(Creating) < MaxSlots /\ server.made \in 0..MaxSlots /\ MaxSlots \in Nat
  <2>1. Slots!Cardinality(Creating) = Cardinality(Creating)
    BY DEF Slots!Cardinality, Cardinality
  <2>2. server.made + Cardinality(Creating) < MaxSlots
    BY <1>0, <2>1 DEF Slots!Room
  <2>3. QED
    BY <2>2, SlotsTypes, PagesAssumption
<1>2. CASE Creating = {}
  BY <1>1, <1>2, FS_EmptySet
<1>3. ASSUME NEW c \in Creating PROVE server.made + 1 < MaxSlots
  <2>1. Creating = {c}
    BY DEF SlotsInv, SlotsBusy
  <2>2. QED
    BY <1>1, <2>1, FS_Singleton
<1>4. QED
  BY <1>1, <1>2, <1>3

LEMMA SlotsSent ==
  ASSUME SlotsInv, NEW c, Slots!Send(c)
  PROVE  /\ IsABag(calls)' /\ Busy' = Busy \union {c}
         /\ \A d \in Busy \ {c} : calls'[d] = calls[d]
         /\ c \notin Busy => calls'[c] = 1
BY SlotsCalls, AddedCall DEF SlotsInv, SlotsTyped

LEMMA SlotsEnded ==
  ASSUME SlotsInv, NEW c \in Busy, Slots!End(c)
  PROVE  /\ IsABag(calls)' /\ Busy' \subseteq Busy /\ Busy \ {c} \subseteq Busy'
         /\ calls[c] = 1 => c \notin Busy'
         /\ \A d \in Busy \ {c} : calls'[d] = calls[d]
BY SlotsCalls, EndedCall DEF SlotsInv, SlotsTyped

LEMMA SlotsTurned ==
  ASSUME SlotsInv, NEW c \in Busy, NEW d, c # d, Slots!Turn(c, d)
  PROVE  /\ IsABag(calls)' /\ d \in Busy' /\ Busy' \subseteq Busy \union {d} /\ Busy \ {c} \subseteq Busy'
         /\ calls[c] = 1 => c \notin Busy'
         /\ \A e \in Busy \ {c, d} : calls'[e] = calls[e]
         /\ d \notin Busy => calls'[d] = 1
BY SlotsCalls, TurnedCall DEF SlotsInv, SlotsTyped

LEMMA SlotsTrouble ==
  ASSUME SlotsInv, NEW happens \in BOOLEAN, Slots!Trouble(happens)
  PROVE  server' \in SlotsServer /\ \A k \in DOMAIN server \ {"trouble"} : server'[k] = server[k]
BY DEF SlotsInv, SlotsTyped, SlotsServer, Slots!Trouble

\* What others do is excused.
LEMMA SlotsOthers == ASSUME SlotsInv, Slots!OthersChange PROVE SlotsInv'
<1> USE DEF SlotsInv
<1>1. server' \in SlotsServer /\ server'.made \in {server.made, server.made + 1}
      /\ (server'.made # server.made => Slots!Room)
  <2>1. ASSUME NEW new, new \subseteq Slots!Slot,
               server' = [server EXCEPT !.trouble = @ + 1, !.slots = new]
        PROVE  server' \in SlotsServer /\ server'.made = server.made
    <3>1. new \in SUBSET Slots!Slot /\ server.trouble + 1 \in Nat
      BY <2>1, SlotsTypes
    <3>2. QED
      BY <2>1, <3>1 DEF SlotsTyped, SlotsServer
  <2>2. ASSUME NEW s \in server.slots, server' = [server EXCEPT !.trouble = @ + 1,
                                                    !.slots = (@ \ {s}) \union {[s EXCEPT !.status = "booked"]}]
        PROVE  server' \in SlotsServer /\ server'.made = server.made
    <3> DEFINE new == (server.slots \ {s}) \union {[s EXCEPT !.status = "booked"]}
    <3>1. [s EXCEPT !.status = "booked"] \in Slots!Slot
      BY SlotsTypes DEF Slots!Slot
    <3>2. new \subseteq Slots!Slot
      BY <3>1, SlotsTypes
    <3>3. server' = [server EXCEPT !.trouble = @ + 1, !.slots = new]
      BY <2>2
    <3> HIDE DEF new
    <3>4. QED
      BY <2>1, <3>2, <3>3
  <2>3. ASSUME NEW s \in server.slots, server' = [server EXCEPT !.trouble = @ + 1, !.slots = @ \ {s}]
        PROVE  server' \in SlotsServer /\ server'.made = server.made
    <3> DEFINE new == server.slots \ {s}
    <3>1. new \subseteq Slots!Slot
      BY SlotsTypes
    <3>2. server' = [server EXCEPT !.trouble = @ + 1, !.slots = new]
      BY <2>3
    <3> HIDE DEF new
    <3>3. QED
      BY <2>1, <3>1, <3>2
  <2>4. ASSUME NEW d \in Days, Slots!Room,
               server' = [server EXCEPT !.trouble = @ + 1, !.made = @ + 1,
                            !.slots = @ \union {[id |-> server.made + 1, start |-> d, len |-> 1, status |-> "available", mine |-> FALSE]}]
        PROVE  server' \in SlotsServer /\ server'.made = server.made + 1
    <3> DEFINE s == [id |-> server.made + 1, start |-> d, len |-> 1, status |-> "available", mine |-> FALSE]
               new == server.slots \union {s}
    <3>1. server.made + 1 \in 1..MaxSlots
      BY <2>4, SlotsHaveRoom
    <3>2. s \in Slots!Slot
      BY <3>1 DEF Slots!Slot, Slots!Ids
    <3>3. server' = [server EXCEPT !.trouble = @ + 1, !.made = @ + 1, !.slots = new]
      BY <2>4
    <3> HIDE DEF s
    <3>4. new \in SUBSET Slots!Slot /\ server.trouble + 1 \in Nat
      BY <3>2, SlotsTypes
    <3>5. server.made + 1 \in 0..MaxSlots
      BY <3>1, SlotsTypes, PagesAssumption
    <3> HIDE DEF new
    <3>6. QED
      BY <3>3, <3>4, <3>5 DEF SlotsTyped, SlotsServer
  <2>5. QED
    BY <2>2, <2>3, <2>4, SlotsTypes DEF Slots!OthersChange
<1>2. "excused" \in seen' /\ seen' = seen \union {"excused"} /\ UNCHANGED <<page, calls>>
  BY DEF Slots!OthersChange, Slots!Saw
<1>3. SlotsTyped'
  BY <1>1, <1>2 DEF SlotsTyped, Busy
<1>4. SlotsBusy'
  <2>1. \A c \in Creating : c.stage = "sent" => server'.made < MaxSlots
    BY <1>1, SlotsHaveRoom DEF SlotsBusy
  <2>2. QED
    BY <1>2, <2>1 DEF SlotsBusy, Posts, Creating, Changing, Busy
<1>5. QED
  BY <1>2, <1>3, <1>4 DEF SlotsFresh

\* What the user does, and the timer that closes the dialog.
LEMMA SlotsClicked ==
  ASSUME SlotsInv,
         \/ Slots!ChangeWeek \/ Slots!CloseDialog \/ Slots!TimerFires
         \/ \E d \in Days : Slots!OpenDialog(d)
  PROVE  SlotsInv'
<1> USE DEF SlotsInv
<1>1. CASE Slots!ChangeWeek
  <2> DEFINE c == Slots!Loads
  <2>1. page.dialog = None /\ Slots!Send(c) /\ page' = [page EXCEPT !.loading = TRUE] /\ UNCHANGED <<server, seen>>
    BY <1>1 DEF Slots!ChangeWeek
  <2>2. c \in SlotsRequests /\ c.kind = "week" /\ c.stage = "waits" /\ c.asked = {"post"} /\ DOMAIN c.lists = {}
    BY SlotsLoad
  <2> HIDE DEF c
  <2>3. page' \in SlotsStates /\ page'.loading /\ \A k \in DOMAIN page \ {"loading"} : page'[k] = page[k]
    BY <2>1 DEF SlotsTyped, SlotsStates
  <2>4. QED
    BY <2>1, <2>2, <2>3, SlotsSent DEF SlotsTyped, SlotsBusy, SlotsFresh, SlotsStates, Posts, Coming, Creating, Changing,
      Slots!Accepts
<1>2. ASSUME NEW d \in Days \union {None}, NEW n \in Nat, d = None \/ ~page.loading, page' = [page EXCEPT !.dialog = d, !.timers = n],
             UNCHANGED <<server, calls, seen>>
      PROVE  SlotsInv'
  <2>1. page' \in SlotsStates /\ page'.dialog = d /\ \A k \in DOMAIN page \ {"dialog", "timers"} : page'[k] = page[k]
    BY <1>2 DEF SlotsTyped, SlotsStates
  <2>2. QED
    BY <1>2, <2>1 DEF SlotsTyped, SlotsBusy, SlotsFresh, SlotsStates, Posts, Coming, Creating, Changing, Slots!Accepts, Busy
<1>3. CASE Slots!CloseDialog
  <2>1. page' = [page EXCEPT !.dialog = None, !.timers = page.timers]
    BY <1>3 DEF Slots!CloseDialog, SlotsTyped, SlotsStates
  <2>2. QED
    BY <1>2, <1>3, <2>1, SlotsTypes DEF Slots!CloseDialog
<1>4. CASE Slots!TimerFires
  <2>1. page' = [page EXCEPT !.dialog = None, !.timers = page.timers - 1]
    BY <1>4 DEF Slots!TimerFires, SlotsTyped, SlotsStates
  <2>2. page.timers - 1 \in Nat
    BY <1>4, SlotsTypes DEF Slots!TimerFires
  <2>3. QED
    BY <1>2, <1>4, <2>1, <2>2 DEF Slots!TimerFires
<1>5. ASSUME NEW d \in Days, Slots!OpenDialog(d) PROVE SlotsInv'
  <2>1. page' = [page EXCEPT !.dialog = d, !.timers = page.timers] /\ ~page.loading
    BY <1>5 DEF Slots!OpenDialog, Slots!CanOpen, SlotsTyped, SlotsStates
  <2>2. page.timers \in Nat /\ d \in Days \union {None} /\ UNCHANGED <<server, calls, seen>>
    BY <1>5, SlotsTypes DEF Slots!OpenDialog
  <2>3. QED
    BY <1>2, <2>1, <2>2
<1>6. QED
  BY <1>1, <1>3, <1>4, <1>5

\* What the user sends.
LEMMA SlotsRequest ==
  ASSUME NEW kind \in {"create", "status", "delete"}, NEW s \in Slots!Slot
  PROVE  LET c == Slots!Request(kind, s)
         IN  /\ c \in SlotsRequests /\ c.kind = kind /\ c.slot = s /\ c.stage = "sent"
             /\ c.asked = {} /\ DOMAIN c.lists = {}
BY SlotsLoad DEF Slots!Request, SlotsRequests

LEMMA SlotsDays == \A s \in Slots!Slot : s.start \in Nat /\ s.len \in {1, 2}
<1>1. \A d \in Days : d \in Nat
  BY PagesAssumption
<1>2. QED
  BY <1>1 DEF Slots!Slot

LEMMA SlotsSubmitted == ASSUME SlotsInv, NEW n \in {1, 2}, Slots!Submit(n) PROVE SlotsInv'
<1> USE DEF SlotsInv
<1> DEFINE s == [id |-> 1, start |-> page.dialog, len |-> n, status |-> "available", mine |-> TRUE]
           c == Slots!Request("create", s)
<1>1. page.dialog # None /\ ~page.creating /\ Slots!Room /\ UNCHANGED <<server, seen>>
  BY DEF Slots!Submit, Slots!CanSubmit
<1>2. s \in Slots!Slot /\ s.start = page.dialog /\ s.len = n
  BY <1>1, SlotsTypes, PagesAssumption DEF Slots!Slot, Slots!Ids
<1>3. CASE UNCHANGED <<page, calls>>
  BY <1>1, <1>3 DEF SlotsTyped, SlotsBusy, SlotsFresh, Posts, Coming, Creating, Changing, Slots!Accepts, Busy
<1>4. CASE /\ ~\E t \in page.all : Slots!Overlaps(s, t)
           /\ page' = [page EXCEPT !.creating = TRUE] /\ Slots!Send(c)
  <2>1. c \in SlotsRequests /\ c.kind = "create" /\ c.slot = s /\ c.stage = "sent" /\ c.asked = {} /\ DOMAIN c.lists = {}
    BY <1>2, SlotsRequest
  <2>2. Creating = {} /\ server.made < MaxSlots
    BY <1>1, SlotsHaveRoom, SlotsTypes, PagesAssumption DEF SlotsBusy
  <2>3. "excused" \notin seen => Slots!Accepts(s)
    <3> SUFFICES ASSUME "excused" \notin seen, NEW t \in server.slots, t.status # "closed"
                 PROVE  t.start + t.len <= s.start \/ s.start + s.len <= t.start
      BY DEF Slots!Accepts
    <3>1. t \in page.all
      BY <1>1, <2>2 DEF SlotsFresh
    <3>2. ~Slots!Overlaps(s, t)
      BY <1>4, <3>1
    <3> HIDE DEF s
    <3>3. t.start \in Nat /\ t.len \in {1, 2} /\ s.start \in Nat /\ s.len \in {1, 2}
      BY <1>2, SlotsTypes, SlotsDays
    <3>4. QED
      BY <3>2, <3>3 DEF Slots!Overlaps
  <2>4. page' \in SlotsStates /\ page'.creating /\ \A k \in DOMAIN page \ {"creating"} : page'[k] = page[k]
    BY <1>4 DEF SlotsTyped, SlotsStates
  <2>5. Slots!Send(c)
    BY <1>4
  <2> HIDE DEF c, s
  <2>6. SlotsTyped' /\ SlotsBusy'
    BY <1>1, <1>2, <2>1, <2>2, <2>4, <2>5, SlotsSent DEF SlotsTyped, SlotsBusy, SlotsStates, Posts, Creating, Changing
  <2>7. SlotsFresh'
    <3>1. \A t : Slots!Accepts(t)' <=> Slots!Accepts(t)
      BY <1>1 DEF Slots!Accepts
    <3>2. QED
      BY <1>1, <2>1, <2>2, <2>3, <2>4, <2>5, <3>1, SlotsSent DEF SlotsTyped, SlotsFresh, SlotsStates, Posts, Coming, Creating
  <2>8. QED
    BY <2>6, <2>7
<1>5. QED
  BY <1>3, <1>4 DEF Slots!Submit

LEMMA SlotsChanged ==
  ASSUME SlotsInv, NEW s \in page.slots, NEW kind \in {"status", "delete"}, Slots!Change(kind, s)
  PROVE  SlotsInv'
<1> USE DEF SlotsInv
<1> DEFINE c == Slots!Request(kind, s)
<1>1. /\ page.updating # s.id /\ ~page.loading /\ Slots!Send(c)
      /\ page' = [page EXCEPT !.updating = s.id]
      /\ seen' = seen \union (IF \E d \in Changing : d.slot.id # s.id THEN {"several"} ELSE {})
      /\ UNCHANGED server
  BY SlotsOf DEF Slots!Change, Slots!Actionable, Slots!Grid, Slots!Saw, Slots!If, Changing, Of
<1>2. c \in SlotsRequests /\ c.kind = kind /\ c.slot = s /\ c.stage = "sent" /\ c.asked = {} /\ DOMAIN c.lists = {}
  BY SlotsTypes, SlotsRequest
<1>3. s \in Slots!Slot /\ s.id \in Slots!Ids
  BY SlotsTypes DEF Slots!Slot
<1> HIDE DEF c
<1>4. page' \in SlotsStates /\ page'.updating = s.id /\ \A k \in DOMAIN page \ {"updating"} : page'[k] = page[k]
  BY <1>1, <1>3 DEF SlotsTyped, SlotsStates
<1>5. SlotsTyped' /\ SlotsBusy'
  BY <1>1, <1>2, <1>3, <1>4, SlotsSent DEF SlotsTyped, SlotsBusy, SlotsStates, Posts, Creating, Changing
<1>6. SlotsFresh'
  BY <1>1, <1>2, <1>4, SlotsSent DEF SlotsFresh, SlotsTyped, SlotsStates, Posts, Coming, Creating, Slots!Accepts
<1>7. QED
  BY <1>5, <1>6

\* The server's side: what a request asked for is read, a slot is made, or
\* closed or deleted.
LEMMA SlotsRead == ASSUME SlotsInv, NEW c \in Busy, Slots!Reads(c) PROVE SlotsInv'
<1> USE DEF SlotsInv
<1>1. PICK x \in c.asked :
        Slots!Turn(c, [c EXCEPT !.asked = @ \ {x},
                                !.lists = [y \in DOMAIN @ \union {x} |-> IF y = x THEN server.slots ELSE @[y]]])
  BY DEF Slots!Reads
<1> DEFINE lists == [y \in DOMAIN c.lists \union {x} |-> IF y = x THEN server.slots ELSE c.lists[y]]
           d == [c EXCEPT !.asked = @ \ {x}, !.lists = lists]
<1>2. UNCHANGED <<page, server, seen>> /\ Slots!Turn(c, d)
  BY <1>1 DEF Slots!Reads
<1>3. lists \in SlotsLists /\ DOMAIN lists = DOMAIN c.lists \union {x}
  <2>1. PICK D \in SUBSET {"post", "all"} : c.lists \in [D -> SUBSET Slots!Slot]
    BY SlotsTypes DEF SlotsLists
  <2>2. lists \in [D \union {x} -> SUBSET Slots!Slot] /\ D \union {x} \in SUBSET {"post", "all"}
    BY <2>1, SlotsTypes
  <2>3. QED
    BY <2>1, <2>2 DEF SlotsLists
<1> HIDE DEF lists
<1>4. /\ d \in SlotsRequests /\ d.kind = c.kind /\ d.slot = c.slot /\ d.stage = c.stage
      /\ d.asked = c.asked \ {x} /\ d.lists = lists
  BY <1>3 DEF SlotsTyped, SlotsRequests
<1>5. c # d
  BY <1>4
<1> HIDE DEF d
<1>6. c.stage = "waits" /\ (Posts(d) <=> Posts(c)) /\ (c.kind = "week" => "all" \notin d.asked \union DOMAIN d.lists)
  BY <1>3, <1>4, SlotsTypes DEF SlotsTyped, Posts
<1>7. SlotsTyped' /\ SlotsBusy'
  BY <1>2, <1>4, <1>5, <1>6, SlotsTurned DEF SlotsTyped, SlotsBusy, Creating, Changing
<1>8. SlotsFresh'
  BY <1>2, <1>4, <1>5, <1>6, SlotsTurned DEF SlotsFresh, Coming, Creating, Slots!Accepts
<1>9. QED
  BY <1>7, <1>8

\* A request whose stage is all that changes.
LEMMA SlotsStaged ==
  ASSUME SlotsInv, NEW c \in Busy, NEW stage \in {"done", "refused"}, c.stage = "sent"
  PROVE  LET d == [c EXCEPT !.stage = stage]
         IN  /\ d \in SlotsRequests /\ d.kind = c.kind /\ d.slot = c.slot /\ d.stage = stage /\ d # c
             /\ d.asked = {} /\ DOMAIN d.lists = {} /\ c.kind # "week" /\ c.slot \in Slots!Slot
BY DEF SlotsInv, SlotsTyped, SlotsRequests

LEMMA SlotsCreated == ASSUME SlotsInv, NEW c \in Busy, Slots!Creates(c) PROVE SlotsInv'
<1> USE DEF SlotsInv
<1> DEFINE s == [c.slot EXCEPT !.id = server.made + 1]
<1>1. c.kind = "create" /\ c.stage = "sent" /\ UNCHANGED <<page, seen>>
  BY DEF Slots!Creates
<1>2. c.slot \in Slots!Slot /\ server.made < MaxSlots /\ c \in Creating
  BY <1>1 DEF SlotsTyped, SlotsBusy, Creating
<1>3. server.made + 1 \in 1..MaxSlots /\ server.made + 1 \in 0..MaxSlots
  BY <1>2, SlotsTypes, PagesAssumption
<1>4. s \in Slots!Slot /\ s.start = c.slot.start /\ s.len = c.slot.len
  BY <1>2, <1>3 DEF Slots!Slot, Slots!Ids
<1> HIDE DEF s
<1>5. CASE Slots!Accepts(s)
  <2> DEFINE d == [c EXCEPT !.stage = "done"]
             new == server.slots \union {s}
  <2>1. Slots!Turn(c, d) /\ server' = [server EXCEPT !.slots = new, !.made = @ + 1]
    BY <1>5 DEF Slots!Creates, s
  <2>2. /\ d \in SlotsRequests /\ d.kind = "create" /\ d.slot = c.slot /\ d.stage = "done" /\ d # c
        /\ d.asked = {} /\ DOMAIN d.lists = {}
    BY <1>1, SlotsStaged
  <2>3. new \in SUBSET Slots!Slot
    BY <1>4, SlotsTypes
  <2> HIDE DEF d, new
  <2>4. server' \in SlotsServer
    BY <1>3, <2>1, <2>3 DEF SlotsTyped, SlotsServer
  <2>5. Creating = {c} /\ calls[c] = 1 /\ d \notin Busy
    BY <1>2, <2>2 DEF SlotsBusy, Creating
  <2>6. SlotsTyped'
    BY <1>1, <1>2, <2>1, <2>2, <2>4, SlotsTurned DEF SlotsTyped
  <2>7. SlotsBusy'
    <3>1. /\ Creating' = {d} /\ calls'[d] = 1 /\ Changing' = Changing
          /\ \A e \in Busy \ {c} : e \in Busy' /\ calls'[e] = calls[e]
      BY <1>1, <2>1, <2>2, <2>5, SlotsTurned DEF Creating, Changing
    <3>2. page.loading => \E e \in Busy' : Posts(e)
      BY <1>1, <3>1 DEF SlotsTyped, SlotsBusy, Posts
    <3>3. \A e \in Changing : e # c
      BY <1>1 DEF Changing
    <3>4. QED
      BY <1>1, <2>2, <2>5, <3>1, <3>2, <3>3 DEF SlotsBusy, Changing, Posts
  <2>8. SlotsFresh'
    BY <1>1, <2>1, <2>2, <2>5, SlotsTurned DEF SlotsFresh, Coming, Posts, Creating
  <2>9. QED
    BY <2>6, <2>7, <2>8
<1>6. CASE ~Slots!Accepts(s)
  <2> DEFINE d == [c EXCEPT !.stage = "refused"]
  <2>1. Slots!Turn(c, d) /\ UNCHANGED server
    BY <1>6 DEF Slots!Creates, s
  <2>2. /\ d \in SlotsRequests /\ d.kind = "create" /\ d.slot = c.slot /\ d.stage = "refused" /\ d # c
        /\ d.asked = {} /\ DOMAIN d.lists = {}
    BY <1>1, SlotsStaged
  <2> HIDE DEF d
  <2>3. "excused" \in seen
    BY <1>1, <1>2, <1>4, <1>6 DEF SlotsFresh, Slots!Accepts
  <2>4. SlotsTyped' /\ SlotsBusy'
    BY <1>1, <1>2, <2>1, <2>2, SlotsTurned DEF SlotsTyped, SlotsBusy, Posts, Creating, Changing
  <2>5. QED
    BY <1>1, <2>3, <2>4 DEF SlotsFresh
<1>7. QED
  BY <1>5, <1>6

LEMMA SlotsMade == ASSUME SlotsInv, NEW c \in Busy, Slots!Changes(c) PROVE SlotsInv'
<1> USE DEF SlotsInv
<1> DEFINE rows == {s \in server.slots : s.id = c.slot.id}
           closed == {[s EXCEPT !.status = "closed"] : s \in rows}
           new == (server.slots \ rows) \union (IF c.kind = "status" THEN closed ELSE {})
           stage == IF rows = {} THEN "refused" ELSE "done"
           d == [c EXCEPT !.stage = stage]
<1>1. /\ c.kind \in {"status", "delete"} /\ c.stage = "sent" /\ Slots!Turn(c, d)
      /\ server' = [server EXCEPT !.slots = new] /\ UNCHANGED <<page, seen>>
  BY DEF Slots!Changes
<1>2. \A t \in closed : t \in Slots!Slot /\ t.status = "closed"
  BY SlotsTypes DEF Slots!Slot
<1>3. stage \in {"done", "refused"} /\ (stage # "done" => rows = {})
  OBVIOUS
<1> HIDE DEF closed, stage
<1>4. /\ new \subseteq Slots!Slot /\ (rows = {} /\ closed = {} => new = server.slots)
      /\ \A t \in new : t.status # "closed" => t \in server.slots
  BY <1>2, SlotsTypes
<1>5. rows = {} => closed = {}
  BY DEF closed
<1> HIDE DEF rows, new
<1>6. /\ d \in SlotsRequests /\ d.kind = c.kind /\ d.slot = c.slot /\ d.stage = stage /\ d # c
      /\ d.asked = {} /\ DOMAIN d.lists = {} /\ c.slot \in Slots!Slot
  <2>1. \/ d = [c EXCEPT !.stage = "done"] /\ stage = "done"
        \/ d = [c EXCEPT !.stage = "refused"] /\ stage = "refused"
    BY <1>3
  <2>2. c.stage = "sent"
    BY <1>1
  <2> HIDE DEF d
  <2>3. CASE d = [c EXCEPT !.stage = "done"] /\ stage = "done"
    BY <1>1, <2>2, <2>3, SlotsStaged
  <2>4. CASE d = [c EXCEPT !.stage = "refused"] /\ stage = "refused"
    BY <1>1, <2>2, <2>4, SlotsStaged
  <2>5. QED
    BY <2>1, <2>3, <2>4
<1> HIDE DEF d
<1>7. server' \in SlotsServer /\ server'.slots = new /\ server'.made = server.made
  BY <1>1, <1>4 DEF SlotsTyped, SlotsServer
<1>8. SlotsTyped' /\ SlotsBusy'
  BY <1>1, <1>6, <1>7, SlotsTurned DEF SlotsTyped, SlotsBusy, Posts, Creating, Changing
<1>9. SlotsFresh'
  <2> SUFFICES ASSUME "excused" \notin seen PROVE SlotsFresh'
    BY <1>1 DEF SlotsFresh
  <2>1. Creating' = Creating
    BY <1>1, <1>6, SlotsTurned DEF Creating
  <2>2. \A e \in Creating : e.stage # "refused" /\ (e.stage = "sent" => Slots!Accepts(e.slot)')
    BY <1>4, <1>7 DEF SlotsFresh, Slots!Accepts
  <2>3. \A e \in Busy : Coming(e) => e \in Busy'
    BY <1>1, <1>6, SlotsTurned DEF SlotsTyped, Coming, Posts
  <2>4. server'.slots = server.slots \/ Coming(d)
    BY <1>3, <1>4, <1>5, <1>6, <1>7 DEF Coming
  <2>5. d \in Busy'
    BY <1>1, <1>6, SlotsTurned
  <2>6. \/ page'.all = server'.slots /\ page'.slots = {s \in server'.slots : s.mine}
        \/ \E e \in Busy' : Coming(e)
    BY <1>1, <2>3, <2>4, <2>5 DEF SlotsFresh
  <2>7. \/ \A t \in server'.slots : t.status # "closed" => t \in page'.all
        \/ page'.loading /\ page'.dialog = None /\ Creating' = {}
        \/ \E e \in Creating' : Coming(e)
    BY <1>1, <1>4, <1>7, <2>1 DEF SlotsFresh
  <2>8. QED
    BY <2>1, <2>2, <2>6, <2>7 DEF SlotsFresh, Coming, Posts
<1>10. QED
  BY <1>8, <1>9

\* A request is answered by the server.
LEMMA SlotsSucceeded == ASSUME SlotsInv, NEW c \in Busy, Slots!Succeeds(c) PROVE SlotsInv'
<1> USE DEF SlotsInv
<1> DEFINE d == [c EXCEPT !.stage = "waits", !.asked = {"post", "all"}]
<1>1. /\ c.stage = "done" /\ Slots!Turn(c, d)
      /\ page' = [page EXCEPT !.loading = TRUE]
      /\ UNCHANGED <<server, seen>>
  BY DEF Slots!Succeeds
<1>2. /\ d \in SlotsRequests /\ d.kind = c.kind /\ d.slot = c.slot /\ d.stage = "waits" /\ d # c
      /\ Posts(d) /\ c.kind # "week"
  BY <1>1 DEF SlotsTyped, SlotsRequests, Posts
<1> HIDE DEF d
<1>3. page' \in SlotsStates /\ page'.loading /\ \A k \in DOMAIN page \ {"loading"} : page'[k] = page[k]
  BY <1>1 DEF SlotsTyped, SlotsStates
<1>4. SlotsTyped' /\ SlotsBusy'
  BY <1>1, <1>2, <1>3, SlotsTurned DEF SlotsTyped, SlotsBusy, SlotsStates, Posts, Creating, Changing
<1>5. SlotsFresh'
  BY <1>1, <1>2, <1>3, SlotsTurned DEF SlotsFresh, SlotsTyped, SlotsStates, Coming, Creating, Slots!Accepts
<1>6. QED
  BY <1>4, <1>5

\* A request ends, with its lists or without.
LEMMA SlotsOver ==
  ASSUME SlotsInv, NEW c \in Busy, Slots!Refused(c) \/ Slots!Finished(c)
  PROVE  SlotsInv'
<1> USE DEF SlotsInv
<1>1. /\ Slots!End(c) /\ ~Posts(c) /\ c.kind # "week"
      /\ server' \in SlotsServer /\ \A k \in DOMAIN server \ {"trouble"} : server'[k] = server[k]
  <2>1. CASE Slots!Refused(c)
    BY <2>1, SlotsTrouble DEF Slots!Refused, SlotsTyped, Posts
  <2>2. CASE Slots!Finished(c)
    <3>1. c.kind # "week"
      BY <2>2 DEF Slots!Finished, SlotsTyped, Posts
    <3>2. QED
      BY <2>2, <3>1 DEF Slots!Finished, SlotsTyped, Posts
  <2>3. QED
    BY <2>1, <2>2
<1>2. PICK creating \in BOOLEAN, timers \in Nat, updating \in Slots!Ids \union {None} :
        /\ page' = [page EXCEPT !.creating = creating, !.timers = timers, !.updating = updating]
        /\ IF c.kind = "create" THEN ~creating /\ updating = page.updating ELSE creating = page.creating /\ updating = None
  <2>1. CASE c.kind = "create"
    <3>1. \/ page' = [page EXCEPT !.creating = FALSE, !.timers = page.timers, !.updating = page.updating]
          \/ page' = [page EXCEPT !.creating = FALSE, !.timers = page.timers + 1, !.updating = page.updating]
      BY <2>1 DEF Slots!Refused, Slots!Finished, SlotsTyped, SlotsStates
    <3>2. page.timers \in Nat /\ page.timers + 1 \in Nat /\ page.updating \in Slots!Ids \union {None}
      BY SlotsTypes
    <3>3. QED
      BY <2>1, <3>1, <3>2
  <2>2. CASE c.kind # "create"
    <3>1. page' = [page EXCEPT !.creating = page.creating, !.timers = page.timers, !.updating = None]
      BY <2>2 DEF Slots!Refused, Slots!Finished, SlotsTyped, SlotsStates
    <3>2. QED
      BY <2>2, <3>1, SlotsTypes
  <2>3. QED
    BY <2>1, <2>2
<1>3. page' \in SlotsStates /\ page'.creating = creating /\ page'.updating = updating
      /\ \A k \in DOMAIN page \ {"creating", "timers", "updating"} : page'[k] = page[k]
  BY <1>2 DEF SlotsTyped, SlotsStates
<1>4. seen \subseteq seen' /\ seen' \subseteq seen \union {"excused"} /\ (c.stage \in {"sent", "done"} => "excused" \in seen')
  BY DEF Slots!Refused, Slots!Finished, Slots!Saw, Slots!If
<1>5. SlotsTyped'
  BY <1>1, <1>3, <1>4, SlotsEnded DEF SlotsTyped
<1>6. SlotsBusy'
  BY <1>1, <1>2, <1>3, <1>4, SlotsEnded, SlotsTypes
     DEF SlotsTyped, SlotsServer, SlotsStates, SlotsBusy, Posts, Creating, Changing
<1>7. SlotsFresh'
  <2> SUFFICES ASSUME "excused" \notin seen' PROVE SlotsFresh'
    BY DEF SlotsFresh
  <2>1. ~Coming(c) /\ "excused" \notin seen
    BY <1>1, <1>4, SlotsTypes DEF Coming
  <2>2. \A e \in Busy : Coming(e) => e \in Busy'
    BY <1>1, <2>1, SlotsEnded
  <2>3. Creating' \subseteq Creating /\ \A e \in Creating : Coming(e) => e \in Creating'
    BY <1>1, <2>2, SlotsEnded DEF Creating
  <2>4. server'.slots = server.slots /\ page'.all = page.all /\ page'.slots = page.slots /\ page'.loading = page.loading
        /\ page'.dialog = page.dialog
    BY <1>1, <1>3 DEF SlotsTyped, SlotsServer, SlotsStates
  <2>5. \A t : Slots!Accepts(t)' <=> Slots!Accepts(t)
    BY <2>4 DEF Slots!Accepts
  <2>6. QED
    BY <2>1, <2>2, <2>3, <2>4, <2>5 DEF SlotsFresh
<1>8. QED
  BY <1>5, <1>6, <1>7

\* A list has come, or its load failed; one that is not what the server has by
\* now is excused.
LEMMA SlotsLoaded ==
  ASSUME SlotsInv, NEW c \in Busy, NEW list \in {{}} \union {c.lists[x] : x \in DOMAIN c.lists},
         Slots!PostLoaded(c, list) \/ Slots!AllLoaded(c, list)
  PROVE  SlotsInv'
<1> USE DEF SlotsInv
<1>0. list \subseteq Slots!Slot
  <2>1. PICK D \in SUBSET {"post", "all"} : c.lists \in [D -> SUBSET Slots!Slot]
    BY SlotsTypes DEF SlotsLists
  <2>2. \A x \in DOMAIN c.lists : c.lists[x] \in SUBSET Slots!Slot
    BY <2>1
  <2>3. QED
    BY <2>2
<1>1. PICK x \in {"post", "all"} :
        /\ Slots!Took(c, x, list)
        /\ IF x = "post" THEN page' = [page EXCEPT !.slots = {s \in list : s.mine}, !.all = list, !.loading = FALSE]
           ELSE page' = [page EXCEPT !.all = list]
  BY DEF Slots!PostLoaded, Slots!AllLoaded
<1> DEFINE lists == [y \in DOMAIN c.lists \ {x} |-> c.lists[y]]
           d == [c EXCEPT !.asked = @ \ {x}, !.lists = lists]
<1>2. /\ x \in c.asked \union DOMAIN c.lists
      /\ IF c.kind = "week" THEN Slots!End(c) ELSE Slots!Turn(c, d)
      /\ seen' = seen \union (IF list # server.slots THEN {"excused"} ELSE {})
  BY <1>1 DEF Slots!Took, Slots!Saw, Slots!If, SlotsTyped, SlotsRequests
<1>3. server' \in SlotsServer /\ \A k \in DOMAIN server \ {"trouble"} : server'[k] = server[k]
  BY <1>1, SlotsTrouble DEF Slots!Took
<1>4. lists \in SlotsLists /\ DOMAIN lists = DOMAIN c.lists \ {x}
  <2>1. PICK D \in SUBSET {"post", "all"} : c.lists \in [D -> SUBSET Slots!Slot]
    BY SlotsTypes DEF SlotsLists
  <2>2. lists \in [D \ {x} -> SUBSET Slots!Slot] /\ D \ {x} \in SUBSET {"post", "all"}
    BY <2>1
  <2>3. QED
    BY <2>1, <2>2 DEF SlotsLists
<1> HIDE DEF lists
<1>5. /\ d \in SlotsRequests /\ d.kind = c.kind /\ d.slot = c.slot /\ d.stage = c.stage
      /\ d.asked = c.asked \ {x} /\ d.lists = lists
  BY <1>4 DEF SlotsTyped, SlotsRequests
<1>6. c # d /\ c.stage = "waits"
  BY <1>2, <1>4, <1>5 DEF SlotsTyped
<1> HIDE DEF d
<1>7. /\ page' \in SlotsStates /\ page'.all = list
      /\ \A k \in DOMAIN page \ {"slots", "all", "loading"} : page'[k] = page[k]
      /\ IF x = "post" THEN page'.slots = {s \in list : s.mine} /\ ~page'.loading
         ELSE page'.slots = page.slots /\ page'.loading = page.loading
  <2>1. list \in SUBSET Slots!Slot /\ {s \in list : s.mine} \in SUBSET Slots!Slot
    BY <1>0
  <2>2. QED
    BY <1>1, <2>1 DEF SlotsTyped, SlotsStates
<1>8. x = "all" => c.kind # "week" /\ (Posts(c) <=> Posts(d))
  BY <1>2, <1>4, <1>5 DEF SlotsTyped, Posts
<1>9. /\ IsABag(calls)' /\ Busy' \subseteq Busy \union {d} /\ Busy \ {c} \subseteq Busy'
      /\ calls[c] = 1 => c \notin Busy'
      /\ \A e \in Busy \ {c, d} : calls'[e] = calls[e]
      /\ c.kind # "week" => d \in Busy' /\ (d \notin Busy => calls'[d] = 1)
      /\ c.kind = "week" => Busy' \subseteq Busy
  BY <1>2, <1>6, SlotsTurned, SlotsEnded
<1>10. SlotsTyped'
  BY <1>2, <1>3, <1>4, <1>5, <1>6, <1>7, <1>9 DEF SlotsTyped
<1>11. SlotsBusy'
  BY <1>2, <1>3, <1>5, <1>6, <1>7, <1>8, <1>9 DEF SlotsBusy, SlotsTyped, SlotsServer, SlotsStates, Creating, Changing
<1>12. SlotsFresh'
  <2> SUFFICES ASSUME "excused" \notin seen' PROVE SlotsFresh'
    BY DEF SlotsFresh
  <2>1. server'.slots = server.slots /\ page'.all = server.slots /\ "excused" \notin seen
    BY <1>2, <1>3, <1>7 DEF SlotsTyped, SlotsServer
  <2>2. \A t : Slots!Accepts(t)' <=> Slots!Accepts(t)
    BY <2>1 DEF Slots!Accepts
  <2>3. \A e \in Creating' : e.stage # "refused" /\ (e.stage = "sent" => Slots!Accepts(e.slot))
    BY <1>5, <1>6, <1>9, <2>1 DEF SlotsFresh, Creating
  <2>4. CASE x = "post"
    BY <1>7, <2>1, <2>2, <2>3, <2>4 DEF SlotsFresh
  <2>5. CASE x = "all"
    <3>1. \A e \in Busy : Coming(e) => e \in Busy' \/ (Coming(d) /\ d \in Busy')
      BY <1>6, <1>8, <1>9, <2>5 DEF Coming
    <3>2. page'.slots = page.slots
      BY <1>7, <2>5
    <3>3. \/ page'.all = server'.slots /\ page'.slots = {s \in server'.slots : s.mine}
          \/ \E e \in Busy' : Coming(e)
      BY <2>1, <3>1, <3>2 DEF SlotsFresh
    <3>4. QED
      BY <2>1, <2>2, <2>3, <3>3 DEF SlotsFresh, Coming, Posts
  <2>6. QED
    BY <2>4, <2>5
<1>13. QED
  BY <1>10, <1>11, <1>12

LEMMA SlotsStep == SlotsInv /\ Slots!Next => SlotsInv'
<1> SUFFICES ASSUME SlotsInv, Slots!Next PROVE SlotsInv'
  OBVIOUS
<1>1. ASSUME NEW c \in Busy,
             \/ Slots!Reads(c) \/ Slots!Creates(c) \/ Slots!Changes(c) \/ Slots!Succeeds(c) \/ Slots!Refused(c) \/ Slots!Finished(c)
             \/ \E list \in {{}} \union {c.lists[x] : x \in DOMAIN c.lists} : Slots!PostLoaded(c, list) \/ Slots!AllLoaded(c, list)
      PROVE  SlotsInv'
  BY <1>1, SlotsRead, SlotsCreated, SlotsMade, SlotsSucceeded, SlotsOver, SlotsLoaded
<1>2. QED
  BY <1>1, SlotsOthers, SlotsClicked, SlotsSubmitted, SlotsChanged, SlotsCalls DEF Slots!Next

(***************************************************************************)
(* The panel of payments.                                                  *)
(***************************************************************************)

LEMMA PaymentsCalls ==
  /\ Payments!Busy = Busy
  /\ \A c : Payments!Send(c) => Added(c)
  /\ \A c : Payments!End(c) <=> End(c)
  /\ \A c, d : Payments!Turn(c, d) <=> Turn(c, d)
  /\ \A c : Payments!Only(c) = Only(c)
BY DEF Payments!Busy, Payments!BagToSet, Busy, BagToSet, Payments!Send, Payments!End, Payments!Turn, Payments!Only,
       Payments!(+), Payments!(-), Payments!SetToBag, Added, End, Turn, Only, SetToBag, (+), (-)

\* What may be under way: loads, of which those that have been read bring rows,
\* and markings of a session.
PaymentsLoads == [kind : {"load"}, of : Sessions \union {None}, stage : {"sent", "done"}, rows : Payments!Rows]
PaymentsMarks == [kind : {"mark"}, of : Sessions, stage : {"sent", "done", "refused"}]

PaymentsPage == [rows : Payments!Rows, loading : BOOLEAN, updating : Sessions \union {None}]
PaymentsServer == [rows : Payments!Rows, trouble : Nat]

PaymentsTyped ==
  /\ IsABag(calls) /\ Busy \subseteq PaymentsLoads \union PaymentsMarks
  /\ page \in PaymentsPage /\ server \in PaymentsServer
  /\ seen \subseteq {"changed", "crossed", "failed", "several"}

\* Marking a session, and the load that ends it.
Marking == {c \in Busy : c.of # None}

\* Unless two sessions were marked at once, one request is about the session
\* the page remembers, and none is about another.
OneMarking ==
  "several" \notin seen =>
    \A c \in Marking : c.of = page.updating /\ calls[c] = 1 /\ \A d \in Marking : c = d

\* What has been read is what the server has, and what the panel shows is, too, or
\* will be loaded again.
PaymentsFresh ==
  {"changed", "crossed", "failed"} \intersect seen = {} =>
    /\ \A c \in Busy : c.kind = "load" /\ c.stage = "done" => c.rows = server.rows
    /\ \/ page.rows = server.rows
       \/ \E c \in Busy : c.kind = "load" \/ c.stage = "done"

PaymentsInv == PaymentsTyped /\ OneMarking /\ PaymentsFresh /\ Payments!BusyHasRequest

LEMMA PaymentsInit == Payments!Init => PaymentsInv
<1> SUFFICES ASSUME Payments!Init PROVE PaymentsInv
  OBVIOUS
<1>1. IsABag(calls) /\ Busy = {Payments!Load(None)}
  BY PaymentsCalls DEF Payments!Init, Only, SetToBag, IsABag, Busy, BagToSet
<1>2. Payments!Empty \in Payments!Rows
  BY DEF Payments!Empty, Payments!Rows
<1>3. PaymentsTyped
  BY <1>1, <1>2 DEF PaymentsTyped, PaymentsLoads, PaymentsPage, PaymentsServer, Payments!Init, Payments!Load
<1>4. OneMarking /\ PaymentsFresh /\ Payments!BusyHasRequest
  BY <1>1, <1>2, <1>3, PaymentsCalls DEF OneMarking, Marking, PaymentsFresh, Payments!BusyHasRequest, Payments!Loads,
     Payments!Of, Payments!Init, Payments!Load
<1>5. QED
  BY <1>3, <1>4 DEF PaymentsInv

LEMMA PaymentsImplies ==
  ASSUME PaymentsInv
  PROVE  Payments!TypeOK /\ Payments!BusyHasRequest /\ Payments!PaymentsAreTrue /\ Payments!OneMarkPerSession
<1>1. Payments!PaymentsAreTrue
  BY PaymentsCalls DEF PaymentsInv, PaymentsFresh, Payments!PaymentsAreTrue
<1>2. Payments!OneMarkPerSession
  BY PaymentsCalls, PagesAssumption DEF PaymentsInv, PaymentsTyped, PaymentsMarks, PaymentsLoads, OneMarking, Marking,
     Payments!OneMarkPerSession, Payments!Marks, Payments!Of
<1>3. Payments!TypeOK
  BY DEF PaymentsInv, PaymentsTyped, PaymentsPage, PaymentsServer, Payments!TypeOK
<1>4. QED
  BY <1>1, <1>2, <1>3 DEF PaymentsInv

\* A request goes on, about the same session; or one ends, and what it marked is
\* forgotten.
LEMMA MarkingGoesOn ==
  ASSUME PaymentsTyped, OneMarking, NEW c \in Busy, NEW d, Turn(c, d), d.of = c.of,
         page'.updating = page.updating, seen \subseteq seen'
  PROVE  /\ OneMarking'
         /\ Marking # {} => Marking' # {}
<1> USE DEF Marking
<1>1. Marking # {} => Marking' # {}
  BY TurnedCall DEF PaymentsTyped
<1>2. OneMarking'
  <2> SUFFICES ASSUME "several" \notin seen', NEW e \in Marking'
               PROVE  e.of = page'.updating /\ calls'[e] = 1 /\ \A f \in Marking' : e = f
    BY DEF OneMarking
  <2>0. \A e1 \in Marking : e1.of = page.updating /\ calls[e1] = 1 /\ \A f \in Marking : e1 = f
    BY DEF OneMarking
  <2>1. CASE c.of = None
    BY <2>0, <2>1, TurnedCall DEF PaymentsTyped
  <2>2. CASE c.of # None
    <3>1. Marking = {c} /\ calls[c] = 1
      BY <2>0, <2>2
    <3>2. CASE c = d
      <4>1. calls' = calls
        BY <3>2, TurnedCall DEF PaymentsTyped
      <4>2. QED
        BY <2>0, <3>1, <4>1 DEF Busy
    <3>3. CASE c # d
      <4>1. d \notin Busy
        BY <3>1, <3>3, <2>2
      <4>2. calls'[d] = 1 /\ Marking' = {d}
        BY <3>1, <3>3, <4>1, <2>2, TurnedCall DEF PaymentsTyped
      <4>3. QED
        BY <2>0, <3>1, <4>2
    <3>4. QED
      BY <3>2, <3>3
  <2>3. QED
    BY <2>1, <2>2
<1>3. QED
  BY <1>1, <1>2

LEMMA MarkingEnds ==
  ASSUME PaymentsTyped, OneMarking, NEW c \in Busy, End(c), seen \subseteq seen',
         page'.updating = IF c.of = None THEN page.updating ELSE None
  PROVE  /\ OneMarking'
         /\ c.of = None /\ Marking # {} => Marking' # {}
<1> USE DEF Marking
<1>1. c.of = None /\ Marking # {} => Marking' # {}
  BY EndedCall DEF PaymentsTyped
<1>2. OneMarking'
  <2> SUFFICES ASSUME "several" \notin seen', NEW e \in Marking'
               PROVE  e.of = page'.updating /\ calls'[e] = 1 /\ \A f \in Marking' : e = f
    BY DEF OneMarking
  <2>0. \A e1 \in Marking : e1.of = page.updating /\ calls[e1] = 1 /\ \A f \in Marking : e1 = f
    BY DEF OneMarking
  <2>1. CASE c.of = None
    BY <2>0, <2>1, EndedCall DEF PaymentsTyped
  <2>2. CASE c.of # None
    <3>1. Marking = {c} /\ calls[c] = 1
      BY <2>0, <2>2
    <3>2. QED
      BY <3>1, EndedCall DEF PaymentsTyped
  <2>3. QED
    BY <2>1, <2>2
<1>3. QED
  BY <1>1, <1>2

LEMMA PaymentsStep == PaymentsInv /\ Payments!Next => PaymentsInv'
<1> SUFFICES ASSUME PaymentsInv, Payments!Next PROVE PaymentsInv'
  OBVIOUS
<1> USE PagesAssumption DEF PaymentsInv, PaymentsTyped, PaymentsLoads, PaymentsMarks
<1>t. page.updating \in Sessions \union {None}
  BY DEF PaymentsPage
<1>a. Payments!Empty \in Payments!Rows
  BY DEF Payments!Empty, Payments!Rows
<1>b. Payments!BusyHasRequest <=>
        /\ page.loading => \E c \in Busy : c.kind = "load"
        /\ page.updating # None => Marking # {}
  BY PaymentsCalls DEF Payments!BusyHasRequest, Payments!Loads, Payments!Of, Marking
<1>c. Payments!BusyHasRequest' <=>
        /\ page'.loading => \E c \in Busy' : c.kind = "load"
        /\ page'.updating # None => Marking' # {}
  BY DEF Payments!BusyHasRequest, Payments!Loads, Payments!Of, Payments!Busy, Payments!BagToSet, Busy, BagToSet, Marking
<1>1. CASE Payments!ChangeWeek
  <2>1. Added(Payments!Load(None)) /\ UNCHANGED <<server, seen>>
        /\ page' \in PaymentsPage /\ page'.loading /\ page'.rows = page.rows /\ page'.updating = page.updating
    BY <1>1, PaymentsCalls DEF Payments!ChangeWeek, PaymentsPage
  <2>2. Payments!Load(None) \in PaymentsLoads /\ Payments!Load(None).kind = "load" /\ Payments!Load(None).of = None
        /\ Payments!Load(None).stage = "sent"
    BY <1>a DEF Payments!Load
  <2>3. PaymentsTyped'
    BY <2>1, <2>2, AddedCall
  <2>4. Marking' = Marking
    BY <2>1, <2>2, AddedCall DEF Marking
  <2>5. OneMarking' /\ PaymentsFresh'
    BY <2>1, <2>2, <2>4, AddedCall DEF OneMarking, PaymentsFresh, Marking
  <2>6. Payments!Load(None) \in Busy'
    BY <2>1, AddedCall
  <2>7. Payments!BusyHasRequest'
    BY <1>b, <1>c, <2>1, <2>2, <2>4, <2>6
  <2>8. QED
    BY <2>3, <2>5, <2>7
<1>2. ASSUME NEW s \in Sessions, Payments!OthersBookOrCancel(s)
      PROVE  PaymentsInv'
  <2> DEFINE rows == [server.rows EXCEPT ![s] = IF @ = "none" THEN "pending" ELSE "none"]
  <2>0. rows \in Payments!Rows /\ server.trouble + 1 \in Nat
    BY DEF Payments!Rows, PaymentsServer
  <2>1. UNCHANGED <<page, calls>> /\ server' = [server EXCEPT !.trouble = @ + 1, !.rows = rows] /\ seen' = seen \union {"changed"}
    BY <1>2 DEF Payments!OthersBookOrCancel, Payments!Saw
  <2> HIDE DEF rows
  <2>6. server' \in PaymentsServer
    BY <2>0, <2>1 DEF PaymentsServer
  <2>2. Busy' = Busy /\ Marking' = Marking
    BY <2>1 DEF Busy, Marking
  <2>3. PaymentsTyped' /\ OneMarking' /\ PaymentsFresh'
    BY <2>1, <2>2, <2>6 DEF OneMarking, PaymentsFresh
  <2>4. Payments!BusyHasRequest'
    BY <1>b, <1>c, <2>1, <2>2
  <2>5. QED
    BY <2>3, <2>4
<1>3. ASSUME NEW s \in Sessions, Payments!ClickPaid(s)
      PROVE  PaymentsInv'
  <2>1. /\ Added(Payments!Mark(s)) /\ UNCHANGED server
        /\ page' \in PaymentsPage /\ page'.updating = s /\ page'.rows = page.rows /\ page'.loading = page.loading
        /\ seen' = seen \union (IF \E c \in Busy : c.of \notin {None, s} THEN {"several"} ELSE {})
        /\ page.updating # s
    BY <1>3, PaymentsCalls DEF Payments!ClickPaid, Payments!CanMark, Payments!Saw, Payments!If, PaymentsPage
  <2>2. Payments!Mark(s) \in PaymentsMarks /\ Payments!Mark(s).kind = "mark" /\ Payments!Mark(s).of = s
        /\ Payments!Mark(s).stage = "sent"
    BY DEF Payments!Mark
  <2>3. PaymentsTyped'
    BY <2>1, <2>2, AddedCall
  <2>4. Marking' = Marking \union {Payments!Mark(s)}
    BY <2>1, <2>2, AddedCall DEF Marking
  <2>5. OneMarking'
    <3> SUFFICES ASSUME "several" \notin seen' PROVE OneMarking'
      BY DEF OneMarking
    <3>1. Marking = {}
      BY <2>1 DEF OneMarking, Marking
    <3>2. Payments!Mark(s) \notin Busy
      BY <3>1, <2>2 DEF Marking
    <3>3. QED
      BY <2>1, <2>2, <2>4, <3>1, <3>2, AddedCall DEF OneMarking
  <2>6. PaymentsFresh' /\ Payments!BusyHasRequest'
    BY <1>b, <1>c, <2>1, <2>2, <2>4, AddedCall DEF PaymentsFresh
  <2>7. QED
    BY <2>3, <2>5, <2>6
<1>4. ASSUME NEW c \in Busy, Payments!Read(c)
      PROVE  PaymentsInv'
  <2> DEFINE d == [c EXCEPT !.stage = "done", !.rows = server.rows]
  <2>1. c.kind = "load" /\ c.stage = "sent" /\ Turn(c, d) /\ UNCHANGED <<page, server, seen>>
    BY <1>4, PaymentsCalls DEF Payments!Read
  <2>0. c \in PaymentsLoads /\ server.rows \in Payments!Rows
    BY <2>1 DEF PaymentsServer
  <2>2. d \in PaymentsLoads /\ d.kind = "load" /\ d.of = c.of /\ d.stage = "done" /\ d.rows = server.rows
    BY <2>0
  <2> HIDE DEF d
  <2>3. PaymentsTyped'
    BY <2>1, <2>2, TurnedCall
  <2>4. OneMarking' /\ (Marking # {} => Marking' # {})
    BY <2>1, <2>2, MarkingGoesOn
  <2>5. PaymentsFresh'
    BY <2>1, <2>2, TurnedCall DEF PaymentsFresh
  <2>6. Payments!BusyHasRequest'
    BY <1>b, <1>c, <2>1, <2>2, <2>4, TurnedCall
  <2>7. QED
    BY <2>3, <2>4, <2>5, <2>6
<1>5. ASSUME NEW c \in Busy, Payments!MarkRow(c)
      PROVE  PaymentsInv'
  <2>1. PICK stage \in {"refused", "done"} :
          /\ c.kind = "mark" /\ c.stage = "sent" /\ Turn(c, [c EXCEPT !.stage = stage]) /\ page' = page
          /\ IF stage = "refused" THEN UNCHANGED <<server, seen>>
             ELSE /\ server' = [server EXCEPT !.rows = [@ EXCEPT ![c.of] = "paid"]]
                  /\ seen' = seen \union (IF \E e \in Busy : e.kind = "load" /\ e.stage = "done" THEN {"crossed"} ELSE {})
    BY <1>5, PaymentsCalls DEF Payments!MarkRow, Payments!Saw, Payments!If, Payments!Loads, Payments!Of
  <2> DEFINE d == [c EXCEPT !.stage = stage]
  <2>2. d \in PaymentsMarks /\ d.kind = "mark" /\ d.of = c.of /\ d.stage = stage /\ c \in PaymentsMarks
    BY <2>1
  <2>0. Turn(c, d)
    BY <2>1
  <2> HIDE DEF d
  <2>3. server' \in PaymentsServer
    BY <2>1, <2>2 DEF Payments!Rows, PaymentsServer
  <2>4. PaymentsTyped'
    BY <2>0, <2>1, <2>2, <2>3, TurnedCall
  <2>5. OneMarking' /\ (Marking # {} => Marking' # {})
    BY <2>0, <2>1, <2>2, MarkingGoesOn
  <2>6. PaymentsFresh'
    <3>1. stage = "refused" => UNCHANGED <<server, seen>>
      BY <2>1
    <3>2. stage = "done" => "crossed" \in seen' \/ \A e \in Busy : ~(e.kind = "load" /\ e.stage = "done")
      BY <2>1
    <3>3. seen \subseteq seen' /\ Busy' \subseteq Busy \union {d} /\ d \in Busy' /\ Busy \ {c} \subseteq Busy'
      BY <2>0, <2>1, TurnedCall
    <3>4. QED
      BY <2>1, <2>2, <3>1, <3>2, <3>3 DEF PaymentsFresh
  <2>7. Payments!BusyHasRequest'
    BY <1>b, <1>c, <2>0, <2>1, <2>2, <2>5, TurnedCall
  <2>8. QED
    BY <2>4, <2>5, <2>6, <2>7
<1>6. ASSUME NEW c \in Busy, Payments!Marked(c)
      PROVE  PaymentsInv'
  <2>1. /\ c.kind = "mark" /\ c.stage = "done" /\ Turn(c, Payments!Load(c.of))
        /\ UNCHANGED <<server, seen>>
        /\ page' \in PaymentsPage /\ page'.loading /\ page'.rows = page.rows /\ page'.updating = page.updating
    BY <1>6, PaymentsCalls DEF Payments!Marked, PaymentsPage
  <2>2. Payments!Load(c.of) \in PaymentsLoads /\ Payments!Load(c.of).kind = "load" /\ Payments!Load(c.of).of = c.of
        /\ Payments!Load(c.of).stage = "sent"
    BY <1>a, <2>1 DEF Payments!Load
  <2>3. PaymentsTyped'
    BY <2>1, <2>2, TurnedCall
  <2>4. OneMarking' /\ (Marking # {} => Marking' # {})
    BY <2>1, <2>2, MarkingGoesOn
  <2>5. PaymentsFresh'
    BY <2>1, <2>2, TurnedCall DEF PaymentsFresh
  <2>6. Payments!BusyHasRequest'
    BY <1>b, <1>c, <2>1, <2>2, <2>4, TurnedCall
  <2>7. QED
    BY <2>3, <2>4, <2>5, <2>6
<1>7. ASSUME NEW c \in Busy, Payments!MarkFails(c)
      PROVE  PaymentsInv'
  <2>1. /\ c.kind = "mark" /\ End(c) /\ server'.rows = server.rows /\ server' \in PaymentsServer
        /\ page' \in PaymentsPage /\ page'.updating = None /\ page'.rows = page.rows /\ page'.loading = page.loading
        /\ seen' = seen \union (IF c.stage = "done" THEN {"failed"} ELSE {})
    BY <1>7, PaymentsCalls DEF Payments!MarkFails, Payments!Trouble, Payments!Saw, Payments!If, PaymentsPage, PaymentsServer
  <2>2. c.of # None
    BY <2>1
  <2>3. PaymentsTyped'
    BY <2>1, EndedCall
  <2>4. OneMarking'
    BY <2>1, <2>2, MarkingEnds
  <2>5. PaymentsFresh'
    BY <2>1, EndedCall DEF PaymentsFresh
  <2>6. Payments!BusyHasRequest'
    BY <1>b, <1>c, <2>1, EndedCall
  <2>7. QED
    BY <2>3, <2>4, <2>5, <2>6
<1>8. ASSUME NEW c \in Busy, Payments!Loaded(c)
      PROVE  PaymentsInv'
  <2>1. PICK answered \in BOOLEAN :
          /\ c.kind = "load" /\ End(c) /\ (answered => c.stage = "done")
          /\ page' = [page EXCEPT !.rows = IF answered THEN c.rows ELSE Payments!Empty, !.loading = FALSE,
                                  !.updating = IF c.of = None THEN @ ELSE None]
          /\ Payments!Trouble(~answered) /\ seen' = seen \union (IF ~answered THEN {"failed"} ELSE {})
    BY <1>8, PaymentsCalls DEF Payments!Loaded, Payments!Saw, Payments!If
  <2>0. c \in PaymentsLoads /\ server'.rows = server.rows /\ server' \in PaymentsServer
    BY <2>1 DEF Payments!Trouble, PaymentsServer
  <2>2. /\ page' \in PaymentsPage /\ page'.rows = (IF answered THEN c.rows ELSE Payments!Empty) /\ ~page'.loading
        /\ page'.updating = IF c.of = None THEN page.updating ELSE None
    BY <1>a, <2>0, <2>1 DEF PaymentsPage
  <2>3. PaymentsTyped'
    BY <1>a, <2>0, <2>1, <2>2, EndedCall
  <2>4. OneMarking' /\ (c.of = None /\ Marking # {} => Marking' # {})
    BY <2>1, <2>2, MarkingEnds
  <2>5. PaymentsFresh'
    BY <2>0, <2>1, <2>2, EndedCall DEF PaymentsFresh
  <2>6. Payments!BusyHasRequest'
    BY <1>b, <1>c, <2>1, <2>2, <2>4, EndedCall
  <2>7. QED
    BY <2>3, <2>4, <2>5, <2>6
<1>9. QED
  BY <1>1, <1>2, <1>3, <1>4, <1>5, <1>6, <1>7, <1>8, PaymentsCalls DEF Payments!Next

(***************************************************************************)
(* A course.                                                               *)
(***************************************************************************)

LEMMA CourseCalls ==
  /\ Course!Busy = Busy
  /\ \A c : Course!Send(c) => Added(c)
  /\ \A c : Course!End(c) <=> End(c)
  /\ \A c, d : Course!Turn(c, d) <=> Turn(c, d)
  /\ \A c : Course!Only(c) = Only(c)
BY DEF Course!Busy, Course!BagToSet, Busy, BagToSet, Course!Send, Course!End, Course!Turn, Course!Only,
       Course!(+), Course!(-), Course!SetToBag, Added, End, Turn, Only, SetToBag, (+), (-)

LEMMA CourseOf == \A kinds : Course!Of(kinds) = Of(kinds)
BY CourseCalls DEF Course!Of, Of

Raters == 1..MaxRatings
CourseStates == [author : BOOLEAN, loading : BOOLEAN, error : BOOLEAN, status : Course!Statuses, favorite : BOOLEAN, count : Nat,
                 toggling : BOOLEAN, list : Seq(Raters), next : Nat, ranNext : Nat, users : SUBSET Raters, newUsers : BOOLEAN,
                 listing : BOOLEAN, submitting : BOOLEAN]
CourseServer == [ratings : Raters, rated : BOOLEAN, favorite : BOOLEAN, status : Course!Statuses, trouble : Nat]
CourseReads == {<<>>} \union {<<v>> : v \in Course!Statuses \union BOOLEAN \union {0, 1}}
CourseLoads == [kind : {"course"}, step : {"course", "count", "check"}, known : SUBSET Raters, stage : {"sent", "read"},
                value : CourseReads]
CourseLists == {<<>>} \union {<<l>> : l \in Seq(Raters)}
CourseRatings == [kind : {"ratings"}, for : {"course", "rate", "more"}, at : Nat, known : SUBSET Raters,
                  stage : {"sent", "read"}, value : CourseLists]
CourseWrites == [kind : {"toggle"}, to : BOOLEAN, stage : {"sent", "done"}]
                  \union [kind : {"status"}, to : Course!Statuses, stage : {"sent", "done"}]
CourseRates == [kind : {"rate"}, known : SUBSET Raters, stage : {"sent", "done"}]
CourseNames == [kind : {"users"}, ids : SUBSET Raters]

CourseTyped ==
  /\ IsABag(calls) /\ Busy \subseteq CourseLoads \union CourseRatings \union CourseWrites \union CourseRates \union CourseNames
  /\ page \in CourseStates /\ server \in CourseServer
  /\ seen \subseteq {"moved", "crossed", "missed", "overtaken"}

\* What was read can be shown: the course from its steps, and a page of ratings.
CourseFits ==
  /\ page.next <= server.ratings
  /\ \A c \in Busy :
       /\ c.kind = "course" /\ c.stage = "read" =>
            /\ c.step = "course" => c.value[1] \in Course!Statuses
            /\ c.step = "count" => c.value[1] \in {0, 1}
            /\ c.step = "check" => c.value[1] \in BOOLEAN
       /\ c.kind = "ratings" =>
            /\ c.at <= server.ratings /\ (c.for = "more" <=> c.at # 0)
            /\ c.stage = "read" => /\ c.value[1] \in Seq(Raters) /\ Len(c.value[1]) <= PageSize
                                   /\ c.at + Len(c.value[1]) <= server.ratings

\* One rating at a time is sent, and the ratings are loaded after it.
RatesOf(c) == c.kind = "rate" \/ (c.kind = "ratings" /\ c.for = "rate")
CourseRated ==
  \A c \in Busy : RatesOf(c) =>
    /\ calls[c] = 1 /\ page.submitting /\ \A d \in Busy : RatesOf(d) => c = d
    /\ c.kind = "rate" /\ c.stage = "sent" => server.ratings < MaxRatings

CourseWaits ==
  /\ page.loading => \E c \in Busy : c.kind = "course" \/ (c.kind = "ratings" /\ c.for = "course")
  /\ page.listing => \E c \in Busy : c.kind = "ratings"
  /\ page.toggling => \E c \in Busy : c.kind = "toggle"
  /\ page.submitting => \E c \in Busy : RatesOf(c)

\* One change of the favourite at a time; the heart differs from the server's
\* only while its answer is to come.
CourseHeart ==
  /\ \A c \in Busy : c.kind = "toggle" =>
       /\ calls[c] = 1 /\ page.toggling /\ \A d \in Busy : d.kind = "toggle" => c = d
  /\ {"crossed", "missed"} \intersect seen = {} =>
       /\ page.count = IF page.favorite THEN 1 ELSE 0
       /\ server.favorite = page.favorite \/ \E c \in Busy : c.kind = "toggle" /\ c.stage = "done"
       /\ \A c \in Busy : c.kind = "toggle" => /\ c.to = ~page.favorite
                                               /\ c.stage = "sent" => server.favorite = page.favorite
                                               /\ c.stage = "done" => server.favorite = c.to

CourseStatus ==
  "crossed" \notin seen /\ ~page.error =>
    \/ \E c \in Busy : (c.kind = "course" /\ c.step = "course") \/ c.kind = "status"
    \/ page.status = server.status

\* A token, or a full page, brings a load of the course.
CourseRests ==
  "overtaken" \notin seen /\ ~page.error /\ page.next = page.ranNext /\ ~page.newUsers =>
    \/ \E c \in Busy : c.kind = "course"
    \/ page.next = 0 /\ Len(page.list) < PageSize

\* The list is the newest ratings, down to the token.
CourseNewest ==
  {"moved", "overtaken"} \intersect seen = {} /\ ~server.rated =>
    /\ Len(page.list) <= server.ratings /\ page.next \in {0, Len(page.list)}
    /\ \A i \in 1..Len(page.list) : page.list[i] = server.ratings - i + 1
    /\ \A c \in Busy : c.kind = "ratings" /\ c.stage = "read" =>
         \A i \in 1..Len(c.value[1]) : c.value[1][i] = server.ratings - c.at - i + 1

CourseInv ==
  /\ CourseTyped /\ CourseFits /\ CourseRated /\ CourseWaits
  /\ CourseHeart /\ CourseStatus /\ CourseRests /\ CourseNewest

LEMMA RatersCount == MaxRatings \in Nat /\ MaxRatings >= 1 /\ PageSize \in Nat /\ PageSize >= 1
BY PagesAssumption

LEMMA CourseInit == Course!Init => CourseInv
<1> SUFFICES ASSUME Course!Init PROVE CourseInv
  OBVIOUS
<1> DEFINE load == Course!CourseCall("course", {})
<1>1. PICK author \in BOOLEAN :
        page = [author |-> author, loading |-> TRUE, error |-> FALSE, status |-> "draft",
                favorite |-> FALSE, count |-> 0, toggling |-> FALSE, list |-> <<>>, next |-> 0,
                ranNext |-> 0, users |-> {}, newUsers |-> FALSE, listing |-> FALSE, submitting |-> FALSE]
  BY DEF Course!Init
<1>2. PICK n \in {1, MaxRatings} :
        server = [ratings |-> n, rated |-> FALSE, favorite |-> FALSE, status |-> "published", trouble |-> 0]
  BY DEF Course!Init
<1>3. calls = Only(load) /\ seen = {}
  BY CourseCalls DEF Course!Init
<1>4. load \in CourseLoads /\ load.kind = "course" /\ load.step = "course" /\ load.stage = "sent"
  BY DEF Course!CourseCall, CourseLoads, CourseReads
<1> HIDE DEF load
<1>5. IsABag(calls) /\ Busy = {load} /\ calls[load] = 1
  BY <1>3 DEF Only, SetToBag, IsABag, Busy, BagToSet
<1>6. page \in CourseStates /\ server \in CourseServer
  BY <1>1, <1>2, RatersCount DEF CourseStates, CourseServer, Raters, Course!Statuses
<1>7. CourseTyped
  BY <1>3, <1>4, <1>5, <1>6 DEF CourseTyped
<1>8. CourseFits /\ CourseRated /\ CourseWaits
  BY <1>1, <1>2, <1>4, <1>5, RatersCount DEF CourseFits, CourseRated, CourseWaits, RatesOf
<1>9. CourseHeart /\ CourseStatus /\ CourseRests
  BY <1>1, <1>2, <1>4, <1>5 DEF CourseHeart, CourseStatus, CourseRests
<1>10. CourseNewest
  BY <1>1, <1>2, <1>4, <1>5, RatersCount DEF CourseNewest
<1>11. QED
  BY <1>7, <1>8, <1>9, <1>10 DEF CourseInv

LEMMA CourseTypes ==
  ASSUME CourseInv
  PROVE  /\ page.author \in BOOLEAN /\ page.loading \in BOOLEAN /\ page.error \in BOOLEAN /\ page.status \in Course!Statuses
         /\ page.favorite \in BOOLEAN /\ page.count \in Nat /\ page.toggling \in BOOLEAN /\ page.list \in Seq(Raters)
         /\ page.next \in Nat /\ page.ranNext \in Nat /\ page.users \in SUBSET Raters /\ page.newUsers \in BOOLEAN
         /\ page.listing \in BOOLEAN /\ page.submitting \in BOOLEAN
         /\ server.ratings \in Raters /\ server.rated \in BOOLEAN /\ server.favorite \in BOOLEAN
         /\ server.status \in Course!Statuses /\ server.trouble \in Nat
BY DEF CourseInv, CourseTyped, CourseStates, CourseServer

LEMMA CourseCallTypes ==
  ASSUME CourseInv, NEW c \in Busy
  PROVE  /\ c.kind = "course" => c \in CourseLoads
         /\ c.kind = "ratings" => c \in CourseRatings
         /\ c.kind \in {"toggle", "status"} => c \in CourseWrites
         /\ c.kind = "rate" => c \in CourseRates
         /\ c.kind = "users" => c \in CourseNames
         /\ c.kind \in {"course", "ratings", "toggle", "status", "rate", "users"}
BY DEF CourseInv, CourseTyped, CourseLoads, CourseRatings, CourseWrites, CourseRates, CourseNames

\* The newest ratings are all different.
LEMMA NewestDiffer ==
  ASSUME NEW r \in Nat, NEW list \in Seq(Nat), Len(list) <= r, \A i \in 1..Len(list) : list[i] = r - i + 1
  PROVE  Cardinality(Course!Elements(list)) = Len(list)
<1> DEFINE n == Len(list)
<1>1. n \in Nat /\ DOMAIN list = 1..n
  OBVIOUS
<1> HIDE DEF n
<1>2. Course!Elements(list) = (r - n + 1)..r
  <2>1. \A i \in 1..n : list[i] \in (r - n + 1)..r
    BY <1>1 DEF n
  <2>2. \A v \in (r - n + 1)..r : (r - v + 1) \in 1..n /\ r - (r - v + 1) + 1 = v
    BY <1>1 DEF n
  <2>3. \A v \in (r - n + 1)..r : \E i \in 1..n : list[i] = v
    BY <2>2 DEF n
  <2>4. QED
    BY <1>1, <2>1, <2>3 DEF Course!Elements
<1>3. Cardinality((r - n + 1)..r) = IF r - n + 1 > r THEN 0 ELSE r - (r - n + 1) + 1
  <2>1. r - n + 1 \in Int /\ r \in Int
    BY <1>1
  <2>2. QED
    BY <2>1, FS_Interval
<1>4. QED
  BY <1>1, <1>2, <1>3 DEF n

LEMMA CourseImplies ==
  ASSUME CourseInv
  PROVE  /\ Course!TypeOK /\ Course!BusyHasRequest
         /\ Course!RestsOnLastPage /\ Course!HeartIsTrue /\ Course!StatusIsTrue /\ Course!ListedOnce
<1> USE DEF CourseInv
<1>1. Course!TypeOK
  BY CourseTypes DEF CourseTyped, Raters, Course!TypeOK
<1>2. Course!BusyHasRequest
  BY CourseOf DEF CourseWaits, RatesOf, Of, Course!BusyHasRequest, Course!Toggles
<1>3. Course!RestsOnLastPage
  BY CourseCalls DEF CourseRests, Course!RestsOnLastPage, Course!AtRest, Course!Due
<1>4. Course!HeartIsTrue
  BY CourseCalls DEF CourseHeart, Course!HeartIsTrue, Course!AtRest
<1>5. Course!StatusIsTrue
  BY CourseCalls DEF CourseStatus, Course!StatusIsTrue, Course!AtRest
<1>6. Course!ListedOnce
  <2> SUFFICES ASSUME {"moved", "overtaken"} \intersect seen = {}, ~server.rated
               PROVE  Course!Cardinality(Course!Elements(page.list)) = Len(page.list)
    BY DEF Course!ListedOnce
  <2>1. Len(page.list) <= server.ratings /\ \A i \in 1..Len(page.list) : page.list[i] = server.ratings - i + 1
    BY DEF CourseNewest
  <2>2. server.ratings \in Nat /\ page.list \in Seq(Nat)
    BY CourseTypes, RatersCount DEF Raters
  <2>3. Cardinality(Course!Elements(page.list)) = Len(page.list)
    BY <2>1, <2>2, NewestDiffer
  <2>4. QED
    BY <2>3 DEF Course!Cardinality, Cardinality
<1>7. QED
  BY <1>1, <1>2, <1>3, <1>4, <1>5, <1>6

\* A page of ratings: as many as there are, from the newest not yet listed.
LEMMA ListedPage ==
  ASSUME CourseInv, NEW at \in Nat, at <= server.ratings
  PROVE  /\ Course!Listed(at) \in Seq(Raters) /\ Len(Course!Listed(at)) <= PageSize
         /\ at + Len(Course!Listed(at)) <= server.ratings
         /\ \A i \in 1..Len(Course!Listed(at)) : Course!Listed(at)[i] = server.ratings - at - i + 1
<1> DEFINE n == IF server.ratings - at < PageSize THEN server.ratings - at ELSE PageSize
           list == [i \in 1..n |-> server.ratings - at - i + 1]
<1>1. server.ratings \in Nat /\ server.ratings <= MaxRatings /\ MaxRatings \in Nat /\ PageSize \in Nat
  BY CourseTypes, RatersCount DEF Raters
<1>2. n \in Nat /\ n <= PageSize /\ at + n <= server.ratings
  BY <1>1
<1>3. Course!Listed(at) = list
  BY DEF Course!Listed
<1> HIDE DEF n
<1>4. \A i \in 1..n : server.ratings - at - i + 1 \in Raters
  BY <1>1, <1>2 DEF Raters
<1>5. list \in [1..n -> Raters]
  BY <1>4
<1>6. list \in Seq(Raters) /\ Len(list) = n
  BY <1>2, <1>5
<1>7. QED
  BY <1>2, <1>3, <1>6

LEMMA CourseSent ==
  ASSUME CourseInv, NEW c, Course!Send(c)
  PROVE  /\ IsABag(calls)' /\ Busy' = Busy \union {c}
         /\ \A d \in Busy \ {c} : calls'[d] = calls[d]
         /\ c \notin Busy => calls'[c] = 1
BY CourseCalls, AddedCall DEF CourseInv, CourseTyped

LEMMA CourseEnded ==
  ASSUME CourseInv, NEW c \in Busy, Course!End(c)
  PROVE  /\ IsABag(calls)' /\ Busy' \subseteq Busy /\ Busy \ {c} \subseteq Busy'
         /\ calls[c] = 1 => c \notin Busy'
         /\ \A d \in Busy \ {c} : calls'[d] = calls[d]
BY CourseCalls, EndedCall DEF CourseInv, CourseTyped

LEMMA CourseTurned ==
  ASSUME CourseInv, NEW c \in Busy, NEW d, c # d, Course!Turn(c, d)
  PROVE  /\ IsABag(calls)' /\ d \in Busy' /\ Busy' \subseteq Busy \union {d} /\ Busy \ {c} \subseteq Busy'
         /\ calls[c] = 1 => c \notin Busy'
         /\ \A e \in Busy \ {c, d} : calls'[e] = calls[e]
         /\ d \notin Busy => calls'[d] = 1
BY CourseCalls, TurnedCall DEF CourseInv, CourseTyped

LEMMA CourseTrouble ==
  ASSUME CourseInv, NEW happens \in BOOLEAN, Course!Trouble(happens)
  PROVE  /\ server' \in CourseServer /\ \A k \in DOMAIN server \ {"trouble"} : server'[k] = server[k]
BY DEF CourseInv, CourseTyped, CourseServer, Course!Trouble

\* The server's side: what is read,
LEMMA CourseServed == ASSUME CourseInv, NEW c \in Busy, Course!Reads(c) PROVE CourseInv'
<1> USE DEF CourseInv
<1> DEFINE v == Course!Value(c)
           d == [c EXCEPT !.stage = "read", !.value = <<v>>]
<1>1. c.kind \in {"course", "ratings"} /\ c.stage = "sent" /\ Course!Turn(c, d) /\ UNCHANGED <<page, server, seen>>
  BY DEF Course!Reads
<1>2. CASE c.kind = "course"
  <2>1. c \in CourseLoads
    BY <1>2, CourseCallTypes
  <2>2. /\ c.step \in {"course", "count", "check"}
        /\ c.step = "course" => v = server.status
        /\ c.step = "check" => v = server.favorite
        /\ c.step = "count" => v = IF server.favorite THEN 1 ELSE 0
    BY <1>2, <2>1 DEF Course!Value, CourseLoads
  <2>3. /\ v \in Course!Statuses \union BOOLEAN \union {0, 1}
        /\ c.step = "course" => v \in Course!Statuses
        /\ c.step = "count" => v \in {0, 1}
        /\ c.step = "check" => v \in BOOLEAN
    BY <2>2, CourseTypes
  <2> HIDE DEF v
  <2>4. <<v>> \in CourseReads /\ <<v>>[1] = v
    BY <2>3 DEF CourseReads
  <2>5. /\ d \in CourseLoads /\ d.kind = "course" /\ d.step = c.step /\ d.stage = "read" /\ d.value[1] = v /\ d # c
        /\ Course!Turn(c, d)
    BY <1>1, <2>1, <2>4 DEF CourseLoads
  <2> HIDE DEF d
  <2>6. /\ IsABag(calls)' /\ d \in Busy' /\ Busy' \subseteq Busy \union {d} /\ Busy \ {c} \subseteq Busy'
        /\ \A e \in Busy \ {c, d} : calls'[e] = calls[e]
    BY <2>5, CourseTurned
  <2>7. CourseTyped' /\ CourseFits' /\ CourseRated' /\ CourseWaits'
    BY <1>1, <1>2, <2>3, <2>5, <2>6 DEF CourseTyped, CourseFits, CourseRated, CourseWaits, RatesOf
  <2>8. CourseHeart' /\ CourseStatus' /\ CourseRests' /\ CourseNewest'
    BY <1>1, <1>2, <2>5, <2>6 DEF CourseHeart, CourseStatus, CourseRests, CourseNewest
  <2>9. QED
    BY <2>7, <2>8
<1>3. CASE c.kind = "ratings"
  <2>1. c \in CourseRatings /\ c.at \in Nat /\ c.at <= server.ratings
    BY <1>3, CourseCallTypes DEF CourseFits, CourseRatings
  <2>2. v = Course!Listed(c.at)
    BY <1>3 DEF Course!Value
  <2> HIDE DEF v
  <2>3. /\ v \in Seq(Raters) /\ Len(v) <= PageSize /\ c.at + Len(v) <= server.ratings
        /\ \A i \in 1..Len(v) : v[i] = server.ratings - c.at - i + 1
    BY <2>1, <2>2, ListedPage
  <2>4. <<v>> \in CourseLists /\ <<v>>[1] = v
    BY <2>3 DEF CourseLists
  <2>5. /\ d \in CourseRatings /\ d.kind = "ratings" /\ d.for = c.for /\ d.at = c.at /\ d.stage = "read" /\ d.value[1] = v
        /\ d # c /\ Course!Turn(c, d)
    BY <1>1, <2>1, <2>4 DEF CourseRatings
  <2> HIDE DEF d
  <2>6. /\ IsABag(calls)' /\ d \in Busy' /\ Busy' \subseteq Busy \union {d} /\ Busy \ {c} \subseteq Busy'
        /\ calls[c] = 1 => c \notin Busy'
        /\ \A e \in Busy \ {c, d} : calls'[e] = calls[e]
        /\ d \notin Busy => calls'[d] = 1
    BY <2>5, CourseTurned
  <2>7. CourseTyped' /\ CourseFits' /\ CourseWaits'
    BY <1>1, <1>3, <2>1, <2>3, <2>5, <2>6 DEF CourseTyped, CourseFits, CourseWaits, RatesOf
  <2>8. CourseRated'
    BY <1>1, <1>3, <2>5, <2>6 DEF CourseRated, RatesOf
  <2>9. CourseHeart' /\ CourseStatus' /\ CourseRests'
    BY <1>1, <1>3, <2>5, <2>6 DEF CourseHeart, CourseStatus, CourseRests
  <2>10. CourseNewest'
    BY <1>1, <1>3, <2>3, <2>5, <2>6 DEF CourseNewest
  <2>11. QED
    BY <2>7, <2>8, <2>9, <2>10
<1>4. QED
  BY <1>1, <1>2, <1>3

\* and what is written.
LEMMA CourseWritten == ASSUME CourseInv, NEW c \in Busy, Course!Writes(c) PROVE CourseInv'
<1> USE DEF CourseInv
<1> DEFINE d == [c EXCEPT !.stage = "done"]
<1>1. c.kind \in {"toggle", "status", "rate"} /\ c.stage = "sent" /\ Course!Turn(c, d) /\ UNCHANGED <<page, seen>>
  BY DEF Course!Writes
<1>2. /\ c.kind = "toggle" => server' = [server EXCEPT !.favorite = c.to]
      /\ c.kind = "status" => server' = [server EXCEPT !.status = c.to]
      /\ c.kind = "rate" /\ server.rated => server' = server
      /\ c.kind = "rate" /\ ~server.rated => server' = [server EXCEPT !.ratings = server.ratings + 1, !.rated = TRUE]
  BY CourseTypes DEF Course!Writes, CourseTyped, CourseServer
<1>3. CASE c.kind \in {"toggle", "status"}
  <2>1. c \in CourseWrites /\ (c.kind = "toggle" => c.to \in BOOLEAN) /\ (c.kind = "status" => c.to \in Course!Statuses)
    BY <1>3, CourseCallTypes DEF CourseWrites
  <2>2. d \in CourseWrites /\ d.kind = c.kind /\ d.to = c.to /\ d.stage = "done" /\ d # c /\ Course!Turn(c, d)
    BY <1>1, <2>1 DEF CourseWrites
  <2> HIDE DEF d
  <2>3. /\ server' \in CourseServer /\ server'.ratings = server.ratings /\ server'.rated = server.rated
        /\ server'.favorite = (IF c.kind = "toggle" THEN c.to ELSE server.favorite)
        /\ server'.status = (IF c.kind = "status" THEN c.to ELSE server.status)
    BY <1>2, <1>3, <2>1 DEF CourseTyped, CourseServer
  <2>4. /\ IsABag(calls)' /\ d \in Busy' /\ Busy' \subseteq Busy \union {d} /\ Busy \ {c} \subseteq Busy'
        /\ calls[c] = 1 => c \notin Busy'
        /\ \A e \in Busy \ {c, d} : calls'[e] = calls[e]
        /\ d \notin Busy => calls'[d] = 1
    BY <2>2, CourseTurned
  <2>5. CourseTyped' /\ CourseFits' /\ CourseRated' /\ CourseWaits'
    BY <1>1, <1>3, <2>2, <2>3, <2>4 DEF CourseTyped, CourseFits, CourseRated, CourseWaits, RatesOf
  <2>6. CourseHeart'
    BY <1>1, <1>3, <2>1, <2>2, <2>3, <2>4 DEF CourseHeart
  <2>7. CourseStatus' /\ CourseRests' /\ CourseNewest'
    BY <1>1, <1>3, <2>2, <2>3, <2>4 DEF CourseStatus, CourseRests, CourseNewest
  <2>8. QED
    BY <2>5, <2>6, <2>7
<1>4. CASE c.kind = "rate"
  <2>1. c \in CourseRates
    BY <1>4, CourseCallTypes
  <2>2. d \in CourseRates /\ d.kind = "rate" /\ d.stage = "done" /\ d # c /\ Course!Turn(c, d)
    BY <1>1, <2>1 DEF CourseRates
  <2> HIDE DEF d
  <2>3. server.ratings \in Raters /\ server.ratings < MaxRatings /\ server.ratings + 1 \in Raters
    BY <1>1, <1>4, CourseTypes, RatersCount DEF CourseRated, RatesOf, Raters
  <2>4. /\ server' \in CourseServer /\ server'.favorite = server.favorite /\ server'.status = server.status
        /\ server'.ratings \in {server.ratings, server.ratings + 1} /\ server'.rated
        /\ server.rated => server'.ratings = server.ratings
    BY <1>2, <1>4, <2>3, CourseTypes DEF CourseTyped, CourseServer
  <2>5. /\ IsABag(calls)' /\ d \in Busy' /\ Busy' \subseteq Busy \union {d} /\ Busy \ {c} \subseteq Busy'
        /\ calls[c] = 1 => c \notin Busy'
        /\ \A e \in Busy \ {c, d} : calls'[e] = calls[e]
        /\ d \notin Busy => calls'[d] = 1
    BY <2>2, CourseTurned
  <2>6. server.ratings \in Nat /\ server'.ratings \in Nat /\ server.ratings <= server'.ratings
    BY <2>3, <2>4, RatersCount DEF Raters
  <2>7. CourseFits'
    <3>1. page.next <= server'.ratings
      BY <2>6, CourseTypes DEF CourseFits
    <3>2. \A e \in Busy : e.kind = "ratings" =>
            /\ e.at <= server'.ratings
            /\ e.stage = "read" => e.at + Len(e.value[1]) <= server'.ratings
      <4> TAKE e \in Busy
      <4> HAVE e.kind = "ratings"
      <4>1. e.at \in Nat /\ e.at <= server.ratings
        BY CourseCallTypes DEF CourseRatings, CourseFits
      <4>2. e.stage = "read" => Len(e.value[1]) \in Nat /\ e.at + Len(e.value[1]) <= server.ratings
        BY DEF CourseFits
      <4>3. QED
        BY <2>6, <4>1, <4>2
    <3>3. QED
      BY <1>1, <1>4, <2>2, <2>5, <3>1, <3>2 DEF CourseFits
  <2>8. CourseTyped' /\ CourseWaits'
    BY <1>1, <1>4, <2>2, <2>4, <2>5 DEF CourseTyped, CourseWaits, RatesOf
  <2>9. CourseRated'
    BY <1>1, <1>4, <2>2, <2>5 DEF CourseRated, RatesOf
  <2>10. CourseHeart' /\ CourseStatus' /\ CourseRests' /\ CourseNewest'
    BY <1>1, <1>4, <2>2, <2>4, <2>5 DEF CourseHeart, CourseStatus, CourseRests, CourseNewest
  <2>11. QED
    BY <2>7, <2>8, <2>9, <2>10
<1>5. QED
  BY <1>1, <1>3, <1>4

\* Room for a rating of others is left beside the user's own.
LEMMA CourseRoom ==
  ASSUME CourseInv, Course!Room
  PROVE  /\ server.ratings < MaxRatings
         /\ \A c \in Busy : c.kind = "rate" => server.ratings + 1 < MaxRatings
<1> DEFINE R == {c \in Busy : c.kind \in {"rate"}}
<1>1. Course!Of({"rate"}) = R
  BY CourseOf DEF Of
<1>2. server.ratings + Cardinality(R) < MaxRatings
  BY <1>1 DEF Course!Room, Course!Cardinality, Cardinality
<1>3. server.ratings \in Nat /\ MaxRatings \in Nat
  BY CourseTypes, RatersCount DEF Raters
<1>4. CASE R = {}
  <2>1. Cardinality(R) = 0
    BY <1>4, FS_EmptySet
  <2> HIDE DEF R
  <2>2. server.ratings < MaxRatings
    BY <1>2, <1>3, <2>1
  <2>3. QED
    BY <1>4, <2>2 DEF R
<1>5. CASE R # {}
  <2>1. PICK c : R = {c}
    BY <1>5 DEF CourseInv, CourseRated, RatesOf
  <2>2. Cardinality(R) = 1
    BY <2>1, FS_Singleton
  <2> HIDE DEF R
  <2>3. server.ratings + 1 < MaxRatings
    BY <1>2, <2>2
  <2>4. QED
    BY <1>3, <2>3
<1>6. QED
  BY <1>4, <1>5

LEMMA CourseOthers == CourseInv /\ Course!OthersRate => CourseInv'
<1> SUFFICES ASSUME CourseInv, Course!OthersRate PROVE CourseInv'
  OBVIOUS
<1> USE DEF CourseInv
<1>1. /\ Course!Room /\ server' = [server EXCEPT !.ratings = server.ratings + 1, !.trouble = server.trouble + 1]
      /\ seen' = seen \union {"moved"} /\ UNCHANGED <<page, calls>>
  BY DEF Course!OthersRate, Course!Saw, CourseTyped, CourseServer
<1>2. server.ratings \in Nat /\ server.ratings + 1 \in Raters /\ server.trouble + 1 \in Nat
  BY <1>1, CourseRoom, CourseTypes, RatersCount DEF Raters
<1>3. /\ server' \in CourseServer /\ server'.ratings = server.ratings + 1
      /\ \A k \in DOMAIN server \ {"ratings", "trouble"} : server'[k] = server[k]
  BY <1>1, <1>2 DEF CourseTyped, CourseServer
<1>4. CourseFits'
  <2>1. page.next <= server'.ratings
    BY <1>2, <1>3, CourseTypes DEF CourseFits
  <2>2. \A e \in Busy : e.kind = "ratings" =>
          /\ e.at <= server'.ratings
          /\ e.stage = "read" => e.at + Len(e.value[1]) <= server'.ratings
    <3> TAKE e \in Busy
    <3> HAVE e.kind = "ratings"
    <3>1. e.at \in Nat /\ e.at <= server.ratings
      BY CourseCallTypes DEF CourseRatings, CourseFits
    <3>2. e.stage = "read" => Len(e.value[1]) \in Nat /\ e.at + Len(e.value[1]) <= server.ratings
      BY DEF CourseFits
    <3>3. QED
      BY <1>2, <1>3, <3>1, <3>2
  <2>3. QED
    BY <1>1, <2>1, <2>2 DEF CourseFits, Busy
<1>5. CourseRated'
  BY <1>1, <1>3, CourseRoom DEF CourseRated, RatesOf, Busy
<1>6. CourseTyped' /\ CourseWaits' /\ CourseHeart' /\ CourseStatus' /\ CourseRests' /\ CourseNewest'
  <2>1. CourseTyped' /\ CourseWaits'
    BY <1>1, <1>3 DEF CourseTyped, CourseWaits, CourseServer, RatesOf, Busy
  <2>2. CourseHeart' /\ CourseStatus'
    BY <1>1, <1>3 DEF CourseTyped, CourseHeart, CourseStatus, CourseServer, Busy
  <2>3. CourseRests' /\ CourseNewest'
    BY <1>1, <1>3 DEF CourseTyped, CourseRests, CourseNewest, CourseServer, Busy
  <2>4. QED
    BY <2>1, <2>2, <2>3
<1>7. QED
  BY <1>4, <1>5, <1>6

LEMMA CourseEffect == CourseInv /\ Course!RunEffect => CourseInv'
<1> SUFFICES ASSUME CourseInv, Course!RunEffect PROVE CourseInv'
  OBVIOUS
<1> USE DEF CourseInv
<1> DEFINE c == Course!CourseCall("course", page.users)
<1>1. /\ Course!Send(c) /\ UNCHANGED <<server, seen>>
      /\ page' = [page EXCEPT !.loading = TRUE, !.error = FALSE, !.ranNext = page.next, !.newUsers = FALSE]
  BY DEF Course!RunEffect
<1>2. c \in CourseLoads /\ c.kind = "course" /\ c.step = "course" /\ c.stage = "sent"
  BY CourseTypes DEF Course!CourseCall, CourseLoads, CourseReads
<1> HIDE DEF c
<1>3. /\ page' \in CourseStates /\ page'.loading /\ ~page'.error /\ page'.ranNext = page.next /\ ~page'.newUsers
      /\ \A k \in DOMAIN page \ {"loading", "error", "ranNext", "newUsers"} : page'[k] = page[k]
  BY <1>1 DEF CourseTyped, CourseStates
<1>4. IsABag(calls)' /\ Busy' = Busy \union {c} /\ \A d \in Busy \ {c} : calls'[d] = calls[d]
  BY <1>1, CourseSent
<1>5. QED
  BY <1>1, <1>2, <1>3, <1>4 DEF CourseTyped, CourseFits, CourseRated, CourseWaits, CourseHeart, CourseStatus, CourseRests,
    CourseNewest, CourseStates, RatesOf

LEMMA CourseClicked == CourseInv /\ Course!Clicks => CourseInv'
<1> SUFFICES ASSUME CourseInv, Course!Clicks PROVE CourseInv'
  OBVIOUS
<1> USE DEF CourseInv
<1>1. CASE Course!More
  <2> DEFINE c == Course!RatingsCall("more", page.next, page.users)
  <2>1. /\ page.next # 0 /\ Course!Send(c) /\ UNCHANGED <<server, seen>>
        /\ page' = [page EXCEPT !.listing = TRUE]
    BY <1>1 DEF Course!More, Course!CanMore
  <2>2. c \in CourseRatings /\ c.kind = "ratings" /\ c.for = "more" /\ c.at = page.next /\ c.stage = "sent"
    BY CourseTypes DEF Course!RatingsCall, CourseRatings, CourseLists
  <2> HIDE DEF c
  <2>3. page' \in CourseStates /\ page'.listing /\ \A k \in DOMAIN page \ {"listing"} : page'[k] = page[k]
    BY <2>1 DEF CourseTyped, CourseStates
  <2>4. IsABag(calls)' /\ Busy' = Busy \union {c} /\ \A d \in Busy \ {c} : calls'[d] = calls[d]
    BY <2>1, CourseSent
  <2>5. QED
    BY <2>1, <2>2, <2>3, <2>4 DEF CourseTyped, CourseFits, CourseRated, CourseWaits, CourseHeart, CourseStatus, CourseRests,
      CourseNewest, CourseStates, RatesOf
<1>2. CASE Course!Toggle
  <2> DEFINE c == Course!Write("toggle", ~page.favorite)
  <2>1. /\ ~page.toggling /\ Course!Send(c) /\ UNCHANGED <<server, seen>>
        /\ page' = [page EXCEPT !.toggling = TRUE]
    BY <1>2 DEF Course!Toggle, Course!CanToggle
  <2>2. c \in CourseWrites /\ c.kind = "toggle" /\ c.to = ~page.favorite /\ c.stage = "sent"
    BY CourseTypes DEF Course!Write, CourseWrites
  <2> HIDE DEF c
  <2>3. page' \in CourseStates /\ page'.toggling /\ \A k \in DOMAIN page \ {"toggling"} : page'[k] = page[k]
    BY <2>1 DEF CourseTyped, CourseStates
  <2>4. \A d \in Busy : d.kind # "toggle"
    BY <2>1 DEF CourseHeart
  <2>5. IsABag(calls)' /\ Busy' = Busy \union {c} /\ calls'[c] = 1 /\ \A d \in Busy \ {c} : calls'[d] = calls[d]
    BY <2>1, <2>2, <2>4, CourseSent
  <2>6. QED
    BY <2>1, <2>2, <2>3, <2>4, <2>5
       DEF CourseTyped, CourseFits, CourseRated, CourseWaits, CourseHeart, CourseStatus, CourseRests,
      CourseNewest, CourseStates, RatesOf
<1>3. CASE Course!Rate
  <2> DEFINE c == [kind |-> "rate", known |-> page.users, stage |-> "sent"]
  <2>1. /\ ~page.submitting /\ Course!Room /\ Course!Send(c) /\ UNCHANGED <<server, seen>>
        /\ page' = [page EXCEPT !.submitting = TRUE]
    BY <1>3 DEF Course!Rate, Course!CanRate
  <2>2. c \in CourseRates /\ c.kind = "rate" /\ c.stage = "sent"
    BY CourseTypes DEF CourseRates
  <2> HIDE DEF c
  <2>3. page' \in CourseStates /\ page'.submitting /\ \A k \in DOMAIN page \ {"submitting"} : page'[k] = page[k]
    BY <2>1 DEF CourseTyped, CourseStates
  <2>4. \A d \in Busy : ~RatesOf(d)
    BY <2>1 DEF CourseRated
  <2>5. IsABag(calls)' /\ Busy' = Busy \union {c} /\ calls'[c] = 1 /\ \A d \in Busy \ {c} : calls'[d] = calls[d]
    BY <2>1, <2>2, <2>4, CourseSent DEF RatesOf
  <2>6. server.ratings < MaxRatings
    BY <2>1, CourseRoom
  <2>7. QED
    BY <2>1, <2>2, <2>3, <2>4, <2>5, <2>6 DEF CourseTyped, CourseFits, CourseRated, CourseWaits, CourseHeart, CourseStatus,
      CourseRests, CourseNewest, CourseStates, RatesOf
<1>4. ASSUME NEW status \in Course!Statuses, Course!ChangeStatus(status) PROVE CourseInv'
  <2> DEFINE c == Course!Write("status", status)
  <2>1. Course!Send(c) /\ UNCHANGED <<page, server, seen>>
    BY <1>4 DEF Course!ChangeStatus
  <2>2. c \in CourseWrites /\ c.kind = "status" /\ c.stage = "sent"
    BY DEF Course!Write, CourseWrites
  <2> HIDE DEF c
  <2>3. IsABag(calls)' /\ Busy' = Busy \union {c} /\ \A d \in Busy \ {c} : calls'[d] = calls[d]
    BY <2>1, CourseSent
  <2>4. QED
    BY <2>1, <2>2, <2>3 DEF CourseTyped, CourseFits, CourseRated, CourseWaits, CourseHeart, CourseStatus, CourseRests,
      CourseNewest, RatesOf
<1>5. QED
  BY <1>1, <1>2, <1>3, <1>4 DEF Course!Clicks

\* The steps of a load.
LEMMA CourseStepTaken ==
  ASSUME CourseInv, NEW c \in Busy, Course!CourseRead(c) \/ Course!CountRead(c) PROVE CourseInv'
<1> USE DEF CourseInv
<1>0. c.kind = "course" /\ c.stage = "read" /\ c \in CourseLoads /\ c.known \in SUBSET Raters
  BY CourseCallTypes DEF Course!CourseRead, Course!CountRead, CourseLoads
<1>n. \A step \in {"count", "check"} :
        LET d == Course!CourseCall(step, c.known)
        IN  d \in CourseLoads /\ d.kind = "course" /\ d.step = step /\ d.stage = "sent"
  BY <1>0 DEF Course!CourseCall, CourseLoads, CourseReads
<1>1. CASE Course!CourseRead(c)
  <2> DEFINE d == Course!CourseCall("count", c.known)
  <2>1. /\ c.step = "course" /\ Course!Turn(c, d) /\ UNCHANGED server
        /\ page' = [page EXCEPT !.status = c.value[1]]
        /\ seen' = seen \union (IF c.value[1] # server.status \/ (\E e \in Busy : e.kind = "status") THEN {"crossed"} ELSE {})
    BY <1>0, <1>1, CourseOf DEF Course!CourseRead, Course!Saw, Course!If, Course!Value, Of
  <2>2. d \in CourseLoads /\ d.kind = "course" /\ d.step = "count" /\ d.stage = "sent" /\ d # c /\ Course!Turn(c, d)
    BY <1>0, <1>n, <2>1
  <2> HIDE DEF d
  <2>3. /\ page' \in CourseStates /\ page'.status = c.value[1] /\ \A k \in DOMAIN page \ {"status"} : page'[k] = page[k]
    BY <1>0, <2>1 DEF CourseTyped, CourseStates, CourseFits
  <2>4. /\ IsABag(calls)' /\ d \in Busy' /\ Busy' \subseteq Busy \union {d} /\ Busy \ {c} \subseteq Busy'
        /\ \A e \in Busy \ {c, d} : calls'[e] = calls[e]
    BY <2>2, CourseTurned
  <2>5. CourseTyped' /\ CourseFits' /\ CourseRated' /\ CourseWaits'
    BY <1>0, <2>1, <2>2, <2>3, <2>4 DEF CourseTyped, CourseFits, CourseRated, CourseWaits, CourseStates, RatesOf
  <2>6. CourseHeart'
    BY <1>0, <2>1, <2>2, <2>3, <2>4 DEF CourseTyped, CourseHeart, CourseStates
  <2>7. CourseStatus'
    BY <1>0, <2>1, <2>2, <2>3, <2>4 DEF CourseTyped, CourseStatus, CourseStates
  <2>8. CourseRests' /\ CourseNewest'
    BY <1>0, <2>1, <2>2, <2>3, <2>4 DEF CourseTyped, CourseRests, CourseNewest, CourseStates
  <2>9. QED
    BY <2>5, <2>6, <2>7, <2>8
<1>2. CASE Course!CountRead(c)
  <2> DEFINE d == Course!CourseCall("check", c.known)
  <2>0. c.step = "count" /\ Course!Turn(c, d) /\ Course!Value(c) = IF server.favorite THEN 1 ELSE 0
    BY <1>0, <1>2 DEF Course!CountRead, Course!Value
  <2>t. Course!Toggles = {e \in Busy : e.kind = "toggle"}
    BY CourseOf DEF Course!Toggles, Of
  <2> HIDE DEF d
  <2>p. PICK answered \in BOOLEAN :
          /\ Course!Trouble(~answered)
          /\ page' = [page EXCEPT !.count = IF answered THEN c.value[1] ELSE @]
          /\ seen' = seen \union Course!If(c.value[1] # Course!Value(c) \/ Course!Toggles # {}, "crossed")
                          \union Course!If(~answered, "missed")
    BY <1>2 DEF Course!CountRead, Course!Saw
  <2>1. /\ c.step = "count" /\ Course!Trouble(~answered)
        /\ page' = [page EXCEPT !.count = IF answered THEN c.value[1] ELSE page.count]
        /\ seen' = seen \union (IF c.value[1] # (IF server.favorite THEN 1 ELSE 0) \/ (\E e \in Busy : e.kind = "toggle")
                                THEN {"crossed"} ELSE {})
                        \union (IF ~answered THEN {"missed"} ELSE {})
    BY <2>0, <2>t, <2>p DEF Course!If, CourseTyped, CourseStates
  <2>2. d \in CourseLoads /\ d.kind = "course" /\ d.step = "check" /\ d.stage = "sent" /\ d # c /\ Course!Turn(c, d)
    BY <1>0, <1>n, <2>0 DEF d
  <2>3. c.value[1] \in {0, 1} /\ (IF answered THEN c.value[1] ELSE page.count) \in Nat
    BY <1>0, <2>1, CourseTypes DEF CourseFits
  <2>4. /\ page' \in CourseStates /\ page'.count = (IF answered THEN c.value[1] ELSE page.count)
        /\ \A k \in DOMAIN page \ {"count"} : page'[k] = page[k]
    BY <2>1, <2>3 DEF CourseTyped, CourseStates
  <2>5. /\ server' \in CourseServer /\ \A k \in DOMAIN server \ {"trouble"} : server'[k] = server[k]
    BY <2>1, CourseTrouble
  <2>6. /\ IsABag(calls)' /\ d \in Busy' /\ Busy' \subseteq Busy \union {d} /\ Busy \ {c} \subseteq Busy'
        /\ \A e \in Busy \ {c, d} : calls'[e] = calls[e]
    BY <2>2, CourseTurned
  <2>7. CourseTyped' /\ CourseFits' /\ CourseRated' /\ CourseWaits'
    BY <1>0, <2>1, <2>2, <2>4, <2>5, <2>6
       DEF CourseTyped, CourseFits, CourseRated, CourseWaits, CourseStates, CourseServer, RatesOf
  <2>8. CourseHeart'
    <3>1. \A e \in Busy' : e.kind = "toggle" =>
            /\ calls'[e] = 1 /\ page'.toggling /\ \A g \in Busy' : g.kind = "toggle" => e = g
      BY <1>0, <2>2, <2>4, <2>6 DEF CourseHeart, CourseTyped, CourseStates
    <3>2. ASSUME {"crossed", "missed"} \intersect seen' = {}
          PROVE  /\ page'.count = IF page.favorite THEN 1 ELSE 0
                 /\ server.favorite = page.favorite
                 /\ \A e \in Busy' : e.kind # "toggle"
      <4>1. answered /\ c.value[1] = (IF server.favorite THEN 1 ELSE 0) /\ \A e \in Busy : e.kind # "toggle"
        BY <2>1, <3>2
      <4>2. {"crossed", "missed"} \intersect seen = {}
        BY <2>1, <3>2
      <4>3. server.favorite = page.favorite
        BY <4>1, <4>2 DEF CourseHeart
      <4>4. QED
        BY <2>2, <2>4, <2>6, <4>1, <4>3
    <3>3. page'.favorite = page.favorite /\ server'.favorite = server.favorite
      BY <2>4, <2>5 DEF CourseTyped, CourseStates, CourseServer
    <3>4. QED
      BY <3>1, <3>2, <3>3 DEF CourseHeart
  <2>9. /\ server'.ratings = server.ratings /\ server'.rated = server.rated /\ server'.status = server.status
        /\ seen \subseteq seen' /\ seen' \subseteq seen \union {"crossed", "missed"}
    BY <2>1, <2>5 DEF CourseTyped, CourseServer
  <2>10. CourseStatus'
    <3>1. page'.error = page.error /\ page'.status = page.status
      BY <2>4 DEF CourseTyped, CourseStates
    <3>2. c.step # "course"
      BY <2>1
    <3>3. QED
      BY <1>0, <2>6, <2>9, <3>1, <3>2 DEF CourseStatus
  <2>11. CourseRests'
    BY <1>0, <2>2, <2>4, <2>6, <2>9 DEF CourseTyped, CourseRests, CourseStates
  <2>12. CourseNewest'
    BY <1>0, <2>2, <2>4, <2>6, <2>9 DEF CourseTyped, CourseNewest, CourseStates
  <2>13. QED
    BY <2>7, <2>8, <2>10, <2>11, <2>12
<1>3. QED
  BY <1>1, <1>2

LEMMA CourseLoadFails == ASSUME CourseInv, NEW c \in Busy, Course!CourseFails(c) PROVE CourseInv'
<1> USE DEF CourseInv
<1>1. /\ c.kind = "course" /\ Course!Trouble(TRUE) /\ Course!End(c) /\ UNCHANGED seen
      /\ page' = [page EXCEPT !.loading = FALSE, !.error = TRUE]
  BY DEF Course!CourseFails
<1>2. page' \in CourseStates /\ ~page'.loading /\ page'.error /\ \A k \in DOMAIN page \ {"loading", "error"} : page'[k] = page[k]
  BY <1>1 DEF CourseTyped, CourseStates
<1>3. /\ server' \in CourseServer /\ \A k \in DOMAIN server \ {"trouble"} : server'[k] = server[k]
  BY <1>1, CourseTrouble
<1>4. /\ IsABag(calls)' /\ Busy' \subseteq Busy /\ Busy \ {c} \subseteq Busy' /\ \A d \in Busy \ {c} : calls'[d] = calls[d]
  BY <1>1, CourseEnded
<1>5. QED
  BY <1>1, <1>2, <1>3, <1>4 DEF CourseTyped, CourseFits, CourseRated, CourseWaits, CourseHeart, CourseStatus, CourseRests,
    CourseNewest, CourseStates, CourseServer, RatesOf

LEMMA CourseStepChecked == ASSUME CourseInv, NEW c \in Busy, Course!CourseChecked(c) PROVE CourseInv'
<1> USE DEF CourseInv
<1> DEFINE d == Course!RatingsCall("course", 0, c.known)
<1>0. c.kind = "course" /\ c.step = "check" /\ c.stage = "read" /\ c \in CourseLoads /\ c.known \in SUBSET Raters
  BY CourseCallTypes DEF Course!CourseChecked, CourseLoads
<1>v. Course!Turn(c, d) /\ Course!Value(c) = server.favorite
  BY <1>0 DEF Course!CourseChecked, Course!Value
<1>t. Course!Toggles = {e \in Busy : e.kind = "toggle"}
  BY CourseOf DEF Course!Toggles, Of
<1> HIDE DEF d
<1>p. PICK answered \in BOOLEAN :
        /\ Course!Trouble(~answered)
        /\ page' = [page EXCEPT !.favorite = IF answered THEN c.value[1] ELSE @,
                                !.list = <<>>, !.next = 0, !.listing = TRUE]
        /\ seen' = seen \union Course!If(c.value[1] # Course!Value(c) \/ Course!Toggles # {}, "crossed")
                        \union Course!If(~answered, "missed")
  BY DEF Course!CourseChecked, Course!Saw
<1> DEFINE f == IF answered THEN c.value[1] ELSE page.favorite
<1>1. /\ Course!Trouble(~answered)
      /\ page' = [page EXCEPT !.favorite = f, !.list = <<>>, !.next = 0, !.listing = TRUE]
      /\ seen' = seen \union (IF c.value[1] # server.favorite \/ (\E e \in Busy : e.kind = "toggle") THEN {"crossed"} ELSE {})
                      \union (IF ~answered THEN {"missed"} ELSE {})
  BY <1>v, <1>t, <1>p DEF Course!If, CourseTyped, CourseStates
<1>2. /\ d \in CourseRatings /\ d.kind = "ratings" /\ d.for = "course" /\ d.at = 0 /\ d.stage = "sent" /\ d # c
      /\ Course!Turn(c, d)
  BY <1>0, <1>v DEF Course!RatingsCall, CourseRatings, CourseLists, d
<1>3. f \in BOOLEAN /\ (answered => f = c.value[1])
  BY <1>0, CourseTypes DEF CourseFits
<1> HIDE DEF f
<1>e. <<>> \in Seq(Raters) /\ 0 \in Nat
  OBVIOUS
<1>4. /\ page' \in CourseStates /\ page'.favorite = f
      /\ page'.list = <<>> /\ page'.next = 0 /\ page'.listing
      /\ \A k \in DOMAIN page \ {"favorite", "list", "next", "listing"} : page'[k] = page[k]
  BY <1>1, <1>3, <1>e DEF CourseTyped, CourseStates
<1>5. /\ server' \in CourseServer /\ \A k \in DOMAIN server \ {"trouble"} : server'[k] = server[k]
  BY <1>1, CourseTrouble
<1>6. /\ IsABag(calls)' /\ d \in Busy' /\ Busy' \subseteq Busy \union {d} /\ Busy \ {c} \subseteq Busy'
      /\ \A e \in Busy \ {c, d} : calls'[e] = calls[e]
  BY <1>2, CourseTurned
<1>7. server.ratings \in Nat /\ server'.ratings = server.ratings
  BY <1>5, CourseTypes DEF Raters, CourseTyped, CourseServer
<1>8. CourseTyped' /\ CourseFits' /\ CourseRated' /\ CourseWaits'
  BY <1>0, <1>1, <1>2, <1>4, <1>5, <1>6, <1>7
     DEF CourseTyped, CourseFits, CourseRated, CourseWaits, CourseStates, CourseServer, RatesOf
<1>9. CourseHeart'
  <2>1. \A e \in Busy' : e.kind = "toggle" =>
          /\ calls'[e] = 1 /\ page'.toggling /\ \A g \in Busy' : g.kind = "toggle" => e = g
    BY <1>0, <1>2, <1>4, <1>6 DEF CourseHeart, CourseTyped, CourseStates
  <2>2. ASSUME {"crossed", "missed"} \intersect seen' = {}
        PROVE  /\ page'.favorite = page.favorite /\ page.count = (IF page.favorite THEN 1 ELSE 0)
               /\ server.favorite = page.favorite
               /\ \A e \in Busy' : e.kind # "toggle"
    <3>1. f = server.favorite /\ \A e \in Busy : e.kind # "toggle"
      BY <1>1, <1>3, <2>2
    <3>2. {"crossed", "missed"} \intersect seen = {}
      BY <1>1, <2>2
    <3>3. server.favorite = page.favorite /\ page.count = (IF page.favorite THEN 1 ELSE 0)
      BY <3>1, <3>2 DEF CourseHeart
    <3>4. QED
      BY <1>2, <1>4, <1>6, <3>1, <3>3
  <2>3. page'.count = page.count /\ server'.favorite = server.favorite
    BY <1>4, <1>5 DEF CourseTyped, CourseStates, CourseServer
  <2>4. QED
    BY <2>1, <2>2, <2>3 DEF CourseHeart
<1>10. /\ server'.rated = server.rated /\ server'.status = server.status
       /\ seen \subseteq seen' /\ seen' \subseteq seen \union {"crossed", "missed"}
  BY <1>1, <1>5 DEF CourseTyped, CourseServer
<1>11. CourseStatus'
  BY <1>0, <1>2, <1>4, <1>6, <1>10 DEF CourseTyped, CourseStatus, CourseStates
<1>12. CourseRests'
  <2>1. Len(page'.list) < PageSize
    BY <1>4, RatersCount
  <2>2. page.ranNext = page'.ranNext /\ page'.next = 0
    BY <1>4 DEF CourseTyped, CourseStates
  <2>3. QED
    BY <2>1, <2>2 DEF CourseRests
<1>13. CourseNewest'
  <2>1. page'.list = <<>> /\ page'.next = 0 /\ 0 <= server'.ratings
    BY <1>4, <1>7
  <2>2. \A e \in Busy' : e.kind = "ratings" /\ e.stage = "read" => e \in Busy
    BY <1>2, <1>6
  <2>3. {"moved", "overtaken"} \intersect seen' = {} => {"moved", "overtaken"} \intersect seen = {}
    BY <1>10
  <2>4. QED
    BY <1>7, <1>10, <2>1, <2>2, <2>3 DEF CourseNewest
<1>14. QED
  BY <1>8, <1>9, <1>11, <1>12, <1>13

\* The ratings.
LEMMA CourseRatingsLoaded == ASSUME CourseInv, ~Course!Due, NEW c \in Busy, Course!RatingsLoaded(c) PROVE CourseInv'
<1> USE DEF CourseInv
<1> DEFINE v == c.value[1]
           new == Course!Elements(v) \ c.known
           d == [kind |-> "users", ids |-> new]
           shown == IF c.for = "more" THEN page.list \o v ELSE v
           next == Course!TokenAfter(c.at, v)
           loading == page.loading /\ c.for # "course"
           submitting == page.submitting /\ c.for # "rate"
<1>1. c.kind = "ratings" /\ c.stage = "read" /\ UNCHANGED server
  BY DEF Course!RatingsLoaded
<1>2. c \in CourseRatings /\ c.at \in Nat /\ c.for \in {"course", "rate", "more"}
  BY <1>1, CourseCallTypes DEF CourseRatings
<1>3. IF new = {} THEN Course!End(c) ELSE Course!Turn(c, d)
  BY DEF Course!RatingsLoaded
<1>4. seen' = seen \union (IF c.for = "more" /\ (c.at # page.next \/ {e \in Busy : e.kind = "ratings"} # {c})
                           THEN {"overtaken"} ELSE {})
  BY CourseOf DEF Course!RatingsLoaded, Course!Saw, Course!If, Of
<1>5. page' = [page EXCEPT !.list = shown, !.next = next, !.listing = FALSE, !.loading = loading, !.submitting = submitting]
  BY DEF Course!RatingsLoaded, Course!Ended, CourseTyped, CourseStates
<1>6. /\ v \in Seq(Raters) /\ Len(v) \in Nat /\ Len(v) <= PageSize
      /\ c.at <= server.ratings /\ c.at + Len(v) <= server.ratings /\ (c.for = "more" <=> c.at # 0)
  BY <1>1 DEF CourseFits
<1>7. d \in CourseNames /\ d.kind = "users"
  <2>1. Course!Elements(v) \subseteq Raters
    BY <1>6 DEF Course!Elements
  <2>2. QED
    BY <2>1 DEF CourseNames
<1>8. c # d
  BY <1>1, <1>7
<1> HIDE DEF new, d, v
<1>9. /\ IsABag(calls)' /\ Busy' \subseteq Busy \union {d} /\ Busy \ {c} \subseteq Busy'
      /\ calls[c] = 1 => c \notin Busy'
      /\ \A e \in Busy \ {c, d} : calls'[e] = calls[e]
  BY <1>3, <1>8, CourseEnded, CourseTurned
<1>10. /\ next = IF Len(v) = PageSize THEN c.at + PageSize ELSE 0
       /\ next \in Nat /\ next <= server.ratings
  BY <1>2, <1>6, CourseTypes, RatersCount DEF Course!TokenAfter, Raters
<1>11. shown \in Seq(Raters)
  BY <1>6, CourseTypes
<1>12. loading \in BOOLEAN /\ submitting \in BOOLEAN
  BY CourseTypes
<1> HIDE DEF shown, next, loading, submitting
<1>13. /\ page' \in CourseStates /\ page'.list = shown /\ page'.next = next /\ ~page'.listing /\ page'.loading = loading
       /\ page'.submitting = submitting
       /\ \A k \in DOMAIN page \ {"list", "next", "listing", "loading", "submitting"} : page'[k] = page[k]
  BY <1>5, <1>10, <1>11, <1>12 DEF CourseTyped, CourseStates
<1>14. CourseTyped' /\ CourseFits'
  BY <1>1, <1>4, <1>7, <1>9, <1>10, <1>13 DEF CourseTyped, CourseFits, CourseStates
<1>15. CourseRated' /\ CourseWaits'
  BY <1>1, <1>2, <1>7, <1>9, <1>13 DEF CourseTyped, CourseRated, CourseWaits, CourseStates, RatesOf, loading, submitting
<1>16. CourseHeart' /\ CourseStatus'
  <2>1. seen \subseteq seen' /\ seen' \subseteq seen \union {"overtaken"}
    BY <1>4
  <2>2. CourseHeart'
    BY <1>1, <1>7, <1>9, <1>13, <2>1 DEF CourseTyped, CourseHeart, CourseStates
  <2>3. CourseStatus'
    BY <1>1, <1>7, <1>9, <1>13, <2>1 DEF CourseTyped, CourseStatus, CourseStates
  <2>4. QED
    BY <2>2, <2>3
<1>17. page.next = page.ranNext /\ ~page.newUsers
  BY DEF Course!Due
<1>18. CourseRests'
  <2>1. SUFFICES ASSUME "overtaken" \notin seen', ~page'.error, page'.next = page'.ranNext, \A e \in Busy' : e.kind # "course"
                 PROVE  page'.next = 0 /\ Len(page'.list) < PageSize
    BY DEF CourseRests
  <2>2. "overtaken" \notin seen /\ ~page.error /\ \A e \in Busy : e.kind # "course"
    BY <1>1, <1>4, <1>9, <1>13, <2>1 DEF CourseTyped, CourseStates
  <2>3. page.next = 0
    BY <1>17, <2>2 DEF CourseRests
  <2>4. c.for # "more"
    BY <1>4, <1>6, <2>1, <2>3
  <2>5. shown = v /\ c.at = 0
    BY <1>2, <1>6, <2>4 DEF shown
  <2>6. next = 0
    BY <1>13, <1>17, <2>1, <2>3 DEF CourseTyped, CourseStates
  <2>7. Len(v) # PageSize
    BY <1>10, <2>5, <2>6, RatersCount
  <2>8. QED
    BY <1>6, <1>13, <2>5, <2>6, <2>7, RatersCount
<1>19. CourseNewest'
  <2>1. SUFFICES ASSUME {"moved", "overtaken"} \intersect seen' = {}, ~server.rated
                 PROVE  CourseNewest'
    BY <1>1 DEF CourseNewest
  <2>2. {"moved", "overtaken"} \intersect seen = {}
    BY <1>4, <2>1
  <2>3. /\ Len(page.list) \in Nat /\ page.list \in Seq(Raters) /\ page.next \in {0, Len(page.list)}
        /\ \A i \in 1..Len(page.list) : page.list[i] = server.ratings - i + 1
        /\ \A i \in 1..Len(v) : v[i] = server.ratings - c.at - i + 1
    BY <1>1, <2>1, <2>2, CourseTypes DEF CourseNewest, v
  <2>4. server.ratings \in Nat
    BY CourseTypes DEF Raters
  <2>5. Len(shown) = c.at + Len(v) /\ \A i \in 1..Len(shown) : shown[i] = server.ratings - i + 1
    <3>1. CASE c.for = "more"
      <4>1. c.at = page.next /\ c.at = Len(page.list)
        BY <1>4, <1>6, <2>1, <2>3, <3>1
      <4>2. shown = page.list \o v
        BY <3>1 DEF shown
      <4>3. Len(shown) = c.at + Len(v)
        BY <1>6, <2>3, <4>1, <4>2
      <4>4. \A i \in 1..Len(shown) : shown[i] = IF i <= c.at THEN page.list[i] ELSE v[i - c.at]
        BY <1>6, <2>3, <4>1, <4>2
      <4>5. \A i \in 1..Len(shown) : i > c.at => i - c.at \in 1..Len(v)
        BY <1>2, <1>6, <4>3
      <4>6. \A i \in 1..Len(shown) : i > c.at => v[i - c.at] = server.ratings - i + 1
        <5> TAKE i \in 1..Len(shown)
        <5> HAVE i > c.at
        <5>1. v[i - c.at] = server.ratings - c.at - (i - c.at) + 1
          BY <2>3, <4>5
        <5>2. QED
          BY <1>2, <2>4, <4>3, <5>1
      <4>7. \A i \in 1..Len(shown) : i <= c.at => page.list[i] = server.ratings - i + 1
        BY <1>2, <2>3, <4>1, <4>3
      <4>8. QED
        BY <1>2, <4>3, <4>4, <4>6, <4>7
    <3>2. CASE c.for # "more"
      <4>1. c.at = 0 /\ shown = v
        BY <1>2, <1>6, <3>2 DEF shown
      <4>2. QED
        BY <1>6, <2>3, <2>4, <4>1
    <3>3. QED
      BY <3>1, <3>2
  <2>6. next \in {0, Len(shown)}
    BY <1>2, <1>6, <1>10, <2>5
  <2>7. QED
    BY <1>1, <1>6, <1>7, <1>9, <1>13, <2>1, <2>2, <2>5, <2>6 DEF CourseNewest
<1>20. QED
  BY <1>14, <1>15, <1>16, <1>18, <1>19

LEMMA CourseRatingsFail == ASSUME CourseInv, NEW c \in Busy, Course!RatingsFail(c) PROVE CourseInv'
<1> USE DEF CourseInv
<1> DEFINE loading == page.loading /\ c.for # "course"
           submitting == page.submitting /\ c.for # "rate"
<1>1. /\ c.kind = "ratings" /\ Course!Trouble(TRUE) /\ Course!End(c) /\ UNCHANGED seen
      /\ page' = [page EXCEPT !.listing = FALSE, !.loading = loading, !.submitting = submitting]
  BY DEF Course!RatingsFail, Course!Ended, CourseTyped, CourseStates
<1>2. loading \in BOOLEAN /\ submitting \in BOOLEAN
  BY CourseTypes
<1> HIDE DEF loading, submitting
<1>3. /\ page' \in CourseStates /\ ~page'.listing /\ page'.loading = loading /\ page'.submitting = submitting
      /\ \A k \in DOMAIN page \ {"listing", "loading", "submitting"} : page'[k] = page[k]
  BY <1>1, <1>2 DEF CourseTyped, CourseStates
<1>4. /\ server' \in CourseServer /\ \A k \in DOMAIN server \ {"trouble"} : server'[k] = server[k]
  BY <1>1, CourseTrouble
<1>5. /\ IsABag(calls)' /\ Busy' \subseteq Busy /\ Busy \ {c} \subseteq Busy'
      /\ calls[c] = 1 => c \notin Busy'
      /\ \A d \in Busy \ {c} : calls'[d] = calls[d]
  BY <1>1, CourseEnded
<1>6. server'.ratings = server.ratings /\ server'.rated = server.rated /\ server'.favorite = server.favorite
      /\ server'.status = server.status
  BY <1>4 DEF CourseTyped, CourseServer
<1>7. CourseTyped' /\ CourseFits'
  BY <1>1, <1>3, <1>4, <1>5, <1>6 DEF CourseTyped, CourseFits, CourseStates
<1>8. CourseHeart' /\ CourseStatus'
  BY <1>1, <1>3, <1>5, <1>6 DEF CourseTyped, CourseHeart, CourseStatus, CourseStates
<1>9. CourseRests' /\ CourseNewest'
  BY <1>1, <1>3, <1>5, <1>6 DEF CourseTyped, CourseRests, CourseNewest, CourseStates
<1>10. CourseRated'
  BY <1>1, <1>3, <1>5, <1>6 DEF CourseTyped, CourseRated, CourseStates, RatesOf, submitting
<1>11. CourseWaits'
  BY <1>1, <1>3, <1>5 DEF CourseTyped, CourseWaits, CourseStates, RatesOf, loading, submitting
<1>12. QED
  BY <1>7, <1>8, <1>9, <1>10, <1>11

LEMMA CourseUsersLoaded == ASSUME CourseInv, ~Course!Due, NEW c \in Busy, Course!UsersLoaded(c) PROVE CourseInv'
<1> USE DEF CourseInv
<1>1. c.kind = "users" /\ Course!End(c) /\ UNCHANGED seen /\ c.ids \in SUBSET Raters
  BY CourseCallTypes DEF Course!UsersLoaded, CourseNames
<1>2. PICK found \in SUBSET Raters :
        /\ \E missed \in BOOLEAN : Course!Trouble(missed)
        /\ page' = [page EXCEPT !.users = page.users \union found, !.newUsers = page.newUsers \/ found # {}]
  <2>1. PICK found \in SUBSET c.ids :
          /\ Course!Trouble(found # c.ids)
          /\ page' = [page EXCEPT !.users = @ \union found, !.newUsers = @ \/ found # {}]
    BY DEF Course!UsersLoaded
  <2>2. found \in SUBSET Raters /\ (found # c.ids) \in BOOLEAN
    BY <1>1, <2>1
  <2>3. page' = [page EXCEPT !.users = page.users \union found, !.newUsers = page.newUsers \/ found # {}]
    BY <2>1 DEF CourseTyped, CourseStates
  <2>4. QED
    BY <2>1, <2>2, <2>3
<1> DEFINE users == page.users \union found
           newUsers == page.newUsers \/ found # {}
<1>3. users \in SUBSET Raters /\ newUsers \in BOOLEAN
  BY CourseTypes
<1>4. /\ page' \in CourseStates /\ page'.newUsers = newUsers
      /\ \A k \in DOMAIN page \ {"users", "newUsers"} : page'[k] = page[k]
  BY <1>2, <1>3 DEF CourseTyped, CourseStates
<1>5. /\ server' \in CourseServer /\ \A k \in DOMAIN server \ {"trouble"} : server'[k] = server[k]
  BY <1>2, CourseTrouble
<1>6. server'.ratings = server.ratings /\ server'.rated = server.rated /\ server'.favorite = server.favorite
      /\ server'.status = server.status
  BY <1>5 DEF CourseTyped, CourseServer
<1>7. /\ IsABag(calls)' /\ Busy' \subseteq Busy /\ Busy \ {c} \subseteq Busy' /\ \A d \in Busy \ {c} : calls'[d] = calls[d]
  BY <1>1, CourseEnded
<1>8. ~page.newUsers
  BY DEF Course!Due
<1>9. CourseTyped' /\ CourseFits' /\ CourseRated' /\ CourseWaits'
  <2>1. CourseTyped' /\ CourseFits'
    BY <1>1, <1>4, <1>5, <1>6, <1>7 DEF CourseTyped, CourseFits, CourseStates
  <2>2. CourseRated'
    BY <1>1, <1>4, <1>6, <1>7 DEF CourseTyped, CourseRated, CourseStates, RatesOf
  <2>3. CourseWaits'
    BY <1>1, <1>4, <1>7 DEF CourseTyped, CourseWaits, CourseStates, RatesOf
  <2>4. QED
    BY <2>1, <2>2, <2>3
<1>10. CourseHeart' /\ CourseStatus' /\ CourseNewest'
  <2>1. CourseHeart'
    BY <1>1, <1>4, <1>6, <1>7 DEF CourseTyped, CourseHeart, CourseStates
  <2>2. CourseStatus'
    BY <1>1, <1>4, <1>6, <1>7 DEF CourseTyped, CourseStatus, CourseStates
  <2>3. CourseNewest'
    BY <1>1, <1>4, <1>6, <1>7 DEF CourseTyped, CourseNewest, CourseStates
  <2>4. QED
    BY <2>1, <2>2, <2>3
<1>11. CourseRests'
  BY <1>1, <1>4, <1>7, <1>8 DEF CourseTyped, CourseRests, CourseStates
<1>12. QED
  BY <1>9, <1>10, <1>11

\* The answers to clicks.
LEMMA CourseToggled == ASSUME CourseInv, NEW c \in Busy, Course!Toggled(c) PROVE CourseInv'
<1> USE DEF CourseInv
<1> DEFINE count == IF c.to THEN page.count + 1 ELSE IF page.count = 0 THEN 0 ELSE page.count - 1
<1>1. /\ c.kind = "toggle" /\ c.stage = "done" /\ Course!End(c) /\ UNCHANGED <<server, seen>>
      /\ page' = [page EXCEPT !.toggling = FALSE, !.favorite = c.to, !.count = count]
  BY DEF Course!Toggled, CourseTyped, CourseStates
<1>2. c.to \in BOOLEAN
  BY <1>1, CourseCallTypes DEF CourseWrites
<1>3. count \in Nat
  BY <1>2, CourseTypes
<1>4. /\ {"crossed", "missed"} \intersect seen = {} =>
           /\ server.favorite = c.to
           /\ count = IF c.to THEN 1 ELSE 0
  BY <1>1, <1>2, CourseTypes DEF CourseHeart
<1> HIDE DEF count
<1>5. /\ page' \in CourseStates /\ ~page'.toggling /\ page'.favorite = c.to /\ page'.count = count
      /\ \A k \in DOMAIN page \ {"toggling", "favorite", "count"} : page'[k] = page[k]
  BY <1>1, <1>2, <1>3 DEF CourseTyped, CourseStates
<1>6. /\ IsABag(calls)' /\ Busy' \subseteq Busy /\ Busy \ {c} \subseteq Busy'
      /\ c \notin Busy'
      /\ \A d \in Busy \ {c} : calls'[d] = calls[d]
  BY <1>1, CourseEnded DEF CourseHeart
<1>7. CourseTyped' /\ CourseFits' /\ CourseRated' /\ CourseWaits'
  BY <1>1, <1>5, <1>6 DEF CourseTyped, CourseFits, CourseRated, CourseWaits, CourseStates, RatesOf
<1>8. \A d \in Busy' : d.kind # "toggle"
  BY <1>1, <1>6 DEF CourseHeart
<1>9. CourseHeart'
  BY <1>1, <1>4, <1>5, <1>8 DEF CourseHeart
<1>10. CourseStatus' /\ CourseRests' /\ CourseNewest'
  BY <1>1, <1>5, <1>6 DEF CourseTyped, CourseStatus, CourseRests, CourseNewest, CourseStates
<1>11. QED
  BY <1>7, <1>9, <1>10

LEMMA CourseRatingTaken == ASSUME CourseInv, ~Course!Due, NEW c \in Busy, Course!Rated(c) PROVE CourseInv'
<1> USE DEF CourseInv
<1> DEFINE d == Course!RatingsCall("rate", 0, c.known)
<1>1. /\ c.kind = "rate" /\ c.stage = "done" /\ Course!Turn(c, d) /\ UNCHANGED <<server, seen>>
      /\ page' = [page EXCEPT !.list = <<>>, !.next = 0, !.listing = TRUE]
  BY DEF Course!Rated
<1>2. c.known \in SUBSET Raters
  BY <1>1, CourseCallTypes DEF CourseRates
<1>3. /\ d \in CourseRatings /\ d.kind = "ratings" /\ d.for = "rate" /\ d.at = 0 /\ d.stage = "sent" /\ d # c
      /\ Course!Turn(c, d)
  BY <1>1, <1>2 DEF Course!RatingsCall, CourseRatings, CourseLists
<1> HIDE DEF d
<1>4. <<>> \in Seq(Raters) /\ 0 \in Nat
  OBVIOUS
<1>5. /\ page' \in CourseStates /\ page'.list = <<>> /\ page'.next = 0 /\ page'.listing
      /\ \A k \in DOMAIN page \ {"list", "next", "listing"} : page'[k] = page[k]
  BY <1>1, <1>4 DEF CourseTyped, CourseStates
<1>6. /\ IsABag(calls)' /\ d \in Busy' /\ Busy' \subseteq Busy \union {d} /\ Busy \ {c} \subseteq Busy'
      /\ calls[c] = 1 => c \notin Busy'
      /\ \A e \in Busy \ {c, d} : calls'[e] = calls[e]
      /\ d \notin Busy => calls'[d] = 1
  BY <1>3, CourseTurned
<1>7. server.ratings \in Nat
  BY CourseTypes DEF Raters
<1>8. CourseTyped' /\ CourseFits' /\ CourseWaits'
  BY <1>1, <1>3, <1>5, <1>6, <1>7 DEF CourseTyped, CourseFits, CourseWaits, CourseStates, RatesOf
<1>9. CourseRated'
  BY <1>1, <1>3, <1>5, <1>6 DEF CourseTyped, CourseRated, CourseStates, RatesOf
<1>10. CourseHeart' /\ CourseStatus'
  BY <1>1, <1>3, <1>5, <1>6 DEF CourseTyped, CourseHeart, CourseStatus, CourseStates
<1>11. CourseRests'
  <2>1. page.next = page.ranNext /\ ~page.newUsers
    BY DEF Course!Due
  <2>2. page'.next = 0 /\ Len(page'.list) < PageSize
    BY <1>5, RatersCount
  <2>3. QED
    BY <2>2 DEF CourseRests
<1>12. CourseNewest'
  <2>1. Len(page'.list) = 0
    BY <1>5
  <2>2. QED
    BY <1>1, <1>3, <1>5, <1>6, <1>7, <2>1 DEF CourseNewest
<1>13. QED
  BY <1>8, <1>9, <1>10, <1>11, <1>12

LEMMA CourseStatusChanged == ASSUME CourseInv, NEW c \in Busy, Course!StatusChanged(c) PROVE CourseInv'
<1> USE DEF CourseInv
<1>1. /\ c.kind = "status" /\ c.stage = "done" /\ Course!End(c) /\ UNCHANGED server
      /\ page' = [page EXCEPT !.status = c.to]
      /\ seen' = seen \union (IF c.to # server.status \/ {e \in Busy : e.kind = "status"} # {c} THEN {"crossed"} ELSE {})
  BY CourseOf DEF Course!StatusChanged, Course!Saw, Course!If, Of
<1>2. c.to \in Course!Statuses
  BY <1>1, CourseCallTypes DEF CourseWrites
<1>3. /\ page' \in CourseStates /\ page'.status = c.to /\ \A k \in DOMAIN page \ {"status"} : page'[k] = page[k]
  BY <1>1, <1>2 DEF CourseTyped, CourseStates
<1>4. /\ IsABag(calls)' /\ Busy' \subseteq Busy /\ Busy \ {c} \subseteq Busy' /\ \A d \in Busy \ {c} : calls'[d] = calls[d]
  BY <1>1, CourseEnded
<1>5. CourseTyped' /\ CourseFits' /\ CourseRated' /\ CourseWaits'
  BY <1>1, <1>3, <1>4 DEF CourseTyped, CourseFits, CourseRated, CourseWaits, CourseStates, RatesOf
<1>6. CourseStatus'
  BY <1>1, <1>3 DEF CourseStatus
<1>7. CourseHeart' /\ CourseRests' /\ CourseNewest'
  BY <1>1, <1>3, <1>4 DEF CourseTyped, CourseHeart, CourseRests, CourseNewest, CourseStates
<1>8. QED
  BY <1>5, <1>6, <1>7

LEMMA CourseWriteFails == ASSUME CourseInv, NEW c \in Busy, Course!WriteFails(c) PROVE CourseInv'
<1> USE DEF CourseInv
<1> DEFINE toggling == page.toggling /\ c.kind # "toggle"
           submitting == page.submitting /\ c.kind # "rate"
           error == page.error \/ c.kind = "status"
<1>1. /\ c.kind \in {"toggle", "status", "rate"} /\ Course!Trouble(TRUE) /\ Course!End(c)
      /\ seen' = seen \union (IF c.stage = "done" THEN {"crossed"} ELSE {})
      /\ page' = CASE c.kind = "toggle" -> [page EXCEPT !.toggling = FALSE]
                   [] c.kind = "status" -> [page EXCEPT !.error = TRUE]
                   [] c.kind = "rate" -> [page EXCEPT !.submitting = FALSE]
  BY DEF Course!WriteFails, Course!Saw, Course!If
<1>2. /\ page' \in CourseStates /\ page'.toggling = toggling /\ page'.submitting = submitting /\ page'.error = error
      /\ \A k \in DOMAIN page \ {"toggling", "submitting", "error"} : page'[k] = page[k]
  <2>1. CASE c.kind = "toggle"
    BY <1>1, <2>1 DEF CourseTyped, CourseStates
  <2>2. CASE c.kind = "status"
    BY <1>1, <2>2 DEF CourseTyped, CourseStates
  <2>3. CASE c.kind = "rate"
    BY <1>1, <2>3 DEF CourseTyped, CourseStates
  <2>4. QED
    BY <1>1, <2>1, <2>2, <2>3
<1>3. /\ server' \in CourseServer /\ \A k \in DOMAIN server \ {"trouble"} : server'[k] = server[k]
  BY <1>1, CourseTrouble
<1>4. /\ server'.ratings = server.ratings /\ server'.rated = server.rated /\ server'.favorite = server.favorite
      /\ server'.status = server.status
  BY <1>3 DEF CourseTyped, CourseServer
<1>5. /\ IsABag(calls)' /\ Busy' \subseteq Busy /\ Busy \ {c} \subseteq Busy'
      /\ calls[c] = 1 => c \notin Busy'
      /\ \A d \in Busy \ {c} : calls'[d] = calls[d]
  BY <1>1, CourseEnded
<1>6. /\ c.kind \in {"toggle", "status", "rate"} /\ seen \subseteq seen' /\ seen' \subseteq seen \union {"crossed"}
      /\ c.stage = "done" => "crossed" \in seen'
      /\ c.stage \in {"sent", "done"}
  BY <1>1, CourseCallTypes DEF CourseWrites, CourseRates
<1>7. CourseTyped'
  BY <1>2, <1>3, <1>5, <1>6 DEF CourseTyped
<1>8. CourseFits'
  BY <1>2, <1>4, <1>5 DEF CourseTyped, CourseFits, CourseStates
<1>9. CourseRated'
  BY <1>2, <1>4, <1>5 DEF CourseTyped, CourseRated, CourseStates, RatesOf, submitting
<1>10. CourseWaits'
  BY <1>2, <1>5, <1>6 DEF CourseTyped, CourseWaits, CourseStates, RatesOf, toggling, submitting
<1>11. CourseHeart'
  BY <1>2, <1>4, <1>5, <1>6 DEF CourseTyped, CourseHeart, CourseStates, toggling
<1>12. CourseStatus'
  BY <1>2, <1>4, <1>5, <1>6 DEF CourseTyped, CourseStatus, CourseStates, error
<1>13. CourseRests'
  BY <1>2, <1>5, <1>6 DEF CourseTyped, CourseRests, CourseStates, error
<1>14. CourseNewest'
  <2>1. /\ page'.list = page.list /\ page'.next = page.next
        /\ \A d \in Busy' : d \in Busy
        /\ {"moved", "overtaken"} \intersect seen' = {} => {"moved", "overtaken"} \intersect seen = {}
    BY <1>2, <1>5, <1>6 DEF CourseTyped, CourseStates
  <2>2. QED
    BY <1>4, <2>1 DEF CourseNewest
<1>15. QED
  BY <1>7, <1>8, <1>9, <1>10, <1>11, <1>12, <1>13, <1>14

LEMMA CourseStep == CourseInv /\ Course!Next => CourseInv'
<1> SUFFICES ASSUME CourseInv, Course!Next PROVE CourseInv'
  OBVIOUS
<1>1. CASE Course!Server
  BY <1>1, CourseCalls, CourseOthers, CourseServed, CourseWritten DEF Course!Server
<1>2. CASE Course!RunEffect
  BY <1>2, CourseEffect
<1>3. CASE Course!Clicks
  BY <1>3, CourseClicked
<1>4. ASSUME ~Course!Due, NEW c \in Busy, Course!Takes(c) PROVE CourseInv'
  BY <1>4, CourseStepTaken, CourseStepChecked, CourseRatingsLoaded, CourseUsersLoaded, CourseToggled,
     CourseRatingTaken, CourseStatusChanged DEF Course!Takes
<1>5. ASSUME NEW c \in Busy, Course!Fails(c) PROVE CourseInv'
  BY <1>5, CourseLoadFails, CourseRatingsFail, CourseWriteFails DEF Course!Fails
<1>6. QED
  BY <1>1, <1>2, <1>3, <1>4, <1>5, CourseCalls DEF Course!Next


(***************************************************************************)
(* The form of a course.                                                   *)
(***************************************************************************)

LEMMA FormCalls ==
  /\ Form!Busy = Busy
  /\ \A c : Form!Send(c) => Added(c)
  /\ \A c : Form!End(c) <=> End(c)
  /\ \A c, d : Form!Turn(c, d) <=> Turn(c, d)
  /\ \A c : Form!Only(c) = Only(c)
BY DEF Form!Busy, Form!BagToSet, Busy, BagToSet, Form!Send, Form!End, Form!Turn, Form!Only,
       Form!(+), Form!(-), Form!SetToBag, Added, End, Turn, Only, SetToBag, (+), (-)

LEMMA FormOf == \A kinds : Form!Of(kinds) = Of(kinds)
BY FormCalls DEF Form!Of, Of

FormStates == [edits : BOOLEAN, loading : BOOLEAN, owner : BOOLEAN, text : 0..MaxEdits, file : Form!Pictures,
               left : BOOLEAN, preview : Form!Pictures, picture : Form!Pictures, uploading : BOOLEAN, submitting : BOOLEAN]
FormServer == [posts : Nat, text : 0..MaxEdits, picture : Form!Pictures, trouble : Nat]
FormRequests == [kind : {"load", "look", "reader", "head", "upload", "delete", "save", "attach", "remove"},
                 text : 0..MaxEdits, file : Form!Pictures, stage : {"sent", "done"}]

FormTyped ==
  /\ IsABag(calls) /\ Busy \subseteq FormRequests
  /\ page \in FormStates /\ server \in FormServer
  /\ seen \subseteq {"overtaken", "failed", "lost", "edited", "removed"}

Calm == seen \intersect {"overtaken", "lost"} = {}
Asked == {c \in Busy : c.kind \in {"load", "look"}}
Chosen == {c \in Busy : c.kind \in {"reader", "head", "upload"}}
Sending == {c \in Busy : c.kind \in {"upload", "delete"}}
Saving == {c \in Busy : c.kind \in {"save", "attach", "remove"}}
Attaching == {c \in Busy : c.kind = "attach"}

\* The course that is edited is loaded, alone, before anything else; nothing
\* follows a load that failed.
FormLoads ==
  /\ \A c \in Asked :
       /\ Busy = {c} /\ calls[c] = 1 /\ page.loading /\ page.edits /\ ~page.owner /\ ~page.left
       /\ page.file = None /\ page.preview = None /\ ~page.uploading /\ ~page.submitting
       /\ c.kind = "load" /\ c.stage = "done" => c.file = server.picture
       /\ c.kind = "look" => c.file = page.picture /\ c.file = server.picture
  /\ page.loading => Asked # {}
  /\ page.edits /\ ~page.owner => ~page.left /\ (page.loading \/ Busy = {})

\* One save, attachment or removal at a time; a new form has made its course
\* only once that is answered by the server.
FormSaves ==
  /\ \A c \in Saving : calls[c] = 1 /\ page.submitting /\ ~page.left /\ \A d \in Saving : c = d
  /\ page.left \/ (page.submitting => Saving # {})
  /\ page.left \/ (page.uploading => Sending \union Attaching # {})
  /\ "lost" \in seen \/ /\ server.posts <= 1
                        /\ page.edits \/ page.left \/ server.posts = 0
                             \/ \E c \in Saving : c.kind = "attach" \/ (c.kind = "save" /\ c.stage = "done")

\* One upload or deletion at a time, and none while a save attaches its picture.
FormSends ==
  Calm /\ ~page.left =>
    /\ \A c \in Sending : calls[c] = 1 /\ page.uploading /\ Attaching = {} /\ \A d \in Sending : c = d
    /\ Attaching # {} => page.uploading

Sent(c) == c.kind = "head" \/ (c.kind \in {"upload", "delete"} /\ c.stage = "done")

\* What is read, uploaded and looked at is the chosen file, dropped or not.
FormPictures ==
  Calm /\ page.edits /\ page.owner /\ ~page.left /\ Attaching = {} =>
    /\ \A c \in Chosen :
         /\ c.file # None
         /\ page.file = c.file \/ (page.file = None /\ page.picture = c.file)
    /\ \A c \in Sending : c.kind = "delete" => c.file = None /\ page.file = None /\ Chosen = {}
    /\ \A c \in Busy : Sent(c) => server.picture = c.file
    /\ server.picture = page.picture \/ \E c \in Busy : Sent(c)
    /\ \/ \E c \in Busy : c.kind = "reader"
       \/ page.file # None /\ page.preview = page.file
       \/ page.file = None /\ page.preview \in {None, page.picture}

\* A save carries what the page shows, and is what the server has once done.
FormLeaves ==
  seen = {} =>
    /\ \A c \in Saving : c.kind # "remove" =>
         /\ c.text = page.text /\ page.file \in {None, c.file}
         /\ c.kind = "attach" \/ c.stage = "done" => server.text = c.text
         /\ c.kind = "attach" => page.uploading /\ Sending = {} /\ (c.stage = "done" => server.picture = c.file)
    /\ page.left => Sending = {} /\ server.text = page.text /\ (page.file # None => server.picture = page.file)

FormInv == FormTyped /\ FormLoads /\ FormSaves /\ FormSends /\ FormPictures /\ FormLeaves

LEMMA FormInit == Form!Init => FormInv
<1> SUFFICES ASSUME Form!Init PROVE FormInv
  OBVIOUS
<1> DEFINE load == Form!Request("load", 0, None)
<1>1. PICK edits \in BOOLEAN, picture \in Form!Pictures :
        /\ edits \/ picture = None
        /\ page = [edits |-> edits, loading |-> edits, owner |-> FALSE, text |-> 0, file |-> None, left |-> FALSE,
                   preview |-> None, picture |-> None, uploading |-> FALSE, submitting |-> FALSE]
        /\ server = [posts |-> IF edits THEN 1 ELSE 0, text |-> 0, picture |-> picture, trouble |-> 0]
        /\ calls = IF edits THEN Only(load) ELSE EmptyBag
        /\ seen = {}
  BY FormCalls DEF Form!Init, Form!EmptyBag, EmptyBag, Form!SetToBag, SetToBag
<1>2. None \in Form!Pictures /\ 0 \in 0..MaxEdits
  BY PagesAssumption DEF Form!Pictures
<1>3. load \in FormRequests /\ load.kind = "load" /\ load.stage = "sent"
  BY <1>2 DEF Form!Request, FormRequests
<1> HIDE DEF load
<1>4. IsABag(calls) /\ Busy = IF edits THEN {load} ELSE {}
  BY <1>1 DEF Only, SetToBag, IsABag, Busy, BagToSet, EmptyBag
<1>5. edits => calls[load] = 1
  BY <1>1 DEF Only, SetToBag
<1>6. page \in FormStates /\ server \in FormServer
  BY <1>1, <1>2 DEF FormStates, FormServer
<1>7. FormTyped
  BY <1>1, <1>3, <1>4, <1>6 DEF FormTyped
<1>8. FormLoads /\ FormSaves /\ FormSends /\ FormPictures /\ FormLeaves
  BY <1>1, <1>3, <1>4, <1>5 DEF FormLoads, FormSaves, FormSends, FormPictures, FormLeaves,
     Asked, Chosen, Sending, Saving, Attaching, Calm
<1>9. QED
  BY <1>7, <1>8 DEF FormInv

LEMMA FormImplies ==
  ASSUME FormInv
  PROVE  Form!TypeOK /\ Form!BusyHasRequest /\ Form!PictureIsTrue /\ Form!LeftWhenSaved /\ Form!OneCourse
<1> USE DEF FormInv
<1>1. Form!TypeOK
  BY DEF FormTyped, FormStates, FormServer, Form!TypeOK
<1>2. Form!BusyHasRequest
  BY FormCalls DEF FormLoads, FormSaves, Asked, Sending, Saving, Attaching, Form!BusyHasRequest, Form!Of
<1>3. Form!PictureIsTrue
  BY FormCalls DEF FormLoads, FormPictures, Calm, Attaching, Form!PictureIsTrue, Form!Open
<1>4. Form!LeftWhenSaved
  BY DEF FormLeaves, Form!LeftWhenSaved
<1>5. Form!OneCourse
  BY DEF FormSaves, FormTyped, FormServer, Form!OneCourse
<1>6. QED
  BY <1>1, <1>2, <1>3, <1>4, <1>5

\* A click finds the form open: no load is under way.
LEMMA FormOpen ==
  ASSUME FormInv, Form!Open
  PROVE  /\ ~page.left /\ ~page.loading /\ Asked = {} /\ (page.edits => page.owner)
         /\ ~page.submitting => Saving = {}
         /\ Calm /\ ~page.uploading => Sending = {} /\ Attaching = {}
         /\ page.submitting => Saving # {}
<1>1. ~page.left /\ ~page.loading /\ Asked = {} /\ (page.edits => page.owner)
  BY DEF FormInv, FormLoads, Form!Open
<1>2. ~page.submitting => Saving = {}
  BY DEF FormInv, FormSaves
<1>3. Calm /\ ~page.uploading => Sending = {} /\ Attaching = {}
  BY <1>1 DEF FormInv, FormSends
<1>4. QED
  BY <1>1, <1>2, <1>3 DEF FormInv, FormSaves

LEMMA FormEdited == FormInv /\ Form!Edit => FormInv'
<1> SUFFICES ASSUME FormInv, Form!Edit PROVE FormInv'
  OBVIOUS
<1> USE DEF FormInv
<1>1. /\ Form!Open /\ page.text < MaxEdits
      /\ page' = [page EXCEPT !.text = @ + 1]
      /\ seen' = seen \union (IF page.submitting THEN {"edited"} ELSE {})
      /\ UNCHANGED <<server, calls>>
  BY DEF Form!Edit, Form!Saw, Form!If
<1>2. page' \in FormStates /\ \A k \in DOMAIN page \ {"text"} : page'[k] = page[k]
  BY <1>1, PagesAssumption DEF FormTyped, FormStates
<1>3. QED
  BY <1>1, <1>2, FormOpen DEF FormTyped, FormLoads, FormSaves, FormSends, FormPictures, FormLeaves,
    Calm, Sent, Asked, Chosen, Sending, Saving, Attaching, Busy, FormStates

\* A request sent by a click.
LEMMA FormSent ==
  ASSUME FormInv, NEW c, Form!Send(c)
  PROVE  /\ IsABag(calls)' /\ Busy' = Busy \union {c}
         /\ \A d \in Busy \ {c} : calls'[d] = calls[d]
         /\ c \notin Busy => calls'[c] = 1
BY FormCalls, AddedCall DEF FormInv, FormTyped

LEMMA FormClicked == FormInv /\ Form!Clicks => FormInv'
<1> SUFFICES ASSUME FormInv, Form!Clicks PROVE FormInv'
  OBVIOUS
<1> USE DEF FormInv, Form!CanSubmit, Form!CanChoose, Form!CanClear, Form!CanUpload, Form!CanDelete
<1> DEFINE hurried == (IF \E c \in Busy : c.kind \in {"reader", "head"} THEN {"overtaken"} ELSE {})
                        \union (IF page.submitting THEN {"edited"} ELSE {})
<1>h. Form!Hurried = hurried
  BY FormOf DEF Form!Hurried, Form!If, Of
<1>0. None \in Form!Pictures /\ Files \subseteq Form!Pictures /\ 0 \in 0..MaxEdits
  BY PagesAssumption DEF Form!Pictures
<1>1. ASSUME NEW f \in Files, Form!ChooseFile(f) PROVE FormInv'
  <2> DEFINE c == Form!Request("reader", 0, f)
  <2>1. /\ Form!Open /\ ~page.uploading /\ Form!Send(c)
        /\ page' = [page EXCEPT !.file = f]
        /\ seen' = seen \union hurried
        /\ UNCHANGED server
    BY <1>1, <1>h DEF Form!ChooseFile, Form!Saw
  <2>2. c \in FormRequests /\ c.kind = "reader" /\ c.file = f /\ f # None
    BY <1>0, PagesAssumption DEF Form!Request, FormRequests
  <2> HIDE DEF c
  <2>3. page' \in FormStates /\ page'.file = f /\ \A k \in DOMAIN page \ {"file"} : page'[k] = page[k]
    BY <1>0, <2>1 DEF FormTyped, FormStates
  <2>4. QED
    BY <2>1, <2>2, <2>3, FormSent, FormOpen DEF FormTyped, FormLoads, FormSaves, FormSends, FormPictures, FormLeaves,
      Calm, Sent, Asked, Chosen, Sending, Saving, Attaching, FormStates
<1>2. ASSUME Form!ClearFile PROVE FormInv'
  <2>1. /\ Form!Open /\ ~page.uploading
        /\ page' = [page EXCEPT !.file = None, !.preview = page.picture]
        /\ seen' = seen \union hurried
        /\ UNCHANGED <<server, calls>>
    BY <1>2, <1>h DEF Form!ClearFile, Form!Saw
  <2>2. page' \in FormStates /\ page'.file = None /\ page'.preview = page.picture
        /\ \A k \in DOMAIN page \ {"file", "preview"} : page'[k] = page[k]
    BY <1>0, <2>1 DEF FormTyped, FormStates
  <2>3. QED
    BY <2>1, <2>2, FormOpen DEF FormTyped, FormLoads, FormSaves, FormSends, FormPictures, FormLeaves,
      Calm, Sent, Asked, Chosen, Sending, Saving, Attaching, Busy, FormStates
<1>3. ASSUME Form!Upload PROVE FormInv'
  <2> DEFINE c == Form!Request("upload", 0, page.file)
  <2>1. /\ Form!Open /\ ~page.uploading /\ page.file # None /\ page.edits /\ Form!Send(c)
        /\ page' = [page EXCEPT !.uploading = TRUE]
        /\ UNCHANGED <<server, seen>>
    BY <1>3 DEF Form!Upload
  <2>2. c \in FormRequests /\ c.kind = "upload" /\ c.file = page.file /\ c.stage = "sent"
    BY <1>0 DEF Form!Request, FormRequests, FormTyped, FormStates
  <2> HIDE DEF c
  <2>3. page' \in FormStates /\ page'.uploading /\ \A k \in DOMAIN page \ {"uploading"} : page'[k] = page[k]
    BY <2>1 DEF FormTyped, FormStates
  <2>4. QED
    BY <2>1, <2>2, <2>3, FormSent, FormOpen DEF FormTyped, FormLoads, FormSaves, FormSends, FormPictures, FormLeaves,
      Calm, Sent, Asked, Chosen, Sending, Saving, Attaching, FormStates
<1>4. ASSUME Form!DeletePicture PROVE FormInv'
  <2> DEFINE c == Form!Request("delete", 0, None)
  <2>1. /\ Form!Open /\ ~page.uploading /\ page.file = None /\ page.edits /\ Form!Send(c)
        /\ page' = [page EXCEPT !.uploading = TRUE]
        /\ seen' = seen \union hurried
        /\ UNCHANGED server
    BY <1>4, <1>h DEF Form!DeletePicture, Form!Saw
  <2>2. c \in FormRequests /\ c.kind = "delete" /\ c.file = None /\ c.stage = "sent"
    BY <1>0 DEF Form!Request, FormRequests
  <2> HIDE DEF c
  <2>3. page' \in FormStates /\ page'.uploading /\ \A k \in DOMAIN page \ {"uploading"} : page'[k] = page[k]
    BY <2>1 DEF FormTyped, FormStates
  <2>4. QED
    BY <2>1, <2>2, <2>3, FormSent, FormOpen DEF FormTyped, FormLoads, FormSaves, FormSends, FormPictures, FormLeaves,
      Calm, Sent, Asked, Chosen, Sending, Saving, Attaching, FormStates
<1>5. ASSUME Form!Submit PROVE FormInv'
  <2> DEFINE c == Form!Request("save", page.text, page.file)
  <2>1. /\ Form!Open /\ ~page.uploading /\ ~page.submitting /\ Form!Send(c)
        /\ page' = [page EXCEPT !.submitting = TRUE]
        /\ seen' = seen \union (IF \E d \in Busy : d.kind = "head" THEN {"overtaken"} ELSE {})
        /\ UNCHANGED server
    BY <1>5, FormOf DEF Form!Submit, Form!Saw, Form!If, Of
  <2>2. c \in FormRequests /\ c.kind = "save" /\ c.file = page.file /\ c.text = page.text /\ c.stage = "sent"
    BY <1>0 DEF Form!Request, FormRequests, FormTyped, FormStates
  <2> HIDE DEF c
  <2>3. page' \in FormStates /\ page'.submitting /\ \A k \in DOMAIN page \ {"submitting"} : page'[k] = page[k]
    BY <2>1 DEF FormTyped, FormStates
  <2>4. QED
    BY <2>1, <2>2, <2>3, FormSent, FormOpen DEF FormTyped, FormLoads, FormSaves, FormSends, FormPictures, FormLeaves,
      Calm, Sent, Asked, Chosen, Sending, Saving, Attaching, FormStates
<1>6. ASSUME Form!Delete PROVE FormInv'
  <2> DEFINE c == Form!Request("remove", page.text, None)
  <2>1. /\ Form!Open /\ ~page.uploading /\ ~page.submitting /\ page.edits /\ Form!Send(c)
        /\ page' = [page EXCEPT !.submitting = TRUE]
        /\ UNCHANGED <<server, seen>>
    BY <1>6 DEF Form!Delete
  <2>2. c \in FormRequests /\ c.kind = "remove"
    BY <1>0 DEF Form!Request, FormRequests, FormTyped, FormStates
  <2> HIDE DEF c
  <2>3. page' \in FormStates /\ page'.submitting /\ \A k \in DOMAIN page \ {"submitting"} : page'[k] = page[k]
    BY <2>1 DEF FormTyped, FormStates
  <2>4. QED
    BY <2>1, <2>2, <2>3, FormSent, FormOpen DEF FormTyped, FormLoads, FormSaves, FormSends, FormPictures, FormLeaves,
      Calm, Sent, Asked, Chosen, Sending, Saving, Attaching, FormStates
<1>7. QED
  BY <1>1, <1>2, <1>3, <1>4, <1>5, <1>6, FormEdited DEF Form!Clicks

\* A request that ends, and one that becomes another.
LEMMA FormEnded ==
  ASSUME FormInv, NEW c \in Busy, Form!End(c)
  PROVE  /\ IsABag(calls)' /\ Busy' \subseteq Busy /\ Busy \ {c} \subseteq Busy'
         /\ calls[c] = 1 => c \notin Busy'
         /\ \A d \in Busy \ {c} : calls'[d] = calls[d]
BY FormCalls, EndedCall DEF FormInv, FormTyped

LEMMA FormTurned ==
  ASSUME FormInv, NEW c \in Busy, NEW d, c # d, Form!Turn(c, d)
  PROVE  /\ IsABag(calls)' /\ d \in Busy' /\ Busy' \subseteq Busy \union {d} /\ Busy \ {c} \subseteq Busy'
         /\ calls[c] = 1 => c \notin Busy'
         /\ \A e \in Busy \ {c, d} : calls'[e] = calls[e]
         /\ d \notin Busy => calls'[d] = 1
BY FormCalls, TurnedCall DEF FormInv, FormTyped

LEMMA FormTrouble ==
  ASSUME FormInv, NEW happens \in BOOLEAN, Form!Trouble(happens)
  PROVE  server' \in FormServer /\ \A k \in DOMAIN server \ {"trouble"} : server'[k] = server[k]
BY DEF FormInv, FormTyped, FormServer, Form!Trouble

LEMMA FormTypes ==
  ASSUME FormInv, NEW c \in Busy
  PROVE  /\ None \in Form!Pictures /\ c \in FormRequests /\ c.file \in Form!Pictures /\ c.text \in 0..MaxEdits
         /\ page.picture \in Form!Pictures /\ page.preview \in Form!Pictures
BY DEF Form!Pictures, FormInv, FormTyped, FormRequests, FormStates

\* Loading.
LEMMA FormLoadFails == ASSUME FormInv, ~page.left, NEW c \in Busy, Form!LoadFails(c) PROVE FormInv'
<1> USE DEF FormInv
<1>1. /\ c.kind = "load" /\ Form!Trouble(TRUE) /\ Form!End(c)
      /\ page' = [page EXCEPT !.loading = FALSE]
      /\ UNCHANGED seen
  BY DEF Form!LoadFails, Form!Saw, Form!If
<1>2. page' \in FormStates /\ ~page'.loading
      /\ \A k \in DOMAIN page \ {"loading"} : page'[k] = page[k]
  BY FormTypes, <1>1 DEF FormTyped, FormStates
<1>3. server' \in FormServer /\ \A k \in DOMAIN server \ {"trouble"} : server'[k] = server[k]
  BY <1>1, FormTrouble
<1>4. QED
  BY FormTypes, <1>1, <1>2, <1>3, FormEnded DEF FormTyped, FormLoads, FormSaves, FormSends, FormPictures, FormLeaves,
     Calm, Sent, Asked, Chosen, Sending, Saving, Attaching, FormStates, FormServer

LEMMA FormLoaded == ASSUME FormInv, ~page.left, NEW c \in Busy, Form!Loaded(c) PROVE FormInv'
<1> USE DEF FormInv
<1> DEFINE d == Form!Become(c, "look")
<1>1. /\ c.kind = "load" /\ c.stage = "done"
      /\ page' = [page EXCEPT !.picture = c.file, !.owner = @ \/ c.file = None, !.text = IF c.file = None THEN c.text ELSE @,
                          !.loading = c.file # None]
      /\ IF c.file = None THEN Form!End(c) ELSE Form!Turn(c, d)
      /\ UNCHANGED <<server, seen>>
  BY DEF Form!Loaded, Form!Saw, Form!If
<1>2. page' \in FormStates /\ page'.picture = c.file /\ page'.owner = (page.owner \/ c.file = None) /\ page'.loading = (c.file # None)
      /\ \A k \in DOMAIN page \ {"picture", "owner", "text", "loading"} : page'[k] = page[k]
  BY FormTypes, <1>1 DEF FormTyped, FormStates
<1>3. d \in FormRequests /\ d.kind = "look" /\ d.file = c.file /\ d.text = c.text /\ d.stage = "sent" /\ d # c
  BY FormTypes, <1>1 DEF Form!Become, Form!Request, FormRequests
<1> HIDE DEF d
<1>4. QED
  BY FormTypes, <1>1, <1>2, <1>3, FormEnded, FormTurned
     DEF FormTyped, FormLoads, FormSaves, FormSends, FormPictures, FormLeaves,
     Calm, Sent, Asked, Chosen, Sending, Saving, Attaching, FormStates

LEMMA FormLooked == ASSUME FormInv, ~page.left, NEW c \in Busy, Form!Looked(c) PROVE FormInv'
<1> USE DEF FormInv
<1>1. /\ c.kind = "look" /\ Form!End(c)
      /\ page' = [page EXCEPT !.preview = None, !.owner = TRUE, !.text = c.text, !.loading = FALSE]
      /\ UNCHANGED <<server, seen>>
  BY DEF Form!Looked
<1>2. page' \in FormStates /\ page'.owner /\ ~page'.loading /\ page'.text = c.text /\ page'.preview = None
      /\ \A k \in DOMAIN page \ {"preview", "owner", "text", "loading"} : page'[k] = page[k]
  BY FormTypes, <1>1 DEF FormTyped, FormStates
<1>3. QED
  BY FormTypes, <1>1, <1>2, FormEnded DEF FormTyped, FormLoads, FormSaves, FormSends, FormPictures, FormLeaves,
     Calm, Sent, Asked, Chosen, Sending, Saving, Attaching, FormStates, FormServer

\* The picture.
LEMMA FormFileRead == ASSUME FormInv, ~page.left, NEW c \in Busy, Form!FileRead(c) PROVE FormInv'
<1> USE DEF FormInv
<1>1. /\ c.kind = "reader" /\ Form!End(c)
      /\ page' = [page EXCEPT !.preview = c.file]
      /\ UNCHANGED <<server, seen>>
  BY DEF Form!FileRead, Form!Saw, Form!If
<1>2. page' \in FormStates /\ page'.preview = c.file
      /\ \A k \in DOMAIN page \ {"preview"} : page'[k] = page[k]
  BY FormTypes, <1>1 DEF FormTyped, FormStates
<1>3. QED
  BY FormTypes, <1>1, <1>2, FormEnded DEF FormTyped, FormLoads, FormSaves, FormSends, FormPictures, FormLeaves,
     Calm, Sent, Asked, Chosen, Sending, Saving, Attaching, FormStates

LEMMA FormUploaded == ASSUME FormInv, ~page.left, NEW c \in Busy, Form!Uploaded(c) PROVE FormInv'
<1> USE DEF FormInv
<1> DEFINE d == Form!Become(c, "head")
<1>1. /\ c.kind = "upload" /\ c.stage = "done" /\ Form!Turn(c, d)
      /\ page' = [page EXCEPT !.uploading = FALSE]
      /\ UNCHANGED <<server, seen>>
  BY DEF Form!Uploaded, Form!Saw, Form!If
<1>2. page' \in FormStates /\ ~page'.uploading
      /\ \A k \in DOMAIN page \ {"uploading"} : page'[k] = page[k]
  BY FormTypes, <1>1 DEF FormTyped, FormStates
<1>3. d \in FormRequests /\ d.kind = "head" /\ d.file = c.file /\ d.text = c.text /\ d.stage = "sent" /\ d # c
  BY FormTypes, <1>1 DEF Form!Become, Form!Request, FormRequests
<1> HIDE DEF d
<1>4. QED
  BY FormTypes, <1>1, <1>2, <1>3, FormTurned DEF FormTyped, FormLoads, FormSaves, FormSends, FormPictures, FormLeaves,
     Calm, Sent, Asked, Chosen, Sending, Saving, Attaching, FormStates

LEMMA FormHeadAnswered == ASSUME FormInv, ~page.left, NEW c \in Busy, Form!HeadAnswered(c) PROVE FormInv'
<1> USE DEF FormInv
<1>1. /\ c.kind = "head" /\ Form!End(c)
      /\ page' = [page EXCEPT !.picture = c.file, !.file = None]
      /\ UNCHANGED <<server, seen>>
  BY DEF Form!HeadAnswered
<1>2. page' \in FormStates /\ page'.picture = c.file /\ page'.file = None
      /\ \A k \in DOMAIN page \ {"picture", "file"} : page'[k] = page[k]
  BY FormTypes, <1>1 DEF FormTyped, FormStates
<1>3. QED
  BY FormTypes, <1>1, <1>2, FormEnded DEF FormTyped, FormLoads, FormSaves, FormSends, FormPictures, FormLeaves,
     Calm, Sent, Asked, Chosen, Sending, Saving, Attaching, FormStates, FormServer

LEMMA FormPictureDeleted == ASSUME FormInv, ~page.left, NEW c \in Busy, Form!PictureDeleted(c) PROVE FormInv'
<1> USE DEF FormInv
<1>1. /\ c.kind = "delete" /\ c.stage = "done" /\ Form!End(c)
      /\ page' = [page EXCEPT !.preview = None, !.file = None, !.picture = None, !.uploading = FALSE]
      /\ UNCHANGED <<server, seen>>
  BY DEF Form!PictureDeleted, Form!Saw, Form!If
<1>2. page' \in FormStates /\ page'.preview = None /\ page'.file = None /\ page'.picture = None /\ ~page'.uploading
      /\ \A k \in DOMAIN page \ {"preview", "file", "picture", "uploading"} : page'[k] = page[k]
  BY FormTypes, <1>1 DEF FormTyped, FormStates
<1>3. QED
  BY FormTypes, <1>1, <1>2, FormEnded DEF FormTyped, FormLoads, FormSaves, FormSends, FormPictures, FormLeaves,
     Calm, Sent, Asked, Chosen, Sending, Saving, Attaching, FormStates

LEMMA FormPictureFails == ASSUME FormInv, ~page.left, NEW c \in Busy, Form!PictureFails(c) PROVE FormInv'
<1> USE DEF FormInv
<1>1. /\ c.kind \in {"upload", "delete"} /\ Form!Trouble(~Form!Gone) /\ Form!End(c)
      /\ page' = [page EXCEPT !.uploading = FALSE]
      /\ seen' = seen \union (IF c.stage = "done" THEN {"lost"} ELSE {})
  BY DEF Form!PictureFails, Form!Saw, Form!If
<1>2. page' \in FormStates /\ ~page'.uploading
      /\ \A k \in DOMAIN page \ {"uploading"} : page'[k] = page[k]
  BY FormTypes, <1>1 DEF FormTyped, FormStates
<1>3. server' \in FormServer /\ \A k \in DOMAIN server \ {"trouble"} : server'[k] = server[k]
  BY <1>1, FormTrouble
<1>4. QED
  BY FormTypes, <1>1, <1>2, <1>3, FormEnded DEF FormTyped, FormLoads, FormSaves, FormSends, FormPictures, FormLeaves,
     Calm, Sent, Asked, Chosen, Sending, Saving, Attaching, FormStates, FormServer

\* Saving.
LEMMA FormSaved == ASSUME FormInv, ~page.left, NEW c \in Busy, Form!Saved(c) PROVE FormInv'
<1> USE DEF FormInv
<1> DEFINE d == Form!Become(c, "attach")
<1>1. /\ c.kind = "save" /\ c.stage = "done"
      /\ IF c.file # None THEN Form!Turn(c, d) /\ page' = [page EXCEPT !.uploading = TRUE]
         ELSE Form!End(c) /\ page' = [page EXCEPT !.left = TRUE, !.submitting = FALSE]
      /\ seen' = seen \union (IF page.uploading \/ \E e \in Busy : e.kind = "upload" THEN {"overtaken"} ELSE {})
      /\ UNCHANGED server
  BY FormOf DEF Form!Saved, Form!Saw, Form!If, Of
<1>2. page' \in FormStates /\ page'.left = (c.file = None) /\ page'.uploading = (page.uploading \/ c.file # None)
      /\ page'.submitting = (page.submitting /\ c.file # None)
      /\ \A k \in DOMAIN page \ {"left", "uploading", "submitting"} : page'[k] = page[k]
  BY FormTypes, <1>1 DEF FormTyped, FormStates
<1>3. d \in FormRequests /\ d.kind = "attach" /\ d.file = c.file /\ d.text = c.text /\ d.stage = "sent" /\ d # c
  BY FormTypes, <1>1 DEF Form!Become, Form!Request, FormRequests
<1> HIDE DEF d
<1>4. QED
  BY FormTypes, <1>1, <1>2, <1>3, FormEnded, FormTurned
     DEF FormTyped, FormLoads, FormSaves, FormSends, FormPictures, FormLeaves,
     Calm, Sent, Asked, Chosen, Sending, Saving, Attaching, FormStates

LEMMA FormSaveFails == ASSUME FormInv, ~page.left, NEW c \in Busy, Form!SaveFails(c) PROVE FormInv'
<1> USE DEF FormInv
<1>1. /\ c.kind \in {"save", "remove"} /\ Form!Trouble(~Form!Gone \/ c.stage = "done") /\ Form!End(c)
      /\ page' = [page EXCEPT !.submitting = FALSE]
      /\ seen' = seen \union (IF c.stage = "done" THEN {"lost"} ELSE {})
  BY DEF Form!SaveFails, Form!Saw, Form!If
<1>2. page' \in FormStates /\ ~page'.submitting
      /\ \A k \in DOMAIN page \ {"submitting"} : page'[k] = page[k]
  BY FormTypes, <1>1 DEF FormTyped, FormStates
<1>3. server' \in FormServer /\ \A k \in DOMAIN server \ {"trouble"} : server'[k] = server[k]
  BY <1>1, FormTrouble
<1>4. QED
  BY FormTypes, <1>1, <1>2, <1>3, FormEnded DEF FormTyped, FormLoads, FormSaves, FormSends, FormPictures, FormLeaves,
     Calm, Sent, Asked, Chosen, Sending, Saving, Attaching, FormStates, FormServer

LEMMA FormAttached == ASSUME FormInv, ~page.left, NEW c \in Busy, Form!Attached(c) PROVE FormInv'
<1> USE DEF FormInv
<1>1. PICK fails \in BOOLEAN :
        /\ c.kind = "attach" /\ (fails \/ c.stage = "done") /\ Form!Trouble(fails /\ ~Form!Gone) /\ Form!End(c)
        /\ page' = [page EXCEPT !.uploading = FALSE, !.submitting = FALSE, !.left = TRUE]
        /\ seen' = seen \union (IF fails THEN {"failed"} ELSE {})
  BY DEF Form!Attached, Form!Saw, Form!If
<1>2. page' \in FormStates /\ page'.left /\ ~page'.uploading /\ ~page'.submitting
      /\ \A k \in DOMAIN page \ {"left", "uploading", "submitting"} : page'[k] = page[k]
  BY FormTypes, <1>1 DEF FormTyped, FormStates
<1>3. server' \in FormServer /\ \A k \in DOMAIN server \ {"trouble"} : server'[k] = server[k]
  BY <1>1, FormTrouble
<1>4. QED
  BY FormTypes, <1>1, <1>2, <1>3, FormEnded DEF FormTyped, FormLoads, FormSaves, FormSends, FormPictures, FormLeaves,
     Calm, Sent, Asked, Chosen, Sending, Saving, Attaching, FormStates, FormServer

LEMMA FormDeleted == ASSUME FormInv, ~page.left, NEW c \in Busy, Form!Deleted(c) PROVE FormInv'
<1> USE DEF FormInv
<1>1. /\ c.kind = "remove" /\ c.stage = "done" /\ Form!End(c)
      /\ page' = [page EXCEPT !.left = TRUE]
      /\ seen' = seen \union {"removed"}
      /\ UNCHANGED server
  BY DEF Form!Deleted, Form!Saw, Form!If
<1>2. page' \in FormStates /\ page'.left
      /\ \A k \in DOMAIN page \ {"left"} : page'[k] = page[k]
  BY FormTypes, <1>1 DEF FormTyped, FormStates
<1>3. QED
  BY FormTypes, <1>1, <1>2, FormEnded DEF FormTyped, FormLoads, FormSaves, FormSends, FormPictures, FormLeaves,
     Calm, Sent, Asked, Chosen, Sending, Saving, Attaching, FormStates

\* The server's side.
LEMMA FormServed == ASSUME FormInv, NEW c \in Busy, Form!Server(c) PROVE FormInv'
<1> USE DEF FormInv
<1>0. c.stage = "sent" /\ c.kind \notin {"head", "look", "reader"} /\ UNCHANGED <<page, seen>>
  BY DEF Form!Server
<1>1. ASSUME c.kind = "load", Form!Turn(c, [c EXCEPT !.stage = "done", !.text = server.text, !.file = server.picture]),
             UNCHANGED server
      PROVE  FormInv'
  <2> DEFINE d == [c EXCEPT !.stage = "done", !.text = server.text, !.file = server.picture]
  <2>1. d \in FormRequests /\ d.kind = "load" /\ d.file = server.picture /\ d # c /\ Form!Turn(c, d)
    BY <1>0, <1>1, FormTypes DEF FormRequests, FormTyped, FormServer
  <2> HIDE DEF d
  <2>2. QED
    BY <1>0, <1>1, <2>1, FormTurned DEF FormTyped, FormLoads, FormSaves, FormSends, FormPictures, FormLeaves,
      Calm, Sent, Asked, Chosen, Sending, Saving, Attaching
<1>2. ASSUME c.kind # "load", Form!Turn(c, [c EXCEPT !.stage = "done"]),
             server' = CASE c.kind = "save" -> [server EXCEPT !.text = c.text, !.posts = IF page.edits THEN @ ELSE @ + 1]
                         [] c.kind \in {"upload", "attach"} -> [server EXCEPT !.picture = c.file]
                         [] c.kind = "delete" -> [server EXCEPT !.picture = None]
                         [] c.kind = "remove" -> [server EXCEPT !.posts = 0]
      PROVE  FormInv'
  <2> DEFINE d == [c EXCEPT !.stage = "done"]
  <2>1. d \in FormRequests /\ d.kind = c.kind /\ d.file = c.file /\ d.text = c.text /\ d.stage = "done" /\ d # c /\ Form!Turn(c, d)
    BY <1>0, <1>2, FormTypes DEF FormRequests
  <2> HIDE DEF d
  <2>2. c.kind \in {"save", "upload", "attach", "delete", "remove"}
    BY <1>0, <1>2, FormTypes DEF FormRequests
  <2>3. /\ server' \in FormServer
        /\ server'.text = (IF c.kind = "save" THEN c.text ELSE server.text)
        /\ server'.picture = (IF c.kind \in {"upload", "attach"} THEN c.file ELSE IF c.kind = "delete" THEN None ELSE server.picture)
        /\ server'.posts = (IF c.kind = "remove" THEN 0 ELSE IF c.kind = "save" /\ ~page.edits THEN server.posts + 1
                            ELSE server.posts)
    <3>1. CASE c.kind = "save"
      <4>1. server' = [server EXCEPT !.text = c.text, !.posts = IF page.edits THEN server.posts ELSE server.posts + 1]
        BY <1>2, <3>1
      <4>2. server.posts \in Nat /\ page.edits \in BOOLEAN
        BY DEF FormTyped, FormServer, FormStates
      <4>3. (IF page.edits THEN server.posts ELSE server.posts + 1) \in Nat
        BY <4>2
      <4>4. QED
        BY <3>1, <4>1, <4>2, <4>3, FormTypes DEF FormTyped, FormServer
    <3>2. CASE c.kind \in {"upload", "attach"}
      BY <1>2, <3>2, FormTypes DEF FormTyped, FormServer
    <3>3. CASE c.kind = "delete"
      BY <1>2, <3>3, FormTypes DEF FormTyped, FormServer
    <3>4. CASE c.kind = "remove"
      BY <1>2, <3>4, FormTypes DEF FormTyped, FormServer
    <3>5. QED
      BY <2>2, <3>1, <3>2, <3>3, <3>4
  <2>4. FormTyped' /\ FormLoads'
    BY <1>0, <1>2, <2>1, <2>2, <2>3, FormTurned DEF FormTyped, FormLoads, Asked
  <2>5. FormSaves' /\ FormSends'
    BY <1>0, <1>2, <2>1, <2>2, <2>3, FormTurned DEF FormTyped, FormServer, FormSaves, FormSends,
      Calm, Sending, Saving, Attaching
  <2>6. FormPictures'
    BY <1>0, <1>2, <2>1, <2>2, <2>3, FormTurned DEF FormSends, FormPictures, Calm, Sent, Chosen, Sending, Attaching
  <2>7. FormLeaves'
    BY <1>0, <1>2, <2>1, <2>2, <2>3, FormTurned DEF FormLoads, FormSaves, FormSends, FormLeaves,
      Calm, Asked, Sending, Saving, Attaching
  <2>8. QED
    BY <2>4, <2>5, <2>6, <2>7
<1>3. QED
  BY <1>1, <1>2 DEF Form!Server

LEMMA FormStep == FormInv /\ Form!Next => FormInv'
<1> SUFFICES ASSUME FormInv, Form!Next PROVE FormInv'
  OBVIOUS
<1>1. CASE Form!Clicks
  BY <1>1, FormClicked
<1>2. ASSUME NEW c \in Busy, Form!Server(c) PROVE FormInv'
  BY <1>2, FormServed
<1>3. ASSUME NEW c \in Busy, ~page.left, Form!Takes(c) PROVE FormInv'
  BY <1>3, FormLoaded, FormLooked, FormLoadFails, FormFileRead, FormUploaded, FormHeadAnswered, FormPictureDeleted,
     FormPictureFails, FormSaved, FormSaveFails, FormAttached, FormDeleted DEF Form!Takes
<1>4. QED
  BY <1>1, <1>2, <1>3, FormCalls DEF Form!Next

(***************************************************************************)
(* The list of courses.                                                    *)
(***************************************************************************)

LEMMA CoursesCalls ==
  /\ Courses!Busy = Busy
  /\ \A c : Courses!Send(c) => Added(c)
  /\ \A c : Courses!End(c) <=> End(c)
  /\ \A c, d : Courses!Turn(c, d) <=> Turn(c, d)
  /\ \A c : Courses!Only(c) = Only(c)
BY DEF Courses!Busy, Courses!BagToSet, Busy, BagToSet, Courses!Send, Courses!End, Courses!Turn, Courses!Only,
       Courses!(+), Courses!(-), Courses!SetToBag, Added, End, Turn, Only, SetToBag, (+), (-)

CoursesTokens == UNION {[D -> Nat] : D \in SUBSET Nat}
CoursesStates == [filter : Filters, page : Courses!Pages, tokens : CoursesTokens,
                  list : [filter : Filters \union {None}, from : Nat], total : 0..MaxPage * Size,
                  loading : BOOLEAN, error : BOOLEAN, ranFilter : Filters, ranPage : Courses!Pages]
CoursesServer == [found : [Filters -> 0..MaxPage * Size], trouble : 0..MaxTrouble]
CoursesRequests == [kind : {"fetch"}, filter : Filters, page : Courses!Pages, tokens : CoursesTokens, last : BOOLEAN,
                    stage : {"token", "read"}, from : Nat, total : 0..MaxPage * Size, full : BOOLEAN]

CoursesTyped ==
  /\ IsABag(calls) /\ Busy \subseteq CoursesRequests
  /\ page \in CoursesStates /\ server \in CoursesServer
  /\ seen \subseteq {"overtaken", "tokenless", "unpaged"}
  /\ \A f \in Filters : server.found[f] <= 2 * Size + 1 + server.trouble
  /\ page.loading => Busy # {}

Offsets(tokens) == \A n \in DOMAIN tokens : tokens[n] = n * Size

\* Until a page without a token was asked for, tokens and lists are at the offset
\* of their page.
CoursesOffsets ==
  "tokenless" \notin seen =>
    /\ Offsets(page.tokens)
    /\ \A c \in Busy : Offsets(c.tokens) /\ (c.stage = "read" => c.last \/ c.from = (c.page - 1) * Size)

\* The list is the one that the effects asked for last, or is on its way.
CoursesAsked ==
  seen = {} => \/ page.error \/ page.list = [filter |-> page.ranFilter, from |-> (page.ranPage - 1) * Size]
               \/ \E c \in Busy : c.filter = page.ranFilter /\ c.page = page.ranPage

CoursesInv == CoursesTyped /\ CoursesOffsets /\ CoursesAsked

LEMMA Smallest ==
  ASSUME NEW S \in SUBSET Nat, S # {}
  PROVE  \E n \in S : \A m \in S : n <= m
<1>1. PICK n \in S : \A m \in S : ~(<<m, n>> \in OpToRel(<, Nat))
  BY NatLessThanWellFounded, WFMin
<1>2. \A m \in S : ~(m < n)
  BY <1>1 DEF OpToRel
<1>3. QED
  BY <1>2

\* The total that an answer brings fits the pages of the runs.
LEMMA PagesFit == ASSUME CoursesInv PROVE Courses!TotalPages \in 1..MaxPage
<1>1. Size \in Nat \ {0} /\ MaxPage \in Nat \ {0} /\ page.total \in Nat /\ page.total <= MaxPage * Size
  BY PagesAssumption DEF CoursesInv, CoursesTyped, CoursesStates
<1> DEFINE n == (page.total + Size - 1) \div Size
<1>2. n \in Nat /\ n * Size <= page.total + Size - 1
  BY <1>1
<1>3. n <= MaxPage
  BY <1>1, <1>2
<1> HIDE DEF n
<1>4. (IF n = 0 THEN 1 ELSE n) \in 1..MaxPage
  BY <1>1, <1>2, <1>3
<1>5. QED
  BY <1>4 DEF Courses!TotalPages, n

LEMMA NextOffset == \A n \in Nat : n # 0 => (n - 1) * Size + Size = n * Size /\ (n - 1) * Size \in Nat /\ n * Size \in Nat
BY PagesAssumption

LEMMA CoursesTypes ==
  ASSUME CoursesInv
  PROVE  /\ page.filter \in Filters /\ page.ranFilter \in Filters /\ page.page \in Courses!Pages /\ page.ranPage \in Courses!Pages
         /\ page.tokens \in CoursesTokens /\ page.loading \in BOOLEAN /\ page.error \in BOOLEAN
         /\ server.found \in [Filters -> 0..MaxPage * Size] /\ server.trouble \in 0..MaxTrouble
         /\ \A c \in Busy : /\ c \in CoursesRequests /\ c.filter \in Filters /\ c.page \in Courses!Pages /\ c.tokens \in CoursesTokens
                            /\ c.last \in BOOLEAN /\ c.from \in Nat /\ c.total \in 0..MaxPage * Size /\ c.full \in BOOLEAN
BY DEF CoursesInv, CoursesTyped, CoursesStates, CoursesServer, CoursesRequests

LEMMA CoursesPages == Courses!Pages \subseteq Nat \ {0} /\ 1 \in Courses!Pages
BY PagesAssumption DEF Courses!Pages

LEMMA CoursesInit == Courses!Init => CoursesInv
<1> SUFFICES ASSUME Courses!Init PROVE CoursesInv
  OBVIOUS
<1>1. PICK first \in Filters, f \in Filters, n \in Courses!Pages :
        /\ page = [filter |-> f, page |-> n, tokens |-> <<>>, list |-> Courses!NoList, total |-> 0,
                   loading |-> TRUE, error |-> FALSE, ranFilter |-> first, ranPage |-> 1]
        /\ calls = Only([kind |-> "fetch", filter |-> first, page |-> 1, tokens |-> <<>>,
                         last |-> FALSE, stage |-> "token", from |-> 0, total |-> 0, full |-> FALSE])
        /\ seen = (IF first # f /\ n > 1 THEN {"unpaged"} ELSE {})
  BY CoursesCalls DEF Courses!Init, Courses!If
<1>2. PICK found \in [Filters -> {Size, 2 * Size + 1}] : server = [found |-> found, trouble |-> 0]
  BY DEF Courses!Init
<1> DEFINE c == [kind |-> "fetch", filter |-> first, page |-> 1, tokens |-> <<>>,
                 last |-> FALSE, stage |-> "token", from |-> 0, total |-> 0, full |-> FALSE]
<1>3. IsABag(calls) /\ Busy = {c}
  BY <1>1 DEF Only, SetToBag, IsABag, Busy, BagToSet
<1>4. 0 \in 0..MaxPage * Size
  BY PagesAssumption
<1>5. <<>> \in CoursesTokens /\ DOMAIN <<>> = {}
  <2>1. <<>> \in [{} -> Nat] /\ DOMAIN <<>> = {}
    OBVIOUS
  <2>2. QED
    BY <2>1 DEF CoursesTokens
<1>6. page \in CoursesStates
  BY <1>1, <1>4, <1>5, CoursesPages DEF CoursesStates, Courses!NoList
<1>7. c \in CoursesRequests
  BY <1>4, <1>5, CoursesPages DEF CoursesRequests
<1>8. server \in CoursesServer /\ \A g \in Filters : server.found[g] <= 2 * Size + 1 + server.trouble
  <2>1. Size \in Nat /\ Size <= 2 * Size + 1 /\ 2 * Size + 1 <= MaxPage * Size /\ MaxPage * Size \in Nat
    BY PagesAssumption, PageAssumption
  <2>2. \A g \in Filters : found[g] \in 0..MaxPage * Size /\ found[g] <= 2 * Size + 1
    BY <2>1
  <2>3. QED
    BY <1>2, <2>1, <2>2, PageAssumption DEF CoursesServer
<1>9. CoursesTyped
  BY <1>1, <1>3, <1>6, <1>7, <1>8 DEF CoursesTyped
<1>10. CoursesOffsets /\ CoursesAsked
  BY <1>1, <1>3, <1>5 DEF CoursesOffsets, CoursesAsked, Offsets
<1>11. QED
  BY <1>9, <1>10 DEF CoursesInv

LEMMA CoursesImplies ==
  ASSUME CoursesInv
  PROVE  Courses!TypeOK /\ Courses!BusyHasRequest /\ Courses!ListIsTrue
<1> USE DEF CoursesInv
<1>1. Courses!TypeOK
  <2>1. page.total \in Nat /\ page.list.filter \in Filters \union {None}
    BY PagesAssumption DEF CoursesTyped, CoursesStates
  <2>2. DOMAIN page.tokens \subseteq Nat
    BY CoursesTypes DEF CoursesTokens
  <2>3. QED
    BY <2>1, <2>2, CoursesTypes DEF CoursesTyped, Courses!TypeOK
<1>2. Courses!BusyHasRequest
  BY CoursesCalls DEF CoursesTyped, Courses!BusyHasRequest
<1>3. Courses!ListIsTrue
  BY CoursesCalls DEF CoursesTyped, CoursesAsked, Courses!ListIsTrue, Courses!AtRest, Courses!Due
<1>4. QED
  BY <1>1, <1>2, <1>3

LEMMA CoursesTurned ==
  ASSUME CoursesInv, NEW c \in Busy, NEW d \in CoursesRequests, c # d, Courses!Turn(c, d), d.filter = c.filter, d.page = c.page,
         server' \in CoursesServer, server'.found = server.found, server'.trouble >= server.trouble, UNCHANGED <<page, seen>>,
         "tokenless" \notin seen => Offsets(d.tokens) /\ (d.stage = "read" => d.last \/ d.from = (d.page - 1) * Size)
  PROVE  CoursesInv'
<1>1. IsABag(calls)' /\ d \in Busy' /\ Busy' \subseteq Busy \union {d} /\ Busy \ {c} \subseteq Busy'
  BY CoursesCalls, TurnedCall DEF CoursesInv, CoursesTyped
<1>2. CoursesTyped'
  <2>1. server.trouble \in Nat /\ server'.trouble \in Nat /\ \A f \in Filters : server.found[f] \in Nat
    BY PageAssumption, PagesAssumption DEF CoursesServer, CoursesInv, CoursesTyped
  <2>2. \A f \in Filters : server'.found[f] <= 2 * Size + 1 + server'.trouble
    BY <2>1, PagesAssumption DEF CoursesInv, CoursesTyped
  <2>3. QED
    BY <1>1, <2>2 DEF CoursesInv, CoursesTyped
<1>3. CoursesOffsets'
  BY <1>1 DEF CoursesInv, CoursesOffsets, Offsets
<1>4. CoursesAsked'
  BY <1>1 DEF CoursesInv, CoursesAsked
<1>5. QED
  BY <1>2, <1>3, <1>4 DEF CoursesInv

LEMMA WithToken ==
  ASSUME NEW tokens \in CoursesTokens, NEW n \in Nat, NEW offset \in Nat
  PROVE  /\ Courses!With(tokens, n, offset) \in CoursesTokens
         /\ DOMAIN Courses!With(tokens, n, offset) = DOMAIN tokens \union {n}
         /\ Offsets(tokens) /\ offset = n * Size => Offsets(Courses!With(tokens, n, offset))
<1>1. PICK D \in SUBSET Nat : tokens \in [D -> Nat]
  BY DEF CoursesTokens
<1>2. Courses!With(tokens, n, offset) \in [D \union {n} -> Nat] /\ D \union {n} \in SUBSET Nat
  BY <1>1 DEF Courses!With
<1>3. QED
  BY <1>1, <1>2 DEF CoursesTokens, Offsets, Courses!With

\* The offset that follows page n.
LEMMA AfterToken ==
  ASSUME NEW tokens \in CoursesTokens, NEW n \in Nat
  PROVE  /\ Courses!After(tokens, n) \in Nat
         /\ Offsets(tokens) /\ (n = 0 \/ n \in DOMAIN tokens) => Courses!After(tokens, n) = n * Size
<1>1. PICK D \in SUBSET Nat : tokens \in [D -> Nat]
  BY DEF CoursesTokens
<1>2. 0 * Size = 0
  BY PagesAssumption
<1>3. QED
  BY <1>1, <1>2 DEF Courses!After, Offsets

LEMMA CoursesFetched == ASSUME CoursesInv, NEW c \in Busy, Courses!FetchesToken(c) PROVE CoursesInv'
<1>1. PICK n \in Courses!Missing(c), refused \in BOOLEAN :
        LET from == Courses!After(c.tokens, n - 1) IN
        /\ Courses!Trouble(refused)
        /\ IF Courses!Full(c.filter, from) /\ ~refused
           THEN Courses!Turn(c, [c EXCEPT !.tokens = Courses!With(@, n, from + Size)])
           ELSE Courses!Turn(c, [c EXCEPT !.last = TRUE])
  BY DEF Courses!FetchesToken
<1>2. c.stage = "token" /\ ~c.last /\ UNCHANGED <<page, seen>>
  BY DEF Courses!FetchesToken
<1>3. c \in CoursesRequests /\ c.tokens \in CoursesTokens /\ c.page \in Nat /\ c.page # 0
  BY CoursesTypes, CoursesPages
<1>4. server' \in CoursesServer /\ server'.found = server.found /\ server'.trouble >= server.trouble
  <2>1. Courses!Trouble(refused) /\ server \in CoursesServer
    BY <1>1 DEF CoursesInv, CoursesTyped
  <2>2. QED
    BY <2>1, PageAssumption DEF Courses!Trouble, CoursesServer
<1>5. n \in Nat /\ n # 0 /\ n - 1 \in Nat /\ n \notin DOMAIN c.tokens /\ (n - 1 = 0 \/ n - 1 \in DOMAIN c.tokens)
  BY <1>3 DEF Courses!Missing
<1>6. "tokenless" \notin seen => Offsets(c.tokens)
  BY DEF CoursesInv, CoursesOffsets
<1> DEFINE from == Courses!After(c.tokens, n - 1)
<1>7. from \in Nat /\ ("tokenless" \notin seen => from = (n - 1) * Size)
  BY <1>3, <1>5, <1>6, AfterToken
<1> HIDE DEF from
<1>8. CASE Courses!Full(c.filter, from) /\ ~refused
  <2> DEFINE tokens == Courses!With(c.tokens, n, from + Size)
             d == [c EXCEPT !.tokens = tokens]
  <2>1. Courses!Turn(c, d)
    BY <1>1, <1>8 DEF from
  <2>2. tokens \in CoursesTokens /\ DOMAIN tokens = DOMAIN c.tokens \union {n} /\ ("tokenless" \notin seen => Offsets(tokens))
    <3>1. from + Size \in Nat /\ ("tokenless" \notin seen => from + Size = n * Size)
      <4>1. Size \in Nat /\ (n - 1) * Size + Size = n * Size
        BY <1>5, NextOffset, PagesAssumption
      <4>2. QED
        BY <1>7, <4>1
    <3>2. QED
      BY <1>3, <1>5, <1>6, <3>1, WithToken
  <2> HIDE DEF tokens
  <2>3. d \in CoursesRequests /\ d.filter = c.filter /\ d.page = c.page /\ d.tokens = tokens /\ d.stage = "token"
    BY <1>2, <1>3, <2>2 DEF CoursesRequests
  <2> HIDE DEF d
  <2>4. c # d
    BY <1>5, <2>2, <2>3
  <2>5. QED
    BY <1>2, <1>4, <2>1, <2>2, <2>3, <2>4, CoursesTurned
<1>9. CASE ~(Courses!Full(c.filter, from) /\ ~refused)
  <2> DEFINE d == [c EXCEPT !.last = TRUE]
  <2>1. Courses!Turn(c, d)
    BY <1>1, <1>9 DEF from
  <2>2. /\ d \in CoursesRequests /\ d.filter = c.filter /\ d.page = c.page /\ d.tokens = c.tokens /\ d.stage = "token"
        /\ c # d
    BY <1>2, <1>3 DEF CoursesRequests
  <2> HIDE DEF d
  <2>3. QED
    BY <1>2, <1>6, <1>4, <2>1, <2>2, CoursesTurned
<1>10. QED
  BY <1>8, <1>9

LEMMA CoursesRead == ASSUME CoursesInv, NEW c \in Busy, Courses!ReadsList(c) PROVE CoursesInv'
<1> DEFINE from == Courses!After(c.tokens, c.page - 1)
           full == Courses!Full(c.filter, from)
           d == [c EXCEPT !.stage = "read", !.from = from, !.total = server.found[c.filter], !.full = full]
<1>1. c.stage = "token" /\ (c.last \/ Courses!Missing(c) = {}) /\ UNCHANGED <<page, server, seen>> /\ Courses!Turn(c, d)
  BY DEF Courses!ReadsList
<1>2. /\ c \in CoursesRequests /\ c.tokens \in CoursesTokens /\ c.page \in Nat /\ c.page # 0 /\ c.page - 1 \in Nat
      /\ server.found[c.filter] \in 0..MaxPage * Size
  <2>1. c \in CoursesRequests /\ c.tokens \in CoursesTokens /\ c.page \in Nat /\ c.page # 0 /\ c.filter \in Filters
    BY CoursesTypes, CoursesPages
  <2>2. server.found[c.filter] \in 0..MaxPage * Size
    BY <2>1, CoursesTypes
  <2>3. QED
    BY <2>1, <2>2
<1>3. "tokenless" \notin seen => Offsets(c.tokens)
  BY DEF CoursesInv, CoursesOffsets
<1>4. c.last \/ c.page - 1 = 0 \/ c.page - 1 \in DOMAIN c.tokens
  <2> SUFFICES ASSUME Courses!Missing(c) = {}, c.page - 1 # 0 PROVE c.page - 1 \in DOMAIN c.tokens
    BY <1>1
  <2> DEFINE missing == {n \in 1..(c.page - 1) : n \notin DOMAIN c.tokens}
  <2>1. missing # {} => \E n \in missing : \A m \in missing : n <= m
    <3>1. missing \in SUBSET Nat
      BY <1>2
    <3> HIDE DEF missing
    <3>2. QED
      BY <3>1, Smallest
  <2>2. ASSUME NEW n \in missing, \A m \in missing : n <= m PROVE n \in Courses!Missing(c)
    <3>1. 1..(n - 1) \subseteq DOMAIN c.tokens
      BY <1>2, <2>2
    <3>2. QED
      BY <3>1 DEF Courses!Missing
  <2>3. QED
    BY <1>2, <2>1, <2>2
<1>5. from \in Nat /\ ("tokenless" \notin seen => c.last \/ from = (c.page - 1) * Size)
  BY <1>2, <1>3, <1>4, AfterToken
<1>6. full \in BOOLEAN
  BY DEF Courses!Full
<1> HIDE DEF from, full
<1>7. /\ d \in CoursesRequests /\ d.filter = c.filter /\ d.page = c.page /\ d.tokens = c.tokens /\ d.last = c.last
      /\ d.stage = "read" /\ d.from = from
  BY <1>2, <1>5, <1>6 DEF CoursesRequests
<1>8. c # d
  BY <1>1, <1>7
<1> HIDE DEF d
<1>9. server' \in CoursesServer /\ server'.found = server.found /\ server'.trouble >= server.trouble
  BY <1>1, PageAssumption DEF CoursesInv, CoursesTyped, CoursesServer
<1>10. QED
  BY <1>1, <1>3, <1>5, <1>7, <1>8, <1>9, CoursesTurned

LEMMA CoursesEnded ==
  ASSUME CoursesInv, NEW c \in Busy, Courses!End(c)
  PROVE  IsABag(calls)' /\ Busy' \subseteq Busy /\ Busy \ {c} \subseteq Busy'
BY CoursesCalls, EndedCall DEF CoursesInv, CoursesTyped

\* The answer is taken over whatever is chosen by now.
LEMMA CoursesLoaded == ASSUME CoursesInv, ~Courses!Due, NEW c \in Busy, Courses!ListLoaded(c) PROVE CoursesInv'
<1> DEFINE list == [filter |-> c.filter, from |-> c.from]
           tokens == Courses!Kept(c, c.page, page.tokens)
<1>1. /\ c.stage = "read" /\ Courses!End(c) /\ UNCHANGED server
      /\ page' = [page EXCEPT !.list = list, !.total = c.total, !.loading = FALSE, !.tokens = tokens]
      /\ seen' = seen \union (IF ~Courses!Current(c) /\ ~\E d \in Busy : Courses!Current(d) THEN {"overtaken"} ELSE {})
                   \union (IF c.last THEN {"tokenless"} ELSE {})
  BY CoursesCalls DEF Courses!ListLoaded, Courses!Saw, Courses!If, CoursesInv, CoursesTyped, CoursesStates
<1>2. c.from \in Nat /\ c.filter \in Filters /\ c.page \in Nat /\ c.page # 0 /\ c.total \in 0..MaxPage * Size
      /\ c.tokens \in CoursesTokens /\ page.tokens \in CoursesTokens
  BY CoursesTypes, CoursesPages
<1>3. list \in [filter : Filters \union {None}, from : Nat]
  BY <1>2
<1>4. tokens \in CoursesTokens /\ ("tokenless" \notin seen' => Offsets(tokens))
  <2> DEFINE known == IF c.page > 1 THEN c.tokens ELSE page.tokens
  <2>1. known \in CoursesTokens /\ ("tokenless" \notin seen => Offsets(known))
    BY <1>2 DEF CoursesInv, CoursesOffsets
  <2>2. c.from + Size \in Nat
    BY <1>2, PagesAssumption
  <2>3. "tokenless" \notin seen' => "tokenless" \notin seen /\ c.from + Size = c.page * Size
    <3>1. (c.page - 1) * Size + Size = c.page * Size
      BY <1>2, NextOffset
    <3>2. "tokenless" \notin seen' => "tokenless" \notin seen /\ ~c.last
      BY <1>1
    <3>3. "tokenless" \notin seen' => c.from = (c.page - 1) * Size
      BY <1>1, <3>2 DEF CoursesInv, CoursesOffsets
    <3>4. QED
      BY <3>1, <3>2, <3>3
  <2>4. tokens = IF c.full THEN Courses!With(known, c.page, c.from + Size) ELSE known
    BY DEF Courses!Kept
  <2> HIDE DEF known, tokens
  <2>5. QED
    BY <1>2, <2>1, <2>2, <2>3, <2>4, WithToken
<1> HIDE DEF tokens, list
<1>5. page' \in CoursesStates /\ page'.list = list /\ page'.tokens = tokens /\ ~page'.loading
      /\ \A k \in DOMAIN page \ {"list", "total", "loading", "tokens"} : page'[k] = page[k]
  BY <1>1, <1>2, <1>3, <1>4 DEF CoursesInv, CoursesTyped, CoursesStates
<1>6. CoursesTyped'
  BY <1>1, <1>5, CoursesEnded DEF CoursesInv, CoursesTyped
<1>7. CoursesOffsets'
  BY <1>1, <1>4, <1>5, CoursesEnded DEF CoursesInv, CoursesOffsets, Offsets
<1>8. CoursesAsked'
  <2> SUFFICES ASSUME seen' = {} PROVE CoursesAsked'
    BY DEF CoursesAsked
  <2>1. page'.ranFilter = page.filter /\ page'.ranPage = page.page /\ page.ranFilter = page.filter /\ page.ranPage = page.page
    BY <1>5 DEF CoursesInv, CoursesTyped, CoursesStates, Courses!Due
  <2>2. seen = {} /\ ~c.last /\ (Courses!Current(c) \/ \E d \in Busy : Courses!Current(d))
    BY <1>1
  <2>3. CASE Courses!Current(c)
    <3>1. c.from = (c.page - 1) * Size
      BY <1>1, <2>2 DEF CoursesInv, CoursesOffsets
    <3>2. QED
      BY <1>5, <2>1, <2>3, <3>1 DEF CoursesAsked, Courses!Current, list
  <2>4. CASE ~Courses!Current(c)
    BY <1>1, <2>1, <2>2, <2>4, CoursesEnded DEF CoursesAsked, Courses!Current
  <2>5. QED
    BY <2>3, <2>4
<1>9. QED
  BY <1>6, <1>7, <1>8 DEF CoursesInv

LEMMA CoursesFailed == ASSUME CoursesInv, NEW c \in Busy, Courses!LoadFails(c) PROVE CoursesInv'
<1>1. /\ server.trouble < MaxTrouble /\ server' = [server EXCEPT !.trouble = @ + 1] /\ Courses!End(c)
      /\ page' = [page EXCEPT !.loading = FALSE, !.error = TRUE] /\ UNCHANGED seen
  BY DEF Courses!LoadFails, Courses!Trouble
<1>2. server' \in CoursesServer /\ server'.found = server.found /\ server'.trouble = server.trouble + 1
      /\ server.trouble \in Nat
  BY <1>1, PageAssumption DEF CoursesInv, CoursesTyped, CoursesServer
<1>3. page' \in CoursesStates /\ ~page'.loading /\ page'.error /\ \A k \in DOMAIN page \ {"loading", "error"} : page'[k] = page[k]
  BY <1>1 DEF CoursesInv, CoursesTyped, CoursesStates
<1>4. \A f \in Filters : server'.found[f] <= 2 * Size + 1 + server'.trouble
  <2>1. \A f \in Filters : server.found[f] <= 2 * Size + 1 + server.trouble /\ server.found[f] \in Nat
    BY CoursesTypes, PagesAssumption DEF CoursesInv, CoursesTyped
  <2>2. Size \in Nat
    BY PagesAssumption
  <2>3. QED
    BY <1>2, <2>1, <2>2
<1>5. CoursesTyped'
  BY <1>1, <1>2, <1>3, <1>4, CoursesEnded DEF CoursesInv, CoursesTyped
<1>6. CoursesOffsets' /\ CoursesAsked'
  BY <1>1, <1>3, CoursesEnded DEF CoursesInv, CoursesTyped, CoursesStates, CoursesOffsets, CoursesAsked, Offsets
<1>7. QED
  BY <1>5, <1>6 DEF CoursesInv

\* The pages that others' courses fill are those of the runs.
LEMMA CoursesOthers == ASSUME CoursesInv, Courses!OthersChange PROVE CoursesInv'
<1>1. PICK f \in Filters : \E n \in {server.found[f] - 1, server.found[f] + 1} \intersect Nat :
        server' = [server EXCEPT !.found[f] = n, !.trouble = @ + 1]
  BY DEF Courses!OthersChange
<1>n. PICK n \in {server.found[f] - 1, server.found[f] + 1} \intersect Nat :
        server' = [server EXCEPT !.found[f] = n, !.trouble = @ + 1]
  BY <1>1
<1>2. server.trouble < MaxTrouble /\ UNCHANGED <<page, calls, seen>>
  BY DEF Courses!OthersChange
<1>3. Size \in Nat /\ server.trouble \in Nat /\ MaxTrouble \in Nat /\ MaxPage * Size \in Nat /\ 2 * Size + 1 + MaxTrouble <= MaxPage * Size
  BY CoursesTypes, PagesAssumption, PageAssumption
<1>4. \A g \in Filters : server.found[g] \in Nat /\ server.found[g] <= 2 * Size + 1 + server.trouble
  BY <1>3, CoursesTypes DEF CoursesInv, CoursesTyped
<1> DEFINE found == [server.found EXCEPT ![f] = n]
<1>5. server' = [server EXCEPT !.found = found, !.trouble = @ + 1]
  BY <1>n
<1>6. n \in Nat /\ n <= 2 * Size + 1 + (server.trouble + 1)
  BY <1>3, <1>4
<1>7. \A g \in Filters : found[g] = IF g = f THEN n ELSE server.found[g]
  BY CoursesTypes
<1>8. DOMAIN found = Filters /\ found = [g \in Filters |-> found[g]]
  BY CoursesTypes
<1> HIDE DEF found
<1>9. \A g \in Filters : found[g] \in Nat /\ found[g] <= 2 * Size + 1 + (server.trouble + 1)
  BY <1>3, <1>4, <1>6, <1>7
<1>10. \A g \in Filters : found[g] \in 0..MaxPage * Size
  BY <1>2, <1>3, <1>9
<1>11. found \in [Filters -> 0..MaxPage * Size]
  BY <1>8, <1>10
<1>12. server' \in CoursesServer /\ server'.found = found /\ server'.trouble = server.trouble + 1
  <2>1. server.trouble + 1 \in 0..MaxTrouble
    BY <1>2, <1>3
  <2>2. QED
    BY <1>5, <1>11, <2>1 DEF CoursesInv, CoursesTyped, CoursesServer
<1>13. CoursesTyped'
  BY <1>2, <1>9, <1>12 DEF CoursesInv, CoursesTyped, Busy
<1>14. CoursesOffsets' /\ CoursesAsked'
  BY <1>2 DEF CoursesInv, CoursesOffsets, CoursesAsked, Offsets, Busy
<1>15. QED
  BY <1>13, <1>14 DEF CoursesInv

LEMMA CoursesFetch ==
  ASSUME CoursesInv, NEW n \in Courses!Pages
  PROVE  LET c == Courses!Fetch(n)
         IN  /\ c \in CoursesRequests /\ c.filter = page.filter /\ c.page = n /\ c.tokens = page.tokens /\ c.stage = "token"
<1>1. 0 \in 0..MaxPage * Size /\ page.filter \in Filters /\ page.tokens \in CoursesTokens
  BY PagesAssumption, CoursesTypes
<1>2. QED
  BY <1>1 DEF Courses!Fetch, CoursesRequests

\* The effects ask for the page and the filter that are chosen, unless both
\* changed and the page is not the first.
LEMMA CoursesRan == ASSUME CoursesInv, Courses!RunEffects PROVE CoursesInv'
<1> DEFINE first == Courses!Fetch(1)
           this == Courses!Fetch(page.page)
           one == IF page.filter # page.ranFilter THEN Only(first) ELSE EmptyBag
           two == IF page.page # page.ranPage THEN Only(this) ELSE EmptyBag
           tokens == IF page.filter # page.ranFilter \/ page.page = 1 THEN <<>> ELSE page.tokens
<1>1. /\ Courses!Due /\ UNCHANGED server
      /\ page' = [page EXCEPT !.loading = TRUE, !.error = FALSE, !.tokens = tokens, !.ranFilter = page.filter, !.ranPage = page.page]
      /\ seen' = seen \union (IF page.filter # page.ranFilter /\ page.page > 1 THEN {"unpaged"} ELSE {})
  BY DEF Courses!RunEffects, Courses!Started, Courses!Saw, Courses!If, CoursesInv, CoursesTyped, CoursesStates
<1>2. calls' = calls (+) one (+) two
  BY CoursesCalls DEF Courses!RunEffects, Courses!(+), (+), Courses!EmptyBag, EmptyBag, Courses!SetToBag, SetToBag
<1>3. /\ page.filter \in Filters /\ page.page \in Courses!Pages /\ page.page \in Nat /\ page.page # 0
      /\ page.tokens \in CoursesTokens /\ 1 \in Courses!Pages
  BY CoursesTypes, CoursesPages
<1>4. /\ first \in CoursesRequests /\ first.filter = page.filter /\ first.page = 1 /\ first.tokens = page.tokens /\ first.stage = "token"
      /\ this \in CoursesRequests /\ this.filter = page.filter /\ this.page = page.page /\ this.tokens = page.tokens
      /\ this.stage = "token"
  BY <1>3, CoursesFetch
<1> HIDE DEF first, this
<1>5. /\ IsABag(calls)'
      /\ Busy' = Busy \union (IF page.filter # page.ranFilter THEN {first} ELSE {})
                      \union (IF page.page # page.ranPage THEN {this} ELSE {})
  <2>1. IsABag(calls)
    BY DEF CoursesInv, CoursesTyped
  <2>2. \A c : IsABag(Only(c)) /\ DOMAIN Only(c) = {c}
    BY DEF Only, SetToBag, IsABag
  <2>3. IsABag(EmptyBag) /\ DOMAIN EmptyBag = {}
    BY DEF EmptyBag, SetToBag, IsABag
  <2>4. ASSUME NEW A, NEW B, IsABag(A), IsABag(B)
        PROVE  IsABag(A (+) B) /\ DOMAIN (A (+) B) = DOMAIN A \union DOMAIN B
    BY <2>4 DEF IsABag, (+)
  <2>5. /\ IsABag(one) /\ DOMAIN one = IF page.filter # page.ranFilter THEN {first} ELSE {}
        /\ IsABag(two) /\ DOMAIN two = IF page.page # page.ranPage THEN {this} ELSE {}
    BY <2>2, <2>3
  <2> HIDE DEF one, two
  <2>6. IsABag(calls (+) one) /\ DOMAIN (calls (+) one) = DOMAIN calls \union DOMAIN one
    BY <2>1, <2>4, <2>5
  <2>7. IsABag(calls') /\ DOMAIN calls' = DOMAIN calls \union DOMAIN one \union DOMAIN two
    BY <1>2, <2>4, <2>5, <2>6
  <2>8. QED
    BY <2>5, <2>7 DEF Busy, BagToSet, IsABag
<1> HIDE DEF one, two
<1>6. <<>> \in CoursesTokens /\ Offsets(<<>>)
  <2>1. <<>> \in [{} -> Nat] /\ DOMAIN <<>> = {}
    OBVIOUS
  <2>2. QED
    BY <2>1 DEF CoursesTokens, Offsets
<1>7. tokens \in CoursesTokens /\ (Offsets(page.tokens) => Offsets(tokens))
  BY <1>3, <1>6
<1> HIDE DEF tokens
<1>8. /\ page' \in CoursesStates /\ page'.tokens = tokens /\ page'.loading /\ ~page'.error
      /\ page'.ranFilter = page.filter /\ page'.ranPage = page.page
      /\ \A k \in DOMAIN page \ {"loading", "error", "tokens", "ranFilter", "ranPage"} : page'[k] = page[k]
  BY <1>1, <1>3, <1>7 DEF CoursesInv, CoursesTyped, CoursesStates
<1>9. first \in Busy' \/ this \in Busy'
  BY <1>1, <1>5 DEF Courses!Due
<1>10. CoursesTyped'
  BY <1>1, <1>4, <1>5, <1>8, <1>9 DEF CoursesInv, CoursesTyped
<1>11. CoursesOffsets'
  BY <1>1, <1>4, <1>5, <1>7, <1>8 DEF CoursesInv, CoursesOffsets, Offsets
<1>12. CoursesAsked'
  <2> SUFFICES ASSUME seen' = {} PROVE \E c \in Busy' : c.filter = page.filter /\ c.page = page.page
    BY <1>8 DEF CoursesAsked
  <2>1. CASE page.page # page.ranPage
    BY <1>4, <1>5, <2>1
  <2>2. CASE page.filter # page.ranFilter
    <3>1. page.page = 1
      BY <1>1, <1>3, <2>2
    <3>2. QED
      BY <1>4, <1>5, <2>2, <3>1
  <2>3. QED
    BY <1>1, <2>1, <2>2 DEF Courses!Due
<1>13. QED
  BY <1>10, <1>11, <1>12 DEF CoursesInv

\* A choice of the user waits for the effects; a retry does not.
LEMMA CoursesChosen ==
  ASSUME CoursesInv, NEW f \in Filters, NEW n \in Courses!Pages, page' = [page EXCEPT !.filter = f, !.page = n],
         UNCHANGED <<server, calls, seen>>
  PROVE  CoursesInv'
<1>1. page' \in CoursesStates /\ \A k \in DOMAIN page \ {"filter", "page"} : page'[k] = page[k]
  BY DEF CoursesInv, CoursesTyped, CoursesStates
<1>2. QED
  BY <1>1 DEF CoursesInv, CoursesTyped, CoursesStates, CoursesOffsets, CoursesAsked, Offsets, Busy

LEMMA CoursesClicked == ASSUME CoursesInv, ~Courses!Due, Courses!Clicks PROVE CoursesInv'
<1>1. ASSUME NEW f \in Filters, Courses!Type(f) PROVE CoursesInv'
  <2>1. page' = [page EXCEPT !.filter = f, !.page = page.page]
    BY <1>1 DEF Courses!Type, CoursesInv, CoursesTyped, CoursesStates
  <2>2. QED
    BY <1>1, <2>1, CoursesTypes, CoursesChosen DEF Courses!Type
<1>2. ASSUME NEW f \in Filters, Courses!SetFilter(f) PROVE CoursesInv'
  BY <1>2, CoursesPages, CoursesChosen DEF Courses!SetFilter
<1>3. ASSUME NEW n, Courses!GoTo(n) PROVE CoursesInv'
  <2>1. page' = [page EXCEPT !.filter = page.filter, !.page = n]
    BY <1>3 DEF Courses!GoTo, CoursesInv, CoursesTyped, CoursesStates
  <2>2. n \in Courses!Pages
    <3>1. n \in 1..Courses!TotalPages /\ Courses!TotalPages \in 1..MaxPage
      BY <1>3, PagesFit DEF Courses!GoTo
    <3>2. QED
      BY <3>1, PagesAssumption DEF Courses!Pages
  <2>3. QED
    BY <1>3, <2>1, <2>2, CoursesTypes, CoursesChosen DEF Courses!GoTo
<1>4. ASSUME Courses!Retry PROVE CoursesInv'
  <2> DEFINE c == Courses!Fetch(page.page)
  <2>1. Courses!Send(c) /\ page' = [page EXCEPT !.loading = TRUE, !.error = FALSE] /\ UNCHANGED <<server, seen>>
    BY <1>4 DEF Courses!Retry, Courses!Started
  <2>2. c \in CoursesRequests /\ c.filter = page.filter /\ c.page = page.page /\ c.tokens = page.tokens /\ c.stage = "token"
    BY CoursesTypes, CoursesFetch
  <2> HIDE DEF c
  <2>3. IsABag(calls)' /\ Busy' = Busy \union {c}
    BY <2>1, CoursesCalls, AddedCall DEF CoursesInv, CoursesTyped
  <2>4. page' \in CoursesStates /\ \A k \in DOMAIN page \ {"loading", "error"} : page'[k] = page[k]
    BY <2>1 DEF CoursesInv, CoursesTyped, CoursesStates
  <2>5. QED
    BY <2>1, <2>2, <2>3, <2>4 DEF CoursesInv, CoursesTyped, CoursesStates, CoursesOffsets, CoursesAsked, Offsets, Courses!Due
<1>5. QED
  BY <1>1, <1>2, <1>3, <1>4 DEF Courses!Clicks

LEMMA CoursesStep == CoursesInv /\ Courses!Next => CoursesInv'
BY CoursesOthers, CoursesRan, CoursesFetched, CoursesRead, CoursesClicked, CoursesLoaded, CoursesFailed, CoursesCalls
   DEF Courses!Next

(***************************************************************************)
(* A profile.                                                              *)
(***************************************************************************)

LEMMA ProfileCalls ==
  /\ Profile!Busy = Busy
  /\ \A c : Profile!Send(c) => Added(c)
  /\ \A c : Profile!End(c) <=> End(c)
  /\ \A c, d : Profile!Turn(c, d) <=> Turn(c, d)
  /\ \A c : Profile!Only(c) = Only(c)
BY DEF Profile!Busy, Profile!BagToSet, Busy, BagToSet, Profile!Send, Profile!End, Profile!Turn, Profile!Only,
       Profile!(+), Profile!(-), Profile!SetToBag, Added, End, Turn, Only, SetToBag, (+), (-)

ProfileStates == [id : Profile!Users, shown : Profile!Users \union {None}, courses : Profile!Users \union {None},
                  loading : BOOLEAN, error : BOOLEAN, left : Profile!Users \union {None}]
ProfileServer == [chats : [Profile!Users -> Nat], old : SUBSET Others, trouble : Nat]
ProfileRequests == [kind : {"load", "list", "create"}, of : Profile!Users,
                    stage : {"profile", "favorites", "courses", "sent", "checked", "done"}]

ProfileTyped ==
  /\ IsABag(calls) /\ Busy \subseteq ProfileRequests
  /\ page \in ProfileStates /\ server \in ProfileServer
  /\ seen \subseteq {"moved", "overtaken", "kept", "raced"}

\* A profile, or a list of courses, of another user is shown only while the one of the
\* user in the URL is to come, or after an error.
ProfileComes ==
  "overtaken" \notin seen =>
    /\ page.shown = page.id \/ page.error \/ \E c \in Busy : c.kind = "load" /\ c.of = page.id /\ c.stage = "profile"
    /\ page.courses = page.id \/ "kept" \in seen \/ page.error \/ \E c \in Busy : c.kind = "load" /\ c.of = page.id

\* A chat that is looked for, created or opened is with the user in the URL.
ChatWithUser ==
  "moved" \notin seen =>
    /\ \A c \in Busy : c.kind # "load" => c.of = page.id
    /\ page.left # None => page.left = page.id

\* One creation of a chat has been checked, and none has been committed then.
CheckedOnce ==
  "raced" \notin seen =>
    /\ \A u \in Profile!Users : server.chats[u] <= 1
    /\ \A c \in Busy : c.kind = "create" /\ c.stage = "checked" => calls[c] = 1 /\ server.chats[c.of] = 0

LoadingHasLoad == page.loading => \E c \in Busy : c.kind = "load"

ProfileInv == ProfileTyped /\ ProfileComes /\ ChatWithUser /\ CheckedOnce /\ LoadingHasLoad

LEMMA ProfileInit == Profile!Init => ProfileInv
<1> SUFFICES ASSUME Profile!Init PROVE ProfileInv
  OBVIOUS
<1>1. PICK id \in Profile!Users :
        /\ page = [id |-> id, shown |-> None, courses |-> None, loading |-> TRUE, error |-> FALSE, left |-> None]
        /\ calls = Only(Profile!Load(id))
  BY ProfileCalls DEF Profile!Init
<1>2. IsABag(calls) /\ Busy = {Profile!Load(id)}
  BY <1>1 DEF Only, SetToBag, IsABag, Busy, BagToSet
<1>3. Profile!Load(id) = [kind |-> "load", of |-> id, stage |-> "profile"]
  BY DEF Profile!Load, Profile!Request
<1>4. PICK known, old \in SUBSET Others : server = [chats |-> [u \in Profile!Users |-> IF u \in known THEN 1 ELSE 0], old |-> old, trouble |-> 0]
  BY DEF Profile!Init
<1>5. server \in ProfileServer /\ \A u \in Profile!Users : server.chats[u] <= 1
  BY <1>4 DEF ProfileServer
<1>6. seen = {}
  BY DEF Profile!Init
<1>7. ProfileTyped
  BY <1>1, <1>2, <1>3, <1>5, <1>6 DEF ProfileTyped, ProfileStates, ProfileRequests
<1>8. QED
  BY <1>1, <1>2, <1>3, <1>5, <1>6, <1>7 DEF ProfileInv, ProfileComes, ChatWithUser, CheckedOnce, LoadingHasLoad

LEMMA ProfileImplies ==
  ASSUME ProfileInv
  PROVE  Profile!TypeOK /\ Profile!BusyHasRequest /\ Profile!ProfileIsTrue /\ Profile!ChatIsAsked /\ Profile!OneChat
<1> USE DEF ProfileInv
<1>1. Profile!TypeOK
  BY DEF ProfileTyped, ProfileStates, ProfileServer, Profile!TypeOK
<1>2. Profile!BusyHasRequest
  BY ProfileCalls DEF LoadingHasLoad, Profile!BusyHasRequest, Profile!Of
<1>3. Profile!ProfileIsTrue
  BY ProfileCalls DEF ProfileComes, Profile!ProfileIsTrue, Profile!Of, Profile!Open
<1>4. Profile!ChatIsAsked /\ Profile!OneChat
  BY DEF ChatWithUser, Profile!ChatIsAsked, CheckedOnce, Profile!OneChat
<1>5. QED
  BY <1>1, <1>2, <1>3, <1>4

Checked(c) == c.kind = "create" /\ c.stage = "checked"

LEMMA CheckedStays ==
  ASSUME CheckedOnce, server'.chats = server.chats, seen \subseteq seen',
         \A c \in Busy' : Checked(c) => c \in Busy /\ (calls[c] = 1 => calls'[c] = 1)
  PROVE  CheckedOnce'
BY DEF CheckedOnce, Checked

LEMMA ProfileStep == ProfileInv /\ Profile!Next => ProfileInv'
<1> SUFFICES ASSUME ProfileInv, Profile!Next PROVE ProfileInv'
  OBVIOUS
<1> USE DEF ProfileInv, ProfileTyped
<1>0. \A of \in Profile!Users, kind \in {"load", "list", "create"},
         stage \in {"profile", "favorites", "courses", "sent", "checked", "done"} :
        LET d == Profile!Request(kind, of, stage)
        IN  d \in ProfileRequests /\ d.kind = kind /\ d.of = of /\ d.stage = stage
  BY DEF Profile!Request, ProfileRequests
<1>r. /\ \A c \in Busy : c.of \in Profile!Users
      /\ \A c \in Busy, stage \in {"profile", "favorites", "courses", "sent", "checked", "done"} :
           LET d == [c EXCEPT !.stage = stage]
           IN  d \in ProfileRequests /\ d.kind = c.kind /\ d.of = c.of /\ d.stage = stage
  BY DEF ProfileRequests
<1>p. /\ page.id \in Profile!Users /\ page.shown \in Profile!Users \union {None}
  BY DEF ProfileStates
\* Another URL, or a new token: the profile is asked for.
<1>1. ASSUME NEW id \in Profile!Users, Added(Profile!Load(id)), UNCHANGED server,
             page' = [page EXCEPT !.id = id, !.loading = TRUE, !.error = FALSE],
             page.left = None,
             \/ id = page.id /\ seen' = seen
             \/ seen' = seen \union (IF \E c \in Busy : c.kind \in {"list", "create"} THEN {"moved"} ELSE {})
      PROVE  ProfileInv'
  <2> DEFINE c == Profile!Load(id)
  <2>1. c \in ProfileRequests /\ c.kind = "load" /\ c.of = id /\ c.stage = "profile"
    BY <1>0 DEF Profile!Load
  <2> HIDE DEF c
  <2>2. /\ page' \in ProfileStates /\ page'.id = id /\ page'.left = None
    BY <1>1 DEF ProfileStates
  <2>3. IsABag(calls)' /\ Busy' = Busy \union {c} /\ \A e \in Busy \ {c} : calls'[e] = calls[e]
    BY <1>1, AddedCall DEF c
  <2>4. ProfileTyped' /\ ProfileComes' /\ LoadingHasLoad'
    BY <1>1, <2>1, <2>2, <2>3 DEF ProfileComes, LoadingHasLoad
  <2>5. ChatWithUser'
    BY <1>1, <2>1, <2>2, <2>3 DEF ChatWithUser, ProfileRequests
  <2>6. CheckedOnce'
    BY <1>1, <2>1, <2>3, CheckedStays DEF Checked
  <2>7. QED
    BY <2>4, <2>5, <2>6
<1>2. CASE page.left = None /\ Profile!TokenRenewed
  <2>1. page' = [page EXCEPT !.id = page.id, !.loading = TRUE, !.error = FALSE]
    BY <1>2 DEF Profile!TokenRenewed, ProfileStates
  <2>2. QED
    BY <1>1, <1>2, <1>p, <2>1, ProfileCalls DEF Profile!TokenRenewed
<1>3. ASSUME NEW id \in Profile!Users, Profile!GoTo(id)
      PROVE  ProfileInv'
  BY <1>1, <1>3, ProfileCalls DEF Profile!GoTo, Profile!Saw, Profile!If, Profile!Of
<1>4. CASE Profile!Write
  <2> DEFINE c == Profile!Request("list", page.shown, "sent")
  <2>1. /\ Added(c) /\ UNCHANGED <<page, server>> /\ page.shown \in Profile!Users
        /\ seen' = seen \union (IF page.shown # page.id THEN {"moved"} ELSE {})
    BY <1>4, <1>p, ProfileCalls DEF Profile!Write, Profile!CanWrite, Profile!Open, Profile!Saw, Profile!If
  <2>2. c \in ProfileRequests /\ c.kind = "list" /\ c.of = page.shown /\ c.stage = "sent"
    BY <1>0, <2>1
  <2> HIDE DEF c
  <2>3. IsABag(calls)' /\ Busy' = Busy \union {c} /\ \A e \in Busy \ {c} : calls'[e] = calls[e]
    BY <2>1, AddedCall
  <2>4. ProfileTyped' /\ ProfileComes' /\ LoadingHasLoad'
    BY <2>1, <2>2, <2>3 DEF ProfileComes, LoadingHasLoad
  <2>5. ChatWithUser'
    BY <2>1, <2>2, <2>3 DEF ChatWithUser
  <2>6. CheckedOnce'
    BY <2>1, <2>2, <2>3, CheckedStays DEF Checked
  <2>7. QED
    BY <2>4, <2>5, <2>6
<1>5. ASSUME NEW c \in Busy, Profile!ProfileLoaded(c), page.left = None
      PROVE  ProfileInv'
  <2> DEFINE d == [c EXCEPT !.stage = "favorites"]
  <2>1. /\ c.kind = "load" /\ c.stage = "profile" /\ Turn(c, d) /\ UNCHANGED server
        /\ page' = [page EXCEPT !.shown = c.of]
        /\ seen \subseteq seen' /\ seen' \subseteq seen \union {"overtaken"}
        /\ "overtaken" \notin seen' => c.of = page.id \/ \E e \in Busy : e.kind = "load" /\ e.of = page.id /\ e.stage = "profile"
    BY <1>5, ProfileCalls DEF Profile!ProfileLoaded, Profile!Saw, Profile!Overtaken, Profile!If, Profile!Of
  <2>2. d \in ProfileRequests /\ d.kind = "load" /\ d.of = c.of /\ d.stage = "favorites"
    BY <1>r, <2>1
  <2> HIDE DEF d
  <2>3. /\ page' \in ProfileStates /\ page'.id = page.id /\ page'.left = None /\ page'.shown = c.of
        /\ page'.loading = page.loading /\ page'.error = page.error /\ page'.courses = page.courses
    BY <1>5, <1>r, <2>1 DEF ProfileStates
  <2>4. /\ IsABag(calls)' /\ d \in Busy' /\ Busy' \subseteq Busy \union {d} /\ Busy \ {c} \subseteq Busy'
        /\ \A e \in Busy \ {c, d} : calls'[e] = calls[e]
    BY <2>1, TurnedCall
  <2>5. ProfileTyped' /\ LoadingHasLoad'
    BY <2>1, <2>2, <2>3, <2>4 DEF LoadingHasLoad
  <2>6. ProfileComes'
    BY <2>1, <2>2, <2>3, <2>4 DEF ProfileComes
  <2>7. ChatWithUser'
    BY <2>1, <2>2, <2>3, <2>4 DEF ChatWithUser
  <2>8. CheckedOnce'
    BY <2>1, <2>2, <2>4, CheckedStays DEF Checked
  <2>9. QED
    BY <2>5, <2>6, <2>7, <2>8
<1>6. ASSUME NEW c \in Busy, Profile!ProfileFails(c), page.left = None
      PROVE  ProfileInv'
  <2>1. /\ c.kind = "load" /\ End(c) /\ page' = [page EXCEPT !.loading = FALSE, !.error = TRUE] /\ UNCHANGED seen
        /\ server' = [server EXCEPT !.trouble = @ + 1]
    BY <1>6, ProfileCalls DEF Profile!ProfileFails, Profile!Trouble
  <2>2. server' \in ProfileServer /\ server'.chats = server.chats
    BY <2>1 DEF ProfileServer
  <2>3. page' \in ProfileStates /\ page'.id = page.id /\ page'.left = None /\ ~page'.loading /\ page'.error
    BY <1>6, <2>1 DEF ProfileStates
  <2>4. /\ IsABag(calls)' /\ Busy' \subseteq Busy /\ \A e \in Busy \ {c} : calls'[e] = calls[e]
    BY <2>1, EndedCall
  <2>5. ProfileTyped' /\ LoadingHasLoad' /\ ProfileComes' /\ ChatWithUser'
    BY <2>1, <2>2, <2>3, <2>4 DEF LoadingHasLoad, ProfileComes, ChatWithUser
  <2>6. CheckedOnce'
    BY <2>1, <2>2, <2>4, CheckedStays DEF Checked
  <2>7. QED
    BY <2>5, <2>6
<1>7. ASSUME NEW c \in Busy, Profile!FavoritesAnswered(c)
      PROVE  ProfileInv'
  <2> DEFINE d == [c EXCEPT !.stage = "courses"]
  <2>1. c.kind = "load" /\ c.stage = "favorites" /\ Turn(c, d) /\ UNCHANGED <<page, server, seen>>
    BY <1>7, ProfileCalls DEF Profile!FavoritesAnswered
  <2>2. d \in ProfileRequests /\ d.kind = "load" /\ d.of = c.of /\ d.stage = "courses"
    BY <1>r, <2>1
  <2> HIDE DEF d
  <2>4. /\ IsABag(calls)' /\ d \in Busy' /\ Busy' \subseteq Busy \union {d} /\ Busy \ {c} \subseteq Busy'
        /\ \A e \in Busy \ {c, d} : calls'[e] = calls[e]
    BY <2>1, TurnedCall
  <2>5. ProfileTyped' /\ LoadingHasLoad' /\ ProfileComes' /\ ChatWithUser'
    BY <2>1, <2>2, <2>4 DEF LoadingHasLoad, ProfileComes, ChatWithUser
  <2>6. CheckedOnce'
    BY <2>1, <2>2, <2>4, CheckedStays DEF Checked
  <2>7. QED
    BY <2>5, <2>6
<1>8. ASSUME NEW c \in Busy, Profile!CoursesAnswered(c), page.left = None
      PROVE  ProfileInv'
  <2>1. PICK fails \in BOOLEAN :
        /\ c.kind = "load" /\ c.stage = "courses" /\ End(c)
        /\ server' = [server EXCEPT !.trouble = IF fails THEN @ + 1 ELSE @]
        /\ page' = [page EXCEPT !.loading = FALSE, !.courses = IF fails THEN @ ELSE c.of]
        /\ seen \subseteq seen' /\ seen' \subseteq seen \union {"overtaken", "kept"} /\ (fails => "kept" \in seen')
        /\ "overtaken" \notin seen' => c.of = page.id \/ \E e \in Busy : e.kind = "load" /\ e.of = page.id
    BY <1>8, ProfileCalls DEF Profile!CoursesAnswered, Profile!Saw, Profile!Overtaken, Profile!If, Profile!Of, Profile!Trouble
  <2>2. server' \in ProfileServer /\ server'.chats = server.chats
    BY <2>1 DEF ProfileServer
  <2>3. /\ page' \in ProfileStates /\ page'.id = page.id /\ page'.left = None /\ page'.shown = page.shown
        /\ ~page'.loading /\ page'.error = page.error /\ page'.courses = IF fails THEN page.courses ELSE c.of
    BY <1>8, <1>r, <2>1 DEF ProfileStates
  <2>4. /\ IsABag(calls)' /\ Busy' \subseteq Busy /\ Busy \ {c} \subseteq Busy'
        /\ \A e \in Busy \ {c} : calls'[e] = calls[e]
    BY <2>1, EndedCall
  <2>5. ProfileTyped' /\ LoadingHasLoad' /\ ChatWithUser'
    BY <2>1, <2>2, <2>3, <2>4 DEF LoadingHasLoad, ChatWithUser
  <2>6. ProfileComes'
    BY <2>1, <2>3, <2>4 DEF ProfileComes
  <2>7. CheckedOnce'
    BY <2>1, <2>2, <2>4, CheckedStays DEF Checked
  <2>8. QED
    BY <2>5, <2>6, <2>7
\* A request about the chat that ends, with the chat opened or not.
<1>9. ASSUME NEW c \in Busy, c.kind \in {"list", "create"}, End(c), page.left = None, server' \in ProfileServer,
             server'.chats = server.chats, UNCHANGED seen, page' = page \/ page' = [page EXCEPT !.left = c.of]
      PROVE  ProfileInv'
  <2>1. /\ page' \in ProfileStates /\ page'.id = page.id /\ page'.shown = page.shown /\ page'.courses = page.courses
        /\ page'.loading = page.loading /\ page'.error = page.error /\ page'.left \in {None, c.of}
    BY <1>9, <1>r DEF ProfileStates
  <2>2. /\ IsABag(calls)' /\ Busy' \subseteq Busy /\ Busy \ {c} \subseteq Busy' /\ (calls[c] = 1 => c \notin Busy')
        /\ \A e \in Busy \ {c} : calls'[e] = calls[e]
    BY <1>9, EndedCall
  <2>3. ProfileTyped' /\ LoadingHasLoad' /\ ProfileComes'
    BY <1>9, <2>1, <2>2 DEF LoadingHasLoad, ProfileComes
  <2>4. ChatWithUser'
    BY <1>9, <2>1, <2>2 DEF ChatWithUser
  <2>5. CheckedOnce'
    BY <1>9, <2>2, CheckedStays
  <2>6. QED
    BY <2>3, <2>4, <2>5
\* A request about the chat that goes on, not yet checked.
<1>10. ASSUME NEW c \in Busy, c.kind \in {"list", "create"}, ~Checked(c), NEW d \in ProfileRequests,
              d.kind = "create", d.of = c.of, ~Checked(d), Turn(c, d), UNCHANGED <<page, server, seen>>
       PROVE  ProfileInv'
  <2>1. /\ IsABag(calls)' /\ d \in Busy' /\ Busy' \subseteq Busy \union {d} /\ Busy \ {c} \subseteq Busy'
        /\ \A e \in Busy \ {c, d} : calls'[e] = calls[e]
    BY <1>10, TurnedCall
  <2>2. ProfileTyped' /\ LoadingHasLoad' /\ ProfileComes' /\ ChatWithUser'
    BY <1>10, <2>1 DEF LoadingHasLoad, ProfileComes, ChatWithUser
  <2>3. CheckedOnce'
    BY <1>10, <2>1, CheckedStays
  <2>4. QED
    BY <2>2, <2>3
<1>11. ASSUME NEW c \in Busy, Profile!ChatsListed(c), page.left = None
       PROVE  ProfileInv'
  <2>1. c.kind = "list" /\ UNCHANGED <<server, seen>>
    BY <1>11 DEF Profile!ChatsListed
  <2>2. \/ page' = [page EXCEPT !.left = c.of] /\ End(c)
        \/ Turn(c, Profile!Request("create", c.of, "sent")) /\ UNCHANGED page
    BY <1>11, ProfileCalls DEF Profile!ChatsListed, Profile!OpenChat
  <2>3. QED
    BY <1>0, <1>r, <1>9, <1>10, <1>11, <2>1, <2>2 DEF Checked
<1>12. ASSUME NEW c \in Busy, Profile!ChatCreated(c), page.left = None
       PROVE  ProfileInv'
  BY <1>9, <1>12, ProfileCalls DEF Profile!ChatCreated, Profile!OpenChat
<1>13. ASSUME NEW c \in Busy, Profile!ChatFails(c), page.left = None
       PROVE  ProfileInv'
  <2>1. c.kind \in {"list", "create"} /\ End(c) /\ UNCHANGED <<page, seen>> /\ server' = [server EXCEPT !.trouble = @ + 1]
    BY <1>13, ProfileCalls DEF Profile!ChatFails, Profile!Trouble
  <2>2. server' \in ProfileServer /\ server'.chats = server.chats
    BY <2>1 DEF ProfileServer
  <2>3. QED
    BY <1>9, <1>13, <2>1, <2>2
<1>14. ASSUME NEW c \in Busy, Profile!Check(c)
       PROVE  ProfileInv'
  <2> DEFINE d == [c EXCEPT !.stage = "checked"]
  <2>1. /\ c.kind = "create" /\ c.stage = "sent" /\ UNCHANGED <<page, server>>
        /\ End(c) \/ (server.chats[c.of] = 0 /\ Turn(c, d))
        /\ seen' = seen \union (IF d \in Busy THEN {"raced"} ELSE {})
    <3>1. server.chats[c.of] \in Nat
      BY <1>r DEF ProfileServer
    <3>2. QED
      BY <1>14, <3>1, ProfileCalls DEF Profile!Check, Profile!Saw, Profile!If, Profile!BagIn, Profile!BagToSet, Busy, BagToSet
  <2>2. d \in ProfileRequests /\ d.kind = "create" /\ d.of = c.of /\ d.stage = "checked"
    BY <1>r, <2>1
  <2> HIDE DEF d
  <2>3. CASE End(c)
    <3>1. /\ IsABag(calls)' /\ Busy' \subseteq Busy /\ Busy \ {c} \subseteq Busy'
          /\ \A e \in Busy \ {c} : calls'[e] = calls[e]
      BY <2>3, EndedCall
    <3>2. ProfileTyped' /\ LoadingHasLoad' /\ ProfileComes' /\ ChatWithUser'
      BY <2>1, <3>1 DEF LoadingHasLoad, ProfileComes, ChatWithUser
    <3>3. CheckedOnce'
      BY <2>1, <3>1, CheckedStays DEF Checked
    <3>4. QED
      BY <3>2, <3>3
  <2>4. CASE server.chats[c.of] = 0 /\ Turn(c, d)
    <3>1. /\ IsABag(calls)' /\ d \in Busy' /\ Busy' \subseteq Busy \union {d} /\ Busy \ {c} \subseteq Busy'
          /\ \A e \in Busy \ {c, d} : calls'[e] = calls[e]
          /\ c # d /\ d \notin Busy => calls'[d] = 1
      BY <2>4, TurnedCall
    <3>2. ProfileTyped' /\ LoadingHasLoad' /\ ProfileComes' /\ ChatWithUser'
      BY <2>1, <2>2, <3>1 DEF LoadingHasLoad, ProfileComes, ChatWithUser
    <3>3. CheckedOnce'
      BY <2>1, <2>2, <2>4, <3>1 DEF CheckedOnce
    <3>4. QED
      BY <3>2, <3>3
  <2>5. QED
    BY <2>1, <2>3, <2>4
<1>15. ASSUME NEW c \in Busy, Profile!Insert(c)
       PROVE  ProfileInv'
  <2> DEFINE d == [c EXCEPT !.stage = "done"]
             chats == [server.chats EXCEPT ![c.of] = server.chats[c.of] + 1]
  <2>0. /\ chats \in [Profile!Users -> Nat]
        /\ \A u \in Profile!Users : chats[u] = IF u = c.of THEN server.chats[u] + 1 ELSE server.chats[u]
        /\ \A u \in Profile!Users : server.chats[u] \in Nat
    BY <1>r DEF ProfileServer
  <2>1. /\ c.kind = "create" /\ c.stage = "checked" /\ UNCHANGED <<page, seen>> /\ Turn(c, d)
        /\ server' = [server EXCEPT !.chats = chats]
    BY <1>15, ProfileCalls DEF Profile!Insert
  <2>2. d \in ProfileRequests /\ d.kind = "create" /\ d.of = c.of /\ d.stage = "done"
    BY <1>r, <2>1
  <2> HIDE DEF d, chats
  <2>3. /\ server' \in ProfileServer
        /\ \A u \in Profile!Users : server'.chats[u] = IF u = c.of THEN server.chats[u] + 1 ELSE server.chats[u]
        /\ \A u \in Profile!Users : server.chats[u] \in Nat
    BY <2>0, <2>1 DEF ProfileServer
  <2>4. /\ IsABag(calls)' /\ d \in Busy' /\ Busy' \subseteq Busy \union {d} /\ Busy \ {c} \subseteq Busy'
        /\ calls[c] = 1 /\ c # d => c \notin Busy'
        /\ \A e \in Busy \ {c, d} : calls'[e] = calls[e]
    BY <2>1, TurnedCall
  <2>5. ProfileTyped' /\ LoadingHasLoad' /\ ProfileComes' /\ ChatWithUser'
    BY <2>1, <2>2, <2>3, <2>4 DEF LoadingHasLoad, ProfileComes, ChatWithUser
  <2>6. CheckedOnce'
    <3>1. ASSUME NEW e \in Busy, Checked(e), e.of = c.of
          PROVE  e = c
      BY <2>1, <3>1 DEF Checked, ProfileRequests
    <3>2. ASSUME NEW e \in Busy', Checked(e), "raced" \notin seen
          PROVE  e \in Busy /\ e.of # c.of /\ calls'[e] = calls[e]
      BY <2>1, <2>2, <2>4, <3>1, <3>2 DEF Checked, CheckedOnce
    <3>3. QED
      BY <1>r, <2>1, <2>3, <3>2 DEF CheckedOnce, Checked
  <2>7. QED
    BY <2>5, <2>6
<1>16. QED
  BY <1>2, <1>3, <1>4, <1>5, <1>6, <1>7, <1>8, <1>11, <1>12, <1>13, <1>14, <1>15, ProfileCalls
  DEF Profile!Next, Profile!Takes

(***************************************************************************)
(* The profile form.                                                       *)
(***************************************************************************)

LEMMA EditCalls ==
  /\ Edit!Busy = Busy
  /\ \A c : Edit!Send(c) => Added(c)
  /\ \A c : Edit!End(c) <=> End(c)
  /\ \A c, d : Edit!Turn(c, d) <=> Turn(c, d)
  /\ \A c : Edit!Only(c) = Only(c)
BY DEF Edit!Busy, Edit!BagToSet, Busy, BagToSet, Edit!Send, Edit!End, Edit!Turn, Edit!Only,
       Edit!(+), Edit!(-), Edit!SetToBag, Added, End, Turn, Only, SetToBag, (+), (-)

LEMMA EditOf == \A kinds : Edit!Of(kinds) = Of(kinds)
BY EditCalls DEF Edit!Of, Of

EditNames == Names \union {"theirs"}
EditPictures == {"old", "new", "theirs", None}
EditSkills == SUBSET {"mine", "theirs"}
EditRows == [name : EditNames, avatar : EditPictures, mentor : BOOLEAN, student : BOOLEAN,
             skills : EditSkills, learning : BOOLEAN]
EditForms == [name : EditNames \union {None}, avatar : EditPictures, mentor : BOOLEAN, student : BOOLEAN, skills : EditSkills]
EditLoaded == [name : EditNames, avatar : EditPictures \union {"null"}, mentor : BOOLEAN, student : BOOLEAN]
EditLists == {<<>>} \union {<<k>> : k \in EditSkills}
EditUpdates == [name : EditNames \union {"unset"}, avatar : EditPictures \union {"unset"},
                mentor : BOOLEAN, student : BOOLEAN, teaches : EditLists, learns : EditLists]
EditUsers == [name : EditNames, avatar : EditPictures]
EditStates == [form : EditForms, loaded : EditLoaded \union {None}, user : EditUsers, loading : BOOLEAN, saving : BOOLEAN,
               uploading : BOOLEAN, error : BOOLEAN, success : BOOLEAN, dirty : BOOLEAN, left : BOOLEAN,
               timers : 0..MaxSaves, saves : 0..MaxSaves, edits : 0..MaxFormEdits]
EditServer == [own : EditRows, trouble : Nat]
EditRequests == [kind : {"load", "save", "upload"}, of : {"own", "theirs"}, form : EditForms \union {None},
                 update : EditUpdates \union {None}, row : EditRows, stage : {"sent", "done"}]

EditTyped ==
  /\ IsABag(calls) /\ Busy \subseteq EditRequests
  /\ \A c \in Busy : /\ c.kind # "load" => c.of = "own" /\ c.update \in EditUpdates
                     /\ c.kind = "upload" => c.update = Edit!OnlyAvatar("new")
                     /\ c.kind = "save" => c.form \in EditForms /\ c.form.name \in EditNames
  /\ page \in EditStates /\ server \in EditServer
  /\ page.loaded # None => page.form.name \in EditNames
  /\ seen \subseteq {"overtaken", "kept", "changed", "removed", "again"}

\* One request of a kind for a profile.
EditOnce ==
  /\ \A c \in Busy : calls[c] = 1 /\ \A d \in Busy : c.kind = d.kind /\ c.of = d.of => c = d
  /\ \A c \in Busy : /\ c.kind = "save" => page.saving /\ page.timers < page.saves
                     /\ c.kind = "upload" => page.uploading /\ (page.left \/ (page.loaded \in EditLoaded /\ page.form.name \in EditNames))
  /\ page.timers <= page.saves /\ (page.success => page.saves > 0)
  /\ "again" \in seen \/ page.saves <= 1

EditWaits ==
  page.left \/ /\ page.loading => \E c \in Busy : c.kind = "load"
               /\ page.saving => \E c \in Busy : c.kind = "save"
               /\ page.uploading => \E c \in Busy : c.kind = "upload"

\* Nothing is sent while a load is still to answer.
EditLoadsFirst ==
  "overtaken" \notin seen /\ (page.saves > 0 \/ \E c \in Busy : c.kind = "upload")
    => \A c \in Busy : c.kind # "load"

\* Before a save the server has what was loaded, and the pictures sent since.
EditBefore ==
  "changed" \notin seen /\ page.saves = 0 =>
    /\ \A c \in Busy :
         /\ c.kind = "upload" /\ c.stage = "done" => server.own.avatar = "new"
         /\ c.kind = "load" /\ c.of = "own" /\ c.stage = "done" =>
              /\ c.row.name = server.own.name /\ c.row.mentor = server.own.mentor /\ c.row.student = server.own.student
              /\ c.row.skills = server.own.skills
              /\ "overtaken" \in seen \/ c.row.avatar = server.own.avatar
    /\ "overtaken" \notin seen /\ ~page.left /\ ~page.error /\ page.loaded \in EditLoaded
       /\ (\A c \in Busy : c.kind = "load" => c.of # "own") =>
         /\ page.loaded.name = server.own.name
         /\ \/ page.loaded.avatar \in {server.own.avatar, "null"}
            \/ \E c \in Busy : c.kind = "upload" /\ c.stage = "done"
         /\ "kept" \in seen \/ page.dirty
              \/ /\ page.form.name = server.own.name /\ page.form.skills = server.own.skills
                 /\ page.form.mentor = server.own.mentor /\ page.form.student = server.own.student

Stored(row, form) ==
  /\ row.name = form.name /\ row.avatar = form.avatar /\ row.mentor /\ row.student
  /\ row.skills = IF form.mentor THEN form.skills ELSE {}

\* A save carries what the form shows until it is edited, and that is stored.
EditAfter ==
  seen \intersect {"overtaken", "changed", "again"} = {} /\ page.saves > 0 /\ ~page.left /\ ~page.error /\ ~page.dirty
    /\ (\A c \in Busy : c.kind # "upload") =>
    /\ \A c \in Busy : c.kind = "save" =>
         /\ c.form = page.form
         /\ c.stage = "sent" =>
              /\ Edit!Field(c.update.name, server.own.name) = c.form.name
              /\ Edit!Field(c.update.avatar, server.own.avatar) = c.form.avatar
              /\ c.update.teaches = <<IF c.form.mentor THEN c.form.skills ELSE {}>> /\ c.update.learns = <<{}>>
         /\ c.stage = "done" => Stored(server.own, c.form)
    /\ (\A c \in Busy : c.kind # "save") =>
         /\ Stored(server.own, page.form)
         /\ page.user.name = page.form.name
         /\ "removed" \in seen \/ page.user.avatar = page.form.avatar

\* A picture is missing only where it was removed.
EditPictured ==
  "removed" \notin seen =>
    /\ server.own.avatar # None /\ (page.loaded # None => page.form.avatar # None)
    /\ \A c \in Busy : /\ c.row.avatar # None
                       /\ c.kind # "load" => c.update.avatar # None
                       /\ c.kind = "save" => c.form.avatar # None

EditInv == EditTyped /\ EditOnce /\ EditWaits /\ EditLoadsFirst /\ EditBefore /\ EditAfter /\ EditPictured

LEMMA EditInit == Edit!Init => EditInv
<1> SUFFICES ASSUME Edit!Init PROVE EditInv
  OBVIOUS
<1> DEFINE n == CHOOSE m \in Names : TRUE
           own == Edit!Load("own")
           theirs == Edit!Load("theirs")
<1>1. n \in Names
  BY PagesAssumption
<1> HIDE DEF n
<1>2. PICK both \in BOOLEAN, skills \in EditSkills :
        /\ server = [own |-> [name |-> n, avatar |-> "old", mentor |-> both, student |-> both,
                              skills |-> skills, learning |-> both], trouble |-> 0]
        /\ page = [form |-> Edit!Blank, loaded |-> None, user |-> [name |-> n, avatar |-> "old"], loading |-> TRUE,
                   saving |-> FALSE, uploading |-> FALSE, error |-> FALSE, success |-> FALSE, dirty |-> FALSE,
                   left |-> FALSE, timers |-> 0, saves |-> 0, edits |-> 0]
  BY DEF Edit!Init, EditSkills, n
<1>3. PICK elsewhere \in BOOLEAN :
        calls = [c \in (IF elsewhere THEN {own, theirs} ELSE {own}) |-> 1]
  <2>1. own # theirs
    BY DEF Edit!Load, Edit!Request
  <2>0. PICK elsewhere \in BOOLEAN :
          calls = Edit!(+)(Edit!Only(own), IF elsewhere THEN Edit!Only(theirs) ELSE Edit!EmptyBag)
    BY DEF Edit!Init
  <2>2. calls = Edit!(+)(Only(own), IF elsewhere THEN Only(theirs) ELSE Edit!EmptyBag)
    BY <2>0, EditCalls
  <2> HIDE DEF own, theirs
  <2>3. CASE elsewhere
    <3>1. calls = [c \in {own, theirs} |-> 1]
      BY <2>1, <2>2, <2>3 DEF Edit!(+), Only, SetToBag
    <3>2. QED
      BY <2>3, <3>1
  <2>4. CASE ~elsewhere
    BY <2>2, <2>4 DEF Edit!(+), Only, SetToBag, Edit!EmptyBag, Edit!SetToBag
  <2>5. QED
    BY <2>3, <2>4
<1>4. Edit!Theirs \in EditRows /\ Edit!Blank \in EditForms /\ Edit!Theirs.avatar = "theirs"
  BY DEF Edit!Theirs, Edit!Blank, EditRows, EditForms, EditNames, EditPictures, EditSkills
<1>5. /\ own \in EditRequests /\ own.kind = "load" /\ own.of = "own" /\ own.stage = "sent" /\ own.row = Edit!Theirs
      /\ theirs \in EditRequests /\ theirs.kind = "load" /\ theirs.of = "theirs" /\ theirs.row = Edit!Theirs
  BY <1>4 DEF Edit!Load, Edit!Request, EditRequests
<1> HIDE DEF own, theirs
<1>6. /\ IsABag(calls) /\ own \in Busy /\ Busy \subseteq {own, theirs} /\ \A c \in Busy : calls[c] = 1
  BY <1>3 DEF IsABag, Busy, BagToSet
<1>7. page \in EditStates /\ server \in EditServer
  BY <1>1, <1>2, <1>4, PagesAssumption
     DEF EditStates, EditServer, EditRows, EditNames, EditPictures, EditUsers
<1>8. seen = {}
  BY DEF Edit!Init
<1>9. EditTyped
  BY <1>2, <1>5, <1>6, <1>7, <1>8 DEF EditTyped
<1>10. EditOnce /\ EditWaits /\ EditLoadsFirst /\ EditAfter
  BY <1>2, <1>5, <1>6, <1>8 DEF EditOnce, EditWaits, EditLoadsFirst, EditAfter
<1>11. EditBefore
  BY <1>2, <1>5, <1>6, <1>8 DEF EditBefore
<1>12. EditPictured
  BY <1>2, <1>4, <1>5, <1>6, PagesAssumption DEF EditPictured
<1>13. QED
  BY <1>9, <1>10, <1>11, <1>12 DEF EditInv

LEMMA EditImplies ==
  ASSUME EditInv
  PROVE  Edit!TypeOK /\ Edit!BusyHasRequest /\ Edit!FormIsOwn /\ Edit!SavedIsTrue /\ Edit!UserIsTrue
<1> USE DEF EditInv
<1>1. Edit!TypeOK
  BY DEF EditTyped, EditStates, EditServer, EditRows, EditForms, EditNames, EditSkills, Edit!TypeOK, Edit!Theirs
<1>2. Edit!BusyHasRequest
  BY EditOf DEF EditWaits, Of, Edit!BusyHasRequest
<1>3. Edit!FormIsOwn
  BY EditCalls DEF EditTyped, EditStates, EditBefore, Edit!FormIsOwn, Edit!AtRest, Edit!Open
<1>4. Edit!Claims => page.saves > 0
  BY DEF EditOnce, Edit!Claims
<1>5. Edit!SavedIsTrue
  BY EditCalls, <1>4 DEF EditAfter, Stored, Edit!SavedIsTrue, Edit!Claims, Edit!AtRest, Edit!Open
<1>6. Edit!UserIsTrue
  BY EditCalls, <1>4 DEF EditAfter, Stored, Edit!UserIsTrue, Edit!Claims, Edit!AtRest, Edit!Open
<1>7. QED
  BY <1>1, <1>2, <1>3, <1>5, <1>6

\* What a save makes of a profile.
LEMMA EditUpdated ==
  ASSUME NEW row \in EditRows, NEW u \in EditUpdates
  PROVE  /\ Edit!UpdateProfile(row, u) \in EditRows
         /\ Edit!UpdateProfile(row, u).name = Edit!Field(u.name, row.name)
         /\ Edit!UpdateProfile(row, u).avatar = Edit!Field(u.avatar, row.avatar)
         /\ u.teaches = <<>> => Edit!UpdateProfile(row, u).skills = row.skills
         /\ u.teaches # <<>> => Edit!UpdateProfile(row, u).skills = u.teaches[1] /\ Edit!UpdateProfile(row, u).mentor
         /\ u.learns # <<>> => Edit!UpdateProfile(row, u).student
         /\ u.teaches = <<>> /\ ~u.mentor => Edit!UpdateProfile(row, u).mentor = row.mentor
         /\ u.learns = <<>> /\ ~u.student => Edit!UpdateProfile(row, u).student = row.student
<1> DEFINE a == Edit!UpdateProfileUser(row, u)
           b == Edit!UpdateOrCreateMentor(a, u)
           c == Edit!UpdateOrCreateStudent(b, u)
           d == Edit!UpdateLearningSkills(c, u)
           e == Edit!UpdateTeachingSkills(d, u)
<1>0. /\ u.teaches \in EditLists /\ u.learns \in EditLists
      /\ \A l \in EditLists : l = <<>> \/ (l # <<>> /\ Head(l) = l[1] /\ l[1] \in EditSkills)
  BY DEF EditUpdates, EditLists
<1>1. /\ a \in EditRows /\ a.name = Edit!Field(u.name, row.name) /\ a.avatar = Edit!Field(u.avatar, row.avatar)
      /\ a.skills = row.skills /\ a.mentor = row.mentor /\ a.student = row.student
  BY DEF Edit!UpdateProfileUser, Edit!Field, Edit!Unset, EditRows, EditUpdates
<1> HIDE DEF a
<1>2. /\ b \in EditRows /\ b.name = a.name /\ b.avatar = a.avatar /\ b.skills = a.skills /\ b.student = a.student
      /\ ~u.mentor => b.mentor = a.mentor
  BY <1>1 DEF Edit!UpdateOrCreateMentor, EditRows
<1> HIDE DEF b
<1>3. /\ c \in EditRows /\ c.name = b.name /\ c.avatar = b.avatar /\ c.skills = b.skills /\ c.mentor = b.mentor
      /\ ~u.student => c.student = b.student
  BY <1>2 DEF Edit!UpdateOrCreateStudent, EditRows
<1> HIDE DEF c
<1>4. /\ d \in EditRows /\ d.name = c.name /\ d.avatar = c.avatar /\ d.skills = c.skills /\ d.mentor = c.mentor
      /\ (u.learns = <<>> => d.student = c.student) /\ (u.learns # <<>> => d.student)
  BY <1>3 DEF Edit!UpdateLearningSkills, EditRows
<1> HIDE DEF d
<1>5. /\ e \in EditRows /\ e.name = d.name /\ e.avatar = d.avatar /\ e.student = d.student
      /\ (u.teaches = <<>> => e.mentor = d.mentor /\ e.skills = d.skills)
      /\ (u.teaches # <<>> => e.mentor /\ e.skills = u.teaches[1])
  BY <1>0, <1>4 DEF Edit!UpdateTeachingSkills, EditRows
<1>6. Edit!UpdateProfile(row, u) = e
  BY DEF Edit!UpdateProfile, a, b, c, d
<1> HIDE DEF e
<1>7. QED
  BY <1>1, <1>2, <1>3, <1>4, <1>5, <1>6

LEMMA EditTypes ==
  ASSUME EditInv
  PROVE  /\ page.form \in EditForms /\ page.loaded \in EditLoaded \union {None} /\ page.user \in EditUsers
         /\ {page.loading, page.saving, page.uploading, page.error, page.success, page.dirty, page.left} \subseteq BOOLEAN
         /\ page.timers \in 0..MaxSaves /\ page.saves \in 0..MaxSaves /\ page.edits \in 0..MaxFormEdits
         /\ server.own \in EditRows /\ server.trouble \in Nat
         /\ \A c \in Busy : c \in EditRequests /\ c.row \in EditRows
BY DEF EditInv, EditTyped, EditStates, EditServer, EditRequests

LEMMA EditPictureNames ==
  {"old", "new", "theirs"} \subseteq EditPictures \ {None, "null", "unset"}
  /\ None \notin {"null", "unset"} /\ None \in EditPictures
BY PagesAssumption DEF EditPictures

LEMMA EditSent ==
  ASSUME EditInv, NEW c, Edit!Send(c)
  PROVE  /\ IsABag(calls)' /\ Busy' = Busy \union {c}
         /\ \A d \in Busy \ {c} : calls'[d] = calls[d]
         /\ c \notin Busy => calls'[c] = 1
BY EditCalls, AddedCall DEF EditInv, EditTyped

LEMMA EditEnded ==
  ASSUME EditInv, NEW c \in Busy, Edit!End(c)
  PROVE  /\ IsABag(calls)' /\ Busy' = Busy \ {c} /\ \A d \in Busy' : calls'[d] = 1
<1>1. calls[c] = 1 /\ \A d \in Busy : calls[d] = 1
  BY DEF EditInv, EditOnce
<1>2. QED
  BY <1>1, EditCalls, EndedCall DEF EditInv, EditTyped

LEMMA EditTurned ==
  ASSUME EditInv, NEW c \in Busy, NEW d, c # d, d \notin Busy, Edit!Turn(c, d)
  PROVE  /\ IsABag(calls)' /\ Busy' = (Busy \ {c}) \union {d} /\ \A e \in Busy' : calls'[e] = 1
<1>1. calls[c] = 1 /\ \A e \in Busy : calls[e] = 1
  BY DEF EditInv, EditOnce
<1>2. QED
  BY <1>1, EditCalls, TurnedCall DEF EditInv, EditTyped

LEMMA EditTrouble ==
  ASSUME EditInv, Edit!Trouble(TRUE)
  PROVE  server' \in EditServer /\ server'.own = server.own
BY DEF EditInv, EditTyped, EditServer, Edit!Trouble

LEMMA EditFormEdited ==
  ASSUME EditInv, NEW form, Edit!EditForm(form), form \in EditForms, form.name \in EditNames, form.avatar = page.form.avatar
  PROVE  EditInv'
<1> USE DEF EditInv
<1>1. /\ Edit!Open /\ page.edits < MaxFormEdits
      /\ page' = [page EXCEPT !.form = form, !.dirty = TRUE, !.edits = @ + 1]
      /\ UNCHANGED <<server, calls, seen>>
  BY DEF Edit!EditForm
<1>2. page.edits + 1 \in 0..MaxFormEdits
  BY <1>1, EditTypes, PagesAssumption
<1>3. /\ page' \in EditStates /\ page'.form = form /\ page'.dirty
      /\ \A k \in DOMAIN page \ {"form", "dirty", "edits"} : page'[k] = page[k]
  BY <1>1, <1>2 DEF EditTyped, EditStates
<1>4. page.loaded # None
  BY <1>1 DEF Edit!Open
<1>5. EditTyped' /\ EditOnce' /\ EditWaits' /\ EditLoadsFirst' /\ EditPictured'
  BY <1>1, <1>3, <1>4 DEF EditTyped, EditOnce, EditWaits, EditLoadsFirst, EditPictured, EditStates, Busy
<1>6. EditBefore' /\ EditAfter'
  BY <1>1, <1>3, <1>4 DEF EditTyped, EditBefore, EditAfter, EditStates, Busy
<1>7. QED
  BY <1>5, <1>6

LEMMA EditLeft == EditInv /\ page' = Edit!Gone /\ UNCHANGED <<server, calls, seen>> => EditInv'
<1> SUFFICES ASSUME EditInv, page' = Edit!Gone, UNCHANGED <<server, calls, seen>> PROVE EditInv'
  OBVIOUS
<1> USE DEF EditInv
<1>1. Edit!Blank \in EditForms /\ 0 \in 0..MaxSaves /\ 0 \in 0..MaxFormEdits
  BY PagesAssumption DEF Edit!Blank, EditForms, EditPictures, EditSkills
<1>2. /\ page' \in EditStates /\ page'.left /\ page'.loaded = None /\ page'.timers = 0
      /\ \A k \in DOMAIN page \ {"form", "loaded", "timers", "edits", "left"} : page'[k] = page[k]
  BY <1>1 DEF EditTyped, EditStates, Edit!Gone
<1>3. EditTyped' /\ EditWaits' /\ EditLoadsFirst' /\ EditPictured'
  BY <1>2 DEF EditTyped, EditWaits, EditLoadsFirst, EditPictured, EditStates, Busy
<1>4. EditOnce'
  <2>1. page'.timers <= page.saves /\ \A c \in Busy : c.kind = "save" => page'.timers < page.saves
    BY <1>2, EditTypes DEF EditOnce
  <2>2. QED
    BY <1>2, <2>1 DEF EditOnce, EditTyped, EditStates, Busy
<1>5. EditBefore' /\ EditAfter'
  BY <1>2 DEF EditTyped, EditBefore, EditAfter, EditStates, Busy
<1>6. QED
  BY <1>3, <1>4, <1>5

\* A click finds the profile loaded.
LEMMA EditOpen ==
  ASSUME EditInv, Edit!Open
  PROVE  /\ page.loaded # None /\ page.loaded \in EditLoaded /\ page.form \in EditForms /\ page.form.name \in EditNames
         /\ page.form.avatar \in EditPictures /\ page.form.skills \subseteq {"mine", "theirs"}
         /\ page.form.mentor \in BOOLEAN /\ page.form.student \in BOOLEAN
         /\ ~page.left /\ ~page.error
         /\ ~page.saving => \A c \in Busy : c.kind # "save"
         /\ ~page.uploading => \A c \in Busy : c.kind # "upload"
BY EditTypes DEF EditInv, EditTyped, EditOnce, Edit!Open, EditForms, EditSkills

LEMMA EditEdited == EditInv /\ Edit!Edit => EditInv'
<1> SUFFICES ASSUME EditInv, Edit!Edit PROVE EditInv'
  OBVIOUS
<1>0. Edit!Open
  BY DEF Edit!Edit, Edit!EditForm
<1>1. ASSUME NEW n \in Names, Edit!EditForm([page.form EXCEPT !.name = n]) PROVE EditInv'
  <2> DEFINE form == [page.form EXCEPT !.name = n]
  <2>1. form \in EditForms /\ form.name \in EditNames /\ form.avatar = page.form.avatar
    BY <1>0, EditOpen, EditTypes DEF EditForms, EditNames
  <2>2. QED
    BY <1>1, <2>1, EditFormEdited
<1>2. ASSUME Edit!EditForm([page.form EXCEPT !.mentor = ~@]) PROVE EditInv'
  <2> DEFINE form == [page.form EXCEPT !.mentor = ~@]
  <2>1. form \in EditForms /\ form.name \in EditNames /\ form.avatar = page.form.avatar
    BY <1>0, EditOpen, EditTypes DEF EditForms
  <2>2. QED
    BY <1>2, <2>1, EditFormEdited
<1>3. ASSUME Edit!EditForm([page.form EXCEPT !.student = ~@]) PROVE EditInv'
  <2> DEFINE form == [page.form EXCEPT !.student = ~@]
  <2>1. form \in EditForms /\ form.name \in EditNames /\ form.avatar = page.form.avatar
    BY <1>0, EditOpen, EditTypes DEF EditForms
  <2>2. QED
    BY <1>3, <2>1, EditFormEdited
<1>4. ASSUME NEW skills \in EditSkills, Edit!EditForm([page.form EXCEPT !.skills = skills]) PROVE EditInv'
  <2> DEFINE form == [page.form EXCEPT !.skills = skills]
  <2>1. form \in EditForms /\ form.name \in EditNames /\ form.avatar = page.form.avatar
    BY <1>0, EditOpen, EditTypes DEF EditForms
  <2>2. QED
    BY <1>4, <2>1, EditFormEdited
<1>5. ASSUME Edit!EditForm([page.form EXCEPT !.skills = @ \union {"mine"}]) PROVE EditInv'
  <2>1. page.form.skills \union {"mine"} \in EditSkills
    BY <1>0, EditOpen DEF EditSkills
  <2>2. QED
    BY <1>4, <1>5, <2>1
<1>6. ASSUME NEW k, Edit!EditForm([page.form EXCEPT !.skills = @ \ {k}]) PROVE EditInv'
  <2>1. page.form.skills \ {k} \in EditSkills
    BY <1>0, EditOpen DEF EditSkills
  <2>2. QED
    BY <1>4, <1>6, <2>1
<1>7. QED
  BY <1>1, <1>2, <1>3, <1>5, <1>6 DEF Edit!Edit

LEMMA EditClicked == EditInv /\ ~page.left /\ Edit!Clicks => EditInv'
<1> SUFFICES ASSUME EditInv, ~page.left, Edit!Clicks PROVE EditInv'
  OBVIOUS
<1> USE DEF EditInv
<1>early. Edit!Early = IF \E c \in Busy : c.kind = "load" THEN {"overtaken"} ELSE {}
  BY EditOf DEF Edit!Early, Edit!If, Of
<1>1. CASE Edit!AddNamelessSkill
  <2>1. /\ page' = [page EXCEPT !.error = TRUE] /\ UNCHANGED <<server, calls, seen>>
    BY <1>1 DEF Edit!AddNamelessSkill
  <2>2. page' \in EditStates /\ page'.error /\ \A k \in DOMAIN page \ {"error"} : page'[k] = page[k]
    BY <2>1 DEF EditTyped, EditStates
  <2>3. QED
    BY <2>1, <2>2 DEF EditTyped, EditOnce, EditWaits, EditLoadsFirst, EditBefore, EditAfter, EditPictured, EditStates, Busy
<1>2. CASE Edit!ChooseAvatar
  <2> DEFINE u == Edit!OnlyAvatar("new")
             c == Edit!Request("upload", "own", None, u)
  <2>1. /\ Edit!Open /\ ~page.saving /\ ~page.uploading /\ Edit!Send(c)
        /\ page' = [page EXCEPT !.uploading = TRUE]
        /\ seen' = seen \union (IF \E d \in Busy : d.kind = "load" THEN {"overtaken"} ELSE {})
        /\ UNCHANGED server
    BY <1>2, <1>early DEF Edit!ChooseAvatar, Edit!CanPress, Edit!Saw
  <2>2. u \in EditUpdates /\ u = Edit!OnlyAvatar("new") /\ u.avatar = "new" /\ u.avatar # None
    BY EditPictureNames DEF Edit!OnlyAvatar, Edit!Unset, EditUpdates, EditLists
  <2> HIDE DEF u
  <2>3. Edit!Theirs \in EditRows /\ Edit!Theirs.avatar # None
    BY EditPictureNames DEF Edit!Theirs, EditRows, EditNames, EditSkills
  <2>4. c \in EditRequests /\ c.kind = "upload" /\ c.of = "own" /\ c.update = u /\ c.row = Edit!Theirs /\ c.stage = "sent"
    BY <2>2, <2>3 DEF Edit!Request, EditRequests
  <2> HIDE DEF c
  <2>5. page' \in EditStates /\ page'.uploading /\ \A k \in DOMAIN page \ {"uploading"} : page'[k] = page[k]
    BY <2>1 DEF EditTyped, EditStates
  <2>6. c \notin Busy
    BY <2>1, <2>4, EditOpen
  <2>7. /\ IsABag(calls)' /\ Busy' = Busy \union {c} /\ calls'[c] = 1 /\ \A d \in Busy : calls'[d] = calls[d]
    BY <2>1, <2>6, EditSent
  <2>8. EditTyped' /\ EditOnce' /\ EditWaits' /\ EditLoadsFirst' /\ EditPictured'
    BY <2>1, <2>2, <2>3, <2>4, <2>5, <2>7, EditOpen
       DEF EditTyped, EditOnce, EditWaits, EditLoadsFirst, EditPictured, EditStates
  <2>9. EditBefore' /\ EditAfter'
    BY <2>1, <2>4, <2>5, <2>7, EditOpen DEF EditTyped, EditBefore, EditAfter, EditStates
  <2>10. QED
    BY <2>8, <2>9
<1>3. CASE Edit!RemoveAvatar
  <2>1. /\ Edit!Open /\ ~page.saving /\ ~page.uploading
        /\ page' = [page EXCEPT !.form.avatar = None, !.loaded.avatar = "null", !.dirty = TRUE]
        /\ seen' = seen \union {"removed"}
        /\ UNCHANGED <<server, calls>>
    BY <1>3 DEF Edit!RemoveAvatar, Edit!CanPress, Edit!Saw
  <2> DEFINE form == [page.form EXCEPT !.avatar = None]
             loaded == [page.loaded EXCEPT !.avatar = "null"]
  <2>2. form \in EditForms /\ form.name = page.form.name
    BY <2>1, EditOpen, EditPictureNames DEF EditForms
  <2>3. loaded \in EditLoaded /\ loaded.name = page.loaded.name /\ loaded.avatar = "null"
    BY <2>1, EditOpen DEF EditLoaded
  <2>4. page' = [page EXCEPT !.form = form, !.loaded = loaded, !.dirty = TRUE]
    BY <2>1, EditOpen DEF EditTyped, EditStates, EditForms, EditLoaded
  <2> HIDE DEF form, loaded
  <2>5. /\ page' \in EditStates /\ page'.form = form /\ page'.loaded = loaded /\ page'.dirty
        /\ \A k \in DOMAIN page \ {"form", "loaded", "dirty"} : page'[k] = page[k]
    BY <2>2, <2>3, <2>4 DEF EditTyped, EditStates
  <2>6. EditTyped' /\ EditOnce' /\ EditWaits' /\ EditLoadsFirst' /\ EditPictured'
    BY <2>1, <2>2, <2>5, EditOpen DEF EditTyped, EditOnce, EditWaits, EditLoadsFirst, EditPictured, EditStates, Busy
  <2>7. EditBefore' /\ EditAfter'
    BY <2>1, <2>3, <2>5, EditOpen DEF EditTyped, EditBefore, EditAfter, EditStates, Busy
  <2>8. QED
    BY <2>6, <2>7
<1>4. CASE Edit!Cancel
  BY <1>4, EditLeft DEF Edit!Cancel
<1>5. CASE Edit!Submit
  <2> DEFINE w == Edit!Update
             u == Edit!GatewaySends(w)
             c == Edit!Request("save", "own", page.form, u)
  <2>1. /\ Edit!Open /\ ~page.saving /\ ~page.uploading /\ page.saves < MaxSaves /\ Edit!Send(c)
        /\ page' = [page EXCEPT !.saving = TRUE, !.success = FALSE, !.dirty = FALSE, !.saves = @ + 1]
        /\ seen' = seen \union (IF page.saves > 0 THEN {"again"} ELSE {})
                        \union (IF \E d \in Busy : d.kind = "load" THEN {"overtaken"} ELSE {})
        /\ UNCHANGED server
    BY <1>5, <1>early DEF Edit!Submit, Edit!CanPress, Edit!Saw, Edit!If
  <2>2. /\ w \in EditUpdates
        /\ w.name = (IF page.form.name # page.loaded.name THEN page.form.name ELSE "unset")
        /\ w.avatar = (IF page.form.avatar # page.loaded.avatar THEN page.form.avatar ELSE "unset")
        /\ w.teaches = IF page.form.mentor /\ page.form.skills # {} THEN <<page.form.skills>> ELSE <<>>
    <3>1. <<>> \in EditLists /\ <<page.form.skills>> \in EditLists
      BY <2>1, EditOpen DEF EditLists, EditSkills
    <3>2. page.loaded.mentor \in BOOLEAN /\ page.loaded.student \in BOOLEAN
      BY <2>1, EditOpen DEF EditLoaded
    <3>3. QED
      BY <2>1, <3>1, <3>2, EditOpen DEF Edit!Update, Edit!Changed, Edit!Unset, EditUpdates
  <2> HIDE DEF w
  <2>3. /\ u \in EditUpdates /\ u.name = w.name /\ u.avatar = w.avatar
        /\ u.teaches = <<IF page.form.mentor THEN page.form.skills ELSE {}>> /\ u.learns = <<{}>>
    <3> DEFINE t == IF w.teaches = <<>> THEN <<{}>> ELSE w.teaches
               l == <<{}>>
    <3>1. l \in EditLists /\ t \in EditLists
      BY <2>2 DEF EditLists, EditUpdates, EditSkills
    <3>2. u = [w EXCEPT !.learns = l, !.teaches = t]
      BY <2>2 DEF Edit!GatewaySends, EditUpdates
    <3> HIDE DEF u, t, l
    <3>3. u \in EditUpdates /\ u.name = w.name /\ u.avatar = w.avatar /\ u.learns = l /\ u.teaches = t
      BY <2>2, <3>1, <3>2 DEF EditUpdates
    <3>4. t = <<IF page.form.mentor THEN page.form.skills ELSE {}>>
      <4>1. CASE page.form.mentor /\ page.form.skills # {}
        <5>1. w.teaches = <<page.form.skills>> /\ w.teaches # <<>>
          BY <2>2, <4>1
        <5>2. QED
          BY <4>1, <5>1 DEF t
      <4>2. CASE ~(page.form.mentor /\ page.form.skills # {})
        <5>1. t = <<{}>>
          BY <2>2, <4>2 DEF t
        <5>2. (IF page.form.mentor THEN page.form.skills ELSE {}) = {}
          BY <4>2
        <5>3. QED
          BY <5>1, <5>2
      <4>3. QED
        BY <4>1, <4>2
    <3>5. QED
      BY <3>3, <3>4 DEF l
  <2> HIDE DEF u
  <2>4. Edit!Theirs \in EditRows /\ Edit!Theirs.avatar # None
    BY EditPictureNames DEF Edit!Theirs, EditRows, EditNames, EditSkills
  <2>5. /\ c \in EditRequests /\ c.kind = "save" /\ c.of = "own" /\ c.update = u /\ c.form = page.form
        /\ c.row = Edit!Theirs /\ c.stage = "sent"
    BY <2>1, <2>3, <2>4, EditTypes DEF Edit!Request, EditRequests
  <2> HIDE DEF c
  <2>6. page.saves + 1 \in 0..MaxSaves
    BY <2>1, EditTypes, PagesAssumption
  <2>7. /\ page' \in EditStates /\ page'.saving /\ ~page'.success /\ ~page'.dirty /\ page'.saves = page.saves + 1
        /\ \A k \in DOMAIN page \ {"saving", "success", "dirty", "saves"} : page'[k] = page[k]
    BY <2>1, <2>6 DEF EditTyped, EditStates
  <2>8. c \notin Busy
    BY <2>1, <2>5, EditOpen
  <2>9. /\ IsABag(calls)' /\ Busy' = Busy \union {c} /\ calls'[c] = 1 /\ \A d \in Busy : calls'[d] = calls[d]
    BY <2>1, <2>8, EditSent
  <2>10. EditTyped'
    BY <2>1, <2>3, <2>5, <2>7, <2>9, EditOpen DEF EditTyped, EditStates
  <2>11. EditOnce'
    <3>1. page.timers < page'.saves /\ page'.saves > 0 /\ ("again" \in seen' \/ page'.saves <= 1)
      BY <2>1, <2>7, EditTypes DEF EditOnce
    <3>2. QED
      BY <2>1, <2>5, <2>7, <2>9, <3>1, EditOpen DEF EditTyped, EditOnce, EditStates
  <2>12. EditWaits' /\ EditLoadsFirst'
    BY <2>1, <2>5, <2>7, <2>9, EditOpen DEF EditTyped, EditWaits, EditLoadsFirst, EditStates
  <2>13. EditBefore'
    BY <2>7, EditTypes DEF EditBefore
  <2>14. EditPictured'
    <3>1. "removed" \notin seen => u.avatar # None
      BY <2>1, <2>2, <2>3, EditOpen, EditPictureNames DEF EditPictured
    <3>2. QED
      BY <2>1, <2>4, <2>5, <2>7, <2>9, <3>1, EditOpen DEF EditPictured, EditTyped, EditStates
  <2>15. EditAfter'
    <3>1. SUFFICES ASSUME seen' \intersect {"overtaken", "changed", "again"} = {}
                   PROVE  EditAfter'
      BY DEF EditAfter
    <3>2. page.saves = 0 /\ (\A d \in Busy : d.kind # "load") /\ "changed" \notin seen /\ "overtaken" \notin seen
      BY <2>1, <3>1, EditTypes
    <3>3. page.loaded.name = server.own.name /\ page.loaded.avatar \in {server.own.avatar, "null"}
      BY <2>1, <3>2, EditOpen DEF EditBefore
    <3>4. page.form.name # "unset" /\ page.form.avatar # "unset" /\ page.form.avatar # "null"
      BY <2>1, EditOpen, PagesAssumption DEF EditPictures, EditNames
    <3>5. /\ Edit!Field(u.name, server.own.name) = page.form.name
          /\ Edit!Field(u.avatar, server.own.avatar) = page.form.avatar
      BY <2>2, <2>3, <3>3, <3>4 DEF Edit!Field, Edit!Unset
    <3>6. QED
      BY <2>1, <2>3, <2>5, <2>7, <2>9, <3>5, EditOpen DEF EditAfter, EditTyped, EditStates
  <2>16. QED
    BY <2>10, <2>11, <2>12, <2>13, <2>14, <2>15
<1>6. QED
  BY <1>1, <1>2, <1>3, <1>4, <1>5, EditEdited DEF Edit!Clicks

\* The profile is read, or updated.
LEMMA EditAnswers == ASSUME EditInv, NEW c \in Busy, Edit!Answers(c) PROVE EditInv'
<1> USE DEF EditInv
<1>0. c.stage = "sent" /\ UNCHANGED <<page, seen>> /\ c \in EditRequests
  BY EditTypes DEF Edit!Answers
<1>1. ASSUME c.kind = "load", UNCHANGED server,
             Edit!Turn(c, [c EXCEPT !.stage = "done", !.row = IF c.of = "own" THEN server.own ELSE Edit!Theirs])
      PROVE  EditInv'
  <2> DEFINE row == IF c.of = "own" THEN server.own ELSE Edit!Theirs
             d == [c EXCEPT !.stage = "done", !.row = row]
  <2>1. row \in EditRows /\ (c.of = "own" => row = server.own) /\ ("removed" \notin seen => row.avatar # None)
    BY EditTypes, EditPictureNames DEF EditPictured, Edit!Theirs, EditRows, EditNames, EditSkills
  <2> HIDE DEF row
  <2>2. /\ d \in EditRequests /\ d.kind = "load" /\ d.of = c.of /\ d.row = row /\ d.stage = "done" /\ d # c
        /\ Edit!Turn(c, d)
    BY <1>0, <1>1, <2>1 DEF EditRequests, row
  <2> HIDE DEF d
  <2>3. d \notin Busy
    BY <1>1, <2>2 DEF EditOnce
  <2>4. /\ IsABag(calls)' /\ Busy' = (Busy \ {c}) \union {d} /\ \A e \in Busy' : calls'[e] = 1
    BY <2>2, <2>3, EditTurned
  <2>5. EditTyped' /\ EditOnce' /\ EditWaits' /\ EditLoadsFirst' /\ EditPictured'
    BY <1>0, <1>1, <2>1, <2>2, <2>4 DEF EditTyped, EditOnce, EditWaits, EditLoadsFirst, EditPictured
  <2>6. EditBefore' /\ EditAfter'
    BY <1>0, <1>1, <2>1, <2>2, <2>4 DEF EditTyped, EditBefore, EditAfter
  <2>7. QED
    BY <2>5, <2>6
<1>2. ASSUME c.kind \in {"save", "upload"}, Edit!Turn(c, [c EXCEPT !.stage = "done"]),
             server' = [server EXCEPT !.own = Edit!UpdateProfile(@, c.update)]
      PROVE  EditInv'
  <2> DEFINE d == [c EXCEPT !.stage = "done"]
             row == Edit!UpdateProfile(server.own, c.update)
  <2>1. /\ d \in EditRequests /\ d.kind = c.kind /\ d.of = c.of /\ d.row = c.row /\ d.form = c.form /\ d.update = c.update
        /\ d.stage = "done" /\ d # c /\ Edit!Turn(c, d)
    BY <1>0, <1>2 DEF EditRequests
  <2> HIDE DEF d
  <2>2. d \notin Busy
    BY <1>2, <2>1 DEF EditOnce
  <2>3. /\ IsABag(calls)' /\ Busy' = (Busy \ {c}) \union {d} /\ \A e \in Busy' : calls'[e] = 1
    BY <2>1, <2>2, EditTurned
  <2>4. server.own \in EditRows /\ c.update \in EditUpdates
    BY <1>2, EditTypes DEF EditTyped
  <2>5. /\ row \in EditRows
        /\ row.name = Edit!Field(c.update.name, server.own.name)
        /\ row.avatar = Edit!Field(c.update.avatar, server.own.avatar)
        /\ c.update.teaches = <<>> => row.skills = server.own.skills
        /\ c.update.teaches # <<>> => row.skills = c.update.teaches[1] /\ row.mentor
        /\ c.update.learns # <<>> => row.student
        /\ c.update.teaches = <<>> /\ ~c.update.mentor => row.mentor = server.own.mentor
        /\ c.update.learns = <<>> /\ ~c.update.student => row.student = server.own.student
    BY <2>4, EditUpdated
  <2> HIDE DEF row
  <2>6. server' \in EditServer /\ server'.own = row
    BY <1>2, <2>5 DEF EditTyped, EditServer, row
  <2>7. "removed" \notin seen => row.avatar # None
    BY <1>2, <2>5 DEF EditPictured, Edit!Field
  <2>8. EditTyped' /\ EditOnce' /\ EditWaits' /\ EditLoadsFirst' /\ EditPictured'
    BY <1>0, <1>2, <2>1, <2>3, <2>6, <2>7 DEF EditTyped, EditOnce, EditWaits, EditLoadsFirst, EditPictured
  <2>9. CASE c.kind = "upload"
    <3>1. /\ c.update.name = "unset" /\ c.update.avatar = "new" /\ c.update.teaches = <<>> /\ c.update.learns = <<>>
          /\ ~c.update.mentor /\ ~c.update.student
      BY <2>9 DEF EditTyped, Edit!OnlyAvatar, Edit!Unset
    <3>2. /\ row.name = server.own.name /\ row.avatar = "new" /\ row.skills = server.own.skills
          /\ row.mentor = server.own.mentor /\ row.student = server.own.student
      BY <2>5, <3>1 DEF Edit!Field, Edit!Unset
    <3>3. EditAfter'
      BY <1>0, <2>1, <2>3, <2>9 DEF EditAfter
    <3>4. EditBefore'
      BY <1>0, <2>1, <2>3, <2>6, <2>9, <3>2 DEF EditBefore, EditLoadsFirst
    <3>5. QED
      BY <2>8, <3>3, <3>4
  <2>10. CASE c.kind = "save"
    <3>1. page.saves > 0
      BY <2>10, EditTypes DEF EditOnce
    <3>2. EditBefore'
      BY <1>0, <3>1, EditTypes DEF EditBefore
    <3>3. ASSUME Edit!Field(c.update.name, server.own.name) = c.form.name,
                 Edit!Field(c.update.avatar, server.own.avatar) = c.form.avatar,
                 c.update.teaches = <<IF c.form.mentor THEN c.form.skills ELSE {}>>, c.update.learns = <<{}>>
          PROVE  Stored(row, d.form)
      <4>1. row.name = c.form.name /\ row.avatar = c.form.avatar
        BY <2>5, <3>3
      <4>2. c.update.teaches # <<>> /\ c.update.learns # <<>>
        BY <3>3
      <4>3. c.update.teaches[1] = IF c.form.mentor THEN c.form.skills ELSE {}
        BY <3>3
      <4>4. QED
        BY <2>1, <2>5, <4>1, <4>2, <4>3 DEF Stored
    <3>4. EditAfter'
      BY <1>0, <2>1, <2>3, <2>6, <2>10, <3>3 DEF EditAfter, EditOnce, EditTyped, Stored
    <3>5. QED
      BY <2>8, <3>2, <3>4
  <2>11. QED
    BY <1>2, <2>9, <2>10
<1>3. QED
  BY <1>1, <1>2 DEF Edit!Answers

\* Another tab changes the profile.
LEMMA EditOthers == EditInv /\ Edit!OthersChange => EditInv'
<1> SUFFICES ASSUME EditInv, Edit!OthersChange PROVE EditInv'
  OBVIOUS
<1> USE DEF EditInv
<1>1. PICK n \in Names : server' = [server EXCEPT !.own.name = n, !.trouble = @ + 1]
  BY DEF Edit!OthersChange
<1> DEFINE row == [server.own EXCEPT !.name = n]
<1>2. row \in EditRows /\ row.avatar = server.own.avatar
  BY EditTypes DEF EditRows, EditNames
<1>3. server' = [server EXCEPT !.own = row, !.trouble = server.trouble + 1] /\ server.trouble + 1 \in Nat
  BY <1>1, EditTypes DEF EditTyped, EditServer
<1> HIDE DEF row
<1>4. server' \in EditServer /\ server'.own = row
  BY <1>2, <1>3, EditTypes DEF EditTyped, EditServer
<1>5. seen' = seen \union {"changed"} /\ UNCHANGED <<page, calls>>
  BY DEF Edit!OthersChange, Edit!Saw
<1>6. QED
  BY <1>2, <1>4, <1>5
     DEF EditTyped, EditOnce, EditWaits, EditLoadsFirst, EditBefore, EditAfter, EditPictured, Busy

\* Loading.
LEMMA EditTaken == ASSUME EditInv, ~page.left, NEW c \in Busy, Edit!Loaded(c) PROVE EditInv'
<1> USE DEF EditInv
<1> DEFINE loaded == [name |-> c.row.name, avatar |-> c.row.avatar, mentor |-> c.row.mentor, student |-> c.row.student]
           form == [name |-> c.row.name, avatar |-> c.row.avatar, mentor |-> c.row.mentor, student |-> c.row.student,
                    skills |-> IF c.row.skills # {} THEN c.row.skills ELSE page.form.skills]
<1>1. /\ c.kind = "load" /\ c.stage = "done" /\ Edit!End(c) /\ UNCHANGED server
      /\ page' = [page EXCEPT !.loaded = loaded, !.form = form, !.loading = FALSE, !.dirty = FALSE]
      /\ seen' = seen \union (IF c.of # "own" /\ {d \in Busy : d.kind = "load"} \ {c} = {} THEN {"overtaken"} ELSE {})
                      \union (IF c.row.skills = {} /\ page.form.skills # {} THEN {"kept"} ELSE {})
  BY EditOf DEF Edit!Loaded, Edit!Saw, Edit!If, Of
<1>2. loaded \in EditLoaded /\ loaded.name = c.row.name /\ loaded.avatar = c.row.avatar
  BY EditTypes DEF EditLoaded, EditRows
<1>3. /\ form \in EditForms /\ form.name = c.row.name /\ form.name \in EditNames /\ form.avatar = c.row.avatar
      /\ form.mentor = c.row.mentor /\ form.student = c.row.student
      /\ "kept" \notin seen' => form.skills = c.row.skills
  <2>1. c.row.skills \in EditSkills /\ page.form.skills \in EditSkills
    BY EditTypes DEF EditRows, EditForms
  <2>2. (IF c.row.skills # {} THEN c.row.skills ELSE page.form.skills) \in EditSkills
    BY <2>1
  <2>3. QED
    BY <1>1, <2>2, EditTypes DEF EditForms, EditRows
<1> HIDE DEF loaded, form
<1>4. /\ page' \in EditStates /\ page'.loaded = loaded /\ page'.form = form /\ ~page'.loading /\ ~page'.dirty
      /\ \A k \in DOMAIN page \ {"loaded", "form", "loading", "dirty"} : page'[k] = page[k]
  BY <1>1, <1>2, <1>3 DEF EditTyped, EditStates
<1>5. /\ IsABag(calls)' /\ Busy' = Busy \ {c} /\ \A d \in Busy' : calls'[d] = 1
  BY <1>1, EditEnded
<1>6. EditTyped' /\ EditOnce' /\ EditWaits' /\ EditLoadsFirst' /\ EditPictured'
  BY <1>1, <1>2, <1>3, <1>4, <1>5 DEF EditTyped, EditOnce, EditWaits, EditLoadsFirst, EditPictured, EditStates
<1>7. EditBefore'
  <2>1. "overtaken" \notin seen' /\ (\A d \in Busy' : d.kind = "load" => d.of # "own") => c.of = "own"
    BY <1>1, <1>5, EditTypes DEF EditOnce, EditRequests
  <2>2. QED
    BY <1>1, <1>2, <1>3, <1>4, <1>5, <2>1 DEF EditTyped, EditBefore, EditStates
<1>8. EditAfter'
  BY <1>1, <1>4 DEF EditAfter, EditLoadsFirst, EditTyped, EditStates
<1>9. QED
  BY <1>6, <1>7, <1>8

\* A request that fails puts an error in the place of the form.
LEMMA EditFails ==
  ASSUME EditInv, ~page.left, NEW c \in Busy, Edit!LoadFails(c) \/ Edit!AvatarFails(c) \/ Edit!SaveFails(c)
  PROVE  EditInv'
<1> USE DEF EditInv
<1>1. PICK f \in {"loading", "uploading", "saving"} :
        /\ c.kind = (CASE f = "loading" -> "load" [] f = "uploading" -> "upload" [] f = "saving" -> "save")
        /\ page' = [page EXCEPT ![f] = FALSE, !.error = TRUE]
        /\ Edit!Trouble(TRUE) /\ Edit!End(c) /\ UNCHANGED seen
  BY DEF Edit!LoadFails, Edit!AvatarFails, Edit!SaveFails
<1>2. /\ page' \in EditStates /\ page'.error /\ ~page'[f]
      /\ \A k \in DOMAIN page \ {f, "error"} : page'[k] = page[k]
  BY <1>1 DEF EditTyped, EditStates
<1>3. /\ IsABag(calls)' /\ Busy' = Busy \ {c} /\ \A d \in Busy' : calls'[d] = 1
  BY <1>1, EditEnded
<1>4. server' \in EditServer /\ server'.own = server.own
  BY <1>1, EditTrouble
<1>5. CASE f = "loading"
  <2>1. c.kind = "load" /\ ~page'.loading /\ page'.error /\ page' \in EditStates /\ UNCHANGED seen
        /\ \A k \in DOMAIN page \ {"loading", "error"} : page'[k] = page[k]
    BY <1>1, <1>2, <1>5
  <2>2. EditTyped' /\ EditOnce' /\ EditWaits' /\ EditLoadsFirst' /\ EditPictured'
    BY <1>3, <1>4, <2>1 DEF EditTyped, EditOnce, EditWaits, EditLoadsFirst, EditPictured, EditStates
  <2>3. EditBefore' /\ EditAfter'
    BY <1>3, <1>4, <2>1 DEF EditTyped, EditBefore, EditAfter, EditStates
  <2>4. QED
    BY <2>2, <2>3
<1>6. CASE f = "uploading"
  <2>1. c.kind = "upload" /\ ~page'.uploading /\ page'.error /\ page' \in EditStates /\ UNCHANGED seen
        /\ \A k \in DOMAIN page \ {"uploading", "error"} : page'[k] = page[k]
    BY <1>1, <1>2, <1>6
  <2>2. EditTyped' /\ EditOnce' /\ EditWaits' /\ EditLoadsFirst' /\ EditPictured'
    BY <1>3, <1>4, <2>1 DEF EditTyped, EditOnce, EditWaits, EditLoadsFirst, EditPictured, EditStates
  <2>3. EditBefore' /\ EditAfter'
    BY <1>3, <1>4, <2>1 DEF EditTyped, EditBefore, EditAfter, EditStates
  <2>4. QED
    BY <2>2, <2>3
<1>7. CASE f = "saving"
  <2>1. c.kind = "save" /\ ~page'.saving /\ page'.error /\ page' \in EditStates /\ UNCHANGED seen
        /\ \A k \in DOMAIN page \ {"saving", "error"} : page'[k] = page[k]
    BY <1>1, <1>2, <1>7
  <2>2. EditTyped' /\ EditOnce' /\ EditWaits' /\ EditLoadsFirst' /\ EditPictured'
    BY <1>3, <1>4, <2>1 DEF EditTyped, EditOnce, EditWaits, EditLoadsFirst, EditPictured, EditStates
  <2>3. EditBefore' /\ EditAfter'
    BY <1>3, <1>4, <2>1 DEF EditTyped, EditBefore, EditAfter, EditStates
  <2>4. QED
    BY <2>2, <2>3
<1>8. QED
  BY <1>5, <1>6, <1>7

LEMMA EditAvatarUploaded == ASSUME EditInv, ~page.left, NEW c \in Busy, Edit!AvatarUploaded(c) PROVE EditInv'
<1> USE DEF EditInv
<1>1. /\ c.kind = "upload" /\ c.stage = "done" /\ Edit!End(c) /\ UNCHANGED <<server, seen>>
      /\ page' = [page EXCEPT !.form.avatar = "new", !.loaded.avatar = "new", !.uploading = FALSE, !.dirty = TRUE]
  BY DEF Edit!AvatarUploaded
<1> DEFINE form == [page.form EXCEPT !.avatar = "new"]
           loaded == [page.loaded EXCEPT !.avatar = "new"]
<1>2. page.loaded \in EditLoaded /\ page.form.name \in EditNames
  BY <1>1 DEF EditOnce
<1>3. form \in EditForms /\ form.name = page.form.name /\ form.avatar = "new"
  BY EditTypes, EditPictureNames DEF EditForms
<1>4. loaded \in EditLoaded /\ loaded.name = page.loaded.name /\ loaded.avatar = "new"
  BY <1>2, EditPictureNames DEF EditLoaded
<1>5. page' = [page EXCEPT !.form = form, !.loaded = loaded, !.uploading = FALSE, !.dirty = TRUE]
  BY <1>1 DEF EditTyped, EditStates
<1> HIDE DEF form, loaded
<1>6. /\ page' \in EditStates /\ page'.form = form /\ page'.loaded = loaded /\ ~page'.uploading /\ page'.dirty
      /\ \A k \in DOMAIN page \ {"form", "loaded", "uploading", "dirty"} : page'[k] = page[k]
  BY <1>3, <1>4, <1>5 DEF EditTyped, EditStates
<1>7. /\ IsABag(calls)' /\ Busy' = Busy \ {c} /\ \A d \in Busy' : calls'[d] = 1
  BY <1>1, EditEnded
<1>8. form.name \in EditNames
  BY <1>2, <1>3
<1>9. EditTyped' /\ EditOnce' /\ EditWaits' /\ EditLoadsFirst' /\ EditPictured'
  BY <1>1, <1>3, <1>4, <1>6, <1>7, <1>8, EditPictureNames
     DEF EditTyped, EditOnce, EditWaits, EditLoadsFirst, EditPictured, EditStates
<1>10. EditBefore' /\ EditAfter'
  BY <1>1, <1>2, <1>3, <1>4, <1>6, <1>7, <1>8 DEF EditTyped, EditBefore, EditAfter, EditStates
<1>11. QED
  BY <1>9, <1>10

LEMMA EditSaved == ASSUME EditInv, ~page.left, NEW c \in Busy, Edit!Saved(c) PROVE EditInv'
<1> USE DEF EditInv
<1> DEFINE user == [name |-> c.form.name, avatar |-> IF c.form.avatar = None THEN page.user.avatar ELSE c.form.avatar]
<1>1. /\ c.kind = "save" /\ c.stage = "done" /\ Edit!End(c) /\ UNCHANGED <<server, seen>>
      /\ page' = [page EXCEPT !.saving = FALSE, !.success = TRUE, !.timers = @ + 1, !.user = user]
  BY DEF Edit!Saved, EditTyped, EditStates
<1>2. user \in EditUsers /\ user.name = c.form.name /\ (c.form.avatar # None => user.avatar = c.form.avatar)
  BY <1>1, EditTypes DEF EditTyped, EditUsers, EditForms
<1> HIDE DEF user
<1>3. page.timers + 1 \in 0..MaxSaves /\ page.timers + 1 <= page.saves /\ page.saves > 0
  BY <1>1, EditTypes, PagesAssumption DEF EditOnce
<1>4. /\ page' \in EditStates /\ ~page'.saving /\ page'.success /\ page'.timers = page.timers + 1 /\ page'.user = user
      /\ \A k \in DOMAIN page \ {"saving", "success", "timers", "user"} : page'[k] = page[k]
  BY <1>1, <1>2, <1>3 DEF EditTyped, EditStates
<1>5. /\ IsABag(calls)' /\ Busy' = Busy \ {c} /\ \A d \in Busy' : calls'[d] = 1
  BY <1>1, EditEnded
<1>6. \A d \in Busy' : d.kind # "save"
  BY <1>1, <1>5 DEF EditOnce, EditTyped
<1>7. EditTyped' /\ EditWaits' /\ EditLoadsFirst' /\ EditPictured'
  BY <1>1, <1>4, <1>5, <1>6 DEF EditTyped, EditWaits, EditLoadsFirst, EditPictured, EditStates
<1>8. EditOnce'
  BY <1>1, <1>3, <1>4, <1>5, <1>6 DEF EditTyped, EditOnce, EditStates
<1>9. EditBefore'
  BY <1>3, <1>4, EditTypes DEF EditBefore, EditTyped, EditStates
<1>10. EditAfter'
  BY <1>1, <1>2, <1>3, <1>4, <1>5, <1>6 DEF EditAfter, EditPictured, EditTyped, EditStates, Stored
<1>11. QED
  BY <1>7, <1>8, <1>9, <1>10

LEMMA EditStep == EditInv /\ Edit!Next => EditInv'
<1> SUFFICES ASSUME EditInv, Edit!Next PROVE EditInv'
  OBVIOUS
<1>1. CASE ~page.left /\ Edit!OthersChange
  BY <1>1, EditOthers
<1>2. CASE ~page.left /\ Edit!Clicks
  BY <1>2, EditClicked
<1>3. CASE Edit!TimerFires
  BY <1>3, EditLeft DEF Edit!TimerFires
<1>4. ASSUME NEW c \in Busy, ~page.left, Edit!Takes(c) PROVE EditInv'
  BY <1>4, EditTaken, EditFails, EditAvatarUploaded, EditSaved DEF Edit!Takes
<1>5. ASSUME NEW c \in Busy, Edit!Answers(c) PROVE EditInv'
  BY <1>5, EditAnswers
<1>6. QED
  BY <1>1, <1>2, <1>3, <1>4, <1>5, EditCalls DEF Edit!Next


(***************************************************************************)
(* The dashboard.                                                          *)
(***************************************************************************)

LEMMA DashboardCalls ==
  /\ Dashboard!Busy = Busy
  /\ \A c : Dashboard!Send(c) => Added(c)
  /\ \A c : Dashboard!End(c) <=> End(c)
  /\ \A c, d : Dashboard!Turn(c, d) <=> Turn(c, d)
  /\ \A c : Dashboard!Only(c) = Only(c)
BY DEF Dashboard!Busy, Dashboard!BagToSet, Busy, BagToSet, Dashboard!Send, Dashboard!End, Dashboard!Turn, Dashboard!Only,
       Dashboard!(+), Dashboard!(-), Dashboard!SetToBag, Added, End, Turn, Only, SetToBag, (+), (-)

DashboardStates == [loads : 1..MaxLoads, shown : [number : 0..MaxLoads, whole : BOOLEAN], loading : BOOLEAN]
DashboardServer == [trouble : Nat]
DashboardRequests == [kind : {"load"}, number : 1..MaxLoads, stage : {"figures", "counts"},
                      aborted : BOOLEAN, whole : BOOLEAN]

DashboardTyped ==
  /\ IsABag(calls) /\ Busy \subseteq DashboardRequests
  /\ page \in DashboardStates /\ server \in DashboardServer
  /\ seen \subseteq {"failed"}

Whole(x) == x.whole \/ "failed" \in seen

\* One load is not aborted, the last one, and it has everything unless a request
\* failed; once no load is left the page shows it.
Live == {c \in Busy : ~c.aborted}
LastLoad ==
  /\ \A c \in Live : c.number = page.loads /\ Whole(c) /\ calls[c] = 1 /\ \A d \in Live : c = d
  /\ IF Busy = {} THEN page.shown.number = page.loads /\ Whole(page.shown) /\ ~page.loading ELSE Live # {}

DashboardInv == DashboardTyped /\ LastLoad

LEMMA DashboardInit == Dashboard!Init => DashboardInv
<1> SUFFICES ASSUME Dashboard!Init PROVE DashboardInv
  OBVIOUS
<1>1. calls = Only(Dashboard!Load(1)) /\ seen = {} /\ server = [trouble |-> 0]
      /\ page = [loads |-> 1, shown |-> [number |-> 0, whole |-> FALSE], loading |-> TRUE]
  BY DashboardCalls DEF Dashboard!Init
<1>2. IsABag(calls) /\ Busy = {Dashboard!Load(1)} /\ calls[Dashboard!Load(1)] = 1
  BY <1>1 DEF Only, SetToBag, IsABag, Busy, BagToSet
<1>3. Dashboard!Load(1) = [kind |-> "load", number |-> 1, stage |-> "figures", aborted |-> FALSE, whole |-> TRUE]
  BY DEF Dashboard!Load
<1>4. 1 \in 1..MaxLoads /\ 0 \in 0..MaxLoads
  BY PagesAssumption
<1>5. page \in DashboardStates
  <2>1. [number |-> 0, whole |-> FALSE] \in [number : 0..MaxLoads, whole : BOOLEAN]
    BY <1>4
  <2>2. QED
    BY <1>1, <1>4, <2>1 DEF DashboardStates
<1>6. DashboardTyped
  <2>1. Dashboard!Load(1) \in DashboardRequests
    BY <1>4 DEF Dashboard!Load, DashboardRequests
  <2>2. server \in DashboardServer
    BY <1>1 DEF DashboardServer
  <2>3. QED
    BY <1>1, <1>2, <1>5, <2>1, <2>2 DEF DashboardTyped
<1>7. page.loads = 1
  BY <1>1
<1>8. LastLoad
  BY <1>2, <1>3, <1>7 DEF LastLoad, Live, Whole
<1>9. QED
  BY <1>6, <1>8 DEF DashboardInv

LEMMA DashboardImplies ==
  ASSUME DashboardInv
  PROVE  Dashboard!TypeOK /\ Dashboard!BusyHasRequest /\ Dashboard!DashboardIsLast
<1> USE DEF DashboardInv
<1>1. page.shown \in [number : 0..MaxLoads, whole : BOOLEAN] /\ page.loads \in 1..MaxLoads /\ page.loading \in BOOLEAN
  BY DEF DashboardTyped, DashboardStates
<1>2. Dashboard!TypeOK
  BY <1>1 DEF DashboardTyped, Dashboard!TypeOK
<1>3. Dashboard!BusyHasRequest /\ Dashboard!DashboardIsLast
  BY DashboardCalls DEF LastLoad, Whole, Dashboard!BusyHasRequest, Dashboard!DashboardIsLast
<1>4. QED
  BY <1>2, <1>3

LEMMA DashboardStep == DashboardInv /\ Dashboard!Next => DashboardInv'
<1> SUFFICES ASSUME DashboardInv, Dashboard!Next PROVE DashboardInv'
  OBVIOUS
<1> USE DEF DashboardInv, DashboardTyped, Live
<1>0. \A c \in Busy : /\ c.number \in 1..MaxLoads /\ c.aborted \in BOOLEAN /\ c.whole \in BOOLEAN
                      /\ c.stage \in {"figures", "counts"}
  BY DEF DashboardRequests
<1>p. page.loads \in 1..MaxLoads /\ page.shown \in [number : 0..MaxLoads, whole : BOOLEAN] /\ page.loading \in BOOLEAN
  BY DEF DashboardStates
\* Aborted loads are answered first.
<1>1. ASSUME NEW c \in Busy, c.aborted \/ Live = Busy, Dashboard!FiguresAnswered(c)
      PROVE  DashboardInv'
  <2>1. PICK fails \in BOOLEAN :
          /\ c.stage = "figures" /\ UNCHANGED page /\ Turn(c, [c EXCEPT !.stage = "counts", !.whole = Dashboard!Part(c, fails)])
          /\ server' = [server EXCEPT !.trouble = IF fails THEN @ + 1 ELSE @]
          /\ seen' = seen \union (IF fails THEN {"failed"} ELSE {})
    BY <1>1, DashboardCalls DEF Dashboard!FiguresAnswered, Dashboard!Fails, Dashboard!Trouble, Dashboard!Saw, Dashboard!If
  <2>2. Dashboard!Part(c, fails) = (c.whole /\ ~fails /\ ~c.aborted) /\ Dashboard!Part(c, fails) \in BOOLEAN
    BY DEF Dashboard!Part
  <2> DEFINE d == [c EXCEPT !.stage = "counts", !.whole = Dashboard!Part(c, fails)]
  <2>3. /\ d \in DashboardRequests /\ d.stage = "counts" /\ d.aborted = c.aborted /\ d.number = c.number
        /\ d.whole = (c.whole /\ ~fails /\ ~c.aborted)
    BY <2>2 DEF DashboardRequests
  <2>4. Turn(c, d) /\ d # c
    BY <2>1, <2>3
  <2> HIDE DEF d
  <2>5. /\ IsABag(calls)' /\ d \in Busy' /\ Busy' \subseteq Busy \union {d} /\ Busy \ {c} \subseteq Busy'
        /\ calls[c] = 1 => c \notin Busy'
        /\ \A e \in Busy \ {c, d} : calls'[e] = calls[e]
        /\ d \notin Busy => calls'[d] = 1
    BY <2>4, TurnedCall
  <2>6. server' \in DashboardServer
    BY <2>1 DEF DashboardServer
  <2>7. DashboardTyped'
    BY <2>1, <2>3, <2>5, <2>6
  <2>8. LastLoad'
    <3>1. \A x : Whole(x) => Whole(x)'
      BY <2>1 DEF Whole
    <3>2. CASE c.aborted
      <4>1. Live' = Live /\ \A e \in Live : calls'[e] = calls[e]
        BY <2>3, <2>5, <3>2
      <4>2. QED
        BY <2>1, <2>5, <4>1 DEF LastLoad, Whole
    <3>3. CASE ~c.aborted
      <4>1. Live = {c} /\ calls[c] = 1 /\ c.number = page.loads /\ Whole(c)
        BY <3>3 DEF LastLoad
      <4>2. d \notin Busy
        BY <2>3, <2>4, <3>3, <4>1
      <4>3. Live' = {d} /\ calls'[d] = 1
        BY <2>3, <2>5, <3>3, <4>1, <4>2
      <4>4. Whole(d)'
        BY <2>1, <2>3, <3>3, <4>1 DEF Whole
      <4>5. QED
        BY <2>1, <2>3, <2>5, <4>1, <4>3, <4>4 DEF LastLoad, Whole
    <3>4. QED
      BY <3>2, <3>3
  <2>9. QED
    BY <2>7, <2>8
<1>2. ASSUME NEW c \in Busy, c.aborted \/ Live = Busy, Dashboard!CountsAnswered(c)
      PROVE  DashboardInv'
  <2>1. PICK fails \in BOOLEAN :
          /\ c.stage = "counts" /\ End(c)
          /\ page' = [page EXCEPT !.shown = [number |-> c.number, whole |-> Dashboard!Part(c, fails)], !.loading = FALSE]
          /\ server' = [server EXCEPT !.trouble = IF fails THEN @ + 1 ELSE @]
          /\ seen' = seen \union (IF fails THEN {"failed"} ELSE {})
    BY <1>2, DashboardCalls DEF Dashboard!CountsAnswered, Dashboard!Fails, Dashboard!Trouble, Dashboard!Saw, Dashboard!If
  <2>2. Dashboard!Part(c, fails) = (c.whole /\ ~fails /\ ~c.aborted) /\ Dashboard!Part(c, fails) \in BOOLEAN
    BY DEF Dashboard!Part
  <2> DEFINE shown == [number |-> c.number, whole |-> Dashboard!Part(c, fails)]
  <2>3. shown \in [number : 0..MaxLoads, whole : BOOLEAN] /\ shown.number = c.number /\ shown.whole = (c.whole /\ ~fails /\ ~c.aborted)
    BY <1>0, <2>2
  <2>4. page' = [page EXCEPT !.shown = shown, !.loading = FALSE]
    BY <2>1
  <2> HIDE DEF shown
  <2>5. page' \in DashboardStates /\ page'.shown = shown /\ ~page'.loading /\ page'.loads = page.loads
    BY <2>3, <2>4 DEF DashboardStates
  <2>6. /\ IsABag(calls)' /\ Busy' \subseteq Busy /\ Busy \ {c} \subseteq Busy'
        /\ calls[c] = 1 => c \notin Busy'
        /\ \A e \in Busy \ {c} : calls'[e] = calls[e]
    BY <2>1, EndedCall
  <2>7. server' \in DashboardServer
    BY <2>1 DEF DashboardServer
  <2>8. DashboardTyped'
    BY <2>1, <2>5, <2>6, <2>7
  <2>9. LastLoad'
    <3>1. CASE c.aborted
      <4>1. Live' = Live /\ (\A e \in Live : calls'[e] = calls[e]) /\ Live # {}
        BY <2>6, <3>1 DEF LastLoad
      <4>2. QED
        BY <2>1, <2>5, <4>1 DEF LastLoad, Whole
    <3>2. CASE ~c.aborted
      <4>1. Busy = {c} /\ calls[c] = 1 /\ c.number = page.loads /\ Whole(c)
        BY <1>2, <3>2 DEF LastLoad
      <4>2. Busy' = {}
        BY <2>6, <4>1
      <4>3. Whole(shown)'
        BY <2>1, <2>3, <3>2, <4>1 DEF Whole
      <4>4. QED
        BY <2>3, <2>5, <4>1, <4>2, <4>3 DEF LastLoad, Whole
    <3>3. QED
      BY <3>1, <3>2
  <2>10. QED
    BY <2>8, <2>9
<1>3. CASE Dashboard!TokenRenewed
  <2> DEFINE c == Dashboard!Load(page.loads + 1)
             aborted == {[e EXCEPT !.aborted = TRUE] : e \in Busy}
  <2>1. /\ page.loads < MaxLoads /\ UNCHANGED <<server, seen>>
        /\ page' = [page EXCEPT !.loads = @ + 1, !.loading = TRUE]
        /\ calls' = SetToBag(aborted \union {c})
    BY <1>3, DashboardCalls DEF Dashboard!TokenRenewed, Dashboard!Aborted, Dashboard!SetToBag, SetToBag
  <2>2. page.loads + 1 \in 1..MaxLoads
    BY <1>p, <2>1, PagesAssumption
  <2>3. c \in DashboardRequests /\ c.number = page.loads + 1 /\ ~c.aborted /\ c.whole
    BY <2>2 DEF Dashboard!Load, DashboardRequests
  <2>4. \A e \in aborted : e \in DashboardRequests /\ e.aborted
    BY DEF DashboardRequests
  <2> HIDE DEF c, aborted
  <2>5. IsABag(calls)' /\ Busy' = aborted \union {c} /\ calls'[c] = 1
    BY <2>1 DEF SetToBag, IsABag, Busy, BagToSet
  <2>6. page' \in DashboardStates /\ page'.loads = page.loads + 1
    BY <2>1, <2>2 DEF DashboardStates
  <2>7. Live' = {c}
    BY <2>3, <2>4, <2>5
  <2>8. QED
    BY <2>1, <2>3, <2>4, <2>5, <2>6, <2>7 DEF LastLoad, Whole
<1>4. QED
  <2>1. CASE \E c \in Busy : c.aborted
    BY <1>1, <1>2, <2>1, DashboardCalls DEF Dashboard!Next
  <2>2. CASE ~\E c \in Busy : c.aborted
    <3>1. Live = Busy
      BY <1>0, <2>2
    <3>2. QED
      BY <1>1, <1>2, <1>3, <2>2, <3>1, DashboardCalls DEF Dashboard!Next
  <2>3. QED
    BY <2>1, <2>2

(***************************************************************************)
(* The pages together.                                                     *)
(***************************************************************************)

LEMMA SlotsStays == SlotsInv /\ UNCHANGED vars => SlotsInv'
BY DEF SlotsInv, SlotsFresh, Creating, Busy, Coming, Posts, SlotsBusy, Changing, SlotsTyped, SlotsServer,
       SlotsStates, SlotsRequests, SlotsLists, BagToSet, vars, Slots!Accepts, Slots!Ids, Slots!Slot

LEMMA PaymentsStays == PaymentsInv /\ UNCHANGED vars => PaymentsInv'
<1> SUFFICES ASSUME PaymentsInv, page' = page, server' = server, calls' = calls, seen' = seen PROVE PaymentsInv'
  BY DEF vars
<1> USE DEF PaymentsInv, Busy, BagToSet
<1>1. PaymentsTyped' /\ OneMarking' /\ PaymentsFresh'
  BY DEF PaymentsTyped, OneMarking, Marking, PaymentsFresh
<1>2. Payments!BusyHasRequest'
  BY DEF Payments!BusyHasRequest, Payments!Loads, Payments!Of, Payments!Busy, Payments!BagToSet
<1>3. QED
  BY <1>1, <1>2

LEMMA CourseStays == CourseInv /\ UNCHANGED vars => CourseInv'
BY DEF CourseInv, CourseNewest, Busy, CourseRests, CourseStatus, CourseHeart, CourseWaits, RatesOf, CourseRated,
       CourseFits, Raters, CourseTyped, CourseServer, CourseStates, CourseNames, CourseRates, CourseWrites,
       CourseRatings, CourseLists, CourseLoads, CourseReads, BagToSet, vars, Course!Statuses

LEMMA FormStays == FormInv /\ UNCHANGED vars => FormInv'
<1> SUFFICES ASSUME FormInv, page' = page, server' = server, calls' = calls, seen' = seen PROVE FormInv'
  BY DEF vars
<1> USE DEF FormInv, Busy, BagToSet
<1>1. FormTyped' /\ FormLoads'
  BY DEF FormTyped, FormLoads, Asked
<1>2. FormSaves' /\ FormSends'
  BY DEF FormSaves, FormSends, Calm, Saving, Sending, Attaching
<1>3. FormPictures' /\ FormLeaves'
  BY DEF FormPictures, FormLeaves, Calm, Saving, Sending, Attaching, Chosen, Sent
<1>4. QED
  BY <1>1, <1>2, <1>3

LEMMA CoursesStays == CoursesInv /\ UNCHANGED vars => CoursesInv'
BY DEF CoursesInv, CoursesAsked, Busy, CoursesOffsets, Offsets, CoursesTyped, CoursesServer, CoursesStates,
       CoursesTokens, CoursesRequests, BagToSet, vars, Courses!Pages

LEMMA ProfileStays == ProfileInv /\ UNCHANGED vars => ProfileInv'
BY DEF ProfileInv, LoadingHasLoad, Busy, CheckedOnce, ChatWithUser, ProfileComes, ProfileTyped, ProfileServer,
       ProfileStates, ProfileRequests, BagToSet, vars, Profile!Users

LEMMA EditStays == EditInv /\ UNCHANGED vars => EditInv'
<1> SUFFICES ASSUME EditInv, page' = page, server' = server, calls' = calls, seen' = seen PROVE EditInv'
  BY DEF vars
<1> USE DEF EditInv, Busy, BagToSet
<1>1. EditTyped' /\ EditOnce'
  BY DEF EditTyped, EditOnce
<1>2. EditWaits' /\ EditLoadsFirst' /\ EditPictured'
  BY DEF EditWaits, EditLoadsFirst, EditPictured
<1>3. EditBefore'
  BY DEF EditBefore
<1>4. EditAfter'
  BY DEF EditAfter, Stored
<1>5. QED
  BY <1>1, <1>2, <1>3, <1>4

LEMMA DashboardStays == DashboardInv /\ UNCHANGED vars => DashboardInv'
BY DEF DashboardInv, LastLoad, Live, Busy, Whole, DashboardTyped, DashboardServer, DashboardStates,
       DashboardRequests, BagToSet, vars

\* Each page has its invariant, while it is the one mounted.
PagesInv ==
  /\ route \in {"slots", "payments", "course", "form", "courses", "profile", "edit", "dashboard"}
  /\ route = "slots" => SlotsInv
  /\ route = "payments" => PaymentsInv
  /\ route = "course" => CourseInv
  /\ route = "form" => FormInv
  /\ route = "courses" => CoursesInv
  /\ route = "profile" => ProfileInv
  /\ route = "edit" => EditInv
  /\ route = "dashboard" => DashboardInv

LEMMA PagesInit == Init => PagesInv
BY SlotsInit, PaymentsInit, CourseInit, FormInit, CoursesInit, ProfileInit, EditInit, DashboardInit DEF Init, PagesInv

LEMMA PagesStep == PagesInv /\ [Next]_routed => PagesInv'
<1> SUFFICES ASSUME PagesInv, [Next]_routed PROVE PagesInv'
  OBVIOUS
<1>1. CASE Next
  BY <1>1, SlotsStep, PaymentsStep, CourseStep, FormStep, CoursesStep, ProfileStep, EditStep, DashboardStep
     DEF Next, PagesInv
<1>2. CASE UNCHANGED routed
  BY <1>2, SlotsStays, PaymentsStays, CourseStays, FormStays, CoursesStays, ProfileStays, EditStays, DashboardStays
     DEF routed, PagesInv
<1>3. QED
  BY <1>1, <1>2

\* Whatever page is mounted, its invariant holds in every state: it ties what
\* the page shows to the requests under way, to what they have read, and to the
\* rows of the server.
THEOREM PagesInvariant == Spec => []PagesInv
<1>1. QED
  BY PagesInit, PagesStep, PTL DEF Spec

\* The state of every page has its type, for any number of rows, requests and
\* failures.
THEOREM PagesTypeCorrect == Spec => []TypeOK
<1>1. PagesInv => TypeOK
  BY SlotsImplies, PaymentsImplies, CourseImplies, FormImplies, CoursesImplies, ProfileImplies, EditImplies,
     DashboardImplies DEF PagesInv, TypeOK
<1>2. QED
  BY <1>1, PagesInvariant, PTL

\* The finally blocks and the state that disables a button: on every page a
\* spinner or a disabled button has a request under way that will end it.
THEOREM BusyPagesHaveRequests == Spec => []BusyHasRequest
<1>1. PagesInv => BusyHasRequest
  BY SlotsImplies, PaymentsImplies, CourseImplies, FormImplies, CoursesImplies, ProfileImplies, EditImplies,
     DashboardImplies DEF PagesInv, BusyHasRequest
<1>2. QED
  BY <1>1, PagesInvariant, PTL

\* fetchSlots, fetchPayments, loadCourse and loadRatings, the previews of the
\* picture, fetchCourses, loadProfile and the loads of the dashboard: a page at
\* rest shows what the server has, unless one of the named causes has occurred.
THEOREM ScreensAreTrue == Spec => []ScreenIsTrue
<1>1. PagesInv => ScreenIsTrue
  BY SlotsImplies, PaymentsImplies, CourseImplies, FormImplies, CoursesImplies, ProfileImplies, EditImplies,
     DashboardImplies DEF PagesInv, ScreenIsTrue
<1>2. QED
  BY <1>1, PagesInvariant, PTL

\* The submit handlers of the two forms: what is said to be saved is what the
\* form shows, through every order of the requests for the text and the picture.
THEOREM SavedFormsAreTrue == Spec => []SavedIsTrue
<1>1. PagesInv => SavedIsTrue
  BY FormImplies, EditImplies DEF PagesInv, SavedIsTrue
<1>2. QED
  BY <1>1, PagesInvariant, PTL

\* The guards that disable a button while its request is under way: a slot is
\* changed, a session marked, a course made and a chat opened once, but for the
\* causes that the properties name.
THEOREM AskedOnceDoneOnce == Spec => []DoneOnce
<1>1. PagesInv => DoneOnce
  BY SlotsImplies, PaymentsImplies, FormImplies, ProfileImplies DEF PagesInv, DoneOnce
<1>2. QED
  BY <1>1, PagesInvariant, PTL

\* checkSlotOverlap and the trigger of the table agree: a slot is refused only
\* when the page compared it with a stale list.
THEOREM RefusalsAreStale == Spec => []RefusedOnlyWhenStale
<1>1. PagesInv => RefusedOnlyWhenStale
  BY SlotsImplies DEF PagesInv, RefusedOnlyWhenStale
<1>2. QED
  BY <1>1, PagesInvariant, PTL
=============================================================================
