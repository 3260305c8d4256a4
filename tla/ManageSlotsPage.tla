-------------------------- MODULE ManageSlotsPage --------------------------
(***************************************************************************)
(* The page on which a mentor manages the slots of a course.               *)
(*                                                                         *)
(* Time is a row of days; a slot starts on one and lasts one or two.       *)
(* Other actors are students who book and the mentor's other windows.      *)
(* The panel of sessions above the grid is in PaymentsPanel.               *)
(***************************************************************************)
EXTENDS WebPage

CONSTANTS Days, MaxSlots    \* bound on the slots ever made

Ids == 1..MaxSlots
Slot == [id : Ids, start : Days, len : {1, 2}, status : {"available", "booked", "closed"}, mine : BOOLEAN]

\* Mutant: a slot that ends together with another is not found to overlap.
OverlapsEnds(s, t) ==
  \/ s.start >= t.start /\ s.start < t.start + t.len
  \/ s.start <= t.start /\ s.start + s.len > t.start + t.len

\* checkSlotOverlap: begins inside, ends inside, or encloses.
Overlaps(s, t) ==
  LET sEnd == s.start + s.len
      tEnd == t.start + t.len
  IN \/ s.start >= t.start /\ s.start < tEnd
     \/ sEnd > t.start /\ sEnd <= tEnd
     \/ s.start <= t.start /\ sEnd >= tEnd

\* The trigger of the table: no two open slots of a mentor overlap.
Accepts(s) ==
  \A t \in server.slots : t.status # "closed" => t.start + t.len <= s.start \/ s.start + s.len <= t.start

Room == server.made + Cardinality(Of({"create"})) < MaxSlots

(***************************************************************************)
(* The screen.  The dialog covers the page; while slots are loaded the     *)
(* grid gives way to a spinner, the dialog stays.                          *)
(***************************************************************************)

Grid == IF page.loading \/ page.dialog # None THEN {} ELSE page.slots

\* Mutant: the buttons of the slot that is being changed stay.
ActionableAlways(s) == s \in Grid /\ s.status = "available"

Actionable(s) == s \in Grid /\ s.status = "available" /\ page.updating # s.id
CanOpen == ~page.loading /\ page.dialog = None
CanSubmit == page.dialog # None /\ ~page.creating

(***************************************************************************)
(* The server.                                                             *)
(***************************************************************************)

Reads(c) ==
  /\ \E x \in c.asked :
       Turn(c, [c EXCEPT !.asked = @ \ {x},
                         !.lists = [y \in DOMAIN @ \union {x} |-> IF y = x THEN server.slots ELSE @[y]]])
  /\ UNCHANGED <<page, server, seen>>

Creates(c) ==
  /\ c.kind = "create" /\ c.stage = "sent"
  /\ LET s == [c.slot EXCEPT !.id = server.made + 1] IN
     IF Accepts(s)
     THEN /\ Turn(c, [c EXCEPT !.stage = "done"])
          /\ server' = [server EXCEPT !.slots = @ \union {s}, !.made = @ + 1]
     ELSE Turn(c, [c EXCEPT !.stage = "refused"]) /\ UNCHANGED server
  /\ UNCHANGED <<page, seen>>

\* The status is set, or the row deleted, whatever its status.
Changes(c) ==
  /\ c.kind \in {"status", "delete"} /\ c.stage = "sent"
  /\ LET rows == {s \in server.slots : s.id = c.slot.id}
         closed == {[s EXCEPT !.status = "closed"] : s \in rows}
     IN /\ Turn(c, [c EXCEPT !.stage = IF rows = {} THEN "refused" ELSE "done"])
        /\ server' = [server EXCEPT !.slots =
                        (@ \ rows) \union (IF c.kind = "status" THEN closed ELSE {})]
  /\ UNCHANGED <<page, seen>>

\* A student books, or another window of the mentor makes or deletes a slot.
OthersChange ==
  /\ server.trouble < MaxTrouble
  /\ \/ \E s \in server.slots :
          \/ /\ s.status = "available"
             /\ server' = [server EXCEPT !.trouble = @ + 1,
                             !.slots = (@ \ {s}) \union {[s EXCEPT !.status = "booked"]}]
          \/ server' = [server EXCEPT !.trouble = @ + 1, !.slots = @ \ {s}]
     \/ \E d \in Days :
          LET s == [id |-> server.made + 1, start |-> d, len |-> 1, status |-> "available", mine |-> FALSE] IN
          /\ Room /\ Accepts(s)
          /\ server' = [server EXCEPT !.trouble = @ + 1, !.made = @ + 1, !.slots = @ \union {s}]
  /\ Saw({"excused"})
  /\ UNCHANGED <<page, calls>>

(***************************************************************************)
(* The page.                                                               *)
(***************************************************************************)

\* An operation, and the loads it waits for: asked for, and read.
Loads == [kind |-> "week", slot |-> None, stage |-> "waits", asked |-> {"post"}, lists |-> <<>>]
Request(kind, s) == [Loads EXCEPT !.kind = kind, !.slot = s, !.stage = "sent", !.asked = {}]

\* Moving to another week loads the slots again.
ChangeWeek ==
  /\ page.dialog = None
  /\ Send(Loads)
  /\ page' = [page EXCEPT !.loading = TRUE]
  /\ UNCHANGED <<server, seen>>

OpenDialog(d) ==
  /\ CanOpen
  /\ page' = [page EXCEPT !.dialog = d]
  /\ UNCHANGED <<server, calls, seen>>

\* The cancel button is disabled during a creation, the cross is not.
CloseDialog ==
  /\ page.dialog # None
  /\ page' = [page EXCEPT !.dialog = None]
  /\ UNCHANGED <<server, calls, seen>>

\* createSlot: an overlap with a slot the page knows ends it at once.
Submit(n) ==
  /\ CanSubmit /\ Room
  /\ LET s == [id |-> 1, start |-> page.dialog, len |-> n, status |-> "available", mine |-> TRUE] IN
     IF \E t \in page.all : Overlaps(s, t)
     THEN UNCHANGED <<page, calls>>
     ELSE /\ page' = [page EXCEPT !.creating = TRUE]
          /\ Send(Request("create", s))
  /\ UNCHANGED <<server, seen>>

\* updateSlotStatus(closed) and deleteSlot: one slot at a time is remembered.
Change(kind, s) ==
  /\ Actionable(s)
  /\ Send(Request(kind, s))
  /\ page' = [page EXCEPT !.updating = s.id]
  /\ Saw(If(\E c \in Of({"status", "delete"}) : c.slot.id # s.id, "several"))
  /\ UNCHANGED server

\* Mutant: nothing is loaded after a change.
SucceedsQuietly(c) ==
  /\ c.stage = "done"
  /\ Turn(c, [c EXCEPT !.stage = "waits"])
  /\ UNCHANGED <<page, server, seen>>

\* Done: both lists are loaded again, and the operation waits for them.
Succeeds(c) ==
  /\ c.stage = "done"
  /\ Turn(c, [c EXCEPT !.stage = "waits", !.asked = {"post", "all"}])
  /\ page' = [page EXCEPT !.loading = TRUE]
  /\ UNCHANGED <<server, seen>>

\* Refused, or the answer is lost, whether or not it was carried out.
Refused(c) ==
  /\ c.stage # "waits"
  /\ page' = IF c.kind = "create" THEN [page EXCEPT !.creating = FALSE] ELSE [page EXCEPT !.updating = None]
  /\ Saw(If(c.stage # "refused", "excused"))
  /\ Trouble(c.stage # "refused")
  /\ End(c)

\* A load ends with the list that was read, or fails, which empties the page.
Took(c, x, list) ==
  /\ \/ x \in c.asked /\ list = {} /\ Trouble(TRUE)
     \/ x \in DOMAIN c.lists /\ list \in {c.lists[x], {}} /\ Trouble(list # c.lists[x])
  /\ LET d == [c EXCEPT !.asked = @ \ {x}, !.lists = [y \in DOMAIN @ \ {x} |-> @[y]]] IN
     IF d.kind = "week" THEN End(c) ELSE Turn(c, d)
  /\ Saw(If(list # server.slots, "excused"))

\* loadPostSlots: the course's slots are those of the mentor's that are its.
PostLoaded(c, list) ==
  /\ Took(c, "post", list)
  /\ page' = [page EXCEPT !.slots = {s \in list : s.mine}, !.all = list, !.loading = FALSE]

\* loadAllMentorSlots.
AllLoaded(c, list) ==
  /\ Took(c, "all", list)
  /\ page' = [page EXCEPT !.all = list]

\* The lists have come: a creation closes its dialog after two seconds.
Finished(c) ==
  /\ c.stage = "waits" /\ c.asked = {} /\ DOMAIN c.lists = {}
  /\ page' = IF c.kind = "create"
             THEN [page EXCEPT !.creating = FALSE, !.timers = @ + 1]
             ELSE [page EXCEPT !.updating = None]
  /\ End(c)
  /\ UNCHANGED <<server, seen>>

\* A timer closes the dialog that is open by then.
TimerFires ==
  /\ page.timers > 0
  /\ page' = [page EXCEPT !.timers = @ - 1, !.dialog = None]
  /\ UNCHANGED <<server, calls, seen>>

Init ==
  /\ page = [slots |-> {}, all |-> {}, loading |-> TRUE, updating |-> None, creating |-> FALSE,
             dialog |-> None, timers |-> 0]
  /\ \E status \in {"available", "booked", "closed"} :
       server = [slots |-> {[id |-> 1, start |-> 2, len |-> 1, status |-> status, mine |-> status # "closed"]},
                 made |-> 1, trouble |-> 0]
  /\ calls = Only(Loads)
  /\ seen = {}

Next ==
  \/ OthersChange \/ ChangeWeek \/ CloseDialog \/ TimerFires
  \/ \E d \in Days : OpenDialog(d)
  \/ \E n \in {1, 2} : Submit(n)
  \/ \E s \in page.slots, kind \in {"status", "delete"} : Change(kind, s)
  \/ \E c \in Busy :
       \/ Reads(c) \/ Creates(c) \/ Changes(c) \/ Succeeds(c) \/ Refused(c) \/ Finished(c)
       \/ \E list \in {{}} \union {c.lists[x] : x \in DOMAIN c.lists} : PostLoaded(c, list) \/ AllLoaded(c, list)

(***************************************************************************)
(* Properties.                                                             *)
(***************************************************************************)

TypeOK ==
  /\ page.slots \subseteq Slot /\ page.all \subseteq Slot /\ server.slots \subseteq Slot
  /\ page.updating \in Ids \union {None} /\ page.dialog \in Days \union {None}
  /\ page.timers \in Nat /\ {page.loading, page.creating} \subseteq BOOLEAN
  /\ seen \subseteq {"excused", "several"}

\* The page shows what the server has once its requests have ended, unless
\* another actor changed it, a load failed or was overtaken by a change, or
\* the answer to a change was lost (nothing loads the slots after an error).
ListFresh ==
  Busy = {} /\ "excused" \notin seen
    => page.all = server.slots /\ page.slots = {s \in server.slots : s.mine}

\* A spinner or a disabled button of the page has a request that will end it.
BusyHasRequest ==
  /\ page.loading => \E c \in Busy : "post" \in c.asked \union DOMAIN c.lists
  /\ page.creating => Of({"create"}) # {}
  /\ page.updating # None => Of({"status", "delete"}) # {}

\* The server refuses a creation only when the page's check (which counts
\* closed slots too) was made on a list that was stale.
RefusedOnlyWhenStale ==
  \A c \in Of({"create"}) : c.stage = "refused" => "excused" \in seen

\* Two requests about one slot are under way only after two slots were being
\* changed at once: the page remembers one slot, and the first end forgets it.
OneChangePerSlot ==
  LET changes == Of({"status", "delete"}) IN
  /\ \A c, d \in changes : c # d /\ c.slot.id = d.slot.id => "several" \in seen
  /\ \A c \in changes : calls[c] > 1 => "several" \in seen
=============================================================================
