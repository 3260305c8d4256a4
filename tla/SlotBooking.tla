---------------------------- MODULE SlotBooking ----------------------------
(***************************************************************************)
(* Booking end to end: the enrolment page of the web frontend and of the   *)
(* Android app, the gateway and session_service handlers they call, and    *)
(* the tables of SessionTables underneath.                                 *)
(*                                                                         *)
(* A booking is two requests of the client (mark the slot, then create the *)
(* session) and a cancellation up to three writes (the handler deletes the *)
(* session, then re-opens the slot; the web page re-opens it once more).   *)
(* No transaction spans them, so other clients run in between, requests    *)
(* fail or lose their answer, and the user may leave.  The reads a handler *)
(* does before its single statement (existence, ownership) are part of the *)
(* step of that statement: they read what never changes for an id, or a    *)
(* row whose absence makes the statement fail the same way.                *)
(***************************************************************************)
EXTENDS SessionTables

CONSTANTS
  Mobile,      \* the students who use the Android app; the others use the web
  None,        \* "no value" of a client's local variables
  MaxFaults    \* bound on requests that fail or lose their answer

ASSUME BookingAssumption ==
  /\ Mobile \subseteq Students
  /\ None \notin Slots \union SessionIds
  /\ MaxFaults \in Nat

Web == Students \ Mobile

VARIABLES
  page,        \* what each client's enrolment screen is busy with
  view,        \* the slot list the screen last loaded
  told,        \* the outcome the screen shows: bookingSuccess, bookingError
  reopening,   \* DeleteSession handlers between their DELETE and their UPDATE
  rating,      \* RateSession requests that passed the gateway's check
  deletedAt,   \* history: the ids in use up to a session's DELETE, {} before
  faults

clientVars == <<page, view, told>>
serverVars == <<reopening, rating, deletedAt>>
vars == <<tables, clientVars, serverVars, faults>>

Idle == [pc |-> "idle", slot |-> None, id |-> None, seen |-> "none"]
PC == {"idle", "mark", "create", "delete", "deleting", "free", "reload"}
Seen == Status \union {"none"}

At(c, step) == page[c].pc = step
Goto(c, step) == page' = [page EXCEPT ![c].pc = step]
Finish(c) == page' = [page EXCEPT ![c] = Idle]

Fault == faults < MaxFaults /\ faults' = faults + 1
NoFault == UNCHANGED faults

(***************************************************************************)
(* The slot list.                                                          *)
(***************************************************************************)

\* Mutant: slots without a row are listed too.
ListOfAll(c) == slots

\* The web lists every slot of the course, the app the available ones.
ListOf(c) ==
  [s \in Slots |->
     IF HasRow(s) /\ (c \in Web \/ slots[s] = "available") THEN slots[s] ELSE "none"]

\* A load, on mount, by pull-to-refresh or to end a request; one that fails
\* leaves an empty list.
LoadSlots(c) ==
  /\ page[c].pc \in {"idle", "reload"}
  /\ \E list \in {ListOf(c), [s \in Slots |-> "none"]} :
       view' = [view EXCEPT ![c] = list]
  /\ Finish(c)
  /\ UNCHANGED <<tables, told, serverVars, faults>>

(***************************************************************************)
(* Booking.                                                                *)
(***************************************************************************)

\* Checks made on the loaded list, never on the server's present state.
StartBooking(c, s) ==
  /\ At(c, "idle")
  /\ view[c][s] = "available"
  /\ c \in Web => s \notin ended
  /\ page' = [page EXCEPT ![c] =
                [pc |-> "mark", slot |-> s, id |-> None, seen |-> view[c][s]]]
  /\ told' = [told EXCEPT ![c] = "none"]
  /\ UNCHANGED <<tables, view, serverVars, faults>>

\* POST /slots/{id}/status booked.  On success the screen patches its list.
MarkBooked(c) ==
  /\ At(c, "mark")
  /\ WriteStatus(page[c].slot, "booked")
  /\ view' = IF c \in Web THEN [view EXCEPT ![c][page[c].slot] = "booked"] ELSE view
  /\ Goto(c, "create")
  /\ NoFault
  /\ UNCHANGED <<told, serverVars>>

\* Mutant: the catch block looks at the list as it is now.
RollbackOnFreshList(c) ==
  IF \/ c \in Web /\ view[c][page[c].slot] = "booked"
     \/ c \in Mobile /\ At(c, "create")
  THEN Goto(c, "free")
  ELSE Finish(c)

\* The catch block of handleBookSlot: it decides on the list as it was when
\* the handler started.  The app rolls back whenever creating failed.
RollbackNext(c) ==
  IF \/ c \in Web /\ page[c].seen = "booked"
     \/ c \in Mobile /\ At(c, "create")
  THEN Goto(c, "free")
  ELSE Finish(c)

ShowFailure(c) ==
  /\ told' = [told EXCEPT ![c] = "failed"]
  /\ RollbackNext(c)
  /\ UNCHANGED <<view, serverVars>>

MarkFails(c) ==
  /\ At(c, "mark")
  /\ \/ ~HasRow(page[c].slot) /\ NoFault /\ UNCHANGED tables
     \/ Fault /\ UNCHANGED tables
     \/ Fault /\ WriteStatus(page[c].slot, "booked")   \* the answer is lost
  /\ ShowFailure(c)

\* POST /sessions: the gateway checks that the slot exists, not its status.
CreateSession(c) ==
  /\ At(c, "create")
  /\ \E i \in SessionIds : InsertSession(i, page[c].slot, c, "pending")
  /\ told' = [told EXCEPT ![c] = "booked"]
  /\ Goto(c, "reload")
  /\ NoFault
  /\ UNCHANGED <<view, serverVars>>

\* The constraints refuse the row (or, the model's bound, no id is left).
CreateFails(c) ==
  /\ At(c, "create")
  /\ \/ /\ ~CanInsertSession(page[c].slot) \/ freshIds = {}
        /\ NoFault /\ UNCHANGED tables
     \/ Fault /\ UNCHANGED tables
     \/ /\ Fault                                       \* the answer is lost
        /\ \E i \in SessionIds : InsertSession(i, page[c].slot, c, "pending")
  /\ ShowFailure(c)

\* POST /slots/{id}/status available, from a rollback or a cancellation.
FreeSlot(c) ==
  /\ At(c, "free")
  /\ WriteStatus(page[c].slot, "available")
  /\ view' = IF c \in Web THEN [view EXCEPT ![c][page[c].slot] = "available"] ELSE view
  /\ Goto(c, "reload")
  /\ NoFault
  /\ UNCHANGED <<told, serverVars>>

FreeFails(c) ==
  /\ At(c, "free")
  /\ \/ ~HasRow(page[c].slot) /\ NoFault
     \/ Fault
  /\ IF c \in Web THEN Finish(c) ELSE Goto(c, "reload")
  /\ UNCHANGED <<tables, view, told, serverVars>>

(***************************************************************************)
(* Cancelling: only the web page offers it.                                *)
(***************************************************************************)

StartCancel(c, r) ==
  /\ c \in Web
  /\ At(c, "idle")
  /\ r.student = c
  /\ view[c][r.slot] # "none"
  /\ page' = [page EXCEPT ![c] =
                [pc |-> "delete", slot |-> r.slot, id |-> r.id, seen |-> view[c][r.slot]]]
  /\ UNCHANGED <<tables, view, told, serverVars, faults>>

\* First half of the DeleteSession handler, up to its DELETE.
DeleteSession(r) ==
  /\ DeleteSessionRow(r)
  /\ reopening' = reopening \union {[id |-> r.id, slot |-> r.slot]}
  /\ deletedAt' = [deletedAt EXCEPT ![r.id] = SessionIds \ freshIds]

\* Mutant: the session to delete is looked up by its slot.
CancelBySlot(c) ==
  /\ At(c, "delete")
  /\ \E r \in sessions : r.slot = page[c].slot /\ DeleteSession(r)
  /\ Goto(c, "deleting")
  /\ NoFault
  /\ UNCHANGED <<view, told, rating>>

\* DELETE /sessions/{id} of a session on the page.
CancelSession(c) ==
  /\ At(c, "delete")
  /\ \E r \in sessions : r.id = page[c].id /\ DeleteSession(r)
  /\ Goto(c, "deleting")
  /\ NoFault
  /\ UNCHANGED <<view, told, rating>>

\* The session is gone already, or the request fails: the page gives up.
CancelFails(c) ==
  /\ At(c, "delete")
  /\ \/ (\A r \in sessions : r.id # page[c].id) /\ NoFault
     \/ Fault
  /\ Finish(c)
  /\ UNCHANGED <<tables, view, told, serverVars>>

Waiting(c, t) == At(c, "deleting") /\ page[c].id = t.id

\* Second half of the handler: whoever took the slot since the DELETE, and
\* even if it was closed, the slot becomes available.  A web page that still
\* waits for the answer then writes the status again if its list said booked.
ReopenSlot(t) ==
  /\ t \in reopening
  /\ WriteStatus(t.slot, "available")
  /\ reopening' = reopening \ {t}
  /\ page' = [c \in Students |->
                IF Waiting(c, t)
                THEN [page[c] EXCEPT !.pc = IF page[c].seen = "booked"
                                            THEN "free" ELSE "reload"]
                ELSE page[c]]
  /\ NoFault
  /\ UNCHANGED <<view, told, rating, deletedAt>>

\* Mutant: a failed second half never answers.
ReopenFailsSilently(t) ==
  /\ t \in reopening
  /\ \/ ~HasRow(t.slot) /\ NoFault
     \/ Fault
  /\ reopening' = reopening \ {t}
  /\ UNCHANGED <<tables, clientVars, rating, deletedAt>>

\* The handler fails after its DELETE: the session is gone, the slot is not
\* touched.
ReopenFails(t) ==
  /\ t \in reopening
  /\ \/ ~HasRow(t.slot) /\ NoFault
     \/ Fault
  /\ reopening' = reopening \ {t}
  /\ page' = [c \in Students |-> IF Waiting(c, t) THEN Idle ELSE page[c]]
  /\ UNCHANGED <<tables, view, told, rating, deletedAt>>

\* The user closes the screen, or gives up on the answer.
Leave(c) ==
  /\ ~At(c, "idle")
  /\ Finish(c)
  /\ told' = [told EXCEPT ![c] = "none"]
  /\ UNCHANGED <<tables, view, serverVars, faults>>

(***************************************************************************)
(* Ratings and payment.                                                    *)
(***************************************************************************)

\* POST /sessions/{id}/rate, the gateway's part: the session it reads must be
\* the caller's and paid.  The write is a later call, see CommitRating.
StartRating(r) ==
  /\ r.payment = "paid"
  /\ r.id \notin rating
  /\ rating' = rating \union {r.id}
  /\ UNCHANGED <<tables, clientVars, reopening, deletedAt, faults>>

\* session_service's part: no row matches when the session is gone or unpaid.
CommitRating(i) ==
  /\ i \in rating
  /\ \/ \E r \in sessions : r.id = i /\ RateRow(r)
     \/ /\ \A r \in sessions : r.id = i => r.payment # "paid"
        /\ UNCHANGED tables
  /\ rating' = rating \ {i}
  /\ UNCHANGED <<clientVars, reopening, deletedAt, faults>>

\* PUT /sessions/{id}: the mentor may set payment_status to what the gateway
\* admits and session_service accepts, mentor and student may set a rating.
EditSession(r) ==
  /\ \E pay \in {r.payment, "pending", "paid"}, rate \in BOOLEAN :
       UpdateSessionRow(r, pay, rate)
  /\ UNCHANGED <<clientVars, serverVars, faults>>

(***************************************************************************)
(* The mentor, any user's status request, the clock and the cleanup ticker.*)
(***************************************************************************)

CreateSlot(s) ==
  /\ \E st \in Status, past \in BOOLEAN : InsertSlot(s, st, past)
  /\ UNCHANGED <<clientVars, serverVars, faults>>

UpdateSlot(s) ==
  /\ \E st \in Status, past \in BOOLEAN : UpdateSlotRow(s, st, past)
  /\ UNCHANGED <<clientVars, serverVars, faults>>

UpdateSlotStatus(s, st) ==
  /\ WriteStatus(s, st)
  /\ UNCHANGED <<clientVars, serverVars, faults>>

DeleteSlot(s) ==
  /\ DeleteSlotRow(s)
  /\ UNCHANGED <<clientVars, serverVars, faults>>

\* DELETE /sessions/{id} by the mentor of the slot.
MentorCancel(r) ==
  /\ DeleteSession(r)
  /\ UNCHANGED <<clientVars, rating, faults>>

SlotEnds(s) ==
  /\ PassEnd(s)
  /\ UNCHANGED <<clientVars, serverVars, faults>>

\* The ticker of main runs the bulk UPDATE every minute.  A run that fails is
\* logged and not retried before the next tick.
CloseExpiredSlots ==
  /\ CloseExpiredRows
  /\ UNCHANGED <<clientVars, serverVars, faults>>

(***************************************************************************)
(* The specification.                                                      *)
(***************************************************************************)

Init ==
  /\ InitTables
  /\ page = [c \in Students |-> Idle]
  /\ view = [c \in Students |-> [s \in Slots |-> "none"]]
  /\ told = [c \in Students |-> "none"]
  /\ reopening = {}
  /\ rating = {}
  /\ deletedAt = [i \in SessionIds |-> {}]
  /\ faults = 0

\* The answer to the request a screen has sent.
Answer(c) ==
  \/ MarkBooked(c) \/ MarkFails(c)
  \/ CreateSession(c) \/ CreateFails(c)
  \/ CancelSession(c) \/ CancelFails(c)
  \/ FreeSlot(c) \/ FreeFails(c)

Client(c) ==
  \/ LoadSlots(c)
  \/ \E s \in Slots : StartBooking(c, s)
  \/ \E r \in sessions : StartCancel(c, r)
  \/ Answer(c)
  \/ Leave(c)

Reopen(t) == ReopenSlot(t) \/ ReopenFails(t)

Server ==
  \/ \E t \in reopening : Reopen(t)
  \/ \E r \in sessions : StartRating(r)
  \/ \E i \in rating : CommitRating(i)
  \/ CloseExpiredSlots

Others ==
  \/ \E s \in Slots :
       \/ CreateSlot(s) \/ UpdateSlot(s) \/ DeleteSlot(s) \/ SlotEnds(s)
       \/ \E st \in Status : UpdateSlotStatus(s, st)
  \/ \E r \in sessions : EditSession(r) \/ MentorCancel(r)

Next == (\E c \in Students : Client(c)) \/ Server \/ Others

\* Every request gets an answer or an error, and a handler that runs goes on.
\* Users are under no obligation.
Fairness ==
  /\ \A c \in Students : WF_vars(Answer(c)) /\ WF_vars(LoadSlots(c) /\ At(c, "reload"))
  /\ WF_vars(\E t \in reopening : Reopen(t))

Spec == Init /\ [][Next]_vars
FairSpec == Spec /\ Fairness

(***************************************************************************)
(* Properties.                                                             *)
(***************************************************************************)

\* An id that was issued and whose row is gone.
Gone(i) == i \in SessionIds \ freshIds /\ \A r \in sessions : r.id # i

\* The variables have their types.
TypeOK ==
  /\ TypeOKTables
  /\ page \in [Students -> [pc : PC, slot : Slots \union {None},
                            id : SessionIds \union {None}, seen : Seen]]
  /\ view \in [Students -> [Slots -> Seen]]
  /\ told \in [Students -> {"none", "booked", "failed"}]
  /\ reopening \subseteq [id : SessionIds, slot : Slots]
  /\ rating \subseteq SessionIds
  /\ deletedAt \in [SessionIds -> SUBSET SessionIds]
  /\ faults \in 0..MaxFaults

\* The web page asks for a slot to be made available only after a session of
\* its own was deleted.  In particular a student whose booking lost the race
\* for a slot never frees the winner's slot: what prevents it is only that
\* the catch block of handleBookSlot looks at a list older than the booking.
WebFreesOnlyAfterCancel ==
  \A c \in Web : At(c, "free") => Gone(page[c].id)

\* A cancellation makes its slot available after its DELETE, in the handler
\* and again from the web page, whoever holds the slot by then.  The only
\* booking it can expose like this is one made after that DELETE, in the window
\* between the writes; a booking that was there before is never exposed.
CancelExposesOnlyLaterBooking ==
  \A r \in sessions :
    /\ \A t \in reopening : t.slot = r.slot => r.id \notin deletedAt[t.id]
    /\ \A c \in Web : At(c, "free") /\ page[c].slot = r.slot
                      => r.id \notin deletedAt[page[c].id]

\* A cancellation deletes a session of the student who asked for it, however
\* old the list it was chosen from and whoever holds the slot by now.
CancelRemovesOwn ==
  [][\A c \in Students :
       At(c, "delete") /\ page'[c].pc = "deleting" =>
         /\ sessions' # sessions
         /\ \A r \in sessions \ sessions' : r.student = c]_vars

\* RateSession writes a rating only on a session that is paid when it writes,
\* although the gateway checked the payment in an earlier call.
RatingNeedsPayment ==
  [][\A i \in rating \ rating', r \in sessions \ sessions' :
       r.id = i => r.payment = "paid"]_vars

\* Whatever happens to a request, the screen ends up idle again.
BookingEnds ==
  \A c \in Students : ~At(c, "idle") ~> At(c, "idle")
=============================================================================
