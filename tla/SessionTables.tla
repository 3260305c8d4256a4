--------------------------- MODULE SessionTables ---------------------------
(***************************************************************************)
(* The database of session_service: the tables slots and sessions, and one *)
(* action for every SQL statement the two repositories send to them.  Each *)
(* statement is a transaction of its own (the repositories never open an   *)
(* explicit one), so a statement is one step; everything between two       *)
(* statements of a handler belongs to the modules that extend this one.    *)
(*                                                                         *)
(* Kept: which rows exist, a slot's status, whether its end has passed, a  *)
(* session's slot, student, payment status and whether it carries a        *)
(* rating.  Abstracted: titles, prices, reviews and clock values.  Time    *)
(* ranges are in SlotCalendar, and with them the overlap trigger: here any *)
(* statement on slots may be rejected, and then changes nothing.           *)
(***************************************************************************)
EXTENDS Naturals, FiniteSets

CONSTANTS
  Slots,        \* ids of slots, issued by gen_random_uuid()
  Students,     \* ids of users who book
  SessionIds    \* ids of sessions, issued by gen_random_uuid()

VARIABLES
  slots,        \* status of each slot's row, or why there is no row
  ended,        \* slots whose start_time + duration has passed
  sessions,     \* the rows of the table sessions
  freshIds      \* session ids that no INSERT has used yet

tables == <<slots, ended, sessions, freshIds>>

Open      == {"available", "booked"}
Status    == Open \union {"closed"}
SlotState == Status \union {"unborn", "deleted"}
Payment   == {"pending", "paid", "failed"}

Row == [id : SessionIds, slot : Slots, student : Students,
        payment : Payment, rated : BOOLEAN]

HasRow(s) == slots[s] \in Status
RowsOf(s) == {r \in sessions : r.slot = s}

(***************************************************************************)
(* Statements on the table slots.                                          *)
(***************************************************************************)

\* INSERT INTO slots; the CHECK constraint admits only the three statuses.
\* The new slot may already lie in the past: nothing compares it with NOW().
InsertSlot(s, st, past) ==
  /\ slots[s] = "unborn"
  /\ slots' = [slots EXCEPT ![s] = st]
  /\ ended' = IF past THEN ended \union {s} ELSE ended
  /\ UNCHANGED <<sessions, freshIds>>

\* UPDATE slots SET status: no comparison with the status it replaces.
WriteStatus(s, st) ==
  /\ HasRow(s)
  /\ slots' = [slots EXCEPT ![s] = st]
  /\ UNCHANGED <<ended, sessions, freshIds>>

\* UPDATE slots SET with the fields of a PUT: a status, a moved time range.
UpdateSlotRow(s, st, past) ==
  /\ HasRow(s)
  /\ slots' = [slots EXCEPT ![s] = st]
  /\ ended' = IF past THEN ended \union {s} ELSE ended \ {s}
  /\ UNCHANGED <<sessions, freshIds>>

\* DELETE FROM slots; ON DELETE CASCADE takes the slot's sessions with it.
DeleteSlotRow(s) ==
  /\ HasRow(s)
  /\ slots' = [slots EXCEPT ![s] = "deleted"]
  /\ sessions' = sessions \ RowsOf(s)
  /\ UNCHANGED <<ended, freshIds>>

Expired(s) == s \in ended /\ slots[s] \in Open

\* The bulk UPDATE behind CloseExpiredSlots.  The overlap trigger runs for
\* every row: one that it rejects, of whichever mentor, undoes them all.
CloseExpiredRows ==
  /\ \E s \in Slots : Expired(s)
  /\ \/ slots' = [s \in Slots |-> IF Expired(s) THEN "closed" ELSE slots[s]]
     \/ UNCHANGED slots
  /\ UNCHANGED <<ended, sessions, freshIds>>

\* The end of a slot's time range is reached.
PassEnd(s) ==
  /\ HasRow(s)
  /\ s \notin ended
  /\ ended' = ended \union {s}
  /\ UNCHANGED <<slots, sessions, freshIds>>

(***************************************************************************)
(* Statements on the table sessions.                                       *)
(***************************************************************************)

\* Mutant: UNIQUE(slot_id) is missing.
CanInsertNotUnique(s) == HasRow(s)

\* The foreign key needs the slot's row, UNIQUE(slot_id) that no other session
\* is on it.
CanInsertSession(s) == HasRow(s) /\ RowsOf(s) = {}

\* Mutant: INSERT ... ON CONFLICT (slot_id) DO UPDATE.
UpsertSession(i, s, c, pay) ==
  /\ HasRow(s)
  /\ i \in freshIds
  /\ sessions' = (sessions \ RowsOf(s)) \union
       {[id |-> i, slot |-> s, student |-> c, payment |-> pay, rated |-> FALSE]}
  /\ freshIds' = freshIds \ {i}
  /\ UNCHANGED <<slots, ended>>

\* INSERT INTO sessions.  The slot's status is not looked at.
InsertSession(i, s, c, pay) ==
  /\ CanInsertSession(s)
  /\ i \in freshIds
  /\ sessions' = sessions \union
       {[id |-> i, slot |-> s, student |-> c, payment |-> pay, rated |-> FALSE]}
  /\ freshIds' = freshIds \ {i}
  /\ UNCHANGED <<slots, ended>>

\* UPDATE sessions SET with the optional fields payment_status and rating.
\* The handlers never fill in StudentId, so a row keeps its student.
UpdateSessionRow(r, pay, rate) ==
  /\ r \in sessions
  /\ sessions' = (sessions \ {r}) \union
       {[r EXCEPT !.payment = pay, !.rated = @ \/ rate]}
  /\ UNCHANGED <<slots, ended, freshIds>>

\* Mutant: the WHERE clause of the rating lost its condition on the payment.
RateAnyRow(r) ==
  /\ r \in sessions
  /\ sessions' = (sessions \ {r}) \union {[r EXCEPT !.rated = TRUE]}
  /\ UNCHANGED <<slots, ended, freshIds>>

\* UPDATE sessions SET rating ... WHERE id AND payment_status = 'paid'.
RateRow(r) ==
  /\ r \in sessions
  /\ r.payment = "paid"
  /\ sessions' = (sessions \ {r}) \union {[r EXCEPT !.rated = TRUE]}
  /\ UNCHANGED <<slots, ended, freshIds>>

\* DELETE FROM sessions WHERE id.
DeleteSessionRow(r) ==
  /\ r \in sessions
  /\ sessions' = sessions \ {r}
  /\ UNCHANGED <<slots, ended, freshIds>>

(***************************************************************************)
(* The most general client: any statement, any time.                       *)
(***************************************************************************)

InitTables ==
  /\ slots = [s \in Slots |-> "unborn"]
  /\ ended = {}
  /\ sessions = {}
  /\ freshIds = SessionIds

SlotStatement(s) ==
  \/ \E st \in Status, past \in BOOLEAN : InsertSlot(s, st, past)
  \/ \E st \in Status : WriteStatus(s, st)
  \/ \E st \in Status, past \in BOOLEAN : UpdateSlotRow(s, st, past)
  \/ DeleteSlotRow(s)
  \/ PassEnd(s)

SessionStatement ==
  \/ \E i \in SessionIds, s \in Slots, c \in Students, pay \in Payment :
       InsertSession(i, s, c, pay)
  \/ \E r \in sessions, pay \in Payment, rate \in BOOLEAN :
       UpdateSessionRow(r, pay, rate)
  \/ \E r \in sessions : RateRow(r)
  \/ \E r \in sessions : DeleteSessionRow(r)

Statement ==
  \/ \E s \in Slots : SlotStatement(s)
  \/ SessionStatement
  \/ CloseExpiredRows

SpecTables == InitTables /\ [][Statement]_tables

(***************************************************************************)
(* Properties.                                                             *)
(***************************************************************************)

\* The values the tables can hold: the CHECK constraints of the migration.
TypeOKTables ==
  /\ slots \in [Slots -> SlotState]
  /\ ended \subseteq Slots
  /\ sessions \subseteq Row
  /\ freshIds \subseteq SessionIds

\* UNIQUE(slot_id): a slot is never held by two sessions, whoever races whom.
OneSessionPerSlot ==
  \A r1, r2 \in sessions : r1.slot = r2.slot => r1 = r2

\* The foreign key with its cascade: a session's slot has a row.
SessionHasSlot ==
  \A r \in sessions : HasRow(r.slot)

\* The primary key: an id names one row, and an id in use is not issued again.
IdsIdentifyRows ==
  /\ \A r1, r2 \in sessions : r1.id = r2.id => r1 = r2
  /\ \A r \in sessions : r.id \notin freshIds

\* What the two constraints keep true of the tables together.
TableInv ==
  /\ TypeOKTables
  /\ OneSessionPerSlot
  /\ SessionHasSlot
  /\ IdsIdentifyRows

\* The booking ledger the tables implement: who holds a slot, and which slots
\* are gone for good.
Holder ==
  [s \in Slots |-> {r.student : r \in RowsOf(s)}]

Ledger == INSTANCE SlotLedger WITH
  holder <- Holder, retired <- {s \in Slots : slots[s] = "deleted"}

\* Every statement is a booking, a release, a retirement or none of them: no
\* statement hands a slot from one student straight to another, and nothing
\* brings back a deleted slot or books it.
ImplementsLedger == Ledger!Spec
=============================================================================
