---------------------------- MODULE SlotCalendar ----------------------------
(***************************************************************************)
(* The mentors' calendars: time ranges of slots, the trigger that keeps    *)
(* them from overlapping, and the statement that closes expired slots.     *)
(*                                                                         *)
(* trg_check_no_overlap runs before a row is written and reads the rows    *)
(* that are committed at that moment (READ COMMITTED); the row it lets     *)
(* through becomes visible to the triggers of other connections only when  *)
(* its own transaction commits.  A statement is therefore two steps here,  *)
(* Begin and Commit.  A row under change is locked, so there is at most    *)
(* one statement in flight for each slot.                                  *)
(***************************************************************************)
EXTENDS Integers, FiniteSets

CONSTANTS
  Mentors,
  SlotIds,
  Ranges,    \* the time ranges in use: records with fields from and to
  Horizon,   \* bound of the clock
  Absent     \* no row, or no statement in flight

ASSUME CalendarAssumption ==
  /\ Ranges \subseteq {t \in [from : Int, to : Int] : t.from < t.to}
  /\ Horizon \in Nat
  /\ Absent \notin [mentor : Mentors, time : Ranges,
                    status : {"available", "booked", "closed"}]

VARIABLES
  rows,       \* the committed rows of the table slots
  inFlight,   \* the new row of each statement that has passed the trigger
  now,
  raced       \* history: pairs of slots whose statements were in flight at once

vars == <<rows, inFlight, now, raced>>

Open   == {"available", "booked"}
Status == Open \union {"closed"}
SlotRow == [mentor : Mentors, time : Ranges, status : Status]

\* The && of two non-empty half-open ranges.
Overlap(t, u) == t.from < u.to /\ u.from < t.to

Clash(r, q) == r.mentor = q.mentor /\ Overlap(r.time, q.time)

Present(x) == rows[x] # Absent
IsOpen(x)  == Present(x) /\ rows[x].status \in Open

\* Mutant: the trigger looks at available slots only.
TriggerAvailableOnly(x, new) ==
  \A y \in SlotIds \ {x} :
    Present(y) /\ rows[y].status = "available" => ~Clash(rows[y], new)

\* check_no_overlapping_slots: the status of the new row does not matter.
TriggerAccepts(x, new) ==
  \A y \in SlotIds \ {x} : IsOpen(y) => ~Clash(rows[y], new)

Begin(x, new) ==
  /\ inFlight[x] = Absent
  /\ TriggerAccepts(x, new)
  /\ inFlight' = [inFlight EXCEPT ![x] = new]
  /\ raced' = raced \union {{x, y} : y \in {z \in SlotIds : inFlight[z] # Absent}}
  /\ UNCHANGED <<rows, now>>

\* INSERT INTO slots by CreateSlot: any status, any time.
BeginInsert(x) ==
  /\ ~Present(x)
  /\ \E new \in SlotRow : Begin(x, new)

\* Mutant: an UPDATE that moves a slot leaves its end where it was.
BeginMoveStart(x) ==
  /\ Present(x)
  /\ \E st \in Status, t \in Ranges :
       Begin(x, [rows[x] EXCEPT !.status = st, !.time.from = t.from])

\* UPDATE by UpdateSlot or UpdateSlotStatus: status and time range may change,
\* the mentor does not.
BeginUpdate(x) ==
  /\ Present(x)
  /\ \E st \in Status, t \in Ranges :
       Begin(x, [rows[x] EXCEPT !.status = st, !.time = t])

\* A slot that is gone, or was never stored, takes its history along: its id
\* is not issued again.
Forget(x) == raced' = {p \in raced : x \notin p}

Commit(x) ==
  /\ inFlight[x] # Absent
  /\ rows' = [rows EXCEPT ![x] = inFlight[x]]
  /\ inFlight' = [inFlight EXCEPT ![x] = Absent]
  /\ UNCHANGED <<now, raced>>

\* The connection breaks, or the request's context ends, before the commit.
Abort(x) ==
  /\ inFlight[x] # Absent
  /\ inFlight' = [inFlight EXCEPT ![x] = Absent]
  /\ IF Present(x) THEN UNCHANGED raced ELSE Forget(x)
  /\ UNCHANGED <<rows, now>>

\* DELETE fires no trigger; it waits for a statement that holds the row.
Delete(x) ==
  /\ Present(x)
  /\ inFlight[x] = Absent
  /\ rows' = [rows EXCEPT ![x] = Absent]
  /\ Forget(x)
  /\ UNCHANGED <<inFlight, now>>

Expired(x) == IsOpen(x) /\ rows[x].time.to <= now

\* The trigger runs for every row the bulk UPDATE touches, too, and one row it
\* rejects undoes the whole statement.
Blocked == \E x \in SlotIds : Expired(x) /\ ~TriggerAccepts(x, rows[x])

\* Mutant: the end of a slot is compared with < instead of <=.
CloseEarlier ==
  /\ \E x \in SlotIds : Expired(x) /\ rows[x].time.to < now
  /\ ~Blocked
  /\ \A x \in SlotIds : Expired(x) => inFlight[x] = Absent
  /\ rows' = [x \in SlotIds |->
                IF Expired(x) /\ rows[x].time.to < now
                THEN [rows[x] EXCEPT !.status = "closed"] ELSE rows[x]]
  /\ UNCHANGED <<inFlight, now, raced>>

\* CloseExpiredSlots: it waits for statements that hold a row it wants.
CloseExpired ==
  /\ \E x \in SlotIds : Expired(x)
  /\ ~Blocked
  /\ \A x \in SlotIds : Expired(x) => inFlight[x] = Absent
  /\ rows' = [x \in SlotIds |->
                IF Expired(x) THEN [rows[x] EXCEPT !.status = "closed"] ELSE rows[x]]
  /\ UNCHANGED <<inFlight, now, raced>>

Tick ==
  /\ now < Horizon
  /\ now' = now + 1
  /\ UNCHANGED <<rows, inFlight, raced>>

Init ==
  /\ rows = [x \in SlotIds |-> Absent]
  /\ inFlight = [x \in SlotIds |-> Absent]
  /\ now = 0
  /\ raced = {}

Next ==
  \/ \E x \in SlotIds :
       BeginInsert(x) \/ BeginUpdate(x) \/ Commit(x) \/ Abort(x) \/ Delete(x)
  \/ CloseExpired
  \/ Tick

\* A statement in flight ends.  The ticker fires every minute, and the bulk
\* UPDATE gets its turn on the row locks it waits for, hence strong fairness.
Fairness ==
  /\ \A x \in SlotIds : WF_vars(Commit(x) \/ Abort(x))
  /\ SF_vars(CloseExpired)

Spec == Init /\ [][Next]_vars
FairSpec == Spec /\ Fairness

(***************************************************************************)
(* Properties.                                                             *)
(***************************************************************************)

TypeOK ==
  /\ rows \in [SlotIds -> SlotRow \union {Absent}]
  /\ inFlight \in [SlotIds -> SlotRow \union {Absent}]
  /\ now \in 0..Horizon
  /\ raced \subseteq SUBSET SlotIds

\* What the trigger does guarantee: two open slots of a mentor overlap only if
\* statements on the two were in flight at the same time.
OverlapOnlyFromRace ==
  \A x, y \in SlotIds :
    x # y /\ IsOpen(x) /\ IsOpen(y) /\ Clash(rows[x], rows[y]) => {x, y} \in raced

\* Strengthening: the same for a row that is about to be committed, whatever
\* its status, and for two of them.
FlightsRecorded ==
  \A x, y \in SlotIds :
    x # y /\ inFlight[x] # Absent /\ inFlight[y] # Absent => {x, y} \in raced

PendingOverlapOnlyFromRace ==
  \A x, y \in SlotIds :
    x # y /\ IsOpen(x) /\ inFlight[y] # Absent /\ Clash(rows[x], inFlight[y]) =>
      {x, y} \in raced

CalendarInv ==
  TypeOK /\ OverlapOnlyFromRace /\ FlightsRecorded /\ PendingOverlapOnlyFromRace

\* As long as no two statements have raced, the cleanup is never blocked and a
\* slot whose end has passed is closed, moved or deleted.  One racing pair is
\* enough to break this for the slots of every mentor.
CleanupUnlessRace ==
  \A x \in SlotIds : Expired(x) /\ raced = {} ~> ~Expired(x) \/ raced # {}
=============================================================================
