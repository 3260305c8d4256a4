------------------------- MODULE SlotCalendarProofs -------------------------
(***************************************************************************)
(* Proofs about SlotCalendar, for any number of mentors, slots and time    *)
(* ranges: what the overlap trigger guarantees in spite of the gap between *)
(* its check and the commit.                                               *)
(***************************************************************************)
EXTENDS SlotCalendar, TLAPS

USE DEF Status, Open

LEMMA CalendarTypeInit == Init => TypeOK
BY CalendarAssumption DEF Init, TypeOK

\* Every statement keeps the tables well typed.
LEMMA CalendarTypeStep == TypeOK /\ [Next]_vars => TypeOK'
<1> SUFFICES ASSUME TypeOK, [Next]_vars PROVE TypeOK'
  OBVIOUS
<1> USE DEF TypeOK
<1>0. ASSUME NEW x \in SlotIds, NEW new \in SlotRow, Begin(x, new)
      PROVE  TypeOK'
  BY <1>0 DEF Begin
<1>1. ASSUME NEW x \in SlotIds, BeginInsert(x) PROVE TypeOK'
  BY <1>0, <1>1 DEF BeginInsert
<1>2. ASSUME NEW x \in SlotIds, BeginUpdate(x) PROVE TypeOK'
  <2>1. PICK st \in Status, t \in Ranges :
          Begin(x, [rows[x] EXCEPT !.status = st, !.time = t])
    BY <1>2 DEF BeginUpdate
  <2>2. rows[x] \in SlotRow
    BY <1>2 DEF BeginUpdate, Present
  <2>3. [rows[x] EXCEPT !.status = st, !.time = t] \in SlotRow
    BY <2>2 DEF SlotRow
  <2>4. QED
    BY <1>0, <2>1, <2>3
<1>3. ASSUME NEW x \in SlotIds, Commit(x) PROVE TypeOK'
  BY <1>3 DEF Commit
<1>4. ASSUME NEW x \in SlotIds, Abort(x) PROVE TypeOK'
  BY <1>4 DEF Abort, Forget
<1>5. ASSUME NEW x \in SlotIds, Delete(x) PROVE TypeOK'
  BY <1>5 DEF Delete, Forget
<1>6. CASE CloseExpired
  <2>1. ASSUME NEW x \in SlotIds, Expired(x)
        PROVE  [rows[x] EXCEPT !.status = "closed"] \in SlotRow
    BY <2>1 DEF Expired, IsOpen, Present, SlotRow
  <2>2. QED
    BY <1>6, <2>1 DEF CloseExpired
<1>7. CASE Tick
  BY <1>7, CalendarAssumption DEF Tick
<1>8. CASE UNCHANGED vars
  BY <1>8 DEF vars
<1>9. QED
  BY <1>1, <1>2, <1>3, <1>4, <1>5, <1>6, <1>7, <1>8 DEF Next

\* The tables of SlotCalendar are well typed in every reachable state.
THEOREM CalendarTypeCorrect == Spec => []TypeOK
BY CalendarTypeInit, CalendarTypeStep, PTL DEF Spec

\* Clashing is symmetric, and unordered pairs have no order.
LEMMA ClashSymmetric ==
  ASSUME NEW r, NEW q, Clash(r, q) PROVE Clash(q, r)
BY DEF Clash, Overlap

\* A statement that passes the trigger: its row clashes with no open row, and
\* it is recorded against every statement already in flight.
LEMMA BeginKeepsInv ==
  ASSUME CalendarInv, NEW x \in SlotIds, NEW new \in SlotRow, Begin(x, new)
  PROVE  (OverlapOnlyFromRace /\ FlightsRecorded /\ PendingOverlapOnlyFromRace)'
<1> USE DEF CalendarInv
<1>1. /\ rows' = rows
      /\ \A y \in SlotIds : y # x => inFlight'[y] = inFlight[y]
      /\ inFlight'[x] = new
      /\ raced \subseteq raced'
      /\ \A y \in SlotIds : inFlight[y] # Absent => {x, y} \in raced'
  BY DEF Begin, TypeOK
<1>2. inFlight[x] = Absent
  BY DEF Begin
<1>3. OverlapOnlyFromRace'
  BY <1>1 DEF OverlapOnlyFromRace, IsOpen, Present
<1>4. FlightsRecorded'
  <2> SUFFICES ASSUME NEW u \in SlotIds, NEW v \in SlotIds, u # v,
                      inFlight'[u] # Absent, inFlight'[v] # Absent
               PROVE  {u, v} \in raced'
    BY DEF FlightsRecorded
  <2>1. CASE u = x
    BY <2>1, <1>1
  <2>2. CASE v = x
    <3>1. {x, u} \in raced'
      BY <2>2, <1>1
    <3>2. {x, u} = {u, v}
      BY <2>2
    <3>3. QED
      BY <3>1, <3>2
  <2>3. CASE u # x /\ v # x
    BY <2>3, <1>1 DEF FlightsRecorded
  <2>4. QED
    BY <2>1, <2>2, <2>3
<1>5. PendingOverlapOnlyFromRace'
  <2> SUFFICES ASSUME NEW u \in SlotIds, NEW v \in SlotIds, u # v,
                      IsOpen(u)', inFlight'[v] # Absent, Clash(rows[u], inFlight[v])'
               PROVE  {u, v} \in raced'
    BY DEF PendingOverlapOnlyFromRace
  <2>1. IsOpen(u) /\ Clash(rows[u], inFlight'[v])
    BY <1>1 DEF IsOpen, Present, Clash, Overlap
  <2>2. CASE v = x
    BY <2>1, <2>2, <1>1 DEF Begin, TriggerAccepts
  <2>3. CASE v # x
    BY <2>1, <2>3, <1>1 DEF PendingOverlapOnlyFromRace
  <2>4. QED
    BY <2>2, <2>3
<1>6. QED
  BY <1>3, <1>4, <1>5

\* A commit turns "in flight" into "stored"; both halves were recorded.
LEMMA CommitKeepsInv ==
  ASSUME CalendarInv, NEW x \in SlotIds, Commit(x)
  PROVE  (OverlapOnlyFromRace /\ FlightsRecorded /\ PendingOverlapOnlyFromRace)'
<1> USE DEF CalendarInv
<1>1. /\ raced' = raced
      /\ rows'[x] = inFlight[x]
      /\ inFlight[x] # Absent
      /\ inFlight'[x] = Absent
      /\ \A y \in SlotIds : y # x => rows'[y] = rows[y] /\ inFlight'[y] = inFlight[y]
  BY DEF Commit, TypeOK
<1>2. OverlapOnlyFromRace'
  <2> SUFFICES ASSUME NEW u \in SlotIds, NEW v \in SlotIds, u # v,
                      IsOpen(u)', IsOpen(v)', Clash(rows'[u], rows'[v])
               PROVE  {u, v} \in raced
    BY <1>1 DEF OverlapOnlyFromRace
  <2>1. CASE u # x /\ v # x
    BY <2>1, <1>1 DEF OverlapOnlyFromRace, IsOpen, Present
  <2>2. CASE v = x
    BY <2>2, <1>1 DEF PendingOverlapOnlyFromRace, IsOpen, Present
  <2>3. CASE u = x
    <3>1. Clash(rows'[v], rows'[u])
      BY ClashSymmetric
    <3>2. IsOpen(v) /\ Clash(rows[v], inFlight[u])
      BY <2>3, <3>1, <1>1 DEF IsOpen, Present
    <3>3. {v, u} \in raced
      BY <2>3, <3>2, <1>1 DEF PendingOverlapOnlyFromRace
    <3>4. {v, u} = {u, v}
      OBVIOUS
    <3>5. QED
      BY <3>3, <3>4
  <2>4. QED
    BY <2>1, <2>2, <2>3
<1>3. FlightsRecorded'
  BY <1>1 DEF FlightsRecorded
<1>4. PendingOverlapOnlyFromRace'
  <2> SUFFICES ASSUME NEW u \in SlotIds, NEW v \in SlotIds, u # v,
                      IsOpen(u)', inFlight'[v] # Absent, Clash(rows'[u], inFlight'[v])
               PROVE  {u, v} \in raced
    BY <1>1 DEF PendingOverlapOnlyFromRace
  <2>1. v # x /\ inFlight[v] # Absent
    BY <1>1
  <2>2. CASE u = x
    BY <2>1, <2>2, <1>1 DEF FlightsRecorded
  <2>3. CASE u # x
    BY <2>1, <2>3, <1>1 DEF PendingOverlapOnlyFromRace, IsOpen, Present
  <2>4. QED
    BY <2>2, <2>3
<1>5. QED
  BY <1>2, <1>3, <1>4

\* A statement that fails leaves the rows alone and the record of every pair
\* that is still of interest.
LEMMA AbortKeepsInv ==
  ASSUME CalendarInv, NEW x \in SlotIds, Abort(x)
  PROVE  (OverlapOnlyFromRace /\ FlightsRecorded /\ PendingOverlapOnlyFromRace)'
<1> USE DEF CalendarInv
<1>1. /\ rows' = rows
      /\ inFlight'[x] = Absent
      /\ \A y \in SlotIds : y # x => inFlight'[y] = inFlight[y]
  BY DEF Abort, TypeOK
<1>2. ASSUME NEW u \in SlotIds, NEW v \in SlotIds, {u, v} \in raced,
             x \notin {u, v} \/ Present(x)
      PROVE  {u, v} \in raced'
  BY <1>2 DEF Abort, Forget
<1>3. OverlapOnlyFromRace'
  BY <1>1, <1>2 DEF OverlapOnlyFromRace, IsOpen, Present
<1>4. FlightsRecorded'
  BY <1>1, <1>2 DEF FlightsRecorded
<1>5. PendingOverlapOnlyFromRace'
  BY <1>1, <1>2 DEF PendingOverlapOnlyFromRace, IsOpen, Present
<1>6. QED
  BY <1>3, <1>4, <1>5

\* A deleted slot is part of no overlap any more.
LEMMA DeleteKeepsInv ==
  ASSUME CalendarInv, NEW x \in SlotIds, Delete(x)
  PROVE  (OverlapOnlyFromRace /\ FlightsRecorded /\ PendingOverlapOnlyFromRace)'
<1> USE DEF CalendarInv
<1>1. /\ rows'[x] = Absent
      /\ inFlight' = inFlight
      /\ inFlight[x] = Absent
      /\ \A y \in SlotIds : y # x => rows'[y] = rows[y]
  BY DEF Delete, TypeOK
<1>2. ASSUME NEW u \in SlotIds, NEW v \in SlotIds, {u, v} \in raced, x \notin {u, v}
      PROVE  {u, v} \in raced'
  BY <1>2 DEF Delete, Forget
<1>3. OverlapOnlyFromRace'
  BY <1>1, <1>2 DEF OverlapOnlyFromRace, IsOpen, Present
<1>4. FlightsRecorded'
  BY <1>1, <1>2 DEF FlightsRecorded
<1>5. PendingOverlapOnlyFromRace'
  BY <1>1, <1>2 DEF PendingOverlapOnlyFromRace, IsOpen, Present
<1>6. QED
  BY <1>3, <1>4, <1>5

\* Closing slots opens none and moves none.
LEMMA CloseKeepsInv ==
  ASSUME CalendarInv, CloseExpired
  PROVE  (OverlapOnlyFromRace /\ FlightsRecorded /\ PendingOverlapOnlyFromRace)'
<1> USE DEF CalendarInv
<1>1. inFlight' = inFlight /\ raced' = raced
  BY DEF CloseExpired
<1>2. ASSUME NEW u \in SlotIds, IsOpen(u)'
      PROVE  IsOpen(u) /\ rows'[u] = rows[u]
  <2>1. CASE Expired(u)
    <3>1. rows[u] \in SlotRow
      BY <2>1 DEF Expired, IsOpen, Present, TypeOK
    <3>2. rows'[u] = [rows[u] EXCEPT !.status = "closed"]
      BY <2>1 DEF CloseExpired
    <3>3. rows'[u].status = "closed"
      BY <3>1, <3>2 DEF SlotRow
    <3>4. QED
      BY <1>2, <3>3 DEF IsOpen
  <2>2. CASE ~Expired(u)
    BY <1>2, <2>2 DEF CloseExpired, IsOpen, Present
  <2>3. QED
    BY <2>1, <2>2
<1>3. OverlapOnlyFromRace'
  BY <1>1, <1>2 DEF OverlapOnlyFromRace
<1>4. FlightsRecorded'
  BY <1>1 DEF FlightsRecorded
<1>5. PendingOverlapOnlyFromRace'
  BY <1>1, <1>2 DEF PendingOverlapOnlyFromRace
<1>6. QED
  BY <1>3, <1>4, <1>5

LEMMA CalendarInvInit == Init => CalendarInv
BY CalendarTypeInit
DEF Init, CalendarInv, OverlapOnlyFromRace, FlightsRecorded,
    PendingOverlapOnlyFromRace, IsOpen, Present

LEMMA CalendarInvStep == CalendarInv /\ [Next]_vars => CalendarInv'
<1> SUFFICES ASSUME CalendarInv, [Next]_vars PROVE CalendarInv'
  OBVIOUS
<1> DEFINE Rest == OverlapOnlyFromRace /\ FlightsRecorded /\ PendingOverlapOnlyFromRace
<1>1. TypeOK'
  BY CalendarTypeStep DEF CalendarInv
<1>2. ASSUME NEW x \in SlotIds, BeginInsert(x) PROVE Rest'
  BY <1>2, BeginKeepsInv DEF BeginInsert
<1>3. ASSUME NEW x \in SlotIds, BeginUpdate(x) PROVE Rest'
  <2>1. PICK st \in Status, t \in Ranges :
          Begin(x, [rows[x] EXCEPT !.status = st, !.time = t])
    BY <1>3 DEF BeginUpdate
  <2>2. rows[x] \in SlotRow
    BY <1>3 DEF BeginUpdate, Present, CalendarInv, TypeOK
  <2>3. [rows[x] EXCEPT !.status = st, !.time = t] \in SlotRow
    BY <2>2 DEF SlotRow
  <2>4. QED
    BY <2>1, <2>3, BeginKeepsInv
<1>4. ASSUME NEW x \in SlotIds, Commit(x) PROVE Rest'
  BY <1>4, CommitKeepsInv
<1>5. ASSUME NEW x \in SlotIds, Abort(x) PROVE Rest'
  BY <1>5, AbortKeepsInv
<1>6. ASSUME NEW x \in SlotIds, Delete(x) PROVE Rest'
  BY <1>6, DeleteKeepsInv
<1>7. ASSUME CloseExpired PROVE Rest'
  BY <1>7, CloseKeepsInv
<1>8. ASSUME Tick \/ UNCHANGED vars PROVE Rest'
  BY <1>8 DEF Tick, vars, CalendarInv, OverlapOnlyFromRace, FlightsRecorded,
              PendingOverlapOnlyFromRace, IsOpen, Present
<1>9. Rest'
  BY <1>2, <1>3, <1>4, <1>5, <1>6, <1>7, <1>8 DEF Next
<1>10. QED
  BY <1>1, <1>9 DEF CalendarInv

\* Two open slots of a mentor overlap only if statements on them were in
\* flight at the same time: the gap between the trigger's check and the commit
\* is the only way past check_no_overlapping_slots.
THEOREM OverlapNeedsRace == Spec => []OverlapOnlyFromRace
<1>1. Spec => []CalendarInv
  BY CalendarInvInit, CalendarInvStep, PTL DEF Spec
<1>2. CalendarInv => OverlapOnlyFromRace
  BY DEF CalendarInv
<1>3. QED
  BY <1>1, <1>2, PTL

\* While no statements have raced, no expired slot can block the cleanup of
\* the others: the trigger accepts every row the bulk UPDATE touches.
THEOREM CleanupNotBlocked == Spec => [](raced = {} => ~Blocked)
<1>1. Spec => []CalendarInv
  BY CalendarInvInit, CalendarInvStep, PTL DEF Spec
<1>2. CalendarInv => (raced = {} => ~Blocked)
  BY DEF CalendarInv, OverlapOnlyFromRace, Blocked, TriggerAccepts, Expired,
         IsOpen, Clash, Overlap
<1>3. QED
  BY <1>1, <1>2, PTL
=============================================================================
