------------------------ MODULE SessionTablesProofs ------------------------
(***************************************************************************)
(* Proofs about SessionTables, for any number of slots, students and       *)
(* session ids: the constraints of the migration are enough to keep the    *)
(* booking ledger, whatever statements the clients send and in what order. *)
(***************************************************************************)
EXTENDS SessionTables, TLAPS

(***************************************************************************)
(* What each kind of statement on sessions does to the rows.               *)
(***************************************************************************)

\* An edit replaces a row by one that differs in payment and rating only.
Replaces(r, q) ==
  /\ r \in sessions
  /\ q \in Row
  /\ q.id = r.id /\ q.slot = r.slot /\ q.student = r.student
  /\ sessions' = (sessions \ {r}) \union {q}
  /\ UNCHANGED <<slots, ended, freshIds>>

LEMMA UpdateReplaces ==
  ASSUME TypeOKTables, NEW r \in sessions, NEW pay \in Payment,
         NEW rate \in BOOLEAN, UpdateSessionRow(r, pay, rate)
  PROVE  \E q \in Row : Replaces(r, q)
<1> DEFINE q == [r EXCEPT !.payment = pay, !.rated = @ \/ rate]
<1>1. r \in Row
  BY DEF TypeOKTables
<1>2. q \in Row /\ q.id = r.id /\ q.slot = r.slot /\ q.student = r.student
  BY <1>1 DEF Row
<1>3. QED
  BY <1>2 DEF UpdateSessionRow, Replaces

LEMMA RateReplaces ==
  ASSUME TypeOKTables, NEW r \in sessions, RateRow(r)
  PROVE  \E q \in Row : Replaces(r, q)
<1> DEFINE q == [r EXCEPT !.rated = TRUE]
<1>1. r \in Row
  BY DEF TypeOKTables
<1>2. q \in Row /\ q.id = r.id /\ q.slot = r.slot /\ q.student = r.student
  BY <1>1 DEF Row
<1>3. QED
  BY <1>2 DEF RateRow, Replaces

\* A statement on slots leaves the sessions alone and deletes no row.
KeepsRows ==
  /\ UNCHANGED <<sessions, freshIds>>
  /\ slots' \in [Slots -> SlotState]
  /\ ended' \subseteq Slots
  /\ \A s \in Slots : slots'[s] = slots[s] \/ (slots'[s] \in Status /\ slots[s] # "deleted")

LEMMA SlotStatementKeepsRows ==
  ASSUME TypeOKTables, NEW s \in Slots, SlotStatement(s), ~DeleteSlotRow(s)
  PROVE  KeepsRows
<1> USE DEF TypeOKTables, KeepsRows, Status, Open, SlotState
<1>1. ASSUME NEW st \in Status, NEW past \in BOOLEAN, InsertSlot(s, st, past)
      PROVE  KeepsRows
  BY <1>1 DEF InsertSlot
<1>2. ASSUME NEW st \in Status, WriteStatus(s, st) PROVE KeepsRows
  BY <1>2 DEF WriteStatus, HasRow
<1>3. ASSUME NEW st \in Status, NEW past \in BOOLEAN, UpdateSlotRow(s, st, past)
      PROVE  KeepsRows
  BY <1>3 DEF UpdateSlotRow, HasRow
<1>4. CASE PassEnd(s)
  BY <1>4 DEF PassEnd
<1>5. QED
  BY <1>1, <1>2, <1>3, <1>4 DEF SlotStatement

LEMMA CloseKeepsRows ==
  ASSUME TypeOKTables, CloseExpiredRows PROVE KeepsRows
BY DEF TypeOKTables, KeepsRows, CloseExpiredRows, Expired, Status, Open, SlotState

(***************************************************************************)
(* The invariant.                                                          *)
(***************************************************************************)

LEMMA TableInit == InitTables => TableInv
BY DEF InitTables, TableInv, TypeOKTables, OneSessionPerSlot, SessionHasSlot,
       IdsIdentifyRows, SlotState

LEMMA KeepsRowsInv ==
  ASSUME TableInv, KeepsRows PROVE TableInv'
<1> USE DEF TableInv, KeepsRows
<1>1. TypeOKTables'
  BY DEF TypeOKTables
<1>2. SessionHasSlot'
  BY DEF SessionHasSlot, HasRow, TypeOKTables, Row
<1>3. OneSessionPerSlot' /\ IdsIdentifyRows'
  BY DEF OneSessionPerSlot, IdsIdentifyRows
<1>4. QED
  BY <1>1, <1>2, <1>3

LEMMA DeleteSlotInv ==
  ASSUME TableInv, NEW s \in Slots, DeleteSlotRow(s) PROVE TableInv'
<1> USE DEF TableInv, DeleteSlotRow
<1>1. TypeOKTables'
  BY DEF TypeOKTables, SlotState
<1>2. SessionHasSlot'
  BY DEF SessionHasSlot, HasRow, RowsOf, TypeOKTables, Row
<1>3. OneSessionPerSlot' /\ IdsIdentifyRows'
  BY DEF OneSessionPerSlot, IdsIdentifyRows
<1>4. QED
  BY <1>1, <1>2, <1>3

LEMMA InsertSessionInv ==
  ASSUME TableInv, NEW i \in SessionIds, NEW s \in Slots, NEW c \in Students,
         NEW pay \in Payment, InsertSession(i, s, c, pay)
  PROVE  TableInv'
<1> DEFINE q == [id |-> i, slot |-> s, student |-> c, payment |-> pay, rated |-> FALSE]
<1> USE DEF TableInv
<1>1. q \in Row /\ q.id = i /\ q.slot = s
  BY DEF Row
<1>2. /\ sessions' = sessions \union {q}
      /\ freshIds' = freshIds \ {i}
      /\ slots' = slots /\ ended' = ended
      /\ i \in freshIds
      /\ HasRow(s)
      /\ \A r \in sessions : r.slot # s
  BY DEF InsertSession, CanInsertSession, RowsOf
<1> HIDE DEF q
<1>3. TypeOKTables'
  BY <1>1, <1>2 DEF TypeOKTables
<1>4. OneSessionPerSlot'
  BY <1>1, <1>2 DEF OneSessionPerSlot
<1>5. SessionHasSlot'
  BY <1>1, <1>2 DEF SessionHasSlot, HasRow
<1>6. IdsIdentifyRows'
  BY <1>1, <1>2 DEF IdsIdentifyRows
<1>7. QED
  BY <1>3, <1>4, <1>5, <1>6

LEMMA ReplaceInv ==
  ASSUME TableInv, NEW r, NEW q, Replaces(r, q) PROVE TableInv'
<1> USE DEF TableInv, Replaces
<1>1. TypeOKTables'
  BY DEF TypeOKTables
<1>2. OneSessionPerSlot'
  BY DEF OneSessionPerSlot
<1>3. SessionHasSlot'
  BY DEF SessionHasSlot, HasRow
<1>4. IdsIdentifyRows'
  BY DEF IdsIdentifyRows
<1>5. QED
  BY <1>1, <1>2, <1>3, <1>4

LEMMA DeleteSessionInv ==
  ASSUME TableInv, NEW r \in sessions, DeleteSessionRow(r) PROVE TableInv'
BY DEF TableInv, DeleteSessionRow, TypeOKTables, OneSessionPerSlot,
       SessionHasSlot, HasRow, IdsIdentifyRows

LEMMA TableStep == TableInv /\ [Statement]_tables => TableInv'
<1> SUFFICES ASSUME TableInv, [Statement]_tables PROVE TableInv'
  OBVIOUS
<1>0. TypeOKTables
  BY DEF TableInv
<1>1. ASSUME NEW s \in Slots, SlotStatement(s) PROVE TableInv'
  BY <1>0, <1>1, SlotStatementKeepsRows, KeepsRowsInv, DeleteSlotInv
<1>2. ASSUME NEW i \in SessionIds, NEW s \in Slots, NEW c \in Students,
             NEW pay \in Payment, InsertSession(i, s, c, pay)
      PROVE  TableInv'
  BY <1>2, InsertSessionInv
<1>3. ASSUME NEW r \in sessions, NEW pay \in Payment, NEW rate \in BOOLEAN,
             UpdateSessionRow(r, pay, rate)
      PROVE  TableInv'
  BY <1>0, <1>3, UpdateReplaces, ReplaceInv
<1>4. ASSUME NEW r \in sessions, RateRow(r) PROVE TableInv'
  BY <1>0, <1>4, RateReplaces, ReplaceInv
<1>5. ASSUME NEW r \in sessions, DeleteSessionRow(r) PROVE TableInv'
  BY <1>5, DeleteSessionInv
<1>6. ASSUME CloseExpiredRows PROVE TableInv'
  BY <1>0, <1>6, CloseKeepsRows, KeepsRowsInv
<1>7. ASSUME UNCHANGED tables PROVE TableInv'
  BY <1>7 DEF tables, TableInv, TypeOKTables, OneSessionPerSlot,
              SessionHasSlot, HasRow, IdsIdentifyRows
<1>8. QED
  BY <1>1, <1>2, <1>3, <1>4, <1>5, <1>6, <1>7 DEF Statement, SessionStatement

\* The constraints of the migration hold together in every reachable state.
THEOREM TablesInvariant == SpecTables => []TableInv
BY TableInit, TableStep, PTL DEF SpecTables

\* The tables hold only values the CHECK constraints admit.
THEOREM TablesTypeCorrect == SpecTables => []TypeOKTables
<1>1. TableInv => TypeOKTables
  BY DEF TableInv
<1>2. QED
  BY <1>1, TablesInvariant, PTL

\* However many clients race for a slot, it is never in two sessions.
THEOREM SlotNeverDoubleBooked == SpecTables => []OneSessionPerSlot
<1>1. TableInv => OneSessionPerSlot
  BY DEF TableInv
<1>2. QED
  BY <1>1, TablesInvariant, PTL

\* No session outlives the row of its slot.
THEOREM NoOrphanSession == SpecTables => []SessionHasSlot
<1>1. TableInv => SessionHasSlot
  BY DEF TableInv
<1>2. QED
  BY <1>1, TablesInvariant, PTL

(***************************************************************************)
(* The refinement of SlotLedger.                                           *)
(***************************************************************************)

Retired == {s \in Slots : slots[s] = "deleted"}

LEMMA LedgerInit == InitTables => Ledger!Init
BY DEF InitTables, Ledger!Init, Holder, RowsOf

LEMMA KeepsRowsStutters ==
  ASSUME TableInv, KeepsRows PROVE UNCHANGED <<Holder, Retired>>
<1>1. Holder' = Holder
  BY DEF KeepsRows, Holder, RowsOf
<1>2. Retired' = Retired
  BY DEF KeepsRows, Retired, Status, Open
<1>3. QED
  BY <1>1, <1>2

LEMMA DeleteSlotRetires ==
  ASSUME TableInv, NEW s \in Slots, DeleteSlotRow(s) PROVE Ledger!Retire(s)
<1> USE DEF TableInv, TypeOKTables, DeleteSlotRow
<1>1. slots[s] # "deleted"
  BY DEF HasRow, Status, Open
<1>2. Retired' = Retired \union {s}
  BY DEF Retired
<1>3. Holder' = [Holder EXCEPT ![s] = {}]
  <2>1. ASSUME NEW t \in Slots, t # s PROVE RowsOf(t)' = RowsOf(t)
    BY <2>1 DEF RowsOf
  <2>2. RowsOf(s)' = {}
    BY DEF RowsOf
  <2>3. QED
    BY <2>1, <2>2 DEF Holder
<1>4. QED
  BY <1>1, <1>2, <1>3 DEF Ledger!Retire, Retired

LEMMA InsertBooks ==
  ASSUME TableInv, NEW i \in SessionIds, NEW s \in Slots, NEW c \in Students,
         NEW pay \in Payment, InsertSession(i, s, c, pay)
  PROVE  Ledger!Book(s, c)
<1> DEFINE q == [id |-> i, slot |-> s, student |-> c, payment |-> pay, rated |-> FALSE]
<1>1. sessions' = sessions \union {q} /\ RowsOf(s) = {} /\ slots' = slots
  BY DEF InsertSession, CanInsertSession
<1>2. q.slot = s /\ q.student = c
  OBVIOUS
<1> HIDE DEF q
<1>3. RowsOf(s)' = {q}
  BY <1>1, <1>2 DEF RowsOf
<1>4. ASSUME NEW t \in Slots, t # s PROVE RowsOf(t)' = RowsOf(t)
  BY <1>1, <1>2, <1>4 DEF RowsOf
<1>5. Holder[s] = {} /\ Holder' = [Holder EXCEPT ![s] = {c}]
  BY <1>1, <1>2, <1>3, <1>4 DEF Holder
<1>6. slots[s] # "deleted"
  BY DEF InsertSession, CanInsertSession, HasRow, Status, Open
<1>7. QED
  BY <1>1, <1>5, <1>6 DEF Ledger!Book

LEMMA ReplaceStutters ==
  ASSUME TableInv, NEW r, NEW q, Replaces(r, q)
  PROVE  UNCHANGED <<Holder, Retired>>
<1>1. Retired' = Retired
  BY DEF Replaces, Retired
<1>2. ASSUME NEW s \in Slots
      PROVE  {p.student : p \in RowsOf(s)}' = {p.student : p \in RowsOf(s)}
  <2>1. CASE r.slot = s
    <3>1. RowsOf(s) = {r} /\ RowsOf(s)' = {q}
      BY <2>1 DEF Replaces, RowsOf, TableInv, OneSessionPerSlot
    <3>2. QED
      BY <3>1 DEF Replaces
  <2>2. CASE r.slot # s
    <3>1. RowsOf(s)' = RowsOf(s)
      BY <2>2 DEF Replaces, RowsOf
    <3>2. QED
      BY <3>1
  <2>3. QED
    BY <2>1, <2>2
<1>3. Holder' = Holder
  BY <1>2 DEF Holder
<1>4. QED
  BY <1>1, <1>3

LEMMA DeleteSessionReleases ==
  ASSUME TableInv, NEW r \in sessions, DeleteSessionRow(r)
  PROVE  Ledger!Release(r.slot)
<1> DEFINE s == r.slot
<1>1. s \in Slots
  BY DEF TableInv, TypeOKTables, Row
<1>2. RowsOf(s) = {r} /\ RowsOf(s)' = {}
  BY DEF DeleteSessionRow, RowsOf, TableInv, OneSessionPerSlot
<1>3. ASSUME NEW t \in Slots, t # s PROVE RowsOf(t)' = RowsOf(t)
  BY <1>3 DEF DeleteSessionRow, RowsOf
<1>4. Holder[s] # {}
  BY <1>1, <1>2 DEF Holder
<1>5. Holder' = [Holder EXCEPT ![s] = {}]
  BY <1>1, <1>2, <1>3 DEF Holder
<1>6. QED
  BY <1>4, <1>5 DEF Ledger!Release, DeleteSessionRow

LEMMA LedgerStep ==
  TableInv /\ [Statement]_tables => [Ledger!Next]_<<Holder, Retired>>
<1> SUFFICES ASSUME TableInv, [Statement]_tables
             PROVE  Ledger!Next \/ UNCHANGED <<Holder, Retired>>
  OBVIOUS
<1>0. TypeOKTables
  BY DEF TableInv
<1> DEFINE Goal == Ledger!Next \/ UNCHANGED <<Holder, Retired>>
<1>1. ASSUME NEW s \in Slots, SlotStatement(s) PROVE Goal
  <2>1. CASE DeleteSlotRow(s)
    BY <2>1, DeleteSlotRetires DEF Ledger!Next
  <2>2. CASE ~DeleteSlotRow(s)
    BY <1>0, <1>1, <2>2, SlotStatementKeepsRows, KeepsRowsStutters
  <2>3. QED
    BY <2>1, <2>2
<1>2. ASSUME NEW i \in SessionIds, NEW s \in Slots, NEW c \in Students,
             NEW pay \in Payment, InsertSession(i, s, c, pay)
      PROVE  Goal
  BY <1>2, InsertBooks DEF Ledger!Next
<1>3. ASSUME NEW r \in sessions, NEW pay \in Payment, NEW rate \in BOOLEAN,
             UpdateSessionRow(r, pay, rate)
      PROVE  Goal
  BY <1>0, <1>3, UpdateReplaces, ReplaceStutters
<1>4. ASSUME NEW r \in sessions, RateRow(r) PROVE Goal
  BY <1>0, <1>4, RateReplaces, ReplaceStutters
<1>5. ASSUME NEW r \in sessions, DeleteSessionRow(r) PROVE Goal
  <2>1. r.slot \in Slots
    BY <1>0 DEF TypeOKTables, Row
  <2>2. QED
    BY <1>5, <2>1, DeleteSessionReleases DEF Ledger!Next
<1>6. ASSUME CloseExpiredRows PROVE Goal
  BY <1>0, <1>6, CloseKeepsRows, KeepsRowsStutters
<1>7. ASSUME UNCHANGED tables PROVE Goal
  BY <1>7 DEF tables, Holder, RowsOf, Retired
<1>8. QED
  BY <1>1, <1>2, <1>3, <1>4, <1>5, <1>6, <1>7 DEF Statement, SessionStatement

\* The tables implement the booking ledger: a slot passes from one student to
\* another only through being free, and a deleted slot is never held again.
THEOREM TablesImplementLedger == SpecTables => ImplementsLedger
<1>1. SpecTables => []TableInv
  BY TablesInvariant
<1>2. QED
  BY <1>1, LedgerInit, LedgerStep, PTL DEF SpecTables, ImplementsLedger, Ledger!Spec, Retired
=============================================================================
