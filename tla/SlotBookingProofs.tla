------------------------- MODULE SlotBookingProofs -------------------------
(***************************************************************************)
(* Proofs about SlotBooking, for any number of slots, students and session *)
(* ids and any number of failing requests.  First, booking end to end      *)
(* takes only steps of SessionTables, so that everything proved there      *)
(* holds here; then what the clients and the handlers may never do.        *)
(***************************************************************************)
EXTENDS SlotBooking, SessionTablesProofs

PageRecord == [pc : PC, slot : Slots \union {None},
               id : SessionIds \union {None}, seen : Seen]

(***************************************************************************)
(* The inductive invariant.  GoodPage says of a screen p of student c what *)
(* its later steps rely on, given the session rows S and the unused ids F: *)
(* a screen that is busy has a slot; a web page books from a list in which *)
(* the slot was not booked; a session to be deleted is the student's own;  *)
(* and a page that waits for a deletion, or frees a slot after one, has    *)
(* seen its session go.                                                    *)
(***************************************************************************)
GoodPage(c, p, S, F) ==
  /\ p \in PageRecord
  /\ p.pc # "idle" => p.slot \in Slots
  /\ c \in Web /\ p.pc \in {"mark", "create"} => p.seen # "booked"
  /\ p.pc = "delete" =>
       p.id \in SessionIds \ F /\ \A r \in S : r.id = p.id => r.student = c
  /\ p.pc = "deleting" \/ (c \in Web /\ p.pc = "free") =>
       p.id \in SessionIds \ F /\ \A r \in S : r.id # p.id

Pages == \A c \in Students : GoodPage(c, page[c], sessions, freshIds)

\* The variables of the clients and the server, apart from page.
RestOK ==
  /\ view \in [Students -> [Slots -> Seen]]
  /\ told \in [Students -> {"none", "booked", "failed"}]
  /\ reopening \subseteq [id : SessionIds, slot : Slots]
  /\ rating \subseteq SessionIds
  /\ deletedAt \in [SessionIds -> SUBSET SessionIds]
  /\ faults \in 0..MaxFaults

\* A handler re-opens a slot for a session that it has deleted.
ReopenFollowsDelete ==
  \A t \in reopening : Gone(t.id)

BookingInv ==
  /\ TableInv
  /\ page \in [Students -> PageRecord]
  /\ Pages
  /\ RestOK
  /\ ReopenFollowsDelete

(***************************************************************************)
(* What a statement does to the rows, seen from a screen.                  *)
(***************************************************************************)

\* Ids are used up and never come back; a row keeps id, slot and student.
Later ==
  /\ freshIds' \subseteq freshIds
  /\ \A q \in sessions' :
       q.id \in freshIds \/ \E r \in sessions : r.id = q.id /\ r.slot = q.slot /\ r.student = q.student

LEMMA StatementLater ==
  ASSUME TableInv, [Statement]_tables PROVE Later
<1>0. TypeOKTables
  BY DEF TableInv
<1>1. ASSUME NEW s \in Slots, SlotStatement(s) PROVE Later
  <2>1. CASE DeleteSlotRow(s)
    BY <2>1 DEF DeleteSlotRow, Later
  <2>2. CASE ~DeleteSlotRow(s)
    BY <1>0, <1>1, <2>2, SlotStatementKeepsRows DEF KeepsRows, Later
  <2>3. QED
    BY <2>1, <2>2
<1>2. ASSUME NEW i \in SessionIds, NEW s \in Slots, NEW c \in Students,
             NEW pay \in Payment, InsertSession(i, s, c, pay)
      PROVE  Later
  BY <1>2 DEF InsertSession, Later
<1>3. ASSUME NEW r, NEW q, Replaces(r, q) PROVE Later
  BY <1>3 DEF Replaces, Later
<1>4. ASSUME NEW r \in sessions, NEW pay \in Payment, NEW rate \in BOOLEAN,
             UpdateSessionRow(r, pay, rate)
      PROVE  Later
  BY <1>0, <1>3, <1>4, UpdateReplaces
<1>5. ASSUME NEW r \in sessions, RateRow(r) PROVE Later
  BY <1>0, <1>3, <1>5, RateReplaces
<1>6. ASSUME NEW r \in sessions, DeleteSessionRow(r) PROVE Later
  BY <1>6 DEF DeleteSessionRow, Later
<1>7. ASSUME CloseExpiredRows PROVE Later
  BY <1>7 DEF CloseExpiredRows, Later
<1>8. ASSUME UNCHANGED tables PROVE Later
  BY <1>8 DEF tables, Later
<1>9. QED
  BY <1>1, <1>2, <1>4, <1>5, <1>6, <1>7, <1>8 DEF Statement, SessionStatement

\* A screen that stays as it is stays good.
LEMMA PageStays ==
  ASSUME Later, NEW c \in Students, NEW p, GoodPage(c, p, sessions, freshIds)
  PROVE  GoodPage(c, p, sessions', freshIds')
BY DEF Later, GoodPage

\* An id that is gone stays gone.
LEMMA GoneStays ==
  ASSUME Later, NEW i, Gone(i)
  PROVE  i \in SessionIds \ freshIds' /\ \A r \in sessions' : r.id # i
BY DEF Later, Gone

LEMMA IdleGood ==
  ASSUME NEW c, NEW S, NEW F PROVE GoodPage(c, Idle, S, F)
BY DEF GoodPage, Idle, PageRecord, PC, Seen

(***************************************************************************)
(* The three ways an action of c moves its screen.                         *)
(***************************************************************************)

LEMMA OnePage ==
  ASSUME BookingInv, Later, NEW c \in Students, NEW p,
         page' = [page EXCEPT ![c] = p], GoodPage(c, p, sessions', freshIds')
  PROVE  page' \in [Students -> PageRecord] /\ Pages'
<1> USE DEF BookingInv
<1>1. page' \in [Students -> PageRecord]
  BY DEF GoodPage
<1>2. ASSUME NEW d \in Students PROVE GoodPage(d, page'[d], sessions', freshIds')
  <2>1. CASE d = c
    BY <2>1
  <2>2. CASE d # c
    BY <2>2, PageStays DEF Pages
  <2>3. QED
    BY <2>1, <2>2
<1>3. QED
  BY <1>1, <1>2 DEF Pages

LEMMA SamePages ==
  ASSUME BookingInv, Later, UNCHANGED page
  PROVE  page' \in [Students -> PageRecord] /\ Pages'
BY PageStays DEF BookingInv, Pages

LEMMA FinishPages ==
  ASSUME BookingInv, Later, NEW c \in Students, Finish(c)
  PROVE  page' \in [Students -> PageRecord] /\ Pages'
BY OnePage, IdleGood DEF Finish

LEMMA GotoPages ==
  ASSUME BookingInv, Later, NEW c \in Students, NEW step \in PC,
         Goto(c, step), ~At(c, "idle"), step # "delete",
         c \in Web /\ step \in {"mark", "create"} => page[c].seen # "booked",
         step = "deleting" \/ (c \in Web /\ step = "free") =>
           /\ page[c].id \in SessionIds \ freshIds'
           /\ \A r \in sessions' : r.id # page[c].id
  PROVE  page' \in [Students -> PageRecord] /\ Pages'
<1> DEFINE p == [page[c] EXCEPT !.pc = step]
<1>1. page[c] \in PageRecord /\ page[c].slot \in Slots
  BY DEF BookingInv, Pages, GoodPage, At
<1>2. /\ p \in PageRecord /\ p.pc = step /\ p.slot = page[c].slot
      /\ p.id = page[c].id /\ p.seen = page[c].seen
  BY <1>1 DEF PageRecord
<1>3. page' = [page EXCEPT ![c] = p]
  BY DEF Goto
<1> HIDE DEF p
<1>4. GoodPage(c, p, sessions', freshIds')
  BY <1>1, <1>2 DEF GoodPage
<1>5. QED
  BY <1>3, <1>4, OnePage

(***************************************************************************)
(* One lemma per group of actions: a step takes a statement or leaves the  *)
(* tables alone, and keeps the invariant.                                  *)
(***************************************************************************)

StepOK ==
  /\ [Statement]_tables
  /\ page' \in [Students -> PageRecord] /\ Pages'
  /\ RestOK'
  /\ ReopenFollowsDelete'

LEMMA WriteIsStatement ==
  ASSUME NEW s \in Slots, NEW st \in Status, WriteStatus(s, st) PROVE Statement
BY DEF Statement, SlotStatement

LEMMA InsertIsStatement ==
  ASSUME NEW i \in SessionIds, NEW s \in Slots, NEW c \in Students,
         InsertSession(i, s, c, "pending")
  PROVE  Statement
BY DEF Statement, SessionStatement, Payment

LEMMA DeleteIsStatement ==
  ASSUME NEW r \in sessions, DeleteSessionRow(r) PROVE Statement
BY DEF Statement, SessionStatement

LEMMA TablesLater ==
  ASSUME BookingInv, [Statement]_tables PROVE Later
BY StatementLater DEF BookingInv

LEMMA ReopenStays ==
  ASSUME BookingInv, Later, reopening' \subseteq reopening
  PROVE  ReopenFollowsDelete'
<1> SUFFICES ASSUME NEW t \in reopening' PROVE Gone(t.id)'
  BY DEF ReopenFollowsDelete
<1>1. Gone(t.id)
  BY DEF BookingInv, ReopenFollowsDelete
<1>2. QED
  BY <1>1, GoneStays DEF Gone

LEMMA BusySlot ==
  ASSUME BookingInv, NEW c \in Students, ~At(c, "idle")
  PROVE  page[c].slot \in Slots /\ page[c] \in PageRecord
BY DEF BookingInv, Pages, GoodPage, At

LEMMA FaultType ==
  ASSUME BookingInv, Fault \/ NoFault PROVE faults' \in 0..MaxFaults
BY BookingAssumption DEF BookingInv, RestOK, Fault, NoFault

LEMMA LoadSlotsOK ==
  ASSUME BookingInv, NEW c \in Students, LoadSlots(c) PROVE StepOK
<1>1. [Statement]_tables /\ Later
  BY TablesLater DEF LoadSlots
<1>2. page' \in [Students -> PageRecord] /\ Pages'
  BY <1>1, FinishPages DEF LoadSlots
<1>3. ListOf(c) \in [Slots -> Seen] /\ [s \in Slots |-> "none"] \in [Slots -> Seen]
  BY DEF ListOf, HasRow, Seen, Status, Open
<1>4. RestOK'
  BY <1>3 DEF LoadSlots, BookingInv, RestOK, serverVars
<1>5. ReopenFollowsDelete'
  BY <1>1, ReopenStays DEF LoadSlots, serverVars
<1>6. QED
  BY <1>1, <1>2, <1>4, <1>5 DEF StepOK

LEMMA StartBookingOK ==
  ASSUME BookingInv, NEW c \in Students, NEW s \in Slots, StartBooking(c, s)
  PROVE  StepOK
<1> DEFINE p == [pc |-> "mark", slot |-> s, id |-> None, seen |-> view[c][s]]
<1>1. [Statement]_tables /\ Later
  BY TablesLater DEF StartBooking
<1>2. p \in PageRecord /\ p.pc = "mark" /\ p.slot = s /\ p.seen # "booked"
  BY DEF StartBooking, PageRecord, PC, Seen, Status, Open
<1>3. page' = [page EXCEPT ![c] = p]
  BY DEF StartBooking
<1> HIDE DEF p
<1>4. GoodPage(c, p, sessions', freshIds')
  BY <1>2 DEF GoodPage
<1>5. page' \in [Students -> PageRecord] /\ Pages'
  BY <1>1, <1>3, <1>4, OnePage
<1>6. RestOK'
  BY DEF StartBooking, BookingInv, RestOK, serverVars
<1>7. ReopenFollowsDelete'
  BY <1>1, ReopenStays DEF StartBooking, serverVars
<1>8. QED
  BY <1>1, <1>5, <1>6, <1>7 DEF StepOK

LEMMA StartCancelOK ==
  ASSUME BookingInv, NEW c \in Students, NEW r \in sessions, StartCancel(c, r)
  PROVE  StepOK
<1> DEFINE p == [pc |-> "delete", slot |-> r.slot, id |-> r.id, seen |-> view[c][r.slot]]
<1>1. [Statement]_tables /\ Later /\ UNCHANGED <<sessions, freshIds>>
  BY TablesLater DEF StartCancel, tables
<1>2. r \in Row /\ r.id \notin freshIds
  BY DEF BookingInv, TableInv, TypeOKTables, IdsIdentifyRows
<1>3. view[c][r.slot] \in Seen
  BY <1>2 DEF BookingInv, RestOK, Row
<1>4. /\ p \in PageRecord /\ p.pc = "delete" /\ p.slot \in Slots
      /\ p.id = r.id /\ p.id \in SessionIds \ freshIds
  BY <1>2, <1>3 DEF PageRecord, PC, Row
<1>5. \A q \in sessions : q.id = r.id => q.student = c
  BY DEF StartCancel, BookingInv, TableInv, IdsIdentifyRows
<1>6. page' = [page EXCEPT ![c] = p]
  BY DEF StartCancel
<1> HIDE DEF p
<1>7. GoodPage(c, p, sessions', freshIds')
  BY <1>1, <1>4, <1>5 DEF GoodPage
<1>8. page' \in [Students -> PageRecord] /\ Pages'
  BY <1>1, <1>6, <1>7, OnePage
<1>9. RestOK'
  BY DEF StartCancel, BookingInv, RestOK, serverVars
<1>10. ReopenFollowsDelete'
  BY <1>1, ReopenStays DEF StartCancel, serverVars
<1>11. QED
  BY <1>1, <1>8, <1>9, <1>10 DEF StepOK

LEMMA LeaveOK ==
  ASSUME BookingInv, NEW c \in Students, Leave(c) PROVE StepOK
<1>1. [Statement]_tables /\ Later
  BY TablesLater DEF Leave
<1>2. page' \in [Students -> PageRecord] /\ Pages'
  BY <1>1, FinishPages DEF Leave
<1>3. RestOK'
  BY DEF Leave, BookingInv, RestOK, serverVars
<1>4. ReopenFollowsDelete'
  BY <1>1, ReopenStays DEF Leave, serverVars
<1>5. QED
  BY <1>1, <1>2, <1>3, <1>4 DEF StepOK

LEMMA MarkBookedOK ==
  ASSUME BookingInv, NEW c \in Students, MarkBooked(c) PROVE StepOK
<1>0. page[c].slot \in Slots
  BY BusySlot DEF MarkBooked, At
<1>1. [Statement]_tables /\ Later
  BY <1>0, WriteIsStatement, TablesLater DEF MarkBooked, Status, Open
<1>2. c \in Web => page[c].seen # "booked"
  BY DEF MarkBooked, At, BookingInv, Pages, GoodPage
<1>3. page' \in [Students -> PageRecord] /\ Pages'
  BY <1>1, <1>2, GotoPages DEF MarkBooked, At, PC
<1>4. view' \in [Students -> [Slots -> Seen]]
  BY <1>0 DEF MarkBooked, BookingInv, RestOK, Seen, Status, Open
<1>5. RestOK'
  BY <1>4, FaultType DEF MarkBooked, BookingInv, RestOK, serverVars
<1>6. ReopenFollowsDelete'
  BY <1>1, ReopenStays DEF MarkBooked, serverVars
<1>7. QED
  BY <1>1, <1>3, <1>5, <1>6 DEF StepOK

\* A booking that failed: the web page never goes on to free the slot.
LEMMA ShowFailureOK ==
  ASSUME BookingInv, NEW c \in Students, page[c].pc \in {"mark", "create"},
         [Statement]_tables, Fault \/ NoFault, ShowFailure(c)
  PROVE  StepOK
<1>1. Later
  BY TablesLater
<1>2. c \in Web => page[c].seen # "booked"
  BY DEF BookingInv, Pages, GoodPage
<1>3. page' \in [Students -> PageRecord] /\ Pages'
  <2>1. CASE Finish(c)
    BY <1>1, <2>1, FinishPages
  <2>2. CASE Goto(c, "free") /\ c \notin Web
    BY <1>1, <2>2, GotoPages DEF At, PC
  <2>3. QED
    BY <1>2, <2>1, <2>2 DEF ShowFailure, RollbackNext, Web
<1>4. RestOK'
  BY FaultType DEF ShowFailure, BookingInv, RestOK, serverVars
<1>5. ReopenFollowsDelete'
  BY <1>1, ReopenStays DEF ShowFailure, serverVars
<1>6. QED
  BY <1>3, <1>4, <1>5 DEF StepOK

LEMMA MarkFailsOK ==
  ASSUME BookingInv, NEW c \in Students, MarkFails(c) PROVE StepOK
<1>1. page[c].slot \in Slots
  BY BusySlot DEF MarkFails, At
<1>2. [Statement]_tables
  BY <1>1, WriteIsStatement DEF MarkFails, Status, Open
<1>3. QED
  BY <1>2, ShowFailureOK DEF MarkFails, At

LEMMA CreateSessionOK ==
  ASSUME BookingInv, NEW c \in Students, CreateSession(c) PROVE StepOK
<1>0. page[c].slot \in Slots
  BY BusySlot DEF CreateSession, At
<1>1. [Statement]_tables /\ Later
  BY <1>0, InsertIsStatement, TablesLater DEF CreateSession
<1>2. page' \in [Students -> PageRecord] /\ Pages'
  BY <1>1, GotoPages DEF CreateSession, At, PC
<1>3. RestOK'
  BY FaultType DEF CreateSession, BookingInv, RestOK, serverVars
<1>4. ReopenFollowsDelete'
  BY <1>1, ReopenStays DEF CreateSession, serverVars
<1>5. QED
  BY <1>1, <1>2, <1>3, <1>4 DEF StepOK

LEMMA CreateFailsOK ==
  ASSUME BookingInv, NEW c \in Students, CreateFails(c) PROVE StepOK
<1>1. page[c].slot \in Slots
  BY BusySlot DEF CreateFails, At
<1>2. [Statement]_tables
  BY <1>1, InsertIsStatement DEF CreateFails
<1>3. QED
  BY <1>2, ShowFailureOK DEF CreateFails, At

LEMMA FreeSlotOK ==
  ASSUME BookingInv, NEW c \in Students, FreeSlot(c) PROVE StepOK
<1>0. page[c].slot \in Slots
  BY BusySlot DEF FreeSlot, At
<1>1. [Statement]_tables /\ Later
  BY <1>0, WriteIsStatement, TablesLater DEF FreeSlot, Status, Open
<1>2. page' \in [Students -> PageRecord] /\ Pages'
  BY <1>1, GotoPages DEF FreeSlot, At, PC
<1>3. view' \in [Students -> [Slots -> Seen]]
  BY <1>0 DEF FreeSlot, BookingInv, RestOK, Seen, Status, Open
<1>4. RestOK'
  BY <1>3, FaultType DEF FreeSlot, BookingInv, RestOK, serverVars
<1>5. ReopenFollowsDelete'
  BY <1>1, ReopenStays DEF FreeSlot, serverVars
<1>6. QED
  BY <1>1, <1>2, <1>4, <1>5 DEF StepOK

LEMMA FreeFailsOK ==
  ASSUME BookingInv, NEW c \in Students, FreeFails(c) PROVE StepOK
<1>1. [Statement]_tables /\ Later
  BY TablesLater DEF FreeFails
<1>2. page' \in [Students -> PageRecord] /\ Pages'
  BY <1>1, FinishPages, GotoPages DEF FreeFails, At, PC
<1>3. RestOK'
  BY FaultType DEF FreeFails, BookingInv, RestOK, serverVars
<1>4. ReopenFollowsDelete'
  BY <1>1, ReopenStays DEF FreeFails, serverVars
<1>5. QED
  BY <1>1, <1>2, <1>3, <1>4 DEF StepOK

\* The first half of the DeleteSession handler.
LEMMA DeleteSessionFacts ==
  ASSUME BookingInv, NEW r \in sessions, DeleteSession(r)
  PROVE  /\ [Statement]_tables
         /\ Later
         /\ r.id \in SessionIds \ freshIds'
         /\ \A q \in sessions' : q.id # r.id
         /\ reopening' \subseteq [id : SessionIds, slot : Slots]
         /\ deletedAt' \in [SessionIds -> SUBSET SessionIds]
         /\ ReopenFollowsDelete'
<1>1. [Statement]_tables /\ Later
  BY DeleteIsStatement, TablesLater DEF DeleteSession
<1>2. r \in Row /\ r.id \notin freshIds
  BY DEF BookingInv, TableInv, TypeOKTables, IdsIdentifyRows
<1>3. r.id \in SessionIds \ freshIds' /\ \A q \in sessions' : q.id # r.id
  BY <1>2 DEF DeleteSession, DeleteSessionRow, BookingInv, TableInv,
              IdsIdentifyRows, Row
<1>4. reopening' \subseteq [id : SessionIds, slot : Slots]
  BY <1>2 DEF DeleteSession, BookingInv, RestOK, Row
<1>7. deletedAt' \in [SessionIds -> SUBSET SessionIds]
  BY DEF DeleteSession, BookingInv, RestOK
<1>5. ReopenFollowsDelete'
  <2> SUFFICES ASSUME NEW t \in reopening' PROVE Gone(t.id)'
    BY DEF ReopenFollowsDelete
  <2>1. CASE t \in reopening
    <3>1. Gone(t.id)
      BY <2>1 DEF BookingInv, ReopenFollowsDelete
    <3>2. QED
      BY <1>1, <3>1, GoneStays DEF Gone
  <2>2. CASE t = [id |-> r.id, slot |-> r.slot]
    BY <1>3, <2>2 DEF Gone
  <2>3. QED
    BY <2>1, <2>2 DEF DeleteSession
<1>6. QED
  BY <1>1, <1>3, <1>4, <1>5, <1>7

LEMMA CancelSessionOK ==
  ASSUME BookingInv, NEW c \in Students, CancelSession(c) PROVE StepOK
<1>1. PICK r \in sessions : r.id = page[c].id /\ DeleteSession(r)
  BY DEF CancelSession
<1>2. /\ [Statement]_tables /\ Later /\ ReopenFollowsDelete'
      /\ page[c].id \in SessionIds \ freshIds'
      /\ \A q \in sessions' : q.id # page[c].id
      /\ reopening' \subseteq [id : SessionIds, slot : Slots]
      /\ deletedAt' \in [SessionIds -> SUBSET SessionIds]
  BY <1>1, DeleteSessionFacts
<1>3. page' \in [Students -> PageRecord] /\ Pages'
  BY <1>2, GotoPages DEF CancelSession, At, PC
<1>4. RestOK'
  BY <1>2, FaultType DEF CancelSession, BookingInv, RestOK
<1>5. QED
  BY <1>2, <1>3, <1>4 DEF StepOK

LEMMA CancelFailsOK ==
  ASSUME BookingInv, NEW c \in Students, CancelFails(c) PROVE StepOK
<1>1. [Statement]_tables /\ Later
  BY TablesLater DEF CancelFails
<1>2. page' \in [Students -> PageRecord] /\ Pages'
  BY <1>1, FinishPages DEF CancelFails
<1>3. RestOK'
  BY FaultType DEF CancelFails, BookingInv, RestOK, serverVars
<1>4. ReopenFollowsDelete'
  BY <1>1, ReopenStays DEF CancelFails, serverVars
<1>5. QED
  BY <1>1, <1>2, <1>3, <1>4 DEF StepOK

\* The second half of the handler answers the page that waits for it.
LEMMA ReopenSlotOK ==
  ASSUME BookingInv, NEW t \in reopening, ReopenSlot(t) PROVE StepOK
<1>0. t.slot \in Slots
  BY DEF BookingInv, RestOK
<1>1. [Statement]_tables /\ Later
  BY <1>0, WriteIsStatement, TablesLater DEF ReopenSlot, Status, Open
<1>2. ASSUME NEW c \in Students
      PROVE  GoodPage(c, page'[c], sessions', freshIds')
  <2>1. CASE ~Waiting(c, t)
    BY <1>1, <2>1, PageStays DEF ReopenSlot, BookingInv, Pages
  <2>2. CASE Waiting(c, t)
    <3> DEFINE step == IF page[c].seen = "booked" THEN "free" ELSE "reload"
               p == [page[c] EXCEPT !.pc = step]
    <3>1. page[c] \in PageRecord /\ page[c].slot \in Slots
      BY <2>2 DEF BookingInv, Pages, GoodPage, Waiting, At
    <3>2. page[c].id \in SessionIds \ freshIds /\ \A r \in sessions : r.id # page[c].id
      BY <2>2 DEF BookingInv, Pages, GoodPage, Waiting, At
    <3>3. page[c].id \in SessionIds \ freshIds' /\ \A r \in sessions' : r.id # page[c].id
      BY <1>1, <3>2, GoneStays DEF Gone
    <3>4. /\ p \in PageRecord /\ p.pc \in {"free", "reload"}
          /\ p.slot = page[c].slot /\ p.id = page[c].id
      BY <3>1 DEF PageRecord, PC
    <3>5. page'[c] = p
      BY <2>2 DEF ReopenSlot
    <3> HIDE DEF p
    <3>6. QED
      BY <3>1, <3>3, <3>4, <3>5 DEF GoodPage
  <2>3. QED
    BY <2>1, <2>2
<1>3. page' \in [Students -> PageRecord]
  BY <1>2 DEF ReopenSlot, GoodPage
<1>4. RestOK'
  BY FaultType DEF ReopenSlot, BookingInv, RestOK
<1>5. ReopenFollowsDelete'
  BY <1>1, ReopenStays DEF ReopenSlot
<1>6. QED
  BY <1>1, <1>2, <1>3, <1>4, <1>5 DEF StepOK, Pages

LEMMA ReopenFailsOK ==
  ASSUME BookingInv, NEW t \in reopening, ReopenFails(t) PROVE StepOK
<1>1. [Statement]_tables /\ Later
  BY TablesLater DEF ReopenFails
<1>2. ASSUME NEW c \in Students
      PROVE  GoodPage(c, page'[c], sessions', freshIds')
  BY <1>1, PageStays, IdleGood DEF ReopenFails, BookingInv, Pages
<1>3. page' \in [Students -> PageRecord]
  BY <1>2 DEF ReopenFails, GoodPage
<1>4. RestOK'
  BY FaultType DEF ReopenFails, BookingInv, RestOK
<1>5. ReopenFollowsDelete'
  BY <1>1, ReopenStays DEF ReopenFails
<1>6. QED
  BY <1>1, <1>2, <1>3, <1>4, <1>5 DEF StepOK, Pages

LEMMA MentorCancelOK ==
  ASSUME BookingInv, NEW r \in sessions, MentorCancel(r) PROVE StepOK
<1>1. /\ [Statement]_tables /\ Later /\ ReopenFollowsDelete'
      /\ reopening' \subseteq [id : SessionIds, slot : Slots]
      /\ deletedAt' \in [SessionIds -> SUBSET SessionIds]
  BY DeleteSessionFacts DEF MentorCancel
<1>2. page' \in [Students -> PageRecord] /\ Pages'
  BY <1>1, SamePages DEF MentorCancel, clientVars
<1>3. RestOK'
  BY <1>1 DEF MentorCancel, BookingInv, RestOK, clientVars
<1>4. QED
  BY <1>1, <1>2, <1>3 DEF StepOK

\* Every other step leaves the screens and the handlers of deletions alone.
LEMMA QuietOK ==
  ASSUME BookingInv, [Statement]_tables, UNCHANGED <<clientVars, reopening, deletedAt, faults>>,
         rating' \subseteq SessionIds
  PROVE  StepOK
<1>1. Later
  BY TablesLater
<1>2. page' \in [Students -> PageRecord] /\ Pages'
  BY <1>1, SamePages DEF clientVars
<1>3. RestOK'
  BY DEF BookingInv, RestOK, clientVars
<1>4. ReopenFollowsDelete'
  BY <1>1, ReopenStays
<1>5. QED
  BY <1>2, <1>3, <1>4 DEF StepOK

LEMMA ClientOK ==
  ASSUME BookingInv, NEW c \in Students, Client(c) PROVE StepOK
BY LoadSlotsOK, StartBookingOK, StartCancelOK, LeaveOK, MarkBookedOK, MarkFailsOK,
   CreateSessionOK, CreateFailsOK, FreeSlotOK, FreeFailsOK, CancelSessionOK,
   CancelFailsOK
DEF Client, Answer

LEMMA ServerOK == ASSUME BookingInv, Server PROVE StepOK
<1> USE DEF serverVars
<1>0. rating \subseteq SessionIds
  BY DEF BookingInv, RestOK
<1>1. ASSUME NEW t \in reopening, Reopen(t) PROVE StepOK
  BY <1>1, ReopenSlotOK, ReopenFailsOK DEF Reopen
<1>2. ASSUME NEW r \in sessions, StartRating(r) PROVE StepOK
  <2>1. r.id \in SessionIds
    BY DEF BookingInv, TableInv, TypeOKTables, Row
  <2>2. QED
    BY <1>0, <1>2, <2>1, QuietOK DEF StartRating
<1>3. ASSUME NEW i \in rating, CommitRating(i) PROVE StepOK
  <2>1. [Statement]_tables
    BY <1>3 DEF CommitRating, Statement, SessionStatement
  <2>2. QED
    BY <1>0, <1>3, <2>1, QuietOK DEF CommitRating
<1>4. ASSUME CloseExpiredSlots PROVE StepOK
  BY <1>0, <1>4, QuietOK DEF CloseExpiredSlots, Statement
<1>5. QED
  BY <1>1, <1>2, <1>3, <1>4 DEF Server

LEMMA OthersOK == ASSUME BookingInv, Others PROVE StepOK
<1> USE DEF serverVars
<1>0. rating \subseteq SessionIds
  BY DEF BookingInv, RestOK
<1>1. ASSUME NEW s \in Slots, CreateSlot(s) PROVE StepOK
  BY <1>0, <1>1, QuietOK DEF CreateSlot, Statement, SlotStatement
<1>2. ASSUME NEW s \in Slots, UpdateSlot(s) PROVE StepOK
  BY <1>0, <1>2, QuietOK DEF UpdateSlot, Statement, SlotStatement
<1>3. ASSUME NEW s \in Slots, DeleteSlot(s) PROVE StepOK
  BY <1>0, <1>3, QuietOK DEF DeleteSlot, Statement, SlotStatement
<1>4. ASSUME NEW s \in Slots, SlotEnds(s) PROVE StepOK
  BY <1>0, <1>4, QuietOK DEF SlotEnds, Statement, SlotStatement
<1>5. ASSUME NEW s \in Slots, NEW st \in Status, UpdateSlotStatus(s, st)
      PROVE  StepOK
  BY <1>0, <1>5, QuietOK DEF UpdateSlotStatus, Statement, SlotStatement
<1>6. ASSUME NEW r \in sessions, EditSession(r) PROVE StepOK
  <2>1. r.payment \in Payment /\ "pending" \in Payment /\ "paid" \in Payment
    BY DEF BookingInv, TableInv, TypeOKTables, Row, Payment
  <2>2. [Statement]_tables
    BY <1>6, <2>1 DEF EditSession, Statement, SessionStatement
  <2>3. QED
    BY <1>0, <1>6, <2>2, QuietOK DEF EditSession
<1>7. ASSUME NEW r \in sessions, MentorCancel(r) PROVE StepOK
  BY <1>7, MentorCancelOK
<1>8. QED
  BY <1>1, <1>2, <1>3, <1>4, <1>5, <1>6, <1>7 DEF Others

(***************************************************************************)
(* The theorems.                                                           *)
(***************************************************************************)

LEMMA BookingInit == Init => BookingInv
<1> SUFFICES ASSUME Init PROVE BookingInv
  OBVIOUS
<1>1. TableInv
  BY TableInit DEF Init
<1>2. page \in [Students -> PageRecord] /\ Pages
  <2>1. \A c \in Students : GoodPage(c, page[c], sessions, freshIds)
    BY IdleGood DEF Init
  <2>2. QED
    BY <2>1 DEF Pages, GoodPage, Init
<1>3. RestOK
  BY BookingAssumption DEF Init, RestOK, Seen
<1>4. ReopenFollowsDelete
  BY DEF Init, ReopenFollowsDelete
<1>5. QED
  BY <1>1, <1>2, <1>3, <1>4 DEF BookingInv

LEMMA BookingStepOK == BookingInv /\ [Next]_vars => StepOK
<1> SUFFICES ASSUME BookingInv, [Next]_vars PROVE StepOK
  OBVIOUS
<1>1. ASSUME UNCHANGED vars PROVE StepOK
  BY <1>1, QuietOK DEF vars, serverVars, BookingInv, RestOK
<1>2. QED
  BY <1>1, ClientOK, ServerOK, OthersOK DEF Next

LEMMA BookingStep == BookingInv /\ [Next]_vars => BookingInv'
BY BookingStepOK, TableStep DEF StepOK, BookingInv

LEMMA BookingInvariant == Spec => []BookingInv
BY BookingInit, BookingStep, PTL DEF Spec

\* Every variable of the booking system keeps its type.
THEOREM BookingTypeCorrect == Spec => []TypeOK
<1>1. BookingInv => TypeOK
  BY DEF BookingInv, TableInv, RestOK, TypeOK, PageRecord
<1>2. QED
  BY <1>1, BookingInvariant, PTL

\* Clients, handlers and the ticker together take only steps of the database,
\* so that what is proved of SessionTables holds of the whole system.
THEOREM BookingImplementsTables == Spec => SpecTables
<1>1. Init => InitTables
  BY DEF Init
<1>2. BookingInv /\ [Next]_vars => [Statement]_tables
  BY BookingStepOK DEF StepOK
<1>3. QED
  BY <1>1, <1>2, BookingInvariant, PTL DEF Spec, SpecTables

\* Two students who race for a slot, however their requests interleave, fail
\* or are lost, never both end up with a session on it.
THEOREM RaceHasOneWinner == Spec => []OneSessionPerSlot
BY BookingImplementsTables, SlotNeverDoubleBooked, PTL

\* The whole system implements the booking ledger.
THEOREM BookingImplementsLedger == Spec => ImplementsLedger
BY BookingImplementsTables, TablesImplementLedger, PTL

\* The web page frees a slot only after a session of its own was deleted: the
\* loser of a race never frees the winner's slot.
THEOREM LoserFreesNothing == Spec => []WebFreesOnlyAfterCancel
<1>1. BookingInv => WebFreesOnlyAfterCancel
  BY DEF BookingInv, Pages, GoodPage, WebFreesOnlyAfterCancel, Gone, At, Web
<1>2. QED
  BY <1>1, BookingInvariant, PTL

(***************************************************************************)
(* What a cancellation exposes.                                            *)
(***************************************************************************)

\* The ids in use at a DELETE are used up; a page that cancels, or waits for
\* its handler, is about the slot that the handler re-opens.
ExposeInv ==
  /\ \A i \in SessionIds : deletedAt[i] \cap freshIds = {}
  /\ \A c \in Students :
       /\ At(c, "delete") =>
            \A r \in sessions : r.id = page[c].id => r.slot = page[c].slot
       /\ At(c, "deleting") =>
            \A t \in reopening : t.id = page[c].id => t.slot = page[c].slot
  /\ CancelExposesOnlyLaterBooking

\* No page enters a step of a cancellation.
NoneEnters ==
  \A c \in Students :
    \/ page'[c] = page[c]
    \/ page'[c].pc \notin {"delete", "deleting", "free"}
    \/ c \notin Web /\ page'[c].pc = "free"

\* A booking is either as old as it was, or new: with an id not used before.
LEMMA ExposeStays ==
  ASSUME BookingInv, ExposeInv, Later, NoneEnters, deletedAt' = deletedAt,
         reopening' \subseteq reopening
  PROVE  ExposeInv'
<1>0. reopening \subseteq [id : SessionIds, slot : Slots]
  BY DEF BookingInv, RestOK
<1>1. \A i \in SessionIds : (deletedAt[i] \cap freshIds = {})'
  BY DEF ExposeInv, Later
<1>2. ASSUME NEW c \in Students, At(c, "delete")' \/ At(c, "deleting")'
      PROVE  page'[c] = page[c]
  BY <1>2 DEF NoneEnters, At
<1>3. ASSUME NEW c \in Students, At(c, "delete")', NEW q \in sessions', q.id = page'[c].id
      PROVE  q.slot = page'[c].slot
  <2>1. page[c].id \notin freshIds /\ At(c, "delete")
    BY <1>2, <1>3 DEF BookingInv, Pages, GoodPage, At
  <2>2. PICK r \in sessions : r.id = q.id /\ r.slot = q.slot
    BY <1>2, <1>3, <2>1 DEF Later
  <2>3. QED
    BY <1>2, <1>3, <2>1, <2>2 DEF ExposeInv
<1>4. ASSUME NEW c \in Students, At(c, "deleting")', NEW t \in reopening', t.id = page'[c].id
      PROVE  t.slot = page'[c].slot
  BY <1>2, <1>4 DEF ExposeInv, At
<1>5. ASSUME NEW i \in SessionIds, NEW q \in sessions', q.id \in deletedAt[i]
      PROVE  \E r \in sessions : r.id = q.id /\ r.slot = q.slot
  BY <1>5 DEF ExposeInv, Later
<1>6. CancelExposesOnlyLaterBooking'
  <2>1. ASSUME NEW q \in sessions', NEW t \in reopening', t.slot = q.slot
        PROVE  q.id \notin deletedAt'[t.id]
    BY <1>0, <1>5, <2>1 DEF ExposeInv, CancelExposesOnlyLaterBooking
  <2>2. ASSUME NEW q \in sessions', NEW c \in Web, At(c, "free")', page'[c].slot = q.slot
        PROVE  q.id \notin deletedAt'[page'[c].id]
    <3>1. page'[c] = page[c] /\ At(c, "free") /\ page[c].id \in SessionIds
      BY <2>2 DEF NoneEnters, At, Web, BookingInv, Pages, GoodPage
    <3>2. QED
      BY <1>5, <2>2, <3>1 DEF ExposeInv, CancelExposesOnlyLaterBooking
  <2>3. QED
    BY <2>1, <2>2 DEF CancelExposesOnlyLaterBooking
<1>7. QED
  BY <1>1, <1>3, <1>4, <1>6 DEF ExposeInv

\* The DELETE itself: UNIQUE(slot_id) leaves no older booking on the slot.
LEMMA DeleteExposesNone ==
  ASSUME BookingInv, ExposeInv, NEW r \in sessions, DeleteSession(r),
         \A c \in Students :
           \/ page'[c] = page[c]
           \/ At(c, "delete") /\ page[c].id = r.id
              /\ page'[c] = [page[c] EXCEPT !.pc = "deleting"]
  PROVE  ExposeInv'
<1>0. /\ reopening \subseteq [id : SessionIds, slot : Slots]
      /\ deletedAt \in [SessionIds -> SUBSET SessionIds]
      /\ page \in [Students -> PageRecord]
  BY DEF BookingInv, RestOK
<1>1. r \in Row /\ \A q \in sessions : q.slot = r.slot => q = r
  BY DEF BookingInv, TableInv, TypeOKTables, OneSessionPerSlot
<1>2. /\ sessions' = sessions \ {r} /\ freshIds' = freshIds
      /\ reopening' = reopening \union {[id |-> r.id, slot |-> r.slot]}
      /\ deletedAt' = [deletedAt EXCEPT ![r.id] = SessionIds \ freshIds]
  BY DEF DeleteSession, DeleteSessionRow
<1>3. \A i \in SessionIds : deletedAt'[i] \cap freshIds' = {}
  BY <1>0, <1>1, <1>2 DEF ExposeInv, Row
<1>4. \A t \in reopening : t.id # r.id /\ t.id \in SessionIds
  BY <1>0 DEF BookingInv, ReopenFollowsDelete, Gone
<1>5. ASSUME NEW c \in Students PROVE page'[c].slot = page[c].slot /\ page'[c].id = page[c].id
  <2>1. CASE page'[c] = page[c]
    BY <2>1
  <2>2. CASE page'[c] = [page[c] EXCEPT !.pc = "deleting"]
    BY <1>0, <2>2 DEF PageRecord
  <2>3. QED
    BY <2>1, <2>2
<1>6. ASSUME NEW c \in Students
      PROVE  /\ At(c, "delete")' =>
                  \A q \in sessions' : q.id = page'[c].id => q.slot = page'[c].slot
             /\ At(c, "deleting")' =>
                  \A t \in reopening' : t.id = page'[c].id => t.slot = page'[c].slot
  <2>1. CASE page'[c] = page[c]
    <3>1. At(c, "deleting") => page[c].id # r.id
      BY DEF BookingInv, Pages, GoodPage, At
    <3>2. QED
      BY <1>2, <2>1, <3>1 DEF ExposeInv, At
  <2>2. CASE /\ At(c, "delete") /\ page[c].id = r.id
             /\ page'[c] = [page[c] EXCEPT !.pc = "deleting"]
    <3>1. page'[c].pc = "deleting" /\ r.slot = page[c].slot
      BY <1>0, <2>2 DEF PageRecord, ExposeInv
    <3>2. QED
      BY <1>2, <1>4, <1>5, <2>2, <3>1 DEF At
  <2>3. QED
    BY <2>1, <2>2
<1>7. CancelExposesOnlyLaterBooking'
  <2>1. ASSUME NEW q \in sessions', NEW t \in reopening', t.slot = q.slot
        PROVE  q.id \notin deletedAt'[t.id]
    <3>1. CASE t \in reopening
      BY <1>0, <1>1, <1>2, <1>4, <2>1, <3>1 DEF ExposeInv, CancelExposesOnlyLaterBooking, Row
    <3>2. CASE t = [id |-> r.id, slot |-> r.slot]
      BY <1>1, <1>2, <2>1, <3>2
    <3>3. QED
      BY <1>2, <3>1, <3>2
  <2>2. ASSUME NEW q \in sessions', NEW c \in Web, At(c, "free")', page'[c].slot = q.slot
        PROVE  q.id \notin deletedAt'[page'[c].id]
    <3>1. c \in Students /\ At(c, "free") /\ page'[c] = page[c]
      BY <1>0, <2>2 DEF At, Web, PageRecord
    <3>2. page[c].id \in SessionIds /\ page[c].id # r.id
      BY <3>1, <2>2 DEF BookingInv, Pages, GoodPage, At
    <3>3. QED
      BY <1>0, <1>1, <1>2, <2>2, <3>1, <3>2 DEF ExposeInv, CancelExposesOnlyLaterBooking, Row
  <2>3. QED
    BY <2>1, <2>2 DEF CancelExposesOnlyLaterBooking
<1>8. QED
  BY <1>3, <1>6, <1>7 DEF ExposeInv

\* A page that starts to cancel takes slot and id from one row.
LEMMA StartCancelExposes ==
  ASSUME BookingInv, ExposeInv, NEW c \in Students, NEW r \in sessions, StartCancel(c, r)
  PROVE  ExposeInv'
<1>1. /\ UNCHANGED <<sessions, freshIds, reopening, deletedAt>>
      /\ \A d \in Students : d # c => page'[d] = page[d]
      /\ page'[c].pc = "delete" /\ page'[c].slot = r.slot /\ page'[c].id = r.id
  BY DEF StartCancel, tables, serverVars, BookingInv
<1>2. \A q \in sessions : q.id = r.id => q = r
  BY DEF BookingInv, TableInv, IdsIdentifyRows
<1>3. CancelExposesOnlyLaterBooking'
  BY <1>1 DEF ExposeInv, CancelExposesOnlyLaterBooking, At, Web
<1>4. QED
  BY <1>1, <1>2, <1>3 DEF ExposeInv, At

\* The handler answers the page that waits for it, which may go on to free the
\* slot again: what held of the handler holds of the page.
LEMMA ReopenSlotExposes ==
  ASSUME BookingInv, ExposeInv, NEW t \in reopening, ReopenSlot(t) PROVE ExposeInv'
<1>1. /\ UNCHANGED <<sessions, freshIds, deletedAt>> /\ reopening' \subseteq reopening
      /\ \A c \in Students : ~Waiting(c, t) => page'[c] = page[c]
  BY DEF ReopenSlot, WriteStatus
<1>2. ASSUME NEW c \in Students, Waiting(c, t)
      PROVE  /\ page'[c].pc \in {"free", "reload"}
             /\ page'[c].slot = t.slot /\ page'[c].id = t.id
  <2>1. page[c] \in PageRecord /\ page[c].id = t.id /\ page[c].slot = t.slot
    BY <1>2 DEF BookingInv, ExposeInv, Waiting
  <2> DEFINE step == IF page[c].seen = "booked" THEN "free" ELSE "reload"
  <2>2. step \in {"free", "reload"} /\ page'[c] = [page[c] EXCEPT !.pc = step]
    BY <1>2 DEF ReopenSlot
  <2> HIDE DEF step
  <2>3. QED
    BY <2>1, <2>2 DEF PageRecord
<1>3. CancelExposesOnlyLaterBooking'
  BY <1>1, <1>2 DEF ExposeInv, CancelExposesOnlyLaterBooking, At, Web
<1>4. QED
  BY <1>1, <1>2, <1>3 DEF ExposeInv, At

\* The remaining steps of a screen enter no step of a cancellation.
LEMMA ClientEnters ==
  ASSUME BookingInv, NEW c \in Students, Client(c), ~CancelSession(c),
         \A r \in sessions : ~StartCancel(c, r)
  PROVE  NoneEnters /\ UNCHANGED <<reopening, deletedAt>>
<1>0. page \in [Students -> PageRecord]
  BY DEF BookingInv
<1>1. /\ UNCHANGED <<reopening, deletedAt>>
      /\ \/ Finish(c)
         \/ \E s \in Slots : StartBooking(c, s)
         \/ \E step \in {"create", "reload"} : Goto(c, step)
         \/ page[c].pc \in {"mark", "create"} /\ RollbackNext(c)
  BY DEF Client, Answer, LoadSlots, StartBooking, Leave, MarkBooked, MarkFails,
     ShowFailure, CreateSession, CreateFails, FreeSlot, FreeFails, CancelFails,
     serverVars, At
<1>2. ASSUME Finish(c) PROVE NoneEnters
  BY <1>0, <1>2 DEF Finish, Idle, NoneEnters
<1>3. ASSUME NEW s \in Slots, StartBooking(c, s) PROVE NoneEnters
  BY <1>0, <1>3 DEF StartBooking, NoneEnters
<1>4. ASSUME NEW step \in {"create", "reload"}, Goto(c, step) PROVE NoneEnters
  BY <1>0, <1>4 DEF Goto, NoneEnters, PageRecord
<1>5. ASSUME page[c].pc \in {"mark", "create"}, RollbackNext(c) PROVE NoneEnters
  <2>1. c \in Web => page[c].seen # "booked"
    BY <1>5 DEF BookingInv, Pages, GoodPage
  <2>2. Finish(c) \/ (c \notin Web /\ Goto(c, "free"))
    BY <1>5, <2>1 DEF RollbackNext, Web
  <2>3. QED
    BY <1>0, <1>2, <2>2 DEF Goto, NoneEnters, PageRecord
<1>6. QED
  BY <1>1, <1>2, <1>3, <1>4, <1>5

LEMMA ExposeStep == BookingInv /\ ExposeInv /\ [Next]_vars => ExposeInv'
<1> SUFFICES ASSUME BookingInv, ExposeInv, [Next]_vars PROVE ExposeInv'
  OBVIOUS
<1>0. Later /\ page \in [Students -> PageRecord]
  BY BookingStepOK, TablesLater DEF StepOK, BookingInv
<1>1. ASSUME UNCHANGED <<page, reopening, deletedAt>> PROVE ExposeInv'
  BY <1>0, <1>1, ExposeStays DEF NoneEnters
<1>2. ASSUME NEW c \in Students, Client(c) PROVE ExposeInv'
  <2>1. CASE CancelSession(c)
    <3>1. PICK r \in sessions : r.id = page[c].id /\ DeleteSession(r)
      BY <2>1 DEF CancelSession
    <3>2. page' = [page EXCEPT ![c].pc = "deleting"] /\ At(c, "delete")
      BY <2>1 DEF CancelSession, Goto
    <3>3. /\ \A d \in Students : d # c => page'[d] = page[d]
          /\ page'[c] = [page[c] EXCEPT !.pc = "deleting"]
      BY <1>0, <3>2
    <3>4. QED
      BY <3>1, <3>2, <3>3, DeleteExposesNone
  <2>2. CASE \E r \in sessions : StartCancel(c, r)
    BY <2>2, StartCancelExposes
  <2>3. CASE ~CancelSession(c) /\ \A r \in sessions : ~StartCancel(c, r)
    BY <1>0, <1>2, <2>3, ClientEnters, ExposeStays
  <2>4. QED
    BY <2>1, <2>2, <2>3
<1>3. ASSUME Server PROVE ExposeInv'
  <2>1. ASSUME NEW t \in reopening, ReopenSlot(t) PROVE ExposeInv'
    BY <2>1, ReopenSlotExposes
  <2>2. ASSUME NEW t \in reopening, ReopenFails(t) PROVE ExposeInv'
    <3>1. UNCHANGED deletedAt /\ reopening' \subseteq reopening /\ NoneEnters
      BY <2>2 DEF ReopenFails, NoneEnters, Idle
    <3>2. QED
      BY <1>0, <3>1, ExposeStays
  <2>3. QED
    BY <1>1, <1>3, <2>1, <2>2
    DEF Server, Reopen, StartRating, CommitRating, CloseExpiredSlots, clientVars, serverVars
<1>4. ASSUME Others PROVE ExposeInv'
  <2>1. ASSUME NEW r \in sessions, MentorCancel(r) PROVE ExposeInv'
    BY <2>1, DeleteExposesNone DEF MentorCancel, clientVars
  <2>2. QED
    BY <1>1, <1>4, <2>1 DEF Others, CreateSlot, UpdateSlot, DeleteSlot, SlotEnds,
       UpdateSlotStatus, EditSession, clientVars, serverVars
<1>5. CASE UNCHANGED vars
  BY <1>1, <1>5 DEF vars, clientVars, serverVars
<1>6. QED
  BY <1>2, <1>3, <1>4, <1>5 DEF Next

\* A cancellation makes a slot look free under another student only if that
\* student booked it after the cancelled session was deleted, however the
\* handlers, the page's own second write and other bookings interleave.
THEOREM CancelExposesLater == Spec => []CancelExposesOnlyLaterBooking
<1>1. Init => ExposeInv
  BY DEF Init, InitTables, Idle, At, Web, ExposeInv, CancelExposesOnlyLaterBooking
<1>2. ExposeInv => CancelExposesOnlyLaterBooking
  BY DEF ExposeInv
<1>3. QED
  BY <1>1, <1>2, ExposeStep, BookingInvariant, PTL DEF Spec

\* A request leaves "rating" only by its own CommitRating.
LEMMA OnlyCommitEndsRating ==
  ASSUME Next, NEW i \in rating, i \notin rating' PROVE CommitRating(i)
<1> USE DEF serverVars
<1>1. ASSUME NEW c \in Students, Client(c) PROVE rating' = rating
  BY <1>1 DEF Client, Answer, LoadSlots, StartBooking, StartCancel, Leave,
     MarkBooked, MarkFails, ShowFailure, CreateSession, CreateFails, FreeSlot,
     FreeFails, CancelSession, CancelFails
<1>2. ASSUME Others PROVE rating' = rating
  BY <1>2 DEF Others, CreateSlot, UpdateSlot, DeleteSlot, SlotEnds,
     UpdateSlotStatus, EditSession, MentorCancel
<1>3. ASSUME NEW t \in reopening, Reopen(t) PROVE rating' = rating
  BY <1>3 DEF Reopen, ReopenSlot, ReopenFails
<1>4. ASSUME NEW r \in sessions, StartRating(r) PROVE rating \subseteq rating'
  BY <1>4 DEF StartRating
<1>5. ASSUME CloseExpiredSlots PROVE rating' = rating
  BY <1>5 DEF CloseExpiredSlots
<1>6. ASSUME NEW j \in rating, CommitRating(j) PROVE CommitRating(i)
  <2>1. j = i
    BY <1>6 DEF CommitRating
  <2>2. QED
    BY <1>6, <2>1
<1>7. QED
  BY <1>1, <1>2, <1>3, <1>4, <1>5, <1>6 DEF Next, Server

\* A rating reaches only a session that is paid at the moment of the write,
\* although the gateway looked at the payment in an earlier call.
THEOREM RatesOnlyPaid == Spec => RatingNeedsPayment
<1> DEFINE A == \A i \in rating \ rating', r \in sessions \ sessions' :
                  r.id = i => r.payment = "paid"
<1>1. ASSUME [Next]_vars PROVE A \/ UNCHANGED vars
  <2> SUFFICES ASSUME Next, NEW i \in rating \ rating',
                      NEW r \in sessions \ sessions', r.id = i
               PROVE  r.payment = "paid"
    BY <1>1
  <2>1. CommitRating(i)
    BY OnlyCommitEndsRating
  <2>2. PICK q \in sessions : RateRow(q)
    BY <2>1 DEF CommitRating, tables
  <2>3. r = q
    BY <2>2 DEF RateRow
  <2>4. QED
    BY <2>2, <2>3 DEF RateRow
<1>2. QED
  BY <1>1, PTL DEF Spec, RatingNeedsPayment

\* A page goes from "delete" to "deleting" only by its own request.
LEMMA OnlyCancelDeletes ==
  ASSUME BookingInv, Next, NEW c \in Students, At(c, "delete"),
         page'[c].pc = "deleting"
  PROVE  CancelSession(c)
<1> USE DEF clientVars, At
<1>0. page \in [Students -> PageRecord] /\ page' \in [Students -> PageRecord]
  BY BookingStepOK DEF StepOK, BookingInv
<1>1. ASSUME NEW d \in Students, Client(d) PROVE CancelSession(c)
  <2>1. \A e \in Students : e # d => page'[e] = page[e]
    BY <1>0, <1>1 DEF Client, Answer, LoadSlots, StartBooking, StartCancel, Leave,
       MarkBooked, MarkFails, ShowFailure, RollbackNext, CreateSession, CreateFails,
       FreeSlot, FreeFails, CancelSession, CancelFails, Goto, Finish
  <2>2. d = c
    BY <2>1
  <2>3. ~Finish(c)
    BY <1>0 DEF Finish, Idle
  <2>4. QED
    BY <1>1, <2>2, <2>3 DEF Client, Answer, LoadSlots, StartBooking, StartCancel,
       Leave, MarkBooked, MarkFails, CreateSession, CreateFails, FreeSlot,
       FreeFails, CancelFails
<1>2. ASSUME Others PROVE page' = page
  BY <1>2 DEF Others, CreateSlot, UpdateSlot, DeleteSlot, SlotEnds,
     UpdateSlotStatus, EditSession, MentorCancel
<1>3. ASSUME NEW t \in reopening, Reopen(t) PROVE page'[c] = page[c]
  BY <1>3 DEF Reopen, ReopenSlot, ReopenFails, Waiting
<1>4. ASSUME \/ \E r \in sessions : StartRating(r)
             \/ \E i \in rating : CommitRating(i)
             \/ CloseExpiredSlots
      PROVE  page' = page
  BY <1>4 DEF StartRating, CommitRating, CloseExpiredSlots
<1>5. QED
  BY <1>1, <1>2, <1>3, <1>4 DEF Next, Server

\* A cancellation removes exactly a session of the student who asked for it,
\* however old the list it was chosen from.
THEOREM CancelsOwnSession == Spec => CancelRemovesOwn
<1> DEFINE A == \A c \in Students :
                  At(c, "delete") /\ page'[c].pc = "deleting" =>
                    /\ sessions' # sessions
                    /\ \A r \in sessions \ sessions' : r.student = c
<1>1. ASSUME BookingInv, [Next]_vars PROVE A \/ UNCHANGED vars
  <2> SUFFICES ASSUME Next, NEW c \in Students, At(c, "delete"),
                      page'[c].pc = "deleting"
               PROVE  /\ sessions' # sessions
                      /\ \A r \in sessions \ sessions' : r.student = c
    BY <1>1
  <2>1. CancelSession(c)
    BY <1>1, OnlyCancelDeletes
  <2>2. PICK q \in sessions : q.id = page[c].id /\ DeleteSessionRow(q)
    BY <2>1 DEF CancelSession, DeleteSession
  <2>3. q.student = c
    BY <1>1, <2>2 DEF BookingInv, Pages, GoodPage, At
  <2>4. QED
    BY <2>2, <2>3 DEF DeleteSessionRow
<1>2. QED
  BY <1>1, BookingInvariant, PTL DEF Spec, CancelRemovesOwn
=============================================================================
