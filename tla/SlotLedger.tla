----------------------------- MODULE SlotLedger -----------------------------
(***************************************************************************)
(* What session_service promises about bookings, whatever its clients do:  *)
(* a slot is held by at most one student, is handed over only through      *)
(* being free, and once removed is never held again.                       *)
(***************************************************************************)
EXTENDS FiniteSets

CONSTANTS Slots, Students

VARIABLES
  holder,   \* the set of students who hold each slot: empty or one student
  retired   \* slots that were removed

Init ==
  /\ holder = [s \in Slots |-> {}]
  /\ retired = {}

Book(s, c) ==
  /\ s \notin retired
  /\ holder[s] = {}
  /\ holder' = [holder EXCEPT ![s] = {c}]
  /\ UNCHANGED retired

Release(s) ==
  /\ holder[s] # {}
  /\ holder' = [holder EXCEPT ![s] = {}]
  /\ UNCHANGED retired

Retire(s) ==
  /\ s \notin retired
  /\ holder' = [holder EXCEPT ![s] = {}]
  /\ retired' = retired \union {s}

Next ==
  \E s \in Slots :
    \/ \E c \in Students : Book(s, c)
    \/ Release(s)
    \/ Retire(s)

Spec == Init /\ [][Next]_<<holder, retired>>
=============================================================================
