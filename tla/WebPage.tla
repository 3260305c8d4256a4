------------------------------ MODULE WebPage ------------------------------
(***************************************************************************)
(* What the models of the web pages share: one page is mounted at a time   *)
(* (App.tsx), and its state is lost when it unmounts.  A page has a state, *)
(* requests under way, and the part of the server it works on; answers     *)
(* come in any order, or not at all.                                       *)
(***************************************************************************)
EXTENDS Naturals, FiniteSets, Sequences, Bags, TLC

CONSTANTS
  MaxCalls,   \* bound on the requests under way at a time
  MaxTrouble, \* bound on others' changes to the server's rows and failed requests, together
  None

ASSUME PageAssumption == MaxCalls \in Nat /\ MaxTrouble \in Nat

VARIABLES
  page,     \* React state, refs and timers of the page
  server,   \* the rows the page reads and writes
  calls,    \* requests under way
  seen      \* history: the causes that the properties name

vars == <<page, server, calls, seen>>

\* Requests under way are a bag: two may be equal.
Busy == BagToSet(calls)
Of(kinds) == {c \in Busy : c.kind \in kinds}

Send(c) == BagCardinality(calls) < MaxCalls /\ calls' = calls (+) SetToBag({c})
End(c) == calls' = calls (-) SetToBag({c})
Turn(c, d) == calls' = (calls (-) SetToBag({c})) (+) SetToBag({d})
Only(c) == SetToBag({c})

\* One of the bounded events happens, or none does.
Trouble(happens) ==
  /\ happens => server.trouble < MaxTrouble
  /\ server' = [server EXCEPT !.trouble = IF happens THEN @ + 1 ELSE @]

Saw(causes) == seen' = seen \union causes
If(condition, cause) == IF condition THEN {cause} ELSE {}
=============================================================================
