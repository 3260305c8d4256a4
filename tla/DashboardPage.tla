--------------------------- MODULE DashboardPage ---------------------------
(***************************************************************************)
(* The mentor's dashboard: each load asks for eight figures at once, then  *)
(* for one count per course, and is aborted when the token is renewed.     *)
(*                                                                         *)
(* What a load shows is its number, and whether every request answered.    *)
(***************************************************************************)
EXTENDS WebPage

CONSTANT MaxLoads

Load(n) == [kind |-> "load", number |-> n, stage |-> "figures", aborted |-> FALSE, whole |-> TRUE]

\* The cleanup of the effect, when it runs again.
Aborted == {[c EXCEPT !.aborted = TRUE] : c \in Busy}

\* Mutant: the load before is left alone.
TokenRenewedWithoutAbort ==
  /\ page.loads < MaxLoads
  /\ calls' = SetToBag(Busy \union {Load(page.loads + 1)})
  /\ page' = [page EXCEPT !.loads = @ + 1, !.loading = TRUE]
  /\ UNCHANGED <<server, seen>>

TokenRenewed ==
  /\ page.loads < MaxLoads
  /\ calls' = SetToBag(Aborted \union {Load(page.loads + 1)})
  /\ page' = [page EXCEPT !.loads = @ + 1, !.loading = TRUE]
  /\ UNCHANGED <<server, seen>>

\* safeFetch: a request that fails or is aborted gives nothing, and no error.
Part(c, fails) == c.whole /\ ~fails /\ ~c.aborted
Fails(c, fails) ==
  /\ c.aborted => ~fails
  /\ Trouble(fails)
  /\ Saw(If(fails, "failed"))

FiguresAnswered(c) ==
  /\ c.stage = "figures"
  /\ \E fails \in BOOLEAN :
       /\ Fails(c, fails)
       /\ Turn(c, [c EXCEPT !.stage = "counts", !.whole = Part(c, fails)])
  /\ UNCHANGED page

\* An aborted load fills the page with what it has, and stops the spinner too.
CountsAnswered(c) ==
  /\ c.stage = "counts"
  /\ \E fails \in BOOLEAN :
       /\ Fails(c, fails)
       /\ page' = [page EXCEPT !.shown = [number |-> c.number, whole |-> Part(c, fails)], !.loading = FALSE]
  /\ End(c)

Init ==
  /\ page = [loads |-> 1, shown |-> [number |-> 0, whole |-> FALSE], loading |-> TRUE]
  /\ server = [trouble |-> 0]
  /\ calls = Only(Load(1))
  /\ seen = {}

\* The promises of an aborted load are rejected before the network answers.
Next ==
  LET soon == {c \in Busy : c.aborted}
  IN \/ \E c \in IF soon # {} THEN soon ELSE Busy : FiguresAnswered(c) \/ CountsAnswered(c)
     \/ soon = {} /\ TokenRenewed

(***************************************************************************)
(* Properties.                                                             *)
(***************************************************************************)

TypeOK ==
  /\ page.loads \in 1..MaxLoads /\ page.shown.number \in 0..MaxLoads
  /\ {page.shown.whole, page.loading} \subseteq BOOLEAN
  /\ seen \subseteq {"failed"}

\* At rest the dashboard shows the last load, whole unless a request failed: an
\* aborted one fills it with zeros for a moment only.
DashboardIsLast ==
  Busy = {} => page.shown.number = page.loads /\ (page.shown.whole \/ "failed" \in seen)

\* A spinner has a request that will end it.
BusyHasRequest == page.loading => Busy # {}
=============================================================================
