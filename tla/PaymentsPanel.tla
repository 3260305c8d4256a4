--------------------------- MODULE PaymentsPanel ---------------------------
(***************************************************************************)
(* The panel of sessions on the page of a mentor's slots                   *)
(* (ManageSlotsPage.tsx), on which the mentor marks sessions as paid.      *)
(*                                                                         *)
(* It shares no state with the grid below it but the week, whose change    *)
(* loads both.  Other actors are students, who book and cancel.            *)
(***************************************************************************)
EXTENDS WebPage

CONSTANT Sessions

Rows == [Sessions -> {"none", "pending", "paid"}]
Empty == [s \in Sessions |-> "none"]

Loads == Of({"load"})
Marks == Of({"mark"})

\* Mutant: the button stays while its session is being marked.
CanMarkAlways(s) == ~page.loading /\ page.rows[s] = "pending"

\* The button of a session that is not paid; the spinner hides them all.
CanMark(s) == ~page.loading /\ page.rows[s] = "pending" /\ page.updating # s

\* A load ends by itself (of is None), or ends the marking of a session.
Load(of) == [kind |-> "load", of |-> of, stage |-> "sent", rows |-> Empty]
Mark(s) == [kind |-> "mark", of |-> s, stage |-> "sent"]

(***************************************************************************)
(* The server.                                                             *)
(***************************************************************************)

Read(c) ==
  /\ c.kind = "load" /\ c.stage = "sent"
  /\ Turn(c, [c EXCEPT !.stage = "done", !.rows = server.rows])
  /\ UNCHANGED <<page, server, seen>>

\* UpdateSession: a session that was cancelled is not found.  A load that was
\* read before knows nothing of it.
MarkRow(c) ==
  /\ c.kind = "mark" /\ c.stage = "sent"
  /\ IF server.rows[c.of] = "none"
     THEN Turn(c, [c EXCEPT !.stage = "refused"]) /\ UNCHANGED <<server, seen>>
     ELSE /\ Turn(c, [c EXCEPT !.stage = "done"])
          /\ server' = [server EXCEPT !.rows[c.of] = "paid"]
          /\ Saw(If(\E d \in Loads : d.stage = "done", "crossed"))
  /\ UNCHANGED page

OthersBookOrCancel(s) ==
  /\ server.trouble < MaxTrouble
  /\ server' = [server EXCEPT !.trouble = @ + 1,
                  !.rows[s] = IF @ = "none" THEN "pending" ELSE "none"]
  /\ Saw({"changed"})
  /\ UNCHANGED <<page, calls>>

(***************************************************************************)
(* The page.                                                               *)
(***************************************************************************)

ChangeWeek ==
  /\ Send(Load(None))
  /\ page' = [page EXCEPT !.loading = TRUE]
  /\ UNCHANGED <<server, seen>>

\* updateSessionPaymentStatus: one session is remembered as being marked.
ClickPaid(s) ==
  /\ CanMark(s)
  /\ Send(Mark(s))
  /\ page' = [page EXCEPT !.updating = s]
  /\ Saw(If(\E c \in Busy : c.of \notin {None, s}, "several"))
  /\ UNCHANGED server

\* Mutant: the panel is not loaded again.
MarkedQuietly(c) ==
  /\ c.kind = "mark" /\ c.stage = "done"
  /\ End(c)
  /\ page' = [page EXCEPT !.updating = None]
  /\ UNCHANGED <<server, seen>>

\* The sessions are loaded again; the marking lasts until they have come.
Marked(c) ==
  /\ c.kind = "mark" /\ c.stage = "done"
  /\ Turn(c, Load(c.of))
  /\ page' = [page EXCEPT !.loading = TRUE]
  /\ UNCHANGED <<server, seen>>

\* Refused, or the answer is lost: an alert, and nothing is loaded.
MarkFails(c) ==
  /\ c.kind = "mark"
  /\ Trouble(c.stage # "refused") /\ End(c)
  /\ page' = [page EXCEPT !.updating = None]
  /\ Saw(If(c.stage = "done", "failed"))

\* loadMentorSessions: without an answer the panel is emptied.  Any load takes
\* the spinner down, and one that ends a marking forgets which it was.
Loaded(c) ==
  /\ c.kind = "load"
  /\ \E answered \in BOOLEAN :
       /\ answered => c.stage = "done"
       /\ Trouble(~answered)
       /\ page' = [page EXCEPT !.rows = IF answered THEN c.rows ELSE Empty, !.loading = FALSE,
                               !.updating = IF c.of = None THEN @ ELSE None]
       /\ Saw(If(~answered, "failed"))
  /\ End(c)

Init ==
  /\ page = [rows |-> Empty, loading |-> TRUE, updating |-> None]
  /\ \E rows \in Rows : server = [rows |-> rows, trouble |-> 0]
  /\ calls = Only(Load(None))
  /\ seen = {}

Next ==
  \/ ChangeWeek
  \/ \E s \in Sessions : OthersBookOrCancel(s) \/ ClickPaid(s)
  \/ \E c \in Busy : Read(c) \/ MarkRow(c) \/ Marked(c) \/ MarkFails(c) \/ Loaded(c)

(***************************************************************************)
(* Properties.                                                             *)
(***************************************************************************)

TypeOK ==
  /\ page.rows \in Rows /\ server.rows \in Rows
  /\ page.loading \in BOOLEAN /\ page.updating \in Sessions \union {None}
  /\ seen \subseteq {"changed", "crossed", "failed", "several"}

\* At rest the panel shows the payments the server has, unless students booked
\* or cancelled, a load was read before a payment was written, or one failed.
PaymentsAreTrue ==
  Busy = {} /\ {"changed", "crossed", "failed"} \intersect seen = {} => page.rows = server.rows

\* One session is marked by one request at a time, unless two sessions were
\* marked at once: the end of either forgets which one is left.
OneMarkPerSession ==
  \A c, d \in Marks : c.of = d.of /\ (c # d \/ calls[c] > 1) => "several" \in seen

\* The spinner and the disabled button have a request that will end them.
BusyHasRequest ==
  /\ page.loading => Loads # {}
  /\ page.updating # None => \E c \in Busy : c.of # None
=============================================================================
