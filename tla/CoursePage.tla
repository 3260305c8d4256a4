----------------------------- MODULE CoursePage -----------------------------
(***************************************************************************)
(* The page of a course: its author changes its status, others rate it,    *)
(* anyone may mark it as a favourite.                                      *)
(*                                                                         *)
(* The effect that loads the course depends on loadRatings, a callback     *)
(* that React makes anew whenever the page token of the ratings or the     *)
(* known raters change: each such change loads the whole course again.     *)
(* Ratings are numbered by age and listed from the newest; token 0 is      *)
(* null.  Deleting the course leaves the page, and is left out, as is the  *)
(* upload of a picture; the author's name has no part in the control.      *)
(***************************************************************************)
EXTENDS WebPage

CONSTANTS PageSize, MaxRatings

Statuses == {"draft", "published", "archived"}
Elements(s) == {s[i] : i \in DOMAIN s}

\* GetPostRatings: a full page has a token, whether or not more ratings follow.
Listed(at) ==
  LET n == IF server.ratings - at < PageSize THEN server.ratings - at ELSE PageSize IN
  [i \in 1..n |-> server.ratings - at - i + 1]
TokenAfter(at, list) == IF Len(list) = PageSize THEN at + PageSize ELSE 0

(***************************************************************************)
(* The screen.                                                             *)
(***************************************************************************)

\* The dependencies of the effect have changed since it ran.
Due == page.next # page.ranNext \/ page.newUsers

\* React runs the effects that are due before it handles a click.  They run in
\* the frame of the render, so an answer to a request comes later as well.
Shown == ~page.loading /\ ~page.error /\ ~Due
CanToggle == Shown /\ ~page.author /\ ~page.toggling
CanRate == Shown /\ ~page.author /\ ~page.submitting
CanMore == Shown /\ page.next # 0 /\ ~page.listing

\* The buttons of the author: publishing from the other statuses, archiving
\* from all but "archived".  The one back to "draft" needs both canPublish and
\* "published", and never appears.
Offered(status) ==
  /\ Shown /\ page.author
  /\ \/ status = "published" /\ page.status \in {"draft", "archived"}
     \/ status = "archived" /\ page.status \in {"draft", "published"}

(***************************************************************************)
(* The server.                                                             *)
(***************************************************************************)

\* What a request of this kind reads.
Value(c) ==
  CASE c.kind = "course" /\ c.step = "course" -> server.status
    [] c.kind = "course" /\ c.step = "check" -> server.favorite
    [] c.kind = "course" /\ c.step = "count" -> IF server.favorite THEN 1 ELSE 0
    [] c.kind = "ratings" -> Listed(c.at)

Reads(c) ==
  /\ c.kind \in {"course", "ratings"} /\ c.stage = "sent"
  /\ Turn(c, [c EXCEPT !.stage = "read", !.value = <<Value(c)>>])
  /\ UNCHANGED <<page, server, seen>>

\* A first rating of the user is a new one, a second replaces the first.
Writes(c) ==
  /\ c.kind \in {"toggle", "status", "rate"} /\ c.stage = "sent"
  /\ server' = CASE c.kind = "toggle" -> [server EXCEPT !.favorite = c.to]
                 [] c.kind = "status" -> [server EXCEPT !.status = c.to]
                 [] c.kind = "rate" /\ server.rated -> server
                 [] OTHER -> [server EXCEPT !.ratings = @ + 1, !.rated = TRUE]
  /\ Turn(c, [c EXCEPT !.stage = "done"])
  /\ UNCHANGED <<page, seen>>

Room == server.ratings + Cardinality(Of({"rate"})) < MaxRatings

OthersRate ==
  /\ Room /\ server.trouble < MaxTrouble
  /\ server' = [server EXCEPT !.ratings = @ + 1, !.trouble = @ + 1]
  /\ Saw({"moved"})
  /\ UNCHANGED <<page, calls>>

(***************************************************************************)
(* Loading.                                                                *)
(***************************************************************************)

\* A call keeps the raters that its callback knew when it was made.
CourseCall(step, known) ==
  [kind |-> "course", step |-> step, known |-> known, stage |-> "sent", value |-> <<>>]
RatingsCall(for, at, known) ==
  [kind |-> "ratings", for |-> for, at |-> at, known |-> known, stage |-> "sent", value |-> <<>>]
Write(kind, to) == [kind |-> kind, to |-> to, stage |-> "sent"]
Toggles == Of({"toggle"})

RunEffect ==
  /\ Due
  /\ Send(CourseCall("course", page.users))
  /\ page' = [page EXCEPT !.loading = TRUE, !.error = FALSE, !.ranNext = page.next, !.newUsers = FALSE]
  /\ UNCHANGED <<server, seen>>

\* loadCourse goes from one request to the next, and takes what it has read.
\* (The second and third are of the author.)
CourseRead(c) ==
  /\ c.kind = "course" /\ c.stage = "read" /\ c.step = "course"
  /\ Turn(c, CourseCall("count", c.known))
  /\ page' = [page EXCEPT !.status = c.value[1]]
  /\ Saw(If(c.value[1] # Value(c) \/ Of({"status"}) # {}, "crossed"))
  /\ UNCHANGED server

\* Only the first request may end the load: without an answer to the count, or
\* to the favourites, the page keeps what it has.
CountRead(c) ==
  /\ c.kind = "course" /\ c.stage = "read" /\ c.step = "count"
  /\ \E answered \in BOOLEAN :
       /\ Trouble(~answered)
       /\ page' = [page EXCEPT !.count = IF answered THEN c.value[1] ELSE @]
       /\ Saw(If(c.value[1] # Value(c) \/ Toggles # {}, "crossed") \union If(~answered, "missed"))
  /\ Turn(c, CourseCall("check", c.known))

CourseFails(c) ==
  /\ c.kind = "course" /\ c.step = "course"
  /\ Trouble(TRUE) /\ End(c)
  /\ page' = [page EXCEPT !.loading = FALSE, !.error = TRUE]
  /\ UNCHANGED seen

\* Mutant: the list is emptied, the token is not.
CourseCheckedKeepsToken(c) ==
  /\ c.kind = "course" /\ c.step = "check" /\ c.stage = "read"
  /\ \E answered \in BOOLEAN :
       /\ Trouble(~answered)
       /\ page' = [page EXCEPT !.favorite = IF answered THEN c.value[1] ELSE @,
                               !.list = <<>>, !.listing = TRUE]
       /\ Saw(If(c.value[1] # Value(c) \/ Toggles # {}, "crossed") \union If(~answered, "missed"))
  /\ Turn(c, RatingsCall("course", 0, c.known))

\* The last step: the heart is set, and the ratings are loaded from the start.
CourseChecked(c) ==
  /\ c.kind = "course" /\ c.step = "check" /\ c.stage = "read"
  /\ \E answered \in BOOLEAN :
       /\ Trouble(~answered)
       /\ page' = [page EXCEPT !.favorite = IF answered THEN c.value[1] ELSE @,
                               !.list = <<>>, !.next = 0, !.listing = TRUE]
       /\ Saw(If(c.value[1] # Value(c) \/ Toggles # {}, "crossed") \union If(~answered, "missed"))
  /\ Turn(c, RatingsCall("course", 0, c.known))

\* What the end of loadRatings ends as well.
Ended(c, p) == [p EXCEPT !.listing = FALSE, !.loading = @ /\ c.for # "course",
                         !.submitting = @ /\ c.for # "rate"]

\* Mutant: what has come is appended, at the start of the list too.
RatingsLoadedAppends(c) ==
  /\ c.kind = "ratings" /\ c.stage = "read"
  /\ LET list == c.value[1]
         new == Elements(list) \ c.known
     IN /\ page' = Ended(c, [page EXCEPT !.list = @ \o list, !.next = TokenAfter(c.at, list)])
        /\ IF new = {} THEN End(c) ELSE Turn(c, [kind |-> "users", ids |-> new])
        /\ Saw(If(c.for = "more" /\ (c.at # page.next \/ Of({"ratings"}) # {c}), "overtaken"))
  /\ UNCHANGED server

\* A list from the start replaces what is shown, another is appended; names
\* of raters not known yet are asked for.
RatingsLoaded(c) ==
  /\ c.kind = "ratings" /\ c.stage = "read"
  /\ LET list == c.value[1]
         new == Elements(list) \ c.known
         shown == IF c.for = "more" THEN page.list \o list ELSE list
     IN /\ page' = Ended(c, [page EXCEPT !.list = shown, !.next = TokenAfter(c.at, list)])
        /\ IF new = {} THEN End(c) ELSE Turn(c, [kind |-> "users", ids |-> new])
        /\ Saw(If(c.for = "more" /\ (c.at # page.next \/ Of({"ratings"}) # {c}), "overtaken"))
  /\ UNCHANGED server

RatingsFail(c) ==
  /\ c.kind = "ratings"
  /\ Trouble(TRUE) /\ End(c)
  /\ page' = Ended(c, page)
  /\ UNCHANGED seen

\* Users are asked for one by one; one that cannot be loaded is passed over, and
\* asked for again later.
UsersLoaded(c) ==
  /\ c.kind = "users"
  /\ \E found \in SUBSET c.ids :
       /\ Trouble(found # c.ids)
       /\ page' = [page EXCEPT !.users = @ \union found, !.newUsers = @ \/ found # {}]
  /\ End(c)
  /\ UNCHANGED seen

(***************************************************************************)
(* Clicks.                                                                 *)
(***************************************************************************)

More ==
  /\ CanMore
  /\ Send(RatingsCall("more", page.next, page.users))
  /\ page' = [page EXCEPT !.listing = TRUE]
  /\ UNCHANGED <<server, seen>>

\* addToFavorite, removeFromFavorite.
Toggle ==
  /\ CanToggle
  /\ Send(Write("toggle", ~page.favorite))
  /\ page' = [page EXCEPT !.toggling = TRUE]
  /\ UNCHANGED <<server, seen>>

\* Mutant: the count is left to the next load.
ToggledHeartOnly(c) ==
  /\ c.kind = "toggle" /\ c.stage = "done"
  /\ page' = [page EXCEPT !.toggling = FALSE, !.favorite = c.to]
  /\ End(c)
  /\ UNCHANGED <<server, seen>>

Toggled(c) ==
  /\ c.kind = "toggle" /\ c.stage = "done"
  /\ page' = [page EXCEPT !.toggling = FALSE, !.favorite = c.to,
                          !.count = IF c.to THEN @ + 1 ELSE IF @ = 0 THEN 0 ELSE @ - 1]
  /\ End(c)
  /\ UNCHANGED <<server, seen>>

Rate ==
  /\ CanRate /\ Room
  /\ Send([kind |-> "rate", known |-> page.users, stage |-> "sent"])
  /\ page' = [page EXCEPT !.submitting = TRUE]
  /\ UNCHANGED <<server, seen>>

Rated(c) ==
  /\ c.kind = "rate" /\ c.stage = "done"
  /\ Turn(c, RatingsCall("rate", 0, c.known))
  /\ page' = [page EXCEPT !.list = <<>>, !.next = 0, !.listing = TRUE]
  /\ UNCHANGED <<server, seen>>

ChangeStatus(status) ==
  /\ Offered(status)
  /\ Send(Write("status", status))
  /\ UNCHANGED <<page, server, seen>>

\* Mutant: the answer is not taken over.
StatusChangedOnServer(c) ==
  /\ c.kind = "status" /\ c.stage = "done"
  /\ End(c)
  /\ UNCHANGED <<page, server, seen>>

\* Two changes may be under way: the answers come in any order.
StatusChanged(c) ==
  /\ c.kind = "status" /\ c.stage = "done"
  /\ page' = [page EXCEPT !.status = c.to]
  /\ Saw(If(c.to # server.status \/ Of({"status"}) # {c}, "crossed"))
  /\ End(c)
  /\ UNCHANGED server

\* A write fails, or its answer is lost.  That of the status puts an error in
\* the place of the whole page.
WriteFails(c) ==
  /\ c.kind \in {"toggle", "status", "rate"}
  /\ Trouble(TRUE) /\ End(c)
  /\ page' = CASE c.kind = "toggle" -> [page EXCEPT !.toggling = FALSE]
               [] c.kind = "status" -> [page EXCEPT !.error = TRUE]
               [] c.kind = "rate" -> [page EXCEPT !.submitting = FALSE]
  /\ Saw(If(c.stage = "done", "crossed"))

Init ==
  /\ \E author \in BOOLEAN :
       page = [author |-> author, loading |-> TRUE, error |-> FALSE, status |-> "draft",
               favorite |-> FALSE, count |-> 0, toggling |-> FALSE, list |-> <<>>, next |-> 0,
               ranNext |-> 0, users |-> {}, newUsers |-> FALSE, listing |-> FALSE, submitting |-> FALSE]
  /\ \E n \in {1, MaxRatings} :
       server = [ratings |-> n, rated |-> FALSE, favorite |-> FALSE, status |-> "published", trouble |-> 0]
  /\ calls = Only(CourseCall("course", {}))
  /\ seen = {}

Takes(c) ==
  \/ CourseRead(c) \/ CountRead(c) \/ CourseChecked(c) \/ RatingsLoaded(c)
  \/ UsersLoaded(c) \/ Toggled(c) \/ Rated(c) \/ StatusChanged(c)
Fails(c) == CourseFails(c) \/ RatingsFail(c) \/ WriteFails(c)
Clicks == More \/ Toggle \/ Rate \/ \E status \in Statuses : ChangeStatus(status)

Server == OthersRate \/ \E c \in Busy : Reads(c) \/ Writes(c)

Next == Server \/ RunEffect \/ Clicks \/ (~Due /\ \E c \in Busy : Takes(c) \/ Fails(c))

(***************************************************************************)
(* Properties.                                                             *)
(***************************************************************************)

TypeOK ==
  /\ page.status \in Statuses /\ server.status \in Statuses
  /\ page.count \in Nat /\ page.next \in Nat /\ page.ranNext \in Nat
  /\ page.list \in Seq(1..MaxRatings) /\ page.users \subseteq 1..MaxRatings
  /\ {page.author, page.loading, page.error, page.favorite, page.toggling, page.newUsers,
      page.listing, page.submitting} \subseteq BOOLEAN
  /\ seen \subseteq {"moved", "crossed", "missed", "overtaken"}

AtRest == Busy = {} /\ ~Due

\* The page rests only when it shows less than a full page of ratings, or an
\* error: with a full one, or after "Load more", it loads the course again.
\* (An answer to "Load more" that comes after the list was emptied and filled
\* from the start again is appended all the same.)
RestsOnLastPage ==
  AtRest /\ ~page.error /\ "overtaken" \notin seen => page.next = 0 /\ Len(page.list) < PageSize

\* At rest the heart, the number beside it and the status are the server's,
\* unless a reload crossed a change of them (the number is then counted twice,
\* or the heart set back), or an answer about them was lost.
HeartIsTrue ==
  AtRest /\ ~page.error /\ {"crossed", "missed"} \intersect seen = {}
    => /\ page.favorite = server.favorite
       /\ page.count = IF server.favorite THEN 1 ELSE 0
StatusIsTrue == AtRest /\ ~page.error /\ "crossed" \notin seen => page.status = server.status

\* A rating is listed twice only if ratings came in between, or the next page
\* was overtaken by a load from the start.
ListedOnce ==
  {"moved", "overtaken"} \intersect seen = {} /\ ~server.rated
    => Cardinality(Elements(page.list)) = Len(page.list)

\* A spinner or a disabled button of the page has a request that will end it.
BusyHasRequest ==
  /\ page.loading => \E c \in Of({"course", "ratings"}) : c.kind = "course" \/ c.for = "course"
  /\ page.listing => Of({"ratings"}) # {}
  /\ page.toggling => Toggles # {}
  /\ page.submitting => \E c \in Of({"rate", "ratings"}) : c.kind = "rate" \/ c.for = "rate"

\* A reader who does not click, without other actors and failures: the answers
\* and the effect come.
Settling == RunEffect \/ \E c \in Busy : Reads(c) \/ (~Due /\ Takes(c))
LoadSpec == Init /\ ~page.author /\ [][Settling]_vars /\ WF_vars(Settling)

\* The course, its first ratings and the names of all their raters are there.
Complete ==
  /\ ~page.loading /\ ~page.listing /\ ~page.newUsers
  /\ page.list # <<>> /\ Elements(page.list) \subseteq page.users

\* A course that is complete on the screen stays there: the spinner that says
\* that it is loading does not come back without a click.
CompleteStays == [][Complete => ~page.loading']_vars
=============================================================================
