---------------------------- MODULE CoursesPage ----------------------------
(***************************************************************************)
(* The list of courses with its filters and pages.                         *)
(*                                                                         *)
(* A filter stands for the search text, the tags, "my courses" and the     *)
(* order together.  The posts are not told apart: a list is the filter and *)
(* the offset it was asked for.  The token kept for a page is the offset   *)
(* of the next one.                                                        *)
(***************************************************************************)
EXTENDS WebPage

CONSTANTS Filters, MaxPage, Size    \* filters of the runs, pages the user asks for, posts per page

Pages == 1..MaxPage
NoList == [filter |-> None, from |-> 0]

\* Whether a page of the results has a token: it is full.
Full(filter, from) == server.found[filter] >= from + Size
TotalPages == LET n == (page.total + Size - 1) \div Size IN IF n = 0 THEN 1 ELSE n

(***************************************************************************)
(* The screen: pages are offered when a list is shown, filters always.     *)
(***************************************************************************)

\* The dependencies of the two effects have changed since they ran.
Due == page.filter # page.ranFilter \/ page.page # page.ranPage
Paginated == ~page.loading /\ ~page.error /\ page.list # NoList /\ TotalPages > 1

(***************************************************************************)
(* A load: tokens that are missing are fetched one by one, then the list.  *)
(***************************************************************************)

Fetch(n) == [kind |-> "fetch", filter |-> page.filter, page |-> n, tokens |-> page.tokens,
             last |-> FALSE, stage |-> "token", from |-> 0, total |-> 0, full |-> FALSE]

\* ensurePageToken: the first page whose token is needed and missing.
Missing(c) == {n \in 1..(c.page - 1) : n \notin DOMAIN c.tokens /\ 1..(n - 1) \subseteq DOMAIN c.tokens}

\* The tokens with that of page n + 1.
With(tokens, n, offset) == [m \in DOMAIN tokens \union {n} |-> IF m = n THEN offset ELSE tokens[m]]

\* The offset of page n + 1; without a token the first page is asked for.
After(tokens, n) == IF n \in DOMAIN tokens THEN tokens[n] ELSE 0

\* A page that is not full has no token, and a request that is refused yields
\* none: both end the search, without an error.
FetchesToken(c) ==
  /\ c.stage = "token" /\ ~c.last /\ Missing(c) # {}
  /\ \E n \in Missing(c), refused \in BOOLEAN :
       LET from == After(c.tokens, n - 1) IN
       /\ Trouble(refused)
       /\ IF Full(c.filter, from) /\ ~refused
          THEN Turn(c, [c EXCEPT !.tokens = With(@, n, from + Size)])
          ELSE Turn(c, [c EXCEPT !.last = TRUE])
  /\ UNCHANGED <<page, seen>>

ReadsList(c) ==
  /\ c.stage = "token" /\ (c.last \/ Missing(c) = {})
  /\ LET from == After(c.tokens, c.page - 1) IN
     Turn(c, [c EXCEPT !.stage = "read", !.from = from, !.total = server.found[c.filter],
                       !.full = Full(c.filter, from)])
  /\ UNCHANGED <<page, server, seen>>

\* The answer is for the page and the filter that are chosen.
Current(c) == c.filter = page.filter /\ c.page = page.page

\* The tokens after an answer: that of the next page is kept under n.
Kept(c, n, tokens) ==
  LET known == IF c.page > 1 THEN c.tokens ELSE tokens
  IN IF c.full THEN With(known, n, c.from + Size) ELSE known

\* Mutant: the tokens of the page are kept by number of pages.
ListLoadedShifted(c) ==
  /\ c.stage = "read"
  /\ page' = [page EXCEPT !.list = [filter |-> c.filter, from |-> c.from], !.total = c.total, !.loading = FALSE,
                !.tokens = Kept(c, c.page + 1, @)]
  /\ Saw(If(~Current(c) /\ ~\E d \in Busy : Current(d), "overtaken")
         \union If(c.last, "tokenless"))
  /\ End(c)
  /\ UNCHANGED server

\* Taken over whatever is chosen by now.
ListLoaded(c) ==
  /\ c.stage = "read"
  /\ page' = [page EXCEPT !.list = [filter |-> c.filter, from |-> c.from], !.total = c.total, !.loading = FALSE,
                !.tokens = Kept(c, c.page, @)]
  /\ Saw(If(~Current(c) /\ ~\E d \in Busy : Current(d), "overtaken")
         \union If(c.last, "tokenless"))
  /\ End(c)
  /\ UNCHANGED server

\* Mutant: an error leaves the spinner.
LoadFailsQuietly(c) ==
  /\ Trouble(TRUE) /\ End(c)
  /\ page' = [page EXCEPT !.error = TRUE]
  /\ UNCHANGED seen

LoadFails(c) ==
  /\ Trouble(TRUE) /\ End(c)
  /\ page' = [page EXCEPT !.loading = FALSE, !.error = TRUE]
  /\ UNCHANGED seen

\* Other users publish or remove courses.
OthersChange ==
  /\ server.trouble < MaxTrouble
  /\ \E f \in Filters :
       \E n \in {server.found[f] - 1, server.found[f] + 1} \intersect Nat :
         server' = [server EXCEPT !.found[f] = n, !.trouble = @ + 1]
  /\ UNCHANGED <<page, calls, seen>>

(***************************************************************************)
(* The effects, and the user.                                              *)
(***************************************************************************)

Started == [page EXCEPT !.loading = TRUE, !.error = FALSE]

\* A new filter loads the first page; a new page loads that page, and both
\* together load twice.  Tokens are forgotten only after they were captured.
RunEffects ==
  /\ Due
  /\ LET filtered == page.filter # page.ranFilter
         paged == page.page # page.ranPage
         one == IF filtered THEN Only(Fetch(1)) ELSE EmptyBag
         two == IF paged THEN Only(Fetch(page.page)) ELSE EmptyBag
     IN /\ calls' = calls (+) one (+) two
        /\ BagCardinality(calls') <= MaxCalls
        /\ page' = [Started EXCEPT !.tokens = IF filtered \/ page.page = 1 THEN <<>> ELSE @,
                                   !.ranFilter = page.filter, !.ranPage = page.page]
        /\ Saw(If(filtered /\ page.page > 1, "unpaged"))
  /\ UNCHANGED server

\* The search text changes the filter and leaves the page as it is; Enter, the
\* tags, the order and the switches go back to the first page.
Type(f) ==
  /\ page.filter # f
  /\ page' = [page EXCEPT !.filter = f]
  /\ UNCHANGED <<server, calls, seen>>

SetFilter(f) ==
  /\ page' = [page EXCEPT !.filter = f, !.page = 1]
  /\ UNCHANGED <<server, calls, seen>>

\* Mutant: the next button is not disabled on the last page.
GoToBeyond(n) ==
  /\ Paginated /\ n \in 1..(TotalPages + 1)
  /\ page' = [page EXCEPT !.page = n]
  /\ UNCHANGED <<server, calls, seen>>

\* The previous and next buttons and the numbers between them.
GoTo(n) ==
  /\ Paginated /\ n \in 1..TotalPages
  /\ page' = [page EXCEPT !.page = n]
  /\ UNCHANGED <<server, calls, seen>>

Retry ==
  /\ page.error /\ ~page.loading
  /\ Send(Fetch(page.page))
  /\ page' = Started
  /\ UNCHANGED <<server, seen>>

\* Mounted from a URL: the first render has not applied it yet.
Init ==
  /\ \E first, f \in Filters, n \in Pages :
       /\ page = [filter |-> f, page |-> n, tokens |-> <<>>, list |-> NoList, total |-> 0,
                  loading |-> TRUE, error |-> FALSE, ranFilter |-> first, ranPage |-> 1]
       /\ calls = Only([kind |-> "fetch", filter |-> first, page |-> 1, tokens |-> <<>>,
                        last |-> FALSE, stage |-> "token", from |-> 0, total |-> 0, full |-> FALSE])
       /\ seen = If(first # f /\ n > 1, "unpaged")
  /\ \E found \in [Filters -> {Size, 2 * Size + 1}] : server = [found |-> found, trouble |-> 0]

Clicks == Retry \/ (\E f \in Filters : Type(f) \/ SetFilter(f)) \/ \E n \in 1..(TotalPages + 1) : GoTo(n)

Next ==
  \/ OthersChange \/ RunEffects
  \/ \E c \in Busy : FetchesToken(c) \/ ReadsList(c)
  \/ ~Due /\ (Clicks \/ \E c \in Busy : ListLoaded(c) \/ LoadFails(c))

(***************************************************************************)
(* Properties.                                                             *)
(***************************************************************************)

TypeOK ==
  /\ page.filter \in Filters /\ page.ranFilter \in Filters /\ page.page \in Pages /\ page.ranPage \in Pages
  /\ DOMAIN page.tokens \subseteq Nat /\ page.total \in Nat
  /\ page.list.filter \in Filters \union {None} /\ {page.loading, page.error} \subseteq BOOLEAN
  /\ seen \subseteq {"overtaken", "tokenless", "unpaged"}

AtRest == Busy = {} /\ ~Due

\* At rest the list is that of the filter and the page the screen names, unless
\* the answer for another came last, or a list was asked for without the token
\* of its page, because a page before it was not full or the request for a token
\* was refused, or a filter was changed on a later page.  In the last two cases
\* the first page is shown under the number of a later one, and no error.
ListIsTrue ==
  AtRest /\ ~page.error /\ seen \intersect {"overtaken", "tokenless", "unpaged"} = {}
    => page.list = [filter |-> page.filter, from |-> (page.page - 1) * Size]

\* A spinner has a request that will end it.
BusyHasRequest == page.loading => Busy # {}
=============================================================================
