------------------------------ MODULE WebPages ------------------------------
(***************************************************************************)
(* The pages of the router (App.tsx), one of which is mounted: each has a  *)
(* module of its own, and its properties are stated here under its route.  *)
(* (The page of a mentor's slots has two, for its panel and its grid.)     *)
(***************************************************************************)
EXTENDS WebPage

CONSTANTS
  FewCalls,                              \* requests under way at a time, on the larger pages
  Days, MaxSlots,                        \* slots
  Sessions,                              \* payments
  PageSize, MaxRatings,                  \* course
  Files, MaxEdits,                       \* form
  Filters, MaxPage, Size,                \* courses
  Others,                                \* profile
  Names, MaxSaves, MaxFormEdits,         \* edit
  MaxLoads                               \* dashboard

ASSUME PagesAssumption ==
  /\ {FewCalls, MaxEdits, MaxSaves, MaxFormEdits} \subseteq Nat
  /\ {MaxSlots, PageSize, MaxRatings, MaxPage, Size, MaxLoads} \subseteq Nat \ {0}
  /\ 2 \in Days /\ Days \subseteq Nat
  /\ 2 * Size + 1 + MaxTrouble <= MaxPage * Size
  /\ None \notin Sessions \union Files \union {"old", "new", "theirs", "null", "unset"}
  /\ Names # {} /\ "unset" \notin Names

VARIABLE route

routed == <<vars, route>>

Slots == INSTANCE ManageSlotsPage WITH MaxCalls <- FewCalls
Payments == INSTANCE PaymentsPanel
Course == INSTANCE CoursePage
Form == INSTANCE CourseFormPage
Courses == INSTANCE CoursesPage WITH MaxCalls <- FewCalls
Profile == INSTANCE ProfilePage
Edit == INSTANCE ProfileEditPage WITH MaxCalls <- FewCalls, MaxEdits <- MaxFormEdits
Dashboard == INSTANCE DashboardPage

Init ==
  \/ route = "slots" /\ Slots!Init
  \/ route = "payments" /\ Payments!Init
  \/ route = "course" /\ Course!Init
  \/ route = "form" /\ Form!Init
  \/ route = "courses" /\ Courses!Init
  \/ route = "profile" /\ Profile!Init
  \/ route = "edit" /\ Edit!Init
  \/ route = "dashboard" /\ Dashboard!Init

Next ==
  /\ \/ route = "slots" /\ Slots!Next
     \/ route = "payments" /\ Payments!Next
     \/ route = "course" /\ Course!Next
     \/ route = "form" /\ Form!Next
     \/ route = "courses" /\ Courses!Next
     \/ route = "profile" /\ Profile!Next
     \/ route = "edit" /\ Edit!Next
     \/ route = "dashboard" /\ Dashboard!Next
  /\ UNCHANGED route

Spec == Init /\ [][Next]_routed

(***************************************************************************)
(* Properties of every page.                                               *)
(***************************************************************************)

\* The state of each page has its type.
TypeOK ==
  CASE route = "slots" -> Slots!TypeOK
    [] route = "payments" -> Payments!TypeOK
    [] route = "course" -> Course!TypeOK
    [] route = "form" -> Form!TypeOK
    [] route = "courses" -> Courses!TypeOK
    [] route = "profile" -> Profile!TypeOK
    [] route = "edit" -> Edit!TypeOK
    [] route = "dashboard" -> Dashboard!TypeOK

\* On every page a spinner, or a button that is disabled while something is
\* sent, has a request that will end it: none is stuck, whatever fails and in
\* whatever order the answers come.
BusyHasRequest ==
  CASE route = "slots" -> Slots!BusyHasRequest
    [] route = "payments" -> Payments!BusyHasRequest
    [] route = "course" -> Course!BusyHasRequest
    [] route = "form" -> Form!BusyHasRequest
    [] route = "courses" -> Courses!BusyHasRequest
    [] route = "profile" -> Profile!BusyHasRequest
    [] route = "edit" -> Edit!BusyHasRequest
    [] route = "dashboard" -> Dashboard!BusyHasRequest

\* At rest a page shows what the server has, unless one of the causes that its
\* module names has occurred:
\*   slots and payments: others changed them, a load failed or was overtaken;
\*   course: a reload crossed a change of the favourite or the status; reviews
\*     are listed once each unless some came in between two pages, or the next
\*     page came after a load from the start;
\*   form: the picture was chosen again while one was read or looked at, or an
\*     answer was lost;
\*   courses: the answer for another filter or page came last, a list was asked
\*     for without the token of its page, or a later page had its filter changed;
\*   profile: the load of another URL came last, also for the chat it opens;
\*   edit: the profile of the redirected URL came last;
\*   dashboard: a request of the last load failed.
ScreenIsTrue ==
  CASE route = "slots" -> Slots!ListFresh
    [] route = "payments" -> Payments!PaymentsAreTrue
    [] route = "course" -> Course!RestsOnLastPage /\ Course!HeartIsTrue /\ Course!StatusIsTrue /\ Course!ListedOnce
    [] route = "form" -> Form!PictureIsTrue
    [] route = "courses" -> Courses!ListIsTrue
    [] route = "profile" -> Profile!ProfileIsTrue /\ Profile!ChatIsAsked
    [] route = "edit" -> Edit!FormIsOwn
    [] route = "dashboard" -> Dashboard!DashboardIsLast

\* What a form says it has saved is what it shows: a course with its picture,
\* unless it was edited meanwhile or the picture failed; and a profile with its
\* picture, roles and skills, through the four tables that UpdateProfile writes,
\* and in the signed-in user that the other pages show.
SavedIsTrue ==
  CASE route = "form" -> Form!LeftWhenSaved
    [] route = "edit" -> Edit!SavedIsTrue /\ Edit!UserIsTrue
    [] OTHER -> TRUE

\* What was asked for once is done once: a slot is changed, and a session marked
\* as paid, by one request at a time unless two were clicked at once; a form makes
\* one course unless the answer to its creation was lost; two users have one chat
\* unless chat_service checked two requests before either was committed.
DoneOnce ==
  CASE route = "slots" -> Slots!OneChangePerSlot
    [] route = "payments" -> Payments!OneMarkPerSession
    [] route = "form" -> Form!OneCourse
    [] route = "profile" -> Profile!OneChat
    [] OTHER -> TRUE

\* The server refuses a new slot only when the page compared it with a list
\* that was stale: checkSlotOverlap misses no overlap that the trigger finds.
RefusedOnlyWhenStale == route = "slots" => Slots!RefusedOnlyWhenStale
=============================================================================
