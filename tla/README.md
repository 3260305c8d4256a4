# Mentor Platform in TLA+

Mentors publish courses and offer time slots; students book slots, pay, rate,
and talk to mentors in chats.  The platform is a React frontend and an Android
app, an HTTP/WebSocket gateway, and six Go services behind it that talk gRPC,
redis and Kafka and keep their data in PostgreSQL.  These modules model the
parts of it whose correctness depends on what happens *between* two steps:
two requests of a booking, the check of a trigger and the commit after it, a
connection and the one that replaces it, a request of a page and the answer
that finds another page.

Paths below are relative to the repository root (`src/` in `PROJECT.json`).

| Module | What it is | Checked by | Proved in |
| --- | --- | --- | --- |
| `SlotLedger` | abstract: who holds a slot | (target of refinements) | |
| `SessionTables` | the two tables of session_service, one action per SQL statement | `booking` | `SessionTablesProofs` |
| `SlotBooking` (extends `SessionTables`) | clients, handlers and the ticker on top of the tables | `booking`, `booking_live` | `SlotBookingProofs` |
| `SlotCalendar` | time ranges, the overlap trigger, the cleanup | `calendar` | `SlotCalendarProofs` |
| `GatewaySockets` | the WebSocket connections of a user in the gateway | `sockets`, `sockets_live`, `second_disconnect` | `GatewaySocketsProofs` |
| `WebSocketClient` | the other end: the web frontend's WebSocket service and its reconnects | `wsclient` | `WebSocketClientProofs` |
| `ChatPage` | the chat page, with the store and the socket it reads | `chats` | `ChatPageProofs` |
| `AuthSession` | sign-in, sign-out and refresh in two tabs, with auth_service | `auth` | `AuthSessionProofs` |
| `WebPage` | what the models of the other pages share: page, server, requests under way | | |
| `ManageSlotsPage`, `PaymentsPanel` | a mentor's slots, and the sessions to be marked as paid | `pages` | `WebPagesProofs` |
| `CoursePage` | a course with its reviews and favourite | `pages`, `reviews` | `WebPagesProofs` |
| `CourseFormPage` | the form of a course, with its picture | `pages` | `WebPagesProofs` |
| `CoursesPage` | the list of courses with filters and pages | `pages` | `WebPagesProofs` |
| `ProfilePage` | a profile and the button that opens a chat | `pages` | `WebPagesProofs` |
| `ProfileEditPage` | the form of a profile, with gateway and user_service | `pages`, `roles` | `WebPagesProofs` |
| `DashboardPage` | the mentor's dashboard | `pages` | `WebPagesProofs` |
| `WebPages` | the router: one of the eight above is mounted | `pages` | `WebPagesProofs` |
| `MCSlotCalendar`, `MCGatewaySockets`, `MCChatPage`, `MCAuthSession` | instances for TLC: ranges, chats, symmetry sets | | |

## 1. Inventory

### session_service (`session_service/`)

*State.*  Tables `slots` (mentor, post, time, price, status `available`,
`booked` or `closed`) and `sessions` (slot, student, payment status, rating),
`migrations/000001`.  `UNIQUE(slot_id)`, foreign keys with `ON DELETE
CASCADE`, CHECKs on both statuses, and the trigger `trg_check_no_overlap`.

*Operations.*  CRUD on both, `UpdateSlotStatus`, `RateSession`, income
queries, and `CloseExpiredSlots` from a one-minute ticker in `main.go`.

*Interactions.*  gRPC from the gateway; a goroutine per booked slot that asks
user_service for the mentor and produces a Kafka message.

*Hard.*  Handlers use several statements without a transaction: `DeleteSession`
deletes and then re-opens the slot.  The trigger reads committed rows only.
The bulk UPDATE of the ticker fires the trigger once per row.

*Correct when.*  A slot is never in two sessions; a session never outlives its
slot; open slots of a mentor do not overlap; expired slots get closed; a
session that was not paid is not rated; a slot is freed only by the one who
gives it up.

### Booking clients (`frontend/src/pages/CourseEnrollPage.tsx`, Android `EnrollActivity`)

*State.*  The last loaded list of slots, the slot being booked, the messages
shown.  *Operations.*  Load; book = `POST /slots/{id}/status` then
`POST /sessions`; cancel = `DELETE /sessions/{id}` then, on the web, another
status write; rollback after a failure.

*Hard.*  They carry out the protocol of a booking, so every race is theirs:
two students mark one slot, a request fails after its predecessor succeeded,
an answer is lost, the list is old, a React closure holds an older list still.

*Correct when.*  A student whose booking fails disturbs nobody's booking; a
cancellation ends the student's own session; every request chain ends.

### api_gateway (`api_gateway/`)

*State.*  For each user the current WebSocket connection with its buffered
channel (`client_repository.go`) and the goroutine that empties the channel
(`web_socket_service.go`); a redis cache of the members of chats.

*Operations.*  HTTP routes that validate, ask a service and convert; connect,
disconnect, send a message at once and hand it to redis for storage.

*Hard.*  `HandleConnection` and `HandleDisconnection` consist of several
separately locked calls keyed by the *user*, while connections of one user
replace each other.  The payment check of `RateSession` and the slot check of
`CreateSession` are calls of their own before the write.

*Correct when.*  No send on a closed channel; a message is delivered once; a
connection that stays open is served; goroutines do not leak; an old
connection's end leaves a new connection alone.

### Web frontend: chats (`frontend/src/pages/Chats.tsx`, `services/websocket.ts`)

*State.*  The list of chats, the selected one, its messages with cursor and
flags, a scroll listener, a dialog; in the service one `WebSocket`, its
handlers, an attempt counter and a timer.  *Operations.*  Load chats, a first
page, older pages; take messages from the socket; send; mark as read; search a
user and create a chat; connect, disconnect, reconnect.  *Hard.*  An answer is
taken over without a look at the chat selected by then; closures of earlier
renders stay attached; a socket that was replaced keeps its handlers and acts
on its successor; one variable remembers several timers.  *Correct when.*
The window shows messages of the selected chat, each once; only messages of
the peer are marked, in their own chat; no spinner stays; one connection is
listened to, and it is of the signed-in user; after a loss the client tries again.

### Web frontend: sign-in (`contexts/AuthContext.tsx`, `Login`, `Register`, `api/`)

*State.*  localStorage (shared by tabs), sessionStorage (per tab), the
provider's state, and auth_service's refresh tokens.  *Operations.*  Login,
registration, logout, and three ways to refresh (context, axios interceptor,
fetch client).  *Hard.*  Rotation takes three statements; tabs share the refresh
token and not the access token; registration does not store a refresh token.
*Correct when.*  A sign-in has one live refresh token; a logout ends it; tokens
belong to the user stored beside them.

### Web frontend: the other pages (`frontend/src/pages/`)

*State.*  React state, refs and timers of the mounted page; requests under way.
*Operations.*  Each page's loads, clicks and forms.  *Hard.*  Answers come in any
order; effects depend on functions that a load renews; one id remembers what
may be two requests; a form is saved in two requests; what a form omits and
what it sends empty mean different things to user_service.  *Correct when.*  At
rest a page shows what the server has; what it says it has saved is what it
shows; what was asked for once is done once; no spinner or disabled button is
left without a request.

### chat_service (`chat_service/`)

*State.*  `direct_chats`, `direct_messages`, attachments.  *Operations.*
`CreateChat` (look, then insert; a trigger looks again), `ProcessNewMessage`
from redis (insert, look up the chat, look up the recipient, produce a Kafka
notice), read marks, paging by cursor.  *Hard.*  redis pub/sub delivers at most
once; each message is published by its own goroutine while `created_at` is
assigned at the insert; a failed look-up after the insert loses the notice.
*Correct when.*  One chat for a pair; what was accepted gets stored once, and
announced once.

### notification_service (`notification_service/`)

*State.*  `notifications` and `notification_recipients` (status, attempts).
*Operations.*  Kafka intake; a worker every 30 seconds that sends pending
e-mails and marks them.  *Hard.*  A crash between sending and marking, two
statements for a failure, a "retry" that never happens because the reader has
moved on, a topic goroutine that ends for good.  *Correct when.*  Each
accepted notice is mailed at least once, at most `max_attempts` times on
failure, and the worker never starves a recipient.

### auth_service and user_service

*State.*  Credentials, refresh tokens; users, mentor and student profiles.
*Operations.*  `Register` is a saga over user_service with a compensation;
`RefreshTokens` reads, issues and then revokes, in three statements.  *Hard.*
A crash inside the saga; two refreshes of one token; a logout that races a
refresh.  *Correct when.*  A user without credentials does not stay; one
refresh token yields one live successor.

### post_service, other screens

Mostly one statement or one request per operation.  `UpdatePost` is a
read-modify-write limited to the fields of its mask.

`PROJECT.json` lists the hazards of the modelled parts at their lines, with the
properties that cover them; those of the others are in section 6.

## 2. Modules and the code

### SessionTables

One action per statement of `repository_slot_postgres.go` and
`repository_session_postgres.go`.  The repositories never open a transaction,
so a statement is one atomic step.  `slots` maps a slot to its status, or to
`unborn` / `deleted`, since ids come from `gen_random_uuid()` and are not used
twice; for the same reason `freshIds` holds the session ids not issued yet.
`ended` says that start plus duration lies in the past.  Constraints are
guards: `CanInsertSession` is the foreign key together with
`UNIQUE(slot_id)`; `DeleteSlotRow` cascades.  `SpecTables` is the most general
client: any statement at any time.

Left out: text, prices and reviews, and the time ranges, which are in
`SlotCalendar` together with the overlap trigger.  What the trigger does to the
statements here is kept as a choice: `CloseExpiredRows` closes every expired
slot or, rejected as a whole, none; a single status write that is rejected is a
fault of `SlotBooking`.  Whether expired slots ever get closed is therefore a
question for `SlotCalendar` (`CleanupUnlessRace`) and not for this module.  A
status write has no guard on the status it replaces, because `UPDATE slots SET
status` has none.

### SlotBooking

Extends the tables.  Each student has one screen, web or Android (`Mobile`);
`page` says which request chain it is in, `view` the list it last loaded,
`told` the outcome it shows.  `seen` is what a closure captured: the catch
block of `handleBookSlot` reads the list as it was before the handler
changed it.

* A request and its single statement are one step, with three outcomes: it
  works; the server refuses it; or a fault, which may strike before the
  statement or after it (the answer is lost).  `MaxFaults` bounds the faults.
* What a handler reads before its only statement is folded into that step
  when the read is about something that cannot change for an id (the owner of
  a slot) or whose absence makes the statement fail as well.  Where it can be
  stale it is a step of its own: `StartRating` (the gateway sees a paid
  session) and `CommitRating` (session_service writes, and its WHERE clause
  asks for the payment again).
* `DeleteSession` is the DELETE, then `ReopenSlot` or `ReopenFails` later; in
  between it is a member of `reopening`, and may outlive its client.  The write
  is of a slot and not of a session, so it may hit a slot that was booked again:
  `deletedAt` remembers which session ids had been issued when a session was
  deleted, so that `CancelExposesOnlyLaterBooking` can say whose slot a
  cancellation may open: nobody's, or that of a session made after the deletion.
* `EditSession`, `CreateSlot`, `UpdateSlot`, `UpdateSlotStatus`, `DeleteSlot`
  and `MentorCancel` are the requests of mentors and other users.  Any user
  may post a status: the route does not ask who owns the slot.
* A screen runs one request chain at a time; a second tab is a second student
  as far as the table is concerned.  `LoadSlots` reads in one step what the page
  collects with a few requests.  The Android app closes the enrolment screen
  after a success, which is modelled as the reload that ends every chain.
* `StartCancel` chooses an existing row of the student.  It becomes stale
  afterwards, by the mentor, by a deletion of the slot, or by the same student.
* When `SessionIds` are used up, `CreateFails` stands for the insert; this is the
  model's bound, not the code's.

### SlotCalendar

A statement on a slot is two steps: `Begin` (the trigger accepts, looking at
committed rows) and `Commit` or `Abort`.  `inFlight` holds the new row of each
statement in between; a row under change is locked, hence one per slot.
`CloseExpired` touches all expired rows of all mentors at once, is blocked if
the trigger rejects any of them, and waits for locked rows.  `raced` records
which pairs of slots were in flight together.  A clock runs to `Horizon`.

### GatewaySockets

One user; users share only the mutex of `WebSocketService`, which is always
released.  `handler[k]` is where the goroutine of connection `k` is in
`HandleConnection`, in its read loop or in `HandleDisconnection`, each
separately locked call being a step.  `stopGoroutine` keeps the mutex from
`StopBegins` to `StopEnds`: it waits for the sender's confirmation and gives
up after two seconds, which is modelled for a sender blocked in a write, the
only place where a sender can be that long.  `sender[k]` is the goroutine
started for `k`; it looks its connection up *by user*, 100 ms later, and so may
find a different one, or none.  `chan`, `closed` and `sock` are the channel and
the socket of a connection; `SendMessage` waits up to 100 ms under the read
lock, so that the channel cannot be closed meanwhile, and its outcome is one
step: nobody connected, queued, or refused with a full buffer.

The read loop answers a message that is refused with an error that it writes to
the connection itself (`AnswerBegins`, `AnswerEnds`): while it does, the sender
of the connection may be writing too, and nothing keeps them apart.  `Writers(c)`
are the goroutines in a write on connection `c`.

Left out: what the client sends (a read error, of the socket or of the JSON, ends
the read loop, and a refused message makes it answer); pings that succeed;
`CleanupInactiveConnections` and `ForceCleanup`, which nothing calls.

### SlotLedger

The abstract specification: `holder` and `retired`, with `Book`, `Release`
and `Retire`.  `SessionTables` implements it with the students of a slot's
rows as `holder`; a slot can pass from one student to another only by being
free in between, and a deleted slot is never held again.

### WebSocketClient

The service object of one page load.  `socket` has the phase of each `WebSocket`
object, whether its handlers are still set, and the account whose token opened
it; `ws` is the one the service points to.  `connect()` may overwrite a socket
that is connecting or closing: the handlers of the old one stay, and when they run
they act on `ws`.  `pending` are the timers set, `timeout` says whether
`reconnectTimeout` is the last of them.  `Login`, `OpenChats`, `LeaveChats` and
`Reload` are the callers (AuthContext, the hook `useWebSocket`); `Opens`,
`Closes` and `Closed` what the network does.  `Sockets` and `MaxTimers` bound what is
alive at a time, not what is made in a run.  Texts of messages are in `ChatPage`.

### ChatPage

A chat is named by its peer, a message by its id; those stored before the page is
opened are given with their chats by the constant `chatOfOld`.  `log` is the store
in the order of `created_at`, `pending` what the gateway has handed to the socket and
not stored yet, `wire` what the socket will still deliver.  A request
lives in a slot of `call`: sent, read at the server, taken over by the page.
`heard` is `selectedChat` in the closure of the socket's handler, `listener` what
the scroll listener has captured.  `switched`, `doubled`, `crossed` and `clicked` are
history: the causes the properties name.  Left out: layout, attachments, and
redis losing a message.

### AuthSession

A pair of tokens is a number; `root` is the sign-in it descends from, `live` the
refresh tokens not revoked.  `loc`, `sess` and `state` are localStorage, the
tabs' sessionStorage and the provider's state.  A tab runs one operation
(`op`) in stages: the requests, and for a refresh the statements of
`RefreshTokens`: `ServerChecks` is the look-up, `ServerRotates` insert and
revocation, `RefreshFails` an end in the middle.  A page load drops the
operation of its tab.

### WebPage and WebPages

One page is mounted at a time and its state is lost when it unmounts, so that
pages cannot disturb each other and one run may take them one by one, by
`route`.  A page has its state `page`, the rows it works on `server`, the bag
`calls` of requests under way, and `seen`, the causes that its properties except.
A request goes through stages: it reads or writes at the server, then the
page takes the answer over or learns of a failure, each a step that others may
come before.  `MaxCalls` (`FewCalls` on three larger pages) bounds the requests
under way; `MaxTrouble` the changes by others and the failures together.

React is modelled by what it does between events: a handler runs to its next
`await` in one step and sees the state of the render it was made in; an effect
whose dependencies changed runs before the next click or answer (`Due`,
`RunEffect`).  StrictMode's double mount in development is left out.

* `ManageSlotsPage`: two lists, of the course and of all the mentor's courses
  of the week, a dialog that a timer closes, and `Submit` with
  `checkSlotOverlap` against the list loaded last, next to the trigger's check
  at the server.  `updateSlot` has no caller.
* `PaymentsPanel`: the sessions of the week and "mark as paid".  It shares
  nothing with the grid but the week, so it has a module of its own.
* `CoursePage`: the effect of line 948 with its two changing dependencies, the
  chain of loads, reviews with page tokens and names, favourite with its
  count, status, rating.  The author's name, upload of a picture and deletion are
  left out.
* `CourseFormPage`: loading, the preview of a chosen file, upload and removal
  of the picture, saving in two requests, deletion.  Before it shows a stored
  picture the page asks for it with HEAD, a method for which the gateway has no
  route (`handler.go:70` is for GET, and gin answers HEAD only where it is
  registered): `Looked` and `HeadAnswered` never find it.
* `CoursesPage`: filter, page and the tokens kept per page; the URL; the
  requests for tokens of the pages in between, one of which may be refused
  without an error on the screen (`Courses.tsx:196`).
* `ProfilePage`: three requests one after the other, for each URL and renewed
  token, and the chat button with chat_service's look, its trigger's look, and
  the commit.
* `ProfileEditPage`: loading, redirection from another's form, roles,
  skills, picture, the save with what the gateway makes of omitted fields, the four
  tables of `UpdateProfile`, and the timer that leaves the page.
* `DashboardPage`: loads in parallel with fallbacks to zero, and the abort.

## 3. Runs

| Run | Instance | States | What it shows |
| --- | --- | --- | --- |
| `booking` | 1 slot, a web and an app client, 2 session ids, 1 fault | 930,497 | a loser of a race frees nothing, cancellation hits the student's own session and opens at most a slot booked after it, ratings are on paid sessions, the ledger holds |
| `booking_live` | the same, 1 id | 51,185 | every request chain ends |
| `calendar` | 2 mentors, 2 slots, 3 ranges, clock 0..2 | 122,847 | overlaps come only from races; without a race the cleanup is never blocked |
| `sockets` | 3 connections, 1 message, buffer 1 | 1,540,672 (up to symmetry) | no send on a closed channel, a second writer is the connection's own read loop or follows overlapping handlers, repository and map are empty once the handlers are gone |
| `sockets_live` | 2 connections, 2 messages, buffer 1 | 377,288 | single delivery, a queued message arrives or its connection ends, no goroutine leak |
| `wsclient` | 2 accounts, 3 sockets, 3 timers, 2 attempts | 649,626 | in which cases a replaced socket is heard or left open, a second reconnect pends, or the connection is another user's; after a loss the client tries again |
| `chats` | 2 peers, 2 old and 1 new message, pages of 1, 2 requests | 3,938,356 (up to symmetry) | in which cases a window shows a foreign or repeated message; marks name their chat; no spinner stays; the list names the right users |
| `auth` | 2 tabs, 2 accounts, 3 pairs, 2 sign-ins | 7,065,935 (up to symmetry) | in which cases a refresh token survives its rotation or a logout, and tokens and users come apart |
| `pages` | 8 routes, 3 requests (2 on three pages), 1 trouble | 11,097,718 | see the table below |
| `second_disconnect` | 2 connections | violated | see finding 1 |
| `reviews` | a full page of 2 reviews, 4 requests | violated | see finding 2 |
| `roles` | one form, 2 saves | violated | see finding 3 |

The properties of `pages` are stated once in `WebPages` and mean, under each
route, what the module of the page says:

| Route | States | `ScreenIsTrue` | `SavedIsTrue` | `DoneOnce` |
| --- | --- | --- | --- | --- |
| `slots` | 3.09 M | both lists are the server's | | one change per slot at a time |
| `payments` | 86 k | payments are the server's | | one mark per session at a time |
| `course` | 2.11 M | heart, count, status; reviews once each; rests only on a page that is not full | | |
| `form` | 306 k | the picture is the server's; the preview is of the chosen file, or else of the stored picture or none | text and picture saved before it leaves | one course per form |
| `courses` | 2.36 M | list of the filter and page named | | |
| `profile` | 1.28 M | profile and courses of the URL's user; the chat opened is with them | | one chat per pair |
| `edit` | 1.86 M | form is the user's own profile | text, picture, roles ticked, skills; the signed-in user | |
| `dashboard` | 74 | the last load, whole unless a request failed | | |

`RefusedOnlyWhenStale` is about `slots`; `TypeOK` and `BusyHasRequest` are about all.
Every exception ("unless ...") is a cause recorded in `seen` at the step where
it happens, so the property says that nothing else can make the page wrong.

Why these bounds.  *Booking.*  Slots share nothing but the bulk UPDATE, so one
slot suffices; two session ids let a slot be booked again after a release; two
clients of the two kinds are what a race needs; one fault is enough for "the first
request worked, the second did not" and for a lost answer followed by a
rollback.  *Calendar.*  Two slots make a racing pair, two mentors show that ranges of
different mentors do not clash, and the three ranges touch, contain and
equal each other.  *Gateway.*  Three connections let the end of the first fall between
the steps of two later ones; with a buffer of one the second message meets a
full buffer (the code has 100 places; only "full or not" is looked at).
*Client.*  Three sockets are the current one, one replaced while connecting and
one replaced while closing; two attempts (five in the code) are a first and a last.
*Chats.*  Two chats make a switch, a chat with two messages and pages of one
(50 in the code) has an older page, the new message races both; two
requests at a time are a load and what overtakes it.  *Auth.*  Three pairs are two
sign-ins and a rotation, or a sign-in and two rotations of one token.  *Pages.*  Two
requests make every pair of answers come in both orders; three add a third
party on the pages that send parallel requests.  One trouble is either a
failure or a change by others: the run sees the causes one at a time, the proofs
(section 5) see any number of them.  On `courses` a URL with both a filter and a late page needs three
requests at once and is beyond `FewCalls` of the run, not of the proof.
Deadlock is not checked anywhere: each instance runs out of ids, faults,
connections or clicks and may then rest, as may the system when no user acts.

Every property of a passing run has at least one mutant: a small change of a
definition, written next to it in the module and marked "Mutant", under which
the run fails.

### Findings

1. *The end of an old connection closes the new one* (`second_disconnect`,
   `web_socket_service.go:114`).  `SaveConnection` of a new connection closes
   the old one; the old one's read loop then calls `HandleDisconnection`, which
   is keyed by the user and takes down the new connection.
2. *A course with a full page of reviews is loaded again and again* (`reviews`,
   `Course.tsx:948`).  The effect depends on `loadRatings`, which depends on the
   page token; the load clears the token and sets it again.  `RestsOnLastPage`
   in `pages` is the other side: the page rests only when the reviews do not
   fill a page.
3. *A role cannot be given up* (`roles`, `ProfileEdit.tsx:589`).  The comment
   announces the removal of the mentor; what is sent makes user_service create
   or update the mentor row.

Observed while modelling, as counterexamples of stronger properties or as plain
consequences of the code, and kept as exceptions or comments:

* The rollback of the web enrolment page never runs (`CourseEnrollPage.tsx:456`):
  its condition reads the list of a closure in which the slot is still free, so
  that the slot stays `booked` without a session.  Reading the current
  list instead is the mutant `RollbackOnFreshList`: the loser of a race then
  frees the winner's slot, which the Android app does (`EnrollActivity.java:153`).
* A session can be created on a closed slot (`session_handler.go:459` announces
  403), and `UpdateSlotStatus` marks a slot whatever its status.
* Open slots of a mentor can overlap after a race of two transactions, since the
  trigger (migration line 23) does not see uncommitted rows; `CloseExpiredSlots`
  then fails as a whole, for all mentors, until a slot is edited.
* The write that opens a slot after a cancellation is of the slot
  (`session_service`'s handler does not look whether it was booked again): a
  student who books in between keeps the session and finds the slot offered to others
  (`CancelExposesOnlyLaterBooking` says that it is never an earlier booking).
* The read loop answers a refused message with a write of its own
  (`handler_web_socket.go:234`) while the sender may be writing to the same
  connection; gorilla/websocket allows one writer at a time and panics when it
  notices two.  No reconnect is needed: a refused message that meets a delivery
  is enough.
* The picture of a course is not shown when its form is opened, although it is
  stored: the page first asks for it with HEAD (`CourseFormPage.tsx:251`), which
  the gateway does not route.  It appears once a chosen file is taken back.
* A refused request for the token of a page in between is passed over
  (`Courses.tsx:196`): the list of courses then shows its first page under the number
  that was chosen, and keeps the token of that page there.
* `isConnected` of `useWebSocket.ts:6` starts false: a page mounted over the
  connection made at sign-in says that it is disconnected.
* Every save of a profile sends both `mentor_data` and `student_data`, so
  each user becomes both, and learning skills are deleted; a skill without a name
  replaces the form by an error; a second save within two seconds is compared with
  what was loaded before the first; a removed picture stays in `AuthContext`;
  `/profile/<other>/edit` loads the other's profile before it redirects.
* The archive button of the course form sends `draft` (`CourseFormPage.tsx:363`);
  the refresh it passes along is a function, which JSON drops, so a renewal from
  there is always refused.
* A profile page shows the favourites of the signed-in user on everybody's
  profile; its chat button opens `/chats?chat=<id>`, and `Chats.tsx` reads
  no parameter; `checkIfFavorite` looks at the first 100 favourites only.
* An aborted load of the dashboard shows zeros and takes the spinner down
  before the next load has answered.
* `PUT /sessions/{id}` stores a rating on an unpaid session, and nothing stops a
  rating before the slot has ended (comment at `session_handler.go:626`).

## 4. Fairness

* `SlotBooking`: weak fairness for the answer to a request and for the reload
  that ends a chain (a request is answered or fails; the loaders have no
  condition), and for the second half of a handler (the goroutine goes on).
  None for users, mentors and the ticker.
* `SlotCalendar`: weak fairness for `Commit(x) \/ Abort(x)` (a statement ends,
  one way or the other); strong fairness for `CloseExpired`, because statements
  of others can lock a row again and again and PostgreSQL queues lock waiters.
* `GatewaySockets`: weak fairness for senders and for the end of an error answer;
  strong fairness for a read on a socket that is gone, which other answers put off
  and do not prevent, and for a handler's next step, which may need the mutex:
  `sync.RWMutex` lets a waiting writer in before later readers, and a starving
  `sync.Mutex` is handed over.  A client that vanishes without a packet is
  noticed only by TCP, which we take to happen eventually.
* `WebSocketClient`: weak fairness for the timers and for the end of connecting
  and of closing (`open` or `close` fires: the browser gives up on its own).  None for users
  or for losses.  `KeepsTrying` further assumes, in its own formula, that people
  stop signing in and opening the chats.
* `CoursePage` has `LoadSpec` for `reviews`: a reader who does not click, with
  weak fairness for answers and the effect.

The other modules have safety properties only; that a spinner comes down is
split into "a request under way will take it down" (`BusyHasRequest`,
`SpinnerHasRequest`), which is checked, and "a request is answered or
fails", which is the network's part.

## 5. Proofs

All for every value of the constants: any number of slots, students,
connections, messages, chats, tabs, accounts, pages' rows, requests and retries.  The assumptions
are the named ones of the modules (`BookingAssumption`, `CalendarAssumption`,
`SocketsAssumption`, `ClientAssumption`, `AuthAssumption`, `ChatAssumption`,
`PagesAssumption`): bounds are numbers, the buffer has a place and a page a message,
`None` is none of the ids, the ids of new messages are not those of old ones, and
the peers are finitely many; for the pages also that the day of the first slot is a
day, that a name is not a special value, and that `MaxPage` pages hold the courses
there can be (what bounds the page number is that total).  Each invariant was checked by TLC before it was proved.

**SessionTablesProofs.**  `TableInv` is the type invariant with
`OneSessionPerSlot`, `SessionHasSlot` and `IdsIdentifyRows`; the last is
needed because replacing a row by its updated form keeps slots apart only if
no other row is hit.  Statements fall into four groups (those that keep all rows,
deletion of a slot, insertion, replacement or removal of one row), each with a lemma for the
invariant and one for the refinement.  Results: `TablesTypeCorrect`,
`SlotNeverDoubleBooked`, `NoOrphanSession` (of `SessionHasSlot`, which only the
foreign key's cascade could break and which no run repeats) and
`TablesImplementLedger`.  They are about `SpecTables`, the most general client.

**SlotBookingProofs.**  First every action of the system is shown to be a
statement or a stutter of the tables (`BookingImplementsTables`), which carries
the four results over (`RaceHasOneWinner`, `BookingImplementsLedger`).
`BookingInv` then adds what each screen knows (`GoodPage`): a web page that
marks or creates saw a slot that was not booked; one that deletes has an id
that was issued to its own student, or to nobody any more; one that waits or frees has an id
whose row is gone.  `Later` (ids are used up and never return; a row
keeps its id and student) is what keeps a screen's knowledge true while
others act.  `ExposeInv` is about the second half of a cancellation: the ids that a
deletion remembered in `deletedAt` are issued, and never again; none of them has a row
on the slot that is still to be opened, because the deleted row was the only one there
and later ones have later ids.
Results: `BookingTypeCorrect`, `LoserFreesNothing`,
`CancelExposesLater`, `CancelsOwnSession`, `RatesOnlyPaid`.

**SlotCalendarProofs.**  `CalendarInv` strengthens `OverlapOnlyFromRace` to
rows in flight: any two statements in flight are recorded, and an open row
overlaps a row in flight only if the pair is.  `CleanupNotBlocked` follows: as
long as nothing raced, the trigger accepts every row of the bulk UPDATE.

**GatewaySocketsProofs.**  `SocketsInv` says of every piece of state who still
owes the call that cleans it up.  A connection in the map of goroutines has its own
handler before `stopGoroutine` (`ManagerOK`); one in the repository has that
handler, or one that is about to replace or delete it (`ClientOK`); the mutex
is kept exactly by the handler that waits in `stopGoroutine` (`MutexOK`).
`NothingLeftBehind` follows: with no handler left, nobody owes anything to the
repository or the map of goroutines.  It says nothing of the goroutines: a sender
blocked in a write outlives the two seconds that `stopGoroutine` waits for it, and
that it ends at last is checked by `sockets_live`.
`ChannelStaysOpen` needs `SavedOK`: what is in the repository or closed has been
saved, so a connection that is being saved is not closed.  `SecondWriter` rests on
`Alone`: until two calls of `HandleConnection` overlap, a connection is saved with
nothing in the map, and a sender's look-up *by user* finds its own connection or
none; what remains as a second writer is the read loop of the connection, which
`ReadsCases` shows to be the only one that answers on it.  `AtMostOnce` is a separate argument: `Places` of a message (buffers, hands of
senders, received) are disjoint, and a step moves a message from one to the next.

**WebSocketClientProofs.**  `ClientInv` adds to the checked properties what makes
them inductive: the current socket is alive and listened to; the handle of a
pending timer is the one kept (`HandleIsKept`), which is why `attemptReconnect()`,
which does not look, sets no second one as long as `connect()` has replaced no
socket that was not closed (`overtaken`; the ends of two replaced sockets do set two); what a reconnect will use is the
token of the one signed in (`TokenIsOfUser`), and the current socket was opened
for that account (`CurrentIsOfUser`).  Results: `OneListener`, `NoOrphans`,
`OneTimer`, `TrueConnection`.

**AuthSessionProofs.**  Three layers.  `Structure`: an operation has the tokens
its stage needs, and only issued ones.  `SignInsOK`, for a sign-in that is not set
aside (two rotations of it overlapped, one failed halfway, or the browser did not keep
what a rotation gave): a rotation under way is of the only live token; a logout about to
be carried out names the only live token; the live token of the stored sign-in is the
stored one or on its way to a tab (`StoredOrComing`, the conjunct that ties the
browser to the server).  A token just issued is known only to the operation that
waits for it (`NewIsUnshared`).  Results: `OneTokenPerSignIn`, `LogoutIsFinal`.
`UsersOK`: a refresh under way carries a token of the stored user, and a tab's
answers are of the user it will show.  Result: `TokensAreOfUsers`.

**ChatPageProofs.**  `ChatInv`, from the server outwards: each message is written
before it is anywhere, stored once and delivered once (`ServerOK`); an answer is a
page of the chat asked for, in order, before the cursor (`RequestsOK`); flags and
closures lag behind the selection in known ways (`PageOK`, `ListOK`); until the
selection moves during a load all loads are of the selected chat, and messages
of another one are kept only behind the spinner (`SwitchOK`).  The heart is
`PagesOK`: *from a cursor on there is at least one page* (`PageFrom`).  It holds
of the oldest message of a page with more before it, the store only grows at
its end, and therefore a first page read later does not reach behind the cursor, nor
a page of older messages past it; so no order of answers repeats a message.
This needs lemmas about sequences and the order of the store (`OlderIsOrder`,
`LatestExists`), which use well-foundedness of the numbers.  Results:
`MarksAreInTheirChat`, `SpinnersEnd`, `ListedOnce`, `TrueWindow`.

Two conjuncts came out of attempts that failed: that a page with no selection
has no load under way and an empty window (`NothingSelected`), and that a
listener is attached only where it knows the selected chat
(`ListenerIsOfSelected`); both are what `loadMessages` and the effects take for
granted.

**WebPagesProofs.**  `PagesInv` is the invariant of the page that is mounted; the
eight share lemmas about the bag of requests (what is in it after one is added, ends,
or turns into another), and differ in what an answer may be late for.
* *Slots* (`SlotsInv`): until a creation brings a new list the page knows
  every open slot of the server, so what `checkSlotOverlap` lets through the
  trigger accepts; otherwise a list is on its way (`Coming`).
* *Payments* (`PaymentsInv`): a load that has been read carries the server's rows,
  and one request is about the session the panel remembers.
* *Course* (`CourseInv`): the heart differs from the server's only while the answer
  of its one toggle is to come (`CourseHeart`); the list is the newest ratings
  down to the token (`CourseNewest`); a token or a full page brings a load of the
  course (`CourseRests`).
* *Form of a course* (`FormInv`): loading is alone; one upload or deletion at a time;
  what is read, sent and looked at is the chosen file, and the preview that of a file
  or of the stored picture, or none (`FormPictures`); a save
  carries what the page shows, and that is what the server has once it is done.
* *Courses* (`CoursesInv`): tokens and lists are at the offset of their page until a
  list was asked for without the token of its page (`CoursesOffsets`); the list is the one the
  effects asked for last, or that one is on its way (`CoursesAsked`).
* *Profile* (`ProfileInv`): another user's profile is shown only while that of the
  URL is to come; one creation of a chat has passed the look-up, and none is
  committed then (`CheckedOnce`).
* *Form of a profile* (`EditInv`): before a save the server has what was loaded and the
  pictures sent since (`EditBefore`); after it, what the form showed, until that is
  edited (`EditAfter`); a picture is missing only where it was removed.
* *Dashboard* (`DashboardInv`): one load is not aborted, and it is the last.

Results: `PagesTypeCorrect`, `BusyPagesHaveRequests`, `ScreensAreTrue`,
`SavedFormsAreTrue`, `AskedOnceDoneOnce`, `RefusalsAreStale`: all that the run `pages`
checks, for any number of requests, failures, changes by others, rows and edits,
and so for any combination of the causes.

One attempt failed for a reason in the code.  `RestsOnLastPage` used to make no
exception for `overtaken` and does not hold without it: an answer to "Load more"
can come after the list was emptied and filled again from the start; it is then
appended, and can leave a list as long as a full page without a token, at
rest.  TLC has a trace of 71 steps, with seven requests under way and nine changes
or failures allowed; the run `pages` is far from that.  `seen` records that cause, which `ListedOnce` excepts as well.

Only model-checked: the liveness properties (`BookingEnds`,
`CleanupUnlessRace`, `KeepsTrying` and those of `sockets_live`), which rest on fairness and ENABLED.
Every invariant and every action property of a passing run is a theorem.

## 6. Not modelled

* notification_service: a worker with a database of its own.  Its hazards: a
  crash between sending an e-mail and marking it sends it twice; a failure is
  recorded in two statements; a Kafka message whose handling failed is logged as
  to be retried, but the reader has moved on.
* redis between gateway and chat_service: pub/sub delivers at most once, so a
  message accepted while no subscriber listens is delivered and not stored; each
  message is published by its own goroutine, so the order can change; a
  message counts as read once it is in the recipient's buffer; recipients are
  taken from a cache of the chat's members.
* `Register` of auth_service, a saga over user_service with a compensation that
  may itself fail or never run; post_service's `UpdatePost` (read, modify,
  write under a mask); the income queries, which sum current prices.
* The goroutine that announces a booking (`slot_service.go:217`) may look for
  the session before the client has created it; a rating may be written by
  `UpdateSession`, past the checks of `RateSession`.
* Two tabs of one user, each with a `WebSocketClient`: each reconnect makes the
  gateway close the other's connection (`GatewaySockets`), so they may take turns
  until the attempts are used up.  The composition of the two modules is not built.
* The gateway's other routes and middleware, and the Android app's other
  screens: stateless conversions, and views over single requests.
* Pages without a part in this: `Home` shows lists of single requests;
  `CourseTest`, `ProfileTest` and `TeacherCoursesSection` are imported by nothing.
* Everywhere: rendering, wording, validation of inputs, logging, media contents.

## 7. Plan

1. `Messaging`: the path through redis (at most once, unordered) composed with
   `GatewaySockets` and `ChatPage`, with "stored at most once" as the abstraction.
2. `NotificationWorker` with crashes, and `Registration` with its compensation.
