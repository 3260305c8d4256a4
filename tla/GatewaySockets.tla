--------------------------- MODULE GatewaySockets ---------------------------
(***************************************************************************)
(* The WebSocket connections of one user at the API gateway: the handler   *)
(* of each connection, the repository that knows the current one, and the  *)
(* goroutines that write queued messages to it.  Users share no state but  *)
(* the mutex of WebSocketService, which nobody keeps for good.             *)
(*                                                                         *)
(* HandleConnection and HandleDisconnection are not atomic: each of their  *)
(* calls locks for itself, and what they find is keyed by the user, not by *)
(* the connection.  stopGoroutine holds the mutex while it waits for the   *)
(* sender it cancelled; it gives up after two seconds, which happens only  *)
(* to a sender that is blocked in a write.                                 *)
(***************************************************************************)
EXTENDS Naturals, Sequences, FiniteSets

CONSTANTS
  Conns,       \* connections the user ever opens
  Messages,    \* messages sent to the user
  Capacity,    \* of a SendChan
  None

ASSUME SocketsAssumption ==
  /\ None \notin Conns \union Messages
  /\ Capacity \in Nat \ {0}

VARIABLES
  handler,     \* where the goroutine that serves a connection is
  sock,        \* the socket: the client may leave, the server may close it
  client,      \* the connection in the repository
  manager,     \* the connection whose goroutineManager is in the map
  mutex,       \* the handler that holds s.mu while it waits in stopGoroutine
  cancelled,   \* connections whose sender's context is cancelled
  sender,      \* the message sender started for a connection
  chan,        \* the messages buffered in a SendChan
  closed,      \* connections whose SendChan is closed
  received,    \* what the client at the other end got
  outcome,     \* what SendMessage answered for each message
  overlapped   \* history: two HandleConnection calls ran at the same time

handlerVars == <<handler, sock, client, manager, mutex, cancelled, closed, overlapped>>
vars == <<handlerVars, sender, chan, received, outcome>>

\* The steps of HandleConnection and of HandleDisconnection.
Connecting(k) == handler[k] \in {"stop", "stopping", "save", "register"}
Steps == {"none", "stop", "stopping", "save", "register", "read",
          "answer", "check", "unset", "unsetting", "delete", "done"}

Running(k) == sender[k].pc \in {"wait", "run", "write"}
NoSender == [pc |-> "none", conn |-> None, msg |-> None]

Goto(k, step) == handler' = [handler EXCEPT ![k] = step]

(***************************************************************************)
(* HandleConnection.                                                       *)
(***************************************************************************)

\* The upgraded connection enters HandleConnection.
Connect(k) ==
  /\ handler[k] = "none"
  /\ Goto(k, "stop")
  /\ sock' = [sock EXCEPT ![k] = "open"]
  /\ overlapped' = (overlapped \/ \E j \in Conns : Connecting(j))
  /\ UNCHANGED <<client, manager, mutex, cancelled, closed, sender, chan,
                 received, outcome>>

\* stopGoroutine, called at step "from": without an entry in the map there is
\* nothing to do, otherwise the context is cancelled and the mutex kept.
StopBegins(k, from, waiting, next) ==
  /\ handler[k] = from
  /\ mutex = None
  /\ IF manager = None
     THEN Goto(k, next) /\ UNCHANGED <<mutex, cancelled>>
     ELSE Goto(k, waiting) /\ mutex' = k /\ cancelled' = cancelled \union {manager}
  /\ UNCHANGED <<sock, client, manager, closed, overlapped, sender, chan,
                 received, outcome>>

\* Mutant: stopGoroutine does not wait for the sender to stop.
StopReturnsAtOnce(k, waiting, next) ==
  /\ handler[k] = waiting
  /\ manager' = None
  /\ mutex' = None
  /\ Goto(k, next)
  /\ UNCHANGED <<sock, client, cancelled, closed, overlapped, sender, chan,
                 received, outcome>>

\* The sender confirms that it stopped, or two seconds pass during its write.
StopEnds(k, waiting, next) ==
  /\ handler[k] = waiting
  /\ sender[manager].pc \in {"done", "write"}
  /\ manager' = None
  /\ mutex' = None
  /\ Goto(k, next)
  /\ UNCHANGED <<sock, client, cancelled, closed, overlapped, sender, chan,
                 received, outcome>>

StopPrevious(k) ==
  \/ StopBegins(k, "stop", "stopping", "save")
  \/ StopEnds(k, "stopping", "save")

\* The connection in the repository, if any, is closed with its channel.
CloseCurrent ==
  /\ closed' = closed \union ({client} \ {None})
  /\ sock' = [c \in Conns |-> IF c = client THEN "closed" ELSE sock[c]]

SaveConnection(k) ==
  /\ handler[k] = "save"
  /\ CloseCurrent
  /\ client' = k
  /\ Goto(k, "register")
  /\ UNCHANGED <<manager, mutex, cancelled, overlapped, sender, chan,
                 received, outcome>>

\* The manager enters the map, whatever the map held, and the sender starts;
\* the handler goes on to read from the connection.
Register(k) ==
  /\ handler[k] = "register"
  /\ mutex = None
  /\ manager' = k
  /\ sender' = [sender EXCEPT ![k].pc = "wait"]
  /\ Goto(k, "read")
  /\ UNCHANGED <<sock, client, mutex, cancelled, closed, overlapped, chan,
                 received, outcome>>

(***************************************************************************)
(* The read loop.  What the client sends is handled here; when that fails  *)
(* the read loop writes an error answer to its connection, from its own    *)
(* goroutine, and reads on whatever comes of the write.                    *)
(***************************************************************************)

\* HandleMessage of something read, also of what had arrived before the socket
\* went, returns an error.
AnswerBegins(k) ==
  /\ handler[k] = "read"
  /\ Goto(k, "answer")
  /\ UNCHANGED <<sock, client, manager, mutex, cancelled, closed, overlapped,
                 sender, chan, received, outcome>>

AnswerEnds(k) ==
  /\ handler[k] = "answer"
  /\ Goto(k, "read")
  /\ UNCHANGED <<sock, client, manager, mutex, cancelled, closed, overlapped,
                 sender, chan, received, outcome>>

(***************************************************************************)
(* HandleDisconnection, when reading from the connection fails.            *)
(***************************************************************************)

\* The socket is gone, or what the client sent does not parse.
ReadFails(k) ==
  /\ handler[k] = "read"
  /\ Goto(k, "check")
  /\ UNCHANGED <<sock, client, manager, mutex, cancelled, closed, overlapped,
                 sender, chan, received, outcome>>

\* Without a manager the connection counts as handled already.
CheckManager(k) ==
  /\ handler[k] = "check"
  /\ mutex = None
  /\ Goto(k, IF manager = None THEN "done" ELSE "unset")
  /\ UNCHANGED <<sock, client, manager, mutex, cancelled, closed, overlapped,
                 sender, chan, received, outcome>>

StopCurrent(k) ==
  \/ StopBegins(k, "unset", "unsetting", "delete")
  \/ StopEnds(k, "unsetting", "delete")

\* Mutant: HandleDisconnection leaves the connection in the repository.
DeleteNothing(k) ==
  /\ handler[k] = "delete"
  /\ Goto(k, "done")
  /\ UNCHANGED <<sock, client, manager, mutex, cancelled, closed, overlapped,
                 sender, chan, received, outcome>>

\* Mutant: the connection leaves the repository without being closed.
DeleteWithoutClosing(k) ==
  /\ handler[k] = "delete"
  /\ client' = None
  /\ Goto(k, "done")
  /\ UNCHANGED <<sock, closed, manager, mutex, cancelled, overlapped, sender,
                 chan, received, outcome>>

\* Mutant: the connection is closed but stays in the repository.
CloseWithoutDeleting(k) ==
  /\ handler[k] = "delete"
  /\ CloseCurrent
  /\ Goto(k, "done")
  /\ UNCHANGED <<client, manager, mutex, cancelled, overlapped, sender, chan,
                 received, outcome>>

DeleteConnection(k) ==
  /\ handler[k] = "delete"
  /\ CloseCurrent
  /\ client' = None
  /\ Goto(k, "done")
  /\ UNCHANGED <<manager, mutex, cancelled, overlapped, sender, chan,
                 received, outcome>>

(***************************************************************************)
(* The message sender of connection k.  It looks the connection up by user *)
(* after 100 ms; a select with several ready cases takes any of them.      *)
(***************************************************************************)

SenderStops(k) == sender' = [sender EXCEPT ![k].pc = "done"]

SenderFinds(k) ==
  /\ sender[k].pc = "wait"
  /\ IF client = None
     THEN SenderStops(k)
     ELSE sender' = [sender EXCEPT ![k].pc = "run", ![k].conn = client]
  /\ UNCHANGED <<handlerVars, chan, received, outcome>>

\* The context is cancelled, the channel is closed and drained, or a ping
\* fails.
SenderEnds(k) ==
  /\ \/ sender[k].pc \in {"wait", "run"} /\ k \in cancelled
     \/ /\ sender[k].pc = "run"
        /\ \/ sender[k].conn \in closed /\ chan[sender[k].conn] = <<>>
           \/ sock[sender[k].conn] # "open"
  /\ SenderStops(k)
  /\ UNCHANGED <<handlerVars, chan, received, outcome>>

\* Mutant: the message stays in the buffer while it is written.
SenderPeeks(k) ==
  /\ sender[k].pc = "run"
  /\ chan[sender[k].conn] # <<>>
  /\ sender' = [sender EXCEPT ![k].pc = "write", ![k].msg = Head(chan[sender[k].conn])]
  /\ UNCHANGED <<handlerVars, chan, received, outcome>>

SenderTakes(k) ==
  /\ sender[k].pc = "run"
  /\ chan[sender[k].conn] # <<>>
  /\ sender' = [sender EXCEPT ![k].pc = "write", ![k].msg = Head(chan[sender[k].conn])]
  /\ chan' = [chan EXCEPT ![sender[k].conn] = Tail(@)]
  /\ UNCHANGED <<handlerVars, received, outcome>>

\* WriteJSON to a client that left may fail or vanish; on a closed socket it
\* fails, and the message is gone.
SenderWrites(k) ==
  /\ sender[k].pc = "write"
  /\ LET c == sender[k].conn IN
     \/ /\ sock[c] = "open"
        /\ received' = [received EXCEPT ![c] = Append(@, sender[k].msg)]
        /\ sender' = [sender EXCEPT ![k].pc = "run", ![k].msg = None]
     \/ /\ sock[c] = "left"
        /\ sender' = [sender EXCEPT ![k].pc = "run", ![k].msg = None]
        /\ UNCHANGED received
     \/ /\ sock[c] # "open"
        /\ sender' = [sender EXCEPT ![k].pc = "done", ![k].msg = None]
        /\ UNCHANGED received
  /\ UNCHANGED <<handlerVars, chan, outcome>>

(***************************************************************************)
(* The user's clients and the senders of messages.                         *)
(***************************************************************************)

ClientLeaves(k) ==
  /\ sock[k] = "open"
  /\ sock' = [sock EXCEPT ![k] = "left"]
  /\ UNCHANGED <<handler, client, manager, mutex, cancelled, closed, overlapped,
                 sender, chan, received, outcome>>

\* Mutant: SendMessage does not wait for room in the buffer.
SendUnbounded(m) ==
  /\ outcome[m] = "unsent"
  /\ client # None
  /\ outcome' = [outcome EXCEPT ![m] = "queued"]
  /\ chan' = [chan EXCEPT ![client] = Append(@, m)]
  /\ UNCHANGED <<handlerVars, sender, received>>

\* SendMessage of the repository, called for a message to this user: nobody
\* is connected, or the message fits the buffer, or it is refused.
SendMessage(m) ==
  /\ outcome[m] = "unsent"
  /\ IF client = None
     THEN outcome' = [outcome EXCEPT ![m] = "offline"] /\ UNCHANGED chan
     ELSE IF Len(chan[client]) < Capacity
          THEN /\ outcome' = [outcome EXCEPT ![m] = "queued"]
               /\ chan' = [chan EXCEPT ![client] = Append(@, m)]
          ELSE outcome' = [outcome EXCEPT ![m] = "refused"] /\ UNCHANGED chan
  /\ UNCHANGED <<handlerVars, sender, received>>

(***************************************************************************)
(* The specification.                                                      *)
(***************************************************************************)

Init ==
  /\ handler = [k \in Conns |-> "none"]
  /\ sock = [k \in Conns |-> "none"]
  /\ client = None
  /\ manager = None
  /\ mutex = None
  /\ cancelled = {}
  /\ sender = [k \in Conns |-> NoSender]
  /\ chan = [k \in Conns |-> <<>>]
  /\ closed = {}
  /\ received = [k \in Conns |-> <<>>]
  /\ outcome = [m \in Messages |-> "unsent"]
  /\ overlapped = FALSE

Handle(k) ==
  \/ StopPrevious(k) \/ SaveConnection(k) \/ Register(k)
  \/ CheckManager(k) \/ StopCurrent(k) \/ DeleteConnection(k)

SenderStep(k) ==
  SenderFinds(k) \/ SenderEnds(k) \/ SenderTakes(k) \/ SenderWrites(k)

Next ==
  \/ \E k \in Conns :
       \/ Connect(k) \/ Handle(k) \/ AnswerBegins(k) \/ AnswerEnds(k)
       \/ ReadFails(k) \/ SenderStep(k) \/ ClientLeaves(k)
  \/ \E m \in Messages : SendMessage(m)

\* Goroutines run; a handler gets the mutex it waits for; reading from a
\* socket that is gone fails, once what was read ahead has been handled.
\* Nobody has to connect, leave or send.
Fairness ==
  \A k \in Conns :
    /\ SF_vars(Handle(k))
    /\ WF_vars(SenderStep(k))
    /\ WF_vars(AnswerEnds(k))
    /\ SF_vars(ReadFails(k) /\ sock[k] # "open")

Spec == Init /\ [][Next]_vars
FairSpec == Spec /\ Fairness

(***************************************************************************)
(* Properties.                                                             *)
(***************************************************************************)

\* The variables have their types.
TypeOK ==
  /\ handler \in [Conns -> Steps]
  /\ sock \in [Conns -> {"none", "open", "left", "closed"}]
  /\ client \in Conns \union {None}
  /\ manager \in Conns \union {None}
  /\ mutex \in Conns \union {None}
  /\ cancelled \subseteq Conns
  /\ sender \in [Conns -> [pc : {"none", "wait", "run", "write", "done"},
                           conn : Conns \union {None}, msg : Messages \union {None}]]
  /\ chan \in [Conns -> Seq(Messages)] /\ \A k \in Conns : Len(chan[k]) <= Capacity
  /\ closed \subseteq Conns
  /\ received \in [Conns -> Seq(Messages)]
  /\ outcome \in [Messages -> {"unsent", "offline", "queued", "refused"}]
  /\ overlapped \in BOOLEAN

\* SendMessage never sends on a closed channel, and no channel is closed
\* twice: either would panic and end the gateway.
RepositoryChannelOpen == client # None => client \notin closed

\* The places where message m is, on its way to the user or arrived.
InBuffers(m) == UNION {{<<k, "chan", i>> : i \in {i \in DOMAIN chan[k] : chan[k][i] = m}} : k \in Conns}
Arrived(m) == UNION {{<<k, "received", i>> : i \in {i \in DOMAIN received[k] : received[k][i] = m}} : k \in Conns}
InHands(m) == {<<k, "sender", 1>> : k \in {k \in Conns : sender[k].msg = m}}
Places(m) == InBuffers(m) \union Arrived(m) \union InHands(m)

\* Whatever senders come and go, a message is never delivered twice, and only
\* a message that was queued is delivered at all.
DeliveredOnce ==
  \A m \in Messages : Cardinality(Places(m)) <= IF outcome[m] = "queued" THEN 1 ELSE 0

\* The goroutines that may be writing to connection c: every sender that
\* serves it, and its own read loop while that answers with an error.
Writers(c) ==
  {<<"sender", k>> : k \in {k \in Conns : Running(k) /\ sender[k].conn = c}}
  \union {<<"reader", k>> : k \in {k \in {c} : handler[k] = "answer"}}

\* The WebSocket library allows one writer to a connection.  A second one is
\* either the connection's own read loop with an error answer, which nothing
\* keeps apart from the sender, or it comes of two HandleConnection calls of
\* the user that overlapped: no other order of the handlers leaves two senders
\* on one connection.
SecondWriterHasCause ==
  \A c \in Conns : \A v, w \in Writers(c) :
    v # w => overlapped \/ <<"reader", c>> \in {v, w}

\* When every connection has been dealt with, nothing of the user is left in
\* the repository or the map of goroutines, whatever order the handlers ran in.
QuietMeansClean ==
  (\A k \in Conns : handler[k] \in {"none", "done"}) => client = None /\ manager = None

\* A queued message reaches the client, or the connection it was queued for
\* ends: a connection never stays open with nobody to write to it.
QueuedArrivesOrConnectionEnds ==
  \A k \in Conns, m \in Messages :
    (\E i \in 1..Len(chan[k]) : chan[k][i] = m) ~>
      (sock[k] # "open" \/ \E i \in 1..Len(received[k]) : received[k][i] = m)

\* "GOROUTINE LEAK DETECTED!" would be a false alarm in the long run: when all
\* handlers are through, the last sender stops.
NoGoroutineLeak ==
  (\A k \in Conns : handler[k] = "done") ~> (\A k \in Conns : ~Running(k))

\* The comment on HandleDisconnection calls it idempotent, and says that a
\* connection is "already handled" when its goroutine is gone: once the
\* repository has closed connection k, the end of k closes nothing more.
DisconnectIsIdempotent ==
  [][\A k \in Conns : handler[k] = "delete" /\ handler'[k] = "done" /\ k \in closed
       => closed' = closed]_vars
=============================================================================
