------------------------ MODULE GatewaySocketsProofs ------------------------
(***************************************************************************)
(* Proofs about GatewaySockets, for any number of connections and messages *)
(* and any size of the buffer: what the handlers and senders of one user   *)
(* may do to the repository, to the map of goroutines, and to a message.   *)
(***************************************************************************)
EXTENDS GatewaySockets, FiniteSetTheorems, TLAPS

(***************************************************************************)
(* The inductive invariant, in parts.                                      *)
(***************************************************************************)

\* The steps before the sender of a connection is started.
Early == {"none", "stop", "stopping", "save", "register"}

\* A sender that runs has a connection, one that writes has a message, and
\* there is none before the handler has registered its connection.
SendersOK ==
  \A k \in Conns :
    /\ sender[k].pc \in {"run", "write"} => sender[k].conn \in Conns
    /\ sender[k].pc = "write" <=> sender[k].msg # None
    /\ handler[k] \in Early => sender[k] = NoSender

\* The mutex is kept exactly by the handler that waits in stopGoroutine, and
\* what it waits for stays in the map.
MutexOK ==
  /\ \A k \in Conns : handler[k] \in {"stopping", "unsetting"} <=> mutex = k
  /\ mutex # None => manager # None

\* The handler of the connection in the map has still to disconnect it: it
\* cannot miss it, as it finds the map not empty.
ManagerOK ==
  manager # None => handler[manager] \in {"read", "answer", "check", "unset", "unsetting"}

\* The connection in the repository has somebody to remove it: the handler of
\* the one in the map, or one that is about to replace or to delete it.
ClientOK ==
  client # None => \/ manager # None
                   \/ \E j \in Conns : handler[j] \in {"save", "register", "delete"}

\* Only connections that have been saved are in the repository, or closed.
SavedOK ==
  \A k \in Conns : k = client \/ k \in closed
                     => handler[k] \notin {"none", "stop", "stopping", "save"}

\* As long as calls of HandleConnection have not overlapped, a connection is
\* saved and registered with nothing in the map, so that a sender finds its own
\* connection or none, and looks for it only while it is in the map.
Alone ==
  ~overlapped =>
    /\ \A j, k \in Conns : Connecting(j) /\ Connecting(k) => j = k
    /\ \A k \in Conns :
         /\ handler[k] \in {"save", "register"} => manager = None
         /\ handler[k] = "register" => client \in {k, None}
         /\ sender[k].pc = "wait" => manager = k
         /\ sender[k].conn \in {k, None}
    /\ manager # None => client \in {manager, None}

SocketsInv ==
  /\ TypeOK /\ SendersOK /\ MutexOK /\ ManagerOK /\ ClientOK
  /\ SavedOK /\ RepositoryChannelOpen /\ Alone

(***************************************************************************)
(* The actions in groups: what each leaves alone.                          *)
(***************************************************************************)

\* A step of the read loop that changes nothing but where its handler is.
Reads(k) == AnswerBegins(k) \/ AnswerEnds(k) \/ ReadFails(k)

LEMMA ReadsCases ==
  ASSUME NEW k \in Conns, Reads(k)
  PROVE  /\ handler[k] \in {"read", "answer"}
         /\ \E next \in {"read", "answer", "check"} : handler' = [handler EXCEPT ![k] = next]
         /\ UNCHANGED <<sock, client, manager, mutex, cancelled, closed, overlapped,
                        sender, chan, received, outcome>>
BY DEF Reads, AnswerBegins, AnswerEnds, ReadFails, Goto

\* A step of HandleConnection or HandleDisconnection that finds the mutex free
\* in stopGoroutine; one that returns from it; and the single-call steps.
LEMMA HandleCases ==
  ASSUME NEW k \in Conns, Handle(k)
  PROVE  \/ StopBegins(k, "stop", "stopping", "save")
         \/ StopBegins(k, "unset", "unsetting", "delete")
         \/ StopEnds(k, "stopping", "save")
         \/ StopEnds(k, "unsetting", "delete")
         \/ SaveConnection(k) \/ Register(k) \/ CheckManager(k) \/ DeleteConnection(k)
BY DEF Handle, StopPrevious, StopCurrent

(***************************************************************************)
(* Types.                                                                  *)
(***************************************************************************)

LEMMA SocketsTypeInit == Init => TypeOK /\ SendersOK
<1> SUFFICES ASSUME Init PROVE TypeOK /\ SendersOK
  OBVIOUS
<1>1. chan \in [Conns -> Seq(Messages)] /\ received \in [Conns -> Seq(Messages)]
  BY DEF Init
<1>2. \A k \in Conns : Len(chan[k]) <= Capacity
  BY SocketsAssumption DEF Init
<1>3. TypeOK
  BY <1>1, <1>2 DEF Init, TypeOK, NoSender, Steps
<1>4. SendersOK
  BY DEF Init, SendersOK, Early, NoSender
<1>5. QED
  BY <1>3, <1>4

\* A step of stopGoroutine.
LEMMA StopType ==
  ASSUME TypeOK, NEW k \in Conns, NEW from, NEW waiting \in Steps, NEW next \in Steps,
         StopBegins(k, from, waiting, next) \/ StopEnds(k, waiting, next)
  PROVE  TypeOK'
<1>1. CASE StopBegins(k, from, waiting, next)
  BY <1>1 DEF StopBegins, Goto, TypeOK
<1>2. CASE StopEnds(k, waiting, next)
  BY <1>2 DEF StopEnds, Goto, TypeOK
<1>3. QED
  BY <1>1, <1>2

\* The record of a sender has the fields that its steps change.
SenderRecord == [pc : {"none", "wait", "run", "write", "done"},
                 conn : Conns \union {None}, msg : Messages \union {None}]

LEMMA SenderEdits ==
  ASSUME sender \in [Conns -> SenderRecord], NEW k \in Conns,
         NEW pc \in {"none", "wait", "run", "write", "done"},
         NEW conn \in Conns \union {None}, NEW msg \in Messages \union {None}
  PROVE  /\ [sender EXCEPT ![k].pc = pc] \in [Conns -> SenderRecord]
         /\ [sender EXCEPT ![k].pc = pc, ![k].conn = conn] \in [Conns -> SenderRecord]
         /\ [sender EXCEPT ![k].pc = pc, ![k].msg = msg] \in [Conns -> SenderRecord]
<1>1. sender[k] \in SenderRecord
  OBVIOUS
<1>2. /\ [sender[k] EXCEPT !.pc = pc] \in SenderRecord
      /\ [sender[k] EXCEPT !.pc = pc, !.conn = conn] \in SenderRecord
      /\ [sender[k] EXCEPT !.pc = pc, !.msg = msg] \in SenderRecord
  BY <1>1 DEF SenderRecord
<1>3. ASSUME NEW new \in SenderRecord PROVE [sender EXCEPT ![k] = new] \in [Conns -> SenderRecord]
  OBVIOUS
<1>4. /\ [sender EXCEPT ![k].pc = pc] = [sender EXCEPT ![k] = [sender[k] EXCEPT !.pc = pc]]
      /\ [sender EXCEPT ![k].pc = pc, ![k].conn = conn]
           = [sender EXCEPT ![k] = [sender[k] EXCEPT !.pc = pc, !.conn = conn]]
      /\ [sender EXCEPT ![k].pc = pc, ![k].msg = msg]
           = [sender EXCEPT ![k] = [sender[k] EXCEPT !.pc = pc, !.msg = msg]]
  OBVIOUS
<1>5. QED
  BY <1>2, <1>3, <1>4

LEMMA SenderType ==
  ASSUME TypeOK, SendersOK, NEW k \in Conns, SenderStep(k)
  PROVE  TypeOK'
<1> USE DEF TypeOK
<1>1. CASE SenderFinds(k)
  <2>1. \/ sender' = [sender EXCEPT ![k].pc = "done"]
        \/ client \in Conns /\ sender' = [sender EXCEPT ![k].pc = "run", ![k].conn = client]
    BY <1>1 DEF SenderFinds, SenderStops
  <2>2. sender' \in [Conns -> [pc : {"none", "wait", "run", "write", "done"},
                               conn : Conns \union {None}, msg : Messages \union {None}]]
    <3>1. CASE sender' = [sender EXCEPT ![k].pc = "done"]
      BY <3>1, SenderEdits DEF SenderRecord
    <3>2. CASE client \in Conns /\ sender' = [sender EXCEPT ![k].pc = "run", ![k].conn = client]
      BY <3>2, SenderEdits DEF SenderRecord
    <3>3. QED
      BY <2>1, <3>1, <3>2
  <2>3. QED
    BY <1>1, <2>2 DEF SenderFinds, handlerVars
<1>2. CASE SenderEnds(k)
  <2>1. sender' = [sender EXCEPT ![k].pc = "done"] /\ UNCHANGED <<handlerVars, chan, received, outcome>>
    BY <1>2 DEF SenderEnds, SenderStops
  <2>2. QED
    BY <2>1 DEF handlerVars
<1>3. CASE SenderTakes(k)
  <2> DEFINE c == sender[k].conn
  <2>1. c \in Conns /\ chan[c] \in Seq(Messages) /\ chan[c] # <<>>
    BY <1>3 DEF SenderTakes, SendersOK
  <2>2. Head(chan[c]) \in Messages /\ Tail(chan[c]) \in Seq(Messages)
    BY <2>1
  <2>3. Len(Tail(chan[c])) <= Len(chan[c])
    BY <2>1
  <2>4. sender' \in [Conns -> [pc : {"none", "wait", "run", "write", "done"},
                               conn : Conns \union {None}, msg : Messages \union {None}]]
    <3>1. sender' = [sender EXCEPT ![k].pc = "write", ![k].msg = Head(chan[c])]
      BY <1>3 DEF SenderTakes
    <3>2. QED
      BY <2>2, <3>1, SenderEdits DEF SenderRecord
  <2>5. chan' \in [Conns -> Seq(Messages)]
    BY <1>3, <2>1, <2>2 DEF SenderTakes
  <2>6. \A j \in Conns : Len(chan'[j]) <= Capacity
    BY <1>3, <2>1, <2>3, <2>5, SocketsAssumption DEF SenderTakes
  <2>7. QED
    BY <1>3, <2>4, <2>5, <2>6 DEF SenderTakes, handlerVars
<1>4. CASE SenderWrites(k)
  <2>1. sender[k].conn \in Conns /\ sender[k].msg \in Messages
    BY <1>4 DEF SenderWrites, SendersOK
  <2>2. \A c \in Conns : Append(received[c], sender[k].msg) \in Seq(Messages)
    BY <2>1
  <2>3. received' \in [Conns -> Seq(Messages)]
    BY <1>4, <2>1, <2>2 DEF SenderWrites
  <2>4. sender' \in [Conns -> [pc : {"none", "wait", "run", "write", "done"},
                               conn : Conns \union {None}, msg : Messages \union {None}]]
    <3>1. PICK pc \in {"run", "done"} : sender' = [sender EXCEPT ![k].pc = pc, ![k].msg = None]
      BY <1>4 DEF SenderWrites
    <3>2. QED
      BY <3>1, SenderEdits DEF SenderRecord
  <2>5. QED
    BY <1>4, <2>3, <2>4 DEF SenderWrites, handlerVars
<1>5. QED
  BY <1>1, <1>2, <1>3, <1>4 DEF SenderStep

LEMMA SendType ==
  ASSUME TypeOK, NEW m \in Messages, SendMessage(m)
  PROVE  TypeOK'
<1> USE DEF TypeOK
<1>1. CASE client # None /\ Len(chan[client]) < Capacity
  <2>1. client \in Conns /\ chan[client] \in Seq(Messages)
    BY <1>1
  <2>2. /\ Append(chan[client], m) \in Seq(Messages)
        /\ Len(Append(chan[client], m)) = Len(chan[client]) + 1
    BY <2>1
  <2>3. chan' = [chan EXCEPT ![client] = Append(@, m)]
    BY <1>1 DEF SendMessage
  <2>4. chan' \in [Conns -> Seq(Messages)]
    BY <2>1, <2>2, <2>3
  <2>5. Len(chan[client]) + 1 <= Capacity
    BY <1>1, <2>1, SocketsAssumption
  <2>6. \A j \in Conns : Len(chan'[j]) <= Capacity
    BY <2>1, <2>2, <2>3, <2>5
  <2>7. QED
    BY <1>1, <2>4, <2>6 DEF SendMessage, handlerVars
<1>2. CASE ~(client # None /\ Len(chan[client]) < Capacity)
  BY <1>2 DEF SendMessage, handlerVars
<1>3. QED
  BY <1>1, <1>2

LEMMA SocketsTypeStep ==
  ASSUME TypeOK, SendersOK, [Next]_vars PROVE TypeOK'
<1> USE DEF TypeOK
<1>1. ASSUME NEW k \in Conns, Connect(k) PROVE TypeOK'
  BY <1>1 DEF Connect, Goto, Steps
<1>2. ASSUME NEW k \in Conns, Handle(k) PROVE TypeOK'
  <2>1. CASE StopBegins(k, "stop", "stopping", "save") \/ StopEnds(k, "stopping", "save")
    BY <2>1, StopType DEF Steps
  <2>2. CASE StopBegins(k, "unset", "unsetting", "delete") \/ StopEnds(k, "unsetting", "delete")
    BY <2>2, StopType DEF Steps
  <2>3. CASE SaveConnection(k)
    BY <2>3 DEF SaveConnection, CloseCurrent, Goto, Steps
  <2>4. CASE Register(k)
    BY <2>4 DEF Register, Goto, Steps
  <2>5. CASE CheckManager(k)
    BY <2>5 DEF CheckManager, Goto, Steps
  <2>6. CASE DeleteConnection(k)
    BY <2>6 DEF DeleteConnection, CloseCurrent, Goto, Steps
  <2>7. QED
    BY <1>2, <2>1, <2>2, <2>3, <2>4, <2>5, <2>6, HandleCases
<1>3. ASSUME NEW k \in Conns, Reads(k) PROVE TypeOK'
  <2>1. PICK next \in {"read", "answer", "check"} : handler' = [handler EXCEPT ![k] = next]
    BY <1>3, ReadsCases
  <2>2. handler' \in [Conns -> Steps]
    BY <2>1 DEF Steps
  <2>3. UNCHANGED <<sock, client, manager, mutex, cancelled, closed, overlapped,
                    sender, chan, received, outcome>>
    BY <1>3, ReadsCases
  <2>4. QED
    BY <2>2, <2>3
<1>4. ASSUME NEW k \in Conns, SenderStep(k) PROVE TypeOK'
  BY <1>4, SenderType
<1>5. ASSUME NEW k \in Conns, ClientLeaves(k) PROVE TypeOK'
  BY <1>5 DEF ClientLeaves
<1>6. ASSUME NEW m \in Messages, SendMessage(m) PROVE TypeOK'
  BY <1>6, SendType
<1>7. CASE UNCHANGED vars
  BY <1>7 DEF vars, handlerVars
<1>8. QED
  BY <1>1, <1>2, <1>3, <1>4, <1>5, <1>6, <1>7 DEF Next, Reads

(***************************************************************************)
(* Who runs where, and what is left for them to do.                        *)
(***************************************************************************)

\* Control is where the handlers are and what they share.
control == <<handler, client, manager, mutex, closed, overlapped>>

\* A step that leaves the control alone, or one of a handler.
LEMMA NextCases ==
  ASSUME [Next]_vars
  PROVE  \/ UNCHANGED control
         \/ \E k \in Conns : Connect(k) \/ Handle(k) \/ Reads(k)
<1>1. ASSUME NEW k \in Conns, SenderStep(k) PROVE UNCHANGED control
  BY <1>1 DEF control, SenderStep, SenderFinds, SenderEnds, SenderTakes, SenderWrites, handlerVars
<1>2. ASSUME NEW k \in Conns, ClientLeaves(k) PROVE UNCHANGED control
  BY <1>2 DEF control, ClientLeaves
<1>3. ASSUME NEW m \in Messages, SendMessage(m) PROVE UNCHANGED control
  BY <1>3 DEF control, SendMessage, handlerVars
<1>4. ASSUME UNCHANGED vars PROVE UNCHANGED control
  BY <1>4 DEF control, vars, handlerVars
<1>5. QED
  BY <1>1, <1>2, <1>3, <1>4 DEF Next, Reads

\* The parts of the invariant that are about the control.
ControlInv == MutexOK /\ ManagerOK /\ ClientOK /\ SavedOK /\ RepositoryChannelOpen

LEMMA ControlInit == Init => ControlInv
BY SocketsAssumption DEF Init, ControlInv, MutexOK, ManagerOK, ClientOK, SavedOK, RepositoryChannelOpen

LEMMA StopBeginsControl ==
  ASSUME TypeOK, ControlInv, NEW k \in Conns,
         \/ StopBegins(k, "stop", "stopping", "save")
         \/ StopBegins(k, "unset", "unsetting", "delete")
  PROVE  ControlInv'
<1> USE SocketsAssumption DEF ControlInv
<1>1. /\ mutex = None
      /\ UNCHANGED <<client, manager, closed>>
      /\ \/ manager = None /\ mutex' = None
            /\ \/ handler[k] = "stop" /\ handler' = [handler EXCEPT ![k] = "save"]
               \/ handler[k] = "unset" /\ handler' = [handler EXCEPT ![k] = "delete"]
         \/ manager # None /\ mutex' = k
            /\ \/ handler[k] = "stop" /\ handler' = [handler EXCEPT ![k] = "stopping"]
               \/ handler[k] = "unset" /\ handler' = [handler EXCEPT ![k] = "unsetting"]
  BY DEF StopBegins, Goto
<1>2. handler \in [Conns -> Steps] /\ client \in Conns \union {None} /\ manager \in Conns \union {None}
  BY DEF TypeOK
<1>3. MutexOK'
  BY <1>1, <1>2 DEF MutexOK
<1>4. ManagerOK'
  BY <1>1, <1>2 DEF ManagerOK
<1>5. ClientOK'
  BY <1>1, <1>2 DEF ClientOK
<1>6. SavedOK' /\ RepositoryChannelOpen'
  BY <1>1, <1>2 DEF SavedOK, RepositoryChannelOpen
<1>7. QED
  BY <1>3, <1>4, <1>5, <1>6

LEMMA StopEndsControl ==
  ASSUME TypeOK, ControlInv, NEW k \in Conns,
         StopEnds(k, "stopping", "save") \/ StopEnds(k, "unsetting", "delete")
  PROVE  ControlInv'
<1> USE SocketsAssumption DEF ControlInv
<1>1. /\ manager' = None /\ mutex' = None
      /\ UNCHANGED <<client, closed>>
      /\ \/ handler[k] = "stopping" /\ handler' = [handler EXCEPT ![k] = "save"]
         \/ handler[k] = "unsetting" /\ handler' = [handler EXCEPT ![k] = "delete"]
  BY DEF StopEnds, Goto
<1>2. handler \in [Conns -> Steps] /\ client \in Conns \union {None}
  BY DEF TypeOK
<1>3. mutex = k
  BY <1>1 DEF MutexOK
<1>4. MutexOK'
  BY <1>1, <1>2, <1>3 DEF MutexOK
<1>5. ManagerOK'
  BY <1>1 DEF ManagerOK
<1>6. ClientOK'
  BY <1>1, <1>2 DEF ClientOK
<1>7. SavedOK' /\ RepositoryChannelOpen'
  BY <1>1, <1>2 DEF SavedOK, RepositoryChannelOpen
<1>8. QED
  BY <1>4, <1>5, <1>6, <1>7

LEMMA ControlStep ==
  ASSUME TypeOK, ControlInv, [Next]_vars PROVE ControlInv'
<1> USE SocketsAssumption DEF ControlInv
<1>0. handler \in [Conns -> Steps] /\ client \in Conns \union {None} /\ manager \in Conns \union {None}
  BY DEF TypeOK
<1>1. CASE UNCHANGED control
  BY <1>1 DEF control, MutexOK, ManagerOK, ClientOK, SavedOK, RepositoryChannelOpen
<1>2. ASSUME NEW k \in Conns, Connect(k) PROVE ControlInv'
  <2>1. /\ handler[k] = "none" /\ handler' = [handler EXCEPT ![k] = "stop"]
        /\ UNCHANGED <<client, manager, mutex, closed>>
    BY <1>2 DEF Connect, Goto
  <2>2. QED
    BY <1>0, <2>1 DEF MutexOK, ManagerOK, ClientOK, SavedOK, RepositoryChannelOpen
<1>3. ASSUME NEW k \in Conns, SaveConnection(k) PROVE ControlInv'
  <2>1. /\ handler[k] = "save" /\ handler' = [handler EXCEPT ![k] = "register"]
        /\ client' = k /\ closed' = closed \union ({client} \ {None})
        /\ UNCHANGED <<manager, mutex>>
    BY <1>3 DEF SaveConnection, CloseCurrent, Goto
  <2>2. MutexOK' /\ ManagerOK' /\ ClientOK'
    BY <1>0, <2>1 DEF MutexOK, ManagerOK, ClientOK
  <2>3. SavedOK' /\ RepositoryChannelOpen'
    BY <1>0, <2>1 DEF SavedOK, RepositoryChannelOpen
  <2>4. QED
    BY <2>2, <2>3
<1>4. ASSUME NEW k \in Conns, Register(k) PROVE ControlInv'
  <2>1. /\ handler[k] = "register" /\ handler' = [handler EXCEPT ![k] = "read"]
        /\ manager' = k /\ mutex = None
        /\ UNCHANGED <<client, mutex, closed>>
    BY <1>4 DEF Register, Goto
  <2>2. MutexOK' /\ ManagerOK' /\ ClientOK'
    BY <1>0, <2>1 DEF MutexOK, ManagerOK, ClientOK
  <2>3. SavedOK' /\ RepositoryChannelOpen'
    BY <1>0, <2>1 DEF SavedOK, RepositoryChannelOpen
  <2>4. QED
    BY <2>2, <2>3
<1>5. ASSUME NEW k \in Conns, CheckManager(k) PROVE ControlInv'
  <2>1. /\ handler[k] = "check"
        /\ handler' = [handler EXCEPT ![k] = IF manager = None THEN "done" ELSE "unset"]
        /\ UNCHANGED <<client, manager, mutex, closed>>
    BY <1>5 DEF CheckManager, Goto
  <2>2. MutexOK' /\ ManagerOK' /\ ClientOK'
    BY <1>0, <2>1 DEF MutexOK, ManagerOK, ClientOK
  <2>3. SavedOK' /\ RepositoryChannelOpen'
    BY <1>0, <2>1 DEF SavedOK, RepositoryChannelOpen
  <2>4. QED
    BY <2>2, <2>3
<1>6. ASSUME NEW k \in Conns, DeleteConnection(k) PROVE ControlInv'
  <2>1. /\ handler[k] = "delete" /\ handler' = [handler EXCEPT ![k] = "done"]
        /\ client' = None /\ closed' = closed \union ({client} \ {None})
        /\ UNCHANGED <<manager, mutex>>
    BY <1>6 DEF DeleteConnection, CloseCurrent, Goto
  <2>2. MutexOK' /\ ManagerOK' /\ ClientOK'
    BY <1>0, <2>1 DEF MutexOK, ManagerOK, ClientOK
  <2>3. SavedOK' /\ RepositoryChannelOpen'
    BY <1>0, <2>1 DEF SavedOK, RepositoryChannelOpen
  <2>4. QED
    BY <2>2, <2>3
<1>7. ASSUME NEW k \in Conns, Reads(k) PROVE ControlInv'
  <2>1. PICK next \in {"read", "answer", "check"} : handler' = [handler EXCEPT ![k] = next]
    BY <1>7, ReadsCases
  <2>2. handler[k] \in {"read", "answer"} /\ UNCHANGED <<client, manager, mutex, closed>>
    BY <1>7, ReadsCases
  <2>3. QED
    BY <1>0, <2>1, <2>2 DEF MutexOK, ManagerOK, ClientOK, SavedOK, RepositoryChannelOpen
<1>8. ASSUME NEW k \in Conns, Handle(k) PROVE ControlInv'
  BY <1>8, <1>3, <1>4, <1>5, <1>6, HandleCases, StopBeginsControl, StopEndsControl
<1>9. QED
  BY <1>1, <1>2, <1>7, <1>8, NextCases

(***************************************************************************)
(* The senders.                                                            *)
(***************************************************************************)

\* A sender's own steps, as it sees them: it ends, finds a connection, takes a
\* message, or writes one.
SenderMoves(k) ==
  \/ sender' = [sender EXCEPT ![k].pc = "done"] /\ sender[k].pc \in {"wait", "run"}
  \/ /\ sender[k].pc = "wait" /\ client \in Conns
     /\ sender' = [sender EXCEPT ![k].pc = "run", ![k].conn = client]
  \/ \E m \in Messages : /\ sender[k].pc = "run"
                         /\ sender' = [sender EXCEPT ![k].pc = "write", ![k].msg = m]
  \/ \E pc \in {"run", "done"} : /\ sender[k].pc = "write"
                                 /\ sender' = [sender EXCEPT ![k].pc = pc, ![k].msg = None]

LEMMA SenderStepMoves ==
  ASSUME TypeOK, SendersOK, NEW k \in Conns, SenderStep(k)
  PROVE  SenderMoves(k) /\ UNCHANGED control
<1>1. UNCHANGED control
  BY DEF control, SenderStep, SenderFinds, SenderEnds, SenderTakes, SenderWrites, handlerVars
<1>2. ASSUME SenderFinds(k) PROVE SenderMoves(k)
  BY <1>2 DEF SenderFinds, SenderStops, SenderMoves, TypeOK
<1>3. ASSUME SenderEnds(k) PROVE SenderMoves(k)
  BY <1>3 DEF SenderEnds, SenderStops, SenderMoves
<1>4. ASSUME SenderTakes(k) PROVE SenderMoves(k)
  <2>1. sender[k].conn \in Conns
    BY <1>4 DEF SenderTakes, SendersOK
  <2>2. Head(chan[sender[k].conn]) \in Messages
    BY <1>4, <2>1 DEF SenderTakes, TypeOK
  <2>3. QED
    BY <1>4, <2>2 DEF SenderTakes, SenderMoves
<1>5. ASSUME SenderWrites(k) PROVE SenderMoves(k)
  BY <1>5 DEF SenderWrites, SenderMoves
<1>6. QED
  BY <1>1, <1>2, <1>3, <1>4, <1>5 DEF SenderStep

\* What SenderMoves does to the fields.
LEMMA MovesFields ==
  ASSUME sender \in [Conns -> SenderRecord], NEW k \in Conns, SenderMoves(k)
  PROVE  /\ \A j \in Conns : j # k => sender'[j] = sender[j]
         /\ \/ /\ sender[k].pc \in {"wait", "run"} /\ sender'[k].pc = "done"
               /\ sender'[k].conn = sender[k].conn /\ sender'[k].msg = sender[k].msg
            \/ /\ sender[k].pc = "wait" /\ sender'[k].pc = "run"
               /\ client \in Conns /\ sender'[k].conn = client /\ sender'[k].msg = sender[k].msg
            \/ /\ sender[k].pc = "run" /\ sender'[k].pc = "write"
               /\ sender'[k].conn = sender[k].conn /\ sender'[k].msg \in Messages
            \/ /\ sender[k].pc = "write" /\ sender'[k].pc \in {"run", "done"}
               /\ sender'[k].conn = sender[k].conn /\ sender'[k].msg = None
<1>1. CASE sender' = [sender EXCEPT ![k].pc = "done"] /\ sender[k].pc \in {"wait", "run"}
  BY <1>1 DEF SenderRecord
<1>2. CASE /\ sender[k].pc = "wait" /\ client \in Conns
           /\ sender' = [sender EXCEPT ![k].pc = "run", ![k].conn = client]
  BY <1>2 DEF SenderRecord
<1>3. ASSUME NEW m \in Messages, sender[k].pc = "run",
             sender' = [sender EXCEPT ![k].pc = "write", ![k].msg = m]
      PROVE  /\ \A j \in Conns : j # k => sender'[j] = sender[j]
             /\ sender'[k].pc = "write" /\ sender'[k].conn = sender[k].conn /\ sender'[k].msg = m
  BY <1>3 DEF SenderRecord
<1>4. ASSUME NEW pc \in {"run", "done"}, sender[k].pc = "write",
             sender' = [sender EXCEPT ![k].pc = pc, ![k].msg = None]
      PROVE  /\ \A j \in Conns : j # k => sender'[j] = sender[j]
             /\ sender'[k].pc = pc /\ sender'[k].conn = sender[k].conn /\ sender'[k].msg = None
  BY <1>4 DEF SenderRecord
<1>5. QED
  BY <1>1, <1>2, <1>3, <1>4 DEF SenderMoves

LEMMA SendersStep ==
  ASSUME TypeOK, SendersOK, [Next]_vars PROVE SendersOK'
<1> USE SocketsAssumption DEF SendersOK, Early
<1>0. sender \in [Conns -> SenderRecord] /\ handler \in [Conns -> Steps]
  BY DEF TypeOK, SenderRecord
<1>1. ASSUME NEW k \in Conns, SenderStep(k) PROVE SendersOK'
  <2>1. handler' = handler
    BY <1>1, SenderStepMoves DEF control
  <2>2. SenderMoves(k)
    BY <1>1, SenderStepMoves
  <2>3. handler[k] \notin Early
    BY <2>2 DEF SenderMoves, NoSender
  <2>4. QED
    BY <1>0, <2>1, <2>2, <2>3, MovesFields
<1>2. ASSUME NEW k \in Conns, Register(k) PROVE SendersOK'
  <2>1. /\ handler[k] = "register" /\ handler' = [handler EXCEPT ![k] = "read"]
        /\ sender' = [sender EXCEPT ![k].pc = "wait"]
    BY <1>2 DEF Register, Goto
  <2>2. sender[k].msg = None /\ sender[k].pc = "none"
    BY <2>1 DEF NoSender
  <2>3. /\ \A j \in Conns : j # k => sender'[j] = sender[j]
        /\ sender'[k].pc = "wait" /\ sender'[k].msg = None
    BY <1>0, <2>1, <2>2 DEF SenderRecord
  <2>4. QED
    BY <1>0, <2>1, <2>3
<1>3. ASSUME sender' = sender,
             \A k \in Conns : handler'[k] \in Early => handler[k] \in Early
      PROVE  SendersOK'
  BY <1>3
<1>4. ASSUME NEW k \in Conns, Connect(k) \/ Reads(k) PROVE SendersOK'
  BY <1>0, <1>3, <1>4, ReadsCases DEF Connect, Goto
<1>5. ASSUME NEW k \in Conns, Handle(k), ~Register(k) PROVE SendersOK'
  <2>1. sender' = sender
    BY <1>5, HandleCases DEF StopBegins, StopEnds, SaveConnection, CheckManager, DeleteConnection
  <2>2. PICK next : handler' = [handler EXCEPT ![k] = next]
    BY <1>5, HandleCases DEF StopBegins, StopEnds, SaveConnection, CheckManager, DeleteConnection, Goto
  <2>3. next \in Early => handler[k] \in Early
    BY <1>0, <1>5, <2>2, HandleCases
    DEF StopBegins, StopEnds, SaveConnection, CheckManager, DeleteConnection, Goto
  <2>4. QED
    BY <1>0, <1>3, <2>1, <2>2, <2>3
<1>6. ASSUME NEW k \in Conns, ClientLeaves(k) PROVE SendersOK'
  BY <1>3, <1>6 DEF ClientLeaves
<1>7. ASSUME NEW m \in Messages, SendMessage(m) PROVE SendersOK'
  BY <1>3, <1>7 DEF SendMessage, handlerVars
<1>8. ASSUME UNCHANGED vars PROVE SendersOK'
  BY <1>3, <1>8 DEF vars, handlerVars
<1>9. QED
  BY <1>1, <1>2, <1>4, <1>5, <1>6, <1>7, <1>8 DEF Next, Reads

(***************************************************************************)
(* Without overlapping calls every sender serves its own connection.       *)
(***************************************************************************)

LEMMA AloneInit == Init => Alone
BY SocketsAssumption DEF Init, Alone, Connecting, NoSender

\* The steps of stopGoroutine.
LEMMA StopAlone ==
  ASSUME TypeOK, SendersOK, ControlInv, Alone, NEW k \in Conns,
         \/ StopBegins(k, "stop", "stopping", "save")
         \/ StopBegins(k, "unset", "unsetting", "delete")
         \/ StopEnds(k, "stopping", "save")
         \/ StopEnds(k, "unsetting", "delete")
  PROVE  Alone'
<1> SUFFICES ASSUME ~overlapped' PROVE Alone'
  BY DEF Alone
<1>0. handler \in [Conns -> Steps]
  BY DEF TypeOK
<1>1. ~overlapped /\ UNCHANGED <<client, sender>>
  BY DEF StopBegins, StopEnds
<1>2. CASE StopBegins(k, "stop", "stopping", "save") \/ StopBegins(k, "unset", "unsetting", "delete")
  <2>1. /\ manager' = manager
        /\ \/ manager = None /\ handler[k] = "stop" /\ handler' = [handler EXCEPT ![k] = "save"]
           \/ manager # None /\ handler[k] = "stop" /\ handler' = [handler EXCEPT ![k] = "stopping"]
           \/ handler[k] = "unset" /\ \E next \in {"unsetting", "delete"} : handler' = [handler EXCEPT ![k] = next]
    BY <1>2 DEF StopBegins, Goto
  <2>2. QED
    BY <1>0, <1>1, <2>1 DEF Alone, Connecting
<1>3. CASE StopEnds(k, "stopping", "save") \/ StopEnds(k, "unsetting", "delete")
  <2>1. /\ manager' = None /\ sender[manager].pc \in {"done", "write"}
        /\ \/ handler[k] = "stopping" /\ handler' = [handler EXCEPT ![k] = "save"]
           \/ handler[k] = "unsetting" /\ handler' = [handler EXCEPT ![k] = "delete"]
    BY <1>3 DEF StopEnds, Goto
  <2>2. \A j \in Conns : sender[j].pc # "wait"
    BY <1>1, <2>1 DEF Alone
  <2>3. \A j \in Conns : handler'[j] = "register" => handler[j] = "register"
    BY <1>0, <2>1
  <2>4. \A j \in Conns : Connecting(j)' => Connecting(j)
    BY <1>0, <2>1 DEF Connecting
  <2>5. QED
    BY <1>1, <2>1, <2>2, <2>3, <2>4 DEF Alone
<1>4. QED
  BY <1>2, <1>3

LEMMA AloneStep ==
  ASSUME TypeOK, SendersOK, ControlInv, Alone, [Next]_vars PROVE Alone'
<1> SUFFICES ASSUME ~overlapped' PROVE Alone'
  BY DEF Alone
<1> USE SocketsAssumption
<1>0. handler \in [Conns -> Steps] /\ sender \in [Conns -> SenderRecord]
  BY DEF TypeOK, SenderRecord
<1>1. ASSUME NEW k \in Conns, Connect(k) PROVE Alone'
  <2>1. /\ ~overlapped /\ \A j \in Conns : ~Connecting(j)
        /\ handler[k] = "none" /\ handler' = [handler EXCEPT ![k] = "stop"]
        /\ UNCHANGED <<client, manager, sender>>
    BY <1>1 DEF Connect, Goto
  <2>2. QED
    BY <1>0, <2>1 DEF Alone, Connecting
<1>2. ASSUME NEW k \in Conns, SaveConnection(k) PROVE Alone'
  <2>1. /\ ~overlapped /\ handler[k] = "save" /\ handler' = [handler EXCEPT ![k] = "register"]
        /\ client' = k /\ UNCHANGED <<manager, sender>>
    BY <1>2 DEF SaveConnection, Goto
  <2>2. manager = None
    BY <2>1 DEF Alone
  <2>3. \A j \in Conns : handler'[j] = "register" => j = k
    BY <1>0, <2>1 DEF Alone, Connecting
  <2>4. \A j \in Conns : Connecting(j)' <=> Connecting(j)
    BY <1>0, <2>1 DEF Connecting
  <2>5. QED
    BY <2>1, <2>2, <2>3, <2>4 DEF Alone
<1>3. ASSUME NEW k \in Conns, Register(k) PROVE Alone'
  <2>1. /\ ~overlapped /\ handler[k] = "register" /\ handler' = [handler EXCEPT ![k] = "read"]
        /\ manager' = k /\ sender' = [sender EXCEPT ![k].pc = "wait"]
        /\ client' = client
    BY <1>3 DEF Register, Goto
  <2>2. manager = None /\ client \in {k, None}
    BY <2>1 DEF Alone
  <2>3. \A j \in Conns : ~Connecting(j)'
    BY <1>0, <2>1 DEF Alone, Connecting
  <2>4. /\ \A j \in Conns : j # k => sender'[j] = sender[j]
        /\ sender'[k].conn = sender[k].conn
    BY <1>0, <2>1 DEF SenderRecord
  <2>5. \A j \in Conns : sender'[j].pc = "wait" => j = k
    BY <2>1, <2>2, <2>4 DEF Alone
  <2>6. \A j \in Conns : sender'[j].conn \in {j, None}
    BY <2>1, <2>4 DEF Alone
  <2>7. QED
    BY <2>1, <2>2, <2>3, <2>5, <2>6 DEF Alone, Connecting
<1>4. ASSUME NEW k \in Conns, CheckManager(k) \/ Reads(k) PROVE Alone'
  <2>1. /\ ~overlapped /\ handler[k] \in {"read", "answer", "check"}
        /\ \E next \in {"read", "answer", "check", "unset", "done"} :
             handler' = [handler EXCEPT ![k] = next]
        /\ UNCHANGED <<client, manager, sender>>
    BY <1>4, ReadsCases DEF CheckManager, Goto
  <2>2. QED
    BY <1>0, <2>1 DEF Alone, Connecting
<1>5. ASSUME NEW k \in Conns, DeleteConnection(k) PROVE Alone'
  <2>1. /\ ~overlapped /\ handler[k] = "delete" /\ handler' = [handler EXCEPT ![k] = "done"]
        /\ client' = None /\ UNCHANGED <<manager, sender>>
    BY <1>5 DEF DeleteConnection, Goto
  <2>2. QED
    BY <1>0, <2>1 DEF Alone, Connecting
<1>6. ASSUME NEW k \in Conns, SenderStep(k) PROVE Alone'
  <2>1. UNCHANGED <<handler, client, manager, overlapped>> /\ SenderMoves(k)
    BY <1>6, SenderStepMoves DEF control
  <2>2. \A j \in Conns : sender'[j].pc = "wait" => sender[j].pc = "wait"
    BY <1>0, <2>1, MovesFields
  <2>3. \A j \in Conns : sender'[j].conn \in {j, None}
    BY <1>0, <2>1, MovesFields DEF Alone
  <2>4. QED
    BY <2>1, <2>2, <2>3 DEF Alone, Connecting
<1>7. ASSUME UNCHANGED <<control, sender>> PROVE Alone'
  BY <1>7 DEF control, Alone, Connecting
<1>8. ASSUME NEW k \in Conns, ClientLeaves(k) PROVE Alone'
  BY <1>7, <1>8 DEF ClientLeaves, control
<1>9. ASSUME NEW m \in Messages, SendMessage(m) PROVE Alone'
  BY <1>7, <1>9 DEF SendMessage, handlerVars, control
<1>10. ASSUME UNCHANGED vars PROVE Alone'
  BY <1>7, <1>10 DEF vars, handlerVars, control
<1>11. ASSUME NEW k \in Conns, Handle(k) PROVE Alone'
  BY <1>2, <1>3, <1>4, <1>5, <1>11, HandleCases, StopAlone
<1>12. QED
  BY <1>1, <1>4, <1>6, <1>8, <1>9, <1>10, <1>11 DEF Next, Reads

(***************************************************************************)
(* A message is in one place.                                              *)
(***************************************************************************)

Kinds == {"chan", "received", "sender"}
Index == Nat \ {0}

\* Message m is in this place.
Holds(m, k, kind, i) ==
  \/ kind = "chan" /\ i \in 1..Len(chan[k]) /\ chan[k][i] = m
  \/ kind = "received" /\ i \in 1..Len(received[k]) /\ received[k][i] = m
  \/ kind = "sender" /\ i = 1 /\ sender[k].msg = m

\* What is in two places is in one, and was queued.
OnePlace ==
  \A m \in Messages, k, l \in Conns, v, w \in Kinds, i, j \in Index :
    Holds(m, k, v, i) =>
      /\ outcome[m] = "queued"
      /\ Holds(m, l, w, j) => k = l /\ v = w /\ i = j

LEMMA OnePlaceInit == Init => OnePlace
BY SocketsAssumption DEF Init, OnePlace, Holds, NoSender

\* Nothing moves.
LEMMA PlacesStay ==
  ASSUME OnePlace, UNCHANGED <<chan, received, outcome>>,
         \A k \in Conns : sender'[k].msg = sender[k].msg
  PROVE  OnePlace'
BY DEF OnePlace, Holds

\* A message goes from the buffer of connection c into the hand of sender k:
\* the others in the buffer move up.
LEMMA TakingMoves ==
  ASSUME TypeOK, SendersOK, OnePlace, NEW k \in Conns, SenderTakes(k)
  PROVE  OnePlace'
<1> DEFINE c == sender[k].conn
<1>1. c \in Conns /\ chan[c] \in Seq(Messages) /\ chan[c] # <<>>
  BY DEF SenderTakes, SendersOK, TypeOK
<1>2. /\ sender[k].pc = "run"
      /\ sender' = [sender EXCEPT ![k].pc = "write", ![k].msg = Head(chan[c])]
      /\ chan' = [chan EXCEPT ![c] = Tail(chan[c])]
      /\ UNCHANGED <<received, outcome>>
  BY DEF SenderTakes
<1>3. /\ \A l \in Conns : l # c => chan'[l] = chan[l]
      /\ Len(chan[c]) \in Nat \ {0} /\ Len(chan'[c]) = Len(chan[c]) - 1
      /\ \A i \in 1..Len(chan'[c]) : chan'[c][i] = chan[c][i + 1]
      /\ Head(chan[c]) = chan[c][1]
  BY <1>1, <1>2 DEF TypeOK
<1>4. /\ \A l \in Conns : l # k => sender'[l] = sender[l]
      /\ sender'[k].msg = chan[c][1]
  BY <1>2, <1>3 DEF TypeOK
<1> DEFINE OldConn(l, w) == IF w = "sender" /\ l = k THEN c ELSE l
           OldKind(l, w) == IF w = "sender" /\ l = k THEN "chan" ELSE w
           OldIndex(l, w, j) == IF w = "chan" /\ l = c THEN j + 1 ELSE j
<1>5. ASSUME NEW m \in Messages, NEW l \in Conns, NEW w \in Kinds, NEW j \in Index,
             Holds(m, l, w, j)'
      PROVE  Holds(m, OldConn(l, w), OldKind(l, w), OldIndex(l, w, j))
  <2>1. CASE w = "chan"
    BY <1>2, <1>3, <1>5, <2>1 DEF Holds, Index
  <2>2. CASE w = "received"
    BY <1>2, <1>5, <2>2 DEF Holds
  <2>3. CASE w = "sender" /\ l = k
    <3>1. j = 1 /\ m = chan[c][1]
      BY <1>4, <1>5, <2>3 DEF Holds
    <3>2. Holds(m, c, "chan", 1)
      BY <1>3, <3>1 DEF Holds
    <3>3. QED
      BY <2>3, <3>1, <3>2
  <2>4. CASE w = "sender" /\ l # k
    BY <1>4, <1>5, <2>4 DEF Holds
  <2>5. QED
    BY <2>1, <2>2, <2>3, <2>4 DEF Kinds
<1>6. ASSUME NEW l \in Conns, NEW w \in Kinds, NEW j \in Index
      PROVE  OldConn(l, w) \in Conns /\ OldKind(l, w) \in Kinds /\ OldIndex(l, w, j) \in Index
  BY <1>1 DEF Kinds, Index
<1>7. SUFFICES ASSUME NEW m \in Messages, NEW l \in Conns, NEW w \in Kinds, NEW i \in Index,
                      NEW n \in Conns, NEW v \in Kinds, NEW j \in Index, Holds(m, l, w, i)'
               PROVE  /\ outcome[m] = "queued"
                      /\ Holds(m, n, v, j)' => l = n /\ w = v /\ i = j
  BY <1>2 DEF OnePlace
<1>8. outcome[m] = "queued"
  BY <1>5, <1>6, <1>7 DEF OnePlace
<1>9. ASSUME Holds(m, n, v, j)' PROVE l = n /\ w = v /\ i = j
  <2>1. /\ OldConn(l, w) = OldConn(n, v) /\ OldKind(l, w) = OldKind(n, v)
        /\ OldIndex(l, w, i) = OldIndex(n, v, j)
    BY <1>5, <1>6, <1>7, <1>9 DEF OnePlace
  <2>2. (w = "sender" => i = 1) /\ (v = "sender" => j = 1)
    BY <1>7, <1>9 DEF Holds
  <2>3. QED
    BY <2>1, <2>2 DEF Index, Kinds
<1>10. QED
  BY <1>8, <1>9

\* A message goes from the hand of sender k to the end of what the client has
\* received, or it is lost.
LEMMA WritingMoves ==
  ASSUME TypeOK, SendersOK, OnePlace, NEW k \in Conns, SenderWrites(k)
  PROVE  OnePlace'
<1> DEFINE c == sender[k].conn
           old == sender[k].msg
           end == Len(received[c]) + 1
<1>1. c \in Conns /\ old \in Messages /\ received[c] \in Seq(Messages)
  BY DEF SenderWrites, SendersOK, TypeOK
<1>2. end \in Index
  BY <1>1 DEF Index
<1>3. /\ UNCHANGED <<chan, outcome>>
      /\ \A l \in Conns : l # k => sender'[l] = sender[l]
      /\ sender'[k].msg = None
  BY DEF SenderWrites, TypeOK
<1>4. \/ received' = received
      \/ received' = [received EXCEPT ![c] = Append(received[c], old)]
  BY DEF SenderWrites
<1>5. ASSUME NEW m \in Messages, NEW l \in Conns, NEW w \in Kinds, NEW j \in Index,
             Holds(m, l, w, j)'
      PROVE  \/ Holds(m, l, w, j) /\ ~(w = "sender" /\ l = k) /\ ~(l = c /\ w = "received" /\ j = end)
             \/ m = old /\ l = c /\ w = "received" /\ j = end
  <2>1. CASE w = "chan"
    BY <1>3, <1>5, <2>1 DEF Holds
  <2>2. CASE w = "sender"
    BY <1>3, <1>5, <2>2, SocketsAssumption DEF Holds
  <2>3. CASE w = "received" /\ received' = received
    BY <1>1, <1>5, <2>3 DEF Holds, Index
  <2>4. CASE w = "received" /\ received' = [received EXCEPT ![c] = Append(received[c], old)]
    <3>1. /\ \A n \in Conns : n # c => received'[n] = received[n]
          /\ received'[c] = Append(received[c], old)
      BY <1>1, <2>4 DEF TypeOK
    <3>2. /\ Len(received'[c]) = end /\ received'[c][end] = old
          /\ \A n \in 1..Len(received[c]) : received'[c][n] = received[c][n]
      BY <1>1, <3>1
    <3>3. QED
      BY <1>1, <1>5, <2>4, <3>1, <3>2 DEF Holds, Index
  <2>5. QED
    BY <1>4, <2>1, <2>2, <2>3, <2>4 DEF Kinds
<1>6. Holds(old, k, "sender", 1) /\ 1 \in Index /\ "sender" \in Kinds
  BY DEF Holds, Index, Kinds
<1>7. SUFFICES ASSUME NEW m \in Messages, NEW l \in Conns, NEW w \in Kinds, NEW i \in Index,
                      NEW n \in Conns, NEW v \in Kinds, NEW j \in Index, Holds(m, l, w, i)'
               PROVE  /\ outcome[m] = "queued"
                      /\ Holds(m, n, v, j)' => l = n /\ w = v /\ i = j
  BY <1>3 DEF OnePlace
<1>8. outcome[m] = "queued"
  BY <1>1, <1>5, <1>6, <1>7 DEF OnePlace
<1>9. ASSUME Holds(m, n, v, j)' PROVE l = n /\ w = v /\ i = j
  <2>1. \A u \in Conns, x \in Kinds, y \in Index : Holds(old, u, x, y) => u = k /\ x = "sender"
    BY <1>1, <1>6 DEF OnePlace
  <2>2. QED
    BY <1>5, <1>7, <1>9, <2>1 DEF OnePlace
<1>10. QED
  BY <1>8, <1>9

\* A message that was nowhere enters the buffer at its end.
LEMMA SendingMoves ==
  ASSUME TypeOK, OnePlace, NEW m \in Messages, SendMessage(m)
  PROVE  OnePlace'
<1>1. /\ outcome[m] = "unsent" /\ UNCHANGED <<sender, received>>
      /\ \A n \in Messages : n # m => outcome'[n] = outcome[n]
  BY DEF SendMessage, TypeOK
<1>2. \A l \in Conns, w \in Kinds, j \in Index : ~Holds(m, l, w, j)
  BY <1>1 DEF OnePlace
<1>3. CASE chan' = chan
  BY <1>1, <1>2, <1>3 DEF OnePlace, Holds
<1>4. CASE chan' # chan
  <2> DEFINE end == Len(chan[client]) + 1
  <2>1. /\ client \in Conns /\ outcome'[m] = "queued"
        /\ chan' = [chan EXCEPT ![client] = Append(chan[client], m)]
    BY <1>4 DEF SendMessage, TypeOK
  <2>2. /\ \A l \in Conns : l # client => chan'[l] = chan[l]
        /\ chan'[client] = Append(chan[client], m) /\ chan[client] \in Seq(Messages)
    BY <2>1 DEF TypeOK
  <2>3. /\ Len(chan'[client]) = end /\ chan'[client][end] = m
        /\ \A i \in 1..Len(chan[client]) : chan'[client][i] = chan[client][i]
    BY <2>2
  <2>4. ASSUME NEW n \in Messages, NEW l \in Conns, NEW w \in Kinds, NEW j \in Index,
               Holds(n, l, w, j)'
        PROVE  \/ n # m /\ Holds(n, l, w, j)
               \/ n = m /\ l = client /\ w = "chan" /\ j = end
    <3>1. CASE w # "chan"
      BY <1>1, <1>2, <2>4, <3>1 DEF Holds
    <3>2. CASE w = "chan" /\ l # client
      BY <1>2, <2>2, <2>4, <3>2 DEF Holds
    <3>3. CASE w = "chan" /\ l = client
      BY <1>2, <2>1, <2>2, <2>3, <2>4, <3>3 DEF Holds, Index, Kinds
    <3>4. QED
      BY <3>1, <3>2, <3>3
  <2>5. QED
    BY <1>1, <2>1, <2>4 DEF OnePlace
<1>5. QED
  BY <1>3, <1>4

LEMMA OnePlaceStep ==
  ASSUME TypeOK, SendersOK, OnePlace, [Next]_vars PROVE OnePlace'
<1>0. sender \in [Conns -> SenderRecord]
  BY DEF TypeOK, SenderRecord
<1>1. ASSUME NEW k \in Conns, SenderFinds(k) \/ SenderEnds(k) PROVE OnePlace'
  <2>1. \/ sender' = [sender EXCEPT ![k].pc = "done"]
        \/ sender' = [sender EXCEPT ![k].pc = "run", ![k].conn = client]
    BY <1>1 DEF SenderFinds, SenderEnds, SenderStops
  <2>2. \A l \in Conns : sender'[l].msg = sender[l].msg
    BY <1>0, <2>1 DEF SenderRecord
  <2>3. QED
    BY <1>1, <2>2, PlacesStay DEF SenderFinds, SenderEnds
<1>2. ASSUME NEW k \in Conns, Register(k) PROVE OnePlace'
  <2>1. sender' = [sender EXCEPT ![k].pc = "wait"]
    BY <1>2 DEF Register
  <2>2. \A l \in Conns : sender'[l].msg = sender[l].msg
    BY <1>0, <2>1 DEF SenderRecord
  <2>3. QED
    BY <1>2, <2>2, PlacesStay DEF Register
<1>3. ASSUME NEW k \in Conns, Connect(k) \/ Reads(k) \/ ClientLeaves(k) PROVE OnePlace'
  BY <1>3, PlacesStay, ReadsCases DEF Connect, ClientLeaves
<1>4. ASSUME NEW k \in Conns, Handle(k), ~Register(k) PROVE OnePlace'
  <2>1. UNCHANGED <<sender, chan, received, outcome>>
    BY <1>4, HandleCases DEF StopBegins, StopEnds, SaveConnection, CheckManager, DeleteConnection
  <2>2. QED
    BY <2>1, PlacesStay
<1>5. ASSUME NEW k \in Conns, SenderStep(k) PROVE OnePlace'
  BY <1>1, <1>5, TakingMoves, WritingMoves DEF SenderStep
<1>6. ASSUME NEW m \in Messages, SendMessage(m) PROVE OnePlace'
  BY <1>6, SendingMoves
<1>7. ASSUME UNCHANGED vars PROVE OnePlace'
  BY <1>7, PlacesStay DEF vars
<1>8. QED
  BY <1>2, <1>3, <1>4, <1>5, <1>6, <1>7 DEF Next, Reads

(***************************************************************************)
(* The theorems.                                                           *)
(***************************************************************************)

LEMMA SocketsInvariant == Spec => []SocketsInv
<1>1. Init => SocketsInv
  BY SocketsTypeInit, ControlInit, AloneInit DEF SocketsInv, ControlInv
<1>2. SocketsInv /\ [Next]_vars => SocketsInv'
  BY SocketsTypeStep, SendersStep, ControlStep, AloneStep DEF SocketsInv, ControlInv
<1>3. QED
  BY <1>1, <1>2, PTL DEF Spec

\* The variables of the gateway are well typed: a sender that runs has a
\* connection to write to, and no buffer ever holds more than its capacity.
THEOREM SocketsTypeCorrect == Spec => []TypeOK
BY SocketsInvariant, PTL DEF SocketsInv

\* SendMessage cannot send on a closed channel, nor can a second close of one
\* happen: neither can end the gateway, whatever the handlers interleave.
THEOREM ChannelStaysOpen == Spec => []RepositoryChannelOpen
BY SocketsInvariant, PTL DEF SocketsInv

\* However many connections come and go, in whatever order the calls of their
\* handlers interleave, once every handler is through the repository has no
\* connection of the user and the map of goroutines no manager.  Nothing is
\* said of a sender: one that is blocked in a write outlives its handler.
THEOREM NothingLeftBehind == Spec => []QuietMeansClean
<1>1. SocketsInv => QuietMeansClean
  <2> SUFFICES ASSUME SocketsInv, \A k \in Conns : handler[k] \in {"none", "done"}
               PROVE  client = None /\ manager = None
    BY DEF QuietMeansClean
  <2>1. manager = None
    BY DEF SocketsInv, TypeOK, ManagerOK
  <2>2. client = None
    BY <2>1 DEF SocketsInv, ClientOK
  <2>3. QED
    BY <2>1, <2>2
<1>2. QED
  BY <1>1, SocketsInvariant, PTL

\* A second writer to a connection is its own read loop, answering with an
\* error, or comes of two calls of HandleConnection that overlapped: without an
\* overlap stopGoroutine and the look-up by user keep a replaced sender off the
\* connections of its successors.
THEOREM SecondWriter == Spec => []SecondWriterHasCause
<1>1. ASSUME SocketsInv PROVE SecondWriterHasCause
  <2> SUFFICES ASSUME ~overlapped, NEW c \in Conns, NEW v \in Writers(c), NEW w \in Writers(c), v # w
               PROVE  <<"reader", c>> \in {v, w}
    BY DEF SecondWriterHasCause
  <2>1. \A k \in Conns : sender[k].conn = c => k = c
    BY <1>1, SocketsAssumption DEF SocketsInv, Alone
  <2>2. \A x \in Writers(c) : x = <<"sender", c>> \/ x = <<"reader", c>>
    BY <2>1 DEF Writers
  <2>3. QED
    BY <2>2
<1>2. QED
  BY <1>1, SocketsInvariant, PTL

\* A message is never delivered twice, nor delivered and still on its way,
\* whatever becomes of the senders: it leaves the buffer before it is written.
THEOREM AtMostOnce == Spec => []DeliveredOnce
<1>1. Spec => [](SocketsInv /\ OnePlace)
  <2>1. SocketsInv => TypeOK /\ SendersOK
    BY DEF SocketsInv
  <2>2. Spec => []OnePlace
    BY <2>1, OnePlaceInit, OnePlaceStep, SocketsInvariant, PTL DEF Spec
  <2>3. QED
    BY <2>2, SocketsInvariant, PTL
<1>2. SocketsInv /\ OnePlace => DeliveredOnce
  <2> SUFFICES ASSUME SocketsInv, OnePlace, NEW m \in Messages
               PROVE  Cardinality(Places(m)) <= IF outcome[m] = "queued" THEN 1 ELSE 0
    BY DEF DeliveredOnce
  <2>1. \A k \in Conns : /\ DOMAIN chan[k] = 1..Len(chan[k]) /\ Len(chan[k]) \in Nat
                         /\ DOMAIN received[k] = 1..Len(received[k]) /\ Len(received[k]) \in Nat
    BY DEF SocketsInv, TypeOK
  <2>2. ASSUME NEW p \in Places(m)
        PROVE  \E k \in Conns, w \in Kinds, i \in Index : p = <<k, w, i>> /\ Holds(m, k, w, i)
    <3>1. CASE p \in InBuffers(m)
      <4>1. PICK k \in Conns : p \in {<<k, "chan", i>> : i \in {i \in DOMAIN chan[k] : chan[k][i] = m}}
        BY <3>1 DEF InBuffers
      <4>2. QED
        BY <2>1, <4>1 DEF Holds, Kinds, Index
    <3>2. CASE p \in Arrived(m)
      <4>1. PICK k \in Conns : p \in {<<k, "received", i>> : i \in {i \in DOMAIN received[k] : received[k][i] = m}}
        BY <3>2 DEF Arrived
      <4>2. QED
        BY <2>1, <4>1 DEF Holds, Kinds, Index
    <3>3. CASE p \in InHands(m)
      BY <3>3 DEF InHands, Holds, Kinds, Index
    <3>4. QED
      BY <2>2, <3>1, <3>2, <3>3 DEF Places
  <2>3. CASE Places(m) = {}
    BY <2>3, FS_EmptySet
  <2>4. CASE Places(m) # {}
    <3>1. PICK p : p \in Places(m)
      BY <2>4
    <3>2. outcome[m] = "queued"
      BY <2>2, <3>1 DEF OnePlace
    <3>3. \A q \in Places(m) : q = p
      BY <2>2, <3>1 DEF OnePlace
    <3>4. Places(m) = {p}
      BY <3>1, <3>3
    <3>5. Cardinality({p}) = 1
      BY FS_Singleton
    <3>6. QED
      BY <3>2, <3>4, <3>5
  <2>5. QED
    BY <2>3, <2>4
<1>3. QED
  BY <1>1, <1>2, PTL
=============================================================================
