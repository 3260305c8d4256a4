----------------------- MODULE WebSocketClientProofs -----------------------
(***************************************************************************)
(* Theorems about WebSocketClient, for every number of sockets, timers and *)
(* attempts: what the page and the service believe of a connection is true *)
(* until connect() has replaced a socket that was not closed.              *)
(***************************************************************************)
EXTENDS WebSocketClient, SequenceTheorems, TLAPS

(***************************************************************************)
(* The inductive invariant, in parts.                                      *)
(***************************************************************************)

\* The socket the service points to is alive and has its handlers.
CurrentIsHeard == ws # 0 => ws \in Alive /\ socket[ws].heard

\* The handle of a pending reconnect is kept, so that connect() and
\* disconnect() can clear it.
HandleIsKept == ~overtaken /\ pending # <<>> => timeout

\* What a reconnect would use is the token of the one who is signed in.
TokenIsOfUser == Alive # {} \/ pending # <<>> => token = auth

\* The current socket was opened for the one who is signed in.
CurrentIsOfUser == ws # 0 => socket[ws].of = auth \/ relogged

ClientInv ==
  /\ CurrentIsHeard /\ OnlyCurrentIsHeard /\ NothingLeftOpen
  /\ OneReconnect /\ HandleIsKept
  /\ ConnectedIsTrue /\ TokenIsOfUser /\ CurrentIsOfUser

(***************************************************************************)
(* Sequences of timers, and types.                                         *)
(***************************************************************************)

SocketStates == [phase : {"none", "connecting", "open", "closing"}, heard : BOOLEAN, of : Accounts \union {None}]

\* Taking a timer off the list, wherever it stands, leaves a list of timers.
LEMMA TimerLists ==
  ASSUME NEW S, NEW s \in Seq(S), s # <<>>
  PROVE  /\ Front(s) \in Seq(S) /\ Len(Front(s)) = Len(s) - 1
         /\ \A i \in 1..Len(s) : RemoveAt(s, i) \in Seq(S) /\ Len(RemoveAt(s, i)) = Len(s) - 1
<1>1. Len(s) \in Nat \ {0}
  BY EmptySeq
<1>2. /\ \A j \in 0..(Len(s) - 1) : SubSeq(s, 1, j) \in Seq(S) /\ Len(SubSeq(s, 1, j)) = j
      /\ \A j \in 1..Len(s) : SubSeq(s, j + 1, Len(s)) \in Seq(S) /\ Len(SubSeq(s, j + 1, Len(s))) = Len(s) - j
  BY <1>1
<1>3. Front(s) \in Seq(S) /\ Len(Front(s)) = Len(s) - 1
  <2>1. Len(s) - 1 \in 0..(Len(s) - 1) /\ Front(s) = SubSeq(s, 1, Len(s) - 1)
    BY <1>1 DEF Front
  <2>2. QED
    BY <1>2, <2>1
<1>4. ASSUME NEW i \in 1..Len(s)
      PROVE  RemoveAt(s, i) \in Seq(S) /\ Len(RemoveAt(s, i)) = Len(s) - 1
  <2>1. i - 1 \in 0..(Len(s) - 1)
    BY <1>1
  <2>2. /\ SubSeq(s, 1, i - 1) \in Seq(S) /\ Len(SubSeq(s, 1, i - 1)) = i - 1
        /\ SubSeq(s, i + 1, Len(s)) \in Seq(S) /\ Len(SubSeq(s, i + 1, Len(s))) = Len(s) - i
    BY <1>2, <2>1
  <2>3. \A u, v \in Seq(S) : u \o v \in Seq(S) /\ Len(u \o v) = Len(u) + Len(v)
    BY ConcatProperties
  <2>4. RemoveAt(s, i) \in Seq(S) /\ Len(RemoveAt(s, i)) = (i - 1) + (Len(s) - i)
    BY <2>2, <2>3 DEF RemoveAt
  <2>5. QED
    BY <1>1, <2>4
<1>5. QED
  BY <1>3, <1>4

LEMMA ClearedType ==
  ASSUME TypeOK
  PROVE  /\ Cleared \in Seq(1..MaxReconnectAttempts)
         /\ Len(pending) <= 1 /\ (pending # <<>> => timeout) => Cleared = <<>>
<1>1. CASE timeout
  <2>1. pending # <<>>
    BY <1>1 DEF TypeOK
  <2>2. Front(pending) \in Seq(1..MaxReconnectAttempts) /\ Len(Front(pending)) = Len(pending) - 1
    BY <2>1, TimerLists DEF TypeOK
  <2>3. Len(pending) <= 1 => Front(pending) = <<>>
    BY <2>1, <2>2, EmptySeq DEF TypeOK
  <2>4. QED
    BY <1>1, <2>2, <2>3 DEF Cleared
<1>2. CASE ~timeout
  BY <1>2 DEF Cleared, TypeOK
<1>3. QED
  BY <1>1, <1>2 DEF TypeOK

LEMMA ConnectType ==
  ASSUME TypeOK, NEW t \in Accounts \union {None}, Connect(t)
  PROVE  /\ socket' \in [Sockets -> SocketStates] /\ ws' \in Sockets \union {0}
         /\ attempts' = attempts /\ dropped' = dropped
         /\ manual' \in BOOLEAN /\ overtaken' \in BOOLEAN /\ timeout' \in BOOLEAN
         /\ pending' \in Seq(1..MaxReconnectAttempts) /\ (timeout' => pending' # <<>>)
<1>1. CASE Connected
  BY <1>1 DEF Connect, TypeOK, SocketStates
<1>2. CASE ~Connected
  <2>1. PICK s \in Sockets : socket' = [socket EXCEPT ![s] = [phase |-> "connecting", heard |-> TRUE, of |-> t]] /\ ws' = s
    BY <1>2 DEF Connect
  <2>2. [phase |-> "connecting", heard |-> TRUE, of |-> t] \in SocketStates
    BY DEF SocketStates
  <2>3. socket' \in [Sockets -> SocketStates]
    BY <2>1, <2>2 DEF TypeOK, SocketStates
  <2>4. QED
    BY <1>2, <2>1, <2>3, ClearedType DEF Connect, TypeOK
<1>3. QED
  BY <1>1, <1>2

LEMMA AttemptType ==
  ASSUME TypeOK, AttemptReconnect
  PROVE  /\ attempts' \in 0..MaxReconnectAttempts /\ timeout' \in BOOLEAN
         /\ pending' \in Seq(1..MaxReconnectAttempts) /\ (timeout' => pending' # <<>>)
<1>1. CASE ~manual /\ attempts < MaxReconnectAttempts
  <2>1. /\ attempts' = attempts + 1 /\ pending' = Append(pending, attempts + 1) /\ timeout' = TRUE
        /\ attempts + 1 \in 1..MaxReconnectAttempts
    BY <1>1, ClientAssumption DEF AttemptReconnect, TypeOK
  <2>2. pending' \in Seq(1..MaxReconnectAttempts) /\ pending' # <<>>
    BY <2>1, AppendProperties DEF TypeOK
  <2>3. QED
    BY <2>1, <2>2
<1>2. CASE ~(~manual /\ attempts < MaxReconnectAttempts)
  BY <1>2 DEF AttemptReconnect, TypeOK
<1>3. QED
  BY <1>1, <1>2

LEMMA CleanupType ==
  ASSUME TypeOK
  PROVE  Cleanup(socket) \in [Sockets -> SocketStates]
<1>1. CASE ws = 0
  BY <1>1 DEF Cleanup, TypeOK, SocketStates
<1>2. CASE ws # 0
  <2>1. ws \in Sockets /\ socket \in [Sockets -> SocketStates]
    BY <1>2 DEF TypeOK, SocketStates
  <2> DEFINE unheard == [socket EXCEPT ![ws].heard = FALSE]
  <2>2. unheard \in [Sockets -> SocketStates] /\ unheard[ws].phase = socket[ws].phase
    BY <2>1 DEF SocketStates
  <2>3. Cleanup(socket) = [unheard EXCEPT ![ws].phase = IF socket[ws].phase = "open" THEN "closing" ELSE socket[ws].phase]
    BY <1>2, <2>1 DEF Cleanup, SocketStates
  <2>4. QED
    BY <2>1, <2>2, <2>3 DEF SocketStates
<1>3. QED
  BY <1>1, <1>2

LEMMA ClientTypeInit == Init => TypeOK
<1>1. Unused \in SocketStates /\ <<>> \in Seq(1..MaxReconnectAttempts) /\ 0 \in 0..MaxReconnectAttempts
  BY ClientAssumption, EmptySeq DEF Unused, SocketStates
<1>2. QED
  BY <1>1 DEF Init, TypeOK, SocketStates

LEMMA ClientTypeStep ==
  ASSUME TypeOK, [Next]_vars
  PROVE  TypeOK'
<1>1. CASE UNCHANGED vars
  BY <1>1 DEF TypeOK, vars, service, history
<1>2. ASSUME NEW t \in Accounts, Login(t)
      PROVE  TypeOK'
  BY <1>2, ConnectType DEF Login, TypeOK, SocketStates
<1>3. CASE OpenChats
  BY <1>3, ConnectType DEF OpenChats, TypeOK, SocketStates, service, history
<1>4. CASE LeaveChats
  <2>1. dropped' \subseteq Sockets
    BY <1>4 DEF LeaveChats, Dropped, TypeOK
  <2>2. QED
    BY <1>4, <2>1, CleanupType, ClearedType DEF LeaveChats, TypeOK, SocketStates
<1>5. CASE Reload
  <2>1. Unused \in SocketStates /\ <<>> \in Seq(1..MaxReconnectAttempts) /\ 0 \in 0..MaxReconnectAttempts
    BY ClientAssumption, EmptySeq DEF Unused, SocketStates
  <2>2. QED
    BY <1>5, <2>1 DEF Reload, TypeOK, SocketStates
<1>6. ASSUME NEW s \in Sockets, Opens(s) \/ Closes(s)
      PROVE  TypeOK'
  <2>1. socket' \in [Sockets -> SocketStates] /\ attempts' \in 0..MaxReconnectAttempts /\ isConnected' \in BOOLEAN
    BY <1>6, ClientAssumption DEF Opens, Closes, TypeOK, SocketStates
  <2>2. QED
    BY <1>6, <2>1 DEF Opens, Closes, TypeOK, SocketStates, history
<1>7. ASSUME NEW s \in Sockets, Closed(s)
      PROVE  TypeOK'
  <2>1. Unused \in SocketStates
    BY DEF Unused, SocketStates
  <2>2. socket' \in [Sockets -> SocketStates]
    BY <1>7, <2>1, CleanupType DEF Closed, TypeOK, SocketStates
  <2>3. dropped' \subseteq Sockets /\ ws' \in Sockets \union {0} /\ isConnected' \in BOOLEAN
    BY <1>7 DEF Closed, Dropped, TypeOK
  <2>4. /\ attempts' \in 0..MaxReconnectAttempts /\ timeout' \in BOOLEAN
        /\ pending' \in Seq(1..MaxReconnectAttempts) /\ (timeout' => pending' # <<>>)
    BY <1>7, AttemptType DEF Closed, TypeOK
  <2>5. QED
    BY <1>7, <2>2, <2>3, <2>4 DEF Closed, TypeOK, SocketStates
<1>8. CASE TimerFires
  <2>1. PICK i \in DOMAIN pending : Fires(i)
    BY <1>8 DEF TimerFires
  <2> DEFINE rest == RemoveAt(pending, i)
             last == timeout /\ i = Len(pending)
  <2>2. pending \in Seq(1..MaxReconnectAttempts) /\ i \in 1..Len(pending) /\ pending # <<>>
    BY EmptySeq, LenProperties DEF TypeOK
  <2>3. rest \in Seq(1..MaxReconnectAttempts) /\ Len(rest) = Len(pending) - 1
    BY <2>2, TimerLists
  <2>4. timeout /\ ~last => rest # <<>>
    BY <2>2, <2>3
  <2>5. timeout /\ ~last => Front(rest) \in Seq(1..MaxReconnectAttempts)
    BY <2>3, <2>4, TimerLists
  <2>6. CASE Connected \/ manual
    BY <2>1, <2>3, <2>4, <2>6 DEF Fires, TypeOK
  <2>7. CASE ~(Connected \/ manual)
    <3>1. PICK s \in Sockets : socket' = [socket EXCEPT ![s] = [phase |-> "connecting", heard |-> TRUE, of |-> token]] /\ ws' = s
      BY <2>1, <2>7 DEF Fires
    <3>2. [phase |-> "connecting", heard |-> TRUE, of |-> token] \in SocketStates
      BY DEF SocketStates, TypeOK
    <3>3. socket' \in [Sockets -> SocketStates]
      BY <3>1, <3>2 DEF TypeOK, SocketStates
    <3>4. pending' \in Seq(1..MaxReconnectAttempts) /\ timeout' = FALSE /\ overtaken' \in BOOLEAN
      BY <2>1, <2>3, <2>5, <2>7 DEF Fires
    <3>5. QED
      BY <2>1, <2>7, <3>1, <3>3, <3>4 DEF Fires, TypeOK, SocketStates
  <2>8. QED
    BY <2>6, <2>7
<1>9. QED
  BY <1>1, <1>2, <1>3, <1>4, <1>5, <1>6, <1>7, <1>8 DEF Next

\* The variables keep their types.
THEOREM ClientTypeCorrect == Spec => []TypeOK
BY ClientTypeInit, ClientTypeStep, PTL DEF Spec

(***************************************************************************)
(* What the parts of the handlers do to the invariant.                     *)
(***************************************************************************)

LEMMA CleanupEffect ==
  ASSUME TypeOK, NEW s \in Sockets
  PROVE  /\ s # ws => Cleanup(socket)[s] = socket[s]
         /\ s = ws => /\ ~Cleanup(socket)[s].heard /\ Cleanup(socket)[s].of = socket[s].of
                      /\ Cleanup(socket)[s].phase = IF Phase(s) = "open" THEN "closing" ELSE Phase(s)
<1>1. s \in Nat \ {0} /\ socket \in [Sockets -> SocketStates]
  BY ClientAssumption DEF TypeOK, SocketStates
<1>2. CASE ws = 0
  BY <1>1, <1>2 DEF Cleanup
<1>3. CASE ws # 0
  <2> DEFINE unheard == [socket EXCEPT ![ws].heard = FALSE]
  <2>1. ws \in Sockets
    BY <1>3 DEF TypeOK
  <2>2. /\ unheard \in [Sockets -> SocketStates] /\ unheard[ws].phase = socket[ws].phase
        /\ ~unheard[ws].heard /\ unheard[ws].of = socket[ws].of
        /\ s # ws => unheard[s] = socket[s]
    BY <1>1, <2>1 DEF SocketStates
  <2>3. Cleanup(socket) = [unheard EXCEPT ![ws].phase = IF socket[ws].phase = "open" THEN "closing" ELSE socket[ws].phase]
    BY <1>1, <1>3, <2>1 DEF Cleanup, SocketStates
  <2>4. QED
    BY <2>1, <2>2, <2>3 DEF SocketStates, Phase
<1>4. QED
  BY <1>2, <1>3

\* A new socket takes the place of what there was: of nothing, or history
\* keeps that it was of something.
LEMMA Replaced ==
  ASSUME TypeOK, ClientInv, NEW s \in Sockets \ Alive, ~Connected,
         socket' = [socket EXCEPT ![s] = [phase |-> "connecting", heard |-> TRUE, of |-> token']],
         ws' = s, overtaken' = (overtaken \/ ws # 0), dropped' = dropped,
         timeout' = FALSE, ~overtaken' => pending' = <<>>,
         isConnected' \in {isConnected, FALSE}, token' = auth'
  PROVE  ClientInv'
<1> USE DEF ClientInv
<1>1. /\ s # 0 /\ Phase(s)' = "connecting" /\ socket'[s].heard /\ socket'[s].of = auth'
      /\ \A r \in Sockets \ {s} : socket'[r] = socket[r]
      /\ Alive' = Alive \union {s}
  BY ClientAssumption DEF TypeOK, Phase, Alive
<1>2. CurrentIsHeard' /\ CurrentIsOfUser' /\ TokenIsOfUser'
  BY <1>1 DEF CurrentIsHeard, CurrentIsOfUser, TokenIsOfUser
<1>3. OnlyCurrentIsHeard'
  <2> SUFFICES ASSUME NEW r \in Alive, socket[r].heard, r # s
               PROVE  overtaken'
    BY <1>1 DEF OnlyCurrentIsHeard, Alive
  <2>1. r \in Sockets /\ r # 0
    BY ClientAssumption DEF Alive
  <2>2. QED
    BY <2>1 DEF OnlyCurrentIsHeard
<1>4. NothingLeftOpen'
  <2> SUFFICES ASSUME NEW r \in Alive, r # s
               PROVE  Phase(r) = "closing" \/ r \in dropped \/ overtaken'
    BY <1>1 DEF NothingLeftOpen, Alive, Phase
  <2>1. r \in Sockets /\ r # 0
    BY ClientAssumption DEF Alive
  <2>2. QED
    BY <2>1 DEF NothingLeftOpen
<1>5. OneReconnect' /\ HandleIsKept'
  BY EmptySeq DEF OneReconnect, HandleIsKept
<1>6. ConnectedIsTrue'
  BY DEF ConnectedIsTrue
<1>7. QED
  BY <1>2, <1>3, <1>4, <1>5, <1>6

\* connect() for the one who is signed in by now.
LEMMA ConnectStep ==
  ASSUME TypeOK, ClientInv, Connect(token'), token' = auth', ~Connected \/ relogged' \/ auth' = auth,
         relogged => relogged', isConnected' \in {isConnected, FALSE}
  PROVE  ClientInv'
<1>1. CASE Connected
  BY <1>1 DEF Connect, ClientInv, CurrentIsHeard, OnlyCurrentIsHeard, NothingLeftOpen, OneReconnect,
              HandleIsKept, ConnectedIsTrue, TokenIsOfUser, CurrentIsOfUser, Alive, Phase, Connected
<1>2. CASE ~Connected
  <2>1. PICK s \in Sockets \ Alive :
          /\ socket' = [socket EXCEPT ![s] = [phase |-> "connecting", heard |-> TRUE, of |-> token']]
          /\ ws' = s
    BY <1>2 DEF Connect
  <2>2. /\ pending' = Cleared /\ timeout' = FALSE
        /\ overtaken' = (overtaken \/ ws # 0) /\ dropped' = dropped
    BY <1>2 DEF Connect
  <2>3. ~overtaken' => pending' = <<>>
    BY <2>2, ClearedType, EmptySeq DEF ClientInv, OneReconnect, HandleIsKept, TypeOK
  <2>4. QED
    BY <1>2, <2>1, <2>2, <2>3, Replaced
<1>3. QED
  BY <1>1, <1>2

\* Disconnecting takes the handlers off and closes what is open.
LEMMA LeaveStep ==
  ASSUME TypeOK, ClientInv, LeaveChats
  PROVE  ClientInv'
<1> USE DEF ClientInv
<1>1. /\ socket' = Cleanup(socket) /\ ws' = 0 /\ pending' = Cleared /\ timeout' = FALSE
      /\ token' = token /\ auth' = auth /\ overtaken' = overtaken /\ isConnected' = FALSE
  BY DEF LeaveChats
<1>2. dropped \subseteq dropped' /\ (ws # 0 /\ Phase(ws) = "connecting" => ws \in dropped')
  BY DEF LeaveChats, Dropped
<1>3. ASSUME NEW r \in Sockets
      PROVE  /\ r # ws => socket'[r] = socket[r]
             /\ r = ws => ~socket'[r].heard /\ Phase(r)' = IF Phase(r) = "open" THEN "closing" ELSE Phase(r)
  BY <1>1, CleanupEffect DEF Phase
<1>4. Alive' = Alive
  BY <1>3 DEF Alive, Phase
<1>5. OnlyCurrentIsHeard'
  <2> SUFFICES ASSUME NEW r \in Alive, socket'[r].heard
               PROVE  overtaken
    BY <1>1, <1>4 DEF OnlyCurrentIsHeard
  <2>1. r # ws /\ socket[r].heard
    BY <1>3 DEF Alive
  <2>2. QED
    BY <2>1 DEF OnlyCurrentIsHeard
<1>6. NothingLeftOpen'
  <2> SUFFICES ASSUME NEW r \in Alive
               PROVE  Phase(r)' = "closing" \/ r \in dropped' \/ overtaken
    BY <1>1, <1>4 DEF NothingLeftOpen, Phase
  <2>1. CASE r = ws
    <3>1. r # 0 /\ Phase(r) \in {"connecting", "open", "closing"}
      BY ClientAssumption DEF Alive, Phase, TypeOK
    <3>2. QED
      BY <2>1, <3>1, <1>2, <1>3 DEF Alive
  <2>2. CASE r # ws
    BY <2>2, <1>2, <1>3 DEF Alive, Phase, NothingLeftOpen
  <2>3. QED
    BY <2>1, <2>2
<1>7. ~overtaken => pending' = <<>>
  BY <1>1, ClearedType, EmptySeq DEF OneReconnect, HandleIsKept, TypeOK
<1>8. OneReconnect' /\ HandleIsKept'
  BY <1>1, <1>7, EmptySeq DEF OneReconnect, HandleIsKept
<1>9. TokenIsOfUser'
  <2>1. pending = <<>> => pending' = <<>>
    BY <1>1 DEF Cleared, TypeOK
  <2>2. QED
    BY <2>1, <1>1, <1>4 DEF TokenIsOfUser
<1>10. QED
  BY <1>1, <1>5, <1>6, <1>8, <1>9 DEF CurrentIsHeard, ConnectedIsTrue, CurrentIsOfUser

\* The end of a socket that has its handlers: of the current one, unless one
\* was replaced, so that no timer is pending yet.
LEMMA HeardEndStep ==
  ASSUME TypeOK, ClientInv, NEW s \in Sockets, Closed(s), socket[s].heard
  PROVE  ClientInv'
<1> USE DEF ClientInv
<1>1. /\ s \in Alive /\ socket' = [Cleanup(socket) EXCEPT ![s] = Unused] /\ ws' = 0 /\ isConnected' = FALSE
      /\ token' = token /\ auth' = auth /\ overtaken' = overtaken /\ AttemptReconnect
      /\ dropped' = Dropped(s) \ {s}
  BY DEF Closed, Alive
<1>2. CurrentIsHeard' /\ ConnectedIsTrue' /\ CurrentIsOfUser' /\ TokenIsOfUser'
  BY <1>1 DEF CurrentIsHeard, ConnectedIsTrue, CurrentIsOfUser, TokenIsOfUser
<1>3. CASE overtaken
  BY <1>1, <1>2, <1>3 DEF OnlyCurrentIsHeard, NothingLeftOpen, OneReconnect, HandleIsKept
<1>4. CASE ~overtaken
  <2>1. s = ws /\ ws # 0 /\ pending = <<>>
    BY <1>1, <1>4, ClientAssumption DEF OnlyCurrentIsHeard, OneReconnect
  <2>2. /\ \A r \in Sockets \ {s} : socket'[r] = socket[r]
        /\ Phase(s)' = "none" /\ dropped' = dropped \ {s}
    BY <1>1, <2>1, CleanupEffect, CleanupType DEF Unused, Phase, Dropped
  <2>3. Alive' = Alive \ {s}
    BY <2>2 DEF Alive, Phase
  <2>4. OnlyCurrentIsHeard' /\ NothingLeftOpen'
    BY <1>1, <1>4, <2>1, <2>2, <2>3 DEF OnlyCurrentIsHeard, NothingLeftOpen, Alive, Phase
  <2>5. Len(pending') <= 1 /\ (pending' # <<>> => timeout')
    <3>1. CASE ~manual /\ attempts < MaxReconnectAttempts
      <4>1. pending' = Append(pending, attempts + 1) /\ timeout' /\ attempts + 1 \in 1..MaxReconnectAttempts
        BY <1>1, <3>1, ClientAssumption DEF AttemptReconnect, TypeOK
      <4>2. QED
        BY <2>1, <4>1, AppendProperties, EmptySeq DEF TypeOK
    <3>2. CASE ~(~manual /\ attempts < MaxReconnectAttempts)
      BY <1>1, <2>1, <3>2, EmptySeq DEF AttemptReconnect
    <3>3. QED
      BY <3>1, <3>2
  <2>6. OneReconnect' /\ HandleIsKept'
    BY <1>1, <2>5 DEF OneReconnect, HandleIsKept
  <2>7. QED
    BY <1>2, <2>4, <2>6
<1>5. QED
  BY <1>3, <1>4

\* The end of a socket without handlers, which is not the current one.
LEMMA UnheardEndStep ==
  ASSUME TypeOK, ClientInv, NEW s \in Sockets, Closed(s), ~socket[s].heard
  PROVE  ClientInv'
<1> USE DEF ClientInv
<1>1. /\ s \in Alive /\ socket' = [socket EXCEPT ![s] = Unused] /\ dropped' = dropped \ {s}
      /\ UNCHANGED <<ws, isConnected, attempts, timeout, pending, auth, token, overtaken, relogged>>
  BY DEF Closed, Alive
<1>2. s # ws /\ ws' = ws
  BY <1>1, ClientAssumption DEF CurrentIsHeard
<1>3. /\ \A r \in Sockets \ {s} : socket'[r] = socket[r]
      /\ Phase(s)' = "none"
  BY <1>1 DEF Unused, Phase, TypeOK
<1>4. Alive' = Alive \ {s}
  BY <1>3 DEF Alive, Phase
<1>5. ws # 0 => ws \in Sockets /\ socket'[ws] = socket[ws]
  BY <1>2, <1>3 DEF TypeOK
<1>6. CurrentIsHeard' /\ OnlyCurrentIsHeard' /\ NothingLeftOpen'
  BY <1>1, <1>2, <1>3, <1>4 DEF CurrentIsHeard, OnlyCurrentIsHeard, NothingLeftOpen, Alive, Phase
<1>7. OneReconnect' /\ HandleIsKept' /\ ConnectedIsTrue' /\ TokenIsOfUser' /\ CurrentIsOfUser'
  BY <1>1, <1>4, <1>5 DEF OneReconnect, HandleIsKept, ConnectedIsTrue, TokenIsOfUser, CurrentIsOfUser, Phase
<1>8. QED
  BY <1>6, <1>7

\* A socket opens, or begins to close.
LEMMA PhaseStep ==
  ASSUME TypeOK, ClientInv, NEW s \in Sockets, Opens(s) \/ Closes(s)
  PROVE  ClientInv'
<1> USE DEF ClientInv
<1>1. /\ s \in Alive
      /\ UNCHANGED <<auth, ws, token, timeout, pending, overtaken, dropped, relogged>>
  BY DEF Opens, Closes, Alive, history
<1>2. /\ \A r \in Sockets : /\ r # s => socket'[r] = socket[r]
                            /\ socket'[r].heard = socket[r].heard /\ socket'[r].of = socket[r].of
      /\ Phase(s)' \in {"open", "closing"}
      /\ Phase(s)' = "open" => socket[s].heard \/ s \in dropped \/ overtaken
  <2>1. CASE Opens(s)
    <3>1. socket' = [socket EXCEPT ![s].phase = "open"] /\ Phase(s) = "connecting"
      BY <2>1 DEF Opens
    <3>2. socket[s].heard \/ s \in dropped \/ overtaken
      BY <1>1, <3>1, ClientAssumption DEF NothingLeftOpen, CurrentIsHeard
    <3>3. QED
      BY <3>1, <3>2 DEF Phase, TypeOK
  <2>2. CASE Closes(s)
    BY <2>2 DEF Closes, Phase, TypeOK
  <2>3. QED
    BY <2>1, <2>2
<1>3. Alive' = Alive
  BY <1>1, <1>2 DEF Alive, Phase
<1>4. CurrentIsHeard' /\ OnlyCurrentIsHeard' /\ CurrentIsOfUser'
  BY <1>1, <1>2, <1>3 DEF CurrentIsHeard, OnlyCurrentIsHeard, CurrentIsOfUser, Alive, TypeOK
<1>5. NothingLeftOpen'
  BY <1>1, <1>2, <1>3 DEF NothingLeftOpen, OnlyCurrentIsHeard, Alive, Phase
<1>6. ConnectedIsTrue'
  <2>1. CASE Opens(s)
    <3>1. CASE socket[s].heard
      <4>1. s = ws \/ overtaken
        BY <1>1, <3>1 DEF OnlyCurrentIsHeard
      <4>2. s # 0
        BY ClientAssumption
      <4>3. QED
        BY <1>1, <1>2, <4>1, <4>2 DEF ConnectedIsTrue
    <3>2. CASE ~socket[s].heard
      BY <2>1, <3>2, <1>1, <1>2 DEF Opens, ConnectedIsTrue, CurrentIsHeard, Alive, Phase
    <3>3. QED
      BY <3>1, <3>2
  <2>2. CASE Closes(s)
    BY <2>2, <1>1, <1>2, ClientAssumption DEF Closes, ConnectedIsTrue, CurrentIsHeard, Alive, Phase
  <2>3. QED
    BY <2>1, <2>2
<1>7. OneReconnect' /\ HandleIsKept' /\ TokenIsOfUser'
  BY <1>1, <1>3 DEF OneReconnect, HandleIsKept, TokenIsOfUser
<1>8. QED
  BY <1>4, <1>5, <1>6, <1>7

\* A timer fires: unless a socket was replaced it is the only one, and there is
\* no socket it could replace.
LEMMA TimerStep ==
  ASSUME TypeOK, ClientInv, TimerFires
  PROVE  ClientInv'
<1> USE DEF ClientInv
<1>1. PICK i \in DOMAIN pending : Fires(i)
  BY DEF TimerFires
<1> DEFINE rest == RemoveAt(pending, i)
           last == timeout /\ i = Len(pending)
<1>2. /\ pending \in Seq(1..MaxReconnectAttempts) /\ i \in 1..Len(pending)
      /\ pending # <<>> /\ UNCHANGED <<auth, isConnected, token, relogged>>
  BY <1>1, EmptySeq, LenProperties DEF TypeOK, Fires
<1>3. rest \in Seq(1..MaxReconnectAttempts) /\ Len(rest) = Len(pending) - 1
  BY <1>2, TimerLists
<1>4. token = auth
  BY <1>2 DEF TokenIsOfUser
<1>5. ~overtaken => /\ ws = 0 /\ rest = <<>> /\ last
  <2>1. Len(pending) \in Nat /\ Len(pending) >= 1
    BY <1>2, LenProperties
  <2>2. ~overtaken => ws = 0 /\ Len(pending) = 1
    <3>1. ~overtaken => ws = 0 /\ Len(pending) <= 1
      BY <1>2 DEF OneReconnect
    <3>2. \A n \in Nat : n >= 1 /\ n <= 1 => n = 1
      OBVIOUS
    <3>3. QED
      BY <2>1, <3>1, <3>2
  <2>3. ~overtaken => timeout
    BY <1>2 DEF HandleIsKept
  <2>4. QED
    BY <2>2, <2>3, <1>2, <1>3, EmptySeq
<1>6. CASE Connected \/ manual
  <2>1. pending' = rest /\ UNCHANGED <<socket, ws, overtaken, dropped>>
    BY <1>1, <1>6 DEF Fires
  <2>2. Alive' = Alive
    BY <2>1 DEF Alive, Phase
  <2>3. CurrentIsHeard' /\ OnlyCurrentIsHeard' /\ NothingLeftOpen' /\ ConnectedIsTrue' /\ CurrentIsOfUser'
    BY <1>2, <2>1, <2>2 DEF CurrentIsHeard, OnlyCurrentIsHeard, NothingLeftOpen, ConnectedIsTrue, CurrentIsOfUser, Phase
  <2>4. OneReconnect' /\ HandleIsKept' /\ TokenIsOfUser'
    BY <1>2, <1>4, <1>5, <2>1, EmptySeq DEF OneReconnect, HandleIsKept, TokenIsOfUser
  <2>5. QED
    BY <2>3, <2>4
<1>7. CASE ~(Connected \/ manual)
  <2>1. PICK s \in Sockets \ Alive :
          /\ socket' = [socket EXCEPT ![s] = [phase |-> "connecting", heard |-> TRUE, of |-> token]]
          /\ ws' = s
    BY <1>1, <1>7 DEF Fires
  <2>2. /\ pending' = IF timeout /\ ~last THEN Front(rest) ELSE rest
        /\ timeout' = FALSE /\ overtaken' = (overtaken \/ ws # 0) /\ dropped' = dropped
    BY <1>1, <1>7 DEF Fires
  <2>3. ~overtaken' => pending' = <<>>
    BY <2>2, <1>5
  <2>4. QED
    BY <1>2, <1>4, <1>7, <2>1, <2>2, <2>3, Replaced
<1>8. QED
  BY <1>6, <1>7

(***************************************************************************)
(* The invariant of the specification.                                     *)
(***************************************************************************)

LEMMA ClientInvInit == Init => ClientInv
<1>1. Init => Alive = {} /\ ws = 0 /\ pending = <<>> /\ ~isConnected
  BY DEF Init, Alive, Phase, Unused
<1>2. Init => Len(pending) <= 1
  BY EmptySeq DEF Init
<1>3. QED
  BY <1>1, <1>2 DEF ClientInv, CurrentIsHeard, OnlyCurrentIsHeard, NothingLeftOpen, OneReconnect, HandleIsKept,
                    ConnectedIsTrue, TokenIsOfUser, CurrentIsOfUser

LEMMA ClientInvStep ==
  ASSUME TypeOK, ClientInv, [Next]_vars
  PROVE  ClientInv'
<1>1. ASSUME NEW t \in Accounts, Login(t)
      PROVE  ClientInv'
  <2>1. ~Connected \/ relogged'
    BY <1>1 DEF Login, Connected
  <2>2. QED
    BY <1>1, <2>1, ConnectStep DEF Login
<1>2. CASE OpenChats
  <2>1. CASE auth = None
    <3>1. UNCHANGED <<auth, service, history>> /\ isConnected' = FALSE
      BY <1>2, <2>1 DEF OpenChats
    <3>2. QED
      BY <3>1 DEF ClientInv, CurrentIsHeard, OnlyCurrentIsHeard, NothingLeftOpen, OneReconnect, HandleIsKept,
                  ConnectedIsTrue, TokenIsOfUser, CurrentIsOfUser, Alive, Phase, service, history
  <2>2. CASE auth # None
    BY <1>2, <2>2, ConnectStep DEF OpenChats
  <2>3. QED
    BY <2>1, <2>2
<1>3. CASE Reload
  <2>1. Alive' = {} /\ ws' = 0 /\ pending' = <<>> /\ isConnected' = FALSE
    BY <1>3 DEF Reload, Alive, Phase, Unused
  <2>2. Len(pending') <= 1
    BY <2>1, EmptySeq
  <2>3. QED
    BY <2>1, <2>2 DEF ClientInv, CurrentIsHeard, OnlyCurrentIsHeard, NothingLeftOpen, OneReconnect, HandleIsKept,
                      ConnectedIsTrue, TokenIsOfUser, CurrentIsOfUser
<1>4. CASE UNCHANGED vars
  BY <1>4 DEF ClientInv, CurrentIsHeard, OnlyCurrentIsHeard, NothingLeftOpen, OneReconnect, HandleIsKept,
              ConnectedIsTrue, TokenIsOfUser, CurrentIsOfUser, Alive, Phase, vars, service, history
<1>5. QED
  BY <1>1, <1>2, <1>3, <1>4, LeaveStep, PhaseStep, HeardEndStep, UnheardEndStep, TimerStep DEF Next

\* The inductive invariant of the client, for any number of sockets, accounts and
\* attempts: connect(), cleanup() and the handlers keep the service and its
\* sockets in step.
THEOREM ClientInvariant == Spec => [](TypeOK /\ ClientInv)
<1>1. Init => TypeOK /\ ClientInv
  BY ClientTypeInit, ClientInvInit
<1>2. TypeOK /\ ClientInv /\ [Next]_vars => (TypeOK /\ ClientInv)'
  BY ClientTypeStep, ClientInvStep
<1>3. QED
  BY <1>1, <1>2, PTL DEF Spec

\* Unless connect() replaced a socket that was not closed, the handlers that are
\* set are the current one's: the end of another socket cannot tear it down.
THEOREM OneListener == Spec => []OnlyCurrentIsHeard
<1>1. TypeOK /\ ClientInv => OnlyCurrentIsHeard
  BY DEF ClientInv
<1>2. QED
  BY <1>1, ClientInvariant, PTL

\* disconnect() and onclose leave no open socket behind.
THEOREM NoOrphans == Spec => []NothingLeftOpen
<1>1. TypeOK /\ ClientInv => NothingLeftOpen
  BY DEF ClientInv
<1>2. QED
  BY <1>1, ClientInvariant, PTL

\* attemptReconnect() does not look for the timer of an earlier run, and finds none
\* pending as long as connect() has replaced no socket that was not closed yet:
\* the closings of two such sockets, one after the other, do set a second timer.
THEOREM OneTimer == Spec => []OneReconnect
<1>1. TypeOK /\ ClientInv => OneReconnect
  BY DEF ClientInv
<1>2. QED
  BY <1>1, ClientInvariant, PTL

\* What the page shows of the connection is so, and it is the user's own.
THEOREM TrueConnection == Spec => []ConnectionIsTrue
<1>1. TypeOK /\ ClientInv => ConnectionIsTrue
  BY DEF ClientInv, ConnectionIsTrue, ConnectionIsOfUser, CurrentIsOfUser, Connected
<1>2. QED
  BY <1>1, ClientInvariant, PTL
=============================================================================
