-------------------------- MODULE WebSocketClient --------------------------
(***************************************************************************)
(* The WebSocket client of the web frontend: one service object per page   *)
(* load, used by the AuthProvider (login connects), by the chat page       *)
(* (mounting connects, unmounting disconnects) and by its own timers.      *)
(*                                                                         *)
(* A socket the service no longer points to lives on: `ws' is only the     *)
(* last one.  `heard' says whether a socket's handlers are still set; they *)
(* are handlers of the service, and act on whatever `ws' is when they run. *)
(***************************************************************************)
EXTENDS Naturals, FiniteSets, Sequences, SequencesExt

CONSTANTS
  Accounts,
  Sockets,       \* bound on the sockets alive at a time, as numbers
  MaxTimers,     \* bound on the timers pending at a time
  MaxReconnectAttempts,
  None

ASSUME ClientAssumption ==
  /\ Sockets \subseteq Nat \ {0}
  /\ MaxTimers \in Nat /\ MaxReconnectAttempts \in Nat
  /\ None \notin Accounts

VARIABLES
  auth,       \* the access token of the provider, known by its account
  mounted,    \* the chat page is shown
  isConnected,\* what the page's hook has last been told
  \* the service
  socket,     \* phase, whether its handlers are set, the account it was opened for
  ws,         \* the socket the service points to, 0 for null
  token,
  attempts,
  manual,     \* isManualDisconnect
  pending,    \* timers that have not fired, in the order they were set: their attempts
  timeout,    \* reconnectTimeout is the last of them; otherwise null, or one that has fired
  \* history
  overtaken,  \* connect() replaced a socket that was not closed yet
  dropped,    \* sockets that were given up while they were connecting
  relogged    \* somebody signed in while a socket was open

service == <<socket, ws, token, attempts, manual, timeout, pending>>
history == <<overtaken, dropped, relogged>>
vars == <<auth, mounted, isConnected, service, history>>

Unused == [phase |-> "none", heard |-> FALSE, of |-> None]
Phase(s) == socket[s].phase
Alive == {s \in Sockets : Phase(s) # "none"}

Connected == ws # 0 /\ Phase(ws) = "open"

Init ==
  /\ auth \in Accounts \union {None}
  /\ mounted = FALSE /\ isConnected = FALSE
  /\ socket = [s \in Sockets |-> Unused]
  /\ ws = 0 /\ token = None /\ attempts = 0 /\ manual = FALSE
  /\ timeout = FALSE /\ pending = <<>>
  /\ overtaken = FALSE /\ dropped = {} /\ relogged = FALSE

(***************************************************************************)
(* The parts the handlers share.                                           *)
(***************************************************************************)

\* clearTimeout(reconnectTimeout).
Cleared == IF timeout THEN Front(pending) ELSE pending

\* Mutant: the socket is replaced without a look at its state.
ConnectAnyway(t) ==
  \E s \in Sockets \ Alive :
    /\ manual' = FALSE
    /\ pending' = Cleared
    /\ timeout' = FALSE
    /\ socket' = [socket EXCEPT ![s] = [phase |-> "connecting", heard |-> TRUE, of |-> t]]
    /\ ws' = s
    /\ overtaken' = (overtaken \/ (ws # 0 /\ Phase(ws) # "open"))
    /\ UNCHANGED <<attempts, dropped>>

\* Mutant: a timer that is pending is forgotten, not cleared.
ConnectKeepsTimer(t) ==
  IF Connected
  THEN UNCHANGED <<socket, ws, attempts, manual, timeout, pending, overtaken, dropped>>
  ELSE \E s \in Sockets \ Alive :
         /\ manual' = FALSE
         /\ timeout' = FALSE
         /\ socket' = [socket EXCEPT ![s] = [phase |-> "connecting", heard |-> TRUE, of |-> t]]
         /\ ws' = s
         /\ overtaken' = (overtaken \/ ws # 0)
         /\ UNCHANGED <<pending, attempts, dropped>>

\* connect(): nothing when open; a socket that is connecting or closing is
\* replaced and keeps its handlers.
Connect(t) ==
  IF Connected
  THEN UNCHANGED <<socket, ws, attempts, manual, timeout, pending, overtaken, dropped>>
  ELSE \E s \in Sockets \ Alive :
         /\ manual' = FALSE
         /\ pending' = Cleared
         /\ timeout' = FALSE
         /\ socket' = [socket EXCEPT ![s] = [phase |-> "connecting", heard |-> TRUE, of |-> t]]
         /\ ws' = s
         /\ overtaken' = (overtaken \/ ws # 0)
         /\ UNCHANGED <<attempts, dropped>>

\* Mutant: the handlers are taken off and the socket is left alone.
CleanupWithoutClose(sockets) ==
  IF ws = 0 THEN sockets ELSE [sockets EXCEPT ![ws].heard = FALSE]

\* cleanup(): the handlers come off; only an open socket is closed.
Cleanup(sockets) ==
  IF ws = 0 THEN sockets
  ELSE [sockets EXCEPT ![ws].heard = FALSE, ![ws].phase = IF @ = "open" THEN "closing" ELSE @]

\* What cleanup() leaves connecting.
Dropped(s) == IF ws \notin {0, s} /\ Phase(ws) = "connecting" THEN dropped \union {ws} ELSE dropped

\* Mutant: there is no maximum of attempts.
ReconnectForEver ==
  IF ~manual
  THEN /\ Len(pending) < MaxTimers
       /\ attempts' = attempts + 1
       /\ pending' = Append(pending, attempts')
       /\ timeout' = TRUE
  ELSE UNCHANGED <<attempts, pending, timeout>>

\* attemptReconnect(): the handle of an earlier timer is overwritten.
AttemptReconnect ==
  IF ~manual /\ attempts < MaxReconnectAttempts
  THEN /\ Len(pending) < MaxTimers
       /\ attempts' = attempts + 1
       /\ pending' = Append(pending, attempts')
       /\ timeout' = TRUE
  ELSE UNCHANGED <<attempts, pending, timeout>>

(***************************************************************************)
(* The callers.                                                            *)
(***************************************************************************)

\* Mutant: a sign-in leaves the token of the service alone.
LoginKeepsToken(t) ==
  /\ ~mounted
  /\ auth' = t
  /\ token' = IF token = None THEN t ELSE token
  /\ Connect(token')
  /\ relogged' = (relogged \/ ws # 0)
  /\ UNCHANGED <<mounted, isConnected>>

\* login() of the provider.
Login(t) ==
  /\ ~mounted
  /\ auth' = t
  /\ token' = t
  /\ Connect(t)
  /\ relogged' = (relogged \/ ws # 0)
  /\ UNCHANGED <<mounted, isConnected>>

\* The chat page mounts: its hook starts with FALSE and hears of changes only.
OpenChats ==
  /\ ~mounted
  /\ mounted' = TRUE
  /\ isConnected' = FALSE
  /\ IF auth = None
     THEN UNCHANGED <<service, history>>
     ELSE token' = auth /\ Connect(auth) /\ UNCHANGED relogged
  /\ UNCHANGED auth

\* It unmounts: disconnect().
LeaveChats ==
  /\ mounted
  /\ mounted' = FALSE
  /\ isConnected' = FALSE
  /\ manual' = TRUE
  /\ socket' = Cleanup(socket) /\ dropped' = Dropped(0)
  /\ ws' = 0
  /\ pending' = Cleared
  /\ timeout' = FALSE
  /\ UNCHANGED <<auth, token, attempts, overtaken, relogged>>

\* Signing out, and every full page load, starts the script anew.
Reload ==
  /\ auth' \in {auth, None}
  /\ mounted' = FALSE /\ isConnected' = FALSE
  /\ socket' = [s \in Sockets |-> Unused]
  /\ ws' = 0 /\ token' = None /\ attempts' = 0 /\ manual' = FALSE
  /\ timeout' = FALSE /\ pending' = <<>>
  /\ overtaken' = FALSE /\ dropped' = {} /\ relogged' = FALSE

(***************************************************************************)
(* The events.                                                             *)
(***************************************************************************)

Opens(s) ==
  /\ Phase(s) = "connecting"
  /\ socket' = [socket EXCEPT ![s].phase = "open"]
  /\ IF socket[s].heard
     THEN attempts' = 0 /\ isConnected' = mounted
     ELSE UNCHANGED <<attempts, isConnected>>
  /\ UNCHANGED <<auth, mounted, ws, token, manual, timeout, pending, history>>

\* The server or the network begins to close it: no longer open, no event yet.
Closes(s) ==
  /\ Phase(s) = "open"
  /\ socket' = [socket EXCEPT ![s].phase = "closing"]
  /\ UNCHANGED <<auth, mounted, isConnected, ws, token, attempts, manual, timeout, pending, history>>

\* Mutant: the page is not told.
ClosedSilently(s) ==
  /\ Phase(s) \in {"connecting", "closing"}
  /\ IF socket[s].heard
     THEN /\ socket' = [Cleanup(socket) EXCEPT ![s] = Unused]
          /\ dropped' = Dropped(s) \ {s}
          /\ ws' = 0
          /\ AttemptReconnect
     ELSE /\ socket' = [socket EXCEPT ![s] = Unused]
          /\ dropped' = dropped \ {s}
          /\ UNCHANGED <<ws, attempts, timeout, pending>>
  /\ UNCHANGED <<auth, mounted, isConnected, token, manual, overtaken, relogged>>

\* Mutant: an attempt that failed is not repeated.
ClosedGivesUp(s) ==
  /\ Phase(s) \in {"connecting", "closing"}
  /\ IF socket[s].heard
     THEN /\ socket' = [Cleanup(socket) EXCEPT ![s] = Unused]
          /\ dropped' = Dropped(s) \ {s}
          /\ ws' = 0
          /\ isConnected' = FALSE
          /\ IF Phase(s) = "closing" THEN AttemptReconnect ELSE UNCHANGED <<attempts, timeout, pending>>
     ELSE /\ socket' = [socket EXCEPT ![s] = Unused]
          /\ dropped' = dropped \ {s}
          /\ UNCHANGED <<ws, isConnected, attempts, timeout, pending>>
  /\ UNCHANGED <<auth, mounted, token, manual, overtaken, relogged>>

\* onclose, also of an attempt that failed: of the service as it is by now.
Closed(s) ==
  /\ Phase(s) \in {"connecting", "closing"}
  /\ IF socket[s].heard
     THEN /\ socket' = [Cleanup(socket) EXCEPT ![s] = Unused]
          /\ dropped' = Dropped(s) \ {s}
          /\ ws' = 0
          /\ isConnected' = FALSE
          /\ AttemptReconnect
     ELSE /\ socket' = [socket EXCEPT ![s] = Unused]
          /\ dropped' = dropped \ {s}
          /\ UNCHANGED <<ws, isConnected, attempts, timeout, pending>>
  /\ UNCHANGED <<auth, mounted, token, manual, overtaken, relogged>>

\* The delay grows with the attempt: a timer set later fires earlier only if it
\* is of a smaller one.
Due(i) == \A j \in 1..(i - 1) : pending[j] > pending[i]

Fires(i) ==
  /\ Due(i)
  /\ LET last == timeout /\ i = Len(pending)
         rest == RemoveAt(pending, i)
     IN IF Connected \/ manual
        THEN /\ pending' = rest
             /\ timeout' = (timeout /\ ~last)
             /\ UNCHANGED <<socket, ws, attempts, manual, overtaken, dropped>>
        ELSE \E s \in Sockets \ Alive :
               /\ pending' = IF timeout /\ ~last THEN Front(rest) ELSE rest
               /\ timeout' = FALSE
               /\ socket' = [socket EXCEPT ![s] =
                               [phase |-> "connecting", heard |-> TRUE, of |-> token]]
               /\ ws' = s
               /\ overtaken' = (overtaken \/ ws # 0)
               /\ UNCHANGED <<attempts, manual, dropped>>
  /\ UNCHANGED <<auth, mounted, isConnected, token, relogged>>

TimerFires == \E i \in DOMAIN pending : Fires(i)

Next ==
  \/ \E t \in Accounts : Login(t)
  \/ OpenChats \/ LeaveChats \/ Reload
  \/ \E s \in Sockets : Opens(s) \/ Closes(s) \/ Closed(s)
  \/ TimerFires

Spec == Init /\ [][Next]_vars

\* Timers fire, an attempt to connect ends, and so does a closing.
FairSpec ==
  /\ Spec
  /\ WF_vars(TimerFires)
  /\ \A s \in Sockets : WF_vars((Phase(s) = "connecting" /\ Opens(s)) \/ Closed(s))

(***************************************************************************)
(* Properties.                                                             *)
(***************************************************************************)

\* The variables have their types.
TypeOK ==
  /\ auth \in Accounts \union {None} /\ token \in Accounts \union {None}
  /\ mounted \in BOOLEAN /\ isConnected \in BOOLEAN
  /\ manual \in BOOLEAN /\ overtaken \in BOOLEAN /\ relogged \in BOOLEAN
  /\ socket \in [Sockets -> [phase : {"none", "connecting", "open", "closing"},
                             heard : BOOLEAN, of : Accounts \union {None}]]
  /\ ws \in Sockets \union {0} /\ dropped \subseteq Sockets
  /\ attempts \in 0..MaxReconnectAttempts
  /\ timeout \in BOOLEAN /\ pending \in Seq(1..MaxReconnectAttempts) /\ (timeout => pending # <<>>)

\* Only the current socket has handlers: the end of an older one cannot tear
\* down its successor, and a message is not handled twice; unless connect() was
\* called while a socket was connecting or closing.
OnlyCurrentIsHeard ==
  \A s \in Alive : socket[s].heard /\ s # ws => overtaken

\* A socket the service has let go of is being closed, so that the server does
\* not go on delivering to a page that does not listen; unless it was let go of
\* while it was still connecting, or replaced.
NothingLeftOpen ==
  \A s \in Alive \ {ws} : Phase(s) = "closing" \/ s \in dropped \/ overtaken

\* A reconnect is waited for at most once, and never beside a socket, unless a
\* socket was replaced.
OneReconnect ==
  ~overtaken => /\ Len(pending) <= 1
                /\ pending # <<>> => ws = 0

\* When the page says that it is connected, it is, or the end of the connection
\* has not been noticed yet; unless a socket was replaced.
ConnectedIsTrue ==
  isConnected => (ws # 0 /\ Phase(ws) \in {"open", "closing"}) \/ overtaken

\* The open connection is of the user who is signed in, unless somebody signed
\* in over an open connection.
ConnectionIsOfUser ==
  Connected => socket[ws].of = auth \/ relogged

\* What the page shows and sends over is an open connection of the user who is
\* signed in, except after a socket was replaced or somebody else signed in.
ConnectionIsTrue == ConnectedIsTrue /\ ConnectionIsOfUser

\* After a loss that nobody asked for the client connects again, or uses up its
\* attempts, or is told to disconnect, as long as nobody asks for a connection
\* again and again.  A replaced socket may be the one that connects: the client
\* then receives, but does not send.
KeepsTrying ==
  <>[][\A t \in Accounts : ~Login(t) /\ ~OpenChats]_vars =>
    ((token # None /\ ws = 0 /\ ~manual)
       ~> \/ \E s \in Sockets : Phase(s) = "open" /\ socket[s].heard
          \/ manual \/ token = None \/ attempts = MaxReconnectAttempts)

=============================================================================
