---------------------------- MODULE AuthSession ----------------------------
(***************************************************************************)
(* Signing in and out and refreshing tokens: the AuthProvider, the login   *)
(* and registration pages and the two API clients of the web frontend, and *)
(* auth_service behind them.                                               *)
(*                                                                         *)
(* Tabs share localStorage and each has a sessionStorage of its own; the   *)
(* provider's state is a third copy, read from the other two when the page *)
(* loads.  A pair of an access and a refresh token is a number; an access  *)
(* token is known by the account it is of, as it cannot be revoked.  A tab *)
(* has at most one operation under way; tabs race with each other.         *)
(* auth_service rotates a refresh token in three statements: read the old  *)
(* one, insert the new one, revoke the old one.                            *)
(***************************************************************************)
EXTENDS Naturals, FiniteSets

CONSTANTS
  Tabs,
  Accounts,
  MaxPairs,   \* bound on the token pairs issued
  MaxSignIns, \* bound on those of them that a sign-in issues
  None,       \* nothing stored
  Temp        \* the temporary user made up when the user cannot be fetched

ASSUME AuthAssumption ==
  /\ MaxPairs \in Nat /\ MaxSignIns \in Nat
  /\ None \notin Nat \union Accounts
  /\ Temp \notin Accounts \union {None}

Pairs == 1..MaxPairs

VARIABLES
  \* auth_service
  owner,      \* the account a pair was issued to, None before it is issued
  root,       \* the sign-in a pair descends from
  live,       \* refresh tokens with revoked = FALSE
  \* the browser
  loc,        \* localStorage: token, refresh, user
  sess,       \* sessionStorage of each tab: token, user
  state,      \* the provider's state in each tab: token, user
  op,         \* the operation under way in each tab
  \* history
  raced,      \* sign-ins with a rotation that overlapped another or failed midway
  adrift,     \* sign-ins with a rotation during a logout, or one the browser did not store
  signedOut,  \* sign-ins ended by a logout the server carried out
  divided,    \* a user signed in while another tab held another one or was refreshing
  mixed       \* a sign-in kept an older refresh token, or happened during a refresh

server == <<owner, root, live>>
browser == <<loc, sess, state>>
history == <<raced, adrift, signedOut, divided, mixed>>
vars == <<server, browser, op, history>>

Kinds == {"login", "register", "logout", "context", "axios", "client"}
Refreshes == {"context", "axios", "client"}
Idle == [kind |-> "idle", stage |-> "none", account |-> None, old |-> None, new |-> None]

Nothing == [token |-> None, refresh |-> None, user |-> None]
NoSess == [token |-> None, user |-> None]

At(t, stage) == op[t].stage = stage
Goto(t, stage) == op' = [op EXCEPT ![t].stage = stage]
End(t) == op' = [op EXCEPT ![t] = Idle]
\* To a stage that does not need the tokens any more.
Finish(t, stage) == op' = [op EXCEPT ![t] = [Idle EXCEPT !.kind = op[t].kind, !.stage = stage]]

(***************************************************************************)
(* The page loads: the provider's state is read from sessionStorage, else  *)
(* from localStorage.  Operations under way die with the old page.         *)
(***************************************************************************)

Or(x, y) == IF x # None THEN x ELSE y
Stored(s, l) == [token |-> Or(s.token, l.token), user |-> Or(s.user, l.user)]

\* The answer to a rotation is lost with the page that asked for it.
Forget(t) ==
  /\ End(t)
  /\ adrift' = IF At(t, "answered") THEN adrift \union {root[op[t].new]} ELSE adrift
  /\ UNCHANGED <<server, loc, raced, signedOut, divided, mixed>>

Reload(t) ==
  /\ state' = [state EXCEPT ![t] = Stored(sess[t], loc)]
  /\ Forget(t)
  /\ UNCHANGED sess

\* The tab is closed and another one opened.
NewTab(t) ==
  /\ sess' = [sess EXCEPT ![t] = NoSess]
  /\ state' = [state EXCEPT ![t] = Stored(NoSess, loc)]
  /\ Forget(t)

(***************************************************************************)
(* Signing in.                                                             *)
(***************************************************************************)

\* GenerateTokenPair: the next number, stored as a live refresh token.
Fresh == {n \in Pairs : owner[n] = None}
Issue(n, a, r) ==
  /\ n \in Fresh /\ \A m \in Fresh : n <= m
  /\ r = None => Cardinality({m \in Pairs : root[m] = m}) < MaxSignIns
  /\ owner' = [owner EXCEPT ![n] = a]
  /\ root' = [root EXCEPT ![n] = IF r = None THEN n ELSE r]

\* The forms of the two pages; their button is disabled while one is sent.
LoginForm(t) == At(t, "none")
RegisterForm(t) == At(t, "none")

StartLogin(t, a) ==
  /\ LoginForm(t)
  /\ op' = [op EXCEPT ![t] = [Idle EXCEPT !.kind = "login", !.stage = "credentials", !.account = a]]
  /\ UNCHANGED <<server, browser, history>>

StartRegister(t, a) ==
  /\ RegisterForm(t)
  /\ op' = [op EXCEPT ![t] = [Idle EXCEPT !.kind = "register", !.stage = "signup", !.account = a]]
  /\ UNCHANGED <<server, browser, history>>

\* POST /auth/register has made the account; the page signs in with it.
Registered(t) ==
  /\ At(t, "signup")
  /\ Goto(t, "credentials")
  /\ UNCHANGED <<server, browser, history>>

\* POST /auth/login.
TokensIssued(t) ==
  /\ At(t, "credentials")
  /\ \E n \in Fresh :
       /\ Issue(n, op[t].account, None)
       /\ live' = live \union {n}
       /\ op' = [op EXCEPT ![t].stage = "user", ![t].new = n]
  /\ UNCHANGED <<browser, history>>

\* An error status or no answer; the tokens may have been issued all the same.
SignInFails(t) ==
  /\ At(t, "signup") \/ At(t, "credentials")
  /\ \/ UNCHANGED server
     \/ At(t, "credentials") /\ \E n \in Fresh : Issue(n, op[t].account, None) /\ live' = live \union {n}
  /\ End(t)
  /\ UNCHANGED <<browser, history>>

\* Mutant: the provider keeps the user it already shows.
SignedInKeepsUser(t, a, refresh) ==
  /\ loc' = [token |-> a, refresh |-> refresh, user |-> a]
  /\ sess' = [sess EXCEPT ![t] = [token |-> a, user |-> a]]
  /\ state' = [state EXCEPT ![t] = [token |-> a, user |-> Or(@.user, a)]]

\* login() of the provider: both storages and the state.
SignedIn(t, a, refresh) ==
  /\ loc' = [token |-> a, refresh |-> refresh, user |-> a]
  /\ sess' = [sess EXCEPT ![t] = [token |-> a, user |-> a]]
  /\ state' = [state EXCEPT ![t] = [token |-> a, user |-> a]]

\* Mutant: the refresh token is passed on as the access token.
UserFetchedSwapped(t) ==
  /\ At(t, "user")
  /\ LET refresh == IF op[t].kind = "login" THEN op[t].new ELSE loc.refresh
     IN /\ SignedIn(t, op[t].new, refresh)
        /\ mixed' = \/ op[t].kind = "register" /\ refresh # None
                    \/ \E s \in Tabs \ {t} : op[s].kind = "context"
        /\ divided' = \/ divided \/ mixed'
                      \/ \E s \in Tabs \ {t} : \E x \in {state[s], sess[s]} :
                           {x.user, x.token} \intersect (Accounts \ {op[t].account}) # {}
  /\ End(t)
  /\ UNCHANGED <<server, raced, adrift, signedOut>>

\* Mutant: a refresh token that is stored already is kept.
UserFetchedKeeps(t) ==
  /\ At(t, "user")
  /\ LET refresh == IF op[t].kind = "login" THEN Or(loc.refresh, op[t].new) ELSE loc.refresh
     IN /\ SignedIn(t, op[t].account, refresh)
        /\ mixed' = \/ op[t].kind = "register" /\ refresh # None
                    \/ \E s \in Tabs \ {t} : op[s].kind = "context"
        /\ divided' = \/ divided \/ mixed'
                      \/ \E s \in Tabs \ {t} : \E x \in {state[s], sess[s]} :
                           {x.user, x.token} \intersect (Accounts \ {op[t].account}) # {}
  /\ End(t)
  /\ UNCHANGED <<server, raced, adrift, signedOut>>

\* The user has been fetched.  Only the login page stores the refresh token:
\* after a registration the one of an earlier sign-in stays.
UserFetched(t) ==
  /\ At(t, "user")
  /\ LET refresh == IF op[t].kind = "login" THEN op[t].new ELSE loc.refresh
     IN /\ SignedIn(t, op[t].account, refresh)
        /\ mixed' = \/ op[t].kind = "register" /\ refresh # None
                    \/ \E s \in Tabs \ {t} : op[s].kind = "context"
        /\ divided' = \/ divided \/ mixed'
                      \/ \E s \in Tabs \ {t} : \E x \in {state[s], sess[s]} :
                           {x.user, x.token} \intersect (Accounts \ {op[t].account}) # {}
  /\ End(t)
  /\ UNCHANGED <<server, raced, adrift, signedOut>>

\* The user cannot be fetched: a temporary one goes to sessionStorage, but
\* login() is called with null and throws before it stores anything.
UserNotFetched(t) ==
  /\ At(t, "user")
  /\ sess' = [sess EXCEPT ![t].user = Temp]
  /\ End(t)
  /\ UNCHANGED <<server, loc, state, history>>

(***************************************************************************)
(* Signing out.                                                            *)
(***************************************************************************)

\* The sign-in of this token, when another tab is at one of these stages with it.
CutAdrift(t, token, stages) ==
  adrift \union {root[op[s].old] : s \in {s \in Tabs \ {t} : /\ At(s, "revoke") \/ op[s].kind \in Refreshes
                                                            /\ op[s].stage \in stages
                                                            /\ token # None
                                                            /\ root[op[s].old] = root[token]}}

\* Where logout() begins: with a token and a stored refresh token it asks the
\* server first, otherwise it clears at once.
LogoutFrom == IF loc.refresh = None THEN "clear" ELSE "revoke"

StartLogout(t) ==
  /\ At(t, "none") /\ state[t].token # None
  /\ op' = [op EXCEPT ![t] = [Idle EXCEPT !.kind = "logout", !.stage = LogoutFrom, !.old = loc.refresh]]
  /\ adrift' = CutAdrift(t, loc.refresh, {"answered"})
  /\ UNCHANGED <<server, browser, raced, signedOut, divided, mixed>>

\* POST /auth/logout: the row is marked revoked, whether or not it was.
ServerRevokes(t) ==
  /\ At(t, "revoke")
  /\ LET r == root[op[t].old] IN
     /\ live' = live \ {op[t].old}
     /\ signedOut' = signedOut \union {r}
     /\ adrift' = CutAdrift(t, op[t].old, {"rotate"})
  /\ Finish(t, "clear")
  /\ UNCHANGED <<owner, root, browser, raced, divided, mixed>>

RevokeFails(t) ==
  /\ At(t, "revoke")
  /\ Finish(t, "clear")
  /\ UNCHANGED <<server, browser, history>>

\* The finally block: everything is cleared, and the page loads anew.
Clear(t) ==
  /\ At(t, "clear")
  /\ loc' = Nothing
  /\ sess' = [sess EXCEPT ![t] = NoSess]
  /\ state' = [state EXCEPT ![t] = NoSess]
  /\ mixed' = FALSE
  /\ End(t)
  /\ UNCHANGED <<server, raced, adrift, signedOut, divided>>

(***************************************************************************)
(* Refreshing: refreshToken() of the provider ("context"), the interceptor *)
(* of api/axios.ts ("axios") and ApiClient.request ("client").             *)
(***************************************************************************)

\* Without a stored refresh token the provider logs out, the interceptor goes
\* to the login page, and the client lets the 401 stand.
StartRefresh(t, kind) ==
  /\ At(t, "none") /\ state[t].token # None
  /\ op' = [op EXCEPT ![t] =
       IF loc.refresh # None
       THEN [Idle EXCEPT !.kind = kind, !.stage = "check", !.old = loc.refresh]
       ELSE IF kind = "context" THEN [Idle EXCEPT !.kind = "logout", !.stage = "clear"]
       ELSE IF kind = "axios" THEN [Idle EXCEPT !.kind = kind, !.stage = "failed"]
       ELSE Idle]
  /\ UNCHANGED <<server, browser, history>>

\* RefreshTokens, its first statement.
ServerChecks(t) ==
  /\ At(t, "check")
  /\ IF op[t].old \in live THEN Goto(t, "rotate") ELSE Finish(t, "failed")
  /\ UNCHANGED <<server, browser, history>>

Overlapping(t) == \E s \in Tabs \ {t} : op[s].stage = "rotate" /\ op[s].old = op[t].old

\* Mutant: the old token stays valid.
RotateWithoutRevoke(t) ==
  /\ At(t, "rotate")
  /\ \E n \in Fresh :
       /\ Issue(n, owner[op[t].old], root[op[t].old])
       /\ live' = live \union {n}
       /\ op' = [op EXCEPT ![t].stage = "answered", ![t].new = n]
  /\ UNCHANGED <<browser, history>>

\* Its second and third, in one step (in between, the new token is known to
\* nobody, and the old one is as before the step): two calls that have both
\* read the old token as valid both succeed.
ServerRotates(t) ==
  /\ At(t, "rotate")
  /\ \E n \in Fresh :
       /\ Issue(n, owner[op[t].old], root[op[t].old])
       /\ live' = (live \union {n}) \ {op[t].old}
       /\ op' = [op EXCEPT ![t].stage = "answered", ![t].new = n]
  /\ raced' = IF Overlapping(t) THEN raced \union {root[op[t].old]} ELSE raced
  /\ adrift' = CutAdrift(t, op[t].old, {"revoke"})
  /\ UNCHANGED <<browser, signedOut, divided, mixed>>

\* A statement fails, or the answer is lost: the old token may stay valid next
\* to the new one, which nobody gets to know.
RefreshFails(t) ==
  /\ At(t, "check") \/ At(t, "rotate")
  /\ \/ UNCHANGED <<server, raced>>
     \/ /\ At(t, "rotate")
        /\ \E n \in Fresh :
             /\ Issue(n, owner[op[t].old], root[op[t].old])
             /\ live' \in {live \union {n}, (live \union {n}) \ {op[t].old}}
        /\ raced' = raced \union {root[op[t].old]}
  /\ Finish(t, "failed")
  /\ UNCHANGED <<browser, adrift, signedOut, divided, mixed>>

\* Mutant: the provider stores the access token only.
ContextKeepsRefresh(t) ==
  /\ At(t, "answered") /\ op[t].kind = "context"
  /\ loc' = [loc EXCEPT !.token = owner[op[t].new]]
  /\ sess' = [sess EXCEPT ![t].token = owner[op[t].new]]
  /\ state' = [state EXCEPT ![t].token = owner[op[t].new]]
  /\ End(t)
  /\ UNCHANGED <<server, history>>

\* The provider stores the new pair.
ContextRefreshed(t) ==
  /\ At(t, "answered") /\ op[t].kind = "context"
  /\ loc' = [loc EXCEPT !.token = owner[op[t].new], !.refresh = op[t].new]
  /\ sess' = [sess EXCEPT ![t].token = owner[op[t].new]]
  /\ state' = [state EXCEPT ![t].token = owner[op[t].new]]
  /\ End(t)
  /\ UNCHANGED <<server, history>>

\* The client stores the access token only: the refresh token that is left in
\* localStorage has just been revoked.
ClientRefreshed(t) ==
  /\ At(t, "answered") /\ op[t].kind = "client"
  /\ loc' = [loc EXCEPT !.token = owner[op[t].new]]
  /\ adrift' = adrift \union {root[op[t].new]}
  /\ End(t)
  /\ UNCHANGED <<server, sess, state, raced, signedOut, divided, mixed>>

\* api/auth.api.ts calls res.tson(), which does not exist: the rotation has
\* happened, and the interceptor takes it for a failure.
AxiosRefreshed(t) ==
  /\ At(t, "answered") /\ op[t].kind = "axios"
  /\ adrift' = adrift \union {root[op[t].new]}
  /\ Finish(t, "failed")
  /\ UNCHANGED <<server, browser, raced, signedOut, divided, mixed>>

\* After a failure the provider logs out with whatever refresh token is stored
\* by now, the interceptor forgets the tokens and goes to the login page, and
\* the client reports the 401.
RefreshGivenUp(t) ==
  /\ At(t, "failed")
  /\ \/ /\ op[t].kind = "context"
        /\ op' = [op EXCEPT ![t] = [Idle EXCEPT !.kind = "logout", !.stage = LogoutFrom, !.old = loc.refresh]]
        /\ adrift' = CutAdrift(t, loc.refresh, {"answered"})
        /\ UNCHANGED browser
     \/ /\ op[t].kind = "axios"
        /\ loc' = [loc EXCEPT !.refresh = None]
        /\ sess' = [sess EXCEPT ![t].token = None]
        /\ state' = [state EXCEPT ![t] = Stored(sess'[t], loc')]
        /\ End(t)
        /\ UNCHANGED adrift
     \/ /\ op[t].kind = "client"
        /\ End(t)
        /\ UNCHANGED <<browser, adrift>>
  /\ UNCHANGED <<server, raced, signedOut, divided, mixed>>

(***************************************************************************)
(* The specification.                                                      *)
(***************************************************************************)

Init ==
  /\ owner = [n \in Pairs |-> None] /\ root = [n \in Pairs |-> None] /\ live = {}
  /\ loc = Nothing
  /\ sess = [t \in Tabs |-> NoSess] /\ state = [t \in Tabs |-> NoSess]
  /\ op = [t \in Tabs |-> Idle]
  /\ raced = {} /\ adrift = {} /\ signedOut = {} /\ divided = FALSE /\ mixed = FALSE

\* What follows once an operation has been started.
Proceed(t) ==
  \/ Registered(t) \/ TokensIssued(t) \/ SignInFails(t) \/ UserFetched(t) \/ UserNotFetched(t)
  \/ ServerRevokes(t) \/ RevokeFails(t) \/ Clear(t)
  \/ ServerChecks(t) \/ ServerRotates(t) \/ RefreshFails(t)
  \/ ContextRefreshed(t) \/ ClientRefreshed(t) \/ AxiosRefreshed(t) \/ RefreshGivenUp(t)

Start(t) ==
  \/ \E a \in Accounts : StartLogin(t, a) \/ StartRegister(t, a)
  \/ StartLogout(t)
  \/ \E kind \in Refreshes : StartRefresh(t, kind)

Next == \E t \in Tabs : Start(t) \/ Proceed(t) \/ Reload(t) \/ NewTab(t)

Spec == Init /\ [][Next]_vars

(***************************************************************************)
(* Properties.                                                             *)
(***************************************************************************)

PairOrNone == Pairs \union {None}
Users == Accounts \union {Temp, None}
Stages == {"none", "signup", "credentials", "user", "revoke", "clear", "check", "rotate", "answered", "failed"}
Operations == [kind : Kinds \union {"idle"}, stage : Stages, account : Accounts \union {None},
               old : PairOrNone, new : PairOrNone]

\* The variables have their types.
TypeOK ==
  /\ owner \in [Pairs -> Accounts \union {None}]
  /\ root \in [Pairs -> PairOrNone]
  /\ live \subseteq Pairs /\ raced \union adrift \subseteq Pairs /\ signedOut \subseteq Pairs
  /\ divided \in BOOLEAN /\ mixed \in BOOLEAN
  /\ loc \in [token : Accounts \union {None}, refresh : PairOrNone, user : Users]
  /\ sess \in [Tabs -> [token : Accounts \union {None}, user : Users]]
  /\ state \in [Tabs -> [token : Accounts \union {None}, user : Users]]
  /\ op \in [Tabs -> Operations]

\* However often a sign-in has been refreshed and from however many tabs, it
\* has one refresh token that is valid, unless two rotations of one token
\* overlapped or one failed between its INSERT and its UPDATE.
OneLivePerSignIn ==
  \A m, n \in live : m # n /\ root[m] = root[n] => root[m] \in raced

\* A logout the server has carried out ends the sign-in: no refresh token of it
\* is valid afterwards, unless a rotation was under way, or the browser had not
\* kept the token a rotation gave it.
LogoutEndsSignIn ==
  \A n \in live : root[n] \in signedOut => root[n] \in raced \union adrift

\* The refresh token in localStorage is one of the user stored next to it, so
\* that a refresh never turns one user into another, unless a registration
\* left the token of an earlier sign-in in place, or another tab was refreshing
\* the tokens of one user while the next one signed in.
RefreshIsOfStoredUser ==
  loc.refresh # None /\ loc.user # None => mixed \/ owner[loc.refresh] = loc.user

\* A tab acts for the user it shows: its access token is of that user, unless
\* users signed in in one tab while another tab held, or was refreshing for,
\* another one.
TabIsOneUser ==
  ~divided => \A t \in Tabs : state[t].token # None /\ state[t].user \in Accounts
                                => state[t].token = state[t].user

\* Both: tokens, in either storage, are of the user that stands beside them.
TokensMatchUsers == RefreshIsOfStoredUser /\ TabIsOneUser
=============================================================================
