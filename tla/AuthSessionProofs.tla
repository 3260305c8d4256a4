------------------------- MODULE AuthSessionProofs -------------------------
(***************************************************************************)
(* Theorems about AuthSession, for every number of tabs, accounts, token   *)
(* pairs and sign-ins.                                                     *)
(*                                                                         *)
(* The inductive invariant has three layers, proved one upon the other:    *)
(* what has been issued and which tokens an operation holds (IssuedOK,     *)
(* OpsOK); who knows a refresh token that is still valid (SignInsOK): the  *)
(* browser stores it, or an answer on its way carries it, or its sign-in   *)
(* is one of those history has set aside; and whose tokens they are        *)
(* (UsersOK).                                                              *)
(***************************************************************************)
EXTENDS AuthSession, TLAPS

(***************************************************************************)
(* First layer: what has been issued, and what an operation holds.         *)
(***************************************************************************)

Issued == {n \in Pairs : owner[n] # None}

\* A pair has a root from the moment it is issued, and the root is a pair
\* issued to the same account or the pair itself.
IssuedOK ==
  /\ \A n \in Issued : root[n] \in Issued
  /\ \A n \in Pairs \ Issued : root[n] = None
  /\ live \subseteq Issued
  /\ raced \subseteq Issued /\ adrift \subseteq Issued /\ signedOut \subseteq Issued
  /\ loc.refresh \in Issued \union {None}

\* An operation has the tokens its stage needs, and no others.
OpOK(o) ==
  /\ o.kind \in Refreshes <=> o.stage \in {"check", "rotate", "answered", "failed"}
  /\ o.stage \in {"signup", "credentials", "user"} => o.account \in Accounts /\ o.kind \in {"login", "register"}
  /\ IF o.stage \in {"revoke", "check", "rotate", "answered"} THEN o.old \in Issued ELSE o.old = None
  /\ IF o.stage \in {"user", "answered"} THEN o.new \in Issued ELSE o.new = None
  /\ o.stage = "user" => owner[o.new] = o.account
  /\ o.stage = "answered" => root[o.new] = root[o.old] /\ owner[o.new] = owner[o.old]

OpsOK == \A t \in Tabs : OpOK(op[t])

Structure == TypeOK /\ IssuedOK /\ OpsOK

LEMMA StructureInit == Init => Structure
<1> SUFFICES ASSUME Init PROVE Structure
  OBVIOUS
<1>1. Idle \in Operations /\ Nothing.refresh = None
  BY DEF Idle, Operations, Stages, PairOrNone, Nothing
<1>2. TypeOK
  BY <1>1 DEF Init, TypeOK, PairOrNone, Users, Nothing, NoSess
<1>3. IssuedOK
  BY <1>1 DEF Init, IssuedOK, Issued
<1>4. OpsOK
  BY DEF Init, OpsOK, OpOK, Idle, Refreshes
<1>5. QED
  BY <1>2, <1>3, <1>4 DEF Structure

\* The operations a step goes on with are well typed.
LEMMA OperationTypes ==
  ASSUME TypeOK, NEW t \in Tabs
  PROVE  /\ Idle \in Operations
         /\ \A stage \in Stages : /\ [op[t] EXCEPT !.stage = stage] \in Operations
                                  /\ [Idle EXCEPT !.kind = op[t].kind, !.stage = stage] \in Operations
         /\ \A stage \in Stages, n \in Pairs : [op[t] EXCEPT !.stage = stage, !.new = n] \in Operations
         /\ \A kind \in Kinds, stage \in Stages :
              /\ [Idle EXCEPT !.kind = kind, !.stage = stage] \in Operations
              /\ \A a \in Accounts : [Idle EXCEPT !.kind = kind, !.stage = stage, !.account = a] \in Operations
              /\ \A x \in PairOrNone : [Idle EXCEPT !.kind = kind, !.stage = stage, !.old = x] \in Operations
<1>1. Idle \in Operations
  BY DEF Idle, Operations, Stages, PairOrNone
<1>2. op[t] \in Operations
  BY DEF TypeOK
<1>3. \A stage \in Stages : [op[t] EXCEPT !.stage = stage] \in Operations
  BY <1>2 DEF Operations
<1>4. \A stage \in Stages : [Idle EXCEPT !.kind = op[t].kind, !.stage = stage] \in Operations
  BY <1>1, <1>2 DEF Operations
<1>5. \A stage \in Stages, n \in Pairs : [op[t] EXCEPT !.stage = stage, !.new = n] \in Operations
  BY <1>2 DEF Operations, PairOrNone
<1>6. \A kind \in Kinds, stage \in Stages, a \in Accounts :
        [Idle EXCEPT !.kind = kind, !.stage = stage, !.account = a] \in Operations
  BY <1>1 DEF Operations
<1>7. \A kind \in Kinds, stage \in Stages, x \in PairOrNone :
        [Idle EXCEPT !.kind = kind, !.stage = stage, !.old = x] \in Operations
  BY <1>1 DEF Operations
<1>8. \A kind \in Kinds, stage \in Stages : [Idle EXCEPT !.kind = kind, !.stage = stage] \in Operations
  BY <1>1 DEF Operations
<1>9. QED
  BY <1>1, <1>3, <1>4, <1>5, <1>6, <1>7, <1>8

\* Every step of a tab leaves the operations of the other tabs as they are.
LEMMA OneOperation ==
  ASSUME Structure, NEW t \in Tabs, Start(t) \/ Proceed(t) \/ Reload(t) \/ NewTab(t)
  PROVE  \E o \in Operations : op' = [op EXCEPT ![t] = o]
<1> DEFINE Moves == \E o \in Operations : op' = [op EXCEPT ![t] = o]
<1>1. /\ TypeOK /\ op \in [Tabs -> Operations]
      /\ loc.refresh \in PairOrNone /\ LogoutFrom \in Stages /\ Fresh \subseteq Pairs
  BY DEF Structure, TypeOK, LogoutFrom, Stages, Fresh
<1>2. /\ {"credentials", "signup", "user", "clear", "check", "rotate", "answered", "failed"} \subseteq Stages
      /\ {"login", "register", "logout"} \subseteq Kinds /\ Refreshes \subseteq Kinds
  BY DEF Stages, Kinds, Refreshes
<1> USE <1>1, OperationTypes
<1>3. /\ \A stage \in Stages : Goto(t, stage) => Moves
      /\ \A stage \in Stages : Finish(t, stage) => Moves
      /\ End(t) => Moves
  <2>1. ASSUME NEW stage \in Stages, Goto(t, stage) PROVE Moves
    <3>1. op' = [op EXCEPT ![t] = [op[t] EXCEPT !.stage = stage]]
      BY <2>1 DEF Goto, Operations
    <3>2. QED
      BY <3>1
  <2>2. QED
    BY <2>1 DEF Finish, End
<1>4. ASSUME NEW stage \in Stages, NEW n \in Pairs, op' = [op EXCEPT ![t].stage = stage, ![t].new = n]
      PROVE  Moves
  <2>1. op' = [op EXCEPT ![t] = [op[t] EXCEPT !.stage = stage, !.new = n]]
    BY <1>4 DEF Operations
  <2>2. QED
    BY <2>1
<1>5. CASE Start(t)
  <2>1. ASSUME NEW a \in Accounts, StartLogin(t, a) \/ StartRegister(t, a)
        PROVE  Moves
    BY <1>2, <2>1 DEF StartLogin, StartRegister
  <2>2. CASE StartLogout(t)
    BY <1>2, <2>2 DEF StartLogout
  <2>3. ASSUME NEW kind \in Refreshes, StartRefresh(t, kind)
        PROVE  Moves
    BY <1>2, <2>3 DEF StartRefresh
  <2>4. QED
    BY <1>5, <2>1, <2>2, <2>3 DEF Start
<1>6. CASE Proceed(t)
  <2>1. CASE TokensIssued(t)
    <3>1. PICK n \in Fresh : op' = [op EXCEPT ![t].stage = "user", ![t].new = n]
      BY <2>1 DEF TokensIssued
    <3>2. QED
      BY <1>2, <1>4, <3>1
  <2>2. CASE ServerRotates(t)
    <3>1. PICK n \in Fresh : op' = [op EXCEPT ![t].stage = "answered", ![t].new = n]
      BY <2>2 DEF ServerRotates
    <3>2. QED
      BY <1>2, <1>4, <3>1
  <2>3. CASE RefreshGivenUp(t)
    <3>1. op[t].kind \in Refreshes
      BY <2>3 DEF RefreshGivenUp, At, Structure, OpsOK, OpOK
    <3>2. \/ End(t)
          \/ op' = [op EXCEPT ![t] = [Idle EXCEPT !.kind = "logout", !.stage = LogoutFrom, !.old = loc.refresh]]
      BY <2>3, <3>1 DEF RefreshGivenUp, Refreshes
    <3>3. QED
      BY <1>2, <1>3, <3>2
  <2>4. QED
    BY <1>2, <1>3, <1>6, <2>1, <2>2, <2>3
       DEF Proceed, Registered, SignInFails, UserFetched, UserNotFetched, ServerRevokes, RevokeFails, Clear,
           ServerChecks, RefreshFails, ContextRefreshed, ClientRefreshed, AxiosRefreshed
<1>7. CASE Reload(t) \/ NewTab(t)
  BY <1>3, <1>7 DEF Reload, NewTab, Forget
<1>8. QED
  BY <1>5, <1>6, <1>7

\* What a new pair changes on the server, for a sign-in and for a rotation.
LEMMA Issuing ==
  ASSUME Structure, NEW n \in Pairs, NEW a \in Accounts, NEW r \in Issued \union {None}, Issue(n, a, r)
  PROVE  /\ n \notin Issued /\ n # None /\ Issued' = Issued \union {n}
         /\ owner' \in [Pairs -> Accounts \union {None}] /\ root' \in [Pairs -> PairOrNone]
         /\ owner'[n] = a /\ root'[n] = IF r = None THEN n ELSE r
         /\ \A m \in Pairs \ {n} : owner'[m] = owner[m] /\ root'[m] = root[m]
<1>1. n \notin Issued /\ n # None /\ None \notin Accounts
  BY AuthAssumption DEF Issue, Fresh, Issued, Pairs
<1>2. /\ owner' \in [Pairs -> Accounts \union {None}] /\ root' \in [Pairs -> PairOrNone]
      /\ owner'[n] = a /\ root'[n] = IF r = None THEN n ELSE r
      /\ \A m \in Pairs \ {n} : owner'[m] = owner[m] /\ root'[m] = root[m]
  BY DEF Issue, Structure, TypeOK, PairOrNone, Issued
<1>3. Issued' = Issued \union {n}
  BY <1>1, <1>2 DEF Issued
<1>4. QED
  BY <1>1, <1>2, <1>3


LEMMA TypeStep ==
  ASSUME Structure, NEW t \in Tabs, Start(t) \/ Proceed(t) \/ Reload(t) \/ NewTab(t)
  PROVE  TypeOK'
<1>1. op' \in [Tabs -> Operations]
  BY OneOperation DEF Structure, TypeOK
<1> USE AuthAssumption, <1>1 DEF Structure, TypeOK, server, browser, history, IssuedOK, OpsOK, OpOK, Issued, At, PairOrNone, Users
<1>2. CASE Start(t)
  <2>1. UNCHANGED <<server, browser, raced, signedOut, divided, mixed>>
    BY <1>2 DEF Start, StartLogin, StartRegister, StartLogout, StartRefresh
  <2>2. adrift' = adrift \/ adrift' = CutAdrift(t, loc.refresh, {"answered"})
    BY <1>2 DEF Start, StartLogin, StartRegister, StartLogout, StartRefresh
  <2>3. QED
    BY <2>1, <2>2 DEF CutAdrift
<1>3. CASE Registered(t) \/ RevokeFails(t) \/ ServerChecks(t)
  BY <1>3 DEF Registered, RevokeFails, ServerChecks
<1>4. CASE TokensIssued(t) \/ SignInFails(t)
  <2>1. UNCHANGED <<server, browser, history>> \/ \E n \in Fresh : /\ Issue(n, op[t].account, None) /\ live' = live \union {n}
                                                                   /\ op[t].account \in Accounts /\ UNCHANGED <<browser, history>>
    BY <1>4 DEF TokensIssued, SignInFails
  <2>2. QED
    BY <2>1, Issuing DEF Fresh
<1>5. CASE UserFetched(t)
  BY <1>5 DEF UserFetched, SignedIn
<1>6. CASE UserNotFetched(t) \/ Clear(t)
  <2>1. CASE UserNotFetched(t)
    BY <2>1 DEF UserNotFetched
  <2>2. CASE Clear(t)
    BY <2>2 DEF Clear, Nothing, NoSess
  <2>3. QED
    BY <1>6, <2>1, <2>2
<1>7. CASE ServerRevokes(t)
  BY <1>7 DEF ServerRevokes, CutAdrift
<1>8. CASE ServerRotates(t) \/ RefreshFails(t)
  <2> DEFINE o == op[t].old
  <2>1. CASE UNCHANGED server
    BY <1>8, <2>1 DEF ServerRotates, RefreshFails, CutAdrift
  <2>2. CASE ~UNCHANGED server
    <3>1. At(t, "rotate") /\ UNCHANGED <<browser, signedOut, divided, mixed>>
      BY <1>8, <2>2 DEF ServerRotates, RefreshFails
    <3>2. o \in Issued /\ root[o] \in Issued /\ owner[o] \in Accounts
      BY <3>1
    <3>3. PICK n \in Fresh : Issue(n, owner[o], root[o]) /\ live' \subseteq live \union {n}
      BY <1>8, <2>2 DEF ServerRotates, RefreshFails
    <3>4. raced' \union adrift' \subseteq Pairs
      BY <1>8, <3>2 DEF ServerRotates, RefreshFails, CutAdrift
    <3>5. n \in Pairs
      BY DEF Fresh
    <3>6. QED
      BY <3>1, <3>2, <3>3, <3>4, <3>5, Issuing
  <2>3. QED
    BY <2>1, <2>2
<1>9. CASE ContextRefreshed(t)
  <2>1. op[t].new \in Pairs /\ owner[op[t].new] \in Accounts
    BY <1>9 DEF ContextRefreshed
  <2>2. loc' \in [token : Accounts \union {None}, refresh : PairOrNone, user : Users]
    BY <1>9, <2>1 DEF ContextRefreshed
  <2>3. /\ sess' \in [Tabs -> [token : Accounts \union {None}, user : Users]]
        /\ state' \in [Tabs -> [token : Accounts \union {None}, user : Users]]
    BY <1>9, <2>1 DEF ContextRefreshed
  <2>4. QED
    BY <1>9, <2>2, <2>3 DEF ContextRefreshed
<1>10. CASE ClientRefreshed(t) \/ AxiosRefreshed(t)
  BY <1>10 DEF ClientRefreshed, AxiosRefreshed
<1>11. CASE RefreshGivenUp(t)
  <2>1. UNCHANGED <<server, raced, signedOut, divided, mixed>> /\ adrift' \subseteq Pairs
    BY <1>11 DEF RefreshGivenUp, CutAdrift
  <2>2. CASE UNCHANGED browser
    BY <2>1, <2>2
  <2>3. CASE /\ loc' = [loc EXCEPT !.refresh = None] /\ sess' = [sess EXCEPT ![t].token = None]
             /\ state' = [state EXCEPT ![t] = Stored(sess'[t], loc')]
    BY <2>1, <2>3 DEF Stored, Or
  <2>4. QED
    BY <1>11, <2>2, <2>3 DEF RefreshGivenUp
<1>12. CASE Reload(t) \/ NewTab(t)
  <2>1. CASE Reload(t)
    BY <2>1 DEF Reload, Forget, Stored, Or
  <2>2. CASE NewTab(t)
    BY <2>2 DEF NewTab, Forget, Stored, Or, NoSess
  <2>3. QED
    BY <1>12, <2>1, <2>2
<1>13. QED
  BY <1>2, <1>3, <1>4, <1>5, <1>6, <1>7, <1>8, <1>9, <1>10, <1>11, <1>12 DEF Proceed

\* Which steps issue a pair, which store one in localStorage, and which touch
\* the history of rotations and logouts.
LEMMA StepFrames ==
  ASSUME NEW t \in Tabs, Start(t) \/ Proceed(t) \/ Reload(t) \/ NewTab(t)
  PROVE  /\ \/ UNCHANGED <<owner, root>> /\ live' \subseteq live
            \/ TokensIssued(t) \/ SignInFails(t) \/ ServerRotates(t) \/ RefreshFails(t)
         /\ \/ UNCHANGED loc
            \/ UserFetched(t) \/ ContextRefreshed(t) \/ ClientRefreshed(t) \/ Clear(t) \/ RefreshGivenUp(t)
BY DEF Start, StartLogin, StartRegister, StartLogout, StartRefresh, Proceed, Registered, TokensIssued,
       UserNotFetched, UserFetched, ServerRevokes, RevokeFails, Clear, ServerChecks, SignInFails, ServerRotates, RefreshFails,
       ContextRefreshed, ClientRefreshed, AxiosRefreshed, RefreshGivenUp, Reload, NewTab, Forget, server, browser

\* A pair is never taken back, and keeps its account and its root.
LEMMA PairsStay ==
  ASSUME Structure, NEW t \in Tabs, Start(t) \/ Proceed(t) \/ Reload(t) \/ NewTab(t)
  PROVE  /\ Issued \subseteq Issued'
         /\ \A m \in Issued : owner'[m] = owner[m] /\ root'[m] = root[m]
<1>1. CASE UNCHANGED <<owner, root>>
  BY <1>1 DEF Issued
<1>2. CASE ~UNCHANGED <<owner, root>>
  <2>1. \E n \in Fresh : \/ Issue(n, op[t].account, None) /\ op[t].account \in Accounts
                         \/ At(t, "rotate") /\ Issue(n, owner[op[t].old], root[op[t].old])
    BY <1>2, StepFrames DEF TokensIssued, SignInFails, ServerRotates, RefreshFails, server, At, Structure, OpsOK, OpOK
  <2>2. At(t, "rotate") => root[op[t].old] \in Issued /\ owner[op[t].old] \in Accounts
    BY DEF At, Structure, OpsOK, OpOK, IssuedOK, Issued, TypeOK
  <2>3. QED
    BY <2>1, <2>2, Issuing DEF Fresh, Issued
<1>3. QED
  BY <1>1, <1>2

LEMMA IssuedStep ==
  ASSUME Structure, NEW t \in Tabs, Start(t) \/ Proceed(t) \/ Reload(t) \/ NewTab(t)
  PROVE  IssuedOK'
<1> DEFINE o == op[t].old
           PairsOK == /\ \A n \in Issued : root[n] \in Issued
                      /\ \A n \in Pairs \ Issued : root[n] = None
                      /\ live \subseteq Issued
<1> USE DEF Structure, IssuedOK, OpsOK, OpOK, At
<1>1. Issued \subseteq Issued' /\ \A m \in Issued : root'[m] = root[m]
  BY PairsStay
<1>2. PairsOK'
  <2>1. CASE UNCHANGED <<owner, root>> /\ live' \subseteq live
    BY <2>1 DEF Issued
  <2>2. ASSUME NEW n \in Pairs, NEW a \in Accounts, NEW r \in Issued \union {None}, Issue(n, a, r),
               live' \subseteq live \union {n}
        PROVE  PairsOK'
    <3>1. n \notin Issued /\ Issued' = Issued \union {n} /\ root'[n] = IF r = None THEN n ELSE r
      BY <2>2, Issuing
    <3>2. \A m \in Pairs \ {n} : root'[m] = root[m]
      BY <2>2, Issuing
    <3>3. \A m \in Issued' : root'[m] \in Issued'
      BY <3>1, <3>2 DEF Issued
    <3>4. \A m \in Pairs \ Issued' : root'[m] = None
      BY <3>1, <3>2
    <3>5. QED
      BY <2>2, <3>1, <3>3, <3>4
  <2>3. CASE TokensIssued(t) \/ SignInFails(t)
    BY <2>1, <2>2, <2>3 DEF TokensIssued, SignInFails, server, Fresh
  <2>4. CASE ServerRotates(t) \/ RefreshFails(t)
    <3>1. At(t, "rotate") => root[o] \in Issued /\ owner[o] \in Accounts
      BY DEF Issued, TypeOK
    <3>2. QED
      BY <2>1, <2>2, <2>4, <3>1 DEF ServerRotates, RefreshFails, server, Fresh
  <2>5. CASE ~(TokensIssued(t) \/ SignInFails(t) \/ ServerRotates(t) \/ RefreshFails(t))
    <3>1. UNCHANGED <<owner, root>> /\ live' \subseteq live
      BY <2>5, StepFrames
    <3>2. QED
      BY <2>1, <3>1
  <2>6. QED
    BY <2>3, <2>4, <2>5
<1>3. raced' \subseteq Issued' /\ adrift' \subseteq Issued' /\ signedOut' \subseteq Issued'
  <2>1. \A token : /\ CutAdrift(t, token, {"answered"}) \subseteq Issued
                   /\ CutAdrift(t, token, {"rotate"}) \subseteq Issued
                   /\ CutAdrift(t, token, {"revoke"}) \subseteq Issued
    BY DEF CutAdrift
  <2>2. raced' \subseteq Issued /\ signedOut' \subseteq Issued
    BY DEF Start, StartLogin, StartRegister, StartLogout, StartRefresh, Proceed, Registered, TokensIssued,
                SignInFails, UserFetched, UserNotFetched, ServerRevokes, RevokeFails, Clear, ServerChecks,
                ServerRotates, RefreshFails, ContextRefreshed, ClientRefreshed, AxiosRefreshed, RefreshGivenUp,
                Reload, NewTab, Forget, history
  <2>3. \/ adrift' = adrift
        \/ At(t, "answered") /\ adrift' = adrift \union {root[op[t].new]}
        \/ \E token : \/ adrift' = CutAdrift(t, token, {"answered"})
                      \/ adrift' = CutAdrift(t, token, {"rotate"})
                      \/ adrift' = CutAdrift(t, token, {"revoke"})
    BY DEF Start, StartLogin, StartRegister, StartLogout, StartRefresh, Proceed, Registered, TokensIssued,
           SignInFails, UserFetched, UserNotFetched, ServerRevokes, RevokeFails, Clear, ServerChecks,
           ServerRotates, RefreshFails, ContextRefreshed, ClientRefreshed, AxiosRefreshed, RefreshGivenUp,
           Reload, NewTab, Forget, history
  <2>4. adrift' \subseteq Issued
    BY <2>1, <2>3
  <2>5. QED
    BY <1>1, <2>2, <2>4
<1>4. loc'.refresh \in Issued' \union {None}
  <2>1. CASE UserFetched(t)
    BY <1>1, <2>1 DEF UserFetched, SignedIn, TypeOK
  <2>2. CASE ContextRefreshed(t) \/ ClientRefreshed(t)
    <3>1. ContextRefreshed(t) => loc'.refresh = op[t].new /\ op[t].new \in Issued
      BY DEF ContextRefreshed, TypeOK
    <3>2. ClientRefreshed(t) => loc'.refresh = loc.refresh
      BY DEF ClientRefreshed, TypeOK
    <3>3. QED
      BY <1>1, <2>2, <3>1, <3>2
  <2>3. CASE Clear(t) \/ RefreshGivenUp(t)
    BY <1>1, <2>3 DEF Clear, Nothing, RefreshGivenUp, browser, TypeOK
  <2>4. CASE ~(UserFetched(t) \/ ContextRefreshed(t) \/ ClientRefreshed(t) \/ Clear(t) \/ RefreshGivenUp(t))
    <3>1. UNCHANGED loc
      BY <2>4, StepFrames
    <3>2. QED
      BY <1>1, <3>1
  <2>5. QED
    BY <2>1, <2>2, <2>3, <2>4
<1>5. QED
  BY <1>2, <1>3, <1>4

LEMMA OpsStep ==
  ASSUME Structure, NEW t \in Tabs, Start(t) \/ Proceed(t) \/ Reload(t) \/ NewTab(t)
  PROVE  OpsOK'
<1>1. /\ op' \in [Tabs -> Operations] /\ op \in [Tabs -> Operations]
      /\ \A s \in Tabs \ {t} : op'[s] = op[s]
  BY OneOperation DEF Structure, TypeOK
<1>2. Issued \subseteq Issued' /\ \A m \in Issued : owner'[m] = owner[m] /\ root'[m] = root[m]
  BY PairsStay
<1>3. \A s \in Tabs \ {t} : OpOK(op[s])'
  BY <1>1, <1>2 DEF Structure, OpsOK, OpOK
<1>4. OpOK(op[t])'
  <2> USE <1>1, <1>2 DEF Structure, TypeOK, OpsOK, OpOK, Refreshes, At
  <2>1. op'[t] = Idle => OpOK(op[t])'
    BY DEF Idle
  <2>2. CASE Start(t)
    <3>1. ASSUME NEW a \in Accounts, StartLogin(t, a) \/ StartRegister(t, a) PROVE OpOK(op[t])'
      <4>1. CASE StartLogin(t, a)
        BY <4>1 DEF StartLogin, Idle
      <4>2. CASE StartRegister(t, a)
        BY <4>2 DEF StartRegister, Idle
      <4>3. QED
        BY <3>1, <4>1, <4>2
    <3>2. CASE StartLogout(t)
      BY <3>2 DEF StartLogout, LogoutFrom, Idle, IssuedOK
    <3>3. ASSUME NEW kind \in Refreshes, StartRefresh(t, kind) PROVE OpOK(op[t])'
      BY <3>3 DEF StartRefresh, Idle, IssuedOK
    <3>4. QED
      BY <2>2, <3>1, <3>2, <3>3 DEF Start
  <2>3. CASE Registered(t) \/ RevokeFails(t) \/ ServerRevokes(t) \/ AxiosRefreshed(t)
    <3>1. CASE Registered(t)
      BY <3>1 DEF Registered, Goto, Operations
    <3>2. CASE RevokeFails(t) \/ ServerRevokes(t)
      <4>1. op[t].stage = "revoke" /\ Finish(t, "clear")
        BY <3>2 DEF RevokeFails, ServerRevokes
      <4>2. op[t].kind \notin Refreshes
        BY <4>1
      <4>3. QED
        BY <4>1, <4>2 DEF Finish, Idle
    <3>3. CASE AxiosRefreshed(t)
      BY <3>3 DEF AxiosRefreshed, Finish, Idle
    <3>4. QED
      BY <2>3, <3>1, <3>2, <3>3
  <2>4. CASE TokensIssued(t)
    <3>1. PICK n \in Fresh : Issue(n, op[t].account, None) /\ op' = [op EXCEPT ![t].stage = "user", ![t].new = n]
      BY <2>4 DEF TokensIssued
    <3>2. n \in Issued' /\ owner'[n] = op[t].account
      BY <2>4, <3>1, Issuing DEF TokensIssued, Fresh
    <3>3. /\ op'[t].stage = "user" /\ op'[t].kind = op[t].kind /\ op'[t].account = op[t].account
          /\ op'[t].old = op[t].old /\ op'[t].new = n
      BY <3>1 DEF Operations
    <3>4. QED
      BY <2>4, <3>2, <3>3 DEF TokensIssued
  <2>5. CASE ServerRotates(t)
    <3>1. PICK n \in Fresh : /\ Issue(n, owner[op[t].old], root[op[t].old])
                             /\ op' = [op EXCEPT ![t].stage = "answered", ![t].new = n]
      BY <2>5 DEF ServerRotates
    <3>2. op[t].old \in Issued /\ root[op[t].old] \in Issued /\ owner[op[t].old] \in Accounts
      BY <2>5 DEF ServerRotates, IssuedOK, Issued
    <3>3. n \in Issued' /\ owner'[n] = owner[op[t].old] /\ root'[n] = root[op[t].old]
      BY <3>1, <3>2, Issuing, AuthAssumption DEF Fresh, Issued, Pairs
    <3>4. /\ op'[t].stage = "answered" /\ op'[t].kind = op[t].kind
          /\ op'[t].old = op[t].old /\ op'[t].new = n
      BY <3>1 DEF Operations
    <3>5. QED
      BY <2>5, <3>2, <3>3, <3>4 DEF ServerRotates
  <2>6. CASE ServerChecks(t)
    <3>1. CASE Goto(t, "rotate")
      BY <2>6, <3>1 DEF ServerChecks, Goto
    <3>2. CASE Finish(t, "failed")
      BY <2>6, <3>2 DEF ServerChecks, Finish, Idle
    <3>3. QED
      BY <2>6, <3>1, <3>2 DEF ServerChecks
  <2>7. CASE RefreshFails(t)
    BY <2>7 DEF RefreshFails, Finish, Idle
  <2>8. CASE RefreshGivenUp(t)
    <3>1. CASE op' = [op EXCEPT ![t] = [Idle EXCEPT !.kind = "logout", !.stage = LogoutFrom, !.old = loc.refresh]]
      BY <3>1 DEF LogoutFrom, Idle, IssuedOK
    <3>2. QED
      BY <2>1, <2>8, <3>1 DEF RefreshGivenUp, End
  <2>9. CASE SignInFails(t) \/ UserFetched(t) \/ UserNotFetched(t) \/ Clear(t) \/ ContextRefreshed(t) \/ ClientRefreshed(t)
             \/ Reload(t) \/ NewTab(t)
    BY <2>1, <2>9 DEF SignInFails, UserFetched, UserNotFetched, Clear, ContextRefreshed, ClientRefreshed,
                      Reload, NewTab, Forget, End
  <2>10. QED
    BY <2>2, <2>3, <2>4, <2>5, <2>6, <2>7, <2>8, <2>9 DEF Proceed
<1>5. QED
  BY <1>3, <1>4 DEF OpsOK

LEMMA StructureStep ==
  ASSUME Structure, [Next]_vars
  PROVE  Structure'
<1>1. CASE UNCHANGED vars
  BY <1>1 DEF Structure, TypeOK, IssuedOK, OpsOK, OpOK, Issued, vars, server, browser, history
<1>2. ASSUME NEW t \in Tabs, Start(t) \/ Proceed(t) \/ Reload(t) \/ NewTab(t)
      PROVE  Structure'
  BY <1>2, TypeStep, IssuedStep, OpsStep DEF Structure
<1>3. QED
  BY <1>1, <1>2 DEF Next

\* The variables keep their types.
THEOREM AuthTypeCorrect == Spec => []TypeOK
<1>1. Structure => TypeOK
  BY DEF Structure
<1>2. QED
  BY StructureInit, StructureStep, <1>1, PTL DEF Spec

(***************************************************************************)
(* Second layer: who knows the valid refresh token of a sign-in.           *)
(***************************************************************************)

SetAside == raced \union adrift

\* A token that has just been issued is valid, and only the operation that
\* waits for it knows it.
NewIsUnshared ==
  \A t \in Tabs : At(t, "user") \/ At(t, "answered") =>
    /\ op[t].new \in live /\ op[t].new # loc.refresh
    /\ \A s \in Tabs : op[s].old # op[t].new
    /\ \A s \in Tabs \ {t} : op[s].new # op[t].new

\* Rotations of one sign-in under way are of one token, and no other token of
\* the sign-in is valid.
RotatesTheLiveOne ==
  \A t \in Tabs : At(t, "rotate") /\ root[op[t].old] \notin raced =>
    /\ \A m \in live : root[m] = root[op[t].old] => m = op[t].old
    /\ \A s \in Tabs : At(s, "rotate") /\ root[op[s].old] = root[op[t].old] => op[s].old = op[t].old

\* What a logout is about to revoke is all there is of the sign-in.
RevokesTheLiveOne ==
  \A t \in Tabs : At(t, "revoke") /\ root[op[t].old] \notin SetAside =>
    \A m \in live : root[m] = root[op[t].old] => m = op[t].old

\* The valid token of the sign-in stored in the browser is the one stored, or
\* is on its way to a tab.
StoredOrComing ==
  loc.refresh # None /\ root[loc.refresh] \notin SetAside =>
    \A m \in live : root[m] = root[loc.refresh] =>
      m = loc.refresh \/ \E s \in Tabs : At(s, "answered") /\ op[s].new = m

\* A rotation of a sign-in that has been signed out is one of those the
\* logout overlapped.
LateRotation ==
  \A t \in Tabs : At(t, "rotate") /\ root[op[t].old] \in signedOut => root[op[t].old] \in SetAside

SignInsOK ==
  /\ OneLivePerSignIn /\ LogoutEndsSignIn
  /\ NewIsUnshared /\ RotatesTheLiveOne /\ RevokesTheLiveOne /\ StoredOrComing /\ LateRotation


USE DEF SetAside, At

LEMMA NoneIsNoPair == None \notin Issued
BY AuthAssumption DEF Issued, Pairs

\* A step of a tab that has no token of its own afterwards but the stored one,
\* and sets aside the one it gives up.
LEMMA QuietStep ==
  ASSUME Structure, SignInsOK, NEW t \in Tabs,
         op \in [Tabs -> Operations], op' \in [Tabs -> Operations], \A s \in Tabs \ {t} : op'[s] = op[s],
         op'[t].stage \notin {"user", "revoke", "rotate", "answered"}, op'[t].new = None,
         op'[t].old \in {op[t].old, loc.refresh, None},
         loc'.refresh \in {loc.refresh, None},
         live' = live, root' = root, raced' = raced, signedOut' = signedOut, adrift \subseteq adrift',
         At(t, "answered") => root[op[t].new] \in adrift'
  PROVE  SignInsOK'
<1> USE DEF SignInsOK
<1>1. OneLivePerSignIn' /\ LogoutEndsSignIn'
  BY DEF OneLivePerSignIn, LogoutEndsSignIn
<1>2. NewIsUnshared'
  BY NoneIsNoPair DEF NewIsUnshared, Structure, OpsOK, OpOK
<1>3. RotatesTheLiveOne' /\ LateRotation'
  BY DEF RotatesTheLiveOne, LateRotation
<1>4. RevokesTheLiveOne'
  BY DEF RevokesTheLiveOne
<1>5. StoredOrComing'
  BY DEF StoredOrComing
<1>6. QED
  BY <1>1, <1>2, <1>3, <1>4, <1>5

\* A pair issued to a sign-in of its own disturbs no other.
LEMMA SignInStep ==
  ASSUME Structure, SignInsOK, NEW t \in Tabs, TokensIssued(t) \/ SignInFails(t), Structure',
         op \in [Tabs -> Operations], op' \in [Tabs -> Operations], \A s \in Tabs \ {t} : op'[s] = op[s]
  PROVE  SignInsOK'
<1> USE DEF SignInsOK
<1>1. CASE UNCHANGED server
  <2>1. ~TokensIssued(t)
    <3> SUFFICES ASSUME TokensIssued(t) PROVE FALSE
      OBVIOUS
    <3>1. op[t].account \in Accounts
      BY DEF TokensIssued, Structure, OpsOK, OpOK
    <3>2. PICK n \in Pairs : Issue(n, op[t].account, None)
      BY DEF TokensIssued, Fresh
    <3>3. n \notin Issued /\ n \in Issued'
      BY <3>1, <3>2, Issuing
    <3>4. QED
      BY <1>1, <3>3 DEF server, Issued
  <2>2. op'[t] = Idle /\ op[t].stage \in {"signup", "credentials"} /\ UNCHANGED <<server, browser, history>>
    BY <1>1, <2>1 DEF SignInFails, End
  <2>3. QED
    BY <2>2, QuietStep DEF Idle, server, browser, history
<1>2. CASE ~UNCHANGED server
  <2>1. PICK n \in Fresh : /\ Issue(n, op[t].account, None) /\ live' = live \union {n}
                           /\ op' = [op EXCEPT ![t].stage = "user", ![t].new = n] \/ End(t)
    BY <1>2 DEF TokensIssued, SignInFails
  <2>2. op[t].stage = "credentials" /\ op[t].account \in Accounts /\ UNCHANGED <<browser, history>>
    BY <1>2 DEF TokensIssued, SignInFails, Structure, OpsOK, OpOK
  <2>3. /\ n \in Pairs /\ n \notin Issued /\ n # None /\ root'[n] = n
        /\ \A m \in Issued : root'[m] = root[m] /\ root[m] \in Issued
    BY <2>1, <2>2, Issuing DEF Fresh, Structure, IssuedOK, Issued
  <2>4. /\ live \subseteq Issued /\ raced \union adrift \union signedOut \subseteq Issued
        /\ loc.refresh \in Issued \union {None}
    BY DEF Structure, IssuedOK
  <2>5. \/ op'[t] = Idle
        \/ op'[t].stage = "user" /\ op'[t].new = n /\ op'[t].old = None
    <3>1. op[t].old = None
      BY <2>2 DEF Structure, OpsOK, OpOK
    <3>2. QED
      BY <2>1, <3>1 DEF End, Operations
  <2>6. OneLivePerSignIn' /\ LogoutEndsSignIn'
    BY <2>1, <2>2, <2>3, <2>4 DEF OneLivePerSignIn, LogoutEndsSignIn, history
  <2>7. NewIsUnshared'
    BY <2>1, <2>2, <2>3, <2>4, <2>5, NoneIsNoPair DEF NewIsUnshared, Structure, OpsOK, OpOK, browser, Idle
  <2>8. RotatesTheLiveOne' /\ LateRotation' /\ RevokesTheLiveOne'
    BY <2>1, <2>2, <2>3, <2>4, <2>5 DEF RotatesTheLiveOne, LateRotation, RevokesTheLiveOne, Structure, OpsOK, OpOK, Idle, history
  <2>9. StoredOrComing'
    BY <2>1, <2>2, <2>3, <2>4, <2>5 DEF StoredOrComing, browser, history
  <2>10. QED
    BY <2>6, <2>7, <2>8, <2>9
<1>3. QED
  BY <1>1, <1>2

\* The tokens of a sign-in are stored: only this tab knew them.
LEMMA StoreStep ==
  ASSUME Structure, SignInsOK, NEW t \in Tabs,
         op \in [Tabs -> Operations], op' = [op EXCEPT ![t] = Idle],
         At(t, "user") \/ At(t, "answered"), loc'.refresh = op[t].new,
         UNCHANGED <<live, root, raced, adrift, signedOut>>
  PROVE  SignInsOK'
<1> USE DEF SignInsOK
<1>1. op[t].new \in live /\ op[t].new # None /\ \A s \in Tabs \ {t} : op'[s] = op[s]
  BY NoneIsNoPair DEF NewIsUnshared, Structure, IssuedOK
<1>2. op'[t] = Idle
  OBVIOUS
<1>3. OneLivePerSignIn' /\ LogoutEndsSignIn'
  BY DEF OneLivePerSignIn, LogoutEndsSignIn
<1>4. NewIsUnshared'
  BY <1>1, <1>2, NoneIsNoPair DEF NewIsUnshared, Structure, OpsOK, OpOK, Idle
<1>5. RotatesTheLiveOne' /\ LateRotation' /\ RevokesTheLiveOne'
  BY <1>1, <1>2 DEF RotatesTheLiveOne, LateRotation, RevokesTheLiveOne, Idle
<1>6. StoredOrComing'
  BY <1>1 DEF StoredOrComing, OneLivePerSignIn
<1>7. QED
  BY <1>3, <1>4, <1>5, <1>6

\* logout() takes the stored token to the server.
LEMMA LogoutStep ==
  ASSUME Structure, SignInsOK, NEW t \in Tabs, op \in [Tabs -> Operations],
         op' = [op EXCEPT ![t] = [Idle EXCEPT !.kind = "logout", !.stage = LogoutFrom, !.old = loc.refresh]],
         ~At(t, "answered"), adrift' = CutAdrift(t, loc.refresh, {"answered"}),
         UNCHANGED <<live, root, loc, raced, signedOut>>
  PROVE  SignInsOK'
<1> USE DEF SignInsOK
<1>1. /\ \A s \in Tabs \ {t} : op'[s] = op[s]
      /\ op'[t].kind = "logout" /\ op'[t].stage = LogoutFrom /\ op'[t].old = loc.refresh /\ op'[t].new = None
  BY DEF Idle
<1>2. (op'[t].stage = "revoke" /\ loc.refresh # None) \/ op'[t].stage = "clear"
  BY <1>1 DEF LogoutFrom
<1>3. adrift \subseteq adrift'
  BY DEF CutAdrift
<1>4. OneLivePerSignIn' /\ LogoutEndsSignIn'
  BY <1>3 DEF OneLivePerSignIn, LogoutEndsSignIn
<1>5. NewIsUnshared'
  BY <1>1, <1>2, NoneIsNoPair DEF NewIsUnshared, Structure, OpsOK, OpOK
<1>6. RotatesTheLiveOne' /\ LateRotation'
  BY <1>1, <1>2, <1>3 DEF RotatesTheLiveOne, LateRotation
<1>7. StoredOrComing'
  BY <1>1, <1>3 DEF StoredOrComing
<1>8. RevokesTheLiveOne'
  <2>1. ASSUME loc.refresh # None, root[loc.refresh] \notin raced \union adrift',
               NEW m \in live, root[m] = root[loc.refresh]
        PROVE  m = loc.refresh
    <3>1. ASSUME NEW s \in Tabs, op[s].stage = "answered", op[s].new = m PROVE FALSE
      <4>1. s # t /\ op[s].kind \in Refreshes /\ root[op[s].old] = root[m]
        BY <3>1 DEF Structure, OpsOK, OpOK
      <4>2. root[op[s].old] \in CutAdrift(t, loc.refresh, {"answered"})
        BY <2>1, <3>1, <4>1 DEF CutAdrift
      <4>3. QED
        BY <2>1, <4>1, <4>2
    <3>2. QED
      BY <1>3, <2>1, <3>1 DEF StoredOrComing
  <2>2. QED
    BY <1>1, <1>2, <1>3, <2>1 DEF RevokesTheLiveOne
<1>9. QED
  BY <1>4, <1>5, <1>6, <1>7, <1>8

LEMMA RevokeStep ==
  ASSUME Structure, SignInsOK, NEW t \in Tabs, ServerRevokes(t), op \in [Tabs -> Operations]
  PROVE  SignInsOK'
<1> USE DEF SignInsOK
<1> DEFINE x == op[t].old
<1>1. /\ op[t].stage = "revoke" /\ live' = live \ {x} /\ signedOut' = signedOut \union {root[x]}
      /\ adrift' = CutAdrift(t, x, {"rotate"}) /\ UNCHANGED <<root, loc, raced>>
  BY DEF ServerRevokes, browser
<1>2. /\ \A s \in Tabs \ {t} : op'[s] = op[s]
      /\ op'[t].stage = "clear" /\ op'[t].old = None /\ op'[t].new = None
  BY DEF ServerRevokes, Finish, Idle
<1>3. adrift \subseteq adrift' /\ x \in Issued
  BY <1>1 DEF CutAdrift, Structure, OpsOK, OpOK
<1>4. OneLivePerSignIn' /\ StoredOrComing' /\ RevokesTheLiveOne'
  BY <1>1, <1>2, <1>3 DEF OneLivePerSignIn, StoredOrComing, RevokesTheLiveOne
<1>5. NewIsUnshared'
  BY <1>1, <1>2, NoneIsNoPair DEF NewIsUnshared, Structure, OpsOK, OpOK
<1>6. RotatesTheLiveOne'
  BY <1>1, <1>2 DEF RotatesTheLiveOne
<1>7. LogoutEndsSignIn'
  BY <1>1, <1>3 DEF LogoutEndsSignIn, RevokesTheLiveOne
<1>8. LateRotation'
  <2>1. ASSUME NEW s \in Tabs, op'[s].stage = "rotate", root[op'[s].old] = root[x]
        PROVE  root[x] \in adrift'
    <3>1. s # t /\ op[s] = op'[s] /\ op[s].kind \in Refreshes
      BY <1>2, <2>1 DEF Structure, OpsOK, OpOK
    <3>2. QED
      BY <1>1, <1>3, <2>1, <3>1, NoneIsNoPair DEF CutAdrift
  <2>2. QED
    BY <1>1, <1>2, <1>3, <2>1 DEF LateRotation
<1>9. QED
  BY <1>4, <1>5, <1>6, <1>7, <1>8

LEMMA CheckStep ==
  ASSUME Structure, SignInsOK, NEW t \in Tabs, ServerChecks(t),
         op \in [Tabs -> Operations], op' \in [Tabs -> Operations]
  PROVE  SignInsOK'
<1>1. UNCHANGED <<server, browser, history>> /\ op[t].stage = "check"
  BY DEF ServerChecks
<1>2. CASE op[t].old \notin live
  BY <1>1, <1>2, QuietStep DEF ServerChecks, Finish, Idle, server, browser, history
<1>3. CASE op[t].old \in live
  <2> USE DEF SignInsOK, server, browser, history
  <2>1. /\ \A s \in Tabs \ {t} : op'[s] = op[s]
        /\ op'[t].stage = "rotate" /\ op'[t].old = op[t].old /\ op'[t].new = op[t].new
    BY <1>3 DEF ServerChecks, Goto, Operations
  <2>2. OneLivePerSignIn' /\ LogoutEndsSignIn' /\ StoredOrComing' /\ RevokesTheLiveOne'
    BY <1>1, <2>1 DEF OneLivePerSignIn, LogoutEndsSignIn, StoredOrComing, RevokesTheLiveOne
  <2>3. NewIsUnshared'
    BY <1>1, <2>1 DEF NewIsUnshared
  <2>4. RotatesTheLiveOne'
    BY <1>1, <1>3, <2>1 DEF RotatesTheLiveOne, OneLivePerSignIn
  <2>5. LateRotation'
    BY <1>1, <1>3, <2>1 DEF LateRotation, LogoutEndsSignIn
  <2>6. QED
    BY <2>2, <2>3, <2>4, <2>5
<1>4. QED
  BY <1>2, <1>3

\* The new token takes the place of the old one.
LEMMA RotateStep ==
  ASSUME Structure, Structure', SignInsOK, NEW t \in Tabs, ServerRotates(t), op \in [Tabs -> Operations]
  PROVE  SignInsOK'
<1> USE DEF SignInsOK
<1> DEFINE x == op[t].old
           r == root[x]
<1>1. PICK n \in Fresh : /\ Issue(n, owner[x], r) /\ live' = (live \union {n}) \ {x}
                         /\ op' = [op EXCEPT ![t].stage = "answered", ![t].new = n]
  BY DEF ServerRotates
<1>2. /\ op[t].stage = "rotate" /\ op[t].kind \in Refreshes /\ UNCHANGED <<browser, signedOut>>
      /\ raced' = (IF Overlapping(t) THEN raced \union {r} ELSE raced) /\ adrift' = CutAdrift(t, x, {"revoke"})
  BY DEF ServerRotates, Structure, OpsOK, OpOK
<1>3. x \in Issued /\ r \in Issued /\ owner[x] \in Accounts
  BY <1>2 DEF Structure, OpsOK, OpOK, IssuedOK, Issued, TypeOK
<1>4. /\ n \in Pairs /\ n \notin Issued /\ n # None /\ n # x /\ root'[n] = r
      /\ \A m \in Issued : root'[m] = root[m] /\ root[m] \in Issued
  BY <1>1, <1>3, Issuing, NoneIsNoPair DEF Fresh, Structure, IssuedOK, Issued
<1>5. /\ live \subseteq Issued /\ raced \union adrift \union signedOut \subseteq Issued
      /\ loc.refresh \in Issued \union {None}
  BY DEF Structure, IssuedOK
<1>6. raced \subseteq raced' /\ raced' \subseteq raced \union {r} /\ adrift \subseteq adrift'
  BY <1>2 DEF CutAdrift
<1>7. /\ \A s \in Tabs \ {t} : op'[s] = op[s]
      /\ op'[t].stage = "answered" /\ op'[t].old = x /\ op'[t].new = n
  BY <1>1 DEF Operations
<1>8. r \notin raced' => \A m \in live' : root'[m] = r => m = n
  BY <1>1, <1>2, <1>4, <1>5, <1>6 DEF RotatesTheLiveOne
<1>9. OneLivePerSignIn' /\ LogoutEndsSignIn'
  <2>1. OneLivePerSignIn'
    BY <1>1, <1>4, <1>5, <1>6, <1>8 DEF OneLivePerSignIn
  <2>2. LogoutEndsSignIn'
    BY <1>1, <1>2, <1>4, <1>5, <1>6 DEF LogoutEndsSignIn, LateRotation
  <2>3. QED
    BY <2>1, <2>2
<1>10. NewIsUnshared'
  BY <1>1, <1>2, <1>3, <1>4, <1>5, <1>7 DEF NewIsUnshared, Structure, OpsOK, OpOK, browser
<1>11. RotatesTheLiveOne'
  <2>1. ASSUME NEW s \in Tabs, s # t, op[s].stage = "rotate", root[op[s].old] = r PROVE r \in raced'
    BY <1>2, <2>1 DEF RotatesTheLiveOne, Overlapping
  <2>2. \A s \in Tabs : op[s].stage = "rotate" => op[s].old \in Issued
    BY DEF Structure, OpsOK, OpOK
  <2>3. QED
    BY <1>1, <1>4, <1>5, <1>6, <1>7, <2>1, <2>2 DEF RotatesTheLiveOne
<1>12. RevokesTheLiveOne'
  <2>1. \A s \in Tabs : op[s].stage = "revoke" => op[s].old \in Issued
    BY DEF Structure, OpsOK, OpOK
  <2>2. ASSUME NEW s \in Tabs, op'[s].stage = "revoke", root[op[s].old] = r PROVE r \in adrift'
    BY <1>2, <1>3, <1>7, <2>2, NoneIsNoPair DEF CutAdrift
  <2>3. QED
    BY <1>1, <1>4, <1>5, <1>6, <1>7, <2>1, <2>2 DEF RevokesTheLiveOne
<1>13. LateRotation'
  <2>1. \A s \in Tabs : op[s].stage = "rotate" => op[s].old \in Issued
    BY DEF Structure, OpsOK, OpOK
  <2>2. QED
    BY <1>2, <1>4, <1>6, <1>7, <2>1 DEF LateRotation
<1>14. StoredOrComing'
  BY <1>1, <1>2, <1>4, <1>5, <1>6, <1>7, <1>8 DEF StoredOrComing, browser
<1>15. QED
  BY <1>9, <1>10, <1>11, <1>12, <1>13, <1>14

\* A rotation that fails may leave the old token valid next to a new one: the
\* sign-in is set aside.
LEMMA FailStep ==
  ASSUME Structure, Structure', SignInsOK, NEW t \in Tabs, RefreshFails(t),
         op \in [Tabs -> Operations], op' \in [Tabs -> Operations]
  PROVE  SignInsOK'
<1> USE DEF SignInsOK
<1> DEFINE x == op[t].old
           r == root[x]
<1>1. /\ \A s \in Tabs \ {t} : op'[s] = op[s]
      /\ op'[t].stage = "failed" /\ op'[t].old = None /\ op'[t].new = None
      /\ op[t].stage \in {"check", "rotate"} /\ UNCHANGED <<browser, adrift, signedOut>>
  BY DEF RefreshFails, Finish, Idle
<1>2. CASE UNCHANGED <<server, raced>>
  BY <1>1, <1>2, QuietStep DEF server, browser
<1>3. CASE ~UNCHANGED <<server, raced>>
  <2>1. PICK n \in Fresh : Issue(n, owner[x], r) /\ live' \in {live \union {n}, (live \union {n}) \ {x}}
    BY <1>3 DEF RefreshFails
  <2>2. op[t].stage = "rotate" /\ raced' = raced \union {r}
    BY <1>3 DEF RefreshFails
  <2>3. x \in Issued /\ r \in Issued /\ owner[x] \in Accounts
    BY <2>2 DEF Structure, OpsOK, OpOK, IssuedOK, Issued, TypeOK
  <2>4. /\ n \in Pairs /\ n \notin Issued /\ n # None /\ n # x /\ root'[n] = r
        /\ \A m \in Issued : root'[m] = root[m] /\ root[m] \in Issued
    BY <2>1, <2>3, Issuing, NoneIsNoPair DEF Fresh, Structure, IssuedOK, Issued
  <2>5. /\ live \subseteq Issued /\ live' \subseteq live \union {n} /\ live \ {x} \subseteq live'
        /\ raced \union adrift \union signedOut \subseteq Issued /\ loc.refresh \in Issued \union {None}
    BY <2>1 DEF Structure, IssuedOK
  <2>6. OneLivePerSignIn' /\ LogoutEndsSignIn'
    BY <1>1, <2>2, <2>4, <2>5 DEF OneLivePerSignIn, LogoutEndsSignIn
  <2>7. NewIsUnshared'
    BY <1>1, <2>2, <2>5, NoneIsNoPair DEF NewIsUnshared, Structure, OpsOK, OpOK, browser
  <2>8. \A s \in Tabs : op[s].stage \in {"rotate", "revoke"} => op[s].old \in Issued
    BY DEF Structure, OpsOK, OpOK
  <2>9. RotatesTheLiveOne' /\ LateRotation' /\ RevokesTheLiveOne'
    BY <1>1, <2>2, <2>4, <2>5, <2>8 DEF RotatesTheLiveOne, LateRotation, RevokesTheLiveOne
  <2>10. StoredOrComing'
    BY <1>1, <2>2, <2>4, <2>5 DEF StoredOrComing, browser
  <2>11. QED
    BY <2>6, <2>7, <2>9, <2>10
<1>4. QED
  BY <1>2, <1>3

LEMMA SignInsInit == Init => SignInsOK
BY DEF Init, SignInsOK, OneLivePerSignIn, LogoutEndsSignIn, NewIsUnshared, RotatesTheLiveOne, RevokesTheLiveOne,
       StoredOrComing, LateRotation, Idle, Nothing

LEMMA SignInsStep ==
  ASSUME Structure, SignInsOK, [Next]_vars
  PROVE  SignInsOK'
<1>1. CASE UNCHANGED vars
  BY <1>1 DEF SignInsOK, OneLivePerSignIn, LogoutEndsSignIn, NewIsUnshared, RotatesTheLiveOne, RevokesTheLiveOne,
              StoredOrComing, LateRotation, vars, server, browser, history
<1>2. ASSUME NEW t \in Tabs, Start(t) \/ Proceed(t) \/ Reload(t) \/ NewTab(t)
      PROVE  SignInsOK'
  <2>1. /\ op \in [Tabs -> Operations] /\ op' \in [Tabs -> Operations] /\ \A s \in Tabs \ {t} : op'[s] = op[s]
        /\ Structure'
    BY <1>2, OneOperation, StructureStep DEF Structure, TypeOK, Next
  <2> USE <2>1
  <2>2. CASE Start(t)
    <3>1. ASSUME NEW a \in Accounts, StartLogin(t, a) \/ StartRegister(t, a) PROVE SignInsOK'
      <4>1. op'[t].stage \in {"credentials", "signup"} /\ op'[t].old = None /\ op'[t].new = None
        BY <3>1 DEF StartLogin, StartRegister, Idle
      <4>2. op[t].stage = "none" /\ UNCHANGED <<server, browser, history>>
        BY <3>1 DEF StartLogin, StartRegister, LoginForm, RegisterForm
      <4>3. QED
        BY <4>1, <4>2, QuietStep DEF server, browser, history
    <3>2. CASE StartLogout(t)
      BY <3>2, LogoutStep DEF StartLogout, server, browser
    <3>3. ASSUME NEW kind \in Refreshes, StartRefresh(t, kind) PROVE SignInsOK'
      <4>1. op'[t].stage \in {"check", "clear", "failed", "none"} /\ op'[t].old \in {loc.refresh, None} /\ op'[t].new = None
        BY <3>3 DEF StartRefresh, Idle
      <4>2. op[t].stage = "none" /\ UNCHANGED <<server, browser, history>>
        BY <3>3 DEF StartRefresh
      <4>3. QED
        BY <4>1, <4>2, QuietStep DEF server, browser, history
    <3>4. QED
      BY <2>2, <3>1, <3>2, <3>3 DEF Start
  <2>3. CASE TokensIssued(t) \/ SignInFails(t)
    BY <2>3, SignInStep
  <2>4. CASE ServerRevokes(t) \/ ServerChecks(t) \/ ServerRotates(t) \/ RefreshFails(t)
    BY <2>4, RevokeStep, CheckStep, RotateStep, FailStep
  <2>5. CASE Registered(t) \/ RevokeFails(t) \/ UserNotFetched(t) \/ Clear(t)
    <3>1. op'[t].stage \in {"credentials", "clear", "none"} /\ op'[t].old \in {op[t].old, None} /\ op'[t].new = None
      <4>1. CASE Registered(t)
        BY <4>1 DEF Registered, Goto, Operations, Structure, OpsOK, OpOK
      <4>2. CASE RevokeFails(t)
        BY <4>2 DEF RevokeFails, Finish, Idle
      <4>3. CASE UserNotFetched(t) \/ Clear(t)
        BY <4>3 DEF UserNotFetched, Clear, End, Idle
      <4>4. QED
        BY <2>5, <4>1, <4>2, <4>3
    <3>2. loc'.refresh \in {loc.refresh, None} /\ UNCHANGED <<server, raced, signedOut, adrift>> /\ op[t].stage # "answered"
      BY <2>5 DEF Registered, RevokeFails, UserNotFetched, Clear, Nothing, browser, history
    <3>3. QED
      BY <3>1, <3>2, QuietStep DEF server
  <2>6. CASE UserFetched(t)
    <3>1. CASE op[t].kind = "login"
      BY <2>6, <3>1, StoreStep DEF UserFetched, SignedIn, End, server
    <3>2. CASE op[t].kind # "login"
      BY <2>6, <3>2, QuietStep DEF UserFetched, SignedIn, End, Idle, server
    <3>3. QED
      BY <3>1, <3>2
  <2>7. CASE ContextRefreshed(t)
    <3>1. loc'.refresh = op[t].new
      BY <2>7 DEF ContextRefreshed, Structure, TypeOK
    <3>2. QED
      BY <2>7, <3>1, StoreStep DEF ContextRefreshed, End, server, history
  <2>8. CASE ClientRefreshed(t) \/ AxiosRefreshed(t)
    <3>1. op'[t].stage \in {"failed", "none"} /\ op'[t].old = None /\ op'[t].new = None
      <4>1. CASE ClientRefreshed(t)
        BY <4>1 DEF ClientRefreshed, End, Idle
      <4>2. CASE AxiosRefreshed(t)
        BY <4>2 DEF AxiosRefreshed, Finish, Idle
      <4>3. QED
        BY <2>8, <4>1, <4>2
    <3>2. /\ loc'.refresh = loc.refresh /\ UNCHANGED <<server, raced, signedOut>>
          /\ adrift' = adrift \union {root[op[t].new]}
      BY <2>8 DEF ClientRefreshed, AxiosRefreshed, browser, Structure, TypeOK
    <3>3. QED
      BY <3>1, <3>2, QuietStep DEF server
  <2>9. CASE RefreshGivenUp(t)
    <3>1. CASE op[t].kind = "context"
      BY <2>9, <3>1, LogoutStep DEF RefreshGivenUp, server, browser
    <3>2. CASE op[t].kind # "context"
      <4>1. /\ op'[t] = Idle /\ loc'.refresh \in {loc.refresh, None} /\ op[t].stage = "failed"
            /\ UNCHANGED <<server, raced, signedOut, adrift>>
        BY <2>9, <3>2 DEF RefreshGivenUp, End, browser, Structure, TypeOK
      <4>2. QED
        BY <4>1, QuietStep DEF server, Idle
    <3>3. QED
      BY <3>1, <3>2
  <2>10. CASE Reload(t) \/ NewTab(t)
    <3>1. /\ op'[t] = Idle /\ UNCHANGED <<server, loc, raced, signedOut>>
          /\ adrift' = IF op[t].stage = "answered" THEN adrift \union {root[op[t].new]} ELSE adrift
      BY <2>10 DEF Reload, NewTab, Forget, End
    <3>2. QED
      BY <3>1, QuietStep DEF server, Idle
  <2>11. QED
    BY <1>2, <2>2, <2>3, <2>4, <2>5, <2>6, <2>7, <2>8, <2>9, <2>10 DEF Proceed
<1>3. QED
  BY <1>1, <1>2 DEF Next

LEMMA SignInsAlways == Spec => [](Structure /\ SignInsOK)
<1>1. (Structure /\ SignInsOK) /\ [Next]_vars => (Structure /\ SignInsOK)'
  BY StructureStep, SignInsStep
<1>2. QED
  BY StructureInit, SignInsInit, <1>1, PTL DEF Spec

\* However often and from however many tabs a sign-in is refreshed, it has one
\* valid refresh token, as long as no two rotations overlapped or one failed
\* between its INSERT and its UPDATE.
THEOREM OneTokenPerSignIn == Spec => []OneLivePerSignIn
<1>1. Structure /\ SignInsOK => OneLivePerSignIn
  BY DEF SignInsOK
<1>2. QED
  BY SignInsAlways, <1>1, PTL

\* A logout that the server has carried out leaves no valid refresh token of
\* the sign-in, but for the sign-ins that are set aside.
THEOREM LogoutIsFinal == Spec => []LogoutEndsSignIn
<1>1. Structure /\ SignInsOK => LogoutEndsSignIn
  BY DEF SignInsOK
<1>2. QED
  BY SignInsAlways, <1>1, PTL

(***************************************************************************)
(* Third layer: whose tokens they are.                                     *)
(***************************************************************************)

\* The provider refreshes the tokens of the stored user.
RefreshesStoredUser ==
  \A t \in Tabs : op[t].kind = "context" /\ op[t].old # None =>
    mixed \/ loc.user = None \/ owner[op[t].old] = loc.user

\* All tabs, and the refreshes under way in them, are of account a.
AllOf(a) ==
  /\ loc.token \in {a, None} /\ loc.user \in {a, None}
  /\ loc.refresh # None => owner[loc.refresh] = a
  /\ \A t \in Tabs :
       /\ {sess[t].token, state[t].token} \subseteq {a, None}
       /\ {sess[t].user, state[t].user} \subseteq {a, None, Temp}
       /\ op[t].kind \in Refreshes /\ op[t].old # None =>
            owner[op[t].old] = a /\ state[t].token = a

UsersOK ==
  /\ RefreshIsOfStoredUser /\ RefreshesStoredUser
  /\ ~divided => \E a \in Accounts \union {None} : AllOf(a)
LEMMA UsersInit == Init => UsersOK
<1> SUFFICES ASSUME Init PROVE UsersOK
  OBVIOUS
<1>1. AllOf(None)
  BY DEF Init, AllOf, Nothing, NoSess, Idle
<1>2. RefreshIsOfStoredUser /\ RefreshesStoredUser
  BY DEF Init, RefreshIsOfStoredUser, RefreshesStoredUser, Nothing, Idle
<1>3. QED
  BY <1>1, <1>2 DEF UsersOK

\* A step that leaves the browser alone and takes up no token but the stored one.
LEMMA TakeUpStep ==
  ASSUME Structure, UsersOK, NEW t \in Tabs, \A s \in Tabs \ {t} : op'[s] = op[s],
         \/ op'[t].old = None
         \/ op'[t].old = op[t].old /\ op'[t].kind = op[t].kind
         \/ op'[t].old = loc.refresh /\ (op'[t].kind = "logout" \/ state[t].token # None),
         UNCHANGED <<browser, divided, mixed>>, Issued \subseteq Issued', \A m \in Issued : owner'[m] = owner[m]
  PROVE  UsersOK'
<1> USE DEF browser
<1>1. /\ loc.refresh \in Issued \union {None}
      /\ \A s \in Tabs : op[s].old \in Issued \union {None}
  BY DEF Structure, IssuedOK, OpsOK, OpOK
<1>2. RefreshIsOfStoredUser'
  BY <1>1 DEF UsersOK, RefreshIsOfStoredUser
<1>3. RefreshesStoredUser'
  BY <1>1 DEF UsersOK, RefreshIsOfStoredUser, RefreshesStoredUser
<1>4. ASSUME NEW a \in Accounts \union {None}, AllOf(a)
      PROVE  AllOf(a)'
  <2>1. loc'.refresh # None => owner'[loc'.refresh] = a
    BY <1>1, <1>4 DEF AllOf
  <2>2. ASSUME NEW s \in Tabs, op'[s].kind \in Refreshes, op'[s].old # None
        PROVE  owner'[op'[s].old] = a /\ state'[s].token = a
    BY <1>1, <1>4, <2>2 DEF AllOf, Refreshes
  <2>3. QED
    BY <1>4, <2>1, <2>2 DEF AllOf
<1>5. QED
  BY <1>2, <1>3, <1>4 DEF UsersOK

\* The page loads anew, or a temporary user is put down.
LEMMA ReadStep ==
  ASSUME Structure, UsersOK, NEW t \in Tabs, UNCHANGED <<loc, owner, divided, mixed>>,
         op' = [op EXCEPT ![t] = Idle],
         \/ UNCHANGED sess /\ state' = [state EXCEPT ![t] = Stored(sess[t], loc)]
         \/ sess' = [sess EXCEPT ![t] = NoSess] /\ state' = [state EXCEPT ![t] = Stored(NoSess, loc)]
         \/ sess' = [sess EXCEPT ![t].user = Temp] /\ UNCHANGED state
  PROVE  UsersOK'
<1>1. /\ op \in [Tabs -> Operations] /\ op'[t] = Idle /\ \A s \in Tabs \ {t} : op'[s] = op[s]
  BY DEF Structure, TypeOK
<1>2. RefreshIsOfStoredUser' /\ RefreshesStoredUser'
  BY <1>1 DEF UsersOK, RefreshIsOfStoredUser, RefreshesStoredUser, Idle
<1>3. ASSUME NEW a \in Accounts \union {None}, AllOf(a)
      PROVE  AllOf(a)'
  <2> USE DEF AllOf, Structure, TypeOK
  <2>1. ASSUME NEW s \in Tabs
        PROVE  /\ {sess'[s].token, state'[s].token} \subseteq {a, None}
               /\ {sess'[s].user, state'[s].user} \subseteq {a, None, Temp}
    <3>1. CASE UNCHANGED sess /\ state' = [state EXCEPT ![t] = Stored(sess[t], loc)]
      BY <1>3, <3>1 DEF Stored, Or
    <3>2. CASE sess' = [sess EXCEPT ![t] = NoSess] /\ state' = [state EXCEPT ![t] = Stored(NoSess, loc)]
      BY <1>3, <3>2 DEF Stored, Or, NoSess
    <3>3. CASE sess' = [sess EXCEPT ![t].user = Temp] /\ UNCHANGED state
      BY <1>3, <3>3
    <3>4. QED
      BY <3>1, <3>2, <3>3
  <2>2. \A s \in Tabs \ {t} : state'[s] = state[s]
    OBVIOUS
  <2>3. QED
    BY <1>1, <1>3, <2>1, <2>2 DEF Idle
<1>4. QED
  BY <1>2, <1>3 DEF UsersOK

\* The tokens in the browser are cleared, or only the refresh token is.
LEMMA ForgetStep ==
  ASSUME Structure, UsersOK, NEW t \in Tabs, Clear(t) \/ (RefreshGivenUp(t) /\ op[t].kind = "axios")
  PROVE  UsersOK'
<1>1. /\ op \in [Tabs -> Operations] /\ op' = [op EXCEPT ![t] = Idle]
      /\ owner' = owner /\ divided' = divided
      /\ loc'.refresh = None
      /\ \/ loc'.user = None
         \/ loc'.user = loc.user /\ mixed' = mixed
      /\ loc'.token \in {loc.token, None}
  BY DEF Clear, RefreshGivenUp, End, Nothing, server, Structure, TypeOK
<1>2. op'[t] = Idle /\ \A s \in Tabs \ {t} : op'[s] = op[s]
  BY <1>1
<1>3. RefreshIsOfStoredUser' /\ RefreshesStoredUser'
  BY <1>1, <1>2 DEF UsersOK, RefreshIsOfStoredUser, RefreshesStoredUser, Idle
<1>4. ASSUME NEW a \in Accounts \union {None}, AllOf(a)
      PROVE  AllOf(a)'
  <2> USE DEF AllOf, Structure, TypeOK
  <2>1. ASSUME NEW s \in Tabs
        PROVE  /\ {sess'[s].token, state'[s].token} \subseteq {a, None}
               /\ {sess'[s].user, state'[s].user} \subseteq {a, None, Temp}
    <3>1. CASE Clear(t)
      BY <1>4, <3>1 DEF Clear, NoSess
    <3>2. CASE RefreshGivenUp(t) /\ op[t].kind = "axios"
      <4>1. /\ sess' = [sess EXCEPT ![t].token = None] /\ state' = [state EXCEPT ![t] = Stored(sess'[t], loc')]
            /\ loc'.token = loc.token /\ loc'.user = loc.user
        BY <3>2 DEF RefreshGivenUp
      <4>2. \A u \in Tabs : {sess'[u].token} \subseteq {a, None} /\ {sess'[u].user} \subseteq {a, None, Temp}
        BY <1>4, <4>1
      <4>3. QED
        BY <1>4, <4>1, <4>2 DEF Stored, Or
    <3>3. QED
      BY <3>1, <3>2
  <2>2. \A s \in Tabs \ {t} : state'[s] = state[s]
    BY DEF Clear, RefreshGivenUp
  <2>3. QED
    BY <1>1, <1>2, <1>4, <2>1, <2>2 DEF Idle
<1>5. QED
  BY <1>1, <1>3, <1>4 DEF UsersOK

\* The answer to a refresh is stored, by the provider or by the client.
LEMMA RefreshedStep ==
  ASSUME Structure, UsersOK, NEW t \in Tabs, ContextRefreshed(t) \/ ClientRefreshed(t)
  PROVE  UsersOK'
<1> DEFINE b == owner[op[t].new]
<1>1. /\ op \in [Tabs -> Operations] /\ op' = [op EXCEPT ![t] = Idle]
      /\ owner' = owner /\ divided' = divided /\ mixed' = mixed
      /\ op[t].stage = "answered" /\ op[t].kind \in Refreshes
  BY DEF ContextRefreshed, ClientRefreshed, End, server, history, Structure, TypeOK, Refreshes
<1>2. op'[t] = Idle /\ \A s \in Tabs \ {t} : op'[s] = op[s]
  BY <1>1
<1>3. /\ loc'.token = b /\ loc'.user = loc.user
      /\ \/ loc'.refresh = loc.refresh
         \/ op[t].kind = "context" /\ loc'.refresh = op[t].new
  <2>1. CASE ContextRefreshed(t)
    BY <2>1 DEF ContextRefreshed, Structure, TypeOK
  <2>2. CASE ClientRefreshed(t)
    BY <2>2 DEF ClientRefreshed, Structure, TypeOK
  <2>3. QED
    BY <2>1, <2>2
<1>4. op[t].old # None /\ b = owner[op[t].old]
  BY <1>1, NoneIsNoPair DEF Structure, OpsOK, OpOK
<1>5. RefreshIsOfStoredUser' /\ RefreshesStoredUser'
  BY <1>1, <1>2, <1>3, <1>4 DEF UsersOK, RefreshIsOfStoredUser, RefreshesStoredUser, Idle
<1>6. ASSUME NEW a \in Accounts \union {None}, AllOf(a)
      PROVE  AllOf(a)'
  <2>1. b = a
    BY <1>1, <1>4, <1>6 DEF AllOf
  <2>2. ASSUME NEW s \in Tabs
        PROVE  /\ sess'[s].token \in {sess[s].token, a} /\ sess'[s].user = sess[s].user
               /\ state'[s].token \in {state[s].token, a} /\ state'[s].user = state[s].user
               /\ s # t => state'[s] = state[s]
    <3>1. CASE ContextRefreshed(t)
      BY <2>1, <3>1 DEF ContextRefreshed, Structure, TypeOK
    <3>2. CASE ClientRefreshed(t)
      BY <3>2 DEF ClientRefreshed
    <3>3. QED
      BY <3>1, <3>2
  <2>3. QED
    BY <1>1, <1>2, <1>3, <1>6, <2>1, <2>2 DEF AllOf, Idle
<1>7. QED
  BY <1>1, <1>5, <1>6 DEF UsersOK

\* Another user is stored: the other tabs had nobody else, or history says so.
LEMMA SignedInStep ==
  ASSUME Structure, UsersOK, NEW t \in Tabs, UserFetched(t)
  PROVE  UsersOK'
<1>0. PICK a \in Accounts : a = op[t].account
  BY DEF UserFetched, Structure, OpsOK, OpOK
<1>1. /\ op \in [Tabs -> Operations] /\ op' = [op EXCEPT ![t] = Idle] /\ owner' = owner
      /\ op[t].stage = "user" /\ a \in Accounts /\ op[t].new # None /\ owner[op[t].new] = a
  BY <1>0, NoneIsNoPair DEF UserFetched, End, server, Structure, TypeOK, OpsOK, OpOK
<1>2. op'[t] = Idle /\ \A s \in Tabs \ {t} : op'[s] = op[s]
  BY <1>1
<1>3. /\ loc'.token = a /\ loc'.user = a
      /\ loc'.refresh = IF op[t].kind = "login" THEN op[t].new ELSE loc.refresh
      /\ sess' = [sess EXCEPT ![t] = [token |-> a, user |-> a]]
      /\ state' = [state EXCEPT ![t] = [token |-> a, user |-> a]]
  BY <1>0 DEF UserFetched, SignedIn
<1>4. /\ ~mixed' => op[t].kind # "register" \/ loc.refresh = None
      /\ ~mixed' => \A s \in Tabs \ {t} : op[s].kind # "context"
      /\ ~divided' => ~mixed' /\ ~divided
      /\ ~divided' => \A s \in Tabs \ {t} : \A x \in {state[s], sess[s]} :
                        {x.user, x.token} \intersect (Accounts \ {a}) = {}
  BY <1>0 DEF UserFetched
<1>5. op[t].kind \in {"login", "register"}
  BY <1>1 DEF Structure, OpsOK, OpOK
<1>6. RefreshIsOfStoredUser' /\ RefreshesStoredUser'
  BY <1>1, <1>2, <1>3, <1>4, <1>5 DEF RefreshIsOfStoredUser, RefreshesStoredUser, Idle
<1>7. ASSUME ~divided', NEW b \in Accounts \union {None}, AllOf(b)
      PROVE  AllOf(a)'
  <2>1. ASSUME NEW s \in Tabs
        PROVE  /\ {sess'[s].token, state'[s].token} \subseteq {a, None}
               /\ {sess'[s].user, state'[s].user} \subseteq {a, None, Temp}
    <3>1. CASE s = t
      BY <1>3, <3>1 DEF Structure, TypeOK
    <3>2. CASE s # t
      <4>1. sess'[s] = sess[s] /\ state'[s] = state[s]
        BY <1>3, <3>2
      <4>2. {state[s].user, state[s].token, sess[s].user, sess[s].token} \subseteq {b, None, Temp}
        BY <1>7 DEF AllOf
      <4>3. QED
        BY <1>4, <1>7, <3>2, <4>1, <4>2 DEF AllOf
    <3>3. QED
      BY <3>1, <3>2
  <2>2. ASSUME NEW s \in Tabs, op'[s].kind \in Refreshes, op'[s].old # None
        PROVE  owner'[op'[s].old] = a /\ state'[s].token = a
    <3>1. s # t /\ op'[s] = op[s]
      BY <1>2, <2>2 DEF Idle, Refreshes
    <3>2. owner[op[s].old] = b /\ state[s].token = b /\ b \in Accounts
      BY <1>7, <2>2, <3>1 DEF AllOf, Structure, OpsOK, OpOK, Issued
    <3>3. b = a
      BY <1>4, <1>7, <3>1, <3>2
    <3>4. QED
      BY <1>1, <1>3, <3>1, <3>2, <3>3
  <2>3. QED
    BY <1>1, <1>3, <1>4, <1>5, <1>7, <2>1, <2>2 DEF AllOf
<1>8. QED
  BY <1>1, <1>4, <1>6, <1>7 DEF UsersOK

LEMMA UsersStep ==
  ASSUME Structure, UsersOK, [Next]_vars
  PROVE  UsersOK'
<1>1. CASE UNCHANGED vars
  BY <1>1 DEF UsersOK, RefreshIsOfStoredUser, RefreshesStoredUser, AllOf, vars, server, browser, history
<1>2. ASSUME NEW t \in Tabs, Start(t) \/ Proceed(t) \/ Reload(t) \/ NewTab(t)
      PROVE  UsersOK'
  <2>1. /\ op \in [Tabs -> Operations] /\ \A s \in Tabs \ {t} : op'[s] = op[s]
        /\ Issued \subseteq Issued' /\ \A m \in Issued : owner'[m] = owner[m]
    BY <1>2, OneOperation, PairsStay DEF Structure, TypeOK
  <2> USE <2>1
  <2>2. CASE Start(t)
    <3>1. UNCHANGED <<browser, divided, mixed>>
      BY <2>2 DEF Start, StartLogin, StartRegister, StartLogout, StartRefresh, history
    <3>2. op'[t].old = None \/ (op'[t].old = loc.refresh /\ state[t].token # None)
      <4>1. ASSUME NEW a \in Accounts, StartLogin(t, a) PROVE op'[t].old = None
        BY <4>1 DEF StartLogin, Idle
      <4>2. ASSUME NEW a \in Accounts, StartRegister(t, a) PROVE op'[t].old = None
        BY <4>2 DEF StartRegister, Idle
      <4>3. CASE StartLogout(t)
        BY <4>3 DEF StartLogout, Idle
      <4>4. ASSUME NEW kind \in Refreshes, StartRefresh(t, kind)
            PROVE op'[t].old = None \/ (op'[t].old = loc.refresh /\ state[t].token # None)
        BY <4>4 DEF StartRefresh, Idle
      <4>5. QED
        BY <2>2, <4>1, <4>2, <4>3, <4>4 DEF Start
    <3>3. QED
      BY <3>1, <3>2, TakeUpStep
  <2>3. CASE TokensIssued(t) \/ Registered(t) \/ ServerRotates(t)
    <3>1. UNCHANGED <<browser, divided, mixed>> /\ op'[t].old = op[t].old /\ op'[t].kind = op[t].kind
      BY <2>3 DEF TokensIssued, Registered, ServerRotates, Goto, history, Operations
    <3>2. QED
      BY <3>1, TakeUpStep
  <2>4. CASE ServerChecks(t)
    <3>1. op'[t].old \in {op[t].old, None} /\ op'[t].kind = op[t].kind
      BY <2>4 DEF ServerChecks, Goto, Finish, Idle, Operations
    <3>2. QED
      BY <2>4, <3>1, TakeUpStep DEF ServerChecks, history
  <2>5. CASE SignInFails(t) \/ ServerRevokes(t) \/ RevokeFails(t) \/ RefreshFails(t) \/ AxiosRefreshed(t)
    <3>1. op'[t].old = None
      <4>1. End(t) => op'[t].old = None
        BY DEF End, Idle
      <4>2. \A stage : Finish(t, stage) => op'[t].old = None
        BY DEF Finish, Idle
      <4>3. QED
        BY <2>5, <4>1, <4>2 DEF SignInFails, ServerRevokes, RevokeFails, RefreshFails, AxiosRefreshed
    <3>2. UNCHANGED <<browser, divided, mixed>>
      BY <2>5 DEF SignInFails, ServerRevokes, RevokeFails, RefreshFails, AxiosRefreshed, history
    <3>3. QED
      BY <3>1, <3>2, TakeUpStep
  <2>6. CASE RefreshGivenUp(t)
    <3>1. CASE op[t].kind = "axios"
      BY <2>6, <3>1, ForgetStep
    <3>2. CASE op[t].kind # "axios"
      <4>1. UNCHANGED <<browser, divided, mixed>>
        BY <2>6, <3>2 DEF RefreshGivenUp
      <4>2. op'[t].old = None \/ (op'[t].old = loc.refresh /\ op'[t].kind = "logout")
        <5>1. CASE op[t].kind = "context"
          BY <2>6, <5>1 DEF RefreshGivenUp, Idle
        <5>2. CASE op[t].kind # "context"
          <6>1. op' = [op EXCEPT ![t] = Idle]
            BY <2>6, <3>2, <5>2 DEF RefreshGivenUp, End
          <6>2. QED
            BY <6>1 DEF Idle
        <5>3. QED
          BY <5>1, <5>2
      <4>3. QED
        BY <4>1, <4>2, TakeUpStep
    <3>3. QED
      BY <3>1, <3>2
  <2>7. CASE UserFetched(t) \/ ContextRefreshed(t) \/ ClientRefreshed(t) \/ Clear(t)
    BY <2>7, SignedInStep, RefreshedStep, ForgetStep
  <2>8. CASE UserNotFetched(t) \/ Reload(t) \/ NewTab(t)
    <3>1. UNCHANGED <<loc, owner, divided, mixed>> /\ End(t)
      BY <2>8 DEF UserNotFetched, Reload, NewTab, Forget, server, history
    <3>2. \/ UNCHANGED sess /\ state' = [state EXCEPT ![t] = Stored(sess[t], loc)]
          \/ sess' = [sess EXCEPT ![t] = NoSess] /\ state' = [state EXCEPT ![t] = Stored(NoSess, loc)]
          \/ sess' = [sess EXCEPT ![t].user = Temp] /\ UNCHANGED state
      BY <2>8 DEF UserNotFetched, Reload, NewTab
    <3>3. QED
      BY <3>1, <3>2, ReadStep DEF End
  <2>9. QED
    BY <1>2, <2>2, <2>3, <2>4, <2>5, <2>6, <2>7, <2>8 DEF Proceed
<1>3. QED
  BY <1>1, <1>2 DEF Next

\* The refresh token in localStorage is of the user stored beside it, and each
\* tab acts for the user it shows, but for the mixtures history tells of.
THEOREM TokensAreOfUsers == Spec => []TokensMatchUsers
<1>1. Structure /\ UsersOK /\ [Next]_vars => (Structure /\ UsersOK)'
  BY StructureStep, UsersStep
<1>2. ASSUME Structure, UsersOK
      PROVE  TokensMatchUsers
  <2>1. ASSUME ~divided, NEW t \in Tabs, state[t].token # None, state[t].user \in Accounts
        PROVE  state[t].token = state[t].user
    <3>1. PICK a \in Accounts \union {None} : AllOf(a)
      BY <1>2, <2>1 DEF UsersOK
    <3>2. QED
      BY <2>1, <3>1, AuthAssumption DEF AllOf
  <2>2. QED
    BY <1>2, <2>1 DEF TokensMatchUsers, UsersOK, TabIsOneUser
<1>3. QED
  BY StructureInit, UsersInit, <1>1, <1>2, PTL DEF Spec
=============================================================================
