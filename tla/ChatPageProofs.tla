--------------------------- MODULE ChatPageProofs ---------------------------
(***************************************************************************)
(* Theorems about ChatPage, for any number of chats, messages, requests in *)
(* flight and any size of a page.                                          *)
(***************************************************************************)
EXTENDS ChatPage, FiniteSetTheorems, SequenceTheorems, WellFoundedInduction, TLAPS

(***************************************************************************)
(* The inductive invariant, in parts.  First the server: a message is      *)
(* written before it is anywhere, stored once and delivered once.          *)
(***************************************************************************)

Written == {m \in Ids : chatOf[m] # None}

ServerOK ==
  /\ own \subseteq Written /\ pending \subseteq Written
  /\ Range(log) \subseteq Written /\ Range(wire) \subseteq Written /\ Range(messages) \subseteq Written
  /\ Range(wire) \intersect own = {} /\ pending \intersect Range(log) = {}
  /\ IsInjective(log) /\ IsInjective(wire)
  /\ Range(wire) \intersect Range(messages) \subseteq Range(log)

\* What has been read is a page of the chat asked for, before the cursor, in
\* order, and not empty if there is more.
AnswerOK(c) ==
  /\ c.more => c.ids # <<>>
  /\ \A m \in Range(c.ids) : m \in Before(c.chat, c.cursor)
  /\ \A i, j \in DOMAIN c.ids : i < j => Older(c.ids[i], c.ids[j])

RequestOK(c) ==
  /\ c.of # "none" => c.kind = "mark"
  /\ c.kind \in Loads \union {"create", "mark"} => c.chat # None
  /\ c.kind = "load" => c.cursor = None
  /\ c.kind = "more" => c.cursor # None
  /\ c.kind \in Loads /\ c.stage = "read" => AnswerOK(c)

RequestsOK == \A k \in Calls : RequestOK(call[k])

(***************************************************************************)
(* The page: nothing else goes on while the list of chats is loaded, the   *)
(* socket's handler and the scroll listener lag behind the selection in    *)
(* known ways.                                                             *)
(***************************************************************************)

ChatsComeFirst ==
  \A k \in Calls : call[k].kind = "chats" =>
    /\ isLoading /\ selected = None
    /\ \A l \in Calls \ {k} : Free(l)

NothingSelected == selected = None => heard = None /\ messages = <<>> /\ Loading(Loads) = {}

ListenerIsOfSelected == listener.on => ~isLoading /\ heard = selected /\ listener.at.chat = selected

\* What is being created is not listed yet, and nothing else is being created.
CreatedIsNew ==
  \A k \in Calls : call[k].kind = "create" /\ ~clicked =>
    /\ \A i \in DOMAIN chats : chats[i].id # call[k].chat
    /\ \A l \in Calls \ {k} : call[l].kind # "create"

PageOK == ChatsComeFirst /\ NothingSelected /\ ListenerIsOfSelected /\ SpinnerHasRequest
ListOK == CreatedIsNew /\ ListedOnceUnderItsUser

(***************************************************************************)
(* The window, until the selection moves during a load: all loads under    *)
(* way are of the selected chat, and while messages of another chat are    *)
(* kept the page is hidden and no load has been answered.                  *)
(***************************************************************************)

LoadsAreOfSelected == \A k \in Loading(Loads) : call[k].chat = selected

Foreign == \E m \in Range(messages) : chatOf[m] # selected

ForeignWaits == Foreign => isLoading /\ \A k \in Loading(Loads) : call[k].kind = "load"

\* Until the effects have run, either the first page of the selected chat is
\* under way or they can run.
LagHasLoad == heard # selected => Loading({"load"}) # {} \/ ~NoSlotFree

SwitchOK == ~switched => LoadsAreOfSelected /\ ForeignWaits /\ LagHasLoad

(***************************************************************************)
(* Pages: what is shown is not older than the cursor, and from the cursor  *)
(* on there is at least one page, so that a first page read later does not *)
(* reach behind it.                                                        *)
(***************************************************************************)

Since(p, c) == {n \in Range(log) : chatOf[n] = p /\ ~Older(n, c)}
PageFrom(p, c) ==
  /\ c \in Range(log) /\ chatOf[c] = p
  /\ Cardinality(Since(p, c)) >= PageSize

\* Messages that were neither delivered late nor are older than the cursor.
NoneOlder(ms, c) == \A m \in ms \ crossed : ~Older(m, c)

CursorsAreStored ==
  /\ nextCursor # None => nextCursor \in Range(log)
  /\ \A k \in Calls : call[k].kind \in Loads /\ call[k].stage = "read" /\ call[k].more =>
       PageFrom(call[k].chat, call[k].ids[1])

CursorOK == heard = selected /\ nextCursor # None => PageFrom(selected, nextCursor)
WindowOK == nextCursor # None => NoneOlder(Range(messages), nextCursor)

OneMore ==
  /\ Loading({"more"}) # {} => isLoadingMore
  /\ \A k, l \in Loading({"more"}) : k = l

MoreOK ==
  \A k \in Calls : call[k].kind = "more" =>
    /\ PageFrom(call[k].chat, call[k].cursor)
    /\ NoneOlder(Range(messages), call[k].cursor)
    /\ \A l \in Calls : call[l].kind = "load" /\ call[l].stage = "read" =>
         NoneOlder(Range(call[l].ids), call[k].cursor)

Once == \A i, j \in DOMAIN messages : i # j /\ messages[i] = messages[j] => messages[i] \in crossed

PagesOK == ~switched => CursorOK /\ (~doubled => OneMore /\ MoreOK /\ WindowOK /\ Once)

ChatInv ==
  /\ ServerOK /\ RequestsOK /\ MarksNameTheirChat /\ PageOK /\ ListOK
  /\ SwitchOK /\ CursorsAreStored /\ PagesOK

(***************************************************************************)
(* Sequences.                                                              *)
(***************************************************************************)

LEMMA FunctionIsSeq ==
  ASSUME NEW S, NEW n \in Nat, NEW f \in [1..n -> S]
  PROVE  f \in Seq(S)
OBVIOUS

LEMMA RangeIsOfSeq ==
  ASSUME NEW S, NEW s \in Seq(S)
  PROVE  /\ Range(s) \subseteq S
         /\ s = <<>> <=> Range(s) = {}
         /\ \A i \in DOMAIN s : i \in Nat /\ s[i] \in Range(s)
<1>1. Len(s) \in Nat /\ s \in [1..Len(s) -> S] /\ DOMAIN s = 1..Len(s)
  BY LenProperties
<1>2. s # <<>> => 1 \in DOMAIN s
  BY <1>1, EmptySeq
<1>3. s = <<>> => DOMAIN s = {}
  BY <1>1, EmptySeq
<1>4. s = <<>> <=> Range(s) = {}
  BY <1>2, <1>3 DEF Range
<1>5. Range(s) \subseteq S
  BY <1>1 DEF Range
<1>6. \A i \in DOMAIN s : i \in Nat /\ s[i] \in Range(s)
  BY <1>1 DEF Range
<1>7. QED
  BY <1>4, <1>5, <1>6

LEMMA RangeOfAppend ==
  ASSUME NEW S, NEW s \in Seq(S), NEW e \in S
  PROVE  /\ Append(s, e) \in Seq(S) /\ Range(Append(s, e)) = Range(s) \union {e}
         /\ IsInjective(s) /\ e \notin Range(s) => IsInjective(Append(s, e))
<1>1. /\ Append(s, e) \in Seq(S) /\ Len(Append(s, e)) = Len(s) + 1 /\ Len(s) \in Nat
      /\ \A i \in 1..Len(s) : Append(s, e)[i] = s[i]
      /\ Append(s, e)[Len(s) + 1] = e
  BY AppendProperties
<1>2. DOMAIN s = 1..Len(s) /\ DOMAIN Append(s, e) = 1..(Len(s) + 1)
  BY <1>1, LenProperties
<1>3. DOMAIN Append(s, e) = (1..Len(s)) \union {Len(s) + 1} /\ Len(s) + 1 \notin 1..Len(s)
  BY <1>1, <1>2
<1>4. Range(Append(s, e)) = Range(s) \union {e}
  BY <1>1, <1>2, <1>3 DEF Range
<1>5. IsInjective(s) /\ e \notin Range(s) => IsInjective(Append(s, e))
  BY <1>1, <1>2, <1>3 DEF Range, IsInjective
<1>6. QED
  BY <1>1, <1>4, <1>5

LEMMA RangeOfTail ==
  ASSUME NEW S, NEW s \in Seq(S), s # <<>>
  PROVE  /\ Tail(s) \in Seq(S) /\ Head(s) \in Range(s) /\ Range(Tail(s)) \subseteq Range(s)
         /\ IsInjective(s) => IsInjective(Tail(s)) /\ Head(s) \notin Range(Tail(s))
<1>1. /\ Tail(s) \in Seq(S) /\ Len(Tail(s)) = Len(s) - 1
      /\ \A i \in 1..Len(Tail(s)) : Tail(s)[i] = s[i + 1]
  BY HeadTailProperties
<1>2. /\ Len(s) \in Nat \ {0} /\ DOMAIN s = 1..Len(s) /\ DOMAIN Tail(s) = 1..(Len(s) - 1)
  BY <1>1, LenProperties, EmptySeq
<1>3. /\ 1 \in DOMAIN s /\ Head(s) = s[1]
      /\ \A i \in DOMAIN Tail(s) : i + 1 \in DOMAIN s /\ i + 1 # 1 /\ Tail(s)[i] = s[i + 1] /\ i \in Nat
  BY <1>1, <1>2
<1>4. Head(s) \in Range(s) /\ Range(Tail(s)) \subseteq Range(s)
  BY <1>3 DEF Range
<1>5. IsInjective(s) => IsInjective(Tail(s)) /\ Head(s) \notin Range(Tail(s))
  BY <1>3 DEF Range, IsInjective
<1>6. QED
  BY <1>1, <1>4, <1>5

LEMMA RangeOfConcat ==
  ASSUME NEW S, NEW s \in Seq(S), NEW t \in Seq(S)
  PROVE  /\ s \o t \in Seq(S) /\ Range(s \o t) = Range(s) \union Range(t)
         /\ \A i \in DOMAIN (s \o t) :
              \/ i \in DOMAIN s /\ (s \o t)[i] = s[i]
              \/ i - Len(s) \in DOMAIN t /\ i \notin DOMAIN s /\ (s \o t)[i] = t[i - Len(s)]
<1>1. /\ s \o t \in Seq(S) /\ Len(s \o t) = Len(s) + Len(t)
      /\ \A i \in 1..(Len(s) + Len(t)) : (s \o t)[i] = IF i <= Len(s) THEN s[i] ELSE t[i - Len(s)]
  BY ConcatProperties
<1>2. /\ Len(s) \in Nat /\ Len(t) \in Nat /\ DOMAIN s = 1..Len(s) /\ DOMAIN t = 1..Len(t)
      /\ DOMAIN (s \o t) = 1..(Len(s) + Len(t))
  BY <1>1, LenProperties
<1>3. \A i \in DOMAIN (s \o t) :
        \/ i \in DOMAIN s /\ (s \o t)[i] = s[i]
        \/ i - Len(s) \in DOMAIN t /\ i \notin DOMAIN s /\ (s \o t)[i] = t[i - Len(s)]
  BY <1>1, <1>2
<1>4. /\ \A i \in DOMAIN s : i \in DOMAIN (s \o t) /\ (s \o t)[i] = s[i]
      /\ \A i \in DOMAIN t : i + Len(s) \in DOMAIN (s \o t) /\ (s \o t)[i + Len(s)] = t[i]
  BY <1>1, <1>2
<1>5. Range(s \o t) = Range(s) \union Range(t)
  <2>1. Range(s \o t) \subseteq Range(s) \union Range(t)
    BY <1>3 DEF Range
  <2>2. Range(s) \subseteq Range(s \o t) /\ Range(t) \subseteq Range(s \o t)
    BY <1>4 DEF Range
  <2>3. QED
    BY <2>1, <2>2
<1>6. QED
  BY <1>1, <1>3, <1>5

\* Some listing of a finite set.
LEMMA ListOfSet ==
  ASSUME NEW S, IsFiniteSet(S), NEW s \in SetToSeqs(S)
  PROVE  /\ s \in Seq(S) /\ IsInjective(s) /\ Range(s) = S
         /\ Cardinality(S) \in Nat /\ DOMAIN s = 1..Cardinality(S)
<1>1. Cardinality(S) \in Nat
  BY FS_CardinalityType
<1>2. /\ s \in [1..Cardinality(S) -> S]
      /\ \A i, j \in 1..Cardinality(S) : i # j => s[i] # s[j]
  BY DEF SetToSeqs
<1>3. s \in Seq(S) /\ IsInjective(s)
  BY <1>1, <1>2 DEF IsInjective
<1>4. Range(s) = S
  <2>1. IsFiniteSet(1..Cardinality(S)) /\ Cardinality(1..Cardinality(S)) = Cardinality(S)
    BY <1>1, FS_Interval
  <2>2. s \in Injection(1..Cardinality(S), S)
    BY <1>2, <1>3 DEF Injection
  <2>3. s \in Surjection(1..Cardinality(S), S)
    BY <2>1, <2>2, FS_Injection
  <2>4. QED
    BY <1>2, <2>3 DEF Surjection, Range
<1>5. QED
  BY <1>1, <1>2, <1>3, <1>4

(***************************************************************************)
(* The order of what is stored.                                            *)
(***************************************************************************)

LEMMA RangeIsFinite ==
  ASSUME NEW s \in Seq(Ids)
  PROVE  IsFiniteSet(Range(s))
<1>1. Len(s) \in Nat /\ s \in [1..Len(s) -> Ids] /\ DOMAIN s = 1..Len(s)
  BY LenProperties
<1>2. s \in Surjection(1..Len(s), Range(s))
  BY <1>1 DEF Surjection, Range
<1>3. IsFiniteSet(1..Len(s))
  BY <1>1, FS_Interval
<1>4. QED
  BY <1>2, <1>3, FS_Surjection

LEMMA OlderIsOrder ==
  ASSUME log \in Seq(Ids), IsInjective(log)
  PROVE  /\ \A m, n : Older(m, n) => m \in Range(log) /\ n \in Range(log) /\ m # n /\ ~Older(n, m)
         /\ \A m, n, c : Older(m, n) /\ Older(n, c) => Older(m, c)
         /\ \A m, n \in Range(log) : m = n \/ Older(m, n) \/ Older(n, m)
<1>1. DOMAIN log \subseteq Nat
  BY LenProperties
<1>2. ASSUME NEW m, NEW n, Older(m, n)
      PROVE  m \in Range(log) /\ n \in Range(log) /\ m # n /\ ~Older(n, m)
  BY <1>1, <1>2 DEF Older, Range, IsInjective
<1>3. ASSUME NEW m, NEW n, NEW c, Older(m, n), Older(n, c)
      PROVE  Older(m, c)
  BY <1>1, <1>3 DEF Older, IsInjective
<1>4. ASSUME NEW m \in Range(log), NEW n \in Range(log)
      PROVE  m = n \/ Older(m, n) \/ Older(n, m)
  <2>1. PICK i, j \in DOMAIN log : log[i] = m /\ log[j] = n
    BY DEF Range
  <2>2. i < j \/ i = j \/ j < i
    BY <1>1
  <2>3. QED
    BY <2>1, <2>2 DEF Older
<1>5. QED
  BY <1>2, <1>3, <1>4

\* Of some stored messages there is a last one.
LEMMA LatestExists ==
  ASSUME log \in Seq(Ids), IsInjective(log), NEW S, S \subseteq Range(log), S # {}
  PROVE  \E m \in S : \A n \in S : ~Older(m, n)
<1>1. Len(log) \in Nat /\ DOMAIN log = 1..Len(log)
  BY LenProperties
<1> DEFINE left == {Len(log) - i : i \in {j \in DOMAIN log : log[j] \in S}}
<1>2. left \subseteq Nat /\ left # {}
  BY <1>1 DEF Range
<1>3. PICK x \in left : \A y \in left : ~(<<y, x>> \in OpToRel(<, Nat))
  <2> HIDE DEF left
  <2>1. QED
    BY <1>2, NatLessThanWellFounded, WFMin
<1>4. \A y \in left : ~(y < x)
  BY <1>2, <1>3 DEF OpToRel
<1>5. PICK i \in DOMAIN log : log[i] \in S /\ x = Len(log) - i
  OBVIOUS
<1>6. ASSUME NEW n \in S, Older(log[i], n)
      PROVE  FALSE
  <2>1. PICK j \in DOMAIN log : i < j /\ log[j] = n
    BY <1>6 DEF Older, IsInjective
  <2>2. Len(log) - j \in left
    BY <2>1
  <2>3. Len(log) - j < x
    BY <1>1, <1>5, <2>1
  <2>4. QED
    BY <1>4, <2>2, <2>3
<1>7. QED
  BY <1>5, <1>6

(***************************************************************************)
(* Pages.                                                                  *)
(***************************************************************************)

LEMMA PageIsFinite ==
  ASSUME log \in Seq(Ids), NEW p, NEW c
  PROVE  /\ LastPage(p, c) \subseteq Before(p, c) /\ Before(p, c) \subseteq Range(log)
         /\ IsFiniteSet(LastPage(p, c)) /\ IsFiniteSet(Before(p, c))
         /\ IsFiniteSet(Since(p, c)) /\ Cardinality(Since(p, c)) \in Nat
         /\ \A m : /\ IsFiniteSet({n \in Before(p, c) : Older(m, n)})
                   /\ Cardinality({n \in Before(p, c) : Older(m, n)}) \in Nat
<1>1. LastPage(p, c) \subseteq Before(p, c) /\ Before(p, c) \subseteq Range(log) /\ Since(p, c) \subseteq Range(log)
  BY DEF LastPage, Before, Since
<1>2. \A S : S \subseteq Range(log) => IsFiniteSet(S) /\ Cardinality(S) \in Nat
  BY RangeIsFinite, FS_Subset, FS_CardinalityType
<1>3. \A m : {n \in Before(p, c) : Older(m, n)} \subseteq Range(log)
  BY <1>1
<1>4. QED
  BY <1>1, <1>2, <1>3

\* A page is empty only if there is nothing, and full if there is more.
LEMMA PageIsFull ==
  ASSUME log \in Seq(Ids), IsInjective(log), NEW p, NEW c, LastPage(p, c) # Before(p, c)
  PROVE  /\ LastPage(p, c) # {}
         /\ Cardinality(LastPage(p, c)) \in Nat /\ Cardinality(LastPage(p, c)) >= PageSize
<1> DEFINE rest == Before(p, c) \ LastPage(p, c)
<1>1. rest \subseteq Range(log) /\ rest # {}
  BY PageIsFinite
<1>2. PICK m \in rest : \A n \in rest : ~Older(m, n)
  <2> HIDE DEF rest
  <2>1. QED
    BY <1>1, LatestExists
<1> DEFINE later == {n \in Before(p, c) : Older(m, n)}
<1>3. /\ later \subseteq LastPage(p, c) /\ IsFiniteSet(later) /\ Cardinality(later) \in Nat
      /\ Cardinality(later) >= PageSize
  <2>1. later \subseteq LastPage(p, c)
    BY <1>2
  <2>2. IsFiniteSet(later) /\ Cardinality(later) \in Nat
    BY PageIsFinite
  <2>3. ~(Cardinality(later) < PageSize)
    BY <1>2 DEF LastPage
  <2>4. QED
    <3> HIDE DEF later
    <3>1. QED
      BY <2>1, <2>2, <2>3, ChatAssumption
<1>4. Cardinality(later) <= Cardinality(LastPage(p, c)) /\ Cardinality(LastPage(p, c)) \in Nat
  <2> HIDE DEF later
  <2>1. QED
    BY <1>3, PageIsFinite, FS_Subset, FS_CardinalityType
<1>5. Cardinality(LastPage(p, c)) >= PageSize
  <2> HIDE DEF later
  <2>1. QED
    BY <1>3, <1>4, ChatAssumption
<1>6. LastPage(p, c) # {}
  BY <1>4, <1>5, PageIsFinite, FS_EmptySet, ChatAssumption
<1>7. QED
  BY <1>4, <1>5, <1>6

\* The answer to a load: in order, and its first message is a cursor.
LEMMA PageIsAnswer ==
  ASSUME log \in Seq(Ids), IsInjective(log), NEW p, NEW c, NEW ids \in SetToSeqs(LastPage(p, c)),
         \A i, j \in DOMAIN ids : i < j => Older(ids[i], ids[j])
  PROVE  /\ ids \in Seq(Ids) /\ Range(ids) = LastPage(p, c)
         /\ LastPage(p, c) # Before(p, c) => ids # <<>> /\ PageFrom(p, ids[1])
<1>1. /\ ids \in Seq(LastPage(p, c)) /\ Range(ids) = LastPage(p, c)
      /\ DOMAIN ids = 1..Cardinality(LastPage(p, c)) /\ Cardinality(LastPage(p, c)) \in Nat
  BY PageIsFinite, ListOfSet
<1>2. ids \in Seq(Ids)
  <2>1. Range(log) \subseteq Ids
    BY RangeIsOfSeq
  <2>2. QED
    BY <1>1, <2>1, PageIsFinite, SeqMonotonic
<1>3. ASSUME LastPage(p, c) # Before(p, c)
      PROVE  ids # <<>> /\ PageFrom(p, ids[1])
  <2>1. Cardinality(LastPage(p, c)) >= PageSize /\ LastPage(p, c) # {}
    BY <1>3, PageIsFull
  <2>2. 1 \in DOMAIN ids /\ ids # <<>>
    BY <1>1, <2>1, ChatAssumption, RangeIsOfSeq
  <2>3. ids[1] \in LastPage(p, c)
    BY <1>1, <2>2 DEF Range
  <2>4. \A n \in LastPage(p, c) : ~Older(n, ids[1])
    <3> SUFFICES ASSUME NEW n \in LastPage(p, c)
                 PROVE  ~Older(n, ids[1])
      OBVIOUS
    <3>1. PICK i \in DOMAIN ids : n = ids[i]
      BY <1>1 DEF Range
    <3>2. i = 1 \/ 1 < i
      BY <1>1
    <3>3. QED
      BY <2>2, <3>1, <3>2, OlderIsOrder
  <2>5. LastPage(p, c) \subseteq Since(p, ids[1])
    BY <2>4, PageIsFinite DEF Since, Before
  <2>6. Cardinality(LastPage(p, c)) <= Cardinality(Since(p, ids[1]))
    BY <2>5, PageIsFinite, FS_Subset
  <2>7. Cardinality(Since(p, ids[1])) >= PageSize
    BY <1>1, <2>1, <2>6, PageIsFinite, ChatAssumption
  <2>8. QED
    BY <2>2, <2>3, <2>7, PageIsFinite DEF PageFrom, Before
<1>4. QED
  BY <1>1, <1>2, <1>3

\* A first page does not reach behind a cursor.
LEMMA PageReach ==
  ASSUME log \in Seq(Ids), IsInjective(log), NEW p, NEW c, PageFrom(p, c), NEW m \in LastPage(p, None)
  PROVE  ~Older(m, c)
<1> SUFFICES ASSUME Older(m, c)
             PROVE  FALSE
  OBVIOUS
<1> DEFINE later == {n \in Before(p, None) : Older(m, n)}
<1>1. Since(p, c) \subseteq later
  <2> SUFFICES ASSUME NEW n \in Since(p, c)
               PROVE  n \in later
    OBVIOUS
  <2>1. n \in Range(log) /\ chatOf[n] = p /\ ~Older(n, c)
    BY DEF Since
  <2>2. Older(m, n)
    BY <2>1, OlderIsOrder DEF PageFrom
  <2>3. QED
    BY <2>1, <2>2 DEF Before
<1>2. IsFiniteSet(later) /\ Cardinality(later) \in Nat /\ Cardinality(later) < PageSize
  BY PageIsFinite DEF LastPage
<1>3. Cardinality(Since(p, c)) <= Cardinality(later)
  <2> HIDE DEF later
  <2>1. QED
    BY <1>1, <1>2, FS_Subset
<1>4. Cardinality(Since(p, c)) \in Nat /\ Cardinality(Since(p, c)) >= PageSize
  BY PageIsFinite DEF PageFrom
<1>5. QED
  <2> HIDE DEF later
  <2>1. QED
    BY <1>2, <1>3, <1>4, ChatAssumption

\* What is written keeps its chat and its author; what is stored keeps its
\* place, and newer messages come behind it.
LogGrows ==
  /\ Range(log) \subseteq Range(log)'
  /\ \A m, n \in Range(log) : Older(m, n)' <=> Older(m, n)
  /\ \A m \in Range(log)' \ Range(log) : \A n \in Range(log) : ~Older(m, n)'
  /\ \A m \in Written : chatOf'[m] = chatOf[m] /\ (m \in own' => m \in own)

LEMMA PageStays ==
  ASSUME log \in Seq(Ids), log' \in Seq(Ids), Range(log) \subseteq Written, LogGrows, NEW p, NEW c, PageFrom(p, c)
  PROVE  PageFrom(p, c)'
<1>1. Since(p, c) \subseteq Since(p, c)'
  BY DEF Since, LogGrows, PageFrom
<1>2. IsFiniteSet(Since(p, c)') /\ Cardinality(Since(p, c)') \in Nat /\ Cardinality(Since(p, c)) \in Nat
  <2>1. IsFiniteSet(Range(log'))
    BY RangeIsFinite
  <2>2. Since(p, c)' \subseteq Range(log')
    BY DEF Since
  <2>3. QED
    BY <2>1, <2>2, PageIsFinite, FS_Subset, FS_CardinalityType
<1>3. Cardinality(Since(p, c)) <= Cardinality(Since(p, c)')
  BY <1>1, <1>2, FS_Subset
<1>4. Cardinality(Since(p, c)') >= PageSize
  BY <1>2, <1>3, ChatAssumption DEF PageFrom
<1>5. QED
  BY <1>4 DEF PageFrom, LogGrows

(***************************************************************************)
(* Types.                                                                  *)
(***************************************************************************)

LEMMA NewRequests ==
  /\ NoCall \in Requests /\ NoCall.kind = "none" /\ NoCall.of = "none" /\ ~NoCall.more
  /\ \A kind \in Kinds, p \in Peers \union {None}, c \in Ids \union {None} :
       /\ Call(kind, p, c) \in Requests
       /\ Call(kind, p, c).kind = kind /\ Call(kind, p, c).chat = p /\ Call(kind, p, c).cursor = c
       /\ Call(kind, p, c).stage = "sent" /\ Call(kind, p, c).of = "none" /\ ~Call(kind, p, c).more
  /\ \A p \in Peers \union {None} : Call("mark", p, None).marks = {}
<1>1. NoCall \in Requests
  BY EmptySeq DEF NoCall, Requests, Kinds
<1>2. \A kind \in Kinds, p \in Peers \union {None}, c \in Ids \union {None} : Call(kind, p, c) \in Requests
  BY <1>1 DEF Call, Requests
<1>3. QED
  BY <1>1, <1>2 DEF NoCall, Call

LEMMA MarkRequest ==
  ASSUME NEW p \in Peers \union {None}, NEW S \in SUBSET Ids, NEW kind \in {"none"} \union Loads
  PROVE  LET c == [Call("mark", p, None) EXCEPT !.marks = S, !.of = kind] IN
           c \in Requests /\ c.kind = "mark" /\ c.chat = p /\ c.marks = S /\ c.of = kind /\ c.stage = "sent" /\ ~c.more
<1>1. "mark" \in Kinds
  BY DEF Kinds
<1>2. Call("mark", p, None) \in Requests
  BY <1>1, NewRequests
<1>3. QED
  BY <1>2 DEF Call, NoCall, Requests

LEMMA MarkOnly ==
  ASSUME NEW p \in Peers \union {None}, NEW S \in SUBSET Ids
  PROVE  LET c == [Call("mark", p, None) EXCEPT !.marks = S] IN
           c \in Requests /\ c.kind = "mark" /\ c.chat = p /\ c.marks = S /\ c.of = "none" /\ c.stage = "sent" /\ ~c.more
<1>1. "mark" \in Kinds
  BY DEF Kinds
<1>2. Call("mark", p, None) \in Requests
  BY <1>1, NewRequests
<1>3. QED
  BY <1>2 DEF Call, NoCall, Requests

LEMMA ReadRequest ==
  ASSUME NEW c \in Requests, NEW ids \in Seq(Ids), NEW more \in BOOLEAN
  PROVE  LET r == [c EXCEPT !.stage = "read", !.ids = ids, !.more = more] IN
         /\ r \in Requests /\ r.stage = "read" /\ r.ids = ids /\ r.more = more
         /\ r.kind = c.kind /\ r.chat = c.chat /\ r.cursor = c.cursor /\ r.of = c.of /\ r.marks = c.marks
BY DEF Requests

LEMMA SearchRequest ==
  ASSUME NEW p \in Peers \union {None}, NEW S \in SUBSET Peers
  PROVE  LET c == [Call("search", p, None) EXCEPT !.known = S] IN
           c \in Requests /\ c.kind = "search" /\ c.chat = p /\ c.of = "none" /\ c.stage = "sent" /\ ~c.more
<1>1. "search" \in Kinds
  BY DEF Kinds
<1>2. Call("search", p, None) \in Requests
  BY <1>1, NewRequests
<1>3. QED
  BY <1>2 DEF Call, NoCall, Requests

LEMMA PutOne ==
  ASSUME TypeOK, NEW k \in Calls, NEW c \in Requests, Put(k, c)
  PROVE  /\ call' \in [Calls -> Requests] /\ call'[k] = c
         /\ \A l \in Calls \ {k} : call'[l] = call[l]
BY DEF TypeOK, Put

LEMMA ChatInit == Init => TypeOK
<1> SUFFICES ASSUME Init
             PROVE  TypeOK
  OBVIOUS
<1>1. Len(chatOfOld) \in Nat /\ chatOfOld \in [Old -> Peers]
  BY ChatAssumption, LenProperties DEF Old
<1>2. log \in Seq(Ids)
  <2>1. log \in Seq(Old)
    BY <1>1 DEF Init, Old
  <2>2. QED
    BY <2>1, SeqMonotonic DEF Ids
<1>3. chatOf \in [Ids -> Peers \union {None}] /\ hasChat \subseteq Peers
  BY <1>1 DEF Init, Ids, Range
<1>4. wire \in Seq(New) /\ messages \in Seq(Ids) /\ chats \in Seq([id : Peers, other : Peers])
  BY EmptySeq DEF Init
<1>5. listener \in [on : BOOLEAN, at : Seen]
  BY DEF Init, Captured, Seen
<1>6. dialog \in [open : BOOLEAN, email : Peers \union {None}, searching : BOOLEAN, found : Peers \union {None}]
  BY DEF Init, Closed
<1>7. call \in [Calls -> Requests]
  <2>1. "chats" \in Kinds
    BY DEF Kinds
  <2>2. QED
    BY <2>1, NewRequests DEF Init
<1>8. QED
  BY <1>2, <1>3, <1>4, <1>5, <1>6, <1>7 DEF Init, TypeOK

\* The actions, each with the slot of its request.
LEMMA ChatTypeStep ==
  ASSUME TypeOK, RequestsOK, [Next]_vars
  PROVE  TypeOK'
<1> USE DEF TypeOK
<1>a. Captured \in Seen
  BY DEF Captured, Seen
<1>b. "chats" \in Kinds /\ "load" \in Kinds /\ "more" \in Kinds /\ "mark" \in Kinds /\ "search" \in Kinds /\ "create" \in Kinds
  BY DEF Kinds
<1>c. \A p \in Peers \union {None}, c \in Ids \union {None} :
        Call("load", p, c) \in Requests /\ Call("more", p, c) \in Requests /\ Call("create", p, c) \in Requests
  BY <1>b, NewRequests
<1>d. Hidden(listener) \in [on : BOOLEAN, at : Seen]
  BY DEF Hidden
<1>e. Closed \in [open : BOOLEAN, email : Peers \union {None}, searching : BOOLEAN, found : Peers \union {None}]
  BY DEF Closed
<1>f. \A k \in Calls : call[k] \in Requests
  OBVIOUS
<1>g. \A k \in Calls, c \in Requests : Put(k, c) => call' \in [Calls -> Requests]
  BY PutOne
<1>h. NoCall \in Requests
  BY NewRequests
<1>1. ASSUME NEW k \in Calls, RunEffects(k)
      PROVE  TypeOK'
  <2>1. CASE heard = selected
    <3>1. listener' = [on |-> ~isLoading /\ selected # None, at |-> Captured]
      BY <1>1, <2>1 DEF RunEffects
    <3>2. listener' \in [on : BOOLEAN, at : Seen]
      BY <1>a, <3>1
    <3>3. QED
      BY <1>1, <2>1, <3>2 DEF RunEffects, server
  <2>2. CASE heard # selected
    BY <1>1, <1>c, <1>d, <1>g, <2>2 DEF RunEffects, FirstPage, NoteLoad, server
  <2>3. QED
    BY <2>1, <2>2
<1>2. ASSUME NEW k \in Calls, NEW at \in Seen, StartMore(k, at)
      PROVE  /\ call' \in [Calls -> Requests] /\ isLoadingMore' \in BOOLEAN /\ switched' \in BOOLEAN /\ doubled' \in BOOLEAN
             /\ UNCHANGED <<server, chats, selected, messages, isLoading, nextCursor, hasMore, heard, dialog, crossed, clicked>>
  BY <1>2, <1>c, <1>g DEF StartMore, NoteLoad, Seen
<1>3. ASSUME NEW k \in Calls, Scroll(k)
      PROVE  TypeOK'
  BY <1>2, <1>3 DEF Scroll, server
<1>4. ASSUME NEW k \in Calls, ClickMore(k)
      PROVE  TypeOK'
  <2>1. [Captured EXCEPT !.more = TRUE] \in Seen
    BY <1>a DEF Seen
  <2>2. listener' \in [on : BOOLEAN, at : Seen]
    BY <1>4, <2>1 DEF ClickMore
  <2>3. QED
    BY <1>2, <1>4, <1>a, <2>2 DEF ClickMore, server
<1>5. ASSUME NEW k \in Calls, ReceiveMessage(k)
      PROVE  TypeOK'
  <2>1. Head(wire) \in New /\ Tail(wire) \in Seq(New)
    BY <1>5, HeadTailProperties DEF ReceiveMessage
  <2>2. crossed' \subseteq New /\ switched' \in BOOLEAN
    BY <1>5, <2>1 DEF ReceiveMessage
  <2>3. messages' \in Seq(Ids) /\ call' \in [Calls -> Requests]
    <3>1. CASE chatOf[Head(wire)] = heard
      <4>1. Head(wire) \in Ids
        BY <2>1 DEF Ids
      <4>2. chatOf[Head(wire)] \in Peers \union {None} /\ {Head(wire)} \in SUBSET Ids
        BY <4>1
      <4>3. [Call("mark", chatOf[Head(wire)], None) EXCEPT !.marks = {Head(wire)}] \in Requests
        BY <4>2, MarkOnly
      <4>4. messages' \in Seq(Ids)
        <5>1. messages' = Append(messages, Head(wire))
          BY <1>5, <3>1 DEF ReceiveMessage
        <5>2. QED
          BY <4>1, <5>1, AppendProperties
      <4>5. Put(k, [Call("mark", chatOf[Head(wire)], None) EXCEPT !.marks = {Head(wire)}])
        BY <1>5, <3>1 DEF ReceiveMessage
      <4>6. QED
        BY <1>g, <4>3, <4>4, <4>5
    <3>2. CASE chatOf[Head(wire)] # heard
      BY <1>5, <3>2 DEF ReceiveMessage
    <3>3. QED
      BY <3>1, <3>2
  <2>4. QED
    BY <1>5, <2>1, <2>2, <2>3 DEF ReceiveMessage, closures
<1>6. ASSUME NEW k \in Calls, ServerReads(k)
      PROVE  TypeOK'
  <2>1. PICK ids \in SetToSeqs(LastPage(call[k].chat, call[k].cursor)) :
          Put(k, [call[k] EXCEPT !.stage = "read", !.ids = ids,
                     !.more = Before(call[k].chat, call[k].cursor) # LastPage(call[k].chat, call[k].cursor)])
    BY <1>6 DEF ServerReads
  <2>2. ids \in Seq(Ids)
    <3>1. Range(log) \subseteq Ids
      BY RangeIsOfSeq
    <3>2. QED
      BY <3>1, PageIsFinite, ListOfSet, SeqMonotonic
  <2>3. call' \in [Calls -> Requests]
    BY <1>f, <1>g, <2>1, <2>2, ReadRequest
  <2>4. QED
    BY <1>6, <2>3 DEF ServerReads, server, window, closures, history
<1>7. ASSUME NEW k \in Calls, ChatsLoaded(k)
      PROVE  TypeOK'
  <2>1. chats' \in Seq([id : Peers, other : Peers])
    <3>1. CASE chats' = <<>>
      BY <3>1, EmptySeq
    <3>2. ASSUME NEW list \in SetToSeqs(hasChat), chats' = [i \in DOMAIN list |-> [id |-> list[i], other |-> list[i]]]
          PROVE  chats' \in Seq([id : Peers, other : Peers])
      <4>1. IsFiniteSet(hasChat)
        BY ChatAssumption, FS_Subset
      <4>2. Cardinality(hasChat) \in Nat /\ DOMAIN list = 1..Cardinality(hasChat) /\ \A i \in DOMAIN list : list[i] \in Peers
        BY <4>1, ListOfSet DEF Range
      <4>3. \A i \in 1..Cardinality(hasChat) : [id |-> list[i], other |-> list[i]] \in [id : Peers, other : Peers]
        BY <4>2
      <4>4. chats' \in [1..Cardinality(hasChat) -> [id : Peers, other : Peers]]
        BY <3>2, <4>2, <4>3
      <4>5. QED
        BY <4>2, <4>4, FunctionIsSeq
    <3>3. QED
      BY <1>7, <3>1, <3>2 DEF ChatsLoaded
  <2>2. QED
    BY <1>7, <1>g, <1>h, <2>1 DEF ChatsLoaded, server, closures, history
<1>8. ASSUME NEW k \in Calls, LoadAnswered(k)
      PROVE  TypeOK'
  <2>1. call[k].ids \in Seq(Ids) /\ call[k].more \in BOOLEAN /\ call[k].chat \in Peers \union {None} /\ call[k].kind \in Loads
    BY <1>8 DEF LoadAnswered, Requests
  <2>2. messages' \in Seq(Ids)
    BY <1>8, <2>1, EmptySeq, ConcatProperties DEF LoadAnswered
  <2>3. call' \in [Calls -> Requests] /\ isLoading' \in BOOLEAN /\ isLoadingMore' \in BOOLEAN
    <3>1. PICK unread \in {{}, Range(call[k].ids) \ own} :
            IF unread = {}
            THEN LoadEnds(call[k].kind) /\ Put(k, NoCall)
            ELSE /\ Put(k, [Call("mark", call[k].chat, None) EXCEPT !.marks = unread, !.of = call[k].kind])
                 /\ UNCHANGED <<isLoading, isLoadingMore>>
      BY <1>8 DEF LoadAnswered
    <3>2. unread \in SUBSET Ids
      BY <2>1, RangeIsOfSeq
    <3>3. [Call("mark", call[k].chat, None) EXCEPT !.marks = unread, !.of = call[k].kind] \in Requests
      BY <2>1, <3>2, MarkRequest
    <3>4. QED
      BY <1>g, <1>h, <3>1, <3>3 DEF LoadEnds
  <2>4. nextCursor' \in Ids \union {None}
    <3>1. call[k].more => call[k].ids # <<>>
      BY <1>8 DEF LoadAnswered, RequestsOK, RequestOK, AnswerOK
    <3>2. call[k].more => 1 \in 1..Len(call[k].ids)
      BY <2>1, <3>1, EmptySeq
    <3>3. call[k].more => call[k].ids[1] \in Ids
      BY <2>1, <3>2, ElementOfSeq
    <3>4. QED
      BY <1>8, <3>3 DEF LoadAnswered
  <2>5. QED
    BY <1>8, <2>1, <2>2, <2>3, <2>4 DEF LoadAnswered, server, closures, history
<1>9. ASSUME NEW k \in Calls, LoadFails(k) \/ MarkAnswered(k)
      PROVE  TypeOK'
  <2>1. messages' \in Seq(Ids) /\ isLoading' \in BOOLEAN /\ isLoadingMore' \in BOOLEAN
    BY <1>9, EmptySeq DEF LoadFails, MarkAnswered, LoadEnds
  <2>2. QED
    BY <1>9, <1>g, <1>h, <2>1 DEF LoadFails, MarkAnswered, server, closures, history
<1>10. ASSUME NEW k \in Calls, SearchAnswered(k) \/ CreateFails(k)
       PROVE  TypeOK'
  <2>1. call[k].chat \in Peers \union {None} /\ (RequestOK(call[k]) => (call[k].kind = "create" => call[k].chat \in Peers))
    BY DEF Requests, RequestOK
  <2>2. call' \in [Calls -> Requests]
    BY <1>10, <1>g, <1>h DEF SearchAnswered, CreateFails
  <2>3. CASE SearchAnswered(k)
    BY <2>1, <2>2, <2>3 DEF SearchAnswered, server, window, closures, history
  <2>4. CASE CreateFails(k)
    BY <2>1, <2>2, <2>4 DEF CreateFails, window, closures, history, RequestsOK
  <2>5. QED
    BY <1>10, <2>3, <2>4
<1>11. ASSUME NEW k \in Calls, ChatCreated(k)
       PROVE  TypeOK'
  <2>1. call[k].chat \in Peers
    BY <1>11 DEF ChatCreated, Requests, RequestsOK, RequestOK
  <2>2. call' \in [Calls -> Requests]
    BY <1>11, <1>c, <1>g, <2>1 DEF ChatCreated
  <2>3. chats' \in Seq([id : Peers, other : Peers])
    <3>1. <<[id |-> call[k].chat, other |-> call[k].chat]>> \in Seq([id : Peers, other : Peers])
      BY <2>1
    <3>2. QED
      BY <1>11, <3>1, ConcatProperties DEF ChatCreated
  <2>4. QED
    BY <1>11, <1>d, <1>e, <2>1, <2>2, <2>3 DEF ChatCreated, NoteLoad
<1>12. ASSUME NEW k \in Calls, NEW e \in Range(chats), SelectChat(k, e)
       PROVE  TypeOK'
  <2>1. e.id \in Peers
    <3>1. Range(chats) \subseteq [id : Peers, other : Peers]
      BY RangeIsOfSeq
    <3>2. QED
      BY <3>1
  <2>2. call' \in [Calls -> Requests]
    BY <1>12, <1>c, <1>g, <2>1 DEF SelectChat, FirstPage
  <2>3. QED
    BY <1>12, <1>d, <2>1, <2>2 DEF SelectChat, FirstPage, NoteLoad, server
<1>13. ASSUME NEW k \in Calls, SearchUser(k) \/ CreateChat(k)
       PROVE  TypeOK'
  <2>1. [Call("search", dialog.email, None) EXCEPT !.known = {e.id : e \in Range(chats)}] \in Requests
    <3>1. Range(chats) \subseteq [id : Peers, other : Peers]
      BY RangeIsOfSeq
    <3>2. {e.id : e \in Range(chats)} \subseteq Peers
      BY <3>1
    <3>3. QED
      BY <3>2, SearchRequest
  <2>2. Call("create", dialog.found, None) \in Requests
    BY <1>c
  <2>3. CASE SearchUser(k)
    BY <1>g, <2>1, <2>3 DEF SearchUser, server, window, closures, history
  <2>4. CASE CreateChat(k)
    BY <1>g, <2>2, <2>4 DEF CreateChat, server, window, closures
  <2>5. QED
    BY <1>13, <2>3, <2>4
<1>14. CASE SendMessage
  <2>1. PICK m \in New : /\ chatOf' = [chatOf EXCEPT ![m] = selected] /\ own' = own \union {m}
                         /\ messages' = Append(messages, m) /\ pending' \in {pending, pending \union {m}}
    BY <1>14 DEF SendMessage
  <2>2. m \in Ids /\ messages' \in Seq(Ids)
    BY <2>1, AppendProperties DEF Ids
  <2>3. QED
    BY <1>14, <2>1, <2>2 DEF SendMessage, closures, history
<1>15. CASE OpenDialog \/ CancelDialog
  BY <1>15, <1>e DEF OpenDialog, CancelDialog, server, window, closures, history
<1>16. ASSUME NEW p \in Peers, PeerWrites(p)
       PROVE  TypeOK'
  <2>1. PICK m \in New : /\ chatOf' = [chatOf EXCEPT ![m] = p] /\ pending' = pending \union {m}
                         /\ wire' = Append(wire, m) \/ wire' = wire
    BY <1>16 DEF PeerWrites
  <2>2. wire' \in Seq(New)
    <3>1. Append(wire, m) \in Seq(New)
      BY AppendProperties
    <3>2. QED
      BY <2>1, <3>1
  <2>3. QED
    BY <1>16, <2>1, <2>2 DEF PeerWrites, window, closures, history
<1>17. ASSUME NEW e \in Typed, TypeEmail(e)
       PROVE  TypeOK'
  BY <1>17, ChatAssumption DEF TypeEmail, server, window, closures, history
<1>18. ASSUME NEW m \in New, StoreMessage(m)
       PROVE  TypeOK'
  <2>1. log' \in Seq(Ids)
    BY <1>18, AppendProperties DEF StoreMessage, Ids
  <2>2. QED
    BY <1>18, <2>1 DEF StoreMessage, window, closures, history
<1>19. CASE UNCHANGED vars
  BY <1>19 DEF vars, server, window, closures, history
<1>20. QED
  BY <1>1, <1>3, <1>4, <1>5, <1>6, <1>7, <1>8, <1>9, <1>10, <1>11, <1>12, <1>13, <1>14, <1>15, <1>16, <1>17,
     <1>18, <1>19 DEF Next, Answer, User

(***************************************************************************)
(* The server and the requests.                                            *)
(***************************************************************************)

LEMMA QuietServer ==
  ASSUME ServerOK, UNCHANGED <<chatOf, own, pending, log, wire>>,
         Range(messages') \subseteq Range(messages) \union Range(log)
  PROVE  ServerOK' /\ LogGrows
<1>1. Written' = Written
  BY DEF Written
<1>2. ServerOK'
  BY <1>1 DEF ServerOK
<1>3. LogGrows
  BY DEF LogGrows, Older
<1>4. QED
  BY <1>2, <1>3

LEMMA StoreGrows ==
  ASSUME log \in Seq(Ids), NEW m \in Ids, m \notin Range(log), log' = Append(log, m), UNCHANGED <<chatOf, own>>
  PROVE  LogGrows
<1>1. /\ Len(log) \in Nat /\ DOMAIN log = 1..Len(log) /\ DOMAIN log' = 1..(Len(log) + 1)
      /\ \A i \in 1..Len(log) : log'[i] = log[i]
      /\ log'[Len(log) + 1] = m /\ Range(log)' = Range(log) \union {m}
  <2>1. log' \in Seq(Ids) /\ Len(log') = Len(log) + 1
    BY AppendProperties
  <2>2. Range(log') = Range(log) \union {m}
    BY RangeOfAppend
  <2>3. QED
    BY <2>1, <2>2, AppendProperties, LenProperties
<1>2. ASSUME NEW a \in Range(log), NEW b \in Range(log)
      PROVE  Older(a, b)' <=> Older(a, b)
  <2>1. a # m /\ b # m
    OBVIOUS
  <2>2. \A i \in DOMAIN log' : log'[i] \in {a, b} => i \in DOMAIN log /\ log[i] = log'[i]
    BY <1>1, <2>1
  <2>3. \A i \in DOMAIN log : i \in DOMAIN log' /\ log'[i] = log[i]
    BY <1>1
  <2>4. Older(a, b)' => Older(a, b)
    BY <2>2 DEF Older
  <2>5. Older(a, b) => Older(a, b)'
    BY <2>3 DEF Older
  <2>6. QED
    BY <2>4, <2>5
<1>3. ASSUME NEW b \in Range(log), Older(m, b)'
      PROVE  FALSE
  <2>1. PICK i, j \in DOMAIN log' : i < j /\ log'[i] = m /\ log'[j] = b
    BY <1>3 DEF Older
  <2>2. i \notin DOMAIN log
    BY <1>1, <2>1 DEF Range
  <2>3. j \in DOMAIN log
    BY <1>1, <2>1
  <2>4. QED
    BY <1>1, <2>1, <2>2, <2>3
<1>4. QED
  BY <1>1, <1>2, <1>3 DEF LogGrows

LEMMA ServerStep ==
  ASSUME TypeOK, ServerOK, RequestsOK, [Next]_vars
  PROVE  ServerOK' /\ LogGrows
<1>1. ASSUME NEW p \in Peers, PeerWrites(p)
      PROVE  ServerOK' /\ LogGrows
  <2>1. PICK m \in New : /\ chatOf[m] = None /\ chatOf' = [chatOf EXCEPT ![m] = p] /\ pending' = pending \union {m}
                         /\ wire' = Append(wire, m) \/ wire' = wire
    BY <1>1 DEF PeerWrites
  <2>2. UNCHANGED <<own, log, messages>>
    BY <1>1 DEF PeerWrites, window
  <2>3. m \notin Written /\ Written' = Written \union {m}
    BY <2>1, ChatAssumption DEF Written, TypeOK, Ids
  <2>4. /\ Range(wire') \subseteq Range(wire) \union {m} /\ IsInjective(wire')
    <3>1. CASE wire' = wire
      BY <3>1 DEF ServerOK
    <3>2. CASE wire' = Append(wire, m)
      <4>1. m \notin Range(wire) /\ IsInjective(wire) /\ wire \in Seq(New)
        BY <2>3 DEF ServerOK, TypeOK
      <4>2. QED
        BY <3>2, <4>1, RangeOfAppend
    <3>3. QED
      BY <2>1, <3>1, <3>2
  <2>5. ServerOK'
    BY <2>1, <2>2, <2>3, <2>4 DEF ServerOK
  <2>6. LogGrows
    BY <2>1, <2>2, <2>3 DEF LogGrows, Older, Written, TypeOK, Ids
  <2>7. QED
    BY <2>5, <2>6
<1>2. ASSUME NEW m \in New, StoreMessage(m)
      PROVE  ServerOK' /\ LogGrows
  <2>1. /\ m \in pending /\ m \in Ids /\ m \in Written /\ m \notin Range(log) /\ pending' = pending \ {m}
        /\ log' = Append(log, m) /\ UNCHANGED <<chatOf, own, wire, messages>>
    BY <1>2 DEF StoreMessage, window, ServerOK, Ids
  <2>2. Range(log') = Range(log) \union {m} /\ IsInjective(log')
    BY <2>1, RangeOfAppend DEF TypeOK, ServerOK
  <2>3. Written' = Written
    BY <2>1 DEF Written
  <2>4. ServerOK'
    BY <2>1, <2>2, <2>3 DEF ServerOK
  <2>5. QED
    BY <2>1, <2>4, StoreGrows DEF TypeOK
<1>3. CASE SendMessage
  <2>1. PICK m \in New : /\ chatOf[m] = None /\ chatOf' = [chatOf EXCEPT ![m] = selected]
                         /\ own' = own \union {m} /\ messages' = Append(messages, m)
                         /\ pending' \in {pending, pending \union {m}}
    BY <1>3 DEF SendMessage
  <2>2. UNCHANGED <<log, wire>> /\ selected # None /\ m \in Ids
    BY <1>3 DEF SendMessage, CanSend, Ids
  <2>3. m \notin Written /\ Written' = Written \union {m}
    BY <2>1, <2>2, ChatAssumption DEF Written, TypeOK
  <2>4. Range(messages') = Range(messages) \union {m}
    BY <2>1, <2>2, RangeOfAppend DEF TypeOK
  <2>5. ServerOK'
    BY <2>1, <2>2, <2>3, <2>4 DEF ServerOK
  <2>6. LogGrows
    BY <2>1, <2>2, <2>3 DEF LogGrows, Older, Written, TypeOK
  <2>7. QED
    BY <2>5, <2>6
<1>4. ASSUME NEW k \in Calls, ReceiveMessage(k)
      PROVE  ServerOK' /\ LogGrows
  <2>1. /\ wire # <<>> /\ wire' = Tail(wire) /\ UNCHANGED <<chatOf, own, pending, log>>
        /\ messages' = messages \/ messages' = Append(messages, Head(wire))
    BY <1>4 DEF ReceiveMessage
  <2>2. /\ Head(wire) \in Range(wire) /\ Range(wire') \subseteq Range(wire)
        /\ IsInjective(wire') /\ Head(wire) \notin Range(wire')
    BY <2>1, RangeOfTail DEF TypeOK, ServerOK
  <2>3. Range(messages') \subseteq Range(messages) \union {Head(wire)}
    <3>1. Head(wire) \in Ids
      BY <2>2 DEF ServerOK, Written
    <3>2. messages \in Seq(Ids)
      BY DEF TypeOK
    <3>3. Range(Append(messages, Head(wire))) = Range(messages) \union {Head(wire)}
      BY <3>1, <3>2, RangeOfAppend
    <3>4. QED
      BY <2>1, <3>3
  <2>4. Written' = Written
    BY <2>1 DEF Written
  <2>5. ServerOK'
    BY <2>1, <2>2, <2>3, <2>4 DEF ServerOK
  <2>6. LogGrows
    BY <2>1 DEF LogGrows, Older
  <2>7. QED
    BY <2>5, <2>6
<1>5. ASSUME NEW k \in Calls, LoadAnswered(k)
      PROVE  ServerOK' /\ LogGrows
  <2>1. Range(call[k].ids) \subseteq Range(log)
    BY <1>5 DEF LoadAnswered, RequestsOK, RequestOK, AnswerOK, Before
  <2>2. call[k].ids \in Seq(Ids) /\ <<>> \in Seq(Ids) /\ Range(<<>>) = {}
    BY EmptySeq DEF TypeOK, Requests, Range
  <2>3. Range(messages') \subseteq Range(messages) \union Range(log)
    <3>1. PICK older \in {messages, <<>>} : messages' = call[k].ids \o older
      BY <1>5 DEF LoadAnswered
    <3>2. older \in Seq(Ids) /\ Range(older) \subseteq Range(messages)
      BY <2>2, <3>1 DEF TypeOK
    <3>3. Range(messages') = Range(call[k].ids) \union Range(older)
      BY <2>2, <3>1, <3>2, RangeOfConcat
    <3>4. QED
      BY <2>1, <3>2, <3>3
  <2>4. QED
    BY <1>5, <2>3, QuietServer DEF LoadAnswered, server
<1>6. ASSUME NEW k \in Calls, LoadFails(k)
      PROVE  ServerOK' /\ LogGrows
  <2>1. Range(messages') = {}
    BY <1>6, RangeIsOfSeq, EmptySeq DEF LoadFails
  <2>2. QED
    BY <1>6, <2>1, QuietServer DEF LoadFails, server
<1>7. ASSUME UNCHANGED <<chatOf, own, pending, log, wire, messages>>
      PROVE  ServerOK' /\ LogGrows
  BY <1>7, QuietServer
<1>8. ASSUME NEW k \in Calls,
             \/ RunEffects(k) \/ Scroll(k) \/ ServerReads(k) \/ User(k) \/ ChatsLoaded(k) \/ MarkAnswered(k)
             \/ SearchAnswered(k) \/ ChatCreated(k) \/ CreateFails(k)
      PROVE  UNCHANGED <<chatOf, own, pending, log, wire, messages>>
  BY <1>8 DEF RunEffects, Scroll, ServerReads, User, ChatsLoaded, MarkAnswered, SearchAnswered, ChatCreated, CreateFails,
              SelectChat, ClickMore, StartMore, SearchUser, CreateChat, server, window
<1>9. ASSUME OpenDialog \/ CancelDialog \/ UNCHANGED vars \/ \E e \in Typed : TypeEmail(e)
      PROVE  UNCHANGED <<chatOf, own, pending, log, wire, messages>>
  BY <1>9 DEF OpenDialog, CancelDialog, TypeEmail, vars, server, window
<1>10. QED
  BY <1>1, <1>2, <1>3, <1>4, <1>5, <1>6, <1>7, <1>8, <1>9 DEF Next, Answer

LEMMA AnswerStays ==
  ASSUME TypeOK, ServerOK, LogGrows, NEW c, AnswerOK(c)
  PROVE  AnswerOK(c)'
<1>1. \A m, n : Older(m, n) => m \in Range(log) /\ n \in Range(log)
  BY OlderIsOrder DEF TypeOK, ServerOK
<1>2. \A m, n : Older(m, n) => Older(m, n)'
  BY <1>1 DEF LogGrows
<1>3. \A m \in Range(c.ids) : m \in Before(c.chat, c.cursor)'
  BY <1>2 DEF AnswerOK, Before, LogGrows, ServerOK
<1>4. QED
  BY <1>2, <1>3 DEF AnswerOK

LEMMA RequestStays ==
  ASSUME TypeOK, ServerOK, RequestsOK, LogGrows, NEW l \in Calls, call'[l] = call[l]
  PROVE  RequestOK(call[l])'
<1>1. PICK c : c = call[l]
  OBVIOUS
<1>2. RequestOK(c) /\ call'[l] = c
  BY <1>1 DEF RequestsOK
<1>3. RequestOK(c)'
  BY <1>2, AnswerStays DEF RequestOK
<1>4. QED
  BY <1>2, <1>3 DEF RequestOK, AnswerOK, Before, Older

\* The step of one slot, the others staying what they are.
LEMMA RequestsStay ==
  ASSUME TypeOK, ServerOK, RequestsOK, LogGrows, NEW k \in Calls, NEW c \in Requests, Put(k, c),
         RequestOK(call[k])'
  PROVE  RequestsOK'
<1>1. ASSUME NEW l \in Calls
      PROVE  RequestOK(call[l])'
  <2>1. CASE l = k
    BY <2>1
  <2>2. CASE l # k
    <3>1. call'[l] = call[l]
      BY <2>2, PutOne
    <3>2. QED
      BY <3>1, RequestStays
  <2>3. QED
    BY <2>1, <2>2
<1>2. QED
  BY <1>1 DEF RequestsOK

\* A slot is freed, or a request is sent.
LEMMA RequestSent ==
  ASSUME TypeOK, ServerOK, RequestsOK, LogGrows, NEW k \in Calls, NEW c \in Requests, Put(k, c),
         c.stage = "sent", c.of # "none" => c.kind = "mark",
         c.kind \in Loads \union {"create", "mark"} => c.chat # None,
         c.kind = "load" => c.cursor = None, c.kind = "more" => c.cursor # None
  PROVE  RequestsOK'
<1>1. call'[k] = c
  BY PutOne
<1>2. RequestOK(call[k])'
  BY <1>1 DEF RequestOK
<1>3. QED
  BY <1>2, RequestsStay

LEMMA RequestStep ==
  ASSUME TypeOK, ServerOK, RequestsOK, NothingSelected, [Next]_vars
  PROVE  RequestsOK'
<1> LogGrows
  BY ServerStep
<1>a. "load" \in Kinds /\ "more" \in Kinds /\ "create" \in Kinds /\ "mark" \in Kinds
  BY DEF Kinds
<1>b. \A p \in Peers : p # None
  BY ChatAssumption
<1>c. selected \in Peers \union {None} /\ \A k \in Calls : call[k] \in Requests /\ call[k].chat \in Peers \union {None}
  BY DEF TypeOK, Requests
<1>1. ASSUME UNCHANGED call
      PROVE  RequestsOK'
  BY <1>1, RequestStays DEF RequestsOK
<1>2. ASSUME NEW k \in Calls, Put(k, NoCall)
      PROVE  RequestsOK'
  <2>1. NoCall \in Requests /\ NoCall.kind = "none" /\ NoCall.of = "none" /\ NoCall.stage = "sent"
    BY NewRequests DEF NoCall
  <2>2. QED
    BY <1>2, <2>1, RequestSent DEF Loads
<1>3. ASSUME NEW k \in Calls, NEW p \in Peers, Put(k, Call("load", p, None)) \/ Put(k, Call("create", p, None))
      PROVE  RequestsOK'
  <2>1. PICK kind \in {"load", "create"} : Put(k, Call(kind, p, None))
    BY <1>3
  <2>2. LET c == Call(kind, p, None) IN
          c \in Requests /\ c.kind = kind /\ c.chat = p /\ c.cursor = None /\ c.of = "none" /\ c.stage = "sent"
    BY <1>a, NewRequests
  <2>3. QED
    BY <1>b, <2>1, <2>2, RequestSent
<1>4. ASSUME NEW k \in Calls, NEW at \in Seen, StartMore(k, at)
      PROVE  RequestsOK'
  <2>1. at.chat \in Peers \union {None} /\ at.chat # None /\ at.cursor \in Ids \union {None} /\ at.cursor # None
        /\ Put(k, Call("more", at.chat, at.cursor))
    BY <1>4 DEF StartMore, Seen
  <2>2. LET c == Call("more", at.chat, at.cursor) IN
          c \in Requests /\ c.kind = "more" /\ c.chat = at.chat /\ c.cursor = at.cursor /\ c.of = "none" /\ c.stage = "sent"
    BY <1>a, <2>1, NewRequests
  <2>3. QED
    BY <2>1, <2>2, RequestSent
<1>5. ASSUME NEW k \in Calls, RunEffects(k)
      PROVE  RequestsOK'
  <2>1. CASE heard = selected
    BY <1>1, <1>5, <2>1 DEF RunEffects
  <2>2. CASE heard # selected
    <3>1. selected \in Peers /\ Put(k, Call("load", selected, None))
      BY <1>5, <1>c, <2>2 DEF RunEffects, FirstPage, NothingSelected
    <3>2. QED
      BY <1>3, <3>1
  <2>3. QED
    BY <2>1, <2>2
<1>6. ASSUME NEW k \in Calls, Scroll(k) \/ ClickMore(k)
      PROVE  RequestsOK'
  <2>1. listener.at \in Seen /\ Captured \in Seen
    BY DEF TypeOK, Captured, Seen
  <2>2. QED
    BY <1>4, <1>6, <2>1 DEF Scroll, ClickMore
<1>7. ASSUME NEW k \in Calls, ReceiveMessage(k)
      PROVE  RequestsOK'
  <2>1. Head(wire) \in Written
    BY <1>7, RangeOfTail DEF ReceiveMessage, TypeOK, ServerOK
  <2>2. CASE chatOf[Head(wire)] # heard
    BY <1>1, <1>7, <2>2 DEF ReceiveMessage
  <2>3. CASE chatOf[Head(wire)] = heard
    <3> DEFINE c == [Call("mark", chatOf[Head(wire)], None) EXCEPT !.marks = {Head(wire)}]
    <3>1. Put(k, c)
      BY <1>7, <2>3 DEF ReceiveMessage
    <3>2. chatOf[Head(wire)] \in Peers /\ {Head(wire)} \in SUBSET Ids
      BY <2>1 DEF Written, TypeOK
    <3>3. c \in Requests /\ c.kind = "mark" /\ c.chat = chatOf[Head(wire)] /\ c.of = "none" /\ c.stage = "sent"
      BY <3>2, MarkOnly
    <3>4. QED
      <4> HIDE DEF c
      <4>1. QED
        BY <1>b, <3>1, <3>2, <3>3, RequestSent
  <2>4. QED
    BY <2>2, <2>3
<1>8. ASSUME NEW k \in Calls, ServerReads(k)
      PROVE  RequestsOK'
  <2>1. PICK q \in Requests : q = call[k] /\ RequestOK(q)
    BY <1>c DEF RequestsOK
  <2> DEFINE page == LastPage(q.chat, q.cursor)
  <2>2. PICK ids \in SetToSeqs(page) : /\ \A i, j \in DOMAIN ids : i < j => Older(ids[i], ids[j])
                                       /\ Put(k, [q EXCEPT !.stage = "read", !.ids = ids,
                                                     !.more = Before(q.chat, q.cursor) # page])
    BY <1>8, <2>1 DEF ServerReads
  <2>3. PICK more \in BOOLEAN : more = (Before(q.chat, q.cursor) # page)
    OBVIOUS
  <2>4. ids \in Seq(Ids) /\ Range(ids) = page /\ (more => ids # <<>>)
    <3>1. log \in Seq(Ids) /\ IsInjective(log)
      BY DEF TypeOK, ServerOK
    <3>2. QED
      BY <2>2, <2>3, <3>1, PageIsAnswer
  <2> DEFINE c == [q EXCEPT !.stage = "read", !.ids = ids, !.more = more]
  <2>5. /\ c \in Requests /\ c.ids = ids /\ c.more = more /\ c.kind = q.kind /\ c.chat = q.chat
        /\ c.cursor = q.cursor /\ c.of = q.of
    BY <2>4 DEF Requests
  <2>6. Put(k, c)
    BY <2>2, <2>3
  <2> HIDE DEF c
  <2>7. AnswerOK(c)
    <3>1. page \subseteq Before(q.chat, q.cursor)
      BY PageIsFinite DEF TypeOK
    <3>2. QED
      BY <2>2, <2>4, <2>5, <3>1 DEF AnswerOK
  <2>8. RequestOK(c)'
    BY <2>1, <2>5, <2>7, AnswerStays DEF RequestOK
  <2>9. call'[k] = c
    BY <2>5, <2>6, PutOne
  <2>10. RequestOK(call[k])'
    BY <2>8, <2>9 DEF RequestOK, AnswerOK, Before, Older
  <2>11. QED
    BY <2>5, <2>6, <2>10, RequestsStay
<1>9. ASSUME NEW k \in Calls, LoadAnswered(k)
      PROVE  RequestsOK'
  <2>1. PICK unread \in {{}, Range(call[k].ids) \ own} :
          IF unread = {}
          THEN LoadEnds(call[k].kind) /\ Put(k, NoCall)
          ELSE Put(k, [Call("mark", call[k].chat, None) EXCEPT !.marks = unread, !.of = call[k].kind])
    BY <1>9 DEF LoadAnswered
  <2> DEFINE q == Call("mark", call[k].chat, None)
             c == [q EXCEPT !.marks = unread, !.of = call[k].kind]
  <2>2. call[k].kind \in Loads /\ call[k].chat # None /\ call[k].ids \in Seq(Ids)
    BY <1>9, <1>c DEF LoadAnswered, RequestsOK, RequestOK, Requests
  <2>3. unread \in SUBSET Ids
    BY <2>1, <2>2, RangeIsOfSeq
  <2>4. c \in Requests /\ c.kind = "mark" /\ c.chat = call[k].chat /\ c.of = call[k].kind /\ c.stage = "sent"
    <3>1. q \in Requests /\ q.kind = "mark" /\ q.chat = call[k].chat /\ q.stage = "sent"
      BY <1>a, <1>c, NewRequests
    <3>2. QED
      <4> HIDE DEF q
      <4>1. QED
        BY <2>2, <2>3, <3>1 DEF Requests
  <2>5. CASE unread = {}
    BY <1>2, <2>1, <2>5
  <2>6. CASE unread # {}
    <3>1. Put(k, c)
      BY <2>1, <2>6
    <3>2. QED
      <4> HIDE DEF c
      <4>1. QED
        BY <2>2, <2>4, <3>1, RequestSent
  <2>7. QED
    BY <2>5, <2>6
<1>10. ASSUME NEW k \in Calls,
              ChatsLoaded(k) \/ LoadFails(k) \/ MarkAnswered(k) \/ SearchAnswered(k) \/ CreateFails(k)
       PROVE  RequestsOK'
  BY <1>2, <1>10 DEF ChatsLoaded, LoadFails, MarkAnswered, SearchAnswered, CreateFails
<1>11. ASSUME NEW k \in Calls, ChatCreated(k)
       PROVE  RequestsOK'
  <2>1. call[k].chat \in Peers
    BY <1>11, <1>c DEF ChatCreated, RequestsOK, RequestOK
  <2>2. QED
    BY <1>3, <1>11, <2>1 DEF ChatCreated
<1>12. ASSUME NEW k \in Calls, NEW e \in Range(chats), SelectChat(k, e)
       PROVE  RequestsOK'
  <2>1. Range(chats) \subseteq [id : Peers, other : Peers]
    BY RangeIsOfSeq DEF TypeOK
  <2>2. e.id \in Peers
    BY <2>1
  <2>3. QED
    BY <1>3, <1>12, <2>2 DEF SelectChat, FirstPage
<1>13. ASSUME NEW k \in Calls, SearchUser(k)
       PROVE  RequestsOK'
  <2> DEFINE c == [Call("search", dialog.email, None) EXCEPT !.known = {e.id : e \in Range(chats)}]
  <2>1. Range(chats) \subseteq [id : Peers, other : Peers]
    BY RangeIsOfSeq DEF TypeOK
  <2>2. {e.id : e \in Range(chats)} \in SUBSET Peers /\ dialog.email \in Peers \union {None}
    BY <2>1 DEF TypeOK
  <2>3. c \in Requests /\ c.kind = "search" /\ c.of = "none" /\ c.stage = "sent"
    BY <2>2, SearchRequest
  <2>4. Put(k, c)
    BY <1>13 DEF SearchUser
  <2>5. QED
    <3> HIDE DEF c
    <3>1. QED
      BY <2>3, <2>4, RequestSent DEF Loads
<1>14. ASSUME NEW k \in Calls, CreateChat(k)
       PROVE  RequestsOK'
  <2>1. dialog.found \in Peers /\ Put(k, Call("create", dialog.found, None))
    BY <1>14 DEF CreateChat, TypeOK
  <2>2. QED
    BY <1>3, <2>1
<1>15. ASSUME SendMessage \/ OpenDialog \/ CancelDialog \/ UNCHANGED vars \/ (\E p \in Peers : PeerWrites(p))
              \/ (\E e \in Typed : TypeEmail(e)) \/ (\E m \in New : StoreMessage(m))
       PROVE  UNCHANGED call
  BY <1>15 DEF SendMessage, OpenDialog, CancelDialog, PeerWrites, TypeEmail, StoreMessage, vars
<1>16. QED
  BY <1>1, <1>5, <1>6, <1>7, <1>8, <1>9, <1>10, <1>11, <1>12, <1>13, <1>14, <1>15 DEF Next, Answer, User

(***************************************************************************)
(* What an action does to its slot; the others stay what they are.         *)
(***************************************************************************)

Others(k) == \A l \in Calls \ {k} : call'[l] = call[l]

LEMMA Freed ==
  ASSUME TypeOK, NEW k \in Calls, Put(k, NoCall)
  PROVE  Others(k) /\ call'[k].kind = "none" /\ call'[k].of = "none"
BY NewRequests, PutOne DEF Others

LEMMA Sent ==
  ASSUME TypeOK, NEW k \in Calls, NEW kind \in {"load", "more", "create"}, NEW p \in Peers \union {None},
         NEW c \in Ids \union {None}, Put(k, Call(kind, p, c))
  PROVE  /\ Others(k) /\ call'[k].kind = kind /\ call'[k].chat = p /\ call'[k].cursor = c
         /\ call'[k].of = "none" /\ call'[k].stage = "sent"
<1>1. kind \in Kinds
  BY DEF Kinds
<1>2. LET r == Call(kind, p, c) IN
        r \in Requests /\ r.kind = kind /\ r.chat = p /\ r.cursor = c /\ r.of = "none" /\ r.stage = "sent"
  BY <1>1, NewRequests
<1>3. QED
  BY <1>2, PutOne DEF Others

LEMMA SearchSent ==
  ASSUME TypeOK, NEW k \in Calls, SearchUser(k)
  PROVE  Others(k) /\ call[k].kind = "none" /\ call'[k].kind = "search" /\ call'[k].of = "none"
<1>1. Range(chats) \subseteq [id : Peers, other : Peers]
  BY RangeIsOfSeq DEF TypeOK
<1>2. {e.id : e \in Range(chats)} \in SUBSET Peers /\ dialog.email \in Peers \union {None}
  BY <1>1 DEF TypeOK
<1> DEFINE c == [Call("search", dialog.email, None) EXCEPT !.known = {e.id : e \in Range(chats)}]
<1>3. c \in Requests /\ c.kind = "search" /\ c.of = "none"
  BY <1>2, SearchRequest
<1>4. Put(k, c) /\ call[k].kind = "none"
  BY DEF SearchUser, Free
<1>5. QED
  <2> HIDE DEF c
  <2>1. QED
    BY <1>3, <1>4, PutOne DEF Others

LEMMA PageAsked ==
  ASSUME TypeOK, NEW k \in Calls, NEW p \in Peers \union {None}, FirstPage(k, p)
  PROVE  /\ Others(k) /\ call[k].kind = "none"
         /\ call'[k].kind = "load" /\ call'[k].chat = p /\ call'[k].cursor = None
         /\ call'[k].of = "none" /\ call'[k].stage = "sent"
         /\ nextCursor' = None /\ isLoading' = TRUE /\ ~listener'.on
         /\ switched' = (switched \/ \E l \in Loading(Loads) : call[l].chat # p)
BY Sent DEF FirstPage, Free, NoteLoad, Hidden, TypeOK

LEMMA MoreAsked ==
  ASSUME TypeOK, NEW k \in Calls, NEW at \in Seen, StartMore(k, at)
  PROVE  /\ Others(k) /\ call[k].kind = "none"
         /\ call'[k].kind = "more" /\ call'[k].chat = at.chat /\ call'[k].cursor = at.cursor
         /\ call'[k].of = "none" /\ call'[k].stage = "sent" /\ isLoadingMore' = TRUE
         /\ at.chat # None /\ at.cursor # None /\ ~at.more
         /\ switched' = (switched \/ \E l \in Loading(Loads) : call[l].chat # at.chat)
         /\ doubled' = (doubled \/ at # Captured \/ Loading({"load"}) # {})
         /\ UNCHANGED <<server, chats, selected, messages, isLoading, nextCursor, hasMore, heard, crossed, clicked>>
<1>1. at.chat \in Peers \union {None} /\ at.cursor \in Ids \union {None}
  BY DEF Seen
<1>2. QED
  BY <1>1, Sent DEF StartMore, Free, NoteLoad

LEMMA PageRead ==
  ASSUME TypeOK, ServerOK, NEW k \in Calls, ServerReads(k)
  PROVE  /\ Others(k) /\ call[k].kind \in Loads /\ call[k].stage = "sent" /\ call'[k].stage = "read"
         /\ call'[k].kind = call[k].kind /\ call'[k].chat = call[k].chat /\ call'[k].cursor = call[k].cursor
         /\ call'[k].of = call[k].of
         /\ Range(call'[k].ids) = LastPage(call[k].chat, call[k].cursor)
         /\ call'[k].more => PageFrom(call[k].chat, call'[k].ids[1])
<1>1. PICK q \in Requests : q = call[k]
  BY DEF TypeOK
<1> DEFINE page == LastPage(q.chat, q.cursor)
<1>2. PICK ids \in SetToSeqs(page) : /\ \A i, j \in DOMAIN ids : i < j => Older(ids[i], ids[j])
                                     /\ Put(k, [q EXCEPT !.stage = "read", !.ids = ids,
                                                         !.more = Before(q.chat, q.cursor) # page])
  BY <1>1 DEF ServerReads
<1>3. PICK more \in BOOLEAN : more = (Before(q.chat, q.cursor) # page)
  OBVIOUS
<1>4. ids \in Seq(Ids) /\ Range(ids) = page /\ (more => PageFrom(q.chat, ids[1]))
  <2>1. log \in Seq(Ids) /\ IsInjective(log)
    BY DEF TypeOK, ServerOK
  <2>2. QED
    BY <1>2, <1>3, <2>1, PageIsAnswer
<1> DEFINE c == [q EXCEPT !.stage = "read", !.ids = ids, !.more = more]
<1>5. /\ c \in Requests /\ c.ids = ids /\ c.more = more /\ c.kind = q.kind /\ c.chat = q.chat
      /\ c.cursor = q.cursor /\ c.of = q.of /\ c.stage = "read"
  BY <1>4 DEF Requests
<1>6. Put(k, c)
  BY <1>2, <1>3
<1> HIDE DEF c
<1>7. Others(k) /\ call'[k] = c
  BY <1>5, <1>6, PutOne DEF Others
<1>8. QED
  BY <1>1, <1>4, <1>5, <1>7 DEF ServerReads

\* A load is over, or goes on with marking what was read.
LEMMA PageTaken ==
  ASSUME TypeOK, RequestsOK, NEW k \in Calls, LoadAnswered(k)
  PROVE  /\ Others(k) /\ call[k].kind \in Loads /\ call[k].stage = "read"
         /\ \/ call'[k].kind = "none" /\ call'[k].of = "none" /\ LoadEnds(call[k].kind)
            \/ /\ call'[k].kind = "mark" /\ call'[k].of = call[k].kind /\ call'[k].chat = call[k].chat
               /\ call'[k].marks \subseteq Range(call[k].ids) \ own /\ UNCHANGED <<isLoading, isLoadingMore>>
         /\ call[k].ids \in Seq(Ids)
         /\ call[k].kind = "more" => messages' = call[k].ids \o messages
         /\ call[k].kind = "load" => messages' = call[k].ids
<1>1. PICK unread \in {{}, Range(call[k].ids) \ own} :
        IF unread = {}
        THEN LoadEnds(call[k].kind) /\ Put(k, NoCall)
        ELSE /\ Put(k, [Call("mark", call[k].chat, None) EXCEPT !.marks = unread, !.of = call[k].kind])
             /\ UNCHANGED <<isLoading, isLoadingMore>>
  BY DEF LoadAnswered
<1>2. call[k].kind \in Loads /\ call[k].stage = "read" /\ call[k].ids \in Seq(Ids) /\ call[k].chat \in Peers \union {None}
  BY DEF LoadAnswered, TypeOK, Requests
<1>3. /\ call[k].kind = "more" => messages' = call[k].ids \o messages
      /\ call[k].kind = "load" => messages' = call[k].ids
  BY <1>2, ConcatEmptySeq DEF LoadAnswered
<1>4. CASE unread = {}
  BY <1>1, <1>2, <1>3, <1>4, Freed
<1>5. CASE unread # {}
  <2> DEFINE q == Call("mark", call[k].chat, None)
             c == [q EXCEPT !.marks = unread, !.of = call[k].kind]
  <2>1. Put(k, c) /\ UNCHANGED <<isLoading, isLoadingMore>>
    BY <1>1, <1>5
  <2>2. unread \in SUBSET Ids
    BY <1>1, <1>2, RangeIsOfSeq
  <2>3. q \in Requests /\ q.chat = call[k].chat /\ q.kind = "mark"
    BY <1>2, NewRequests DEF Kinds
  <2>4. c \in Requests /\ c.kind = "mark" /\ c.of = call[k].kind /\ c.chat = call[k].chat /\ c.marks = unread
    <3> HIDE DEF q
    <3>1. QED
      BY <1>2, <2>2, <2>3 DEF Requests
  <2>5. Others(k) /\ call'[k] = c
    <3> HIDE DEF c
    <3>1. QED
      BY <2>1, <2>4, PutOne DEF Others
  <2>6. QED
    <3> HIDE DEF c
    <3>1. QED
      BY <1>1, <1>2, <1>3, <1>5, <2>1, <2>4, <2>5
<1>6. QED
  BY <1>4, <1>5

\* A message is shown and marked, or only listed.
LEMMA MessageTaken ==
  ASSUME TypeOK, ServerOK, NEW k \in Calls, ReceiveMessage(k)
  PROVE  /\ Others(k) /\ call[k].kind = "none" /\ Head(wire) \in Written /\ Head(wire) \notin own
         /\ Head(wire) \in Range(messages) => Head(wire) \in Range(log)
         /\ \/ /\ chatOf[Head(wire)] = heard /\ messages' = Append(messages, Head(wire))
               /\ call'[k].kind = "mark" /\ call'[k].of = "none" /\ call'[k].chat = heard
               /\ call'[k].marks = {Head(wire)}
            \/ chatOf[Head(wire)] # heard /\ UNCHANGED <<messages, call>>
         /\ UNCHANGED <<chatOf, own, pending, log, chats, selected, isLoading, isLoadingMore,
                        nextCursor, hasMore, heard, listener, doubled, clicked>>
         /\ switched' = (switched \/ heard # selected)
         /\ crossed \subseteq crossed'
         /\ Head(wire) \notin crossed' =>
              Head(wire) \notin Range(log) /\ \A l \in Loading(Loads) : call[l].chat # chatOf[Head(wire)]
<1>1. Head(wire) \in Range(wire)
  BY RangeOfTail DEF ReceiveMessage, TypeOK
<1>2. Head(wire) \in Written /\ Head(wire) \notin own /\ (Head(wire) \in Range(messages) => Head(wire) \in Range(log))
  BY <1>1 DEF ServerOK
<1>3. call[k].kind = "none"
  BY DEF ReceiveMessage, Free
<1>4. /\ UNCHANGED <<chatOf, own, pending, log, chats, selected, isLoading, isLoadingMore,
                     nextCursor, hasMore, heard, listener, doubled, clicked>>
      /\ switched' = (switched \/ heard # selected)
  BY DEF ReceiveMessage, closures
<1>5. /\ crossed \subseteq crossed'
      /\ Head(wire) \notin crossed' =>
           Head(wire) \notin Range(log) /\ \A l \in Loading(Loads) : call[l].chat # chatOf[Head(wire)]
  BY DEF ReceiveMessage
<1>6. CASE chatOf[Head(wire)] # heard
  BY <1>2, <1>3, <1>4, <1>5, <1>6 DEF ReceiveMessage, Others
<1>7. CASE chatOf[Head(wire)] = heard
  <2> DEFINE c == [Call("mark", chatOf[Head(wire)], None) EXCEPT !.marks = {Head(wire)}]
  <2>1. messages' = Append(messages, Head(wire)) /\ Put(k, c)
    BY <1>7 DEF ReceiveMessage
  <2>2. chatOf[Head(wire)] \in Peers \union {None} /\ {Head(wire)} \in SUBSET Ids
    BY <1>2 DEF Written, TypeOK
  <2>3. c \in Requests /\ c.kind = "mark" /\ c.of = "none" /\ c.chat = heard /\ c.marks = {Head(wire)}
    BY <1>7, <2>2, MarkOnly
  <2>4. Others(k) /\ call'[k] = c
    <3> HIDE DEF c
    <3>1. QED
      BY <2>1, <2>3, PutOne DEF Others
  <2>5. QED
    <3> HIDE DEF c
    <3>1. QED
      BY <1>2, <1>3, <1>4, <1>5, <1>7, <2>1, <2>3, <2>4
<1>8. QED
  BY <1>6, <1>7

\* The new chat is listed, selected and loaded.
LEMMA ChatTaken ==
  ASSUME TypeOK, RequestsOK, NEW k \in Calls, ChatCreated(k)
  PROVE  /\ Others(k) /\ call[k].kind = "create" /\ call[k].of = "none" /\ call[k].chat \in Peers
         /\ call'[k].kind = "load" /\ call'[k].chat = call[k].chat /\ call'[k].cursor = None
         /\ call'[k].of = "none" /\ call'[k].stage = "sent"
         /\ selected' = call[k].chat /\ isLoading' = TRUE /\ ~listener'.on
         /\ switched' = (switched \/ \E l \in Loading(Loads) : call[l].chat # call[k].chat)
         /\ UNCHANGED <<messages, log, isLoadingMore, nextCursor, heard, doubled, crossed, clicked>>
<1>1. call[k].kind = "create" /\ call[k].chat \in Peers /\ call[k].of = "none"
  BY DEF ChatCreated, TypeOK, Requests, RequestsOK, RequestOK
<1>2. QED
  BY <1>1, Sent DEF ChatCreated, NoteLoad, Hidden, TypeOK

LEMMA LoadingMoves ==
  ASSUME NEW k \in Calls, Others(k), NEW K
  PROVE  /\ Loading(K)' \ {k} = Loading(K) \ {k}
         /\ k \in Loading(K) <=> call[k].kind \in K \/ call[k].of \in K
         /\ k \in Loading(K)' <=> call'[k].kind \in K \/ call'[k].of \in K
BY DEF Loading, Others

LEMMA LoadingStays ==
  ASSUME UNCHANGED call, NEW K
  PROVE  Loading(K)' = Loading(K)
BY DEF Loading

\* Only a request to mark can be part of a load.
LEMMA OnlyMarksAreOf ==
  ASSUME RequestsOK, NEW k \in Calls
  PROVE  call[k].of # "none" => call[k].kind = "mark"
BY DEF RequestsOK, RequestOK

(***************************************************************************)
(* What is marked.                                                         *)
(***************************************************************************)

LEMMA MarksStay ==
  ASSUME TypeOK, RequestsOK, MarksNameTheirChat, LogGrows, NEW l \in Calls, call'[l] = call[l],
         call[l].kind = "mark", NEW m \in call[l].marks
  PROVE  chatOf'[m] = call'[l].chat /\ m \notin own'
<1>1. chatOf[m] = call[l].chat /\ m \notin own /\ call[l].chat # None
  BY DEF MarksNameTheirChat, RequestsOK, RequestOK
<1>2. m \in Ids
  BY DEF TypeOK, Requests
<1>3. m \in Written
  BY <1>1, <1>2 DEF Written
<1>4. QED
  BY <1>1, <1>3 DEF LogGrows

LEMMA MarksStep ==
  ASSUME TypeOK, ServerOK, RequestsOK, MarksNameTheirChat, [Next]_vars
  PROVE  MarksNameTheirChat'
<1> LogGrows
  BY ServerStep
<1>1. ASSUME NEW k \in Calls, Others(k),
             call'[k].kind = "mark" => \A m \in call'[k].marks : chatOf'[m] = call'[k].chat /\ m \notin own'
      PROVE  MarksNameTheirChat'
  <2>1. ASSUME NEW l \in Calls, call'[l].kind = "mark", NEW m \in call'[l].marks
        PROVE  chatOf'[m] = call'[l].chat /\ m \notin own'
    BY <1>1, <2>1, MarksStay DEF Others
  <2>2. QED
    BY <2>1 DEF MarksNameTheirChat
<1>2. ASSUME UNCHANGED call
      PROVE  MarksNameTheirChat'
  BY <1>2, MarksStay DEF MarksNameTheirChat
<1>3. ASSUME NEW k \in Calls, LoadAnswered(k)
      PROVE  MarksNameTheirChat'
  <2>1. UNCHANGED <<chatOf, own>>
    BY <1>3 DEF LoadAnswered, server
  <2>2. \A m \in Range(call[k].ids) : chatOf[m] = call[k].chat
    BY <1>3 DEF LoadAnswered, RequestsOK, RequestOK, AnswerOK, Before
  <2>3. QED
    BY <1>1, <1>3, <2>1, <2>2, PageTaken
<1>4. ASSUME NEW k \in Calls, ReceiveMessage(k)
      PROVE  MarksNameTheirChat'
  BY <1>1, <1>2, <1>4, MessageTaken
<1>5. ASSUME NEW k \in Calls, ServerReads(k)
      PROVE  MarksNameTheirChat'
  BY <1>1, <1>5, PageRead DEF Loads
<1>6. ASSUME NEW k \in Calls, Put(k, NoCall)
      PROVE  MarksNameTheirChat'
  BY <1>1, <1>6, Freed
<1>7. ASSUME NEW k \in Calls, NEW p \in Peers \union {None}, FirstPage(k, p)
      PROVE  MarksNameTheirChat'
  BY <1>1, <1>7, PageAsked
<1>8. ASSUME NEW k \in Calls, Scroll(k) \/ ClickMore(k)
      PROVE  MarksNameTheirChat'
  <2>1. PICK at \in Seen : StartMore(k, at)
    BY <1>8 DEF Scroll, ClickMore, TypeOK, Captured, Seen
  <2>2. QED
    BY <1>1, <2>1, MoreAsked
<1>9. ASSUME NEW k \in Calls, RunEffects(k)
      PROVE  MarksNameTheirChat'
  BY <1>2, <1>7, <1>9 DEF RunEffects, TypeOK
<1>10. ASSUME NEW k \in Calls, NEW e \in Range(chats), SelectChat(k, e)
       PROVE  MarksNameTheirChat'
  <2>1. Range(chats) \subseteq [id : Peers, other : Peers]
    BY RangeIsOfSeq DEF TypeOK
  <2>2. e.id \in Peers
    BY <2>1
  <2>3. QED
    BY <1>7, <1>10, <2>2 DEF SelectChat
<1>11. ASSUME NEW k \in Calls,
              ChatsLoaded(k) \/ LoadFails(k) \/ MarkAnswered(k) \/ SearchAnswered(k) \/ CreateFails(k)
       PROVE  MarksNameTheirChat'
  BY <1>6, <1>11 DEF ChatsLoaded, LoadFails, MarkAnswered, SearchAnswered, CreateFails
<1>12. ASSUME NEW k \in Calls, ChatCreated(k)
       PROVE  MarksNameTheirChat'
  BY <1>1, <1>12, ChatTaken
<1>13. ASSUME NEW k \in Calls, SearchUser(k)
       PROVE  MarksNameTheirChat'
  BY <1>1, <1>13, SearchSent
<1>14. ASSUME NEW k \in Calls, CreateChat(k)
       PROVE  MarksNameTheirChat'
  <2>1. dialog.found \in Peers \union {None} /\ Put(k, Call("create", dialog.found, None))
    BY <1>14 DEF CreateChat, TypeOK
  <2>2. QED
    BY <1>1, <2>1, Sent
<1>15. ASSUME SendMessage \/ OpenDialog \/ CancelDialog \/ UNCHANGED vars \/ (\E p \in Peers : PeerWrites(p))
              \/ (\E e \in Typed : TypeEmail(e)) \/ (\E m \in New : StoreMessage(m))
       PROVE  UNCHANGED call
  BY <1>15 DEF SendMessage, OpenDialog, CancelDialog, PeerWrites, TypeEmail, StoreMessage, vars
<1>16. QED
  BY <1>2, <1>3, <1>4, <1>5, <1>8, <1>9, <1>10, <1>11, <1>12, <1>13, <1>14, <1>15 DEF Next, Answer, User

(***************************************************************************)
(* What goes on aside from the window: the dialog, the server, the peers.  *)
(***************************************************************************)

Aside ==
  \/ OpenDialog \/ CancelDialog
  \/ \E e \in Typed : TypeEmail(e)
  \/ \E p \in Peers : PeerWrites(p)
  \/ \E m \in New : StoreMessage(m)
  \/ \E k \in Calls : SearchUser(k) \/ SearchAnswered(k) \/ CreateChat(k) \/ CreateFails(k) \/ ServerReads(k)

SameRequest(l) ==
  /\ call'[l].kind = call[l].kind /\ call'[l].of = call[l].of
  /\ call'[l].chat = call[l].chat /\ call'[l].cursor = call[l].cursor

LEMMA AsideKeeps ==
  ASSUME TypeOK, ServerOK, RequestsOK, Aside
  PROVE  /\ UNCHANGED <<chats, window, closures, switched, doubled, crossed>>
         /\ \A l \in Calls :
              \/ SameRequest(l)
              \/ /\ call[l].of = "none" /\ call[l].kind \in {"none", "search", "create"}
                 /\ call'[l].of = "none" /\ call'[l].kind \in {"none", "search", "create"}
                 /\ call[l].kind = "none" => ~isLoading
<1>1. UNCHANGED <<chats, window, closures, switched, doubled, crossed>>
  BY DEF Aside, OpenDialog, CancelDialog, TypeEmail, PeerWrites, StoreMessage, SearchUser, SearchAnswered,
         CreateChat, CreateFails, ServerReads, history
<1>2. CASE UNCHANGED call
  BY <1>1, <1>2 DEF SameRequest
<1>3. ASSUME NEW k \in Calls, SearchUser(k) \/ SearchAnswered(k) \/ CreateChat(k) \/ CreateFails(k)
      PROVE  /\ Others(k) /\ call[k].of = "none" /\ call[k].kind \in {"none", "search", "create"}
             /\ call'[k].of = "none" /\ call'[k].kind \in {"none", "search", "create"}
             /\ call[k].kind = "none" => ~isLoading
  <2>1. call[k].kind \in {"none", "search", "create"} /\ call[k].of = "none"
    BY <1>3, OnlyMarksAreOf DEF SearchUser, SearchAnswered, CreateChat, CreateFails, Free
  <2>2. call[k].kind = "none" => ~isLoading
    BY <1>3 DEF SearchUser, SearchAnswered, CreateChat, CreateFails, DialogShown, Shown
  <2>3. CASE SearchUser(k)
    BY <2>1, <2>2, <2>3, SearchSent
  <2>4. CASE SearchAnswered(k) \/ CreateFails(k)
    BY <2>1, <2>2, <2>4, Freed DEF SearchAnswered, CreateFails
  <2>5. CASE CreateChat(k)
    <3>1. dialog.found \in Peers \union {None} /\ Put(k, Call("create", dialog.found, None))
      BY <2>5 DEF CreateChat, TypeOK
    <3>2. QED
      BY <2>1, <2>2, <3>1, Sent
  <2>6. QED
    BY <1>3, <2>3, <2>4, <2>5
<1>4. ASSUME NEW k \in Calls, ServerReads(k)
      PROVE  \A l \in Calls : SameRequest(l)
  BY <1>4, PageRead DEF Others, SameRequest
<1>5. CASE \E k \in Calls : SearchUser(k) \/ SearchAnswered(k) \/ CreateChat(k) \/ CreateFails(k)
  BY <1>1, <1>3, <1>5 DEF Others, SameRequest
<1>6. CASE \E k \in Calls : ServerReads(k)
  BY <1>1, <1>4, <1>6
<1>7. QED
  BY <1>2, <1>5, <1>6 DEF Aside, OpenDialog, CancelDialog, TypeEmail, PeerWrites, StoreMessage

LEMMA AsideLoads ==
  ASSUME TypeOK, ServerOK, RequestsOK, Aside, NEW K, K \subseteq {"chats", "load", "more"}
  PROVE  Loading(K)' = Loading(K) /\ \A l \in Loading(K) : SameRequest(l)
<1>1. \A l \in Calls : SameRequest(l) \/ (l \notin Loading(K) /\ l \notin Loading(K)')
  BY AsideKeeps DEF Loading
<1>2. QED
  BY <1>1 DEF Loading, SameRequest

(***************************************************************************)
(* The page.                                                               *)
(***************************************************************************)

LEMMA ChatsAreLoaded ==
  ASSUME ChatsComeFirst, NEW k \in Calls, Others(k), call'[k].kind # "chats",
         call[k].kind # "none" \/ ~isLoading \/ selected # None
  PROVE  ChatsComeFirst'
BY DEF ChatsComeFirst, Others, Free

\* A request for a page of messages, in a slot that was free.
LEMMA PageSent ==
  ASSUME RequestsOK, PageOK, NEW k \in Calls, Others(k), call[k].kind \in {"none", "create"},
         ~isLoading \/ selected # None \/ call[k].kind = "create",
         \/ call'[k].kind = "load" /\ isLoading' = TRUE /\ UNCHANGED isLoadingMore
         \/ call'[k].kind = "more" /\ isLoadingMore' = TRUE /\ UNCHANGED isLoading
  PROVE  ChatsComeFirst' /\ SpinnerHasRequest'
<1>1. call[k].of = "none"
  BY OnlyMarksAreOf
<1>2. ChatsComeFirst'
  BY ChatsAreLoaded DEF PageOK
<1>3. isLoading' => Loading({"chats", "load"})' # {}
  <2>1. call'[k].kind = "load" => k \in Loading({"chats", "load"})'
    BY LoadingMoves
  <2>2. k \notin Loading({"chats", "load"})
    BY <1>1, LoadingMoves
  <2>3. isLoading => Loading({"chats", "load"}) \ {k} # {}
    BY <2>2 DEF PageOK, SpinnerHasRequest
  <2>4. QED
    BY <2>1, <2>3, LoadingMoves
<1>4. isLoadingMore' => Loading({"more"})' # {}
  <2>1. call'[k].kind = "more" => k \in Loading({"more"})'
    BY LoadingMoves
  <2>2. k \notin Loading({"more"})
    BY <1>1, LoadingMoves
  <2>3. isLoadingMore => Loading({"more"}) \ {k} # {}
    BY <2>2 DEF PageOK, SpinnerHasRequest
  <2>4. QED
    BY <2>1, <2>3, LoadingMoves
<1>5. QED
  BY <1>2, <1>3, <1>4 DEF SpinnerHasRequest

\* A load of one kind has ended.
LEMMA LoadIsOver ==
  ASSUME RequestsOK, PageOK, NEW k \in Calls, Others(k), call[k].kind # "none", NEW kind \in {"none"} \union Loads,
         LoadEnds(kind), call'[k].kind = "none", call'[k].of = "none",
         call[k].kind = kind \/ (call[k].kind = "mark" /\ call[k].of = kind)
  PROVE  ChatsComeFirst' /\ SpinnerHasRequest'
<1>1. ChatsComeFirst'
  BY ChatsAreLoaded DEF PageOK
<1>2. call[k].of # "none" => call[k].kind = "mark"
  BY OnlyMarksAreOf
<1>3. isLoading' => isLoading /\ kind # "load"
  BY DEF LoadEnds
<1>4. isLoadingMore' => isLoadingMore /\ kind # "more"
  BY DEF LoadEnds
<1>5. isLoading' => Loading({"chats", "load"})' # {}
  <2>1. kind # "load" => k \notin Loading({"chats", "load"}) \/ call[k].kind = "chats"
    BY <1>2, LoadingMoves DEF Loads
  <2>2. call[k].kind # "chats"
    BY DEF Loads
  <2>3. isLoading' => Loading({"chats", "load"}) \ {k} # {}
    BY <1>3, <2>1, <2>2 DEF PageOK, SpinnerHasRequest
  <2>4. QED
    BY <2>3, LoadingMoves
<1>6. isLoadingMore' => Loading({"more"})' # {}
  <2>1. kind # "more" => k \notin Loading({"more"})
    BY <1>2, LoadingMoves DEF Loads
  <2>2. isLoadingMore' => Loading({"more"}) \ {k} # {}
    BY <1>4, <2>1 DEF PageOK, SpinnerHasRequest
  <2>3. QED
    BY <2>2, LoadingMoves
<1>7. QED
  BY <1>1, <1>5, <1>6 DEF SpinnerHasRequest

LEMMA PageStep ==
  ASSUME TypeOK, ServerOK, RequestsOK, PageOK, [Next]_vars
  PROVE  PageOK'
<1>a. selected = None => heard = None /\ messages = <<>> /\ Loading(Loads) = {}
  BY DEF PageOK, NothingSelected
<1>b. listener.on => ~isLoading /\ heard = selected /\ listener.at.chat = selected
  BY DEF PageOK, ListenerIsOfSelected
<1>c. \A p \in Peers : p # None
  BY ChatAssumption
<1>1. CASE Aside
  <2>1. UNCHANGED <<chats, window, closures, switched, doubled, crossed>>
    BY <1>1, AsideKeeps
  <2>2. \A K : K \subseteq {"chats", "load", "more"} => Loading(K)' = Loading(K)
    BY <1>1, AsideLoads
  <2>3. ChatsComeFirst'
    BY <1>1, <2>1, AsideKeeps DEF window, PageOK, ChatsComeFirst, SameRequest, Free
  <2>4. NothingSelected' /\ ListenerIsOfSelected'
    BY <2>1, <2>2, <1>a, <1>b DEF window, closures, NothingSelected, ListenerIsOfSelected, Loads
  <2>5. SpinnerHasRequest'
    BY <2>1, <2>2 DEF window, PageOK, SpinnerHasRequest
  <2>6. QED
    BY <2>3, <2>4, <2>5 DEF PageOK
<1>2. ASSUME NEW k \in Calls, RunEffects(k)
      PROVE  PageOK'
  <2>1. UNCHANGED <<selected, messages, isLoadingMore>> /\ heard' = selected
    BY <1>2 DEF RunEffects
  <2>2. CASE heard = selected
    <3>1. UNCHANGED <<call, isLoading>> /\ listener' = [on |-> ~isLoading /\ selected # None, at |-> Captured]
      BY <1>2, <2>2 DEF RunEffects
    <3>2. ListenerIsOfSelected'
      BY <2>1, <3>1 DEF ListenerIsOfSelected, Captured
    <3>3. QED
      BY <2>1, <2>2, <3>1, <3>2 DEF PageOK, ChatsComeFirst, NothingSelected, SpinnerHasRequest, Loading, Free
  <2>3. CASE heard # selected
    <3>1. FirstPage(k, selected) /\ selected \in Peers \union {None} /\ selected # None
      BY <1>2, <1>a, <2>3 DEF RunEffects, TypeOK
    <3>2. /\ Others(k) /\ call[k].kind = "none" /\ call'[k].kind = "load" /\ isLoading' = TRUE /\ ~listener'.on
      BY <3>1, PageAsked
    <3>3. ChatsComeFirst' /\ SpinnerHasRequest'
      BY <2>1, <3>1, <3>2, PageSent
    <3>4. NothingSelected' /\ ListenerIsOfSelected'
      BY <2>1, <3>1, <3>2 DEF NothingSelected, ListenerIsOfSelected
    <3>5. QED
      BY <3>3, <3>4 DEF PageOK
  <2>4. QED
    BY <2>2, <2>3
<1>3. ASSUME NEW k \in Calls, Scroll(k) \/ ClickMore(k)
      PROVE  PageOK'
  <2>1. PICK at \in Seen : StartMore(k, at)
    BY <1>3 DEF Scroll, ClickMore, TypeOK, Captured, Seen
  <2>2. Others(k) /\ call[k].kind = "none" /\ call'[k].kind = "more" /\ isLoadingMore' = TRUE
        /\ UNCHANGED <<selected, messages, isLoading, heard>>
    BY <2>1, MoreAsked
  <2>3. ~isLoading
    BY <1>3, <1>b DEF Scroll, ClickMore, MoreButton, Usable, Shown
  <2>4. selected # None
    BY <1>3, <1>b, <2>1, MoreAsked DEF Scroll, StartMore, ClickMore, MoreButton
  <2>5. ChatsComeFirst' /\ SpinnerHasRequest'
    BY <2>2, <2>3, PageSent
  <2>6. /\ listener'.on = listener.on /\ (listener.on => listener'.at.chat = selected)
    <3>1. CASE Scroll(k)
      BY <1>b, <3>1 DEF Scroll
    <3>2. CASE ClickMore(k)
      BY <3>2 DEF ClickMore, Captured
    <3>3. QED
      BY <1>3, <3>1, <3>2
  <2>7. NothingSelected' /\ ListenerIsOfSelected'
    BY <1>b, <2>2, <2>4, <2>6 DEF NothingSelected, ListenerIsOfSelected
  <2>8. QED
    BY <2>5, <2>7 DEF PageOK
<1>4. ASSUME NEW k \in Calls, ReceiveMessage(k)
      PROVE  PageOK'
  <2>1. UNCHANGED <<selected, isLoading, isLoadingMore, heard, listener>> /\ Others(k) /\ call[k].kind = "none"
    BY <1>4, MessageTaken
  <2>2. CASE UNCHANGED <<messages, call>>
    BY <1>a, <1>b, <2>1, <2>2 DEF PageOK, ChatsComeFirst, NothingSelected, ListenerIsOfSelected, SpinnerHasRequest, Loading, Free
  <2>3. CASE chatOf[Head(wire)] = heard /\ call'[k].kind = "mark" /\ call'[k].of = "none"
    <3>1. selected # None
      BY <1>4, <1>a, <2>3, MessageTaken DEF Written
    <3>2. ChatsComeFirst'
      BY <2>1, <2>3, <3>1, ChatsAreLoaded DEF PageOK
    <3>3. call[k].of = "none"
      BY <2>1, OnlyMarksAreOf
    <3>4. \A K : K \subseteq {"chats", "load", "more"} => Loading(K)' = Loading(K)
      BY <2>1, <2>3, <3>3, LoadingMoves
    <3>5. QED
      BY <1>b, <2>1, <3>1, <3>2, <3>4 DEF PageOK, NothingSelected, ListenerIsOfSelected, SpinnerHasRequest
  <2>4. QED
    BY <1>4, <2>2, <2>3, MessageTaken
<1>5. ASSUME NEW k \in Calls, ChatsLoaded(k)
      PROVE  PageOK'
  <2>1. /\ isLoading' = FALSE /\ UNCHANGED <<selected, messages, isLoadingMore, heard, listener>>
        /\ call[k].kind = "chats" /\ Others(k) /\ call'[k].kind = "none" /\ call'[k].of = "none"
    BY <1>5, Freed DEF ChatsLoaded, closures
  <2>2. call[k].of = "none"
    BY <2>1, OnlyMarksAreOf
  <2>3. ChatsComeFirst'
    BY <2>1, ChatsAreLoaded DEF PageOK
  <2>4. \A K : K \subseteq {"load", "more"} => Loading(K)' = Loading(K)
    BY <2>1, <2>2, LoadingMoves
  <2>5. QED
    BY <1>a, <1>b, <2>1, <2>3, <2>4 DEF PageOK, NothingSelected, ListenerIsOfSelected, SpinnerHasRequest, Loads
<1>6. ASSUME NEW k \in Calls, LoadAnswered(k) \/ LoadFails(k) \/ MarkAnswered(k)
      PROVE  /\ UNCHANGED <<selected, heard, listener>> /\ Others(k) /\ call[k].kind # "none"
             /\ selected = None => k \notin Loading(Loads)
             /\ Loading(Loads)' \subseteq Loading(Loads)
             /\ isLoading' => isLoading
             /\ ChatsComeFirst' /\ SpinnerHasRequest'
  <2>1. UNCHANGED <<selected, heard, listener>> /\ (selected = None => k \notin Loading(Loads))
    BY <1>6, <1>a DEF LoadAnswered, LoadFails, MarkAnswered, closures
  <2>2. CASE LoadAnswered(k) /\ call'[k].kind = "mark"
    <3>1. /\ Others(k) /\ call[k].kind \in Loads /\ call'[k].kind = "mark" /\ call'[k].of = call[k].kind
          /\ UNCHANGED <<isLoading, isLoadingMore>>
      BY <2>2, PageTaken
    <3>2. call[k].of = "none"
      BY <3>1, OnlyMarksAreOf DEF Loads
    <3>3. ChatsComeFirst'
      BY <3>1, ChatsAreLoaded DEF PageOK, Loads
    <3>4. \A K : K \subseteq {"chats", "load", "more"} => Loading(K)' = Loading(K)
      BY <3>1, <3>2, LoadingMoves DEF Loads
    <3>5. QED
      BY <2>1, <3>1, <3>3, <3>4 DEF PageOK, SpinnerHasRequest, Loads
  <2>3. ASSUME NEW kind \in {"none"} \union Loads, LoadEnds(kind), Others(k), call[k].kind # "none",
               call[k].kind = kind \/ (call[k].kind = "mark" /\ call[k].of = kind),
               call'[k].kind = "none", call'[k].of = "none"
        PROVE  /\ Others(k) /\ call[k].kind # "none" /\ Loading(Loads)' \subseteq Loading(Loads)
               /\ isLoading' => isLoading
               /\ ChatsComeFirst' /\ SpinnerHasRequest'
    <3>1. ChatsComeFirst' /\ SpinnerHasRequest'
      BY <2>3, LoadIsOver
    <3>2. Loading(Loads)' \subseteq Loading(Loads)
      BY <2>3, LoadingMoves DEF Loads
    <3>3. isLoading' => isLoading
      BY <2>3 DEF LoadEnds
    <3>4. QED
      BY <2>3, <3>1, <3>2, <3>3
  <2>4. CASE LoadAnswered(k) /\ call'[k].kind # "mark"
    BY <2>1, <2>3, <2>4, PageTaken DEF Loads
  <2>5. CASE LoadFails(k)
    BY <2>1, <2>3, <2>5, Freed DEF LoadFails, Loads
  <2>6. CASE MarkAnswered(k)
    <3>1. call[k].of \in {"none"} \union Loads
      BY DEF TypeOK, Requests
    <3>2. QED
      BY <2>1, <2>3, <2>6, <3>1, Freed DEF MarkAnswered
  <2>7. QED
    BY <1>6, <2>2, <2>4, <2>5, <2>6
<1>7. ASSUME NEW k \in Calls, LoadAnswered(k) \/ LoadFails(k) \/ MarkAnswered(k)
      PROVE  PageOK'
  <2>1. LoadAnswered(k) => k \in Loading(Loads)
    BY DEF LoadAnswered, Loading
  <2>2. selected = None => messages' = <<>>
    BY <1>6, <1>7, <1>a, <2>1 DEF LoadFails, MarkAnswered
  <2>3. QED
    BY <1>6, <1>7, <1>a, <1>b, <2>2 DEF PageOK, NothingSelected, ListenerIsOfSelected
<1>8. ASSUME NEW k \in Calls, ChatCreated(k)
      PROVE  PageOK'
  <2>1. ChatsComeFirst' /\ SpinnerHasRequest'
    BY <1>8, ChatTaken, PageSent
  <2>2. QED
    BY <1>8, <1>c, <2>1, ChatTaken DEF PageOK, NothingSelected, ListenerIsOfSelected
<1>9. ASSUME NEW k \in Calls, NEW e \in Range(chats), SelectChat(k, e)
      PROVE  PageOK'
  <2>1. Range(chats) \subseteq [id : Peers, other : Peers]
    BY RangeIsOfSeq DEF TypeOK
  <2>2. e.id \in Peers /\ FirstPage(k, e.id) /\ selected' = e.id /\ ~isLoading /\ UNCHANGED isLoadingMore
    BY <1>9, <2>1 DEF SelectChat, Usable, Shown
  <2>3. Others(k) /\ call[k].kind = "none" /\ call'[k].kind = "load" /\ isLoading' = TRUE /\ ~listener'.on
    BY <2>2, PageAsked
  <2>4. ChatsComeFirst' /\ SpinnerHasRequest'
    BY <2>2, <2>3, PageSent
  <2>5. QED
    BY <1>c, <2>2, <2>3, <2>4 DEF PageOK, NothingSelected, ListenerIsOfSelected
<1>10. CASE SendMessage
  <2>1. UNCHANGED <<selected, isLoading, isLoadingMore, heard, listener, call>> /\ selected # None
    BY <1>10 DEF SendMessage, CanSend, closures
  <2>2. QED
    BY <1>b, <2>1 DEF PageOK, ChatsComeFirst, NothingSelected, ListenerIsOfSelected, SpinnerHasRequest, Loading, Free
<1>11. CASE UNCHANGED vars
  BY <1>11 DEF vars, window, closures, PageOK, ChatsComeFirst, NothingSelected, ListenerIsOfSelected, SpinnerHasRequest, Loading, Free
<1>12. QED
  BY <1>1, <1>2, <1>3, <1>4, <1>5, <1>7, <1>8, <1>9, <1>10, <1>11 DEF Next, Answer, User, Aside

(***************************************************************************)
(* The list of chats.                                                      *)
(***************************************************************************)

LEMMA ListStep ==
  ASSUME TypeOK, ServerOK, RequestsOK, PageOK, ListOK, [Next]_vars
  PROVE  ListOK'
<1>1. ASSUME UNCHANGED <<chats, clicked>>,
             \A l \in Calls : call'[l].kind = "create" => call[l].kind = "create" /\ call'[l].chat = call[l].chat
      PROVE  ListOK'
  <2>1. CreatedIsNew'
    BY <1>1 DEF ListOK, CreatedIsNew
  <2>2. QED
    BY <1>1, <2>1 DEF ListOK, ListedOnceUnderItsUser
<1>2. ASSUME NEW k \in Calls, Others(k), call'[k].kind # "create", UNCHANGED <<chats, clicked>>
      PROVE  ListOK'
  BY <1>1, <1>2 DEF Others
<1>3. ASSUME UNCHANGED <<chats, clicked, call>>
      PROVE  ListOK'
  BY <1>1, <1>3
<1>4. ASSUME NEW k \in Calls, RunEffects(k)
      PROVE  ListOK'
  <2>1. UNCHANGED <<chats, clicked>>
    BY <1>4 DEF RunEffects
  <2>2. CASE heard = selected
    BY <1>3, <1>4, <2>1, <2>2 DEF RunEffects
  <2>3. CASE heard # selected
    <3>1. FirstPage(k, selected) /\ selected \in Peers \union {None}
      BY <1>4, <2>3 DEF RunEffects, TypeOK
    <3>2. QED
      BY <1>2, <2>1, <3>1, PageAsked
  <2>4. QED
    BY <2>2, <2>3
<1>5. ASSUME NEW k \in Calls, Scroll(k) \/ ClickMore(k)
      PROVE  ListOK'
  <2>1. PICK at \in Seen : StartMore(k, at)
    BY <1>5 DEF Scroll, ClickMore, TypeOK, Captured, Seen
  <2>2. QED
    BY <1>2, <2>1, MoreAsked
<1>6. ASSUME NEW k \in Calls, ReceiveMessage(k)
      PROVE  ListOK'
  BY <1>2, <1>3, <1>6, MessageTaken
<1>7. ASSUME NEW k \in Calls, LoadAnswered(k)
      PROVE  ListOK'
  <2>1. UNCHANGED <<chats, clicked>>
    BY <1>7 DEF LoadAnswered, history
  <2>2. QED
    BY <1>2, <1>7, <2>1, PageTaken
<1>8. ASSUME NEW k \in Calls, LoadFails(k) \/ MarkAnswered(k) \/ SearchAnswered(k) \/ CreateFails(k)
      PROVE  ListOK'
  <2>1. UNCHANGED <<chats, clicked>> /\ Put(k, NoCall)
    BY <1>8 DEF LoadFails, MarkAnswered, SearchAnswered, CreateFails, history
  <2>2. QED
    BY <1>2, <2>1, Freed
<1>9. ASSUME NEW k \in Calls, ServerReads(k)
      PROVE  ListOK'
  <2>1. UNCHANGED <<chats, clicked>>
    BY <1>9 DEF ServerReads, history
  <2>2. QED
    BY <1>2, <1>9, <2>1, PageRead DEF Loads
<1>10. ASSUME NEW k \in Calls, NEW e \in Range(chats), SelectChat(k, e)
       PROVE  ListOK'
  <2>1. Range(chats) \subseteq [id : Peers, other : Peers]
    BY RangeIsOfSeq DEF TypeOK
  <2>2. e.id \in Peers \union {None} /\ FirstPage(k, e.id) /\ UNCHANGED <<chats, clicked>>
    BY <1>10, <2>1 DEF SelectChat
  <2>3. QED
    BY <1>2, <2>2, PageAsked
<1>11. ASSUME NEW k \in Calls, SearchUser(k)
       PROVE  ListOK'
  <2>1. UNCHANGED <<chats, clicked>>
    BY <1>11 DEF SearchUser, history
  <2>2. QED
    BY <1>2, <1>11, <2>1, SearchSent
<1>12. ASSUME NEW k \in Calls, CreateChat(k)
       PROVE  ListOK'
  <2>1. /\ dialog.found \in Peers \union {None} /\ Put(k, Call("create", dialog.found, None)) /\ UNCHANGED chats
        /\ clicked' = (clicked \/ (\E l \in Calls : call[l].kind = "create")
                               \/ \E e \in Range(chats) : e.id = dialog.found)
    BY <1>12 DEF CreateChat, TypeOK
  <2>2. Others(k) /\ call'[k].kind = "create" /\ call'[k].chat = dialog.found
    BY <2>1, Sent
  <2>3. ASSUME ~clicked'
        PROVE  /\ ~clicked /\ \A l \in Calls : call[l].kind # "create"
               /\ \A i \in DOMAIN chats : chats[i].id # dialog.found
    BY <2>1, <2>3 DEF Range
  <2>4. CreatedIsNew'
    BY <2>1, <2>2, <2>3 DEF CreatedIsNew, Others
  <2>5. ListedOnceUnderItsUser'
    BY <2>1, <2>3 DEF ListOK, ListedOnceUnderItsUser
  <2>6. QED
    BY <2>4, <2>5 DEF ListOK
<1>13. ASSUME NEW k \in Calls, ChatCreated(k)
       PROVE  ListOK'
  <2>1. /\ Others(k) /\ call[k].kind = "create" /\ call'[k].kind = "load" /\ UNCHANGED clicked
        /\ call[k].chat \in Peers
    BY <1>13, ChatTaken
  <2> DEFINE e == [id |-> call[k].chat, other |-> call[k].chat]
  <2>2. /\ \A i \in DOMAIN chats' : \/ chats'[i] = e /\ i = 1
                                    \/ i # 1 /\ i - 1 \in DOMAIN chats /\ chats'[i] = chats[i - 1]
    <3>1. chats' = <<e>> \o chats
      BY <1>13 DEF ChatCreated
    <3>2. <<e>> \in Seq([id : Peers, other : Peers]) /\ chats \in Seq([id : Peers, other : Peers])
      BY <2>1 DEF TypeOK
    <3>3. DOMAIN <<e>> = {1} /\ Len(<<e>>) = 1 /\ <<e>>[1] = e
      OBVIOUS
    <3>4. QED
      <4> HIDE DEF e
      <4>1. QED
        BY <3>1, <3>2, <3>3, RangeOfConcat
  <2>3. ~clicked => /\ \A i \in DOMAIN chats : chats[i].id # call[k].chat
                    /\ \A l \in Calls \ {k} : call[l].kind # "create"
    BY <2>1 DEF ListOK, CreatedIsNew
  <2>4. CreatedIsNew'
    BY <2>1, <2>3 DEF CreatedIsNew, Others
  <2>5. \A i \in DOMAIN chats' : chats'[i].other = chats'[i].id
    BY <2>2 DEF ListOK, ListedOnceUnderItsUser
  <2>6. ASSUME NEW i \in DOMAIN chats', NEW j \in DOMAIN chats', i # j, chats'[i].id = chats'[j].id, ~clicked
        PROVE  FALSE
    <3>1. CASE i = 1
      BY <2>2, <2>3, <2>6, <3>1
    <3>2. CASE j = 1
      BY <2>2, <2>3, <2>6, <3>2
    <3>3. CASE i # 1 /\ j # 1
      <4>1. /\ i - 1 \in DOMAIN chats /\ chats'[i] = chats[i - 1]
            /\ j - 1 \in DOMAIN chats /\ chats'[j] = chats[j - 1]
        BY <2>2, <3>3
      <4>2. i \in Nat /\ j \in Nat
        <5>1. chats' \in Seq([id : Peers, other : Peers])
          BY ChatTypeStep DEF TypeOK
        <5>2. QED
          BY <5>1, RangeIsOfSeq
      <4>3. i - 1 # j - 1
        BY <2>6, <4>2
      <4>4. QED
        BY <2>6, <4>1, <4>3 DEF ListOK, ListedOnceUnderItsUser
    <3>4. QED
      BY <3>1, <3>2, <3>3
  <2>7. ListedOnceUnderItsUser'
    BY <2>1, <2>5, <2>6 DEF ListedOnceUnderItsUser
  <2>8. QED
    BY <2>4, <2>7 DEF ListOK
<1>14. ASSUME NEW k \in Calls, ChatsLoaded(k)
       PROVE  ListOK'
  <2>1. Others(k) /\ call[k].kind = "chats" /\ call'[k].kind = "none" /\ UNCHANGED clicked
    BY <1>14, Freed DEF ChatsLoaded, history
  <2>2. \A l \in Calls : call'[l].kind # "create"
    BY <2>1 DEF PageOK, ChatsComeFirst, Free, Others
  <2>3. CASE chats' = <<>>
    BY <2>2, <2>3, EmptySeq DEF ListOK, CreatedIsNew, ListedOnceUnderItsUser
  <2>4. ASSUME NEW list \in SetToSeqs(hasChat), chats' = [i \in DOMAIN list |-> [id |-> list[i], other |-> list[i]]]
        PROVE  ListOK'
    <3>1. IsFiniteSet(hasChat)
      BY ChatAssumption, FS_Subset DEF TypeOK
    <3>2. \A i, j \in DOMAIN list : list[i] = list[j] => i = j
      BY <3>1, ListOfSet DEF IsInjective
    <3>3. ListedOnceUnderItsUser'
      BY <2>4, <3>2 DEF ListedOnceUnderItsUser
    <3>4. QED
      BY <2>2, <3>3 DEF ListOK, CreatedIsNew
  <2>5. QED
    BY <1>14, <2>3, <2>4 DEF ChatsLoaded
<1>15. ASSUME SendMessage \/ OpenDialog \/ CancelDialog \/ UNCHANGED vars \/ (\E p \in Peers : PeerWrites(p))
              \/ (\E e \in Typed : TypeEmail(e)) \/ (\E m \in New : StoreMessage(m))
       PROVE  UNCHANGED <<chats, clicked, call>>
  BY <1>15 DEF SendMessage, OpenDialog, CancelDialog, PeerWrites, TypeEmail, StoreMessage, vars, history
<1>16. QED
  BY <1>3, <1>4, <1>5, <1>6, <1>7, <1>8, <1>9, <1>10, <1>11, <1>12, <1>13, <1>14, <1>15 DEF Next, Answer, User

(***************************************************************************)
(* The window until the selection moves during a load.                     *)
(***************************************************************************)

LEMMA SlotIsLeft ==
  ASSUME NEW k \in Calls, call'[k].kind = "none"
  PROVE  ~NoSlotFree'
BY DEF NoSlotFree, Free

\* A first page of chat p is asked for, which is the selected one from now on.
LEMMA SwitchSent ==
  ASSUME RequestsOK, SwitchOK, NEW k \in Calls, Others(k), call[k].kind \in {"none", "create"}, NEW p,
         call'[k].kind = "load", call'[k].chat = p, call'[k].of = "none", selected' = p,
         switched' = (switched \/ \E l \in Loading(Loads) : call[l].chat # p),
         isLoading' = TRUE, UNCHANGED <<messages, chatOf>>
  PROVE  SwitchOK'
<1> SUFFICES ASSUME ~switched'
             PROVE  LoadsAreOfSelected' /\ ForeignWaits' /\ LagHasLoad'
  BY DEF SwitchOK
<1>1. ~switched /\ \A l \in Loading(Loads) : call[l].chat = p
  OBVIOUS
<1>2. LoadsAreOfSelected /\ ForeignWaits /\ LagHasLoad
  BY <1>1 DEF SwitchOK
<1>3. k \notin Loading(Loads) /\ Loading(Loads)' = Loading(Loads) \union {k}
  <2>1. call[k].of = "none"
    BY OnlyMarksAreOf
  <2>2. QED
    BY <2>1, LoadingMoves DEF Loads
<1>4. \A l \in Loading(Loads)' : l # k => l \in Loading(Loads) /\ call'[l] = call[l]
  BY <1>3 DEF Others, Loading
<1>5. LoadsAreOfSelected'
  BY <1>1, <1>3, <1>4 DEF LoadsAreOfSelected
<1>6. ForeignWaits'
  <2>1. CASE p = selected
    BY <1>2, <1>3, <1>4, <2>1 DEF ForeignWaits, Foreign
  <2>2. CASE p # selected
    <3>1. Loading(Loads) = {}
      BY <1>1, <1>2, <2>2 DEF LoadsAreOfSelected
    <3>2. QED
      BY <1>3, <1>4, <3>1 DEF ForeignWaits
  <2>3. QED
    BY <2>1, <2>2
<1>7. LagHasLoad'
  BY LoadingMoves DEF LagHasLoad
<1>8. QED
  BY <1>5, <1>6, <1>7

\* What the handler of a chat lags behind is being loaded, if the page gets on
\* without the effects.
LEMMA SwitchStep ==
  ASSUME TypeOK, ServerOK, RequestsOK, PageOK, SwitchOK, [Next]_vars
  PROVE  SwitchOK'
<1>a. \A m \in Range(messages) : m \in Written
  BY DEF ServerOK
<1>b. LogGrows
  BY ServerStep
<1>c. ~isLoading /\ ~switched => ~Foreign
  BY DEF SwitchOK, ForeignWaits
<1>1. CASE Aside /\ (Fresh \/ NoSlotFree)
  <2>1. UNCHANGED <<chats, window, closures, switched, doubled, crossed>>
    BY <1>1, AsideKeeps
  <2>2. \A K : K \subseteq {"chats", "load", "more"} => Loading(K)' = Loading(K) /\ \A l \in Loading(K) : SameRequest(l)
    BY <1>1, AsideLoads
  <2>3. Loading(Loads)' = Loading(Loads) /\ Loading({"load"})' = Loading({"load"})
        /\ \A l \in Loading(Loads) : SameRequest(l)
    BY <2>2 DEF Loads
  <2>4. Foreign' => Foreign
    BY <1>a, <1>b, <2>1 DEF Foreign, window, LogGrows
  <2>5. LoadsAreOfSelected => LoadsAreOfSelected'
    BY <2>1, <2>3 DEF LoadsAreOfSelected, SameRequest, window
  <2>6. ForeignWaits => ForeignWaits'
    BY <2>1, <2>3, <2>4 DEF ForeignWaits, SameRequest, window
  <2>7. LagHasLoad => LagHasLoad'
    BY <1>1, <2>1, <2>3 DEF LagHasLoad, window, closures, Fresh
  <2>8. QED
    BY <2>1, <2>5, <2>6, <2>7 DEF SwitchOK
<1>2. ASSUME NEW k \in Calls, RunEffects(k)
      PROVE  SwitchOK'
  <2>1. UNCHANGED <<selected, messages, chatOf>> /\ heard' = selected
    BY <1>2 DEF RunEffects, server
  <2>2. CASE heard = selected
    <3>1. UNCHANGED <<call, isLoading, switched>>
      BY <1>2, <2>2 DEF RunEffects
    <3>2. QED
      BY <2>1, <3>1 DEF SwitchOK, LoadsAreOfSelected, ForeignWaits, Foreign, LagHasLoad, Loading
  <2>3. CASE heard # selected
    <3>1. FirstPage(k, selected) /\ selected \in Peers \union {None}
      BY <1>2, <2>3 DEF RunEffects, TypeOK
    <3>2. QED
      BY <2>1, <3>1, PageAsked, SwitchSent
  <2>4. QED
    BY <2>2, <2>3
<1>3. ASSUME NEW k \in Calls, NEW e \in Range(chats), SelectChat(k, e)
      PROVE  SwitchOK'
  <2>1. Range(chats) \subseteq [id : Peers, other : Peers]
    BY RangeIsOfSeq DEF TypeOK
  <2>2. e.id \in Peers \union {None} /\ FirstPage(k, e.id) /\ selected' = e.id /\ UNCHANGED <<messages, chatOf>>
    BY <1>3, <2>1 DEF SelectChat, server
  <2>3. QED
    BY <2>2, PageAsked, SwitchSent
<1>4. ASSUME NEW k \in Calls, ChatCreated(k)
      PROVE  SwitchOK'
  <2>1. UNCHANGED chatOf
    BY <1>4 DEF ChatCreated
  <2>2. QED
    BY <1>4, <2>1, ChatTaken, SwitchSent
<1>5. ASSUME NEW k \in Calls, Scroll(k) \/ ClickMore(k), Scroll(k) \/ Fresh \/ NoSlotFree
      PROVE  SwitchOK'
  <2>1. PICK at \in Seen : StartMore(k, at) /\ at = IF Scroll(k) THEN listener.at ELSE Captured
    BY <1>5 DEF Scroll, ClickMore, TypeOK, Captured, Seen
  <2>2. /\ Others(k) /\ call[k].kind = "none" /\ call'[k].kind = "more" /\ call'[k].chat = at.chat /\ call'[k].of = "none"
        /\ UNCHANGED <<selected, messages, isLoading, heard, chatOf>>
        /\ switched' = (switched \/ \E l \in Loading(Loads) : call[l].chat # at.chat)
    BY <2>1, MoreAsked DEF server
  <2>3. ~isLoading /\ at.chat = selected /\ heard = selected
    <3>1. CASE Scroll(k)
      BY <2>1, <3>1 DEF Scroll, PageOK, ListenerIsOfSelected
    <3>2. CASE ~Scroll(k)
      <4>1. ClickMore(k) /\ at = Captured
        BY <1>5, <2>1, <3>2
      <4>2. Fresh
        BY <1>5, <2>2, <3>2 DEF NoSlotFree, Free
      <4>3. QED
        BY <4>1, <4>2 DEF ClickMore, MoreButton, Usable, Shown, Captured, Fresh
    <3>3. QED
      BY <3>1, <3>2
  <2>4. k \notin Loading(Loads) /\ Loading(Loads)' = Loading(Loads) \union {k}
    <3>1. call[k].of = "none"
      BY <2>2, OnlyMarksAreOf
    <3>2. QED
      BY <2>2, <3>1, LoadingMoves DEF Loads
  <2>5. \A l \in Loading(Loads)' : l # k => l \in Loading(Loads) /\ call'[l] = call[l]
    BY <2>2, <2>4 DEF Others, Loading
  <2>6. LoadsAreOfSelected => LoadsAreOfSelected'
    BY <2>2, <2>3, <2>4, <2>5 DEF LoadsAreOfSelected
  <2>7. ~switched => ForeignWaits'
    BY <1>c, <2>2, <2>3 DEF ForeignWaits, Foreign
  <2>8. LagHasLoad'
    BY <2>2, <2>3 DEF LagHasLoad
  <2>9. QED
    BY <2>2, <2>6, <2>7, <2>8 DEF SwitchOK
<1>6. ASSUME NEW k \in Calls, ReceiveMessage(k)
      PROVE  SwitchOK'
  <2> SUFFICES ASSUME ~switched'
               PROVE  LoadsAreOfSelected' /\ ForeignWaits' /\ LagHasLoad'
    BY DEF SwitchOK
  <2>1. /\ UNCHANGED <<chatOf, selected, isLoading, heard>> /\ Others(k) /\ call[k].kind = "none"
        /\ ~switched /\ heard = selected
    BY <1>6, MessageTaken
  <2>2. Loading(Loads)' = Loading(Loads) /\ \A l \in Loading(Loads) : call'[l] = call[l]
    <3>1. call[k].of = "none"
      BY <2>1, OnlyMarksAreOf
    <3>2. k \notin Loading(Loads)
      BY <2>1, <3>1 DEF Loading, Loads
    <3>3. UNCHANGED call \/ (call'[k].kind = "mark" /\ call'[k].of = "none")
      BY <1>6, MessageTaken
    <3>4. k \notin Loading(Loads)'
      BY <3>2, <3>3 DEF Loading, Loads
    <3>5. Loading(Loads)' \ {k} = Loading(Loads) \ {k}
      BY <2>1, LoadingMoves
    <3>6. \A l \in Loading(Loads) : l \in Calls /\ l # k
      BY <3>2 DEF Loading
    <3>7. QED
      BY <2>1, <3>2, <3>4, <3>5, <3>6 DEF Others
  <2>3. Foreign' => Foreign
    <3>1. CASE UNCHANGED messages
      BY <2>1, <3>1 DEF Foreign
    <3>2. CASE messages' = Append(messages, Head(wire)) /\ chatOf[Head(wire)] = heard
      <4>1. Head(wire) \in Ids
        BY <1>6, MessageTaken DEF Written
      <4>2. Range(messages') = Range(messages) \union {Head(wire)}
        BY <3>2, <4>1, RangeOfAppend DEF TypeOK
      <4>3. QED
        BY <2>1, <3>2, <4>2 DEF Foreign
    <3>3. QED
      BY <1>6, <3>1, <3>2, MessageTaken
  <2>4. LoadsAreOfSelected /\ ForeignWaits
    BY <2>1 DEF SwitchOK
  <2>5. QED
    BY <2>1, <2>2, <2>3, <2>4 DEF LoadsAreOfSelected, ForeignWaits, LagHasLoad
<1>7. ASSUME NEW k \in Calls, ChatsLoaded(k)
      PROVE  SwitchOK'
  <2>1. /\ UNCHANGED <<selected, messages, chatOf, heard, switched>> /\ call[k].kind = "chats"
        /\ Others(k) /\ call'[k].kind = "none" /\ call'[k].of = "none"
    BY <1>7, Freed DEF ChatsLoaded, closures, server, history
  <2>2. selected = None /\ heard = None /\ messages = <<>> /\ Loading(Loads) = {}
    BY <2>1 DEF PageOK, ChatsComeFirst, NothingSelected
  <2>3. Loading(Loads)' = {}
    <3>1. Loading(Loads)' \ {k} = {} /\ k \notin Loading(Loads)'
      BY <2>1, <2>2, LoadingMoves DEF Loads
    <3>2. QED
      BY <3>1
  <2>4. ~Foreign'
    BY <2>1, <2>2, EmptySeq DEF Foreign, Range
  <2>5. QED
    BY <2>1, <2>2, <2>3, <2>4 DEF SwitchOK, LoadsAreOfSelected, ForeignWaits, LagHasLoad
<1>8. ASSUME NEW k \in Calls, LoadAnswered(k) \/ LoadFails(k) \/ MarkAnswered(k), Fresh \/ NoSlotFree
      PROVE  SwitchOK'
  <2> SUFFICES ASSUME ~switched'
               PROVE  LoadsAreOfSelected' /\ ForeignWaits' /\ LagHasLoad'
    BY DEF SwitchOK
  <2>1. UNCHANGED <<selected, chatOf, heard, switched>>
    BY <1>8 DEF LoadAnswered, LoadFails, MarkAnswered, closures, server, history
  <2>2. LoadsAreOfSelected /\ ForeignWaits /\ LagHasLoad
    BY <2>1 DEF SwitchOK
  <2>3. /\ Others(k)
        /\ \/ call'[k].kind = "none" /\ call'[k].of = "none"
           \/ /\ LoadAnswered(k) /\ call[k].kind \in Loads
              /\ call'[k].kind = "mark" /\ call'[k].of = call[k].kind /\ call'[k].chat = call[k].chat
    BY <1>8, PageTaken, Freed DEF LoadFails, MarkAnswered
  <2>4. /\ Loading(Loads)' \subseteq Loading(Loads)
        /\ \A l \in Loading(Loads)' : call'[l].chat = call[l].chat /\ (l # k => call'[l] = call[l])
    <3>1. Loading(Loads)' \ {k} = Loading(Loads) \ {k} /\ (k \in Loading(Loads)' => k \in Loading(Loads))
      BY <2>3, LoadingMoves DEF Loads
    <3>2. \A l \in Loading(Loads)' : l \in Calls
      BY DEF Loading
    <3>3. k \in Loading(Loads)' => call'[k].chat = call[k].chat
      BY <2>3, LoadingMoves DEF Loads
    <3>4. QED
      BY <2>3, <3>1, <3>2, <3>3 DEF Others
  <2>5. LoadsAreOfSelected'
    BY <2>1, <2>2, <2>4 DEF LoadsAreOfSelected
  <2>6. LagHasLoad'
    <3>1. CASE call'[k].kind = "none"
      BY <3>1, SlotIsLeft DEF LagHasLoad
    <3>2. CASE call'[k].kind = "mark"
      <4>1. heard # selected => NoSlotFree
        BY <1>8 DEF Fresh
      <4>2. Loading({"load"})' = Loading({"load"})
        <5>1. call'[k].of = call[k].kind /\ call[k].kind \in Loads /\ call[k].of = "none"
          BY <2>3, <3>2, OnlyMarksAreOf DEF Loads
        <5>2. k \in Loading({"load"})' <=> k \in Loading({"load"})
          BY <2>3, <3>2, <5>1, LoadingMoves DEF Loads
        <5>3. Loading({"load"})' \ {k} = Loading({"load"}) \ {k}
          BY <2>3, LoadingMoves
        <5>4. QED
          BY <5>2, <5>3
      <4>3. QED
        BY <2>1, <2>2, <4>1, <4>2 DEF LagHasLoad
    <3>3. QED
      BY <2>3, <3>1, <3>2
  <2>7. ForeignWaits'
    <3>1. CASE LoadAnswered(k)
      <4>1. /\ call[k].kind \in Loads /\ call[k].stage = "read" /\ call[k].ids \in Seq(Ids)
            /\ call[k].kind = "more" => messages' = call[k].ids \o messages
            /\ call[k].kind = "load" => messages' = call[k].ids
        BY <3>1, PageTaken
      <4>2. k \in Loading(Loads) /\ call[k].chat = selected
        BY <2>2, <4>1 DEF Loading, LoadsAreOfSelected
      <4>3. \A m \in Range(call[k].ids) : chatOf[m] = selected
        BY <4>1, <4>2 DEF RequestsOK, RequestOK, AnswerOK, Before
      <4>4. call[k].kind = "more" => ~Foreign
        BY <2>2, <4>2 DEF ForeignWaits
      <4>5. \A m \in Range(messages') : chatOf[m] = selected
        <5>1. CASE call[k].kind = "load"
          BY <4>1, <4>3, <5>1
        <5>2. CASE call[k].kind = "more"
          <6>1. messages \in Seq(Ids) /\ messages' = call[k].ids \o messages
            BY <4>1, <5>2 DEF TypeOK
          <6>2. Range(messages') = Range(call[k].ids) \union Range(messages)
            BY <4>1, <6>1, RangeOfConcat
          <6>3. QED
            BY <4>3, <4>4, <5>2, <6>2 DEF Foreign
        <5>3. QED
          BY <4>1, <5>1, <5>2 DEF Loads
      <4>6. QED
        BY <2>1, <4>5 DEF ForeignWaits, Foreign
    <3>2. CASE LoadFails(k)
      BY <3>2, EmptySeq DEF LoadFails, ForeignWaits, Foreign, Range
    <3>3. CASE MarkAnswered(k)
      <4>1. messages' = messages /\ call[k].kind = "mark" /\ LoadEnds(call[k].of)
        BY <3>3 DEF MarkAnswered
      <4>2. Foreign' <=> Foreign
        BY <2>1, <4>1 DEF Foreign
      <4>3. Foreign => isLoading /\ k \notin Loading(Loads)
        BY <2>2, <4>1 DEF ForeignWaits
      <4>4. k \notin Loading(Loads) => isLoading' = isLoading
        BY <4>1 DEF Loading, Loads, LoadEnds
      <4>5. QED
        BY <2>2, <2>4, <4>2, <4>3, <4>4 DEF ForeignWaits
    <3>4. QED
      BY <1>8, <3>1, <3>2, <3>3
  <2>8. QED
    BY <2>5, <2>6, <2>7
<1>9. CASE SendMessage
  <2>1. PICK m \in New : /\ chatOf[m] = None /\ chatOf' = [chatOf EXCEPT ![m] = selected]
                         /\ messages' = Append(messages, m)
    BY <1>9 DEF SendMessage
  <2>2. UNCHANGED <<selected, isLoading, heard, call, switched>> /\ ~isLoading /\ selected # None
    BY <1>9 DEF SendMessage, closures, history, CanSend, Usable, Shown
  <2>3. m \in Ids /\ Range(messages') = Range(messages) \union {m}
    BY <2>1, RangeOfAppend DEF TypeOK, Ids
  <2>4. chatOf'[m] = selected /\ \A n \in Range(messages) : chatOf'[n] = chatOf[n]
    BY <1>a, <1>b, <2>1, <2>3 DEF LogGrows, TypeOK
  <2>5. Foreign' => Foreign
    BY <2>2, <2>3, <2>4 DEF Foreign
  <2>6. QED
    BY <1>c, <2>2, <2>5 DEF SwitchOK, LoadsAreOfSelected, ForeignWaits, LagHasLoad, Loading, NoSlotFree, Free
<1>10. CASE UNCHANGED vars
  BY <1>10 DEF vars, server, window, closures, history, SwitchOK, LoadsAreOfSelected, ForeignWaits, Foreign, LagHasLoad,
               Loading, NoSlotFree, Free
<1>11. QED
  BY <1>1, <1>2, <1>3, <1>4, <1>5, <1>6, <1>7, <1>8, <1>9, <1>10 DEF Next, Answer, User, Aside

(***************************************************************************)
(* Cursors.                                                                *)
(***************************************************************************)

LEMMA CursorsStep ==
  ASSUME TypeOK, ServerOK, RequestsOK, CursorsAreStored, [Next]_vars
  PROVE  CursorsAreStored'
<1>a. log \in Seq(Ids) /\ log' \in Seq(Ids) /\ Range(log) \subseteq Written /\ LogGrows
  BY ChatTypeStep, ServerStep DEF TypeOK, ServerOK
<1>b. ASSUME NEW l \in Calls, call'[l] = call[l], call[l].kind \in Loads, call[l].stage = "read", call[l].more
      PROVE  PageFrom(call[l].chat, call[l].ids[1])'
  <2>1. PICK p, c : p = call[l].chat /\ c = call[l].ids[1]
    OBVIOUS
  <2>2. PageFrom(p, c)
    BY <1>b, <2>1 DEF CursorsAreStored
  <2>3. PageFrom(p, c)'
    BY <1>a, <2>2, PageStays
  <2>4. call'[l].chat = p /\ call'[l].ids[1] = c
    BY <1>b, <2>1
  <2>5. QED
    BY <2>3, <2>4 DEF PageFrom, Since, Older
<1>c. nextCursor' \in {nextCursor, None} => (nextCursor' # None => nextCursor' \in Range(log'))
  BY <1>a DEF CursorsAreStored, LogGrows
<1>1. ASSUME nextCursor' \in {nextCursor, None}, NEW k \in Calls, Others(k),
             call'[k].kind \in Loads => call'[k].stage = "sent"
      PROVE  CursorsAreStored'
  <2>1. ASSUME NEW l \in Calls, call'[l].kind \in Loads, call'[l].stage = "read", call'[l].more
        PROVE  PageFrom(call[l].chat, call[l].ids[1])'
    <3>1. call'[l] = call[l]
      BY <1>1, <2>1 DEF Others
    <3>2. QED
      BY <1>b, <2>1, <3>1
  <2>2. QED
    BY <1>1, <1>c, <2>1 DEF CursorsAreStored
<1>2. ASSUME nextCursor' \in {nextCursor, None}, UNCHANGED call
      PROVE  CursorsAreStored'
  BY <1>2, <1>b, <1>c DEF CursorsAreStored
<1>3. ASSUME NEW k \in Calls, ServerReads(k)
      PROVE  CursorsAreStored'
  <2>1. UNCHANGED <<nextCursor, log, chatOf>>
    BY <1>3 DEF ServerReads, window, server
  <2>2. PICK p, c : p = call[k].chat /\ c = call'[k].ids[1]
    OBVIOUS
  <2>3. call'[k].chat = p /\ (call'[k].more => PageFrom(p, c)) /\ Others(k)
    BY <1>3, <2>2, PageRead
  <2>4. PageFrom(p, c) => PageFrom(p, c)'
    BY <1>a, PageStays
  <2>5. call'[k].more => PageFrom(call[k].chat, call[k].ids[1])'
    BY <2>2, <2>3, <2>4 DEF PageFrom, Since, Older
  <2>6. ASSUME NEW l \in Calls, call'[l].kind \in Loads, call'[l].stage = "read", call'[l].more
        PROVE  PageFrom(call[l].chat, call[l].ids[1])'
    <3>1. CASE l = k
      BY <2>5, <2>6, <3>1
    <3>2. CASE l # k
      BY <1>b, <2>3, <2>6, <3>2 DEF Others
    <3>3. QED
      BY <3>1, <3>2
  <2>7. QED
    BY <1>c, <2>1, <2>6 DEF CursorsAreStored
<1>4. ASSUME NEW k \in Calls, LoadAnswered(k)
      PROVE  CursorsAreStored'
  <2>1. /\ Others(k) /\ call[k].kind \in Loads /\ call[k].stage = "read"
        /\ call'[k].kind \notin Loads
    BY <1>4, PageTaken DEF Loads
  <2>2. nextCursor' = IF call[k].more THEN call[k].ids[1] ELSE None
    BY <1>4 DEF LoadAnswered
  <2>3. nextCursor' # None => nextCursor' \in Range(log')
    BY <1>a, <2>1, <2>2 DEF CursorsAreStored, PageFrom, LogGrows
  <2>4. ASSUME NEW l \in Calls, call'[l].kind \in Loads, call'[l].stage = "read", call'[l].more
        PROVE  PageFrom(call[l].chat, call[l].ids[1])'
    <3>1. call'[l] = call[l]
      BY <2>1, <2>4 DEF Others
    <3>2. QED
      BY <1>b, <2>4, <3>1
  <2>5. QED
    BY <2>3, <2>4 DEF CursorsAreStored
<1>5. ASSUME NEW k \in Calls, RunEffects(k)
      PROVE  CursorsAreStored'
  <2>1. CASE heard = selected
    BY <1>2, <1>5, <2>1 DEF RunEffects
  <2>2. CASE heard # selected
    <3>1. FirstPage(k, selected) /\ selected \in Peers \union {None}
      BY <1>5, <2>2 DEF RunEffects, TypeOK
    <3>2. QED
      BY <1>1, <3>1, PageAsked
  <2>3. QED
    BY <2>1, <2>2
<1>6. ASSUME NEW k \in Calls, Scroll(k) \/ ClickMore(k)
      PROVE  CursorsAreStored'
  <2>1. PICK at \in Seen : StartMore(k, at)
    BY <1>6 DEF Scroll, ClickMore, TypeOK, Captured, Seen
  <2>2. QED
    BY <1>1, <2>1, MoreAsked
<1>7. ASSUME NEW k \in Calls, ReceiveMessage(k)
      PROVE  CursorsAreStored'
  BY <1>1, <1>2, <1>7, MessageTaken DEF Loads
<1>8. ASSUME NEW k \in Calls, ChatsLoaded(k) \/ LoadFails(k) \/ MarkAnswered(k) \/ SearchAnswered(k) \/ CreateFails(k)
      PROVE  CursorsAreStored'
  <2>1. UNCHANGED nextCursor /\ Put(k, NoCall)
    BY <1>8 DEF ChatsLoaded, LoadFails, MarkAnswered, SearchAnswered, CreateFails, window
  <2>2. QED
    BY <1>1, <2>1, Freed DEF Loads
<1>9. ASSUME NEW k \in Calls, ChatCreated(k)
      PROVE  CursorsAreStored'
  BY <1>1, <1>9, ChatTaken
<1>10. ASSUME NEW k \in Calls, NEW e \in Range(chats), SelectChat(k, e)
       PROVE  CursorsAreStored'
  <2>1. Range(chats) \subseteq [id : Peers, other : Peers]
    BY RangeIsOfSeq DEF TypeOK
  <2>2. e.id \in Peers \union {None} /\ FirstPage(k, e.id)
    BY <1>10, <2>1 DEF SelectChat
  <2>3. QED
    BY <1>1, <2>2, PageAsked
<1>11. ASSUME NEW k \in Calls, SearchUser(k) \/ CreateChat(k)
       PROVE  CursorsAreStored'
  <2>1. CASE SearchUser(k)
    BY <1>1, <2>1, SearchSent DEF SearchUser, window, Loads
  <2>2. CASE CreateChat(k)
    <3>1. UNCHANGED nextCursor /\ dialog.found \in Peers \union {None} /\ Put(k, Call("create", dialog.found, None))
      BY <2>2 DEF CreateChat, TypeOK, window
    <3>2. QED
      BY <1>1, <3>1, Sent DEF Loads
  <2>3. QED
    BY <1>11, <2>1, <2>2
<1>12. ASSUME SendMessage \/ OpenDialog \/ CancelDialog \/ UNCHANGED vars \/ (\E p \in Peers : PeerWrites(p))
              \/ (\E e \in Typed : TypeEmail(e)) \/ (\E m \in New : StoreMessage(m))
       PROVE  UNCHANGED <<call, nextCursor>>
  BY <1>12 DEF SendMessage, OpenDialog, CancelDialog, PeerWrites, TypeEmail, StoreMessage, vars, window
<1>13. QED
  BY <1>2, <1>3, <1>4, <1>5, <1>6, <1>7, <1>8, <1>9, <1>10, <1>11, <1>12 DEF Next, Answer, User

(***************************************************************************)
(* The pages in the window.                                                *)
(***************************************************************************)

\* What comes into the window, other than by a load, is not stored yet.
ComesInTime == \A m \in Range(messages') \ Range(messages) : m \in crossed' \/ m \notin Range(log')

LEMMA NoneOlderStays ==
  ASSUME TypeOK, ServerOK, LogGrows, crossed \subseteq crossed', NEW c \in Range(log), NEW ms, NoneOlder(ms, c)
  PROVE  NoneOlder(ms, c)'
<1> SUFFICES ASSUME NEW m \in ms, m \notin crossed', Older(m, c)'
             PROVE  FALSE
  BY DEF NoneOlder
<1>1. ~Older(m, c)
  BY DEF NoneOlder
<1>2. m \in Range(log')
  BY DEF Older, Range
<1>3. QED
  BY <1>1, <1>2 DEF LogGrows

LEMMA WindowGrows ==
  ASSUME TypeOK, ServerOK, LogGrows, crossed \subseteq crossed', ComesInTime, NEW c \in Range(log),
         NoneOlder(Range(messages), c)
  PROVE  NoneOlder(Range(messages), c)'
<1>1. PICK ms : ms = Range(messages)
  OBVIOUS
<1>2. NoneOlder(ms, c)'
  BY <1>1, NoneOlderStays
<1>3. \A m \in Range(messages') : m \in ms \/ m \in crossed' \/ ~Older(m, c)'
  BY <1>1 DEF ComesInTime, Older, Range
<1>4. QED
  BY <1>2, <1>3 DEF NoneOlder

LEMMA MoreStays ==
  ASSUME TypeOK, TypeOK', ServerOK, LogGrows, crossed \subseteq crossed', ComesInTime, MoreOK,
         \A l \in Calls : call'[l].kind = "more" =>
           call[l].kind = "more" /\ call'[l].chat = call[l].chat /\ call'[l].cursor = call[l].cursor,
         \A l \in Calls : call'[l].kind = "load" /\ call'[l].stage = "read" => call'[l] = call[l]
  PROVE  MoreOK'
<1> SUFFICES ASSUME NEW k \in Calls, call'[k].kind = "more"
             PROVE  /\ PageFrom(call[k].chat, call[k].cursor)'
                    /\ NoneOlder(Range(messages), call[k].cursor)'
                    /\ \A l \in Calls : call'[l].kind = "load" /\ call'[l].stage = "read" =>
                         NoneOlder(Range(call[l].ids), call[k].cursor)'
  BY DEF MoreOK
<1>1. PICK p, c : p = call[k].chat /\ c = call[k].cursor
  OBVIOUS
<1>2. PageFrom(p, c) /\ NoneOlder(Range(messages), c) /\ c \in Range(log) /\ call'[k].chat = p /\ call'[k].cursor = c
  BY <1>1 DEF MoreOK, PageFrom
<1>3. PageFrom(p, c)'
  BY <1>2, PageStays DEF TypeOK, ServerOK
<1>4. NoneOlder(Range(messages), c)'
  BY <1>2, WindowGrows
<1>5. ASSUME NEW l \in Calls, call'[l].kind = "load", call'[l].stage = "read"
      PROVE  NoneOlder(Range(call[l].ids), call[k].cursor)'
  <2>1. call'[l] = call[l]
    BY <1>5
  <2>2. PICK ms : ms = Range(call[l].ids)
    OBVIOUS
  <2>3. NoneOlder(ms, c)
    BY <1>1, <1>2, <1>5, <2>1, <2>2 DEF MoreOK
  <2>4. NoneOlder(ms, c)'
    BY <1>2, <2>3, NoneOlderStays
  <2>5. QED
    BY <1>2, <2>1, <2>2, <2>4 DEF NoneOlder, Older
<1>6. QED
  BY <1>2, <1>3, <1>4, <1>5 DEF PageFrom, Since, NoneOlder, Older

LEMMA WindowStays ==
  ASSUME TypeOK, ServerOK, LogGrows, crossed \subseteq crossed', ComesInTime, CursorsAreStored, WindowOK,
         nextCursor' \in {nextCursor, None}
  PROVE  WindowOK'
<1> SUFFICES ASSUME nextCursor' # None
             PROVE  NoneOlder(Range(messages), nextCursor)'
  BY DEF WindowOK
<1>1. PICK c : c = nextCursor
  OBVIOUS
<1>2. NoneOlder(Range(messages), c) /\ c \in Range(log) /\ nextCursor' = c
  BY <1>1 DEF WindowOK, CursorsAreStored
<1>3. NoneOlder(Range(messages), c)'
  BY <1>2, WindowGrows
<1>4. QED
  BY <1>2, <1>3 DEF NoneOlder, Older

LEMMA CursorStays ==
  ASSUME TypeOK, TypeOK', ServerOK, LogGrows, CursorOK, UNCHANGED <<selected, heard, nextCursor>>
  PROVE  CursorOK'
<1> SUFFICES ASSUME heard' = selected', nextCursor' # None
             PROVE  PageFrom(selected, nextCursor)'
  BY DEF CursorOK
<1>1. PICK p, c : p = selected /\ c = nextCursor
  OBVIOUS
<1>2. PageFrom(p, c) /\ selected' = p /\ nextCursor' = c
  BY <1>1 DEF CursorOK
<1>3. PageFrom(p, c)'
  BY <1>2, PageStays DEF TypeOK, ServerOK
<1>4. QED
  BY <1>2, <1>3 DEF PageFrom, Since, Older

LEMMA OnceAppended ==
  ASSUME TypeOK, Once, crossed \subseteq crossed', NEW m \in Ids, messages' = Append(messages, m),
         m \in Range(messages) => m \in crossed'
  PROVE  Once'
<1>1. /\ Len(messages) \in Nat /\ DOMAIN messages = 1..Len(messages)
      /\ DOMAIN messages' = 1..(Len(messages) + 1)
      /\ \A i \in 1..Len(messages) : messages'[i] = messages[i]
      /\ messages'[Len(messages) + 1] = m
  <2>1. messages \in Seq(Ids)
    BY DEF TypeOK
  <2>2. messages' \in Seq(Ids) /\ Len(messages') = Len(messages) + 1
    BY <2>1, AppendProperties
  <2>3. QED
    BY <2>1, <2>2, AppendProperties, LenProperties
<1>2. \A i \in DOMAIN messages' : i \in DOMAIN messages \/ i = Len(messages) + 1
  BY <1>1
<1>3. \A i \in DOMAIN messages : messages'[i] = messages[i] /\ messages[i] \in Range(messages)
  BY <1>1 DEF Range
<1>4. QED
  BY <1>1, <1>2, <1>3 DEF Once

\* A first page is asked for: the window stays what it is.
LEMMA PagesSent ==
  ASSUME TypeOK, TypeOK', ServerOK, RequestsOK, LogGrows, CursorsAreStored, OneMore, MoreOK, WindowOK, Once,
         NEW k \in Calls, Others(k), call[k].kind \in {"none", "create"},
         call'[k].kind = "load", call'[k].stage = "sent", call'[k].of = "none",
         UNCHANGED <<messages, isLoadingMore, crossed>>, nextCursor' \in {nextCursor, None}
  PROVE  OneMore' /\ MoreOK' /\ WindowOK' /\ Once'
<1>1. ComesInTime
  BY DEF ComesInTime
<1>2. call[k].of = "none"
  BY OnlyMarksAreOf
<1>3. Loading({"more"})' = Loading({"more"})
  <2>1. k \notin Loading({"more"}) /\ k \notin Loading({"more"})'
    BY <1>2, LoadingMoves
  <2>2. QED
    BY <2>1, LoadingMoves
<1>4. OneMore'
  BY <1>3 DEF OneMore
<1>5. MoreOK'
  BY <1>1, MoreStays DEF Others
<1>6. WindowOK' /\ Once'
  BY <1>1, WindowStays DEF Once
<1>7. QED
  BY <1>4, <1>5, <1>6

\* A load is over, and it was the only one of older messages if it was of those.
LEMMA MoreIsOver ==
  ASSUME RequestsOK, OneMore, NEW k \in Calls, Others(k), NEW kind \in {"none"} \union Loads,
         LoadEnds(kind), call'[k].kind = "none", call'[k].of = "none",
         call[k].kind = kind \/ (call[k].kind = "mark" /\ call[k].of = kind)
  PROVE  OneMore'
<1>1. call[k].of # "none" => call[k].kind = "mark"
  BY OnlyMarksAreOf
<1>2. k \in Loading({"more"}) <=> kind = "more"
  BY <1>1, LoadingMoves DEF Loads
<1>3. k \notin Loading({"more"})' /\ Loading({"more"})' \ {k} = Loading({"more"}) \ {k}
  BY LoadingMoves
<1>4. CASE kind = "more"
  <2>1. Loading({"more"})' = {}
    BY <1>2, <1>3, <1>4 DEF OneMore
  <2>2. QED
    BY <2>1 DEF OneMore
<1>5. CASE kind # "more"
  <2>1. Loading({"more"})' = Loading({"more"})
    BY <1>2, <1>3, <1>5
  <2>2. QED
    BY <1>5, <2>1 DEF OneMore, LoadEnds
<1>6. QED
  BY <1>4, <1>5

LEMMA PagesAnswered ==
  ASSUME TypeOK, TypeOK', ServerOK, RequestsOK, SwitchOK, CursorsAreStored, PagesOK,
         NEW k \in Calls, LoadAnswered(k), ~switched
  PROVE  CursorOK' /\ (~doubled => OneMore' /\ MoreOK' /\ WindowOK' /\ Once')
<1>1. UNCHANGED <<selected, heard, log, chatOf, crossed>>
  BY DEF LoadAnswered, closures, server, history
<1>2. /\ Others(k) /\ call[k].kind \in Loads /\ call[k].stage = "read" /\ call[k].ids \in Seq(Ids)
      /\ \/ call'[k].kind = "none" /\ call'[k].of = "none" /\ LoadEnds(call[k].kind)
         \/ call'[k].kind = "mark" /\ call'[k].of = call[k].kind /\ UNCHANGED <<isLoading, isLoadingMore>>
      /\ call[k].kind = "more" => messages' = call[k].ids \o messages
      /\ call[k].kind = "load" => messages' = call[k].ids
  BY PageTaken
<1>3. PICK p, c, ids : p = selected /\ c = call[k].cursor /\ ids = call[k].ids
  OBVIOUS
<1>4. /\ call[k].chat = p /\ AnswerOK(call[k]) /\ ids \in Seq(Ids)
      /\ call[k].kind = "more" => c # None
  <2>1. k \in Loading(Loads)
    BY <1>2 DEF Loading
  <2>2. QED
    BY <1>2, <1>3, <2>1 DEF SwitchOK, LoadsAreOfSelected, RequestsOK, RequestOK
<1>5. /\ \A m, n : Older(m, n) => m # n /\ ~Older(n, m)
      /\ \A m, n, d : Older(m, n) /\ Older(n, d) => Older(m, d)
      /\ \A m, n : Older(m, n)' <=> Older(m, n)
  <2>1. \A m, n : Older(m, n)' <=> Older(m, n)
    BY <1>1 DEF Older
  <2>2. QED
    BY <2>1, OlderIsOrder DEF TypeOK, ServerOK
<1>6. /\ DOMAIN ids \subseteq Nat
      /\ \A i, j \in DOMAIN ids : i # j => ids[i] # ids[j]
      /\ call[k].more => ids[1] \in Range(ids)
      /\ \A m \in Range(ids) : ~Older(m, ids[1])
      /\ call[k].kind = "more" => \A m \in Range(ids) : Older(m, c)
  <2>1. /\ DOMAIN ids = 1..Len(ids) /\ Len(ids) \in Nat
        /\ call[k].more => 1 \in DOMAIN ids
    <3>1. DOMAIN ids = 1..Len(ids) /\ Len(ids) \in Nat
      BY <1>4, LenProperties
    <3>2. call[k].more => ids # <<>>
      BY <1>3, <1>4 DEF AnswerOK
    <3>3. QED
      BY <1>4, <3>1, <3>2, EmptySeq
  <2>2. \A i, j \in DOMAIN ids : i < j => Older(ids[i], ids[j])
    BY <1>3, <1>4 DEF AnswerOK
  <2>3. \A i, j \in DOMAIN ids : i # j => ids[i] # ids[j]
    <3>1. \A i, j \in DOMAIN ids : i # j => i < j \/ j < i
      BY <2>1
    <3>2. QED
      BY <1>5, <2>2, <3>1
  <2>4. \A m \in Range(ids) : ~Older(m, ids[1])
    <3>1. SUFFICES ASSUME NEW i \in DOMAIN ids
                   PROVE  ~Older(ids[i], ids[1])
      BY DEF Range
    <3>2. 1 \in DOMAIN ids /\ (i = 1 \/ 1 < i)
      BY <2>1
    <3>3. QED
      BY <1>5, <2>2, <3>2
  <2>5. call[k].kind = "more" => \A m \in Range(ids) : Older(m, c)
    BY <1>3, <1>4 DEF AnswerOK, Before
  <2>6. call[k].more => ids[1] \in Range(ids)
    BY <2>1 DEF Range
  <2>7. QED
    BY <2>1, <2>3, <2>4, <2>5, <2>6
<1>7. /\ nextCursor' = IF call[k].more THEN ids[1] ELSE None
      /\ call[k].more => PageFrom(p, ids[1])
  BY <1>2, <1>3, <1>4 DEF LoadAnswered, CursorsAreStored
<1>8. CursorOK'
  BY <1>1, <1>3, <1>7 DEF CursorOK, PageFrom, Since, Older
<1>9. ASSUME ~doubled
      PROVE  OneMore' /\ MoreOK' /\ WindowOK' /\ Once'
  <2>1. OneMore /\ MoreOK /\ WindowOK /\ Once
    BY <1>9 DEF PagesOK
  <2>2. OneMore'
    <3>1. CASE call'[k].kind = "none"
      BY <1>2, <2>1, <3>1, MoreIsOver
    <3>2. CASE call'[k].kind = "mark"
      <4>1. call'[k].of = call[k].kind /\ call[k].of = "none" /\ UNCHANGED isLoadingMore
        BY <1>2, <3>2, OnlyMarksAreOf DEF Loads
      <4>2. k \in Loading({"more"})' <=> k \in Loading({"more"})
        BY <1>2, <3>2, <4>1, LoadingMoves DEF Loads
      <4>3. Loading({"more"})' \ {k} = Loading({"more"}) \ {k}
        BY <1>2, LoadingMoves
      <4>4. Loading({"more"})' = Loading({"more"})
        BY <4>2, <4>3
      <4>5. QED
        BY <2>1, <4>1, <4>4 DEF OneMore
    <3>3. QED
      BY <1>2, <3>1, <3>2
  <2>3. CASE call[k].kind = "load"
    <3>1. messages' = ids
      BY <1>2, <1>3, <2>3
    <3>2. WindowOK'
      BY <1>5, <1>6, <1>7, <3>1 DEF WindowOK, NoneOlder, Older
    <3>3. Once'
      BY <1>6, <3>1 DEF Once
    <3>4. \A l \in Calls : call'[l].kind \in Loads => l # k /\ call'[l] = call[l]
      BY <1>2 DEF Others, Loads
    <3>5. \A l \in Calls : call[l].kind = "more" => NoneOlder(Range(ids), call[l].cursor)
      BY <1>2, <1>3, <2>1, <2>3 DEF MoreOK
    <3>6. ASSUME NEW l \in Calls, call'[l].kind = "more"
          PROVE  /\ PageFrom(call[l].chat, call[l].cursor)'
                 /\ NoneOlder(Range(messages), call[l].cursor)'
                 /\ \A a \in Calls : call'[a].kind = "load" /\ call'[a].stage = "read" =>
                      NoneOlder(Range(call[a].ids), call[l].cursor)'
      <4>1. call'[l] = call[l] /\ call[l].kind = "more"
        BY <3>4, <3>6 DEF Loads
      <4>2. PageFrom(call[l].chat, call[l].cursor)'
        BY <1>1, <2>1, <4>1 DEF MoreOK, PageFrom, Since, Older
      <4>3. NoneOlder(Range(messages), call[l].cursor)'
        BY <1>1, <3>1, <3>5, <4>1 DEF NoneOlder, Older
      <4>4. ASSUME NEW a \in Calls, call'[a].kind = "load", call'[a].stage = "read"
            PROVE  NoneOlder(Range(call[a].ids), call[l].cursor)'
        <5>1. call'[a] = call[a]
          BY <3>4, <4>4 DEF Loads
        <5>2. NoneOlder(Range(call[a].ids), call[l].cursor)
          BY <2>1, <4>1, <4>4, <5>1 DEF MoreOK
        <5>3. QED
          BY <1>1, <4>1, <5>1, <5>2 DEF NoneOlder, Older
      <4>5. QED
        BY <4>2, <4>3, <4>4
    <3>7. MoreOK'
      BY <3>6 DEF MoreOK
    <3>8. QED
      BY <2>2, <3>2, <3>3, <3>7
  <2>4. CASE call[k].kind = "more"
    <3>1. messages' = ids \o messages /\ messages \in Seq(Ids)
      BY <1>2, <1>3, <2>4 DEF TypeOK
    <3>2. /\ Range(messages') = Range(ids) \union Range(messages)
          /\ \A i \in DOMAIN messages' :
               \/ i \in DOMAIN ids /\ messages'[i] = ids[i]
               \/ i - Len(ids) \in DOMAIN messages /\ messages'[i] = messages[i - Len(ids)]
      BY <1>4, <3>1, RangeOfConcat
    <3>3. \A m \in Range(messages) \ crossed : ~Older(m, c)
      BY <1>3, <2>1, <2>4 DEF MoreOK, NoneOlder
    <3>4. \A m \in Range(messages) \ crossed : ~Older(m, ids[1]) \/ ~call[k].more
      BY <1>5, <1>6, <2>4, <3>3
    <3>5. WindowOK'
      BY <1>1, <1>5, <1>6, <1>7, <3>2, <3>4 DEF WindowOK, NoneOlder, Older
    <3>6. Once'
      <4> SUFFICES ASSUME NEW i \in DOMAIN messages', NEW j \in DOMAIN messages', i # j, messages'[i] = messages'[j]
                   PROVE  messages'[i] \in crossed
        BY <1>1 DEF Once
      <4>1. i \in Nat /\ j \in Nat /\ Len(ids) \in Nat
        BY <1>4, RangeIsOfSeq, LenProperties DEF TypeOK
      <4>2. CASE i \in DOMAIN ids /\ messages'[i] = ids[i] /\ j \in DOMAIN ids /\ messages'[j] = ids[j]
        BY <1>6, <4>2
      <4>3. CASE /\ i - Len(ids) \in DOMAIN messages /\ messages'[i] = messages[i - Len(ids)]
                 /\ j - Len(ids) \in DOMAIN messages /\ messages'[j] = messages[j - Len(ids)]
        <5>1. i - Len(ids) # j - Len(ids)
          BY <4>1
        <5>2. QED
          BY <2>1, <4>3, <5>1 DEF Once
      <4>4. CASE messages'[i] \in Range(ids) /\ messages'[i] \in Range(messages)
        BY <1>6, <2>4, <3>3, <4>4
      <4>5. QED
        BY <3>2, <4>2, <4>3, <4>4 DEF Range
    <3>7. MoreOK'
      <4>1. \A l \in Calls : call[l].kind = "more" => l = k
        BY <2>1, <2>4 DEF OneMore, Loading
      <4>2. \A l \in Calls : call'[l].kind # "more"
        BY <1>2, <4>1 DEF Others
      <4>3. QED
        BY <4>2 DEF MoreOK
    <3>8. QED
      BY <2>2, <3>5, <3>6, <3>7
  <2>5. QED
    BY <1>2, <2>3, <2>4 DEF Loads
<1>10. QED
  BY <1>8, <1>9

\* Asking for older messages: only by what the window shows now, if at all.
LEMMA PagesMore ==
  ASSUME TypeOK, TypeOK', ServerOK, RequestsOK, LogGrows, CursorsAreStored, PagesOK, ~switched, ~doubled',
         NEW k \in Calls, NEW at \in Seen, StartMore(k, at), heard = selected
  PROVE  OneMore' /\ MoreOK' /\ WindowOK' /\ Once'
<1>1. /\ Others(k) /\ call[k].kind = "none"
      /\ call'[k].kind = "more" /\ call'[k].chat = at.chat /\ call'[k].cursor = at.cursor
      /\ call'[k].of = "none" /\ isLoadingMore' = TRUE /\ at.cursor # None /\ ~at.more
      /\ ~doubled /\ at = Captured /\ Loading({"load"}) = {}
      /\ UNCHANGED <<chatOf, log, messages, nextCursor, crossed>>
  BY MoreAsked DEF server
<1>2. OneMore /\ MoreOK /\ WindowOK /\ Once /\ CursorOK
  BY <1>1 DEF PagesOK
<1>3. OneMore'
  <2>1. ~isLoadingMore
    BY <1>1 DEF Captured
  <2>2. Loading({"more"}) = {}
    BY <1>2, <2>1 DEF OneMore
  <2>3. Loading({"more"})' \subseteq {k}
    BY <1>1, <2>2, LoadingMoves
  <2>4. QED
    BY <1>1, <2>3 DEF OneMore
<1>4. WindowOK' /\ Once'
  BY <1>1, <1>2 DEF WindowOK, NoneOlder, Older, Once
<1>5. \A l \in Calls : call'[l].kind # "load"
  BY <1>1 DEF Loading, Others
<1>6. ASSUME NEW l \in Calls, call'[l].kind = "more"
      PROVE  PageFrom(call[l].chat, call[l].cursor)' /\ NoneOlder(Range(messages), call[l].cursor)'
  <2>1. CASE l = k
    <3>1. PICK p, c : p = selected /\ c = nextCursor
      OBVIOUS
    <3>2. PageFrom(p, c) /\ NoneOlder(Range(messages), c) /\ call'[l].chat = p /\ call'[l].cursor = c
      BY <1>1, <1>2, <2>1, <3>1 DEF Captured, CursorOK, WindowOK
    <3>3. QED
      BY <1>1, <3>2 DEF PageFrom, Since, NoneOlder, Older
  <2>2. CASE l # k
    <3>1. call'[l] = call[l]
      BY <1>1, <2>2 DEF Others
    <3>2. PageFrom(call[l].chat, call[l].cursor) /\ NoneOlder(Range(messages), call[l].cursor)
      BY <1>2, <1>6, <3>1 DEF MoreOK
    <3>3. QED
      BY <1>1, <3>1, <3>2 DEF PageFrom, Since, NoneOlder, Older
  <2>3. QED
    BY <2>1, <2>2
<1>7. MoreOK'
  BY <1>5, <1>6 DEF MoreOK
<1>8. QED
  BY <1>3, <1>4, <1>7

\* What is read from the store now is not older than a cursor.
LEMMA PagesRead ==
  ASSUME TypeOK, ServerOK, RequestsOK, SwitchOK, PagesOK, ~switched, ~doubled, NEW k \in Calls, ServerReads(k)
  PROVE  MoreOK'
<1>1. UNCHANGED <<chatOf, log, messages, crossed>>
  BY DEF ServerReads, server, window, history
<1>2. /\ Others(k) /\ call[k].kind \in Loads /\ call'[k].kind = call[k].kind /\ call'[k].chat = call[k].chat
      /\ call'[k].cursor = call[k].cursor /\ Range(call'[k].ids) = LastPage(call[k].chat, call[k].cursor)
  BY PageRead
<1>3. MoreOK /\ LoadsAreOfSelected
  BY DEF PagesOK, SwitchOK
<1>4. \A l \in Calls : /\ call'[l].kind = call[l].kind /\ call'[l].chat = call[l].chat /\ call'[l].cursor = call[l].cursor
                       /\ l # k => call'[l] = call[l]
  BY <1>2 DEF Others
<1>5. ASSUME NEW l \in Calls, call'[l].kind = "more"
      PROVE  /\ PageFrom(call[l].chat, call[l].cursor)'
             /\ NoneOlder(Range(messages), call[l].cursor)'
             /\ \A a \in Calls : call'[a].kind = "load" /\ call'[a].stage = "read" =>
                  NoneOlder(Range(call[a].ids), call[l].cursor)'
  <2>1. PICK p, c : p = call[l].chat /\ c = call[l].cursor
    OBVIOUS
  <2>2. PageFrom(p, c) /\ NoneOlder(Range(messages), c) /\ call'[l].chat = p /\ call'[l].cursor = c
    BY <1>3, <1>4, <1>5, <2>1 DEF MoreOK
  <2>3. PageFrom(call[l].chat, call[l].cursor)' /\ NoneOlder(Range(messages), call[l].cursor)'
    BY <1>1, <2>2 DEF PageFrom, Since, NoneOlder, Older
  <2>4. ASSUME NEW a \in Calls, call'[a].kind = "load", call'[a].stage = "read"
        PROVE  NoneOlder(Range(call[a].ids), call[l].cursor)'
    <3>1. CASE a = k
      <4>1. call[k].chat = p /\ call[k].cursor = None
        <5>1. l \in Loading(Loads) /\ k \in Loading(Loads)
          BY <1>2, <1>4, <1>5 DEF Loading, Loads
        <5>2. QED
          BY <1>2, <1>3, <2>1, <2>4, <3>1, <5>1 DEF LoadsAreOfSelected, RequestsOK, RequestOK
      <4>2. \A m \in Range(call'[k].ids) : ~Older(m, c)
        BY <1>2, <2>2, <4>1, PageReach DEF TypeOK, ServerOK
      <4>3. QED
        BY <1>1, <2>2, <3>1, <4>2 DEF NoneOlder, Older
    <3>2. CASE a # k
      <4>1. call'[a] = call[a]
        BY <1>4, <3>2
      <4>2. NoneOlder(Range(call[a].ids), c)
        BY <1>3, <1>4, <1>5, <2>1, <2>4, <4>1 DEF MoreOK
      <4>3. QED
        BY <1>1, <2>2, <4>1, <4>2 DEF NoneOlder, Older
    <3>3. QED
      BY <3>1, <3>2
  <2>5. QED
    BY <2>3, <2>4
<1>6. QED
  BY <1>5 DEF MoreOK

LEMMA PagesStep ==
  ASSUME TypeOK, ServerOK, RequestsOK, PageOK, SwitchOK, CursorsAreStored, PagesOK, [Next]_vars
  PROVE  PagesOK'
<1> TypeOK' /\ LogGrows
  BY ChatTypeStep, ServerStep
<1>1. ASSUME Aside
      PROVE  PagesOK'
  <2>1. UNCHANGED <<messages, selected, isLoadingMore, nextCursor, heard, switched, doubled, crossed>>
    BY <1>1, AsideKeeps DEF window, closures
  <2>2. Loading({"more"})' = Loading({"more"}) /\ \A l \in Loading({"more"}) : SameRequest(l)
    BY <1>1, AsideLoads
  <2>3. ASSUME ~switched
        PROVE  CursorOK'
    BY <2>1, <2>3, CursorStays DEF PagesOK
  <2>4. ASSUME ~switched, ~doubled
        PROVE  OneMore' /\ MoreOK' /\ WindowOK' /\ Once'
    <3>1. OneMore /\ MoreOK /\ WindowOK /\ Once
      BY <2>4 DEF PagesOK
    <3>2. ComesInTime
      BY <2>1 DEF ComesInTime
    <3>3. OneMore' /\ WindowOK' /\ Once'
      BY <2>1, <2>2, <3>1, <3>2, WindowStays DEF OneMore, Once
    <3>4. MoreOK'
      <4>1. CASE \E k \in Calls : ServerReads(k)
        BY <2>4, <4>1, PagesRead
      <4>2. CASE ~\E k \in Calls : ServerReads(k)
        <5>1. \A l \in Calls : call'[l].kind = "more" =>
                call[l].kind = "more" /\ call'[l].chat = call[l].chat /\ call'[l].cursor = call[l].cursor
          BY <1>1, AsideKeeps DEF SameRequest
        <5>2. \A l \in Calls : call'[l].kind = "load" => call'[l] = call[l]
          <6>1. CASE UNCHANGED call
            BY <6>1
          <6>2. ASSUME NEW k \in Calls, SearchUser(k)
                PROVE  \A l \in Calls : call'[l].kind = "load" => call'[l] = call[l]
            BY <6>2, SearchSent DEF Others
          <6>3. ASSUME NEW k \in Calls, SearchAnswered(k) \/ CreateFails(k)
                PROVE  \A l \in Calls : call'[l].kind = "load" => call'[l] = call[l]
            BY <6>3, Freed DEF SearchAnswered, CreateFails, Others
          <6>4. ASSUME NEW k \in Calls, CreateChat(k)
                PROVE  \A l \in Calls : call'[l].kind = "load" => call'[l] = call[l]
            <7>1. dialog.found \in Peers \union {None} /\ Put(k, Call("create", dialog.found, None))
              BY <6>4 DEF CreateChat, TypeOK
            <7>2. QED
              BY <7>1, Sent DEF Others
          <6>5. QED
            BY <1>1, <4>2, <6>1, <6>2, <6>3, <6>4 DEF Aside, OpenDialog, CancelDialog, TypeEmail, PeerWrites, StoreMessage
        <5>3. QED
          BY <2>1, <3>1, <3>2, <5>1, <5>2, MoreStays
      <4>3. QED
        BY <4>1, <4>2
    <3>5. QED
      BY <3>3, <3>4
  <2>5. QED
    BY <2>1, <2>3, <2>4 DEF PagesOK
<1>2. ASSUME NEW k \in Calls, NEW p \in Peers \union {None}, FirstPage(k, p),
             UNCHANGED <<messages, isLoadingMore, doubled, crossed>>
      PROVE  PagesOK'
  <2>1. /\ Others(k) /\ call[k].kind = "none" /\ call'[k].kind = "load" /\ call'[k].stage = "sent"
        /\ call'[k].of = "none" /\ nextCursor' = None /\ (~switched' => ~switched)
    BY <1>2, PageAsked
  <2>2. CursorOK'
    BY <2>1 DEF CursorOK
  <2>3. ASSUME ~switched, ~doubled
        PROVE  OneMore' /\ MoreOK' /\ WindowOK' /\ Once'
    <3>1. OneMore /\ MoreOK /\ WindowOK /\ Once
      BY <2>3 DEF PagesOK
    <3>2. QED
      BY <1>2, <2>1, <3>1, PagesSent
  <2>4. QED
    BY <1>2, <2>1, <2>2, <2>3 DEF PagesOK
<1>3. ASSUME NEW k \in Calls, RunEffects(k)
      PROVE  PagesOK'
  <2>1. CASE heard = selected
    <3>1. UNCHANGED <<chatOf, log, messages, selected, isLoadingMore, nextCursor, heard, call, switched, doubled, crossed>>
      BY <1>3, <2>1 DEF RunEffects, server
    <3>2. QED
      BY <3>1 DEF PagesOK, CursorOK, OneMore, MoreOK, WindowOK, Once, Loading, PageFrom, Since, NoneOlder, Older
  <2>2. CASE heard # selected
    <3>1. FirstPage(k, selected) /\ selected \in Peers \union {None}
          /\ UNCHANGED <<messages, isLoadingMore, doubled, crossed>>
      BY <1>3, <2>2 DEF RunEffects, TypeOK
    <3>2. QED
      BY <1>2, <3>1
  <2>3. QED
    BY <2>1, <2>2
<1>4. ASSUME NEW k \in Calls, NEW e \in Range(chats), SelectChat(k, e)
      PROVE  PagesOK'
  <2>1. Range(chats) \subseteq [id : Peers, other : Peers]
    BY RangeIsOfSeq DEF TypeOK
  <2>2. e.id \in Peers \union {None} /\ FirstPage(k, e.id) /\ UNCHANGED <<messages, isLoadingMore, doubled, crossed>>
    BY <1>4, <2>1 DEF SelectChat
  <2>3. QED
    BY <1>2, <2>2
<1>5. ASSUME NEW k \in Calls, ChatCreated(k), Fresh \/ NoSlotFree
      PROVE  PagesOK'
  <2>1. /\ Others(k) /\ call[k].kind = "create" /\ call'[k].kind = "load" /\ call'[k].stage = "sent"
        /\ call'[k].of = "none" /\ selected' = call[k].chat
        /\ switched' = (switched \/ \E l \in Loading(Loads) : call[l].chat # call[k].chat)
        /\ UNCHANGED <<messages, log, isLoadingMore, nextCursor, heard, doubled, crossed>>
    BY <1>5, ChatTaken
  <2>2. ASSUME ~switched'
        PROVE  CursorOK'
    <3>1. CASE selected' = selected
      BY <2>1, <2>2, <3>1, CursorStays DEF PagesOK
    <3>2. CASE selected' # selected
      \* The handler knows another chat than the new one.
      <4>1. ~switched /\ LoadsAreOfSelected /\ LagHasLoad
        BY <2>1, <2>2 DEF SwitchOK
      <4>2. Loading(Loads) = {}
        BY <2>1, <2>2, <3>2, <4>1 DEF LoadsAreOfSelected
      <4>3. Loading({"load"}) = {}
        BY <4>2 DEF Loading, Loads
      <4>4. heard = selected
        BY <1>5, <4>1, <4>3 DEF Fresh, LagHasLoad
      <4>5. QED
        BY <2>1, <3>2, <4>4 DEF CursorOK
    <3>3. QED
      BY <3>1, <3>2
  <2>3. ASSUME ~switched, ~doubled
        PROVE  OneMore' /\ MoreOK' /\ WindowOK' /\ Once'
    <3>1. OneMore /\ MoreOK /\ WindowOK /\ Once
      BY <2>3 DEF PagesOK
    <3>2. QED
      BY <2>1, <3>1, PagesSent
  <2>4. QED
    BY <2>1, <2>2, <2>3 DEF PagesOK
<1>6. ASSUME NEW k \in Calls, Scroll(k) \/ ClickMore(k), Scroll(k) \/ Fresh \/ NoSlotFree
      PROVE  PagesOK'
  <2>1. PICK at \in Seen : StartMore(k, at)
    BY <1>6 DEF Scroll, ClickMore, TypeOK, Captured, Seen
  <2>2. UNCHANGED <<selected, nextCursor, heard>> /\ (~switched' => ~switched)
    BY <2>1, MoreAsked
  <2>3. heard = selected
    <3>1. CASE Scroll(k)
      BY <3>1 DEF Scroll, PageOK, ListenerIsOfSelected
    <3>2. CASE ~Scroll(k)
      BY <1>6, <2>1, <3>2, MoreAsked DEF Fresh, NoSlotFree, Free
    <3>3. QED
      BY <3>1, <3>2
  <2>4. ~switched => CursorOK'
    BY <2>2, CursorStays DEF PagesOK
  <2>5. ~switched /\ ~doubled' => OneMore' /\ MoreOK' /\ WindowOK' /\ Once'
    BY <2>1, <2>3, PagesMore
  <2>6. QED
    BY <2>2, <2>4, <2>5 DEF PagesOK
<1>7. ASSUME NEW k \in Calls, ReceiveMessage(k)
      PROVE  PagesOK'
  <2>1. /\ UNCHANGED <<chatOf, log, selected, isLoadingMore, nextCursor, heard, doubled>>
        /\ Others(k) /\ call[k].kind = "none" /\ crossed \subseteq crossed' /\ (~switched' => ~switched)
    BY <1>7, MessageTaken
  <2>2. \/ messages' = Append(messages, Head(wire)) /\ call'[k].kind = "mark" /\ call'[k].of = "none"
        \/ UNCHANGED <<messages, call>>
    BY <1>7, MessageTaken
  <2>3. Head(wire) \in Ids /\ (Head(wire) \in crossed' \/ (Head(wire) \notin Range(log') /\ Head(wire) \notin Range(messages)))
    BY <1>7, <2>1, MessageTaken DEF Written
  <2>4. ComesInTime
    <3>1. messages' = Append(messages, Head(wire)) => Range(messages') = Range(messages) \union {Head(wire)}
      BY <2>3, RangeOfAppend DEF TypeOK
    <3>2. QED
      BY <2>2, <2>3, <3>1 DEF ComesInTime
  <2>5. ASSUME ~switched
        PROVE  CursorOK'
    BY <2>1, <2>5, CursorStays DEF PagesOK
  <2>6. ASSUME ~switched, ~doubled
        PROVE  OneMore' /\ MoreOK' /\ WindowOK' /\ Once'
    <3>1. OneMore /\ MoreOK /\ WindowOK /\ Once
      BY <2>6 DEF PagesOK
    <3>2. Loading({"more"})' = Loading({"more"})
      <4>1. call[k].of = "none"
        BY <2>1, OnlyMarksAreOf
      <4>2. k \notin Loading({"more"}) /\ k \notin Loading({"more"})'
        BY <2>1, <2>2, <4>1, LoadingMoves
      <4>3. QED
        BY <2>1, <4>2, LoadingMoves
    <3>3. OneMore'
      BY <2>1, <3>1, <3>2 DEF OneMore
    <3>4. MoreOK'
      <4>1. \A l \in Calls : call'[l].kind \in Loads => call'[l] = call[l]
        BY <2>1, <2>2 DEF Others, Loads
      <4>2. QED
        BY <2>1, <2>4, <3>1, <4>1, MoreStays DEF Loads
    <3>5. WindowOK'
      BY <2>1, <2>4, <3>1, WindowStays
    <3>6. Once'
      BY <2>1, <2>2, <2>3, <3>1, OnceAppended DEF Once
    <3>7. QED
      BY <3>3, <3>4, <3>5, <3>6
  <2>7. QED
    BY <2>1, <2>5, <2>6 DEF PagesOK
<1>8. ASSUME NEW k \in Calls, NEW kind \in {"none"} \union Loads, LoadEnds(kind), Others(k), ComesInTime,
             call[k].kind = kind \/ (call[k].kind = "mark" /\ call[k].of = kind),
             call'[k].kind = "none", call'[k].of = "none",
             UNCHANGED <<selected, heard, nextCursor, switched, doubled, crossed>>, messages' \in {messages, <<>>}
      PROVE  PagesOK'
  <2>1. ASSUME ~switched
        PROVE  CursorOK'
    BY <1>8, <2>1, CursorStays DEF PagesOK
  <2>2. ASSUME ~switched, ~doubled
        PROVE  OneMore' /\ MoreOK' /\ WindowOK' /\ Once'
    <3>1. OneMore /\ MoreOK /\ WindowOK /\ Once
      BY <2>2 DEF PagesOK
    <3>2. OneMore'
      BY <1>8, <3>1, MoreIsOver
    <3>3. MoreOK'
      <4>1. \A l \in Calls : call'[l].kind \in Loads => call'[l] = call[l]
        BY <1>8 DEF Others, Loads
      <4>2. QED
        BY <1>8, <3>1, <4>1, MoreStays DEF Loads
    <3>4. WindowOK'
      BY <1>8, <3>1, WindowStays
    <3>5. Once'
      BY <1>8, <3>1, EmptySeq DEF Once
    <3>6. QED
      BY <3>2, <3>3, <3>4, <3>5
  <2>3. QED
    BY <1>8, <2>1, <2>2 DEF PagesOK
<1>9. ASSUME NEW k \in Calls, LoadFails(k) \/ MarkAnswered(k)
      PROVE  PagesOK'
  <2>1. /\ UNCHANGED <<selected, heard, nextCursor, switched, doubled, crossed>> /\ messages' \in {messages, <<>>}
        /\ Others(k) /\ call'[k].kind = "none" /\ call'[k].of = "none"
    BY <1>9, Freed DEF LoadFails, MarkAnswered, closures, history
  <2>2. ComesInTime
    <3>1. Range(<<>>) = {}
      BY EmptySeq DEF Range
    <3>2. QED
      BY <2>1, <3>1 DEF ComesInTime
  <2>3. PICK kind \in {"none"} \union Loads :
          LoadEnds(kind) /\ (call[k].kind = kind \/ (call[k].kind = "mark" /\ call[k].of = kind))
    <3>1. call[k].of \in {"none"} \union Loads
      BY DEF TypeOK, Requests
    <3>2. QED
      BY <1>9, <3>1 DEF LoadFails, MarkAnswered
  <2>4. QED
    BY <1>8, <2>1, <2>2, <2>3
<1>10. ASSUME NEW k \in Calls, LoadAnswered(k)
       PROVE  PagesOK'
  <2>1. UNCHANGED <<switched, doubled>>
    BY <1>10 DEF LoadAnswered, history
  <2>2. QED
    BY <1>10, <2>1, PagesAnswered DEF PagesOK
<1>11. ASSUME NEW k \in Calls, ChatsLoaded(k)
       PROVE  PagesOK'
  <2>1. /\ UNCHANGED <<chatOf, log, messages, selected, heard, nextCursor, isLoadingMore, switched, doubled, crossed>>
        /\ call[k].kind = "chats" /\ Others(k) /\ call'[k].kind = "none" /\ call'[k].of = "none"
    BY <1>11, Freed DEF ChatsLoaded, closures, server, history
  <2>2. call[k].of = "none"
    BY <2>1, OnlyMarksAreOf
  <2>3. Loading({"more"})' = Loading({"more"})
    <3>1. k \notin Loading({"more"}) /\ k \notin Loading({"more"})'
      BY <2>1, <2>2, LoadingMoves
    <3>2. QED
      BY <2>1, <3>1, LoadingMoves
  <2>4. ~switched => CursorOK'
    BY <2>1, CursorStays DEF PagesOK
  <2>5. ASSUME ~switched, ~doubled
        PROVE  OneMore' /\ MoreOK' /\ WindowOK' /\ Once'
    <3>1. OneMore /\ MoreOK /\ WindowOK /\ Once
      BY <2>5 DEF PagesOK
    <3>2. ComesInTime
      BY <2>1 DEF ComesInTime
    <3>3. \A l \in Calls : call'[l].kind \in Loads => call'[l] = call[l]
      BY <2>1 DEF Others, Loads
    <3>4. MoreOK'
      BY <2>1, <3>1, <3>2, <3>3, MoreStays DEF Loads
    <3>5. OneMore' /\ WindowOK' /\ Once'
      BY <2>1, <2>3, <3>1, <3>2, WindowStays DEF OneMore, Once
    <3>6. QED
      BY <3>4, <3>5
  <2>6. QED
    BY <2>1, <2>4, <2>5 DEF PagesOK
<1>12. ASSUME SendMessage
       PROVE  PagesOK'
  <2>1. PICK m \in New : chatOf[m] = None /\ messages' = Append(messages, m)
    BY <1>12 DEF SendMessage
  <2>2. UNCHANGED <<log, selected, heard, nextCursor, isLoadingMore, switched, doubled, crossed, call>>
    BY <1>12 DEF SendMessage, closures, history
  <2>3. m \in Ids /\ m \notin Range(log') /\ m \notin Range(messages)
    BY <2>1, <2>2 DEF Ids, Written, ServerOK
  <2>4. ComesInTime
    <3>1. Range(messages') = Range(messages) \union {m}
      BY <2>1, <2>3, RangeOfAppend DEF TypeOK
    <3>2. QED
      BY <2>3, <3>1 DEF ComesInTime
  <2>5. ~switched => CursorOK'
    BY <2>2, CursorStays DEF PagesOK
  <2>6. ASSUME ~switched, ~doubled
        PROVE  OneMore' /\ MoreOK' /\ WindowOK' /\ Once'
    <3>1. OneMore /\ MoreOK /\ WindowOK /\ Once
      BY <2>6 DEF PagesOK
    <3>2. OneMore'
      BY <2>2, <3>1 DEF OneMore, Loading
    <3>3. MoreOK'
      BY <2>2, <2>4, <3>1, MoreStays
    <3>4. WindowOK'
      BY <2>2, <2>4, <3>1, WindowStays
    <3>5. Once'
      BY <2>1, <2>2, <2>3, <3>1, OnceAppended
    <3>6. QED
      BY <3>2, <3>3, <3>4, <3>5
  <2>7. QED
    BY <2>2, <2>5, <2>6 DEF PagesOK
<1>13. CASE UNCHANGED vars
  <2>1. UNCHANGED <<chatOf, log, messages, selected, isLoadingMore, nextCursor, heard, call, switched, doubled, crossed>>
    BY <1>13 DEF vars, server, window, closures, history
  <2>2. QED
    BY <2>1 DEF PagesOK, CursorOK, OneMore, MoreOK, WindowOK, Once, Loading, PageFrom, Since, NoneOlder, Older
<1>14. QED
  BY <1>1, <1>3, <1>4, <1>5, <1>6, <1>7, <1>9, <1>10, <1>11, <1>12, <1>13 DEF Next, Answer, User, Aside

(***************************************************************************)
(* The invariant.                                                          *)
(***************************************************************************)

LEMMA ChatInvInit == Init => ChatInv
<1> SUFFICES ASSUME Init
             PROVE  ChatInv
  OBVIOUS
<1>1. PICK k \in Calls : call = [l \in Calls |-> IF l = k THEN Call("chats", None, None) ELSE NoCall]
  BY DEF Init
<1>2. "chats" \in Kinds
  BY DEF Kinds
<1>3. /\ call[k].kind = "chats" /\ \A l \in Calls \ {k} : call[l].kind = "none"
      /\ \A l \in Calls : call[l].of = "none"
  BY <1>1, <1>2, NewRequests
<1>4. Loading(Loads) = {} /\ Loading({"more"}) = {} /\ Loading({"chats", "load"}) # {}
  BY <1>3 DEF Loading, Loads
<1>5. Range(wire) = {} /\ Range(messages) = {} /\ IsInjective(wire)
  BY EmptySeq DEF Init, Range, IsInjective
<1>6. Range(log) \subseteq Written /\ IsInjective(log)
  <2>1. Old \subseteq Ids /\ \A m \in Old : chatOfOld[m] \in Peers /\ chatOfOld[m] # None
    BY ChatAssumption, LenProperties DEF Old, Ids
  <2>2. \A m \in Old : m \in Written
    BY <2>1 DEF Init, Written
  <2>3. QED
    BY <2>2 DEF Init, Range, IsInjective
<1>7. ServerOK
  BY <1>5, <1>6 DEF Init, ServerOK
<1>8. RequestsOK /\ MarksNameTheirChat
  BY <1>3 DEF RequestsOK, RequestOK, MarksNameTheirChat, Loads
<1>9. PageOK
  BY <1>3, <1>4 DEF Init, PageOK, ChatsComeFirst, NothingSelected, ListenerIsOfSelected, SpinnerHasRequest, Free
<1>10. ListOK
  BY <1>3, EmptySeq DEF Init, ListOK, CreatedIsNew, ListedOnceUnderItsUser
<1>11. SwitchOK
  BY <1>4, <1>5 DEF Init, SwitchOK, LoadsAreOfSelected, ForeignWaits, Foreign, LagHasLoad
<1>12. CursorsAreStored /\ PagesOK
  BY <1>3, <1>4, EmptySeq DEF Init, CursorsAreStored, PagesOK, CursorOK, OneMore, MoreOK, WindowOK, Once, Loads
<1>13. QED
  BY <1>7, <1>8, <1>9, <1>10, <1>11, <1>12 DEF ChatInv

LEMMA ChatInvStep ==
  ASSUME TypeOK, ChatInv, [Next]_vars
  PROVE  TypeOK' /\ ChatInv'
<1> USE DEF ChatInv
<1>1. TypeOK' /\ ServerOK' /\ MarksNameTheirChat' /\ PageOK' /\ ListOK'
  BY ChatTypeStep, ServerStep, MarksStep, PageStep, ListStep
<1>2. RequestsOK'
  BY RequestStep DEF PageOK
<1>3. SwitchOK' /\ CursorsAreStored' /\ PagesOK'
  BY SwitchStep, CursorsStep, PagesStep
<1>4. QED
  BY <1>1, <1>2, <1>3

\* The invariant: the server has each message once (ServerOK), what was asked
\* for and answered fits the store (RequestsOK), the flags and closures of the
\* page lag behind in known ways (PageOK, ListOK), and until the selection has
\* moved during a load the pages in the window fit together (SwitchOK, PagesOK).
THEOREM ChatInvariant == Spec => [](TypeOK /\ ChatInv)
<1>1. Init => TypeOK /\ ChatInv
  BY ChatInit, ChatInvInit
<1>2. TypeOK /\ ChatInv /\ [Next]_vars => TypeOK' /\ ChatInv'
  BY ChatInvStep
<1>3. QED
  BY <1>1, <1>2, PTL DEF Spec

(***************************************************************************)
(* What the page promises.                                                 *)
(***************************************************************************)

\* The variables have their types, for any number of chats and of requests.
THEOREM ChatTypeCorrect == Spec => []TypeOK
<1>1. QED
  BY ChatInvariant, PTL

\* ReceiveMessage and loadMessages: a request to mark messages as read names the
\* chat they are in, and only messages of the peer, whatever has been selected
\* or sent between the answer of a load and the request.
THEOREM MarksAreInTheirChat == Spec => []MarksNameTheirChat
<1>1. ChatInv => MarksNameTheirChat
  BY DEF ChatInv
<1>2. QED
  BY <1>1, ChatInvariant, PTL

\* The finally block of loadMessages and the load of the list: neither spinner is
\* left without a request that will take it down.
THEOREM SpinnersEnd == Spec => []SpinnerHasRequest
<1>1. ChatInv => SpinnerHasRequest
  BY DEF ChatInv, PageOK
<1>2. QED
  BY <1>1, ChatInvariant, PTL

\* createChat: a new chat is listed under the user it was opened with, and a
\* chat is listed twice only after a second click or an older comparison.
THEOREM ListedOnce == Spec => []ListedOnceUnderItsUser
<1>1. ChatInv => ListedOnceUnderItsUser
  BY DEF ChatInv, ListOK
<1>2. QED
  BY <1>1, ChatInvariant, PTL

\* loadMessages, handleScroll and onChatMessage: what is shown is of the selected
\* chat and shown once, unless the selection moved during a load, a listener of
\* an earlier render asked for more, or the socket came late.
THEOREM TrueWindow == Spec => []WindowIsTrue
<1>1. ASSUME TypeOK, ChatInv
      PROVE  WindowIsTrue
  <2>1. SwitchOK /\ PagesOK /\ messages \in Seq(Ids)
    BY <1>1 DEF ChatInv, TypeOK
  <2>2. ForeignOnlyAfterSwitch
    <3>1. DOMAIN <<>> = {}
      BY EmptySeq
    <3>2. ASSUME NEW i \in DOMAIN Displayed, chatOf[messages[i]] # selected
          PROVE  switched
      <4>1. ~isLoading /\ Displayed = messages
        BY <3>1, <3>2 DEF Displayed, Shown
      <4>2. messages[i] \in Range(messages)
        BY <2>1, <4>1, RangeIsOfSeq
      <4>3. Foreign
        BY <3>2, <4>2 DEF Foreign
      <4>4. QED
        BY <2>1, <4>1, <4>3 DEF SwitchOK, ForeignWaits
    <3>3. QED
      BY <3>2 DEF ForeignOnlyAfterSwitch
  <2>3. TwiceOnlyWhenOvertaken
    BY <2>1 DEF PagesOK, Once, TwiceOnlyWhenOvertaken
  <2>4. QED
    BY <2>2, <2>3 DEF WindowIsTrue
<1>2. QED
  BY <1>1, ChatInvariant, PTL
=============================================================================
