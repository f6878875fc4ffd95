--------------------- MODULE ServiceAccountTokenProofs ---------------------
(***************************************************************************)
(* Proofs about ServiceAccountToken, for every set of callers and every    *)
(* bound: the promises on the tokens that are handed out, and that the     *)
(* cache under its mutex implements the one-step cache of TokenSource.     *)
(***************************************************************************)
EXTENDS ServiceAccountToken, TLAPS

(***************************************************************************)
(* The inductive invariant.  Exclusion: who is between Lock and Unlock     *)
(* owns the mutex, hence is alone.  Posted: what was seen at the check is  *)
(* still true when the answer arrives, because nobody else could change    *)
(* the cache.  Order: tokens arrive in the order of their issue.  Past:    *)
(* calls were made before now.  Given: what each caller was given.         *)
(***************************************************************************)
Exclusion == \A c \in Callers : pc[c] \in Inside => mu = c

Posted ==
  \A c \in Callers : pc[c] \in {"post", "reply"} => call[c].force \/ ~Usable(saToken)

Order ==
  /\ saToken # None => saToken.serial <= issued
  /\ \A c \in Callers :
       pc[c] = "reply" =>
         /\ reply[c] \in Token
         /\ reply[c].serial <= issued
         /\ saToken # None => saToken.serial < reply[c].serial
         /\ call[c].issued < reply[c].serial

Past == \A c \in Callers : call[c].at <= now /\ call[c].issued <= issued

Given ==
  \A c \in Callers :
    answer[c] \in Token =>
      /\ saToken # None
      /\ answer[c].serial <= saToken.serial
      /\ answer[c].serial = saToken.serial => answer[c] = saToken
      /\ pc[c] = "idle"
      /\ \/ ~call[c].force /\ call[c].at < answer[c].exp + Skew
         \/ answer[c].serial > call[c].issued

Inv == TypeOK /\ Exclusion /\ Posted /\ Order /\ Past /\ Given

\* The invariant holds at the start.
LEMMA InitInv == Init => Inv
  BY BoundAssumption, ValueAssumption
     DEF Init, Inv, TypeOK, Exclusion, Posted, Order, Past, Given, Inside, Calls

\* What holds of a caller that is inside: nobody else is.
LEMMA Alone ==
  ASSUME Inv, NEW c \in Callers, pc[c] \in Inside
  PROVE  \A b \in Callers \ {c} : pc[b] \notin Inside
  BY DEF Inv, Exclusion

\* A return with a token or an error keeps the invariant when the cache holds
\* the token returned.
LEMMA ReturnKeeps ==
  ASSUME Inv, NEW c \in Callers, pc[c] \in Inside, NEW a \in Token \union {Error},
         Return(c, a), saToken' \in Token \union {None},
         saToken # None => saToken' # None /\ saToken.serial <= saToken'.serial,
         saToken # None /\ saToken'.serial = saToken.serial => saToken' = saToken,
         saToken' # None => saToken'.serial <= issued,
         a \in Token =>
           /\ saToken' = a
           /\ \/ ~call[c].force /\ call[c].at < a.exp + Skew
              \/ a.serial > call[c].issued
  PROVE  Inv'
<1>1. /\ pc' = [pc EXCEPT ![c] = "idle"] /\ mu' = None
      /\ answer' = [answer EXCEPT ![c] = a] /\ reply' = [reply EXCEPT ![c] = None]
      /\ UNCHANGED <<now, call, issued>>
  BY DEF Return
<1>2. TypeOK'
  BY <1>1 DEF Inv, TypeOK
<1>3. \A b \in Callers : pc'[b] \notin Inside
  BY <1>1, Alone DEF Inv, TypeOK, Inside
<1>4. Exclusion' /\ Posted'
  BY <1>3 DEF Exclusion, Posted, Inside
<1>5. Order'
  BY <1>1, <1>3 DEF Order, Inside
<1>6. Past'
  BY <1>1 DEF Inv, Past
<1>7. Given'
  <2> SUFFICES ASSUME NEW b \in Callers, answer'[b] \in Token
               PROVE  /\ saToken' # None
                      /\ answer'[b].serial <= saToken'.serial
                      /\ answer'[b].serial = saToken'.serial => answer'[b] = saToken'
                      /\ pc'[b] = "idle"
                      /\ \/ ~call'[b].force /\ call'[b].at < answer'[b].exp + Skew
                         \/ answer'[b].serial > call'[b].issued
    BY DEF Given
  <2>1. CASE b = c
    <3>1. answer'[b] = a /\ a \in Token /\ saToken' = a /\ pc'[b] = "idle"
      BY <1>1, <2>1 DEF Inv, TypeOK
    <3>2. a.serial <= a.serial /\ a # None
      BY <3>1, ValueAssumption DEF Token
    <3>3. QED
      BY <1>1, <2>1, <3>1, <3>2
  <2>2. CASE b # c
    <3>1. answer'[b] = answer[b] /\ pc'[b] = pc[b] /\ answer[b] \in Token
      BY <1>1, <2>2 DEF Inv, TypeOK
    <3>2. saToken \in Token /\ saToken' \in Token /\ answer[b].serial <= saToken.serial
      BY <3>1 DEF Inv, Given, TypeOK
    <3>3. answer[b].serial <= saToken'.serial
      BY <3>1, <3>2, ValueAssumption DEF Token
    <3>4. answer[b].serial = saToken'.serial => answer[b] = saToken'
      BY <3>1, <3>2, ValueAssumption DEF Token, Inv, Given
    <3>5. QED
      BY <1>1, <3>1, <3>2, <3>3, <3>4, ValueAssumption DEF Inv, Given
  <2>3. QED
    BY <2>1, <2>2
<1>8. QED
  BY <1>2, <1>4, <1>5, <1>6, <1>7 DEF Inv

-----------------------------------------------------------------------------
(***************************************************************************)
(* One lemma per action.                                                   *)
(***************************************************************************)

\* A call begins.
LEMMA CallInv == ASSUME Inv, NEW c \in Callers, Call(c) PROVE Inv'
<1>1. /\ pc' = [pc EXCEPT ![c] = "lock"] /\ answer' = [answer EXCEPT ![c] = None]
      /\ UNCHANGED <<now, mu, saToken, reply, issued>> /\ pc[c] = "idle"
  BY DEF Call
<1>2. PICK f \in BOOLEAN :
        call' = [call EXCEPT ![c] = [force |-> f, at |-> now, issued |-> issued]]
  BY DEF Call
<1>3. TypeOK'
  BY <1>1, <1>2 DEF Inv, TypeOK, Calls
<1>4. Exclusion' /\ Posted'
  BY <1>1, <1>2 DEF Inv, TypeOK, Exclusion, Posted, Inside, Usable
<1>5. Order'
  BY <1>1, <1>2 DEF Inv, TypeOK, Order
<1>6. Past'
  BY <1>1, <1>2 DEF Inv, TypeOK, Past, Calls
<1>7. Given'
  BY <1>1, <1>2, ValueAssumption DEF Inv, TypeOK, Given
<1>8. QED
  BY <1>3, <1>4, <1>5, <1>6, <1>7 DEF Inv

\* A caller takes the mutex: nobody was inside.
LEMMA LockInv == ASSUME Inv, NEW c \in Callers, Lock(c) PROVE Inv'
<1>1. /\ pc[c] = "lock" /\ mu = None /\ mu' = c /\ pc' = [pc EXCEPT ![c] = "check"]
      /\ UNCHANGED <<now, saToken, call, reply, answer, issued>>
  BY DEF Lock
<1>2. \A b \in Callers : pc[b] \notin Inside
  BY <1>1, BoundAssumption DEF Inv, Exclusion
<1>3. TypeOK'
  BY <1>1 DEF Inv, TypeOK, Inside
<1>4. Exclusion' /\ Posted' /\ Order'
  BY <1>1, <1>2 DEF Inv, TypeOK, Exclusion, Posted, Order, Inside
<1>5. Past' /\ Given'
  BY <1>1 DEF Inv, TypeOK, Past, Given
<1>6. QED
  BY <1>3, <1>4, <1>5 DEF Inv

\* The cached token is returned: it is usable now, and the call was made before.
LEMMA HitInv == ASSUME Inv, NEW c \in Callers, Hit(c) PROVE Inv'
<1>1. /\ pc[c] \in Inside /\ ~call[c].force /\ now < saToken.exp + Skew
      /\ saToken \in Token /\ Return(c, saToken) /\ saToken' = saToken
  BY DEF Hit, Cached, Usable, Inside, Inv, TypeOK
<1>2. call[c].at < saToken.exp + Skew
  BY <1>1, BoundAssumption DEF Inv, Past, TypeOK, Calls, Token
<1>3. saToken.serial <= saToken.serial /\ saToken.serial <= issued
  BY <1>1, ValueAssumption DEF Token, Inv, Order
<1>4. QED
  BY <1>1, <1>2, <1>3, ReturnKeeps

\* The cache did not serve: the caller keeps the mutex and asks.
LEMMA MissInv == ASSUME Inv, NEW c \in Callers, Miss(c) PROVE Inv'
<1>1. /\ pc[c] = "check" /\ pc' = [pc EXCEPT ![c] = "post"]
      /\ UNCHANGED <<now, mu, saToken, call, reply, answer, issued>>
      /\ call[c].force \/ ~Usable(saToken)
  BY DEF Miss, Cached
<1>2. TypeOK'
  BY <1>1 DEF Inv, TypeOK, Inside
<1>3. Exclusion' /\ Posted'
  BY <1>1 DEF Inv, TypeOK, Exclusion, Posted, Inside, Usable
<1>4. Order' /\ Past' /\ Given'
  BY <1>1 DEF Inv, TypeOK, Order, Past, Given
<1>5. QED
  BY <1>2, <1>3, <1>4 DEF Inv

\* The identity provider issues a token, newer than every one before.
LEMMA IssueInv == ASSUME Inv, NEW c \in Callers, Issue(c) PROVE Inv'
<1>1. /\ pc[c] = "post" /\ issued < MaxMints /\ issued' = issued + 1
      /\ pc' = [pc EXCEPT ![c] = "reply"] /\ UNCHANGED <<now, mu, saToken, call, answer>>
  BY DEF Issue
<1>2. PICK e \in 0 .. MaxTime : reply' = [reply EXCEPT ![c] = [serial |-> issued', exp |-> e]]
  BY DEF Issue
<1>3. issued' \in 1 .. MaxMints
  BY <1>1, BoundAssumption DEF Inv, TypeOK
<1>4. reply'[c] \in Token /\ reply'[c].serial = issued'
  BY <1>1, <1>2, <1>3 DEF Inv, TypeOK, Token
<1>5. TypeOK'
  BY <1>1, <1>2, <1>3, <1>4 DEF Inv, TypeOK, Inside
<1>6. Exclusion' /\ Posted'
  BY <1>1 DEF Inv, TypeOK, Exclusion, Posted, Inside, Usable
<1>7. \A b \in Callers \ {c} : pc'[b] # "reply"
  BY <1>1, Alone DEF Inv, TypeOK, Inside
<1>8. Order'
  <2>1. saToken # None => saToken'.serial < issued'
    BY <1>1 DEF Inv, TypeOK, Order, Token
  <2>2. call[c].issued < issued'
    BY <1>1 DEF Inv, TypeOK, Past, Calls
  <2>3. QED
    BY <1>1, <1>3, <1>4, <1>7, <2>1, <2>2 DEF Inv, TypeOK, Order, Token
<1>9. Past'
  BY <1>1 DEF Inv, TypeOK, Past, Calls
<1>10. Given'
  BY <1>1 DEF Inv, TypeOK, Given
<1>11. QED
  BY <1>5, <1>6, <1>8, <1>9, <1>10 DEF Inv

\* The answer arrives and is cached.
LEMMA ReceiveInv == ASSUME Inv, NEW c \in Callers, Receive(c) PROVE Inv'
<1>1. /\ pc[c] = "reply" /\ pc[c] \in Inside /\ saToken' = reply[c] /\ Return(c, reply[c])
  BY DEF Receive, Inside
<1>2. /\ reply[c] \in Token /\ reply[c].serial <= issued /\ call[c].issued < reply[c].serial
      /\ saToken # None => saToken.serial < reply[c].serial
  BY <1>1 DEF Inv, Order
<1>3. /\ saToken' \in Token /\ saToken' # None
      /\ reply[c].serial > call[c].issued
      /\ saToken # None => saToken.serial <= saToken'.serial /\ saToken.serial # saToken'.serial
  BY <1>1, <1>2, ValueAssumption DEF Inv, TypeOK, Token, Calls
<1>4. QED
  BY <1>1, <1>2, <1>3, ReturnKeeps

\* The request fails and the cache stays.
LEMMA FailInv == ASSUME Inv, NEW c \in Callers, Fail(c) PROVE Inv'
<1>1. pc[c] \in Inside /\ Return(c, Error) /\ saToken' = saToken
  BY DEF Fail, Inside
<1>2. saToken # None => saToken.serial <= saToken.serial /\ saToken.serial <= issued
  BY DEF Inv, TypeOK, Order, Token
<1>3. QED
  BY <1>1, <1>2, ValueAssumption, ReturnKeeps DEF Inv, TypeOK

\* Time passes: an unusable token stays unusable.
LEMMA TickInv == Inv /\ Tick => Inv'
<1> SUFFICES ASSUME Inv, Tick PROVE Inv'
  OBVIOUS
<1>1. /\ now' = now + 1 /\ now < MaxTime
      /\ UNCHANGED <<mu, saToken, pc, call, reply, answer, issued>>
  BY DEF Tick
<1>2. TypeOK' /\ Past'
  BY <1>1, BoundAssumption DEF Inv, TypeOK, Past, Calls
<1>3. ~Usable(saToken) => ~(saToken # None /\ now' < saToken.exp + Skew)
  BY <1>1, BoundAssumption DEF Inv, TypeOK, Usable, Token
<1>4. Posted'
  BY <1>1, <1>3 DEF Inv, Posted, Usable
<1>5. Exclusion' /\ Order' /\ Given'
  BY <1>1 DEF Inv, Exclusion, Order, Given
<1>6. QED
  BY <1>2, <1>4, <1>5 DEF Inv

\* Every step keeps the invariant.
LEMMA NextInv == Inv /\ [Next]_vars => Inv'
<1> SUFFICES ASSUME Inv, [Next]_vars PROVE Inv'
  OBVIOUS
<1>1. CASE UNCHANGED vars
  BY <1>1 DEF vars, Inv, TypeOK, Exclusion, Posted, Order, Past, Given, Usable
<1>2. QED
  BY <1>1, CallInv, LockInv, HitInv, MissInv, IssueInv, ReceiveInv, FailInv, TickInv
     DEF Next, Step

\* The mutex excludes, tokens arrive in order, and what was given is as promised.
THEOREM Invariance == Spec => []Inv
  BY InitInv, NextInv, PTL DEF Spec

-----------------------------------------------------------------------------
(***************************************************************************)
(* The promises.                                                           *)
(***************************************************************************)

\* The variables always have their types.
THEOREM TypeCorrect == Spec => []TypeOK
  BY Invariance, PTL DEF Inv

\* No answer, however late, replaces a newer token.
THEOREM NewestIsCached == Spec => []CacheIsNewest
<1>1. Inv => CacheIsNewest
  BY DEF Inv, Given, CacheIsNewest, Serial
<1>2. QED
  BY <1>1, Invariance, PTL

\* No caller is given a token that had expired before it called, unless the token
\* was minted for it.
THEOREM NeverStale == Spec => []NothingStale
<1>1. Inv => NothingStale
  BY DEF Inv, Given, NothingStale
<1>2. QED
  BY <1>1, Invariance, PTL

\* A forced call is answered by a token minted after it was made.
THEOREM ForceMints == Spec => []ForcedIsNew
<1>1. Inv => ForcedIsNew
  BY DEF Inv, Given, ForcedIsNew
<1>2. QED
  BY <1>1, Invariance, PTL

\* Of callers that find the cache expired together only one asks.
THEOREM MintsAreNeeded == Spec => NoNeedlessMint
<1>1. Inv /\ [Next]_vars =>
        [\A c, b \in Callers :
           /\ pc[c] = "post" /\ pc'[c] = "reply" /\ ~call[c].force
           /\ answer[b] \in Token /\ answer[b].serial = issued
           => ~Usable(answer[b])]_vars
  <2> SUFFICES ASSUME Inv, NEW c \in Callers, NEW b \in Callers,
                      pc[c] = "post", ~call[c].force,
                      answer[b] \in Token, answer[b].serial = issued
               PROVE  ~Usable(answer[b])
    OBVIOUS
  <2>1. ~Usable(saToken)
    BY DEF Inv, Posted
  <2>2. saToken \in Token /\ saToken.serial <= issued /\ answer[b].serial <= saToken.serial
    BY DEF Inv, TypeOK, Order, Given
  <2>3. answer[b].serial = saToken.serial
    BY <2>2 DEF Inv, TypeOK, Token
  <2>4. QED
    BY <2>1, <2>3 DEF Inv, Given
<1>2. QED
  BY <1>1, Invariance, PTL DEF Spec, NoNeedlessMint

-----------------------------------------------------------------------------
(***************************************************************************)
(* The cache under its mutex implements the one-step cache: a hit is a     *)
(* Serve, an answer that arrives is a Mint, a failure is a Refuse, and     *)
(* taking the mutex, missing and issuing are invisible.                    *)
(***************************************************************************)

\* The callers that are not answered, and how a return changes them.
LEMMA ReturnAnswers ==
  ASSUME Inv, NEW c \in Callers, pc[c] \in Inside, NEW a, Return(c, a)
  PROVE  /\ c \in {b \in Callers : pc[b] # "idle"}
         /\ {b \in Callers : pc'[b] # "idle"} = {b \in Callers : pc[b] # "idle"} \ {c}
         /\ answer' = [answer EXCEPT ![c] = a] /\ UNCHANGED <<now, call>>
         /\ [b \in Callers |-> call'[b].force] = [b \in Callers |-> call[b].force]
  BY DEF Return, Inside, Inv, TypeOK

\* A step that is invisible to the callers.
LEMMA Invisible ==
  ASSUME Inv, NEW c \in Callers, Lock(c) \/ Miss(c) \/ Issue(c)
  PROVE  UNCHANGED Promise!vars
<1>1. UNCHANGED <<now, saToken, call, answer>>
  BY DEF Lock, Miss, Issue
<1>2. {b \in Callers : pc'[b] # "idle"} = {b \in Callers : pc[b] # "idle"}
  BY DEF Lock, Miss, Issue, Inv, TypeOK
<1>3. QED
  BY <1>1, <1>2 DEF Promise!vars

\* A call is an Ask of the one-step cache.
LEMMA CallAsks == ASSUME Inv, NEW c \in Callers, Call(c) PROVE Promise!Ask(c)
<1>1. /\ pc[c] = "idle" /\ pc' = [pc EXCEPT ![c] = "lock"]
      /\ answer' = [answer EXCEPT ![c] = None] /\ UNCHANGED <<now, saToken>>
  BY DEF Call
<1>2. PICK f \in BOOLEAN :
        call' = [call EXCEPT ![c] = [force |-> f, at |-> now, issued |-> issued]]
  BY DEF Call
<1>3. c \notin {b \in Callers : pc[b] # "idle"}
  BY <1>1
<1>4. {b \in Callers : pc'[b] # "idle"} = {b \in Callers : pc[b] # "idle"} \union {c}
  BY <1>1 DEF Inv, TypeOK
<1>5. [b \in Callers |-> call'[b].force] = [[b \in Callers |-> call[b].force] EXCEPT ![c] = f]
  BY <1>2 DEF Inv, TypeOK
<1>6. QED
  BY <1>1, <1>3, <1>4, <1>5 DEF Promise!Ask

\* A hit is a Serve.
LEMMA HitServes == ASSUME Inv, NEW c \in Callers, Hit(c) PROVE Promise!Serve(c)
<1>1. pc[c] \in Inside /\ Return(c, saToken) /\ ~call[c].force /\ Usable(saToken) /\ saToken' = saToken
  BY DEF Hit, Cached, Inside
<1>2. QED
  BY <1>1, ReturnAnswers DEF Promise!Serve, Promise!Answer, Promise!Usable, Usable

\* An answer that arrives is a Mint.
LEMMA ReceiveMints == ASSUME Inv, NEW c \in Callers, Receive(c) PROVE Promise!Mint(c)
<1>1. /\ pc[c] \in Inside /\ pc[c] = "reply" /\ Return(c, reply[c]) /\ saToken' = reply[c]
      /\ call[c].force \/ ~Usable(saToken)
  BY DEF Receive, Inside, Inv, Posted
<1>2. reply[c] \in Token /\ (saToken # None => saToken.serial < reply[c].serial)
  BY <1>1 DEF Inv, Order
<1>3. reply[c] \in Promise!Token
  BY <1>2, BoundAssumption DEF Token, Promise!Token
<1>4. reply[c].serial > Promise!Serial(saToken)
  BY <1>2, ValueAssumption DEF Token, Promise!Serial, Inv, TypeOK
<1>5. QED
  BY <1>1, <1>3, <1>4, ReturnAnswers DEF Promise!Mint, Promise!Answer, Promise!Usable, Usable

\* A request that fails is a Refuse.
LEMMA FailRefuses == ASSUME Inv, NEW c \in Callers, Fail(c) PROVE Promise!Refuse(c)
<1>1. /\ pc[c] \in Inside /\ Return(c, Error) /\ saToken' = saToken
      /\ call[c].force \/ ~Usable(saToken)
  BY DEF Fail, Inside, Inv, Posted
<1>2. QED
  BY <1>1, ReturnAnswers DEF Promise!Refuse, Promise!Answer, Promise!Usable, Usable

\* Every call is answered as if it had been made alone, at one moment between its
\* start and its end.
THEOREM Refinement == Spec => Atomic
<1>1. Init => Promise!Init
  BY DEF Init, Promise!Init
<1>2. Inv /\ [Next]_vars => [Promise!Next]_(Promise!vars)
  <2> SUFFICES ASSUME Inv, [Next]_vars PROVE [Promise!Next]_(Promise!vars)
    OBVIOUS
  <2>1. CASE UNCHANGED vars
    BY <2>1 DEF vars, Promise!vars
  <2>2. CASE Tick
    BY <2>2 DEF Tick, Promise!Next, Promise!Tick
  <2>3. ASSUME NEW c \in Callers, Call(c) \/ Lock(c) \/ Step(c)
        PROVE  [Promise!Next]_(Promise!vars)
    <3>1. CASE Lock(c) \/ Miss(c) \/ Issue(c)
      BY <3>1, Invisible
    <3>2. CASE Call(c) \/ Hit(c) \/ Receive(c) \/ Fail(c)
      BY <3>2, CallAsks, HitServes, ReceiveMints, FailRefuses DEF Promise!Next
    <3>3. QED
      BY <2>3, <3>1, <3>2 DEF Step
  <2>4. QED
    BY <2>1, <2>2, <2>3 DEF Next
<1>3. QED
  BY <1>1, <1>2, Invariance, PTL DEF Spec, Atomic, Promise!Spec
=============================================================================
