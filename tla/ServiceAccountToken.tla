------------------------ MODULE ServiceAccountToken ------------------------
(***************************************************************************)
(* The access token of a Service Account (client/access_token.go): the     *)
(* goroutines of the provider share one client, whose token is cached in   *)
(* memory, checked and minted under a mutex that is held while the         *)
(* identity provider is asked.                                             *)
(*                                                                         *)
(* The identity provider and the clock are external.  A token is known by  *)
(* the order of its issue and by its expiry; a token that does not parse   *)
(* is one that has always been expired.                                    *)
(*                                                                         *)
(* IgnoresExpiry, LockIgnored, ErrorKeepsLock, ForceIgnored, Unlocked,     *)
(* KeptOnMint and FailCaches are faulty variants of the definition they    *)
(* precede.                                                                *)
(***************************************************************************)
EXTENDS Naturals

CONSTANTS
  Callers,  \* the goroutines that need a token
  Skew,     \* the 30 seconds of acceptable skew
  MaxTime,  \* bound: the clock stops here
  MaxMints, \* bound: how many tokens are issued
  None,     \* no token, no owner of the mutex
  Error     \* the answer of a call that fails

ASSUME BoundAssumption ==
  /\ Skew \in Nat /\ MaxTime \in Nat /\ MaxMints \in Nat
  /\ None \notin Callers /\ None # Error

VARIABLES
  now,     \* the time
  mu,      \* saTokenMu: its owner, or None
  saToken, \* the cached token, or None
  pc,      \* where each caller is in serviceAccountToken
  call,    \* each caller's call: force, and when it was made
  reply,   \* the token in the answer under way to each caller
  answer,  \* what each caller's last call returned
  issued   \* how many tokens were issued

vars == <<now, mu, saToken, pc, call, reply, answer, issued>>

Token == [serial: 1 .. MaxMints, exp: 0 .. MaxTime]
ASSUME ValueAssumption == None \notin Token /\ Error \notin Token

Inside == {"check", "post", "reply"}
Calls == [force: BOOLEAN, at: 0 .. MaxTime, issued: 0 .. MaxMints]

TypeOK ==
  /\ now \in 0 .. MaxTime
  /\ mu \in Callers \union {None}
  /\ saToken \in Token \union {None}
  /\ pc \in [Callers -> {"idle", "lock"} \union Inside]
  /\ call \in [Callers -> Calls]
  /\ reply \in [Callers -> Token \union {None}]
  /\ answer \in [Callers -> Token \union {None, Error}]
  /\ issued \in 0 .. MaxMints

Init ==
  /\ now = 0 /\ mu = None /\ saToken = None /\ issued = 0
  /\ pc = [c \in Callers |-> "idle"]
  /\ call = [c \in Callers |-> [force |-> FALSE, at |-> 0, issued |-> 0]]
  /\ reply = [c \in Callers |-> None] /\ answer = [c \in Callers |-> None]

-----------------------------------------------------------------------------
\* isUsable: the signature is not verified.
IgnoresExpiry(t) == t # None
Usable(t) == t # None /\ now < t.exp + Skew

\* addAuthorizationHeader never forces a new token, TokenRefresh may.
Call(c) ==
  /\ pc[c] = "idle"
  /\ \E f \in BOOLEAN : call' = [call EXCEPT ![c] = [force |-> f, at |-> now, issued |-> issued]]
  /\ pc' = [pc EXCEPT ![c] = "lock"]
  /\ answer' = [answer EXCEPT ![c] = None]
  /\ UNCHANGED <<now, mu, saToken, reply, issued>>

LockIgnored(c) ==
  /\ pc[c] = "lock"
  /\ mu' = c
  /\ pc' = [pc EXCEPT ![c] = "check"]
  /\ UNCHANGED <<now, saToken, call, reply, answer, issued>>

Lock(c) ==
  /\ pc[c] = "lock" /\ mu = None
  /\ mu' = c
  /\ pc' = [pc EXCEPT ![c] = "check"]
  /\ UNCHANGED <<now, saToken, call, reply, answer, issued>>

ErrorKeepsLock(c, a) ==
  /\ mu' = IF a = Error THEN mu ELSE None
  /\ pc' = [pc EXCEPT ![c] = "idle"]
  /\ answer' = [answer EXCEPT ![c] = a]
  /\ reply' = [reply EXCEPT ![c] = None]
  /\ UNCHANGED <<now, call, issued>>

\* The deferred unlock belongs to every return.
Return(c, a) ==
  /\ mu' = None
  /\ pc' = [pc EXCEPT ![c] = "idle"]
  /\ answer' = [answer EXCEPT ![c] = a]
  /\ reply' = [reply EXCEPT ![c] = None]
  /\ UNCHANGED <<now, call, issued>>

ForceIgnored(c) == Usable(saToken)
Cached(c) == ~call[c].force /\ Usable(saToken)

Hit(c) ==
  /\ pc[c] = "check" /\ Cached(c)
  /\ Return(c, saToken)
  /\ UNCHANGED saToken

Unlocked(c) ==
  /\ pc[c] = "check" /\ ~Cached(c)
  /\ pc' = [pc EXCEPT ![c] = "post"]
  /\ mu' = None
  /\ UNCHANGED <<now, saToken, call, reply, answer, issued>>

\* PostForm is sent without a context and without a timeout, with the mutex held.
Miss(c) ==
  /\ pc[c] = "check" /\ ~Cached(c)
  /\ pc' = [pc EXCEPT ![c] = "post"]
  /\ UNCHANGED <<now, mu, saToken, call, reply, answer, issued>>

\* The identity provider issues a token (external).  Nothing keeps it from
\* issuing one that has expired by this machine's clock.
Issue(c) ==
  /\ pc[c] = "post" /\ issued < MaxMints
  /\ issued' = issued + 1
  /\ \E e \in 0 .. MaxTime : reply' = [reply EXCEPT ![c] = [serial |-> issued', exp |-> e]]
  /\ pc' = [pc EXCEPT ![c] = "reply"]
  /\ UNCHANGED <<now, mu, saToken, call, answer>>

KeptOnMint(c) ==
  /\ pc[c] = "reply"
  /\ UNCHANGED saToken
  /\ Return(c, reply[c])

\* The new token replaces the cached one and is returned without another look.
Receive(c) ==
  /\ pc[c] = "reply"
  /\ saToken' = reply[c]
  /\ Return(c, reply[c])

FailCaches(c) ==
  /\ pc[c] \in {"post", "reply"}
  /\ Return(c, Error)
  /\ saToken' = [serial |-> 0, exp |-> 0]

\* The request or its answer is lost, refused or not decoded: the cache stays.
Fail(c) ==
  /\ pc[c] \in {"post", "reply"}
  /\ Return(c, Error)
  /\ UNCHANGED saToken

\* The clock (external).
Tick ==
  /\ now < MaxTime
  /\ now' = now + 1
  /\ UNCHANGED <<mu, saToken, pc, call, reply, answer, issued>>

Step(c) == Hit(c) \/ Miss(c) \/ Issue(c) \/ Receive(c) \/ Fail(c)

Next == Tick \/ \E c \in Callers : Call(c) \/ Lock(c) \/ Step(c)

Spec == Init /\ [][Next]_vars

\* A request to the identity provider ends at some time, and a goroutine that
\* waits for a sync.Mutex is not passed over for ever (Go hands the mutex to the
\* first waiter after a millisecond).
FairSpec == Spec /\ \A c \in Callers : WF_vars(Step(c)) /\ SF_vars(Lock(c))

-----------------------------------------------------------------------------
Serial(t) == IF t = None THEN 0 ELSE t.serial

\* No answer, however late, replaces a newer token: whatever any caller was given
\* is in the cache or older than what is (access_token.go:94-95, 129).
CacheIsNewest ==
  \A c \in Callers : answer[c] \in Token => answer[c].serial <= Serial(saToken)

\* A token that had expired, skew included, before the call was made is returned
\* only when it was minted during the call: waiting for the mutex does not let
\* a stale one through (access_token.go:97-99).
NothingStale ==
  \A c \in Callers :
    pc[c] = "idle" /\ answer[c] \in Token =>
      \/ call[c].at < answer[c].exp + Skew
      \/ answer[c].serial > call[c].issued

\* A forced call returns a token that was minted after the call was made, even
\* when another caller has renewed the cache meanwhile (access_token.go:97).
ForcedIsNew ==
  \A c \in Callers :
    pc[c] = "idle" /\ call[c].force /\ answer[c] \in Token => answer[c].serial > call[c].issued

\* Callers that find the cache expired at the same time do not all ask the
\* identity provider: while some caller has been given the newest token and it is
\* usable, none is minted for a call that does not insist (access_token.go:94-99;
\* access_token_test.go:118-119).
NoNeedlessMint ==
  [][\A c, b \in Callers :
       /\ pc[c] = "post" /\ pc'[c] = "reply" /\ ~call[c].force
       /\ answer[b] \in Token /\ answer[b].serial = issued
       => ~Usable(answer[b])]_vars

\* The cache behaves like one that answers a call in one step.
Promise == INSTANCE TokenSource
  WITH current <- saToken,
       waiting <- {c \in Callers : pc[c] # "idle"},
       force <- [c \in Callers |-> call[c].force]

Atomic == Promise!Spec

\* Every call is answered, if the identity provider answers or breaks off every
\* request: an error does not leave the mutex locked.
EveryCallAnswered == Promise!Answered
=============================================================================
