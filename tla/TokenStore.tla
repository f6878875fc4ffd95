----------------------------- MODULE TokenStore -----------------------------
(***************************************************************************)
(* The access token of a user (client/access_token.go, the flow with a     *)
(* refresh token, and client/token_store.go): the token is kept in a file  *)
(* that every provider process and the esc command line tool share, and    *)
(* that is read and written without a lock.                                *)
(*                                                                         *)
(* The identity provider, the clock and the file system are external.      *)
(* os.WriteFile opens the file, which empties it, and writes the bytes     *)
(* from its beginning: two writers that both opened it before either wrote *)
(* leave the longer token with the beginning of the other one.             *)
(*                                                                         *)
(* IgnoresExpiry, FailStores and StoreKept are faulty variants of the      *)
(* definition they precede.                                                *)
(***************************************************************************)
EXTENDS Naturals

CONSTANTS
  Callers,  \* the processes that use the store
  Skew,     \* the 30 seconds of acceptable skew
  MaxTime,  \* bound: the clock stops here
  MaxMints, \* bound: how many tokens are issued
  None,     \* no token
  Error,    \* the answer of a call that fails
  Missing,  \* there is no file
  Empty,    \* the file is there and has no bytes
  Garbled   \* the file does not decode

VARIABLES
  now,         \* the time
  file,        \* the file of the audience
  pc,          \* where each caller is in accessToken
  call,        \* each caller's call: force, when it was made, whether it asked
  held,        \* the token each caller received and has not stored
  answer,      \* what each caller's last call returned
  issued,      \* how many tokens were issued
  undisturbed  \* history: no two refreshes overlapped and no write was cut off

vars == <<now, file, pc, call, held, answer, issued, undisturbed>>

\* A token signed with another key is never valid.
Token == [serial: 1 .. MaxMints, exp: 0 .. MaxTime, signed: BOOLEAN]
Refreshing == {"post", "reply", "write"}

ASSUME BoundAssumption ==
  /\ Skew \in Nat /\ MaxTime \in Nat /\ MaxMints \in Nat
  /\ {None, Error, Missing, Empty, Garbled} \intersect Token = {}

ASSUME FileAssumption ==
  /\ Missing \notin {Empty, Garbled} /\ Empty # Garbled /\ None # Error

TypeOK ==
  /\ now \in 0 .. MaxTime
  /\ file \in Token \union {Missing, Empty, Garbled}
  /\ pc \in [Callers -> {"idle", "stat", "read"} \union Refreshing]
  /\ call \in [Callers -> [force: BOOLEAN, at: 0 .. MaxTime, asked: BOOLEAN]]
  /\ held \in [Callers -> Token \union {None}]
  /\ answer \in [Callers -> Token \union {None, Error}]
  /\ issued \in 0 .. MaxMints
  /\ undisturbed \in BOOLEAN

Init ==
  /\ now = 0 /\ file = Missing /\ issued = 0 /\ undisturbed = TRUE
  /\ pc = [c \in Callers |-> "idle"]
  /\ call = [c \in Callers |-> [force |-> FALSE, at |-> 0, asked |-> FALSE]]
  /\ held = [c \in Callers |-> None] /\ answer = [c \in Callers |-> None]

-----------------------------------------------------------------------------
IgnoresExpiry(t) == t.signed

\* accessToken.IsValid: the signature, and the expiry with its skew.
IsValid(t) == t.signed /\ now < t.exp + Skew

Return(c, a) ==
  /\ pc' = [pc EXCEPT ![c] = "idle"]
  /\ answer' = [answer EXCEPT ![c] = a]
  /\ held' = [held EXCEPT ![c] = None]

Call(c) ==
  /\ pc[c] = "idle"
  /\ pc' = [pc EXCEPT ![c] = "stat"]
  /\ \E f \in BOOLEAN : call' = [call EXCEPT ![c] = [force |-> f, at |-> now, asked |-> FALSE]]
  /\ answer' = [answer EXCEPT ![c] = None]
  /\ UNCHANGED <<now, file, held, issued, undisturbed>>

\* A caller turns to the identity provider.
Ask(c) ==
  /\ pc' = [pc EXCEPT ![c] = "post"]
  /\ call' = [call EXCEPT ![c].asked = TRUE]
  /\ undisturbed' = (undisturbed /\ \A b \in Callers : pc[b] \notin Refreshing)
  /\ UNCHANGED <<now, file, held, answer, issued>>

\* exists: anything but the absence of the file counts as existence.
Stat(c) ==
  /\ pc[c] = "stat"
  /\ \/ (file = Missing \/ call[c].force) /\ Ask(c)
     \/ /\ file # Missing /\ ~call[c].force
        /\ pc' = [pc EXCEPT ![c] = "read"]
        /\ UNCHANGED <<now, file, call, held, answer, issued, undisturbed>>

\* get: a file that does not decode is an error, not a reason to refresh.
Get(c) ==
  /\ pc[c] = "read"
  /\ \/ file \in Token /\ ~IsValid(file) /\ Ask(c)
     \/ /\ \/ file \in Token /\ IsValid(file) /\ Return(c, file)
           \/ file \in {Empty, Garbled} /\ Return(c, Error)
        /\ UNCHANGED <<now, file, call, issued, undisturbed>>

\* The identity provider issues a token (external), possibly one that is not
\* valid here, and it is returned without another look.
Issue(c) ==
  /\ pc[c] = "post" /\ issued < MaxMints
  /\ issued' = issued + 1
  /\ \E e \in 0 .. MaxTime, s \in BOOLEAN :
       held' = [held EXCEPT ![c] = [serial |-> issued', exp |-> e, signed |-> s]]
  /\ pc' = [pc EXCEPT ![c] = "reply"]
  /\ UNCHANGED <<now, file, call, answer, undisturbed>>

FailStores(c) ==
  /\ pc[c] \in {"post", "reply"}
  /\ file' = None
  /\ Return(c, Error)
  /\ UNCHANGED <<now, call, issued, undisturbed>>

\* The request or its answer is lost, refused or not decoded, or the store cannot
\* be opened for writing.
Fail(c) ==
  /\ pc[c] \in {"post", "reply"}
  /\ Return(c, Error)
  /\ UNCHANGED <<now, file, call, issued, undisturbed>>

\* put, os.WriteFile: the opening empties the file.
Open(c) ==
  /\ pc[c] = "reply"
  /\ file' = Empty
  /\ pc' = [pc EXCEPT ![c] = "write"]
  /\ UNCHANGED <<now, call, held, answer, issued, undisturbed>>

\* put, os.WriteFile: the bytes.  What another writer left stays behind them when
\* it is longer.
Written(c) == {held[c]} \union (IF file = Empty THEN {} ELSE {Garbled})

StoreKept(c) ==
  /\ pc[c] = "write"
  /\ Return(c, held[c])
  /\ UNCHANGED <<now, file, call, issued, undisturbed>>

Write(c) ==
  /\ pc[c] = "write"
  /\ \/ /\ file' \in Written(c)
        /\ Return(c, held[c])
        /\ UNCHANGED undisturbed
     \/ /\ file' \in {file, Garbled}
        /\ Return(c, Error)
        /\ undisturbed' = FALSE
  /\ UNCHANGED <<now, call, issued>>

\* The process dies.
Crash(c) ==
  /\ pc[c] # "idle"
  /\ Return(c, None)
  /\ undisturbed' = (undisturbed /\ pc[c] # "write")
  /\ UNCHANGED <<now, file, call, issued>>

\* The clock (external).
Tick ==
  /\ now < MaxTime
  /\ now' = now + 1
  /\ UNCHANGED <<file, pc, call, held, answer, issued, undisturbed>>

Next ==
  \/ Tick
  \/ \E c \in Callers :
       Call(c) \/ Stat(c) \/ Get(c) \/ Issue(c) \/ Fail(c) \/ Open(c) \/ Write(c) \/ Crash(c)

Spec == Init /\ [][Next]_vars

-----------------------------------------------------------------------------
\* What a call returned is still in the file, whole, or something newer is, or
\* somebody is writing: as long as no two refreshes overlapped and no write was
\* cut off.  Either accident loses it, since the file is replaced in place and
\* without a lock (token_store.go:51, access_token.go:143-181).
StoreKeepsNewest ==
  undisturbed /\ (\A c \in Callers : pc[c] # "write") =>
    \A c \in Callers :
      answer[c] \in Token => file \in Token /\ file.serial >= answer[c].serial

\* A token that was not minted for the call was valid when the call was made, even
\* when others replace the file between the check for its existence and the
\* reading of it (access_token.go:143-152).
NothingInvalid ==
  \A c \in Callers :
    pc[c] = "idle" /\ answer[c] \in Token /\ ~call[c].asked =>
      answer[c].signed /\ call[c].at < answer[c].exp + Skew

\* What TestAccessTokenLegacyInvalidCachedTokenTriggersRefresh says of the store
\* (access_token_test.go:467): an invalid cached token triggers a refresh, so a
\* call fails only after it has asked the identity provider.
InvalidIsRefreshed ==
  \A c \in Callers : pc[c] = "idle" /\ answer[c] = Error => call[c].asked
=============================================================================
