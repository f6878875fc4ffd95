-------------------------- MODULE TokenStoreProofs --------------------------
(***************************************************************************)
(* Proofs about TokenStore, for every number of processes, of tokens and   *)
(* of ticks of the clock.                                                  *)
(***************************************************************************)
EXTENDS TokenStore, TLAPS

\* The null values are no tokens.
LEMMA NullTokens ==
  /\ None \notin Token /\ Error \notin Token /\ Missing \notin Token
  /\ Empty \notin Token /\ Garbled \notin Token
  BY BoundAssumption

-----------------------------------------------------------------------------
(***************************************************************************)
(* Types.  A caller that has its answer from the identity provider holds a *)
(* token until it has stored it.                                           *)
(***************************************************************************)
Held == \A c \in Callers : pc[c] \in {"reply", "write"} => held[c] \in Token

Inv == TypeOK /\ Held

\* A call that returns.
LEMMA ReturnKeeps ==
  ASSUME Inv, NEW c \in Callers, NEW a \in Token \union {None, Error}, Return(c, a)
  PROVE  /\ pc' \in [Callers -> {"idle", "stat", "read"} \union Refreshing]
         /\ held' \in [Callers -> Token \union {None}]
         /\ answer' \in [Callers -> Token \union {None, Error}]
         /\ Held'
         /\ pc'[c] = "idle" /\ answer'[c] = a
         /\ \A b \in Callers \ {c} : pc'[b] = pc[b] /\ answer'[b] = answer[b] /\ held'[b] = held[b]
  BY DEF Inv, TypeOK, Held, Return

\* A call that turns to the identity provider.
LEMMA AskKeeps ==
  ASSUME Inv, NEW c \in Callers, Ask(c)
  PROVE  /\ Inv'
         /\ pc'[c] = "post" /\ call'[c].asked /\ call'[c].at = call[c].at
         /\ \A b \in Callers \ {c} : pc'[b] = pc[b] /\ call'[b] = call[b]
  BY DEF Inv, TypeOK, Held, Ask, Refreshing

\* At the start there is nothing.
LEMMA InitInv == Init => Inv
  BY BoundAssumption DEF Init, Inv, TypeOK, Held

\* Every step keeps the types.
LEMMA NextInv == Inv /\ [Next]_vars => Inv'
<1> SUFFICES ASSUME Inv, [Next]_vars PROVE Inv'
  OBVIOUS
<1>1. CASE UNCHANGED vars
  BY <1>1 DEF vars, Inv, TypeOK, Held
<1>2. CASE Tick
  BY <1>2, BoundAssumption DEF Tick, Inv, TypeOK, Held
<1>3. ASSUME NEW c \in Callers, Call(c) PROVE Inv'
  BY <1>3, BoundAssumption DEF Call, Inv, TypeOK, Held
<1>4. ASSUME NEW c \in Callers, Stat(c) PROVE Inv'
  <2>1. CASE UNCHANGED <<now, file, call, held, answer, issued, undisturbed>>
               /\ pc' = [pc EXCEPT ![c] = "read"]
    BY <2>1 DEF Inv, TypeOK, Held
  <2>2. QED
    BY <1>4, <2>1, AskKeeps DEF Stat
<1>5. ASSUME NEW c \in Callers, Get(c) PROVE Inv'
  <2>1. ASSUME NEW a \in Token \union {Error}, Return(c, a),
               UNCHANGED <<now, file, call, issued, undisturbed>>
        PROVE  Inv'
    BY <2>1, ReturnKeeps DEF Inv, TypeOK
  <2>2. QED
    BY <1>5, <2>1, AskKeeps DEF Get
<1>6. ASSUME NEW c \in Callers, Issue(c) PROVE Inv'
  <2>1. PICK e \in 0 .. MaxTime, s \in BOOLEAN :
          held' = [held EXCEPT ![c] = [serial |-> issued', exp |-> e, signed |-> s]]
    BY <1>6 DEF Issue
  <2>2. issued' \in 1 .. MaxMints /\ issued' \in 0 .. MaxMints
    BY <1>6, BoundAssumption DEF Issue, Inv, TypeOK
  <2>3. [serial |-> issued', exp |-> e, signed |-> s] \in Token
    BY <2>2 DEF Token
  <2>4. QED
    BY <1>6, <2>1, <2>2, <2>3 DEF Issue, Inv, TypeOK, Held, Refreshing
<1>7. ASSUME NEW c \in Callers, Fail(c) PROVE Inv'
  BY <1>7, ReturnKeeps DEF Fail, Inv, TypeOK
<1>8. ASSUME NEW c \in Callers, Open(c) PROVE Inv'
  BY <1>8 DEF Open, Inv, TypeOK, Held, Refreshing
<1>9. ASSUME NEW c \in Callers, Write(c) PROVE Inv'
  <2>1. held[c] \in Token
    BY <1>9 DEF Write, Inv, Held
  <2>2. file' \in Token \union {Missing, Empty, Garbled}
    BY <1>9, <2>1 DEF Write, Written, Inv, TypeOK
  <2>3. Return(c, held[c]) \/ Return(c, Error)
    BY <1>9 DEF Write
  <2>4. undisturbed' \in BOOLEAN
    BY <1>9 DEF Write, Inv, TypeOK
  <2>5. QED
    BY <1>9, <2>1, <2>2, <2>3, <2>4, ReturnKeeps DEF Write, Inv, TypeOK
<1>10. ASSUME NEW c \in Callers, Crash(c) PROVE Inv'
  BY <1>10, ReturnKeeps DEF Crash, Inv, TypeOK
<1>11. QED
  BY <1>1, <1>2, <1>3, <1>4, <1>5, <1>6, <1>7, <1>8, <1>9, <1>10 DEF Next

THEOREM Invariance == Spec => []Inv
  BY InitInv, NextInv, PTL DEF Spec

\* The variables always have their types.
THEOREM TypeCorrect == Spec => []TypeOK
<1>1. Inv => TypeOK
  BY DEF Inv
<1>2. QED
  BY <1>1, Invariance, PTL

-----------------------------------------------------------------------------
(***************************************************************************)
(* No call returns a stored token that was not valid.  Inductive once it   *)
(* is known that a call was made in the past, and that a call that is      *)
(* refreshing has asked for it.                                            *)
(***************************************************************************)
ValidInv ==
  /\ \A c \in Callers : call[c].at <= now /\ (pc[c] \in Refreshing => call[c].asked)
  /\ NothingInvalid

\* A call that returns after it asked, or without a token.
LEMMA ReturnValid ==
  ASSUME Inv, ValidInv, NEW c \in Callers, NEW a \in Token \union {None, Error}, Return(c, a),
         UNCHANGED <<now, call>>,
         a \in Token /\ ~call[c].asked => a.signed /\ call[c].at < a.exp + Skew
  PROVE  ValidInv'
<1>1. \A b \in Callers : call'[b].at <= now' /\ (pc'[b] \in Refreshing => call'[b].asked)
  BY ReturnKeeps DEF ValidInv, Refreshing
<1>2. NothingInvalid'
  BY ReturnKeeps DEF ValidInv, NothingInvalid
<1>3. QED
  BY <1>1, <1>2 DEF ValidInv

\* A call that turns to the identity provider.
LEMMA AskValid ==
  ASSUME Inv, ValidInv, NEW c \in Callers, Ask(c)
  PROVE  ValidInv'
<1>1. UNCHANGED <<now, answer>>
  BY DEF Ask
<1>2. QED
  BY <1>1, AskKeeps DEF ValidInv, NothingInvalid, Refreshing

THEOREM ValidInvariance == Spec => []ValidInv
<1>1. Init => ValidInv
  BY NullTokens DEF Init, ValidInv, NothingInvalid, Refreshing
<1>2. Inv /\ ValidInv /\ [Next]_vars => ValidInv'
  <2> SUFFICES ASSUME Inv, ValidInv, [Next]_vars PROVE ValidInv'
    OBVIOUS
  <2>1. CASE UNCHANGED vars
    BY <2>1 DEF vars, ValidInv, NothingInvalid
  <2>2. CASE Tick
    BY <2>2 DEF Tick, ValidInv, NothingInvalid, Inv, TypeOK
  <2>3. ASSUME NEW c \in Callers, Call(c) PROVE ValidInv'
    <3>1. /\ pc'[c] = "stat" /\ call'[c].at = now /\ answer'[c] = None
          /\ \A b \in Callers \ {c} : pc'[b] = pc[b] /\ call'[b] = call[b] /\ answer'[b] = answer[b]
          /\ UNCHANGED now /\ now \in Nat
      BY <2>3 DEF Call, Inv, TypeOK
    <3>2. QED
      BY <3>1, NullTokens DEF ValidInv, NothingInvalid, Refreshing
  <2>4. ASSUME NEW c \in Callers, Stat(c) PROVE ValidInv'
    <3>1. CASE pc' = [pc EXCEPT ![c] = "read"] /\ UNCHANGED <<now, call, answer>>
      BY <3>1 DEF ValidInv, NothingInvalid, Refreshing, Inv, TypeOK
    <3>2. QED
      BY <2>4, <3>1, AskValid DEF Stat
  <2>5. ASSUME NEW c \in Callers, Get(c) PROVE ValidInv'
    <3>1. CASE file \in Token /\ IsValid(file) /\ Return(c, file) /\ UNCHANGED <<now, call>>
      <4>1. file.exp \in Nat /\ now \in Nat /\ call[c].at \in Nat /\ call[c].at <= now /\ Skew \in Nat
        BY <3>1, BoundAssumption DEF Token, Inv, TypeOK, ValidInv
      <4>2. file.signed /\ now < file.exp + Skew
        BY <3>1 DEF IsValid
      <4>3. call[c].at < file.exp + Skew
        BY <4>1, <4>2
      <4>4. QED
        BY <3>1, <4>2, <4>3, ReturnValid
    <3>2. CASE Return(c, Error) /\ UNCHANGED <<now, call>>
      BY <3>2, NullTokens, ReturnValid
    <3>3. QED
      BY <2>5, <3>1, <3>2, AskValid DEF Get
  <2>6. ASSUME NEW c \in Callers, Issue(c) \/ Open(c) PROVE ValidInv'
    <3>1. pc[c] \in Refreshing /\ UNCHANGED <<now, call, answer>>
          /\ \A b \in Callers : pc'[b] = pc[b] \/ (b = c /\ pc'[b] \in Refreshing)
      BY <2>6 DEF Issue, Open, Refreshing, Inv, TypeOK
    <3>2. QED
      BY <3>1 DEF ValidInv, NothingInvalid, Refreshing
  <2>7. ASSUME NEW c \in Callers, Fail(c) PROVE ValidInv'
    BY <2>7, NullTokens, ReturnValid DEF Fail
  <2>8. ASSUME NEW c \in Callers, Write(c) PROVE ValidInv'
    <3>1. call[c].asked /\ held[c] \in Token /\ UNCHANGED <<now, call>>
      BY <2>8 DEF Write, ValidInv, Refreshing, Inv, Held
    <3>2. Return(c, held[c]) \/ Return(c, Error)
      BY <2>8 DEF Write
    <3>3. QED
      BY <3>1, <3>2, NullTokens, ReturnValid
  <2>9. ASSUME NEW c \in Callers, Crash(c) PROVE ValidInv'
    BY <2>9, NullTokens, ReturnValid DEF Crash
  <2>10. QED
    BY <2>1, <2>2, <2>3, <2>4, <2>5, <2>6, <2>7, <2>8, <2>9 DEF Next
<1>3. QED
  BY <1>1, <1>2, Invariance, PTL DEF Spec

\* A token that was not minted for the call was valid when the call was made.
THEOREM NeverInvalid == Spec => []NothingInvalid
<1>1. ValidInv => NothingInvalid
  BY DEF ValidInv
<1>2. QED
  BY <1>1, ValidInvariance, PTL

-----------------------------------------------------------------------------
(***************************************************************************)
(* The store keeps the newest token.  Inductive once it is known that      *)
(* nothing is newer than the last token issued, and that without an        *)
(* overlap a single caller refreshes, holds the last token issued, and     *)
(* writes it to the file it has emptied.                                   *)
(***************************************************************************)
OldInv ==
  /\ file \in Token => file.serial <= issued
  /\ \A c \in Callers :
       /\ answer[c] \in Token => answer[c].serial <= issued
       /\ held[c] \in Token => held[c].serial <= issued

NewestInv ==
  undisturbed =>
    /\ \A a, b \in Callers : pc[a] \in Refreshing /\ pc[b] \in Refreshing => a = b
    /\ \A c \in Callers :
         /\ pc[c] \in {"reply", "write"} => held[c].serial = issued
         /\ pc[c] = "write" => file = Empty
    /\ StoreKeepsNewest

\* What a call returns is no newer than the last token issued.
LEMMA ReturnOld ==
  ASSUME Inv, OldInv, NEW c \in Callers, NEW a \in Token \union {None, Error}, Return(c, a),
         a \in Token => a.serial <= issued, UNCHANGED issued,
         file' \in Token => file'.serial <= issued
  PROVE  OldInv'
<1>1. held'[c] = None
  BY DEF Return, Inv, TypeOK
<1>2. QED
  BY <1>1, ReturnKeeps, NullTokens DEF OldInv

LEMMA NextOld == Inv /\ OldInv /\ [Next]_vars => OldInv'
<1> SUFFICES ASSUME Inv, OldInv, [Next]_vars PROVE OldInv'
  OBVIOUS
<1>1. CASE UNCHANGED vars \/ Tick
  BY <1>1 DEF vars, Tick, OldInv
<1>2. ASSUME NEW c \in Callers, Call(c) PROVE OldInv'
  BY <1>2, NullTokens DEF Call, OldInv, Inv, TypeOK
<1>3. ASSUME NEW c \in Callers, Ask(c) PROVE OldInv'
  BY <1>3 DEF Ask, OldInv
<1>4. ASSUME NEW c \in Callers, Stat(c) PROVE OldInv'
  BY <1>3, <1>4 DEF Stat, OldInv
<1>5. ASSUME NEW c \in Callers, Get(c) PROVE OldInv'
  <2>1. CASE file \in Token /\ Return(c, file) /\ UNCHANGED <<file, issued>>
    BY <2>1, ReturnOld DEF OldInv
  <2>2. CASE Return(c, Error) /\ UNCHANGED <<file, issued>>
    BY <2>2, ReturnOld, NullTokens DEF OldInv
  <2>3. QED
    BY <1>3, <1>5, <2>1, <2>2 DEF Get
<1>6. ASSUME NEW c \in Callers, Issue(c) PROVE OldInv'
  <2>1. /\ issued \in Nat /\ issued' = issued + 1 /\ UNCHANGED <<file, answer>>
        /\ held'[c].serial = issued'
        /\ \A b \in Callers \ {c} : held'[b] = held[b]
    BY <1>6 DEF Issue, Inv, TypeOK
  <2>2. /\ file \in Token => file.serial \in Nat
        /\ \A b \in Callers : (answer[b] \in Token => answer[b].serial \in Nat)
                              /\ (held[b] \in Token => held[b].serial \in Nat)
    BY DEF Token
  <2>3. QED
    BY <2>1, <2>2 DEF OldInv
<1>7. ASSUME NEW c \in Callers, Fail(c) \/ Crash(c) PROVE OldInv'
  BY <1>7, ReturnOld, NullTokens DEF Fail, Crash, OldInv
<1>8. ASSUME NEW c \in Callers, Open(c) PROVE OldInv'
  BY <1>8, NullTokens DEF Open, OldInv
<1>9. ASSUME NEW c \in Callers, Write(c) PROVE OldInv'
  <2>1. held[c] \in Token /\ held[c].serial <= issued
    BY <1>9 DEF Write, Inv, Held, OldInv
  <2>2. file' \in Token => file'.serial <= issued
    BY <1>9, <2>1, NullTokens DEF Write, Written, OldInv
  <2>3. Return(c, held[c]) \/ Return(c, Error)
    BY <1>9 DEF Write
  <2>4. QED
    BY <1>9, <2>1, <2>2, <2>3, ReturnOld, NullTokens DEF Write
<1>10. QED
  BY <1>1, <1>2, <1>4, <1>5, <1>6, <1>7, <1>8, <1>9 DEF Next

\* A call that returns what is in the file, or no token, disturbs nothing.
LEMMA ReturnNewest ==
  ASSUME Inv, NewestInv, NEW c \in Callers, NEW a \in Token \union {None, Error}, Return(c, a),
         UNCHANGED <<file, issued>>, undisturbed' => undisturbed /\ pc[c] # "write",
         a \in Token => a = file
  PROVE  NewestInv'
<1> SUFFICES ASSUME undisturbed' PROVE NewestInv'
  BY DEF NewestInv
<1>1. /\ \A x, y \in Callers : pc[x] \in Refreshing /\ pc[y] \in Refreshing => x = y
      /\ \A b \in Callers : /\ pc[b] \in {"reply", "write"} => held[b].serial = issued
                            /\ pc[b] = "write" => file = Empty
      /\ StoreKeepsNewest /\ undisturbed
  BY DEF NewestInv
<1>2. \A b \in Callers : pc'[b] \in Refreshing => b # c /\ pc'[b] = pc[b] /\ held'[b] = held[b]
  BY ReturnKeeps DEF Refreshing
<1>3. \A x, y \in Callers : pc'[x] \in Refreshing /\ pc'[y] \in Refreshing => x = y
  BY <1>1, <1>2
<1>4. \A b \in Callers : /\ pc'[b] \in {"reply", "write"} => held'[b].serial = issued'
                         /\ pc'[b] = "write" => file' = Empty
  BY <1>1, <1>2 DEF Refreshing
<1>5. StoreKeepsNewest'
  <2> SUFFICES ASSUME \A b \in Callers : pc'[b] # "write", NEW b \in Callers, answer'[b] \in Token
               PROVE  file \in Token /\ file.serial >= answer'[b].serial
    BY DEF StoreKeepsNewest
  <2>1. CASE b = c
    <3>1. answer'[b] = a /\ a = file
      BY <2>1, ReturnKeeps
    <3>2. file.serial \in Nat
      BY <3>1 DEF Token
    <3>3. QED
      BY <3>1, <3>2
  <2>2. CASE b # c
    <3>1. \A x \in Callers : pc[x] # "write"
      BY ReturnKeeps
    <3>2. answer[b] = answer'[b]
      BY <2>2, ReturnKeeps
    <3>3. QED
      BY <1>1, <3>1, <3>2 DEF StoreKeepsNewest
  <2>3. QED
    BY <2>1, <2>2
<1>6. QED
  BY <1>3, <1>4, <1>5 DEF NewestInv

\* A caller that turns to the identity provider while nobody else is refreshing.
LEMMA AskNewest ==
  ASSUME Inv, NewestInv, NEW c \in Callers, Ask(c)
  PROVE  NewestInv'
<1> SUFFICES ASSUME undisturbed' PROVE NewestInv'
  BY DEF NewestInv
<1>1. /\ undisturbed /\ \A b \in Callers : pc[b] \notin Refreshing
      /\ UNCHANGED <<file, held, answer, issued>>
  BY DEF Ask
<1>2. \A b \in Callers : pc'[b] \in Refreshing => b = c
  BY <1>1, AskKeeps
<1>3. pc'[c] = "post" /\ \A b \in Callers : pc'[b] \notin {"reply", "write"}
  BY <1>2, AskKeeps DEF Refreshing
<1>4. StoreKeepsNewest'
  BY <1>1 DEF NewestInv, StoreKeepsNewest, Refreshing
<1>5. QED
  BY <1>2, <1>3, <1>4 DEF NewestInv

\* A write by the only caller that refreshes puts the last token issued into the file.
LEMMA WriteNewest ==
  ASSUME Inv, OldInv, NewestInv, NEW c \in Callers, Write(c)
  PROVE  NewestInv'
<1> SUFFICES ASSUME undisturbed' PROVE NewestInv'
  BY DEF NewestInv
<1>1. /\ undisturbed /\ file' \in Written(c) /\ Return(c, held[c]) /\ pc[c] = "write"
      /\ UNCHANGED issued
  BY DEF Write
<1>2. held[c] \in Token /\ held[c].serial = issued /\ file = Empty
  BY <1>1 DEF NewestInv, Inv, Held
<1>3. file' = held[c]
  BY <1>1, <1>2 DEF Written
<1>4. \A b \in Callers : pc'[b] \notin Refreshing
  BY <1>1, <1>2, ReturnKeeps DEF NewestInv, Refreshing
<1>5. \A b \in Callers : answer'[b] \in Token => answer'[b].serial <= issued
  BY <1>1, <1>2, ReturnKeeps DEF OldInv
<1>6. StoreKeepsNewest'
  <2> SUFFICES ASSUME NEW b \in Callers, answer'[b] \in Token
               PROVE  file' \in Token /\ file'.serial >= answer'[b].serial
    BY DEF StoreKeepsNewest
  <2>1. answer'[b].serial \in Nat /\ issued \in Nat
    BY DEF Token, Inv, TypeOK
  <2>2. QED
    BY <1>2, <1>3, <1>5, <2>1
<1>7. QED
  BY <1>4, <1>6 DEF NewestInv, Refreshing

LEMMA NextNewest == Inv /\ OldInv /\ NewestInv /\ [Next]_vars => NewestInv'
<1> SUFFICES ASSUME Inv, OldInv, NewestInv, [Next]_vars PROVE NewestInv'
  OBVIOUS
<1>1. CASE UNCHANGED vars \/ Tick
  BY <1>1 DEF vars, Tick, NewestInv, StoreKeepsNewest
<1>2. ASSUME NEW c \in Callers, Call(c) PROVE NewestInv'
  <2>1. /\ pc'[c] = "stat" /\ pc[c] = "idle" /\ answer'[c] = None
        /\ \A b \in Callers \ {c} : pc'[b] = pc[b] /\ answer'[b] = answer[b]
        /\ UNCHANGED <<file, held, issued, undisturbed>>
    BY <1>2 DEF Call, Inv, TypeOK
  <2>2. \A b \in Callers : pc'[b] \in Refreshing => pc'[b] = pc[b]
    BY <2>1 DEF Refreshing
  <2>3. undisturbed => StoreKeepsNewest'
    BY <2>1, NullTokens DEF NewestInv, StoreKeepsNewest
  <2>4. QED
    BY <2>1, <2>2, <2>3 DEF NewestInv, Refreshing
<1>3. ASSUME NEW c \in Callers, Stat(c) PROVE NewestInv'
  <2>1. CASE Ask(c)
    BY <2>1, AskNewest
  <2>2. CASE pc' = [pc EXCEPT ![c] = "read"] /\ UNCHANGED <<file, held, answer, issued, undisturbed>>
    <3>1. pc'[c] = "read" /\ pc[c] = "stat" /\ \A b \in Callers \ {c} : pc'[b] = pc[b]
      BY <1>3, <2>2 DEF Stat, Inv, TypeOK
    <3>2. undisturbed => StoreKeepsNewest'
      BY <2>2, <3>1 DEF NewestInv, StoreKeepsNewest
    <3>3. QED
      BY <2>2, <3>1, <3>2 DEF NewestInv, Refreshing
  <2>3. QED
    BY <1>3, <2>1, <2>2 DEF Stat
<1>4. ASSUME NEW c \in Callers, Get(c) PROVE NewestInv'
  <2>1. CASE Ask(c)
    BY <2>1, AskNewest
  <2>2. CASE ((file \in Token /\ Return(c, file)) \/ Return(c, Error))
               /\ UNCHANGED <<file, issued, undisturbed>>
    BY <1>4, <2>2, NullTokens, ReturnNewest DEF Get
  <2>3. QED
    BY <1>4, <2>1, <2>2 DEF Get
<1>5. ASSUME NEW c \in Callers, Issue(c) PROVE NewestInv'
  <2> SUFFICES ASSUME undisturbed PROVE NewestInv'
    BY <1>5 DEF Issue, NewestInv
  <2>1. /\ pc[c] = "post" /\ pc'[c] = "reply" /\ \A b \in Callers \ {c} : pc'[b] = pc[b]
        /\ held'[c].serial = issued' /\ UNCHANGED <<file, answer, undisturbed>>
    BY <1>5 DEF Issue, Inv, TypeOK
  <2>2. \A b \in Callers : pc[b] \in Refreshing => b = c
    BY <2>1 DEF NewestInv, Refreshing
  <2>3. \A b \in Callers : pc'[b] \in Refreshing => b = c
    BY <2>1, <2>2
  <2>4. \A b \in Callers : pc[b] # "write" /\ pc'[b] # "write"
    BY <2>1, <2>2 DEF Refreshing
  <2>5. StoreKeepsNewest'
    BY <2>1, <2>4 DEF NewestInv, StoreKeepsNewest
  <2>6. QED
    BY <2>1, <2>3, <2>4, <2>5 DEF NewestInv, Refreshing
<1>6. ASSUME NEW c \in Callers, Fail(c) \/ Crash(c) PROVE NewestInv'
  <2>1. CASE Fail(c)
    BY <2>1, NullTokens, ReturnNewest DEF Fail
  <2>2. CASE Crash(c) /\ undisturbed'
    <3>1. pc[c] # "write" /\ undisturbed
      BY <2>2 DEF Crash
    <3>2. QED
      BY <2>2, <3>1, NullTokens, ReturnNewest DEF Crash
  <2>3. CASE Crash(c) /\ ~undisturbed'
    BY <2>3 DEF NewestInv
  <2>4. QED
    BY <1>6, <2>1, <2>2, <2>3
<1>7. ASSUME NEW c \in Callers, Open(c) PROVE NewestInv'
  <2> SUFFICES ASSUME undisturbed PROVE NewestInv'
    BY <1>7 DEF Open, NewestInv
  <2>1. /\ pc[c] = "reply" /\ pc'[c] = "write" /\ \A b \in Callers \ {c} : pc'[b] = pc[b]
        /\ file' = Empty /\ UNCHANGED <<held, issued>>
    BY <1>7 DEF Open, Inv, TypeOK
  <2>2. \A b \in Callers : pc'[b] \in Refreshing => b = c
    BY <2>1 DEF NewestInv, Refreshing
  <2>3. StoreKeepsNewest'
    BY <2>1 DEF StoreKeepsNewest
  <2>4. held'[c].serial = issued'
    BY <2>1 DEF NewestInv
  <2>5. QED
    BY <2>1, <2>2, <2>3, <2>4 DEF NewestInv, Refreshing
<1>8. ASSUME NEW c \in Callers, Write(c) PROVE NewestInv'
  BY <1>8, WriteNewest
<1>9. QED
  BY <1>1, <1>2, <1>3, <1>4, <1>5, <1>6, <1>7, <1>8 DEF Next

\* What a call returned is still in the file, or something newer is, unless somebody is
\* writing, two refreshes overlapped or a write was cut off.
THEOREM NewestKept == Spec => []StoreKeepsNewest
<1>1. Init => OldInv /\ NewestInv
  BY NullTokens DEF Init, OldInv, NewestInv, StoreKeepsNewest, Refreshing
<1>2. Inv /\ OldInv /\ NewestInv /\ [Next]_vars => OldInv' /\ NewestInv'
  BY NextOld, NextNewest
<1>3. NewestInv => StoreKeepsNewest
  BY DEF NewestInv, StoreKeepsNewest
<1>4. QED
  BY <1>1, <1>2, <1>3, Invariance, PTL DEF Spec
=============================================================================
