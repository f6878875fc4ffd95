---------------------------- MODULE TokenSource ----------------------------
(***************************************************************************)
(* What the users of the client's access token are promised: every call is *)
(* answered as if it had been made alone, at one moment between its start  *)
(* and its end, by the token that is current then, by a newer one, or by   *)
(* an error.                                                               *)
(***************************************************************************)
EXTENDS Naturals

CONSTANTS
  Callers, \* the goroutines that need a token
  Skew,    \* how long after its expiry a token is still accepted
  None,    \* no token
  Error    \* the answer of a call that fails

VARIABLES
  now,     \* the time
  current, \* the newest token received, or None
  waiting, \* the callers that are not answered yet
  force,   \* whether a caller insists on a new token
  answer   \* the last answer to each caller

vars == <<now, current, waiting, force, answer>>

\* A token is known by the order of its issue and by its expiry.
Token == [serial: Nat, exp: Nat]
Serial(t) == IF t = None THEN 0 ELSE t.serial
Usable(t) == t # None /\ now < t.exp + Skew

Init ==
  /\ now = 0 /\ current = None /\ waiting = {}
  /\ force = [c \in Callers |-> FALSE] /\ answer = [c \in Callers |-> None]

Ask(c) ==
  /\ c \notin waiting
  /\ waiting' = waiting \union {c}
  /\ \E f \in BOOLEAN : force' = [force EXCEPT ![c] = f]
  /\ answer' = [answer EXCEPT ![c] = None]
  /\ UNCHANGED <<now, current>>

Answer(c, a) ==
  /\ c \in waiting
  /\ waiting' = waiting \ {c}
  /\ answer' = [answer EXCEPT ![c] = a]
  /\ UNCHANGED <<now, force>>

Serve(c) == ~force[c] /\ Usable(current) /\ Answer(c, current) /\ UNCHANGED current

Mint(c) ==
  /\ force[c] \/ ~Usable(current)
  /\ current' \in Token /\ current'.serial > Serial(current)
  /\ Answer(c, current')

Refuse(c) == (force[c] \/ ~Usable(current)) /\ Answer(c, Error) /\ UNCHANGED current

Tick == now' = now + 1 /\ UNCHANGED <<current, waiting, force, answer>>

Next == Tick \/ \E c \in Callers : Ask(c) \/ Serve(c) \/ Mint(c) \/ Refuse(c)

Spec == Init /\ [][Next]_vars

\* Every call is answered.
Answered == \A c \in Callers : c \in waiting ~> c \notin waiting
=============================================================================
