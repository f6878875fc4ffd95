--------------------------- MODULE NetworkProofs ----------------------------
(***************************************************************************)
(* Proofs about Network, for every set of configurations, every number of  *)
(* networks and every grace period.                                        *)
(***************************************************************************)
EXTENDS Network, TLAPS

State == [id: Ids \union {None}, attrs: Legal \union {None}, tainted: BOOLEAN]
ANetwork == [status: Statuses, doomed: BOOLEAN, attrs: Addressed \union {None}]
ResourceData ==
  [op: {"none", "create", "update", "delete"}, id: Ids \union {None}, new: Attrs \union {None}]
WaitRequest ==
  [state: {"none", "available", "deleted"}, then: {"idle", "read", "gone"}, elapsed: 0 .. Grace + 1]

Exists(id) == networks[id].status # "none"
Alive(id) == networks[id].status \notin {"none", "deleted"}

(***************************************************************************)
(* The inductive invariant.  Typed: what is referred to exists and has     *)
(* attributes.  Control: the place of a handler fits its operation, its    *)
(* ResourceData, its wait and the saved state.                             *)
(***************************************************************************)
Typed ==
  /\ TypeOK
  /\ \A i \in Ids : Exists(i) => networks[i].attrs \in Addressed
  /\ tf.id # None => tf.attrs \in Legal /\ Exists(tf.id)
  /\ d.id # None => Exists(d.id)
  /\ d.op \in {"create", "update"} => d.new \in Attrs
  /\ d.op \in {"create", "update"} /\ d.id # None => d.new \in Legal

Control ==
  /\ pc \in {"idle", "plan"} => d.op = "none" /\ d.id = None
  /\ pc \in Handler => (d.id = None <=> pc = "create")
  /\ pc \in {"create", "read"} => d.op = "create"
  /\ pc \in {"update", "reread"} => d.op = "update"
  /\ pc \in {"delete", "gone"} => d.op = "delete"
  /\ pc \in {"get", "sleep"} =>
       \/ d.op = "create" /\ wait.then = "read" /\ wait.state = "available"
       \/ d.op = "delete" /\ wait.then = "gone" /\ wait.state = "deleted"
  /\ d.op = "create" => tf.id = None
  /\ d.op \in {"update", "delete"} => tf.id = d.id
  /\ pc = "gone" => networks[d.id].status = "deleted"

Inv == Typed /\ Control

\* None is not the id of a network.
LEMMA NoneIsNoId == None \notin Ids
  BY NullAssumption DEF Ids

\* The null records have their types.
LEMMA NullRecords ==
  /\ NoState \in State /\ NoState.id = None
  /\ NoData \in ResourceData /\ NoData.op = "none" /\ NoData.id = None
  /\ NoNetwork \in ANetwork /\ NoNetwork.status = "none"
  /\ NoWait \in WaitRequest
<1>1. 0 \in 0 .. Grace + 1
  BY BoundAssumption
<1>2. QED
  BY <1>1 DEF NoState, State, NoData, ResourceData, NoNetwork, ANetwork, Statuses, NoWait, WaitRequest

-----------------------------------------------------------------------------
(***************************************************************************)
(* What no step does to the networks: none ceases to exist, one that lives *)
(* or that an operation refers to keeps its attributes, its name included, *)
(* and only a delete leads to the end of one.                              *)
(***************************************************************************)
ExistsNext(id) == networks'[id].status # "none"
AliveNext(id) == networks'[id].status \notin {"none", "deleted"}
Referred(id) == id \in {tf.id, d.id} \/ Alive(id)

Kept ==
  /\ networks' \in [Ids -> ANetwork]
  /\ \A i \in Ids :
       /\ Exists(i) => ExistsNext(i)
       /\ ExistsNext(i) => networks'[i].attrs \in Addressed
       /\ Referred(i) =>
            /\ networks[i].status = "deleted" => networks'[i].status = "deleted"
            /\ networks'[i].attrs = networks[i].attrs
            /\ networks'[i].doomed => networks[i].doomed \/ (pc = "delete" /\ i = d.id)
       /\ Alive(i) /\ ~AliveNext(i) => networks[i].doomed /\ i \notin built'

\* A step that leaves the networks alone.
LEMMA SameKept == Typed /\ UNCHANGED networks => Kept
<1> SUFFICES ASSUME Typed, UNCHANGED networks PROVE Kept
  OBVIOUS
<1>1. networks' \in [Ids -> ANetwork] /\ \A i \in Ids : Exists(i) => networks[i].attrs \in Addressed
  BY DEF Typed, TypeOK, ANetwork
<1>2. QED
  BY <1>1 DEF Kept, Exists, ExistsNext, Alive, AliveNext

\* A step that changes one network.
LEMMA OneKept ==
  ASSUME Typed, NEW id \in Ids, NEW p \in ANetwork, networks' = [networks EXCEPT ![id] = p],
         p.status # "none", p.attrs \in Addressed,
         Referred(id) =>
            /\ networks[id].status = "deleted" => p.status = "deleted"
            /\ p.attrs = networks[id].attrs
            /\ p.doomed => networks[id].doomed \/ (pc = "delete" /\ id = d.id),
         Alive(id) /\ p.status = "deleted" => networks[id].doomed /\ id \notin built'
  PROVE  Kept
<1>1. networks'[id] = p /\ \A i \in Ids \ {id} : networks'[i] = networks[i]
  BY DEF Typed, TypeOK
<1>2. networks' \in [Ids -> ANetwork] /\ \A i \in Ids : Exists(i) => networks[i].attrs \in Addressed
  BY DEF Typed, TypeOK, ANetwork
<1>3. ASSUME NEW i \in Ids
      PROVE  /\ Exists(i) => ExistsNext(i)
             /\ ExistsNext(i) => networks'[i].attrs \in Addressed
             /\ Referred(i) =>
                  /\ networks[i].status = "deleted" => networks'[i].status = "deleted"
                  /\ networks'[i].attrs = networks[i].attrs
                  /\ networks'[i].doomed => networks[i].doomed \/ (pc = "delete" /\ i = d.id)
             /\ Alive(i) /\ ~AliveNext(i) => networks[i].doomed /\ i \notin built'
  <2>1. CASE i = id
    BY <1>1, <2>1 DEF Exists, ExistsNext, AliveNext
  <2>2. CASE i # id
    BY <1>1, <1>2, <2>2 DEF Exists, ExistsNext, Alive, AliveNext
  <2>3. QED
    BY <2>1, <2>2
<1>4. QED
  BY <1>2, <1>3 DEF Kept

\* What Create does not refuse is legal.
LEMMA RefusedIllegal == ASSUME NEW a \in Attrs, ~Refused(a) PROVE a \in Legal
  BY DEF Refused, Legal

\* A new network, under an id that nothing refers to.
LEMMA ProvisionKept ==
  ASSUME Typed, NEW id \in FreshIds, id \notin {tf.id, d.id}, d.new \in Legal, Provision(id)
  PROVE  Kept /\ ExistsNext(id) /\ AliveNext(id) /\ ~networks'[id].doomed
<1>1. PICK cidr \in Cidrs :
        networks' = [networks EXCEPT ![id] =
                       [status |-> "provisioning", doomed |-> FALSE,
                        attrs |-> IF d.new.public THEN [d.new EXCEPT !.cidr = cidr] ELSE d.new]]
  BY DEF Provision
<1> DEFINE a == IF d.new.public THEN [d.new EXCEPT !.cidr = cidr] ELSE d.new
           p == [status |-> "provisioning", doomed |-> FALSE, attrs |-> a]
<1>2. a \in Addressed
  BY NullAssumption DEF Legal, Addressed, Attrs
<1>3. id \in Ids /\ ~Alive(id) /\ ~Referred(id)
  BY DEF FreshIds, Alive, Referred
<1>4. networks' = [networks EXCEPT ![id] = p]
  BY <1>1
<1> HIDE DEF a
<1>5. p \in ANetwork /\ p.status = "provisioning" /\ p.attrs \in Addressed /\ ~p.doomed
  BY <1>2 DEF ANetwork, Statuses
<1>6. networks'[id] = p
  BY <1>3, <1>4 DEF Typed, TypeOK
<1> HIDE DEF p
<1>7. Kept
  BY <1>3, <1>4, <1>5, OneKept
<1>8. QED
  BY <1>5, <1>6, <1>7 DEF ExistsNext, AliveNext

\* A request to delete.
LEMMA DoomKept ==
  ASSUME Typed, NEW id \in Ids, Exists(id), networks[id].status # "deleted", Doom(id),
         pc = "delete", id = d.id
  PROVE  Kept
<1> DEFINE p == [networks[id] EXCEPT !.doomed = TRUE,
                   !.status = IF networks[id].status = "defunct" THEN "defunct" ELSE "deleting"]
<1>1. networks[id] \in ANetwork /\ networks[id].attrs \in Addressed
  BY DEF Typed, TypeOK, ANetwork
<1>2. /\ p \in ANetwork /\ p.status \in {"deleting", "defunct"} /\ p.attrs = networks[id].attrs
  BY <1>1 DEF ANetwork, Statuses
<1>3. networks' = [networks EXCEPT ![id] = p]
  BY <1>1 DEF Doom, ANetwork
<1> HIDE DEF p
<1>4. QED
  BY <1>1, <1>2, <1>3, OneKept

\* Another status, or trouble, that ends no network.
LEMMA BecomeKept ==
  ASSUME Typed, NEW id \in Ids, Exists(id), networks[id].status # "deleted",
         NEW p \in ANetwork, networks' = [networks EXCEPT ![id] = p],
         p.attrs = networks[id].attrs, p.doomed => networks[id].doomed,
         p.status \notin {"none", "deleted"}
  PROVE  Kept
  BY OneKept DEF Typed

\* The steps of the API.
Api(id) == Provide(id) \/ Remove(id) \/ Break(id)

LEMMA ApiKept ==
  ASSUME Typed, NEW id \in Ids, Api(id)
  PROVE  Kept
<1>1. Exists(id) /\ networks[id].status # "deleted"
  BY DEF Typed, TypeOK, Api, Provide, Remove, Break, Exists
<1>2. networks[id] \in ANetwork /\ networks[id].attrs \in Addressed
  BY <1>1 DEF Typed, TypeOK, ANetwork
<1>3. ASSUME NEW status \in {"available", "deleting"}, Become(id, status) PROVE Kept
  <2> DEFINE p == [networks[id] EXCEPT !.status = status]
  <2>1. /\ p \in ANetwork /\ p.status = status /\ p.attrs = networks[id].attrs
        /\ p.doomed = networks[id].doomed
    BY <1>2 DEF ANetwork, Statuses
  <2>2. networks' = [networks EXCEPT ![id] = p]
    BY <1>3 DEF Become
  <2> HIDE DEF p
  <2>3. p.doomed => networks[id].doomed
    BY <2>1, Zenon
  <2>4. QED
    BY <1>1, <2>1, <2>2, <2>3, BecomeKept
<1>4. CASE Break(id)
  <2> DEFINE p == [networks[id] EXCEPT !.status = "defunct", !.doomed = FALSE]
  <2>1. p \in ANetwork /\ p.status = "defunct" /\ p.attrs = networks[id].attrs /\ ~p.doomed
    BY <1>2 DEF ANetwork, Statuses
  <2>2. networks' = [networks EXCEPT ![id] = p]
    BY <1>4 DEF Break
  <2> HIDE DEF p
  <2>3. QED
    BY <1>1, <2>1, <2>2, BecomeKept
<1>5. CASE Remove(id) /\ networks[id].status = "deleting"
  <2> DEFINE p == [networks[id] EXCEPT !.status = "deleted"]
  <2>1. /\ p \in ANetwork /\ p.status = "deleted" /\ p.attrs = networks[id].attrs
        /\ p.doomed = networks[id].doomed
    BY <1>2 DEF ANetwork, Statuses
  <2>2. networks' = [networks EXCEPT ![id] = p] /\ networks[id].doomed /\ id \notin built'
    BY <1>5 DEF Remove
  <2> HIDE DEF p
  <2>3. QED
    BY <1>1, <1>2, <2>1, <2>2, OneKept
<1>6. QED
  BY <1>3, <1>4, <1>5 DEF Api, Provide, Remove

\* They touch nothing but the networks, and forget what is gone.
LostKept == \A i \in lost : i \in lost' \/ (i \in Ids /\ ~AliveNext(i))

LEMMA ApiOnly ==
  ASSUME Typed, NEW id \in Ids, Api(id)
  PROVE  /\ UNCHANGED <<cfg, tf, pc, d, wait, expired, calm>>
         /\ built' \subseteq built /\ LostKept /\ lost' \subseteq Ids /\ built' \subseteq Ids
<1>1. CASE UNCHANGED <<cfg, tf, pc, d, wait, expired, calm, lost, built>>
  BY <1>1 DEF LostKept, Typed, TypeOK
<1>2. CASE Remove(id) /\ networks[id].status = "deleting"
  <2>1. networks'[id].status = "deleted"
    BY <1>2 DEF Remove, Typed, TypeOK
  <2>2. QED
    BY <1>2, <2>1 DEF Remove, LostKept, AliveNext, Typed, TypeOK
<1>3. QED
  BY <1>1, <1>2 DEF Api, Provide, Remove, Break, Become

\* No step undoes a network or changes its attributes.
LEMMA NextKept == Inv /\ [Next]_vars => Kept
<1> SUFFICES ASSUME Inv, [Next]_vars PROVE Kept
  OBVIOUS
<1>1. UNCHANGED networks => Kept
  BY SameKept DEF Inv
<1>2. CASE Create
  <2>1. d.new \in Attrs /\ \A id \in FreshIds : id \notin {tf.id, d.id}
    BY <1>2, NoneIsNoId DEF Create, Inv, Control, Typed, Handler, FreshIds
  <2>2. QED
    BY <1>1, <1>2, <2>1, ProvisionKept, RefusedIllegal DEF Create, Inv
<1>3. CASE Delete
  <2>1. d.id \in Ids /\ Exists(d.id)
    BY <1>3 DEF Delete, Inv, Control, Typed, TypeOK, Handler
  <2>2. QED
    BY <1>1, <1>3, <2>1, DoomKept DEF Delete, AcceptsDelete, Inv
<1>4. ASSUME NEW id \in Ids, Api(id) PROVE Kept
  BY <1>4, ApiKept DEF Inv
<1>5. CASE \/ UNCHANGED vars \/ Edit \/ Refresh \/ Plan \/ Read \/ Update \/ ProjectRead
           \/ DeleteReturns \/ WaitGet \/ WaitSleep \/ Expire \/ Calm \/ Crash
           \/ \E id \in Ids : Import(id)
  BY <1>1, <1>5 DEF vars, Edit, Refresh, Plan, Read, Update, ProjectRead, DeleteReturns,
     WaitGet, WaitSleep, Expire, Calm, Crash, Import
<1>6. QED
  BY <1>2, <1>3, <1>4, <1>5 DEF Next, Step, Api

-----------------------------------------------------------------------------
(***************************************************************************)
(* Ending an operation, going on and waiting.                              *)
(***************************************************************************)

\* An operation ends in a state without the resource, or one that refers to
\* a network that exists.
LEMMA EndKeeps ==
  ASSUME Inv, Kept, NEW where \in {"idle", "plan"}, NEW state \in State,
         state.id # None => state.attrs \in Legal /\ ExistsNext(state.id),
         End(where, state), lost' \subseteq Ids, built' \subseteq Ids
  PROVE  Inv'
<1>1. TypeOK'
  BY NullRecords DEF Inv, Typed, TypeOK, Kept, End, State, ResourceData, ANetwork, WaitRequest
<1>2. Typed'
  BY <1>1, NullRecords DEF Inv, Typed, Kept, Exists, ExistsNext, End
<1>3. Control'
  BY NullRecords DEF Control, End, Handler
<1>4. QED
  BY <1>2, <1>3 DEF Inv

\* What Terraform saves after an error, case by case of the operation.
LEMMA ErrorStates ==
  /\ d.op = "create" /\ d.id = None => StateAfterError = NoState
  /\ d.op = "create" /\ d.id # None =>
       StateAfterError = [id |-> d.id, attrs |-> d.new, tainted |-> TRUE]
  /\ d.op = "update" => StateAfterError = [id |-> d.id, attrs |-> d.new, tainted |-> FALSE]
  /\ d.op = "delete" => StateAfterError = tf
<1>1. CASE d.op = "create" /\ d.id = None
  BY <1>1 DEF StateAfterError
<1>2. CASE d.op = "create" /\ d.id # None
  BY <1>2 DEF StateAfterError
<1>3. CASE d.op = "update"
  BY <1>3 DEF StateAfterError
<1>4. CASE d.op = "delete"
  BY <1>4 DEF StateAfterError
<1>5. QED
  BY <1>1, <1>2, <1>3, <1>4

\* It refers to a network that exists, the one the operation and the state knew.
LEMMA ErrorStateTyped ==
  ASSUME Inv, Kept, d.op # "none"
  PROVE  /\ StateAfterError \in State
         /\ StateAfterError.id # None =>
              StateAfterError.attrs \in Legal /\ ExistsNext(StateAfterError.id)
         /\ tf.id # None => StateAfterError.id = tf.id
         /\ d.id # None => StateAfterError.id = d.id
<1>1. /\ d.op \in {"create", "update", "delete"} /\ d.id \in Ids \union {None}
      /\ d.op \in {"create", "update"} /\ d.id # None => d.new \in Legal
      /\ d.op = "update" => d.id # None
      /\ d.id # None => ExistsNext(d.id)
      /\ tf \in State /\ (tf.id # None => tf.attrs \in Legal /\ ExistsNext(tf.id))
  BY DEF Inv, Typed, TypeOK, State, Kept, Control, Handler
<1>2. /\ d.op = "create" => tf.id = None
      /\ d.op \in {"update", "delete"} => tf.id = d.id
  BY DEF Inv, Control
<1>3. CASE d.op = "create" /\ d.id = None
  BY <1>2, <1>3, ErrorStates, NullRecords
<1>4. CASE d.op = "create" /\ d.id # None
  <2>1. StateAfterError = [id |-> d.id, attrs |-> d.new, tainted |-> TRUE]
    BY <1>4, ErrorStates
  <2>2. QED
    BY <1>1, <1>2, <1>4, <2>1 DEF State
<1>5. CASE d.op = "update"
  <2>1. StateAfterError = [id |-> d.id, attrs |-> d.new, tainted |-> FALSE]
    BY <1>5, ErrorStates
  <2>2. QED
    BY <1>1, <1>2, <1>5, <2>1 DEF State
<1>6. CASE d.op = "delete"
  BY <1>1, <1>2, <1>6, ErrorStates
<1>7. QED
  BY <1>1, <1>3, <1>4, <1>5, <1>6

\* An operation that fails keeps the invariant.
LEMMA FailKeeps ==
  ASSUME Inv, Kept, d.op # "none", Fail, lost' \subseteq Ids
  PROVE  Inv'
<1>1. End("idle", StateAfterError) /\ built' \subseteq Ids
  BY DEF Fail, Inv, Typed, TypeOK
<1>2. QED
  BY <1>1, ErrorStateTyped, EndKeeps

\* The handler starts to wait for a state, with an id.
LEMMA StartWaitKeeps ==
  ASSUME Inv, Kept, pc \in Handler, d' \in ResourceData,
         d'.op = d.op, d'.new = d.new, d'.id # None, ExistsNext(d'.id), d.id # None => d'.id = d.id,
         d.op = "create" => d.new \in Legal,
         NEW state, NEW then, StartWait(state, then),
         \/ d.op = "create" /\ then = "read" /\ state = "available"
         \/ d.op = "delete" /\ then = "gone" /\ state = "deleted"
  PROVE  Inv'
<1>1. wait' \in WaitRequest
  BY BoundAssumption DEF StartWait, WaitRequest
<1>2. TypeOK'
  BY <1>1 DEF Inv, Typed, TypeOK, Kept, StartWait, Handler, ResourceData, ANetwork, WaitRequest
<1>3. Typed'
  BY <1>2 DEF Inv, Typed, TypeOK, Kept, Exists, ExistsNext, StartWait
<1>4. Control'
  BY DEF Inv, Control, StartWait, Handler
<1>5. QED
  BY <1>3, <1>4 DEF Inv

\* A step that keeps the state and the ResourceData.
LEMMA TypedKept ==
  ASSUME Inv, Kept, UNCHANGED <<cfg, tf, d, wait, calm>>, expired' \in BOOLEAN,
         lost' \subseteq Ids, built' \subseteq Ids,
         pc' \in {"idle", "plan"} \union Handler
  PROVE  Typed'
<1>1. TypeOK'
  BY DEF Inv, Typed, TypeOK, Kept, ANetwork
<1>2. QED
  BY <1>1 DEF Inv, Typed, TypeOK, Kept, Exists, ExistsNext

-----------------------------------------------------------------------------
(***************************************************************************)
(* The invariant holds at the start, and every action keeps it.            *)
(***************************************************************************)
\* At the start there is nothing.
LEMMA InitInv == Init => Inv
<1> SUFFICES ASSUME Init PROVE Inv
  OBVIOUS
<1>1. TypeOK
  BY NullRecords DEF Init, TypeOK, State, ResourceData, ANetwork, WaitRequest
<1>2. Typed
  BY <1>1, NullRecords DEF Init, Typed, Exists
<1>3. Control
  BY NullRecords DEF Init, Control, Handler
<1>4. QED
  BY <1>2, <1>3 DEF Inv

\* What a read leaves in the state: the network, without the address space of a public one.
View(attrs) == IF attrs.public THEN [attrs EXCEPT !.cidr = Unset] ELSE attrs

LEMMA StateReadTyped ==
  ASSUME Typed, NEW id \in Ids, Exists(id), NEW tainted \in BOOLEAN
  PROVE  /\ StateRead(id, tainted) \in State
         /\ StateRead(id, tainted).id # None =>
              /\ StateRead(id, tainted).id = id /\ StateRead(id, tainted).tainted = tainted
              /\ StateRead(id, tainted).attrs = View(networks[id].attrs)
              /\ StateRead(id, tainted).attrs \in Legal
         /\ networks[id].status # "deleted" => StateRead(id, tainted).id = id
<1>1. View(networks[id].attrs) \in Legal
  BY DEF View, Legal, Addressed, Attrs, Typed
<1>2. StateRead(id, tainted) = IF networks[id].status = "deleted" THEN NoState
        ELSE [id |-> id, attrs |-> View(networks[id].attrs), tainted |-> tainted]
  BY DEF StateRead, View
<1>3. QED
  BY <1>1, <1>2, NullRecords DEF State

\* Terraform's own steps.
LEMMA RefreshInv == Inv /\ Refresh => Inv'
<1> SUFFICES ASSUME Inv, Refresh PROVE Inv'
  OBVIOUS
<1>1. tf' \in State /\ (tf'.id # None => tf'.attrs \in Legal /\ Exists(tf'.id))
  <2>1. tf \in State /\ (tf.id # None => tf.id \in Ids /\ Exists(tf.id) /\ tf.attrs \in Legal)
    BY DEF Inv, Typed, TypeOK, State
  <2>2. CASE UNCHANGED tf
    BY <2>1, <2>2
  <2>3. CASE tf.id # None /\ tf' = StateRead(tf.id, tf.tainted)
    BY <2>1, <2>3, StateReadTyped DEF Inv, State
  <2>4. QED
    BY <2>2, <2>3 DEF Refresh
<1>2. /\ pc' = "plan" /\ d.op = "none" /\ d.id = None
      /\ UNCHANGED <<cfg, networks, d, wait, expired, calm, lost, built>>
  BY DEF Refresh, Inv, Control
<1>3. Typed'
  BY <1>1, <1>2 DEF Inv, Typed, TypeOK, State, Exists
<1>4. Control'
  BY <1>2 DEF Control, Handler
<1>5. QED
  BY <1>3, <1>4 DEF Inv

\* An import takes an existing network into an empty state.
LEMMA ImportInv == ASSUME NEW id \in Ids, Inv, Import(id) PROVE Inv'
<1>1. tf' \in State /\ (tf'.id # None => tf'.attrs \in Legal /\ Exists(tf'.id))
  BY StateReadTyped DEF Import, Inv, Exists
<1>2. /\ pc' = "idle" /\ d.op = "none" /\ d.id = None /\ lost' \subseteq lost
      /\ UNCHANGED <<cfg, networks, d, wait, expired, calm, built>>
  BY DEF Import, Inv, Control
<1>3. Typed'
  BY <1>1, <1>2 DEF Import, Inv, Typed, TypeOK, State, Exists
<1>4. Control'
  BY <1>2 DEF Control, Handler
<1>5. QED
  BY <1>3, <1>4 DEF Inv

\* The four outcomes of a plan.
LEMMA PlanInv == Inv /\ Plan => Inv'
<1> SUFFICES ASSUME Inv, Plan PROVE Inv'
  OBVIOUS
<1>1. /\ UNCHANGED <<cfg, tf, networks, wait, expired, calm, lost, built>>
      /\ cfg # Absent => cfg \in Attrs
      /\ tf.id # None => tf.id \in Ids /\ tf.attrs \in Legal /\ Exists(tf.id)
  BY ConfigAssumption DEF Plan, Inv, Typed, TypeOK
<1>2. ASSUME d' \in ResourceData, d'.id # None => Exists(d'.id),
             d'.op \in {"create", "update"} => d'.new \in Attrs,
             d'.op \in {"create", "update"} /\ d'.id # None => d'.new \in Legal,
             pc' \in {"idle", "create", "update", "delete"}
      PROVE  Typed'
  BY <1>1, <1>2 DEF Inv, Typed, TypeOK, ResourceData, Exists, Handler
<1>3. CASE /\ tf.id = None /\ cfg # Absent /\ pc' = "create"
           /\ d' = [op |-> "create", id |-> None, new |-> cfg]
  <2>1. Typed'
    BY <1>1, <1>2, <1>3 DEF ResourceData
  <2>2. Control'
    BY <1>1, <1>3 DEF Control, Handler
  <2>3. QED
    BY <2>1, <2>2 DEF Inv
<1>4. CASE MustDelete /\ pc' = "delete" /\ d' = [op |-> "delete", id |-> tf.id, new |-> None]
  <2>1. Typed'
    BY <1>1, <1>2, <1>4 DEF MustDelete, ResourceData
  <2>2. Control'
    BY <1>1, <1>4, NoneIsNoId DEF MustDelete, Control, Handler
  <2>3. QED
    BY <2>1, <2>2 DEF Inv
<1>5. CASE /\ tf.id # None /\ ~MustDelete /\ pc' = "update"
           /\ d' = [op |-> "update", id |-> tf.id, new |-> cfg]
  <2>1. cfg \in Legal /\ cfg \in Attrs
    BY <1>1, <1>5 DEF Legal, MustDelete, Replaces
  <2>2. Typed'
    BY <1>1, <1>2, <1>5, <2>1 DEF ResourceData, MustDelete
  <2>3. Control'
    BY <1>1, <1>5, NoneIsNoId DEF Control, Handler
  <2>4. QED
    BY <2>2, <2>3 DEF Inv
<1>6. CASE d' = NoData /\ pc' = "idle"
  <2>1. Typed'
    BY <1>2, <1>6, NullRecords
  <2>2. Control'
    BY <1>1, <1>6, NullRecords DEF Control, Handler
  <2>3. QED
    BY <2>1, <2>2 DEF Inv
<1>7. QED
  BY <1>3, <1>4, <1>5, <1>6 DEF Plan

\* Create stores the id before it waits.
LEMMA CreateInv == Inv /\ Kept /\ Create => Inv'
<1> SUFFICES ASSUME Inv, Kept, Create PROVE Inv'
  OBVIOUS
<1>1. /\ pc \in Handler /\ d.op = "create" /\ d.id = None /\ d.new \in Attrs
      /\ d \in ResourceData /\ lost \subseteq Ids
  BY DEF Create, Inv, Control, Typed, TypeOK, Handler, ResourceData
<1>2. ASSUME ~Refused(d.new), NEW id \in FreshIds, Provision(id),
             d' = [d EXCEPT !.id = id], StartWait("available", "read")
      PROVE  Inv'
  <2>1. id \in Ids /\ id # None /\ d.new \in Legal
    BY <1>1, <1>2, NoneIsNoId, RefusedIllegal DEF FreshIds
  <2>2. ExistsNext(id)
    BY <1>1, <1>2, <2>1, ProvisionKept DEF Inv, Control
  <2>3. d' \in ResourceData /\ d'.op = d.op /\ d'.new = d.new /\ d'.id = id
    BY <1>1, <1>2, <2>1 DEF ResourceData
  <2>4. QED
    BY <1>1, <1>2, <2>1, <2>2, <2>3, StartWaitKeeps
<1>3. ASSUME NEW id \in FreshIds, Fail, lost' = lost \union {id} PROVE Inv'
  BY <1>1, <1>3, FailKeeps DEF FreshIds
<1>4. QED
  BY <1>1, <1>2, <1>3, FailKeeps DEF Create

\* The read at the end of Create, and the read of a project at the end of Update.
LEMMA ReadInv == Inv /\ Kept /\ (Read \/ ProjectRead) => Inv'
<1> SUFFICES ASSUME Inv, Kept, Read \/ ProjectRead PROVE Inv'
  OBVIOUS
<1>1. /\ d.op # "none" /\ d.id \in Ids /\ Exists(d.id)
      /\ UNCHANGED <<networks, lost>> /\ lost \subseteq Ids /\ built \subseteq Ids
  BY DEF Read, ProjectRead, Inv, Control, Typed, TypeOK, Handler
<1>2. CASE End("idle", StateRead(d.id, FALSE)) /\ built' = built \union {d.id}
  <2>1. /\ StateRead(d.id, FALSE) \in State
        /\ StateRead(d.id, FALSE).id # None =>
             StateRead(d.id, FALSE).attrs \in Legal /\ ExistsNext(StateRead(d.id, FALSE).id)
    BY <1>1, StateReadTyped DEF Inv, Exists, ExistsNext
  <2>2. QED
    BY <1>1, <1>2, <2>1, EndKeeps
<1>3. QED
  BY <1>1, <1>2, FailKeeps DEF Read, ProjectRead

\* Update goes on to that read, whatever the API was sent.
LEMMA UpdateInv == Inv /\ Kept /\ Update => Inv'
<1> SUFFICES ASSUME Inv, Kept, Update PROVE Inv'
  OBVIOUS
<1>1. pc = "update" /\ d.op = "update" /\ lost \subseteq Ids
  BY DEF Update, Inv, Control, Typed, TypeOK
<1>2. CASE Goto("reread")
  <2>1. Typed'
    BY <1>1, <1>2, TypedKept DEF Goto, Handler, Inv, Typed, TypeOK
  <2>2. Control'
    BY <1>1, <1>2 DEF Goto, Inv, Control, Handler
  <2>3. QED
    BY <2>1, <2>2 DEF Inv
<1>3. QED
  BY <1>1, <1>2, FailKeeps DEF Update

\* Delete waits for the network to be deleted before it returns.
LEMMA DeleteInv == Inv /\ Kept /\ (Delete \/ DeleteReturns) => Inv'
<1> SUFFICES ASSUME Inv, Kept, Delete \/ DeleteReturns PROVE Inv'
  OBVIOUS
<1>1. /\ d.op = "delete" /\ d.id \in Ids /\ d.id # None /\ Exists(d.id) /\ d \in ResourceData
      /\ lost \subseteq Ids /\ built \subseteq Ids
  BY DEF Delete, DeleteReturns, Inv, Control, Typed, TypeOK, Handler, ResourceData
<1>2. CASE Delete
  <2>1. pc \in Handler
    BY <1>2 DEF Delete, Handler
  <2>2. CASE StartWait("deleted", "gone") /\ UNCHANGED d
    <3>1. ExistsNext(d'.id)
      BY <1>1, <2>2 DEF Kept
    <3>2. QED
      BY <1>1, <2>1, <2>2, <3>1, StartWaitKeeps
  <2>3. QED
    BY <1>1, <1>2, <2>2, FailKeeps DEF Delete
<1>3. CASE DeleteReturns
  BY <1>1, <1>3, NullRecords, EndKeeps DEF DeleteReturns
<1>4. QED
  BY <1>2, <1>3

\* A poll reaches its state, fails or goes on.
LEMMA WaitGetInv == Inv /\ Kept /\ WaitGet => Inv'
<1> SUFFICES ASSUME Inv, Kept, WaitGet PROVE Inv'
  OBVIOUS
<1>1. /\ pc = "get" /\ d.op \in {"create", "delete"} /\ d.id \in Ids /\ d.id # None
      /\ lost \subseteq Ids /\ UNCHANGED networks
  BY DEF WaitGet, Inv, Control, Typed, TypeOK, Handler
<1>2. CASE Fail /\ UNCHANGED lost
  BY <1>1, <1>2, FailKeeps
<1>3. CASE Goto("sleep")
  <2>1. Typed'
    BY <1>1, <1>3, TypedKept DEF Goto, Handler, Inv, Typed, TypeOK
  <2>2. Control'
    BY <1>1, <1>3 DEF Goto, Inv, Control, Handler
  <2>3. QED
    BY <2>1, <2>2 DEF Inv
<1>4. CASE Seen = wait.state /\ Goto(wait.then)
  <2>1. wait.then \in {"read", "gone"}
    BY <1>1 DEF Inv, Control
  <2>2. Typed'
    BY <1>1, <1>4, <2>1, TypedKept DEF Goto, Handler, Inv, Typed, TypeOK
  <2>3. Control'
    BY <1>1, <1>4 DEF Goto, Seen, Inv, Control, Handler
  <2>4. QED
    BY <2>2, <2>3 DEF Inv
<1>5. QED
  BY <1>2, <1>3, <1>4 DEF WaitGet

\* A sleep is part of the wait.
LEMMA WaitSleepInv == Inv /\ WaitSleep => Inv'
<1> SUFFICES ASSUME Inv, WaitSleep PROVE Inv'
  OBVIOUS
<1>1. /\ pc' = "get" /\ UNCHANGED <<cfg, tf, networks, d, expired, calm, lost, built>>
      /\ wait' \in WaitRequest /\ wait'.then = wait.then /\ wait'.state = wait.state
  BY BoundAssumption DEF WaitSleep, Inv, Typed, TypeOK, WaitRequest
<1>2. Typed'
  BY <1>1 DEF Inv, Typed, TypeOK, WaitRequest, Exists, Handler
<1>3. Control'
  BY <1>1 DEF WaitSleep, Inv, Control, Handler
<1>4. QED
  BY <1>2, <1>3 DEF Inv

\* A crash keeps the state from before the operation.
LEMMA CrashInv == Inv /\ Kept /\ Crash => Inv'
<1> SUFFICES ASSUME Inv, Kept, Crash PROVE Inv'
  OBVIOUS
<1>1. /\ built' \subseteq Ids /\ lost' \subseteq Ids
      /\ tf \in State /\ (tf.id # None => tf.attrs \in Legal /\ ExistsNext(tf.id))
  BY DEF Crash, Inv, Typed, TypeOK, State, Kept
<1>2. QED
  BY <1>1, EndKeeps DEF Crash

\* The API leaves Terraform and the handler alone.
LEMMA ApiInv ==
  ASSUME NEW id \in Ids, Inv, Api(id)
  PROVE  Inv'
<1>1. /\ Kept /\ UNCHANGED <<cfg, tf, pc, d, wait, expired, calm>>
      /\ lost' \subseteq Ids /\ built' \subseteq Ids
  BY ApiKept, ApiOnly DEF Inv
<1>2. Typed'
  BY <1>1, TypedKept DEF Inv, Typed, TypeOK
<1>3. pc = "gone" => d.id \in Ids
  BY DEF Inv, Control, Typed, TypeOK, Handler
<1>4. Control'
  BY <1>1, <1>3 DEF Inv, Control, Kept, Referred
<1>5. QED
  BY <1>2, <1>4 DEF Inv

\* Typed and Control always hold.
THEOREM Invariance == Spec => []Inv
<1>1. Inv /\ [Next]_vars => Inv'
  <2> SUFFICES ASSUME Inv, [Next]_vars PROVE Inv'
    OBVIOUS
  <2>1. CASE UNCHANGED vars \/ Edit \/ Expire \/ Calm
    BY <2>1 DEF vars, Edit, Expire, Calm, Inv, Typed, TypeOK, Control, Exists, Handler
  <2>2. QED
    BY <2>1, NextKept, RefreshInv, ImportInv, PlanInv, CreateInv, ReadInv, UpdateInv, DeleteInv,
       WaitGetInv, WaitSleepInv, CrashInv, ApiInv DEF Next, Step, Api
<1>2. QED
  BY <1>1, InitInv, PTL DEF Spec

\* The variables always have their types.
THEOREM TypeCorrect == Spec => []TypeOK
<1>1. Inv => TypeOK
  BY DEF Inv, Typed
<1>2. QED
  BY <1>1, Invariance, PTL

-----------------------------------------------------------------------------
(***************************************************************************)
(* No network is forgotten.                                                *)
(***************************************************************************)
\* No step but a create brings a network to life.
NoneBorn == \A id \in Ids : AliveNext(id) => Alive(id)

\* A request to delete and the API bring none to life.
LEMMA DoomBearsNone ==
  ASSUME Typed, NEW id \in Ids, Alive(id), Doom(id)
  PROVE  NoneBorn
<1>1. \A i \in Ids \ {id} : networks'[i] = networks[i]
  BY DEF Typed, TypeOK, Doom
<1>2. QED
  BY <1>1 DEF NoneBorn, AliveNext, Alive

LEMMA ApiBearsNone ==
  ASSUME Typed, NEW id \in Ids, Api(id)
  PROVE  NoneBorn
<1>1. Alive(id)
  BY DEF Api, Provide, Remove, Break, Alive
<1>2. \A i \in Ids \ {id} : networks'[i] = networks[i]
  BY DEF Typed, TypeOK, Api, Provide, Remove, Break, Become
<1>3. QED
  BY <1>1, <1>2 DEF NoneBorn, AliveNext, Alive

\* A step under which none is born forgets none when it keeps the ids it knows, or
\* ends in a failure.
LEMMA KeepsKnown ==
  ASSUME Inv, Kept, NothingForgotten, NoneBorn, LostKept,
         \/ UNCHANGED tf /\ d'.id = d.id
         \/ d.op # "none" /\ Fail
  PROVE  NothingForgotten'
<1>1. CASE d.op # "none" /\ Fail
  <2>1. /\ tf.id # None => tf'.id = tf.id
        /\ d.id # None => tf'.id = d.id
    BY <1>1, ErrorStateTyped DEF Fail, End
  <2>2. QED
    BY <2>1, NoneIsNoId DEF NothingForgotten, NoneBorn, LostKept, AliveNext, Alive
<1>2. QED
  BY <1>1 DEF NothingForgotten, NoneBorn, LostKept, AliveNext, Alive

\* A step that leaves the networks alone.
LEMMA SameForgetsNone ==
  ASSUME Inv, Kept, NothingForgotten, UNCHANGED networks, UNCHANGED lost,
         \/ UNCHANGED tf /\ d'.id = d.id
         \/ d.op # "none" /\ Fail
  PROVE  NothingForgotten'
<1>1. NoneBorn /\ LostKept
  BY DEF NoneBorn, LostKept, AliveNext, Alive
<1>2. QED
  BY <1>1, KeepsKnown

\* A create keeps the id of the network it has made, or counts it as lost.
LEMMA CreateForgetsNone == Inv /\ Kept /\ NothingForgotten /\ Create => NothingForgotten'
<1> SUFFICES ASSUME Inv, Kept, NothingForgotten, Create PROVE NothingForgotten'
  OBVIOUS
<1>1. d.op = "create" /\ d.id = None /\ tf.id = None
  BY DEF Create, Inv, Control, Handler
<1>2. \A i \in Ids : Alive(i) => i \in lost
  BY <1>1, NoneIsNoId DEF NothingForgotten, Alive
<1>3. ASSUME NEW id \in FreshIds, Provision(id)
      PROVE  \A i \in Ids : AliveNext(i) => Alive(i) \/ i = id
  <2>1. \A i \in Ids \ {id} : networks'[i] = networks[i]
    BY <1>3 DEF Provision, Inv, Typed, TypeOK
  <2>2. QED
    BY <2>1 DEF AliveNext, Alive
<1>4. ASSUME NEW id \in FreshIds, Provision(id),
             d' = [d EXCEPT !.id = id], StartWait("available", "read")
      PROVE  NothingForgotten'
  <2>1. d'.id = id /\ lost' = lost
    BY <1>4 DEF StartWait, Inv, Typed, TypeOK
  <2>2. QED
    BY <1>2, <1>3, <1>4, <2>1 DEF NothingForgotten, AliveNext, Alive
<1>5. ASSUME NEW id \in FreshIds, Provision(id), lost' = lost \union {id}
      PROVE  NothingForgotten'
  BY <1>2, <1>3, <1>5 DEF NothingForgotten, AliveNext, Alive
<1>6. CASE Fail /\ UNCHANGED <<networks, lost>>
  BY <1>1, <1>6, SameForgetsNone
<1>7. QED
  BY <1>4, <1>5, <1>6 DEF Create

\* A read drops the id of a deleted network only; the read of a project at the end of
\* an update fails and drops none.
LEMMA ReadForgetsNone ==
  Inv /\ Kept /\ NothingForgotten /\ (Read \/ ProjectRead) => NothingForgotten'
<1> SUFFICES ASSUME Inv, Kept, NothingForgotten, Read \/ ProjectRead PROVE NothingForgotten'
  OBVIOUS
<1>1. /\ d.op # "none" /\ d.id \in Ids /\ tf.id \in {None, d.id}
      /\ UNCHANGED <<networks, lost>>
  BY DEF Read, ProjectRead, Inv, Control, Typed, TypeOK, Handler
<1>2. CASE End("idle", StateRead(d.id, FALSE))
  <2>1. networks[d.id].status # "deleted" => tf'.id = d.id
    BY <1>2 DEF End, StateRead
  <2>2. QED
    BY <1>1, <2>1, NoneIsNoId DEF NothingForgotten
<1>3. QED
  BY <1>1, <1>2, SameForgetsNone DEF Read, ProjectRead

\* So does a refresh, and a plan hands on the id of the state.
LEMMA PlanForgetsNone == Inv /\ NothingForgotten /\ (Refresh \/ Plan) => NothingForgotten'
<1> SUFFICES ASSUME Inv, NothingForgotten, Refresh \/ Plan PROVE NothingForgotten'
  OBVIOUS
<1>1. d.id = None /\ UNCHANGED <<networks, lost>>
  BY DEF Refresh, Plan, Inv, Control
<1>2. tf.id # None /\ networks[tf.id].status # "deleted" => tf'.id = tf.id
  BY DEF Refresh, Plan, StateRead
<1>3. QED
  BY <1>1, <1>2, NoneIsNoId DEF NothingForgotten

\* An update keeps the id, and a delete until the network is deleted.
LEMMA UpdateForgetsNone == Inv /\ Kept /\ NothingForgotten /\ Update => NothingForgotten'
<1> SUFFICES ASSUME Inv, Kept, NothingForgotten, Update PROVE NothingForgotten'
  OBVIOUS
<1>1. d.op # "none"
  BY DEF Update, Inv, Control
<1>2. QED
  BY <1>1, SameForgetsNone DEF Update, Goto

LEMMA DeleteForgetsNone ==
  Inv /\ Kept /\ NothingForgotten /\ (Delete \/ DeleteReturns) => NothingForgotten'
<1> SUFFICES ASSUME Inv, Kept, NothingForgotten, Delete \/ DeleteReturns PROVE NothingForgotten'
  OBVIOUS
<1>1. d.op = "delete" /\ d.id \in Ids /\ Exists(d.id) /\ tf.id = d.id
  BY DEF Delete, DeleteReturns, Inv, Control, Typed, TypeOK, Handler
<1>2. AcceptsDelete(d.id) /\ Doom(d.id) => NoneBorn
  BY <1>1, DoomBearsNone DEF Inv, AcceptsDelete, Alive, Exists
<1>3. CASE Delete
  <2>1. CASE Doom(d.id) /\ AcceptsDelete(d.id) /\ UNCHANGED lost
    BY <1>1, <1>2, <1>3, <2>1, KeepsKnown DEF Delete, StartWait, LostKept
  <2>2. QED
    BY <1>1, <1>3, <2>1, SameForgetsNone DEF Delete, StartWait
<1>4. CASE DeleteReturns
  <2>1. networks[d.id].status = "deleted" /\ UNCHANGED <<networks, lost>>
    BY <1>4 DEF DeleteReturns, Inv, Control
  <2>2. QED
    BY <1>1, <2>1, NoneIsNoId DEF NothingForgotten
<1>5. QED
  BY <1>3, <1>4

\* Neither a poll nor a sleep forgets a network.
LEMMA WaitForgetsNone ==
  Inv /\ Kept /\ NothingForgotten /\ (WaitGet \/ WaitSleep) => NothingForgotten'
<1> SUFFICES ASSUME Inv, Kept, NothingForgotten, WaitGet \/ WaitSleep PROVE NothingForgotten'
  OBVIOUS
<1>1. d.op # "none" /\ UNCHANGED <<networks, lost>>
  BY DEF WaitGet, WaitSleep, Goto, Inv, Control, Handler
<1>2. UNCHANGED <<tf, d>> \/ Fail
  BY DEF WaitGet, WaitSleep, Goto
<1>3. QED
  BY <1>1, <1>2, SameForgetsNone

\* A crash keeps the state from before the operation: what a create began is lost.
LEMMA CrashForgetsNone == Inv /\ NothingForgotten /\ Crash => NothingForgotten'
<1> SUFFICES ASSUME Inv, NothingForgotten, Crash PROVE NothingForgotten'
  OBVIOUS
<1>1. UNCHANGED <<networks, tf>> /\ lost \subseteq lost'
  BY DEF Crash, End
<1>2. d.id # None => d.id \in lost' \union {tf.id}
  BY DEF Crash, Inv, Typed, TypeOK, Control, Handler
<1>3. QED
  BY <1>1, <1>2, NoneIsNoId DEF NothingForgotten

\* An import holds what it no longer counts as lost.
LEMMA ImportForgetsNone ==
  ASSUME NEW id \in Ids, Inv, NothingForgotten, Import(id)
  PROVE  NothingForgotten'
<1>1. UNCHANGED <<networks, d>> /\ tf.id = None /\ lost' = lost \ {id} /\ tf'.id = id
  BY DEF Import, StateRead
<1>2. QED
  BY <1>1, NoneIsNoId DEF NothingForgotten

\* A network that is not deleted is in the state, in the running handler, or lost
\* between the API's acceptance and the saving of its id.
THEOREM NeverForgotten == Spec => []NothingForgotten
<1>1. Init => NothingForgotten
  BY NullRecords DEF Init, NothingForgotten
<1>2. Inv /\ NothingForgotten /\ [Next]_vars => NothingForgotten'
  <2> SUFFICES ASSUME Inv, NothingForgotten, [Next]_vars PROVE NothingForgotten'
    OBVIOUS
  <2>1. Kept
    BY NextKept
  <2>2. CASE Edit \/ Expire \/ Calm \/ UNCHANGED vars
    BY <2>2 DEF Edit, Expire, Calm, vars, NothingForgotten
  <2>3. ASSUME NEW id \in Ids, Api(id) PROVE NothingForgotten'
    BY <2>1, <2>3, ApiOnly, ApiBearsNone, KeepsKnown DEF Inv
  <2>4. QED
    BY <2>1, <2>2, <2>3, CreateForgetsNone, ReadForgetsNone, PlanForgetsNone, UpdateForgetsNone,
       DeleteForgetsNone, WaitForgetsNone, CrashForgetsNone, ImportForgetsNone DEF Next, Step, Api
<1>3. QED
  BY <1>1, <1>2, Invariance, PTL DEF Spec

-----------------------------------------------------------------------------
(***************************************************************************)
(* Only unwanted networks are destroyed.  Inductive once it is known that  *)
(* a network that was created stands, and that its state, and what an      *)
(* update of it saves when it fails, have the attributes it was created    *)
(* with, but for the address space the API gave it.                        *)
(***************************************************************************)
SameAddress(s, a) == s.public = a.public /\ s.cidr = IF a.public THEN Unset ELSE a.cidr

Unwanted(id) ==
  \/ cfg = Absent
  \/ cfg.public # networks[id].attrs.public
  \/ ~cfg.public /\ cfg.cidr # networks[id].attrs.cidr
  \/ Refused(cfg)

BuiltStands == \A i \in built : Alive(i)

CreateStands ==
  d.op = "create" /\ d.id # None => d.id \notin built /\ Alive(d.id) /\ ~networks[d.id].doomed

StateShows ==
  tf.id \in built => ~tf.tainted /\ SameAddress(tf.attrs, networks[tf.id].attrs)

UpdateShows == d.op = "update" /\ d.id \in built => SameAddress(d.new, networks[d.id].attrs)

DeleteUnwanted == pc = "delete" /\ d.id \in built => Unwanted(d.id)

WishInv == BuiltStands /\ CreateStands /\ StateShows /\ UpdateShows /\ DeleteUnwanted

\* What a read leaves in the state is the address the network was created with.
LEMMA ViewSame == ASSUME NEW a \in Attrs PROVE SameAddress(View(a), a)
<1>1. CASE a.public
  <2>1. View(a) = [a EXCEPT !.cidr = Unset]
    BY <1>1 DEF View
  <2>2. View(a).public = a.public /\ View(a).cidr = Unset
    BY <2>1 DEF Attrs
  <2>3. QED
    BY <1>1, <2>2 DEF SameAddress
<1>2. CASE ~a.public
  BY <1>2 DEF View, SameAddress
<1>3. QED
  BY <1>1, <1>2

\* A configuration that would replace such a state is one the user changed, or one that
\* Create refuses.
LEMMA ReplacedUnwanted ==
  ASSUME NEW s \in Attrs, NEW id \in Ids, networks[id].attrs \in Attrs, cfg \in Attrs,
         SameAddress(s, networks[id].attrs), Replaces(s, cfg)
  PROVE  Unwanted(id)
<1> DEFINE a == networks[id].attrs
<1>1. s.public = a.public /\ (a.public => s.cidr = Unset) /\ (~a.public => s.cidr = a.cidr)
  BY DEF SameAddress
<1>2. CASE s.public # cfg.public
  BY <1>1, <1>2 DEF Unwanted
<1>3. CASE s.public = cfg.public /\ s.cidr # cfg.cidr
  <2>1. CASE cfg.public
    <3>1. cfg.cidr # Unset
      BY <1>1, <1>3, <2>1
    <3>2. Refused(cfg)
      BY <2>1, <3>1 DEF Refused
    <3>3. QED
      BY <3>2 DEF Unwanted
  <2>2. CASE ~cfg.public
    <3>1. cfg.cidr # a.cidr
      BY <1>1, <1>3, <2>2
    <3>2. QED
      BY <2>2, <3>1 DEF Unwanted
  <2>3. QED
    BY <2>1, <2>2
<1>4. QED
  BY <1>2, <1>3 DEF Replaces

\* A step that adds nothing to the history keeps the networks of the history.
LEMMA BuiltStandsOn ==
  ASSUME Inv, BuiltStands, Kept, built' \subseteq built
  PROVE  /\ BuiltStands'
         /\ \A i \in built' : networks'[i].attrs = networks[i].attrs /\ i \in Ids /\ Alive(i)
<1>1. ASSUME NEW i \in built'
      PROVE  AliveNext(i) /\ networks'[i].attrs = networks[i].attrs /\ i \in Ids /\ Alive(i)
  BY <1>1 DEF BuiltStands, Kept, Referred, Inv, Typed, TypeOK
<1>2. QED
  BY <1>1 DEF BuiltStands, Alive, AliveNext

\* An operation that ends.
LEMMA EndWish ==
  ASSUME Inv, WishInv, Kept, NEW where \in {"idle", "plan"}, NEW state, End(where, state),
         built' = built,
         state.id \in built => ~state.tainted /\ SameAddress(state.attrs, networks[state.id].attrs)
  PROVE  WishInv'
<1>1. BuiltStands' /\ \A i \in built' : networks'[i].attrs = networks[i].attrs
  BY BuiltStandsOn DEF WishInv
<1>2. StateShows'
  BY <1>1 DEF End, StateShows
<1>3. d'.op = "none" /\ pc' # "delete"
  BY NullRecords DEF End
<1>4. QED
  BY <1>1, <1>2, <1>3 DEF WishInv, CreateStands, UpdateShows, DeleteUnwanted

LEMMA FailWish ==
  ASSUME Inv, WishInv, Kept, d.op # "none", Fail
  PROVE  WishInv'
<1>1. d.op \in {"create", "update", "delete"} /\ built \subseteq Ids
  BY DEF Inv, Typed, TypeOK
<1>2. StateAfterError.id \in built =>
        /\ ~StateAfterError.tainted
        /\ SameAddress(StateAfterError.attrs, networks[StateAfterError.id].attrs)
  <2>1. CASE d.op = "create" /\ d.id = None
    BY <1>1, <2>1, ErrorStates, NullRecords, NoneIsNoId
  <2>2. CASE d.op = "create" /\ d.id # None
    <3>1. StateAfterError.id = d.id
      BY <2>2, ErrorStates
    <3>2. QED
      BY <2>2, <3>1 DEF WishInv, CreateStands
  <2>3. CASE d.op = "update"
    <3>1. /\ StateAfterError.id = d.id /\ StateAfterError.attrs = d.new
          /\ StateAfterError.tainted = FALSE
      BY <2>3, ErrorStates
    <3>2. QED
      BY <2>3, <3>1 DEF WishInv, UpdateShows
  <2>4. CASE d.op = "delete"
    BY <2>4, ErrorStates DEF WishInv, StateShows
  <2>5. QED
    BY <1>1, <2>1, <2>2, <2>3, <2>4
<1>3. QED
  BY <1>2, EndWish DEF Fail

\* An operation that goes on, and keeps or has created the network it is about.
LEMMA GoWish ==
  ASSUME Inv, WishInv, Kept, UNCHANGED tf, built' \subseteq built, d'.op = d.op,
         \/ d'.id = d.id
         \/ d'.id \in FreshIds /\ AliveNext(d'.id) /\ ~networks'[d'.id].doomed,
         d.op = "update" => UNCHANGED d,
         pc' = "delete" => UNCHANGED <<cfg, pc, d>>
  PROVE  WishInv'
<1>1. /\ BuiltStands'
      /\ \A i \in built' : networks'[i].attrs = networks[i].attrs /\ i \in Ids /\ Alive(i)
  BY BuiltStandsOn DEF WishInv
<1>2. StateShows'
  BY <1>1 DEF WishInv, StateShows
<1>3. CreateStands'
  <2>1. CASE d'.id = d.id
    <3> SUFFICES ASSUME d.op = "create", d.id # None
                 PROVE  d.id \notin built' /\ AliveNext(d.id) /\ ~networks'[d.id].doomed
      BY <2>1 DEF CreateStands, Alive, AliveNext
    <3>1. d.id \notin built /\ Alive(d.id) /\ ~networks[d.id].doomed
      BY DEF WishInv, CreateStands
    <3>2. d.id \in Ids /\ Referred(d.id) /\ pc # "delete"
      BY DEF Inv, Typed, TypeOK, Control, Referred
    <3>3. QED
      BY <3>1, <3>2 DEF Kept
  <2>2. CASE d'.id \in FreshIds /\ AliveNext(d'.id) /\ ~networks'[d'.id].doomed
    <3>1. d'.id \notin built'
      BY <1>1, <2>2 DEF FreshIds, Alive
    <3>2. QED
      BY <2>2, <3>1 DEF CreateStands, Alive, AliveNext
  <2>3. QED
    BY <2>1, <2>2
<1>4. UpdateShows'
  BY <1>1 DEF WishInv, UpdateShows
<1>5. DeleteUnwanted'
  BY <1>1 DEF WishInv, DeleteUnwanted, Unwanted
<1>6. QED
  BY <1>1, <1>2, <1>3, <1>4, <1>5 DEF WishInv

\* A create makes a network that no earlier create made.
LEMMA CreateWish == Inv /\ WishInv /\ Kept /\ Create => WishInv'
<1> SUFFICES ASSUME Inv, WishInv, Kept, Create PROVE WishInv'
  OBVIOUS
<1>1. d.op = "create" /\ d.id = None /\ tf.id = None /\ d.new \in Attrs /\ d \in ResourceData
  BY DEF Create, Inv, Control, Typed, TypeOK, Handler, ResourceData
<1>2. ASSUME ~Refused(d.new), NEW id \in FreshIds, Provision(id), d' = [d EXCEPT !.id = id],
             StartWait("available", "read")
      PROVE  WishInv'
  <2>1. d'.id = id /\ d'.op = d.op
    BY <1>1, <1>2 DEF ResourceData
  <2>2. id \notin {tf.id, d.id} /\ d.new \in Legal
    BY <1>1, <1>2, NoneIsNoId, RefusedIllegal DEF FreshIds
  <2>3. AliveNext(id) /\ ~networks'[id].doomed
    BY <1>2, <2>2, ProvisionKept DEF Inv
  <2>4. QED
    BY <1>1, <1>2, <2>1, <2>3, GoWish DEF StartWait
<1>3. QED
  BY <1>1, <1>2, FailWish DEF Create

\* What a read says of a network in the state.
LEMMA StateReadSame ==
  ASSUME Typed, NEW id \in Ids, Exists(id), NEW tainted \in BOOLEAN, StateRead(id, tainted).id # None
  PROVE  /\ StateRead(id, tainted).id = id /\ StateRead(id, tainted).tainted = tainted
         /\ SameAddress(StateRead(id, tainted).attrs, networks[id].attrs)
<1>1. networks[id].attrs \in Attrs
  BY DEF Typed, Addressed
<1>2. QED
  BY <1>1, StateReadTyped, ViewSame

\* A create that succeeds has read the network it made.
LEMMA ReadWish == Inv /\ WishInv /\ Kept /\ Read => WishInv'
<1> SUFFICES ASSUME Inv, WishInv, Kept, Read PROVE WishInv'
  OBVIOUS
<1>1. /\ d.op = "create" /\ d.id \in Ids /\ d.id # None /\ Exists(d.id) /\ UNCHANGED networks
      /\ built \subseteq Ids
  BY DEF Read, Inv, Control, Typed, TypeOK, Handler
<1>2. CASE End("idle", StateRead(d.id, FALSE)) /\ built' = built \union {d.id}
  <2>1. BuiltStands'
    BY <1>1, <1>2 DEF WishInv, BuiltStands, CreateStands, Alive
  <2>2. tf' = StateRead(d.id, FALSE) /\ d'.op = "none" /\ pc' # "delete"
    BY <1>2, NullRecords DEF End
  <2>3. StateShows'
    <3> SUFFICES ASSUME tf'.id \in built'
                 PROVE  ~tf'.tainted /\ SameAddress(tf'.attrs, networks'[tf'.id].attrs)
      BY DEF StateShows
    <3>1. tf'.id # None
      BY <1>1, <1>2, NoneIsNoId
    <3>2. QED
      BY <1>1, <2>2, <3>1, StateReadSame DEF Inv
  <2>4. QED
    BY <2>1, <2>2, <2>3 DEF WishInv, CreateStands, UpdateShows, DeleteUnwanted
<1>3. QED
  BY <1>1, <1>2, FailWish DEF Read

\* An update and its end, a delete and its end, a wait, a crash.
LEMMA UpdateWish ==
  Inv /\ WishInv /\ Kept /\ (Update \/ ProjectRead \/ Delete \/ WaitGet \/ WaitSleep) => WishInv'
<1> SUFFICES ASSUME Inv, WishInv, Kept, Update \/ ProjectRead \/ Delete \/ WaitGet \/ WaitSleep
             PROVE  WishInv'
  OBVIOUS
<1>1. d.op # "none" /\ (pc \in {"get", "sleep"} => wait.then # "delete")
  BY DEF Update, ProjectRead, Delete, WaitGet, WaitSleep, Inv, Control
<1>2. Fail \/ (UNCHANGED <<tf, built, d>> /\ pc' # "delete")
  BY <1>1 DEF Update, ProjectRead, Delete, WaitGet, WaitSleep, Goto, StartWait
<1>3. QED
  BY <1>1, <1>2, GoWish, FailWish

LEMMA EndOfDeleteWish == Inv /\ WishInv /\ Kept /\ (DeleteReturns \/ Crash) => WishInv'
<1> SUFFICES ASSUME Inv, WishInv, Kept, DeleteReturns \/ Crash PROVE WishInv'
  OBVIOUS
<1>1. built \subseteq Ids
  BY DEF Inv, Typed, TypeOK
<1>2. NoState.id \notin built
  BY <1>1, NullRecords, NoneIsNoId
<1>3. tf.id \in built => ~tf.tainted /\ SameAddress(tf.attrs, networks[tf.id].attrs)
  BY DEF WishInv, StateShows
<1>4. QED
  BY <1>2, <1>3, EndWish DEF DeleteReturns, Crash

\* A refresh and an import read a network.
LEMMA RefreshWish ==
  ASSUME Inv, WishInv, Refresh \/ \E id \in Ids : Import(id)
  PROVE  WishInv'
<1>1. /\ UNCHANGED <<d, built, networks>> /\ built \subseteq Ids /\ d.op = "none"
      /\ pc' # "delete"
      /\ tf.id \in Ids \union {None} /\ tf.tainted \in BOOLEAN /\ (tf.id # None => Exists(tf.id))
  BY DEF Refresh, Import, Inv, Control, Typed, TypeOK
<1>2. ASSUME NEW id \in Ids, Exists(id), NEW tainted \in BOOLEAN, id \in built => ~tainted,
             tf' = StateRead(id, tainted), tf'.id \in built
      PROVE  ~tf'.tainted /\ SameAddress(tf'.attrs, networks[tf'.id].attrs)
  <2>1. tf'.id # None
    BY <1>1, <1>2, NoneIsNoId
  <2>2. QED
    BY <1>2, <2>1, StateReadSame DEF Inv
<1>3. tf'.id \in built => ~tf'.tainted /\ SameAddress(tf'.attrs, networks[tf'.id].attrs)
  <2>1. CASE Refresh
    BY <1>1, <1>2, <2>1 DEF Refresh, WishInv, StateShows
  <2>2. ASSUME NEW id \in Ids, Import(id)
        PROVE  tf'.id \in built => ~tf'.tainted /\ SameAddress(tf'.attrs, networks[tf'.id].attrs)
    BY <1>1, <1>2, <2>2 DEF Import, Exists
  <2>3. QED
    BY <2>1, <2>2
<1>4. BuiltStands' /\ StateShows'
  BY <1>1, <1>3 DEF WishInv, BuiltStands, StateShows, Alive
<1>5. QED
  BY <1>1, <1>4 DEF WishInv, CreateStands, UpdateShows, DeleteUnwanted

\* A plan destroys what the user removed or changed, and updates to the same address.
LEMMA PlanWish == Inv /\ WishInv /\ Plan => WishInv'
<1> SUFFICES ASSUME Inv, WishInv, Plan PROVE WishInv'
  OBVIOUS
<1>1. /\ UNCHANGED <<cfg, tf, built, networks>> /\ built \subseteq Ids
      /\ cfg # Absent => cfg \in Attrs
      /\ tf.id # None => tf.attrs \in Attrs /\ networks[tf.id].attrs \in Attrs /\ tf.id \in Ids
  BY ConfigAssumption DEF Plan, Inv, Typed, TypeOK, Legal, Addressed
<1>2. BuiltStands' /\ StateShows'
  BY <1>1 DEF WishInv, BuiltStands, StateShows, Alive
<1>3. CreateStands'
  BY <1>1, NullRecords DEF Plan, CreateStands
<1>4. ASSUME d'.op = "update", d'.id \in built PROVE SameAddress(d'.new, networks[d'.id].attrs)
  <2>1. d'.id = tf.id /\ d'.new = cfg /\ tf.id # None /\ ~MustDelete
    BY <1>4, NullRecords DEF Plan
  <2>2. SameAddress(tf.attrs, networks[tf.id].attrs)
    BY <1>4, <2>1 DEF WishInv, StateShows
  <2>3. tf.attrs.public = cfg.public /\ tf.attrs.cidr = cfg.cidr
    BY <2>1 DEF MustDelete, Replaces
  <2>4. QED
    BY <2>1, <2>2, <2>3 DEF SameAddress
<1>5. ASSUME pc' = "delete", d'.id \in built PROVE Unwanted(d'.id)
  <2>1. d'.id = tf.id /\ MustDelete
    BY <1>5, NullRecords DEF Plan
  <2>2. tf.id # None /\ tf.id \in Ids /\ ~tf.tainted /\ SameAddress(tf.attrs, networks[tf.id].attrs)
    BY <1>1, <1>5, <2>1 DEF WishInv, StateShows, MustDelete
  <2>3. CASE cfg = Absent
    BY <2>3 DEF Unwanted
  <2>4. CASE cfg # Absent /\ Replaces(tf.attrs, cfg)
    BY <1>1, <2>1, <2>2, <2>4, ReplacedUnwanted
  <2>5. QED
    BY <2>1, <2>2, <2>3, <2>4 DEF MustDelete
<1>6. UpdateShows' /\ DeleteUnwanted'
  BY <1>1, <1>4, <1>5 DEF UpdateShows, DeleteUnwanted, Unwanted
<1>7. QED
  BY <1>2, <1>3, <1>6 DEF WishInv

\* The invariant of the wishes.
LEMMA WishInvariance == Spec => []WishInv
<1>1. Init => WishInv
  BY NullRecords, NoneIsNoId DEF Init, WishInv, BuiltStands, CreateStands, StateShows,
     UpdateShows, DeleteUnwanted
<1>2. Inv /\ WishInv /\ [Next]_vars => WishInv'
  <2> SUFFICES ASSUME Inv, WishInv, [Next]_vars PROVE WishInv'
    OBVIOUS
  <2>1. Kept
    BY NextKept
  <2>2. CASE UNCHANGED vars \/ Expire \/ Calm \/ \E id \in Ids : Api(id)
    <3>1. UNCHANGED <<cfg, tf, pc, d>> /\ built' \subseteq built
      BY <2>2, ApiOnly DEF vars, Expire, Calm, Inv
    <3>2. QED
      BY <2>1, <3>1, GoWish
  <2>3. CASE Edit
    <3>1. UNCHANGED <<tf, pc, d, built>> /\ pc = "idle"
      BY <2>3 DEF Edit
    <3>2. QED
      BY <2>1, <3>1, GoWish
  <2>4. QED
    BY <2>1, <2>2, <2>3, CreateWish, ReadWish, UpdateWish, EndOfDeleteWish, RefreshWish, PlanWish
       DEF Next, Step, Api
<1>3. QED
  BY <1>1, <1>2, Invariance, PTL DEF Spec

\* A network whose creation was reported as a success is destroyed only when the user
\* removed it or changed an attribute it was created with.
THEOREM DestroyedOnDemand == Spec => OnlyUnwantedDestroyed
<1>1. ASSUME Inv, WishInv, [Next]_vars,
             NEW id \in built, ~networks[id].doomed, networks'[id].doomed
      PROVE  Unwanted(id)
  <2>1. id \in Ids /\ Referred(id)
    BY <1>1 DEF Inv, Typed, TypeOK, WishInv, BuiltStands, Referred
  <2>2. pc = "delete" /\ d.id = id
    BY <1>1, <2>1, NextKept DEF Kept
  <2>3. QED
    BY <1>1, <2>2 DEF WishInv, DeleteUnwanted
<1>2. Inv /\ WishInv /\ [Next]_vars =>
        \A id \in built : ~networks[id].doomed /\ networks'[id].doomed
          => \/ cfg = Absent
             \/ cfg.public # networks[id].attrs.public
             \/ ~cfg.public /\ cfg.cidr # networks[id].attrs.cidr
             \/ Refused(cfg)
  BY <1>1 DEF Unwanted
<1>3. QED
  BY <1>2, Invariance, WishInvariance, PTL DEF Spec, OnlyUnwantedDestroyed

-----------------------------------------------------------------------------
(***************************************************************************)
(* The waits implement Polling.                                            *)
(***************************************************************************)
WaitPhase ==
  IF pc \in {"get", "sleep"} THEN "waiting" ELSE IF wait = NoWait THEN "idle" ELSE "reached"

WaitGoal == IF WaitPhase = "idle" THEN "none" ELSE wait.state

Waits == INSTANCE Polling WITH
  NoGoal <- "none", Failures <- {"defunct"},
  phase <- WaitPhase,
  want <- WaitGoal,
  shown <- IF d.id = None THEN "none" ELSE Seen,
  trouble <- expired \/ ~calm

PollStep == [Waits!Next]_<<WaitPhase, WaitGoal>>

\* The phase is that of the place and of the wait, and nothing else.
LEMMA PhaseKept ==
  ASSUME UNCHANGED wait, pc \in {"get", "sleep"} <=> pc' \in {"get", "sleep"}
  PROVE  PollStep
  BY DEF PollStep, WaitPhase, WaitGoal

\* The end of a handler leaves a wait that was reached, or gives one up with a reason.
LEMMA EndPolls ==
  ASSUME Inv, NEW where \in {"idle", "plan"}, NEW state, End(where, state),
         pc \in {"get", "sleep"} => expired \/ ~calm \/ Seen \in {"defunct"}
  PROVE  PollStep
<1>1. WaitPhase' = "idle" /\ WaitGoal' = "none"
  BY DEF End, WaitPhase, WaitGoal
<1>2. CASE pc \in {"get", "sleep"}
  <2>1. WaitPhase = "waiting" /\ d.id # None
    BY <1>2 DEF WaitPhase, Inv, Control, Handler
  <2>2. QED
    BY <1>1, <1>2, <2>1 DEF PollStep, Waits!Next, Waits!GiveUp
<1>3. CASE pc \notin {"get", "sleep"}
  <2>1. WaitPhase \in {"idle", "reached"}
    BY <1>3 DEF WaitPhase
  <2>2. QED
    BY <1>1, <2>1 DEF PollStep, Waits!Next, Waits!Leave, WaitGoal
<1>4. QED
  BY <1>2, <1>3

\* A handler that does not wait may fail.
LEMMA FailPolls == Inv /\ pc \notin {"get", "sleep"} /\ Fail => PollStep
  BY EndPolls DEF Fail

\* A wait begins with a state to wait for, and not in the middle of another.
LEMMA StartWaitPolls ==
  ASSUME pc \notin {"get", "sleep"}, NEW state \in {"initiated", "available", "deleted"}, NEW then,
         StartWait(state, then)
  PROVE  PollStep
<1>1. WaitPhase # "waiting"
  BY DEF WaitPhase
<1>2. WaitPhase' = "waiting" /\ WaitGoal' # "none"
  BY DEF StartWait, WaitPhase, WaitGoal
<1>3. QED
  BY <1>1, <1>2 DEF PollStep, Waits!Next, Waits!Begin

\* A poll reaches the state, fails with a reason or goes on polling.
LEMMA WaitGetPolls == Inv /\ WaitGet => PollStep
<1> SUFFICES ASSUME Inv, WaitGet PROVE PollStep
  OBVIOUS
<1>1. /\ pc = "get" /\ WaitPhase = "waiting" /\ WaitGoal = wait.state /\ d.id # None
      /\ wait # NoWait /\ wait.then \in {"read", "gone"}
  BY DEF WaitGet, WaitPhase, WaitGoal, Inv, Control, Handler, NoWait
<1>2. CASE Seen = wait.state /\ Goto(wait.then)
  <2>1. WaitPhase' = "reached" /\ WaitGoal' = wait.state
    BY <1>1, <1>2 DEF Goto, WaitPhase, WaitGoal
  <2>2. QED
    BY <1>1, <1>2, <2>1 DEF PollStep, Waits!Next, Waits!Reach
<1>3. CASE Goto("sleep")
  BY <1>1, <1>3, PhaseKept DEF Goto
<1>4. CASE (MayFail \/ GiveUp) /\ Fail
  BY <1>4, EndPolls DEF Fail, GiveUp, MayFail
<1>5. QED
  BY <1>2, <1>3, <1>4 DEF WaitGet

\* A sleep is part of the wait.
LEMMA WaitSleepPolls == Inv /\ WaitSleep => PollStep
<1> SUFFICES ASSUME Inv, WaitSleep PROVE PollStep
  OBVIOUS
<1>1. wait'.state = wait.state
  BY DEF WaitSleep, Inv, Typed, TypeOK
<1>2. QED
  BY <1>1 DEF WaitSleep, PollStep, WaitPhase, WaitGoal

\* A wait for a network succeeds only when the status asked for is shown, and is given up only on a
\* defunct network, an error or the end of its time.
THEOREM WaitsArePolls == Spec => Waits!Spec
<1>1. Init => Waits!Init
  BY DEF Init, Waits!Init, WaitPhase, WaitGoal
<1>2. Inv /\ [Next]_vars => [Waits!Next]_<<WaitPhase, WaitGoal>>
  <2> SUFFICES ASSUME Inv, [Next]_vars PROVE PollStep
    BY DEF PollStep
  <2>1. CASE UNCHANGED vars \/ Edit \/ Refresh \/ Plan \/ Expire \/ Calm \/ \E id \in Ids : Import(id)
    BY <2>1, PhaseKept DEF vars, Edit, Refresh, Plan, Expire, Calm, Import
  <2>2. CASE Create
    BY <2>2, StartWaitPolls, FailPolls DEF Create
  <2>3. CASE Read \/ DeleteReturns
    BY <2>3, EndPolls, FailPolls DEF Read, DeleteReturns
  <2>4. CASE Update \/ ProjectRead
    BY <2>4, PhaseKept, FailPolls DEF Update, ProjectRead, Goto
  <2>5. CASE Delete
    BY <2>5, StartWaitPolls, FailPolls DEF Delete
  <2>6. CASE Crash
    BY <2>6, EndPolls DEF Crash
  <2>7. ASSUME NEW id \in Ids, Api(id) PROVE PollStep
    BY <2>7, ApiOnly, PhaseKept DEF Inv
  <2>8. QED
    BY <2>1, <2>2, <2>3, <2>4, <2>5, <2>6, <2>7, WaitGetPolls, WaitSleepPolls DEF Next, Step, Api
<1>3. QED
  BY <1>1, <1>2, Invariance, PTL DEF Spec, Waits!Spec
=============================================================================
