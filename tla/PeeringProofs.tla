--------------------------- MODULE PeeringProofs ----------------------------
(***************************************************************************)
(* Proofs about Peering, for every set of configurations, every number of  *)
(* peerings and every grace period.                                        *)
(***************************************************************************)
EXTENDS Peering, TLAPS

State == [id: Ids \union {None}, attrs: Attrs \union {None}, tainted: BOOLEAN]
APeering == [status: Statuses, doomed: BOOLEAN, attrs: ApiAttrs \union {None}]
ResourceData ==
  [op: {"none", "create", "update", "delete"}, id: Ids \union {None}, new: Attrs \union {None}]
WaitRequest ==
  [state: {"none", "initiated", "deleted"}, then: {"idle", "read", "gone"}, elapsed: 0 .. Grace + 1]

Exists(id) == peerings[id].status # "none"
Alive(id) == peerings[id].status \notin {"none", "deleted"}

(***************************************************************************)
(* The inductive invariant.  Typed: what is referred to exists and has     *)
(* attributes.  Control: the place of a handler fits its operation, its    *)
(* ResourceData, its wait and the saved state.                             *)
(***************************************************************************)
Typed ==
  /\ TypeOK
  /\ \A i \in Ids : Exists(i) => peerings[i].attrs \in ApiAttrs
  /\ tf.id # None => tf.attrs \in Attrs /\ Exists(tf.id)
  /\ d.id # None => Exists(d.id)
  /\ d.op \in {"create", "update"} => d.new \in Attrs
  /\ d.op = "create" /\ d.id # None =>
       ProviderOf[peerings[d.id].attrs.place] = ProviderOf[d.new.place]

Control ==
  /\ pc \in {"idle", "plan"} => d.op = "none" /\ d.id = None
  /\ pc \in Handler \union {"panic"} => (d.id = None <=> pc = "create")
  /\ pc \in {"create", "read"} => d.op = "create"
  /\ pc \in {"update", "reread"} => d.op = "update"
  /\ pc \in {"delete", "gone", "panic"} => d.op = "delete"
  /\ pc \in Waiting =>
       \/ d.op = "create" /\ wait.then = "read" /\ wait.state = "initiated"
       \/ d.op = "delete" /\ wait.then = "gone" /\ wait.state = "deleted"
  /\ d.op = "create" => tf.id = None
  /\ d.op \in {"update", "delete"} => tf.id = d.id
  /\ pc = "gone" => peerings[d.id].status = "deleted"

Inv == Typed /\ Control

\* None is not the id of a peering.
LEMMA NoneIsNoId == None \notin Ids
  BY NullAssumption DEF Ids

\* What the API stores is a legal attribute.
LEMMA ApiIsLegal == ApiAttrs \subseteq Attrs
  BY DEF ApiAttrs, Attrs, AttrsAt, ApiPlaces

\* The null records have their types.
LEMMA NullRecords ==
  /\ NoState \in State /\ NoState.id = None /\ ~NoState.tainted
  /\ NoData \in ResourceData /\ NoData.op = "none" /\ NoData.id = None
  /\ NoPeering \in APeering /\ NoPeering.status = "none"
  /\ NoWait \in WaitRequest
<1>1. 0 \in 0 .. Grace + 1
  BY BoundAssumption
<1>2. QED
  BY <1>1 DEF NoState, State, NoData, ResourceData, NoPeering, APeering, Statuses, NoWait, WaitRequest

-----------------------------------------------------------------------------
(***************************************************************************)
(* What no step does to the peerings: none ceases to exist, one that lives *)
(* or that an operation refers to keeps its place and what is known of it, *)
(* and only a delete leads to the end of one.                              *)
(***************************************************************************)
ExistsNext(id) == peerings'[id].status # "none"
AliveNext(id) == peerings'[id].status \notin {"none", "deleted"}
Known(id) == peerings[id].attrs.meta \/ ProviderOf[peerings[id].attrs.place] = "azure"
KnownNext(id) == peerings'[id].attrs.meta \/ ProviderOf[peerings'[id].attrs.place] = "azure"

Referred(id) == id \in {tf.id, d.id} \/ Alive(id)

Kept ==
  /\ peerings' \in [Ids -> APeering]
  /\ \A i \in Ids :
       /\ Exists(i) => ExistsNext(i)
       /\ ExistsNext(i) => peerings'[i].attrs \in ApiAttrs
       /\ Referred(i) =>
            /\ peerings[i].status = "deleted" => peerings'[i].status = "deleted"
            /\ peerings'[i].attrs.place = peerings[i].attrs.place
            /\ Known(i) => KnownNext(i)
            /\ peerings'[i].doomed => peerings[i].doomed \/ (pc = "delete" /\ i = d.id)
       /\ Alive(i) /\ ~AliveNext(i) => peerings[i].doomed /\ built'[i] = None

\* A step that leaves the peerings alone.
LEMMA SameKept == Typed /\ UNCHANGED peerings => Kept
<1> SUFFICES ASSUME Typed, UNCHANGED peerings PROVE Kept
  OBVIOUS
<1>1. peerings' \in [Ids -> APeering] /\ \A i \in Ids : Exists(i) => peerings[i].attrs \in ApiAttrs
  BY DEF Typed, TypeOK, APeering
<1>2. QED
  BY <1>1 DEF Kept, Exists, ExistsNext, Known, KnownNext, Alive, AliveNext

\* A step that changes one peering.
LEMMA OneKept ==
  ASSUME Typed, NEW id \in Ids, NEW p \in APeering, peerings' = [peerings EXCEPT ![id] = p],
         p.status # "none", p.attrs \in ApiAttrs,
         Referred(id) =>
            /\ peerings[id].status = "deleted" => p.status = "deleted"
            /\ p.attrs.place = peerings[id].attrs.place
            /\ Known(id) => p.attrs.meta \/ ProviderOf[p.attrs.place] = "azure"
            /\ p.doomed => peerings[id].doomed \/ (pc = "delete" /\ id = d.id),
         Alive(id) /\ p.status = "deleted" => peerings[id].doomed /\ built'[id] = None
  PROVE  Kept
<1>1. peerings'[id] = p /\ \A i \in Ids \ {id} : peerings'[i] = peerings[i]
  BY DEF Typed, TypeOK
<1>2. peerings' \in [Ids -> APeering] /\ \A i \in Ids : Exists(i) => peerings[i].attrs \in ApiAttrs
  BY DEF Typed, TypeOK, APeering
<1>3. ASSUME NEW i \in Ids
      PROVE  /\ Exists(i) => ExistsNext(i)
             /\ ExistsNext(i) => peerings'[i].attrs \in ApiAttrs
             /\ Referred(i) =>
                  /\ peerings[i].status = "deleted" => peerings'[i].status = "deleted"
                  /\ peerings'[i].attrs.place = peerings[i].attrs.place
                  /\ Known(i) => KnownNext(i)
                  /\ peerings'[i].doomed => peerings[i].doomed \/ (pc = "delete" /\ i = d.id)
             /\ Alive(i) /\ ~AliveNext(i) => peerings[i].doomed /\ built'[i] = None
  <2>1. CASE i = id
    BY <1>1, <2>1 DEF Exists, ExistsNext, KnownNext, AliveNext
  <2>2. CASE i # id
    BY <1>1, <1>2, <2>2 DEF Exists, ExistsNext, Known, KnownNext, Alive, AliveNext
  <2>3. QED
    BY <2>1, <2>2
<1>4. QED
  BY <1>2, <1>3 DEF Kept

\* A new peering, under an id that nothing refers to.
LEMMA ProvisionKept ==
  ASSUME Typed, NEW id \in FreshIds, id \notin {tf.id, d.id}, d.new \in Attrs, Provision(id)
  PROVE  /\ Kept /\ ExistsNext(id) /\ AliveNext(id) /\ ~peerings'[id].doomed
         /\ peerings'[id].attrs.place = AsCreated[d.new.place]
         /\ ProviderOf[peerings'[id].attrs.place] = ProviderOf[d.new.place]
<1> DEFINE p == Provisioned(AsCreated[d.new.place])
<1>1. id \in Ids /\ ~Referred(id)
  BY DEF FreshIds, Referred, Alive
<1>2. /\ p \in APeering /\ p.status = "provisioning" /\ ~p.doomed /\ p.attrs \in ApiAttrs
      /\ p.attrs.place = AsCreated[d.new.place] /\ d.new.place \in Places
  BY ProviderAssumption DEF Provisioned, APeering, Statuses, Attrs, ApiAttrs, AttrsAt, ApiPlaces
<1>3. peerings' = [peerings EXCEPT ![id] = p]
  BY DEF Provision
<1>4. peerings'[id] = p
  BY <1>1, <1>3 DEF Typed, TypeOK
<1> HIDE DEF p
<1>5. Kept
  BY <1>1, <1>2, <1>3, OneKept DEF Referred
<1>6. QED
  BY <1>2, <1>4, <1>5, ProviderAssumption DEF ExistsNext, AliveNext

\* A new name.
LEMMA RenameKept ==
  ASSUME Typed, NEW id \in Ids, Exists(id), d.new \in Attrs, Rename(id)
  PROVE  Kept
<1> DEFINE p == [peerings[id] EXCEPT !.attrs.name = d.new.name]
<1>1. /\ peerings[id] \in APeering /\ peerings[id].attrs \in ApiAttrs
      /\ peerings[id].status # "none"
  BY DEF Typed, TypeOK, APeering, Exists
<1>2. /\ p \in APeering /\ p.status = peerings[id].status /\ p.attrs \in ApiAttrs
      /\ p.doomed = peerings[id].doomed
      /\ p.attrs.meta = peerings[id].attrs.meta /\ p.attrs.place = peerings[id].attrs.place
  BY <1>1 DEF APeering, Attrs, ApiAttrs, AttrsAt
<1>3. peerings' = [peerings EXCEPT ![id] = p]
  BY DEF Rename
<1> HIDE DEF p
<1>4. Known(id) => p.attrs.meta \/ ProviderOf[p.attrs.place] = "azure"
  <2>1. CASE ProviderOf[peerings[id].attrs.place] = "azure"
    BY <1>2, <2>1
  <2>2. CASE peerings[id].attrs.meta
    <3>1. p.attrs.meta
      BY <1>2, <2>2, Zenon
    <3>2. QED
      BY <3>1
  <2>3. QED
    BY <2>1, <2>2 DEF Known
<1>5. p.doomed => peerings[id].doomed
  BY <1>2, Zenon
<1>6. QED
  BY <1>1, <1>2, <1>3, <1>4, <1>5, OneKept DEF Alive

\* A request to delete.
LEMMA DoomKept ==
  ASSUME Typed, NEW id \in Ids, Exists(id), peerings[id].status # "deleted", Doom(id),
         pc = "delete", id = d.id
  PROVE  Kept
<1> DEFINE p == [peerings[id] EXCEPT !.doomed = TRUE,
                   !.status = IF peerings[id].status = "defunct" THEN "defunct" ELSE "deleting"]
<1>1. peerings[id] \in APeering /\ peerings[id].attrs \in ApiAttrs
  BY DEF Typed, TypeOK, APeering, Exists
<1>2. /\ p \in APeering /\ p.status \in {"deleting", "defunct"} /\ p.attrs = peerings[id].attrs
      /\ p.attrs \in ApiAttrs
  BY <1>1 DEF APeering, Statuses
<1>3. peerings' = [peerings EXCEPT ![id] = p]
  BY <1>1 DEF Doom, APeering
<1> HIDE DEF p
<1>4. QED
  BY <1>2, <1>3, OneKept DEF Known

\* The steps of the API and of the customer.
LEMMA ApiKept ==
  ASSUME Typed, NEW id \in Ids, Api(id) \/ Accept(id) \/ Break(id)
  PROVE  Kept
<1>1. Exists(id) /\ peerings[id].status # "deleted"
  BY DEF Typed, TypeOK, Api, Initiate, Describe, Remove, Accept, Break, Exists
<1>2. peerings[id] \in APeering /\ peerings[id].attrs \in ApiAttrs
  BY <1>1 DEF Typed, TypeOK, APeering
<1>3. CASE Initiate(id)
  <2> DEFINE p == [peerings[id] EXCEPT !.status = "initiated"]
  <2>1. /\ p \in APeering /\ p.status = "initiated" /\ p.attrs = peerings[id].attrs
        /\ p.doomed = peerings[id].doomed
    BY <1>2 DEF APeering, Statuses
  <2>2. peerings' = [peerings EXCEPT ![id] = p]
    BY <1>3 DEF Initiate, Only
  <2> HIDE DEF p
  <2>3. p.doomed => peerings[id].doomed
    BY <2>1, Zenon
  <2>4. QED
    BY <1>1, <1>2, <2>1, <2>2, <2>3, OneKept DEF Known
<1>4. CASE Accept(id)
  <2> DEFINE p == [peerings[id] EXCEPT !.status = "active"]
  <2>1. /\ p \in APeering /\ p.status = "active" /\ p.attrs = peerings[id].attrs
        /\ p.doomed = peerings[id].doomed
    BY <1>2 DEF APeering, Statuses
  <2>2. peerings' = [peerings EXCEPT ![id] = p]
    BY <1>4 DEF Accept, Only
  <2> HIDE DEF p
  <2>3. p.doomed => peerings[id].doomed
    BY <2>1, Zenon
  <2>4. QED
    BY <1>1, <1>2, <2>1, <2>2, <2>3, OneKept DEF Known
<1>5. CASE Remove(id) /\ peerings[id].status = "defunct"
  <2> DEFINE p == [peerings[id] EXCEPT !.status = "deleting"]
  <2>1. /\ p \in APeering /\ p.status = "deleting" /\ p.attrs = peerings[id].attrs
        /\ p.doomed = peerings[id].doomed
    BY <1>2 DEF APeering, Statuses
  <2>2. peerings' = [peerings EXCEPT ![id] = p]
    BY <1>5 DEF Remove, Only
  <2> HIDE DEF p
  <2>3. p.doomed => peerings[id].doomed
    BY <2>1, Zenon
  <2>4. QED
    BY <1>1, <1>2, <2>1, <2>2, <2>3, OneKept DEF Known
<1>6. CASE Remove(id) /\ peerings[id].status = "deleting"
  <2> DEFINE p == [peerings[id] EXCEPT !.status = "deleted"]
  <2>1. /\ p \in APeering /\ p.status = "deleted" /\ p.attrs = peerings[id].attrs
        /\ p.doomed = peerings[id].doomed
    BY <1>2 DEF APeering, Statuses
  <2>2. peerings' = [peerings EXCEPT ![id] = p] /\ peerings[id].doomed
    BY <1>6 DEF Remove
  <2>3. built'[id] = None
    BY <1>6 DEF Remove, Typed, TypeOK
  <2> HIDE DEF p
  <2>4. p.doomed => peerings[id].doomed
    BY <2>1, Zenon
  <2>5. QED
    BY <1>1, <1>2, <2>1, <2>2, <2>3, <2>4, OneKept DEF Known
<1>7. CASE Break(id)
  <2> DEFINE p == [peerings[id] EXCEPT !.status = "defunct", !.doomed = FALSE]
  <2>1. p \in APeering /\ p.status = "defunct" /\ p.attrs = peerings[id].attrs /\ ~p.doomed
    BY <1>2 DEF APeering, Statuses
  <2>2. peerings' = [peerings EXCEPT ![id] = p]
    BY <1>7 DEF Break, Only
  <2> HIDE DEF p
  <2>3. p.doomed => peerings[id].doomed
    BY <2>1, Zenon
  <2>4. QED
    BY <1>1, <1>2, <2>1, <2>2, <2>3, OneKept DEF Known
<1>8. CASE Describe(id)
  <2> DEFINE p == [peerings[id] EXCEPT !.attrs.meta = TRUE]
  <2>1. /\ p \in APeering /\ p.status = peerings[id].status /\ p.attrs \in ApiAttrs
        /\ p.attrs.meta /\ p.attrs.place = peerings[id].attrs.place
        /\ p.doomed = peerings[id].doomed
    BY <1>2, <1>8 DEF APeering, Attrs, ApiAttrs, AttrsAt, Describe
  <2>2. peerings' = [peerings EXCEPT ![id] = p]
    BY <1>8 DEF Describe, Only
  <2> HIDE DEF p
  <2>3. p.doomed => peerings[id].doomed
    BY <2>1, Zenon
  <2>4. QED
    BY <1>1, <2>1, <2>2, <2>3, OneKept DEF Exists
<1>9. QED
  BY <1>3, <1>4, <1>5, <1>6, <1>7, <1>8 DEF Api, Remove

\* They touch nothing but the peerings, and forget what is gone.
BuiltLess == \A i \in Ids : built'[i] = built[i] \/ built'[i] = None
LostKept == \A i \in lost : i \in lost' \/ (i \in Ids /\ ~AliveNext(i))

LEMMA ApiOnly ==
  ASSUME Typed, NEW id \in Ids, Api(id) \/ Accept(id) \/ Break(id)
  PROVE  /\ UNCHANGED <<cfg, tf, pc, d, wait, expired, calm>>
         /\ BuiltLess /\ LostKept /\ lost' \subseteq Ids
         /\ built' \in [Ids -> Places \union {None}]
<1>1. CASE UNCHANGED <<cfg, tf, pc, d, wait, expired, calm, lost, built>>
  BY <1>1 DEF BuiltLess, LostKept, Typed, TypeOK
<1>2. CASE Remove(id) /\ peerings[id].status = "deleting"
  <2>1. peerings'[id].status = "deleted"
    BY <1>2 DEF Remove, Typed, TypeOK
  <2>2. QED
    BY <1>2, <2>1 DEF Remove, BuiltLess, LostKept, AliveNext, Typed, TypeOK
<1>3. QED
  BY <1>1, <1>2 DEF Api, Initiate, Describe, Remove, Accept, Break, Only

\* No step undoes a peering, a deletion or what is known of it.
LEMMA NextKept == Inv /\ [Next]_vars => Kept
<1> SUFFICES ASSUME Inv, [Next]_vars PROVE Kept
  OBVIOUS
<1>1. UNCHANGED peerings => Kept
  BY SameKept DEF Inv
<1>2. CASE Create
  <2>1. d.new \in Attrs /\ \A id \in FreshIds : id \notin {tf.id, d.id}
    BY <1>2, NoneIsNoId DEF Create, Inv, Control, Typed, Handler, FreshIds
  <2>2. QED
    BY <1>1, <1>2, <2>1, ProvisionKept DEF Create, Inv
<1>3. CASE Update
  <2>1. d.id \in Ids /\ Exists(d.id) /\ d.new \in Attrs
    BY <1>3 DEF Update, Inv, Control, Typed, TypeOK, Handler
  <2>2. QED
    BY <1>1, <1>3, <2>1, RenameKept DEF Update, Inv
<1>4. CASE Delete
  <2>1. d.id \in Ids /\ Exists(d.id)
    BY <1>4 DEF Delete, Inv, Control, Typed, TypeOK, Handler
  <2>2. QED
    BY <1>1, <1>4, <2>1, DoomKept DEF Delete, AcceptsDelete, Inv
<1>5. ASSUME NEW id \in Ids, Api(id) \/ Accept(id) \/ Break(id) PROVE Kept
  BY <1>5, ApiKept DEF Inv
<1>6. CASE \/ UNCHANGED vars \/ Edit \/ Refresh \/ Plan \/ ReadCheckDefunct \/ Reread
           \/ DeleteReturns \/ Panic \/ WaitGet \/ WaitSleep \/ Expire \/ Calm \/ Crash
           \/ \E id \in Ids : Import(id)
  BY <1>1, <1>6 DEF vars, Edit, Refresh, Plan, ReadCheckDefunct, Reread, DeleteReturns, Panic,
     WaitGet, WaitSleep, Expire, Calm, Crash, Import
<1>7. QED
  BY <1>2, <1>3, <1>4, <1>5, <1>6 DEF Next, Step

-----------------------------------------------------------------------------
(***************************************************************************)
(* Ending an operation, going on and waiting.                              *)
(***************************************************************************)

\* An operation ends in a state without the resource, or one that refers to
\* a peering that exists.
LEMMA EndKeeps ==
  ASSUME Inv, Kept, NEW where \in {"idle", "plan"}, NEW state \in State,
         state.id # None => state.attrs \in Attrs /\ ExistsNext(state.id),
         End(where, state), lost' \subseteq Ids, built' \in [Ids -> Places \union {None}]
  PROVE  Inv'
<1>1. TypeOK'
  BY NullRecords DEF Inv, Typed, TypeOK, Kept, End, State, ResourceData, APeering, WaitRequest
<1>2. Typed'
  BY <1>1, NullRecords DEF Inv, Typed, Kept, Exists, ExistsNext, End
<1>3. Control'
  BY NullRecords DEF Control, End, Handler, Waiting
<1>4. QED
  BY <1>2, <1>3 DEF Inv

\* What Terraform saves after an error, case by case of the operation.
LEMMA ErrorStates ==
  /\ d.op = "create" /\ d.id = None => StateAfterError = NoState
  /\ d.op = "create" /\ d.id # None =>
       StateAfterError = [id |-> d.id, attrs |-> d.new, tainted |-> TRUE]
  /\ d.op = "update" => StateAfterError = [id |-> d.id, attrs |-> d.new, tainted |-> FALSE]
  /\ d.op = "delete" => StateAfterError = tf
<1>1. CASE d.op = "create" /\ d.id = None
  BY <1>1 DEF StateAfterError
<1>2. CASE d.op = "create" /\ d.id # None
  BY <1>2 DEF StateAfterError
<1>3. CASE d.op = "update"
  BY <1>3 DEF StateAfterError
<1>4. CASE d.op = "delete"
  BY <1>4 DEF StateAfterError
<1>5. QED
  BY <1>1, <1>2, <1>3, <1>4

\* It refers to a peering that exists, the one the operation and the state knew.
LEMMA ErrorStateTyped ==
  ASSUME Inv, Kept, d.op # "none"
  PROVE  /\ StateAfterError \in State
         /\ StateAfterError.id # None =>
              StateAfterError.attrs \in Attrs /\ ExistsNext(StateAfterError.id)
         /\ tf.id # None => StateAfterError.id = tf.id
         /\ d.id # None => StateAfterError.id = d.id
<1>1. /\ d.op \in {"create", "update", "delete"} /\ d.id \in Ids \union {None}
      /\ d.op \in {"create", "update"} => d.new \in Attrs
      /\ d.id # None => ExistsNext(d.id)
      /\ tf \in State /\ (tf.id # None => tf.attrs \in Attrs /\ ExistsNext(tf.id))
  BY DEF Inv, Typed, TypeOK, State, Kept
<1>2. /\ d.op = "create" => tf.id = None
      /\ d.op \in {"update", "delete"} => tf.id = d.id
  BY DEF Inv, Control
<1>3. CASE d.op = "create" /\ d.id = None
  BY <1>2, <1>3, ErrorStates, NullRecords
<1>4. CASE d.op = "create" /\ d.id # None
  <2>1. StateAfterError = [id |-> d.id, attrs |-> d.new, tainted |-> TRUE]
    BY <1>4, ErrorStates
  <2>2. QED
    BY <1>1, <1>2, <1>4, <2>1 DEF State
<1>5. CASE d.op = "update"
  <2>1. StateAfterError = [id |-> d.id, attrs |-> d.new, tainted |-> FALSE]
    BY <1>5, ErrorStates
  <2>2. QED
    BY <1>1, <1>2, <1>5, <2>1 DEF State
<1>6. CASE d.op = "delete"
  BY <1>1, <1>2, <1>6, ErrorStates
<1>7. QED
  BY <1>1, <1>3, <1>4, <1>5, <1>6

\* An operation that fails keeps the invariant.
LEMMA FailKeeps ==
  ASSUME Inv, Kept, d.op # "none", Fail, lost' \subseteq Ids
  PROVE  Inv'
<1>1. End("idle", StateAfterError) /\ built' \in [Ids -> Places \union {None}]
  BY DEF Fail, Inv, Typed, TypeOK
<1>2. QED
  BY <1>1, ErrorStateTyped, EndKeeps

\* The handler starts to wait for a state, with an id.
LEMMA StartWaitKeeps ==
  ASSUME Inv, Kept, pc \in Handler, d' \in ResourceData,
         d'.op = d.op, d'.new = d.new, d'.id # None, ExistsNext(d'.id), d.id # None => d'.id = d.id,
         d.op = "create" => ProviderOf[peerings'[d'.id].attrs.place] = ProviderOf[d.new.place],
         NEW state, NEW then, StartWait(state, then),
         \/ d.op = "create" /\ then = "read" /\ state = "initiated"
         \/ d.op = "delete" /\ then = "gone" /\ state = "deleted"
  PROVE  Inv'
<1>1. wait' \in WaitRequest
  BY BoundAssumption DEF StartWait, WaitRequest
<1>2. TypeOK'
  BY <1>1 DEF Inv, Typed, TypeOK, Kept, StartWait, Handler, Waiting, ResourceData, APeering,
     WaitRequest
<1>3. Typed'
  BY <1>2 DEF Inv, Typed, TypeOK, Kept, Exists, ExistsNext, StartWait
<1>4. Control'
  BY DEF Inv, Control, StartWait, Handler, Waiting
<1>5. QED
  BY <1>3, <1>4 DEF Inv

\* A step that keeps the state, the operation and the id.
LEMMA TypedKept ==
  ASSUME Inv, Kept, UNCHANGED <<cfg, tf, wait, expired, calm>>, d' \in ResourceData,
         lost' \subseteq Ids, built' \in [Ids -> Places \union {None}],
         d'.op = d.op, d'.id = d.id, d.op \in {"create", "update"} => d'.new \in Attrs,
         d.op = "create" => d'.new.place = d.new.place,
         pc' \in {"idle", "plan", "panic"} \union Handler
  PROVE  Typed'
<1>1. TypeOK'
  BY DEF Inv, Typed, TypeOK, Kept, ResourceData, APeering
<1>2. d.op = "create" /\ d.id # None =>
        ProviderOf[peerings'[d.id].attrs.place] = ProviderOf[d.new.place]
  BY DEF Inv, Typed, TypeOK, Kept, Referred
<1>3. QED
  BY <1>1, <1>2 DEF Inv, Typed, TypeOK, Kept, Exists, ExistsNext

\* The history is typed.
LEMMA HistoryTyped ==
  ASSUME Inv, UNCHANGED <<lost, built>>
  PROVE  lost' \subseteq Ids /\ built' \in [Ids -> Places \union {None}]
  BY DEF Inv, Typed, TypeOK

-----------------------------------------------------------------------------
(***************************************************************************)
(* The invariant holds at the start, and every action keeps it.            *)
(***************************************************************************)
\* At the start there is nothing.
LEMMA InitInv == Init => Inv
<1> SUFFICES ASSUME Init PROVE Inv
  OBVIOUS
<1>1. TypeOK
  BY NullRecords DEF Init, TypeOK, State, ResourceData, APeering, WaitRequest
<1>2. Typed
  BY <1>1, NullRecords DEF Init, Typed, Exists
<1>3. Control
  BY NullRecords DEF Init, Control, Handler, Waiting
<1>4. QED
  BY <1>2, <1>3 DEF Inv

\* What a read leaves in the state.
LEMMA StateReadTyped ==
  ASSUME Typed, NEW id \in Ids, Exists(id), NEW tainted \in BOOLEAN
  PROVE  /\ StateRead(id, tainted) \in State
         /\ StateRead(id, tainted).id # None =>
              /\ StateRead(id, tainted).id = id
              /\ StateRead(id, tainted).attrs = peerings[id].attrs
              /\ StateRead(id, tainted).tainted = tainted
              /\ peerings[id].attrs \in Attrs
         /\ peerings[id].status # "deleted" => StateRead(id, tainted).id = id
  BY ApiIsLegal DEF StateRead, State, NoState, Typed

\* Terraform's own steps.
LEMMA RefreshInv == Inv /\ Refresh => Inv'
<1> SUFFICES ASSUME Inv, Refresh PROVE Inv'
  OBVIOUS
<1>1. tf' \in State /\ (tf'.id # None => tf'.attrs \in Attrs /\ Exists(tf'.id))
  <2>1. tf \in State /\ (tf.id # None => tf.id \in Ids /\ Exists(tf.id) /\ tf.attrs \in Attrs)
    BY DEF Inv, Typed, TypeOK, State
  <2>2. CASE UNCHANGED tf
    BY <2>1, <2>2
  <2>3. CASE tf.id # None /\ tf' = StateRead(tf.id, tf.tainted)
    BY <2>1, <2>3, StateReadTyped DEF Inv, State
  <2>4. QED
    BY <2>2, <2>3 DEF Refresh
<1>2. /\ pc' \in {"idle", "plan"} /\ d.op = "none" /\ d.id = None
      /\ UNCHANGED <<cfg, peerings, d, wait, expired, calm, lost, built>>
  BY DEF Refresh, Inv, Control
<1>3. Typed'
  BY <1>1, <1>2 DEF Inv, Typed, TypeOK, State, Exists
<1>4. Control'
  BY <1>2 DEF Control, Handler, Waiting
<1>5. QED
  BY <1>3, <1>4 DEF Inv

\* An import takes an existing peering into an empty state.
LEMMA ImportInv == ASSUME NEW id \in Ids, Inv, Import(id) PROVE Inv'
<1>1. tf' \in State /\ (tf'.id # None => tf'.attrs \in Attrs /\ Exists(tf'.id))
  BY StateReadTyped DEF Import, Inv, Exists
<1>2. /\ pc' = "idle" /\ d.op = "none" /\ d.id = None /\ lost' \subseteq lost
      /\ UNCHANGED <<cfg, peerings, d, wait, expired, calm, built>>
  BY DEF Import, Inv, Control
<1>3. Typed'
  BY <1>1, <1>2 DEF Import, Inv, Typed, TypeOK, State, Exists
<1>4. Control'
  BY <1>2 DEF Control, Handler, Waiting
<1>5. QED
  BY <1>3, <1>4 DEF Inv

\* The four outcomes of a plan.
LEMMA PlanInv == Inv /\ Plan => Inv'
<1> SUFFICES ASSUME Inv, Plan PROVE Inv'
  OBVIOUS
<1>1. /\ UNCHANGED <<cfg, tf, peerings, wait, expired, calm, lost, built>>
      /\ cfg # Absent => cfg \in Config
      /\ tf.id # None => tf.id \in Ids /\ tf.attrs \in Attrs /\ Exists(tf.id)
  BY ConfigAssumption DEF Plan, Inv, Typed, TypeOK
<1>2. ASSUME d' \in ResourceData, d'.id # None => Exists(d'.id),
             d'.op \in {"create", "update"} => d'.new \in Attrs, d'.op = "create" => d'.id = None,
             pc' \in {"idle", "create", "update", "delete"}
      PROVE  Typed'
  BY <1>1, <1>2 DEF Inv, Typed, TypeOK, ResourceData, Exists, Handler
<1>3. CASE /\ tf.id = None /\ cfg # Absent /\ pc' = "create"
           /\ d' = [op |-> "create", id |-> None,
                    new |-> [place |-> cfg.place, name |-> cfg.name, meta |-> FALSE]]
  <2>1. d' \in ResourceData /\ d'.new \in Attrs
    BY <1>1, <1>3 DEF ResourceData, Config, Attrs, AttrsAt
  <2>2. Typed'
    BY <1>2, <1>3, <2>1
  <2>3. Control'
    BY <1>1, <1>3 DEF Control, Handler, Waiting
  <2>4. QED
    BY <2>2, <2>3 DEF Inv
<1>4. CASE MustDelete /\ pc' = "delete" /\ d' = [op |-> "delete", id |-> tf.id, new |-> None]
  <2>1. Typed'
    BY <1>1, <1>2, <1>4 DEF MustDelete, ResourceData
  <2>2. Control'
    BY <1>1, <1>4, NoneIsNoId DEF MustDelete, Control, Handler, Waiting
  <2>3. QED
    BY <2>1, <2>2 DEF Inv
<1>5. CASE /\ tf.id # None /\ ~MustDelete /\ pc' = "update"
           /\ d' = [op |-> "update", id |-> tf.id, new |-> [tf.attrs EXCEPT !.name = cfg.name]]
  <2>1. [tf.attrs EXCEPT !.name = cfg.name] \in Attrs
    BY <1>1, <1>5 DEF MustDelete, Config, Attrs, AttrsAt
  <2>2. Typed'
    BY <1>1, <1>2, <1>5, <2>1 DEF ResourceData
  <2>3. Control'
    BY <1>1, <1>5, NoneIsNoId DEF Control, Handler, Waiting
  <2>4. QED
    BY <2>2, <2>3 DEF Inv
<1>6. CASE d' = NoData /\ pc' = "idle"
  <2>1. Typed'
    BY <1>2, <1>6, NullRecords
  <2>2. Control'
    BY <1>1, <1>6, NullRecords DEF Control, Handler, Waiting
  <2>3. QED
    BY <2>1, <2>2 DEF Inv
<1>7. QED
  BY <1>3, <1>4, <1>5, <1>6 DEF Plan

\* Create stores the id before it waits.
LEMMA CreateInv == Inv /\ Kept /\ Create => Inv'
<1> SUFFICES ASSUME Inv, Kept, Create PROVE Inv'
  OBVIOUS
<1>1. /\ pc \in Handler /\ d.op = "create" /\ d.id = None /\ d.new \in Attrs
      /\ d \in ResourceData /\ lost \subseteq Ids
  BY DEF Create, Inv, Control, Typed, TypeOK, Handler, ResourceData
<1>2. ASSUME NEW id \in FreshIds, Provision(id),
             d' = [d EXCEPT !.id = id], StartWait("initiated", "read")
      PROVE  Inv'
  <2>1. id \in Ids /\ id # None
    BY NoneIsNoId DEF FreshIds
  <2>2. ExistsNext(id) /\ ProviderOf[peerings'[id].attrs.place] = ProviderOf[d.new.place]
    <3>1. id \notin {tf.id, d.id}
      BY <1>1, <2>1 DEF Inv, Control
    <3>2. QED
      BY <1>1, <1>2, <3>1, ProvisionKept DEF Inv
  <2>3. d' \in ResourceData /\ d'.op = d.op /\ d'.new = d.new /\ d'.id = id
    BY <1>1, <1>2, <2>1 DEF ResourceData
  <2>4. QED
    BY <1>1, <1>2, <2>1, <2>2, <2>3, StartWaitKeeps
<1>3. ASSUME NEW id \in FreshIds, Fail, lost' = lost \union {id} PROVE Inv'
  BY <1>1, <1>3, FailKeeps DEF FreshIds
<1>4. QED
  BY <1>1, <1>2, <1>3, FailKeeps DEF Create

\* The reads at the end of Create and of Update.
LEMMA ReadInv == Inv /\ Kept /\ (ReadCheckDefunct \/ Reread) => Inv'
<1> SUFFICES ASSUME Inv, Kept, ReadCheckDefunct \/ Reread PROVE Inv'
  OBVIOUS
<1>1. /\ d.op # "none" /\ d.id \in Ids /\ Exists(d.id)
      /\ UNCHANGED <<peerings, lost>> /\ lost \subseteq Ids
      /\ pc = "read" => d.new.place \in Places
      /\ built \in [Ids -> Places \union {None}]
  BY DEF ReadCheckDefunct, Reread, Inv, Control, Typed, TypeOK, Handler, Attrs, AttrsAt
<1>2. ASSUME NEW tainted \in BOOLEAN, End("idle", StateRead(d.id, tainted)),
             built' \in [Ids -> Places \union {None}]
      PROVE  Inv'
  <2>1. /\ StateRead(d.id, tainted) \in State
        /\ StateRead(d.id, tainted).id # None =>
             StateRead(d.id, tainted).attrs \in Attrs /\ ExistsNext(StateRead(d.id, tainted).id)
    BY <1>1, StateReadTyped DEF Inv, Exists, ExistsNext
  <2>2. QED
    BY <1>1, <1>2, <2>1, EndKeeps
<1>3. CASE /\ pc = "read" /\ End("idle", StateRead(d.id, ~Readable(d.id)))
           /\ built' = IF Readable(d.id) THEN [built EXCEPT ![d.id] = d.new.place] ELSE built
  <2>1. built' \in [Ids -> Places \union {None}]
    BY <1>1, <1>3
  <2>2. QED
    BY <1>2, <1>3, <2>1
<1>4. CASE End("idle", StateRead(d.id, FALSE)) /\ UNCHANGED built
  BY <1>1, <1>2, <1>4
<1>5. QED
  BY <1>1, <1>3, <1>4, FailKeeps DEF ReadCheckDefunct, Reread

\* Update renames and reads.
LEMMA UpdateInv == Inv /\ Kept /\ Update => Inv'
<1> SUFFICES ASSUME Inv, Kept, Update PROVE Inv'
  OBVIOUS
<1>1. pc = "update" /\ d.op = "update" /\ d.id # None /\ d \in ResourceData /\ lost \subseteq Ids
  BY DEF Update, Inv, Control, Typed, TypeOK, Handler, ResourceData
<1>2. CASE Goto("reread") /\ UNCHANGED d
  <2>1. Typed'
    BY <1>1, <1>2, TypedKept, HistoryTyped DEF Goto, Handler, Inv, Typed
  <2>2. Control'
    BY <1>1, <1>2 DEF Goto, Inv, Control, Handler, Waiting
  <2>3. QED
    BY <2>1, <2>2 DEF Inv
<1>3. QED
  BY <1>1, <1>2, FailKeeps DEF Update

\* Delete waits for the peering to be deleted before it returns.
LEMMA DeleteInv == Inv /\ Kept /\ (Delete \/ DeleteReturns \/ Panic) => Inv'
<1> SUFFICES ASSUME Inv, Kept, Delete \/ DeleteReturns \/ Panic PROVE Inv'
  OBVIOUS
<1>1. /\ d.op = "delete" /\ d.id \in Ids /\ d.id # None /\ Exists(d.id) /\ d \in ResourceData
      /\ lost \subseteq Ids /\ built \in [Ids -> Places \union {None}]
      /\ tf \in State /\ (tf.id # None => tf.attrs \in Attrs /\ ExistsNext(tf.id))
  BY DEF Delete, DeleteReturns, Panic, Inv, Control, Typed, TypeOK, Handler, ResourceData, State,
     Kept, Exists
<1>2. CASE Delete
  <2>1. pc \in Handler
    BY <1>2 DEF Delete, Handler
  <2>2. CASE StartWait("deleted", "gone") /\ UNCHANGED d
    <3>1. ExistsNext(d'.id)
      BY <1>1, <2>2 DEF Kept
    <3>2. QED
      BY <1>1, <2>1, <2>2, <3>1, StartWaitKeeps
  <2>3. QED
    BY <1>1, <1>2, <2>2, FailKeeps DEF Delete
<1>3. CASE DeleteReturns
  BY <1>1, <1>3, NullRecords, EndKeeps DEF DeleteReturns
<1>4. CASE Panic
  BY <1>1, <1>4, EndKeeps DEF Panic
<1>5. QED
  BY <1>2, <1>3, <1>4

\* A poll reaches its state, fails, panics or goes on.
LEMMA WaitGetInv == Inv /\ Kept /\ WaitGet => Inv'
<1> SUFFICES ASSUME Inv, Kept, WaitGet PROVE Inv'
  OBVIOUS
<1>1. /\ pc \in Waiting /\ d.op \in {"create", "delete"} /\ d.id \in Ids /\ d.id # None
      /\ d \in ResourceData /\ Exists(d.id) /\ lost \subseteq Ids /\ UNCHANGED <<peerings, lost>>
  BY DEF WaitGet, Waiting, Inv, Control, Typed, TypeOK, Handler, ResourceData
<1>2. CASE Fail
  BY <1>1, <1>2, FailKeeps
<1>3. CASE d.op = "delete" /\ Goto("panic") /\ UNCHANGED d
  <2>1. Typed'
    BY <1>1, <1>3, TypedKept, HistoryTyped DEF Goto
  <2>2. Control'
    BY <1>1, <1>3 DEF Goto, Inv, Control, Handler, Waiting
  <2>3. QED
    BY <2>1, <2>2 DEF Inv
<1>4. CASE Goto("sleep") /\ UNCHANGED d
  <2>1. Typed'
    BY <1>1, <1>4, TypedKept, HistoryTyped DEF Goto, Handler, Waiting, Inv, Typed
  <2>2. Control'
    BY <1>1, <1>4 DEF Goto, Inv, Control, Handler, Waiting
  <2>3. QED
    BY <2>1, <2>2 DEF Inv
<1>5. CASE Reached /\ WaitReturns
  <2>1. CASE d.op = "create"
    <3>1. /\ d.new \in Attrs /\ peerings[d.id].attrs \in Attrs
          /\ ProviderOf[peerings[d.id].attrs.place] = ProviderOf[d.new.place]
      BY <1>1, <2>1, ApiIsLegal DEF Inv, Typed
    <3>2. d' = [d EXCEPT !.new.meta = peerings[d.id].attrs.meta]
      BY <1>5, <2>1 DEF WaitReturns
    <3>3. /\ d' \in ResourceData /\ d'.op = d.op /\ d'.id = d.id /\ d'.new \in Attrs
          /\ d'.new.place = d.new.place
      BY <1>1, <3>1, <3>2 DEF ResourceData, Attrs, AttrsAt
    <3>4. pc' = "read" /\ UNCHANGED <<cfg, tf, wait, expired, calm, lost, built>>
      BY <1>1, <1>5, <2>1 DEF WaitReturns, Goto, Inv, Control
    <3>5. Typed'
      BY <3>3, <3>4, TypedKept, HistoryTyped DEF Handler
    <3>6. Control'
      BY <1>1, <2>1, <3>3, <3>4 DEF Inv, Control, Handler, Waiting
    <3>7. QED
      BY <3>5, <3>6 DEF Inv
  <2>2. CASE d.op = "delete"
    <3>1. /\ pc' = "gone" /\ UNCHANGED <<cfg, tf, d, wait, expired, calm, lost, built>>
          /\ peerings[d.id].status = "deleted"
      BY <1>1, <1>5, <2>2 DEF WaitReturns, Goto, Reached, Seen, Inv, Control
    <3>2. Typed'
      BY <1>1, <2>2, <3>1, TypedKept, HistoryTyped DEF Handler
    <3>3. Control'
      BY <1>1, <2>2, <3>1 DEF Inv, Control, Handler, Waiting
    <3>4. QED
      BY <3>2, <3>3 DEF Inv
  <2>3. QED
    BY <1>1, <2>1, <2>2
<1>6. QED
  BY <1>1, <1>2, <1>3, <1>4, <1>5 DEF WaitGet, WaitFails

\* A sleep is part of the wait.
LEMMA WaitSleepInv == Inv /\ WaitSleep => Inv'
<1> SUFFICES ASSUME Inv, WaitSleep PROVE Inv'
  OBVIOUS
<1>1. /\ pc' = "get" /\ UNCHANGED <<cfg, tf, peerings, d, expired, calm, lost, built>>
      /\ wait' \in WaitRequest /\ wait'.then = wait.then /\ wait'.state = wait.state
  BY BoundAssumption DEF WaitSleep, Inv, Typed, TypeOK, WaitRequest
<1>2. Typed'
  BY <1>1 DEF Inv, Typed, TypeOK, WaitRequest, Exists, Handler, Waiting
<1>3. Control'
  BY <1>1 DEF WaitSleep, Inv, Control, Handler, Waiting
<1>4. QED
  BY <1>2, <1>3 DEF Inv

\* A crash keeps the state from before the operation.
LEMMA CrashInv == Inv /\ Kept /\ Crash => Inv'
<1> SUFFICES ASSUME Inv, Kept, Crash PROVE Inv'
  OBVIOUS
<1>1. /\ built' \in [Ids -> Places \union {None}] /\ lost' \subseteq Ids
      /\ tf \in State /\ (tf.id # None => tf.attrs \in Attrs /\ ExistsNext(tf.id))
  BY DEF Crash, Inv, Typed, TypeOK, State, Kept
<1>2. QED
  BY <1>1, EndKeeps DEF Crash

\* The API and the customer leave Terraform and the handler alone.
LEMMA ApiInv ==
  ASSUME NEW id \in Ids, Inv, Api(id) \/ Accept(id) \/ Break(id)
  PROVE  Inv'
<1>1. /\ Kept /\ UNCHANGED <<cfg, tf, pc, d, wait, expired, calm>>
      /\ lost' \subseteq Ids /\ built' \in [Ids -> Places \union {None}]
  BY ApiKept, ApiOnly DEF Inv
<1>2. d \in ResourceData
  BY DEF Inv, Typed, TypeOK, ResourceData
<1>3. Typed'
  BY <1>1, <1>2, TypedKept DEF Inv, Typed, TypeOK
<1>4. pc = "gone" => d.id \in Ids
  BY DEF Inv, Control, Typed, TypeOK, Handler
<1>5. Control'
  BY <1>1, <1>4 DEF Inv, Control, Kept, Referred
<1>6. QED
  BY <1>3, <1>5 DEF Inv

\* Typed and Control always hold.
THEOREM Invariance == Spec => []Inv
<1>1. Inv /\ [Next]_vars => Inv'
  <2> SUFFICES ASSUME Inv, [Next]_vars PROVE Inv'
    OBVIOUS
  <2>1. CASE UNCHANGED vars \/ Edit \/ Expire \/ Calm
    BY <2>1 DEF vars, Edit, Expire, Calm, Inv, Typed, TypeOK, Control, Exists, Handler, Waiting
  <2>2. QED
    BY <2>1, NextKept, RefreshInv, ImportInv, PlanInv, CreateInv, ReadInv, UpdateInv, DeleteInv,
       WaitGetInv, WaitSleepInv, CrashInv, ApiInv DEF Next, Step
<1>2. QED
  BY <1>1, InitInv, PTL DEF Spec

\* The variables always have their types.
THEOREM TypeCorrect == Spec => []TypeOK
<1>1. Inv => TypeOK
  BY DEF Inv, Typed
<1>2. QED
  BY <1>1, Invariance, PTL

-----------------------------------------------------------------------------
(***************************************************************************)
(* No peering is forgotten.                                                *)
(***************************************************************************)
\* No step but a create brings a peering to life.
NoneBorn == \A id \in Ids : AliveNext(id) => Alive(id)

\* A peering that is deleted, or does not exist, is not brought to life by a rename,
\* a request to delete, the API or the customer.
LEMMA RenameBearsNone ==
  ASSUME Typed, NEW id \in Ids, Rename(id)
  PROVE  NoneBorn
  BY DEF Typed, TypeOK, Rename, NoneBorn, AliveNext, Alive

LEMMA DoomBearsNone ==
  ASSUME Typed, NEW id \in Ids, Alive(id), Doom(id)
  PROVE  NoneBorn
<1>1. \A i \in Ids \ {id} : peerings'[i] = peerings[i]
  BY DEF Typed, TypeOK, Doom
<1>2. QED
  BY <1>1 DEF NoneBorn, AliveNext, Alive

LEMMA ApiBearsNone ==
  ASSUME Typed, NEW id \in Ids, Api(id) \/ Accept(id) \/ Break(id)
  PROVE  NoneBorn
<1>1. Alive(id)
  BY DEF Typed, TypeOK, Api, Initiate, Describe, Remove, Accept, Break, Alive
<1>2. \A i \in Ids \ {id} : peerings'[i] = peerings[i]
  BY DEF Typed, TypeOK, Api, Initiate, Describe, Remove, Accept, Break, Only
<1>3. QED
  BY <1>1, <1>2 DEF NoneBorn, AliveNext, Alive

\* A step under which none is born forgets none when it keeps the ids it knows, or
\* ends in a failure.
LEMMA KeepsKnown ==
  ASSUME Inv, Kept, NothingForgotten, NoneBorn, LostKept,
         \/ UNCHANGED tf /\ d'.id = d.id
         \/ d.op # "none" /\ Fail
  PROVE  NothingForgotten'
<1>1. CASE d.op # "none" /\ Fail
  <2>1. /\ tf.id # None => tf'.id = tf.id
        /\ d.id # None => tf'.id = d.id
    BY <1>1, ErrorStateTyped DEF Fail, End
  <2>2. QED
    BY <2>1, NoneIsNoId DEF NothingForgotten, NoneBorn, LostKept, AliveNext, Alive
<1>2. QED
  BY <1>1 DEF NothingForgotten, NoneBorn, LostKept, AliveNext, Alive

\* A step that leaves the peerings alone.
LEMMA SameForgetsNone ==
  ASSUME Inv, Kept, NothingForgotten, UNCHANGED peerings, UNCHANGED lost,
         \/ UNCHANGED tf /\ d'.id = d.id
         \/ d.op # "none" /\ Fail
  PROVE  NothingForgotten'
<1>1. NoneBorn /\ LostKept
  BY DEF NoneBorn, LostKept, AliveNext, Alive
<1>2. QED
  BY <1>1, KeepsKnown

\* A create keeps the id of the peering it has made, or counts it as lost.
LEMMA CreateForgetsNone == Inv /\ Kept /\ NothingForgotten /\ Create => NothingForgotten'
<1> SUFFICES ASSUME Inv, Kept, NothingForgotten, Create PROVE NothingForgotten'
  OBVIOUS
<1>1. d.op = "create" /\ d.id = None /\ tf.id = None
  BY DEF Create, Inv, Control, Handler
<1>2. \A i \in Ids : Alive(i) => i \in lost
  BY <1>1, NoneIsNoId DEF NothingForgotten, Alive
<1>3. ASSUME NEW id \in FreshIds, Provision(id)
      PROVE  \A i \in Ids : AliveNext(i) => Alive(i) \/ i = id
  BY <1>3 DEF Provision, AliveNext, Alive, Inv, Typed, TypeOK
<1>4. ASSUME NEW id \in FreshIds, Provision(id),
             d' = [d EXCEPT !.id = id], StartWait("initiated", "read")
      PROVE  NothingForgotten'
  <2>1. d'.id = id /\ lost' = lost
    BY <1>4 DEF StartWait, Inv, Typed, TypeOK
  <2>2. QED
    BY <1>2, <1>3, <1>4, <2>1 DEF NothingForgotten, AliveNext, Alive
<1>5. ASSUME NEW id \in FreshIds, Provision(id), lost' = lost \union {id}
      PROVE  NothingForgotten'
  BY <1>2, <1>3, <1>5 DEF NothingForgotten, AliveNext, Alive
<1>6. CASE Fail /\ UNCHANGED <<peerings, lost>>
  BY <1>1, <1>6, SameForgetsNone
<1>7. QED
  BY <1>4, <1>5, <1>6 DEF Create

\* A read drops the id of a deleted peering only.
LEMMA ReadForgetsNone ==
  Inv /\ Kept /\ NothingForgotten /\ (ReadCheckDefunct \/ Reread) => NothingForgotten'
<1> SUFFICES ASSUME Inv, Kept, NothingForgotten, ReadCheckDefunct \/ Reread
             PROVE  NothingForgotten'
  OBVIOUS
<1>1. /\ d.op # "none" /\ d.id \in Ids /\ tf.id \in {None, d.id}
      /\ UNCHANGED <<peerings, lost>>
  BY DEF ReadCheckDefunct, Reread, Inv, Control, Typed, TypeOK, Handler
<1>2. ASSUME NEW tainted, End("idle", StateRead(d.id, tainted)) PROVE NothingForgotten'
  <2>1. peerings[d.id].status # "deleted" => tf'.id = d.id
    BY <1>2 DEF End, StateRead
  <2>2. QED
    BY <1>1, <2>1, NoneIsNoId DEF NothingForgotten
<1>3. QED
  BY <1>1, <1>2, SameForgetsNone DEF ReadCheckDefunct, Reread

\* So does a refresh, and a plan hands on the id of the state.
LEMMA PlanForgetsNone == Inv /\ NothingForgotten /\ (Refresh \/ Plan) => NothingForgotten'
<1> SUFFICES ASSUME Inv, NothingForgotten, Refresh \/ Plan PROVE NothingForgotten'
  OBVIOUS
<1>1. d.id = None /\ UNCHANGED <<peerings, lost>>
  BY DEF Refresh, Plan, Inv, Control
<1>2. tf.id # None /\ peerings[tf.id].status # "deleted" => tf'.id = tf.id
  BY DEF Refresh, Plan, StateRead
<1>3. QED
  BY <1>1, <1>2, NoneIsNoId DEF NothingForgotten

\* An update and a delete keep the id until the peering is deleted, a panic included.
LEMMA UpdateForgetsNone ==
  Inv /\ Kept /\ NothingForgotten /\ Update => NothingForgotten'
<1> SUFFICES ASSUME Inv, Kept, NothingForgotten, Update PROVE NothingForgotten'
  OBVIOUS
<1>1. d.op # "none" /\ d.id \in Ids
  BY DEF Update, Inv, Control, Typed, TypeOK, Handler
<1>2. Rename(d.id) => NoneBorn
  BY <1>1, RenameBearsNone DEF Inv
<1>3. CASE Rename(d.id) /\ UNCHANGED lost
  BY <1>1, <1>2, <1>3, KeepsKnown DEF Update, Goto, LostKept
<1>4. QED
  BY <1>1, <1>3, SameForgetsNone DEF Update, Goto

LEMMA DeleteForgetsNone ==
  Inv /\ Kept /\ NothingForgotten /\ (Delete \/ DeleteReturns \/ Panic) => NothingForgotten'
<1> SUFFICES ASSUME Inv, Kept, NothingForgotten, Delete \/ DeleteReturns \/ Panic
             PROVE  NothingForgotten'
  OBVIOUS
<1>1. d.op = "delete" /\ d.id \in Ids /\ Exists(d.id) /\ tf.id = d.id
  BY DEF Delete, DeleteReturns, Panic, Inv, Control, Typed, TypeOK, Handler
<1>2. AcceptsDelete(d.id) /\ Doom(d.id) => NoneBorn
  BY <1>1, DoomBearsNone DEF Inv, AcceptsDelete, Alive, Exists
<1>3. CASE Delete
  <2>1. CASE Doom(d.id) /\ AcceptsDelete(d.id) /\ UNCHANGED lost
    BY <1>1, <1>2, <1>3, <2>1, KeepsKnown DEF Delete, StartWait, LostKept
  <2>2. QED
    BY <1>1, <1>3, <2>1, SameForgetsNone DEF Delete, StartWait
<1>4. CASE DeleteReturns
  <2>1. peerings[d.id].status = "deleted" /\ UNCHANGED <<peerings, lost>>
    BY <1>4 DEF DeleteReturns, Inv, Control
  <2>2. QED
    BY <1>1, <2>1, NoneIsNoId DEF NothingForgotten
<1>5. CASE Panic
  <2>1. tf' = tf /\ UNCHANGED <<peerings, lost>>
    BY <1>5 DEF Panic, End
  <2>2. QED
    BY <1>1, <2>1, NoneIsNoId DEF NothingForgotten
<1>6. QED
  BY <1>3, <1>4, <1>5

\* Neither a poll nor a sleep forgets a peering.
LEMMA WaitForgetsNone ==
  Inv /\ Kept /\ NothingForgotten /\ (WaitGet \/ WaitSleep) => NothingForgotten'
<1> SUFFICES ASSUME Inv, Kept, NothingForgotten, WaitGet \/ WaitSleep PROVE NothingForgotten'
  OBVIOUS
<1>1. d.op # "none" /\ UNCHANGED <<peerings, lost>>
  BY DEF WaitGet, WaitSleep, Inv, Control, Handler, Waiting
<1>2. WaitReturns => UNCHANGED tf /\ d'.id = d.id
  BY DEF WaitReturns, Goto, Inv, Typed, TypeOK
<1>3. (UNCHANGED tf /\ d'.id = d.id) \/ Fail
  BY <1>2 DEF WaitGet, WaitFails, WaitSleep, Goto
<1>4. QED
  BY <1>1, <1>3, SameForgetsNone

\* A crash keeps the state from before the operation: what a create began is lost.
LEMMA CrashForgetsNone == Inv /\ NothingForgotten /\ Crash => NothingForgotten'
<1> SUFFICES ASSUME Inv, NothingForgotten, Crash PROVE NothingForgotten'
  OBVIOUS
<1>1. UNCHANGED <<peerings, tf>> /\ lost \subseteq lost'
  BY DEF Crash, End
<1>2. d.id # None => d.id \in lost' \union {tf.id}
  BY DEF Crash, Inv, Typed, TypeOK, Control, Handler
<1>3. QED
  BY <1>1, <1>2, NoneIsNoId DEF NothingForgotten

\* An import holds what it no longer counts as lost.
LEMMA ImportForgetsNone ==
  ASSUME NEW id \in Ids, Inv, NothingForgotten, Import(id)
  PROVE  NothingForgotten'
<1>1. UNCHANGED <<peerings, d>> /\ tf.id = None /\ lost' = lost \ {id} /\ tf'.id = id
  BY DEF Import, StateRead
<1>2. QED
  BY <1>1, NoneIsNoId DEF NothingForgotten

\* A peering that is not deleted is in the state, in the running handler, or lost
\* between the API's acceptance and the saving of its id; a panic of Delete included.
THEOREM NeverForgotten == Spec => []NothingForgotten
<1>1. Init => NothingForgotten
  BY NullRecords DEF Init, NothingForgotten
<1>2. Inv /\ NothingForgotten /\ [Next]_vars => NothingForgotten'
  <2> SUFFICES ASSUME Inv, NothingForgotten, [Next]_vars PROVE NothingForgotten'
    OBVIOUS
  <2>1. Kept
    BY NextKept
  <2>2. CASE Edit \/ Expire \/ Calm \/ UNCHANGED vars
    BY <2>2 DEF Edit, Expire, Calm, vars, NothingForgotten
  <2>3. ASSUME NEW id \in Ids, Api(id) \/ Accept(id) \/ Break(id) PROVE NothingForgotten'
    BY <2>1, <2>3, ApiOnly, ApiBearsNone, KeepsKnown DEF Inv
  <2>4. QED
    BY <2>1, <2>2, <2>3, CreateForgetsNone, ReadForgetsNone, PlanForgetsNone, UpdateForgetsNone,
       DeleteForgetsNone, WaitForgetsNone, CrashForgetsNone, ImportForgetsNone DEF Next, Step
<1>3. QED
  BY <1>1, <1>2, Invariance, PTL DEF Spec

-----------------------------------------------------------------------------
(***************************************************************************)
(* A peering whose creation was a success stands: it lives, its metadata   *)
(* is known and it is where its configuration put it.  The state shows so, *)
(* whatever failed since, and a delete of it is what the user asked for.   *)
(***************************************************************************)
Shows(attrs) == attrs.meta \/ ProviderOf[attrs.place] = "azure"

BuiltStands ==
  \A i \in Ids : built[i] # None =>
    Alive(i) /\ Known(i) /\ peerings[i].attrs.place = AsCreated[built[i]]

StateStands ==
  tf.id # None =>
    /\ built[tf.id] # None => Shows(tf.attrs) /\ ~tf.tainted
    /\ ~tf.tainted => tf.attrs.place = peerings[tf.id].attrs.place

CreateStands ==
  d.op = "create" /\ d.id # None =>
    /\ built[d.id] = None /\ Alive(d.id) /\ ~peerings[d.id].doomed
    /\ peerings[d.id].attrs.place = AsCreated[d.new.place]
    /\ pc = "read" => Known(d.id)

UpdateStands ==
  d.op = "update" =>
    /\ d.new.place = peerings[d.id].attrs.place
    /\ built[d.id] # None => Shows(d.new)

DeleteUnwanted ==
  pc = "delete" =>
    cfg = Absent \/ built[d.id] = None \/ cfg.place # built[d.id] \/ Misnamed

StandInv == BuiltStands /\ StateStands /\ CreateStands /\ UpdateStands /\ DeleteUnwanted

\* A step that adds nothing to the history keeps the peerings of the history as they are.
LEMMA BuiltStandsOn ==
  ASSUME Inv, BuiltStands, Kept, BuiltLess
  PROVE  BuiltStands'
<1>1. ASSUME NEW i \in Ids, built'[i] # None
      PROVE  AliveNext(i) /\ KnownNext(i) /\ peerings'[i].attrs.place = AsCreated[built'[i]]
  <2>1. built[i] # None /\ built'[i] = built[i]
    BY <1>1 DEF BuiltLess
  <2>2. Alive(i) /\ Known(i) /\ peerings[i].attrs.place = AsCreated[built[i]] /\ Referred(i)
    BY <2>1 DEF BuiltStands, Referred
  <2>3. QED
    BY <1>1, <2>1, <2>2 DEF Kept
<1>2. QED
  BY <1>1 DEF BuiltStands, Alive, AliveNext, Known, KnownNext

\* A handler that goes on keeps the state and what it is about to save.
LEMMA GoesOnStands ==
  ASSUME Inv, StandInv, Kept, BuiltLess, UNCHANGED <<cfg, tf>>, d'.op = d.op, d'.id = d.id,
         d.op \in {"create", "update"} => d'.new.place = d.new.place,
         d.op = "update" => d'.new = d.new,
         pc' = "read" => pc = "read" \/ KnownNext(d.id),
         pc' = "delete" => pc = "delete"
  PROVE  StandInv'
<1>1. BuiltStands'
  BY BuiltStandsOn DEF StandInv
<1>2. /\ tf.id # None => tf.id \in Ids /\ Referred(tf.id)
      /\ d.id # None => d.id \in Ids /\ Referred(d.id)
      /\ d.op = "update" => d.id # None
      /\ pc = "delete" => d.id # None
      /\ pc = "delete" => d.op = "delete"
  BY DEF Inv, Control, Typed, TypeOK, Referred, Handler
<1>3. StateStands'
  BY <1>2 DEF StandInv, StateStands, Kept, BuiltLess, Shows
<1>4. CreateStands'
  <2> SUFFICES ASSUME d.op = "create", d.id # None
               PROVE  /\ built'[d.id] = None /\ AliveNext(d.id) /\ ~peerings'[d.id].doomed
                      /\ peerings'[d.id].attrs.place = AsCreated[d.new.place]
                      /\ pc' = "read" => KnownNext(d.id)
    BY DEF CreateStands, Alive, AliveNext, Known, KnownNext
  <2>1. /\ built[d.id] = None /\ Alive(d.id) /\ ~peerings[d.id].doomed
        /\ peerings[d.id].attrs.place = AsCreated[d.new.place]
        /\ pc = "read" => Known(d.id)
    BY DEF StandInv, CreateStands
  <2>2. QED
    BY <1>2, <2>1 DEF Kept, BuiltLess
<1>5. UpdateStands'
  <2> SUFFICES ASSUME d.op = "update"
               PROVE  /\ d.new.place = peerings'[d.id].attrs.place
                      /\ built'[d.id] # None => Shows(d.new)
    BY DEF UpdateStands, Shows
  <2>1. QED
    BY <1>2 DEF StandInv, UpdateStands, Kept, BuiltLess
<1>6. DeleteUnwanted'
  BY <1>2 DEF StandInv, DeleteUnwanted, BuiltLess, Misnamed
<1>7. QED
  BY <1>1, <1>3, <1>4, <1>5, <1>6 DEF StandInv

\* An operation ends in a state that shows what it has.
LEMMA EndStands ==
  ASSUME BuiltStands', NEW where \in {"idle", "plan"}, NEW state, End(where, state),
         state.id # None =>
           /\ built'[state.id] # None => Shows(state.attrs) /\ ~state.tainted
           /\ ~state.tainted => state.attrs.place = peerings'[state.id].attrs.place
  PROVE  StandInv'
<1>1. StateStands'
  BY DEF StateStands, End, Shows
<1>2. CreateStands' /\ UpdateStands' /\ DeleteUnwanted'
  BY NullRecords DEF CreateStands, UpdateStands, DeleteUnwanted, End
<1>3. QED
  BY <1>1, <1>2 DEF StandInv

\* The state an error leaves: a create is tainted, an update says what the peering shows.
LEMMA FailStands ==
  ASSUME Inv, StandInv, Kept, d.op # "none", Fail
  PROVE  StandInv'
<1> DEFINE s == StateAfterError
<1>1. BuiltLess /\ UNCHANGED built /\ End("idle", s)
  BY DEF Fail, BuiltLess
<1>2. BuiltStands'
  BY <1>1, BuiltStandsOn DEF StandInv
<1>3. /\ d.op \in {"create", "update", "delete"}
      /\ d.op = "update" => d.id # None
      /\ tf.id # None => tf.id \in Ids /\ Referred(tf.id)
      /\ d.id # None => d.id \in Ids /\ Referred(d.id)
  BY DEF Inv, Control, Typed, TypeOK, Referred, Handler
<1>4. CASE d.op = "create" /\ d.id = None
  BY <1>1, <1>2, <1>4, ErrorStates, NullRecords, EndStands
<1>5. CASE d.op = "create" /\ d.id # None
  <2>1. s.id = d.id /\ s.tainted
    BY <1>5, ErrorStates
  <2>2. built[d.id] = None
    BY <1>5 DEF StandInv, CreateStands
  <2>3. QED
    BY <1>1, <1>2, <2>1, <2>2, EndStands
<1>6. CASE d.op = "update"
  <2>1. s.id = d.id /\ s.attrs = d.new /\ ~s.tainted
    BY <1>6, ErrorStates
  <2>2. /\ d.new.place = peerings'[d.id].attrs.place
        /\ built[d.id] # None => Shows(d.new)
    BY <1>3, <1>6 DEF StandInv, UpdateStands, Kept
  <2>3. QED
    BY <1>1, <1>2, <2>1, <2>2, EndStands
<1>7. CASE d.op = "delete"
  <2>1. s = tf
    BY <1>7, ErrorStates
  <2>2. tf.id # None =>
           /\ built[tf.id] # None => Shows(tf.attrs) /\ ~tf.tainted
           /\ ~tf.tainted => tf.attrs.place = peerings'[tf.id].attrs.place
    BY <1>3 DEF StandInv, StateStands, Kept
  <2>3. QED
    BY <1>1, <1>2, <2>1, <2>2, EndStands
<1>8. QED
  BY <1>3, <1>4, <1>5, <1>6, <1>7

\* What a read leaves in the state says what the peering shows.
LEMMA StateReadStands ==
  ASSUME Inv, BuiltStands, NEW id \in Ids, Exists(id), NEW tainted \in BOOLEAN,
         built[id] # None => ~tainted,
         StateRead(id, tainted).id # None
  PROVE  /\ StateRead(id, tainted).id = id
         /\ built[id] # None => Shows(StateRead(id, tainted).attrs)
                                /\ ~StateRead(id, tainted).tainted
         /\ StateRead(id, tainted).attrs.place = peerings[id].attrs.place
  BY StateReadTyped DEF Inv, BuiltStands, Known, Shows

\* Terraform's own steps: a plan deletes what it does not find as the user wants it.
LEMMA RefreshStands == Inv /\ StandInv /\ Refresh => StandInv'
<1> SUFFICES ASSUME Inv, StandInv, Refresh PROVE StandInv'
  OBVIOUS
<1>1. /\ UNCHANGED <<cfg, peerings, d, built>> /\ pc' \in {"idle", "plan"}
      /\ d.op = "none" /\ tf.tainted \in BOOLEAN
      /\ tf.id # None => tf.id \in Ids /\ Exists(tf.id)
  BY DEF Refresh, Inv, Control, Typed, TypeOK
<1>2. CASE UNCHANGED tf
  BY <1>1, <1>2 DEF StandInv, BuiltStands, StateStands, CreateStands, UpdateStands,
     DeleteUnwanted, Alive, Known
<1>3. CASE tf.id # None /\ tf' = StateRead(tf.id, tf.tainted)
  <2>1. built[tf.id] # None => ~tf.tainted
    BY <1>3 DEF StandInv, StateStands
  <2>2. StateStands'
    BY <1>1, <1>3, <2>1, StateReadStands DEF StandInv, StateStands, Shows
  <2>3. QED
    BY <1>1, <2>2 DEF StandInv, BuiltStands, CreateStands, UpdateStands, DeleteUnwanted, Alive,
       Known
<1>4. QED
  BY <1>2, <1>3 DEF Refresh

LEMMA ImportStands == ASSUME NEW id \in Ids, Inv, StandInv, Import(id) PROVE StandInv'
<1>1. /\ UNCHANGED <<cfg, peerings, d, built>> /\ pc' = "idle" /\ d.op = "none"
      /\ Exists(id) /\ tf' = StateRead(id, FALSE)
  BY DEF Import, Inv, Control, Exists
<1>2. StateStands'
  BY <1>1, StateReadStands DEF StandInv, StateStands, Shows
<1>3. QED
  BY <1>1, <1>2 DEF StandInv, BuiltStands, CreateStands, UpdateStands, DeleteUnwanted, Alive, Known

LEMMA PlanStands == Inv /\ StandInv /\ Plan => StandInv'
<1> SUFFICES ASSUME Inv, StandInv, Plan PROVE StandInv'
  OBVIOUS
<1>1. /\ UNCHANGED <<cfg, tf, peerings, built>>
      /\ cfg # Absent => cfg.place \in Places
      /\ tf.id # None => tf.id \in Ids /\ tf.attrs \in Attrs
      /\ built \in [Ids -> Places \union {None}]
  BY ConfigAssumption DEF Plan, Inv, Typed, TypeOK, Config
<1>2. BuiltStands' /\ StateStands'
  BY <1>1 DEF StandInv, BuiltStands, StateStands, Alive, Known, Shows
<1>3. CASE d'.op \in {"none", "create"} /\ d'.id = None /\ pc' \in {"idle", "create"}
  BY <1>2, <1>3 DEF StandInv, CreateStands, UpdateStands, DeleteUnwanted
<1>4. CASE MustDelete /\ pc' = "delete" /\ d' = [op |-> "delete", id |-> tf.id, new |-> None]
  <2>1. cfg = Absent \/ built[tf.id] = None \/ cfg.place # built[tf.id] \/ Misnamed
    <3> SUFFICES ASSUME cfg # Absent, built[tf.id] # None, cfg.place = built[tf.id],
                        AsCreated[cfg.place] = cfg.place
                 PROVE  FALSE
      BY DEF Misnamed
    <3>1. tf.id # None /\ (tf.tainted \/ cfg.place # tf.attrs.place)
      BY <1>4 DEF MustDelete
    <3>2. ~tf.tainted /\ tf.attrs.place = peerings[tf.id].attrs.place
      BY <3>1 DEF StandInv, StateStands
    <3>3. peerings[tf.id].attrs.place = AsCreated[built[tf.id]]
      BY <1>1, <3>1 DEF StandInv, BuiltStands
    <3>4. QED
      BY <3>1, <3>2, <3>3
  <2>2. DeleteUnwanted'
    BY <1>1, <1>4, <2>1 DEF DeleteUnwanted, Misnamed
  <2>3. QED
    BY <1>2, <1>4, <2>2 DEF StandInv, CreateStands, UpdateStands
<1>5. CASE /\ tf.id # None /\ ~MustDelete /\ pc' = "update"
           /\ d' = [op |-> "update", id |-> tf.id, new |-> [tf.attrs EXCEPT !.name = cfg.name]]
  <2>1. ~tf.tainted /\ tf.attrs.place = peerings[tf.id].attrs.place
    BY <1>5 DEF MustDelete, StandInv, StateStands
  <2>2. d'.op = "update" /\ d'.id = tf.id /\ d'.new = [tf.attrs EXCEPT !.name = cfg.name]
    BY <1>5
  <2>3. d'.new.place = tf.attrs.place /\ d'.new.meta = tf.attrs.meta
    BY <1>1, <1>5, <2>2 DEF Attrs, AttrsAt
  <2>4. built[tf.id] # None => Shows(tf.attrs)
    BY <1>5 DEF StandInv, StateStands
  <2>5. Shows(tf.attrs) => d'.new.meta \/ ProviderOf[d'.new.place] = "azure"
    <3>1. tf.attrs.meta => d'.new.meta
      BY <2>3, Zenon
    <3>2. QED
      BY <2>3, <3>1 DEF Shows
  <2>6. UpdateStands'
    BY <1>1, <2>1, <2>2, <2>3, <2>4, <2>5 DEF UpdateStands, Shows
  <2>7. QED
    BY <1>2, <1>5, <2>2, <2>6 DEF StandInv, CreateStands, DeleteUnwanted
<1>6. QED
  BY <1>3, <1>4, <1>5, NullRecords DEF Plan

\* What is created is new, and not a success yet.
LEMMA CreateStandsOn == Inv /\ Kept /\ StandInv /\ Create => StandInv'
<1> SUFFICES ASSUME Inv, Kept, StandInv, Create PROVE StandInv'
  OBVIOUS
<1>1. d.op = "create" /\ d.id = None /\ tf.id = None /\ d.new \in Attrs /\ d \in ResourceData
  BY DEF Create, Inv, Control, Typed, TypeOK, Handler, ResourceData
<1>2. ASSUME NEW id \in FreshIds, Provision(id), d' = [d EXCEPT !.id = id],
             StartWait("initiated", "read")
      PROVE  StandInv'
  <2>1. /\ UNCHANGED <<cfg, tf, built>> /\ pc' = "get" /\ BuiltLess
        /\ d'.op = "create" /\ d'.id = id /\ d'.new = d.new
    BY <1>1, <1>2 DEF StartWait, BuiltLess, ResourceData
  <2>2. id \in Ids /\ id \notin {tf.id, d.id} /\ built[id] = None
    BY <1>1, NoneIsNoId DEF FreshIds, StandInv, BuiltStands, Alive
  <2>3. /\ AliveNext(id) /\ ~peerings'[id].doomed
        /\ peerings'[id].attrs.place = AsCreated[d.new.place]
    BY <1>1, <1>2, <2>2, ProvisionKept DEF Inv
  <2>4. BuiltStands'
    BY <2>1, BuiltStandsOn DEF StandInv
  <2>5. CreateStands'
    BY <2>1, <2>2, <2>3 DEF CreateStands, Alive, AliveNext
  <2>6. StateStands' /\ UpdateStands' /\ DeleteUnwanted'
    BY <1>1, <2>1 DEF StateStands, UpdateStands, DeleteUnwanted
  <2>7. QED
    BY <2>4, <2>5, <2>6 DEF StandInv
<1>3. QED
  BY <1>1, <1>2, FailStands DEF Create

\* The reads: the one at the end of Create makes a peering a success.
LEMMA ReadStands == Inv /\ Kept /\ StandInv /\ (ReadCheckDefunct \/ Reread) => StandInv'
<1> SUFFICES ASSUME Inv, Kept, StandInv, ReadCheckDefunct \/ Reread PROVE StandInv'
  OBVIOUS
<1>1. /\ d.op # "none" /\ d.id \in Ids /\ d.id # None /\ Exists(d.id) /\ UNCHANGED peerings
      /\ pc = "read" => d.op = "create" /\ d.new.place \in Places
      /\ built \in [Ids -> Places \union {None}]
  BY DEF ReadCheckDefunct, Reread, Inv, Control, Typed, TypeOK, Handler, Attrs, AttrsAt
<1>2. ASSUME pc = "read", Readable(d.id), End("idle", StateRead(d.id, ~Readable(d.id))),
             built' = [built EXCEPT ![d.id] = d.new.place]
      PROVE  StandInv'
  <2>1. /\ Alive(d.id) /\ Known(d.id) /\ peerings[d.id].attrs.place = AsCreated[d.new.place]
    BY <1>1, <1>2 DEF StandInv, CreateStands
  <2>2. \A i \in Ids : built'[i] = IF i = d.id THEN d.new.place ELSE built[i]
    BY <1>1, <1>2
  <2>3. BuiltStands'
    BY <1>1, <2>1, <2>2 DEF StandInv, BuiltStands, Alive, Known
  <2>4. StateRead(d.id, FALSE).id # None =>
          /\ Shows(StateRead(d.id, FALSE).attrs) /\ ~StateRead(d.id, FALSE).tainted
          /\ StateRead(d.id, FALSE).id = d.id
          /\ StateRead(d.id, FALSE).attrs.place = peerings[d.id].attrs.place
    BY <1>1, <2>1, StateReadTyped DEF Inv, Known, Shows
  <2>5. End("idle", StateRead(d.id, FALSE))
    BY <1>2
  <2>6. QED
    BY <1>1, <2>3, <2>4, <2>5, EndStands
<1>3. ASSUME NEW tainted \in BOOLEAN, built[d.id] # None => ~tainted,
             End("idle", StateRead(d.id, tainted)), UNCHANGED built
      PROVE  StandInv'
  <2>1. BuiltStands'
    BY <1>1, <1>3 DEF StandInv, BuiltStands, Alive, Known
  <2>2. QED
    BY <1>1, <1>3, <2>1, StateReadStands, EndStands DEF StandInv
<1>4. CASE pc = "read" /\ End("idle", StateRead(d.id, ~Readable(d.id)))
           /\ UNCHANGED built
  <2>1. built[d.id] = None
    BY <1>1, <1>4 DEF StandInv, CreateStands
  <2>2. QED
    BY <1>3, <1>4, <2>1
<1>5. CASE End("idle", StateRead(d.id, FALSE)) /\ UNCHANGED built
  BY <1>3, <1>5
<1>6. QED
  BY <1>1, <1>2, <1>4, <1>5, FailStands DEF ReadCheckDefunct, Reread

\* Update and Delete go on, fail or return without the peering.
LEMMA UpdateStandsOn == Inv /\ Kept /\ StandInv /\ (Update \/ Delete) => StandInv'
<1> SUFFICES ASSUME Inv, Kept, StandInv, Update \/ Delete PROVE StandInv'
  OBVIOUS
<1>1. d.op # "none"
  BY DEF Update, Delete, Inv, Control, Handler
<1>2. CASE Goto("reread") /\ UNCHANGED d
  BY <1>2, GoesOnStands DEF Goto, BuiltLess
<1>3. CASE StartWait("deleted", "gone") /\ UNCHANGED d
  BY <1>3, GoesOnStands DEF StartWait, BuiltLess
<1>4. QED
  BY <1>1, <1>2, <1>3, FailStands DEF Update, Delete

LEMMA EndingStands ==
  Inv /\ Kept /\ StandInv /\ (DeleteReturns \/ Panic \/ Crash) => StandInv'
<1> SUFFICES ASSUME Inv, Kept, StandInv, DeleteReturns \/ Panic \/ Crash PROVE StandInv'
  OBVIOUS
<1>1. UNCHANGED <<peerings, built>>
  BY DEF DeleteReturns, Panic, Crash
<1>2. BuiltStands'
  BY <1>1, BuiltStandsOn DEF StandInv, BuiltLess
<1>3. tf.id # None =>
         /\ built'[tf.id] # None => Shows(tf.attrs) /\ ~tf.tainted
         /\ ~tf.tainted => tf.attrs.place = peerings'[tf.id].attrs.place
  BY <1>1 DEF StandInv, StateStands
<1>4. CASE DeleteReturns
  BY <1>2, <1>4, NullRecords, EndStands DEF DeleteReturns
<1>5. CASE Panic \/ Crash
  BY <1>2, <1>3, <1>5, EndStands DEF Panic, Crash
<1>6. QED
  BY <1>4, <1>5

\* A wait that is reached has seen the metadata.
LEMMA WaitStands == Inv /\ Kept /\ StandInv /\ (WaitGet \/ WaitSleep) => StandInv'
<1> SUFFICES ASSUME Inv, Kept, StandInv, WaitGet \/ WaitSleep PROVE StandInv'
  OBVIOUS
<1>1. /\ pc \in Waiting /\ d.op \in {"create", "delete"} /\ d \in ResourceData
      /\ UNCHANGED peerings
      /\ d.op = "create" => wait.state = "initiated" /\ d.new \in Attrs
      /\ d.op = "delete" => wait.then = "gone"
      /\ wait.then \in {"read", "gone"}
  BY DEF WaitGet, WaitSleep, Inv, Control, Typed, TypeOK, Handler, Waiting, ResourceData
<1>2. CASE Fail
  BY <1>1, <1>2, FailStands
<1>3. CASE Goto("panic") /\ UNCHANGED d
  BY <1>3, GoesOnStands DEF Goto, BuiltLess
<1>4. CASE Goto("sleep") /\ UNCHANGED d
  BY <1>4, GoesOnStands DEF Goto, BuiltLess
<1>5. CASE WaitSleep
  BY <1>5, GoesOnStands DEF WaitSleep, BuiltLess
<1>6. CASE Reached /\ WaitReturns /\ d.op = "create"
  <2>1. KnownNext(d.id)
    BY <1>1, <1>6 DEF Reached, KnownNext
  <2>2. /\ d'.op = d.op /\ d'.id = d.id /\ d'.new.place = d.new.place
        /\ UNCHANGED <<cfg, tf, built>> /\ pc' = wait.then
    BY <1>1, <1>6 DEF WaitReturns, Goto, ResourceData, Attrs, AttrsAt
  <2>3. QED
    BY <1>1, <1>6, <2>1, <2>2, GoesOnStands DEF BuiltLess
<1>7. CASE WaitReturns /\ d.op = "delete"
  <2>1. UNCHANGED <<cfg, tf, d, built>> /\ pc' = "gone"
    BY <1>1, <1>7 DEF WaitReturns, Goto
  <2>2. QED
    BY <2>1, GoesOnStands DEF BuiltLess
<1>8. QED
  BY <1>1, <1>2, <1>3, <1>4, <1>5, <1>6, <1>7 DEF WaitGet, WaitFails

\* StandInv always holds.
LEMMA StandInvariance == Spec => []StandInv
<1>1. Init => StandInv
  BY NullRecords DEF Init, StandInv, BuiltStands, StateStands, CreateStands, UpdateStands,
     DeleteUnwanted
<1>2. Inv /\ StandInv /\ [Next]_vars => StandInv'
  <2> SUFFICES ASSUME Inv, StandInv, [Next]_vars PROVE StandInv'
    OBVIOUS
  <2>1. Kept
    BY NextKept
  <2>2. CASE UNCHANGED vars \/ Expire \/ Calm
    BY <2>1, <2>2, GoesOnStands DEF vars, Expire, Calm, BuiltLess
  <2>3. CASE Edit
    BY <2>3 DEF Edit, StandInv, BuiltStands, StateStands, CreateStands, UpdateStands,
       DeleteUnwanted, Alive, Known, Shows
  <2>4. ASSUME NEW id \in Ids, Api(id) \/ Accept(id) \/ Break(id) PROVE StandInv'
    <3>1. UNCHANGED <<cfg, tf, pc, d>> /\ BuiltLess
      BY <2>4, ApiOnly DEF Inv
    <3>2. QED
      BY <2>1, <3>1, GoesOnStands
  <2>5. QED
    BY <2>1, <2>2, <2>3, <2>4, RefreshStands, ImportStands, PlanStands, CreateStandsOn, ReadStands,
       UpdateStandsOn, EndingStands, WaitStands DEF Next, Step
<1>3. QED
  BY <1>1, <1>2, Invariance, PTL DEF Spec

\* The state of a peering whose creation succeeded has the metadata of its remote end.
THEOREM MetadataStays == Spec => []MetadataKnown
<1>1. StandInv => MetadataKnown
  BY DEF StandInv, StateStands, MetadataKnown, Shows
<1>2. QED
  BY <1>1, StandInvariance, PTL

\* A peering whose creation succeeded is destroyed only when the user wants it so, or
\* misnames its provider.
THEOREM DestroyedOnDemand == Spec => OnlyUnwantedDestroyed
<1>1. Inv /\ StandInv /\ [Next]_vars =>
        [\A id \in Ids :
           Destroyed(id) => cfg = Absent \/ cfg.place # built[id] \/ Misnamed]_vars
  <2> SUFFICES ASSUME Inv, StandInv, [Next]_vars, NEW id \in Ids, Destroyed(id)
               PROVE  cfg = Absent \/ cfg.place # built[id] \/ Misnamed
    OBVIOUS
  <2>1. built[id] # None /\ ~peerings[id].doomed /\ peerings'[id].doomed
    BY DEF Destroyed
  <2>2. Referred(id)
    BY <2>1 DEF StandInv, BuiltStands, Referred
  <2>3. pc = "delete" /\ id = d.id
    BY <2>1, <2>2, NextKept DEF Kept
  <2>4. QED
    BY <2>1, <2>3 DEF StandInv, DeleteUnwanted
<1>2. QED
  BY <1>1, Invariance, StandInvariance, PTL DEF Spec, OnlyUnwantedDestroyed

-----------------------------------------------------------------------------
(***************************************************************************)
(* The waits implement Polling.                                            *)
(***************************************************************************)
WaitPhase ==
  IF pc \in {"get", "sleep"} THEN "waiting"
  ELSE IF pc = "panic" \/ wait = NoWait THEN "idle" ELSE "reached"

WaitGoal == IF WaitPhase = "idle" THEN "none" ELSE wait.state

Waits == INSTANCE Polling WITH
  NoGoal <- "none", Failures <- {"defunct"},
  phase <- WaitPhase,
  want <- WaitGoal,
  shown <- IF d.id = None THEN "none" ELSE Seen,
  trouble <- expired \/ ~calm

PollStep == [Waits!Next]_<<WaitPhase, WaitGoal>>

\* The phase is that of the place and of the wait, and nothing else.
LEMMA PhaseKept ==
  ASSUME UNCHANGED wait, pc \in {"get", "sleep"} <=> pc' \in {"get", "sleep"},
           pc = "panic" <=> pc' = "panic"
  PROVE  PollStep
  BY DEF PollStep, WaitPhase, WaitGoal

\* The end of a handler leaves a wait that was reached, or gives one up with a reason.
LEMMA EndPolls ==
  ASSUME Inv, NEW where \in {"idle", "plan"}, NEW state, End(where, state),
         pc \in {"get", "sleep"} => expired \/ ~calm \/ Seen \in {"defunct"}
  PROVE  PollStep
<1>1. WaitPhase' = "idle" /\ WaitGoal' = "none"
  BY DEF End, WaitPhase, WaitGoal
<1>2. CASE pc \in {"get", "sleep"}
  <2>1. WaitPhase = "waiting" /\ d.id # None
    BY <1>2 DEF WaitPhase, Inv, Control, Handler, Waiting
  <2>2. QED
    BY <1>1, <1>2, <2>1 DEF PollStep, Waits!Next, Waits!GiveUp
<1>3. CASE pc \notin {"get", "sleep"}
  <2>1. WaitPhase \in {"idle", "reached"}
    BY <1>3 DEF WaitPhase
  <2>2. QED
    BY <1>1, <2>1 DEF PollStep, Waits!Next, Waits!Leave, WaitGoal
<1>4. QED
  BY <1>2, <1>3

\* A handler that does not wait may fail.
LEMMA FailPolls == Inv /\ pc \notin {"get", "sleep"} /\ Fail => PollStep
  BY EndPolls DEF Fail

\* A wait begins with a state to wait for, and not in the middle of another.
LEMMA StartWaitPolls ==
  ASSUME pc \notin {"get", "sleep"}, NEW state \in {"initiated", "available", "deleted"}, NEW then,
         StartWait(state, then)
  PROVE  PollStep
<1>1. WaitPhase # "waiting"
  BY DEF WaitPhase
<1>2. WaitPhase' = "waiting" /\ WaitGoal' # "none"
  BY DEF StartWait, WaitPhase, WaitGoal
<1>3. QED
  BY <1>1, <1>2 DEF PollStep, Waits!Next, Waits!Begin

\* A wait that fails ends the operation, or the panic of a delete does.
LEMMA WaitFailsPolls ==
  ASSUME Inv, pc = "get", WaitFails, expired \/ ~calm \/ Seen = "defunct"
  PROVE  PollStep
<1>1. CASE Fail
  BY <1>1, EndPolls DEF Fail
<1>2. CASE Goto("panic")
  <2>1. WaitPhase = "waiting" /\ WaitPhase' = "idle" /\ WaitGoal' = "none" /\ d.id # None
    BY <1>2 DEF Goto, WaitPhase, WaitGoal, Inv, Control, Handler, Waiting
  <2>2. QED
    BY <2>1 DEF PollStep, Waits!Next, Waits!GiveUp
<1>3. QED
  BY <1>1, <1>2 DEF WaitFails

\* A poll reaches the state, fails with a reason or goes on polling.
LEMMA WaitGetPolls == Inv /\ WaitGet => PollStep
<1> SUFFICES ASSUME Inv, WaitGet PROVE PollStep
  OBVIOUS
<1>1. /\ pc = "get" /\ WaitPhase = "waiting" /\ WaitGoal = wait.state /\ d.id # None
      /\ wait # NoWait /\ wait.then \in {"read", "gone"}
  BY DEF WaitGet, WaitPhase, WaitGoal, Inv, Control, Handler, NoWait, Waiting
<1>2. CASE Reached /\ WaitReturns
  <2>1. WaitPhase' = "reached" /\ WaitGoal' = wait.state /\ Seen = wait.state
    BY <1>1, <1>2 DEF Reached, WaitReturns, Goto, WaitPhase, WaitGoal
  <2>2. QED
    BY <1>1, <2>1 DEF PollStep, Waits!Next, Waits!Reach
<1>3. CASE Goto("sleep")
  BY <1>1, <1>3, PhaseKept DEF Goto
<1>4. CASE (MayFail \/ GiveUp) /\ WaitFails
  BY <1>1, <1>4, WaitFailsPolls DEF GiveUp, MayFail
<1>5. QED
  BY <1>2, <1>3, <1>4 DEF WaitGet

\* A sleep is part of the wait.
LEMMA WaitSleepPolls == Inv /\ WaitSleep => PollStep
<1> SUFFICES ASSUME Inv, WaitSleep PROVE PollStep
  OBVIOUS
<1>1. wait'.state = wait.state
  BY DEF WaitSleep, Inv, Typed, TypeOK
<1>2. QED
  BY <1>1 DEF WaitSleep, PollStep, WaitPhase, WaitGoal

\* A wait for a peering succeeds only when the status asked for is shown, and is given up only on a
\* defunct peering, an error or the end of its time.
THEOREM WaitsArePolls == Spec => Waits!Spec
<1>1. Init => Waits!Init
  BY DEF Init, Waits!Init, WaitPhase, WaitGoal
<1>2. Inv /\ [Next]_vars => [Waits!Next]_<<WaitPhase, WaitGoal>>
  <2> SUFFICES ASSUME Inv, [Next]_vars PROVE PollStep
    BY DEF PollStep
  <2>1. CASE UNCHANGED vars \/ Edit \/ Refresh \/ Plan \/ Expire \/ Calm \/ \E id \in Ids : Import(id)
    BY <2>1, PhaseKept DEF vars, Edit, Refresh, Plan, Expire, Calm, Import
  <2>2. CASE Create
    BY <2>2, StartWaitPolls, FailPolls DEF Create
  <2>3. CASE ReadCheckDefunct \/ Reread \/ DeleteReturns \/ Panic
    BY <2>3, EndPolls, FailPolls DEF ReadCheckDefunct, Reread, DeleteReturns, Panic
  <2>4. CASE Update
    BY <2>4, PhaseKept, FailPolls DEF Update, Goto
  <2>5. CASE Delete
    BY <2>5, StartWaitPolls, FailPolls DEF Delete
  <2>6. CASE Crash
    BY <2>6, EndPolls DEF Crash
  <2>7. ASSUME NEW id \in Ids, Api(id) \/ Accept(id) \/ Break(id) PROVE PollStep
    BY <2>7, ApiOnly, PhaseKept DEF Inv
  <2>8. QED
    BY <2>1, <2>2, <2>3, <2>4, <2>5, <2>6, <2>7, WaitGetPolls, WaitSleepPolls DEF Next, Step
<1>3. QED
  BY <1>1, <1>2, Invariance, PTL DEF Spec, Waits!Spec
=============================================================================
