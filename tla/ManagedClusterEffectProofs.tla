--------------------- MODULE ManagedClusterEffectProofs ---------------------
(***************************************************************************)
(* Proofs about what the operations of ManagedCluster bring about: what    *)
(* they destroy, what a success means, and what the disk command may ask   *)
(* for.  They rest on the invariant of ManagedClusterProofs.               *)
(***************************************************************************)
EXTENDS ManagedClusterProofs

(***************************************************************************)
(* Places.  A cluster never changes its place while it lives.  What an     *)
(* update asks for, the target and the state of a cluster that is not      *)
(* tainted have the same one; a create has it as the user wrote it.        *)
(***************************************************************************)
PlaceInv ==
  /\ \A i \in Ids : Exists(i) => clusters[i].target.place = clusters[i].attrs.place
  /\ tf.id # None /\ ~tf.tainted => tf.attrs.place = clusters[tf.id].attrs.place
  /\ d.op = "create" /\ d.id # None => clusters[d.id].attrs.place = LowerCase[d.new.place]
  /\ d.op = "update" /\ d.id # None => d.new.place = clusters[d.id].attrs.place

\* What every step leaves of the clusters that something stands for, and of those that live.
PlacesKept ==
  \A i \in Ids :
    /\ i \in {tf.id, d.id} \/ Alive(i) =>
         ExistsNext(i) /\ clusters'[i].attrs.place = clusters[i].attrs.place
    /\ ExistsNext(i) => clusters'[i].target.place = clusters'[i].attrs.place
    /\ Alive(i) /\ ~AliveNext(i) => built'[i] = None

\* A step that leaves the clusters alone keeps the places.
LEMMA SamePlaces == Typed /\ PlaceInv /\ UNCHANGED clusters => PlacesKept
  BY NoneIsNoId
  DEF Typed, PlaceInv, PlacesKept, Exists, ExistsNext, Alive, AliveNext

\* A command whose target has the cluster's place keeps the places.
LEMMA BeginPlaces ==
  ASSUME Typed, PlaceInv, NEW id \in Ids, Exists(id), NEW t \in ApiAttrs,
         t.place = clusters[id].attrs.place, Begin(id, t)
  PROVE  PlacesKept
<1>1. /\ clusters'[id].status = "updating"
      /\ clusters'[id].target = t /\ clusters'[id].attrs = clusters[id].attrs
  BY DEF Typed, TypeOK, Begin, Cluster
<1>2. \A i \in Ids \ {id} : clusters'[i] = clusters[i]
  BY DEF Typed, TypeOK, Begin
<1>3. QED
  BY <1>1, <1>2, NoneIsNoId
  DEF Typed, PlaceInv, PlacesKept, Exists, ExistsNext, Alive, AliveNext

\* New attributes at the same place keep the places.
LEMMA MetaPlaces ==
  ASSUME Typed, PlaceInv, NEW id \in Ids, NEW a \in ApiAttrs,
         Exists(id), a.place = clusters[id].attrs.place,
         clusters' = [clusters EXCEPT ![id].attrs = a]
  PROVE  PlacesKept
<1>1. /\ clusters'[id].status = clusters[id].status
      /\ clusters'[id].attrs = a /\ clusters'[id].target = clusters[id].target
  BY DEF Typed, TypeOK, Cluster
<1>2. \A i \in Ids \ {id} : clusters'[i] = clusters[i]
  BY DEF Typed, TypeOK
<1>3. QED
  BY <1>1, <1>2, NoneIsNoId
  DEF Typed, PlaceInv, PlacesKept, Exists, ExistsNext, Alive, AliveNext

\* A request to delete keeps the places.
LEMMA DoomPlaces ==
  ASSUME Typed, PlaceInv, NEW id \in Ids, Exists(id), Doom(id)
  PROVE  PlacesKept
<1>1. /\ clusters'[id].status \in {"defunct", "deleting"}
      /\ clusters'[id].target = clusters[id].target /\ clusters'[id].attrs = clusters[id].attrs
  BY DEF Typed, TypeOK, Doom, Cluster
<1>2. \A i \in Ids \ {id} : clusters'[i] = clusters[i]
  BY DEF Typed, TypeOK, Doom
<1>3. QED
  BY <1>1, <1>2, NoneIsNoId
  DEF Typed, PlaceInv, PlacesKept, Exists, ExistsNext, Alive, AliveNext

\* A new cluster is where the request says, in lower case; no operation had its id.
LEMMA ProvisionPlaces ==
  ASSUME Typed, PlaceInv, NEW id \in FreshIds, d.new \in Attrs, id \notin {tf.id, d.id},
         Provision(id)
  PROVE  /\ PlacesKept /\ ExistsNext(id)
         /\ clusters'[id].attrs.place = LowerCase[d.new.place]
<1>1. id \in Ids /\ ~Alive(id)
  BY DEF FreshIds, Alive
<1>2. clusters'[id] =
        [status |-> "provisioning", job |-> "create", attrs |-> Requested, target |-> Requested]
  BY <1>1 DEF Typed, TypeOK, Provision
<1>3. \A i \in Ids \ {id} : clusters'[i] = clusters[i]
  BY DEF Typed, TypeOK, Provision
<1>4. Requested.place = LowerCase[d.new.place]
  BY DEF Requested, Attrs, AttrsAt
<1>5. QED
  BY <1>1, <1>2, <1>3, <1>4, NoneIsNoId
  DEF Typed, PlaceInv, PlacesKept, Exists, ExistsNext, Alive, AliveNext

\* The API's own steps keep the places.
LEMMA ApiStepPlaces ==
  ASSUME Typed, PlaceInv, NEW id \in Ids, Finish(id) \/ Break(id)
  PROVE  PlacesKept
<1>0. clusters \in [Ids -> Cluster] /\ built \in [Ids -> Places \union {None}]
  BY DEF Typed, TypeOK
<1>1. Exists(id)
  BY DEF Typed, Finish, Break, Exists
<1>2. /\ clusters'[id].status # "none" /\ clusters'[id].target = clusters[id].target
      /\ clusters'[id].attrs = clusters[id].attrs \/ clusters'[id].attrs = clusters[id].target
      /\ clusters'[id].status = "deleted" => built'[id] = None
  <2>1. CASE Finish(id)
    BY <1>0, <1>1, <2>1 DEF Finish, Cluster, Exists
  <2>2. CASE Break(id)
    BY <1>0, <2>2 DEF Break, Cluster
  <2>3. QED
    BY <2>1, <2>2
<1>3. \A i \in Ids \ {id} : clusters'[i] = clusters[i]
  BY <1>0 DEF Finish, Break
<1>4. QED
  BY <1>1, <1>2, <1>3, NoneIsNoId
  DEF Typed, PlaceInv, PlacesKept, Exists, ExistsNext, Alive, AliveNext

\* The phases of Update keep the places: every target is made from the cluster's attributes.
LEMMA UpdatePlaces ==
  Inv /\ PlaceInv /\ (UpdateMeta \/ Resize \/ Upgrade \/ ExpandDisk) => PlacesKept
<1> SUFFICES ASSUME Inv, PlaceInv, UpdateMeta \/ Resize \/ Upgrade \/ ExpandDisk
             PROVE  PlacesKept
  OBVIOUS
<1>1. pc \in Phases
  BY DEF UpdateMeta, Resize, Upgrade, ExpandDisk, Phases
<1>2. d.id \in Ids /\ Exists(d.id) /\ d.new \in Attrs /\ clusters[d.id].attrs \in ApiAttrs
  BY <1>1, PhaseFacts
<1>3. ASSUME NEW target \in ApiAttrs, NEW then, target.place = clusters[d.id].attrs.place,
             Command(target, then)
      PROVE  PlacesKept
  BY <1>2, <1>3, SamePlaces, BeginPlaces DEF Command, Inv
<1>4. /\ MetaTarget \in ApiAttrs /\ MetaTarget.place = clusters[d.id].attrs.place
      /\ ResizeTarget \in ApiAttrs /\ ResizeTarget.place = clusters[d.id].attrs.place
      /\ DiskTarget \in ApiAttrs /\ DiskTarget.place = clusters[d.id].attrs.place
  BY <1>2 DEF MetaTarget, ResizeTarget, DiskTarget, Attrs, ApiAttrs, AttrsAt
<1>5. ASSUME VersionOf[d.new.tag] = d.new.version
      PROVE  UpgradeTarget \in ApiAttrs /\ UpgradeTarget.place = clusters[d.id].attrs.place
  BY <1>2, <1>5 DEF UpgradeTarget, Attrs, ApiAttrs, AttrsAt
<1>6. CASE UNCHANGED clusters
  BY <1>6, SamePlaces DEF Inv
<1>7. CASE clusters' = [clusters EXCEPT ![d.id].attrs = MetaTarget]
  BY <1>2, <1>4, <1>7, MetaPlaces DEF Inv
<1>8. CASE UpdateMeta
  BY <1>3, <1>4, <1>6, <1>7, <1>8 DEF UpdateMeta, Skip
<1>9. QED
  BY <1>3, <1>4, <1>5, <1>6, <1>8 DEF Resize, Upgrade, ExpandDisk, Skip

\* No step moves a cluster to another place, or asks the API for one that would.
LEMMA NextPlaces == Inv /\ PlaceInv /\ [Next]_vars => PlacesKept
<1> SUFFICES ASSUME Inv, PlaceInv, [Next]_vars PROVE PlacesKept
  OBVIOUS
<1>1. CASE Create
  <2>1. d.new \in Attrs /\ \A id \in FreshIds : id \notin {tf.id, d.id}
    BY <1>1, NoneIsNoId DEF Create, Inv, Control, Typed, Handler, FreshIds
  <2>2. QED
    BY <1>1, <2>1, ProvisionPlaces, SamePlaces DEF Create, Inv
<1>2. CASE Delete
  <2>1. d.id \in Ids /\ Exists(d.id)
    BY <1>2 DEF Delete, Inv, Control, Typed, TypeOK, ResourceData, Handler
  <2>2. QED
    BY <1>2, <2>1, DoomPlaces, SamePlaces DEF Delete, Inv
<1>3. ASSUME NEW id \in Ids, Finish(id) \/ Break(id) PROVE PlacesKept
  BY <1>3, ApiStepPlaces DEF Inv
<1>4. ASSUME UNCHANGED clusters PROVE PlacesKept
  BY <1>4, SamePlaces DEF Inv
<1>5. CASE \/ UNCHANGED vars \/ Edit \/ Refresh \/ Plan \/ Read \/ DeleteReturns
           \/ WaitGet \/ WaitSleep \/ Expire \/ Calm \/ Crash
  BY <1>4, <1>5 DEF vars, Edit, Refresh, Plan, Read, DeleteReturns, WaitGet, WaitSleep, Expire,
     Calm, Crash
<1>6. ASSUME NEW id \in Ids, Import(id) PROVE PlacesKept
  BY <1>4, <1>6 DEF Import
<1>7. QED
  BY <1>1, <1>2, <1>3, <1>5, <1>6, UpdatePlaces DEF Next, Step

(***************************************************************************)
(* Within an operation a step goes on, with the same data, or fails.       *)
(***************************************************************************)
Onward ==
  /\ UNCHANGED <<cfg, tf, built>>
  /\ d'.op = d.op /\ d'.id = d.id /\ d'.old = d.old /\ d'.new = d.new /\ d'.overhang = d.overhang
  /\ pc' \notin {"idle", "plan", "create", "delete"}

\* No command, no wait and no phase without one loses the operation's data.
LEMMA HandlerSteps ==
  ASSUME Inv, UpdateMeta \/ Resize \/ Upgrade \/ ExpandDisk \/ Delete \/ WaitGet \/ WaitSleep
  PROVE  d.op # "none" /\ (Onward \/ Fail)
<1>1. d.op # "none" /\ d \in ResourceData
  BY DEF UpdateMeta, Resize, Upgrade, ExpandDisk, Delete, WaitGet, WaitSleep,
     Inv, Control, Typed, TypeOK, Handler, Phases, Waiting
<1>2. ASSUME NEW then \in Phases \union {"read", "gone", "sleep"}, Goto(then), UNCHANGED d
      PROVE  Onward
  BY <1>2 DEF Goto, Onward, Phases
<1>3. ASSUME NEW state, NEW then, StartWait(state, then), d' = d \/ d' = [d EXCEPT !.issued = TRUE]
      PROVE  Onward
  <2>1. /\ d'.op = d.op /\ d'.id = d.id /\ d'.old = d.old /\ d'.new = d.new
        /\ d'.overhang = d.overhang
    BY <1>1, <1>3 DEF ResourceData
  <2>2. QED
    BY <1>3, <2>1 DEF StartWait, Onward
<1>4. CASE UpdateMeta \/ Resize \/ Upgrade \/ ExpandDisk
  <2>1. ASSUME NEW target, NEW then, Command(target, then) PROVE Onward \/ Fail
    BY <1>3, <2>1 DEF Command
  <2>2. ASSUME NEW fields, NEW then \in Phases \union {"read"}, Skip(fields, then) PROVE Onward
    BY <1>2, <2>2 DEF Skip
  <2>3. QED
    BY <1>1, <1>2, <1>4, <2>1, <2>2 DEF UpdateMeta, Resize, Upgrade, ExpandDisk, Phases
<1>5. CASE Delete
  BY <1>1, <1>3, <1>5 DEF Delete
<1>6. CASE WaitGet
  <2>1. wait.then \in Phases \union {"read", "gone"}
    BY <1>6 DEF WaitGet, Inv, Control, Waiting
  <2>2. QED
    BY <1>1, <1>2, <1>6, <2>1 DEF WaitGet
<1>7. CASE WaitSleep
  BY <1>1, <1>7 DEF WaitSleep, Onward
<1>8. QED
  BY <1>1, <1>4, <1>5, <1>6, <1>7

-----------------------------------------------------------------------------
\* The end of an operation, in a state that stands for its cluster.
LEMMA EndPlaces ==
  ASSUME PlacesKept, NEW where, NEW state, End(where, state),
         state.id # None /\ ~state.tainted =>
           state.attrs.place = clusters'[state.id].attrs.place
  PROVE  PlaceInv'
  BY DEF End, NoData, PlaceInv, PlacesKept, Exists, ExistsNext

\* What is saved after an error stands for the cluster of the operation.
LEMMA FailPlaces ==
  ASSUME Inv, PlaceInv, PlacesKept, d.op # "none", Fail
  PROVE  PlaceInv'
<1>1. /\ d.id # None => d.id \in Ids /\ Exists(d.id)
      /\ tf.id # None => tf.id \in Ids /\ Exists(tf.id)
      /\ d.op \in {"create", "update", "delete"}
  BY DEF Inv, Typed, TypeOK, ResourceData, State
<1>2. /\ d.id # None /\ d.op = "update" => d.new.place = clusters'[d.id].attrs.place
      /\ tf.id # None /\ ~tf.tainted => tf.attrs.place = clusters'[tf.id].attrs.place
  BY <1>1 DEF PlaceInv, PlacesKept
<1>3. StateAfterError.id # None /\ ~StateAfterError.tainted =>
        StateAfterError.attrs.place = clusters'[StateAfterError.id].attrs.place
  <2>1. CASE d.op = "create" /\ d.id = None
    BY <2>1 DEF StateAfterError, NoState
  <2>2. CASE d.op = "create" /\ d.id # None
    <3>1. StateAfterError = [id |-> d.id, attrs |-> d.new, tainted |-> TRUE]
      BY <2>2 DEF StateAfterError
    <3>2. QED
      BY <3>1
  <2>3. CASE d.op = "update"
    <3>1. StateAfterError = [id |-> d.id, attrs |-> d.new, tainted |-> FALSE]
      BY <2>3 DEF StateAfterError
    <3>2. QED
      BY <1>2, <2>3, <3>1
  <2>4. CASE d.op = "delete"
    <3>1. StateAfterError = tf
      BY <2>4 DEF StateAfterError
    <3>2. QED
      BY <1>2, <3>1
  <2>5. QED
    BY <1>1, <2>1, <2>2, <2>3, <2>4
<1>4. QED
  BY <1>3, EndPlaces DEF Fail

\* A step that ends no operation.
LEMMA SamePlacesKept ==
  ASSUME Inv, PlaceInv, PlacesKept, UNCHANGED tf,
         d'.op = d.op, d'.id = d.id, d'.new = d.new
  PROVE  PlaceInv'
<1>1. /\ d.id # None => d.id \in Ids
      /\ tf.id # None => tf.id \in Ids
  BY DEF Inv, Typed, TypeOK, ResourceData, State
<1>2. QED
  BY <1>1 DEF PlaceInv, PlacesKept, Exists, ExistsNext

\* What a read saves stands for the cluster it read.
LEMMA StateReadPlace ==
  ASSUME NEW id, NEW tainted, StateRead(id, tainted).id # None
  PROVE  StateRead(id, tainted).attrs.place = clusters[StateRead(id, tainted).id].attrs.place
  BY DEF StateRead, NoState

\* A plan stays at the place of the cluster unless it replaces it.
LEMMA PlanPlaces == Inv /\ PlaceInv /\ (Plan \/ Refresh) => PlaceInv'
<1> SUFFICES ASSUME Inv, PlaceInv, Plan \/ Refresh PROVE PlaceInv'
  OBVIOUS
<1>1. CASE Refresh
  <2>1. UNCHANGED clusters /\ d'.op = "none"
    BY <1>1 DEF Refresh, NoData
  <2>2. tf'.id # None /\ ~tf'.tainted => tf'.attrs.place = clusters[tf'.id].attrs.place
    BY <1>1, StateReadPlace DEF Refresh, PlaceInv
  <2>3. QED
    BY <2>1, <2>2 DEF PlaceInv, Exists
<1>2. CASE Plan
  <2>1. UNCHANGED <<clusters, tf>> /\ d \in ResourceData /\ d.id = None
    BY <1>2 DEF Plan, Inv, Control, Typed, TypeOK
  <2>2. /\ d'.op = "update" /\ d'.id # None => d'.new.place = clusters[d'.id].attrs.place
        /\ d'.op = "create" => d'.id = None
    <3>1. CASE /\ tf.id # None /\ ~MustDelete
               /\ d' = [d EXCEPT !.op = "update", !.id = tf.id, !.old = tf.attrs, !.new = Planned]
      <4>1. cfg \in Attrs /\ cfg.place = tf.attrs.place /\ ~tf.tainted
        BY <3>1, ConfigAssumption DEF MustDelete, Inv, Typed, TypeOK
      <4>2. Planned.place = cfg.place
        BY <4>1 DEF Planned, Attrs, AttrsAt
      <4>3. QED
        BY <2>1, <3>1, <4>1, <4>2 DEF ResourceData, PlaceInv
    <3>2. CASE d' = NoData
      BY <3>2 DEF NoData
    <3>3. CASE d' = [d EXCEPT !.op = "create", !.new = cfg]
      BY <2>1, <3>3 DEF ResourceData
    <3>4. CASE d' = [d EXCEPT !.op = "delete", !.id = tf.id, !.old = tf.attrs]
      BY <2>1, <3>4 DEF ResourceData
    <3>5. QED
      BY <1>2, <3>1, <3>2, <3>3, <3>4 DEF Plan
  <2>3. QED
    BY <2>1, <2>2 DEF PlaceInv, Exists
<1>3. QED
  BY <1>1, <1>2

\* What stands for a cluster agrees with it about its place, but for what the user wrote.
LEMMA PlacesAgree == Spec => []PlaceInv
<1>1. Init => PlaceInv
  BY NullRecords DEF Init, PlaceInv, Exists
<1>2. Inv /\ PlaceInv /\ [Next]_vars => PlaceInv'
  <2> SUFFICES ASSUME Inv, PlaceInv, [Next]_vars PROVE PlaceInv'
    OBVIOUS
  <2>1. PlacesKept
    BY NextPlaces
  <2>2. CASE Edit \/ Expire \/ Calm \/ UNCHANGED vars
    BY <2>2 DEF Edit, Expire, Calm, vars, PlaceInv, Exists
  <2>3. CASE Create
    <3>1. d.op = "create" /\ d.new \in Attrs /\ d \in ResourceData /\ tf.id = None
      BY <2>3 DEF Create, Inv, Control, Typed, TypeOK, Handler
    <3>2. ASSUME NEW id \in FreshIds, Provision(id),
                 d' = [d EXCEPT !.id = id], StartWait("available", "read")
          PROVE  PlaceInv'
      <4>1. clusters'[id].attrs.place = LowerCase[d.new.place]
        <5>1. id \notin {tf.id, d.id}
          BY <2>3, <3>1, <3>2, NoneIsNoId DEF Inv, Control, Create, Handler, FreshIds
        <5>2. QED
          BY <3>1, <3>2, <5>1, ProvisionPlaces DEF Inv
      <4>2. d'.op = "create" /\ d'.id = id /\ d'.new = d.new /\ tf' = tf
        BY <3>1, <3>2 DEF ResourceData, StartWait
      <4>3. QED
        BY <2>1, <3>1, <4>1, <4>2 DEF PlaceInv, PlacesKept, Exists, ExistsNext
    <3>3. QED
      BY <2>1, <2>3, <3>1, <3>2, FailPlaces DEF Create
  <2>4. CASE Read
    <3>1. d.op # "none" /\ UNCHANGED clusters
      BY <2>4 DEF Read, Inv, Control, Handler
    <3>2. CASE End("idle", StateRead(d.id, FALSE))
      BY <2>1, <3>1, <3>2, StateReadPlace, EndPlaces
    <3>3. QED
      BY <2>1, <2>4, <3>1, <3>2, FailPlaces DEF Read
  <2>5. CASE DeleteReturns
    BY <2>1, <2>5, NullRecords, EndPlaces DEF DeleteReturns
  <2>6. CASE Crash
    BY <2>1, <2>6, EndPlaces DEF Crash, PlaceInv
  <2>7. CASE UpdateMeta \/ Resize \/ Upgrade \/ ExpandDisk \/ Delete \/ WaitGet \/ WaitSleep
    BY <2>1, <2>7, HandlerSteps, FailPlaces, SamePlacesKept DEF Onward
  <2>8. ASSUME NEW id \in Ids, Import(id) PROVE PlaceInv'
    BY <2>8, StateReadPlace DEF Import, PlaceInv, Exists
  <2>9. ASSUME NEW id \in Ids, Finish(id) \/ Break(id) PROVE PlaceInv'
    BY <2>1, <2>9, SamePlacesKept DEF Finish, Break
  <2>10. QED
    BY <2>2, <2>3, <2>4, <2>5, <2>6, <2>7, <2>8, <2>9, PlanPlaces DEF Next, Step
<1>3. QED
  BY <1>1, <1>2, Invariance, PTL DEF Spec

-----------------------------------------------------------------------------
(***************************************************************************)
(* What is destroyed.  A cluster whose creation succeeded exists, is never *)
(* tainted, and is up for deletion only when the user no longer wants it   *)
(* where it is.                                                            *)
(***************************************************************************)
Unwanted ==
  cfg = Absent \/ built[d.id] = None \/ cfg.place # built[d.id] \/ Capitals

DestroyInv ==
  /\ \A i \in Ids : built[i] # None =>
       Alive(i) /\ built[i] \in Places /\ clusters[i].attrs.place = LowerCase[built[i]]
  /\ d.op = "create" /\ d.id # None => built[d.id] = None
  /\ tf.id # None /\ tf.tainted => built[tf.id] = None
  /\ pc = "delete" => Unwanted

\* What was built is still where it was, unless it is gone.
LEMMA BuiltKept ==
  ASSUME Inv, DestroyInv, PlacesKept, UNCHANGED built
  PROVE  \A i \in Ids : built'[i] # None =>
           AliveNext(i) /\ built'[i] \in Places /\ clusters'[i].attrs.place = LowerCase[built'[i]]
  BY DEF DestroyInv, PlacesKept

\* A step within an operation, other than its beginning.
LEMMA OnwardDestroys ==
  ASSUME Inv, DestroyInv, PlacesKept, Onward
  PROVE  DestroyInv'
<1>1. UNCHANGED <<tf, built>> /\ pc' # "delete" /\ d'.op = d.op /\ d'.id = d.id
  BY DEF Onward
<1>2. QED
  BY <1>1, BuiltKept DEF DestroyInv, Alive, AliveNext

\* The end of an operation that taints no cluster but its own unfinished one.
LEMMA EndDestroys ==
  ASSUME Inv, DestroyInv, PlacesKept, NEW where \in {"idle", "plan"}, NEW state, End(where, state),
         UNCHANGED built, state.id # None /\ state.tainted => built[state.id] = None
  PROVE  DestroyInv'
<1>1. tf' = state /\ pc' # "delete" /\ d'.op = "none"
  BY NullRecords DEF End
<1>2. QED
  BY <1>1, BuiltKept DEF DestroyInv, Alive, AliveNext

\* An error taints only the cluster of a create, which has not succeeded yet.
LEMMA FailDestroys ==
  ASSUME Inv, DestroyInv, PlacesKept, d.op # "none", Fail
  PROVE  DestroyInv'
<1>1. StateAfterError.id # None /\ StateAfterError.tainted => built[StateAfterError.id] = None
  <2>1. CASE d.op = "create" /\ d.id = None
    BY <2>1 DEF StateAfterError, NoState
  <2>2. CASE d.op = "create" /\ d.id # None
    <3>1. StateAfterError = [id |-> d.id, attrs |-> d.new, tainted |-> TRUE]
      BY <2>2 DEF StateAfterError
    <3>2. QED
      BY <2>2, <3>1 DEF DestroyInv
  <2>3. CASE d.op = "update"
    <3>1. StateAfterError = [id |-> d.id, attrs |-> d.new, tainted |-> FALSE]
      BY <2>3 DEF StateAfterError
    <3>2. QED
      BY <3>1
  <2>4. CASE d.op = "delete"
    <3>1. StateAfterError = tf
      BY <2>4 DEF StateAfterError
    <3>2. QED
      BY <3>1 DEF DestroyInv
  <2>5. QED
    BY <2>1, <2>2, <2>3, <2>4 DEF Inv, Typed, TypeOK, ResourceData
<1>2. End("idle", StateAfterError) /\ UNCHANGED built
  BY DEF Fail
<1>3. QED
  BY <1>1, <1>2, EndDestroys

\* A plan deletes a cluster that was built for the user's sake only.
LEMMA PlanDestroys ==
  ASSUME Inv, PlaceInv, DestroyInv, Plan
  PROVE  DestroyInv'
<1>1. UNCHANGED <<cfg, tf, clusters, built>> /\ d \in ResourceData /\ d.op = "none"
  BY DEF Plan, Inv, Control, Typed, TypeOK
<1>2. \A i \in Ids : built[i] # None =>
        Alive(i) /\ built[i] \in Places /\ clusters[i].attrs.place = LowerCase[built[i]]
  BY DEF DestroyInv
<1>3. CASE MustDelete /\ d' = [d EXCEPT !.op = "delete", !.id = tf.id, !.old = tf.attrs]
  <2>1. d'.op = "delete" /\ d'.id = tf.id
    BY <1>1, <1>3 DEF ResourceData
  <2>2. tf.id \in Ids
    BY <1>3 DEF MustDelete, Inv, Typed, TypeOK, State
  <2>3. cfg = Absent \/ built[tf.id] = None \/ cfg.place # built[tf.id] \/ Capitals
    <3>1. CASE tf.tainted
      BY <1>3, <3>1 DEF MustDelete, DestroyInv
    <3>2. CASE ~tf.tainted /\ cfg # Absent /\ cfg.place # tf.attrs.place /\ built[tf.id] # None
      <4>1. tf.attrs.place = LowerCase[built[tf.id]]
        BY <1>2, <1>3, <2>2, <3>2 DEF MustDelete, PlaceInv
      <4>2. QED
        BY <3>2, <4>1 DEF Capitals
    <3>3. QED
      BY <1>3, <3>1, <3>2 DEF MustDelete
  <2>4. Unwanted'
    BY <1>1, <2>1, <2>3 DEF Unwanted, Capitals
  <2>5. QED
    BY <1>1, <1>2, <2>1, <2>4 DEF DestroyInv, Alive
<1>4. CASE pc' # "delete" /\ (d'.op = "create" => d'.id = None)
  BY <1>1, <1>2, <1>4 DEF DestroyInv, Alive
<1>5. CASE d' = NoData /\ pc' = "idle"
  BY <1>4, <1>5, NullRecords
<1>6. CASE d' = [d EXCEPT !.op = "create", !.new = cfg] /\ pc' = "create"
  BY <1>1, <1>4, <1>6 DEF ResourceData, Inv, Control, Plan
<1>7. CASE /\ d' = [d EXCEPT !.op = "update", !.id = tf.id, !.old = tf.attrs, !.new = Planned]
           /\ pc' = "meta"
  BY <1>1, <1>4, <1>7 DEF ResourceData
<1>8. QED
  BY <1>3, <1>5, <1>6, <1>7 DEF Plan

\* A create works on a cluster of its own, which no earlier create built.
LEMMA CreateDestroys ==
  ASSUME Inv, PlacesKept, DestroyInv, Create
  PROVE  DestroyInv'
<1>1. d.op = "create" /\ d \in ResourceData
  BY DEF Create, Inv, Control, Typed, TypeOK, Handler
<1>2. ASSUME NEW id \in FreshIds, d' = [d EXCEPT !.id = id], StartWait("available", "read")
      PROVE  DestroyInv'
  <2>1. d'.id = id /\ UNCHANGED <<tf, built>> /\ pc' = "get"
    BY <1>1, <1>2 DEF ResourceData, StartWait
  <2>2. built[id] = None
    BY DEF FreshIds, DestroyInv, Alive
  <2>3. QED
    BY <2>1, <2>2, BuiltKept DEF DestroyInv, Alive, AliveNext
<1>3. QED
  BY <1>1, <1>2, FailDestroys DEF Create

\* The cluster of a create is alive, and nothing else deletes it.
CreatedLives ==
  d.op = "create" /\ d.id # None => Alive(d.id) /\ clusters[d.id].job # "delete"

\* Until a create ends, its cluster exists.
LEMMA CreatedLivesOn == Spec => []CreatedLives
<1>1. Init => CreatedLives
  BY NullRecords DEF Init, CreatedLives
<1>2. Inv /\ CreatedLives /\ [Next]_vars => CreatedLives'
  <2> SUFFICES ASSUME Inv, CreatedLives, [Next]_vars, d'.op = "create", d'.id # None
               PROVE  (Alive(d.id) /\ clusters[d.id].job # "delete")'
    BY DEF CreatedLives
  <2>1. clusters \in [Ids -> Cluster] /\ d \in ResourceData
    BY DEF Inv, Typed, TypeOK
  <2>2. CASE UNCHANGED <<clusters, d>>
    BY <2>2 DEF CreatedLives, Alive
  <2>3. ASSUME NEW where, NEW state, End(where, state) PROVE FALSE
    BY <2>3 DEF End, NoData
  <2>4. CASE Create
    <3>1. PICK id \in FreshIds : Provision(id) /\ d' = [d EXCEPT !.id = id]
      BY <2>3, <2>4 DEF Create, Fail
    <3>2. d'.id = id /\ id \in Ids
      BY <2>1, <3>1 DEF ResourceData, FreshIds
    <3>3. QED
      BY <2>1, <3>1, <3>2 DEF Provision, Alive
  <2>5. CASE UpdateMeta \/ Resize \/ Upgrade \/ ExpandDisk \/ Delete
    <3>1. d.op # "create"
      BY <2>5 DEF UpdateMeta, Resize, Upgrade, ExpandDisk, Delete, Phases, Inv, Control
    <3>2. QED
      BY <2>3, <2>5, <3>1, HandlerSteps DEF Onward, Fail
  <2>6. CASE Plan
    BY <2>1, <2>6, NullRecords DEF Plan, ResourceData, Inv, Control
  <2>7. CASE Refresh
    BY <2>7 DEF Refresh, NoData
  <2>8. CASE Read \/ DeleteReturns \/ Crash
    BY <2>3, <2>8 DEF Read, DeleteReturns, Crash, Fail
  <2>9. ASSUME NEW id \in Ids, Finish(id) \/ Break(id)
        PROVE  (Alive(d.id) /\ clusters[d.id].job # "delete")'
    <3>1. UNCHANGED d /\ d.id \in Ids
      BY <2>1, <2>9 DEF Finish, Break, ResourceData
    <3>2. QED
      BY <2>1, <2>9, <3>1 DEF Finish, Break, CreatedLives, Alive, Cluster
  <2>10. CASE WaitGet \/ WaitSleep
    BY <2>2, <2>3, <2>10 DEF WaitGet, WaitSleep, Goto, Fail
  <2>11. CASE Edit \/ Expire \/ Calm \/ UNCHANGED vars \/ \E id \in Ids : Import(id)
    BY <2>2, <2>11 DEF Edit, Expire, Calm, vars, Import
  <2>12. QED
    BY <2>4, <2>5, <2>6, <2>7, <2>8, <2>9, <2>10, <2>11 DEF Next, Step
<1>3. QED
  BY <1>1, <1>2, Invariance, PTL DEF Spec

\* A create that succeeded is not tainted, and its cluster is where the request said.
LEMMA ReadDestroys ==
  ASSUME Inv, PlaceInv, CreatedLives, PlacesKept, DestroyInv, Read
  PROVE  DestroyInv'
<1>1. /\ d.op # "none" /\ d.id \in Ids /\ d.id # None /\ UNCHANGED clusters
      /\ built \in [Ids -> Places \union {None}]
  BY DEF Read, Inv, Control, Typed, TypeOK, ResourceData, Handler
<1>2. CASE /\ End("idle", StateRead(d.id, FALSE))
           /\ built' = IF d.op = "create" THEN [built EXCEPT ![d.id] = d.new.place] ELSE built
  <2>1. ~StateRead(d.id, FALSE).tainted
    BY DEF StateRead, NoState
  <2>2. CASE d.op # "create"
    BY <1>2, <2>1, <2>2, EndDestroys
  <2>3. CASE d.op = "create"
    <3>1. /\ clusters[d.id].attrs.place = LowerCase[d.new.place]
          /\ d.new.place \in Places /\ Alive(d.id)
      BY <1>1, <2>3 DEF PlaceInv, CreatedLives, Inv, Typed, Attrs, AttrsAt
    <3>2. /\ built'[d.id] = d.new.place
          /\ \A i \in Ids \ {d.id} : built'[i] = built[i]
      BY <1>1, <1>2, <2>3
    <3>3. ~tf'.tainted /\ pc' # "delete" /\ d'.op = "none"
      BY <1>2, <2>1, NullRecords DEF End
    <3>4. \A i \in Ids : built'[i] # None =>
            AliveNext(i) /\ built'[i] \in Places /\ clusters'[i].attrs.place = LowerCase[built'[i]]
      BY <1>1, <3>1, <3>2 DEF DestroyInv, Alive, AliveNext
    <3>5. QED
      BY <3>3, <3>4 DEF DestroyInv, Alive, AliveNext
  <2>4. QED
    BY <2>2, <2>3
<1>3. QED
  BY <1>1, <1>2, FailDestroys DEF Read

\* Neither a refresh nor an import taints a cluster.
LEMMA RefreshDestroys ==
  ASSUME Inv, DestroyInv, Refresh \/ \E id \in Ids : Import(id)
  PROVE  DestroyInv'
<1>1. /\ UNCHANGED <<clusters, built>> /\ pc' # "delete" /\ d'.op = "none"
  BY NullRecords DEF Refresh, Import, NoData, Inv, Control
<1>2. tf'.tainted => tf.tainted /\ tf'.id = tf.id
  BY DEF Refresh, Import, StateRead, NoState
<1>3. QED
  BY <1>1, <1>2 DEF DestroyInv, Alive

\* Built clusters exist, are not tainted, and are handed to a delete only when unwanted.
LEMMA DestroyInvariance == Spec => []DestroyInv
<1>1. Init => DestroyInv
  BY NullRecords DEF Init, DestroyInv, NoState, Ids
<1>2. Inv /\ PlaceInv /\ CreatedLives /\ DestroyInv /\ [Next]_vars => DestroyInv'
  <2> SUFFICES ASSUME Inv, PlaceInv, CreatedLives, DestroyInv, [Next]_vars PROVE DestroyInv'
    OBVIOUS
  <2>1. PlacesKept
    BY NextPlaces
  <2>2. CASE Edit
    BY <2>2 DEF Edit, DestroyInv, Alive
  <2>3. CASE Expire \/ Calm \/ UNCHANGED vars
    BY <2>3 DEF Expire, Calm, vars, DestroyInv, Unwanted, Capitals, Alive
  <2>4. CASE DeleteReturns \/ Crash
    <3>1. UNCHANGED built
      BY <2>4 DEF DeleteReturns, Crash
    <3>2. CASE DeleteReturns
      BY <2>1, <3>1, <3>2, EndDestroys DEF DeleteReturns, NoState
    <3>3. CASE Crash
      BY <2>1, <3>1, <3>3, EndDestroys DEF Crash, DestroyInv
    <3>4. QED
      BY <2>4, <3>2, <3>3
  <2>5. CASE UpdateMeta \/ Resize \/ Upgrade \/ ExpandDisk \/ Delete \/ WaitGet \/ WaitSleep
    BY <2>1, <2>5, HandlerSteps, FailDestroys, OnwardDestroys
  <2>6. ASSUME NEW id \in Ids, Finish(id) \/ Break(id) PROVE DestroyInv'
    <3>1. UNCHANGED <<cfg, tf, pc, d>>
      BY <2>6 DEF Finish, Break
    <3>2. \A i \in Ids : built'[i] = built[i] \/ built'[i] = None
      BY <2>6 DEF Finish, Break, Inv, Typed, TypeOK
    <3>3. /\ tf.id # None => tf.id \in Ids
          /\ d.id # None => d.id \in Ids
          /\ pc = "delete" => d.id # None
      BY DEF Inv, Control, Typed, TypeOK, State, ResourceData, Handler
    <3>4. \A i \in Ids : built'[i] # None =>
            AliveNext(i) /\ built'[i] \in Places /\ clusters'[i].attrs.place = LowerCase[built'[i]]
      BY <2>1, <3>2 DEF DestroyInv, PlacesKept
    <3>5. pc = "delete" => Unwanted'
      BY <3>1, <3>2, <3>3 DEF DestroyInv, Unwanted, Capitals
    <3>6. QED
      BY <3>1, <3>2, <3>3, <3>4, <3>5 DEF DestroyInv, Alive, AliveNext
  <2>7. QED
    BY <2>1, <2>2, <2>3, <2>4, <2>5, <2>6, CreateDestroys, ReadDestroys, PlanDestroys,
       RefreshDestroys DEF Next, Step
<1>3. QED
  BY <1>1, <1>2, Invariance, PlacesAgree, CreatedLivesOn, PTL DEF Spec

\* Only Delete asks the API to destroy a cluster.
LEMMA OnlyDeleteDooms ==
  ASSUME Inv, [Next]_vars, ~Delete, NEW i \in Ids, clusters'[i].job = "delete"
  PROVE  clusters[i].job = "delete"
<1>1. CASE UNCHANGED clusters
  BY <1>1
<1>2. ASSUME NEW target, NEW then, pc \in Phases, Command(target, then)
      PROVE  clusters[i].job = "delete"
  BY <1>1, <1>2, PhaseFacts DEF Command, Begin, Inv, Typed, TypeOK, Cluster
<1>3. CASE UpdateMeta
  <2>1. CASE clusters' = [clusters EXCEPT ![d.id].attrs = MetaTarget]
    BY <1>3, <2>1, PhaseFacts DEF UpdateMeta, Phases, Inv, Typed, TypeOK, Cluster
  <2>2. QED
    BY <1>1, <1>2, <1>3, <2>1 DEF UpdateMeta, Skip, Phases
<1>4. CASE Resize \/ Upgrade \/ ExpandDisk
  BY <1>1, <1>2, <1>4 DEF Resize, Upgrade, ExpandDisk, Skip, Phases
<1>5. CASE Create
  BY <1>1, <1>5 DEF Create, Provision, FreshIds, Inv, Typed, TypeOK
<1>6. ASSUME NEW id \in Ids, Finish(id) \/ Break(id) PROVE clusters[i].job = "delete"
  BY <1>6 DEF Finish, Break, Inv, Typed, TypeOK, Cluster
<1>7. CASE \/ UNCHANGED vars \/ Edit \/ Refresh \/ Plan \/ Read \/ DeleteReturns
           \/ WaitGet \/ WaitSleep \/ Expire \/ Calm \/ Crash \/ \E id \in Ids : Import(id)
  BY <1>1, <1>7 DEF vars, Edit, Refresh, Plan, Read, DeleteReturns, WaitGet, WaitSleep, Expire, Calm,
     Crash, Import
<1>8. QED
  BY <1>3, <1>4, <1>5, <1>6, <1>7 DEF Next, Step

\* A cluster whose creation was reported as a success is destroyed only when the user
\* removed it, moved it away from where it was created, or wrote its place with capitals:
\* neither a failed operation nor a crash nor a value the API gives back leads to its end.
THEOREM DestroyedOnDemand == Spec => OnlyUnwantedDestroyed
<1> DEFINE A == \A id \in Ids :
                  Destroyed(id) => cfg = Absent \/ cfg.place # built[id] \/ Capitals
<1>1. Inv /\ DestroyInv /\ [Next]_vars => A
  <2> SUFFICES ASSUME Inv, DestroyInv, [Next]_vars, NEW id \in Ids, built[id] # None,
                      clusters[id].job # "delete", clusters'[id].job = "delete"
               PROVE  cfg = Absent \/ cfg.place # built[id] \/ Capitals
    BY DEF Destroyed
  <2>1. Delete
    BY OnlyDeleteDooms
  <2>2. pc = "delete" /\ id = d.id
    BY <2>1 DEF Delete, Doom, Inv, Typed, TypeOK
  <2>3. QED
    BY <2>2 DEF DestroyInv, Unwanted
<1>2. QED
  BY <1>1, Invariance, DestroyInvariance, PTL DEF Spec, OnlyUnwantedDestroyed

-----------------------------------------------------------------------------
(***************************************************************************)
(* What a success means.  While an operation runs, the fields whose phase  *)
(* is over have the values the plan asked for, in the cluster or, while    *)
(* the API is still at work, in its target.                                *)
(***************************************************************************)
Where == IF pc \in Waiting THEN wait.then ELSE pc

Met(w, old, new, has) ==
  /\ w # "meta" =>
       /\ new.name # old.name => has.name = new.name
       /\ new.protected # old.protected => has.protected = new.protected
       /\ new.projection # old.projection => has.projection = new.projection
  /\ w \in {"upgrade", "expand", "read"} =>
       (new.instance # old.instance => has.instance = new.instance)
  /\ w \in {"expand", "read"} => (new.tag # old.tag => has.tag = new.tag)
  /\ w = "read" =>
       /\ new.size # old.size => has.size = new.size
       /\ new.perf # old.perf => has.perf = new.perf

DoneInv ==
  /\ d.op = "create" /\ d.id # None =>
       clusters[d.id].attrs = Requested /\ clusters[d.id].target = Requested
  /\ d.op = "update" /\ Where \in Phases \union {"read"} =>
       /\ pc \notin Waiting \/ clusters[d.id].status = "available" =>
            Met(Where, d.old, d.new, clusters[d.id].attrs)
       /\ clusters[d.id].job \in {"create", "update"} =>
            Met(Where, d.old, d.new, clusters[d.id].target)

\* Nothing is claimed when an operation is over.
LEMMA EndDone ==
  ASSUME NEW where, NEW state, End(where, state)
  PROVE  DoneInv'
  BY DEF End, NoData, DoneInv

\* An error ends the operation.
LEMMA FailDone == Fail => DoneInv'
  BY EndDone DEF Fail

\* A command asks for its own fields and for those of the phases before it.
LEMMA CommandDone ==
  ASSUME Inv, pc \in Phases, NEW target \in ApiAttrs, NEW then \in Phases \union {"read"},
         Met(then, d.old, d.new, target), Command(target, then)
  PROVE  DoneInv'
<1>1. d.id \in Ids /\ d.op = "update" /\ d \in ResourceData
  BY PhaseFacts DEF Inv, Typed, TypeOK
<1>2. CASE Begin(d.id, target) /\ d' = [d EXCEPT !.issued = TRUE] /\ StartWait("available", then)
  <2>1. clusters'[d.id].status = "updating" /\ clusters'[d.id].target = target
    BY <1>1, <1>2 DEF Begin, Inv, Typed, TypeOK, Cluster
  <2>2. d'.op = "update" /\ d'.id = d.id /\ d'.old = d.old /\ d'.new = d.new
    BY <1>1, <1>2 DEF ResourceData
  <2>3. pc' = "get" /\ wait'.then = then
    BY <1>2 DEF StartWait
  <2>4. QED
    BY <2>1, <2>2, <2>3 DEF DoneInv, Where, Waiting
<1>3. QED
  BY <1>2, FailDone DEF Command

\* A phase without a change has nothing to bring about.
LEMMA SkipDone ==
  ASSUME DoneInv, pc \in Phases, d.op = "update", NEW fields, NEW then \in Phases \union {"read"},
         Skip(fields, then),
         Met(pc, d.old, d.new, clusters[d.id].attrs) =>
           Met(then, d.old, d.new, clusters[d.id].attrs),
         Met(pc, d.old, d.new, clusters[d.id].target) =>
           Met(then, d.old, d.new, clusters[d.id].target)
  PROVE  DoneInv'
<1>1. pc \notin Waiting /\ pc' = then /\ pc' \notin Waiting /\ UNCHANGED <<clusters, d>>
  BY DEF Skip, Goto, Phases, Waiting
<1>2. QED
  BY <1>1 DEF DoneInv, Where

\* The four phases, one after another.
LEMMA UpdateDone ==
  Inv /\ DoneInv /\ (UpdateMeta \/ Resize \/ Upgrade \/ ExpandDisk) => DoneInv'
<1> SUFFICES ASSUME Inv, DoneInv, UpdateMeta \/ Resize \/ Upgrade \/ ExpandDisk PROVE DoneInv'
  OBVIOUS
<1>1. pc \in Phases /\ pc \notin Waiting
  BY DEF UpdateMeta, Resize, Upgrade, ExpandDisk, Phases, Waiting
<1>2. /\ d.id \in Ids /\ d.op = "update" /\ d.new \in Attrs /\ d.old \in Attrs
      /\ clusters[d.id] \in Cluster /\ clusters[d.id].attrs \in ApiAttrs
  BY <1>1, PhaseFacts DEF Inv, Typed, TypeOK
<1>3. Met(pc, d.old, d.new, clusters[d.id].attrs)
  BY <1>1, <1>2 DEF DoneInv, Where
<1>4. CASE UpdateMeta
  <2>1. MetaTarget \in ApiAttrs /\ Met("resize", d.old, d.new, MetaTarget)
    BY <1>2, <1>3 DEF MetaTarget, HasChange, Met, Attrs, ApiAttrs, AttrsAt
  <2>2. CASE Skip({"name", "protected", "projection"}, "resize")
    <3>1. d.old.name = d.new.name /\ d.old.protected = d.new.protected
          /\ d.old.projection = d.new.projection
      BY <2>2 DEF Skip, HasChange
    <3>2. QED
      BY <1>1, <1>2, <2>2, <3>1, SkipDone DEF Met, Phases
  <2>3. CASE Command(MetaTarget, "resize")
    BY <1>1, <2>1, <2>3, CommandDone DEF Phases
  <2>4. CASE /\ Accepts(d.id) /\ clusters' = [clusters EXCEPT ![d.id].attrs = MetaTarget]
             /\ Goto("resize") /\ UNCHANGED d
    <3>1. clusters'[d.id].attrs = MetaTarget /\ clusters'[d.id].job = "none"
      BY <1>2, <2>4 DEF Accepts, Inv, Typed, TypeOK, Cluster
    <3>2. QED
      BY <1>2, <2>1, <2>4, <3>1 DEF Goto, DoneInv, Where, Waiting
  <2>5. QED
    BY <1>4, <2>2, <2>3, <2>4, FailDone DEF UpdateMeta
<1>5. CASE Resize
  <2>1. pc = "resize"
    BY <1>5 DEF Resize
  <2>2. ResizeTarget \in ApiAttrs /\ Met("upgrade", d.old, d.new, ResizeTarget)
    BY <1>2, <1>3, <2>1 DEF ResizeTarget, Met, Attrs, ApiAttrs, AttrsAt
  <2>3. CASE Skip({"instance"}, "upgrade")
    <3>1. d.old.instance = d.new.instance
      BY <2>3 DEF Skip, HasChange
    <3>2. QED
      BY <1>1, <1>2, <2>1, <2>3, <3>1, SkipDone DEF Met, Phases
  <2>4. CASE Command(ResizeTarget, "upgrade")
    BY <1>1, <2>2, <2>4, CommandDone DEF Phases
  <2>5. QED
    BY <1>5, <2>3, <2>4 DEF Resize
<1>6. CASE Upgrade
  <2>1. pc = "upgrade"
    BY <1>6 DEF Upgrade
  <2>2. CASE Skip({"tag"}, "expand")
    <3>1. d.old.tag = d.new.tag
      BY <2>2 DEF Skip, HasChange
    <3>2. QED
      BY <1>1, <1>2, <2>1, <2>2, <3>1, SkipDone DEF Met, Phases
  <2>3. CASE VersionOf[d.new.tag] = d.new.version /\ Command(UpgradeTarget, "expand")
    <3>1. UpgradeTarget \in ApiAttrs /\ Met("expand", d.old, d.new, UpgradeTarget)
      BY <1>2, <1>3, <2>1, <2>3 DEF UpgradeTarget, Met, Attrs, ApiAttrs, AttrsAt
    <3>2. QED
      BY <1>1, <2>3, <3>1, CommandDone DEF Phases
  <2>4. QED
    BY <1>6, <2>2, <2>3, FailDone DEF Upgrade
<1>7. CASE ExpandDisk
  <2>1. pc = "expand"
    BY <1>7 DEF ExpandDisk
  <2>2. DiskTarget \in ApiAttrs /\ Met("read", d.old, d.new, DiskTarget)
    BY <1>2, <1>3, <2>1 DEF DiskTarget, Met, Attrs, ApiAttrs, AttrsAt
  <2>3. CASE Skip({"size", "perf"}, "read")
    <3>1. d.old.size = d.new.size /\ d.old.perf = d.new.perf
      BY <2>3 DEF Skip, HasChange
    <3>2. QED
      BY <1>1, <1>2, <2>1, <2>3, <3>1, SkipDone DEF Met, Phases
  <2>4. CASE Command(DiskTarget, "read")
    BY <1>1, <2>2, <2>4, CommandDone
  <2>5. QED
    BY <1>7, <2>3, <2>4, FailDone DEF ExpandDisk
<1>8. QED
  BY <1>4, <1>5, <1>6, <1>7

\* A wait hands over what the API has finished.
LEMMA WaitDone == Inv /\ DoneInv /\ (WaitGet \/ WaitSleep) => DoneInv'
<1> SUFFICES ASSUME Inv, DoneInv, WaitGet \/ WaitSleep PROVE DoneInv'
  OBVIOUS
<1>1. pc \in Waiting
  BY DEF WaitGet, WaitSleep, Waiting
<1>2. CASE Fail
  BY <1>2, FailDone
<1>3. CASE UNCHANGED <<clusters, d>> /\ pc' \in Waiting /\ wait'.then = wait.then
  BY <1>1, <1>3 DEF DoneInv, Where, Requested
<1>4. CASE WaitGet /\ Seen = wait.state /\ Goto(wait.then) /\ UNCHANGED d
  <2>1. UNCHANGED clusters /\ pc' = wait.then
    BY <1>4 DEF WaitGet, Goto
  <2>2. d.op = "update" => wait.state = "available" /\ wait.then \in Phases \union {"read"}
    BY <1>1 DEF Inv, Control
  <2>3. d.op = "update" => pc' \notin Waiting
    BY <2>1, <2>2 DEF Phases, Waiting
  <2>4. QED
    BY <1>1, <1>4, <2>1, <2>2, <2>3 DEF DoneInv, Where, Seen, Requested
<1>5. CASE WaitGet /\ Goto("sleep") /\ UNCHANGED d
  BY <1>3, <1>5 DEF WaitGet, Goto, Waiting
<1>6. CASE WaitSleep
  BY <1>3, <1>6 DEF WaitSleep, Waiting, Inv, Typed, TypeOK, WaitRequest
<1>7. QED
  BY <1>2, <1>4, <1>5, <1>6 DEF WaitGet

\* The API at work only ever brings a cluster to its target.
LEMMA ApiTargets ==
  ASSUME Inv, NEW id \in Ids, Finish(id) \/ Break(id), NEW i \in Ids
  PROVE  /\ clusters'[i].target = clusters[i].target
         /\ \/ clusters'[i].attrs = clusters[i].attrs
            \/ clusters[i].job \in {"create", "update"} /\ clusters'[i].attrs = clusters[i].target
         /\ clusters'[i].job \in {"create", "update"} => clusters[i].job \in {"create", "update"}
         /\ clusters'[i].status = "available" =>
              \/ clusters[i].status = "available" /\ clusters'[i].attrs = clusters[i].attrs
              \/ clusters[i].job \in {"create", "update"} /\ clusters'[i].attrs = clusters[i].target
<1>1. CASE Finish(id)
  BY <1>1 DEF Finish, Inv, Typed, TypeOK, Cluster
<1>2. CASE Break(id)
  BY <1>2 DEF Break, Inv, Typed, TypeOK, Cluster
<1>3. QED
  BY <1>1, <1>2

\* What a phase asked for is still asked for, or in force, after a step of the API.
LEMMA ApiDone ==
  ASSUME NEW id \in Ids, Inv, DoneInv, Finish(id) \/ Break(id)
  PROVE  DoneInv'
<1>1. UNCHANGED <<pc, d, wait>>
  BY DEF Finish, Break
<1>2. d.id # None => d.id \in Ids
  BY DEF Inv, Typed, TypeOK, ResourceData
<1>3. d.op = "update" /\ Where \in Phases \union {"read"} => d.id \in Ids
  BY <1>2 DEF Where, Inv, Control, Handler, Phases, Waiting
<1>4. QED
  BY <1>1, <1>2, <1>3, ApiTargets DEF DoneInv, Where, Requested

\* What the request of a create asked for is what the API makes.
LEMMA CreateDone == Inv /\ Create => DoneInv'
<1> SUFFICES ASSUME Inv, Create PROVE DoneInv'
  OBVIOUS
<1>1. d.op = "create" /\ d.new \in Attrs /\ d \in ResourceData
  BY DEF Create, Inv, Control, Typed, TypeOK, Handler
<1>2. ASSUME NEW id \in FreshIds, Provision(id),
             d' = [d EXCEPT !.id = id], StartWait("available", "read")
      PROVE  DoneInv'
  <2>1. d'.id = id /\ d'.op = "create" /\ d'.new = d.new
    BY <1>1, <1>2 DEF ResourceData
  <2>2. clusters'[id].attrs = Requested /\ clusters'[id].target = Requested
    BY <1>2 DEF Provision, Requested, FreshIds, Inv, Typed, TypeOK
  <2>3. QED
    BY <2>1, <2>2 DEF DoneInv, Requested
<1>3. QED
  BY <1>2, FailDone DEF Create

\* The fields whose phase is over are what the plan asked for, at every step.
LEMMA DoneInvariance == Spec => []DoneInv
<1>1. Init => DoneInv
  BY NullRecords DEF Init, DoneInv
<1>2. Inv /\ DoneInv /\ [Next]_vars => DoneInv'
  <2> SUFFICES ASSUME Inv, DoneInv, [Next]_vars PROVE DoneInv'
    OBVIOUS
  <2>1. CASE Edit \/ Expire \/ Calm \/ UNCHANGED vars
    BY <2>1 DEF Edit, Expire, Calm, vars, DoneInv, Where, Requested
  <2>2. CASE Refresh
    BY <2>2 DEF Refresh, NoData, DoneInv
  <2>3. CASE Plan
    <3>1. d \in ResourceData /\ d.id = None
      BY <2>3 DEF Plan, Inv, Control, Typed, TypeOK
    <3>2. CASE d' = NoData
      BY <3>2, NullRecords DEF DoneInv
    <3>3. CASE d' = [d EXCEPT !.op = "create", !.new = cfg]
      BY <3>1, <3>3 DEF ResourceData, DoneInv
    <3>4. CASE d' = [d EXCEPT !.op = "delete", !.id = tf.id, !.old = tf.attrs]
      BY <3>1, <3>4 DEF ResourceData, DoneInv
    <3>5. CASE /\ d' = [d EXCEPT !.op = "update", !.id = tf.id, !.old = tf.attrs, !.new = Planned]
               /\ pc' = "meta"
      <4>1. d'.op = "update" /\ Where' = "meta"
        BY <3>1, <3>5 DEF ResourceData, Where, Waiting
      <4>2. QED
        BY <4>1 DEF DoneInv, Met
    <3>6. QED
      BY <2>3, <3>2, <3>3, <3>4, <3>5 DEF Plan
  <2>4. CASE Read \/ DeleteReturns \/ Crash
    BY <2>4, EndDone, FailDone DEF Read, DeleteReturns, Crash
  <2>5. CASE Delete
    <3>1. d.op = "delete"
      BY <2>5 DEF Delete, Inv, Control
    <3>2. QED
      BY <2>5, <3>1, FailDone DEF Delete, DoneInv
  <2>6. ASSUME NEW id \in Ids, Import(id) PROVE DoneInv'
    BY <2>6 DEF Import, DoneInv, Inv, Control
  <2>7. QED
    BY <2>1, <2>2, <2>3, <2>4, <2>5, <2>6, CreateDone, UpdateDone, WaitDone, ApiDone DEF Next, Step
<1>3. QED
  BY <1>1, <1>2, Invariance, PTL DEF Spec

\* An operation that is about to succeed has done what the plan asked, for every
\* configuration and whatever the API was still working on when it began.
THEOREM SuccessIsDone == Spec => []SuccessMeansDone
<1>1. Inv /\ DoneInv => SuccessMeansDone
  <2> SUFFICES ASSUME Inv, DoneInv, pc = "read"
               PROVE  /\ d.op = "create" =>
                           /\ clusters[d.id].attrs.place = LowerCase[d.new.place]
                           /\ \A f \in DOMAIN clusters[d.id].attrs \ {"place", "tag"} :
                                clusters[d.id].attrs[f] = d.new[f]
                      /\ d.op = "update" =>
                           \A f \in DOMAIN clusters[d.id].attrs :
                             Acted(f) /\ d.new[f] # d.old[f] => clusters[d.id].attrs[f] = d.new[f]
    BY DEF SuccessMeansDone
  <2>1. d.id # None /\ d.id \in Ids /\ clusters[d.id].attrs \in ApiAttrs /\ Where = "read"
          /\ pc \notin Waiting
    BY DEF Inv, Control, Typed, TypeOK, ResourceData, Handler, Where, Waiting
  <2>2. CASE d.op = "create"
    BY <2>1, <2>2 DEF DoneInv, Requested, Inv, Typed, Attrs, ApiAttrs, AttrsAt
  <2>3. CASE d.op = "update"
    <3>1. Met("read", d.old, d.new, clusters[d.id].attrs)
      BY <2>1, <2>3 DEF DoneInv
    <3>2. QED
      BY <2>3, <3>1 DEF Met, Acted
  <2>4. QED
    BY <2>2, <2>3
<1>2. QED
  BY <1>1, Invariance, DoneInvariance, PTL

-----------------------------------------------------------------------------
(***************************************************************************)
(* The size of the disk.  Without a command of an earlier operation under  *)
(* way at the refresh, the size in the state is the cluster's until the    *)
(* disk command.                                                           *)
(***************************************************************************)
SizeInv ==
  /\ pc = "plan" /\ tf.id # None /\ ~d.overhang =>
       clusters[tf.id].job \notin {"create", "update"} /\ tf.attrs = clusters[tf.id].attrs
  /\ d.op = "update" /\ Where \in Phases /\ ~d.overhang =>
       /\ clusters[d.id].attrs.size = d.old.size
       /\ clusters[d.id].job \in {"create", "update"} => clusters[d.id].target.size = d.old.size

\* The end of an operation leaves no size to compare, or no cluster.
LEMMA EndSize ==
  ASSUME NEW where, NEW state, End(where, state), where = "plan" => state.id = None
  PROVE  SizeInv'
  BY DEF End, NoData, SizeInv

\* An error ends the operation.
LEMMA FailSize == Fail => SizeInv'
  BY EndSize DEF Fail

\* A command before the disk's asks for no other size.
LEMMA CommandSize ==
  ASSUME Inv, SizeInv, pc \in Phases, NEW target \in ApiAttrs, NEW then \in Phases \union {"read"},
         then # "read" => target.size = clusters[d.id].attrs.size, Command(target, then)
  PROVE  SizeInv'
<1>1. d.id \in Ids /\ d.op = "update" /\ d \in ResourceData /\ Where = pc
  BY PhaseFacts DEF Inv, Typed, TypeOK, Where, Phases, Waiting
<1>2. CASE Begin(d.id, target) /\ d' = [d EXCEPT !.issued = TRUE] /\ StartWait("available", then)
  <2>1. clusters'[d.id].attrs = clusters[d.id].attrs /\ clusters'[d.id].target = target
    BY <1>1, <1>2 DEF Begin, Inv, Typed, TypeOK, Cluster
  <2>2. d'.id = d.id /\ d'.old = d.old /\ d'.overhang = d.overhang
    BY <1>1, <1>2 DEF ResourceData
  <2>3. pc' = "get" /\ wait'.then = then
    BY <1>2 DEF StartWait
  <2>4. QED
    BY <1>1, <2>1, <2>2, <2>3 DEF SizeInv, Where, Waiting, Phases
<1>3. QED
  BY <1>2, FailSize DEF Command

\* Going on to another phase changes no size.
LEMMA SkipSize ==
  ASSUME SizeInv, pc \in Phases, NEW fields, NEW then \in Phases \union {"read"},
         Skip(fields, then)
  PROVE  SizeInv'
  BY DEF Skip, Goto, SizeInv, Where, Phases, Waiting

\* Only the disk command, the last one, may ask for another size.
LEMMA UpdateSize ==
  Inv /\ SizeInv /\ (UpdateMeta \/ Resize \/ Upgrade \/ ExpandDisk) => SizeInv'
<1> SUFFICES ASSUME Inv, SizeInv, UpdateMeta \/ Resize \/ Upgrade \/ ExpandDisk PROVE SizeInv'
  OBVIOUS
<1>1. pc \in Phases /\ Where = pc
  BY DEF UpdateMeta, Resize, Upgrade, ExpandDisk, Phases, Waiting, Where
<1>2. /\ d.id \in Ids /\ d.op = "update" /\ d.new \in Attrs
      /\ clusters[d.id] \in Cluster /\ clusters[d.id].attrs \in ApiAttrs
  BY <1>1, PhaseFacts DEF Inv, Typed, TypeOK
<1>3. /\ MetaTarget \in ApiAttrs /\ MetaTarget.size = clusters[d.id].attrs.size
      /\ ResizeTarget \in ApiAttrs /\ ResizeTarget.size = clusters[d.id].attrs.size
      /\ DiskTarget \in ApiAttrs
  BY <1>2 DEF MetaTarget, ResizeTarget, DiskTarget, Attrs, ApiAttrs, AttrsAt
<1>4. ASSUME VersionOf[d.new.tag] = d.new.version
      PROVE  UpgradeTarget \in ApiAttrs /\ UpgradeTarget.size = clusters[d.id].attrs.size
  BY <1>2, <1>4 DEF UpgradeTarget, Attrs, ApiAttrs, AttrsAt
<1>5. CASE /\ Accepts(d.id) /\ clusters' = [clusters EXCEPT ![d.id].attrs = MetaTarget]
           /\ Goto("resize") /\ UNCHANGED d
  <2>1. clusters'[d.id].attrs = MetaTarget /\ clusters'[d.id].job = "none"
    BY <1>2, <1>5 DEF Accepts, Inv, Typed, TypeOK, Cluster
  <2>2. QED
    BY <1>1, <1>3, <1>5, <2>1 DEF Goto, SizeInv, Where, Waiting, Phases
<1>6. CASE UpdateMeta
  BY <1>1, <1>3, <1>5, <1>6, CommandSize, SkipSize, FailSize DEF UpdateMeta, Phases
<1>7. QED
  BY <1>1, <1>3, <1>4, <1>6, CommandSize, SkipSize, FailSize DEF Resize, Upgrade, ExpandDisk, Phases

\* A refresh that finds the cluster at rest knows its size; a plan compares with it.
LEMMA PlanSize == Inv /\ SizeInv /\ (Refresh \/ Plan) => SizeInv'
<1> SUFFICES ASSUME Inv, SizeInv, Refresh \/ Plan PROVE SizeInv'
  OBVIOUS
<1>1. CASE Refresh
  <2>1. /\ d'.op = "none" /\ UNCHANGED clusters
        /\ d'.overhang = (tf.id # None /\ clusters[tf.id].job # "none")
    BY <1>1 DEF Refresh, NoData
  <2>2. tf'.id # None => tf'.id = tf.id /\ tf'.attrs = clusters[tf.id].attrs
    BY <1>1 DEF Refresh, StateRead, NoState
  <2>3. QED
    BY <2>1, <2>2 DEF SizeInv
<1>2. CASE Plan
  <2>1. d \in ResourceData /\ UNCHANGED clusters
    BY <1>2 DEF Plan, Inv, Typed, TypeOK
  <2>2. CASE /\ tf.id # None /\ pc' = "meta"
             /\ d' = [d EXCEPT !.op = "update", !.id = tf.id, !.old = tf.attrs, !.new = Planned]
    <3>1. d'.id = tf.id /\ d'.old = tf.attrs /\ d'.overhang = d.overhang
      BY <2>1, <2>2 DEF ResourceData
    <3>2. QED
      BY <1>2, <2>1, <2>2, <3>1 DEF Plan, SizeInv, Where, Waiting
  <2>3. CASE pc' # "plan" /\ d'.op # "update"
    BY <2>3 DEF SizeInv
  <2>4. QED
    BY <1>2, <2>1, <2>2, <2>3, NullRecords DEF Plan, ResourceData
<1>3. QED
  BY <1>1, <1>2

\* The size is the one in the state after a step of the API, too.
LEMMA ApiSize ==
  ASSUME NEW id \in Ids, Inv, SizeInv, Finish(id) \/ Break(id)
  PROVE  SizeInv'
<1>1. UNCHANGED <<tf, pc, d, wait>>
  BY DEF Finish, Break
<1>2. /\ d.op = "update" /\ Where \in Phases => d.id \in Ids
      /\ tf.id # None => tf.id \in Ids
  BY DEF Where, Inv, Control, Typed, TypeOK, State, ResourceData, Handler, Phases, Waiting
<1>3. QED
  BY <1>1, <1>2, ApiTargets DEF SizeInv, Where

\* Until the disk command the size compared with is the cluster's.
LEMMA SizeInvariance == Spec => []SizeInv
<1>1. Init => SizeInv
  BY NullRecords DEF Init, SizeInv
<1>2. Inv /\ SizeInv /\ [Next]_vars => SizeInv'
  <2> SUFFICES ASSUME Inv, SizeInv, [Next]_vars PROVE SizeInv'
    OBVIOUS
  <2>1. CASE Edit \/ Expire \/ Calm \/ UNCHANGED vars
    BY <2>1 DEF Edit, Expire, Calm, vars, SizeInv, Where
  <2>2. CASE Create \/ Delete
    <3>1. d.op # "update" /\ d \in ResourceData
      BY <2>2 DEF Create, Delete, Inv, Control, Typed, TypeOK, Handler
    <3>2. CASE pc' = "get" /\ d'.op = d.op
      BY <3>1, <3>2 DEF SizeInv
    <3>3. QED
      BY <2>2, <3>1, <3>2, FailSize DEF Create, Delete, StartWait, ResourceData
  <2>3. CASE Read \/ DeleteReturns \/ Crash
    BY <2>3, EndSize, FailSize, NullRecords DEF Read, DeleteReturns, Crash
  <2>4. CASE WaitGet \/ WaitSleep
    <3>1. CASE Fail
      BY <3>1, FailSize
    <3>2. CASE UNCHANGED <<clusters, d>> /\ pc' # "plan" /\ Where' = Where
      BY <3>2 DEF SizeInv
    <3>3. ASSUME WaitGet, UNCHANGED d, Goto(wait.then) PROVE pc' # "plan" /\ Where' = Where
      BY <3>3 DEF WaitGet, Goto, Where, Waiting, Phases, Inv, Control
    <3>4. ASSUME WaitGet, Goto("sleep") PROVE pc' # "plan" /\ Where' = Where
      BY <3>4 DEF WaitGet, Goto, Where, Waiting
    <3>5. ASSUME WaitSleep PROVE pc' # "plan" /\ Where' = Where
      BY <3>5 DEF WaitSleep, Where, Waiting, Inv, Typed, TypeOK, WaitRequest
    <3>6. QED
      BY <2>4, <3>1, <3>2, <3>3, <3>4, <3>5 DEF WaitGet, WaitSleep
  <2>5. ASSUME NEW id \in Ids, Import(id) PROVE SizeInv'
    BY <2>5 DEF Import, SizeInv, Where, Inv, Control
  <2>6. QED
    BY <2>1, <2>2, <2>3, <2>4, <2>5, PlanSize, UpdateSize, ApiSize DEF Next, Step
<1>3. QED
  BY <1>1, <1>2, Invariance, PTL DEF Spec

\* No command asks for a smaller disk than the cluster has, unless a command of an earlier
\* operation was still under way when the size was read.
THEOREM NoShrink == Spec => NoBlindShrink
<1> DEFINE A == \A id \in Ids :
                  clusters[id].job = "none" /\ clusters'[id].job = "update" /\ ~d.overhang
                    => clusters'[id].target.size >= clusters[id].attrs.size
<1>1. Inv /\ SizeInv /\ [Next]_vars => A
  <2> SUFFICES ASSUME Inv, SizeInv, [Next]_vars, NEW id \in Ids,
                      clusters[id].job = "none", clusters'[id].job = "update", ~d.overhang
               PROVE  clusters'[id].target.size >= clusters[id].attrs.size
    OBVIOUS
  <2>1. ~UNCHANGED clusters
    OBVIOUS
  <2>2. ASSUME NEW i \in Ids, Finish(i) \/ Break(i) PROVE FALSE
    BY <2>2 DEF Finish, Break, Inv, Typed, TypeOK, Cluster
  <2>3. ~Create
    BY DEF Create, Provision, FreshIds, Inv, Typed, TypeOK
  <2>4. ~Delete
    BY DEF Delete, Doom, Inv, Typed, TypeOK, Cluster
  <2>5. UpdateMeta \/ Resize \/ Upgrade \/ ExpandDisk
    BY <2>1, <2>2, <2>3, <2>4
       DEF Next, Step, vars, Edit, Refresh, Plan, Read, DeleteReturns, WaitGet, WaitSleep, Expire,
           Calm, Crash, Import
  <2>6. /\ pc \in Phases /\ Where = pc /\ d.op = "update" /\ d.id \in Ids
        /\ d.new \in Attrs /\ d.old \in Attrs
        /\ clusters[d.id] \in Cluster /\ clusters[d.id].attrs \in ApiAttrs
    <3>1. pc \in Phases /\ Where = pc
      BY <2>5 DEF UpdateMeta, Resize, Upgrade, ExpandDisk, Phases, Waiting, Where
    <3>2. QED
      BY <3>1, PhaseFacts DEF Inv, Typed, TypeOK
  <2>7. ASSUME NEW target \in ApiAttrs, NEW then, Command(target, then)
        PROVE  id = d.id /\ clusters'[id].target = target
    BY <2>1, <2>6, <2>7 DEF Command, Begin, Inv, Typed, TypeOK, Cluster
  <2>8. /\ MetaTarget \in ApiAttrs /\ MetaTarget.size = clusters[d.id].attrs.size
        /\ ResizeTarget \in ApiAttrs /\ ResizeTarget.size = clusters[d.id].attrs.size
        /\ DiskTarget \in ApiAttrs /\ DiskTarget.size = d.new.size
    BY <2>6 DEF MetaTarget, ResizeTarget, DiskTarget, Attrs, ApiAttrs, AttrsAt
  <2>9. clusters[d.id].attrs.size \in Nat /\ d.new.size \in Nat /\ d.old.size \in Nat
    BY <2>6 DEF Attrs, ApiAttrs, AttrsAt
  <2>10. CASE UpdateMeta
    <3>1. clusters' # [clusters EXCEPT ![d.id].attrs = MetaTarget]
      BY <2>6 DEF Inv, Typed, TypeOK, Cluster
    <3>2. Command(MetaTarget, "resize")
      BY <2>1, <2>10, <3>1 DEF UpdateMeta, Skip
    <3>3. QED
      BY <2>7, <2>8, <2>9, <3>2
  <2>11. CASE Resize
    <3>1. Command(ResizeTarget, "upgrade")
      BY <2>1, <2>11 DEF Resize, Skip
    <3>2. QED
      BY <2>7, <2>8, <2>9, <3>1
  <2>12. CASE Upgrade
    <3>1. VersionOf[d.new.tag] = d.new.version /\ Command(UpgradeTarget, "expand")
      BY <2>1, <2>12 DEF Upgrade, Skip
    <3>2. UpgradeTarget \in ApiAttrs /\ UpgradeTarget.size = clusters[d.id].attrs.size
      BY <2>6, <3>1 DEF UpgradeTarget, Attrs, ApiAttrs, AttrsAt
    <3>3. QED
      BY <2>7, <2>9, <3>1, <3>2
  <2>13. CASE ExpandDisk
    <3>1. pc = "expand" /\ ~Shrinks /\ Command(DiskTarget, "read")
      BY <2>1, <2>13 DEF ExpandDisk, Skip
    <3>2. clusters[d.id].attrs.size = d.old.size
      BY <2>6, <3>1 DEF SizeInv, Phases
    <3>3. QED
      BY <2>7, <2>8, <2>9, <3>1, <3>2 DEF Shrinks
  <2>14. QED
    BY <2>5, <2>10, <2>11, <2>12, <2>13
<1>2. QED
  BY <1>1, Invariance, SizeInvariance, PTL DEF Spec, NoBlindShrink
=============================================================================
