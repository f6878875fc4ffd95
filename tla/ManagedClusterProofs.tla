------------------------ MODULE ManagedClusterProofs ------------------------
(***************************************************************************)
(* Proofs about ManagedCluster, for every set of configurations, every     *)
(* number of clusters and every grace period.                              *)
(***************************************************************************)
EXTENDS ManagedCluster, TLAPS

(***************************************************************************)
(* The inductive invariant.  Typed sharpens TypeOK: what is referred to    *)
(* exists and has attributes, and a cluster at rest has no job.  Control   *)
(* ties the place a handler is at to the operation, to its ResourceData    *)
(* and to the saved state.                                                 *)
(***************************************************************************)
Exists(id) == clusters[id].status # "none"

Typed ==
  /\ TypeOK
  /\ \A id \in Ids :
       Exists(id) => clusters[id].attrs \in ApiAttrs /\ clusters[id].target \in ApiAttrs
  /\ \A id \in Ids : clusters[id].status \in {"none", "available", "deleted"}
       => clusters[id].job = "none"
  /\ tf.id # None => tf.attrs \in Attrs /\ Exists(tf.id)
  /\ d.id # None => Exists(d.id)
  /\ d.op \in {"create", "update"} => d.new \in Attrs
  /\ d.op \in {"update", "delete"} => d.old \in Attrs

Control ==
  /\ pc \in {"idle", "plan"} => d.op = "none" /\ d.id = None
  /\ pc \in Handler => (d.id = None <=> pc = "create")
  /\ pc = "create" => d.op = "create"
  /\ pc \in Phases => d.op = "update"
  /\ pc = "read" => d.op \in {"create", "update"}
  /\ pc \in {"delete", "gone"} => d.op = "delete"
  /\ pc \in Waiting =>
       \/ d.op = "create" /\ wait.then = "read" /\ wait.state = "available"
       \/ d.op = "update" /\ wait.then \in Phases \union {"read"} /\ wait.state = "available"
       \/ d.op = "delete" /\ wait.then = "gone" /\ wait.state = "deleted"
  /\ d.op = "create" => tf.id = None
  /\ d.op \in {"update", "delete"} => tf.id = d.id
  /\ pc = "gone" => clusters[d.id].status = "deleted"

Inv == Typed /\ Control

-----------------------------------------------------------------------------
(***************************************************************************)
(* What the pieces of the actions do to the clusters.                      *)
(***************************************************************************)
ExistsNext(id) == clusters'[id].status # "none"

ClustersKept ==
  /\ clusters' \in [Ids -> Cluster]
  /\ \A id \in Ids : Exists(id) => ExistsNext(id)
  /\ \A id \in Ids :
       ExistsNext(id) => clusters'[id].attrs \in ApiAttrs /\ clusters'[id].target \in ApiAttrs
  /\ \A id \in Ids : clusters'[id].status \in {"none", "available", "deleted"}
       => clusters'[id].job = "none"

\* What the API stores is a legal attribute.
LEMMA ApiIsLegal == ApiAttrs \subseteq Attrs
  BY DEF ApiAttrs, Attrs, AttrsAt, ApiPlaces

\* None is not the id of a cluster.
LEMMA NoneIsNoId == None \notin Ids
  BY BoundAssumption DEF Ids

\* The null records have their types.
LEMMA NullRecords ==
  /\ NoState \in State /\ NoState.id = None
  /\ NoData \in ResourceData /\ NoData.op = "none" /\ NoData.id = None
  /\ NoCluster \in Cluster /\ NoCluster.status = "none" /\ NoCluster.job = "none"
  /\ NoWait \in WaitRequest
<1>1. 0 \in 0 .. Grace + 1
  BY BoundAssumption
<1>2. QED
  BY <1>1 DEF NoState, State, NoData, ResourceData, NoCluster, Cluster, Statuses, Jobs,
         NoWait, WaitRequest

\* A step that leaves the clusters alone keeps them.
LEMMA SameClusters == Typed /\ UNCHANGED clusters => ClustersKept
  BY DEF Typed, TypeOK, ClustersKept, Exists, ExistsNext

\* A change of status, job and target keeps the clusters.
LEMMA BeginKeeps ==
  ASSUME Typed, NEW id \in Ids, NEW t \in ApiAttrs, Exists(id), Begin(id, t)
  PROVE  ClustersKept
<1>1. /\ clusters'[id].status = "updating" /\ clusters'[id].job = "update"
      /\ clusters'[id].target = t /\ clusters'[id].attrs = clusters[id].attrs
  BY DEF Typed, TypeOK, Begin, Cluster
<1>2. \A i \in Ids \ {id} : clusters'[i] = clusters[i]
  BY DEF Typed, TypeOK, Begin
<1>3. clusters' \in [Ids -> Cluster]
  <2>1. clusters \in [Ids -> Cluster]
    BY DEF Typed, TypeOK
  <2>2. QED
    BY <2>1 DEF Begin, Cluster, Statuses, Jobs
<1>4. QED
  BY <1>1, <1>2, <1>3 DEF Typed, ClustersKept, Exists, ExistsNext

\* A delete that is accepted keeps the clusters.
LEMMA DoomKeeps ==
  ASSUME Typed, NEW id \in Ids, Exists(id), Doom(id)
  PROVE  ClustersKept
<1>0. clusters \in [Ids -> Cluster]
  BY DEF Typed, TypeOK
<1>1. \A i \in Ids : clusters'[i] =
        IF i = id
        THEN [clusters[id] EXCEPT !.job = "delete",
                !.status = IF clusters[id].status = "defunct" THEN "defunct" ELSE "deleting"]
        ELSE clusters[i]
  BY <1>0 DEF Doom, Cluster
<1>2. clusters' \in [Ids -> Cluster]
  BY <1>0 DEF Doom, Cluster, Statuses, Jobs
<1>3. QED
  BY <1>0, <1>1, <1>2 DEF Typed, ClustersKept, Exists, ExistsNext, Cluster

\* A create brings a cluster with legal attributes into being.
LEMMA ProvisionKeeps ==
  ASSUME Typed, NEW id \in Ids, d.new \in Attrs, Provision(id)
  PROVE  ClustersKept /\ ExistsNext(id)
<1>1. Requested \in ApiAttrs
  BY ConfigAssumption DEF Requested, Attrs, ApiAttrs, AttrsAt, ApiPlaces
<1>2. QED
  BY <1>1 DEF Typed, TypeOK, ClustersKept, Exists, ExistsNext, Provision, Cluster, Statuses, Jobs

\* The API finishing a job keeps the clusters.
LEMMA FinishKeeps ==
  ASSUME Typed, NEW id \in Ids, Finish(id)
  PROVE  ClustersKept
  BY DEF Typed, TypeOK, ClustersKept, Exists, ExistsNext, Finish, Cluster, Statuses, Jobs

\* A cluster that becomes defunct keeps the clusters.
LEMMA BreakKeeps ==
  ASSUME Typed, NEW id \in Ids, Break(id)
  PROVE  ClustersKept
  BY DEF Typed, TypeOK, ClustersKept, Exists, ExistsNext, Break, Cluster, Statuses, Jobs

-----------------------------------------------------------------------------
(***************************************************************************)
(* Ending an operation, going on and waiting.                              *)
(***************************************************************************)

\* An operation ends in a state without the resource, or one that refers to
\* a cluster that exists.
LEMMA EndKeeps ==
  ASSUME Inv, ClustersKept, NEW where \in {"idle", "plan"}, NEW state \in State,
         state.id # None => state.attrs \in Attrs /\ ExistsNext(state.id),
         End(where, state), lost' \subseteq Ids, built' \in [Ids -> Places \union {None}]
  PROVE  Inv'
<1>1. TypeOK'
  BY NullRecords DEF Inv, Typed, TypeOK, ClustersKept, End
<1>2. Typed'
  BY <1>1, NullRecords DEF Inv, Typed, ClustersKept, Exists, ExistsNext, End
<1>3. Control'
  BY NullRecords DEF Control, End, Handler, Phases, Waiting
<1>4. QED
  BY <1>2, <1>3 DEF Inv

\* What Terraform saves after an error refers to a cluster that exists.
LEMMA FailKeeps ==
  ASSUME Inv, ClustersKept, d.op # "none", Fail, lost' \subseteq Ids
  PROVE  Inv'
<1>1. /\ StateAfterError \in State
      /\ StateAfterError.id # None =>
           StateAfterError.attrs \in Attrs /\ ExistsNext(StateAfterError.id)
  <2> USE DEF Inv, Typed, TypeOK, ClustersKept, State, Exists, ExistsNext
  <2>1. d.id \in Ids \union {None} /\ d.new \in Attrs \union {None}
    BY DEF ResourceData
  <2>2. CASE d.op = "create" /\ d.id = None
    <3>1. StateAfterError = NoState
      BY <2>2 DEF StateAfterError
    <3>2. QED
      BY <3>1 DEF NoState
  <2>3. CASE d.op = "create" /\ d.id # None
    <3>1. StateAfterError = [id |-> d.id, attrs |-> d.new, tainted |-> TRUE]
      BY <2>3 DEF StateAfterError
    <3>2. QED
      BY <2>1, <2>3, <3>1
  <2>4. CASE d.op = "update"
    <3>1. StateAfterError = [id |-> d.id, attrs |-> d.new, tainted |-> FALSE]
      BY <2>4 DEF StateAfterError
    <3>2. QED
      BY <2>1, <2>4, <3>1
  <2>5. CASE d.op = "delete"
    <3>1. StateAfterError = tf
      BY <2>5 DEF StateAfterError
    <3>2. QED
      BY <3>1
  <2>6. QED
    BY <2>2, <2>3, <2>4, <2>5 DEF ResourceData
<1>2. End("idle", StateAfterError) /\ built' \in [Ids -> Places \union {None}]
  BY DEF Fail, Inv, Typed, TypeOK
<1>3. QED
  BY <1>1, <1>2, EndKeeps

\* The handler starts to wait for a state, with an id.
LEMMA StartWaitKeeps ==
  ASSUME Inv, ClustersKept, pc \in Handler, d' \in ResourceData,
         d'.op = d.op, d'.new = d.new, d'.old = d.old,
         d'.id # None, ExistsNext(d'.id), d.id # None => d'.id = d.id,
         NEW state, NEW then, StartWait(state, then),
         \/ d.op = "create" /\ then = "read" /\ state = "available"
         \/ d.op = "update" /\ then \in Phases \union {"read"} /\ state = "available"
         \/ d.op = "delete" /\ then = "gone" /\ state = "deleted"
  PROVE  Inv'
  BY BoundAssumption DEF Inv, Typed, TypeOK, Control, ClustersKept, Exists, ExistsNext, StartWait,
     WaitRequest, Handler, Phases, Waiting

\* The handler turns to its next phase, or to the read that ends it.
LEMMA GotoKeeps ==
  ASSUME Inv, ClustersKept, pc \in Handler, UNCHANGED d, d.id # None, d.op = "update",
         NEW then \in Phases \union {"read"}, Goto(then)
  PROVE  Inv'
<1>1. TypeOK'
  BY DEF Inv, Typed, TypeOK, ClustersKept, Goto, Handler
<1>2. Typed'
  BY <1>1 DEF Inv, Typed, TypeOK, State, ResourceData, ClustersKept, Exists, ExistsNext, Goto
<1>3. Control'
  BY DEF Inv, Control, Goto, Handler, Phases, Waiting
<1>4. QED
  BY <1>2, <1>3 DEF Inv

\* A command of Update with legal target attributes.
LEMMA CommandKeeps ==
  ASSUME Inv, pc \in Phases, NEW target \in ApiAttrs, NEW then \in Phases \union {"read"},
         Command(target, then)
  PROVE  Inv'
<1>1. pc \in Handler /\ d.op = "update" /\ d.id \in Ids /\ d.id # None /\ Exists(d.id)
  BY DEF Inv, Control, Typed, TypeOK, ResourceData, Handler, Phases
<1>2. CASE /\ Begin(d.id, target)
           /\ d' = [d EXCEPT !.issued = TRUE] /\ StartWait("available", then)
  <2>1. ClustersKept
    BY <1>1, <1>2, BeginKeeps DEF Inv
  <2>2. /\ d' \in ResourceData /\ d'.op = d.op /\ d'.new = d.new
        /\ d'.old = d.old /\ d'.id = d.id /\ ExistsNext(d'.id)
    BY <1>1, <1>2, <2>1 DEF Inv, Typed, TypeOK, ResourceData, ClustersKept
  <2>3. QED
    BY <1>1, <1>2, <2>1, <2>2, StartWaitKeeps
<1>3. CASE Begin(d.id, target) /\ Fail /\ UNCHANGED lost
  BY <1>1, <1>3, BeginKeeps, FailKeeps DEF Inv, Typed, TypeOK
<1>4. CASE Fail /\ UNCHANGED <<clusters, lost>>
  BY <1>1, <1>4, SameClusters, FailKeeps DEF Inv, Typed, TypeOK
<1>5. QED
  BY <1>2, <1>3, <1>4 DEF Command

\* A phase with nothing to do keeps the invariant.
LEMMA SkipKeeps ==
  ASSUME Inv, pc \in Phases, NEW fields, NEW then \in Phases \union {"read"}, Skip(fields, then)
  PROVE  Inv'
<1>1. pc \in Handler /\ d.op = "update" /\ d.id # None
  BY DEF Inv, Control, Handler, Phases
<1>2. QED
  BY <1>1, SameClusters, GotoKeeps DEF Skip, Inv

-----------------------------------------------------------------------------
(***************************************************************************)
(* One lemma per action.                                                   *)
(***************************************************************************)
\* The invariant holds at the start, and every action keeps it.
LEMMA InitInv == Init => Inv
<1> SUFFICES ASSUME Init PROVE Inv
  OBVIOUS
<1>1. TypeOK
  BY NullRecords DEF Init, TypeOK
<1>2. Typed
  BY <1>1, NullRecords DEF Init, Typed, Exists
<1>3. Control
  BY NullRecords DEF Init, Control, Handler, Phases, Waiting
<1>4. QED
  BY <1>2, <1>3 DEF Inv

\* A stuttering step keeps the invariant.
LEMMA StutterInv == Inv /\ UNCHANGED vars => Inv'
  BY DEF Inv, Typed, TypeOK, Control, vars, Exists, ExistsNext

\* Edit keeps the invariant.
LEMMA EditInv == Inv /\ Edit => Inv'
  BY DEF Edit, Inv, Typed, TypeOK, Control, Exists, ExistsNext, Handler, Phases, Waiting

\* What a read leaves in the state.
LEMMA StateReadTyped ==
  ASSUME Typed, NEW id \in Ids, Exists(id), NEW tainted \in BOOLEAN
  PROVE  /\ StateRead(id, tainted) \in State
         /\ StateRead(id, tainted).id # None =>
              /\ StateRead(id, tainted).id = id
              /\ StateRead(id, tainted).attrs = clusters[id].attrs
              /\ clusters[id].attrs \in Attrs
  BY ApiIsLegal DEF StateRead, State, NoState, Typed

\* Refresh keeps the invariant.
LEMMA RefreshInv == Inv /\ Refresh => Inv'
<1> SUFFICES ASSUME Inv, Refresh PROVE Inv'
  OBVIOUS
<1>1. tf' \in State /\ (tf'.id # None => tf'.attrs \in Attrs /\ Exists(tf'.id))
  BY StateReadTyped DEF Refresh, Inv, Typed, TypeOK, State
<1>2. d' \in ResourceData /\ d'.op = "none" /\ d'.id = None
  BY DEF Refresh, NoData, ResourceData
<1>3. QED
  BY <1>1, <1>2 DEF Refresh, Inv, Typed, TypeOK, Control, Exists, ExistsNext, Handler, Phases, Waiting

\* A plan asks for legal attributes.
LEMMA PlannedTyped == Typed /\ cfg # Absent /\ tf.id # None => Planned \in Attrs
<1> SUFFICES ASSUME Typed, cfg # Absent, tf.id # None PROVE Planned \in Attrs
  OBVIOUS
<1>1. cfg \in Attrs /\ tf.attrs \in Attrs
  BY ConfigAssumption DEF Typed, TypeOK
<1>2. QED
  BY <1>1 DEF Planned, Attrs, AttrsAt

\* The four outcomes of a plan: create, delete, update, nothing to do.
LEMMA PlanInv == Inv /\ Plan => Inv'
<1> SUFFICES ASSUME Inv, Plan PROVE Inv'
  OBVIOUS
<1>1. /\ UNCHANGED <<cfg, tf, clusters, wait, expired, calm, lost, built>>
      /\ d \in ResourceData /\ d.op = "none" /\ d.id = None
  BY DEF Plan, Inv, Typed, TypeOK, Control
<1>2. CASE /\ tf.id = None /\ cfg # Absent
           /\ d' = [d EXCEPT !.op = "create", !.new = cfg] /\ pc' = "create"
  <2>1. /\ cfg \in Attrs
        /\ d' \in ResourceData /\ d'.op = "create" /\ d'.id = None /\ d'.new = cfg
    BY <1>1, <1>2, ConfigAssumption DEF ResourceData, Inv, Typed, TypeOK
  <2>2. Typed'
    BY <1>1, <1>2, <2>1 DEF Inv, Typed, TypeOK, Exists, Handler
  <2>3. Control'
    BY <1>1, <1>2, <2>1 DEF Inv, Control, Handler, Phases, Waiting
  <2>4. QED
    BY <2>2, <2>3 DEF Inv
<1>3. CASE /\ MustDelete /\ pc' = "delete"
           /\ d' = [d EXCEPT !.op = "delete", !.id = tf.id, !.old = tf.attrs]
  <2>1. /\ tf.id \in Ids /\ tf.id # None /\ tf.attrs \in Attrs /\ Exists(tf.id)
        /\ d' \in ResourceData /\ d'.op = "delete" /\ d'.id = tf.id /\ d'.old = tf.attrs
    BY <1>1, <1>3 DEF ResourceData, Inv, Typed, TypeOK, MustDelete, State
  <2>2. Typed'
    BY <1>1, <1>3, <2>1 DEF Inv, Typed, TypeOK, Exists, Handler
  <2>3. Control'
    BY <1>1, <1>3, <2>1 DEF Inv, Control, Handler, Phases, Waiting
  <2>4. QED
    BY <2>2, <2>3 DEF Inv
<1>4. CASE /\ tf.id # None /\ ~MustDelete /\ pc' = "meta"
           /\ d' = [d EXCEPT !.op = "update", !.id = tf.id, !.old = tf.attrs, !.new = Planned]
  <2>1. /\ tf.id \in Ids /\ tf.attrs \in Attrs /\ Exists(tf.id) /\ Planned \in Attrs
        /\ d' \in ResourceData /\ d'.op = "update" /\ d'.id = tf.id
        /\ d'.old = tf.attrs /\ d'.new = Planned
    BY <1>1, <1>4, PlannedTyped DEF ResourceData, Inv, Typed, TypeOK, MustDelete, State
  <2>2. Typed'
    BY <1>1, <1>4, <2>1 DEF Inv, Typed, TypeOK, Exists, Handler, Phases
  <2>3. Control'
    BY <1>1, <1>4, <2>1 DEF Inv, Control, Handler, Phases, Waiting
  <2>4. QED
    BY <2>2, <2>3 DEF Inv
<1>5. CASE d' = NoData /\ pc' = "idle"
  <2>1. Typed'
    BY <1>1, <1>5, NullRecords DEF Inv, Typed, TypeOK, Exists
  <2>2. Control'
    BY <1>1, <1>5, NullRecords DEF Inv, Control, Handler, Phases, Waiting
  <2>3. QED
    BY <2>1, <2>2 DEF Inv
<1>6. QED
  BY <1>2, <1>3, <1>4, <1>5 DEF Plan

\* Create keeps the invariant.
LEMMA CreateInv == Inv /\ Create => Inv'
<1> SUFFICES ASSUME Inv, Create PROVE Inv'
  OBVIOUS
<1>1. /\ pc \in Handler /\ d.op = "create" /\ d.id = None /\ d.new \in Attrs
      /\ d \in ResourceData /\ lost \subseteq Ids
  BY DEF Create, Inv, Control, Typed, TypeOK, Handler
<1>2. ASSUME NEW id \in FreshIds, Provision(id),
             d' = [d EXCEPT !.id = id], StartWait("available", "read")
      PROVE  Inv'
  <2>1. id \in Ids /\ id # None
    BY NoneIsNoId DEF FreshIds
  <2>2. ClustersKept /\ ExistsNext(id)
    BY <1>1, <1>2, <2>1, ProvisionKeeps DEF Inv
  <2>3. /\ d' \in ResourceData /\ d'.op = d.op /\ d'.new = d.new
        /\ d'.old = d.old /\ d'.id = id
    BY <1>1, <1>2, <2>1 DEF ResourceData
  <2>4. QED
    BY <1>1, <1>2, <2>1, <2>2, <2>3, StartWaitKeeps
<1>3. ASSUME NEW id \in FreshIds, Provision(id), Fail, lost' = lost \union {id}
      PROVE  Inv'
  <2>1. id \in Ids
    BY DEF FreshIds
  <2>2. ClustersKept
    BY <1>1, <1>3, <2>1, ProvisionKeeps DEF Inv
  <2>3. QED
    BY <1>1, <1>3, <2>1, <2>2, FailKeeps
<1>4. CASE Fail /\ UNCHANGED <<clusters, lost>>
  BY <1>1, <1>4, SameClusters, FailKeeps DEF Inv
<1>5. QED
  BY <1>2, <1>3, <1>4 DEF Create

\* Read keeps the invariant.
LEMMA ReadInv == Inv /\ Read => Inv'
<1> SUFFICES ASSUME Inv, Read PROVE Inv'
  OBVIOUS
<1>1. /\ d.op # "none" /\ d.id \in Ids /\ Exists(d.id) /\ ClustersKept
      /\ UNCHANGED <<clusters, lost>> /\ lost \subseteq Ids /\ built \in [Ids -> Places \union {None}]
  BY SameClusters DEF Read, Inv, Control, Typed, TypeOK, Handler, ResourceData
<1>2. CASE /\ End("idle", StateRead(d.id, FALSE))
           /\ built' = IF d.op = "create" THEN [built EXCEPT ![d.id] = d.new.place] ELSE built
  <2>1. built' \in [Ids -> Places \union {None}]
    <3>1. d.op = "create" => d.new.place \in Places
      BY DEF Inv, Typed, Attrs, AttrsAt
    <3>2. QED
      BY <1>1, <1>2, <3>1
  <2>2. /\ StateRead(d.id, FALSE) \in State
        /\ StateRead(d.id, FALSE).id # None =>
             StateRead(d.id, FALSE).attrs \in Attrs /\ ExistsNext(StateRead(d.id, FALSE).id)
    BY <1>1, StateReadTyped DEF Inv, Exists, ExistsNext
  <2>3. QED
    BY <1>1, <1>2, <2>1, <2>2, EndKeeps
<1>3. CASE Fail
  BY <1>1, <1>3, FailKeeps
<1>4. QED
  BY <1>2, <1>3 DEF Read

\* The metadata command asks for legal attributes.
LEMMA MetaTargetTyped ==
  Typed /\ d.op = "update" /\ d.id \in Ids /\ Exists(d.id) => MetaTarget \in ApiAttrs
<1> SUFFICES ASSUME Typed, d.op = "update", d.id \in Ids, Exists(d.id)
             PROVE  MetaTarget \in ApiAttrs
  OBVIOUS
<1>1. clusters[d.id].attrs \in ApiAttrs /\ d.new \in Attrs
  BY DEF Typed
<1>2. QED
  BY <1>1 DEF MetaTarget, Attrs, ApiAttrs, AttrsAt

\* Where a phase of Update stands.
LEMMA PhaseFacts ==
  Inv /\ pc \in Phases =>
    /\ pc \in Handler /\ d.op = "update" /\ d.id \in Ids /\ d.id # None /\ Exists(d.id)
    /\ d.new \in Attrs /\ d.old \in Attrs /\ clusters[d.id].attrs \in ApiAttrs
    /\ lost \subseteq Ids
  BY DEF Inv, Control, Typed, TypeOK, ResourceData, Handler, Phases

\* UpdateMeta keeps the invariant.
LEMMA UpdateMetaInv == Inv /\ UpdateMeta => Inv'
<1> SUFFICES ASSUME Inv, UpdateMeta PROVE Inv'
  OBVIOUS
<1>1. pc \in Phases
  BY DEF UpdateMeta, Phases
<1>2. MetaTarget \in ApiAttrs
  BY <1>1, PhaseFacts, MetaTargetTyped DEF Inv
<1>3. CASE Skip({"name", "protected", "projection"}, "resize")
  BY <1>1, <1>3, SkipKeeps DEF Phases
<1>4. CASE Command(MetaTarget, "resize")
  BY <1>1, <1>2, <1>4, CommandKeeps DEF Phases
<1>5. ASSUME clusters' = [clusters EXCEPT ![d.id].attrs = MetaTarget]
      PROVE  ClustersKept
  <2>1. d.id \in Ids /\ clusters \in [Ids -> Cluster]
    BY <1>1, PhaseFacts DEF Inv, Typed, TypeOK
  <2>2. QED
    BY <1>2, <1>5, <2>1 DEF Inv, Typed, ClustersKept, Exists, ExistsNext, Cluster
<1>6. CASE clusters' = [clusters EXCEPT ![d.id].attrs = MetaTarget] /\ Goto("resize") /\ UNCHANGED d
  BY <1>1, <1>5, <1>6, PhaseFacts, GotoKeeps DEF Phases
<1>7. CASE clusters' = [clusters EXCEPT ![d.id].attrs = MetaTarget] /\ Fail /\ UNCHANGED lost
  BY <1>1, <1>5, <1>7, PhaseFacts, FailKeeps
<1>8. CASE Fail /\ UNCHANGED <<clusters, lost>>
  BY <1>1, <1>8, PhaseFacts, SameClusters, FailKeeps DEF Inv
<1>9. QED
  BY <1>3, <1>4, <1>6, <1>7, <1>8 DEF UpdateMeta

\* Resize keeps the invariant.
LEMMA ResizeInv == Inv /\ Resize => Inv'
<1> SUFFICES ASSUME Inv, Resize PROVE Inv'
  OBVIOUS
<1>1. pc \in Phases
  BY DEF Resize, Phases
<1>2. ResizeTarget \in ApiAttrs
  BY <1>1, PhaseFacts DEF ResizeTarget, Attrs, ApiAttrs, AttrsAt
<1>3. QED
  BY <1>1, <1>2, SkipKeeps, CommandKeeps DEF Resize, Phases

\* Upgrade keeps the invariant.
LEMMA UpgradeInv == Inv /\ Upgrade => Inv'
<1> SUFFICES ASSUME Inv, Upgrade PROVE Inv'
  OBVIOUS
<1>1. pc \in Phases
  BY DEF Upgrade, Phases
<1>2. CASE Skip({"tag"}, "expand")
  BY <1>1, <1>2, SkipKeeps DEF Phases
<1>3. CASE Fail /\ UNCHANGED <<clusters, lost>>
  BY <1>1, <1>3, PhaseFacts, SameClusters, FailKeeps DEF Inv
<1>4. CASE /\ VersionOf[d.new.tag] = d.new.version
           /\ Command(UpgradeTarget, "expand")
  <2>1. UpgradeTarget \in ApiAttrs
    BY <1>1, <1>4, PhaseFacts DEF UpgradeTarget, Attrs, ApiAttrs, AttrsAt
  <2>2. QED
    BY <1>1, <1>4, <2>1, CommandKeeps DEF Phases
<1>5. QED
  BY <1>2, <1>3, <1>4 DEF Upgrade

\* ExpandDisk keeps the invariant.
LEMMA ExpandDiskInv == Inv /\ ExpandDisk => Inv'
<1> SUFFICES ASSUME Inv, ExpandDisk PROVE Inv'
  OBVIOUS
<1>1. pc \in Phases
  BY DEF ExpandDisk, Phases
<1>2. CASE Skip({"size", "perf"}, "read")
  BY <1>1, <1>2, SkipKeeps
<1>3. CASE Fail /\ UNCHANGED <<clusters, lost>>
  BY <1>1, <1>3, PhaseFacts, SameClusters, FailKeeps DEF Inv
<1>4. CASE Command(DiskTarget, "read")
  <2>1. DiskTarget \in ApiAttrs
    BY <1>1, PhaseFacts DEF DiskTarget, Attrs, ApiAttrs, AttrsAt
  <2>2. QED
    BY <1>1, <1>4, <2>1, CommandKeeps
<1>5. QED
  BY <1>2, <1>3, <1>4 DEF ExpandDisk

\* Delete keeps the invariant.
LEMMA DeleteInv == Inv /\ Delete => Inv'
<1> SUFFICES ASSUME Inv, Delete PROVE Inv'
  OBVIOUS
<1>1. /\ pc \in Handler /\ d.op = "delete" /\ d.id \in Ids /\ d.id # None /\ Exists(d.id)
      /\ d \in ResourceData /\ lost \subseteq Ids
  BY DEF Delete, Inv, Control, Typed, TypeOK, ResourceData, Handler
<1>2. CASE Doom(d.id) /\ StartWait("deleted", "gone") /\ UNCHANGED d
  <2>1. ClustersKept
    BY <1>1, <1>2, DoomKeeps DEF Inv
  <2>2. ExistsNext(d'.id)
    BY <1>1, <1>2, <2>1 DEF ClustersKept
  <2>3. QED
    BY <1>1, <1>2, <2>1, <2>2, StartWaitKeeps
<1>3. CASE Doom(d.id) /\ Fail /\ UNCHANGED lost
  BY <1>1, <1>3, DoomKeeps, FailKeeps DEF Inv
<1>4. CASE Fail /\ UNCHANGED <<clusters, lost>>
  BY <1>1, <1>4, SameClusters, FailKeeps DEF Inv
<1>5. QED
  BY <1>2, <1>3, <1>4 DEF Delete

\* DeleteReturns keeps the invariant.
LEMMA DeleteReturnsInv == Inv /\ DeleteReturns => Inv'
<1> SUFFICES ASSUME Inv, DeleteReturns PROVE Inv'
  OBVIOUS
<1>1. ClustersKept /\ lost' \subseteq Ids /\ built' \in [Ids -> Places \union {None}]
  BY SameClusters DEF DeleteReturns, Inv, Typed, TypeOK
<1>2. QED
  BY <1>1, NullRecords, EndKeeps DEF DeleteReturns

\* WaitGet keeps the invariant.
LEMMA WaitGetInv == Inv /\ WaitGet => Inv'
<1> SUFFICES ASSUME Inv, WaitGet PROVE Inv'
  OBVIOUS
<1>1. /\ pc \in Handler /\ pc \in Waiting /\ d.op # "none" /\ d.id # None /\ lost \subseteq Ids
      /\ ClustersKept /\ UNCHANGED <<clusters, lost>>
  BY SameClusters DEF WaitGet, Inv, Control, Typed, TypeOK, ResourceData, Handler, Waiting
<1>2. CASE Fail
  BY <1>1, <1>2, FailKeeps
<1>3. CASE Seen = wait.state /\ Goto(wait.then) /\ UNCHANGED d
  <2>1. TypeOK'
    BY <1>1, <1>3 DEF Inv, Control, Typed, TypeOK, Goto, Handler, Phases
  <2>2. Typed'
    BY <1>1, <1>3, <2>1 DEF Inv, Typed, Goto, Exists
  <2>3. Control'
    BY <1>1, <1>3 DEF Inv, Control, Goto, Handler, Phases, Waiting, Seen
  <2>4. QED
    BY <2>2, <2>3 DEF Inv
<1>4. CASE Goto("sleep") /\ UNCHANGED d
  <2>1. Typed'
    BY <1>1, <1>4 DEF Inv, Typed, TypeOK, Goto, Exists, Handler, Waiting
  <2>2. Control'
    BY <1>1, <1>4 DEF Inv, Control, Goto, Handler, Phases, Waiting
  <2>3. QED
    BY <2>1, <2>2 DEF Inv
<1>5. QED
  BY <1>2, <1>3, <1>4 DEF WaitGet

\* WaitSleep keeps the invariant.
LEMMA WaitSleepInv == Inv /\ WaitSleep => Inv'
<1> SUFFICES ASSUME Inv, WaitSleep PROVE Inv'
  OBVIOUS
<1>1. /\ pc' = "get" /\ UNCHANGED <<cfg, tf, clusters, d, expired, calm, lost, built>>
      /\ wait' \in WaitRequest /\ wait'.then = wait.then /\ wait'.state = wait.state
  BY BoundAssumption DEF WaitSleep, Inv, Typed, TypeOK, WaitRequest
<1>2. Typed'
  BY <1>1 DEF Inv, Typed, TypeOK, Exists, Handler, Waiting
<1>3. Control'
  BY <1>1 DEF WaitSleep, Inv, Control, Handler, Phases, Waiting
<1>4. QED
  BY <1>2, <1>3 DEF Inv

\* Expire and Calm keep the invariant.
LEMMA ExpireInv == Inv /\ (Expire \/ Calm) => Inv'
  BY DEF Expire, Calm, Inv, Typed, TypeOK, Control, Exists

\* Crash keeps the invariant.
LEMMA CrashInv == Inv /\ Crash => Inv'
<1> SUFFICES ASSUME Inv, Crash PROVE Inv'
  OBVIOUS
<1>1. /\ ClustersKept /\ built' \in [Ids -> Places \union {None}] /\ lost' \subseteq Ids
      /\ tf \in State /\ (tf.id # None => tf.attrs \in Attrs /\ ExistsNext(tf.id))
  BY SameClusters DEF Crash, Inv, Typed, TypeOK, ResourceData, Exists, ExistsNext
<1>2. QED
  BY <1>1, EndKeeps DEF Crash

\* The API never moves a deleted cluster.
LEMMA DeletedForEver ==
  ASSUME Typed, NEW i \in Ids, NEW id \in Ids, clusters[i].status = "deleted", Finish(id) \/ Break(id)
  PROVE  clusters'[i].status = "deleted"
  BY DEF Typed, TypeOK, Finish, Break, Cluster

\* The steps of the API keep the invariant.
LEMMA ApiInv == ASSUME NEW id \in Ids, Inv, Finish(id) \/ Break(id) PROVE Inv'
<1>1. ClustersKept
  BY FinishKeeps, BreakKeeps DEF Inv
<1>2. UNCHANGED <<cfg, tf, pc, d, wait, expired, calm>>
  BY DEF Finish, Break
<1>3. Typed'
  <2>1. lost' \subseteq Ids /\ built' \in [Ids -> Places \union {None}]
    BY DEF Finish, Break, Inv, Typed, TypeOK
  <2>2. QED
    BY <1>1, <1>2, <2>1 DEF Inv, Typed, TypeOK, ClustersKept, State, ResourceData, Exists, ExistsNext
<1>4. pc = "gone" => clusters'[d.id].status = "deleted"
  BY DeletedForEver DEF Inv, Typed, TypeOK, Control, ResourceData, Handler
<1>5. Control'
  BY <1>2, <1>4 DEF Inv, Control
<1>6. QED
  BY <1>3, <1>5 DEF Inv

\* An import takes an existing cluster into an empty state.
LEMMA ImportInv == ASSUME NEW id \in Ids, Inv, Import(id) PROVE Inv'
<1>1. d.op = "none" /\ d.id = None
  BY DEF Import, Inv, Control
<1>2. /\ tf' \in State
      /\ tf'.id # None => tf'.attrs \in Attrs /\ Exists(tf'.id)
  BY StateReadTyped DEF Import, Inv, Exists
<1>3. Typed'
  BY <1>2 DEF Import, Inv, Typed, TypeOK, Exists
<1>4. Control'
  BY <1>1 DEF Import, Inv, Control, Handler, Phases, Waiting
<1>5. QED
  BY <1>3, <1>4 DEF Inv

\* Every step keeps the invariant.
LEMMA NextInv == Inv /\ [Next]_vars => Inv'
  BY StutterInv, EditInv, RefreshInv, PlanInv, CreateInv, ReadInv, UpdateMetaInv, ResizeInv,
     UpgradeInv, ExpandDiskInv, DeleteInv, DeleteReturnsInv, WaitGetInv, WaitSleepInv,
     ExpireInv, CrashInv, ImportInv, ApiInv DEF Next, Step

\* Typed and Control always hold: what the state and the handler refer to exists
\* and the handler's place, data and wait fit together.
THEOREM Invariance == Spec => []Inv
  BY InitInv, NextInv, PTL DEF Spec

-----------------------------------------------------------------------------
(***************************************************************************)
(* Type correctness.                                                       *)
(***************************************************************************)

\* The variables always have their types.
THEOREM TypeCorrect == Spec => []TypeOK
<1>1. Inv => TypeOK
  BY DEF Inv, Typed
<1>2. QED
  BY <1>1, Invariance, PTL

-----------------------------------------------------------------------------
(***************************************************************************)
(* No cluster is forgotten.                                                *)
(***************************************************************************)
AliveNext(id) == clusters'[id].status \notin {"none", "deleted"}

\* No step but a create brings a cluster to life.
NoneBorn == \A id \in Ids : AliveNext(id) => Alive(id)

\* A failure leaves what the operation held in the state.
LEMMA FailHolds ==
  ASSUME Inv, d.op # "none", Fail
  PROVE  /\ tf.id # None => tf'.id = tf.id
         /\ d.id # None => tf'.id = d.id
<1>1. tf' = StateAfterError
  BY DEF Fail, End
<1>2. d.op \in {"create", "update", "delete"}
  BY DEF Inv, Typed, TypeOK, ResourceData
<1>3. CASE d.op = "create" /\ d.id = None
  BY <1>3 DEF Inv, Control
<1>4. CASE d.op = "create" /\ d.id # None
  <2>1. tf' = [id |-> d.id, attrs |-> d.new, tainted |-> TRUE]
    BY <1>1, <1>4 DEF StateAfterError
  <2>2. QED
    BY <1>4, <2>1 DEF Inv, Control
<1>5. CASE d.op = "update"
  <2>1. tf' = [id |-> d.id, attrs |-> d.new, tainted |-> FALSE]
    BY <1>1, <1>5 DEF StateAfterError
  <2>2. QED
    BY <1>5, <2>1 DEF Inv, Control
<1>6. CASE d.op = "delete"
  <2>1. tf' = tf
    BY <1>1, <1>6 DEF StateAfterError
  <2>2. QED
    BY <1>6, <2>1 DEF Inv, Control
<1>7. QED
  BY <1>2, <1>3, <1>4, <1>5, <1>6

\* A step under which no cluster is born forgets none when it keeps the ids it
\* knows, or ends in a failure.
LEMMA KeepsKnown ==
  ASSUME Inv, NothingForgotten, NoneBorn, lost \subseteq lost',
         \/ UNCHANGED <<tf, d>>
         \/ UNCHANGED tf /\ d'.id = d.id
         \/ d.op # "none" /\ Fail
  PROVE  NothingForgotten'
<1>1. CASE d.op # "none" /\ Fail
  <2>1. /\ tf.id # None => tf'.id = tf.id
        /\ d.id # None => tf'.id = d.id
    BY <1>1, FailHolds
  <2>2. QED
    BY <2>1, NoneIsNoId DEF NothingForgotten, NoneBorn, AliveNext, Alive
<1>2. QED
  BY <1>1 DEF NothingForgotten, NoneBorn, AliveNext, Alive

\* The steps of the handlers: only Create brings a cluster to life, and it keeps
\* the id or counts it as lost.
LEMMA CreateForgetsNone == Inv /\ NothingForgotten /\ Create => NothingForgotten'
<1> SUFFICES ASSUME Inv, NothingForgotten, Create PROVE NothingForgotten'
  OBVIOUS
<1>1. d.op = "create" /\ d.id = None /\ tf.id = None
  BY DEF Create, Inv, Control, Handler
<1>2. \A i \in Ids : Alive(i) => i \in lost
  BY <1>1, NoneIsNoId DEF NothingForgotten
<1>3. ASSUME NEW id \in FreshIds, Provision(id)
      PROVE  \A i \in Ids : AliveNext(i) => Alive(i) \/ i = id
  BY <1>3 DEF Provision, AliveNext, Alive, Inv, Typed, TypeOK
<1>4. ASSUME NEW id \in FreshIds, Provision(id),
             d' = [d EXCEPT !.id = id], StartWait("available", "read")
      PROVE  NothingForgotten'
  <2>1. d'.id = id /\ lost' = lost
    BY <1>4 DEF StartWait, Inv, Typed, TypeOK, ResourceData
  <2>2. QED
    BY <1>2, <1>3, <1>4, <2>1 DEF NothingForgotten, AliveNext, Alive
<1>5. ASSUME NEW id \in FreshIds, Provision(id), lost' = lost \union {id}
      PROVE  NothingForgotten'
  BY <1>2, <1>3, <1>5 DEF NothingForgotten, AliveNext, Alive
<1>6. CASE Fail /\ UNCHANGED <<clusters, lost>>
  BY <1>1, <1>6, KeepsKnown DEF NoneBorn, AliveNext, Alive
<1>7. QED
  BY <1>4, <1>5, <1>6 DEF Create

\* A read drops the id of a deleted cluster only.
LEMMA ReadForgetsNone == Inv /\ NothingForgotten /\ Read => NothingForgotten'
<1> SUFFICES ASSUME Inv, NothingForgotten, Read PROVE NothingForgotten'
  OBVIOUS
<1>1. d.op \in {"create", "update"} /\ d.id \in Ids /\ tf.id \in {None, d.id}
  BY DEF Read, Inv, Control, Typed, TypeOK, ResourceData, Handler
<1>2. UNCHANGED <<clusters, lost>>
  BY DEF Read
<1>3. CASE End("idle", StateRead(d.id, FALSE))
  <2>1. clusters[d.id].status # "deleted" => tf'.id = d.id
    BY <1>3 DEF End, StateRead
  <2>2. QED
    BY <1>1, <1>2, <2>1, NoneIsNoId DEF NothingForgotten, Alive
<1>4. CASE Fail
  BY <1>1, <1>2, <1>4, KeepsKnown DEF NoneBorn, AliveNext, Alive
<1>5. QED
  BY <1>3, <1>4 DEF Read

\* A refresh drops the id of a deleted cluster only.
LEMMA RefreshForgetsNone == Inv /\ NothingForgotten /\ Refresh => NothingForgotten'
<1> SUFFICES ASSUME Inv, NothingForgotten, Refresh PROVE NothingForgotten'
  OBVIOUS
<1>1. d.id = None /\ UNCHANGED <<clusters, lost>>
  BY DEF Refresh, Inv, Control
<1>2. tf.id # None /\ clusters[tf.id].status # "deleted" => tf'.id = tf.id
  BY DEF Refresh, StateRead
<1>3. QED
  BY <1>1, <1>2, NoneIsNoId DEF NothingForgotten, Alive

\* A plan hands the id of the state to the handler, or nothing.
LEMMA PlanForgetsNone == Inv /\ NothingForgotten /\ Plan => NothingForgotten'
<1> SUFFICES ASSUME Inv, NothingForgotten, Plan PROVE NothingForgotten'
  OBVIOUS
<1>1. d.id = None /\ UNCHANGED <<clusters, lost, tf>>
  BY DEF Plan, Inv, Control
<1>2. QED
  BY <1>1, NoneIsNoId DEF NothingForgotten, Alive

\* What the three phases that issue a command, or a skip, do to the clusters.
LEMMA CommandForgetsNone ==
  ASSUME Inv, NothingForgotten, pc \in Phases, NEW target, NEW then, Command(target, then)
  PROVE  NothingForgotten'
<1>1. d.op = "update" /\ d.id \in Ids /\ d \in ResourceData
  BY PhaseFacts DEF Inv, Typed, TypeOK
<1>2. ASSUME Begin(d.id, target), Exists(d.id), Accepts(d.id) PROVE NoneBorn
  <2>1. \A i \in Ids : i # d.id => clusters'[i] = clusters[i]
    BY <1>2 DEF Begin, Inv, Typed, TypeOK
  <2>2. Alive(d.id)
    BY <1>2 DEF Accepts, Alive
  <2>3. QED
    BY <2>1, <2>2 DEF NoneBorn, AliveNext, Alive
<1>3. CASE /\ Accepts(d.id) /\ Begin(d.id, target)
           /\ d' = [d EXCEPT !.issued = TRUE] /\ StartWait("available", then)
  <2>1. UNCHANGED <<tf, lost>> /\ d'.id = d.id
    BY <1>1, <1>3 DEF StartWait, ResourceData
  <2>2. QED
    BY <1>2, <1>3, <2>1, PhaseFacts, KeepsKnown
<1>4. CASE Accepts(d.id) /\ Begin(d.id, target) /\ Fail /\ UNCHANGED lost
  BY <1>1, <1>2, <1>4, PhaseFacts, KeepsKnown
<1>5. CASE Fail /\ UNCHANGED <<clusters, lost>>
  BY <1>1, <1>5, KeepsKnown DEF NoneBorn, AliveNext, Alive
<1>6. QED
  BY <1>3, <1>4, <1>5 DEF Command

\* A phase with nothing to do forgets nothing.
LEMMA SkipForgetsNone ==
  ASSUME Inv, NothingForgotten, NEW fields, NEW then, Skip(fields, then)
  PROVE  NothingForgotten'
  BY KeepsKnown DEF Skip, Goto, NoneBorn, AliveNext, Alive

\* An error that changes nothing at the API forgets nothing.
LEMMA FailForgetsNone ==
  ASSUME Inv, NothingForgotten, d.op # "none", Fail, UNCHANGED <<clusters, lost>>
  PROVE  NothingForgotten'
  BY KeepsKnown DEF NoneBorn, AliveNext, Alive

\* No phase of Update forgets a cluster, however it ends.
LEMMA UpdateForgetsNone ==
  Inv /\ NothingForgotten /\ (UpdateMeta \/ Resize \/ Upgrade \/ ExpandDisk) => NothingForgotten'
<1> SUFFICES ASSUME Inv, NothingForgotten, UpdateMeta \/ Resize \/ Upgrade \/ ExpandDisk
             PROVE  NothingForgotten'
  OBVIOUS
<1>1. pc \in Phases /\ d.op # "none" /\ d.id \in Ids
  BY PhaseFacts DEF UpdateMeta, Resize, Upgrade, ExpandDisk, Phases
<1>2. CASE Resize \/ Upgrade \/ ExpandDisk
  BY <1>1, <1>2, CommandForgetsNone, SkipForgetsNone, FailForgetsNone
     DEF Resize, Upgrade, ExpandDisk
<1>3. ASSUME clusters' = [clusters EXCEPT ![d.id].attrs = MetaTarget] PROVE NoneBorn
  BY <1>1, <1>3 DEF NoneBorn, AliveNext, Alive, Inv, Typed, TypeOK, Cluster
<1>4. CASE UpdateMeta
  <2>1. CASE clusters' = [clusters EXCEPT ![d.id].attrs = MetaTarget] /\ Goto("resize") /\ UNCHANGED d
    BY <1>3, <2>1, KeepsKnown DEF Goto
  <2>2. CASE clusters' = [clusters EXCEPT ![d.id].attrs = MetaTarget] /\ Fail /\ UNCHANGED lost
    BY <1>1, <1>3, <2>2, KeepsKnown
  <2>3. QED
    BY <1>1, <1>4, <2>1, <2>2, CommandForgetsNone, SkipForgetsNone, FailForgetsNone
       DEF UpdateMeta
<1>5. QED
  BY <1>2, <1>4

\* A delete keeps the id until it has seen the cluster deleted.
LEMMA DeleteForgetsNone ==
  Inv /\ NothingForgotten /\ (Delete \/ DeleteReturns) => NothingForgotten'
<1> SUFFICES ASSUME Inv, NothingForgotten, Delete \/ DeleteReturns PROVE NothingForgotten'
  OBVIOUS
<1>1. d.op = "delete" /\ d.id \in Ids /\ Exists(d.id) /\ tf.id = d.id
  BY DEF Delete, DeleteReturns, Inv, Control, Typed, TypeOK, ResourceData, Handler
<1>2. CASE DeleteReturns
  <2>1. clusters[d.id].status = "deleted" /\ UNCHANGED <<clusters, lost>>
    BY <1>2 DEF DeleteReturns, Inv, Control
  <2>2. QED
    BY <1>1, <2>1, NoneIsNoId DEF NothingForgotten, Alive
<1>3. ASSUME Doom(d.id), AcceptsDelete(d.id) PROVE NoneBorn
  <2>1. \A i \in Ids : i # d.id => clusters'[i] = clusters[i]
    BY <1>3 DEF Doom, Inv, Typed, TypeOK
  <2>2. Alive(d.id)
    BY <1>1, <1>3 DEF AcceptsDelete, Alive, Exists
  <2>3. QED
    BY <2>1, <2>2 DEF NoneBorn, AliveNext, Alive
<1>4. CASE Delete
  <2>1. CASE AcceptsDelete(d.id) /\ Doom(d.id) /\ StartWait("deleted", "gone") /\ UNCHANGED d
    BY <1>3, <2>1, KeepsKnown DEF StartWait
  <2>2. CASE AcceptsDelete(d.id) /\ Doom(d.id) /\ Fail /\ UNCHANGED lost
    BY <1>1, <1>3, <2>2, KeepsKnown
  <2>3. QED
    BY <1>1, <1>4, <2>1, <2>2, FailForgetsNone DEF Delete
<1>5. QED
  BY <1>2, <1>4

\* Neither a poll nor a sleep forgets a cluster.
LEMMA WaitForgetsNone ==
  Inv /\ NothingForgotten /\ (WaitGet \/ WaitSleep) => NothingForgotten'
<1> SUFFICES ASSUME Inv, NothingForgotten, WaitGet \/ WaitSleep PROVE NothingForgotten'
  OBVIOUS
<1>1. d.op # "none" /\ UNCHANGED <<clusters, lost>>
  BY DEF WaitGet, WaitSleep, Inv, Control, Handler, Waiting
<1>2. UNCHANGED <<tf, d>> \/ Fail
  BY DEF WaitGet, WaitSleep, Goto
<1>3. QED
  BY <1>1, <1>2, KeepsKnown DEF NoneBorn, AliveNext, Alive

\* A crash keeps the state from before the operation: what a create began is lost.
LEMMA CrashForgetsNone == Inv /\ NothingForgotten /\ Crash => NothingForgotten'
<1> SUFFICES ASSUME Inv, NothingForgotten, Crash PROVE NothingForgotten'
  OBVIOUS
<1>1. UNCHANGED <<clusters, tf>> /\ lost \subseteq lost'
  BY DEF Crash, End
<1>2. d.id # None => d.id \in lost' \union {tf.id}
  BY DEF Crash, Inv, Typed, TypeOK, ResourceData, Control, Handler
<1>3. QED
  BY <1>1, <1>2, NoneIsNoId DEF NothingForgotten, Alive

\* The API brings no cluster to life by itself, and what it counts as lost no more is deleted.
LEMMA ApiForgetsNone ==
  ASSUME NEW id \in Ids, Inv, NothingForgotten, Finish(id) \/ Break(id)
  PROVE  NothingForgotten'
<1>1. UNCHANGED <<tf, d>> /\ clusters \in [Ids -> Cluster]
  BY DEF Finish, Break, Inv, Typed, TypeOK
<1>2. \A i \in Ids : AliveNext(i) => Alive(i)
  BY <1>1 DEF AliveNext, Alive, Finish, Break, Cluster
<1>3. \A i \in Ids : AliveNext(i) /\ i \in lost => i \in lost'
  BY <1>1 DEF AliveNext, Finish, Break, Cluster
<1>4. QED
  BY <1>1, <1>2, <1>3 DEF NothingForgotten, Alive, AliveNext

\* An import holds what it no longer counts as lost.
LEMMA ImportForgetsNone ==
  ASSUME NEW id \in Ids, Inv, NothingForgotten, Import(id)
  PROVE  NothingForgotten'
<1>1. /\ UNCHANGED <<clusters, d>> /\ tf.id = None /\ lost' = lost \ {id}
      /\ tf'.id = id
  BY DEF Import, StateRead
<1>2. QED
  BY <1>1, NoneIsNoId DEF NothingForgotten, Alive

\* A cluster that is not deleted is in the state, in the running handler, or lost
\* between the API's acceptance and the saving of its id.
THEOREM NeverForgotten == Spec => []NothingForgotten
<1>1. Init => NothingForgotten
  BY NullRecords DEF Init, NothingForgotten, Alive
<1>2. Inv /\ NothingForgotten /\ [Next]_vars => NothingForgotten'
  <2> SUFFICES ASSUME Inv, NothingForgotten, [Next]_vars PROVE NothingForgotten'
    OBVIOUS
  <2>1. CASE Edit \/ Expire \/ Calm \/ UNCHANGED vars
    BY <2>1 DEF Edit, Expire, Calm, vars, NothingForgotten, Alive
  <2>2. QED
    BY <2>1, CreateForgetsNone, ReadForgetsNone, RefreshForgetsNone, PlanForgetsNone,
       UpdateForgetsNone, DeleteForgetsNone, WaitForgetsNone, CrashForgetsNone, ImportForgetsNone,
       ApiForgetsNone
       DEF Next, Step
<1>3. QED
  BY <1>1, <1>2, Invariance, PTL DEF Spec

-----------------------------------------------------------------------------
(***************************************************************************)
(* The steps of an operation do not overlap.  Inductive once it is known   *)
(* that no operation begins with a command of its own under way.           *)
(***************************************************************************)
Fresh == pc \in {"idle", "plan"} => ~d.issued

StepInv == Fresh /\ StepsDoNotOverlap

\* The end of an operation, and the beginning of a wait, establish it.
LEMMA EndSteps ==
  ASSUME NEW where \in {"idle", "plan"}, NEW state, End(where, state)
  PROVE  StepInv'
  BY DEF End, NoData, StepInv, Fresh, StepsDoNotOverlap, Phases

\* An error ends the operation.
LEMMA FailSteps == Fail => StepInv'
  BY EndSteps DEF Fail

\* A wait comes between a command and the next phase.
LEMMA StartWaitSteps ==
  ASSUME NEW state, NEW then, StartWait(state, then)
  PROVE  StepInv'
  BY DEF StartWait, StepInv, Fresh, StepsDoNotOverlap, Phases

\* A command is waited for or ends the operation.
LEMMA CommandSteps ==
  ASSUME NEW target, NEW then, Command(target, then)
  PROVE  StepInv'
  BY FailSteps, StartWaitSteps DEF Command

\* Going on to the next phase does not disturb the clusters.
LEMMA SkipSteps ==
  ASSUME Inv, StepInv, pc \in Phases, NEW fields,
         NEW then \in Phases \union {"read"}, Skip(fields, then)
  PROVE  StepInv'
  BY DEF Skip, Goto, StepInv, Fresh, StepsDoNotOverlap, Phases

\* No phase of Update leaves its command under way for the next one.
LEMMA UpdateSteps ==
  Inv /\ StepInv /\ (UpdateMeta \/ Resize \/ Upgrade \/ ExpandDisk) => StepInv'
<1> SUFFICES ASSUME Inv, StepInv, UpdateMeta \/ Resize \/ Upgrade \/ ExpandDisk PROVE StepInv'
  OBVIOUS
<1>1. pc \in Phases
  BY DEF UpdateMeta, Resize, Upgrade, ExpandDisk, Phases
<1>2. CASE Resize \/ Upgrade \/ ExpandDisk
  BY <1>1, <1>2, CommandSteps, SkipSteps, FailSteps DEF Resize, Upgrade, ExpandDisk, Phases
<1>3. CASE UpdateMeta
  <2>1. CASE clusters' = [clusters EXCEPT ![d.id].attrs = MetaTarget] /\ Goto("resize") /\ UNCHANGED d
    <3>1. clusters'[d.id].job = clusters[d.id].job
      BY <1>1, <2>1, PhaseFacts DEF Inv, Typed, TypeOK, Cluster
    <3>2. QED
      BY <1>1, <2>1, <3>1 DEF Goto, StepInv, Fresh, StepsDoNotOverlap, Phases
  <2>2. QED
    BY <1>1, <1>3, <2>1, CommandSteps, SkipSteps, FailSteps DEF UpdateMeta, Phases
<1>4. QED
  BY <1>2, <1>3

\* A wait that succeeds has seen the cluster available.
LEMMA WaitSteps == Inv /\ StepInv /\ (WaitGet \/ WaitSleep) => StepInv'
<1> SUFFICES ASSUME Inv, StepInv, WaitGet \/ WaitSleep PROVE StepInv'
  OBVIOUS
<1>1. CASE Fail
  BY <1>1, FailSteps
<1>2. CASE pc' \in Waiting
  BY <1>2 DEF StepInv, Fresh, StepsDoNotOverlap, Waiting, Phases
<1>3. CASE WaitGet /\ Seen = wait.state /\ Goto(wait.then) /\ UNCHANGED d
  <2>1. /\ pc \in Waiting /\ d.id \in Ids /\ UNCHANGED clusters
        /\ pc' = wait.then
    BY <1>3 DEF WaitGet, Waiting, Goto, Inv, Control, Typed, TypeOK, ResourceData, Handler
  <2>2. CASE wait.state = "available" /\ wait.then \in Phases \union {"read"}
    <3>1. clusters'[d.id].job = "none"
      BY <1>3, <2>1, <2>2 DEF Inv, Typed, Seen
    <3>2. QED
      BY <1>3, <2>1, <2>2, <3>1 DEF StepInv, Fresh, StepsDoNotOverlap, Phases
  <2>3. CASE wait.then = "gone"
    BY <2>1, <2>3 DEF StepInv, Fresh, StepsDoNotOverlap, Phases
  <2>4. QED
    BY <2>1, <2>2, <2>3 DEF Inv, Control
<1>4. QED
  BY <1>1, <1>2, <1>3 DEF WaitGet, WaitSleep, Goto, Waiting

\* An operation begins without a command of its own.
LEMMA PlanSteps == Inv /\ StepInv /\ (Plan \/ Refresh) => StepInv'
<1> SUFFICES ASSUME Inv, StepInv, Plan \/ Refresh PROVE StepInv'
  OBVIOUS
<1>1. CASE Refresh
  BY <1>1 DEF Refresh, NoData, StepInv, Fresh, StepsDoNotOverlap, Phases
<1>2. CASE Plan
  <2>1. d \in ResourceData /\ ~d.issued /\ d.op = "none"
    BY <1>2 DEF Plan, StepInv, Fresh, Inv, Control, Typed, TypeOK
  <2>2. pc' = "meta" => ~d'.issued /\ d'.op = "update"
    BY <1>2, <2>1 DEF Plan, ResourceData
  <2>3. pc' \in {"idle", "plan"} => ~d'.issued
    BY <1>2, <2>1 DEF Plan, NoData
  <2>4. pc' \in {"idle", "create", "delete", "meta"}
    BY <1>2 DEF Plan
  <2>5. QED
    BY <2>2, <2>3, <2>4 DEF StepInv, Fresh, StepsDoNotOverlap, Phases
<1>3. QED
  BY <1>1, <1>2

\* The API does not begin anything of its own: a cluster at rest stays at rest.
LEMMA ApiSteps ==
  ASSUME NEW id \in Ids, Inv, StepInv, Finish(id) \/ Break(id)
  PROVE  StepInv'
<1>1. UNCHANGED <<pc, d>>
  BY DEF Finish, Break
<1>2. \A i \in Ids : clusters[i].job = "none" => clusters'[i].job = "none"
  BY DEF Finish, Break, Inv, Typed, TypeOK, Cluster
<1>3. pc \in Phases \union {"read"} => d.id \in Ids
  BY DEF Inv, Control, Typed, TypeOK, ResourceData, Handler, Phases
<1>4. QED
  BY <1>1, <1>2, <1>3 DEF StepInv, Fresh, StepsDoNotOverlap

\* When a handler turns to its next command, or to its final read, the command it
\* issued before is done.
THEOREM NoOverlap == Spec => []StepsDoNotOverlap
<1>1. Init => StepInv
  BY NullRecords DEF Init, StepInv, Fresh, StepsDoNotOverlap, NoData, Phases
<1>2. Inv /\ StepInv /\ [Next]_vars => StepInv'
  <2> SUFFICES ASSUME Inv, StepInv, [Next]_vars PROVE StepInv'
    OBVIOUS
  <2>1. CASE Edit \/ Expire \/ Calm \/ UNCHANGED vars
    BY <2>1 DEF Edit, Expire, Calm, vars, StepInv, Fresh, StepsDoNotOverlap
  <2>2. CASE Create \/ Delete
    BY <2>2, FailSteps, StartWaitSteps DEF Create, Delete
  <2>3. CASE Read \/ DeleteReturns \/ Crash
    BY <2>3, FailSteps, EndSteps DEF Read, DeleteReturns, Crash
  <2>4. ASSUME NEW id \in Ids, Import(id) PROVE StepInv'
    BY <2>4 DEF Import, StepInv, Fresh, StepsDoNotOverlap
  <2>5. QED
    BY <2>1, <2>2, <2>3, <2>4, PlanSteps, UpdateSteps, WaitSteps, ApiSteps DEF Next, Step
<1>3. StepInv => StepsDoNotOverlap
  BY DEF StepInv
<1>4. QED
  BY <1>1, <1>2, <1>3, Invariance, PTL DEF Spec

-----------------------------------------------------------------------------
(***************************************************************************)
(* The waits implement Polling.                                            *)
(***************************************************************************)
PollStep == [Waits!Next]_<<WaitPhase, WaitGoal>>

\* The phase is that of the place and of the wait, and nothing else.
LEMMA PhaseKept ==
  ASSUME UNCHANGED wait, pc \in Waiting <=> pc' \in Waiting
  PROVE  PollStep
  BY DEF PollStep, WaitPhase, WaitGoal, Waiting

\* The end of a handler leaves a wait that was reached, or gives one up with a reason.
LEMMA EndPolls ==
  ASSUME Inv, NEW where \in {"idle", "plan"}, NEW state, End(where, state),
         pc \in Waiting => expired \/ ~calm \/ Seen = "defunct"
  PROVE  PollStep
<1>1. WaitPhase' = "idle" /\ WaitGoal' = "none"
  BY DEF End, WaitPhase, WaitGoal
<1>2. CASE pc \in Waiting
  <2>1. WaitPhase = "waiting" /\ d.id # None
    BY <1>2 DEF WaitPhase, Waiting, Inv, Control, Handler
  <2>2. QED
    BY <1>1, <1>2, <2>1 DEF PollStep, Waits!Next, Waits!GiveUp
<1>3. CASE pc \notin Waiting
  <2>1. WaitPhase \in {"idle", "reached"}
    BY <1>3 DEF WaitPhase, Waiting
  <2>2. QED
    BY <1>1, <2>1 DEF PollStep, Waits!Next, Waits!Leave, WaitGoal
<1>4. QED
  BY <1>2, <1>3

\* A handler that does not wait may fail.
LEMMA FailPolls == Inv /\ pc \notin Waiting /\ Fail => PollStep
  BY EndPolls DEF Fail

\* A wait begins with a state to wait for, and not in the middle of another.
LEMMA StartWaitPolls ==
  ASSUME pc \notin Waiting, NEW state \in {"available", "deleted"}, NEW then, StartWait(state, then)
  PROVE  PollStep
<1>1. WaitPhase # "waiting"
  BY DEF WaitPhase, Waiting
<1>2. WaitPhase' = "waiting" /\ WaitGoal' # "none"
  BY DEF StartWait, WaitPhase, WaitGoal
<1>3. QED
  BY <1>1, <1>2 DEF PollStep, Waits!Next, Waits!Begin

\* A phase begins a wait, fails or goes on.
LEMMA UpdatePolls ==
  ASSUME Inv, UpdateMeta \/ Resize \/ Upgrade \/ ExpandDisk
  PROVE  PollStep
<1>1. pc \notin Waiting
  BY DEF UpdateMeta, Resize, Upgrade, ExpandDisk, Waiting
<1>2. ASSUME NEW target, NEW then, Command(target, then) PROVE PollStep
  BY <1>1, <1>2, StartWaitPolls, FailPolls DEF Command
<1>3. ASSUME NEW then \in Phases \union {"read"}, Goto(then) PROVE PollStep
  BY <1>1, <1>3, PhaseKept DEF Goto, Waiting, Phases
<1>4. QED
  BY <1>1, <1>2, <1>3, FailPolls DEF UpdateMeta, Resize, Upgrade, ExpandDisk, Skip, Phases

\* A poll reaches the state, fails with a reason or goes on polling.
LEMMA WaitGetPolls == Inv /\ WaitGet => PollStep
<1> SUFFICES ASSUME Inv, WaitGet PROVE PollStep
  OBVIOUS
<1>1. /\ pc = "get" /\ pc \in Waiting /\ WaitPhase = "waiting" /\ WaitGoal = wait.state
      /\ d.id # None
  BY DEF WaitGet, Waiting, WaitPhase, WaitGoal, Inv, Control, Handler
<1>2. wait # NoWait /\ wait.then \notin Waiting
  BY <1>1 DEF Inv, Control, NoWait, Phases, Waiting
<1>3. CASE Seen = wait.state /\ Goto(wait.then)
  <2>1. WaitPhase' = "reached" /\ WaitGoal' = wait.state
    BY <1>2, <1>3 DEF Goto, WaitPhase, WaitGoal, Waiting
  <2>2. QED
    BY <1>1, <1>3, <2>1 DEF PollStep, Waits!Next, Waits!Reach
<1>4. CASE Goto("sleep")
  BY <1>1, <1>4, PhaseKept DEF Goto, Waiting
<1>5. CASE Fail /\ (GiveUp \/ MayFail)
  BY <1>5, EndPolls DEF Fail, GiveUp, MayFail
<1>6. QED
  BY <1>3, <1>4, <1>5 DEF WaitGet

\* A sleep is part of the wait.
LEMMA WaitSleepPolls == Inv /\ WaitSleep => PollStep
<1> SUFFICES ASSUME Inv, WaitSleep PROVE PollStep
  OBVIOUS
<1>1. wait'.state = wait.state
  BY DEF WaitSleep, Inv, Typed, TypeOK, WaitRequest
<1>2. QED
  BY <1>1 DEF WaitSleep, PollStep, WaitPhase, WaitGoal

\* A step of the API or of the user is none of the wait's.
LEMMA OutsidePolls ==
  ASSUME UNCHANGED <<pc, wait>>
  PROVE  PollStep
  BY PhaseKept

\* Every wait succeeds only when it sees the status it was asked for, and is given up only
\* for a failed cluster, a failed request or the end of its time.
THEOREM WaitsArePolls == Spec => Polls
<1>1. Init => Waits!Init
  BY DEF Init, Waits!Init, WaitPhase, WaitGoal
<1>2. Inv /\ [Next]_vars => [Waits!Next]_<<WaitPhase, WaitGoal>>
  <2> SUFFICES ASSUME Inv, [Next]_vars PROVE PollStep
    BY DEF PollStep
  <2>1. CASE UNCHANGED vars \/ Edit \/ Expire \/ Calm
    BY <2>1, OutsidePolls DEF vars, Edit, Expire, Calm
  <2>2. CASE Refresh \/ Plan
    BY <2>2, PhaseKept DEF Refresh, Plan, Waiting
  <2>3. CASE Create
    BY <2>3, StartWaitPolls, FailPolls DEF Create, Waiting
  <2>4. CASE Read
    BY <2>4, EndPolls, FailPolls DEF Read, Waiting
  <2>5. CASE Delete
    BY <2>5, StartWaitPolls, FailPolls DEF Delete, Waiting
  <2>6. CASE DeleteReturns
    BY <2>6, EndPolls DEF DeleteReturns, Waiting
  <2>7. CASE Crash
    BY <2>7, EndPolls DEF Crash
  <2>8. ASSUME NEW id \in Ids, Import(id) \/ Finish(id) \/ Break(id) PROVE PollStep
    BY <2>8, OutsidePolls DEF Import, Finish, Break
  <2>9. QED
    BY <2>1, <2>2, <2>3, <2>4, <2>5, <2>6, <2>7, <2>8, UpdatePolls, WaitGetPolls, WaitSleepPolls
       DEF Next, Step
<1>3. QED
  BY <1>1, <1>2, Invariance, PTL DEF Spec, Polls, Waits!Spec
=============================================================================
