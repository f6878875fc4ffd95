-------------------------- MODULE ReplicaSetProofs --------------------------
(***************************************************************************)
(* Proofs about ReplicaSet, for every set of clusters, of counts and of    *)
(* statuses that linger, and for every grace period.                       *)
(***************************************************************************)
EXTENDS ReplicaSet, TLAPS

State == [id: Clusters \union {None}, attrs: Attrs \union {None}, tainted: BOOLEAN]
ASet ==
  [status: Statuses, job: Jobs \union {"none"}, target: Attrs \union {None},
    attrs: Attrs \union {None}]
ResourceData ==
  [op: {"none", "create", "update", "delete"}, id: Clusters \union {None}, new: Config \union {None}]
WaitRequest ==
  [state: {"none", "available", "deleted"}, then: {"idle", "read", "gone"}, elapsed: 0 .. Grace + 1]

Known(c) == sets[c].status # "none"
KnownNext(c) == sets'[c].status # "none"

\* A replica set has attributes, and shows that work is done on it, but for a status
\* that lingers.
SetOK(s) ==
  /\ s.status # "none" => s.attrs \in Attrs
  /\ s.job # "none" => s.target \in Attrs /\ (s.status = Working[s.job] \/ s.status \in Lingering)

(***************************************************************************)
(* The inductive invariant.  Typed: what is referred to exists and has     *)
(* attributes, and the API's sets are in order.  Control: the place of a   *)
(* handler fits its operation, its ResourceData, its wait and the saved    *)
(* state.                                                                  *)
(***************************************************************************)
Typed ==
  /\ TypeOK
  /\ \A c \in Clusters : SetOK(sets[c])
  /\ tf.id # None => tf.attrs \in Attrs /\ Known(tf.id)
  /\ d.id # None => Known(d.id)
  /\ d.op \in {"create", "update"} => d.new \in Config

Control ==
  /\ pc \in {"idle", "plan"} => d.op = "none" /\ d.id = None
  /\ pc \in Handler => (d.id = None <=> pc = "create")
  /\ pc = "create" => d.op = "create"
  /\ pc = "read" => d.op \in {"create", "update"}
  /\ pc = "update" => d.op = "update"
  /\ pc \in {"delete", "gone"} => d.op = "delete"
  /\ pc \in Waiting =>
       \/ d.op \in {"create", "update"} /\ wait.then = "read" /\ wait.state = "available"
       \/ d.op = "delete" /\ wait.then = "gone" /\ wait.state = "deleted"
  /\ d.op = "create" => tf.id = None
  /\ d.op \in {"update", "delete"} => tf.id = d.id
  /\ pc = "gone" => sets[d.id].status = "deleted"

Inv == Typed /\ Control

\* None is not a cluster.
LEMMA NoneIsNoId == None \notin Clusters
  BY NullAssumption

\* The API's work and its failures, by job.
LEMMA JobsAre ==
  /\ Jobs = {"create", "change", "delete"}
  /\ Working["create"] = "provisioning" /\ Working["change"] = "changing"
  /\ Working["delete"] = "deleting"
  /\ Failed["create"] = {"compute create failed", "install failed"}
  /\ Failed["change"] = {"replica count change failed", "config change failed"}
  /\ Failed["delete"] = {"delete failed"}
  BY DEF Jobs, Working, Failed

LEMMA StatusesAre ==
  /\ Statuses = {"none", "available", "deleted", "provisioning", "changing", "deleting"}
                   \union FailureStates
  /\ FailureStates = TerminalFailures \union {"defunct"}
  /\ Broken \subseteq FailureStates /\ Lingering \subseteq FailureStates
  /\ \A j \in Jobs : Failed[j] \subseteq FailureStates
  /\ FailureStates \intersect {"none", "available", "deleted", "provisioning", "changing",
                              "deleting"} = {}
<1> HIDE DEF Jobs, Working, Failed
<1>1. {Working[j] : j \in Jobs} = {"provisioning", "changing", "deleting"}
  BY JobsAre
<1>2. UNION {Failed[j] : j \in Jobs} = Failed["create"] \union Failed["change"] \union Failed["delete"]
  BY JobsAre
<1>3. FailureStates = TerminalFailures \union {"defunct"}
  BY <1>2, JobsAre DEF FailureStates, Broken, TerminalFailures
<1>4. Broken \subseteq FailureStates /\ \A j \in Jobs : Failed[j] \subseteq FailureStates
  BY DEF FailureStates
<1>5. FailureStates \intersect {"none", "available", "deleted", "provisioning", "changing",
                               "deleting"} = {}
  BY <1>3 DEF TerminalFailures
<1>6. QED
  BY <1>1, <1>3, <1>4, <1>5, LingeringAssumption DEF Statuses

\* The null records have their types.
LEMMA NullRecords ==
  /\ NoState \in State /\ NoState.id = None
  /\ NoData \in ResourceData /\ NoData.op = "none" /\ NoData.id = None
  /\ NoSet \in ASet /\ NoSet.status = "none" /\ NoSet.job = "none"
  /\ NoWait \in WaitRequest
<1>1. 0 \in 0 .. Grace + 1
  BY BoundAssumption
<1>2. QED
  BY <1>1, StatusesAre DEF NoState, State, NoData, ResourceData, NoSet, ASet, NoWait, WaitRequest

-----------------------------------------------------------------------------
(***************************************************************************)
(* What no step does to the replica sets: none is unheard of again, and    *)
(* none is deleted and comes back, but for one that is created anew.       *)
(***************************************************************************)
Kept ==
  /\ sets' \in [Clusters -> ASet]
  /\ \A c \in Clusters :
       /\ SetOK(sets'[c])
       /\ Known(c) => KnownNext(c)
       /\ sets[c].status = "deleted" /\ pc # "create" => sets'[c].status = "deleted"

\* A step that leaves the replica sets alone.
LEMMA SameKept == Typed /\ UNCHANGED sets => Kept
  BY DEF Typed, TypeOK, Kept, ASet, Known, KnownNext

\* A step that changes one replica set.
LEMMA OneKept ==
  ASSUME Typed, NEW c \in Clusters, NEW s \in ASet, sets' = [sets EXCEPT ![c] = s],
         SetOK(s), s.status # "none", sets[c].status = "deleted" => pc = "create"
  PROVE  Kept /\ sets'[c] = s /\ \A k \in Clusters \ {c} : sets'[k] = sets[k]
<1>1. sets'[c] = s /\ \A k \in Clusters \ {c} : sets'[k] = sets[k]
  BY DEF Typed, TypeOK
<1>2. sets' \in [Clusters -> ASet]
  BY DEF Typed, TypeOK, ASet
<1>3. QED
  BY <1>1, <1>2 DEF Typed, Kept, Known, KnownNext

\* A new replica set, for a cluster that has none or had one.
LEMMA ProvisionKept ==
  ASSUME Typed, NEW c \in Clusters, d.new.attrs \in Attrs, pc = "create", Provision(c)
  PROVE  /\ Kept /\ \A k \in Clusters \ {c} : sets'[k] = sets[k]
         /\ sets'[c].status = "provisioning" /\ sets'[c].job = "create"
         /\ sets'[c].target = d.new.attrs /\ sets'[c].attrs = d.new.attrs
<1> DEFINE s == [status |-> Working["create"], job |-> "create",
                 target |-> d.new.attrs, attrs |-> d.new.attrs]
<1>1. s \in ASet /\ s.status = "provisioning" /\ s.job = "create"
      /\ s.target = d.new.attrs /\ s.attrs = d.new.attrs
  BY JobsAre, StatusesAre DEF ASet
<1>2. SetOK(s)
  BY JobsAre DEF SetOK
<1>3. sets' = [sets EXCEPT ![c] = s]
  BY DEF Provision
<1> HIDE DEF s
<1>4. QED
  BY <1>1, <1>2, <1>3, OneKept

\* A command the API accepts: it shows its work, or a status that lingers.
LEMMA BeginKept ==
  ASSUME Typed, NEW c \in Clusters, NEW job \in Jobs, NEW target \in Attrs,
         sets[c].status \notin {"none", "deleted"}, Begin(c, job, target)
  PROVE  /\ Kept /\ \A k \in Clusters \ {c} : sets'[k] = sets[k]
         /\ sets'[c].job = job /\ sets'[c].target = target /\ sets'[c].attrs = sets[c].attrs
         /\ sets'[c].status = Working[job] \/ sets'[c].status \in Lingering
<1>1. PICK status \in {Working[job]} \union ({sets[c].status} \intersect Lingering) :
        sets' = [sets EXCEPT ![c] =
          [sets[c] EXCEPT !.status = status, !.job = job, !.target = target]]
  BY DEF Begin
<1>2. sets[c] \in ASet /\ sets[c].attrs \in Attrs
  BY DEF Typed, TypeOK, ASet, SetOK
<1>3. status \in Statuses /\ status # "none"
  BY JobsAre, StatusesAre
<1> DEFINE s == [sets[c] EXCEPT !.status = status, !.job = job, !.target = target]
<1>4. s \in ASet /\ s.status = status /\ s.job = job /\ s.target = target /\ s.attrs = sets[c].attrs
  BY <1>2, <1>3 DEF ASet
<1>5. sets' = [sets EXCEPT ![c] = s]
  BY <1>1
<1> HIDE DEF s
<1>6. SetOK(s)
  BY <1>2, <1>4 DEF SetOK
<1>7. QED
  BY <1>3, <1>4, <1>5, <1>6, OneKept

\* The steps of the API: it shows its work, finishes it, fails to do it, or breaks.
Api(c) == Publish(c) \/ Finish(c) \/ Falter(c) \/ Break(c)

LEMMA ApiOnly ==
  ASSUME NEW c \in Clusters, Api(c)
  PROVE  UNCHANGED <<cfg, tf, pc, d, wait, expired, calm, lost>>
  BY DEF Api, Publish, Finish, Falter, Break, Become

\* They change one set, which is not deleted; and what they leave in it.
LEMMA ApiKept ==
  ASSUME Typed, NEW c \in Clusters, Api(c)
  PROVE  /\ Kept /\ \A k \in Clusters \ {c} : sets'[k] = sets[k]
         /\ sets[c].status \notin {"none", "deleted"}
         /\ \/ sets'[c].attrs = sets[c].attrs /\ sets'[c].job = sets[c].job
               /\ sets'[c].target = sets[c].target /\ sets'[c].status # "available"
            \/ sets[c].job # "none" /\ sets'[c].job = "none" /\ sets'[c].attrs = sets[c].target
            \/ sets'[c].job = "none" /\ sets'[c].status # "available"
               /\ sets'[c].attrs = sets[c].attrs
<1>1. sets[c] \in ASet /\ SetOK(sets[c])
  BY DEF Typed, TypeOK, ASet
<1>2. sets[c].job # "none" => sets[c].job \in Jobs /\ sets[c].status \notin {"none", "deleted"}
  BY <1>1, JobsAre, StatusesAre DEF ASet, SetOK
<1>3. sets[c].status \notin {"none", "deleted"} /\ sets[c].attrs \in Attrs
  BY <1>1, <1>2 DEF Api, Publish, Finish, Falter, Break, AtWork, SetOK
<1>4. CASE Publish(c)
  <2> DEFINE s == [sets[c] EXCEPT !.status = Working[sets[c].job]]
  <2>1. Working[sets[c].job] \in Statuses \ {"none", "available"} /\ sets[c].job # "none"
    BY <1>2, <1>4, JobsAre, StatusesAre DEF Publish
  <2>2. /\ s \in ASet /\ s.status = Working[sets[c].job] /\ s.job = sets[c].job
        /\ s.target = sets[c].target /\ s.attrs = sets[c].attrs
    BY <1>1, <2>1 DEF ASet
  <2>3. sets' = [sets EXCEPT ![c] = s]
    BY <1>4 DEF Publish, Become
  <2> HIDE DEF s
  <2>4. SetOK(s)
    BY <1>1, <1>3, <2>2 DEF SetOK
  <2>5. QED
    BY <1>3, <2>1, <2>2, <2>3, <2>4, OneKept
<1>5. CASE Finish(c)
  <2> DEFINE s == [status |-> IF sets[c].job = "delete" THEN "deleted" ELSE "available",
                   job |-> "none", target |-> None, attrs |-> sets[c].target]
  <2>1. sets[c].job # "none" /\ sets[c].target \in Attrs
    BY <1>1, <1>5 DEF Finish, AtWork, SetOK
  <2>2. s \in ASet /\ s.status # "none" /\ s.job = "none" /\ s.attrs = sets[c].target
    BY <2>1, StatusesAre DEF ASet
  <2>3. sets' = [sets EXCEPT ![c] = s]
    BY <1>5 DEF Finish, Become
  <2> HIDE DEF s
  <2>4. SetOK(s)
    BY <2>1, <2>2 DEF SetOK
  <2>5. QED
    BY <1>3, <2>1, <2>2, <2>3, <2>4, OneKept
<1>6. CASE Falter(c)
  <2>1. PICK status \in Failed[sets[c].job] \union {"defunct"} :
          sets' = [sets EXCEPT ![c] =
            [sets[c] EXCEPT !.status = status, !.job = "none", !.target = None]]
    BY <1>6 DEF Falter, Become
  <2> DEFINE s == [sets[c] EXCEPT !.status = status, !.job = "none", !.target = None]
  <2>2. status \in Statuses \ {"none", "available"}
    BY <1>2, <1>6, StatusesAre DEF Falter, AtWork
  <2>3. s \in ASet /\ s.status = status /\ s.job = "none" /\ s.attrs = sets[c].attrs
    BY <1>1, <2>2 DEF ASet
  <2>4. sets' = [sets EXCEPT ![c] = s]
    BY <2>1
  <2> HIDE DEF s
  <2>5. SetOK(s)
    BY <1>3, <2>3 DEF SetOK
  <2>6. QED
    BY <1>3, <2>2, <2>3, <2>4, <2>5, OneKept
<1>7. CASE Break(c)
  <2>1. PICK status \in Broken : sets' = [sets EXCEPT ![c] = [sets[c] EXCEPT !.status = status]]
    BY <1>7 DEF Break, Become
  <2> DEFINE s == [sets[c] EXCEPT !.status = status]
  <2>2. status \in Statuses \ {"none", "available"} /\ sets[c].job = "none"
    BY <1>7, StatusesAre DEF Break
  <2>3. s \in ASet /\ s.status = status /\ s.job = "none" /\ s.attrs = sets[c].attrs
    BY <1>1, <2>2 DEF ASet
  <2>4. sets' = [sets EXCEPT ![c] = s]
    BY <2>1
  <2> HIDE DEF s
  <2>5. SetOK(s)
    BY <1>3, <2>3 DEF SetOK
  <2>6. QED
    BY <1>3, <2>2, <2>3, <2>4, <2>5, OneKept
<1>8. QED
  BY <1>4, <1>5, <1>6, <1>7 DEF Api

\* What a change and a delete do to the set they are asked for.
LEMMA ChangeKept ==
  ASSUME Inv, pc = "update", AcceptsChange(d.id), Change(d.id)
  PROVE  /\ Kept /\ \A k \in Clusters \ {d.id} : sets'[k] = sets[k]
         /\ sets'[d.id].job = "change" /\ sets'[d.id].target = d.new.attrs
         /\ sets'[d.id].status = Working["change"] \/ sets'[d.id].status \in Lingering
<1>1. d.id \in Clusters /\ d.new.attrs \in Attrs /\ "change" \in Jobs
  BY JobsAre DEF Inv, Control, Typed, TypeOK, Handler, Config
<1>2. sets[d.id].status \notin {"none", "deleted"}
  BY JobsAre DEF AcceptsChange
<1>3. QED
  BY <1>1, <1>2, BeginKept DEF Inv, Change

LEMMA DoomKept ==
  ASSUME Inv, pc = "delete", AcceptsDelete(d.id), Doom(d.id)
  PROVE  Kept /\ \A k \in Clusters \ {d.id} : sets'[k] = sets[k]
<1>1. d.id \in Clusters /\ "delete" \in Jobs /\ sets[d.id].status \notin {"none", "deleted"}
  BY JobsAre DEF Inv, Control, Typed, TypeOK, Handler, AcceptsDelete, Exists
<1>2. sets[d.id].attrs \in Attrs
  BY <1>1 DEF Inv, Typed, SetOK
<1>3. QED
  BY <1>1, <1>2, BeginKept DEF Inv, Doom

\* No step undoes a replica set.
LEMMA NextKept == Inv /\ [Next]_vars => Kept
<1> SUFFICES ASSUME Inv, [Next]_vars PROVE Kept
  OBVIOUS
<1>1. UNCHANGED sets => Kept
  BY SameKept DEF Inv
<1>2. CASE Create
  <2>1. d.new.cluster \in Clusters /\ d.new.attrs \in Attrs
    BY <1>2 DEF Create, Inv, Control, Typed, Config
  <2>2. QED
    BY <1>1, <1>2, <2>1, ProvisionKept DEF Create, Inv
<1>3. CASE Update
  BY <1>1, <1>3, ChangeKept DEF Update
<1>4. CASE Delete
  BY <1>1, <1>4, DoomKept DEF Delete
<1>5. ASSUME NEW c \in Clusters, Api(c) PROVE Kept
  BY <1>5, ApiKept DEF Inv
<1>6. CASE \/ UNCHANGED vars \/ Edit \/ Refresh \/ Plan \/ Read \/ DeleteReturns
           \/ WaitGet \/ WaitSleep \/ Expire \/ Calm \/ Crash \/ \E c \in Clusters : Import(c)
  BY <1>1, <1>6 DEF vars, Edit, Refresh, Plan, Read, DeleteReturns, WaitGet, WaitSleep, Expire, Calm,
     Crash, Import
<1>7. QED
  BY <1>2, <1>3, <1>4, <1>5, <1>6 DEF Next, Step, Api

-----------------------------------------------------------------------------
(***************************************************************************)
(* Ending an operation, going on and waiting.                              *)
(***************************************************************************)

\* An operation ends in a state without the resource, or one that refers to
\* a replica set that is known.
LEMMA EndKeeps ==
  ASSUME Inv, Kept, NEW where \in {"idle", "plan"}, NEW state \in State,
         state.id # None => state.attrs \in Attrs /\ KnownNext(state.id),
         End(where, state), lost' \subseteq Clusters
  PROVE  Inv'
<1>1. TypeOK'
  BY NullRecords DEF Inv, Typed, TypeOK, Kept, End, State, ResourceData, ASet, WaitRequest
<1>2. Typed'
  BY <1>1, NullRecords DEF Inv, Typed, Kept, Known, KnownNext, End
<1>3. Control'
  BY NullRecords DEF Control, End, Handler, Waiting
<1>4. QED
  BY <1>2, <1>3 DEF Inv

\* What Terraform saves after an error, case by case of the operation.
LEMMA ErrorStates ==
  /\ d.op = "create" /\ d.id = None => StateAfterError = NoState
  /\ d.op = "create" /\ d.id # None =>
       StateAfterError = [id |-> d.id, attrs |-> d.new.attrs, tainted |-> TRUE]
  /\ d.op = "update" =>
       StateAfterError = [id |-> d.id, attrs |-> d.new.attrs, tainted |-> FALSE]
  /\ d.op = "delete" => StateAfterError = tf
<1>1. CASE d.op = "create" /\ d.id = None
  BY <1>1 DEF StateAfterError
<1>2. CASE d.op = "create" /\ d.id # None
  BY <1>2 DEF StateAfterError
<1>3. CASE d.op = "update"
  BY <1>3 DEF StateAfterError
<1>4. CASE d.op = "delete"
  BY <1>4 DEF StateAfterError
<1>5. QED
  BY <1>1, <1>2, <1>3, <1>4

\* It refers to a replica set that is known, the one the operation and the state knew.
LEMMA ErrorStateTyped ==
  ASSUME Inv, Kept, d.op # "none"
  PROVE  /\ StateAfterError \in State
         /\ StateAfterError.id # None =>
              StateAfterError.attrs \in Attrs /\ KnownNext(StateAfterError.id)
         /\ tf.id # None => StateAfterError.id = tf.id
         /\ d.id # None => StateAfterError.id = d.id
<1>1. /\ d.op \in {"create", "update", "delete"} /\ d.id \in Clusters \union {None}
      /\ d.op \in {"create", "update"} => d.new.attrs \in Attrs
      /\ d.id # None => KnownNext(d.id)
      /\ tf \in State /\ (tf.id # None => tf.attrs \in Attrs /\ KnownNext(tf.id))
  BY DEF Inv, Typed, TypeOK, State, Kept, Config
<1>2. /\ d.op = "create" => tf.id = None
      /\ d.op \in {"update", "delete"} => tf.id = d.id
  BY DEF Inv, Control
<1>3. CASE d.op = "create" /\ d.id = None
  BY <1>2, <1>3, ErrorStates, NullRecords
<1>4. CASE d.op = "create" /\ d.id # None
  <2>1. StateAfterError = [id |-> d.id, attrs |-> d.new.attrs, tainted |-> TRUE]
    BY <1>4, ErrorStates
  <2>2. QED
    BY <1>1, <1>2, <1>4, <2>1 DEF State
<1>5. CASE d.op = "update"
  <2>1. StateAfterError = [id |-> d.id, attrs |-> d.new.attrs, tainted |-> FALSE]
    BY <1>5, ErrorStates
  <2>2. QED
    BY <1>1, <1>2, <1>5, <2>1 DEF State
<1>6. CASE d.op = "delete"
  BY <1>1, <1>2, <1>6, ErrorStates
<1>7. QED
  BY <1>1, <1>3, <1>4, <1>5, <1>6

\* An operation that fails keeps the invariant.
LEMMA FailKeeps ==
  ASSUME Inv, Kept, d.op # "none", Fail, lost' \subseteq Clusters
  PROVE  Inv'
  BY ErrorStateTyped, EndKeeps DEF Fail

\* The handler starts to wait for a state, with an id.
LEMMA StartWaitKeeps ==
  ASSUME Inv, Kept, pc \in Handler, d' \in ResourceData, lost' \subseteq Clusters,
         d'.op = d.op, d'.new = d.new, d'.id # None, KnownNext(d'.id), d.id # None => d'.id = d.id,
         NEW state, NEW then, StartWait(state, then),
         \/ d.op \in {"create", "update"} /\ then = "read" /\ state = "available"
         \/ d.op = "delete" /\ then = "gone" /\ state = "deleted"
  PROVE  Inv'
<1>1. wait' \in WaitRequest
  BY BoundAssumption DEF StartWait, WaitRequest
<1>2. TypeOK'
  BY <1>1 DEF Inv, Typed, TypeOK, Kept, StartWait, Handler, Waiting, ResourceData, ASet, WaitRequest
<1>3. Typed'
  BY <1>2 DEF Inv, Typed, TypeOK, Kept, Known, KnownNext, StartWait
<1>4. Control'
  BY DEF Inv, Control, StartWait, Handler, Waiting
<1>5. QED
  BY <1>3, <1>4 DEF Inv

\* A step that keeps the state and the ResourceData.
LEMMA TypedKept ==
  ASSUME Inv, Kept, UNCHANGED <<cfg, tf, d, calm, lost>>, wait' \in WaitRequest,
         expired' \in BOOLEAN, pc' \in {"idle", "plan"} \union Handler
  PROVE  Typed'
<1>1. TypeOK'
  BY DEF Inv, Typed, TypeOK, Kept, ASet, WaitRequest
<1>2. QED
  BY <1>1 DEF Inv, Typed, TypeOK, Kept, Known, KnownNext

-----------------------------------------------------------------------------
(***************************************************************************)
(* The invariant holds at the start, and every action keeps it.            *)
(***************************************************************************)
\* At the start there is nothing.
LEMMA InitInv == Init => Inv
<1> SUFFICES ASSUME Init PROVE Inv
  OBVIOUS
<1>1. TypeOK
  BY NullRecords DEF Init, TypeOK, State, ResourceData, ASet, WaitRequest
<1>2. Typed
  BY <1>1, NullRecords DEF Init, Typed, Known, SetOK
<1>3. Control
  BY NullRecords DEF Init, Control, Handler, Waiting
<1>4. QED
  BY <1>2, <1>3 DEF Inv

\* What a read leaves in the state.
LEMMA StateReadTyped ==
  ASSUME Typed, NEW c \in Clusters, Known(c), NEW tainted \in BOOLEAN
  PROVE  /\ StateRead(c, tainted) \in State
         /\ StateRead(c, tainted).id # None =>
              StateRead(c, tainted).id = c /\ StateRead(c, tainted).attrs \in Attrs
         /\ sets[c].status # "deleted" => StateRead(c, tainted).id = c
<1>1. sets[c].attrs \in Attrs
  BY DEF Typed, SetOK, Known
<1>2. QED
  BY <1>1, NullRecords DEF StateRead, State

\* Terraform's own steps.
LEMMA RefreshInv == Inv /\ Refresh => Inv'
<1> SUFFICES ASSUME Inv, Refresh PROVE Inv'
  OBVIOUS
<1>1. tf' \in State /\ (tf'.id # None => tf'.attrs \in Attrs /\ Known(tf'.id))
  <2>1. tf \in State /\ (tf.id # None => tf.id \in Clusters /\ Known(tf.id) /\ tf.attrs \in Attrs)
    BY DEF Inv, Typed, TypeOK, State
  <2>2. CASE UNCHANGED tf
    BY <2>1, <2>2
  <2>3. CASE tf.id # None /\ tf' = StateRead(tf.id, tf.tainted)
    BY <2>1, <2>3, StateReadTyped DEF Inv, State
  <2>4. QED
    BY <2>2, <2>3 DEF Refresh
<1>2. /\ pc' = "plan" /\ d.op = "none" /\ d.id = None
      /\ UNCHANGED <<cfg, sets, d, wait, expired, calm, lost>>
  BY DEF Refresh, Inv, Control
<1>3. Typed'
  BY <1>1, <1>2 DEF Inv, Typed, TypeOK, State, Known
<1>4. Control'
  BY <1>2 DEF Control, Handler, Waiting
<1>5. QED
  BY <1>3, <1>4 DEF Inv

\* An import takes an existing replica set into an empty state.
LEMMA ImportInv == ASSUME NEW c \in Clusters, Inv, Import(c) PROVE Inv'
<1>1. tf' \in State /\ (tf'.id # None => tf'.attrs \in Attrs /\ Known(tf'.id))
  BY StateReadTyped DEF Import, Inv, Known
<1>2. /\ pc' = "idle" /\ d.op = "none" /\ d.id = None /\ lost' \subseteq lost
      /\ UNCHANGED <<cfg, sets, d, wait, expired, calm>>
  BY DEF Import, Inv, Control
<1>3. Typed'
  BY <1>1, <1>2 DEF Import, Inv, Typed, TypeOK, State, Known
<1>4. Control'
  BY <1>2 DEF Control, Handler, Waiting
<1>5. QED
  BY <1>3, <1>4 DEF Inv

\* The four outcomes of a plan.
LEMMA PlanInv == Inv /\ Plan => Inv'
<1> SUFFICES ASSUME Inv, Plan PROVE Inv'
  OBVIOUS
<1>1. /\ UNCHANGED <<cfg, tf, sets, wait, expired, calm, lost>>
      /\ cfg # Absent => cfg \in Config
      /\ tf.id # None => tf.id \in Clusters /\ tf.attrs \in Attrs /\ Known(tf.id)
  BY DEF Plan, Inv, Typed, TypeOK
<1>2. ASSUME d' \in ResourceData, d'.id # None => Known(d'.id),
             d'.op \in {"create", "update"} => d'.new \in Config,
             pc' \in {"idle", "create", "update", "delete"}
      PROVE  Typed'
  BY <1>1, <1>2 DEF Inv, Typed, TypeOK, ResourceData, Known, Handler
<1>3. CASE /\ tf.id = None /\ cfg # Absent /\ pc' = "create"
           /\ d' = [op |-> "create", id |-> None, new |-> cfg]
  <2>1. Typed'
    BY <1>1, <1>2, <1>3 DEF ResourceData
  <2>2. Control'
    BY <1>1, <1>3 DEF Control, Handler, Waiting
  <2>3. QED
    BY <2>1, <2>2 DEF Inv
<1>4. CASE MustDelete /\ pc' = "delete" /\ d' = [op |-> "delete", id |-> tf.id, new |-> None]
  <2>1. Typed'
    BY <1>1, <1>2, <1>4 DEF MustDelete, ResourceData
  <2>2. Control'
    BY <1>1, <1>4, NoneIsNoId DEF MustDelete, Control, Handler, Waiting
  <2>3. QED
    BY <2>1, <2>2 DEF Inv
<1>5. CASE /\ tf.id # None /\ ~MustDelete /\ pc' = "update"
           /\ d' = [op |-> "update", id |-> tf.id, new |-> cfg]
  <2>1. Typed'
    BY <1>1, <1>2, <1>5 DEF ResourceData, MustDelete
  <2>2. Control'
    BY <1>1, <1>5, NoneIsNoId DEF Control, Handler, Waiting
  <2>3. QED
    BY <2>1, <2>2 DEF Inv
<1>6. CASE d' = NoData /\ pc' = "idle"
  <2>1. Typed'
    BY <1>2, <1>6, NullRecords
  <2>2. Control'
    BY <1>1, <1>6, NullRecords DEF Control, Handler, Waiting
  <2>3. QED
    BY <2>1, <2>2 DEF Inv
<1>7. QED
  BY <1>3, <1>4, <1>5, <1>6 DEF Plan

\* Create stores the id before it waits.
LEMMA CreateInv == Inv /\ Kept /\ Create => Inv'
<1> SUFFICES ASSUME Inv, Kept, Create PROVE Inv'
  OBVIOUS
<1> DEFINE c == d.new.cluster
<1>1. /\ pc = "create" /\ pc \in Handler /\ d.op = "create" /\ d.id = None
      /\ d \in ResourceData /\ lost \subseteq Clusters /\ c \in Clusters /\ d.new.attrs \in Attrs
  BY DEF Create, Inv, Control, Typed, TypeOK, Handler, ResourceData, Config
<1>2. CASE /\ Provision(c) /\ d' = [d EXCEPT !.id = c]
           /\ StartWait("available", "read") /\ UNCHANGED lost
  <2>1. c # None
    BY <1>1, NoneIsNoId
  <2>2. KnownNext(c)
    BY <1>1, <1>2, ProvisionKept DEF Inv, KnownNext
  <2>3. d' \in ResourceData /\ d'.op = d.op /\ d'.new = d.new /\ d'.id = c
    BY <1>1, <1>2 DEF ResourceData
  <2>4. QED
    BY <1>1, <1>2, <2>1, <2>2, <2>3, StartWaitKeeps
<1>3. CASE Fail /\ lost' = lost \union {c}
  BY <1>1, <1>3, FailKeeps
<1>4. QED
  BY <1>1, <1>2, <1>3, FailKeeps DEF Create

\* The read at the end of Create and of Update.
LEMMA ReadInv == Inv /\ Kept /\ Read => Inv'
<1> SUFFICES ASSUME Inv, Kept, Read PROVE Inv'
  OBVIOUS
<1>1. /\ d.op # "none" /\ d.id \in Clusters /\ Known(d.id)
      /\ UNCHANGED <<sets, lost>> /\ lost \subseteq Clusters
  BY DEF Read, Inv, Control, Typed, TypeOK, Handler
<1>2. CASE End("idle", StateRead(d.id, FALSE))
  <2>1. /\ StateRead(d.id, FALSE) \in State
        /\ StateRead(d.id, FALSE).id # None =>
             StateRead(d.id, FALSE).attrs \in Attrs /\ KnownNext(StateRead(d.id, FALSE).id)
    BY <1>1, StateReadTyped DEF Inv, Known, KnownNext
  <2>2. QED
    BY <1>1, <1>2, <2>1, EndKeeps
<1>3. QED
  BY <1>1, <1>2, FailKeeps DEF Read

\* Update and Delete wait for the API, Delete until the set is deleted.
LEMMA CommandInv == Inv /\ Kept /\ (Update \/ Delete) => Inv'
<1> SUFFICES ASSUME Inv, Kept, Update \/ Delete PROVE Inv'
  OBVIOUS
<1>1. /\ pc \in Handler /\ d.id \in Clusters /\ d.id # None /\ KnownNext(d.id)
      /\ d \in ResourceData /\ lost' \subseteq Clusters /\ d.op \in {"update", "delete"}
  BY NoneIsNoId DEF Update, Delete, Inv, Control, Typed, TypeOK, Handler, ResourceData, Kept
<1>2. CASE Update /\ StartWait("available", "read") /\ UNCHANGED d
  <2>1. d.op = "update"
    BY <1>2 DEF Update, Inv, Control
  <2>2. QED
    BY <1>1, <1>2, <2>1, StartWaitKeeps
<1>3. CASE Delete /\ StartWait("deleted", "gone") /\ UNCHANGED d
  <2>1. d.op = "delete"
    BY <1>3 DEF Delete, Inv, Control
  <2>2. QED
    BY <1>1, <1>3, <2>1, StartWaitKeeps
<1>4. QED
  BY <1>1, <1>2, <1>3, FailKeeps DEF Update, Delete

LEMMA DeleteReturnsInv == Inv /\ Kept /\ DeleteReturns => Inv'
<1> SUFFICES ASSUME Inv, Kept, DeleteReturns PROVE Inv'
  OBVIOUS
<1>1. lost' \subseteq Clusters
  BY DEF DeleteReturns, Inv, Typed, TypeOK
<1>2. QED
  BY <1>1, NullRecords, EndKeeps DEF DeleteReturns

\* A poll reaches its state, fails or goes on.
LEMMA WaitGetInv == Inv /\ Kept /\ WaitGet => Inv'
<1> SUFFICES ASSUME Inv, Kept, WaitGet PROVE Inv'
  OBVIOUS
<1>1. /\ pc = "get" /\ d.op # "none" /\ d.id # None /\ lost \subseteq Clusters /\ UNCHANGED sets
      /\ wait \in WaitRequest /\ expired \in BOOLEAN
  BY DEF WaitGet, Inv, Control, Typed, TypeOK, Handler, Waiting, WaitRequest
<1>2. CASE Fail /\ UNCHANGED lost
  BY <1>1, <1>2, FailKeeps
<1>3. CASE Goto("sleep")
  <2>1. Typed'
    BY <1>1, <1>3, TypedKept DEF Goto, Handler, Waiting
  <2>2. Control'
    BY <1>1, <1>3 DEF Goto, Inv, Control, Handler, Waiting
  <2>3. QED
    BY <2>1, <2>2 DEF Inv
<1>4. CASE Seen = wait.state /\ Goto(wait.then)
  <2>1. wait.then \in {"read", "gone"}
    BY <1>1 DEF Inv, Control, Waiting
  <2>2. Typed'
    BY <1>1, <1>4, <2>1, TypedKept DEF Goto, Handler
  <2>3. Control'
    BY <1>1, <1>4 DEF Goto, Seen, Inv, Control, Handler, Waiting
  <2>4. QED
    BY <2>2, <2>3 DEF Inv
<1>5. QED
  BY <1>2, <1>3, <1>4 DEF WaitGet

\* A sleep is part of the wait, or ends it at the deadline.
LEMMA WaitSleepInv == Inv /\ Kept /\ WaitSleep => Inv'
<1> SUFFICES ASSUME Inv, Kept, WaitSleep PROVE Inv'
  OBVIOUS
<1>1. d.op # "none" /\ lost' \subseteq Clusters /\ UNCHANGED <<sets, lost>>
  BY DEF WaitSleep, Inv, Control, Typed, TypeOK, Waiting
<1>2. CASE pc' = "get" /\ UNCHANGED <<cfg, tf, d, expired, calm>> /\ ~Fail
  <2>1. wait' \in WaitRequest /\ wait'.then = wait.then /\ wait'.state = wait.state
    BY <1>2, BoundAssumption DEF WaitSleep, Inv, Typed, TypeOK, WaitRequest
  <2>2. Typed'
    BY <1>1, <1>2, <2>1, TypedKept DEF Inv, Typed, TypeOK, Handler, Waiting
  <2>3. Control'
    BY <1>1, <1>2, <2>1 DEF WaitSleep, Inv, Control, Handler, Waiting
  <2>4. QED
    BY <2>2, <2>3 DEF Inv
<1>3. QED
  BY <1>1, <1>2, FailKeeps DEF WaitSleep

\* A crash keeps the state from before the operation.
LEMMA CrashInv == Inv /\ Kept /\ Crash => Inv'
<1> SUFFICES ASSUME Inv, Kept, Crash PROVE Inv'
  OBVIOUS
<1>1. /\ lost' \subseteq Clusters
      /\ tf \in State /\ (tf.id # None => tf.attrs \in Attrs /\ KnownNext(tf.id))
  BY DEF Crash, Inv, Typed, TypeOK, State, Kept
<1>2. QED
  BY <1>1, EndKeeps DEF Crash

\* The API leaves Terraform and the handler alone.
LEMMA ApiInv ==
  ASSUME NEW c \in Clusters, Inv, Api(c)
  PROVE  Inv'
<1>1. Kept /\ UNCHANGED <<cfg, tf, pc, d, wait, expired, calm, lost>>
  BY ApiKept, ApiOnly DEF Inv
<1>2. Typed'
  BY <1>1, TypedKept DEF Inv, Typed, TypeOK, WaitRequest
<1>3. pc = "gone" => d.id \in Clusters
  BY DEF Inv, Control, Typed, TypeOK, Handler
<1>4. Control'
  BY <1>1, <1>3 DEF Inv, Control, Kept
<1>5. QED
  BY <1>2, <1>4 DEF Inv

\* Typed and Control always hold.
THEOREM Invariance == Spec => []Inv
<1>1. Inv /\ [Next]_vars => Inv'
  <2> SUFFICES ASSUME Inv, [Next]_vars PROVE Inv'
    OBVIOUS
  <2>1. CASE UNCHANGED vars \/ Edit \/ Expire \/ Calm
    BY <2>1 DEF vars, Edit, Expire, Calm, Inv, Typed, TypeOK, Control, Known, Handler, Waiting
  <2>2. QED
    BY <2>1, NextKept, RefreshInv, ImportInv, PlanInv, CreateInv, ReadInv, CommandInv,
       DeleteReturnsInv, WaitGetInv, WaitSleepInv, CrashInv, ApiInv DEF Next, Step, Api
<1>2. QED
  BY <1>1, InitInv, PTL DEF Spec

\* The variables always have their types.
THEOREM TypeCorrect == Spec => []TypeOK
<1>1. Inv => TypeOK
  BY DEF Inv, Typed
<1>2. QED
  BY <1>1, Invariance, PTL

-----------------------------------------------------------------------------
(***************************************************************************)
(* No replica set is forgotten.                                            *)
(***************************************************************************)
ExistsNext(c) == sets'[c].status \notin {"none", "deleted"}

\* No step but a create brings a replica set into existence.
NoneBorn == \A c \in Clusters : ExistsNext(c) => Exists(c)

\* A change, a request to delete and the API change a set that exists.
LEMMA OthersBearNone ==
  ASSUME Inv,
         \/ pc = "update" /\ AcceptsChange(d.id) /\ Change(d.id)
         \/ pc = "delete" /\ AcceptsDelete(d.id) /\ Doom(d.id)
         \/ \E c \in Clusters : Api(c)
  PROVE  NoneBorn
<1>1. CASE pc = "update" /\ AcceptsChange(d.id) /\ Change(d.id)
  BY <1>1, ChangeKept, JobsAre DEF NoneBorn, ExistsNext, Exists, AcceptsChange
<1>2. CASE pc = "delete" /\ AcceptsDelete(d.id) /\ Doom(d.id)
  BY <1>2, DoomKept DEF NoneBorn, ExistsNext, Exists, AcceptsDelete
<1>3. ASSUME NEW c \in Clusters, Api(c) PROVE NoneBorn
  BY <1>3, ApiKept DEF NoneBorn, ExistsNext, Exists, Inv
<1>4. QED
  BY <1>1, <1>2, <1>3

\* A step under which none is born forgets none when it keeps the ids it knows, or
\* ends in a failure.
LEMMA KeepsKnown ==
  ASSUME Inv, Kept, NothingForgotten, NoneBorn, lost \subseteq lost',
         \/ UNCHANGED tf /\ d'.id = d.id
         \/ d.op # "none" /\ Fail
  PROVE  NothingForgotten'
<1>1. CASE d.op # "none" /\ Fail
  <2>1. /\ tf.id # None => tf'.id = tf.id
        /\ d.id # None => tf'.id = d.id
    BY <1>1, ErrorStateTyped DEF Fail, End
  <2>2. QED
    BY <2>1, NoneIsNoId DEF NothingForgotten, NoneBorn, ExistsNext, Exists
<1>2. QED
  BY <1>1 DEF NothingForgotten, NoneBorn, ExistsNext, Exists

\* A step that leaves the replica sets alone.
LEMMA SameForgetsNone ==
  ASSUME Inv, Kept, NothingForgotten, UNCHANGED sets, lost \subseteq lost',
         \/ UNCHANGED tf /\ d'.id = d.id
         \/ d.op # "none" /\ Fail
  PROVE  NothingForgotten'
<1>1. NoneBorn
  BY DEF NoneBorn, ExistsNext, Exists
<1>2. QED
  BY <1>1, KeepsKnown

\* A create keeps the id of the set it has made, or counts it as lost.
LEMMA CreateForgetsNone == Inv /\ Kept /\ NothingForgotten /\ Create => NothingForgotten'
<1> SUFFICES ASSUME Inv, Kept, NothingForgotten, Create PROVE NothingForgotten'
  OBVIOUS
<1> DEFINE c == d.new.cluster
<1>1. /\ pc = "create" /\ d.op = "create" /\ d.id = None /\ tf.id = None
      /\ c \in Clusters /\ d.new.attrs \in Attrs
  BY DEF Create, Inv, Control, Typed, Handler, Config
<1>2. \A k \in Clusters : Exists(k) => k \in lost
  BY <1>1, NoneIsNoId DEF NothingForgotten
<1>3. Provision(c) => \A k \in Clusters : ExistsNext(k) => Exists(k) \/ k = c
  BY <1>1, ProvisionKept DEF ExistsNext, Exists, Inv
<1>4. CASE /\ Provision(c) /\ d' = [d EXCEPT !.id = c]
           /\ StartWait("available", "read") /\ UNCHANGED lost
  <2>1. d'.id = c
    BY <1>4 DEF Inv, Typed, TypeOK
  <2>2. QED
    BY <1>2, <1>3, <1>4, <2>1 DEF NothingForgotten, ExistsNext, Exists
<1>5. CASE Provision(c) /\ lost' = lost \union {c}
  BY <1>2, <1>3, <1>5 DEF NothingForgotten, ExistsNext, Exists
<1>6. CASE Fail /\ UNCHANGED <<sets, lost>>
  BY <1>1, <1>6, SameForgetsNone
<1>7. QED
  BY <1>4, <1>5, <1>6 DEF Create

\* A read drops the id of a deleted set only.
LEMMA ReadForgetsNone == Inv /\ Kept /\ NothingForgotten /\ Read => NothingForgotten'
<1> SUFFICES ASSUME Inv, Kept, NothingForgotten, Read PROVE NothingForgotten'
  OBVIOUS
<1>1. /\ d.op # "none" /\ d.id \in Clusters /\ tf.id \in {None, d.id}
      /\ UNCHANGED <<sets, lost>>
  BY DEF Read, Inv, Control, Typed, TypeOK, Handler
<1>2. CASE End("idle", StateRead(d.id, FALSE))
  <2>1. sets[d.id].status # "deleted" => tf'.id = d.id
    BY <1>2 DEF End, StateRead
  <2>2. QED
    BY <1>1, <1>2, <2>1, NoneIsNoId DEF NothingForgotten, Exists
<1>3. QED
  BY <1>1, <1>2, SameForgetsNone DEF Read

\* So does a refresh, and a plan hands on the id of the state.
LEMMA PlanForgetsNone == Inv /\ NothingForgotten /\ (Refresh \/ Plan) => NothingForgotten'
<1> SUFFICES ASSUME Inv, NothingForgotten, Refresh \/ Plan PROVE NothingForgotten'
  OBVIOUS
<1>1. d.id = None /\ UNCHANGED <<sets, lost>>
  BY DEF Refresh, Plan, Inv, Control
<1>2. tf.id # None /\ sets[tf.id].status # "deleted" => tf'.id = tf.id
  BY DEF Refresh, Plan, StateRead
<1>3. QED
  BY <1>1, <1>2, NoneIsNoId DEF NothingForgotten, Exists

\* An update keeps the id, and a delete until the set is deleted.
LEMMA CommandForgetsNone ==
  Inv /\ Kept /\ NothingForgotten /\ (Update \/ Delete) => NothingForgotten'
<1> SUFFICES ASSUME Inv, Kept, NothingForgotten, Update \/ Delete PROVE NothingForgotten'
  OBVIOUS
<1>1. d.op # "none" /\ UNCHANGED lost
  BY DEF Update, Delete, Inv, Control
<1>2. CASE UNCHANGED sets
  BY <1>1, <1>2, SameForgetsNone DEF Update, Delete, StartWait
<1>3. CASE Update /\ AcceptsChange(d.id) /\ Change(d.id)
  <2>1. NoneBorn
    BY <1>3, OthersBearNone DEF Update
  <2>2. QED
    BY <1>1, <1>3, <2>1, KeepsKnown DEF Update, StartWait
<1>4. CASE Delete /\ AcceptsDelete(d.id) /\ Doom(d.id)
  <2>1. NoneBorn
    BY <1>4, OthersBearNone DEF Delete
  <2>2. QED
    BY <1>1, <1>4, <2>1, KeepsKnown DEF Delete, StartWait
<1>5. QED
  BY <1>2, <1>3, <1>4 DEF Update, Delete

LEMMA DeleteReturnsForgetsNone == Inv /\ NothingForgotten /\ DeleteReturns => NothingForgotten'
<1> SUFFICES ASSUME Inv, NothingForgotten, DeleteReturns PROVE NothingForgotten'
  OBVIOUS
<1>1. tf.id = d.id /\ sets[d.id].status = "deleted" /\ UNCHANGED <<sets, lost>>
  BY DEF DeleteReturns, Inv, Control
<1>2. QED
  BY <1>1 DEF NothingForgotten, Exists

\* Neither a poll nor a sleep forgets a replica set.
LEMMA WaitForgetsNone ==
  Inv /\ Kept /\ NothingForgotten /\ (WaitGet \/ WaitSleep) => NothingForgotten'
<1> SUFFICES ASSUME Inv, Kept, NothingForgotten, WaitGet \/ WaitSleep PROVE NothingForgotten'
  OBVIOUS
<1>1. d.op # "none" /\ UNCHANGED <<sets, lost>>
  BY DEF WaitGet, WaitSleep, Goto, Inv, Control, Handler, Waiting
<1>2. UNCHANGED <<tf, d>> \/ Fail
  BY DEF WaitGet, WaitSleep, Goto
<1>3. QED
  BY <1>1, <1>2, SameForgetsNone

\* A crash keeps the state from before the operation: what a create began is lost.
LEMMA CrashForgetsNone == Inv /\ NothingForgotten /\ Crash => NothingForgotten'
<1> SUFFICES ASSUME Inv, NothingForgotten, Crash PROVE NothingForgotten'
  OBVIOUS
<1>1. UNCHANGED <<sets, tf>> /\ lost \subseteq lost'
  BY DEF Crash, End
<1>2. d.id # None => d.id \in lost' \union {tf.id}
  BY DEF Crash, Inv, Typed, TypeOK, Control, Handler
<1>3. QED
  BY <1>1, <1>2, NoneIsNoId DEF NothingForgotten, Exists

\* An import holds what it no longer counts as lost.
LEMMA ImportForgetsNone ==
  ASSUME NEW c \in Clusters, Inv, NothingForgotten, Import(c)
  PROVE  NothingForgotten'
<1>1. UNCHANGED <<sets, d>> /\ tf.id = None /\ lost' = lost \ {c} /\ tf'.id = c
  BY DEF Import, StateRead
<1>2. QED
  BY <1>1, NoneIsNoId DEF NothingForgotten, Exists

\* A replica set that is not deleted is in the state, in the running handler, or lost
\* between the API's acceptance and the saving of its id.
THEOREM NeverForgotten == Spec => []NothingForgotten
<1>1. Init => NothingForgotten
  BY NullRecords DEF Init, NothingForgotten, Exists
<1>2. Inv /\ NothingForgotten /\ [Next]_vars => NothingForgotten'
  <2> SUFFICES ASSUME Inv, NothingForgotten, [Next]_vars PROVE NothingForgotten'
    OBVIOUS
  <2>1. Kept
    BY NextKept
  <2>2. CASE Edit \/ Expire \/ Calm \/ UNCHANGED vars
    BY <2>2 DEF Edit, Expire, Calm, vars, NothingForgotten, Exists
  <2>3. ASSUME NEW c \in Clusters, Api(c) PROVE NothingForgotten'
    BY <2>1, <2>3, ApiOnly, OthersBearNone, KeepsKnown
  <2>4. QED
    BY <2>1, <2>2, <2>3, CreateForgetsNone, ReadForgetsNone, PlanForgetsNone, CommandForgetsNone,
       DeleteReturnsForgetsNone, WaitForgetsNone, CrashForgetsNone, ImportForgetsNone
       DEF Next, Step, Api
<1>3. QED
  BY <1>1, <1>2, Invariance, PTL DEF Spec

-----------------------------------------------------------------------------
(***************************************************************************)
(* Success means done.  Inductive once it is known that the API works on   *)
(* what the handler waits for, and that nothing is under way when the      *)
(* handler reads.                                                          *)
(***************************************************************************)
DoneInv ==
  /\ pc = "read" => sets[d.id].attrs = d.new.attrs /\ sets[d.id].job = "none"
  /\ pc \in Waiting /\ wait.then = "read" =>
       /\ sets[d.id].status = "available" => sets[d.id].attrs = d.new.attrs
       /\ sets[d.id].job # "none" => sets[d.id].job # "delete" /\ sets[d.id].target = d.new.attrs

\* A set that is available is not being worked on.
LEMMA AvailableIdle ==
  ASSUME Typed, NEW c \in Clusters, sets[c].status = "available"
  PROVE  sets[c].job = "none"
<1>1. SetOK(sets[c]) /\ sets[c].job \in Jobs \union {"none"}
  BY DEF Typed, TypeOK
<1>2. \A j \in Jobs : Working[j] # "available"
  BY JobsAre
<1>3. QED
  BY <1>1, <1>2, StatusesAre DEF SetOK

\* Away from reads and from waits it says nothing.
LEMMA ElsewhereDone == pc' \notin {"read"} \union Waiting => DoneInv'
  BY DEF DoneInv

\* A create and an update begin the work their wait is for.
LEMMA CreateDone == Inv /\ Create => DoneInv'
<1> SUFFICES ASSUME Inv, Create PROVE DoneInv'
  OBVIOUS
<1> DEFINE c == d.new.cluster
<1>1. pc = "create" /\ c \in Clusters /\ d.new.attrs \in Attrs
  BY DEF Create, Inv, Control, Typed, Config
<1>2. CASE Provision(c) /\ d' = [d EXCEPT !.id = c] /\ StartWait("available", "read")
  <2>1. d'.id = c /\ d'.new = d.new
    BY <1>2 DEF Inv, Typed, TypeOK
  <2>2. /\ sets'[c].status = "provisioning" /\ sets'[c].job = "create"
        /\ sets'[c].target = d.new.attrs
    BY <1>1, <1>2, ProvisionKept DEF Inv
  <2>3. pc' = "get"
    BY <1>2 DEF StartWait
  <2>4. QED
    BY <2>1, <2>2, <2>3 DEF DoneInv
<1>3. CASE Fail
  BY <1>3, ElsewhereDone DEF Fail, End, Waiting
<1>4. QED
  BY <1>2, <1>3 DEF Create

LEMMA CommandDone == Inv /\ (Update \/ Delete) => DoneInv'
<1> SUFFICES ASSUME Inv, Update \/ Delete PROVE DoneInv'
  OBVIOUS
<1>1. CASE Fail
  BY <1>1, ElsewhereDone DEF Fail, End, Waiting
<1>2. CASE Update /\ AcceptsChange(d.id) /\ Change(d.id) /\ StartWait("available", "read")
             /\ UNCHANGED d
  <2>1. /\ sets'[d.id].job = "change" /\ sets'[d.id].target = d.new.attrs
        /\ sets'[d.id].status = "changing" \/ sets'[d.id].status \in Lingering
    BY <1>2, ChangeKept, JobsAre DEF Update
  <2>2. sets'[d.id].status # "available"
    BY <2>1, StatusesAre
  <2>3. pc' = "get"
    BY <1>2 DEF StartWait
  <2>4. QED
    BY <1>2, <2>1, <2>2, <2>3 DEF DoneInv
<1>3. CASE Delete /\ StartWait("deleted", "gone")
  BY <1>3 DEF DoneInv, StartWait, Waiting
<1>4. QED
  BY <1>1, <1>2, <1>3 DEF Update, Delete

\* The wait of a create or an update ends when the set is available.
LEMMA WaitDone == Inv /\ DoneInv /\ (WaitGet \/ WaitSleep) => DoneInv'
<1> SUFFICES ASSUME Inv, DoneInv, WaitGet \/ WaitSleep PROVE DoneInv'
  OBVIOUS
<1>1. pc \in Waiting /\ d.id \in Clusters /\ UNCHANGED sets
  BY DEF WaitGet, WaitSleep, Inv, Control, Typed, TypeOK, Handler, Waiting
<1>2. CASE Fail
  BY <1>2, ElsewhereDone DEF Fail, End, Waiting
<1>3. CASE pc' \in Waiting /\ UNCHANGED d /\ wait'.then = wait.then
  BY <1>1, <1>3 DEF DoneInv, Waiting
<1>4. CASE WaitGet /\ Seen = wait.state /\ Goto(wait.then)
  <2>1. CASE wait.then = "read"
    <3>1. sets[d.id].status = "available"
      BY <1>1, <1>4, <2>1 DEF Seen, Inv, Control
    <3>2. sets[d.id].job = "none" /\ sets[d.id].attrs = d.new.attrs
      BY <1>1, <2>1, <3>1, AvailableIdle DEF DoneInv, Inv
    <3>3. pc' = "read" /\ UNCHANGED d
      BY <1>4, <2>1 DEF Goto
    <3>4. QED
      BY <1>1, <3>2, <3>3 DEF DoneInv, Waiting
  <2>2. CASE wait.then = "gone"
    BY <1>4, <2>2, ElsewhereDone DEF Goto, Waiting
  <2>3. QED
    BY <1>1, <2>1, <2>2 DEF Inv, Control
<1>5. Fail \/ (UNCHANGED d /\ pc' \in Waiting /\ wait'.then = wait.then)
       \/ (WaitGet /\ Seen = wait.state /\ Goto(wait.then))
  <2>1. CASE WaitGet
    BY <2>1 DEF WaitGet, Goto, Waiting
  <2>2. CASE WaitSleep
    <3>1. wait \in WaitRequest
      BY DEF Inv, Typed, TypeOK, WaitRequest
    <3>2. QED
      BY <2>2, <3>1 DEF WaitSleep, Waiting, WaitRequest
  <2>3. QED
    BY <2>1, <2>2
<1>6. QED
  BY <1>2, <1>3, <1>4, <1>5

\* The API finishes the work it was given, or none.
LEMMA ApiDone ==
  ASSUME Inv, DoneInv, NEW c \in Clusters, Api(c)
  PROVE  DoneInv'
<1>1. UNCHANGED <<pc, d, wait>>
  BY ApiOnly
<1>2. CASE c # d.id
  <2>1. pc \in {"read"} \union Waiting => d.id \in Clusters
    BY DEF Inv, Control, Typed, TypeOK, Handler, Waiting
  <2>2. pc \in {"read"} \union Waiting => sets'[d.id] = sets[d.id]
    BY <1>2, <2>1, ApiKept DEF Inv
  <2>3. QED
    BY <1>1, <2>2 DEF DoneInv, Waiting
<1>3. CASE c = d.id
  <2>1. \/ sets'[c].attrs = sets[c].attrs /\ sets'[c].job = sets[c].job
             /\ sets'[c].target = sets[c].target /\ sets'[c].status # "available"
        \/ sets[c].job # "none" /\ sets'[c].job = "none" /\ sets'[c].attrs = sets[c].target
        \/ sets'[c].job = "none" /\ sets'[c].status # "available"
             /\ sets'[c].attrs = sets[c].attrs
    BY ApiKept DEF Inv
  <2>2. QED
    BY <1>1, <1>3, <2>1 DEF DoneInv
<1>4. QED
  BY <1>2, <1>3

\* The invariant of what is done.
THEOREM DoneInvariance == Spec => []DoneInv
<1>1. Init => DoneInv
  BY DEF Init, DoneInv, Waiting
<1>2. Inv /\ DoneInv /\ [Next]_vars => DoneInv'
  <2> SUFFICES ASSUME Inv, DoneInv, [Next]_vars PROVE DoneInv'
    OBVIOUS
  <2>1. CASE Edit \/ Expire \/ Calm \/ UNCHANGED vars
    BY <2>1 DEF Edit, Expire, Calm, vars, DoneInv, Waiting
  <2>2. CASE Refresh \/ Plan \/ Read \/ DeleteReturns \/ Crash \/ \E c \in Clusters : Import(c)
    <3>1. pc' \notin {"read"} \union Waiting
      BY <2>2 DEF Refresh, Plan, Read, DeleteReturns, Crash, Import, Fail, End, Waiting
    <3>2. QED
      BY <3>1, ElsewhereDone
  <2>3. QED
    BY <2>1, <2>2, CreateDone, CommandDone, WaitDone, ApiDone DEF Next, Step, Api
<1>3. QED
  BY <1>1, <1>2, Invariance, PTL DEF Spec

\* A create or an update that is about to succeed has its replica count and protection
\* in force.
THEOREM SuccessIsDone == Spec => []SuccessMeansDone
<1>1. DoneInv => SuccessMeansDone
  BY DEF DoneInv, SuccessMeansDone
<1>2. QED
  BY <1>1, DoneInvariance, PTL

-----------------------------------------------------------------------------
(***************************************************************************)
(* The waits implement Polling.                                            *)
(***************************************************************************)
PollStep == [Waits!Next]_<<WaitPhase, WaitGoal>>

\* The phase is that of the place and of the wait, and nothing else.
LEMMA PhaseKept ==
  ASSUME UNCHANGED wait, pc \in {"get", "sleep"} <=> pc' \in {"get", "sleep"}
  PROVE  PollStep
  BY DEF PollStep, WaitPhase, WaitGoal

\* The end of a handler leaves a wait that was reached, or gives one up with a reason.
LEMMA EndPolls ==
  ASSUME Inv, NEW where \in {"idle", "plan"}, NEW state, End(where, state),
         pc \in {"get", "sleep"} => expired \/ ~calm \/ Seen \in FailureStates
  PROVE  PollStep
<1>1. WaitPhase' = "idle" /\ WaitGoal' = "none"
  BY DEF End, WaitPhase, WaitGoal
<1>2. CASE pc \in {"get", "sleep"}
  <2>1. WaitPhase = "waiting" /\ d.id # None
    BY <1>2 DEF WaitPhase, Inv, Control, Handler, Waiting
  <2>2. QED
    BY <1>1, <1>2, <2>1 DEF PollStep, Waits!Next, Waits!GiveUp
<1>3. CASE pc \notin {"get", "sleep"}
  <2>1. WaitPhase \in {"idle", "reached"}
    BY <1>3 DEF WaitPhase
  <2>2. QED
    BY <1>1, <2>1 DEF PollStep, Waits!Next, Waits!Leave, WaitGoal
<1>4. QED
  BY <1>2, <1>3

\* A handler that does not wait may fail.
LEMMA FailPolls == Inv /\ pc \notin {"get", "sleep"} /\ Fail => PollStep
  BY EndPolls DEF Fail

\* A wait begins with a state to wait for, and not in the middle of another.
LEMMA StartWaitPolls ==
  ASSUME pc \notin {"get", "sleep"}, NEW state \in {"initiated", "available", "deleted"}, NEW then,
         StartWait(state, then)
  PROVE  PollStep
<1>1. WaitPhase # "waiting"
  BY DEF WaitPhase
<1>2. WaitPhase' = "waiting" /\ WaitGoal' # "none"
  BY DEF StartWait, WaitPhase, WaitGoal
<1>3. QED
  BY <1>1, <1>2 DEF PollStep, Waits!Next, Waits!Begin

\* A poll reaches the state, fails with a reason or goes on polling.
LEMMA WaitGetPolls == Inv /\ WaitGet => PollStep
<1> SUFFICES ASSUME Inv, WaitGet PROVE PollStep
  OBVIOUS
<1>1. /\ pc = "get" /\ WaitPhase = "waiting" /\ WaitGoal = wait.state /\ d.id # None
      /\ wait # NoWait /\ wait.then \in {"read", "gone"}
  BY DEF WaitGet, WaitPhase, WaitGoal, Inv, Control, Handler, NoWait, Waiting
<1>2. CASE Seen = wait.state /\ Goto(wait.then)
  <2>1. WaitPhase' = "reached" /\ WaitGoal' = wait.state
    BY <1>1, <1>2 DEF Goto, WaitPhase, WaitGoal
  <2>2. QED
    BY <1>1, <1>2, <2>1 DEF PollStep, Waits!Next, Waits!Reach
<1>3. CASE Goto("sleep")
  BY <1>1, <1>3, PhaseKept DEF Goto
<1>4. CASE (MayFail \/ GiveUp) /\ Fail
  <2>1. expired \/ ~calm \/ Seen \in FailureStates
    BY <1>4, StatusesAre DEF GiveUp, MayFail
  <2>2. QED
    BY <1>4, <2>1, EndPolls DEF Fail
<1>5. QED
  BY <1>2, <1>3, <1>4 DEF WaitGet

\* A sleep is part of the wait, and ends early when the time for the wait is over.
LEMMA WaitSleepPolls == Inv /\ WaitSleep => PollStep
<1> SUFFICES ASSUME Inv, WaitSleep PROVE PollStep
  OBVIOUS
<1>1. CASE expired /\ Fail
  BY <1>1, EndPolls DEF Fail
<1>2. CASE pc' = "get" /\ wait'.state = wait.state
  BY <1>2 DEF WaitSleep, PollStep, WaitPhase, WaitGoal
<1>3. QED
  BY <1>1, <1>2 DEF WaitSleep, Inv, Typed, TypeOK

\* A wait for a replica set succeeds only when the status asked for is shown, and is given up only on
\* a status of failure, an error or the end of its time.
THEOREM WaitsArePolls == Spec => Polls
<1>1. Init => Waits!Init
  BY DEF Init, Waits!Init, WaitPhase, WaitGoal
<1>2. Inv /\ [Next]_vars => [Waits!Next]_<<WaitPhase, WaitGoal>>
  <2> SUFFICES ASSUME Inv, [Next]_vars PROVE PollStep
    BY DEF PollStep
  <2>1. CASE UNCHANGED vars \/ Edit \/ Refresh \/ Plan \/ Expire \/ Calm
               \/ \E c \in Clusters : Import(c)
    BY <2>1, PhaseKept DEF vars, Edit, Refresh, Plan, Expire, Calm, Import
  <2>2. CASE Create
    BY <2>2, StartWaitPolls, FailPolls DEF Create
  <2>3. CASE Read \/ DeleteReturns
    BY <2>3, EndPolls, FailPolls DEF Read, DeleteReturns
  <2>4. CASE Update
    BY <2>4, StartWaitPolls, FailPolls DEF Update
  <2>5. CASE Delete
    BY <2>5, StartWaitPolls, FailPolls DEF Delete
  <2>6. CASE Crash
    BY <2>6, EndPolls DEF Crash
  <2>7. ASSUME NEW c \in Clusters, Api(c) PROVE PollStep
    BY <2>7, ApiOnly, PhaseKept
  <2>8. QED
    BY <2>1, <2>2, <2>3, <2>4, <2>5, <2>6, <2>7, WaitGetPolls, WaitSleepPolls DEF Next, Step, Api
<1>3. QED
  BY <1>1, <1>2, Invariance, PTL DEF Spec, Polls, Waits!Spec
=============================================================================
