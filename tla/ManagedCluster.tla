--------------------------- MODULE ManagedCluster ---------------------------
(***************************************************************************)
(* The managed cluster resource: the Create, Read, Update and Delete       *)
(* handlers of esc/resource_managed_cluster.go, the waiter they share      *)
(* (client/cluster_waiter.go) and the API calls they make                  *)
(* (client/cluster_*.go), run by Terraform against the asynchronous        *)
(* Kurrent Cloud API.                                                      *)
(*                                                                         *)
(* Terraform and the API are not part of the repository.  They are         *)
(* modelled from how the handlers use them: Terraform refreshes, plans,    *)
(* calls one handler at a time under a deadline and saves what the handler *)
(* leaves in its ResourceData; the API accepts a command, answers at once  *)
(* and finishes the work later, showing its progress in "status".          *)
(*                                                                         *)
(* Definitions that no action uses (DeletedIsKept, SentAsWritten,          *)
(* PlaceNotSent, ProtectedForgotten, ResizeWithoutWait, NeverShrinks,      *)
(* DeleteWithoutWait, NeverGiveUp, SlowIsDefunct, WaitGetRetries) are      *)
(* faulty variants of the definition they precede: each breaks one of the  *)
(* properties below.                                                       *)
(***************************************************************************)
EXTENDS Naturals

CONSTANTS
  Places,      \* values of the ForceNew attributes: project_id, network_id, topology, public_access, acl_id
  LowerCase,   \* each place with its topology and acl_id in lower case
  Names,       \* values of "name"
  Levels,      \* values of "projection_level"
  Instances,   \* values of "instance_type"
  Perfs,       \* values of disk_type, disk_iops and disk_throughput together
  Versions,    \* values of "server_version"
  Tags,        \* values of "server_version_tag"
  VersionOf,   \* the version each tag begins with
  DefaultTag,  \* the tag the API picks for a version when it creates a cluster
  Configs,     \* the configurations the user may write
  Absent,      \* the configuration without the resource
  None,        \* no id, no attributes, no tag
  MaxClusters, \* bound: how many clusters are created in a behaviour
  Grace        \* the 30 seconds a waiter tolerates "defunct", counted in polls

Ids == 1 .. MaxClusters

(***************************************************************************)
(* The attributes of a cluster.  The cluster itself always has a tag; a    *)
(* configuration, and a state saved before the first read, may not.        *)
(***************************************************************************)
AttrsAt(places) ==
  [place: places, name: Names, protected: BOOLEAN, projection: Levels,
   instance: Instances, version: Versions, tag: Tags \union {None},
   size: Nat, perf: Perfs]

Attrs == AttrsAt(Places)

\* The API has only lower-case topologies and list ids: every create sends them so.
ApiPlaces == {p \in Places : LowerCase[p] = p}
ApiAttrs == AttrsAt(ApiPlaces)

ASSUME ConfigAssumption ==
  /\ Configs \subseteq Attrs
  /\ Absent \notin Attrs
  /\ None \notin Attrs /\ None \notin Tags /\ None \notin Places
  /\ LowerCase \in [Places -> Places]
  /\ \A p \in Places : LowerCase[LowerCase[p]] = LowerCase[p]
  /\ VersionOf \in [Tags -> Versions]
  /\ DefaultTag \in [Versions -> Tags]
  /\ \A v \in Versions : VersionOf[DefaultTag[v]] = v

ASSUME BoundAssumption ==
  /\ MaxClusters \in Nat /\ Grace \in Nat
  /\ None \notin Nat

VARIABLES
  cfg,      \* what the user wants: a configuration, or Absent
  tf,       \* Terraform's saved state of the resource
  clusters, \* the API's clusters
  pc,       \* where Terraform and the handler it runs are
  d,        \* the handler's ResourceData: id, prior and planned attributes
  wait,     \* the running ManagedClusterWaitForState
  expired,  \* the handler's context has passed its deadline
  calm,     \* from here on: no fault, no deadline, no edit
  lost,     \* history: clusters whose id never reached Terraform's state
  built     \* history: the configured place of a cluster whose creation was a success

vars == <<cfg, tf, clusters, pc, d, wait, expired, calm, lost, built>>

Statuses ==
  {"none", "provisioning", "available", "updating", "deleting", "deleted", "defunct"}
Jobs == {"none", "create", "update", "delete"}
Phases == {"meta", "resize", "upgrade", "expand"}
Waiting == {"get", "sleep"}
Handler == {"create", "read", "delete", "gone"} \union Phases \union Waiting

NoState == [id |-> None, attrs |-> None, tainted |-> FALSE]
NoData == [op |-> "none", id |-> None, old |-> None, new |-> None,
           issued |-> FALSE, overhang |-> FALSE]
NoCluster == [status |-> "none", job |-> "none", attrs |-> None, target |-> None]
NoWait == [state |-> "none", then |-> "idle", elapsed |-> 0]

State == [id: Ids \union {None}, attrs: Attrs \union {None}, tainted: BOOLEAN]
Cluster == [status: Statuses, job: Jobs,
            attrs: ApiAttrs \union {None}, target: ApiAttrs \union {None}]
ResourceData ==
  [op: {"none", "create", "update", "delete"}, id: Ids \union {None},
   old: Attrs \union {None}, new: Attrs \union {None},
   issued: BOOLEAN, overhang: BOOLEAN]
WaitRequest ==
  [state: {"none", "available", "deleted"},
   then: {"idle", "read", "gone"} \union Phases, elapsed: 0 .. Grace + 1]

\* Whatever spelling the user chose, the API's clusters have the lower-case one.
TypeOK ==
  /\ cfg \in Configs \union {Absent}
  /\ tf \in State
  /\ clusters \in [Ids -> Cluster]
  /\ pc \in {"idle", "plan"} \union Handler
  /\ d \in ResourceData
  /\ wait \in WaitRequest
  /\ expired \in BOOLEAN /\ calm \in BOOLEAN
  /\ lost \subseteq Ids /\ built \in [Ids -> Places \union {None}]

Init ==
  /\ cfg \in Configs \union {Absent}
  /\ tf = NoState
  /\ clusters = [i \in Ids |-> NoCluster]
  /\ pc = "idle" /\ d = NoData /\ wait = NoWait
  /\ expired = FALSE /\ calm = FALSE
  /\ lost = {} /\ built = [i \in Ids |-> None]

-----------------------------------------------------------------------------
(***************************************************************************)
(* How an operation ends.                                                  *)
(***************************************************************************)

\* Terraform keeps what the handler leaves in ResourceData: after an error a
\* create that has an id is saved as tainted, an update is saved with the
\* values it was asked for, and a delete leaves the state as it was.
StateAfterError ==
  CASE d.op = "create" /\ d.id = None -> NoState
    [] d.op = "create" /\ d.id # None -> [id |-> d.id, attrs |-> d.new, tainted |-> TRUE]
    [] d.op = "update" -> [id |-> d.id, attrs |-> d.new, tainted |-> FALSE]
    [] OTHER -> tf

End(where, state) ==
  /\ tf' = state
  /\ pc' = where /\ d' = NoData /\ wait' = NoWait /\ expired' = FALSE
  /\ UNCHANGED <<cfg, calm>>

Fail == End("idle", StateAfterError) /\ UNCHANGED built

\* The API answers a request unless the handler's deadline has passed; before
\* the system is calm any call may fail.
CanAnswer == ~expired
MayFail == expired \/ ~calm

\* The handler goes on to another place of its body.
Goto(where) ==
  /\ pc' = where
  /\ UNCHANGED <<cfg, tf, wait, expired, calm, lost, built>>

StartWait(state, then) ==
  /\ pc' = "get"
  /\ wait' = [state |-> state, then |-> then, elapsed |-> 0]
  /\ UNCHANGED <<cfg, tf, expired, calm, lost, built>>

-----------------------------------------------------------------------------
(***************************************************************************)
(* Terraform: edit, refresh, plan (external).                              *)
(***************************************************************************)

Edit ==
  /\ pc = "idle" /\ ~calm
  /\ cfg' \in (Configs \union {Absent}) \ {cfg}
  /\ UNCHANGED <<tf, clusters, pc, d, wait, expired, calm, lost, built>>

DeletedIsKept(id, tainted) ==
  [id |-> id, attrs |-> clusters[id].attrs, tainted |-> tainted]

\* resourceManagedClusterRead: an error leaves the state alone, a deleted
\* cluster leaves the state, any other one overwrites every attribute.
StateRead(id, tainted) ==
  IF clusters[id].status = "deleted"
  THEN NoState
  ELSE [id |-> id, attrs |-> clusters[id].attrs, tainted |-> tainted]

\* An apply begins with a refresh of what the state holds; when that read
\* fails the apply goes no further.
Refresh ==
  /\ pc = "idle"
  /\ tf' = IF tf.id = None THEN tf ELSE StateRead(tf.id, tf.tainted)
  /\ d' = [NoData EXCEPT !.overhang = tf.id # None /\ clusters[tf.id].job # "none"]
  /\ pc' = "plan"
  /\ UNCHANGED <<cfg, clusters, wait, expired, calm, lost, built>>

\* terraform import: an existing cluster is taken into the state as Read finds it.
Import(id) ==
  /\ pc = "idle" /\ ~calm
  /\ tf.id = None /\ cfg # Absent
  /\ clusters[id].status \notin {"none", "deleted"}
  /\ tf' = StateRead(id, FALSE)
  /\ lost' = lost \ {id}
  /\ UNCHANGED <<cfg, clusters, pc, d, wait, expired, calm, built>>

\* The id of a cluster that is gone stands for a new one: when a create is planned
\* nothing refers to a cluster any more.
FreshIds == {i \in Ids : clusters[i].status \in {"none", "deleted"}}

\* ForceNew compares the place as it is written with the one the last read saved.
MustDelete ==
  /\ tf.id # None
  /\ \/ cfg = Absent
     \/ tf.tainted
     \/ cfg # Absent /\ cfg.place # tf.attrs.place

\* The attributes a plan asks for: a computed tag that is not configured keeps
\* the value in the state.
Planned == [cfg EXCEPT !.tag = IF @ = None THEN tf.attrs.tag ELSE @]

\* A create is planned while the bound on the ids leaves one.
Plan ==
  /\ pc = "plan"
  /\ \/ /\ tf.id = None /\ cfg # Absent /\ FreshIds # {}
        /\ d' = [d EXCEPT !.op = "create", !.new = cfg]
        /\ pc' = "create"
     \/ /\ MustDelete
        /\ d' = [d EXCEPT !.op = "delete", !.id = tf.id, !.old = tf.attrs]
        /\ pc' = "delete"
     \/ /\ tf.id # None /\ ~MustDelete /\ Planned # tf.attrs
        /\ d' = [d EXCEPT !.op = "update", !.id = tf.id, !.old = tf.attrs, !.new = Planned]
        /\ pc' = "meta"
     \/ /\ IF tf.id = None THEN cfg = Absent \/ FreshIds = {}
                           ELSE ~MustDelete /\ Planned = tf.attrs
        /\ d' = NoData
        /\ pc' = "idle"
  /\ UNCHANGED <<cfg, tf, clusters, wait, expired, calm, lost, built>>

-----------------------------------------------------------------------------
(***************************************************************************)
(* resourceManagedClusterCreate                                            *)
(***************************************************************************)

\* The request: topology and acl_id are sent in lower case; server_version_tag, the tag
\* "to provision" of docs/resources/managed_cluster.md:69, is not sent: the API picks one.
Requested ==
  [d.new EXCEPT !.place = LowerCase[@], !.tag = DefaultTag[d.new.version]]

SentAsWritten(id) ==
  LET a == [d.new EXCEPT !.tag = DefaultTag[d.new.version]]
  IN  clusters' = [clusters EXCEPT ![id] =
        [status |-> "provisioning", job |-> "create", attrs |-> a, target |-> a]]

PlaceNotSent(id) ==
  \E p \in ApiPlaces :
    LET a == [Requested EXCEPT !.place = p]
    IN  clusters' = [clusters EXCEPT ![id] =
          [status |-> "provisioning", job |-> "create", attrs |-> a, target |-> a]]

\* POST .../clusters
Provision(id) ==
  clusters' = [clusters EXCEPT ![id] =
    [status |-> "provisioning", job |-> "create", attrs |-> Requested, target |-> Requested]]

\* The id is stored before the wait, so that an error later keeps it.
Create ==
  /\ pc = "create"
  /\ \/ /\ CanAnswer
        /\ \E id \in FreshIds :
             /\ Provision(id)
             /\ \/ d' = [d EXCEPT !.id = id] /\ StartWait("available", "read")
                \/ ~calm /\ Fail /\ lost' = lost \union {id}
     \/ MayFail /\ Fail /\ UNCHANGED <<clusters, lost>>

(***************************************************************************)
(* resourceManagedClusterRead at the end of Create and Update.             *)
(***************************************************************************)
Read ==
  /\ pc = "read"
  /\ \/ /\ CanAnswer
        /\ End("idle", StateRead(d.id, FALSE))
        /\ built' = IF d.op = "create" THEN [built EXCEPT ![d.id] = d.new.place] ELSE built
     \/ MayFail /\ Fail
  /\ UNCHANGED <<clusters, lost>>

-----------------------------------------------------------------------------
(***************************************************************************)
(* resourceManagedClusterUpdate: up to four commands, one after another.   *)
(***************************************************************************)

HasChange(fields) == \E f \in fields : d.old[f] # d.new[f]

\* The API takes one command at a time: it accepts a command for an available
\* cluster and rejects it otherwise.
Accepts(id) == clusters[id].status = "available"

\* A command the API works on after it has answered.
Begin(id, target) ==
  clusters' = [clusters EXCEPT ![id].status = "updating", ![id].job = "update",
                               ![id].target = target]

\* PUT a command and, when it is accepted, wait for the cluster to be available
\* again; an answer that is lost is an error for the handler, but not for the API.
Command(target, then) ==
  \/ /\ CanAnswer /\ Accepts(d.id)
     /\ Begin(d.id, target)
     /\ \/ d' = [d EXCEPT !.issued = TRUE] /\ StartWait("available", then)
        \/ ~calm /\ Fail /\ UNCHANGED lost
  \/ /\ MayFail \/ ~Accepts(d.id)
     /\ Fail /\ UNCHANGED <<clusters, lost>>

Skip(fields, then) == ~HasChange(fields) /\ Goto(then) /\ UNCHANGED <<clusters, d>>

ProtectedForgotten ==
  [clusters[d.id].attrs EXCEPT
     !.name = d.new.name,
     !.projection = IF HasChange({"projection"}) THEN d.new.projection ELSE @]

MetaTarget ==
  [clusters[d.id].attrs EXCEPT
     !.name = d.new.name, !.protected = d.new.protected,
     !.projection = IF HasChange({"projection"}) THEN d.new.projection ELSE @]

\* name and protected take effect at once, only a new projection level restarts
\* the cluster and is waited for.
UpdateMeta ==
  /\ pc = "meta"
  /\ \/ Skip({"name", "protected", "projection"}, "resize")
     \/ HasChange({"projection"}) /\ Command(MetaTarget, "resize")
     \/ /\ HasChange({"name", "protected"}) /\ ~HasChange({"projection"})
        /\ \/ /\ CanAnswer /\ Accepts(d.id)
              /\ clusters' = [clusters EXCEPT ![d.id].attrs = MetaTarget]
              /\ \/ Goto("resize") /\ UNCHANGED d
                 \/ ~calm /\ Fail /\ UNCHANGED lost
           \/ /\ MayFail \/ ~Accepts(d.id)
              /\ Fail /\ UNCHANGED <<clusters, lost>>

\* What the other three commands ask for.
ResizeTarget == [clusters[d.id].attrs EXCEPT !.instance = d.new.instance]
UpgradeTarget ==
  [clusters[d.id].attrs EXCEPT !.tag = d.new.tag, !.version = VersionOf[d.new.tag]]
DiskTarget == [clusters[d.id].attrs EXCEPT !.size = d.new.size, !.perf = d.new.perf]

ResizeWithoutWait ==
  /\ pc = "resize"
  /\ \/ Skip({"instance"}, "upgrade")
     \/ /\ HasChange({"instance"}) /\ CanAnswer /\ Accepts(d.id)
        /\ Begin(d.id, ResizeTarget)
        /\ d' = [d EXCEPT !.issued = TRUE]
        /\ Goto("upgrade")

Resize ==
  /\ pc = "resize"
  /\ \/ Skip({"instance"}, "upgrade")
     \/ HasChange({"instance"}) /\ Command(ResizeTarget, "upgrade")

\* The tag must begin with the configured version; a change of the version
\* alone is not acted on.
Upgrade ==
  /\ pc = "upgrade"
  /\ \/ Skip({"tag"}, "expand")
     \/ /\ HasChange({"tag"}) /\ VersionOf[d.new.tag] # d.new.version
        /\ Fail /\ UNCHANGED <<clusters, lost>>
     \/ /\ HasChange({"tag"}) /\ VersionOf[d.new.tag] = d.new.version
        /\ Command(UpgradeTarget, "expand")

NeverShrinks == FALSE

\* The size is compared with the one in the state, not with the cluster's.
Shrinks == d.new.size < d.old.size

ExpandDisk ==
  /\ pc = "expand"
  /\ \/ Skip({"size", "perf"}, "read")
     \/ HasChange({"size", "perf"}) /\ Shrinks /\ Fail /\ UNCHANGED <<clusters, lost>>
     \/ HasChange({"size", "perf"}) /\ ~Shrinks /\ Command(DiskTarget, "read")

-----------------------------------------------------------------------------
(***************************************************************************)
(* resourceManagedClusterDelete                                            *)
(***************************************************************************)

\* The API refuses to delete a protected cluster, and one that is deleted or
\* being deleted.
AcceptsDelete(id) ==
  /\ ~clusters[id].attrs.protected
  /\ clusters[id].status # "deleted" /\ clusters[id].job # "delete"

\* A defunct cluster keeps its status for a while after the request.
Doom(id) ==
  clusters' = [clusters EXCEPT ![id].job = "delete",
                 ![id].status = IF @ = "defunct" THEN @ ELSE "deleting"]

DeleteWithoutWait ==
  /\ pc = "delete"
  /\ \/ CanAnswer /\ AcceptsDelete(d.id) /\ Doom(d.id) /\ Goto("gone") /\ UNCHANGED d
     \/ MayFail /\ Fail /\ UNCHANGED <<clusters, lost>>

Delete ==
  /\ pc = "delete"
  /\ \/ /\ CanAnswer /\ AcceptsDelete(d.id)
        /\ Doom(d.id)
        /\ \/ StartWait("deleted", "gone") /\ UNCHANGED d
           \/ ~calm /\ Fail /\ UNCHANGED lost
     \/ /\ MayFail \/ ~AcceptsDelete(d.id)
        /\ Fail /\ UNCHANGED <<clusters, lost>>

\* Terraform drops the resource when Delete returns without an error, and goes
\* on to the create of a replacement.
DeleteReturns ==
  /\ pc = "gone"
  /\ End("plan", NoState)
  /\ UNCHANGED <<clusters, lost, built>>

-----------------------------------------------------------------------------
(***************************************************************************)
(* ManagedClusterWaitForState: poll every 5 seconds.  Time passes in the   *)
(* sleeps and in the requests; one unit is one poll, and beyond the grace  *)
(* it is no longer counted.                                                *)
(***************************************************************************)

Seen == clusters[d.id].status
NeverGiveUp == FALSE
SlowIsDefunct == wait.elapsed > Grace
GiveUp == Seen = "defunct" /\ wait.elapsed > Grace

WaitGetRetries ==
  /\ pc = "get"
  /\ \/ CanAnswer /\ Seen = wait.state /\ Goto(wait.then)
     \/ (Seen # wait.state \/ MayFail) /\ Goto("sleep")
  /\ UNCHANGED <<clusters, d>>

WaitGet ==
  /\ pc = "get"
  /\ \/ CanAnswer /\ GiveUp /\ Fail
     \/ CanAnswer /\ ~GiveUp /\ Seen = wait.state /\ Goto(wait.then) /\ UNCHANGED d
     \/ CanAnswer /\ ~GiveUp /\ Seen # wait.state /\ Goto("sleep") /\ UNCHANGED d
     \/ MayFail /\ Fail
  /\ UNCHANGED <<clusters, lost>>

WaitSleep ==
  /\ pc = "sleep"
  /\ pc' = "get"
  /\ \E t \in 1 .. Grace + 1 :
       /\ t > wait.elapsed \/ t = Grace + 1
       /\ wait' = [wait EXCEPT !.elapsed = t]
  /\ UNCHANGED <<cfg, tf, clusters, d, expired, calm, lost, built>>

\* The 20 minutes an operation is given have passed: every later request fails.
Expire ==
  /\ pc \in Handler /\ ~expired /\ ~calm
  /\ expired' = TRUE
  /\ UNCHANGED <<cfg, tf, clusters, pc, d, wait, calm, lost, built>>

\* The process dies: Terraform keeps the state it had before the operation.
Crash ==
  /\ pc \in Handler /\ ~calm
  /\ lost' = IF d.op = "create" /\ d.id # None THEN lost \union {d.id} ELSE lost
  /\ End("idle", tf)
  /\ UNCHANGED <<clusters, built>>

-----------------------------------------------------------------------------
(***************************************************************************)
(* The API at work (external).                                             *)
(***************************************************************************)

Finish(id) ==
  /\ \/ /\ clusters[id].job \in {"create", "update"}
        /\ clusters' = [clusters EXCEPT ![id].status = "available", ![id].job = "none",
                                        ![id].attrs = clusters[id].target]
        /\ UNCHANGED <<lost, built>>
     \/ /\ clusters[id].job = "delete" /\ clusters[id].status = "deleting"
        /\ clusters' = [clusters EXCEPT ![id].status = "deleted", ![id].job = "none"]
        /\ lost' = lost \ {id} /\ built' = [built EXCEPT ![id] = None]
     \/ /\ clusters[id].job = "delete" /\ clusters[id].status = "defunct"
        /\ clusters' = [clusters EXCEPT ![id].status = "deleting"]
        /\ UNCHANGED <<lost, built>>
  /\ UNCHANGED <<cfg, tf, pc, d, wait, expired, calm>>

Break(id) ==
  /\ ~calm
  /\ clusters[id].status \notin {"none", "deleted", "defunct"}
  /\ clusters' = [clusters EXCEPT ![id].status = "defunct", ![id].job = "none"]
  /\ UNCHANGED <<cfg, tf, pc, d, wait, expired, calm, lost, built>>

\* From some point on, in the middle of an operation or not, nothing fails and
\* nothing is edited any more (only the convergence of the system needs this; it
\* need not happen).
Calm ==
  /\ ~calm
  /\ calm' = TRUE
  /\ UNCHANGED <<cfg, tf, clusters, pc, d, wait, expired, lost, built>>

-----------------------------------------------------------------------------
Step ==
  \/ Create \/ Read \/ UpdateMeta \/ Resize \/ Upgrade \/ ExpandDisk
  \/ Delete \/ DeleteReturns \/ WaitGet \/ WaitSleep

Next ==
  \/ Edit \/ Refresh \/ Plan
  \/ Step \/ Expire \/ Crash \/ Calm
  \/ \E id \in Ids : Import(id) \/ Finish(id) \/ Break(id)

Spec == Init /\ [][Next]_vars

-----------------------------------------------------------------------------
(***************************************************************************)
(* Safety.                                                                 *)
(***************************************************************************)

Alive(id) == clusters[id].status \notin {"none", "deleted"}

\* No cluster is paid for and forgotten: one that is not deleted is in the
\* state, in the hands of the running handler, or its creation was cut off
\* between the API's acceptance and the saving of its id (a crash or a lost
\* answer) and it was not imported since.  In particular a delete does not return
\* while the cluster exists, and an error after d.SetId keeps the id
\* (resource_managed_cluster.go:370).
NothingForgotten ==
  \A id \in Ids : Alive(id) => id \in {tf.id, d.id} \union lost

\* The steps of one operation do not overlap: when the handler turns to its
\* next command, or to the final read, the command it issued before is done
\* (resource_managed_cluster.go:498-507, 521-528, 556-563, 589-596).
StepsDoNotOverlap ==
  pc \in Phases \union {"read"} /\ (d.issued \/ d.op = "create")
    => clusters[d.id].job = "none"

\* What Update acts on, of what changed: not the version, which only a tag moves.
Acted(f) == f \in {"name", "protected", "projection", "instance", "tag", "size", "perf"}

\* An operation that is about to succeed has done what the plan asked: after a
\* create the cluster has the attributes of the request, after an update every
\* changed attribute that has a command, whatever was still under way at the API
\* when the operation began.
SuccessMeansDone ==
  pc = "read" =>
    LET has == clusters[d.id].attrs IN
    /\ d.op = "create" =>
         /\ has.place = LowerCase[d.new.place]
         /\ \A f \in DOMAIN has \ {"place", "tag"} : has[f] = d.new[f]
    /\ d.op = "update" =>
         \A f \in DOMAIN has : Acted(f) /\ d.new[f] # d.old[f] => has[f] = d.new[f]

\* No command asks for a disk smaller than the cluster has, unless the refresh
\* read the cluster while a command of an earlier operation was still under way:
\* the handler compares with the state, not with the cluster
\* (resource_managed_cluster.go:568-574).
NoBlindShrink ==
  [][\A id \in Ids :
       clusters[id].job = "none" /\ clusters'[id].job = "update" /\ ~d.overhang
         => clusters'[id].target.size >= clusters[id].attrs.size]_vars

\* A cluster whose creation was reported as a success is about to be destroyed.
Destroyed(id) ==
  built[id] # None /\ clusters[id].job # "delete" /\ clusters'[id].job = "delete"

\* The configuration names the cluster's place with capitals, which validation lets pass and
\* no read gives back.
Capitals == cfg # Absent /\ LowerCase[cfg.place] # cfg.place

\* A cluster whose creation was reported as a success is destroyed only when the
\* user removed it, or names another place than the one it was created from, or
\* writes topology or acl_id with capitals: no failure, no crash and no
\* value that the API gives back leads to its replacement
\* (resource_managed_cluster.go:346-381, 410-465).
OnlyUnwantedDestroyed ==
  [][\A id \in Ids :
       Destroyed(id) => cfg = Absent \/ cfg.place # built[id] \/ Capitals]_vars

\* What the schema says of topology: a value is valid in any spelling
\* (resource_managed_cluster.go:54-56, StringInSlice(validTopologies, true)).  A cluster
\* is kept, then, as long as the configuration is the one it was created from.
CreatedIsKept ==
  [][\A id \in Ids : Destroyed(id) => cfg = Absent \/ cfg.place # built[id]]_vars

-----------------------------------------------------------------------------
(***************************************************************************)
(* Liveness.                                                               *)
(***************************************************************************)

\* Handlers take their steps: a request ends, by its answer or by the deadline of
\* its context, a sleep ends, and the deadline passes.  The user applies again and
\* again.  The API may stop at any point, until the faults end: then it finishes
\* what it began.
LiveSpec ==
  /\ Spec
  /\ WF_vars(Step) /\ WF_vars(Expire) /\ WF_vars(Refresh) /\ WF_vars(Plan)
  /\ \A id \in Ids : WF_vars(calm /\ Finish(id))

\* Every operation ends, whatever the API does, because every poll makes a
\* request under the context of the operation (cluster_waiter.go:30-33).
OperationEnds == (pc \in Handler) ~> (pc \notin Handler)

\* The state, the cluster and the configuration agree.
Settled ==
  IF cfg = Absent
  THEN tf.id = None
  ELSE /\ tf.id # None /\ ~tf.tainted
       /\ clusters[tf.id].status = "available"
       /\ tf.attrs = clusters[tf.id].attrs
       /\ tf.attrs = Planned

\* The situations applying again does not get out of: a place written with capitals,
\* which every apply replaces; a defunct cluster that is to be kept, a protected
\* cluster that is to be destroyed or replaced (a tainted one included), a disk
\* that is to shrink, a version without its tag, a tag of another version.
Wedged ==
  \/ Capitals
  \/ /\ tf.id # None
     /\ LET has == clusters[tf.id].attrs IN
        \/ MustDelete /\ has.protected
        \/ /\ ~MustDelete
           /\ \/ clusters[tf.id].status = "defunct"
              \/ cfg.size < has.size
              \/ cfg.version # has.version /\ cfg.tag = None
              \/ cfg.tag # None /\ VersionOf[cfg.tag] # cfg.version

\* From any point at which faults and edits are over, an operation in progress
\* included, applying again and again brings the cluster to the configuration for
\* good, from whatever the failed operations left behind, or to one of the
\* situations listed above (or every id of the model is taken by a lost cluster).
\* A cluster that is replaced again and again never settles.
Converges == calm ~> [](Settled \/ Wedged \/ (tf.id = None /\ FreshIds = {}))

-----------------------------------------------------------------------------
(***************************************************************************)
(* The waits, as their handlers see them.                                  *)
(***************************************************************************)
WaitPhase ==
  IF pc \in {"get", "sleep"} THEN "waiting" ELSE IF wait = NoWait THEN "idle" ELSE "reached"

WaitGoal == IF WaitPhase = "idle" THEN "none" ELSE wait.state

Waits == INSTANCE Polling WITH
  NoGoal <- "none", Failures <- {"defunct"},
  phase <- WaitPhase,
  want <- WaitGoal,
  shown <- IF d.id = None THEN "none" ELSE Seen,
  trouble <- expired \/ ~calm

\* A wait succeeds only when the status that was asked for is the one shown, and is given
\* up only on a status of failure, an error or the end of its time (cluster_waiter.go:29-50).
Polls == Waits!Spec
=============================================================================
