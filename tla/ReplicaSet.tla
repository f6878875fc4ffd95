----------------------------- MODULE ReplicaSet -----------------------------
(***************************************************************************)
(* The read-only replica set of a managed cluster: the handlers of         *)
(* esc/resource_managed_cluster_replicaset.go, their waiter                *)
(* (client/replicaset_waiter.go) and their API calls                       *)
(* (client/replicaset_*.go).  A cluster has one replica set at most, whose *)
(* Terraform id is the cluster's.  Unlike the other waiters this one knows *)
(* the API's failures and notices the deadline while it sleeps.  Terraform *)
(* and the API are external.                                               *)
(*                                                                         *)
(* CountNotSent, FailuresMissed, ChangingIsFailure, DeleteWithoutWait and  *)
(* UpdateWithoutWait are faulty variants of the definition they precede.   *)
(***************************************************************************)
EXTENDS Naturals

CONSTANTS
  Clusters,   \* the clusters: the ForceNew "cluster_id", with its project
  Counts,     \* values of "replica_count"
  Absent,     \* the configuration without the resource
  None,       \* no id, no attributes
  Lingering,  \* statuses the API may keep for a while after it accepts a command
  Grace       \* the 30 seconds a waiter tolerates "defunct", counted in polls

Attrs == [count: Counts, protected: BOOLEAN]
Config == [cluster: Clusters, attrs: Attrs]

\* What the API shows when it works on a command, when it failed to do it, and when a set
\* fails without a command of the resource (external).
Working == [create |-> "provisioning", change |-> "changing", delete |-> "deleting"]
Failed == [create |-> {"compute create failed", "install failed"},
           change |-> {"replica count change failed", "config change failed"},
           delete |-> {"delete failed"}]
Broken == {"defunct", "disk resize failed", "upgrade failed"}
Jobs == DOMAIN Working
FailureStates == Broken \union UNION {Failed[j] : j \in Jobs}
Statuses == {"none", "available", "deleted"}
              \union {Working[j] : j \in Jobs} \union FailureStates

ASSUME NullAssumption ==
  Absent \notin Config /\ None \notin Attrs \union Clusters
ASSUME LingeringAssumption == Lingering \subseteq FailureStates
ASSUME BoundAssumption == Grace \in Nat

VARIABLES
  cfg,      \* what the user wants: a configuration, or Absent
  tf,       \* Terraform's saved state of the resource
  sets,     \* the API's replica sets, by cluster
  pc,       \* where Terraform and the handler it runs are
  d,        \* the handler's ResourceData
  wait,     \* the running ReplicaSetWaitForState
  expired,  \* the handler's context has passed its deadline
  calm,     \* from here on: no fault, no deadline, no edit
  lost      \* history: clusters with a replica set whose creation Terraform missed

vars == <<cfg, tf, sets, pc, d, wait, expired, calm, lost>>

Waiting == {"get", "sleep"}
Handler == {"create", "read", "update", "delete", "gone"} \union Waiting

NoState == [id |-> None, attrs |-> None, tainted |-> FALSE]
NoData == [op |-> "none", id |-> None, new |-> None]
NoWait == [state |-> "none", then |-> "idle", elapsed |-> 0]
NoSet == [status |-> "none", job |-> "none", target |-> None, attrs |-> None]

TypeOK ==
  /\ cfg \in Config \union {Absent}
  /\ tf \in [id: Clusters \union {None}, attrs: Attrs \union {None}, tainted: BOOLEAN]
  /\ sets \in [Clusters -> [status: Statuses, job: Jobs \union {"none"},
                            target: Attrs \union {None}, attrs: Attrs \union {None}]]
  /\ pc \in {"idle", "plan"} \union Handler
  /\ d \in [op: {"none", "create", "update", "delete"}, id: Clusters \union {None},
            new: Config \union {None}]
  /\ wait \in [state: {"none", "available", "deleted"}, then: {"idle", "read", "gone"},
               elapsed: 0 .. Grace + 1]
  /\ expired \in BOOLEAN /\ calm \in BOOLEAN /\ lost \subseteq Clusters

Init ==
  /\ cfg \in Config \union {Absent}
  /\ tf = NoState /\ sets = [c \in Clusters |-> NoSet]
  /\ pc = "idle" /\ d = NoData /\ wait = NoWait
  /\ expired = FALSE /\ calm = FALSE /\ lost = {}

-----------------------------------------------------------------------------
\* Terraform keeps what the handler leaves in ResourceData: a create with an id is
\* saved as tainted, an update with the values it was asked for.
StateAfterError ==
  CASE d.op = "create" /\ d.id = None -> NoState
    [] d.op = "create" /\ d.id # None -> [id |-> d.id, attrs |-> d.new.attrs, tainted |-> TRUE]
    [] d.op = "update" -> [id |-> d.id, attrs |-> d.new.attrs, tainted |-> FALSE]
    [] OTHER -> tf

End(where, state) ==
  /\ tf' = state
  /\ pc' = where /\ d' = NoData /\ wait' = NoWait /\ expired' = FALSE
  /\ UNCHANGED <<cfg, calm>>

Fail == End("idle", StateAfterError)

CanAnswer == ~expired
MayFail == expired \/ ~calm

Goto(where) ==
  /\ pc' = where
  /\ UNCHANGED <<cfg, tf, d, wait, expired, calm, lost>>

StartWait(state, then) ==
  /\ pc' = "get"
  /\ wait' = [state |-> state, then |-> then, elapsed |-> 0]
  /\ UNCHANGED <<cfg, tf, expired, calm>>

-----------------------------------------------------------------------------
Edit ==
  /\ pc = "idle" /\ ~calm
  /\ cfg' \in (Config \union {Absent}) \ {cfg}
  /\ UNCHANGED <<tf, sets, pc, d, wait, expired, calm, lost>>

\* resourceManagedClusterReplicasetRead
StateRead(c, tainted) ==
  IF sets[c].status = "deleted"
  THEN NoState
  ELSE [id |-> c, attrs |-> sets[c].attrs, tainted |-> tainted]

\* An apply, a destroy included, begins with a refresh.
Refresh ==
  /\ pc = "idle"
  /\ pc' = "plan"
  /\ tf' = IF tf.id = None THEN tf ELSE StateRead(tf.id, tf.tainted)
  /\ UNCHANGED <<cfg, sets, d, wait, expired, calm, lost>>

\* resourceManagedClusterReplicasetImport, then the read.
Import(c) ==
  /\ pc = "idle" /\ ~calm
  /\ tf.id = None /\ cfg # Absent
  /\ sets[c].status \notin {"none", "deleted"}
  /\ tf' = StateRead(c, FALSE)
  /\ lost' = lost \ {c}
  /\ UNCHANGED <<cfg, sets, pc, d, wait, expired, calm>>

MustDelete ==
  /\ tf.id # None
  /\ cfg = Absent \/ tf.tainted \/ (cfg # Absent /\ cfg.cluster # tf.id)

Plan ==
  /\ pc = "plan"
  /\ \/ /\ tf.id = None /\ cfg # Absent
        /\ d' = [op |-> "create", id |-> None, new |-> cfg]
        /\ pc' = "create"
     \/ /\ MustDelete
        /\ d' = [op |-> "delete", id |-> tf.id, new |-> None]
        /\ pc' = "delete"
     \/ /\ tf.id # None /\ ~MustDelete /\ cfg.attrs # tf.attrs
        /\ d' = [op |-> "update", id |-> tf.id, new |-> cfg]
        /\ pc' = "update"
     \/ /\ IF tf.id = None THEN cfg = Absent ELSE ~MustDelete /\ cfg.attrs = tf.attrs
        /\ d' = NoData /\ pc' = "idle"
  /\ UNCHANGED <<cfg, tf, sets, wait, expired, calm, lost>>

-----------------------------------------------------------------------------
Exists(c) == sets[c].status \notin {"none", "deleted"}

CountNotSent(c) ==
  LET sent == [d.new.attrs EXCEPT !.count = 0] IN
    sets' = [sets EXCEPT ![c] = [status |-> Working["create"], job |-> "create",
                                 target |-> sent, attrs |-> sent]]

\* POST .../clusters/{c}/replicaset
Provision(c) ==
  sets' = [sets EXCEPT ![c] = [status |-> Working["create"], job |-> "create",
                               target |-> d.new.attrs, attrs |-> d.new.attrs]]

Create ==
  /\ pc = "create"
  /\ LET c == d.new.cluster IN
     \/ /\ CanAnswer /\ ~Exists(c)
        /\ Provision(c)
        /\ \/ d' = [d EXCEPT !.id = c] /\ StartWait("available", "read") /\ UNCHANGED lost
           \/ ~calm /\ Fail /\ lost' = lost \union {c}
     \/ (MayFail \/ Exists(c)) /\ Fail /\ UNCHANGED <<sets, lost>>

\* resourceManagedClusterReplicasetRead at the end of Create and of Update.
Read ==
  /\ pc = "read"
  /\ \/ CanAnswer /\ End("idle", StateRead(d.id, FALSE))
     \/ MayFail /\ Fail
  /\ UNCHANGED <<sets, lost>>

\* The API takes one command at a time.
AcceptsChange(c) == sets[c].job = "none" /\ sets[c].status \in {"available"} \union Failed["change"]
AcceptsDelete(c) == Exists(c) /\ sets[c].job # "delete" /\ ~sets[c].attrs.protected

\* The API begins to work; a status of Lingering may stay for a while.
Begin(c, job, target) ==
  \E status \in {Working[job]} \union ({sets[c].status} \intersect Lingering) :
    sets' = [sets EXCEPT ![c] = [@ EXCEPT !.status = status, !.job = job, !.target = target]]

\* PUT and DELETE .../clusters/{c}/replicaset
Change(c) == Begin(c, "change", d.new.attrs)
Doom(c) == Begin(c, "delete", sets[c].attrs)

UpdateWithoutWait ==
  /\ pc = "update"
  /\ \/ CanAnswer /\ AcceptsChange(d.id) /\ Change(d.id) /\ Goto("read")
     \/ (MayFail \/ ~AcceptsChange(d.id)) /\ Fail /\ UNCHANGED <<sets, lost>>

Update ==
  /\ pc = "update"
  /\ \/ /\ CanAnswer /\ AcceptsChange(d.id)
        /\ Change(d.id)
        /\ \/ StartWait("available", "read") /\ UNCHANGED d
           \/ ~calm /\ Fail
     \/ (MayFail \/ ~AcceptsChange(d.id)) /\ Fail /\ UNCHANGED sets
  /\ UNCHANGED lost

DeleteWithoutWait ==
  /\ pc = "delete"
  /\ \/ CanAnswer /\ AcceptsDelete(d.id) /\ Doom(d.id) /\ Goto("gone")
     \/ (MayFail \/ ~AcceptsDelete(d.id)) /\ Fail /\ UNCHANGED <<sets, lost>>

Delete ==
  /\ pc = "delete"
  /\ \/ /\ CanAnswer /\ AcceptsDelete(d.id)
        /\ Doom(d.id)
        /\ \/ StartWait("deleted", "gone") /\ UNCHANGED d
           \/ ~calm /\ Fail
     \/ (MayFail \/ ~AcceptsDelete(d.id)) /\ Fail /\ UNCHANGED sets
  /\ UNCHANGED lost

DeleteReturns ==
  /\ pc = "gone"
  /\ End("plan", NoState)
  /\ UNCHANGED <<sets, lost>>

-----------------------------------------------------------------------------
(***************************************************************************)
(* ReplicaSetWaitForState                                                  *)
(***************************************************************************)
FailuresMissed ==
  {"compute create failed", "disk resize failed", "upgrade failed",
   "replica count change failed", "install failed", "config change failed"}
ChangingIsFailure == FailuresMissed \union {"delete failed", "changing"}

\* terminalReplicaSetFailureStates
TerminalFailures ==
  {"compute create failed", "delete failed", "disk resize failed", "upgrade failed",
   "replica count change failed", "install failed", "config change failed"}

Seen == sets[d.id].status

GiveUp == Seen \in TerminalFailures \/ (Seen = "defunct" /\ wait.elapsed > Grace)

WaitGet ==
  /\ pc = "get"
  /\ \/ CanAnswer /\ Seen = wait.state /\ Goto(wait.then)
     \/ CanAnswer /\ Seen # wait.state /\ GiveUp /\ Fail /\ UNCHANGED lost
     \/ CanAnswer /\ Seen # wait.state /\ ~GiveUp /\ Goto("sleep")
     \/ MayFail /\ Fail /\ UNCHANGED lost
  /\ UNCHANGED sets

\* The ticker, of which one unit is at least one tick, or the deadline, whichever
\* the select takes; beyond the grace time is not counted.
WaitSleep ==
  /\ pc = "sleep"
  /\ \/ /\ pc' = "get"
        /\ \E t \in 1 .. Grace + 1 :
             /\ t > wait.elapsed \/ t = Grace + 1
             /\ wait' = [wait EXCEPT !.elapsed = t]
        /\ UNCHANGED <<cfg, tf, d, expired, calm>>
     \/ expired /\ Fail
  /\ UNCHANGED <<sets, lost>>

Expire ==
  /\ pc \in Handler /\ ~expired /\ ~calm
  /\ expired' = TRUE
  /\ UNCHANGED <<cfg, tf, sets, pc, d, wait, calm, lost>>

Crash ==
  /\ pc \in Handler /\ ~calm
  /\ lost' = IF d.op = "create" /\ d.id # None THEN lost \union {d.id} ELSE lost
  /\ End("idle", tf)
  /\ UNCHANGED sets

-----------------------------------------------------------------------------
(***************************************************************************)
(* The API (external).                                                     *)
(***************************************************************************)
Become(c, set) ==
  /\ sets' = [sets EXCEPT ![c] = set]
  /\ UNCHANGED <<cfg, tf, pc, d, wait, expired, calm, lost>>

\* A status that lingered gives way.
Publish(c) ==
  /\ sets[c].job # "none" /\ sets[c].status # Working[sets[c].job]
  /\ Become(c, [sets[c] EXCEPT !.status = Working[sets[c].job]])

AtWork(c) == sets[c].job # "none" /\ sets[c].status = Working[sets[c].job]

Finish(c) ==
  /\ AtWork(c)
  /\ Become(c, [status |-> IF sets[c].job = "delete" THEN "deleted" ELSE "available",
                job |-> "none", target |-> None, attrs |-> sets[c].target])

\* The work fails: with a failure the API names, or the set is defunct.
Falter(c) ==
  /\ ~calm /\ AtWork(c)
  /\ \E status \in Failed[sets[c].job] \union {"defunct"} :
       Become(c, [sets[c] EXCEPT !.status = status, !.job = "none", !.target = None])

\* A set fails on its own, or with a command for its cluster.
Break(c) ==
  /\ ~calm /\ sets[c].status = "available" /\ sets[c].job = "none"
  /\ \E status \in Broken : Become(c, [sets[c] EXCEPT !.status = status])

Calm ==
  /\ ~calm
  /\ calm' = TRUE
  /\ UNCHANGED <<cfg, tf, sets, pc, d, wait, expired, lost>>

Step == Create \/ Read \/ Update \/ Delete \/ DeleteReturns \/ WaitGet \/ WaitSleep

Next ==
  \/ Edit \/ Refresh \/ Plan \/ Step \/ Expire \/ Crash \/ Calm
  \/ \E c \in Clusters : Import(c) \/ Publish(c) \/ Finish(c) \/ Falter(c) \/ Break(c)

Spec == Init /\ [][Next]_vars

\* Requests and sleeps end, the user applies again and again, and once the faults are
\* over the API goes on.  No deadline needs to pass.
LiveSpec ==
  /\ Spec
  /\ WF_vars(Step) /\ WF_vars(Refresh) /\ WF_vars(Plan)
  /\ \A c \in Clusters : WF_vars(calm /\ Publish(c)) /\ WF_vars(calm /\ Finish(c))

-----------------------------------------------------------------------------
\* No replica set is forgotten: one that is not deleted is in the state, in the hands
\* of the handler, or was cut off before its id was saved and not imported since
\* (resource_managed_cluster_replicaset.go:96-105, 207-220).
NothingForgotten ==
  \A c \in Clusters : Exists(c) => c \in {tf.id, d.id} \union lost

\* A create or an update that is about to succeed has its replica count and protection
\* in force: the "available" its wait saw is not that of before the command, and no
\* failure passed for it (resource_managed_cluster_replicaset.go:180-194).
SuccessMeansDone == pc = "read" => sets[d.id].attrs = d.new.attrs

Settled ==
  IF cfg = Absent
  THEN tf.id = None
  ELSE tf = [id |-> cfg.cluster, attrs |-> cfg.attrs, tainted |-> FALSE]
         /\ sets[cfg.cluster].status = "available" /\ sets[cfg.cluster].attrs = cfg.attrs

\* What applying again does not help: a protected set that is to be destroyed; one to be
\* kept that has failed in a way no change repairs, or that failed to change and needs no
\* change any more; and one that exists without Terraform's knowing, which the API does
\* not create a second time.
Wedged ==
  \/ MustDelete /\ sets[tf.id].attrs.protected
  \/ /\ tf.id # None /\ ~MustDelete
     /\ \/ sets[tf.id].status \in Broken \union Failed["create"] \union Failed["delete"]
        \/ sets[tf.id].status \in Failed["change"] /\ sets[tf.id].attrs = cfg.attrs
  \/ tf.id = None /\ cfg # Absent /\ cfg.cluster \in lost /\ Exists(cfg.cluster)

\* From any point at which faults and edits are over, an operation in progress included,
\* applying again and again brings the replica set to the configuration for good, or to
\* one of the situations above.  No wait goes on for a set that failed in one of the ways
\* of FailureStates, whether or not there is a deadline (replicaset_waiter.go:55-77).
Converges == calm ~> [](Settled \/ Wedged)

-----------------------------------------------------------------------------
(***************************************************************************)
(* The waits implement Polling.                                            *)
(***************************************************************************)
WaitPhase ==
  IF pc \in {"get", "sleep"} THEN "waiting" ELSE IF wait = NoWait THEN "idle" ELSE "reached"

WaitGoal == IF WaitPhase = "idle" THEN "none" ELSE wait.state

Waits == INSTANCE Polling WITH
  NoGoal <- "none", Failures <- FailureStates,
  phase <- WaitPhase,
  want <- WaitGoal,
  shown <- IF d.id = None THEN "none" ELSE Seen,
  trouble <- expired \/ ~calm

\* A wait succeeds only when the status that was asked for is the one shown, and is given
\* up only on a failure of the API, an error or the end of its time: never on a set the API
\* is still working on, which is what replicaset_waiter.go:17-19 says of the terminal
\* failures, "the operation has failed".
Polls == Waits!Spec
=============================================================================
