------------------------------ MODULE Network ------------------------------
(***************************************************************************)
(* The network resource: the handlers of esc/resource_network.go, their    *)
(* waiter (client/network_waiter.go) and their API calls                   *)
(* (client/network_*.go).  A public network has no "cidr_block" in the     *)
(* configuration, yet the API gives it an address space.  Project, provider*)
(* and region are ForceNew as "cidr_block" is, which stands for them.      *)
(* Terraform and the API are external.                                     *)
(*                                                                         *)
(* AddressKept, PublicNotRefused, DeleteWithoutWait and NeverGivesUp are   *)
(* faulty variants of the definition they precede.                         *)
(***************************************************************************)
EXTENDS Naturals

CONSTANTS
  Cidrs,      \* address spaces
  Unset,      \* the empty "cidr_block"
  Names,      \* values of "name"
  Configs,    \* the configurations the user may write
  Absent,     \* the configuration without the resource
  None,       \* no id, no attributes
  MaxNetworks,\* bound: how many networks are created in a behaviour
  Grace       \* the 30 seconds a waiter tolerates "defunct", counted in polls

Ids == 1 .. MaxNetworks
Attrs == [public: BOOLEAN, cidr: Cidrs \union {Unset}, name: Names]
Legal == {a \in Attrs : a.public <=> a.cidr = Unset}  \* what Create lets pass
Addressed == {a \in Attrs : a.cidr # Unset}           \* what the API stores

ASSUME ConfigAssumption == Configs \subseteq Attrs
ASSUME NullAssumption ==
  Unset \notin Cidrs /\ Absent \notin Attrs /\ None \notin Attrs \union Nat
ASSUME BoundAssumption == MaxNetworks \in Nat /\ Grace \in Nat

VARIABLES
  cfg,      \* what the user wants: attributes, or Absent
  tf,       \* Terraform's saved state of the resource
  networks, \* the API's networks
  pc,       \* where Terraform and the handler it runs are
  d,        \* the handler's ResourceData
  wait,     \* the running NetworkWaitForState
  expired,  \* the handler's context has passed its deadline
  calm,     \* from here on: no fault, no deadline, no edit
  lost,     \* history: networks whose id never reached Terraform's state
  built     \* history: networks whose creation was reported as a success

vars == <<cfg, tf, networks, pc, d, wait, expired, calm, lost, built>>

Statuses == {"none", "provisioning", "available", "deleting", "deleted", "defunct"}
Handler == {"create", "read", "update", "reread", "delete", "gone", "get", "sleep"}

NoState == [id |-> None, attrs |-> None, tainted |-> FALSE]
NoData == [op |-> "none", id |-> None, new |-> None]
NoWait == [state |-> "none", then |-> "idle", elapsed |-> 0]
NoNetwork == [status |-> "none", doomed |-> FALSE, attrs |-> None]

\* A network has an address space, and the state has it for a private network only.
TypeOK ==
  /\ cfg \in Configs \union {Absent}
  /\ tf \in [id: Ids \union {None}, attrs: Legal \union {None}, tainted: BOOLEAN]
  /\ networks \in [Ids -> [status: Statuses, doomed: BOOLEAN, attrs: Addressed \union {None}]]
  /\ pc \in {"idle", "plan"} \union Handler
  /\ d \in [op: {"none", "create", "update", "delete"}, id: Ids \union {None},
            new: Attrs \union {None}]
  /\ wait \in [state: {"none", "available", "deleted"}, then: {"idle", "read", "gone"},
               elapsed: 0 .. Grace + 1]
  /\ expired \in BOOLEAN /\ calm \in BOOLEAN
  /\ lost \subseteq Ids /\ built \subseteq Ids

Init ==
  /\ cfg \in Configs \union {Absent}
  /\ tf = NoState /\ networks = [i \in Ids |-> NoNetwork]
  /\ pc = "idle" /\ d = NoData /\ wait = NoWait
  /\ expired = FALSE /\ calm = FALSE /\ lost = {} /\ built = {}

-----------------------------------------------------------------------------
\* Terraform keeps what the handler leaves in ResourceData: a create with an id is
\* saved as tainted, an update with the values it was asked for.
StateAfterError ==
  CASE d.op = "create" /\ d.id = None -> NoState
    [] d.op = "create" /\ d.id # None -> [id |-> d.id, attrs |-> d.new, tainted |-> TRUE]
    [] d.op = "update" -> [id |-> d.id, attrs |-> d.new, tainted |-> FALSE]
    [] OTHER -> tf

End(where, state) ==
  /\ tf' = state
  /\ pc' = where /\ d' = NoData /\ wait' = NoWait /\ expired' = FALSE
  /\ UNCHANGED <<cfg, calm>>

Fail == End("idle", StateAfterError) /\ UNCHANGED built

CanAnswer == ~expired
MayFail == expired \/ ~calm

Goto(where) ==
  /\ pc' = where
  /\ UNCHANGED <<cfg, tf, d, wait, expired, calm, lost, built>>

StartWait(state, then) ==
  /\ pc' = "get"
  /\ wait' = [state |-> state, then |-> then, elapsed |-> 0]
  /\ UNCHANGED <<cfg, tf, expired, calm, lost, built>>

-----------------------------------------------------------------------------
Edit ==
  /\ pc = "idle" /\ ~calm
  /\ cfg' \in (Configs \union {Absent}) \ {cfg}
  /\ UNCHANGED <<tf, networks, pc, d, wait, expired, calm, lost, built>>

AddressKept(id, tainted) ==
  IF networks[id].status = "deleted"
  THEN NoState
  ELSE [id |-> id, attrs |-> networks[id].attrs, tainted |-> tainted]

\* resourceNetworkRead: the address space the API gave to a public network is blanked.
StateRead(id, tainted) ==
  LET attrs == networks[id].attrs
  IN  IF networks[id].status = "deleted"
      THEN NoState
      ELSE [id |-> id, tainted |-> tainted,
            attrs |-> IF attrs.public THEN [attrs EXCEPT !.cidr = Unset] ELSE attrs]

\* An apply, a destroy included, begins with a refresh.
Refresh ==
  /\ pc = "idle"
  /\ pc' = "plan"
  /\ tf' = IF tf.id = None THEN tf ELSE StateRead(tf.id, tf.tainted)
  /\ UNCHANGED <<cfg, networks, d, wait, expired, calm, lost, built>>

\* terraform import: an existing network is taken into the state as Read finds it.
Import(id) ==
  /\ pc = "idle" /\ ~calm
  /\ tf.id = None /\ cfg # Absent
  /\ networks[id].status \notin {"none", "deleted"}
  /\ tf' = StateRead(id, FALSE)
  /\ lost' = lost \ {id}
  /\ UNCHANGED <<cfg, networks, pc, d, wait, expired, calm, built>>

\* The id of a network that is gone stands for a new one.
FreshIds == {i \in Ids : networks[i].status \in {"none", "deleted"}}

\* Every attribute but "name" is ForceNew.
Replaces(old, new) == old.public # new.public \/ old.cidr # new.cidr

MustDelete ==
  /\ tf.id # None
  /\ cfg = Absent \/ tf.tainted \/ (cfg # Absent /\ Replaces(tf.attrs, cfg))

Plan ==
  /\ pc = "plan"
  /\ \/ /\ tf.id = None /\ cfg # Absent /\ FreshIds # {}
        /\ d' = [op |-> "create", id |-> None, new |-> cfg]
        /\ pc' = "create"
     \/ /\ MustDelete
        /\ d' = [op |-> "delete", id |-> tf.id, new |-> None]
        /\ pc' = "delete"
     \/ /\ tf.id # None /\ ~MustDelete /\ cfg # tf.attrs
        /\ d' = [op |-> "update", id |-> tf.id, new |-> cfg]
        /\ pc' = "update"
     \/ /\ IF tf.id = None THEN cfg = Absent \/ FreshIds = {} ELSE cfg = tf.attrs /\ ~MustDelete
        /\ d' = NoData /\ pc' = "idle"
  /\ UNCHANGED <<cfg, tf, networks, wait, expired, calm, lost, built>>

-----------------------------------------------------------------------------
PublicNotRefused(attrs) == ~attrs.public /\ attrs.cidr = Unset

\* The handler refuses a public network with an address space and a private one
\* without, which no validation of the plan does.
Refused(attrs) == attrs.public <=> attrs.cidr # Unset

\* POST .../networks; the API chooses the address space of a public network.
Provision(id) ==
  \E cidr \in Cidrs :
    networks' = [networks EXCEPT ![id] =
                   [status |-> "provisioning", doomed |-> FALSE,
                    attrs |-> IF d.new.public THEN [d.new EXCEPT !.cidr = cidr] ELSE d.new]]

Create ==
  /\ pc = "create"
  /\ \/ Refused(d.new) /\ Fail /\ UNCHANGED <<networks, lost>>
     \/ /\ ~Refused(d.new) /\ CanAnswer
        /\ \E id \in FreshIds :
             /\ Provision(id)
             /\ \/ d' = [d EXCEPT !.id = id] /\ StartWait("available", "read")
                \/ ~calm /\ Fail /\ lost' = lost \union {id}
     \/ ~Refused(d.new) /\ MayFail /\ Fail /\ UNCHANGED <<networks, lost>>

\* resourceNetworkRead at the end of Create.
Read ==
  /\ pc = "read"
  /\ \/ CanAnswer /\ End("idle", StateRead(d.id, FALSE)) /\ built' = built \union {d.id}
     \/ MayFail /\ Fail
  /\ UNCHANGED <<networks, lost>>

\* resourceNetworkUpdate: the PUT has no body, so no name reaches the API.
Update ==
  /\ pc = "update"
  /\ \/ CanAnswer /\ Goto("reread")
     \/ MayFail /\ Fail /\ UNCHANGED lost
  /\ UNCHANGED networks

\* It ends with resourceProjectRead, which asks for the project that has the id of the
\* network: there is none, and the handler fails.
ProjectRead ==
  /\ pc = "reread"
  /\ Fail
  /\ UNCHANGED <<networks, lost>>

AcceptsDelete(id) == networks[id].status # "deleted" /\ ~networks[id].doomed

\* A defunct network keeps its status for a while.
Doom(id) ==
  networks' = [networks EXCEPT ![id].doomed = TRUE,
                 ![id].status = IF @ = "defunct" THEN @ ELSE "deleting"]

DeleteWithoutWait ==
  /\ pc = "delete"
  /\ \/ CanAnswer /\ AcceptsDelete(d.id) /\ Doom(d.id) /\ Goto("gone")
     \/ MayFail /\ Fail /\ UNCHANGED <<networks, lost>>

Delete ==
  /\ pc = "delete"
  /\ \/ /\ CanAnswer /\ AcceptsDelete(d.id)
        /\ Doom(d.id)
        /\ \/ StartWait("deleted", "gone") /\ UNCHANGED d
           \/ ~calm /\ Fail /\ UNCHANGED lost
     \/ (MayFail \/ ~AcceptsDelete(d.id)) /\ Fail /\ UNCHANGED <<networks, lost>>

DeleteReturns ==
  /\ pc = "gone"
  /\ End("plan", NoState)
  /\ UNCHANGED <<networks, lost, built>>

-----------------------------------------------------------------------------
(***************************************************************************)
(* NetworkWaitForState                                                     *)
(***************************************************************************)
Seen == networks[d.id].status

NeverGivesUp == FALSE

GiveUp == Seen = "defunct" /\ wait.elapsed > Grace

WaitGet ==
  /\ pc = "get"
  /\ \/ CanAnswer /\ ~GiveUp /\ Goto(IF Seen = wait.state THEN wait.then ELSE "sleep")
     \/ (MayFail \/ GiveUp) /\ Fail /\ UNCHANGED lost
  /\ UNCHANGED networks

\* One unit is one poll, at least; beyond the grace time is not counted.
WaitSleep ==
  /\ pc = "sleep"
  /\ pc' = "get"
  /\ \E t \in 1 .. Grace + 1 :
       /\ t > wait.elapsed \/ t = Grace + 1
       /\ wait' = [wait EXCEPT !.elapsed = t]
  /\ UNCHANGED <<cfg, tf, networks, d, expired, calm, lost, built>>

Expire ==
  /\ pc \in Handler /\ ~expired /\ ~calm
  /\ expired' = TRUE
  /\ UNCHANGED <<cfg, tf, networks, pc, d, wait, calm, lost, built>>

Crash ==
  /\ pc \in Handler /\ ~calm
  /\ lost' = IF d.op = "create" /\ d.id # None THEN lost \union {d.id} ELSE lost
  /\ End("idle", tf)
  /\ UNCHANGED <<networks, built>>

-----------------------------------------------------------------------------
(***************************************************************************)
(* The API (external).                                                     *)
(***************************************************************************)
Become(id, status) ==
  /\ networks' = [networks EXCEPT ![id].status = status]
  /\ UNCHANGED <<cfg, tf, pc, d, wait, expired, calm, lost, built>>

Provide(id) == networks[id].status = "provisioning" /\ Become(id, "available")

Remove(id) ==
  /\ networks[id].doomed
  /\ \/ networks[id].status = "defunct" /\ Become(id, "deleting")
     \/ /\ networks[id].status = "deleting"
        /\ networks' = [networks EXCEPT ![id].status = "deleted"]
        /\ lost' = lost \ {id} /\ built' = built \ {id}
        /\ UNCHANGED <<cfg, tf, pc, d, wait, expired, calm>>

\* Trouble: work on the network is given up, a deletion included.
Break(id) ==
  /\ ~calm
  /\ networks[id].status \notin {"none", "deleted", "defunct"}
  /\ networks' = [networks EXCEPT ![id].status = "defunct", ![id].doomed = FALSE]
  /\ UNCHANGED <<cfg, tf, pc, d, wait, expired, calm, lost, built>>

\* At any point of an operation.
Calm ==
  /\ ~calm
  /\ calm' = TRUE
  /\ UNCHANGED <<cfg, tf, networks, pc, d, wait, expired, lost, built>>

Step ==
  \/ Create \/ Read \/ Update \/ ProjectRead \/ Delete \/ DeleteReturns
  \/ WaitGet \/ WaitSleep

Next ==
  \/ Edit \/ Refresh \/ Plan \/ Step \/ Expire \/ Crash \/ Calm
  \/ \E id \in Ids : Import(id) \/ Provide(id) \/ Remove(id) \/ Break(id)

Spec == Init /\ [][Next]_vars

\* Requests and sleeps end, the user applies again and again, and once the faults are
\* over the API goes on.
LiveSpec ==
  /\ Spec
  /\ WF_vars(Step) /\ WF_vars(Refresh) /\ WF_vars(Plan)
  /\ \A id \in Ids : WF_vars(calm /\ Provide(id)) /\ WF_vars(calm /\ Remove(id))

-----------------------------------------------------------------------------
\* No network is forgotten: one that is not deleted is in the state, in the hands of
\* the handler, or was cut off before its id was saved and not imported since
\* (resource_network.go:181-190, 296-307).
NothingForgotten ==
  \A id \in Ids :
    networks[id].status \notin {"none", "deleted"} => id \in {tf.id, d.id} \union lost

\* A network whose creation was reported as a success is destroyed only when the user
\* removed it or changed one of the attributes it was created with: neither the
\* address space the API gave it (resource_network.go:249-253), nor a failed update,
\* leads to its replacement.
OnlyUnwantedDestroyed ==
  [][\A id \in built :
       ~networks[id].doomed /\ networks'[id].doomed
         => \/ cfg = Absent
            \/ cfg.public # networks[id].attrs.public
            \/ ~cfg.public /\ cfg.cidr # networks[id].attrs.cidr
            \/ Refused(cfg)]_vars

Settled ==
  IF cfg = Absent
  THEN tf.id = None
  ELSE /\ tf.id # None /\ ~tf.tainted /\ tf.attrs = cfg
       /\ networks[tf.id].status = "available" /\ networks[tf.id].attrs.name = cfg.name

Misnamed == tf.id # None /\ cfg # Absent /\ networks[tf.id].attrs.name # cfg.name

\* What applying again does not help: a network to be kept that is defunct or has
\* another name, and a configuration that Create refuses, after the network it
\* replaces is gone.
Wedged ==
  \/ tf.id # None /\ ~MustDelete /\ (networks[tf.id].status = "defunct" \/ Misnamed)
  \/ tf.id = None /\ cfg # Absent /\ (Refused(cfg) \/ FreshIds = {})

\* From any point at which faults and edits are over, an operation in progress
\* included, applying again and again brings the network to the configuration for good,
\* or to one of the situations above (network_waiter.go:27-50 gives up on a network that
\* became defunct).
Converges == calm ~> [](Settled \/ Wedged)

-----------------------------------------------------------------------------
\* What docs/resources/network.md says of name, which is not ForceNew: "Human-friendly
\* name for the network".  A change of the name alone reaches the network.
NameChanges ==
  (calm /\ Misnamed /\ ~MustDelete /\ networks[tf.id].status = "available") ~> ~Misnamed
=============================================================================
