------------------------------ MODULE Peering ------------------------------
(***************************************************************************)
(* The peering resource: the handlers of esc/resource_peering.go, their    *)
(* waiter (client/peering_waiter.go) and their API calls                   *)
(* (client/peering_*.go).  A peering is created for a network of the       *)
(* customer's: it becomes "initiated", the API learns the identifiers of   *)
(* its remote end, which the customer needs to accept it, and acceptance   *)
(* makes it "active".  Terraform, the API and the customer are external.   *)
(*                                                                         *)
(* NameNotRead, RoutesNotSent, DeleteWithoutWait, MetadataNotAwaited and   *)
(* ProviderIgnored are faulty variants of the definition they precede.     *)
(***************************************************************************)
EXTENDS Naturals

CONSTANTS
  Places,     \* values of the ForceNew attributes: all but "name"
  ProviderOf, \* the cloud provider of the network in each of them
  AsCreated,  \* each place with that provider, in the API's spelling, as peer_resource_provider
  Names,      \* values of "name"
  Configs,    \* the configurations the user may write
  Absent,     \* the configuration without the resource
  None,       \* no id, no attributes
  MaxPeerings,\* bound: how many peerings are created in a behaviour
  Grace       \* the 30 seconds a waiter tolerates "defunct", counted in polls

Ids == 1 .. MaxPeerings
Config == [place: Places, name: Names]  \* what a configuration says

\* What the state holds: "meta" says whether provider_metadata is filled in, which it is
\* for AWS and GCP only.
AttrsAt(places) ==
  {a \in [place: places, name: Names, meta: BOOLEAN] : a.meta => ProviderOf[a.place] # "azure"}

Attrs == AttrsAt(Places)

\* peer_resource_provider is not in the request: the API has it from the network.
ApiPlaces == {p \in Places : AsCreated[p] = p}
ApiAttrs == AttrsAt(ApiPlaces)

ASSUME ProviderAssumption ==
  /\ ProviderOf \in [Places -> {"aws", "gcp", "azure"}]
  /\ AsCreated \in [Places -> Places]
  /\ \A p \in Places :
       AsCreated[AsCreated[p]] = AsCreated[p] /\ ProviderOf[AsCreated[p]] = ProviderOf[p]
ASSUME ConfigAssumption == Configs \subseteq Config
ASSUME NullAssumption ==
  Absent \notin Config /\ None \notin Attrs \union Nat \union Config \union Places
ASSUME BoundAssumption == MaxPeerings \in Nat /\ Grace \in Nat

VARIABLES
  cfg,      \* what the user wants: a configuration, or Absent
  tf,       \* Terraform's saved state of the resource
  peerings, \* the API's peerings
  pc,       \* where Terraform and the handler it runs are
  d,        \* the handler's ResourceData
  wait,     \* the running PeeringWaitForState
  expired,  \* the handler's context has passed its deadline
  calm,     \* from here on: no fault, no deadline, no edit
  lost,     \* history: peerings whose id never reached Terraform's state
  built     \* history: the configured place of a peering whose creation was a success

vars == <<cfg, tf, peerings, pc, d, wait, expired, calm, lost, built>>

Statuses == {"none", "provisioning", "initiated", "active", "deleting", "deleted", "defunct"}
Waiting == {"get", "sleep"}
Handler == {"create", "read", "update", "reread", "delete", "gone"} \union Waiting

NoState == [id |-> None, attrs |-> None, tainted |-> FALSE]
NoData == [op |-> "none", id |-> None, new |-> None]
NoWait == [state |-> "none", then |-> "idle", elapsed |-> 0]
NoPeering == [status |-> "none", doomed |-> FALSE, attrs |-> None]

\* Azure has no metadata, and the API's peerings have the provider of their network.
TypeOK ==
  /\ cfg \in Configs \union {Absent}
  /\ tf \in [id: Ids \union {None}, attrs: Attrs \union {None}, tainted: BOOLEAN]
  /\ peerings \in [Ids -> [status: Statuses, doomed: BOOLEAN, attrs: ApiAttrs \union {None}]]
  /\ pc \in {"idle", "plan", "panic"} \union Handler
  /\ d \in [op: {"none", "create", "update", "delete"}, id: Ids \union {None},
            new: Attrs \union {None}]
  /\ wait \in [state: {"none", "initiated", "deleted"}, then: {"idle", "read", "gone"},
               elapsed: 0 .. Grace + 1]
  /\ expired \in BOOLEAN /\ calm \in BOOLEAN
  /\ lost \subseteq Ids /\ built \in [Ids -> Places \union {None}]

Init ==
  /\ cfg \in Configs \union {Absent}
  /\ tf = NoState /\ peerings = [i \in Ids |-> NoPeering]
  /\ pc = "idle" /\ d = NoData /\ wait = NoWait
  /\ expired = FALSE /\ calm = FALSE /\ lost = {}
  /\ built = [i \in Ids |-> None]

-----------------------------------------------------------------------------
\* Terraform keeps what the handler leaves in ResourceData: a create with an id is
\* saved as tainted, an update with the values it was asked for.
StateAfterError ==
  CASE d.op = "create" /\ d.id = None -> NoState
    [] d.op = "create" /\ d.id # None -> [id |-> d.id, attrs |-> d.new, tainted |-> TRUE]
    [] d.op = "update" -> [id |-> d.id, attrs |-> d.new, tainted |-> FALSE]
    [] OTHER -> tf

End(where, state) ==
  /\ tf' = state
  /\ pc' = where /\ d' = NoData /\ wait' = NoWait /\ expired' = FALSE
  /\ UNCHANGED <<cfg, calm>>

Fail == End("idle", StateAfterError) /\ UNCHANGED built

CanAnswer == ~expired
MayFail == expired \/ ~calm

Goto(where) ==
  /\ pc' = where
  /\ UNCHANGED <<cfg, tf, wait, expired, calm, lost, built>>

StartWait(state, then) ==
  /\ pc' = "get"
  /\ wait' = [state |-> state, then |-> then, elapsed |-> 0]
  /\ UNCHANGED <<cfg, tf, expired, calm, lost, built>>

-----------------------------------------------------------------------------
Edit ==
  /\ pc = "idle" /\ ~calm
  /\ cfg' \in (Configs \union {Absent}) \ {cfg}
  /\ UNCHANGED <<tf, peerings, pc, d, wait, expired, calm, lost, built>>

\* resourcePeeringSetProviderMetadata: an incomplete answer is an error for GCP, a
\* warning for AWS, and Azure has no metadata.
Readable(id) == peerings[id].attrs.meta \/ ProviderOf[peerings[id].attrs.place] # "gcp"

NameNotRead(id, tainted) ==
  IF peerings[id].status = "deleted"
  THEN NoState
  ELSE [id |-> id, tainted |-> tainted,
        attrs |-> IF tf.id = id THEN [peerings[id].attrs EXCEPT !.name = tf.attrs.name]
                                ELSE peerings[id].attrs]

StateRead(id, tainted) ==
  IF peerings[id].status = "deleted"
  THEN NoState
  ELSE [id |-> id, attrs |-> peerings[id].attrs, tainted |-> tainted]

\* An apply, a destroy included, begins with a refresh and ends there when the
\* read returns an error.
Refresh ==
  /\ pc = "idle"
  /\ IF tf.id # None /\ peerings[tf.id].status # "deleted" /\ ~Readable(tf.id)
     THEN UNCHANGED <<tf, pc>>
     ELSE /\ tf' = IF tf.id = None THEN tf ELSE StateRead(tf.id, tf.tainted)
          /\ pc' = "plan"
  /\ UNCHANGED <<cfg, peerings, d, wait, expired, calm, lost, built>>

\* terraform import: an existing peering is taken into the state as Read finds it.
Import(id) ==
  /\ pc = "idle" /\ ~calm
  /\ tf.id = None /\ cfg # Absent
  /\ peerings[id].status \notin {"none", "deleted"}
  /\ Readable(id)
  /\ tf' = StateRead(id, FALSE)
  /\ lost' = lost \ {id}
  /\ UNCHANGED <<cfg, peerings, pc, d, wait, expired, calm, built>>

\* The id of a peering that is gone stands for a new one.
FreshIds == {i \in Ids : peerings[i].status \in {"none", "deleted"}}

MustDelete ==
  /\ tf.id # None
  /\ \/ cfg = Absent
     \/ tf.tainted
     \/ cfg # Absent /\ cfg.place # tf.attrs.place

Plan ==
  /\ pc = "plan"
  /\ \/ /\ tf.id = None /\ cfg # Absent /\ FreshIds # {}
        /\ d' = [op |-> "create", id |-> None,
                 new |-> [place |-> cfg.place, name |-> cfg.name, meta |-> FALSE]]
        /\ pc' = "create"
     \/ /\ MustDelete
        /\ d' = [op |-> "delete", id |-> tf.id, new |-> None]
        /\ pc' = "delete"
     \/ /\ tf.id # None /\ ~MustDelete /\ cfg.name # tf.attrs.name
        /\ d' = [op |-> "update", id |-> tf.id, new |-> [tf.attrs EXCEPT !.name = cfg.name]]
        /\ pc' = "update"
     \/ /\ IF tf.id = None THEN cfg = Absent \/ FreshIds = {}
                           ELSE ~MustDelete /\ cfg.name = tf.attrs.name
        /\ d' = NoData /\ pc' = "idle"
  /\ UNCHANGED <<cfg, tf, peerings, wait, expired, calm, lost, built>>

-----------------------------------------------------------------------------
Provisioned(place) ==
  [status |-> "provisioning", doomed |-> FALSE, attrs |-> [d.new EXCEPT !.place = place]]

RoutesNotSent(id) ==
  \E place \in ApiPlaces : peerings' = [peerings EXCEPT ![id] = Provisioned(place)]

\* POST .../peerings: all of the place but peer_resource_provider is sent.
Provision(id) == peerings' = [peerings EXCEPT ![id] = Provisioned(AsCreated[d.new.place])]

Create ==
  /\ pc = "create"
  /\ \/ /\ CanAnswer
        /\ \E id \in FreshIds :
             /\ Provision(id)
             /\ \/ d' = [d EXCEPT !.id = id] /\ StartWait("initiated", "read")
                \/ ~calm /\ Fail /\ lost' = lost \union {id}
     \/ MayFail /\ Fail /\ UNCHANGED <<peerings, lost>>

\* resourcePeeringReadCheckDefunct at the end of Create: the error of a defunct peering
\* comes before the state is set, the one of missing metadata after.
ReadCheckDefunct ==
  /\ pc = "read"
  /\ \/ /\ CanAnswer /\ peerings[d.id].status # "defunct"
        /\ End("idle", StateRead(d.id, ~Readable(d.id)))
        /\ built' = IF Readable(d.id) THEN [built EXCEPT ![d.id] = d.new.place] ELSE built
     \/ CanAnswer /\ peerings[d.id].status = "defunct" /\ Fail
     \/ MayFail /\ Fail
  /\ UNCHANGED <<peerings, lost>>

Rename(id) == peerings' = [peerings EXCEPT ![id].attrs.name = d.new.name]

\* resourcePeeringUpdate: PUT the name, then read.
Update ==
  /\ pc = "update"
  /\ \/ /\ CanAnswer
        /\ Rename(d.id)
        /\ \/ Goto("reread") /\ UNCHANGED d
           \/ ~calm /\ Fail /\ UNCHANGED lost
     \/ MayFail /\ Fail /\ UNCHANGED <<peerings, lost>>

\* resourcePeeringRead at the end of Update: with the error of missing metadata or without,
\* the state is what was read.
Reread ==
  /\ pc = "reread"
  /\ \/ CanAnswer /\ End("idle", StateRead(d.id, FALSE)) /\ UNCHANGED built
     \/ MayFail /\ Fail
  /\ UNCHANGED <<peerings, lost>>

\* The API refuses to delete what is deleted or being deleted.
AcceptsDelete(id) == peerings[id].status # "deleted" /\ ~peerings[id].doomed

\* A defunct peering keeps its status for a while.
Doom(id) ==
  peerings' = [peerings EXCEPT ![id].doomed = TRUE,
                 ![id].status = IF @ = "defunct" THEN @ ELSE "deleting"]

DeleteWithoutWait ==
  /\ pc = "delete"
  /\ \/ CanAnswer /\ AcceptsDelete(d.id) /\ Doom(d.id) /\ Goto("gone") /\ UNCHANGED d
     \/ MayFail /\ Fail /\ UNCHANGED <<peerings, lost>>

Delete ==
  /\ pc = "delete"
  /\ \/ /\ CanAnswer /\ AcceptsDelete(d.id)
        /\ Doom(d.id)
        /\ \/ StartWait("deleted", "gone") /\ UNCHANGED d
           \/ ~calm /\ Fail /\ UNCHANGED lost
     \/ (MayFail \/ ~AcceptsDelete(d.id)) /\ Fail /\ UNCHANGED <<peerings, lost>>

DeleteReturns ==
  /\ pc = "gone"
  /\ End("plan", NoState)
  /\ UNCHANGED <<peerings, lost, built>>

\* Delete looks at the status of the peering the wait returned before it looks at
\* the wait's error, and the wait returns no peering with an error: the process
\* panics, Terraform keeps the state.
WaitFails ==
  IF d.op = "delete" THEN Goto("panic") /\ UNCHANGED d ELSE Fail

Panic ==
  /\ pc = "panic"
  /\ End("idle", tf)
  /\ UNCHANGED <<peerings, lost, built>>

-----------------------------------------------------------------------------
(***************************************************************************)
(* PeeringWaitForState                                                     *)
(***************************************************************************)
Seen == peerings[d.id].status
GiveUp == Seen = "defunct" /\ wait.elapsed > Grace

MetadataNotAwaited == Seen = wait.state

\* The state is reached and, unless it is "deleted", the metadata of AWS or GCP has
\* arrived.
Reached ==
  /\ Seen = wait.state
  /\ \/ wait.state = "deleted"
     \/ peerings[d.id].attrs.meta
     \/ ProviderOf[peerings[d.id].attrs.place] = "azure"

ProviderIgnored ==
  /\ Goto(wait.then)
  /\ d' = IF d.op = "create" THEN [d EXCEPT !.new.meta = TRUE] ELSE d

\* Create fills in the metadata of the peering the wait returned before it reads.
WaitReturns ==
  /\ Goto(wait.then)
  /\ d' = IF d.op = "create" THEN [d EXCEPT !.new.meta = peerings[d.id].attrs.meta] ELSE d

WaitGet ==
  /\ pc = "get"
  /\ \/ CanAnswer /\ GiveUp /\ WaitFails
     \/ CanAnswer /\ ~GiveUp /\ Reached /\ WaitReturns
     \/ CanAnswer /\ ~GiveUp /\ ~Reached /\ Goto("sleep") /\ UNCHANGED d
     \/ MayFail /\ WaitFails
  /\ UNCHANGED <<peerings, lost>>

\* One unit is one poll, at least; beyond the grace time is not counted.
WaitSleep ==
  /\ pc = "sleep"
  /\ pc' = "get"
  /\ \E t \in 1 .. Grace + 1 :
       /\ t > wait.elapsed \/ t = Grace + 1
       /\ wait' = [wait EXCEPT !.elapsed = t]
  /\ UNCHANGED <<cfg, tf, peerings, d, expired, calm, lost, built>>

Expire ==
  /\ pc \in Handler /\ ~expired /\ ~calm
  /\ expired' = TRUE
  /\ UNCHANGED <<cfg, tf, peerings, pc, d, wait, calm, lost, built>>

Crash ==
  /\ pc \in Handler /\ ~calm
  /\ lost' = IF d.op = "create" /\ d.id # None THEN lost \union {d.id} ELSE lost
  /\ End("idle", tf)
  /\ UNCHANGED <<peerings, built>>

-----------------------------------------------------------------------------
(***************************************************************************)
(* The API and the customer (external).                                    *)
(***************************************************************************)
Only(id, peering) ==
  /\ peerings' = [peerings EXCEPT ![id] = peering]
  /\ UNCHANGED <<cfg, tf, pc, d, wait, expired, calm, lost, built>>

Initiate(id) ==
  /\ peerings[id].status = "provisioning"
  /\ Only(id, [peerings[id] EXCEPT !.status = "initiated"])

\* The metadata arrives, before or after the status.
Describe(id) ==
  /\ peerings[id].status \in {"provisioning", "initiated"} /\ ~peerings[id].attrs.meta
  /\ ProviderOf[peerings[id].attrs.place] # "azure"
  /\ Only(id, [peerings[id] EXCEPT !.attrs.meta = TRUE])

\* The customer accepts the peering when its metadata is known; once faults are
\* over, only with what the state shows of it.
Accept(id) ==
  /\ peerings[id].status = "initiated"
  /\ peerings[id].attrs.meta \/ ProviderOf[peerings[id].attrs.place] = "azure"
  /\ calm => tf.id = id
  /\ Only(id, [peerings[id] EXCEPT !.status = "active"])

Remove(id) ==
  /\ peerings[id].doomed
  /\ \/ /\ peerings[id].status = "defunct"
        /\ Only(id, [peerings[id] EXCEPT !.status = "deleting"])
     \/ /\ peerings[id].status = "deleting"
        /\ peerings' = [peerings EXCEPT ![id].status = "deleted"]
        /\ lost' = lost \ {id} /\ built' = [built EXCEPT ![id] = None]
        /\ UNCHANGED <<cfg, tf, pc, d, wait, expired, calm>>

Break(id) ==
  /\ ~calm
  /\ peerings[id].status \notin {"none", "deleted", "defunct"}
  /\ Only(id, [peerings[id] EXCEPT !.status = "defunct", !.doomed = FALSE])

\* At any point of an operation.
Calm ==
  /\ ~calm
  /\ calm' = TRUE
  /\ UNCHANGED <<cfg, tf, peerings, pc, d, wait, expired, lost, built>>

Step ==
  \/ Create \/ ReadCheckDefunct \/ Update \/ Reread \/ Delete \/ DeleteReturns \/ Panic
  \/ WaitGet \/ WaitSleep

Api(id) == Initiate(id) \/ Describe(id) \/ Remove(id)

Next ==
  \/ Edit \/ Refresh \/ Plan \/ Step \/ Expire \/ Crash \/ Calm
  \/ \E id \in Ids : Import(id) \/ Api(id) \/ Accept(id) \/ Break(id)

Spec == Init /\ [][Next]_vars

\* Requests and sleeps end, the user applies again and again, and once the faults are
\* over the API goes on.
LiveSpec ==
  /\ Spec
  /\ WF_vars(Step) /\ WF_vars(Refresh) /\ WF_vars(Plan)
  /\ \A id \in Ids :
       WF_vars(calm /\ Initiate(id)) /\ WF_vars(calm /\ Describe(id)) /\ WF_vars(calm /\ Remove(id))

-----------------------------------------------------------------------------
\* No peering is forgotten: one that is not deleted is in the state, in the hands
\* of the handler, or was cut off before its id was saved and not imported since.  A panic of a delete
\* (resource_peering.go:456-465) does not forget it either.
NothingForgotten ==
  \A id \in Ids :
    peerings[id].status \notin {"none", "deleted"} => id \in {tf.id, d.id} \union lost

\* After a create that succeeded the state has the metadata with which the customer
\* accepts the peering, whatever failed since (peering_waiter.go:49-64,
\* resource_peering.go:317-321).
MetadataKnown ==
  tf.id # None /\ built[tf.id] # None /\ ProviderOf[tf.attrs.place] # "azure" => tf.attrs.meta

\* A peering whose creation was reported as a success is about to be destroyed.
Destroyed(id) == built[id] # None /\ ~peerings[id].doomed /\ peerings'[id].doomed

\* The configuration names another provider than the network's, or spells it in capitals:
\* validation lets both pass and no read gives them back.
Misnamed == cfg # Absent /\ AsCreated[cfg.place] # cfg.place

\* A peering whose creation was reported as a success, which the customer may have
\* accepted since, is destroyed only when the user removed it, or names another place
\* than the one it was created from, or misnames its provider: no failure, no crash
\* and no value that the API gives back leads to its replacement
\* (resource_peering.go:289-321, 404-430).
OnlyUnwantedDestroyed ==
  [][\A id \in Ids :
       Destroyed(id) => cfg = Absent \/ cfg.place # built[id] \/ Misnamed]_vars

Settled ==
  IF cfg = Absent
  THEN tf.id = None
  ELSE /\ tf.id # None /\ ~tf.tainted /\ [place |-> tf.attrs.place, name |-> tf.attrs.name] = cfg
       /\ tf.attrs.name = peerings[tf.id].attrs.name
       /\ peerings[tf.id].status \in {"initiated", "active"}

\* Applying again does not help a provider that is misnamed, for which every apply
\* replaces the peering, a defunct peering that is to be kept, nor one that
\* cannot be read, even to destroy it, although CHANGELOG.md:142 says "It's now possible
\* to destroy defunct peering resources": a GCP peering that became defunct before
\* its metadata arrived; and a create that did not see "initiated" between two polls waits
\* for its deadline.
Wedged ==
  \/ Misnamed
  \/ /\ tf.id # None /\ peerings[tf.id].status = "defunct"
     /\ ~MustDelete \/ ~Readable(tf.id)
  \/ pc \in Waiting /\ wait.state = "initiated" /\ peerings[d.id].status = "active"

\* From any point at which faults and edits are over, an operation in progress included,
\* applying again and again brings the peering to the configuration for good, or to
\* one of the situations above.
Converges == calm ~> [](Settled \/ Wedged \/ (tf.id = None /\ FreshIds = {}))

-----------------------------------------------------------------------------
\* What the changelog says: "Resources will now fail when encountering defunct
\* state" (CHANGELOG.md:198), as opposed to a panic of the provider.
DefunctFails == pc # "panic"
=============================================================================
