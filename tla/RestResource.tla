---------------------------- MODULE RestResource ----------------------------
(***************************************************************************)
(* The resources without a waiter, which single requests create, change    *)
(* and delete: projects (esc/resource_project.go), access control lists    *)
(* (resource_acl.go), scheduled backups (resource_scheduled_backup.go),    *)
(* integrations (resource_integration.go) and the integrations with        *)
(* CloudWatch (resource_integration_awscloudwatch_{logs,metrics}.go, which *)
(* differ in the name of one attribute), with the importer (import.go) and *)
(* the API calls of client/{project,acl,job,integration}_*.go.  The        *)
(* resources under their deprecated names have the same handlers.          *)
(*                                                                         *)
(* Attributes are functions of the keys that are present.  "name" stands   *)
(* for the description of an integration too, "blocks" for the cidr_blocks *)
(* of a list, "spec" for the settings of a backup, "group_name" for the    *)
(* group or namespace, region and clusters of CloudWatch as well; the keys *)
(* of an integration's "data" are spelled differently by the API, which    *)
(* shows secrets only masked.  Terraform and the API are external.         *)
(* An id may be given again once its item is deleted: it stands for an id  *)
(* that nobody refers to any more.                                         *)
(*                                                                         *)
(* The definitions named Faulty... and RemovesNothing are faulty variants  *)
(* of the one that follows.                                                *)
(***************************************************************************)
EXTENDS Naturals

CONSTANTS
  Kinds,      \* the resources considered
  Configs,    \* the configurations the user may write, by kind
  Values,     \* values of attributes
  Empty,      \* the empty string and the empty list
  Foreign,    \* blocks with other keys than "address" and "comment"
  Blank,      \* as many blocks, both keys empty
  Bare,       \* blocks with an "address" and no "comment"
  Padded,     \* the same blocks, each with an empty comment
  Masked,     \* what the API shows of a secret
  Absent,     \* the configuration without the resource
  None,       \* no id, no attributes
  MaxItems    \* bound: how many items there are at a time

Ids == 1 .. MaxItems
AllKinds == {"project", "acl", "backup", "integration", "cloudwatch"}

\* The two spellings of the keys of "data", the Terraform one first.
Secrets == {"access_key_id", "api_key", "secret_access_key"}
Spellings ==
  [access_key_id |-> "accessKeyId", api_key |-> "apiKey",
   secret_access_key |-> "secretAccessKey",
   channel_id |-> "channelId", group_name |-> "groupName"]
Displays ==
  [accessKeyId |-> "accessKeyIdDisplay", apiKey |-> "apiKeyDisplay",
   secretAccessKey |-> "secretAccessKeyDisplay", token |-> "tokenDisplay"]

ImageOf(f) == {f[x] : x \in DOMAIN f}
ApiKeys == {"project_id", "name", "blocks", "spec", "token"} \union ImageOf(Spellings)
Keys == ApiKeys \union DOMAIN Spellings

IsAttrs(f, keys) ==
  /\ DOMAIN f \subseteq keys
  /\ f \in [DOMAIN f -> Values \union {Empty, Foreign, Blank, Bare, Padded}]

ASSUME KindAssumption == Kinds \subseteq AllKinds
ASSUME ConfigAssumption ==
  \A k \in Kinds : \A c \in Configs[k] : IsAttrs(c, Keys) /\ c \notin {Absent, None}
\* Only integrations have keys in two spellings.
ASSUME SchemaAssumption ==
  \A k \in Kinds \intersect {"project", "acl", "backup"} :
    \A c \in Configs[k] : DOMAIN c \subseteq ApiKeys
ASSUME NullAssumption == None \notin Nat /\ Absent # None
ASSUME BoundAssumption == MaxItems \in Nat

VARIABLES
  kind,     \* the resource considered; never changes
  cfg,      \* what the user wants: attributes, or Absent
  tf,       \* Terraform's saved state of the resource
  items,    \* the API's projects, lists, jobs or integrations
  pc,       \* where Terraform and the handler it runs are
  d,        \* the handler's ResourceData
  late,     \* the loop of Delete has run for more than 30 seconds
  expired,  \* the handler's context has passed its deadline
  calm,     \* from here on: no fault, no deadline, no edit
  lost,     \* history: items whose id never reached Terraform's state
  unsure    \* history: items with an update that was cut short

vars == <<kind, cfg, tf, items, pc, d, late, expired, calm, lost, unsure>>

Handler == {"create", "read", "update", "delete", "poll", "gone"}

NoState == [id |-> None, attrs |-> None, tainted |-> FALSE]
NoData == [op |-> "none", id |-> None, new |-> None]
NoItem == [status |-> "none", doomed |-> FALSE, attrs |-> None]
Gone == [status |-> "deleted", doomed |-> FALSE, attrs |-> None]

\* No masked secret gets into the state, and no key in Terraform's spelling to the API.
TypeOK ==
  /\ kind \in Kinds
  /\ cfg \in Configs[kind] \union {Absent}
  /\ DOMAIN tf = {"id", "attrs", "tainted"}
  /\ tf.id \in Ids \union {None} /\ tf.tainted \in BOOLEAN
  /\ tf.attrs = None \/ IsAttrs(tf.attrs, Keys)
  /\ DOMAIN items = Ids
  /\ \A id \in Ids :
       /\ DOMAIN items[id] = {"status", "doomed", "attrs"}
       /\ items[id].status \in {"none", "active", "deleted"}
       /\ items[id].doomed \in BOOLEAN
       /\ items[id].attrs = None \/ IsAttrs(items[id].attrs, ApiKeys)
  /\ pc \in {"idle", "plan"} \union Handler
  /\ DOMAIN d = {"op", "id", "new"}
  /\ d.op \in {"none", "create", "update", "delete"}
  /\ d.id \in Ids \union {None} /\ (d.new = None \/ IsAttrs(d.new, Keys))
  /\ late \in BOOLEAN /\ expired \in BOOLEAN /\ calm \in BOOLEAN
  /\ lost \subseteq Ids /\ unsure \subseteq Ids

Init ==
  /\ kind \in Kinds
  /\ cfg \in Configs[kind] \union {Absent}
  /\ tf = NoState /\ items = [i \in Ids |-> NoItem]
  /\ pc = "idle" /\ d = NoData
  /\ late = FALSE /\ expired = FALSE /\ calm = FALSE /\ lost = {} /\ unsure = {}

-----------------------------------------------------------------------------
(***************************************************************************)
(* Attributes.                                                             *)
(***************************************************************************)
Only(attrs, keys) == [k \in DOMAIN attrs \intersect keys |-> attrs[k]]
Without(attrs, keys) == [k \in DOMAIN attrs \ keys |-> attrs[k]]
Over(new, old) ==
  [k \in DOMAIN new \union DOMAIN old |-> IF k \in DOMAIN new THEN new[k] ELSE old[k]]

\* modifyMap: a renamed value replaces what is stored under the new name.
Renamed(attrs, names) ==
  LET from == DOMAIN names \intersect DOMAIN attrs
      to == {names[k] : k \in from}
      Old(k) == CHOOSE j \in from : names[j] = k
  IN  [k \in (DOMAIN attrs \ from) \union to |-> IF k \in to THEN attrs[Old(k)] ELSE attrs[k]]

\* translateTfDataToApi; the CloudWatch resources spell the keys in the same way.
ToApi(attrs) == Renamed(attrs, Spellings)

FaultyToTf(attrs) == Without(attrs, ImageOf(Displays))
RemovesNothing(attrs) == Renamed(attrs, [channelId |-> "channel_id", groupName |-> "group_name"])

\* translateApiDataToTf: secrets are neither renamed nor kept.
ToTf(attrs) ==
  Without(Renamed(attrs, [channelId |-> "channel_id", groupName |-> "group_name"]),
          ImageOf(Displays))

\* mapToCidrBlock reads two keys of a block, of which one that is missing is the empty
\* string, and ignores the others.
CidrBlocks(blocks) ==
  CASE blocks = Foreign -> Blank
    [] blocks = Bare -> Padded
    [] OTHER -> blocks

AclRequest(attrs) == [attrs EXCEPT !.blocks = CidrBlocks(@)]

\* The attributes in the form in which the API stores them.
Request(attrs) ==
  CASE kind \in {"integration", "cloudwatch"} -> ToApi(attrs)
    [] kind = "acl" -> AclRequest(attrs)
    [] OTHER -> attrs

\* What GET answers: secrets are masked and renamed.
Shown(attrs) ==
  LET masked == Renamed(attrs, Displays)
  IN  [k \in DOMAIN masked |-> IF k \in ImageOf(Displays) THEN Masked ELSE masked[k]]

\* An integration loses its secrets when it is read, a CloudWatch resource keeps those that
\* ResourceData held.  An answer without one of its own keys is an error, as a request that
\* fails is.
CloudWatchView(attrs, kept) == Over(Only(kept, Secrets), ToTf(Shown(attrs)))

\* What Read leaves in ResourceData, which held "kept".  The blocks of a list have both
\* keys, as they were sent (translateCidrBlocksToTf).
View(attrs, kept) ==
  CASE kind = "integration" -> ToTf(Shown(attrs))
    [] kind = "cloudwatch" -> CloudWatchView(attrs, kept)
    [] OTHER -> attrs

\* Absent from a request: a value dropped by "omitempty" or by the handler.
NonEmpty(attrs) == [k \in {k \in DOMAIN attrs : attrs[k] # Empty} |-> attrs[k]]
Changed(old, new) ==
  [k \in {k \in DOMAIN new : k \notin DOMAIN old \/ old[k] # new[k]} |-> new[k]]

\* The body of PUT.  The list is sent without what is empty;
AclBody(new) == NonEmpty(AclRequest(Only(new, {"name", "blocks"})))

\* "data" as a whole, and only when it changed;
IntegrationBody(old, new) ==
  LET Data(attrs) == Without(attrs, {"project_id", "name"})
  IN  Over(NonEmpty(Only(new, {"name"})), IF Data(old) = Data(new) THEN <<>> ELSE ToApi(Data(new)))

FaultyBody(old, new) == ToApi(NonEmpty(Without(new, Secrets)))

\* keys of CloudWatch only when they changed, all else always.
CloudWatchBody(old, new) ==
  Over(NonEmpty(Only(new, {"name"})),
       ToApi(Over(Only(new, {"group_name"}),
                  NonEmpty(Changed(Only(old, Secrets), Only(new, Secrets))))))

Sent(old, new) ==
  CASE kind = "project" -> Only(new, {"name"})
    [] kind = "acl" -> AclBody(new)
    [] kind = "integration" -> IntegrationBody(old, new)
    [] kind = "cloudwatch" -> CloudWatchBody(old, new)
    [] OTHER -> <<>>

-----------------------------------------------------------------------------
\* Terraform keeps what the handler leaves in ResourceData: a create with an id is
\* saved as tainted, an update with the values it was asked for.
StateAfterError ==
  CASE d.op = "create" /\ d.id = None -> NoState
    [] d.op = "create" /\ d.id # None -> [id |-> d.id, attrs |-> d.new, tainted |-> TRUE]
    [] d.op = "update" -> [id |-> d.id, attrs |-> d.new, tainted |-> FALSE]
    [] OTHER -> tf

End(where, state) ==
  /\ tf' = state
  /\ pc' = where /\ d' = NoData /\ late' = FALSE /\ expired' = FALSE
  /\ UNCHANGED <<kind, cfg, calm>>

Fail == End("idle", StateAfterError)

CanAnswer == ~expired
MayFail == expired \/ ~calm

Goto(where) ==
  /\ pc' = where
  /\ UNCHANGED <<kind, cfg, tf, late, expired, calm, lost, unsure>>

-----------------------------------------------------------------------------
Edit ==
  /\ pc = "idle" /\ ~calm
  /\ cfg' \in (Configs[kind] \union {Absent}) \ {cfg}
  /\ UNCHANGED <<kind, tf, items, pc, d, late, expired, calm, lost, unsure>>

\* The Read of every resource but the project looks at the status.
StateRead(id, kept, tainted) ==
  IF items[id].status = "deleted"
  THEN NoState
  ELSE [id |-> id, attrs |-> View(items[id].attrs, kept), tainted |-> tainted]

\* A project that is gone is an error of GET, of which Read says only "try again later".
Readable(id) == ~(kind = "project" /\ items[id].status = "deleted")

\* An apply, a destroy included, begins with a refresh and ends there when the
\* read returns an error.
Refresh ==
  /\ pc = "idle"
  /\ IF tf.id # None /\ ~Readable(tf.id)
     THEN UNCHANGED <<tf, pc>>
     ELSE /\ tf' = IF tf.id = None THEN tf ELSE StateRead(tf.id, tf.attrs, tf.tainted)
          /\ pc' = "plan"
  /\ UNCHANGED <<kind, cfg, items, d, late, expired, calm, lost, unsure>>

\* terraform import: an existing item is taken into the state as Read finds it.
Import(id) ==
  /\ pc = "idle" /\ ~calm
  /\ tf.id = None /\ cfg # Absent
  /\ items[id].status = "active"
  /\ tf' = StateRead(id, <<>>, FALSE)
  /\ lost' = lost \ {id}
  /\ UNCHANGED <<kind, cfg, items, pc, d, late, expired, calm, unsure>>

FreshIds == {i \in Ids : items[i].status \in {"none", "deleted"}}

\* Every attribute of a backup is ForceNew, of the others the project alone.
Replaces(old, new) ==
  IF kind = "backup" THEN old # new ELSE Only(old, {"project_id"}) # Only(new, {"project_id"})

MustDelete ==
  /\ tf.id # None
  /\ cfg = Absent \/ tf.tainted \/ (cfg # Absent /\ Replaces(tf.attrs, cfg))

Plan ==
  /\ pc = "plan"
  /\ \/ /\ tf.id = None /\ cfg # Absent /\ FreshIds # {}
        /\ d' = [op |-> "create", id |-> None, new |-> cfg]
        /\ pc' = "create"
     \/ /\ MustDelete
        /\ d' = [op |-> "delete", id |-> tf.id, new |-> None]
        /\ pc' = "delete"
     \/ /\ tf.id # None /\ ~MustDelete /\ cfg # tf.attrs
        /\ d' = [op |-> "update", id |-> tf.id, new |-> cfg]
        /\ pc' = "update"
     \/ /\ IF tf.id = None THEN cfg = Absent \/ FreshIds = {} ELSE cfg = tf.attrs /\ ~MustDelete
        /\ d' = NoData /\ pc' = "idle"
  /\ UNCHANGED <<kind, cfg, tf, items, late, expired, calm, lost, unsure>>

-----------------------------------------------------------------------------
\* The keys of CloudWatch are optional in the schema and required by Create.
Refused(attrs) ==
  kind = "cloudwatch" /\ ~ {"access_key_id", "secret_access_key"} \subseteq DOMAIN NonEmpty(attrs)

\* POST
Provision(id) ==
  items' = [items EXCEPT ![id] = [status |-> "active", doomed |-> FALSE, attrs |-> Request(d.new)]]

FaultyCreate ==
  /\ pc = "create"
  /\ \/ /\ ~Refused(d.new) /\ CanAnswer
        /\ \E id \in FreshIds : Provision(id) /\ Goto("read") /\ UNCHANGED d
     \/ (Refused(d.new) \/ MayFail) /\ Fail /\ UNCHANGED <<items, lost, unsure>>

Create ==
  /\ pc = "create"
  /\ \/ /\ ~Refused(d.new) /\ CanAnswer
        /\ \E id \in FreshIds :
             /\ Provision(id)
             /\ unsure' = unsure \ {id}
             /\ \/ /\ d' = [d EXCEPT !.id = id]
                   /\ pc' = "read" /\ lost' = lost \ {id}
                   /\ UNCHANGED <<kind, cfg, tf, late, expired, calm>>
                \/ ~calm /\ Fail /\ lost' = lost \union {id}
     \/ (Refused(d.new) \/ MayFail) /\ Fail /\ UNCHANGED <<items, lost, unsure>>

\* The Read at the end of Create and Update.
Read ==
  /\ pc = "read"
  /\ \/ CanAnswer /\ Readable(d.id) /\ End("idle", StateRead(d.id, d.new, FALSE))
     \/ (MayFail \/ ~Readable(d.id)) /\ Fail
  /\ UNCHANGED <<items, lost, unsure>>

\* PUT; what the body does not name stays.
Put(id) == items' = [items EXCEPT ![id].attrs = Over(Sent(tf.attrs, d.new), @)]

\* An item that is gone or on its way is not changed any more.
AcceptsUpdate(id) == items[id].status = "active" /\ ~items[id].doomed

Update ==
  /\ pc = "update"
  /\ UNCHANGED lost
  /\ \/ /\ CanAnswer /\ AcceptsUpdate(d.id)
        /\ Put(d.id)
        /\ \/ Goto("read") /\ UNCHANGED d
           \/ ~calm /\ Fail /\ UNCHANGED unsure
     \/ (MayFail \/ ~AcceptsUpdate(d.id)) /\ Fail /\ unsure' = unsure \union {d.id} /\ UNCHANGED items

\* The resources whose Delete waits.
Polled == kind \in {"backup", "integration", "cloudwatch"}

\* DELETE.  A project and a list are gone with the answer: their Delete does not wait, which
\* is taken to be right.
Doom(id) ==
  items' = [items EXCEPT ![id] = IF Polled THEN [@ EXCEPT !.doomed = TRUE] ELSE Gone]

FaultyDelete ==
  /\ pc = "delete"
  /\ UNCHANGED <<lost, unsure>>
  /\ \/ CanAnswer /\ Doom(d.id) /\ Goto("gone") /\ UNCHANGED d
     \/ MayFail /\ Fail /\ UNCHANGED items

\* A second request to delete is accepted or not.
Delete ==
  /\ pc = "delete"
  /\ UNCHANGED <<lost, unsure>>
  /\ \/ /\ CanAnswer /\ items[d.id].status = "active"
        /\ Doom(d.id)
        /\ \/ Goto(IF Polled THEN "poll" ELSE "gone") /\ UNCHANGED d
           \/ ~calm /\ Fail
     \/ (MayFail \/ items[d.id].status = "deleted" \/ items[d.id].doomed) /\ Fail /\ UNCHANGED items

FaultyPoll ==
  /\ pc = "poll"
  /\ UNCHANGED <<items, lost, unsure>>
  /\ \/ CanAnswer /\ items[d.id].status = "deleted" /\ Goto("gone") /\ UNCHANGED d
     \/ CanAnswer /\ items[d.id].status # "deleted" /\ Goto("poll") /\ UNCHANGED d
     \/ MayFail /\ Fail

\* The loop of Delete: GET, then the clock, then the status.  A round that finds nothing
\* to report changes nothing.
Poll ==
  /\ pc = "poll"
  /\ UNCHANGED <<items, lost, unsure>>
  /\ \/ CanAnswer /\ ~late /\ items[d.id].status = "deleted" /\ Goto("gone") /\ UNCHANGED d
     \/ (MayFail \/ late) /\ Fail

\* 30 seconds have passed.
Late ==
  /\ pc = "poll" /\ ~late
  /\ late' = TRUE
  /\ UNCHANGED <<kind, cfg, tf, items, pc, d, expired, calm, lost, unsure>>

DeleteReturns ==
  /\ pc = "gone"
  /\ End("plan", NoState)
  /\ UNCHANGED <<items, lost, unsure>>

Expire ==
  /\ pc \in Handler /\ ~expired /\ ~calm
  /\ expired' = TRUE
  /\ UNCHANGED <<kind, cfg, tf, items, pc, d, late, calm, lost, unsure>>

Crash ==
  /\ pc \in Handler /\ ~calm
  /\ lost' = IF d.op = "create" /\ d.id # None THEN lost \union {d.id} ELSE lost
  /\ unsure' = IF d.op = "update" THEN unsure \union {d.id} ELSE unsure
  /\ End("idle", tf)
  /\ UNCHANGED items

-----------------------------------------------------------------------------
(***************************************************************************)
(* The API (external).                                                     *)
(***************************************************************************)
Become(id, item) ==
  /\ items' = [items EXCEPT ![id] = item]
  /\ UNCHANGED <<kind, cfg, tf, pc, d, late, expired, calm, lost, unsure>>

Remove(id) ==
  /\ items[id].doomed /\ items[id].status = "active"
  /\ Become(id, Gone)

\* The deletion is given up.
Spare(id) ==
  /\ ~calm /\ items[id].doomed /\ items[id].status = "active"
  /\ Become(id, [items[id] EXCEPT !.doomed = FALSE])

\* Someone else deletes the item.
Vanish(id) ==
  /\ ~calm /\ items[id].status = "active"
  /\ Become(id, Gone)

\* At any point of an operation.
Calm ==
  /\ ~calm
  /\ calm' = TRUE
  /\ UNCHANGED <<kind, cfg, tf, items, pc, d, late, expired, lost, unsure>>

Step == Create \/ Read \/ Update \/ Delete \/ Poll \/ DeleteReturns

Next ==
  \/ Edit \/ Refresh \/ Plan \/ Step \/ Late \/ Expire \/ Crash \/ Calm
  \/ \E id \in Ids : Import(id) \/ Remove(id) \/ Spare(id) \/ Vanish(id)

Spec == Init /\ [][Next]_vars

\* Requests end, time passes, the user applies again and again, and once the faults are
\* over the API goes on.
LiveSpec ==
  /\ Spec
  /\ WF_vars(Step) /\ WF_vars(Late) /\ WF_vars(Refresh) /\ WF_vars(Plan)
  /\ \A id \in Ids : WF_vars(calm /\ Remove(id))

-----------------------------------------------------------------------------
\* No item is forgotten: one that is not deleted is in the state, in the hands of the
\* handler, or was cut off before its id was saved and not imported since
\* (resource_scheduled_backup.go:140-146, 191-228; import.go:27-42).
NothingForgotten ==
  \A id \in Ids : items[id].status = "active" => id \in {tf.id, d.id} \union lost

\* Written with the keys the code reads, all of them, and in Terraform's spelling.
Canonical(attrs) ==
  /\ DOMAIN attrs \intersect ImageOf(Spellings) = {}
  /\ \A k \in DOMAIN attrs : attrs[k] \notin {Foreign, Bare}

AsWanted ==
  /\ tf.id # None /\ cfg # Absent /\ Canonical(cfg)
  /\ items[tf.id].status = "active" /\ items[tf.id].attrs = Request(cfg)

\* An item that is as the user wants it is read back as the user wrote it, but for the
\* secrets: what is sent to the API and what is read from it are translated in
\* opposite directions (resource_integration.go:92-142, resource_acl.go:90-117).
ReadsBack ==
  pc = "plan" /\ AsWanted
    => Without(tf.attrs, Secrets \union {"token"}) = Without(cfg, Secrets \union {"token"})

\* The keys of CloudWatch that the state has are those in force, unless an update was
\* cut short: Read does not see them and Update sends them only when they differ from
\* the state (resource_integration_awscloudwatch_logs.go:321-332).
SecretInForce ==
  kind = "cloudwatch" /\ pc \in {"idle", "plan"} /\ tf.id # None /\ tf.id \notin unsure
       /\ items[tf.id].status = "active"
    => \A k \in DOMAIN NonEmpty(Only(tf.attrs, Secrets)) :
         items[tf.id].attrs[Spellings[k]] = tf.attrs[k]

\* An attribute that no request changes to what the user wants: an emptied one that a request
\* leaves out, blocks with other keys, and a secret saved by an update that failed.
Stuck(k) ==
  \/ cfg[k] = Foreign
  \/ cfg[k] = Empty /\ (kind = "acl" \/ k \in Secrets \union {"name"}) /\ kind # "project"
  \/ /\ kind = "cloudwatch" /\ k \in Secrets /\ tf.id \in unsure
     /\ k \in DOMAIN tf.attrs /\ tf.attrs[k] = cfg[k]

\* A block without a comment is in force as one with an empty comment, although every
\* plan finds the two different and updates the list again.
InForce(k) ==
  LET stored == items[tf.id].attrs
      key == IF k \in DOMAIN Spellings THEN Spellings[k] ELSE k
  IN  key \in DOMAIN stored /\ stored[key] = IF cfg[k] = Bare THEN Padded ELSE cfg[k]

Settled ==
  IF cfg = Absent
  THEN tf.id = None
  ELSE /\ tf.id # None /\ ~tf.tainted
       /\ items[tf.id].status = "active" /\ ~items[tf.id].doomed
       /\ \A k \in DOMAIN cfg : InForce(k) \/ Stuck(k)

\* What applying again does not help: a project that is gone and still in the state, which no
\* refresh gets past (resource_project.go:95-98), and a configuration that Create refuses.
Wedged ==
  \/ tf.id # None /\ ~Readable(tf.id)
  \/ tf.id = None /\ cfg # Absent /\ (Refused(cfg) \/ FreshIds = {})

\* From any point at which faults and edits are over, an operation in progress included,
\* applying again and again brings every attribute but the stuck ones to the configuration
\* for good, or to one of the situations above.  A delete whose deletion the API gave up
\* does not loop for ever, although a calm system has no deadline
\* (resource_scheduled_backup.go:205-227).
Converges == calm ~> [](Settled \/ Wedged)

-----------------------------------------------------------------------------
(***************************************************************************)
(* The loop of Delete, as its handler sees it.                             *)
(***************************************************************************)
LoopPhase ==
  IF pc = "poll" THEN "waiting" ELSE IF pc = "gone" /\ Polled THEN "reached" ELSE "idle"

LoopGoal == IF LoopPhase = "idle" THEN "none" ELSE "deleted"

Loops == INSTANCE Polling WITH
  NoGoal <- "none", Failures <- {},
  phase <- LoopPhase,
  want <- LoopGoal,
  shown <- IF d.id = None THEN "none" ELSE items[d.id].status,
  trouble <- late \/ expired \/ ~calm

\* The loop succeeds only when the deletion is shown, and is given up only on an error or
\* after its 30 seconds (resource_integration.go:218-240).
Polls == Loops!Spec
=============================================================================
