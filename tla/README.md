# A specification of the Kurrent Cloud Terraform provider

This directory models `terraform-provider-kurrentcloud`: the HTTP client in
`client/` and the Terraform resources in `esc/`. TLC checks the models on small
instances; TLAPS proves, for every value of the constants, each of the safety
properties that TLC checks to hold.

## The system

The provider is a plugin process that Terraform starts for a refresh, a plan or an
apply. It holds no state of its own except an access token. What persists is
Terraform's state file, one entry for each resource, and what exists at the Kurrent
Cloud API. Every hard question about the provider is about these two drifting apart:
the API works asynchronously, an operation takes up to 20 minutes, and anything may
fail in between.

| Component | State | Operations | What makes it correct |
|---|---|---|---|
| **Managed cluster** `esc/resource_managed_cluster.go`, `client/cluster_*.go` | the resource's entry in the state; the cluster at the API | Create, Read, Update (meta data, resize, upgrade, expand disk, each with a wait), Delete, `ManagedClusterWaitForState` | no cluster is forgotten; commands do not overlap; success means done; disks never shrink; no healthy cluster is destroyed unasked (but for topologies and list ids with capitals: a finding); operations end; applying again converges |
| **Service Account token** `client/access_token.go`, `client/client.go` | `saToken` under `saTokenMu` | `serviceAccountToken(force)`, called by every request of every goroutine | one-at-a-time minting; nothing stale; forced means new; no call hangs |
| **Legacy token and token store** `client/access_token.go`, `client/token_store.go` | one file for each audience, shared by processes and by the `esc` CLI | `exists`, `get`, `put`, refresh | nothing invalid handed out; the newest token stays; an invalid file is replaced |
| **Peering** `esc/resource_peering.go`, `client/peering_*.go` | as the cluster, and the metadata of the remote end | Create, Read with or without the defunct check, Update, Delete, `PeeringWaitForState` | none forgotten; metadata known after a create; no healthy one is destroyed unasked (but for a misnamed provider) |
| **Network** `esc/resource_network.go`, `client/network_*.go` | as the cluster | Create (with a validation), Read, Update, Delete, `NetworkWaitForState` | none forgotten; a public network is not replaced for its assigned address space; applying converges |
| **Replica set** `esc/resource_managed_cluster_replicaset.go`, `client/replicaset_*.go` | as the cluster, under the id of the cluster | Create, Read, Update, Delete, Import, `ReplicaSetWaitForState` with terminal failures | none forgotten; success means done; every failure of the API ends a wait, and nothing else does |
| **Project** `esc/resource_project.go`, `client/project_*.go` | entry and project | Create, Read, Update, Delete, each one request | none forgotten; applying converges |
| **Access control list** `esc/resource_acl.go`, `client/acl_*.go` | entry and list | Create, Read, Update, Delete, each one request | the list in force is the configured one |
| **Scheduled backup** `esc/resource_scheduled_backup.go`, `client/job_*.go` | entry and job | Create, Read, Delete with a poll of 30 seconds | a deletion is reported as it went; none forgotten |
| **Integrations** `esc/resource_integration*.go`, `client/integration_*.go` | entry and integration; secrets the API does not return | Create, Read, Update, Delete with a poll of 30 seconds | the keys in the state are those in force; what is written is read back |
| **Import** `esc/import.go` | none | an id becomes an entry in the state | what was lost is found again |
| **Data sources** `esc/data_source_*.go` | none | look-ups by name | exactly one match |
| **Provider configuration, validation, state upgrade, errors, telemetry** | none | pure functions and start-up | |

How they interact:

- Terraform calls one handler per resource at a time, different resources in
  parallel goroutines of one process. Resources meet only at the API (a cluster lives
  in a network) and in the token cache. Dependencies are Terraform's: it destroys a
  cluster before its network, and waits for the former's Delete to return. So a Delete
  that returned early would break more than its own resource.
- Each request of a handler first asks for a token (`addAuthorizationHeader`). The
  Service Account cache is shared by all goroutines of the process, the token file by
  all processes of the machine.
- Handlers poll the API in the waiters; nothing calls back.

The hard behaviours: failures, deadlines and crashes between two requests of one
operation; what Terraform saves when a handler fails (a create that has an id is
saved as *tainted*, a failed update is saved with the values it was *asked* for);
statuses that come and go between polls; statuses that linger (`defunct`);
interleavings at the token cache and at the token file. `PROJECT.json` lists each
hazard at its line with the properties that watch it.

## The modules

| Module | Models |
|---|---|
| `ManagedCluster`, `MCManagedCluster` | the managed cluster, its waiter, Terraform around it, the API below it |
| `ManagedClusterProofs` | theorems about `ManagedCluster`: types, no cluster forgotten, no overlap, the waits |
| `ManagedClusterEffectProofs` | more theorems about it: what is destroyed, what a success means, what a disk command asks for |
| `TokenSource` | abstract: a token cache that answers a call in one step |
| `ServiceAccountToken`, `MCServiceAccountToken` | the cache under its mutex, step by step; implements `TokenSource` |
| `ServiceAccountTokenProofs` | theorems about `ServiceAccountToken`, the refinement included |
| `TokenStore`, `MCTokenStore` | the legacy flow with the token file |
| `TokenStoreProofs` | theorems about `TokenStore` |
| `Peering`, `MCPeering` | the peering, its waiter, the customer who accepts it |
| `PeeringProofs` | theorems about `Peering` |
| `Network`, `MCNetwork` | the network and its waiter |
| `NetworkProofs` | theorems about `Network` |
| `ReplicaSet`, `MCReplicaSet` | the replica set and its waiter |
| `ReplicaSetProofs` | theorems about `ReplicaSet` |
| `RestResource`, `MCRestResource` | the resources without a waiter: projects, access control lists, scheduled backups, the integrations |
| `RestResourceProofs` | theorems about `RestResource` |
| `Polling` | abstract: what a wait promises; implemented by the waits of `ManagedCluster`, `Peering`, `Network` and `ReplicaSet` and the loops of `RestResource` |

### The resources

They have the same frame, since Terraform is the same for all:

- `cfg` is what the user wants, `tf` the entry in Terraform's state (`id`, `attrs`,
  `tainted`), `clusters` (`peerings`, `networks`, `sets`) what exists at the API.
- `pc` says where Terraform and the handler are: `idle`, `plan`, a place in a handler
  (named for the handler or, in the cluster's Update, for the phase), or `get` and
  `sleep` in the waiter. `d` is the handler's `ResourceData`, `wait` the waiter's request
  and the time it has waited.
- One action per step of a handler between two requests: `Create` is the POST and what
  follows up to the wait, `Read` the final read, `Delete` the DELETE, `WaitGet` a poll and the
  decision on its answer, `WaitSleep` a pause. Each request has three outcomes: the answer; a
  failure with no effect; an effect whose answer is lost. `Fail` is the return of an error
  and saves what Terraform saves (`StateAfterError`).
- `Expire` is the deadline of the operation's context: every later request fails.
  `Crash` kills the process at any step: the entry stays as it was before the operation.
- `Import` is `terraform import`: an existing object, one that was lost included, enters the state
  as the next read finds it.
- `Refresh`, `Plan`, `Edit` are Terraform and the user; `Finish`, `Break`, ... the API.
  They are external: modelled from how the handlers use them. The API accepts a command
  only in a status in which it can work on it, and shows the work at once, except that
  a `defunct` resource under deletion keeps its status for a while, as the waiters' comments
  say.
- `lost` and `built` are history: creations whose id never reached the state (a crash
  or a lost answer in the create; no handler can help that), and creations that were reported as
  a success, in `ManagedCluster` and `Peering` with the place that was configured then.
- Ids are used again: the id of an object that is gone stands for that of a new one, since nothing
  refers to the old one any more when a create is planned. So a resource may be replaced any
  number of times, and one that is replaced for ever is a behaviour of the model (which `Converges`
  rejects), not one that runs out of ids.
- `calm` becomes true, once, at any point of any operation, if it ever does (`Calm`): from there on
  no faults, no edits. `Converges` is about what follows. `Calm` is a step of `Next` and no
  fairness asks for it, so `Spec` has the behaviours that never become calm too. `LiveSpec` is `Spec`
  with fairness; what is proved of `Spec` holds of it.

Where they differ:

- `ManagedCluster`: Update is four phases (`UpdateMeta`, `Resize`, `Upgrade`, `ExpandDisk`), each
  skipped when nothing it acts on changed, else a command and a wait for
  `available`. Attributes are records: the values the properties tell apart. `place` stands for the
  attributes that force a replacement. Create sends topology and list id in lower case, whatever the
  user wrote (`LowerCase`, `Requested`), and Read stores what the API has. The other
  attributes that are sent in lower case have a StateFunc that makes the plan compare them so.
- `Peering`: `peer_resource_provider` forces a replacement, yet is not in the create request: the
  API has the provider from the network (`AsCreated`, `Provisioned`), and Read stores that. The
  wait also waits for the metadata, for AWS and GCP; a GCP peering without metadata cannot be read; the failed wait of a delete panics
  (`WaitFails`, `Panic`).
- `Network`: Create refuses two combinations of `public_access` and `cidr_block`; Read blanks the
  address space of a public network; Update sends no body and ends in a read of a *project*
  with the network's id.
- `ReplicaSet`: keyed by the cluster's id, so a second create is refused; the waiter knows
  the API's failures, and notices the deadline in its sleep. `TerminalFailures` is the list of the code,
  as it is written there; what the API shows of failed work (`Failed`, `Broken`,
  together `FailureStates`) is a definition of its own, so that a status missing from the list, or one too many in it,
  would show. `Lingering` names the statuses the API may still show after it accepted the next command.
- `RestResource`: one module for five kinds of resource, since their handlers differ in what they
  send and in what they read, not in their steps; `kind` is chosen once and for all. Attributes
  are functions of the keys that are present, so that keys can be renamed (`Renamed` is
  `modifyMap`), masked (`Shown`: the API never returns a secret) and left out of a request
  (`AclBody`, `IntegrationBody`, `CloudWatchBody`); `Over` is a map written over another. The loop of Delete is `Poll` with its 30
  seconds, `Late`; the API may give a deletion up (`Spare`), and someone else may delete
  (`Vanish`). A block of a list without a comment (`Bare`) is sent and read back with an
  empty one (`Padded`); one with other keys (`Foreign`) is sent empty (`Blank`).

`Polling` is the abstract wait: it is begun with a goal, succeeds only when the goal is the status
shown, and is given up only on a failure or in trouble (a request may fail or the
time may be over). `Polls` states that the waits of `ManagedCluster` and `ReplicaSet` and the loops of
`RestResource` implement it, under a mapping that takes `pc` to the phase of the wait. For
`Peering` and `Network` the mapping is in the proof modules, where the theorem is (`Waits!Spec`).

A definition that no action uses, named in the header of its module, is a faulty
variant of the one it precedes, for checking that the properties can fail.

### The tokens

`ServiceAccountToken` has one `pc` per caller: `Call` (a request needs a token), `Lock` (`saTokenMu`),
`Hit` or `Miss` (the test at line 97), `Issue` (the identity provider mints or not),
`Receive` or `Fail`, which return and unlock. Time is a clock `now`; a token is its
serial number and its expiry, usable until `Skew` after it. `TokenSource` serves a call
by the cached token or by a fresh one in one step; `Atomic` says that the former
implements it, by the mapping that takes each action's return to the serving step.

`TokenStore` has the file as `Missing`, `Empty` (truncated by `os.WriteFile`), `Garbled` or
a token. `Stat`, `Get`, `Ask`, `Issue`, `Open`, `Write` are the steps at which processes
interleave; `Crash` may cut a writer off.

## What the runs check

Deadlock is checked in every run.

| Run | Specification and bounds | Shows |
|---|---|---|
| `cluster_lifecycle` | `LiveSpec`; 2 cluster ids, 4 configurations (base, the same with capitals, another place, another instance) | `TypeOK`, `NothingForgotten`, `OnlyUnwantedDestroyed`, `Converges` with replacements |
| `cluster_update` | `LiveSpec`; 1 id, 5 configurations that need no, one or several commands | `StepsDoNotOverlap`, `SuccessMeansDone`, `NoBlindShrink`, `OperationEnds`, `Converges`, `Polls` |
| `cluster_spelling` | violation; 1 id, 2 spellings of one configuration | `CreatedIsKept` fails: a finding |
| `sa_token` | `FairSpec`; 2 callers, 3 tokens, 3 instants | safety of the cache, `Atomic`, `EveryCallAnswered` |
| `token_store_safety` | 2 processes, 2 tokens, 3 instants | `StoreKeepsNewest`, `NothingInvalid` |
| `token_store_torn` | violation | `InvalidIsRefreshed` fails: a finding |
| `peering` | `LiveSpec`; 2 ids, 3 providers, 5 configurations (one with a misnamed provider) | `NothingForgotten`, `MetadataKnown`, `OnlyUnwantedDestroyed`, `Converges` with replacements |
| `peering_panic` | violation | `DefunctFails` fails: a finding |
| `network` | `LiveSpec`; 2 ids, 6 configurations | `NothingForgotten`, `OnlyUnwantedDestroyed`, `Converges` |
| `network_rename` | violation | `NameChanges` fails: a finding |
| `replicaset` | `LiveSpec`; 2 clusters, 2 counts, protected or not; `defunct` and `install failed` may linger | `NothingForgotten`, `SuccessMeansDone`, `Converges`, `Polls` |
| `rest` | `LiveSpec`; 2 ids; for each of the five kinds 2 to 5 configurations | `NothingForgotten`, `ReadsBack`, `SecretInForce`, `Converges`, `Polls` |

Each module has one run that checks its type invariant too. Beyond shapes it says what the conversions
between configuration, API and state must not let through: that the API has only lower-case places
and only the network's provider, that a public network has an address space which the state does not have,
that no masked secret is saved and no key is sent in Terraform's spelling.

### Bounds, and why they are enough

- *Ids* (`MaxClusters`, `MaxPeerings`, `MaxNetworks`, `MaxItems`): how many objects there are at a time; the
  handlers know one, so two suffice for a resource and one that was lost. An id is used again
  when its object is gone. A create is planned only while an id is left, so when all are held by lost
  objects creates stop, and `Converges` names that case (the bound's, not the code's).
- *Configurations*: any number of edits among them. They contain, for each branch of
  the handlers, a pair whose difference takes it. Those of `rest` edit and empty every sort of attribute, and have
  blocks with the keys of the example in `docs/resources/acl.md`, blocks without a comment and a key in the API's spelling.
  Those of `cluster_lifecycle` and `peering` have a place in another spelling than the API's.
- *Grace*: the 30 seconds of the waiters as a number of polls. 0 and more differ only in how often
  the waiter tolerates `defunct`; after it time is not counted. `WaitSleep` lets several units pass
  at once, since a poll may be slow.
- *Clock and tokens* (`MaxTime`, `MaxMints`, `Skew`): a token of any expiry can be minted, be usable,
  within the skew, and expired; three tokens let two callers disagree on the newest.

### Fairness, and why the code justifies it

- `WF(Step)` in the resources: a handler's request ends, by its answer or by its context,
  and a sleep ends. This assumes that a request for a *token* ends: it has neither
  context nor timeout (`access_token.go:113, 165`).
- `WF(Expire)`, in `ManagedCluster` only: the deadline of an operation passes. `OperationEnds` needs
  it; `Converges` does not, as a calm system has no deadlines: a wait for a
  failed or defunct resource has to end by itself.
- `WF(Late)` in `RestResource`: the 30 seconds of a delete loop pass.
- `WF(Refresh)`, `WF(Plan)`: the user applies again and again. `Converges` is about that.
- `WF(calm /\ ...)` on the API's actions: once the system is calm the API finishes what it
  began. Before, it may stop for ever.
- `WF` on the steps of a token call, and `SF(Lock)`: a waiter for a `sync.Mutex` is served in
  the end, since Go's mutex goes into starvation mode after a millisecond.

### Wedges

`Converges` says `calm ~> [](Settled \/ Wedged)`: applying again ends, for good, in agreement of
configuration, state and API, or in a situation the formula names. The names are results:

- cluster: a topology or a list id with capitals, for which every apply replaces the cluster; defunct
  and to be kept; protected and to be destroyed (a failed create of a protected cluster is tainted, so it is one); a disk that is to shrink; a version
  without a tag (the plan shows a change that no command makes); a tag of another version.
- peering: a provider other than the network's, or in other letters, for which every apply replaces the
  peering; defunct and to be kept; a GCP peering that became defunct before its metadata arrived, which no refresh can read, so that it cannot be destroyed either, although
  `CHANGELOG.md:142` says "It's now possible to destroy defunct peering
  resources"; a create that missed `initiated` between two polls waits for its deadline.
- network: defunct and to be kept; another name than the configured one; a configuration
  that Create refuses, after Delete has removed the network it was to replace.
- replica set: protected and to be destroyed; failed in a way that no change repairs; a
  failed change that needs no change any more; one that exists without Terraform's
  knowing, since a cluster has at most one, unless it is imported.
- the other resources: a project that is gone and still in the state (deleted by someone else, or by a
  request whose answer was lost), which no refresh gets past; a CloudWatch integration
  whose keys, optional in the schema, are missing: Create refuses it, after Delete has
  removed what it was to replace.
- attributes of theirs that no apply brings into force (`Stuck`): an emptied list of blocks,
  description or key, which the request leaves out; blocks with other keys than `address` and
  `comment`, which are sent empty; and a key of CloudWatch saved by an update that failed, since
  the next plan sees no difference. Generic integrations settle too, but never become quiet:
  Read drops their secrets, so every plan shows them as new and every apply sends them. Neither do
  access control lists with a block without a comment: it is in force with an empty one, which every
  plan finds different.

### Findings

1. A topology that is written with capitals is valid, and yet its cluster is destroyed and created
   anew at every apply (`cluster_spelling`): Create sends it in lower case, Read stores what the
   API has, and the plan compares that with what is written. The same holds of `acl_id`.
2. A torn token file makes every later call fail instead of triggering a refresh
   (`token_store_torn`).
3. A failed wait in the delete of a peering dereferences nil (`peering_panic`).
4. The name of a network never changes, and its Update always fails (`network_rename`). The
   model takes a PUT without a body to leave the network alone, whatever the API answers.

Two more divergences are built into the models and have no run of their own:
`server_version_tag`, the tag "to provision" of `docs/resources/managed_cluster.md:69`, is not part of the
create request (`Requested`: the API picks the tag, and an upgrade follows at the next apply); and a
peering's provider is not part of it either (`AsCreated`), so a misnamed one is replaced for ever.

### Assumptions about the API

The repository has no API; these are taken from how the handlers use it, and the results rest on them.

- It has topologies and list ids in lower case, as every create sends them, and a peering's provider as
  its network's.
- A status is not older than the command that was accepted, but for the statuses that linger. With a
  late `available` every wait could end too early.
- The failures of a replica set are those of `FailureStates`. That they are the ones of
  `terminalReplicaSetFailureStates`, and `defunct`, is checked against that definition alone.
- The deletion of a project or of an access control list is done when it is answered, since their
  Delete does not wait. (The Read of a list looks at a status, so the API may know a list under deletion;
  if it does, `NothingForgotten` says nothing about it.)

### What the properties leave out

Some hazards are covered in part, since the code does not prevent the rest; `PROJECT.json` says so at each.

- An object whose create was cut off before its id was saved is exempted from `NothingForgotten` (`lost`): only an import
  finds it.
- `NoBlindShrink` exempts a size that was read while an earlier command was under way (`d.overhang`).
- `NothingStale` and `NothingInvalid` compare with the time of the call, not with that of the answer.
- `ForcedIsNew` is about the forced call alone, and not about mints that could have been spared.
- `StoreKeepsNewest` exempts overlapping refreshes and writes that were cut off, which do lose tokens.
- `SecretInForce` exempts integrations with a failed update (`unsure`), which `Stuck` names.

## What is proved

Every invariant and every action property that a passing run checks, and both refinements, for
any number of ids, configurations, processes and callers. The theorems are about `Spec`, without
fairness. They use the named assumptions on the constants only:

- the null values (`None`, `Absent`, `Unset`, `Error`, ...) are not values, and the bounds are natural
  numbers;
- configurations have the type of configurations; a version's default tag is one of that version;
- `LingeringAssumption` of `ReplicaSet`: only the statuses of failures linger;
- `LowerCase` and `AsCreated` are idempotent, and the latter keeps the network's provider;
- `SchemaAssumption` of `RestResource`: the schemas of projects, lists and jobs have no key in two
  spellings.

The proofs go the same way everywhere. `Inv` is the inductive invariant, `Invariance` says that it
always holds, and a property that needs more has an invariant of its own that is inductive under
`Inv`. TLC has checked each of them as an invariant of the run's instance before it was proved.

### The resources

`Inv == Typed /\ Control` in all five modules. `TypeOK` is not inductive: that a handler's
attributes have their types depends on which handler runs. `Typed` adds that what the
state and the handler refer to exists at the API and has attributes; `Control` ties
`pc`, `d.op`, `d.id`, `wait` and `tf` to each other, and says that a delete that is about to return
has seen `deleted`. From it, in each module:

- `TypeCorrect`, `NeverForgotten`: `TypeOK` and `NothingForgotten`. The step that matters
  is the return of a delete: the id leaves the state, and `Control` has the object
  `deleted`; no action of the API undoes that. In `Peering` the panic of a delete is a place of its
  own, and the state keeps the id there.
- `WaitsArePolls` (`LoopsArePolls` in `RestResource`): the waits implement `Polling`. Each action either keeps
  phase and goal of the wait, begins one (from a phase that does not wait), or ends
  one; for the end `Control` gives the object the wait is about, and the test of the poll its status.

`ManagedCluster`:

- `NoOverlap`: `StepsDoNotOverlap`, from `StepInv`, which says what is known of the job of the
  cluster at each phase: a wait for `available` ends only when the job is over, and no
  command of anyone else begins one.
- `DestroyedOnDemand`: `OnlyUnwantedDestroyed`, from two invariants. `PlaceInv`: a
  cluster's target has its place, and so have the state, unless it is tainted, and what an update
  is about to save; a create's cluster has the configured place in lower case. `DestroyInv`: a cluster
  whose create succeeded exists, has in lower case the place it was created from, and is
  never tainted; and a delete of it is up only when the user removed or moved it or writes capitals. The
  first is what makes the second inductive: a plan replaces a cluster when its place in the state
  differs from the configured one, and only `PlaceInv` says that the state's is the cluster's, which
  differs from the configured one without a move only if that has capitals.
- `SuccessIsDone`: `SuccessMeansDone`, from `DoneInv`: at each phase of an update, the fields whose
  phase is over have the values of the plan, in the cluster or, while the API is at work, in
  its target (`Met`). The target has to be in it since a poll looks only at the status.
- `NoShrink`: `NoBlindShrink`, from `SizeInv`: unless a command of an earlier operation was under way
  when the size was read, the size in the state is the cluster's up to the disk command.

`Peering`:

- `MetadataStays`: `MetadataKnown`, from `MetaInv`: the metadata is known of the API's peering, of what
  an update is about to save, and of what a create reads at its end. An update that is refused
  saves what it was asked for, which is why `d.new` is part of it.
- `DestroyedOnDemand`: `OnlyUnwantedDestroyed`, from `StandInv`, in five parts. A peering that was built exists,
  has its metadata and is in the place that was configured, under the network's provider (`BuiltStands`); the
  state shows it so, untainted (`StateStands`); a create and an update keep it
  (`CreateStands`, `UpdateStands`); and a delete of a built one is up only when it is unwanted or
  misnamed (`DeleteUnwanted`). A create whose last read fails is saved as tainted, which is why a peering counts as
  built only when that read succeeds.

`Network`:

- `DestroyedOnDemand`: `OnlyUnwantedDestroyed`, from `WishInv`: the state of a network that was created
  has the address it was created with, with no address space for a public one; a failed
  update saves the same, so that no later plan replaces it.

`ReplicaSet`: `Typed` says also that a set that is worked on shows it, but for the statuses
that linger.

- `WaitsArePolls`: `Polls`. A wait that is given up shows a status of `FailureStates`, which the terminal
  failures of the code are (no transitional status is among them), or is in trouble.
- `SuccessIsDone`: `SuccessMeansDone`, from `DoneInv`: while a create or an update waits, the API works
  on what it asked for, or has finished it when it shows `available`.

`RestResource`, for all kinds at once; `Typed` says of each attribute map which keys it may have:

- `TypeCorrect` says more here: no masked secret reaches the state, and no key in Terraform's spelling
  the API. It rests on lemmas about `Renamed`, `Over`, `Only` and `Without` (the keys a
  translation has, and that renaming takes no two keys to one).
- `ReadAsWritten`: `ReadsBack`. `Fresh` says that the state a plan compares is what was read last; the
  rest is the lemma that what is written, masked and read back is what was written, but
  for the secrets, for each kind, if the configuration is `Canonical`: a block with other keys, or
  without a comment, is not read as it was written.
- `SecretsAreInForce`: `SecretInForce`, from `SecretInv`: the CloudWatch keys that the state has, or that
  an update has sent, are those that the API stores, unless an update was cut short. A body
  that leaves a key out keeps the stored one, which is the state's by the invariant.

### The tokens

`ServiceAccountToken`:

- `Invariance`: mutual exclusion, the order of serials against the cache, what is past when a
  call is inside. From it `TypeCorrect`, `NewestIsCached`, `NeverStale`, `ForceMints`,
  `MintsAreNeeded` (an action property).
- `Refinement`: `Spec => Atomic`, every step is a step of `TokenSource` or a stutter.

`TokenStore`, for any number of processes:

- `Invariance`, `TypeCorrect`: `TypeOK`, with `Held`: a process that writes or returns has a token.
- `NeverInvalid`: `NothingInvalid`, from `ValidInv`: a call was made in the past, and a call that
  is refreshing has asked for it.
- `NewestKept`: `StoreKeepsNewest`, from `OldInv` (nothing is newer than the last token issued) and
  `NewestInv`: while refreshes neither overlap nor are cut off, at most one process refreshes, it
  holds the last token issued, and it writes it to the file that it has emptied.

### Only model-checked

Liveness: `Converges` (five runs), `OperationEnds`, `EveryCallAnswered`. They need the
fairness of `LiveSpec` and `FairSpec`, that is `ENABLED`, and well-founded arguments over time, which are
beyond the prover used here.

The four runs that expect a violation are about statements that do not hold of the code.

## What is not modelled

- Data sources: one GET and the first element with a name. They keep no state, and nothing can happen
  between two of their steps. (Their check for more than one match cannot fail: the
  loop before it stops at the first.)
- Validation of plans (`CustomizeDiff`, `ValidateWithByPass`), the peering's upgrade from 1.5.6, import ids
  that do not parse, provider configuration: pure functions that refuse a value or copy it, before
  the first request. The configurations of the models are those that pass.
- The API's rules beyond what the handlers rely on. In particular a resource that is gone
  answers `deleted`, not 404 (a project, which has no status, is an error), and a status is not older than the command that was
  accepted (except as named above).
- Wording of errors, headers, paths and encodings of requests. Every error is one failure.
- The deprecated `eventstorecloud_*` resources: they have the handlers of the new names, the metrics included
  (`resource_integration_awscloudwatch_metrics.go:84-87`).
- An unreadable token directory.

## Plan

Done: every resource of the provider, the two token flows, `Polling`, and the theorems above for
every safety property. Not begun: `Provider`, operations of several resources that take their tokens from one cache
whose identity provider may be silent.

Proofs to come:

- The two `WaitsArePolls` of `Peering` and `Network` have no run of their own; one
  that also checks `Polls` would let TLC say the same of a small instance.
- Which wedges of `Converges` last: that a cluster with a version of another tag, or a network with
  another name, stays so whatever is applied, is a safety property and within the prover's reach.
