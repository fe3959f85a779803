# Verification of podmin

TLA+ modules for the parts of podmin whose correctness depends on the order of
steps of several actors, on failures between two steps, or on a computation that
has a reference definition: what they do (translated from the code), what they
promise, TLC runs on small instances, and TLAPS proofs for every instance.

## 1. The system

The CLI creates a cluster (bucket, certificate authorities, infrastructure),
publishes dependencies and images to the bucket, and writes the deployment index.
The agent on each node reconciles the index into static Pods, issues workload
identities, watches the Pods, and coordinates Services with the agents of the other
nodes: a follower reports contract and endpoints over a stream to the leader; the
leader merges all reports into a snapshot, writes it conditionally to
`dns/services.pb` and broadcasts it; every agent programs DNS and the dataplane
from the snapshots it receives. Leadership comes from the library `s3lect`. Outside
the agent, a NAT64 gateway gives nodes a way to IPv4, and a log collector ships logs
with an identity the agent maintains.

| Part | Source (`src/internal`) | Module | What is hard |
|---|---|---|---|
| Service coordinator, controller | `agent/coordinator/coordinator.go`, `agent/service/controller.go` | `Coordinator`, `ServiceView`, `SnapshotLog` | several leaders, late writes, restarts, leases, handlers interleaved with `Run` |
| Coordination streams | `agent/coordinator/transport.go`, `agent/api/grpc.go` | `Streams` | reconnects, two streams of one node, nodes that refuse each other |
| Static Pod reconciler | `agent/staticpod/reconciler.go`, `filesystem.go` | `Reconciler` | failure between renames, index or authority changed meanwhile |
| Manifests | `manifest/manifest.go`, `agent/staticpod/manifest.go`, `cli/cmd/deploy.go`, `init.go` | `Manifest` | the agent repeats what deploy did, and must agree with it |
| Workload authority | `agent/workload/workload.go` | `WorkloadCA` | competing rotations, clocks, activation lag, external publication |
| Dataplane | `agent/dataplane/dataplane.go`, `activation_linux.go` | `Dataplane`, `ServiceTables` | switch of tables under traffic, partial failure, routes that change |
| Packet path | `agent/dataplane/dataplane.bpf.c` | `FlowTable` | CPUs that compete for one tuple, LRU eviction |
| Pod watcher | `agent/pods/watcher.go` | `PodWatcher` | initial sync, broken streams |
| Daemon | `agent/daemon.go` | `Daemon` | order of failures, signal, stop hooks and returns |
| Log shipping TLS | `agent/telemetry.go`, `cli/userdata/aws.sh` | `Telemetry` | failure or end of the agent between steps, rotation meanwhile |
| Deployment index | `cli/deploy/*.go`, `manifest/index.go` | `DeploymentIndex`, `DesiredState` | concurrent commands, lost answers |
| Image publication | `cli/images/publish.go`, `remote.go` | `Images` | an index that names what is not there, competing writers |
| Dependencies | `cli/setup/*.go`, `cli/dependencies/retention.go`, `manifest.go` | `Dependencies` | interrupted setups, deletion of files still in use |
| Downloads, dashboard | `cli/dependencies/fetch.go`, `upstream.go`, `cli/tui/progress.go` | `Dashboard` | messages in any order, a bounded channel, an interrupt |
| NAT64 gateway | `cli/infra/aws/nat64.sh.tftpl`, `nat64.tf`, `cloud/aws/nat64.go` | `Nat64` | failure or late answer during a handoff |
| Subnets | `cloud/aws/compute.go`, `cli/infra/aws/network.tf` | `Subnets` | stable numbers while groups come and go and applies are interrupted |
| Cluster lifetime | `cli/infra/*.go`, `cli/cmd/{connect,setup,teardown,destroy,disconnect}.go`, `cloud/aws/{bucket,parameters}.go` | `Cluster` | commands killed anywhere, broken locks |

`PROJECT.json` lists every part with its status, every definition with the lines it
translates, and every hazard with the properties that would catch it.

## 2. Modules

A component is one module. Its constants are declared there, its assumptions are
named there, and its properties stand at its end. The other modules are:

| Module | Role |
|---|---|
| `ServiceView` | Data and pure operators of coordination: contracts, snapshots, views, merge (`BuildClusterSnapshot`), application (`ControllerApply`), overlay, restore. |
| `SnapshotLog` | What fenced publication promises: one log of versions, extended at its end, in which agents only move forward. `Coordinator` implements it (`ImplementsLog`). |
| `DesiredState` | What the deployment index promises: one key changes at a time, no two deployments share a Service. `DeploymentIndex` implements it (`ImplementsDesiredState`), and `Reconciler` uses it as its environment. |
| `CoordinatorProofs`, `ReconcilerProofs`, `DeployProofs`, `DataplaneProofs`, `SetupProofs`, `AgentProofs`, `ClusterProofs`, `AuthorityProofs` | Theorems and their proofs. |
| `MCCoordinator`, `MCReconciler`, `MCManifest` | Small sets for TLC. |
| `MCDeploy`, `MCSetup`, `MCAgent`, `MCDataplane`, `MCCluster`, `MCRegistry` | Small instances of several components. |
| `Forwarding` | `FlowTable`, `Dataplane` and `PodWatcher` side by side: what `DataplaneProofs` is about and `MCDataplane` extends. |
| `Provision` | `Dashboard` and `Nat64` side by side: what `SetupProofs` is about and `MCSetup` extends. |
| `Agent` | `Daemon` and `Telemetry` side by side: what `AgentProofs` is about and `MCAgent` extends. |
| `Lifecycle` | `Cluster` and `WorkloadCA` side by side: what `ClusterProofs` and `AuthorityProofs` are about and `MCCluster` extends. |

These instances put components together that share no state: `MCDeploy` the index,
the images and the dependencies, `MCSetup` the dashboard and the gateway, `MCAgent`
the daemon, the log shipping and the reconciler, `MCDataplane` flows, activation and watcher,
`MCCluster` manifests, Service tables, subnets, cluster lifetime and the authority,
`MCRegistry` the coordinator and the streams. A
variable `part`, chosen at the start and never changed, says which of them is
explored; the others rest in an initial state. Since they share no variable, and
every property is about one of them, no interleaving is lost. Some components appear
several times (two sizes of the Service maps, two kinds of VPC, one process or two, three phases of the authority), and
then one value of `part` stands for each. Fairness and
eventual properties carry the condition on `part`.

Components that do share state are composed: `Coordinator` contains the controller,
the store, the elector and the streams as an unordered network; `Streams` is the same
protocol with ordered streams and leases, and without snapshots; `Manifest` runs the
second parse of the agent on what the commands committed; `Reconciler` runs against
`DesiredState`; `Cluster` and `Nat64` contain the tools and services they call.

## 3. Correspondence with the code

### Coordination

The state of a `Coordinator` struct is one function per field, indexed by agent
(`snapshot`, `generation`, `wasLeader`, `leaderReady`, `nodes`, `sessions`,
`staleCleared`, `fatal`); `desired`, `ready`, `notified` and `view` stand for the
controller with its DNS server and dataplane. `durable` is the object
`dns/services.pb`. A conditional write succeeds when the object still is the
snapshot that was read, which is what the ETag of a deterministic encoding says.
`inflight` holds requests whose caller saw an error and that S3 may still execute.

`run[n]` is the program counter of `Run`, `pub[n]` the section under `publishMu`
(free, or between the read, the write and the application of `publish` or
`acquire`), `waiting[n]` the goroutines about to call `publish`. `handle` mutates
the registry under `c.mu` in one step and publishes in later steps, so handlers,
`Run` and other agents interleave at every point where the code releases a lock
or waits for the store.

| Action | Code |
|---|---|
| `AcquireRead`, `AcquirePut`, `AcquireApply` | `acquire`: read and overlay, conditional write (five attempts in the code, `MaxAttempts` here), clear the registry, apply, serve |
| `PublishRead`, `PublishPut`, `PublishApply` | `publish`: capture and fence, second leadership check and write, apply and broadcast |
| `HandleHello`, `HandleNodeState`, `HandleRetire`, `HandleDrain` | the branches of `handle` |
| `RegisterHello`, `RegisterState` | `registerLocal` |
| `RunChange`, `RunTransition` | a change notification and `applyLocalTransition` |
| `Expire`, `StepDown` | the rest of a tick: `expireAndPublish`; loss of leadership and `clearStale` |
| `FollowApply` | `follow` receiving a snapshot |
| `Shutdown`, `Exit`, `Crash`, `Start` | `drain`, return of `Run`, end of the process, `RunDaemon` with `LoadSnapshot` and the initial transition |
| `SetServices`, `SetPods` | the controller's setters |
| `Elect`, `Depose`, `LatePut` | environment: the elector, a late request |

`Streams`: `client` is the stream a follower has open, `server` what the leader has
still to handle of each session, `registry` the leader's entries with the time left
of their leases. `Follow`, `SendState` (a report, or the end of the stream when the
digest changed), `Break`, `Stop` are the follower; `Handle`, `Finish`,
`registerLocal`, `expireAndPublish`, `acquire` the leader. A `Tick` is the ten
seconds between two reports.

### The node

* **`Reconciler`.** `run` is the call of `Reconcile` with its locals: `Begin`,
  `ReadIndex`, `Build`, `Stage`, `Confirm`, `CommitFiles` (one rename at a time, in
  the order of `CommitOrder`), `CleanupManifests`, `CleanupSecrets`, `Prune`,
  `Finish`. `Fail` ends it at any step; what a failed call had renamed stays.
  `etag`, `healthy`, `revision`, `known`, `services` and `due` are the fields,
  `manifest`, `link`, `complete`, `partial` and `secrets` the files.
* **`Manifest`.** `ParseDeployment`, `transformPod`, `injectIdentity`,
  `parseService`, `build` and `injectProviderMount` are operators with the code's
  names that return a value or a refusal. `DeployFile`, `DeployBuiltIn`,
  `InitThenValidate`, `Delete` and `Reconcile` are the actions.
* **`WorkloadCA`.** `agent[n]` is the loop of `runWorkloadIdentity` with the locals
  of `Ensure`: `Wake`, `ReadState`, `PublishReplacement`, `CheckPublication`,
  `PutState`, `Sync`, `Publish`, and `Issue` beside it. `newRecord`, `pruneState`,
  `promoteState`, `validateState`, `bundleForState` are the functions of those names.
* **`Dataplane`.** `plane` holds the collections (`platformState`), `call` the
  `Reconcile` in progress: `Begin`, `Publish`, `Discover`, `Attach`, `Swap`,
  `Retire`, `Close`, with `Fail` at each; `WatchRead` and `WatchApply` are the two
  halves of a watcher's refresh, between which routes may change. `close` waits two
  seconds for its watcher; one that is later still finds the collection closed, or,
  between its links and its objects, ends the process (`Panic`).
  **`ServiceTables`** is `Compile` and `SelectBackend`.
* **`FlowTable`.** Each CPU handles a packet in steps between two map operations:
  `Receive`, `Look`, `Check`, `Repair`, `Forget`, `Probe`, `Claim`, `Bind`.
  `EvictForward` and `EvictReverse` are the LRU maps, `Switch` a new table.
* **`PodWatcher`.** `Dial`, `Watch`, `Consume`, `Interrupted`, `Retry` are `Run` and
  `consume`; `Change`, `Break` and `Corrupt` are the kubelet.
* **`Daemon`.** `Start`, `ReturnEarly`, `ReturnStopped`, `Send` for each component;
  `TakeSignal`, `TakeResult`, `Delay`, `StopHook`, `Join` for `runComponents`.
* **`Telemetry`.** One pass of `maintainFluentBitTLS` is `Begin`, `Issue`,
  `CheckRevision`, `MakeDirectory`, `WriteFiles`, `Select`, `Cleanup`, `Fetch`,
  `InstallServerCA`, `Restart`; the collector reads its files in `StartCollector`.

### Commands

* **`DeploymentIndex`.** A writer is `PutPod`, `PutService`, `ReadIndex`, `PutIndex`
  (with `Again` after a lost race), a reader `ListIndex` and `ListPayloads`. `Lose`
  is a request that failed or whose answer was lost.
* **`Images`.** `StartPush`, `Mirrored`, `Validate`, `Fetch`, `Walk`, `Upload`,
  `ReadIndex`, `PutIndex`; `Fail` ends a command anywhere, `Rot` damages a cached
  blob.
* **`Dependencies`.** `Begin`, `Upload`, `MirrorImage`, `PublishManifest`, `Apply`,
  `List`, `Delete`, `Complete`, with `Fail` anywhere and `Tick`.
* **`Dashboard`.** `Start`, `Check`, `Respond`, `Read`, `EndBody`, `Store` for each
  artifact, `RunEnds` and `WaitForEvent` for the two commands of the program,
  `Update` for a message, `PressKey` for the interrupt.
* **`Cluster`.** One program counter per process with the steps of setup, teardown,
  destroy, connect and disconnect in their order; `Interrupt` ends a process
  anywhere. `Acquire`, `Plan`, `Change`, `Applied` are the infrastructure tool.
* **`Subnets`.** `Discover` is `Network` with both allocations: `Owned` are the subnets
  it takes for a key's own, by tags or by Name, and `Listings` which of several is
  listed last; `CreateVPC`,
  `CreateSubnet`, `RemoveSubnet`, `Finish`, `Interrupt` are the engine.
* **`Nat64`.** The bootstrap script (`Install`, `Verify`, `DetachPrevious`, ...,
  `Probe`, `Commit`, `Complete`, and `cleanup`: `Rollback`, `ReleaseSelf`,
  `Restore`, `Abandon`), the Auto Scaling group and EC2 (external), and the wait of
  setup (`ReadGroup`, `ReadInterface`).

## 4. Abstractions

**Coordination**

* *Data.* A configuration stands for its digest; a contract is a set of identities
  with a shape (ports); an endpoint is a node and an identity. VIPs, names, ports,
  prefixes and their validation are left out. Messages that the validation refuses
  change nothing and are stuttering. `sessionNode` is the authenticated identity
  that `handle` compares with the Hello.
* *Time.* In `Coordinator` a lease may end at any moment (`Expire`, `StepDown`): this
  includes every run of the code with its 35 seconds, and more. `Streams` counts
  the steps of a lease.
* *Network.* In `Coordinator` a message of a session may arrive at any agent at any
  time, and a sent snapshot may reach any agent later, in any order, or never. This
  contains what ordered gRPC streams can do. The initial snapshot that `Subscribe`
  queues is not a separate message: on the ordered stream it follows the answer to
  the Hello, which is at least as new, so `apply` ignores it.
* *Merged steps.* `handle`'s leadership checks and its registry change; `publish`'s
  capture and its `Get` (a durable change between them makes the fence fail in the
  code and the conditional write in the model, both with an error; a registry change
  is published by the goroutine that made it); `acquire`'s `Get` and overlay;
  `registerLocal`'s capture and Hello. `Run` reads `IsLeader()` once per tick;
  `Expire` is modelled with the current value because `publish` asks again before it
  does anything durable.
* *Registration.* The local sequence number is always 1 because a Hello resets the
  entry. A follower's `drain` is a Hello and a Drain of a new session. `HandleRetire`
  is handled by the code although podmin's own followers end their stream
  (`transport.go:70`) instead of reporting under another digest.
* *Faults.* Storage errors, dataplane errors, stops and crashes are bounded by
  `MaxFaults`. A dataplane error posts to `fatal` when the snapshot has Services, as
  in `apply`; this includes the error of a stream context that ended during
  `publish`. A failed `clearStale` is only logged and is a stuttering step. A failure
  of the initial transition is `Start` followed by `Crash`.
* *Process end.* BPF objects are not pinned, so a process that ends programs nothing
  any more, and holds nothing.
* *`SetServices`* chooses the selected Pods freely; the code selects among the Pods
  it knows.
* *`Streams`.* A follower that was refused tries again every second, so it may be
  refused once in a step and time does not wait for it. A session name is used again
  only when nothing refers to it.

History variables (no guard reads them): `written` and `accepted` in `Coordinator`,
`torn` in `Reconciler`, `trusted` in `WorkloadCA`, `served` in `Dataplane`, `sent` and
`out` in `FlowTable`, `read` in `PodWatcher`, `answer` in `Images`, `unfinished` in
`Cluster`.

**The node**

* `Reconciler`: a manifest is a deployment with an identity generation, a generation a
  directory that is complete or partial. Deployments that cannot be built are
  `Broken`; which these are is the subject of `Manifest`.
* `Manifest`: YAML is reduced to the values it yields; that a name such as `true` is read
  as another type is kept (`NonStrings`). A path is the sequence of its components, and
  an image a member of a set with a normal form.
* `WorkloadCA`: a certificate is its generation and validity, and the state holds a set of
  them (the slice of the code is always in the order of generations). Whether there is an
  external publication is a variable that never changes. Durations are small
  numbers in the order of the code's, and `DurationAssumption` states the order. A tick
  waits until every node has synchronized and a leader has ensured, unless a step of
  outage is spent: nodes poll much more often than a tick is long.
* `Dataplane`: a collection is its table and the interfaces it is attached to. `ServiceTables`: keys and backends are
  numbers in the order the code sorts them, 0 is one that is invalid.
* `FlowTable`: one Service port; a flow is its key with its hash. Header parsing,
  rewriting and checksums do not touch the maps.
* `PodWatcher`: a Pod reports one of a few statuses, those `project` tells apart.
* `Daemon`: a runnable goroutine is scheduled within the six seconds of the drain
  delay. Components are a server of each kind, which react to a stop hook that comes
  early as their libraries do, and loops that watch the context.
* `Telemetry`: the delay between passes is left out; with mutual TLS and a configured
  server CA (`MTLS = TRUE`, an object to fetch).

**Commands**

* `DeploymentIndex`, `Images`, `Dependencies`: the version of an object is its content.
  One repository and one architecture. Progress and sizes are left out.
* `Dashboard`: goroutines end with the command; the transport's own connection limits are
  left out.
* `Cluster`: the working directory is the variables file, which is written last. A killed
  parent may leave its engine running, and `ActiveCommands` then sees it. The
  confirmation an operator gives before a lock is broken is not modelled.
* `Subnets`: a /64 and a /28 are numbers in their range; a zone is one letter. A Name is
  what stands before and after its hyphen, so that the subnets of cluster `podmin-c`
  (`network.tf:77`) have the names that cluster `c` looks for (`compute.go:282`).
* `Nat64`: packages, kernel modules and addresses of the installation are one step that
  may fail. Instance and attachment names are used again only when nothing refers to
  them.

## 5. Runs

| Run | Module, instance | Properties | What it shows |
|---|---|---|---|
| `fencing` | `MCCoordinator`: two agents, two elections, one fault; one change of Services or Pods, in a first leadership without faults | `ImplementsLog`, `LeaderServes` | two agents that believe they lead, or one that is superseded inside `publish` or `acquire`, a late or lost write, a crash: the durable object moves by one version, agents follow one log, and a node that stays leader serves |
| `registry` | `MCRegistry`: one agent, three nodes in two groups, five scopes (`Restarts`, `Changes`, `Refusals`, `Reconnects`, `Groups`); streams of a leader and a follower, a change of contract, two faults | `BackendsReported`, `StaleStaysCleared`, `PublishedIsRegistry`, `RegistryCoherent`; `RegistryConverges` | restart and second leadership; changes after a lease expired; a change the dataplane refuses; two streams of one node; groups that compete for an identity. Entries that refuse each other, streams that overtake each other, a leader that restarts: running nodes end up registered under the contract of the index, stopped ones leave |
| `persist` | `MCCoordinator`: one agent, fairness, one fault | `LeaderPersists` (violated) | section 8 |
| `readiness` | `MCCoordinator`: two nodes of one group | `ReadinessAlone` (violated) | section 8 |
| `retry` | `MCReconciler`: two Pods, three deployments, four changes, one fault | `RetriesConverge` (violated) | section 8 |
| `deploy` | `MCDeploy`: two writers and a reader with two lost requests; two machines, two tags, three commands, a decayed blob; three interrupted setups of two node groups | `PayloadsPresent`, `ImplementsDesiredState`; `IndexFetchable`, `OneTagChanges`, `EnsuredFetchable`; `NamedStored`, `RetentionHonoured` | nothing that is listed is missing, no concurrent change is undone, nothing in use is removed |
| `nested` | `MCDeploy`: pushes of an image index and of plain manifests | `TagsResolve` (violated) | section 8 |
| `setup` | `MCSetup`: two downloads for one place and a channel of one; three instances of a gateway under three budgets of failures | `NilMeansVerified`, `CommandReturns`; `HandoffsSafe`, `Recovers` | success means verified files whatever order the last messages take; the interface moves only to a candidate of its generation and is served again |
| `agent` | `MCAgent`: four components, two failures, a signal; two changes, a fault and a crash; two Pods, three deployments, four changes, one fault | `FatalIsCause`, `DaemonExits`; `IdentitySound`, `CollectorCurrent`; `HealthyConverged`, `MountsReady`, `Converges` | the daemon exits and blames the cause; the collector comes to run with a complete, current identity; after a failure or restart at each step of the reconciler, with an index and an authority that move, healthy means converged, mounts are always complete, and polling converges |
| `dataplane` | `MCDataplane`: two CPUs, two flows that collide, an eviction or a switch; three calls, two route changes, an error; two Pods, two changes, a fault | `OneFlowPerTuple`, `EveryFlowRecovers`; `OnlyCurrentServes`, `NoGap`, `Settles`; `ViewFollows` | replies belong to one client; interfaces always run one complete table, without a gap; views are complete and catch up |
| `cluster` | `MCCluster`: the manifests of `MCManifest`; snapshots of two ports, for maps of three entries and of one; one cluster in its own VPC and two in a shared one, where others use the names it looks for; one process with all commands (`Alone`) and two with some (`Pair`), and one write that is interrupted; a rotation, one behind an external publication with outages, and the first certificate of the authority (`Rotation`, `External`, `First`) | `ManifestsAgree`; `TablesExact`; `PlansFree`, `SubnetsKept`; `InfraRemovable`, `TrustKept`; `LeavesTrusted`, `AuthorityUsable`, `CertificatesKept` | what deploy accepts, agents accept; ranges are right and fit the maps; subnets stay; infrastructure stays removable; every leaf is trusted everywhere |
| `torn` | `MCCluster`: one process with connect and setup, one write that is interrupted | `TeardownRestores` (violated) | section 8 |

Several of these properties are conjunctions whose parts the component modules define and
explain one by one:

| Property | Parts |
|---|---|
| `RegistryCoherent` | the maps of the registry agree (`SessionsMatchNodes`), its entries do not contradict each other (`EntriesAgree`), a Service has one owner (`OneOwner`) |
| `NamedStored` | the files of the manifest (`ManifestComplete`) and of the launch templates (`NodesComplete`) |
| `HandoffsSafe` | the interface stays with a current instance (`HandoffForward`), ready means serving (`ReadyServes`) |
| `IdentitySound` | a whole identity is selected (`SelectedComplete`), its signer is recorded (`SignerRecorded`) |
| `OnlyCurrentServes` | no partial table (`NeverPartial`), none left behind (`NoLeak`), success means served (`SuccessServes`) |
| `ViewFollows` | complete at every moment (`ViewComplete`), in the end the kubelet's (`ViewConverges`) |
| `ManifestsAgree` | `GeneratedAccepted`, `RefusalsExplained`, `IdentityMounted`, `ServicesOwned` |
| `TablesExact` | `FlowsReachOwnBackends`, `EveryBackendUsed`, `CompileDeterministic`, and the maps have room for it (`TablesFit`) |
| `InfraRemovable` | what exists is in the state (`InfraTracked`), its variables are in the bucket (`VariablesSaved`), one engine changes it (`OneEngine`) |
| `AuthorityUsable` | `PublishedFirst`; while the authority is `Attended`, `StateAccepted` and `NeverExpires` |

**Bounds, and why they are enough**

* Coordination: two elections are the least with which a leadership ends and another
  begins, on the same or another agent, or both hold at once. One fault is each
  single failure at each step, and the proofs of section 7 hold for any number. One
  revision per generation reaches the first publication and the fence; the scope
  `Reconnects` and the violated runs use two, so that one publication follows
  another. Two identities let a remote Service survive the overlay of a local change.
  `Streams`: three sessions are an old stream, a new one and that of a drain.
* `agent`: the components are one of each kind, whose ways to stop differ. Four events of
  the reconciler are an index that moves twice and a rotation in between,
  or a Pod that comes and goes; two Pods are needed for a failure between two renames.
* `deploy`: two writers and two lost requests let a command lose a race, retry, and meet
  its own change. One of the sources is a plain manifest that an image index also contains.
  Three versions and two ticks give an object that is old enough and one that is not, with `Kept = 2` as in the code.
* `setup`: one place for two downloads and a channel smaller than the number of events
  make every wait happen. Three instances are the one that serves, its replacement,
  and the replacement of that.
* `dataplane`: both flows start probing at one port; three ports leave a free one after an
  orphaned reverse entry (with two, entries that nobody evicts use up the range, which
  for the 2768 ports of the code is the business of the LRU). Three calls replace a
  table, fail and replace it again.
* `cluster`: the files of `MCManifest` contain each refusal and each repair of the parse;
  two ports with two backends each fill a map of three entries and overfill it with
  backends, and a map of one entry with ports.
  Three setups of one cluster let a group go and come back while another stays.
  Life 18, retention 6 and lag 3 let a whole rotation pass: pending, promoted,
  retired, pruned, from clock 10, eight before the end of the first certificate. Eight
  steps of outage let that certificate expire behind an external publication, which
  `External` explores with three steps in which nodes work: it reaches an ordinary
  promotion, and the recovery from expiry with an old and with a new certificate.

The authority is `Attended` when it has no external publication and until its first
outage (a step of time in which some node did not synchronize or no leader ensured).
`LeavesTrusted`, `StateAccepted` and `NeverExpires` are promised only then: an operator
who does not publish, or a cluster that is down for the rest of a certificate's life, lets
it expire whatever the code does. `PublishedFirst` and `CertificatesKept` hold in any case.

**Fairness.** Assumed are only steps that a loop, a scheduled goroutine or a service takes
by itself: `Run` of the coordinator (a one-second ticker, and no lock is held across
an unbounded wait, since store calls return or fail), reporters and handlers of
streams, reconciler rounds (a ticker), the watchers of the
dataplane and of Pods (tickers and timers), the goroutines of the daemon and the
dashboard, the passes of log shipping and systemd's restarts of the collector, the
bootstrap script, and what EC2 and Auto Scaling have accepted. Strong fairness is
used twice: time passes in `Streams` although refused followers go on trying, and a flow
in `FlowTable` goes on sending although other packets may occupy the CPUs. No
fairness is assumed for messages, elections, changes, faults, signals, crashes or
restarts. `RegistryConverges` follows from reconcilers that come to publish the
contract of the index. The liveness properties of `Coordinator` exclude the executions
that run into the revision bound (`AtBound`).

**Scopes.** `fencing`, `registry` and `agent` (for its reconciler) use an action constraint: steps that leave
the scope are not taken, so that what TLC explores is closed under the steps inside it. In
`fencing` these are changes, elections and faults, none of which is assumed fair.

**Deadlock** is checked for `Coordinator`, whose loops never end (run `fencing`). The other
components stop: commands end, calls and changes are bounded, and a process exits.

## 6. Mutants

Every property of a passing run is broken by a variant of the mapped code that stands
beside the definition it replaces, so that no property holds by the shape of the model
alone; `PROJECT.json` pairs them. They are the mistakes one could make there: a
version that is not compared (`AdvancesAlways`), a registry kept across leaderships
(`KeepRegistry`), a renewal that forgets to withdraw (`LocalTransitionRevives`), a drain
nobody publishes (`HandleDrainSilent`), a contract not compared again (`OutdatedNever`), a
commit in the other order (`CommitOrderReversed`), an unconditional write
(`PutIndexBlind`), an index published before the last blob (`UploadedMost`), a cleanup that
spares nothing (`ProtectedNone`), a channel too
small for its senders (`BufferOne`), a limit not released on failure
(`ReleaseOnSuccess`), a tuple claimed without looking (`ClaimableAny`), an old table
detached first (`DiscoverRetires`), a range one too long (`SelectBackendLong`), a
certificate promoted at once (`ActivatedAtOnce`), a rotation that starts late
(`RotationDueLate`).

## 7. What is proved

The theorems hold for every value of the constants: every set of nodes, agents,
sessions, configurations, commands, flows, artifacts, images, routes or components, and
every bound, including the number of faults. They assume only the named `ASSUME`s of the
modules: every node has a group, a contract states each identity once (`ParseIndex` and
`ValidateContract` refuse others), a session belongs to one node and is not a node,
agents are nodes; a node has finitely many Pods; limits and capacities are positive; a table is a sequence of
backends; components are listed once; what lies below a digest is closed and does not
contain it; versions are finite and at least one is kept; an attachment name that nothing
refers to is left for a new attachment (`Nat64Assumption`); the durations of the authority
are in the order of the code's, with `Skew` bounding the offsets of the clocks
(`DurationAssumption`); `None` is none of the values it stands beside; bounds are natural
numbers.

Some theorems carry a hypothesis of their own, which section 8 explains: without it the
code does not have the property.

* `OneSetup`: no two setups of a cluster at once (dependencies).
* `OwnCaches`: no cache shared by two publishers (images).
* `[]Undisturbed`: no command runs beside a destroy (`InfraIsRemovable`). `TrustIsKept`
  does not need it.
* The property itself says `Attended => ...` for the authority (section 5).

| Module | Theorems | State |
|---|---|---|
| `CoordinatorProofs` | `TypeCorrect`, `StaleBackendsGone` | `Spec => []` of `TypeOK`, `StaleStaysCleared` |
| | `FencingInvariant`, `VersionsUnique`, `OnlyDurableApplied`, `NeverAhead` | `Spec => []` of `FencingInv`, `OneSnapshotPerVersion`, `AppliedWasDurable`, `NobodyAhead` |
| | `Fenced`, `ImplementsSnapshotLog` | `Spec => DurableFenced`, `Spec => ImplementsLog` |
| | `RegistryInvariant`, `RegistryIsCoherent`, `BackendsAreReported` | `Spec => []` of the invariant, `RegistryCoherent`, `BackendsReported` |
| | `PublicationInvariant`, `PublishesRegistry` | `Spec => []PublicationInv`, `Spec => []PublishedIsRegistry` |
| `ReconcilerProofs` | `ReconcilerInvariant`, `HealthyIsConverged`, `MountsAlwaysReady` | `Spec => []` of `ReconcilerInv`, `HealthyConverged`, `MountsReady` |
| `DeployProofs` | `IndexInvariant`, `PayloadsFirst`, `ImplementsIndex` | `Spec => []IndexInv`, `Spec => []PayloadsPresent`, `Spec => ImplementsDesiredState` |
| | `DependenciesInvariant`, `NamesAreStored`, `RetentionIsHonoured` | with `OneSetup`: `Deps!Spec => []DepsInv`, `[]NamedStored`, `RetentionHonoured` |
| | `PushInvariant`, `MirrorInvariant` | with `OwnCaches`: `Img!AppsSpec => []PushInv`, `Img!MirrorSpec => []ImagesInv` |
| | `ListedIsStored`, `PublicationsApart`, `MirroredIsWhole` | with `OwnCaches`: `[]IndexFetchable`, `OneTagChanges`; of mirrors `EnsuredFetchable` |
| `DataplaneProofs` | `FlowInvariant`, `TuplesUnshared`, `OwnersSend` | `Spec => []FlowInv`, `Spec => []OneFlowPerTuple`, `Spec => SentByOwner` |
| | `PlaneInvariant`, `CurrentServes`, `UplinksStayCovered` | `Plane!Spec => []PlaneInv`, `[]OnlyCurrentServes`, `NoGap` |
| | `WatchInvariant`, `ViewIsComplete` | `Watch!Spec => []WatchInv`, `[]Watch!ViewComplete` (the first half of `ViewFollows`) |
| `AgentProofs` | `DaemonInvariant`, `BlamesTheCause`, `SignalsAreClean` | `Process!Spec => []` of `DaemonInv`, `FatalIsCause`, `SignalIsClean` |
| | `LogsInvariant`, `IdentityIsSound` | `Logs!Spec => []LogsInv`, `[]IdentitySound` |
| `SetupProofs` | `DashboardInvariant`, `NilIsSuccess`, `LastPicture`, `NeverPanics` | `Spec => []` of `DashboardInv`, `NilMeansVerified`, `EventsApplied`, `NoEventsRemain` |
| | `GatewayInvariant`, `HandoffsAreSafe` | `Gateway!Spec => []GatewayInv`, `Gateway!Spec => HandoffsSafe` |
| `ClusterProofs` | `ClusterInvariant`, `InfraIsRemovable` | with `[]Undisturbed`: `C!Spec => []` of `ClusterInv`, `InfraRemovable` |
| | `TrustIsKept` | `C!Spec => []TrustKept` |
| `AuthorityProofs` | `EnsureInvariant`, `CertificatesAreKept` | `Authority!Spec => []EnsureInv`, `Authority!Spec => CertificatesKept` |
| | `AttendedInvariant`, `AuthorityIsUsable`, `LeavesAreTrusted` | `Authority!Spec => []` of `AttendedInv`, `AuthorityUsable`, `LeavesTrusted` |

**`StaleStaysCleared`** is inductive together with `TypeOK`: the steps that
program backends either apply a newer snapshot, which resets `staleCleared`, or
are a transition, which drops the backends while it is set.

**Fencing.** None of the fencing properties is inductive alone. A write that an
agent has pending, or that is in flight after its caller gave up or died, can
take effect much later, and what makes it harmless is how it was formed.
`FencingInv` therefore says:

* of every write that can still happen, pending or in flight, that its candidate
  is one step above the version it is conditional on (`WriteOK`);
* of the store, that `durable` is the maximum of `written`, versions in `written`
  are unique, and only written snapshots were sent (`StoreInv`);
* of an agent between writing and applying, that its candidate is written, and that
  `publish` works for the generation the process acquired (`PubInv`);
* of the applied snapshot, that it was written, or is the restored form of a
  written one, and in that case that it is older than any generation its process
  has acquired or is acquiring and that the process does not serve (`Outdated`).
  Without this, a restored snapshot, which has a durable version but not the
  durable content, could be sent to followers or be the basis of a revision;
* of a process that is down, that it holds nothing (`DownInv`).

A successful conditional write has `durable = seen`, so by `WriteOK` it extends
the maximum: versions stay unique and the object moves by one step (`Fenced`).
For the refinement, `StepKinds` classifies every step as one of four kinds
(nothing visible, one write, one agent adopting a written or restored version,
one process ending), and each kind is a step of `SnapshotLog` or a stutter
under the mapping `latest <- VersionOf(durable)`, `history`, `held`.

**Registry.** `RegistryCoherent` needs that the two maps lead to each other entry by entry
(`Matched`) and that no two Hellos of the registry contradict each other (`Harmonious`);
that identities have one owner in everything that is or can become durable is carried
from the registry through candidates, writes in flight and restored snapshots
(`OwnerInv`). `BackendsReported` follows a report from the registry through a candidate
into the store (`ReportInv`): the registry starts empty with a generation, so nothing of
an earlier one is published under it. `PublishedIsRegistry` is about a leader that is at
rest, and the invariant (`PublicationInv`) about one that is not: the critical section
works on a copy made under its mutex, and every change of the registry beside it leaves
either the copy as it is or a goroutine that waits to publish.

**Reconciler.** A call does not write the files of a deployment it finds unchanged, so they
must have been right since the call that did. `ReconcilerInv` says what the fields of the
reconciler promise about the disk while it does not write (`MemoryInv`, `RevisionInv`),
what a staged candidate stands for (`CandidateInv`), what each rename and removal of a
commit has achieved (`WriteInv`), and what a healthy report means (`HealthInv`). A Pod
that a failed call left half written is in `torn` until a call succeeds, and a restart of
the agent keeps it there.

**Deployment index.** `PayloadsPresent` speaks of the index and of readers; a write that is
still to come could break it. `IndexInv` adds what a command carries from one request
to the next: once it has put a payload the store has it, and what it is about to write
was accepted by `MarshalIndex`. The write is conditional, so what was read is what is
replaced, and both become facts about the index; for the refinement they make every
commit a `Commit` of `DesiredState`.

**Dependencies.** A setup is followed through its steps (`SetupOK`): it has stored what its
manifest names before it publishes the manifest, and when it comes to delete, every
launch template has been applied. What it is about to delete stays replaced: as many
newer versions as are kept are stored and not about to be deleted (`Replaced`). That the
newest `Kept` versions of a finite set are `Kept` many is the one cardinality argument.

**Images.** A command is followed too (`CallOK`): from the validation on its cache holds no
decayed blob; when it has pulled, the cache holds the whole image; while it uploads,
what is missing in the bucket is still on its list; when it writes `index.json`, the
bucket holds the whole image. An image whose index is only repaired was completed by a
mirror before, and objects stay. `Push` does not validate a cached tag, so for `apps/`
every cached image is whole (`CachesWhole`), which holds because in `apps/` no cache
decays. `OneTagChanges` follows from what `mergeIndexes` keeps (`Merged`) and from the
conditional write: what it merged into is what it replaces.

**Packet path.** That packets left under different tuples says nothing about the next one.
`Owned` is the strengthening: as long as nothing was evicted, every tuple that was ever
used still maps back to the flow that used it, because an entry of `reverse` is created
only where there is none and is given back only before it was used.

**Activation.** `OnlyCurrentServes` needs what a call of `Reconcile` knows between two steps: a
new collection is attached only after it was filled, while the current one stays open
(`Raising`); the interfaces that were found include those that cannot disappear, and only
a collection that holds the wanted snapshot is refreshed (`Refreshing`); one is retired
only after another has taken over (`Ending`).

**Pod watcher.** What is staged is rarely what a moment of the kubelet was; what is on the way
makes up for it. `Delivers` says that an open stream leads from the staged Pods to those of
its last event: before the marker through the rest of the list, whose events all belong
to one moment, and then change by change (`Following`). A stream that is not broken ends at
the kubelet's present, which is what the next change is appended to.

**Dashboard.** Three parties are related: a goroutine that ended well leaves a verified file
(`WorkInv`); the messages in flight and the fields of the dashboard tell what the
operation has done (`ResultInv`); and of a waiting reader, an event in flight and the
end of the events there is at most one, the last only when the closed channel is empty
(`TokenInv`). Each property follows from what `Update` requires before it quits.

**Daemon.** `Quiet` makes the properties inductive: as long as main waits and no signal has
come, nothing was cancelled, so that whatever has returned, sent or not, has returned
of itself; and main leaves for the hooks only after the delay or with a component to
blame (`Left`).

**Log shipping.** The generation an installation writes is a new one, never the selected one
(`InstallationOK`), and what the process remembers is what the directory was left with
unless an installation is pending (`MemoryOK`).

**Gateway.** `HandoffForward` and `ReadyServes` are about one step; what they need is what a script
or setup learned in earlier ones. A script that is about to detach an attachment knows its
owner, and that the owner is of no newer generation than itself; if the attachment has
been replaced meanwhile, detaching it does nothing (`ScriptOK`). Setup waits for the
generation it stamped, of which it has seen an instance in service (`WaitOK`), and no
instance is of a generation that the interface has not had (`Stamped`).

**Commands.** A lock is broken by its identity, and a teardown may remember an identity while
engines come and go. `LockInv` therefore says of the lock and of every identity a teardown
remembers that it is spent (`Spent`): the command it names has left the engine run it
names behind, or is in it; an engine at work holds the lock, and no identity that is
about to be used is that of an engine at work. From this `OneEngine` follows. `InfraInv` says
that whatever exists has a state and saved variables, because setup saves the variables
before its engine runs and destroy deletes them when nothing exists; the second half needs
`Undisturbed`. `TrustKept` needs only that a stored key is not replaced until a destroy
deletes it (`TrustInv`).

**Authority.** Two invariants. `EnsureInv` assumes nothing about time: what a leader is about
to write is a regular state that keeps every certificate of the state it read, except one
that was retired for its overlap (`Kept`), and whose issuer is the same or was published
(`Writable`). Since the write is conditional, this is what happens to the durable state, which
is `CertificatesKept`, and `PublishedFirst` follows. `AttendedInv` bounds the rest by the clock
while the authority is attended. Every iteration read its time within the last step
(`Recent`) and writes what `Ensure` makes of the state at that time. The state has at most
two certificates, as `docs/spec.md:220` says, each with the dates of its place (`Sound`); a successor is appended before the last
`Retention` of its issuer and promoted when it is due (`OnTime`). Every node has the
certificates that may have issued, unless they are younger than its last synchronization
(`Informed`, `Unseen`), and the certificate behind an unexpired leaf is not pruned before the
leaf expires (`Backed`). `LeavesTrusted` is the meeting of the last two, and
`DurationAssumption` is what makes them meet: `Lag` is longer than a node can lag behind,
and `Retention` longer than a leaf can live.

The inductive invariants, and the proved properties that section 5 does not list
(`TypeOK`, `OneSnapshotPerVersion`, `AppliedWasDurable`, `NobodyAhead`, `DurableFenced`,
`SentByOwner`, `EventsApplied`, `NoEventsRemain`, `SignalIsClean`), were model-checked on
the instances of the runs.

**Only model-checked.** Liveness under fairness (`LeaderServes`, `RegistryConverges`,
`Converges`, `CommandReturns`, `Recovers`, `DaemonExits`, `CollectorCurrent`,
`EveryFlowRecovers`, `Settles`, and the second half of `ViewFollows`) is outside the proof
system, and so is `ENABLED`. What the computations of `ServiceTables`, `Subnets` and
`Manifest` return for every input would need induction over sequences, which the provers
cannot do; they use folds and are checked over bounded inputs (`TablesExact`, `PlansFree`,
`SubnetsKept`, `ManifestsAgree`). `Streams` has no safety property of its own: what it adds
to `Coordinator` is that its nodes come to agree. No module uses `RECURSIVE`.


## 8. Findings

Five runs show a disagreement between the code and a line of its documentation:

* **A leader that can no longer publish** (run `persist`). `publish` takes its next
  revision from the applied snapshot and demands that the durable revision be one
  below it (`coordinator.go:449`). If the conditional write took effect but
  `publish` returned an error (the answer was lost; or the dataplane returned an
  error for a snapshot without Services, which is not fatal), the durable
  revision already is the one the leader will compute again. Every later
  `publish` of this leadership returns `durable service revision changed during
  publication`; `Run` ignores the error, `leaderReady` stays true, and nothing
  reads the durable snapshot back. `docs/spec.md:254`: "The leader persists
  deterministic snapshots to `dns/services.pb`". A new leadership or a restart
  repairs it.
* **A ready backend dropped by re-registration** (run `readiness`). `registerLocal`
  sends a Hello and then a NodeState through `handle`; the Hello replaces the
  registry entry and with it the reported state (`coordinator.go:317`). A publish
  for another stream between the two persists and broadcasts a snapshot without
  the backends of the leader's node although its Pods are ready; the NodeState's
  own publish brings them back. `docs/spec.md:252`: "readiness alone controls new
  Service flows".
* **A mixture that reports healthy** (run `retry`). A round that fails between its
  renames, or in its cleanup, leaves `r.deployments` as the round before it. When the
  index then returns to that earlier state, `unchanged` holds for a Pod whose file was
  already replaced, nothing is written, and the round reports healthy
  (`reconciler.go:165`). `docs/spec.md:262`: "failures report unhealthy and converge on
  retry". `HealthyConverged` and `MountsReady` hold for every Pod
  that no failed round has written since the last publication (`torn`).
* **An image index that lost a manifest** (run `nested`). `appendIndexChildren` adds no
  descriptor for a nested manifest that a kept descriptor already lists
  (`publish.go:351`), although that may be the descriptor of another tag. When that tag
  is pushed again with another digest, `mergeIndexes` drops it with the rest of the tag,
  and the image index that still names the manifest has no descriptor of it any more.
  `docs/spec.md:126`: "The published top-level index also contains every nested manifest
  descriptor so the read-only registry can resolve digest requests before reading blobs."
  It takes a tag that names a plain manifest, which `push` accepts. The attempt to prove
  `NestedListed` inductive led to it; what holds is that a write lists all that lies below
  the image it names (`OneTagChanges`). For `mirror/`, `Mirrored` looks at every nested
  descriptor before it answers and repairs the index (`EnsuredFetchable`).
* **A variables file that teardown keeps and cannot use** (run `torn`). `Prepare` writes
  `podmin.auto.tfvars.json` in place (`engine.go:153`), and `Restore` fetches the copy in the
  bucket only when there is no such file (`restore.go:30`). A setup that is killed inside
  this write leaves a file that the infrastructure tool does not read, and a teardown of what an earlier
  setup created keeps it and fails. `docs/infra.md:23`: "An interrupted setup can
  therefore be removed with `podmin teardown`." Another setup, or the removal of the file,
  repairs it: what exists stays in the state and its variables stay in the bucket
  (`InfraRemovable`, which is checked and proved with such writes).

The properties of the other runs hold under conditions that come from the code and
that the models make visible. Each of these was met as a counterexample when the
condition was lifted:

* *Change notifications* (`coordinator.go:158`). `Run` remembers the digest it read, while
  `applyLocalTransition` programs the contract of that moment. A contract that moves on
  in between and returns is not programmed again before the next snapshot.
* *Identity generations* (`filesystem.go:184`). Cleanup keeps the most recently modified
  other directory, which after superseded rounds can be one no Pod ever used.
  `MountsReady` is about the selected generation only.
* *Long outages of the authority* (`workload.go:219`). A pending certificate is appended
  whatever the state holds, so an outage of about eleven months between pending and
  promotion makes a bundle of three; `docs/spec.md:220` says "at most two". `StateAccepted`
  and `NeverExpires` are promised until the first outage (`Attended`).
* *A shared cache* (`publish.go:52`). `Push` uploads the blobs it finds and reads the local
  index afterwards; a command that caches an image in between is published without its
  blobs. `IndexFetchable` has a cache for each publisher, and its proof assumes it
  (`OwnCaches`). A cached push does not validate the cache, so a decayed blob is only possible where `Validate` comes first (mirrors).
* *Two operators* (`setup/dependencies.go:340`). Cleanup deletes by key from its listing,
  also what another operator's setup has uploaded again. `Dependencies` has
  one operator, and its proofs assume that setups follow each other (`OneSetup`).
* *A restart that is due* (`telemetry.go:106`) is remembered in memory only; with a server
  CA alone an agent that ends before it does not restart the collector. With mutual TLS
  (`MTLS`) the first pass of the next agent does.
* *A command beside a destroy* (`destroy.go:76`). The lock protects the engine's state, not the
  bucket it lies in: a setup that starts when the engine of a destroy is done applies while
  the bucket is emptied, and what it creates has no state. `InfraRemovable` is checked for
  one process with all commands and for two without destroy, and proved as long as no
  command runs beside a destroy (`Undisturbed`).
* *A setup after an incomplete destroy* (`destroy.go:64`). Destroy deletes the key of the
  workload authority before the bucket. A setup in between makes another key beside the
  `identity/ca.json` of the old one, which `Ensure` then refuses. `TrustKept` speaks of
  the time until a destroy has begun (`unfinished`).
* *A subnet of another owner with the Name of a group* (`compute.go:282`). `Network` takes a
  subnet for a node group's own by its tags or by the Name `podmin-<cluster>-<group>`,
  whoever owns it, and of several the one that EC2 lists last. The subnets of a cluster
  `podmin-c` bear the names that cluster `c` looks for, and so may another owner's in a
  shared VPC. A setup of `c` then plans a range that is in use, or replaces a
  subnet of its own by it. `PlansFree` and `SubnetsKept` hold apart from such a subnet
  (`Mistaken`), which both instances contain.
* *A watcher that outlives its collection* (`activation_linux.go:184`). `close` waits two
  seconds for its watcher and goes on without it. It sets the map of links to nil,
  unlocks, and closes the objects; a refresh in between attaches the program again and
  ends the process when it enters the link (`Panic`). The links end with the process, so
  `OnlyCurrentServes` holds, and `NoGap` speaks of processes that go on.
* *A failure before all components are scheduled* (`daemon.go:305`). A DNS server that is
  stopped before it started does not remember it and listens for ever. `DaemonExits` is
  checked with `EarlyFailures = FALSE`.
* *Names that YAML reads as another type* (`manifest.go:261`). `Init` prints the name of a
  Service unquoted; `true` or `2026` is then refused. The options of `MCManifest` do not
  contain such names.
* *A second setup during a handoff, or failed calls of a rollback* (`nat64.sh.tftpl:86`). When
  the refresh is then abandoned too, nothing serves the interface until the next setup.
  `Recovers` is checked with one setup and without failed calls.

## 9. What is not modelled

* **Computations on data**: selector matching, digests, VIP derivation, DNS answers and the
  encoding of messages, certificate construction and verification, checksums and header
  rewriting of packets, version resolution and package indexes of dependencies, user
  data and option validation. They are sequential, have no reference definition that
  differs from the code, and are the subject of unit tests.
* **Reads and presentation**: the image registry (it serves what `Images` publishes), image
  and instance-type lookups, listing, progress rendering, contexts beyond their
  existence, secrets (one provider call for each command), the documentation site.
* **Libraries and services** are modelled from how the code uses them: `s3lect` (any agents
  may believe they lead at any time, which is weaker than what it promises), S3, EC2 and
  Auto Scaling, the infrastructure tool, the kubelet, Bubble Tea, systemd, the Linux
  route table and BPF maps. Multipart upload, gRPC transport and go-containerregistry are
  not.
* **Situations the models leave out**: two first setups that both create a VPC, or
  two clusters that do so at once; a destroy repeated after the bucket is gone (disconnect removes the context); engines
  on other machines when a lock is broken; the variable that setup and the
  goroutine of an interrupted dashboard share until the process ends; a default zone that
  moves because the first zone became unavailable (`SubnetsKept` excuses it); a NodeGroup
  one node of which never reconciles and keeps refusing the others.
