# Verification of cluster-api-provider-cloud-director-tenant

TLA+ models of the two controllers of this Cluster API infrastructure provider,
of their composition, of the VCD client cache they share and of the configuration
they write to a VM; the TLC runs that check them; an abstract lifecycle that the
cluster controller implements; and TLAPS proofs about each of them.
`PROJECT.json` lists components, runs, mutants, the map from definitions to source
lines, findings, hazards and theorems.

## Inventory

The provider is one process with two controllers (one replica, one worker per
controller) between the Kubernetes API server and VMware Cloud Director (VCD).

| Part | State | Operations | Talks to |
|---|---|---|---|
| Cluster controller (`controllers/clouddirectortenantcluster_controller.go`) | the CloudDirectorTenantCluster: finalizer, endpoint, Status references, Ready, conditions | `Reconcile`, `reconcileDelete`, `patchTenantCluster`, watches | API server, VCD (IP set, ALB pool, virtual service, vApp), owner Cluster, Machines |
| Machine controller (`controllers/clouddirectortenantmachine_controller.go`) | the CloudDirectorTenantMachine: finalizer, ProviderID, Addresses, Ready, conditions | `Reconcile`, `reconcileDelete`, `patchTenantMachine`, watches | API server, VCD (VM, IP set), the tenant cluster's Status, owner Machine and Cluster |
| VM configuration (`diskSectionFromTenantMachine`, product section and spec updates) | disks, memory, CPUs and properties of the VM | repeated by every retried reconcile | machine controller, VCD |
| Cloud-init (`util/cloudinit`) | none | chooses the IP scope of each connection | machine controller |
| Client cache (`util/clientcache/clientcache.go`) | LRU of ten VCD clients keyed by a hash of the credentials, a mutex | `GetVCDClient` | both controllers, Secrets, VCD sessions |
| Client cache metrics (`util/clientcache/metrics.go`) | gauges | `CollectMetrics`, every tick of a goroutine of `main` | client cache without its mutex, VCD |
| Names (`util/nameutil`), errors (`util/vcdutil`) | none | pure functions | controllers |
| API types, CRDs, manifests, `main.go` | none | declarations and start-up | |

What is hard about it:

- **Stale reads.** A reconcile works on an informer cache that may be older than
  its own last patch; the two controllers cache the tenant cluster and its
  Cluster separately.
- **Split writes.** The result of a reconcile is written by three patches, each
  of which may fail, or the process may die between them.
- **Remote calls.** A call may fail, take effect and still report an error, or
  leave a task running that nobody waits for. Some errors are not looked at and
  leave nil pointers behind. A panic runs the deferred patch and then ends the
  process, which starts over.
- **Check, then act.** Machines are counted, addresses picked and IP set members
  read some calls before the result is used.
- **Waiting.** Some early returns requeue and some rely on a watch.
- **Shared client cache.** A login holds the mutex for as long as VCD takes; the
  collector reorders the LRU list without the mutex; tokens expire meanwhile.
- **Repetition.** A retried reconcile computes disks and properties from what the
  failed one left on the VM.

`PROJECT.json` lists these hazards line by line with the properties that cover
them.

## Modules

| Module | What it is |
|---|---|
| `TenantCluster` | the cluster controller, its API server object, cache, queue and VCD resources |
| `ClusterLifecycle` | what the cluster controller promises: phase, readiness, resources and Machines, without reconciles, caches or failures |
| `TenantCluster_proofs` | theorems about `TenantCluster`, with stale reads |
| `TenantCluster_refinement` | `TenantCluster` implements `ClusterLifecycle` |
| `TenantCluster_fresh_proofs` | theorems about `TenantCluster` with reads that are up to date |
| `TenantCluster_visible_proofs` | what the machine controller can rely on of `TenantCluster`, with stale reads |
| `TenantMachine` | the machine controller for the machines of one cluster |
| `TenantMachine_proofs` | theorems about `TenantMachine` |
| `Provider` | both controllers over one informer cache, one VCD and one process |
| `Provider_proofs` | theorems about `Provider`; the theorems about its components carried over |
| `ClientCache` | `GetVCDClient` and the metrics collector on one LRU cache |
| `ClientCache_proofs` | theorems about `ClientCache` |
| `DiskSection`, `CloudInit` | the disk section and the choice of IP scopes, as operators |
| `VMConfig` | reconciles that write properties, memory, CPUs and disks to a VM, fail half-way and are repeated; uses `DiskSection` and `CloudInit` |
| `VMConfig_proofs` | theorems about `VMConfig`, lemmas about `DiskSection` and `CloudInit` |
| `MCTenantCluster`, `MCTenantMachine`, `MCClientCache`, `MCVMConfig` | instances for TLC (symmetry sets, credentials, VM instances) |

### How state and actions correspond to the code

A reconcile is a walk of `pc` through stages named after what comes next. One
action is one call the outside world can see, with all of its outcomes as
disjuncts; environment steps, the other cluster's events and a crash may fall
between any two. (`ResetWorker` only drops the locals of a finished reconcile.)
`obj` is the reconcile's in-memory object, `orig` the copy the patch helper took, `seen` the informer cache, `tc` (`tm`) the stored object.
`Return(o, again)` is a `return` of `Reconcile`, where `again` is TRUE for an
error and for `RequeueAfter`; it starts the deferred patch, which is
`PatchConditions`, `PatchSpec`, `PatchStatus` and `Finish`. A merge patch sends
what changed between `orig` and `obj`. After `Panic` the deferred patch runs as
well, but `Die` follows in place of `Finish` and restarts the process.

In `TenantCluster` the stages are those of `Reconcile` from top to bottom
(`Connect`, `AllocateAddress`, `EndpointReady`, `EnsureIPSet`, `EnsurePool`,
`EnsureVirtualService`, `EnsureVApp`, `AttachNetwork`, `PowerOnVApp`, `Record`)
and of `reconcileDelete` (`DeleteGate`, `DeleteConnect`, `DeleteVirtualService`,
`DeletePool`, `DeleteIPSet`, `DeleteVApp`). `nilRefs` holds the pointers that a
failed lookup left nil. `res`, `vip`, `ips` and `vAppSetup` are what exists in
VCD. `ClusterEvent` is the watch on the owner Cluster. The machine controller
appears as the environment steps `JoinIPSet`, `LeaveIPSet` and `RemoveMachine`.
`ClusterLifecycle` is instantiated with `phase` and `ready` taken from the stored
object, and `res` and `machines` as they are.

In `TenantMachine` the stages are `Gates`, `Connect`, `LookupVM`, `WaitAdd`,
`ReadInputs`, `SetComputerName`, `SetUserdata`, `UpdateSpec`, `PowerOn`,
`ReadIPSet`, `JoinIPSet`, and on deletion `DeleteConnect`, `DeleteReadIPSet`,
`LeaveIPSet`, `DeleteVM`. `vm[m]` is the set of things done to the machine's VM,
`addTasks` the AddNewVM tasks that VCD runs, `abandoned` a history of those that
the controller stopped waiting for. The cluster controller appears as `BuildVApp`,
`RecordInfrastructure`, `RemoveVApp` and, through Cluster API,
`SetInfrastructureReady`; `vApp` tells how far it got with the vApp, which it may
leave without a network.

`Provider` instantiates both modules and lets each take the other's place in the
environment. The machine controller reads the tenant cluster from the cluster
controller's informer cache (`tcSeen`); the IP set is one variable; the state of
the vApp follows from `res` and `vAppSetup` (`VAppState`), and its removal takes
the VMs and running tasks in it along; a panic or a crash restarts both workers.
Cluster API creates a control plane Machine only when the infrastructure is
ready, and removes it once the tenant machine is gone.

In `ClientCache`, `lru` is the sequence of entries from least to most recently
used. The key of an entry is `Sum[Written(c)]`: url, token and organization, written
one after the other without a separator, and an arbitrary hash of that, of which
nothing is assumed. A worker reads the Secret, waits for `mutex`, looks up, and on a
miss logs in, computes the time to live and adds, all with the mutex held. The last
two each read the clock: time may pass between them, and then the entry outlives the
token by that much, as in the code. The collector lists the keys and then gets one
client after another, each followed by a request to VCD. `snapshot` and `stayed` are
history variables for `CollectionTransparent` and `GaugesComplete`.

In `VMConfig` a reconcile goes from `read` through `props` and `spec` to `power`.
Each write may fail with or without effect, and the next attempt starts from the
VM as it is, possibly with renewed bootstrap data. A product section list without a
product section panics (`NilSectionPanics`). The code goes through all
scopes and lets a later match replace an earlier one, hence `ScopeOf` is the last
scope that covers the address. `MetadataFromReference` compares this, and the
errors on the way, with a definition by membership.

Abstracted: names (resources are identified by kind and cluster), IDs, addresses
(one model value per address; a machine stands for its address), condition
reasons and messages, logging, delays (a requeued key is in the queue at once),
the text of the cloud-init template (metadata is the sequence of chosen scopes),
the Ready summary condition, the bus number of a disk (the disks of a section are
all on the bus of the first one; `UnitsDistinct` is stated as if every disk were).

Assumed of VCD: a create or delete call that reports an error may have taken
effect; a virtual service is refused on an address in use; AddNewVM is refused
while a task adds a VM of that name; a VM exists from the end of its task.
Whether VCD accepts a power-on of a running VM is the constant
`RunningAccepted`, and runs take both values. A disk section without disks is
accepted. A VM is deleted whether or not it runs: the code calls Delete without
powering it off, and if VCD refused that, no deletion of a running machine would
end. A list without product section is a failure that stops at some time; a VM that
never has one makes the manager panic at every attempt. Any unused address may be
the one that is allocated, where the client library takes the first one; a second
allocation gives another one only if the gateway's use has changed in between.

Assumed of Cluster API: Machines are added only while the tenant cluster is not
being deleted (`AddMachine`), since Cluster API deletes it after the Machines of a
deleted Cluster; and the Machine list that `reconcileDelete` reads is up to date.
So the models do not have the race in which a Machine appears after
`reconcileDelete` counted none, and no property speaks of it.

## Runs

| Run | Checks | Bounds |
|---|---|---|
| `cluster_fresh` | `TypeOK`, `GoneIsClean`, `EndpointServed` | 1 cluster, 1 machine, 2 addresses, 2 faults, 1 crash, reads up to date |
| `cluster_stale` | `ReadyHasResources`, `DependencyOrder`, `NoResurrection`, `TeardownAfterMachines`, `ImplementsLifecycle` | the same, reads arbitrarily stale |
| `cluster_live` | `EventuallyReady`, `DeletionCompletes` | the same with 1 address and stale reads |
| `cluster_pair` | `ReadyEndpointsDistinct` | 2 clusters, 2 addresses, no machine, no fault, no crash, reads up to date |
| `cluster_no_identity` | `NoPanic`, violated | no fault, no crash |
| `cluster_stale_endpoint` | `EndpointServed`, violated | stale reads, no fault, no crash |
| `machine_stale` | `TypeOK`, `BootConfigured`, `ReadyRuns`, `NoOrphanVM` | 1 machine, control plane or worker, 1 fault, 1 failed patch, 1 crash, stale reads |
| `machine_pair` | `GoneLeavesIPSet`, `MembersKept` | 2 control plane machines, 1 fault |
| `machine_live` | `EventuallyReady`, `DeletionCompletes` | 1 machine, 1 fault, 1 crash, stale reads, VCD refuses to power on a running VM |
| `provider` | `NothingLeftBehind`, `ControlPlaneReachable`, `ServesMachines`, `ServesCluster`, `DeletionCompletes` | 1 cluster, 1 control plane machine, 1 address, 1 crash, no fault, reads up to date |
| `client_cache` | `TypeOK`, `ClientMatchesCredentials`, `OneLogin`, `GaugesComplete`, `CollectionTransparent`, `EveryCallReturns` | 2 workers, 4 credentials (one a rotated token, two with one hash), 2 clients, tokens that expire with the time unit they are issued in, clock up to 1 |
| `vm_config` | `DisksAsSpecified`, `UnitsDistinct`, `DiskPanicNeedsNegativeSize`, `PropertiesCurrent`, `MetadataFromReference`, `RetryIsStable` | 3 template and 2 additional disks, 2 connections, 2 scopes, 3 properties, 2 contents of the bootstrap secret, 2 retries |

Why the bounds are enough. Clusters touch each other only through addresses,
and machines of a cluster only through the IP set, so one object shows every
behaviour of its own and two show the sharing. Two addresses allow a second
allocation to differ from the first. One fault reaches every error path; two
let a nil pointer, or a half-done step, meet a second failure. A panic restarts
the process without using up the crash bound. The proofs below remove the bounds
for every safety property of the passing runs except `CollectionTransparent`.

In `provider` the crash, which may fall anywhere, leaves every half-done state
behind that a failed call would; failed calls themselves are in the runs of the
components. The four credentials have three hashes, which exceed the capacity of
two, so that entries are evicted; the clock can advance at every place of a login,
which makes the token expire before its time to live is computed, or the entry
outlive it. The instances of
`vm_config` vary disks, networks and properties separately, because the three
writes do not read each other's data; ranges include adjacent, overlapping,
one-address and unparsable ones, and sizes zero and negative ones, which the CRD
admits.

Deadlock is checked in `client_cache`. Elsewhere it is not: once every object is
gone and every bound used up there is nothing left to do, and in `VMConfig` the
attempts are bounded.

### What the runs show

- Readiness, the order of dependent resources, deletion after the Machines and
  no creation for a gone object hold in spite of stale reads, lost or half-done
  calls, panics and crashes.
- `GoneIsClean` and `EndpointServed` need reads that are up to date. The run
  `cluster_stale_endpoint` shows the endpoint replaced under a running virtual
  service when they are not; `GoneIsClean` is likewise false with stale reads.
- `ImplementsLifecycle`: every step of the cluster controller, with faults, panics
  and stale reads, is one that the abstract lifecycle allows. The lifecycle itself
  has no caches, so this is also the list of what stale reads may do: a resource
  may still be built while the object is being deleted, never after it is gone.
- Two clusters may be given one address, because an unused address is not
  reserved; at most one of them gets ready with it (`cluster_pair`), and the other
  one keeps an endpoint that is not its own. This is recorded as a finding.
- A cluster object without identity reference or owner can be created but takes
  the manager down when it is deleted (`cluster_no_identity`).
- A machine may stay unready for ever in three ways: its ProviderID was recorded
  without its address (`HalfRecorded`), its VM runs without a recorded ProviderID
  where VCD refuses another power-on (`RunningUnrecorded`), or the vApp was left
  without a network (`vApp = "bare"`). `EventuallyReady` shows that there is no
  fourth among the failures that stop. (Those that do not, such as a VM without a
  product section, are assumptions above.) `NoOrphanVM` likewise names the only
  way in which a VM outlives its object.
- In the composition such a VM, or task, goes with the vApp (`NothingLeftBehind`).
  With reads up to date, a deletion of a cluster gets stuck in one way only: an
  address that a crash left in the IP set and in no Status stays there, and keeps
  the IP set from being deleted.
- Ready on a control plane machine means that the published endpoint leads to it
  (`ControlPlaneReachable`): the VM runs and its address is in the IP set, which
  are the machine controller's doing, and the pool and the virtual service on that
  endpoint are still there, which are the cluster controller's, also while the
  cluster is being deleted. With stale reads the endpoint may be another one (as
  in `cluster_stale_endpoint`), and the rest holds.
- An IP set with addresses ends a deletion without a requeue. Where an address
  leaves the set only after its Machine is gone (a stale reconcile of the tenant
  machine can do that), nothing wakes up the cluster controller again, hence the
  premise of `DeletionCompletes` in `TenantCluster`. The informers' periodic
  resync, ten hours by default, is not modelled.
- `ServesMachines` and `ServesCluster` show that the environment steps of the two
  component modules cover what the other controller really does. This is what lets
  the theorems about the components carry over to the composition.
- The metrics collector makes every client the most recently used one, without
  the mutex; because it goes through them from least to most recently used, the
  order in which clients are evicted stays the same unless a worker comes between.
  Workers that come between evict clients that it has listed, and it goes on to the
  next: no client that stays is left without its gauge (`GaugesComplete`). A request
  that fails ends the collection, and the rest has no gauge until the next one.
- A cached client is handed out for other credentials than its own only if the hash
  of their fields, written together, is the same (`ClientMatchesCredentials`). The
  fields are not separated, so that this does not take a collision of the hash
  function: two Secrets which split the same text in different places share a client.
- A spec with a negative DiskResourceMiB and no additional disks is the only one
  that lets the disk section panic. With DiskResourceMiB unset, each repeated
  update renumbers the additional disks, hence the premise of `RetryIsStable`.
- The unit test "test disk resource" expects a resized disk without adapter type,
  the code keeps the adapter type of the template; "test additional disk" expects
  none of the thin provisioning that the code asks for (a finding, without a run).

### Fairness

`FairSpec` assumes that the worker goroutine keeps going (WF on its steps inside
a reconcile), that a queued key is taken in the end (SF on `Reconcile`, since the
worker is busy with other keys in between and the work queue is first come, first
served with delays), that informers deliver every change, and in `TenantMachine`
that VCD ends every task and that the cluster controller's Status reaches the
cache. `FairSpec` of `Provider` assumes this of both workers (WF is enough for the
one key of the cluster controller), and of Cluster API (`ClusterAPI`) that it sets
the owner of a tenant machine, deletes the machines of a deleted cluster and
removes a Machine after its tenant machine. `ClientCache` assumes that a worker
which waits for the mutex gets it in the end (SF on `Lookup`: `sync.Mutex` has a
starvation mode) and that every request to VCD ends; the collector is not fair.
Users, failures, panics and crashes are not fair; failures are bounded in number, which stands for "failures stop at some time".

## Proofs

Every theorem holds for all values of the constants: any clusters, machines,
workers, credentials, templates and specs, any bound on failures, crashes and
attempts, and, unless it says otherwise, fresh or stale reads. The assumptions are
the ones named in the modules: sentinels are not members of the sets, bounds are
natural numbers, flags are Boolean, and in `VMConfig` the instances are what the
API and VCD can hold (`InstanceAssumption`: the template has a disk, the first one
boots, its unit numbers and its property keys are different). TLC evaluates them
in every run.

None of the safety properties is inductive, because what a step may do depends on
what the reconcile found out some calls earlier, from a cache that may be stale.
Each proof module therefore states an inductive invariant, proves that `Next`
preserves it with one step per action, and derives the properties from it; action
properties examine each step from a state that satisfies the invariant.

### `TenantCluster_proofs`

`TypeCorrect`, `Invariance`, `DependencyOrderHolds`, `ReadyHasResourcesHolds`,
`NoResurrectionHolds`, `TeardownAfterMachinesHolds`. `IInv` adds to `TypeOK` and
`DependencyOrder`:

- `CacheInv`: what the cache and the stored object can say of each other, for
  example that an object the cache has as deleting is not live any more;
- `WorkerInv`: the same for the worker's copy, so that a reconcile which
  provisions works on an object that is not gone, and one which deletes on an
  object that is not live and, from `deleteConnect` on, has no Machines;
- `StageInv`: the resources that exist at each stage of provisioning, unless
  their pointer is nil, and the recorded ones that are gone at each stage of
  deletion.

The lemmas are grouped by what a group of actions never does (`ProvisionKeeps`,
`DeleteKeeps`, `StartKeeps`, `RestartInv`, `PatchInv`).

### `TenantCluster_refinement`

`LifecycleRefinement`: `Spec => ImplementsLifecycle`. The abstract `Publish` and
`Release` are allowed only in certain states, and the controller reaches them by a
patch, long after it looked. `LInv` therefore adds `OwnershipInv` to `IInv`: an
object whose finalizer is not stored owns nothing in VCD; a reconcile that is about
to remove the finalizer has seen no Machine, and none comes; Ready is never taken
back, and set only with all four resources there. Each action then maps to one
abstract action or a stutter.

### `TenantCluster_fresh_proofs`

`GoneIsCleanHolds`, `EndpointServedHolds` and `ReadyEndpointsDistinctHolds`, each as
`Spec => [](FreshReads => ...)`, because stale reads refute the first two (see
`cluster_stale_endpoint`), and with them the argument for the third. `FInv` adds to
`LInv` that no two virtual services share an address (`VipInv`) and, with fresh
reads, that the stored references and endpoint stay the ones that the reconcile
read until its own patches, that deletion has removed all that it refers to before
the finalizer goes, and that an address is allocated only for an object without one
and not used before it is stored (`FreshCopy`).

### `TenantCluster_visible_proofs`

`VisibleInvariance`. The machine controller reads the tenant cluster from a cache
and works in a vApp that the cluster controller makes and removes. `VisibleInv` is
what it can rely on, with stale reads too: nothing is recorded in Status before
identity and control plane were in the cache; no reference is recorded without the
one to the vApp; a recorded vApp that is missing was removed by a `reconcileDelete`
whose cache had both the deletion and the reference; and a cluster that got ready
keeps all its resources while it has Machines. It is inductive only together with
`FInv` and with `CopyInv`, which says the same of the copy that a reconcile works
on: `Record` writes references that were looked up some calls earlier, and the
vApp behind them must not have gone meanwhile.

### `TenantMachine_proofs`

`TypeCorrect`, `Invariance`, `BootConfiguredHolds`, `ReadyRunsHolds`,
`NoOrphanVMHolds`, `MembersKeptHolds` (an action property) and, for fresh reads,
`GoneLeavesIPSetHolds`. `IInv` has the parts

- `CacheInv`: as above, and that what a live machine's object or its cached copy
  records (ProviderID, Ready) is true of its VM, which a VM never loses while the
  machine lives;
- `VCDInv`: a VM that a task still adds does not exist, and somebody waits for that
  task or it is abandoned; nothing is done for a machine before its finalizer is
  stored and the vApp is recorded. Without this a machine could go without
  `reconcileDelete` and leave a VM, so that `NoOrphanVM` would not be preserved;
- `WorkerInv`: a reconcile that builds holds a finalizer that is stored, and one
  that lets an object go has seen the VM gone or its task abandoned;
- `StageInv`: what was done to the VM at each stage, which gives `BootConfigured`
  at `powerOn`; and that the list of members read for `JoinIPSet` and `LeaveIPSet`
  is still the IP set, since the one worker is its only writer. This is
  `MembersKept`.

### `Provider_proofs`

`Invariance`, `ServesClusterHolds`, `ServesMachinesHolds`, `NothingLeftBehindHolds`
and `ControlPlaneReachableHolds` (both for fresh reads), `ReadyServedHolds` (what
is left of the latter with stale reads), and, carried over from the components,
`ClusterKeepsPromises`, `MachinesKeepPromises`, `StepsKeepPromises` and
`LifecycleRefinement`. They hold for any number of control plane machines,
addresses, failures and crashes, under the assumptions of `Provider`, from which
those of the two components follow (`ClusterAssumptions`, `MachineAssumptions`).

`PInv` is the invariants of both components (`VInv` for the cluster; `IInv` and
`FreshInv` for the machines) and `LinkInv`: Machines exist only for a cluster that
got ready; every tenant machine has its Machine; without a vApp there is neither a
VM nor a task, and without an IP set no address. Neither component's invariant can
say this, because each has the other as an environment with fewer variables.

The argument is one of assumption and guarantee. From a state with `PInv`, each
step of `Provider` is shown to be, for either component, one of its own steps, one
of its environment steps, or a stutter (`ServesClusterStep`, `ServesMachinesStep`);
so each component's own lemma (`NextVisible`, `NextInv`, `NextFresh`) gives its part
of `PInv` in the next state, and what it proves of its steps holds of the steps of
`Provider`. The hard steps are those of the cluster controller as the machine
controller sees them. Its removal of the vApp, for which `TenantMachine` wants every
tenant machine gone, comes several calls after `reconcileDelete` counted the
Machines: `TeardownAfterMachines` and `LinkInv` give it. And a delivery of the
tenant cluster to the cache may change `tcRefs` and `vApp` at one time: `VisibleInv`
says which changes are possible. A panic of one controller restarts the other one
in the middle of a reconcile, which is no action of the other's module, hence the
second disjunct of `ServesMachines` and of `ServesCluster`.

`Provider_proofs` instantiates the proof modules with the substitutions that
`Provider` uses for the models; `SameCluster` and `SameMachines` show that both
instances define the same initial states and actions.

### `ClientCache_proofs`

`TypeCorrect`, `Invariance`, `ClientMatchesCredentialsHolds`, `OneLoginHolds`,
`GaugesCompleteHolds`, for every hash. `IInv` says that every entry stands under the
hash of the credentials its client logged in with (`Genuine`); that while a worker
logs in no entry has the key it will add (`LoginInv`), which takes the mutex, and
holds although the collector reorders the list without it; and that a key which has
been found ever since the collection began has its gauge or is still to come
(`CollectorInv`): the collector skips a key only after `Get` found it gone, and the
keys it starts from are all that can be found (`ListKeysProperties`). `Others`, `Live`
and `Found` are written position by position, since the prover cannot reason about
`SelectSeq`, which is recursive.

### `VMConfig_proofs`

`Invariance`, `DisksAsSpecifiedHolds`, `UnitsDistinctHolds`,
`DiskPanicNeedsNegativeSizeHolds`, `PropertiesCurrentHolds`,
`MetadataFromReferenceHolds` and the action property `RetryIsStableHolds`. Lemmas say
what the pure functions compute for every input: the section (`SectionProperties`,
`SectionDistinct`, `SectionEmpty`), that a section computed from a section is the
same one (`SectionStable`), the choice of scopes (`ScopeOfCovers`,
`CloudInitReference`) and a property that is set (`SetPropertyResult`). `IInv` says
that with a size asked for the disks are the template's or one section for ever
(`DiskInv`), and that after `SetProductSectionList` the entries are those of this
reconcile, with each key once (`PropInv`).

### Only model-checked

- The liveness properties (`EventuallyReady` and `DeletionCompletes` of the
  controllers, `DeletionCompletes` of `Provider`, `EveryCallReturns`): fairness
  and ENABLED are out of the prover's reach.
- `CollectionTransparent` of `ClientCache`: what a whole collection leaves of the
  list is a fold over the cache and needs induction over data.

## Not modelled

- Name collisions of VCD resources (`nameutil` without UIDs), Machines that appear
  while a tenant cluster is being deleted, a VCD that refuses to delete a running VM,
  and events lost because Cluster and tenant cluster have different names: each is an
  assumption of the modules and a hazard with a note.
- The steps and exits of the start-up in `main.go` and the registration of the
  metrics: they run once, in sequence, before anything that is modelled.
- The text of the cloud-init template; sessions that VCD ends before their token
  expires; a template without disks.
- Generated code, API declarations, manifests: they have no behaviour of their own.
- Two replicas of the manager: the deployment has one and no leader election is
  configured.

## Plan

The modules were written, checked and proved about in this order: the cluster
controller and its lifecycle, the machine controller, the composition, the client
cache, the VM configuration; then the proofs about the components, and last those
about the composition. All of it is done. What stays with TLC is listed under "Only
model-checked". Next would come a second cluster in `Provider`, which adds nothing
but the addresses that `cluster_pair` and `ReadyEndpointsDistinctHolds` are about,
and worker machines in it, which have no part in the IP set.
