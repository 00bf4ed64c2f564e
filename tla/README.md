# A TLA+ model of the MCP-Hangar operator

The operator keeps Kubernetes objects, core (MCP-Hangar's server, reached over
REST) and the network policies of a cluster in step with five custom resources.
What is hard to test in it is not one pass over one object. It is what happens
between the calls of a pass: another pass, a user's edit, a lost reply, a crash,
or an event that never comes. The modules here model the passes call by call, TLC
explores what can happen between the calls on small instances, and TLAPS proves the
safety properties for every instance. Liveness is model-checked.

## 1. The system

| Part | State it keeps | Operations | Talks to |
|---|---|---|---|
| MCPServer controller: registration (`mcpserver_registration.go`, `mcpserver_peer_identity.go`) | one Lease per server name (holder, endpoint, key-list digest, started), finalizer, conditions | claim, register, deliver a changed connection, move a discovered server, start, deregister, release | API server, core |
| MCPServer controller: workload, network policy, violations (`mcpserver_controller.go`, `mcpserver_deployment.go`, `mcpserver_ingress.go`) | Deployment, legacy Pod, NetworkPolicies, pod status mirror | apply, hand over, mirror, delete | API server |
| MCPEgressPolicy controller (`mcpegresspolicy_*.go`) | backstop NetworkPolicy or CiliumNetworkPolicy, finalizer, conditions | resolve targets, apply one flavor, delete the other, push L7 policy, clear on delete | API server, core, enforcement probe |
| MCPDiscoverySource controller (`mcpdiscoverysource_controller.go`) | MCPServers with its label and owner reference, finalizer, sync status | scan, filter, create or update, delete what is gone, clean up | API server |
| MCPServerGroup controller | aggregated status | count members | API server |
| Namespace egress controller | one NetworkPolicy per labelled namespace | apply, delete | API server |
| REST client (`pkg/hangar`) | none; repeats failed requests | one call per endpoint of core | core |
| Enforcement probe (`pkg/networkpolicy/enforcement.go`) | cached answer with a TTL | which CNI reads policies | API server |
| Builders (`pkg/networkpolicy`, `pkg/provider`) | none | spec to object | |
| Admission webhooks, start-up, leader check, metrics | none to speak of | | |

The parts meet in three places. They share the API server, whose optimistic lock
and watches are the only synchronisation there is. They share core's table of
server names, which is flat across the cluster while MCPServers are namespaced.
And one controller's writes are another's events: a discovery source creates the
MCPServers that the MCPServer controller registers and that an egress policy
targets.

What makes each part correct:

* **Registration.** A name has one owner. What the operator put into core it can
  find and remove again. It does not touch what others had put there before. A CR
  that can have its name gets it, and a deleted CR goes.
* **Egress policy.** When nothing is left to do, backstop and L7 policy are those
  of the present spec and targets. A change of flavor never passes through a moment
  without a backstop. A deletion clears what was pushed and is never wedged.
* **Discovery.** A sync reported as complete is complete: it read all it should
  and nothing else is left. A source settles, and leaves nothing behind.
* **Workload and namespace.** When nothing is left to do, the server's egress policy
  is the one its spec, its image pin and the namespace's label call for, the
  default-deny is there exactly while the label is, and the status tells what the pod
  is doing. Two pods of a server never start side by side, and a removed server
  leaves nothing running.
* **Server group.** A status is the work of one pass and, at rest, counts the members
  that are there.

Hard behaviour: several workers per controller and users in between
(interleaving); copies of a claim or a spec used after they may have changed;
replies lost after the call took effect; crash between two calls; caches with a
TTL; what brings a pass back (events, requeues, nothing). `PROJECT.json` lists
these as hazards, each at its line.

## 2. Modules

| Module | What it is |
|---|---|
| `Registration` | The claim protocol and core's entry for one server name |
| `NameOwnership` | What the protocol promises, in three variables; `Registration` refines it |
| `RegistrationProofs` | TLAPS proofs about `Registration` |
| `EgressPolicy` | Egress policies, their targets, both backstop flavors, the gateway and the work queue |
| `DiscoverySource` | Discovery sources, their scans, the servers they manage and the work queue |
| `ServerGroup` | One group, the copy of it in the informer's cache, and the servers it selects |
| `Workload` | The pass over one container-mode server: fence, egress policy, violations, Deployment, status, deletion |
| `NamespaceEgress` | The namespace controller and its default-deny policy |
| `GovernedNamespace` | `Workload` and `NamespaceEgress` composed over one namespace label, with the properties of both |
| `EgressPolicyProofs`, `DiscoverySourceProofs`, `ServerGroupProofs`, `GovernedNamespaceProofs` | The inductive invariants of the four modules and the TLAPS proofs |
| `MC...` | Symmetry sets and instances for TLC |

In all of them, **one action is one call** to the API server or to core, together with
the local code up to the next call. `pc` names the call a pass makes next; the
pass's local copies (`claim`, `seen`, `todo`, ...) are variables of their own,
so that everybody else can act between a read and its use. A call that can fail has
a disjunct for the failure. Where a reply can be lost the effect
and the failure happen together. An operator whose name ends in `_Something` and
whose comment begins "Mutant" is a deliberate mistake. It is not part of any
specification; it shows that the property named with it in `PROJECT.json` notices
such a mistake.

### Registration

`CRs` are the MCPServers that carry one server name, one for each namespace and
UID. Claims of different names are different Leases and different entries of core,
and no code relates them, so one name is enough. `lease` is the Lease with its
annotations, `core` the entry with who put it there (`by`), which the code cannot
see and the properties need.

A pass is `Reconcile`, `AddFinalizer`, then the calls of `registration`:
`GetClaim`, the refusal of a key list (`PeerIdentity`, `RefuseDeregister`,
`RefuseRelease`), the change in place (`Deliver`, `RecordDelivered`), the change
by removal (`DeregisterOld`, `RecordEndpoint`), `Health`, the take-over of a
discovered server (`Provenance`, `TakeDiscovered`, `Move`, `RecordMoved`),
`register` (`Take`, `Post`, `RecordTLS`, `GiveBack`), `Start`, `RecordStarted`, and
the health read that reports Ready (`Read`). A deletion is `DelGetClaim`,
`DelDeregister`, `DelRelease`, `DelFinalizer`. The environment creates, edits and
deletes CRs, moves pods, adds and removes core's entries, discovers and expires
them, restarts core and the operator, and deletes left-over Leases by hand.

Others add the name to core at any time. What they add while nobody claims the name
has the origin `Human`; what they add while a claim is under way (`ClaimUnderWay`) is a
`Latecomer`, because the code promises nothing about it (section 5).

Three switches name assumptions about the environment. `RetryLosesReply`: a POST
may be taken by core, lose its reply and be repeated by `doWithRetry`.
`CoreForgets`: core may restart without a durable store. `OldCore`: core may be one
before 2.32.0, which reports no provenance (`reports` is FALSE in that behaviour), so
that `Provenance` takes a server over on the word of the Deployment's stamp alone.

### EgressPolicy

Servers and policies of one namespace: targets are resolved within it. A pass is
`Reconcile`, `AddFinalizer`, `Resolve`, the writes of the branch (`ApplyNP`,
`ApplyCNP`, `DeleteNP`, `DeleteCNP` in the branch's own order), one `Push` per
target, `WriteStatus`. A deletion is `DelResolve`, `Clear` per target,
`RemoveFinalizer`. A successful pass is **not** repeated on a clock, so the work
queue and the `RequeueAfter` timers are state. Each change of the environment
enqueues exactly the policies that the watches of `SetupWithManager` map it to
(`policiesForMCPServer`, `policiesForMCPServerGroup`, `policiesForGatewayPod`).
`crd` and `agent` are the cached answers a pass sees; `CiliumChange`
is a cache entry expiring. `watched` records whether the CRD was there when the
process started, which decides whether CiliumNetworkPolicies are watched. The answer
goes both ways: the CRD is removed and its objects with it, or `ciliumAvailable` takes an
error for a no while they are all there. `sound` records that no CiliumNetworkPolicy was
hidden from the controller in this way. `kept` is the set of servers that stayed in core
when their MCPServer went, because the deregistration failed or the CR did not hold the
claim (`deregisterOwned`).

Payloads and selectors are reduced to whose they are, their mode, and the set of
servers they select. Audit stands also for Enforce with defaultAction Allow, and
Auto also for Cilium: the code has the same branches for both.

### DiscoverySource

Sources and server names of one namespace. The controller runs one worker
(`MaxConcurrentReconciles` is not set), so there is one pass at a time. It scans
(`Scan`, with one operator per kind of source that gives the outcomes that kind
can have), filters, creates or updates one name after the other
(`createOrUpdateMCPServer`), lists and deletes what is not discovered any more
(`authoritativeSync`, `DeleteServer`) and writes its status. Two sources can make
the same name, because a name is source and entry joined by a hyphen. Names are
numbers, because maxProviders keeps the first ones in order. `server` is the MCPServer
in the API server and `cache` the informer's copy. Both lists of a source's servers
(`authoritativeSync`, `DelList`) and the create or update start from the copy; `Sync`
brings it up to date, and it is `Sync` that wakes the source that controls the server.
`missed` is what the list of the pass did not show or its Delete failed for, `left` what
was missed when the source was let go; the code sees neither.

### ServerGroup

The controller reads a group through an informer that may lag its own last write,
and that lag is what its lock and its skipped write are about. So here the object in
the API server (`live`) and the copy (`cache`) are two variables, and `Sync` brings
the copy up to date. A pass is `Reconcile`, `RemoveFinalizer` (the finalizer of an
older operator), `List` (the whole of reconcileNormal up to the write) and
`updateStatus`. `groupSelfWatch` and `findGroupsForMCPServer` decide which events
start a pass. `Aggregate` is what the code computes; `Meets`, in the properties, is
what a health policy asks of the members themselves, without counters or rounding.

### Workload

One container-mode server. `pc` goes through `AddFinalizer`, the ingress fence
(`ReconcileIngress`, `WriteIngress`), the egress policy (`ReconcileNetworkPolicy`,
`WriteNetworkPolicy`) with the violations judged at its end, the registration
(`Register`, one call here), the hand-over (`RemoveLegacy`), the Deployment
(`ReadDeployment`, `ApplyDeployment`), the pod (`SyncPodStatus`), the tools
(`ReadTools`) and the status (`WriteStatus`). A deletion is `DelDeployment`,
`DelLegacy`, `Deregister`, `RemoveFinalizer`. `out` is the status the pass builds: it
starts from what was read, so a part whose call failed keeps what an earlier pass said.
`queued` and `timer` are the work queue and the RequeueAfter. An event queues the
server only if `SetupWithManager` watches it: spec and metadata of the server, the
Deployment and the policies it controls, its pods by label (`providerPodToServer`),
the namespace's label (`mcpServersInNamespace`).

Objects are reduced to whose they are: a policy is `none`, one of the operator's with
what it allows, `edited`, an `orphan` of an older operator, or `foreign`; a Deployment
is `current`, `old`, `foreign` or `unlabelled` (invisible to the informer, whose cache
is scoped by label). The hash on the Deployment covers the generation, so a spec that
is changed and changed back counts as changed. A spec without an image, and a change
of mode, are refused by the CRD and cannot occur.

### NamespaceEgress and GovernedNamespace

A pass of the namespace controller reads label and policy and then makes at most one
call. `GovernedNamespace` puts it beside `Workload`. The two share the label and
nothing else: every step of one leaves the other's variables alone, and only a change
of the label (`LabelChanges`) and a restart (`Crash`) touch both.

### Reads from the cache

MCPServers, policies and sources are read through informers and may be old. A pass
that reads an old object is a pass that read it earlier and was slow: the change
happened after the read, its event is still to come and queues the object again,
and an update with the old resourceVersion is refused. The models have these
behaviours already, because any change can happen between the read (`Reconcile`)
and the next call. The argument needs an event that still finds somebody to wake. It
fails for the MCPServers a source lists: the event of one created just before comes too
late when the source is gone by then, so `DiscoverySource` has the informer's copy as
state. What the models do not have is a pass that reads its own object older than
its own last write; `ServerGroup` models that, because there the code argues about it.
Leases, ConfigMaps and Services are read from the API server directly.

## 3. Runs

Runs expected to pass:

| Run | Instance | Shows |
|---|---|---|
| `RegistrationRace` | 2 remote CRs, 1 endpoint, 3 faults, foreign callers, a forgetting core; symmetric in the CRs | `TypeOK`, `OwnedIsClaimed`, `HolderPresent`, `ActsAsHolder`, and that the protocol refines `NameOwnership` |
| `RegistrationPinned` | 1 container CR that core may discover, 2 pod addresses, 1 key list or none, a core that reports provenance or one that does not, 2 faults | `OwnedIsClaimed` through moves, key-list changes and refusals; `ForeignUntouched` |
| `RegistrationLive` | 2 remote CRs, 1 fault, fair | `DeletionCompletes`, `NameGranted` |
| `EgressPolicy` | 1 policy, a server with pods and a remote one, a group, 2 changes | `L7InPlace`, `BackstopInPlace`, `NamedTargetCleared`, `FloorKept` |
| `EgressPolicyLive` | 1 policy, 1 server, 2 changes, fair | `DeletionCompletes`, `Converges` |
| `DiscoverySource` | a ConfigMap source with two names, an Annotations source with one of them, a lagging informer, 1 change | `CompletedIsExact`, `LeavesNothing` |
| `DiscoveryLive` | a Namespace source, one name invalid, a lagging informer, 2 changes, fair | `CompletedIsExact`, `Converges`, `DeletionCompletes` |
| `ServerGroup` | 1 group, 2 servers, any state of each, 2 labels, 2 health policies, an invalid selector, 2 changes, fair | `OnePass`, `SettledExact`, `Converges` |
| `GovernedNamespace` | 1 server and its namespace, 3 specs (unpinned with a fence, pinned without, switched off without capabilities for the network), new or left by an older operator, 2 changes | `EgressInPlace`, `DenyInPlace`, `StatusExact`, `DriftReported`, `GoneLeavesNothing`, `OneWorkload` |
| `GovernedLive` | the same with 3 specs (unpinned, key-pinned, mistaken fence), 1 change, fair | `Closes`, `OverLimitReported`, `DeletionCompletes` |

Runs expected to find a violation, each a disagreement between what the code does
and what it says:

| Run | Property | What happens |
|---|---|---|
| `RegistrationLostReply` | `OwnedIsClaimed` | Core takes a POST and the reply is lost. `doWithRetry` repeats it and core answers that the server exists, so `register` gives back the claim on the CR's own server. Deleting the CR then leaves that server in core. |
| `DiscoverySpin` | `Rests` | A completed sync always changes the status (time, duration), the controller watches its own status writes, and so it rescans at once and for ever. refreshInterval is never waited for. |

**Bounds.** `MaxFaults` and `MaxChanges` bound only what goes wrong or is changed
from outside; the passes themselves are unbounded, and in `Registration` so are
users' edits. Two CRs are what a race for a name needs. Three faults are a lost reply, a crash and a
failed clean-up in one behaviour. Two servers are the fewest that give a group with
one of two pushes failing and one remote member. Two names are the fewest that
maxProviders can cut, and the fewest members of which one can leave a group. In
`DiscoverySource` creating, deleting and taking over servers, and the lag of the
informer, cost no change; the one change is an edit, a failed call, a crash or a user's
own server, and two sources with copies of every server leave room for no more. The live
run has two. In
`GovernedNamespace` two changes are what it takes to fail a call and then change the
label, the spec or an object under the pass that follows; its initial states already
hold what would cost a change to reach (either label, a pod and policies of an older
operator, someone else's default-deny, a deletion that has begun). The live run has one
change, since fairness needs the whole graph. Every disjunct of every next-state relation is taken in some
passing run. The mutants show that the bounds are not too small to notice the
mistakes they stand for.

**Deadlock.** `Registration` is checked for it. The other runs allow a
state without successors: all objects are deleted, the queue is empty and the bound
on changes is used up.

**Fairness.** `Registration`: weak fairness of each CR's `Step`. Workers serve the
queue, calls return, and every pass ends with a requeue, so every CR is looked at
again. `EgressPolicy`: the same for `Step` and for the timers. The gateway gets no
fairness, so it may never come back. `DiscoverySource`: weak fairness of the calls
of the pass and of timers, strong fairness of taking a given source from the queue
(a first-in-first-out queue with one worker is fair to each element, even though the
worker is busy again and again), and weak fairness of the informer's watch, and of the
MCPServer controller and the garbage collector, which remove a deleted server. `ServerGroup`: weak fairness of
the worker, the timer and the informer's watch. `GovernedNamespace`: weak fairness of
each controller's own steps and of its timer; users, core, the kubelet and the
Deployment controller owe nothing.

**Where assumptions matter.** `OwnedIsClaimed` and the refinement hold with
`RetryLosesReply = FALSE` and fail without it (`RegistrationLostReply`).
`ForeignUntouched` is about the servers that were in core before the name was claimed, and
excepts the claim of a stamped CR on a core that reports no provenance; the first two
items of section 5 say what happens to the rest. `NamedTargetCleared` excepts servers that
core kept beyond their MCPServer, and `BackstopInPlace` the time after a
CiliumNetworkPolicy was hidden from the controller; both are in section 5.
`LeavesNothing` and `CompletedIsExact` except the servers the list did not show, and
`LeavesNothing` those whose list or Delete failed, which the code only logs.
`SettledExact` of `ServerGroup` leaves out a last pass that read a lagging
copy: such a pass may skip its write, and `Converges` shows that the requeue repairs it.
`Closes` excepts a server whose fence stops every pass and a held key-pinned one; see
section 5.

## 4. Proofs

Every invariant and every safety action property that a run checks is also a theorem.
The theorems hold for every value of the constants that the named assumptions of the
modules allow: any CRs, policies, sources, names, specs and labels, any bound on faults
or changes, and any finite set of servers in a group. The assumptions say that the
constants that stand for nobody or nothing differ from the real ones, that a set that is
chosen from is not empty, and that bounds are naturals; TLC evaluates them in every run of
the module. A theorem that needs more says so in its statement:

* `~RetryLosesReply` (`RegisteredAndClaimed`, `ImplementsOwnership`): without it
  `RegistrationLostReply` is the counterexample.
* `[]Apart` (`L7Holds`): no two existing policies share a target. Without it, deleting
  one policy clears what the other pushed (section 5). One policy, or several that each
  name a server of their own, satisfy it, with any servers, gateway and failures.

None of the properties is inductive by itself. Each inductive invariant was first checked
by TLC on the run of its module.

### RegistrationProofs

| Theorem | States |
|---|---|
| `TypeCorrect` | `Spec => []TypeOK` |
| `ClaimsHold` | `Spec => []ClaimInv`, the inductive invariant of the claim |
| `HoldersPresent` | `Spec => []HolderPresent` |
| `RegisteredAndClaimed` | `Spec => []OwnedIsClaimed`, if `~RetryLosesReply` |
| `PassesActAsHolder` | `Spec => ActsAsHolder` |
| `ForeignKept` | `Spec => ForeignUntouched` |
| `ImplementsOwnership` | `Spec => RefinesOwnership`, if `~RetryLosesReply` |

`ClaimInv` is the conjunction of

* `WellFormed`: a Lease has a holder and an entry an origin;
* `ClaimCurrent`: a pass's copy of the claim is the Lease as it is *now*, and a
  pass about to make a call only the holder makes does hold it. This is why it is
  safe that a claim is read once and used for several calls, and that `release`
  deletes by name: a Lease is deleted only by its holder's pass, by hand after the
  holder is gone, and never by a pass of another CR. It fails as soon as `take`
  accepts another's Lease (the mutant of `ActsAsHolder`);
* `FinalizerFirst`: the finalizer is there before a pass touches the name, and a
  deletion drops it only with the claim released or reported;
* `HolderPresent`.

`OwnedInv` adds `OwnedIsClaimed` and `ServerCleared`: wherever a pass may give the
name up, or is about to claim it, no entry of that CR is in core. That is what the
order "deregister first, release second" provides, and what a lost reply to a POST
takes away at `GiveBack`. The refinement proof uses both invariants and takes each
action to an action of `NameOwnership` or a stuttering step.

`ForeignKept` follows from `ForeignFree`, a server that was there before is nobody's claim
and no pass is about to claim it, unless core reports no provenance and the CR is a
stamped one, and from the lemma `HolderActs`: what changes core is a holder. It
does not need `~RetryLosesReply`: a claim given back by mistake loses the CR's own
server and never takes another's.

### EgressPolicyProofs

| Theorem | States |
|---|---|
| `TypeCorrect` | `Spec => []TypeOK` |
| `BackstopHolds` | `Spec => []BackstopInPlace` |
| `FloorHolds` | `Spec => FloorKept` |
| `ClearedHolds` | `Spec => []NamedTargetCleared` |
| `L7Holds` | `Spec /\ []Apart => []L7InPlace` |

Every invariant has the form "for each policy". The lemma `Frame` says what a step of one
policy leaves alone of another, so each proof considers one policy, its own steps and the
environment.

* `Phases`: the finalizer is there while a pass writes; a pass works on the policy's
  target, which is immutable.
* `Clears`: what core holds of a policy the policy pushed, and on the way through a
  deletion it is still to be cleared, reported, or of a server core kept. That is enough
  for any number of policies on the same server, because a clear of one never adds
  anything of the other.
* `PlansInv`: which plan goes with which call, and that the new flavor is in place before
  the old one is deleted, unless somebody's deletion of it has queued the policy. While
  `sound`, a CiliumNetworkPolicy is there only with the CRD.
* `Freshes`, `Backstops`: *while the policy is not queued* the pass works on the present
  spec and its plan fits the present targets. The reason is the lemma `WatchesSuffice`:
  whatever changes the targets of a live policy queues it, so the watches of
  `SetupWithManager` miss nothing.
* `Todos`, `L7s`: the same for what was pushed, gateway included. Here another policy's
  steps do matter, hence `Apart`.

### DiscoverySourceProofs

| Theorem | States |
|---|---|
| `TypeCorrect` | `Spec => []TypeOK` |
| `NothingLeft` | `Spec => []LeavesNothing` |
| `ExactHolds` | `Spec => []CompletedIsExact` |

* `SourceInv`, `LabelInv`: the finalizer comes before the first server and goes last, so
  only a source that has or had it can be a server's label. The lemma `OnlyManaged` adds
  that nothing but `createOrUpdateMCPServer` gives a source a live server, although two
  sources may make the same name.
* `DeleteInv`: what `reconcileDelete` has yet to delete, with what its list and its Deletes
  missed, includes all that is live. No later step adds to it, because only a pass of the
  source itself gives it a server.
* `SyncInv`: a sync that nothing went wrong with has read every place and has every bad
  name still ahead of it, and `authoritativeSync` every server that is not of the scan and
  that the list showed. The lemma `FilterFacts` shows
  that `applyFilters` lets at most maxProviders through. It has no recursion to
  unfold: it maps each name it keeps to its rank, and that map is injective.

### ServerGroupProofs

| Theorem | States |
|---|---|
| `TypeCorrect` | `Spec => [](TypeOK /\ Bounded)` |
| `OnePassHolds` | `Spec => []OnePass` |
| `SettledHolds` | `Spec => []SettledExact` |

* `Bounded`: each change of the spec counts once in the generation, which is why
  `TypeOK` needs it.
* `VersionInv`: the copy in the cache is the latest version unless it is behind, and so is
  the one a pass holds unless it is stale; equal generations have equal specs.
* `OnePassInv`: the status there, and the one about to be written, are of one pass. The
  lemmas `DivReaches` and `HealthyMeets` show that the counters and the rounded-down
  percentage of the code decide exactly what the health policy asks of the members.
* `ExactInv`: a pass on the latest version loses it only to a change that brings another
  pass. No call has to succeed for this.

### GovernedNamespaceProofs

| Theorem | States |
|---|---|
| `TypeCorrect` | `Spec => []TypeOK` |
| `DenyHolds` | `Spec => []DenyInPlace` |
| `EgressHolds` | `Spec => []EgressInPlace` |
| `DriftHolds` | `Spec => []DriftReported` |
| `StatusHolds` | `Spec => []StatusExact` |
| `RemovalComplete` | `Spec => []GoneLeavesNothing` |
| `SingleWorkload` | `Spec => []OneWorkload` |

* `DenyInv`: a label turned on while a pass is about to delete the default-deny has queued
  the namespace.
* `WorkloadInv`: the finalizer is there before anything is started and until everything
  is stopped, and the old pod is told to stop before a Deployment exists.
* `PolicyInv`, `StatusInv`: while the server is not queued, nothing the pass read has
  changed, so what it decided still holds and what it is going to write is true;
  at rest, what it wrote still is, and the timer is set.

**Only model-checked:** the liveness properties (`DeletionCompletes`, `NameGranted`,
`Converges`, `Closes`, `OverLimitReported`), because fairness and ENABLED are out of the
prover's reach, and the two violations, which are counterexamples.

## 5. Known departures that are not runs

Each was seen in a model while it was built, or follows from its definitions.

Registration and discovery:

* *A claim outlives a failed registration.* A POST that fails leaves the claim.
  If someone else adds the name to core then, the next pass finds its claim
  and a healthy server, starts it, and a deletion removes it
  (`mcpserver_registration.go:259`, `:473`). The model has such a server as a
  `Latecomer`.
* *A core before 2.32.0 reports no provenance*, and "the Deployment alone decides there"
  (`mcpserver_peer_identity.go:131-132`, `:146`). A server someone else registered under
  the name of a CR whose Deployment was ever stamped is then claimed, moved to the CR's
  pod and removed with the CR.
* *Ready without a start.* When the health read at
  `mcpserver_registration.go:238` fails, the start is skipped and the read that
  follows may succeed: the CR reports Ready for a server nobody called, which
  `:398-401` says does not happen.
* *A key list delivered once.* A PUT that clears a key list is applied and its
  reply lost. The user restores the old list, whose digest the claim still
  carries, so nothing is sent and core runs without the list
  (`mcpserver_registration.go:198-200`).
* *Half a scan.* One of an Annotations source's two lists fails, a ConfigMap lacks the key
  (a mistyped one in the spec included), or a Namespace source's expressions do not parse
  or its template has no endpoint: all are scan errors after which the sync goes on, and
  an Authoritative one deletes the servers of what was not read, for the last three
  all servers it has (`mcpdiscoverysource_controller.go:551`, `:448`, `:348`, `:385`),
  although `:792` says "scoped to successfully-scanned sources only". `CompletedIsExact`
  shows that such a sync is never reported as complete, and `Converges` that the servers
  come back once the scan succeeds.
* *A server the cache does not show yet survives its source.* A source is deleted while a
  pass creates a server; the next pass lists the informer, which does not have it, and
  removes the finalizer (`:911`, `:926`). With Authoritative and without
  ownership.controller nothing removes the server any more. A list or a Delete that
  fails does the same (`:912-922`).
* *ownership.blockDeletion* "blocks deletion until providers removed"
  (`mcpdiscoverysource_types.go:184`), and no code reads it: a source goes while its
  servers are still terminating, or were missed.
* *ownership.controller switched off* leaves the owner reference on servers that
  have one, so garbage collection still removes them when the Additive source
  goes (`mcpdiscoverysource_controller.go:772`, `:903-907`).

Egress policy:

* *A CiliumNetworkPolicy left behind.* Opting out of the backstop, losing the target,
  or a target without pods removes the NetworkPolicy alone
  (`mcpegresspolicy_controller.go:209`). A CiliumNetworkPolicy stays and filters,
  although `:206-207` says "remove any backstop, report not-applied".
* *An L7 policy left behind.* The deletion clears the targets it resolves then. A
  server that left the group, or whose group is gone, keeps the L7 policy without any
  event (`:255`), although `:143-144` says "whatever we push to core is cleared on
  delete". So does a server that is named: when its MCPServer went first and core kept the
  server (`mcpserver_registration.go:467-480`), the deletion finds no target and skips the
  clear, because "core will have dropped their policy with the server" (`:251-252`).
* *A CiliumNetworkPolicy out of sight.* `ciliumAvailable` takes any error for a missing
  CRD and keeps that answer for its TTL. A pass in that time goes to the plain
  NetworkPolicy and does not delete the CiliumNetworkPolicy (`:825`), so two flavors
  filter until some event brings another pass.
* *Two egress policies on one server* overwrite each other's L7 policy, and
  deleting one clears the other's (`:262`).
* *An endpoint change* deregisters and registers the server, and core drops its
  L7 policy with it; the policy's own watch may have been served before.

Workload and namespace:

* *A deletion takes the Deployment of the name, whoever controls it*
  (`mcpserver_controller.go:933-939`), although reconcileDeployment is "not overwriting
  it" (`mcpserver_deployment.go:92`) and a test says "A same-named Deployment someone
  else controls is left alone and reported" (`mcpserver_pod_restart_test.go:190`).
* *A foreign Deployment without the operator's label* is outside the cache, so it is
  reported as DeploymentApplyFailed and not as DeploymentNameTaken.
* *An apply, and a delete, act on what has the name by then*: a NetworkPolicy of
  someone else that appears between the read and the call is taken over, or deleted
  (`mcpserver_controller.go:637`, `:909`; `namespace_egress_controller.go:85`, `:103`).
* *A policy that is gone when it is deleted* is an error (`mcpserver_controller.go:909`
  has no IgnoreNotFound), and the condition keeps what it said until the next pass.
* *An opted-out namespace drops a failed read* (`namespace_egress_controller.go:84`):
  its default-deny stays until some other event.
* *The fence stops the pass.* With a wrong annotation, or someone else's policy under
  the fence's name, neither the egress policy nor the pod is looked at again
  (`mcpserver_controller.go:195-201`), so an unpinned server keeps its egress after
  the namespace opts in. A held key-pinned server keeps its pod and policies too
  (`:206-209`).
* *The old pod is told to stop and not waited for* (`mcpserver_deployment.go:71-75`), so
  both may run for a moment; `OneWorkload` states what does hold.
* *Ready stays True* while the state goes back to Initializing or Degraded
  (`mcpserver_controller.go:354`, `:373`), and ViolationDetected stays when the
  capabilities are removed (`:753`).
* *A group whose selector becomes invalid* keeps the counters of the old one and asks
  for no requeue (`mcpservergroup_controller.go:133-141`).

## 6. Not modelled

* In the modelled controllers: counters of failures, times, the Progressing, Available
  and Degraded conditions of a server, the violation log with its cap, the egress audit
  event, a terminating namespace, a group without a selector, and edits of a
  Deployment's spec, which the operator does not repair.
* The rules inside a NetworkPolicy, Pods and Deployments as built, and the webhooks:
  functions of one object without state. The models assume the specs that the CRD
  rules admit.
* Wording of conditions and events, metrics, logging, HTTP encoding, TLS of the
  client, back-off times.
* Start-up, leader election and the informers themselves: controller-runtime's.
  One process acts at a time.
* Registration and L7 policy without `--hangar-url` (there is none of either);
  `Workload` has both settings.

## 7. Plan

1. *Done:* registration, its abstract specification and proofs; egress policy;
   discovery source; server group; workload, namespace egress and their composition.
2. `Registration` and `EgressPolicy` composed over one core entry, for the L7 policy of a
   server that is registered again, for two policies on one server, and for Ready
   without a start. Together with the two other departures that PROJECT.json notes (the key
   list, a server added while its name is claimed) these are the hazards that no property
   covers yet.
3. The NetworkPolicy builders as operators over small specs, checked against what
   the spec says is allowed.
4. Proofs of the safety properties are complete for the modules there are. What the
   compositions and the builders of items 2 and 3 will promise is to be proved with them,
   from the invariants that are here.
