# TLA+ models of the kube-router network policy controller

The models cover `src/pkg/controllers/netpol/network_policy_controller.go`, the
controller that turns orchestrator network policies into iptables chains and
ipsets on one node.

## The system

The controller has these parts:

* **Policy Model Builder** (`buildNetworkPoliciesInfo`, `evalPodPeer`,
  `evalIPBlockPeer`, `processNetworkPolicyPorts`, `grabNamedPortFromPod`).
  It reads the policy, pod and namespace listers and builds
  `networkPoliciesInfo`, one record per policy: its targets, type, and
  resolved ingress and egress rules.
* **Planner/applier** (`syncNetworkPolicyChains`, `processIngressRules`,
  `processEgressRules`, `syncPodFirewallChains`). It creates one chain per
  policy and one chain per local target pod, named with the sync's
  `syncVersion`. It also creates the ipsets the rules match, and inserts the
  diversions from FORWARD, OUTPUT and INPUT into the pod chains. The ipset
  names do not carry the `syncVersion`.
* **Garbage collector** (`cleanupStaleRules`). It deletes every chain and
  ipset under the controller's prefixes that the current sync did not mark
  active.
* **Reconciler** (`Sync`). It holds the mutex and runs the three parts above
  in order, aborting on the first error.
* **Run loop and callbacks** (`Run`, `OnPodUpdate`, `OnNetworkPolicyUpdate`,
  `OnNamespaceUpdate`, the informer handlers). `Run` calls `Sync` on every
  tick and sets `readyForUpdates`. Each informer's handler goroutine calls
  `Sync` for the events that pass its filter, once `readyForUpdates` is set.
  All these callers wait on the same mutex.
* **Drivers.** The iptables and ipset drivers are not part of this repository.

## Modules

| module | models |
|---|---|
| `NetpolModel` | The orchestrator objects and the builder as operators. `buildNetworkPoliciesInfo(store, running)` is the set of infos a build can produce: one per Go map iteration order of the named-port table. `buildBetaNetworkPoliciesInfo` is the deprecated-API builder: peers through their `podSelector` only, no ipBlocks, no matchAll flags, no egress rules, and a `policyType` it never assigns, so it stays `""`. `NetpolSync` calls one builder or the other by its constant `V1`, as `Sync` does by `npc.v1NetworkPolicy`. It also holds the reference meaning of policies (`Allowed`), which the properties compare against. |
| `NetpolKernel` | Chain and ipset names (records of the hash inputs), the rules the controller emits, driver calls as operation records, `ApplyOp`/`Exec` (their effect, or the kernel's refusal), and `Verdict`, the traversal of FORWARD by a packet. The driver semantics are taken from the spec and marked `spec_modelled` in the map. |
| `NetpolSync` | One `Sync` at a time against a changing store. It has one action per step: `SyncStart` (build), `SyncPolicy(q)` (one iteration of `syncNetworkPolicyChains`), `SyncPodLoop` (the listing at the head of each pod loop), `SyncPod` (one pod of the ingress or egress loop), and `Cleanup` (`cleanupStaleRules`). `PolicyEvent` and `PodEvent` change the store. |
| `NetpolController` | Who calls `Sync`, and when. The Run goroutine (`RunSelect`, the default case of the `select` at the top of the loop; `RunLock`, taking `mu` in `Sync`, where a close of `stopCh` does not stop it; `RunReturn`, `RunSetReady`, `Tick`, and `RunExit` from either `select` once the caller has closed `stopCh` by `Stop`; after that only `Terminated` stutters) and one handler goroutine per informer (`Deliver`, `HandlerLock`, `HandlerReturn`) share `mu`. `Change(e)` is a cluster change queued on its informer. `Deliver` applies the pod `UpdateFunc` filter, the v1 return of `OnNamespaceUpdate` and the `readyForUpdates` test. `Sync` is abstracted to taking the mutex, sending its heartbeat and reading the listers (`syncGen` := `gen`), then returning nil or an error. |
| `NetpolReconciler` | The abstract reconciler: the cluster changes (`gen`), and a single writer installs, one at a time, a state no older than the last one it installed (`applied`). Once changes stop, it installs the latest (`WF(ApplyLatest)`), unless a `Stop` was requested first. |
| `NetpolLifecycle` | The process around `Sync`. `Crash` kills the controller at any point of a sync (the `glog.Fatalf` of `cleanupStaleRules`, or the pod being killed) and `Reset` builds a fresh controller as `NewNetworkPolicyController` does, on the kernel the dead one left. `CleanupConfig` is the shutdown `Cleanup()`: unlink from FORWARD and OUTPUT, flush and delete the pod chains, then the policy chains (returning at the first error), then destroy the ipsets. `Start` starts kube-router again. |
| `MCNetpolController` | The event sets of its runs. |
| `MCNetpolLifecycle` | `NetpolLifecycle` with the instances of `MCNetpolSync`. |
| `MCNetpolSync` | The instances: one namespace, two local pods (`pa` "web", `pb` "db"), one remote pod `pc`, one external address, and the policy versions of each run. |

A step issues every driver call of its Go code in order (`PolicyOps`,
`IngressPodOps`, `EgressPodOps`, `CleanupOps`). `Step` applies them in one of
these ways:

* all of them;
* a prefix, when an injected error hits a critical call and the sync aborts
  (`"command"`);
* all but one ipset Refresh, which the code only logs (`"refresh"`).
* all but the `List` of an active pod chain in `cleanupStaleRules`, whose
  error the code ignores (`"command"`). The `Delete` after it can abort only
  when a rule names the stale chain, since only then is it called.

`Cleanup` may see an empty `ListChains`, whose error the code ignores
(`"listChains"`). Packets see the kernel between steps. This matches the
code: the mutex serialises syncs, but nothing makes a sync atomic to the
kernel.

Data abstraction:

* a pod is an object with an IP (`PodIP`); two pods may share an IP, and IPAM
  gives an IP to a starting pod only while no running pod holds it. Every set,
  map and rule the code keys by IP (`targetPods`, the ipsets, the `-d`/`-s`
  diversions) is keyed by `PodIP`, so a pod that reuses an IP meets whatever
  the code left keyed by it;
* a pod has one label value, and a selector is a set of values;
* a CIDR is a name with its set of addresses and its prefix length;
* comments and log text are dropped;
* a chain or ipset name is its prefix plus its hash input, the string
  concatenation the code hashes (`Itoa` of the indices included). SHA-256 is
  taken as injective, so two names collide exactly when their inputs do;
* `syncVersion` values are reused once no chain of theirs is in the kernel,
  which keeps the state space finite (`UsedEpochs`).

## Runs

| run | expect | what it shows |
|---|---|---|
| `lifecycle` | pass | Ingress-only policies, one store/pod change, one injected command or refresh error, and one crash or shutdown at any point. After a successful, undisturbed sync, `Verdict` accepts exactly the packets `Allowed` allows (`EnforcesPolicies`). Cleanup leaves exactly the active chains and sets (`NoStaleArtifacts`). The kernel never refuses a call (`NoKernelRefusal`). The periodic sync converges, also after a restart on a half-applied kernel (`EventuallyConverged`). For ingress-only policies, `Cleanup()` restores the initial kernel (`CleanupRestores`). |
| `egress` | pass | Egress-only policies with a pod peer, a named port and a `0.0.0.0/0 except 10.0.0.0/8` block, and an ingress policy on "db" that admits "web" on every port, and a fourth pod `pd` (label db) that can start on the IP of `pa` once `pa` stops; two changes: the same enforcement of pod-to-pod traffic through FORWARD, and no kernel refusal, including at the INPUT and OUTPUT diversions and the pod chains that carry both directions. `Verdict` walks FORWARD only, so the INPUT and OUTPUT diversions are checked for their unlinking (`NoKernelRefusal`), not for what they accept. An ingress policy that isolates a pod some egress rule reaches fails for the `bypass` reason: the pod chain jumps to every policy targeting the pod, and the egress rule of any target, remote ones included, accepts. |
| `callbacks` | pass | Beta API; pod, policy and namespace changes race Run and each other; one Sync may fail, and `stopCh` may be closed at any moment or never. Once everything is quiet after a successful Sync, that Sync read every change made after `readyForUpdates` was set (`ChangesReachSync`). The callers of `Sync` together implement `NetpolReconciler` (`ImplementsReconciler`). Once `stopCh` is closed, Run returns, so the caller's `wg.Wait` ends (`StopEndsRun`). |
| `bypass` | violation | Two findings (`EnforcesPolicies`): a client's egress ACCEPT bypasses the server's ingress isolation, and an unresolved named port opens all ports. Each alone violates the property; TLC reports whichever trace it reaches first. |
| `shutdown` | violation | Finding: `Cleanup()` does not unlink INPUT, so after an egress policy was applied, deleting the pod chain fails and `Cleanup()` returns with chains and ipsets left (`CleanupRestores`). |
| `transition` | violation | Finding: with no change at all, a resync whose named-port map iterates in another order makes the old chain accept a port neither version allows (`TransitionSafety`). |
| `collision` | violation | Two findings, one property (`ArtifactNamesDistinct`), both violated in the first state. Policy `bc` of namespace `a` and policy `c` of namespace `ab` share a chain and a target ipset. Named-port ipsets (1,11) and (11,1) of one policy have one name. Checking `EnforcesPolicies` on the same cfg also fails: the policy that isolates `db` in one namespace is opened by the other's rules. |
| `beta` | violation | Finding (`EnforcesPolicies`): `V1 = FALSE`, one policy admitting only web to db:5432, no change and no failure. After one successful Sync the kernel holds an empty policy chain and nothing else: `policyType` is `""`, so no ipset, no rule and no pod chain is built, and db accepts every packet. |
| `liststale` | violation | Finding: a failed `ListChains` leaves the old epoch installed after a successful sync (`NoStaleArtifacts`). |
| `dropped` | violation | Two findings, v1 API (`ChangesReachSync`). A pod label change is dropped by the pod `UpdateFunc`. A namespace label change is dropped by `OnNamespaceUpdate`, although v1 `namespaceSelector` peers depend on it. Both wait for the next tick. |
| `failedsync` | violation | Two findings, one property (`FailureNotReportedHealthy` = `ReadyAfterSuccess` /\ `NoHeartbeatWhileFailing`). `readyForUpdates` is set after a failed bootup Sync (spec section 4.6 says after the first successful one); TLC reports this trace. And `Sync` sends a heartbeat on entry (spec 4.6 says so too), so a controller whose every Sync fails keeps sending heartbeats, against spec section 7, which says sustained failure shows as an absent heartbeat. |
| `stalerefresh` | violation | Finding (`StaleSetsFailClosed`): the pods of the `egress` run, one policy where db admits web on 5432 and may be edited to admit db instead, and only Refresh failures injected. In the trace TLC reports, sync 1 succeeds and the policy is edited. Then sync 2's Refresh of the peer set fails and is only logged (line 320), and Sync returns nil. web is still accepted to db:5432: the peer set name has no syncVersion, so the new chain matches the stale set. A db pod `pd` started on a stopped web pod's IP inherits web's access in the same way. With command failures instead, the same instance passes this property, `EnforcesPolicies`, `NoStaleArtifacts` and `NoKernelRefusal`, so the logged Refresh error is the cause. |

The passing runs exclude the configurations the `bypass` findings show to be
broken: policies of both directions on the same traffic, and unresolved named
ports. Otherwise `EnforcesPolicies` would fail for those known reasons. The
lifecycle run uses ingress-only policies, since with egress ones
`CleanupRestores` fails for the reason `shutdown` shows. The sync runs use the v1 builder (`V1 = TRUE`),
since with the beta one nothing is enforced (the `beta` finding).

Changes made before `readyForUpdates` is set are left to the ticker by design
(spec section 4.6). `ChangesReachSync` therefore excludes them by comparing `gen`
with `genAtReady`.

### Refinement

`NetpolController` maps onto `NetpolReconciler` with `gen` as itself and
`applied <- appliedGen`, the generation the last successful `Sync` read,
and `stopped <- stopCh`. A
successful `Sync` is `Apply` (it read some generation between the last
applied one and the current one: npc.mu makes the reads ordered). A failed
`Sync` and every other step stutter. The abstract fairness `WF(ApplyLatest)`
holds because the ticker keeps calling `Sync` and failures are bounded. It is
owed only while `stopCh` is open: after `Run` returns, a change dropped by a
handler's filter is never applied.

### Bounds

| bound | why it is enough |
|---|---|
| 3 pods (4 in `egress` and `stalerefresh`) | Two local pods give a client and a server on this node; one remote pod gives forwarded traffic. The fourth pod reuses a stopped pod's IP with another label, the smallest case in which an IP-keyed artifact outlives its pod. |
| 2 policies, 1–2 versions each | Covers a policy being added, changed and deleted. |
| `MaxChanges = 2` (egress), `1` (lifecycle) | Covers a change during a sync, and a change followed by a resync. The lifecycle run adds the crash and shutdown steps, and 2 changes there take over 2M states, so it keeps one change. |
| `MaxFailures = 1` | Covers a failure of every critical call of every step, and a skipped Refresh. |
| `MaxRestarts = 1` | One crash at any step of any sync, or one `Cleanup()` on any kernel the syncs can leave. A second restart starts from a state the first already covers: the fresh controller keeps no memory. |
| `NetpolController`: 3 changes, 1 failure, 1 stop | Two changes can be queued on different informers while a third lands during a Sync. The one failure can hit the bootup Sync or a handler's Sync. The stop can come at any point. The model checks 308k states. |
| 3 epochs (4 in lifecycle) | Room for the installed epoch, a half-applied one and a fresh one; after a crash the old half-applied epoch stays in the kernel, hence one more. The code's `syncVersion` is `UnixNano`, always fresh; the model reuses a freed epoch, and with these bounds a free one always exists (otherwise `SyncStart` would be disabled and TLC would report a deadlock). |

### Fairness

`Run` calls `Sync` on every tick, and a started `Sync` runs to completion
under the mutex. So `Spec` assumes weak fairness of `SyncStep`. Changes and
failures are bounded, so they stop eventually.

Changes, crashes and shutdowns are bounded, so every behaviour ends in
steps of `SyncStep` (or `Start`) alone. There nothing else can disable it,
and a state where it is disabled would be a deadlock, which every run
checks. Weak fairness is therefore equivalent to "infinitely many sync
steps", which is `LiveSpec`. The runs use `LiveSpec` because TLC
evaluates it far faster than `ENABLED` of the recursive driver-call
execution.

`LifeSpec` asks for infinitely many sync steps of a running process. A
stopped kube-router is started again (the daemonset restarts it), and
restarts are bounded, so the process runs forever from some point on.

In `NetpolController`, the goroutines get weak fairness, and so does the
ticker (`Tick`). Taking the mutex gets strong fairness: Go's `sync.Mutex`
switches to starvation mode and hands the lock to a waiter that has waited
for more than 1 ms. Closing `stopCh` is the caller's choice and gets no
fairness; `RunExit` gets weak fairness, as part of the Run goroutine.

### Mutants

Every property of a passing run has a mutant in `PROJECT.json`. Each mutant is
a plausible slip in the code that the property catches:

* the FORWARD diversion missing;
* OUTPUT or INPUT left out of cleanup's primary chains;
* OUTPUT not unlinked in `Cleanup()`;
* stale ipsets not deleted;
* pod chains deleted before they are unlinked;
* a chain recorded in the wrong active map;
* a handler that gives up when `Sync` is busy instead of waiting on the mutex;
* `Run` leaving its loop when `Sync` fails;
* the pod handler registered on every informer;
* `return` in Run's selects written as `break`, which leaves only the `select`.

## Not modelled yet (plan)

* **List failures in `Cleanup()`**: its `ListChains` calls are taken to
  succeed.
* **`ListChains` order**: `Cleanup()` walks the chains in one fixed order
  (`ListOf`). Chain deletion does not depend on the order.
