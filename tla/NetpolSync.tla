------------------------------ MODULE NetpolSync -----------------------------
(***************************************************************************)
(* One reconcile of the network policy controller (Sync) against the      *)
(* kernel, while the orchestrator store keeps changing underneath it.     *)
(*                                                                        *)
(* Sync builds networkPolicyInfo from a snapshot, then issues driver      *)
(* calls: one step per policy (syncNetworkPolicyChains with               *)
(* processIngressRules / processEgressRules), one step per local pod in   *)
(* each of the two loops of syncPodFirewallChains, and one cleanup step   *)
(* (cleanupStaleRules).  Each step is atomic with respect to the other    *)
(* steps but any of its driver calls may fail: a critical failure leaves  *)
(* the calls before it applied and aborts the sync, a failed ipset        *)
(* Refresh is logged and skipped.  Packets see the kernel between steps.  *)
(*                                                                        *)
(* The callers of Sync (Run loop, informer callbacks) are abstracted here *)
(* to "some caller holds the mutex and starts a sync"; NetpolController   *)
(* models them.                                                           *)
(***************************************************************************)
EXTENDS NetpolKernel

CONSTANTS
    InitStore,       \* the orchestrator store when the controller starts
    InitRunning,     \* the pods with an IP when the controller starts
    MaxChanges,      \* bound on store and pod changes in a behaviour
    MaxFailures,     \* bound on injected driver failures in a behaviour
    FailurePoints,   \* which failures may be injected: "command", "refresh", "listChains"
    V1               \* npc.v1NetworkPolicy: which builder Sync calls

VARIABLES
    npStore,             \* policy object per policy, or Absent (npLister)
    running,             \* pods whose Status.PodIP is set (podLister)
    changes,             \* number of store / pod changes so far
    dirty,               \* a change happened after the current sync's snapshot
    pc,                  \* "idle", "policies", "ingressPods", "egressPods", "cleanup"
    epoch,               \* syncVersion of the current (or last) sync
    info,                \* npc.networkPoliciesInfo
    todo,                \* policies or pods the current loop has still to visit
    activePolicyChains,
    activePodFwChains,
    activePolicyIpSets,
    kern,                \* the filter table and the ipsets
    lastSync,            \* "none", "ok", or why the last sync failed: "injected", "refused"
    degraded,            \* a Refresh of the current sync failed and was skipped
    failures,            \* injected failures so far
    snap,                \* the snapshot the current sync was built from
    gens                 \* snapshots whose chains may still be in the kernel

clusterVars == <<npStore, running, changes, dirty>>
syncVars == <<pc, epoch, info, todo, activePolicyChains, activePodFwChains,
              activePolicyIpSets, lastSync, degraded, failures, snap, gens>>
vars == <<clusterVars, syncVars, kern>>

Snapshot == [store |-> npStore, running |-> running]

(***************************************************************************)
(* The driver calls of one step.                                          *)
(***************************************************************************)

AllPorts == [protocol |-> Nil, port |-> Nil]

\* The calls processIngressRules (dir = "ingress") or processEgressRules
\* (dir = "egress") make for rule r, index i, of policy q.
RuleOps(dir, q, i, r, chain) ==
    LET ing    == dir = "ingress"
        tgt    == SetName(IF ing THEN "tgtDst" ELSE "tgtSrc", q, 0, 0)
        podSet == SetName(IF ing THEN "srcPod" ELSE "dstPod", q, i, 0)
        blkSet == SetName(IF ing THEN "srcBlock" ELSE "dstBlock", q, i, 0)
        named(j) == SetName(IF ing THEN "inNamed" ELSE "egNamed", q, i, j)
        Accept(peer, pp) == AppendUniqueOp(chain, IF ing THEN AcceptRule(peer, tgt, pp.protocol, pp.port)
                                                         ELSE AcceptRule(tgt, peer, pp.protocol, pp.port))
        PortRules(peer) == [k \in DOMAIN r.ports |-> Accept(peer, r.ports[k])]
        NamedRules(peer) ==
            FlattenSeq([j \in DOMAIN r.namedPorts |->
                LET ep == r.namedPorts[j] IN
                <<CreateSetOp(named(j - 1), "hash:ip"), RefreshOp(named(j - 1), ep.ips),
                  AppendUniqueOp(chain, AcceptRule(IF ing THEN peer ELSE tgt, named(j - 1),
                                                   ep.protocol, ep.port))>>])
        When(c, ops) == IF c THEN ops ELSE <<>>
    IN  When(r.peerPods # {},
             <<CreateSetOp(podSet, "hash:ip"), RefreshOp(podSet, IPsOf(r.peerPods))>>
             \o PortRules(podSet) \o NamedRules(podSet)
             \o When(r.ports = <<>> /\ r.namedPorts = <<>>, <<Accept(podSet, AllPorts)>>))
     \o When(r.matchAllPeers /\ ~r.matchAllPorts,
             PortRules(AnyMatch) \o When(ing, NamedRules(AnyMatch)))
     \o When(r.matchAllPeers /\ r.matchAllPorts, <<Accept(AnyMatch, AllPorts)>>)
     \o When(r.ipBlocks # <<>>,
             <<CreateSetOp(blkSet, "hash:net"), RefreshOp(blkSet, ToSet(r.ipBlocks))>>
             \o When(~r.matchAllPorts, PortRules(blkSet) \o When(ing, NamedRules(blkSet)))
             \o When(r.matchAllPorts, <<Accept(blkSet, AllPorts)>>))

RulesOps(dir, q, rules, chain) ==
    IF rules = Nil THEN <<>>
    ELSE FlattenSeq([i \in DOMAIN rules |-> RuleOps(dir, q, i - 1, rules[i], chain)])

\* One iteration of syncNetworkPolicyChains' loop over the policies.
PolicyOps(q) ==
    LET pi == info[q]
        chain == PolChain(q, epoch)
        Side(types, kind, dir, rules) ==
            IF pi.policyType \in types
            THEN <<CreateSetOp(SetName(kind, q, 0, 0), "hash:ip"),
                   RefreshOp(SetName(kind, q, 0, 0), IPsOf(pi.targetPods))>>
                 \o RulesOps(dir, q, rules, chain)
            ELSE <<>>
    IN <<NewChainOp(chain)>>
       \o Side({"both", "ingress"}, "tgtDst", "ingress", pi.ingressRules)
       \o Side({"both", "egress"}, "tgtSrc", "egress", pi.egressRules)

CreatedSets(ops) == {ops[k].s : k \in {k \in DOMAIN ops : ops[k].op = "createSet"}}

\* getIngressNetworkPolicyEnabledPods / getEgressNetworkPolicyEnabledPods:
\* read the pod lister again, against the info built at the start, whose
\* targetPods are keyed by IP.
EnabledPods(types) ==
    {p \in running : /\ PodLocal[p]
                     /\ \E q \in DOMAIN info : /\ info[q].namespace = PodNamespace[p]
                                               /\ PodIP[p] \in IPsOf(info[q].targetPods)
                                               /\ info[q].policyType \in types}

\* A jump from the pod chain to every policy chain whose targets hold the pod.
PolicyJumpOps(p, chain) ==
    LET qs == ListOf({q \in DOMAIN info : PodIP[p] \in IPsOf(info[q].targetPods)})
    IN [k \in DOMAIN qs |-> InsertIfAbsentOp(chain, JumpRule(PolChain(qs[k], epoch)))]

\* (mutant) The ingress loop without the FORWARD "-d pod" diversion.
IngressPodOpsNoForward(p) ==
    LET chain == PodChain(p, epoch)
    IN <<NewChainOp(chain)>> \o PolicyJumpOps(p, chain)
       \o <<InsertIfAbsentOp(chain, LocalAcceptRule(PodIP[p])),
            InsertIfAbsentOp(chain, EstablishedRule),
            InsertIfAbsentOp(OUTPUT, DivertRule("d", PodIP[p], FALSE, chain)),
            InsertIfAbsentOp(FORWARD, DivertRule("d", PodIP[p], TRUE, chain)),
            AppendUniqueOp(chain, NflogRule(p)),
            AppendUniqueOp(chain, RejectRule(p))>>

\* One iteration of the ingress loop of syncPodFirewallChains.
IngressPodOps(p) ==
    LET chain == PodChain(p, epoch)
    IN <<NewChainOp(chain)>> \o PolicyJumpOps(p, chain)
       \o <<InsertIfAbsentOp(chain, LocalAcceptRule(PodIP[p])),
            InsertIfAbsentOp(chain, EstablishedRule),
            InsertIfAbsentOp(FORWARD, DivertRule("d", PodIP[p], FALSE, chain)),
            InsertIfAbsentOp(OUTPUT, DivertRule("d", PodIP[p], FALSE, chain)),
            InsertIfAbsentOp(FORWARD, DivertRule("d", PodIP[p], TRUE, chain)),
            AppendUniqueOp(chain, NflogRule(p)),
            AppendUniqueOp(chain, RejectRule(p))>>

\* (mutant) The egress loop without the FORWARD "-s pod" diversion.
EgressPodOpsNoForward(p) ==
    LET chain == PodChain(p, epoch)
    IN <<NewChainOp(chain)>> \o PolicyJumpOps(p, chain)
       \o <<InsertIfAbsentOp(chain, EstablishedRule),
            InsertIfAbsentOp(OUTPUT, DivertRule("s", PodIP[p], FALSE, chain)),
            InsertIfAbsentOp(INPUT, DivertRule("s", PodIP[p], FALSE, chain)),
            InsertIfAbsentOp(FORWARD, DivertRule("s", PodIP[p], TRUE, chain)),
            AppendUniqueOp(chain, NflogRule(p)),
            AppendUniqueOp(chain, RejectRule(p))>>

\* One iteration of the egress loop of syncPodFirewallChains.
EgressPodOps(p) ==
    LET chain == PodChain(p, epoch)
    IN <<NewChainOp(chain)>> \o PolicyJumpOps(p, chain)
       \o <<InsertIfAbsentOp(chain, EstablishedRule),
            InsertIfAbsentOp(FORWARD, DivertRule("s", PodIP[p], FALSE, chain)),
            InsertIfAbsentOp(OUTPUT, DivertRule("s", PodIP[p], FALSE, chain)),
            InsertIfAbsentOp(INPUT, DivertRule("s", PodIP[p], FALSE, chain)),
            InsertIfAbsentOp(FORWARD, DivertRule("s", PodIP[p], TRUE, chain)),
            AppendUniqueOp(chain, NflogRule(p)),
            AppendUniqueOp(chain, RejectRule(p))>>

\* (mutants) Cleanup with a primary chain left out.
PrimaryChainsNoOutput == <<FORWARD, INPUT>>
PrimaryChainsNoInput  == <<FORWARD, OUTPUT>>

\* The primary chains cleanupStaleRules unlinks stale pod chains from.
PrimaryChains == <<FORWARD, OUTPUT, INPUT>>

\* (mutant) The stale pod chains flushed and deleted before they are unlinked.
StalePodChainOpsDeleteFirst(stalePod) ==
    FlattenSeq([k \in DOMAIN stalePod |-> <<ClearChainOp(stalePod[k]), DeleteChainOp(stalePod[k])>>])
    \o FlattenSeq([k \in DOMAIN stalePod |->
                    [t \in DOMAIN PrimaryChains |-> DeleteMentioningOp(PrimaryChains[t], stalePod[k])]])

\* Unlink every stale pod chain from the primary chains (by rule number),
\* then flush and delete the stale pod chains.
StalePodChainOps(stalePod) ==
    FlattenSeq([k \in DOMAIN stalePod |->
                  [t \in DOMAIN PrimaryChains |-> DeleteMentioningOp(PrimaryChains[t], stalePod[k])]])
    \o FlattenSeq([k \in DOMAIN stalePod |-> <<ClearChainOp(stalePod[k]), DeleteChainOp(stalePod[k])>>])

\* For each stale policy chain: drop the first jump to it from each active
\* pod chain, flush it, delete it.
StalePolicyChainOps(stalePol, active) ==
    FlattenSeq([k \in DOMAIN stalePol |->
                  [a \in DOMAIN active |-> DeleteFirstMentioningOp(active[a], stalePol[k])]
                  \o <<ClearChainOp(stalePol[k]), DeleteChainOp(stalePol[k])>>])

\* (mutant) The stale ipsets are not destroyed.
CleanupOpsKeepSets(listFails) ==
    LET listed == IF listFails THEN {} ELSE DOMAIN kern.chains
    IN StalePodChainOps(ListOf({c \in listed \cap PodChains : c \notin activePodFwChains}))
       \o StalePolicyChainOps(ListOf({c \in listed \cap PolChains : c \notin activePolicyChains}),
                              ListOf(activePodFwChains))

\* cleanupStaleRules: chains from ListChains, sets from ipset save, minus the
\* active ones.  listFails = ListChains returned an error, which the code
\* does not check: no chain is then found stale.
CleanupOps(listFails) ==
    LET listed == IF listFails THEN {} ELSE DOMAIN kern.chains
    IN StalePodChainOps(ListOf({c \in listed \cap PodChains : c \notin activePodFwChains}))
       \o StalePolicyChainOps(ListOf({c \in listed \cap PolChains : c \notin activePolicyChains}),
                              ListOf(activePodFwChains))
       \o [k \in DOMAIN ListOf(DOMAIN kern.sets \ activePolicyIpSets) |->
             DestroySetOp(ListOf(DOMAIN kern.sets \ activePolicyIpSets)[k])]

(***************************************************************************)
(* Outcomes of a step: all calls succeed (or the kernel refuses one), an  *)
(* injected error stops the step at a critical call, or an injected       *)
(* error the code only logs or ignores skips that call: a Refresh, or the *)
(* List of an active pod chain in cleanupStaleRules.                      *)
(***************************************************************************)
CanFail(kind) == kind \in FailurePoints /\ failures < MaxFailures

\* Whether op o, run on kernel k, issues a call that can fail: the loop
\* over an active pod chain issues a Delete only for a rule naming the
\* stale chain.
Issues(k, o) ==
    o.op = "deleteFirstMentioning" => \E i \in DOMAIN k.chains[o.c] : Mentions(k.chains[o.c][i], o.n)

Outcomes(ops) ==
    LET Run(os, st, dg, f) == LET r == Exec(kern, os)
                              IN [kern |-> r.kern, status |-> IF r.ok THEN st ELSE "refused",
                                  degraded |-> dg, failed |-> f]
        Before(k) == Exec(kern, SubSeq(ops, 1, k - 1)).kern
    IN {Run(ops, "ok", FALSE, FALSE)}
       \cup (IF CanFail("command")
             THEN {Run(SubSeq(ops, 1, k - 1), "injected", FALSE, TRUE) :
                     k \in {k \in DOMAIN ops : ops[k].critical /\ Issues(Before(k), ops[k])}}
                  \cup {Run(RemoveAt(ops, k), "ok", FALSE, TRUE) :
                     k \in {k \in DOMAIN ops : ops[k].op = "deleteFirstMentioning"}}
             ELSE {})
       \cup (IF CanFail("refresh")
             THEN {Run(RemoveAt(ops, k), "ok", TRUE, TRUE) :
                     k \in {k \in DOMAIN ops : ops[k].op = "refresh"}}
             ELSE {})

Abort(status) ==
    /\ pc' = "idle"
    /\ lastSync' = status
    /\ todo' = {}
    /\ UNCHANGED <<activePolicyChains, activePodFwChains, activePolicyIpSets, gens>>

\* Run the step's calls; on success the step continues with cont.
Step(ops, extraFailure, cont) ==
    \E o \in Outcomes(ops) :
        /\ kern' = o.kern
        /\ failures' = failures + (IF o.failed THEN 1 ELSE 0)
                                + extraFailure
        /\ degraded' = (degraded \/ o.degraded)
        /\ IF o.status = "ok" THEN cont ELSE Abort(o.status)

(***************************************************************************)
(* Actions of Sync.                                                       *)
(***************************************************************************)

UsedEpochs == {c.epoch : c \in DOMAIN kern.chains \ TopChains}

\* Lock the mutex, take a fresh syncVersion, build networkPoliciesInfo with
\* the builder of the API the controller was started for.
SyncStart ==
    /\ pc = "idle"
    /\ \E e \in Epochs \ UsedEpochs :
         /\ epoch' = e
         /\ \A e2 \in Epochs \ UsedEpochs : e <= e2
    /\ \E f \in IF V1 THEN buildNetworkPoliciesInfo(npStore, running)
                 ELSE buildBetaNetworkPoliciesInfo(npStore, running) :
         /\ info' = f
         /\ todo' = DOMAIN f
    /\ pc' = "policies"
    /\ activePolicyChains' = {} /\ activePodFwChains' = {} /\ activePolicyIpSets' = {}
    /\ dirty' = FALSE
    /\ degraded' = FALSE
    /\ snap' = Snapshot
    /\ gens' = gens \cup {Snapshot}
    /\ UNCHANGED <<npStore, running, changes, kern, lastSync, failures>>

SyncPolicy(q) ==
    /\ pc = "policies"
    /\ q \in todo
    /\ Step(PolicyOps(q), 0,
            /\ todo' = todo \ {q}
            /\ activePolicyChains' = activePolicyChains \cup {PolChain(q, epoch)}
            /\ activePolicyIpSets' = activePolicyIpSets \cup CreatedSets(PolicyOps(q))
            /\ UNCHANGED <<pc, activePodFwChains, lastSync, gens>>)
    /\ UNCHANGED <<clusterVars, epoch, info, snap>>

\* syncPodFirewallChains lists the pods for one of its two loops.
SyncPodLoop(from, to, types) ==
    /\ pc = from
    /\ todo = {}
    /\ pc' = to
    /\ todo' = EnabledPods(types)
    /\ UNCHANGED <<clusterVars, kern, epoch, info, activePolicyChains, activePodFwChains,
                   activePolicyIpSets, lastSync, degraded, failures, snap, gens>>

\* (mutant) The pod chain recorded in the policy chains' map.
SyncPodWrongMap(p, phase, ops) ==
    /\ pc = phase
    /\ p \in todo
    /\ Step(ops, 0,
            /\ todo' = todo \ {p}
            /\ activePolicyChains' = activePolicyChains \cup {PodChain(p, epoch)}
            /\ UNCHANGED <<pc, activePodFwChains, activePolicyIpSets, lastSync, gens>>)
    /\ UNCHANGED <<clusterVars, epoch, info, snap>>

SyncPod(p, phase, ops) ==
    /\ pc = phase
    /\ p \in todo
    /\ Step(ops, 0,
            /\ todo' = todo \ {p}
            /\ activePodFwChains' = activePodFwChains \cup {PodChain(p, epoch)}
            /\ UNCHANGED <<pc, activePolicyChains, activePolicyIpSets, lastSync, gens>>)
    /\ UNCHANGED <<clusterVars, epoch, info, snap>>

Cleanup ==
    /\ pc = "cleanup"
    /\ \E listFails \in IF CanFail("listChains") THEN BOOLEAN ELSE {FALSE} :
         Step(CleanupOps(listFails), IF listFails THEN 1 ELSE 0,
              /\ pc' = "idle"
              /\ lastSync' = "ok"
              /\ gens' = {snap}
              /\ UNCHANGED <<todo, activePolicyChains, activePodFwChains, activePolicyIpSets>>)
    /\ UNCHANGED <<clusterVars, epoch, info, snap>>

SyncStep ==
    \/ SyncStart
    \/ \E q \in Policies : SyncPolicy(q)
    \/ SyncPodLoop("policies", "ingressPods", {"both", "ingress"})
    \/ \E p \in Pods : SyncPod(p, "ingressPods", IngressPodOps(p))
    \/ SyncPodLoop("ingressPods", "egressPods", {"both", "egress"})
    \/ \E p \in Pods : SyncPod(p, "egressPods", EgressPodOps(p))
    \/ SyncPodLoop("egressPods", "cleanup", {})
    \/ Cleanup

(***************************************************************************)
(* The orchestrator: policies are added, updated and deleted, pods get or *)
(* lose their IP, at any time, also during a sync.                        *)
(***************************************************************************)
PolicyEvent(q) ==
    /\ changes < MaxChanges
    /\ \E s \in (PolicySpecs[q] \cup {Absent}) \ {npStore[q]} :
         npStore' = [npStore EXCEPT ![q] = s]
    /\ changes' = changes + 1
    /\ dirty' = TRUE
    /\ UNCHANGED <<running, syncVars, kern>>

PodEvent(p) ==
    /\ changes < MaxChanges
    /\ p \notin running => PodsAt(running, PodIP[p]) = {}     \* IPAM hands out free IPs
    /\ running' = IF p \in running THEN running \ {p} ELSE running \cup {p}
    /\ changes' = changes + 1
    /\ dirty' = TRUE
    /\ UNCHANGED <<npStore, syncVars, kern>>

ClusterStep == \/ \E q \in Policies : PolicyEvent(q)
               \/ \E p \in Pods : PodEvent(p)

Init ==
    /\ npStore = InitStore
    /\ running = InitRunning
    /\ changes = 0
    /\ dirty = TRUE
    /\ pc = "idle"
    /\ epoch = CHOOSE e \in Epochs : \A e2 \in Epochs : e <= e2
    /\ info = [q \in {} |-> Nil]
    /\ todo = {}
    /\ activePolicyChains = {} /\ activePodFwChains = {} /\ activePolicyIpSets = {}
    /\ kern = KernelInit
    /\ lastSync = "none"
    /\ degraded = FALSE
    /\ failures = 0
    /\ snap = Snapshot
    /\ gens = {}

Next == SyncStep \/ ClusterStep

\* The Run loop's ticker keeps starting syncs and a started sync runs on.
Spec == Init /\ [][Next]_vars /\ WF_vars(SyncStep)

\* ClusterStep is bounded by MaxChanges, so every behaviour ends in steps of
\* SyncStep alone; there nothing else can disable it, and a state where it is
\* disabled would be a deadlock, which the runs check.  Weak fairness of it is
\* then the same as its taking infinitely many steps, and TLC checks this form
\* much faster than ENABLED of the recursive driver calls.
LiveSpec == Init /\ [][Next]_vars /\ []<><<SyncStep>>_vars

(***************************************************************************)
(* Properties                                                             *)
(***************************************************************************)

TypeOK ==
    /\ \A q \in Policies : npStore[q] \in PolicySpecs[q] \cup {Absent}
    /\ running \subseteq Pods
    /\ changes \in 0..MaxChanges /\ failures \in 0..MaxFailures
    /\ dirty \in BOOLEAN /\ degraded \in BOOLEAN
    /\ pc \in {"idle", "policies", "ingressPods", "egressPods", "cleanup"}
    /\ epoch \in Epochs
    /\ todo \subseteq Policies \cup Pods
    /\ activePolicyChains \subseteq PolChains /\ activePodFwChains \subseteq PodChains
    /\ TopChains \subseteq DOMAIN kern.chains /\ DOMAIN kern.chains \subseteq ChainNames
    /\ lastSync \in {"none", "ok", "injected", "refused"}

\* The last Sync returned nil, nothing changed since its snapshot and none of
\* its Refresh calls failed.
Converged == pc = "idle" /\ lastSync = "ok" /\ ~dirty /\ ~degraded

\* After a successful, undisturbed Sync the filter table accepts exactly the
\* packets the policies allow: the chains built by syncNetworkPolicyChains,
\* the pod chains and FORWARD/OUTPUT/INPUT diversions of
\* syncPodFirewallChains, and what cleanupStaleRules left, together.
EnforcesPolicies ==
    Converged =>
        \A pkt \in ForwardedPackets(running) :
            (Verdict(kern, pkt) = "ACCEPT") <=> Allowed(npStore, running, pkt)

\* After Sync returns nil, cleanupStaleRules has left exactly the chains and
\* ipsets this sync marked active: nothing of an earlier syncVersion or of a
\* deleted policy or pod survives.
NoStaleArtifacts ==
    pc = "idle" /\ lastSync = "ok" =>
        /\ DOMAIN kern.chains \ TopChains = activePolicyChains \cup activePodFwChains
        /\ DOMAIN kern.sets = activePolicyIpSets

\* The kernel never refuses a call Sync makes: no chain is deleted while a
\* rule still jumps to it, no ipset destroyed while a rule matches it, no
\* rule appended that names a missing chain or set, no rule deleted by a
\* number that does not exist.
NoKernelRefusal == lastSync # "refused"

\* While the last Sync succeeded, also in the middle of the next one, every
\* packet the kernel accepts is allowed by the policies of some snapshot
\* whose chains may still be installed (the old syncVersion's until
\* cleanupStaleRules, the new one's from its first step): a reconcile moves
\* from the old rule set to the new one without opening anything neither
\* allows.  ipset names carry no syncVersion, so old chains match sets that
\* syncNetworkPolicyChains has already refreshed.
TransitionSafety ==
    lastSync = "ok" =>
        \A pkt \in ForwardedPackets(running) :
            Verdict(kern, pkt) = "ACCEPT" => \E g \in gens : Allowed(g.store, g.running, pkt)

\* A Refresh whose error syncNetworkPolicyChains only logs leaves a set with
\* the members of an earlier sync, and Sync still returns nil; even then the
\* filter table accepts nothing the current policies forbid: a stale set
\* only ever withholds an ACCEPT.
StaleSetsFailClosed ==
    pc = "idle" /\ lastSync = "ok" /\ ~dirty =>
        \A pkt \in ForwardedPackets(running) :
            Verdict(kern, pkt) = "ACCEPT" => Allowed(npStore, running, pkt)

\* The periodic sync of Run brings the kernel back to a converged state
\* whenever the store and the failures stop.
EventuallyConverged == []<>Converged

=============================================================================
