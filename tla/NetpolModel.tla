----------------------------- MODULE NetpolModel -----------------------------
(***************************************************************************)
(* The orchestrator objects the network policy controller reads, the      *)
(* Policy Model Builder that turns them into networkPolicyInfo records    *)
(* (buildNetworkPoliciesInfo and its helpers), and the reference meaning  *)
(* of the policies: which pod-to-pod and external packets a node must     *)
(* accept.                                                                *)
(*                                                                        *)
(* Data abstraction: a pod has an IP (PodIP), which a later pod may be    *)
(* given once it is free; a pod carries one label value and a label       *)
(* selector is the set of values it accepts; a CIDR is a name with the    *)
(* set of addresses it covers; comments and log text are left out.        *)
(***************************************************************************)
EXTENDS Integers, FiniteSets, Sequences, SequencesExt, TLC

CONSTANTS
    Pods,             \* pod objects (namespace/name identities)
    Namespaces,
    Policies,         \* network policy objects (namespace/name identities)
    LabelValues,      \* values of the pod and namespace label
    Protocols,
    PortNumbers,      \* numeric container ports
    PortNames,        \* named container ports
    ExternalAddrs,    \* addresses outside the pod network
    Cidrs,            \* CIDR strings appearing in ipBlock peers
    Nil,              \* a nil pointer / missing field
    Absent,           \* a policy that is not in the orchestrator store
    PodIP,            \* [Pods -> addresses]: Status.PodIP while the pod runs
    PodNamespace,     \* [Pods -> Namespaces]
    PodLabel,         \* [Pods -> LabelValues]
    PodLocal,         \* [Pods -> BOOLEAN]: Status.HostIP equals the node IP
    PodPorts,         \* [Pods -> SUBSET [name, protocol, port]]: container ports
    NamespaceLabel,   \* [Namespaces -> LabelValues]
    PolicyNamespace,  \* [Policies -> Namespaces]
    PolicySpecs,      \* [Policies -> SUBSET PolicySpec]: versions a policy may take
    CidrAddrs,        \* [Cidrs -> SUBSET Addrs]
    CidrPrefixLen     \* [Cidrs -> Nat]

Addrs == {PodIP[p] : p \in Pods} \cup ExternalAddrs

\* The Status.PodIP values of some pods, as the code collects them.
IPsOf(ps) == {PodIP[p] : p \in ps}

\* The running pod that holds address a, if any (as a set of at most one).
PodsAt(running, a) == {p \in running : PodIP[p] = a}

(* Pod IPs come from the node's pod CIDR: pods sharing an IP share a node. *)
ASSUME \A p, o \in Pods : PodIP[p] = PodIP[o] => PodLocal[p] = PodLocal[o]

(* The two halves the code substitutes for a "/0" block, evalIPBlockPeer. *)
LowHalf  == "0.0.0.0/1"
HighHalf == "128.0.0.0/1"

ASSUME {LowHalf, HighHalf} \subseteq Cidrs /\ CidrPrefixLen[LowHalf] = 1
       /\ CidrPrefixLen[HighHalf] = 1

(* The API server defaults policyTypes, so the controller never sees it empty. *)
ASSUME \A q \in Policies : \A s \in PolicySpecs[q] : s.policyTypes # {}

(***************************************************************************)
(* Selectors and listers.                                                 *)
(***************************************************************************)

\* ListPodsByNamespaceAndLabels: the lister returns every pod, with or
\* without an IP; callers skip the ones whose PodIP is "".
ListPodsByNamespaceAndLabels(ns, sel) ==
    {p \in Pods : PodNamespace[p] = ns /\ PodLabel[p] \in sel}

ListNamespaceByLabels(sel) == {n \in Namespaces : NamespaceLabel[n] \in sel}

\* evalPodPeer: namespaceSelector (with optional podSelector, default
\* Everything) across matching namespaces, else podSelector in the policy's
\* namespace, else no pods.
evalPodPeer(q, peer) ==
    IF peer.namespaceSelector # Nil
    THEN UNION {ListPodsByNamespaceAndLabels(n,
                    IF peer.podSelector # Nil THEN peer.podSelector ELSE LabelValues)
                : n \in ListNamespaceByLabels(peer.namespaceSelector)}
    ELSE IF peer.podSelector # Nil
         THEN ListPodsByNamespaceAndLabels(PolicyNamespace[q], peer.podSelector)
         ELSE {}

\* An ipset entry of a hash:net set: the block and the nomatch option.
Entry(c, nomatch) == [cidr |-> c, nomatch |-> nomatch]

\* evalIPBlockPeer: a "/0" CIDR (or except) becomes the two "/1" halves.
evalIPBlockPeer(peer) ==
    LET Expand(c, nm) == IF CidrPrefixLen[c] = 0
                         THEN <<Entry(LowHalf, nm), Entry(HighHalf, nm)>>
                         ELSE <<Entry(c, nm)>>
    IN IF peer.podSelector = Nil /\ peer.namespaceSelector = Nil /\ peer.ipBlock # Nil
       THEN Expand(peer.ipBlock.cidr, FALSE)
              \o FlattenSeq([i \in DOMAIN peer.ipBlock.except |->
                               Expand(peer.ipBlock.except[i], TRUE)])
       ELSE <<>>

(***************************************************************************)
(* Named ports (grabNamedPortFromPod, processNetworkPolicyPorts).          *)
(***************************************************************************)

\* The endPoints records of namedPort2eps[name][protocol]: one per numeric
\* port, holding the IPs of the given pods that expose (name, protocol) on it.
NamedPortEndpoints(pods, name, proto) ==
    LET decl == {d \in UNION {PodPorts[p] : p \in pods} :
                    d.name = name /\ d.protocol = proto}
    IN {[protocol |-> proto, port |-> n,
         ips |-> IPsOf({p \in pods : [name |-> name, protocol |-> proto, port |-> n] \in PodPorts[p]})]
        : n \in {d.port : d \in decl}}

IsNamed(pp) == pp.port \in PortNames

\* The numeric half of processNetworkPolicyPorts: a nil port keeps only the
\* protocol.
NumericPorts(ports) ==
    LET num == SelectSeq(ports, LAMBDA pp : ~IsNamed(pp))
    IN [i \in DOMAIN num |-> [protocol |-> num[i].protocol, port |-> num[i].port]]

\* The named half: each named entry expands to all its endpoints, in the
\* iteration order of a Go map, which differs from one build to the next.
RECURSIVE NamedPortChoices(_, _)
NamedPortChoices(ports, pods) ==
    IF ports = <<>> THEN {<<>>}
    ELSE LET pp == Head(ports)
             here == IF IsNamed(pp)
                     THEN SetToSeqs(NamedPortEndpoints(pods, pp.port, pp.protocol))
                     ELSE {<<>>}
         IN {h \o t : h \in here, t \in NamedPortChoices(Tail(ports), pods)}

(***************************************************************************)
(* buildNetworkPoliciesInfo                                               *)
(***************************************************************************)

\* The policyType string derived from Spec.PolicyTypes.
PolicyTypeOf(s) ==
    IF s.policyTypes = {"Ingress", "Egress"} THEN "both"
    ELSE IF s.policyTypes = {"Egress"} THEN "egress" ELSE "ingress"

\* All ingressRule (or egressRule) values one spec rule can build into, given
\* the running pods; named ports resolve against the policy's targets for
\* ingress, against the rule's own peers for egress.
RuleInfos(q, r, running, dir, targets) ==
    LET peerPods == UNION {evalPodPeer(q, r.peers[i]) : i \in DOMAIN r.peers} \cap running
        blocks   == FlattenSeq([i \in DOMAIN r.peers |-> evalIPBlockPeer(r.peers[i])])
        matchAllPeers == r.peers = <<>>
        matchAllPorts == r.ports = <<>>
    IN {[matchAllPorts |-> matchAllPorts,
         ports         |-> IF matchAllPorts THEN <<>> ELSE NumericPorts(r.ports),
         namedPorts    |-> np,
         matchAllPeers |-> matchAllPeers,
         peerPods      |-> IF matchAllPeers THEN {} ELSE peerPods,
         ipBlocks      |-> IF matchAllPeers THEN <<>> ELSE blocks]
        : np \in IF matchAllPorts THEN {<<>>}
                 ELSE NamedPortChoices(r.ports, IF dir = "ingress" THEN targets ELSE peerPods)}

\* The sequences that pick one element of each set of a sequence of sets.
RECURSIVE SeqChoices(_)
SeqChoices(s) ==
    IF s = <<>> THEN {<<>>}
    ELSE {<<h>> \o t : h \in Head(s), t \in SeqChoices(Tail(s))}

\* The networkPolicyInfo records a present policy may build into.
PolicyInfos(q, s, running) ==
    LET targets == ListPodsByNamespaceAndLabels(PolicyNamespace[q], s.podSelector) \cap running
        inChoices == IF s.ingress = Nil THEN {Nil}
                     ELSE SeqChoices([i \in DOMAIN s.ingress |->
                                RuleInfos(q, s.ingress[i], running, "ingress", targets)])
        egChoices == IF s.egress = Nil THEN {Nil}
                     ELSE SeqChoices([i \in DOMAIN s.egress |->
                                RuleInfos(q, s.egress[i], running, "egress", targets)])
    IN {[namespace |-> PolicyNamespace[q], targetPods |-> targets,
         policyType |-> PolicyTypeOf(s), ingressRules |-> ir, egressRules |-> er]
        : ir \in inChoices, er \in egChoices}

\* Every function from the domain of f picking one element of each f[x].
RECURSIVE PickEach(_)
PickEach(f) ==
    IF DOMAIN f = {} THEN {[x \in {} |-> Nil]}
    ELSE LET d == CHOOSE d \in DOMAIN f : TRUE
             rest == [x \in DOMAIN f \ {d} |-> f[x]]
         IN {(d :> v) @@ g : v \in f[d], g \in PickEach(rest)}

\* buildNetworkPoliciesInfo over a store snapshot and the running pods.
buildNetworkPoliciesInfo(store, running) ==
    LET present == {q \in Policies : store[q] # Absent}
    IN PickEach([q \in present |-> PolicyInfos(q, store[q], running)])

(***************************************************************************)
(* buildBetaNetworkPoliciesInfo: the builder for the deprecated           *)
(* extensions/v1beta1 API.  A peer is resolved through its podSelector     *)
(* only (a nil one selects nothing: LabelSelectorAsSelector(nil)), no     *)
(* ipBlock, no matchAll flags, no egress rules, and policyType is never   *)
(* assigned: it keeps Go's zero value "".  processBetaNetworkPolicyPorts  *)
(* is line for line processNetworkPolicyPorts.                            *)
(***************************************************************************)

BetaRuleInfos(q, r, running, targets) ==
    LET sels == {r.peers[i].podSelector : i \in DOMAIN r.peers} \ {Nil}
        srcPods == UNION {ListPodsByNamespaceAndLabels(PolicyNamespace[q], sel) : sel \in sels}
                   \cap running
    IN {[matchAllPorts |-> FALSE, ports |-> NumericPorts(r.ports), namedPorts |-> np,
         matchAllPeers |-> FALSE, peerPods |-> srcPods, ipBlocks |-> <<>>]
        : np \in NamedPortChoices(r.ports, targets)}

BetaPolicyInfos(q, s, running) ==
    LET targets == ListPodsByNamespaceAndLabels(PolicyNamespace[q], s.podSelector) \cap running
        rules == IF s.ingress = Nil THEN <<>> ELSE s.ingress
    IN {[namespace |-> PolicyNamespace[q], targetPods |-> targets,
         policyType |-> "", ingressRules |-> ir, egressRules |-> Nil]
        : ir \in SeqChoices([i \in DOMAIN rules |-> BetaRuleInfos(q, rules[i], running, targets)])}

buildBetaNetworkPoliciesInfo(store, running) ==
    LET present == {q \in Policies : store[q] # Absent}
    IN PickEach([q \in present |-> BetaPolicyInfos(q, store[q], running)])

(***************************************************************************)
(* Reference semantics (the policy meaning the spec states): a packet to  *)
(* a local pod selected by an ingress policy must be allowed by one of    *)
(* its ingress rules, a packet from a local pod selected by an egress     *)
(* policy must be allowed by one of its egress rules.                     *)
(***************************************************************************)

Packet == [src : Addrs, dst : Addrs, protocol : Protocols, port : PortNumbers]

PeerAdmits(q, peer, a, running) ==
    IF peer.podSelector = Nil /\ peer.namespaceSelector = Nil
    THEN /\ peer.ipBlock # Nil
         /\ a \in CidrAddrs[peer.ipBlock.cidr]
         /\ \A i \in DOMAIN peer.ipBlock.except : a \notin CidrAddrs[peer.ipBlock.except[i]]
    ELSE a \in IPsOf(evalPodPeer(q, peer) \cap running)

PortAdmits(pp, pkt, running) ==
    /\ pp.protocol = pkt.protocol
    /\ \/ pp.port = Nil
       \/ pp.port = pkt.port
       \/ /\ IsNamed(pp)
          /\ \E d \in PodsAt(running, pkt.dst) :
                [name |-> pp.port, protocol |-> pp.protocol, port |-> pkt.port] \in PodPorts[d]

RuleAdmits(q, r, peer, pkt, running) ==
    /\ r.peers = <<>> \/ \E i \in DOMAIN r.peers : PeerAdmits(q, r.peers[i], peer, running)
    /\ r.ports = <<>> \/ \E i \in DOMAIN r.ports : PortAdmits(r.ports[i], pkt, running)

Selects(store, q, p) == store[q] # Absent /\ PolicyNamespace[q] = PodNamespace[p]
                        /\ PodLabel[p] \in store[q].podSelector

\* Whether dir ("Ingress"/"Egress") traffic of local pod p admits the packet.
SideAllows(store, running, p, dir, pkt) ==
    LET sel == {q \in Policies : Selects(store, q, p) /\ dir \in store[q].policyTypes}
        rules(q) == LET rs == IF dir = "Ingress" THEN store[q].ingress ELSE store[q].egress
                    IN IF rs = Nil THEN <<>> ELSE rs
        peer == IF dir = "Ingress" THEN pkt.src ELSE pkt.dst
    IN \/ ~PodLocal[p]
       \/ sel = {}
       \/ \E q \in sel : \E i \in DOMAIN rules(q) : RuleAdmits(q, rules(q)[i], peer, pkt, running)

Allowed(store, running, pkt) ==
    /\ \A p \in PodsAt(running, pkt.dst) : SideAllows(store, running, p, "Ingress", pkt)
    /\ \A p \in PodsAt(running, pkt.src) : SideAllows(store, running, p, "Egress", pkt)

\* The packets that cross this node's FORWARD chain: between distinct live
\* addresses, at least one end a local pod.
ForwardedPackets(running) ==
    {pkt \in Packet : /\ pkt.src # pkt.dst
                      /\ {pkt.src, pkt.dst} \subseteq IPsOf(running) \cup ExternalAddrs
                      /\ {pkt.src, pkt.dst} \cap IPsOf({p \in running : PodLocal[p]}) # {}}

=============================================================================
