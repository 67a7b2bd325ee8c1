---------------------------- MODULE MCNetpolSync -----------------------------
(***************************************************************************)
(* Instances of NetpolSync for TLC.  One namespace, two pods on this node *)
(* (a "web" client and a "db" server), one pod on another node, one       *)
(* external address and its block.                                       *)
(***************************************************************************)
EXTENDS NetpolSync

MCPods == {"pa", "pb", "pc"}
\* Each pod has an IP of its own (named after it).
MCPodIP == [p \in MCPods |-> p]
MCPodNamespace == [p \in MCPods |-> "ns"]
MCPodLabel == ("pa" :> "web") @@ ("pb" :> "db") @@ ("pc" :> "web")
MCPodLocal == ("pa" :> TRUE) @@ ("pb" :> TRUE) @@ ("pc" :> FALSE)
MCPodPorts == ("pa" :> {}) @@ ("pc" :> {})
              @@ ("pb" :> {[name |-> "sql", protocol |-> "TCP", port |-> "5432"]})
MCNamespaceLabel == [n \in {"ns"} |-> "web"]

MCCidrs == {"0.0.0.0/0", "0.0.0.0/1", "128.0.0.0/1", "10.0.0.0/8"}
MCCidrAddrs == ("0.0.0.0/0" :> {"ext", "pa", "pb", "pc"}) @@ ("0.0.0.0/1" :> {"ext", "pa"})
               @@ ("128.0.0.0/1" :> {"pb", "pc"}) @@ ("10.0.0.0/8" :> {"ext"})
MCCidrPrefixLen == ("0.0.0.0/0" :> 0) @@ ("0.0.0.0/1" :> 1) @@ ("128.0.0.0/1" :> 1)
                   @@ ("10.0.0.0/8" :> 8)

PodPeer(sel) == [podSelector |-> sel, namespaceSelector |-> Nil, ipBlock |-> Nil]
BlockPeer(c, ex) == [podSelector |-> Nil, namespaceSelector |-> Nil,
                     ipBlock |-> [cidr |-> c, except |-> ex]]
Port(n) == [protocol |-> "TCP", port |-> n]
IngressOnly(sel, rules) ==
    [podSelector |-> sel, policyTypes |-> {"Ingress"}, ingress |-> rules, egress |-> Nil]

\* "db" admits "web" pods on its named port; later also the external block
\* on any port.  "web" isolates its pods (no ingress rules).
DbFromWeb   == IngressOnly({"db"}, <<[peers |-> <<PodPeer({"web"})>>, ports |-> <<Port("sql")>>]>>)
DbFromBlock == IngressOnly({"db"}, <<[peers |-> <<PodPeer({"web"})>>, ports |-> <<Port("5432")>>],
                                     [peers |-> <<BlockPeer("10.0.0.0/8", <<>>)>>, ports |-> <<>>]>>)
WebIsolated == IngressOnly({"web"}, Nil)
DbIsolated  == IngressOnly({"db"}, Nil)

MCPolicies == {"qdb", "qweb"}
MCPolicyNamespace == [q \in MCPolicies |-> "ns"]
IngressSpecs == ("qdb" :> {DbFromWeb, DbFromBlock}) @@ ("qweb" :> {WebIsolated})
IngressInitStore == ("qdb" :> DbFromWeb) @@ ("qweb" :> Absent)

\* "db" admits "web" pods on a named port no "db" container declares.
DbFromWebHttp == IngressOnly({"db"}, <<[peers |-> <<PodPeer({"web"})>>, ports |-> <<Port("http")>>]>>)

\* Namespaces "a" and "ab", each with a local "db" pod; policy "bc" of "a"
\* isolates its "db" pods, policy "c" of "ab" admits everybody to its own.
\* "a" + "bc" and "ab" + "c" are the same hash input.
CollPodNamespace == ("pa" :> "a") @@ ("pb" :> "ab") @@ ("pc" :> "a")
CollPodLabel == ("pa" :> "db") @@ ("pb" :> "db") @@ ("pc" :> "web")
CollNamespaceLabel == ("a" :> "web") @@ ("ab" :> "web")
CollPolicies == {"bc", "c"}
CollPolicyNamespace == ("bc" :> "a") @@ ("c" :> "ab")
OpenToAll == IngressOnly({"db"}, <<[peers |-> <<>>, ports |-> <<>>]>>)
CollSpecs == ("bc" :> {DbIsolated}) @@ ("c" :> {OpenToAll})
CollInitStore == ("bc" :> DbIsolated) @@ ("c" :> OpenToAll)

\* Rule and named-port indices up to 11: twelve rules, or twelve endpoints
\* of the named ports of one rule.
RuleIndices == 0..11

\* Chain and ipset names are unique per object: distinct policies of the
\* store get distinct chains (networkPolicyChainName) and target ipsets
\* (policyDestinationPodIpSetName), and distinct (rule, named port) index
\* pairs of one policy get distinct named-port ipsets
\* (policyIndexedIngressNamedPortIpSetName).  Else two policies or two
\* rules share one chain or one set, and the last refresh decides for both.
ArtifactNamesDistinct ==
    LET present == {q \in Policies : npStore[q] # Absent}
    IN /\ \A q1, q2 \in present : q1 # q2 =>
             /\ PolChain(q1, epoch) # PolChain(q2, epoch)
             /\ SetName("tgtDst", q1, 0, 0) # SetName("tgtDst", q2, 0, 0)
       /\ \A q \in present : \A i1, j1, i2, j2 \in RuleIndices :
             <<i1, j1>> # <<i2, j2>> => SetName("inNamed", q, i1, j1) # SetName("inNamed", q, i2, j2)

\* Egress: "web" may reach "db" (by number or by name) and every address
\* outside 10.0.0.0/8; "db" may open no connection, or instead "db" admits
\* "web" on every port (an ingress policy that agrees with the egress ones).
EgressOnly(sel, rules) ==
    [podSelector |-> sel, policyTypes |-> {"Egress"}, ingress |-> Nil, egress |-> rules]
WebToDb      == EgressOnly({"web"}, <<[peers |-> <<PodPeer({"db"})>>, ports |-> <<Port("5432")>>],
                                     [peers |-> <<BlockPeer("0.0.0.0/0", <<"10.0.0.0/8">>)>>,
                                      ports |-> <<>>]>>)
WebToDbNamed == EgressOnly({"web"}, <<[peers |-> <<PodPeer({"db"})>>, ports |-> <<Port("sql")>>]>>)
DbEgressIsolated == EgressOnly({"db"}, Nil)
DbFromWebAll == IngressOnly({"db"}, <<[peers |-> <<PodPeer({"web"})>>, ports |-> <<>>]>>)
EgressSpecs == ("qdb" :> {DbEgressIsolated, DbFromWebAll}) @@ ("qweb" :> {WebToDb, WebToDbNamed})
EgressInitStore == ("qdb" :> Absent) @@ ("qweb" :> WebToDb)

\* "db" admits nobody; then either "web" gets an egress policy to "db", or
\* "db" admits "web" on a named port no "db" container declares.
BypassSpecs == ("qdb" :> {DbIsolated, DbFromWebHttp}) @@ ("qweb" :> {WebToDb})
BypassInitStore == ("qdb" :> DbIsolated) @@ ("qweb" :> Absent)

\* Two servers expose the named port "sql" on different numbers, and one
\* policy admits everybody to "sql" on both.
TransPodPorts == ("pc" :> {})
                 @@ ("pa" :> {[name |-> "sql", protocol |-> "TCP", port |-> "8080"]})
                 @@ ("pb" :> {[name |-> "sql", protocol |-> "TCP", port |-> "5432"]})
AllToSql == IngressOnly({"web", "db"}, <<[peers |-> <<>>, ports |-> <<Port("sql")>>]>>)
TransSpecs == ("qdb" :> {AllToSql}) @@ ("qweb" :> {})
TransInitStore == ("qdb" :> AllToSql) @@ ("qweb" :> Absent)

\* IP reuse: "pd", a "db" pod, is given the IP of "pa" once "pa" is gone;
\* "db" admits "web" pods on 5432, or after an edit "db" pods only.
ReusePods == MCPods \cup {"pd"}
ReusePodIP == MCPodIP @@ ("pd" :> "pa")
ReusePodNamespace == [p \in ReusePods |-> "ns"]
ReusePodLabel == MCPodLabel @@ ("pd" :> "db")
ReusePodLocal == MCPodLocal @@ ("pd" :> TRUE)
ReusePodPorts == MCPodPorts @@ ("pd" :> {})
DbFromWebNum == IngressOnly({"db"}, <<[peers |-> <<PodPeer({"web"})>>, ports |-> <<Port("5432")>>]>>)
DbFromDbNum == IngressOnly({"db"}, <<[peers |-> <<PodPeer({"db"})>>, ports |-> <<Port("5432")>>]>>)
ReuseSpecs == ("qdb" :> {DbFromWebNum, DbFromDbNum}) @@ ("qweb" :> {})
ReuseInitStore == ("qdb" :> DbFromWebNum) @@ ("qweb" :> Absent)

====
