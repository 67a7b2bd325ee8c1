----------------------------- MODULE NetpolKernel ----------------------------
(***************************************************************************)
(* The kernel state the controller writes through its two drivers (the    *)
(* go-iptables Packet-Filter Driver and the ipset Address-Set Driver,     *)
(* neither of which is part of this repository: their semantics is taken *)
(* from the spec) and the way the filter table treats a packet.           *)
(*                                                                        *)
(* A driver call is an operation record; ApplyOp gives its effect, or its *)
(* refusal by the kernel.  Verdict walks the FORWARD chain the way        *)
(* netfilter does: first matching rule, jump and return, ACCEPT and REJECT *)
(* end the traversal, NFLOG does not.                                     *)
(***************************************************************************)
EXTENDS NetpolModel

CONSTANT Epochs   \* reconciliation epochs (syncVersion timestamps)

\* The built-in chains, named like the others so that all chain names compare.
Builtin(name) == [kind |-> "builtin", input |-> name, epoch |-> 0]
FORWARD == Builtin("FORWARD")
OUTPUT  == Builtin("OUTPUT")
INPUT   == Builtin("INPUT")
TopChains == {FORWARD, OUTPUT, INPUT}

\* strconv.Itoa of a natural number.
RECURSIVE Itoa(_)
Itoa(n) == IF n < 10 THEN ToString(n) ELSE Itoa(n \div 10) \o ToString(n % 10)

\* podFirewallChainName / networkPolicyChainName: prefix plus the hash of
\* the concatenation namespace + name + version.  SHA-256 is taken as
\* injective on its input; the version (UnixNano, always 19 digits) is kept
\* as a field, which is the same since its length is fixed.
PodChain(p, e) == [kind |-> "pod", input |-> PodNamespace[p] \o p, epoch |-> e]
PolChain(q, e) == [kind |-> "pol", input |-> PolicyNamespace[q] \o q, epoch |-> e]

PodChains == {PodChain(p, e) : p \in Pods, e \in Epochs}
PolChains == {PolChain(q, e) : q \in Policies, e \in Epochs}
ChainNames == TopChains \cup PodChains \cup PolChains

\* The ipset name functions, by kind: the KUBE-SRC- or KUBE-DST- prefix and
\* the hash input namespace + name [+ "ingressrule"/"egressrule" + Itoa(i)
\* [+ Itoa(j)] + "pod"/"ipblock"/"namedport"].  i and j are the rule and
\* named-port indices (unused for the target sets).
SetKinds == {"tgtDst", "tgtSrc", "srcPod", "dstPod", "srcBlock", "dstBlock",
             "inNamed", "egNamed"}
SetName(k, q, i, j) ==
    LET rule == IF k \in {"srcPod", "srcBlock", "inNamed"} THEN "ingressrule" ELSE "egressrule"
        tail == CASE k \in {"tgtDst", "tgtSrc"}   -> ""
                  [] k \in {"srcPod", "dstPod"}     -> rule \o Itoa(i) \o "pod"
                  [] k \in {"srcBlock", "dstBlock"} -> rule \o Itoa(i) \o "ipblock"
                  [] OTHER -> rule \o Itoa(i) \o Itoa(j) \o "namedport"
    IN [prefix |-> IF k \in {"tgtSrc", "srcPod", "srcBlock"} THEN "KUBE-SRC-" ELSE "KUBE-DST-",
        input  |-> PolicyNamespace[q] \o q \o tail]

AnyMatch == [kind |-> "any"]   \* an omitted match in a rule

(***************************************************************************)
(* Rules, one record shape per rule the controller emits.                 *)
(***************************************************************************)
AcceptRule(src, dst, proto, port) ==
    [kind |-> "accept", src |-> src, dst |-> dst, protocol |-> proto, port |-> port]
JumpRule(c)          == [kind |-> "jump", to |-> c]
LocalAcceptRule(p)   == [kind |-> "localAccept", ip |-> p]
EstablishedRule      == [kind |-> "established"]
NflogRule(p)         == [kind |-> "nflog", pod |-> p]
RejectRule(p)        == [kind |-> "reject", pod |-> p]
DivertRule(dir, p, physdev, c) ==
    [kind |-> "divert", dir |-> dir, ip |-> p, physdev |-> physdev, to |-> c]

\* A chain-name prefix (KUBE-POD-FW-, KUBE-NWPLCY-) as a pattern for Mentions.
Prefix(kind) == [prefix |-> kind]

\* strings.Contains(rule, chainName or prefix): only jump and divert rules
\* name a chain.
Mentions(r, c) == r.kind \in {"jump", "divert"} /\ (r.to = c \/ c = Prefix(r.to.kind))

(***************************************************************************)
(* Driver operations.  critical = an error from it aborts the sync; a     *)
(* failed Refresh is only logged.                                         *)
(***************************************************************************)
NewChainOp(c)         == [op |-> "newChain", c |-> c, critical |-> TRUE]
AppendUniqueOp(c, r)  == [op |-> "appendUnique", c |-> c, r |-> r, critical |-> TRUE]
InsertIfAbsentOp(c, r) == [op |-> "insertIfAbsent", c |-> c, r |-> r, critical |-> TRUE]
CreateSetOp(s, t)     == [op |-> "createSet", s |-> s, type |-> t, critical |-> TRUE]
RefreshOp(s, es)      == [op |-> "refresh", s |-> s, entries |-> es, critical |-> FALSE]
DeleteMentioningOp(c, n) == [op |-> "deleteMentioning", c |-> c, n |-> n, critical |-> TRUE]
\* The same with its errors only logged, as in Cleanup.
DeleteMentioningLoggedOp(c, n) == [op |-> "deleteMentioning", c |-> c, n |-> n, critical |-> FALSE]
DeleteFirstMentioningOp(c, n) ==
    [op |-> "deleteFirstMentioning", c |-> c, n |-> n, critical |-> TRUE]
ClearChainOp(c)       == [op |-> "clearChain", c |-> c, critical |-> TRUE]
DeleteChainOp(c)      == [op |-> "deleteChain", c |-> c, critical |-> TRUE]
DestroySetOp(s)       == [op |-> "destroySet", s |-> s, critical |-> TRUE]

\* iptables -L output: a header line ("-P FORWARD ACCEPT" or "-N chain"),
\* then the rules, so list index i (from 0) is rule number i.
Header == [kind |-> "header"]
ListRules(k, c) == <<Header>> \o k.chains[c]

\* cleanupStaleRules' loop over the listed rules: every rule naming n is
\* deleted by number i - realRuleNo, realRuleNo counting earlier deletions.
\* Returns the chain, or Nil when a delete names no rule.
RECURSIVE DeleteByPosition(_, _, _, _, _)
DeleteByPosition(rules, listed, n, i, realRuleNo) ==
    IF i >= Len(listed) THEN rules
    ELSE IF listed[i + 1] # Header /\ Mentions(listed[i + 1], n)
         THEN LET num == i - realRuleNo
              IN IF num < 1 \/ num > Len(rules) THEN Nil
                 ELSE DeleteByPosition(RemoveAt(rules, num), listed, n, i + 1, realRuleNo + 1)
         ELSE DeleteByPosition(rules, listed, n, i + 1, realRuleNo)

\* A chain or set is in use while some rule refers to it.
ChainReferenced(k, c) == \E x \in DOMAIN k.chains : \E i \in DOMAIN k.chains[x] :
                            Mentions(k.chains[x][i], c)
SetReferenced(k, s) == \E x \in DOMAIN k.chains : \E i \in DOMAIN k.chains[x] :
                            LET r == k.chains[x][i]
                            IN r.kind = "accept" /\ s \in {r.src, r.dst}

Result(k, ok) == [kern |-> k, ok |-> ok]

\* iptables refuses a rule whose jump target or match-set does not exist.
RuleRefsExist(k, r) ==
    /\ r.kind \in {"jump", "divert"} => r.to \in DOMAIN k.chains
    /\ r.kind = "accept" => {r.src, r.dst} \ {AnyMatch} \subseteq DOMAIN k.sets

\* The effect of one driver call on kernel state k.
ApplyOp(k, o) ==
    CASE o.op \in {"appendUnique", "insertIfAbsent"} /\ ~RuleRefsExist(k, o.r) ->
            Result(k, FALSE)
      [] o.op = "newChain" ->
            Result(IF o.c \in DOMAIN k.chains THEN k     \* exit status 1 tolerated
                   ELSE [k EXCEPT !.chains = (o.c :> <<>>) @@ @], TRUE)
      [] o.op = "appendUnique" ->
            Result(IF Contains(k.chains[o.c], o.r) THEN k
                   ELSE [k EXCEPT !.chains[o.c] = Append(@, o.r)], TRUE)
      [] o.op = "insertIfAbsent" ->                         \* Exists, then Insert at 1
            Result(IF Contains(k.chains[o.c], o.r) THEN k
                   ELSE [k EXCEPT !.chains[o.c] = <<o.r>> \o @], TRUE)
      [] o.op = "createSet" ->
            Result(IF o.s \in DOMAIN k.sets THEN k
                   ELSE [k EXCEPT !.sets = (o.s :> [type |-> o.type, entries |-> {}]) @@ @],
                   TRUE)
      [] o.op = "refresh" ->                  \* hash:net cannot hold a /0 block
            IF /\ k.sets[o.s].type = "hash:net"
               /\ \E en \in o.entries : CidrPrefixLen[en.cidr] = 0
            THEN Result(k, TRUE)
            ELSE Result([k EXCEPT !.sets[o.s].entries = o.entries], TRUE)
      [] o.op = "deleteMentioning" ->
            LET after == DeleteByPosition(k.chains[o.c], ListRules(k, o.c), o.n, 0, 0)
            IN IF after = Nil THEN Result(k, FALSE)
               ELSE Result([k EXCEPT !.chains[o.c] = after], TRUE)
      [] o.op = "deleteFirstMentioning" ->                 \* delete number i, then break
            LET rs == k.chains[o.c]
            IN IF \E i \in DOMAIN rs : Mentions(rs[i], o.n)
               THEN Result([k EXCEPT !.chains[o.c] =
                               RemoveAt(rs, SelectInSeq(rs, LAMBDA r : Mentions(r, o.n)))],
                           TRUE)
               ELSE Result(k, TRUE)
      [] o.op = "clearChain" ->
            Result([k EXCEPT !.chains[o.c] = <<>>], TRUE)
      [] o.op = "deleteChain" ->        \* refused while referenced or not empty
            IF ChainReferenced(k, o.c) \/ k.chains[o.c] # <<>> THEN Result(k, FALSE)
            ELSE Result([k EXCEPT !.chains = [c \in DOMAIN @ \ {o.c} |-> @[c]]], TRUE)
      [] o.op = "destroySet" ->         \* refused while a rule uses the set
            IF SetReferenced(k, o.s) THEN Result(k, FALSE)
            ELSE Result([k EXCEPT !.sets = [s \in DOMAIN @ \ {o.s} |-> @[s]]], TRUE)

\* Run driver calls in order, stopping at the first critical refusal.
RECURSIVE Exec(_, _)
Exec(k, ops) ==
    IF ops = <<>> THEN Result(k, TRUE)
    ELSE LET r == ApplyOp(k, Head(ops))
         IN IF r.ok \/ ~Head(ops).critical THEN Exec(r.kern, Tail(ops))
            ELSE Result(r.kern, FALSE)

(***************************************************************************)
(* Packet traversal.  The model's packets open new connections from pods  *)
(* or external hosts, so the ESTABLISHED and LOCAL-source rules never     *)
(* match them.                                                            *)
(***************************************************************************)

\* hash:ip membership, and hash:net membership where the most specific
\* covering block decides and a nomatch entry excludes.
InSet(k, s, a) ==
    IF k.sets[s].type = "hash:ip" THEN a \in k.sets[s].entries
    ELSE LET cover == {en \in k.sets[s].entries : a \in CidrAddrs[en.cidr]}
         IN /\ cover # {}
            /\ ~(CHOOSE en \in cover : \A o \in cover :
                      CidrPrefixLen[o.cidr] <= CidrPrefixLen[en.cidr]).nomatch

\* Both ends are addresses of pods on this node (the bridge).
Bridged(pkt) == {pkt.src, pkt.dst} \subseteq IPsOf({p \in Pods : PodLocal[p]})

Matches(k, r, pkt) ==
    CASE r.kind = "accept" ->
            /\ r.src = AnyMatch \/ InSet(k, r.src, pkt.src)
            /\ r.dst = AnyMatch \/ InSet(k, r.dst, pkt.dst)
            /\ r.protocol = Nil \/ r.protocol = pkt.protocol
            /\ r.port = Nil \/ r.port = pkt.port
      [] r.kind = "divert" ->
            /\ IF r.dir = "d" THEN pkt.dst = r.ip ELSE pkt.src = r.ip
            /\ r.physdev => Bridged(pkt)
      [] r.kind \in {"jump", "nflog", "reject"} -> TRUE
      [] OTHER -> FALSE

\* Traverse chain c from rule i: "ACCEPT", "REJECT" or "RETURN".
RECURSIVE Walk(_, _, _, _)
Walk(k, c, i, pkt) ==
    IF i > Len(k.chains[c]) THEN "RETURN"
    ELSE LET r == k.chains[c][i]
         IN IF ~Matches(k, r, pkt) \/ r.kind = "nflog" THEN Walk(k, c, i + 1, pkt)
            ELSE CASE r.kind \in {"accept", "localAccept", "established"} -> "ACCEPT"
                   [] r.kind = "reject" -> "REJECT"
                   [] OTHER -> LET v == Walk(k, r.to, 1, pkt)
                               IN IF v = "RETURN" THEN Walk(k, c, i + 1, pkt) ELSE v

\* The FORWARD chain's policy is ACCEPT.
Verdict(k, pkt) == LET v == Walk(k, FORWARD, 1, pkt) IN IF v = "RETURN" THEN "ACCEPT" ELSE v

\* A set the code walks as a list (what ListChains or ipset save return, the
\* policies of a pod), in one fixed order; the outcome does not depend on it.
ListOf(S) ==
    MapThenFoldSet(LAMBDA x, l : <<x>> \o l, <<>>, LAMBDA x : x, LAMBDA T : CHOOSE t \in T : TRUE, S)

KernelInit == [chains |-> [c \in TopChains |-> <<>>], sets |-> [s \in {} |-> Nil]]

=============================================================================
