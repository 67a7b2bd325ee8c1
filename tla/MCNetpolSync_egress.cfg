\* Egress policies, and an ingress one that agrees with them; driver errors injected, store and pods changing, a pod IP passing to a pod of another label.
CONSTANTS
    Nil = Nil
    Absent = Absent
    Pods <- ReusePods
    Namespaces = {"ns"}
    Policies <- MCPolicies
    LabelValues = {"web", "db"}
    Protocols = {"TCP"}
    PortNumbers = {"5432", "8080"}
    PortNames = {"sql"}
    ExternalAddrs = {"ext"}
    Cidrs <- MCCidrs
    PodIP <- ReusePodIP
    PodNamespace <- ReusePodNamespace
    PodLabel <- ReusePodLabel
    PodLocal <- ReusePodLocal
    PodPorts <- ReusePodPorts
    NamespaceLabel <- MCNamespaceLabel
    PolicyNamespace <- MCPolicyNamespace
    CidrAddrs <- MCCidrAddrs
    CidrPrefixLen <- MCCidrPrefixLen
    Epochs = {1, 2, 3}
    InitRunning <- MCPods
    PolicySpecs <- EgressSpecs
    InitStore <- EgressInitStore
    MaxChanges = 2
    MaxFailures = 1
    FailurePoints = {"command", "refresh"}
    V1 = TRUE
SPECIFICATION Spec
INVARIANT EnforcesPolicies
INVARIANT NoKernelRefusal
