\* "db" isolated, then one change: an egress policy for "web", or an ingress rule for "db" on an unresolved named port.
CONSTANTS
    Nil = Nil
    Absent = Absent
    Pods <- MCPods
    Namespaces = {"ns"}
    Policies <- MCPolicies
    LabelValues = {"web", "db"}
    Protocols = {"TCP"}
    PortNumbers = {"5432", "8080"}
    PortNames = {"sql", "http"}
    ExternalAddrs = {"ext"}
    Cidrs <- MCCidrs
    PodIP <- MCPodIP
    PodNamespace <- MCPodNamespace
    PodLabel <- MCPodLabel
    PodLocal <- MCPodLocal
    PodPorts <- MCPodPorts
    NamespaceLabel <- MCNamespaceLabel
    PolicyNamespace <- MCPolicyNamespace
    CidrAddrs <- MCCidrAddrs
    CidrPrefixLen <- MCCidrPrefixLen
    Epochs = {1, 2, 3}
    InitRunning <- MCPods
    PolicySpecs <- BypassSpecs
    InitStore <- BypassInitStore
    MaxChanges = 1
    MaxFailures = 0
    FailurePoints = {}
    V1 = TRUE
SPECIFICATION Spec
INVARIANT EnforcesPolicies
