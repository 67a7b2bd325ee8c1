\* Two policies whose namespace + name concatenations coincide, each with indexed named-port ipset names; no change, no failure.
CONSTANTS
    Nil = Nil
    Absent = Absent
    Pods <- MCPods
    Namespaces = {"a", "ab"}
    Policies <- CollPolicies
    LabelValues = {"web", "db"}
    Protocols = {"TCP"}
    PortNumbers = {"5432", "8080"}
    PortNames = {"sql"}
    ExternalAddrs = {"ext"}
    Cidrs <- MCCidrs
    PodIP <- MCPodIP
    PodNamespace <- CollPodNamespace
    PodLabel <- CollPodLabel
    PodLocal <- MCPodLocal
    PodPorts <- MCPodPorts
    NamespaceLabel <- CollNamespaceLabel
    PolicyNamespace <- CollPolicyNamespace
    CidrAddrs <- MCCidrAddrs
    CidrPrefixLen <- MCCidrPrefixLen
    Epochs = {1, 2, 3}
    InitRunning <- MCPods
    PolicySpecs <- CollSpecs
    InitStore <- CollInitStore
    MaxChanges = 0
    MaxFailures = 0
    FailurePoints = {}
    V1 = TRUE
SPECIFICATION Spec
INVARIANT ArtifactNamesDistinct
