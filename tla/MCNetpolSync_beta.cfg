\* Deprecated extensions/v1beta1 API: "db" admits only "web" on 5432; no change, no failure.
CONSTANTS
    Nil = Nil
    Absent = Absent
    Pods <- MCPods
    Namespaces = {"ns"}
    Policies <- MCPolicies
    LabelValues = {"web", "db"}
    Protocols = {"TCP"}
    PortNumbers = {"5432", "8080"}
    PortNames = {"sql"}
    ExternalAddrs = {"ext"}
    Cidrs <- MCCidrs
    PodIP <- MCPodIP
    PodNamespace <- MCPodNamespace
    PodLabel <- MCPodLabel
    PodLocal <- MCPodLocal
    PodPorts <- MCPodPorts
    NamespaceLabel <- MCNamespaceLabel
    PolicyNamespace <- MCPolicyNamespace
    CidrAddrs <- MCCidrAddrs
    CidrPrefixLen <- MCCidrPrefixLen
    Epochs = {1, 2, 3}
    InitRunning <- MCPods
    PolicySpecs <- ReuseSpecs
    InitStore <- ReuseInitStore
    MaxChanges = 0
    MaxFailures = 0
    FailurePoints = {}
    V1 = FALSE
SPECIFICATION Spec
INVARIANT EnforcesPolicies
