\* Ingress-only policies, driver errors, store and pods changing, one crash or shutdown Cleanup().
CONSTANTS
    Nil = Nil
    Absent = Absent
    Pods <- MCPods
    Namespaces = {"ns"}
    Policies <- MCPolicies
    LabelValues = {"web", "db"}
    Protocols = {"TCP"}
    PortNumbers = {"5432", "8080"}
    PortNames = {"sql"}
    ExternalAddrs = {"ext"}
    Cidrs <- MCCidrs
    PodIP <- MCPodIP
    PodNamespace <- MCPodNamespace
    PodLabel <- MCPodLabel
    PodLocal <- MCPodLocal
    PodPorts <- MCPodPorts
    NamespaceLabel <- MCNamespaceLabel
    PolicyNamespace <- MCPolicyNamespace
    PolicySpecs <- IngressSpecs
    CidrAddrs <- MCCidrAddrs
    CidrPrefixLen <- MCCidrPrefixLen
    Epochs = {1, 2, 3, 4}
    InitStore <- IngressInitStore
    InitRunning <- MCPods
    MaxChanges = 1
    MaxFailures = 1
    FailurePoints = {"command", "refresh"}
    V1 = TRUE
    MaxRestarts = 1
SPECIFICATION LifeSpec
INVARIANT LifecycleTypeOK
INVARIANT EnforcesPolicies
INVARIANT NoStaleArtifacts
INVARIANT NoKernelRefusal
INVARIANT CleanupRestores
PROPERTY EventuallyConverged
