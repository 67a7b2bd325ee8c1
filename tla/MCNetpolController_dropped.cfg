\* v1 API: pod label and namespace label changes, which the pod UpdateFunc and OnNamespaceUpdate drop.
CONSTANTS
    Events <- DroppedEvents
    V1 = TRUE
    MaxChanges = 3
    MaxFailures = 1
    None = None
SPECIFICATION Spec
INVARIANT ChangesReachSync
