\* Beta API: pod, policy and namespace changes, one Sync failure.
CONSTANTS
    Events <- BetaEvents
    V1 = FALSE
    MaxChanges = 3
    MaxFailures = 1
    None = None
SPECIFICATION Spec
INVARIANT TypeOK
INVARIANT ChangesReachSync
PROPERTY ImplementsReconciler
PROPERTY StopEndsRun
