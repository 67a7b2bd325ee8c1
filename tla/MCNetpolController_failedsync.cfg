\* Syncs may fail, the bootup Sync included.
CONSTANTS
    Events <- BetaEvents
    V1 = FALSE
    MaxChanges = 3
    MaxFailures = 1
    None = None
SPECIFICATION Spec
INVARIANT FailureNotReportedHealthy
