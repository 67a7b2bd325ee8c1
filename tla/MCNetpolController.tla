------------------------- MODULE MCNetpolController -------------------------
EXTENDS NetpolController

\* The changes whose events reach Sync under the current schema: pod
\* additions, deletions, phase and IP changes, and every policy change.
SyncedEvents ==
    {[informer |-> "pods", kind |-> k] : k \in {"add", "phase", "delete"}}
        \cup {[informer |-> "policies", kind |-> k] : k \in {"add", "delete"}}

\* A namespace's labels change.
NamespaceEvents == SyncedEvents \cup {[informer |-> "namespaces", kind |-> "labels"]}

\* Beta mode: namespace events reach Sync.
BetaEvents == NamespaceEvents

\* A pod's labels change too: the pod UpdateFunc drops it.
DroppedEvents == NamespaceEvents \cup {[informer |-> "pods", kind |-> "labels"]}
=============================================================================
