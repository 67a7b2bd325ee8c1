---------------------------- MODULE NetpolLifecycle --------------------------
(***************************************************************************)
(* The controller process around Sync: it may die at any point of a sync  *)
(* (glog.Fatalf in cleanupStaleRules, or the pod being killed) and be     *)
(* restarted with a fresh NetworkPolicyController and the kernel state    *)
(* the dead one left; or it may be stopped and the shutdown Cleanup() run *)
(* on that kernel state, after which the controller is started again.     *)
(***************************************************************************)
EXTENDS NetpolSync

CONSTANT MaxRestarts   \* bound on crashes and shutdowns in a behaviour

VARIABLES
    process,     \* "running", or "stopped" after Cleanup()
    restarts

lifeVars == <<process, restarts>>
allVars == <<vars, lifeVars>>

(***************************************************************************)
(* Cleanup(): each of its loops lists the kernel once, before it deletes. *)
(***************************************************************************)

\* (mutant) Only FORWARD unlinked.
CleanupUnlinkOpsNoOutput == <<DeleteMentioningLoggedOp(FORWARD, Prefix("pod"))>>

\* Unlink the pod chains from FORWARD and OUTPUT, by rule number from one
\* listing per chain; errors of the deletes are overwritten, not checked.
CleanupUnlinkOps == <<DeleteMentioningLoggedOp(FORWARD, Prefix("pod")),
                      DeleteMentioningLoggedOp(OUTPUT, Prefix("pod"))>>

\* Flush and delete each listed chain of one kind; Cleanup returns at the
\* first error.
FlushAndDeleteOps(kind) ==
    LET cs == ListOf({c \in DOMAIN kern.chains : c.kind = kind})
    IN FlattenSeq([k \in DOMAIN cs |-> <<ClearChainOp(cs[k]), DeleteChainOp(cs[k])>>])

\* ipset Save then DestroyAllWithin.
CleanupSetOps ==
    LET ss == ListOf(DOMAIN kern.sets) IN [k \in DOMAIN ss |-> DestroySetOp(ss[k])]

\* The pod chain loop runs on the kernel the unlinking left, the policy
\* chain loop on the one the pod chain loop left, and so on; a failure of a
\* chain loop ends Cleanup.
CleanupResult(k0) ==
    LET k1 == Exec(k0, CleanupUnlinkOps).kern
        r2 == Exec(k1, FlushAndDeleteOps("pod"))
        r3 == Exec(r2.kern, FlushAndDeleteOps("pol"))
    IN CASE ~r2.ok -> r2.kern
         [] ~r3.ok -> r3.kern
         [] OTHER  -> Exec(r3.kern, CleanupSetOps).kern

(***************************************************************************)
(* Actions                                                                *)
(***************************************************************************)

\* A new process builds a fresh controller: nothing of the old one's memory
\* survives, the kernel and the cluster are as they were.
Reset ==
    /\ pc' = "idle"
    /\ info' = [q \in {} |-> Nil]
    /\ todo' = {}
    /\ activePolicyChains' = {} /\ activePodFwChains' = {} /\ activePolicyIpSets' = {}
    /\ lastSync' = "none"
    /\ degraded' = FALSE
    /\ dirty' = TRUE
    /\ UNCHANGED <<npStore, running, changes, epoch, failures, snap, gens>>

\* The process dies, wherever the sync is, and is restarted.
Crash ==
    /\ process = "running"
    /\ restarts < MaxRestarts
    /\ restarts' = restarts + 1
    /\ Reset
    /\ UNCHANGED <<kern, process>>

\* The controller is stopped and Cleanup() runs.
CleanupConfig ==
    /\ process = "running"
    /\ restarts < MaxRestarts
    /\ restarts' = restarts + 1
    /\ Reset
    /\ kern' = CleanupResult(kern)
    /\ process' = "stopped"

\* kube-router is started again after the cleanup.
Start ==
    /\ process = "stopped"
    /\ process' = "running"
    /\ UNCHANGED <<vars, restarts>>

RunningSyncStep == process = "running" /\ SyncStep /\ UNCHANGED lifeVars

LifeInit == Init /\ process = "running" /\ restarts = 0

LifeNext ==
    \/ RunningSyncStep
    \/ ClusterStep /\ UNCHANGED lifeVars
    \/ Crash \/ CleanupConfig \/ Start

\* As LiveSpec: the Run ticker keeps syncing while the process runs, and a
\* stopped kube-router is started again (Start is the only step then).
\* Crashes and shutdowns are bounded by MaxRestarts, so the argument for
\* LiveSpec carries over.
LifeSpec == LifeInit /\ [][LifeNext]_allVars /\ []<><<RunningSyncStep>>_allVars

(***************************************************************************)
(* Properties                                                             *)
(***************************************************************************)

LifecycleTypeOK == TypeOK /\ process \in {"running", "stopped"} /\ restarts \in 0..MaxRestarts

\* Cleanup() removes everything the controller installed, whatever sync it
\* interrupted: FORWARD, OUTPUT and INPUT hold no diversion and no pod or
\* policy chain and no ipset is left.
CleanupRestores == process = "stopped" => kern = KernelInit

=============================================================================
