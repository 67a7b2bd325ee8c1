--------------------------- MODULE NetpolController --------------------------
(***************************************************************************)
(* Who calls Sync, and when: the Run goroutine (one Sync per ticker       *)
(* period) and the informers' handler goroutines (one per informer, each  *)
(* delivering its events one at a time), all serialised by npc.mu, with   *)
(* the readyForUpdates flag read and written outside the mutex.           *)
(*                                                                        *)
(* Sync itself is abstracted to its two visible moments: it takes the     *)
(* mutex and reads the listers (the snapshot is the cluster generation),  *)
(* then it returns nil or an error and releases the mutex.  NetpolSync    *)
(* models its inside.                                                     *)
(***************************************************************************)
EXTENDS Naturals, Sequences

CONSTANTS
    Events,          \* [informer, kind] records of the cluster changes delivered
    V1,              \* npc.v1NetworkPolicy
    MaxChanges,      \* bound on cluster changes
    MaxFailures,     \* bound on failing Syncs
    None

Informers == {"pods", "policies", "namespaces"}
Goroutines == Informers \cup {"run"}

VARIABLES
    gen,             \* cluster generation: number of changes so far
    queue,           \* per informer, the events not yet handed to a handler
    cb,              \* per informer, its handler's state: "idle", "lock", "sync"
    runPc,           \* Run: "select", "lock", "sync", "ready", "wait", "returned"
    stopCh,          \* the caller has closed stopCh
    mu,              \* the goroutine holding npc.mu, or None
    syncGen,         \* the generation the running Sync read
    readyForUpdates,
    appliedGen,      \* the generation the last successful Sync read
    lastOk,          \* the last Sync returned nil
    everOk,          \* some Sync returned nil
    failures,
    genAtReady,      \* gen when readyForUpdates was first set
    beatWhileFailing \* a heartbeat went out while the last Sync had failed

vars == <<gen, queue, cb, runPc, mu, syncGen, readyForUpdates, appliedGen,
          lastOk, everOk, failures, genAtReady, beatWhileFailing, stopCh>>

(***************************************************************************)
(* The handlers of newPodEventHandler, newNetworkPolicyEventHandler and   *)
(* newNamespaceEventHandler: whether an event reaches Sync.               *)
(***************************************************************************)

\* UpdateFunc of pods passes an update on only when the phase or the IP
\* changed; the namespace callbacks return at once for the v1 API.
Filtered(e) ==
    \/ e.informer = "pods" /\ e.kind \notin {"add", "phase", "ip", "delete"}
    \/ e.informer = "namespaces" /\ V1

\* The handler's readyForUpdates test, after the filter.
CallsSync(e, ready) == ~Filtered(e) /\ ready

(***************************************************************************)
(* Sync, from a caller's side.                                            *)
(***************************************************************************)

\* The last Sync to return failed (lastOk is FALSE before any Sync returns).
Failing == ~lastOk /\ failures > 0

\* Sync takes the mutex, sends its heartbeat and reads the listers.
SyncLock(g) ==
    /\ mu = None
    /\ mu' = g
    /\ beatWhileFailing' = (beatWhileFailing \/ Failing)
    /\ syncGen' = gen

\* Sync returns; ok = it returned nil.
SyncReturn(g, ok) ==
    /\ mu = g
    /\ mu' = None
    /\ lastOk' = ok
    /\ everOk' = (everOk \/ ok)
    /\ appliedGen' = IF ok THEN syncGen ELSE appliedGen
    /\ failures' = IF ok THEN failures ELSE failures + 1
    /\ UNCHANGED <<stopCh, syncGen, beatWhileFailing>>

Outcome == {TRUE} \cup (IF failures < MaxFailures THEN {FALSE} ELSE {})

(***************************************************************************)
(* Actions                                                                *)
(***************************************************************************)

\* Mutant: the pod handler registered on every informer.
ChangeOnPodHandler(e) ==
    /\ gen < MaxChanges
    /\ gen' = gen + 1
    /\ queue' = [queue EXCEPT !["pods"] = Append(@, e)]
    /\ UNCHANGED <<stopCh, cb, runPc, mu, syncGen, readyForUpdates, appliedGen, lastOk, everOk,
                   failures, genAtReady, beatWhileFailing>>

\* A cluster change: the listers change and the informer queues the event.
Change(e) ==
    /\ gen < MaxChanges
    /\ gen' = gen + 1
    /\ queue' = [queue EXCEPT ![e.informer] = Append(@, e)]
    /\ UNCHANGED <<stopCh, cb, runPc, mu, syncGen, readyForUpdates, appliedGen, lastOk, everOk,
                   failures, genAtReady,
                   beatWhileFailing>>

\* An informer hands its next event to the handler, which drops it or
\* goes on to call Sync.
Deliver(i) ==
    /\ cb[i] = "idle"
    /\ queue[i] # <<>>
    /\ queue' = [queue EXCEPT ![i] = Tail(@)]
    /\ cb' = [cb EXCEPT ![i] = IF CallsSync(Head(queue[i]), readyForUpdates) THEN "lock" ELSE "idle"]
    /\ UNCHANGED <<stopCh, gen, runPc, mu, syncGen, readyForUpdates, appliedGen, lastOk, everOk,
                   failures, genAtReady,
                   beatWhileFailing>>

\* Mutant: a handler that finds Sync busy gives up instead of waiting.
HandlerLockTry(i) ==
    /\ cb[i] = "lock"
    /\ IF mu = None
       THEN /\ SyncLock(i)
            /\ cb' = [cb EXCEPT ![i] = "sync"]
       ELSE /\ cb' = [cb EXCEPT ![i] = "idle"]
            /\ UNCHANGED <<stopCh, mu, syncGen, beatWhileFailing>>
    /\ UNCHANGED <<stopCh, gen, queue, runPc, readyForUpdates, appliedGen, lastOk, everOk, failures,
                   genAtReady>>

HandlerLock(i) ==
    /\ cb[i] = "lock"
    /\ SyncLock(i)
    /\ cb' = [cb EXCEPT ![i] = "sync"]
    /\ UNCHANGED <<stopCh, gen, queue, runPc, readyForUpdates, appliedGen, lastOk, everOk, failures,
                   genAtReady>>

\* The handler logs a failed Sync and returns: no retry.
HandlerReturn(i) ==
    /\ cb[i] = "sync"
    /\ \E ok \in Outcome : SyncReturn(i, ok)
    /\ cb' = [cb EXCEPT ![i] = "idle"]
    /\ UNCHANGED <<stopCh, gen, queue, runPc, readyForUpdates, genAtReady>>

\* The select at the top of the loop finds stopCh open and takes its
\* default case; Run goes on to call Sync.
RunSelect ==
    /\ runPc = "select"
    /\ ~stopCh
    /\ runPc' = "lock"
    /\ UNCHANGED <<stopCh, gen, queue, cb, mu, syncGen, readyForUpdates, appliedGen, lastOk, everOk,
                   failures, genAtReady, beatWhileFailing>>

\* Sync takes npc.mu for Run.  Run does not look at stopCh while it waits
\* here, so a close now still lets it Sync once more.
RunLock ==
    /\ runPc = "lock"
    /\ SyncLock("run")
    /\ runPc' = "sync"
    /\ UNCHANGED <<stopCh, gen, queue, cb, readyForUpdates, appliedGen, lastOk, everOk, failures,
                   genAtReady>>

\* Mutant: Run returns from its loop when Sync fails.
RunReturnStopOnError ==
    /\ runPc = "sync"
    /\ \E ok \in Outcome : /\ SyncReturn("run", ok)
                           /\ runPc' = IF ok THEN "ready" ELSE "returned"
    /\ UNCHANGED <<stopCh, gen, queue, cb, readyForUpdates, genAtReady>>

RunReturn ==
    /\ runPc = "sync"
    /\ \E ok \in Outcome : SyncReturn("run", ok)
    /\ runPc' = "ready"
    /\ UNCHANGED <<stopCh, gen, queue, cb, readyForUpdates, genAtReady>>

\* Heartbeat or not, Run then sets readyForUpdates.
RunSetReady ==
    /\ runPc = "ready"
    /\ readyForUpdates' = TRUE
    /\ genAtReady' = IF readyForUpdates THEN genAtReady ELSE gen
    /\ runPc' = "wait"
    /\ UNCHANGED <<stopCh, gen, queue, cb, mu, syncGen, appliedGen, lastOk, everOk, failures,
                   beatWhileFailing>>

\* The ticker fires and Run loops to the select at the top.
Tick ==
    /\ runPc = "wait"
    /\ runPc' = "select"
    /\ UNCHANGED <<stopCh, gen, queue, cb, mu, syncGen, readyForUpdates, appliedGen, lastOk, everOk,
                   failures, genAtReady,
                   beatWhileFailing>>

\* The caller closes stopCh (the node is shutting down); no fairness: it
\* may never happen.
Stop ==
    /\ ~stopCh
    /\ stopCh' = TRUE
    /\ UNCHANGED <<gen, queue, cb, runPc, mu, syncGen, readyForUpdates, appliedGen, lastOk,
                   everOk, failures, genAtReady, beatWhileFailing>>

\* Mutant: "return" in the selects written as "break", which only leaves the
\* select: Run never returns.
RunExitBreak == FALSE

\* Run returns (deferring t.Stop and wg.Done): from the select at the top of
\* the loop, whose stop case wins over its default, or from the select of
\* the wait, where Go picks either ready case, so Tick stays possible after
\* the close.
RunExit ==
    /\ runPc \in {"select", "wait"}
    /\ stopCh
    /\ runPc' = "returned"
    /\ UNCHANGED <<stopCh, gen, queue, cb, mu, syncGen, readyForUpdates, appliedGen, lastOk,
                   everOk, failures, genAtReady, beatWhileFailing>>

Init ==
    /\ gen = 0
    /\ queue = [i \in Informers |-> <<>>]
    /\ cb = [i \in Informers |-> "idle"]
    /\ runPc = "select"
    /\ mu = None
    /\ syncGen = 0
    /\ readyForUpdates = FALSE
    /\ appliedGen = 0
    /\ lastOk = FALSE
    /\ everOk = FALSE
    /\ failures = 0
    /\ genAtReady = 0
    /\ beatWhileFailing = FALSE
    /\ stopCh = FALSE

\* After Run has returned the controller may do nothing more: the end of
\* the process, not a deadlock.
Terminated == runPc = "returned" /\ UNCHANGED vars

Next ==
    \/ \E e \in Events : Change(e)
    \/ \E i \in Informers : Deliver(i) \/ HandlerLock(i) \/ HandlerReturn(i)
    \/ RunSelect \/ RunLock \/ RunReturn \/ RunSetReady \/ Tick \/ RunExit
    \/ Stop
    \/ Terminated

\* Every goroutine that can run eventually does; the ticker keeps firing;
\* sync.Mutex hands the lock to a waiter that keeps asking (its starvation
\* mode), hence strong fairness on taking it.
Fairness ==
    /\ \A i \in Informers : WF_vars(Deliver(i)) /\ WF_vars(HandlerReturn(i))
                            /\ SF_vars(HandlerLock(i))
    /\ WF_vars(RunSelect) /\ WF_vars(RunReturn) /\ WF_vars(RunSetReady) /\ WF_vars(Tick) /\ SF_vars(RunLock)
    /\ WF_vars(RunExit)

Spec == Init /\ [][Next]_vars /\ Fairness

(***************************************************************************)
(* Properties                                                             *)
(***************************************************************************)

TypeOK ==
    /\ gen \in 0..MaxChanges /\ syncGen \in 0..gen /\ appliedGen \in 0..gen
    /\ \A i \in Informers : /\ cb[i] \in {"idle", "lock", "sync"}
                            /\ \A k \in DOMAIN queue[i] : queue[i][k].informer = i
    /\ runPc \in {"select", "lock", "sync", "ready", "wait", "returned"}
    /\ stopCh \in BOOLEAN
    /\ mu \in Goroutines \cup {None}
    /\ {readyForUpdates, lastOk, everOk, beatWhileFailing} \subseteq BOOLEAN
    /\ failures \in 0..MaxFailures

\* Nothing runs and nothing is queued: every handler idle, Run waiting.
Quiescent ==
    /\ \A i \in Informers : cb[i] = "idle" /\ queue[i] = <<>>
    /\ runPc = "wait"

\* Once the handlers are live, a change is never left to the ticker: when
\* everything is quiescent after a successful Sync, that Sync read every
\* change made since readyForUpdates was set.
ChangesReachSync ==
    Quiescent /\ lastOk /\ gen > genAtReady => appliedGen = gen

\* readyForUpdates is set only after a Sync succeeded, so the handlers stay
\* off until the bootup full sync has been applied.
ReadyAfterSuccess == readyForUpdates => everOk

\* Run sends its heartbeat only when Sync returned nil, so that sustained
\* failure shows as an absent heartbeat: no heartbeat goes out between a
\* failed Sync and the next successful one.
NoHeartbeatWhileFailing == ~beatWhileFailing

\* A failing controller does not pass for a healthy one: neither the
\* callbacks (readyForUpdates, spec section 4.6) nor the health checker (the
\* heartbeat, spec section 7) are told a Sync succeeded when none did.
FailureNotReportedHealthy == ReadyAfterSuccess /\ NoHeartbeatWhileFailing

\* The callers of Sync together implement the single-writer reconciler:
\* serialised by npc.mu, each successful Sync installs a snapshot no older
\* than the one installed before it, and once changes and failures stop,
\* some Sync (the ticker's, if every handler dropped or failed its event)
\* installs the latest one, unless stopCh was closed first.
Reconciler == INSTANCE NetpolReconciler WITH applied <- appliedGen, stopped <- stopCh

ImplementsReconciler == Reconciler!Spec

\* Once stopCh is closed, Run returns and calls wg.Done, so the caller's
\* wg.Wait ends.  A Run the close finds waiting on npc.mu behind the
\* handlers' Syncs must first get the mutex, Sync and reach a select; one
\* in the wait select may take ticks; neither may loop forever.
StopEndsRun == stopCh ~> runPc = "returned"

=============================================================================
