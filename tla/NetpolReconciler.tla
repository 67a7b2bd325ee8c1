---------------------------- MODULE NetpolReconciler -------------------------
(***************************************************************************)
(* What the reconciler promises its clients (spec sections 4.6 and 5): the *)
(* cluster changes, and a single writer installs, one at a time, the      *)
(* state of some moment no earlier than the one it last installed; once   *)
(* the cluster stops changing, the latest state is installed, unless the  *)
(* reconciler has been told to stop.                                      *)
(***************************************************************************)
EXTENDS Naturals

CONSTANT MaxChanges

VARIABLES
    gen,       \* the cluster state, as the number of changes so far
    applied,   \* the cluster state the firewall was last built from
    stopped    \* shutdown was requested

avars == <<gen, applied, stopped>>

Init == gen = 0 /\ applied = 0 /\ stopped = FALSE

Change == gen < MaxChanges /\ gen' = gen + 1 /\ UNCHANGED <<applied, stopped>>

\* Install the state of a moment between the last installed one and now.
Apply == \E g \in applied..gen : applied' = g /\ UNCHANGED <<gen, stopped>>

Stop == ~stopped /\ stopped' = TRUE /\ UNCHANGED <<gen, applied>>

\* Installing the latest state is owed only while no stop was requested.
ApplyLatest == ~stopped /\ applied # gen /\ applied' = gen /\ UNCHANGED <<gen, stopped>>

Next == Change \/ Apply \/ Stop

Spec == Init /\ [][Next]_avars /\ WF_avars(ApplyLatest)

=============================================================================
