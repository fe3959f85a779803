---------------------------- MODULE MCReconciler ----------------------------
(* Small instances of Reconciler. *)
EXTENDS Reconciler, TLC

CONSTANTS p1, p2, d1, d2, d3, s1, x, y, z

\* d1 carries a Service; d3 mounts a secret nobody stored.
MCServiceOf == d1 :> s1 @@ d2 :> None @@ d3 :> None
MCSecretsOf == d1 :> {x} @@ d2 :> {y} @@ d3 :> {z}
\* The authority is synchronized and rotates once; p1 changes its deployment, p2 comes
\* and goes.
Scope == authority <= 2 /\ Desired!Entries(index)[p2] \in {None, d2}
=============================================================================
