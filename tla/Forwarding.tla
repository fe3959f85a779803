----------------------------- MODULE Forwarding -----------------------------
(***************************************************************************)
(* The parts of a node that forward packets: the flow tables that the eBPF *)
(* programs share, the activation of the dataplane that attaches these     *)
(* programs, and the Pod watcher that hints it to look for new interfaces. *)
(* They share no variable.                                                 *)
(***************************************************************************)
EXTENDS FlowTable

CONSTANTS Route, Permanent, Snapshot, MaxCalls, MaxRoutes, MaxErrors,
          Pod, Status, MaxChanges, MaxFaults

VARIABLES table, plane, current, tables, call, served, calls, changes, errors,
          past, stream, broken, pc, state, synced, read, published, hint, cancelled, faults

Plane == INSTANCE Dataplane
Watch == INSTANCE PodWatcher

ASSUME ActivationAssumption == Plane!DataplaneAssumption
ASSUME PodsAssumption == Watch!WatcherAssumption

\* Reconcile attaches complete tables only, leaves none behind and reports success when
\* the current one serves (dataplane.go, activation_linux.go).
OnlyCurrentServes == Plane!OnlyCurrentServes

\* It uncovers no uplink while it replaces one table by another (activation_linux.go).
NoGap == Plane!NoGap
=============================================================================
