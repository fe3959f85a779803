---------------------------- MODULE MCDataplane ----------------------------
(***************************************************************************)
(* Small instances of what moves packets on a node: the flow tables, the   *)
(* activation of the dataplane, and the Pod watcher that hints it.  The    *)
(* three share no variable, so each is explored while the others rest.     *)
(***************************************************************************)
EXTENDS Forwarding, TLC

CONSTANTS f1, f2, b1, u1, u2, v1, v2, p1, p2

VARIABLE part

\* Both flows start at the same port.
MCHash == f1 :> 0 @@ f2 :> 3
MCTables == {<<b1>>, <<>>}

\* The Pod uplink u2 has the prefix route and u1 the default route; Pods add host
\* routes, and a default route with a lower metric may appear on u2.
MCPermanent == {[kind |-> "default", metric |-> 2, dev |-> u1], [kind |-> "prefix", metric |-> 1, dev |-> u2]}
MCRoute == MCPermanent \cup {[kind |-> "host", metric |-> 1, dev |-> v1],
  [kind |-> "host", metric |-> 1, dev |-> v2], [kind |-> "default", metric |-> 1, dev |-> u2]}

MCReady == [running |-> TRUE, deleting |-> FALSE, ready |-> TRUE, addresses |-> 1]
MCStatus == {MCReady, [MCReady EXCEPT !.deleting = TRUE]}

planeVars == <<table, plane, current, tables, call, served, calls, changes, errors>>
watchVars == <<past, stream, broken, pc, state, synced, read, published, hint, cancelled, faults>>
allVars == <<part, vars, planeVars, watchVars>>

MCInit ==
  /\ part \in {"flows", "plane", "watch"}
  /\ Init /\ Plane!Init /\ Watch!Init
  /\ part # "flows" => ready = <<b1>>
  /\ part # "watch" => Watch!Kubelet = Watch!NoPods

\* The flow tables are disturbed once, by an eviction or by a switch of tables.
MCNext ==
  /\ \/ part = "flows" /\ Next /\ evictions' + switches' <= 1 /\ UNCHANGED <<planeVars, watchVars>>
     \/ part = "plane" /\ Plane!Next /\ UNCHANGED <<vars, watchVars>>
     \/ part = "watch" /\ Watch!Next /\ UNCHANGED <<vars, planeVars>>
  /\ UNCHANGED part

MCSpec ==
  /\ MCInit /\ [][MCNext]_allVars
  /\ \A c \in CPU : WF_vars(part = "flows" /\ Step(c))
  /\ \A f \in Flow : SF_vars(part = "flows" /\ \E c \in CPU : Receive(c, f))
  /\ WF_planeVars(part = "plane" /\ Plane!Step)
  /\ \A p \in Plane!State : /\ WF_planeVars(part = "plane" /\ Plane!WatchRead(p))
                            /\ WF_planeVars(part = "plane" /\ Plane!WatchApply(p))
  /\ WF_watchVars(part = "watch" /\ Watch!Watcher)

\* The properties of the component modules.  Eventual ones are about the component
\* that is explored: the flow tables (dataplane.bpf.c),
EveryFlowRecovers == part = "flows" => FlowsRecover

\* the activation, which ends with the current table where the routes want it
\* (activation_linux.go),
Settles == part = "plane" => Plane!Settles

\* and the Pod watcher, whose controller sees all Pods of one moment, or none, and in the
\* end those of the kubelet (watcher.go).
ViewFollows == part = "watch" => Watch!ViewFollows
=============================================================================
