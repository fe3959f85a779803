--------------------------- MODULE MCCoordinator ---------------------------
(***************************************************************************)
(* Small instances of Coordinator for TLC.  Nodes n1 and n2 share the      *)
(* NodeGroup g1; n3, where it is present, is the only node of g2.  A name  *)
(* such as "s1" is a stream session of the node with the same digit.       *)
(***************************************************************************)
EXTENDS Coordinator, TLC

MCGroupOf == [n \in Node |-> IF n \in {"n1", "n2"} THEN "g1" ELSE "g2"]

MCSessionNode ==
  [s \in Session |-> CASE s \in {"s1", "t1"} -> "n1"
                       [] s \in {"s2", "t2"} -> "n2"
                       [] OTHER -> "n3"]

\* "a" and "a2" differ in a selector only, "b" changes the ports of identity x,
\* "xy" adds identity y.
MCContractOf ==
  [c \in Config |->
     CASE c = "empty" -> {}
       [] c \in {"a", "a2"} -> {[id |-> "x", shape |-> "p1"]}
       [] c = "b" -> {[id |-> "x", shape |-> "p2"]}
       [] c = "y" -> {[id |-> "y", shape |-> "p1"]}
       [] OTHER -> {[id |-> "x", shape |-> "p1"], [id |-> "y", shape |-> "p1"]}]

(***************************************************************************)
(* One agent and its neighbours, in five scopes that together contain a    *)
(* restart, a change of Services after a lease expired, a change that the  *)
(* dataplane refuses, two streams of one node, and NodeGroups that compete *)
(* for an identity.                                                        *)
(***************************************************************************)
Configs(C) ==
  desired["n1"] \in C /\ \A n \in Node : nodes["n1"][n] # None => nodes["n1"][n].config \in C

\* Revisions within a generation and sequence numbers up to m.
Versions(m) ==
  /\ durable # None => durable.rev <= m
  /\ \A n \in Node : LET e == nodes["n1"][n]
                    IN  e # None /\ e.state # None => e.state.seq <= m

Single == Versions(1) /\ used \subseteq {"s3"}
Quiet == elections <= 1 /\ faults = 0

\* A leadership, a crash and another one; with a neighbour, two of the three.
Restarts ==
  /\ Single /\ changes = 0 /\ Configs({"empty", "a"})
  /\ used # {} => elections + faults <= 2

\* The Services of n1 change beside a neighbour that has contract "a".
Changes ==
  /\ Single /\ Quiet
  /\ \A n \in Node \ {"n1"} : nodes["n1"][n] # None => nodes["n1"][n].config = "a"

Refusals == Single /\ elections = 0
Reconnects == Quiet /\ changes = 0 /\ used \subseteq {"s3", "t3"} /\ Configs({"empty", "a"})
Groups == Quiet /\ changes = 0 /\ Versions(1) /\ used \subseteq {"s2", "s3"} /\ Configs({"empty", "a"})

\* The action constraint of the registry run.
Scoped == (Restarts \/ Changes \/ Refusals \/ Reconnects \/ Groups)'

\* The action constraint of the fencing run: Services or Pods change only in a first
\* leadership without faults.
ChangesQuiet == (changes > 0 => Quiet)'

=============================================================================
