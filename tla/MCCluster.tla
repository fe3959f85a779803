----------------------------- MODULE MCCluster -----------------------------
(***************************************************************************)
(* Small instances of what a cluster is made of: the manifests of its      *)
(* deployments, the Service tables of its nodes, the subnets and the state *)
(* of its infrastructure, and its workload authority.  They share no       *)
(* variable, so each is explored while the others rest.                    *)
(***************************************************************************)
EXTENDS MCManifest, Lifecycle

CONSTANTS Key, Backend, maxTableEntries, MaxPorts, MaxBackends, MaxHash,
          Groups, Range64, Range28, MaxForeign,
          q1, q2, n1, n2

VARIABLES part,
          snapshot, tables, flow,
          vpc, subnets, plan, setups, foreign

Tables == INSTANCE ServiceTables

\* Maps with room for one entry.
OneEntry == INSTANCE ServiceTables WITH maxTableEntries <- 1

\* Up to two node groups in two zones of a VPC of their own; a group may sort before,
\* between or after the NAT64 subnets.  Another owner may use the name of a group.
MCForeignRanges ==
  {[six |-> 2, four |-> {2, 3}, name |-> <<"", "">>], [six |-> 0, four |-> {1}, name |-> <<"", "">>],
   [six |-> 1, four |-> {}, name |-> <<"podmin-c", "api">>]}

Own == INSTANCE Subnets
  WITH Clusters <- {"c"}, Prefixed <- "c" :> "podmin-c", NatZone <- "nat64:a" :> "a" @@ "nat64:b" :> "b",
       SortedNames <- <<"api", "nat64:a", "nat64:b", "web">>, SortedZones <- <<"a", "b">>,
       ForeignRanges <- MCForeignRanges, Managed <- TRUE, MaxSetups <- "c" :> 3, run <- plan

\* Two clusters in a VPC that was there before, of one zone, each foreign to the other; the
\* subnets of one bear the names that the other looks for.
Shared == INSTANCE Subnets
  WITH Clusters <- {"c", "podmin-c"},
       Prefixed <- "c" :> "podmin-c" @@ "podmin-c" :> "podmin-podmin-c", NatZone <- "nat64:a" :> "a",
       SortedNames <- <<"api", "nat64:a", "web">>, SortedZones <- <<"a">>,
       ForeignRanges <- MCForeignRanges, Managed <- FALSE, MaxSetups <- "c" :> 2 @@ "podmin-c" :> 1,
       MaxForeign <- 0, run <- plan

\* The clock of n2 is ahead.
MCOffset == n1 :> 0 @@ n2 :> 1

ASSUME Tables!TableAssumption /\ OneEntry!TableAssumption
ASSUME Own!SubnetsAssumption /\ Shared!SubnetsAssumption
ASSUME C!ClusterAssumption
ASSUME Authority!DurationAssumption

tableVars == <<snapshot, tables, flow>>
subnetVars == <<vpc, subnets, plan, setups, foreign>>
clusterVars == <<bucket, key, clusterCA, caKey, infra, lock, context, local, run, unfinished, starts, torn>>
authorityVars == <<publication, clock, leader, durable, published, agent, synced, leaf, fresh, ensured, outage, disturbed, trusted>>

\* One process with every command, and two that set up and tear down.
Alone == C!Next /\ run'[q2] = None
Pair ==
  /\ C!Next /\ starts' <= 4
  /\ \A p \in Process : run'[p] # None => run'[p].kind \in {"connect", "setup", "teardown"}

\* A full rotation; rotation and recovery from expiry behind an external publication,
\* with few steps in which nodes work; the first certificate.
Rotation == Authority!Next /\ outage' = 0 /\ disturbed' <= 1
External == Authority!Next /\ clock' - outage' <= 13 /\ clock' <= 19 /\ disturbed' <= 1 /\ leaf' = leaf
First == Authority!Next /\ clock' <= 3 /\ outage' = 0

MCInit ==
  /\ part \in {"manifest", "tables", "entry", "own", "shared", "alone", "pair", "rotation", "external", "first"}
  /\ Init
  /\ Tables!Init /\ (part \notin {"tables", "entry"} => snapshot = [node |-> TRUE, ports |-> <<>>])
  /\ IF part = "shared" THEN Shared!Init ELSE Own!Init
  /\ C!Init /\ Authority!Init
  /\ clock = 0 <=> part = "first"
  /\ part # "first" => (publication <=> part = "external")
  /\ part \in {"rotation", "external", "first"} \/ leader = n1

MCNext ==
  /\ \/ part = "manifest" /\ Next /\ UNCHANGED <<tableVars, subnetVars, clusterVars, authorityVars>>
     \/ /\ \/ part = "tables" /\ Tables!Next
           \/ part = "entry" /\ OneEntry!Next
        /\ UNCHANGED <<vars, subnetVars, clusterVars, authorityVars>>
     \/ /\ \/ part = "own" /\ Own!Next
           \/ part = "shared" /\ Shared!Next
        /\ UNCHANGED <<vars, tableVars, clusterVars, authorityVars>>
     \/ /\ \/ part = "alone" /\ Alone
           \/ part = "pair" /\ Pair
        /\ UNCHANGED <<vars, tableVars, subnetVars, authorityVars>>
     \/ /\ \/ part = "rotation" /\ Rotation
           \/ part = "external" /\ External
           \/ part = "first" /\ First
        /\ UNCHANGED <<vars, tableVars, subnetVars, clusterVars>>
  /\ UNCHANGED part

MCSpec == MCInit /\ [][MCNext]_<<part, vars, tableVars, subnetVars, clusterVars, authorityVars>>

\* One process alone.
AloneSpec == (MCInit /\ part = "alone") /\ [][MCNext]_<<part, vars, tableVars, subnetVars, clusterVars, authorityVars>>

\* The tables of a node send a flow to the backends of its Service port, and fit the maps
\* (dataplane.go).
TablesExact == IF part = "entry" THEN OneEntry!TablesExact ELSE Tables!TablesExact

\* Planned subnets collide with nothing that setup saw (compute.go).
PlansFree == (part = "own" => Own!PlansFree) /\ (part = "shared" => Shared!PlansFree)

\* A subnet in use stays (compute.go).
SubnetsKept ==
  [][(part = "own" => Own!KeepsSubnets) /\ (part = "shared" => Shared!KeepsSubnets)]_<<part, subnetVars>>
=============================================================================
