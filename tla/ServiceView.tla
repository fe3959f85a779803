---------------------------- MODULE ServiceView ----------------------------
(***************************************************************************)
(* The pure part of service coordination: what a NodeGroup's Service       *)
(* contract is, how the leader merges contracts and leased endpoints into  *)
(* one complete snapshot, and what a node programs from a snapshot         *)
(* (internal/agent/service/controller.go and the helpers of                *)
(* internal/agent/coordinator/coordinator.go).                             *)
(*                                                                         *)
(* A desired configuration is a member of Config; the configuration stands *)
(* for its own SHA-512 digest.  Two configurations may have the same wire  *)
(* contract: the digest covers selectors, the contract does not.           *)
(***************************************************************************)
EXTENDS Naturals

CONSTANTS
  Node,        \* agents, one per VM
  NodeGroup,   \* NodeGroups; a node belongs to one
  Identity,    \* cluster-wide Service identities, namespace plus name
  Shape,       \* what a contract says of one Service: ports and VIP
  Config,      \* desired configurations a controller may be given
  EmptyConfig, \* the configuration without Services
  groupOf,     \* groupOf[n] is the NodeGroup of node n
  contractOf,  \* contractOf[c] is the set of Services of configuration c
  None         \* absence of a snapshot, an entry or a state

ASSUME GroupAssumption == groupOf \in [Node -> NodeGroup]

\* ParseIndex and ValidateContract admit each identity once per contract.
ASSUME ContractAssumption ==
  /\ EmptyConfig \in Config
  /\ contractOf \in [Config -> SUBSET [id: Identity, shape: Shape]]
  /\ contractOf[EmptyConfig] = {}
  /\ \A c \in Config : \A s, t \in contractOf[c] : s.id = t.id => s = t

\* A Service as snapshots carry it, without its backends.
OwnedService == [group: NodeGroup, id: Identity, shape: Shape]

\* One ready Pod of a node selected by a Service of that node's NodeGroup.
Endpoint == [node: Node, id: Identity]

\* A complete snapshot.  Backends are kept beside the Services they belong to.
Snapshot == [gen: Nat, rev: Nat, leader: Node,
             services: SUBSET OwnedService, backends: SUBSET Endpoint]

\* What DNS and the dataplane of a node hold.
View == [services: SUBSET OwnedService, backends: SUBSET Endpoint]

EmptyView == [services |-> {}, backends |-> {}]

ASSUME NoneAssumption == None \notin Snapshot

Ids(c) == {s.id : s \in contractOf[c]}

\* Controller.Contract: the wire contract of configuration c in NodeGroup g.
Contract(g, c) ==
  {[group |-> g, id |-> s.id, shape |-> s.shape] : s \in contractOf[c]}

\* The backends among B that belong to one of the Services in S.
BackendsOf(S, B) ==
  {b \in B : \E s \in S : s.id = b.id /\ s.group = groupOf[b.node]}

\* Lexicographic order of (generation, revision).
Newer(s, t) == s.gen > t.gen \/ (s.gen = t.gen /\ s.rev > t.rev)

SameVersion(s, t) == s.gen = t.gen /\ s.rev = t.rev

\* ValidateSnapshotOwnership: one owner for every Service identity.
UniqueOwnership(services) ==
  \A s, t \in services : s.id = t.id => s = t

\* contractsOverlap: two contracts claim the same global identity.
contractsOverlap(c, d) == Ids(c) \cap Ids(d) # {}

Strip(s) == [s EXCEPT !.backends = {}]

\* overlayLocalContract: keep the remote NodeGroups' Services that do not clash
\* with the local contract c of node n, and add that contract without backends.
overlayLocalContract(n, c, s) ==
  LET kept == {t \in s.services : t.group # groupOf[n] /\ t.id \notin Ids(c)}
  IN  [s EXCEPT !.services = kept \cup Contract(groupOf[n], c),
                !.backends = BackendsOf(kept, @)]

\* The Services of a snapshot that Controller.Apply keeps with their backends:
\* remote ones that do not clash, and own ones equal to the local contract.
KeptServices(n, c, services) ==
  {t \in services :
     IF t.group = groupOf[n] THEN t \in Contract(groupOf[n], c)
                             ELSE t.id \notin Ids(c)}

\* Controller.Apply: the view node n programs from snapshot s under contract c.
\* Local Services that the snapshot lacks or states differently come from c.
ControllerApply(n, c, s) ==
  LET kept == KeptServices(n, c, s.services)
  IN  [services |-> kept \cup Contract(groupOf[n], c),
       backends |-> BackendsOf(kept, s.backends)]

\* LoadSnapshot: a durable snapshot as a starting process restores it.
Restored(n, c, s) ==
  [s EXCEPT !.services = {t \in @ : t.group # groupOf[n]} \cup Contract(groupOf[n], c),
            !.backends = {}]

-----------------------------------------------------------------------------
(* The leader's registry: an entry per node, or None. *)

Registered(reg) == {m \in Node : reg[m] # None}

RegisteredGroups(reg) == {groupOf[m] : m \in Registered(reg)}

\* BuildClusterSnapshot keeps one Hello per NodeGroup, whichever the iteration
\* over the registry met last: pick[g] is the node whose Hello that was.
Picks(reg) ==
  {pick \in [RegisteredGroups(reg) -> Registered(reg)] :
     \A g \in RegisteredGroups(reg) : groupOf[pick[g]] = g}

MergedServices(reg, pick) ==
  UNION {Contract(g, reg[pick[g]].config) : g \in RegisteredGroups(reg)}

\* Leased endpoints of the states reported under the picked configuration.
MergedBackends(reg, pick) ==
  {b \in Endpoint :
     /\ reg[b.node] # None
     /\ reg[b.node].state # None
     /\ reg[b.node].state.config = reg[pick[groupOf[b.node]]].config
     /\ b.id \in reg[b.node].state.eps
     /\ b.id \in Ids(reg[pick[groupOf[b.node]]].config)}

\* BuildClusterSnapshot: the merged snapshot of registry reg.
BuildClusterSnapshot(g, r, leader, reg, pick) ==
  [gen |-> g, rev |-> r, leader |-> leader,
   services |-> MergedServices(reg, pick), backends |-> MergedBackends(reg, pick)]

=============================================================================
