---------------------------- MODULE ServiceTables ----------------------------
(***************************************************************************)
(* Compile and SelectBackend (dataplane.go): a complete snapshot of        *)
(* Service ports becomes one backend array and a map from ports to ranges  *)
(* of it.  A snapshot is the validity of the node address and the ports of *)
(* its Services in order; the grouping of ports into Services has no       *)
(* effect on the tables.  Keys and backends are numbers in the order       *)
(* keyLess and the backend comparison sort them; 0 is a key or a backend   *)
(* whose address, protocol or port is invalid.                             *)
(***************************************************************************)
EXTENDS Naturals, Sequences, FiniteSets, SequencesExt

CONSTANTS Key, Backend, None,
          maxTableEntries,    \* capacity of the BPF maps: 65536
          MaxPorts,           \* bound on the ports of a snapshot
          MaxBackends,        \* bound on the backends of a port
          MaxHash             \* bound on flow hashes

TableAssumption ==
  /\ Key \subseteq Nat \ {0} /\ Backend \subseteq Nat \ {0}
  /\ maxTableEntries \in Nat /\ MaxHash >= MaxBackends

VARIABLES snapshot, tables, flow
vars == <<snapshot, tables, flow>>

Port == [key: Key \cup {0}, backends: UNION {[1..n -> Backend \cup {0}] : n \in 0..MaxBackends}]
Snapshot == [node: BOOLEAN, ports: UNION {[1..n -> Port] : n \in 0..MaxPorts}]

Total(ports) == FoldLeft(LAMBDA n, p : n + Len(p.backends), 0, ports)

\* The refusals of Compile.  Only an empty snapshot does not need a node address.
Valid(s) ==
  LET ports == s.ports IN
  /\ ports # <<>> => s.node
  /\ \A i \in DOMAIN ports : ports[i].key # 0
  /\ \A i, j \in DOMAIN ports : i # j => ports[i].key # ports[j].key
  /\ Len(ports) <= maxTableEntries /\ Total(ports) <= maxTableEntries
  /\ \A i \in DOMAIN ports : 0 \notin Range(ports[i].backends)

\* One entry: its sorted backends go to the end of the array, its range says where.
AddEntry(t, p) ==
  [services |-> [k \in DOMAIN t.services \cup {p.key} |->
     IF k = p.key THEN [offset |-> Len(t.backends), count |-> Len(p.backends)] ELSE t.services[k]],
   backends |-> t.backends \o SortSeq(p.backends, <)]

NoTables == [services |-> [k \in {} |-> None], backends |-> <<>>]

\* Entries are sorted by key and laid out one after the other.
Compile(s) ==
  IF ~Valid(s) THEN None
  ELSE FoldLeft(AddEntry, NoTables, SortSeq(s.ports, LAMBDA p, q : p.key < q.key))

\* Mutant of SelectBackend: the hash is reduced modulo one too many.
SelectBackendLong(t, k, h) ==
  IF k \notin DOMAIN t.services \/ t.services[k].count = 0 THEN None
  ELSE LET index == t.services[k].offset + (h % (t.services[k].count + 1))
       IN  IF index >= Len(t.backends) THEN None ELSE t.backends[index + 1]

\* The backend of a flow with hash h.  The array is indexed from 0 in the code.
SelectBackend(t, k, h) ==
  IF k \notin DOMAIN t.services \/ t.services[k].count = 0 THEN None
  ELSE LET index == t.services[k].offset + (h % t.services[k].count)
       IN  IF index >= Len(t.backends) THEN None ELSE t.backends[index + 1]

Init == snapshot \in Snapshot /\ tables = None /\ flow = None

Reconcile == tables = None /\ tables' = Compile(snapshot) /\ tables' # None /\ UNCHANGED <<snapshot, flow>>

Forward(k, h) ==
  /\ tables # None /\ flow = None
  /\ flow' = [key |-> k, hash |-> h, backend |-> SelectBackend(tables, k, h)]
  /\ UNCHANGED <<snapshot, tables>>

Next == Reconcile \/ \E k \in Key, h \in 0..MaxHash : Forward(k, h)
Spec == Init /\ [][Next]_vars

-----------------------------------------------------------------------------
(* Properties *)

Listed(k) == {i \in DOMAIN snapshot.ports : snapshot.ports[i].key = k}
ReadyFor(k) == UNION {Range(snapshot.ports[i].backends) : i \in Listed(k)}

\* A flow to a Service port reaches one of that port's own backends, and is refused
\* exactly when the port is unknown or has none ready (dataplane.go, Compile and
\* SelectBackend): the ranges of the shared array neither overlap nor miss an entry.
FlowsReachOwnBackends ==
  flow # None =>
    IF ReadyFor(flow.key) = {} THEN flow.backend = None ELSE flow.backend \in ReadyFor(flow.key)

\* Every ready backend of a compiled port is selected for some flow hash.
EveryBackendUsed ==
  tables # None =>
    \A i \in DOMAIN snapshot.ports : \A b \in Range(snapshot.ports[i].backends) :
      \E h \in 0..MaxHash : SelectBackend(tables, snapshot.ports[i].key, h) = b

Reversed(s) ==
  [s EXCEPT !.ports = Reverse([i \in DOMAIN s.ports |-> [s.ports[i] EXCEPT !.backends = Reverse(@)]])]

\* The tables do not depend on the order in which the controller lists ports and
\* backends.  Reconcile compares tables to skip a republication (dataplane.go:208).
CompileDeterministic == tables # None => tables = Compile(Reversed(snapshot))

\* Compiled tables fit the BPF maps they are written to: a snapshot with one port or one
\* backend too many is refused as a whole (dataplane.go:150, 154).
TablesFit ==
  tables # None =>
    /\ Cardinality(DOMAIN tables.services) <= maxTableEntries
    /\ Len(tables.backends) <= maxTableEntries

\* The compiled arrays represent the snapshot: its flows reach exactly its backends, equal
\* snapshots have equal arrays, and the arrays fit the maps (dataplane.go, Compile and
\* SelectBackend).
TablesExact == FlowsReachOwnBackends /\ EveryBackendUsed /\ CompileDeterministic /\ TablesFit
=============================================================================
