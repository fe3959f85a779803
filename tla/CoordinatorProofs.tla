------------------------- MODULE CoordinatorProofs -------------------------
(***************************************************************************)
(* Proofs about Coordinator for all nodes, sessions, configurations and    *)
(* bounds.                                                                 *)
(***************************************************************************)
EXTENDS Coordinator, TLAPS

\* Most leaves are first-order; SMT is cited where arithmetic or records need it.
USE Zenon

-----------------------------------------------------------------------------
(* What the operators of ServiceView return *)

\* A contract is a set of Services of its NodeGroup.
LEMMA ContractType ==
  ASSUME NEW g \in NodeGroup, NEW c \in Config
  PROVE  Contract(g, c) \subseteq OwnedService
BY SMTT(30), ContractAssumption DEF Contract, OwnedService

\* Endpoints of a contract are identities.
LEMMA IdsType ==
  ASSUME NEW c \in Config
  PROVE  Ids(c) \subseteq Identity
BY SMTT(30), ContractAssumption DEF Ids

\* BackendsOf only selects.
LEMMA BackendsOfSubset ==
  ASSUME NEW S, NEW B
  PROVE  BackendsOf(S, B) \subseteq B
BY DEF BackendsOf

\* What Controller.Apply programs from a snapshot or from a view is a view.
LEMMA ControllerApplyType ==
  ASSUME NEW n \in Agent, NEW c \in Config, NEW s,
         s.services \subseteq OwnedService, s.backends \subseteq Endpoint
  PROVE  /\ ControllerApply(n, c, s) \in View
         /\ ControllerApply(n, c, s).backends \subseteq s.backends
<1>1. groupOf[n] \in NodeGroup
  BY AgentAssumption, GroupAssumption
<1>2. Contract(groupOf[n], c) \subseteq OwnedService
  BY <1>1, ContractType
<1>3. KeptServices(n, c, s.services) \subseteq OwnedService
  BY DEF KeptServices
<1>4. BackendsOf(KeptServices(n, c, s.services), s.backends) \subseteq s.backends
  BY BackendsOfSubset
<1> QED
  BY <1>2, <1>3, <1>4 DEF ControllerApply, View

\* overlayLocalContract of a snapshot changes its Services and drops backends.
LEMMA OverlaySnapshot ==
  ASSUME NEW n \in Agent, NEW c \in Config, NEW s \in Snapshot
  PROVE  /\ overlayLocalContract(n, c, s) \in Snapshot
         /\ overlayLocalContract(n, c, s).backends \subseteq s.backends
         /\ overlayLocalContract(n, c, s).gen = s.gen
<1>1. Contract(groupOf[n], c) \subseteq OwnedService
  BY AgentAssumption, GroupAssumption, ContractType
<1> DEFINE kept == {t \in s.services : t.group # groupOf[n] /\ t.id \notin Ids(c)}
<1>2. BackendsOf(kept, s.backends) \subseteq s.backends
  BY BackendsOfSubset
<1>3. kept \subseteq OwnedService
  BY DEF Snapshot
<1>4. overlayLocalContract(n, c, s) =
        [s EXCEPT !.services = kept \cup Contract(groupOf[n], c),
                  !.backends = BackendsOf(kept, s.backends)]
  BY DEF overlayLocalContract, Snapshot
<1> QED
  BY <1>1, <1>2, <1>3, <1>4 DEF Snapshot

\* The same for a bare view, the base of applyLocalTransition.
LEMMA OverlayView ==
  ASSUME NEW n \in Agent, NEW c \in Config, NEW s \in View
  PROVE  /\ overlayLocalContract(n, c, s) \in View
         /\ overlayLocalContract(n, c, s).backends \subseteq s.backends
<1>1. Contract(groupOf[n], c) \subseteq OwnedService
  BY AgentAssumption, GroupAssumption, ContractType
<1> DEFINE kept == {t \in s.services : t.group # groupOf[n] /\ t.id \notin Ids(c)}
<1>2. BackendsOf(kept, s.backends) \subseteq s.backends
  BY BackendsOfSubset
<1>3. kept \subseteq OwnedService
  BY DEF View
<1>4. overlayLocalContract(n, c, s) =
        [s EXCEPT !.services = kept \cup Contract(groupOf[n], c),
                  !.backends = BackendsOf(kept, s.backends)]
  BY DEF overlayLocalContract, View
<1> QED
  BY <1>1, <1>2, <1>3, <1>4 DEF View

\* LoadSnapshot restores a snapshot of the same version without backends.
LEMMA RestoredType ==
  ASSUME NEW n \in Agent, NEW c \in Config, NEW s \in Snapshot
  PROVE  /\ Restored(n, c, s) \in Snapshot
         /\ Restored(n, c, s).gen = s.gen
         /\ Restored(n, c, s).rev = s.rev
         /\ Restored(n, c, s).leader = s.leader
         /\ Restored(n, c, s).backends = {}
<1>1. Contract(groupOf[n], c) \subseteq OwnedService
  BY AgentAssumption, GroupAssumption, ContractType
<1> DEFINE S == {t \in s.services : t.group # groupOf[n]} \cup Contract(groupOf[n], c)
<1>2. S \subseteq OwnedService
  BY <1>1 DEF Snapshot
<1>3. Restored(n, c, s) = [s EXCEPT !.services = S, !.backends = {}]
  BY DEF Restored, Snapshot
<1> HIDE DEF S
<1> QED
  BY <1>2, <1>3 DEF Snapshot

\* BuildClusterSnapshot returns a snapshot of the given version.
LEMMA BuildType ==
  ASSUME NEW g \in Nat, NEW r \in Nat, NEW l \in Node,
         NEW reg \in [Node -> Entry \cup {None}], NEW pick \in Picks(reg)
  PROVE  BuildClusterSnapshot(g, r, l, reg, pick) \in Snapshot
<1>1. \A h \in RegisteredGroups(reg) : Contract(h, reg[pick[h]].config) \subseteq OwnedService
  <2> TAKE h \in RegisteredGroups(reg)
  <2>1. h \in NodeGroup
    BY GroupAssumption DEF RegisteredGroups, Registered
  <2>2. pick[h] \in Registered(reg)
    BY DEF Picks
  <2>3. reg[pick[h]].config \in Config
    BY <2>2 DEF Registered, Entry
  <2> QED
    BY <2>1, <2>3, ContractType
<1>2. MergedServices(reg, pick) \subseteq OwnedService
  BY <1>1 DEF MergedServices
<1>3. MergedBackends(reg, pick) \subseteq Endpoint
  BY DEF MergedBackends
<1> QED
  BY <1>2, <1>3 DEF BuildClusterSnapshot, Snapshot

\* What the next publication of a typed registry would write.
LEMMA BuiltType ==
  ASSUME LeadershipType, RegistryType, AppliedType,
         NEW n \in Agent, NEW pick \in Picks(nodes[n])
  PROVE  /\ Built(n, pick) \in Snapshot
         /\ Built(n, pick).gen = generation[n]
         /\ Built(n, pick).leader = n
<1> DEFINE r == IF snapshot[n] # None /\ snapshot[n].gen = generation[n]
               THEN snapshot[n].rev + 1 ELSE 1
<1>1. r \in Nat
  BY SMTT(30) DEF AppliedType, Snapshot
<1>2. generation[n] \in Nat /\ n \in Node /\ nodes[n] \in [Node -> Entry \cup {None}]
  BY AgentAssumption DEF LeadershipType, RegistryType
<1>3. Built(n, pick) = BuildClusterSnapshot(generation[n], r, n, nodes[n], pick)
  BY DEF Built
<1> HIDE DEF r
<1> QED
  BY SMTT(30), <1>1, <1>2, <1>3, BuildType DEF BuildClusterSnapshot

\* The snapshot with which acquire opens the next generation.
LEMMA TakeoverType ==
  ASSUME StoreType, ControllerType, NEW n \in Agent
  PROVE  /\ Takeover(n) \in Snapshot
         /\ Takeover(n).gen = IF durable = None THEN 1 ELSE durable.gen + 1
         /\ Takeover(n).rev = 0
         /\ Takeover(n).leader = n
         /\ Takeover(n).backends = {}
<1> DEFINE current == IF durable = None THEN Unpublished(n) ELSE durable
           o == overlayLocalContract(n, desired[n], Strip(current))
<1>1. current \in Snapshot
  BY AgentAssumption DEF StoreType, Unpublished, Snapshot
<1>2. current.gen = IF durable = None THEN 0 ELSE durable.gen
  BY DEF Unpublished
<1> HIDE DEF current
<1>3. Strip(current) \in Snapshot /\ Strip(current).gen = current.gen
      /\ Strip(current).backends = {}
  BY <1>1 DEF Strip, Snapshot
<1>4. desired[n] \in Config
  BY DEF ControllerType
<1>5. o \in Snapshot /\ o.backends = {} /\ o.gen = current.gen
  BY <1>3, <1>4, OverlaySnapshot
<1>6. Takeover(n) = [o EXCEPT !.gen = current.gen + 1, !.rev = 0, !.leader = n]
  BY DEF Takeover, current
<1> HIDE DEF o
<1>7. current.gen \in Nat /\ n \in Node
  BY <1>1, AgentAssumption DEF Snapshot
<1>8. Takeover(n) = [gen |-> current.gen + 1, rev |-> 0, leader |-> n,
                     services |-> o.services, backends |-> o.backends]
  BY <1>5, <1>6 DEF Snapshot
<1> QED
  BY SMTT(30), <1>2, <1>5, <1>7, <1>8, durable = None \/ durable \in Snapshot DEF StoreType, Snapshot

\* What applyLocalTransition programs; withdrawn backends stay withdrawn.
LEMMA LocalTransitionType ==
  ASSUME AppliedType, ControllerType, NEW n \in Agent
  PROVE  /\ LocalTransition(n) \in View
         /\ staleCleared[n] => LocalTransition(n).backends = {}
<1> DEFINE base == IF snapshot[n] = None THEN EmptyView
                  ELSE [services |-> snapshot[n].services,
                        backends |-> IF staleCleared[n] THEN {} ELSE snapshot[n].backends]
           o == overlayLocalContract(n, desired[n], base)
<1>1. base \in View /\ (staleCleared[n] => base.backends = {})
  <2>1. CASE snapshot[n] = None
    BY <2>1 DEF EmptyView, View
  <2>2. CASE snapshot[n] # None
    <3>1. snapshot[n] \in Snapshot
      BY <2>2 DEF AppliedType
    <3> QED
      BY <2>2, <3>1 DEF Snapshot, View
  <2> QED
    BY <2>1, <2>2
<1>2. desired[n] \in Config
  BY DEF ControllerType
<1>3. LocalTransition(n) = ControllerApply(n, desired[n], o)
  BY DEF LocalTransition
<1> HIDE DEF base
<1>4. o \in View /\ o.backends \subseteq base.backends
  BY <1>1, <1>2, OverlayView
<1> HIDE DEF o
<1>5. o.services \subseteq OwnedService /\ o.backends \subseteq Endpoint
  BY <1>4 DEF View
<1>6. /\ ControllerApply(n, desired[n], o) \in View
      /\ ControllerApply(n, desired[n], o).backends \subseteq o.backends
  BY <1>2, <1>5, ControllerApplyType
<1> QED
  BY <1>1, <1>3, <1>4, <1>6

-----------------------------------------------------------------------------
(* Type correctness *)

\* A part of the state that a step leaves alone keeps its type.
LEMMA TypeFrame ==
  /\ StoreType /\ UNCHANGED store => StoreType'
  /\ ElectionType /\ UNCHANGED election => ElectionType'
  /\ LeadershipType /\ UNCHANGED leadership => LeadershipType'
  /\ RegistryType /\ UNCHANGED registry => RegistryType'
  /\ AppliedType /\ UNCHANGED applied => AppliedType'
  /\ ControllerType /\ UNCHANGED controller => ControllerType'
BY DEF StoreType, store, ElectionType, election, LeadershipType, leadership,
       RegistryType, registry, AppliedType, applied, ControllerType, controller

\* apply keeps the types of what an agent applied.
LEMMA ApplyType ==
  ASSUME AppliedType, ControllerType, NEW n \in Agent, NEW s \in Snapshot, Apply(n, s)
  PROVE  AppliedType'
<1>1. desired[n] \in Config
  BY DEF ControllerType
<1>2. ControllerApply(n, desired[n], s) \in View
  BY <1>1, ControllerApplyType DEF Snapshot
<1> QED
  BY <1>2 DEF Apply, AppliedType, applied

\* The registration of a Hello keeps the types of the registry's maps.
LEMMA RegisterType ==
  ASSUME RegistryType, NEW l \in Agent, NEW m \in Node, NEW s \in AnySession,
         NEW c \in Config, Register(l, m, s, c), accepted' = accepted,
         used' \subseteq Session
  PROVE  RegistryType'
<1>1. [session |-> s, config |-> c, state |-> None] \in Entry
  BY DEF Entry
<1>2. nodes' \in [Agent -> [Node -> Entry \cup {None}]]
  BY <1>1 DEF Register, RegistryType
<1>3. sessions' \in [Agent -> [AnySession -> Node \cup {None}]]
  BY DEF Register, RegistryType
<1> QED
  BY <1>2, <1>3 DEF RegistryType

\* The removal of nodes keeps the types of the registry's maps.
LEMMA UnregisterType ==
  ASSUME RegistryType, NEW l \in Agent, NEW gone, Unregister(l, gone),
         UNCHANGED <<accepted, used>>
  PROVE  RegistryType'
<1>1. nodes' \in [Agent -> [Node -> Entry \cup {None}]]
  BY DEF Unregister, RegistryType
<1>2. sessions' \in [Agent -> [AnySession -> Node \cup {None}]]
  BY DEF Unregister, RegistryType
<1> QED
  BY <1>1, <1>2 DEF RegistryType

\* The storage of a NodeState keeps the types of the registry.
LEMMA StoreStateType ==
  ASSUME RegistryType, LeadershipType, NEW l \in Agent, NEW m \in Node, NEW q \in Nat,
         NEW c \in Config, NEW e \in SUBSET Identity, nodes[l][m] # None,
         StoreState(l, m, q, c, e), used' = used
  PROVE  RegistryType'
<1> DEFINE st == [seq |-> q, config |-> c, eps |-> e]
<1>1. st \in NodeState
  BY DEF NodeState
<1>2. nodes[l][m] \in Entry
  BY SMTT(30) DEF RegistryType
<1>3. [nodes[l][m] EXCEPT !.state = st] \in Entry
  BY <1>1, <1>2 DEF Entry
<1>4. nodes' \in [Agent -> [Node -> Entry \cup {None}]]
  <2>1. nodes' = [nodes EXCEPT ![l] = [nodes[l] EXCEPT ![m] = [nodes[l][m] EXCEPT !.state = st]]]
    BY DEF StoreState
  <2> HIDE DEF st
  <2> QED
    BY <1>3, <2>1 DEF RegistryType
<1>5. accepted' \subseteq [gen: Nat, node: Node, id: Identity]
  <2>1. generation[l] \in Nat
    BY DEF LeadershipType
  <2>2. \A i \in e : [gen |-> generation[l], node |-> m, id |-> i]
                      \in [gen: Nat, node: Node, id: Identity]
    BY <2>1
  <2> QED
    BY <2>2 DEF StoreState, RegistryType
<1> QED
  BY <1>4, <1>5 DEF StoreState, RegistryType

\* The return of publish keeps the types of Run and of the critical section.
LEMMA PublishReturnsType ==
  ASSUME ProcessType, NEW n \in Agent, NEW caller, NEW failed \in BOOLEAN,
         PublishReturns(n, caller, failed)
  PROVE  run' \in [Agent -> RunState] /\ pub' \in [Agent -> PubState]
<1>1. PubIdle(failed) \in PubState
  BY DEF PubIdle, PubState, Caller
<1>2. \A pc \in RunPc : RunAt(pc) \in RunState
  BY ContractAssumption DEF RunAt, RunState
<1>3. pub' \in [Agent -> PubState]
  BY <1>1 DEF PublishReturns, ProcessType
<1>4. run' \in [Agent -> RunState]
  <2>1. "exit" \in RunPc /\ "loop" \in RunPc
    BY DEF RunPc
  <2>2. RunAt("exit") \in RunState /\ RunAt("loop") \in RunState
    BY <1>2, <2>1
  <2> QED
    BY <2>2 DEF PublishReturns, ProcessType
<1> QED
  BY <1>3, <1>4

\* The same for a failed acquire, and for its next attempt.
LEMMA AcquireReturnsType ==
  ASSUME ProcessType, NEW n \in Agent, AcquireFails(n) \/ AcquireAgain(n)
  PROVE  run' \in [Agent -> RunState] /\ pub' \in [Agent -> PubState]
<1>1. pub[n] \in PubState
  BY DEF ProcessType
<1>2. PubIdle(pub[n].failed) \in PubState
  BY <1>1 DEF PubIdle, PubState, Caller
<1>3. RunAt("loop") \in RunState
  BY ContractAssumption DEF RunAt, RunState, RunPc
<1>4. AcquireFails(n) => run' \in [Agent -> RunState] /\ pub' \in [Agent -> PubState]
  BY SMTT(30), <1>2, <1>3 DEF AcquireFails, ProcessType
<1>5. [pub[n] EXCEPT !.pc = "acquireRead", !.cand = None, !.seen = None] \in PubState
  BY <1>1 DEF PubState
<1>6. ASSUME AcquireAgain(n), pub[n].attempt < MaxAttempts
      PROVE  run' \in [Agent -> RunState] /\ pub' \in [Agent -> PubState]
  BY <1>5, <1>6 DEF AcquireAgain, ProcessType
<1> QED
  BY <1>4, <1>6 DEF AcquireAgain

\* Program counters and idle critical sections have their types.
LEMMA PcTypes ==
  /\ \A pc \in RunPc : RunAt(pc) \in RunState
  /\ \A failed \in BOOLEAN : PubIdle(failed) \in PubState
BY ContractAssumption DEF RunAt, RunState, PubIdle, PubState, Caller

\* A conditional write that takes effect keeps the type of the store.
LEMMA PutType ==
  ASSUME StoreType, NEW w \in Write, PutIfMatch(w), inflight' \subseteq Write
  PROVE  StoreType'
BY DEF StoreType, PutIfMatch, Write

\* A critical section with a candidate has one that can be written.
LEMMA PendingType ==
  ASSUME ProcessType, NEW n \in Agent, pub[n].pc \notin {"idle", "acquireRead"}
  PROVE  pub[n].cand \in Snapshot /\ Pending(n) \in Write
BY DEF ProcessType, PubState, Pending, Write

\* The fault counter stays a number.
LEMMA FaultType ==
  ASSUME ProcessType, Fault \/ UNCHANGED faults
  PROVE  faults' \in Nat
BY SMTT(30) DEF ProcessType, Fault

\* publish at work keeps the types.
LEMMA PublishReadType ==
  ASSUME TypeOK, NEW n \in Agent, NEW caller \in Caller, PublishRead(n, caller)
  PROVE  TypeOK'
<1> USE DEF TypeOK
<1>0. waiting' \in [Agent -> SUBSET Caller]
  BY DEF PublishRead, ProcessType
<1>1. Fault \/ UNCHANGED faults
  BY DEF PublishRead
<1>2. run' \in [Agent -> RunState] /\ pub' \in [Agent -> PubState]
  <2>1. CASE PublishReturns(n, caller, TRUE)
    BY <2>1, PublishReturnsType
  <2>2. ASSUME NEW pick \in Picks(nodes[n]), UNCHANGED run,
               pub' = [pub EXCEPT ![n] = [pc |-> "put", caller |-> caller,
                            cand |-> Built(n, pick), seen |-> durable,
                            attempt |-> 0, failed |-> FALSE]]
        PROVE  run' \in [Agent -> RunState] /\ pub' \in [Agent -> PubState]
    <3>1. Built(n, pick) \in Snapshot
      BY BuiltType
    <3>2. [pc |-> "put", caller |-> caller, cand |-> Built(n, pick), seen |-> durable,
           attempt |-> 0, failed |-> FALSE] \in PubState
      BY <3>1 DEF PubState, StoreType
    <3> QED
      BY <2>2, <3>2 DEF ProcessType
  <2> QED
    BY <2>1, <2>2 DEF PublishRead
<1>3. UNCHANGED <<store, election, leadership, registry, applied, controller, sent, fatal>>
  BY DEF PublishRead
<1>4. ProcessType'
  BY <1>0, <1>1, <1>2, <1>3, FaultType DEF ProcessType
<1> QED
  BY <1>3, <1>4, TypeFrame

\* The conditional write of publish keeps the types.
LEMMA PublishPutType ==
  ASSUME TypeOK, NEW n \in Agent, PublishPut(n)
  PROVE  TypeOK'
<1> USE DEF TypeOK
<1>1. pub[n].pc = "put" /\ Pending(n) \in Write
  BY PendingType DEF PublishPut
<1>2. UNCHANGED <<election, leadership, registry, applied, controller, waiting, sent, fatal>>
  BY DEF PublishPut
<1>3. [pub[n] EXCEPT !.pc = "apply"] \in PubState
  BY SMTT(30), <1>1 DEF ProcessType, PubState
<1>4. StoreType' /\ ProcessType'
  <2>1. CASE PutIfMatch(Pending(n)) /\ UNCHANGED <<run, inflight, faults>>
             /\ pub' = [pub EXCEPT ![n] = [pub[n] EXCEPT !.pc = "apply"]]
    <3>1. StoreType'
      BY <1>1, <2>1, PutType DEF StoreType
    <3>2. ProcessType'
      BY <1>2, <1>3, <2>1 DEF ProcessType
    <3> QED
      BY <3>1, <3>2
  <2>2. CASE PublishReturns(n, pub[n].caller, TRUE) /\ UNCHANGED <<store, faults>>
    BY <1>2, <2>2, PublishReturnsType, TypeFrame DEF ProcessType
  <2>3. CASE PublishReturns(n, pub[n].caller, TRUE) /\ Fault
             /\ inflight' = inflight \cup {Pending(n)} /\ UNCHANGED <<durable, written>>
    <3>1. StoreType'
      BY <1>1, <2>3 DEF StoreType
    <3>2. ProcessType'
      BY <1>2, <2>3, PublishReturnsType, FaultType DEF ProcessType
    <3> QED
      BY <3>1, <3>2
  <2> QED
    BY <2>1, <2>2, <2>3 DEF PublishPut
<1> QED
  BY <1>2, <1>4, TypeFrame

\* The application of a published snapshot keeps the types.
LEMMA PublishApplyType ==
  ASSUME TypeOK, NEW n \in Agent, PublishApply(n)
  PROVE  TypeOK'
<1> USE DEF TypeOK
<1>1. pub[n].cand \in Snapshot
  BY PendingType DEF PublishApply
<1>2. UNCHANGED <<store, election, leadership, registry, controller, waiting>>
  BY DEF PublishApply
<1>3. CASE /\ Apply(n, pub[n].cand)
           /\ sent' = sent \cup {pub[n].cand, snapshot'[n]}
           /\ PublishReturns(n, pub[n].caller, FALSE)
           /\ UNCHANGED <<fatal, faults>>
  <2>1. AppliedType'
    BY <1>1, <1>3, ApplyType
  <2>2. snapshot'[n] \in Snapshot
    BY <1>1, <1>3 DEF Apply, Advances, AppliedType, applied
  <2>3. ProcessType'
    BY <1>1, <1>2, <1>3, <2>2, PublishReturnsType DEF ProcessType
  <2> QED
    BY <1>2, <2>1, <2>3, TypeFrame
<1>4. CASE /\ ApplyFails(n, pub[n].cand)
           /\ PublishReturns(n, pub[n].caller, TRUE)
           /\ UNCHANGED sent
  <2>1. AppliedType'
    BY <1>4, TypeFrame DEF ApplyFails
  <2>2. fatal' \in [Agent -> BOOLEAN] /\ faults' \in Nat
    BY SMTT(30), <1>4 DEF ApplyFails, Fault, ProcessType
  <2>3. ProcessType'
    BY <1>2, <1>4, <2>2, PublishReturnsType DEF ProcessType
  <2> QED
    BY <1>2, <2>1, <2>3, TypeFrame
<1> QED
  BY <1>3, <1>4 DEF PublishApply

\* A late write keeps the types.
LEMMA LatePutType ==
  ASSUME TypeOK, NEW w \in inflight, LatePut(w)
  PROVE  TypeOK'
<1> USE DEF TypeOK
<1>1. StoreType'
  BY PutType DEF LatePut, StoreType
<1>2. ProcessType'
  BY DEF LatePut, ProcessType
<1> QED
  BY <1>1, <1>2, TypeFrame DEF LatePut

\* acquire at work keeps the types.
LEMMA AcquireReadType ==
  ASSUME TypeOK, NEW n \in Agent, AcquireRead(n)
  PROVE  TypeOK'
<1> USE DEF TypeOK
<1>1. UNCHANGED <<store, election, leadership, registry, applied, controller, waiting,
                  sent, fatal>>
  BY DEF AcquireRead
<1>2. Fault \/ UNCHANGED faults
  BY DEF AcquireRead
<1>3. pub[n] \in PubState /\ pub[n].pc \in {"idle", "acquireRead"}
  BY DEF AcquireRead, ProcessType
<1> DEFINE next == [pc |-> "acquirePut", caller |-> "run", cand |-> Takeover(n),
                   seen |-> durable, attempt |-> pub[n].attempt + 1, failed |-> pub[n].failed]
<1>4. next \in PubState
  <2>1. Takeover(n) \in Snapshot /\ durable \in Snapshot \cup {None}
    BY TakeoverType DEF StoreType
  <2>2. pub[n].attempt \in Nat /\ pub[n].failed \in BOOLEAN
    BY <1>3 DEF PubState
  <2> QED
    BY SMTT(30), <2>1, <2>2 DEF PubState, Caller
<1>5. run' \in [Agent -> RunState] /\ pub' \in [Agent -> PubState]
  <2>1. CASE AcquireFails(n)
    BY <2>1, AcquireReturnsType
  <2>2. CASE pub' = [pub EXCEPT ![n] = next] /\ run' = [run EXCEPT ![n] = RunAt("acquire")]
    <3>1. RunAt("acquire") \in RunState
      BY PcTypes DEF RunPc
    <3> HIDE DEF next
    <3> QED
      BY <1>4, <2>2, <3>1 DEF ProcessType
  <2> QED
    BY <2>1, <2>2 DEF AcquireRead
<1>6. ProcessType'
  BY <1>1, <1>2, <1>5, FaultType DEF ProcessType
<1> QED
  BY <1>1, <1>6, TypeFrame

\* The conditional write of acquire keeps the types.
LEMMA AcquirePutType ==
  ASSUME TypeOK, NEW n \in Agent, AcquirePut(n)
  PROVE  TypeOK'
<1> USE DEF TypeOK
<1>1. pub[n].pc = "acquirePut" /\ Pending(n) \in Write /\ pub[n].cand \in Snapshot
  BY PendingType DEF AcquirePut
<1>2. UNCHANGED <<election, wasLeader, leaderReady, accepted, used, applied, controller,
                  waiting, sent, fatal>>
  BY DEF AcquirePut
<1>3. Fault \/ UNCHANGED faults
  BY DEF AcquirePut
<1>4. StoreType'
  <2>1. CASE UNCHANGED store
    BY <2>1, TypeFrame
  <2>2. CASE PutIfMatch(Pending(n)) /\ UNCHANGED inflight
    BY <1>1, <2>2, PutType DEF StoreType
  <2>3. CASE inflight' = inflight \cup {Pending(n)} /\ UNCHANGED <<durable, written>>
    BY <1>1, <2>3 DEF StoreType
  <2> QED
    BY <2>1, <2>2, <2>3 DEF AcquirePut
<1>5. run' \in [Agent -> RunState] /\ pub' \in [Agent -> PubState]
  <2>1. CASE AcquireAgain(n) \/ AcquireFails(n)
    BY <2>1, AcquireReturnsType
  <2>2. CASE pub' = [pub EXCEPT ![n] = [pub[n] EXCEPT !.pc = "acquireApply"]] /\ UNCHANGED run
    <3>1. [pub[n] EXCEPT !.pc = "acquireApply"] \in PubState
      BY SMTT(30), <1>1 DEF ProcessType, PubState
    <3> QED
      BY <2>2, <3>1 DEF ProcessType
  <2> QED
    BY <2>1, <2>2 DEF AcquirePut
<1>6. LeadershipType'
  BY <1>1, <1>2 DEF AcquirePut, LeadershipType, Snapshot
<1>7. RegistryType'
  <2>1. CASE UNCHANGED <<nodes, sessions>>
    BY <1>2, <2>1 DEF RegistryType
  <2>2. CASE ClearRegistry(n)
    BY <1>2, <2>2 DEF ClearRegistry, NoNodes, NoSessions, RegistryType
  <2> QED
    BY <2>1, <2>2 DEF AcquirePut
<1>8. ProcessType'
  BY <1>2, <1>3, <1>5, FaultType DEF ProcessType
<1> QED
  BY <1>2, <1>4, <1>6, <1>7, <1>8, TypeFrame

\* The end of acquire keeps the types.
LEMMA AcquireApplyType ==
  ASSUME TypeOK, NEW n \in Agent, AcquireApply(n)
  PROVE  TypeOK'
<1> USE DEF TypeOK
<1>1. pub[n].cand \in Snapshot
  BY PendingType DEF AcquireApply
<1>2. UNCHANGED <<store, election, generation, registry, controller, waiting, sent>>
  BY DEF AcquireApply
<1>3. LeadershipType'
  BY DEF AcquireApply, LeadershipType
<1>4. AppliedType'
  BY <1>1, ApplyType, TypeFrame DEF AcquireApply, ApplyFails
<1>5. run' \in [Agent -> RunState] /\ pub' \in [Agent -> PubState]
  <2>1. CASE AcquireFails(n)
    BY <2>1, AcquireReturnsType
  <2>2. CASE pub' = [pub EXCEPT ![n] = PubIdle(FALSE)] /\ run' = [run EXCEPT ![n] = RunAt("register")]
    <3>1. RunAt("register") \in RunState /\ PubIdle(FALSE) \in PubState
      BY PcTypes DEF RunPc
    <3> QED
      BY <2>2, <3>1 DEF ProcessType
  <2> QED
    BY <2>1, <2>2 DEF AcquireApply
<1>6. fatal' \in [Agent -> BOOLEAN] /\ (Fault \/ UNCHANGED faults)
  BY DEF AcquireApply, ApplyFails, ProcessType
<1>7. ProcessType'
  BY <1>2, <1>5, <1>6, FaultType DEF ProcessType
<1> QED
  BY <1>2, <1>3, <1>4, <1>7, TypeFrame

\* The local registration of a leader keeps the types.
LEMMA RegisterLocalType ==
  ASSUME TypeOK, NEW n \in Agent, RegisterHello(n) \/ RegisterState(n)
  PROVE  TypeOK'
<1> USE DEF TypeOK
<1>0. /\ n \in Node /\ n \in AnySession
      /\ run[n] \in RunState /\ desired[n] \in Config /\ ready[n] \in SUBSET Identity
      /\ RunAt("loop") \in RunState /\ RunAt("publish") \in RunState
  BY AgentAssumption, PcTypes DEF AnySession, ProcessType, ControllerType, RunPc
<1>1. CASE RegisterHello(n)
  <2>1. RegistryType'
    <3>1. CASE Register(n, n, n, desired[n])
      BY <1>0, <1>1, <3>1, RegisterType DEF RegisterHello, RegistryType
    <3>2. CASE UNCHANGED <<nodes, sessions>>
      BY <1>1, <3>2 DEF RegisterHello, RegistryType
    <3> QED
      BY <1>1, <3>1, <3>2 DEF RegisterHello
  <2>2. [pc |-> "state", config |-> desired[n], eps |-> ready[n]] \in RunState
    BY <1>0 DEF RunState, RunPc
  <2>3. run' \in [Agent -> RunState]
    BY <1>0, <1>1, <2>2 DEF RegisterHello, ProcessType
  <2>4. UNCHANGED <<store, election, leadership, applied, controller, waiting, pub, sent,
                    fatal, faults>>
    BY <1>1 DEF RegisterHello
  <2>5. ProcessType'
    BY <2>3, <2>4 DEF ProcessType
  <2> QED
    BY <2>1, <2>4, <2>5, TypeFrame
<1>2. CASE RegisterState(n)
  <2>1. UNCHANGED <<store, election, leadership, used, applied, controller, pub, sent,
                    fatal, faults>>
    BY <1>2 DEF RegisterState
  <2>2. run' \in [Agent -> RunState]
    BY <1>0, <1>2 DEF RegisterState, ProcessType
  <2>3. waiting' \in [Agent -> SUBSET Caller]
    BY SMTT(30), <1>2 DEF RegisterState, WantPublish, ProcessType, Caller
  <2>4. RegistryType'
    <3>1. CASE /\ CurrentSession(n, n)
                /\ StoreState(n, sessions[n][n], 1, run[n].config, run[n].eps)
      <4>1. run[n].config \in Config /\ run[n].eps \in SUBSET Identity
        BY <1>0 DEF RunState
      <4>2. sessions[n][n] \in Node /\ nodes[n][sessions[n][n]] # None
        BY SMTT(30), <1>0, <3>1 DEF CurrentSession, RegistryType
      <4>3. used' = used
        BY <2>1
      <4> QED
        BY <3>1, <4>1, <4>2, <4>3, StoreStateType
    <3>2. CASE UNCHANGED <<nodes, sessions, accepted>>
      BY <2>1, <3>2 DEF RegistryType
    <3> QED
      BY <1>2, <3>1, <3>2 DEF RegisterState
  <2>5. ProcessType'
    BY <2>1, <2>2, <2>3 DEF ProcessType
  <2> QED
    BY <2>1, <2>4, <2>5, TypeFrame
<1> QED
  BY <1>1, <1>2

\* A snapshot delivered by a stream keeps the types.
LEMMA FollowApplyType ==
  ASSUME TypeOK, NEW n \in Agent, NEW s \in sent, FollowApply(n, s)
  PROVE  TypeOK'
<1> USE DEF TypeOK
<1>1. s \in Snapshot
  BY DEF ProcessType
<1>2. UNCHANGED <<store, election, leadership, registry, controller, run, waiting, pub, sent>>
  BY DEF FollowApply
<1>3. AppliedType'
  BY <1>1, ApplyType, TypeFrame DEF FollowApply, ApplyFails
<1>4. fatal' \in [Agent -> BOOLEAN] /\ (Fault \/ UNCHANGED faults)
  BY DEF FollowApply, ApplyFails, ProcessType
<1>5. ProcessType'
  BY <1>2, <1>4, FaultType DEF ProcessType
<1> QED
  BY <1>2, <1>3, <1>5, TypeFrame

\* A Hello handled by the leader keeps the types.
LEMMA HandleHelloType ==
  ASSUME TypeOK, NEW l \in Agent, NEW s \in Session, NEW c \in Config, HandleHello(l, s, c)
  PROVE  TypeOK'
<1> USE DEF TypeOK
<1>1. s \in AnySession /\ sessionNode[s] \in Node
  BY SessionAssumption DEF AnySession
<1>2. UNCHANGED <<store, election, leadership, applied, controller, run, waiting, pub,
                  fatal, accepted, faults>>
  BY DEF HandleHello
<1>3. used' \subseteq Session
  BY DEF HandleHello, RegistryType
<1>4. RegistryType'
  BY <1>1, <1>2, <1>3, RegisterType DEF HandleHello
<1>5. sent' \subseteq Snapshot
  BY DEF HandleHello, ProcessType, AppliedType
<1>6. ProcessType'
  BY <1>2, <1>5 DEF ProcessType
<1> QED
  BY <1>2, <1>4, <1>6, TypeFrame

\* The retirement of a node handled by the leader keeps the types.
LEMMA HandleRetireType ==
  ASSUME TypeOK, NEW l \in Agent, NEW s \in Session, NEW c \in Config, HandleRetire(l, s, c)
  PROVE  TypeOK'
<1> USE DEF TypeOK
<1>1. UNCHANGED <<store, election, leadership, applied, controller, run, pub, fatal,
                  accepted, used, sent, faults>>
  BY DEF HandleRetire
<1>2. RegistryType'
  BY <1>1, UnregisterType DEF HandleRetire
<1>3. waiting' \in [Agent -> SUBSET Caller]
  BY DEF HandleRetire, WantPublish, ProcessType, Caller
<1>4. ProcessType'
  BY <1>1, <1>3 DEF ProcessType
<1> QED
  BY <1>1, <1>2, <1>4, TypeFrame

\* A NodeState handled by the leader keeps the types.
LEMMA HandleNodeStateType ==
  ASSUME TypeOK, NEW l \in Agent, NEW s \in Session, NEW q \in 1..MaxSeq, NEW c \in Config,
         NEW e \in SUBSET Ids(c), HandleNodeState(l, s, q, c, e)
  PROVE  TypeOK'
<1> USE DEF TypeOK
<1>1. UNCHANGED <<store, election, leadership, applied, controller, run, pub, fatal, used,
                  faults>>
  BY DEF HandleNodeState
<1>2. q \in Nat /\ e \in SUBSET Identity
  BY SMTT(30), BoundAssumption, IdsType
<1>3. sessions[l][s] \in Node /\ nodes[l][sessions[l][s]] # None
  BY SMTT(30) DEF HandleNodeState, CurrentSession, RegistryType, AnySession
<1>4. RegistryType'
  <2>1. CASE StoreState(l, sessions[l][s], q, c, e)
    <3>1. used' = used
      BY <1>1
    <3> QED
      BY <1>2, <1>3, <2>1, <3>1, StoreStateType
  <2>2. CASE UNCHANGED <<nodes, sessions, accepted>>
    BY <1>1, <2>2 DEF RegistryType
  <2> QED
    BY <2>1, <2>2 DEF HandleNodeState
<1>5. waiting' \in [Agent -> SUBSET Caller]
  BY SMTT(30) DEF HandleNodeState, WantPublish, ProcessType, Caller
<1>6. sent' \subseteq Snapshot
  BY SMTT(30) DEF HandleNodeState, ProcessType, AppliedType
<1>7. ProcessType'
  BY <1>1, <1>5, <1>6 DEF ProcessType
<1> QED
  BY <1>1, <1>4, <1>7, TypeFrame

\* A Drain handled by the leader keeps the types.
LEMMA HandleDrainType ==
  ASSUME TypeOK, NEW l \in Agent, NEW s \in Session, HandleDrain(l, s)
  PROVE  TypeOK'
<1> USE DEF TypeOK
<1>1. UNCHANGED <<store, election, leadership, applied, controller, run, pub, fatal,
                  accepted, used, sent, faults>>
  BY DEF HandleDrain
<1>2. RegistryType'
  BY <1>1 DEF HandleDrain, RegistryType, AnySession
<1>3. waiting' \in [Agent -> SUBSET Caller]
  BY DEF HandleDrain, WantPublish, ProcessType, Caller
<1>4. ProcessType'
  BY <1>1, <1>3 DEF ProcessType
<1> QED
  BY <1>1, <1>2, <1>4, TypeFrame

\* A change notification handled by Run keeps the types.
LEMMA RunChangeType ==
  ASSUME TypeOK, NEW n \in Agent, RunChange(n) \/ RunTransition(n)
  PROVE  TypeOK'
<1> USE DEF TypeOK
<1>0. run[n] \in RunState /\ desired[n] \in Config
  BY DEF ProcessType, ControllerType
<1>1. CASE RunChange(n)
  <2>1. UNCHANGED <<store, election, leadership, registry, applied, desired, ready,
                    lastDesired, changes, waiting, pub, sent, fatal, faults>>
    BY <1>1 DEF RunChange
  <2>2. [RunAt("change") EXCEPT !.config = desired[n]] \in RunState
    BY <1>0 DEF RunAt, RunState, RunPc
  <2>3. ProcessType'
    BY <1>1, <2>1, <2>2 DEF RunChange, ProcessType
  <2>4. ControllerType'
    BY <1>1, <2>1 DEF RunChange, ControllerType
  <2> QED
    BY <2>1, <2>3, <2>4, TypeFrame
<1>2. CASE RunTransition(n)
  <2>1. UNCHANGED <<store, election, leadership, registry, snapshot, staleCleared, desired,
                    ready, notified, changes, waiting, pub, sent, fatal>>
    BY <1>2 DEF RunTransition
  <2>2. LocalTransition(n) \in View /\ run[n].config \in Config
    BY <1>0, LocalTransitionType DEF RunState
  <2>3. \A pc \in {"register", "loop", "exit"} : RunAt(pc) \in RunState
    BY PcTypes DEF RunPc
  <2>4. run' \in [Agent -> RunState] /\ (Fault \/ UNCHANGED faults)
    BY SMTT(30), <1>2, <2>3 DEF RunTransition, ProcessType
  <2>5. AppliedType'
    BY SMTT(30), <1>2, <2>1, <2>2 DEF RunTransition, AppliedType
  <2>6. ControllerType'
    BY <1>2, <2>1, <2>2 DEF RunTransition, ControllerType
  <2>7. ProcessType'
    BY <2>1, <2>4, FaultType DEF ProcessType
  <2> QED
    BY <2>1, <2>5, <2>6, <2>7, TypeFrame
<1> QED
  BY <1>1, <1>2

\* The expiry of leases keeps the types.
LEMMA ExpireType ==
  ASSUME TypeOK, NEW n \in Agent, NEW gone \in SUBSET Node, Expire(n, gone)
  PROVE  TypeOK'
<1> USE DEF TypeOK
<1>1. UNCHANGED <<store, election, leadership, accepted, used, applied, controller, pub,
                  sent, fatal, faults>>
  BY DEF Expire
<1>2. RegistryType'
  BY <1>1, UnregisterType DEF Expire
<1>3. RunAt("publish") \in RunState
  BY PcTypes DEF RunPc
<1>4. waiting' \in [Agent -> SUBSET Caller] /\ run' \in [Agent -> RunState]
  BY <1>3 DEF Expire, WantPublish, ProcessType, Caller
<1>5. ProcessType'
  BY <1>1, <1>4 DEF ProcessType
<1> QED
  BY <1>1, <1>2, <1>5, TypeFrame

\* A tick without leadership keeps the types, and leaves no backend if it clears.
LEMMA StepDownType ==
  ASSUME TypeOK, NEW n \in Agent, StepDown(n)
  PROVE  /\ TypeOK'
         /\ staleCleared' # staleCleared => view'[n].backends = {}
<1> USE DEF TypeOK
<1>1. UNCHANGED <<store, election, generation, registry, controller, run, waiting, pub,
                  sent, fatal, faults>>
  BY DEF StepDown
<1>2. LeadershipType'
  BY <1>1 DEF StepDown, LeadershipType
<1>3. ProcessType'
  BY <1>1 DEF ProcessType
<1>4. CASE UNCHANGED applied
  <2>1. AppliedType' /\ staleCleared' = staleCleared
    BY <1>4, TypeFrame DEF applied
  <2> QED
    BY <1>1, <1>2, <1>3, <2>1, TypeFrame
<1> DEFINE o == overlayLocalContract(n, desired[n], Strip(snapshot[n]))
<1>5. CASE /\ snapshot[n] # None
           /\ staleCleared' = [staleCleared EXCEPT ![n] = TRUE]
           /\ view' = [view EXCEPT ![n] = ControllerApply(n, desired[n], o)]
           /\ UNCHANGED snapshot
  <2>1. Strip(snapshot[n]) \in Snapshot /\ Strip(snapshot[n]).backends = {}
    BY <1>5 DEF AppliedType, Strip, Snapshot
  <2>2. desired[n] \in Config
    BY DEF ControllerType
  <2>3. o \in Snapshot /\ o.backends = {}
    BY <2>1, <2>2, OverlaySnapshot
  <2> HIDE DEF o
  <2>4. o.services \subseteq OwnedService /\ o.backends \subseteq Endpoint
    BY <2>3 DEF Snapshot
  <2>5. /\ ControllerApply(n, desired[n], o) \in View
        /\ ControllerApply(n, desired[n], o).backends = {}
    BY <2>2, <2>3, <2>4, ControllerApplyType
  <2>6. AppliedType' /\ view'[n].backends = {}
    BY <1>5, <2>5 DEF AppliedType
  <2> QED
    BY <1>1, <1>2, <1>3, <2>6, TypeFrame
<1> QED
  BY <1>4, <1>5 DEF StepDown

\* The drain of a stopping process keeps the types.
LEMMA ShutdownType ==
  ASSUME TypeOK, NEW n \in Agent, Shutdown(n)
  PROVE  TypeOK'
<1> USE DEF TypeOK
<1>1. UNCHANGED <<store, election, leadership, accepted, used, applied, controller, pub,
                  sent, fatal>>
  BY DEF Shutdown
<1>2. RunAt("drain") \in RunState /\ RunAt("exit") \in RunState
  BY PcTypes DEF RunPc
<1>3. run' \in [Agent -> RunState] /\ waiting' \in [Agent -> SUBSET Caller]
  BY SMTT(30), <1>2 DEF Shutdown, WantPublish, ProcessType, Caller
<1>4. RegistryType'
  <2>1. CASE UNCHANGED <<nodes, sessions>>
    BY <1>1, <2>1 DEF RegistryType
  <2>2. CASE n \in leads
    <3>1. nodes' \in [Agent -> [Node -> Entry \cup {None}]]
      BY SMTT(30), <2>2 DEF Shutdown, RegistryType
    <3>2. sessions' \in [Agent -> [AnySession -> Node \cup {None}]]
      BY SMTT(30), <2>2 DEF Shutdown, RegistryType
    <3> QED
      BY <1>1, <3>1, <3>2 DEF RegistryType
  <2> QED
    BY <2>1, <2>2 DEF Shutdown
<1>5. Fault
  BY DEF Shutdown
<1>6. ProcessType'
  BY <1>1, <1>3, <1>5, FaultType DEF ProcessType
<1> QED
  BY <1>1, <1>4, <1>6, TypeFrame

\* The end of a process keeps the types.
LEMMA TerminateType ==
  ASSUME TypeOK, NEW n \in Agent, Exit(n) \/ Crash(n)
  PROVE  TypeOK'
<1> USE DEF TypeOK
<1>1. Terminate(n) /\ (Fault \/ UNCHANGED faults)
  BY DEF Exit, Crash
<1>2. UNCHANGED <<durable, used, sent, written, accepted, elections, changes>>
  BY <1>1 DEF Terminate
<1>3. StoreType'
  <2>1. pub[n].pc \in {"put", "acquirePut"} => Pending(n) \in Write
    BY PendingType
  <2> QED
    BY <1>1, <1>2, <2>1 DEF Terminate, StoreType
<1>4. ElectionType'
  BY <1>1, <1>2 DEF Terminate, ElectionType
<1>5. LeadershipType'
  BY <1>1 DEF Terminate, LeadershipType
<1>6. RegistryType'
  BY <1>1, <1>2 DEF Terminate, RegistryType, NoNodes, NoSessions
<1>7. AppliedType'
  <2>1. EmptyView \in View
    BY DEF EmptyView, View
  <2> QED
    BY <1>1, <2>1 DEF Terminate, AppliedType
<1>8. ControllerType'
  BY <1>1, <1>2, ContractAssumption DEF Terminate, ControllerType
<1>9. ProcessType'
  <2>1. RunAt("down") \in RunState /\ PubIdle(FALSE) \in PubState
    BY PcTypes DEF RunPc
  <2>2. faults' \in Nat
    BY <1>1, FaultType
  <2> QED
    BY <1>1, <1>2, <2>1, <2>2 DEF Terminate, ProcessType
<1> QED
  BY <1>3, <1>4, <1>5, <1>6, <1>7, <1>8, <1>9

\* The start of a process keeps the types.
LEMMA StartType ==
  ASSUME TypeOK, NEW n \in Agent, Start(n)
  PROVE  TypeOK'
<1> USE DEF TypeOK
<1>1. UNCHANGED <<store, election, leadership, registry, staleCleared, controller, waiting,
                  pub, sent>>
  BY DEF Start
<1>2. run' \in [Agent -> RunState]
  <2>1. RunAt("loop") \in RunState
    BY PcTypes DEF RunPc
  <2> QED
    BY <2>1 DEF Start, ProcessType
<1>3. fatal' \in [Agent -> BOOLEAN] /\ (Fault \/ UNCHANGED faults)
  BY DEF Start, ProcessType
<1>4. ProcessType'
  BY <1>1, <1>2, <1>3, FaultType DEF ProcessType
<1> DEFINE restored == Restored(n, desired[n], durable)
           o == overlayLocalContract(n, desired[n], restored)
<1>5. AppliedType'
  <2>1. CASE UNCHANGED <<snapshot, view>>
    BY <1>1, <2>1 DEF AppliedType
  <2>2. CASE /\ durable # None
             /\ snapshot' = [snapshot EXCEPT ![n] = restored]
             /\ view' = [view EXCEPT ![n] = ControllerApply(n, desired[n], o)]
    <3>1. durable \in Snapshot /\ desired[n] \in Config
      BY <2>2 DEF StoreType, ControllerType
    <3>2. restored \in Snapshot
      BY <3>1, RestoredType
    <3> HIDE DEF restored
    <3>3. o \in Snapshot
      BY <3>1, <3>2, OverlaySnapshot
    <3> HIDE DEF o
    <3>4. ControllerApply(n, desired[n], o) \in View
      BY <3>1, <3>3, ControllerApplyType DEF Snapshot
    <3> QED
      BY <1>1, <2>2, <3>2, <3>4 DEF AppliedType
  <2> QED
    BY <2>1, <2>2 DEF Start
<1> QED
  BY <1>1, <1>4, <1>5, TypeFrame

\* Elections and changes of Services or Pods keep the types.
LEMMA EnvironmentType ==
  ASSUME TypeOK, NEW n \in Agent,
         \/ Elect(n) \/ Depose(n)
         \/ \E c \in Config : \E e \in SUBSET Ids(c) : SetServices(n, c, e)
         \/ \E e \in SUBSET Ids(desired[n]) : SetPods(n, e)
  PROVE  TypeOK'
<1> USE DEF TypeOK
<1>1. CASE Elect(n) \/ Depose(n)
  <2>1. UNCHANGED <<store, leadership, registry, applied, controller, run, waiting, pub,
                    sent, fatal, faults>>
    BY <1>1 DEF Elect, Depose
  <2>2. ElectionType'
    BY SMTT(30), <1>1 DEF Elect, Depose, ElectionType
  <2>3. ProcessType'
    BY <2>1 DEF ProcessType
  <2> QED
    BY <2>1, <2>2, <2>3, TypeFrame
<1>2. ASSUME NEW c \in Config, NEW e \in SUBSET Ids(c),
             SetServices(n, c, e) \/ (c = desired[n] /\ SetPods(n, e))
      PROVE  TypeOK'
  <2>1. UNCHANGED <<store, election, leadership, registry, applied, lastDesired, run,
                    waiting, pub, sent, fatal, faults>>
    BY <1>2 DEF SetServices, SetPods
  <2>2. e \subseteq Identity
    BY <1>2, IdsType
  <2>3. ControllerType'
    <3>1. changes' \in Nat
      BY SMTT(30), <1>2 DEF SetServices, SetPods, Change, ControllerType
    <3>2. desired' \in [Agent -> Config]
      BY SMTT(30), <1>2 DEF SetServices, SetPods, ControllerType
    <3>3. ready' \in [Agent -> SUBSET Identity] /\ notified' \in [Agent -> BOOLEAN]
      BY <1>2, <2>2 DEF SetServices, SetPods, ControllerType
    <3> QED
      BY <2>1, <3>1, <3>2, <3>3 DEF ControllerType
  <2>4. ProcessType'
    BY <2>1 DEF ProcessType
  <2> QED
    BY <2>1, <2>3, <2>4, TypeFrame
<1>3. desired[n] \in Config
  BY DEF ControllerType
<1> QED
  BY <1>1, <1>2, <1>3

\* The initial state has the types.
LEMMA InitType == Init => TypeOK
<1> SUFFICES ASSUME Init PROVE TypeOK
  OBVIOUS
<1>1. StoreType /\ ElectionType /\ LeadershipType
  BY DEF Init, StoreType, ElectionType, LeadershipType
<1>2. RegistryType
  BY DEF Init, RegistryType, NoNodes, NoSessions
<1>3. AppliedType
  BY DEF Init, AppliedType, EmptyView, View
<1>4. ControllerType
  BY ContractAssumption DEF Init, ControllerType
<1>5. ProcessType
  <2>1. RunAt("down") \in RunState /\ PubIdle(FALSE) \in PubState
    BY PcTypes DEF RunPc
  <2> QED
    BY <2>1 DEF Init, ProcessType
<1> QED
  BY <1>1, <1>2, <1>3, <1>4, <1>5 DEF TypeOK

\* Every step, and stuttering, keeps the types.
LEMMA NextType == TypeOK /\ [Next]_vars => TypeOK'
<1> SUFFICES ASSUME TypeOK, [Next]_vars PROVE TypeOK'
  OBVIOUS
<1>1. ASSUME NEW n \in Agent, Step(n) PROVE TypeOK'
  BY <1>1, PublishReadType, PublishPutType, PublishApplyType, AcquireReadType, AcquirePutType,
     AcquireApplyType, RegisterLocalType, RunChangeType, ExpireType, StepDownType,
     ShutdownType, TerminateType DEF Step
<1>2. ASSUME NEW n \in Agent, Receive(n) PROVE TypeOK'
  BY <1>2, FollowApplyType, HandleHelloType, HandleRetireType, HandleNodeStateType,
     HandleDrainType DEF Receive
<1>3. ASSUME NEW n \in Agent, Environment(n) PROVE TypeOK'
  BY <1>3, StartType, TerminateType, EnvironmentType DEF Environment
<1>4. ASSUME NEW w \in inflight, LatePut(w) PROVE TypeOK'
  BY <1>4, LatePutType
<1>5. CASE UNCHANGED vars
  BY <1>5 DEF vars, TypeOK, StoreType, ElectionType, LeadershipType, RegistryType,
              AppliedType, ControllerType, ProcessType
<1> QED
  BY <1>1, <1>2, <1>3, <1>4, <1>5 DEF Next

\* Every variable of the coordination always has its type, for any set of nodes,
\* configurations and sessions.
THEOREM TypeCorrect == Spec => []TypeOK
BY InitType, NextType, PTL DEF Spec

-----------------------------------------------------------------------------
(* Withdrawn backends stay withdrawn *)

\* A process that starts restores Services without backends.
LEMMA StartWithoutBackends ==
  ASSUME TypeOK, NEW n \in Agent, Start(n)
  PROVE  view' = view \/ (\E v \in View : v.backends = {} /\ view' = [view EXCEPT ![n] = v])
<1> DEFINE restored == Restored(n, desired[n], durable)
           o == overlayLocalContract(n, desired[n], restored)
<1>1. CASE /\ durable # None
           /\ view' = [view EXCEPT ![n] = ControllerApply(n, desired[n], o)]
  <2>1. durable \in Snapshot /\ desired[n] \in Config
    BY <1>1 DEF TypeOK, StoreType, ControllerType
  <2>2. restored \in Snapshot /\ restored.backends = {}
    BY <2>1, RestoredType
  <2> HIDE DEF restored
  <2>3. o \in Snapshot /\ o.backends = {}
    BY <2>1, <2>2, OverlaySnapshot
  <2> HIDE DEF o
  <2>4. o.services \subseteq OwnedService /\ o.backends \subseteq Endpoint
    BY <2>3 DEF Snapshot
  <2>5. /\ ControllerApply(n, desired[n], o) \in View
        /\ ControllerApply(n, desired[n], o).backends = {}
    BY <2>1, <2>3, <2>4, ControllerApplyType
  <2> QED
    BY <1>1, <2>5
<1> QED
  BY <1>1 DEF Start

\* Every step keeps withdrawn backends withdrawn.
LEMMA NextStale == TypeOK /\ StaleStaysCleared /\ [Next]_vars => StaleStaysCleared'
<1> SUFFICES ASSUME TypeOK, StaleStaysCleared, [Next]_vars PROVE StaleStaysCleared'
  OBVIOUS
<1> USE DEF StaleStaysCleared
<1>0. staleCleared \in [Agent -> BOOLEAN] /\ view \in [Agent -> View]
  BY DEF TypeOK, AppliedType
<1>1. ASSUME UNCHANGED <<staleCleared, view>> PROVE StaleStaysCleared'
  BY <1>1
<1>2. ASSUME NEW n \in Agent, NEW s, Apply(n, s) \/ ApplyFails(n, s)
      PROVE  StaleStaysCleared'
  BY <1>0, <1>2 DEF Apply, ApplyFails, applied
<1>3. ASSUME NEW n \in Agent, NEW v, UNCHANGED staleCleared,
             view' = [view EXCEPT ![n] = v], staleCleared[n] => v.backends = {}
      PROVE  StaleStaysCleared'
  BY <1>0, <1>3
<1>4. ASSUME NEW n \in Agent, Terminate(n) PROVE StaleStaysCleared'
  BY <1>0, <1>4 DEF Terminate
<1>5. ASSUME NEW n \in Agent, Step(n) PROVE StaleStaysCleared'
  <2>1. CASE PublishApply(n) \/ AcquireApply(n)
    BY <1>2, <2>1 DEF PublishApply, AcquireApply
  <2>2. CASE \/ \E caller \in Caller : PublishRead(n, caller)
             \/ PublishPut(n) \/ AcquireRead(n) \/ AcquirePut(n)
             \/ RegisterHello(n) \/ RegisterState(n) \/ RunChange(n)
             \/ \E gone \in SUBSET Node : Expire(n, gone)
             \/ Shutdown(n)
    BY <1>1, <2>2 DEF PublishRead, PublishPut, AcquireRead, AcquirePut, RegisterHello,
                      RegisterState, RunChange, Expire, Shutdown, applied
  <2>3. CASE RunTransition(n)
    <3>1. staleCleared[n] => LocalTransition(n).backends = {}
      BY LocalTransitionType DEF TypeOK
    <3>2. UNCHANGED staleCleared /\ (view' = view \/ view' = [view EXCEPT ![n] = LocalTransition(n)])
      BY <2>3 DEF RunTransition
    <3> QED
      BY <1>1, <1>3, <3>1, <3>2
  <2>4. CASE StepDown(n)
    <3>1. staleCleared' # staleCleared => view'[n].backends = {}
      BY <2>4, StepDownType
    <3> QED
      BY <1>0, <2>4, <3>1 DEF StepDown, applied
  <2>5. CASE Exit(n)
    BY <1>4, <2>5 DEF Exit
  <2> QED
    BY <1>5, <2>1, <2>2, <2>3, <2>4, <2>5 DEF Step
<1>6. ASSUME NEW n \in Agent, Receive(n) PROVE StaleStaysCleared'
  <2>1. CASE \E s \in sent : FollowApply(n, s)
    BY <1>2, <2>1 DEF FollowApply
  <2>2. ASSUME NEW s, NEW c, HandleHello(n, s, c) \/ HandleRetire(n, s, c)
        PROVE  StaleStaysCleared'
    BY <1>1, <2>2 DEF HandleHello, HandleRetire, applied
  <2>3. ASSUME NEW s, NEW q, NEW c, NEW e, HandleNodeState(n, s, q, c, e)
        PROVE  StaleStaysCleared'
    BY <1>1, <2>3 DEF HandleNodeState, applied
  <2>4. ASSUME NEW s, HandleDrain(n, s) PROVE StaleStaysCleared'
    BY <1>1, <2>4 DEF HandleDrain, applied
  <2> QED
    BY <1>6, <2>1, <2>2, <2>3, <2>4 DEF Receive
<1>7. ASSUME NEW n \in Agent, Environment(n) PROVE StaleStaysCleared'
  <2>1. CASE Start(n)
    BY <1>1, <1>3, <2>1, StartWithoutBackends DEF Start
  <2>2. CASE Crash(n)
    BY <1>4, <2>2 DEF Crash
  <2> QED
    BY <1>1, <1>7, <2>1, <2>2 DEF Environment, Elect, Depose, SetServices, SetPods, applied
<1>8. ASSUME NEW w \in inflight, LatePut(w) PROVE StaleStaysCleared'
  BY <1>1, <1>8 DEF LatePut, applied
<1>9. CASE UNCHANGED vars
  BY <1>1, <1>9 DEF vars
<1> QED
  BY <1>5, <1>6, <1>7, <1>8, <1>9 DEF Next

\* After the lease of its last snapshot ran out, a node programs no backend until
\* it applies a newer snapshot: no local transition brings one back.
THEOREM StaleBackendsGone == Spec => []StaleStaysCleared
<1>1. Init => StaleStaysCleared
  BY DEF Init, StaleStaysCleared
<1> QED
  BY <1>1, NextStale, TypeCorrect, PTL DEF Spec

-----------------------------------------------------------------------------
(***************************************************************************)
(* Why superseded leaders are fenced: the inductive invariant behind       *)
(* DurableFenced, OneSnapshotPerVersion, AppliedWasDurable, NobodyAhead    *)
(* and the implementation of SnapshotLog.                                  *)
(*                                                                         *)
(* The store is safe because every conditional write that can still happen *)
(* names the version it extends (WriteOK).  What an agent applied is safe  *)
(* because a restored snapshot, the only one that never was durable, is    *)
(* older than any generation its process acquires (Outdated).              *)
(***************************************************************************)

\* A write extends the version it is conditional on by one step.
WriteOK(w) ==
  IF w.seen = None THEN w.cand.gen = 1 /\ w.cand.rev = 0
  ELSE \/ w.cand.gen = w.seen.gen + 1 /\ w.cand.rev = 0
       \/ /\ w.cand.gen = w.seen.gen
          /\ w.cand.leader = w.seen.leader
          /\ w.cand.rev = w.seen.rev + 1

\* The durable snapshot is the last of those written.
StoreInv ==
  /\ durable = None => written = {}
  /\ durable # None => durable \in written
  /\ \A s \in written : s.gen >= 1 /\ ~Newer(s, durable)
  /\ OneSnapshotPerVersion
  /\ \A w \in inflight : WriteOK(w)
  /\ sent \subseteq written

\* A process that is down holds nothing.
DownInv(n) ==
  run[n].pc = "down" =>
    /\ snapshot[n] = None /\ generation[n] = 0 /\ ~leaderReady[n]
    /\ pub[n].pc = "idle" /\ waiting[n] = {} /\ desired[n] = EmptyConfig

\* The critical section holds a write that extends its version, or one that is
\* written; publish, and acquire once it wrote, work for the acquired generation.
PubInv(n) ==
  /\ pub[n].pc \in {"put", "acquirePut"} => WriteOK(Pending(n))
  /\ pub[n].pc \in {"apply", "acquireApply"} => pub[n].cand \in written
  /\ pub[n].pc \in {"put", "apply", "acquireApply"} => pub[n].cand.gen = generation[n]

\* What n applied was durable, or is the restored form of something durable.
Source(n) ==
  \/ snapshot[n] \in written
  \/ \E w \in written : snapshot[n] = Restored(n, EmptyConfig, w)

\* A restored snapshot is older than what its process acquired or is acquiring,
\* and its process does not serve.
Outdated(n) ==
  /\ ~leaderReady[n]
  /\ generation[n] = 0 \/ snapshot[n].gen < generation[n]
  /\ pub[n].pc = "acquirePut" => snapshot[n].gen < pub[n].cand.gen

SnapshotInv(n) ==
  snapshot[n] # None => Source(n) /\ (snapshot[n] \notin written => Outdated(n))

AgentInv(n) == DownInv(n) /\ PubInv(n) /\ SnapshotInv(n)

FencingInv == TypeOK /\ StoreInv /\ \A n \in Agent : AgentInv(n)

-----------------------------------------------------------------------------
(* The store *)

\* A write that takes effect and extends its version keeps the store in order.
LEMMA PutKeepsStore ==
  ASSUME TypeOK, StoreInv, NEW w \in Write, WriteOK(w), PutIfMatch(w),
         \A v \in inflight' : WriteOK(v), sent' \subseteq written'
  PROVE  StoreInv' /\ written \subseteq written' /\ w.cand \in written'
<1>1. /\ written \subseteq Snapshot /\ durable \in Snapshot \cup {None}
      /\ w.cand \in Snapshot
  BY DEF TypeOK, StoreType, Write
<1>2. durable = w.seen /\ durable' = w.cand /\ written' = written \cup {w.cand}
  BY DEF PutIfMatch
<1>3. \A s \in written : Newer(w.cand, s)
  <2> SUFFICES ASSUME NEW s \in written PROVE Newer(w.cand, s)
    OBVIOUS
  <2>1. durable \in Snapshot /\ ~Newer(s, durable) /\ s \in Snapshot
    BY <1>1 DEF StoreInv
  <2>2. Newer(w.cand, durable)
    BY SMTT(30), <1>1, <1>2, <2>1, NoneAssumption DEF WriteOK, Newer, Snapshot
  <2> QED
    BY SMTT(30), <1>1, <2>1, <2>2 DEF Newer, Snapshot
<1>4. \A s \in written' : s.gen >= 1
  <2>1. durable # None => durable.gen >= 1
    BY DEF StoreInv
  <2>2. w.cand.gen >= 1
    BY SMTT(30), <1>1, <1>2, <2>1 DEF WriteOK, Snapshot
  <2> QED
    BY <1>2, <2>2 DEF StoreInv
<1>5. \A s \in written' : ~Newer(s, durable')
  <2>1. ~Newer(w.cand, w.cand)
    BY SMTT(30), <1>1 DEF Newer, Snapshot
  <2>2. \A s \in written : ~Newer(s, w.cand)
    BY SMTT(30), <1>1, <1>3 DEF Newer, Snapshot
  <2> QED
    BY <1>2, <2>1, <2>2
<1>6. OneSnapshotPerVersion'
  <2>1. \A s \in written : ~SameVersion(s, w.cand) /\ ~SameVersion(w.cand, s)
    BY SMTT(30), <1>1, <1>3 DEF Newer, SameVersion, Snapshot
  <2> QED
    BY SMTT(30), <1>2, <2>1 DEF OneSnapshotPerVersion, StoreInv
<1>7. durable' # None /\ durable' \in written'
  BY <1>1, <1>2, NoneAssumption
<1> QED
  BY <1>2, <1>4, <1>5, <1>6, <1>7 DEF StoreInv

\* Without a write the store stays in order.
LEMMA KeepsStore ==
  ASSUME StoreInv, UNCHANGED <<durable, written>>, \A v \in inflight' : WriteOK(v),
         sent' \subseteq written
  PROVE  StoreInv' /\ written \subseteq written'
BY DEF StoreInv, OneSnapshotPerVersion

-----------------------------------------------------------------------------
(* The agents *)

\* A step that does not touch agent m.
Untouched(m) ==
  /\ snapshot'[m] = snapshot[m] /\ generation'[m] = generation[m]
  /\ leaderReady'[m] = leaderReady[m] /\ pub'[m] = pub[m]
  /\ waiting'[m] = waiting[m] /\ desired'[m] = desired[m] /\ run'[m] = run[m]

\* Such a step keeps the invariant of m, whatever is written meanwhile.
LEMMA UntouchedKeeps ==
  ASSUME NEW m \in Agent, AgentInv(m), Untouched(m), written \subseteq written'
  PROVE  AgentInv(m)'
<1>1. DownInv(m)'
  BY DEF AgentInv, DownInv, Untouched
<1>2. PubInv(m)'
  BY DEF AgentInv, PubInv, Untouched, Pending
<1>3. SnapshotInv(m)'
  BY DEF AgentInv, SnapshotInv, Untouched, Source, Outdated
<1> QED
  BY <1>1, <1>2, <1>3 DEF AgentInv

\* A step of agent n that neither writes nor applies, and leaves publishMu alone;
\* n may stop serving, or send its snapshot while it serves.
Quiet(n) ==
  /\ UNCHANGED <<durable, written, inflight, snapshot, generation, pub>>
  /\ run[n].pc # "down" /\ run'[n].pc # "down"
  /\ leaderReady'[n] => leaderReady[n]
  /\ sent' \subseteq sent \cup (IF leaderReady[n] THEN {snapshot[n]} \ {None} ELSE {})
  /\ \A m \in Agent \ {n} : Untouched(m)

\* Such a step keeps the invariant.
LEMMA QuietKeeps ==
  ASSUME FencingInv, NEW n \in Agent, Quiet(n), TypeOK'
  PROVE  FencingInv'
<1>1. AgentInv(n)
  BY DEF FencingInv
<1>2. leaderReady[n] /\ snapshot[n] # None => snapshot[n] \in written
  BY <1>1 DEF AgentInv, SnapshotInv, Outdated
<1>3. sent' \subseteq written
  BY <1>2 DEF Quiet, FencingInv, StoreInv
<1>4. StoreInv' /\ written \subseteq written'
  BY <1>3, KeepsStore DEF Quiet, FencingInv, StoreInv
<1>5. AgentInv(n)'
  <2>1. DownInv(n)'
    BY DEF Quiet, DownInv
  <2>2. PubInv(n)'
    BY <1>1, <1>4 DEF Quiet, AgentInv, PubInv, Pending
  <2>3. SnapshotInv(n)'
    BY <1>1, <1>4 DEF Quiet, AgentInv, SnapshotInv, Source, Outdated
  <2> QED
    BY <2>1, <2>2, <2>3 DEF AgentInv
<1>6. \A m \in Agent \ {n} : AgentInv(m)'
  BY <1>4, UntouchedKeeps DEF Quiet, FencingInv
<1> QED
  BY <1>4, <1>5, <1>6 DEF FencingInv

\* A step of Run that only moves its own control state, and may ask for a publish.
LEMMA MoveQuiet ==
  ASSUME TypeOK, NEW n \in Agent, NEW r, NEW w,
         UNCHANGED <<store, leadership, snapshot, pub, desired, sent>>,
         run[n].pc # "down", r.pc # "down", run' = [run EXCEPT ![n] = r],
         waiting' = waiting \/ waiting' = [waiting EXCEPT ![n] = w]
  PROVE  Quiet(n)
<1>1. run'[n] = r /\ \A m \in Agent \ {n} : run'[m] = run[m]
  BY DEF TypeOK, ProcessType
<1>2. \A m \in Agent \ {n} : waiting'[m] = waiting[m]
  BY DEF TypeOK, ProcessType
<1>3. \A m \in Agent \ {n} : Untouched(m)
  BY <1>1, <1>2 DEF Untouched, leadership
<1> QED
  BY <1>1, <1>3 DEF Quiet, store, leadership

\* The steps of Run outside acquire and publish are quiet.
LEMMA RunQuiet ==
  ASSUME TypeOK, NEW n \in Agent,
         \/ RegisterHello(n) \/ RegisterState(n) \/ RunChange(n) \/ RunTransition(n)
         \/ \E gone \in SUBSET Node : Expire(n, gone)
         \/ StepDown(n) \/ Shutdown(n)
  PROVE  Quiet(n)
<1>1. CASE RegisterHello(n)
  <2>1. PICK r : r.pc # "down" /\ run' = [run EXCEPT ![n] = r]
    BY <1>1 DEF RegisterHello, RunAt
  <2>2. run[n].pc # "down" /\ UNCHANGED <<store, leadership, snapshot, pub, desired, sent, waiting>>
    BY <1>1 DEF RegisterHello, applied, controller
  <2> QED
    BY <2>1, <2>2, MoveQuiet
<1>2. CASE RegisterState(n)
  <2>1. PICK r : r.pc # "down" /\ run' = [run EXCEPT ![n] = r]
    BY <1>2 DEF RegisterState, RunAt
  <2>2. run[n].pc # "down" /\ UNCHANGED <<store, leadership, snapshot, pub, desired, sent>>
    BY <1>2 DEF RegisterState, applied, controller
  <2>3. PICK w : waiting' = waiting \/ waiting' = [waiting EXCEPT ![n] = w]
    BY <1>2 DEF RegisterState, WantPublish
  <2> QED
    BY <2>1, <2>2, <2>3, MoveQuiet
<1>3. CASE RunChange(n)
  <2>1. run' = [run EXCEPT ![n] = [RunAt("change") EXCEPT !.config = desired[n]]]
    BY <1>3 DEF RunChange
  <2>2. [RunAt("change") EXCEPT !.config = desired[n]].pc # "down"
    BY DEF RunAt
  <2>3. run[n].pc # "down" /\ UNCHANGED <<store, leadership, snapshot, pub, desired, sent, waiting>>
    BY <1>3 DEF RunChange, applied
  <2> QED
    BY <2>1, <2>2, <2>3, MoveQuiet
<1>4. CASE RunTransition(n)
  <2>1. PICK r : r.pc # "down" /\ run' = [run EXCEPT ![n] = r]
    BY <1>4 DEF RunTransition, RunAt
  <2>2. run[n].pc # "down" /\ UNCHANGED <<store, leadership, snapshot, pub, desired, sent, waiting>>
    BY <1>4 DEF RunTransition
  <2> QED
    BY <2>1, <2>2, MoveQuiet
<1>5. CASE \E gone \in SUBSET Node : Expire(n, gone)
  <2>1. PICK gone \in SUBSET Node : Expire(n, gone)
    BY <1>5
  <2>2. run' = [run EXCEPT ![n] = RunAt("publish")] /\ RunAt("publish").pc # "down"
    BY <2>1 DEF Expire, RunAt
  <2>3. run[n].pc # "down" /\ UNCHANGED <<store, leadership, snapshot, pub, desired, sent>>
    BY <2>1 DEF Expire, applied, controller
  <2>4. PICK w : waiting' = [waiting EXCEPT ![n] = w]
    BY <2>1 DEF Expire, WantPublish
  <2> QED
    BY <2>2, <2>3, <2>4, MoveQuiet
<1>6. CASE StepDown(n)
  BY <1>6 DEF StepDown, Quiet, Untouched, store, applied, controller, TypeOK, ProcessType,
              LeadershipType
<1>7. CASE Shutdown(n)
  <2>1. PICK r : r.pc # "down" /\ run' = [run EXCEPT ![n] = r]
    BY <1>7 DEF Shutdown, RunAt
  <2>2. run[n].pc # "down" /\ UNCHANGED <<store, leadership, snapshot, pub, desired, sent>>
    BY <1>7 DEF Shutdown, applied, controller
  <2>3. PICK w : waiting' = waiting \/ waiting' = [waiting EXCEPT ![n] = w]
    BY <1>7 DEF Shutdown, WantPublish
  <2> QED
    BY <2>1, <2>2, <2>3, MoveQuiet
<1> QED
  BY <1>1, <1>2, <1>3, <1>4, <1>5, <1>6, <1>7

\* The handlers of stream messages are quiet.
LEMMA HandleQuiet ==
  ASSUME TypeOK, NEW l \in Agent, NEW s \in Session, NEW c, NEW q, NEW e,
         \/ HandleHello(l, s, c) \/ HandleRetire(l, s, c)
         \/ HandleNodeState(l, s, q, c, e) \/ HandleDrain(l, s)
  PROVE  Quiet(l)
<1> USE DEF TypeOK, ProcessType, LeadershipType, Serving, Up
<1>1. CASE HandleHello(l, s, c)
  BY <1>1 DEF HandleHello, Quiet, Untouched, store, leadership, applied, controller
<1>2. CASE HandleRetire(l, s, c)
  BY <1>2 DEF HandleRetire, WantPublish, Quiet, Untouched, store, leadership, applied,
              controller
<1>3. CASE HandleNodeState(l, s, q, c, e)
  BY <1>3 DEF HandleNodeState, WantPublish, Quiet, Untouched, store, leadership, applied,
              controller
<1>4. CASE HandleDrain(l, s)
  BY <1>4 DEF HandleDrain, WantPublish, Quiet, Untouched, store, leadership, applied,
              controller
<1> QED
  BY <1>1, <1>2, <1>3, <1>4

\* Changes of Services or Pods are quiet.
LEMMA ChangeQuiet ==
  ASSUME TypeOK, NEW n \in Agent, NEW c, NEW e, SetServices(n, c, e) \/ SetPods(n, e)
  PROVE  Quiet(n)
BY DEF TypeOK, ControllerType, SetServices, SetPods, Up, Quiet, Untouched, store, leadership,
       applied

\* Elections concern no variable of the invariant.
LEMMA ElectionKeeps ==
  ASSUME FencingInv, NEW n \in Agent, Elect(n) \/ Depose(n), TypeOK'
  PROVE  FencingInv'
<1>1. UNCHANGED <<store, leadership, applied, controller, run, waiting, pub, sent>>
  BY DEF Elect, Depose
<1>2. StoreInv' /\ written \subseteq written'
  BY <1>1, KeepsStore DEF FencingInv, StoreInv, store
<1>3. \A m \in Agent : Untouched(m)
  BY <1>1 DEF Untouched, leadership, applied, controller
<1> QED
  BY <1>2, <1>3, UntouchedKeeps DEF FencingInv

-----------------------------------------------------------------------------
(* Steps that write or apply *)

\* A step is safe when the store and the agent that takes it are in order.
LEMMA AgentStep ==
  ASSUME FencingInv, TypeOK', StoreInv', written \subseteq written', NEW n \in Agent,
         AgentInv(n)', \A m \in Agent \ {n} : Untouched(m)
  PROVE  FencingInv'
BY UntouchedKeeps DEF FencingInv

\* Applying a durable snapshot that is not older than the acquired generation
\* leaves the agent with a durable snapshot.
LEMMA ApplyWritten ==
  ASSUME TypeOK, NEW n \in Agent, SnapshotInv(n), NEW s \in written,
         s.gen = generation[n], s.gen >= 1, Apply(n, s)
  PROVE  snapshot'[n] \in written /\ snapshot'[n] # None
<1>1. s \in Snapshot /\ s # None
  BY NoneAssumption DEF TypeOK, StoreType
<1>2. CASE Advances(n, s)
  BY <1>1, <1>2 DEF Apply, TypeOK, AppliedType
<1>3. CASE ~Advances(n, s)
  <2>1. snapshot'[n] = snapshot[n] /\ snapshot[n] # None /\ ~Newer(s, snapshot[n])
    BY <1>3 DEF Apply, Advances, applied
  <2>2. snapshot[n] \in Snapshot
    BY <2>1 DEF TypeOK, AppliedType
  <2>3. snapshot[n] \notin written => snapshot[n].gen < s.gen
    BY SMTT(30), <2>1 DEF SnapshotInv, Outdated
  <2>4. snapshot[n].gen < s.gen => Newer(s, snapshot[n])
    BY <1>1, <2>2 DEF Newer, Snapshot
  <2> QED
    BY <2>1, <2>3, <2>4
<1> QED
  BY <1>2, <1>3

\* Moving publish to another step keeps its candidate.
LEMMA PcExcept ==
  ASSUME NEW p \in PubState, NEW q, NEW pc, q = [p EXCEPT !.pc = pc]
  PROVE  q.pc = pc /\ q.cand = p.cand
BY SMTT(30) DEF PubState

\* The control state a process returns to.
LEMMA RunAtPc ==
  ASSUME NEW q, NEW pc, q = RunAt(pc)
  PROVE  q.pc = pc
BY SMTT(30) DEF RunAt

\* publishMu is free.
LEMMA PubIdlePc ==
  ASSUME NEW q, NEW failed, q = PubIdle(failed)
  PROVE  q.pc = "idle"
BY SMTT(30) DEF PubIdle

\* publish and acquire return with publishMu free, and the process goes on.
LEMMA ReturnsIdle ==
  ASSUME TypeOK, NEW n \in Agent, run[n].pc # "down",
         \/ \E caller, failed : PublishReturns(n, caller, failed)
         \/ AcquireFails(n)
  PROVE  /\ pub'[n].pc = "idle" /\ run'[n].pc # "down"
         /\ \A m \in Agent \ {n} : pub'[m] = pub[m] /\ run'[m] = run[m]
<1>1. CASE \E caller, failed : PublishReturns(n, caller, failed)
  <2>1. PICK caller, failed : PublishReturns(n, caller, failed)
    BY <1>1
  <2>2. pub'[n] = PubIdle(failed) /\ \A m \in Agent \ {n} : pub'[m] = pub[m]
    BY <2>1 DEF PublishReturns, TypeOK, ProcessType
  <2>3. \/ run' = run
        \/ run' = [run EXCEPT ![n] = RunAt("exit")]
        \/ run' = [run EXCEPT ![n] = RunAt("loop")]
    BY <2>1 DEF PublishReturns
  <2>4. run'[n] = run[n] \/ run'[n] = RunAt("exit") \/ run'[n] = RunAt("loop")
    BY <2>3 DEF TypeOK, ProcessType
  <2>5. \A m \in Agent \ {n} : run'[m] = run[m]
    BY <2>3 DEF TypeOK, ProcessType
  <2>6. pub'[n].pc = "idle"
    BY <2>2, PubIdlePc
  <2>7. RunAt("exit").pc = "exit" /\ RunAt("loop").pc = "loop"
    BY RunAtPc
  <2>8. run'[n].pc # "down"
    BY <2>4, <2>7
  <2> QED
    BY <2>2, <2>5, <2>6, <2>8
<1>2. CASE AcquireFails(n)
  <2>1. pub'[n] = PubIdle(pub[n].failed) /\ run'[n] = RunAt("loop")
    BY <1>2 DEF AcquireFails, TypeOK, ProcessType
  <2>2. \A m \in Agent \ {n} : pub'[m] = pub[m] /\ run'[m] = run[m]
    BY <1>2 DEF AcquireFails, TypeOK, ProcessType
  <2>3. pub'[n].pc = "idle"
    BY <2>1, PubIdlePc
  <2>4. RunAt("loop").pc = "loop"
    BY RunAtPc
  <2> QED
    BY <1>2, <2>1, <2>2, <2>3, <2>4 DEF AcquireFails
<1> QED
  BY <1>1, <1>2

\* An agent whose publishMu is free and whose snapshot stays is in order.
LEMMA IdleKeeps ==
  ASSUME NEW n \in Agent, AgentInv(n), written \subseteq written',
         snapshot'[n] = snapshot[n], generation'[n] = generation[n],
         leaderReady'[n] = leaderReady[n],
         pub'[n].pc = "idle", run'[n].pc # "down"
  PROVE  AgentInv(n)'
<1>1. DownInv(n)' /\ PubInv(n)'
  BY DEF DownInv, PubInv
<1>2. SnapshotInv(n)'
  BY DEF AgentInv, SnapshotInv, Source, Outdated
<1> QED
  BY <1>1, <1>2 DEF AgentInv

\* An agent that holds a durable snapshot with publishMu free is in order.
LEMMA HoldsWritten ==
  ASSUME NEW n \in Agent, snapshot'[n] \in written', run'[n].pc # "down",
         pub'[n].pc = "idle" \/ (PubInv(n) /\ UNCHANGED <<pub, generation, written>>)
  PROVE  AgentInv(n)'
BY DEF AgentInv, DownInv, PubInv, Pending, SnapshotInv, Source

\* A follower applies what it is sent.
LEMMA FollowApplyKeeps ==
  ASSUME FencingInv, NEW n \in Agent, NEW s \in sent, FollowApply(n, s), TypeOK'
  PROVE  FencingInv'
<1>1. UNCHANGED <<store, leadership, controller, run, waiting, pub, sent>> /\ run[n].pc # "down"
  BY DEF FollowApply, Up
<1>2. StoreInv' /\ written \subseteq written'
  BY <1>1, KeepsStore DEF FencingInv, StoreInv, store
<1>3. s \in written /\ AgentInv(n) /\ AppliedType
  BY DEF FencingInv, StoreInv, TypeOK
<1>4. \A m \in Agent \ {n} : Untouched(m)
  BY <1>1, <1>3 DEF FollowApply, Apply, ApplyFails, applied, Untouched, leadership, controller,
                    AppliedType
<1>5. AgentInv(n)'
  <2>1. CASE snapshot'[n] = s
    BY <1>1, <1>2, <1>3, <2>1, HoldsWritten DEF AgentInv, store, leadership
  <2>2. CASE snapshot' = snapshot
    BY <1>1, <1>2, <1>3, <2>2, UntouchedKeeps DEF Untouched, leadership, controller
  <2> QED
    BY <1>3, <2>1, <2>2 DEF FollowApply, Apply, ApplyFails, applied, AppliedType
<1> QED
  BY <1>2, <1>4, <1>5, AgentStep

\* publish up to its conditional write.
LEMMA PublishReadKeeps ==
  ASSUME FencingInv, NEW n \in Agent, NEW caller \in Caller, PublishRead(n, caller), TypeOK'
  PROVE  FencingInv'
<1>1. UNCHANGED <<store, leadership, applied, controller, sent>> /\ waiting[n] # {}
  BY DEF PublishRead
<1>2. StoreInv' /\ written \subseteq written'
  BY <1>1, KeepsStore DEF FencingInv, StoreInv, store
<1>3. AgentInv(n) /\ TypeOK /\ run[n].pc # "down"
  BY <1>1 DEF FencingInv, AgentInv, DownInv
<1>4. CASE PublishReturns(n, caller, TRUE)
  <2>1. /\ pub'[n].pc = "idle" /\ run'[n].pc # "down"
        /\ \A m \in Agent \ {n} : pub'[m] = pub[m] /\ run'[m] = run[m]
    BY <1>3, <1>4, ReturnsIdle
  <2>2. AgentInv(n)'
    BY <1>1, <1>2, <1>3, <2>1, IdleKeeps DEF leadership, applied
  <2>3. \A m \in Agent \ {n} : Untouched(m)
    BY <1>1, <1>3, <2>1 DEF PublishRead, Untouched, leadership, applied, controller, TypeOK,
                            ProcessType
  <2> QED
    BY <1>2, <2>2, <2>3, AgentStep
<1>5. ASSUME NEW pick \in Picks(nodes[n]), Precedes(Built(n, pick)), UNCHANGED run,
             pub' = [pub EXCEPT ![n] = [pc |-> "put", caller |-> caller,
                       cand |-> Built(n, pick), seen |-> durable,
                       attempt |-> 0, failed |-> FALSE]]
      PROVE  FencingInv'
  <2> DEFINE b == Built(n, pick)
  <2>1. b.gen = generation[n] /\ b \in Snapshot
    BY <1>3, BuiltType DEF Built, BuildClusterSnapshot, TypeOK
  <2>2. /\ durable # None /\ durable.gen = b.gen
        /\ durable.leader = b.leader /\ durable.rev + 1 = b.rev
    BY <1>5 DEF Precedes
  <2>3. /\ pub'[n] = [pc |-> "put", caller |-> caller, cand |-> b, seen |-> durable,
                      attempt |-> 0, failed |-> FALSE]
        /\ \A m \in Agent \ {n} : pub'[m] = pub[m]
    BY <1>3, <1>5 DEF TypeOK, ProcessType
  <2> HIDE DEF b
  <2>4. PubInv(n)'
    BY SMTT(30), <1>1, <2>1, <2>2, <2>3 DEF PubInv, Pending, WriteOK, leadership
  <2>5. DownInv(n)'
    BY <1>3, <1>5 DEF DownInv
  <2>6. SnapshotInv(n)'
    <3>1. UNCHANGED <<snapshot, generation, leaderReady, written>>
      BY <1>1 DEF leadership, applied, store
    <3>2. pub'[n].pc = "put"
      BY SMTT(30), <2>3
    <3> QED
      BY <1>3, <3>1, <3>2 DEF AgentInv, SnapshotInv, Source, Outdated
  <2>7. \A m \in Agent \ {n} : Untouched(m)
    <3>1. \A m \in Agent \ {n} : waiting'[m] = waiting[m]
      BY <1>1, <1>3 DEF PublishRead, TypeOK, ProcessType
    <3> QED
      BY <1>1, <1>5, <2>3, <3>1 DEF Untouched, leadership, applied, controller
  <2> QED
    BY <1>2, <2>4, <2>5, <2>6, <2>7, AgentStep DEF AgentInv
<1> QED
  BY <1>4, <1>5 DEF PublishRead

\* The conditional write of publish.
LEMMA PublishPutKeeps ==
  ASSUME FencingInv, NEW n \in Agent, PublishPut(n), TypeOK'
  PROVE  FencingInv'
<1>1. UNCHANGED <<leadership, applied, controller, waiting, sent>> /\ pub[n].pc = "put"
  BY DEF PublishPut
<1>2. AgentInv(n) /\ TypeOK /\ StoreInv /\ run[n].pc # "down"
  BY <1>1 DEF FencingInv, AgentInv, DownInv
<1>3. Pending(n) \in Write /\ WriteOK(Pending(n)) /\ pub[n].cand.gen = generation[n]
  BY <1>1, <1>2, PendingType DEF AgentInv, PubInv, TypeOK
<1>4. CASE /\ PutIfMatch(Pending(n))
           /\ pub' = [pub EXCEPT ![n] = [pub[n] EXCEPT !.pc = "apply"]]
           /\ UNCHANGED <<run, inflight>>
  <2>1. \A v \in inflight' : WriteOK(v)
    BY <1>2, <1>4 DEF StoreInv
  <2>2. sent' \subseteq written'
    BY <1>1, <1>2, <1>4 DEF StoreInv, PutIfMatch
  <2>3. StoreInv' /\ written \subseteq written' /\ pub[n].cand \in written'
    BY <1>2, <1>3, <1>4, <2>1, <2>2, PutKeepsStore DEF Pending
  <2>4. pub'[n].pc = "apply" /\ pub'[n].cand = pub[n].cand
    <3>1. pub[n] \in PubState /\ pub'[n] = [pub[n] EXCEPT !.pc = "apply"]
      BY <1>2, <1>4 DEF TypeOK, ProcessType
    <3> QED
      BY <3>1, PcExcept
  <2>5. DownInv(n)' /\ PubInv(n)'
    BY <1>1, <1>2, <1>3, <1>4, <2>3, <2>4 DEF DownInv, PubInv, leadership
  <2>6. SnapshotInv(n)'
    BY <1>1, <1>2, <2>3, <2>4 DEF AgentInv, SnapshotInv, Source, Outdated, leadership, applied
  <2>7. \A m \in Agent \ {n} : Untouched(m)
    BY <1>1, <1>2, <1>4 DEF Untouched, leadership, applied, controller, TypeOK, ProcessType
  <2> QED
    BY <2>3, <2>5, <2>6, <2>7, AgentStep DEF AgentInv
<1>5. CASE /\ PublishReturns(n, pub[n].caller, TRUE) /\ UNCHANGED <<durable, written>>
           /\ inflight' \subseteq inflight \cup {Pending(n)}
  <2>1. StoreInv' /\ written \subseteq written'
    BY <1>1, <1>2, <1>3, <1>5, KeepsStore DEF StoreInv
  <2>2. /\ pub'[n].pc = "idle" /\ run'[n].pc # "down"
        /\ \A m \in Agent \ {n} : pub'[m] = pub[m] /\ run'[m] = run[m]
    BY <1>2, <1>5, ReturnsIdle
  <2>3. AgentInv(n)'
    BY <1>1, <1>2, <2>1, <2>2, IdleKeeps DEF leadership, applied
  <2>4. \A m \in Agent \ {n} : Untouched(m)
    BY <1>1, <2>2 DEF Untouched, leadership, applied, controller
  <2> QED
    BY <2>1, <2>3, <2>4, AgentStep
<1> QED
  BY <1>4, <1>5 DEF PublishPut, store

\* A late write.
LEMMA LatePutKeeps ==
  ASSUME FencingInv, NEW w \in inflight, LatePut(w), TypeOK'
  PROVE  FencingInv'
<1>1. UNCHANGED <<leadership, applied, controller, run, waiting, pub, sent>>
  BY DEF LatePut
<1>2. w \in Write /\ WriteOK(w) /\ TypeOK /\ StoreInv
  BY DEF FencingInv, StoreInv, TypeOK, StoreType
<1>3. (\A v \in inflight' : WriteOK(v)) /\ sent' \subseteq written' /\ PutIfMatch(w)
  BY <1>1, <1>2 DEF LatePut, StoreInv, PutIfMatch
<1>4. StoreInv' /\ written \subseteq written'
  BY <1>2, <1>3, PutKeepsStore
<1>5. \A m \in Agent : Untouched(m)
  BY <1>1 DEF Untouched, leadership, applied, controller
<1> QED
  BY <1>4, <1>5, UntouchedKeeps DEF FencingInv

\* publish applies and broadcasts what it wrote.
LEMMA PublishApplyKeeps ==
  ASSUME FencingInv, NEW n \in Agent, PublishApply(n), TypeOK'
  PROVE  FencingInv'
<1>1. UNCHANGED <<store, leadership, controller, waiting>> /\ pub[n].pc = "apply"
  BY DEF PublishApply
<1>2. AgentInv(n) /\ TypeOK /\ StoreInv /\ run[n].pc # "down"
  BY <1>1 DEF FencingInv, AgentInv, DownInv
<1>3. pub[n].cand \in written /\ pub[n].cand.gen = generation[n] /\ pub[n].cand.gen >= 1
  BY <1>1, <1>2 DEF AgentInv, PubInv, StoreInv
<1>4. /\ pub'[n].pc = "idle" /\ run'[n].pc # "down"
      /\ \A m \in Agent \ {n} : pub'[m] = pub[m] /\ run'[m] = run[m]
  BY <1>2, ReturnsIdle DEF PublishApply
<1>5. \A m \in Agent \ {n} : Untouched(m)
  BY <1>1, <1>2, <1>4 DEF PublishApply, Apply, ApplyFails, applied, Untouched, leadership,
                          controller, TypeOK, AppliedType
<1>6. CASE Apply(n, pub[n].cand) /\ sent' = sent \cup {pub[n].cand, snapshot'[n]}
  <2>1. snapshot'[n] \in written
    BY <1>2, <1>3, <1>6, ApplyWritten DEF AgentInv
  <2>2. StoreInv' /\ written \subseteq written'
    BY SMTT(30), <1>1, <1>2, <1>3, <1>6, <2>1, KeepsStore DEF StoreInv, store
  <2>3. AgentInv(n)'
    BY <1>4, <2>1, <2>2, HoldsWritten
  <2> QED
    BY <1>5, <2>2, <2>3, AgentStep
<1>7. CASE ApplyFails(n, pub[n].cand) /\ UNCHANGED sent
  <2>1. StoreInv' /\ written \subseteq written'
    BY <1>1, <1>2, <1>7, KeepsStore DEF StoreInv, store
  <2>2. AgentInv(n)'
    BY <1>1, <1>2, <1>4, <1>7, <2>1, IdleKeeps DEF ApplyFails, applied, leadership
  <2> QED
    BY <1>5, <2>1, <2>2, AgentStep
<1> QED
  BY <1>6, <1>7 DEF PublishApply

\* What an agent applied is not newer than the durable snapshot.
LEMMA NotAhead ==
  ASSUME TypeOK, StoreInv, NEW n \in Agent, SnapshotInv(n), snapshot[n] # None
  PROVE  /\ durable \in Snapshot /\ snapshot[n] \in Snapshot
         /\ ~Newer(snapshot[n], durable)
<1>1. snapshot[n] \in Snapshot /\ written \subseteq Snapshot
  BY DEF TypeOK, AppliedType, StoreType
<1>2. PICK w \in written : snapshot[n].gen = w.gen /\ snapshot[n].rev = w.rev
  BY SMTT(30), <1>1, ContractAssumption, RestoredType DEF SnapshotInv, Source
<1>3. ~Newer(w, durable) /\ durable \in Snapshot
  BY <1>2 DEF StoreInv, TypeOK, StoreType
<1> QED
  BY <1>1, <1>2, <1>3 DEF Newer

\* acquire up to its conditional write.
LEMMA AcquireReadKeeps ==
  ASSUME FencingInv, NEW n \in Agent, AcquireRead(n), TypeOK'
  PROVE  FencingInv'
<1>1. UNCHANGED <<store, leadership, applied, controller, waiting, sent>>
  BY DEF AcquireRead
<1>2. StoreInv' /\ written \subseteq written'
  BY <1>1, KeepsStore DEF FencingInv, StoreInv, store
<1>3. AgentInv(n) /\ TypeOK /\ StoreInv /\ run[n].pc # "down"
  BY DEF AcquireRead, FencingInv, AgentInv, DownInv
<1>4. CASE AcquireFails(n)
  <2>1. /\ pub'[n].pc = "idle" /\ run'[n].pc # "down"
        /\ \A m \in Agent \ {n} : pub'[m] = pub[m] /\ run'[m] = run[m]
    BY <1>3, <1>4, ReturnsIdle
  <2>2. AgentInv(n)'
    BY <1>1, <1>2, <1>3, <2>1, IdleKeeps DEF leadership, applied
  <2>3. \A m \in Agent \ {n} : Untouched(m)
    BY <1>1, <2>1 DEF Untouched, leadership, applied, controller
  <2> QED
    BY <1>2, <2>2, <2>3, AgentStep
<1>5. CASE /\ pub' = [pub EXCEPT ![n] = [pc |-> "acquirePut", caller |-> "run",
                        cand |-> Takeover(n), seen |-> durable,
                        attempt |-> pub[n].attempt + 1, failed |-> pub[n].failed]]
           /\ run' = [run EXCEPT ![n] = RunAt("acquire")]
  <2> DEFINE t == Takeover(n)
  <2>1. /\ t \in Snapshot /\ t.rev = 0
        /\ t.gen = IF durable = None THEN 1 ELSE durable.gen + 1
    BY <1>3, TakeoverType DEF TypeOK
  <2>2. /\ pub'[n].pc = "acquirePut" /\ pub'[n].cand = t /\ pub'[n].seen = durable
        /\ run'[n].pc # "down"
        /\ \A m \in Agent \ {n} : pub'[m] = pub[m] /\ run'[m] = run[m]
    BY <1>3, <1>5 DEF TypeOK, ProcessType, RunAt
  <2> HIDE DEF t
  <2>3. DownInv(n)' /\ PubInv(n)'
    BY <2>1, <2>2 DEF DownInv, PubInv, Pending, WriteOK
  <2>4. snapshot[n] # None => snapshot[n].gen < t.gen
    <3>1. SnapshotInv(n)
      BY <1>3 DEF AgentInv
    <3>2. ASSUME snapshot[n] # None PROVE snapshot[n].gen < t.gen
      <4>1. /\ durable \in Snapshot /\ snapshot[n] \in Snapshot
            /\ ~Newer(snapshot[n], durable)
        BY <1>3, <3>1, <3>2, NotAhead
      <4> QED
        BY SMTT(30), <2>1, <4>1, NoneAssumption DEF Newer, Snapshot
    <3> QED
      BY <3>2
  <2>5. SnapshotInv(n)'
    BY <1>1, <1>3, <2>2, <2>4 DEF AgentInv, SnapshotInv, Source, Outdated, leadership, applied,
                                  store
  <2>6. \A m \in Agent \ {n} : Untouched(m)
    BY <1>1, <2>2 DEF Untouched, leadership, applied, controller
  <2> QED
    BY <1>2, <2>3, <2>5, <2>6, AgentStep DEF AgentInv
<1> QED
  BY <1>4, <1>5 DEF AcquireRead

\* A refused write of acquire leaves publishMu without a candidate.
LEMMA AgainKeeps ==
  ASSUME TypeOK, NEW n \in Agent, run[n].pc # "down", AcquireAgain(n) \/ AcquireFails(n)
  PROVE  /\ pub'[n].pc \in {"idle", "acquireRead"} /\ run'[n].pc # "down"
         /\ \A m \in Agent \ {n} : pub'[m] = pub[m] /\ run'[m] = run[m]
<1>1. pub[n] \in PubState
  BY DEF TypeOK, ProcessType
<1>2. CASE AcquireFails(n)
  BY <1>2, ReturnsIdle
<1>3. CASE pub' = [pub EXCEPT ![n] = [@ EXCEPT !.pc = "acquireRead",
                     !.cand = None, !.seen = None]] /\ UNCHANGED run
  BY <1>1, <1>3 DEF TypeOK, ProcessType, PubState
<1> QED
  BY <1>2, <1>3 DEF AcquireAgain

\* The conditional write of acquire.
LEMMA AcquirePutKeeps ==
  ASSUME FencingInv, NEW n \in Agent, AcquirePut(n), TypeOK'
  PROVE  FencingInv'
<1>1. UNCHANGED <<leaderReady, applied, controller, waiting, sent>> /\ pub[n].pc = "acquirePut"
  BY DEF AcquirePut
<1>2. AgentInv(n) /\ TypeOK /\ StoreInv /\ run[n].pc # "down"
  BY <1>1 DEF FencingInv, AgentInv, DownInv
<1>3. Pending(n) \in Write /\ WriteOK(Pending(n))
  BY <1>1, <1>2, PendingType DEF AgentInv, PubInv, TypeOK
<1>4. /\ StoreInv' /\ written \subseteq written'
      /\ PutIfMatch(Pending(n)) => pub[n].cand \in written'
  <2>1. CASE PutIfMatch(Pending(n)) /\ UNCHANGED inflight
    <3>1. (\A v \in inflight' : WriteOK(v)) /\ sent' \subseteq written'
      BY <1>1, <1>2, <2>1 DEF StoreInv, PutIfMatch
    <3> QED
      BY <1>2, <1>3, <2>1, <3>1, PutKeepsStore DEF Pending
  <2>2. CASE /\ UNCHANGED <<durable, written>>
             /\ inflight' \subseteq inflight \cup {Pending(n)}
    <3>1. (\A v \in inflight' : WriteOK(v)) /\ sent' \subseteq written
      BY <1>1, <1>2, <1>3, <2>2 DEF StoreInv
    <3>2. PutIfMatch(Pending(n)) => pub[n].cand \in written'
      BY DEF PutIfMatch, Pending
    <3> QED
      BY <1>2, <2>2, <3>1, <3>2, KeepsStore
  <2> QED
    BY <2>1, <2>2 DEF AcquirePut, store
<1>5. CASE /\ PutIfMatch(Pending(n))
           /\ generation' = [generation EXCEPT ![n] = pub[n].cand.gen]
           /\ pub' = [pub EXCEPT ![n] = [pub[n] EXCEPT !.pc = "acquireApply"]]
           /\ UNCHANGED run
  <2>1. /\ pub'[n].pc = "acquireApply" /\ pub'[n].cand = pub[n].cand
        /\ generation'[n] = pub[n].cand.gen
        /\ \A m \in Agent \ {n} : pub'[m] = pub[m] /\ generation'[m] = generation[m]
    <3>1. pub[n] \in PubState /\ pub'[n] = [pub[n] EXCEPT !.pc = "acquireApply"]
      BY <1>2, <1>5 DEF TypeOK, ProcessType
    <3>2. /\ generation'[n] = pub[n].cand.gen
          /\ \A m \in Agent \ {n} : pub'[m] = pub[m] /\ generation'[m] = generation[m]
      BY <1>2, <1>5 DEF TypeOK, ProcessType, LeadershipType
    <3>3. pub'[n].pc = "acquireApply" /\ pub'[n].cand = pub[n].cand
      BY <3>1, PcExcept
    <3> QED
      BY <3>2, <3>3
  <2>2. DownInv(n)' /\ PubInv(n)'
    BY <1>2, <1>4, <1>5, <2>1 DEF DownInv, PubInv
  <2>3. SnapshotInv(n)'
    BY <1>1, <1>2, <1>4, <2>1 DEF AgentInv, SnapshotInv, Source, Outdated, applied
  <2>4. \A m \in Agent \ {n} : Untouched(m)
    BY <1>1, <1>5, <2>1 DEF Untouched, applied, controller
  <2> QED
    BY <1>4, <2>2, <2>3, <2>4, AgentStep DEF AgentInv
<1>6. CASE (AcquireAgain(n) \/ AcquireFails(n)) /\ UNCHANGED generation
  <2>1. /\ pub'[n].pc \in {"idle", "acquireRead"} /\ run'[n].pc # "down"
        /\ \A m \in Agent \ {n} : pub'[m] = pub[m] /\ run'[m] = run[m]
    BY <1>2, <1>6, AgainKeeps
  <2>2. DownInv(n)' /\ PubInv(n)'
    BY <2>1 DEF DownInv, PubInv
  <2>3. SnapshotInv(n)'
    BY <1>1, <1>2, <1>4, <1>6, <2>1 DEF AgentInv, SnapshotInv, Source, Outdated, applied
  <2>4. \A m \in Agent \ {n} : Untouched(m)
    BY <1>1, <1>6, <2>1 DEF Untouched, applied, controller
  <2> QED
    BY <1>4, <2>2, <2>3, <2>4, AgentStep DEF AgentInv
<1> QED
  BY <1>5, <1>6 DEF AcquirePut

\* The end of acquire: from here on the agent serves with a durable snapshot.
LEMMA AcquireApplyKeeps ==
  ASSUME FencingInv, NEW n \in Agent, AcquireApply(n), TypeOK'
  PROVE  FencingInv'
<1>1. UNCHANGED <<store, generation, controller, waiting, sent>> /\ pub[n].pc = "acquireApply"
  BY DEF AcquireApply
<1>2. AgentInv(n) /\ TypeOK /\ StoreInv /\ run[n].pc # "down"
  BY <1>1 DEF FencingInv, AgentInv, DownInv
<1>3. pub[n].cand \in written /\ pub[n].cand.gen = generation[n] /\ pub[n].cand.gen >= 1
  BY <1>1, <1>2 DEF AgentInv, PubInv, StoreInv
<1>4. StoreInv' /\ written \subseteq written'
  BY <1>1, <1>2, KeepsStore DEF StoreInv, store
<1>5. CASE /\ Apply(n, pub[n].cand)
           /\ leaderReady' = [leaderReady EXCEPT ![n] = TRUE]
           /\ pub' = [pub EXCEPT ![n] = PubIdle(FALSE)]
           /\ run' = [run EXCEPT ![n] = RunAt("register")]
  <2>1. snapshot'[n] \in written'
    BY <1>2, <1>3, <1>4, <1>5, ApplyWritten DEF AgentInv
  <2>2. pub'[n].pc = "idle" /\ run'[n].pc # "down"
    <3>1. pub'[n] = PubIdle(FALSE) /\ run'[n] = RunAt("register")
      BY <1>2, <1>5 DEF TypeOK, ProcessType
    <3> QED
      BY <3>1, PubIdlePc, RunAtPc
  <2>3. AgentInv(n)'
    BY <2>1, <2>2, HoldsWritten
  <2>4. \A m \in Agent \ {n} : Untouched(m)
    <3>1. \A m \in Agent \ {n} : /\ pub'[m] = pub[m] /\ run'[m] = run[m]
                                 /\ leaderReady'[m] = leaderReady[m]
      BY <1>2, <1>5 DEF TypeOK, ProcessType, LeadershipType
    <3>2. \A m \in Agent \ {n} : snapshot'[m] = snapshot[m]
      BY <1>2, <1>5 DEF Apply, applied, TypeOK, AppliedType
    <3> QED
      BY <1>1, <3>1, <3>2 DEF Untouched, controller
  <2> QED
    BY <1>4, <2>3, <2>4, AgentStep
<1>6. CASE ApplyFails(n, pub[n].cand) /\ AcquireFails(n) /\ UNCHANGED leaderReady
  <2>1. /\ pub'[n].pc = "idle" /\ run'[n].pc # "down"
        /\ \A m \in Agent \ {n} : pub'[m] = pub[m] /\ run'[m] = run[m]
    BY <1>2, <1>6, ReturnsIdle
  <2>2. AgentInv(n)'
    BY <1>1, <1>2, <1>4, <1>6, <2>1, IdleKeeps DEF ApplyFails, applied
  <2>3. \A m \in Agent \ {n} : Untouched(m)
    BY <1>1, <1>6, <2>1 DEF Untouched, ApplyFails, applied, controller
  <2> QED
    BY <1>4, <2>2, <2>3, AgentStep
<1> QED
  BY <1>5, <1>6 DEF AcquireApply

\* The end of a process: its pending write may still happen, and extends its version.
LEMMA TerminateKeeps ==
  ASSUME FencingInv, NEW n \in Agent, Terminate(n), TypeOK'
  PROVE  FencingInv'
<1>1. AgentInv(n) /\ TypeOK /\ StoreInv
  BY DEF FencingInv
<1>2. UNCHANGED <<durable, written, sent>> /\ \A v \in inflight' : WriteOK(v)
  BY <1>1 DEF Terminate, StoreInv, AgentInv, PubInv
<1>3. StoreInv' /\ written \subseteq written'
  BY <1>1, <1>2, KeepsStore DEF StoreInv
<1>4. /\ snapshot'[n] = None /\ generation'[n] = 0 /\ ~leaderReady'[n]
      /\ pub'[n].pc = "idle" /\ waiting'[n] = {} /\ desired'[n] = EmptyConfig
  <2>1. snapshot'[n] = None /\ desired'[n] = EmptyConfig
    BY <1>1 DEF Terminate, TypeOK, AppliedType, ControllerType
  <2>2. generation'[n] = 0 /\ leaderReady'[n] = FALSE
    BY <1>1 DEF Terminate, TypeOK, LeadershipType
  <2>3. pub'[n] = PubIdle(FALSE) /\ waiting'[n] = {}
    BY <1>1 DEF Terminate, TypeOK, ProcessType
  <2> QED
    BY <2>1, <2>2, <2>3, PubIdlePc
<1>5. AgentInv(n)'
  BY <1>4 DEF AgentInv, DownInv, PubInv, SnapshotInv
<1>6. \A m \in Agent \ {n} : Untouched(m)
  <2>1. \A m \in Agent \ {n} : snapshot'[m] = snapshot[m] /\ desired'[m] = desired[m]
    BY <1>1 DEF Terminate, TypeOK, AppliedType, ControllerType
  <2>2. \A m \in Agent \ {n} : generation'[m] = generation[m] /\ leaderReady'[m] = leaderReady[m]
    BY <1>1 DEF Terminate, TypeOK, LeadershipType
  <2>3. \A m \in Agent \ {n} : pub'[m] = pub[m] /\ waiting'[m] = waiting[m] /\ run'[m] = run[m]
    BY <1>1 DEF Terminate, TypeOK, ProcessType
  <2> QED
    BY <2>1, <2>2, <2>3 DEF Untouched
<1> QED
  BY <1>3, <1>5, <1>6, AgentStep

\* The start of a process, which restores the durable snapshot if it can.
LEMMA StartKeeps ==
  ASSUME FencingInv, NEW n \in Agent, Start(n), TypeOK'
  PROVE  FencingInv'
<1>1. /\ UNCHANGED <<store, leadership, controller, waiting, pub, sent>>
      /\ run[n].pc = "down"
  BY DEF Start
<1>2. AgentInv(n) /\ TypeOK /\ StoreInv
  BY DEF FencingInv
<1>3. StoreInv' /\ written \subseteq written'
  BY <1>1, <1>2, KeepsStore DEF StoreInv, store
<1>4. /\ snapshot[n] = None /\ generation[n] = 0 /\ ~leaderReady[n]
      /\ pub[n].pc = "idle" /\ desired[n] = EmptyConfig
  BY <1>1, <1>2 DEF AgentInv, DownInv
<1>5. run'[n].pc # "down" /\ \A m \in Agent \ {n} : run'[m] = run[m]
  BY <1>2 DEF Start, TypeOK, ProcessType, RunAt
<1>6. \/ snapshot' = snapshot
      \/ /\ durable # None
         /\ snapshot' = [snapshot EXCEPT ![n] = Restored(n, EmptyConfig, durable)]
  BY <1>4 DEF Start
<1>7. SnapshotInv(n)'
  <2>1. snapshot'[n] # None => Source(n)'
    <3>1. written' = written /\ (durable # None => durable \in written)
      BY <1>1, <1>2 DEF StoreInv, store
    <3>2. snapshot'[n] = None \/ (durable # None /\ snapshot'[n] = Restored(n, EmptyConfig, durable))
      BY <1>2, <1>4, <1>6 DEF TypeOK, AppliedType
    <3> QED
      BY <3>1, <3>2 DEF Source
  <2>2. Outdated(n)'
    BY <1>1, <1>4 DEF Outdated, leadership
  <2> QED
    BY <2>1, <2>2 DEF SnapshotInv
<1>8. DownInv(n)' /\ PubInv(n)'
  BY <1>1, <1>4, <1>5 DEF DownInv, PubInv
<1>9. \A m \in Agent \ {n} : Untouched(m)
  <2>1. \A m \in Agent \ {n} : snapshot'[m] = snapshot[m]
    BY <1>2, <1>6 DEF TypeOK, AppliedType
  <2> QED
    BY <1>1, <1>5, <2>1 DEF Untouched, leadership, controller
<1> QED
  BY <1>3, <1>7, <1>8, <1>9, AgentStep DEF AgentInv

-----------------------------------------------------------------------------
(* The inductive invariant *)

\* The invariant holds initially.
LEMMA InitFencing == Init => FencingInv
<1> SUFFICES ASSUME Init PROVE FencingInv
  OBVIOUS
<1>1. StoreInv
  BY DEF Init, StoreInv, OneSnapshotPerVersion
<1>2. ASSUME NEW n \in Agent PROVE AgentInv(n)
  BY DEF Init, AgentInv, DownInv, PubInv, SnapshotInv, PubIdle
<1> QED
  BY <1>1, <1>2, InitType DEF FencingInv

\* Every step keeps it.
LEMMA NextFencing == FencingInv /\ [Next]_vars => FencingInv'
<1> SUFFICES ASSUME FencingInv, [Next]_vars PROVE FencingInv'
  OBVIOUS
<1>0. TypeOK /\ TypeOK'
  BY NextType DEF FencingInv
<1>1. ASSUME NEW n \in Agent, Step(n) PROVE FencingInv'
  <2>1. CASE \/ RegisterHello(n) \/ RegisterState(n) \/ RunChange(n) \/ RunTransition(n)
             \/ \E gone \in SUBSET Node : Expire(n, gone)
             \/ StepDown(n) \/ Shutdown(n)
    BY <1>0, <2>1, RunQuiet, QuietKeeps
  <2>2. CASE \/ \E caller \in Caller : PublishRead(n, caller)
             \/ PublishPut(n) \/ PublishApply(n)
    BY <1>0, <2>2, PublishReadKeeps, PublishPutKeeps, PublishApplyKeeps
  <2>3. CASE AcquireRead(n) \/ AcquirePut(n) \/ AcquireApply(n)
    BY <1>0, <2>3, AcquireReadKeeps, AcquirePutKeeps, AcquireApplyKeeps
  <2>4. CASE Exit(n)
    BY <1>0, <2>4, TerminateKeeps DEF Exit
  <2> QED
    BY <1>1, <2>1, <2>2, <2>3, <2>4 DEF Step
<1>2. ASSUME NEW n \in Agent, Receive(n) PROVE FencingInv'
  BY <1>0, <1>2, FollowApplyKeeps, HandleQuiet, QuietKeeps DEF Receive
<1>3. ASSUME NEW n \in Agent, Environment(n) PROVE FencingInv'
  BY <1>0, <1>3, StartKeeps, TerminateKeeps, ElectionKeeps, ChangeQuiet, QuietKeeps
     DEF Environment, Crash
<1>4. ASSUME NEW w \in inflight, LatePut(w) PROVE FencingInv'
  BY <1>0, <1>4, LatePutKeeps
<1>5. CASE UNCHANGED vars
  <2>1. StoreInv' /\ written \subseteq written'
    BY <1>5, KeepsStore DEF vars, FencingInv, StoreInv
  <2>2. \A m \in Agent : Untouched(m)
    BY <1>5 DEF vars, Untouched
  <2> QED
    BY <1>0, <2>1, <2>2, UntouchedKeeps DEF FencingInv
<1> QED
  BY <1>1, <1>2, <1>3, <1>4, <1>5 DEF Next

\* The invariant always holds.
THEOREM FencingInvariant == Spec => []FencingInv
BY InitFencing, NextFencing, PTL DEF Spec

\* A version identifies one durable snapshot: whatever leaders do at the same
\* time, no two writes of publish and acquire succeed with the same version.
THEOREM VersionsUnique == Spec => []OneSnapshotPerVersion
<1>1. FencingInv => OneSnapshotPerVersion
  BY DEF FencingInv, StoreInv
<1> QED
  BY <1>1, FencingInvariant, PTL

\* Agents apply, and leaders send, only what was durable; LoadSnapshot is the one
\* place that alters a snapshot before it is applied.
THEOREM OnlyDurableApplied == Spec => []AppliedWasDurable
<1>1. FencingInv => AppliedWasDurable
  BY DEF FencingInv, StoreInv, AgentInv, SnapshotInv, Source, AppliedWasDurable
<1> QED
  BY <1>1, FencingInvariant, PTL

\* No agent holds a snapshot newer than the durable one.
THEOREM NeverAhead == Spec => []NobodyAhead
<1>1. FencingInv => NobodyAhead
  BY NotAhead, NoneAssumption DEF FencingInv, AgentInv, NobodyAhead
<1> QED
  BY <1>1, FencingInvariant, PTL

-----------------------------------------------------------------------------
(* What a step does to the store and to the applied snapshots *)

Still == UNCHANGED <<durable, written, snapshot>>

Writes == \E w \in Write : WriteOK(w) /\ PutIfMatch(w) /\ UNCHANGED snapshot

\* Agent n applies s, which was durable in this or, before LoadSnapshot restored
\* it, in another form of the same version.
Adopts(n, s) ==
  /\ Advances(n, s)
  /\ s \in Snapshot
  /\ \E w \in written : VersionOf(s) = VersionOf(w)
  /\ snapshot' = [snapshot EXCEPT ![n] = s]
  /\ UNCHANGED <<durable, written>>

Forgets(n) == snapshot' = [snapshot EXCEPT ![n] = None] /\ UNCHANGED <<durable, written>>

\* apply either adopts its argument or changes nothing.
LEMMA ApplyAdopts ==
  ASSUME TypeOK, NEW n \in Agent, NEW s \in written, Apply(n, s) \/ ApplyFails(n, s),
         UNCHANGED <<durable, written>>
  PROVE  Adopts(n, s) \/ Still
BY DEF Apply, ApplyFails, applied, Adopts, Still, TypeOK, StoreType

\* Every step of Next is of one of the four kinds.
LEMMA StepKinds ==
  ASSUME FencingInv, [Next]_vars
  PROVE  \/ Still \/ Writes
         \/ \E n \in Agent : Forgets(n) \/ \E s : Adopts(n, s)
<1>0. TypeOK /\ StoreInv /\ \A n \in Agent : AgentInv(n)
  BY DEF FencingInv
<1>1. ASSUME NEW n \in Agent,
             pub[n].pc \in {"put", "acquirePut"}, PutIfMatch(Pending(n)), UNCHANGED snapshot
      PROVE  Writes
  <2>1. Pending(n) \in Write
    BY <1>0, <1>1, PendingType DEF TypeOK
  <2>2. WriteOK(Pending(n))
    BY <1>0, <1>1 DEF AgentInv, PubInv
  <2> QED
    BY <1>1, <2>1, <2>2 DEF Writes
<1>2. ASSUME NEW n \in Agent, Quiet(n) PROVE Still
  BY <1>2 DEF Quiet, Still
<1>3. ASSUME NEW n \in Agent, Step(n)
      PROVE  Still \/ Writes \/ Forgets(n) \/ \E s : Adopts(n, s)
  <2>1. CASE \/ RegisterHello(n) \/ RegisterState(n) \/ RunChange(n) \/ RunTransition(n)
             \/ \E gone \in SUBSET Node : Expire(n, gone)
             \/ StepDown(n) \/ Shutdown(n)
    BY <1>0, <1>2, <2>1, RunQuiet
  <2>2. CASE (\E caller \in Caller : PublishRead(n, caller)) \/ AcquireRead(n)
    BY <2>2 DEF PublishRead, AcquireRead, Still, store, applied
  <2>3. CASE PublishPut(n)
    BY <1>1, <2>3 DEF PublishPut, Still, store, applied
  <2>4. CASE AcquirePut(n)
    BY <1>1, <2>4 DEF AcquirePut, Still, store, applied
  <2>5. CASE PublishApply(n) \/ AcquireApply(n)
    <3>1. pub[n].cand \in written
      BY <1>0, <2>5 DEF PublishApply, AcquireApply, AgentInv, PubInv
    <3>2. UNCHANGED <<durable, written>>
      BY <2>5 DEF PublishApply, AcquireApply, store
    <3>3. Apply(n, pub[n].cand) \/ ApplyFails(n, pub[n].cand)
      BY <2>5 DEF PublishApply, AcquireApply
    <3> QED
      BY <1>0, <3>1, <3>2, <3>3, ApplyAdopts
  <2>6. CASE Exit(n)
    BY <2>6 DEF Exit, Terminate, Forgets
  <2> QED
    BY SMTT(30), <1>3, <2>1, <2>2, <2>3, <2>4, <2>5, <2>6 DEF Step
<1>4. ASSUME NEW n \in Agent, Receive(n) PROVE Still \/ \E s : Adopts(n, s)
  <2>1. ASSUME NEW s \in sent, FollowApply(n, s) PROVE Still \/ Adopts(n, s)
    <3>1. s \in written /\ UNCHANGED <<durable, written>>
      BY <1>0, <2>1 DEF FollowApply, StoreInv, store
    <3> QED
      BY <1>0, <2>1, <3>1, ApplyAdopts DEF FollowApply
  <2> QED
    BY <1>0, <1>2, <1>4, <2>1, HandleQuiet DEF Receive
<1>5. ASSUME NEW n \in Agent, Environment(n)
      PROVE  Still \/ Forgets(n) \/ \E s : Adopts(n, s)
  <2>1. CASE Start(n)
    <3>1. UNCHANGED <<durable, written>> /\ snapshot[n] = None /\ desired[n] = EmptyConfig
      BY <1>0, <2>1 DEF Start, store, AgentInv, DownInv
    <3>2. CASE snapshot' = snapshot
      BY <3>1, <3>2 DEF Still
    <3>3. CASE /\ durable # None
               /\ snapshot' = [snapshot EXCEPT ![n] = Restored(n, EmptyConfig, durable)]
      <4> DEFINE r == Restored(n, EmptyConfig, durable)
      <4>1. durable \in Snapshot /\ durable \in written
        BY <1>0, <3>3 DEF TypeOK, StoreType, StoreInv
      <4>2. /\ r \in Snapshot /\ r.gen = durable.gen /\ r.rev = durable.rev
            /\ r.leader = durable.leader
        BY SMTT(30), <4>1, ContractAssumption, RestoredType
      <4> HIDE DEF r
      <4>3. VersionOf(r) = VersionOf(durable)
        BY <3>3, <4>2, NoneAssumption DEF VersionOf
      <4>4. Adopts(n, r)
        BY <3>1, <3>3, <4>1, <4>2, <4>3 DEF Adopts, Advances, r
      <4> QED
        BY <4>4
    <3> QED
      BY <2>1, <3>1, <3>2, <3>3 DEF Start
  <2>2. CASE Crash(n)
    BY <2>2 DEF Crash, Terminate, Forgets
  <2>3. CASE Elect(n) \/ Depose(n)
    BY <2>3 DEF Elect, Depose, Still, store, applied
  <2> QED
    BY SMTT(30), <1>0, <1>2, <1>5, <2>1, <2>2, <2>3, ChangeQuiet DEF Environment
<1>6. ASSUME NEW w \in inflight, LatePut(w) PROVE Writes
  <2>1. w \in Write /\ WriteOK(w)
    BY <1>0 DEF TypeOK, StoreType, StoreInv
  <2> QED
    BY <1>6, <2>1 DEF LatePut, Writes, applied
<1>7. CASE UNCHANGED vars
  BY <1>7 DEF vars, Still
<1> QED
  BY <1>3, <1>4, <1>5, <1>6, <1>7 DEF Next

\* The durable object advances by one version at a time: the writes of superseded
\* leaders, late ones included, never take effect.
THEOREM Fenced == Spec => DurableFenced
<1> DEFINE Advance ==
      durable' # durable =>
        /\ durable' # None
        /\ IF durable = None THEN durable'.gen = 1 /\ durable'.rev = 0
           ELSE \/ durable'.gen = durable.gen + 1 /\ durable'.rev = 0
                \/ /\ durable'.gen = durable.gen
                   /\ durable'.leader = durable.leader
                   /\ durable'.rev = durable.rev + 1
<1>1. FencingInv /\ [Next]_vars => [Advance]_vars
  <2> SUFFICES ASSUME FencingInv, [Next]_vars PROVE Advance
    OBVIOUS
  <2>1. CASE Writes
    BY <2>1, NoneAssumption DEF Writes, PutIfMatch, WriteOK, Write
  <2>2. CASE UNCHANGED durable
    BY <2>2
  <2> QED
    BY <2>1, <2>2, StepKinds DEF Still, Forgets, Adopts
<1> QED
  BY <1>1, FencingInvariant, PTL DEF Spec, DurableFenced

-----------------------------------------------------------------------------
(* Coordination implements the log of versions *)

\* A write appends a version to the log.
LEMMA WritesAppend ==
  ASSUME TypeOK, Writes
  PROVE  Log!Next
<1>1. PICK w \in Write : WriteOK(w) /\ PutIfMatch(w) /\ UNCHANGED snapshot
  BY DEF Writes
<1>2. /\ w.cand \in Snapshot /\ w.cand # None /\ w.cand.leader \in Node
      /\ durable = w.seen /\ durable' = w.cand /\ written' = written \cup {w.cand}
  BY <1>1, NoneAssumption DEF Write, PutIfMatch, Snapshot
<1> DEFINE v == VersionOf(w.cand)
<1>3. v = [gen |-> w.cand.gen, rev |-> w.cand.rev, leader |-> w.cand.leader]
  BY <1>2 DEF VersionOf
<1>4. /\ VersionOf(durable)' = v
      /\ {VersionOf(s) : s \in written}' = {VersionOf(s) : s \in written} \cup {v}
      /\ UNCHANGED [n \in Agent |-> VersionOf(snapshot[n])]
  BY <1>1, <1>2 DEF VersionOf
<1>5. CASE durable = None
  <2>1. VersionOf(durable) = None
    BY <1>5 DEF VersionOf
  <2>2. Log!Acquire(w.cand.leader)
    BY <1>1, <1>2, <1>3, <1>4, <1>5, <2>1 DEF Log!Acquire, Log!Append, WriteOK
  <2> QED
    BY <1>2, <2>2 DEF Log!Next
<1>6. CASE durable # None
  <2>1. /\ VersionOf(durable) = [gen |-> durable.gen, rev |-> durable.rev,
                                 leader |-> durable.leader]
        /\ durable \in Snapshot
    BY <1>6 DEF VersionOf, TypeOK, StoreType
  <2>2. VersionOf(durable) # None
    BY SMTT(30), <2>1, VersionAssumption DEF Snapshot
  <2>3. CASE w.cand.gen = durable.gen + 1 /\ w.cand.rev = 0
    <3>1. Log!Acquire(w.cand.leader)
      BY SMTT(30), <1>3, <1>4, <2>1, <2>2, <2>3 DEF Log!Acquire, Log!Append
    <3> QED
      BY <1>2, <3>1 DEF Log!Next
  <2>4. CASE /\ w.cand.gen = durable.gen /\ w.cand.leader = durable.leader
             /\ w.cand.rev = durable.rev + 1
    <3>1. v = [VersionOf(durable) EXCEPT !.rev = VersionOf(durable).rev + 1]
      BY SMTT(30), <1>3, <2>1, <2>4
    <3>2. Log!Publish
      BY <1>4, <2>2, <3>1 DEF Log!Publish, Log!Append
    <3> QED
      BY <3>2 DEF Log!Next
  <2> QED
    BY <1>1, <1>2, <1>6, <2>3, <2>4 DEF WriteOK
<1> QED
  BY <1>5, <1>6

\* Applying a snapshot moves an agent forward in the log.
LEMMA AdoptsMoves ==
  ASSUME TypeOK, NEW n \in Agent, NEW s, Adopts(n, s)
  PROVE  Log!Next
<1>1. s \in Snapshot /\ s # None /\ UNCHANGED <<durable, written>>
  BY NoneAssumption DEF Adopts
<1>2. VersionOf(s) \in {VersionOf(w) : w \in written}
  BY DEF Adopts
<1> DEFINE held == [m \in Agent |-> VersionOf(snapshot[m])]
<1>3. held' = [held EXCEPT ![n] = VersionOf(s)]
  BY DEF Adopts, VersionOf, TypeOK, AppliedType
<1>4. held[n] # None => Log!Above(VersionOf(s), held[n])
  BY <1>1 DEF Adopts, Advances, Newer, VersionOf, Log!Above
<1>5. Log!Adopt(n, VersionOf(s))
  BY <1>1, <1>2, <1>3, <1>4 DEF Log!Adopt, VersionOf
<1> QED
  BY <1>2, <1>5 DEF Log!Next

\* The end of a process takes its version away.
LEMMA ForgetsMoves ==
  ASSUME TypeOK, NEW n \in Agent, Forgets(n)
  PROVE  Log!Next
<1> DEFINE held == [m \in Agent |-> VersionOf(snapshot[m])]
<1>1. held' = [held EXCEPT ![n] = None]
  BY DEF Forgets, VersionOf, TypeOK, AppliedType
<1>2. Log!Forget(n)
  BY <1>1 DEF Log!Forget, Forgets, VersionOf
<1> QED
  BY <1>2 DEF Log!Next

\* Coordination implements SnapshotLog: superseded leaders, late writes, crashes
\* and restarts included, agents see one growing log of versions.
THEOREM ImplementsSnapshotLog == Spec => ImplementsLog
<1>1. Init => Log!Init
  BY DEF Init, Log!Init, VersionOf
<1>2. FencingInv /\ [Next]_vars => [Log!Next]_(Log!logVars)
  <2> SUFFICES ASSUME FencingInv, [Next]_vars PROVE [Log!Next]_(Log!logVars)
    OBVIOUS
  <2>1. TypeOK
    BY DEF FencingInv
  <2>2. CASE Still
    BY <2>2 DEF Still, Log!logVars, VersionOf
  <2>3. CASE Writes
    BY <2>1, <2>3, WritesAppend
  <2>4. ASSUME NEW n \in Agent, Forgets(n) \/ \E s : Adopts(n, s) PROVE Log!Next
    BY <2>1, <2>4, AdoptsMoves, ForgetsMoves
  <2> QED
    BY <2>2, <2>3, <2>4, StepKinds
<1> QED
  BY <1>1, <1>2, FencingInvariant, PTL DEF Spec, ImplementsLog, Log!Spec

-----------------------------------------------------------------------------
(***************************************************************************)
(* Why the registry of a leader is coherent and what it publishes is its   *)
(* registry: the inductive invariants behind RegistryCoherent,             *)
(* BackendsReported and PublishedIsRegistry.                               *)
(*                                                                         *)
(* A registry stays coherent because a session enters it once and takes    *)
(* the place of the one it supersedes in both maps (Matched), and because  *)
(* a Hello that contradicts another is refused (Harmonious).  What is      *)
(* published is the registry because a critical section works on a copy    *)
(* made under its mutex, and every change beside it either leaves the copy *)
(* as it is or leaves a mark that somebody is to publish again.            *)
(***************************************************************************)
-----------------------------------------------------------------------------
(* Coherence of the registry *)

Registry == [Node -> Entry \cup {None}]
SessionMap == [AnySession -> Node \cup {None}]

\* The two maps of a registry lead to each other.
Matched(reg, ses) ==
  /\ \A m \in Registered(reg) : ses[reg[m].session] = m
  /\ \A s \in AnySession : ses[s] # None => reg[ses[s]] # None /\ reg[ses[s]].session = s

\* Two Hellos do not contradict each other.
Compatible(g, c, h, d) == IF g = h THEN c = d ELSE ~contractsOverlap(c, d)

Harmonious(reg) ==
  \A m, p \in Registered(reg) :
    m # p => Compatible(groupOf[m], reg[m].config, groupOf[p], reg[p].config)

\* Agent l knows no session but those whose Hello arrived and its own.
KnownSessions(l, ses) ==
  \A s \in AnySession : ses[s] # None => s \in used \/ (s = l /\ ses[s] = l)

Coherent(l) ==
  /\ Matched(nodes[l], sessions[l])
  /\ Harmonious(nodes[l])
  /\ KnownSessions(l, sessions[l])

CoherenceInv == FencingInv /\ \A l \in Agent : Coherent(l)

-----------------------------------------------------------------------------
(* Origin of backends *)

\* Every backend of s was reported to the leader of its generation.
Reported(s) ==
  \A b \in s.backends : [gen |-> s.gen, node |-> b.node, id |-> b.id] \in accepted

\* Every endpoint that agent n leases was reported in its generation.
Leased(n) ==
  \A m \in Registered(nodes[n]) : nodes[n][m].state # None =>
    \A i \in nodes[n][m].state.eps : [gen |-> generation[n], node |-> m, id |-> i] \in accepted

ReportInv ==
  /\ TypeOK
  /\ \A s \in written : Reported(s)
  /\ \A w \in inflight : Reported(w.cand)
  /\ \A n \in Agent : /\ pub[n].cand # None => Reported(pub[n].cand)
                      /\ Leased(n)

-----------------------------------------------------------------------------
(* Publication of the registry *)

\* One leader per generation.
OneLeader == \A s, t \in written : s.gen = t.gen => s.leader = t.leader

\* What a conditional write read was durable.
SeenInv == \A w \in inflight : w.seen # None => w.seen \in written

\* The generation of n is the one it opened.
Owned(n) == generation[n] # 0 => \E s \in written : s.gen = generation[n] /\ s.leader = n

\* publish extends a snapshot of n, acquire opens a generation of n.
SectionInv(n) ==
  /\ pub[n].pc \in {"put", "acquirePut"} /\ pub[n].seen # None => pub[n].seen \in written
  /\ pub[n].pc = "put" =>
       pub[n].seen # None /\ pub[n].seen.gen = generation[n] /\ pub[n].seen.leader = n
  /\ pub[n].pc = "acquirePut" =>
       /\ pub[n].cand.leader = n
       /\ pub[n].cand.gen = IF pub[n].seen = None THEN 1 ELSE pub[n].seen.gen + 1
  /\ pub[n].pc \in {"acquirePut", "acquireApply"} => pub[n].cand.rev = 0
  /\ pub[n].pc \in {"acquireRead", "acquirePut", "acquireApply"} => ~leaderReady[n]
  /\ leaderReady[n] => wasLeader[n]

\* n has not left a write behind that could still extend its generation.
Clean(n) ==
  \/ pub[n].pc \in {"apply", "acquireApply"}
  \/ pub[n].pc = "idle" /\ ~pub[n].failed /\ leaderReady[n]

LateInv(n) ==
  Clean(n) => \A w \in inflight : w.seen = durable => w.cand.gen # generation[n]

\* s is what BuildClusterSnapshot makes of the registry of n, whatever its order.
Merges(n, s) ==
  \A pick \in Picks(nodes[n]) :
    /\ s.services = MergedServices(nodes[n], pick)
    /\ s.backends = MergedBackends(nodes[n], pick)

\* No publication is due: nobody waits for publishMu, and every node reported.
Reflected(n) ==
  waiting[n] = {} /\ \A m \in Registered(nodes[n]) : nodes[n][m].state # None

ContentInv(n) ==
  /\ pub[n].pc \in {"apply", "acquireApply"} /\ durable.gen = generation[n] =>
       durable = pub[n].cand
  /\ pub[n].pc \in {"put", "apply"} /\ Reflected(n) => Merges(n, pub[n].cand)
  /\ /\ leaderReady[n] /\ pub[n].pc = "idle" /\ ~pub[n].failed /\ Reflected(n)
     /\ durable.gen = generation[n] /\ durable.rev > 0
     => Merges(n, durable)

PublicationInv ==
  /\ CoherenceInv /\ OneLeader /\ SeenInv
  /\ \A n \in Agent : Owned(n) /\ SectionInv(n) /\ LateInv(n) /\ ContentInv(n)

-----------------------------------------------------------------------------
(* What the operations of the registry do to its maps *)

\* A Hello: the entry of m under session s replaces the one m had.
Enter(reg, m, s, c) == [reg EXCEPT ![m] = [session |-> s, config |-> c, state |-> None]]

Rename(reg, ses, m, s) ==
  [t \in AnySession |-> IF t = s THEN m
                        ELSE IF reg[m] # None /\ reg[m].session = t THEN None
                        ELSE ses[t]]

\* A retired, drained or expired entry is removed with its session.
Leave(reg, gone) == [m \in Node |-> IF m \in gone THEN None ELSE reg[m]]

Close(reg, ses, gone) ==
  [t \in AnySession |-> IF \E m \in gone : reg[m] # None /\ reg[m].session = t
                        THEN None ELSE ses[t]]

\* The fields of the entry a Hello makes.
LEMMA EnterFields ==
  ASSUME NEW reg \in Registry, NEW m \in Node, NEW s \in AnySession, NEW c \in Config
  PROVE  /\ Enter(reg, m, s, c)[m].session = s
         /\ Enter(reg, m, s, c)[m].config = c
         /\ Enter(reg, m, s, c)[m].state = None
         /\ Enter(reg, m, s, c)[m] # None
         /\ \A p \in Node \ {m} : Enter(reg, m, s, c)[p] = reg[p]
         /\ Enter(reg, m, s, c) \in Registry
<1> DEFINE e == [session |-> s, config |-> c, state |-> None]
<1>1. e \in Entry
  BY DEF Entry
<1>2. e.session = s /\ e.config = c /\ e.state = None /\ e # None
  BY <1>1, EntryAssumption
<1> HIDE DEF e
<1>3. /\ Enter(reg, m, s, c)[m] = e /\ \A p \in Node \ {m} : Enter(reg, m, s, c)[p] = reg[p]
      /\ Enter(reg, m, s, c) \in Registry
  BY <1>1 DEF Enter, e, Registry
<1> QED
  BY <1>2, <1>3

\* A Hello under a session that is new, or already the one of m, keeps the maps matched.
LEMMA EnterMatched ==
  ASSUME NEW reg \in Registry, NEW ses \in SessionMap, Matched(reg, ses),
         NEW m \in Node, NEW s \in AnySession, NEW c \in Config,
         ses[s] = None \/ ses[s] = m
  PROVE  Matched(Enter(reg, m, s, c), Rename(reg, ses, m, s))
<1> DEFINE r == Enter(reg, m, s, c)
           t == Rename(reg, ses, m, s)
<1>1. /\ r[m].session = s /\ r[m] # None
      /\ \A p \in Node \ {m} : r[p] = reg[p]
  BY SMT, EnterFields
<1>2. /\ t[s] = m
      /\ \A u \in AnySession \ {s} :
           t[u] = IF reg[m] # None /\ reg[m].session = u THEN None ELSE ses[u]
  BY DEF Rename
<1>3. None \notin Node
  BY SessionAssumption
<1> HIDE DEF r, t
<1>4. ASSUME NEW p \in Registered(r) PROVE t[r[p].session] = p
  <2>1. CASE p = m
    BY <1>1, <1>2, <2>1
  <2>2. CASE p # m
    <3>1. p \in Node /\ reg[p] = r[p] /\ reg[p] # None
      BY <1>1, <2>2 DEF Registered
    <3>2. reg[p].session \in AnySession
      BY <3>1 DEF Registry, Entry
    <3>3. ses[reg[p].session] = p
      BY <3>1 DEF Matched, Registered
    <3>4. reg[p].session # s
      BY <1>3, <2>2, <3>1, <3>3
    <3>5. ~(reg[m] # None /\ reg[m].session = reg[p].session)
      BY <2>2, <3>3 DEF Matched, Registered
    <3> QED
      BY <1>2, <3>1, <3>2, <3>3, <3>4, <3>5
  <2> QED
    BY <2>1, <2>2
<1>5. ASSUME NEW u \in AnySession, t[u] # None PROVE r[t[u]] # None /\ r[t[u]].session = u
  <2>1. CASE u = s
    BY <1>1, <1>2, <2>1
  <2>2. CASE u # s
    <3>1. t[u] = ses[u] /\ ~(reg[m] # None /\ reg[m].session = u)
      BY <1>2, <1>5, <2>2
    <3>2. ses[u] \in Node /\ reg[ses[u]] # None /\ reg[ses[u]].session = u
      BY <1>5, <3>1 DEF Matched, SessionMap
    <3>3. ses[u] # m
      BY <3>1, <3>2
    <3> QED
      BY <1>1, <3>1, <3>2, <3>3
  <2> QED
    BY <2>1, <2>2
<1> QED
  BY <1>4, <1>5 DEF Matched, r, t

\* Removing entries with their sessions keeps the maps matched.
LEMMA LeaveMatched ==
  ASSUME NEW reg \in Registry, NEW ses \in SessionMap, Matched(reg, ses),
         NEW gone \in SUBSET Node
  PROVE  Matched(Leave(reg, gone), Close(reg, ses, gone))
<1> DEFINE r == Leave(reg, gone)
           t == Close(reg, ses, gone)
<1>1. \A p \in Node : r[p] = IF p \in gone THEN None ELSE reg[p]
  BY DEF Leave
<1>2. \A u \in AnySession :
        t[u] = IF \E m \in gone : reg[m] # None /\ reg[m].session = u THEN None ELSE ses[u]
  BY DEF Close
<1> HIDE DEF r, t
<1>3. ASSUME NEW p \in Registered(r) PROVE t[r[p].session] = p
  <2>1. p \in Node /\ p \notin gone /\ r[p] = reg[p] /\ reg[p] # None
    BY <1>1 DEF Registered
  <2>2. reg[p].session \in AnySession /\ ses[reg[p].session] = p
    BY <2>1 DEF Registry, Entry, Matched, Registered
  <2>3. ASSUME NEW m \in gone, reg[m] # None, reg[m].session = reg[p].session PROVE FALSE
    <3>1. ses[reg[m].session] = m
      BY <2>3 DEF Matched, Registered
    <3> QED
      BY <2>1, <2>2, <2>3, <3>1
  <2> QED
    BY <1>2, <2>1, <2>2, <2>3
<1>4. ASSUME NEW u \in AnySession, t[u] # None PROVE r[t[u]] # None /\ r[t[u]].session = u
  <2>1. t[u] = ses[u] /\ ~ \E m \in gone : reg[m] # None /\ reg[m].session = u
    BY <1>2, <1>4
  <2>2. ses[u] \in Node /\ reg[ses[u]] # None /\ reg[ses[u]].session = u
    BY <1>4, <2>1 DEF Matched, SessionMap
  <2>3. ses[u] \notin gone
    BY <2>1, <2>2
  <2> QED
    BY <1>1, <2>1, <2>2, <2>3
<1> QED
  BY <1>3, <1>4 DEF Matched, r, t

\* Removal contradicts nobody.
LEMMA LeaveHarmonious ==
  ASSUME NEW reg \in Registry, Harmonious(reg), NEW gone
  PROVE  Harmonious(Leave(reg, gone))
<1> DEFINE r == Leave(reg, gone)
<1>1. \A p \in Node : r[p] = IF p \in gone THEN None ELSE reg[p]
  BY DEF Leave
<1> HIDE DEF r
<1>2. \A p \in Registered(r) : p \in Registered(reg) /\ r[p] = reg[p]
  BY <1>1 DEF Registered
<1> QED
  BY <1>2 DEF Harmonious, r

\* Two Hellos contradict each other whichever of them came first.
LEMMA CompatibleSymmetric ==
  ASSUME NEW g, NEW c, NEW h, NEW d, Compatible(g, c, h, d)
  PROVE  Compatible(h, d, g, c)
<1>1. Ids(c) \cap Ids(d) = Ids(d) \cap Ids(c)
  OBVIOUS
<1> QED
  BY <1>1 DEF Compatible, contractsOverlap

\* A Hello that conflicts with no other entry keeps the entries in harmony.
LEMMA EnterHarmonious ==
  ASSUME NEW reg \in Registry, Harmonious(reg),
         NEW m \in Node, NEW s \in AnySession, NEW c \in Config,
         \A p \in Registered(reg) \ {m} :
           Compatible(groupOf[p], reg[p].config, groupOf[m], c)
  PROVE  Harmonious(Enter(reg, m, s, c))
<1> DEFINE r == Enter(reg, m, s, c)
<1>1. /\ r[m].config = c
      /\ \A p \in Node \ {m} : r[p] = reg[p]
  BY SMT, EnterFields
<1> HIDE DEF r
<1>2. SUFFICES ASSUME NEW p \in Registered(r), NEW q \in Registered(r), p # q
               PROVE  Compatible(groupOf[p], r[p].config, groupOf[q], r[q].config)
  BY DEF Harmonious, r
<1>3. \A x \in {p, q} : x # m => x \in Registered(reg) /\ r[x] = reg[x]
  BY <1>1 DEF Registered
<1>4. CASE p = m
  BY <1>1, <1>2, <1>3, <1>4, CompatibleSymmetric
<1>5. CASE q = m
  BY <1>1, <1>2, <1>3, <1>5
<1>6. CASE p # m /\ q # m
  BY <1>2, <1>3, <1>6 DEF Harmonious
<1> QED
  BY <1>4, <1>5, <1>6

-----------------------------------------------------------------------------
(* Coherence step by step *)

\* The registry of another agent is not touched.
Apart(l) ==
  \A k \in Agent \ {l} : nodes'[k] = nodes[k] /\ sessions'[k] = sessions[k]

\* A step of agent l that leaves its own registry coherent keeps all coherent.
LEMMA CoherentStep ==
  ASSUME \A k \in Agent : Coherent(k), NEW l \in Agent, Coherent(l)', Apart(l),
         used \subseteq used'
  PROVE  \A k \in Agent : Coherent(k)'
<1> SUFFICES ASSUME NEW k \in Agent, k # l PROVE Coherent(k)'
  OBVIOUS
<1>1. nodes'[k] = nodes[k] /\ sessions'[k] = sessions[k] /\ Coherent(k)
  BY DEF Apart
<1>2. KnownSessions(k, sessions[k])'
  BY <1>1 DEF Coherent, KnownSessions
<1> QED
  BY <1>1, <1>2 DEF Coherent

\* The registry of an agent has its types.
LEMMA RegistryTypes ==
  ASSUME TypeOK, NEW l \in Agent
  PROVE  nodes[l] \in Registry /\ sessions[l] \in SessionMap
BY DEF TypeOK, RegistryType, Registry, SessionMap

\* A Hello without conflict, of a new stream or of the process itself.
LEMMA RegisterKeeps ==
  ASSUME TypeOK, \A k \in Agent : Coherent(k), NEW l \in Agent, NEW m \in Node,
         NEW s \in AnySession, NEW c \in Config, Register(l, m, s, c), ~Conflict(l, m, c),
         sessions[l][s] = None \/ sessions[l][s] = m, used \subseteq used',
         s \in used' \/ (s = l /\ m = l)
  PROVE  \A k \in Agent : Coherent(k)'
<1>1. nodes[l] \in Registry /\ sessions[l] \in SessionMap /\ Coherent(l)
  BY RegistryTypes
<1>2. /\ nodes'[l] = Enter(nodes[l], m, s, c)
      /\ sessions'[l] = Rename(nodes[l], sessions[l], m, s)
      /\ Apart(l)
  BY DEF Register, Enter, Rename, Apart, TypeOK, RegistryType
<1>3. Matched(nodes[l], sessions[l])' /\ Matched(nodes'[l], sessions'[l])
  BY <1>1, <1>2, EnterMatched DEF Coherent
<1>4. Harmonious(nodes'[l])
  <2>1. \A p \in Registered(nodes[l]) \ {m} :
          Compatible(groupOf[p], nodes[l][p].config, groupOf[m], c)
    BY DEF Conflict, Compatible
  <2> QED
    BY <1>1, <1>2, <2>1, EnterHarmonious DEF Coherent
<1>5. KnownSessions(l, sessions[l])'
  <2>1. SUFFICES ASSUME NEW t \in AnySession, sessions'[l][t] # None
                 PROVE  t \in used' \/ (t = l /\ sessions'[l][t] = l)
    BY DEF KnownSessions
  <2>2. sessions'[l][t] = IF t = s THEN m
                          ELSE IF nodes[l][m] # None /\ nodes[l][m].session = t THEN None
                          ELSE sessions[l][t]
    BY <1>2 DEF Rename
  <2>3. CASE t = s
    BY <2>2, <2>3
  <2>4. CASE t # s
    BY <1>1, <2>1, <2>2, <2>4 DEF Coherent, KnownSessions
  <2> QED
    BY <2>3, <2>4
<1> QED
  BY <1>2, <1>3, <1>4, <1>5, CoherentStep DEF Coherent

\* Entries that are retired, drained or expired.
LEMMA UnregisterKeeps ==
  ASSUME TypeOK, \A k \in Agent : Coherent(k), NEW l \in Agent, NEW gone \in SUBSET Node,
         Unregister(l, gone), used \subseteq used'
  PROVE  \A k \in Agent : Coherent(k)'
<1>1. nodes[l] \in Registry /\ sessions[l] \in SessionMap /\ Coherent(l)
  BY RegistryTypes
<1>2. /\ nodes'[l] = Leave(nodes[l], gone)
      /\ sessions'[l] = Close(nodes[l], sessions[l], gone)
      /\ Apart(l)
  BY DEF Unregister, Leave, Close, Apart, TypeOK, RegistryType
<1>3. Matched(nodes'[l], sessions'[l]) /\ Harmonious(nodes'[l])
  BY <1>1, <1>2, LeaveMatched, LeaveHarmonious DEF Coherent
<1>4. KnownSessions(l, sessions[l])'
  <2>1. \A t \in AnySession : sessions'[l][t] # None => sessions'[l][t] = sessions[l][t]
    BY <1>2 DEF Close
  <2> QED
    BY <1>1, <2>1 DEF Coherent, KnownSessions
<1> QED
  BY <1>2, <1>3, <1>4, CoherentStep DEF Coherent

\* A NodeState changes neither sessions nor configurations.
LEMMA StoreStateEntry ==
  ASSUME TypeOK, NEW l \in Agent, NEW m \in Node, nodes[l][m] # None,
         NEW q \in Nat, NEW c \in Config, NEW e \in SUBSET Identity,
         StoreState(l, m, q, c, e)
  PROVE  /\ nodes'[l][m] # None
         /\ nodes'[l][m].session = nodes[l][m].session
         /\ nodes'[l][m].config = nodes[l][m].config
         /\ nodes'[l][m].state = [seq |-> q, config |-> c, eps |-> e]
         /\ \A p \in Node \ {m} : nodes'[l][p] = nodes[l][p]
         /\ Apart(l)
<1> DEFINE state == [seq |-> q, config |-> c, eps |-> e]
           x == [nodes[l][m] EXCEPT !.state = state]
<1>1. nodes[l][m] \in Entry
  BY DEF TypeOK, RegistryType
<1>2. state \in NodeState
  BY DEF NodeState
<1> HIDE DEF state
<1>3. /\ x.session = nodes[l][m].session /\ x.config = nodes[l][m].config /\ x.state = state
      /\ x \in Entry
  BY SMT, <1>1, <1>2 DEF Entry
<1>4. nodes' = [nodes EXCEPT ![l] = [nodes[l] EXCEPT ![m] = x]] /\ sessions' = sessions
  BY DEF StoreState, state
<1> HIDE DEF x
<1>5. /\ nodes'[l][m] = x /\ (\A p \in Node \ {m} : nodes'[l][p] = nodes[l][p])
      /\ \A k \in Agent \ {l} : nodes'[k] = nodes[k]
  BY <1>4 DEF TypeOK, RegistryType
<1> QED
  BY <1>3, <1>4, <1>5, EntryAssumption DEF Apart, state

\* NodeState keeps the registry coherent: it changes neither sessions nor Hellos.
LEMMA StoreStateKeeps ==
  ASSUME TypeOK, \A k \in Agent : Coherent(k), NEW l \in Agent, NEW m \in Node,
         nodes[l][m] # None, NEW q \in Nat, NEW c \in Config, NEW e \in SUBSET Identity,
         StoreState(l, m, q, c, e), used \subseteq used'
  PROVE  \A k \in Agent : Coherent(k)'
<1>0. /\ nodes'[l][m] # None
      /\ nodes'[l][m].session = nodes[l][m].session
      /\ nodes'[l][m].config = nodes[l][m].config
      /\ nodes'[l][m].state = [seq |-> q, config |-> c, eps |-> e]
      /\ \A p \in Node \ {m} : nodes'[l][p] = nodes[l][p]
      /\ Apart(l)
  BY StoreStateEntry
<1>1. sessions' = sessions /\ Coherent(l)
  BY DEF StoreState
<1>2. \A p \in Node :
        /\ nodes'[l][p] = None <=> nodes[l][p] = None
        /\ nodes'[l][p].session = nodes[l][p].session
        /\ nodes'[l][p].config = nodes[l][p].config
  <2> SUFFICES ASSUME NEW p \in Node
               PROVE  /\ nodes'[l][p] = None <=> nodes[l][p] = None
                      /\ nodes'[l][p].session = nodes[l][p].session
                      /\ nodes'[l][p].config = nodes[l][p].config
    OBVIOUS
  <2>1. CASE p = m
    BY <1>0, <2>1
  <2>2. CASE p # m
    <3>1. p \in Node \ {m}
      BY <2>2
    <3>2. nodes'[l][p] = nodes[l][p]
      BY <1>0, <3>1
    <3> QED
      BY <3>2
  <2> QED
    BY <2>1, <2>2
<1>3. Registered(nodes'[l]) = Registered(nodes[l])
  BY <1>2 DEF Registered
<1>4. \A s \in AnySession : sessions[l][s] # None => sessions[l][s] \in Node
  BY RegistryTypes DEF SessionMap
<1>5. \A p \in Registered(nodes[l]) : p \in Node
  BY DEF Registered
<1>6. Matched(nodes'[l], sessions'[l])
  BY <1>1, <1>2, <1>3, <1>4, <1>5 DEF Coherent, Matched
<1>7. Harmonious(nodes'[l])
  BY <1>1, <1>2, <1>3, <1>5 DEF Coherent, Harmonious
<1>8. KnownSessions(l, sessions[l])'
  BY <1>1 DEF Coherent, KnownSessions
<1> QED
  BY <1>6, <1>7, <1>8, StoreStateEntry, CoherentStep DEF Coherent

\* An empty registry is coherent.
LEMMA EmptyCoherent ==
  ASSUME NEW l \in Agent, nodes[l] = NoNodes, sessions[l] = NoSessions
  PROVE  Coherent(l)
<1>1. Registered(NoNodes) = {} /\ \A s \in AnySession : NoSessions[s] = None
  BY DEF Registered, NoNodes, NoSessions
<1> QED
  BY <1>1 DEF Coherent, Matched, Harmonious, KnownSessions

\* Drain of a stream: with matched maps the session is current, or unknown.
LEMMA DrainUnregisters ==
  ASSUME TypeOK, NEW l \in Agent, Coherent(l), NEW s \in AnySession, HandleDrain(l, s)
  PROVE  \E gone \in SUBSET Node : Unregister(l, gone)
<1> DEFINE gone == {sessions[l][s]} \ {None}
<1>1. nodes[l] \in Registry /\ sessions[l] \in SessionMap /\ None \notin Node
  BY RegistryTypes, SessionAssumption
<1>2. gone \in SUBSET Node
  BY <1>1 DEF SessionMap
<1>3. sessions[l][s] # None => CurrentSession(l, s)
  BY DEF Coherent, Matched, CurrentSession
<1>4. ASSUME NEW m \in Node
      PROVE  m \in gone <=> m = sessions[l][s] /\ CurrentSession(l, s)
  BY <1>1, <1>3
<1>5. ASSUME NEW t \in AnySession
      PROVE  (IF \E m \in gone : nodes[l][m] # None /\ nodes[l][m].session = t
              THEN None ELSE sessions[l][t]) = [sessions[l] EXCEPT ![s] = None][t]
  <2>1. CASE t = s
    BY <1>1, <1>3, <2>1 DEF CurrentSession, SessionMap
  <2>2. CASE t # s
    BY <1>1, <1>3, <2>2 DEF CurrentSession, SessionMap
  <2> QED
    BY <2>1, <2>2
<1>6. [m \in Node |-> IF m = sessions[l][s] /\ CurrentSession(l, s) THEN None ELSE nodes[l][m]]
        = [m \in Node |-> IF m \in gone THEN None ELSE nodes[l][m]]
  BY <1>4
<1>7. [sessions[l] EXCEPT ![s] = None]
        = [t \in AnySession |->
             IF \E m \in gone : nodes[l][m] # None /\ nodes[l][m].session = t
             THEN None ELSE sessions[l][t]]
  BY <1>1, <1>5 DEF SessionMap
<1>8. Unregister(l, gone)
  BY <1>6, <1>7 DEF HandleDrain, Unregister
<1> QED
  BY <1>2, <1>8

\* The end of the process of a leader removes its own entry.
LEMMA ShutdownUnregisters ==
  ASSUME TypeOK, NEW n \in Agent, Coherent(n), Shutdown(n)
  PROVE  UNCHANGED <<nodes, sessions>> \/ Unregister(n, {n})
<1>1. nodes[n] \in Registry /\ sessions[n] \in SessionMap /\ None \notin Node /\ n \in Node
  BY RegistryTypes, SessionAssumption, AgentAssumption
<1>2. CASE n \notin leads
  BY <1>2 DEF Shutdown
<1>3. CASE n \in leads
  <2>1. ASSUME NEW t \in AnySession
        PROVE  sessions[n][t] = n <=> nodes[n][n] # None /\ nodes[n][n].session = t
    BY <1>1 DEF Coherent, Matched, Registered
  <2>2. nodes[n][n] # None => nodes[n][n].session \in AnySession
    BY <1>1 DEF Registry, Entry
  <2>3. [m \in Node |-> IF m = n /\ \E t \in AnySession : sessions[n][t] = n
                        THEN None ELSE nodes[n][m]]
          = [m \in Node |-> IF m \in {n} THEN None ELSE nodes[n][m]]
    <3>1. ASSUME NEW m \in Node
          PROVE  (IF m = n /\ \E t \in AnySession : sessions[n][t] = n
                  THEN None ELSE nodes[n][m]) = IF m \in {n} THEN None ELSE nodes[n][m]
      BY <2>1, <2>2
    <3> QED
      BY <3>1
  <2>4. [t \in AnySession |-> IF sessions[n][t] = n THEN None ELSE sessions[n][t]]
          = [t \in AnySession |->
               IF \E m \in {n} : nodes[n][m] # None /\ nodes[n][m].session = t
               THEN None ELSE sessions[n][t]]
    BY <2>1
  <2> QED
    BY <1>3, <2>3, <2>4 DEF Shutdown, Unregister
<1> QED
  BY <1>2, <1>3

\* A Hello of a stream arrives under a session the agent does not know yet.
LEMMA HandleHelloCoherent ==
  ASSUME TypeOK, \A k \in Agent : Coherent(k), NEW l \in Agent, NEW s \in Session,
         NEW c \in Config, HandleHello(l, s, c)
  PROVE  \A k \in Agent : Coherent(k)'
<1>1. s \in AnySession /\ sessionNode[s] \in Node
  BY SessionAssumption DEF AnySession
<1>2. s \notin used /\ s # l /\ used' = used \cup {s}
  BY SessionAssumption, AgentAssumption DEF HandleHello
<1>3. sessions[l][s] = None
  BY <1>1, <1>2 DEF Coherent, KnownSessions
<1> QED
  BY <1>1, <1>2, <1>3, RegisterKeeps DEF HandleHello

\* A NodeState, or the retirement of its node.
LEMMA HandleStateCoherent ==
  ASSUME TypeOK, \A k \in Agent : Coherent(k), NEW l \in Agent, NEW s \in Session,
         NEW q \in Nat, NEW c \in Config, NEW e \in SUBSET Identity,
         HandleRetire(l, s, c) \/ HandleNodeState(l, s, q, c, e)
  PROVE  \A k \in Agent : Coherent(k)'
<1>1. s \in AnySession /\ sessions[l] \in SessionMap /\ used' = used
  BY RegistryTypes DEF AnySession, HandleRetire, HandleNodeState
<1>2. CurrentSession(l, s)
  BY DEF HandleRetire, HandleNodeState
<1>3. sessions[l][s] \in Node /\ nodes[l][sessions[l][s]] # None
  BY <1>1, <1>2 DEF CurrentSession, SessionMap
<1>4. CASE HandleRetire(l, s, c)
  BY <1>1, <1>3, <1>4, UnregisterKeeps DEF HandleRetire
<1>5. CASE StoreState(l, sessions[l][s], q, c, e)
  BY <1>1, <1>3, <1>5, StoreStateKeeps
<1>6. CASE UNCHANGED <<nodes, sessions>>
  BY <1>1, <1>6 DEF Coherent, KnownSessions
<1> QED
  BY <1>4, <1>5, <1>6 DEF HandleNodeState

\* registerLocal: the session of the process itself.
LEMMA RegisterLocalCoherent ==
  ASSUME TypeOK, \A k \in Agent : Coherent(k), NEW n \in Agent,
         RegisterHello(n) \/ RegisterState(n)
  PROVE  \A k \in Agent : Coherent(k)'
<1>1. /\ n \in AnySession /\ n \in Node /\ sessions[n] \in SessionMap /\ used' = used
      /\ used \subseteq Session
  BY RegistryTypes, AgentAssumption DEF AnySession, RegisterHello, RegisterState, TypeOK, RegistryType
<1>2. CASE UNCHANGED <<nodes, sessions>>
  BY <1>1, <1>2 DEF Coherent, KnownSessions
<1>3. CASE Register(n, n, n, desired[n]) /\ ~Conflict(n, n, desired[n])
  <2>1. desired[n] \in Config
    BY DEF TypeOK, ControllerType
  <2>2. sessions[n][n] = None \/ sessions[n][n] = n
    BY <1>1, SessionAssumption, AgentAssumption DEF Coherent, KnownSessions
  <2> QED
    BY <1>1, <1>3, <2>1, <2>2, RegisterKeeps
<1>4. CASE /\ CurrentSession(n, n)
           /\ StoreState(n, sessions[n][n], 1, run[n].config, run[n].eps)
  <2>1. sessions[n][n] \in Node /\ nodes[n][sessions[n][n]] # None
    BY <1>1, <1>4 DEF CurrentSession, SessionMap
  <2>2. run[n].config \in Config /\ run[n].eps \in SUBSET Identity
    BY SMT DEF TypeOK, ProcessType, RunState
  <2>3. 1 \in Nat
    BY SMT
  <2> QED
    BY <1>1, <1>4, <2>1, <2>2, <2>3, StoreStateKeeps
<1> QED
  BY <1>2, <1>3, <1>4 DEF RegisterHello, RegisterState

\* A registry that is emptied.
LEMMA ClearKeeps ==
  ASSUME TypeOK, \A k \in Agent : Coherent(k), NEW n \in Agent, ClearRegistry(n), used' = used
  PROVE  \A k \in Agent : Coherent(k)'
<1>1. nodes'[n] = NoNodes /\ sessions'[n] = NoSessions /\ Apart(n)
  BY DEF ClearRegistry, Apart, TypeOK, RegistryType
<1>2. Coherent(n)'
  <2>1. Registered(NoNodes) = {} /\ \A s \in AnySession : NoSessions[s] = None
    BY DEF Registered, NoNodes, NoSessions
  <2> QED
    BY <1>1, <2>1 DEF Coherent, Matched, Harmonious, KnownSessions
<1> QED
  BY <1>1, <1>2, CoherentStep

\* Every step keeps every registry coherent.
LEMMA NextCoherent ==
  ASSUME TypeOK, \A k \in Agent : Coherent(k), [Next]_vars
  PROVE  \A k \in Agent : Coherent(k)'
<1>1. ASSUME UNCHANGED <<nodes, sessions, used>> PROVE \A k \in Agent : Coherent(k)'
  BY <1>1 DEF Coherent, KnownSessions
<1>2. ASSUME NEW n \in Agent, Step(n) PROVE \A k \in Agent : Coherent(k)'
  <2>1. CASE \/ \E caller \in Caller : PublishRead(n, caller)
             \/ PublishPut(n) \/ PublishApply(n) \/ AcquireRead(n) \/ AcquireApply(n)
             \/ RunChange(n) \/ RunTransition(n) \/ StepDown(n)
    BY <1>1, <2>1 DEF PublishRead, PublishPut, PublishApply, AcquireRead, AcquireApply,
                      RunChange, RunTransition, StepDown, registry
  <2>2. CASE AcquirePut(n)
    BY <1>1, <2>2, ClearKeeps DEF AcquirePut
  <2>3. CASE RegisterHello(n) \/ RegisterState(n)
    BY <2>3, RegisterLocalCoherent
  <2>4. CASE \E gone \in SUBSET Node : Expire(n, gone)
    BY <2>4, UnregisterKeeps DEF Expire
  <2>5. CASE Shutdown(n)
    <3>1. used' = used /\ {n} \in SUBSET Node
      BY <2>5, AgentAssumption DEF Shutdown
    <3> QED
      BY <1>1, <2>5, <3>1, ShutdownUnregisters, UnregisterKeeps
  <2>6. CASE Exit(n)
    BY <2>6, ClearKeeps DEF Exit, Terminate, ClearRegistry
  <2> QED
    BY <1>2, <2>1, <2>2, <2>3, <2>4, <2>5, <2>6 DEF Step
<1>3. ASSUME NEW n \in Agent, Receive(n) PROVE \A k \in Agent : Coherent(k)'
  <2>1. ASSUME NEW s \in sent, FollowApply(n, s) PROVE \A k \in Agent : Coherent(k)'
    BY <1>1, <2>1 DEF FollowApply, registry
  <2>2. ASSUME NEW s \in Session, NEW c \in Config, HandleHello(n, s, c) \/ HandleRetire(n, s, c)
        PROVE  \A k \in Agent : Coherent(k)'
    BY <2>2, HandleHelloCoherent, HandleStateCoherent
  <2>3. ASSUME NEW s \in Session, NEW q \in 1..MaxSeq, NEW c \in Config, NEW e \in SUBSET Ids(c),
               HandleNodeState(n, s, q, c, e)
        PROVE  \A k \in Agent : Coherent(k)'
    <3>1. q \in Nat
      BY SMT, BoundAssumption
    <3>2. e \in SUBSET Identity
      BY IdsType
    <3> QED
      BY <2>3, <3>1, <3>2, HandleStateCoherent
  <2>4. ASSUME NEW s \in Session, HandleDrain(n, s) PROVE \A k \in Agent : Coherent(k)'
    <3>1. s \in AnySession /\ used' = used
      BY <2>4 DEF AnySession, HandleDrain
    <3> QED
      BY <2>4, <3>1, DrainUnregisters, UnregisterKeeps
  <2> QED
    BY <1>3, <2>1, <2>2, <2>3, <2>4 DEF Receive
<1>4. ASSUME NEW n \in Agent, Environment(n) PROVE \A k \in Agent : Coherent(k)'
  <2>1. CASE Crash(n)
    BY <2>1, ClearKeeps DEF Crash, Terminate, ClearRegistry
  <2>2. CASE ~Crash(n)
    BY <1>1, <1>4, <2>2 DEF Environment, Start, Elect, Depose, SetServices, SetPods, registry
  <2> QED
    BY <2>1, <2>2
<1>5. ASSUME NEW w \in inflight, LatePut(w) PROVE \A k \in Agent : Coherent(k)'
  BY <1>1, <1>5 DEF LatePut, registry
<1>6. CASE UNCHANGED vars
  BY <1>1, <1>6 DEF vars
<1> QED
  BY <1>2, <1>3, <1>4, <1>5, <1>6 DEF Next

-----------------------------------------------------------------------------
(* Where candidates come from *)

\* A candidate that publish merged, or with which acquire opens a generation; both
\* were validated.
Fresh(n, s) ==
  \/ \E pick \in Picks(nodes[n]) :
       s = Built(n, pick) /\ UniqueOwnership(MergedServices(nodes[n], pick))
  \/ s = Takeover(n) /\ UniqueOwnership(Takeover(n).services)

\* What is written, and what may still be, are candidates of some critical section.
Carried ==
  /\ \A s \in written' : \/ s \in written
                         \/ \E w \in inflight : s = w.cand
                         \/ \E n \in Agent : pub[n].cand # None /\ s = pub[n].cand
  /\ \A w \in inflight' : \/ w \in inflight
                          \/ \E n \in Agent : pub[n].cand # None /\ w.cand = pub[n].cand
  /\ \A n \in Agent : pub'[n].cand # None => pub'[n].cand = pub[n].cand \/ Fresh(n, pub'[n].cand)

\* publishMu is released without a candidate.
LEMMA ReturnsEmpty ==
  ASSUME TypeOK, NEW n \in Agent,
         (\E caller, failed : PublishReturns(n, caller, failed)) \/ AcquireFails(n)
           \/ AcquireAgain(n)
  PROVE  pub'[n].cand = None /\ \A m \in Agent \ {n} : pub'[m] = pub[m]
<1>1. pub[n] \in PubState /\ pub \in [Agent -> PubState]
  BY DEF TypeOK, ProcessType
<1>2. \A failed : PubIdle(failed).cand = None
  BY DEF PubIdle
<1>3. CASE (\E caller, failed : PublishReturns(n, caller, failed)) \/ AcquireFails(n)
  BY <1>1, <1>2, <1>3 DEF PublishReturns, AcquireFails
<1>4. CASE pub' = [pub EXCEPT ![n] = [@ EXCEPT !.pc = "acquireRead", !.cand = None, !.seen = None]]
  <2>1. pub'[n] = [pub[n] EXCEPT !.pc = "acquireRead", !.cand = None, !.seen = None]
    BY <1>1, <1>4
  <2>2. pub'[n].cand = None
    BY SMT, <1>1, <2>1 DEF PubState
  <2> QED
    BY <1>1, <1>4, <2>2
<1> QED
  BY <1>3, <1>4 DEF AcquireAgain

\* A pending write has a candidate.
LEMMA PendingCandidate ==
  ASSUME TypeOK, NEW n \in Agent, pub[n].pc \in {"put", "apply", "acquirePut", "acquireApply"}
  PROVE  pub[n].cand \in Snapshot /\ pub[n].cand # None /\ Pending(n).cand = pub[n].cand
         /\ Pending(n).seen = pub[n].seen
<1>1. pub[n] \in PubState
  BY DEF TypeOK, ProcessType
<1>2. pub[n].cand \in Snapshot
  BY SMT, <1>1 DEF PubState
<1> QED
  BY <1>2, NoneAssumption DEF Pending

\* A step that neither writes nor takes a candidate.
LEMMA Uncarried ==
  ASSUME UNCHANGED <<written, inflight>>, NEW n \in Agent,
         pub'[n].cand = None \/ pub'[n].cand = pub[n].cand \/ Fresh(n, pub'[n].cand),
         \A m \in Agent \ {n} : pub'[m] = pub[m]
  PROVE  Carried
BY DEF Carried

\* publish and its conditional write.
LEMMA PublishCarries ==
  ASSUME TypeOK, NEW n \in Agent,
         (\E caller \in Caller : PublishRead(n, caller)) \/ PublishPut(n) \/ PublishApply(n)
  PROVE  Carried
<1>0. pub \in [Agent -> PubState]
  BY DEF TypeOK, ProcessType
<1>1. ASSUME NEW caller \in Caller, PublishRead(n, caller) PROVE Carried
  <2>1. UNCHANGED <<written, inflight>>
    BY <1>1 DEF PublishRead, store
  <2>2. CASE PublishReturns(n, caller, TRUE)
    BY <2>1, <2>2, ReturnsEmpty, Uncarried
  <2>3. ASSUME NEW pick \in Picks(nodes[n]), UniqueOwnership(MergedServices(nodes[n], pick)),
               pub' = [pub EXCEPT ![n] = [pc |-> "put", caller |-> caller,
                         cand |-> Built(n, pick), seen |-> durable,
                         attempt |-> 0, failed |-> FALSE]]
        PROVE  Carried
    <3>1. pub'[n].cand = Built(n, pick) /\ \A m \in Agent \ {n} : pub'[m] = pub[m]
      BY <1>0, <2>3
    <3> QED
      BY <2>1, <2>3, <3>1, Uncarried DEF Fresh
  <2> QED
    BY <1>1, <2>2, <2>3 DEF PublishRead
<1>2. CASE PublishPut(n)
  <2>1. pub[n].cand # None /\ Pending(n).cand = pub[n].cand
    BY <1>2, PendingCandidate DEF PublishPut
  <2>2. CASE PutIfMatch(Pending(n)) /\ UNCHANGED inflight
             /\ pub' = [pub EXCEPT ![n] = [@ EXCEPT !.pc = "apply"]]
    <3>1. pub'[n].cand = pub[n].cand
      BY <1>0, <2>2, PcExcept
    <3>2. \A m \in Agent \ {n} : pub'[m] = pub[m]
      BY <1>0, <2>2
    <3> QED
      BY <2>1, <2>2, <3>1, <3>2 DEF Carried, PutIfMatch
  <2>3. CASE /\ PublishReturns(n, pub[n].caller, TRUE) /\ UNCHANGED written
             /\ inflight' \subseteq inflight \cup {Pending(n)}
    <3>1. pub'[n].cand = None /\ \A m \in Agent \ {n} : pub'[m] = pub[m]
      BY <2>3, ReturnsEmpty
    <3> QED
      BY <2>1, <2>3, <3>1 DEF Carried
  <2> QED
    BY <1>2, <2>2, <2>3 DEF PublishPut, store
<1>3. CASE PublishApply(n)
  BY <1>3, ReturnsEmpty, Uncarried DEF PublishApply, store
<1> QED
  BY <1>1, <1>2, <1>3

\* acquire and its conditional write.
LEMMA AcquireCarries ==
  ASSUME TypeOK, NEW n \in Agent, AcquireRead(n) \/ AcquirePut(n) \/ AcquireApply(n)
  PROVE  Carried
<1>0. pub \in [Agent -> PubState]
  BY DEF TypeOK, ProcessType
<1>1. CASE AcquireRead(n)
  <2>1. UNCHANGED <<written, inflight>>
    BY <1>1 DEF AcquireRead, store
  <2>2. CASE AcquireFails(n)
    BY <2>1, <2>2, ReturnsEmpty, Uncarried
  <2>3. CASE /\ UniqueOwnership(Takeover(n).services)
             /\ pub' = [pub EXCEPT ![n] = [pc |-> "acquirePut", caller |-> "run",
                          cand |-> Takeover(n), seen |-> durable,
                          attempt |-> pub[n].attempt + 1, failed |-> pub[n].failed]]
    <3>1. pub'[n].cand = Takeover(n) /\ \A m \in Agent \ {n} : pub'[m] = pub[m]
      BY <1>0, <2>3
    <3> QED
      BY <2>1, <2>3, <3>1, Uncarried DEF Fresh
  <2> QED
    BY <1>1, <2>2, <2>3 DEF AcquireRead
<1>2. CASE AcquirePut(n)
  <2>1. pub[n].cand # None /\ Pending(n).cand = pub[n].cand
    BY <1>2, PendingCandidate DEF AcquirePut
  <2>2. written' \subseteq written \cup {pub[n].cand} /\ inflight' \subseteq inflight \cup {Pending(n)}
    BY <1>2, <2>1 DEF AcquirePut, PutIfMatch, store
  <2>3. (pub'[n].cand = None \/ pub'[n].cand = pub[n].cand) /\ \A m \in Agent \ {n} : pub'[m] = pub[m]
    <3>1. CASE AcquireAgain(n) \/ AcquireFails(n)
      BY <3>1, ReturnsEmpty
    <3>2. CASE pub' = [pub EXCEPT ![n] = [@ EXCEPT !.pc = "acquireApply"]]
      <4>1. pub'[n].cand = pub[n].cand
        BY <1>0, <3>2, PcExcept
      <4> QED
        BY <1>0, <3>2, <4>1
    <3> QED
      BY <1>2, <3>1, <3>2 DEF AcquirePut
  <2> QED
    BY <2>1, <2>2, <2>3 DEF Carried
<1>3. CASE AcquireApply(n)
  <2>1. UNCHANGED <<written, inflight>>
    BY <1>3 DEF AcquireApply, store
  <2>2. CASE AcquireFails(n)
    BY <2>1, <2>2, ReturnsEmpty, Uncarried
  <2>3. CASE pub' = [pub EXCEPT ![n] = PubIdle(FALSE)]
    <3>1. pub'[n].cand = None /\ \A m \in Agent \ {n} : pub'[m] = pub[m]
      BY <1>0, <2>3 DEF PubIdle
    <3> QED
      BY <2>1, <3>1, Uncarried
  <2> QED
    BY <1>3, <2>2, <2>3 DEF AcquireApply
<1> QED
  BY <1>1, <1>2, <1>3

\* The end of a process releases its write.
LEMMA TerminateCarries ==
  ASSUME TypeOK, NEW n \in Agent, Terminate(n)
  PROVE  Carried
<1>1. pub'[n].cand = None /\ \A m \in Agent \ {n} : pub'[m] = pub[m]
  BY DEF Terminate, PubIdle, TypeOK, ProcessType
<1>2. CASE pub[n].pc \in {"put", "acquirePut"}
  <2>1. pub[n].cand # None /\ Pending(n).cand = pub[n].cand
    BY <1>2, PendingCandidate
  <2> QED
    BY <1>1, <2>1 DEF Terminate, Carried
<1>3. CASE pub[n].pc \notin {"put", "acquirePut"}
  BY <1>1, <1>3 DEF Terminate, Carried
<1> QED
  BY <1>2, <1>3

\* No step writes anything but validated candidates.
LEMMA NextCarries ==
  ASSUME TypeOK, [Next]_vars
  PROVE  Carried
<1>1. ASSUME UNCHANGED <<written, inflight, pub>> PROVE Carried
  BY <1>1 DEF Carried
<1>2. ASSUME NEW n \in Agent, Quiet(n) PROVE Carried
  BY <1>1, <1>2 DEF Quiet
<1>3. ASSUME NEW n \in Agent, Step(n) PROVE Carried
  BY <1>2, <1>3, RunQuiet, PublishCarries, AcquireCarries, TerminateCarries DEF Step, Exit
<1>4. ASSUME NEW n \in Agent, Receive(n) PROVE Carried
  BY <1>1, <1>2, <1>4, HandleQuiet DEF Receive, FollowApply, store
<1>5. ASSUME NEW n \in Agent, Environment(n) PROVE Carried
  BY <1>1, <1>2, <1>5, ChangeQuiet, TerminateCarries
     DEF Environment, Start, Crash, Elect, Depose, store
<1>6. ASSUME NEW w \in inflight, LatePut(w) PROVE Carried
  BY <1>6 DEF LatePut, PutIfMatch, Carried
<1>7. CASE UNCHANGED vars
  BY <1>1, <1>7 DEF vars
<1> QED
  BY <1>3, <1>4, <1>5, <1>6, <1>7 DEF Next

-----------------------------------------------------------------------------
(* One owner for every identity *)

\* ValidateContract admits an identity once.
LEMMA ContractUnique ==
  ASSUME NEW g, NEW c \in Config
  PROVE  UniqueOwnership(Contract(g, c)) /\ \A s \in Contract(g, c) : s.id \in Ids(c)
<1>1. ASSUME NEW s \in Contract(g, c)
      PROVE  \E x \in contractOf[c] : s = [group |-> g, id |-> x.id, shape |-> x.shape] /\ s.id = x.id
  <2>1. PICK x \in contractOf[c] : s = [group |-> g, id |-> x.id, shape |-> x.shape]
    BY DEF Contract
  <2>2. s.id = x.id
    BY <2>1
  <2> QED
    BY <2>1, <2>2
<1>2. \A s \in Contract(g, c) : s.id \in Ids(c)
  BY <1>1 DEF Ids
<1>3. ASSUME NEW s \in Contract(g, c), NEW t \in Contract(g, c), s.id = t.id PROVE s = t
  <2>1. PICK x \in contractOf[c] : s = [group |-> g, id |-> x.id, shape |-> x.shape] /\ s.id = x.id
    BY <1>1
  <2>2. PICK y \in contractOf[c] : t = [group |-> g, id |-> y.id, shape |-> y.shape] /\ t.id = y.id
    BY <1>1
  <2>3. x = y
    BY <1>3, <2>1, <2>2, ContractAssumption
  <2> QED
    BY <2>1, <2>2, <2>3
<1> QED
  BY <1>2, <1>3 DEF UniqueOwnership

\* Adding a contract to Services that claim none of its identities, or are part of it.
LEMMA UnionUnique ==
  ASSUME NEW g, NEW c \in Config, NEW S, UniqueOwnership(S),
         \A s \in S : s.id \in Ids(c) => s \in Contract(g, c)
  PROVE  UniqueOwnership(S \cup Contract(g, c))
<1> SUFFICES ASSUME NEW s \in S \cup Contract(g, c), NEW t \in S \cup Contract(g, c), s.id = t.id
             PROVE  s = t
  BY DEF UniqueOwnership
<1>1. s \in Contract(g, c) /\ t \in Contract(g, c) => s = t
  BY ContractUnique DEF UniqueOwnership
<1>2. s \in S /\ t \in S => s = t
  BY DEF UniqueOwnership
<1>3. s \in Contract(g, c) => s.id \in Ids(c)
  BY ContractUnique
<1>4. t \in Contract(g, c) => t.id \in Ids(c)
  BY ContractUnique
<1> QED
  BY <1>1, <1>2, <1>3, <1>4

\* Controller.Apply never programs an identity twice.
LEMMA ControllerApplyUnique ==
  ASSUME NEW n, NEW c \in Config, NEW s, UniqueOwnership(s.services)
  PROVE  UniqueOwnership(ControllerApply(n, c, s).services)
<1> DEFINE kept == KeptServices(n, c, s.services)
<1>1. ControllerApply(n, c, s).services = kept \cup Contract(groupOf[n], c)
  BY DEF ControllerApply
<1>2. UniqueOwnership(kept) /\ \A t \in kept : t.id \in Ids(c) => t \in Contract(groupOf[n], c)
  BY DEF KeptServices, UniqueOwnership
<1> HIDE DEF kept
<1> QED
  BY <1>1, <1>2, UnionUnique

\* overlayLocalContract keeps one owner per identity.
LEMMA OverlayUnique ==
  ASSUME NEW n \in Agent, NEW c \in Config, NEW s \in Snapshot \cup View,
         UniqueOwnership(s.services)
  PROVE  UniqueOwnership(overlayLocalContract(n, c, s).services)
<1> DEFINE kept == {t \in s.services : t.group # groupOf[n] /\ t.id \notin Ids(c)}
<1>1. overlayLocalContract(n, c, s).services = kept \cup Contract(groupOf[n], c)
  BY SMT DEF overlayLocalContract, Snapshot, View
<1>2. UniqueOwnership(kept) /\ \A t \in kept : t.id \notin Ids(c)
  BY DEF UniqueOwnership
<1> HIDE DEF kept
<1> QED
  BY <1>1, <1>2, UnionUnique

\* LoadSnapshot of a process without configuration only removes Services.
LEMMA RestoredUnique ==
  ASSUME NEW n \in Agent, NEW s \in Snapshot, UniqueOwnership(s.services)
  PROVE  UniqueOwnership(Restored(n, EmptyConfig, s).services)
<1>1. Contract(groupOf[n], EmptyConfig) = {}
  BY ContractAssumption DEF Contract
<1>2. Restored(n, EmptyConfig, s).services \subseteq s.services
  BY SMT, <1>1 DEF Restored, Snapshot
<1> QED
  BY <1>2 DEF UniqueOwnership

\* Candidates included, everything that is or can become durable has one owner per
\* identity, and so has everything that is programmed.
OwnerInv ==
  /\ \A s \in written : UniqueOwnership(s.services)
  /\ \A w \in inflight : UniqueOwnership(w.cand.services)
  /\ \A n \in Agent : pub[n].cand # None => UniqueOwnership(pub[n].cand.services)
  /\ \A n \in Agent : UniqueOwnership(view[n].services)

\* What agents applied has one owner per identity, being durable or restored.
LEMMA SnapshotUnique ==
  ASSUME FencingInv, OwnerInv, NEW n \in Agent, snapshot[n] # None
  PROVE  UniqueOwnership(snapshot[n].services)
<1>1. Source(n)
  BY DEF FencingInv, AgentInv, SnapshotInv
<1>2. written \subseteq Snapshot
  BY DEF FencingInv, TypeOK, StoreType
<1> QED
  BY <1>1, <1>2, RestoredUnique DEF Source, OwnerInv

\* The view of n is programmed by Controller.Apply from something with one owner.
Programs(n) ==
  \/ view'[n] = view[n] \/ view'[n] = EmptyView
  \/ \E c \in Config : \E s : UniqueOwnership(s.services) /\ view'[n] = ControllerApply(n, c, s)

\* apply of a durable snapshot.
LEMMA ApplyPrograms ==
  ASSUME TypeOK, OwnerInv, NEW n \in Agent, NEW s \in written, Apply(n, s) \/ ApplyFails(n, s)
  PROVE  \A m \in Agent : Programs(m)
<1>1. desired[n] \in Config /\ UniqueOwnership(s.services)
  BY DEF TypeOK, ControllerType, OwnerInv
<1>2. view' = view \/ view' = [view EXCEPT ![n] = ControllerApply(n, desired[n], s)]
  BY DEF Apply, ApplyFails, applied
<1>3. \A m \in Agent : view'[m] = view[m] \/ (m = n /\ view'[m] = ControllerApply(n, desired[n], s))
  BY <1>2 DEF TypeOK, AppliedType
<1> QED
  BY <1>1, <1>3 DEF Programs

\* The local transition of Run, the withdrawal of stale backends and LoadSnapshot.
LEMMA RunPrograms ==
  ASSUME FencingInv, OwnerInv, NEW n \in Agent, RunTransition(n) \/ StepDown(n) \/ Start(n)
  PROVE  \A m \in Agent : Programs(m)
<1>0. /\ TypeOK /\ desired[n] \in Config /\ view \in [Agent -> View]
      /\ snapshot[n] \in Snapshot \cup {None}
  BY DEF FencingInv, TypeOK, ControllerType, AppliedType
<1>1. ASSUME NEW s, UniqueOwnership(s.services),
             view' = [view EXCEPT ![n] = ControllerApply(n, desired[n], s)]
      PROVE  \A m \in Agent : Programs(m)
  <2>1. \A m \in Agent : view'[m] = view[m] \/ (m = n /\ view'[m] = ControllerApply(n, desired[n], s))
    BY <1>0, <1>1
  <2> QED
    BY <1>0, <1>1, <2>1 DEF Programs
<1>2. CASE view' = view
  BY <1>2 DEF Programs
<1>3. CASE view' = [view EXCEPT ![n] = LocalTransition(n)]
  <2> DEFINE base == IF snapshot[n] = None THEN EmptyView
                     ELSE [services |-> snapshot[n].services,
                           backends |-> IF staleCleared[n] THEN {} ELSE snapshot[n].backends]
  <2>1. base \in View /\ UniqueOwnership(base.services)
    <3>1. CASE snapshot[n] = None
      BY <3>1 DEF EmptyView, View, UniqueOwnership
    <3>2. CASE snapshot[n] # None
      <4>1. UniqueOwnership(snapshot[n].services)
        BY <3>2, SnapshotUnique
      <4>2. snapshot[n].services \in SUBSET OwnedService /\ snapshot[n].backends \in SUBSET Endpoint
        BY <1>0, <3>2 DEF Snapshot
      <4>3. base = [services |-> snapshot[n].services,
                    backends |-> IF staleCleared[n] THEN {} ELSE snapshot[n].backends]
        BY <3>2
      <4>4. (IF staleCleared[n] THEN {} ELSE snapshot[n].backends) \in SUBSET Endpoint
        BY <4>2
      <4> HIDE DEF base
      <4>5. base \in View
        BY <4>2, <4>3, <4>4 DEF View
      <4>6. base.services = snapshot[n].services
        BY <4>3
      <4> QED
        BY <4>1, <4>5, <4>6
    <3> QED
      BY <3>1, <3>2
  <2>2. LocalTransition(n) = ControllerApply(n, desired[n], overlayLocalContract(n, desired[n], base))
    BY DEF LocalTransition
  <2> HIDE DEF base
  <2>3. UniqueOwnership(overlayLocalContract(n, desired[n], base).services)
    BY <1>0, <2>1, OverlayUnique
  <2> QED
    BY <1>1, <1>3, <2>2, <2>3
<1>4. CASE /\ snapshot[n] # None
           /\ view' = [view EXCEPT ![n] = ControllerApply(n, desired[n],
                         overlayLocalContract(n, desired[n], Strip(snapshot[n])))]
  <2>1. Strip(snapshot[n]) \in Snapshot /\ Strip(snapshot[n]).services = snapshot[n].services
    BY SMT, <1>0, <1>4 DEF Strip, Snapshot
  <2>2. UniqueOwnership(Strip(snapshot[n]).services)
    BY <1>4, <2>1, SnapshotUnique
  <2>3. UniqueOwnership(overlayLocalContract(n, desired[n], Strip(snapshot[n])).services)
    BY <1>0, <2>1, <2>2, OverlayUnique
  <2> QED
    BY <1>1, <1>4, <2>3
<1>5. CASE /\ Start(n) /\ durable # None
           /\ view' = [view EXCEPT ![n] = ControllerApply(n, desired[n],
                         overlayLocalContract(n, desired[n], Restored(n, desired[n], durable)))]
  <2>1. desired[n] = EmptyConfig
    BY <1>5 DEF Start, FencingInv, AgentInv, DownInv
  <2>2. durable \in Snapshot /\ UniqueOwnership(durable.services)
    BY <1>0, <1>5 DEF TypeOK, StoreType, FencingInv, StoreInv, OwnerInv
  <2>3. /\ Restored(n, EmptyConfig, durable) \in Snapshot
        /\ UniqueOwnership(Restored(n, EmptyConfig, durable).services)
    BY <2>2, ContractAssumption, RestoredType, RestoredUnique
  <2>4. UniqueOwnership(overlayLocalContract(n, desired[n], Restored(n, desired[n], durable)).services)
    BY <1>0, <2>1, <2>3, OverlayUnique
  <2> QED
    BY <1>1, <1>5, <2>4
<1> QED
  BY <1>2, <1>3, <1>4, <1>5 DEF RunTransition, StepDown, Start, applied

\* Every view is programmed from something with one owner per identity.
LEMMA NextPrograms ==
  ASSUME FencingInv, OwnerInv, [Next]_vars
  PROVE  \A m \in Agent : Programs(m)
<1>0. TypeOK /\ StoreInv /\ \A n \in Agent : AgentInv(n)
  BY DEF FencingInv
<1>1. ASSUME view' = view PROVE \A m \in Agent : Programs(m)
  BY <1>1 DEF Programs
<1>2. ASSUME NEW n \in Agent, Terminate(n) PROVE \A m \in Agent : Programs(m)
  <2>1. \A m \in Agent : view'[m] = view[m] \/ view'[m] = EmptyView
    BY <1>0, <1>2 DEF Terminate, TypeOK, AppliedType
  <2> QED
    BY <2>1 DEF Programs
<1>3. ASSUME NEW n \in Agent, Step(n) PROVE \A m \in Agent : Programs(m)
  <2>1. CASE PublishApply(n) \/ AcquireApply(n)
    <3>1. pub[n].cand \in written
      BY <1>0, <2>1 DEF PublishApply, AcquireApply, AgentInv, PubInv
    <3> QED
      BY <1>0, <2>1, <3>1, ApplyPrograms DEF PublishApply, AcquireApply
  <2>2. CASE RunTransition(n) \/ StepDown(n)
    BY <2>2, RunPrograms
  <2>3. CASE Exit(n)
    BY <1>2, <2>3 DEF Exit
  <2>4. CASE \/ \E caller \in Caller : PublishRead(n, caller)
             \/ PublishPut(n) \/ AcquireRead(n) \/ AcquirePut(n)
             \/ RegisterHello(n) \/ RegisterState(n) \/ RunChange(n)
             \/ (\E gone \in SUBSET Node : Expire(n, gone)) \/ Shutdown(n)
    BY <1>1, <2>4 DEF PublishRead, PublishPut, AcquireRead, AcquirePut, RegisterHello,
                      RegisterState, RunChange, Expire, Shutdown, applied
  <2> QED
    BY <1>3, <2>1, <2>2, <2>3, <2>4 DEF Step
<1>4. ASSUME NEW n \in Agent, Receive(n) PROVE \A m \in Agent : Programs(m)
  <2>1. ASSUME NEW s \in sent, FollowApply(n, s) PROVE \A m \in Agent : Programs(m)
    <3>1. s \in written
      BY <1>0 DEF StoreInv
    <3> QED
      BY <1>0, <2>1, <3>1, ApplyPrograms DEF FollowApply
  <2> QED
    BY <1>1, <1>4, <2>1
       DEF Receive, HandleHello, HandleRetire, HandleNodeState, HandleDrain, applied
<1>5. ASSUME NEW n \in Agent, Environment(n) PROVE \A m \in Agent : Programs(m)
  BY <1>1, <1>2, <1>5, RunPrograms
     DEF Environment, Crash, Elect, Depose, SetServices, SetPods, applied
<1>6. ASSUME NEW w \in inflight, LatePut(w) PROVE \A m \in Agent : Programs(m)
  BY <1>1, <1>6 DEF LatePut, applied
<1>7. CASE UNCHANGED vars
  BY <1>1, <1>7 DEF vars
<1> QED
  BY <1>3, <1>4, <1>5, <1>6, <1>7 DEF Next

\* Every step keeps one owner per identity.
LEMMA NextOwner ==
  ASSUME FencingInv, OwnerInv, [Next]_vars
  PROVE  OwnerInv'
<1>1. Carried /\ TypeOK
  BY NextCarries DEF FencingInv
<1>2. ASSUME NEW n \in Agent, NEW s, Fresh(n, s) PROVE UniqueOwnership(s.services)
  <2>1. ASSUME NEW pick \in Picks(nodes[n]), s = Built(n, pick),
               UniqueOwnership(MergedServices(nodes[n], pick))
        PROVE  UniqueOwnership(s.services)
    <3>1. s.services = MergedServices(nodes[n], pick)
      BY <2>1 DEF Built, BuildClusterSnapshot
    <3> QED
      BY <2>1, <3>1
  <2> QED
    BY <1>2, <2>1 DEF Fresh
<1>3. /\ \A s \in written' : UniqueOwnership(s.services)
      /\ \A w \in inflight' : UniqueOwnership(w.cand.services)
  BY <1>1 DEF Carried, OwnerInv
<1>4. \A n \in Agent : pub'[n].cand # None => UniqueOwnership(pub'[n].cand.services)
  BY <1>1, <1>2 DEF Carried, OwnerInv
<1>5. \A n \in Agent : UniqueOwnership(view'[n].services)
  <2>1. UniqueOwnership(EmptyView.services)
    BY DEF EmptyView, UniqueOwnership
  <2> QED
    BY <2>1, NextPrograms, ControllerApplyUnique DEF Programs, OwnerInv
<1> QED
  BY <1>3, <1>4, <1>5 DEF OwnerInv

-----------------------------------------------------------------------------
(* What a step does to a registry *)

\* Every endpoint leased after the step was leased before or is accepted now.
Leases(n) ==
  \A m \in Node :
    \/ nodes'[n][m] = None \/ nodes'[n][m] = nodes[n][m] \/ nodes'[n][m].state = None
    \/ \A i \in nodes'[n][m].state.eps : [gen |-> generation[n], node |-> m, id |-> i] \in accepted'

\* A registry is emptied with its generation, or changes in a way that leaves
\* something to publish or a node to report.
RegistryStep(n) ==
  \/ /\ nodes'[n] = NoNodes
     /\ pub'[n].pc = "acquireApply" \/ (pub'[n].pc = "idle" /\ ~leaderReady'[n])
  \/ /\ generation'[n] = generation[n]
     /\ nodes'[n] = nodes[n] \/ ~Reflected(n)'
     /\ Leases(n)

\* Whoever changes the registry of l asks for its publication.
LEMMA WantsReflection ==
  ASSUME TypeOK, NEW l \in Agent, NEW c, WantPublish(l, c)
  PROVE  ~Reflected(l)'
<1>1. waiting'[l] = waiting[l] \cup {c}
  BY DEF WantPublish, TypeOK, ProcessType
<1> QED
  BY <1>1 DEF Reflected

\* A registry that nobody changes.
LEMMA StillRegistry ==
  ASSUME NEW k \in Agent, nodes'[k] = nodes[k], generation'[k] = generation[k]
  PROVE  RegistryStep(k)
BY DEF RegistryStep, Leases

\* Hello.
LEMMA RegisterRegistry ==
  ASSUME TypeOK, NEW l \in Agent, NEW m \in Node, NEW s \in AnySession, NEW c \in Config,
         Register(l, m, s, c), UNCHANGED generation
  PROVE  \A k \in Agent : RegistryStep(k)
<1>0. nodes[l] \in Registry
  BY RegistryTypes
<1>1. nodes'[l] = Enter(nodes[l], m, s, c) /\ \A k \in Agent \ {l} : nodes'[k] = nodes[k]
  BY DEF Register, Enter, TypeOK, RegistryType
<1>2. /\ nodes'[l][m] # None /\ nodes'[l][m].state = None
      /\ \A p \in Node \ {m} : nodes'[l][p] = nodes[l][p]
  BY SMT, <1>0, <1>1, EnterFields
<1>3. ~Reflected(l)'
  BY <1>2 DEF Reflected, Registered
<1>4. Leases(l)
  BY <1>2 DEF Leases
<1>5. RegistryStep(l)
  BY <1>3, <1>4 DEF RegistryStep
<1> QED
  BY <1>1, <1>5, StillRegistry

\* The end of leases.
LEMMA UnregisterRegistry ==
  ASSUME TypeOK, NEW l \in Agent, NEW gone \in SUBSET Node, Unregister(l, gone),
         NEW caller, WantPublish(l, caller), UNCHANGED generation
  PROVE  \A k \in Agent : RegistryStep(k)
<1>1. /\ \A m \in Node : nodes'[l][m] = None \/ nodes'[l][m] = nodes[l][m]
      /\ \A k \in Agent \ {l} : nodes'[k] = nodes[k]
  BY DEF Unregister, TypeOK, RegistryType
<1>2. RegistryStep(l)
  BY <1>1, WantsReflection DEF RegistryStep, Leases
<1> QED
  BY <1>1, <1>2, StillRegistry

\* NodeState.
LEMMA StoreStateRegistry ==
  ASSUME TypeOK, NEW l \in Agent, NEW m \in Node, nodes[l][m] # None,
         NEW q \in Nat, NEW c \in Config, NEW e \in SUBSET Identity,
         StoreState(l, m, q, c, e), NEW caller, WantPublish(l, caller), UNCHANGED generation
  PROVE  \A k \in Agent : RegistryStep(k)
<1>0. /\ nodes'[l][m] # None
      /\ nodes'[l][m].session = nodes[l][m].session
      /\ nodes'[l][m].config = nodes[l][m].config
      /\ nodes'[l][m].state = [seq |-> q, config |-> c, eps |-> e]
      /\ \A p \in Node \ {m} : nodes'[l][p] = nodes[l][p]
      /\ Apart(l)
  BY StoreStateEntry
<1>1. /\ nodes'[l][m].state = [seq |-> q, config |-> c, eps |-> e]
      /\ \A p \in Node \ {m} : nodes'[l][p] = nodes[l][p]
      /\ \A k \in Agent \ {l} : nodes'[k] = nodes[k]
  BY <1>0 DEF Apart
<1>2. \A i \in nodes'[l][m].state.eps : [gen |-> generation[l], node |-> m, id |-> i] \in accepted'
  <2>1. nodes'[l][m].state.eps = e
    BY SMT, <1>1
  <2> QED
    BY <2>1 DEF StoreState
<1>3. RegistryStep(l)
  BY <1>1, <1>2, WantsReflection DEF RegistryStep, Leases
<1> QED
  BY <1>1, <1>3, StillRegistry

\* A message of a stream.
LEMMA HandleRegistry ==
  ASSUME TypeOK, NEW l \in Agent, Coherent(l), NEW s \in Session, NEW q \in Nat,
         NEW c \in Config, NEW e \in SUBSET Identity,
         \/ HandleHello(l, s, c) \/ HandleRetire(l, s, c)
         \/ HandleNodeState(l, s, q, c, e) \/ HandleDrain(l, s)
  PROVE  \A k \in Agent : RegistryStep(k)
<1>1. s \in AnySession /\ sessions[l] \in SessionMap /\ sessionNode[s] \in Node /\ UNCHANGED generation
  BY RegistryTypes, SessionAssumption
     DEF AnySession, HandleHello, HandleRetire, HandleNodeState, HandleDrain, leadership
<1>2. CurrentSession(l, s) => sessions[l][s] \in Node /\ nodes[l][sessions[l][s]] # None
  BY <1>1 DEF CurrentSession, SessionMap
<1>3. CASE HandleHello(l, s, c)
  BY <1>1, <1>3, RegisterRegistry DEF HandleHello
<1>4. CASE HandleRetire(l, s, c)
  <2>1. {sessions[l][s]} \in SUBSET Node
    BY <1>2, <1>4 DEF HandleRetire
  <2> QED
    BY <1>1, <1>4, <2>1, UnregisterRegistry DEF HandleRetire
<1>5. CASE HandleNodeState(l, s, q, c, e)
  BY <1>1, <1>2, <1>5, StoreStateRegistry, StillRegistry DEF HandleNodeState
<1>6. CASE HandleDrain(l, s)
  <2>1. PICK gone \in SUBSET Node : Unregister(l, gone)
    BY <1>1, <1>6, DrainUnregisters
  <2> QED
    BY <1>1, <1>6, <2>1, UnregisterRegistry DEF HandleDrain
<1> QED
  BY <1>3, <1>4, <1>5, <1>6

\* A step of Run.
LEMMA RunRegistry ==
  ASSUME TypeOK, NEW n \in Agent, Coherent(n),
         \/ RegisterHello(n) \/ RegisterState(n)
         \/ (\E gone \in SUBSET Node : Expire(n, gone)) \/ Shutdown(n)
  PROVE  \A k \in Agent : RegistryStep(k)
<1>1. n \in AnySession /\ n \in Node /\ sessions[n] \in SessionMap
  BY RegistryTypes, AgentAssumption DEF AnySession
<1>2. CASE RegisterHello(n)
  <2>1. desired[n] \in Config /\ UNCHANGED generation
    BY <1>2 DEF TypeOK, ControllerType, RegisterHello, leadership
  <2> QED
    BY <1>1, <1>2, <2>1, RegisterRegistry, StillRegistry DEF RegisterHello
<1>3. CASE RegisterState(n)
  <2>0. UNCHANGED generation
    BY <1>3 DEF RegisterState, leadership
  <2>1. CASE ~CurrentSession(n, n) \/ ~Serving(n)
    BY <1>3, <2>0, <2>1, StillRegistry DEF RegisterState
  <2>2. CASE CurrentSession(n, n) /\ Serving(n)
    <3>1. sessions[n][n] \in Node /\ nodes[n][sessions[n][n]] # None
      BY <1>1, <2>2 DEF CurrentSession, SessionMap
    <3>2. run[n].config \in Config /\ run[n].eps \in SUBSET Identity
      BY SMT DEF TypeOK, ProcessType, RunState
    <3>3. 1 \in Nat
      BY SMT
    <3>4. /\ StoreState(n, sessions[n][n], 1, run[n].config, run[n].eps)
          /\ WantPublish(n, "run")
      BY <1>3, <2>2 DEF RegisterState
    <3> QED
      BY <2>0, <3>1, <3>2, <3>3, <3>4, StoreStateRegistry
  <2> QED
    BY <2>1, <2>2
<1>4. ASSUME NEW gone \in SUBSET Node, Expire(n, gone) PROVE \A k \in Agent : RegistryStep(k)
  BY <1>4, UnregisterRegistry DEF Expire, leadership
<1>5. CASE Shutdown(n)
  <2>0. UNCHANGED generation
    BY <1>5 DEF Shutdown, leadership
  <2>1. CASE Unregister(n, {n}) /\ n \in leads
    <3>1. {n} \in SUBSET Node /\ WantPublish(n, "run")
      BY <1>1, <1>5, <2>1 DEF Shutdown
    <3> QED
      BY <2>0, <2>1, <3>1, UnregisterRegistry
  <2>2. CASE UNCHANGED <<nodes, sessions>>
    BY <2>0, <2>2, StillRegistry
  <2> QED
    BY <1>5, <2>1, <2>2, ShutdownUnregisters DEF Shutdown
<1> QED
  BY <1>2, <1>3, <1>4, <1>5

\* The end of a process, and a new generation.
LEMMA ClearRegistryStep ==
  ASSUME TypeOK, NEW n \in Agent, Terminate(n) \/ AcquirePut(n)
  PROVE  \A k \in Agent : RegistryStep(k)
<1>0. /\ nodes \in [Agent -> Registry] /\ generation \in [Agent -> Nat]
      /\ leaderReady \in [Agent -> BOOLEAN] /\ pub \in [Agent -> PubState]
  BY DEF TypeOK, RegistryType, LeadershipType, ProcessType, Registry
<1>1. CASE Terminate(n)
  <2>1. nodes'[n] = NoNodes /\ ~leaderReady'[n] /\ pub'[n].pc = "idle"
    BY <1>0, <1>1, PubIdlePc DEF Terminate
  <2>2. \A k \in Agent \ {n} : nodes'[k] = nodes[k] /\ generation'[k] = generation[k]
    BY <1>0, <1>1 DEF Terminate
  <2> QED
    BY <2>1, <2>2, StillRegistry DEF RegistryStep
<1>2. CASE AcquirePut(n)
  <2>1. CASE UNCHANGED <<nodes, generation>>
    BY <2>1, StillRegistry
  <2>2. CASE /\ generation' = [generation EXCEPT ![n] = pub[n].cand.gen] /\ ClearRegistry(n)
             /\ pub' = [pub EXCEPT ![n] = [@ EXCEPT !.pc = "acquireApply"]]
    <3>1. nodes'[n] = NoNodes
      BY <1>0, <2>2 DEF ClearRegistry
    <3>2. pub'[n].pc = "acquireApply"
      <4>1. pub[n] \in PubState /\ pub'[n] = [pub[n] EXCEPT !.pc = "acquireApply"]
        BY <1>0, <2>2
      <4> QED
        BY SMT, <4>1, PcExcept
    <3>3. \A k \in Agent \ {n} : nodes'[k] = nodes[k] /\ generation'[k] = generation[k]
      BY <1>0, <2>2 DEF ClearRegistry
    <3> QED
      BY <3>1, <3>2, <3>3, StillRegistry DEF RegistryStep
  <2> QED
    BY <1>2, <2>1, <2>2 DEF AcquirePut
<1> QED
  BY <1>1, <1>2

\* Every step, for every registry.
LEMMA NextRegistry ==
  ASSUME TypeOK, \A k \in Agent : Coherent(k), [Next]_vars
  PROVE  \A k \in Agent : RegistryStep(k)
<1>1. ASSUME UNCHANGED <<nodes, generation>> PROVE \A k \in Agent : RegistryStep(k)
  BY <1>1, StillRegistry
<1>2. ASSUME NEW n \in Agent, Step(n) PROVE \A k \in Agent : RegistryStep(k)
  <2>1. CASE \/ \E caller \in Caller : PublishRead(n, caller)
             \/ PublishPut(n) \/ PublishApply(n) \/ AcquireRead(n) \/ AcquireApply(n)
             \/ RunChange(n) \/ RunTransition(n) \/ StepDown(n)
    BY <1>1, <2>1 DEF PublishRead, PublishPut, PublishApply, AcquireRead, AcquireApply,
                      RunChange, RunTransition, StepDown, registry, leadership
  <2> QED
    BY <1>2, <2>1, RunRegistry, ClearRegistryStep DEF Step, Exit
<1>3. ASSUME NEW n \in Agent, Receive(n) PROVE \A k \in Agent : RegistryStep(k)
  <2>0. 0 \in Nat /\ {} \in SUBSET Identity /\ EmptyConfig \in Config
    BY SMT, ContractAssumption
  <2>1. ASSUME NEW s \in sent, FollowApply(n, s) PROVE \A k \in Agent : RegistryStep(k)
    BY <1>1, <2>1 DEF FollowApply, registry, leadership
  <2>2. ASSUME NEW s \in Session, NEW c \in Config, HandleHello(n, s, c) \/ HandleRetire(n, s, c)
        PROVE  \A k \in Agent : RegistryStep(k)
    BY <2>0, <2>2, HandleRegistry
  <2>3. ASSUME NEW s \in Session, NEW q \in 1..MaxSeq, NEW c \in Config, NEW e \in SUBSET Ids(c),
               HandleNodeState(n, s, q, c, e)
        PROVE  \A k \in Agent : RegistryStep(k)
    <3>1. q \in Nat
      BY SMT, BoundAssumption
    <3>2. e \in SUBSET Identity
      BY IdsType
    <3> QED
      BY <2>3, <3>1, <3>2, HandleRegistry
  <2>4. ASSUME NEW s \in Session, HandleDrain(n, s) PROVE \A k \in Agent : RegistryStep(k)
    BY <2>0, <2>4, HandleRegistry
  <2> QED
    BY <1>3, <2>1, <2>2, <2>3, <2>4 DEF Receive
<1>4. ASSUME NEW n \in Agent, Environment(n) PROVE \A k \in Agent : RegistryStep(k)
  BY <1>1, <1>4, ClearRegistryStep
     DEF Environment, Start, Crash, Elect, Depose, SetServices, SetPods, registry, leadership
<1>5. ASSUME NEW w \in inflight, LatePut(w) PROVE \A k \in Agent : RegistryStep(k)
  BY <1>1, <1>5 DEF LatePut, registry, leadership
<1>6. CASE UNCHANGED vars
  BY <1>1, <1>6 DEF vars
<1> QED
  BY <1>2, <1>3, <1>4, <1>5, <1>6 DEF Next

-----------------------------------------------------------------------------
(* Backends are reported *)

\* What was accepted stays accepted.
LEMMA AcceptedGrows ==
  ASSUME [Next]_vars
  PROVE  accepted \subseteq accepted'
<1>1. ASSUME NEW n \in Agent, Step(n) PROVE accepted \subseteq accepted'
  BY <1>1 DEF Step, PublishRead, PublishPut, PublishApply, AcquireRead, AcquirePut, AcquireApply,
              RegisterHello, RegisterState, StoreState, RunChange, RunTransition, Expire, StepDown,
              Shutdown, Exit, Terminate, registry
<1>2. ASSUME NEW n \in Agent, Receive(n) PROVE accepted \subseteq accepted'
  <2>1. ASSUME NEW s, NEW c, HandleHello(n, s, c) \/ HandleRetire(n, s, c) PROVE accepted \subseteq accepted'
    BY <2>1 DEF HandleHello, HandleRetire, registry
  <2>2. ASSUME NEW s, NEW q, NEW c, NEW e, HandleNodeState(n, s, q, c, e) PROVE accepted \subseteq accepted'
    BY <2>2 DEF HandleNodeState, StoreState, registry
  <2>3. ASSUME NEW s, FollowApply(n, s) \/ HandleDrain(n, s) PROVE accepted \subseteq accepted'
    BY <2>3 DEF FollowApply, HandleDrain, registry
  <2> QED
    BY <1>2, <2>1, <2>2, <2>3 DEF Receive
<1>3. ASSUME NEW n \in Agent, Environment(n) PROVE accepted \subseteq accepted'
  BY <1>3 DEF Environment, Start, Crash, Terminate, Elect, Depose, SetServices, SetPods, registry
<1>4. ASSUME NEW w \in inflight, LatePut(w) PROVE accepted \subseteq accepted'
  BY <1>4 DEF LatePut, registry
<1>5. CASE UNCHANGED vars
  BY <1>5 DEF vars
<1> QED
  BY <1>1, <1>2, <1>3, <1>4, <1>5 DEF Next

\* A candidate carries only what its registry leases; acquire carries no backend.
LEMMA FreshReported ==
  ASSUME ReportInv, NEW n \in Agent, NEW s, Fresh(n, s)
  PROVE  Reported(s)
<1>1. ASSUME NEW pick \in Picks(nodes[n]), s = Built(n, pick) PROVE Reported(s)
  <2>1. s.gen = generation[n] /\ s.backends = MergedBackends(nodes[n], pick)
    BY <1>1 DEF Built, BuildClusterSnapshot
  <2>2. \A b \in s.backends :
          /\ b \in Endpoint /\ nodes[n][b.node] # None /\ nodes[n][b.node].state # None
          /\ b.id \in nodes[n][b.node].state.eps
    BY <2>1 DEF MergedBackends
  <2>3. \A b \in Endpoint : b.node \in Node
    BY DEF Endpoint
  <2>4. Leased(n)
    BY DEF ReportInv
  <2> QED
    BY <2>1, <2>2, <2>3, <2>4 DEF Reported, Leased, Registered
<1>2. CASE s = Takeover(n)
  <2>1. s.backends = {}
    <3> DEFINE current == IF durable = None THEN Unpublished(n) ELSE durable
               o == overlayLocalContract(n, desired[n], Strip(current))
    <3>1. current \in Snapshot
      <4>1. Unpublished(n) \in Snapshot
        BY SMT, AgentAssumption DEF Unpublished, Snapshot
      <4> QED
        BY <4>1 DEF ReportInv, TypeOK, StoreType
    <3>2. s = [o EXCEPT !.gen = current.gen + 1, !.rev = 0, !.leader = n]
      BY <1>2 DEF Takeover
    <3> HIDE DEF current
    <3>3. Strip(current) \in Snapshot /\ Strip(current).backends = {}
      BY SMT, <3>1 DEF Strip, Snapshot
    <3>4. o.backends = {} /\ o \in Snapshot
      <4>1. desired[n] \in Config
        BY DEF ReportInv, TypeOK, ControllerType
      <4>2. o \in Snapshot
        BY <3>3, <4>1, OverlaySnapshot
      <4>3. o.backends = {}
        BY SMT, <3>3 DEF overlayLocalContract, BackendsOf, Snapshot
      <4> QED
        BY <4>2, <4>3
    <3> HIDE DEF o
    <3> QED
      BY SMT, <3>2, <3>4 DEF Snapshot
  <2> QED
    BY <2>1 DEF Reported
<1> QED
  BY <1>1, <1>2 DEF Fresh

\* Every step keeps the origin of backends.
LEMMA NextReported ==
  ASSUME ReportInv, \A k \in Agent : Coherent(k), [Next]_vars
  PROVE  ReportInv'
<1>1. TypeOK /\ TypeOK' /\ accepted \subseteq accepted' /\ Carried
  BY NextType, AcceptedGrows, NextCarries DEF ReportInv
<1>2. ASSUME NEW s, Reported(s) PROVE Reported(s)'
  BY <1>1, <1>2 DEF Reported
<1>3. (\A s \in written' : Reported(s)') /\ \A w \in inflight' : Reported(w.cand)'
  BY <1>1, <1>2 DEF Carried, ReportInv
<1>4. ASSUME NEW n \in Agent, pub'[n].cand # None PROVE Reported(pub[n].cand)'
  <2>1. PICK s : s = pub'[n].cand
    OBVIOUS
  <2>2. CASE s = pub[n].cand
    BY <1>2, <1>4, <2>1, <2>2 DEF ReportInv, Reported
  <2>3. CASE Fresh(n, s)
    BY <1>2, <2>1, <2>3, FreshReported DEF Reported
  <2> QED
    BY <1>1, <1>4, <2>1, <2>2, <2>3 DEF Carried
<1>5. ASSUME NEW n \in Agent PROVE Leased(n)'
  <2>1. RegistryStep(n) /\ Leased(n)
    BY <1>1, NextRegistry DEF ReportInv
  <2>2. CASE nodes'[n] = NoNodes
    BY <2>2 DEF Leased, Registered, NoNodes
  <2>3. CASE generation'[n] = generation[n] /\ Leases(n)
    BY <1>1, <2>1, <2>3 DEF Leased, Registered, Leases
  <2> QED
    BY <2>1, <2>2, <2>3 DEF RegistryStep
<1> QED
  BY <1>1, <1>3, <1>4, <1>5 DEF ReportInv

-----------------------------------------------------------------------------
(* The theorems about the registry *)

\* Registries are coherent, and one owner per identity reaches every table, whatever
\* streams, leases and leaders do.
THEOREM RegistryInvariant == Spec => [](CoherenceInv /\ OwnerInv /\ ReportInv)
<1>1. Init => CoherenceInv /\ OwnerInv /\ ReportInv
  <2> SUFFICES ASSUME Init PROVE CoherenceInv /\ OwnerInv /\ ReportInv
    OBVIOUS
  <2>1. FencingInv /\ TypeOK
    BY InitFencing, InitType
  <2>2. \A n \in Agent : /\ nodes[n] = NoNodes /\ sessions[n] = NoSessions
                         /\ pub[n].cand = None /\ view[n] = EmptyView
    BY DEF Init, PubIdle
  <2>3. \A n \in Agent : Coherent(n)
    BY <2>2, EmptyCoherent
  <2>4. UniqueOwnership(EmptyView.services)
    BY DEF EmptyView, UniqueOwnership
  <2>5. OwnerInv
    BY <2>2, <2>4 DEF Init, OwnerInv
  <2>6. \A n \in Agent : Leased(n)
    BY <2>2 DEF Leased, Registered, NoNodes
  <2> QED
    BY <2>1, <2>2, <2>3, <2>5, <2>6 DEF CoherenceInv, ReportInv, Init
<1>2. CoherenceInv /\ OwnerInv /\ ReportInv /\ [Next]_vars => (CoherenceInv /\ OwnerInv /\ ReportInv)'
  <2> SUFFICES ASSUME CoherenceInv, OwnerInv, ReportInv, [Next]_vars
               PROVE  (CoherenceInv /\ OwnerInv /\ ReportInv)'
    OBVIOUS
  <2>1. FencingInv' /\ \A k \in Agent : Coherent(k)'
    BY NextFencing, NextCoherent DEF CoherenceInv, ReportInv
  <2>2. OwnerInv'
    BY NextOwner DEF CoherenceInv
  <2>3. ReportInv'
    BY NextReported DEF CoherenceInv
  <2> QED
    BY <2>1, <2>2, <2>3 DEF CoherenceInv
<1> QED
  BY <1>1, <1>2, PTL DEF Spec

\* Whatever streams of a node overtake each other, expire or drain: the maps of the
\* registry agree, its entries do not contradict each other, and nothing that is
\* published or programmed has two owners (handle, expireAndPublish, drain).
THEOREM RegistryIsCoherent == Spec => []RegistryCoherent
<1>1. CoherenceInv /\ OwnerInv /\ ReportInv => RegistryCoherent
  <2> SUFFICES ASSUME CoherenceInv, OwnerInv PROVE RegistryCoherent
    OBVIOUS
  <2>1. SessionsMatchNodes
    BY DEF CoherenceInv, Coherent, Matched, SessionsMatchNodes, CurrentSession
  <2>2. EntriesAgree
    <3> SUFFICES ASSUME NEW l \in Agent, NEW m \in Registered(nodes[l]),
                        NEW p \in Registered(nodes[l]) \ {m}
                 PROVE  IF groupOf[p] = groupOf[m] THEN nodes[l][p].config = nodes[l][m].config
                        ELSE ~contractsOverlap(nodes[l][p].config, nodes[l][m].config)
      BY DEF EntriesAgree, Conflict
    <3> QED
      BY DEF CoherenceInv, Coherent, Harmonious, Compatible
  <2>3. OneOwner
    BY DEF OwnerInv, OneOwner
  <2> QED
    BY <2>1, <2>2, <2>3 DEF RegistryCoherent
<1> QED
  BY <1>1, RegistryInvariant, PTL

\* Every durable backend was reported by its node to the leader of that generation,
\* however leaders change and writes are delayed (handle, acquire, publish).
THEOREM BackendsAreReported == Spec => []BackendsReported
<1>1. CoherenceInv /\ OwnerInv /\ ReportInv => BackendsReported
  BY DEF ReportInv, Reported, BackendsReported
<1> QED
  BY <1>1, RegistryInvariant, PTL

-----------------------------------------------------------------------------
(* The merged snapshot does not depend on the order of the registry *)

\* Hellos of one NodeGroup agree, whichever of them is met last.
LEMMA PicksAgree ==
  ASSUME NEW reg, Harmonious(reg), NEW p \in Picks(reg), NEW q \in Picks(reg),
         NEW g \in RegisteredGroups(reg)
  PROVE  reg[p[g]].config = reg[q[g]].config
<1>1. /\ p[g] \in Registered(reg) /\ groupOf[p[g]] = g
      /\ q[g] \in Registered(reg) /\ groupOf[q[g]] = g
  BY DEF Picks
<1> QED
  BY <1>1 DEF Harmonious, Compatible

\* So do the Services and the backends that are merged.
LEMMA MergedSame ==
  ASSUME NEW reg, Harmonious(reg), NEW p \in Picks(reg), NEW q \in Picks(reg)
  PROVE  /\ MergedServices(reg, p) = MergedServices(reg, q)
         /\ MergedBackends(reg, p) = MergedBackends(reg, q)
<1>1. \A g \in RegisteredGroups(reg) : reg[p[g]].config = reg[q[g]].config
  BY PicksAgree
<1>2. {Contract(g, reg[p[g]].config) : g \in RegisteredGroups(reg)}
        = {Contract(g, reg[q[g]].config) : g \in RegisteredGroups(reg)}
  BY <1>1
<1>3. \A b \in Endpoint : reg[b.node] # None => groupOf[b.node] \in RegisteredGroups(reg)
  BY DEF Endpoint, RegisteredGroups, Registered
<1>4. MergedBackends(reg, p) = MergedBackends(reg, q)
  BY <1>1, <1>3 DEF MergedBackends
<1> QED
  BY <1>2, <1>4 DEF MergedServices

\* What publish builds is the registry.
LEMMA BuiltMerges ==
  ASSUME NEW n \in Agent, Harmonious(nodes[n]), NEW pick \in Picks(nodes[n])
  PROVE  Merges(n, Built(n, pick))
<1>1. /\ Built(n, pick).services = MergedServices(nodes[n], pick)
      /\ Built(n, pick).backends = MergedBackends(nodes[n], pick)
  BY DEF Built, BuildClusterSnapshot
<1> QED
  BY <1>1, MergedSame DEF Merges

-----------------------------------------------------------------------------
(* The store and its readers *)

\* A write that takes effect was never durable before.
LEMMA CandidateNew ==
  ASSUME TypeOK, StoreInv, NEW w \in Write, WriteOK(w), durable = w.seen
  PROVE  /\ w.cand \notin written
         /\ OneLeader => \A s \in written : s.gen = w.cand.gen => s.leader = w.cand.leader
<1>1. /\ written \subseteq Snapshot /\ durable \in Snapshot \cup {None} /\ w.cand \in Snapshot
      /\ \A s \in written : durable \in written /\ ~Newer(s, durable)
  BY DEF TypeOK, StoreType, Write, StoreInv
<1>2. ASSUME NEW s \in written
      PROVE  s # w.cand /\ (OneLeader /\ s.gen = w.cand.gen => s.leader = w.cand.leader)
  <2>1. durable \in written /\ durable \in Snapshot /\ s \in Snapshot /\ ~Newer(s, durable)
    BY <1>1
  <2>2. durable # None
    BY <2>1, NoneAssumption
  <2>3. /\ durable.gen \in Nat /\ durable.rev \in Nat /\ s.gen \in Nat /\ s.rev \in Nat
        /\ w.cand.gen \in Nat /\ w.cand.rev \in Nat
    BY <1>1, <2>1 DEF Snapshot
  <2>4. s.gen < durable.gen \/ (s.gen = durable.gen /\ s.rev <= durable.rev)
    BY SMT, <2>1, <2>3 DEF Newer
  <2>5. \/ w.cand.gen = durable.gen + 1
        \/ /\ w.cand.gen = durable.gen /\ w.cand.leader = durable.leader
           /\ w.cand.rev = durable.rev + 1
    BY <2>2 DEF WriteOK
  <2>6. ~(s.gen = w.cand.gen /\ s.rev = w.cand.rev)
    BY SMT, <2>3, <2>4, <2>5
  <2>7. s.gen = w.cand.gen => s.gen = durable.gen /\ w.cand.leader = durable.leader
    BY SMT, <2>3, <2>4, <2>5
  <2> QED
    BY <2>1, <2>6, <2>7 DEF OneLeader
<1> QED
  BY <1>2

\* After a write no other request is conditional on what is durable.
LEMMA PutPublication ==
  ASSUME FencingInv, OneLeader, SeenInv, NEW w \in Write, WriteOK(w), PutIfMatch(w),
         inflight' \subseteq inflight
  PROVE  OneLeader' /\ SeenInv' /\ \A v \in inflight' : v.seen # durable'
<1>1. durable = w.seen /\ durable' = w.cand /\ written' = written \cup {w.cand}
  BY DEF PutIfMatch
<1>2. /\ w.cand \notin written
      /\ \A s \in written : s.gen = w.cand.gen => s.leader = w.cand.leader
  BY <1>1, CandidateNew DEF FencingInv
<1>3. OneLeader'
  <2> SUFFICES ASSUME NEW s \in written', NEW t \in written', s.gen = t.gen
               PROVE  s.leader = t.leader
    BY DEF OneLeader
  <2>1. CASE s \in written /\ t \in written
    BY <2>1 DEF OneLeader
  <2>2. CASE s = w.cand \/ t = w.cand
    BY <1>1, <1>2, <2>2
  <2> QED
    BY <1>1, <2>1, <2>2
<1>4. SeenInv'
  BY <1>1 DEF SeenInv
<1>5. w.cand # None
  BY NoneAssumption DEF Write
<1>6. \A v \in inflight' : v.seen # durable'
  BY <1>1, <1>2, <1>5 DEF SeenInv
<1> QED
  BY <1>3, <1>4, <1>6

\* No candidate that can still be written belongs to the generation of another agent.
LEMMA ForeignWrite ==
  ASSUME PublicationInv, NEW n \in Agent, NEW k \in Agent, n # k,
         pub[n].pc \in {"put", "acquirePut"}, pub[n].seen = durable
  PROVE  pub[n].cand.gen # generation[k]
<1>0. /\ TypeOK /\ StoreInv /\ PubInv(n) /\ SectionInv(n) /\ Owned(n) /\ Owned(k) /\ OneLeader
      /\ pub[n].cand \in Snapshot /\ generation[n] \in Nat /\ generation[k] \in Nat
  BY PendingCandidate
     DEF PublicationInv, CoherenceInv, FencingInv, AgentInv, TypeOK, LeadershipType
<1> SUFFICES ASSUME pub[n].cand.gen = generation[k] PROVE FALSE
  OBVIOUS
<1>1. CASE pub[n].pc = "put"
  <2>1. /\ pub[n].cand.gen = generation[n] /\ pub[n].seen \in written
        /\ pub[n].seen.gen = generation[n] /\ pub[n].seen.leader = n
    BY <1>0, <1>1 DEF PubInv, SectionInv
  <2>2. generation[n] >= 1
    BY <1>0, <2>1 DEF StoreInv
  <2>3. generation[k] # 0
    BY SMT, <1>0, <2>1, <2>2
  <2>4. PICK t \in written : t.gen = generation[k] /\ t.leader = k
    BY <1>0, <2>3 DEF Owned
  <2>5. pub[n].seen.gen = t.gen
    BY <2>1, <2>4
  <2> QED
    BY <1>0, <2>1, <2>4, <2>5 DEF OneLeader
<1>2. CASE pub[n].pc = "acquirePut"
  <2>1. pub[n].cand.gen = IF durable = None THEN 1 ELSE durable.gen + 1
    BY <1>0, <1>2 DEF SectionInv
  <2>2. durable # None => durable.gen \in Nat
    BY <1>0 DEF TypeOK, StoreType, Snapshot
  <2>3. generation[k] # 0
    BY SMT, <2>1, <2>2
  <2>4. PICK t \in written : t.gen = generation[k] /\ t.leader = k
    BY <1>0, <2>3 DEF Owned
  <2>5. durable # None /\ ~Newer(t, durable) /\ t.gen \in Nat
    BY <1>0, <2>4 DEF StoreInv, TypeOK, StoreType, Snapshot
  <2>6. t.gen = durable.gen + 1 /\ durable.gen \in Nat
    BY <2>1, <2>2, <2>4, <2>5
  <2>7. t.gen <= durable.gen
    BY SMT, <2>5, <2>6 DEF Newer
  <2> QED
    BY SMT, <2>6, <2>7
<1> QED
  BY <1>1, <1>2

-----------------------------------------------------------------------------
(* Agents that a step leaves aside *)

AgentPub(n) == Owned(n) /\ SectionInv(n) /\ LateInv(n) /\ ContentInv(n)

\* The step does not touch publishMu of k; k may stop serving or have more to publish.
Aside(k) ==
  /\ pub'[k] = pub[k] /\ generation'[k] = generation[k]
  /\ leaderReady'[k] => leaderReady[k] /\ wasLeader'[k] = wasLeader[k]
  /\ waiting'[k] = {} => waiting[k] = {}

\* Such an agent keeps its invariant when what is written is of another generation.
LEMMA AsideKeeps ==
  ASSUME NEW k \in Agent, AgentPub(k), Aside(k), RegistryStep(k), written \subseteq written',
         durable' = durable \/ (Clean(k) => durable'.gen # generation[k]),
         \A w \in inflight' : w.seen = durable' =>
           \/ w \in inflight /\ durable' = durable
           \/ Clean(k) => w.cand.gen # generation[k]
  PROVE  AgentPub(k)'
<1>1. pub'[k] = pub[k] /\ generation'[k] = generation[k]
  BY DEF Aside
<1>2. Owned(k)'
  BY <1>1 DEF AgentPub, Owned
<1>3. SectionInv(k)'
  BY <1>1 DEF AgentPub, SectionInv, Aside
<1>4. Clean(k)' => Clean(k)
  BY <1>1 DEF Clean, Aside
<1>5. LateInv(k)'
  BY <1>1, <1>4 DEF AgentPub, LateInv
<1>6. ContentInv(k)'
  <2>1. CASE nodes'[k] = NoNodes /\ (pub[k].pc = "acquireApply" \/ (pub[k].pc = "idle" /\ ~leaderReady'[k]))
    BY <1>1, <2>1 DEF AgentPub, ContentInv, Clean
  <2>2. CASE nodes'[k] = nodes[k] \/ ~Reflected(k)'
    <3>1. Reflected(k)' => Reflected(k) /\ nodes'[k] = nodes[k]
      BY <2>2 DEF Reflected, Aside
    <3>2. nodes'[k] = nodes[k] => \A s : Merges(k, s) => (\A pick \in Picks(nodes'[k]) :
              s.services = MergedServices(nodes'[k], pick) /\ s.backends = MergedBackends(nodes'[k], pick))
      BY DEF Merges
    <3>3. /\ pub'[k].pc \in {"apply", "acquireApply"} /\ durable'.gen = generation'[k] =>
               durable' = pub'[k].cand
          /\ pub'[k].pc \in {"put", "apply"} /\ Reflected(k)' => Merges(k, pub[k].cand)'
      BY <1>1, <3>1, <3>2 DEF AgentPub, ContentInv, Clean, Merges
    <3>4. /\ leaderReady'[k] /\ pub'[k].pc = "idle" /\ ~pub'[k].failed /\ Reflected(k)'
          /\ durable'.gen = generation'[k] /\ durable'.rev > 0
          => Merges(k, durable)'
      <4> SUFFICES ASSUME leaderReady'[k], pub'[k].pc = "idle", ~pub'[k].failed, Reflected(k)',
                          durable'.gen = generation'[k], durable'.rev > 0
                   PROVE  Merges(k, durable)'
        OBVIOUS
      <4>1. leaderReady[k] /\ pub[k].pc = "idle" /\ ~pub[k].failed /\ durable'.gen = generation[k]
        BY <1>1 DEF Aside
      <4>2. durable' = durable
        BY <4>1 DEF Clean
      <4>3. Merges(k, durable) /\ nodes'[k] = nodes[k]
        BY <3>1, <4>1, <4>2 DEF AgentPub, ContentInv
      <4> QED
        BY <4>2, <4>3 DEF Merges
    <3> QED
      BY <3>3, <3>4 DEF ContentInv
  <2> QED
    BY <1>1, <2>1, <2>2 DEF RegistryStep
<1> QED
  BY <1>2, <1>3, <1>5, <1>6 DEF AgentPub

-----------------------------------------------------------------------------
(* Steps that concern no publication *)

\* Steps of Run outside acquire and publish, messages, and the environment.
Outside(n) ==
  \/ RegisterHello(n) \/ RegisterState(n) \/ RunChange(n) \/ RunTransition(n)
  \/ (\E gone \in SUBSET Node : Expire(n, gone)) \/ StepDown(n) \/ Shutdown(n)
  \/ Receive(n) \/ Start(n) \/ Elect(n) \/ Depose(n)
  \/ (\E c \in Config : \E e \in SUBSET Ids(c) : SetServices(n, c, e))
  \/ (\E e \in SUBSET Ids(desired[n]) : SetPods(n, e))

\* They leave every publishMu alone.
LEMMA OutsideAside ==
  ASSUME TypeOK, NEW n \in Agent, Outside(n)
  PROVE  UNCHANGED <<durable, written, inflight>> /\ \A k \in Agent : Aside(k)
<1>0. waiting \in [Agent -> SUBSET Caller] /\ leaderReady \in [Agent -> BOOLEAN]
  BY DEF TypeOK, ProcessType, LeadershipType
<1>1. ASSUME UNCHANGED <<store, leadership, pub>>,
             waiting' = waiting \/ \E c : WantPublish(n, c)
      PROVE  UNCHANGED <<durable, written, inflight>> /\ \A k \in Agent : Aside(k)
  <2>1. \A k \in Agent : waiting'[k] = {} => waiting[k] = {}
    BY <1>0, <1>1 DEF WantPublish
  <2> QED
    BY <1>1, <2>1 DEF Aside, store, leadership
<1>2. CASE StepDown(n)
  <2>1. \A k \in Agent : leaderReady'[k] => leaderReady[k] /\ wasLeader'[k] = wasLeader[k]
    BY <1>0, <1>2 DEF StepDown, TypeOK, LeadershipType
  <2> QED
    BY <1>2, <2>1 DEF StepDown, Aside, store
<1>3. CASE RegisterHello(n) \/ RegisterState(n) \/ RunChange(n) \/ RunTransition(n)
           \/ (\E gone \in SUBSET Node : Expire(n, gone)) \/ Shutdown(n)
  BY <1>1, <1>3 DEF RegisterHello, RegisterState, RunChange, RunTransition, Expire, Shutdown
<1>4. CASE Receive(n)
  <2> DEFINE Goal == UNCHANGED <<durable, written, inflight>> /\ \A k \in Agent : Aside(k)
  <2>1. ASSUME NEW s, NEW c, HandleHello(n, s, c) \/ HandleRetire(n, s, c) PROVE Goal
    BY <1>1, <2>1 DEF HandleHello, HandleRetire
  <2>2. ASSUME NEW s, NEW q, NEW c, NEW e, HandleNodeState(n, s, q, c, e) PROVE Goal
    BY <1>1, <2>2 DEF HandleNodeState
  <2>3. ASSUME NEW s, FollowApply(n, s) \/ HandleDrain(n, s) PROVE Goal
    BY <1>1, <2>3 DEF FollowApply, HandleDrain
  <2> HIDE DEF Goal
  <2>4. Goal
    BY <1>4, <2>1, <2>2, <2>3 DEF Receive
  <2> QED
    BY <2>4 DEF Goal
<1>5. CASE Start(n) \/ Elect(n) \/ Depose(n)
           \/ (\E c \in Config : \E e \in SUBSET Ids(c) : SetServices(n, c, e))
           \/ (\E e \in SUBSET Ids(desired[n]) : SetPods(n, e))
  BY <1>1, <1>5 DEF Start, Elect, Depose, SetServices, SetPods
<1> QED
  BY <1>2, <1>3, <1>4, <1>5 DEF Outside

\* What is left to show for a step: its effect on the store and on every agent.
Publications == OneLeader /\ SeenInv /\ \A k \in Agent : AgentPub(k)

\* A step that leaves the store and every publishMu alone.
LEMMA AsidePublication ==
  ASSUME Publications, UNCHANGED <<durable, written, inflight>>,
         \A k \in Agent : Aside(k) /\ RegistryStep(k)
  PROVE  Publications'
<1>1. OneLeader' /\ SeenInv'
  BY DEF Publications, OneLeader, SeenInv
<1>2. ASSUME NEW k \in Agent PROVE AgentPub(k)'
  BY AsideKeeps DEF Publications
<1> QED
  BY <1>1, <1>2 DEF Publications

-----------------------------------------------------------------------------
(* Steps of one critical section *)

\* A step of n leaves the publishMu of the others alone.
LEMMA OthersAside ==
  ASSUME NEW k \in Agent, pub'[k] = pub[k], generation'[k] = generation[k],
         leaderReady'[k] = leaderReady[k], wasLeader'[k] = wasLeader[k], waiting'[k] = waiting[k]
  PROVE  Aside(k)
BY DEF Aside

\* publish returned an error, acquire returned or reads again: nothing is promised.
LEMMA UncleanKeeps ==
  ASSUME NEW n \in Agent, pub'[n].pc \in {"idle", "acquireRead"}, ~Clean(n)'
  PROVE  LateInv(n)' /\ ContentInv(n)'
BY DEF LateInv, ContentInv, Clean

\* A free publishMu holds no candidate.
LEMMA IdleSection ==
  ASSUME NEW n \in Agent, SectionInv(n), pub'[n].pc \in {"idle", "acquireRead"},
         pub'[n].pc = "acquireRead" => ~leaderReady'[n],
         leaderReady'[n] = leaderReady[n], wasLeader'[n] = wasLeader[n]
  PROVE  SectionInv(n)'
BY DEF SectionInv

\* The record of a free publishMu.
LEMMA PubIdleFields ==
  ASSUME NEW q, NEW failed, q = PubIdle(failed)
  PROVE  q.pc = "idle" /\ q.failed = failed
BY DEF PubIdle

\* publish takes publishMu, and builds a candidate or returns an error.
LEMMA PublishReadPublication ==
  ASSUME PublicationInv, \A k \in Agent : RegistryStep(k), NEW n \in Agent,
         NEW caller \in Caller, PublishRead(n, caller)
  PROVE  Publications'
<1>0. /\ TypeOK /\ StoreInv /\ Harmonious(nodes[n])
      /\ OneLeader /\ SeenInv /\ \A k \in Agent : AgentPub(k)
  BY DEF PublicationInv, CoherenceInv, FencingInv, Coherent, AgentPub
<1>1. /\ pub \in [Agent -> PubState] /\ waiting \in [Agent -> SUBSET Caller]
  BY <1>0 DEF TypeOK, ProcessType
<1>2. /\ UNCHANGED <<durable, written, inflight, generation, leaderReady, wasLeader, nodes>>
      /\ waiting' = [waiting EXCEPT ![n] = @ \ {caller}]
  BY DEF PublishRead, store, leadership, registry
<1>3. ASSUME NEW k \in Agent \ {n}, pub'[k] = pub[k] PROVE AgentPub(k)'
  <2>1. waiting'[k] = waiting[k]
    BY <1>1, <1>2
  <2> QED
    BY <1>0, <1>2, <1>3, <2>1, OthersAside, AsideKeeps
<1>4. OneLeader' /\ SeenInv'
  BY <1>0, <1>2 DEF OneLeader, SeenInv
<1>5. Owned(n)' /\ SectionInv(n)
  BY <1>0, <1>2 DEF AgentPub, Owned
<1>6. CASE PublishReturns(n, caller, TRUE)
  <2>1. pub'[n] = PubIdle(TRUE) /\ \A k \in Agent \ {n} : pub'[k] = pub[k]
    BY <1>1, <1>6 DEF PublishReturns
  <2>2. pub'[n].pc = "idle" /\ pub'[n].failed = TRUE
    BY <2>1, PubIdleFields
  <2>3. SectionInv(n)'
    BY <1>2, <1>5, <2>2, IdleSection
  <2>4. LateInv(n)' /\ ContentInv(n)'
    BY <2>2, UncleanKeeps DEF Clean
  <2> QED
    BY <1>3, <1>4, <1>5, <2>1, <2>3, <2>4 DEF Publications, AgentPub
<1>7. ASSUME NEW pick \in Picks(nodes[n]), Precedes(Built(n, pick)),
             pub' = [pub EXCEPT ![n] = [pc |-> "put", caller |-> caller,
                       cand |-> Built(n, pick), seen |-> durable,
                       attempt |-> 0, failed |-> FALSE]]
      PROVE  Publications'
  <2>1. /\ pub'[n].pc = "put" /\ pub'[n].cand = Built(n, pick) /\ pub'[n].seen = durable
        /\ \A k \in Agent \ {n} : pub'[k] = pub[k]
    BY <1>1, <1>7
  <2>2. /\ durable # None /\ durable \in written
        /\ durable.gen = Built(n, pick).gen /\ durable.leader = Built(n, pick).leader
    BY <1>0, <1>7 DEF Precedes, StoreInv
  <2>3. Built(n, pick).gen = generation[n] /\ Built(n, pick).leader = n
    BY DEF Built, BuildClusterSnapshot
  <2>4. leaderReady'[n] => wasLeader'[n]
    BY <1>2, <1>5 DEF SectionInv
  <2>5. SectionInv(n)'
    BY <1>2, <2>1, <2>2, <2>3, <2>4 DEF SectionInv
  <2>6. LateInv(n)'
    BY <2>1 DEF LateInv, Clean
  <2>7. Merges(n, Built(n, pick))
    BY <1>0, BuiltMerges
  <2>8. ContentInv(n)'
    BY <1>2, <2>1, <2>7 DEF ContentInv, Merges
  <2> QED
    BY <1>3, <1>4, <1>5, <2>1, <2>5, <2>6, <2>8 DEF Publications, AgentPub
<1> QED
  BY <1>6, <1>7 DEF PublishRead

\* A request of n that is lost, or the end of its process, cannot extend the
\* generation of another agent later.
LEMMA LostPublication ==
  ASSUME PublicationInv, \A k \in Agent : RegistryStep(k), NEW n \in Agent,
         UNCHANGED <<durable, written>>,
         \A w \in inflight' : w \in inflight
           \/ (w = Pending(n) /\ pub[n].pc \in {"put", "acquirePut"}),
         \A k \in Agent \ {n} : Aside(k)
  PROVE  OneLeader' /\ SeenInv' /\ \A k \in Agent \ {n} : AgentPub(k)'
<1>0. /\ TypeOK /\ OneLeader /\ SeenInv /\ SectionInv(n) /\ \A k \in Agent : AgentPub(k)
  BY DEF PublicationInv, CoherenceInv, FencingInv, AgentPub
<1>1. OneLeader'
  BY <1>0 DEF OneLeader
<1>2. Pending(n).seen = pub[n].seen /\ Pending(n).cand = pub[n].cand
  BY DEF Pending
<1>3. SeenInv'
  BY <1>0, <1>2 DEF SeenInv, SectionInv
<1>4. ASSUME NEW k \in Agent \ {n} PROVE AgentPub(k)'
  <2>1. ASSUME NEW w \in inflight', w.seen = durable'
        PROVE  (w \in inflight /\ durable' = durable) \/ (Clean(k) => w.cand.gen # generation[k])
    <3>1. CASE w \in inflight
      BY <3>1
    <3>2. CASE w = Pending(n) /\ pub[n].pc \in {"put", "acquirePut"}
      BY <1>2, <2>1, <3>2, ForeignWrite
    <3> QED
      BY <3>1, <3>2
  <2> QED
    BY <1>0, <2>1, AsideKeeps
<1> QED
  BY <1>1, <1>3, <1>4

\* A write of n does not extend the generation of another agent.
LEMMA PutOthers ==
  ASSUME PublicationInv, \A k \in Agent : RegistryStep(k), NEW n \in Agent,
         pub[n].pc \in {"put", "acquirePut"}, PutIfMatch(Pending(n)), inflight' \subseteq inflight,
         \A k \in Agent \ {n} : Aside(k)
  PROVE  /\ OneLeader' /\ SeenInv' /\ (\A k \in Agent \ {n} : AgentPub(k)')
         /\ durable' = pub[n].cand /\ \A v \in inflight' : v.seen # durable'
<1>0. /\ FencingInv /\ TypeOK /\ OneLeader /\ SeenInv /\ PubInv(n)
      /\ \A k \in Agent : AgentPub(k)
  BY DEF PublicationInv, CoherenceInv, FencingInv, AgentInv, AgentPub
<1>1. Pending(n) \in Write /\ WriteOK(Pending(n))
  BY <1>0, PendingType DEF PubInv, TypeOK
<1>2. Pending(n).seen = pub[n].seen /\ Pending(n).cand = pub[n].cand
  BY DEF Pending
<1>3. OneLeader' /\ SeenInv' /\ \A v \in inflight' : v.seen # durable'
  BY <1>0, <1>1, PutPublication
<1>4. /\ durable = pub[n].seen /\ durable' = pub[n].cand /\ written \subseteq written'
  BY <1>2 DEF PutIfMatch
<1>5. ASSUME NEW k \in Agent \ {n} PROVE AgentPub(k)'
  <2>1. durable'.gen # generation[k]
    BY <1>4, ForeignWrite
  <2> QED
    BY <1>0, <1>3, <1>4, <2>1, AsideKeeps
<1> QED
  BY <1>3, <1>4, <1>5

\* What every step of a critical section starts from.
LEMMA PublicationFacts ==
  ASSUME PublicationInv
  PROVE  /\ FencingInv /\ TypeOK /\ OneLeader /\ SeenInv /\ \A k \in Agent : AgentPub(k)
         /\ pub \in [Agent -> PubState] /\ generation \in [Agent -> Nat]
         /\ leaderReady \in [Agent -> BOOLEAN] /\ wasLeader \in [Agent -> BOOLEAN]
BY DEF PublicationInv, CoherenceInv, FencingInv, AgentPub, TypeOK, ProcessType, LeadershipType

\* The conditional write of publish.
LEMMA PublishPutPublication ==
  ASSUME PublicationInv, \A k \in Agent : RegistryStep(k), NEW n \in Agent, PublishPut(n)
  PROVE  Publications'
<1>0. TypeOK /\ AgentPub(n) /\ pub \in [Agent -> PubState]
  BY PublicationFacts
<1>1. pub[n].pc = "put" /\ UNCHANGED <<generation, leaderReady, wasLeader, waiting, nodes>>
  BY DEF PublishPut, leadership, registry
<1>2. Owned(n)' \/ ~(written \subseteq written')
  BY <1>0, <1>1 DEF AgentPub, Owned
<1>3. CASE /\ PutIfMatch(Pending(n)) /\ UNCHANGED inflight
           /\ pub' = [pub EXCEPT ![n] = [@ EXCEPT !.pc = "apply"]]
  <2>1. \A k \in Agent \ {n} : Aside(k)
    BY <1>0, <1>1, <1>3, OthersAside
  <2>2. /\ OneLeader' /\ SeenInv' /\ (\A k \in Agent \ {n} : AgentPub(k)')
        /\ durable' = pub[n].cand /\ \A v \in inflight' : v.seen # durable'
    BY <1>1, <1>3, <2>1, PutOthers
  <2>3. pub[n] \in PubState /\ pub'[n] = [pub[n] EXCEPT !.pc = "apply"]
    BY <1>0, <1>3
  <2>4. pub'[n].pc = "apply" /\ pub'[n].cand = pub[n].cand
    BY <2>3, PcExcept
  <2>5. SectionInv(n)'
    BY <1>0, <1>1, <2>4 DEF AgentPub, SectionInv
  <2>6. LateInv(n)'
    BY <2>2 DEF LateInv
  <2>7. Reflected(n)' => Merges(n, pub[n].cand)
    BY <1>0, <1>1 DEF AgentPub, ContentInv, Reflected
  <2>8. ContentInv(n)'
    BY <1>1, <2>2, <2>4, <2>7 DEF ContentInv, Merges
  <2>9. Owned(n)'
    BY <1>2, <1>3 DEF PutIfMatch
  <2> QED
    BY <2>2, <2>5, <2>6, <2>8, <2>9 DEF Publications, AgentPub
<1>4. CASE /\ PublishReturns(n, pub[n].caller, TRUE) /\ UNCHANGED <<durable, written>>
           /\ inflight' \subseteq inflight \cup {Pending(n)}
  <2>1. pub'[n] = PubIdle(TRUE) /\ \A k \in Agent \ {n} : pub'[k] = pub[k]
    BY <1>0, <1>4 DEF PublishReturns
  <2>2. \A k \in Agent \ {n} : Aside(k)
    BY <1>1, <2>1, OthersAside
  <2>3. OneLeader' /\ SeenInv' /\ \A k \in Agent \ {n} : AgentPub(k)'
    BY <1>1, <1>4, <2>2, LostPublication
  <2>4. pub'[n].pc = "idle" /\ pub'[n].failed = TRUE
    BY <2>1, PubIdleFields
  <2>5. SectionInv(n)'
    BY <1>0, <1>1, <2>4, IdleSection DEF AgentPub
  <2>6. LateInv(n)' /\ ContentInv(n)'
    BY <2>4, UncleanKeeps DEF Clean
  <2>7. Owned(n)'
    BY <1>2, <1>4
  <2> QED
    BY <2>3, <2>5, <2>6, <2>7 DEF Publications, AgentPub
<1> QED
  BY <1>3, <1>4 DEF PublishPut, store

\* publish applies what it wrote, and is done.
LEMMA PublishApplyPublication ==
  ASSUME PublicationInv, \A k \in Agent : RegistryStep(k), NEW n \in Agent, PublishApply(n)
  PROVE  Publications'
<1>0. TypeOK /\ AgentPub(n) /\ pub \in [Agent -> PubState]
  BY PublicationFacts
<1>1. /\ pub[n].pc = "apply" /\ UNCHANGED <<generation, leaderReady, wasLeader, waiting, nodes>>
      /\ UNCHANGED <<durable, written, inflight>>
  BY DEF PublishApply, leadership, registry, store
<1>2. PICK failed \in BOOLEAN : PublishReturns(n, pub[n].caller, failed)
  BY DEF PublishApply
<1>3. pub'[n] = PubIdle(failed) /\ \A k \in Agent \ {n} : pub'[k] = pub[k]
  BY <1>0, <1>2 DEF PublishReturns
<1>4. \A k \in Agent \ {n} : Aside(k)
  BY <1>1, <1>3, OthersAside
<1>5. OneLeader' /\ SeenInv' /\ \A k \in Agent \ {n} : AgentPub(k)'
  BY <1>1, <1>4, LostPublication
<1>6. pub'[n].pc = "idle"
  BY <1>3, PubIdleFields
<1>7. Owned(n)' /\ SectionInv(n)'
  BY <1>0, <1>1, <1>6, IdleSection DEF AgentPub, Owned
<1>8. LateInv(n)'
  BY <1>0, <1>1 DEF AgentPub, LateInv, Clean
<1>9. Reflected(n)' /\ durable'.gen = generation'[n] => Merges(n, durable)
  BY <1>0, <1>1 DEF AgentPub, ContentInv, Reflected
<1>10. ContentInv(n)'
  BY <1>1, <1>6, <1>9 DEF ContentInv, Merges
<1> QED
  BY <1>5, <1>7, <1>8, <1>10 DEF Publications, AgentPub

\* The outcome of an attempt of acquire that does not serve.
LEMMA AcquireReturns ==
  ASSUME PublicationInv, NEW n \in Agent, AcquireFails(n) \/ AcquireAgain(n),
         UNCHANGED <<generation, leaderReady, wasLeader>>, ~leaderReady[n],
         written \subseteq written'
  PROVE  AgentPub(n)' /\ \A k \in Agent \ {n} : pub'[k] = pub[k]
<1>0. AgentPub(n) /\ pub \in [Agent -> PubState] /\ pub[n] \in PubState
  BY PublicationFacts
<1>1. /\ pub'[n].pc \in {"idle", "acquireRead"}
      /\ \A k \in Agent \ {n} : pub'[k] = pub[k]
  <2>1. CASE AcquireFails(n)
    <3>1. pub'[n] = PubIdle(pub[n].failed) /\ \A k \in Agent \ {n} : pub'[k] = pub[k]
      BY <1>0, <2>1 DEF AcquireFails
    <3> QED
      BY <3>1, PubIdlePc
  <2>2. CASE pub' = [pub EXCEPT ![n] = [@ EXCEPT !.pc = "acquireRead", !.cand = None, !.seen = None]]
    <3>1. pub'[n] = [pub[n] EXCEPT !.pc = "acquireRead", !.cand = None, !.seen = None]
      BY <1>0, <2>2
    <3>2. pub'[n].pc = "acquireRead"
      BY SMT, <1>0, <3>1 DEF PubState
    <3> QED
      BY <1>0, <2>2, <3>2
  <2> QED
    BY <2>1, <2>2 DEF AcquireAgain
<1>2. LateInv(n)' /\ ContentInv(n)'
  BY <1>1, UncleanKeeps DEF Clean
<1>3. Owned(n)' /\ SectionInv(n)'
  BY <1>0, <1>1, IdleSection DEF AgentPub, Owned
<1> QED
  BY <1>1, <1>2, <1>3 DEF AgentPub

\* The first snapshot of the next generation.
LEMMA TakeoverVersion ==
  ASSUME TypeOK, NEW n \in Agent
  PROVE  /\ Takeover(n).gen = IF durable = None THEN 1 ELSE durable.gen + 1
         /\ Takeover(n).rev = 0 /\ Takeover(n).leader = n
<1> DEFINE current == IF durable = None THEN Unpublished(n) ELSE durable
           o == overlayLocalContract(n, desired[n], Strip(current))
<1>1. current \in Snapshot /\ current.gen = IF durable = None THEN 0 ELSE durable.gen
  <2>1. Unpublished(n) \in Snapshot /\ Unpublished(n).gen = 0
    BY SMT, AgentAssumption DEF Unpublished, Snapshot
  <2> QED
    BY <2>1 DEF TypeOK, StoreType
<1>2. Takeover(n) = [o EXCEPT !.gen = current.gen + 1, !.rev = 0, !.leader = n]
  BY DEF Takeover
<1>3. durable # None => durable \in Snapshot
  BY DEF TypeOK, StoreType
<1> HIDE DEF current
<1>4. Strip(current) \in Snapshot
  BY SMT, <1>1 DEF Strip, Snapshot
<1>5. o \in Snapshot
  <2>1. desired[n] \in Config
    BY DEF TypeOK, ControllerType
  <2> QED
    BY <1>4, <2>1, OverlaySnapshot
<1> HIDE DEF o
<1>6. /\ Takeover(n).gen = current.gen + 1
      /\ Takeover(n).rev = 0 /\ Takeover(n).leader = n
  BY SMT, <1>2, <1>5 DEF Snapshot
<1> QED
  BY SMT, <1>1, <1>3, <1>6

\* acquire takes or keeps publishMu, and reads.
LEMMA AcquireReadPublication ==
  ASSUME PublicationInv, \A k \in Agent : RegistryStep(k), NEW n \in Agent, AcquireRead(n)
  PROVE  Publications'
<1>0. TypeOK /\ StoreInv /\ AgentPub(n) /\ pub \in [Agent -> PubState]
  BY PublicationFacts DEF FencingInv
<1>1. UNCHANGED <<generation, leaderReady, wasLeader, waiting, durable, written, inflight>>
  BY DEF AcquireRead, leadership, store
<1>2. ~leaderReady[n]
  BY <1>0 DEF AcquireRead, AgentPub, SectionInv
<1>3. ASSUME \A k \in Agent \ {n} : pub'[k] = pub[k]
      PROVE  OneLeader' /\ SeenInv' /\ \A k \in Agent \ {n} : AgentPub(k)'
  <2>1. \A k \in Agent \ {n} : Aside(k)
    BY <1>1, <1>3, OthersAside
  <2> QED
    BY <1>1, <2>1, LostPublication
<1>4. CASE AcquireFails(n)
  BY <1>1, <1>2, <1>3, <1>4, AcquireReturns DEF Publications
<1>5. CASE pub' = [pub EXCEPT ![n] = [pc |-> "acquirePut", caller |-> "run",
                     cand |-> Takeover(n), seen |-> durable,
                     attempt |-> pub[n].attempt + 1, failed |-> pub[n].failed]]
  <2>1. /\ pub'[n].pc = "acquirePut" /\ pub'[n].cand = Takeover(n) /\ pub'[n].seen = durable
        /\ \A k \in Agent \ {n} : pub'[k] = pub[k]
    BY <1>0, <1>5
  <2>2. /\ Takeover(n).gen = IF durable = None THEN 1 ELSE durable.gen + 1
        /\ Takeover(n).rev = 0 /\ Takeover(n).leader = n
    BY <1>0, TakeoverVersion
  <2>3. durable # None => durable \in written
    BY <1>0 DEF StoreInv
  <2>4. ~leaderReady'[n] /\ written' = written
    BY <1>1, <1>2
  <2>5. SectionInv(n)'
    BY <2>1, <2>2, <2>3, <2>4 DEF SectionInv
  <2>6. LateInv(n)' /\ ContentInv(n)'
    BY <2>1 DEF LateInv, ContentInv, Clean
  <2>7. Owned(n)'
    BY <1>0, <1>1 DEF AgentPub, Owned
  <2> QED
    BY <1>3, <2>1, <2>5, <2>6, <2>7 DEF Publications, AgentPub
<1> QED
  BY <1>4, <1>5 DEF AcquireRead

\* The conditional write of acquire.
LEMMA AcquirePutPublication ==
  ASSUME PublicationInv, \A k \in Agent : RegistryStep(k), NEW n \in Agent, AcquirePut(n)
  PROVE  Publications'
<1>0. /\ TypeOK /\ AgentPub(n) /\ pub \in [Agent -> PubState] /\ generation \in [Agent -> Nat]
  BY PublicationFacts
<1>1. pub[n].pc = "acquirePut" /\ UNCHANGED <<leaderReady, wasLeader, waiting>>
  BY DEF AcquirePut
<1>2. ~leaderReady[n] /\ pub[n].cand.rev = 0 /\ pub[n].cand.leader = n
  BY <1>0, <1>1 DEF AgentPub, SectionInv
<1>3. ASSUME \A k \in Agent \ {n} : pub'[k] = pub[k] /\ generation'[k] = generation[k]
      PROVE  \A k \in Agent \ {n} : Aside(k)
  BY <1>1, <1>3, OthersAside
<1>4. CASE /\ PutIfMatch(Pending(n)) /\ UNCHANGED inflight
           /\ generation' = [generation EXCEPT ![n] = pub[n].cand.gen]
           /\ pub' = [pub EXCEPT ![n] = [@ EXCEPT !.pc = "acquireApply"]]
  <2>1. /\ \A k \in Agent \ {n} : pub'[k] = pub[k] /\ generation'[k] = generation[k]
        /\ generation'[n] = pub[n].cand.gen
    BY <1>0, <1>4
  <2>2. /\ OneLeader' /\ SeenInv' /\ (\A k \in Agent \ {n} : AgentPub(k)')
        /\ durable' = pub[n].cand /\ \A v \in inflight' : v.seen # durable'
    BY <1>1, <1>3, <1>4, <2>1, PutOthers
  <2>3. pub[n] \in PubState /\ pub'[n] = [pub[n] EXCEPT !.pc = "acquireApply"]
    BY <1>0, <1>4
  <2>4. pub'[n].pc = "acquireApply" /\ pub'[n].cand = pub[n].cand
    BY <2>3, PcExcept
  <2>5. SectionInv(n)'
    BY <1>1, <1>2, <2>4 DEF SectionInv
  <2>6. LateInv(n)'
    BY <2>2 DEF LateInv
  <2>7. ContentInv(n)'
    BY <2>2, <2>4 DEF ContentInv
  <2>8. pub[n].cand \in written'
    BY <1>4 DEF PutIfMatch, Pending
  <2>9. Owned(n)'
    BY <1>2, <2>1, <2>8 DEF Owned
  <2> QED
    BY <2>2, <2>5, <2>6, <2>7, <2>9 DEF Publications, AgentPub
<1>5. CASE /\ UNCHANGED <<durable, written, generation>> /\ inflight' \subseteq inflight \cup {Pending(n)}
           /\ AcquireFails(n) \/ AcquireAgain(n)
  <2>1. AgentPub(n)' /\ \A k \in Agent \ {n} : pub'[k] = pub[k]
    BY <1>1, <1>2, <1>5, AcquireReturns
  <2>2. OneLeader' /\ SeenInv' /\ \A k \in Agent \ {n} : AgentPub(k)'
    BY <1>1, <1>3, <1>5, <2>1, LostPublication
  <2> QED
    BY <2>1, <2>2 DEF Publications
<1>6. CASE PutIfMatch(Pending(n)) /\ AcquireAgain(n) /\ UNCHANGED <<inflight, generation>>
  <2>0. written \subseteq written'
    BY <1>6 DEF PutIfMatch
  <2>1. AgentPub(n)' /\ \A k \in Agent \ {n} : pub'[k] = pub[k]
    BY <1>1, <1>2, <1>6, <2>0, AcquireReturns
  <2>2. OneLeader' /\ SeenInv' /\ \A k \in Agent \ {n} : AgentPub(k)'
    BY <1>1, <1>3, <1>6, <2>1, PutOthers
  <2> QED
    BY <2>1, <2>2 DEF Publications
<1> QED
  BY <1>4, <1>5, <1>6 DEF AcquirePut, store

\* acquire applies its snapshot, and starts to serve.
LEMMA AcquireApplyPublication ==
  ASSUME PublicationInv, \A k \in Agent : RegistryStep(k), NEW n \in Agent, AcquireApply(n)
  PROVE  Publications'
<1>0. /\ TypeOK /\ AgentPub(n) /\ pub \in [Agent -> PubState]
      /\ leaderReady \in [Agent -> BOOLEAN] /\ wasLeader \in [Agent -> BOOLEAN]
  BY PublicationFacts
<1>1. pub[n].pc = "acquireApply" /\ UNCHANGED <<generation, waiting, nodes, durable, written, inflight>>
  BY DEF AcquireApply, store, registry
<1>2. ~leaderReady[n] /\ pub[n].cand.rev = 0
  BY <1>0, <1>1 DEF AgentPub, SectionInv
<1>3. CASE AcquireFails(n) /\ UNCHANGED <<leaderReady, wasLeader>>
  <2>1. AgentPub(n)' /\ \A k \in Agent \ {n} : pub'[k] = pub[k]
    BY <1>1, <1>2, <1>3, AcquireReturns
  <2>2. \A k \in Agent \ {n} : Aside(k)
    BY <1>1, <1>3, <2>1, OthersAside
  <2>3. OneLeader' /\ SeenInv' /\ \A k \in Agent \ {n} : AgentPub(k)'
    BY <1>1, <2>2, LostPublication
  <2> QED
    BY <2>1, <2>3 DEF Publications
<1>4. CASE /\ leaderReady' = [leaderReady EXCEPT ![n] = TRUE]
           /\ wasLeader' = [wasLeader EXCEPT ![n] = TRUE]
           /\ pub' = [pub EXCEPT ![n] = PubIdle(FALSE)]
  <2>1. /\ pub'[n] = PubIdle(FALSE) /\ wasLeader'[n]
        /\ \A k \in Agent \ {n} : /\ pub'[k] = pub[k] /\ leaderReady'[k] = leaderReady[k]
                                  /\ wasLeader'[k] = wasLeader[k]
    BY <1>0, <1>4
  <2>2. \A k \in Agent \ {n} : Aside(k)
    BY <1>1, <2>1, OthersAside
  <2>3. OneLeader' /\ SeenInv' /\ \A k \in Agent \ {n} : AgentPub(k)'
    BY <1>1, <2>2, LostPublication
  <2>4. pub'[n].pc = "idle"
    BY <2>1, PubIdleFields
  <2>5. SectionInv(n)'
    BY <2>1, <2>4 DEF SectionInv
  <2>6. Owned(n)' /\ LateInv(n)'
    BY <1>0, <1>1 DEF AgentPub, Owned, LateInv, Clean
  <2>7. durable.gen = generation[n] => durable.rev = 0
    BY <1>0, <1>1, <1>2 DEF AgentPub, ContentInv
  <2>8. ~(0 > 0)
    BY SMT
  <2>9. ContentInv(n)'
    BY <1>1, <2>4, <2>7, <2>8 DEF ContentInv
  <2> QED
    BY <2>3, <2>5, <2>6, <2>9 DEF Publications, AgentPub
<1> QED
  BY <1>3, <1>4 DEF AcquireApply

\* The end of a process.
LEMMA TerminatePublication ==
  ASSUME PublicationInv, \A k \in Agent : RegistryStep(k), NEW n \in Agent, Terminate(n)
  PROVE  Publications'
<1>0. /\ TypeOK /\ AgentPub(n) /\ pub \in [Agent -> PubState] /\ generation \in [Agent -> Nat]
      /\ leaderReady \in [Agent -> BOOLEAN] /\ wasLeader \in [Agent -> BOOLEAN]
  BY PublicationFacts
<1>1. /\ UNCHANGED <<durable, written>>
      /\ \A w \in inflight' : w \in inflight
           \/ (w = Pending(n) /\ pub[n].pc \in {"put", "acquirePut"})
  BY DEF Terminate
<1>2. \A k \in Agent \ {n} :
        /\ pub'[k] = pub[k] /\ generation'[k] = generation[k] /\ leaderReady'[k] = leaderReady[k]
        /\ wasLeader'[k] = wasLeader[k] /\ waiting'[k] = waiting[k]
  BY <1>0 DEF Terminate, TypeOK, ProcessType
<1>3. \A k \in Agent \ {n} : Aside(k)
  BY <1>2, OthersAside
<1>4. OneLeader' /\ SeenInv' /\ \A k \in Agent \ {n} : AgentPub(k)'
  BY <1>1, <1>3, LostPublication
<1>5. pub'[n] = PubIdle(FALSE) /\ generation'[n] = 0 /\ ~leaderReady'[n]
  BY <1>0 DEF Terminate
<1>6. pub'[n].pc = "idle"
  BY <1>5, PubIdleFields
<1>7. Owned(n)' /\ SectionInv(n)'
  BY <1>5, <1>6 DEF Owned, SectionInv
<1>8. LateInv(n)' /\ ContentInv(n)'
  BY <1>5, <1>6, UncleanKeeps DEF Clean
<1> QED
  BY <1>4, <1>7, <1>8 DEF Publications, AgentPub

\* A write that arrives late.
LEMMA LatePutPublication ==
  ASSUME PublicationInv, \A k \in Agent : RegistryStep(k), NEW w \in inflight, LatePut(w)
  PROVE  Publications'
<1>0. /\ FencingInv /\ OneLeader /\ SeenInv /\ \A k \in Agent : AgentPub(k)
  BY PublicationFacts
<1>1. w \in Write /\ WriteOK(w)
  BY <1>0 DEF FencingInv, StoreInv, TypeOK, StoreType
<1>2. PutIfMatch(w) /\ inflight' \subseteq inflight
  BY DEF LatePut
<1>3. OneLeader' /\ SeenInv' /\ \A v \in inflight' : v.seen # durable'
  BY <1>0, <1>1, <1>2, PutPublication
<1>4. ASSUME NEW k \in Agent PROVE AgentPub(k)'
  <2>1. Aside(k)
    BY OthersAside DEF LatePut, leadership
  <2>2. Clean(k) => durable'.gen # generation[k]
    BY <1>0, <1>2 DEF AgentPub, LateInv, PutIfMatch
  <2> QED
    BY <1>0, <1>2, <1>3, <2>1, <2>2, AsideKeeps DEF PutIfMatch
<1> QED
  BY <1>3, <1>4 DEF Publications

\* Every step.
LEMMA NextPublication ==
  ASSUME PublicationInv, [Next]_vars
  PROVE  PublicationInv'
<1>0. /\ TypeOK /\ FencingInv /\ CoherenceInv /\ Publications /\ \A k \in Agent : Coherent(k)
  BY PublicationFacts DEF PublicationInv, CoherenceInv, Publications
<1>1. CoherenceInv'
  BY <1>0, NextFencing, NextCoherent DEF CoherenceInv
<1>2. \A k \in Agent : RegistryStep(k)
  BY <1>0, NextRegistry
<1>3. ASSUME NEW n \in Agent, Outside(n) PROVE Publications'
  <2>1. UNCHANGED <<durable, written, inflight>> /\ \A k \in Agent : Aside(k)
    BY <1>0, <1>3, OutsideAside
  <2> QED
    BY <1>0, <1>2, <2>1, AsidePublication
<1>4. ASSUME NEW n \in Agent, Step(n) PROVE Publications'
  <2>1. CASE (\E caller \in Caller : PublishRead(n, caller)) \/ PublishPut(n) \/ PublishApply(n)
    BY <1>2, <2>1, PublishReadPublication, PublishPutPublication, PublishApplyPublication
  <2>2. CASE AcquireRead(n) \/ AcquirePut(n) \/ AcquireApply(n)
    BY <1>2, <2>2, AcquireReadPublication, AcquirePutPublication, AcquireApplyPublication
  <2>3. CASE Exit(n)
    BY <1>2, <2>3, TerminatePublication DEF Exit
  <2> QED
    BY <1>3, <1>4, <2>1, <2>2, <2>3 DEF Step, Outside
<1>5. ASSUME NEW n \in Agent, Receive(n) PROVE Publications'
  BY <1>3, <1>5 DEF Outside
<1>6. ASSUME NEW n \in Agent, Environment(n) PROVE Publications'
  <2>1. CASE Crash(n)
    BY <1>2, <2>1, TerminatePublication DEF Crash
  <2> QED
    BY <1>3, <1>6, <2>1 DEF Environment, Outside
<1>7. ASSUME NEW w \in inflight, LatePut(w) PROVE Publications'
  BY <1>2, <1>7, LatePutPublication
<1>8. ASSUME UNCHANGED vars PROVE Publications'
  <2>1. \A k \in Agent : Aside(k)
    BY <1>8 DEF Aside, vars
  <2>2. UNCHANGED <<durable, written, inflight>>
    BY <1>8 DEF vars
  <2> QED
    BY <1>0, <1>2, <2>1, <2>2, AsidePublication
<1>9. Publications'
  <2>1. CASE Next
    BY <1>4, <1>5, <1>6, <1>7, <2>1 DEF Next
  <2> QED
    BY <1>8, <2>1
<1> QED
  BY <1>1, <1>9 DEF PublicationInv, Publications, AgentPub

\* The invariant that ties every critical section to the store and the registry.
THEOREM PublicationInvariant == Spec => []PublicationInv
<1>1. Init => PublicationInv
  <2> SUFFICES ASSUME Init PROVE PublicationInv
    OBVIOUS
  <2>1. FencingInv
    BY InitFencing
  <2>2. \A n \in Agent : /\ nodes[n] = NoNodes /\ sessions[n] = NoSessions
                         /\ pub[n] = PubIdle(FALSE) /\ generation[n] = 0 /\ ~leaderReady[n]
    BY DEF Init
  <2>3. \A n \in Agent : Coherent(n)
    BY <2>2, EmptyCoherent
  <2>4. \A n \in Agent : pub[n].pc = "idle"
    BY <2>2, PubIdleFields
  <2>5. \A n \in Agent : Owned(n) /\ SectionInv(n) /\ LateInv(n) /\ ContentInv(n)
    BY <2>2, <2>4 DEF Owned, SectionInv, LateInv, ContentInv, Clean
  <2> QED
    BY <2>1, <2>3, <2>5 DEF Init, PublicationInv, CoherenceInv, OneLeader, SeenInv
<1>2. PublicationInv /\ [Next]_vars => PublicationInv'
  BY NextPublication
<1> QED
  BY <1>1, <1>2, PTL DEF Spec

\* A settled leader whose last publication succeeded has published exactly its
\* registry: no Hello, NodeState, Drain or expiry is lost, whatever was deposed,
\* retried or delayed meanwhile (publish, acquire, handle, expireAndPublish).
THEOREM PublishesRegistry == Spec => []PublishedIsRegistry
<1>1. PublicationInv => PublishedIsRegistry
  <2> SUFFICES ASSUME PublicationInv, NEW n \in Agent,
                      Settled(n), ~pub[n].failed, durable.gen = generation[n], durable.rev > 0,
                      \A m \in Registered(nodes[n]) : nodes[n][m].state # None
               PROVE  Merges(n, durable)
    BY DEF PublishedIsRegistry, Merges
  <2>1. ContentInv(n)
    BY DEF PublicationInv
  <2> QED
    BY <2>1 DEF ContentInv, Settled, Serving, Reflected
<1> QED
  BY <1>1, PublicationInvariant, PTL

=============================================================================
