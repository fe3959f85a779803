-------------------------- MODULE DataplaneProofs ---------------------------
(***************************************************************************)
(* OneFlowPerTuple and SentByOwner for any number of CPUs, flows, ports,   *)
(* backends, table changes and evictions; OnlyCurrentServes and NoGap for  *)
(* any routes, snapshots, numbers of calls and errors.                     *)
(*                                                                         *)
(* OneFlowPerTuple is not inductive: that two packets left under different *)
(* tuples says nothing about the next one.  The strengthening is Owned: as *)
(* long as nothing was evicted, every tuple that was ever used still maps  *)
(* back to the flow that used it, because an entry of reverse is created   *)
(* only where there is none and is given back only before it was used.     *)
(*                                                                         *)
(* OnlyCurrentServes needs what a call of Reconcile knows between its      *)
(* steps.  A new collection is attached only after it was filled with the  *)
(* snapshot the call wants, and the current one stays open until then      *)
(* (Raising); the interfaces that were found include those that cannot     *)
(* disappear, and only a collection that holds the wanted snapshot is      *)
(* refreshed (Refreshing); one is retired only after another has taken     *)
(* over (Ending).                                                          *)
(*                                                                         *)
(* ViewComplete, for any Pods, changes and faults, needs what is on the    *)
(* way: an open stream leads from what is staged to the kubelet's Pods,    *)
(* through the rest of the list and then change by change (Delivers).      *)
(***************************************************************************)
EXTENDS Forwarding, TLAPS

USE Zenon

\* A packet in work has a flow, a tuple and a number of attempts.
PacketOK(s) == s.pc # "idle" => s.flow \in Flow /\ s.tuple \in Tuple /\ s.attempt \in Nat

\* The packets in work.
CpuOK(f) == f = [c \in CPU |-> f[c]] /\ \A c \in CPU : PacketOK(f[c])

\* Types of the maps and of the packets in work.
TypeOK ==
  /\ forward \in [Flow -> Tuple \cup {None}]
  /\ reverse \in [Tuple -> Flow \cup {None}]
  /\ ready \in Seq(Backend)
  /\ CpuOK(cpu)
  /\ sent \subseteq Tuple \X Flow
  /\ evictions \in Nat

\* Every tuple in use still belongs to the flow that used it.
Owned == evictions = 0 => \A x \in sent : reverse[x[1]] = x[2]

\* The inductive invariant.
FlowInv == TypeOK /\ Owned

-----------------------------------------------------------------------------
(* Types *)

\* A hash selects a port of the range.
LEMMA PortInRange ==
  ASSUME NEW n \in Nat
  PROVE  n % Ports \in 0..(Ports - 1)
BY FlowAssumption, SMTT(30)

\* A tuple is made of a backend and a port of the range.
LEMMA TupleType ==
  ASSUME NEW b \in Backend, NEW n \in Nat
  PROVE  <<b, n % Ports>> \in Tuple
BY PortInRange DEF Tuple

\* A hash selects a published backend.
LEMMA BackendType ==
  ASSUME NEW s \in Seq(Backend), s # <<>>, NEW n \in Nat
  PROVE  s[1 + (n % Len(s))] \in Backend
<1>1. Len(s) \in Nat \ {0}
  BY SMTT(30)
<1>2. 1 + (n % Len(s)) \in 1..Len(s)
  BY <1>1, SMTT(30)
<1> QED
  BY <1>2, SMTT(30)

\* A packet with a flow, a tuple and a number of attempts.
LEMMA PacketType ==
  ASSUME NEW at, NEW f \in Flow, NEW t \in Tuple, NEW n \in Nat, NEW o
  PROVE  PacketOK(Packet(at, f, t, n, o))
BY DEF PacketOK, Packet

\* An idle CPU.
LEMMA IdleType == PacketOK(Idle)
BY DEF PacketOK, Idle, Packet

\* Replacing the packet of one CPU keeps the others.
LEMMA CpuUpdate ==
  ASSUME TypeOK, NEW c \in CPU, NEW s, PacketOK(s), cpu' = [cpu EXCEPT ![c] = s]
  PROVE  CpuOK(cpu')
<1>1. cpu = [d \in CPU |-> cpu[d]] /\ \A d \in CPU : PacketOK(cpu[d])
  BY DEF TypeOK, CpuOK
<1>2. cpu' = [d \in CPU |-> IF d = c THEN s ELSE cpu[d]]
  BY <1>1
<1>3. \A d \in CPU : cpu'[d] = s \/ cpu'[d] = cpu[d]
  BY <1>2
<1>4. \A d \in CPU : PacketOK(cpu'[d])
  BY <1>1, <1>3
<1>5. cpu' = [d \in CPU |-> cpu'[d]]
  BY <1>2
<1> QED
  BY <1>4, <1>5 DEF CpuOK

\* The packet of a busy CPU.
LEMMA Busy ==
  ASSUME TypeOK, NEW c \in CPU, cpu[c].pc # "idle"
  PROVE  cpu[c].flow \in Flow /\ cpu[c].tuple \in Tuple /\ cpu[c].attempt \in Nat
BY DEF TypeOK, CpuOK, PacketOK

\* A packet is dropped.
LEMMA DropType ==
  ASSUME TypeOK, NEW c \in CPU, Drop(c)
  PROVE  CpuOK(cpu')
BY CpuUpdate, IdleType DEF Drop

\* A packet in work goes on with another step.
LEMMA MoveType ==
  ASSUME TypeOK, NEW c \in CPU, cpu[c].pc # "idle", NEW at, Move(c, at)
  PROVE  CpuOK(cpu')
BY Busy, CpuUpdate, PacketType DEF Move

\* A packet tries the next tuple, or is dropped.
LEMMA NextProbeType ==
  ASSUME TypeOK, NEW c \in CPU, cpu[c].pc # "idle", NEW advance \in BOOLEAN, NextProbe(c, advance)
  PROVE  CpuOK(cpu')
<1> DEFINE a == cpu[c]
           n == a.attempt + 1
           t == IF advance THEN <<a.tuple[1], (hash[a.flow] + a.attempt + 1) % Ports>> ELSE a.tuple
<1>1. a.flow \in Flow /\ a.tuple \in Tuple /\ a.attempt \in Nat
  BY Busy
<1>2. a.tuple[1] \in Backend
  BY <1>1 DEF Tuple
<1>3. n \in Nat /\ hash[a.flow] + a.attempt + 1 \in Nat
  <2>1. hash[a.flow] \in Nat
    BY <1>1, FlowAssumption
  <2> QED
    BY <2>1, <1>1, SMTT(30)
<1>4. t \in Tuple
  BY <1>1, <1>2, <1>3, TupleType
<1>5. PacketOK(Packet("probe", a.flow, t, n, a.owner))
  BY <1>1, <1>3, <1>4, PacketType
<1>6. CASE n = Attempts
  BY <1>6, DropType DEF NextProbe
<1>7. CASE n # Attempts
  <2>1. cpu' = [cpu EXCEPT ![c] = Packet("probe", a.flow, t, n, a.owner)]
    BY <1>7 DEF NextProbe
  <2> QED
    BY <2>1, <1>5, CpuUpdate
<1> QED
  BY <1>6, <1>7

-----------------------------------------------------------------------------
(* The invariant *)

\* A free tuple is taken: no tuple in use was free.
LEMMA TakeKeeps ==
  ASSUME FlowInv, NEW t \in Tuple, NEW f \in Flow, reverse[t] = None,
         reverse' = [reverse EXCEPT ![t] = f], sent' = sent, evictions' = evictions
  PROVE  reverse' \in [Tuple -> Flow \cup {None}] /\ Owned'
<1>1. reverse' \in [Tuple -> Flow \cup {None}]
  BY DEF FlowInv, TypeOK
<1>2. ASSUME evictions' = 0, NEW x \in sent'
      PROVE  reverse'[x[1]] = x[2]
  <2>1. x \in sent /\ evictions = 0
    BY <1>2
  <2>2. x[1] \in Tuple /\ x[2] \in Flow
    BY <2>1 DEF FlowInv, TypeOK
  <2>3. reverse[x[1]] = x[2]
    BY <2>1 DEF FlowInv, Owned
  <2>4. x[1] # t
    BY <2>2, <2>3, FlowAssumption
  <2> QED
    BY <2>2, <2>3, <2>4 DEF FlowInv, TypeOK
<1> QED
  BY <1>1, <1>2 DEF Owned

\* A packet leaves under a tuple that is its flow's at that moment.
LEMMA EmitKeeps ==
  ASSUME FlowInv, NEW c \in CPU, cpu[c].pc # "idle", Emit(c, cpu[c].tuple),
         reverse[cpu[c].tuple] = cpu[c].flow, reverse' = reverse, evictions' = evictions
  PROVE  CpuOK(cpu') /\ sent' \subseteq Tuple \X Flow /\ Owned'
<1> DEFINE a == cpu[c]
<1>1. TypeOK /\ Owned
  BY DEF FlowInv
<1>2. a.flow \in Flow /\ a.tuple \in Tuple
  BY <1>1, Busy
<1>3. sent' = sent \cup {<<a.tuple, a.flow>>}
  BY DEF Emit
<1>4. sent' \subseteq Tuple \X Flow
  <2>1. <<a.tuple, a.flow>> \in Tuple \X Flow
    BY <1>2
  <2>2. sent \subseteq Tuple \X Flow
    BY <1>1 DEF TypeOK
  <2> QED
    BY <2>1, <2>2, <1>3
<1>5. CpuOK(cpu')
  BY <1>1, DropType DEF Emit
<1>6. Owned'
  <2>1. ASSUME evictions' = 0, NEW x \in sent'
        PROVE  reverse'[x[1]] = x[2]
    <3>1. CASE x \in sent
      BY <3>1, <2>1, <1>1 DEF Owned
    <3>2. CASE x = <<a.tuple, a.flow>>
      <4>1. x[1] = a.tuple /\ x[2] = a.flow
        BY <3>2
      <4> QED
        BY <4>1
    <3> QED
      BY <3>1, <3>2, <2>1, <1>3
  <2> QED
    BY <2>1 DEF Owned
<1> QED
  BY <1>4, <1>5, <1>6

\* An eviction or a failed update is counted.
LEMMA Counted ==
  ASSUME FlowInv, evictions' = evictions + 1
  PROVE  evictions' \in Nat /\ evictions' # 0
<1>1. evictions \in Nat
  BY DEF FlowInv, TypeOK
<1> QED
  BY <1>1, SMTT(30)

\* The first published table is well-formed, and nothing was sent.
LEMMA InitFlowInv == Init => FlowInv
<1> SUFFICES ASSUME Init PROVE FlowInv
  OBVIOUS
<1>1. forward \in [Flow -> Tuple \cup {None}] /\ reverse \in [Tuple -> Flow \cup {None}]
  BY DEF Init
<1>2. ready \in Seq(Backend)
  BY FlowAssumption DEF Init
<1>3. CpuOK(cpu)
  BY IdleType DEF Init, CpuOK
<1>4. sent = {} /\ evictions \in Nat
  BY SMTT(30) DEF Init
<1> QED
  BY <1>1, <1>2, <1>3, <1>4 DEF FlowInv, TypeOK, Owned

\* A packet arrives.
LEMMA ReceiveKeeps ==
  ASSUME FlowInv, NEW c \in CPU, NEW f \in Flow, Receive(c, f)
  PROVE  FlowInv'
<1> DEFINE t == IF forward[f] # None THEN forward[f]
                ELSE <<ready[1 + (hash[f] % Len(ready))], hash[f] % Ports>>
           at == IF forward[f] # None THEN "check" ELSE "probe"
<1>1. TypeOK /\ Owned
  BY DEF FlowInv
<1>2. hash[f] \in Nat
  BY FlowAssumption
<1>3. t \in Tuple
  <2>1. CASE forward[f] # None
    BY <2>1, <1>1 DEF TypeOK
  <2>2. CASE forward[f] = None
    <3>1. ready[1 + (hash[f] % Len(ready))] \in Backend
      BY <1>1, <1>2, BackendType DEF TypeOK, Receive
    <3> QED
      BY <3>1, <2>2, <1>2, TupleType
  <2> QED
    BY <2>1, <2>2
<1>4. cpu' = [cpu EXCEPT ![c] = Packet(at, f, t, 0, FALSE)]
  BY DEF Receive
<1>5. 0 \in Nat
  BY SMTT(30)
<1>6. CpuOK(cpu')
  BY <1>1, <1>3, <1>4, <1>5, PacketType, CpuUpdate
<1> QED
  BY <1>1, <1>6 DEF Receive, FlowInv, TypeOK, Owned

\* A tuple is looked up.
LEMMA ProbeKeeps ==
  ASSUME FlowInv, NEW c \in CPU, Probe(c)
  PROVE  FlowInv'
<1>1. TypeOK /\ Owned /\ cpu[c].pc # "idle"
  BY DEF FlowInv, Probe
<1>2. Move(c, "claim") \/ Move(c, "bind") \/ NextProbe(c, TRUE)
  BY DEF Probe
<1>3. CpuOK(cpu')
  BY <1>1, <1>2, MoveType, NextProbeType
<1> QED
  BY <1>1, <1>3 DEF Probe, FlowInv, TypeOK, Owned

\* A tuple is claimed if it is still free.
LEMMA ClaimKeeps ==
  ASSUME FlowInv, NEW c \in CPU, Claim(c)
  PROVE  FlowInv'
<1> DEFINE a == cpu[c]
<1>1. TypeOK /\ Owned /\ a.pc # "idle"
  BY DEF FlowInv, Claim
<1>2. a.flow \in Flow /\ a.tuple \in Tuple /\ a.attempt \in Nat
  BY <1>1, Busy
<1>3. CASE reverse[a.tuple] = None
  <2>1. reverse' = [reverse EXCEPT ![a.tuple] = a.flow] /\ sent' = sent /\ evictions' = evictions
    BY <1>3 DEF Claim, Claimable
  <2>2. reverse' \in [Tuple -> Flow \cup {None}] /\ Owned'
    BY <2>1, <1>2, <1>3, TakeKeeps
  <2>3. cpu' = [cpu EXCEPT ![c] = Packet("bind", a.flow, a.tuple, a.attempt, TRUE)]
    BY <1>3 DEF Claim, Claimable
  <2>4. CpuOK(cpu')
    BY <2>3, <1>1, <1>2, PacketType, CpuUpdate
  <2> QED
    BY <1>1, <2>2, <2>4 DEF Claim, FlowInv, TypeOK
<1>4. CASE reverse[a.tuple] # None
  <2>1. NextProbe(c, FALSE) /\ reverse' = reverse
    BY <1>4 DEF Claim, Claimable
  <2>2. CpuOK(cpu')
    BY <2>1, <1>1, NextProbeType
  <2> QED
    BY <1>1, <2>1, <2>2 DEF Claim, FlowInv, TypeOK, Owned
<1> QED
  BY <1>3, <1>4

\* The forward entry is written, or the tuple given back and the failure counted.
LEMMA BindKeeps ==
  ASSUME FlowInv, NEW c \in CPU, Bind(c)
  PROVE  FlowInv'
<1> DEFINE a == cpu[c]
<1>1. TypeOK /\ Owned /\ a.pc # "idle"
  BY DEF FlowInv, Bind
<1>2. a.flow \in Flow /\ a.tuple \in Tuple /\ a.attempt \in Nat
  BY <1>1, Busy
<1>3. ready' = ready /\ sent' = sent
  BY DEF Bind
<1>4. CASE /\ forward' = [forward EXCEPT ![a.flow] = a.tuple]
           /\ Move(c, "look")
           /\ UNCHANGED <<reverse, evictions>>
  <2>1. CpuOK(cpu')
    BY <1>1, <1>4, MoveType
  <2>2. forward' \in [Flow -> Tuple \cup {None}]
    BY <1>1, <1>2, <1>4 DEF TypeOK
  <2> QED
    BY <2>1, <2>2, <1>1, <1>3, <1>4 DEF FlowInv, TypeOK, Owned
<1>5. CASE /\ evictions' = evictions + 1
           /\ reverse' = IF a.owner THEN [reverse EXCEPT ![a.tuple] = None] ELSE reverse
           /\ Drop(c)
           /\ UNCHANGED forward
  <2>1. CpuOK(cpu')
    BY <1>1, <1>5, DropType
  <2>2. reverse' \in [Tuple -> Flow \cup {None}]
    BY <1>1, <1>5 DEF TypeOK
  <2>3. evictions' \in Nat /\ evictions' # 0
    BY <1>5, Counted
  <2> QED
    BY <2>1, <2>2, <2>3, <1>1, <1>3, <1>5 DEF FlowInv, TypeOK, Owned
<1> QED
  BY <1>4, <1>5 DEF Bind

\* The forward entry is read back.
LEMMA LookKeeps ==
  ASSUME FlowInv, NEW c \in CPU, Look(c)
  PROVE  FlowInv'
<1> DEFINE a == cpu[c]
           t == forward[a.flow]
<1>1. TypeOK /\ Owned /\ a.pc # "idle"
  BY DEF FlowInv, Look
<1>2. a.flow \in Flow /\ a.attempt \in Nat
  BY <1>1, Busy
<1>3. CpuOK(cpu')
  <2>1. CASE t = None
    BY <2>1, <1>1, DropType DEF Look
  <2>2. CASE t # None
    <3>1. t \in Tuple
      BY <2>2, <1>1, <1>2 DEF TypeOK
    <3>2. cpu' = [cpu EXCEPT ![c] = Packet("check", a.flow, t, a.attempt, a.owner)]
      BY <2>2 DEF Look
    <3> QED
      BY <3>1, <3>2, <1>1, <1>2, PacketType, CpuUpdate
  <2> QED
    BY <2>1, <2>2
<1> QED
  BY <1>1, <1>3 DEF Look, FlowInv, TypeOK, Owned

\* A flow starts over.
LEMMA ForgetType ==
  ASSUME FlowInv, NEW c \in CPU, cpu[c].pc # "idle", Forget(c)
  PROVE  CpuOK(cpu') /\ forward' \in [Flow -> Tuple \cup {None}] /\ sent' = sent
<1>1. TypeOK /\ cpu[c].flow \in Flow
  BY Busy DEF FlowInv
<1>2. forward' = [forward EXCEPT ![cpu[c].flow] = None]
  BY DEF Forget
<1> QED
  BY <1>1, <1>2, DropType DEF Forget, TypeOK

\* The packet leaves, is repaired or starts over.
LEMMA CheckKeeps ==
  ASSUME FlowInv, NEW c \in CPU, Check(c)
  PROVE  FlowInv'
<1> DEFINE a == cpu[c]
<1>1. TypeOK /\ Owned /\ a.pc # "idle"
  BY DEF FlowInv, Check
<1>2. reverse' = reverse /\ ready' = ready /\ evictions' = evictions
  BY DEF Check
<1>3. CASE Move(c, "repair") /\ UNCHANGED <<forward, out, sent>>
  <2>1. CpuOK(cpu')
    BY <1>1, <1>3, MoveType
  <2> QED
    BY <2>1, <1>1, <1>2, <1>3 DEF FlowInv, TypeOK, Owned
<1>4. CASE reverse[a.tuple] = a.flow /\ Emit(c, a.tuple) /\ UNCHANGED forward
  <2>1. CpuOK(cpu') /\ sent' \subseteq Tuple \X Flow /\ Owned'
    BY <1>1, <1>2, <1>4, EmitKeeps
  <2> QED
    BY <2>1, <1>1, <1>2, <1>4 DEF FlowInv, TypeOK
<1>5. CASE Forget(c)
  <2>1. CpuOK(cpu') /\ forward' \in [Flow -> Tuple \cup {None}] /\ sent' = sent
    BY <1>1, <1>5, ForgetType
  <2> QED
    BY <2>1, <1>1, <1>2 DEF FlowInv, TypeOK, Owned
<1> QED
  BY <1>3, <1>4, <1>5 DEF Check, reverse_matches

\* A missing reverse entry is written again, unless the tuple was taken.
LEMMA RepairKeeps ==
  ASSUME FlowInv, NEW c \in CPU, Repair(c)
  PROVE  FlowInv'
<1> DEFINE a == cpu[c]
<1>1. TypeOK /\ Owned /\ a.pc # "idle"
  BY DEF FlowInv, Repair
<1>2. a.flow \in Flow /\ a.tuple \in Tuple
  BY <1>1, Busy
<1>3. ready' = ready /\ evictions' = evictions
  BY DEF Repair
<1>4. CASE reverse[a.tuple] = None
  <2>1. /\ reverse' = [reverse EXCEPT ![a.tuple] = a.flow]
        /\ Move(c, "recheck")
        /\ forward' = forward /\ sent' = sent
    BY <1>4 DEF Repair, Claimable
  <2>2. reverse' \in [Tuple -> Flow \cup {None}] /\ Owned'
    BY <2>1, <1>2, <1>3, <1>4, TakeKeeps
  <2>3. CpuOK(cpu')
    BY <2>1, <1>1, MoveType
  <2> QED
    BY <2>1, <2>2, <2>3, <1>1, <1>3 DEF FlowInv, TypeOK
<1>5. CASE reverse[a.tuple] # None
  <2>1. Forget(c) /\ reverse' = reverse
    BY <1>5 DEF Repair, Claimable
  <2>2. CpuOK(cpu') /\ forward' \in [Flow -> Tuple \cup {None}] /\ sent' = sent
    BY <2>1, <1>1, ForgetType
  <2> QED
    BY <2>1, <2>2, <1>1, <1>3 DEF FlowInv, TypeOK, Owned
<1> QED
  BY <1>4, <1>5

\* Entries are evicted, and counted.
LEMMA EvictionsKeep ==
  ASSUME FlowInv, (\E f \in Flow : EvictForward(f)) \/ (\E t \in Tuple : EvictReverse(t))
  PROVE  FlowInv'
<1>1. TypeOK /\ Owned
  BY DEF FlowInv
<1>2. evictions' \in Nat /\ evictions' # 0
  BY Counted DEF EvictForward, EvictReverse
<1>3. CpuOK(cpu') /\ ready' = ready /\ sent' = sent
  BY <1>1 DEF EvictForward, EvictReverse, TypeOK
<1>4. forward' \in [Flow -> Tuple \cup {None}]
  BY <1>1 DEF EvictForward, EvictReverse, TypeOK
<1>5. reverse' \in [Tuple -> Flow \cup {None}]
  BY <1>1 DEF EvictForward, EvictReverse, TypeOK
<1> QED
  BY <1>1, <1>2, <1>3, <1>4, <1>5 DEF FlowInv, TypeOK, Owned

\* Another table is published; the flow maps stay.
LEMMA SwitchKeeps ==
  ASSUME FlowInv, Switch
  PROVE  FlowInv'
<1>1. ready' \in Seq(Backend)
  BY FlowAssumption DEF Switch
<1> QED
  BY <1>1 DEF Switch, FlowInv, TypeOK, Owned

\* Every step keeps the invariant.
LEMMA NextFlowInv == FlowInv /\ [Next]_vars => FlowInv'
<1> SUFFICES ASSUME FlowInv, [Next]_vars PROVE FlowInv'
  OBVIOUS
<1>1. CASE UNCHANGED vars
  BY <1>1 DEF vars, FlowInv, TypeOK, Owned
<1>2. ASSUME NEW c \in CPU, Step(c) PROVE FlowInv'
  BY <1>2, ProbeKeeps, ClaimKeeps, BindKeeps, LookKeeps, CheckKeeps, RepairKeeps DEF Step
<1>3. ASSUME NEW c \in CPU, NEW f \in Flow, Receive(c, f) PROVE FlowInv'
  BY <1>3, ReceiveKeeps
<1> QED
  BY <1>1, <1>2, <1>3, EvictionsKeep, SwitchKeeps DEF Next

-----------------------------------------------------------------------------
(* Theorems *)

\* FlowInv holds throughout (the maps of dataplane.bpf.c are only written as Claim,
\* Bind, Repair and the evictions write them).
THEOREM FlowInvariant == Spec => []FlowInv
<1>1. Init => FlowInv
  BY InitFlowInv
<1>2. FlowInv /\ [Next]_vars => FlowInv'
  BY NextFlowInv
<1> QED
  BY <1>1, <1>2, PTL DEF Spec

\* While nothing is evicted no two flows are ever sent under one tuple, for any number
\* of CPUs, flows, backends, source ports and table changes.
THEOREM TuplesUnshared == Spec => []OneFlowPerTuple
<1>1. FlowInv => OneFlowPerTuple
  <2> SUFFICES ASSUME FlowInv, evictions = 0, NEW x \in sent, NEW y \in sent, x[1] = y[1]
               PROVE  x[2] = y[2]
    BY DEF OneFlowPerTuple
  <2>1. reverse[x[1]] = x[2] /\ reverse[y[1]] = y[2]
    BY DEF FlowInv, Owned
  <2> QED
    BY <2>1
<1> QED
  BY <1>1, FlowInvariant, PTL

\* A packet leaves only under a tuple its flow owns at that moment, whatever is evicted.
LEMMA StepOwner ==
  ASSUME [Next]_vars, out' # out
  PROVE  reverse[out'[1]] = out'[2]
<1>1. PICK c \in CPU : Check(c) \/ Repair(c)
  BY DEF Next, Step, vars, Receive, Probe, Claim, Bind, Look, EvictForward, EvictReverse, Switch
<1> DEFINE a == cpu[c]
<1>2. reverse[a.tuple] = a.flow /\ out' = <<a.tuple, a.flow>>
  BY <1>1 DEF Check, Repair, Emit, Forget, reverse_matches
<1>3. out'[1] = a.tuple /\ out'[2] = a.flow
  BY <1>2
<1> QED
  BY <1>2, <1>3

\* SentByOwner for every value of the constants.
THEOREM OwnersSend == Spec => SentByOwner
<1>1. [Next]_vars => [out' # out => reverse[out'[1]] = out'[2]]_vars
  BY StepOwner
<1> QED
  BY <1>1, PTL DEF Spec, SentByOwner

-----------------------------------------------------------------------------
(* Activation: the inductive invariant *)

\* The interfaces there may be.
Dev == {r.dev : r \in Route}

\* A collection, and a call of Reconcile in progress.
Collection ==
  [open : BOOLEAN, tables : Snapshot \cup {None}, links : SUBSET Dev,
   watch : {"off", "wait", "read"}, seen : SUBSET Dev]
Calls ==
  [pc : {"idle", "publish", "discover", "attach", "swap", "retire", "close"},
   want : Snapshot \cup {None}, new : Nat, seen : SUBSET Dev, fatal : BOOLEAN]

\* What serves is open, what serves or is watched was filled, and a watcher that has read
\* the routes knows of the steady uplinks.
Sound(c) ==
  /\ c.links # {} => c.open /\ c.tables # None
  /\ c.watch # "off" => c.tables # None
  /\ c.watch = "read" => Plane!Steady \subseteq c.seen

Blank(c) == ~c.open /\ c.links = {} /\ c.watch = "off"

\* The collections after n calls: one for each call at most.
Collections(f, n) ==
  /\ f \in [Plane!State -> Collection]
  /\ \A p \in Plane!State : Sound(f[p]) /\ (p > n => Blank(f[p]))

\* Collection k holds r.tables and, while open, covers the steady uplinks.
Serves(f, k, t) ==
  /\ k = 0 <=> t = None
  /\ k # 0 => f[k].tables = t /\ (f[k].open => Plane!Steady \subseteq f[k].links)

\* Nothing but the collections in S is open or attached.
Confined(f, S) == \A p \in Plane!State : f[p].open \/ f[p].links # {} => p \in S

\* The collection that a call works on, but for the one it closes.
Work(c) == IF c.pc \in {"publish", "discover", "attach", "swap", "retire"} THEN {c.new} ELSE {}

\* Types of the rest of the state.
PlaneType ==
  /\ Permanent \subseteq table /\ table \subseteq Route
  /\ tables \in Snapshot \cup {None} /\ served \in Snapshot \cup {None}
  /\ call \in Calls /\ calls \in 0..MaxCalls /\ current \in 0..calls

\* A call that brings up a new collection has opened it, has filled it before it looks
\* for interfaces, and then covers the steady uplinks; the current one is open still.
Raising ==
  call.pc \in {"publish", "discover", "attach", "swap"} /\ call.new # current =>
    /\ call.new \in 1..calls /\ call.want # None /\ plane[call.new].open
    /\ plane[call.new].watch = "off"
    /\ call.pc = "publish" => plane[call.new].links = {}
    /\ call.pc # "publish" => /\ plane[call.new].tables = call.want
                              /\ current # 0 => plane[current].open
    /\ call.pc = "swap" => Plane!Steady \subseteq plane[call.new].links

\* A call that refreshes the current collection was asked for what that one holds.
Refreshing ==
  /\ call.pc \in {"discover", "attach"} /\ call.new = current => current # 0 /\ call.want = tables
  /\ call.pc \in {"publish", "swap"} => call.new # current
  /\ call.pc = "attach" => Plane!Steady \subseteq call.seen

\* A call that retires the collection before has succeeded; an empty snapshot closes one.
Ending ==
  /\ call.pc = "retire" =>
       /\ call.new \in 1..calls /\ call.new # current /\ current # 0
       /\ served = tables /\ plane[current].open
  /\ call.pc = "close" => current # 0

\* The inductive invariant.
PlaneInv ==
  /\ PlaneType
  /\ Collections(plane, calls)
  /\ Serves(plane, current, tables)
  /\ Confined(plane, {current} \cup Work(call))
  /\ Raising /\ Refreshing /\ Ending
  /\ Plane!SuccessServes
-----------------------------------------------------------------------------
(* Activation: routes and collections *)

\* The constants of Dataplane.
LEMMA PlaneConstants == None \notin Snapshot /\ Permanent \subseteq Route /\ MaxCalls \in Nat
BY ActivationAssumption DEF Plane!DataplaneAssumption

\* Discovery finds the steady uplinks, whose interfaces exist (routeInterfaces).
LEMMA SteadyFound ==
  ASSUME Permanent \subseteq table, table \subseteq Route
  PROVE  /\ Plane!Steady \subseteq Plane!routes /\ Plane!Steady \subseteq Plane!Devices
         /\ Plane!routes \subseteq Dev /\ Plane!Devices \subseteq Dev
<1> DEFINE more == table \ Permanent
<1>1. more \in SUBSET (Route \ Permanent) /\ table = Permanent \cup more
  OBVIOUS
<1>2. ASSUME NEW i \in Plane!Steady PROVE i \in Plane!routes /\ i \in Plane!Devices
  <2>1. PICK x \in Permanent : /\ i = x.dev
                               /\ \A m \in SUBSET (Route \ Permanent) :
                                    x.dev \in Plane!routeInterfaces(Permanent \cup m)
    BY DEF Plane!Steady
  <2>2. x.dev \in Plane!routeInterfaces(Permanent \cup more)
    BY <1>1, <2>1
  <2>3. i \in Plane!routes
    BY <1>1, <2>1, <2>2 DEF Plane!routes
  <2>4. i \in Plane!Devices
    BY <2>1 DEF Plane!Devices
  <2> QED BY <2>3, <2>4
<1>3. Plane!Devices \subseteq Dev
  BY DEF Plane!Devices, Dev
<1>4. Plane!routes \subseteq Dev
  BY DEF Plane!routes, Plane!routeInterfaces, Dev
<1> QED BY <1>2, <1>3, <1>4

\* refresh keeps a covered steady uplink covered, whatever it attaches before it fails.
LEMMA RefreshCovers ==
  ASSUME NEW links \in SUBSET Dev, NEW seen \in SUBSET Dev, Plane!Steady \subseteq seen,
         NEW l \in Plane!Refreshed(links, seen)
  PROVE  l \in SUBSET Dev /\ (Plane!Steady \subseteq links => Plane!Steady \subseteq l)
BY DEF Plane!Refreshed

\* A collection is replaced by a sound one.
LEMMA UpdateCollections ==
  ASSUME NEW f, NEW n \in Nat, Collections(f, n), NEW p \in Plane!State, p <= n,
         NEW c \in Collection, Sound(c)
  PROVE  Collections([f EXCEPT ![p] = c], n)
<1> DEFINE g == [f EXCEPT ![p] = c]
<1>1. f \in [Plane!State -> Collection]
  BY DEF Collections
<1>2. g \in [Plane!State -> Collection]
  BY <1>1
<1>3. ASSUME NEW q \in Plane!State PROVE Sound(g[q]) /\ (q > n => Blank(g[q]))
  <2>1. CASE q = p
    <3>1. g[q] = c
      BY <1>1, <2>1
    <3>2. ~(q > n)
      BY <2>1, SMT DEF Plane!State
    <3> QED BY <3>1, <3>2
  <2>2. CASE q # p
    BY <1>1, <2>2 DEF Collections
  <2> QED BY <2>1, <2>2
<1> QED BY <1>2, <1>3 DEF Collections

\* A closed collection is sound: it serves nothing.
LEMMA ClosedSound ==
  ASSUME plane \in [Plane!State -> Collection], NEW p \in Plane!State, Sound(plane[p])
  PROVE  /\ Plane!Closed(p) \in Collection /\ Sound(Plane!Closed(p))
         /\ ~Plane!Closed(p).open /\ Plane!Closed(p).links = {}
         /\ Plane!Closed(p).tables = plane[p].tables
<1> DEFINE w == IF plane[p].watch = "read" THEN "read" ELSE "off"
           d == [plane[p] EXCEPT !.open = FALSE, !.links = {}, !.watch = w]
<1>1. w \in {"off", "wait", "read"} /\ plane[p] \in Collection
  OBVIOUS
<1>2. Plane!Closed(p) = d
  BY DEF Plane!Closed
<1>3. /\ d \in Collection /\ ~d.open /\ d.links = {} /\ d.watch = w
      /\ d.tables = plane[p].tables /\ d.seen = plane[p].seen
  <2> HIDE DEF w
  <2> QED BY <1>1 DEF Collection
<1>4. Sound(d)
  <2> HIDE DEF d
  <2> QED BY <1>3 DEF Sound
<1> QED BY <1>2, <1>3, <1>4

\* Nothing is served and no call is in progress after the process has ended.
LEMMA ExitKeeps ==
  ASSUME PlaneInv, Plane!Exit, UNCHANGED <<table, calls>>
  PROVE  PlaneInv'
<1> USE DEF PlaneInv
<1>1. PlaneType'
  BY SMT DEF PlaneType, Plane!Exit, Plane!NoCall, Calls
<1>2. /\ plane' = [p \in Plane!State |-> Plane!Unused]
      /\ current' = 0 /\ tables' = None /\ call' = Plane!NoCall /\ served' = None
  BY DEF Plane!Exit
<1>3. /\ Plane!Unused \in Collection /\ Blank(Plane!Unused) /\ Sound(Plane!Unused)
  BY DEF Plane!Unused, Collection, Blank, Sound
<1>4. Collections(plane, calls)'
  BY <1>2, <1>3 DEF Collections
<1>5. call'.pc = "idle"
  BY <1>2 DEF Plane!NoCall
<1>6. Serves(plane, current, tables)'
  BY <1>2 DEF Serves
<1>7. Confined(plane, {current} \cup Work(call))'
  BY <1>2, <1>3 DEF Confined, Blank
<1>8. Raising' /\ Refreshing' /\ Ending'
  BY <1>5 DEF Raising, Refreshing, Ending
<1>9. Plane!SuccessServes'
  BY <1>2 DEF Plane!SuccessServes
<1> QED BY <1>1, <1>4, <1>6, <1>7, <1>8, <1>9

\* Reconcile that returns an error ends the process or leaves the current collection.
LEMMA FailedKeeps ==
  ASSUME PlaneInv, NEW after, Plane!Failed(after), UNCHANGED <<table, calls>>,
         Collections(after, calls), Serves(after, current, tables), Confined(after, {current})
  PROVE  PlaneInv'
<1>1. CASE call.fatal
  BY <1>1, ExitKeeps DEF Plane!Failed
<1>2. CASE ~call.fatal
  <2>1. /\ plane' = after /\ call' = Plane!NoCall /\ served' = None
        /\ UNCHANGED <<current, tables, table, calls>>
    BY <1>2 DEF Plane!Failed
  <2>2. call' \in Calls /\ call'.pc = "idle"
    BY <2>1 DEF Plane!NoCall, Calls
  <2>3. PlaneType'
    BY <2>1, <2>2 DEF PlaneInv, PlaneType
  <2>4. Confined(plane, {current} \cup Work(call))'
    BY <2>1 DEF Confined
  <2>5. Raising' /\ Refreshing' /\ Ending'
    BY <2>2 DEF Raising, Refreshing, Ending
  <2>6. Plane!SuccessServes'
    BY <2>1 DEF Plane!SuccessServes
  <2> QED BY <2>1, <2>3, <2>4, <2>5, <2>6 DEF PlaneInv, Collections, Serves
<1> QED BY <1>1, <1>2

\* What a failed call leaves when it closes the collection it was bringing up.
LEMMA AbandonedKeeps ==
  ASSUME PlaneInv, call.pc \in {"publish", "discover", "attach", "swap"}
  PROVE  /\ Collections(Plane!Abandoned, calls)
         /\ Serves(Plane!Abandoned, current, tables)
         /\ Confined(Plane!Abandoned, {current})
<1> DEFINE n == call.new
           closed == [plane EXCEPT ![n] = Plane!Closed(n)]
<1>0. /\ Collections(plane, calls) /\ Serves(plane, current, tables)
      /\ Confined(plane, {current, n}) /\ calls \in Nat
  BY SMT DEF PlaneInv, PlaneType, Work
<1>1. CASE n = current
  BY <1>0, <1>1 DEF Plane!Abandoned
<1>2. CASE n # current
  <2>1. n \in Plane!State /\ n <= calls /\ (current # 0 => current \in Plane!State)
    BY <1>2, PlaneConstants, SMT DEF PlaneInv, PlaneType, Raising, Plane!State
  <2>2. plane \in [Plane!State -> Collection] /\ Sound(plane[n])
    BY <1>0, <2>1 DEF Collections
  <2>3. /\ Plane!Closed(n) \in Collection /\ Sound(Plane!Closed(n))
        /\ ~Plane!Closed(n).open /\ Plane!Closed(n).links = {}
    BY <2>1, <2>2, ClosedSound
  <2>4. Plane!Abandoned = closed
    BY <1>2 DEF Plane!Abandoned
  <2>5. Collections(closed, calls)
    BY <1>0, <2>1, <2>3, UpdateCollections
  <2>6. Serves(closed, current, tables)
    BY <1>0, <1>2, <2>1, <2>2 DEF Serves
  <2>7. Confined(closed, {current})
    BY <1>0, <1>2, <2>1, <2>2, <2>3 DEF Confined
  <2> QED BY <2>4, <2>5, <2>6, <2>7
<1> QED BY <1>1, <1>2

-----------------------------------------------------------------------------
(* Activation: one lemma per step *)

\* What the invariant says of the collections and of the numbers in use.
LEMMA PlaneFacts ==
  ASSUME PlaneInv
  PROVE  /\ plane \in [Plane!State -> Collection] /\ Collections(plane, calls)
         /\ \A p \in Plane!State : plane[p] \in Collection /\ Sound(plane[p])
         /\ calls \in Nat /\ call \in Calls /\ 0 \notin Plane!State
         /\ current \in Nat /\ current <= calls /\ (current # 0 => current \in Plane!State)
         /\ Permanent \subseteq table /\ table \subseteq Route
<1>1. /\ calls \in Nat /\ call \in Calls /\ 0 \notin Plane!State
      /\ current \in Nat /\ current <= calls /\ (current # 0 => current \in Plane!State)
      /\ Permanent \subseteq table /\ table \subseteq Route
  BY PlaneConstants, SMT DEF PlaneInv, PlaneType, Plane!State
<1>2. Collections(plane, calls)
  BY DEF PlaneInv
<1> QED BY <1>1, <1>2 DEF Collections

\* The number of a new call is that of an unused collection.
LEMMA NewNumber ==
  ASSUME PlaneInv, calls < MaxCalls
  PROVE  /\ calls + 1 \in Plane!State /\ calls + 1 \in 0..MaxCalls /\ calls + 1 > calls
         /\ calls + 1 # current /\ calls + 1 # 0 /\ calls + 1 \in Nat
         /\ \A k \in 0..calls : k \in 0..(calls + 1)
BY PlaneConstants, SMT DEF PlaneInv, PlaneType, Plane!State

\* One more call leaves one number less unused.
LEMMA MoreCalls ==
  ASSUME NEW f, NEW n \in Nat, Collections(f, n)
  PROVE  Collections(f, n + 1)
<1>1. ASSUME NEW p \in Plane!State, p > n + 1 PROVE p > n
  BY <1>1, PlaneConstants, SMT DEF Plane!State
<1> QED BY <1>1 DEF Collections

\* A call begins: there is nothing to do, or a collection is refreshed, closed or opened.
LEMMA BeginKeeps ==
  ASSUME PlaneInv, NEW s \in Snapshot \cup {None}, NEW fatal \in BOOLEAN, Plane!Begin(s, fatal)
  PROVE  PlaneInv'
<1>0. /\ call.pc = "idle" /\ calls < MaxCalls /\ calls' = calls + 1
      /\ UNCHANGED <<table, current, tables>>
  BY DEF Plane!Begin
<1>1. Collections(plane, calls + 1)
  BY PlaneFacts, MoreCalls
<1>2. /\ Permanent \subseteq table' /\ table' \subseteq Route
      /\ tables' \in Snapshot \cup {None}
      /\ calls' \in 0..MaxCalls /\ current' \in 0..calls'
  BY <1>0, NewNumber DEF PlaneInv, PlaneType
<1>3. Work(call) = {}
  BY <1>0 DEF Work
<1>4. Confined(plane, {current}) /\ Serves(plane, current, tables) /\ served \in Snapshot \cup {None}
  BY <1>3 DEF PlaneInv, PlaneType
<1>5. CASE s = tables /\ current = 0
  <2>1. UNCHANGED <<plane, call, served>>
    BY <1>5 DEF Plane!Begin
  <2>2. PlaneType'
    BY <1>2, <2>1 DEF PlaneInv, PlaneType
  <2>3. Raising' /\ Refreshing' /\ Ending'
    BY <1>0, <2>1 DEF Raising, Refreshing, Ending
  <2>4. Collections(plane, calls)' /\ Serves(plane, current, tables)'
    BY <1>0, <1>1, <1>4, <2>1 DEF Collections, Serves
  <2>5. Confined(plane, {current} \cup Work(call))'
    BY <1>0, <2>1 DEF PlaneInv, Confined, Work
  <2>6. Plane!SuccessServes'
    BY <1>0, <2>1 DEF PlaneInv, Plane!SuccessServes
  <2> QED BY <2>2, <2>3, <2>4, <2>5, <2>6 DEF PlaneInv
<1>6. CASE s = tables /\ current # 0
  <2>1. /\ call' = [pc |-> "discover", want |-> s, new |-> current, seen |-> {}, fatal |-> fatal]
        /\ UNCHANGED <<plane, served>>
    BY <1>6 DEF Plane!Begin
  <2>2. call' \in Calls /\ call'.pc = "discover" /\ call'.new = current /\ call'.want = s
    BY <2>1, PlaneFacts DEF Calls
  <2>3. PlaneType'
    BY <1>2, <1>4, <2>1, <2>2 DEF PlaneType
  <2>4. Raising' /\ Refreshing' /\ Ending'
    BY <1>0, <1>6, <2>1, <2>2 DEF Raising, Refreshing, Ending
  <2>5. Collections(plane, calls)' /\ Serves(plane, current, tables)'
    BY <1>0, <1>1, <1>4, <2>1 DEF Collections, Serves
  <2>6. Confined(plane, {current} \cup Work(call))'
    BY <1>0, <1>4, <2>1 DEF Confined
  <2>7. Plane!SuccessServes'
    BY <2>2 DEF Plane!SuccessServes
  <2> QED BY <2>3, <2>4, <2>5, <2>6, <2>7 DEF PlaneInv
<1>7. CASE s # tables /\ s = None
  <2>1. call' = [Plane!NoCall EXCEPT !.pc = "close", !.fatal = fatal] /\ UNCHANGED <<plane, served>>
    BY <1>7 DEF Plane!Begin
  <2>2. call' \in Calls /\ call'.pc = "close"
    BY <2>1 DEF Calls, Plane!NoCall
  <2>3. PlaneType'
    BY <1>2, <1>4, <2>1, <2>2 DEF PlaneType
  <2>4. current # 0
    BY <1>4, <1>7 DEF Serves
  <2>5. Raising' /\ Refreshing' /\ Ending'
    BY <1>0, <2>2, <2>4 DEF Raising, Refreshing, Ending
  <2>6. Collections(plane, calls)' /\ Serves(plane, current, tables)'
    BY <1>0, <1>1, <1>4, <2>1 DEF Collections, Serves
  <2>7. Confined(plane, {current} \cup Work(call))'
    BY <1>0, <1>4, <2>1 DEF Confined
  <2>8. Plane!SuccessServes'
    BY <2>2 DEF Plane!SuccessServes
  <2> QED BY <2>3, <2>5, <2>6, <2>7, <2>8 DEF PlaneInv
<1>8. CASE s # tables /\ s # None
  <2> DEFINE n == calls + 1
             c == [plane[n] EXCEPT !.open = TRUE]
  <2>1. /\ call' = [pc |-> "publish", want |-> s, new |-> n, seen |-> {}, fatal |-> fatal]
        /\ plane' = [plane EXCEPT ![n] = c] /\ UNCHANGED served
    BY <1>8 DEF Plane!Begin, Plane!FirstStep
  <2>2. /\ n \in Plane!State /\ n # current /\ n # 0 /\ n \in Nat /\ n > calls
        /\ n \in 1..n
    BY <1>0, NewNumber, PlaneFacts, SMT
  <2>3. call' \in Calls /\ call'.pc = "publish" /\ call'.new = n /\ call'.want = s
    BY <2>1, <2>2 DEF Calls
  <2>4. plane[n] \in Collection /\ Blank(plane[n]) /\ Sound(plane[n])
    BY <2>2, PlaneFacts DEF Collections
  <2>5. /\ c \in Collection /\ c.open /\ c.links = {} /\ c.watch = "off"
    BY <2>4 DEF Collection, Blank
  <2>6. Sound(c)
    BY <2>5 DEF Sound
  <2> HIDE DEF c
  <2>7. Collections(plane, calls)'
    <3>1. n <= n
      BY <2>2, SMT
    <3> QED BY <1>0, <1>1, <2>1, <2>2, <2>5, <2>6, <3>1, UpdateCollections
  <2>8. plane'[n] = c /\ \A p \in Plane!State : p # n => plane'[p] = plane[p]
    BY <2>1, <2>2, PlaneFacts
  <2>9. PlaneType'
    BY <1>2, <1>4, <2>1, <2>3 DEF PlaneType
  <2>10. Serves(plane, current, tables)'
    BY <1>0, <1>4, <2>2, <2>8, PlaneFacts DEF Serves
  <2>11. Confined(plane, {current} \cup Work(call))'
    BY <1>0, <1>4, <2>3, <2>8 DEF Confined, Work
  <2>12. Raising'
    BY <1>0, <1>8, <2>2, <2>3, <2>5, <2>8 DEF Raising
  <2>13. Refreshing' /\ Ending'
    BY <1>0, <2>2, <2>3 DEF Refreshing, Ending
  <2>14. Plane!SuccessServes'
    BY <2>3 DEF Plane!SuccessServes
  <2> QED BY <2>7, <2>9, <2>10, <2>11, <2>12, <2>13, <2>14 DEF PlaneInv
<1> QED BY <1>5, <1>6, <1>7, <1>8

\* A collection is filled, unless the flow maps cannot be taken over.
LEMMA PublishKeeps == PlaneInv /\ Plane!Publish => PlaneInv'
<1> SUFFICES ASSUME PlaneInv, Plane!Publish PROVE PlaneInv'
  OBVIOUS
<1> DEFINE n == call.new
           c == [plane[n] EXCEPT !.tables = call.want]
<1>0. call.pc = "publish" /\ UNCHANGED <<table, calls>>
  BY DEF Plane!Publish
<1>1. CASE ~Plane!Loadable
  BY <1>0, <1>1, AbandonedKeeps, FailedKeeps DEF Plane!Publish
<1>2. CASE Plane!Loadable
  <2>1. /\ plane' = [plane EXCEPT ![n] = c] /\ call' = [call EXCEPT !.pc = "discover"]
        /\ UNCHANGED <<current, tables, served>>
    BY <1>2 DEF Plane!Publish
  <2>2. n # current
    BY <1>0 DEF PlaneInv, Refreshing
  <2>3. /\ n \in 1..calls /\ call.want # None /\ plane[n].open
        /\ plane[n].watch = "off" /\ plane[n].links = {}
    BY <1>0, <2>2 DEF PlaneInv, Raising
  <2>4. n \in Plane!State /\ n <= calls
    BY <2>3, PlaneConstants, SMT DEF PlaneInv, PlaneType, Plane!State
  <2>5. plane[n] \in Collection /\ call \in Calls /\ call.want \in Snapshot \cup {None}
    BY <2>4, PlaneFacts DEF Calls
  <2>6. c \in Collection /\ c.tables = call.want /\ c.open /\ c.watch = "off" /\ c.links = {}
    BY <2>3, <2>5 DEF Collection
  <2>7. Sound(c)
    BY <2>6 DEF Sound
  <2>8. call' \in Calls /\ call'.pc = "discover" /\ call'.new = n /\ call'.want = call.want
    BY <2>1, <2>5 DEF Calls
  <2> HIDE DEF c
  <2>9. Collections(plane, calls)'
    BY <1>0, <2>1, <2>4, <2>6, <2>7, PlaneFacts, UpdateCollections
  <2>10. plane'[n] = c /\ \A p \in Plane!State : p # n => plane'[p] = plane[p]
    BY <2>1, <2>4, PlaneFacts
  <2>11. PlaneType'
    BY <1>0, <2>1, <2>8 DEF PlaneInv, PlaneType
  <2>12. Serves(plane, current, tables)'
    BY <2>1, <2>2, <2>10, PlaneFacts DEF PlaneInv, Serves
  <2>13. Confined(plane, {current} \cup Work(call))'
    BY <1>0, <2>1, <2>8, <2>10 DEF PlaneInv, Confined, Work
  <2>14. current # 0 => plane'[current].open
    BY <1>2, <2>2, <2>10, PlaneFacts DEF Plane!Loadable
  <2>15. Raising'
    BY <1>0, <2>1, <2>3, <2>6, <2>8, <2>10, <2>14 DEF Raising
  <2>16. Refreshing' /\ Ending' /\ Plane!SuccessServes'
    BY <2>1, <2>2, <2>8 DEF Refreshing, Ending, Plane!SuccessServes
  <2> QED BY <2>9, <2>11, <2>12, <2>13, <2>15, <2>16 DEF PlaneInv
<1> QED BY <1>1, <1>2

\* The routes are read.
LEMMA DiscoverKeeps == PlaneInv /\ Plane!Discover => PlaneInv'
<1> SUFFICES ASSUME PlaneInv, Plane!Discover PROVE PlaneInv'
  OBVIOUS
<1>1. /\ call.pc = "discover" /\ call' = [call EXCEPT !.pc = "attach", !.seen = Plane!routes]
      /\ UNCHANGED <<table, plane, current, tables, served, calls>>
  BY DEF Plane!Discover
<1>2. Plane!routes \in SUBSET Dev /\ Plane!Steady \subseteq Plane!routes
  BY PlaneFacts, SteadyFound
<1>3. /\ call' \in Calls /\ call'.pc = "attach" /\ call'.new = call.new
      /\ call'.want = call.want /\ call'.seen = Plane!routes
  BY <1>1, <1>2, PlaneFacts DEF Calls
<1>4. PlaneType'
  BY <1>1, <1>3 DEF PlaneInv, PlaneType
<1>5. Collections(plane, calls)' /\ Serves(plane, current, tables)'
  BY <1>1 DEF PlaneInv, Collections, Serves
<1>6. Confined(plane, {current} \cup Work(call))'
  BY <1>1, <1>3 DEF PlaneInv, Confined, Work
<1>7. Raising'
  BY <1>1, <1>3 DEF PlaneInv, Raising
<1>8. Refreshing' /\ Ending' /\ Plane!SuccessServes'
  BY <1>1, <1>2, <1>3 DEF PlaneInv, Refreshing, Ending, Plane!SuccessServes
<1> QED BY <1>4, <1>5, <1>6, <1>7, <1>8 DEF PlaneInv

\* The links of a collection that is open and filled change.
LEMMA LinksSound ==
  ASSUME NEW c \in Collection, NEW l \in SUBSET Dev, Sound(c), c.open, c.tables # None
  PROVE  LET d == [c EXCEPT !.links = l]
         IN  /\ d \in Collection /\ Sound(d)
             /\ d.links = l /\ d.open /\ d.tables = c.tables /\ d.watch = c.watch
<1> DEFINE d == [c EXCEPT !.links = l]
<1>1. /\ d \in Collection /\ d.links = l /\ d.open /\ d.tables = c.tables
      /\ d.watch = c.watch /\ d.seen = c.seen
  BY DEF Collection
<1> HIDE DEF d
<1>2. Sound(d)
  BY <1>1 DEF Sound
<1> QED BY <1>1, <1>2 DEF d

\* refresh attaches the collection of the call, or fails on an interface that is gone.
LEMMA AttachKeeps == PlaneInv /\ Plane!Attach => PlaneInv'
<1> SUFFICES ASSUME PlaneInv, Plane!Attach PROVE PlaneInv'
  OBVIOUS
<1> DEFINE n == call.new
           Links(l) == [plane[n] EXCEPT !.links = l]
<1>0. /\ call.pc = "attach" /\ UNCHANGED <<table, calls>>
      /\ Plane!Steady \subseteq call.seen /\ call.seen \in SUBSET Dev
  BY PlaneFacts DEF Plane!Attach, PlaneInv, Refreshing, Calls
<1>1. /\ n \in Plane!State /\ n <= calls
      /\ plane[n] \in Collection /\ Sound(plane[n])
      /\ plane[n].tables = call.want /\ call.want # None
  <2>1. CASE n = current
    <3>1. current # 0 /\ call.want = tables
      BY <1>0, <2>1 DEF PlaneInv, Refreshing
    <3> QED BY <2>1, <3>1, PlaneFacts DEF PlaneInv, Serves
  <2>2. CASE n # current
    <3>1. n \in 1..calls /\ plane[n].tables = call.want /\ call.want # None
      BY <1>0, <2>2 DEF PlaneInv, Raising
    <3>2. n \in Plane!State /\ n <= calls
      BY <3>1, PlaneConstants, SMT DEF PlaneInv, PlaneType, Plane!State
    <3> QED BY <3>1, <3>2, PlaneFacts
  <2> QED BY <2>1, <2>2
<1>2. ASSUME plane[n].open, NEW l \in SUBSET Dev
      PROVE  /\ Links(l) \in Collection /\ Sound(Links(l)) /\ Links(l).links = l /\ Links(l).open
             /\ Links(l).tables = call.want /\ Links(l).watch = plane[n].watch
  BY <1>1, <1>2, LinksSound
<1> HIDE DEF Links
<1>3. ASSUME NEW f, NEW l \in SUBSET Dev, plane[n].open, f = [plane EXCEPT ![n] = Links(l)]
      PROVE  /\ Collections(f, calls) /\ f[n] = Links(l)
             /\ \A p \in Plane!State : p # n => f[p] = plane[p]
             /\ Confined(f, {current, n})
  <2>1. Collections(f, calls)
    BY <1>1, <1>2, <1>3, PlaneFacts, UpdateCollections
  <2>2. f[n] = Links(l) /\ \A p \in Plane!State : p # n => f[p] = plane[p]
    BY <1>1, <1>3, PlaneFacts
  <2>3. Confined(f, {current, n})
    BY <1>0, <2>2 DEF PlaneInv, Confined, Work
  <2> QED BY <2>1, <2>2, <2>3
<1>4. CASE ~Plane!Stale(call.seen) /\ plane[n].open
  <2>1. /\ plane' = [plane EXCEPT ![n] = Links(call.seen)] /\ UNCHANGED <<current, tables>>
        /\ IF Plane!AfterAttach(n) = "idle" THEN call' = Plane!NoCall /\ served' = call.want
           ELSE call' = [call EXCEPT !.pc = "swap"] /\ UNCHANGED served
    BY <1>4 DEF Plane!Attach, Links
  <2>2. /\ Collections(plane, calls)' /\ plane'[n] = Links(call.seen)
        /\ \A p \in Plane!State : p # n => plane'[p] = plane[p]
        /\ Confined(plane', {current, n})
    <3>1. call.seen \in SUBSET Dev /\ plane[n].open /\ plane' = [plane EXCEPT ![n] = Links(call.seen)]
      BY <1>0, <1>4, <2>1
    <3>2. Collections(plane', calls)
      BY <1>3, <3>1
    <3>3. /\ plane'[n] = Links(call.seen) /\ \A p \in Plane!State : p # n => plane'[p] = plane[p]
          /\ Confined(plane', {current, n})
      BY <1>3, <3>1
    <3> QED BY <1>0, <3>2, <3>3
  <2>3. /\ plane'[n].links = call.seen /\ plane'[n].open
        /\ plane'[n].tables = call.want /\ plane'[n].watch = plane[n].watch
    <3>1. call.seen \in SUBSET Dev /\ plane[n].open
      BY <1>0, <1>4
    <3> QED BY <1>2, <2>2, <3>1
  <2>4. CASE n = current
    <3>1. call' = Plane!NoCall /\ served' = call.want
      BY <2>1, <2>4 DEF Plane!AfterAttach
    <3>2. call' \in Calls /\ call'.pc = "idle"
      BY <3>1 DEF Plane!NoCall, Calls
    <3>3. PlaneType'
      BY <1>0, <2>1, <3>1, <3>2, PlaneFacts DEF PlaneInv, PlaneType, Calls
    <3>4. current # 0 /\ call.want = tables
      BY <1>0, <2>4 DEF PlaneInv, Refreshing
    <3>5. Serves(plane, current, tables)'
      BY <1>0, <1>1, <2>1, <2>3, <2>4, <3>4 DEF Serves
    <3>6. Confined(plane, {current} \cup Work(call))'
      BY <2>1, <2>2, <2>4 DEF Confined
    <3>7. Raising' /\ Refreshing' /\ Ending'
      BY <3>2 DEF Raising, Refreshing, Ending
    <3>8. Plane!SuccessServes'
      BY <2>1, <2>3, <2>4, <3>1, <3>4 DEF Plane!SuccessServes
    <3> QED BY <2>2, <3>3, <3>5, <3>6, <3>7, <3>8 DEF PlaneInv
  <2>5. CASE n # current
    <3>1. call' = [call EXCEPT !.pc = "swap"] /\ UNCHANGED served
      BY <2>1, <2>5 DEF Plane!AfterAttach
    <3>2. call' \in Calls /\ call'.pc = "swap" /\ call'.new = n /\ call'.want = call.want
      BY <3>1, PlaneFacts DEF Calls
    <3>3. PlaneType'
      BY <1>0, <2>1, <3>1, <3>2 DEF PlaneInv, PlaneType
    <3>4. Serves(plane, current, tables)'
      BY <2>1, <2>2, <2>5, PlaneFacts DEF PlaneInv, Serves
    <3>5. Confined(plane, {current} \cup Work(call))'
      BY <2>1, <2>2, <3>2 DEF Confined, Work
    <3>6. /\ n \in 1..calls /\ plane[n].watch = "off" /\ (current # 0 => plane[current].open)
      BY <1>0, <2>5 DEF PlaneInv, Raising
    <3>7. current # 0 => plane'[current].open
      BY <2>2, <2>5, <3>6, PlaneFacts
    <3>8. Raising'
      BY <1>0, <1>1, <2>1, <2>3, <3>2, <3>6, <3>7 DEF Raising
    <3>9. Refreshing' /\ Ending' /\ Plane!SuccessServes'
      BY <2>1, <2>5, <3>2 DEF Refreshing, Ending, Plane!SuccessServes
    <3> QED BY <2>2, <3>3, <3>4, <3>5, <3>8, <3>9 DEF PlaneInv
  <2> QED BY <2>4, <2>5
<1>5. CASE Plane!Stale(call.seen) /\ plane[n].open /\ n # current
  BY <1>0, <1>5, AbandonedKeeps, FailedKeeps DEF Plane!Attach
<1>6. CASE Plane!Stale(call.seen) /\ plane[n].open /\ n = current
  <2> DEFINE after(l) == [plane EXCEPT ![n] = Links(l)]
  <2>1. PICK l \in Plane!Refreshed(plane[n].links, call.seen) : Plane!Failed(after(l))
    BY <1>6 DEF Plane!Attach, Links
  <2>2. plane[n].links \in SUBSET Dev
    BY <1>1 DEF Collection
  <2>3. l \in SUBSET Dev /\ (Plane!Steady \subseteq plane[n].links => Plane!Steady \subseteq l)
    BY <1>0, <2>2, RefreshCovers
  <2>4. /\ Collections(after(l), calls) /\ after(l)[n] = Links(l)
        /\ Confined(after(l), {current})
    BY <1>3, <1>6, <2>3
  <2>5. Links(l).links = l /\ Links(l).open /\ Links(l).tables = call.want
    BY <1>2, <1>6, <2>3
  <2>6. call.want = tables /\ current # 0
    BY <1>0, <1>6 DEF PlaneInv, Refreshing
  <2>7. Serves(after(l), current, tables)
    BY <1>6, <2>3, <2>4, <2>5, <2>6 DEF PlaneInv, Serves
  <2> QED BY <1>0, <2>1, <2>4, <2>7, FailedKeeps
<1>7. CASE ~plane[n].open
  <2>1. n = current
    BY <1>0, <1>7 DEF PlaneInv, Raising
  <2>2. Confined(plane, {current})
    BY <1>0, <2>1 DEF PlaneInv, Confined, Work
  <2>3. Plane!Failed(plane)
    BY <1>7 DEF Plane!Attach
  <2> QED BY <1>0, <2>2, <2>3, FailedKeeps DEF PlaneInv
<1> QED BY <1>4, <1>5, <1>6, <1>7

\* r.state and r.tables change hands and the watcher starts.
LEMMA SwapKeeps == PlaneInv /\ Plane!Swap => PlaneInv'
<1> SUFFICES ASSUME PlaneInv, Plane!Swap PROVE PlaneInv'
  OBVIOUS
<1> DEFINE n == call.new
           c == [plane[n] EXCEPT !.watch = "wait"]
<1>1. /\ call.pc = "swap" /\ current' = n /\ tables' = call.want /\ served' = call.want
      /\ plane' = [plane EXCEPT ![n] = c]
      /\ call' = IF current = 0 THEN Plane!NoCall
                 ELSE [call EXCEPT !.pc = "retire", !.new = current]
      /\ UNCHANGED <<table, calls>>
  BY DEF Plane!Swap
<1>2. n # current
  BY <1>1 DEF PlaneInv, Refreshing
<1>3. /\ n \in 1..calls /\ call.want # None /\ plane[n].open /\ plane[n].tables = call.want
      /\ Plane!Steady \subseteq plane[n].links
  BY <1>1, <1>2 DEF PlaneInv, Raising
<1>4. n \in Plane!State /\ n <= calls /\ n \in 0..calls /\ n # 0
  BY <1>3, PlaneConstants, SMT DEF PlaneInv, PlaneType, Plane!State
<1>5. plane[n] \in Collection /\ Sound(plane[n]) /\ call.want \in Snapshot \cup {None}
  BY <1>4, PlaneFacts DEF Calls
<1>6. /\ c \in Collection /\ c.open /\ c.tables = call.want /\ c.watch = "wait"
      /\ c.links = plane[n].links
  BY <1>3, <1>5 DEF Collection
<1>7. Sound(c)
  BY <1>3, <1>6 DEF Sound
<1> HIDE DEF c
<1>8. Collections(plane, calls)'
  BY <1>1, <1>4, <1>6, <1>7, PlaneFacts, UpdateCollections
<1>9. plane'[n] = c /\ \A p \in Plane!State : p # n => plane'[p] = plane[p]
  BY <1>1, <1>4, PlaneFacts
<1>10. Serves(plane, current, tables)'
  BY <1>1, <1>3, <1>4, <1>6, <1>9 DEF Serves
<1>11. Confined(plane', {current, n})
  BY <1>1, <1>9 DEF PlaneInv, Confined, Work
<1>12. CASE current = 0
  <2>1. call' \in Calls /\ call'.pc = "idle"
    BY <1>1, <1>12 DEF Plane!NoCall, Calls
  <2>2. PlaneType'
    BY <1>1, <1>4, <1>5, <2>1 DEF PlaneInv, PlaneType
  <2>3. Confined(plane, {current} \cup Work(call))'
    BY <1>1, <1>11, <1>12, PlaneFacts DEF Confined
  <2>4. Raising' /\ Refreshing' /\ Ending'
    BY <2>1 DEF Raising, Refreshing, Ending
  <2>5. Plane!SuccessServes'
    BY <1>1, <1>4, <1>6, <1>9 DEF Plane!SuccessServes
  <2> QED BY <1>8, <1>10, <2>2, <2>3, <2>4, <2>5 DEF PlaneInv
<1>13. CASE current # 0
  <2>1. call' = [call EXCEPT !.pc = "retire", !.new = current]
    BY <1>1, <1>13
  <2>2. call' \in Calls /\ call'.pc = "retire" /\ call'.new = current
    BY <2>1, PlaneFacts DEF Calls
  <2>3. PlaneType'
    BY <1>1, <1>4, <1>5, <2>2 DEF PlaneInv, PlaneType
  <2>4. Confined(plane, {current} \cup Work(call))'
    BY <1>1, <1>11, <2>2 DEF Confined, Work
  <2>5. current \in 1..calls
    BY <1>13, PlaneFacts, SMT
  <2>6. Raising' /\ Refreshing' /\ Plane!SuccessServes'
    BY <2>2 DEF Raising, Refreshing, Plane!SuccessServes
  <2>7. Ending'
    BY <1>1, <1>2, <1>4, <1>6, <1>9, <2>2, <2>5 DEF Ending
  <2> QED BY <1>8, <1>10, <2>3, <2>4, <2>6, <2>7 DEF PlaneInv
<1> QED BY <1>12, <1>13

\* The collection before is closed.
LEMMA RetireKeeps == PlaneInv /\ Plane!Retire => PlaneInv'
<1> SUFFICES ASSUME PlaneInv, Plane!Retire PROVE PlaneInv'
  OBVIOUS
<1> DEFINE n == call.new
<1>1. /\ call.pc = "retire" /\ plane' = [plane EXCEPT ![n] = Plane!Closed(n)]
      /\ call' = Plane!NoCall /\ UNCHANGED <<table, current, tables, served, calls>>
  BY DEF Plane!Retire
<1>2. n \in 1..calls /\ n # current /\ current # 0 /\ served = tables /\ plane[current].open
  BY <1>1 DEF PlaneInv, Ending
<1>3. n \in Plane!State /\ n <= calls
  BY <1>2, PlaneConstants, SMT DEF PlaneInv, PlaneType, Plane!State
<1>4. /\ Plane!Closed(n) \in Collection /\ Sound(Plane!Closed(n))
      /\ ~Plane!Closed(n).open /\ Plane!Closed(n).links = {}
  BY <1>3, PlaneFacts, ClosedSound
<1>5. Collections(plane, calls)'
  BY <1>1, <1>3, <1>4, PlaneFacts, UpdateCollections
<1>6. plane'[n] = Plane!Closed(n) /\ \A p \in Plane!State : p # n => plane'[p] = plane[p]
  BY <1>1, <1>3, PlaneFacts
<1>7. call' \in Calls /\ call'.pc = "idle"
  BY <1>1 DEF Plane!NoCall, Calls
<1>8. PlaneType'
  BY <1>1, <1>7 DEF PlaneInv, PlaneType
<1>9. Serves(plane, current, tables)'
  BY <1>1, <1>2, <1>6, PlaneFacts DEF PlaneInv, Serves
<1>10. Confined(plane, {current} \cup Work(call))'
  BY <1>1, <1>4, <1>6 DEF PlaneInv, Confined, Work
<1>11. Raising' /\ Refreshing' /\ Ending'
  BY <1>7 DEF Raising, Refreshing, Ending
<1>12. Plane!SuccessServes'
  BY <1>1, <1>2, <1>6, PlaneFacts DEF PlaneInv, Serves, Plane!SuccessServes
<1> QED BY <1>5, <1>8, <1>9, <1>10, <1>11, <1>12 DEF PlaneInv

\* What closing the current collection leaves, whether or not r.state is reset.
LEMMA CloseCurrent ==
  ASSUME PlaneInv, call.pc = "close"
  PROVE  LET f == [plane EXCEPT ![current] = Plane!Closed(current)]
         IN  /\ current # 0 /\ Collections(f, calls) /\ Serves(f, current, tables)
             /\ \A p \in Plane!State : ~f[p].open /\ f[p].links = {}
<1> DEFINE f == [plane EXCEPT ![current] = Plane!Closed(current)]
<1>1. current # 0 /\ current \in Plane!State
  BY PlaneFacts DEF PlaneInv, Ending
<1>2. /\ Plane!Closed(current) \in Collection /\ Sound(Plane!Closed(current))
      /\ ~Plane!Closed(current).open /\ Plane!Closed(current).links = {}
      /\ Plane!Closed(current).tables = plane[current].tables
  BY <1>1, PlaneFacts, ClosedSound
<1>3. Collections(f, calls)
  BY <1>1, <1>2, PlaneFacts, UpdateCollections
<1>4. f[current] = Plane!Closed(current) /\ \A p \in Plane!State : p # current => f[p] = plane[p]
  BY <1>1, PlaneFacts
<1>5. Serves(f, current, tables)
  BY <1>1, <1>2, <1>4 DEF PlaneInv, Serves
<1>6. \A p \in Plane!State : ~f[p].open /\ f[p].links = {}
  BY <1>2, <1>4 DEF PlaneInv, Confined, Work
<1> QED BY <1>1, <1>3, <1>5, <1>6

\* An empty snapshot detaches.
LEMMA CloseKeeps == PlaneInv /\ Plane!Close => PlaneInv'
<1> SUFFICES ASSUME PlaneInv, Plane!Close PROVE PlaneInv'
  OBVIOUS
<1>1. /\ call.pc = "close" /\ plane' = [plane EXCEPT ![current] = Plane!Closed(current)]
      /\ current' = 0 /\ tables' = None /\ call' = Plane!NoCall /\ served' = None
      /\ UNCHANGED <<table, calls>>
  BY DEF Plane!Close
<1>2. Collections(plane, calls)' /\ \A p \in Plane!State : ~plane'[p].open /\ plane'[p].links = {}
  BY <1>1, CloseCurrent
<1>3. call' \in Calls /\ call'.pc = "idle"
  BY <1>1 DEF Plane!NoCall, Calls
<1>4. 0 \in 0..calls
  BY PlaneFacts, SMT
<1>5. PlaneType'
  BY <1>1, <1>3, <1>4 DEF PlaneInv, PlaneType
<1>6. Serves(plane, current, tables)' /\ Plane!SuccessServes'
  BY <1>1 DEF Serves, Plane!SuccessServes
<1>7. Confined(plane, {current} \cup Work(call))'
  BY <1>2 DEF Confined
<1>8. Raising' /\ Refreshing' /\ Ending'
  BY <1>3 DEF Raising, Refreshing, Ending
<1> QED BY <1>2, <1>5, <1>6, <1>7, <1>8 DEF PlaneInv

\* Any operation of the call may fail.
LEMMA FailKeeps == PlaneInv /\ Plane!Fail => PlaneInv'
<1> SUFFICES ASSUME PlaneInv, Plane!Fail PROVE PlaneInv'
  OBVIOUS
<1> DEFINE f == [plane EXCEPT ![current] = Plane!Closed(current)]
<1>1. UNCHANGED <<table, calls>>
  BY DEF Plane!Fail
<1>2. CASE call.pc = "close"
  <2>1. Plane!Failed(f)
    BY <1>2 DEF Plane!Fail
  <2>2. Collections(f, calls) /\ Serves(f, current, tables) /\ Confined(f, {current})
    BY <1>2, CloseCurrent DEF Confined
  <2> QED BY <1>1, <2>1, <2>2, FailedKeeps
<1>3. CASE call.pc # "close"
  <2>1. Plane!Failed(Plane!Abandoned) /\ call.pc \in {"publish", "discover", "attach", "swap"}
    BY <1>3 DEF Plane!Fail
  <2> QED BY <1>1, <2>1, AbandonedKeeps, FailedKeeps
<1> QED BY <1>2, <1>3

\* A step of a watcher changes what is attached of its own collection and nothing else.
LEMMA WatcherKeeps ==
  ASSUME PlaneInv, NEW p \in Plane!State, NEW c \in Collection, Sound(c),
         plane' = [plane EXCEPT ![p] = c], plane[p].watch # "off",
         c.open = plane[p].open, c.tables = plane[p].tables,
         c.links # {} => plane[p].open \/ plane[p].links # {},
         plane[p].open /\ Plane!Steady \subseteq plane[p].links => Plane!Steady \subseteq c.links,
         UNCHANGED <<table, current, tables, call, served, calls>>
  PROVE  PlaneInv'
<1>1. p <= calls
  <2>1. ~(p > calls)
    BY PlaneFacts DEF Collections, Blank
  <2> QED BY <2>1, PlaneFacts, PlaneConstants, SMT DEF Plane!State
<1>2. Collections(plane, calls)'
  BY <1>1, PlaneFacts, UpdateCollections
<1>3. plane'[p] = c /\ \A q \in Plane!State : q # p => plane'[q] = plane[q]
  BY PlaneFacts
<1>4. PlaneType'
  BY DEF PlaneInv, PlaneType
<1>5. Serves(plane, current, tables)'
  BY <1>3, PlaneFacts DEF PlaneInv, Serves
<1>6. Confined(plane, {current} \cup Work(call))'
  BY <1>3 DEF PlaneInv, Confined, Work
<1>7. ASSUME NEW q \in Plane!State PROVE plane'[q].open = plane[q].open /\ plane'[q].tables = plane[q].tables
  BY <1>3
<1>8. Raising'
  <2> SUFFICES ASSUME call.pc \in {"publish", "discover", "attach", "swap"}, call.new # current
               PROVE  Raising'
    BY DEF Raising
  <2>1. call.new \in 1..calls /\ plane[call.new].watch = "off"
    BY DEF PlaneInv, Raising
  <2>2. call.new \in Plane!State /\ call.new # p
    BY <2>1, PlaneConstants, SMT DEF PlaneInv, PlaneType, Plane!State
  <2>3. plane'[call.new] = plane[call.new]
    BY <1>3, <2>2
  <2> QED BY <1>7, <2>3, PlaneFacts DEF PlaneInv, Raising
<1>9. Refreshing'
  BY DEF PlaneInv, Refreshing
<1>10. Ending' /\ Plane!SuccessServes'
  BY <1>7, PlaneFacts DEF PlaneInv, Ending, Plane!SuccessServes
<1> QED BY <1>2, <1>4, <1>5, <1>6, <1>8, <1>9, <1>10 DEF PlaneInv

\* A watcher reads the routes.
LEMMA WatchReadKeeps == \A p \in Plane!State : PlaneInv /\ Plane!WatchRead(p) => PlaneInv'
<1> SUFFICES ASSUME PlaneInv, NEW p \in Plane!State, Plane!WatchRead(p) PROVE PlaneInv'
  OBVIOUS
<1> DEFINE c == [plane[p] EXCEPT !.watch = "read", !.seen = Plane!routes]
<1>1. /\ plane[p].watch = "wait" /\ plane[p].open
      /\ plane' = [plane EXCEPT ![p].watch = "read", ![p].seen = Plane!routes]
      /\ UNCHANGED <<table, current, tables, call, served, calls>>
  BY DEF Plane!WatchRead
<1>2. plane[p] \in Collection /\ Sound(plane[p])
  BY PlaneFacts
<1>3. plane' = [plane EXCEPT ![p] = c]
  BY <1>1, <1>2, PlaneFacts
<1>4. Plane!routes \in SUBSET Dev /\ Plane!Steady \subseteq Plane!routes
  BY PlaneFacts, SteadyFound
<1>5. /\ c \in Collection /\ c.open = plane[p].open /\ c.tables = plane[p].tables
      /\ c.links = plane[p].links /\ c.watch = "read" /\ c.seen = Plane!routes
  BY <1>2, <1>4 DEF Collection
<1> HIDE DEF c
<1>6. Sound(c)
  BY <1>1, <1>2, <1>4, <1>5 DEF Sound
<1> QED BY <1>1, <1>3, <1>5, <1>6, WatcherKeeps

\* A watcher attaches what it read, unless its collection was closed meanwhile.
LEMMA WatchApplyKeeps == \A p \in Plane!State : PlaneInv /\ Plane!WatchApply(p) => PlaneInv'
<1> SUFFICES ASSUME PlaneInv, NEW p \in Plane!State, Plane!WatchApply(p) PROVE PlaneInv'
  OBVIOUS
<1>1. plane[p].watch = "read" /\ UNCHANGED <<table, current, tables, call, served, calls>>
  BY DEF Plane!WatchApply
<1>2. plane[p] \in Collection /\ Sound(plane[p]) /\ plane[p].tables # None
  BY <1>1, PlaneFacts DEF Sound
<1>3. CASE plane[p].open
  <2>1. PICK l \in Plane!Refreshed(plane[p].links, plane[p].seen) :
          plane' = [plane EXCEPT ![p].watch = "wait", ![p].seen = {}, ![p].links = l]
    BY <1>3 DEF Plane!WatchApply
  <2> DEFINE c == [plane[p] EXCEPT !.watch = "wait", !.seen = {}, !.links = l]
  <2>2. plane' = [plane EXCEPT ![p] = c]
    BY <1>2, <2>1, PlaneFacts
  <2>3. plane[p].links \in SUBSET Dev /\ plane[p].seen \in SUBSET Dev /\ Plane!Steady \subseteq plane[p].seen
    BY <1>1, <1>2 DEF Collection, Sound
  <2>4. l \in SUBSET Dev /\ (Plane!Steady \subseteq plane[p].links => Plane!Steady \subseteq l)
    BY <2>3, RefreshCovers
  <2>5. /\ c \in Collection /\ c.open = plane[p].open /\ c.tables = plane[p].tables
        /\ c.links = l /\ c.watch = "wait"
    BY <1>2, <2>4 DEF Collection
  <2> HIDE DEF c
  <2>6. Sound(c)
    BY <1>2, <1>3, <2>5 DEF Sound
  <2> QED BY <1>1, <1>3, <2>2, <2>4, <2>5, <2>6, WatcherKeeps
<1>4. CASE ~plane[p].open
  <2> DEFINE c == [plane[p] EXCEPT !.watch = "off", !.seen = {}]
  <2>1. plane' = [plane EXCEPT ![p].watch = "off", ![p].seen = {}]
    BY <1>4 DEF Plane!WatchApply
  <2>2. plane' = [plane EXCEPT ![p] = c]
    BY <1>2, <2>1, PlaneFacts
  <2>3. /\ c \in Collection /\ c.open = plane[p].open /\ c.tables = plane[p].tables
        /\ c.links = plane[p].links /\ c.watch = "off"
    BY <1>2 DEF Collection
  <2> HIDE DEF c
  <2>4. Sound(c)
    BY <1>2, <2>3 DEF Sound
  <2> QED BY <1>1, <1>4, <2>2, <2>3, <2>4, WatcherKeeps
<1> QED BY <1>3, <1>4

\* A route comes or goes; the steady uplinks stay attached where they were.
LEMMA RouteChangeKeeps ==
  \A r \in Route \ Permanent : PlaneInv /\ Plane!RouteChange(r) => PlaneInv'
<1> SUFFICES ASSUME PlaneInv, NEW r \in Route \ Permanent, Plane!RouteChange(r) PROVE PlaneInv'
  OBVIOUS
<1> DEFINE cut(p) == [plane[p] EXCEPT !.links = plane[p].links \cap Plane!Devices']
<1>1. /\ table' = IF r \in table THEN table \ {r} ELSE table \cup {r}
      /\ plane' = [p \in Plane!State |-> cut(p)]
      /\ UNCHANGED <<current, tables, call, served, calls>>
  BY DEF Plane!RouteChange
<1>2. Permanent \subseteq table' /\ table' \subseteq Route
  BY <1>1, PlaneFacts
<1>3. Plane!Steady \subseteq Plane!Devices'
  <2>1. ASSUME NEW i \in Plane!Steady PROVE i \in Plane!Devices'
    <3>1. PICK x \in Permanent : i = x.dev
      BY DEF Plane!Steady
    <3> QED BY <1>2, <3>1 DEF Plane!Devices
  <2> QED BY <2>1
<1>4. ASSUME NEW p \in Plane!State
      PROVE  /\ plane'[p] \in Collection /\ plane'[p].open = plane[p].open
             /\ plane'[p].tables = plane[p].tables /\ plane'[p].watch = plane[p].watch
             /\ plane'[p].seen = plane[p].seen
             /\ plane'[p].links = plane[p].links \cap Plane!Devices'
  <2>1. plane[p] \in Collection
    BY PlaneFacts
  <2>2. plane'[p] = cut(p)
    BY <1>1
  <2> QED BY <2>1, <2>2 DEF Collection
<1> HIDE DEF cut
<1>5. Collections(plane, calls)'
  <2>1. plane' \in [Plane!State -> Collection]
    BY <1>1, <1>4
  <2>2. ASSUME NEW p \in Plane!State PROVE Sound(plane'[p]) /\ (p > calls => Blank(plane'[p]))
    BY <1>4, PlaneFacts DEF Collections, Sound, Blank
  <2> QED BY <1>1, <2>1, <2>2 DEF Collections
<1>6. PlaneType'
  BY <1>1, <1>2 DEF PlaneInv, PlaneType
<1>7. Serves(plane, current, tables)'
  BY <1>1, <1>3, <1>4, PlaneFacts DEF PlaneInv, Serves
<1>8. Confined(plane, {current} \cup Work(call))'
  BY <1>1, <1>4 DEF PlaneInv, Confined, Work
<1>9. Raising'
  <2> SUFFICES ASSUME call.pc \in {"publish", "discover", "attach", "swap"}, call.new # current
               PROVE  Raising'
    BY <1>1 DEF Raising
  <2>1. call.new \in 1..calls
    BY DEF PlaneInv, Raising
  <2>2. call.new \in Plane!State
    BY <2>1, PlaneConstants, SMT DEF PlaneInv, PlaneType, Plane!State
  <2> QED BY <1>1, <1>3, <1>4, <2>2, PlaneFacts DEF PlaneInv, Raising
<1>10. Refreshing'
  BY <1>1 DEF PlaneInv, Refreshing
<1>11. Ending' /\ Plane!SuccessServes'
  BY <1>1, <1>4, PlaneFacts DEF PlaneInv, Ending, Plane!SuccessServes
<1> QED BY <1>5, <1>6, <1>7, <1>8, <1>9, <1>10, <1>11 DEF PlaneInv

-----------------------------------------------------------------------------
(* Activation: the theorems *)

\* The invariant that relates the collections, r.state and r.tables, and the progress of
\* Reconcile (activate, refresh, Close and watch of activation_linux.go).
THEOREM PlaneInvariant == Plane!Spec => []PlaneInv
<1>1. Plane!Init => PlaneInv
  <2> SUFFICES ASSUME Plane!Init PROVE PlaneInv
    OBVIOUS
  <2>1. /\ table = Permanent /\ plane = [p \in Plane!State |-> Plane!Unused]
        /\ current = 0 /\ tables = None /\ call = Plane!NoCall /\ served = None /\ calls = 0
    BY DEF Plane!Init
  <2>2. Plane!Unused \in Collection /\ Blank(Plane!Unused) /\ Sound(Plane!Unused)
    BY DEF Plane!Unused, Collection, Blank, Sound
  <2>3. Collections(plane, calls)
    BY <2>1, <2>2 DEF Collections
  <2>4. call \in Calls /\ call.pc = "idle"
    BY <2>1 DEF Plane!NoCall, Calls
  <2>5. 0 \in 0..MaxCalls /\ 0 \in 0..0
    BY PlaneConstants, SMT
  <2>6. PlaneType
    BY <2>1, <2>4, <2>5, PlaneConstants DEF PlaneType
  <2>7. Serves(plane, current, tables) /\ Plane!SuccessServes
    BY <2>1 DEF Serves, Plane!SuccessServes
  <2>8. Confined(plane, {current} \cup Work(call))
    BY <2>1, <2>2 DEF Confined, Blank
  <2>9. Raising /\ Refreshing /\ Ending
    BY <2>4 DEF Raising, Refreshing, Ending
  <2> QED BY <2>3, <2>6, <2>7, <2>8, <2>9 DEF PlaneInv
<1>2. PlaneInv /\ [Plane!Next]_Plane!vars => PlaneInv'
  <2> SUFFICES ASSUME PlaneInv, [Plane!Next]_Plane!vars PROVE PlaneInv'
    OBVIOUS
  <2>1. CASE Plane!Step
    BY <2>1, PublishKeeps, DiscoverKeeps, AttachKeeps, SwapKeeps, RetireKeeps, CloseKeeps DEF Plane!Step
  <2>2. CASE Plane!Fail
    BY <2>2, FailKeeps
  <2>3. CASE \E s \in Snapshot \cup {None}, fatal \in BOOLEAN : Plane!Begin(s, fatal)
    BY <2>3, BeginKeeps
  <2>4. CASE \E p \in Plane!State : Plane!WatchRead(p) \/ Plane!WatchApply(p)
    BY <2>4, WatchReadKeeps, WatchApplyKeeps
  <2>5. CASE \E r \in Route \ Permanent : Plane!RouteChange(r)
    BY <2>5, RouteChangeKeeps
  <2>6. CASE UNCHANGED Plane!vars
    BY <2>6 DEF Plane!vars, PlaneInv, PlaneType, Collections, Serves, Confined, Work, Raising,
                Refreshing, Ending, Plane!SuccessServes
  <2>7. CASE Plane!Panic
    BY <2>7, ExitKeeps DEF Plane!Panic
  <2> QED BY <2>1, <2>2, <2>3, <2>4, <2>5, <2>6, <2>7 DEF Plane!Next
<1> QED BY <1>1, <1>2, PTL DEF Plane!Spec

\* Packets meet complete tables, nothing but the current collection is left between two
\* calls, and a call that reports success serves what it was asked for, whatever failed in
\* Reconcile, activate, refresh or Close (activation_linux.go).
THEOREM CurrentServes == Plane!Spec => []OnlyCurrentServes
<1>1. PlaneInv => OnlyCurrentServes
  <2> SUFFICES ASSUME PlaneInv PROVE Plane!OnlyCurrentServes
    BY DEF OnlyCurrentServes
  <2>1. Plane!NeverPartial
    BY PlaneFacts DEF Sound, Plane!NeverPartial
  <2>2. Plane!NoLeak
    BY DEF PlaneInv, Confined, Work, Plane!NoLeak
  <2>3. Plane!SuccessServes
    BY DEF PlaneInv
  <2> QED BY <2>1, <2>2, <2>3 DEF Plane!OnlyCurrentServes
<1> QED BY <1>1, PlaneInvariant, PTL

\* The current collection is open wherever something is attached, but for nothing current.
Up == current = 0 \/ plane[current].open

\* What is attached beside a closed current collection was never filled.
LEMMA CoveredUp ==
  ASSUME PlaneInv, NEW i, Plane!Covered(i)
  PROVE  Up
<1>1. PICK p \in Plane!State : i \in plane[p].links
  BY DEF Plane!Covered
<1>2. plane[p].links # {} /\ plane[p].open
  BY <1>1, PlaneFacts DEF Sound
<1>3. CASE p = current
  BY <1>2, <1>3 DEF Up
<1>4. CASE p # current
  <2>1. p = call.new /\ call.pc \in {"publish", "discover", "attach", "swap", "retire"}
    BY <1>2, <1>4 DEF PlaneInv, Confined, Work
  <2> QED BY <1>2, <1>4, <2>1 DEF PlaneInv, Raising, Ending, Up
<1> QED BY <1>3, <1>4

\* A step closes the current collection for an empty snapshot or with the process only.
LEMMA StaysUp ==
  ASSUME PlaneInv, Up, Plane!Next, call.pc # "close"
  PROVE  current' = 0 \/ plane'[current'].open
<1>0. ASSUME NEW p \in Plane!State, p # current, NEW c, current' = current,
             plane' = [plane EXCEPT ![p] = c]
      PROVE  current' = 0 \/ plane'[current'].open
  BY <1>0, PlaneFacts DEF Up
<1>1. ASSUME Plane!Failed(Plane!Abandoned), call.pc \in {"publish", "discover", "attach", "swap"}
      PROVE  current' = 0 \/ plane'[current'].open
  <2>1. CASE call.fatal
    BY <1>1, <2>1 DEF Plane!Failed, Plane!Exit
  <2>2. CASE ~call.fatal /\ call.new = current
    BY <1>1, <2>2 DEF Plane!Failed, Plane!Abandoned, Up
  <2>3. CASE ~call.fatal /\ call.new # current
    <3>1. call.new \in 1..calls
      BY <1>1, <2>3 DEF PlaneInv, Raising
    <3>2. call.new \in Plane!State
      BY <3>1, PlaneConstants, SMT DEF PlaneInv, PlaneType, Plane!State
    <3> QED BY <1>0, <1>1, <2>3, <3>2 DEF Plane!Failed, Plane!Abandoned
  <2> QED BY <2>1, <2>2, <2>3
<1>2. ASSUME NEW p \in Plane!State, NEW c \in Collection, c.open = plane[p].open,
             current' = current, plane' = [plane EXCEPT ![p] = c]
      PROVE  current' = 0 \/ plane'[current'].open
  BY <1>2, PlaneFacts DEF Up
<1>3. ASSUME NEW s \in Snapshot \cup {None}, NEW fatal \in BOOLEAN, Plane!Begin(s, fatal)
      PROVE  current' = 0 \/ plane'[current'].open
  <2>1. calls + 1 # current /\ calls + 1 \in Plane!State
    BY <1>3, NewNumber DEF Plane!Begin
  <2>2. current' = current /\ (plane' = plane \/ plane' = [plane EXCEPT ![calls + 1].open = TRUE])
    BY <1>3 DEF Plane!Begin
  <2> QED BY <2>1, <2>2, PlaneFacts DEF Up
<1>4. CASE Plane!Publish
  <2>1. call.pc = "publish" /\ call.new # current
    BY <1>4 DEF Plane!Publish, PlaneInv, Refreshing
  <2>2. CASE ~Plane!Loadable
    BY <1>1, <1>4, <2>1, <2>2 DEF Plane!Publish
  <2>3. CASE Plane!Loadable
    BY <1>4, <2>1, <2>3, PlaneFacts DEF Plane!Publish, Up
  <2> QED BY <2>2, <2>3
<1>5. CASE Plane!Discover
  BY <1>5 DEF Plane!Discover, Up
<1>6. CASE Plane!Attach
  <2>1. call.pc = "attach" /\ (call.new = current => current # 0)
    BY <1>6 DEF Plane!Attach, PlaneInv, Refreshing
  <2>2. CASE call.new # current
    <3>1. plane[call.new].open
      BY <2>1, <2>2 DEF PlaneInv, Raising
    <3>2. CASE Plane!Stale(call.seen)
      BY <1>1, <1>6, <2>1, <2>2, <3>1, <3>2 DEF Plane!Attach
    <3>3. CASE ~Plane!Stale(call.seen)
      BY <1>6, <2>2, <3>1, <3>3, PlaneFacts DEF Plane!Attach, Up
    <3> QED BY <3>2, <3>3
  <2>3. CASE call.new = current
    <3>0. current # 0 /\ current \in Plane!State /\ plane[current] \in Collection /\ plane[current].open
      BY <2>1, <2>3, PlaneFacts DEF Up
    <3>1. CASE Plane!Stale(call.seen)
      <4>1. PICK l \in Plane!Refreshed(plane[current].links, call.seen) :
              Plane!Failed([plane EXCEPT ![current].links = l])
        BY <1>6, <2>3, <3>0, <3>1 DEF Plane!Attach
      <4>2. current' = 0 \/ (current' = current /\ plane' = [plane EXCEPT ![current].links = l])
        BY <4>1 DEF Plane!Failed, Plane!Exit
      <4>3. [plane[current] EXCEPT !.links = l].open = plane[current].open
        BY <3>0 DEF Collection
      <4> QED BY <3>0, <4>2, <4>3, PlaneFacts
    <3>2. CASE ~Plane!Stale(call.seen)
      <4>1. current' = current /\ plane' = [plane EXCEPT ![current].links = call.seen]
        BY <1>6, <2>3, <3>0, <3>2 DEF Plane!Attach
      <4>2. [plane[current] EXCEPT !.links = call.seen].open = plane[current].open
        BY <3>0 DEF Collection
      <4> QED BY <3>0, <4>1, <4>2, PlaneFacts
    <3> QED BY <3>1, <3>2
  <2> QED BY <2>2, <2>3
<1>7. CASE Plane!Swap
  <2>1. /\ call.pc = "swap" /\ current' = call.new
        /\ plane' = [plane EXCEPT ![call.new].watch = "wait"]
    BY <1>7 DEF Plane!Swap
  <2>2. call.new \in 1..calls /\ plane[call.new].open
    BY <2>1 DEF PlaneInv, Refreshing, Raising
  <2>3. call.new \in Plane!State
    BY <2>2, PlaneConstants, SMT DEF PlaneInv, PlaneType, Plane!State
  <2>4. [plane[call.new] EXCEPT !.watch = "wait"].open
    BY <2>2, <2>3, PlaneFacts DEF Collection
  <2> QED BY <2>1, <2>3, <2>4, PlaneFacts
<1>8. CASE Plane!Retire
  <2>1. call.new # current
    BY <1>8 DEF Plane!Retire, PlaneInv, Ending
  <2> QED BY <1>8, <2>1, PlaneFacts DEF Plane!Retire, Up
<1>9. CASE Plane!Fail
  <2>1. Plane!Failed(Plane!Abandoned) /\ call.pc \in {"publish", "discover", "attach", "swap"}
    BY <1>9 DEF Plane!Fail
  <2> QED BY <1>1, <2>1
<1>10. ASSUME NEW p \in Plane!State, Plane!WatchRead(p) \/ Plane!WatchApply(p)
       PROVE  current' = 0 \/ plane'[current'].open
  <2>1. current' = current
    BY <1>10 DEF Plane!WatchRead, Plane!WatchApply
  <2>2. plane[p] \in Collection
    BY PlaneFacts
  <2>3. \A q \in Plane!State : plane'[q].open = plane[q].open
    <3>1. CASE Plane!WatchRead(p)
      BY <2>2, <3>1, PlaneFacts DEF Plane!WatchRead, Collection
    <3>2. CASE Plane!WatchApply(p) /\ plane[p].open
      <4>1. PICK l : plane' = [plane EXCEPT ![p].watch = "wait", ![p].seen = {}, ![p].links = l]
        BY <3>2 DEF Plane!WatchApply
      <4> QED BY <2>2, <4>1, PlaneFacts DEF Collection
    <3>3. CASE Plane!WatchApply(p) /\ ~plane[p].open
      <4>1. plane' = [plane EXCEPT ![p].watch = "off", ![p].seen = {}]
        BY <3>3 DEF Plane!WatchApply
      <4> QED BY <2>2, <4>1, PlaneFacts DEF Collection
    <3> QED BY <1>10, <3>1, <3>2, <3>3
  <2> QED BY <2>1, <2>3, PlaneFacts DEF Up
<1>11. ASSUME NEW r \in Route \ Permanent, Plane!RouteChange(r)
       PROVE  current' = 0 \/ plane'[current'].open
  <2>1. current' = current
    BY <1>11 DEF Plane!RouteChange
  <2>2. ASSUME NEW q \in Plane!State PROVE plane'[q].open = plane[q].open
    <3>1. plane[q] \in Collection
      BY PlaneFacts
    <3>2. plane'[q] = [plane[q] EXCEPT !.links = plane[q].links \cap Plane!Devices']
      BY <1>11 DEF Plane!RouteChange
    <3> QED BY <3>1, <3>2 DEF Collection
  <2> QED BY <2>1, <2>2, PlaneFacts DEF Up
<1>12. ~Plane!Close
  BY DEF Plane!Close
<1>13. CASE Plane!Panic
  BY <1>13 DEF Plane!Panic, Plane!Exit
<1> QED BY <1>3, <1>4, <1>5, <1>6, <1>7, <1>8, <1>9, <1>10, <1>11, <1>12, <1>13 DEF Plane!Next, Plane!Step

\* Replacing one table by another, refreshing it or failing at it leaves no steady uplink
\* without a program; only an empty snapshot or the end of the process does
\* (activation_linux.go).
THEOREM UplinksStayCovered == Plane!Spec => NoGap
<1> DEFINE Kept == \A i \in Plane!Steady :
                     Plane!Covered(i) => Plane!Covered(i)' \/ call.pc = "close" \/ current' = 0
<1>1. PlaneInv /\ PlaneInv' /\ [Plane!Next]_Plane!vars => [Kept]_Plane!vars
  <2> SUFFICES ASSUME PlaneInv, PlaneInv', Plane!Next, NEW i \in Plane!Steady, Plane!Covered(i),
                      call.pc # "close", current' # 0
               PROVE  Plane!Covered(i)'
    OBVIOUS
  <2>1. plane'[current'].open
    BY CoveredUp, StaysUp
  <2>2. Plane!Steady \subseteq plane'[current'].links
    BY <2>1 DEF PlaneInv, Serves
  <2>3. current' \in Plane!State
    BY PlaneConstants, SMT DEF PlaneInv, PlaneType, Plane!State
  <2> QED BY <2>2, <2>3 DEF Plane!Covered
<1> HIDE DEF Kept
<1>2. Plane!Spec => [][Kept]_Plane!vars
  BY <1>1, PlaneInvariant, PTL DEF Plane!Spec
<1> QED BY <1>2 DEF Kept, NoGap, Plane!NoGap

-----------------------------------------------------------------------------
(* The Pod watcher *)

Pods == [Pod -> Status \cup {None}]
PodEvent == [type : {"ADDED", "MODIFIED", "DELETED", "SYNC", "BAD"}, pod : Pod \cup {None},
             status : Status \cup {None}, at : Nat]

\* The moment of event i of stream s; event 0 is the one received last, of moment r.
Moment(s, r, i) == IF i = 0 THEN r ELSE s[i].at

\* Event i tells the change of the Pods h that follows the event before it.
Following(h, s, r, i) ==
  /\ s[i].pod \in Pod
  /\ Moment(s, r, i - 1) \in 1..Len(h) /\ Moment(s, r, i) \in 1..Len(h)
  /\ h[Moment(s, r, i)] = [h[Moment(s, r, i - 1)] EXCEPT ![s[i].pod] = s[i].status]
  /\ s[i].type \in {IF s[i].status = None THEN "DELETED" ELSE "MODIFIED", "BAD"}

\* Event i belongs to the initial list of moment m.
Initial(h, s, i, m) ==
  /\ s[i].pod \in Pod /\ s[i].at = m /\ s[i].type \in {"ADDED", "BAD"}
  /\ s[i].status = h[m][s[i].pod] /\ s[i].status # None

\* The list of moment m ends at event k; what is not to come from it is staged.
Listing(h, s, r, staged, k, m) ==
  /\ s[k].type = "SYNC" /\ s[k].at = m
  /\ \A i \in 1..(k - 1) : Initial(h, s, i, m)
  /\ \A i \in (k + 1)..Len(s) : Following(h, s, r, i)
  /\ \A p \in Pod : staged[p] = Watch!View(h[m])[p] \/ \E i \in 1..(k - 1) : s[i].pod = p

WatchType ==
  /\ past \in Seq(Pods) /\ past # <<>>
  /\ stream \in Seq(PodEvent) /\ synced \in BOOLEAN /\ read \in Nat
  /\ state = [p \in Pod |-> state[p]]

\* What an open stream still delivers leads from the staged Pods to those of its end, and
\* as long as it is not broken to the kubelet's.
Delivers(h, s, r, staged, complete) ==
  IF complete
  THEN /\ r \in 1..Len(h) /\ staged = Watch!View(h[r])
       /\ \A i \in 1..Len(s) : Following(h, s, r, i)
  ELSE \E k \in 1..Len(s), m \in 1..Len(h) : Listing(h, s, r, staged, k, m)

WatchInv ==
  /\ WatchType
  /\ pc = "recv" => /\ Delivers(past, stream, read, state, synced)
                    /\ ~broken => Moment(stream, read, Len(stream)) = Len(past)
  /\ synced => pc = "recv"
  /\ published = IF synced THEN state ELSE Watch!NoPods

\* An event keeps its place in the history when both are extended or shifted.
LEMMA FollowingCarries ==
  ASSUME NEW h, NEW s, NEW r, NEW i, Following(h, s, r, i), NEW g, NEW t, NEW q, NEW j,
         \A a \in 1..Len(h) : a \in 1..Len(g) /\ g[a] = h[a],
         Moment(t, q, j) = Moment(s, r, i), Moment(t, q, j - 1) = Moment(s, r, i - 1),
         t[j].pod = s[i].pod, t[j].status = s[i].status, t[j].type \in {s[i].type, "BAD"}
  PROVE  Following(g, t, q, j)
BY DEF Following

\* So does an event of the list.
LEMMA InitialCarries ==
  ASSUME NEW h, NEW s, NEW i, NEW m \in 1..Len(h), Initial(h, s, i, m), NEW g, NEW t, NEW j,
         \A a \in 1..Len(h) : a \in 1..Len(g) /\ g[a] = h[a], t[j].at = s[i].at,
         t[j].pod = s[i].pod, t[j].status = s[i].status, t[j].type \in {s[i].type, "BAD"}
  PROVE  Initial(g, t, j, m)
BY DEF Initial

\* What a stream delivers stays when the history is extended, and the stream too.
LEMMA DeliversGrows ==
  ASSUME NEW h \in Seq(Pods), NEW s \in Seq(PodEvent), NEW r \in Nat, NEW staged, NEW complete \in BOOLEAN,
         Delivers(h, s, r, staged, complete),
         NEW g \in Seq(Pods), NEW t \in Seq(PodEvent),
         \A a \in 1..Len(h) : a \in 1..Len(g) /\ g[a] = h[a],
         \A i \in 1..Len(s) : i \in 1..Len(t) /\ t[i] = s[i],
         \A i \in (Len(s) + 1)..Len(t) : Following(g, t, r, i)
  PROVE  Delivers(g, t, r, staged, complete)
<1>1. Len(s) \in Nat /\ Len(t) \in Nat
  BY SMT
<1>2. ASSUME NEW i \in 1..Len(s), Following(h, s, r, i)
      PROVE  Following(g, t, r, i)
  <2>1. i # 0 /\ (i - 1 = 0 \/ i - 1 \in 1..Len(s))
    BY <1>1, SMT
  <2>2. Moment(t, r, i) = Moment(s, r, i) /\ Moment(t, r, i - 1) = Moment(s, r, i - 1)
    BY <2>1 DEF Moment
  <2> QED BY <1>2, <2>2, FollowingCarries
<1>3. CASE complete
  <2>1. ASSUME NEW i \in 1..Len(t)
        PROVE  Following(g, t, r, i)
    <3>1. i \in 1..Len(s) \/ i \in (Len(s) + 1)..Len(t)
      BY <1>1, SMT
    <3> QED BY <1>2, <1>3, <3>1 DEF Delivers
  <2> QED BY <1>3, <2>1 DEF Delivers
<1>4. CASE ~complete
  <2>1. PICK k \in 1..Len(s), m \in 1..Len(h) : Listing(h, s, r, staged, k, m)
    BY <1>4 DEF Delivers
  <2>2. \A i \in 1..(k - 1) : i \in 1..Len(s)
    BY <1>1, SMT
  <2>3. ASSUME NEW i \in 1..(k - 1)
        PROVE  Initial(g, t, i, m)
    <3>1. Initial(h, s, i, m) /\ t[i] = s[i]
      BY <2>1, <2>2 DEF Listing
    <3> QED BY <3>1, InitialCarries
  <2>4. ASSUME NEW i \in (k + 1)..Len(t)
        PROVE  Following(g, t, r, i)
    <3>1. (i \in (k + 1)..Len(s) /\ i \in 1..Len(s)) \/ i \in (Len(s) + 1)..Len(t)
      BY <1>1, SMT
    <3> QED BY <1>2, <2>1, <3>1 DEF Listing
  <2>5. Listing(g, t, r, staged, k, m)
    BY <2>1, <2>2, <2>3, <2>4 DEF Listing
  <2> QED BY <1>4, <2>1, <2>5 DEF Delivers
<1> QED BY <1>3, <1>4

\* What the watcher stages for event e.
Staged(staged, e) ==
  CASE e.type = "SYNC" -> staged
    [] e.type = "DELETED" -> [staged EXCEPT ![e.pod] = None]
    [] OTHER -> [staged EXCEPT ![e.pod] = Watch!project(e.status)]

\* An event of a change turns the Pods before it into those after it.
LEMMA ChangeStaged ==
  ASSUME NEW h \in Seq(Pods), NEW s \in Seq(PodEvent), NEW r \in Nat, Following(h, s, r, 1),
         s[1].type # "BAD"
  PROVE  /\ s[1].at \in 1..Len(h)
         /\ Staged(Watch!View(h[r]), s[1]) = Watch!View(h[s[1].at])
<1> DEFINE e == s[1]
<1>1. Moment(s, r, 1) = e.at /\ Moment(s, r, 1 - 1) = r
  BY SMT DEF Moment
<1>2. /\ e.pod \in Pod /\ r \in 1..Len(h) /\ e.at \in 1..Len(h) /\ e.type # "SYNC"
      /\ h[e.at] = [h[r] EXCEPT ![e.pod] = e.status]
      /\ e.type = IF e.status = None THEN "DELETED" ELSE "MODIFIED"
  BY <1>1, SMT DEF Following
<1>3. h[r] \in Pods
  BY <1>2, SMT
<1> HIDE DEF e
<1>4. Staged(Watch!View(h[r]), e)
        = [Watch!View(h[r]) EXCEPT ![e.pod] = IF e.status = None THEN None ELSE Watch!project(e.status)]
  <2>1. CASE e.status = None
    <3>1. e.type = "DELETED"
      BY <1>2, <2>1
    <3> QED BY <2>1, <3>1 DEF Staged
  <2>2. CASE e.status # None
    <3>1. e.type = "MODIFIED"
      BY <1>2, <2>2
    <3> QED BY <2>2, <3>1 DEF Staged
  <2> QED BY <2>1, <2>2
<1>5. \A p \in Pod : h[e.at][p] = IF p = e.pod THEN e.status ELSE h[r][p]
  BY <1>2, <1>3 DEF Pods
<1>6. Staged(Watch!View(h[r]), e) = Watch!View(h[e.at])
  <2> DEFINE x == IF e.status = None THEN None ELSE Watch!project(e.status)
             V == Watch!View(h[r])
  <2>1. V = [p \in Pod |-> V[p]]
    BY DEF Watch!View
  <2>2. \A p \in Pod : Watch!View(h[e.at])[p] = IF p = e.pod THEN x ELSE V[p]
    BY <1>2, <1>5 DEF Watch!View
  <2>3. Watch!View(h[e.at]) = [p \in Pod |-> Watch!View(h[e.at])[p]]
    BY DEF Watch!View
  <2>5. Staged(V, e) = [V EXCEPT ![e.pod] = x]
    BY <1>4
  <2> HIDE DEF x, V
  <2>4. [V EXCEPT ![e.pod] = x] = [p \in Pod |-> IF p = e.pod THEN x ELSE V[p]]
    BY <1>2, <2>1
  <2>6. Staged(V, e) = Watch!View(h[e.at])
    BY <2>2, <2>3, <2>4, <2>5
  <2> QED BY <2>6 DEF V
<1>7. Staged(Watch!View(h[r]), e) = Watch!View(h[e.at]) /\ e.at \in 1..Len(h)
  BY <1>2, <1>6
<1> QED BY <1>7 DEF e

\* The rest of a stream delivers the rest.
LEMMA DeliversRest ==
  ASSUME NEW h \in Seq(Pods), NEW s \in Seq(PodEvent), NEW r \in Nat, NEW staged, NEW complete \in BOOLEAN,
         staged = [p \in Pod |-> staged[p]],
         Delivers(h, s, r, staged, complete), s # <<>>, s[1].type # "BAD"
  PROVE  Delivers(h, Tail(s), s[1].at, Staged(staged, s[1]), complete \/ s[1].type = "SYNC")
<1> DEFINE e == s[1]
           t == Tail(s)
<1>1. /\ Len(s) \in Nat /\ Len(s) >= 1 /\ t \in Seq(PodEvent) /\ Len(t) = Len(s) - 1
      /\ \A i \in 1..Len(t) : t[i] = s[i + 1]
  BY SMT
<1> HIDE DEF e, t
<1>2. ASSUME NEW i \in 1..Len(t), NEW j, j = i + 1, Following(h, s, r, j)
      PROVE  Following(h, t, e.at, i)
  <2>1. i # 0 /\ j # 0 /\ j - 1 = i
    BY <1>1, <1>2, SMT
  <2>2. (i - 1 = 0 /\ i = 1) \/ (i - 1 # 0 /\ t[i - 1] = s[i])
    <3>1. Len(t) \in Nat
      BY <1>1, SMT
    <3>2. (i - 1 = 0 /\ i = 1) \/ (i - 1 # 0 /\ i - 1 \in 1..Len(t) /\ (i - 1) + 1 = i)
      BY <3>1, SMT
    <3> QED BY <1>1, <3>2
  <2>3. t[i] = s[j]
    BY <1>1, <1>2
  <2>4. Moment(t, e.at, i) = Moment(s, r, j) /\ Moment(t, e.at, i - 1) = Moment(s, r, j - 1)
    BY <2>1, <2>2, <2>3 DEF Moment, e
  <2> QED BY <1>2, <2>3, <2>4 DEF Following
<1>3. CASE complete
  <2>1. r \in 1..Len(h) /\ staged = Watch!View(h[r]) /\ \A i \in 1..Len(s) : Following(h, s, r, i)
    BY <1>3 DEF Delivers
  <2>2. 1 \in 1..Len(s) /\ \A i \in 1..Len(t) : i + 1 \in 1..Len(s)
    BY <1>1, SMT
  <2>3. e.at \in 1..Len(h) /\ Staged(staged, e) = Watch!View(h[e.at])
    BY <2>1, <2>2, ChangeStaged DEF e
  <2>4. \A i \in 1..Len(t) : Following(h, t, e.at, i)
    BY <1>2, <2>1, <2>2
  <2> QED BY <1>3, <2>3, <2>4 DEF Delivers, e, t
<1>4. CASE ~complete
  <2>1. PICK k \in 1..Len(s), m \in 1..Len(h) : Listing(h, s, r, staged, k, m)
    BY <1>4 DEF Delivers
  <2>2. h[m] \in Pods
    BY SMT
  <2>3. CASE k = 1
    <3>1. e.type = "SYNC" /\ e.at = m /\ Staged(staged, e) = staged
      BY <2>1, <2>3 DEF Listing, Staged, e
    <3>2. \A i \in 1..(k - 1) : FALSE
      BY <2>3, SMT
    <3>3. staged = Watch!View(h[m])
      BY <2>1, <3>2 DEF Listing, Watch!View
    <3>4. \A i \in 1..Len(t) : i + 1 \in (k + 1)..Len(s)
      BY <1>1, <2>3, SMT
    <3>5. \A i \in 1..Len(t) : Following(h, t, e.at, i)
      BY <1>2, <2>1, <3>4 DEF Listing
    <3> QED BY <3>1, <3>3, <3>5 DEF Delivers, e, t
  <2>4. CASE k # 1
    <3>1. /\ 1 \in 1..(k - 1) /\ k - 1 \in 1..Len(t) /\ t[k - 1] = s[k]
          /\ \A i \in 1..((k - 1) - 1) : i + 1 \in 1..(k - 1) /\ i \in 1..Len(t)
          /\ \A i \in 1..(k - 1) : i = 1 \/ (i - 1 \in 1..((k - 1) - 1) /\ t[i - 1] = s[i])
          /\ \A i \in ((k - 1) + 1)..Len(t) : i + 1 \in (k + 1)..Len(s) /\ i \in 1..Len(t)
      <4>0. Len(s) \in Nat /\ Len(t) \in Nat /\ Len(t) = Len(s) - 1
        BY <1>1, SMT
      <4>1. /\ 1 \in 1..(k - 1) /\ k - 1 \in 1..Len(t) /\ (k - 1) + 1 = k
            /\ \A i \in 1..((k - 1) - 1) : i + 1 \in 1..(k - 1) /\ i \in 1..Len(t)
            /\ \A i \in ((k - 1) + 1)..Len(t) : i + 1 \in (k + 1)..Len(s) /\ i \in 1..Len(t)
        BY <4>0, <2>4, SMT
      <4>2. \A i \in 1..(k - 1) :
              i = 1 \/ (i - 1 \in 1..((k - 1) - 1) /\ i - 1 \in 1..Len(t) /\ (i - 1) + 1 = i)
        BY <4>0, <2>4, SMT
      <4> QED BY <1>1, <4>1, <4>2
    <3>2. /\ e.pod \in Pod /\ e.at = m /\ e.type = "ADDED" /\ e.status = h[m][e.pod] /\ e.status # None
      BY <2>1, <3>1 DEF Listing, Initial, e
    <3>3. Staged(staged, e) = [staged EXCEPT ![e.pod] = Watch!project(e.status)]
      BY <3>2, SMT DEF Staged
    <3>4. Watch!View(h[m])[e.pod] = Watch!project(e.status)
      BY <3>2 DEF Watch!View
    <3>5. ASSUME NEW p \in Pod
          PROVE  \/ Staged(staged, e)[p] = Watch!View(h[m])[p]
                 \/ \E i \in 1..((k - 1) - 1) : t[i].pod = p
      <4>1. CASE p = e.pod
        <5>1. Staged(staged, e)[p] = Watch!project(e.status)
          BY <3>2, <3>3, <4>1
        <5> QED BY <3>4, <4>1, <5>1
      <4>2. CASE p # e.pod
        <5>1. Staged(staged, e)[p] = staged[p]
          BY <3>3, <4>2
        <5>2. staged[p] = Watch!View(h[m])[p] \/ \E i \in 1..(k - 1) : s[i].pod = p
          BY <2>1 DEF Listing
        <5>3. ASSUME NEW i \in 1..(k - 1), s[i].pod = p
              PROVE  \E j \in 1..((k - 1) - 1) : t[j].pod = p
          BY <3>1, <4>2, <5>3 DEF e
        <5> QED BY <5>1, <5>2, <5>3
      <4> QED BY <4>1, <4>2
    <3>6. ASSUME NEW i \in 1..((k - 1) - 1)
          PROVE  Initial(h, t, i, m)
      <4>1. Initial(h, s, i + 1, m) /\ t[i] = s[i + 1]
        BY <1>1, <2>1, <3>1 DEF Listing
      <4> QED BY <4>1, InitialCarries
    <3>7. \A i \in ((k - 1) + 1)..Len(t) : Following(h, t, e.at, i)
      BY <1>2, <2>1, <3>1 DEF Listing
    <3>8. t[k - 1].type = "SYNC" /\ t[k - 1].at = m
      BY <2>1, <3>1 DEF Listing
    <3>9. Listing(h, t, e.at, Staged(staged, e), k - 1, m)
      BY <3>5, <3>6, <3>7, <3>8 DEF Listing
    <3>10. ~(complete \/ e.type = "SYNC")
      BY <1>4, <3>2
    <3> QED BY <3>1, <3>9, <3>10 DEF Delivers, e, t
  <2> QED BY <2>3, <2>4
<1> QED BY <1>3, <1>4

\* A list in any order, ended by its marker, delivers all of the last moment.
LEMMA InitialDelivers ==
  ASSUME past \in Seq(Pods), past # <<>>, NEW s \in Watch!InitialEvents
  PROVE  /\ s \in Seq(PodEvent) /\ Delivers(past, s, 0, Watch!NoPods, FALSE)
         /\ Moment(s, 0, Len(s)) = Len(past)
<1> DEFINE h == past[Len(past)]
           present == {p \in Pod : h[p] # None}
           m == Len(past)
<1>1. m \in Nat /\ m \in 1..Len(past) /\ h \in Pods
  BY SMT
<1>2. PICK n \in 0..Watch!Cardinality(Pod) : \E order \in [1..n -> present] :
        /\ \A p \in present : \E i \in DOMAIN order : order[i] = p
        /\ s = Append([i \in DOMAIN order |-> Watch!Event("ADDED", order[i], h[order[i]])],
                      Watch!Event("SYNC", None, None))
  <2>1. PICK order \in UNION {[1..n -> present] : n \in 0..Watch!Cardinality(Pod)} :
          /\ \A p \in present : \E i \in DOMAIN order : order[i] = p
          /\ s = Append([i \in DOMAIN order |-> Watch!Event("ADDED", order[i], h[order[i]])],
                        Watch!Event("SYNC", None, None))
    BY DEF Watch!InitialEvents, Watch!Kubelet
  <2> QED BY <2>1
<1>0. n \in Nat
  BY <1>2, PodsAssumption, SMT DEF Watch!WatcherAssumption
<1>3. PICK order \in [1..n -> present] :
        /\ \A p \in present : \E i \in DOMAIN order : order[i] = p
        /\ s = Append([i \in DOMAIN order |-> Watch!Event("ADDED", order[i], h[order[i]])],
                      Watch!Event("SYNC", None, None))
  BY <1>2
<1> DEFINE l == [i \in 1..n |-> [type |-> "ADDED", pod |-> order[i], status |-> h[order[i]], at |-> m]]
<1>4. \A i \in 1..n : order[i] \in Pod /\ h[order[i]] # None /\ h[order[i]] \in Status \cup {None}
  BY <1>1, <1>3 DEF Pods
<1>5. \A i \in 1..n : /\ l[i].type = "ADDED" /\ l[i].pod = order[i] /\ l[i].status = h[order[i]]
                      /\ l[i].at = m
  OBVIOUS
<1> HIDE DEF h, m
<1>6. l \in [1..n -> PodEvent]
  <2>1. \A i \in 1..n : [type |-> "ADDED", pod |-> order[i], status |-> h[order[i]], at |-> m] \in PodEvent
    BY <1>1, <1>4, SMT DEF PodEvent
  <2> QED BY <2>1
<1> HIDE DEF l
<1>7. l \in Seq(PodEvent) /\ Len(l) = n
  BY <1>0, <1>6, SMT
<1> DEFINE e == [type |-> "SYNC", pod |-> None, status |-> None, at |-> m]
<1>8. e \in PodEvent
  BY <1>1, SMT DEF PodEvent
<1>9. s = Append(l, e)
  <2>1. DOMAIN order = 1..n
    BY <1>3
  <2> QED BY <1>3, <2>1 DEF Watch!Event, l, m
<1> HIDE DEF e
<1>10. /\ s \in Seq(PodEvent) /\ Len(s) = n + 1 /\ s[n + 1] = e
       /\ \A i \in 1..n : s[i] = l[i]
  BY <1>0, <1>7, <1>8, <1>9, SMT
<1>11. /\ n + 1 \in 1..Len(s) /\ (n + 1) - 1 = n /\ n + 1 # 0
       /\ \A i \in ((n + 1) + 1)..Len(s) : FALSE
  BY <1>0, <1>10, SMT
<1>12. e.type = "SYNC" /\ e.at = m
  BY DEF e
<1>13. ASSUME NEW i \in 1..n
       PROVE  Initial(past, s, i, m)
  <2>1. /\ s[i].type = "ADDED" /\ s[i].pod = order[i] /\ s[i].status = h[order[i]] /\ s[i].at = m
    BY <1>5, <1>10
  <2> QED BY <1>4, <2>1 DEF Initial, h, m
<1>14. ASSUME NEW p \in Pod
       PROVE  Watch!NoPods[p] = Watch!View(h)[p] \/ \E i \in 1..n : s[i].pod = p
  <2>1. CASE h[p] = None
    BY <2>1 DEF Watch!NoPods, Watch!View
  <2>2. CASE h[p] # None
    <3>1. PICK i \in DOMAIN order : order[i] = p
      BY <1>3, <2>2
    <3>2. i \in 1..n
      BY <1>3, <3>1
    <3>3. s[i].pod = p
      BY <1>5, <1>10, <3>1, <3>2
    <3> QED BY <3>2, <3>3
  <2> QED BY <2>1, <2>2
<1>15. Listing(past, s, 0, Watch!NoPods, n + 1, m)
  BY <1>10, <1>11, <1>12, <1>13, <1>14 DEF Listing, h, m
<1>16. Delivers(past, s, 0, Watch!NoPods, FALSE)
  BY <1>1, <1>11, <1>15 DEF Delivers
<1>17. Moment(s, 0, Len(s)) = m
  BY <1>10, <1>11, <1>12 DEF Moment
<1> QED BY <1>10, <1>16, <1>17 DEF m

\* The next event does not decode.
Spoiled(s) == [s EXCEPT ![1].type = "BAD"]

\* An event that no longer decodes is not consumed, and the others keep their places.
LEMMA DeliversCorrupt ==
  ASSUME NEW h \in Seq(Pods), NEW s \in Seq(PodEvent), NEW r \in Nat, NEW staged, NEW complete \in BOOLEAN,
         Delivers(h, s, r, staged, complete), s # <<>>, s[1].type # "SYNC"
  PROVE  /\ Spoiled(s) \in Seq(PodEvent) /\ Delivers(h, Spoiled(s), r, staged, complete)
         /\ Moment(Spoiled(s), r, Len(Spoiled(s))) = Moment(s, r, Len(s))
<1> DEFINE t == Spoiled(s)
<1>1. /\ Len(s) \in Nat /\ 1 \in 1..Len(s) /\ DOMAIN s = 1..Len(s)
      /\ \A i \in 1..Len(s) : s[i] \in PodEvent
  BY SMT
<1>2. \A i \in 1..Len(s) : /\ t[i] \in PodEvent /\ t[i].pod = s[i].pod /\ t[i].status = s[i].status
                           /\ t[i].at = s[i].at /\ t[i].type \in {s[i].type, "BAD"}
                           /\ i # 1 => t[i] = s[i]
  BY <1>1, SMT DEF PodEvent, Spoiled
<1>3. t \in [1..Len(s) -> PodEvent]
  BY <1>1, <1>2 DEF Spoiled
<1> HIDE DEF t
<1>4. t \in Seq(PodEvent) /\ Len(t) = Len(s)
  BY <1>1, <1>3, SMT
<1>5. \A i \in 0..Len(s) : Moment(t, r, i) = Moment(s, r, i)
  <2>1. \A i \in 0..Len(s) : i = 0 \/ i \in 1..Len(s)
    BY <1>1, SMT
  <2> QED BY <1>2, <2>1 DEF Moment
<1>6. ASSUME NEW i \in 1..Len(s), Following(h, s, r, i)
      PROVE  Following(h, t, r, i)
  <2>1. i \in 0..Len(s) /\ i - 1 \in 0..Len(s)
    BY <1>1, SMT
  <2>2. Moment(t, r, i) = Moment(s, r, i) /\ Moment(t, r, i - 1) = Moment(s, r, i - 1)
    BY <1>5, <2>1
  <2>3. t[i].pod = s[i].pod /\ t[i].status = s[i].status /\ t[i].type \in {s[i].type, "BAD"}
    BY <1>2
  <2> QED BY <1>6, <2>2, <2>3, FollowingCarries
<1>7. Delivers(h, t, r, staged, complete)
  <2>1. CASE complete
    BY <1>4, <1>6, <2>1 DEF Delivers
  <2>2. CASE ~complete
    <3>1. PICK k \in 1..Len(s), m \in 1..Len(h) : Listing(h, s, r, staged, k, m)
      BY <2>2 DEF Delivers
    <3>2. k # 1 /\ t[k] = s[k]
      BY <1>2, <3>1 DEF Listing
    <3>3. (\A i \in 1..(k - 1) : i \in 1..Len(s)) /\ \A i \in (k + 1)..Len(s) : i \in 1..Len(s)
      BY <1>1, SMT
    <3>4. ASSUME NEW i \in 1..(k - 1)
          PROVE  Initial(h, t, i, m)
      <4>1. Initial(h, s, i, m) /\ i \in 1..Len(s)
        BY <3>1, <3>3 DEF Listing
      <4>2. /\ t[i].pod = s[i].pod /\ t[i].status = s[i].status /\ t[i].at = s[i].at
            /\ t[i].type \in {s[i].type, "BAD"}
        BY <1>2, <4>1
      <4> QED BY <4>1, <4>2, InitialCarries
    <3>5. ASSUME NEW i \in (k + 1)..Len(t)
          PROVE  Following(h, t, r, i)
      BY <1>4, <1>6, <3>1, <3>3 DEF Listing
    <3>6. ASSUME NEW p \in Pod
          PROVE  staged[p] = Watch!View(h[m])[p] \/ \E i \in 1..(k - 1) : t[i].pod = p
      <4>1. staged[p] = Watch!View(h[m])[p] \/ \E i \in 1..(k - 1) : s[i].pod = p
        BY <3>1 DEF Listing
      <4>2. \A i \in 1..(k - 1) : t[i].pod = s[i].pod
        BY <1>2, <3>3
      <4> QED BY <4>1, <4>2
    <3>7. Listing(h, t, r, staged, k, m)
      BY <3>1, <3>2, <3>4, <3>5, <3>6 DEF Listing
    <3> QED BY <1>4, <2>2, <3>1, <3>7 DEF Delivers
  <2> QED BY <2>1, <2>2
<1>8. Len(s) \in 0..Len(s)
  BY <1>1, SMT
<1> QED BY <1>4, <1>5, <1>7, <1>8 DEF t

\* Nothing is staged or published before the first stream.
LEMMA WatchInit ==
  ASSUME Watch!Init
  PROVE  WatchInv
<1>1. PICK k \in Pods : past = <<k>>
  BY DEF Watch!Init, Pods
<1>2. past \in Seq(Pods) /\ past # <<>>
  BY <1>1, SMT
<1>3. stream \in Seq(PodEvent) /\ read \in Nat
  BY SMT DEF Watch!Init
<1>4. state = [p \in Pod |-> state[p]]
  BY DEF Watch!Init, Watch!NoPods
<1> QED BY <1>2, <1>3, <1>4 DEF Watch!Init, WatchInv, WatchType

\* A change of the kubelet is told at the end of an open stream.
LEMMA ChangeWatched ==
  ASSUME WatchInv, NEW p \in Pod, NEW v \in Status \cup {None}, Watch!Change(p, v)
  PROVE  WatchInv'
<1> DEFINE next == [past[Len(past)] EXCEPT ![p] = v]
           e == [type |-> IF v = None THEN "DELETED" ELSE "MODIFIED", pod |-> p, status |-> v,
                 at |-> Len(past) + 1]
<1>1. /\ past' = Append(past, next) /\ UNCHANGED <<pc, broken, state, synced, read, published>>
      /\ stream' = IF pc # "recv" \/ broken THEN stream ELSE Append(stream, e)
  BY DEF Watch!Change, Watch!Kubelet
<1>2. /\ WatchType /\ past \in Seq(Pods) /\ stream \in Seq(PodEvent) /\ past # <<>> /\ read \in Nat
      /\ synced \in BOOLEAN
  BY DEF WatchInv, WatchType
<1>3. Len(past) \in Nat /\ Len(past) \in 1..Len(past) /\ past[Len(past)] \in Pods /\ Len(stream) \in Nat
  BY <1>2, SMT
<1>4. next \in Pods
  BY <1>3 DEF Pods
<1>5. e \in PodEvent
  BY <1>3, SMT DEF PodEvent
<1> HIDE DEF next, e
<1>6. /\ past' \in Seq(Pods) /\ past' # <<>> /\ Len(past') = Len(past) + 1 /\ past'[Len(past) + 1] = next
      /\ \A a \in 1..Len(past) : a \in 1..Len(past') /\ past'[a] = past[a]
  <2>1. past' # <<>>
    BY <1>1, <1>2, <1>4, SMT
  <2>2. /\ Append(past, next) \in Seq(Pods) /\ Len(Append(past, next)) = Len(past) + 1
        /\ Append(past, next)[Len(past) + 1] = next
        /\ \A a \in 1..Len(past) : a \in 1..Len(Append(past, next)) /\ Append(past, next)[a] = past[a]
    BY <1>2, <1>4, SMT
  <2> QED BY <1>1, <2>1, <2>2
<1>7. CASE pc # "recv" \/ broken
  <2>1. stream' = stream
    BY <1>1, <1>7
  <2>2. \A i \in (Len(stream) + 1)..Len(stream) : FALSE
    BY <1>3, SMT
  <2>3. pc = "recv" => Delivers(past', stream, read, state, synced)
    BY <1>2, <1>6, <2>2, DeliversGrows DEF WatchInv
  <2> QED BY <1>1, <1>2, <1>6, <1>7, <2>1, <2>3 DEF WatchInv, WatchType
<1>8. CASE pc = "recv" /\ ~broken
  <2>1. stream' = Append(stream, e)
    BY <1>1, <1>8
  <2>2. /\ stream' \in Seq(PodEvent) /\ Len(stream') = Len(stream) + 1 /\ stream'[Len(stream) + 1] = e
        /\ \A i \in 1..Len(stream) : i \in 1..Len(stream') /\ stream'[i] = stream[i]
    <3>1. /\ Append(stream, e) \in Seq(PodEvent) /\ Len(Append(stream, e)) = Len(stream) + 1
          /\ Append(stream, e)[Len(stream) + 1] = e
          /\ \A i \in 1..Len(stream) :
               i \in 1..Len(Append(stream, e)) /\ Append(stream, e)[i] = stream[i]
      BY <1>2, <1>5, SMT
    <3> QED BY <2>1, <3>1
  <2>3. /\ Moment(stream, read, Len(stream)) = Len(past)
        /\ Delivers(past, stream, read, state, synced)
    BY <1>8 DEF WatchInv
  <2>4. /\ Len(stream) + 1 # 0 /\ (Len(stream) + 1) - 1 = Len(stream)
        /\ Len(stream) = 0 \/ Len(stream) \in 1..Len(stream)
        /\ \A i \in (Len(stream) + 1)..(Len(stream) + 1) : i = Len(stream) + 1
        /\ Len(past) + 1 \in 1..(Len(past) + 1)
    BY <1>3, SMT
  <2>5. Moment(stream', read, Len(stream)) = Len(past)
    BY <2>2, <2>3, <2>4 DEF Moment
  <2>6. Moment(stream', read, Len(stream) + 1) = Len(past) + 1
    <3>1. e.at = Len(past) + 1
      BY DEF e
    <3> QED BY <2>2, <2>4, <3>1 DEF Moment
  <2>7. /\ e.pod = p /\ e.status = v /\ e.type = IF v = None THEN "DELETED" ELSE "MODIFIED"
        /\ next = [past[Len(past)] EXCEPT ![p] = v]
    BY DEF e, next
  <2>8. Following(past', stream', read, Len(stream) + 1)
    <3>1. Moment(stream', read, (Len(stream) + 1) - 1) = Len(past)
      BY <2>4, <2>5
    <3>2. /\ Len(past) \in 1..Len(past') /\ past'[Len(past)] = past[Len(past)]
          /\ Len(past) + 1 \in 1..Len(past')
      BY <1>3, <1>6, <2>4
    <3> QED BY <1>6, <2>2, <2>6, <2>7, <3>1, <3>2 DEF Following
  <2>9. \A i \in (Len(stream) + 1)..Len(stream') : Following(past', stream', read, i)
    BY <2>2, <2>4, <2>8
  <2>10. Delivers(past', stream', read, state, synced)
    BY <1>2, <1>6, <2>2, <2>3, <2>9, DeliversGrows
  <2>11. Moment(stream', read, Len(stream')) = Len(past')
    BY <1>6, <2>2, <2>6
  <2> QED BY <1>1, <1>2, <1>6, <2>2, <2>10, <2>11 DEF WatchInv, WatchType
<1> QED BY <1>7, <1>8

\* One event is received.
LEMMA ConsumeWatched ==
  ASSUME WatchInv, Watch!Consume
  PROVE  WatchInv'
<1> DEFINE e == stream[1]
<1>1. /\ WatchType /\ past \in Seq(Pods) /\ stream \in Seq(PodEvent) /\ stream # <<>> /\ read \in Nat
      /\ synced \in BOOLEAN /\ pc = "recv" /\ Delivers(past, stream, read, state, synced)
      /\ state = [p \in Pod |-> state[p]]
  BY DEF WatchInv, WatchType, Watch!Consume
<1>2. Head(stream) = e /\ e \in PodEvent /\ Tail(stream) \in Seq(PodEvent)
  BY <1>1, SMT
<1>3. /\ e.type # "BAD" /\ synced' = (synced \/ e.type = "SYNC") /\ state' = Staged(state, e)
      /\ read' = e.at /\ stream' = Tail(stream) /\ past' = past /\ pc' = pc /\ broken' = broken
      /\ published' = IF synced' THEN state' ELSE published
  BY <1>2 DEF Watch!Consume, Watch!Announce, Watch!Publish, Staged
<1>4. Delivers(past', stream', read', state', synced')
  BY <1>1, <1>3, DeliversRest
<1>5. read' \in Nat
  BY <1>2, <1>3 DEF PodEvent
<1>6. Moment(stream', read', Len(stream')) = Moment(stream, read, Len(stream))
  <2>1. /\ Len(stream) \in Nat /\ Len(stream) # 0 /\ Len(Tail(stream)) = Len(stream) - 1
        /\ \A i \in 1..Len(Tail(stream)) : Tail(stream)[i] = stream[i + 1]
    BY <1>1, SMT
  <2>2. CASE Len(stream) = 1
    <3>1. Len(Tail(stream)) = 0
      BY <2>1, <2>2, SMT
    <3> QED BY <1>3, <2>1, <2>2, <3>1 DEF Moment
  <2>3. CASE Len(stream) # 1
    <3>1. /\ Len(stream) - 1 # 0 /\ (Len(stream) - 1) + 1 = Len(stream)
          /\ Len(stream) - 1 \in 1..(Len(stream) - 1)
      <4>1. \A n \in Nat : n # 0 /\ n # 1 => n - 1 # 0 /\ (n - 1) + 1 = n /\ n - 1 \in 1..(n - 1)
        BY SMT
      <4> QED BY <2>1, <2>3, <4>1
    <3>2. Tail(stream)[Len(stream) - 1] = stream[Len(stream)]
      BY <2>1, <3>1
    <3> QED BY <1>3, <2>1, <3>1, <3>2 DEF Moment
  <2> QED BY <2>2, <2>3
<1>7. state' = [p \in Pod |-> state'[p]]
  <2>1. Staged(state, e) \in {state} \cup {[state EXCEPT ![e.pod] = x] : x \in {None, Watch!project(e.status)}}
    BY SMT DEF Staged
  <2>2. \A x : LET f == [state EXCEPT ![e.pod] = x] IN f = [p \in Pod |-> f[p]]
    BY <1>1
  <2> HIDE DEF e
  <2> QED BY <1>1, <1>3, <2>1, <2>2
<1>8. published' = IF synced' THEN state' ELSE Watch!NoPods
  BY <1>3 DEF WatchInv
<1> HIDE DEF e
<1>9. synced' \in BOOLEAN
  BY <1>3
<1>10. WatchType'
  BY <1>1, <1>2, <1>3, <1>5, <1>7, <1>9 DEF WatchType
<1>11. ~broken' => Moment(stream', read', Len(stream')) = Len(past')
  BY <1>1, <1>3, <1>6 DEF WatchInv
<1> QED BY <1>1, <1>3, <1>4, <1>8, <1>10, <1>11 DEF WatchInv

\* Every step keeps the invariant.
LEMMA WatchStep ==
  ASSUME WatchInv, [Watch!Next]_Watch!vars
  PROVE  WatchInv'
<1>1. CASE UNCHANGED Watch!vars
  BY <1>1 DEF WatchInv, WatchType, Watch!vars, Watch!streaming
<1>2. ASSUME NEW p \in Pod, NEW v \in Status \cup {None}, Watch!Change(p, v)
      PROVE  WatchInv'
  BY <1>2, ChangeWatched
<1>3. CASE Watch!Break
  <2>1. pc = "recv" /\ broken' = TRUE /\ UNCHANGED <<past, pc, stream, state, synced, read, published>>
    BY <1>3 DEF Watch!Break
  <2> QED BY <2>1 DEF WatchInv, WatchType
<1>4. CASE Watch!Corrupt
  <2>1. /\ stream # <<>> /\ Head(stream).type # "SYNC" /\ stream' = Spoiled(stream)
        /\ pc = "recv" /\ UNCHANGED <<past, pc, broken, state, synced, read, published>>
    BY <1>4 DEF Watch!Corrupt, Spoiled
  <2>2. /\ past \in Seq(Pods) /\ stream \in Seq(PodEvent) /\ read \in Nat /\ synced \in BOOLEAN
        /\ Delivers(past, stream, read, state, synced)
    BY <2>1 DEF WatchInv, WatchType
  <2>3. stream[1].type # "SYNC"
    <3>1. Head(stream) = stream[1]
      BY <2>1, <2>2, SMT
    <3> QED BY <2>1, <3>1
  <2>4. /\ Spoiled(stream) \in Seq(PodEvent) /\ Delivers(past, Spoiled(stream), read, state, synced)
        /\ Moment(Spoiled(stream), read, Len(Spoiled(stream))) = Moment(stream, read, Len(stream))
    <3>1. stream # <<>>
      BY <2>1
    <3> QED BY <2>2, <2>3, <3>1, DeliversCorrupt
  <2> QED BY <2>1, <2>4 DEF WatchInv, WatchType
<1>5. CASE Watch!Cancel
  BY <1>5 DEF Watch!Cancel, Watch!streaming, WatchInv, WatchType
<1>6. CASE Watch!Dial
  <2>1. /\ pc = "dial" /\ pc' \in {"watch", "done"} /\ published' \in {published, Watch!NoPods}
        /\ UNCHANGED <<past, stream, state, synced, read>>
    BY <1>6 DEF Watch!Dial, Watch!Publish, Watch!streaming
  <2>2. ~synced
    BY <2>1 DEF WatchInv
  <2> QED BY <2>1, <2>2 DEF WatchInv, WatchType
<1>7. CASE Watch!Watch
  <2>1. pc = "watch" /\ past' = past /\ past \in Seq(Pods) /\ past # <<>>
    BY <1>7 DEF Watch!Watch, WatchInv, WatchType
  <2>2. ~synced /\ published = Watch!NoPods
    BY <2>1 DEF WatchInv
  <2>3. CASE /\ pc' = "recv" /\ stream' \in Watch!InitialEvents /\ broken' = FALSE
             /\ state' = Watch!NoPods /\ synced' = FALSE /\ read' = 0 /\ published' = published
    <3>1. /\ stream' \in Seq(PodEvent) /\ Delivers(past, stream', 0, Watch!NoPods, FALSE)
          /\ Moment(stream', 0, Len(stream')) = Len(past)
      BY <2>1, <2>3, InitialDelivers
    <3>2. 0 \in Nat
      BY SMT
    <3>3. WatchType'
      BY <2>1, <2>3, <3>1, <3>2 DEF WatchType, Watch!NoPods
    <3> QED BY <2>1, <2>2, <2>3, <3>1, <3>3 DEF WatchInv
  <2>4. CASE /\ pc' \in {"delay", "done"} /\ published' \in {published, Watch!NoPods}
             /\ UNCHANGED <<stream, state, synced, read>>
    BY <2>1, <2>2, <2>4 DEF WatchInv, WatchType
  <2> QED BY <1>7, <2>3, <2>4 DEF Watch!Watch, Watch!Disconnected, Watch!Publish, Watch!streaming
<1>8. CASE Watch!Consume
  BY <1>8, ConsumeWatched
<1>9. CASE Watch!Interrupted
  <2>1. /\ pc' \in {"delay", "done"} /\ published' = Watch!NoPods /\ past' = past
        /\ stream' = <<>> /\ synced' = FALSE /\ state' = Watch!NoPods /\ read' = read
    BY <1>9 DEF Watch!Interrupted, Watch!Disconnected, Watch!Publish
  <2>2. stream' \in Seq(PodEvent)
    BY <2>1, SMT
  <2>3. WatchType'
    BY <2>1, <2>2 DEF WatchInv, WatchType, Watch!NoPods
  <2> QED BY <2>1, <2>3 DEF WatchInv
<1>10. CASE Watch!Retry
  <2>1. /\ pc = "delay" /\ pc' \in {"watch", "done"}
        /\ UNCHANGED <<past, stream, state, synced, read, published>>
    BY <1>10 DEF Watch!Retry, Watch!streaming
  <2> QED BY <2>1 DEF WatchInv, WatchType
<1>11. CASE Watch!TakeHint
  BY <1>11 DEF Watch!TakeHint, Watch!streaming, WatchInv, WatchType
<1> QED BY <1>1, <1>2, <1>3, <1>4, <1>5, <1>6, <1>7, <1>8, <1>9, <1>10, <1>11 DEF Watch!Next, Watch!Watcher

\* Staged Pods and stream always amount to the Pods of one moment (watcher.go, consume).
THEOREM WatchInvariant == Watch!Spec => []WatchInv
BY WatchInit, WatchStep, PTL DEF Watch!Spec

\* The controller sees no Pods or all Pods of one moment of the kubelet: a half-read list
\* and the view of a lost stream are never visible (watcher.go, consume and Run).
THEOREM ViewIsComplete == Watch!Spec => []Watch!ViewComplete
<1>1. WatchInv => Watch!ViewComplete
  BY DEF WatchInv, Delivers, Watch!ViewComplete
<1> QED BY <1>1, WatchInvariant, PTL
=============================================================================
