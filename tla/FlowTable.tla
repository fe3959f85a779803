------------------------------ MODULE FlowTable ------------------------------
(***************************************************************************)
(* The flow tracking of the eBPF program (dataplane.bpf.c) for one Service *)
(* port: several CPUs translate packets of several flows over two shared   *)
(* LRU maps.  forward maps a flow to the backend and source port it was    *)
(* given; reverse maps that tuple back to the flow, so that replies find   *)
(* their client.  A flow is its key; a lookup, an update and a delete are  *)
(* each atomic, and everything between two of them may be interleaved.     *)
(***************************************************************************)
EXTENDS Naturals, Sequences, FiniteSets

CONSTANTS CPU, Flow, Backend, None,
          hash,            \* the hash of a flow's key
          Ports,           \* size of the source port range: 2768
          Attempts,        \* probes per packet: 32
          Tables,          \* the backend ranges the agent may publish
          MaxSwitch, MaxEvict

ASSUME FlowAssumption ==
  /\ hash \in [Flow -> Nat] /\ Ports \in Nat \ {0} /\ Attempts \in Nat \ {0}
  /\ Tables \subseteq Seq(Backend) /\ None \notin Flow

VARIABLES forward, reverse, ready, cpu, out, sent, switches, evictions

vars == <<forward, reverse, ready, cpu, out, sent, switches, evictions>>

Tuple == Backend \X (0..(Ports - 1))

\* What a CPU holds of the packet it handles.
Packet(pc, f, t, n, o) == [pc |-> pc, flow |-> f, tuple |-> t, attempt |-> n, owner |-> o]

Idle == Packet("idle", None, None, 0, FALSE)

Init ==
  /\ forward = [f \in Flow |-> None]
  /\ reverse = [t \in Tuple |-> None]
  /\ ready \in Tables
  /\ cpu = [c \in CPU |-> Idle]
  /\ out = None /\ sent = {}
  /\ switches = 0 /\ evictions = 0

Drop(c) == cpu' = [cpu EXCEPT ![c] = Idle]
Move(c, pc) ==
  LET a == cpu[c] IN cpu' = [cpu EXCEPT ![c] = Packet(pc, a.flow, a.tuple, a.attempt, a.owner)]

\* The packet leaves, translated to tuple t.
Emit(c, t) ==
  /\ out' = <<t, cpu[c].flow>>
  /\ sent' = sent \cup {<<t, cpu[c].flow>>}
  /\ Drop(c)

reverse_matches(t, f) == reverse[t] = f

\* A packet of f arrives: a Service without backends drops it, a tracked flow is
\* checked, a new one gets a backend and a first source port from its hash.
Receive(c, f) ==
  /\ cpu[c].pc = "idle"
  /\ ready # <<>>
  /\ cpu' = [cpu EXCEPT ![c] =
       IF forward[f] # None THEN Packet("check", f, forward[f], 0, FALSE)
       ELSE Packet("probe", f, <<ready[1 + (hash[f] % Len(ready))], hash[f] % Ports>>, 0, FALSE)]
  /\ UNCHANGED <<forward, reverse, ready, out, sent, switches, evictions>>

\* The end of a probe: the next port of the sequence, unless the update raced
\* and continue skipped the advance.
NextProbe(c, advance) ==
  LET a == cpu[c]
  IN  IF a.attempt + 1 = Attempts THEN Drop(c)
      ELSE cpu' = [cpu EXCEPT ![c] =
             Packet("probe", a.flow,
                    IF advance THEN <<a.tuple[1], (hash[a.flow] + a.attempt + 1) % Ports>> ELSE a.tuple,
                    a.attempt + 1, a.owner)]

\* A tuple of this flow is taken over, a free one claimed, another's passed by.
Probe(c) ==
  /\ cpu[c].pc = "probe"
  /\ LET a == cpu[c]
     IN  IF reverse[a.tuple] = None THEN Move(c, "claim")
         ELSE IF reverse_matches(a.tuple, a.flow) THEN Move(c, "bind")
         ELSE NextProbe(c, TRUE)
  /\ UNCHANGED <<forward, reverse, ready, out, sent, switches, evictions>>

\* Mutant of Claimable: the update does not say BPF_NOEXIST.
ClaimableAny(t) == TRUE

\* BPF_NOEXIST
Claimable(t) == reverse[t] = None

Claim(c) ==
  /\ cpu[c].pc = "claim"
  /\ LET a == cpu[c]
     IN  IF Claimable(a.tuple)
         THEN /\ reverse' = [reverse EXCEPT ![a.tuple] = a.flow]
              /\ cpu' = [cpu EXCEPT ![c] = Packet("bind", a.flow, a.tuple, a.attempt, TRUE)]
         ELSE NextProbe(c, FALSE) /\ UNCHANGED reverse
  /\ UNCHANGED <<forward, ready, out, sent, switches, evictions>>

\* The forward entry is written; when that fails a claimed tuple is given back.
Bind(c) ==
  /\ cpu[c].pc = "bind"
  /\ LET a == cpu[c]
     IN  \/ /\ forward' = [forward EXCEPT ![a.flow] = a.tuple]
            /\ Move(c, "look")
            /\ UNCHANGED <<reverse, evictions>>
         \/ /\ evictions < MaxEvict /\ evictions' = evictions + 1
            /\ reverse' = IF a.owner THEN [reverse EXCEPT ![a.tuple] = None] ELSE reverse
            /\ Drop(c)
            /\ UNCHANGED forward
  /\ UNCHANGED <<ready, out, sent, switches>>

\* The forward entry is read back; another CPU's may have replaced it.
Look(c) ==
  /\ cpu[c].pc = "look"
  /\ LET a == cpu[c]
         t == forward[a.flow]
     IN  IF t = None THEN Drop(c)
         ELSE cpu' = [cpu EXCEPT ![c] = Packet("check", a.flow, t, a.attempt, a.owner)]
  /\ UNCHANGED <<forward, reverse, ready, out, sent, switches, evictions>>

\* Mutant of Forget: the forward entry stays.
ForgetNot(c) == Drop(c) /\ UNCHANGED <<forward, out, sent>>

\* The packet is dropped and its flow starts over with the next one.
Forget(c) == forward' = [forward EXCEPT ![cpu[c].flow] = None] /\ Drop(c) /\ UNCHANGED <<out, sent>>

\* The packet goes out if the reverse entry is there and this flow's; a missing one
\* is repaired, another's makes the flow start over.
Check(c) ==
  /\ cpu[c].pc \in {"check", "recheck"}
  /\ LET a == cpu[c]
     IN  IF reverse[a.tuple] = None /\ a.pc = "check"
         THEN Move(c, "repair") /\ UNCHANGED <<forward, out, sent>>
         ELSE IF reverse_matches(a.tuple, a.flow) THEN Emit(c, a.tuple) /\ UNCHANGED forward
         ELSE Forget(c)
  /\ UNCHANGED <<reverse, ready, switches, evictions>>

\* One-sided eviction is repaired, again with BPF_NOEXIST.
Repair(c) ==
  /\ cpu[c].pc = "repair"
  /\ LET a == cpu[c]
     IN  IF Claimable(a.tuple)
         THEN /\ reverse' = [reverse EXCEPT ![a.tuple] = a.flow]
              /\ Move(c, "recheck")
              /\ UNCHANGED <<forward, out, sent>>
         ELSE Forget(c) /\ UNCHANGED reverse
  /\ UNCHANGED <<ready, switches, evictions>>

\* The LRU maps evict single entries.
EvictForward(f) ==
  /\ forward[f] # None
  /\ evictions < MaxEvict /\ evictions' = evictions + 1
  /\ forward' = [forward EXCEPT ![f] = None]
  /\ UNCHANGED <<reverse, ready, cpu, out, sent, switches>>

EvictReverse(t) ==
  /\ reverse[t] # None
  /\ evictions < MaxEvict /\ evictions' = evictions + 1
  /\ reverse' = [reverse EXCEPT ![t] = None]
  /\ UNCHANGED <<forward, ready, cpu, out, sent, switches>>

\* The agent activates another table; the flow maps are carried over.
Switch ==
  /\ switches < MaxSwitch /\ switches' = switches + 1
  /\ ready' \in Tables \ {ready}
  /\ UNCHANGED <<forward, reverse, cpu, out, sent, evictions>>

Step(c) == Probe(c) \/ Claim(c) \/ Bind(c) \/ Look(c) \/ Check(c) \/ Repair(c)

Next ==
  \/ \E c \in CPU : Step(c) \/ \E f \in Flow : Receive(c, f)
  \/ \E f \in Flow : EvictForward(f)
  \/ \E t \in Tuple : EvictReverse(t)
  \/ Switch

\* A CPU finishes the packet it handles, and every flow keeps sending.
Fairness ==
  /\ \A c \in CPU : WF_vars(Step(c))
  /\ \A f \in Flow : SF_vars(\E c \in CPU : Receive(c, f))

Spec == Init /\ [][Next]_vars /\ Fairness

-----------------------------------------------------------------------------
(* Properties *)

\* While nothing is evicted no two flows are ever sent under one tuple, so a backend's
\* replies belong to one client, whatever the CPUs interleave and whichever backends
\* are published in between.
OneFlowPerTuple ==
  evictions = 0 => \A x, y \in sent : x[1] = y[1] => x[2] = y[2]

\* Also under eviction a packet only leaves under a tuple its flow owns at that moment:
\* a flow whose tuple was given to another stops using it.
SentByOwner == [][out' # out => reverse[out'[1]] = out'[2]]_vars

\* Every flow that keeps sending keeps getting through, however evictions, races and
\* stolen tuples set it back.
FlowsRecover ==
  \A f \in Flow : []<>(ready = <<>>) \/ []<>(out # None /\ out[2] = f)
=============================================================================
