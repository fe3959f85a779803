---------------------------- MODULE Coordinator ----------------------------
(***************************************************************************)
(* Service coordination between the agents of a cluster                    *)
(* (internal/agent/coordinator/coordinator.go): the registry and leases of *)
(* the elected leader, the fenced publication of complete snapshots to the *)
(* object dns/services.pb, and the snapshot every agent has applied.       *)
(*                                                                         *)
(* One agent process per node runs several goroutines: Run (the main       *)
(* loop), one handler per incoming stream, and follow (the stream to the   *)
(* leader).  acquire and publish hold publishMu; their steps are separate  *)
(* actions wherever another process or goroutine can interfere.            *)
(*                                                                         *)
(* Streams are modelled by what they can deliver: a Hello, NodeState or    *)
(* Drain of any session may reach any node at any time, and a snapshot     *)
(* that some node sent may reach any node at any later time, or never.     *)
(***************************************************************************)
EXTENDS ServiceView, Integers

CONSTANTS
  Agent,        \* nodes whose process is modelled; the others only send messages
  Session,      \* identifiers of follower streams, one Hello each
  sessionNode,  \* sessionNode[s] is the authenticated node behind session s
  MaxRev,       \* bound on revisions within a generation
  MaxSeq,       \* bound on NodeState sequence numbers
  MaxAttempts,  \* conditional writes acquire tries before it gives up
  MaxElections, \* bound on elections
  MaxChanges,   \* bound on changes of Services and Pods
  MaxFaults     \* bound on storage errors, dataplane errors, stops and crashes

ASSUME AgentAssumption == Agent \subseteq Node

ASSUME SessionAssumption ==
  /\ sessionNode \in [Session -> Node]
  /\ Session \cap Node = {}
  /\ None \notin Session \cup Node
  /\ "run" \notin Session

ASSUME BoundAssumption ==
  /\ MaxRev \in Nat /\ MaxSeq \in Nat
  /\ MaxAttempts \in Nat /\ MaxElections \in Nat /\ MaxChanges \in Nat
  /\ MaxFaults \in Nat

VARIABLES
  (* object storage *)
  durable,      \* the snapshot stored at dns/services.pb, or None
  inflight,     \* conditional writes reported as failed that may still land
  (* the elector *)
  leads,        \* nodes whose IsLeader() is true; may be several or none
  (* one coordinator per node *)
  snapshot,     \* last applied snapshot, or None
  generation,   \* generation acquired by this process, 0 if none
  wasLeader,    \* Run has acquired a generation for this leadership
  leaderReady,  \* handle accepts messages
  nodes,        \* registry: last Hello, and state, of every node, or None
  sessions,     \* node registered under a session, or None
  staleCleared, \* leased backends were withdrawn after 35 s of silence
  fatal,        \* a dataplane error was posted to Run
  (* its controller *)
  desired,      \* configuration set by the reconciler
  ready,        \* desired Services that select an eligible local Pod
  notified,     \* a coalesced change notification is queued for Run
  lastDesired,  \* configuration Run transitioned to last
  view,         \* what DNS and the dataplane hold
  (* its goroutines *)
  run,          \* program counter of Run, and what registerLocal captured
  waiting,      \* goroutines about to publish: Run, or the handler of a stream
  pub,          \* the critical section under publishMu
  (* the network *)
  used,         \* sessions whose Hello was delivered
  sent,         \* snapshots sent to followers
  (* history and bounds *)
  written,      \* every snapshot that ever was durable
  accepted,     \* endpoints accepted from a NodeState, with the generation
  elections,    \* number of elections so far
  changes,      \* number of changes of Services and Pods so far
  faults        \* number of faults so far

store == <<durable, inflight, written>>
leadership == <<generation, wasLeader, leaderReady>>
registry == <<nodes, sessions, accepted, used>>
applied == <<snapshot, staleCleared, view>>
controller == <<desired, ready, notified, lastDesired, changes>>
election == <<leads, elections>>
vars == <<durable, inflight, leads, snapshot, generation, wasLeader,
          leaderReady, nodes, sessions, staleCleared, fatal, desired, ready,
          notified, lastDesired, view, run, waiting, pub, used, sent, written,
          accepted, elections, changes, faults>>

-----------------------------------------------------------------------------
(* Types *)

\* The local session of a node's own registration is written as the node.
AnySession == Session \cup Agent

NodeState == [seq: Nat, config: Config, eps: SUBSET Identity]

Entry == [session: AnySession, config: Config, state: NodeState \cup {None}]

\* Where Run is: not started, selecting, handling a changed digest, about to
\* register locally, between the two messages of registerLocal, acquiring,
\* publishing, draining, exiting.
RunPc == {"down", "loop", "change", "register", "state", "acquire", "publish",
          "drain", "exit"}

RunState == [pc: RunPc, config: Config, eps: SUBSET Identity]

\* Who publishes: Run, or the handler of a stream, which takes its messages one
\* after the other.
Caller == {"run"} \cup Session

\* Critical section of publishMu: free or about to read, or with a candidate.
PubState ==
  [pc: {"idle", "acquireRead"}, caller: Caller, cand: {None}, seen: {None},
   attempt: Nat, failed: BOOLEAN]
  \cup
  [pc: {"put", "apply", "acquirePut", "acquireApply"}, caller: Caller, cand: Snapshot,
   seen: Snapshot \cup {None}, attempt: Nat, failed: BOOLEAN]

Write == [seen: Snapshot \cup {None}, cand: Snapshot]

ASSUME VersionAssumption == None \notin [gen: Nat, rev: Nat, leader: Node]

ASSUME EntryAssumption == None \notin Entry /\ None \notin NodeState

StoreType ==
  /\ durable \in Snapshot \cup {None}
  /\ inflight \subseteq Write
  /\ written \subseteq Snapshot

ElectionType == leads \subseteq Agent /\ elections \in Nat

LeadershipType ==
  /\ generation \in [Agent -> Nat]
  /\ wasLeader \in [Agent -> BOOLEAN]
  /\ leaderReady \in [Agent -> BOOLEAN]

RegistryType ==
  /\ nodes \in [Agent -> [Node -> Entry \cup {None}]]
  /\ sessions \in [Agent -> [AnySession -> Node \cup {None}]]
  /\ accepted \subseteq [gen: Nat, node: Node, id: Identity]
  /\ used \subseteq Session

AppliedType ==
  /\ snapshot \in [Agent -> Snapshot \cup {None}]
  /\ staleCleared \in [Agent -> BOOLEAN]
  /\ view \in [Agent -> View]

ControllerType ==
  /\ desired \in [Agent -> Config]
  /\ ready \in [Agent -> SUBSET Identity]
  /\ notified \in [Agent -> BOOLEAN]
  /\ lastDesired \in [Agent -> Config]
  /\ changes \in Nat

ProcessType ==
  /\ run \in [Agent -> RunState]
  /\ waiting \in [Agent -> SUBSET Caller]
  /\ pub \in [Agent -> PubState]
  /\ fatal \in [Agent -> BOOLEAN]
  /\ sent \subseteq Snapshot
  /\ faults \in Nat

\* Every variable has its type.
TypeOK ==
  /\ StoreType /\ ElectionType /\ LeadershipType /\ RegistryType
  /\ AppliedType /\ ControllerType /\ ProcessType

-----------------------------------------------------------------------------
(* Initial state: nothing is stored and no agent runs. *)

NoNodes == [m \in Node |-> None]
NoSessions == [s \in AnySession |-> None]
RunAt(pc) == [pc |-> pc, config |-> EmptyConfig, eps |-> {}]
PubIdle(failed) == [pc |-> "idle", caller |-> "run", cand |-> None, seen |-> None,
                    attempt |-> 0, failed |-> failed]

Init ==
  /\ durable = None
  /\ inflight = {}
  /\ leads = {}
  /\ snapshot = [n \in Agent |-> None]
  /\ generation = [n \in Agent |-> 0]
  /\ wasLeader = [n \in Agent |-> FALSE]
  /\ leaderReady = [n \in Agent |-> FALSE]
  /\ nodes = [n \in Agent |-> NoNodes]
  /\ sessions = [n \in Agent |-> NoSessions]
  /\ staleCleared = [n \in Agent |-> FALSE]
  /\ fatal = [n \in Agent |-> FALSE]
  /\ desired = [n \in Agent |-> EmptyConfig]
  /\ ready = [n \in Agent |-> {}]
  /\ notified = [n \in Agent |-> FALSE]
  /\ lastDesired = [n \in Agent |-> EmptyConfig]
  /\ view = [n \in Agent |-> EmptyView]
  /\ run = [n \in Agent |-> RunAt("down")]
  /\ waiting = [n \in Agent |-> {}]
  /\ pub = [n \in Agent |-> PubIdle(FALSE)]
  /\ used = {}
  /\ sent = {}
  /\ written = {}
  /\ accepted = {}
  /\ elections = 0 /\ changes = 0 /\ faults = 0

-----------------------------------------------------------------------------
(* Applying snapshots *)

Up(n) == run[n].pc # "down"

Fault == faults < MaxFaults /\ faults' = faults + 1

\* Mutant of Advances: the version is not compared.
AdvancesAlways(n, s) == TRUE

\* The applied snapshot, if there is one, is older than s.
Advances(n, s) == snapshot[n] # None => Newer(s, snapshot[n])

\* apply: older and equal versions are ignored without an error.
Apply(n, s) ==
  IF Advances(n, s)
  THEN /\ snapshot' = [snapshot EXCEPT ![n] = s]
       /\ view' = [view EXCEPT ![n] = ControllerApply(n, desired[n], s)]
       /\ staleCleared' = [staleCleared EXCEPT ![n] = FALSE]
  ELSE UNCHANGED applied

\* apply when the dataplane rejects s: the process is told to stop unless the
\* snapshot has no Services.
ApplyFails(n, s) ==
  /\ Advances(n, s)
  /\ Fault
  /\ fatal' = [fatal EXCEPT ![n] = @ \/ s.services # {}]
  /\ UNCHANGED applied

\* follow: the stream to a leader delivers a snapshot.
FollowApply(n, s) ==
  /\ Up(n)
  /\ s \in sent
  /\ Advances(n, s)
  /\ \/ Apply(n, s) /\ UNCHANGED <<fatal, faults>>
     \/ ApplyFails(n, s)
  /\ UNCHANGED <<store, election, leadership, registry, controller, run, waiting,
                 pub, sent>>

\* Mutant of LocalTransition: it forgets that the backends were withdrawn.
LocalTransitionRevives(n) ==
  LET base == IF snapshot[n] = None THEN EmptyView
              ELSE [services |-> snapshot[n].services, backends |-> snapshot[n].backends]
  IN  ControllerApply(n, desired[n], overlayLocalContract(n, desired[n], base))

\* applyLocalTransition: the last snapshot, without backends once they were
\* withdrawn as stale, under the current local contract.
LocalTransition(n) ==
  LET base == IF snapshot[n] = None THEN EmptyView
              ELSE [services |-> snapshot[n].services,
                    backends |-> IF staleCleared[n] THEN {} ELSE snapshot[n].backends]
  IN  ControllerApply(n, desired[n], overlayLocalContract(n, desired[n], base))

-----------------------------------------------------------------------------
(* The registry of the leader *)

Serving(l) == Up(l) /\ l \in leads /\ leaderReady[l]

\* A Hello of node m with configuration c contradicts another registered node.
Conflict(l, m, c) ==
  \E p \in Registered(nodes[l]) \ {m} :
    IF groupOf[p] = groupOf[m]
    THEN nodes[l][p].config # c
    ELSE contractsOverlap(nodes[l][p].config, c)

\* Hello: replace the node's previous session; the state starts empty.
Register(l, m, s, c) ==
  /\ nodes' = [nodes EXCEPT ![l] = [@ EXCEPT ![m] =
                 [session |-> s, config |-> c, state |-> None]]]
  /\ sessions' = [sessions EXCEPT ![l] = [t \in AnySession |->
                    IF t = s THEN m
                    ELSE IF nodes[l][m] # None /\ nodes[l][m].session = t THEN None
                    ELSE sessions[l][t]]]

Unregister(l, gone) ==
  /\ nodes' = [nodes EXCEPT ![l] = [m \in Node |->
                 IF m \in gone THEN None ELSE nodes[l][m]]]
  /\ sessions' = [sessions EXCEPT ![l] = [t \in AnySession |->
                    IF \E m \in gone : nodes[l][m] # None /\ nodes[l][m].session = t
                    THEN None ELSE sessions[l][t]]]

\* The session is the one of the registered node it names.
CurrentSession(l, s) ==
  /\ sessions[l][s] # None
  /\ nodes[l][sessions[l][s]] # None
  /\ nodes[l][sessions[l][s]].session = s

\* NodeState: remember the reported endpoints of node m under its lease.
StoreState(l, m, q, c, e) ==
  /\ nodes' = [nodes EXCEPT ![l] = [nodes[l] EXCEPT ![m] =
                 [nodes[l][m] EXCEPT !.state = [seq |-> q, config |-> c, eps |-> e]]]]
  /\ accepted' = accepted \cup {[gen |-> generation[l], node |-> m, id |-> i] : i \in e}
  /\ UNCHANGED sessions

\* The handler of stream s still publishes for an earlier message.
Busy(l, s) == s \in waiting[l] \/ (pub[l].pc # "idle" /\ pub[l].caller = s)

WantPublish(n, caller) ==
  waiting' = [waiting EXCEPT ![n] = @ \cup {caller}]

\* Mutant of HandleHello: no comparison with the other registered contracts.
HandleHelloUnchecked(l, s, c) ==
  /\ s \notin used
  /\ Serving(l)
  /\ Register(l, sessionNode[s], s, c)
  /\ used' = used \cup {s}
  /\ sent' = sent \cup ({snapshot[l]} \ {None})
  /\ UNCHANGED <<store, election, leadership, applied, controller, run, waiting,
                 pub, fatal, accepted, faults>>

\* handle, Hello of a stream: register and answer with the applied snapshot.
HandleHello(l, s, c) ==
  /\ s \notin used
  /\ Serving(l)
  /\ ~Conflict(l, sessionNode[s], c)
  /\ Register(l, sessionNode[s], s, c)
  /\ used' = used \cup {s}
  /\ sent' = sent \cup ({snapshot[l]} \ {None})
  /\ UNCHANGED <<store, election, leadership, applied, controller, run, waiting,
                 pub, fatal, accepted, faults>>

\* handle, NodeState under another configuration than its Hello: retire the node.
HandleRetire(l, s, c) ==
  /\ Serving(l)
  /\ ~Busy(l, s)
  /\ CurrentSession(l, s)
  /\ nodes[l][sessions[l][s]].config # c
  /\ Unregister(l, {sessions[l][s]})
  /\ WantPublish(l, s)
  /\ UNCHANGED <<store, election, leadership, applied, controller, run, pub, fatal,
                 accepted, used, sent, faults>>

\* The sequence number is not above the one already stored for the session.
StaleSequence(l, s, q) ==
  LET old == nodes[l][sessions[l][s]].state
  IN  old # None /\ q <= old.seq

\* handle, NodeState: an old sequence is only acknowledged, a new one stored.
HandleNodeState(l, s, q, c, e) ==
  /\ Serving(l)
  /\ ~Busy(l, s)
  /\ CurrentSession(l, s)
  /\ nodes[l][sessions[l][s]].config = c
  /\ e \subseteq Ids(c)
  /\ \/ /\ StaleSequence(l, s, q)
        /\ sent' = sent \cup ({snapshot[l]} \ {None})
        /\ UNCHANGED <<nodes, sessions, accepted, waiting>>
     \/ /\ ~StaleSequence(l, s, q)
        /\ StoreState(l, sessions[l][s], q, c, e)
        /\ WantPublish(l, s)
        /\ UNCHANGED sent
  /\ UNCHANGED <<store, election, leadership, applied, controller, run, pub, fatal,
                 used, faults>>

\* Mutant of HandleDrain: the change is not published.
HandleDrainSilent(l, s) ==
  /\ s \in used
  /\ Serving(l)
  /\ ~Busy(l, s)
  /\ CurrentSession(l, s)
  /\ Unregister(l, {sessions[l][s]})
  /\ UNCHANGED <<store, election, leadership, applied, controller, run, waiting, pub,
                 fatal, accepted, used, sent, faults>>

\* handle, Drain: forget the session, and its node if it is still current.
HandleDrain(l, s) ==
  /\ s \in used
  /\ Serving(l)
  /\ ~Busy(l, s)
  /\ sessions' = [sessions EXCEPT ![l] = [@ EXCEPT ![s] = None]]
  /\ nodes' = [nodes EXCEPT ![l] = [m \in Node |->
                 IF m = sessions[l][s] /\ CurrentSession(l, s) THEN None
                 ELSE nodes[l][m]]]
  /\ WantPublish(l, s)
  /\ UNCHANGED <<store, election, leadership, applied, controller, run, pub, fatal,
                 accepted, used, sent, faults>>

-----------------------------------------------------------------------------
(* publish, under publishMu *)

\* Registry content the next publication would carry.
Built(n, pick) ==
  BuildClusterSnapshot(generation[n],
    IF snapshot[n] # None /\ snapshot[n].gen = generation[n]
    THEN snapshot[n].rev + 1 ELSE 1,
    n, nodes[n], pick)

\* publish returns to its caller; Run goes on with its loop or its exit.
PublishReturns(n, caller, failed) ==
  /\ pub' = [pub EXCEPT ![n] = PubIdle(failed)]
  /\ run' = IF caller = "run"
            THEN [run EXCEPT ![n] = RunAt(IF @.pc = "drain" THEN "exit" ELSE "loop")]
            ELSE run

\* The durable snapshot is the predecessor of s under the same leader.
Precedes(s) ==
  /\ durable # None
  /\ durable.gen = s.gen
  /\ durable.leader = s.leader
  /\ durable.rev + 1 = s.rev

\* A caller gets publishMu, builds the candidate, reads the durable snapshot and
\* fences against it.
PublishRead(n, caller) ==
  /\ pub[n].pc = "idle"
  /\ caller \in waiting[n]
  /\ waiting' = [waiting EXCEPT ![n] = @ \ {caller}]
  /\ \/ /\ n \in leads
        /\ \E pick \in Picks(nodes[n]) :
             IF UniqueOwnership(MergedServices(nodes[n], pick)) /\ Precedes(Built(n, pick))
             THEN /\ Built(n, pick).rev <= MaxRev
                  /\ pub' = [pub EXCEPT ![n] = [pc |-> "put", caller |-> caller,
                              cand |-> Built(n, pick), seen |-> durable,
                              attempt |-> 0, failed |-> FALSE]]
                  /\ UNCHANGED run
             ELSE PublishReturns(n, caller, TRUE)
        /\ UNCHANGED faults
     \/ n \notin leads /\ PublishReturns(n, caller, TRUE) /\ UNCHANGED faults
     \/ Fault /\ PublishReturns(n, caller, TRUE)
  /\ UNCHANGED <<store, election, leadership, registry, applied, controller, sent,
                 fatal>>

\* The conditional write of the critical section.
Pending(n) == [seen |-> pub[n].seen, cand |-> pub[n].cand]

\* PutIfMatch succeeds only against the version that was read.
PutIfMatch(w) ==
  /\ durable = w.seen
  /\ durable' = w.cand
  /\ written' = written \cup {w.cand}

\* publish checks the leadership again and writes.  A request whose outcome the
\* process does not learn may still reach the store.
PublishPut(n) ==
  /\ pub[n].pc = "put"
  /\ \/ /\ n \in leads
        /\ PutIfMatch(Pending(n))
        /\ pub' = [pub EXCEPT ![n] = [@ EXCEPT !.pc = "apply"]]
        /\ UNCHANGED <<run, inflight, faults>>
     \/ /\ n \notin leads \/ durable # pub[n].seen
        /\ PublishReturns(n, pub[n].caller, TRUE)
        /\ UNCHANGED <<store, faults>>
     \/ /\ n \in leads
        /\ Fault
        /\ inflight' = inflight \cup {Pending(n)}
        /\ PublishReturns(n, pub[n].caller, TRUE)
        /\ UNCHANGED <<durable, written>>
  /\ UNCHANGED <<election, leadership, registry, applied, controller, waiting, sent,
                 fatal>>

\* A request that was reported as failed reaches the store after all.
LatePut(w) ==
  /\ w \in inflight
  /\ PutIfMatch(w)
  /\ inflight' = inflight \ {w}
  /\ UNCHANGED <<election, leadership, registry, applied, controller, run, waiting,
                 pub, sent, fatal, faults>>

\* publish applies what it wrote and broadcasts it; a stream handler answers
\* with the applied snapshot, which follow may have advanced meanwhile.
PublishApply(n) ==
  /\ pub[n].pc = "apply"
  /\ \/ /\ Apply(n, pub[n].cand)
        /\ sent' = sent \cup {pub[n].cand, snapshot'[n]}
        /\ PublishReturns(n, pub[n].caller, FALSE)
        /\ UNCHANGED <<fatal, faults>>
     \/ /\ ApplyFails(n, pub[n].cand)
        /\ PublishReturns(n, pub[n].caller, TRUE)
        /\ UNCHANGED sent
  /\ UNCHANGED <<store, election, leadership, registry, controller, waiting>>

-----------------------------------------------------------------------------
(* acquire, under publishMu *)

\* acquire returns an error; Run goes on with its loop.
AcquireFails(n) ==
  /\ pub' = [pub EXCEPT ![n] = PubIdle(@.failed)]
  /\ run' = [run EXCEPT ![n] = RunAt("loop")]

\* What acquire starts from when dns/services.pb does not exist.
Unpublished(n) == [gen |-> 0, rev |-> 0, leader |-> n, services |-> {}, backends |-> {}]

\* The first snapshot of the next generation: the durable Services without
\* backends, under the local contract.
Takeover(n) ==
  LET current == IF durable = None THEN Unpublished(n) ELSE durable
  IN  [overlayLocalContract(n, desired[n], Strip(current)) EXCEPT
         !.gen = current.gen + 1, !.rev = 0, !.leader = n]

\* A tick observes a leadership that was not acquired yet, or the last
\* conditional write was refused.  Later attempts do not ask the elector again.
AcquireRead(n) ==
  /\ \/ pub[n].pc = "idle" /\ run[n].pc = "loop" /\ n \in leads /\ ~wasLeader[n]
     \/ pub[n].pc = "acquireRead"
  /\ \/ /\ IF UniqueOwnership(Takeover(n).services)
           THEN /\ pub' = [pub EXCEPT ![n] = [pc |-> "acquirePut", caller |-> "run",
                            cand |-> Takeover(n), seen |-> durable,
                            attempt |-> pub[n].attempt + 1, failed |-> pub[n].failed]]
                /\ run' = [run EXCEPT ![n] = RunAt("acquire")]
           ELSE AcquireFails(n)
        /\ UNCHANGED faults
     \/ Fault /\ AcquireFails(n)
  /\ UNCHANGED <<store, election, leadership, registry, applied, controller, waiting,
                 sent, fatal>>

\* The store refused the write as superseded: read again, at most MaxAttempts times.
AcquireAgain(n) ==
  IF pub[n].attempt < MaxAttempts
  THEN /\ pub' = [pub EXCEPT ![n] = [@ EXCEPT !.pc = "acquireRead",
                   !.cand = None, !.seen = None]]
       /\ UNCHANGED run
  ELSE AcquireFails(n)

\* Mutant of ClearRegistry: the registry of the previous leadership is kept.
KeepRegistry(n) == UNCHANGED <<nodes, sessions>>

\* A new generation starts with an empty registry.
ClearRegistry(n) ==
  /\ nodes' = [nodes EXCEPT ![n] = NoNodes]
  /\ sessions' = [sessions EXCEPT ![n] = NoSessions]

\* acquire writes.  Only success moves the process to the new generation, with an
\* empty registry.  A retried request may land and still be reported refused.
AcquirePut(n) ==
  /\ pub[n].pc = "acquirePut"
  /\ \/ /\ PutIfMatch(Pending(n))
        /\ generation' = [generation EXCEPT ![n] = pub[n].cand.gen]
        /\ ClearRegistry(n)
        /\ pub' = [pub EXCEPT ![n] = [@ EXCEPT !.pc = "acquireApply"]]
        /\ UNCHANGED <<run, inflight, faults>>
     \/ /\ durable # pub[n].seen
        /\ AcquireAgain(n)
        /\ UNCHANGED <<store, generation, nodes, sessions, faults>>
     \/ /\ PutIfMatch(Pending(n))
        /\ Fault
        /\ AcquireAgain(n)
        /\ UNCHANGED <<inflight, generation, nodes, sessions>>
     \/ /\ Fault
        /\ inflight' = inflight \cup {Pending(n)}
        /\ AcquireFails(n)
        /\ UNCHANGED <<durable, written, generation, nodes, sessions>>
  /\ UNCHANGED <<election, wasLeader, leaderReady, accepted, used, applied, controller,
                 waiting, sent, fatal>>

\* acquire applies its snapshot, and Run starts to serve and registers locally.
AcquireApply(n) ==
  /\ pub[n].pc = "acquireApply"
  /\ \/ /\ Apply(n, pub[n].cand)
        /\ leaderReady' = [leaderReady EXCEPT ![n] = TRUE]
        /\ wasLeader' = [wasLeader EXCEPT ![n] = TRUE]
        /\ pub' = [pub EXCEPT ![n] = PubIdle(FALSE)]
        /\ run' = [run EXCEPT ![n] = RunAt("register")]
        /\ UNCHANGED <<fatal, faults>>
     \/ /\ ApplyFails(n, pub[n].cand)
        /\ AcquireFails(n)
        /\ UNCHANGED <<leaderReady, wasLeader>>
  /\ UNCHANGED <<store, election, generation, registry, controller, waiting, sent>>

-----------------------------------------------------------------------------
(* Run *)

\* registerLocal: one consistent Hello and NodeState of this process, of which
\* the Hello is handled now.
RegisterHello(n) ==
  /\ run[n].pc = "register" \/ (run[n].pc = "loop" /\ n \in leads)
  /\ IF Serving(n) /\ ~Conflict(n, n, desired[n])
     THEN /\ Register(n, n, n, desired[n])
          /\ run' = [run EXCEPT ![n] = [pc |-> "state", config |-> desired[n],
                                        eps |-> ready[n]]]
     ELSE /\ run' = [run EXCEPT ![n] = RunAt("loop")]
          /\ UNCHANGED <<nodes, sessions>>
  /\ UNCHANGED <<store, election, leadership, accepted, used, applied, controller,
                 waiting, pub, sent, fatal, faults>>

\* registerLocal: the NodeState is handled.
RegisterState(n) ==
  /\ run[n].pc = "state"
  /\ IF Serving(n) /\ CurrentSession(n, n)
     THEN /\ StoreState(n, sessions[n][n], 1, run[n].config, run[n].eps)
          /\ WantPublish(n, "run")
          /\ run' = [run EXCEPT ![n] = RunAt("publish")]
     ELSE /\ run' = [run EXCEPT ![n] = RunAt("loop")]
          /\ UNCHANGED <<nodes, sessions, accepted, waiting>>
  /\ UNCHANGED <<store, election, leadership, used, applied, controller, pub, sent,
                 fatal, faults>>

\* Run receives a change notification and reads the digest.
RunChange(n) ==
  /\ run[n].pc = "loop"
  /\ notified[n]
  /\ notified' = [notified EXCEPT ![n] = FALSE]
  /\ run' = [run EXCEPT ![n] = [RunAt("change") EXCEPT !.config = desired[n]]]
  /\ UNCHANGED <<store, election, leadership, registry, applied, desired, ready,
                 lastDesired, changes, waiting, pub, sent, fatal, faults>>

\* A changed digest makes the local contract take effect at once; a leader
\* registers itself again.  A dataplane error ends Run.
RunTransition(n) ==
  /\ run[n].pc = "change"
  /\ LET next == RunAt(IF n \in leads THEN "register" ELSE "loop")
     IN  \/ /\ view' = IF run[n].config = lastDesired[n] THEN view
                      ELSE [view EXCEPT ![n] = LocalTransition(n)]
            /\ lastDesired' = [lastDesired EXCEPT ![n] = run[n].config]
            /\ run' = [run EXCEPT ![n] = next]
            /\ UNCHANGED faults
         \/ /\ run[n].config # lastDesired[n]
            /\ Fault
            /\ run' = [run EXCEPT ![n] = RunAt("exit")]
            /\ UNCHANGED <<view, lastDesired>>
  /\ UNCHANGED <<store, election, leadership, registry, snapshot, staleCleared,
                 desired, ready, notified, changes, waiting, pub, sent, fatal>>

\* expireAndPublish: entries not refreshed for 35 s lose their lease.
Expire(n, gone) ==
  /\ run[n].pc = "loop"
  /\ n \in leads
  /\ gone # {} /\ gone \subseteq Registered(nodes[n])
  /\ Unregister(n, gone)
  /\ WantPublish(n, "run")
  /\ run' = [run EXCEPT ![n] = RunAt("publish")]
  /\ UNCHANGED <<store, election, leadership, accepted, used, applied, controller, pub,
                 sent, fatal, faults>>

\* Mutant of StepDown: wasLeader is not reset.
StepDownKeepsLeadership(n) ==
  /\ run[n].pc = "loop"
  /\ n \notin leads
  /\ leaderReady' = [leaderReady EXCEPT ![n] = FALSE]
  /\ UNCHANGED <<store, election, generation, wasLeader, registry, applied,
                 controller, run, waiting, pub, sent, fatal, faults>>

\* A tick without leadership; after 35 s without a snapshot clearStale
\* withdraws the leased backends, once.
StepDown(n) ==
  /\ run[n].pc = "loop"
  /\ n \notin leads
  /\ wasLeader' = [wasLeader EXCEPT ![n] = FALSE]
  /\ leaderReady' = [leaderReady EXCEPT ![n] = FALSE]
  /\ \/ UNCHANGED applied
     \/ /\ snapshot[n] # None /\ ~staleCleared[n]
        /\ staleCleared' = [staleCleared EXCEPT ![n] = TRUE]
        /\ view' = [view EXCEPT ![n] = ControllerApply(n, desired[n],
                     overlayLocalContract(n, desired[n], Strip(snapshot[n])))]
        /\ UNCHANGED snapshot
  /\ UNCHANGED <<store, election, generation, registry, controller, run, waiting, pub,
                 sent, fatal, faults>>

\* ctx.Done: drain, where a leader removes itself and publishes; a follower's
\* Hello and Drain are messages of a new session.
Shutdown(n) ==
  /\ run[n].pc = "loop"
  /\ Fault
  /\ IF n \in leads
     THEN /\ nodes' = [nodes EXCEPT ![n] = [m \in Node |->
                        IF m = n /\ \E t \in AnySession : sessions[n][t] = n
                        THEN None ELSE nodes[n][m]]]
          /\ sessions' = [sessions EXCEPT ![n] = [t \in AnySession |->
                           IF sessions[n][t] = n THEN None ELSE sessions[n][t]]]
          /\ WantPublish(n, "run")
          /\ run' = [run EXCEPT ![n] = RunAt("drain")]
     ELSE /\ run' = [run EXCEPT ![n] = RunAt("exit")]
          /\ UNCHANGED <<nodes, sessions, waiting>>
  /\ UNCHANGED <<store, election, leadership, accepted, used, applied, controller, pub,
                 sent, fatal>>

-----------------------------------------------------------------------------
(* Process life *)

\* The process ends: all it held is gone, but a request under way may still
\* reach the store.  BPF programs are not pinned, so the view is gone too.
Terminate(n) ==
  /\ inflight' = inflight \cup
       (IF pub[n].pc \in {"put", "acquirePut"} THEN {Pending(n)} ELSE {})
  /\ leads' = leads \ {n}
  /\ snapshot' = [snapshot EXCEPT ![n] = None]
  /\ generation' = [generation EXCEPT ![n] = 0]
  /\ wasLeader' = [wasLeader EXCEPT ![n] = FALSE]
  /\ leaderReady' = [leaderReady EXCEPT ![n] = FALSE]
  /\ nodes' = [nodes EXCEPT ![n] = NoNodes]
  /\ sessions' = [sessions EXCEPT ![n] = NoSessions]
  /\ staleCleared' = [staleCleared EXCEPT ![n] = FALSE]
  /\ fatal' = [fatal EXCEPT ![n] = FALSE]
  /\ desired' = [desired EXCEPT ![n] = EmptyConfig]
  /\ ready' = [ready EXCEPT ![n] = {}]
  /\ notified' = [notified EXCEPT ![n] = FALSE]
  /\ lastDesired' = [lastDesired EXCEPT ![n] = EmptyConfig]
  /\ view' = [view EXCEPT ![n] = EmptyView]
  /\ run' = [run EXCEPT ![n] = RunAt("down")]
  /\ waiting' = [waiting EXCEPT ![n] = {}]
  /\ pub' = [pub EXCEPT ![n] = PubIdle(FALSE)]
  /\ UNCHANGED <<durable, used, sent, written, accepted, elections, changes>>

\* Run returned: drained, failed to apply a transition, or met a fatal error.
Exit(n) ==
  /\ run[n].pc = "exit" \/ (run[n].pc = "loop" /\ fatal[n])
  /\ Terminate(n)
  /\ UNCHANGED faults

Crash(n) ==
  /\ Up(n)
  /\ Fault
  /\ Terminate(n)

\* RunDaemon with an empty controller: LoadSnapshot, whose errors are only
\* logged, and the initial transition of Run.
Start(n) ==
  /\ run[n].pc = "down"
  /\ run' = [run EXCEPT ![n] = RunAt("loop")]
  /\ \/ /\ durable # None
        /\ LET restored == Restored(n, desired[n], durable)
           IN  /\ snapshot' = [snapshot EXCEPT ![n] = restored]
               /\ view' = [view EXCEPT ![n] = ControllerApply(n, desired[n],
                            overlayLocalContract(n, desired[n], restored))]
        /\ UNCHANGED <<fatal, faults>>
     \/ durable = None /\ UNCHANGED <<snapshot, view, fatal, faults>>
     \/ /\ Fault
        /\ UNCHANGED <<snapshot, view>>
        /\ \/ UNCHANGED fatal
           \/ /\ durable # None
              /\ fatal' = [fatal EXCEPT ![n] =
                   Restored(n, desired[n], durable).services # {}]
  /\ UNCHANGED <<store, election, leadership, registry, staleCleared, controller,
                 waiting, pub, sent>>

-----------------------------------------------------------------------------
(* The environment of the coordinator: the elector, the reconciler, the Pod
   watcher. *)

Elect(n) ==
  /\ Up(n) /\ n \notin leads
  /\ elections < MaxElections /\ elections' = elections + 1
  /\ leads' = leads \cup {n}
  /\ UNCHANGED <<store, leadership, registry, applied, controller, run, waiting,
                 pub, sent, fatal, faults>>

Depose(n) ==
  /\ n \in leads
  /\ leads' = leads \ {n}
  /\ UNCHANGED <<elections, store, leadership, registry, applied, controller, run, waiting,
                 pub, sent, fatal, faults>>

Change == changes < MaxChanges /\ changes' = changes + 1

\* Controller.SetServices, called by the static-Pod reconciler: another digest is
\* announced, and its selectors choose again among the Pods.
SetServices(n, c, e) ==
  /\ Up(n)
  /\ Change
  /\ desired[n] # c
  /\ desired' = [desired EXCEPT ![n] = c]
  /\ ready' = [ready EXCEPT ![n] = e]
  /\ notified' = [notified EXCEPT ![n] = TRUE]
  /\ UNCHANGED <<store, election, leadership, registry, applied, lastDesired, run,
                 waiting, pub, sent, fatal, faults>>

\* Controller.SetPods, called by the Pod watcher.
SetPods(n, e) ==
  /\ Up(n)
  /\ Change
  /\ ready' = [ready EXCEPT ![n] = e]
  /\ notified' = [notified EXCEPT ![n] = TRUE]
  /\ UNCHANGED <<store, election, leadership, registry, applied, desired, lastDesired,
                 run, waiting, pub, sent, fatal, faults>>

-----------------------------------------------------------------------------
(* Specification *)

\* Steps of the agent's own goroutines.
Step(n) ==
  \/ \E caller \in Caller : PublishRead(n, caller)
  \/ PublishPut(n) \/ PublishApply(n)
  \/ AcquireRead(n) \/ AcquirePut(n) \/ AcquireApply(n)
  \/ RegisterHello(n) \/ RegisterState(n)
  \/ RunChange(n) \/ RunTransition(n)
  \/ \E gone \in SUBSET Node : Expire(n, gone)
  \/ StepDown(n) \/ Shutdown(n) \/ Exit(n)

\* Messages that reach an agent.
Receive(n) ==
  \/ \E s \in sent : FollowApply(n, s)
  \/ \E s \in Session, c \in Config : HandleHello(n, s, c) \/ HandleRetire(n, s, c)
  \/ \E s \in Session, q \in 1..MaxSeq, c \in Config : \E e \in SUBSET Ids(c) :
       HandleNodeState(n, s, q, c, e)
  \/ \E s \in Session : HandleDrain(n, s)

Environment(n) ==
  \/ Start(n) \/ Crash(n) \/ Elect(n) \/ Depose(n)
  \/ \E c \in Config : \E e \in SUBSET Ids(c) : SetServices(n, c, e)
  \/ \E e \in SUBSET Ids(desired[n]) : SetPods(n, e)

Next ==
  \/ \E n \in Agent : Step(n) \/ Receive(n) \/ Environment(n)
  \/ \E w \in inflight : LatePut(w)

Spec == Init /\ [][Next]_vars

\* Run serves its ticker, its notifications and its fatal channel for ever, and
\* no goroutine stops between the steps of acquire, publish and registerLocal.
Fairness ==
  \A n \in Agent :
    /\ \A caller \in Caller : WF_vars(PublishRead(n, caller))
    /\ WF_vars(PublishPut(n)) /\ WF_vars(PublishApply(n))
    /\ WF_vars(AcquireRead(n)) /\ WF_vars(AcquirePut(n)) /\ WF_vars(AcquireApply(n))
    /\ WF_vars(RegisterHello(n)) /\ WF_vars(RegisterState(n))
    /\ WF_vars(RunChange(n)) /\ WF_vars(RunTransition(n))
    /\ WF_vars(StepDown(n)) /\ WF_vars(Exit(n))

FairSpec == Spec /\ Fairness

-----------------------------------------------------------------------------
(* Properties *)

\* A step of the durable object is the first snapshot of the next generation or
\* the next revision of the same leader, whatever late or concurrent writes the
\* store receives (acquire, publish, PutIfMatch).
DurableFenced ==
  [][durable' # durable =>
       /\ durable' # None
       /\ IF durable = None THEN durable'.gen = 1 /\ durable'.rev = 0
          ELSE \/ durable'.gen = durable.gen + 1 /\ durable'.rev = 0
               \/ /\ durable'.gen = durable.gen
                  /\ durable'.leader = durable.leader
                  /\ durable'.rev = durable.rev + 1]_vars

\* Two durable snapshots with the same generation and revision are the same
\* snapshot, so the version that apply compares identifies the content.
OneSnapshotPerVersion ==
  \A s, t \in written : SameVersion(s, t) => s = t

\* An agent applies only what was durable: as it was written, or without
\* backends and own Services after LoadSnapshot; and only snapshots that were
\* written are ever sent.
AppliedWasDurable ==
  /\ sent \subseteq written
  /\ \A n \in Agent : snapshot[n] # None =>
       \/ snapshot[n] \in written
       \/ \E w \in written : snapshot[n] = Restored(n, EmptyConfig, w)

\* No agent is ahead of the durable object: a snapshot is applied after it was
\* written, and a restarted process never finds less than it had.
NobodyAhead ==
  \A n \in Agent : snapshot[n] # None =>
    durable # None /\ ~Newer(snapshot[n], durable)

\* The log of versions that publication promises (SnapshotLog).
VersionOf(s) ==
  IF s = None THEN None ELSE [gen |-> s.gen, rev |-> s.rev, leader |-> s.leader]

Log == INSTANCE SnapshotLog WITH
  latest <- VersionOf(durable),
  history <- {VersionOf(s) : s \in written},
  held <- [n \in Agent |-> VersionOf(snapshot[n])]

\* Coordination implements the log: every step of it extends the log by one
\* version, moves one agent forward in it, ends one process, or is invisible.
ImplementsLog == Log!Spec

\* Every Service identity has one owner in every durable snapshot and in what
\* any node programs, so neither ValidateSnapshotOwnership, BuildClusterSnapshot
\* nor Controller.Apply ever meets a duplicate.
OneOwner ==
  /\ \A s \in written : UniqueOwnership(s.services)
  /\ \A n \in Agent : UniqueOwnership(view[n].services)

\* The two maps of the registry agree: a session leads to the node registered
\* under it and back (handle, expireAndPublish, drain).
SessionsMatchNodes ==
  \A l \in Agent :
    /\ \A m \in Registered(nodes[l]) : sessions[l][nodes[l][m].session] = m
    /\ \A s \in AnySession : sessions[l][s] # None => CurrentSession(l, s)

\* Registered nodes never contradict each other, so the merged snapshot does not
\* depend on the order in which BuildClusterSnapshot meets the Hellos.
EntriesAgree ==
  \A l \in Agent : \A m \in Registered(nodes[l]) : ~Conflict(l, m, nodes[l][m].config)

\* Whatever streams of a node overtake each other, expire or drain, and whichever
\* groups claim an identity: the maps of the registry agree, its entries do not
\* contradict each other, and no Service that is published or programmed has two
\* owners (handle, expireAndPublish, drain, BuildClusterSnapshot).
RegistryCoherent == SessionsMatchNodes /\ EntriesAgree /\ OneOwner

\* Every durable backend was reported by its own node to the leader of that very
\* generation: no endpoint survives a change of leadership unreported.
BackendsReported ==
  \A s \in written : \A b \in s.backends :
    [gen |-> s.gen, node |-> b.node, id |-> b.id] \in accepted

\* No goroutine has anything left to do for leader n.
Settled(n) ==
  /\ Serving(n) /\ run[n].pc = "loop"
  /\ waiting[n] = {} /\ pub[n].pc = "idle"

\* A settled leader whose last publication succeeded has published exactly its
\* registry, so no change between Hello, NodeState, Drain and expiry is lost.
PublishedIsRegistry ==
  \A n \in Agent :
    /\ Settled(n) /\ ~pub[n].failed
    /\ durable.gen = generation[n] /\ durable.rev > 0
    /\ \A m \in Registered(nodes[n]) : nodes[n][m].state # None
    => \A pick \in Picks(nodes[n]) :
         /\ durable.services = MergedServices(nodes[n], pick)
         /\ durable.backends = MergedBackends(nodes[n], pick)

\* Once clearStale withdrew the leased backends, nothing but a newer snapshot
\* brings one back (clearStale, applyLocalTransition, LoadSnapshot).
StaleStaysCleared ==
  \A n \in Agent : staleCleared[n] => view[n].backends = {}

\* The revision bound of the model stops publication.
AtBound == durable # None /\ durable.rev = MaxRev

\* A node that stays leader ends up serving: it acquires a generation although
\* writes are refused, lost or overtaken, and although it led before (Run).
LeaderServes ==
  \A n \in Agent :
    <>[](n \in leads /\ ~AtBound) => <>[]leaderReady[n]

\* docs/spec.md:254, "The leader persists deterministic snapshots": the
\* publications of a lasting sole leader succeed again and again.
LeaderPersists ==
  \A n \in Agent :
    <>[](leads = {n} /\ ~AtBound) => []<>(pub[n].pc = "idle" /\ ~pub[n].failed)

\* docs/spec.md:252, "readiness alone controls new Service flows": within a
\* generation a durable backend goes away only when its node is not registered
\* with its current configuration, or its Pod is not ready.
ReadinessAlone ==
  [][durable # None /\ durable'.gen = durable.gen =>
       \A b \in durable.backends \ durable'.backends :
         \/ b.node \notin Agent
         \/ b.id \notin ready[b.node]
         \/ nodes[durable.leader][b.node] = None
         \/ nodes[durable.leader][b.node].config # desired[b.node]]_vars
=============================================================================
