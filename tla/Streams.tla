------------------------------ MODULE Streams ------------------------------
(***************************************************************************)
(* The coordination streams of the nodes of one NodeGroup (follow,         *)
(* sendStates, drain and expireAndPublish of internal/agent/coordinator,   *)
(* Sync and Follow of internal/agent/api) and the leases they keep in the  *)
(* registry of a serving leader.  What the leader publishes is Coordinator;*)
(* here is who is registered, under which contract, and until when.  A     *)
(* clock step is the ten seconds between two reports of a stream.          *)
(***************************************************************************)
EXTENDS Naturals, Sequences, SequencesExt

CONSTANTS Node, Leader,    \* the nodes of the group; the one that leads
          Digest,          \* the contracts the group's index may imply
          Session,         \* names of streams; one that nothing refers to is new again
          None,
          Lease,           \* steps an entry lasts without a report: 35 seconds
          MaxDeploys, MaxFaults

StreamsAssumption == Leader \in Node /\ None \notin Digest /\ Lease \in Nat \ {0}

VARIABLES
  desired,     \* the contract of the committed index
  want,        \* each node's Controller: the contract of its last SetServices
  up,          \* the nodes that run
  client,      \* each follower's stream, or None while it waits to reconnect
  server,      \* each session's stream at the leader: messages to handle, and the end
  registry,    \* the leader's entry of each node
  reported,    \* the nodes that reported in this clock step
  refused,     \* the followers whose Hello was refused in this clock step
  deploys, faults

vars == <<desired, want, up, client, server, registry, reported, refused, deploys, faults>>

Follower == Node \ {Leader}
Closed == [node |-> None, digest |-> None, messages |-> <<>>, open |-> FALSE]

\* Nothing tells one contract from another, so any of them is the first.
Init ==
  /\ desired = CHOOSE d \in Digest : TRUE
  /\ want = [n \in Node |-> desired]
  /\ up = Node
  /\ client = [n \in Follower |-> None]
  /\ server = [s \in Session |-> Closed]
  /\ registry = [n \in Node |-> None]
  /\ reported = {} /\ refused = {} /\ deploys = 0 /\ faults = 0

Fault == faults < MaxFaults /\ faults' = faults + 1

\* A session that no stream and no entry has.
Unused(s) ==
  /\ server[s] = Closed
  /\ \A n \in Node : registry[n] # None => registry[n].session # s
  /\ \A n \in Follower : client[n] # None => client[n].session # s
NewSession == CHOOSE s \in Session : Unused(s)

-----------------------------------------------------------------------------
(* The index and the reconcilers *)

Deploy(d) ==
  /\ d # desired /\ deploys < MaxDeploys
  /\ desired' = d /\ deploys' = deploys + 1
  /\ UNCHANGED <<want, up, client, server, registry, reported, refused, faults>>

\* SetServices: the reconciler of a node has published the new index.
SetServices(n) ==
  /\ n \in up /\ want[n] # desired
  /\ want' = [want EXCEPT ![n] = desired]
  /\ UNCHANGED <<desired, up, client, server, registry, reported, refused, deploys, faults>>

-----------------------------------------------------------------------------
(* The follower *)

\* follow opens a stream and sendStates begins with the Hello.
Follow(n) ==
  /\ n \in up \cap Follower /\ client[n] = None
  /\ \E s \in Session : Unused(s)
  /\ LET s == NewSession IN
       /\ client' = [client EXCEPT ![n] = [session |-> s, digest |-> want[n], closed |-> FALSE]]
       /\ server' = [server EXCEPT ![s] =
            [node |-> n, digest |-> want[n], messages |-> <<"hello">>, open |-> TRUE]]
  /\ reported' = reported \ {n}
  /\ UNCHANGED <<desired, want, up, registry, refused, deploys, faults>>

\* Mutant of Outdated: the contract of a stream is not compared again.
OutdatedNever(n) == FALSE

\* The contract changed since the Hello.
Outdated(n) == client[n].digest # want[n]

\* sendStates reports at once, on every change and every ten seconds; under another
\* contract it closes the stream instead.
SendState(n) ==
  /\ n \in up \cap Follower /\ client[n] # None /\ ~client[n].closed
  /\ n \notin reported \/ Outdated(n)
  /\ LET s == client[n].session
     IN  IF Outdated(n)
         THEN /\ client' = [client EXCEPT ![n].closed = TRUE]
              /\ server' = [server EXCEPT ![s].open = FALSE]
              /\ UNCHANGED reported
         ELSE /\ server' = [server EXCEPT ![s].messages = Append(@, "state")]
              /\ reported' = reported \cup {n}
              /\ UNCHANGED client
  /\ UNCHANGED <<desired, want, up, registry, refused, deploys, faults>>

\* The connection fails: the follower reconnects, and what it sent arrives in part.
Break(n) ==
  /\ n \in Follower /\ client[n] # None
  /\ Fault
  /\ LET s == client[n].session IN
       \E m \in Prefixes(server[s].messages) :
         server' = [server EXCEPT ![s].messages = m, ![s].open = FALSE]
  /\ client' = [client EXCEPT ![n] = None]
  /\ UNCHANGED <<desired, want, up, registry, reported, refused, deploys>>

\* The process stops.  A follower's drain sends a Hello and a Drain over a stream of its
\* own and closes the connection at once; the leader removes itself.
Stop(n) ==
  /\ n \in up /\ Fault
  /\ up' = up \ {n}
  /\ IF n = Leader
     THEN registry' = [registry EXCEPT ![n] = None] /\ UNCHANGED <<client, server>>
     ELSE /\ client' = [client EXCEPT ![n] = None]
          /\ \E s \in Session : Unused(s)
          /\ LET s == NewSession
                 closed == IF client[n] = None THEN server
                           ELSE [server EXCEPT ![client[n].session].open = FALSE]
             IN  \E m \in Prefixes(<<"hello", "drain">>) :
                   server' = [closed EXCEPT ![s] =
                     [node |-> n, digest |-> want[n], messages |-> m, open |-> FALSE]]
          /\ UNCHANGED registry
  /\ UNCHANGED <<desired, want, reported, refused, deploys>>

-----------------------------------------------------------------------------
(* The leader *)

\* A Hello of n with contract d contradicts another entry of its group.
Conflict(n, d) == \E p \in Node \ {n} : registry[p] # None /\ registry[p].digest # d

Entry(s, d, state) == [session |-> s, digest |-> d, state |-> state, age |-> 0]

\* The stream of s ends at the leader, and its follower learns of it.
End(s) ==
  /\ server' = [server EXCEPT ![s] = Closed]
  /\ client' = [n \in Follower |->
       IF client[n] # None /\ client[n].session = s THEN None ELSE client[n]]

\* The next message was handled without an error.
Done(s) == server' = [server EXCEPT ![s].messages = Tail(@)] /\ UNCHANGED client

\* handle, for one message of a stream; an error ends the stream.
Handle(s) ==
  /\ Leader \in up /\ server[s].messages # <<>>
  /\ LET m == Head(server[s].messages)
         n == server[s].node
         mine == registry[n] # None /\ registry[n].session = s
     IN  \/ /\ m = "hello" /\ ~Conflict(n, server[s].digest)
            /\ registry' = [registry EXCEPT ![n] = Entry(s, server[s].digest, FALSE)]
            /\ Done(s) /\ UNCHANGED refused
         \/ /\ m = "hello" /\ Conflict(n, server[s].digest)
            /\ End(s) /\ UNCHANGED registry
            /\ refused' = refused \cup {n}
         \/ /\ m = "state" /\ mine
            /\ registry' = [registry EXCEPT ![n] = Entry(s, @.digest, TRUE)]
            /\ Done(s) /\ UNCHANGED refused
         \/ /\ m = "state" /\ ~mine
            /\ End(s) /\ UNCHANGED <<registry, refused>>
         \/ /\ m = "drain"
            /\ registry' = IF mine THEN [registry EXCEPT ![n] = None] ELSE registry
            /\ Done(s) /\ UNCHANGED refused
  /\ UNCHANGED <<desired, want, up, reported, deploys, faults>>

\* Sync returns once the follower closed its side and everything was handled.
Finish(s) ==
  /\ server[s] # Closed /\ ~server[s].open /\ server[s].messages = <<>>
  /\ End(s)
  /\ UNCHANGED <<desired, want, up, registry, reported, refused, deploys, faults>>

\* registerLocal: the leader's own Hello and NodeState, on changes and every ten seconds.
registerLocal ==
  /\ Leader \in up
  /\ Leader \notin reported \/ (registry[Leader] # None /\ registry[Leader].digest # want[Leader])
  /\ ~Conflict(Leader, want[Leader])
  /\ registry' = [registry EXCEPT ![Leader] = Entry(None, want[Leader], TRUE)]
  /\ reported' = reported \cup {Leader}
  /\ UNCHANGED <<desired, want, up, client, server, refused, deploys, faults>>

Expired(n) == registry[n] # None /\ registry[n].age > Lease

expireAndPublish ==
  /\ Leader \in up
  /\ \E n \in Node : Expired(n)
  /\ registry' = [n \in Node |-> IF Expired(n) THEN None ELSE registry[n]]
  /\ UNCHANGED <<desired, want, up, client, server, reported, refused, deploys, faults>>

\* Leadership is lost and acquired again: the registry starts over.
acquire ==
  /\ Leader \in up /\ Fault
  /\ registry' = [n \in Node |-> None]
  /\ UNCHANGED <<desired, want, up, client, server, reported, refused, deploys>>

-----------------------------------------------------------------------------

\* Everything due in this step was done; a refused follower tries again every second,
\* and time does not wait for that.
Prompt ==
  /\ \A s \in Session : server[s].messages = <<>> \/ server[s].node \in refused
  /\ \A n \in (up \cap Follower) \ refused : client[n] # None => n \in reported
  /\ Leader \in up => Leader \in reported \/ Conflict(Leader, want[Leader])

\* Ten seconds pass; a late message or report is a fault.
Tick ==
  /\ \/ Prompt /\ UNCHANGED faults
     \/ ~Prompt /\ Fault
  /\ registry' = [n \in Node |->
       IF registry[n] = None \/ registry[n].age > Lease THEN registry[n]
       ELSE [registry[n] EXCEPT !.age = @ + 1]]
  /\ reported' = {} /\ refused' = {}
  /\ UNCHANGED <<desired, want, up, client, server, deploys>>

Next ==
  \/ Tick \/ registerLocal \/ expireAndPublish \/ acquire
  \/ \E d \in Digest : Deploy(d)
  \/ \E n \in Node : SetServices(n) \/ Stop(n)
  \/ \E n \in Follower : Follow(n) \/ SendState(n) \/ Break(n)
  \/ \E s \in Session : Handle(s) \/ Finish(s)

\* Reconcilers, loops and handlers run on, and time passes.
Spec ==
  /\ Init /\ [][Next]_vars
  /\ SF_vars(Tick) /\ WF_vars(registerLocal) /\ WF_vars(expireAndPublish)
  /\ \A n \in Node : WF_vars(SetServices(n))
  /\ \A n \in Follower : WF_vars(Follow(n) \/ SendState(n))
  /\ \A s \in Session : WF_vars(Handle(s) \/ Finish(s))

-----------------------------------------------------------------------------
(* Properties *)

\* The registry of a lasting leader converges.  The nodes of a group do not wait for each
\* other for ever when their contract changes, although every old entry refuses the new
\* Hello of the others (handle); and a node that stopped is removed for good, also when
\* its Drain was lost or overtaken by the Hello of an older stream (drain).  Whatever
\* broke, was overtaken or was handled late, in the end the running nodes are registered
\* with their endpoints under the contract of the index, and no others.
RegistryConverges ==
  <>[](Leader \in up) =>
    <>[](\A n \in Node :
           IF n \in up THEN registry[n] # None /\ registry[n].digest = desired /\ registry[n].state
           ELSE registry[n] = None)
=============================================================================
