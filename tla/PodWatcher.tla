----------------------------- MODULE PodWatcher -----------------------------
(***************************************************************************)
(* The kubelet Pod watcher (pods/watcher.go) and the callback the daemon   *)
(* gives it (daemon.go, runPodsControllerWithWatcher): a stream of Pod     *)
(* events becomes complete snapshots for the Service controller, and every *)
(* snapshot hints the dataplane to look for new interfaces.                *)
(*                                                                         *)
(* The kubelet is external.  A watch sends one ADDED event for each Pod it *)
(* has, in some order, then INITIAL_SYNC_COMPLETE, then every change.      *)
(***************************************************************************)
EXTENDS Naturals, Sequences, FiniteSets

CONSTANTS Pod,          \* Pod UIDs
          Status,       \* what a Pod reports: [running, deleting, ready, addresses]
          None,
          MaxChanges,   \* bound on changes of Pods
          MaxFaults     \* bound on broken streams, refused watches and bad events

WatcherAssumption ==
  /\ Status \subseteq [running: BOOLEAN, deleting: BOOLEAN, ready: BOOLEAN, addresses: Nat]
  /\ Cardinality(Pod) \in Nat   \* a node has finitely many

VARIABLES
  past,        \* history: the kubelet's Pods after each change, the last is current
  stream,      \* events the open stream still has to deliver
  broken,      \* the open stream has failed: Recv may return the error
  pc,          \* "dial", "watch", "recv", "delay", "done"
  state,       \* consume: staged Pods
  synced,      \* consume: INITIAL_SYNC_COMPLETE was seen
  read,        \* history: the element of past the last event received belongs to
  published,  \* the last snapshot given to SetPods
  hint,        \* refreshHint, a channel of capacity one
  cancelled, faults

streaming == <<stream, broken, state, synced, read>>
vars == <<past, pc, streaming, published, hint, cancelled, faults>>

Kubelet == past[Len(past)]
NoPods == [p \in Pod |-> None]

\* Exactly one global IPv6 address makes the address valid.
project(s) ==
  [address |-> s.addresses = 1,
   eligible |-> s.running /\ ~s.deleting /\ s.ready /\ s.addresses = 1]
View(pods) == [p \in Pod |-> IF pods[p] = None THEN None ELSE project(pods[p])]

Event(type, p, s) == [type |-> type, pod |-> p, status |-> s, at |-> Len(past)]

Init ==
  /\ past \in {<<k>> : k \in [Pod -> Status \cup {None}]}
  /\ pc = "dial" /\ stream = <<>> /\ broken = FALSE /\ state = NoPods /\ synced = FALSE /\ read = 0
  /\ published = NoPods /\ hint = FALSE
  /\ cancelled = FALSE /\ faults = 0

-----------------------------------------------------------------------------
(* The kubelet and the process's context: external *)

\* A Pod appears, changes or goes, and an open stream will say so.
Change(p, s) ==
  /\ Len(past) <= MaxChanges /\ s # Kubelet[p]
  /\ past' = Append(past, [Kubelet EXCEPT ![p] = s])
  /\ stream' = IF pc # "recv" \/ broken THEN stream
               ELSE Append(stream, [type |-> IF s = None THEN "DELETED" ELSE "MODIFIED",
                                    pod |-> p, status |-> s, at |-> Len(past) + 1])
  /\ UNCHANGED <<pc, broken, state, synced, read, published, hint, cancelled, faults>>

\* The kubelet restarts or the socket fails.
Break ==
  /\ pc = "recv" /\ ~broken /\ faults < MaxFaults
  /\ broken' = TRUE /\ faults' = faults + 1
  /\ UNCHANGED <<past, pc, stream, state, synced, read, published, hint, cancelled>>

\* An event's Pod does not decode.
Corrupt ==
  /\ pc = "recv" /\ stream # <<>> /\ Head(stream).type # "SYNC" /\ faults < MaxFaults
  /\ stream' = [stream EXCEPT ![1].type = "BAD"] /\ faults' = faults + 1
  /\ UNCHANGED <<past, pc, broken, state, synced, read, published, hint, cancelled>>

Cancel ==
  /\ ~cancelled /\ faults < MaxFaults
  /\ cancelled' = TRUE /\ faults' = faults + 1
  /\ UNCHANGED <<past, pc, streaming, published, hint>>

-----------------------------------------------------------------------------
(* The watcher *)

TriggerRefresh == hint' = TRUE

\* The callback: SetPods, then the hint.
Publish(pods) == published' = pods /\ TriggerRefresh

\* runPodsWatcher.  A client that cannot be made publishes no Pods and ends.
Dial ==
  /\ pc = "dial"
  /\ \/ pc' = "watch" /\ UNCHANGED <<published, hint, faults>>
     \/ faults < MaxFaults /\ faults' = faults + 1 /\ pc' = "done" /\ Publish(NoPods)
  /\ UNCHANGED <<past, streaming, cancelled>>

\* The end of an attempt: no Pods are published, then Run ends or waits.
Disconnected == pc' = (IF cancelled THEN "done" ELSE "delay") /\ Publish(NoPods)

\* The initial list in any order, then the marker.
InitialEvents ==
  LET present == {p \in Pod : Kubelet[p] # None}
      orders == {order \in UNION {[1..n -> present] : n \in 0..Cardinality(Pod)} :
                   \A p \in present : \E i \in DOMAIN order :
                     order[i] = p /\ \A j \in DOMAIN order : order[j] = p => j = i}
      list(order) == [i \in DOMAIN order |-> Event("ADDED", order[i], Kubelet[order[i]])]
  IN  {Append(list(order), Event("SYNC", None, None)) : order \in orders}

\* A stream is opened, unless the context ended before or during the call.
Watch ==
  /\ pc = "watch"
  /\ \/ /\ ~cancelled /\ pc' = "recv" /\ stream' \in InitialEvents
        /\ broken' = FALSE /\ state' = NoPods /\ synced' = FALSE /\ read' = 0
        /\ UNCHANGED <<published, hint, faults>>
     \/ /\ ~cancelled /\ faults < MaxFaults /\ faults' = faults + 1
        /\ Disconnected /\ UNCHANGED streaming
     \/ cancelled /\ Disconnected /\ UNCHANGED <<streaming, faults>>
     \/ cancelled /\ pc' = "done" /\ UNCHANGED <<streaming, published, hint, faults>>
  /\ UNCHANGED <<past, cancelled>>

\* Mutant of Announce: staged Pods are published before the initial list is complete.
AnnounceStaged == Publish(state')

\* Nothing is published before the initial list is complete.
Announce == IF synced' THEN Publish(state') ELSE UNCHANGED <<published, hint>>

\* One event is received and applied.
Consume ==
  /\ pc = "recv" /\ ~cancelled /\ stream # <<>> /\ Head(stream).type # "BAD"
  /\ LET e == Head(stream) IN
       /\ synced' = (synced \/ e.type = "SYNC")
       /\ state' = CASE e.type = "SYNC" -> state
                     [] e.type = "DELETED" -> [state EXCEPT ![e.pod] = None]
                     [] OTHER -> [state EXCEPT ![e.pod] = project(e.status)]
       /\ read' = e.at
  /\ stream' = Tail(stream) /\ Announce
  /\ UNCHANGED <<past, pc, broken, cancelled, faults>>

\* Recv or decoding fails, or the context is cancelled.  Events of a failed stream
\* that were not received are lost.
Interrupted ==
  /\ pc = "recv"
  /\ broken \/ cancelled \/ (stream # <<>> /\ Head(stream).type = "BAD")
  /\ Disconnected /\ stream' = <<>> /\ synced' = FALSE /\ state' = NoPods
  /\ UNCHANGED <<past, broken, read, cancelled, faults>>

\* The timer fires or the context ends.
Retry ==
  /\ pc = "delay" /\ pc' = (IF cancelled THEN "done" ELSE "watch")
  /\ UNCHANGED <<past, streaming, published, hint, cancelled, faults>>

\* A goroutine of the dataplane takes the hint.  Module Dataplane models the refresh,
\* which a timer also starts: a hint taken by a goroutine that then stops is lost.
TakeHint ==
  /\ hint /\ hint' = FALSE
  /\ UNCHANGED <<past, pc, streaming, published, cancelled, faults>>

Watcher == Dial \/ Watch \/ Consume \/ Interrupted \/ Retry

Next ==
  \/ \E p \in Pod, s \in Status \cup {None} : Change(p, s)
  \/ Break \/ Corrupt \/ Cancel
  \/ Watcher \/ TakeHint

\* Goroutines, timers and the kubelet's stream make progress; changes and faults need
\* not happen.
Spec == Init /\ [][Next]_vars /\ WF_vars(Watcher)

-----------------------------------------------------------------------------
(* Properties *)

\* The controller sees no Pods, or all Pods of one moment of the kubelet: the moment of
\* the last event the current stream delivered (watcher.go, consume).  A half-read
\* initial list and the view of a lost stream are never visible.
ViewComplete == published = IF synced THEN View(past[read]) ELSE NoPods

\* Unless the watcher ends, the controller's Pods become the kubelet's (watcher.go, Run).
ViewConverges == <>[](pc # "done" => published = View(Kubelet))

\* The controller's view follows the kubelet: it is complete or empty at every moment,
\* and catches up after every break of the stream (watcher.go).
ViewFollows == []ViewComplete /\ ViewConverges
=============================================================================
