---------------------------- MODULE SnapshotLog ----------------------------
(***************************************************************************)
(* What fenced publication promises, without saying how: the versions that *)
(* ever were durable form one log, extended at its end only, by the leader *)
(* of the last generation or by the first snapshot of the next generation; *)
(* and an agent holds nothing but versions of that log, each newer than    *)
(* the one before, until its process ends.  Coordinator implements this.   *)
(***************************************************************************)
EXTENDS Naturals

CONSTANTS
  Node,   \* nodes that can lead
  Agent,  \* nodes that hold versions
  None    \* no version

VARIABLES
  latest,   \* the durable version, or None
  history,  \* all versions that ever were durable
  held      \* version an agent applied, or None

logVars == <<latest, history, held>>

Version == [gen: Nat, rev: Nat, leader: Node]

Above(v, w) == v.gen > w.gen \/ (v.gen = w.gen /\ v.rev > w.rev)

Init ==
  /\ latest = None
  /\ history = {}
  /\ held = [n \in Agent |-> None]

Append(v) ==
  /\ latest' = v
  /\ history' = history \cup {v}
  /\ UNCHANGED held

\* A leader opens the next generation at revision 0.
Acquire(n) ==
  Append([gen |-> IF latest = None THEN 1 ELSE latest.gen + 1,
          rev |-> 0, leader |-> n])

\* The leader of the generation publishes its next revision.
Publish ==
  /\ latest # None
  /\ Append([latest EXCEPT !.rev = @ + 1])

\* An agent moves forward in the log, possibly over several versions.
Adopt(n, v) ==
  /\ v \in history
  /\ held[n] # None => Above(v, held[n])
  /\ held' = [held EXCEPT ![n] = v]
  /\ UNCHANGED <<latest, history>>

\* The process of an agent ends.
Forget(n) ==
  /\ held' = [held EXCEPT ![n] = None]
  /\ UNCHANGED <<latest, history>>

Next ==
  \/ \E n \in Node : Acquire(n)
  \/ Publish
  \/ \E n \in Agent : Forget(n) \/ \E v \in history : Adopt(n, v)

Spec == Init /\ [][Next]_logVars

=============================================================================
