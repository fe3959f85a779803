-------------------------- MODULE DeploymentIndex --------------------------
(***************************************************************************)
(* The commands deploy, delete and list (internal/cli/deploy): writers     *)
(* publish immutable payload objects and then commit one key of            *)
(* deployments/index.json by compare-and-swap; readers read the index and  *)
(* then the payloads it names.  ETags identify content, so the conditional *)
(* write compares the index with the one that was read.                    *)
(***************************************************************************)
EXTENDS Naturals

CONSTANTS Key, Dep, serviceOf, None,
          Writer,        \* runs of deploy and delete
          Reader,        \* runs of list
          MaxAttempts,   \* mutateIndex gives up after this many reads (16)
          MaxLost        \* bound on failed or unanswered store requests

ASSUME DepAssumption == None \notin Dep /\ None \notin [Key -> Dep \cup {None}]
ASSUME BoundAssumption == MaxAttempts \in Nat \ {0} /\ MaxLost \in Nat

VARIABLES
  index,    \* deployments/index.json, None while it does not exist
  objects,  \* payload objects: <<kind, deployment>>
  writer,   \* the run of each writer
  reader,   \* the index each reader works from, or its result
  lost      \* requests that failed so far

vars == <<index, objects, writer, reader, lost>>

Abstract == INSTANCE DesiredState WITH desired <- index

\* A command's local variables.
Command(pc, k, d, seen, n) == [pc |-> pc, key |-> k, dep |-> d, seen |-> seen, attempt |-> n]

\* A run of list.
Listing(pc, seen) == [pc |-> pc, seen |-> seen]

Init ==
  /\ index = None
  /\ objects = {}
  /\ writer = [w \in Writer |-> Command("idle", None, None, None, 0)]
  /\ reader = [r \in Reader |-> Listing("idle", None)]
  /\ lost = 0

Goto(w, pc) ==
  LET c == writer[w]
  IN  writer' = [writer EXCEPT ![w] = Command(pc, c.key, c.dep, c.seen, c.attempt)]
Lose == lost < MaxLost /\ lost' = lost + 1

\* The payloads a deployment consists of.
Payloads(d) == {<<"pod", d>>} \cup
               (IF serviceOf[d] = None THEN {} ELSE {<<"service", d>>})

\* Every payload that index i names exists.
Complete(i) == \A k \in Key : i # None /\ i[k] # None => Payloads(i[k]) \subseteq objects

-----------------------------------------------------------------------------
(* deploy and delete *)

\* Apply is called for a key and a deployment.
StartApply(w, k, d) ==
  /\ writer[w].pc = "idle"
  /\ writer' = [writer EXCEPT ![w] = Command("pod", k, d, None, 0)]
  /\ UNCHANGED <<index, objects, reader, lost>>

\* Delete is called for a key.
StartDelete(w, k) ==
  /\ writer[w].pc = "idle"
  /\ writer' = [writer EXCEPT ![w] = Command("read", k, None, None, 0)]
  /\ UNCHANGED <<index, objects, reader, lost>>

\* Mutant of PutPayload: every error counts as "the object exists".
PutPayloadTolerant(w, kind, pc) ==
  LET o == <<kind, writer[w].dep>>
  IN  \/ objects' = objects \cup {o} /\ Goto(w, pc) /\ UNCHANGED lost
      \/ UNCHANGED objects /\ Goto(w, pc) /\ Lose

\* A payload is created unless it exists; an existing object is no error.  A
\* request may fail with or without effect.
PutPayload(w, kind, pc) ==
  LET o == <<kind, writer[w].dep>>
  IN  \/ objects' = objects \cup {o} /\ Goto(w, pc) /\ UNCHANGED lost
      \/ objects' \in {objects, objects \cup {o}} /\ Goto(w, "failed") /\ Lose

PutPod(w) ==
  /\ writer[w].pc = "pod"
  /\ PutPayload(w, "pod", IF serviceOf[writer[w].dep] = None THEN "read" ELSE "service")
  /\ UNCHANGED <<index, reader>>

PutService(w) ==
  /\ writer[w].pc = "service"
  /\ PutPayload(w, "service", "read")
  /\ UNCHANGED <<index, reader>>

\* The index with the writer's mutation applied to what it read.
Mutated(w) == [Abstract!Entries(writer[w].seen) EXCEPT ![writer[w].key] = writer[w].dep]

\* MarshalIndex parses what it wrote and fails if a Service is referenced twice.
MarshalRefuses(i) == ~Abstract!UniqueServices(i)

\* mutateIndex reads the index, mutates and marshals it.
ReadIndex(w) ==
  /\ writer[w].pc = "read"
  /\ \/ LET c == writer[w]
            i == [Abstract!Entries(index) EXCEPT ![c.key] = c.dep]
        IN  /\ writer' = [writer EXCEPT ![w] =
                  Command(IF MarshalRefuses(i) THEN "failed" ELSE "put", c.key, c.dep, index, c.attempt)]
            /\ UNCHANGED lost
     \/ Goto(w, "failed") /\ Lose
  /\ UNCHANGED <<index, objects, reader>>

\* A lost race: mutateIndex reads again, at most MaxAttempts times.
Again(w) ==
  LET c == writer[w]
      a == c.attempt + 1
  IN  writer' = [writer EXCEPT ![w] =
        Command(IF a < MaxAttempts THEN "read" ELSE "failed", c.key, c.dep, c.seen, a)]

\* Mutant of PutIndex: the write is not conditional.
PutIndexBlind(w) ==
  /\ writer[w].pc = "put"
  /\ \/ index' = Mutated(w) /\ Goto(w, "done") /\ UNCHANGED lost
     \/ UNCHANGED index /\ Goto(w, "failed") /\ Lose
  /\ UNCHANGED <<objects, reader>>

\* PutIfMatch.  The client resends an unanswered request, so a write that took
\* effect may be answered with success, with a precondition failure of its own
\* repetition, or not at all.
PutIndex(w) ==
  /\ writer[w].pc = "put"
  /\ \/ /\ index = writer[w].seen
        /\ index' = Mutated(w)
        /\ \/ Goto(w, "done") /\ UNCHANGED lost
           \/ Goto(w, "failed") /\ Lose
           \/ Mutated(w) # writer[w].seen /\ Again(w) /\ Lose
     \/ index # writer[w].seen /\ Again(w) /\ UNCHANGED <<index, lost>>
     \/ Goto(w, "failed") /\ Lose /\ UNCHANGED index
  /\ UNCHANGED <<objects, reader>>

-----------------------------------------------------------------------------
(* list *)

\* List reads the index; without one there is nothing to list.
ListIndex(r) ==
  /\ reader[r].pc = "idle"
  /\ reader' = [reader EXCEPT ![r] = Listing(IF index = None THEN "done" ELSE "read", index)]
  /\ UNCHANGED <<index, objects, writer, lost>>

\* List reads every payload and fails if one is missing.
ListPayloads(r) ==
  /\ reader[r].pc = "read"
  /\ LET seen == reader[r].seen
     IN  reader' = [reader EXCEPT ![r] = Listing(IF Complete(seen) THEN "done" ELSE "failed", seen)]
  /\ UNCHANGED <<index, objects, writer, lost>>

-----------------------------------------------------------------------------

WriterStep(w) == PutPod(w) \/ PutService(w) \/ ReadIndex(w) \/ PutIndex(w)
WriterStart(w) ==
  \/ \E k \in Key, d \in Dep : StartApply(w, k, d)
  \/ \E k \in Key : StartDelete(w, k)
ReaderStep(r) == ListIndex(r) \/ ListPayloads(r)

Next ==
  \/ \E w \in Writer : WriterStart(w) \/ WriterStep(w)
  \/ \E r \in Reader : ReaderStep(r)

Spec == Init /\ [][Next]_vars

-----------------------------------------------------------------------------
(* Properties *)

\* A deployment becomes visible only after its payloads: whatever index a
\* reconciler or list reads, now or a while ago, all objects it names exist, even
\* if commands failed or died between their requests.
PayloadsPresent ==
  /\ Complete(index)
  /\ \A r \in Reader : Complete(reader[r].seen) /\ reader[r].pc # "failed"

\* mutateIndex loses no update: whatever writers race, fail or repeat a request,
\* every change of the index sets one key and keeps the others, and it still parses.
ImplementsDesiredState == Abstract!Spec
===========================================================================
