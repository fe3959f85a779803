---------------------------- MODULE DeployProofs ----------------------------
(***************************************************************************)
(* PayloadsPresent and ImplementsDesiredState for any number of commands,  *)
(* keys, deployments, attempts and failed requests; NamedStored and        *)
(* RetentionHonoured for any dependencies, versions and node groups;       *)
(* IndexFetchable, OneTagChanges and EnsuredFetchable for any images,      *)
(* tags, machines and interrupted commands.                                *)
(*                                                                         *)
(* The invariant of the deployment index adds what a command carries from  *)
(* one request to the next (CommandOK): once it has put its payloads they  *)
(* exist, and what it is about to write was accepted by MarshalIndex.      *)
(* That the write is conditional turns both into facts about the index.    *)
(*                                                                         *)
(* The invariant of the dependencies follows a setup (SetupOK): it has     *)
(* stored what its manifest names before it publishes that manifest, and   *)
(* when it deletes, no launch template names an older one.  What it is     *)
(* about to delete has as many newer versions as are kept, none of them    *)
(* about to be deleted (Replaced).  It holds when setups follow each other *)
(* (OneSetup): of two at once, one may delete what the other has found.    *)
(*                                                                         *)
(* The invariant of the images follows a command (CallOK): from the        *)
(* validation on its cache holds no decayed blob, then the whole image,    *)
(* and when index.json is written, so does the bucket.  In apps/, where a  *)
(* cached tag is pushed without validation, every cached image is whole    *)
(* (CachesWhole).  It holds when every machine has a cache of its own      *)
(* (OwnCaches): on one machine a pull may move the tag under a push.       *)
(***************************************************************************)
EXTENDS MCDeploy, FiniteSetTheorems, TLAPS

USE Zenon

\* What one command carries from one request to the next: once it has put a
\* payload the store has it, and what it is about to write parses.
CommandOK(c, store) ==
  c.pc # "idle" =>
    /\ c.key \in Key
    /\ c.dep \in Dep \cup {None}
    /\ c.pc \in {"pod", "service"} => c.dep \in Dep
    /\ c.pc = "service" => <<"pod", c.dep>> \in store
    /\ c.pc \in {"read", "put"} /\ c.dep # None => Payloads(c.dep) \subseteq store
    /\ c.pc = "put" => Abstract!UniqueServices([Abstract!Entries(c.seen) EXCEPT ![c.key] = c.dep])

WritersOK == writer = [w \in Writer |-> writer[w]] /\ \A w \in Writer : CommandOK(writer[w], objects)

\* A run of list works from an index whose payloads exist.
ListingOK(l) == Complete(l.seen) /\ l.pc # "failed"

ReadersOK == reader = [r \in Reader |-> reader[r]] /\ \A r \in Reader : ListingOK(reader[r])

\* The index is absent or has an entry or None for every key, and its payloads exist.
IndexOK == index \in [Key -> Dep \cup {None}] \cup {None} /\ Complete(index)

\* The inductive invariant.
IndexInv == IndexOK /\ WritersOK /\ ReadersOK

-----------------------------------------------------------------------------
(* One command's step *)

\* A command takes a step, the others keep what they carry.
LEMMA WritersUpdate ==
  ASSUME WritersOK, NEW w \in Writer, NEW c, writer' = [writer EXCEPT ![w] = c],
         objects \subseteq objects', CommandOK(c, objects')
  PROVE  WritersOK'
<1>1. writer = [v \in Writer |-> writer[v]] /\ \A v \in Writer : CommandOK(writer[v], objects)
  BY DEF WritersOK
<1>2. writer' = [v \in Writer |-> IF v = w THEN c ELSE writer[v]]
  BY <1>1
<1>3. ASSUME NEW v \in Writer PROVE CommandOK(writer'[v], objects')
  <2>1. CASE v = w
    <3>1. writer'[v] = c
      BY <2>1, <1>2
    <3> QED
      BY <3>1 DEF CommandOK
  <2>2. CASE v # w
    <3>1. writer'[v] = writer[v] /\ CommandOK(writer[v], objects)
      BY <2>2, <1>1, <1>2
    <3> DEFINE x == writer[v]
    <3>2. /\ x.pc # "idle" => x.key \in Key /\ x.dep \in Dep \cup {None}
          /\ x.pc \in {"pod", "service"} => x.dep \in Dep
          /\ x.pc = "service" => <<"pod", x.dep>> \in objects'
          /\ x.pc \in {"read", "put"} /\ x.dep # None => Payloads(x.dep) \subseteq objects'
          /\ x.pc = "put" => Abstract!UniqueServices([Abstract!Entries(x.seen) EXCEPT ![x.key] = x.dep])
      BY <3>1 DEF CommandOK
    <3> QED
      BY <3>1, <3>2 DEF CommandOK
  <2> QED
    BY <2>1, <2>2
<1>4. writer' = [v \in Writer |-> writer'[v]]
  BY <1>2
<1> QED
  BY <1>3, <1>4 DEF WritersOK

\* The index and the readers do not change.
LEMMA RestKept ==
  ASSUME IndexOK, ReadersOK, objects \subseteq objects', index' = index, reader' = reader
  PROVE  IndexOK' /\ ReadersOK'
BY DEF IndexOK, ReadersOK, ListingOK, Complete

\* The payloads of a deployment without and with a Service.
LEMMA PayloadsOf ==
  ASSUME NEW d
  PROVE  /\ serviceOf[d] = None => Payloads(d) = {<<"pod", d>>}
         /\ Payloads(d) \subseteq {<<"pod", d>>, <<"service", d>>}
BY DEF Payloads

\* Init establishes the invariant.
LEMMA InitIndexInv == Init => IndexInv
<1> SUFFICES ASSUME Init PROVE IndexInv
  OBVIOUS
<1>1. IndexOK
  BY DEF Init, IndexOK, Complete
<1>2. WritersOK
  BY DEF Init, WritersOK, CommandOK, Command
<1>3. ReadersOK
  BY DEF Init, ReadersOK, ListingOK, Listing, Complete
<1> QED
  BY <1>1, <1>2, <1>3 DEF IndexInv

\* deploy or delete is called.
LEMMA StartKeeps ==
  ASSUME IndexInv, NEW w \in Writer, WriterStart(w)
  PROVE  IndexInv'
<1>1. IndexOK /\ WritersOK /\ ReadersOK
  BY DEF IndexInv
<1>2. CASE \E k \in Key, d \in Dep : StartApply(w, k, d)
  <2>1. PICK k \in Key, d \in Dep : StartApply(w, k, d)
    BY <1>2
  <2>2. CommandOK(Command("pod", k, d, None, 0), objects')
    BY DEF CommandOK, Command
  <2>3. writer' = [writer EXCEPT ![w] = Command("pod", k, d, None, 0)] /\ objects \subseteq objects'
    BY <2>1 DEF StartApply
  <2>4. WritersOK'
    BY <1>1, <2>2, <2>3, WritersUpdate
  <2> QED
    BY <1>1, <2>1, <2>3, <2>4, RestKept DEF StartApply, IndexInv
<1>3. CASE \E k \in Key : StartDelete(w, k)
  <2>1. PICK k \in Key : StartDelete(w, k)
    BY <1>3
  <2>2. CommandOK(Command("read", k, None, None, 0), objects')
    BY DEF CommandOK, Command
  <2>3. writer' = [writer EXCEPT ![w] = Command("read", k, None, None, 0)] /\ objects \subseteq objects'
    BY <2>1 DEF StartDelete
  <2>4. WritersOK'
    BY <1>1, <2>2, <2>3, WritersUpdate
  <2> QED
    BY <1>1, <2>1, <2>3, <2>4, RestKept DEF StartDelete, IndexInv
<1> QED
  BY <1>2, <1>3 DEF WriterStart

\* A busy command carries what its program point promises.
LEMMA Carries ==
  ASSUME WritersOK, NEW w \in Writer
  PROVE  CommandOK(writer[w], objects)
BY DEF WritersOK

\* A command goes on after a payload's request, or ends with its failure.
LEMMA PutKeeps ==
  ASSUME IndexInv, NEW w \in Writer, writer[w].pc # "idle", NEW kind, NEW pc, PutPayload(w, kind, pc),
         UNCHANGED <<index, reader>>,
         <<kind, writer[w].dep>> \in objects' =>
           CommandOK(Command(pc, writer[w].key, writer[w].dep, writer[w].seen, writer[w].attempt), objects')
  PROVE  IndexInv'
<1> DEFINE c == writer[w]
           o == <<kind, c.dep>>
<1>1. IndexOK /\ WritersOK /\ ReadersOK /\ CommandOK(c, objects)
  BY Carries DEF IndexInv
<1>2. objects \subseteq objects'
  BY DEF PutPayload
<1>3. CASE objects' = objects \cup {o} /\ Goto(w, pc)
  <2>1. writer' = [writer EXCEPT ![w] = Command(pc, c.key, c.dep, c.seen, c.attempt)]
    BY <1>3 DEF Goto
  <2>2. WritersOK'
    BY <1>1, <1>2, <1>3, <2>1, WritersUpdate
  <2> QED
    BY <1>1, <1>2, <2>2, RestKept DEF IndexInv
<1>4. CASE Goto(w, "failed")
  <2>1. writer' = [writer EXCEPT ![w] = Command("failed", c.key, c.dep, c.seen, c.attempt)]
    BY <1>4 DEF Goto
  <2>2. CommandOK(Command("failed", c.key, c.dep, c.seen, c.attempt), objects')
    BY <1>1 DEF CommandOK, Command
  <2>3. WritersOK'
    BY <1>1, <1>2, <2>1, <2>2, WritersUpdate
  <2> QED
    BY <1>1, <1>2, <2>3, RestKept DEF IndexInv
<1> QED
  BY <1>3, <1>4 DEF PutPayload

\* The Pod payload is put.
LEMMA PutPodKeeps ==
  ASSUME IndexInv, NEW w \in Writer, PutPod(w)
  PROVE  IndexInv'
<1> DEFINE c == writer[w]
           pc == IF serviceOf[c.dep] = None THEN "read" ELSE "service"
<1>1. CommandOK(c, objects) /\ c.pc = "pod"
  BY Carries DEF IndexInv, PutPod
<1>2. c.key \in Key /\ c.dep \in Dep
  BY <1>1 DEF CommandOK
<1>3. ASSUME <<"pod", c.dep>> \in objects'
      PROVE  CommandOK(Command(pc, c.key, c.dep, c.seen, c.attempt), objects')
  <2>1. CASE serviceOf[c.dep] = None
    <3>1. Payloads(c.dep) \subseteq objects'
      BY <2>1, <1>3, PayloadsOf
    <3> QED
      BY <2>1, <3>1, <1>2 DEF CommandOK, Command
  <2>2. CASE serviceOf[c.dep] # None
    BY <2>2, <1>2, <1>3 DEF CommandOK, Command
  <2> QED
    BY <2>1, <2>2
<1>4. PutPayload(w, "pod", pc) /\ UNCHANGED <<index, reader>> /\ c.pc # "idle"
  BY <1>1 DEF PutPod
<1> QED
  BY <1>3, <1>4, PutKeeps

\* The Service payload is put.
LEMMA PutServiceKeeps ==
  ASSUME IndexInv, NEW w \in Writer, PutService(w)
  PROVE  IndexInv'
<1> DEFINE c == writer[w]
<1>1. CommandOK(c, objects) /\ c.pc = "service"
  BY Carries DEF IndexInv, PutService
<1>2. c.key \in Key /\ c.dep \in Dep /\ <<"pod", c.dep>> \in objects
  BY <1>1 DEF CommandOK
<1>3. PutPayload(w, "service", "read") /\ UNCHANGED <<index, reader>> /\ c.pc # "idle"
  BY <1>1 DEF PutService
<1>4. <<"pod", c.dep>> \in objects'
  BY <1>2, <1>3 DEF PutPayload
<1>5. ASSUME <<"service", c.dep>> \in objects'
      PROVE  CommandOK(Command("read", c.key, c.dep, c.seen, c.attempt), objects')
  <2>1. Payloads(c.dep) \subseteq objects'
    BY <1>4, <1>5, PayloadsOf
  <2> QED
    BY <2>1, <1>2 DEF CommandOK, Command
<1> QED
  BY <1>3, <1>5, PutKeeps

\* The index is read, mutated and marshalled.
LEMMA ReadKeeps ==
  ASSUME IndexInv, NEW w \in Writer, ReadIndex(w)
  PROVE  IndexInv'
<1> DEFINE c == writer[w]
           i == [Abstract!Entries(index) EXCEPT ![c.key] = c.dep]
           pc == IF MarshalRefuses(i) THEN "failed" ELSE "put"
<1>1. IndexOK /\ WritersOK /\ ReadersOK /\ CommandOK(c, objects) /\ c.pc = "read"
  BY Carries DEF IndexInv, ReadIndex
<1>2. objects' = objects /\ index' = index /\ reader' = reader
  BY DEF ReadIndex
<1>3. /\ c.key \in Key /\ c.dep \in Dep \cup {None}
      /\ c.dep # None => Payloads(c.dep) \subseteq objects'
  BY <1>1, <1>2 DEF CommandOK
<1>4. CASE writer' = [writer EXCEPT ![w] = Command(pc, c.key, c.dep, index, c.attempt)]
  <2>1. CommandOK(Command(pc, c.key, c.dep, index, c.attempt), objects')
    <3>1. CASE MarshalRefuses(i)
      BY <3>1, <1>3 DEF CommandOK, Command
    <3>2. CASE ~MarshalRefuses(i)
      <4>1. Abstract!UniqueServices(i) /\ pc = "put"
        BY <3>2 DEF MarshalRefuses
      <4> HIDE DEF pc
      <4> QED
        BY <4>1, <1>2, <1>3 DEF CommandOK, Command
    <3> QED
      BY <3>1, <3>2
  <2>2. WritersOK'
    BY <1>1, <1>2, <1>4, <2>1, WritersUpdate
  <2> QED
    BY <1>1, <1>2, <2>2, RestKept DEF IndexInv
<1>5. CASE Goto(w, "failed")
  <2>1. writer' = [writer EXCEPT ![w] = Command("failed", c.key, c.dep, c.seen, c.attempt)]
    BY <1>5 DEF Goto
  <2>2. CommandOK(Command("failed", c.key, c.dep, c.seen, c.attempt), objects')
    BY <1>3 DEF CommandOK, Command
  <2>3. WritersOK'
    BY <1>1, <1>2, <2>1, <2>2, WritersUpdate
  <2> QED
    BY <1>1, <1>2, <2>3, RestKept DEF IndexInv
<1> QED
  BY <1>4, <1>5 DEF ReadIndex

\* A mutated index has an entry or None for every key.
LEMMA MutatedType ==
  ASSUME NEW i \in [Key -> Dep \cup {None}] \cup {None}, NEW k \in Key, NEW d \in Dep \cup {None}
  PROVE  [Abstract!Entries(i) EXCEPT ![k] = d] \in [Key -> Dep \cup {None}]
<1>1. Abstract!Entries(i) \in [Key -> Dep \cup {None}]
  BY DEF Abstract!Entries, Abstract!EmptyIndex
<1> QED
  BY <1>1

\* Setting one key to a deployment whose payloads exist keeps an index complete.
LEMMA MutatedComplete ==
  ASSUME NEW i \in [Key -> Dep \cup {None}] \cup {None}, Complete(i),
         NEW k \in Key, NEW d \in Dep \cup {None}, d # None => Payloads(d) \subseteq objects
  PROVE  Complete([Abstract!Entries(i) EXCEPT ![k] = d])
<1> DEFINE e == Abstract!Entries(i)
           j == [e EXCEPT ![k] = d]
<1>1. e \in [Key -> Dep \cup {None}]
  BY DEF Abstract!Entries, Abstract!EmptyIndex
<1>2. \A l \in Key : e[l] # None => i # None /\ i[l] = e[l]
  BY DEF Abstract!Entries, Abstract!EmptyIndex
<1>3. \A l \in Key : j[l] = IF l = k THEN d ELSE e[l]
  BY <1>1
<1>4. \A l \in Key : j[l] # None => Payloads(j[l]) \subseteq objects
  BY <1>2, <1>3 DEF Complete
<1> QED
  BY <1>4 DEF Complete

\* An index written by PutIndex is the abstract index with one key committed.
LEMMA PutIndexStep ==
  ASSUME IndexInv, NEW w \in Writer, PutIndex(w)
  PROVE  \/ index' = index
         \/ /\ index = writer[w].seen
            /\ index' = [Abstract!Entries(index) EXCEPT ![writer[w].key] = writer[w].dep]
            /\ Abstract!UniqueServices(index')
            /\ writer[w].key \in Key
            /\ writer[w].dep \in Dep \cup {None}
            /\ writer[w].dep # None => Payloads(writer[w].dep) \subseteq objects
<1> DEFINE c == writer[w]
<1>1. CommandOK(c, objects) /\ c.pc = "put"
  BY Carries DEF IndexInv, PutIndex
<1>2. /\ c.key \in Key /\ c.dep \in Dep \cup {None}
      /\ c.dep # None => Payloads(c.dep) \subseteq objects
      /\ Abstract!UniqueServices([Abstract!Entries(c.seen) EXCEPT ![c.key] = c.dep])
  BY <1>1 DEF CommandOK
<1>3. index' = index \/ (index = c.seen /\ index' = Mutated(w))
  BY DEF PutIndex
<1>4. CASE index' = index
  BY <1>4
<1>5. CASE index = c.seen /\ index' = Mutated(w)
  <2>1. index' = [Abstract!Entries(index) EXCEPT ![c.key] = c.dep]
    BY <1>5 DEF Mutated
  <2>2. Abstract!UniqueServices(index')
    BY <2>1, <1>2, <1>5
  <2> QED
    BY <2>1, <2>2, <1>2, <1>5
<1> QED
  BY <1>3, <1>4, <1>5

\* The conditional write, whether it is answered, lost or repeated.
LEMMA PutIndexKeeps ==
  ASSUME IndexInv, NEW w \in Writer, PutIndex(w)
  PROVE  IndexInv'
<1> DEFINE c == writer[w]
           a == c.attempt + 1
<1>1. IndexOK /\ WritersOK /\ ReadersOK /\ CommandOK(c, objects) /\ c.pc = "put"
  BY Carries DEF IndexInv, PutIndex
<1>2. objects' = objects /\ reader' = reader
  BY DEF PutIndex
<1>3. IndexOK'
  <2>1. CASE index' = index
    BY <2>1, <1>1, <1>2 DEF IndexOK, Complete
  <2>2. CASE index' # index
    <3>1. /\ index' = [Abstract!Entries(index) EXCEPT ![c.key] = c.dep]
          /\ c.key \in Key /\ c.dep \in Dep \cup {None}
          /\ c.dep # None => Payloads(c.dep) \subseteq objects
      BY <2>2, PutIndexStep
    <3>2. index \in [Key -> Dep \cup {None}] \cup {None} /\ Complete(index)
      BY <1>1 DEF IndexOK
    <3>3. index' \in [Key -> Dep \cup {None}]
      BY <3>1, <3>2, MutatedType
    <3>4. Complete([Abstract!Entries(index) EXCEPT ![c.key] = c.dep])
      BY <3>1, <3>2, MutatedComplete
    <3>5. \A k \in Key : index'[k] # None => index' # None /\ Payloads(index'[k]) \subseteq objects
      BY <3>1, <3>3, <3>4, DepAssumption DEF Complete
    <3>6. Complete(index)'
      BY <3>5, <1>2 DEF Complete
    <3> QED
      BY <3>3, <3>6 DEF IndexOK
  <2> QED
    BY <2>1, <2>2
<1>4. ReadersOK'
  BY <1>1, <1>2 DEF ReadersOK, ListingOK, Complete
<1>5. PICK pc \in {"done", "failed", "read"} :
        \E n : writer' = [writer EXCEPT ![w] = Command(pc, c.key, c.dep, c.seen, n)]
  <2>1. Goto(w, "done") \/ Goto(w, "failed") \/ Again(w)
    BY DEF PutIndex
  <2> QED
    BY <2>1 DEF Goto, Again
<1>6. PICK n : writer' = [writer EXCEPT ![w] = Command(pc, c.key, c.dep, c.seen, n)]
  BY <1>5
<1>7. CommandOK(Command(pc, c.key, c.dep, c.seen, n), objects')
  <2>1. /\ c.key \in Key /\ c.dep \in Dep \cup {None}
        /\ c.dep # None => Payloads(c.dep) \subseteq objects'
    BY <1>1, <1>2 DEF CommandOK
  <2> QED
    BY <1>5, <2>1 DEF CommandOK, Command
<1>8. WritersOK'
  BY <1>1, <1>2, <1>6, <1>7, WritersUpdate
<1> QED
  BY <1>3, <1>4, <1>8 DEF IndexInv

\* list reads the index, then payloads that are all there.
LEMMA ListKeeps ==
  ASSUME IndexInv, NEW r \in Reader, ReaderStep(r)
  PROVE  IndexInv'
<1>1. IndexOK /\ WritersOK /\ ReadersOK
  BY DEF IndexInv
<1>2. objects' = objects /\ index' = index /\ writer' = writer
  BY DEF ReaderStep, ListIndex, ListPayloads
<1>3. IndexOK' /\ WritersOK'
  BY <1>1, <1>2 DEF IndexOK, WritersOK, Complete
<1>4. PICK pc \in {"done", "read"} :
        \E i : reader' = [reader EXCEPT ![r] = Listing(pc, i)] /\ Complete(i)
  <2>1. CASE ListIndex(r)
    BY <2>1, <1>1 DEF ListIndex, IndexOK
  <2>2. CASE ListPayloads(r)
    <3>1. Complete(reader[r].seen)
      BY <1>1 DEF ReadersOK, ListingOK
    <3> QED
      BY <2>2, <3>1 DEF ListPayloads
  <2> QED
    BY <2>1, <2>2 DEF ReaderStep
<1>5. PICK i : reader' = [reader EXCEPT ![r] = Listing(pc, i)] /\ Complete(i)
  BY <1>4
<1>6. ReadersOK'
  <2>1. reader = [q \in Reader |-> reader[q]] /\ \A q \in Reader : ListingOK(reader[q])
    BY <1>1 DEF ReadersOK
  <2>2. reader' = [q \in Reader |-> IF q = r THEN Listing(pc, i) ELSE reader[q]]
    BY <2>1, <1>5
  <2>3. Listing(pc, i).seen = i /\ Listing(pc, i).pc # "failed"
    BY DEF Listing
  <2>4. \A q \in Reader : Complete(reader'[q].seen) /\ reader'[q].pc # "failed"
    BY <2>1, <2>2, <2>3, <1>5 DEF ListingOK
  <2>5. reader' = [q \in Reader |-> reader'[q]]
    BY <2>2
  <2> QED
    BY <2>4, <2>5, <1>2 DEF ReadersOK, ListingOK, Complete
<1> QED
  BY <1>3, <1>6 DEF IndexInv

\* Every step keeps the invariant.
LEMMA NextIndexInv == IndexInv /\ [Next]_vars => IndexInv'
<1> SUFFICES ASSUME IndexInv, [Next]_vars PROVE IndexInv'
  OBVIOUS
<1>1. CASE UNCHANGED vars
  BY <1>1 DEF vars, IndexInv, IndexOK, WritersOK, ReadersOK, ListingOK, Complete
<1>2. ASSUME NEW w \in Writer, WriterStart(w) \/ WriterStep(w) PROVE IndexInv'
  BY <1>2, StartKeeps, PutPodKeeps, PutServiceKeeps, ReadKeeps, PutIndexKeeps DEF WriterStep
<1> QED
  BY <1>1, <1>2, ListKeeps DEF Next

-----------------------------------------------------------------------------
(* Theorems *)

\* IndexInv holds throughout deploy, delete and list.
THEOREM IndexInvariant == Spec => []IndexInv
<1>1. Init => IndexInv
  BY InitIndexInv
<1>2. IndexInv /\ [Next]_vars => IndexInv'
  BY NextIndexInv
<1> QED
  BY <1>1, <1>2, PTL DEF Spec

\* Every payload that a committed index names, or that list is about to read, exists,
\* for any number of commands that race, fail or die between their requests.
THEOREM PayloadsFirst == Spec => []PayloadsPresent
<1>1. IndexInv => PayloadsPresent
  BY DEF IndexInv, IndexOK, ReadersOK, ListingOK, PayloadsPresent
<1> QED
  BY <1>1, IndexInvariant, PTL

\* A step changes the index as the abstract specification does.
LEMMA StepCommits ==
  ASSUME IndexInv, [Next]_vars
  PROVE  [Abstract!Next]_index
<1>1. CASE index' = index
  BY <1>1
<1>2. CASE index' # index
  <2>1. PICK w \in Writer : PutIndex(w)
    BY <1>2 DEF Next, vars, WriterStart, StartApply, StartDelete, WriterStep, PutPod, PutService,
                ReadIndex, ReaderStep, ListIndex, ListPayloads
  <2>2. /\ index' = [Abstract!Entries(index) EXCEPT ![writer[w].key] = writer[w].dep]
        /\ Abstract!UniqueServices(index')
        /\ writer[w].key \in Key /\ writer[w].dep \in Dep \cup {None}
    BY <1>2, <2>1, PutIndexStep
  <2>3. Abstract!Commit(writer[w].key, writer[w].dep)
    BY <2>2 DEF Abstract!Commit
  <2> QED
    BY <2>2, <2>3 DEF Abstract!Next
<1> QED
  BY <1>1, <1>2

\* mutateIndex implements the one-key-at-a-time index of DesiredState: no update of a
\* racing command is lost and no two deployments come to share a Service, for any
\* number of commands, keys, deployments, attempts and failed requests.
THEOREM ImplementsIndex == Spec => ImplementsDesiredState
<1>1. Init => Abstract!Init
  BY DEF Init, Abstract!Init
<1>2. IndexInv /\ [Next]_vars => [Abstract!Next]_index
  BY StepCommits
<1> QED
  BY <1>1, <1>2, IndexInvariant, PTL DEF Spec, ImplementsDesiredState, Abstract!Spec


-----------------------------------------------------------------------------
(* Dependencies: the inductive invariant *)

\* One setup runs at a time; interrupted ones may have run before it.
OneSetup == \A o, q \in Operator : o = q

\* Manifests, and a setup in progress.
Manifests == [files : Wanted, image : Image]
Setups ==
  [pc : {"upload", "manifest", "apply", "list", "delete"}, want : Manifests,
   seen : Manifests \cup {None}, left : SUBSET Deps!Object]

\* All that manifest m names is among the images and objects.
Present(m, images, objs) == m.image \in images /\ \A f \in Deps!Files(m) : objs[f] # None

\* Types of the state; nothing was uploaded in the future.
DepsType ==
  /\ stored \in [Deps!Object -> Nat \cup {None}] /\ clock \in Nat
  /\ \A f \in Deps!Object : stored[f] # None => stored[f] <= clock
  /\ manifest \in Manifests \cup {None}
  /\ template \in [Group -> Manifests \cup {None}]
  /\ setup \in [Operator -> Setups \cup {None}]

\* What the published manifest and the launch templates name is there.
Named ==
  /\ manifest # None => Present(manifest, mirrored, stored)
  /\ \A g \in Group : template[g] # None => Present(template[g], mirrored, stored)

\* Object f is old, and enough versions as new as it are stored and not in left.
Replaced(f, left, objs, now) ==
  /\ objs[f] # None /\ now - objs[f] >= Retention
  /\ \E keep \in SUBSET Version :
       /\ Cardinality(keep) = Kept
       /\ \A v \in keep : /\ v # f[2] /\ <<f[1], v>> \notin left
                          /\ objs[<<f[1], v>>] # None /\ objs[<<f[1], v>>] >= objs[f]

\* What a setup has achieved: it works from the manifest that is published, has stored
\* what its own names before it publishes it, and deletes when nothing names the rest.
SetupOK(r) ==
  /\ r.pc \in {"upload", "manifest"} => r.seen = manifest
  /\ r.pc = "upload" => \A f \in Deps!Files(r.want) : stored[f] # None \/ f \in r.left
  /\ r.pc # "upload" => Present(r.want, mirrored, stored)
  /\ r.pc \in {"apply", "list", "delete"} => manifest = r.want
  /\ r.pc \in {"list", "delete"} => \A g \in Group : template[g] = r.want
  /\ r.pc = "delete" => \A f \in r.left : /\ f \notin Deps!Files(r.want)
                                          /\ Replaced(f, r.left, stored, clock)

\* The inductive invariant.
DepsInv ==
  /\ DepsType /\ Named
  /\ \A o \in Operator : setup[o] # None => SetupOK(setup[o])

-----------------------------------------------------------------------------
(* Dependencies: files and versions *)

\* The constants of Dependencies.
LEMMA DepsConstants ==
  /\ Wanted \subseteq [Dependency -> Version] /\ IsFiniteSet(Version)
  /\ Retention \in Nat /\ Kept \in Nat /\ None \notin Nat
BY InstanceAssumption DEF Deps!DependenciesAssumption, Deps!IsFiniteSet, IsFiniteSet

\* The instance counts as FiniteSets does.
LEMMA SameCount == \A S : IsFiniteSet(S) => Deps!Cardinality(S) = Cardinality(S)
BY DEF Deps!Cardinality, Cardinality

\* The files of a manifest are objects.
LEMMA FilesInside ==
  ASSUME NEW m \in Manifests
  PROVE  Deps!Files(m) \subseteq Deps!Object
<1>1. m.files \in [Dependency -> Version]
  BY DepsConstants DEF Manifests
<1> QED BY <1>1, SMT DEF Deps!Files, Deps!Object

\* Versions beside the newest that a listing keeps have Kept of them before them.
LEMMA NewestReplace ==
  ASSUME stored \in [Deps!Object -> Nat \cup {None}], NEW k \in Dependency, NEW v \in Version,
         stored[<<k, v>>] # None, NEW keep, Deps!Newest(k, keep), v \notin keep
  PROVE  /\ keep \in SUBSET Version /\ Cardinality(keep) = Kept
         /\ \A w \in keep : stored[<<k, w>>] # None /\ stored[<<k, w>>] >= stored[<<k, v>>]
<1> DEFINE V == Deps!VersionsOf(k)
<1>1. keep \subseteq V /\ V \subseteq Version /\ v \in V \ keep
  BY DEF Deps!Newest, Deps!VersionsOf
<1>2. IsFiniteSet(V) /\ IsFiniteSet(keep)
  BY <1>1, DepsConstants, FS_Subset
<1>3. Cardinality(keep) = IF Cardinality(V) < Kept THEN Cardinality(V) ELSE Kept
  <2>1. Deps!Cardinality(keep) = Cardinality(keep) /\ Deps!Cardinality(V) = Cardinality(V)
    BY <1>2, SameCount
  <2>2. Deps!Cardinality(keep) = IF Deps!Cardinality(V) < Kept THEN Deps!Cardinality(V) ELSE Kept
    BY DEF Deps!Newest
  <2> HIDE DEF V
  <2> QED BY <2>1, <2>2
<1>4. Cardinality(keep) # Cardinality(V)
  BY <1>1, <1>2, FS_Subset
<1>5. Cardinality(keep) = Kept
  BY <1>3, <1>4
<1>6. \A w \in keep : stored[<<k, w>>] # None
  BY <1>1 DEF Deps!VersionsOf
<1>7. \A w \in keep : stored[<<k, w>>] >= stored[<<k, v>>]
  BY <1>1 DEF Deps!Newest
<1> QED BY <1>1, <1>5, <1>6, <1>7

\* Objects and images that come to be leave what is present.
LEMMA StillPresent ==
  ASSUME NEW m \in Manifests, NEW i, NEW j, NEW f, NEW g, Present(m, i, f), i \subseteq j,
         \A x \in Deps!Object : f[x] # None => g[x] # None
  PROVE  Present(m, j, g)
BY FilesInside DEF Present

-----------------------------------------------------------------------------
(* Dependencies: one lemma per step *)

\* What a step has to show, when one setup runs at a time.
LEMMA OneSetupStep ==
  ASSUME OneSetup, DepsType', Named', NEW o \in Operator, setup'[o] # None => SetupOK(setup[o])'
  PROVE  DepsInv'
<1>1. \A q \in Operator : q = o
  BY DEF OneSetup
<1>2. ASSUME NEW q \in Operator, setup'[q] # None PROVE SetupOK(setup[q])'
  BY <1>1, <1>2
<1> QED BY <1>2 DEF DepsInv

\* What is known of a setup that is at a step.
LEMMA AtStep ==
  ASSUME DepsInv, NEW o \in Operator, NEW pcs, Deps!At(o, pcs)
  PROVE  /\ setup[o] \in Setups /\ setup[o].pc = pcs /\ SetupOK(setup[o])
         /\ setup[o].want \in Manifests /\ setup[o].left \in SUBSET Deps!Object
         /\ setup[o].seen \in Manifests \cup {None}
<1>1. setup[o] # None /\ setup[o].pc = pcs
  BY DEF Deps!At
<1>2. setup[o] \in Setups /\ SetupOK(setup[o])
  BY <1>1 DEF DepsInv, DepsType
<1> QED BY <1>1, <1>2 DEF Setups

\* A setup returns, whether it completed or failed.
LEMMA ReturnKeeps ==
  ASSUME OneSetup, DepsInv, NEW o \in Operator, Deps!Return(o), DepsType', Named'
  PROVE  DepsInv'
<1>1. setup'[o] = None
  BY DEF DepsInv, DepsType, Deps!Return
<1> QED BY <1>1, OneSetupStep

\* The manifest is read and the missing files are determined.
LEMMA DepsBeginKeeps ==
  ASSUME OneSetup, DepsInv, NEW o \in Operator, NEW want \in Manifests, Deps!Begin(o, want)
  PROVE  DepsInv'
<1> DEFINE pending == Deps!pendingDependencies(manifest, want)
           r == [pc |-> "upload", want |-> want, seen |-> manifest, left |-> pending]
<1>1. /\ setup' = [setup EXCEPT ![o] = r]
      /\ UNCHANGED <<stored, mirrored, manifest, template, clock>>
  BY DEF Deps!Begin
<1>2. pending \subseteq Deps!Object
  BY FilesInside DEF Deps!pendingDependencies
<1>3. \A f \in Deps!Files(want) : stored[f] # None \/ f \in pending
  BY DEF Deps!pendingDependencies, DepsInv, Named, Present
<1> HIDE DEF pending
<1>4. /\ r \in Setups /\ r.pc = "upload" /\ r.seen = manifest /\ r.want = want /\ r.left = pending
  BY <1>2 DEF Setups, DepsInv, DepsType
<1> HIDE DEF r
<1>5. DepsType' /\ setup'[o] = r
  BY <1>1, <1>4 DEF DepsInv, DepsType
<1>6. Named'
  BY <1>1 DEF DepsInv, Named
<1>7. SetupOK(setup[o])'
  BY <1>1, <1>3, <1>4, <1>5 DEF SetupOK
<1> QED BY <1>5, <1>6, <1>7, OneSetupStep

\* One file is uploaded.
LEMMA DepsUploadKeeps ==
  ASSUME OneSetup, DepsInv, NEW o \in Operator, NEW f \in Deps!Object, Deps!Upload(o, f)
  PROVE  DepsInv'
<1> DEFINE r == [setup[o] EXCEPT !.left = setup[o].left \ {f}]
<1>1. /\ Deps!At(o, "upload") /\ f \in setup[o].left /\ stored' = [stored EXCEPT ![f] = clock]
      /\ setup' = [setup EXCEPT ![o] = r]
      /\ UNCHANGED <<mirrored, manifest, template, clock>>
  BY DEF Deps!Upload
<1>2. /\ setup[o] \in Setups /\ setup[o].pc = "upload" /\ SetupOK(setup[o])
      /\ setup[o].want \in Manifests
  BY <1>1, AtStep
<1>3. /\ r \in Setups /\ r.pc = "upload" /\ r.seen = setup[o].seen /\ r.want = setup[o].want
      /\ r.left = setup[o].left \ {f}
  BY <1>2 DEF Setups
<1> HIDE DEF r
<1>4. stored \in [Deps!Object -> Nat \cup {None}] /\ clock \in Nat /\ clock <= clock /\ clock # None
  BY DepsConstants, SMT DEF DepsInv, DepsType
<1>5. stored'[f] = clock /\ \A x \in Deps!Object : x # f => stored'[x] = stored[x]
  BY <1>1, <1>4
<1>6. DepsType' /\ setup'[o] = r
  BY <1>1, <1>3, <1>4, <1>5 DEF DepsInv, DepsType
<1>7. \A x \in Deps!Object : stored[x] # None => stored'[x] # None
  BY <1>4, <1>5
<1>8. Named'
  BY <1>1, <1>7, StillPresent DEF DepsInv, DepsType, Named
<1>9. \A x \in Deps!Files(setup[o].want) : stored'[x] # None \/ x \in r.left
  BY <1>2, <1>3, <1>4, <1>5, FilesInside DEF SetupOK
<1>10. SetupOK(setup[o])'
  BY <1>1, <1>2, <1>3, <1>6, <1>9 DEF SetupOK
<1> QED BY <1>6, <1>8, <1>10, OneSetupStep

\* A setup goes on to another step with the same files in hand.
LEMMA GotoStep ==
  ASSUME NEW o \in Operator, NEW pcs \in {"upload", "manifest", "apply", "list", "delete"},
         DepsInv, setup[o] \in Setups, Deps!Goto(o, pcs)
  PROVE  /\ setup' \in [Operator -> Setups \cup {None}]
         /\ setup'[o].pc = pcs /\ setup'[o].want = setup[o].want /\ setup'[o].left = setup[o].left
         /\ setup'[o].seen = setup[o].seen
<1> DEFINE r == [setup[o] EXCEPT !.pc = pcs]
<1>1. setup' = [setup EXCEPT ![o] = r]
  BY DEF Deps!Goto
<1>2. /\ r \in Setups /\ r.pc = pcs /\ r.want = setup[o].want /\ r.left = setup[o].left
      /\ r.seen = setup[o].seen
  BY DEF Setups
<1> HIDE DEF r
<1> QED BY <1>1, <1>2 DEF DepsInv, DepsType

\* The image is mirrored, unless the manifest records it.
LEMMA MirrorImageKeeps ==
  ASSUME OneSetup, DepsInv, NEW o \in Operator, Deps!MirrorImage(o)
  PROVE  DepsInv'
<1>1. /\ Deps!At(o, "upload") /\ setup[o].left = {} /\ Deps!Goto(o, "manifest")
      /\ mirrored' = IF setup[o].seen # None /\ setup[o].seen.image = setup[o].want.image
                     THEN mirrored ELSE mirrored \cup {setup[o].want.image}
      /\ UNCHANGED <<stored, manifest, template, clock>>
  BY DEF Deps!MirrorImage
<1>2. /\ setup[o] \in Setups /\ setup[o].pc = "upload" /\ SetupOK(setup[o])
      /\ setup[o].want \in Manifests
  BY <1>1, AtStep
<1>3. /\ setup' \in [Operator -> Setups \cup {None}]
      /\ setup'[o].pc = "manifest" /\ setup'[o].want = setup[o].want
      /\ setup'[o].seen = setup[o].seen
  BY <1>1, <1>2, GotoStep
<1>4. DepsType'
  BY <1>1, <1>3 DEF DepsInv, DepsType
<1>5. mirrored \subseteq mirrored'
  BY <1>1
<1>6. Named'
  <2>1. \A x \in Deps!Object : stored[x] # None => stored'[x] # None
    BY <1>1
  <2>2. UNCHANGED <<manifest, template>>
    BY <1>1
  <2> QED BY <1>5, <2>1, <2>2, StillPresent DEF DepsInv, DepsType, Named
<1>7. setup[o].seen = manifest
  BY <1>2 DEF SetupOK
<1>8. setup[o].want.image \in mirrored'
  BY <1>1, <1>7 DEF DepsInv, Named, Present
<1>9. Present(setup[o].want, mirrored', stored')
  BY <1>1, <1>2, <1>8 DEF Present, SetupOK
<1>10. SetupOK(setup[o])'
  BY <1>1, <1>3, <1>7, <1>9 DEF SetupOK
<1> QED BY <1>4, <1>6, <1>10, OneSetupStep

\* The manifest is written last, and only over the one that was read.
LEMMA PublishManifestKeeps ==
  ASSUME OneSetup, DepsInv, NEW o \in Operator, Deps!PublishManifest(o)
  PROVE  DepsInv'
<1>1. Deps!At(o, "manifest") /\ UNCHANGED <<stored, mirrored, template, clock>>
  BY DEF Deps!PublishManifest
<1>2. /\ setup[o] \in Setups /\ setup[o].pc = "manifest" /\ SetupOK(setup[o])
      /\ setup[o].want \in Manifests
  BY <1>1, AtStep
<1>3. setup[o].seen = manifest /\ Present(setup[o].want, mirrored, stored)
  BY <1>2 DEF SetupOK
<1>4. manifest' = setup[o].want /\ Deps!Goto(o, "apply")
  BY <1>3 DEF Deps!PublishManifest
<1>5. /\ setup' \in [Operator -> Setups \cup {None}]
      /\ setup'[o].pc = "apply" /\ setup'[o].want = setup[o].want
  BY <1>2, <1>4, GotoStep
<1>6. DepsType'
  BY <1>1, <1>2, <1>4, <1>5 DEF DepsInv, DepsType
<1>7. Named'
  BY <1>1, <1>3, <1>4 DEF DepsInv, Named
<1>8. SetupOK(setup[o])'
  BY <1>1, <1>3, <1>4, <1>5 DEF SetupOK
<1> QED BY <1>6, <1>7, <1>8, OneSetupStep

\* Some or all node groups get the launch template of this setup.
LEMMA ApplyKeeps ==
  ASSUME OneSetup, DepsInv, NEW o \in Operator, NEW groups \in SUBSET Group, Deps!Apply(o, groups)
  PROVE  DepsInv'
<1>1. /\ Deps!At(o, "apply") /\ UNCHANGED <<stored, mirrored, manifest, clock>>
      /\ template' = [g \in Group |-> IF g \in groups THEN setup[o].want ELSE template[g]]
  BY DEF Deps!Apply
<1>2. /\ setup[o] \in Setups /\ setup[o].pc = "apply" /\ SetupOK(setup[o])
      /\ setup[o].want \in Manifests
  BY <1>1, AtStep
<1>3. manifest = setup[o].want /\ Present(setup[o].want, mirrored, stored)
  BY <1>2 DEF SetupOK
<1>4. template' \in [Group -> Manifests \cup {None}]
  BY <1>1, <1>2 DEF DepsInv, DepsType
<1>5. Named'
  BY <1>1, <1>3 DEF DepsInv, Named
<1>6. CASE groups = Group
  <2>1. Deps!Goto(o, "list")
    BY <1>6 DEF Deps!Apply, Deps!AfterApply
  <2>2. /\ setup' \in [Operator -> Setups \cup {None}]
        /\ setup'[o].pc = "list" /\ setup'[o].want = setup[o].want
    BY <1>2, <2>1, GotoStep
  <2>3. DepsType'
    BY <1>1, <1>4, <2>2 DEF DepsInv, DepsType
  <2>4. SetupOK(setup[o])'
    BY <1>1, <1>3, <1>6, <2>2 DEF SetupOK
  <2> QED BY <1>5, <2>3, <2>4, OneSetupStep
<1>7. CASE groups # Group
  <2>1. Deps!Return(o)
    BY <1>7 DEF Deps!Apply, Deps!AfterApply
  <2>2. DepsType'
    BY <1>1, <1>4, <2>1 DEF DepsInv, DepsType, Deps!Return
  <2> QED BY <1>5, <2>1, <2>2, ReturnKeeps
<1> QED BY <1>6, <1>7

\* A listing dooms old versions beside the newest, but for those of this setup.
LEMMA ListingKeeps ==
  ASSUME OneSetup, DepsInv, NEW o \in Operator, Deps!List(o)
  PROVE  DepsInv'
<1>1. Deps!At(o, "list") /\ UNCHANGED <<stored, mirrored, manifest, template, clock>>
  BY DEF Deps!List
<1>2. /\ setup[o] \in Setups /\ setup[o].pc = "list" /\ SetupOK(setup[o])
      /\ setup[o].want \in Manifests
  BY <1>1, AtStep
<1> DEFINE doomed(keep) == {f \in Deps!Object : /\ stored[f] # None /\ f[2] \notin keep[f[1]] /\ Deps!Old(f)}
                             \ Deps!Protected(setup[o].want)
<1>3. PICK keep \in [Dependency -> SUBSET Version] :
        /\ \A k \in Dependency : Deps!Newest(k, keep[k])
        /\ setup' = [setup EXCEPT ![o].pc = "delete", ![o].left = doomed(keep)]
  BY DEF Deps!List
<1> DEFINE left == doomed(keep)
           r == [setup[o] EXCEPT !.pc = "delete", !.left = left]
<1>4. /\ left \subseteq Deps!Object
      /\ \A f \in left : /\ stored[f] # None /\ f[2] \notin keep[f[1]] /\ Deps!Old(f)
                         /\ f \notin Deps!Files(setup[o].want)
  BY DEF Deps!Protected
<1>5. \A k \in Dependency, v \in Version : v \in keep[k] => <<k, v>> \notin left
  OBVIOUS
<1> HIDE DEF left, doomed
<1>6. /\ r \in Setups /\ r.pc = "delete" /\ r.want = setup[o].want /\ r.left = left
  BY <1>2, <1>4 DEF Setups
<1>7. setup' = [setup EXCEPT ![o] = r]
  BY <1>2, <1>3 DEF left, DepsInv, DepsType, Setups
<1> HIDE DEF r
<1>8. DepsType' /\ setup'[o] = r
  BY <1>1, <1>6, <1>7 DEF DepsInv, DepsType
<1>9. Named'
  BY <1>1 DEF DepsInv, Named
<1>10. ASSUME NEW f \in left PROVE Replaced(f, left, stored, clock)
  <2>1. PICK k \in Dependency, v \in Version : f = <<k, v>>
    BY <1>4, SMT DEF Deps!Object
  <2>2. f[1] = k /\ f[2] = v
    BY <2>1
  <2>3. /\ keep[k] \in SUBSET Version /\ Cardinality(keep[k]) = Kept
        /\ \A w \in keep[k] : stored[<<k, w>>] # None /\ stored[<<k, w>>] >= stored[f]
    <3>1. /\ keep[k] \in SUBSET Version /\ Deps!Newest(k, keep[k])
          /\ v \notin keep[k] /\ stored[<<k, v>>] # None
      BY <1>3, <1>4, <2>1, <2>2
    <3>2. stored \in [Deps!Object -> Nat \cup {None}]
      BY DEF DepsInv, DepsType
    <3> QED BY <2>1, <3>1, <3>2, NewestReplace
  <2>4. \A w \in keep[k] : w # v /\ <<k, w>> \notin left
    BY <1>4, <1>5, <2>2, <2>3
  <2>5. clock - stored[f] >= Retention
    BY <1>4 DEF Deps!Old
  <2> QED BY <1>4, <2>2, <2>3, <2>4, <2>5 DEF Replaced
<1>11. SetupOK(setup[o])'
  BY <1>1, <1>2, <1>4, <1>6, <1>8, <1>10 DEF SetupOK
<1> QED BY <1>8, <1>9, <1>11, OneSetupStep

\* One of the doomed objects is deleted.
LEMMA DeleteKeeps ==
  ASSUME OneSetup, DepsInv, NEW o \in Operator, NEW f \in Deps!Object, Deps!Delete(o, f)
  PROVE  DepsInv'
<1> DEFINE r == [setup[o] EXCEPT !.left = setup[o].left \ {f}]
<1>1. /\ Deps!At(o, "delete") /\ f \in setup[o].left /\ stored' = [stored EXCEPT ![f] = None]
      /\ setup' = [setup EXCEPT ![o] = r]
      /\ UNCHANGED <<mirrored, manifest, template, clock>>
  BY DEF Deps!Delete
<1>2. /\ setup[o] \in Setups /\ setup[o].pc = "delete" /\ SetupOK(setup[o])
      /\ setup[o].want \in Manifests /\ setup[o].left \in SUBSET Deps!Object
  BY <1>1, AtStep
<1>3. /\ r \in Setups /\ r.pc = "delete" /\ r.want = setup[o].want
      /\ r.left = setup[o].left \ {f}
  BY <1>2 DEF Setups
<1> HIDE DEF r
<1>4. stored \in [Deps!Object -> Nat \cup {None}]
  BY DEF DepsInv, DepsType
<1>5. stored'[f] = None /\ \A x \in Deps!Object : x # f => stored'[x] = stored[x]
  BY <1>1, <1>4
<1>6. DepsType' /\ setup'[o] = r
  BY <1>1, <1>3, <1>5 DEF DepsInv, DepsType
<1>7. /\ manifest = setup[o].want /\ \A g \in Group : template[g] = setup[o].want
      /\ Present(setup[o].want, mirrored, stored) /\ f \notin Deps!Files(setup[o].want)
  BY <1>1, <1>2 DEF SetupOK
<1>8. Present(setup[o].want, mirrored', stored')
  BY <1>1, <1>2, <1>5, <1>7, FilesInside DEF Present
<1>9. Named'
  BY <1>1, <1>7, <1>8 DEF Named
<1>10. ASSUME NEW x \in r.left PROVE x \notin Deps!Files(r.want) /\ Replaced(x, r.left, stored', clock')
  <2>1. x \in setup[o].left /\ x # f /\ x \in Deps!Object
    BY <1>2, <1>3
  <2>2. x \notin Deps!Files(setup[o].want) /\ Replaced(x, setup[o].left, stored, clock)
    BY <1>2, <2>1 DEF SetupOK
  <2>3. stored'[x] = stored[x]
    BY <1>5, <2>1
  <2>4. PICK k \in Dependency, v \in Version : x = <<k, v>>
    BY <2>1, SMT DEF Deps!Object
  <2>5. x[1] = k /\ x[2] = v
    BY <2>4
  <2>6. PICK keep \in SUBSET Version :
          /\ Cardinality(keep) = Kept
          /\ \A w \in keep : /\ w # x[2] /\ <<x[1], w>> \notin setup[o].left
                             /\ stored[<<x[1], w>>] # None /\ stored[<<x[1], w>>] >= stored[x]
    BY <2>2 DEF Replaced
  <2>7. ASSUME NEW w \in keep PROVE <<x[1], w>> \notin r.left /\ stored'[<<x[1], w>>] = stored[<<x[1], w>>]
    <3>1. <<x[1], w>> \in Deps!Object /\ <<x[1], w>> # f
      BY <1>1, <2>5, <2>6 DEF Deps!Object
    <3> QED BY <1>3, <1>5, <2>6, <3>1
  <2>8. stored'[x] # None /\ clock' - stored'[x] >= Retention
    BY <1>1, <2>2, <2>3 DEF Replaced
  <2>9. \A w \in keep : /\ w # x[2] /\ <<x[1], w>> \notin r.left
                        /\ stored'[<<x[1], w>>] # None /\ stored'[<<x[1], w>>] >= stored'[x]
    BY <2>3, <2>6, <2>7
  <2>10. Replaced(x, r.left, stored', clock')
    BY <2>6, <2>8, <2>9 DEF Replaced
  <2> QED BY <1>3, <2>2, <2>10
<1>11. SetupOK(setup[o])'
  BY <1>1, <1>3, <1>6, <1>7, <1>8, <1>10 DEF SetupOK
<1> QED BY <1>6, <1>9, <1>11, OneSetupStep

\* Time passes.
LEMMA TickKeeps == DepsInv /\ Deps!Tick => DepsInv'
<1> SUFFICES ASSUME DepsInv, Deps!Tick PROVE DepsInv'
  OBVIOUS
<1>1. clock' = clock + 1 /\ UNCHANGED <<stored, mirrored, manifest, template, setup>>
  BY DEF Deps!Tick
<1>2. clock \in Nat /\ clock' \in Nat
  BY <1>1, SMT DEF DepsInv, DepsType
<1>3. ASSUME NEW t \in Nat PROVE (t <= clock => t <= clock') /\ (clock - t >= Retention => clock' - t >= Retention)
  BY <1>1, <1>2, DepsConstants, SMT
<1>4. \A f \in Deps!Object : stored[f] # None => stored[f] \in Nat
  BY DEF DepsInv, DepsType
<1>5. DepsType'
  BY <1>1, <1>2, <1>3, <1>4 DEF DepsInv, DepsType
<1>6. Named'
  BY <1>1 DEF DepsInv, Named
<1>7. ASSUME NEW o \in Operator, setup[o] # None PROVE SetupOK(setup[o])'
  <2>1. SetupOK(setup[o]) /\ setup[o].left \in SUBSET Deps!Object
    BY <1>7 DEF DepsInv, DepsType, Setups
  <2>2. ASSUME NEW f \in setup[o].left, Replaced(f, setup[o].left, stored, clock)
        PROVE  Replaced(f, setup[o].left, stored, clock')
    BY <1>3, <1>4, <2>1, <2>2 DEF Replaced
  <2> QED BY <1>1, <2>1, <2>2 DEF SetupOK
<1> QED BY <1>1, <1>5, <1>6, <1>7 DEF DepsInv

\* All steps.
LEMMA DepsNextKeeps ==
  ASSUME OneSetup, DepsInv, Deps!Next
  PROVE  DepsInv'
<1>1. CASE Deps!Tick
  BY <1>1, TickKeeps
<1>2. ASSUME NEW o \in Operator, NEW files \in Wanted, NEW image \in Image,
             Deps!Begin(o, [files |-> files, image |-> image])
      PROVE  DepsInv'
  <2>1. [files |-> files, image |-> image] \in Manifests
    BY DEF Manifests
  <2> QED BY <1>2, <2>1, DepsBeginKeeps
<1>3. ASSUME NEW o \in Operator, Deps!Complete(o) \/ Deps!Fail(o)
      PROVE  DepsInv'
  <2>1. Deps!Return(o) /\ UNCHANGED <<stored, mirrored, manifest, template, clock>>
    BY <1>3 DEF Deps!Complete, Deps!Fail
  <2>2. DepsType'
    BY <2>1 DEF DepsInv, DepsType, Deps!Return
  <2>3. Named'
    BY <2>1 DEF DepsInv, Named
  <2> QED BY <2>1, <2>2, <2>3, ReturnKeeps
<1> QED BY <1>1, <1>2, <1>3, DepsUploadKeeps, DeleteKeeps, ApplyKeeps, MirrorImageKeeps,
           PublishManifestKeeps, ListingKeeps DEF Deps!Next

-----------------------------------------------------------------------------
(* Dependencies: the theorems *)

\* The invariant of syncDependencies, the apply that follows it and cleanupDependencies.
THEOREM DependenciesInvariant ==
  ASSUME OneSetup
  PROVE  Deps!Spec => []DepsInv
<1>1. Deps!Init => DepsInv
  <2> SUFFICES ASSUME Deps!Init PROVE DepsInv
    OBVIOUS
  <2>1. 0 \in Nat
    BY SMT
  <2> QED BY <2>1 DEF Deps!Init, DepsInv, DepsType, Named
<1>2. DepsInv /\ [Deps!Next]_Deps!vars => DepsInv'
  <2> SUFFICES ASSUME DepsInv, [Deps!Next]_Deps!vars PROVE DepsInv'
    OBVIOUS
  <2>1. CASE Deps!Next
    BY <2>1, DepsNextKeeps
  <2>2. CASE UNCHANGED Deps!vars
    BY <2>2 DEF Deps!vars, DepsInv, DepsType, Named, SetupOK
  <2> QED BY <2>1, <2>2
<1> QED BY <1>1, <1>2, PTL DEF Deps!Spec

\* What the published manifest and every launch template name is stored, however many
\* setups were interrupted and whatever was cleaned up (dependencies.go, setup.go).
THEOREM NamesAreStored ==
  ASSUME OneSetup
  PROVE  Deps!Spec => []NamedStored
<1>1. DepsInv => NamedStored
  BY DEF DepsInv, Named, Present, NamedStored, Deps!NamedStored, Deps!ManifestComplete, Deps!NodesComplete, Deps!Stored
<1> QED BY <1>1, DependenciesInvariant, PTL

\* What setup deletes is old enough and has enough newer versions that stay
\* (retention.go, Expired).
THEOREM RetentionIsHonoured ==
  ASSUME OneSetup
  PROVE  Deps!Spec => RetentionHonoured
<1> DEFINE Newer(f) == {v \in Deps!VersionsOf(f[1]) \ {f[2]} : stored[<<f[1], v>>] >= stored[f]}
<1>1. DepsInv /\ [Deps!Next]_Deps!vars => [Deps!DeletesReplaced]_Deps!vars
  <2> SUFFICES ASSUME DepsInv, Deps!Next, NEW f \in Deps!Object, stored[f] # None, stored'[f] = None
               PROVE  clock - stored[f] >= Retention /\ Deps!Cardinality(Newer(f)) >= Kept
    BY DEF Deps!DeletesReplaced
  <2>0. stored \in [Deps!Object -> Nat \cup {None}] /\ clock # None
    BY DepsConstants DEF DepsInv, DepsType
  <2>1. PICK o \in Operator : \E x \in Deps!Object : Deps!Upload(o, x) \/ Deps!Delete(o, x)
    BY DEF Deps!Next, Deps!Tick, Deps!Begin, Deps!Apply, Deps!MirrorImage, Deps!PublishManifest,
           Deps!List, Deps!Complete, Deps!Fail
  <2>2. PICK x \in Deps!Object : Deps!Upload(o, x) \/ Deps!Delete(o, x)
    BY <2>1
  <2>3. ~Deps!Upload(o, x)
    BY <2>0 DEF Deps!Upload
  <2>4. Deps!Delete(o, f)
    BY <2>0, <2>2, <2>3 DEF Deps!Delete
  <2>5. SetupOK(setup[o]) /\ setup[o].pc = "delete" /\ f \in setup[o].left
    BY <2>4, AtStep DEF Deps!Delete
  <2>6. Replaced(f, setup[o].left, stored, clock)
    BY <2>5 DEF SetupOK
  <2>7. PICK keep \in SUBSET Version :
          /\ Cardinality(keep) = Kept
          /\ \A v \in keep : /\ v # f[2] /\ <<f[1], v>> \notin setup[o].left
                             /\ stored[<<f[1], v>>] # None /\ stored[<<f[1], v>>] >= stored[f]
    BY <2>6 DEF Replaced
  <2>8. keep \subseteq Newer(f) /\ Newer(f) \subseteq Version
    BY <2>7 DEF Deps!VersionsOf
  <2>9. IsFiniteSet(Newer(f)) /\ IsFiniteSet(keep)
    BY <2>8, DepsConstants, FS_Subset
  <2>10. Cardinality(keep) <= Cardinality(Newer(f))
    BY <2>8, <2>9, FS_Subset
  <2>11. Deps!Cardinality(Newer(f)) = Cardinality(Newer(f)) /\ Cardinality(Newer(f)) \in Nat
    BY <2>9, SameCount, FS_CardinalityType
  <2> HIDE DEF Newer
  <2>12. Deps!Cardinality(Newer(f)) >= Kept
    BY <2>7, <2>10, <2>11, DepsConstants, SMT
  <2>13. clock - stored[f] >= Retention
    BY <2>6 DEF Replaced
  <2> QED BY <2>12, <2>13
<1> QED BY <1>1, DependenciesInvariant, PTL DEF Deps!Spec, RetentionHonoured, Deps!RetentionHonoured

-----------------------------------------------------------------------------
(* Images: the inductive invariant *)

\* Every machine has a cache of its own: one command at a time publishes from it.
OwnCaches == \A p, q \in Publisher : cacheOf[p] = cacheOf[q] => p = q

\* Descriptors of index.json, a cached repository, and a command in progress.
Descriptor == [tag : Tag \cup {None}, digest : Digest]
Repository == [tag : [Tag -> Digest \cup {None}], blob : [Digest -> {"absent", "good", "bad"}]]
Publishing ==
  [pc : {"validate", "fetch", "walk", "upload", "read", "put"}, kind : {"push", "mirror", "repair"},
   tag : Tag, want : Digest \cup {None}, left : SUBSET Digest, digest : Digest \cup {None},
   version : (SUBSET Descriptor) \cup {None}]

ImagesType ==
  /\ blobs \in [Digest -> {"absent", "good", "bad"}] /\ recorded \in SUBSET Digest
  /\ listing \in (SUBSET Descriptor) \cup {None}
  /\ cache \in [Cache -> Repository] /\ run \in [Publisher -> Publishing \cup {None}]

\* Digest d and all below it are good; a cached repository without a bad blob.
Whole(objs, d) == \A c \in Img!Content(d) : objs[c] = "good"
Clean(repo) == \A d \in Digest : repo.blob[d] # "bad"

\* What is listed, and what the dependency manifest may name, is stored.
Published ==
  /\ \A e \in Img!Listed : blobs[e.digest] = "good"
  /\ \A d \in recorded : Whole(blobs, d)

\* What a command has achieved with its cached repository and the objects of the bucket.
CallOK(r, repo, objs, done) ==
  /\ r.pc # "validate" => Clean(repo)
  /\ r.pc \in {"walk", "upload", "read"} =>
       /\ repo.tag[r.tag] \in Digest /\ Whole(repo.blob, repo.tag[r.tag])
       /\ r.kind # "push" => repo.tag[r.tag] = r.want
  /\ r.pc = "upload" => \A c \in Img!Content(repo.tag[r.tag]) : objs[c] = "good" \/ c \in r.left
  /\ r.pc = "put" => /\ r.digest \in Digest /\ Whole(objs, r.digest)
                     /\ r.kind # "push" => r.digest = r.want
  /\ r.pc = "read" => r.kind = "repair"
  /\ r.kind # "push" => r.want \in Digest
  /\ r.kind = "repair" => r.want \in done

\* What mergeIndexes makes of what is listed.
Merged(new, old, t, d) ==
  /\ new \in SUBSET Descriptor
  /\ \A e \in new : e \in old \/ e.digest \in Img!Content(d)
  /\ \A c \in Img!Content(d) : \E e \in new : e.digest = c
  /\ \A e \in new : e.tag = t => e = [tag |-> t, digest |-> d]
  /\ [tag |-> t, digest |-> d] \in new
  /\ \A e \in Descriptor : e.tag \in Tag /\ e.tag # t => (e \in new <=> e \in old)

\* The inductive invariant,
ImagesInv ==
  /\ ImagesType /\ Published
  /\ \A p \in Publisher : run[p] # None => CallOK(run[p], cache[cacheOf[p]], blobs, recorded)

\* with what holds in apps/, where a cached tag is pushed as it is,
CachesWhole ==
  \A c \in Cache : /\ Clean(cache[c])
                   /\ \A t \in Tag : cache[c].tag[t] # None => Whole(cache[c].blob, cache[c].tag[t])

PushInv == ImagesInv /\ CachesWhole /\ \A p \in Publisher : run[p] # None => run[p].kind = "push"

-----------------------------------------------------------------------------
(* Images: content and caches *)

\* The constants of Images.
LEMMA ImagesConstants ==
  /\ nested \in [Digest -> SUBSET Digest] /\ Source \subseteq Digest
  /\ cacheOf \in [Publisher -> Cache] /\ None \notin Tag /\ Legacy \subseteq Descriptor
BY InstanceAssumption DEF Img!ImagesAssumption, Descriptor

\* What lies below a digest.
LEMMA ContentInside ==
  ASSUME NEW d \in Digest
  PROVE  d \in Img!Content(d) /\ Img!Content(d) \subseteq Digest
BY ImagesConstants DEF Img!Content

\* A command keeps what it achieved while objects come to be.
LEMMA CallGrows ==
  ASSUME NEW r \in Publishing, NEW repo, NEW f, NEW g, NEW done, NEW more, CallOK(r, repo, f, done),
         \A d \in Digest : f[d] = "good" => g[d] = "good", done \subseteq more
  PROVE  CallOK(r, repo, g, more)
<1>1. r.pc = "upload" => \A c \in Img!Content(repo.tag[r.tag]) : g[c] = "good" \/ c \in r.left
  BY ContentInside DEF CallOK
<1>2. r.pc = "put" => Whole(g, r.digest)
  BY ContentInside DEF CallOK, Whole
<1> QED BY <1>1, <1>2 DEF CallOK

\* What a step of publisher p has to show.
LEMMA PublisherStep ==
  ASSUME OwnCaches, ImagesInv, NEW p \in Publisher, ImagesType', Published',
         \A q \in Publisher : q # p => run'[q] = run[q],
         \A c \in Cache : c # cacheOf[p] => cache'[c] = cache[c],
         \A d \in Digest : blobs[d] = "good" => blobs'[d] = "good", recorded \subseteq recorded',
         run'[p] # None => CallOK(run'[p], cache'[cacheOf[p]], blobs', recorded')
  PROVE  ImagesInv'
<1>1. ASSUME NEW q \in Publisher, q # p, run[q] # None
      PROVE  CallOK(run'[q], cache'[cacheOf[q]], blobs', recorded')
  <2>1. run[q] \in Publishing /\ CallOK(run[q], cache[cacheOf[q]], blobs, recorded)
    BY <1>1 DEF ImagesInv, ImagesType
  <2>2. cacheOf[q] \in Cache /\ cacheOf[q] # cacheOf[p]
    BY <1>1, ImagesConstants DEF OwnCaches
  <2>3. run'[q] = run[q] /\ cache'[cacheOf[q]] = cache[cacheOf[q]]
    BY <1>1, <2>2
  <2>4. CallOK(run[q], cache[cacheOf[q]], blobs', recorded')
    BY <2>1, CallGrows
  <2> QED BY <2>3, <2>4
<1>2. ASSUME NEW q \in Publisher, run'[q] # None
      PROVE  CallOK(run'[q], cache'[cacheOf[q]], blobs', recorded')
  BY <1>1, <1>2
<1> QED BY <1>2 DEF ImagesInv

\* What is known of a command that is at a step.
LEMMA CallStep ==
  ASSUME ImagesInv, NEW p \in Publisher, run[p] # None
  PROVE  /\ run[p] \in Publishing /\ cacheOf[p] \in Cache /\ cache[cacheOf[p]] \in Repository
         /\ CallOK(run[p], cache[cacheOf[p]], blobs, recorded)
         /\ run[p].tag \in Tag /\ run[p].version \in (SUBSET Descriptor) \cup {None}
         /\ run[p].left \in SUBSET Digest /\ run[p].kind \in {"push", "mirror", "repair"}
         /\ cache[cacheOf[p]].blob \in [Digest -> {"absent", "good", "bad"}]
         /\ cache[cacheOf[p]].tag \in [Tag -> Digest \cup {None}]
<1>1. run[p] \in Publishing /\ cacheOf[p] \in Cache /\ cache[cacheOf[p]] \in Repository
  BY ImagesConstants DEF ImagesInv, ImagesType
<1>2. CallOK(run[p], cache[cacheOf[p]], blobs, recorded)
  BY DEF ImagesInv
<1> QED BY <1>1, <1>2 DEF Publishing, Repository

\* What is listed are descriptors.
LEMMA ListedType == ImagesInv => Img!Listed \in SUBSET Descriptor
<1> SUFFICES ASSUME ImagesInv PROVE Img!Listed \in SUBSET Descriptor
  OBVIOUS
<1>1. CASE listing = None
  BY <1>1 DEF Img!Listed
<1>2. CASE listing # None
  <2>1. listing \in SUBSET Descriptor
    BY <1>2 DEF ImagesInv, ImagesType
  <2>2. Img!Listed = listing
    BY <1>2 DEF Img!Listed
  <2> QED BY <2>1, <2>2
<1> QED BY <1>1, <1>2

\* A step that touches neither bucket nor caches leaves what is published.
LEMMA PublishedStays ==
  ASSUME ImagesInv, UNCHANGED <<blobs, listing, recorded>>
  PROVE  Published'
BY DEF ImagesInv, Published, Whole, Img!Listed

\* A command returns.
LEMMA EndKeeps ==
  ASSUME OwnCaches, ImagesInv, NEW p \in Publisher, Img!Return(p), Published',
         UNCHANGED <<blobs, cache>>, listing' \in (SUBSET Descriptor) \cup {None},
         recorded' \in SUBSET Digest, recorded \subseteq recorded'
  PROVE  ImagesInv'
<1>1. run' = [run EXCEPT ![p] = None]
  BY DEF Img!Return
<1>2. ImagesType' /\ run'[p] = None /\ \A q \in Publisher : q # p => run'[q] = run[q]
  BY <1>1 DEF ImagesInv, ImagesType
<1> QED BY <1>2, PublisherStep

-----------------------------------------------------------------------------
(* Images: one lemma per step *)

\* The cache is validated: bad blobs are removed, and a whole cached image is used.
LEMMA ValidateKeeps ==
  ASSUME OwnCaches, ImagesInv, NEW p \in Publisher, Img!Validate(p)
  PROVE  ImagesInv'
<1> DEFINE repo == cache[cacheOf[p]]
           blob == Img!validateCache(repo.blob)
           new == [repo EXCEPT !.blob = blob]
           cached == /\ run[p].kind # "push" /\ repo.tag[run[p].tag] = run[p].want
                     /\ Img!cacheComplete(blob, run[p].want)
           next == IF ~cached THEN "fetch" ELSE IF run[p].kind = "repair" THEN "read" ELSE "walk"
           r == [run[p] EXCEPT !.pc = next]
<1>1. /\ run[p] # None /\ run[p].pc = "validate"
      /\ cache' = [cache EXCEPT ![cacheOf[p]] = new] /\ run' = [run EXCEPT ![p] = r]
      /\ UNCHANGED <<blobs, listing, recorded>>
  BY DEF Img!Validate, Img!At, Img!Local
<1>2. /\ run[p] \in Publishing /\ cacheOf[p] \in Cache /\ repo \in Repository
      /\ CallOK(run[p], repo, blobs, recorded)
      /\ repo.blob \in [Digest -> {"absent", "good", "bad"}]
  BY <1>1, CallStep
<1>3. blob \in [Digest -> {"absent", "good", "bad"}] /\ \A d \in Digest : blob[d] # "bad"
  BY <1>2 DEF Img!validateCache
<1>4. cached => Whole(blob, run[p].want) /\ run[p].want \in Digest /\ repo.tag[run[p].tag] = run[p].want
  BY <1>2 DEF Img!cacheComplete, Whole, CallOK
<1>5. /\ next \in {"fetch", "read", "walk"}
      /\ next # "fetch" => cached
      /\ next = "read" => run[p].kind = "repair"
  OBVIOUS
<1> HIDE DEF blob, cached, next, repo
<1>6. new \in Repository /\ new.blob = blob /\ new.tag = repo.tag
  BY <1>2, <1>3 DEF Repository
<1>7. /\ r \in Publishing /\ r.pc = next /\ r.kind = run[p].kind /\ r.tag = run[p].tag
      /\ r.want = run[p].want
  BY <1>2, <1>5 DEF Publishing
<1> HIDE DEF new, r
<1>8. /\ ImagesType' /\ run'[p] = r /\ cache'[cacheOf[p]] = new
      /\ \A q \in Publisher : q # p => run'[q] = run[q]
      /\ \A c \in Cache : c # cacheOf[p] => cache'[c] = cache[c]
  BY <1>1, <1>2, <1>6, <1>7 DEF ImagesInv, ImagesType
<1>9. CallOK(r, new, blobs, recorded)
  <2>1. Clean(new)
    BY <1>3, <1>6 DEF Clean
  <2>2. r.pc \in {"walk", "read"} =>
          /\ new.tag[r.tag] \in Digest /\ Whole(new.blob, new.tag[r.tag]) /\ new.tag[r.tag] = r.want
    BY <1>4, <1>5, <1>6, <1>7
  <2> QED BY <1>2, <1>5, <1>7, <2>1, <2>2 DEF CallOK
<1> QED BY <1>1, <1>8, <1>9, PublishedStays, PublisherStep

\* The store pulls what is missing.
LEMMA FetchKeeps ==
  ASSUME OwnCaches, ImagesInv, NEW p \in Publisher, NEW d \in Source, Img!Fetch(p, d)
  PROVE  ImagesInv'
<1> DEFINE repo == cache[cacheOf[p]]
           t == run[p].tag
           tags == [repo.tag EXCEPT ![t] = d]
           blob == [b \in Digest |-> IF b \in Img!Content(d) /\ repo.blob[b] = "absent"
                                     THEN "good" ELSE repo.blob[b]]
           new == [repo EXCEPT !.tag = tags, !.blob = blob]
           next == IF run[p].kind = "repair" THEN "read" ELSE "walk"
           r == [run[p] EXCEPT !.pc = next]
<1>1. /\ run[p] # None /\ run[p].pc = "fetch" /\ (run[p].kind # "push" => d = run[p].want)
      /\ run' = [run EXCEPT ![p] = r] /\ UNCHANGED <<blobs, listing, recorded>>
  BY DEF Img!Fetch, Img!At
<1>2. /\ run[p] \in Publishing /\ cacheOf[p] \in Cache /\ repo \in Repository
      /\ CallOK(run[p], repo, blobs, recorded) /\ t \in Tag /\ d \in Digest
      /\ repo.blob \in [Digest -> {"absent", "good", "bad"}]
      /\ repo.tag \in [Tag -> Digest \cup {None}]
  BY <1>1, CallStep, ImagesConstants
<1>3. cache' = [cache EXCEPT ![cacheOf[p]] = new]
  BY <1>2 DEF Img!Fetch, ImagesInv, ImagesType, Repository
<1>4. /\ tags \in [Tag -> Digest \cup {None}] /\ tags[t] = d
      /\ blob \in [Digest -> {"absent", "good", "bad"}]
  BY <1>2
<1>5. \A b \in Digest : blob[b] # "bad" /\ (b \in Img!Content(d) => blob[b] = "good")
  BY <1>1, <1>2 DEF CallOK, Clean
<1>6. next \in {"read", "walk"} /\ (next = "read" => run[p].kind = "repair")
  OBVIOUS
<1> HIDE DEF tags, blob, next, repo
<1>7. new \in Repository /\ new.blob = blob /\ new.tag = tags
  BY <1>2, <1>4 DEF Repository
<1>8. /\ r \in Publishing /\ r.pc = next /\ r.kind = run[p].kind /\ r.tag = t /\ r.want = run[p].want
  BY <1>2, <1>6 DEF Publishing
<1> HIDE DEF new, r, t
<1>9. /\ ImagesType' /\ run'[p] = r /\ cache'[cacheOf[p]] = new
      /\ \A q \in Publisher : q # p => run'[q] = run[q]
      /\ \A c \in Cache : c # cacheOf[p] => cache'[c] = cache[c]
  BY <1>1, <1>2, <1>3, <1>7, <1>8 DEF ImagesInv, ImagesType
<1>10. CallOK(r, new, blobs, recorded)
  <2>1. Clean(new) /\ Whole(new.blob, d)
    BY <1>2, <1>5, <1>7, ContentInside DEF Clean, Whole
  <2>2. new.tag[r.tag] = d
    BY <1>4, <1>7, <1>8
  <2> QED BY <1>1, <1>2, <1>6, <1>8, <2>1, <2>2 DEF CallOK
<1> QED BY <1>1, <1>9, <1>10, PublishedStays, PublisherStep

\* The cached blobs are listed.
LEMMA WalkKeeps ==
  ASSUME OwnCaches, ImagesInv, NEW p \in Publisher, Img!Walk(p)
  PROVE  ImagesInv'
<1> DEFINE repo == cache[cacheOf[p]]
           left == {d \in Digest : repo.blob[d] # "absent"}
           r == [run[p] EXCEPT !.pc = "upload", !.left = left]
<1>1. /\ run[p] # None /\ run[p].pc = "walk" /\ UNCHANGED <<blobs, listing, recorded, cache>>
  BY DEF Img!Walk, Img!At
<1>2. /\ run[p] \in Publishing /\ CallOK(run[p], repo, blobs, recorded)
  BY <1>1, CallStep
<1>3. run' = [run EXCEPT ![p] = r]
  BY <1>2 DEF Img!Walk, Img!Local, ImagesInv, ImagesType, Publishing
<1>4. \A c \in Img!Content(repo.tag[run[p].tag]) : c \in left
  BY <1>1, <1>2, ContentInside DEF CallOK, Whole
<1>5. left \in SUBSET Digest
  OBVIOUS
<1> HIDE DEF repo, left
<1>6. /\ r \in Publishing /\ r.pc = "upload" /\ r.kind = run[p].kind /\ r.tag = run[p].tag
      /\ r.want = run[p].want /\ r.left = left
  BY <1>2, <1>5 DEF Publishing
<1> HIDE DEF r
<1>7. ImagesType' /\ run'[p] = r /\ \A q \in Publisher : q # p => run'[q] = run[q]
  BY <1>1, <1>3, <1>6 DEF ImagesInv, ImagesType
<1>8. CallOK(r, repo, blobs, recorded)
  BY <1>1, <1>2, <1>4, <1>6 DEF CallOK
<1>9. CallOK(run'[p], cache'[cacheOf[p]], blobs', recorded')
  BY <1>1, <1>7, <1>8 DEF repo
<1> QED BY <1>1, <1>7, <1>9, PublishedStays, PublisherStep

\* One blob is uploaded.
LEMMA UploadKeeps ==
  ASSUME OwnCaches, ImagesInv, NEW p \in Publisher, NEW d \in Digest, Img!Upload(p, d)
  PROVE  ImagesInv'
<1> DEFINE repo == cache[cacheOf[p]]
           r == [run[p] EXCEPT !.left = run[p].left \ {d}]
<1>1. /\ run[p] # None /\ run[p].pc = "upload" /\ d \in run[p].left /\ repo.blob[d] # "absent"
      /\ blobs' = [blobs EXCEPT ![d] = repo.blob[d]] /\ run' = [run EXCEPT ![p] = r]
      /\ UNCHANGED <<listing, recorded, cache>>
  BY DEF Img!Upload, Img!At, Img!Local
<1>2. /\ run[p] \in Publishing /\ CallOK(run[p], repo, blobs, recorded)
      /\ repo.blob \in [Digest -> {"absent", "good", "bad"}]
  BY <1>1, CallStep
<1>3. repo.blob[d] = "good"
  BY <1>1, <1>2 DEF CallOK, Clean
<1>4. blobs \in [Digest -> {"absent", "good", "bad"}]
  BY DEF ImagesInv, ImagesType
<1>5. blobs' \in [Digest -> {"absent", "good", "bad"}] /\ blobs'[d] = "good"
      /\ \A b \in Digest : b # d => blobs'[b] = blobs[b]
  BY <1>1, <1>3, <1>4
<1>6. \A b \in Digest : blobs[b] = "good" => blobs'[b] = "good"
  BY <1>5
<1> HIDE DEF repo
<1>7. /\ r \in Publishing /\ r.pc = "upload" /\ r.kind = run[p].kind /\ r.tag = run[p].tag
      /\ r.want = run[p].want /\ r.left = run[p].left \ {d}
  BY <1>1, <1>2 DEF Publishing
<1> HIDE DEF r
<1>8. ImagesType' /\ run'[p] = r /\ \A q \in Publisher : q # p => run'[q] = run[q]
  BY <1>1, <1>5, <1>7 DEF ImagesInv, ImagesType
<1>9. Published'
  <2>1. \A e \in Img!Listed' : e.digest \in Digest /\ blobs'[e.digest] = "good"
    <3>1. Img!Listed' = Img!Listed
      BY <1>1 DEF Img!Listed
    <3>2. \A e \in Img!Listed : e.digest \in Digest
      BY ListedType DEF Descriptor
    <3> QED BY <1>6, <3>1, <3>2 DEF ImagesInv, Published
  <2>2. \A x \in recorded' : Whole(blobs', x)
    BY <1>1, <1>6, ContentInside DEF ImagesInv, ImagesType, Published, Whole
  <2> QED BY <2>1, <2>2 DEF Published
<1>10. \A c \in Img!Content(repo.tag[r.tag]) : blobs'[c] = "good" \/ c \in r.left
  BY <1>1, <1>2, <1>5, <1>7, ContentInside DEF CallOK
<1>11. CallOK(r, repo, blobs', recorded')
  BY <1>1, <1>2, <1>7, <1>10 DEF CallOK
<1>12. CallOK(run'[p], cache'[cacheOf[p]], blobs', recorded')
  BY <1>1, <1>8, <1>11 DEF repo
<1> QED BY <1>1, <1>6, <1>8, <1>9, <1>12, PublisherStep

\* The local index and then the published one are read.
LEMMA ReadIndexKeeps ==
  ASSUME OwnCaches, ImagesInv, NEW p \in Publisher, Img!ReadIndex(p)
  PROVE  ImagesInv'
<1> DEFINE repo == cache[cacheOf[p]]
           d == repo.tag[run[p].tag]
           r == [run[p] EXCEPT !.pc = "put", !.version = listing, !.digest = d]
<1>1. /\ run[p] # None /\ (run[p].pc = "read" \/ (run[p].pc = "upload" /\ run[p].left = {}))
      /\ UNCHANGED <<blobs, listing, recorded, cache>>
  BY DEF Img!ReadIndex, Img!At, Img!Uploaded
<1>2. run[p] \in Publishing /\ CallOK(run[p], repo, blobs, recorded)
  BY <1>1, CallStep
<1>3. run' = [run EXCEPT ![p] = r]
  BY <1>2 DEF Img!ReadIndex, Img!Local, ImagesInv, ImagesType, Publishing
<1>4. /\ d \in Digest /\ (run[p].kind # "push" => d = run[p].want)
  BY <1>1, <1>2 DEF CallOK
<1>5. Whole(blobs, d)
  <2>1. CASE run[p].pc = "read"
    BY <1>2, <1>4, <2>1 DEF CallOK, ImagesInv, Published
  <2>2. CASE run[p].pc = "upload" /\ run[p].left = {}
    BY <1>2, <2>2 DEF CallOK, Whole
  <2> QED BY <1>1, <2>1, <2>2
<1>6. Clean(repo)
  BY <1>1, <1>2 DEF CallOK
<1> HIDE DEF repo, d
<1>7. /\ r \in Publishing /\ r.pc = "put" /\ r.kind = run[p].kind /\ r.tag = run[p].tag
      /\ r.want = run[p].want /\ r.digest = d
  BY <1>2, <1>4 DEF Publishing, ImagesInv, ImagesType
<1> HIDE DEF r
<1>8. ImagesType' /\ run'[p] = r /\ \A q \in Publisher : q # p => run'[q] = run[q]
  BY <1>1, <1>3, <1>7 DEF ImagesInv, ImagesType
<1>9. CallOK(r, repo, blobs, recorded)
  BY <1>2, <1>4, <1>5, <1>6, <1>7 DEF CallOK
<1>10. CallOK(run'[p], cache'[cacheOf[p]], blobs', recorded')
  BY <1>1, <1>8, <1>9 DEF repo
<1> QED BY <1>1, <1>8, <1>10, PublishedStays, PublisherStep

\* What mergeIndexes makes of what is listed.
LEMMA MergeIndexes ==
  ASSUME NEW old \in SUBSET Descriptor, NEW t \in Tag, NEW d \in Digest
  PROVE  Merged(Img!mergeIndexes(old, t, d), old, t, d)
<1> DEFINE new == Img!mergeIndexes(old, t, d)
           kept == {e \in old : e.tag # t}
           top == [tag |-> t, digest |-> d]
           below(c) == [tag |-> None, digest |-> c]
<1>1. new = kept \cup {top} \cup {below(c) : c \in nested[d] \ (Img!Digests(kept) \cup {d})}
  BY DEF Img!mergeIndexes
<1>2. top \in Descriptor /\ top.tag = t /\ top.digest = d
  BY DEF Descriptor
<1>3. \A c \in Digest : below(c) \in Descriptor /\ below(c).tag = None /\ below(c).digest = c
  BY DEF Descriptor
<1>4. nested[d] \subseteq Digest /\ None # t /\ None \notin Tag
  BY ImagesConstants
<1>5. \A c \in Img!Digests(kept) : \E e \in kept : e.digest = c
  BY DEF Img!Digests
<1> HIDE DEF new
<1>5a. \A e \in new : e \in kept \/ e = top \/ \E c \in nested[d] : e = below(c)
  BY <1>1
<1> HIDE DEF top, below
<1>6. ASSUME NEW e \in new PROVE e \in Descriptor /\ (e \in old \/ e.digest \in Img!Content(d))
  <2>1. CASE e \in kept
    BY <2>1
  <2>2. CASE e = top
    BY <1>2, <2>2 DEF Img!Content
  <2>3. CASE \E c \in nested[d] : e = below(c)
    BY <1>3, <1>4, <2>3 DEF Img!Content
  <2> QED BY <1>5a, <2>1, <2>2, <2>3
<1>8. \A c \in Img!Content(d) : \E e \in new : e.digest = c
  <2> SUFFICES ASSUME NEW c \in Img!Content(d) PROVE \E e \in new : e.digest = c
    OBVIOUS
  <2>1. CASE c = d
    BY <1>1, <1>2, <2>1
  <2>2. CASE c \in Img!Digests(kept)
    BY <1>1, <1>5, <2>2
  <2>3. CASE c \in nested[d] \ (Img!Digests(kept) \cup {d})
    BY <1>1, <1>3, <1>4, <2>3
  <2> QED BY <2>1, <2>2, <2>3 DEF Img!Content
<1>9. ASSUME NEW e \in new, e.tag = t PROVE e = top
  BY <1>3, <1>4, <1>5a, <1>9
<1>10. \A e \in Descriptor : e.tag \in Tag /\ e.tag # t => (e \in new <=> e \in old)
  BY <1>1, <1>2, <1>3, <1>4
<1>11. Merged(new, old, t, d)
  BY <1>1, <1>6, <1>8, <1>9, <1>10 DEF top, Merged
<1> QED BY <1>11 DEF new

\* What is written, when the index is still the one that was read.
LEMMA PutWrites ==
  ASSUME ImagesInv, NEW p \in Publisher, Img!PutIndex(p), run[p].version = listing
  PROVE  /\ run[p] # None /\ run[p].tag \in Tag /\ run[p].digest \in Digest
         /\ Whole(blobs, run[p].digest) /\ (run[p].kind # "push" => run[p].digest = run[p].want)
         /\ Img!Listed \in SUBSET Descriptor /\ UNCHANGED <<blobs, cache>>
         /\ listing' = Img!mergeIndexes(Img!Listed, run[p].tag, run[p].digest)
         /\ answer' = IF run[p].kind = "push" THEN answer ELSE run[p].want
         /\ recorded' = recorded \cup (IF run[p].kind = "mirror" THEN {run[p].want} ELSE {})
<1>1. run[p] # None /\ run[p].pc = "put"
  BY DEF Img!PutIndex, Img!At
<1>2. run[p].tag \in Tag /\ CallOK(run[p], cache[cacheOf[p]], blobs, recorded)
  BY <1>1, CallStep
<1>3. /\ run[p].digest \in Digest /\ Whole(blobs, run[p].digest)
      /\ (run[p].kind # "push" => run[p].digest = run[p].want)
  BY <1>1, <1>2 DEF CallOK
<1>4. Img!Listed \in SUBSET Descriptor
  BY ListedType
<1> QED BY <1>1, <1>2, <1>3, <1>4 DEF Img!PutIndex, Img!Matches, Img!Listed

\* The merged index is written, or the command fails.
LEMMA PublishKeeps ==
  ASSUME OwnCaches, ImagesInv, NEW p \in Publisher, Img!PutIndex(p)
  PROVE  ImagesInv'
<1>1. Img!Return(p) /\ UNCHANGED <<blobs, cache>>
  BY DEF Img!PutIndex
<1>2. CASE run[p].version # listing
  <2>1. UNCHANGED <<listing, recorded>>
    BY <1>2 DEF Img!PutIndex, Img!Matches
  <2>2. listing' \in (SUBSET Descriptor) \cup {None} /\ recorded' \in SUBSET Digest
    BY <2>1 DEF ImagesInv, ImagesType
  <2> QED BY <1>1, <2>1, <2>2, PublishedStays, EndKeeps
<1>3. CASE run[p].version = listing
  <2> DEFINE d == run[p].digest
  <2>1. /\ run[p].tag \in Tag /\ d \in Digest /\ Whole(blobs, d)
        /\ (run[p].kind # "push" => d = run[p].want) /\ Img!Listed \in SUBSET Descriptor
        /\ listing' = Img!mergeIndexes(Img!Listed, run[p].tag, d)
        /\ recorded' = recorded \cup (IF run[p].kind = "mirror" THEN {run[p].want} ELSE {})
    BY <1>3, PutWrites
  <2>2. /\ listing' \in SUBSET Descriptor
        /\ \A e \in listing' : e \in Img!Listed \/ e.digest \in Img!Content(d)
    <3> HIDE DEF d
    <3>1. Merged(Img!mergeIndexes(Img!Listed, run[p].tag, d), Img!Listed, run[p].tag, d)
      BY <2>1, MergeIndexes
    <3> QED BY <2>1, <3>1 DEF Merged
  <2>3. recorded' \in SUBSET Digest /\ recorded \subseteq recorded'
        /\ \A x \in recorded' : x \in recorded \/ x = d
    BY <2>1 DEF ImagesInv, ImagesType
  <2>4. Published'
    <3>1. \A e \in listing' : blobs'[e.digest] = "good"
      BY <1>1, <2>1, <2>2 DEF ImagesInv, Published, Whole
    <3>2. \A x \in recorded' : Whole(blobs', x)
      BY <1>1, <2>1, <2>3 DEF ImagesInv, Published
    <3> QED BY <3>1, <3>2 DEF Published, Img!Listed
  <2> QED BY <1>1, <2>2, <2>3, <2>4, EndKeeps
<1> QED BY <1>2, <1>3

\* A cached tag is pushed as it is, in apps/.
LEMMA StartPushKeeps ==
  ASSUME OwnCaches, PushInv, NEW p \in Publisher, NEW t \in Tag, NEW refresh \in BOOLEAN,
         Img!StartPush(p, t, refresh)
  PROVE  PushInv'
<1> DEFINE repo == cache[cacheOf[p]]
           first == IF refresh \/ repo.tag[t] = None THEN "validate" ELSE "walk"
           r == Img!Call(first, "push", t, None)
<1>1. run' = [run EXCEPT ![p] = r] /\ UNCHANGED <<blobs, listing, recorded, cache>>
  BY DEF Img!StartPush, Img!Local
<1>2. ImagesInv /\ cacheOf[p] \in Cache /\ repo \in Repository
  BY ImagesConstants DEF PushInv, ImagesInv, ImagesType
<1>3. repo.tag \in [Tag -> Digest \cup {None}]
  BY <1>2 DEF Repository
<1>4. Clean(repo) /\ (repo.tag[t] # None => repo.tag[t] \in Digest /\ Whole(repo.blob, repo.tag[t]))
  BY <1>2, <1>3 DEF PushInv, CachesWhole
<1>5. first \in {"validate", "walk"} /\ (first = "walk" => repo.tag[t] # None)
  OBVIOUS
<1> HIDE DEF repo, first
<1>6. /\ r \in Publishing /\ r.pc = first /\ r.kind = "push" /\ r.tag = t
  BY <1>5, SMT DEF Img!Call, Publishing
<1> HIDE DEF r
<1>7. ImagesType' /\ run'[p] = r /\ \A q \in Publisher : q # p => run'[q] = run[q]
  BY <1>1, <1>2, <1>6 DEF ImagesInv, ImagesType
<1>8. CallOK(r, repo, blobs, recorded)
  BY <1>4, <1>5, <1>6 DEF CallOK
<1>9. CallOK(run'[p], cache'[cacheOf[p]], blobs', recorded')
  BY <1>1, <1>7, <1>8 DEF repo
<1>10. ImagesInv'
  BY <1>1, <1>2, <1>7, <1>9, PublishedStays, PublisherStep
<1>11. \A q \in Publisher : run'[q] # None => run'[q].kind = "push"
  BY <1>6, <1>7 DEF PushInv
<1>12. CachesWhole'
  BY <1>1 DEF PushInv, CachesWhole, Clean, Whole
<1> QED BY <1>10, <1>11, <1>12 DEF PushInv

\* Setup or install finds the image mirrored, or starts to mirror or repair it.
LEMMA MirroredKeeps ==
  ASSUME OwnCaches, ImagesInv, NEW p \in Publisher, NEW t \in Tag, NEW d \in Source,
         Img!Mirrored(p, t, d)
  PROVE  ImagesInv'
<1>1. UNCHANGED <<blobs, listing, recorded, cache>>
  BY DEF Img!Mirrored
<1>2. CASE UNCHANGED run
  BY <1>1, <1>2, PublishedStays DEF ImagesInv, ImagesType
<1>3. CASE \E kind \in {"mirror"} \cup (IF d \in recorded THEN {"repair"} ELSE {}) :
             run' = [run EXCEPT ![p] = Img!Call("validate", kind, t, d)]
  <2>1. PICK kind \in {"mirror", "repair"} :
          /\ kind = "repair" => d \in recorded
          /\ run' = [run EXCEPT ![p] = Img!Call("validate", kind, t, d)]
    BY <1>3
  <2> DEFINE r == Img!Call("validate", kind, t, d)
  <2>2. d \in Digest
    BY ImagesConstants
  <2>3. r \in Publishing /\ r.pc = "validate" /\ r.kind = kind /\ r.want = d
    BY <2>1, <2>2, SMT DEF Img!Call, Publishing
  <2>4. run' = [run EXCEPT ![p] = r]
    BY <2>1
  <2> HIDE DEF r
  <2>5. ImagesType' /\ run'[p] = r /\ \A q \in Publisher : q # p => run'[q] = run[q]
    BY <1>1, <2>3, <2>4 DEF ImagesInv, ImagesType
  <2>6. CallOK(r, cache[cacheOf[p]], blobs, recorded)
    BY <2>1, <2>2, <2>3 DEF CallOK
  <2>7. CallOK(run'[p], cache'[cacheOf[p]], blobs', recorded')
    BY <1>1, <2>5, <2>6
  <2> QED BY <1>1, <2>5, <2>7, PublishedStays, PublisherStep
<1> QED BY <1>2, <1>3 DEF Img!Mirrored

\* A blob decays in a cache that no command uses.
LEMMA RotKeeps ==
  ASSUME ImagesInv, NEW c \in Cache, NEW d \in Digest, Img!Rot(c, d)
  PROVE  ImagesInv'
<1> DEFINE blob == [cache[c].blob EXCEPT ![d] = "bad"]
           new == [cache[c] EXCEPT !.blob = blob]
<1>1. /\ \A p \in Publisher : cacheOf[p] = c => run[p] = None
      /\ cache' = [cache EXCEPT ![c] = new] /\ UNCHANGED <<blobs, listing, recorded, run>>
  BY DEF Img!Rot
<1>2. cache[c] \in Repository
  BY DEF ImagesInv, ImagesType
<1>3. blob \in [Digest -> {"absent", "good", "bad"}]
  BY <1>2 DEF Repository
<1> HIDE DEF blob
<1>4. new \in Repository
  BY <1>2, <1>3 DEF Repository
<1> HIDE DEF new
<1>5. ImagesType' /\ \A x \in Cache : x # c => cache'[x] = cache[x]
  BY <1>1, <1>4 DEF ImagesInv, ImagesType
<1>6. ASSUME NEW p \in Publisher, run'[p] # None
      PROVE  CallOK(run'[p], cache'[cacheOf[p]], blobs', recorded')
  BY <1>1, <1>5, <1>6, ImagesConstants DEF ImagesInv
<1> QED BY <1>1, <1>5, <1>6, PublishedStays DEF ImagesInv

\* All steps of a command.
LEMMA StepsKeep ==
  ASSUME OwnCaches, ImagesInv, NEW p \in Publisher, Img!Steps(p)
  PROVE  ImagesInv'
<1>1. CASE Img!Fail(p)
  <2>1. Img!Return(p) /\ UNCHANGED <<blobs, listing, recorded, cache>>
    BY <1>1 DEF Img!Fail
  <2>2. listing' \in (SUBSET Descriptor) \cup {None} /\ recorded' \in SUBSET Digest
    BY <2>1 DEF ImagesInv, ImagesType
  <2> QED BY <2>1, <2>2, PublishedStays, EndKeeps
<1> QED BY <1>1, ValidateKeeps, WalkKeeps, ReadIndexKeeps, PublishKeeps, UploadKeeps, FetchKeeps
        DEF Img!Steps

\* In apps/ a step of a push leaves every cached image whole.
LEMMA PushStepsKeep ==
  ASSUME OwnCaches, PushInv, NEW p \in Publisher, Img!Steps(p)
  PROVE  PushInv'
<1>1. ImagesInv' /\ ImagesInv
  BY StepsKeep DEF PushInv
<1> DEFINE repo == cache[cacheOf[p]]
<1>2. run[p] # None /\ \A q \in Publisher : q # p => run'[q] = run[q]
  BY <1>1 DEF Img!Steps, Img!Validate, Img!Walk, Img!ReadIndex, Img!PutIndex, Img!Fail, Img!Upload,
              Img!Fetch, Img!At, Img!Return, ImagesInv, ImagesType
<1>3. /\ run[p] \in Publishing /\ cacheOf[p] \in Cache /\ repo \in Repository
      /\ repo.blob \in [Digest -> {"absent", "good", "bad"}]
      /\ repo.tag \in [Tag -> Digest \cup {None}]
  BY <1>1, <1>2, CallStep
<1>4. run'[p] # None => run'[p].kind = run[p].kind
  <2> SUFFICES ASSUME run'[p] # None PROVE run'[p].kind = run[p].kind
    OBVIOUS
  <2>1. p \in DOMAIN run
    BY <1>1 DEF ImagesInv, ImagesType
  <2>2. CASE Img!PutIndex(p) \/ Img!Fail(p)
    BY <2>1, <2>2 DEF Img!PutIndex, Img!Fail, Img!Return
  <2>3. CASE Img!Validate(p)
    BY <1>3, <2>1, <2>3 DEF Img!Validate, Publishing
  <2>4. CASE Img!Walk(p)
    BY <1>3, <2>1, <2>4 DEF Img!Walk, Publishing
  <2>5. CASE Img!ReadIndex(p)
    BY <1>3, <2>1, <2>5 DEF Img!ReadIndex, Publishing
  <2>6. CASE \E d \in Digest : Img!Upload(p, d)
    BY <1>3, <2>1, <2>6 DEF Img!Upload, Publishing
  <2>7. CASE \E d \in Source : Img!Fetch(p, d)
    BY <1>3, <2>1, <2>7 DEF Img!Fetch, Publishing
  <2> QED BY <2>2, <2>3, <2>4, <2>5, <2>6, <2>7 DEF Img!Steps
<1>5. \A q \in Publisher : run'[q] # None => run'[q].kind = "push"
  BY <1>2, <1>4 DEF PushInv
<1>6. Clean(repo) /\ \A t \in Tag : repo.tag[t] # None => Whole(repo.blob, repo.tag[t])
  BY <1>3 DEF PushInv, CachesWhole
<1>7. CASE UNCHANGED cache
  BY <1>1, <1>5, <1>7 DEF PushInv, CachesWhole, Clean, Whole
<1>8. CASE Img!Validate(p)
  <2>1. Img!validateCache(repo.blob) = repo.blob
    BY <1>3, <1>6 DEF Img!validateCache, Clean
  <2>2. cache' = [cache EXCEPT ![cacheOf[p]].blob = repo.blob]
    BY <1>8, <2>1 DEF Img!Validate, Img!Local
  <2>3. [repo EXCEPT !.blob = repo.blob] = repo
    BY <1>3 DEF Repository
  <2>4. cache' = [cache EXCEPT ![cacheOf[p]] = repo]
    BY <2>2, <2>3
  <2>5. cache' = cache
    BY <1>1, <2>4 DEF ImagesInv, ImagesType
  <2> QED BY <1>7, <2>5
<1>9. ASSUME NEW d \in Source, Img!Fetch(p, d) PROVE PushInv'
  <2> DEFINE tags == [repo.tag EXCEPT ![run[p].tag] = d]
             blob == [b \in Digest |-> IF b \in Img!Content(d) /\ repo.blob[b] = "absent"
                                       THEN "good" ELSE repo.blob[b]]
             new == [repo EXCEPT !.tag = tags, !.blob = blob]
  <2>1. cache' = [cache EXCEPT ![cacheOf[p]] = new]
    BY <1>1, <1>3, <1>9 DEF Img!Fetch, ImagesInv, ImagesType, Repository
  <2>2. d \in Digest /\ run[p].tag \in Tag
    BY <1>1, <1>2, CallStep, ImagesConstants
  <2>3. /\ tags \in [Tag -> Digest \cup {None}] /\ blob \in [Digest -> {"absent", "good", "bad"}]
        /\ \A b \in Digest : blob[b] # "bad" /\ (repo.blob[b] = "good" => blob[b] = "good")
        /\ \A b \in Img!Content(d) \cap Digest : blob[b] = "good"
        /\ \A t \in Tag : tags[t] = d \/ tags[t] = repo.tag[t]
    BY <1>3, <1>6, <2>2 DEF Clean
  <2> HIDE DEF tags, blob
  <2>4. new \in Repository /\ new.tag = tags /\ new.blob = blob
    BY <1>3, <2>3 DEF Repository
  <2> HIDE DEF new
  <2>5. Clean(new)
    BY <2>3, <2>4 DEF Clean
  <2>6. ASSUME NEW t \in Tag, new.tag[t] # None PROVE Whole(new.blob, new.tag[t])
    <3>1. CASE tags[t] = d
      BY <2>2, <2>3, <2>4, <3>1, ContentInside DEF Whole
    <3>2. CASE tags[t] = repo.tag[t]
      <4>1. repo.tag[t] \in Digest /\ \A c \in Img!Content(repo.tag[t]) : repo.blob[c] = "good"
        BY <1>3, <1>6, <2>4, <2>6, <3>2 DEF Whole
      <4>2. \A c \in Img!Content(repo.tag[t]) : c \in Digest
        BY <4>1, ContentInside
      <4> QED BY <2>3, <2>4, <3>2, <4>1, <4>2 DEF Whole
    <3> QED BY <2>3, <3>1, <3>2
  <2>7. \A c \in Cache : cache'[c] = IF c = cacheOf[p] THEN new ELSE cache[c]
    BY <1>1, <2>1 DEF ImagesInv, ImagesType
  <2>8. CachesWhole'
    BY <2>5, <2>6, <2>7 DEF PushInv, CachesWhole
  <2> QED BY <1>1, <1>5, <2>8 DEF PushInv
<1> QED BY <1>7, <1>8, <1>9 DEF Img!Steps, Img!Walk, Img!ReadIndex, Img!PutIndex, Img!Fail, Img!Upload

-----------------------------------------------------------------------------
(* Images: the theorems *)

\* The initial repository.
LEMMA ImagesInit ==
  ASSUME NEW earlier, earlier \subseteq Descriptor, Img!Init(earlier)
  PROVE  ImagesInv /\ CachesWhole /\ \A p \in Publisher : run[p] = None
<1> DEFINE empty == [tag |-> [t \in Tag |-> None], blob |-> [d \in Digest |-> "absent"]]
<1>1. /\ blobs = [d \in Digest |-> IF \E e \in earlier : d \in Img!Content(e.digest) THEN "good" ELSE "absent"]
      /\ listing = IF earlier = {} THEN None ELSE earlier
      /\ recorded = Img!Digests(earlier)
      /\ cache = [c \in Cache |-> empty] /\ run = [p \in Publisher |-> None]
  BY DEF Img!Init
<1>2. empty \in Repository /\ (\A t \in Tag : empty.tag[t] = None) /\ \A d \in Digest : empty.blob[d] = "absent"
  BY DEF Repository
<1> HIDE DEF empty
<1>3. \A e \in earlier : e.digest \in Digest
  BY DEF Descriptor
<1>4. ImagesType
  <2>1. blobs \in [Digest -> {"absent", "good", "bad"}]
    BY <1>1
  <2>2. recorded \in SUBSET Digest
    BY <1>1, <1>3 DEF Img!Digests
  <2>3. listing \in (SUBSET Descriptor) \cup {None}
    <3>1. CASE earlier = {}
      BY <1>1, <3>1
    <3>2. CASE earlier # {}
      BY <1>1, <3>2
    <3> QED BY <3>1, <3>2
  <2> QED BY <1>1, <1>2, <2>1, <2>2, <2>3 DEF ImagesType
<1>5. \A e \in earlier : Whole(blobs, e.digest)
  BY <1>1, <1>3, ContentInside DEF Whole
<1>6. Published
  <2>1. \A e \in Img!Listed : e \in earlier
    BY <1>1 DEF Img!Listed
  <2>2. \A e \in Img!Listed : blobs[e.digest] = "good"
    BY <1>3, <1>5, <2>1, ContentInside DEF Whole
  <2>3. \A d \in recorded : Whole(blobs, d)
    BY <1>1, <1>5 DEF Img!Digests
  <2> QED BY <2>2, <2>3 DEF Published
<1> QED BY <1>1, <1>2, <1>4, <1>6 DEF ImagesInv, CachesWhole, Clean

\* Whatever happens next, a stuttering step included.
LEMMA ImagesStutter ==
  ASSUME UNCHANGED Img!vars
  PROVE  (ImagesInv => ImagesInv') /\ (PushInv => PushInv')
<1>1. UNCHANGED <<blobs, listing, recorded, cache, run>>
  BY DEF Img!vars
<1>2. ASSUME ImagesInv PROVE ImagesInv'
  <2>1. ImagesType' /\ Published'
    BY <1>1, <1>2, PublishedStays DEF ImagesInv, ImagesType
  <2>2. \A p \in Publisher : run'[p] # None => CallOK(run'[p], cache'[cacheOf[p]], blobs', recorded')
    BY <1>1, <1>2 DEF ImagesInv
  <2> QED BY <2>1, <2>2 DEF ImagesInv
<1> QED BY <1>1, <1>2 DEF PushInv, CachesWhole, Clean, Whole

\* The invariant of Push, for any number of machines that push and fail.
THEOREM PushInvariant ==
  ASSUME OwnCaches
  PROVE  Img!AppsSpec => []PushInv
<1>1. Img!Init({}) => PushInv
  BY ImagesInit DEF PushInv
<1>2. PushInv /\ [Img!AppsNext]_Img!vars => PushInv'
  <2> SUFFICES ASSUME PushInv, [Img!AppsNext]_Img!vars PROVE PushInv'
    OBVIOUS
  <2> QED BY StartPushKeeps, PushStepsKeep, ImagesStutter DEF Img!AppsNext, Img!Pushing, Img!Running
<1> QED BY <1>1, <1>2, PTL DEF Img!AppsSpec

\* The invariant of Mirror and PublishMirrorIndex, whatever an earlier release published.
THEOREM MirrorInvariant ==
  ASSUME OwnCaches
  PROVE  Img!MirrorSpec => []ImagesInv
<1>1. Img!Init(Legacy) => ImagesInv
  BY ImagesInit, ImagesConstants
<1>2. ImagesInv /\ [Img!MirrorNext]_Img!vars => ImagesInv'
  <2> SUFFICES ASSUME ImagesInv, [Img!MirrorNext]_Img!vars PROVE ImagesInv'
    OBVIOUS
  <2> QED BY MirroredKeeps, StepsKeep, RotKeeps, ImagesStutter
          DEF Img!MirrorNext, Img!Mirroring, Img!Running, Img!Rotting
<1> QED BY <1>1, <1>2, PTL DEF Img!MirrorSpec

\* What index.json lists can be fetched intact at every moment, in apps/ and in mirror/:
\* blobs come first, and no command uploads a decayed one (publish.go, uploadTree).
THEOREM ListedIsStored ==
  ASSUME OwnCaches
  PROVE  Img!AppsSpec \/ Img!MirrorSpec => []IndexFetchable
<1>1. ImagesInv => IndexFetchable
  BY DEF ImagesInv, Published, IndexFetchable, Img!ListedStored, Img!Digests
<1>2. PushInv => IndexFetchable
  BY <1>1 DEF PushInv
<1> QED BY <1>1, <1>2, PushInvariant, MirrorInvariant, PTL

\* A change of index.json is one command's conditional write.
LEMMA PutChanges ==
  ASSUME ImagesInv, NEW p \in Publisher, Img!Steps(p), listing' # listing \/ answer' # answer
  PROVE  Img!PutIndex(p) /\ run[p].version = listing
<1>1. Img!PutIndex(p)
  BY DEF Img!Steps, Img!Validate, Img!Walk, Img!ReadIndex, Img!Fail, Img!Upload, Img!Fetch
<1> QED BY <1>1 DEF Img!PutIndex, Img!Matches

\* One write changes one tag.
LEMMA OneTagWritten ==
  ASSUME ImagesInv, NEW p \in Publisher, Img!Steps(p)
  PROVE  Img!WritesOneTag
<1> SUFFICES ASSUME listing' # listing
             PROVE  \E t \in Tag, d \in Digest :
                      /\ Img!TagsOf(listing')[t] = {d} /\ nested[d] \subseteq Img!Digests(listing')
                      /\ \A u \in Tag \ {t} : Img!TagsOf(listing')[u] = Img!TagsOf(Img!Listed)[u]
  BY DEF Img!WritesOneTag
<1> DEFINE t == run[p].tag
           d == run[p].digest
           old == Img!Listed
           new == listing'
<1>1. /\ t \in Tag /\ d \in Digest /\ old \in SUBSET Descriptor
      /\ new = Img!mergeIndexes(old, t, d)
  BY PutChanges, PutWrites
<1> HIDE DEF t, d, old, new
<1>2. Merged(new, old, t, d)
  BY <1>1, MergeIndexes
<1>3. [tag |-> t, digest |-> d].digest = d /\ [tag |-> t, digest |-> d].tag = t
  OBVIOUS
<1>4. Img!TagsOf(new)[t] = {d}
  <2>1. {f \in new : f.tag = t} = {[tag |-> t, digest |-> d]}
    BY <1>2, <1>3 DEF Merged
  <2>2. {e.digest : e \in {f \in new : f.tag = t}} = {d}
    BY <1>3, <2>1
  <2> QED BY <1>1, <2>2 DEF Img!TagsOf
<1>5. nested[d] \subseteq Img!Digests(new)
  BY <1>2 DEF Merged, Img!Content, Img!Digests
<1>6. \A u \in Tag \ {t} : Img!TagsOf(new)[u] = Img!TagsOf(old)[u]
  <2> SUFFICES ASSUME NEW u \in Tag, u # t PROVE Img!TagsOf(new)[u] = Img!TagsOf(old)[u]
    OBVIOUS
  <2>1. \A e : e \in {f \in new : f.tag = u} <=> e \in {f \in old : f.tag = u}
    BY <1>1, <1>2 DEF Merged
  <2>2. {f \in new : f.tag = u} = {f \in old : f.tag = u}
    BY <2>1
  <2> QED BY <2>2 DEF Img!TagsOf
<1> QED BY <1>1, <1>4, <1>5, <1>6 DEF new, old

\* A write changes one tag only and lists all that lies below what it names: concurrent
\* publications of other tags are never undone (publish.go, mergeIndexes and PutIfMatch).
THEOREM PublicationsApart ==
  ASSUME OwnCaches
  PROVE  Img!AppsSpec \/ Img!MirrorSpec => OneTagChanges
<1>1. ImagesInv /\ [Img!AppsNext \/ Img!MirrorNext]_Img!vars => [Img!WritesOneTag]_Img!vars
  <2> SUFFICES ASSUME ImagesInv, Img!AppsNext \/ Img!MirrorNext PROVE Img!WritesOneTag
    OBVIOUS
  <2>1. CASE Img!Running
    BY <2>1, OneTagWritten DEF Img!Running
  <2>2. CASE Img!Pushing \/ Img!Mirroring \/ Img!Rotting
    BY <2>2 DEF Img!Pushing, Img!Mirroring, Img!Rotting, Img!StartPush, Img!Mirrored, Img!Rot, Img!WritesOneTag
  <2> QED BY <2>1, <2>2 DEF Img!AppsNext, Img!MirrorNext
<1>2. PushInv => ImagesInv
  BY DEF PushInv
<1> QED BY <1>1, <1>2, PushInvariant, MirrorInvariant, PTL
        DEF Img!AppsSpec, Img!MirrorSpec, OneTagChanges, Img!OneTagChanges

\* What setup and install count as mirrored is there as a whole, whatever was left by an
\* earlier release or an interrupted command (publish.go, Mirrored, Mirror).
THEOREM MirroredIsWhole ==
  ASSUME OwnCaches
  PROVE  Img!MirrorSpec => EnsuredFetchable
<1>1. ImagesInv /\ [Img!MirrorNext]_Img!vars => [Img!AnswersWhole]_Img!vars
  <2> SUFFICES ASSUME ImagesInv, Img!MirrorNext, answer' # answer
               PROVE  \A c \in Img!Content(answer') : c \in Img!Digests(listing') /\ blobs'[c] = "good"
    BY DEF Img!AnswersWhole
  <2>1. ASSUME NEW p \in Publisher, Img!Steps(p)
        PROVE  \A c \in Img!Content(answer') : c \in Img!Digests(listing') /\ blobs'[c] = "good"
    <3> DEFINE t == run[p].tag
               d == run[p].digest
    <3>1. /\ t \in Tag /\ d \in Digest /\ Img!Listed \in SUBSET Descriptor /\ answer' = d
          /\ listing' = Img!mergeIndexes(Img!Listed, t, d) /\ Whole(blobs, d) /\ blobs' = blobs
      BY <2>1, PutChanges, PutWrites
    <3> HIDE DEF t, d
    <3>2. Merged(Img!mergeIndexes(Img!Listed, t, d), Img!Listed, t, d)
      BY <3>1, MergeIndexes
    <3>3. \A c \in Img!Content(d) : \E e \in listing' : e.digest = c
      BY <3>1, <3>2 DEF Merged
    <3> QED BY <3>1, <3>3 DEF Whole, Img!Digests
  <2>2. ASSUME NEW p \in Publisher, NEW t \in Tag, NEW d \in Source, Img!Mirrored(p, t, d)
        PROVE  \A c \in Img!Content(answer') : c \in Img!Digests(listing') /\ blobs'[c] = "good"
    <3>1. Img!Complete(t, d) /\ answer' = d /\ UNCHANGED <<blobs, listing>>
      BY <2>2 DEF Img!Mirrored
    <3>2. \A c \in Img!Content(d) : \E e \in Img!Listed : e.digest = c
      BY <3>1 DEF Img!Complete, Img!publishedIndexComplete, Img!Digests
    <3>3. \A c \in Img!Content(d) : \E e \in listing : e.digest = c /\ blobs[c] = "good"
      BY <3>2 DEF ImagesInv, Published, Img!Listed
    <3> QED BY <3>1, <3>3 DEF Img!Digests
  <2>3. ~Img!Rotting
    BY DEF Img!Rotting, Img!Rot
  <2> QED BY <2>1, <2>2, <2>3 DEF Img!MirrorNext, Img!Mirroring, Img!Running
<1> QED BY <1>1, MirrorInvariant, PTL DEF Img!MirrorSpec, EnsuredFetchable, Img!EnsuredFetchable
=============================================================================
