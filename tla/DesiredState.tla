---------------------------- MODULE DesiredState ----------------------------
(***************************************************************************)
(* What deployments/index.json promises its readers: one cluster-wide map  *)
(* from deployment keys to deployments, changed one key at a time, in      *)
(* which no two deployments reference the same Service.  Manifest payloads *)
(* are abstracted to the elements of Dep.                                  *)
(***************************************************************************)

CONSTANTS
  Key,        \* <node group>/<name>
  Dep,        \* pairs of a Pod payload and an optional Service payload
  serviceOf,  \* the Service identity a deployment references, or None
  None

VARIABLE desired   \* the committed index; None while the object does not exist

\* Every entry absent.
EmptyIndex == [k \in Key |-> None]

\* A missing object is an empty index.
Entries(i) == IF i = None THEN EmptyIndex ELSE i

\* The Service check of ParseIndex.
UniqueServices(i) ==
  \A k, l \in Key :
    /\ k # l /\ i[k] # None /\ i[l] # None
    => serviceOf[i[k]] = None \/ serviceOf[i[k]] # serviceOf[i[l]]

\* One deployment is set, or removed with d = None.
Commit(k, d) ==
  LET i == [Entries(desired) EXCEPT ![k] = d]
  IN  UniqueServices(i) /\ desired' = i

Init == desired = None
Next == \E k \in Key, d \in Dep \cup {None} : Commit(k, d)
Spec == Init /\ [][Next]_desired
=============================================================================
