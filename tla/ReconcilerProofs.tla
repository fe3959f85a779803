-------------------------- MODULE ReconcilerProofs --------------------------
(***************************************************************************)
(* HealthyConverged and MountsReady for every set of Pods, deployments and *)
(* secrets and any number of changes, faults and restarts.                 *)
(*                                                                         *)
(* Neither is inductive: a call that finds a deployment unchanged does not *)
(* write its files, so the files must have been right since the call that  *)
(* did.  The invariant therefore says what the reconciler may rely on      *)
(* while it is not writing a Pod (MemoryInv, RevisionInv), what a          *)
(* candidate stands for (CandidateInv), and what each rename has achieved  *)
(* (WriteInv).                                                             *)
(***************************************************************************)
EXTENDS Reconciler, TLAPS

\* Most leaves are first-order; SMT is cited where arithmetic or records need it.
USE Zenon

-----------------------------------------------------------------------------
(* The inductive invariant *)

Secret == UNION {secretsOf[d] : d \in Dep}

PC == {"idle", "index", "build", "stage", "confirm", "commit", "secrets", "generations"}

Run == [pc : PC,
        rev : Nat, etag : Index \cup {None}, cand : [Group -> Candidate \cup {None}],
        left : [Group -> 0..4]]

\* Every variable has its type.
TypeOK ==
  /\ index \in Index \cup {None} /\ etag \in Index \cup {None}
  /\ authority \in Nat /\ revision \in Nat /\ issued \in Nat
  /\ healthy \in BOOLEAN
  /\ known \in [Group -> Pod \cup {None}]
  /\ run \in Run
  /\ manifest \in [Group -> Pod \cup {None}]
  /\ link \in [Group -> Generation \cup {None}]
  /\ complete \in [Group -> SUBSET Generation]
  /\ partial \in [Group -> SUBSET Generation]
  /\ secrets \in [Group -> SUBSET Secret]

\* The files of p are those of k.
OnDisk(p, k) ==
  /\ manifest[p] = k /\ link[p] = k.gen /\ k.gen \in complete[p]
  /\ secrets[p] = secretsOf[k.dep]

\* The call in progress has not written or removed a file of p, or will not.
Untouched(p) ==
  \/ ~Writing
  \/ p \in Candidates \ Publishing
  \/ run.pc = "commit" /\ (p \notin Candidates \/ run.left[p] = 4)

\* What the reconciler remembers of a Pod is on disk, unless a failed call wrote it.
MemoryInv == \A p \in Group \ torn : known[p] # None /\ Untouched(p) => OnDisk(p, known[p])

\* All it remembers was issued under the CA revision it remembers.
RevisionInv == \A p \in Group : known[p] # None => known[p].gen.rev = revision

\* What the candidate of p stands for: the entry of the index that was read, to be
\* published under the revision that was read, or unchanged since it was remembered.
CandidateOK(p) ==
  LET c == run.cand[p]
      d == Desired!Entries(run.etag)[p]
  IN  /\ c = None <=> d = None
      /\ c # None => c.dep = d
      /\ c # None /\ ~c.publish =>
           /\ known[p] # None /\ known[p] = [dep |-> d, gen |-> c.gen]
           /\ revision = run.rev
      /\ c # None /\ c.publish => run.rev <= c.gen.rev /\ c.gen.rev <= authority
      /\ Writing /\ c # None /\ c.publish => c.gen.rev = run.rev

\* A call works on a revision of the CA that existed, and its candidates are in order.
CandidateInv ==
  /\ run.pc # "idle" => run.rev <= authority
  /\ run.pc \in {"stage", "confirm"} \/ Writing => \A p \in Group : CandidateOK(p)

\* What the renames of p have achieved.
Renamed(p) ==
  LET c == run.cand[p]
      n == run.left[p]
  IN  /\ p \notin Publishing => n = 0
      /\ p \in Publishing /\ n <= 3 => c.gen \in complete[p]
      /\ p \in Publishing /\ n <= 2 => link[p] = c.gen
      /\ p \in Publishing /\ n <= 1 => secretsOf[c.dep] \subseteq secrets[p]
      /\ p \in Publishing /\ n = 0 => manifest[p] = [dep |-> c.dep, gen |-> c.gen]

\* What cleanup has achieved for p.
Cleaned(p) ==
  /\ run.pc \in {"secrets", "generations"} =>
       run.left[p] = 0 /\ (p \notin Candidates => manifest[p] = None)
  /\ run.pc = "generations" =>
       IF p \in Candidates THEN p \in Publishing => secrets[p] = secretsOf[run.cand[p].dep]
       ELSE link[p] = None /\ secrets[p] = {}

\* A writing call has achieved for every Pod what its progress says.
WriteInv == Writing => \A p \in Group : Renamed(p) /\ Cleaned(p)

\* What a healthy reconciler remembers of its index.
HealthInv ==
  healthy /\ ~Writing =>
    /\ services = ServicesOf(etag)
    /\ \A p \in Group :
         LET d == Desired!Entries(etag)[p]
         IN  IF d = None
             THEN p \in torn \/ (manifest[p] = None /\ link[p] = None /\ secrets[p] = {})
             ELSE known[p] # None /\ known[p].dep = d

\* What the kubelet needs to mount Pod p exists.
Mounts(p) ==
  manifest[p] # None => link[p] \in complete[p] /\ secretsOf[manifest[p].dep] \subseteq secrets[p]

\* The inductive invariant.
ReconcilerInv ==
  TypeOK /\ MemoryInv /\ RevisionInv /\ CandidateInv /\ WriteInv /\ HealthInv /\ MountsReady

-----------------------------------------------------------------------------
(* Types *)

\* The fields of a call that starts or returns.
LEMMA IdleType == Idle \in Run /\ Idle.pc = "idle"
BY SMT DEF Idle, Run, PC

\* A call's record after one of its fields changed.
LEMMA RunFields ==
  ASSUME NEW r \in Run
  PROVE  /\ r.pc \in PC /\ r.rev \in Nat /\ r.etag \in Index \cup {None}
         /\ r.cand \in [Group -> Candidate \cup {None}] /\ r.left \in [Group -> 0..4]
BY SMT DEF Run, PC

\* The next step of a call.
LEMMA RunPc ==
  ASSUME NEW r \in Run, NEW pc \in PC
  PROVE  LET s == [r EXCEPT !.pc = pc]
         IN  s \in Run /\ s.pc = pc /\ s.rev = r.rev /\ s.etag = r.etag /\ s.cand = r.cand /\ s.left = r.left
BY SMT DEF Run, PC

\* The next step with the CA revision read.
LEMMA RunRev ==
  ASSUME NEW r \in Run, NEW pc \in PC, NEW v \in Nat
  PROVE  LET s == [r EXCEPT !.pc = pc, !.rev = v]
         IN  s \in Run /\ s.pc = pc /\ s.rev = v /\ s.etag = r.etag /\ s.cand = r.cand /\ s.left = r.left
<1> DEFINE t == [r EXCEPT !.pc = pc]
<1>1. [r EXCEPT !.pc = pc, !.rev = v] = [t EXCEPT !.rev = v]
  OBVIOUS
<1>2. t \in Run /\ t.pc = pc /\ t.rev = r.rev /\ t.etag = r.etag /\ t.cand = r.cand /\ t.left = r.left
  BY RunPc
<1> HIDE DEF t
<1>3. LET s == [t EXCEPT !.rev = v]
      IN  s \in Run /\ s.pc = t.pc /\ s.rev = v /\ s.etag = t.etag /\ s.cand = t.cand /\ s.left = t.left
  BY <1>2, SMT DEF Run, PC
<1> QED
  BY <1>1, <1>2, <1>3

\* The next step with the index read.
LEMMA RunEtag ==
  ASSUME NEW r \in Run, NEW pc \in PC, NEW v \in Index \cup {None}
  PROVE  LET s == [r EXCEPT !.pc = pc, !.etag = v]
         IN  s \in Run /\ s.pc = pc /\ s.rev = r.rev /\ s.etag = v /\ s.cand = r.cand /\ s.left = r.left
<1> DEFINE t == [r EXCEPT !.pc = pc]
<1>1. [r EXCEPT !.pc = pc, !.etag = v] = [t EXCEPT !.etag = v]
  OBVIOUS
<1>2. t \in Run /\ t.pc = pc /\ t.rev = r.rev /\ t.etag = r.etag /\ t.cand = r.cand /\ t.left = r.left
  BY RunPc
<1> HIDE DEF t
<1>3. LET s == [t EXCEPT !.etag = v]
      IN  s \in Run /\ s.pc = t.pc /\ s.rev = t.rev /\ s.etag = v /\ s.cand = t.cand /\ s.left = t.left
  BY <1>2, SMT DEF Run, PC
<1> QED
  BY <1>1, <1>2, <1>3

\* The next step with the candidates built.
LEMMA RunCand ==
  ASSUME NEW r \in Run, NEW pc \in PC, NEW v \in [Group -> Candidate \cup {None}]
  PROVE  LET s == [r EXCEPT !.pc = pc, !.cand = v]
         IN  s \in Run /\ s.pc = pc /\ s.rev = r.rev /\ s.etag = r.etag /\ s.cand = v /\ s.left = r.left
<1> DEFINE t == [r EXCEPT !.pc = pc]
<1>1. [r EXCEPT !.pc = pc, !.cand = v] = [t EXCEPT !.cand = v]
  OBVIOUS
<1>2. t \in Run /\ t.pc = pc /\ t.rev = r.rev /\ t.etag = r.etag /\ t.cand = r.cand /\ t.left = r.left
  BY RunPc
<1> HIDE DEF t
<1>3. LET s == [t EXCEPT !.cand = v]
      IN  s \in Run /\ s.pc = t.pc /\ s.rev = t.rev /\ s.etag = t.etag /\ s.cand = v /\ s.left = t.left
  BY <1>2, SMT DEF Run, PC
<1> QED
  BY <1>1, <1>2, <1>3

\* The next step with the renames counted.
LEMMA RunLeft ==
  ASSUME NEW r \in Run, NEW pc \in PC, NEW v \in [Group -> 0..4]
  PROVE  LET s == [r EXCEPT !.pc = pc, !.left = v]
         IN  s \in Run /\ s.pc = pc /\ s.rev = r.rev /\ s.etag = r.etag /\ s.cand = r.cand /\ s.left = v
<1> DEFINE t == [r EXCEPT !.pc = pc]
<1>1. [r EXCEPT !.pc = pc, !.left = v] = [t EXCEPT !.left = v]
  OBVIOUS
<1>2. t \in Run /\ t.pc = pc /\ t.rev = r.rev /\ t.etag = r.etag /\ t.cand = r.cand /\ t.left = r.left
  BY RunPc
<1> HIDE DEF t
<1>3. LET s == [t EXCEPT !.left = v]
      IN  s \in Run /\ s.pc = t.pc /\ s.rev = t.rev /\ s.etag = t.etag /\ s.cand = t.cand /\ s.left = v
  BY <1>2, SMT DEF Run, PC
<1> QED
  BY <1>1, <1>2, <1>3

\* One rename fewer is left for a Pod.
LEMMA RunStep ==
  ASSUME NEW r \in Run, NEW p \in Group, r.left[p] > 0
  PROVE  LET s == [r EXCEPT !.left[p] = @ - 1]
         IN  /\ s \in Run /\ s.pc = r.pc /\ s.rev = r.rev /\ s.etag = r.etag /\ s.cand = r.cand
             /\ s.left = [r.left EXCEPT ![p] = r.left[p] - 1]
BY SMT DEF Run

\* A call that returns leaves typed state.
LEMMA ReturnType ==
  ASSUME TypeOK, NEW e \in BOOLEAN, Return(e)
  PROVE  /\ run' \in Run /\ run'.pc = "idle"
         /\ healthy' \in BOOLEAN
         /\ etag' = etag /\ revision' = revision /\ known' = known /\ services' = services
         /\ healthy' => healthy /\ ~e
BY IdleType DEF Return, TypeOK

\* The index stays an index.
LEMMA IndexType ==
  ASSUME NEW i \in Index \cup {None}
  PROVE  /\ Desired!Entries(i) \in Index
         /\ \A p \in Group : Desired!Entries(i)[p] \in Dep \cup {None}
<1>1. Desired!Entries(i) \in Index
  BY SMT DEF Desired!Entries, Desired!EmptyIndex, Index
<1> QED
  BY <1>1, ReconcilerAssumption, SMT DEF Index

\* Where the index is committed, it stays an index.
LEMMA CommitType ==
  ASSUME index \in Index \cup {None}, Desired!Next
  PROVE  index' \in Index
<1>1. PICK k \in Key, d \in Dep \cup {None} : index' = [Desired!Entries(index) EXCEPT ![k] = d]
  BY DEF Desired!Next, Desired!Commit
<1>2. Desired!Entries(index) \in Index
  BY IndexType
<1> QED
  BY <1>1, <1>2, SMT DEF Index

\* A candidate that Build makes.
Built(p, S) ==
  [dep |-> Deployment(p), publish |-> p \in S,
   gen |-> IF p \in S THEN [id |-> issued + 1, rev |-> authority] ELSE known[p].gen]

\* build makes one typed candidate per selected entry.
LEMMA BuildType ==
  ASSUME TypeOK, NEW S, NEW p \in Selected, p \notin S => known[p] # None
  PROVE  Built(p, S) \in Candidate /\ Built(p, S) # None
<1>1. Deployment(p) \in Dep /\ p \in Group
  BY IndexType, RunFields DEF Selected, Deployment, TypeOK
<1>2. [id |-> issued + 1, rev |-> authority] \in Generation
  BY SMT DEF TypeOK, Generation
<1>3. p \notin S => known[p].gen \in Generation
  BY <1>1, SMT DEF TypeOK, Pod
<1>4. ASSUME NEW g \in Generation, NEW b \in BOOLEAN, NEW d \in Dep
      PROVE  [dep |-> d, publish |-> b, gen |-> g] \in Candidate
  BY <1>4, SMT DEF Candidate
<1>5. (p \in S) \in BOOLEAN
  BY SMT
<1>6. Built(p, S) \in Candidate
  <2>1. CASE p \in S
    BY <2>1, <1>1, <1>2, <1>4, <1>5 DEF Built
  <2>2. CASE p \notin S
    BY <2>2, <1>1, <1>3, <1>4, <1>5 DEF Built
  <2> QED
    BY <2>1, <2>2
<1> QED
  BY <1>6, ReconcilerAssumption

\* What build puts into a candidate.
LEMMA BuildFields ==
  ASSUME NEW S, NEW p, NEW c, c = Built(p, S)
  PROVE  /\ c.dep = Deployment(p)
         /\ c.publish <=> p \in S
         /\ p \in S => c.gen.rev = authority
         /\ p \notin S => c.gen = known[p].gen
<1>1. c.dep = Deployment(p)
  BY DEF Built
<1>2. c.publish <=> p \in S
  BY DEF Built
<1>3. p \in S => c.gen.rev = authority
  BY SMT DEF Built
<1>4. p \notin S => c.gen = known[p].gen
  BY DEF Built
<1> QED
  BY <1>1, <1>2, <1>3, <1>4

\* A rename keeps the files' types.
LEMMA RenameType ==
  ASSUME TypeOK, NEW p \in Group, run.cand[p] # None, Rename(p)
  PROVE  /\ manifest' \in [Group -> Pod \cup {None}]
         /\ link' \in [Group -> Generation \cup {None}]
         /\ complete' \in [Group -> SUBSET Generation]
         /\ partial' \in [Group -> SUBSET Generation]
         /\ secrets' \in [Group -> SUBSET Secret]
<1> DEFINE c == run.cand[p]
<1>1. c \in Candidate
  BY RunFields DEF TypeOK
<1>2. c.gen \in Generation /\ c.dep \in Dep
  BY <1>1, SMT DEF Candidate
<1>3. [dep |-> c.dep, gen |-> c.gen] \in Pod
  BY <1>2, SMT DEF Pod
<1>4. secretsOf[c.dep] \subseteq Secret
  BY <1>2 DEF Secret
<1> HIDE DEF c
<1>5. manifest' \in [Group -> Pod \cup {None}]
  BY <1>3, SMT DEF Rename, TypeOK, c
<1>6. link' \in [Group -> Generation \cup {None}]
  BY <1>2, SMT DEF Rename, TypeOK, c
<1>7. complete' \in [Group -> SUBSET Generation]
  BY <1>2, SMT DEF Rename, TypeOK, c
<1>8. partial' \in [Group -> SUBSET Generation]
  BY <1>2, SMT DEF Rename, TypeOK, c
<1>9. secrets' \in [Group -> SUBSET Secret]
  BY <1>4, SMT DEF Rename, TypeOK, c
<1> QED
  BY <1>5, <1>6, <1>7, <1>8, <1>9

\* So do cleanup and pruning.
LEMMA RemoveType ==
  ASSUME TypeOK, NEW done, Remove(done)
  PROVE  /\ link' \in [Group -> Generation \cup {None}]
         /\ complete' \in [Group -> SUBSET Generation]
         /\ partial' \in [Group -> SUBSET Generation]
         /\ secrets' \in [Group -> SUBSET Secret]
<1>1. link' \in [Group -> Generation \cup {None}]
  BY SMT DEF Remove, Only, TypeOK
<1>2. complete' \in [Group -> SUBSET Generation]
  BY SMT DEF Remove, Only, TypeOK
<1>3. partial' \in [Group -> SUBSET Generation]
  BY SMT DEF Remove, Only, TypeOK
<1>4. secrets' \in [Group -> SUBSET Secret]
  BY SMT DEF Remove, TypeOK
<1> QED
  BY <1>1, <1>2, <1>3, <1>4

\* Removing generations leaves typed sets of generations.
LEMMA PruneType ==
  ASSUME TypeOK, NEW done, Prune(done)
  PROVE  /\ complete' \in [Group -> SUBSET Generation]
         /\ partial' \in [Group -> SUBSET Generation]
BY SMT DEF Prune, TypeOK

\* Every step keeps the types.
LEMMA TypeStep ==
  ASSUME TypeOK, WriteInv, Next
  PROVE  TypeOK'
<1> USE RunFields, IdleType
<1>1. CASE Begin
  <2>1. run' \in Run
    BY <1>1, RunRev DEF Begin, TypeOK, PC
  <2> QED
    BY <1>1, <2>1 DEF Begin, TypeOK, world, memory, disk
<1>2. CASE ReadIndex
  <2>1. CASE Current
    BY <1>2, <2>1, ReturnType DEF ReadIndex, TypeOK, world, memory, disk
  <2>2. CASE ~Current
    <3>1. run' \in Run
      <4>1. run' = [run EXCEPT !.pc = "build", !.etag = index]
        BY <1>2, <2>2 DEF ReadIndex
      <4>2. run \in Run /\ index \in Index \cup {None} /\ "build" \in PC
        BY DEF TypeOK, PC
      <4> QED
        BY <4>1, <4>2, RunEtag
    <3> QED
      BY <1>2, <2>2, <3>1 DEF ReadIndex, TypeOK, world, memory, disk
  <2> QED
    BY <2>1, <2>2
<1>3. CASE Build
  <2>1. CASE \E p \in Selected : Deployment(p) \in Broken
    BY <1>3, <2>1, ReturnType DEF Build, TypeOK, world, memory, disk
  <2>2. CASE ~\E p \in Selected : Deployment(p) \in Broken
    <3> DEFINE S == {p \in Selected : Publishes(p)}
               cand == [p \in Group |-> IF p \notin Selected THEN None ELSE Built(p, S)]
    <3>1. \A p \in Selected : p \notin S => known[p] # None
      BY DEF Publishes, Unchanged
    <3>2. cand \in [Group -> Candidate \cup {None}]
      BY <3>1, BuildType
    <3>3. /\ run' = [run EXCEPT !.pc = "stage", !.cand = cand]
          /\ issued' = IF S = {} THEN issued ELSE issued + 1
          /\ UNCHANGED memory
          /\ UNCHANGED <<world, disk, faults>>
      BY <1>3, <2>2 DEF Build, Built
    <3> HIDE DEF S, cand
    <3>4. run' \in Run
      BY <3>2, <3>3, RunCand DEF TypeOK, PC
    <3>5. issued' \in Nat
      BY <3>3, SMT DEF TypeOK
    <3> QED
      BY <3>3, <3>4, <3>5 DEF TypeOK, world, memory, disk
  <2> QED
    BY <2>1, <2>2
<1>4. CASE Stage
  <2>1. ASSUME NEW done \in SUBSET Publishing,
               partial' = [p \in Group |-> partial[p] \cup (IF p \in done THEN {run.cand[p].gen} ELSE {})]
        PROVE  partial' \in [Group -> SUBSET Generation]
    <3>1. ASSUME NEW p \in Group, p \in done PROVE run.cand[p].gen \in Generation
      <4>0. run \in Run /\ run.cand[p] # None
        BY <3>1 DEF Publishing, Candidates, TypeOK
      <4>1. run.cand[p] \in Candidate
        BY <4>0
      <4> QED
        BY <4>1, SMT DEF Candidate
    <3> QED
      BY <2>1, <3>1, SMT DEF TypeOK
  <2>2. partial' \in [Group -> SUBSET Generation]
    BY <1>4, <2>1 DEF Stage
  <2>3. run' \in Run /\ healthy' \in BOOLEAN
    <3>1. CASE run' = [run EXCEPT !.pc = "confirm"] /\ UNCHANGED memory
      BY <3>1, RunPc DEF TypeOK, PC, memory
    <3>2. CASE Return(TRUE)
      BY <3>2, ReturnType
    <3> QED
      BY <1>4, <3>1, <3>2 DEF Stage
  <2>4. etag' = etag /\ revision' = revision /\ known' = known
    BY <1>4 DEF Stage, memory, Return
  <2> QED
    BY <1>4, <2>2, <2>3, <2>4 DEF Stage, TypeOK, world
<1>5. CASE Confirm
  <2>1. CASE Confirmed
    <3>0. [p \in Group |-> IF p \in Publishing THEN 4 ELSE 0] \in [Group -> 0..4]
      BY SMT
    <3>1. run' \in Run
      <4>1. run' = [run EXCEPT !.pc = "commit", !.left = [p \in Group |-> IF p \in Publishing THEN 4 ELSE 0]]
        BY <1>5, <2>1 DEF Confirm
      <4>2. run \in Run /\ "commit" \in PC
        BY DEF TypeOK, PC
      <4> QED
        BY <4>1, <4>2, <3>0, RunLeft
    <3> QED
      BY <1>5, <2>1, <3>1 DEF Confirm, TypeOK, world, memory, disk
  <2>2. CASE ~Confirmed
    BY <1>5, <2>2, ReturnType DEF Confirm, TypeOK, world, memory, disk
  <2> QED
    BY <2>1, <2>2
<1>6. ASSUME NEW p \in Group, CommitFiles(p) PROVE TypeOK'
  <2>0. run.cand[p] # None
    <3>1. run.left[p] # 0
      BY <1>6, SMT DEF CommitFiles
    <3> QED
      BY <1>6, <3>1 DEF CommitFiles, WriteInv, Writing, Renamed, Publishing, Candidates
  <2>1. /\ manifest' \in [Group -> Pod \cup {None}]
        /\ link' \in [Group -> Generation \cup {None}]
        /\ complete' \in [Group -> SUBSET Generation]
        /\ partial' \in [Group -> SUBSET Generation]
        /\ secrets' \in [Group -> SUBSET Secret]
    BY <1>6, <2>0, RenameType DEF CommitFiles, TypeOK
  <2>2. run' \in Run /\ healthy' \in BOOLEAN
    <3>1. CASE run' = [run EXCEPT !.left[p] = @ - 1] /\ UNCHANGED memory
      BY <1>6, <3>1, RunStep DEF CommitFiles, TypeOK, memory
    <3>2. CASE Return(TRUE)
      BY <3>2, ReturnType
    <3> QED
      BY <1>6, <3>1, <3>2 DEF CommitFiles
  <2>3. etag' = etag /\ revision' = revision /\ known' = known
    BY <1>6 DEF CommitFiles, memory, Return
  <2> QED
    BY <1>6, <2>1, <2>2, <2>3 DEF CommitFiles, TypeOK, world
<1>7. CASE CleanupManifests
  <2>1. ASSUME NEW s, manifest' = Only(manifest, s, None)
        PROVE  manifest' \in [Group -> Pod \cup {None}]
    BY <2>1, SMT DEF Only, TypeOK
  <2>2. manifest' \in [Group -> Pod \cup {None}]
    BY <1>7, <2>1 DEF CleanupManifests
  <2>3. run' \in Run /\ healthy' \in BOOLEAN
    <3>1. CASE run' = [run EXCEPT !.pc = "secrets"] /\ UNCHANGED memory
      BY <3>1, RunPc DEF TypeOK, PC, memory
    <3>2. CASE Return(TRUE)
      BY <3>2, ReturnType
    <3> QED
      BY <1>7, <3>1, <3>2 DEF CleanupManifests
  <2>4. etag' = etag /\ revision' = revision /\ known' = known
    BY <1>7 DEF CleanupManifests, memory, Return
  <2> QED
    BY <1>7, <2>2, <2>3, <2>4 DEF CleanupManifests, TypeOK, world
<1>8. CASE CleanupSecrets
  <2>1. \E done : Remove(done)
    BY <1>8 DEF CleanupSecrets
  <2>2. /\ link' \in [Group -> Generation \cup {None}]
        /\ complete' \in [Group -> SUBSET Generation]
        /\ partial' \in [Group -> SUBSET Generation]
        /\ secrets' \in [Group -> SUBSET Secret]
    BY <2>1, RemoveType
  <2>3. run' \in Run /\ healthy' \in BOOLEAN
    <3>1. CASE run' = [run EXCEPT !.pc = "generations"] /\ UNCHANGED memory
      BY <3>1, RunPc DEF TypeOK, PC, memory
    <3>2. CASE Return(TRUE)
      BY <3>2, ReturnType
    <3> QED
      BY <1>8, <3>1, <3>2 DEF CleanupSecrets
  <2>4. etag' = etag /\ revision' = revision /\ known' = known
    BY <1>8 DEF CleanupSecrets, memory, Return
  <2> QED
    BY <1>8, <2>2, <2>3, <2>4 DEF CleanupSecrets, TypeOK, world
<1>9. CASE Finish
  <2>1. \E done : Prune(done)
    BY <1>9 DEF Finish
  <2>2. complete' \in [Group -> SUBSET Generation] /\ partial' \in [Group -> SUBSET Generation]
    BY <2>1, PruneType
  <2>3. run' \in Run /\ healthy' \in BOOLEAN /\ etag' \in Index \cup {None} /\ revision' \in Nat
    <3>1. CASE Return(TRUE)
      BY <3>1, ReturnType DEF TypeOK
    <3>2. CASE ~Return(TRUE)
      <4>1. run' = Idle /\ healthy' = TRUE /\ etag' = run.etag /\ revision' = run.rev
        BY <1>9, <3>2 DEF Finish
      <4> QED
        BY <4>1 DEF TypeOK
    <3> QED
      BY <3>1, <3>2
  <2>4. known' \in [Group -> Pod \cup {None}]
    <3>1. ASSUME NEW p \in Candidates
          PROVE  [dep |-> run.cand[p].dep, gen |-> run.cand[p].gen] \in Pod
      <4>1. run.cand[p] \in Candidate
        BY DEF Candidates, TypeOK
      <4> QED
        BY <4>1, SMT DEF Candidate, Pod
    <3>2. \/ known' = known
          \/ known' = [p \in Group |-> IF p \in Candidates
                         THEN [dep |-> run.cand[p].dep, gen |-> run.cand[p].gen] ELSE None]
      BY <1>9 DEF Finish, Return
    <3>3. known \in [Group -> Pod \cup {None}]
      BY DEF TypeOK
    <3>4. ASSUME known' = [p \in Group |-> IF p \in Candidates
                            THEN [dep |-> run.cand[p].dep, gen |-> run.cand[p].gen] ELSE None]
          PROVE  known' \in [Group -> Pod \cup {None}]
      BY <3>1, <3>4
    <3> QED
      BY <3>2, <3>3, <3>4
  <2> QED
    BY <1>9, <2>2, <2>3, <2>4 DEF Finish, TypeOK, world
<1>10. CASE Fail
  BY <1>10, ReturnType DEF Fail, TypeOK, world, disk
<1>11. CASE Commit
  BY <1>11, CommitType DEF Commit, TypeOK, memory, disk
<1>12. CASE AuthorityChanges
  <2>1. authority' \in Nat
    BY <1>12, SMT DEF AuthorityChanges, TypeOK
  <2> QED
    BY <1>12, <2>1 DEF AuthorityChanges, TypeOK, memory, disk
<1>13. CASE Restart
  <2>1. revision' \in Nat /\ known' \in [Group -> Pod \cup {None}]
    BY <1>13, SMT DEF Restart
  <2> QED
    BY <1>13, <2>1 DEF Restart, TypeOK, world, disk
<1>14. ASSUME NEW p \in Group, Expiring(p) PROVE TypeOK'
  BY <1>14 DEF Expiring, TypeOK, disk
<1> QED
  BY <1>1, <1>2, <1>3, <1>4, <1>5, <1>6, <1>7, <1>8, <1>9, <1>10, <1>11, <1>12, <1>13, <1>14
     DEF Next, Reconcile

-----------------------------------------------------------------------------
(* Steps that write no file the kubelet reads *)

\* Nothing the invariant is about changes, but the CA may.
LEMMA WorldStep ==
  ASSUME ReconcilerInv, TypeOK',
         UNCHANGED <<etag, healthy, revision, known, services, run, manifest, link, complete, secrets, torn>>,
         authority' = authority \/ authority' = authority + 1
  PROVE  ReconcilerInv'
<1>1. ReconcilerInv /\ authority \in Nat
  BY DEF ReconcilerInv, TypeOK
<1>2. /\ etag' = etag /\ healthy' = healthy /\ revision' = revision /\ known' = known
      /\ services' = services /\ run' = run /\ manifest' = manifest /\ link' = link
      /\ complete' = complete /\ secrets' = secrets /\ torn' = torn
  OBVIOUS
<1>3. \A n \in Nat : n <= authority => n <= authority'
  BY <1>1, SMT
<1>4. MemoryInv' /\ RevisionInv' /\ WriteInv'
  <2>1. RevisionInv'
    BY <1>1, <1>2 DEF ReconcilerInv, RevisionInv
  <2>2. MemoryInv'
    BY <1>1, <1>2 DEF ReconcilerInv, MemoryInv, Untouched, OnDisk, Writing, Candidates, Publishing
  <2>3. ASSUME NEW p \in Group, Renamed(p), Cleaned(p) PROVE Renamed(p)' /\ Cleaned(p)'
    <3>1. Candidates' = Candidates /\ Publishing' = Publishing
      BY <1>2 DEF Candidates, Publishing
    <3> QED
      BY <1>2, <2>3, <3>1 DEF Renamed, Cleaned
  <2>4. Writing' = Writing
    BY <1>2 DEF Writing
  <2>5. WriteInv'
    BY <1>1, <2>3, <2>4 DEF ReconcilerInv, WriteInv
  <2> QED
    BY <2>1, <2>2, <2>5
<1>5. HealthInv' /\ MountsReady'
  <2>1. MountsReady'
    BY <1>1, <1>2 DEF ReconcilerInv, MountsReady
  <2>2. Writing' = Writing
    BY <1>2 DEF Writing
  <2>3. HealthInv'
    <3>1. CASE healthy' /\ ~Writing'
      <4>1. healthy /\ ~Writing
        BY <1>2, <2>2, <3>1, SMT
      <4>2. HealthInv
        BY <1>1 DEF ReconcilerInv
      <4>3. services' = ServicesOf(etag)'
        BY <1>2, <4>1, <4>2 DEF HealthInv
      <4> QED
        BY <1>2, <4>1, <4>2, <4>3 DEF HealthInv
    <3> QED
      BY <3>1 DEF HealthInv
  <2> QED
    BY <2>1, <2>3
<1>6. CandidateInv'
  <2>1. run.pc # "idle" => run.rev <= authority'
    BY <1>1, <1>3, RunFields DEF ReconcilerInv, CandidateInv, TypeOK
  <2>2. ASSUME NEW p \in Group, CandidateOK(p) PROVE CandidateOK(p)'
    <3>1. run.cand[p] # None => run.cand[p].gen.rev \in Nat
      <4>1. run.cand[p] \in Candidate \cup {None}
        BY <1>1, RunFields DEF ReconcilerInv, TypeOK
      <4> QED
        BY <4>1, SMT DEF Candidate, Generation
    <3> QED
      BY <1>2, <1>3, <2>2, <3>1 DEF CandidateOK, Writing
  <2> QED
    BY <1>1, <1>2, <2>1, <2>2 DEF ReconcilerInv, CandidateInv, Writing
<1> QED
  BY <1>4, <1>5, <1>6 DEF ReconcilerInv

\* A step of a call before its renames, or its return.
LEMMA QuietStep ==
  ASSUME ReconcilerInv, TypeOK', CandidateInv', ~Writing, ~Writing',
         UNCHANGED <<revision, known, manifest, link, complete, secrets, torn>>,
         healthy' => healthy /\ etag' = etag /\ services' = services
  PROVE  ReconcilerInv'
<1>1. ReconcilerInv
  OBVIOUS
<1>2. /\ revision' = revision /\ known' = known /\ manifest' = manifest /\ link' = link
      /\ complete' = complete /\ secrets' = secrets /\ torn' = torn
  OBVIOUS
<1>3. MemoryInv'
  BY <1>1, <1>2 DEF ReconcilerInv, MemoryInv, Untouched, OnDisk
<1>4. RevisionInv' /\ MountsReady'
  BY <1>1, <1>2 DEF ReconcilerInv, RevisionInv, MountsReady
<1>5. WriteInv'
  BY DEF WriteInv
<1>6. HealthInv'
  <2>1. CASE healthy'
    <3>1. etag' = etag /\ services' = services /\ healthy
      BY <2>1
    <3> QED
      BY <1>1, <1>2, <3>1 DEF ReconcilerInv, HealthInv, ServicesOf
  <2>2. CASE ~healthy'
    BY <2>2 DEF HealthInv
  <2> QED
    BY <2>1, <2>2
<1> QED
  BY <1>3, <1>4, <1>5, <1>6 DEF ReconcilerInv

\* A call that returns before its renames.
LEMMA EarlyReturn ==
  ASSUME ReconcilerInv, TypeOK', ~Writing, NEW e \in BOOLEAN, Return(e),
         UNCHANGED <<manifest, link, complete, secrets, torn>>
  PROVE  ReconcilerInv'
<1>1. TypeOK
  BY DEF ReconcilerInv
<1>2. /\ run'.pc = "idle" /\ revision' = revision /\ known' = known
      /\ healthy' => healthy /\ etag' = etag /\ services' = services
  BY <1>1, ReturnType
<1>3. CandidateInv' /\ ~Writing'
  BY <1>2 DEF CandidateInv, Writing
<1> QED
  BY <1>2, <1>3, QuietStep

\* A call that fails among its renames and removals.
LEMMA LateReturn ==
  ASSUME ReconcilerInv, TypeOK', Return(TRUE),
         \A p \in Group \ torn' : (known[p] # None => OnDisk(p, known[p])') /\ Mounts(p)'
  PROVE  ReconcilerInv'
<1>1. TypeOK /\ RevisionInv
  BY DEF ReconcilerInv
<1>2. run'.pc = "idle" /\ revision' = revision /\ known' = known /\ ~healthy'
  BY <1>1, ReturnType
<1>3. CandidateInv' /\ WriteInv' /\ HealthInv'
  BY <1>2 DEF CandidateInv, WriteInv, HealthInv, Writing
<1>4. MemoryInv'
  BY <1>2 DEF MemoryInv, OnDisk
<1>5. RevisionInv' /\ MountsReady'
  BY <1>1, <1>2 DEF RevisionInv, MountsReady, Mounts
<1> QED
  BY <1>3, <1>4, <1>5 DEF ReconcilerInv

\* Commits of others, the CA and the clock touch nothing of the reconciler's.
LEMMA WorldSteps ==
  ASSUME ReconcilerInv, TypeOK', Commit \/ AuthorityChanges \/ \E p \in Group : Expiring(p)
  PROVE  ReconcilerInv'
<1>1. /\ UNCHANGED <<etag, healthy, revision, known, services, run, manifest, link, complete, secrets, torn>>
      /\ authority' = authority \/ authority' = authority + 1
  BY DEF Commit, AuthorityChanges, Expiring, memory, disk
<1> QED
  BY <1>1, WorldStep

\* A new process remembers nothing, so only the files must be right.
LEMMA RestartStep ==
  ASSUME ReconcilerInv, TypeOK', Restart
  PROVE  ReconcilerInv'
<1>1. /\ run' = Idle /\ healthy' = FALSE /\ known' = [p \in Group |-> None]
      /\ manifest' = manifest /\ link' = link /\ complete' = complete /\ secrets' = secrets /\ torn' = torn
  BY DEF Restart, disk
<1>2. run'.pc = "idle" /\ \A p \in Group : known'[p] = None
  BY <1>1, IdleType
<1>3. CandidateInv' /\ WriteInv' /\ HealthInv'
  BY <1>1, <1>2 DEF CandidateInv, WriteInv, HealthInv, Writing
<1>4. MemoryInv' /\ RevisionInv'
  BY <1>2 DEF MemoryInv, RevisionInv
<1>5. MountsReady'
  BY <1>1 DEF MountsReady, ReconcilerInv
<1> QED
  BY <1>3, <1>4, <1>5 DEF ReconcilerInv

\* A call up to its candidates reads only.
LEMMA ReadSteps ==
  ASSUME ReconcilerInv, TypeOK', Begin \/ ReadIndex \/ Fail
  PROVE  ReconcilerInv'
<1>1. TypeOK /\ authority \in Nat /\ run \in Run /\ index \in Index \cup {None}
  BY DEF ReconcilerInv, TypeOK
<1>2. CASE Begin
  <2>1. run' = [Idle EXCEPT !.pc = "index", !.rev = authority]
    BY <1>2 DEF Begin
  <2>2. run'.pc = "index" /\ run'.rev = authority
    BY <1>1, <2>1, IdleType, SMT DEF Run
  <2>3. authority' = authority /\ authority <= authority
    BY <1>1, <1>2, SMT DEF Begin, world
  <2>4. CandidateInv' /\ ~Writing' /\ ~Writing
    BY <1>2, <2>2, <2>3 DEF CandidateInv, Writing, Begin
  <2> QED
    BY <1>2, <2>4, QuietStep DEF Begin, memory, disk
<1>3. CASE ReadIndex
  <2>1. CASE Current
    BY <1>3, <2>1, EarlyReturn DEF ReadIndex, Writing, disk
  <2>2. CASE ~Current
    <3>1. run' = [run EXCEPT !.pc = "build", !.etag = index] /\ "build" \in PC
      BY <1>3, <2>2 DEF ReadIndex, PC
    <3>2. run'.pc = "build" /\ run'.rev = run.rev
      BY <1>1, <3>1, SMT DEF Run
    <3>3. CandidateInv' /\ ~Writing' /\ ~Writing
      BY <1>3, <3>2 DEF CandidateInv, Writing, ReadIndex, world, ReconcilerInv
    <3> QED
      BY <1>3, <2>2, <3>3, QuietStep DEF ReadIndex, memory, disk
  <2> QED
    BY <2>1, <2>2
<1>4. CASE Fail
  BY <1>4, EarlyReturn DEF Fail, Writing, disk
<1> QED
  BY <1>2, <1>3, <1>4

\* Candidates read the call's index, and the fence is not behind their identities.
LEMMA BuildStep ==
  ASSUME ReconcilerInv, TypeOK', Build
  PROVE  ReconcilerInv'
<1>1. TypeOK /\ run \in Run /\ run.pc = "build" /\ ~Writing /\ CandidateInv
  BY DEF ReconcilerInv, TypeOK, Build, Writing
<1>2. CASE \E p \in Selected : Deployment(p) \in Broken
  BY <1>1, <1>2, EarlyReturn DEF Build, disk
<1>3. CASE ~\E p \in Selected : Deployment(p) \in Broken
  <2> DEFINE S == {p \in Selected : Publishes(p)}
             cand == [p \in Group |-> IF p \notin Selected THEN None ELSE Built(p, S)]
  <2>1. /\ run' = [run EXCEPT !.pc = "stage", !.cand = cand]
        /\ UNCHANGED <<memory, world, disk>>
    BY <1>3 DEF Build, Built
  <2>2. \A p \in Selected : p \notin S => Unchanged(p)
    BY DEF Publishes
  <2>3. \A p \in Group : cand[p] = IF p \notin Selected THEN None ELSE Built(p, S)
    OBVIOUS
  <2> HIDE DEF S, cand
  <2>5. run'.pc = "stage" /\ run'.rev = run.rev /\ run'.etag = run.etag /\ run'.cand = cand
    BY <1>1, <2>1, SMT DEF Run
  <2>6. ~Writing' /\ known' = known /\ revision' = revision /\ authority' = authority
    BY <2>1, <2>5 DEF Writing, memory, world
  <2>7. run.rev <= authority /\ authority <= authority
    <3>1. authority \in Nat
      BY <1>1 DEF TypeOK
    <3> QED
      BY <1>1, <3>1, SMT DEF CandidateInv
  <2>8. ASSUME NEW p \in Group PROVE CandidateOK(p)'
    <3> DEFINE d == Desired!Entries(run.etag)[p]
    <3>1. CASE p \notin Selected
      <4>1. d = None /\ cand[p] = None
        BY <2>3, <3>1 DEF Selected
      <4> QED
        BY <2>5, <4>1 DEF CandidateOK
    <3>2. CASE p \in Selected
      <4>1. d # None /\ Deployment(p) = d
        BY <3>2 DEF Selected, Deployment
      <4>2. cand[p] = Built(p, S) /\ cand[p] # None
        BY <1>1, <2>2, <2>3, <3>2, BuildType DEF Unchanged
      <4>3. cand[p].dep = Deployment(p) /\ (cand[p].publish <=> p \in S)
        BY <4>2, BuildFields
      <4>4. p \in S => cand[p].gen.rev = authority
        BY <4>2, SMT DEF Built
      <4>5. p \notin S => cand[p].gen = known[p].gen
        BY <4>2, BuildFields
      <4>6. CASE p \in S
        <5>1. cand[p].dep = d /\ cand[p].publish /\ cand[p].gen.rev = authority
          BY <4>1, <4>6, <4>3, <4>4
        <5> QED
          BY <2>5, <2>6, <2>7, <4>1, <4>2, <5>1 DEF CandidateOK
      <4>7. CASE p \notin S
        <5>1. cand[p].dep = d /\ ~cand[p].publish /\ cand[p].gen = known[p].gen
          BY <4>1, <4>7, <4>3, <4>5
        <5>2. known[p] # None /\ known[p].dep = d /\ revision = run.rev
          BY <2>2, <3>2, <4>1, <4>7 DEF Unchanged
        <5>3. known[p] = [dep |-> d, gen |-> known[p].gen]
          <6>1. known[p] \in Pod
            BY <1>1, <5>2 DEF TypeOK
          <6> QED
            BY <5>2, <6>1, SMT DEF Pod
        <5> QED
          BY <2>5, <2>6, <4>1, <4>2, <5>1, <5>2, <5>3 DEF CandidateOK
      <4> QED
        BY <4>6, <4>7
    <3> QED
      BY <3>1, <3>2
  <2>9. CandidateInv'
    BY <2>5, <2>6, <2>7, <2>8 DEF CandidateInv
  <2> QED
    BY <1>1, <2>1, <2>6, <2>9, QuietStep DEF memory, disk
<1> QED
  BY <1>2, <1>3

\* stage writes generations that no link selects yet.
LEMMA StageStep ==
  ASSUME ReconcilerInv, TypeOK', Stage
  PROVE  ReconcilerInv'
<1>1. TypeOK /\ run \in Run /\ run.pc = "stage" /\ ~Writing /\ CandidateInv
  BY DEF ReconcilerInv, TypeOK, Stage, Writing
<1>2. CASE Return(TRUE)
  BY <1>1, <1>2, EarlyReturn DEF Stage
<1>3. CASE ~Return(TRUE)
  <2>1. run' = [run EXCEPT !.pc = "confirm"] /\ UNCHANGED memory /\ UNCHANGED world
    BY <1>3 DEF Stage
  <2>2. run'.pc = "confirm" /\ run'.rev = run.rev /\ run'.etag = run.etag /\ run'.cand = run.cand
    BY <1>1, <2>1, SMT DEF Run
  <2>3. ~Writing' /\ known' = known /\ revision' = revision /\ authority' = authority
    BY <2>1, <2>2 DEF Writing, memory, world
  <2>4. ASSUME NEW p \in Group PROVE CandidateOK(p)'
    <3>1. CandidateOK(p)
      BY <1>1 DEF CandidateInv
    <3> QED
      BY <2>2, <2>3, <3>1 DEF CandidateOK
  <2>5. CandidateInv'
    BY <1>1, <2>2, <2>3, <2>4 DEF CandidateInv
  <2> QED
    BY <1>1, <2>1, <2>3, <2>5, QuietStep DEF Stage, memory
<1> QED
  BY <1>2, <1>3

\* The fence: only identities of the call's CA revision are renamed into place.
LEMMA ConfirmStep ==
  ASSUME ReconcilerInv, TypeOK', Confirm
  PROVE  ReconcilerInv'
<1>1. TypeOK /\ run \in Run /\ run.pc = "confirm" /\ ~Writing /\ CandidateInv
  BY DEF ReconcilerInv, TypeOK, Confirm, Writing
<1>2. CASE ~Confirmed
  BY <1>1, <1>2, EarlyReturn DEF Confirm, disk
<1>3. CASE Confirmed
  <2> DEFINE left == [p \in Group |-> IF p \in Publishing THEN 4 ELSE 0]
  <2>1. run' = [run EXCEPT !.pc = "commit", !.left = left] /\ UNCHANGED <<memory, world, disk>>
    BY <1>3 DEF Confirm
  <2>2. \A p \in Group : left[p] = IF p \in Publishing THEN 4 ELSE 0
    OBVIOUS
  <2> HIDE DEF left
  <2>3. /\ run'.pc = "commit" /\ run'.rev = run.rev /\ run'.etag = run.etag
        /\ run'.cand = run.cand /\ run'.left = left
    BY <1>1, <2>1, SMT DEF Run
  <2>4. /\ Writing' /\ known' = known /\ revision' = revision /\ authority' = authority
        /\ manifest' = manifest /\ link' = link /\ complete' = complete /\ secrets' = secrets
        /\ torn' = torn /\ Candidates' = Candidates /\ Publishing' = Publishing
    BY <2>1, <2>3 DEF Writing, memory, world, disk, Candidates, Publishing
  <2>5. CandidateInv'
    <3>1. ASSUME NEW p \in Group PROVE CandidateOK(p)'
      <4>1. CandidateOK(p)
        BY <1>1 DEF CandidateInv
      <4>2. run.cand[p] # None /\ run.cand[p].publish => run.cand[p].gen.rev = run.rev
        <5>1. run.cand[p] # None => run.cand[p].gen.rev \in Nat
          <6>1. run.cand[p] \in Candidate \cup {None}
            BY <1>1, RunFields
          <6> QED
            BY <6>1, SMT DEF Candidate, Generation
        <5>2. authority = run.rev /\ authority \in Nat
          BY <1>1, <1>3 DEF Confirmed, TypeOK
        <5>3. run.cand[p] # None /\ run.cand[p].publish =>
                run.rev <= run.cand[p].gen.rev /\ run.cand[p].gen.rev <= authority
          BY <4>1 DEF CandidateOK
        <5> QED
          BY <5>1, <5>2, <5>3, SMT
      <4> QED
        BY <2>3, <2>4, <4>1, <4>2 DEF CandidateOK
    <3> QED
      BY <1>1, <2>3, <2>4, <3>1 DEF CandidateInv
  <2>6. WriteInv'
    <3>1. ASSUME NEW p \in Group PROVE Renamed(p)' /\ Cleaned(p)'
      <4>1. Cleaned(p)'
        BY <2>3 DEF Cleaned
      <4>2. CASE p \in Publishing
        <5>1. run'.left[p] = 4
          BY <2>2, <2>3, <4>2
        <5>2. ~(run'.left[p] <= 3) /\ ~(run'.left[p] <= 2) /\ ~(run'.left[p] <= 1) /\ run'.left[p] # 0
          BY <5>1, SMT
        <5> QED
          BY <2>4, <4>1, <4>2, <5>2 DEF Renamed
      <4>3. CASE p \notin Publishing
        BY <2>2, <2>3, <2>4, <4>1, <4>3 DEF Renamed
      <4> QED
        BY <4>2, <4>3
    <3> QED
      BY <3>1 DEF WriteInv
  <2>7. MemoryInv'
    BY <1>1, <2>4 DEF ReconcilerInv, MemoryInv, Untouched, OnDisk
  <2>8. RevisionInv' /\ MountsReady'
    BY <2>4 DEF ReconcilerInv, RevisionInv, MountsReady
  <2>9. HealthInv'
    BY <2>4 DEF HealthInv
  <2> QED
    BY <2>5, <2>6, <2>7, <2>8, <2>9 DEF ReconcilerInv
<1> QED
  BY <1>2, <1>3

-----------------------------------------------------------------------------
(* Renames and removals *)

\* A candidate that is not published is the Pod the reconciler remembers, and its
\* files are in place.
LEMMA UnpublishedKept ==
  ASSUME ReconcilerInv, Writing, NEW q \in Candidates \ Publishing
  PROVE  /\ q \in Group /\ known[q] # None /\ revision = run.rev
         /\ known[q] = [dep |-> run.cand[q].dep, gen |-> run.cand[q].gen]
         /\ known[q].dep = run.cand[q].dep /\ known[q].gen = run.cand[q].gen
         /\ q \notin torn => OnDisk(q, known[q])
<1>1. q \in Group /\ run.cand[q] # None /\ ~run.cand[q].publish
  BY DEF Candidates, Publishing
<1>2. CandidateOK(q)
  BY <1>1 DEF ReconcilerInv, CandidateInv
<1>3. known[q] # None /\ revision = run.rev /\ known[q] = [dep |-> run.cand[q].dep, gen |-> run.cand[q].gen]
  BY <1>1, <1>2 DEF CandidateOK
<1>4. q \notin torn => OnDisk(q, known[q])
  BY <1>1, <1>3 DEF ReconcilerInv, MemoryInv, Untouched
<1>5. known[q].dep = run.cand[q].dep /\ known[q].gen = run.cand[q].gen
  BY <1>3, SMT
<1> QED
  BY <1>1, <1>3, <1>4, <1>5

\* A call has at most four renames left for a Pod.
LEMMA LeftType ==
  ASSUME ReconcilerInv, NEW q \in Group
  PROVE  run.left[q] \in 0..4 /\ (q \notin torn => Mounts(q))
<1>1. run.left[q] \in 0..4
  BY RunFields DEF ReconcilerInv, TypeOK
<1>2. q \notin torn => Mounts(q)
  BY DEF ReconcilerInv, MountsReady, Mounts
<1> QED
  BY <1>1, <1>2

\* What a rename does to the files of its Pod, and not to the others.
LEMMA RenameEffect ==
  ASSUME TypeOK, NEW p \in Group, Rename(p)
  PROVE  /\ \A q \in Group \ {p} : /\ manifest'[q] = manifest[q] /\ link'[q] = link[q]
                                   /\ complete'[q] = complete[q] /\ secrets'[q] = secrets[q]
         /\ complete[p] \subseteq complete'[p]
         /\ run.left[p] = 4 => run.cand[p].gen \in complete'[p]
         /\ link'[p] = IF run.left[p] = 3 THEN run.cand[p].gen ELSE link[p]
         /\ secrets[p] \subseteq secrets'[p]
         /\ run.left[p] = 2 => secretsOf[run.cand[p].dep] \subseteq secrets'[p]
         /\ manifest'[p] = IF run.left[p] = 1 THEN [dep |-> run.cand[p].dep, gen |-> run.cand[p].gen]
                           ELSE manifest[p]
<1> DEFINE gen == run.cand[p].gen
           dep == run.cand[p].dep
           n == run.left[p]
<1>1. /\ complete' = IF n = 4 THEN [complete EXCEPT ![p] = @ \cup {gen}] ELSE complete
      /\ link' = IF n = 3 THEN [link EXCEPT ![p] = gen] ELSE link
      /\ secrets' = IF n = 2 THEN [secrets EXCEPT ![p] = @ \cup secretsOf[dep]] ELSE secrets
      /\ manifest' = IF n = 1 THEN [manifest EXCEPT ![p] = [dep |-> dep, gen |-> gen]] ELSE manifest
  BY DEF Rename, CommitOrder
<1>2. /\ complete \in [Group -> SUBSET Generation]
      /\ link \in [Group -> Generation \cup {None}]
      /\ secrets \in [Group -> SUBSET Secret]
      /\ manifest \in [Group -> Pod \cup {None}]
  BY DEF TypeOK
<1> HIDE DEF gen, dep, n
<1>3. /\ \A q \in Group \ {p} : complete'[q] = complete[q]
      /\ complete[p] \subseteq complete'[p]
      /\ n = 4 => gen \in complete'[p]
  BY <1>1, <1>2, SMT
<1>4. /\ \A q \in Group \ {p} : link'[q] = link[q]
      /\ link'[p] = IF n = 3 THEN gen ELSE link[p]
  BY <1>1, <1>2, SMT
<1>5. /\ \A q \in Group \ {p} : secrets'[q] = secrets[q]
      /\ secrets[p] \subseteq secrets'[p]
      /\ n = 2 => secretsOf[dep] \subseteq secrets'[p]
  BY <1>1, <1>2, SMT
<1>6. /\ \A q \in Group \ {p} : manifest'[q] = manifest[q]
      /\ manifest'[p] = IF n = 1 THEN [dep |-> dep, gen |-> gen] ELSE manifest[p]
  BY <1>1, <1>2, SMT
<1> QED
  BY <1>3, <1>4, <1>5, <1>6 DEF gen, dep, n

\* The renamed Pod: the order identity, link, secrets, manifest.
LEMMA RenameOrder ==
  ASSUME ReconcilerInv, NEW p \in Publishing, Writing, Rename(p), run.left[p] > 0
  PROVE  /\ run.cand[p].gen \in complete'[p]
         /\ run.left[p] <= 3 => link'[p] = run.cand[p].gen
         /\ run.left[p] <= 2 => secretsOf[run.cand[p].dep] \subseteq secrets'[p]
         /\ run.left[p] = 1 => manifest'[p] = [dep |-> run.cand[p].dep, gen |-> run.cand[p].gen]
         /\ p \notin torn => Mounts(p)'
<1> DEFINE gen == run.cand[p].gen
           dep == run.cand[p].dep
           n == run.left[p]
           S == secretsOf[dep]
<1>1. p \in Group /\ TypeOK
  BY DEF Publishing, Candidates, ReconcilerInv
<1>2. Renamed(p)
  BY <1>1 DEF ReconcilerInv, WriteInv
<1>3. /\ n <= 3 => gen \in complete[p]
      /\ n <= 2 => link[p] = gen
      /\ n <= 1 => S \subseteq secrets[p]
  BY <1>2 DEF Renamed
<1>4. /\ complete[p] \subseteq complete'[p]
      /\ n = 4 => gen \in complete'[p]
      /\ link'[p] = IF n = 3 THEN gen ELSE link[p]
      /\ secrets[p] \subseteq secrets'[p]
      /\ n = 2 => S \subseteq secrets'[p]
      /\ manifest'[p] = IF n = 1 THEN [dep |-> dep, gen |-> gen] ELSE manifest[p]
  BY <1>1, RenameEffect
<1>5. n \in 1..4
  <2>1. n \in 0..4
    BY <1>1, LeftType, RunFields DEF TypeOK
  <2> QED
    BY <2>1, SMT
<1>6. [dep |-> dep, gen |-> gen].dep = dep
  OBVIOUS
<1> DEFINE m == [dep |-> dep, gen |-> gen]
<1>7. p \notin torn => (manifest[p] # None => link[p] \in complete[p] /\ secretsOf[manifest[p].dep] \subseteq secrets[p])
  BY <1>1 DEF ReconcilerInv, MountsReady
<1> HIDE DEF gen, dep, n, S, m
<1>8. gen \in complete'[p] /\ (n <= 3 => link'[p] = gen) /\ (n <= 2 => S \subseteq secrets'[p])
  BY <1>3, <1>4, <1>5, SMT
<1>9. ASSUME p \notin torn, manifest'[p] # None
      PROVE  link'[p] \in complete'[p] /\ secretsOf[manifest'[p].dep] \subseteq secrets'[p]
  <2>1. CASE n = 1
    <3>1. manifest'[p].dep = dep /\ n <= 2 /\ n <= 3
      BY <1>4, <1>6, <2>1, SMT
    <3> QED
      BY <1>8, <3>1 DEF S
  <2>2. CASE n # 1
    <3>1. manifest'[p] = manifest[p] /\ link[p] \in complete[p] /\ secretsOf[manifest[p].dep] \subseteq secrets[p]
      BY <1>4, <1>7, <1>9, <2>2
    <3>2. link'[p] = gen \/ link'[p] = link[p]
      BY <1>4
    <3> QED
      BY <1>4, <1>8, <3>1, <3>2
  <2> QED
    BY <2>1, <2>2
<1>10. p \notin torn => Mounts(p)'
  BY <1>9 DEF Mounts
<1> QED
  BY <1>4, <1>8, <1>10 DEF gen, dep, n, S

\* One rename, or a rename that fails.
LEMMA CommitFilesStep ==
  ASSUME ReconcilerInv, TypeOK', NEW p \in Group, CommitFiles(p)
  PROVE  ReconcilerInv'
<1>1. TypeOK /\ run \in Run /\ run.pc = "commit" /\ Writing /\ run.left[p] > 0
  BY DEF ReconcilerInv, TypeOK, CommitFiles, Writing
<1>2. p \in Publishing
  <2>1. run.left[p] # 0
    BY <1>1, SMT
  <2> QED
    BY <1>1, <2>1 DEF ReconcilerInv, WriteInv, Renamed
<1>3. CASE Return(TRUE)
  <2>1. /\ torn' = torn \cup {p} \cup {q \in Publishing : run.left[q] = 0}
        /\ Rename(p) \/ UNCHANGED <<manifest, link, complete, partial, secrets>>
    <3>1. run' # [run EXCEPT !.left[p] = @ - 1]
      <4>1. run'.pc = "idle"
        BY <1>1, <1>3, ReturnType
      <4>2. [run EXCEPT !.left[p] = @ - 1].pc = "commit"
        BY <1>1, SMT DEF Run
      <4> QED
        BY <4>1, <4>2
    <3> QED
      BY <3>1 DEF CommitFiles
  <2>2. ASSUME NEW q \in Group \ torn'
        PROVE  (known[q] # None => OnDisk(q, known[q])') /\ Mounts(q)'
    <3>1. q # p /\ q \notin torn /\ (q \in Publishing => run.left[q] # 0)
      BY <2>1
    <3>2. /\ manifest'[q] = manifest[q] /\ link'[q] = link[q]
          /\ complete'[q] = complete[q] /\ secrets'[q] = secrets[q]
      BY <1>1, <2>1, <3>1, RenameEffect
    <3>3. run.left[q] \in {0, 4}
      BY <3>1 DEF CommitFiles
    <3>4. Untouched(q)
      BY <1>1, <3>1, <3>3 DEF Untouched
    <3>5. known[q] # None => OnDisk(q, known[q])
      BY <3>1, <3>4 DEF ReconcilerInv, MemoryInv
    <3>6. Mounts(q)
      BY <3>1, LeftType
    <3>7. known' = known
      BY <1>1, <1>3, ReturnType
    <3> QED
      BY <3>2, <3>5, <3>6, <3>7 DEF OnDisk, Mounts
  <2> QED
    BY <1>3, <2>2, LateReturn
<1>4. CASE ~Return(TRUE)
  <2>1. Rename(p) /\ run' = [run EXCEPT !.left[p] = @ - 1] /\ UNCHANGED <<memory, torn, world>>
    BY <1>4 DEF CommitFiles
  <2>2. /\ run'.pc = "commit" /\ run'.rev = run.rev /\ run'.etag = run.etag /\ run'.cand = run.cand
        /\ run'.left[p] = run.left[p] - 1
        /\ \A q \in Group \ {p} : run'.left[q] = run.left[q]
    BY <1>1, <2>1, SMT DEF Run
  <2>3. /\ Writing' /\ known' = known /\ revision' = revision /\ authority' = authority
        /\ torn' = torn /\ Candidates' = Candidates /\ Publishing' = Publishing
    BY <2>1, <2>2 DEF Writing, memory, world, Candidates, Publishing
  <2>4. \A q \in Group \ {p} : /\ manifest'[q] = manifest[q] /\ link'[q] = link[q]
                               /\ complete'[q] = complete[q] /\ secrets'[q] = secrets[q]
    BY <1>1, <2>1, RenameEffect
  <2>5. run.left[p] \in 1..4
    <3>1. run.left[p] \in 0..4
      BY LeftType
    <3> QED
      BY <1>1, <3>1, SMT
  <2>6. CandidateInv'
    <3>1. ASSUME NEW q \in Group PROVE CandidateOK(q)'
      <4>1. CandidateOK(q)
        BY <1>1 DEF ReconcilerInv, CandidateInv
      <4> QED
        BY <1>1, <2>2, <2>3, <4>1 DEF CandidateOK
    <3> QED
      BY <1>1, <2>2, <2>3, <3>1 DEF ReconcilerInv, CandidateInv
  <2>7. WriteInv'
    <3>1. ASSUME NEW q \in Group PROVE Renamed(q)'
      <4>1. CASE q # p
        <5>1. Renamed(q)
          BY <1>1 DEF ReconcilerInv, WriteInv
        <5> QED
          BY <2>2, <2>3, <2>4, <4>1, <5>1 DEF Renamed
      <4>2. CASE q = p
        <5> DEFINE n == run.left[p]
        <5>1. /\ run.cand[p].gen \in complete'[p]
              /\ n <= 3 => link'[p] = run.cand[p].gen
              /\ n <= 2 => secretsOf[run.cand[p].dep] \subseteq secrets'[p]
              /\ n = 1 => manifest'[p] = [dep |-> run.cand[p].dep, gen |-> run.cand[p].gen]
          BY <1>1, <1>2, <2>1, RenameOrder
        <5>2. (n - 1 <= 2 => n <= 3) /\ (n - 1 <= 1 => n <= 2) /\ (n - 1 = 0 => n = 1)
          BY <2>5, SMT
        <5> QED
          BY <1>2, <2>2, <2>3, <4>2, <5>1, <5>2 DEF Renamed
      <4> QED
        BY <4>1, <4>2
    <3> QED
      BY <2>2, <3>1 DEF WriteInv, Cleaned
  <2>8. MemoryInv'
    <3>1. ASSUME NEW q \in Group \ torn', known'[q] # None, Untouched(q)'
          PROVE  OnDisk(q, known[q])'
      <4>1. q # p
        <5>1. run'.left[p] # 4
          BY <2>2, <2>5, SMT
        <5> QED
          BY <1>2, <2>3, <3>1, <5>1 DEF Untouched, Publishing
      <4>2. Untouched(q)
        BY <1>1, <2>2, <2>3, <3>1, <4>1 DEF Untouched
      <4>3. OnDisk(q, known[q])
        BY <2>3, <3>1, <4>2 DEF ReconcilerInv, MemoryInv
      <4> QED
        BY <2>3, <2>4, <4>1, <4>3 DEF OnDisk
    <3> QED
      BY <3>1 DEF MemoryInv
  <2>9. MountsReady'
    <3>1. ASSUME NEW q \in Group \ torn' PROVE Mounts(q)'
      <4>1. CASE q = p
        BY <1>1, <1>2, <2>1, <2>3, <4>1, RenameOrder
      <4>2. CASE q # p
        <5>1. Mounts(q)
          BY <2>3, LeftType
        <5> QED
          BY <2>4, <4>2, <5>1 DEF Mounts
      <4> QED
        BY <4>1, <4>2
    <3> QED
      BY <3>1 DEF MountsReady, Mounts
  <2>10. RevisionInv' /\ HealthInv'
    BY <2>3 DEF ReconcilerInv, RevisionInv, HealthInv
  <2> QED
    BY <2>6, <2>7, <2>8, <2>9, <2>10 DEF ReconcilerInv
<1> QED
  BY <1>3, <1>4

\* A removal that fails: only Pods that are not published keep their files for sure.
LEMMA TornStep ==
  ASSUME ReconcilerInv, TypeOK', Writing, Return(TRUE), Tear,
         \A q \in Candidates \ Publishing :
           /\ manifest'[q] = manifest[q] /\ link'[q] = link[q]
           /\ run.cand[q].gen \in complete[q] => run.cand[q].gen \in complete'[q]
           /\ secrets[q] = secretsOf[run.cand[q].dep] => secrets'[q] = secrets[q]
  PROVE  ReconcilerInv'
<1>1. known' = known
  BY ReturnType DEF ReconcilerInv
<1>2. ASSUME NEW q \in Group \ torn'
      PROVE  (known[q] # None => OnDisk(q, known[q])') /\ Mounts(q)'
  <2>1. q \in Candidates \ Publishing /\ q \notin torn
    BY DEF Tear
  <2>2. known[q] = [dep |-> run.cand[q].dep, gen |-> run.cand[q].gen] /\ OnDisk(q, known[q])
    BY <2>1, UnpublishedKept
  <2>3. known[q].gen = run.cand[q].gen /\ known[q].dep = run.cand[q].dep
    BY <2>1, UnpublishedKept
  <2>4. OnDisk(q, known[q])'
    BY <1>1, <2>1, <2>2, <2>3 DEF OnDisk
  <2>5. Mounts(q)'
    BY <2>4 DEF OnDisk, Mounts
  <2> QED
    BY <2>4, <2>5
<1> QED
  BY <1>2, LateReturn

\* cleanup removes the manifests of other Pods before what they mount.
LEMMA CleanupManifestsStep ==
  ASSUME ReconcilerInv, TypeOK', CleanupManifests
  PROVE  ReconcilerInv'
<1>1. TypeOK /\ run \in Run /\ run.pc = "commit" /\ Writing /\ \A p \in Group : run.left[p] = 0
  BY DEF ReconcilerInv, TypeOK, CleanupManifests, Writing
<1>2. link' = link /\ complete' = complete /\ secrets' = secrets /\ UNCHANGED world
  BY DEF CleanupManifests
<1>3. CASE Return(TRUE)
  <2>1. run' # [run EXCEPT !.pc = "secrets"]
    <3>1. run'.pc = "idle"
      BY <1>1, <1>3, ReturnType
    <3>2. [run EXCEPT !.pc = "secrets"].pc = "secrets"
      BY <1>1, SMT DEF Run
    <3> QED
      BY <3>1, <3>2
  <2>2. Tear /\ \E s \in SUBSET Group : Candidates \subseteq s /\ manifest' = Only(manifest, s, None)
    BY <2>1 DEF CleanupManifests
  <2>3. \A q \in Candidates \ Publishing : manifest'[q] = manifest[q]
    BY <2>2 DEF Only, Candidates
  <2> QED
    BY <1>1, <1>2, <1>3, <2>2, <2>3, TornStep
<1>4. CASE ~Return(TRUE)
  <2>1. /\ manifest' = Only(manifest, Candidates, None) /\ run' = [run EXCEPT !.pc = "secrets"]
        /\ UNCHANGED <<memory, torn>>
    BY <1>4 DEF CleanupManifests
  <2>2. /\ run'.pc = "secrets" /\ run'.rev = run.rev /\ run'.etag = run.etag
        /\ run'.cand = run.cand /\ run'.left = run.left
    BY <1>1, <2>1, SMT DEF Run
  <2>3. /\ Writing' /\ known' = known /\ revision' = revision /\ authority' = authority
        /\ torn' = torn /\ Candidates' = Candidates /\ Publishing' = Publishing
    BY <1>2, <2>1, <2>2 DEF Writing, memory, world, Candidates, Publishing
  <2>4. \A q \in Group : manifest'[q] = IF q \in Candidates THEN manifest[q] ELSE None
    BY <2>1 DEF Only
  <2>5. CandidateInv'
    <3>1. ASSUME NEW q \in Group PROVE CandidateOK(q)'
      <4>1. CandidateOK(q)
        BY <1>1 DEF ReconcilerInv, CandidateInv
      <4> QED
        BY <1>1, <2>2, <2>3, <4>1 DEF CandidateOK
    <3> QED
      BY <1>1, <2>2, <2>3, <3>1 DEF ReconcilerInv, CandidateInv
  <2>6. WriteInv'
    <3>1. ASSUME NEW q \in Group PROVE Renamed(q)' /\ Cleaned(q)'
      <4>1. Renamed(q)
        BY <1>1 DEF ReconcilerInv, WriteInv
      <4>2. Renamed(q)'
        <5>1. q \in Publishing => manifest'[q] = manifest[q]
          BY <2>4 DEF Publishing
        <5> QED
          BY <1>2, <2>2, <2>3, <4>1, <5>1 DEF Renamed
      <4>3. Cleaned(q)'
        BY <1>1, <2>2, <2>3, <2>4 DEF Cleaned
      <4> QED
        BY <4>2, <4>3
    <3> QED
      BY <3>1 DEF WriteInv
  <2>7. MemoryInv'
    <3>1. ASSUME NEW q \in Group \ torn', known'[q] # None, Untouched(q)'
          PROVE  OnDisk(q, known[q])'
      <4>1. q \in Candidates \ Publishing
        BY <2>2, <2>3, <3>1 DEF Untouched
      <4>2. OnDisk(q, known[q])
        BY <1>1, <2>3, <3>1, <4>1, UnpublishedKept
      <4> QED
        BY <1>2, <2>3, <2>4, <4>1, <4>2 DEF OnDisk
    <3> QED
      BY <3>1 DEF MemoryInv
  <2>8. MountsReady'
    <3>1. ASSUME NEW q \in Group \ torn' PROVE Mounts(q)'
      <4>1. Mounts(q)
        BY <2>3, LeftType
      <4> QED
        BY <1>2, <2>4, <4>1 DEF Mounts
    <3> QED
      BY <3>1 DEF MountsReady, Mounts
  <2>9. RevisionInv' /\ HealthInv'
    BY <2>3 DEF ReconcilerInv, RevisionInv, HealthInv
  <2> QED
    BY <2>5, <2>6, <2>7, <2>8, <2>9 DEF ReconcilerInv
<1> QED
  BY <1>3, <1>4

\* What cleanup removes of a Pod.
LEMMA RemoveEffect ==
  ASSUME TypeOK, NEW done \in SUBSET Group, Remove(done), NEW q \in Group
  PROVE  /\ q \in Candidates =>
              /\ link'[q] = link[q] /\ complete'[q] = complete[q]
              /\ secrets'[q] = IF q \in done THEN secrets[q] \cap secretsOf[run.cand[q].dep] ELSE secrets[q]
         /\ q \notin Candidates /\ q \in done => link'[q] = None /\ secrets'[q] = {}
<1>1. q \in Candidates => link'[q] = link[q] /\ complete'[q] = complete[q]
  BY DEF Remove, Only
<1>2. q \in Candidates =>
        secrets'[q] = IF q \in done THEN secrets[q] \cap secretsOf[run.cand[q].dep] ELSE secrets[q]
  BY DEF Remove
<1>3. q \notin Candidates /\ q \in done => link'[q] = None /\ secrets'[q] = {}
  BY DEF Remove, Only
<1> QED
  BY <1>1, <1>2, <1>3

\* cleanup then removes the links and secrets that no manifest names.
LEMMA CleanupSecretsStep ==
  ASSUME ReconcilerInv, TypeOK', CleanupSecrets
  PROVE  ReconcilerInv'
<1>1. TypeOK /\ run \in Run /\ run.pc = "secrets" /\ Writing
  BY DEF ReconcilerInv, TypeOK, CleanupSecrets, Writing
<1>2. manifest' = manifest /\ UNCHANGED world
  BY DEF CleanupSecrets
<1>3. CASE Return(TRUE)
  <2>1. run' # [run EXCEPT !.pc = "generations"]
    <3>1. run'.pc = "idle"
      BY <1>1, <1>3, ReturnType
    <3>2. [run EXCEPT !.pc = "generations"].pc = "generations"
      BY <1>1, SMT DEF Run
    <3> QED
      BY <3>1, <3>2
  <2>2. PICK done \in SUBSET Group : Tear /\ Remove(done)
    BY <2>1 DEF CleanupSecrets
  <2>3. ASSUME NEW q \in Candidates \ Publishing
        PROVE  /\ link'[q] = link[q] /\ complete'[q] = complete[q]
               /\ secrets[q] = secretsOf[run.cand[q].dep] => secrets'[q] = secrets[q]
    <3>1. q \in Group /\ q \in Candidates /\ TypeOK /\ Remove(done)
      BY <1>1, <2>2 DEF Candidates
    <3>2. /\ link'[q] = link[q] /\ complete'[q] = complete[q]
          /\ secrets'[q] = IF q \in done THEN secrets[q] \cap secretsOf[run.cand[q].dep] ELSE secrets[q]
      BY <3>1, RemoveEffect
    <3> QED
      BY <3>2
  <2> QED
    BY <1>1, <1>2, <1>3, <2>2, <2>3, TornStep
<1>4. CASE ~Return(TRUE)
  <2>1. Remove(Group) /\ run' = [run EXCEPT !.pc = "generations"] /\ UNCHANGED <<memory, torn>>
    BY <1>4 DEF CleanupSecrets
  <2>2. /\ run'.pc = "generations" /\ run'.rev = run.rev /\ run'.etag = run.etag
        /\ run'.cand = run.cand /\ run'.left = run.left
    BY <1>1, <2>1, SMT DEF Run
  <2>3. /\ Writing' /\ known' = known /\ revision' = revision /\ authority' = authority
        /\ torn' = torn /\ Candidates' = Candidates /\ Publishing' = Publishing
    BY <1>2, <2>1, <2>2 DEF Writing, memory, world, Candidates, Publishing
  <2>4. ASSUME NEW q \in Group
        PROVE  /\ q \in Candidates => /\ link'[q] = link[q] /\ complete'[q] = complete[q]
                                      /\ secrets'[q] = secrets[q] \cap secretsOf[run.cand[q].dep]
               /\ q \notin Candidates => link'[q] = None /\ secrets'[q] = {}
    BY <1>1, <2>1, RemoveEffect
  <2>5. CandidateInv'
    <3>1. ASSUME NEW q \in Group PROVE CandidateOK(q)'
      <4>1. CandidateOK(q)
        BY <1>1 DEF ReconcilerInv, CandidateInv
      <4> QED
        BY <1>1, <2>2, <2>3, <4>1 DEF CandidateOK
    <3> QED
      BY <1>1, <2>2, <2>3, <3>1 DEF ReconcilerInv, CandidateInv
  <2>6. ASSUME NEW q \in Group PROVE Renamed(q) /\ run.left[q] = 0 /\ (q \notin Candidates => manifest[q] = None)
    BY <1>1 DEF ReconcilerInv, WriteInv, Cleaned
  <2>7. ASSUME NEW q \in Publishing
        PROVE  /\ run.cand[q].gen \in complete[q] /\ link[q] = run.cand[q].gen
               /\ secretsOf[run.cand[q].dep] \subseteq secrets[q]
               /\ manifest[q] = [dep |-> run.cand[q].dep, gen |-> run.cand[q].gen]
               /\ manifest[q].dep = run.cand[q].dep
    <3>1. q \in Group
      BY DEF Publishing, Candidates
    <3>2. Renamed(q) /\ run.left[q] = 0
      BY <2>6, <3>1
    <3>3. run.left[q] <= 3 /\ run.left[q] <= 2 /\ run.left[q] <= 1
      BY <3>2, SMT
    <3>4. manifest[q] = [dep |-> run.cand[q].dep, gen |-> run.cand[q].gen]
      BY <3>2 DEF Renamed
    <3>5. manifest[q].dep = run.cand[q].dep
      BY <3>4, SMT
    <3> QED
      BY <3>2, <3>3, <3>4, <3>5 DEF Renamed
  <2>8. WriteInv'
    <3>1. ASSUME NEW q \in Group PROVE Renamed(q)' /\ Cleaned(q)'
      <4>1. CASE q \in Publishing
        <5>1. /\ link'[q] = link[q] /\ complete'[q] = complete[q]
              /\ secrets'[q] = secretsOf[run.cand[q].dep]
          <6>1. /\ link'[q] = link[q] /\ complete'[q] = complete[q]
                /\ secrets'[q] = secrets[q] \cap secretsOf[run.cand[q].dep]
            BY <2>4, <4>1 DEF Publishing
          <6>2. secretsOf[run.cand[q].dep] \subseteq secrets[q]
            BY <2>7, <4>1
          <6> QED
            BY <6>1, <6>2
        <5>2. Cleaned(q)'
          <6>1. q \in Candidates
            BY <4>1 DEF Publishing
          <6> QED
            BY <2>2, <2>3, <2>6, <5>1, <6>1 DEF Cleaned
        <5>3. Renamed(q)'
          BY <1>2, <2>2, <2>3, <2>7, <4>1, <5>1 DEF Renamed
        <5> QED
          BY <5>2, <5>3
      <4>2. CASE q \notin Publishing
        <5>1. Renamed(q)'
          BY <2>2, <2>3, <2>6, <4>2 DEF Renamed
        <5>2. Cleaned(q)'
          BY <1>2, <2>2, <2>3, <2>4, <2>6, <4>2 DEF Cleaned
        <5> QED
          BY <5>1, <5>2
      <4> QED
        BY <4>1, <4>2
    <3> QED
      BY <3>1 DEF WriteInv
  <2>9. ASSUME NEW q \in Candidates \ Publishing, q \notin torn PROVE OnDisk(q, known[q])'
    <3>1. q \in Group /\ known[q] = [dep |-> run.cand[q].dep, gen |-> run.cand[q].gen] /\ OnDisk(q, known[q])
      BY <1>1, <2>9, UnpublishedKept
    <3>2. known[q].dep = run.cand[q].dep
      BY <1>1, UnpublishedKept
    <3>3. /\ link'[q] = link[q] /\ complete'[q] = complete[q]
          /\ secrets'[q] = secrets[q] \cap secretsOf[run.cand[q].dep]
      BY <2>4, <3>1
    <3>4. secrets[q] = secretsOf[run.cand[q].dep]
      BY <3>1, <3>2 DEF OnDisk
    <3>5. secrets'[q] = secrets[q]
      BY <3>3, <3>4
    <3> QED
      BY <1>2, <2>3, <3>1, <3>3, <3>5 DEF OnDisk
  <2>10. MemoryInv'
    BY <2>2, <2>3, <2>9 DEF MemoryInv, Untouched
  <2>11. MountsReady'
    <3>1. ASSUME NEW q \in Group \ torn' PROVE Mounts(q)'
      <4>1. CASE q \notin Candidates
        BY <1>2, <2>6, <4>1 DEF Mounts
      <4>2. CASE q \in Publishing
        <5>1. /\ link'[q] = link[q] /\ complete'[q] = complete[q]
              /\ secrets'[q] = secrets[q] \cap secretsOf[run.cand[q].dep]
          BY <2>4, <4>2 DEF Publishing
        <5>2. /\ run.cand[q].gen \in complete[q] /\ link[q] = run.cand[q].gen
              /\ secretsOf[run.cand[q].dep] \subseteq secrets[q]
              /\ manifest[q].dep = run.cand[q].dep
          BY <2>7, <4>2
        <5> QED
          BY <1>2, <5>1, <5>2 DEF Mounts
      <4>3. CASE q \in Candidates \ Publishing
        BY <2>3, <2>9, <4>3 DEF OnDisk, Mounts
      <4> QED
        BY <4>1, <4>2, <4>3
    <3> QED
      BY <3>1 DEF MountsReady, Mounts
  <2>12. RevisionInv' /\ HealthInv'
    BY <2>3 DEF ReconcilerInv, RevisionInv, HealthInv
  <2> QED
    BY <2>5, <2>8, <2>10, <2>11, <2>12 DEF ReconcilerInv
<1> QED
  BY <1>3, <1>4

\* Pruning keeps a candidate's own generation.
LEMMA PruneEffect ==
  ASSUME TypeOK, NEW done, Prune(done), NEW q \in Group, run.cand[q].gen \in complete[q]
  PROVE  run.cand[q].gen \in complete'[q]
BY DEF Prune, Retained

\* The call ends: its candidates are what the reconciler remembers.
LEMMA FinishStep ==
  ASSUME ReconcilerInv, TypeOK', Finish
  PROVE  ReconcilerInv'
<1>1. TypeOK /\ run \in Run /\ run.pc = "generations" /\ Writing
  BY DEF ReconcilerInv, TypeOK, Finish, Writing
<1>2. manifest' = manifest /\ link' = link /\ secrets' = secrets
  BY DEF Finish
<1>3. CASE Tear /\ Return(TRUE)
  <2>1. \E done : Prune(done)
    BY DEF Finish
  <2>2. ASSUME NEW q \in Candidates \ Publishing, run.cand[q].gen \in complete[q]
        PROVE  run.cand[q].gen \in complete'[q]
    BY <1>1, <2>1, <2>2, PruneEffect DEF Candidates
  <2> QED
    BY <1>1, <1>2, <1>3, <2>2, TornStep
<1>4. CASE ~(Tear /\ Return(TRUE))
  <2>1. /\ Prune(Candidates)
        /\ services' = {serviceOf[run.cand[p].dep] : p \in Candidates} \ {None}
        /\ known' = [p \in Group |-> IF p \in Candidates
                       THEN [dep |-> run.cand[p].dep, gen |-> run.cand[p].gen] ELSE None]
        /\ revision' = run.rev
        /\ etag' = run.etag
        /\ run' = Idle
        /\ torn' = torn \cap (Candidates \ Publishing)
    BY <1>4 DEF Finish
  <2>2. run'.pc = "idle" /\ ~Writing'
    BY <2>1, IdleType DEF Writing
  <2>3. \A q \in Group : known'[q] = IF q \in Candidates
                           THEN [dep |-> run.cand[q].dep, gen |-> run.cand[q].gen] ELSE None
    BY <2>1
  <2>4. ASSUME NEW q \in Candidates
        PROVE  /\ q \in Group /\ known'[q] # None /\ run.cand[q].gen.rev = run.rev
               /\ known'[q].dep = run.cand[q].dep /\ known'[q].gen = run.cand[q].gen
    <3>1. q \in Group /\ run.cand[q] # None
      BY DEF Candidates
    <3>2. known'[q] = [dep |-> run.cand[q].dep, gen |-> run.cand[q].gen]
      BY <2>3, <3>1
    <3>3. known'[q].dep = run.cand[q].dep /\ known'[q].gen = run.cand[q].gen
      BY <3>2, SMT
    <3>4. known'[q] # None
      <4>1. run.cand[q] \in Candidate
        BY <1>1, <3>1, RunFields
      <4>2. [dep |-> run.cand[q].dep, gen |-> run.cand[q].gen] \in Pod
        BY <4>1, SMT DEF Candidate, Pod
      <4> QED
        BY <3>2, <4>2, ReconcilerAssumption
    <3>5. run.cand[q].gen.rev = run.rev
      <4>1. CASE q \in Publishing
        BY <1>1, <3>1, <4>1 DEF ReconcilerInv, CandidateInv, CandidateOK, Publishing
      <4>2. CASE q \notin Publishing
        <5>1. known[q] # None /\ known[q].gen = run.cand[q].gen /\ revision = run.rev
          BY <1>1, <4>2, UnpublishedKept
        <5> QED
          BY <3>1, <5>1 DEF ReconcilerInv, RevisionInv
      <4> QED
        BY <4>1, <4>2
    <3> QED
      BY <3>1, <3>3, <3>4, <3>5
  <2>5. ASSUME NEW q \in Candidates, q \notin torn' PROVE OnDisk(q, known[q])'
    <3> DEFINE c == run.cand[q]
    <3>1. /\ q \in Group /\ known'[q] = [dep |-> c.dep, gen |-> c.gen]
          /\ known'[q].dep = c.dep /\ known'[q].gen = c.gen
      BY <2>3, <2>4
    <3>2. /\ manifest[q] = [dep |-> c.dep, gen |-> c.gen]
          /\ link[q] = c.gen /\ c.gen \in complete[q] /\ secrets[q] = secretsOf[c.dep]
      <4>1. CASE q \in Publishing
        <5>1. Renamed(q) /\ Cleaned(q)
          BY <1>1, <3>1 DEF ReconcilerInv, WriteInv
        <5>2. run.left[q] = 0 /\ secrets[q] = secretsOf[c.dep]
          BY <1>1, <4>1, <5>1 DEF Cleaned
        <5>3. run.left[q] <= 3 /\ run.left[q] <= 2
          BY <5>2, SMT
        <5> QED
          BY <4>1, <5>1, <5>2, <5>3 DEF Renamed
      <4>2. CASE q \notin Publishing
        <5>1. q \notin torn
          BY <2>1, <2>5, <4>2
        <5>2. /\ OnDisk(q, known[q]) /\ known[q] = [dep |-> c.dep, gen |-> c.gen]
              /\ known[q].dep = c.dep /\ known[q].gen = c.gen
          BY <1>1, <4>2, <5>1, UnpublishedKept
        <5> QED
          BY <5>2 DEF OnDisk
      <4> QED
        BY <4>1, <4>2
    <3>3. c.gen \in complete'[q]
      BY <1>1, <2>1, <3>1, <3>2, PruneEffect
    <3> HIDE DEF c
    <3> QED
      BY <1>2, <3>1, <3>2, <3>3 DEF OnDisk
  <2>6. ASSUME NEW q \in Group, q \notin Candidates
        PROVE  manifest'[q] = None /\ link'[q] = None /\ secrets'[q] = {} /\ known'[q] = None
    <3>1. Cleaned(q)
      BY <1>1 DEF ReconcilerInv, WriteInv
    <3> QED
      BY <1>1, <1>2, <2>3, <2>6, <3>1 DEF Cleaned
  <2>7. MemoryInv'
    BY <2>5, <2>6 DEF MemoryInv
  <2>8. RevisionInv'
    <3>1. ASSUME NEW q \in Group, known'[q] # None PROVE known'[q].gen.rev = revision'
      <4>1. q \in Candidates
        BY <2>6, <3>1
      <4> QED
        BY <2>1, <2>4, <4>1
    <3> QED
      BY <3>1 DEF RevisionInv
  <2>9. CandidateInv' /\ WriteInv'
    BY <2>2 DEF CandidateInv, WriteInv, Writing
  <2>10. MountsReady'
    <3>1. ASSUME NEW q \in Group \ torn' PROVE Mounts(q)'
      <4>1. CASE q \in Candidates
        BY <2>5, <4>1 DEF OnDisk, Mounts
      <4>2. CASE q \notin Candidates
        BY <2>6, <4>2 DEF Mounts
      <4> QED
        BY <4>1, <4>2
    <3> QED
      BY <3>1 DEF MountsReady, Mounts
  <2>11. ASSUME NEW q \in Group
         PROVE  /\ q \in Candidates <=> Desired!Entries(run.etag)[q] # None
                /\ q \in Candidates => run.cand[q].dep = Desired!Entries(run.etag)[q]
    <3>1. CandidateOK(q)
      BY <1>1 DEF ReconcilerInv, CandidateInv
    <3> QED
      BY <3>1 DEF CandidateOK, Candidates
  <2>12. services' = ServicesOf(run.etag)
    <3> DEFINE e == Desired!Entries(run.etag)
               A == {serviceOf[run.cand[p].dep] : p \in Candidates}
               B == {serviceOf[e[p]] : p \in {q \in Group : e[q] # None}}
    <3>1. ASSUME NEW p \in Candidates PROVE serviceOf[run.cand[p].dep] \in B
      <4>1. p \in Group /\ e[p] # None /\ run.cand[p].dep = e[p]
        BY <2>11 DEF Candidates
      <4> QED
        BY <4>1
    <3>2. ASSUME NEW p \in Group, e[p] # None PROVE serviceOf[e[p]] \in A
      <4>1. p \in Candidates /\ run.cand[p].dep = e[p]
        BY <2>11, <3>2
      <4> QED
        BY <4>1
    <3>3. A = B
      BY <3>1, <3>2
    <3>4. services' = A \ {None} /\ ServicesOf(run.etag) = B \ {None}
      BY <2>1 DEF ServicesOf
    <3> HIDE DEF A, B
    <3> QED
      BY <3>3, <3>4
  <2>13. HealthInv'
    <3>1. services' = ServicesOf(etag)'
      BY <2>1, <2>12
    <3>2. ASSUME NEW q \in Group
          PROVE  IF Desired!Entries(etag')[q] = None
                 THEN manifest'[q] = None /\ link'[q] = None /\ secrets'[q] = {}
                 ELSE known'[q] # None /\ known'[q].dep = Desired!Entries(etag')[q]
      BY <2>1, <2>4, <2>6, <2>11
    <3> QED
      BY <3>1, <3>2 DEF HealthInv
  <2> QED
    BY <2>7, <2>8, <2>9, <2>10, <2>13 DEF ReconcilerInv
<1> QED
  BY <1>3, <1>4

-----------------------------------------------------------------------------
(* Theorems *)

\* The invariant holds initially.
LEMMA ReconcilerInit ==
  ASSUME Init
  PROVE  ReconcilerInv
<1>1. TypeOK
  <2>1. run \in Run
    BY IdleType DEF Init
  <2>2. /\ known \in [Group -> Pod \cup {None}] /\ manifest \in [Group -> Pod \cup {None}]
        /\ link \in [Group -> Generation \cup {None}]
        /\ complete \in [Group -> SUBSET Generation] /\ partial \in [Group -> SUBSET Generation]
        /\ secrets \in [Group -> SUBSET Secret]
    BY DEF Init
  <2>3. authority \in Nat /\ revision \in Nat /\ issued \in Nat
    BY SMT DEF Init
  <2> QED
    BY <2>1, <2>2, <2>3 DEF Init, TypeOK
<1>2. run.pc = "idle" /\ ~healthy /\ \A p \in Group : known[p] = None /\ manifest[p] = None
  BY IdleType DEF Init
<1>3. MemoryInv /\ RevisionInv /\ MountsReady
  BY <1>2 DEF MemoryInv, RevisionInv, MountsReady
<1>4. CandidateInv /\ WriteInv /\ HealthInv
  BY <1>2 DEF CandidateInv, WriteInv, HealthInv, Writing
<1> QED
  BY <1>1, <1>3, <1>4 DEF ReconcilerInv

\* Every step keeps it.
LEMMA ReconcilerNext ==
  ASSUME ReconcilerInv, [Next]_vars
  PROVE  ReconcilerInv'
<1>1. CASE Next
  <2>1. TypeOK'
    BY <1>1, TypeStep DEF ReconcilerInv
  <2> QED
    BY <1>1, <2>1, ReadSteps, BuildStep, StageStep, ConfirmStep, CommitFilesStep,
       CleanupManifestsStep, CleanupSecretsStep, FinishStep, WorldSteps, RestartStep
       DEF Next, Reconcile
<1>2. CASE UNCHANGED vars
  <2>1. TypeOK'
    BY <1>2 DEF ReconcilerInv, TypeOK, vars, world, memory, disk
  <2> QED
    BY <1>2, <2>1, WorldStep DEF vars, world, memory, disk
<1> QED
  BY <1>1, <1>2

\* The inductive invariant holds in every reachable state.
THEOREM ReconcilerInvariant == Spec => []ReconcilerInv
<1>1. Init => ReconcilerInv
  BY ReconcilerInit
<1>2. ReconcilerInv /\ [Next]_vars => ReconcilerInv'
  BY ReconcilerNext
<1> QED
  BY <1>1, <1>2, PTL DEF Spec

\* Whatever the kubelet sees between two renames, after restarts and superseded calls:
\* the identity and the secrets of a manifest are there, unless a failed call wrote
\* the Pod and none has published it since (commit, cleanup).
THEOREM MountsAlwaysReady == Spec => []MountsReady
<1>1. ReconcilerInv => MountsReady
  BY DEF ReconcilerInv
<1> QED
  BY <1>1, ReconcilerInvariant, PTL

\* A healthy reconciler between two writes has on disk, and has published, what the
\* index it remembers says, under the CA revision it remembers (Reconcile).
THEOREM HealthyIsConverged == Spec => []HealthyConverged
<1>1. ASSUME ReconcilerInv PROVE HealthyConverged
  <2>1. SUFFICES ASSUME healthy, ~Writing
                 PROVE  /\ Converged(etag)
                        /\ \A p \in Group \ torn : link[p] # None => link[p].rev = revision
    BY DEF HealthyConverged
  <2>2. services = ServicesOf(etag)
    BY <1>1, <2>1 DEF ReconcilerInv, HealthInv
  <2>3. ASSUME NEW p \in Group \ torn
        PROVE  PodMatches(etag, p) /\ (link[p] # None => link[p].rev = revision)
    <3> DEFINE d == Desired!Entries(etag)[p]
    <3>1. CASE d = None
      <4>1. manifest[p] = None /\ link[p] = None /\ secrets[p] = {}
        BY <1>1, <2>1, <3>1 DEF ReconcilerInv, HealthInv
      <4> QED
        BY <3>1, <4>1 DEF PodMatches
    <3>2. CASE d # None
      <4>1. known[p] # None /\ known[p].dep = d
        BY <1>1, <2>1, <3>2 DEF ReconcilerInv, HealthInv
      <4>2. OnDisk(p, known[p])
        BY <1>1, <2>1, <4>1 DEF ReconcilerInv, MemoryInv, Untouched
      <4>3. known[p].gen.rev = revision
        BY <1>1, <4>1 DEF ReconcilerInv, RevisionInv
      <4>4. known[p] = [dep |-> d, gen |-> known[p].gen]
        <5>1. known[p] \in Pod
          BY <1>1, <4>1 DEF ReconcilerInv, TypeOK
        <5> QED
          BY <4>1, <5>1, SMT DEF Pod
      <4> QED
        BY <3>2, <4>1, <4>2, <4>3, <4>4 DEF PodMatches, OnDisk
    <3> QED
      BY <3>1, <3>2
  <2> QED
    BY <2>2, <2>3 DEF Converged
<1> QED
  BY <1>1, ReconcilerInvariant, PTL
=============================================================================
