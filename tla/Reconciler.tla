----------------------------- MODULE Reconciler -----------------------------
(***************************************************************************)
(* The static Pod reconciler of one node (internal/agent/staticpod): it    *)
(* polls deployments/index.json, builds a candidate for every deployment   *)
(* of its NodeGroup, stages all files, confirms index and workload CA,     *)
(* renames the files into place one by one, removes what is stale, and     *)
(* only then publishes the Services.  The index is the DesiredState that   *)
(* DeploymentIndex implements.  Manifests are abstracted to a deployment   *)
(* and an identity generation; a generation is a directory of three files. *)
(***************************************************************************)
EXTENDS Naturals, FiniteSetsExt

CONSTANTS Key, Dep, serviceOf, None,
          Group,          \* the keys of this node's NodeGroup
          secretsOf,      \* the secret files a deployment mounts
          Stored,         \* the secrets the provider has
          MaxEvents,      \* bound on changes of the index, the CA and the clock
          MaxFaults       \* bound on failed reads, writes, renames and removals, and on restarts

Index == [Key -> Dep \cup {None}]
Generation == [id : Nat, rev : Nat]
Pod == [dep : Dep, gen : Generation]
Candidate == [dep : Dep, publish : BOOLEAN, gen : Generation]

ASSUME ReconcilerAssumption ==
  Group \subseteq Key /\ None \notin Dep \cup Index \cup Generation \cup Pod \cup Candidate

VARIABLES
  index, authority,       \* the committed index; the revision of the workload CA, 0 before its sync
  etag, healthy, revision, known, services, due,   \* the Reconciler's fields
  run,                    \* the Reconcile call in progress
  manifest, link, complete, partial, secrets,      \* the node's files
  torn,                   \* history: Pods a failed call wrote and none has published since
  issued, events, faults

memory == <<etag, healthy, revision, known, services, due>>
disk == <<manifest, link, complete, partial, secrets, torn>>
world == <<index, authority, events>>
vars == <<world, memory, run, disk, issued, faults>>

Desired == INSTANCE DesiredState WITH desired <- index

Idle == [pc |-> "idle", rev |-> 0, etag |-> None, cand |-> [p \in Group |-> None],
         left |-> [p \in Group |-> 0]]

Init ==
  /\ index = None /\ authority = 0
  /\ etag = None /\ healthy = FALSE /\ revision = 0 /\ services = {} /\ due = {}
  /\ known = [p \in Group |-> None]
  /\ run = Idle
  /\ manifest = [p \in Group |-> None]
  /\ link = [p \in Group |-> None]
  /\ complete = [p \in Group |-> {}]
  /\ partial = [p \in Group |-> {}]
  /\ secrets = [p \in Group |-> {}]
  /\ torn = {}
  /\ issued = 0 /\ events = 0 /\ faults = 0

-----------------------------------------------------------------------------
(* The world around the reconciler *)

Event == events < MaxEvents /\ events' = events + 1
Fault == faults < MaxFaults /\ faults' = faults + 1

\* Somebody deploys or deletes.
Commit ==
  /\ Desired!Next
  /\ Event
  /\ UNCHANGED <<authority, memory, run, disk, issued, faults>>

\* The workload CA synchronizes a new state.
AuthorityChanges ==
  /\ Event
  /\ authority' = authority + 1
  /\ UNCHANGED <<index, memory, run, disk, issued, faults>>

\* An identity comes within six hours of its expiry.
Expiring(p) ==
  /\ known[p] # None /\ p \notin due
  /\ Event
  /\ due' = due \cup {p}
  /\ UNCHANGED <<index, authority, etag, healthy, revision, known, services, run, disk,
                 issued, faults>>

\* The agent restarts; files stay.
Restart ==
  /\ Fault
  /\ etag' = None /\ healthy' = FALSE /\ revision' = 0 /\ services' = {} /\ due' = {}
  /\ known' = [p \in Group |-> None]
  /\ run' = Idle
  /\ UNCHANGED <<world, disk, issued>>

-----------------------------------------------------------------------------
(* Reconcile *)

\* The call returns; an error makes the reconciler unhealthy.
Return(error) ==
  /\ run' = Idle
  /\ healthy' = (healthy /\ ~error)
  /\ UNCHANGED <<etag, revision, known, services, due>>

\* Any request or any staging may fail; temporary files are discarded.
Fail ==
  /\ run.pc \in {"index", "build", "confirm"}
  /\ Fault
  /\ Return(TRUE)
  /\ UNCHANGED <<world, disk, issued>>

\* Run calls Reconcile once the CA has synchronized; it reads the CA revision.
Begin ==
  /\ run.pc = "idle"
  /\ authority # 0
  /\ run' = [Idle EXCEPT !.pc = "index", !.rev = authority]
  /\ UNCHANGED <<world, memory, disk, issued, faults>>

\* Mutant of Current: the index is not compared.
CurrentHealthy == healthy /\ authority = revision /\ due = {}

\* Nothing to do: same index, same CA, healthy, and no identity near expiry.
Current == index = etag /\ healthy /\ authority = revision /\ due = {}

\* The index is read; a missing object is an empty index.
ReadIndex ==
  /\ run.pc = "index"
  /\ IF Current THEN Return(FALSE)
     ELSE /\ run' = [run EXCEPT !.pc = "build", !.etag = index]
          /\ UNCHANGED memory
  /\ UNCHANGED <<world, disk, issued, faults>>

Selected == {p \in Group : Desired!Entries(run.etag)[p] # None}
Deployment(p) == Desired!Entries(run.etag)[p]

\* The deployment is the one the reconciler remembers, under the same CA.
Unchanged(p) ==
  known[p] # None /\ known[p].dep = Deployment(p) /\ revision = run.rev

Publishes(p) == ~Unchanged(p) \/ p \in due

\* build reads every secret a Pod mounts from its provider and fails when one is missing.
Broken == {d \in Dep : ~(secretsOf[d] \subseteq Stored)}

\* Every selected payload is fetched, verified and built, and an identity is
\* issued where the candidate is to be published.  One that cannot be built fails
\* the whole call.
Build ==
  /\ run.pc = "build"
  /\ LET fresh == [id |-> issued + 1, rev |-> authority]
         publish == {p \in Selected : Publishes(p)}
     IN  IF \E p \in Selected : Deployment(p) \in Broken
         THEN Return(TRUE) /\ UNCHANGED issued
         ELSE /\ run' = [run EXCEPT !.pc = "stage",
                           !.cand = [p \in Group |->
                              IF p \notin Selected THEN None
                              ELSE [dep |-> Deployment(p), publish |-> p \in publish,
                                    gen |-> IF p \in publish THEN fresh ELSE known[p].gen]]]
              /\ issued' = IF publish = {} THEN issued ELSE issued + 1
              /\ UNCHANGED memory
  /\ UNCHANGED <<world, disk, faults>>

Candidates == {p \in Group : run.cand[p] # None}
Publishing == {p \in Candidates : run.cand[p].publish}

\* Staging makes the directory of the new generation and writes temporary files
\* into it; discarding removes those files and leaves the directory.
Stage ==
  /\ run.pc = "stage"
  /\ \/ /\ partial' = [p \in Group |-> partial[p] \cup
                         (IF p \in Publishing THEN {run.cand[p].gen} ELSE {})]
        /\ run' = [run EXCEPT !.pc = "confirm"]
        /\ UNCHANGED <<memory, faults>>
     \/ /\ Fault
        /\ \E done \in SUBSET Publishing :
             partial' = [p \in Group |-> partial[p] \cup
                           (IF p \in done THEN {run.cand[p].gen} ELSE {})]
        /\ Return(TRUE)
  /\ UNCHANGED <<world, manifest, link, complete, secrets, torn, issued>>

\* Neither the index nor the CA changed while the candidates were built.
Confirmed == index = run.etag /\ authority = run.rev

Confirm ==
  /\ run.pc = "confirm"
  /\ IF Confirmed
     THEN /\ run' = [run EXCEPT !.pc = "commit",
                       !.left = [p \in Group |-> IF p \in Publishing THEN 4 ELSE 0]]
          /\ UNCHANGED memory
     ELSE Return(TRUE)
  /\ UNCHANGED <<world, disk, issued, faults>>

\* Mutant of CommitOrder: the manifest is renamed first.
CommitOrderReversed(p) == 5 - run.left[p]

\* Per Pod: 4 identity files, 3 the link that selects them, 2 secrets, 1 manifest.
CommitOrder(p) == run.left[p]

\* The next staged files of p are renamed into place.
Rename(p) ==
  LET gen == run.cand[p].gen
      step == CommitOrder(p)
  IN  /\ complete' = IF step = 4 THEN [complete EXCEPT ![p] = @ \cup {gen}] ELSE complete
      /\ partial' = IF step = 4 THEN [partial EXCEPT ![p] = @ \ {gen}] ELSE partial
      /\ link' = IF step = 3 THEN [link EXCEPT ![p] = gen] ELSE link
      /\ secrets' = IF step = 2 THEN [secrets EXCEPT ![p] = @ \cup secretsOf[run.cand[p].dep]]
                    ELSE secrets
      /\ manifest' = IF step = 1 THEN [manifest EXCEPT ![p] = [dep |-> run.cand[p].dep, gen |-> gen]]
                     ELSE manifest

\* One Pod after the other; a rename, or the sync after it, that fails ends the call.
CommitFiles(p) ==
  /\ run.pc = "commit"
  /\ run.left[p] > 0
  /\ \A q \in Group \ {p} : run.left[q] \in {0, 4}
  /\ \/ /\ Rename(p)
        /\ run' = [run EXCEPT !.left[p] = @ - 1]
        /\ UNCHANGED <<memory, torn, faults>>
     \/ /\ Fault /\ Return(TRUE)
        /\ torn' = torn \cup {p} \cup {q \in Publishing : run.left[q] = 0}
        /\ Rename(p) \/ UNCHANGED <<manifest, link, complete, partial, secrets>>
  /\ UNCHANGED <<world, issued>>

\* A call fails after its renames.
Tear == torn' = torn \cup Publishing \cup (Group \ Candidates)

\* f restricted to the keys in s; the others get v.
Only(f, s, v) == [p \in Group |-> IF p \in s THEN f[p] ELSE v]

\* cleanup: the manifests of other Pods are removed first.
CleanupManifests ==
  /\ run.pc = "commit"
  /\ \A p \in Group : run.left[p] = 0
  /\ \/ /\ manifest' = Only(manifest, Candidates, None)
        /\ run' = [run EXCEPT !.pc = "secrets"]
        /\ UNCHANGED <<memory, torn, faults>>
     \/ /\ Fault /\ Tear
        /\ \E s \in SUBSET Group : Candidates \subseteq s /\ manifest' = Only(manifest, s, None)
        /\ Return(TRUE)
  /\ UNCHANGED <<world, link, complete, partial, secrets, issued>>

\* Mutant of Remove: stale secrets of a kept Pod stay.
RemoveDirectories(done) ==
  LET kept == (Group \ done) \cup Candidates
  IN  /\ link' = Only(link, kept, None)
      /\ complete' = Only(complete, kept, {})
      /\ partial' = Only(partial, kept, {})
      /\ secrets' = Only(secrets, kept, {})

\* cleanup: of the Pods in done, those without a candidate lose their directories
\* and the others the secrets they do not mount.
Remove(done) ==
  LET kept == (Group \ done) \cup Candidates
  IN  /\ link' = Only(link, kept, None)
      /\ complete' = Only(complete, kept, {})
      /\ partial' = Only(partial, kept, {})
      /\ secrets' = [p \in Group |->
           IF p \notin done THEN secrets[p]
           ELSE IF p \in Candidates THEN secrets[p] \cap secretsOf[run.cand[p].dep] ELSE {}]

CleanupSecrets ==
  /\ run.pc = "secrets"
  /\ \/ /\ Remove(Group)
        /\ run' = [run EXCEPT !.pc = "generations"]
        /\ UNCHANGED <<memory, torn, faults>>
     \/ /\ Fault /\ Tear
        /\ \E done \in SUBSET Group : Remove(done)
        /\ Return(TRUE)
  /\ UNCHANGED <<world, manifest, issued>>

\* cleanupIdentityGenerations keeps the candidate's generation and the directory
\* modified last among the others, complete or not.
Retained(p) ==
  LET others == (complete[p] \cup partial[p]) \ {run.cand[p].gen}
  IN  {run.cand[p].gen} \cup {g \in others : \A h \in others : h.id <= g.id}

Prune(done) ==
  /\ complete' = [p \in Group |-> IF p \in done THEN complete[p] \cap Retained(p) ELSE complete[p]]
  /\ partial' = [p \in Group |-> IF p \in done THEN partial[p] \cap Retained(p) ELSE partial[p]]

\* The end of Reconcile: generations are pruned, the candidates are remembered,
\* and the Services are published.
Finish ==
  /\ run.pc = "generations"
  /\ \/ /\ Prune(Candidates)
        /\ services' = {serviceOf[run.cand[p].dep] : p \in Candidates} \ {None}
        /\ known' = [p \in Group |-> IF p \in Candidates
                       THEN [dep |-> run.cand[p].dep, gen |-> run.cand[p].gen] ELSE None]
        /\ due' = (due \cap Candidates) \ Publishing
        /\ revision' = run.rev
        /\ etag' = run.etag
        /\ healthy' = TRUE
        /\ run' = Idle
        /\ torn' = torn \cap (Candidates \ Publishing)
        /\ UNCHANGED faults
     \/ Fault /\ Tear /\ Return(TRUE) /\ \E done \in SUBSET Candidates : Prune(done)
  /\ UNCHANGED <<world, manifest, link, secrets, issued>>

Reconcile ==
  \/ Begin \/ ReadIndex \/ Build \/ Stage \/ Confirm \/ CleanupManifests \/ CleanupSecrets
  \/ Finish \/ \E p \in Group : CommitFiles(p)

Next ==
  \/ Reconcile \/ Fail
  \/ Commit \/ AuthorityChanges \/ Restart \/ \E p \in Group : Expiring(p)

\* Run polls for ever, so every call is followed by another.
Spec == Init /\ [][Next]_vars /\ WF_vars(Reconcile)

-----------------------------------------------------------------------------
(* Properties *)

\* The files of p are those of its entry in index i.
PodMatches(i, p) ==
  LET d == Desired!Entries(i)[p]
  IN  IF d = None THEN manifest[p] = None /\ link[p] = None /\ secrets[p] = {}
      ELSE /\ manifest[p] # None
           /\ manifest[p] = [dep |-> d, gen |-> link[p]]
           /\ link[p] \in complete[p]
           /\ secrets[p] = secretsOf[d]

ServicesOf(i) ==
  {serviceOf[Desired!Entries(i)[p]] : p \in {q \in Group : Desired!Entries(i)[q] # None}} \ {None}

\* The node's files and its published Services are those of index i.
Matches(i) == (\A p \in Group : PodMatches(i, p)) /\ services = ServicesOf(i)

Writing == run.pc \in {"commit", "secrets", "generations"}

\* Index i is what is on disk and published, but for Pods a failed call wrote whose
\* entry then went back to what the reconciler remembers.
Converged(i) == (\A p \in Group \ torn : PodMatches(i, p)) /\ services = ServicesOf(i)

\* A healthy reconciler between two writes has on disk, and has published, exactly
\* what the index it remembers says: files it does not write again were right, also
\* after failed renames and removals.  The identities were all issued under the CA
\* revision it remembers, which is the fence before the renames.
HealthyConverged ==
  healthy /\ ~Writing =>
    /\ Converged(etag)
    /\ \A p \in Group \ torn : link[p] # None => link[p].rev = revision

\* Whatever the kubelet sees between two renames, after a restart or after a
\* superseded call: a manifest's identity link selects a complete generation, and the
\* secrets it mounts exist (commit, cleanup).
MountsReady ==
  \A p \in Group \ torn : manifest[p] # None =>
    link[p] \in complete[p] /\ secretsOf[manifest[p].dep] \subseteq secrets[p]

\* What docs/spec.md says of a failed call ("failures report unhealthy and converge on
\* retry"): a healthy node's files are those of the index it remembers, whatever failed
\* before.
RetriesConverge == healthy /\ ~Writing => Matches(etag)

\* Polling converges: when the index and the CA stay as they are, the node's files
\* and Services become and remain those of the index, unless it holds a deployment
\* that cannot be built.
Converges ==
  <>(authority # 0) =>
    <>[](\/ \E p \in Group : Desired!Entries(index)[p] \in Broken
         \/ Converged(index))
=============================================================================
