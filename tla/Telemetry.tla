----------------------------- MODULE Telemetry -----------------------------
(***************************************************************************)
(* Log shipping TLS (telemetry.go): the agent keeps a client identity and  *)
(* a server CA bundle on disk for the Fluent Bit collector and restarts it *)
(* when they change.  Passes follow each other after five seconds or five  *)
(* minutes; the delay is not modelled.  Fluent Bit reads the files once,   *)
(* when it starts.  Generations are numbered as they are issued.           *)
(***************************************************************************)
EXTENDS Naturals, Sequences, FiniteSets

CONSTANTS MTLS,        \* mtls=true: the agent issues a client identity
          Bundle,      \* CA-only PEM bundles
          Bad,         \* an object that is not one
          None,
          MaxChanges,  \* bound on new CA revisions, bundles and ages
          MaxFaults,   \* bound on failed operations and damaged files
          MaxCrashes   \* bound on ends of the agent

TelemetryAssumption ==
  MTLS \in BOOLEAN /\ Bad \notin Bundle /\ None \notin Bundle \cup {Bad} /\ None \notin Nat

VARIABLES
  revision,   \* Authority.Revision
  object,     \* the server CA object in S3
  signer,     \* history: the CA revision that signed each generation
  dirs,       \* identity-generations: generation to "partial", "complete", "damaged"
  selected,   \* the identity symlink
  ca,         \* server-ca.pem
  collector,  \* what the running Fluent Bit read, or None
  mem,        \* fluentBitTLSState: generation, authorityRevision, pendingRestart
  age,        \* of the identity: "fresh", "due", "expired"
  pc, rev, previous, fetched, changes, faults, crashes

disk == <<dirs, selected, ca>>
world == <<revision, object>>
bounds == <<changes, faults, crashes>>
vars == <<world, signer, disk, collector, mem, age, pc, rev, previous, fetched, bounds>>

NoState == [generation |-> None, revision |-> 0, pending |-> FALSE]
Newest == Len(signer)

Init ==
  /\ revision = 1 /\ object \in Bundle /\ signer = <<>> /\ dirs = [g \in {} |-> None]
  /\ selected = None /\ ca = None /\ collector = None /\ mem = NoState /\ age = "fresh"
  /\ pc = "idle" /\ rev = 0 /\ previous = None /\ fetched = None
  /\ changes = 0 /\ faults = 0 /\ crashes = 0

Fault == faults < MaxFaults /\ faults' = faults + 1 /\ UNCHANGED <<changes, crashes>>
Same == UNCHANGED bounds

-----------------------------------------------------------------------------
(* One pass of maintainFluentBitTLS *)

\* validateClientIdentity: the selector names the generation this process installed,
\* whose files are intact and not expired.
IdentityValid ==
  /\ mem.generation # None /\ selected = mem.generation
  /\ mem.generation \in DOMAIN dirs /\ dirs[mem.generation] = "complete"
  /\ age # "expired"

\* Missing, damaged, expired, due for renewal, or of another CA revision.
NeedsIdentity == MTLS /\ (~IdentityValid \/ age # "fresh" \/ mem.revision # revision)

Begin ==
  /\ pc = "idle"
  /\ pc' = (IF NeedsIdentity THEN "issue" ELSE "fetch")
  /\ rev' = revision
  /\ UNCHANGED <<world, signer, disk, collector, mem, age, previous, fetched, bounds>>

\* IssueNodeService signs with the CA of this moment.
Issue ==
  /\ pc = "issue"
  /\ \/ signer' = Append(signer, revision) /\ pc' = "check" /\ Same
     \/ Fault /\ pc' = "fetch" /\ UNCHANGED signer
  /\ UNCHANGED <<world, disk, collector, mem, age, rev, previous, fetched>>

\* A leaf is discarded when the CA changed while it was issued.
Unrotated == revision = rev

CheckRevision ==
  /\ pc = "check" /\ pc' = (IF Unrotated THEN "write" ELSE "fetch")
  /\ UNCHANGED <<world, signer, disk, collector, mem, age, rev, previous, fetched, bounds>>

MakeDirectory ==
  /\ pc = "write"
  /\ \/ /\ pc' = "files" /\ Same
        /\ dirs' = [g \in DOMAIN dirs \cup {Newest} |-> IF g = Newest THEN "partial" ELSE dirs[g]]
     \/ Fault /\ pc' = "fetch" /\ UNCHANGED dirs
  /\ UNCHANGED <<world, signer, selected, ca, collector, mem, age, rev, previous, fetched>>

Without(g) == [h \in DOMAIN dirs \ {g} |-> dirs[h]]

\* Both files are written and validated; a failure removes the directory.
WriteFiles ==
  /\ pc = "files"
  /\ \/ dirs' = [dirs EXCEPT ![Newest] = "complete"] /\ pc' = "select" /\ Same
     \/ Fault /\ dirs' = Without(Newest) /\ pc' = "fetch"
  /\ UNCHANGED <<world, signer, selected, ca, collector, mem, age, rev, previous, fetched>>

\* The symlink is replaced by a rename; a failure removes the directory.
Select ==
  /\ pc = "select" /\ previous' = selected
  /\ \/ selected' = Newest /\ pc' = "cleanup" /\ Same /\ UNCHANGED dirs
     \/ Fault /\ dirs' = Without(Newest) /\ pc' = "fetch" /\ UNCHANGED selected
  /\ UNCHANGED <<world, signer, ca, collector, mem, age, rev, fetched>>

\* Mutant of Kept: the target of the link before the switch is taken for the current one.
KeptPrevious == {previous}

\* The generations an installation leaves.
Kept == {Newest, previous}

\* Other generations are removed.  When that fails the installation counts as failed
\* although the link was switched.
Cleanup ==
  /\ pc = "cleanup" /\ pc' = "fetch"
  /\ \/ /\ Same /\ dirs' = [g \in DOMAIN dirs \cap Kept |-> dirs[g]]
        /\ mem' = [generation |-> Newest, revision |-> rev, pending |-> TRUE] /\ age' = "fresh"
     \/ Fault /\ UNCHANGED <<dirs, mem, age>>
  /\ UNCHANGED <<world, signer, selected, ca, collector, rev, previous, fetched>>

\* syncServerCA reads the object and installServerCA validates it: an unreadable or
\* malformed bundle leaves the file alone.
Fetch ==
  /\ pc = "fetch"
  /\ \/ fetched' = object /\ pc' = (IF object \in Bundle /\ object # ca THEN "install" ELSE "restart") /\ Same
     \/ Fault /\ fetched' = None /\ pc' = "restart"
  /\ UNCHANGED <<world, signer, disk, collector, mem, age, rev, previous>>

\* The bundle is renamed into place.
InstallServerCA ==
  /\ pc = "install" /\ pc' = "restart"
  /\ \/ ca' = fetched /\ mem' = [mem EXCEPT !.pending = TRUE] /\ Same
     \/ Fault /\ UNCHANGED <<ca, mem>>
  /\ UNCHANGED <<world, signer, dirs, selected, collector, age, rev, previous, fetched>>

\* Mutant of Restarted: a failed restart is not tried again.
RestartedOnce == mem' = [mem EXCEPT !.pending = FALSE]

\* What the restart leaves pending.
Restarted == mem' = [mem EXCEPT !.pending = @ /\ faults' # faults]

\* What a start reads.  Without the bundle its configuration names, the collector does
\* not come up.
Started == IF ca = None THEN None ELSE [identity |-> selected, ca |-> ca]

Restart ==
  /\ pc = "restart" /\ pc' = "idle"
  /\ \/ mem.pending /\ Same /\ Restarted /\ collector' = Started
     \/ mem.pending /\ Fault /\ Restarted /\ UNCHANGED collector
     \/ ~mem.pending /\ Same /\ UNCHANGED <<mem, collector>>
  /\ UNCHANGED <<world, signer, disk, age, rev, previous, fetched>>

Pass ==
  \/ Begin \/ Issue \/ CheckRevision \/ MakeDirectory \/ WriteFiles \/ Select \/ Cleanup
  \/ Fetch \/ InstallServerCA \/ Restart

-----------------------------------------------------------------------------
(* The environment *)

Change == changes < MaxChanges /\ changes' = changes + 1 /\ UNCHANGED <<faults, crashes>>

Rotate ==
  /\ Change /\ revision' = revision + 1
  /\ UNCHANGED <<object, signer, disk, collector, mem, age, pc, rev, previous, fetched>>

Replace(b) ==
  /\ Change /\ b # object /\ object' = b
  /\ UNCHANGED <<revision, signer, disk, collector, mem, age, pc, rev, previous, fetched>>

Grow ==
  /\ Change /\ mem.generation # None /\ age # "expired"
  /\ age' = (IF age = "fresh" THEN "due" ELSE "expired")
  /\ UNCHANGED <<world, signer, disk, collector, mem, pc, rev, previous, fetched>>

\* Files of the selected generation are lost or altered.
Damage ==
  /\ Fault /\ selected \in DOMAIN dirs /\ dirs' = [dirs EXCEPT ![selected] = "damaged"]
  /\ UNCHANGED <<world, signer, selected, ca, collector, mem, age, pc, rev, previous, fetched>>

\* systemd starts the collector at boot and again whenever it stops; the configuration
\* script waits for a selected identity with both files.
StartCollector ==
  /\ collector = None /\ ca # None
  /\ MTLS => selected \in DOMAIN dirs /\ dirs[selected] = "complete"
  /\ collector' = Started
  /\ UNCHANGED <<world, signer, disk, mem, age, pc, rev, previous, fetched, bounds>>

StopCollector ==
  /\ Fault /\ collector # None /\ collector' = None
  /\ UNCHANGED <<world, signer, disk, mem, age, pc, rev, previous, fetched>>

\* The agent ends at any point and starts again with nothing in memory; files stay.
Crash ==
  /\ crashes < MaxCrashes /\ crashes' = crashes + 1 /\ UNCHANGED <<changes, faults>>
  /\ pc' = "idle" /\ mem' = NoState /\ age' = "fresh"
  /\ UNCHANGED <<world, signer, disk, collector, rev, previous, fetched>>

Next == Pass \/ Rotate \/ (\E b \in Bundle \cup {Bad} : Replace(b)) \/ Grow \/ Damage
        \/ StartCollector \/ StopCollector \/ Crash

\* The loop of runFluentBitTLS keeps running and systemd keeps the collector running;
\* the rest of the environment need not act.
Spec == Init /\ [][Next]_vars /\ WF_vars(Pass) /\ WF_vars(StartCollector)

-----------------------------------------------------------------------------
(* Properties *)

\* The selected generation is never one half written or already removed, whatever fails
\* or ends in between (telemetry.go, installClientIdentity).
SelectedComplete ==
  selected # None => selected \in DOMAIN dirs /\ dirs[selected] # "partial"

\* The installed identity is signed by the CA revision the agent recorded for it, so
\* that a rotation during issuance cannot hide (maintainFluentBitTLS).
SignerRecorded == mem.generation # None => signer[mem.generation] = mem.revision

\* The collector can always load an identity whose signer the agent knows (telemetry.go).
IdentitySound == SelectedComplete /\ SignerRecorded

\* The collector ends up running with a valid identity of the current CA and with the
\* server CA bundle of the object, after whatever failures, rotations and restarts.  A
\* malformed object leaves the last good bundle (telemetry.go, maintainFluentBitTLS).
CollectorCurrent ==
  <>[](/\ object \in Bundle => ca = object
       /\ ca # None => collector # None /\ collector.ca = ca
       /\ MTLS => /\ IdentityValid /\ signer[selected] = revision
                  /\ collector # None => collector.identity = selected)
=============================================================================
