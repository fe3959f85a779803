---------------------------- MODULE Dependencies ----------------------------
(***************************************************************************)
(* The dependency side of podmin setup (cli/setup, cli/dependencies):      *)
(* syncDependencies uploads the files the published manifest lacks,        *)
(* mirrors the pause image and conditionally writes the manifest last;     *)
(* setup then applies launch templates that name those files and, once     *)
(* everything is applied, deletes old versions.                            *)
(*                                                                         *)
(* One architecture.  A dependency is a key with numbered versions, its    *)
(* object is <<key, version>>; the version of the manifest is its content. *)
(* Time is in ticks.  Downloads and the local cache are left out: they     *)
(* change nothing in the cluster.                                          *)
(***************************************************************************)
EXTENDS Naturals, FiniteSets

CONSTANTS Operator, Group, Key, Version, Image, None,
          Wanted,       \* file sets that resolution may return: a subset of [Key -> Version]
          Retention,    \* 28 days, in ticks
          Kept,         \* versions kept whatever their age: 2
          MaxTime, MaxRuns

DependenciesAssumption ==
  /\ Wanted \subseteq [Key -> Version] /\ IsFiniteSet(Version)
  /\ Retention \in Nat \ {0} /\ Kept \in Nat \ {0} /\ None \notin Nat

VARIABLES
  objects,    \* dependency objects: <<key, version>> to the time of upload, or None
  mirrored,   \* images whose blobs and index are in the mirror
  manifest,   \* dependencies/manifest.json: [files, image], or None
  template,   \* node group to the manifest its launch template was rendered from, or None
  run,        \* operator to its setup, or None
  clock, runs

vars == <<objects, mirrored, manifest, template, run, clock, runs>>

Object == Key \X Version
Files(m) == {<<k, m.files[k]>> : k \in Key}

Init ==
  /\ objects = [o \in Object |-> None] /\ mirrored = {} /\ manifest = None
  /\ template = [g \in Group |-> None] /\ run = [o \in Operator |-> None]
  /\ clock = 0 /\ runs = 0

At(o, pc) == run[o] # None /\ run[o].pc = pc
Goto(o, pc) == run' = [run EXCEPT ![o].pc = pc]
Return(o) == run' = [run EXCEPT ![o] = None]

\* The desired files the published manifest does not record.
pendingDependencies(published, want) ==
  IF published = None THEN Files(want) ELSE Files(want) \ Files(published)

\* The manifest is read, and versions and the image digest are resolved.
Begin(o, want) ==
  /\ run[o] = None /\ runs < MaxRuns /\ runs' = runs + 1
  /\ run' = [run EXCEPT ![o] = [pc |-> "upload", want |-> want, seen |-> manifest,
                                left |-> pendingDependencies(manifest, want)]]
  /\ UNCHANGED <<objects, mirrored, manifest, template, clock>>

\* uploadDependencies: one file after the other.
Upload(o, f) ==
  /\ At(o, "upload") /\ f \in run[o].left
  /\ objects' = [objects EXCEPT ![f] = clock]
  /\ run' = [run EXCEPT ![o].left = @ \ {f}]
  /\ UNCHANGED <<mirrored, manifest, template, clock, runs>>

\* The image is uploaded when the manifest does not record it; when it does, at most its
\* index is repaired.
MirrorImage(o) ==
  /\ At(o, "upload") /\ run[o].left = {}
  /\ mirrored' = IF run[o].seen # None /\ run[o].seen.image = run[o].want.image
                 THEN mirrored ELSE mirrored \cup {run[o].want.image}
  /\ Goto(o, "manifest")
  /\ UNCHANGED <<objects, manifest, template, clock, runs>>

\* Nothing is written when the manifest was already the desired one; a manifest that
\* somebody else has replaced ends the setup.
PublishManifest(o) ==
  /\ At(o, "manifest")
  /\ \/ run[o].seen = run[o].want /\ UNCHANGED manifest /\ Goto(o, "apply")
     \/ run[o].seen # run[o].want /\ run[o].seen = manifest /\ manifest' = run[o].want /\ Goto(o, "apply")
     \/ run[o].seen # run[o].want /\ run[o].seen # manifest /\ UNCHANGED manifest /\ Return(o)
  /\ UNCHANGED <<objects, mirrored, template, clock, runs>>

\* A partial update ends the setup with an error.
AfterApply(groups) == IF groups = Group THEN "list" ELSE "failed"

\* infra.Run: any number of node groups get their new launch template.
Apply(o, groups) ==
  /\ At(o, "apply")
  /\ template' = [g \in Group |-> IF g \in groups THEN run[o].want ELSE template[g]]
  /\ IF AfterApply(groups) = "list" THEN Goto(o, "list") ELSE Return(o)
  /\ UNCHANGED <<objects, mirrored, manifest, clock, runs>>

VersionsOf(k) == {v \in Version : objects[<<k, v>>] # None}

\* Which versions are the newest is settled by the upload time alone.
Newest(k, keep) ==
  /\ keep \subseteq VersionsOf(k)
  /\ Cardinality(keep) = IF Cardinality(VersionsOf(k)) < Kept THEN Cardinality(VersionsOf(k)) ELSE Kept
  /\ \A v \in keep, w \in VersionsOf(k) \ keep : objects[<<k, v>>] >= objects[<<k, w>>]

\* Mutant of Old: off by one tick.
OldEarly(f) == clock - objects[f] + 1 >= Retention

Old(f) == clock - objects[f] >= Retention

\* Mutant of Protected: the files in use are not excepted.
ProtectedNone(want) == {}

\* The files of the manifest this setup has published.
Protected(want) == Files(want)

\* cleanupDependencies: one listing decides what is deleted.
List(o) ==
  /\ At(o, "list")
  /\ \E keep \in [Key -> SUBSET Version] :
       /\ \A k \in Key : Newest(k, keep[k])
       /\ run' = [run EXCEPT ![o].pc = "delete",
            ![o].left = {f \in Object : /\ objects[f] # None /\ f[2] \notin keep[f[1]] /\ Old(f)}
                          \ Protected(run[o].want)]
  /\ UNCHANGED <<objects, mirrored, manifest, template, clock, runs>>

Delete(o, f) ==
  /\ At(o, "delete") /\ f \in run[o].left
  /\ objects' = [objects EXCEPT ![f] = None]
  /\ run' = [run EXCEPT ![o].left = @ \ {f}]
  /\ UNCHANGED <<mirrored, manifest, template, clock, runs>>

Complete(o) ==
  /\ At(o, "delete") /\ run[o].left = {} /\ Return(o)
  /\ UNCHANGED <<objects, mirrored, manifest, template, clock, runs>>

\* A call fails or the command is interrupted; a failed deletion only warns.
Fail(o) ==
  /\ run[o] # None /\ Return(o)
  /\ UNCHANGED <<objects, mirrored, manifest, template, clock, runs>>

Tick == clock < MaxTime /\ clock' = clock + 1 /\ UNCHANGED <<objects, mirrored, manifest, template, run, runs>>

Next ==
  \/ Tick
  \/ \E o \in Operator :
       \/ \E files \in Wanted, image \in Image : Begin(o, [files |-> files, image |-> image])
       \/ \E f \in Object : Upload(o, f) \/ Delete(o, f)
       \/ \E groups \in SUBSET Group : Apply(o, groups)
       \/ MirrorImage(o) \/ PublishManifest(o) \/ List(o) \/ Complete(o) \/ Fail(o)

Spec == Init /\ [][Next]_vars

-----------------------------------------------------------------------------
(* Properties *)

Stored(m) == m.image \in mirrored /\ \A f \in Files(m) : objects[f] # None

\* Everything the published manifest names is stored, however many setups were
\* interrupted before and whatever was cleaned up (syncDependencies, cleanupDependencies).
ManifestComplete == manifest # None => Stored(manifest)

\* A node that starts from any group's launch template finds its files, also after a
\* partial apply (setup.go: cleanup follows a complete apply only).
NodesComplete == \A g \in Group : template[g] # None => Stored(template[g])

\* What nodes are told to fetch is there (syncDependencies, cleanupDependencies).
NamedStored == ManifestComplete /\ NodesComplete

\* Every object that goes is old, and enough versions as new as it stay.
DeletesReplaced ==
  \A f \in Object : objects[f] # None /\ objects'[f] = None =>
    /\ clock - objects[f] >= Retention
    /\ Cardinality({v \in VersionsOf(f[1]) \ {f[2]} : objects[<<f[1], v>>] >= objects[f]}) >= Kept

\* spec.md:182: "retain the newest two versions ...; delete third-oldest and older only
\* if every object for that version is at least 28 days old" (retention.go, Expired).
RetentionHonoured == [][DeletesReplaced]_vars
=============================================================================
