------------------------------ MODULE MCDeploy ------------------------------
(***************************************************************************)
(* Small instances of what the commands publish: the deployment index, a   *)
(* repository of images, pushed (apps/) or mirrored (mirror/), and the     *)
(* dependencies of nodes.  They share no variable, so each is explored     *)
(* while the others rest.                                                  *)
(***************************************************************************)
EXTENDS DeploymentIndex, TLC

CONSTANTS Publisher, Cache, Tag, Digest, cacheOf, nested, Source, Legacy, MaxCalls, MaxRot,
          Operator, Group, Dependency, Version, Image, Wanted, Retention, Kept, MaxTime, MaxRuns,
          x1, x2, d1, d2, d3, s1, i1, i2, m1, m2, p1, p2, c1, c2, t1, t2

VARIABLES part,
          blobs, listing, recorded, cache, run, answer, calls, rot,
          stored, mirrored, manifest, template, setup, clock, runs

Img == INSTANCE Images WITH index <- listing
Deps == INSTANCE Dependencies WITH Key <- Dependency, objects <- stored, run <- setup

ASSUME InstanceAssumption == Img!ImagesAssumption /\ Deps!DependenciesAssumption

\* d1 and d2 reference the same Service, d3 none.
MCServiceOf == d1 :> s1 @@ d2 :> s1 @@ d3 :> None

\* Two image indexes that share a manifest; each publisher has a machine of its own; an
\* earlier release listed tagged descriptors only.
MCNested == i1 :> {m1, m2} @@ i2 :> {m2} @@ m1 :> {} @@ m2 :> {}
MCCacheOf == p1 :> c1 @@ p2 :> c2
MCLegacy == {[tag |-> t1, digest |-> i1]}

\* The versions of x1 change, x2 stays.
MCWanted == {w \in [Dependency -> Version] : w[x2] = 1}

imageVars == <<blobs, listing, recorded, cache, run, answer, calls, rot>>
dependencyVars == <<stored, mirrored, manifest, template, setup, clock, runs>>

MCInit ==
  /\ part \in {"index", "apps", "mirror", "dependencies"}
  /\ Init
  /\ Img!Init(IF part = "mirror" THEN Legacy ELSE {})
  /\ Deps!Init

MCNext ==
  /\ \/ part = "index" /\ Next /\ UNCHANGED <<imageVars, dependencyVars>>
     \/ part = "apps" /\ Img!AppsNext /\ UNCHANGED <<vars, dependencyVars>>
     \/ part = "mirror" /\ Img!MirrorNext /\ UNCHANGED <<vars, dependencyVars>>
     \/ part = "dependencies" /\ Deps!Next /\ UNCHANGED <<vars, imageVars>>
  /\ UNCHANGED part

MCSpec == MCInit /\ [][MCNext]_<<part, vars, imageVars, dependencyVars>>

\* What index.json lists can be fetched intact at every moment (publish.go).
IndexFetchable == Img!ListedStored

\* spec.md:126, of a pushed image: all that lies below what a tag names can be resolved
\* (mergeIndexes).
TagsResolve == part = "apps" => Img!NestedListed

\* A publication changes its own tag only (mergeIndexes).
OneTagChanges == Img!OneTagChanges

\* An image that setup or install counts as mirrored is there as a whole (publish.go).
EnsuredFetchable == Img!EnsuredFetchable

\* All that the dependency manifest or the launch template of a node group names is
\* stored (dependencies.go, retention.go, setup.go).
NamedStored == Deps!NamedStored

\* Setup deletes only what docs/spec.md:182 lets it delete (retention.go).
RetentionHonoured == Deps!RetentionHonoured
=============================================================================
