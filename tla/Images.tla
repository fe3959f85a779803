------------------------------- MODULE Images -------------------------------
(***************************************************************************)
(* Image publication (cli/images): Push uploads a cached OCI repository    *)
(* blob by blob and then merges one tag into the repository's index.json   *)
(* with a conditional write.  Setup and install go through Mirrored first, *)
(* validate the local cache, and then either upload and merge (Mirror) or  *)
(* merge only (PublishMirrorIndex, when the dependency manifest records    *)
(* the image).  The read-only registry resolves a digest through           *)
(* index.json, so every manifest below an image index needs a descriptor.  *)
(*                                                                         *)
(* One repository.  A digest stands for a manifest with its layers, or for *)
(* an image index; nested[d] is all that lies below d.  The version of     *)
(* index.json is its content.  Sizes and progress are left out.            *)
(***************************************************************************)
EXTENDS Naturals, FiniteSets

CONSTANTS Publisher, Cache, Tag, Digest, None,
          cacheOf,      \* [Publisher -> Cache]: commands on one machine share a cache
          nested,       \* [Digest -> SUBSET Digest]; empty for a plain manifest
          Source,       \* digests a source tag may name
          Legacy,       \* what an earlier release published: a set of descriptors
          MaxCalls,     \* bound on started commands
          MaxRot        \* bound on cached blobs that decay on disk

ImagesAssumption ==
  /\ nested \in [Digest -> SUBSET Digest] /\ Source \subseteq Digest
  /\ \A d \in Digest : d \notin nested[d] /\ \A c \in nested[d] : nested[c] \subseteq nested[d]
  /\ cacheOf \in [Publisher -> Cache]
  /\ None \notin Tag /\ Legacy \subseteq [tag : Tag \cup {None}, digest : Digest]

VARIABLES
  blobs,      \* digest to the state of its object: "absent", "good" or "bad"
  index,      \* descriptors of index.json: [tag, digest], or None when it is absent
  recorded,   \* digests the dependency manifest may name: Mirror finished for them
  cache,      \* machine to its cached repository: tags to digests, digests to blobs
  run,        \* publisher to its call, or None
  answer,     \* history: the digest an image check or a Mirror last vouched for, or None
  calls, rot

vars == <<blobs, index, recorded, cache, run, answer, calls, rot>>

Content(d) == {d} \cup nested[d]
Listed == IF index = None THEN {} ELSE index
Digests(i) == {e.digest : e \in i}

\* The repository holds what was published earlier; the machines have nothing cached.
Init(earlier) ==
  /\ blobs = [d \in Digest |-> IF \E e \in earlier : d \in Content(e.digest) THEN "good" ELSE "absent"]
  /\ index = IF earlier = {} THEN None ELSE earlier
  /\ recorded = Digests(earlier)
  /\ cache = [c \in Cache |-> [tag |-> [t \in Tag |-> None], blob |-> [d \in Digest |-> "absent"]]]
  /\ run = [p \in Publisher |-> None] /\ answer = None /\ calls = 0 /\ rot = 0

Call(pc, kind, t, want) ==
  [pc |-> pc, kind |-> kind, tag |-> t, want |-> want, left |-> {}, digest |-> None, version |-> None]

At(p, pc) == run[p] # None /\ run[p].pc = pc
Local(p) == cache[cacheOf[p]]

Return(p) == run' = [run EXCEPT ![p] = None]

\* Push pulls when asked to, or when the tag is not cached; it does not look at blobs.
StartPush(p, t, refresh) ==
  /\ run[p] = None /\ calls < MaxCalls /\ calls' = calls + 1
  /\ run' = [run EXCEPT ![p] = Call(IF refresh \/ Local(p).tag[t] = None THEN "validate" ELSE "walk",
                                    "push", t, None)]
  /\ UNCHANGED <<blobs, index, recorded, cache, answer, rot>>

\* Descriptors for everything below d, and the blobs of the image indexes.
publishedIndexComplete(d) ==
  \A c \in Content(d) : c \in Digests(Listed) /\ (nested[c] # {} => blobs[c] # "absent")

\* Mutant of Complete: only the tag's own digest is compared.
CompleteByTag(t, d) == [tag |-> t, digest |-> d] \in Listed

\* The tag names the expected digest and the registry can resolve all of it.
Complete(t, d) == [tag |-> t, digest |-> d] \in Listed /\ publishedIndexComplete(d)

\* Setup and install: nothing to do when the image is mirrored; setup publishes only the
\* index of an image the manifest records.
Mirrored(p, t, d) ==
  /\ run[p] = None /\ calls < MaxCalls /\ calls' = calls + 1
  /\ \/ Complete(t, d) /\ answer' = d /\ UNCHANGED run
     \/ /\ ~Complete(t, d) /\ UNCHANGED answer
        /\ \E kind \in {"mirror"} \cup (IF d \in recorded THEN {"repair"} ELSE {}) :
             run' = [run EXCEPT ![p] = Call("validate", kind, t, d)]
  /\ UNCHANGED <<blobs, index, recorded, cache, rot>>

\* Blobs whose content does not hash to their name are removed.
validateCache(blob) == [d \in Digest |-> IF blob[d] = "bad" THEN "absent" ELSE blob[d]]

\* The image and everything below it validates.
cacheComplete(blob, d) == \A c \in Content(d) : blob[c] = "good"

\* PullIfMissing ends here when the wanted digest is cached completely.
Validate(p) ==
  /\ At(p, "validate")
  /\ LET blob == validateCache(Local(p).blob)
         cached == /\ run[p].kind # "push" /\ Local(p).tag[run[p].tag] = run[p].want
                   /\ cacheComplete(blob, run[p].want)
     IN  /\ cache' = [cache EXCEPT ![cacheOf[p]].blob = blob]
         /\ run' = [run EXCEPT ![p].pc = IF ~cached THEN "fetch"
                                         ELSE IF run[p].kind = "repair" THEN "read" ELSE "walk"]
  /\ UNCHANGED <<blobs, index, recorded, answer, calls, rot>>

\* The store pulls what the source tag names now, reusing the blobs that are present.
Fetch(p, d) ==
  /\ At(p, "fetch") /\ (run[p].kind # "push" => d = run[p].want)
  /\ cache' = [cache EXCEPT
       ![cacheOf[p]].tag[run[p].tag] = d,
       ![cacheOf[p]].blob = [b \in Digest |-> IF b \in Content(d) /\ @[b] = "absent" THEN "good" ELSE @[b]]]
  /\ run' = [run EXCEPT ![p].pc = IF run[p].kind = "repair" THEN "read" ELSE "walk"]
  /\ UNCHANGED <<blobs, index, recorded, answer, calls, rot>>

\* uploadTree lists the cached blobs, those of other tags included.
Walk(p) ==
  /\ At(p, "walk")
  /\ run' = [run EXCEPT ![p].pc = "upload",
                        ![p].left = {d \in Digest : Local(p).blob[d] # "absent"}]
  /\ UNCHANGED <<blobs, index, recorded, cache, answer, calls, rot>>

Upload(p, d) ==
  /\ At(p, "upload") /\ d \in run[p].left /\ Local(p).blob[d] # "absent"
  /\ blobs' = [blobs EXCEPT ![d] = Local(p).blob[d]]
  /\ run' = [run EXCEPT ![p].left = @ \ {d}]
  /\ UNCHANGED <<index, recorded, cache, answer, calls, rot>>

\* Mutant of Uploaded: index.json is published before the last blob.
UploadedMost(left) == Cardinality(left) <= 1

\* The blobs come first.
Uploaded(left) == left = {}

\* The local index.json is read only now, and then the published one.
ReadIndex(p) ==
  /\ At(p, "read") \/ (At(p, "upload") /\ Uploaded(run[p].left))
  /\ \A c \in Content(Local(p).tag[run[p].tag]) : nested[c] # {} => Local(p).blob[c] = "good"
  /\ run' = [run EXCEPT ![p].pc = "put", ![p].version = index, ![p].digest = Local(p).tag[run[p].tag]]
  /\ UNCHANGED <<blobs, index, recorded, cache, answer, calls, rot>>

\* The tag is replaced; nested manifests that no kept descriptor lists are added.
mergeIndexes(existing, t, d) ==
  LET kept == {e \in existing : e.tag # t}
      seen == Digests(kept) \cup {d}
  IN  kept \cup {[tag |-> t, digest |-> d]} \cup {[tag |-> None, digest |-> c] : c \in nested[d] \ seen}

\* Mutant of Matches: index.json is replaced unconditionally.
MatchesAny(version) == TRUE

\* PutIfMatch: the object is still the one that was read.
Matches(version) == version = index

\* The merged index is written, or the command fails on the conflict: there is no retry.
PutIndex(p) ==
  /\ At(p, "put") /\ Return(p)
  /\ IF Matches(run[p].version)
     THEN /\ index' = mergeIndexes(IF run[p].version = None THEN {} ELSE run[p].version,
                                   run[p].tag, run[p].digest)
          /\ answer' = IF run[p].kind = "push" THEN answer ELSE run[p].want
          /\ recorded' = recorded \cup (IF run[p].kind = "mirror" THEN {run[p].want} ELSE {})
     ELSE UNCHANGED <<index, answer, recorded>>
  /\ UNCHANGED <<blobs, cache, calls, rot>>

\* A read, download or upload fails, or the command is interrupted; what was stored stays.
Fail(p) == run[p] # None /\ Return(p) /\ UNCHANGED <<blobs, index, recorded, cache, answer, calls, rot>>

\* A cached blob decays on disk between two commands.
Rot(c, d) ==
  /\ rot < MaxRot /\ rot' = rot + 1
  /\ cache[c].blob[d] = "good" /\ \A p \in Publisher : cacheOf[p] = c => run[p] = None
  /\ cache' = [cache EXCEPT ![c].blob[d] = "bad"]
  /\ UNCHANGED <<blobs, index, recorded, run, answer, calls>>

Steps(p) ==
  \/ Validate(p) \/ Walk(p) \/ ReadIndex(p) \/ PutIndex(p) \/ Fail(p)
  \/ \E d \in Digest : Upload(p, d)
  \/ \E d \in Source : Fetch(p, d)

Pushing == \E p \in Publisher, t \in Tag, refresh \in BOOLEAN : StartPush(p, t, refresh)
Mirroring == \E p \in Publisher, t \in Tag, d \in Source : Mirrored(p, t, d)
Running == \E p \in Publisher : Steps(p)
Rotting == \E c \in Cache, d \in Digest : Rot(c, d)

\* apps/ holds what is pushed, mirror/ what setup and install mirror.  A cached push
\* does not validate the cache, so a repository in apps/ is as good as the cache is.
AppsNext == Pushing \/ Running
MirrorNext == Mirroring \/ Running \/ Rotting
AppsSpec == Init({}) /\ [][AppsNext]_vars
MirrorSpec == Init(Legacy) /\ [][MirrorNext]_vars

-----------------------------------------------------------------------------
(* Properties *)

\* Everything index.json lists can be fetched intact, at every moment of every
\* publication (publish.go, "immutable objects first": blobs, then index.json).
ListedStored == \A d \in Digests(Listed) : blobs[d] = "good"

\* Whatever a tag resolves to can be resolved further: each nested manifest has a
\* descriptor.  spec.md:126: "The published top-level index also contains every nested
\* manifest descriptor so the read-only registry can resolve digest requests".
NestedListed == \A e \in Listed : e.tag # None => nested[e.digest] \subseteq Digests(Listed)

TagsOf(i) == [t \in Tag |-> {e.digest : e \in {f \in i : f.tag = t}}]

\* One tag gets one digest, which the new index resolves further, and the others stay.
WritesOneTag ==
  index' # index =>
    \E t \in Tag, d \in Digest :
      /\ TagsOf(index')[t] = {d} /\ nested[d] \subseteq Digests(index')
      /\ \A u \in Tag \ {t} : TagsOf(index')[u] = TagsOf(Listed)[u]

\* A write changes at most one tag and leaves it with one digest and descriptors for all
\* that lies below it: a concurrent publication of another tag is never undone
\* (mergeIndexes and PutIfMatch).
OneTagChanges == [][WritesOneTag]_vars

\* The image that is vouched for is listed and stored with all that lies below it.
AnswersWhole ==
  answer' # answer => \A d \in Content(answer') : d \in Digests(index') /\ blobs'[d] = "good"

\* When setup or install goes on, a node can fetch the whole image, whatever an
\* earlier release or an interrupted command left (Mirrored, Mirror, PublishMirrorIndex).
EnsuredFetchable == [][AnswersWhole]_vars
=============================================================================
