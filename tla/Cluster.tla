------------------------------ MODULE Cluster ------------------------------
(***************************************************************************)
(* The life of a cluster: connect, setup, teardown, destroy and disconnect *)
(* (cli/cmd, cli/infra, cloud/aws), run by processes of one machine and    *)
(* interrupted anywhere.  The cluster is a bucket, two certificate         *)
(* authority secrets and infrastructure; the machine keeps a context and a *)
(* generated infrastructure directory, of which podmin.auto.tfvars.json is *)
(* written last.                                                           *)
(*                                                                         *)
(* OpenTofu or Terraform is external: it locks the state in the bucket for *)
(* each plan and apply, records every resource as it changes, and refuses  *)
(* a saved plan that the state has moved away from.  Dependencies, NAT64   *)
(* waiting and dependency cleanup are in their own modules.                *)
(***************************************************************************)
EXTENDS Naturals

CONSTANTS Process, Resource, None,
          Commands,     \* the commands that are run
          MaxStarts,    \* bound on started commands
          MaxTorn       \* bound on interrupted writes of the local variables

Object == {"tfvars", "tfstate", "ca.json"}
Lock == [id : Nat, phase : {"planning", "applying"}, retried : BOOLEAN]

ClusterAssumption ==
  /\ MaxStarts \in Nat /\ MaxTorn \in Nat
  /\ Commands \subseteq {"connect", "setup", "teardown", "destroy", "disconnect"}
  /\ None \notin Lock /\ \A some \in SUBSET Object : None # some

VARIABLES
  bucket,      \* names of the objects of interest in the bucket, or None
  key,         \* the workload CA secret: the command that generated it, or None
  clusterCA,   \* likewise the cluster CA secret
  caKey,       \* the key that identity/ca.json was signed with, when that object exists
  infra,       \* resources that exist
  lock,        \* the identity of the state lock, fresh for every engine run, or None
  context,     \* whether the cluster is the machine's current context
  local,       \* the local variables: "absent", "torn" or "whole"
  run,         \* process to its command, or None
  unfinished,  \* history: a destroy has deleted the workload key but not yet the bucket
  starts, torn

vars == <<bucket, key, clusterCA, caKey, infra, lock, context, local, run, unfinished, starts, torn>>

cloud == <<bucket, key, clusterCA, caKey, infra, lock>>
machine == <<context, local>>
bounds == <<starts, torn>>

Has(o) == bucket # None /\ o \in bucket
\* What the engine's state records; without a state it knows of nothing.
Recorded == IF Has("tfstate") THEN infra ELSE {}

Init ==
  /\ bucket = None /\ key = None /\ clusterCA = None /\ caKey = None /\ infra = {} /\ lock = None
  /\ context = FALSE /\ local = "absent" /\ run = [p \in Process |-> None]
  /\ unfinished = FALSE /\ starts = 0 /\ torn = 0

At(p, pc) == run[p] # None /\ run[p].pc = pc
Goto(p, pc) == run' = [run EXCEPT ![p].pc = pc]
Return(p) == run' = [run EXCEPT ![p] = None]

Destroys(kind) == kind \in {"teardown", "destroy"}
Target(kind) == IF Destroys(kind) THEN {} ELSE Resource

FirstStep == [connect |-> "ensure", setup |-> "key", teardown |-> "restore",
              destroy |-> "restore", disconnect |-> "forget"]

\* Every command but connect needs the current context.
Start(p, kind) ==
  /\ run[p] = None /\ starts < MaxStarts /\ starts' = starts + 1
  /\ kind \in Commands /\ (kind # "connect" => context)
  /\ run' = [run EXCEPT ![p] = [pc |-> FirstStep[kind], kind |-> kind, id |-> starts,
                                plan |-> {}, seen |-> None, retried |-> FALSE]]
  /\ UNCHANGED <<cloud, machine, unfinished, torn>>

\* EnsureBucket creates an absent bucket.
EnsureBucket(p) ==
  /\ At(p, "ensure") /\ Goto(p, "remember")
  /\ bucket' = IF bucket = None THEN {} ELSE bucket
  /\ UNCHANGED <<key, clusterCA, caKey, infra, lock, machine, unfinished, bounds>>

Remember(p) ==
  /\ At(p, "remember") /\ context' = TRUE /\ Return(p)
  /\ UNCHANGED <<cloud, local, unfinished, bounds>>

\* Mutant of Create: the secret is overwritten.
CreateOver(old, new) == new

\* A secret that exists is left alone.
Create(old, new) == IF old = None THEN new ELSE old

\* ensureCertificateAuthorities; setup has read and written the bucket before.
CreateKey(p) ==
  /\ At(p, "key") /\ bucket # None /\ key' = Create(key, run[p].id) /\ Goto(p, "ca")
  /\ UNCHANGED <<bucket, clusterCA, caKey, infra, lock, machine, unfinished, bounds>>

AfterCA == "save"

CreateCA(p) ==
  /\ At(p, "ca") /\ clusterCA' = Create(clusterCA, run[p].id) /\ Goto(p, AfterCA)
  /\ UNCHANGED <<bucket, key, caKey, infra, lock, machine, unfinished, bounds>>

\* tfstate/podmin.auto.tfvars.json
SaveVariables(p) ==
  /\ At(p, "save") /\ bucket # None /\ bucket' = bucket \cup {"tfvars"} /\ Goto(p, "prepare")
  /\ UNCHANGED <<key, clusterCA, caKey, infra, lock, machine, unfinished, bounds>>

\* Restore: the local variables are used when there are any, the saved ones otherwise.
Restore(p) ==
  /\ At(p, "restore")
  /\ \/ local # "absent" /\ Goto(p, "plan")
     \/ local = "absent" /\ Has("tfvars") /\ Goto(p, "prepare")
     \/ local = "absent" /\ ~Has("tfvars") /\ Return(p)
  /\ UNCHANGED <<cloud, machine, unfinished, bounds>>

\* The generated files are removed and the module is written again ...
Prepare(p) ==
  /\ At(p, "prepare") /\ local' = "absent" /\ Goto(p, "write")
  /\ UNCHANGED <<cloud, context, unfinished, bounds>>

\* ... and the variables last.
WriteVariables(p) ==
  /\ At(p, "write") /\ local' = "whole" /\ Goto(p, "plan")
  /\ UNCHANGED <<cloud, context, unfinished, bounds>>

Engine == {"planning", "applying"}

\* Mutant of AfterFailure: destroy goes on when the engine fails.
AfterFailureGoesOn(kind) == IF kind = "destroy" THEN "destroykey" ELSE "return"

\* An engine that fails ends the command.
AfterFailure(kind) == "return"

EngineFails(p) == IF AfterFailure(run[p].kind) = "return" THEN Return(p)
                  ELSE Goto(p, AfterFailure(run[p].kind))

\* A lock held by somebody else: teardown, once, looks into it.
Locked(p) ==
  /\ At(p, "plan") \/ At(p, "apply")
  /\ lock # None /\ bucket # None /\ local = "whole"
  /\ IF run[p].kind = "teardown" /\ ~run[p].retried
     THEN run' = [run EXCEPT ![p] = [@ EXCEPT !.pc = "locked", !.plan = {}, !.seen = lock]]
     ELSE EngineFails(p)
  /\ UNCHANGED <<cloud, machine, unfinished, bounds>>

\* Without a bucket or usable variables the engine fails at once.
Unusable(p) ==
  /\ At(p, "plan") \/ At(p, "apply")
  /\ bucket = None \/ local # "whole"
  /\ EngineFails(p)
  /\ UNCHANGED <<cloud, machine, unfinished, bounds>>

LockID(p, phase) == [id |-> run[p].id, phase |-> phase, retried |-> run[p].retried]

Acquire(p) ==
  /\ At(p, "plan") \/ At(p, "apply")
  /\ lock = None /\ bucket # None /\ local = "whole"
  /\ LET phase == IF At(p, "plan") THEN "planning" ELSE "applying"
     IN  lock' = LockID(p, phase) /\ Goto(p, phase)
  /\ UNCHANGED <<bucket, key, clusterCA, caKey, infra, machine, unfinished, bounds>>

\* An engine gives back its own lock only.
Released(p) == IF lock = LockID(p, run[p].pc) THEN None ELSE lock

\* What follows a completed engine run.
AfterEngine(p) == IF run[p].kind = "destroy" THEN Goto(p, "destroykey") ELSE Return(p)

\* Exit code 0 of plan: nothing to change.  Exit code 2: a plan to apply.
Plan(p) ==
  /\ At(p, "planning") /\ lock' = Released(p)
  /\ IF Recorded = Target(run[p].kind) THEN AfterEngine(p)
     ELSE run' = [run EXCEPT ![p] = [@ EXCEPT !.pc = "apply", !.plan = Recorded]]
  /\ UNCHANGED <<bucket, key, clusterCA, caKey, infra, machine, unfinished, bounds>>

\* Confirmation is refused.
Refuse(p) ==
  /\ At(p, "apply") /\ run[p].kind # "destroy" /\ Return(p)
  /\ UNCHANGED <<cloud, machine, unfinished, bounds>>

Finished(p) == Recorded = Target(run[p].kind)

\* One resource is created or deleted, and recorded; a stale plan fails.
Change(p, r) ==
  /\ At(p, "applying") /\ ~Finished(p) /\ run[p].plan = Recorded /\ bucket # None
  /\ infra' = IF Destroys(run[p].kind) THEN infra \ {r} ELSE infra \cup {r}
  /\ infra' # infra
  /\ bucket' = bucket \cup {"tfstate"}
  /\ run' = [run EXCEPT ![p].plan = infra']
  /\ UNCHANGED <<key, clusterCA, caKey, lock, machine, unfinished, bounds>>

Applied(p) ==
  /\ At(p, "applying") /\ lock' = Released(p)
  /\ \/ Finished(p) /\ AfterEngine(p)
     \/ ~Finished(p) /\ EngineFails(p)
  /\ UNCHANGED <<bucket, key, clusterCA, caKey, infra, machine, unfinished, bounds>>

\* The engines running on this machine.
ActiveCommands == {p \in Process : run[p] # None /\ run[p].pc \in Engine}

\* Teardown gives up while an engine runs here, or when the operator does not confirm.
Inspect(p) ==
  /\ At(p, "locked")
  /\ \/ ActiveCommands = {} /\ Goto(p, "unlock")
     \/ Return(p)
  /\ UNCHANGED <<cloud, machine, unfinished, bounds>>

ForceUnlock(p) ==
  /\ At(p, "unlock")
  /\ IF lock = run[p].seen
     THEN /\ lock' = None
          /\ run' = [run EXCEPT ![p] = [@ EXCEPT !.pc = "plan", !.seen = None, !.retried = TRUE]]
     ELSE UNCHANGED lock /\ Return(p)
  /\ UNCHANGED <<bucket, key, clusterCA, caKey, infra, machine, unfinished, bounds>>

DestroyKey(p) ==
  /\ At(p, "destroykey") /\ key' = None /\ Goto(p, "destroyca")
  /\ unfinished' = (bucket # None)
  /\ UNCHANGED <<bucket, clusterCA, caKey, infra, lock, machine, bounds>>

DestroyCA(p) ==
  /\ At(p, "destroyca") /\ clusterCA' = None /\ Goto(p, "empty")
  /\ UNCHANGED <<bucket, key, caKey, infra, lock, machine, unfinished, bounds>>

\* EmptyAndDeleteBucket: batches of objects, the state's lock among them, ...
EmptyBucket(p, some) ==
  /\ At(p, "empty") /\ bucket # None /\ some \subseteq bucket /\ some # {}
  /\ bucket' = bucket \ some
  /\ lock' \in {lock, None}
  /\ UNCHANGED <<key, clusterCA, caKey, infra, machine, run, unfinished, bounds>>

\* ... then the bucket.
DeleteBucket(p) ==
  /\ At(p, "empty") /\ bucket = {} /\ bucket' = None /\ lock' = None
  /\ unfinished' = FALSE /\ Goto(p, "forget")
  /\ UNCHANGED <<key, clusterCA, caKey, infra, machine, bounds>>

\* The context goes first, then the generated directory.
Forget(p) ==
  /\ At(p, "forget") /\ context' = FALSE /\ Goto(p, "clean")
  /\ UNCHANGED <<cloud, local, unfinished, bounds>>

Clean(p) ==
  /\ At(p, "clean") /\ local' = "absent" /\ Return(p)
  /\ UNCHANGED <<cloud, context, unfinished, bounds>>

\* A call fails or the process ends.  An engine may leave its lock, a write half a file.
Interrupt(p) ==
  /\ run[p] # None /\ Return(p)
  /\ lock' \in IF run[p].pc \in Engine THEN {lock, Released(p)} ELSE {lock}
  /\ \/ UNCHANGED <<local, torn>>
     \/ run[p].pc = "write" /\ torn < MaxTorn /\ torn' = torn + 1 /\ local' = "torn"
  /\ UNCHANGED <<bucket, key, clusterCA, caKey, infra, context, unfinished, starts>>

\* The elected agent of a running node writes identity/ca.json once.
PublishCA ==
  /\ infra # {} /\ key # None /\ bucket # None /\ ~Has("ca.json")
  /\ bucket' = bucket \cup {"ca.json"} /\ caKey' = key
  /\ UNCHANGED <<key, clusterCA, infra, lock, machine, run, unfinished, bounds>>

Step(p) ==
  \/ EnsureBucket(p) \/ Remember(p)
  \/ CreateKey(p) \/ CreateCA(p) \/ SaveVariables(p)
  \/ Restore(p) \/ Prepare(p) \/ WriteVariables(p)
  \/ Locked(p) \/ Unusable(p) \/ Acquire(p) \/ Plan(p) \/ Refuse(p) \/ Applied(p)
  \/ \E r \in Resource : Change(p, r)
  \/ Inspect(p) \/ ForceUnlock(p)
  \/ DestroyKey(p) \/ DestroyCA(p) \/ DeleteBucket(p) \/ Forget(p) \/ Clean(p)
  \/ bucket # None /\ \E some \in SUBSET bucket : EmptyBucket(p, some)

Next ==
  \/ PublishCA
  \/ \E p \in Process : Step(p) \/ Interrupt(p) \/ \E kind \in Commands : Start(p, kind)

Spec == Init /\ [][Next]_vars

-----------------------------------------------------------------------------
(* Properties *)

\* Infrastructure is never left without the state that records it: destroy deletes
\* the bucket only after the engine removed everything (destroy.go).
InfraTracked == infra # {} => Has("tfstate")

\* Infrastructure is never left without its variables: setup saves them in the bucket
\* before it creates anything, whatever is interrupted and whatever becomes of the local
\* ones, so a teardown that finds none restores them (restore.go).
VariablesSaved == infra # {} => Has("tfvars")

\* An idle machine can remove what there is: its variables are whole or can be restored.
\* infra.md:23: "An interrupted setup can therefore be removed with `podmin teardown`."
TeardownRestores ==
  (infra # {} /\ context /\ \A p \in Process : run[p] = None) =>
    local = "whole" \/ (local = "absent" /\ Has("tfvars"))

\* Setup, teardown and setup again keep the trust: the published CA state was made with
\* the stored key (spec.md:63), until a destroy begins to delete the authorities.
TrustKept == (Has("ca.json") /\ key # None /\ ~unfinished) => caKey = key

\* Two engines never change the state at once, also after a lock was broken
\* (teardown.go: local engines are looked for before a lock is broken by its identity).
OneEngine == \A p, q \in Process : At(p, "applying") /\ At(q, "applying") => p = q

\* Infrastructure keeps its state and its variables, and is changed by one engine at a
\* time (setup.go, destroy.go, teardown.go).
InfraRemovable == InfraTracked /\ VariablesSaved /\ OneEngine
=============================================================================
