------------------------------- MODULE Nat64 -------------------------------
(***************************************************************************)
(* The handoff of a NAT64 gateway's stable network interface.  Each        *)
(* gateway is an Auto Scaling group of one instance; setup stamps a new    *)
(* generation on the interface and on the launch template and replaces the *)
(* instance, launch before terminate.  The replacement runs                *)
(* cli/infra/aws/nat64.sh.tftpl, which takes the interface from its        *)
(* previous owner, probes it and completes its launch, or gives it back;   *)
(* setup waits for the outcome in cloud/aws/nat64.go.                      *)
(*                                                                         *)
(* The Auto Scaling group and the interface are AWS's and are modelled     *)
(* from the calls the script and setup make.  Instance and attachment      *)
(* identifiers are never reused in AWS: here one is reused only when       *)
(* nothing running refers to it.                                           *)
(***************************************************************************)
EXTENDS Naturals, FiniteSets

CONSTANTS
  Instance, Attachment, None,
  First,                \* the instance that serves before the first setup
  Budgets               \* bounds: how many setups, local failures (installation, the
                        \* probe), failures of AWS calls and heartbeats, deaths of
                        \* instances in service and abandoned refreshes there are

Nat64Assumption ==
  /\ First \in Instance
  /\ None \notin Instance \cup Attachment
  /\ \A used \in [Instance -> Attachment \cup {None}], a \in Attachment \cup {None} :
       \E b \in Attachment : b # a /\ \A i \in Instance : b # used[i]   \* see Fresh
  /\ Budgets \subseteq [{"setups", "probes", "faults", "deaths", "refusals"} -> Nat]

VARIABLES
  eni,          \* the stable interface: generation tag, attachment and owner
  life,         \* each instance: gone, wait, service or terminating
  gen,          \* the generation an instance was launched with
  run,          \* the bootstrap script of each instance
  group,        \* template generation, the refresh and what it replaces
  setup,        \* podmin setup's progress
  budget        \* the setups and failures left

vars == <<eni, life, gen, run, group, setup, budget>>

Off == [pc |-> "off", previous |-> None, owner |-> None, attachment |-> None,
        handoff |-> FALSE, attempted |-> FALSE]

Init ==
  /\ eni \in {[generation |-> 1, owner |-> First, attachment |-> a,
               status |-> "attached"] :
                 a \in {CHOOSE x \in Attachment : TRUE}}
  /\ life = [i \in Instance |-> IF i = First THEN "service" ELSE "gone"]
  /\ gen = [i \in Instance |-> 1]
  /\ run = [i \in Instance |-> Off]
  /\ group = [template |-> 1, refresh |-> "none", old |-> {},
              abandoned |-> FALSE]
  /\ setup = [pc |-> "idle", seen |-> None]
  /\ budget \in Budgets

Alive == {i \in Instance : life[i] \in {"wait", "service"}}
in_asg(i) == i # None /\ life[i] # "gone"

Spend(kind) ==
  /\ budget[kind] > 0
  /\ budget' = [budget EXCEPT ![kind] = @ - 1]

(***************************************************************************)
(* The interface                                                           *)
(***************************************************************************)
Available == eni.owner = None

Referenced == {eni.attachment} \cup {run[i].attachment : i \in Instance}

(* detach-network-interface names an attachment, which must still exist.   *)
Detachable(i) == run[i].attachment = eni.attachment

Detach == eni' = [eni EXCEPT !.status = "detaching"]

(* attach-network-interface needs an available interface and a live        *)
(* instance, and answers with a new attachment.                            *)
Fresh == CHOOSE a \in Attachment : a \notin Referenced

Attach(i) == eni' = [eni EXCEPT !.owner = i, !.status = "attaching",
                                !.attachment = Fresh]

Released == [eni EXCEPT !.owner = None, !.attachment = None,
                        !.status = "available"]

FinishDetach ==
  /\ eni.status = "detaching"
  /\ eni' = Released
  /\ UNCHANGED <<life, gen, run, group, setup, budget>>

FinishAttach ==
  /\ eni.status = "attaching"
  /\ eni' = [eni EXCEPT !.status = "attached"]
  /\ UNCHANGED <<life, gen, run, group, setup, budget>>

(***************************************************************************)
(* The bootstrap script                                                    *)
(***************************************************************************)
Goto(i, pc) == run' = [run EXCEPT ![i].pc = pc]

(* The trap on exit runs cleanup, which starts with what the script did.   *)
CleanupFrom(i) ==
  CASE run[i].attempted -> "completion"
    [] run[i].handoff /\ ~run[i].attempted -> "rollback"
    [] OTHER -> "abandon"

Quit(i) == Goto(i, CleanupFrom(i))

(* describe_eni: the owner and the attachment of this moment.              *)
Describe(i, pc) ==
  run' = [run EXCEPT ![i] = [@ EXCEPT !.pc = pc, !.owner = eni.owner,
                                      !.attachment = eni.attachment]]

(* Packages, modules, configuration and the local probe are prepared while *)
(* the old instance still owns the interface.                              *)
Install(i) ==
  /\ run[i].pc = "install"
  /\ IF life[i] = "wait" THEN Goto(i, "verify") ELSE Quit(i)
  /\ UNCHANGED <<eni, life, gen, group, setup, budget>>

(* Mutant of Verified: the generation is not compared.                     *)
VerifiedAny(i) ==
  /\ life[i] = "wait"
  /\ eni.owner = None \/ in_asg(eni.owner)

(* The launch still waits, the tag is this script's generation and the     *)
(* owner is a member of the group.                                         *)
Verified(i) ==
  /\ life[i] = "wait" /\ eni.generation = gen[i]
  /\ eni.owner = None \/ in_asg(eni.owner)

Verify(i) ==
  /\ run[i].pc = "verify"
  /\ IF Verified(i)
       THEN run' = [run EXCEPT ![i] =
              [@ EXCEPT !.pc = CASE eni.owner = i -> "probe"
                                 [] eni.owner = None -> "claim"
                                 [] OTHER -> "detach",
                        !.previous = eni.owner, !.owner = eni.owner,
                        !.attachment = eni.attachment,
                        !.handoff = eni.owner # i]]
       ELSE Quit(i)
  /\ UNCHANGED <<eni, life, gen, group, setup, budget>>

DetachPrevious(i) ==
  /\ run[i].pc = "detach"
  /\ IF Detachable(i) THEN Detach /\ Goto(i, "available")
                      ELSE Quit(i) /\ UNCHANGED eni
  /\ UNCHANGED <<life, gen, group, setup, budget>>

(* The wait for the interface ends when it is available; when another      *)
(* candidate holds it, the wait times out.                                 *)
AwaitAvailable(i) ==
  /\ run[i].pc = "available"
  /\ \/ Available /\ Goto(i, "claim")
     \/ ~Available /\ eni.attachment # run[i].attachment /\ Quit(i)
  /\ UNCHANGED <<eni, life, gen, group, setup, budget>>

Claim(i) ==
  /\ run[i].pc = "claim"
  /\ IF eni.generation = gen[i] /\ eni.owner = None
       THEN Describe(i, "attach") ELSE Quit(i)
  /\ UNCHANGED <<eni, life, gen, group, setup, budget>>

AttachSelf(i) ==
  /\ run[i].pc = "attach"
  /\ IF Available
       THEN /\ Attach(i)
            /\ run' = [run EXCEPT ![i] = [@ EXCEPT !.pc = "attached",
                                                   !.attachment = Fresh]]
       ELSE Quit(i) /\ UNCHANGED eni
  /\ UNCHANGED <<life, gen, group, setup, budget>>

(* Up to forty looks: attached under the attachment just made.             *)
AwaitAttached(i) ==
  /\ run[i].pc = "attached"
  /\ \/ Detachable(i) /\ eni.status = "attached" /\ Goto(i, "probe")
     \/ (~Detachable(i) \/ eni.status = "detaching") /\ Quit(i)
  /\ UNCHANGED <<eni, life, gen, group, setup, budget>>

(* The real translated connection works only through the interface.        *)
Probe(i) ==
  /\ run[i].pc = "probe"
  /\ IF eni.owner = i THEN Goto(i, "commit") ELSE Quit(i)
  /\ UNCHANGED <<eni, life, gen, group, setup, budget>>

Commit(i) ==
  /\ run[i].pc = "commit"
  /\ IF eni.owner = i /\ eni.generation = gen[i]
       THEN run' = [run EXCEPT ![i] = [@ EXCEPT !.pc = "complete",
                                                !.attempted = TRUE]]
       ELSE Quit(i)
  /\ UNCHANGED <<eni, life, gen, group, setup, budget>>

(* complete-lifecycle-action CONTINUE: refused once the launch no longer   *)
(* waits.                                                                  *)
Complete(i) ==
  /\ run[i].pc = "complete"
  /\ IF life[i] = "wait"
       THEN life' = [life EXCEPT ![i] = "service"] /\ Goto(i, "off")
       ELSE Quit(i) /\ UNCHANGED life
  /\ UNCHANGED <<eni, gen, group, setup, budget>>

(***************************************************************************)
(* cleanup                                                                 *)
(***************************************************************************)
(* A launch whose completion was tried is looked up before the rollback:   *)
(* one that did complete keeps the interface.                              *)
CheckCompletion(i) ==
  /\ run[i].pc = "completion"
  /\ Goto(i, IF life[i] = "service" THEN "off" ELSE "rollback")
  /\ UNCHANGED <<eni, life, gen, group, setup, budget>>

(* Where the rollback goes on after a describe; a detach from the previous *)
(* owner that was under way is waited for, once.                           *)
RestoreFrom(i) ==
  CASE /\ eni.owner = run[i].previous /\ eni.status = "detaching"
       /\ run[i].pc # "settle" -> "settle"
    [] eni.owner = None /\ eni.generation = gen[i] -> "restore"
    [] OTHER -> "abandon"

Rollback(i) ==
  /\ run[i].pc = "rollback"
  /\ Describe(i, IF eni.generation # gen[i] THEN "abandon"
                 ELSE IF eni.owner = i THEN "release" ELSE RestoreFrom(i))
  /\ UNCHANGED <<eni, life, gen, group, setup, budget>>

ReleaseSelf(i) ==
  /\ run[i].pc = "release"
  /\ IF Detachable(i) THEN Detach ELSE UNCHANGED eni
  /\ Goto(i, "released")
  /\ UNCHANGED <<life, gen, group, setup, budget>>

(* The wait, which times out when another candidate has the interface, and *)
(* the describe that follows it.                                           *)
AwaitReleased(i) ==
  /\ run[i].pc \in {"released", "settle"}
  /\ eni.attachment # run[i].attachment
  /\ Describe(i, RestoreFrom(i))
  /\ UNCHANGED <<eni, life, gen, group, setup, budget>>

(* The interface goes back to the previous owner if that is still a member *)
(* of the group; the call's error is ignored.                              *)
Restore(i) ==
  /\ run[i].pc = "restore"
  /\ IF Available /\ in_asg(run[i].previous) THEN Attach(run[i].previous)
                                             ELSE UNCHANGED eni
  /\ Goto(i, "abandon")
  /\ UNCHANGED <<life, gen, group, setup, budget>>

Abandoned == [group EXCEPT !.abandoned = TRUE]

(* Mutant of Abandon: the launch is not abandoned.                         *)
AbandonNever(i) ==
  /\ run[i].pc = "abandon"
  /\ Goto(i, "heartbeat")
  /\ UNCHANGED <<eni, life, gen, group, setup, budget>>

(* complete-lifecycle-action ABANDON, and the script exits with its        *)
(* heartbeat.                                                              *)
Abandon(i) ==
  /\ run[i].pc = "abandon"
  /\ IF life[i] = "wait"
       THEN life' = [life EXCEPT ![i] = "terminating"] /\ group' = Abandoned
       ELSE UNCHANGED <<life, group>>
  /\ Goto(i, "off")
  /\ UNCHANGED <<eni, gen, setup, budget>>

(* A local step fails, and set -e ends the script.                         *)
LocalFailure(i) ==
  /\ run[i].pc \in {"install", "probe"} /\ Spend("probes")
  /\ Quit(i)
  /\ UNCHANGED <<eni, life, gen, group, setup>>

(* An AWS call fails: before cleanup the script ends; in cleanup a failed  *)
(* describe skips the restore, and an unanswered look after a completion   *)
(* keeps the interface.                                                    *)
CallFails(i) ==
  /\ run[i].pc \notin {"off", "install", "probe"} /\ Spend("faults")
  /\ Goto(i, CASE run[i].pc \in {"completion", "abandon"} -> "off"
               [] run[i].pc \in {"rollback", "release", "released", "settle",
                                 "restore"} -> "abandon"
               [] OTHER -> CleanupFrom(i))
  /\ UNCHANGED <<eni, life, gen, group, setup>>

(* The answer to CONTINUE is lost: the launch has completed.               *)
AnswerLost(i) ==
  /\ run[i].pc = "complete" /\ life[i] = "wait" /\ Spend("faults")
  /\ life' = [life EXCEPT ![i] = "service"]
  /\ Goto(i, "completion")
  /\ UNCHANGED <<eni, gen, group, setup>>

Script(i) ==
  \/ Install(i) \/ Verify(i) \/ DetachPrevious(i) \/ AwaitAvailable(i)
  \/ Claim(i) \/ AttachSelf(i) \/ AwaitAttached(i) \/ Probe(i) \/ Commit(i)
  \/ Complete(i) \/ CheckCompletion(i) \/ Rollback(i) \/ ReleaseSelf(i)
  \/ AwaitReleased(i) \/ Restore(i) \/ Abandon(i)

(***************************************************************************)
(* The Auto Scaling group                                                  *)
(***************************************************************************)
Unreferenced(i) ==
  /\ eni.owner # i /\ setup.seen # i
  /\ \A j \in Instance \ {i} : i \notin {run[j].previous, run[j].owner}

(* A replacement for a lost instance, or the refresh's new instance beside *)
(* the old one.                                                            *)
Launch(i) ==
  /\ life[i] = "gone" /\ Unreferenced(i)
  /\ \/ Alive = {}
     \/ group.refresh = "InProgress" /\ Cardinality(Alive) = 1
        /\ Alive \subseteq group.old
  /\ life' = [life EXCEPT ![i] = "wait"]
  /\ gen' = [gen EXCEPT ![i] = group.template]
  /\ run' = [run EXCEPT ![i] = [Off EXCEPT !.pc = "install"]]
  /\ UNCHANGED <<eni, group, setup, budget>>

(* A launch whose heartbeat has stopped with its script times out.         *)
Expire(i) ==
  /\ life[i] = "wait" /\ run[i].pc = "off"
  /\ life' = [life EXCEPT ![i] = "terminating"]
  /\ group' = Abandoned
  /\ UNCHANGED <<eni, gen, run, setup, budget>>

LoseHeartbeat(i) ==
  /\ life[i] = "wait" /\ run[i].pc # "off" /\ Spend("faults")
  /\ life' = [life EXCEPT ![i] = "terminating"]
  /\ group' = Abandoned
  /\ UNCHANGED <<eni, gen, run, setup>>

Die(i) ==
  /\ life[i] = "service" /\ Spend("deaths")
  /\ life' = [life EXCEPT ![i] = "terminating"]
  /\ UNCHANGED <<eni, gen, run, group, setup>>

(* The refresh terminates what it replaces once the replacement serves; a  *)
(* launch it finds under way, at once.                                     *)
Replace(i) ==
  /\ group.refresh = "InProgress" /\ i \in group.old
  /\ \/ life[i] = "wait"
     \/ life[i] = "service"
        /\ \E j \in Instance \ group.old : life[j] = "service"
  /\ life' = [life EXCEPT ![i] = "terminating"]
  /\ UNCHANGED <<eni, gen, run, group, setup, budget>>

Refreshed ==
  /\ group.refresh = "InProgress"
  /\ Alive \cap group.old = {} /\ \E j \in Alive : life[j] = "service"
  /\ group' = [group EXCEPT !.refresh = "Successful", !.old = {}]
  /\ UNCHANGED <<eni, life, gen, run, setup, budget>>

GiveUp ==
  /\ group.abandoned /\ group.refresh = "InProgress" /\ Spend("refusals")
  /\ Alive \subseteq group.old
  /\ group' = [group EXCEPT !.refresh = "Failed", !.old = {}]
  /\ UNCHANGED <<eni, life, gen, run, setup>>

(* Shutdown: SIGTERM may still run the script's cleanup, then the instance *)
(* is gone and its attachments with it.                                    *)
Terminate(i) ==
  /\ life[i] = "terminating"
  /\ run[i].pc \in {"install", "verify", "detach", "available", "claim",
                    "attach", "attached", "probe", "commit", "complete"}
  /\ Quit(i)
  /\ UNCHANGED <<eni, life, gen, group, setup, budget>>

Vanish(i) ==
  /\ life[i] = "terminating"
  /\ life' = [life EXCEPT ![i] = "gone"]
  /\ run' = [run EXCEPT ![i] = Off]
  /\ eni' = IF eni.owner = i THEN Released ELSE eni
  /\ group' = [group EXCEPT !.old = @ \ {i}]
  /\ UNCHANGED <<gen, setup, budget>>

(***************************************************************************)
(* podmin setup                                                            *)
(***************************************************************************)
(* The engine tags the interface, on which the launch template depends.    *)
TagInterface ==
  /\ setup.pc = "idle" /\ Spend("setups")
  /\ eni' = [eni EXCEPT !.generation = @ + 1]
  /\ setup' = [setup EXCEPT !.pc = "template"]
  /\ UNCHANGED <<life, gen, run, group>>

(* The new template version, and the refresh of every instance.            *)
StartRefresh ==
  /\ setup.pc = "template"
  /\ group' = [template |-> eni.generation, refresh |-> "InProgress",
               old |-> Alive, abandoned |-> FALSE]
  /\ setup' = [setup EXCEPT !.pc = "wait"]
  /\ UNCHANGED <<eni, life, gen, run, budget>>

(* waitNAT64 ends with the refresh's failure, or after twenty minutes.     *)
WaitFails ==
  /\ setup.pc = "wait"
  /\ setup' = [pc |-> "idle", seen |-> None]
  /\ UNCHANGED <<eni, life, gen, run, group, budget>>

(* nat64Ready: the only instance in service with the current template and  *)
(* this setup's generation.                                                *)
Candidates == {i \in Alive : life[i] = "service" /\ gen[i] = group.template}

ReadGroup ==
  /\ setup.pc = "wait" /\ group.refresh = "Successful"
  /\ \E i \in Candidates : /\ Candidates = {i}
                           /\ setup' = [pc |-> "interface", seen |-> i]
  /\ UNCHANGED <<eni, life, gen, run, group, budget>>

(* It must own the stable interface; otherwise setup polls again.          *)
ReadInterface ==
  /\ setup.pc = "interface"
  /\ setup' = [pc |-> IF eni.owner = setup.seen THEN "idle" ELSE "wait",
               seen |-> None]
  /\ UNCHANGED <<eni, life, gen, run, group, budget>>

Setup == TagInterface \/ StartRefresh \/ WaitFails \/ ReadGroup
         \/ ReadInterface

Aws == FinishDetach \/ FinishAttach \/ Refreshed \/ GiveUp

Failure(i) == LocalFailure(i) \/ CallFails(i) \/ AnswerLost(i)
              \/ LoseHeartbeat(i) \/ Die(i)

Scaling(i) == Launch(i) \/ Expire(i) \/ Replace(i) \/ Terminate(i) \/ Vanish(i)

Next ==
  \/ Aws \/ Setup
  \/ \E i \in Instance : Script(i) \/ Scaling(i) \/ Failure(i)

(* AWS finishes what it was asked to do and keeps the group at its size, a *)
(* script runs until its instance is gone, and the engine finishes setup;  *)
(* nobody owes the system a failure or another setup.                      *)
Fairness ==
  /\ WF_vars(FinishDetach) /\ WF_vars(FinishAttach) /\ WF_vars(Refreshed)
  /\ WF_vars(StartRefresh)
  /\ \A i \in Instance : WF_vars(Script(i)) /\ WF_vars(Vanish(i))
                         /\ WF_vars(Expire(i)) /\ WF_vars(Replace(i))
  /\ WF_vars(\E i \in Instance : Launch(i))

Spec == Init /\ [][Next]_vars /\ Fairness

(***************************************************************************)
(* Properties                                                              *)
(***************************************************************************)
Serving(i) == eni.owner = i /\ eni.status = "attached" /\ life[i] = "service"

(* An instance that serves with the interface's generation keeps the       *)
(* interface as long as it lives, unless a candidate of that generation    *)
(* takes it over: neither an older launch that was slow, nor the rollback  *)
(* of a failed one, takes it away.                                         *)
HandoffForward ==
  \A i \in Instance :
    /\ Serving(i) /\ gen[i] = eni.generation
    /\ eni'.owner # i \/ eni'.status # "attached"
    => \/ life[i] = "terminating"
       \/ \E c \in Instance : /\ run[c].pc = "detach"
                              /\ run'[c].pc = "available"
                              /\ gen[c] = eni.generation

(* When setup reports the gateway ready, the interface is held by an       *)
(* instance of this setup's generation whose launch has completed, so      *)
(* whose translated connection was probed.                                 *)
ReadyServes ==
  setup.pc = "interface" /\ setup'.pc = "idle"
    => /\ eni.owner # None
       /\ gen[eni.owner] = eni.generation
       /\ life[eni.owner] # "wait"

(* No step of a bootstrap, of the group or of setup takes the interface    *)
(* from a current instance or reports a gateway that does not serve        *)
(* (nat64.sh.tftpl, nat64.go).                                             *)
HandoffsSafe == [][HandoffForward /\ ReadyServes]_vars

(* The gateway comes back for good: after any failed replacement the       *)
(* interface ends up, and stays, with an instance in service, even when    *)
(* the group has given the refresh up and nothing is launched any more.    *)
Recovers == <>[](\E i \in Instance : Serving(i))
=============================================================================
