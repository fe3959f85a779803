----------------------------- MODULE SetupProofs ----------------------------
(***************************************************************************)
(* The parts of setup, for any number of artifacts, places, reads, events, *)
(* instances and attachments.                                              *)
(*                                                                         *)
(* NilMeansVerified, EventsApplied and NoEventsRemain.  The inductive      *)
(* invariant relates the three parties: a goroutine that ended well leaves *)
(* a verified file (WorkInv), the messages in flight and the dashboard's   *)
(* fields tell what the operation has done (ResultInv), and the one token  *)
(* that waits for events is spent only when the closed channel is empty    *)
(* (TokenInv).                                                             *)
(*                                                                         *)
(* HandoffsSafe, about the gateways (second half): a script about to       *)
(* detach an attachment knows its owner, which is not newer (ScriptOK),    *)
(* and setup waits for the generation it stamped (WaitOK).                 *)
(***************************************************************************)
EXTENDS Provision, TLAPS

USE Zenon

\* The downloads, the channel and the operation's result.
WorkInv ==
  /\ worker = [a \in Artifacts |-> worker[a]]
  /\ file = [a \in Artifacts |-> file[a]]
  /\ \A a \in Artifacts : worker[a] = "ok" => file[a] = "good"
  /\ operation \in {"running", "ok", "failed"}
  /\ closed => Finished
  /\ operation # "running" => closed
  /\ operation = "ok" => \A a \in Artifacts : worker[a] = "ok"
  /\ ~late

\* A result is only reported once there is one, and quitting without it is an interrupt.
ResultInv ==
  /\ "done" \in inflight \/ model.doneReceived => operation # "running"
  /\ model.doneReceived => model.err \in {"canceled", operation}
  /\ ~model.doneReceived => model.err \in {"canceled", "nil"}
  /\ "quit" \in inflight \/ returned => model.err = "canceled" \/ model.doneReceived

\* At most one of a waiting reader, an event in flight and the end of the events.
TokenInv ==
  /\ "event" \in inflight => ~reader
  /\ "closed" \in inflight \/ model.closed => closed /\ buffered = 0 /\ "event" \notin inflight /\ ~reader
  /\ ~model.interrupted => "key" \notin inflight
  /\ ("quit" \in inflight \/ returned) /\ ~model.interrupted => model.doneReceived /\ model.closed

\* The inductive invariant.
DashboardInv == WorkInv /\ ResultInv /\ TokenInv

-----------------------------------------------------------------------------
(* The downloads *)

\* A goroutine at work means that the channel is open and no result is out.
LEMMA AtWork ==
  ASSUME WorkInv, NEW a \in Artifacts, worker[a] \notin Ended
  PROVE  ~closed /\ operation = "running"
BY DEF WorkInv, Finished

\* A goroutine takes a step that keeps its file's promise; nothing else changes.
LEMMA WorkerStep ==
  ASSUME WorkInv, NEW a \in Artifacts, worker[a] \notin Ended, NEW pc,
         worker' = [worker EXCEPT ![a] = pc],
         file' = file \/ file' = [file EXCEPT ![a] = "good"],
         pc = "ok" => file'[a] = "good",
         operation' = operation, closed' = closed, ~late'
  PROVE  WorkInv'
<1>1. ~closed' /\ operation' = "running"
  BY AtWork
<1>2. worker' = [b \in Artifacts |-> IF b = a THEN pc ELSE worker[b]]
  BY DEF WorkInv
<1>3. worker' = [b \in Artifacts |-> worker'[b]]
  BY <1>2
<1>4. file' = [b \in Artifacts |-> file'[b]] /\ \A b \in Artifacts : file[b] = "good" => file'[b] = "good"
  <2>1. file = [b \in Artifacts |-> file[b]]
    BY DEF WorkInv
  <2>2. CASE file' = file
    BY <2>1, <2>2
  <2>3. CASE file' = [file EXCEPT ![a] = "good"]
    <3>1. file' = [b \in Artifacts |-> IF b = a THEN "good" ELSE file[b]]
      BY <2>1, <2>3
    <3> QED
      BY <3>1
  <2> QED
    BY <2>2, <2>3
<1>5. \A b \in Artifacts : worker'[b] = "ok" => file'[b] = "good"
  BY <1>2, <1>4 DEF WorkInv
<1> QED
  BY <1>1, <1>3, <1>4, <1>5 DEF WorkInv

\* A goroutine's step leaves the program alone and finds the channel open.
LEMMA ProgramKept ==
  ASSUME ResultInv, TokenInv, ~closed, UNCHANGED <<inflight, reader, model, returned, operation>>,
         closed' = closed
  PROVE  ResultInv' /\ TokenInv'
BY DEF ResultInv, TokenInv

\* An event sent while the channel is open panics nobody.
LEMMA SendOpen ==
  ASSUME NEW n, Send(n), ~closed, ~late
  PROVE  ~late' /\ closed' = closed
BY DEF Send

\* Every step of a goroutine keeps the invariant.
LEMMA WorkKeeps ==
  ASSUME DashboardInv, NEW a \in Artifacts, Work(a)
  PROVE  DashboardInv'
<1>1. WorkInv /\ ResultInv /\ TokenInv /\ ~late
  BY DEF DashboardInv, WorkInv
<1>2. worker[a] \notin Ended /\ UNCHANGED <<inflight, reader, model, returned, operation>>
  BY DEF Work, Start, Check, Respond, Read, EndBody, Store, Ended, programVars
<1>3. ~closed
  BY <1>1, <1>2, AtWork
<1>4. ~late' /\ closed' = closed
  <2>1. CASE UNCHANGED channelVars
    BY <2>1, <1>1 DEF channelVars
  <2>2. CASE Send(1) \/ Send(2)
    BY <2>2, <1>1, <1>3, SendOpen
  <2> QED
    BY <2>1, <2>2 DEF Work, Start, Check, Respond, Read, EndBody, Store
<1>5. ResultInv' /\ TokenInv'
  BY <1>1, <1>2, <1>3, <1>4, ProgramKept
<1>6. WorkInv'
  <2>1. CASE Start(a)
    BY <2>1, <1>1, <1>2, <1>4, WorkerStep DEF Start
  <2>2. CASE Check(a)
    BY <2>2, <1>1, <1>2, <1>4, WorkerStep DEF Check, End, cachedArtifact
  <2>3. CASE Respond(a)
    BY <2>3, <1>1, <1>2, <1>4, WorkerStep DEF Respond, End
  <2>4. CASE Read(a)
    BY <2>4, <1>1, <1>2, <1>4 DEF Read, WorkInv, Finished
  <2>5. CASE EndBody(a)
    BY <2>5, <1>1, <1>2, <1>4, WorkerStep DEF EndBody, End
  <2>6. CASE Store(a)
    <3>1. CASE /\ file' = [file EXCEPT ![a] = "good"]
               /\ worker' = [worker EXCEPT ![a] = "ok"]
      <4>1. file'[a] = "good"
        BY <3>1, <1>1 DEF WorkInv
      <4> QED
        BY <3>1, <4>1, <1>1, <1>2, <1>4, WorkerStep
    <3>2. CASE file' = file /\ worker' = [worker EXCEPT ![a] = "failed"]
      BY <3>2, <1>1, <1>2, <1>4, WorkerStep
    <3> QED
      BY <3>1, <3>2, <2>6 DEF Store, End
  <2> QED
    BY <2>1, <2>2, <2>3, <2>4, <2>5, <2>6 DEF Work
<1> QED
  BY <1>5, <1>6 DEF DashboardInv

-----------------------------------------------------------------------------
(* The operation's end and the program *)

\* Nothing is downloaded yet and nobody was told anything.
LEMMA InitDashboardInv == Init => DashboardInv
<1> SUFFICES ASSUME Init PROVE DashboardInv
  OBVIOUS
<1>1. WorkInv
  BY DEF Init, WorkInv
<1>2. ResultInv /\ TokenInv
  BY DEF Init, ResultInv, TokenInv, View
<1> QED
  BY <1>1, <1>2 DEF DashboardInv

\* run returns when every goroutine has ended.
LEMMA RunEndsKeeps ==
  ASSUME DashboardInv, RunEnds
  PROVE  DashboardInv'
<1>1. WorkInv /\ ResultInv /\ TokenInv
  BY DEF DashboardInv
<1>2. /\ file' = file /\ worker' = worker /\ late' = late /\ buffered' = buffered
      /\ reader' = reader /\ model' = model /\ returned' = returned
      /\ closed' /\ inflight' = inflight \cup {"done"} /\ operation = "running" /\ Finished
  BY DEF RunEnds, workVars
<1>3. operation' \in {"ok", "failed"} /\ (operation' = "ok" => \A a \in Artifacts : worker[a] = "ok")
  BY DEF RunEnds
<1>4. WorkInv'
  BY <1>1, <1>2, <1>3 DEF WorkInv, Finished
<1>5. ~model.doneReceived
  BY <1>1, <1>2 DEF ResultInv
<1>6. ResultInv'
  BY <1>1, <1>2, <1>3, <1>5 DEF ResultInv
<1>7. TokenInv'
  BY <1>1, <1>2 DEF TokenInv
<1> QED
  BY <1>4, <1>6, <1>7 DEF DashboardInv

\* The program's steps leave the downloads alone.
LEMMA WorkKept ==
  ASSUME WorkInv, UNCHANGED <<file, worker, operation, closed, late>>
  PROVE  WorkInv'
BY DEF WorkInv, Finished

\* The reader takes an event, or finds the closed channel empty.
LEMMA WaitKeeps ==
  ASSUME DashboardInv, WaitForEvent
  PROVE  DashboardInv'
<1>1. WorkInv /\ ResultInv /\ TokenInv /\ reader
  BY DEF DashboardInv, WaitForEvent
<1>2. UNCHANGED <<file, worker, operation, closed, late, model, returned>> /\ reader' = FALSE
  BY DEF WaitForEvent, workVars
<1>3. WorkInv'
  BY <1>1, <1>2, WorkKept
<1>4. "closed" \notin inflight /\ ~model.closed /\ "event" \notin inflight
  BY <1>1 DEF TokenInv
<1>5. CASE inflight' = inflight \cup {"event"}
  <2>1. ResultInv'
    BY <1>1, <1>2, <1>5 DEF ResultInv
  <2>2. TokenInv'
    BY <1>1, <1>2, <1>4, <1>5 DEF TokenInv
  <2> QED
    BY <2>1, <2>2, <1>3 DEF DashboardInv
<1>6. CASE buffered = 0 /\ closed /\ inflight' = inflight \cup {"closed"} /\ UNCHANGED buffered
  <2>1. ResultInv'
    BY <1>1, <1>2, <1>6 DEF ResultInv
  <2>2. TokenInv'
    BY <1>1, <1>2, <1>4, <1>6 DEF TokenInv
  <2> QED
    BY <2>1, <2>2, <1>3 DEF DashboardInv
<1> QED
  BY <1>5, <1>6 DEF WaitForEvent

\* The operator presses a key.
LEMMA PressKeeps ==
  ASSUME DashboardInv, PressKey
  PROVE  DashboardInv'
<1>1. WorkInv /\ ResultInv /\ TokenInv
  BY DEF DashboardInv
<1>2. /\ UNCHANGED <<file, worker, operation, closed, late, buffered, reader, returned>>
      /\ inflight' = inflight \cup {"key"}
  BY DEF PressKey, workVars, channelVars
<1>3. /\ model'.doneReceived = model.doneReceived /\ model'.closed = model.closed
      /\ model'.err = model.err /\ model'.interrupted = TRUE
  <2>1. model' = View(model.doneReceived, model.closed, model.err, TRUE)
    BY DEF PressKey
  <2> QED
    BY <2>1 DEF View
<1>4. WorkInv'
  BY <1>1, <1>2, WorkKept
<1>5. ResultInv'
  BY <1>1, <1>2, <1>3 DEF ResultInv
<1>6. TokenInv'
  BY <1>1, <1>2, <1>3 DEF TokenInv
<1> QED
  BY <1>4, <1>5, <1>6 DEF DashboardInv

\* The interrupt quits with an error.
LEMMA KeyKeeps ==
  ASSUME DashboardInv, "key" \in inflight, inflight' = (inflight \ {"key"}) \cup {"quit"},
         model' = View(model.doneReceived, model.closed, "canceled", model.interrupted),
         UNCHANGED <<file, worker, operation, closed, late, buffered, reader, returned>>
  PROVE  DashboardInv'
<1>1. WorkInv /\ ResultInv /\ TokenInv
  BY DEF DashboardInv
<1>2. /\ model'.doneReceived = model.doneReceived /\ model'.closed = model.closed
      /\ model'.err = "canceled" /\ model'.interrupted = model.interrupted
  BY DEF View
<1>3. model.interrupted
  BY <1>1 DEF TokenInv
<1>4. WorkInv'
  BY <1>1, WorkKept
<1>5. ResultInv'
  BY <1>1, <1>2 DEF ResultInv
<1>6. TokenInv'
  BY <1>1, <1>2, <1>3 DEF TokenInv
<1> QED
  BY <1>4, <1>5, <1>6 DEF DashboardInv

\* An event is applied and the next one awaited.
LEMMA EventKeeps ==
  ASSUME DashboardInv, "event" \in inflight, inflight' = inflight \ {"event"}, reader' = TRUE,
         UNCHANGED <<file, worker, operation, closed, late, buffered, model, returned>>
  PROVE  DashboardInv'
<1>1. WorkInv /\ ResultInv /\ TokenInv
  BY DEF DashboardInv
<1>2. WorkInv'
  BY <1>1, WorkKept
<1>3. ResultInv'
  BY <1>1 DEF ResultInv
<1>4. "closed" \notin inflight /\ ~model.closed
  BY <1>1 DEF TokenInv
<1>5. TokenInv'
  BY <1>1, <1>4 DEF TokenInv
<1> QED
  BY <1>2, <1>3, <1>5 DEF DashboardInv

\* The result arrives.
LEMMA DoneKeeps ==
  ASSUME DashboardInv, "done" \in inflight, inflight' = (inflight \ {"done"}) \cup AfterDone,
         model' = View(TRUE, model.closed, operation, model.interrupted),
         UNCHANGED <<file, worker, operation, closed, late, buffered, reader, returned>>
  PROVE  DashboardInv'
<1>1. WorkInv /\ ResultInv /\ TokenInv
  BY DEF DashboardInv
<1>2. /\ model'.doneReceived = TRUE /\ model'.closed = model.closed
      /\ model'.err = operation /\ model'.interrupted = model.interrupted
  BY DEF View
<1>3. operation # "running"
  BY <1>1 DEF ResultInv
<1>4. WorkInv'
  BY <1>1, WorkKept
<1>5. ResultInv'
  BY <1>2, <1>3 DEF ResultInv
<1>6. TokenInv'
  BY <1>1, <1>2 DEF TokenInv, AfterDone
<1> QED
  BY <1>4, <1>5, <1>6 DEF DashboardInv

\* The end of the events arrives.
LEMMA ClosedKeeps ==
  ASSUME DashboardInv, "closed" \in inflight, inflight' = (inflight \ {"closed"}) \cup AfterClosed,
         model' = View(model.doneReceived, TRUE, model.err, model.interrupted),
         UNCHANGED <<file, worker, operation, closed, late, buffered, reader, returned>>
  PROVE  DashboardInv'
<1>1. WorkInv /\ ResultInv /\ TokenInv
  BY DEF DashboardInv
<1>2. /\ model'.doneReceived = model.doneReceived /\ model'.closed = TRUE
      /\ model'.err = model.err /\ model'.interrupted = model.interrupted
  BY DEF View
<1>3. closed /\ buffered = 0 /\ "event" \notin inflight /\ ~reader
  BY <1>1 DEF TokenInv
<1>4. WorkInv'
  BY <1>1, WorkKept
<1>5. ResultInv'
  BY <1>1, <1>2 DEF ResultInv, AfterClosed
<1>6. TokenInv'
  BY <1>1, <1>2, <1>3 DEF TokenInv, AfterClosed
<1> QED
  BY <1>4, <1>5, <1>6 DEF DashboardInv

\* The program returns.
LEMMA QuitKeeps ==
  ASSUME DashboardInv, "quit" \in inflight, inflight' = inflight \ {"quit"}, returned' = TRUE,
         UNCHANGED <<file, worker, operation, closed, late, buffered, reader, model>>
  PROVE  DashboardInv'
<1>1. WorkInv /\ ResultInv /\ TokenInv
  BY DEF DashboardInv
<1>2. WorkInv'
  BY <1>1, WorkKept
<1>3. ResultInv'
  BY <1>1 DEF ResultInv
<1>4. TokenInv'
  BY <1>1 DEF TokenInv
<1> QED
  BY <1>2, <1>3, <1>4 DEF DashboardInv

\* Every message keeps the invariant.
LEMMA UpdateKeeps ==
  ASSUME DashboardInv, NEW m \in inflight, Update(m)
  PROVE  DashboardInv'
<1>1. UNCHANGED <<file, worker, operation, closed, late, buffered>>
  BY DEF Update, workVars, channelVars
<1> QED
  BY <1>1, KeyKeeps, EventKeeps, DoneKeeps, ClosedKeeps, QuitKeeps DEF Update

\* Every step keeps the invariant.
LEMMA NextDashboardInv == DashboardInv /\ [Next]_vars => DashboardInv'
<1> SUFFICES ASSUME DashboardInv, [Next]_vars PROVE DashboardInv'
  OBVIOUS
<1>1. CASE UNCHANGED vars
  BY <1>1 DEF vars, workVars, channelVars, programVars, DashboardInv, WorkInv, ResultInv, TokenInv, Finished
<1>2. CASE Next
  BY <1>2, WorkKeeps, RunEndsKeeps, WaitKeeps, UpdateKeeps, PressKeeps DEF Next
<1> QED
  BY <1>1, <1>2

-----------------------------------------------------------------------------
(* Theorems *)

\* DashboardInv holds throughout tui.Run.
THEOREM DashboardInvariant == Spec => []DashboardInv
<1>1. Init => DashboardInv
  BY InitDashboardInv
<1>2. DashboardInv /\ [Next]_vars => DashboardInv'
  BY NextDashboardInv
<1> QED
  BY <1>1, <1>2, PTL DEF Spec

\* When tui.Run returns nil every artifact is verified in the cache, for any number of
\* downloads and any order of messages, interrupts included.
THEOREM NilIsSuccess == Spec => []NilMeansVerified
<1>1. DashboardInv => NilMeansVerified
  <2> SUFFICES ASSUME DashboardInv, returned, model.err \in {"nil", "ok"}, NEW a \in Artifacts
               PROVE  file[a] = "good"
    BY DEF NilMeansVerified
  <2>1. model.doneReceived
    BY DEF DashboardInv, ResultInv
  <2>2. model.err = operation
    BY <2>1 DEF DashboardInv, ResultInv
  <2>3. operation = "ok"
    BY <2>2 DEF DashboardInv, WorkInv
  <2> QED
    BY <2>3 DEF DashboardInv, WorkInv
<1> QED
  BY <1>1, DashboardInvariant, PTL

\* A dashboard nobody interrupted has applied every event the channel took.
THEOREM LastPicture == Spec => []EventsApplied
<1>1. DashboardInv => EventsApplied
  BY DEF DashboardInv, TokenInv, EventsApplied
<1> QED
  BY <1>1, DashboardInvariant, PTL

\* No goroutine sends on the closed channel.
THEOREM NeverPanics == Spec => []NoEventsRemain
<1>1. DashboardInv => NoEventsRemain
  BY DEF DashboardInv, WorkInv, NoEventsRemain
<1> QED
  BY <1>1, DashboardInvariant, PTL


-----------------------------------------------------------------------------
(* The gateway *)

Bootstrap ==
  [pc : {"off", "install", "verify", "detach", "available", "claim", "attach", "attached", "probe",
         "commit", "complete", "completion", "rollback", "release", "released", "settle", "restore",
         "abandon"},
   previous : Instance \cup {None}, owner : Instance \cup {None},
   attachment : Attachment \cup {None}, handoff : BOOLEAN, attempted : BOOLEAN]

GatewayType ==
  /\ eni \in [generation : Nat, owner : Instance \cup {None}, attachment : Attachment \cup {None},
              status : {"attached", "attaching", "detaching", "available"}]
  /\ life \in [Instance -> {"gone", "wait", "service", "terminating"}]
  /\ gen \in [Instance -> Nat]
  /\ run \in [Instance -> Bootstrap]
  /\ group \in [template : Nat, refresh : {"none", "InProgress", "Successful", "Failed"},
                old : SUBSET Instance, abandoned : BOOLEAN]
  /\ setup \in [pc : {"idle", "template", "wait", "interface"}, seen : Instance \cup {None}]

\* A script goes on after its launch has completed only to find that out; one that is
\* about to detach an attachment knows whose it is, and that the owner is not newer.
\* (The arguments are a script and the lives, generations and interface it runs among.)
ScriptOK(i, r, l, g, e) ==
  /\ l[i] = "service" => r.pc \in {"off", "completion"}
  /\ r.pc = "detach" =>
       /\ r.owner \in Instance \ {i} /\ r.attachment # None /\ g[r.owner] <= g[i]
       /\ r.attachment = e.attachment => e.owner = r.owner
  /\ r.pc = "release" =>
       /\ r.attachment # None
       /\ r.attachment = e.attachment => e.owner = i

\* Setup waits for the generation it stamped, and has seen an instance of it in service.
WaitOK ==
  /\ setup.pc \in {"wait", "interface"} => group.template = eni.generation
  /\ setup.pc = "interface" =>
       setup.seen \in Instance /\ gen[setup.seen] = group.template /\ life[setup.seen] # "wait"

\* No instance is of a generation that the interface has not had.
Stamped == group.template <= eni.generation /\ \A i \in Instance : gen[i] <= eni.generation

GatewayInv ==
  /\ GatewayType
  /\ eni.owner = None <=> eni.attachment = None
  /\ Stamped
  /\ \A i \in Instance : ScriptOK(i, run[i], life, gen, eni)
  /\ WaitOK

\* What Nat64 assumes of its constants.
LEMMA GatewayConstants ==
  /\ First \in Instance /\ None \notin Instance /\ None \notin Attachment
  /\ \A used \in [Instance -> Attachment \cup {None}], a \in Attachment \cup {None} :
       \E b \in Attachment : b # a /\ \A i \in Instance : b # used[i]
BY GatewayAssumption DEF Gateway!Nat64Assumption

\* The fields of a well-typed interface and script.
LEMMA GatewayFields ==
  ASSUME GatewayType
  PROVE  /\ eni.generation \in Nat /\ eni.owner \in Instance \cup {None}
         /\ eni.attachment \in Attachment \cup {None}
         /\ group.template \in Nat /\ group.old \subseteq Instance
         /\ setup.seen \in Instance \cup {None}
         /\ \A i \in Instance : run[i] \in Bootstrap /\ gen[i] \in Nat
BY DEF GatewayType

\* An attachment that AWS makes is one that nothing refers to.
LEMMA FreshAttachment ==
  ASSUME GatewayType
  PROVE  /\ Gateway!Fresh \in Attachment /\ Gateway!Fresh # eni.attachment
         /\ \A i \in Instance : Gateway!Fresh # run[i].attachment
<1> DEFINE used == [i \in Instance |-> run[i].attachment]
<1>1. used \in [Instance -> Attachment \cup {None}] /\ eni.attachment \in Attachment \cup {None}
  BY GatewayFields DEF Bootstrap
<1>2. PICK b \in Attachment : b # eni.attachment /\ \A i \in Instance : b # used[i]
  BY <1>1, GatewayConstants
<1>3. b \notin Gateway!Referenced
  BY <1>2 DEF Gateway!Referenced
<1>4. Gateway!Fresh \in Attachment /\ Gateway!Fresh \notin Gateway!Referenced
  BY <1>3 DEF Gateway!Fresh
<1> QED BY <1>4 DEF Gateway!Referenced

\* What a script knows stays true while its attachment is the one it knows or is gone.
LEMMA ScriptStays ==
  ASSUME NEW i, NEW r, NEW l, NEW g, NEW e, NEW k, NEW h, NEW f,
         ScriptOK(i, r, l, g, e),
         k[i] = "service" => l[i] = "service",
         r.pc = "detach" => h[i] = g[i] /\ h[r.owner] = g[r.owner],
         r.attachment # None /\ r.attachment = f.attachment =>
           r.attachment = e.attachment /\ f.owner = e.owner
  PROVE  ScriptOK(i, r, k, h, f)
BY DEF ScriptOK

\* A step of one script that leaves the rest alone.
LEMMA ScriptMoves ==
  ASSUME GatewayInv, NEW i \in Instance, NEW r \in Bootstrap, ScriptOK(i, r, life, gen, eni),
         run' = [run EXCEPT ![i] = r], UNCHANGED <<eni, life, gen, group, setup>>
  PROVE  GatewayInv'
<1>1. GatewayType'
  BY DEF GatewayInv, GatewayType
<1>2. \A j \in Instance : ScriptOK(j, run'[j], life', gen', eni')
  BY DEF GatewayInv, GatewayType
<1> QED BY <1>1, <1>2 DEF GatewayInv, Stamped, WaitOK

\* Going to a step that does not detach.
LEMMA GotoMoves ==
  ASSUME GatewayInv, NEW i \in Instance, NEW pc, Gateway!Goto(i, pc),
         pc \in {"off", "verify", "available", "claim", "attached", "probe", "commit", "completion",
                 "rollback", "released", "restore", "abandon"},
         life[i] = "service" => pc \in {"off", "completion"},
         UNCHANGED <<eni, life, gen, group, setup>>
  PROVE  GatewayInv'
<1> DEFINE r == [run[i] EXCEPT !.pc = pc]
<1>1. run[i] \in Bootstrap
  BY GatewayFields DEF GatewayInv
<1>2. r \in Bootstrap /\ r.pc = pc
  BY <1>1 DEF Bootstrap
<1>3. ScriptOK(i, r, life, gen, eni)
  BY <1>2 DEF ScriptOK
<1>4. run' = [run EXCEPT ![i] = r]
  BY DEF Gateway!Goto
<1> HIDE DEF r
<1> QED BY <1>2, <1>3, <1>4, ScriptMoves

\* Before its cleanup a script has not completed its launch.
LEMMA NotInService ==
  ASSUME GatewayInv, NEW i \in Instance, run[i].pc \notin {"off", "completion"}
  PROVE  life[i] # "service"
BY DEF GatewayInv, ScriptOK

\* The trap on exit.
LEMMA QuitMoves ==
  ASSUME GatewayInv, NEW i \in Instance, Gateway!Quit(i), run[i].pc \notin {"off", "completion"},
         UNCHANGED <<eni, life, gen, group, setup>>
  PROVE  GatewayInv'
<1>1. Gateway!CleanupFrom(i) \in {"completion", "rollback", "abandon"}
  BY DEF Gateway!CleanupFrom
<1> QED BY <1>1, NotInService, GotoMoves DEF Gateway!Quit

\* The same when the step also changes the interface or the life of its instance.
LEMMA GotoWith ==
  ASSUME GatewayInv, NEW i \in Instance, NEW pc, Gateway!Goto(i, pc),
         pc \in {"off", "available", "completion", "rollback", "released", "abandon"},
         run' \in [Instance -> Bootstrap] => GatewayType',
         life'[i] = "service" => pc \in {"off", "completion"},
         \A j \in Instance \ {i} : life'[j] = life[j],
         gen' = gen, eni'.generation = eni.generation, group'.template = group.template,
         setup' = setup, \A j \in Instance : life'[j] = "wait" => life[j] = "wait",
         eni'.owner = None <=> eni'.attachment = None,
         \A j \in Instance \ {i} : run[j].attachment # None /\ run[j].attachment = eni'.attachment =>
           run[j].attachment = eni.attachment /\ eni'.owner = eni.owner
  PROVE  GatewayInv'
<1>1. run \in [Instance -> Bootstrap]
  BY DEF GatewayInv, GatewayType
<1>2. /\ run' \in [Instance -> Bootstrap] /\ run'[i].pc = pc
      /\ \A j \in Instance \ {i} : run'[j] = run[j]
  <2> DEFINE r == [run[i] EXCEPT !.pc = pc]
  <2>0. run[i] \in Bootstrap
    BY <1>1
  <2>1. r \in Bootstrap /\ r.pc = pc
    BY <2>0 DEF Bootstrap
  <2>2. run' = [run EXCEPT ![i] = r]
    BY DEF Gateway!Goto
  <2> HIDE DEF r
  <2> QED BY <1>1, <2>1, <2>2
<1>3. GatewayType'
  BY <1>2
<1>4. \A j \in Instance \ {i} : ScriptOK(j, run'[j], life', gen', eni')
  <2> SUFFICES ASSUME NEW j \in Instance \ {i} PROVE ScriptOK(j, run[j], life', gen', eni')
    BY <1>2
  <2>1. ScriptOK(j, run[j], life, gen, eni)
    BY DEF GatewayInv
  <2> QED BY <2>1, ScriptStays
<1>5. ScriptOK(i, run'[i], life', gen', eni')
  BY <1>2 DEF ScriptOK
<1>6. Stamped' /\ WaitOK'
  BY DEF GatewayInv, Stamped, WaitOK
<1> QED BY <1>3, <1>4, <1>5, <1>6 DEF GatewayInv

-----------------------------------------------------------------------------
(* The script *)

\* The verification describes the interface; only a member that is not newer is detached.
LEMMA VerifyKeeps ==
  ASSUME GatewayInv, NEW i \in Instance, Gateway!Verify(i)
  PROVE  GatewayInv'
<1>1. CASE ~Gateway!Verified(i)
  BY <1>1, QuitMoves DEF Gateway!Verify
<1>2. CASE Gateway!Verified(i)
  <2> DEFINE pc == CASE eni.owner = i -> "probe" [] eni.owner = None -> "claim" [] OTHER -> "detach"
             r == [run[i] EXCEPT !.pc = pc, !.previous = eni.owner, !.owner = eni.owner,
                                 !.attachment = eni.attachment, !.handoff = eni.owner # i]
  <2>1. run' = [run EXCEPT ![i] = r] /\ UNCHANGED <<eni, life, gen, group, setup>>
    BY <1>2 DEF Gateway!Verify
  <2>2. run[i] \in Bootstrap /\ eni.owner \in Instance \cup {None}
        /\ eni.attachment \in Attachment \cup {None}
    BY GatewayFields DEF GatewayInv
  <2>3. pc \in {"probe", "claim", "detach"}
    BY GatewayConstants
  <2>4. r \in Bootstrap /\ r.pc = pc /\ r.owner = eni.owner /\ r.attachment = eni.attachment
    BY <2>2, <2>3 DEF Bootstrap
  <2>5. life[i] # "service"
    BY <1>2 DEF Gateway!Verified
  <2>6. pc = "detach" => eni.owner \in Instance \ {i} /\ eni.attachment # None
    BY <2>2, GatewayConstants DEF GatewayInv
  <2>7. eni.owner \in Instance => gen[eni.owner] <= gen[i]
    BY <1>2 DEF Gateway!Verified, GatewayInv, Stamped
  <2> HIDE DEF r, pc
  <2>8. ScriptOK(i, r, life, gen, eni)
    BY <2>3, <2>4, <2>5, <2>6, <2>7 DEF ScriptOK
  <2> QED BY <2>1, <2>4, <2>8, ScriptMoves
<1> QED BY <1>1, <1>2

\* A describe goes on to a step that does not detach, or to the release of what the
\* script owns.
LEMMA DescribeMoves ==
  ASSUME GatewayInv, NEW i \in Instance, NEW pc, Gateway!Describe(i, pc),
         pc \in {"attach", "release", "settle", "restore", "abandon"},
         pc = "release" => eni.owner = i, life[i] # "service",
         UNCHANGED <<eni, life, gen, group, setup>>
  PROVE  GatewayInv'
<1> DEFINE r == [run[i] EXCEPT !.pc = pc, !.owner = eni.owner, !.attachment = eni.attachment]
<1>1. run' = [run EXCEPT ![i] = r]
  BY DEF Gateway!Describe
<1>2. run[i] \in Bootstrap /\ eni.owner \in Instance \cup {None}
      /\ eni.attachment \in Attachment \cup {None}
  BY GatewayFields DEF GatewayInv
<1>3. r \in Bootstrap /\ r.pc = pc /\ r.attachment = eni.attachment
  BY <1>2 DEF Bootstrap
<1>4. eni.owner = i => eni.attachment # None
  BY GatewayConstants DEF GatewayInv
<1> HIDE DEF r
<1>5. ScriptOK(i, r, life, gen, eni)
  BY <1>3, <1>4 DEF ScriptOK
<1> QED BY <1>1, <1>3, <1>5, ScriptMoves

\* Detaching changes the status only.
LEMMA DetachKeeps ==
  ASSUME GatewayInv, NEW i \in Instance, NEW pc, Gateway!Detach, Gateway!Goto(i, pc),
         pc \in {"available", "released"}, life[i] # "service",
         UNCHANGED <<life, gen, group, setup>>
  PROVE  GatewayInv'
<1>1. /\ eni'.owner = eni.owner /\ eni'.attachment = eni.attachment
      /\ eni'.generation = eni.generation
      /\ eni' \in [generation : Nat, owner : Instance \cup {None}, attachment : Attachment \cup {None},
                   status : {"attached", "attaching", "detaching", "available"}]
  BY DEF GatewayInv, GatewayType, Gateway!Detach
<1>2. run' \in [Instance -> Bootstrap] => GatewayType'
  BY <1>1 DEF GatewayInv, GatewayType
<1>3. eni'.owner = None <=> eni'.attachment = None
  BY <1>1 DEF GatewayInv
<1> QED BY <1>1, <1>2, <1>3, GotoWith DEF GatewayType

\* Attaching makes an attachment that no script refers to.
LEMMA AttachKeeps ==
  ASSUME GatewayInv, NEW i \in Instance, NEW j \in Instance, NEW r \in Bootstrap,
         r.pc \in {"attached", "abandon"}, life[i] # "service",
         Gateway!Attach(j), run' = [run EXCEPT ![i] = r], UNCHANGED <<life, gen, group, setup>>
  PROVE  GatewayInv'
<1>1. /\ eni'.owner = j /\ eni'.attachment = Gateway!Fresh /\ eni'.generation = eni.generation
      /\ eni' \in [generation : Nat, owner : Instance \cup {None}, attachment : Attachment \cup {None},
                   status : {"attached", "attaching", "detaching", "available"}]
  BY FreshAttachment DEF GatewayInv, GatewayType, Gateway!Attach
<1>2. GatewayType'
  BY <1>1 DEF GatewayInv, GatewayType
<1>3. eni'.owner # None /\ eni'.attachment # None
  BY <1>1, FreshAttachment, GatewayConstants DEF GatewayInv
<1>4. \A k \in Instance \ {i} : ScriptOK(k, run'[k], life', gen', eni')
  <2> SUFFICES ASSUME NEW k \in Instance \ {i} PROVE ScriptOK(k, run'[k], life', gen', eni')
    OBVIOUS
  <2>0. run'[k] = run[k]
    <3>1. run \in [Instance -> Bootstrap]
      BY DEF GatewayInv, GatewayType
    <3> QED BY <3>1
  <2>1. ScriptOK(k, run[k], life, gen, eni) /\ run[k].attachment # eni'.attachment
    BY <1>1, FreshAttachment DEF GatewayInv
  <2>2. ScriptOK(k, run[k], life', gen', eni')
    BY <2>1, ScriptStays
  <2> QED BY <2>0, <2>2
<1>5. run'[i] = r
  BY DEF GatewayInv, GatewayType
<1>6. ScriptOK(i, run'[i], life', gen', eni')
  BY <1>5 DEF ScriptOK
<1> QED BY <1>1, <1>2, <1>3, <1>4, <1>6 DEF GatewayInv, Stamped, WaitOK

\* Attaching to itself.
LEMMA AttachSelfKeeps ==
  ASSUME GatewayInv, NEW i \in Instance, Gateway!AttachSelf(i)
  PROVE  GatewayInv'
<1>1. run[i].pc = "attach" /\ life[i] # "service"
  BY NotInService DEF Gateway!AttachSelf
<1>2. CASE ~Gateway!Available
  BY <1>1, <1>2, QuitMoves DEF Gateway!AttachSelf
<1>3. CASE Gateway!Available
  <2> DEFINE r == [run[i] EXCEPT !.pc = "attached", !.attachment = Gateway!Fresh]
  <2>1. /\ Gateway!Attach(i) /\ run' = [run EXCEPT ![i] = r]
        /\ UNCHANGED <<life, gen, group, setup>>
    BY <1>3 DEF Gateway!AttachSelf
  <2>2. run[i] \in Bootstrap /\ Gateway!Fresh \in Attachment
    BY GatewayFields, FreshAttachment DEF GatewayInv
  <2>3. r \in Bootstrap /\ r.pc = "attached"
    BY <2>2 DEF Bootstrap
  <2> HIDE DEF r
  <2> QED BY <1>1, <2>1, <2>3, AttachKeeps
<1> QED BY <1>2, <1>3

\* Returning the interface to the previous owner.
LEMMA RestoreKeeps ==
  ASSUME GatewayInv, NEW i \in Instance, Gateway!Restore(i)
  PROVE  GatewayInv'
<1>1. /\ run[i].pc = "restore" /\ life[i] # "service" /\ Gateway!Goto(i, "abandon")
      /\ UNCHANGED <<life, gen, group, setup>>
  BY NotInService DEF Gateway!Restore
<1>2. CASE ~(Gateway!Available /\ Gateway!in_asg(run[i].previous))
  BY <1>1, <1>2, GotoMoves DEF Gateway!Restore
<1>3. CASE Gateway!Available /\ Gateway!in_asg(run[i].previous)
  <2> DEFINE r == [run[i] EXCEPT !.pc = "abandon"]
  <2>1. Gateway!Attach(run[i].previous) /\ run' = [run EXCEPT ![i] = r]
    BY <1>1, <1>3 DEF Gateway!Restore, Gateway!Goto
  <2>2. run[i] \in Bootstrap
    BY GatewayFields DEF GatewayInv
  <2>3. r \in Bootstrap /\ r.pc = "abandon" /\ run[i].previous \in Instance
    BY <1>3, <2>2 DEF Bootstrap, Gateway!in_asg
  <2> HIDE DEF r
  <2> QED BY <1>1, <2>1, <2>3, AttachKeeps
<1> QED BY <1>2, <1>3

\* The launch completes.
LEMMA InService ==
  ASSUME GatewayInv, NEW i \in Instance, NEW pc \in {"off", "completion"}, Gateway!Goto(i, pc),
         life' = [life EXCEPT ![i] = "service"], UNCHANGED <<eni, gen, group, setup>>
  PROVE  GatewayInv'
<1>1. life \in [Instance -> {"gone", "wait", "service", "terminating"}]
  BY DEF GatewayInv, GatewayType
<1>2. /\ life' \in [Instance -> {"gone", "wait", "service", "terminating"}]
      /\ \A j \in Instance \ {i} : life'[j] = life[j] /\ life'[i] = "service"
  BY <1>1
<1>3. run' \in [Instance -> Bootstrap] => GatewayType'
  BY <1>2 DEF GatewayInv, GatewayType
<1>4. \A j \in Instance : life'[j] = "wait" => life[j] = "wait"
  BY <1>1
<1>5. eni'.owner = None <=> eni'.attachment = None
  BY DEF GatewayInv
<1> QED BY <1>2, <1>3, <1>4, <1>5, GotoWith

\* An instance begins to terminate, whether its script goes on, exits or has ended.
LEMMA LifeEnds ==
  ASSUME GatewayInv, NEW i \in Instance, life' = [life EXCEPT ![i] = "terminating"],
         run' = run \/ Gateway!Goto(i, "off"),
         group' = group \/ group' = [group EXCEPT !.abandoned = TRUE], UNCHANGED <<eni, gen, setup>>
  PROVE  GatewayInv'
<1>1. life \in [Instance -> {"gone", "wait", "service", "terminating"}]
  BY DEF GatewayInv, GatewayType
<1>2. /\ life' \in [Instance -> {"gone", "wait", "service", "terminating"}]
      /\ \A j \in Instance : j # i => life'[j] = life[j]
      /\ life'[i] = "terminating"
  BY <1>1
<1>3. /\ group'.template = group.template
      /\ group' \in [template : Nat, refresh : {"none", "InProgress", "Successful", "Failed"},
                     old : SUBSET Instance, abandoned : BOOLEAN]
  BY DEF GatewayInv, GatewayType
<1>4. run' \in [Instance -> Bootstrap] => GatewayType'
  BY <1>2, <1>3 DEF GatewayInv, GatewayType
<1>5. \A j \in Instance : life'[j] = "wait" => life[j] = "wait"
  BY <1>2
<1>6. CASE Gateway!Goto(i, "off")
  <2>1. eni'.owner = None <=> eni'.attachment = None
    BY DEF GatewayInv
  <2> QED BY <1>2, <1>3, <1>4, <1>5, <1>6, <2>1, GotoWith
<1>7. CASE run' = run
  <2>1. GatewayType'
    BY <1>4, <1>7 DEF GatewayInv, GatewayType
  <2>2. \A j \in Instance : ScriptOK(j, run'[j], life', gen', eni')
    <3> SUFFICES ASSUME NEW j \in Instance PROVE ScriptOK(j, run[j], life', gen', eni')
      BY <1>7
    <3>1. ScriptOK(j, run[j], life, gen, eni) /\ (life'[j] = "service" => life[j] = "service")
      BY <1>2 DEF GatewayInv
    <3> QED BY <3>1, ScriptStays
  <2>3. Stamped' /\ WaitOK'
    BY <1>3, <1>5 DEF GatewayInv, Stamped, WaitOK
  <2> QED BY <2>1, <2>2, <2>3 DEF GatewayInv
<1> QED BY <1>6, <1>7

\* A script that steps, fails or is told to stop.
LEMMA ScriptKeeps ==
  ASSUME GatewayInv, NEW i \in Instance, Gateway!Script(i)
  PROVE  GatewayInv'
<1>1. CASE Gateway!Install(i)
  <2>1. run[i].pc = "install" /\ UNCHANGED <<eni, life, gen, group, setup>>
    BY <1>1 DEF Gateway!Install
  <2> QED BY <1>1, <2>1, GotoMoves, QuitMoves DEF Gateway!Install
<1>2. CASE Gateway!Verify(i)
  BY <1>2, VerifyKeeps
<1>3. CASE Gateway!DetachPrevious(i)
  <2>1. run[i].pc = "detach" /\ UNCHANGED <<life, gen, group, setup>> /\ life[i] # "service"
    BY <1>3, NotInService DEF Gateway!DetachPrevious
  <2> QED BY <1>3, <2>1, DetachKeeps, QuitMoves DEF Gateway!DetachPrevious
<1>4. CASE Gateway!AwaitAvailable(i)
  <2>1. run[i].pc = "available" /\ UNCHANGED <<eni, life, gen, group, setup>> /\ life[i] # "service"
    BY <1>4, NotInService DEF Gateway!AwaitAvailable
  <2> QED BY <1>4, <2>1, GotoMoves, QuitMoves DEF Gateway!AwaitAvailable
<1>5. CASE Gateway!Claim(i)
  <2>1. run[i].pc = "claim" /\ UNCHANGED <<eni, life, gen, group, setup>> /\ life[i] # "service"
    BY <1>5, NotInService DEF Gateway!Claim
  <2> QED BY <1>5, <2>1, DescribeMoves, QuitMoves DEF Gateway!Claim
<1>6. CASE Gateway!AttachSelf(i)
  BY <1>6, AttachSelfKeeps
<1>7. CASE Gateway!AwaitAttached(i)
  <2>1. run[i].pc = "attached" /\ UNCHANGED <<eni, life, gen, group, setup>> /\ life[i] # "service"
    BY <1>7, NotInService DEF Gateway!AwaitAttached
  <2> QED BY <1>7, <2>1, GotoMoves, QuitMoves DEF Gateway!AwaitAttached
<1>8. CASE Gateway!Probe(i)
  <2>1. run[i].pc = "probe" /\ UNCHANGED <<eni, life, gen, group, setup>> /\ life[i] # "service"
    BY <1>8, NotInService DEF Gateway!Probe
  <2> QED BY <1>8, <2>1, GotoMoves, QuitMoves DEF Gateway!Probe
<1>9. CASE Gateway!Commit(i)
  <2>1. run[i].pc = "commit" /\ UNCHANGED <<eni, life, gen, group, setup>> /\ life[i] # "service"
    BY <1>9, NotInService DEF Gateway!Commit
  <2>2. CASE eni.owner = i /\ eni.generation = gen[i]
    <3> DEFINE r == [run[i] EXCEPT !.pc = "complete", !.attempted = TRUE]
    <3>1. run' = [run EXCEPT ![i] = r]
      BY <1>9, <2>2 DEF Gateway!Commit
    <3>2. run[i] \in Bootstrap
      BY GatewayFields DEF GatewayInv
    <3>3. r \in Bootstrap /\ r.pc = "complete"
      BY <3>2 DEF Bootstrap
    <3> HIDE DEF r
    <3>4. ScriptOK(i, r, life, gen, eni)
      BY <2>1, <3>3 DEF ScriptOK
    <3> QED BY <2>1, <3>1, <3>3, <3>4, ScriptMoves
  <2> QED BY <1>9, <2>1, <2>2, QuitMoves DEF Gateway!Commit
<1>10. CASE Gateway!Complete(i)
  <2>1. run[i].pc = "complete" /\ UNCHANGED <<eni, gen, group, setup>>
    BY <1>10 DEF Gateway!Complete
  <2> QED BY <1>10, <2>1, InService, QuitMoves DEF Gateway!Complete
<1>11. CASE Gateway!CheckCompletion(i)
  <2>1. run[i].pc = "completion" /\ UNCHANGED <<eni, life, gen, group, setup>>
    BY <1>11 DEF Gateway!CheckCompletion
  <2> QED BY <1>11, <2>1, GotoMoves DEF Gateway!CheckCompletion
<1>12. CASE Gateway!Rollback(i)
  <2>1. run[i].pc = "rollback" /\ UNCHANGED <<eni, life, gen, group, setup>> /\ life[i] # "service"
    BY <1>12, NotInService DEF Gateway!Rollback
  <2>2. Gateway!RestoreFrom(i) \in {"settle", "restore", "abandon"}
    BY DEF Gateway!RestoreFrom
  <2> QED BY <1>12, <2>1, <2>2, DescribeMoves DEF Gateway!Rollback
<1>13. CASE Gateway!ReleaseSelf(i)
  <2>1. run[i].pc = "release" /\ UNCHANGED <<life, gen, group, setup>> /\ life[i] # "service"
    BY <1>13, NotInService DEF Gateway!ReleaseSelf
  <2> QED BY <1>13, <2>1, DetachKeeps, GotoMoves DEF Gateway!ReleaseSelf
<1>14. CASE Gateway!AwaitReleased(i)
  <2>1. UNCHANGED <<eni, life, gen, group, setup>> /\ life[i] # "service"
    BY <1>14, NotInService DEF Gateway!AwaitReleased
  <2>2. Gateway!RestoreFrom(i) \in {"settle", "restore", "abandon"}
    BY DEF Gateway!RestoreFrom
  <2> QED BY <1>14, <2>1, <2>2, DescribeMoves DEF Gateway!AwaitReleased
<1>15. CASE Gateway!Restore(i)
  BY <1>15, RestoreKeeps
<1>16. CASE Gateway!Abandon(i)
  <2>1. /\ run[i].pc = "abandon" /\ UNCHANGED <<eni, gen, setup>> /\ life[i] # "service"
        /\ Gateway!Goto(i, "off")
    BY <1>16, NotInService DEF Gateway!Abandon
  <2>2. CASE life[i] = "wait"
    BY <1>16, <2>1, <2>2, LifeEnds DEF Gateway!Abandon, Gateway!Abandoned
  <2> QED BY <1>16, <2>1, <2>2, GotoMoves DEF Gateway!Abandon
<1> QED BY <1>1, <1>2, <1>3, <1>4, <1>5, <1>6, <1>7, <1>8, <1>9, <1>10, <1>11, <1>12, <1>13, <1>14,
           <1>15, <1>16 DEF Gateway!Script

\* What fails: a local step, a call, an answer, a heartbeat or an instance.
LEMMA FailureKeeps ==
  ASSUME GatewayInv, NEW i \in Instance, Gateway!Failure(i)
  PROVE  GatewayInv'
<1>1. CASE Gateway!LocalFailure(i)
  <2>1. run[i].pc \notin {"off", "completion"} /\ UNCHANGED <<eni, life, gen, group, setup>>
    BY <1>1 DEF Gateway!LocalFailure
  <2> QED BY <1>1, <2>1, QuitMoves DEF Gateway!LocalFailure
<1>2. CASE Gateway!CallFails(i)
  <2> DEFINE pc == CASE run[i].pc \in {"completion", "abandon"} -> "off"
                     [] run[i].pc \in {"rollback", "release", "released", "settle", "restore"} -> "abandon"
                     [] OTHER -> Gateway!CleanupFrom(i)
  <2>1. Gateway!Goto(i, pc) /\ UNCHANGED <<eni, life, gen, group, setup>> /\ run[i].pc # "off"
    BY <1>2 DEF Gateway!CallFails
  <2>2. Gateway!CleanupFrom(i) \in {"completion", "rollback", "abandon"}
    BY DEF Gateway!CleanupFrom
  <2>3. pc \in {"off", "completion", "rollback", "abandon"} /\ (run[i].pc = "completion" => pc = "off")
    BY <2>2
  <2>4. life[i] = "service" => pc \in {"off", "completion"}
    BY <2>1, <2>3, NotInService
  <2> HIDE DEF pc
  <2> QED BY <2>1, <2>3, <2>4, GotoMoves
<1>3. CASE Gateway!AnswerLost(i)
  BY <1>3, InService DEF Gateway!AnswerLost
<1>4. CASE Gateway!LoseHeartbeat(i)
  BY <1>4, LifeEnds DEF Gateway!LoseHeartbeat, Gateway!Abandoned
<1>5. CASE Gateway!Die(i)
  BY <1>5, LifeEnds DEF Gateway!Die
<1> QED BY <1>1, <1>2, <1>3, <1>4, <1>5 DEF Gateway!Failure

\* A launch reuses no instance that anything refers to.
LEMMA LaunchKeeps ==
  ASSUME GatewayInv, NEW i \in Instance, Gateway!Launch(i)
  PROVE  GatewayInv'
<1> DEFINE r == [Gateway!Off EXCEPT !.pc = "install"]
<1>1. /\ life' = [life EXCEPT ![i] = "wait"] /\ gen' = [gen EXCEPT ![i] = group.template]
      /\ run' = [run EXCEPT ![i] = r] /\ UNCHANGED <<eni, group, setup>>
      /\ eni.owner # i /\ setup.seen # i /\ \A j \in Instance \ {i} : run[j].owner # i
  BY DEF Gateway!Launch, Gateway!Unreferenced
<1>2. r \in Bootstrap /\ r.pc = "install"
  BY DEF Bootstrap, Gateway!Off
<1> HIDE DEF r
<1>3. /\ life \in [Instance -> {"gone", "wait", "service", "terminating"}]
      /\ gen \in [Instance -> Nat] /\ run \in [Instance -> Bootstrap] /\ group.template \in Nat
  BY GatewayFields DEF GatewayInv, GatewayType
<1>4. /\ life' \in [Instance -> {"gone", "wait", "service", "terminating"}]
      /\ gen' \in [Instance -> Nat] /\ run' \in [Instance -> Bootstrap]
      /\ life'[i] = "wait" /\ gen'[i] = group.template /\ run'[i] = r
  BY <1>1, <1>2, <1>3
<1>5. \A j \in Instance \ {i} : life'[j] = life[j] /\ gen'[j] = gen[j] /\ run'[j] = run[j]
  BY <1>1, <1>3
<1>6. GatewayType'
  BY <1>1, <1>4 DEF GatewayInv, GatewayType
<1>7. \A j \in Instance \ {i} : ScriptOK(j, run'[j], life', gen', eni')
  <2> SUFFICES ASSUME NEW j \in Instance \ {i} PROVE ScriptOK(j, run'[j], life', gen', eni')
    OBVIOUS
  <2>1. ScriptOK(j, run[j], life, gen, eni)
    BY DEF GatewayInv
  <2>2. run[j].pc = "detach" => run[j].owner \in Instance \ {i}
    BY <1>1, <2>1 DEF ScriptOK
  <2>3. /\ life'[j] = "service" => life[j] = "service"
        /\ run[j].pc = "detach" => gen'[j] = gen[j] /\ gen'[run[j].owner] = gen[run[j].owner]
        /\ run[j].attachment # None /\ run[j].attachment = eni'.attachment =>
             run[j].attachment = eni.attachment /\ eni'.owner = eni.owner
    BY <1>1, <1>5, <2>2
  <2>4. ScriptOK(j, run[j], life', gen', eni')
    BY <2>1, <2>3, ScriptStays
  <2> QED BY <1>5, <2>4
<1>8. ScriptOK(i, run'[i], life', gen', eni')
  BY <1>2, <1>4 DEF ScriptOK
<1>9. Stamped'
  <2> SUFFICES ASSUME NEW j \in Instance PROVE gen'[j] <= eni.generation
    BY <1>1 DEF GatewayInv, Stamped
  <2>1. CASE j = i
    BY <1>4, <2>1 DEF GatewayInv, Stamped
  <2>2. CASE j # i
    BY <1>5, <2>2 DEF GatewayInv, Stamped
  <2> QED BY <2>1, <2>2
<1>10. WaitOK'
  <2>1. WaitOK /\ UNCHANGED <<eni, group, setup>> /\ setup.seen # i
    BY <1>1 DEF GatewayInv
  <2>2. setup.seen \in Instance => gen'[setup.seen] = gen[setup.seen] /\ life'[setup.seen] = life[setup.seen]
    BY <1>5, <2>1
  <2> QED BY <2>1, <2>2 DEF WaitOK
<1> QED BY <1>1, <1>6, <1>7, <1>8, <1>9, <1>10 DEF GatewayInv

\* The interface becomes available when a detachment ends, or with the end of its owner.
LEMMA ReleasedKnows ==
  ASSUME GatewayInv, eni' = Gateway!Released
  PROVE  /\ eni'.owner = None /\ eni'.attachment = None /\ eni'.generation = eni.generation
         /\ eni' \in [generation : Nat, owner : Instance \cup {None}, attachment : Attachment \cup {None},
                      status : {"attached", "attaching", "detaching", "available"}]
BY DEF GatewayInv, GatewayType, Gateway!Released

\* An instance is gone, and its script and its attachment with it.
LEMMA VanishKeeps ==
  ASSUME GatewayInv, NEW i \in Instance, Gateway!Vanish(i)
  PROVE  GatewayInv'
<1>1. /\ life' = [life EXCEPT ![i] = "gone"] /\ run' = [run EXCEPT ![i] = Gateway!Off]
      /\ eni' = (IF eni.owner = i THEN Gateway!Released ELSE eni)
      /\ group' = [group EXCEPT !.old = @ \ {i}] /\ UNCHANGED <<gen, setup>>
  BY DEF Gateway!Vanish
<1>2. Gateway!Off \in Bootstrap /\ Gateway!Off.pc = "off"
  BY DEF Bootstrap, Gateway!Off
<1>3. /\ life \in [Instance -> {"gone", "wait", "service", "terminating"}]
      /\ run \in [Instance -> Bootstrap]
  BY DEF GatewayInv, GatewayType
<1>4. /\ life' \in [Instance -> {"gone", "wait", "service", "terminating"}]
      /\ run' \in [Instance -> Bootstrap] /\ life'[i] = "gone" /\ run'[i] = Gateway!Off
  BY <1>1, <1>2, <1>3
<1>5. \A j \in Instance \ {i} : life'[j] = life[j] /\ run'[j] = run[j]
  BY <1>1, <1>3
<1>6. /\ group'.template = group.template
      /\ group' \in [template : Nat, refresh : {"none", "InProgress", "Successful", "Failed"},
                     old : SUBSET Instance, abandoned : BOOLEAN]
  BY <1>1 DEF GatewayInv, GatewayType
<1>7. /\ eni'.generation = eni.generation /\ (eni'.owner = None <=> eni'.attachment = None)
      /\ eni' \in [generation : Nat, owner : Instance \cup {None}, attachment : Attachment \cup {None},
                   status : {"attached", "attaching", "detaching", "available"}]
      /\ eni'.attachment # None => eni' = eni
  <2>1. CASE eni.owner = i
    BY <1>1, <2>1, ReleasedKnows
  <2>2. CASE eni.owner # i
    BY <1>1, <2>2 DEF GatewayInv, GatewayType
  <2> QED BY <2>1, <2>2
<1>8. GatewayType'
  BY <1>1, <1>4, <1>6, <1>7 DEF GatewayInv, GatewayType
<1>9. \A j \in Instance \ {i} : ScriptOK(j, run'[j], life', gen', eni')
  <2> SUFFICES ASSUME NEW j \in Instance \ {i} PROVE ScriptOK(j, run'[j], life', gen', eni')
    OBVIOUS
  <2>1. ScriptOK(j, run[j], life, gen, eni)
    BY DEF GatewayInv
  <2>2. /\ life'[j] = "service" => life[j] = "service"
        /\ run[j].pc = "detach" => gen'[j] = gen[j] /\ gen'[run[j].owner] = gen[run[j].owner]
        /\ run[j].attachment # None /\ run[j].attachment = eni'.attachment =>
             run[j].attachment = eni.attachment /\ eni'.owner = eni.owner
    BY <1>1, <1>5, <1>7
  <2>3. ScriptOK(j, run[j], life', gen', eni')
    BY <2>1, <2>2, ScriptStays
  <2> QED BY <1>5, <2>3
<1>10. ScriptOK(i, run'[i], life', gen', eni')
  BY <1>2, <1>4 DEF ScriptOK
<1>11. Stamped' /\ WaitOK'
  <2>1. \A j \in Instance : life'[j] = "wait" => life[j] = "wait"
    BY <1>4, <1>5
  <2> QED BY <1>1, <1>6, <1>7, <2>1 DEF GatewayInv, Stamped, WaitOK
<1> QED BY <1>7, <1>8, <1>9, <1>10, <1>11 DEF GatewayInv

\* The Auto Scaling group launches, expires, replaces and terminates.
LEMMA ScalingKeeps ==
  ASSUME GatewayInv, NEW i \in Instance, Gateway!Scaling(i)
  PROVE  GatewayInv'
<1>1. CASE Gateway!Expire(i)
  BY <1>1, LifeEnds DEF Gateway!Expire, Gateway!Abandoned
<1>2. CASE Gateway!Replace(i)
  BY <1>2, LifeEnds DEF Gateway!Replace
<1>3. CASE Gateway!Terminate(i)
  <2>1. run[i].pc \notin {"off", "completion"} /\ UNCHANGED <<eni, life, gen, group, setup>>
    BY <1>3 DEF Gateway!Terminate
  <2> QED BY <1>3, <2>1, QuitMoves DEF Gateway!Terminate
<1> QED BY <1>1, <1>2, <1>3, LaunchKeeps, VanishKeeps DEF Gateway!Scaling

\* AWS ends what it was asked to do, and setup goes on.
LEMMA ServicesKeep ==
  ASSUME GatewayInv, Gateway!Aws \/ Gateway!Setup
  PROVE  GatewayInv'
<1>1. CASE Gateway!FinishDetach
  <2>1. eni' = Gateway!Released /\ UNCHANGED <<life, gen, run, group, setup>>
    BY <1>1 DEF Gateway!FinishDetach
  <2>2. GatewayType'
    BY <2>1, ReleasedKnows DEF GatewayInv, GatewayType
  <2>3. \A j \in Instance : ScriptOK(j, run[j], life', gen', eni')
    <3> SUFFICES ASSUME NEW j \in Instance PROVE ScriptOK(j, run[j], life', gen', eni')
      OBVIOUS
    <3>1. ScriptOK(j, run[j], life, gen, eni) /\ eni'.attachment = None
      BY <2>1, ReleasedKnows DEF GatewayInv
    <3> QED BY <2>1, <3>1 DEF ScriptOK
  <2> QED BY <2>1, <2>2, <2>3, ReleasedKnows DEF GatewayInv, Stamped, WaitOK
<1>2. CASE Gateway!FinishAttach
  <2>1. /\ eni'.owner = eni.owner /\ eni'.attachment = eni.attachment
        /\ eni'.generation = eni.generation
        /\ eni' \in [generation : Nat, owner : Instance \cup {None}, attachment : Attachment \cup {None},
                     status : {"attached", "attaching", "detaching", "available"}]
        /\ UNCHANGED <<life, gen, run, group, setup>>
    BY <1>2 DEF GatewayInv, GatewayType, Gateway!FinishAttach
  <2>2. GatewayType'
    BY <2>1 DEF GatewayInv, GatewayType
  <2>3. \A j \in Instance : ScriptOK(j, run[j], life', gen', eni')
    <3> SUFFICES ASSUME NEW j \in Instance PROVE ScriptOK(j, run[j], life', gen', eni')
      OBVIOUS
    <3>1. ScriptOK(j, run[j], life, gen, eni)
      BY DEF GatewayInv
    <3> QED BY <2>1, <3>1 DEF ScriptOK
  <2> QED BY <2>1, <2>2, <2>3 DEF GatewayInv, Stamped, WaitOK
<1>3. CASE Gateway!Refreshed \/ Gateway!GiveUp
  <2>1. UNCHANGED <<eni, life, gen, run, setup>>
    BY <1>3 DEF Gateway!Refreshed, Gateway!GiveUp
  <2>2. /\ group'.template = group.template
        /\ group' \in [template : Nat, refresh : {"none", "InProgress", "Successful", "Failed"},
                       old : SUBSET Instance, abandoned : BOOLEAN]
    BY <1>3 DEF GatewayInv, GatewayType, Gateway!Refreshed, Gateway!GiveUp
  <2>3. GatewayType'
    BY <2>1, <2>2 DEF GatewayInv, GatewayType
  <2> QED BY <2>1, <2>2, <2>3 DEF GatewayInv, Stamped, WaitOK
<1>4. CASE Gateway!TagInterface
  <2>1. /\ eni'.owner = eni.owner /\ eni'.attachment = eni.attachment
        /\ eni'.generation = eni.generation + 1
        /\ eni' \in [generation : Nat, owner : Instance \cup {None}, attachment : Attachment \cup {None},
                     status : {"attached", "attaching", "detaching", "available"}]
        /\ UNCHANGED <<life, gen, run, group>>
    BY <1>4, SMT DEF GatewayInv, GatewayType, Gateway!TagInterface
  <2>2. /\ setup'.pc = "template"
        /\ setup' \in [pc : {"idle", "template", "wait", "interface"}, seen : Instance \cup {None}]
    BY <1>4 DEF GatewayInv, GatewayType, Gateway!TagInterface
  <2>3. GatewayType'
    BY <2>1, <2>2 DEF GatewayInv, GatewayType
  <2>4. \A j \in Instance : ScriptOK(j, run[j], life', gen', eni')
    <3> SUFFICES ASSUME NEW j \in Instance PROVE ScriptOK(j, run[j], life', gen', eni')
      OBVIOUS
    <3>1. ScriptOK(j, run[j], life, gen, eni)
      BY DEF GatewayInv
    <3> QED BY <2>1, <3>1 DEF ScriptOK
  <2>5. Stamped'
    BY <2>1, GatewayFields, SMT DEF GatewayInv, Stamped
  <2> QED BY <2>1, <2>2, <2>3, <2>4, <2>5 DEF GatewayInv, WaitOK
<1>5. CASE Gateway!StartRefresh
  <2>1. /\ UNCHANGED <<eni, life, gen, run>> /\ group'.template = eni.generation
        /\ setup'.pc = "wait"
    BY <1>5 DEF GatewayInv, GatewayType, Gateway!StartRefresh
  <2>2. GatewayType'
    BY <1>5 DEF GatewayInv, GatewayType, Gateway!StartRefresh, Gateway!Alive
  <2>3. eni.generation <= eni.generation
    BY GatewayFields, SMT DEF GatewayInv
  <2> QED BY <2>1, <2>2, <2>3 DEF GatewayInv, Stamped, WaitOK
<1>6. CASE Gateway!WaitFails \/ Gateway!ReadInterface
  <2>1. /\ UNCHANGED <<eni, life, gen, run, group>> /\ setup'.pc \in {"idle", "wait"}
        /\ setup'.pc = "wait" => setup.pc = "interface"
        /\ setup' \in [pc : {"idle", "template", "wait", "interface"}, seen : Instance \cup {None}]
    <3>1. CASE Gateway!WaitFails
      BY <3>1 DEF Gateway!WaitFails
    <3>2. CASE Gateway!ReadInterface
      <4> DEFINE p == IF eni.owner = setup.seen THEN "idle" ELSE "wait"
      <4>1. p \in {"idle", "wait"}
        OBVIOUS
      <4>2. setup' = [pc |-> p, seen |-> None] /\ setup.pc = "interface"
        BY <3>2 DEF Gateway!ReadInterface
      <4> HIDE DEF p
      <4>3. setup'.pc = p
        BY <4>2
      <4>4. setup' \in [pc : {"idle", "template", "wait", "interface"}, seen : Instance \cup {None}]
        BY <4>1, <4>2
      <4> QED BY <3>2, <4>1, <4>2, <4>3, <4>4 DEF Gateway!ReadInterface
    <3> QED BY <1>6, <3>1, <3>2
  <2>2. GatewayType'
    BY <2>1 DEF GatewayInv, GatewayType
  <2> QED BY <2>1, <2>2 DEF GatewayInv, Stamped, WaitOK
<1>7. CASE Gateway!ReadGroup
  <2>1. PICK c \in Gateway!Candidates : setup' = [pc |-> "interface", seen |-> c]
    BY <1>7 DEF Gateway!ReadGroup
  <2>2. UNCHANGED <<eni, life, gen, run, group>> /\ setup.pc = "wait"
    BY <1>7 DEF Gateway!ReadGroup
  <2>3. c \in Instance /\ gen[c] = group.template /\ life[c] # "wait"
    BY DEF Gateway!Candidates, Gateway!Alive
  <2>4. GatewayType'
    BY <2>1, <2>2, <2>3 DEF GatewayInv, GatewayType
  <2> QED BY <2>1, <2>2, <2>3, <2>4 DEF GatewayInv, Stamped, WaitOK
<1> QED BY <1>1, <1>2, <1>3, <1>4, <1>5, <1>6, <1>7 DEF Gateway!Aws, Gateway!Setup

\* The inductive invariant of the handoff, for any instances, setups and failures.
THEOREM GatewayInvariant == Gateway!Spec => []GatewayInv
<1>1. Gateway!Init => GatewayInv
  <2> SUFFICES ASSUME Gateway!Init PROVE GatewayInv
    OBVIOUS
  <2> DEFINE a == CHOOSE x \in Attachment : TRUE
  <2>1. /\ eni = [generation |-> 1, owner |-> First, attachment |-> a, status |-> "attached"]
        /\ life = [i \in Instance |-> IF i = First THEN "service" ELSE "gone"]
        /\ gen = [i \in Instance |-> 1] /\ run = [i \in Instance |-> Gateway!Off]
        /\ group = [template |-> 1, refresh |-> "none", old |-> {}, abandoned |-> FALSE]
        /\ setup = [pc |-> "idle", seen |-> None]
    BY DEF Gateway!Init
  <2>2. a \in Attachment /\ a # None
    <3>1. \E x \in Attachment : TRUE
      <4>1. [i \in Instance |-> None] \in [Instance -> Attachment \cup {None}]
        OBVIOUS
      <4> QED BY <4>1, GatewayConstants
    <3> QED BY <3>1, GatewayConstants
  <2> HIDE DEF a
  <2>3. Gateway!Off \in Bootstrap /\ Gateway!Off.pc = "off"
    BY DEF Bootstrap, Gateway!Off
  <2>4. 1 \in Nat /\ 1 <= 1
    BY SMT
  <2>5. GatewayType
    BY <2>1, <2>2, <2>3, <2>4, GatewayConstants DEF GatewayType
  <2>6. \A i \in Instance : ScriptOK(i, run[i], life, gen, eni)
    BY <2>1, <2>3 DEF ScriptOK
  <2>7. Stamped /\ WaitOK
    BY <2>1, <2>4 DEF Stamped, WaitOK
  <2> QED BY <2>1, <2>2, <2>5, <2>6, <2>7, GatewayConstants DEF GatewayInv
<1>2. GatewayInv /\ [Gateway!Next]_Gateway!vars => GatewayInv'
  <2> SUFFICES ASSUME GatewayInv, [Gateway!Next]_Gateway!vars PROVE GatewayInv'
    OBVIOUS
  <2>1. CASE UNCHANGED Gateway!vars
    BY <2>1 DEF Gateway!vars, GatewayInv, GatewayType, Stamped, WaitOK
  <2> QED BY <2>1, ScriptKeeps, ScalingKeeps, FailureKeeps, ServicesKeep DEF Gateway!Next
<1> QED BY <1>1, <1>2, PTL DEF Gateway!Spec

\* Who changes the owner or the status of an interface that serves: the end of its
\* instance, or a candidate of the current generation.
LEMMA ServingMoves ==
  ASSUME GatewayInv, Gateway!Next
  PROVE  Gateway!HandoffForward
<1> SUFFICES ASSUME NEW i \in Instance, Gateway!Serving(i), gen[i] = eni.generation,
                    eni'.owner # i \/ eni'.status # "attached", life[i] # "terminating"
             PROVE  \E c \in Instance : /\ run[c].pc = "detach" /\ run'[c].pc = "available"
                                        /\ gen[c] = eni.generation
  BY DEF Gateway!HandoffForward
<1>1. eni.owner = i /\ eni.status = "attached" /\ life[i] = "service" /\ eni' # eni
  BY DEF Gateway!Serving
<1>2. eni.owner # None
  BY <1>1, GatewayConstants
<1>3. ASSUME NEW c \in Instance, Gateway!DetachPrevious(c)
      PROVE  run[c].pc = "detach" /\ run'[c].pc = "available" /\ gen[c] = eni.generation
  <2>1. run[c].pc = "detach" /\ run[c].attachment = eni.attachment /\ Gateway!Goto(c, "available")
    BY <1>1, <1>3 DEF Gateway!DetachPrevious, Gateway!Detachable
  <2>2. run[c] \in Bootstrap /\ run \in [Instance -> Bootstrap]
    BY DEF GatewayInv, GatewayType
  <2>3. run'[c].pc = "available"
    BY <2>1, <2>2 DEF Gateway!Goto, Bootstrap
  <2>4. gen[i] <= gen[c] /\ gen[c] <= eni.generation
    BY <1>1, <2>1 DEF GatewayInv, ScriptOK, Stamped
  <2>5. gen[c] = eni.generation
    BY <2>4, GatewayFields, SMT DEF GatewayInv
  <2> QED BY <2>1, <2>3, <2>5
<1>4. ASSUME NEW c \in Instance, Gateway!Script(c), ~Gateway!DetachPrevious(c) PROVE FALSE
  <2>1. CASE Gateway!ReleaseSelf(c)
    <3>1. run[c].pc = "release" /\ run[c].attachment = eni.attachment
      BY <1>1, <2>1 DEF Gateway!ReleaseSelf, Gateway!Detachable
    <3>2. c = i
      BY <1>1, <3>1 DEF GatewayInv, ScriptOK
    <3> QED BY <1>1, <3>1, <3>2, NotInService
  <2>2. CASE Gateway!AttachSelf(c) \/ Gateway!Restore(c)
    BY <1>1, <1>2, <2>2 DEF Gateway!AttachSelf, Gateway!Restore, Gateway!Available
  <2> QED BY <1>1, <1>4, <2>1, <2>2
          DEF Gateway!Script, Gateway!Install, Gateway!Verify, Gateway!AwaitAvailable, Gateway!Claim,
              Gateway!AwaitAttached, Gateway!Probe, Gateway!Commit, Gateway!Complete,
              Gateway!CheckCompletion, Gateway!Rollback, Gateway!AwaitReleased, Gateway!Abandon
<1>5. ASSUME NEW c \in Instance, Gateway!Scaling(c) \/ Gateway!Failure(c) PROVE FALSE
  <2>1. CASE Gateway!Vanish(c)
    BY <1>1, <2>1 DEF Gateway!Vanish
  <2> QED BY <1>1, <1>5, <2>1
          DEF Gateway!Scaling, Gateway!Launch, Gateway!Expire, Gateway!Replace, Gateway!Terminate,
              Gateway!Failure, Gateway!LocalFailure, Gateway!CallFails, Gateway!AnswerLost,
              Gateway!LoseHeartbeat, Gateway!Die
<1>6. ASSUME Gateway!Aws \/ Gateway!Setup PROVE FALSE
  <2>1. CASE Gateway!TagInterface
    <3>1. eni'.owner = eni.owner /\ eni'.status = eni.status
      BY <2>1 DEF GatewayInv, GatewayType, Gateway!TagInterface
    <3> QED BY <1>1, <3>1
  <2> QED BY <1>1, <1>6, <2>1
          DEF Gateway!Aws, Gateway!FinishDetach, Gateway!FinishAttach, Gateway!Refreshed, Gateway!GiveUp,
              Gateway!Setup, Gateway!StartRefresh, Gateway!WaitFails, Gateway!ReadGroup,
              Gateway!ReadInterface
<1> QED BY <1>3, <1>4, <1>5, <1>6 DEF Gateway!Next

\* What setup reports is what it waited for.
LEMMA ReportsServing ==
  ASSUME GatewayInv, Gateway!Next
  PROVE  Gateway!ReadyServes
<1> SUFFICES ASSUME setup.pc = "interface", setup'.pc = "idle"
             PROVE  /\ eni.owner # None /\ gen[eni.owner] = eni.generation
                    /\ life[eni.owner] # "wait"
  BY DEF Gateway!ReadyServes
<1>1. Gateway!ReadInterface
  <2>1. setup' # setup
    OBVIOUS
  <2>2. ASSUME NEW c \in Instance PROVE ~(Gateway!Script(c) \/ Gateway!Scaling(c) \/ Gateway!Failure(c))
    BY <2>1 DEF Gateway!Script, Gateway!Install, Gateway!Verify, Gateway!DetachPrevious,
          Gateway!AwaitAvailable, Gateway!Claim, Gateway!AttachSelf, Gateway!AwaitAttached,
          Gateway!Probe, Gateway!Commit, Gateway!Complete, Gateway!CheckCompletion, Gateway!Rollback,
          Gateway!ReleaseSelf, Gateway!AwaitReleased, Gateway!Restore, Gateway!Abandon,
          Gateway!Scaling, Gateway!Launch, Gateway!Expire, Gateway!Replace, Gateway!Terminate,
          Gateway!Vanish, Gateway!Failure, Gateway!LocalFailure, Gateway!CallFails,
          Gateway!AnswerLost, Gateway!LoseHeartbeat, Gateway!Die
  <2>3. ~Gateway!Aws
    BY <2>1 DEF Gateway!Aws, Gateway!FinishDetach, Gateway!FinishAttach, Gateway!Refreshed, Gateway!GiveUp
  <2> QED BY <2>2, <2>3 DEF Gateway!Next, Gateway!Setup, Gateway!TagInterface, Gateway!StartRefresh,
          Gateway!WaitFails, Gateway!ReadGroup
<1>2. eni.owner = setup.seen
  BY <1>1 DEF Gateway!ReadInterface
<1> QED BY <1>2, GatewayConstants DEF GatewayInv, WaitOK

\* An instance that serves with the current generation keeps the interface as long as it
\* lives unless a candidate of that generation takes it over, and setup reports only a
\* gateway that serves (nat64.sh.tftpl, nat64.go).
THEOREM HandoffsAreSafe == Gateway!Spec => HandoffsSafe
<1>1. GatewayInv /\ [Gateway!Next]_Gateway!vars
        => [Gateway!HandoffForward /\ Gateway!ReadyServes]_Gateway!vars
  BY ServingMoves, ReportsServing
<1> QED BY <1>1, GatewayInvariant, PTL DEF Gateway!Spec, HandoffsSafe, Gateway!HandoffsSafe
=============================================================================
