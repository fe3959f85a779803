---------------------------- MODULE AgentProofs -----------------------------
(***************************************************************************)
(* FatalIsCause and SignalIsClean for any set of components, any number of *)
(* failures and any order of the goroutines, the channel and the select;   *)
(* IdentitySound for any number of certificates, revisions and failures.   *)
(*                                                                         *)
(* What makes the first two inductive is Quiet: as long as main waits and  *)
(* no signal has come, nothing has been cancelled or stopped, so that      *)
(* whatever has returned, sent or unsent, has returned of itself.          *)
(*                                                                         *)
(* IdentitySound is about the selected generation of fluent-bit's files.   *)
(* The strengthening follows an installation (InstallationOK): the         *)
(* generation it writes is a new one, never the selected one, and what is  *)
(* in memory (MemoryOK) is what the directory was left with unless the     *)
(* installation is pending.                                                *)
(***************************************************************************)
EXTENDS Agent, Naturals, Sequences, TLAPS

USE Zenon

-----------------------------------------------------------------------------

\* Shapes of the state.
Shapes ==
  /\ phase = [c \in Process!Component |-> phase[c]]
  /\ results \in Seq(Process!Component)
  /\ failures \in Seq(Process!Component)

\* Before a signal or a first result everything that returned did so of itself.
Quiet ==
  /\ main = "wait" => ~cancelled /\ closed = {}
  /\ main = "wait" /\ ~signalled =>
       /\ Process!Range(results) \subseteq Process!Range(failures)
       /\ \A c \in Process!Component : phase[c] \in {"returning", "done"} => c \in Process!Range(failures)

\* Main leaves for the hooks after the delay or for a component it blames.
Left == main \in {"stop", "join", "exited"} => delayed \/ fatal # Nil

\* The inductive invariant.
DaemonInv == Shapes /\ Quiet /\ Process!FatalIsCause /\ Left

-----------------------------------------------------------------------------
(* Sequences *)

\* An appended element joins the range.
LEMMA AppendRange ==
  ASSUME NEW S, NEW s \in Seq(S), NEW e \in S
  PROVE  /\ Append(s, e) \in Seq(S)
         /\ Process!Range(Append(s, e)) = Process!Range(s) \cup {e}
<1>1. Append(s, e) \in Seq(S) /\ Len(Append(s, e)) = Len(s) + 1
  BY SMTT(30)
<1>2. \A i \in 1..Len(s) : Append(s, e)[i] = s[i]
  BY SMTT(30)
<1>3. Append(s, e)[Len(s) + 1] = e
  BY SMTT(30)
<1>4. /\ Len(s) \in Nat /\ DOMAIN s = 1..Len(s)
      /\ DOMAIN Append(s, e) = 1..(Len(s) + 1)
  BY <1>1, SMTT(30)
<1>5. \A i \in 1..(Len(s) + 1) : i \in 1..Len(s) \/ i = Len(s) + 1
  BY <1>4, SMTT(30)
<1>6. Len(s) + 1 \in 1..(Len(s) + 1) /\ \A i \in 1..Len(s) : i \in 1..(Len(s) + 1)
  BY <1>4, SMTT(30)
<1> QED
  BY <1>1, <1>2, <1>3, <1>4, <1>5, <1>6 DEF Process!Range

\* The head is in the range, and the tail has no other elements.
LEMMA TailRange ==
  ASSUME NEW S, NEW s \in Seq(S), s # << >>
  PROVE  /\ Tail(s) \in Seq(S)
         /\ Head(s) \in Process!Range(s)
         /\ Process!Range(Tail(s)) \subseteq Process!Range(s)
<1>1. Tail(s) \in Seq(S) /\ Len(s) \in Nat \ {0} /\ Len(Tail(s)) = Len(s) - 1
  BY SMTT(30)
<1>2. Head(s) = s[1] /\ 1 \in 1..Len(s)
  BY <1>1, SMTT(30)
<1>3. \A i \in 1..(Len(s) - 1) : Tail(s)[i] = s[i + 1] /\ i + 1 \in 1..Len(s)
  BY <1>1, SMTT(30)
<1>4. DOMAIN s = 1..Len(s) /\ DOMAIN Tail(s) = 1..(Len(s) - 1)
  BY <1>1, SMTT(30)
<1> QED
  BY <1>1, <1>2, <1>3, <1>4 DEF Process!Range

\* The empty sequence has no elements.
LEMMA EmptyRange == Process!Range(<< >>) = {} /\ \A S : << >> \in Seq(S)
<1>1. DOMAIN << >> = {}
  BY SMTT(30)
<1>2. \A S : << >> \in Seq(S)
  BY SMTT(30)
<1> QED
  BY <1>1, <1>2 DEF Process!Range

-----------------------------------------------------------------------------
(* The goroutines *)

\* Nothing has returned yet.
LEMMA InitDaemonInv == Process!Init => DaemonInv
<1> SUFFICES ASSUME Process!Init PROVE DaemonInv
  OBVIOUS
<1>1. Shapes
  BY EmptyRange DEF Process!Init, Shapes
<1>2. Quiet
  BY EmptyRange DEF Process!Init, Quiet
<1> QED
  BY <1>1, <1>2 DEF Process!Init, DaemonInv, Process!FatalIsCause, Left

\* A goroutine changes its phase.
LEMMA PhaseStep ==
  ASSUME phase = [d \in Process!Component |-> phase[d]], NEW c \in Process!Component, NEW p, phase' = [phase EXCEPT ![c] = p]
  PROVE  /\ phase' = [d \in Process!Component |-> phase'[d]]
         /\ \A d \in Process!Component : phase'[d] = IF d = c THEN p ELSE phase[d]
<1>1. phase' = [d \in Process!Component |-> IF d = c THEN p ELSE phase[d]]
  OBVIOUS
<1> QED
  BY <1>1

\* A goroutine is scheduled; none has been stopped while main waits.
LEMMA StartKeeps ==
  ASSUME DaemonInv, NEW c \in Process!Component, Process!Start(c)
  PROVE  DaemonInv'
<1>1. Shapes /\ Quiet /\ Process!FatalIsCause /\ Left
  BY DEF DaemonInv
<1>2. UNCHANGED <<closed, results, main, cancelled, signalled, delayed, fatal, failures>>
  BY DEF Process!Start
<1>3. PICK p : phase' = [phase EXCEPT ![c] = p] /\ (c \notin closed => p = "serving")
  BY DEF Process!Start
<1>4. /\ phase' = [d \in Process!Component |-> phase'[d]]
      /\ \A d \in Process!Component : phase'[d] = IF d = c THEN p ELSE phase[d]
  BY <1>1, <1>3, PhaseStep DEF Shapes
<1>5. Shapes'
  BY <1>1, <1>2, <1>4 DEF Shapes
<1>6. Quiet'
  BY <1>1, <1>2, <1>3, <1>4 DEF Quiet
<1> QED
  BY <1>1, <1>2, <1>5, <1>6 DEF DaemonInv, Process!FatalIsCause, Left

\* A component returns of itself and joins the failures.
LEMMA ReturnEarlyKeeps ==
  ASSUME DaemonInv, NEW c \in Process!Component, Process!ReturnEarly(c)
  PROVE  DaemonInv'
<1>1. Shapes /\ Quiet /\ Process!FatalIsCause /\ Left
  BY DEF DaemonInv
<1>2. UNCHANGED <<closed, results, main, cancelled, signalled, delayed, fatal>>
  BY DEF Process!ReturnEarly
<1>3. phase' = [phase EXCEPT ![c] = "returning"] /\ failures' = Append(failures, c)
  BY DEF Process!ReturnEarly
<1>4. /\ phase' = [d \in Process!Component |-> phase'[d]]
      /\ \A d \in Process!Component : phase'[d] = IF d = c THEN "returning" ELSE phase[d]
  BY <1>1, <1>3, PhaseStep DEF Shapes
<1>5. failures' \in Seq(Process!Component) /\ Process!Range(failures') = Process!Range(failures) \cup {c}
  <2>1. failures \in Seq(Process!Component)
    BY <1>1 DEF Shapes
  <2>2. /\ Append(failures, c) \in Seq(Process!Component)
        /\ Process!Range(Append(failures, c)) = Process!Range(failures) \cup {c}
    BY <2>1, AppendRange, SMTT(30)
  <2> QED
    BY <2>2, <1>3
<1>6. Shapes'
  BY <1>1, <1>2, <1>4, <1>5 DEF Shapes
<1>7. Quiet'
  BY <1>1, <1>2, <1>4, <1>5 DEF Quiet
<1>8. Process!FatalIsCause' /\ Left'
  BY <1>1, <1>2, <1>5 DEF Process!FatalIsCause, Left
<1> QED
  BY <1>6, <1>7, <1>8 DEF DaemonInv

\* A component is stopped: not while main waits without a signal.
LEMMA ReturnStoppedKeeps ==
  ASSUME DaemonInv, NEW c \in Process!Component, Process!ReturnStopped(c)
  PROVE  DaemonInv'
<1>1. Shapes /\ Quiet /\ Process!FatalIsCause /\ Left
  BY DEF DaemonInv
<1>2. UNCHANGED <<closed, results, main, cancelled, signalled, delayed, fatal, failures>>
  BY DEF Process!ReturnStopped
<1>3. phase' = [phase EXCEPT ![c] = "returning"]
  BY DEF Process!ReturnStopped
<1>4. phase' = [d \in Process!Component |-> phase'[d]]
  BY <1>1, <1>3, PhaseStep DEF Shapes
<1>5. Shapes'
  BY <1>1, <1>2, <1>4 DEF Shapes
<1>6. ~(main = "wait" /\ ~signalled)
  BY <1>1 DEF Quiet, Process!ReturnStopped
<1>7. Quiet'
  BY <1>1, <1>2, <1>6 DEF Quiet
<1> QED
  BY <1>1, <1>2, <1>5, <1>7 DEF DaemonInv, Process!FatalIsCause, Left

\* A result enters the channel.
LEMMA SendKeeps ==
  ASSUME DaemonInv, NEW c \in Process!Component, Process!Send(c)
  PROVE  DaemonInv'
<1>1. Shapes /\ Quiet /\ Process!FatalIsCause /\ Left
  BY DEF DaemonInv
<1>2. UNCHANGED <<closed, main, cancelled, signalled, delayed, fatal, failures>>
  BY DEF Process!Send
<1>3. /\ phase' = [phase EXCEPT ![c] = "done"] /\ results' = Append(results, c)
      /\ phase[c] = "returning"
  BY DEF Process!Send
<1>4. /\ phase' = [d \in Process!Component |-> phase'[d]]
      /\ \A d \in Process!Component : phase'[d] = IF d = c THEN "done" ELSE phase[d]
  BY <1>1, <1>3, PhaseStep DEF Shapes
<1>5. results' \in Seq(Process!Component) /\ Process!Range(results') = Process!Range(results) \cup {c}
  <2>1. results \in Seq(Process!Component)
    BY <1>1 DEF Shapes
  <2>2. /\ Append(results, c) \in Seq(Process!Component)
        /\ Process!Range(Append(results, c)) = Process!Range(results) \cup {c}
    BY <2>1, AppendRange, SMTT(30)
  <2> QED
    BY <2>2, <1>3
<1>6. Shapes'
  BY <1>1, <1>2, <1>4, <1>5 DEF Shapes
<1>7. Quiet'
  BY <1>1, <1>2, <1>3, <1>4, <1>5 DEF Quiet
<1> QED
  BY <1>1, <1>2, <1>6, <1>7 DEF DaemonInv, Process!FatalIsCause, Left

-----------------------------------------------------------------------------
(* runComponents *)

\* SIGTERM arrives, or main takes it.
LEMMA SignalKeeps ==
  ASSUME DaemonInv, Process!Signal \/ Process!TakeSignal
  PROVE  DaemonInv'
<1>1. Shapes /\ Quiet /\ Process!FatalIsCause /\ Left
  BY DEF DaemonInv
<1>2. UNCHANGED <<phase, closed, results, delayed, fatal, failures>>
  BY DEF Process!Signal, Process!TakeSignal
<1>3. \/ signalled' /\ main' = main /\ cancelled' = cancelled
      \/ main' = "delay"
  BY DEF Process!Signal, Process!TakeSignal
<1>4. Quiet'
  <2>1. CASE signalled' /\ main' = main /\ cancelled' = cancelled
    <3>1. main' = "wait" => ~cancelled' /\ closed' = {}
      BY <2>1, <1>1, <1>2 DEF Quiet
    <3> QED
      BY <2>1, <3>1 DEF Quiet
  <2>2. CASE main' = "delay"
    BY <2>2 DEF Quiet
  <2> QED
    BY <2>1, <2>2, <1>3
<1> QED
  BY <1>1, <1>2, <1>3, <1>4 DEF DaemonInv, Shapes, Process!FatalIsCause, Left

\* Main takes a result; without a signal the component failed of itself.
LEMMA TakeResultKeeps ==
  ASSUME DaemonInv, Process!TakeResult
  PROVE  DaemonInv'
<1>1. Shapes /\ Quiet /\ Process!FatalIsCause /\ Left
  BY DEF DaemonInv
<1>2. UNCHANGED <<phase, closed, signalled, delayed, failures>>
  BY DEF Process!TakeResult
<1>3. /\ main = "wait" /\ results # << >> /\ results' = Tail(results) /\ fatal' = Process!Blamed
      /\ main' = IF Process!Blamed = Nil THEN "delay" ELSE "stop"
  BY DEF Process!TakeResult
<1>4. results' \in Seq(Process!Component) /\ Head(results) \in Process!Range(results)
  BY <1>1, <1>3, TailRange DEF Shapes
<1>5. Shapes'
  BY <1>1, <1>2, <1>4 DEF Shapes
<1>6. Quiet'
  BY <1>3 DEF Quiet
<1>7. Process!FatalIsCause'
  BY <1>1, <1>2, <1>3, <1>4 DEF Process!FatalIsCause, Quiet, Process!Blamed
<1>8. Left'
  BY <1>3 DEF Left
<1> QED
  BY <1>5, <1>6, <1>7, <1>8 DEF DaemonInv

\* The delay, the hooks and the join.
LEMMA StopKeeps ==
  ASSUME DaemonInv, Process!Delay \/ Process!StopHook \/ Process!Join
  PROVE  DaemonInv'
<1>1. Shapes /\ Quiet /\ Process!FatalIsCause /\ Left
  BY DEF DaemonInv
<1>2. UNCHANGED <<phase, results, fatal, failures>> /\ main' # "wait"
  BY DEF Process!Delay, Process!StopHook, Process!Join
<1>3. Left'
  <2>1. CASE Process!Delay
    BY <2>1 DEF Process!Delay, Left
  <2>2. CASE Process!StopHook \/ Process!Join
    <3>1. main \in {"stop", "join"} /\ delayed' = delayed
      BY <2>2 DEF Process!StopHook, Process!Join
    <3> QED
      BY <3>1, <1>1, <1>2 DEF Left
  <2> QED
    BY <2>1, <2>2
<1> QED
  BY <1>1, <1>2, <1>3 DEF DaemonInv, Shapes, Quiet, Process!FatalIsCause

\* Every step keeps the invariant.
LEMMA NextDaemonInv == DaemonInv /\ [Process!Next]_Process!vars => DaemonInv'
<1> SUFFICES ASSUME DaemonInv, [Process!Next]_Process!vars PROVE DaemonInv'
  OBVIOUS
<1>1. CASE UNCHANGED Process!vars
  BY <1>1 DEF Process!vars, DaemonInv, Shapes, Quiet, Process!FatalIsCause, Left
<1>2. CASE Process!Signal \/ Process!Main
  BY <1>2, SignalKeeps, TakeResultKeeps, StopKeeps DEF Process!Main
<1>3. ASSUME NEW c \in Process!Component, Process!Goroutine(c) \/ Process!ReturnEarly(c) PROVE DaemonInv'
  BY <1>3, StartKeeps, ReturnStoppedKeeps, SendKeeps, ReturnEarlyKeeps DEF Process!Goroutine
<1> QED
  BY <1>1, <1>2, <1>3 DEF Process!Next

-----------------------------------------------------------------------------
(* Theorems *)

\* DaemonInv holds throughout runComponents.
THEOREM DaemonInvariant == Process!Spec => []DaemonInv
<1>1. Process!Init => DaemonInv
  BY InitDaemonInv
<1>2. DaemonInv /\ [Process!Next]_Process!vars => DaemonInv'
  BY NextDaemonInv
<1> QED
  BY <1>1, <1>2, PTL DEF Process!Spec

\* runComponents blames only a component that returned of itself, for any set of
\* components and any order in which they return, are stopped and report.
THEOREM BlamesTheCause == Process!Spec => []FatalIsCause
<1>1. DaemonInv => FatalIsCause
  BY DEF DaemonInv, FatalIsCause
<1> QED
  BY <1>1, DaemonInvariant, PTL

\* A SIGTERM that finds every component running ends the daemon without an error and
\* after the drain delay, whichever case the select takes.
THEOREM SignalsAreClean == Process!Spec => []Process!SignalIsClean
<1>1. DaemonInv => Process!SignalIsClean
  <2> SUFFICES ASSUME DaemonInv, main \in {"stop", "join", "exited"}, failures = << >>
               PROVE  fatal = Nil /\ delayed
    BY DEF Process!SignalIsClean
  <2>1. fatal = Nil
    BY EmptyRange DEF DaemonInv, Process!FatalIsCause
  <2> QED
    BY <2>1 DEF DaemonInv, Left
<1> QED
  BY <1>1, DaemonInvariant, PTL


-----------------------------------------------------------------------------
(* Log shipping: the inductive invariant *)

\* What fluentBitTLSState holds.
Memory == [generation : Nat \cup {Nil}, revision : Nat, pending : BOOLEAN]

\* Types of what the identity depends on.
LogsType ==
  /\ caRevision \in Nat /\ rev \in Nat /\ rev <= caRevision
  /\ signer \in Seq(Nat) /\ mem \in Memory
  /\ dirs = [g \in DOMAIN dirs |-> dirs[g]]

\* The selected generation was issued, and has files that were written completely.
SelectedOK ==
  selected # Nil => /\ selected \in 1..Len(signer)
                     /\ selected \in DOMAIN dirs /\ dirs[selected] # "partial"

Installing == {"check", "write", "files", "select"}

\* What an installation has achieved: the generation it writes is not yet selected, and
\* was signed by the revision the pass began with once that was compared.
InstallationOK ==
  /\ pc \in Installing \cup {"cleanup"} => Len(signer) > 0
  /\ pc \in Installing => selected # Len(signer)
  /\ pc = "check" => rev <= signer[Len(signer)] /\ signer[Len(signer)] <= caRevision
  /\ pc \in {"write", "files", "select", "cleanup"} => signer[Len(signer)] = rev
  /\ pc \in {"files", "select"} => Len(signer) \in DOMAIN dirs
  /\ pc = "select" => dirs[Len(signer)] = "complete"
  /\ pc = "cleanup" => selected = Len(signer)

\* The generation in memory was signed by the revision in memory.
MemoryOK ==
  mem.generation # Nil =>
    mem.generation \in 1..Len(signer) /\ signer[mem.generation] = mem.revision

\* The inductive invariant.
LogsInv == LogsType /\ SelectedOK /\ InstallationOK /\ MemoryOK

-----------------------------------------------------------------------------
(* Log shipping: one lemma per step *)

\* Nil is not a generation.
LEMMA NoneAside == Nil \notin Nat
BY LogsAssumption DEF Logs!TelemetryAssumption

\* A step beside the installation: no identity is issued, written, selected or removed.
LEMMA LogsAside ==
  ASSUME LogsInv, UNCHANGED <<signer, dirs, selected>>, mem' \in Memory,
         mem'.generation # Nil => mem'.generation = mem.generation /\ mem'.revision = mem.revision,
         caRevision' \in Nat, caRevision <= caRevision', rev' \in Nat, rev' <= caRevision',
         pc' \notin Installing \cup {"cleanup"} \/ (pc' = pc /\ rev' = rev)
  PROVE  LogsInv'
<1>1. LogsType'
  BY DEF LogsInv, LogsType
<1>2. SelectedOK' /\ MemoryOK'
  BY DEF LogsInv, SelectedOK, MemoryOK
<1>3. InstallationOK'
  <2>1. CASE pc' \notin Installing \cup {"cleanup"}
    BY <2>1 DEF InstallationOK, Installing
  <2>2. CASE pc' = pc /\ rev' = rev
    <3>1. pc = "check" => signer[Len(signer)] <= caRevision'
      <4> HAVE pc = "check"
      <4>1. Len(signer) > 0 /\ signer[Len(signer)] <= caRevision
        BY DEF LogsInv, InstallationOK, Installing
      <4>2. signer[Len(signer)] \in Nat
        BY <4>1, SMT DEF LogsInv, LogsType
      <4> QED BY <4>1, <4>2, SMT DEF LogsInv, LogsType
    <3> QED BY <2>2, <3>1 DEF LogsInv, InstallationOK
  <2> QED BY <2>1, <2>2
<1> QED BY <1>1, <1>2, <1>3 DEF LogsInv

\* A change of pending alone.
LEMMA PendingOnly ==
  ASSUME mem \in Memory, NEW b \in BOOLEAN, mem' = [mem EXCEPT !.pending = b]
  PROVE  mem' \in Memory /\ mem'.generation = mem.generation /\ mem'.revision = mem.revision
BY DEF Memory

\* The steps of a pass that are no part of an installation, and those of the environment.
LEMMA BesideKeeps ==
  ASSUME LogsInv,
         \/ Logs!Begin \/ Logs!Fetch \/ Logs!InstallServerCA \/ Logs!Restart
         \/ Logs!Rotate \/ (\E b \in Bundle \cup {Bad} : Logs!Replace(b)) \/ Logs!Grow
         \/ Logs!StartCollector \/ Logs!StopCollector \/ Logs!Crash
  PROVE  LogsInv'
<1>0. mem \in Memory /\ caRevision \in Nat /\ rev \in Nat /\ rev <= caRevision /\ caRevision <= caRevision
  BY SMT DEF LogsInv, LogsType
<1>1. CASE Logs!Begin
  <2>1. /\ UNCHANGED <<signer, dirs, selected, mem, caRevision>> /\ rev' = caRevision
        /\ pc' \in {"issue", "fetch"}
    BY <1>1 DEF Logs!Begin, Logs!disk, Logs!world
  <2> QED BY <1>0, <2>1, LogsAside DEF Installing
<1>2. CASE Logs!Fetch
  <2>1. /\ UNCHANGED <<signer, dirs, selected, mem, caRevision, rev>> /\ pc' \in {"install", "restart"}
    BY <1>2 DEF Logs!Fetch, Logs!disk, Logs!world
  <2> QED BY <1>0, <2>1, LogsAside DEF Installing
<1>3. CASE Logs!InstallServerCA
  <2>1. /\ UNCHANGED <<signer, dirs, selected, caRevision, rev>> /\ pc' = "restart"
        /\ mem' = [mem EXCEPT !.pending = TRUE] \/ mem' = mem
    BY <1>3 DEF Logs!InstallServerCA, Logs!disk, Logs!world
  <2>2. mem' \in Memory /\ mem'.generation = mem.generation /\ mem'.revision = mem.revision
    BY <1>0, <2>1, PendingOnly
  <2> QED BY <1>0, <2>1, <2>2, LogsAside DEF Installing
<1>4. CASE Logs!Restart
  <2>1. /\ UNCHANGED <<signer, dirs, selected, caRevision, rev>> /\ pc' = "idle"
        /\ mem' = [mem EXCEPT !.pending = mem.pending /\ logFaults' # logFaults] \/ mem' = mem
    BY <1>4 DEF Logs!Restart, Logs!Restarted, Logs!disk, Logs!world
  <2>2. (mem.pending /\ logFaults' # logFaults) \in BOOLEAN
    BY <1>0 DEF Memory
  <2>3. mem' \in Memory /\ mem'.generation = mem.generation /\ mem'.revision = mem.revision
    BY <1>0, <2>1, <2>2, PendingOnly
  <2> QED BY <1>0, <2>1, <2>3, LogsAside DEF Installing
<1>5. CASE Logs!Rotate
  <2>1. UNCHANGED <<signer, dirs, selected, mem, rev, pc>> /\ caRevision' = caRevision + 1
    BY <1>5 DEF Logs!Rotate, Logs!disk
  <2>2. caRevision' \in Nat /\ caRevision <= caRevision' /\ rev <= caRevision'
    BY <1>0, <2>1, SMT
  <2> QED BY <1>0, <2>1, <2>2, LogsAside
<1>6. CASE (\E b \in Bundle \cup {Bad} : Logs!Replace(b)) \/ Logs!Grow
           \/ Logs!StartCollector \/ Logs!StopCollector
  <2>1. UNCHANGED <<signer, dirs, selected, mem, rev, pc, caRevision>>
    BY <1>6 DEF Logs!Replace, Logs!Grow, Logs!StartCollector, Logs!StopCollector, Logs!disk, Logs!world
  <2> QED BY <1>0, <2>1, LogsAside
<1>7. CASE Logs!Crash
  <2>1. UNCHANGED <<signer, dirs, selected, rev, caRevision>> /\ pc' = "idle" /\ mem' = Logs!NoState
    BY <1>7 DEF Logs!Crash, Logs!disk, Logs!world
  <2>2. mem' \in Memory /\ mem'.generation = Nil
    BY <2>1 DEF Logs!NoState, Memory
  <2> QED BY <1>0, <2>1, <2>2, LogsAside DEF Installing
<1> QED BY <1>1, <1>2, <1>3, <1>4, <1>5, <1>6, <1>7

\* A generation is issued: it is numbered after all that were issued before.
LEMMA IssueKeeps == LogsInv /\ Logs!Issue => LogsInv'
<1> SUFFICES ASSUME LogsInv, Logs!Issue PROVE LogsInv'
  OBVIOUS
<1>0. /\ mem \in Memory /\ caRevision \in Nat /\ rev \in Nat /\ rev <= caRevision /\ caRevision <= caRevision
      /\ signer \in Seq(Nat)
  BY SMT DEF LogsInv, LogsType
<1>1. UNCHANGED <<dirs, selected, mem, rev, caRevision>>
  BY DEF Logs!Issue, Logs!disk, Logs!world
<1>2. CASE signer' = Append(signer, caRevision) /\ pc' = "check"
  <2>1. /\ signer' \in Seq(Nat) /\ Len(signer') = Len(signer) + 1 /\ Len(signer) \in Nat
        /\ Len(signer') > 0
        /\ signer'[Len(signer')] = caRevision /\ \A g \in 1..Len(signer) : signer'[g] = signer[g]
        /\ \A g \in 1..Len(signer) : g \in 1..Len(signer') /\ g # Len(signer')
        /\ Len(signer') # Nil
    BY <1>0, <1>2, NoneAside, SMT
  <2>2. LogsType'
    BY <1>1, <2>1 DEF LogsInv, LogsType
  <2>3. SelectedOK' /\ MemoryOK'
    BY <1>1, <2>1 DEF LogsInv, SelectedOK, MemoryOK
  <2>4. InstallationOK'
    BY <1>0, <1>1, <1>2, <2>1 DEF LogsInv, SelectedOK, InstallationOK
  <2> QED BY <2>2, <2>3, <2>4 DEF LogsInv
<1>3. CASE UNCHANGED signer /\ pc' = "fetch"
  BY <1>0, <1>1, <1>3, LogsAside DEF Installing
<1> QED BY <1>2, <1>3 DEF Logs!Issue

\* A leaf of another revision is discarded: otherwise the signer is the revision of the pass.
LEMMA CheckRevisionKeeps == LogsInv /\ Logs!CheckRevision => LogsInv'
<1> SUFFICES ASSUME LogsInv, Logs!CheckRevision PROVE LogsInv'
  OBVIOUS
<1>0. /\ mem \in Memory /\ caRevision \in Nat /\ rev \in Nat /\ rev <= caRevision /\ caRevision <= caRevision
      /\ signer \in Seq(Nat)
  BY SMT DEF LogsInv, LogsType
<1>1. UNCHANGED <<signer, dirs, selected, mem, rev, caRevision>> /\ pc = "check"
  BY DEF Logs!CheckRevision, Logs!disk, Logs!world
<1>2. CASE pc' = "fetch"
  BY <1>0, <1>1, <1>2, LogsAside DEF Installing
<1>3. CASE pc' = "write" /\ caRevision = rev
  <2>1. /\ Len(signer) > 0 /\ selected # Len(signer)
        /\ rev <= signer[Len(signer)] /\ signer[Len(signer)] <= caRevision
    BY <1>1 DEF LogsInv, InstallationOK, Installing
  <2>2. signer[Len(signer)] \in Nat
    BY <1>0, <2>1, SMT
  <2>3. signer[Len(signer)] = rev
    BY <1>0, <1>3, <2>1, <2>2, SMT
  <2>4. LogsType' /\ SelectedOK' /\ MemoryOK'
    BY <1>1 DEF LogsInv, LogsType, SelectedOK, MemoryOK
  <2>5. InstallationOK'
    BY <1>1, <1>3, <2>1, <2>3 DEF InstallationOK
  <2> QED BY <2>4, <2>5 DEF LogsInv
<1> QED BY <1>2, <1>3 DEF Logs!CheckRevision, Logs!Unrotated

\* The directory of a generation that is not selected changes.
LEMMA DirectoryKeeps ==
  ASSUME LogsInv, pc \in Installing, UNCHANGED <<signer, selected, mem, rev, caRevision>>,
         dirs' = [g \in DOMAIN dirs' |-> dirs'[g]],
         \A g \in DOMAIN dirs : g # Len(signer) => g \in DOMAIN dirs' /\ dirs'[g] = dirs[g]
  PROVE  LogsType' /\ SelectedOK' /\ MemoryOK'
<1>1. LogsType'
  BY DEF LogsInv, LogsType
<1>2. selected # Len(signer)
  BY DEF LogsInv, InstallationOK
<1>3. SelectedOK'
  BY <1>2 DEF LogsInv, SelectedOK
<1>4. MemoryOK'
  BY DEF LogsInv, MemoryOK
<1> QED BY <1>1, <1>3, <1>4

\* A directory is made for the generation.
LEMMA MakeDirectoryKeeps == LogsInv /\ Logs!MakeDirectory => LogsInv'
<1> SUFFICES ASSUME LogsInv, Logs!MakeDirectory PROVE LogsInv'
  OBVIOUS
<1> DEFINE n == Len(signer)
<1>0. mem \in Memory /\ caRevision \in Nat /\ rev \in Nat /\ rev <= caRevision /\ caRevision <= caRevision
  BY SMT DEF LogsInv, LogsType
<1>1. UNCHANGED <<signer, selected, mem, rev, caRevision>> /\ pc = "write"
  BY DEF Logs!MakeDirectory, Logs!world
<1>2. CASE pc' = "fetch" /\ UNCHANGED dirs
  BY <1>0, <1>1, <1>2, LogsAside DEF Installing
<1>3. CASE /\ pc' = "files"
           /\ dirs' = [g \in DOMAIN dirs \cup {n} |-> IF g = n THEN "partial" ELSE dirs[g]]
  <2>1. LogsType' /\ SelectedOK' /\ MemoryOK'
    BY <1>1, <1>3, DirectoryKeeps DEF Installing
  <2>2. InstallationOK'
    BY <1>1, <1>3 DEF LogsInv, InstallationOK, Installing
  <2> QED BY <2>1, <2>2 DEF LogsInv
<1> QED BY <1>2, <1>3 DEF Logs!MakeDirectory, Logs!Newest

\* Its files are written, or the directory is removed.
LEMMA WriteFilesKeeps == LogsInv /\ Logs!WriteFiles => LogsInv'
<1> SUFFICES ASSUME LogsInv, Logs!WriteFiles PROVE LogsInv'
  OBVIOUS
<1> DEFINE n == Len(signer)
<1>1. UNCHANGED <<signer, selected, mem, rev, caRevision>> /\ pc = "files"
  BY DEF Logs!WriteFiles, Logs!world
<1>2. dirs = [g \in DOMAIN dirs |-> dirs[g]] /\ n \in DOMAIN dirs
  BY <1>1 DEF LogsInv, LogsType, InstallationOK
<1>3. CASE pc' = "select" /\ dirs' = [dirs EXCEPT ![n] = "complete"]
  <2>1. LogsType' /\ SelectedOK' /\ MemoryOK'
    BY <1>1, <1>2, <1>3, DirectoryKeeps DEF Installing
  <2>2. InstallationOK'
    BY <1>1, <1>2, <1>3 DEF LogsInv, InstallationOK, Installing
  <2> QED BY <2>1, <2>2 DEF LogsInv
<1>4. CASE pc' = "fetch" /\ dirs' = [h \in DOMAIN dirs \ {n} |-> dirs[h]]
  <2>1. LogsType' /\ SelectedOK' /\ MemoryOK'
    BY <1>1, <1>4, DirectoryKeeps DEF Installing
  <2>2. InstallationOK'
    BY <1>4 DEF InstallationOK, Installing
  <2> QED BY <2>1, <2>2 DEF LogsInv
<1> QED BY <1>3, <1>4 DEF Logs!WriteFiles, Logs!Newest, Logs!Without

\* The link is switched to the complete generation, or the directory is removed.
LEMMA SelectKeeps == LogsInv /\ Logs!Select => LogsInv'
<1> SUFFICES ASSUME LogsInv, Logs!Select PROVE LogsInv'
  OBVIOUS
<1> DEFINE n == Len(signer)
<1>1. UNCHANGED <<signer, mem, rev, caRevision>> /\ pc = "select"
  BY DEF Logs!Select, Logs!world
<1>2. /\ n > 0 /\ n \in DOMAIN dirs /\ dirs[n] = "complete" /\ signer[n] = rev
      /\ n \in 1..n
  <2>1. n > 0 /\ n \in DOMAIN dirs /\ dirs[n] = "complete" /\ signer[n] = rev
    BY <1>1 DEF LogsInv, InstallationOK, Installing
  <2>2. n \in 1..n
    BY <2>1, SMT DEF LogsInv, LogsType
  <2> QED BY <2>1, <2>2
<1>3. CASE selected' = n /\ pc' = "cleanup" /\ UNCHANGED dirs
  <2>1. LogsType' /\ MemoryOK'
    BY <1>1, <1>3 DEF LogsInv, LogsType, MemoryOK
  <2>2. SelectedOK'
    BY <1>1, <1>2, <1>3 DEF SelectedOK
  <2>3. InstallationOK'
    BY <1>1, <1>2, <1>3 DEF InstallationOK, Installing
  <2> QED BY <2>1, <2>2, <2>3 DEF LogsInv
<1>4. CASE pc' = "fetch" /\ dirs' = [h \in DOMAIN dirs \ {n} |-> dirs[h]] /\ UNCHANGED selected
  <2>1. LogsType' /\ SelectedOK' /\ MemoryOK'
    BY <1>1, <1>4, DirectoryKeeps DEF Installing
  <2>2. InstallationOK'
    BY <1>4 DEF InstallationOK, Installing
  <2> QED BY <2>1, <2>2 DEF LogsInv
<1> QED BY <1>3, <1>4 DEF Logs!Select, Logs!Newest, Logs!Without

\* Other generations are removed and the installed one is remembered.
LEMMA CleanupKeeps == LogsInv /\ Logs!Cleanup => LogsInv'
<1> SUFFICES ASSUME LogsInv, Logs!Cleanup PROVE LogsInv'
  OBVIOUS
<1> DEFINE n == Len(signer)
<1>0. mem \in Memory /\ caRevision \in Nat /\ rev \in Nat /\ rev <= caRevision /\ caRevision <= caRevision
  BY SMT DEF LogsInv, LogsType
<1>1. UNCHANGED <<signer, selected, rev, caRevision>> /\ pc = "cleanup" /\ pc' = "fetch"
  BY DEF Logs!Cleanup, Logs!world
<1>2. CASE UNCHANGED <<dirs, mem>>
  BY <1>0, <1>1, <1>2, LogsAside DEF Installing
<1>3. CASE /\ dirs' = [g \in DOMAIN dirs \cap {n, previous} |-> dirs[g]]
           /\ mem' = [generation |-> n, revision |-> rev, pending |-> TRUE]
  <2>1. n > 0 /\ selected = n /\ signer[n] = rev
    BY <1>1 DEF LogsInv, InstallationOK, Installing
  <2>2. n \in 1..n /\ n \in Nat
    BY <2>1, SMT DEF LogsInv, LogsType
  <2>3. mem' \in Memory /\ mem'.generation = n /\ mem'.revision = rev
    BY <1>0, <1>3, <2>2 DEF Memory
  <2>4. LogsType'
    BY <1>1, <1>3, <2>3 DEF LogsInv, LogsType
  <2>5. SelectedOK'
    BY <1>1, <1>3, <2>1 DEF LogsInv, SelectedOK
  <2>6. MemoryOK'
    BY <1>1, <2>1, <2>2, <2>3 DEF MemoryOK
  <2>7. InstallationOK'
    BY <1>1 DEF InstallationOK, Installing
  <2> QED BY <2>4, <2>5, <2>6, <2>7 DEF LogsInv
<1> QED BY <1>2, <1>3 DEF Logs!Cleanup, Logs!Newest, Logs!Kept

\* Files of the selected generation are damaged; the one being written is another.
LEMMA DamageKeeps == LogsInv /\ Logs!Damage => LogsInv'
<1> SUFFICES ASSUME LogsInv, Logs!Damage PROVE LogsInv'
  OBVIOUS
<1>1. /\ UNCHANGED <<signer, selected, mem, rev, caRevision, pc>>
      /\ selected \in DOMAIN dirs /\ dirs' = [dirs EXCEPT ![selected] = "damaged"]
  BY DEF Logs!Damage, Logs!world
<1>2. dirs = [g \in DOMAIN dirs |-> dirs[g]]
  BY DEF LogsInv, LogsType
<1>3. LogsType' /\ MemoryOK'
  BY <1>1, <1>2 DEF LogsInv, LogsType, MemoryOK
<1>4. SelectedOK'
  BY <1>1, <1>2 DEF LogsInv, SelectedOK
<1>5. InstallationOK'
  BY <1>1, <1>2 DEF LogsInv, InstallationOK, Installing
<1> QED BY <1>3, <1>4, <1>5 DEF LogsInv

-----------------------------------------------------------------------------
(* Log shipping: the theorems *)

\* The invariant of the installation of an identity (installClientIdentity and
\* maintainFluentBitTLS of telemetry.go).
THEOREM LogsInvariant == Logs!Spec => []LogsInv
<1>1. Logs!Init => LogsInv
  <2> SUFFICES ASSUME Logs!Init PROVE LogsInv
    OBVIOUS
  <2>1. /\ caRevision = 1 /\ signer = <<>> /\ dirs = [g \in {} |-> Nil] /\ selected = Nil
        /\ mem = Logs!NoState /\ pc = "idle" /\ rev = 0
    BY DEF Logs!Init
  <2>2. mem \in Memory /\ mem.generation = Nil
    BY <2>1 DEF Logs!NoState, Memory
  <2>3. caRevision \in Nat /\ rev \in Nat /\ rev <= caRevision /\ signer \in Seq(Nat)
    BY <2>1, SMT
  <2>4. LogsType
    BY <2>1, <2>2, <2>3 DEF LogsType
  <2>5. SelectedOK /\ MemoryOK
    BY <2>1, <2>2 DEF SelectedOK, MemoryOK
  <2>6. InstallationOK
    BY <2>1 DEF InstallationOK, Installing
  <2> QED BY <2>4, <2>5, <2>6 DEF LogsInv
<1>2. LogsInv /\ [Logs!Next]_Logs!vars => LogsInv'
  <2> SUFFICES ASSUME LogsInv, [Logs!Next]_Logs!vars PROVE LogsInv'
    OBVIOUS
  <2>1. CASE UNCHANGED Logs!vars
    BY <2>1 DEF Logs!vars, Logs!world, Logs!disk, LogsInv, LogsType, SelectedOK, InstallationOK, MemoryOK
  <2>2. CASE Logs!Next
    BY <2>2, BesideKeeps, IssueKeeps, CheckRevisionKeeps, MakeDirectoryKeeps, WriteFilesKeeps,
       SelectKeeps, CleanupKeeps, DamageKeeps DEF Logs!Next, Logs!Pass
  <2> QED BY <2>1, <2>2
<1> QED BY <1>1, <1>2, PTL DEF Logs!Spec

\* The selected identity is whole and its signer is the recorded one, whatever fails, is
\* damaged or ends in between, for any number of rotations (telemetry.go).
THEOREM IdentityIsSound == Logs!Spec => []IdentitySound
<1>1. LogsInv => IdentitySound
  BY DEF LogsInv, SelectedOK, MemoryOK, IdentitySound, Logs!IdentitySound, Logs!SelectedComplete, Logs!SignerRecorded
<1> QED BY <1>1, LogsInvariant, PTL
=============================================================================
