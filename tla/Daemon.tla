------------------------------- MODULE Daemon -------------------------------
(***************************************************************************)
(* The life of podmin-agent's components (internal/agent/daemon.go):       *)
(* runComponents starts one goroutine per component, waits for SIGTERM or  *)
(* for the first component that returns, cancels the siblings, calls every *)
(* stop hook in turn and waits for all the goroutines.                     *)
(*                                                                         *)
(* The goroutines are scheduled when the Go runtime pleases: a component   *)
(* may still be "new" when a sibling has failed and the hooks have run.    *)
(* What its server then does is the server library's business:             *)
(*   net/http    Shutdown is remembered; a later ListenAndServe returns;   *)
(*   grpc        GracefulStop is remembered; a later Serve returns;        *)
(*   miekg/dns   ShutdownContext of a server that has not started returns  *)
(*               an error and is not remembered.                           *)
(***************************************************************************)
EXTENDS Naturals, Sequences, FiniteSets, Functions

CONSTANTS
  Http, Grpc, Dns,      \* the servers, stopped by their hooks
  Loop,                 \* the components that watch the run context
  Order,                \* the components in the order they are listed
  None,
  MaxFailures,          \* bound: components that return of themselves
  EarlyFailures         \* whether one may return before all are scheduled

Component == Http \cup Grpc \cup Dns \cup Loop

ComponentAssumption ==
  /\ IsInjective(Order)
  /\ Range(Order) = Component
  /\ MaxFailures \in Nat
  /\ EarlyFailures \in BOOLEAN

VARIABLES
  phase,        \* each goroutine: new, serving, returning or done
  closed,       \* the servers that remember a shutdown
  results,      \* the channel of returned components
  main,         \* wait, delay, stop, join or exited
  hooks,        \* how many components' hooks have been called
  cancelled,    \* the run context
  signalled,    \* the caller's context: SIGTERM has arrived
  delayed,      \* the graceful delay was waited for
  fatal,        \* the component runComponents blames, or None
  failures      \* components that returned of themselves, in order

vars == <<phase, closed, results, main, hooks, cancelled, signalled, delayed,
          fatal, failures>>

Init ==
  /\ phase = [c \in Component |-> "new"]
  /\ closed = {}
  /\ results = << >>
  /\ main = "wait"
  /\ hooks = 0
  /\ cancelled = FALSE /\ signalled = FALSE /\ delayed = FALSE
  /\ fatal = None
  /\ failures = << >>

Scheduled == \A c \in Component : phase[c] # "new"

(***************************************************************************)
(* The goroutines                                                          *)
(***************************************************************************)
(* current.run begins: a server that remembers its shutdown returns at     *)
(* once, any other listens.                                                *)
Start(c) ==
  /\ phase[c] = "new"
  /\ phase' = [phase EXCEPT ![c] = IF c \in closed THEN "returning"
                                                   ELSE "serving"]
  /\ UNCHANGED <<closed, results, main, hooks, cancelled, signalled, delayed,
                 fatal, failures>>

(* A component returns of itself: an address in use, a Serve that fails,   *)
(* an elector that cannot start, a PodsAPI socket that cannot be dialled.  *)
ReturnEarly(c) ==
  /\ phase[c] = "serving" /\ c \notin closed
  /\ main \in {"wait", "delay"} /\ Len(failures) < MaxFailures
  /\ EarlyFailures \/ Scheduled
  /\ phase' = [phase EXCEPT ![c] = "returning"]
  /\ failures' = Append(failures, c)
  /\ UNCHANGED <<closed, results, main, hooks, cancelled, signalled, delayed,
                 fatal>>

(* A loop sees the cancelled run context, a server its shutdown.           *)
ReturnStopped(c) ==
  /\ phase[c] = "serving"
  /\ IF c \in Loop THEN cancelled \/ signalled ELSE c \in closed
  /\ phase' = [phase EXCEPT ![c] = "returning"]
  /\ UNCHANGED <<closed, results, main, hooks, cancelled, signalled, delayed,
                 fatal, failures>>

(* Mutant of Buffer: results has room for one.                             *)
BufferOne == 1

(* results is made with room for every component.                          *)
Buffer == Len(Order)

(* The goroutine sends its result and is done.                             *)
Send(c) ==
  /\ phase[c] = "returning" /\ Len(results) < Buffer
  /\ phase' = [phase EXCEPT ![c] = "done"]
  /\ results' = Append(results, c)
  /\ UNCHANGED <<closed, main, hooks, cancelled, signalled, delayed, fatal,
                 failures>>

(***************************************************************************)
(* runComponents                                                           *)
(***************************************************************************)
Signal ==
  /\ ~signalled /\ main = "wait"
  /\ signalled' = TRUE
  /\ UNCHANGED <<phase, closed, results, main, hooks, cancelled, delayed,
                 fatal, failures>>

(* The select takes ctx.Done.                                              *)
TakeSignal ==
  /\ main = "wait" /\ signalled
  /\ main' = "delay" /\ cancelled' = TRUE
  /\ UNCHANGED <<phase, closed, results, hooks, signalled, delayed, fatal,
                 failures>>

(* A result is fatal unless the caller has cancelled too: the select picks *)
(* either case when both are ready.                                        *)
Blamed == IF signalled THEN None ELSE Head(results)

(* Mutant of TakeResult: the select goes on after a fatal result.          *)
TakeResultWaits ==
  /\ main = "wait" /\ results # << >>
  /\ results' = Tail(results)
  /\ fatal' = Blamed
  /\ main' = IF Blamed = None THEN "delay" ELSE "wait"
  /\ cancelled' = TRUE
  /\ UNCHANGED <<phase, closed, hooks, signalled, delayed, failures>>

TakeResult ==
  /\ main = "wait" /\ results # << >>
  /\ results' = Tail(results)
  /\ fatal' = Blamed
  /\ main' = IF Blamed = None THEN "delay" ELSE "stop"
  /\ cancelled' = TRUE
  /\ UNCHANGED <<phase, closed, hooks, signalled, delayed, failures>>

(* The six seconds of gracefulDelay: long enough for every goroutine that  *)
(* can run to have been scheduled.                                         *)
Delay ==
  /\ main = "delay" /\ Scheduled
  /\ main' = "stop" /\ delayed' = TRUE
  /\ UNCHANGED <<phase, closed, results, hooks, cancelled, signalled, fatal,
                 failures>>

(* What a server library remembers of a shutdown it is asked for.          *)
Remembers(c) ==
  \/ c \in Http \cup Grpc
  \/ c \in Dns /\ phase[c] # "new"

(* One stop hook; its error is ignored. The hooks share a five second      *)
(* context, and each of them closes its listener before it waits.          *)
StopHook ==
  /\ main = "stop" /\ hooks < Len(Order)
  /\ hooks' = hooks + 1
  /\ closed' = closed \cup {c \in {Order[hooks + 1]} : Remembers(c)}
  /\ main' = IF hooks + 1 = Len(Order) THEN "join" ELSE "stop"
  /\ UNCHANGED <<phase, results, cancelled, signalled, delayed, fatal, failures>>

(* group.Wait returns, and runComponents with it.                          *)
Join ==
  /\ main = "join" /\ \A c \in Component : phase[c] = "done"
  /\ main' = "exited"
  /\ UNCHANGED <<phase, closed, results, hooks, cancelled, signalled, delayed,
                 fatal, failures>>

Main == TakeSignal \/ TakeResult \/ Delay \/ StopHook \/ Join

Goroutine(c) == Start(c) \/ ReturnStopped(c) \/ Send(c)

Next ==
  \/ Signal \/ Main
  \/ \E c \in Component : Goroutine(c) \/ ReturnEarly(c)

(* The Go scheduler runs every goroutine that can run; nobody owes the     *)
(* daemon a signal or a failure.                                           *)
Fairness == WF_vars(Main) /\ \A c \in Component : WF_vars(Goroutine(c))

Spec == Init /\ [][Next]_vars /\ Fairness

(***************************************************************************)
(* Properties                                                              *)
(***************************************************************************)
(* A SIGTERM that finds every component running ends the daemon without an *)
(* error and after the drain delay, whichever way the select resolves when *)
(* the cancelled components return before main has looked.                 *)
SignalIsClean ==
  main \in {"stop", "join", "exited"} /\ failures = << >>
    => fatal = None /\ delayed

(* Only a component that returned of itself is blamed, never a sibling     *)
(* that the shutdown has stopped.                                          *)
FatalIsCause == fatal # None => fatal \in Range(failures)

(* Once a component has returned or SIGTERM has arrived, the daemon exits: *)
(* no goroutine is left waiting for its listener or for the channel, if    *)
(* none returns before all have been scheduled (~EarlyFailures).  Without  *)
(* that a DNS server whose hook came too early serves on, and the daemon   *)
(* waits for it (daemon.go:305).                                           *)
Exits == (signalled \/ failures # << >>) ~> main = "exited"
=============================================================================
