------------------------------ MODULE MCAgent ------------------------------
(***************************************************************************)
(* Small instances of the agent: the life of its components, the identity  *)
(* and trust it maintains for the log collector, and the reconciler of its *)
(* static Pods.  They share no variable, so each is explored while the     *)
(* others rest.                                                            *)
(***************************************************************************)
EXTENDS MCReconciler, Agent

CONSTANTS health, coordination, udp, reconciler, b1

VARIABLE part

\* One server of each kind, and a loop.
MCOrder == <<health, coordination, udp, reconciler>>

processVars == <<phase, closed, results, main, hooks, cancelled, signalled, delayed, fatal, failures>>
logVars == <<caRevision, object, signer, dirs, selected, ca, collector, mem, age,
             pc, rev, previous, fetched, changes, logFaults, crashes>>

MCInit ==
  /\ part \in {"daemon", "logs", "pods"}
  /\ Process!Init /\ Logs!Init /\ Init
  /\ part # "logs" => object = b1

MCNext ==
  /\ \/ part = "daemon" /\ Process!Next /\ UNCHANGED <<logVars, vars>>
     \/ part = "logs" /\ Logs!Next /\ UNCHANGED <<processVars, vars>>
     \/ part = "pods" /\ Next /\ Scope' /\ UNCHANGED <<processVars, logVars>>
  /\ UNCHANGED part

\* The fairness of Daemon, Telemetry and Reconciler, each while it is explored.
MCSpec ==
  /\ MCInit /\ [][MCNext]_<<part, processVars, logVars, vars>>
  /\ WF_processVars(part = "daemon" /\ Process!Main)
  /\ \A c \in Process!Component : WF_processVars(part = "daemon" /\ Process!Goroutine(c))
  /\ WF_logVars(part = "logs" /\ Logs!Pass)
  /\ WF_logVars(part = "logs" /\ Logs!StartCollector)
  /\ WF_vars(part = "pods" /\ Reconcile)

\* The daemon exits once something has ended it, if that happens after all its goroutines
\* were scheduled: EarlyFailures is FALSE here (daemon.go).
DaemonExits == part = "daemon" => Process!Exits

\* The collector comes to run with the selected identity (telemetry.go).
CollectorCurrent == part = "logs" => Logs!CollectorCurrent
=============================================================================
