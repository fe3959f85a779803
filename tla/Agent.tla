------------------------------- MODULE Agent --------------------------------
(***************************************************************************)
(* The agent's process beside the reconciler: the life of its components,  *)
(* and the identity and trust it maintains for the log collector.  The two *)
(* share no variable.                                                      *)
(***************************************************************************)
CONSTANTS Nil,
          Http, Grpc, Dns, Loop, Order, MaxFailures, EarlyFailures,
          MTLS, Bundle, Bad, MaxChanges, MaxLogFaults, MaxCrashes

VARIABLES phase, closed, results, main, hooks, cancelled, signalled, delayed, fatal, failures,
          caRevision, object, signer, dirs, selected, ca, collector, mem, age,
          pc, rev, previous, fetched, changes, logFaults, crashes

Process == INSTANCE Daemon WITH None <- Nil
Logs == INSTANCE Telemetry
  WITH None <- Nil, MaxFaults <- MaxLogFaults, revision <- caRevision, faults <- logFaults

ASSUME ProcessAssumption == Process!ComponentAssumption
ASSUME LogsAssumption == Logs!TelemetryAssumption

\* Only a component that returned of itself is blamed for the end of the daemon (daemon.go).
FatalIsCause == Process!FatalIsCause

\* The selected identity is whole and its signer is known (telemetry.go).
IdentitySound == Logs!IdentitySound
=============================================================================
