\* The manifests of MCManifest with two commands; snapshots of up to two ports with up to
\* two backends; setups of one and of two clusters; commands interrupted anywhere; and the
\* workload authority of two nodes with one disturbance, two at its creation.
CONSTANTS
  NodeGroup = "default"
  InvalidIDs <- MCInvalidIDs
  NonStrings = {"true", "null", "2026"}
  Normal <- MCNormal
  Stored <- MCStored
  Files <- MCFiles
  Options <- MCOptions
  MaxCommands = 2
  None = None
  Key = {1, 2, 3}
  Backend = {1, 2}
  maxTableEntries = 3
  MaxPorts = 2
  MaxBackends = 2
  MaxHash = 2
  Groups = {"api", "web"}
  Range64 = 6
  Range28 = 4
  MaxForeign = 1
  Resource = {r1, r2}
  MaxStarts = 6
  MaxTorn = 1
  q1 = q1  q2 = q2
  Process = {q1, q2}
  Commands = {"connect", "setup", "teardown", "destroy", "disconnect"}
  n1 = n1  n2 = n2
  Node = {n1, n2}
  offset <- MCOffset
  Life = 18
  Retention = 6
  Lag = 3
  Skew = 1
  LeafLife = 1
  StartAt = {0, 10}
  MaxClock = 22
  MaxOutage = 8
  MaxCASRetries = 2
  MaxDisturb = 2
SPECIFICATION MCSpec
INVARIANTS
  ManifestsAgree TablesExact PlansFree InfraRemovable TrustKept
  LeavesTrusted AuthorityUsable
PROPERTIES SubnetsKept CertificatesKept
CHECK_DEADLOCK FALSE
