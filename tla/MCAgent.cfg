\* Four components of which two may fail; two changes of authority, bundle or age, a failed
\* operation and an end of the agent; and two Pods of the node's group with four events and
\* one failed operation or restart.
CONSTANTS
  health = health  coordination = coordination  udp = udp
  reconciler = reconciler
  b1 = b1
  Http = {health}
  Grpc = {coordination}
  Dns = {udp}
  Loop = {reconciler}
  Order <- MCOrder
  Nil = Nil
  MaxFailures = 2
  EarlyFailures = FALSE
  MTLS = TRUE
  Bundle = {b1, b2}
  Bad = Bad
  MaxChanges = 2
  MaxLogFaults = 1
  MaxCrashes = 1
  p1 = p1  p2 = p2
  d1 = d1  d2 = d2  d3 = d3
  s1 = s1  x = x  y = y  z = z
  None = None
  Key = {p1, p2}
  Group = {p1, p2}
  Dep = {d1, d2, d3}
  Stored = {x, y}
  serviceOf <- MCServiceOf
  secretsOf <- MCSecretsOf
  MaxEvents = 4
  MaxFaults = 1
SPECIFICATION MCSpec
INVARIANTS FatalIsCause IdentitySound HealthyConverged MountsReady
PROPERTIES DaemonExits CollectorCurrent Converges
CHECK_DEADLOCK FALSE
