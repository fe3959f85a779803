\* Two flows on two CPUs with an eviction or a switch; two uplinks and two Pod interfaces
\* with two tables and an error; two Pods with two changes and one fault.
CONSTANTS
  f1 = f1  f2 = f2  b1 = b1  u1 = u1  u2 = u2  v1 = v1  v2 = v2  p1 = p1  p2 = p2
  None = None
  CPU = {c1, c2}
  Flow = {f1, f2}
  Backend = {b1}
  hash <- MCHash
  Tables <- MCTables
  Ports = 3
  Attempts = 3
  MaxSwitch = 1
  MaxEvict = 1
  Route <- MCRoute
  Permanent <- MCPermanent
  Snapshot = {s1, s2}
  MaxCalls = 3
  MaxRoutes = 2
  MaxErrors = 1
  Pod = {p1, p2}
  Status <- MCStatus
  MaxChanges = 2
  MaxFaults = 1
SPECIFICATION MCSpec
INVARIANTS OneFlowPerTuple OnlyCurrentServes
PROPERTIES EveryFlowRecovers NoGap Settles ViewFollows
CHECK_DEADLOCK FALSE
