\* A failed rename, then the index goes back: the node reports healthy with other files.
CONSTANTS
  p1 = p1  p2 = p2
  d1 = d1  d2 = d2  d3 = d3
  s1 = s1  x = x  y = y  z = z
  None = None
  Key = {p1, p2}
  Group = {p1, p2}
  Dep = {d1, d2, d3}
  Stored = {x, y}
  serviceOf <- MCServiceOf
  secretsOf <- MCSecretsOf
  MaxEvents = 4
  MaxFaults = 1
INIT Init
NEXT Next
INVARIANT RetriesConverge
CHECK_DEADLOCK FALSE
