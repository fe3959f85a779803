\* Two machines push an image index and two plain manifests, one of them part of the index,
\* under two tags.
CONSTANTS
  x1 = x1  x2 = x2
  d1 = d1  d2 = d2  d3 = d3  s1 = s1
  i1 = i1  i2 = i2  m1 = m1  m2 = m2  p1 = p1  p2 = p2  c1 = c1  c2 = c2  t1 = t1  t2 = t2
  None = None
  Key = {k1, k2}
  Dep = {d1, d2, d3}
  Writer = {w1}
  Reader = {r1}
  serviceOf <- MCServiceOf
  MaxAttempts = 1
  MaxLost = 0
  Publisher = {p1, p2}
  Cache = {c1, c2}
  Tag = {t1, t2}
  Digest = {i1, i2, m1, m2}
  cacheOf <- MCCacheOf
  nested <- MCNested
  Source = {i2, m1, m2}
  Legacy <- MCLegacy
  MaxCalls = 3
  MaxRot = 0
  Operator = {o1}
  Group = {g1, g2}
  Dependency = {x1, x2}
  Version = {1, 2, 3}
  Image = {a1, a2}
  Wanted <- MCWanted
  Retention = 2
  Kept = 2
  MaxTime = 2
  MaxRuns = 0
SPECIFICATION MCSpec
INVARIANT TagsResolve
CHECK_DEADLOCK FALSE
