\* Two downloads for one place and more events than the channel holds; three instances of a
\* gateway with the failures of the three budgets.
CONSTANTS
  Artifacts = {a1, a2}
  Limit = 1
  Capacity = 1
  MaxReads = 1
  Instance = {i1, i2, i3}
  Attachment = {1, 2, 3, 4, 5}
  None = None
  First = i1
  Budgets <- MCBudgets
SPECIFICATION MCSpec
INVARIANT NilMeansVerified
PROPERTIES CommandReturns HandoffsSafe Recovers
CHECK_DEADLOCK FALSE
