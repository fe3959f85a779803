SPECIFICATION Spec
CONSTANTS
  Node = {"n1", "n2"}
  NodeGroup = {"g1"}
  Identity = {"x"}
  Shape = {"p1"}
  Config = {"empty", "a"}
  EmptyConfig = "empty"
  Session = {"s2"}
  None = None
  groupOf <- MCGroupOf
  contractOf <- MCContractOf
  sessionNode <- MCSessionNode
  Agent = {"n1"}
  MaxRev = 2
  MaxSeq = 1
  MaxAttempts = 2
  MaxElections = 1
  MaxChanges = 1
  MaxFaults = 0
PROPERTIES
  ReadinessAlone
