SPECIFICATION FairSpec
CONSTANTS
  Node = {"n1"}
  NodeGroup = {"g1"}
  Identity = {"x"}
  Shape = {"p1"}
  Config = {"empty"}
  EmptyConfig = "empty"
  Session = {}
  None = None
  groupOf <- MCGroupOf
  contractOf <- MCContractOf
  sessionNode <- MCSessionNode
  Agent = {"n1"}
  MaxRev = 2
  MaxSeq = 0
  MaxAttempts = 2
  MaxElections = 1
  MaxChanges = 0
  MaxFaults = 1
PROPERTIES
  LeaderPersists
