SPECIFICATION FairSpec
ACTION_CONSTRAINT ChangesQuiet
CONSTANTS
  Node = {"n1", "n2"}
  NodeGroup = {"g1"}
  Identity = {"x"}
  Shape = {"p1"}
  Config = {"empty", "a"}
  EmptyConfig = "empty"
  Session = {}
  None = None
  groupOf <- MCGroupOf
  contractOf <- MCContractOf
  sessionNode <- MCSessionNode
  Agent = {"n1", "n2"}
  MaxRev = 1
  MaxSeq = 0
  MaxAttempts = 2
  MaxElections = 2
  MaxChanges = 1
  MaxFaults = 1
PROPERTIES
  ImplementsLog
  LeaderServes
