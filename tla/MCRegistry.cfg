\* One agent and two neighbours in the scopes of MCCoordinator; of the streams, the leader
\* and a follower, one change of the contract, two faults.
SPECIFICATION MCSpec
ACTION_CONSTRAINT Scoped
CONSTANTS
  Node = {"n1", "n2", "n3"}
  NodeGroup = {"g1", "g2"}
  Identity = {"x", "y"}
  Shape = {"p1"}
  Config = {"empty", "a", "y"}
  EmptyConfig = "empty"
  Session = {"s2", "s3", "t3"}
  None = None
  groupOf <- MCGroupOf
  contractOf <- MCContractOf
  sessionNode <- MCSessionNode
  Agent = {"n1"}
  MaxRev = 2
  MaxSeq = 2
  MaxAttempts = 2
  MaxElections = 2
  MaxChanges = 1
  MaxFaults = 1
  Peer = {m1, m2}
  Leader = m1
  Digest = {a, b}
  Stream = {1, 2, 3}
  Lease = 1
  MaxDeploys = 1
  MaxBreaks = 2
INVARIANTS
  BackendsReported
  StaleStaysCleared
  PublishedIsRegistry
  RegistryCoherent
PROPERTIES
  RegistryConverges
CHECK_DEADLOCK FALSE
