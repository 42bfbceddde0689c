SPECIFICATION Spec
CONSTANTS
  Owner = {orderer, o1, o2}
  Orderer = orderer
  NodesPerOwner = 2
  None = None
  MaxFailures = 2
  Generations = 4
INVARIANTS
  WipeMakesRoom
  NodesTrustCrypto
  UpIsComplete
PROPERTY AdviceLeadsUp
