SPECIFICATION LiveSpec
CONSTANTS
  Profiles <- MCProfiles
  HashInt <- MCHashInt
  Tx <- MCTx
  Coin <- MCCoin
  Funding <- MCFunding
  History <- MCHistory
  BlockWorks = {1}
  MaxBlocks = 7
  Floor = 1
  Network = "regtest"
  Bundles = {}
  RpcCanFail = TRUE
  DemoProfile = "demo"
  Nonces = {0, 1, 2}
  FundingBlocks = 1
  MaxOthers = 0
INVARIANTS
  ExpectationsHold
  CountedRejectionsAreRight
  PassedAtomStands
PROPERTIES
  NodeIsStopped
CHECK_DEADLOCK FALSE
