SPECIFICATION SharedSpec
CONSTANTS
  Profiles <- MCProfiles
  HashInt <- MCHashInt
  Tx <- MCTx
  Coin <- MCCoin
  Funding <- MCFunding
  History <- MCHistory
  BlockWorks = {1}
  MaxBlocks = 10
  Floor = 1
  Network = "regtest"
  Bundles = {}
  RpcCanFail = FALSE
  DemoProfile = "demo"
  Nonces = {0, 1, 2}
  FundingBlocks = 1
  MaxOthers = 3
INVARIANTS
  DriverTypeOK
  BundleIsHonest
PROPERTIES
  DriverMakesAtom
CHECK_DEADLOCK FALSE
