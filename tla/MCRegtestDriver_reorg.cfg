SPECIFICATION DriverSpec
CONSTANTS
  Profiles <- MCProfiles
  HashInt <- MCHashInt
  Tx <- MCTx
  Coin <- MCCoin
  Funding <- MCFunding
  History <- MCHistory
  BlockWorks = {1}
  MaxBlocks = 7
  Floor = 1
  Network = "regtest"
  Bundles = {}
  RpcCanFail = TRUE
  DemoProfile = "demo"
  Nonces = {0}
  FundingBlocks = 1
  MaxOthers = 1
INVARIANTS
  BundleIsHonest
  SuccessIsAnAtom
CHECK_DEADLOCK FALSE
