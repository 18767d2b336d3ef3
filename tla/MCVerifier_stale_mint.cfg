SPECIFICATION Spec
CONSTANTS
  Profiles <- MCProfiles
  HashInt <- MCHashInt
  Tx <- YoungTx
  Funding <- LiveFunding
  History <- MintedHistory
  BlockWorks = {2}
  MaxBlocks = 6
  Floor = 2
  Network = "regtest"
  Bundles <- ShortBundles
  RpcCanFail = FALSE
INVARIANTS
  MintOnReportedBranch
CHECK_DEADLOCK FALSE
