SPECIFICATION AppendSpec
CONSTANTS
  Profiles <- MCProfiles
  HashInt <- MCHashInt
  Tx <- LiveTx
  Funding <- LiveFunding
  History <- MintedHistory
  BlockWorks = {1}
  MaxBlocks = 6
  Floor = 2
  Network = "regtest"
  Bundles <- ShortBundles
  RpcCanFail = TRUE
INVARIANTS
  BurialOnReportedBranch
PROPERTIES
  SpentTitleRejected
  ImplementsAssay
CHECK_DEADLOCK FALSE
