SPECIFICATION AppendSpec
CONSTANTS
  Profiles <- MCProfiles
  HashInt <- MCHashInt
  Tx <- LiveTx
  Funding <- LiveFunding
  History <- MintedHistory
  BlockWorks = {1}
  MaxBlocks = 6
  Floor = 2
  Network = "regtest"
  Bundles <- ShortBundles
  RpcCanFail = FALSE
INVARIANTS
  TitleUnspentAtReportedTip
CHECK_DEADLOCK FALSE
