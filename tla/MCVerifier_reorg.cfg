SPECIFICATION Spec
CONSTANTS
  Profiles <- MCProfiles
  HashInt <- MCHashInt
  Tx <- TransferTable
  Funding <- LiveFunding
  History <- TransferredHistory
  BlockWorks = {1}
  MaxBlocks = 6
  Floor = 2
  Network = "regtest"
  Bundles <- LiveBundles
  RpcCanFail = FALSE
INVARIANTS
  TypeOK
  BurialOnReportedBranch
PROPERTIES
  CallsRunOut
  GoodAtomAccepted
CHECK_DEADLOCK FALSE
