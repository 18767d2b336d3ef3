SPECIFICATION Spec
CONSTANTS
  Profiles <- MCProfiles
  HashInt <- MCHashInt
  Tx <- YoungTx
  Funding <- LiveFunding
  History <- YoungHistory
  BlockWorks = {2}
  MaxBlocks = 6
  Floor = 1
  Network = "regtest"
  Bundles <- YoungBundles
  RpcCanFail = FALSE
INVARIANTS
  AcceptedIsGenuine
CHECK_DEADLOCK FALSE
