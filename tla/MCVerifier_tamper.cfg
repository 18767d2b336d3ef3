SPECIFICATION AppendSpec
CONSTANTS
  Profiles <- MCProfiles
  HashInt <- MCHashInt
  Tx <- TamperTx
  Funding <- TamperFunding
  History <- TamperHistory
  BlockWorks = {1}
  MaxBlocks = 6
  Floor = 6
  Network = "regtest"
  Bundles <- TamperBundles
  RpcCanFail = FALSE
INVARIANTS
  AcceptedIsGenuine
  CheckersAgree
PROPERTIES
  GoodAtomAccepted
CHECK_DEADLOCK FALSE
