SPECIFICATION Spec
CONSTANTS
  Profiles <- MCProfiles
  HashInt <- MCHashInt
  Tx <- MCTx
  Funding <- MCFunding
  History <- MCHistory
  BlockWorks = {2}
  MaxBlocks = 5
  Floor = 2
  Network = "regtest"
  Histories <- MCHistories
  ClaimOutpoints <- MCClaims
INVARIANTS
  OneAtomPerClaim
  OneTitlePerAtom
  TitleSharedOnlyByMintAndTransfer
  LedgerFollowsChain
CHECK_DEADLOCK FALSE
