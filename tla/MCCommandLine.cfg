SPECIFICATION CliSpec
CONSTANTS
  Profiles <- CliProfiles
  HashInt <- CliHashInt
  Tx <- CliTx
  Funding <- CliFunding
  History <- CliHistory
  BlockWorks = {2}
  MaxBlocks = 5
  Floor = 2
  Network = "regtest"
  Bundles <- CliBundles
  RpcCanFail = TRUE
  Statuses = {500}
  Codes <- CliCodes
  Simulated = "simnet"
  SimNonces = {0, 1, 2, 3, 4, 5, 6}
  Files <- CliFiles
  Altered <- CliAltered
  MaxCommands <- CliMaxCommands
INVARIANTS
  OutcomeIsTheNodes
  ZeroMeansGenuine
  TracebackIsNoVerdict
  ListingIsTheBundle
  SimulationStands
PROPERTIES
  EveryCommandEnds
CHECK_DEADLOCK FALSE
