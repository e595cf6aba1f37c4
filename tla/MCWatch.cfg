SPECIFICATION FairSpec
CONSTANTS
  Process = {"watch", "mcp"}
  Dim <- MCDim
  Stored <- MCStored
  Batch = 2
  MaxLost = 1
  Peer = {"broken", "fine"}
  ListOf <- MCList
  Broken <- MCBroken
  Watcher = {"watch"}
  Tool = {"mcp"}
  MaxWritten = 1
INVARIANTS
  TypeOK
  VectorsOfTheirEntries
  SearchAfterDrain
PROPERTIES
  PeersReached
  EverythingEmbedded
