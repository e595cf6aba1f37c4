SPECIFICATION FairSpec
CONSTANTS
  Principal = {1, 2}
  Draft = {d}
  Creator = 1
  MaxEntries = 3
INVARIANTS
  TypeOK
  ChainsIntact
  NoForks
  HeadsDescribeLog
  ChainsSorted
  ReplicaInv
PROPERTIES
  AppendOnly
  ImplementsVersionVectors
  Converges
