SPECIFICATION Spec
CONSTANTS
  Principal = {1, 2}
  Draft = {"m"}
  h1 = h1
  h2 = h2
  h3 = h3
  Process = {1, 2}
  Handler = {h1, h2, h3}
  Runs <- MCRuns
  Key = 1
  AuthorDraft = "m"
  Remote <- MCRemote
  Stored <- MCStored
  MaxAuthored = 3
  MayFail = TRUE
SYMMETRY Interchangeable
INVARIANTS
  TypeOK
  AckedIsStored
  StaleOnlyBehindOwnRow
  CacheServesOnlyStored
  GapsInHandOrLost
