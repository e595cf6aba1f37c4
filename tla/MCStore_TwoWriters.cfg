SPECIFICATION Spec
CONSTANTS
  Principal = {1, 2}
  Draft = {"m"}
  h1 = h1
  h2 = h2
  h3 = h3
  Process = {1, 2}
  Handler = {h1}
  Runs <- MCTwoWriters
  Key = 1
  AuthorDraft = "m"
  Remote <- MCOneRemote
  Stored <- MCStored
  MaxAuthored = 4
  MayFail = FALSE
INVARIANTS
  StaysLoadable
