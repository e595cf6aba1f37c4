SPECIFICATION Spec
CONSTANTS
  Principal = {1, 2}
  Draft = {"m"}
  h1 = h1
  h2 = h2
  h3 = h3
  Process = {1}
  Handler = {h1, h2}
  Runs <- MCTwoRequests
  Key = 1
  AuthorDraft = "m"
  Remote <- MCNoRemote
  Stored <- MCStored
  MaxAuthored = 3
  MayFail = FALSE
INVARIANTS
  StaysLoadable
