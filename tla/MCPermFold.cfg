SPECIFICATION Spec
CONSTANTS
  Principal <- MCPrincipal
  Draft <- MCDraft
  Candidates <- MCCandidates
  Depth = 5
INVARIANTS
  TypeOK
  DenyBeatsGrant
  LatestGrantInForce
  RequestsAwaitDecision
  WindowExact
  FoldInv
PROPERTY StewardsNeverVanish
CHECK_DEADLOCK FALSE
