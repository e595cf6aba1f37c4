SPECIFICATION Spec
CONSTANTS
  Principal <- MCPrincipal
  Draft <- MCDraft
  Candidates <- MCCandidates
  Depth = 5
INVARIANT HolderMayWrite
CHECK_DEADLOCK FALSE
