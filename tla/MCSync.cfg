SPECIFICATION Spec
CONSTANTS
  Principal = {1, 2, 3}
  Draft <- MCDraft
  Creator = 1
  ThreadDraft <- MCThread
  Posts <- MCPosts
  Decisions <- MCDecisions
  RequestDraft <- Ask
  Requests = {}
  Approvers = {}
  Link <- MCLink
  Host <- MCHost
  MaxEntries <- MCMax
  MaxLost = 1
INVARIANTS
  TypeOK
  BatchesFit
PROPERTIES
  OnlyContributors
  LanesConfined
  ImplementsVersionVectors
