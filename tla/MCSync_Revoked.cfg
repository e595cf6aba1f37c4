SPECIFICATION FairSpec
CONSTANTS
  Principal = {1, 2, 3}
  Draft <- MCDraft
  Creator = 1
  ThreadDraft <- MCThread
  Posts <- MCPosts
  Decisions <- MCRevocations
  RequestDraft <- Ask
  Requests = {}
  Approvers = {}
  Link <- MCLink
  Host <- MCHost
  MaxEntries <- MCThree
  MaxLost = 0
PROPERTY RevocationsRelayed
