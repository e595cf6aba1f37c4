SPECIFICATION FairSpec
CONSTANTS
  Principal = {1, 2, 3}
  Draft <- MCDraft
  Creator = 1
  ThreadDraft <- MCThread
  Posts <- MCPosts
  Decisions = {}
  RequestDraft <- Ask
  Requests <- MCAsk
  Approvers = {1}
  Link <- MCLink
  Host <- MCHost
  MaxEntries <- MCFewer
  MaxLost = 1
PROPERTY Relayed
CHECK_DEADLOCK FALSE
