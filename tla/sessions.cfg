SPECIFICATION FairSpec
CONSTANTS
  None = None
  u1 = u1
  s1 = s1
  s2 = s2
  p1 = p1
  p2 = p2
  Users <- OneUser
  Sids <- TwoSids
  Requests <- TwoRequests
  TTL = 1
  AccessTTL = 1
  Batch = 1
  MaxTokens = 3
  MaxClock = 2
INVARIANTS TokenOpensItsSession
PROPERTIES KeepsContract CleanupSparesLive UsedOnceUnlessOverlap SuspensionTakesHold ExpiredIsRemoved
