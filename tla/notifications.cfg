SPECIFICATION FairSpec
CONSTANTS
  None = None
  u1 = u1
  founding = founding
  trendsetter = trendsetter
  w1 = w1
  w2 = w2
  Users <- OneUser
  Titles <- BothTitles
  Revocable <- OneRevocable
  Workers <- TwoWorkers
  Grace = 1
  MaxEarns = 1
  MaxClock = 1
  BatchSize = 1
INVARIANTS SentIsPublished NoDuplicateRow NoticeHasCause
PROPERTIES PendingIsSent
