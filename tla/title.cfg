SPECIFICATION FairSpec
CONSTANTS
  None = None
  u1 = u1
  founding = founding
  trendsetter = trendsetter
  w1 = w1
  w2 = w2
  c1 = c1
  Users <- OneUser
  Titles <- BothTitles
  Revocable <- OneRevocable
  Workers <- OneWorker
  Clients <- OneClient
  Grace = 1
  MaxEarns = 2
  MaxClock = 2
INVARIANTS RevocationIsDue
PROPERTIES KeepsContract HeldUnlessOverlap EarnedBecomesActive LapsedIsRevoked
