SPECIFICATION FairSpec
CONSTANTS
  None = None
  q1 = q1
  q2 = q2
  q3 = q3
  Requests <- ThreeRequests
  MaxAttempts = 1
  Window = 2
INVARIANTS WithinLimit TTLIsComing
PROPERTIES WindowCloses
