SPECIFICATION FairSpec
CONSTANTS
  None = None
  u1 = u1
  u2 = u2
  q1 = q1
  q2 = q2
  Users <- TwoUsers
  Requests <- TwoRequests
  Followers <- OneUser
  Viewers <- OneViewer
  Readers <- OneRequest
  Muters <- OneUser
  Shy <- OtherUser
INVARIANTS AnswersHide
PROPERTIES BlockEndsFollow RequestsEnd
