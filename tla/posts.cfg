SPECIFICATION Spec
CONSTANTS
  None = None
  u1 = u1
  u2 = u2
  q1 = q1
  q2 = q2
  Users <- TwoUsers
  Requests <- TwoRequests
  MaxPosts = 3
  Drafts <- FewDrafts
  Touched <- FirstPost
  Fans <- OneFan
INVARIANTS RowsAreLawful NoticeHasCause
PROPERTIES LiveTargets
