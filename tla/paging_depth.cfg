SPECIFICATION Spec
CONSTANTS
  None = None
  h1 = h1
  h2 = h2
  Lists <- Inbox
  Keys <- FiveKeys
  Movable <- NoneMovable
  Calls <- OneCall
  PageSize = 2
  MaxDepth = 3
INVARIANTS DocumentedEnd
