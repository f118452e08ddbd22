SPECIFICATION FairSpec
CONSTANTS
  None = None
  h1 = h1
  h2 = h2
  Lists <- EachShape
  Keys <- FiveKeys
  Movable <- SecondAndLast
  Calls <- TwoCalls
  PageSize = 2
  MaxDepth = 3
INVARIANTS TypeOK PagesInOrder NothingSkipped ListIsBounded ReadIsRead
PROPERTIES NeverStuck
