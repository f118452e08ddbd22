SPECIFICATION ClientSpec
CONSTANTS
  c1 = c1
  c2 = c2
  Bloc = Bloc
  Calls <- OneCall
  MaxPairs = 3
  Empty = Empty
  a = a
  b = b
  h1 = h1
  h2 = h2
  Texts <- TwoTexts
  Handlers <- TwoHandlers
  MaxTyped = 4
INVARIANTS SignedInHasAccess NeverSignedIn ShownIsActive
PROPERTIES CallsEnd ServerKeepsContract SignedInCanRefresh RetriedAsSender TypedIsAnswered
