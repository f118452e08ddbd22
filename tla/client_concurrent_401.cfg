SPECIFICATION FaultlessSpec
CONSTANTS
  c1 = c1
  c2 = c2
  Bloc = Bloc
  Calls <- TwoCalls
  MaxPairs = 4
PROPERTIES RefusedMeansEnded
