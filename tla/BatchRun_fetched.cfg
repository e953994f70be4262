CONSTANTS
  r1 = r1  r2 = r2
  NoHeader = NoHeader  NoProof = NoProof  Unreadable = Unreadable  NoExit = NoExit
  NoSuperTree = NoSuperTree
  Heights = {1}
  Roots <- MCRoots
  Seconds = {1}
  Blocks <- MCBlocks
  Instants = {2}
  NanosPerSecond = 2
  MaxNanos = 3
  Names = {1, 2}
  ItemShapes <- MCItemShapes
  Geneses = {1, 2}
SPECIFICATION Spec
INVARIANTS FetchedMeansDecided
