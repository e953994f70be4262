CONSTANTS
  blockstream = blockstream  mempool = mempool  blockchain = blockchain
  h1 = h1  h2 = h2  h3 = h3  r1 = r1  r2 = r2
  NoHeader = NoHeader  Nothing = Nothing
  Unnamed = Unnamed  NoClock = NoClock
  TwoStep <- MCTwoStep
  SingleStep <- MCSingleStep
  Faulty = {}
  Heights = {1, 2}
  Hashes <- MCHashes
  Roots <- MCRoots
  Times = {2}
  Blocks <- MCBlocks
  Genesis = 1
  MaxFuture = 1
  WallReadings = {1, NoClock}
  TTL = 2
  Timeout = 1
  MaxTime = 4
SPECIFICATION Spec
INVARIANTS ReuseWithinTTL
