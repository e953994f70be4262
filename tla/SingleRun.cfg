CONSTANTS
  r1 = r1  r2 = r2
  NoHeader = NoHeader  NoProof = NoProof  Unreadable = Unreadable  NoExit = NoExit
  Heights = {1, 2}
  Roots <- MCRoots
  Seconds = {1, 3}
  Blocks <- MCBlocks
  Instants <- MCInstants
  NanosPerSecond = 2
  MaxNanos = 3
  MaxAnchors = 2
  AnchorShapes <- MCAnchorShapes
  ReceiptShapes <- MCReceiptShapes
SPECIFICATION FairSpec
INVARIANTS TypeOK AcceptanceIsEarned RefutationDecides AccusationIsEarned AppendedAnchorIsInert TrafficIsNeeded ModeIsExercised ReportAgrees PublishedTimeFits
PROPERTIES OnlineOnlyAdds SingleKeepsContract
