CONSTANTS
  r1 = r1  r2 = r2
  NoHeader = NoHeader  NoProof = NoProof  Unreadable = Unreadable
  NoTime = NoTime  NotLookedUp = NotLookedUp
  Heights = {1}
  Roots <- MCRoots
  Seconds = {1}
  Blocks <- MCBlocks
  Instants <- MCInstants
  NanosPerSecond = 2
  MaxNanos = 3
  SingleItems <- MCSingleItems
  BatchRows <- MCBatchRows
  MaxRows = 2
SPECIFICATION Spec
INVARIANTS ReasonFitsVerdict EstablishedIsTrue RenderersAgree ObjectIsAuditable SuccessIsQualified AppendingOnlyAdds HintIsTruthful
