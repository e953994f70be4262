CONSTANTS
  doc = doc  twin = twin  doc_atl = doc_atl  twin_atl = twin_atl
  doc_atl_atl = doc_atl_atl
  NoStem = NoStem  Absent = Absent  Lost = Lost
  Names <- MCNames
  Stem <- MCStem
  Lossy <- MCLossy
  Layouts <- MCLayouts
  Turns <- MCTurns
  MaxChanged = 1
SPECIFICATION Spec
INVARIANTS PairedByName NothingVanishes NeighboursCostNothing
