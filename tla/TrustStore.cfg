CONSTANTS
  c1 = c1  c2 = c2  Absent = Absent
  Names = {1, 2}
  Certs = {c1, c2}
  Objects <- MCObjects
  MaxSpoiled = 1
SPECIFICATION Spec
INVARIANTS WholeOrNothing JunkIsRefused
PROPERTIES RolesStayApart
