SPECIFICATION Spec
CONSTANTS
  Names = {n1, n2, n3}
  MaxId = 3
  PageLimit = 2
  Limits = {0, 1, 3}
  Callers = {c1}
  MaxLists = 1
  MaxChanges = 3
  MaxFaults = 1
INVARIANTS
  ListedOnce
PROPERTIES
  ListingEnds
