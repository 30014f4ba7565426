SPECIFICATION Spec
CONSTANTS
  Paths = {p1, p2}
  MaxContents = 2
  MaxEdits = 2
  MaxFaults = 1
  MaxAborts = 1
INVARIANTS TypeOK 
PROPERTIES VerifiedIsPrepared VerifyIsPrepared
SYMMETRY Swapped
