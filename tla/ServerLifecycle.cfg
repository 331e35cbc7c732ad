SPECIFICATION FairSpec
CONSTANTS
  Requests = {1, 2}
  Grace = 2
INVARIANTS
  ExitsAsItEnded
PROPERTIES
  GraceIsGranted
  EndsWhenTold
