SPECIFICATION Spec
CONSTANTS
  MINDEGREE = 2
  MAXDEGREE = 4
  MaxSize = 13
  Key <- McKey
  Busy <- McBusy
  Expiring <- McExpiring
  Starts <- McStarts
INVARIANTS
  TreeHolds
  ListAgrees
PROPERTY
  ImplementsDictionary
