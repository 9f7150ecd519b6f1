\* Three calls of fulfill() or reject(), the promise dropped and the loop exiting at any time.
SPECIFICATION FairSpec
CHECK_DEADLOCK FALSE
CONSTANTS
  c1 = c1
  c2 = c2
  c3 = c3
  Calls = {c1, c2, c3}
  Destructor = Destructor
INVARIANTS
  DeletedLast
PROPERTIES
  NoLeak
  DropReturns
