\* Fair schedules of two questions, two objects, throwing sends and a breaking transport.
SPECIFICATION FairSpec
CHECK_DEADLOCK FALSE
CONSTANTS
  alice = alice
  bob = bob
  o1 = o1
  o2 = o2
  Vats <- TwoVats
  Objects <- Bob2Objects
  Main = o1
  MaxCalls <- Alice2
  FlowLimit = 5
  Throwing = {"call", "pipeline"}
  Breaks = TRUE
  HighBit = 1000
  SizeMod = 16
INVARIANTS
  IdsNameTheirObject
PROPERTIES
  CallsReturn
  AbandonedIsReclaimed
