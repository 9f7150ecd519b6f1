\* Three questions of one vat, with a flow limit of one call and sends that throw.
SPECIFICATION Spec
CHECK_DEADLOCK FALSE
CONSTANTS
  alice = alice
  bob = bob
  o1 = o1
  o2 = o2
  Vats <- TwoVats
  Objects <- OneEach
  Main = o1
  MaxCalls <- Alice3
  FlowLimit = 1
  Throwing = {"call", "pipeline"}
  Breaks = FALSE
  HighBit = 1000
  SizeMod = 16
INVARIANTS
  IdsNameTheirCall
  RefcountsAgree
  IdleIffEmpty
  FlowCounted
