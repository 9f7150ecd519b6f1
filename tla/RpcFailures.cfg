\* Calls in both directions, with streaming calls and results whose send() throws.
SPECIFICATION Spec
CHECK_DEADLOCK FALSE
CONSTANTS
  alice = alice
  bob = bob
  o1 = o1
  o2 = o2
  Vats <- TwoVats
  Objects <- OneEach
  Main = o1
  MaxCalls <- Alice2Bob1
  FlowLimit = 5
  Throwing = {"stream", "return"}
  Breaks = FALSE
  HighBit = 1000
  SizeMod = 16
INVARIANTS
  NoProtocolError
