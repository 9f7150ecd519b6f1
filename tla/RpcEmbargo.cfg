\* Three promises, and paths through at most two of them: E-order.
SPECIFICATION Spec
CHECK_DEADLOCK FALSE
CONSTANTS
  alice = alice
  bob = bob
  Vats <- TwoVats
  NumPromises <- Bob2
  NumObjects <- Bob2
  MaxCalls <- Calls3
  MaxPath = 2
INVARIANTS
  NoProtocolError
  NothingHeldBack
PROPERTIES
  CallsInOrder
