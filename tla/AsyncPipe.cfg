\* Reads, writes and pumps that are split, fail, are dropped, aborted and shut down.
SPECIFICATION FairSpec
CONSTANTS
  Writes <- SmallWrites
  Reads <- SmallReads
  Amounts = {1, 2, 3}
  Inputs = {0, 1, 3}
  MaxBytes = 5
  Cancels = TRUE
INVARIANTS
  InOrder
  NothingLost
  ReadsAsPromised
  WritesAsPromised
  PumpsAsPromised
  NobodyForgotten
PROPERTIES
  EndsReleased
