\* An asynchronous request each way and a synchronous one; loops poll and exit.
SPECIFICATION FairSpec
CHECK_DEADLOCK FALSE
CONSTANTS
  t1 = t1
  t2 = t2
  e1 = e1
  e2 = e2
  e3 = e3
  Threads = {t1, t2}
  Events = {e1, e2, e3}
  Requester <- BothWaysRequester
  Target <- BothWaysTarget
  Sync = {e2}
  Exits = {t1, t2}
  BusyPoll = TRUE
INVARIANTS
  ListsAgree
  NoAssertionFails
  DoneIsReleased
PROPERTIES
  BlockedReturns
  QueuedIsAnswered
