\* Requests are dropped while the target has them in its queue.
SPECIFICATION Spec
CHECK_DEADLOCK FALSE
CONSTANTS
  t1 = t1
  t2 = t2
  e1 = e1
  e2 = e2
  e3 = e3
  Threads = {t1, t2}
  Events = {e1, e2, e3}
  Requester <- BothWaysRequester
  Target <- BothWaysTarget
  Sync = {}
  Exits = {}
  BusyPoll = FALSE
INVARIANT
  DoneIsNotTouched
