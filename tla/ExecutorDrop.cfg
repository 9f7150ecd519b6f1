\* One loop exits while requests to it are dropped.
SPECIFICATION Spec
CHECK_DEADLOCK FALSE
CONSTANTS
  t1 = t1
  t2 = t2
  e1 = e1
  e2 = e2
  e3 = e3
  Threads = {t1, t2}
  Events = {e1, e2, e3}
  Requester <- BothWaysRequester
  Target <- BothWaysTarget
  Sync = {}
  Exits = {t2}
  BusyPoll = FALSE
INVARIANT
  ReplyIsUnlinked
