\* One tab that comes to the front again and again; another member may settle the entry first.
SPECIFICATION FairSpec
CONSTANTS
  a = a
  b = b
  x = x
  y = y
  t1 = t1
  t2 = t2
  NoAccount = NoAccount
  NoTab = NoTab
  Tab = {t1}
  Account = {a}
  Write = {1, 2, 3}
  Kind <- SetDoneSet
  Target <- SameXYX
  Events = {"visit", "partner"}
  MaxEpoch = 0
  MaxEvents = 1
PROPERTY QueueOrder LaneOrder
PROPERTY EveryWriteIsTried
CHECK_DEADLOCK FALSE
