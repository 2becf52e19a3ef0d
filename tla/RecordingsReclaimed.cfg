SPECIFICATION FairSpec
CONSTANTS
  a = a
  b = b
  Jobs = {a, b}
  Types = {"webm"}
  Sent <- EveryKey
  Uploads = {u1}
  Sweepers = {s1}
  Backfillers = {b1}
  StartedAt <- DayApart
  Configs <- EitherStore
  Limit = 1
  Faults = {"put", "insert", "update", "delete", "kill"}
  MaxTime = 2
  MaxFaults = 1
  MaxDeploys = 1
PROPERTY ExpiredReclaimed
CHECK_DEADLOCK FALSE
