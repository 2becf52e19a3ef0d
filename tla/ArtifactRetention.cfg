SPECIFICATION Spec
CONSTANTS
  a = a
  b = b
  Jobs = {a}
  Types = {"webm", "mp4"}
  Sent <- EveryKey
  Uploads = {u1, u2}
  Sweepers = {s1}
  Backfillers = {b1}
  StartedAt <- DayApart
  Configs <- AnySettings
  Limit = 1
  Faults = {"put", "insert", "update", "delete", "kill"}
  MaxTime = 2
  MaxFaults = 2
  MaxDeploys = 1
INVARIANTS LiveHasBytes GoneOnlyWhenExpired ObjectsReferenced
CHECK_DEADLOCK FALSE
