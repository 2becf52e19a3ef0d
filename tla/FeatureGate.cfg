SPECIFICATION FairSpec
CONSTANTS
  Requests = {r1}
  Reconcilers = {t1}
  Operations = {"event", "approve", "start_build", "resume", "retry_build", "run_failed", "configure"}
  Projects <- GateProjects
  MaxAttempts <- Thrice
  MaxCrashes = 1
INVARIANT ReviewsWithinBuilds
PROPERTIES DispatchedRunsDecided UntestableAdvances
CHECK_DEADLOCK FALSE
ACTION_CONSTRAINT SameKind
