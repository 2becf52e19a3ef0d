SPECIFICATION Spec
CONSTANTS
  Requests = {r1}
  Reconcilers = {t1}
  Operations = {"event", "approve", "start_build", "edit_adr"}
  Projects <- OneTestProject
  MaxAttempts <- Twice
  MaxCrashes = 0

INVARIANT QueuedAdrReviewed
CHECK_DEADLOCK FALSE
