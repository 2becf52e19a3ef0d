SPECIFICATION Spec
CONSTANTS
  Requests = {r1, r2}
  Reconcilers = {}
  Operations = {"event", "approve", "start_build", "edit_adr", "resume", "retry_build", "retry_grill", "redo", "run_failed", "fork_failed", "cancel", "restart", "merge", "review", "kick_back", "ask_user", "reply"}
  Projects <- ManualReviewProject
  MaxAttempts <- Twice
  MaxCrashes = 0
SYMMETRY Symmetry
INVARIANTS BuildPhaseApproved AwaitingHasQuestion
PROPERTY Implements
CHECK_DEADLOCK FALSE
