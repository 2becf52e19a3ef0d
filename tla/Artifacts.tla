------------------------------ MODULE Artifacts ------------------------------
(***************************************************************************)
(* What the modules of stored artifacts have in common (recordings/,       *)
(* sessions/): jobs whose runs leave one, requests that store it in a row  *)
(* and in a bucket, replicas that reclaim it, and a clock.                 *)
(***************************************************************************)
CONSTANTS
    Jobs,       \* jobs whose runs leave an artifact
    Uploads,    \* requests that may be under way at once, over all replicas
    Sweepers,   \* replicas that sweep
    StartedAt,  \* StartedAt[j]: when job j started, in days
    Limit,      \* rows a sweep takes at most
    MaxTime,    \* bound on the clock
    MaxFaults   \* bound: calls that fail and processes that are killed

VARIABLES
    now,        \* the clock
    rows,       \* rows[j]: the row of j's artifact
    bucket,     \* the objects stored: a session's named by its job
    process     \* process[p]: what p does next, and with what
=============================================================================
