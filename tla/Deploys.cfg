SPECIFICATION FairSpec
CONSTANTS
    Requests = {1, 2}
    MaxCommits = 2
    MaxJobs = 3
    MaxRepeats = 1
INVARIANT LedgerIsTrue
PROPERTIES FirstDeploy DuePushesDeployed
CHECK_DEADLOCK FALSE
