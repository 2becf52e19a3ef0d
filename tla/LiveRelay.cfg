SPECIFICATION FairSpec
CONSTANTS
    r1 = r1  r2 = r2  run = run  design = design  other = other
    Posts = {r1, r2}
    Jobs = {run, design, other}
    FeatureJobs = {run}
    TestJobs = {run}
    DesignJobs = {design}
    Sizes = {1, 2}
    MaxPayload = 2
    Ceiling = 2
    MaxConnects = 3
    MaxFaults = 2
INVARIANTS OneListener CeilingKept
PROPERTIES QuietAfterStop Relistens NotifiedIsPublished
CHECK_DEADLOCK FALSE
