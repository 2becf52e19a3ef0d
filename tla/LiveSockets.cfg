SPECIFICATION FairSpec
CONSTANTS
    c1 = c1  c2 = c2  f1 = f1  t1 = t1  t2 = t2  p1 = p1  p2 = p2
    Connections = {c1}
    Scopes = {f1, t1, t2}
    Projects = {p1, p2}
    ProjectOf <- MCProjectOf
    Membership <- OwnProjects
    MaxEarly = 2
    MaxErrors = 2
    Burst = 3
    MaxFrames = 4
INVARIANTS IndexesAgree ToldIsSubscribed UnsubscribeHonoured
PROPERTY FramesHandled
CHECK_DEADLOCK FALSE
