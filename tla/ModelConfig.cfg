SPECIFICATION Spec
CONSTANTS
    Users = {ann, bob}
    Invites = {i}
    Requests = {r1, r2}
    MaxRequests = 3
    None = None
    Providers = {p}
    Models = {m}
    Kinds = {spec_grill}
SYMMETRY Interchangeable
INVARIANTS PicksResolve FollowsLadder
PROPERTY MembershipChanges
CHECK_DEADLOCK FALSE
