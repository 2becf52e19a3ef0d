SPECIFICATION Spec
CONSTANTS
    ann = ann  bob = bob  n = n  n1 = n1  n2 = n2  a = a  b = b  project = project
    People = {ann, bob}
    Names = {n, n1, n2}
    Wanted <- MCWanted
    Spare <- MCSpare
    SessionIds = {s}
    Requests = {r1, r2}
    None = None
    MaxTokens = 3
    Repositories = {a, b}
    Projects = {project}
    RepositoriesOf <- MCRepositoriesOf
    MaxChanges = 2
    Grills = {g1, g2}
    Batches <- MCBatches
    MaxGrills = 2
    MaxItems = 2
    MaxTests = 1
    x = x  y = y  v1 = v1  v2 = v2
    Slugs = {g1, g2}
    Paths = {x, y}
    EntryPaths = {x}
    Contents = {v1, v2}
    Submissions <- MCSubmissions
    ExtensionIds = {i1, i2}
    MaxFiles = 2
    MaxPerOrganization = 2
    EncodedSize <- MCEncodedSize
    MaxEncodedBytes = 5
    MaxUploads = 2
    MaxFaults = 1
    j1 = j1  j2 = j2  p1 = p1  p2 = p2  o1 = o1  o2 = o2  m = m
    Jobs = {j1, j2}
    Apps = {p1, p2}
    Organizations = {o1, o2}
    ProjectOf <- MCProjectOf
    OrganizationOf <- MCOrganizationOf
    KindOf <- MCKindOf
    ModelOf <- MCModelOf
    Providers = {v}
    Amounts = {1, 2}
    Caps <- MCCaps
    DaysPerMonth = 1
    RecentLimit = 1
    Windows = {2}
    MaxDay = 2
    MaxPosts = 2
SYMMETRY Interchangeable
INVARIANTS TokenUsable AwaitedResolves SubmittedIsFinal DeliveredIntact FiguresAgree
PROPERTIES SettledStays SyncAgrees
CHECK_DEADLOCK FALSE
