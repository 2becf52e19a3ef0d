------------------------------- MODULE MCParts -------------------------------
(***************************************************************************)
(* Small instances of SignIn, GitHubAccess, ActionItems, Extensions and    *)
(* Usage.  They share no state, but that the picker of SignIn is the       *)
(* Picker of GitHubAccess once its token is accepted, which GitHubAccess   *)
(* lets happen at any time.  They are explored side by side: a behaviour   *)
(* is one of `part`, and the variables of the others are None.             *)
(***************************************************************************)
EXTENDS TLC

CONSTANTS
    Requests, None,
    People, Names, Wanted, Spare, SessionIds, MaxTokens,
    Repositories, Projects, RepositoriesOf, MaxChanges,
    Grills, Batches, MaxGrills, MaxItems, MaxTests,
    Slugs, Paths, EntryPaths, Contents, Submissions, ExtensionIds,
    MaxFiles, MaxPerOrganization, EncodedSize, MaxEncodedBytes, MaxUploads, MaxFaults,
    Jobs, Apps, Organizations, ProjectOf, OrganizationOf, KindOf, ModelOf, Providers,
    Amounts, Caps, DaysPerMonth, RecentLimit, Windows, MaxDay, MaxPosts,
    ann, bob, n, n1, n2, a, b, project, x, y, v1, v2, j1, j2, p1, p2, o1, o2, m

VARIABLES
    part,
    states, issued, live, users, token, sessions, req, orphaned,
    remote, hooks, local, rows, warned, access, syncs, deleters, changes,
    feature, items, merged, secret, tests, design, session, handlers, submitted,
    bucket, ext, files, objects, used, loads, torn, uploads, faults,
    day, usage, caps, asks, heard, posts

S == INSTANCE SignIn WITH Ids <- SessionIds
G == INSTANCE GitHubAccess WITH req <- syncs
A == INSTANCE ActionItems WITH Sessions <- Grills, req <- handlers
E == INSTANCE Extensions WITH Ids <- ExtensionIds, req <- loads
U == INSTANCE Usage WITH Projects <- Apps, req <- asks

ASSUME ConstantsAssumption ==
    /\ S!NamesAssumption /\ G!GitHubAssumption /\ A!ItemsAssumption
    /\ E!ExtensionsAssumption /\ U!UsageAssumption

\* Both users are called the same on GitHub.
MCWanted == [who \in People |-> n]
MCSpare == ann :> n1 @@ bob :> n2
MCRepositoriesOf == project :> {a}
MCBatches == {<<"subtask_feature", "design_grill">>, <<"design_grill">>, <<"secret_request">>,
              <<"test_request">>}

\* A revision of two files, one of one, and one that names a path twice.
File(path, content) == [path |-> path, content |-> content]
MCSubmissions ==
    {[files |-> <<File(x, v1), File(y, v1)>>, entry |-> x],
     [files |-> <<File(x, v2)>>, entry |-> x],
     [files |-> <<File(x, v1), File(x, v2)>>, entry |-> x]}

\* A content that is escaped takes twice the room: two revisions of two files do
\* not fit into one payload, other pairs do.
MCEncodedSize == v1 :> 2 @@ v2 :> 1

\* The other organization's reports show nothing; one project is never capped.
MCProjectOf == j1 :> p1 @@ j2 :> p2
MCOrganizationOf == p1 :> o1 @@ p2 :> o1
MCKindOf == j1 :> "agent" @@ j2 :> "script"
MCModelOf == j1 :> m @@ j2 :> None
MCCaps == p1 :> {2} @@ p2 :> {}

\* The users are interchangeable with the names that are spare for them.  Grills
\* and slugs have the same names here, and are permuted together.
Interchangeable ==
    Permutations(Requests) \cup Permutations(Grills) \cup {ann :> bob @@ bob :> ann @@ n1 :> n2 @@ n2 :> n1}

signInVars == <<states, issued, live, users, token, sessions, req, orphaned>>
accessVars == <<remote, hooks, local, rows, warned, access, syncs, deleters, changes>>
itemVars == <<feature, items, merged, secret, tests, design, session, handlers, submitted>>
extensionVars == <<bucket, ext, files, objects, used, loads, torn, uploads, faults>>
usageVars == <<day, usage, caps, asks, heard, posts>>

NoSignIn ==
    /\ states = None /\ issued = None /\ live = None /\ users = None /\ token = None
    /\ sessions = None /\ req = None /\ orphaned = None

NoAccess ==
    /\ remote = None /\ hooks = None /\ local = None /\ rows = None /\ warned = None
    /\ access = None /\ syncs = None /\ deleters = None /\ changes = None

NoItems ==
    /\ feature = None /\ items = None /\ merged = None /\ secret = None /\ tests = None
    /\ design = None /\ session = None /\ handlers = None /\ submitted = None

NoExtensions ==
    /\ bucket = None /\ ext = None /\ files = None /\ objects = None /\ used = None
    /\ loads = None /\ torn = None /\ uploads = None /\ faults = None

NoFigures ==
    /\ day = None /\ usage = None /\ caps = None /\ asks = None /\ heard = None
    /\ posts = None

\* At first the installation covers what the project builds.
Init ==
    \/ /\ part = "sign in" /\ S!Init
       /\ NoAccess /\ NoItems /\ NoExtensions /\ NoFigures
    \/ /\ part = "access" /\ G!Init /\ remote.granted = {a}
       /\ NoSignIn /\ NoItems /\ NoExtensions /\ NoFigures
    \/ /\ part = "items" /\ A!Init
       /\ NoSignIn /\ NoAccess /\ NoExtensions /\ NoFigures
    \/ /\ part = "extensions" /\ E!Init
       /\ NoSignIn /\ NoAccess /\ NoItems /\ NoFigures
    \/ /\ part = "usage" /\ U!Init
       /\ NoSignIn /\ NoAccess /\ NoItems /\ NoExtensions

Next ==
    /\ UNCHANGED part
    /\ \/ /\ part = "sign in" /\ S!Next
          /\ UNCHANGED <<accessVars, itemVars, extensionVars, usageVars>>
       \/ /\ part = "access" /\ G!Next
          /\ UNCHANGED <<signInVars, itemVars, extensionVars, usageVars>>
       \/ /\ part = "items" /\ A!Next
          /\ UNCHANGED <<signInVars, accessVars, extensionVars, usageVars>>
       \/ /\ part = "extensions" /\ E!Next
          /\ UNCHANGED <<signInVars, accessVars, itemVars, usageVars>>
       \/ /\ part = "usage" /\ U!Next
          /\ UNCHANGED <<signInVars, accessVars, itemVars, extensionVars>>

Spec == Init /\ [][Next]_<<part, signInVars, accessVars, itemVars, extensionVars, usageVars>>

\* See SignIn: what is settled stays, and the token that is kept can be used.
SettledStays == [][part = "sign in" => S!SettledStep]_signInVars
TokenUsable == part = "sign in" => S!TokenUsable

\* See GitHubAccess: a sync whose answers are fresh leaves the tables agreeing with GitHub.
SyncAgrees == [][part = "access" => G!AgreeingStep]_accessVars

\* See ActionItems: no item waits for what has happened, and no design that was
\* submitted is missing from the index or lacks its session.
AwaitedResolves == part = "items" => A!AwaitedResolves
SubmittedIsFinal == part = "items" => A!SubmittedIsFinal

\* See Extensions: what a job's container is given is what was uploaded, and what
\* was uploaded undisturbed can be given.
DeliveredIntact == part = "extensions" => E!DeliveredIntact

\* See Usage: whoever is told what was consumed is told what was reported.
FiguresAgree == part = "usage" => U!FiguresAgree
=============================================================================
