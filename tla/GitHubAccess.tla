---------------------------- MODULE GitHubAccess ----------------------------
(***************************************************************************)
(* What this installation believes of one GitHub App installation          *)
(* (github/): whether it is suspended, the repositories it covers, which   *)
(* projects are warned that a repository of theirs is not covered, and     *)
(* whether the user who installed it may see it.                           *)
(*                                                                         *)
(* A sync asks GitHub twice and writes three times.  It is run by the      *)
(* webhooks, by the callback of an install, by a button, and by the picker *)
(* of repositories; nothing serialises them but the row locks of the       *)
(* transaction that rewrites the list.  How the picker comes by a token    *)
(* GitHub accepts is module SignIn.                                        *)
(***************************************************************************)
EXTENDS Integers, Sequences, FiniteSets, SequencesExt

CONSTANTS
    Repositories,
    Projects,        \* projects linked to the installation
    RepositoriesOf,  \* RepositoriesOf[p]: the repositories project p builds
    Requests,        \* handlers that may be under way at once
    None,
    MaxChanges       \* bound: changes somebody makes on GitHub

\* The deliveries there are.
Hooks ==
    [event : {"created", "suspend", "unsuspend", "deleted"}]
      \cup [event : {"added", "removed"}, repo : Repositories]

GitHubAssumption ==
    /\ RepositoriesOf \in [Projects -> SUBSET Repositories]
    /\ None \notin Hooks \cup {"hook"}

VARIABLES
    remote,     \* GitHub: the installation's state and the repositories granted
    hooks,      \* deliveries on their way
    local,      \* github_installations: "absent", "active" or "suspended"
    rows,       \* github_installation_repos
    warned,     \* projects with github_access_warning
    access,     \* user_installation_access of the user
    req,        \* req[r]: what handler r has read and where it is
    deleters,   \* transactions that hold a DELETE, in the order they asked
    changes

tables == <<local, rows, warned, access>>
vars == <<remote, hooks, tables, req, deleters, changes>>

Idle == [at |-> "idle", kind |-> None, hook |-> None, suspended |-> FALSE, list |-> {},
         seen |-> {}, force |-> FALSE, fresh |-> FALSE]

Init ==
    /\ \E granted \in SUBSET Repositories : remote = [is |-> "active", granted |-> granted]
    /\ hooks = {[event |-> "created"]}
    /\ local = "absent" /\ rows = {} /\ warned = {} /\ access = FALSE
    /\ req = [r \in Requests |-> Idle]
    /\ deleters = <<>>
    /\ changes = 0

At(r, at) == req[r].at = at

Becomes(r, to) == req' = [req EXCEPT ![r] = to]
Proceeded(r, at) == IF at = "idle" THEN Idle ELSE [req[r] EXCEPT !.at = at]
Goes(r, at) == Becomes(r, Proceeded(r, at))
Ends(r) == Becomes(r, Idle)

\* What r knows of GitHub is fresh (a history variable) from when it asks until
\* something changes there, or somebody writes whose own knowledge is not.
Writes(r, to) ==
    req' = [q \in Requests |->
             IF q = r THEN to ELSE [req[q] EXCEPT !.fresh = @ /\ req[r].fresh]]
WritesAndGoes(r, at) == Writes(r, Proceeded(r, at))

-----------------------------------------------------------------------------
(* GitHub.  Deliveries overtake each other; one that is answered with an  *)
(* error, or that finds nobody listening, does not come again.            *)

Changed ==
    /\ changes < MaxChanges
    /\ changes' = changes + 1
    /\ req' = [r \in Requests |-> [req[r] EXCEPT !.fresh = FALSE]]

Delivers(hook) == hooks' = hooks \cup {hook}

Grant(repo) ==
    /\ remote.is # "deleted" /\ repo \notin remote.granted
    /\ Changed
    /\ remote' = [remote EXCEPT !.granted = @ \cup {repo}]
    /\ Delivers([event |-> "added", repo |-> repo])
    /\ UNCHANGED <<tables, deleters>>

Revoke(repo) ==
    /\ remote.is # "deleted" /\ repo \in remote.granted
    /\ Changed
    /\ remote' = [remote EXCEPT !.granted = @ \ {repo}]
    /\ Delivers([event |-> "removed", repo |-> repo])
    /\ UNCHANGED <<tables, deleters>>

Switch(from, to, event) ==
    /\ remote.is \in from
    /\ Changed
    /\ remote' = [remote EXCEPT !.is = to]
    /\ Delivers([event |-> event])
    /\ UNCHANGED <<tables, deleters>>

Suspend == Switch({"active"}, "suspended", "suspend")
Unsuspend == Switch({"suspended"}, "active", "unsuspend")
Uninstall == Switch({"active", "suspended"}, "deleted", "deleted")

-----------------------------------------------------------------------------
(* Who syncs. *)

Begin(r, kind, at) == At(r, "idle") /\ Becomes(r, [Idle EXCEPT !.kind = kind, !.at = at])

Webhook(r) ==
    /\ At(r, "idle")
    /\ \E hook \in hooks :
         /\ hooks' = hooks \ {hook}
         /\ Becomes(r, [Idle EXCEPT !.kind = "hook", !.hook = hook,
                !.at = IF hook.event \in {"suspend", "deleted"} THEN "mark" ELSE "fetch"])
    /\ UNCHANGED <<remote, tables, deleters, changes>>

SyncNow(r) ==
    /\ local # "absent"
    /\ Begin(r, "sync", "fetch")
    /\ UNCHANGED <<remote, hooks, tables, deleters, changes>>

\* GitHub redirects the user back with the state of an install that was begun
\* (InstallStateRepository.consume): at the moment it sends `created`.
InstallCallback(r) ==
    /\ Begin(r, "install", "fetch")
    /\ UNCHANGED <<remote, hooks, tables, deleters, changes>>

\* The picker reconciles when its Refresh button is pressed or an hour has
\* passed; it is told of installations that are suspended, not of removed ones.
Picker(r) ==
    /\ At(r, "idle") /\ remote.is # "deleted"
    /\ \E force \in BOOLEAN :
         Becomes(r, [Idle EXCEPT !.kind = "picker", !.at = "found", !.force = force,
                           !.fresh = TRUE, !.suspended = (remote.is = "suspended")])
    /\ UNCHANGED <<remote, hooks, tables, deleters, changes>>

-----------------------------------------------------------------------------
(* The sync. *)

FetchInstallation(r) ==
    /\ At(r, "fetch")
    /\ \/ /\ remote.is # "deleted"
          /\ Becomes(r, [req[r] EXCEPT !.at = "upsert", !.fresh = TRUE,
                            !.suspended = (remote.is = "suspended")])
       \/ Ends(r)
    /\ UNCHANGED <<remote, hooks, tables, deleters, changes>>

SuspendedOnce(r) == IF req[r].suspended \/ local = "suspended" THEN "suspended" ELSE "active"

Standing(r) == IF req[r].suspended THEN "suspended" ELSE "active"

UpsertFromGitHub(r, next) ==
    /\ local' = Standing(r)
    /\ WritesAndGoes(r, next)
    /\ UNCHANGED <<remote, hooks, access, rows, warned, deleters, changes>>

UpsertInstallation(r) == At(r, "upsert") /\ UpsertFromGitHub(r, "list")

\* No token can be minted for an installation that is suspended or gone.
FetchRepositories(r) ==
    /\ At(r, "list")
    /\ \/ /\ remote.is = "active"
          /\ Becomes(r, [req[r] EXCEPT !.at = "delete", !.list = remote.granted])
       \/ Ends(r)
    /\ UNCHANGED <<remote, hooks, tables, deleters, changes>>

\* The DELETE reaches the rows committed when it starts.
DeleteRows(r) ==
    /\ At(r, "delete")
    /\ Becomes(r, [req[r] EXCEPT !.at = "commit", !.seen = rows])
    /\ deleters' = Append(deleters, r)
    /\ UNCHANGED <<remote, hooks, tables, changes>>

\* It waits for a transaction that is deleting one of them already.
Waits(r) ==
    \E i, j \in 1..Len(deleters) :
        i < j /\ deleters[j] = r /\ req[deleters[i]].seen \cap req[r].seen # {}

AfterSync(r) ==
    CASE req[r].kind = "install" -> "access"
      [] req[r].kind = "hook" /\ req[r].hook.event = "removed" -> "warn"
      [] req[r].kind = "hook" /\ req[r].hook.event = "added" -> "again"
      [] OTHER -> "idle"

\* The INSERTs follow; a name that a transaction committed meanwhile is there
\* already violates the key, and the rewrite is rolled back.
SyncRepositories(r) ==
    /\ At(r, "commit") /\ ~Waits(r)
    /\ deleters' = Remove(deleters, r)
    /\ LET kept == rows \ req[r].seen
       IN \/ /\ req[r].list \cap kept = {}
             /\ rows' = kept \cup req[r].list
             /\ req' = [q \in Requests |->
                    IF q = r THEN [req[r] EXCEPT !.at = "clear", !.seen = {}]
                    ELSE [req[q] EXCEPT !.fresh = @ /\ req[r].fresh, !.seen = @ \ req[r].seen]]
          \/ /\ req[r].list \cap kept # {}
             /\ Ends(r) /\ UNCHANGED rows
    /\ UNCHANGED <<remote, hooks, access, local, warned, changes>>

Granted(p) == RepositoriesOf[p] \subseteq rows

ClearProjectAccessWarnings == warned' = {p \in warned : ~Granted(p)}

ClearWarnings(r) ==
    /\ At(r, "clear")
    /\ ClearProjectAccessWarnings
    /\ WritesAndGoes(r, AfterSync(r))
    /\ UNCHANGED <<remote, hooks, access, local, rows, deleters, changes>>

\* What the two branches of `installation_repositories` do after the sync.  The
\* first warns whatever GitHub says: the knowledge of others is no longer fresh.
Concerned(r) == {p \in Projects : req[r].hook.repo \in RepositoriesOf[p]}

WarnRemoved(r) ==
    /\ At(r, "warn")
    /\ warned' = warned \cup Concerned(r)
    /\ req' = [q \in Requests |-> IF q = r THEN Idle ELSE [req[q] EXCEPT !.fresh = FALSE]]
    /\ UNCHANGED <<remote, hooks, access, local, rows, deleters, changes>>

ClearAgain(r) ==
    /\ At(r, "again")
    /\ ClearProjectAccessWarnings
    /\ Writes(r, Idle)
    /\ UNCHANGED <<remote, hooks, access, local, rows, deleters, changes>>

-----------------------------------------------------------------------------
(* `suspend` and `deleted`. *)

MarkSuspended(r) ==
    /\ At(r, "mark")
    /\ local' = IF local = "absent" THEN local ELSE "suspended"
    /\ WritesAndGoes(r, "find")
    /\ UNCHANGED <<remote, hooks, access, rows, warned, deleters, changes>>

FindInstallation(r) ==
    /\ At(r, "find")
    /\ Goes(r, IF local = "absent" THEN "idle" ELSE "warnAll")
    /\ UNCHANGED <<remote, hooks, tables, deleters, changes>>

WarnAll(r) ==
    /\ At(r, "warnAll")
    /\ warned' = Projects
    /\ Writes(r, Idle)
    /\ UNCHANGED <<remote, hooks, access, local, rows, deleters, changes>>

-----------------------------------------------------------------------------
(* The picker: reconcileUserInstallations, once GitHub accepts its token. *)

UpsertFound(r) == At(r, "found") /\ UpsertFromGitHub(r, "access")

UpsertAccess(r) ==
    /\ At(r, "access")
    /\ access' = TRUE
    /\ Goes(r, IF req[r].kind = "install" THEN "idle" ELSE "any")
    /\ UNCHANGED <<remote, hooks, local, rows, warned, deleters, changes>>

HasAnyRepositories(r) ==
    /\ At(r, "any")
    /\ Goes(r, IF req[r].force \/ rows = {} THEN "fetch" ELSE "idle")
    /\ UNCHANGED <<remote, hooks, tables, deleters, changes>>

-----------------------------------------------------------------------------
\* A process dies in the transaction, and it is rolled back.  One that dies
\* elsewhere is one that takes no further step.
Killed(r) ==
    /\ At(r, "commit")
    /\ Ends(r)
    /\ deleters' = SelectSeq(deleters, LAMBDA q : q # r)
    /\ UNCHANGED <<remote, hooks, tables, changes>>

Step(r) ==
    \/ FetchInstallation(r) \/ UpsertInstallation(r) \/ FetchRepositories(r)
    \/ DeleteRows(r) \/ SyncRepositories(r) \/ ClearWarnings(r)
    \/ WarnRemoved(r) \/ ClearAgain(r)
    \/ MarkSuspended(r) \/ FindInstallation(r) \/ WarnAll(r)
    \/ UpsertFound(r) \/ UpsertAccess(r) \/ HasAnyRepositories(r)

Next ==
    \/ \E repo \in Repositories : Grant(repo) \/ Revoke(repo)
    \/ Suspend \/ Unsuspend \/ Uninstall
    \/ \E r \in Requests :
         \/ Webhook(r) \/ SyncNow(r) \/ InstallCallback(r) \/ Picker(r)
         \/ Step(r) \/ Killed(r)

Spec == Init /\ [][Next]_vars

-----------------------------------------------------------------------------
(* Properties *)

\* The next step of r is the last that writes one of the three.
LastWrite(r) ==
    req[r].at \in {"warn", "again"} \/ (At(r, "clear") /\ AfterSync(r) \notin {"warn", "again"})

\* However syncs overlap, one during which nothing changed on GitHub, and nobody
\* wrote whose own answers were older than the last change, leaves the tables
\* agreeing with GitHub: not suspended, the list it covers (the rewrite of another
\* sync is not undone, nor added to), and no warning of a project it covers but
\* those a removal's handler adds for its repository; and that handler leaves every
\* project of the repository warned.
AgreeingStep ==
    \A r \in Requests : LastWrite(r) /\ req'[r].at # req[r].at =>
      /\ req[r].fresh =>
           /\ local' = "active"
           /\ rows' = remote.granted
           /\ \A p \in warned' : RepositoriesOf[p] \subseteq remote.granted =>
                At(r, "warn") /\ p \in Concerned(r)
      /\ At(r, "warn") => Concerned(r) \subseteq warned'

SyncAgrees == [][AgreeingStep]_vars
=============================================================================
