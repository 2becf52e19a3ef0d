---------------------------- MODULE Organizations ----------------------------
(***************************************************************************)
(* One organization: who belongs to it in which role, its invite links and *)
(* its cluster (organizations/routes.ts, organizations/repository.ts,      *)
(* organizations/cluster-repository.ts).                                   *)
(*                                                                         *)
(* A handler is a request that stands at its next query; every query is a  *)
(* step, so what a handler read may have changed by the time it writes.    *)
(***************************************************************************)
EXTENDS Integers, FiniteSets, Functions

CONSTANTS
    Users,
    Invites,        \* bound: invite links that exist at once
    Requests,       \* bound: requests under way at once
    MaxRequests,    \* bound: requests in a behaviour
    None

VARIABLES
    role,       \* role[u]: u's role, None when not a member
    invites,    \* invites[i]: the role link i grants; DOMAIN is the links there are
    cluster,    \* whether a kubeconfig is stored
    status,     \* "ready" or "pending_cluster": what project creation looks at
    req,        \* req[r]: the request in slot r
    begun       \* requests begun, which numbers them

orgVars == <<role, invites, cluster, status, req, begun>>

\* The five roles differ in no guard of these handlers but for "admin".
Roles == {"admin", "developer"}

Admins == {u \in Users : role[u] = "admin"}

Request(op, at, on, with) == [op |-> op, at |-> at, on |-> on, with |-> with, n |-> begun + 1]

Idle == [op |-> "idle", at |-> "idle", on |-> None, with |-> None, n |-> 0]

\* Any membership that invitations can have built up around the admin who created
\* the organization, their links since revoked; the cluster as its status says.
OrgInit ==
    /\ role \in [Users -> Roles \cup {None}] /\ Admins # {}
    /\ invites = <<>>
    /\ status \in {"pending_cluster", "ready"} /\ cluster = (status = "ready")
    /\ req = [r \in Requests |-> Idle]
    /\ begun = 0

Begins(r, request) ==
    /\ req[r] = Idle /\ begun < MaxRequests
    /\ req' = [req EXCEPT ![r] = request]
    /\ begun' = begun + 1

At(r, op, at) == req[r].op = op /\ req[r].at = at
Goes(r, at) == req' = [req EXCEPT ![r].at = at] /\ UNCHANGED begun
Ends(r) == req' = [req EXCEPT ![r] = Idle] /\ UNCHANGED begun

-----------------------------------------------------------------------------
(* Members. *)

ChangeRole(r) ==
    /\ \E u \in Admins, target \in Users, new \in Roles :
         Begins(r, Request("changeRole", "target", target, new))
    /\ UNCHANGED <<role, invites, cluster, status>>

RemoveMember(r) ==
    /\ \E u \in Admins : \E target \in Users \ {u} :
         Begins(r, Request("removeMember", "target", target, None))
    /\ UNCHANGED <<role, invites, cluster, status>>

\* Only a change that takes the admin role away has to count the admins.
ReadTarget(r) ==
    /\ req[r].op \in {"changeRole", "removeMember"} /\ req[r].at = "target"
    /\ Goes(r, IF role[req[r].on] = "admin" /\ req[r].with # "admin" THEN "count" ELSE "write")
    /\ UNCHANGED <<role, invites, cluster, status>>

CountAdmins(r) ==
    /\ req[r].op \in {"changeRole", "removeMember"} /\ req[r].at = "count"
    /\ IF Cardinality(Admins) <= 1 THEN Ends(r) ELSE Goes(r, "write")
    /\ UNCHANGED <<role, invites, cluster, status>>

SetRoleOrAdd(r) ==
    /\ At(r, "changeRole", "write")
    /\ role' = [role EXCEPT ![req[r].on] = req[r].with]
    /\ Ends(r)
    /\ UNCHANGED <<invites, cluster, status>>

\* UPDATE: no row, nothing set.
SetRole(r) ==
    /\ At(r, "changeRole", "write")
    /\ role' = [role EXCEPT ![req[r].on] = IF @ = None THEN None ELSE req[r].with]
    /\ Ends(r)
    /\ UNCHANGED <<invites, cluster, status>>

DeleteMember(r) ==
    /\ At(r, "removeMember", "write")
    /\ role' = [role EXCEPT ![req[r].on] = None]
    /\ Ends(r)
    /\ UNCHANGED <<invites, cluster, status>>

-----------------------------------------------------------------------------
(* Invites.  A link admits whoever opens it, any number of times. *)

CreateInvite(r) ==
    /\ \E u \in Admins, granted \in Roles :
         Begins(r, Request("createInvite", "write", None, granted))
    /\ UNCHANGED <<role, invites, cluster, status>>

InsertInvite(r) ==
    /\ At(r, "createInvite", "write")
    /\ \E i \in Invites \ DOMAIN invites :
         invites' = [j \in DOMAIN invites \cup {i} |-> IF j = i THEN req[r].with ELSE invites[j]]
    /\ Ends(r)
    /\ UNCHANGED <<role, cluster, status>>

RevokeInvite(r) ==
    /\ \E u \in Admins, i \in Invites : Begins(r, Request("revokeInvite", "write", i, None))
    /\ UNCHANGED <<role, invites, cluster, status>>

DeleteInvite(r) ==
    /\ At(r, "revokeInvite", "write")
    /\ invites' = Restrict(invites, DOMAIN invites \ {req[r].on})
    /\ Ends(r)
    /\ UNCHANGED <<role, cluster, status>>

AcceptInvite(r) ==
    /\ \E u \in Users, i \in DOMAIN invites :
         Begins(r, Request("accept", "existing", u, invites[i]))
    /\ UNCHANGED <<role, invites, cluster, status>>

ReadMembership(r) ==
    /\ At(r, "accept", "existing")
    /\ IF role[req[r].on] = None THEN Goes(r, "write") ELSE Ends(r)
    /\ UNCHANGED <<role, invites, cluster, status>>

\* ON CONFLICT DO NOTHING: whoever became a member meanwhile keeps that role.
AddMember(r) ==
    /\ At(r, "accept", "write")
    /\ role' = [role EXCEPT ![req[r].on] = IF @ = None THEN req[r].with ELSE @]
    /\ Ends(r)
    /\ UNCHANGED <<invites, cluster, status>>

-----------------------------------------------------------------------------
(* The cluster and the status are two statements of one handler. *)

PutCluster(r) ==
    /\ \E u \in Admins : Begins(r, Request("putCluster", "write", None, "ready"))
    /\ UNCHANGED <<role, invites, cluster, status>>

UpsertCluster(r) ==
    /\ At(r, "putCluster", "write")
    /\ cluster' = TRUE
    /\ Goes(r, "status")
    /\ UNCHANGED <<role, invites, status>>

RemoveCluster(r) ==
    /\ \E u \in Admins : Begins(r, Request("removeCluster", "write", None, "pending_cluster"))
    /\ UNCHANGED <<role, invites, cluster, status>>

DeleteCluster(r) ==
    /\ At(r, "removeCluster", "write")
    /\ cluster' = FALSE
    /\ IF cluster THEN Goes(r, "status") ELSE Ends(r)
    /\ UNCHANGED <<role, invites, status>>

SetStatus(r) ==
    /\ req[r].op \in {"putCluster", "removeCluster"} /\ req[r].at = "status"
    /\ status' = req[r].with
    /\ Ends(r)
    /\ UNCHANGED <<role, invites, cluster>>

\* A query fails, or the process goes away: what was written stays.
Abandoned(r) ==
    /\ req[r] # Idle
    /\ Ends(r)
    /\ UNCHANGED <<role, invites, cluster, status>>

-----------------------------------------------------------------------------
OrgStep(r) ==
    \/ ChangeRole(r) \/ RemoveMember(r) \/ ReadTarget(r) \/ CountAdmins(r)
    \/ SetRole(r) \/ DeleteMember(r)
    \/ CreateInvite(r) \/ InsertInvite(r) \/ RevokeInvite(r) \/ DeleteInvite(r)
    \/ AcceptInvite(r) \/ ReadMembership(r) \/ AddMember(r)
    \/ PutCluster(r) \/ UpsertCluster(r) \/ RemoveCluster(r) \/ DeleteCluster(r) \/ SetStatus(r)
    \/ Abandoned(r)

OrgSpec == OrgInit /\ [][\E r \in Requests : OrgStep(r)]_orgVars

-----------------------------------------------------------------------------
(* Properties. *)

\* Whatever requests overlap, nobody becomes a member but by accepting an invite, in
\* the role it grants; and a member's role changes only to what an admin's request
\* asked for, so that neither a late role change brings back a member who was removed
\* nor a late acceptance changes the role of one who already joined
\* (organizations/repository.ts:270-287).
MembershipChanges ==
    [][\A u \in Users : role'[u] # role[u] =>
         \E r \in Requests :
           /\ req'[r] = Idle /\ req[r].on = u /\ req[r].with = role'[u]
           /\ (req[r].op = "accept") = (role[u] = None)]_orgVars
-----------------------------------------------------------------------------
(* What the code says and does not do *)

\* What the refusals of organizations/routes.ts:238 and :286 say: "Organization must
\* keep at least one Admin".
KeepsAdmin == Admins # {}
=============================================================================
