-------------------------- MODULE ModelConfig_proofs --------------------------
(***************************************************************************)
(* What ModelConfig guarantees for any number of members, requests,        *)
(* providers, models and job kinds.                                        *)
(***************************************************************************)
EXTENDS ModelConfig, TLAPS

Sources == {"feature_custom", "project_custom", "feature_override", "project_override",
            "organization_default", "none"}
Settings == {"ready", "pending_cluster", "bundle", "inherit"}
Things == Users \cup Invites \cup Providers \cup Models \cup Keys \cup Tiers \cup Roles
            \cup Sources \cup Settings \cup Nat \cup {None}

Operations == {"changeRole", "removeMember", "createInvite", "revokeInvite", "accept",
               "putCluster", "removeCluster", "createProvider", "deleteProvider",
               "updateProvider", "createModel", "deleteModel", "updateModel", "setPick", "clearPick", "putTriplet",
               "putSecret", "deleteSecret", "deleteTriplet", "createProject", "resolve", "idle"}
Queries == {"idle", "target", "count", "write", "existing", "status", "provider", "model", "key",
            "list", "rows", "gate", "coverage", "insert", "triplet", "pick", "bundle", "baseUrl",
            "resolved", "unresolved"}

Requesting == [op : Operations, at : Queries, on : Things, with : Things, n : Nat]

\* What the handlers of each operation were asked to do.
Asked(op, on, with) ==
    /\ op = "changeRole" => on \in Users /\ with \in Roles
    /\ op = "removeMember" => on \in Users /\ with = None
    /\ op = "createInvite" => with \in Roles
    /\ op = "accept" => on \in Users /\ with \in Roles
    /\ op \in {"createProvider", "deleteProvider", "updateProvider"} => on \in Providers
    /\ op \in {"createModel", "deleteModel", "updateModel", "setPick"} => on \in Models
    /\ op \in {"setPick", "clearPick"} => with \in Tiers
    /\ op = "putTriplet" => on \in Keys /\ with \in Custom
    /\ op \in {"putSecret", "deleteSecret"} => on \in Keys

OrgTypes ==
    /\ role \in [Users -> Roles \cup {None}]
    /\ \A i \in DOMAIN invites : invites[i] \in Roles

ReqTypes ==
    /\ req \in [Requests -> Requesting] /\ begun \in Nat
    /\ \A r \in Requests : Asked(req[r].op, req[r].on, req[r].with)

CatalogTypes ==
    /\ providers \subseteq Providers /\ models \in [Models -> Providers \cup {None}]
    /\ picks \in [Tiers -> [Kinds -> Models \cup {None}]]
    /\ secrets \in [Custom -> [Keys -> Nat]]

LookTypes ==
    look \in [Requests -> [kind : Kinds \cup {None}, feature : BOOLEAN, quiet : BOOLEAN]]

\* A model in the catalogue has its provider, and a pick its model.
CatalogInv ==
    /\ \A m \in Models : models[m] # None => models[m] \in providers
    /\ \A tier \in Tiers, kind \in Kinds :
         picks[tier][kind] # None => models[picks[tier][kind]] # None

\* Where a resolution is, whatever was written since it began.
Placed(at, on, feature, kind) ==
    /\ kind \in Kinds
    /\ at = "triplet" => on \in Custom /\ (on = "feature" => feature)
    /\ at = "pick" => on \in Tiers /\ (on = "feature" => feature)
    /\ at = "model" => on \in Models

\* A tier before this one on the ladder has something to say.
Narrower(tier, feature, kind) ==
    CASE tier = "feature" -> FALSE
      [] tier = "project" -> feature /\ Speaks("feature", kind)
      [] tier = "organization" -> (feature /\ Speaks("feature", kind)) \/ Speaks("project", kind)

\* What a resolution knows as long as nothing is written: the tiers it has passed are
\* silent, and the source it has found is the ladder's and leads to an answer.
Knows(at, on, with, feature, kind) ==
    /\ at = "triplet" => ~Narrower(on, feature, kind)
    /\ at = "pick" => ~Narrower(on, feature, kind) /\ (on \in Custom => Set(on) = {})
    /\ at = "bundle" => Whole(on) /\ Ladder(feature, kind) = <<with, "resolved">>
    /\ at = "model" => models[on] # None /\ Ladder(feature, kind) = <<with, "resolved">>
    /\ at \in {"provider", "baseUrl"} =>
         on \in providers /\ Ladder(feature, kind) = <<with, "resolved">>
    /\ at \in {"resolved", "unresolved"} => Ladder(feature, kind) = <<with, at>>

Looking(r) ==
    req[r].op = "resolve" =>
      /\ Placed(req[r].at, req[r].on, look[r].feature, look[r].kind)
      /\ look[r].quiet =>
           Knows(req[r].at, req[r].on, req[r].with, look[r].feature, look[r].kind)

ConfigInv ==
    /\ OrgTypes /\ ReqTypes /\ CatalogTypes /\ LookTypes
    /\ CatalogInv
    /\ \A r \in Requests : Looking(r)

-----------------------------------------------------------------------------
(* Requests. *)

\* A step of request r that is not a resolution's.
Moves(r) ==
    /\ ReqTypes'
    /\ \A q \in Requests \ {r} : req'[q] = req[q]
    /\ req'[r].op # "resolve"

LEMMA RequestChanges ==
    ASSUME ReqTypes, NEW r \in Requests, NEW q \in Requesting, Asked(q.op, q.on, q.with),
           req' = [req EXCEPT ![r] = q], begun' \in Nat
    PROVE  ReqTypes' /\ req'[r] = q /\ \A p \in Requests \ {r} : req'[p] = req[p]
BY DEF ReqTypes

LEMMA RequestFields ==
    ASSUME ReqTypes, NEW r \in Requests
    PROVE  /\ req[r] \in Requesting /\ req \in [Requests -> Requesting] /\ begun \in Nat
           /\ req[r].on \in Things /\ req[r].with \in Things /\ req[r].n \in Nat
           /\ req[r].at \in Queries /\ req[r].op \in Operations
           /\ Asked(req[r].op, req[r].on, req[r].with)
BY DEF ReqTypes, Requesting

LEMMA GoesMoves ==
    ASSUME ReqTypes, NEW r \in Requests, NEW at \in Queries, Goes(r, at),
           req[r].op # "resolve"
    PROVE  Moves(r)
<1> DEFINE q == [req[r] EXCEPT !.at = at]
<1>1. /\ q \in Requesting /\ q.op = req[r].op /\ q.on = req[r].on /\ q.with = req[r].with
      /\ req' = [req EXCEPT ![r] = q] /\ begun' \in Nat
  BY RequestFields DEF Goes, Requesting
<1> HIDE DEF q
<1> QED BY <1>1, RequestChanges, RequestFields DEF Moves

LEMMA EndsMoves ==
    ASSUME ReqTypes, NEW r \in Requests, Ends(r)
    PROVE  Moves(r) /\ req'[r] = Idle
<1>1. Idle \in Requesting /\ Asked(Idle.op, Idle.on, Idle.with) /\ Idle.op = "idle"
  <2>1. /\ Idle.op = "idle" /\ Idle.at = "idle" /\ Idle.on = None /\ Idle.with = None
        /\ Idle.n = 0 /\ None \in Things
    BY DEF Idle, Things
  <2>2. Idle \in Requesting
    BY <2>1 DEF Idle, Requesting, Operations, Queries
  <2> QED BY <2>1, <2>2 DEF Asked
<1>2. req' = [req EXCEPT ![r] = Idle] /\ begun' \in Nat
  BY RequestFields DEF Ends
<1> QED BY <1>1, <1>2, RequestChanges DEF Moves

-----------------------------------------------------------------------------
(* Resolutions. *)

Catalog == <<providers, models, picks, secrets>>

\* While the catalogue stays as it is, what a resolution knows stays true.
LEMMA LooksOn ==
    ASSUME UNCHANGED Catalog, NEW r \in Requests,
           req'[r].op = "resolve" =>
             /\ Placed(req'[r].at, req'[r].on, look'[r].feature, look'[r].kind)
             /\ look'[r].quiet =>
                  Knows(req'[r].at, req'[r].on, req'[r].with, look'[r].feature, look'[r].kind)
    PROVE  Looking(r)'
BY DEF Catalog, Looking, Placed, Knows, Narrower, Ladder, Speaks, Says, Whole, Partial, Set,
       Triplets, Picks

\* The others' resolutions, after a step of request r: nothing was written, or they
\* are no longer undisturbed.
LEMMA OthersLook ==
    ASSUME ConfigInv, NEW r \in Requests, Moves(r),
           (UNCHANGED Catalog /\ UNCHANGED look) \/ Wrote
    PROVE  LookTypes' /\ \A q \in Requests : Looking(q)'
<1>1. CASE UNCHANGED Catalog /\ UNCHANGED look
  <2>1. LookTypes'
    BY <1>1 DEF ConfigInv, LookTypes
  <2>2. ASSUME NEW q \in Requests
        PROVE  Looking(q)'
    <3>1. req'[q].op = "resolve" => req'[q] = req[q] /\ look'[q] = look[q]
      BY <1>1 DEF Moves
    <3> QED BY <1>1, <3>1, LooksOn DEF ConfigInv, Looking
  <2> QED BY <2>1, <2>2
<1>2. CASE Wrote
  <2>1. look' = [q \in Requests |-> [look[q] EXCEPT !.quiet = @ /\ req[q].op # "resolve"]]
    BY <1>2 DEF Wrote
  <2>2. \A q \in Requests :
          look[q] \in [kind : Kinds \cup {None}, feature : BOOLEAN, quiet : BOOLEAN]
    BY DEF ConfigInv, LookTypes
  <2>3. \A q \in Requests :
          /\ look'[q] \in [kind : Kinds \cup {None}, feature : BOOLEAN, quiet : BOOLEAN]
          /\ look'[q].kind = look[q].kind /\ look'[q].feature = look[q].feature
          /\ look'[q].quiet = (look[q].quiet /\ req[q].op # "resolve")
    BY <2>1, <2>2
  <2>4. LookTypes'
    BY <2>1, <2>3 DEF LookTypes
  <2>5. ASSUME NEW q \in Requests
        PROVE  Looking(q)'
    <3>1. req'[q].op = "resolve" => req'[q] = req[q] /\ ~look'[q].quiet
      BY <2>3 DEF Moves
    <3> QED BY <2>3, <3>1 DEF ConfigInv, Looking, Placed
  <2> QED BY <2>4, <2>5
<1> QED BY <1>1, <1>2

\* A step of a request that is not a resolution's preserves the invariant if what it
\* writes does.
LEMMA MovesKeep ==
    ASSUME ConfigInv, NEW r \in Requests, Moves(r), OrgTypes', CatalogTypes', CatalogInv',
           (UNCHANGED Catalog /\ UNCHANGED look) \/ Wrote
    PROVE  ConfigInv'
BY OthersLook DEF Moves, ConfigInv

LEMMA CatalogKept ==
    ASSUME ConfigInv, UNCHANGED Catalog
    PROVE  CatalogTypes' /\ CatalogInv'
BY DEF Catalog, ConfigInv, CatalogTypes, CatalogInv

LEMMA OrgKept ==
    ASSUME ConfigInv, UNCHANGED <<role, invites>>
    PROVE  OrgTypes'
BY DEF ConfigInv, OrgTypes

\* The step of a request that only reads.
LEMMA Reads ==
    ASSUME ConfigInv, NEW r \in Requests, Moves(r), UNCHANGED <<role, invites>>,
           UNCHANGED Catalog, UNCHANGED look
    PROVE  ConfigInv'
BY MovesKeep, CatalogKept, OrgKept

-----------------------------------------------------------------------------
(* Requests that begin. *)

Asking == {q \in Requesting : q.op # "resolve" /\ Asked(q.op, q.on, q.with)}

LEMMA BeginsKeeps ==
    ASSUME ConfigInv, NEW r \in Requests, NEW q \in Asking,
           req' = [req EXCEPT ![r] = q], begun' = begun + 1,
           UNCHANGED Members, UNCHANGED catalogVars
    PROVE  ConfigInv'
<1>1. begun' \in Nat
  BY RequestFields DEF ConfigInv
<1>2. Moves(r)
  BY <1>1, RequestChanges DEF ConfigInv, Moves, Asking
<1> QED BY <1>2, Reads DEF Members, catalogVars, Catalog

LEMMA Asks ==
    ASSUME ConfigInv, NEW op \in Operations, op # "resolve", NEW at \in Queries,
           NEW on \in Things, NEW with \in Things, Asked(op, on, with)
    PROVE  Request(op, at, on, with) \in Asking
BY RequestFields DEF Request, Asking, Requesting, ConfigInv, ReqTypes

LEMMA AreThings ==
    /\ Users \subseteq Things /\ Invites \subseteq Things /\ Providers \subseteq Things
    /\ Models \subseteq Things /\ Keys \subseteq Things /\ Tiers \subseteq Things
    /\ Custom \subseteq Tiers /\ Roles \subseteq Things /\ Sources \subseteq Things
    /\ Settings \subseteq Things /\ Nat \subseteq Things /\ None \in Things
    /\ "MODEL_BASE_URL" \in Keys /\ "project" \in Custom /\ "feature" \in Custom
    /\ "organization" \in Tiers
    /\ {"ready", "pending_cluster", "bundle", "inherit"} \subseteq Settings
BY DEF Things, Keys, Tiers, Custom, Settings

LEMMA MayBeAsked ==
    /\ \A u \in Users, new \in Roles : Asked("changeRole", u, new) /\ Asked("accept", u, new)
    /\ \A u \in Users : Asked("removeMember", u, None)
    /\ \A new \in Roles : Asked("createInvite", None, new)
    /\ \A i \in Invites : Asked("revokeInvite", i, None)
    /\ \A x \in Things : Asked("putCluster", None, x) /\ Asked("removeCluster", None, x)
    /\ \A p \in Providers : Asked("createProvider", p, None) /\ Asked("deleteProvider", p, None)
    /\ \A p \in Providers : Asked("updateProvider", p, None)
    /\ \A m \in Models, p \in Providers : Asked("createModel", m, p)
    /\ \A m \in Models : Asked("deleteModel", m, None) /\ Asked("updateModel", m, None)
    /\ \A m \in Models, tier \in Tiers : Asked("setPick", m, tier) /\ Asked("clearPick", None, tier)
    /\ \A tier \in Tiers : Asked("clearPick", None, tier)
    /\ \A key \in Keys, tier \in Custom : Asked("putTriplet", key, tier)
    /\ \A key \in Keys, x \in Things : Asked("putSecret", key, x) /\ Asked("deleteSecret", key, x)
    /\ \A x \in Things : Asked("deleteTriplet", None, x) /\ Asked("createProject", None, x)
    /\ \A x \in Things, y \in Things : Asked("resolve", x, y)
BY DEF Asked

LEMMA OrgBegins ==
    ASSUME ConfigInv, NEW r \in Requests,
           \/ ChangeRole(r) \/ RemoveMember(r) \/ CreateInvite(r) \/ RevokeInvite(r)
           \/ AcceptInvite(r) \/ PutCluster(r) \/ RemoveCluster(r),
           UNCHANGED catalogVars
    PROVE  ConfigInv'
<1>0. UNCHANGED <<role, invites, cluster, status>> => UNCHANGED Members
  BY DEF Members
<1>1. CASE ChangeRole(r)
  BY <1>0, <1>1, BeginsKeeps, Asks, MayBeAsked, AreThings
     DEF Begins, Operations, Queries, ChangeRole
<1>2. CASE RemoveMember(r)
  BY <1>0, <1>2, BeginsKeeps, Asks, MayBeAsked, AreThings
     DEF Begins, Operations, Queries, RemoveMember
<1>3. CASE CreateInvite(r)
  BY <1>0, <1>3, BeginsKeeps, Asks, MayBeAsked, AreThings
     DEF Begins, Operations, Queries, CreateInvite
<1>4. CASE RevokeInvite(r)
  BY <1>0, <1>4, BeginsKeeps, Asks, MayBeAsked, AreThings
     DEF Begins, Operations, Queries, RevokeInvite
<1>5. CASE AcceptInvite(r)
  BY <1>0, <1>5, BeginsKeeps, Asks, MayBeAsked, AreThings
     DEF Begins, Operations, Queries, AcceptInvite, ConfigInv, OrgTypes
<1>6. CASE PutCluster(r)
  BY <1>0, <1>6, BeginsKeeps, Asks, MayBeAsked, AreThings
     DEF Begins, Operations, Queries, PutCluster
<1>7. CASE RemoveCluster(r)
  BY <1>0, <1>7, BeginsKeeps, Asks, MayBeAsked, AreThings
     DEF Begins, Operations, Queries, RemoveCluster
<1> QED BY <1>1, <1>2, <1>3, <1>4, <1>5, <1>6, <1>7

CatalogBegins(r) ==
    \/ CreateProvider(r) \/ DeleteProvider(r) \/ UpdateProvider(r)
    \/ CreateModel(r) \/ DeleteModel(r) \/ UpdateModel(r)
    \/ SetDefault(r) \/ SetProjectPick(r) \/ SetFeaturePick(r)
    \/ ClearDefault(r) \/ ClearProjectPick(r) \/ ClearFeaturePick(r)
    \/ PutTriplet(r) \/ PutSecret(r) \/ DeleteSecret(r)
    \/ DeleteTriplet(r) \/ CreateProject(r)

LEMMA CatalogBeginsKeeps ==
    ASSUME ConfigInv, NEW r \in Requests, CatalogBegins(r)
    PROVE  ConfigInv'
<1>1. CASE CreateProvider(r)
  BY <1>1, BeginsKeeps, Asks, MayBeAsked, AreThings
     DEF Begins, Operations, Queries, CreateProvider
<1>2. CASE DeleteProvider(r)
  BY <1>2, BeginsKeeps, Asks, MayBeAsked, AreThings
     DEF Begins, Operations, Queries, DeleteProvider
<1>3. CASE CreateModel(r)
  BY <1>3, BeginsKeeps, Asks, MayBeAsked, AreThings
     DEF Begins, Operations, Queries, CreateModel
<1>4. CASE DeleteModel(r)
  BY <1>4, BeginsKeeps, Asks, MayBeAsked, AreThings
     DEF Begins, Operations, Queries, DeleteModel
<1>5. CASE SetDefault(r) \/ SetProjectPick(r) \/ SetFeaturePick(r)
  <2>1. PICK tier \in Tiers : SetPick(r, tier)
    BY <1>5, AreThings DEF SetDefault, SetProjectPick, SetFeaturePick
  <2> QED BY <2>1, BeginsKeeps, Asks, MayBeAsked, AreThings DEF Begins, Operations, Queries, SetPick
<1>6. CASE ClearDefault(r) \/ ClearProjectPick(r) \/ ClearFeaturePick(r)
  <2>1. PICK tier \in Tiers : ClearPick(r, tier)
    BY <1>6, AreThings DEF ClearDefault, ClearProjectPick, ClearFeaturePick
  <2> QED BY <2>1, BeginsKeeps, Asks, MayBeAsked, AreThings DEF Begins, Operations, Queries, ClearPick
<1>7. CASE PutTriplet(r)
  BY <1>7, BeginsKeeps, Asks, MayBeAsked, AreThings
     DEF Begins, Operations, Queries, PutTriplet
<1>8. CASE PutSecret(r)
  BY <1>8, BeginsKeeps, Asks, MayBeAsked, AreThings
     DEF Begins, Operations, Queries, PutSecret
<1>9. CASE DeleteSecret(r)
  <2>1. PICK key \in Keys : Begins(r, Request("deleteSecret", "write", key, secrets["project"][key]))
    BY <1>9 DEF DeleteSecret, Set
  <2>2. secrets["project"][key] \in Things /\ key \in Things
    BY DEF ConfigInv, CatalogTypes, Custom, Things
  <2>3. UNCHANGED <<Members, catalogVars>>
    BY <1>9 DEF DeleteSecret
  <2> QED BY <2>1, <2>2, <2>3, BeginsKeeps, Asks, MayBeAsked DEF Begins, Operations, Queries
<1>10. CASE DeleteTriplet(r)
  BY <1>10, BeginsKeeps, Asks, MayBeAsked, AreThings
     DEF Begins, Operations, Queries, DeleteTriplet
<1>11. CASE CreateProject(r)
  BY <1>11, BeginsKeeps, Asks, MayBeAsked, AreThings
     DEF Begins, Operations, Queries, CreateProject
<1>12. CASE UpdateProvider(r)
  BY <1>12, BeginsKeeps, Asks, MayBeAsked, AreThings
     DEF Begins, Operations, Queries, UpdateProvider
<1>13. CASE UpdateModel(r)
  BY <1>13, BeginsKeeps, Asks, MayBeAsked, AreThings
     DEF Begins, Operations, Queries, UpdateModel
<1> QED BY <1>1, <1>2, <1>3, <1>4, <1>5, <1>6, <1>7, <1>8, <1>9, <1>10, <1>11, <1>12, <1>13
        DEF CatalogBegins

-----------------------------------------------------------------------------
(* Requests that read or write. *)

LEMMA OrgGoes ==
    ASSUME ConfigInv, NEW r \in Requests,
           \/ ReadTarget(r) \/ CountAdmins(r) \/ ReadMembership(r) \/ UpsertCluster(r)
           \/ DeleteCluster(r) \/ SetStatus(r) \/ Abandoned(r),
           UNCHANGED catalogVars
    PROVE  ConfigInv'
<1>1. UNCHANGED <<role, invites>> /\ UNCHANGED Catalog /\ UNCHANGED look
  BY DEF ReadTarget, CountAdmins, ReadMembership, UpsertCluster, DeleteCluster, SetStatus,
         Abandoned, catalogVars, Catalog
<1>2. ReqTypes
  BY DEF ConfigInv
<1>3. CASE ReadTarget(r)
  BY <1>1, <1>2, <1>3, GoesMoves, Reads DEF ReadTarget, Queries
<1>4. CASE CountAdmins(r)
  BY <1>1, <1>2, <1>4, GoesMoves, EndsMoves, Reads DEF CountAdmins, Queries
<1>5. CASE ReadMembership(r)
  BY <1>1, <1>2, <1>5, GoesMoves, EndsMoves, Reads DEF ReadMembership, At, Queries
<1>6. CASE UpsertCluster(r)
  BY <1>1, <1>2, <1>6, GoesMoves, Reads DEF UpsertCluster, At, Queries
<1>7. CASE DeleteCluster(r)
  BY <1>1, <1>2, <1>7, GoesMoves, EndsMoves, Reads DEF DeleteCluster, At, Queries
<1>8. CASE SetStatus(r) \/ Abandoned(r)
  BY <1>1, <1>2, <1>8, EndsMoves, Reads DEF SetStatus, Abandoned
<1> QED BY <1>3, <1>4, <1>5, <1>6, <1>7, <1>8

\* Roles are written as they were asked for.
LEMMA RoleWrites ==
    ASSUME ConfigInv, NEW r \in Requests, SetRole(r) \/ DeleteMember(r) \/ AddMember(r)
    PROVE  /\ role' \in [Users -> Roles \cup {None}] /\ req'[r] = Idle
           /\ \A u \in Users : role'[u] # role[u] =>
                /\ req[r].on = u /\ req[r].with = role'[u]
                /\ (req[r].op = "accept") = (role[u] = None)
<1>1. Asked(req[r].op, req[r].on, req[r].with) /\ role \in [Users -> Roles \cup {None}]
  BY RequestFields DEF ConfigInv, OrgTypes
<1>2. req'[r] = Idle
  BY EndsMoves DEF SetRole, DeleteMember, AddMember, ConfigInv
<1>3. CASE SetRole(r)
  BY <1>1, <1>2, <1>3 DEF SetRole, At, Asked
<1>4. CASE DeleteMember(r)
  BY <1>1, <1>2, <1>4 DEF DeleteMember, At, Asked
<1>5. CASE AddMember(r)
  BY <1>1, <1>2, <1>5 DEF AddMember, At, Asked
<1> QED BY <1>3, <1>4, <1>5

LEMMA OrgWrites ==
    ASSUME ConfigInv, NEW r \in Requests,
           \/ SetRole(r) \/ DeleteMember(r) \/ AddMember(r) \/ InsertInvite(r) \/ DeleteInvite(r),
           UNCHANGED catalogVars
    PROVE  ConfigInv'
<1>1. Ends(r) /\ UNCHANGED Catalog /\ UNCHANGED look
  BY DEF SetRole, DeleteMember, AddMember, InsertInvite, DeleteInvite, catalogVars, Catalog
<1>2. OrgTypes'
  <2>1. CASE SetRole(r) \/ DeleteMember(r) \/ AddMember(r)
    BY <2>1, RoleWrites DEF SetRole, DeleteMember, AddMember, ConfigInv, OrgTypes
  <2>2. CASE InsertInvite(r)
    BY <2>2, RequestFields DEF InsertInvite, At, Asked, ConfigInv, OrgTypes
  <2>3. CASE DeleteInvite(r)
    BY <2>3 DEF DeleteInvite, Restrict, ConfigInv, OrgTypes
  <2> QED BY <2>1, <2>2, <2>3
<1> QED BY <1>1, <1>2, EndsMoves, MovesKeep, CatalogKept DEF ConfigInv

-----------------------------------------------------------------------------
(* The catalogue. *)

LEMMA CatalogReads ==
    ASSUME ConfigInv, NEW r \in Requests,
           FindProvider(r) \/ FindModel(r) \/ ListRows(r) \/ ClusterGate(r) \/ Coverage(r)
    PROVE  ConfigInv'
<1>1. UNCHANGED <<role, invites>> /\ UNCHANGED Catalog /\ UNCHANGED look
  BY DEF FindProvider, FindModel, ListRows, ClusterGate, Coverage, Members, catalogVars, Catalog
<1>2. ReqTypes
  BY DEF ConfigInv
<1>3. CASE FindProvider(r)
  BY <1>1, <1>2, <1>3, GoesMoves, EndsMoves, Reads DEF FindProvider, At, Queries
<1>4. CASE FindModel(r)
  BY <1>1, <1>2, <1>4, GoesMoves, EndsMoves, Reads DEF FindModel, At, Queries
<1>5. CASE ListRows(r)
  BY <1>1, <1>2, <1>5, GoesMoves, Reads DEF ListRows, At, Queries
<1>6. CASE ClusterGate(r)
  BY <1>1, <1>2, <1>6, GoesMoves, EndsMoves, Reads DEF ClusterGate, At, Queries
<1>7. CASE Coverage(r)
  BY <1>1, <1>2, <1>7, GoesMoves, EndsMoves, Reads DEF Coverage, At, Queries
<1> QED BY <1>3, <1>4, <1>5, <1>6, <1>7

\* What every write of the catalogue has to preserve, whoever else reads or writes.
LEMMA WritesKeep ==
    ASSUME ConfigInv, NEW r \in Requests, Ends(r) \/ UNCHANGED <<req, begun>>,
           req[r].op # "resolve", UNCHANGED <<role, invites>>,
           CatalogTypes', CatalogInv', (UNCHANGED Catalog /\ UNCHANGED look) \/ Wrote
    PROVE  ConfigInv'
<1>1. Moves(r)
  BY EndsMoves DEF ConfigInv, Moves, ReqTypes
<1> QED BY <1>1, MovesKeep, OrgKept

LEMMA ProviderWrites ==
    ASSUME ConfigInv, NEW r \in Requests, InsertProvider(r) \/ RemoveProvider(r)
    PROVE  ConfigInv'
<1>1. /\ Ends(r) /\ req[r].op # "resolve" /\ UNCHANGED <<role, invites, picks, secrets>>
      /\ req[r].on \in Providers /\ CatalogTypes /\ CatalogInv
  BY RequestFields DEF InsertProvider, RemoveProvider, At, Members, Asked, ConfigInv
<1>2. CASE InsertProvider(r)
  <2>1. providers' = providers \cup {req[r].on} /\ UNCHANGED models /\ Wrote
    BY <1>2 DEF InsertProvider
  <2>2. CatalogTypes' /\ CatalogInv'
    BY <1>1, <2>1 DEF CatalogTypes, CatalogInv
  <2> QED BY <1>1, <2>1, <2>2, WritesKeep
<1>3. CASE RemoveProvider(r)
  <2> DEFINE p == req[r].on
  <2>1. CASE \E m \in Models : models[m] = p /\ Picked(m)
    <3>1. UNCHANGED Catalog /\ UNCHANGED look
      BY <1>1, <1>3, <2>1 DEF RemoveProvider, Catalog
    <3> QED BY <1>1, <3>1, WritesKeep, CatalogKept
  <2>2. CASE ~\E m \in Models : models[m] = p /\ Picked(m)
    <3>1. /\ providers' = providers \ {p} /\ Wrote
          /\ models' = [m \in Models |-> IF models[m] = p THEN None ELSE models[m]]
      BY <1>3, <2>2 DEF RemoveProvider
    <3>2. CatalogTypes'
      BY <1>1, <3>1 DEF CatalogTypes
    <3>3. CatalogInv'
      <4>1. \A m \in Models : models'[m] # None => models'[m] \in providers'
        BY <1>1, <3>1 DEF CatalogInv
      <4>2. ASSUME NEW tier \in Tiers, NEW kind \in Kinds, picks[tier][kind] # None
            PROVE  models'[picks[tier][kind]] # None
        <5>1. picks[tier][kind] \in Models
          BY <1>1, <4>2 DEF CatalogTypes
        <5>2. models[picks[tier][kind]] # p /\ models[picks[tier][kind]] # None
          BY <1>1, <2>2, <4>2, <5>1 DEF Picked, CatalogInv
        <5> QED BY <3>1, <5>1, <5>2
      <4> QED BY <1>1, <4>1, <4>2 DEF CatalogInv
    <3> QED BY <1>1, <3>1, <3>2, <3>3, WritesKeep
  <2> QED BY <2>1, <2>2
<1> QED BY <1>2, <1>3

LEMMA ModelWrites ==
    ASSUME ConfigInv, NEW r \in Requests, InsertModel(r) \/ RemoveModel(r)
    PROVE  ConfigInv'
<1>1. /\ Ends(r) /\ req[r].op # "resolve" /\ UNCHANGED <<role, invites, providers, picks, secrets>>
      /\ req[r].on \in Models /\ CatalogTypes /\ CatalogInv
  BY RequestFields DEF InsertModel, RemoveModel, At, Members, Asked, ConfigInv
<1> DEFINE m == req[r].on
<1>2. CASE UNCHANGED models /\ UNCHANGED look
  <2>1. UNCHANGED Catalog /\ UNCHANGED look
    BY <1>1, <1>2 DEF Catalog
  <2> QED BY <1>1, <2>1, WritesKeep, CatalogKept
<1>3. CASE InsertModel(r) /\ ~(UNCHANGED models /\ UNCHANGED look)
  <2>1. /\ req[r].with \in providers /\ models[m] = None /\ Wrote
        /\ models' = [models EXCEPT ![m] = req[r].with]
    BY <1>3 DEF InsertModel
  <2>2. CatalogTypes' /\ CatalogInv'
    BY <1>1, <2>1 DEF CatalogTypes, CatalogInv
  <2> QED BY <1>1, <2>1, <2>2, WritesKeep
<1>4. CASE RemoveModel(r) /\ ~(UNCHANGED models /\ UNCHANGED look)
  <2>1. ~Picked(m) /\ Wrote /\ models' = [models EXCEPT ![m] = None]
    BY <1>4 DEF RemoveModel
  <2>2. CatalogTypes'
    BY <1>1, <2>1 DEF CatalogTypes
  <2>3. CatalogInv'
    BY <1>1, <2>1 DEF CatalogTypes, CatalogInv, Picked
  <2> QED BY <1>1, <2>1, <2>2, <2>3, WritesKeep
<1> QED BY <1>2, <1>3, <1>4

\* What is edited of a provider or a model is not in the catalogue's tables here, but a
\* resolution that was under way is no longer undisturbed.
LEMMA Edits ==
    ASSUME ConfigInv, NEW r \in Requests, EditProvider(r) \/ EditModel(r)
    PROVE  ConfigInv'
<1>1. /\ Ends(r) /\ req[r].op # "resolve" /\ UNCHANGED <<role, invites>>
      /\ UNCHANGED Catalog /\ (UNCHANGED look \/ Wrote)
  BY DEF EditProvider, EditModel, At, Members, Catalog
<1> QED BY <1>1, WritesKeep, CatalogKept

LEMMA PickWrites ==
    ASSUME ConfigInv, NEW r \in Requests, UpsertPick(r) \/ DeletePick(r)
    PROVE  ConfigInv'
<1>1. /\ Ends(r) /\ req[r].op # "resolve" /\ UNCHANGED <<role, invites, providers, models, secrets>>
      /\ req[r].with \in Tiers /\ CatalogTypes /\ CatalogInv
  BY RequestFields DEF UpsertPick, DeletePick, At, Members, Asked, ConfigInv
<1>2. CASE UNCHANGED <<picks, look>>
  <2>1. UNCHANGED Catalog /\ UNCHANGED look
    BY <1>1, <1>2 DEF Catalog
  <2> QED BY <1>1, <2>1, WritesKeep, CatalogKept
<1>3. ASSUME NEW kind \in Kinds, NEW m \in Models \cup {None}, m # None => models[m] # None,
             picks' = [picks EXCEPT ![req[r].with][kind] = m], Wrote
      PROVE  ConfigInv'
  <2>1. PICK tier \in Tiers : tier = req[r].with
    BY <1>1
  <2>2. /\ picks' \in [Tiers -> [Kinds -> Models \cup {None}]]
        /\ \A t \in Tiers, k \in Kinds :
             picks'[t][k] = IF t = tier /\ k = kind THEN m ELSE picks[t][k]
    BY <1>1, <1>3, <2>1 DEF CatalogTypes
  <2>3. CatalogTypes' /\ CatalogInv'
    BY <1>1, <1>3, <2>2 DEF CatalogTypes, CatalogInv
  <2> QED BY <1>1, <1>3, <2>3, WritesKeep
<1>4. CASE UpsertPick(r)
  BY <1>2, <1>3, <1>4, RequestFields DEF UpsertPick, At, Asked, ConfigInv
<1>5. CASE DeletePick(r)
  BY <1>3, <1>5 DEF DeletePick
<1> QED BY <1>4, <1>5

\* Rows of triplets, of which the invariant says no more than their type.
LEMMA SecretsChange ==
    ASSUME ConfigInv, NEW tier \in Custom, NEW key \in Keys, NEW n \in Nat,
           secrets' = [secrets EXCEPT ![tier][key] = n], UNCHANGED <<providers, models, picks>>
    PROVE  CatalogTypes' /\ CatalogInv'
BY DEF ConfigInv, CatalogTypes, CatalogInv

LEMMA UpsertChanges ==
    ASSUME ConfigInv, NEW tier \in Custom, NEW key \in Keys, NEW n \in Nat,
           Upsert(tier, key, n), UNCHANGED <<providers, models, picks>>
    PROVE  CatalogTypes' /\ CatalogInv'
<1>1. PICK k \in Nat : k = IF secrets[tier][key] = 0 THEN n ELSE secrets[tier][key]
  BY DEF ConfigInv, CatalogTypes
<1>2. secrets' = [secrets EXCEPT ![tier][key] = k]
  BY <1>1 DEF Upsert, ConfigInv, CatalogTypes
<1> QED BY <1>2, SecretsChange

\* The three keys of a triplet are put one after the other.
LEMMA PutKeyStep ==
    ASSUME ConfigInv, NEW r \in Requests, PutKey(r)
    PROVE  ConfigInv'
<1>1. /\ req[r].op = "putTriplet" /\ Upsert(req[r].with, req[r].on, req[r].n) /\ Wrote
      /\ UNCHANGED <<role, invites, providers, models, picks>> /\ ReqTypes
  BY DEF PutKey, At, Members, ConfigInv
<1>2. req[r].with \in Custom /\ req[r].on \in Keys /\ req[r].n \in Nat
  BY <1>1, RequestFields DEF Asked
<1>3. CatalogTypes' /\ CatalogInv'
  BY <1>1, <1>2, UpsertChanges
<1>4. Moves(r)
  <2>1. CASE req[r].on \in DOMAIN After
    <3> DEFINE q == [req[r] EXCEPT !.on = After[req[r].on]]
    <3>1. req' = [req EXCEPT ![r] = q] /\ UNCHANGED begun
      BY <2>1 DEF PutKey
    <3>2. After[req[r].on] \in Keys
      BY <2>1 DEF After, Keys
    <3>3. /\ q \in Requesting /\ q.op = "putTriplet" /\ q.on \in Keys /\ q.with \in Custom
      BY <1>1, <1>2, <3>2, RequestFields, AreThings DEF Requesting
    <3> HIDE DEF q
    <3>4. Asked(q.op, q.on, q.with)
      BY <3>3 DEF Asked
    <3> QED BY <1>1, <3>1, <3>3, <3>4, RequestChanges, RequestFields DEF Moves
  <2>2. CASE req[r].on \notin DOMAIN After
    BY <1>1, <2>2, EndsMoves DEF PutKey
  <2> QED BY <2>1, <2>2
<1> QED BY <1>1, <1>3, <1>4, OrgKept, MovesKeep

LEMMA SecretWrites ==
    ASSUME ConfigInv, NEW r \in Requests, UpsertSecret(r) \/ RemoveSecret(r)
    PROVE  ConfigInv'
<1>1. /\ Ends(r) /\ req[r].op # "resolve" /\ Wrote
      /\ UNCHANGED <<role, invites, providers, models, picks>>
      /\ req[r].on \in Keys /\ req[r].n \in Nat /\ CatalogTypes /\ "project" \in Custom
  BY RequestFields, AreThings DEF UpsertSecret, RemoveSecret, At, Members, Asked, ConfigInv
<1>2. CASE UpsertSecret(r)
  BY <1>1, <1>2, UpsertChanges, WritesKeep DEF UpsertSecret
<1>3. CASE RemoveSecret(r)
  <2>1. PICK key \in Keys : key = req[r].on
    BY <1>1
  <2>2. PICK k \in Nat :
          k = IF secrets["project"][key] = req[r].with THEN 0 ELSE secrets["project"][key]
    BY <1>1 DEF CatalogTypes
  <2>3. secrets' = [secrets EXCEPT !["project"][key] = k]
    BY <1>1, <1>3, <2>1, <2>2 DEF RemoveSecret, CatalogTypes
  <2>4. CatalogTypes' /\ CatalogInv'
    BY <1>1, <2>3, SecretsChange
  <2> QED BY <1>1, <2>4, WritesKeep
<1> QED BY <1>2, <1>3

LEMMA DeleteRowStep ==
    ASSUME ConfigInv, NEW r \in Requests, DeleteRow(r)
    PROVE  ConfigInv'
<1>1. /\ req[r].op # "resolve" /\ UNCHANGED <<role, invites, providers, models, picks>>
      /\ CatalogTypes /\ "feature" \in Custom
  BY AreThings DEF DeleteRow, At, Members, ConfigInv
<1>2. CASE rows[r] = NoRows
  <2>1. Ends(r) /\ UNCHANGED Catalog /\ UNCHANGED look
    BY <1>1, <1>2 DEF DeleteRow, Catalog
  <2> QED BY <1>1, <2>1, WritesKeep, CatalogKept
<1>3. CASE rows[r] # NoRows
  <2>1. PICK key \in Keys :
          /\ secrets' = [secrets EXCEPT !["feature"][key] = IF @ = rows[r][key] THEN 0 ELSE @]
          /\ Wrote /\ UNCHANGED <<req, begun>>
    BY <1>3 DEF DeleteRow
  <2>2. PICK k \in Nat :
          k = IF secrets["feature"][key] = rows[r][key] THEN 0 ELSE secrets["feature"][key]
    BY <1>1 DEF CatalogTypes
  <2>3. secrets' = [secrets EXCEPT !["feature"][key] = k]
    BY <1>1, <2>1, <2>2 DEF CatalogTypes
  <2>4. CatalogTypes' /\ CatalogInv'
    BY <1>1, <2>3, SecretsChange
  <2> QED BY <1>1, <2>1, <2>4, WritesKeep
<1> QED BY <1>2, <1>3

LEMMA InsertProjectStep ==
    ASSUME ConfigInv, NEW r \in Requests, InsertProject(r)
    PROVE  ConfigInv'
<1>1. /\ req[r].op # "resolve" /\ UNCHANGED <<role, invites>> /\ UNCHANGED Catalog
      /\ UNCHANGED look /\ ReqTypes
  BY DEF InsertProject, At, Members, Catalog, ConfigInv
<1>2. CASE Ends(r)
  BY <1>1, <1>2, EndsMoves, Reads
<1>3. CASE ~Ends(r)
  <2> DEFINE q == [req[r] EXCEPT !.op = "putTriplet", !.at = "key", !.on = "MODEL_BASE_URL",
                                 !.with = "project"]
  <2>1. req' = [req EXCEPT ![r] = q] /\ UNCHANGED begun
    BY <1>3 DEF InsertProject
  <2>2. /\ q \in Requesting /\ q.op = "putTriplet" /\ q.on \in Keys /\ q.with \in Custom
    BY <1>1, RequestFields, AreThings DEF Requesting, Operations, Queries
  <2> HIDE DEF q
  <2>3. Asked(q.op, q.on, q.with)
    BY <2>2 DEF Asked
  <2>4. Moves(r)
    BY <1>1, <2>1, <2>2, <2>3, RequestChanges, RequestFields DEF Moves
  <2> QED BY <1>1, <2>4, Reads
<1> QED BY <1>2, <1>3

LEMMA CatalogStepKeeps ==
    ASSUME ConfigInv, NEW r \in Requests, CatalogStep(r)
    PROVE  ConfigInv'
BY CatalogBeginsKeeps, CatalogReads, ProviderWrites, ModelWrites, Edits, PickWrites, PutKeyStep,
   SecretWrites, DeleteRowStep, InsertProjectStep DEF CatalogStep, CatalogBegins

LEMMA OrgStepKeeps ==
    ASSUME ConfigInv, NEW r \in Requests, OrgStep(r), UNCHANGED catalogVars
    PROVE  ConfigInv'
BY OrgBegins, OrgGoes, OrgWrites DEF OrgStep

-----------------------------------------------------------------------------
(* The ladder. *)

\* The resolution of r goes on to another query, the others' to none.
LEMMA FromTierKeeps ==
    ASSUME ConfigInv, NEW r \in Requests, req[r].op = "resolve",
           NEW at \in Queries, NEW on \in Things, NEW with \in Things,
           FromTier(r, at, on, with), UNCHANGED <<role, invites, look>>, UNCHANGED Catalog,
           Placed(at, on, look[r].feature, look[r].kind),
           look[r].quiet => Knows(at, on, with, look[r].feature, look[r].kind)
    PROVE  ConfigInv'
<1> DEFINE q == [req[r] EXCEPT !.at = at, !.on = on, !.with = with]
<1>1. ReqTypes
  BY DEF ConfigInv
<1>2. /\ q \in Requesting /\ q.op = "resolve" /\ q.at = at /\ q.on = on /\ q.with = with
  BY <1>1, RequestFields DEF Requesting
<1>3. req' = [req EXCEPT ![r] = q] /\ UNCHANGED begun
  BY DEF FromTier
<1> HIDE DEF q
<1>4. Asked(q.op, q.on, q.with)
  BY <1>2, MayBeAsked
<1>5. ReqTypes' /\ req'[r] = q /\ \A p \in Requests \ {r} : req'[p] = req[p]
  BY <1>1, <1>2, <1>3, <1>4, RequestChanges, RequestFields
<1>6. ASSUME NEW p \in Requests
      PROVE  Looking(p)'
  <2>1. CASE p = r
    BY <1>2, <1>5, <2>1, LooksOn
  <2>2. CASE p # r
    BY <1>5, <2>2, LooksOn DEF ConfigInv, Looking
  <2> QED BY <2>1, <2>2
<1>7. LookTypes'
  BY DEF ConfigInv, LookTypes
<1> QED BY <1>5, <1>6, <1>7, CatalogKept, OrgKept DEF ConfigInv

\* What a tier says, by what is set and picked there.
LEMMA TierFacts ==
    ASSUME ConfigInv, NEW kind \in Kinds, NEW tier \in Tiers
    PROVE  /\ tier \in Custom /\ Whole(tier) =>
                Speaks(tier, kind) /\ Says(tier, kind) = <<Triplets(tier), "resolved">>
           /\ tier \in Custom /\ Partial(tier) =>
                Speaks(tier, kind) /\ Says(tier, kind) = <<"none", "unresolved">>
           /\ (tier \in Custom => Set(tier) = {}) /\ picks[tier][kind] # None =>
                Speaks(tier, kind) /\ Says(tier, kind) = <<Picks(tier), "resolved">>
           /\ (tier \in Custom => Set(tier) = {}) /\ picks[tier][kind] = None =>
                ~Speaks(tier, kind)
           /\ Triplets(tier) \in Things /\ Picks(tier) \in Things
<1>1. "MODEL_ID" \in Keys
  BY DEF Keys
<1>2. Triplets(tier) \in Things /\ Picks(tier) \in Things
  BY AreThings DEF Triplets, Picks, Tiers, Sources
<1> QED BY <1>1, <1>2 DEF Whole, Partial, Speaks, Says

\* The narrowest tier that speaks is the one the ladder names.
LEMMA LadderFacts ==
    ASSUME NEW feature \in BOOLEAN, NEW kind, NEW tier \in Tiers,
           tier = "feature" => feature, ~Narrower(tier, feature, kind)
    PROVE  /\ Speaks(tier, kind) => Ladder(feature, kind) = Says(tier, kind)
           /\ tier = "feature" /\ ~Speaks(tier, kind) => ~Narrower("project", feature, kind)
           /\ tier = "project" /\ ~Speaks(tier, kind) => ~Narrower("organization", feature, kind)
           /\ tier = "organization" /\ ~Speaks(tier, kind) =>
                Ladder(feature, kind) = <<"none", "unresolved">>
BY DEF Ladder, Narrower, Tiers

\* A resolution under way, with what its fields can be.
LEMMA Resolving ==
    ASSUME ConfigInv, NEW r \in Requests, req[r].op = "resolve"
    PROVE  /\ look[r].kind \in Kinds /\ look[r].feature \in BOOLEAN
           /\ Placed(req[r].at, req[r].on, look[r].feature, look[r].kind)
           /\ look[r].quiet =>
                Knows(req[r].at, req[r].on, req[r].with, look[r].feature, look[r].kind)
           /\ req[r].on \in Things /\ req[r].with \in Things
BY RequestFields DEF ConfigInv, Looking, LookTypes, Placed

LEMMA ResolveStarts ==
    ASSUME ConfigInv, NEW r \in Requests, Resolve(r)
    PROVE  ConfigInv'
<1>1. PICK kind \in Kinds, feature \in BOOLEAN :
        /\ Begins(r, Request("resolve", "triplet", IF feature THEN "feature" ELSE "project", None))
        /\ look' = [look EXCEPT ![r] = [kind |-> kind, feature |-> feature, quiet |-> TRUE]]
  BY DEF Resolve
<1>2. PICK tier \in Custom : tier = IF feature THEN "feature" ELSE "project"
  BY AreThings
<1>3. PICK q : q = Request("resolve", "triplet", tier, None)
  OBVIOUS
<1>4. /\ ReqTypes /\ tier \in Things /\ None \in Things /\ begun + 1 \in Nat
      /\ UNCHANGED <<role, invites>> /\ UNCHANGED Catalog
  BY AreThings, RequestFields DEF ConfigInv, Custom, ReqTypes, Resolve, Members, Catalog
<1>5. /\ q.op = "resolve" /\ q.at = "triplet" /\ q.on = tier /\ q.with = None
      /\ q \in Requesting
  BY <1>3, <1>4 DEF Request, Requesting, Operations, Queries
<1>6. req' = [req EXCEPT ![r] = q] /\ begun' = begun + 1
  BY <1>1, <1>2, <1>3 DEF Begins
<1>7. Asked(q.op, q.on, q.with)
  BY <1>4, <1>5, MayBeAsked
<1>8. ReqTypes' /\ req'[r] = q /\ \A p \in Requests \ {r} : req'[p] = req[p]
  BY <1>4, <1>5, <1>6, <1>7, RequestChanges
<1>9. LookTypes'
  BY <1>1 DEF ConfigInv, LookTypes
<1>10. look'[r].kind = kind /\ look'[r].feature = feature /\ look'[r].quiet
  BY <1>1 DEF ConfigInv, LookTypes
<1>11. \A p \in Requests \ {r} : look'[p] = look[p]
  BY <1>1 DEF ConfigInv, LookTypes
<1>12. Placed("triplet", tier, feature, kind) /\ Knows("triplet", tier, None, feature, kind)
  BY <1>2 DEF Placed, Knows, Narrower
<1>13. ASSUME NEW p \in Requests
       PROVE  Looking(p)'
  <2>1. CASE p = r
    BY <1>4, <1>5, <1>8, <1>10, <1>12, <2>1, LooksOn
  <2>2. CASE p # r
    BY <1>4, <1>8, <1>11, <2>2, LooksOn DEF ConfigInv, Looking
  <2> QED BY <2>1, <2>2
<1> QED BY <1>4, <1>8, <1>9, <1>13, CatalogKept, OrgKept DEF ConfigInv

LEMMA ReadTripletKeeps ==
    ASSUME ConfigInv, NEW r \in Requests, ReadTriplet(r)
    PROVE  ConfigInv'
<1>1. /\ req[r].op = "resolve" /\ req[r].at = "triplet"
      /\ UNCHANGED <<role, invites, look>> /\ UNCHANGED Catalog
  BY DEF ReadTriplet, At, Members, Catalog
<1>2. PICK tier : tier = req[r].on
  OBVIOUS
<1>3. PICK kind, feature : kind = look[r].kind /\ feature = look[r].feature
  OBVIOUS
<1>4. /\ tier \in Custom /\ tier \in Tiers /\ tier \in Things /\ (tier = "feature" => feature)
      /\ kind \in Kinds /\ feature \in BOOLEAN
      /\ look[r].quiet => ~Narrower(tier, feature, kind)
  BY <1>1, <1>2, <1>3, Resolving, AreThings DEF Placed, Knows
<1>5. CASE Whole(tier)
  <2>1. FromTier(r, "bundle", tier, Triplets(tier))
    BY <1>2, <1>5 DEF ReadTriplet
  <2>2. look[r].quiet => Ladder(feature, kind) = <<Triplets(tier), "resolved">>
    BY <1>4, <1>5, TierFacts, LadderFacts
  <2>3. /\ Placed("bundle", tier, feature, kind)
        /\ look[r].quiet => Knows("bundle", tier, Triplets(tier), feature, kind)
    BY <1>4, <1>5, <2>2 DEF Placed, Knows
  <2>4. "bundle" \in Queries /\ Triplets(tier) \in Things
    BY <1>4, TierFacts DEF Queries
  <2> QED BY <1>1, <1>3, <1>4, <2>1, <2>3, <2>4, FromTierKeeps
<1>6. CASE ~Whole(tier) /\ Partial(tier)
  <2>1. FromTier(r, "unresolved", None, "none")
    BY <1>2, <1>6 DEF ReadTriplet, Answers
  <2>2. look[r].quiet => Ladder(feature, kind) = <<"none", "unresolved">>
    BY <1>4, <1>6, TierFacts, LadderFacts
  <2>3. /\ Placed("unresolved", None, feature, kind)
        /\ look[r].quiet => Knows("unresolved", None, "none", feature, kind)
    BY <1>4, <2>2 DEF Placed, Knows
  <2>4. "unresolved" \in Queries /\ "none" \in Things /\ None \in Things
    BY DEF Queries, Things, Sources
  <2> QED BY <1>1, <1>3, <2>1, <2>3, <2>4, FromTierKeeps
<1>7. CASE ~Whole(tier) /\ ~Partial(tier)
  <2>1. FromTier(r, "pick", tier, None)
    BY <1>2, <1>7 DEF ReadTriplet
  <2>2. Set(tier) = {}
    BY <1>7 DEF Whole, Partial
  <2>3. /\ Placed("pick", tier, feature, kind)
        /\ look[r].quiet => Knows("pick", tier, None, feature, kind)
    BY <1>4, <2>2 DEF Placed, Knows
  <2>4. "pick" \in Queries /\ None \in Things
    BY AreThings DEF Queries
  <2> QED BY <1>1, <1>3, <1>4, <2>1, <2>3, <2>4, FromTierKeeps
<1> QED BY <1>5, <1>6, <1>7

LEMMA ReadPickKeeps ==
    ASSUME ConfigInv, NEW r \in Requests, ReadPick(r)
    PROVE  ConfigInv'
<1>1. /\ req[r].op = "resolve" /\ req[r].at = "pick"
      /\ UNCHANGED <<role, invites, look>> /\ UNCHANGED Catalog
  BY DEF ReadPick, At, Members, Catalog
<1>2. PICK tier : tier = req[r].on
  OBVIOUS
<1>3. PICK kind, feature : kind = look[r].kind /\ feature = look[r].feature
  OBVIOUS
<1>4. /\ tier \in Tiers /\ (tier = "feature" => feature)
      /\ kind \in Kinds /\ feature \in BOOLEAN
      /\ look[r].quiet => ~Narrower(tier, feature, kind) /\ (tier \in Custom => Set(tier) = {})
  BY <1>1, <1>2, <1>3, Resolving DEF Placed, Knows
<1>5. PICK m : m = picks[tier][kind]
  OBVIOUS
<1>6. m \in Models \cup {None} /\ (m # None => models[m] # None)
  BY <1>4, <1>5 DEF ConfigInv, CatalogTypes, CatalogInv
<1>7. CASE m # None
  <2>1. FromTier(r, "model", m, Picks(tier))
    BY <1>2, <1>3, <1>5, <1>7 DEF ReadPick
  <2>2. look[r].quiet => Ladder(feature, kind) = <<Picks(tier), "resolved">>
    BY <1>4, <1>5, <1>7, TierFacts, LadderFacts
  <2>3. /\ Placed("model", m, feature, kind)
        /\ look[r].quiet => Knows("model", m, Picks(tier), feature, kind)
    BY <1>4, <1>6, <1>7, <2>2 DEF Placed, Knows
  <2>4. "model" \in Queries /\ m \in Things /\ Picks(tier) \in Things
    BY <1>4, <1>6, AreThings, TierFacts DEF Queries
  <2> QED BY <1>1, <1>3, <2>1, <2>3, <2>4, FromTierKeeps
<1>8. CASE m = None
  <2>1. look[r].quiet => ~Speaks(tier, kind)
    BY <1>4, <1>5, <1>8, TierFacts
  <2>2. CASE tier = "feature"
    <3>1. FromTier(r, "triplet", "project", None)
      BY <1>2, <1>3, <1>5, <1>8, <2>2 DEF ReadPick
    <3>2. look[r].quiet => ~Narrower("project", feature, kind)
      BY <1>4, <2>1, <2>2, LadderFacts
    <3>3. /\ Placed("triplet", "project", feature, kind)
          /\ look[r].quiet => Knows("triplet", "project", None, feature, kind)
      BY <1>4, <3>2 DEF Placed, Knows, Custom
    <3>4. "triplet" \in Queries /\ "project" \in Things /\ None \in Things
      BY AreThings DEF Queries
    <3> QED BY <1>1, <1>3, <3>1, <3>3, <3>4, FromTierKeeps
  <2>3. CASE tier = "project"
    <3>1. FromTier(r, "pick", "organization", None)
      BY <1>2, <1>3, <1>5, <1>8, <2>3 DEF ReadPick
    <3>2. look[r].quiet => ~Narrower("organization", feature, kind)
      BY <1>4, <2>1, <2>3, LadderFacts
    <3>3. /\ Placed("pick", "organization", feature, kind)
          /\ look[r].quiet => Knows("pick", "organization", None, feature, kind)
      BY <1>4, <3>2 DEF Placed, Knows, Custom, Tiers
    <3>4. "pick" \in Queries /\ "organization" \in Things /\ None \in Things
      BY AreThings DEF Queries
    <3> QED BY <1>1, <1>3, <3>1, <3>3, <3>4, FromTierKeeps
  <2>4. CASE tier = "organization"
    <3>1. FromTier(r, "unresolved", None, "none")
      BY <1>2, <1>3, <1>5, <1>8, <2>4 DEF ReadPick, Answers
    <3>2. look[r].quiet => Ladder(feature, kind) = <<"none", "unresolved">>
      BY <1>4, <2>1, <2>4, LadderFacts
    <3>3. /\ Placed("unresolved", None, feature, kind)
          /\ look[r].quiet => Knows("unresolved", None, "none", feature, kind)
      BY <1>4, <3>2 DEF Placed, Knows
    <3>4. "unresolved" \in Queries /\ "none" \in Things /\ None \in Things
      BY DEF Queries, Things, Sources
    <3> QED BY <1>1, <1>3, <3>1, <3>3, <3>4, FromTierKeeps
  <2> QED BY <1>4, <2>2, <2>3, <2>4 DEF Tiers
<1> QED BY <1>7, <1>8

\* The queries after the ladder has named a source.
LEMMA ReadsSourceKeeps ==
    ASSUME ConfigInv, NEW r \in Requests,
           ReadBundle(r) \/ ReadModel(r) \/ ReadProvider(r) \/ ReadBaseUrl(r)
    PROVE  ConfigInv'
<1>1. /\ req[r].op = "resolve" /\ UNCHANGED <<role, invites, look>> /\ UNCHANGED Catalog
  BY DEF ReadBundle, ReadModel, ReadProvider, ReadBaseUrl, At, Members, Catalog
<1>2. PICK on, with, kind, feature :
        /\ on = req[r].on /\ with = req[r].with
        /\ kind = look[r].kind /\ feature = look[r].feature
  OBVIOUS
<1>3. /\ on \in Things /\ with \in Things /\ kind \in Kinds /\ None \in Things
      /\ {"resolved", "unresolved", "provider", "baseUrl"} \subseteq Queries
  BY <1>1, <1>2, Resolving, AreThings DEF Queries
<1>4. ASSUME NEW at \in {"resolved", "unresolved"}, FromTier(r, at, None, with),
             look[r].quiet => Ladder(feature, kind) = <<with, at>>
      PROVE  ConfigInv'
  <2>1. /\ Placed(at, None, feature, kind)
        /\ look[r].quiet => Knows(at, None, with, feature, kind)
    BY <1>3, <1>4 DEF Placed, Knows
  <2> QED BY <1>1, <1>2, <1>3, <1>4, <2>1, FromTierKeeps
<1>5. ASSUME NEW at \in {"provider", "baseUrl"}, NEW p \in Providers,
             FromTier(r, at, p, with),
             look[r].quiet => p \in providers /\ Ladder(feature, kind) = <<with, "resolved">>
      PROVE  ConfigInv'
  <2>1. /\ Placed(at, p, feature, kind)
        /\ look[r].quiet => Knows(at, p, with, feature, kind)
    BY <1>3, <1>5 DEF Placed, Knows
  <2>2. p \in Things
    BY AreThings
  <2> QED BY <1>1, <1>2, <1>3, <1>5, <2>1, <2>2, FromTierKeeps
<1>6. CASE ReadBundle(r)
  <2>1. look[r].quiet => Whole(on) /\ Ladder(feature, kind) = <<with, "resolved">>
    BY <1>1, <1>2, <1>6, Resolving DEF ReadBundle, At, Knows
  <2> QED BY <1>2, <1>4, <1>6, <2>1 DEF ReadBundle, Answers
<1>7. CASE ReadModel(r)
  <2>1. /\ on \in Models
        /\ look[r].quiet => models[on] # None /\ Ladder(feature, kind) = <<with, "resolved">>
    BY <1>1, <1>2, <1>7, Resolving DEF ReadModel, At, Knows, Placed
  <2>2. models[on] # None => models[on] \in Providers /\ models[on] \in providers
    BY <2>1 DEF ConfigInv, CatalogTypes, CatalogInv
  <2> QED BY <1>2, <1>4, <1>5, <1>7, <2>1, <2>2 DEF ReadModel, Answers
<1>8. CASE ReadProvider(r)
  <2>1. look[r].quiet => on \in providers /\ Ladder(feature, kind) = <<with, "resolved">>
    BY <1>1, <1>2, <1>8, Resolving DEF ReadProvider, At, Knows
  <2>2. on \in providers => on \in Providers
    BY DEF ConfigInv, CatalogTypes
  <2> QED BY <1>2, <1>4, <1>5, <1>8, <2>1, <2>2 DEF ReadProvider, Answers
<1>9. CASE ReadBaseUrl(r)
  <2>1. look[r].quiet => on \in providers /\ Ladder(feature, kind) = <<with, "resolved">>
    BY <1>1, <1>2, <1>9, Resolving DEF ReadBaseUrl, At, Knows
  <2> QED BY <1>2, <1>4, <1>9, <2>1 DEF ReadBaseUrl, Answers
<1> QED BY <1>6, <1>7, <1>8, <1>9

LEMMA RespondKeeps ==
    ASSUME ConfigInv, NEW r \in Requests, Respond(r)
    PROVE  ConfigInv'
<1>1. /\ UNCHANGED <<role, invites>> /\ UNCHANGED Catalog /\ Ends(r) /\ ReqTypes
      /\ look' = [look EXCEPT ![r] = NoLook]
  BY DEF Respond, Members, Catalog, ConfigInv
<1>2. Moves(r)
  BY <1>1, EndsMoves
<1>3. LookTypes'
  BY <1>1 DEF ConfigInv, LookTypes, NoLook
<1>4. ASSUME NEW q \in Requests
      PROVE  Looking(q)'
  <2>1. req'[q].op = "resolve" => req'[q] = req[q] /\ look'[q] = look[q]
    BY <1>1, <1>2 DEF Moves, ConfigInv, LookTypes
  <2> QED BY <1>1, <2>1, LooksOn DEF ConfigInv, Looking
<1> QED BY <1>1, <1>2, <1>3, <1>4, CatalogKept, OrgKept DEF ConfigInv, Moves

LEMMA ResolveStepKeeps ==
    ASSUME ConfigInv, NEW r \in Requests, ResolveStep(r)
    PROVE  ConfigInv'
BY ResolveStarts, ReadTripletKeeps, ReadPickKeeps, ReadsSourceKeeps, RespondKeeps
   DEF ResolveStep

-----------------------------------------------------------------------------
(* The invariant, and what follows from it. *)

LEMMA InitEstablishes == Init => ConfigInv
<1> SUFFICES ASSUME Init PROVE ConfigInv
  OBVIOUS
<1>1. OrgTypes
  BY DEF Init, OrgInit, OrgTypes
<1>2. ReqTypes /\ \A r \in Requests : req[r].op = "idle"
  <2>1. Idle \in Requesting /\ Asked(Idle.op, Idle.on, Idle.with) /\ Idle.op = "idle"
    <3>1. /\ Idle.op = "idle" /\ Idle.at = "idle" /\ Idle.on = None /\ Idle.with = None
          /\ Idle.n = 0 /\ None \in Things
      BY DEF Idle, Things
    <3>2. Idle \in Requesting
      BY <3>1 DEF Idle, Requesting, Operations, Queries
    <3> QED BY <3>1, <3>2 DEF Asked
  <2>2. req = [r \in Requests |-> Idle] /\ begun = 0
    BY DEF Init, OrgInit
  <2> QED BY <2>1, <2>2 DEF ReqTypes
<1>3. CatalogTypes
  <2>1. providers \subseteq Providers /\ models \in [Models -> Providers \cup {None}]
    BY DEF Init
  <2>2. picks \in [Tiers -> [Kinds -> Models \cup {None}]]
    <3>1. PICK o \in Models \cup {None}, f \in Models \cup {None} :
            picks = [tier \in Tiers |-> [kind \in Kinds |->
                      CASE tier = "organization" -> o [] tier = "feature" -> f [] OTHER -> None]]
      BY DEF Init
    <3> QED BY <3>1
  <2>3. secrets \in [Custom -> [Keys -> Nat]]
    BY DEF Init, NoRows
  <2> QED BY <2>1, <2>2, <2>3 DEF CatalogTypes
<1>4. LookTypes
  BY DEF Init, LookTypes, NoLook
<1>5. CatalogInv
  <2>1. \A m \in Models : models[m] # None => models[m] \in providers
    BY DEF Init
  <2>2. PICK o \in {None} \cup {m \in Models : models[m] # None},
             f \in {None} \cup {m \in Models : project /\ models[m] # None} :
          picks = [tier \in Tiers |-> [kind \in Kinds |->
                    CASE tier = "organization" -> o [] tier = "feature" -> f [] OTHER -> None]]
    BY DEF Init
  <2> QED BY <2>1, <2>2 DEF CatalogInv
<1> QED BY <1>1, <1>2, <1>3, <1>4, <1>5 DEF ConfigInv, Looking

LEMMA NextKeeps == ConfigInv /\ [Next]_vars => ConfigInv'
<1> SUFFICES ASSUME ConfigInv, [Next]_vars PROVE ConfigInv'
  OBVIOUS
<1>1. CASE Next
  BY <1>1, OrgStepKeeps, CatalogStepKeeps, ResolveStepKeeps DEF Next
<1>2. CASE UNCHANGED vars
  <2>1. UNCHANGED <<role, invites, req, begun, look>> /\ UNCHANGED Catalog
    BY <1>2 DEF vars, orgVars, catalogVars, Catalog
  <2>2. \A r \in Requests : Looking(r)'
    BY <2>1, LooksOn DEF ConfigInv, Looking
  <2>3. ReqTypes' /\ LookTypes'
    BY <2>1 DEF ConfigInv, ReqTypes, LookTypes
  <2> QED BY <2>1, <2>2, <2>3, CatalogKept, OrgKept DEF ConfigInv
<1> QED BY <1>1, <1>2

THEOREM ConfigInvariant == Spec => []ConfigInv
BY InitEstablishes, NextKeeps, PTL DEF Spec

\* Whichever deletions of providers and models race with whichever picks, a pick's
\* model is in the catalogue and so is its provider: an upsert that finds the model
\* gone, and a deletion that finds a pick, change nothing.
THEOREM PicksAreCatalogued == Spec => []PicksResolve
<1>1. ConfigInv => PicksResolve
  BY DEF ConfigInv, CatalogTypes, CatalogInv, PicksResolve
<1> QED BY <1>1, ConfigInvariant, PTL

\* A resolution that no write overlapped answers with the narrowest tier that says
\* anything, whatever failed, partial or overlapping writes left in the tables.
THEOREM LadderFollowed == Spec => []FollowsLadder
<1>1. ConfigInv => FollowsLadder
  BY DEF ConfigInv, Looking, Knows, FollowsLadder, At
<1> QED BY <1>1, ConfigInvariant, PTL

\* However requests overlap, whoever becomes a member accepted an invite and has the
\* role it grants, and no member's role changes but as an admin's request asked.
THEOREM MembershipIsByInvite == Spec => MembershipChanges
<1>1. ASSUME ConfigInv, [Next]_vars
      PROVE  [\A u \in Users : role'[u] # role[u] =>
                \E r \in Requests :
                  /\ req'[r] = Idle /\ req[r].on = u /\ req[r].with = role'[u]
                  /\ (req[r].op = "accept") = (role[u] = None)]_orgVars
  <2>1. CASE UNCHANGED role
    BY <2>1
  <2>2. CASE \E r \in Requests : SetRole(r) \/ DeleteMember(r) \/ AddMember(r)
    BY <1>1, <2>2, RoleWrites
  <2>3. \/ UNCHANGED role
        \/ \E r \in Requests : SetRole(r) \/ DeleteMember(r) \/ AddMember(r)
    <3>1. CASE UNCHANGED vars
      BY <3>1 DEF vars, orgVars
    <3>2. CASE Next
      <4>1. PICK r \in Requests : OrgStep(r) \/ CatalogStep(r) \/ ResolveStep(r)
        BY <3>2 DEF Next
      <4>2. CASE OrgStep(r)
        BY <4>2 DEF OrgStep, ChangeRole, RemoveMember, ReadTarget, CountAdmins, CreateInvite,
             InsertInvite, RevokeInvite, DeleteInvite, AcceptInvite, ReadMembership, PutCluster,
             UpsertCluster, RemoveCluster, DeleteCluster, SetStatus, Abandoned
      <4>3. CASE CatalogStep(r)
        BY <4>3 DEF CatalogStep, Members, CreateProvider, InsertProvider, DeleteProvider,
             RemoveProvider, UpdateProvider, EditProvider, CreateModel, FindProvider, InsertModel,
             DeleteModel, RemoveModel, UpdateModel, EditModel, SetPick, SetDefault, SetProjectPick,
             SetFeaturePick, FindModel, UpsertPick, ClearPick, ClearDefault, ClearProjectPick,
             ClearFeaturePick, DeletePick, PutTriplet, PutKey, PutSecret,
             UpsertSecret, DeleteSecret, RemoveSecret, DeleteTriplet, ListRows, DeleteRow,
             CreateProject, ClusterGate, Coverage, InsertProject
      <4>4. CASE ResolveStep(r)
        BY <4>4 DEF ResolveStep, Members, Resolve, ReadTriplet, ReadPick, ReadBundle, ReadModel,
             ReadProvider, ReadBaseUrl, Respond
      <4> QED BY <4>1, <4>2, <4>3, <4>4
    <3> QED BY <1>1, <3>1, <3>2
  <2> QED BY <2>1, <2>2, <2>3
<1> QED BY <1>1, ConfigInvariant, PTL DEF Spec, MembershipChanges
=============================================================================
