----------------------------- MODULE ModelConfig -----------------------------
(***************************************************************************)
(* Which model a job of one project runs with: the organization's          *)
(* providers, catalogue and defaults, the picks and custom triplets of the *)
(* project and of one of its features, project creation, and the ladder an *)
(* agent job's configuration is resolved by (model-config/, secrets/,      *)
(* organizations/readiness.ts).  Requests are those of Organizations.      *)
(***************************************************************************)
EXTENDS Organizations

CONSTANTS
    Providers,
    Models,
    Kinds           \* agent job kinds

VARIABLES
    providers,  \* the providers there are
    models,     \* models[m]: the provider m belongs to, None when not catalogued
    picks,      \* picks[tier][kind]: the model picked there, None for inherit
    secrets,    \* secrets[tier][key]: the row of a custom triplet, 0 for none
    project,    \* whether the project exists
    rows,       \* rows[r]: the triplet rows a deletion has listed and not yet deleted
    look        \* look[r]: what a resolution was asked, and whether nothing was written since

catalogVars == <<providers, models, picks, secrets, project, rows, look>>
vars == <<orgVars, catalogVars>>
Members == <<role, invites, cluster, status>>

Keys == {"MODEL_BASE_URL", "MODEL_API_KEY", "MODEL_ID"}

\* The order a whole triplet is put in.
After == [MODEL_BASE_URL |-> "MODEL_API_KEY", MODEL_API_KEY |-> "MODEL_ID"]
Tiers == {"organization", "project", "feature"}
Custom == {"project", "feature"}

Set(tier) == {key \in Keys : secrets[tier][key] # 0}
Whole(tier) == Set(tier) = Keys
Partial(tier) == Set(tier) \notin {{}, Keys}

\* Foreign keys of the three pick tables: ON DELETE RESTRICT.
Picked(m) == \E tier \in Tiers, kind \in Kinds : picks[tier][kind] = m

NoRows == [key \in Keys |-> 0]

NoLook == [kind |-> None, feature |-> FALSE, quiet |-> TRUE]

Init ==
    /\ OrgInit
    /\ project \in BOOLEAN /\ (project => status = "ready")
    /\ \/ providers = {} /\ models = [m \in Models |-> None]
       \/ \E p \in Providers : providers = {p} /\ models = [m \in Models |-> p]
    /\ \E o \in {None} \cup {m \in Models : models[m] # None},
          f \in {None} \cup {m \in Models : project /\ models[m] # None} :
         picks = [tier \in Tiers |-> [kind \in Kinds |->
                    CASE tier = "organization" -> o [] tier = "feature" -> f [] OTHER -> None]]
    /\ secrets = [tier \in Custom |-> NoRows]
    /\ rows = [r \in Requests |-> NoRows]
    /\ look = [r \in Requests |-> NoLook]

\* A catalogue write, which every resolution under way may have missed.
Wrote == look' = [r \in Requests |-> [look[r] EXCEPT !.quiet = @ /\ req[r].op # "resolve"]]

-----------------------------------------------------------------------------
(* Providers and models, admins only. *)

CreateProvider(r) ==
    /\ \E u \in Admins, p \in Providers \ providers :
         Begins(r, Request("createProvider", "write", p, None))
    /\ UNCHANGED <<Members, catalogVars>>

InsertProvider(r) ==
    /\ At(r, "createProvider", "write")
    /\ providers' = providers \cup {req[r].on} /\ Wrote
    /\ Ends(r)
    /\ UNCHANGED <<Members, rows, models, picks, secrets, project>>

DeleteProvider(r) ==
    /\ \E u \in Admins, p \in Providers : Begins(r, Request("deleteProvider", "write", p, None))
    /\ UNCHANGED <<Members, catalogVars>>

RemoveProviderOnly(r) ==
    /\ At(r, "deleteProvider", "write")
    /\ providers' = providers \ {req[r].on} /\ Wrote
    /\ Ends(r)
    /\ UNCHANGED <<Members, rows, models, picks, secrets, project>>

\* The provider's models go with it (ON DELETE CASCADE), unless one is picked: then
\* the statement fails and the answer is 409.
RemoveProvider(r) ==
    /\ At(r, "deleteProvider", "write")
    /\ LET p == req[r].on IN
       IF \E m \in Models : models[m] = p /\ Picked(m)
       THEN UNCHANGED <<providers, models, look>>
       ELSE /\ providers' = providers \ {p}
            /\ models' = [m \in Models |-> IF models[m] = p THEN None ELSE models[m]]
            /\ Wrote
    /\ Ends(r)
    /\ UNCHANGED <<Members, rows, picks, secrets, project>>

UpdateProvider(r) ==
    /\ \E u \in Admins, p \in Providers : Begins(r, Request("updateProvider", "write", p, None))
    /\ UNCHANGED <<Members, catalogVars>>

\* The base URL and the key, of which a resolution under way may read one old, one new.
EditProvider(r) ==
    /\ At(r, "updateProvider", "write")
    /\ IF req[r].on \in providers THEN Wrote ELSE UNCHANGED look
    /\ Ends(r)
    /\ UNCHANGED <<Members, rows, providers, models, picks, secrets, project>>

CreateModel(r) ==
    /\ \E u \in Admins, m \in {n \in Models : models[n] = None}, p \in Providers :
         Begins(r, Request("createModel", "provider", m, p))
    /\ UNCHANGED <<Members, catalogVars>>

FindProvider(r) ==
    /\ At(r, "createModel", "provider")
    /\ IF req[r].with \in providers THEN Goes(r, "write") ELSE Ends(r)
    /\ UNCHANGED <<Members, catalogVars>>

\* A provider deleted meanwhile fails the foreign key.
InsertModel(r) ==
    /\ At(r, "createModel", "write")
    /\ IF req[r].with \in providers /\ models[req[r].on] = None
       THEN models' = [models EXCEPT ![req[r].on] = req[r].with] /\ Wrote
       ELSE UNCHANGED <<models, look>>
    /\ Ends(r)
    /\ UNCHANGED <<Members, rows, providers, picks, secrets, project>>

DeleteModel(r) ==
    /\ \E u \in Admins, m \in Models : Begins(r, Request("deleteModel", "write", m, None))
    /\ UNCHANGED <<Members, catalogVars>>

RemoveModel(r) ==
    /\ At(r, "deleteModel", "write")
    /\ IF Picked(req[r].on) THEN UNCHANGED <<models, look>>
       ELSE models' = [models EXCEPT ![req[r].on] = None] /\ Wrote
    /\ Ends(r)
    /\ UNCHANGED <<Members, rows, providers, picks, secrets, project>>

UpdateModel(r) ==
    /\ \E u \in Admins, m \in Models : Begins(r, Request("updateModel", "write", m, None))
    /\ UNCHANGED <<Members, catalogVars>>

\* The identifier the provider knows the model by.
EditModel(r) ==
    /\ At(r, "updateModel", "write")
    /\ IF models[req[r].on] # None THEN Wrote ELSE UNCHANGED look
    /\ Ends(r)
    /\ UNCHANGED <<Members, rows, providers, models, picks, secrets, project>>

-----------------------------------------------------------------------------
(* Picks: an admin's for the organization, any member's below. *)

May(u, tier) ==
    IF tier = "organization" THEN role[u] = "admin" ELSE role[u] # None /\ project

SetPick(r, tier) ==
    /\ \E u \in Users, m \in Models :
         May(u, tier) /\ Begins(r, Request("setPick", "model", m, tier))
    /\ UNCHANGED <<Members, catalogVars>>

SetDefault(r) == SetPick(r, "organization")
SetProjectPick(r) == SetPick(r, "project")
SetFeaturePick(r) == SetPick(r, "feature")

FindModel(r) ==
    /\ At(r, "setPick", "model")
    /\ IF models[req[r].on] # None THEN Goes(r, "write") ELSE Ends(r)
    /\ UNCHANGED <<Members, catalogVars>>

\* A model deleted meanwhile fails the foreign key.
UpsertPick(r) ==
    /\ At(r, "setPick", "write")
    /\ \/ /\ models[req[r].on] # None
          /\ \E kind \in Kinds : picks' = [picks EXCEPT ![req[r].with][kind] = req[r].on]
          /\ Wrote
       \/ models[req[r].on] = None /\ UNCHANGED <<picks, look>>
    /\ Ends(r)
    /\ UNCHANGED <<Members, rows, providers, models, secrets, project>>

ClearPick(r, tier) ==
    /\ \E u \in Users : May(u, tier) /\ Begins(r, Request("clearPick", "write", None, tier))
    /\ UNCHANGED <<Members, catalogVars>>

ClearDefault(r) == ClearPick(r, "organization")
ClearProjectPick(r) == ClearPick(r, "project")
ClearFeaturePick(r) == ClearPick(r, "feature")

DeletePick(r) ==
    /\ At(r, "clearPick", "write")
    /\ \E kind \in Kinds : picks' = [picks EXCEPT ![req[r].with][kind] = None]
    /\ Wrote
    /\ Ends(r)
    /\ UNCHANGED <<Members, rows, providers, models, secrets, project>>

-----------------------------------------------------------------------------
(* Custom triplets: one key a statement. *)

Upsert(tier, key, n) == secrets' = [secrets EXCEPT ![tier][key] = IF @ = 0 THEN n ELSE @]

\* A feature's three keys are put together, a project's one at a time; a new
\* project's are put after it is created.
PutTriplet(r) ==
    /\ \E u \in Users :
         May(u, "feature") /\ Begins(r, Request("putTriplet", "key", "MODEL_BASE_URL", "feature"))
    /\ UNCHANGED <<Members, catalogVars>>

PutKey(r) ==
    /\ At(r, "putTriplet", "key")
    /\ Upsert(req[r].with, req[r].on, req[r].n) /\ Wrote
    /\ IF req[r].on \in DOMAIN After
       THEN req' = [req EXCEPT ![r].on = After[@]] /\ UNCHANGED begun
       ELSE Ends(r)
    /\ UNCHANGED <<Members, rows, providers, models, picks, project>>

PutSecret(r) ==
    /\ \E u \in Users, key \in Keys :
         May(u, "project") /\ Begins(r, Request("putSecret", "write", key, "project"))
    /\ UNCHANGED <<Members, catalogVars>>

UpsertSecret(r) ==
    /\ At(r, "putSecret", "write")
    /\ Upsert("project", req[r].on, req[r].n) /\ Wrote
    /\ Ends(r)
    /\ UNCHANGED <<Members, rows, providers, models, picks, project>>

\* By the row's id, so that a key put again meanwhile stays.
DeleteSecret(r) ==
    /\ \E u \in Users, key \in Set("project") :
         /\ May(u, "project")
         /\ Begins(r, Request("deleteSecret", "write", key, secrets["project"][key]))
    /\ UNCHANGED <<Members, catalogVars>>

RemoveSecret(r) ==
    /\ At(r, "deleteSecret", "write")
    /\ secrets' = [secrets EXCEPT !["project"][req[r].on] = IF @ = req[r].with THEN 0 ELSE @]
    /\ Wrote
    /\ Ends(r)
    /\ UNCHANGED <<Members, rows, providers, models, picks, project>>

\* The rows to delete are listed first; a row put afterwards is another one.
DeleteTriplet(r) ==
    /\ \E u \in Users :
         May(u, "feature") /\ Begins(r, Request("deleteTriplet", "list", None, "feature"))
    /\ UNCHANGED <<Members, catalogVars>>

ListRows(r) ==
    /\ At(r, "deleteTriplet", "list")
    /\ rows' = [rows EXCEPT ![r] = secrets["feature"]]
    /\ Goes(r, "rows")
    /\ UNCHANGED <<Members, providers, models, picks, secrets, project, look>>

DeleteRow(r) ==
    /\ At(r, "deleteTriplet", "rows")
    /\ IF rows[r] = NoRows THEN Ends(r) /\ UNCHANGED <<secrets, rows, look>>
       ELSE \E key \in Keys :
              /\ rows[r][key] # 0
              /\ rows' = [rows EXCEPT ![r][key] = 0]
              /\ secrets' = [secrets EXCEPT !["feature"][key] = IF @ = rows[r][key] THEN 0 ELSE @]
              /\ Wrote
              /\ UNCHANGED <<req, begun>>
    /\ UNCHANGED <<Members, providers, models, picks, project>>

-----------------------------------------------------------------------------
(* Creating the project: the cluster's gate, then the models'. *)

Covered == \A kind \in Kinds : picks["organization"][kind] # None

CreateProject(r) ==
    /\ ~project
    /\ \E u \in Users, bundle \in {"bundle", "inherit"} :
         role[u] # None /\ Begins(r, Request("createProject", "gate", None, bundle))
    /\ UNCHANGED <<Members, catalogVars>>

ClusterGate(r) ==
    /\ At(r, "createProject", "gate")
    /\ IF status # "ready" THEN Ends(r)
       ELSE Goes(r, IF req[r].with = "bundle" THEN "insert" ELSE "coverage")
    /\ UNCHANGED <<Members, catalogVars>>

\* Every default is listed, then resolved: one removed since does not count.
Coverage(r) ==
    /\ At(r, "createProject", "coverage")
    /\ IF Covered THEN Goes(r, "insert") ELSE Ends(r)
    /\ UNCHANGED <<Members, catalogVars>>

InsertProject(r) ==
    /\ At(r, "createProject", "insert")
    /\ ~project                         \* bound: one project
    /\ project' = TRUE
    /\ IF req[r].with = "bundle"
       THEN req' = [req EXCEPT ![r] = [@ EXCEPT !.op = "putTriplet", !.at = "key",
                                                !.on = "MODEL_BASE_URL", !.with = "project"]]
                /\ UNCHANGED begun
       ELSE Ends(r)
    /\ UNCHANGED <<Members, rows, providers, models, picks, secrets, look>>

-----------------------------------------------------------------------------
(* Resolution, narrowest tier first.  req[r].on is the tier, then the model, then  *)
(* its provider; req[r].with is the source.                                        *)

Triplets(tier) == IF tier = "feature" THEN "feature_custom" ELSE "project_custom"

Picks(tier) ==
    CASE tier = "feature" -> "feature_override"
      [] tier = "project" -> "project_override"
      [] tier = "organization" -> "organization_default"

Resolve(r) ==
    /\ project
    /\ \E kind \in Kinds, feature \in BOOLEAN :
         /\ Begins(r, Request("resolve", "triplet",
                              IF feature THEN "feature" ELSE "project", None))
         /\ look' = [look EXCEPT ![r] = [kind |-> kind, feature |-> feature, quiet |-> TRUE]]
    /\ UNCHANGED <<Members, rows, providers, models, picks, secrets, project>>

FromTier(r, at, on, with) ==
    /\ req' = [req EXCEPT ![r] = [@ EXCEPT !.at = at, !.on = on, !.with = with]]
    /\ UNCHANGED begun

Answers(r, source, resolved) ==
    FromTier(r, IF resolved THEN "resolved" ELSE "unresolved", None, source)

ReadTripletLeniently(r) ==
    /\ At(r, "resolve", "triplet")
    /\ LET tier == req[r].on IN
       IF Whole(tier) THEN FromTier(r, "bundle", tier, Triplets(tier))
       ELSE FromTier(r, "pick", tier, None)
    /\ UNCHANGED <<Members, rows, providers, models, picks, secrets, project, look>>

\* A partial triplet resolves to nothing: it does not fall through.
ReadTriplet(r) ==
    /\ At(r, "resolve", "triplet")
    /\ LET tier == req[r].on IN
       IF Whole(tier) THEN FromTier(r, "bundle", tier, Triplets(tier))
       ELSE IF Partial(tier) THEN Answers(r, "none", FALSE)
       ELSE FromTier(r, "pick", tier, None)
    /\ UNCHANGED <<Members, rows, providers, models, picks, secrets, project, look>>

ReadPick(r) ==
    /\ At(r, "resolve", "pick")
    /\ LET tier == req[r].on
           m == picks[tier][look[r].kind] IN
       CASE m # None -> FromTier(r, "model", m, Picks(tier))
         [] m = None /\ tier = "feature" -> FromTier(r, "triplet", "project", None)
         [] m = None /\ tier = "project" -> FromTier(r, "pick", "organization", None)
         [] m = None /\ tier = "organization" -> Answers(r, "none", FALSE)
    /\ UNCHANGED <<Members, rows, providers, models, picks, secrets, project, look>>

\* The winning triplet is read again for its values.
ReadBundle(r) ==
    /\ At(r, "resolve", "bundle")
    /\ Answers(r, req[r].with, Whole(req[r].on))
    /\ UNCHANGED <<Members, rows, providers, models, picks, secrets, project, look>>

ReadModel(r) ==
    /\ At(r, "resolve", "model")
    /\ IF models[req[r].on] = None THEN Answers(r, req[r].with, FALSE)
       ELSE FromTier(r, "provider", models[req[r].on], req[r].with)
    /\ UNCHANGED <<Members, rows, providers, models, picks, secrets, project, look>>

\* The key and the base URL are two reads; either may find the provider gone.
ReadProvider(r) ==
    /\ At(r, "resolve", "provider")
    /\ IF req[r].on \in providers THEN FromTier(r, "baseUrl", req[r].on, req[r].with)
       ELSE Answers(r, req[r].with, FALSE)
    /\ UNCHANGED <<Members, rows, providers, models, picks, secrets, project, look>>

ReadBaseUrl(r) ==
    /\ At(r, "resolve", "baseUrl")
    /\ Answers(r, req[r].with, req[r].on \in providers)
    /\ UNCHANGED <<Members, rows, providers, models, picks, secrets, project, look>>

Respond(r) ==
    /\ At(r, "resolve", "resolved") \/ At(r, "resolve", "unresolved")
    /\ look' = [look EXCEPT ![r] = NoLook]
    /\ Ends(r)
    /\ UNCHANGED <<Members, rows, providers, models, picks, secrets, project>>

-----------------------------------------------------------------------------
CatalogStep(r) ==
    \/ CreateProvider(r) \/ InsertProvider(r) \/ DeleteProvider(r) \/ RemoveProvider(r)
    \/ UpdateProvider(r) \/ EditProvider(r)
    \/ CreateModel(r) \/ FindProvider(r) \/ InsertModel(r) \/ DeleteModel(r) \/ RemoveModel(r)
    \/ UpdateModel(r) \/ EditModel(r)
    \/ SetDefault(r) \/ SetProjectPick(r) \/ SetFeaturePick(r) \/ FindModel(r) \/ UpsertPick(r)
    \/ ClearDefault(r) \/ ClearProjectPick(r) \/ ClearFeaturePick(r) \/ DeletePick(r)
    \/ PutTriplet(r) \/ PutKey(r) \/ PutSecret(r) \/ UpsertSecret(r)
    \/ DeleteSecret(r) \/ RemoveSecret(r)
    \/ DeleteTriplet(r) \/ ListRows(r) \/ DeleteRow(r)
    \/ CreateProject(r) \/ ClusterGate(r) \/ Coverage(r) \/ InsertProject(r)

ResolveStep(r) ==
    \/ Resolve(r) \/ ReadTriplet(r) \/ ReadPick(r) \/ ReadBundle(r)
    \/ ReadModel(r) \/ ReadProvider(r) \/ ReadBaseUrl(r) \/ Respond(r)

Next ==
    \E r \in Requests :
      \/ OrgStep(r) /\ UNCHANGED catalogVars
      \/ CatalogStep(r)
      \/ ResolveStep(r)

Spec == Init /\ [][Next]_vars

-----------------------------------------------------------------------------
(* Properties. *)

\* Whichever deletions race with whichever picks, a model that is picked anywhere is
\* in the catalogue and so is its provider: a deletion that would break one is the 409
\* of model-config/routes.ts:397 and :526, and a pick that would is refused.
PicksResolve ==
    \A tier \in Tiers, kind \in Kinds : picks[tier][kind] # None =>
      models[picks[tier][kind]] # None /\ models[picks[tier][kind]] \in providers

\* The ladder as secrets/model-config.ts:79-99 words it: the narrowest tier that says
\* anything wins, and a partial triplet says "none".
Speaks(tier, kind) == (tier \in Custom /\ Set(tier) # {}) \/ picks[tier][kind] # None

Says(tier, kind) ==
    IF tier \in Custom /\ Whole(tier) THEN <<Triplets(tier), "resolved">>
    ELSE IF tier \in Custom /\ Partial(tier) THEN <<"none", "unresolved">>
    ELSE <<Picks(tier), "resolved">>

Ladder(feature, kind) ==
    IF feature /\ Speaks("feature", kind) THEN Says("feature", kind)
    ELSE IF Speaks("project", kind) THEN Says("project", kind)
    ELSE IF Speaks("organization", kind) THEN Says("organization", kind)
    ELSE <<"none", "unresolved">>

\* A resolution no write overlapped answers what the ladder says of the catalogue, be
\* it one that failed, partial or overlapping writes left behind.
FollowsLadder ==
    \A r \in Requests :
      (At(r, "resolve", "resolved") \/ At(r, "resolve", "unresolved")) /\ look[r].quiet
        => <<req[r].with, req[r].at>> = Ladder(look[r].feature, look[r].kind)
=============================================================================
