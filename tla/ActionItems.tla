----------------------------- MODULE ActionItems -----------------------------
(***************************************************************************)
(* The action items a specification leaves for people                      *)
(* (features/action-items-repository.ts) and the things that resolve them: *)
(* a secret somebody stores, a test somebody makes, a subtask that is      *)
(* merged, a design a session submits.  With them the index of designs     *)
(* (designs/repository.ts), of one slug.                                   *)
(*                                                                         *)
(* One feature.  Of its life there is here what the items depend on; all   *)
(* of it is module FeatureLifecycle.                                       *)
(***************************************************************************)
EXTENDS Integers, Sequences, FiniteSets

CONSTANTS
    Sessions,   \* design sessions
    Requests,   \* handlers that may be under way at once
    None,
    Batches,    \* the batches of items specifications are submitted with
    MaxGrills,  \* bound: specifications submitted
    MaxItems,   \* bound: items
    MaxTests    \* bound: tests made of items

VARIABLES
    feature,    \* its status and approval
    items,      \* feature_action_items, by id
    merged,     \* items whose subtask has been merged
    secret,     \* the project has the secret that secret requests name
    tests,      \* tests made of test requests
    design,     \* the row of designs
    session,    \* session[s]: a design session, and whether its job names the design
    req,        \* req[r]: what handler r has read and where it is
    submitted   \* specifications submitted

domain == <<merged, secret, tests>>
designs == <<design, session>>
vars == <<feature, items, domain, designs, req, submitted>>

Types == {"secret_request", "test_request", "design_grill", "subtask_feature"}
Ids == 1..MaxItems

\* No session is called None, and batches hold items.
ItemsAssumption == None \notin Sessions /\ Batches \subseteq Seq(Types) /\ MaxItems \in Nat

NoItem == [type |-> None, status |-> "none", session |-> None, snapshot |-> None]

Idle == [at |-> "idle", item |-> 0, batch |-> <<>>, session |-> None, has |-> FALSE]

Init ==
    /\ feature = [status |-> "draft", approved |-> FALSE]
    /\ items = [i \in Ids |-> NoItem]
    /\ merged = {} /\ secret = FALSE /\ tests = 0
    /\ design = "none"
    /\ session = [s \in Sessions |-> [is |-> "none", linked |-> FALSE, lost |-> FALSE]]
    /\ req = [r \in Requests |-> Idle]
    /\ submitted = 0

At(r, at) == req[r].at = at
Becomes(r, to) == req' = [req EXCEPT ![r] = to]
Goes(r, at) == Becomes(r, [req[r] EXCEPT !.at = at])
Ends(r) == Becomes(r, Idle)

Open(i) == items[i].status = "open"
Free(i) == items[i] = NoItem
Resolved(i) == [items EXCEPT ![i].status = IF @ = "open" THEN "resolved" ELSE @]

-----------------------------------------------------------------------------
(* submit_adr: the feature first, then its items one INSERT at a time.  A   *)
(* grill that was superseded submits as well.                               *)

SetSpecReady(r) ==
    /\ At(r, "idle") /\ submitted < MaxGrills
    /\ submitted' = submitted + 1
    /\ feature' = [feature EXCEPT !.status = "spec_ready"]
    /\ \E batch \in Batches : Becomes(r, [Idle EXCEPT !.at = "insert", !.batch = batch])
    /\ UNCHANGED <<items, domain, designs>>

CreateItem(r) ==
    /\ At(r, "insert") /\ req[r].batch # <<>>
    /\ \E i \in Ids :
         /\ Free(i) /\ \A j \in 1..(i - 1) : ~Free(j)
         /\ items' = [items EXCEPT ![i] = [NoItem EXCEPT !.type = Head(req[r].batch),
                                                         !.status = "open"]]
    /\ LET rest == Tail(req[r].batch)
       IN IF rest = <<>> THEN Ends(r) ELSE Becomes(r, [req[r] EXCEPT !.batch = rest])
    /\ UNCHANGED <<feature, domain, designs, submitted>>

-----------------------------------------------------------------------------
(* The build waits for the items, and may come back for others. *)

Approve ==
    /\ feature.status = "spec_ready" /\ ~feature.approved
    /\ feature' = [feature EXCEPT !.approved = TRUE]
    /\ UNCHANGED <<items, domain, designs, req, submitted>>

StartBuild(r) ==
    /\ At(r, "idle")
    /\ feature.status = "spec_ready" /\ feature.approved
    /\ Goes(r, "count")
    /\ UNCHANGED <<feature, items, domain, designs, submitted>>

CountOpen(r) ==
    /\ At(r, "count")
    /\ IF \E i \in Ids : Open(i) THEN Ends(r) ELSE Goes(r, "queue")
    /\ UNCHANGED <<feature, items, domain, designs, submitted>>

QueueBuild(r) ==
    /\ At(r, "queue")
    /\ feature' = IF feature.status = "spec_ready" /\ feature.approved
                  THEN [feature EXCEPT !.status = "queued"] ELSE feature
    /\ Ends(r)
    /\ UNCHANGED <<items, domain, designs, submitted>>

\* request_action_item: back to draft, then the open items of the old batch go.
KickBack(r) ==
    /\ At(r, "idle") /\ feature.status = "queued"
    /\ feature' = [status |-> "draft", approved |-> FALSE]
    /\ Goes(r, "clear")
    /\ UNCHANGED <<items, domain, designs, submitted>>

ClearForFeature(r) ==
    /\ At(r, "clear")
    /\ items' = [i \in Ids |-> IF Open(i) THEN [items[i] EXCEPT !.status = "deleted"]
                               ELSE items[i]]
    /\ Ends(r)
    /\ UNCHANGED <<feature, domain, designs, submitted>>

-----------------------------------------------------------------------------
(* What resolves an item.  Each handler reads the item first. *)

Exists(i) == items[i].status \in {"open", "resolved"}
Resolvable(i) == Exists(i) /\ items[i].type # "design_grill"

\* A person says so: any item but a design's.
Confirm(r) ==
    /\ At(r, "idle")
    /\ \E i \in Ids : Resolvable(i) /\ Becomes(r, [Idle EXCEPT !.at = "resolve", !.item = i])
    /\ UNCHANGED <<feature, items, domain, designs, submitted>>

Resolve(r) ==
    /\ At(r, "resolve")
    /\ items' = Resolved(req[r].item)
    /\ Ends(r)
    /\ UNCHANGED <<feature, domain, designs, submitted>>

\* GET action-items and auto-resolve: the list, the secrets, then one UPDATE each.
StoreSecret ==
    /\ ~secret /\ secret' = TRUE
    /\ UNCHANGED <<feature, items, merged, tests, designs, req, submitted>>

Sweep(r) ==
    /\ At(r, "idle") /\ secret
    /\ \E i \in Ids :
         /\ Open(i) /\ items[i].type = "secret_request"
         /\ Becomes(r, [Idle EXCEPT !.at = "resolve", !.item = i])
    /\ UNCHANGED <<feature, items, domain, designs, submitted>>

TestRequested(r) ==
    /\ At(r, "idle")
    /\ \E i \in Ids :
         /\ Open(i) /\ items[i].type = "test_request"
         /\ Becomes(r, [Idle EXCEPT !.at = "test", !.item = i])
    /\ UNCHANGED <<feature, items, domain, designs, submitted>>

CreateTest(r) ==
    /\ At(r, "test") /\ tests < MaxTests
    /\ tests' = tests + 1
    /\ Goes(r, "resolve")
    /\ UNCHANGED <<feature, items, merged, secret, designs, submitted>>

\* The webhook of a subtask's merge: its status, then the item.  A subtask takes
\* a grill and a build, so the handler that made it has ended.
Merge(r) ==
    /\ At(r, "idle")
    /\ \E i \in Ids \ merged :
         /\ Exists(i) /\ items[i].type = "subtask_feature"
         /\ merged' = merged \cup {i}
         /\ Becomes(r, [Idle EXCEPT !.at = "subtask", !.item = i])
    /\ UNCHANGED <<feature, items, secret, tests, designs, submitted>>

ResolveSubtaskItem(r) ==
    /\ At(r, "subtask")
    /\ items' = IF items[req[r].item].type = "subtask_feature"
                THEN Resolved(req[r].item) ELSE items
    /\ Ends(r)
    /\ UNCHANGED <<feature, domain, designs, submitted>>

-----------------------------------------------------------------------------
(* Design sessions. *)

Handled(s) == \E r \in Requests : req[r].session = s

\* POST designs, for an item or for none.
StartDesign(r) ==
    /\ At(r, "idle")
    /\ \E s \in Sessions, i \in {0} \cup Ids :
         /\ session[s].is = "none"
         /\ i # 0 => Open(i) /\ items[i].type = "design_grill"
         /\ session' = [session EXCEPT ![s].is = "running"]
         /\ Becomes(r, [Idle EXCEPT !.at = "index", !.session = s, !.item = i])
    /\ UNCHANGED <<feature, items, domain, design, submitted>>

StartedAgain == "in_progress"

\* The upsert leaves the status of a design that is there.
Started == IF design = "none" THEN "in_progress" ELSE design

\* A failure is logged.
StartSession(r) ==
    /\ At(r, "index")
    /\ design' \in {design, Started}
    /\ Goes(r, IF design' = "none" THEN "item" ELSE "link")
    /\ UNCHANGED <<feature, items, domain, session, submitted>>

LinkSession(r, next) ==
    /\ session' = [session EXCEPT ![req[r].session].linked = TRUE]
    /\ Goes(r, next)
    /\ UNCHANGED <<feature, items, domain, design, submitted>>

LinkStarted(r) == At(r, "link") /\ LinkSession(r, "item")

LinkDesignSession(r) ==
    /\ At(r, "item")
    /\ items' = IF req[r].item # 0 /\ items[req[r].item].type = "design_grill"
                THEN [items EXCEPT ![req[r].item].session = req[r].session] ELSE items
    /\ Ends(r)
    /\ UNCHANGED <<feature, domain, designs, submitted>>

\* submit_design, by a session that was cancelled too.  A session works for
\* minutes: the handler that started it has ended.
SubmitDesign(r) ==
    /\ At(r, "idle")
    /\ \E s \in Sessions :
         /\ session[s].is = "running" /\ ~Handled(s)
         /\ session' = [session EXCEPT ![s].is = "submitted"]
         /\ Becomes(r, [Idle EXCEPT !.at = "finalize", !.session = s])
    /\ UNCHANGED <<feature, items, domain, design, submitted>>

GivesUp(r) == Ends(r)

\* A failure is logged, and the item is resolved all the same.
GoesOn(r) == Goes(r, "snapshot")

Finalize(r) ==
    /\ At(r, "finalize")
    /\ \/ design' = "finalized" /\ Goes(r, "finalLink") /\ UNCHANGED session
       \/ /\ session' = [session EXCEPT ![req[r].session].lost = TRUE]
          /\ GoesOn(r)
          /\ UNCHANGED design
    /\ UNCHANGED <<feature, items, domain, submitted>>

LinkFinal(r) == At(r, "finalLink") /\ LinkSession(r, "snapshot")

ResolveDesignSession(r) ==
    /\ At(r, "snapshot")
    /\ items' = [i \in Ids |->
           IF items[i].session = req[r].session /\ items[i].type = "design_grill" /\ Open(i)
           THEN [items[i] EXCEPT !.status = "resolved", !.snapshot = req[r].session]
           ELSE items[i]]
    /\ Ends(r)
    /\ UNCHANGED <<feature, domain, designs, submitted>>

-----------------------------------------------------------------------------
Step(r) ==
    \/ CreateItem(r) \/ CountOpen(r) \/ QueueBuild(r) \/ ClearForFeature(r)
    \/ Resolve(r) \/ CreateTest(r) \/ ResolveSubtaskItem(r)
    \/ StartSession(r) \/ LinkStarted(r) \/ LinkDesignSession(r)
    \/ Finalize(r) \/ LinkFinal(r) \/ ResolveDesignSession(r)

Next ==
    \/ Approve \/ StoreSecret
    \/ \E r \in Requests :
         \/ SetSpecReady(r) \/ StartBuild(r) \/ KickBack(r)
         \/ Confirm(r) \/ Sweep(r) \/ TestRequested(r) \/ Merge(r)
         \/ StartDesign(r) \/ SubmitDesign(r) \/ Step(r)

Spec == Init /\ [][Next]_vars

-----------------------------------------------------------------------------
(* Properties *)

\* No item waits for what has happened: once the handlers of a merge and of a
\* submitted design have ended, the item of the subtask, and whichever item the
\* session was last started for, are not open; not even when the index of
\* designs could not be written.
AwaitedResolves ==
    \A i \in Ids : Open(i) =>
        /\ i \in merged => \E r \in Requests : At(r, "subtask") /\ req[r].item = i
        /\ \A s \in Sessions :
             items[i].session = s /\ session[s].is = "submitted" => Handled(s)

\* A design that was submitted is in the index, finalized, with its session: the
\* row that was not written when the session started is written then, and no
\* session that is started later takes it back.
SubmittedIsFinal ==
    \A s \in Sessions :
        session[s].is = "submitted" /\ ~session[s].lost /\ ~Handled(s) =>
            design = "finalized" /\ session[s].linked

-----------------------------------------------------------------------------
(* What comments of the code say and the code does not do; no run checks these. *)

\* "Start build" waits for every item: an item of a second grill's batch, or of a
\* batch that is still being inserted, does not stop the build.
BuildWaitsForItems ==
    [][\A i \in Ids : feature'.status = "queued" /\ feature.status # "queued" => ~Open(i)]_vars

\* The snapshot a later grill is shown is that of the session the item names.
SnapshotOfSession ==
    \A i \in Ids : items[i].snapshot # None => items[i].snapshot = items[i].session

\* A test request makes one test.
OneTestPerRequest == tests <= Cardinality({i \in Ids : items[i].type = "test_request"})
=============================================================================
