-------------------------------- MODULE Usage --------------------------------
(***************************************************************************)
(* What jobs consumed (usage/) and what projects may consume               *)
(* (allocations/): a row of job_usage per job, the reports aggregated from *)
(* them, and the monthly token cap the Orchestrator asks about before it   *)
(* starts a job.  A report is several queries at once (Promise.all), each  *)
(* of which sees what is committed when it runs; a decision about a cap    *)
(* reads the cap, the clock and the consumption one after the other.       *)
(*                                                                         *)
(* Time is counted in days (UTC), months have DaysPerMonth of them.        *)
(***************************************************************************)
EXTENDS Integers, Sequences, FiniteSets, FiniteSetsExt

CONSTANTS
    Jobs, Projects, Organizations,
    ProjectOf,      \* ProjectOf[j]
    OrganizationOf, \* OrganizationOf[p]
    KindOf,         \* KindOf[j]: "agent", or "script", which consumes no tokens
    ModelOf,        \* ModelOf[j]: the model its session names; None for none
    Providers,      \* names of model providers
    Amounts,        \* tokens a session reports
    Caps,           \* Caps[p]: monthly caps an admin sets for p
    Requests,       \* handlers that may be under way at once
    None,
    DaysPerMonth,
    RecentLimit,    \* RECENT_SESSION_LIMIT
    Windows,        \* lengths of reports, in days
    MaxDay,         \* bound: days that pass
    MaxPosts        \* bound: reports of consumption

UsageAssumption ==
    /\ IsFiniteSet(Jobs) /\ Amounts \subseteq Nat /\ Caps \in [Projects -> SUBSET Nat]
    /\ RecentLimit \in Nat /\ None \notin Projects
    /\ DaysPerMonth \in Nat \ {0} /\ Windows \subseteq Nat

VARIABLES
    day,
    usage,      \* job_usage
    caps,       \* project_token_caps
    req,        \* req[r]: what handler r has read and where it is
    heard,      \* history: heard[j], what was stored of job j, in that order
    posts

vars == <<day, usage, caps, req, heard, posts>>

NoUsage == [day |-> 0, provider |-> None, tokens |-> 0]
NoScope == [organization |-> None, project |-> None, from |-> 0, to |-> 0]
Idle == [at |-> "idle", of |-> None, provider |-> None, tokens |-> 0, scope |-> NoScope,
         todo |-> {}, got |-> {}, cap |-> None, alone |-> FALSE, before |-> {}]

Init ==
    /\ day = 1
    /\ usage = [j \in Jobs |-> NoUsage]
    /\ caps = [p \in Projects |-> None]
    /\ req = [r \in Requests |-> Idle]
    /\ heard = [j \in Jobs |-> <<>>]
    /\ posts = 0

At(r, at) == req[r].at = at
Becomes(r, to) == req' = [req EXCEPT ![r] = to]
Ends(r) == Becomes(r, Idle)

\* The jobs a report, or a decision, is about.
JobsOf(scope) ==
    {j \in Jobs : IF scope.project # None THEN ProjectOf[j] = scope.project
                  ELSE OrganizationOf[ProjectOf[j]] = scope.organization}

\* Those of them that were first heard of while it lasted, and what they consumed
\* by what was heard of each last.
Heard(scope) ==
    {j \in JobsOf(scope) : heard[j] # <<>> /\ heard[j][1].day \in scope.from..(scope.to - 1)}
Consumed(jobs) == MapThenSumSet(LAMBDA j : heard[j][Len(heard[j])].tokens, jobs)

\* Who reads is alone (a history variable) until a row it reads of is written.
Writes(r, j) ==
    req' = [q \in Requests |->
             IF q = r THEN Idle ELSE [req[q] EXCEPT !.alone = @ /\ j \notin JobsOf(req[q].scope)]]

\* Reports and decisions write nothing: one at a time stands for all of them.
MayRead(r) == At(r, "idle") /\ \A q \in Requests : req[q].at \in {"idle", "upsert"}

Reported(j) == usage[j] # NoUsage

-----------------------------------------------------------------------------
(* POST jobs/:jobId/usage, which the Orchestrator repeats when it restarts. *)

\* The provider is resolved again at every report, from models and picks that
\* may have been edited since the session ran (module ModelConfig); one that
\* cannot be resolved is None, and so is that of a job that runs no model.
ResolveUsageAttribution(r) ==
    /\ At(r, "idle") /\ posts < MaxPosts
    /\ posts' = posts + 1
    /\ \E j \in Jobs, tokens \in Amounts :
         \E name \in {None} \cup IF KindOf[j] = "agent" THEN Providers ELSE {} :
            Becomes(r, [Idle EXCEPT !.at = "upsert", !.of = j, !.tokens = tokens,
                              !.provider = name])
    /\ UNCHANGED <<day, usage, caps, heard>>

Accumulated(row, new) ==
    IF row = NoUsage THEN new ELSE [new EXCEPT !.day = row.day, !.tokens = row.tokens + @]

\* A repeated report replaces the figures; the day is that of the first.
Replaced(row, new) == IF row = NoUsage THEN new ELSE [new EXCEPT !.day = row.day]

Upsert(r) ==
    /\ At(r, "upsert")
    /\ usage' = [usage EXCEPT ![req[r].of] =
                    Replaced(@, [day |-> day, provider |-> req[r].provider,
                                 tokens |-> req[r].tokens])]
    /\ heard' = [heard EXCEPT ![req[r].of] =
                    Append(@, [day |-> day, tokens |-> req[r].tokens])]
    /\ Writes(r, req[r].of)
    /\ UNCHANGED <<day, caps, posts>>

-----------------------------------------------------------------------------
(* The reports. *)

\* What every query of a report reads.
RowsIn(scope, from, to) ==
    {j \in Jobs :
       /\ Reported(j)
       /\ OrganizationOf[ProjectOf[j]] = scope.organization
       /\ scope.project \in {None, ProjectOf[j]}
       /\ usage[j].day >= from /\ usage[j].day < to}

Rows(scope) == RowsIn(scope, scope.from, scope.to)
PreviousRows(scope) == RowsIn(scope, 2 * scope.from - scope.to, scope.from)

Tokens(rows) == MapThenSumSet(LAMBDA j : usage[j].tokens, rows)

Key(figure, j) ==
    CASE figure = "provider" -> usage[j].provider
      [] figure = "kind" -> KindOf[j]
      [] figure = "project" -> ProjectOf[j]
      [] figure = "model" -> <<ModelOf[j], usage[j].provider>>
      [] figure = "day" -> usage[j].day

Total(key, rows) == [key |-> key, tokens |-> Tokens(rows), sessions |-> Cardinality(rows)]

\* GROUP BY makes a group of the NULLs as well.
GroupBy(figure, rows) ==
    {Total(k, {j \in rows : Key(figure, j) = k}) : k \in {Key(figure, j) : j \in rows}}

Fewest(n) == IF n < RecentLimit THEN n ELSE RecentLimit

Latest(rows) ==
    CHOOSE some \in kSubset(Fewest(Cardinality(rows)), rows) :
        \A j \in some, k \in rows \ some : usage[j].day >= usage[k].day

Figure(figure, scope) ==
    CASE figure = "totals" -> {Total("current", Rows(scope)), Total("previous", PreviousRows(scope))}
      [] figure = "recent" -> {Total(j, {j}) : j \in Latest(Rows(scope))}
      [] OTHER -> GroupBy(figure, Rows(scope))

UsageFigures(project) ==
    {"totals", "provider", "kind"} \cup IF project = None THEN {"project"} ELSE {}
AnalyticsFigures(project) ==
    {"totals", "day", "kind", "model", "recent"} \cup IF project = None THEN {"project"} ELSE {}

\* The window ends with today.
ResolveUsageScope(organization, project, days) ==
    [organization |-> organization, project |-> project, from |-> day + 1 - days, to |-> day + 1]

GetReport(r) ==
    /\ MayRead(r)
    /\ \E o \in Organizations, days \in Windows :
       \E p \in {None} \cup {x \in Projects : OrganizationOf[x] = o} :
       \E figures \in {UsageFigures(p), AnalyticsFigures(p)} :
         LET scope == ResolveUsageScope(o, p, days)
         IN Becomes(r, [Idle EXCEPT !.at = "query", !.scope = scope, !.todo = figures,
                              !.alone = TRUE, !.before = Heard(scope)])
    /\ UNCHANGED <<day, usage, caps, heard, posts>>

Query(r) ==
    /\ At(r, "query")
    /\ \E figure \in req[r].todo :
         Becomes(r, [req[r] EXCEPT !.todo = @ \ {figure},
                        !.got = @ \cup {<<figure, Figure(figure, req[r].scope)>>}])
    /\ UNCHANGED <<day, usage, caps, heard, posts>>

Answered(r) ==
    /\ \/ At(r, "query") /\ req[r].todo = {}
       \/ At(r, "decided")
    /\ Ends(r)
    /\ UNCHANGED <<day, usage, caps, heard, posts>>

-----------------------------------------------------------------------------
(* The caps. *)

SetTokenCap(p) ==
    /\ \E cap \in Caps[p] \cup {None} : cap # caps[p] /\ caps' = [caps EXCEPT ![p] = cap]
    /\ req' = [q \in Requests |-> [req[q] EXCEPT !.alone = @ /\ req[q].of # p]]
    /\ UNCHANGED <<day, usage, heard, posts>>

MonthPeriod(d) == LET from == d - ((d - 1) % DaysPerMonth)
                  IN [from |-> from, to |-> from + DaysPerMonth]

\* GET token-cap, which the Orchestrator asks for a job of either kind.
FindTokenCap(r) ==
    /\ MayRead(r)
    /\ \E p \in Projects, kind \in {"agent", "script"} :
         Becomes(r, [Idle EXCEPT !.at = "used", !.of = p, !.provider = kind, !.cap = caps[p],
                           !.alone = TRUE, !.scope.organization = OrganizationOf[p],
                           !.scope.project = p])
    /\ UNCHANGED <<day, usage, caps, heard, posts>>

TokensUsedInPeriod(p, period) ==
    Tokens({j \in Jobs : /\ Reported(j) /\ ProjectOf[j] = p
                         /\ usage[j].day >= period.from /\ usage[j].day < period.to})

TokensUsed(r) ==
    /\ At(r, "used")
    /\ LET month == MonthPeriod(day)
       IN Becomes(r, [req[r] EXCEPT !.at = "decided", !.scope.from = month.from,
                         !.scope.to = month.to, !.tokens = TokensUsedInPeriod(req[r].of, month)])
    /\ UNCHANGED <<day, usage, caps, heard, posts>>

Exceeds(cap, used) == cap # None /\ used >= cap

Allowed(r) == req[r].provider # "agent" \/ ~Exceeds(req[r].cap, req[r].tokens)

-----------------------------------------------------------------------------
DayPasses ==
    /\ day < MaxDay /\ day' = day + 1
    /\ UNCHANGED <<usage, caps, req, heard, posts>>

Next ==
    \/ DayPasses
    \/ \E p \in Projects : SetTokenCap(p)
    \/ \E r \in Requests :
         \/ ResolveUsageAttribution(r) \/ Upsert(r)
         \/ GetReport(r) \/ Query(r)
         \/ FindTokenCap(r) \/ TokensUsed(r)
         \/ Answered(r)

Spec == Init /\ [][Next]_vars
-----------------------------------------------------------------------------
(* Properties *)

Reports(r, figure) == \E got \in req[r].got : got[1] = figure
Got(r, figure) == (CHOOSE got \in req[r].got : got[1] = figure)[2]
Current(r) == CHOOSE g \in Got(r, "totals") : g.key = "current"

TokensIn(groups) == MapThenSumSet(LAMBDA g : g.tokens, groups)
SessionsIn(groups) == MapThenSumSet(LAMBDA g : g.sessions, groups)

\* The headline of a report is what the jobs of its organization, or its project,
\* consumed that were first heard of in its window, each once and by what was heard
\* of it last; and whatever part of the report a reader adds up, providers, kinds,
\* projects, models or days, gives that, in tokens and in sessions: when no job of
\* it was reported while its queries ran, whatever else happened.
ReportAddsUp ==
    \A r \in Requests :
        At(r, "query") /\ req[r].todo = {} /\ req[r].alone =>
            LET sessions == Heard(req[r].scope)
            IN /\ Current(r).sessions = Cardinality(sessions)
               /\ Current(r).tokens = Consumed(sessions)
               /\ \A figure \in {"provider", "kind", "project", "model", "day"} :
                    Reports(r, figure) =>
                       /\ TokensIn(Got(r, figure)) = Consumed(sessions)
                       /\ SessionsIn(Got(r, figure)) = Cardinality(sessions)
               /\ Reports(r, "recent") =>
                    Cardinality(Got(r, "recent")) = Fewest(Cardinality(sessions))

SessionsOf(answer) ==
    IF answer[1] = "totals" THEN (CHOOSE g \in answer[2] : g.key = "current").sessions
    ELSE SessionsIn(answer[2])

\* Whatever is reported while a report's queries run, none of them misses a session
\* that was there when it was asked for, or has one that is not there yet: not when
\* one is reported again on a later day, which its window does not reach.
NoneMissed ==
    \A r \in Requests : At(r, "query") /\ req[r].todo = {} =>
        \A got \in req[r].got : got[1] # "recent" =>
            SessionsOf(got) \in Cardinality(req[r].before)..Cardinality(Heard(req[r].scope))

\* What the Orchestrator is told of a cap is what the project's jobs consumed in the
\* month of the decision, as a report of it shows, unless one was reported or the
\* cap was set meanwhile: a job that consumes tokens starts only while that is below
\* the cap, so not at all under a cap of zero.
CapAgrees ==
    \A r \in Requests :
        At(r, "decided") /\ req[r].alone =>
            LET cap == caps[req[r].of]
            IN Allowed(r) <=> \/ req[r].provider = "script"
                              \/ cap = None \/ Consumed(Heard(req[r].scope)) < cap

\* Whoever is told what was consumed is told what was reported.
FiguresAgree == ReportAddsUp /\ NoneMissed /\ CapAgrees

-----------------------------------------------------------------------------
(* What the code does not promise; no run checks it: a decision is one of    *)
(* the past when the job starts, and two jobs are told at once.              *)

CapKept == \A p \in Projects : caps[p] # None => TokensUsedInPeriod(p, MonthPeriod(day)) <= caps[p]
=============================================================================
