------------------------------ MODULE Scheduler ------------------------------
(***************************************************************************)
(* Ticks that dispatch scheduled test runs, one ticker per replica         *)
(* (scheduling/scheduler.ts, scheduling/repository.ts).                    *)
(*                                                                         *)
(* A tick is one transaction: its candidate query locks rows, skips those  *)
(* another transaction holds, and the jobs it inserts commit together with *)
(* last_run_at.  A transaction whose process was killed keeps its locks    *)
(* until the server notices.  Everything is judged at the instant the tick *)
(* began.                                                                  *)
(***************************************************************************)
EXTENDS Cron, Sequences, SequencesExt

CONSTANTS
    Replicas,
    Tests,               \* numbered in the order of their ids
    Schedules,           \* the (expression, zone) pairs users choose from
    FirstSchedule,       \* the one each test is created with
    Probed,              \* pairs whose arithmetic OccurrenceIsLatest compares
    MaxCandidatesPerTick,
    Free, Dead,          \* a row lock's values other than a replica
    Start, MaxTime,      \* bound: the instants of a behaviour
    MaxEdits, MaxAborts  \* bound: user changes; ticks that fail

ASSUME SchedulerAssumption ==
    /\ Tests \subseteq Int /\ Start \in Nat /\ MaxTime \in Nat
    /\ MaxCandidatesPerTick \in Nat \ {0}
    /\ Replicas \cap {Free, Dead} = {} /\ Free # Dead
    /\ None \notin Int
    /\ FirstSchedule \in [Tests -> Schedules]
    /\ Schedules \subseteq Probed
    /\ Start <= MaxTime

\* parseCron refuses a value outside its field and a step of 0.
ASSUME ProbedAssumption ==
    \A s \in Probed :
      /\ s.zone \in [winter : Int, summer : Int, from : Int, until : Int]
      /\ s.expression.slots \subseteq [low : SlotOfDay, high : SlotOfDay, step : Nat \ {0}]

ASSUME ZonesAssumption == \A s \in Probed : PlainZone(s.zone)

VARIABLES
    clock,
    tests,       \* the rows: enabled, schedule, lastRun, created
    warned,      \* tests whose project carries a warning flag
    rowLock,
    tick,        \* tick[r]: the transaction of r's ticker
    fired,       \* fired[t]: t's committed scheduled runs: for which occurrence, and when
    edits, aborts

schedulerVars == <<clock, tests, warned, rowLock, tick, fired, edits, aborts>>

Idle == [at |-> "idle", now |-> Start, due |-> {}]

SchedulerInit ==
    /\ clock = Start
    /\ tests = [t \in Tests |-> [enabled |-> TRUE, schedule |-> FirstSchedule[t],
                                 lastRun |-> None, created |-> Start]]
    /\ warned = {}
    /\ rowLock = [t \in Tests |-> Free]
    /\ tick = [r \in Replicas |-> Idle]
    /\ fired = [t \in Tests |-> <<>>]
    /\ edits = 0 /\ aborts = 0

\* f: TLC tabulates a function, once, when it compares it.
Tabulated(f) == CHOOSE g \in {f} : g = f

Occurrences ==
    Tabulated([x \in Probed \X (Start..MaxTime) |->
        PreviousOccurrenceInTimeZone(ParseCron(x[1].expression), x[2], x[1].zone)])

Occurrence(t, now) == Occurrences[tests[t].schedule, now]

IsDue(t, now) == IsDueForSchedule(Occurrence(t, now), tests[t].lastRun, tests[t].created)

\* Never-run tests first, then the one that waited longest, then by id.
Before(a, b) ==
    LET run(t) == IF tests[t].lastRun = None THEN -1 ELSE tests[t].lastRun IN
      run(a) < run(b) \/ (run(a) = run(b) /\ a < b)

OfferedLockedToo(now) ==
    {t \in Tests : tests[t].enabled /\ (tests[t].lastRun = None \/ tests[t].lastRun < now)}

Offered(now) ==
    {t \in Tests : /\ tests[t].enabled
                   /\ tests[t].lastRun = None \/ tests[t].lastRun < now
                   /\ rowLock[t] = Free}

ListCandidates(now) ==
    {t \in Offered(now) :
        Cardinality({u \in Offered(now) : Before(u, t)}) < MaxCandidatesPerTick}

TickStarts(r) ==
    /\ tick[r].at = "idle"
    /\ tick' = [tick EXCEPT ![r] = [at |-> "begun", now |-> clock, due |-> {}]]
    /\ UNCHANGED <<clock, tests, warned, rowLock, fired, edits, aborts>>

\* The warning flags are read here; projects are joined, not locked.
TickLists(r) ==
    LET found == ListCandidates(tick[r].now) IN
    /\ tick[r].at = "begun"
    /\ rowLock' = [t \in Tests |-> IF t \in found THEN r ELSE rowLock[t]]
    /\ tick' = [tick EXCEPT ![r].at = "listed",
                            ![r].due = {t \in found \ warned : IsDue(t, tick[r].now)}]
    /\ UNCHANGED <<clock, tests, warned, fired, edits, aborts>>

Unlocked(r) == [t \in Tests |-> IF rowLock[t] = r THEN Free ELSE rowLock[t]]

Fired(t, now) == Append(fired[t], [occurrence |-> Occurrence(t, now), at |-> now])

TickCommitsSkipped(r) ==
    LET now == tick[r].now  due == tick[r].due IN
    /\ tick[r].at = "listed"
    /\ tests' = [t \in Tests |-> IF rowLock[t] = r /\ IsDue(t, now)
                                 THEN [tests[t] EXCEPT !.lastRun = now] ELSE tests[t]]
    /\ fired' = [t \in Tests |-> IF t \in due THEN Fired(t, now) ELSE fired[t]]
    /\ rowLock' = Unlocked(r)
    /\ tick' = [tick EXCEPT ![r] = Idle]
    /\ UNCHANGED <<clock, warned, edits, aborts>>

\* dispatchScheduledRun and markScheduledAt for every due test, and COMMIT.
TickCommits(r) ==
    LET now == tick[r].now  due == tick[r].due IN
    /\ tick[r].at = "listed"
    /\ tests' = [t \in Tests |-> IF t \in due THEN [tests[t] EXCEPT !.lastRun = now] ELSE tests[t]]
    /\ fired' = [t \in Tests |-> IF t \in due THEN Fired(t, now) ELSE fired[t]]
    /\ rowLock' = Unlocked(r)
    /\ tick' = [tick EXCEPT ![r] = Idle]
    /\ UNCHANGED <<clock, warned, edits, aborts>>

\* A statement fails and the catch block rolls back; the interval goes on.
TickRollsBack(r) ==
    /\ tick[r].at # "idle" /\ aborts < MaxAborts
    /\ rowLock' = Unlocked(r)
    /\ tick' = [tick EXCEPT ![r] = Idle]
    /\ aborts' = aborts + 1
    /\ UNCHANGED <<clock, tests, warned, fired, edits>>

\* What the end of r's process does to its tick: nothing is committed, and the
\* rows stay locked by the session it leaves.
TickDies(r) ==
    /\ rowLock' = [t \in Tests |-> IF rowLock[t] = r THEN Dead ELSE rowLock[t]]
    /\ tick' = [tick EXCEPT ![r] = Idle]
    /\ UNCHANGED <<clock, tests, warned, fired, edits, aborts>>

DeadTickEnds ==
    /\ \E t \in Tests : rowLock[t] = Dead
    /\ rowLock' = [t \in Tests |-> IF rowLock[t] = Dead THEN Free ELSE rowLock[t]]
    /\ UNCHANGED <<clock, tests, warned, tick, fired, edits, aborts>>

TimePasses ==
    /\ clock < MaxTime
    /\ clock' = clock + 1
    /\ UNCHANGED <<tests, warned, rowLock, tick, fired, edits, aborts>>

\* PATCH of a test: it waits for a lock on the row, and leaves last_run_at alone.
\* The zone is the project's, whose row no tick locks; here both change at once.
EditTest(t) ==
    /\ edits < MaxEdits /\ rowLock[t] = Free
    /\ \E s \in Schedules, e \in BOOLEAN :
         /\ <<s, e>> # <<tests[t].schedule, tests[t].enabled>>
         /\ tests' = [tests EXCEPT ![t].schedule = s, ![t].enabled = e]
    /\ edits' = edits + 1
    /\ UNCHANGED <<clock, warned, rowLock, tick, fired, aborts>>

WarningFlips(t) ==
    /\ edits < MaxEdits
    /\ warned' = IF t \in warned THEN warned \ {t} ELSE warned \cup {t}
    /\ edits' = edits + 1
    /\ UNCHANGED <<clock, tests, rowLock, tick, fired, aborts>>

Ticks(r) == TickStarts(r) \/ TickLists(r) \/ TickCommits(r)

Users == \E t \in Tests : EditTest(t) \/ WarningFlips(t)

-----------------------------------------------------------------------------
(* Properties. *)

SchedulerTypeOK ==
    /\ clock \in Start..MaxTime
    /\ tests \in [Tests -> [enabled : BOOLEAN, schedule : Schedules,
                            lastRun : Int \cup {None}, created : Int]]
    /\ warned \subseteq Tests
    /\ rowLock \in [Tests -> Replicas \cup {Free, Dead}]
    /\ tick \in [Replicas -> [at : {"idle", "begun", "listed"}, now : Start..MaxTime,
                              due : SUBSET Tests]]
    /\ \A r \in Replicas : \A t \in tick[r].due : rowLock[t] = r
    /\ fired \in [Tests -> Seq([occurrence : Int, at : Int])]

\* However many replicas tick, fall behind, fail or are killed, and however the
\* schedule is edited, no occurrence starts two runs of a test and none is
\* dispatched after a later one (scheduler.ts:15-28, cron.ts:363-368).
EachOccurrenceOnce ==
    \A t \in Tests : \A i, j \in DOMAIN fired[t] :
        i < j => fired[t][i].occurrence < fired[t][j].occurrence

AgreesAt ==
    Tabulated([at \in Start..MaxTime |-> \A s \in Probed :
        Occurrences[s, at] = LatestMatching(ParseCron(s.expression), at, s.zone)])

\* What is dispatched is the latest instant, in the project's own zone, whose wall
\* time the expression names: across a change of offset a skipped time does not
\* count and a repeated one counts once (cron.ts:243-266, timezone.ts:145-159).
OccurrenceIsLatest == AgreesAt[clock]

Overdue(t) ==
    LET o == Occurrence(t, clock) IN
      /\ tests[t].enabled /\ t \notin warned
      /\ o # None /\ o > tests[t].created
      /\ \A i \in DOMAIN fired[t] : o > fired[t][i].at

\* A test with an occurrence since its last run, on a project that can run it, gets
\* its run, also when ticks fail, die, or skipped it while a warning stood or its
\* row was locked (scheduler.ts:78-86,168-171).
DueIsDispatched == \A t \in Tests : Overdue(t) ~> ~Overdue(t)
=============================================================================
