-------------------------------- MODULE Cron --------------------------------
(***************************************************************************)
(* When a schedule last came due (scheduling/cron.ts, scheduling/          *)
(* timezone.ts).                                                           *)
(*                                                                         *)
(* An instant is an integer number of slots.  A day has SlotsPerDay of     *)
(* them, which stand for the minutes of 24 hours; the calendar is cut down *)
(* likewise.  A zone is its offset from UTC, which is `summer` from one    *)
(* instant until another and `winter` otherwise.                           *)
(***************************************************************************)
EXTENDS Integers, FiniteSets, FiniteSetsExt

CONSTANTS
    SlotsPerDay, DaysPerWeek, DaysPerMonth, MonthsPerYear,
    MaxLookbackDays,   \* MAX_LOOKBACK_DAYS
    None               \* null: no such time

ASSUME CalendarAssumption ==
    /\ SlotsPerDay \in Nat \ {0} /\ DaysPerWeek \in Nat \ {0}
    /\ DaysPerMonth \in Nat \ {0} /\ MonthsPerYear \in Nat \ {0}
    /\ MaxLookbackDays \in Nat

SlotOfDay == 0..SlotsPerDay - 1

-----------------------------------------------------------------------------
(* Expressions.  A field is the set of its elements [low, high, step]: a     *)
(* value alone is a range of itself, a value with a step one up to the       *)
(* maximum, `*` the whole range.                                             *)

ParseField(elements) ==
    UNION {{v \in e.low..e.high : (v - e.low) % e.step = 0} : e \in elements}

ParseCron(e) ==
    [slots       |-> ParseField(e.slots),
     daysOfMonth |-> ParseField(e.daysOfMonth),
     months      |-> ParseField(e.months),
     \* 0 and the last value both name the first day of the week
     daysOfWeek  |-> {v % DaysPerWeek : v \in ParseField(e.daysOfWeek)},
     dayOfMonthRestricted |-> e.daysOfMonth # {[low |-> 1, high |-> DaysPerMonth, step |-> 1]},
     dayOfWeekRestricted  |-> e.daysOfWeek # {[low |-> 0, high |-> DaysPerWeek, step |-> 1]}]

DayOfMonth(day) == (day % DaysPerMonth) + 1
Month(day) == ((day \div DaysPerMonth) % MonthsPerYear) + 1
DayOfWeek(day) == day % DaysPerWeek

\* Two restricted day fields are an OR, as in Vixie's cron.
DayMatches(f, day) ==
    /\ Month(day) \in f.months
    /\ IF f.dayOfMonthRestricted /\ f.dayOfWeekRestricted
       THEN DayOfMonth(day) \in f.daysOfMonth \/ DayOfWeek(day) \in f.daysOfWeek
       ELSE /\ f.dayOfMonthRestricted => DayOfMonth(day) \in f.daysOfMonth
            /\ f.dayOfWeekRestricted => DayOfWeek(day) \in f.daysOfWeek

-----------------------------------------------------------------------------
(* Zones. *)

UTC == [winter |-> 0, summer |-> 0, from |-> 0, until |-> 0]

ZoneOffset(zone, instant) ==
    IF zone.from <= instant /\ instant < zone.until THEN zone.summer ELSE zone.winter

WallClock(zone, instant) ==
    LET local == instant + ZoneOffset(zone, instant) IN
      [day |-> local \div SlotsPerDay, slot |-> local % SlotsPerDay]

SlotOf(wall) == wall.day * SlotsPerDay + wall.slot

\* What is taken for granted of a zone: offsets and their change are a day at most,
\* changes are more than two days apart, and none puts the clock back to the day before.
PlainZone(zone) ==
    LET Day == -SlotsPerDay .. SlotsPerDay IN
    /\ zone.winter \in Day /\ zone.summer \in Day /\ zone.summer - zone.winter \in Day
    /\ zone.from < zone.until =>
         /\ zone.until - zone.from > 2 * SlotsPerDay
         /\ \A t \in {zone.from, zone.until} :
              WallClock(zone, t - 1).day <= WallClock(zone, t).day

ResolvedByOffset(zone, wall) == SlotOf(wall) - ZoneOffset(zone, SlotOf(wall))

\* The offsets a day before and a day after are tried; of two instants with this
\* wall time the earlier is taken, and a skipped wall time has none.
ResolveWallTime(zone, wall) ==
    LET before == SlotOf(wall) - ZoneOffset(zone, SlotOf(wall) - SlotsPerDay)
        after  == SlotOf(wall) - ZoneOffset(zone, SlotOf(wall) + SlotsPerDay)
        exact  == {i \in {before, after} : WallClock(zone, i) = wall} IN
      IF exact = {} THEN None ELSE Min(exact)

-----------------------------------------------------------------------------
(* Occurrences. *)

LatestOrNone(instants) == IF instants = {} THEN None ELSE Max(instants)

\* Days are walked back from today, and today's slots only up to now.
PreviousOccurrence(f, at) ==
    LET today == at \div SlotsPerDay IN
      LatestOrNone({i \in (today - MaxLookbackDays) * SlotsPerDay .. at :
                      /\ DayMatches(f, i \div SlotsPerDay)
                      /\ i % SlotsPerDay \in f.slots})

\* Local days are walked back, the latest wall time first: the first that names
\* an instant not after now is the answer.
PreviousOccurrenceInTimeZone(f, at, zone) ==
    LET today == WallClock(zone, at).day
        days  == {d \in today - MaxLookbackDays .. today : DayMatches(f, d)}
        walls == {w \in [day : days, slot : f.slots] :
                    /\ ResolveWallTime(zone, w) # None
                    /\ ResolveWallTime(zone, w) <= at} IN
      IF zone = UTC THEN PreviousOccurrence(f, at)
      ELSE IF walls = {} THEN None
      ELSE ResolveWallTime(zone, CHOOSE w \in walls : \A v \in walls : SlotOf(v) <= SlotOf(w))

\* Due when the latest occurrence is later than the last run, or than the test's
\* creation if it never ran: a backlog of occurrences is caught up with once.
IsDueForSchedule(previous, lastRunAt, createdAt) ==
    LET reference == IF lastRunAt = None THEN createdAt ELSE lastRunAt IN
      previous # None /\ previous > reference

-----------------------------------------------------------------------------
(* The reference: the latest instant whose wall time in the zone matches, the  *)
(* second reading of a repeated wall time not counted.                         *)

Repeats(zone, i) ==
    \E j \in i - SlotsPerDay .. i - 1 : WallClock(zone, j) = WallClock(zone, i)

LatestMatching(f, at, zone) ==
    LET today == WallClock(zone, at).day IN
      LatestOrNone({i \in at - (MaxLookbackDays + 2) * SlotsPerDay .. at :
        /\ ~Repeats(zone, i)
        /\ WallClock(zone, i).day >= today - MaxLookbackDays
        /\ WallClock(zone, i).slot \in f.slots
        /\ DayMatches(f, WallClock(zone, i).day)})
=============================================================================
