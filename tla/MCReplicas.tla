------------------------------ MODULE MCReplicas ------------------------------
(* Two replicas, two tests; the window of time holds a change of offset.     *)
EXTENDS Replicas

CONSTANTS r1, r2

MCReplicaSet == {r1, r2}

\* r2's image is one migration ahead of r1's.
MCFiles == (r1 :> {1}) @@ (r2 :> {1, 2})
MCOnce == {2}

All(low, high) == {[low |-> low, high |-> high, step |-> 1]}
Value(v) == {[low |-> v, high |-> v, step |-> 1]}

Daily(slots) == [slots |-> slots, daysOfMonth |-> All(1, DaysPerMonth),
                 months |-> All(1, MonthsPerYear), daysOfWeek |-> All(0, DaysPerWeek)]

SpringForward == [winter |-> 0, summer |-> 1, from |-> 14, until |-> 100]
FallBack == [winter |-> 0, summer |-> 1, from |-> 0, until |-> 14]

EverySlot == [expression |-> Daily({[low |-> 0, high |-> 3, step |-> 1]}), zone |-> UTC]
OnEitherDay(slot) ==
    [Daily(Value(slot)) EXCEPT !.daysOfMonth = Value(1), !.daysOfWeek = Value(1)]
RepeatedSlot == [expression |-> OnEitherDay(2), zone |-> FallBack]

MCSchedules == {EverySlot, RepeatedSlot}
MCFirstSchedule == <<EverySlot, RepeatedSlot>>

MCProbed ==
    [expression : {Daily(Value(s)) : s \in 0..3} \cup {OnEitherDay(s) : s \in 0..3} \cup
                  {Daily({[low |-> 0, high |-> 3, step |-> 1]}),
                   Daily({[low |-> 1, high |-> 3, step |-> 2]}),
                   [Daily(Value(2)) EXCEPT !.daysOfMonth = Value(3)],
                   [Daily(Value(0)) EXCEPT !.daysOfWeek = Value(DaysPerWeek)],
                   [Daily(Value(1)) EXCEPT !.months = Value(2)]},
     zone : {UTC, SpringForward, FallBack}]
=============================================================================
