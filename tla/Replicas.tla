------------------------------- MODULE Replicas -------------------------------
(***************************************************************************)
(* The processes of a deployment: each migrates, then serves and ticks     *)
(* (index.ts).  A process that is killed takes its tick with it.           *)
(***************************************************************************)
EXTENDS Scheduler

CONSTANTS
    Files, Once, MaxTries, MaxCrashes,
    MaxDisturbances   \* bound: edits, failures and kills together

ASSUME FilesAssumption == Files \in [Replicas -> SUBSET (Nat \ {0})]
ASSUME ReplicasAssumption ==
    MaxTries \in Nat /\ MaxCrashes \in Nat /\ MaxDisturbances \in Nat

VARIABLES boot, lock, late, applied, ledger, crashes

M == INSTANCE Migrations

migrationVars == <<boot, lock, late, applied, ledger, crashes>>
vars == <<schedulerVars, migrationVars>>

Init == SchedulerInit /\ M!MigrationsInit

Calm == edits + aborts + crashes < MaxDisturbances

Boots(r) == M!Migrates(r) /\ UNCHANGED schedulerVars

BootFails(r) == Calm /\ (M!UnlockFails(r) \/ M!PassFails(r)) /\ UNCHANGED schedulerVars

\* The ticker starts when runMigrations has returned.
Serves(r) == M!Serving(r) /\ Ticks(r) /\ UNCHANGED migrationVars

TickFails(r) == Calm /\ TickRollsBack(r) /\ UNCHANGED migrationVars

Crashes(r) == Calm /\ M!Killed(r) /\ TickDies(r)

Database ==
    \/ (M!CompletesLate \/ M!SessionEnds) /\ UNCHANGED schedulerVars
    \/ DeadTickEnds /\ UNCHANGED migrationVars

Outside ==
    /\ TimePasses \/ (Calm /\ Users)
    /\ UNCHANGED migrationVars

Next ==
    \/ \E r \in Replicas : Boots(r) \/ BootFails(r) \/ Serves(r) \/ TickFails(r) \/ Crashes(r)
    \/ Database
    \/ Outside

Spec == Init /\ [][Next]_vars

\* Statements return, the interval fires again, the server ends the sessions of
\* dead clients, and a replica that exits is started again.  The lock is free most
\* of the time, also while a replica that cannot boot is restarted over and over
\* (its passes are short, its restarts back off): a replica is started, and tries,
\* again and again while it is free.
Fairness ==
    /\ \A r \in Replicas :
         /\ WF_vars(Boots(r)) /\ WF_vars(Serves(r))
         /\ SF_vars(M!Acquires(r) /\ UNCHANGED schedulerVars)
         /\ SF_vars(M!Starts(r) /\ lock = Free /\ UNCHANGED schedulerVars)
    /\ WF_vars(M!CompletesLate /\ UNCHANGED schedulerVars)
    /\ WF_vars(M!SessionEnds /\ UNCHANGED schedulerVars)
    /\ WF_vars(DeadTickEnds /\ UNCHANGED migrationVars)

FairSpec == Spec /\ Fairness

-----------------------------------------------------------------------------
(* Properties. *)

\* The values of every variable, the late statement of a dead session included.
TypeOK == SchedulerTypeOK /\ M!MigrationsTypeOK

\* No boot dies on schema_migrations_pkey, and a file is run again only while it is
\* the newest that ran: an earlier, narrower list is never replayed over rows that a
\* later one allowed (migrate.ts:164-171, 277-285).
MigrationsSafe == M!RecordedOnce /\ M!ReplaysOnlyNewest

\* Whoever dies, holding the lock or not, every replica serves in the end with the
\* migrations of its image applied (migrate.ts:109-158, index.ts:29-33), unless a
\* process died between a file that cannot be applied twice and its ledger row
\* (migrate.ts:294-295; migrations 015 and 056): then no replica whose image has
\* that file boots again, and only those.
AllServe ==
    \A r \in Replicas :
      \/ <>[](M!Serving(r) /\ Files[r] \subseteq ledger)
      \/ <>[](M!Stuck(r) /\ crashes > 0)
=============================================================================
