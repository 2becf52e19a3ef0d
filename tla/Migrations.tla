----------------------------- MODULE Migrations -----------------------------
(***************************************************************************)
(* Replicas that boot, migrate the database one at a time and then serve   *)
(* (db/migrate.ts, index.ts).                                              *)
(*                                                                         *)
(* The advisory lock belongs to a database session, and a session outlives *)
(* a process that was killed: its last statement may still run to the end  *)
(* and its lock is held until the server notices.  `lock` is the replica   *)
(* whose live session holds it, or Dead.                                   *)
(***************************************************************************)
EXTENDS Integers, Sequences, FiniteSets, SequencesExt

CONSTANTS
    Replicas,
    Files,        \* Files[r]: migration files of r's image, numbered in sorted order
    Once,         \* those whose SQL fails where it has already been applied
    MaxTries,     \* attempts before MIGRATION_LOCK_TIMEOUT_MS is over
    Free, Dead,   \* the lock's other values
    MaxCrashes    \* bound: replicas killed, statements failed

VARIABLES
    boot,         \* boot[r]: where runMigrations is, with `todo` files to apply
    lock,
    late,         \* the statement a dead session may still complete
    applied,      \* every file's SQL that was committed, in order
    ledger,       \* schema_migrations
    crashes

migrationVars == <<boot, lock, late, applied, ledger, crashes>>

Down == [at |-> "down", tries |-> 0, todo |-> {}]
Nothing == [at |-> "none"]

MigrationsInit ==
    /\ boot = [r \in Replicas |-> Down]
    /\ lock = Free
    /\ late = Nothing
    /\ applied = <<>>
    /\ ledger = {}
    /\ crashes = 0

Goes(r, at) == boot' = [boot EXCEPT ![r].at = at]

\* The process exits, or its pod is replaced; main() starts from the beginning.
Exits(r) == boot' = [boot EXCEPT ![r] = Down]

AbandonedAtOnce(r) == IF lock = r THEN Free ELSE lock

\* The lock of a session whose client is gone.
Abandoned(r) == IF lock = r THEN Dead ELSE lock

Starts(r) ==
    /\ boot[r].at = "down"
    /\ Goes(r, "waiting")
    /\ UNCHANGED <<lock, late, applied, ledger, crashes>>

Acquires(r) ==
    /\ boot[r].at = "waiting" /\ lock = Free
    /\ lock' = r
    /\ Goes(r, "list")
    /\ UNCHANGED <<late, applied, ledger, crashes>>

\* pg_try_advisory_lock fails: sleep and try again, up to the deadline.
Waits(r) ==
    /\ boot[r].at = "waiting" /\ lock # Free
    /\ IF boot[r].tries < MaxTries
       THEN boot' = [boot EXCEPT ![r].tries = @ + 1]
       ELSE Exits(r)
    /\ UNCHANGED <<lock, late, applied, ledger, crashes>>

Pending(r) == Files[r] \ ledger

\* They are applied in the order of their names.
NextFile(r) == Min(boot[r].todo)

\* CREATE TABLE IF NOT EXISTS and the read of the ledger, under the lock.
ReadsLedger(r) ==
    /\ boot[r].at = "list"
    /\ boot' = [boot EXCEPT ![r].todo = Pending(r),
                            ![r].at = IF Files[r] \subseteq ledger THEN "unlock" ELSE "apply"]
    /\ UNCHANGED <<lock, late, applied, ledger, crashes>>

\* A constraint is added that is there: nothing of the file is applied.
Refused(file) == file \in Once \cap Range(applied)

Applies(r) ==
    /\ boot[r].at = "apply" /\ ~Refused(NextFile(r))
    /\ applied' = Append(applied, NextFile(r))
    /\ Goes(r, "record")
    /\ UNCHANGED <<lock, late, ledger, crashes>>

\* The pass throws and its connection is destroyed, on every boot.
ApplyIsRefused(r) ==
    /\ boot[r].at = "apply" /\ Refused(NextFile(r))
    /\ Exits(r)
    /\ lock' = Abandoned(r)
    /\ UNCHANGED <<late, applied, ledger, crashes>>

\* The INSERT: a name recorded twice would fail on the primary key.
Records(r) ==
    /\ boot[r].at = "record"
    /\ ledger' = ledger \cup {NextFile(r)}
    /\ boot' = [boot EXCEPT ![r].todo = @ \ {NextFile(r)},
                            ![r].at = IF boot[r].todo = {NextFile(r)} THEN "unlock" ELSE "apply"]
    /\ UNCHANGED <<lock, late, applied, crashes>>

Unlocks(r) ==
    /\ boot[r].at = "unlock"
    /\ lock' = Free
    /\ Goes(r, "serving")
    /\ UNCHANGED <<late, applied, ledger, crashes>>

UnlockFailsToPool(r) ==
    /\ boot[r].at = "unlock" /\ crashes < MaxCrashes
    /\ Goes(r, "serving")
    /\ crashes' = crashes + 1
    /\ UNCHANGED <<lock, late, applied, ledger>>

\* safeUnlock reports false and the connection is destroyed; the replica serves.
UnlockFails(r) ==
    /\ boot[r].at = "unlock" /\ crashes < MaxCrashes
    /\ lock' = Dead
    /\ Goes(r, "serving")
    /\ crashes' = crashes + 1
    /\ UNCHANGED <<late, applied, ledger>>

\* A statement fails; the pass throws and its connection is destroyed.
PassFails(r) ==
    /\ boot[r].at \in {"list", "apply", "record"} /\ crashes < MaxCrashes
    /\ Exits(r)
    /\ lock' = Abandoned(r)
    /\ crashes' = crashes + 1
    /\ UNCHANGED <<late, applied, ledger>>

\* The process is killed, between statements or with one under way.
Killed(r) ==
    /\ boot[r].at # "down" /\ crashes < MaxCrashes
    /\ Exits(r)
    /\ lock' = Abandoned(r)
    /\ late' \in {late} \cup
                 (IF boot[r].at \in {"apply", "record"}
                  THEN {[at |-> boot[r].at, file |-> NextFile(r)]} ELSE {})
    /\ crashes' = crashes + 1
    /\ UNCHANGED <<applied, ledger>>

\* The server completes what a dead client asked for.
CompletesLate ==
    /\ late # Nothing
    /\ applied' = IF late.at = "apply" /\ ~Refused(late.file)
                  THEN Append(applied, late.file) ELSE applied
    /\ ledger' = IF late.at = "record" THEN ledger \cup {late.file} ELSE ledger
    /\ late' = Nothing
    /\ UNCHANGED <<boot, lock, crashes>>

\* The server notices that the client is gone; it does so only between statements.
SessionEnds ==
    /\ lock = Dead /\ late = Nothing
    /\ lock' = Free
    /\ UNCHANGED <<boot, late, applied, ledger, crashes>>

Migrates(r) ==
    \/ Starts(r) \/ Acquires(r) \/ Waits(r) \/ ReadsLedger(r)
    \/ Applies(r) \/ ApplyIsRefused(r) \/ Records(r) \/ Unlocks(r)

Serving(r) == boot[r].at = "serving"

\* A file of r's image that can be applied only once was, and is not recorded.
Stuck(r) == \E file \in Files[r] \ ledger : Refused(file)

-----------------------------------------------------------------------------
(* Properties. *)

MigrationsTypeOK ==
    /\ boot \in
         [Replicas ->
            [at : {"down", "waiting", "list", "apply", "record", "unlock", "serving"},
             tries : 0..MaxTries, todo : SUBSET Nat]]
    /\ lock \in Replicas \cup {Free, Dead}
    /\ late \in {Nothing} \cup [at : {"apply", "record"}, file : Nat]
    /\ applied \in Seq(Nat)
    /\ ledger \subseteq Nat
    /\ crashes \in 0..MaxCrashes

\* No boot dies on schema_migrations_pkey: a name is inserted only if no other
\* replica, living or dead, has inserted it or still will (migrate.ts:164-171).
RecordedOnce ==
    \A r \in Replicas : boot[r].at = "record" =>
      /\ NextFile(r) \notin ledger
      /\ late = Nothing

\* A file is run again only while it is the newest that ran: an earlier, narrower
\* list is never replayed over rows a later one allowed (migrate.ts:277-285).
ReplaysOnlyNewest ==
    \A i, j \in DOMAIN applied : i < j => applied[i] <= applied[j]

\* A replica that serves has every migration of its image (index.ts:29-33).
ServingIsMigrated ==
    \A r \in Replicas : Serving(r) => Files[r] \subseteq Range(applied)
=============================================================================
