---------------------------- MODULE Replicas_proofs ----------------------------
(***************************************************************************)
(* What holds of any number of replicas that migrate, serve and tick,      *)
(* whichever of them fail or are killed.                                   *)
(***************************************************************************)
EXTENDS Replicas, WellFoundedInduction, TLAPS

-----------------------------------------------------------------------------
(* Least and greatest elements. *)

\* A set of numbers has a least element.
LEMMA NatMin ==
    ASSUME NEW T \in SUBSET Nat, T # {}
    PROVE  Min(T) \in T /\ \A t \in T : Min(T) <= t
<1> DEFINE Less == OpToRel(<, Nat)
<1>1. Less = {ss \in Nat \X Nat : ss[1] < ss[2]}
  BY Zenon DEF OpToRel
<1>2. IsWellFoundedOn(Less, Nat)
  BY NatLessThanWellFounded
<1> HIDE DEF Less
<1>3. PICK x \in T : \A y \in T : ~(<<y, x>> \in Less)
  BY <1>2, WFMin
<1>4. \A y \in T : x <= y
  <2> SUFFICES ASSUME NEW y \in T, y < x
               PROVE  FALSE
    OBVIOUS
  <2> DEFINE pair == <<y, x>>
  <2>1. pair \in Nat \X Nat /\ pair[1] = y /\ pair[2] = x
    OBVIOUS
  <2> HIDE DEF pair
  <2>2. pair \in Less
    BY <1>1, <2>1
  <2> QED BY <1>3, <2>2 DEF pair
<1> QED BY <1>4 DEF Min

\* A set of integers with an upper bound has a greatest element.
LEMMA IntMax ==
    ASSUME NEW T \in SUBSET Int, T # {}, NEW b \in Int, \A t \in T : t <= b
    PROVE  Max(T) \in T /\ \A t \in T : t <= Max(T)
<1> DEFINE U == {b - t : t \in T}
<1>1. U \in SUBSET Nat /\ U # {}
  <2>1. \A t \in T : t \in Int /\ t <= b /\ b - t \in Nat
    OBVIOUS
  <2>2. PICK t \in T : TRUE
    OBVIOUS
  <2>3. b - t \in U
    OBVIOUS
  <2> QED BY <2>1, <2>3
<1>2. Min(U) \in U /\ \A u \in U : Min(U) <= u
  <2> HIDE DEF U
  <2> QED BY <1>1, NatMin
<1>3. PICK x \in T : Min(U) = b - x
  BY <1>2
<1>4. \A t \in T : Min(U) <= b - t
  BY <1>2, <1>3
<1>5. \A t \in T : t <= x
  BY <1>3, <1>4
<1> QED BY <1>5 DEF Max

-----------------------------------------------------------------------------
(* The migrations. *)

\* A replica that holds the lock, and knows it.
InPass(r) == boot[r].at \in {"list", "apply", "record", "unlock"}

PassInv(r) ==
    /\ InPass(r) <=> lock = r
    /\ boot[r].at \in {"apply", "record"} =>
         boot[r].todo # {} /\ boot[r].todo = Files[r] \ ledger
    /\ boot[r].at \in {"unlock", "serving"} => Files[r] \subseteq ledger
    /\ boot[r].at = "record" => M!NextFile(r) \in Range(applied)

\* A statement of a dead client is one that holds the lock, so that nobody who
\* reads the ledger does so before it is done.
MigrationsInv ==
    /\ M!MigrationsTypeOK
    /\ \A r \in Replicas : PassInv(r)
    /\ late # M!Nothing => lock = Dead
    /\ late.at = "record" => late.file \in Range(applied)
    /\ ledger \subseteq Range(applied)

Boot ==
    [at : {"down", "waiting", "list", "apply", "record", "unlock", "serving"},
     tries : 0..MaxTries, todo : SUBSET Nat]

\* What a step does to one replica's place.
BootBecomes(r, b) == b \in Boot /\ boot' = [boot EXCEPT ![r] = b]

LEMMA LocksDiffer == \A r \in Replicas : r # Free /\ r # Dead /\ Free # Dead
BY SchedulerAssumption

LEMMA DownType == M!Down \in Boot /\ M!Down.at = "down" /\ M!Down.todo = {}
BY ReplicasAssumption DEF M!Down, Boot

\* The files are those a replica has yet to apply, and the next is one of them.
LEMMA NextIsPending ==
    ASSUME MigrationsInv, NEW r \in Replicas, boot[r].at \in {"apply", "record"}
    PROVE  /\ M!NextFile(r) \in Files[r] \ ledger
           /\ \A f \in Files[r] \ ledger : M!NextFile(r) <= f
           /\ M!NextFile(r) \in Nat /\ lock = r /\ late = M!Nothing
<1>1. /\ boot[r].todo # {} /\ boot[r].todo = Files[r] \ ledger /\ lock = r
      /\ boot[r].todo \in SUBSET Nat
  BY DEF MigrationsInv, PassInv, InPass, M!MigrationsTypeOK
<1>2. late = M!Nothing
  BY <1>1, LocksDiffer DEF MigrationsInv
<1>3. M!NextFile(r) = Min(boot[r].todo)
  BY DEF M!NextFile, M!Min, Min
<1> QED BY <1>1, <1>2, <1>3, NatMin

\* Appending to what was applied keeps the rest of it.
LEMMA AppliedGrows ==
    ASSUME applied \in Seq(Nat), NEW f \in Nat, applied' = Append(applied, f)
    PROVE  /\ applied' \in Seq(Nat)
           /\ Range(applied') = Range(applied) \cup {f}
           /\ DOMAIN applied' = DOMAIN applied \cup {Len(applied) + 1}
           /\ \A i \in DOMAIN applied : applied'[i] = applied[i] /\ i < Len(applied) + 1
           /\ applied'[Len(applied) + 1] = f
BY DEF Range

\* A step of one replica that leaves the ledger alone.
LEMMA ReplicaMoves ==
    ASSUME MigrationsInv, NEW r \in Replicas, NEW b, BootBecomes(r, b),
           UNCHANGED ledger, applied' = applied \/ Range(applied) \subseteq Range(applied'),
           \A q \in Replicas \ {r} : lock' = q <=> lock = q,
           PassInv(r)'
    PROVE  (boot \in [Replicas -> Boot])' /\ \A q \in Replicas : PassInv(q)'
<1>1. boot \in [Replicas -> Boot]
  BY DEF MigrationsInv, M!MigrationsTypeOK, Boot
<1>2. \A q \in Replicas \ {r} : boot'[q] = boot[q]
  BY <1>1 DEF BootBecomes
<1>3. boot' \in [Replicas -> Boot]
  BY <1>1 DEF BootBecomes
<1> QED BY <1>2, <1>3 DEF MigrationsInv, PassInv, InPass, M!NextFile

LEMMA WaitingStep ==
    ASSUME MigrationsInv, NEW r \in Replicas, M!Starts(r) \/ M!Waits(r) \/ M!Acquires(r)
    PROVE  MigrationsInv'
<1>1. boot \in [Replicas -> Boot] /\ boot[r] \in Boot
  BY DEF MigrationsInv, M!MigrationsTypeOK, Boot
<1>2. PICK b : BootBecomes(r, b) /\ b.at \in {"down", "waiting", "list"}
                 /\ (b.at = "list" <=> M!Acquires(r))
  <2>1. CASE M!Starts(r)
    <3> DEFINE b == [boot[r] EXCEPT !.at = "waiting"]
    <3>1. boot' = [boot EXCEPT ![r] = b]
      BY <1>1, <2>1 DEF M!Starts, M!Goes
    <3>2. b \in Boot /\ b.at = "waiting" /\ ~M!Acquires(r)
      BY <1>1, <2>1 DEF Boot, M!Starts, M!Acquires
    <3> QED BY <3>1, <3>2 DEF BootBecomes
  <2>2. CASE M!Acquires(r)
    <3> DEFINE b == [boot[r] EXCEPT !.at = "list"]
    <3>1. boot' = [boot EXCEPT ![r] = b]
      BY <1>1, <2>2 DEF M!Acquires, M!Goes
    <3>2. b \in Boot /\ b.at = "list"
      BY <1>1 DEF Boot
    <3> QED BY <2>2, <3>1, <3>2 DEF BootBecomes
  <2>3. CASE M!Waits(r) /\ boot[r].tries < MaxTries
    <3> DEFINE b == [boot[r] EXCEPT !.tries = boot[r].tries + 1]
    <3>1. boot' = [boot EXCEPT ![r] = b]
      BY <1>1, <2>3 DEF M!Waits
    <3>2. b \in Boot /\ b.at = "waiting" /\ ~M!Acquires(r)
      BY <1>1, <2>3, ReplicasAssumption DEF Boot, M!Waits, M!Acquires
    <3> QED BY <3>1, <3>2 DEF BootBecomes
  <2>4. CASE M!Waits(r) /\ ~(boot[r].tries < MaxTries)
    BY <2>4, DownType DEF M!Waits, M!Exits, M!Acquires, BootBecomes
  <2> QED BY <2>1, <2>2, <2>3, <2>4
<1>3. boot'[r] = b /\ boot[r].at \in {"down", "waiting"}
  BY <1>1, <1>2 DEF BootBecomes, M!Starts, M!Waits, M!Acquires
<1>4. /\ UNCHANGED <<late, applied, ledger, crashes>>
      /\ IF M!Acquires(r) THEN lock = Free /\ lock' = r ELSE lock' = lock
  BY <1>1, <1>2, LocksDiffer DEF M!Starts, M!Waits, M!Acquires
<1>5. PassInv(r)'
  BY <1>2, <1>3, <1>4, LocksDiffer DEF MigrationsInv, PassInv, InPass
<1>6. (boot \in [Replicas -> Boot])' /\ \A q \in Replicas : PassInv(q)'
  BY <1>2, <1>4, <1>5, LocksDiffer, ReplicaMoves
<1>7. late = M!Nothing \/ ~M!Acquires(r)
  BY <1>4, LocksDiffer DEF MigrationsInv
<1> QED BY <1>4, <1>6, <1>7 DEF MigrationsInv, M!MigrationsTypeOK, Boot

LEMMA ReadsLedgerStep ==
    ASSUME MigrationsInv, NEW r \in Replicas, M!ReadsLedger(r)
    PROVE  MigrationsInv'
<1>1. boot \in [Replicas -> Boot] /\ boot[r] \in Boot /\ lock = r
  BY DEF MigrationsInv, M!MigrationsTypeOK, Boot, PassInv, InPass, M!ReadsLedger
<1> DEFINE at == IF Files[r] \subseteq ledger THEN "unlock" ELSE "apply"
           b == [boot[r] EXCEPT !.todo = M!Pending(r), !.at = at]
<1>2. boot' = [boot EXCEPT ![r] = b]
  BY <1>1 DEF M!ReadsLedger
<1>3. b \in Boot /\ b.at = at /\ b.todo = Files[r] \ ledger
  BY <1>1, FilesAssumption DEF Boot, M!Pending
<1>4. UNCHANGED <<lock, late, applied, ledger, crashes>>
  BY DEF M!ReadsLedger
<1>5. PassInv(r)'
  BY <1>1, <1>2, <1>3, <1>4 DEF PassInv, InPass
<1>6. (boot \in [Replicas -> Boot])' /\ \A q \in Replicas : PassInv(q)'
  BY <1>2, <1>3, <1>4, <1>5, ReplicaMoves DEF BootBecomes
<1> QED BY <1>4, <1>6 DEF MigrationsInv, M!MigrationsTypeOK, Boot

LEMMA AppliesStep ==
    ASSUME MigrationsInv, NEW r \in Replicas, M!Applies(r)
    PROVE  MigrationsInv'
<1>1. boot \in [Replicas -> Boot] /\ boot[r] \in Boot /\ applied \in Seq(Nat)
  BY DEF MigrationsInv, M!MigrationsTypeOK, Boot
<1> DEFINE b == [boot[r] EXCEPT !.at = "record"]
           f == M!NextFile(r)
<1>2. boot' = [boot EXCEPT ![r] = b] /\ b \in Boot /\ b.at = "record" /\ b.todo = boot[r].todo
  BY <1>1 DEF M!Applies, M!Goes, Boot
<1>3. f \in Nat /\ applied' = Append(applied, f) /\ UNCHANGED <<lock, late, ledger, crashes>>
  BY NextIsPending DEF M!Applies
<1>4. applied' \in Seq(Nat) /\ Range(applied') = Range(applied) \cup {f}
  BY <1>1, <1>3, AppliedGrows
<1>5. M!NextFile(r)' = f
  BY <1>1, <1>2 DEF M!NextFile
<1>6. PassInv(r)'
  <2>1. PassInv(r) /\ boot[r].at = "apply" /\ boot'[r] = b
    BY <1>1, <1>2 DEF MigrationsInv, M!Applies
  <2> HIDE DEF f, b
  <2> QED BY <1>2, <1>3, <1>4, <1>5, <2>1 DEF PassInv, InPass
<1>7. (boot \in [Replicas -> Boot])' /\ \A q \in Replicas : PassInv(q)'
  BY <1>2, <1>3, <1>4, <1>6, ReplicaMoves DEF BootBecomes
<1> QED BY <1>3, <1>4, <1>7 DEF MigrationsInv, M!MigrationsTypeOK, Boot

LEMMA RecordsStep ==
    ASSUME MigrationsInv, NEW r \in Replicas, M!Records(r)
    PROVE  MigrationsInv'
<1>1. boot \in [Replicas -> Boot] /\ boot[r] \in Boot /\ boot[r].at = "record"
  BY DEF MigrationsInv, M!MigrationsTypeOK, Boot, M!Records
<1> DEFINE f == M!NextFile(r)
           todo == boot[r].todo \ {f}
           at == IF boot[r].todo = {f} THEN "unlock" ELSE "apply"
           b == [boot[r] EXCEPT !.todo = todo, !.at = at]
<1>2. boot' = [boot EXCEPT ![r] = b]
  BY <1>1 DEF M!Records
<1>3. b \in Boot /\ b.at = at /\ b.todo = todo
  BY <1>1 DEF Boot
<1>4. f \in Files[r] \ ledger /\ f \in Nat /\ lock = r /\ late = M!Nothing
  BY <1>1, NextIsPending
<1>5. ledger' = ledger \cup {f} /\ UNCHANGED <<lock, late, applied, crashes>>
  BY DEF M!Records
<1>6. f \in Range(applied) /\ boot[r].todo = Files[r] \ ledger
  BY <1>1 DEF MigrationsInv, PassInv
<1>7. boot' \in [Replicas -> Boot] /\ boot'[r] = b /\ \A q \in Replicas \ {r} : boot'[q] = boot[q]
  BY <1>1, <1>2, <1>3
<1> HIDE DEF f, b
<1>8. PassInv(r)'
  <2>1. todo = Files[r] \ ledger' /\ (todo = {} <=> boot[r].todo = {f})
    BY <1>4, <1>5, <1>6
  <2> QED BY <1>3, <1>4, <1>5, <1>7, <2>1 DEF PassInv, InPass
<1>9. ASSUME NEW q \in Replicas \ {r}
      PROVE  PassInv(q)'
  <2>1. boot[q].at \notin {"list", "apply", "record", "unlock"}
    BY <1>4 DEF MigrationsInv, PassInv, InPass
  <2> QED BY <1>4, <1>5, <1>7, <2>1 DEF MigrationsInv, PassInv, InPass
<1> QED BY <1>4, <1>5, <1>6, <1>7, <1>8, <1>9 DEF MigrationsInv, M!MigrationsTypeOK, Boot

LEMMA UnlocksStep ==
    ASSUME MigrationsInv, NEW r \in Replicas, M!Unlocks(r) \/ M!UnlockFails(r)
    PROVE  MigrationsInv'
<1>1. /\ boot \in [Replicas -> Boot] /\ boot[r] \in Boot /\ boot[r].at = "unlock"
      /\ lock = r /\ late = M!Nothing
  BY LocksDiffer
  DEF MigrationsInv, M!MigrationsTypeOK, Boot, M!Unlocks, M!UnlockFails, PassInv, InPass
<1> DEFINE b == [boot[r] EXCEPT !.at = "serving"]
<1>2. boot' = [boot EXCEPT ![r] = b]
  BY <1>1 DEF M!Unlocks, M!UnlockFails, M!Goes
<1>3. b \in Boot /\ b.at = "serving" /\ b.todo = boot[r].todo
  BY <1>1 DEF Boot
<1>4. /\ lock' \in {Free, Dead} /\ UNCHANGED <<late, applied, ledger>>
      /\ crashes' \in 0..MaxCrashes
  BY ReplicasAssumption DEF M!Unlocks, M!UnlockFails, MigrationsInv, M!MigrationsTypeOK
<1>5. boot'[r] = b
  BY <1>1, <1>2
<1> HIDE DEF b
<1>6. PassInv(r)'
  BY <1>1, <1>3, <1>4, <1>5, LocksDiffer DEF MigrationsInv, PassInv, InPass
<1>7. (boot \in [Replicas -> Boot])' /\ \A q \in Replicas : PassInv(q)'
  <2>1. \A q \in Replicas \ {r} : lock' = q <=> lock = q
    BY <1>1, <1>4, LocksDiffer
  <2> QED BY <1>2, <1>3, <1>4, <1>6, <2>1, ReplicaMoves DEF BootBecomes
<1> QED BY <1>1, <1>4, <1>7 DEF MigrationsInv, M!MigrationsTypeOK, Boot

\* A pass that fails or is refused, and a process that is killed at any point.
LEMMA EndsStep ==
    ASSUME MigrationsInv, NEW r \in Replicas,
           M!PassFails(r) \/ M!ApplyIsRefused(r) \/ M!Killed(r)
    PROVE  MigrationsInv'
<1>1. boot \in [Replicas -> Boot] /\ boot[r] \in Boot
  BY DEF MigrationsInv, M!MigrationsTypeOK, Boot
<1>2. /\ boot' = [boot EXCEPT ![r] = M!Down] /\ UNCHANGED <<applied, ledger>>
      /\ lock' = IF lock = r THEN Dead ELSE lock
      /\ crashes' \in 0..MaxCrashes
  BY ReplicasAssumption
  DEF M!PassFails, M!ApplyIsRefused, M!Killed, M!Exits, M!Abandoned, MigrationsInv,
      M!MigrationsTypeOK
<1>3. boot'[r] = M!Down
  BY <1>1, <1>2
<1>4. PassInv(r)'
  BY <1>2, <1>3, DownType, LocksDiffer DEF PassInv, InPass
<1>5. (boot \in [Replicas -> Boot])' /\ \A q \in Replicas : PassInv(q)'
  <2>1. \A q \in Replicas \ {r} : lock' = q <=> lock = q
    BY <1>2, LocksDiffer
  <2> QED BY <1>2, <1>4, <2>1, DownType, ReplicaMoves DEF BootBecomes
<1>6. /\ late' \in {M!Nothing} \cup [at : {"apply", "record"}, file : Nat]
      /\ late' # M!Nothing => lock' = Dead
      /\ late'.at = "record" => late'.file \in Range(applied)
  <2>1. CASE late' = late
    BY <1>2, <2>1, LocksDiffer DEF MigrationsInv, M!MigrationsTypeOK
  <2>2. CASE /\ boot[r].at \in {"apply", "record"}
             /\ late' = [at |-> boot[r].at, file |-> M!NextFile(r)]
    <3>1. M!NextFile(r) \in Nat /\ lock = r
      BY <2>2, NextIsPending
    <3>2. boot[r].at = "record" => M!NextFile(r) \in Range(applied)
      BY DEF MigrationsInv, PassInv
    <3> QED BY <1>2, <2>2, <3>1, <3>2
  <2> QED BY <2>1, <2>2 DEF M!PassFails, M!ApplyIsRefused, M!Killed
<1>7. lock' \in Replicas \cup {Free, Dead}
  BY <1>2 DEF MigrationsInv, M!MigrationsTypeOK
<1> QED BY <1>2, <1>5, <1>6, <1>7 DEF MigrationsInv, M!MigrationsTypeOK, Boot

LEMMA DeadSessionStep ==
    ASSUME MigrationsInv, M!CompletesLate \/ M!SessionEnds
    PROVE  MigrationsInv'
<1>1. lock = Dead /\ boot' = boot /\ crashes' = crashes
  BY DEF MigrationsInv, M!CompletesLate, M!SessionEnds
<1>2. \A q \in Replicas : boot[q].at \notin {"list", "apply", "record", "unlock"}
  BY <1>1, LocksDiffer DEF MigrationsInv, PassInv, InPass
<1>3. /\ late' = M!Nothing /\ lock' \in {Free, Dead}
      /\ late'.at # "record"
  BY DEF M!CompletesLate, M!SessionEnds, MigrationsInv, M!MigrationsTypeOK, M!Nothing
<1>4. /\ applied' \in Seq(Nat) /\ ledger' \subseteq Nat
      /\ ledger \subseteq ledger' /\ ledger' \subseteq Range(applied')
  <2>1. CASE M!SessionEnds
    BY <2>1 DEF M!SessionEnds, MigrationsInv, M!MigrationsTypeOK
  <2>2. CASE M!CompletesLate /\ late.at = "apply" /\ ~M!Refused(late.file)
    <3>1. applied \in Seq(Nat) /\ late.file \in Nat
      BY <2>2 DEF M!CompletesLate, MigrationsInv, M!MigrationsTypeOK
    <3>2. applied' = Append(applied, late.file) /\ UNCHANGED ledger
      BY <2>2, Zenon DEF M!CompletesLate
    <3> QED BY <3>1, <3>2, AppliedGrows DEF MigrationsInv, M!MigrationsTypeOK
  <2>3. CASE M!CompletesLate /\ late.at = "apply" /\ M!Refused(late.file)
    <3>1. UNCHANGED <<applied, ledger>>
      BY <2>3 DEF M!CompletesLate
    <3> QED BY <3>1 DEF MigrationsInv, M!MigrationsTypeOK
  <2>4. CASE M!CompletesLate /\ late.at # "apply"
    <3>1. late.at = "record" /\ late.file \in Nat
      BY <2>4 DEF M!CompletesLate, MigrationsInv, M!MigrationsTypeOK
    <3>2. ledger' = ledger \cup {late.file} /\ UNCHANGED applied
      BY <2>4, <3>1 DEF M!CompletesLate
    <3> QED BY <3>2, <3>1 DEF MigrationsInv, M!MigrationsTypeOK
  <2> QED BY <2>1, <2>2, <2>3, <2>4
<1>5. \A q \in Replicas : PassInv(q)'
  BY <1>1, <1>2, <1>3, <1>4, LocksDiffer DEF MigrationsInv, PassInv, InPass
<1>6. lock' \in Replicas \cup {Free, Dead}
  BY <1>3
<1> QED BY <1>1, <1>3, <1>4, <1>5, <1>6 DEF MigrationsInv, M!MigrationsTypeOK

\* What a step of the deployment does to the migrations.
MigrationsMove ==
    \/ \E r \in Replicas :
         M!Migrates(r) \/ M!UnlockFails(r) \/ M!PassFails(r) \/ M!Killed(r)
    \/ M!CompletesLate \/ M!SessionEnds
    \/ UNCHANGED migrationVars

LEMMA NextMoves == [Next]_vars => MigrationsMove
BY DEF Next, Boots, BootFails, Serves, TickFails, Crashes, Database, Outside, vars, MigrationsMove

LEMMA MigrationsStep ==
    ASSUME MigrationsInv, MigrationsMove
    PROVE  MigrationsInv'
<1>1. ASSUME NEW r \in Replicas,
             M!Migrates(r) \/ M!UnlockFails(r) \/ M!PassFails(r) \/ M!Killed(r)
      PROVE  MigrationsInv'
  BY <1>1, WaitingStep, ReadsLedgerStep, AppliesStep, RecordsStep, UnlocksStep, EndsStep
  DEF M!Migrates
<1>2. CASE M!CompletesLate \/ M!SessionEnds
  BY <1>2, DeadSessionStep
<1>3. CASE UNCHANGED migrationVars
  BY <1>3 DEF migrationVars, MigrationsInv, M!MigrationsTypeOK, PassInv, InPass, M!NextFile
<1> QED BY <1>1, <1>2, <1>3 DEF MigrationsMove

LEMMA MigrationsStart == M!MigrationsInit => MigrationsInv
<1> SUFFICES ASSUME M!MigrationsInit
             PROVE  MigrationsInv
  OBVIOUS
<1>1. boot \in [Replicas -> Boot] /\ \A r \in Replicas : boot[r].at = "down"
  BY DownType DEF M!MigrationsInit
<1>2. applied \in Seq(Nat) /\ crashes \in 0..MaxCrashes
  BY ReplicasAssumption DEF M!MigrationsInit
<1>3. late = M!Nothing /\ late.at = "none"
  BY DEF M!MigrationsInit, M!Nothing
<1> QED BY <1>1, <1>2, <1>3, LocksDiffer
    DEF M!MigrationsInit, MigrationsInv, M!MigrationsTypeOK, Boot, PassInv, InPass

LEMMA MigrationsInvariant == Spec => []MigrationsInv
<1>1. Init => MigrationsInv
  BY MigrationsStart DEF Init
<1>2. MigrationsInv /\ [Next]_vars => MigrationsInv'
  BY MigrationsStep, NextMoves
<1> QED BY <1>1, <1>2, PTL DEF Spec

-----------------------------------------------------------------------------
(* The order in which files run.  It is theirs only if the images that share *)
(* a database agree on it.                                                   *)

\* A file that one image has and another lacks comes after all the other's: a
\* release only ever adds migrations at the end.
ImagesExtend ==
    \A r, q \in Replicas : \A f \in Files[r], g \in Files[q] : g < f => g \in Files[r]

\* f may run next: nothing later ran, and no image has an earlier one to run.
MayRun(f) ==
    /\ \A i \in DOMAIN applied : applied[i] <= f
    /\ \A r \in Replicas : \A g \in Files[r] \ ledger : f <= g

OrderInv ==
    /\ M!ReplaysOnlyNewest
    /\ \A i \in DOMAIN applied : \A r \in Replicas : \A g \in Files[r] \ ledger :
         applied[i] <= g
    /\ late.at = "apply" => MayRun(late.file)

LEMMA NextMayRun ==
    ASSUME ImagesExtend, MigrationsInv, OrderInv, NEW r \in Replicas,
           boot[r].at \in {"apply", "record"}
    PROVE  MayRun(M!NextFile(r))
<1> DEFINE f == M!NextFile(r)
<1>1. f \in Files[r] \ ledger /\ f \in Nat /\ \A g \in Files[r] \ ledger : f <= g
  BY NextIsPending
<1>2. ASSUME NEW q \in Replicas, NEW g \in Files[q] \ ledger
      PROVE  f <= g
  <2>1. g \in Nat
    BY FilesAssumption
  <2>2. CASE g < f
    <3>1. g \in Files[r]
      BY <1>1, <2>2 DEF ImagesExtend
    <3> QED BY <1>1, <3>1
  <2> QED BY <1>1, <2>1, <2>2
<1> QED BY <1>1, <1>2 DEF MayRun, OrderInv

\* Running such a file keeps the order.
LEMMA RunKeepsOrder ==
    ASSUME MigrationsInv, OrderInv, NEW f \in Nat, MayRun(f),
           applied' = Append(applied, f), UNCHANGED ledger
    PROVE  /\ M!ReplaysOnlyNewest'
           /\ \A i \in DOMAIN applied' : \A r \in Replicas : \A g \in Files[r] \ ledger' :
                applied'[i] <= g
<1>1. applied \in Seq(Nat)
  BY DEF MigrationsInv, M!MigrationsTypeOK
<1> DEFINE n == Len(applied) + 1
<1>2. /\ DOMAIN applied' = DOMAIN applied \cup {n} /\ applied'[n] = f
      /\ \A i \in DOMAIN applied : applied'[i] = applied[i] /\ i < n
      /\ DOMAIN applied \subseteq Nat /\ n \in Nat
  BY <1>1, AppliedGrows
<1> HIDE DEF n
<1>3. ASSUME NEW i \in DOMAIN applied', NEW j \in DOMAIN applied', i < j
      PROVE  applied'[i] <= applied'[j]
  <2>1. i \in DOMAIN applied
    BY <1>2, <1>3
  <2>2. CASE j \in DOMAIN applied
    BY <1>2, <1>3, <2>1, <2>2 DEF OrderInv, M!ReplaysOnlyNewest
  <2>3. CASE j = n
    BY <1>2, <2>1, <2>3 DEF MayRun
  <2> QED BY <1>2, <2>2, <2>3
<1>4. M!ReplaysOnlyNewest'
  BY <1>3 DEF M!ReplaysOnlyNewest
<1>5. \A i \in DOMAIN applied' : \A r \in Replicas : \A g \in Files[r] \ ledger' :
        applied'[i] <= g
  BY <1>2 DEF OrderInv, MayRun
<1> QED BY <1>4, <1>5

LEMMA OrderStep ==
    ASSUME ImagesExtend, MigrationsInv, OrderInv, MigrationsMove
    PROVE  OrderInv'
<1>1. ASSUME NEW r \in Replicas, M!Applies(r)
      PROVE  OrderInv'
  <2>1. /\ M!NextFile(r) \in Nat /\ late = M!Nothing /\ MayRun(M!NextFile(r))
    BY <1>1, NextIsPending, NextMayRun DEF M!Applies
  <2>2. applied' = Append(applied, M!NextFile(r)) /\ UNCHANGED <<ledger, late>>
    BY <1>1 DEF M!Applies
  <2>3. late'.at # "apply"
    BY <2>1, <2>2 DEF M!Nothing
  <2> QED BY <2>1, <2>2, <2>3, RunKeepsOrder DEF OrderInv
<1>2. CASE M!CompletesLate /\ late.at = "apply" /\ ~M!Refused(late.file)
  <2>1. late.file \in Nat /\ MayRun(late.file)
    BY <1>2 DEF M!CompletesLate, MigrationsInv, M!MigrationsTypeOK, OrderInv
  <2>2. applied' = Append(applied, late.file) /\ UNCHANGED ledger /\ late' = M!Nothing
    BY <1>2 DEF M!CompletesLate
  <2>3. late'.at # "apply"
    BY <2>2 DEF M!Nothing
  <2> QED BY <2>1, <2>2, <2>3, RunKeepsOrder DEF OrderInv
<1>3. ASSUME UNCHANGED applied, ledger \subseteq ledger',
             late' = late \/ late'.at # "apply" \/ MayRun(late'.file)
      PROVE  OrderInv'
  <2>1. M!ReplaysOnlyNewest'
    BY <1>3 DEF OrderInv, M!ReplaysOnlyNewest
  <2>2. \A i \in DOMAIN applied' : \A r \in Replicas : \A g \in Files[r] \ ledger' :
          applied'[i] <= g
    BY <1>3 DEF OrderInv
  <2>3. (late.at = "apply" => MayRun(late.file))'
    BY <1>3 DEF OrderInv, MayRun
  <2> QED BY <2>1, <2>2, <2>3 DEF OrderInv
<1>4. ASSUME NEW r \in Replicas, M!Killed(r)
      PROVE  OrderInv'
  <2>1. late' = late \/ late'.at # "apply" \/ MayRun(late'.file)
    BY <1>4, NextMayRun DEF M!Killed
  <2> QED BY <1>3, <1>4, <2>1 DEF M!Killed
<1>5. CASE M!CompletesLate /\ (late.at # "apply" \/ M!Refused(late.file))
  BY <1>3, <1>5 DEF M!CompletesLate, M!Nothing
<1>6. CASE M!SessionEnds \/ UNCHANGED migrationVars
  BY <1>3, <1>6 DEF M!SessionEnds, migrationVars
<1>7. ASSUME NEW r \in Replicas,
             (M!Migrates(r) /\ ~M!Applies(r)) \/ M!UnlockFails(r) \/ M!PassFails(r)
      PROVE  OrderInv'
  BY <1>3, <1>7
  DEF M!Migrates, M!Starts, M!Acquires, M!Waits, M!ReadsLedger, M!ApplyIsRefused,
      M!Records, M!Unlocks, M!UnlockFails, M!PassFails
<1> QED BY <1>1, <1>2, <1>4, <1>5, <1>6, <1>7 DEF MigrationsMove

-----------------------------------------------------------------------------
(* The latest occurrence is never in the future. *)

LEMMA ProductsGrow ==
    ASSUME NEW a \in Int, NEW b \in Int, NEW c \in Nat, a <= b
    PROVE  a * c <= b * c
<1>1. (b - a) * c >= 0
  OBVIOUS
<1>2. (b - a) * c = b * c - a * c
  OBVIOUS
<1> QED BY <1>1, <1>2

\* A wall time names an instant or none.
LEMMA ResolvedType ==
    ASSUME NEW zone \in [winter : Int, summer : Int, from : Int, until : Int],
           NEW wall \in [day : Int, slot : Int]
    PROVE  ResolveWallTime(zone, wall) \in Int \cup {None}
<1> DEFINE before == SlotOf(wall) - ZoneOffset(zone, SlotOf(wall) - SlotsPerDay)
           after  == SlotOf(wall) - ZoneOffset(zone, SlotOf(wall) + SlotsPerDay)
           exact  == {i \in {before, after} : WallClock(zone, i) = wall}
<1>1. SlotOf(wall) \in Int
  BY CalendarAssumption DEF SlotOf
<1>2. \A i \in Int : ZoneOffset(zone, i) \in Int
  BY DEF ZoneOffset
<1>3. before \in Int /\ after \in Int
  BY <1>1, <1>2, CalendarAssumption
<1>4. ResolveWallTime(zone, wall) = IF exact = {} THEN None ELSE Min(exact)
  BY DEF ResolveWallTime
<1>5. exact \subseteq {before, after}
  OBVIOUS
<1> HIDE DEF exact, before, after
<1>6. ASSUME exact # {}
      PROVE  Min(exact) \in Int
  <2>1. \E i \in exact : \A j \in exact : i <= j
    <3>1. PICK i \in exact : TRUE
      BY <1>6
    <3>2. CASE \A j \in exact : i <= j
      BY <3>2
    <3>3. CASE \E j \in exact : ~(i <= j)
      <4>1. PICK j \in exact : ~(i <= j)
        BY <3>3
      <4>2. {before, after} = {i, j} /\ j < i /\ j \in Int
        BY <1>3, <1>5, <3>1, <4>1
      <4> QED BY <1>5, <4>1, <4>2
    <3> QED BY <3>2, <3>3
  <2>2. Min(exact) \in exact
    BY <2>1 DEF Min
  <2> QED BY <1>3, <1>5, <2>2
<1> QED BY <1>4, <1>6

LEMMA LatestBounded ==
    ASSUME NEW S \in SUBSET Int, NEW at \in Int, \A i \in S : i <= at
    PROVE  LatestOrNone(S) = None \/ (LatestOrNone(S) \in Int /\ LatestOrNone(S) <= at)
BY IntMax DEF LatestOrNone

LEMMA OccurrenceBounded ==
    ASSUME NEW zone \in [winter : Int, summer : Int, from : Int, until : Int],
           NEW f, f.slots \subseteq SlotOfDay, NEW at \in Int
    PROVE  LET o == PreviousOccurrenceInTimeZone(f, at, zone)
           IN  o = None \/ (o \in Int /\ o <= at)
<1> DEFINE today == WallClock(zone, at).day
           days  == {d \in today - MaxLookbackDays .. today : DayMatches(f, d)}
           walls == {w \in [day : days, slot : f.slots] :
                       /\ ResolveWallTime(zone, w) # None
                       /\ ResolveWallTime(zone, w) <= at}
           latest == CHOOSE w \in walls : \A v \in walls : SlotOf(v) <= SlotOf(w)
           o == PreviousOccurrenceInTimeZone(f, at, zone)
<1>1. CASE zone = UTC
  <2> DEFINE S == {i \in (at \div SlotsPerDay - MaxLookbackDays) * SlotsPerDay .. at :
                     /\ DayMatches(f, i \div SlotsPerDay)
                     /\ i % SlotsPerDay \in f.slots}
  <2>1. S \in SUBSET Int /\ \A i \in S : i <= at
    BY CalendarAssumption
  <2>2. PreviousOccurrence(f, at) = LatestOrNone(S)
    BY DEF PreviousOccurrence
  <2>3. o = PreviousOccurrence(f, at)
    BY <1>1 DEF PreviousOccurrenceInTimeZone
  <2> HIDE DEF S
  <2> QED BY <2>1, <2>2, <2>3, LatestBounded
<1>2. ASSUME zone # UTC, walls # {}
      PROVE  o \in Int /\ o <= at
  <2>1. o = ResolveWallTime(zone, latest)
    BY <1>2 DEF PreviousOccurrenceInTimeZone
  <2>2. today \in Int
    BY CalendarAssumption DEF WallClock, ZoneOffset
  <2>3. \A w \in walls : w \in [day : Int, slot : SlotOfDay] /\ w.day <= today
    BY <2>2, CalendarAssumption
  <2>4. \A w \in walls : SlotOf(w) \in Int /\ SlotOf(w) <= today * SlotsPerDay + SlotsPerDay
    BY <2>2, <2>3, ProductsGrow, CalendarAssumption DEF SlotOf, SlotOfDay
  <2>5. \A w \in walls : ResolveWallTime(zone, w) # None /\ ResolveWallTime(zone, w) <= at
    OBVIOUS
  <2> HIDE DEF walls, today
  <2>6. \E w \in walls : \A v \in walls : SlotOf(v) <= SlotOf(w)
    <3> DEFINE T == {SlotOf(w) : w \in walls}
               b == today * SlotsPerDay + SlotsPerDay
    <3>1. T \in SUBSET Int /\ T # {} /\ b \in Int /\ \A i \in T : i <= b
      BY <1>2, <2>2, <2>4, CalendarAssumption
    <3>2. Max(T) \in T /\ \A i \in T : i <= Max(T)
      <4> HIDE DEF T, b
      <4> QED BY <3>1, IntMax
    <3> QED BY <3>2
  <2>7. latest \in walls
    BY <2>6
  <2>8. latest \in [day : Int, slot : Int]
    BY <2>3, <2>7, CalendarAssumption DEF SlotOfDay
  <2> HIDE DEF latest
  <2> QED BY <2>1, <2>5, <2>7, <2>8, ResolvedType
<1>3. CASE zone # UTC /\ walls = {}
  BY <1>3 DEF PreviousOccurrenceInTimeZone
<1> QED BY <1>1, <1>2, <1>3

LEMMA OccurrenceIsPast ==
    ASSUME SchedulerTypeOK, NEW t \in Tests, NEW now \in Start..MaxTime
    PROVE  Occurrence(t, now) = None \/ (Occurrence(t, now) \in Int /\ Occurrence(t, now) <= now)
<1> DEFINE s == tests[t].schedule
           x == <<s, now>>
           PreviousOf(y) ==
             PreviousOccurrenceInTimeZone(ParseCron(y[1].expression), y[2], y[1].zone)
           table == [y \in Probed \X (Start..MaxTime) |-> PreviousOf(y)]
<1>1. s \in Probed
  BY SchedulerAssumption DEF SchedulerTypeOK
<1>2. Occurrences = table
  <2>1. Occurrences = Tabulated(table)
    BY DEF Occurrences
  <2> HIDE DEF table
  <2> QED BY <2>1 DEF Tabulated
<1>3. x \in Probed \X (Start..MaxTime) /\ x[1] = s /\ x[2] = now
  BY <1>1
<1>4. Occurrence(t, now) = PreviousOccurrenceInTimeZone(ParseCron(s.expression), now, s.zone)
  BY <1>2, <1>3 DEF Occurrence
<1>5. ParseCron(s.expression).slots \subseteq SlotOfDay
  BY <1>1, ProbedAssumption, CalendarAssumption DEF ParseCron, ParseField, SlotOfDay
<1>6. s.zone \in [winter : Int, summer : Int, from : Int, until : Int] /\ now \in Int
  BY <1>1, ProbedAssumption, SchedulerAssumption
<1> HIDE DEF s
<1> QED BY <1>4, <1>5, <1>6, OccurrenceBounded

-----------------------------------------------------------------------------
(* What the walk over local days finds, in any calendar, for any expression    *)
(* and any plain zone, is what the reference names: an instant that reads a    *)
(* wall time first is what the wall time resolves to, and first readings are   *)
(* in the order of their wall times.                                           *)

Zone == [winter : Int, summer : Int, from : Int, until : Int]
Wall == [day : Int, slot : SlotOfDay]

\* Day and slot are determined by the number they make, and in its order.
LEMMA DaysDiffer ==
    ASSUME NEW d \in Int, NEW e \in Int, NEW s \in SlotOfDay, NEW t \in SlotOfDay
    PROVE  /\ d * SlotsPerDay + s = e * SlotsPerDay + t => d = e /\ s = t
           /\ d * SlotsPerDay + s <= e * SlotsPerDay + t => d <= e
<1> DEFINE x == d * SlotsPerDay
           y == e * SlotsPerDay
<1>1. x \in Int /\ y \in Int /\ SlotsPerDay \in Int
  BY CalendarAssumption
<1>2. d + 1 <= e => x + SlotsPerDay <= y
  BY <1>1, ProductsGrow, CalendarAssumption, (d + 1) * SlotsPerDay = x + SlotsPerDay
<1>3. e + 1 <= d => y + SlotsPerDay <= x
  BY <1>1, ProductsGrow, CalendarAssumption, (e + 1) * SlotsPerDay = y + SlotsPerDay
<1>4. s \in Int /\ t \in Int /\ 0 <= s /\ s < SlotsPerDay /\ 0 <= t /\ t < SlotsPerDay
  BY CalendarAssumption DEF SlotOfDay
<1>5. x + s <= y + t => d <= e
  <2> HIDE DEF x, y
  <2> QED BY <1>1, <1>2, <1>3, <1>4
<1>6. x + s = y + t => e <= d /\ d <= e
  <2> HIDE DEF x, y
  <2> QED BY <1>1, <1>2, <1>3, <1>4
<1>7. d = e /\ x + s = y + t => s = t
  <2>1. d = e => x = y
    OBVIOUS
  <2> HIDE DEF x, y
  <2> QED BY <2>1, <1>1, <1>4
<1> QED BY <1>5, <1>6, <1>7

LEMMA Divided ==
    ASSUME NEW i \in Int
    PROVE  /\ i \div SlotsPerDay \in Int /\ i % SlotsPerDay \in SlotOfDay
           /\ i = (i \div SlotsPerDay) * SlotsPerDay + (i % SlotsPerDay)
<1>1. i \div SlotsPerDay \in Int /\ i % SlotsPerDay \in 0 .. SlotsPerDay - 1
  BY CalendarAssumption
<1>2. i = (i \div SlotsPerDay) * SlotsPerDay + (i % SlotsPerDay)
  BY CalendarAssumption
<1> QED BY <1>1, <1>2 DEF SlotOfDay

LEMMA LaterDay ==
    ASSUME NEW i \in Int, NEW j \in Int, i <= j
    PROVE  i \div SlotsPerDay <= j \div SlotsPerDay
BY Divided, DaysDiffer

Local(zone, i) == i + ZoneOffset(zone, i)

LEMMA WallRead ==
    ASSUME NEW zone \in Zone, NEW i \in Int
    PROVE  /\ ZoneOffset(zone, i) \in Int /\ Local(zone, i) \in Int
           /\ WallClock(zone, i) \in Wall
           /\ SlotOf(WallClock(zone, i)) = Local(zone, i)
           /\ WallClock(zone, i).day = Local(zone, i) \div SlotsPerDay
BY Divided DEF WallClock, ZoneOffset, Zone, Wall, SlotOf, Local

LEMMA WallIs ==
    ASSUME NEW zone \in Zone, NEW i \in Int, NEW w \in Wall
    PROVE  /\ SlotOf(w) \in Int
           /\ WallClock(zone, i) = w <=> Local(zone, i) = SlotOf(w)
<1>1. SlotOf(w) \in Int
  BY CalendarAssumption DEF SlotOf, Wall, SlotOfDay
<1>2. WallClock(zone, i) = w => Local(zone, i) = SlotOf(w)
  BY WallRead
<1>3. ASSUME Local(zone, i) = SlotOf(w)
      PROVE  WallClock(zone, i) = w
  <2> DEFINE v == WallClock(zone, i)
  <2>1. v \in Wall /\ SlotOf(v) = SlotOf(w)
    BY <1>3, WallRead
  <2> HIDE DEF v
  <2>2. /\ v.day \in Int /\ w.day \in Int /\ v.slot \in SlotOfDay /\ w.slot \in SlotOfDay
        /\ v.day * SlotsPerDay + v.slot = w.day * SlotsPerDay + w.slot
    BY <2>1 DEF Wall, SlotOf
  <2>3. v.day = w.day /\ v.slot = w.slot
    BY ONLY <2>2, DaysDiffer
  <2>4. v = w
    BY <2>1, <2>3 DEF Wall
  <2> QED BY <2>4 DEF v
<1> QED BY <1>1, <1>2, <1>3

\* A day before and a day after bracket a change of offset.
LEMMA OffsetsBracket ==
    ASSUME NEW zone \in Zone, PlainZone(zone), NEW i \in Int, NEW x \in Int, x = Local(zone, i)
    PROVE  \/ i = x - ZoneOffset(zone, x - SlotsPerDay)
           \/ i = x - ZoneOffset(zone, x + SlotsPerDay)
BY CalendarAssumption DEF PlainZone, Zone, Local, ZoneOffset

\* What a wall time resolves to is the first instant that reads it, if any does.
LEMMA ResolvedToFirst ==
    ASSUME NEW zone \in Zone, PlainZone(zone), NEW w \in Wall
    PROVE  LET r == ResolveWallTime(zone, w) IN
             \/ r = None /\ \A i \in Int : WallClock(zone, i) # w
             \/ /\ r \in Int /\ WallClock(zone, r) = w
                /\ \A i \in Int : WallClock(zone, i) = w => r <= i
<1> DEFINE x == SlotOf(w)
           before == x - ZoneOffset(zone, x - SlotsPerDay)
           after  == x - ZoneOffset(zone, x + SlotsPerDay)
           exact  == {i \in {before, after} : WallClock(zone, i) = w}
           r == ResolveWallTime(zone, w)
<1>1. x \in Int /\ before \in Int /\ after \in Int
  BY WallIs, WallRead, CalendarAssumption
<1>2. r = IF exact = {} THEN None ELSE Min(exact)
  BY DEF ResolveWallTime
<1>3. \A i \in Int : WallClock(zone, i) = w => i = before \/ i = after
  BY <1>1, WallIs, OffsetsBracket
<1>4. \A i \in Int : WallClock(zone, i) = w => i \in exact
  BY <1>3
<1>5. exact \subseteq {before, after} /\ \A i \in exact : WallClock(zone, i) = w
  OBVIOUS
<1> HIDE DEF exact, before, after, r
<1>6. CASE exact = {}
  BY <1>2, <1>4, <1>6 DEF r
<1>7. ASSUME exact # {}
      PROVE  r \in exact /\ \A i \in exact : r <= i
  <2>1. PICK i \in exact : \A j \in exact : i <= j
    <3>1. PICK i \in exact : TRUE
      BY <1>7
    <3>2. CASE \A j \in exact : i <= j
      BY <3>2
    <3>3. CASE \E j \in exact : ~(i <= j)
      <4>1. PICK j \in exact : ~(i <= j)
        BY <3>3
      <4>2. {before, after} = {i, j} /\ j < i /\ j \in Int
        BY <1>1, <1>5, <3>1, <4>1
      <4> QED BY <1>5, <4>1, <4>2
    <3> QED BY <3>2, <3>3
  <2> QED BY <1>2, <1>7, <2>1 DEF Min
<1>8. CASE exact # {}
  <2>1. r \in Int /\ WallClock(zone, r) = w
    BY <1>1, <1>5, <1>7, <1>8
  <2> QED BY <1>4, <1>7, <1>8, <2>1 DEF r
<1> QED BY <1>6, <1>8

\* Two readings of a wall time are a change of offset apart, which is a day at most.
LEMMA RepeatsIsLater ==
    ASSUME NEW zone \in Zone, PlainZone(zone), NEW i \in Int
    PROVE  ~Repeats(zone, i) <=> \A j \in Int : Local(zone, j) = Local(zone, i) => i <= j
<1>1. \A j \in Int : WallClock(zone, j) = WallClock(zone, i) <=> Local(zone, j) = Local(zone, i)
  <2>1. WallClock(zone, i) \in Wall /\ SlotOf(WallClock(zone, i)) = Local(zone, i)
    BY WallRead
  <2> QED BY ONLY <2>1, WallIs, zone \in Zone
<1>2. ASSUME NEW j \in Int, Local(zone, j) = Local(zone, i), ~(i <= j)
      PROVE  j \in i - SlotsPerDay .. i - 1
  BY <1>2, CalendarAssumption DEF Local, ZoneOffset, PlainZone, Zone
<1>3. \A j \in i - SlotsPerDay .. i - 1 : j \in Int /\ ~(i <= j)
  BY CalendarAssumption
<1> QED BY <1>1, <1>2, <1>3 DEF Repeats

\* Of wall times that occur, the later is first read later.
LEMMA FirstReadingsInOrder ==
    ASSUME NEW zone \in Zone, PlainZone(zone), NEW r \in Int, NEW s \in Int,
           ~Repeats(zone, r), Local(zone, r) < Local(zone, s)
    PROVE  r < s
<1> SUFFICES ASSUME s <= r
             PROVE  \E j \in Int : Local(zone, j) = Local(zone, r) /\ j < r
  BY RepeatsIsLater
<1> DEFINE j == s - (Local(zone, s) - Local(zone, r))
<1>1. j \in Int /\ j < r
  BY DEF Local, ZoneOffset, Zone
<1>2. Local(zone, j) = Local(zone, r)
  BY CalendarAssumption DEF Local, ZoneOffset, PlainZone, Zone
<1> QED BY <1>1, <1>2

\* The day of an earlier instant is no later, for no clock is put back past midnight.
LEMMA DaysInOrder ==
    ASSUME NEW zone \in Zone, PlainZone(zone), NEW i \in Int, NEW j \in Int, i <= j
    PROVE  WallClock(zone, i).day <= WallClock(zone, j).day
<1> DEFINE L(k) == Local(zone, k)
<1>1. \A k \in Int : L(k) \in Int /\ WallClock(zone, k).day = L(k) \div SlotsPerDay
  BY WallRead
<1>2. CASE L(i) <= L(j)
  BY <1>1, <1>2, LaterDay
<1>3. CASE ~(L(i) <= L(j))
  <2>1. PICK t \in {zone.from, zone.until} :
          /\ zone.from < zone.until /\ L(i) <= L(t - 1) /\ L(t) <= L(j)
    BY <1>3 DEF Local, ZoneOffset, Zone
  <2>2. WallClock(zone, t - 1).day <= WallClock(zone, t).day
    BY <2>1 DEF PlainZone
  <2>3. t \in Int /\ t - 1 \in Int
    BY DEF Zone
  <2>4. /\ L(i) \div SlotsPerDay <= L(t - 1) \div SlotsPerDay
        /\ L(t) \div SlotsPerDay <= L(j) \div SlotsPerDay
    BY <1>1, <2>1, <2>3, LaterDay
  <2>5. /\ L(i) \div SlotsPerDay \in Int /\ L(t - 1) \div SlotsPerDay \in Int
        /\ L(t) \div SlotsPerDay \in Int /\ L(j) \div SlotsPerDay \in Int
    BY <1>1, <2>3, Divided
  <2> HIDE DEF L
  <2> QED BY <1>1, <2>2, <2>3, <2>4, <2>5
<1> QED BY <1>2, <1>3

\* The reference looks a day further back than the code does, and misses nothing.
LEMMA LookbackReaches ==
    ASSUME NEW zone \in Zone, PlainZone(zone), NEW at \in Int, NEW i \in Int,
           WallClock(zone, i).day >= WallClock(zone, at).day - MaxLookbackDays
    PROVE  i >= at - (MaxLookbackDays + 2) * SlotsPerDay
<1> DEFINE d == WallClock(zone, i).day
           e == WallClock(zone, at).day
           p == d * SlotsPerDay
           q == e * SlotsPerDay
           m == MaxLookbackDays * SlotsPerDay
<1>1. d \in Int /\ e \in Int /\ d >= e - MaxLookbackDays
  BY WallRead DEF Wall
<1>2. /\ p \in Int /\ q \in Int /\ m \in Int
      /\ (e - MaxLookbackDays) * SlotsPerDay = q - m
      /\ (MaxLookbackDays + 2) * SlotsPerDay = m + 2 * SlotsPerDay
  BY <1>1, CalendarAssumption
<1>3. q - m <= p
  BY <1>1, <1>2, ProductsGrow, CalendarAssumption
<1>4. p <= Local(zone, i) /\ Local(zone, at) <= q + SlotsPerDay - 1
  <2>1. /\ Local(zone, i) = p + WallClock(zone, i).slot
        /\ Local(zone, at) = q + WallClock(zone, at).slot
    BY WallRead DEF SlotOf
  <2>2. WallClock(zone, i).slot \in SlotOfDay /\ WallClock(zone, at).slot \in SlotOfDay
    BY WallRead DEF Wall
  <2> HIDE DEF p, q
  <2> QED BY <1>2, <2>1, <2>2, CalendarAssumption DEF SlotOfDay
<1>5. ZoneOffset(zone, i) - ZoneOffset(zone, at) <= SlotsPerDay
  BY CalendarAssumption DEF ZoneOffset, PlainZone, Zone
<1> HIDE DEF p, q, m
<1> QED BY <1>2, <1>3, <1>4, <1>5, WallRead, CalendarAssumption DEF Local

\* The greatest of what satisfies the reference.
LEMMA GreatestIs ==
    ASSUME NEW S \in SUBSET Int, NEW o \in S, \A i \in S : i <= o
    PROVE  LatestOrNone(S) = o
<1>1. S # {} /\ \A x \in S : (\A y \in S : x >= y) <=> x = o
  OBVIOUS
<1>2. Max(S) = CHOOSE x \in S : \A y \in S : x >= y
  BY DEF Max
<1>3. Max(S) \in S /\ \A y \in S : Max(S) >= y
  BY <1>1, <1>2
<1> QED BY <1>1, <1>3 DEF LatestOrNone

\* Without a change of offset the two walks see the same instants.
LEMMA OccurrenceInUTC ==
    ASSUME NEW f, NEW at \in Int
    PROVE  PreviousOccurrence(f, at) = LatestMatching(f, at, UTC)
<1> DEFINE today == at \div SlotsPerDay
           S == {i \in (today - MaxLookbackDays) * SlotsPerDay .. at :
                   DayMatches(f, i \div SlotsPerDay) /\ i % SlotsPerDay \in f.slots}
           U == {i \in at - (MaxLookbackDays + 2) * SlotsPerDay .. at :
                   /\ ~Repeats(UTC, i)
                   /\ WallClock(UTC, i).day >= WallClock(UTC, at).day - MaxLookbackDays
                   /\ WallClock(UTC, i).slot \in f.slots
                   /\ DayMatches(f, WallClock(UTC, i).day)}
<1>1. UTC \in Zone /\ PlainZone(UTC)
  BY CalendarAssumption DEF UTC, Zone, PlainZone
<1>2. \A i \in Int : /\ Local(UTC, i) = i
                     /\ WallClock(UTC, i) = [day |-> i \div SlotsPerDay, slot |-> i % SlotsPerDay]
  BY DEF UTC, Local, WallClock, ZoneOffset
<1>3. \A i \in Int : ~Repeats(UTC, i)
  BY <1>1, <1>2, RepeatsIsLater
<1>4. today \in Int /\ (today - MaxLookbackDays) * SlotsPerDay \in Int
  BY Divided, CalendarAssumption
<1>5. \A i \in Int : i >= (today - MaxLookbackDays) * SlotsPerDay
                     <=> i \div SlotsPerDay >= today - MaxLookbackDays
  <2> DEFINE low == today - MaxLookbackDays
  <2>1. low \in Int /\ 0 \in SlotOfDay /\ low * SlotsPerDay + 0 = low * SlotsPerDay
    BY <1>4, CalendarAssumption DEF SlotOfDay
  <2> HIDE DEF low
  <2> SUFFICES ASSUME NEW i \in Int
               PROVE  i >= low * SlotsPerDay <=> i \div SlotsPerDay >= low
    BY DEF low
  <2>2. i >= low * SlotsPerDay => i \div SlotsPerDay >= low
    BY <2>1, Divided, DaysDiffer
  <2>3. ASSUME i \div SlotsPerDay >= low
        PROVE  i >= low * SlotsPerDay
    <3>1. low * SlotsPerDay <= (i \div SlotsPerDay) * SlotsPerDay
      BY <2>1, <2>3, Divided, ProductsGrow, CalendarAssumption
    <3> QED BY <2>1, <3>1, Divided, CalendarAssumption DEF SlotOfDay
  <2> QED BY <2>2, <2>3
<1>6. at - (MaxLookbackDays + 2) * SlotsPerDay \in Int
  BY CalendarAssumption
<1>7. \A i \in Int : i \div SlotsPerDay >= today - MaxLookbackDays
                       => i >= at - (MaxLookbackDays + 2) * SlotsPerDay
  BY <1>1, <1>2, LookbackReaches
<1>8. S = U
  <2> HIDE DEF today
  <2>1. \A i : i \in S => i \in U
    BY <1>2, <1>3, <1>4, <1>5, <1>6, <1>7 DEF today
  <2>2. \A i : i \in U => i \in S
    BY <1>2, <1>3, <1>4, <1>5, <1>6, <1>7 DEF today
  <2> QED BY <2>1, <2>2
<1> HIDE DEF S, U
<1> QED BY <1>8 DEF S, U, PreviousOccurrence, LatestMatching

LEMMA OccurrenceIsLatestMatching ==
    ASSUME NEW zone \in Zone, PlainZone(zone), NEW f, f.slots \subseteq SlotOfDay, NEW at \in Int
    PROVE  PreviousOccurrenceInTimeZone(f, at, zone) = LatestMatching(f, at, zone)
<1> DEFINE today == WallClock(zone, at).day
           days  == {d \in today - MaxLookbackDays .. today : DayMatches(f, d)}
           walls == {w \in [day : days, slot : f.slots] :
                       /\ ResolveWallTime(zone, w) # None
                       /\ ResolveWallTime(zone, w) <= at}
           latest == CHOOSE w \in walls : \A v \in walls : SlotOf(v) <= SlotOf(w)
           o == ResolveWallTime(zone, latest)
           U == {i \in at - (MaxLookbackDays + 2) * SlotsPerDay .. at :
                   /\ ~Repeats(zone, i)
                   /\ WallClock(zone, i).day >= today - MaxLookbackDays
                   /\ WallClock(zone, i).slot \in f.slots
                   /\ DayMatches(f, WallClock(zone, i).day)}
<1>1. CASE zone = UTC
  BY <1>1, OccurrenceInUTC DEF PreviousOccurrenceInTimeZone
<1>2. today \in Int /\ at - (MaxLookbackDays + 2) * SlotsPerDay \in Int
  BY WallRead, CalendarAssumption DEF Wall
<1>3. \A w \in walls : w \in Wall /\ w.day <= today
  BY <1>2, CalendarAssumption DEF Wall
<1>4. \A w \in walls : /\ ResolveWallTime(zone, w) \in U
                       /\ WallClock(zone, ResolveWallTime(zone, w)) = w
  <2> SUFFICES ASSUME NEW w \in walls
               PROVE  /\ ResolveWallTime(zone, w) \in U
                      /\ WallClock(zone, ResolveWallTime(zone, w)) = w
    OBVIOUS
  <2> DEFINE r == ResolveWallTime(zone, w)
  <2>1. /\ r \in Int /\ WallClock(zone, r) = w /\ r <= at
        /\ \A i \in Int : WallClock(zone, i) = w => r <= i
    BY <1>3, ResolvedToFirst
  <2>2. w.day \in days /\ w.slot \in f.slots
    OBVIOUS
  <2> HIDE DEF r
  <2>3. ~Repeats(zone, r)
    BY <2>1, CalendarAssumption DEF Repeats
  <2>4. r >= at - (MaxLookbackDays + 2) * SlotsPerDay
    BY <2>1, <2>2, <1>2, LookbackReaches, CalendarAssumption
  <2> QED BY <1>2, <2>1, <2>2, <2>3, <2>4, CalendarAssumption DEF r
<1>5. \A i \in U : /\ WallClock(zone, i) \in walls
                   /\ ResolveWallTime(zone, WallClock(zone, i)) = i
  <2> SUFFICES ASSUME NEW i \in U
               PROVE  /\ WallClock(zone, i) \in walls
                      /\ ResolveWallTime(zone, WallClock(zone, i)) = i
    OBVIOUS
  <2> DEFINE w == WallClock(zone, i)
  <2>1. i \in Int /\ i <= at /\ ~Repeats(zone, i) /\ w \in Wall
    BY <1>2, WallRead
  <2>2. w.day <= today
    BY <2>1, DaysInOrder
  <2>3. w.day \in days /\ w.slot \in f.slots
    BY <1>2, <2>1, <2>2, CalendarAssumption DEF Wall
  <2>4. w = [day |-> w.day, slot |-> w.slot]
    BY <2>1 DEF Wall
  <2> HIDE DEF w
  <2>5. ResolveWallTime(zone, w) = i
    <3> DEFINE r == ResolveWallTime(zone, w)
    <3>1. r \in Int /\ WallClock(zone, r) = w /\ r <= i
      BY <2>1, ResolvedToFirst DEF w
    <3>2. Local(zone, r) = Local(zone, i)
      BY <2>1, <3>1, WallRead DEF w
    <3> HIDE DEF r
    <3>3. i <= r
      BY <2>1, <3>1, <3>2, RepeatsIsLater
    <3> QED BY <2>1, <3>1, <3>3 DEF r
  <2> QED BY <2>1, <2>3, <2>4, <2>5, SchedulerAssumption DEF w
<1>6. CASE zone # UTC /\ walls = {}
  <2>1. U = {}
    BY <1>5, <1>6
  <2> HIDE DEF U
  <2> QED BY <1>6, <2>1 DEF U, PreviousOccurrenceInTimeZone, LatestMatching, LatestOrNone
<1>7. CASE zone # UTC /\ walls # {}
  <2>1. latest \in walls /\ \A v \in walls : SlotOf(v) <= SlotOf(latest)
    <3>1. \A w \in walls : SlotOf(w) \in Int /\ SlotOf(w) <= today * SlotsPerDay + SlotsPerDay
      <4> HIDE DEF walls, today
      <4> SUFFICES ASSUME NEW w \in walls
                   PROVE  SlotOf(w) \in Int /\ SlotOf(w) <= today * SlotsPerDay + SlotsPerDay
        OBVIOUS
      <4>1. w.day \in Int /\ w.slot \in SlotOfDay /\ w.day <= today
        BY <1>3 DEF Wall
      <4>2. w.day * SlotsPerDay <= today * SlotsPerDay
        BY <1>2, <4>1, ProductsGrow, CalendarAssumption
      <4> QED BY <1>2, <4>1, <4>2, CalendarAssumption DEF SlotOf, SlotOfDay
    <3> HIDE DEF walls, today
    <3> DEFINE T == {SlotOf(w) : w \in walls}
               b == today * SlotsPerDay + SlotsPerDay
    <3>2. T \in SUBSET Int /\ T # {} /\ b \in Int /\ \A i \in T : i <= b
      BY <1>2, <1>7, <3>1, CalendarAssumption
    <3>3. Max(T) \in T /\ \A i \in T : i <= Max(T)
      <4> HIDE DEF T, b
      <4> QED BY <3>2, IntMax
    <3>4. \E w \in walls : \A v \in walls : SlotOf(v) <= SlotOf(w)
      BY <3>3
    <3> QED BY <3>4
  <2> HIDE DEF walls, latest
  <2>2. o \in U /\ WallClock(zone, o) = latest
    BY <1>4, <2>1
  <2>3. \A i \in U : i <= o
    <3> SUFFICES ASSUME NEW i \in U
                 PROVE  i <= o
      OBVIOUS
    <3>1. i \in Int /\ o \in Int /\ ~Repeats(zone, i) /\ ~Repeats(zone, o)
      BY <1>2, <2>2
    <3> HIDE DEF U
    <3>2. Local(zone, i) <= Local(zone, o) /\ Local(zone, i) \in Int /\ Local(zone, o) \in Int
      BY <1>5, <2>1, <2>2, <3>1, WallRead
    <3>3. CASE Local(zone, i) = Local(zone, o)
      BY <3>1, <3>3, RepeatsIsLater
    <3>4. CASE Local(zone, i) < Local(zone, o)
      BY <3>1, <3>4, FirstReadingsInOrder
    <3> QED BY <3>1, <3>2, <3>3, <3>4
  <2>4. U \subseteq Int
    BY <1>2
  <2> HIDE DEF U, o
  <2>5. LatestOrNone(U) = o
    BY <2>2, <2>3, <2>4, GreatestIs
  <2> QED BY <1>7, <2>5 DEF U, o, latest, walls, PreviousOccurrenceInTimeZone, LatestMatching
<1> QED BY <1>1, <1>6, <1>7

-----------------------------------------------------------------------------
(* The ticks. *)

FiredInv(t) ==
    /\ \A i \in DOMAIN fired[t] :
         tests[t].lastRun \in Int /\ fired[t][i].occurrence <= tests[t].lastRun
    /\ \A i, j \in DOMAIN fired[t] : i < j => fired[t][i].occurrence < fired[t][j].occurrence

\* A test stays due from the query that found it to the commit: its row is locked,
\* so that nobody else dispatches or edits it; and what was dispatched is no later
\* than the last run, which what is due is.
SchedulerInv ==
    /\ SchedulerTypeOK
    /\ \A r \in Replicas : \A t \in tick[r].due : IsDue(t, tick[r].now)
    /\ \A t \in Tests : FiredInv(t)

Tick == [at : {"idle", "begun", "listed"}, now : Start..MaxTime, due : SUBSET Tests]

LEMMA IdleTick == Idle \in Tick /\ Idle.due = {}
BY SchedulerAssumption DEF Idle, Tick

\* A step of one ticker that dispatches nothing.
LEMMA TickMoves ==
    ASSUME SchedulerInv, NEW r \in Replicas, NEW k \in Tick, tick' = [tick EXCEPT ![r] = k],
           UNCHANGED <<clock, tests, warned, fired>>,
           rowLock' \in [Tests -> Replicas \cup {Free, Dead}],
           \A q \in Replicas \ {r} : \A t \in Tests : rowLock[t] = q => rowLock'[t] = q,
           \A t \in k.due : rowLock'[t] = r /\ IsDue(t, k.now)
    PROVE  SchedulerInv'
<1>1. tick \in [Replicas -> Tick]
  BY DEF SchedulerInv, SchedulerTypeOK, Tick
<1>2. tick' \in [Replicas -> Tick] /\ tick'[r] = k /\ \A q \in Replicas \ {r} : tick'[q] = tick[q]
  BY <1>1
<1>3. \A t, now : IsDue(t, now)' <=> IsDue(t, now)
  BY DEF IsDue, Occurrence
<1>4. \A q \in Replicas : \A t \in tick'[q].due : rowLock'[t] = q /\ IsDue(t, tick'[q].now)
  BY <1>1, <1>2 DEF SchedulerInv, SchedulerTypeOK, Tick
<1>5. \A t \in Tests : FiredInv(t)'
  BY DEF SchedulerInv, FiredInv
<1> QED BY <1>2, <1>3, <1>4, <1>5 DEF SchedulerInv, SchedulerTypeOK, Tick

LEMMA TickStartsStep ==
    ASSUME SchedulerInv, NEW r \in Replicas, TickStarts(r)
    PROVE  SchedulerInv'
<1> DEFINE k == [at |-> "begun", now |-> clock, due |-> {}]
<1>1. k \in Tick /\ k.due = {}
  BY DEF SchedulerInv, SchedulerTypeOK, Tick
<1>2. rowLock' \in [Tests -> Replicas \cup {Free, Dead}]
  BY DEF TickStarts, SchedulerInv, SchedulerTypeOK
<1> QED BY <1>1, <1>2, TickMoves DEF TickStarts

LEMMA TickListsStep ==
    ASSUME SchedulerInv, NEW r \in Replicas, TickLists(r)
    PROVE  SchedulerInv'
<1> DEFINE found == ListCandidates(tick[r].now)
           due == {t \in found \ warned : IsDue(t, tick[r].now)}
           k == [tick[r] EXCEPT !.at = "listed", !.due = due]
<1>1. tick[r] \in Tick /\ tick \in [Replicas -> Tick]
  BY DEF SchedulerInv, SchedulerTypeOK, Tick
<1>2. \A t \in found : t \in Tests /\ rowLock[t] = Free
  BY DEF ListCandidates, Offered
<1>3. k \in Tick /\ k.due = due /\ k.now = tick[r].now
  BY <1>1, <1>2 DEF Tick
<1>4. tick' = [tick EXCEPT ![r] = k]
  BY <1>1 DEF TickLists
<1>5. rowLock' = [t \in Tests |-> IF t \in found THEN r ELSE rowLock[t]]
  BY DEF TickLists
<1>6. rowLock' \in [Tests -> Replicas \cup {Free, Dead}]
  BY <1>5 DEF SchedulerInv, SchedulerTypeOK
<1>7. \A q \in Replicas \ {r} : \A t \in Tests : rowLock[t] = q => rowLock'[t] = q
  BY <1>2, <1>5, LocksDiffer
<1>8. \A t \in k.due : rowLock'[t] = r /\ IsDue(t, k.now)
  BY <1>2, <1>3, <1>5
<1> HIDE DEF k
<1> QED BY <1>3, <1>4, <1>6, <1>7, <1>8, TickMoves DEF TickLists

LEMMA TickEndsStep ==
    ASSUME SchedulerInv, NEW r \in Replicas, TickRollsBack(r) \/ TickDies(r)
    PROVE  SchedulerInv'
<1>1. PICK l \in {Free, Dead} :
        rowLock' = [t \in Tests |-> IF rowLock[t] = r THEN l ELSE rowLock[t]]
  BY DEF TickRollsBack, TickDies, Unlocked
<1>2. /\ tick' = [tick EXCEPT ![r] = Idle]
      /\ UNCHANGED <<clock, tests, warned, fired>>
  BY DEF TickRollsBack, TickDies
<1>3. rowLock' \in [Tests -> Replicas \cup {Free, Dead}]
  BY <1>1 DEF SchedulerInv, SchedulerTypeOK
<1>4. \A q \in Replicas \ {r} : \A t \in Tests : rowLock[t] = q => rowLock'[t] = q
  BY <1>1
<1> QED BY <1>2, <1>3, <1>4, IdleTick, TickMoves

\* A run for an occurrence that is due is for a later one than any before.
LEMMA FiredFacts ==
    ASSUME SchedulerInv, NEW t \in Tests, NEW now \in Start..MaxTime, IsDue(t, now),
           fired'[t] = Fired(t, now), tests'[t].lastRun = now
    PROVE  FiredInv(t)' /\ fired'[t] \in Seq([occurrence : Int, at : Int])
<1> DEFINE o == Occurrence(t, now)
           f == fired[t]
           new == [occurrence |-> o, at |-> now]
<1>1. f \in Seq([occurrence : Int, at : Int]) /\ now \in Int /\ tests[t].created \in Int
  BY SchedulerAssumption DEF SchedulerInv, SchedulerTypeOK
<1>2. o \in Int /\ o <= now
  BY OccurrenceIsPast DEF SchedulerInv, IsDue, IsDueForSchedule
<1>3. tests[t].lastRun \in Int => tests[t].lastRun < o
  <2>1. tests[t].lastRun \in Int => tests[t].lastRun # None
    BY SchedulerAssumption
  <2> QED BY <1>2, <2>1 DEF IsDue, IsDueForSchedule
<1>4. \A i \in DOMAIN f : f[i].occurrence \in Int /\ f[i].occurrence < o
  <2> SUFFICES ASSUME NEW i \in DOMAIN f
               PROVE  f[i].occurrence \in Int /\ f[i].occurrence < o
    OBVIOUS
  <2>1. f[i] \in [occurrence : Int, at : Int]
    <3> DEFINE Entry == [occurrence : Int, at : Int]
    <3>1. f \in Seq(Entry)
      BY <1>1
    <3> HIDE DEF Entry, f
    <3>2. f[i] \in Entry
      BY <3>1
    <3> QED BY <3>2 DEF Entry
  <2>2. tests[t].lastRun \in Int /\ f[i].occurrence <= tests[t].lastRun
    BY DEF SchedulerInv, FiredInv
  <2> QED BY <1>2, <1>3, <2>1, <2>2
<1>5. new \in [occurrence : Int, at : Int] /\ new.occurrence = o
  BY <1>1, <1>2
<1>6. fired'[t] = Append(f, new)
  BY DEF Fired
<1> HIDE DEF new, f
<1>7. /\ fired'[t] \in Seq([occurrence : Int, at : Int])
      /\ DOMAIN fired'[t] = DOMAIN f \cup {Len(f) + 1} /\ DOMAIN f = 1..Len(f) /\ Len(f) \in Nat
      /\ fired'[t][Len(f) + 1] = new /\ \A i \in DOMAIN f : fired'[t][i] = f[i]
  BY <1>1, <1>5, <1>6
<1> HIDE DEF o
<1>8. \A i \in DOMAIN fired'[t] : fired'[t][i].occurrence <= now
  BY <1>1, <1>2, <1>4, <1>5, <1>7
<1>9. ASSUME NEW i \in DOMAIN fired'[t], NEW j \in DOMAIN fired'[t], i < j
      PROVE  fired'[t][i].occurrence < fired'[t][j].occurrence
  <2>1. i \in DOMAIN f
    BY <1>7, <1>9
  <2>2. CASE j \in DOMAIN f
    BY <1>7, <1>9, <2>1, <2>2 DEF SchedulerInv, FiredInv, f
  <2>3. CASE j = Len(f) + 1
    BY <1>4, <1>5, <1>7, <2>1, <2>3
  <2> QED BY <1>7, <2>2, <2>3
<1> QED BY <1>1, <1>7, <1>8, <1>9 DEF FiredInv

LEMMA TickCommitsStep ==
    ASSUME SchedulerInv, NEW r \in Replicas, TickCommits(r)
    PROVE  SchedulerInv'
<1> DEFINE now == tick[r].now
           due == tick[r].due
<1>1. /\ tick \in [Replicas -> Tick] /\ due \subseteq Tests /\ now \in Start..MaxTime
      /\ \A t \in due : rowLock[t] = r /\ IsDue(t, now)
  BY DEF SchedulerInv, SchedulerTypeOK, Tick
<1>2. /\ tests' = [t \in Tests |-> IF t \in due THEN [tests[t] EXCEPT !.lastRun = now] ELSE tests[t]]
      /\ fired' = [t \in Tests |-> IF t \in due THEN Fired(t, now) ELSE fired[t]]
      /\ rowLock' = [t \in Tests |-> IF rowLock[t] = r THEN Free ELSE rowLock[t]]
      /\ tick' = [tick EXCEPT ![r] = Idle]
      /\ UNCHANGED <<clock, warned>>
  BY DEF TickCommits, Unlocked
<1> HIDE DEF now, due
<1>3. \A t \in Tests : tests[t] \in [enabled : BOOLEAN, schedule : Schedules,
                                     lastRun : Int \cup {None}, created : Int]
  BY DEF SchedulerInv, SchedulerTypeOK
<1>4. \A t \in due : tests'[t].lastRun = now /\ fired'[t] = Fired(t, now)
  BY <1>1, <1>2, <1>3
<1>5. \A t \in Tests \ due : tests'[t] = tests[t] /\ fired'[t] = fired[t]
  BY <1>2
<1>6. \A t \in Tests : FiredInv(t)' /\ fired'[t] \in Seq([occurrence : Int, at : Int])
  <2>1. ASSUME NEW t \in due
        PROVE  FiredInv(t)' /\ fired'[t] \in Seq([occurrence : Int, at : Int])
    BY <1>1, <1>4, FiredFacts
  <2>2. ASSUME NEW t \in Tests \ due
        PROVE  FiredInv(t)' /\ fired'[t] \in Seq([occurrence : Int, at : Int])
    BY <1>5 DEF SchedulerInv, SchedulerTypeOK, FiredInv
  <2> QED BY <2>1, <2>2
<1>7. tests' \in [Tests -> [enabled : BOOLEAN, schedule : Schedules,
                            lastRun : Int \cup {None}, created : Int]]
  <2>1. now \in Int
    BY <1>1, SchedulerAssumption
  <2> QED BY <1>2, <1>3, <2>1
<1>8. tick' \in [Replicas -> Tick] /\ tick'[r] = Idle /\ \A q \in Replicas \ {r} : tick'[q] = tick[q]
  BY <1>1, <1>2, IdleTick
<1>9. \A q \in Replicas : \A t \in tick'[q].due : rowLock'[t] = q /\ (IsDue(t, tick[q].now))'
  <2> SUFFICES ASSUME NEW q \in Replicas \ {r}, NEW t \in tick[q].due
               PROVE  rowLock'[t] = q /\ (IsDue(t, tick[q].now))'
    BY <1>8, IdleTick
  <2>1. t \in Tests /\ rowLock[t] = q /\ IsDue(t, tick[q].now)
    BY DEF SchedulerInv, SchedulerTypeOK
  <2>2. rowLock'[t] = q /\ tests'[t] = tests[t]
    BY <1>1, <1>2, <1>5, <2>1
  <2> QED BY <1>8, <2>1, <2>2 DEF IsDue, Occurrence
<1>10. /\ rowLock' \in [Tests -> Replicas \cup {Free, Dead}]
       /\ fired' \in [Tests -> Seq([occurrence : Int, at : Int])]
  BY <1>2, <1>6 DEF SchedulerInv, SchedulerTypeOK
<1>11. clock' \in Start..MaxTime /\ warned' \subseteq Tests
  BY <1>2 DEF SchedulerInv, SchedulerTypeOK
<1> QED BY <1>6, <1>7, <1>8, <1>9, <1>10, <1>11 DEF SchedulerInv, SchedulerTypeOK, Tick

\* The server, the clock, and warnings of projects.
LEMMA SurroundingsStep ==
    ASSUME SchedulerInv, DeadTickEnds \/ TimePasses \/ \E t \in Tests : WarningFlips(t)
    PROVE  SchedulerInv'
<1>1. UNCHANGED <<tests, tick, fired>>
  BY DEF DeadTickEnds, TimePasses, WarningFlips
<1>2. \A t, now : IsDue(t, now)' <=> IsDue(t, now)
  BY <1>1 DEF IsDue, Occurrence
<1>3. clock' \in Start..MaxTime /\ warned' \subseteq Tests
  <2>1. clock \in Start..MaxTime /\ warned \subseteq Tests
    BY DEF SchedulerInv, SchedulerTypeOK
  <2>2. clock' \in Start..MaxTime
    BY <2>1, SchedulerAssumption DEF DeadTickEnds, TimePasses, WarningFlips
  <2> QED BY <2>1, <2>2 DEF DeadTickEnds, TimePasses, WarningFlips
<1>4. /\ rowLock' \in [Tests -> Replicas \cup {Free, Dead}]
      /\ \A r \in Replicas : \A t \in Tests : rowLock[t] = r => rowLock'[t] = r
  BY LocksDiffer DEF DeadTickEnds, TimePasses, WarningFlips, SchedulerInv, SchedulerTypeOK
<1>5. \A t \in Tests : FiredInv(t)'
  BY <1>1 DEF SchedulerInv, FiredInv
<1> QED BY <1>1, <1>2, <1>3, <1>4, <1>5 DEF SchedulerInv, SchedulerTypeOK

LEMMA EditTestStep ==
    ASSUME SchedulerInv, NEW u \in Tests, EditTest(u)
    PROVE  SchedulerInv'
<1>1. PICK s \in Schedules, e \in BOOLEAN :
        tests' = [tests EXCEPT ![u].schedule = s, ![u].enabled = e]
  BY DEF EditTest
<1>2. UNCHANGED <<clock, warned, rowLock, tick, fired>> /\ rowLock[u] = Free
  BY DEF EditTest
<1>3. tests \in [Tests -> [enabled : BOOLEAN, schedule : Schedules,
                           lastRun : Int \cup {None}, created : Int]]
  BY DEF SchedulerInv, SchedulerTypeOK
<1>4. /\ tests' \in [Tests -> [enabled : BOOLEAN, schedule : Schedules,
                               lastRun : Int \cup {None}, created : Int]]
      /\ \A t \in Tests : tests'[t].lastRun = tests[t].lastRun
      /\ \A t \in Tests \ {u} : tests'[t] = tests[t]
  BY <1>1, <1>3
<1>5. \A r \in Replicas : \A t \in tick[r].due : IsDue(t, tick[r].now)'
  <2> SUFFICES ASSUME NEW r \in Replicas, NEW t \in tick[r].due
               PROVE  IsDue(t, tick[r].now)'
    OBVIOUS
  <2>1. t \in Tests /\ t # u /\ IsDue(t, tick[r].now)
    BY <1>2, LocksDiffer DEF SchedulerInv, SchedulerTypeOK
  <2> QED BY <1>2, <1>4, <2>1 DEF IsDue, Occurrence
<1>6. \A t \in Tests : FiredInv(t)'
  BY <1>2, <1>4 DEF SchedulerInv, FiredInv
<1> QED BY <1>2, <1>4, <1>5, <1>6 DEF SchedulerInv, SchedulerTypeOK

SchedulerMove ==
    \/ \E r \in Replicas : Ticks(r) \/ TickRollsBack(r) \/ TickDies(r)
    \/ DeadTickEnds \/ TimePasses \/ Users
    \/ UNCHANGED schedulerVars

LEMMA NextTicks == [Next]_vars => SchedulerMove
BY DEF Next, Boots, BootFails, Serves, TickFails, Crashes, Database, Outside, vars, SchedulerMove

LEMMA SchedulerStep ==
    ASSUME SchedulerInv, SchedulerMove
    PROVE  SchedulerInv'
<1>1. ASSUME NEW r \in Replicas, Ticks(r) \/ TickRollsBack(r) \/ TickDies(r)
      PROVE  SchedulerInv'
  BY <1>1, TickStartsStep, TickListsStep, TickCommitsStep, TickEndsStep DEF Ticks
<1>2. CASE DeadTickEnds \/ TimePasses \/ Users
  BY <1>2, SurroundingsStep, EditTestStep DEF Users
<1>3. CASE UNCHANGED schedulerVars
  BY <1>3 DEF schedulerVars, SchedulerInv, SchedulerTypeOK, FiredInv, IsDue, Occurrence
<1> QED BY <1>1, <1>2, <1>3 DEF SchedulerMove

LEMMA SchedulerInvariant == Spec => []SchedulerInv
<1>1. Init => SchedulerInv
  <2> SUFFICES ASSUME SchedulerInit
               PROVE  SchedulerInv
    BY DEF Init
  <2>1. tick \in [Replicas -> Tick] /\ \A r \in Replicas : tick[r].due = {}
    BY IdleTick DEF SchedulerInit
  <2>2. clock \in Start..MaxTime /\ Start \in Int
    BY SchedulerAssumption DEF SchedulerInit
  <2>3. tests \in [Tests -> [enabled : BOOLEAN, schedule : Schedules,
                             lastRun : Int \cup {None}, created : Int]]
    BY <2>2, SchedulerAssumption DEF SchedulerInit
  <2>4. \A t \in Tests : fired[t] = <<>> /\ DOMAIN fired[t] = {}
    BY DEF SchedulerInit
  <2>5. fired \in [Tests -> Seq([occurrence : Int, at : Int])]
    BY DEF SchedulerInit
  <2> QED BY <2>1, <2>2, <2>3, <2>4, <2>5
      DEF SchedulerInit, SchedulerInv, SchedulerTypeOK, Tick, FiredInv
<1>2. SchedulerInv /\ [Next]_vars => SchedulerInv'
  BY SchedulerStep, NextTicks
<1> QED BY <1>1, <1>2, PTL DEF Spec

-----------------------------------------------------------------------------
(* Theorems. *)

\* Whoever dies at whatever point, a name is inserted into schema_migrations only by
\* a replica that no other, living or dead, competes with (migrate.ts:164-171).
THEOREM NamesRecordedOnce == Spec => []M!RecordedOnce
<1>1. MigrationsInv => M!RecordedOnce
  BY NextIsPending DEF M!RecordedOnce
<1> QED BY <1>1, MigrationsInvariant, PTL

\* A replica that serves has every migration of its image, by whomever applied
\* (index.ts:29-33).
THEOREM ServesMigrated == Spec => []M!ServingIsMigrated
<1>1. MigrationsInv => M!ServingIsMigrated
  <2> SUFFICES ASSUME MigrationsInv, NEW r \in Replicas, boot[r].at = "serving"
               PROVE  Files[r] \subseteq M!Range(applied)
    BY DEF M!ServingIsMigrated, M!Serving
  <2>1. M!Range(applied) = Range(applied)
    BY DEF M!Range, Range
  <2> QED BY <2>1 DEF MigrationsInv, PassInv
<1> QED BY <1>1, MigrationsInvariant, PTL

\* No file runs after a later one did, provided images only ever add files at the
\* end: without that an image that lacks a file in the middle brings it in late
\* (migrate.ts:277-285).
THEOREM MigrationsStaySafe ==
    ASSUME ImagesExtend
    PROVE  Spec => []MigrationsSafe
<1>1. Init => OrderInv
  BY DEF Init, M!MigrationsInit, OrderInv, M!ReplaysOnlyNewest, M!Nothing
<1>2. MigrationsInv /\ OrderInv /\ [Next]_vars => OrderInv'
  BY ImagesExtend, OrderStep, NextMoves
<1>3. MigrationsInv /\ OrderInv => MigrationsSafe
  BY NextIsPending DEF MigrationsSafe, M!RecordedOnce, OrderInv
<1> QED BY <1>1, <1>2, <1>3, MigrationsInvariant, PTL DEF Spec

\* Rows, ticks, locks and what a boot has to do stay well formed, the statement of a
\* dead session and the locks a killed ticker leaves included.
THEOREM TypeCorrect == Spec => []TypeOK
<1>1. MigrationsInv /\ SchedulerInv => TypeOK
  BY DEF MigrationsInv, SchedulerInv, TypeOK
<1> QED BY <1>1, MigrationsInvariant, SchedulerInvariant, PTL

\* However many replicas tick, fail or are killed, and however schedules are edited,
\* no occurrence starts two runs of a test and none is dispatched after a later one
\* (scheduler.ts:15-28, cron.ts:363-368).
THEOREM NoOccurrenceTwice == Spec => []EachOccurrenceOnce
<1>1. SchedulerInv => EachOccurrenceOnce
  BY DEF SchedulerInv, FiredInv, EachOccurrenceOnce
<1> QED BY <1>1, SchedulerInvariant, PTL

\* Whatever is dispatched is the latest instant whose wall time, in the project's own
\* zone, the expression names: a skipped wall time does not count and a repeated one
\* counts once, the earlier (cron.ts:243-266, timezone.ts:145-159).
THEOREM OccurrencesAreLatest == Spec => []OccurrenceIsLatest
<1> DEFINE PreviousOf(y) ==
             PreviousOccurrenceInTimeZone(ParseCron(y[1].expression), y[2], y[1].zone)
           table == [y \in Probed \X (Start..MaxTime) |-> PreviousOf(y)]
           agrees == [at \in Start..MaxTime |-> \A s \in Probed :
                        Occurrences[s, at] = LatestMatching(ParseCron(s.expression), at, s.zone)]
<1>1. Occurrences = table
  <2>1. Occurrences = Tabulated(table)
    BY DEF Occurrences
  <2> HIDE DEF table
  <2> QED BY <2>1 DEF Tabulated
<1>2. AgreesAt = agrees
  <2>1. AgreesAt = Tabulated(agrees)
    BY DEF AgreesAt
  <2> HIDE DEF agrees
  <2> QED BY <2>1 DEF Tabulated
<1>3. ASSUME NEW at \in Start..MaxTime, NEW s \in Probed
      PROVE  Occurrences[s, at] = LatestMatching(ParseCron(s.expression), at, s.zone)
  <2> DEFINE x == <<s, at>>
  <2>1. x \in Probed \X (Start..MaxTime) /\ x[1] = s /\ x[2] = at
    OBVIOUS
  <2> HIDE DEF x
  <2>2. Occurrences[x] = PreviousOccurrenceInTimeZone(ParseCron(s.expression), at, s.zone)
    BY <1>1, <2>1
  <2> USE DEF x
  <2>3. ParseCron(s.expression).slots \subseteq SlotOfDay
    BY ProbedAssumption, CalendarAssumption DEF ParseCron, ParseField, SlotOfDay
  <2>4. s.zone \in Zone /\ PlainZone(s.zone) /\ at \in Int
    BY ProbedAssumption, ZonesAssumption, SchedulerAssumption DEF Zone
  <2> QED BY <2>2, <2>3, <2>4, OccurrenceIsLatestMatching
<1>4. SchedulerTypeOK => OccurrenceIsLatest
  BY <1>2, <1>3 DEF SchedulerTypeOK, OccurrenceIsLatest
<1>5. SchedulerInv => SchedulerTypeOK
  BY DEF SchedulerInv
<1> QED BY <1>4, <1>5, SchedulerInvariant, PTL
=============================================================================
