--------------------------- MODULE LiveRelay_proofs ---------------------------
(***************************************************************************)
(* What LiveRelay guarantees for any number of posts, jobs, listeners and  *)
(* faults.                                                                 *)
(***************************************************************************)
EXTENDS LiveRelay, FiniteSetTheorems, TLAPS

\* What a post's place says of it: an event is announced once its row is stored, and
\* a delta only if its job has a scope.
PostGood(r) ==
    /\ r \in stored => post[r].at \in {"notify", "done"} /\ post[r].job \in Jobs
    /\ post[r].at = "notify" => r \in stored
    /\ post[r].at = "publish" => LiveScopeForJob(post[r].job) \in Kinds
    /\ r \in sent => /\ post[r] \in [at : {"done"}, job : Jobs, size : Sizes]
                     /\ LiveScopeForJob(post[r].job) \in Kinds

\* Deltas that were counted below the ceiling and not dropped since.
Admitted(j) ==
    {r \in Posts : (At(r, "publish") \/ r \in sent) /\ post[r].job = j}

CeilingInv(j) ==
    /\ IsFiniteSet(BytesOf(Admitted(j)))
    /\ Cardinality(BytesOf(Admitted(j))) <= bytes[j]
    /\ Ceiling > 0 => Cardinality(BytesOf(Admitted(j))) <= Ceiling
    /\ warned[j] = IF LiveScopeForJob(j) # "none" /\ Exceeds(bytes[j]) THEN 1 ELSE 0

\* Listeners are created in order, and only those that ended have anything to tell.
UsedInOrder == \E k \in 0..MaxConnects : Used = 1..k

SignalsOfEnded ==
    \A i \in Listeners : /\ listener[i].signals > 0 => listener[i].state = "ended"
                         /\ listener[i].state = "unused" => listener[i].signals = 0

\* Either the relay's client is the only live one, or ended and yet to tell, or a
\* retry is scheduled in its place.
OneWhileRunning ==
    \/ /\ client \in Listeners /\ timers = 0
       /\ \A i \in Listeners : listener[i].state \in Live => i = client
    \/ /\ client = NoListener /\ timers = 1
       /\ \A i \in Listeners : listener[i].state \notin Live

NoneWhenStopped ==
    /\ client = NoListener /\ timers = 0
    /\ \E k \in Listeners : \A i \in Listeners :
         listener[i].state \in Live => i = k /\ listener[i].state = "connecting"

ListenerInv ==
    /\ UsedInOrder
    /\ SignalsOfEnded
    /\ IF stopped THEN NoneWhenStopped ELSE OneWhileRunning

RelayInv ==
    /\ TypeOK
    /\ \A r \in Posts : PostGood(r)
    /\ \A j \in Jobs : CeilingInv(j)
    /\ ListenerInv

-----------------------------------------------------------------------------
(* Types, by what they are types of. *)

PostingTypes ==
    /\ post \in [Posts -> Post] /\ stored \subseteq Posts /\ sent \subseteq Posts
    /\ bytes \in [Jobs -> Nat] /\ warned \in [Jobs -> Nat]

RelayTypes ==
    /\ listener \in [Listeners -> [state : Live \cup {"unused", "ended"}, signals : Nat]]
    /\ client \in Listeners \cup {NoListener} /\ timers \in Nat /\ stopped \in BOOLEAN

FlowTypes ==
    /\ reading \subseteq stored /\ faults \in 0..MaxFaults
    /\ queue \in [Listeners -> Seq(Announcement)]
    /\ published \subseteq (stored \cup sent) \X Kinds

LEMMA TypesSplit == TypeOK <=> PostingTypes /\ RelayTypes /\ FlowTypes
BY DEF TypeOK, PostingTypes, RelayTypes, FlowTypes

LEMMA ScopesAreKinds ==
    /\ \A j \in Jobs : LiveScopesForJob(j) \subseteq Kinds
    /\ \A j \in Jobs : LiveScopeForJob(j) \in Kinds \cup {"none"}
BY DEF LiveScopesForJob, LiveScopeForJob, LiveScopeForJobs, Kinds

\* What is on its way stays well formed while rows and announced deltas are added.
LEMMA QueueGrows ==
    ASSUME NEW q \in Seq(Announcement), stored \subseteq stored', sent \subseteq sent'
    PROVE  q \in Seq(Announcement')
<1>1. Announcement \subseteq Announcement'
  BY DEF Announcement
<1> HIDE DEF Announcement
<1>2. \A i \in DOMAIN q : q[i] \in Announcement'
  BY <1>1
<1>3. q \in [1..Len(q) -> Announcement'] /\ Len(q) \in Nat
  BY <1>2
<1> QED BY <1>3

LEMMA FlowKept ==
    ASSUME FlowTypes, stored \subseteq stored', sent \subseteq sent',
           UNCHANGED <<queue, reading, published>>, faults' \in 0..MaxFaults
    PROVE  FlowTypes'
<1>1. queue' \in [Listeners -> Seq(Announcement')]
  BY QueueGrows DEF FlowTypes
<1> QED BY <1>1 DEF FlowTypes

LEMMA NotifyFacts ==
    ASSUME FlowTypes, stored \subseteq stored', sent \subseteq sent',
           NEW channel \in {"event", "delta"}, NEW r,
           channel = "event" => r \in stored', channel = "delta" => r \in sent',
           Notify(channel, r), UNCHANGED <<reading, published, faults>>
    PROVE  FlowTypes'
<1> DEFINE n == [channel |-> channel, post |-> r]
<1>1. n \in Announcement'
  BY DEF Announcement
<1>2. ASSUME NEW i \in Listeners
      PROVE  queue[i] \in Seq(Announcement') /\ Append(queue[i], n) \in Seq(Announcement')
  <2>1. queue[i] \in Seq(Announcement')
    BY QueueGrows DEF FlowTypes
  <2> HIDE DEF Announcement, n
  <2> QED BY <1>1, <2>1
<1>3. queue' \in [Listeners -> Seq(Announcement')]
  BY <1>2 DEF Notify
<1> QED BY <1>3 DEF FlowTypes

LEMMA RelayUntouched ==
    ASSUME RelayInv, UNCHANGED relay
    PROVE  RelayTypes' /\ ListenerInv'
BY TypesSplit DEF relay, RelayInv, RelayTypes, ListenerInv, Used, UsedInOrder, SignalsOfEnded,
    OneWhileRunning, NoneWhenStopped

LEMMA RelayInvNext ==
    ASSUME PostingTypes', RelayTypes', FlowTypes', ListenerInv',
           \A r \in Posts : PostGood(r)', \A j \in Jobs : CeilingInv(j)'
    PROVE  RelayInv'
BY DEF RelayInv, TypeOK, PostingTypes, RelayTypes, FlowTypes

-----------------------------------------------------------------------------
(* Posts. *)

\* A step of one post.
LEMMA PostMoves ==
    ASSUME RelayInv, NEW r \in Posts, NEW p \in Post, post' = [post EXCEPT ![r] = p],
           PostGood(r)', UNCHANGED <<bytes, warned>>,
           stored' \subseteq stored \cup {r}, sent' \subseteq sent \cup {r},
           stored \subseteq stored', sent \subseteq sent'
    PROVE  /\ PostingTypes' /\ \A q \in Posts : PostGood(q)'
           /\ \A q \in Posts \ {r} : post'[q] = post[q]
<1>1. post \in [Posts -> Post]
  BY DEF RelayInv, TypeOK
<1>2. post' \in [Posts -> Post] /\ \A q \in Posts \ {r} : post'[q] = post[q]
  BY <1>1
<1>3. PostingTypes'
  BY <1>2 DEF RelayInv, TypeOK, PostingTypes
<1>4. \A q \in Posts \ {r} : PostGood(q)'
  BY <1>2 DEF RelayInv, PostGood
<1> QED BY <1>2, <1>3, <1>4

\* Deltas that were admitted before are admitted still, or dropped.
LEMMA AdmittedShrinks ==
    ASSUME RelayInv, UNCHANGED <<bytes, warned>>,
           \A q \in Posts : (At(q, "publish") \/ q \in sent)' =>
             (At(q, "publish") \/ q \in sent) /\ post'[q].job = post[q].job
                                              /\ post'[q].size = post[q].size
    PROVE  \A j \in Jobs : CeilingInv(j)'
<1> SUFFICES ASSUME NEW j \in Jobs
             PROVE  CeilingInv(j)'
  OBVIOUS
<1> DEFINE S == BytesOf(Admitted(j))
<1>1. S' \subseteq S
  BY DEF BytesOf, Admitted, At
<1>2. CeilingInv(j) /\ bytes[j] \in Nat
  BY DEF RelayInv, TypeOK
<1>3. IsFiniteSet(S) /\ Cardinality(S) <= bytes[j] /\ (Ceiling > 0 => Cardinality(S) <= Ceiling)
  BY <1>2 DEF CeilingInv
<1> HIDE DEF S
<1>4. /\ IsFiniteSet(S') /\ Cardinality(S') <= Cardinality(S)
      /\ Cardinality(S') \in Nat /\ Cardinality(S) \in Nat
  BY <1>1, <1>3, FS_Subset, FS_CardinalityType
<1>5. /\ IsFiniteSet(S') /\ Cardinality(S') <= bytes'[j]
      /\ Ceiling > 0 => Cardinality(S') <= Ceiling
  BY <1>2, <1>3, <1>4, SizesAssumption
<1> QED BY <1>2, <1>5 DEF CeilingInv, S, Exceeds

EventPost == [at : {"notify", "done"}, job : Jobs]
DeltaPost == [at : {"count", "publish", "done"}, job : Jobs, size : Sizes]

LEMMA PostKinds ==
    ASSUME RelayInv, NEW r \in Posts
    PROVE  /\ post[r].at = "notify" => post[r] \in EventPost
           /\ post[r].at \in {"count", "publish"} => post[r] \in DeltaPost
           /\ PostGood(r) /\ post \in [Posts -> Post]
           /\ EventPost \subseteq Post /\ DeltaPost \subseteq Post
BY DEF RelayInv, TypeOK, Post, EventPost, DeltaPost, Idle

LEMMA CreateEventStep ==
    ASSUME RelayInv, NEW r \in Posts, NEW j \in Jobs, CreateEvent(r, j)
    PROVE  RelayInv'
<1> DEFINE p == [at |-> "notify", job |-> j]
<1>1. /\ At(r, "idle") /\ post' = [post EXCEPT ![r] = p] /\ stored' = stored \cup {r}
      /\ UNCHANGED <<bytes, warned, sent, relay, queue, reading, published, faults>>
  BY DEF CreateEvent
<1>2. p \in Post /\ post'[r] = p /\ p.at = "notify" /\ p.job = j /\ r \notin sent
  BY <1>1, PostKinds DEF EventPost, PostGood, At
<1> HIDE DEF p
<1>3. PostGood(r)'
  BY <1>1, <1>2 DEF PostGood
<1>4. /\ PostingTypes' /\ \A q \in Posts : PostGood(q)'
      /\ \A q \in Posts \ {r} : post'[q] = post[q]
  BY <1>1, <1>2, <1>3, PostMoves
<1>5. \A k \in Jobs : CeilingInv(k)'
  BY <1>1, <1>2, <1>4, AdmittedShrinks DEF At
<1>6. FlowTypes'
  BY <1>1, FlowKept, TypesSplit DEF RelayInv, FlowTypes
<1> QED BY <1>1, <1>4, <1>5, <1>6, RelayUntouched, RelayInvNext

LEMMA NotifyEventStep ==
    ASSUME RelayInv, NEW r \in Posts, NotifyEvent(r) \/ NotifyFails(r)
    PROVE  RelayInv'
<1> DEFINE p == [post[r] EXCEPT !.at = "done"]
<1>1. /\ post[r] \in EventPost /\ r \in stored /\ r \notin sent /\ post[r].at = "notify"
      /\ post \in [Posts -> Post]
  BY PostKinds DEF NotifyEvent, NotifyFails, At, PostGood
<1>2. post' = [post EXCEPT ![r] = p] /\ UNCHANGED <<stored, bytes, warned, sent, relay>>
  BY <1>1 DEF NotifyEvent, NotifyFails
<1>3. p \in Post /\ post'[r] = p /\ p.at = "done" /\ p.job \in Jobs
  BY <1>1, <1>2, PostKinds DEF EventPost
<1> HIDE DEF p
<1>4. PostGood(r)'
  BY <1>1, <1>2, <1>3 DEF PostGood
<1>5. /\ PostingTypes' /\ \A q \in Posts : PostGood(q)'
      /\ \A q \in Posts \ {r} : post'[q] = post[q]
  BY <1>2, <1>3, <1>4, PostMoves
<1>6. \A k \in Jobs : CeilingInv(k)'
  BY <1>1, <1>2, <1>3, <1>5, AdmittedShrinks DEF At
<1>7. FlowTypes'
  <2>1. CASE NotifyEvent(r)
    BY <1>1, <1>2, <2>1, NotifyFacts, TypesSplit DEF NotifyEvent, RelayInv
  <2>2. CASE NotifyFails(r)
    <3>1. faults' \in 0..MaxFaults
      BY <2>2, BoundsAssumption DEF NotifyFails, RelayInv, TypeOK
    <3> QED BY <1>2, <2>2, <3>1, FlowKept, TypesSplit DEF NotifyFails, RelayInv
  <2> QED BY <2>1, <2>2
<1> QED BY <1>2, <1>5, <1>6, <1>7, RelayUntouched, RelayInvNext

LEMMA DeltaArrivesStep ==
    ASSUME RelayInv, NEW r \in Posts, NEW j \in Jobs, NEW n \in Sizes, DeltaArrives(r, j, n)
    PROVE  RelayInv'
<1> DEFINE p == [at |-> "count", job |-> j, size |-> n]
<1>1. /\ At(r, "idle") /\ post' = [post EXCEPT ![r] = p]
      /\ UNCHANGED <<stored, bytes, warned, sent, relay, queue, reading, published, faults>>
  BY DEF DeltaArrives
<1>2. /\ p \in Post /\ post'[r] = p /\ p.at = "count"
      /\ r \notin sent /\ r \notin stored
  BY <1>1, PostKinds DEF DeltaPost, PostGood, At
<1> HIDE DEF p
<1>3. PostGood(r)'
  BY <1>1, <1>2 DEF PostGood
<1>4. /\ PostingTypes' /\ \A q \in Posts : PostGood(q)'
      /\ \A q \in Posts \ {r} : post'[q] = post[q]
  BY <1>1, <1>2, <1>3, PostMoves
<1>5. \A k \in Jobs : CeilingInv(k)'
  BY <1>1, <1>2, <1>4, AdmittedShrinks DEF At
<1>6. FlowTypes'
  BY <1>1, FlowKept, TypesSplit DEF RelayInv, FlowTypes
<1> QED BY <1>1, <1>4, <1>5, <1>6, RelayUntouched, RelayInvNext

LEMMA PublishDeltaStep ==
    ASSUME RelayInv, NEW r \in Posts, PublishDelta(r)
    PROVE  RelayInv'
<1> DEFINE p == [post[r] EXCEPT !.at = "done"]
<1>1. /\ post[r] \in DeltaPost /\ r \notin stored /\ post[r].at = "publish"
      /\ LiveScopeForJob(post[r].job) \in Kinds /\ post \in [Posts -> Post]
  BY PostKinds DEF PublishDelta, At, PostGood
<1>2. /\ post' = [post EXCEPT ![r] = p]
      /\ UNCHANGED <<stored, bytes, warned, relay, reading, published, faults>>
      /\ sent \subseteq sent' /\ sent' \subseteq sent \cup {r}
  BY <1>1 DEF PublishDelta
<1>3. /\ p \in [at : {"done"}, job : Jobs, size : Sizes] /\ post'[r] = p /\ p.at = "done"
      /\ p.job = post[r].job /\ p.size = post[r].size /\ p \in Post
  BY <1>1, <1>2, PostKinds DEF DeltaPost
<1> HIDE DEF p
<1>4. PostGood(r)'
  BY <1>1, <1>2, <1>3 DEF PostGood
<1>5. /\ PostingTypes' /\ \A q \in Posts : PostGood(q)'
      /\ \A q \in Posts \ {r} : post'[q] = post[q]
  BY <1>2, <1>3, <1>4, PostMoves
<1>6. \A k \in Jobs : CeilingInv(k)'
  BY <1>1, <1>2, <1>3, <1>5, AdmittedShrinks DEF At
<1>7. FlowTypes'
  <2>1. CASE Notify("delta", r) /\ sent' = sent \cup {r}
    BY <1>2, <2>1, NotifyFacts, TypesSplit DEF RelayInv
  <2>2. CASE UNCHANGED <<queue, sent>>
    BY <1>2, <2>2, FlowKept, TypesSplit DEF RelayInv, FlowTypes
  <2> QED BY <2>1, <2>2 DEF PublishDelta
<1> QED BY <1>2, <1>5, <1>6, <1>7, RelayUntouched, RelayInvNext

\* The bytes of one more delta.
LEMMA OneMoreDelta ==
    ASSUME NEW B, IsFiniteSet(B), NEW r, NEW n \in Nat
    PROVE  /\ IsFiniteSet(B \cup ({r} \X (1..n)))
           /\ Cardinality(B \cup ({r} \X (1..n))) <= Cardinality(B) + n
<1>1. IsFiniteSet(1..n) /\ Cardinality(1..n) = n
  BY FS_Interval
<1>2. IsFiniteSet({r}) /\ Cardinality({r}) = 1
  BY FS_Singleton
<1> DEFINE D == {r} \X (1..n)
<1>3. IsFiniteSet(D) /\ Cardinality(D) = n
  <2>1. IsFiniteSet(D) /\ Cardinality(D) = Cardinality({r}) * Cardinality(1..n)
    BY <1>1, <1>2, FS_Product
  <2> QED BY <1>1, <1>2, <2>1
<1> HIDE DEF D
<1>4. /\ IsFiniteSet(B \cup D)
      /\ Cardinality(B \cup D) = Cardinality(B) + Cardinality(D) - Cardinality(B \cap D)
  BY <1>3, FS_Union
<1>5. Cardinality(B \cap D) \in Nat /\ Cardinality(B) \in Nat
  BY FS_Subset, FS_CardinalityType
<1> QED BY <1>3, <1>4, <1>5 DEF D

LEMMA RecordStep ==
    ASSUME RelayInv, NEW r \in Posts, RecordRelayedDeltaBytes(r)
    PROVE  RelayInv'
<1>a. PICK j \in Jobs, n \in Sizes : j = post[r].job /\ n = post[r].size
  BY PostKinds DEF RecordRelayedDeltaBytes, At, DeltaPost
<1> DEFINE total == bytes[j] + n
           at == IF Relayed(j, total) THEN "publish" ELSE "done"
           p == [post[r] EXCEPT !.at = at]
<1>1. /\ post[r] \in DeltaPost /\ r \notin stored /\ r \notin sent /\ post[r].at = "count"
      /\ post \in [Posts -> Post]
  BY PostKinds DEF RecordRelayedDeltaBytes, At, PostGood
<1>2. /\ post' = [post EXCEPT ![r] = p] /\ bytes' = [bytes EXCEPT ![j] = total]
      /\ warned' = IF LiveScopeForJob(j) # "none" /\ Crosses(bytes[j], total)
                   THEN [warned EXCEPT ![j] = @ + 1] ELSE warned
      /\ UNCHANGED <<stored, sent, relay, queue, reading, published, faults>>
  BY <1>1, <1>a DEF RecordRelayedDeltaBytes
<1>3. /\ n \in Nat /\ n > 0 /\ total \in Nat
      /\ bytes \in [Jobs -> Nat] /\ warned \in [Jobs -> Nat]
  BY SizesAssumption DEF RelayInv, TypeOK
<1>4. /\ p \in Post /\ post'[r] = p /\ p.at = at
      /\ p.job = j /\ p.size = n
  BY <1>1, <1>2, <1>a, PostKinds DEF DeltaPost
<1>5. at = "publish" => LiveScopeForJob(j) \in Kinds /\ ~Exceeds(total)
  BY <1>3, ScopesAreKinds DEF Relayed
<1> HIDE DEF p
<1>6. PostGood(r)'
  BY <1>1, <1>2, <1>4, <1>5 DEF PostGood
<1>7. \A q \in Posts \ {r} : post'[q] = post[q]
  BY <1>1, <1>2
<1>8. post' \in [Posts -> Post] /\ \A q \in Posts : PostGood(q)'
  BY <1>1, <1>2, <1>4, <1>6, <1>7 DEF RelayInv, PostGood
<1>9. bytes' \in [Jobs -> Nat] /\ warned' \in [Jobs -> Nat]
  BY <1>2, <1>3
<1>10. ASSUME NEW k \in Jobs \ {j}
       PROVE  CeilingInv(k)'
  <2>1. bytes'[k] = bytes[k] /\ warned'[k] = warned[k]
    BY <1>2, <1>3
  <2>2. (BytesOf(Admitted(k)))' = BytesOf(Admitted(k))
    <3>1. (Admitted(k))' = Admitted(k)
      BY <1>1, <1>2, <1>4, <1>7, <1>a DEF Admitted, At
    <3>2. \A q \in Admitted(k) : post'[q].size = post[q].size
      BY <1>4, <1>7, <1>a DEF Admitted
    <3> QED BY <3>1, <3>2 DEF BytesOf
  <2> QED BY <2>1, <2>2 DEF RelayInv, CeilingInv, Exceeds
<1>11. CeilingInv(j)'
  <2> DEFINE B == BytesOf(Admitted(j))
             D == {r} \X (1..n)
  <2>1. IsFiniteSet(B) /\ Cardinality(B) <= bytes[j] /\ (Ceiling > 0 => Cardinality(B) <= Ceiling)
    BY <1>3 DEF RelayInv, CeilingInv
  <2>2. IF at = "publish" THEN B' = B \cup D ELSE B' = B
    <3>1. (Admitted(j))' = IF at = "publish" THEN Admitted(j) \cup {r} ELSE Admitted(j)
      BY <1>1, <1>2, <1>4, <1>7, <1>a DEF Admitted, At
    <3>2. \A q \in Posts : post'[q].size = post[q].size
      BY <1>4, <1>7, <1>a
    <3>3. CASE at = "publish"
      BY <1>4, <3>1, <3>2, <3>3 DEF BytesOf, Admitted
    <3>4. CASE at # "publish"
      BY <3>1, <3>2, <3>4 DEF BytesOf, Admitted
    <3> QED BY <3>3, <3>4
  <2> HIDE DEF B
  <2>3. IsFiniteSet(B \cup D) /\ Cardinality(B \cup D) <= Cardinality(B) + n
    BY <1>3, <2>1, OneMoreDelta
  <2> HIDE DEF D
  <2>4. Cardinality(B) \in Nat /\ Cardinality(B \cup D) \in Nat
    BY <2>1, <2>3, FS_CardinalityType
  <2>5. bytes'[j] = total /\ bytes[j] \in Nat
    BY <1>2, <1>3
  <2>6. /\ IsFiniteSet(B') /\ Cardinality(B') <= bytes'[j]
        /\ Ceiling > 0 => Cardinality(B') <= Ceiling
    <3>1. CASE at = "publish"
      <4>1. Ceiling > 0 => total <= Ceiling
        BY <1>3, <1>5, <3>1, SizesAssumption DEF Exceeds
      <4>2. Cardinality(B \cup D) <= total
        BY <1>3, <2>1, <2>3, <2>4, <2>5
      <4>3. B' = B \cup D
        BY <2>2, <3>1
      <4> QED BY <1>3, <2>3, <2>4, <2>5, <4>1, <4>2, <4>3, SizesAssumption
    <3>2. CASE at # "publish"
      BY <1>3, <2>1, <2>2, <2>4, <2>5, <3>2
    <3> QED BY <3>1, <3>2
  <2>7. warned'[j] = IF LiveScopeForJob(j) # "none" /\ Exceeds(bytes'[j]) THEN 1 ELSE 0
    <3>1. warned[j] = IF LiveScopeForJob(j) # "none" /\ Exceeds(bytes[j]) THEN 1 ELSE 0
      BY <1>3 DEF RelayInv, CeilingInv
    <3>2. warned'[j] = IF LiveScopeForJob(j) # "none" /\ Crosses(bytes[j], total)
                       THEN warned[j] + 1 ELSE warned[j]
      BY <1>2, <1>3
    <3> HIDE DEF total
    <3> QED BY <1>3, <2>5, <3>1, <3>2, SizesAssumption DEF Crosses, Exceeds, total
  <2> QED BY <2>6, <2>7 DEF CeilingInv, B, Exceeds
<1>12. FlowTypes'
  BY <1>2, FlowKept, TypesSplit DEF RelayInv, FlowTypes
<1>13. PostingTypes'
  BY <1>2, <1>8, <1>9, TypesSplit DEF RelayInv, PostingTypes
<1> QED BY <1>2, <1>8, <1>10, <1>11, <1>12, <1>13, RelayUntouched,
            RelayInvNext

-----------------------------------------------------------------------------
(* The LISTEN client. *)

LEMMA PostingKept ==
    ASSUME RelayInv, UNCHANGED posting
    PROVE  /\ PostingTypes' /\ \A r \in Posts : PostGood(r)'
           /\ \A j \in Jobs : CeilingInv(j)'
<1>1. UNCHANGED <<post, stored, bytes, warned, sent>>
  BY DEF posting
<1>2. PostingTypes'
  BY <1>1, TypesSplit DEF RelayInv, PostingTypes
<1>3. \A r \in Posts : PostGood(r)'
  BY <1>1 DEF RelayInv, PostGood
<1>4. \A j \in Jobs : CeilingInv(j)'
  BY <1>1, AdmittedShrinks DEF At
<1> QED BY <1>2, <1>3, <1>4

ListenerType == [state : Live \cup {"unused", "ended"}, signals : Nat]

LEMMA ListenersAtRest ==
    ASSUME RelayInv
    PROVE  /\ listener \in [Listeners -> ListenerType] /\ timers \in Nat /\ stopped \in BOOLEAN
           /\ \A i \in Listeners :
                /\ listener[i].signals \in Nat
                /\ listener[i].signals > 0 => listener[i].state = "ended"
                /\ listener[i].state # "ended" => listener[i].signals = 0
           /\ UsedInOrder
           /\ stopped => NoneWhenStopped
           /\ ~stopped => OneWhileRunning
<1>1. listener \in [Listeners -> ListenerType] /\ timers \in Nat /\ stopped \in BOOLEAN
  BY DEF RelayInv, TypeOK, ListenerType
<1>2. \A i \in Listeners : listener[i].signals \in Nat
  BY <1>1 DEF ListenerType
<1> QED BY <1>1, <1>2 DEF RelayInv, ListenerInv, SignalsOfEnded

LEMMA RelayNext ==
    ASSUME listener' \in [Listeners -> ListenerType], UsedInOrder', SignalsOfEnded',
           stopped' \in BOOLEAN, stopped' => NoneWhenStopped', ~stopped' => OneWhileRunning'
    PROVE  RelayTypes' /\ ListenerInv'
BY DEF RelayTypes, ListenerInv, ListenerType, NoneWhenStopped, OneWhileRunning

\* A step of one listener that was created before.
LEMMA ListenerMoves ==
    ASSUME RelayInv, NEW i \in Listeners, listener[i].state # "unused",
           NEW state \in Live \cup {"ended"}, NEW n \in {-1, 0, 1, 2},
           listener[i].signals + n >= 0,
           listener[i].signals + n > 0 => state = "ended",
           listener' = Became(i, state, n)
    PROVE  /\ listener' \in [Listeners -> ListenerType]
           /\ UsedInOrder' /\ SignalsOfEnded'
           /\ listener'[i].state = state
           /\ \A k \in Listeners \ {i} : listener'[k] = listener[k]
<1>1. listener \in [Listeners -> ListenerType] /\ listener[i].signals \in Nat
  BY ListenersAtRest
<1>2. /\ listener'[i] = [state |-> state, signals |-> listener[i].signals + n]
      /\ \A k \in Listeners \ {i} : listener'[k] = listener[k]
      /\ listener' = [listener EXCEPT ![i] =
                        [state |-> state, signals |-> listener[i].signals + n]]
  BY <1>1 DEF Became
<1>3. [state |-> state, signals |-> listener[i].signals + n] \in ListenerType
  BY <1>1 DEF ListenerType
<1>4. listener' \in [Listeners -> ListenerType]
  BY <1>1, <1>2, <1>3
<1>5. state # "unused"
  BY DEF Live
<1>6. Used' = Used
  BY <1>2, <1>5 DEF Used
<1>7. UsedInOrder'
  BY <1>6, ListenersAtRest DEF UsedInOrder
<1>8. SignalsOfEnded'
  BY <1>1, <1>2, <1>5 DEF RelayInv, ListenerInv, SignalsOfEnded
<1> QED BY <1>2, <1>4, <1>7, <1>8

\* A step of one listener that leaves the relay's client and its retry alone, and does
\* not bring a listener to life: what was so of the live ones still is.
LEMMA LiveOnesShrink ==
    ASSUME RelayInv, UNCHANGED <<client, timers, stopped>>,
           \A k \in Listeners : listener'[k].state \in Live => listener[k].state \in Live,
           stopped => \A k \in Listeners :
             listener'[k].state \in Live => listener'[k] = listener[k]
    PROVE  /\ stopped' \in BOOLEAN
           /\ stopped' => NoneWhenStopped'
           /\ ~stopped' => OneWhileRunning'
<1>1. CASE stopped
  BY <1>1, ListenersAtRest DEF NoneWhenStopped
<1>2. CASE ~stopped
  BY <1>2, ListenersAtRest DEF OneWhileRunning
<1> QED BY <1>1, <1>2, ListenersAtRest

LEMMA ConnectedStep ==
    ASSUME RelayInv, NEW i \in Listeners, Connected(i)
    PROVE  RelayTypes' /\ ListenerInv'
<1>1. /\ listener[i].state = "connecting" /\ UNCHANGED <<client, timers, stopped>>
      /\ listener' = IF stopped THEN Became(i, "ended", 1) ELSE Became(i, "connected", 0)
  BY DEF Connected
<1>2. listener[i].signals = 0
  BY <1>1, ListenersAtRest
<1>3. PICK state \in {"connected", "ended"}, n \in {0, 1} :
        /\ listener' = Became(i, state, n) /\ (stopped => state = "ended")
        /\ n = 1 => state = "ended"
  BY <1>1
<1>4. state \in Live \cup {"ended"} /\ "connecting" \in Live /\ "ended" \notin Live
  BY DEF Live
<1>5. /\ listener' \in [Listeners -> ListenerType] /\ UsedInOrder' /\ SignalsOfEnded'
      /\ listener'[i].state = state /\ \A k \in Listeners \ {i} : listener'[k] = listener[k]
  BY <1>1, <1>2, <1>3, <1>4, ListenerMoves
<1>6. stopped' \in BOOLEAN /\ (stopped' => NoneWhenStopped') /\ (~stopped' => OneWhileRunning')
  BY <1>1, <1>3, <1>4, <1>5, LiveOnesShrink
<1> QED BY <1>5, <1>6, RelayNext

LEMMA ListenStep ==
    ASSUME RelayInv, NEW i \in Listeners, Listen(i)
    PROVE  RelayTypes' /\ ListenerInv'
<1>1. /\ listener[i].state \in {"connected", "events"} /\ UNCHANGED <<client, timers, stopped>>
  BY DEF Listen
<1>2. PICK state \in {"events", "listening"} : listener' = Became(i, state, 0)
  BY DEF Listen
<1>3. state \in Live /\ listener[i].state \in Live
  BY <1>1 DEF Live
<1>4. listener[i].signals = 0 /\ ~stopped
  BY <1>1, <1>3, ListenersAtRest DEF NoneWhenStopped
<1>5. /\ listener' \in [Listeners -> ListenerType] /\ UsedInOrder' /\ SignalsOfEnded'
      /\ \A k \in Listeners \ {i} : listener'[k] = listener[k]
  BY <1>1, <1>2, <1>3, <1>4, ListenerMoves
<1>6. stopped' \in BOOLEAN /\ (stopped' => NoneWhenStopped') /\ (~stopped' => OneWhileRunning')
  BY <1>1, <1>3, <1>4, <1>5, LiveOnesShrink
<1> QED BY <1>5, <1>6, RelayNext

LEMMA LostStep ==
    ASSUME RelayInv, NEW i \in Listeners, Lost(i)
    PROVE  RelayTypes' /\ ListenerInv'
<1>1. /\ listener[i].state \in Live /\ UNCHANGED <<client, timers, stopped>>
      /\ listener' = Became(i, "ended", 2)
  BY DEF Lost
<1>2. listener[i].signals \in Nat /\ listener[i].state # "unused" /\ "ended" \notin Live
  BY <1>1, ListenersAtRest DEF Live
<1>3. /\ listener' \in [Listeners -> ListenerType] /\ UsedInOrder' /\ SignalsOfEnded'
      /\ listener'[i].state = "ended" /\ \A k \in Listeners \ {i} : listener'[k] = listener[k]
  BY <1>1, <1>2, ListenerMoves
<1>4. stopped' \in BOOLEAN /\ (stopped' => NoneWhenStopped') /\ (~stopped' => OneWhileRunning')
  BY <1>1, <1>2, <1>3, LiveOnesShrink
<1> QED BY <1>3, <1>4, RelayNext

\* The retry is scheduled once: by the signal of the client in use, which no later
\* signal of the same listener is any more.
LEMMA OnLostStep ==
    ASSUME RelayInv, NEW i \in Listeners, OnLost(i)
    PROVE  RelayTypes' /\ ListenerInv'
<1>1. /\ listener[i].signals > 0 /\ listener' = Became(i, "ended", -1) /\ UNCHANGED stopped
      /\ IF Matters(i) THEN client' = NoListener /\ timers' = timers + 1
                       ELSE UNCHANGED <<client, timers>>
  BY DEF OnLost
<1>2. listener[i].state = "ended" /\ listener[i].signals \in Nat /\ "ended" \notin Live
  BY <1>1, ListenersAtRest DEF Live
<1>3. /\ listener' \in [Listeners -> ListenerType] /\ UsedInOrder' /\ SignalsOfEnded'
      /\ listener'[i].state = "ended" /\ \A k \in Listeners \ {i} : listener'[k] = listener[k]
  BY <1>1, <1>2, ListenerMoves
<1>4. stopped' \in BOOLEAN /\ (stopped' => NoneWhenStopped') /\ (~stopped' => OneWhileRunning')
  <2>1. CASE Matters(i)
    <3>1. ~stopped /\ client = i /\ client' = NoListener /\ timers' = timers + 1
      BY <1>1, <2>1 DEF Matters
    <3>2. timers = 0 /\ \A k \in Listeners : listener[k].state \notin Live
      BY <1>2, <3>1, ListenersAtRest DEF OneWhileRunning, NoListener, Listeners
    <3>3. OneWhileRunning'
      BY <1>2, <1>3, <3>1, <3>2 DEF OneWhileRunning
    <3> QED BY <1>1, <3>1, <3>3, ListenersAtRest
  <2>2. CASE ~Matters(i)
    BY <1>1, <1>2, <1>3, <2>2, LiveOnesShrink
  <2> QED BY <2>1, <2>2
<1> QED BY <1>3, <1>4, RelayNext

LEMMA RetryStep ==
    ASSUME RelayInv, Retry
    PROVE  RelayTypes' /\ ListenerInv'
<1>1. timers > 0 /\ timers' = timers - 1 /\ UNCHANGED stopped /\ Fresh \in Listeners
  BY DEF Retry
<1>2. /\ ~stopped /\ timers' = 0
      /\ \A i \in Listeners : listener[i].state \notin Live
  BY <1>1, ListenersAtRest DEF OneWhileRunning, NoneWhenStopped
<1>3. client' = Fresh /\ listener' = Became(Fresh, "connecting", 0)
  BY <1>2 DEF Retry
<1>4. PICK k \in 0..MaxConnects : Used = 1..k
  BY ListenersAtRest DEF UsedInOrder
<1>5. Fresh = k + 1
  <2>1. Cardinality(1..k) = k
    BY FS_Interval
  <2> QED BY <1>4, <2>1 DEF Fresh
<1>6. listener[Fresh].state = "unused" /\ listener[Fresh].signals = 0
  BY <1>1, <1>4, <1>5, ListenersAtRest DEF Used
<1>7. /\ listener'[Fresh] = [state |-> "connecting", signals |-> 0]
      /\ \A i \in Listeners \ {Fresh} : listener'[i] = listener[i]
      /\ listener' \in [Listeners -> ListenerType]
  <2>1. [state |-> "connecting", signals |-> 0] \in ListenerType
    BY DEF ListenerType, Live
  <2>2. listener' = [listener EXCEPT ![Fresh] = [state |-> "connecting", signals |-> 0]]
    BY <1>3, <1>6, ListenersAtRest DEF Became
  <2> QED BY <1>1, <2>1, <2>2, ListenersAtRest
<1>8. UsedInOrder'
  <2>1. Used' = Used \cup {Fresh}
    BY <1>1, <1>7 DEF Used
  <2>2. k + 1 \in 0..MaxConnects /\ Used' = 1..(k + 1)
    BY <1>1, <1>4, <1>5, <2>1, BoundsAssumption DEF Listeners
  <2> QED BY <2>2 DEF UsedInOrder
<1>9. SignalsOfEnded'
  BY <1>7 DEF RelayInv, ListenerInv, SignalsOfEnded
<1>10. OneWhileRunning'
  BY <1>1, <1>2, <1>3, <1>7 DEF OneWhileRunning
<1> QED BY <1>1, <1>2, <1>7, <1>8, <1>9, <1>10, ListenersAtRest, RelayNext

LEMMA StopStep ==
    ASSUME RelayInv, Stop
    PROVE  RelayTypes' /\ ListenerInv'
<1>1. /\ ~stopped /\ stopped' = TRUE /\ client' = NoListener
      /\ timers' = (IF timers > 0 THEN timers - 1 ELSE 0) /\ listener' = EndedByStop(client)
  BY DEF Stop
<1>2. timers' = 0 /\ 1 \in Listeners /\ NoListener \notin Listeners /\ "ended" \notin Live
  BY <1>1, ListenersAtRest, BoundsAssumption
     DEF OneWhileRunning, NoListener, Listeners, Live
<1>3. CASE client \in Listeners /\ listener[client].state \in Live \ {"connecting"}
  <2>1. PICK i \in Listeners : i = client
    BY <1>3
  <2>2. listener' = Became(i, "ended", 1)
    BY <1>1, <1>2, <1>3, <2>1 DEF EndedByStop
  <2>3. listener[i].signals \in Nat /\ listener[i].state # "unused"
    BY <1>3, <2>1, ListenersAtRest DEF Live
  <2>4. /\ listener' \in [Listeners -> ListenerType] /\ UsedInOrder' /\ SignalsOfEnded'
        /\ listener'[i].state = "ended" /\ \A k \in Listeners \ {i} : listener'[k] = listener[k]
    BY <2>2, <2>3, ListenerMoves
  <2>5. \A k \in Listeners : listener[k].state \in Live => k = i
    BY <1>1, <1>2, <2>1, ListenersAtRest DEF OneWhileRunning
  <2>6. NoneWhenStopped'
    BY <1>1, <1>2, <2>4, <2>5 DEF NoneWhenStopped
  <2> QED BY <1>1, <2>4, <2>6, RelayNext
<1>4. CASE ~(client \in Listeners /\ listener[client].state \in Live \ {"connecting"})
  <2>1. UNCHANGED listener
    BY <1>1, <1>2, <1>4, ListenersAtRest DEF EndedByStop, OneWhileRunning
  <2>2. NoneWhenStopped'
    BY <1>1, <1>2, <1>4, <2>1, ListenersAtRest DEF OneWhileRunning, NoneWhenStopped
  <2>3. /\ listener' \in [Listeners -> ListenerType] /\ UsedInOrder' /\ SignalsOfEnded'
    BY <2>1, ListenersAtRest DEF UsedInOrder, Used, SignalsOfEnded, RelayInv, ListenerInv
  <2> QED BY <1>1, <2>2, <2>3, RelayNext
<1> QED BY <1>3, <1>4

\* The relay's own steps touch no post, and at most take notifications away.
LEMMA RelayStep ==
    ASSUME RelayInv, NEW i \in Listeners,
           Connected(i) \/ Listen(i) \/ Lost(i) \/ OnLost(i) \/ Retry \/ Stop
    PROVE  RelayInv'
<1>1. RelayTypes' /\ ListenerInv'
  BY ConnectedStep, ListenStep, LostStep, OnLostStep, RetryStep, StopStep
<1>2. UNCHANGED <<posting, reading, published>> /\ UNCHANGED <<stored, sent>>
  BY DEF Connected, Listen, Lost, OnLost, Retry, Stop, KeepsPosting, posting
<1>3. PostingTypes' /\ (\A r \in Posts : PostGood(r)') /\ (\A j \in Jobs : CeilingInv(j)')
  BY <1>2, PostingKept
<1>4. FlowTypes'
  <2>1. faults' \in 0..MaxFaults
    BY BoundsAssumption
       DEF RelayInv, TypeOK, Connected, Listen, Lost, OnLost, Retry, Stop
  <2>2. CASE UNCHANGED queue
    BY <1>2, <2>1, <2>2, FlowKept, TypesSplit DEF RelayInv
  <2>3. CASE queue' = [queue EXCEPT ![i] = <<>>]
    <3>1. Announcement' = Announcement
      BY <1>2 DEF Announcement
    <3>2. queue' \in [Listeners -> Seq(Announcement)]
      BY <2>3 DEF RelayInv, TypeOK
    <3> QED BY <1>2, <2>1, <3>1, <3>2 DEF FlowTypes, RelayInv, TypeOK
  <2> QED BY <2>2, <2>3 DEF Connected, Listen, Lost, OnLost, Retry, Stop
<1> QED BY <1>1, <1>3, <1>4, RelayInvNext

-----------------------------------------------------------------------------
(* What the relay publishes. *)

LEMMA HandledStep ==
    ASSUME RelayInv, NEW n \in Announcement, Handled(n)
    PROVE  /\ reading' \subseteq stored /\ published' \subseteq (stored \cup sent) \X Kinds
           /\ stopped => UNCHANGED <<reading, published>>
<1>1. reading \subseteq stored /\ sent \subseteq Posts /\ published \subseteq (stored \cup sent) \X Kinds
  BY DEF RelayInv, TypeOK
<1>2. /\ n.channel = "event" => n.post \in stored
      /\ n.channel # "event" => n.post \in sent
  BY DEF Announcement
<1>3. n.channel # "event" => LiveScopeForJob(post[n.post].job) \in Kinds
  BY <1>1, <1>2 DEF RelayInv, PostGood
<1>4. CASE stopped
  BY <1>1, <1>4 DEF Handled
<1>5. CASE ~stopped
  BY <1>1, <1>2, <1>3, <1>5 DEF Handled, HandledAlways
<1> QED BY <1>4, <1>5

LEMMA NotificationStep ==
    ASSUME RelayInv, NEW i \in Listeners, Notification(i)
    PROVE  /\ RelayInv' /\ (stopped => UNCHANGED <<reading, published>>)
<1>1. /\ queue[i] # <<>> /\ queue' = [queue EXCEPT ![i] = Tail(queue[i])]
      /\ Handled(Head(queue[i])) /\ UNCHANGED <<posting, relay, faults, stored, sent>>
  BY DEF Notification, posting
<1>2. queue[i] \in Seq(Announcement) /\ queue \in [Listeners -> Seq(Announcement)]
  BY DEF RelayInv, TypeOK
<1> HIDE DEF Announcement
<1>3. Head(queue[i]) \in Announcement /\ Tail(queue[i]) \in Seq(Announcement)
  BY <1>1, <1>2
<1>4. queue' \in [Listeners -> Seq(Announcement)]
  BY <1>1, <1>2, <1>3
<1>5. Announcement' = Announcement
  BY <1>1 DEF Announcement
<1>6. FlowTypes' /\ (stopped => UNCHANGED <<reading, published>>)
  BY <1>1, <1>3, <1>4, <1>5, HandledStep DEF FlowTypes, RelayInv, TypeOK
<1> QED BY <1>1, <1>6, PostingKept, RelayUntouched, RelayInvNext

LEMMA ReadStep ==
    ASSUME RelayInv, NEW r \in Posts, FindByIdWithScope(r) \/ ReadFails(r)
    PROVE  /\ RelayInv' /\ reading' \subseteq reading
           /\ published' \ published \subseteq reading \X Kinds
<1>1. /\ r \in reading /\ reading' = reading \ {r} /\ UNCHANGED <<posting, relay, queue>>
      /\ UNCHANGED <<stored, sent>> /\ faults' \in 0..MaxFaults
      /\ \/ published' = published \cup ({r} \X LiveScopesForJob(post[r].job))
         \/ UNCHANGED published
  BY BoundsAssumption
     DEF FindByIdWithScope, ReadFails, RelayEnvelopesFor, posting, RelayInv, TypeOK
<1>2. /\ reading \subseteq stored /\ published \subseteq (stored \cup sent) \X Kinds
      /\ queue \in [Listeners -> Seq(Announcement)]
  BY DEF RelayInv, TypeOK
<1>3. LiveScopesForJob(post[r].job) \subseteq Kinds
  BY <1>1, <1>2, ScopesAreKinds DEF RelayInv, PostGood
<1>4. Announcement' = Announcement
  BY <1>1 DEF Announcement
<1>5. FlowTypes' /\ published' \ published \subseteq reading \X Kinds
  BY <1>1, <1>2, <1>3, <1>4 DEF FlowTypes
<1> QED BY <1>1, <1>5, PostingKept, RelayUntouched, RelayInvNext

-----------------------------------------------------------------------------
(* The specification. *)

LEMMA RelayInit ==
    ASSUME Init
    PROVE  RelayInv
<1>1. /\ \A r \in Posts : post[r] = Idle
      /\ stored = {} /\ sent = {} /\ reading = {} /\ published = {} /\ faults = 0
      /\ client = 1 /\ timers = 0 /\ stopped = FALSE
      /\ 1 \in Listeners /\ \A i \in Listeners :
           /\ listener[i].signals = 0
           /\ i = 1 => listener[i].state = "connecting"
           /\ i # 1 => listener[i].state = "unused"
  BY BoundsAssumption DEF Init, Listeners
<1>2. TypeOK
  <2>1. listener \in [Listeners -> [state : Live \cup {"unused", "ended"}, signals : Nat]]
    BY DEF Init, Live
  <2>2. queue \in [Listeners -> Seq(Announcement)]
    BY DEF Init
  <2>3. post \in [Posts -> Post]
    BY DEF Init, Post
  <2>4. bytes \in [Jobs -> Nat] /\ warned \in [Jobs -> Nat]
    BY DEF Init
  <2>5. timers \in Nat /\ faults \in 0..MaxFaults
    BY <1>1, BoundsAssumption
  <2>6. stopped \in BOOLEAN
    BY <1>1
  <2> QED BY <1>1, <2>1, <2>2, <2>3, <2>4, <2>5, <2>6 DEF TypeOK
<1>3. \A r \in Posts : PostGood(r)
  BY <1>1 DEF PostGood, Idle
<1>4. ASSUME NEW j \in Jobs
      PROVE  CeilingInv(j)
  <2>1. BytesOf(Admitted(j)) = {}
    BY <1>1 DEF BytesOf, Admitted, At, Idle
  <2>2. bytes[j] = 0 /\ warned[j] = 0 /\ ~Exceeds(0)
    BY SizesAssumption DEF Init, Exceeds
  <2> QED BY <2>1, <2>2, FS_EmptySet, SizesAssumption DEF CeilingInv
<1>5. ListenerInv
  <2>1. Used = 1..1
    BY <1>1 DEF Used
  <2>2. UsedInOrder
    BY <2>1, BoundsAssumption DEF UsedInOrder
  <2>3. SignalsOfEnded
    BY <1>1 DEF SignalsOfEnded
  <2>4. OneWhileRunning
    BY <1>1 DEF OneWhileRunning, Live
  <2> QED BY <1>1, <2>2, <2>3, <2>4 DEF ListenerInv
<1> QED BY <1>2, <1>3, <1>4, <1>5 DEF RelayInv

LEMMA RelayStutters ==
    ASSUME RelayInv, UNCHANGED vars
    PROVE  RelayInv'
<1>1. UNCHANGED <<posting, relay, stored, sent, queue, reading, published, faults>>
  BY DEF vars, posting
<1>2. FlowTypes'
  BY <1>1, FlowKept, TypesSplit DEF RelayInv, FlowTypes
<1> QED BY <1>1, <1>2, PostingKept, RelayUntouched, RelayInvNext

\* What a step does to RelayInv, and after the stop to what is read and published.
LEMMA RelaySafe ==
    ASSUME RelayInv, [Next]_vars
    PROVE  /\ RelayInv'
           /\ stopped => /\ reading' \subseteq reading
                         /\ published' \ published \subseteq reading \X Kinds
<1>1. ASSUME NEW r \in Posts, Posting(r) \/ NotifyFails(r)
      PROVE  RelayInv' /\ UNCHANGED <<reading, published>>
  BY <1>1, NotifyEventStep, RecordStep, PublishDeltaStep
     DEF Posting, NotifyEvent, NotifyFails, RecordRelayedDeltaBytes, PublishDelta
<1>2. ASSUME NEW r \in Posts, NEW j \in Jobs,
             CreateEvent(r, j) \/ \E n \in Sizes : DeltaArrives(r, j, n)
      PROVE  RelayInv' /\ UNCHANGED <<reading, published>>
  BY <1>2, CreateEventStep, DeltaArrivesStep DEF CreateEvent, DeltaArrives
<1>3. ASSUME NEW r \in Posts, FindByIdWithScope(r) \/ ReadFails(r)
      PROVE  /\ RelayInv' /\ reading' \subseteq reading
             /\ published' \ published \subseteq reading \X Kinds
  BY <1>3, ReadStep
<1>4. ASSUME NEW i \in Listeners, Connected(i) \/ Listen(i) \/ OnLost(i) \/ Lost(i) \/ Retry \/ Stop
      PROVE  RelayInv' /\ UNCHANGED <<reading, published>>
  BY <1>4, RelayStep DEF Connected, Listen, Lost, OnLost, Retry, Stop, KeepsPosting
<1>5. ASSUME NEW i \in Listeners, Notification(i)
      PROVE  /\ RelayInv' /\ (stopped => UNCHANGED <<reading, published>>)
  BY <1>5, NotificationStep
<1>6. ASSUME UNCHANGED vars
      PROVE  RelayInv' /\ UNCHANGED <<reading, published>>
  BY <1>6, RelayStutters DEF vars
<1>7. 1 \in Listeners
  BY BoundsAssumption DEF Listeners
<1> QED BY <1>1, <1>2, <1>3, <1>4, <1>5, <1>6, <1>7 DEF Next, Listening

LEMMA RelayInvariant == Spec => []RelayInv
<1>1. Init => RelayInv
  BY RelayInit
<1>2. RelayInv /\ [Next]_vars => RelayInv'
  BY RelaySafe
<1> QED BY <1>1, <1>2, PTL DEF Spec

\* Rows, counters, listeners and notifications keep their types; only what was stored
\* or announced is read back or published (live/relay.ts).
THEOREM TypeCorrect == Spec => []TypeOK
<1>1. RelayInv => TypeOK
  BY DEF RelayInv
<1> QED BY <1>1, RelayInvariant, PTL

\* The relay never has two connections, nor a connection and a retry, whatever is lost
\* when, and once stopped has at most a connect that has yet to return (relay.ts:220-230).
THEOREM OneConnection == Spec => []OneListener
<1>1. ASSUME RelayInv
      PROVE  OneListener
  <2> DEFINE L == {i \in Listeners : listener[i].state \in Live}
  <2>1. timers \in Nat
    BY <1>1, ListenersAtRest
  <2>2. \/ timers = 0 /\ \E k \in Listeners : L \subseteq {k}
        \/ timers = 1 /\ L = {}
    BY <1>1, ListenersAtRest DEF OneWhileRunning, NoneWhenStopped
  <2>3. stopped => /\ timers = 0
                   /\ \A i \in Listeners :
                        listener[i].state \in Live => listener[i].state = "connecting"
    BY <1>1, ListenersAtRest DEF NoneWhenStopped
  <2> HIDE DEF L
  <2>4. Cardinality(L) + timers <= 1
    <3>1. ASSUME NEW k \in Listeners, L \subseteq {k}
          PROVE  Cardinality(L) <= 1 /\ Cardinality(L) \in Nat
      <4>1. IsFiniteSet({k}) /\ Cardinality({k}) = 1
        BY FS_Singleton
      <4>2. IsFiniteSet(L) /\ Cardinality(L) <= Cardinality({k})
        BY <3>1, <4>1, FS_Subset
      <4> QED BY <4>1, <4>2, FS_CardinalityType
    <3>2. Cardinality({}) = 0
      BY FS_EmptySet
    <3>3. CASE timers = 0 /\ \E k \in Listeners : L \subseteq {k}
      BY <3>1, <3>3
    <3>4. CASE timers = 1 /\ L = {}
      BY <3>2, <3>4
    <3> QED BY <2>2, <3>3, <3>4
  <2> QED BY <2>3, <2>4 DEF OneListener, L
<1> QED BY <1>1, RelayInvariant, PTL

\* A job's ceiling bounds the bytes announced for it however its deltas interleave, and
\* crossing it is reported once (jobs/repository.ts:139-143).
THEOREM CeilingHolds == Spec => []CeilingKept
<1>1. ASSUME RelayInv, NEW j \in Jobs
      PROVE  Ceiling > 0 => Cardinality(BytesOf(DeltasSent(j))) <= Ceiling
  <2> DEFINE A == BytesOf(Admitted(j))
             D == BytesOf(DeltasSent(j))
  <2>1. D \subseteq A
    BY <1>1 DEF BytesOf, DeltasSent, Admitted, RelayInv, TypeOK
  <2>2. IsFiniteSet(A) /\ (Ceiling > 0 => Cardinality(A) <= Ceiling)
    BY <1>1 DEF RelayInv, CeilingInv
  <2> HIDE DEF A, D
  <2>3. Cardinality(D) <= Cardinality(A) /\ Cardinality(D) \in Nat /\ Cardinality(A) \in Nat
    BY <2>1, <2>2, FS_Subset, FS_CardinalityType
  <2> QED BY <2>2, <2>3, SizesAssumption DEF D
<1>2. RelayInv => CeilingKept
  BY <1>1 DEF RelayInv, CeilingInv, CeilingKept
<1> QED BY <1>2, RelayInvariant, PTL

\* Once stopped, the relay publishes nothing but events whose row was being read
\* (relay.ts:161-177).
THEOREM StoppedIsQuiet == Spec => QuietAfterStop
<1>1. RelayInv /\ [Next]_vars =>
        [stopped => /\ reading' \subseteq reading
                    /\ published' \ published \subseteq reading \X Kinds]_vars
  BY RelaySafe
<1> QED BY <1>1, RelayInvariant, PTL DEF Spec, QuietAfterStop
=============================================================================
