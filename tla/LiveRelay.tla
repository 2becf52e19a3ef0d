------------------------------ MODULE LiveRelay ------------------------------
(***************************************************************************)
(* How what a run does reaches the sockets of one replica.                 *)
(*                                                                         *)
(* A stored event is INSERTed and then announced by its id on one Postgres *)
(* channel (jobs/events-repository.ts); a streaming delta is counted       *)
(* against its job's ceiling and sent whole on another, never stored       *)
(* (jobs/internal-routes.ts, live/deltas.ts).  The replica's relay         *)
(* (live/relay.ts) LISTENs on both with a client of its own, reconnects    *)
(* when it loses it, and publishes to the hub (module LiveSockets).        *)
(***************************************************************************)
EXTENDS Integers, Sequences, FiniteSets

CONSTANTS
    Posts,          \* requests of the Orchestrator: one event or delta each
    Jobs,
    FeatureJobs,    \* jobs with a feature_id
    TestJobs,       \* jobs with a test_id
    DesignJobs,     \* jobs of kind design_grill
    Sizes,          \* bytes of a delta's text
    MaxPayload,     \* LIVE_DELTA_MAX_PAYLOAD_BYTES, less a feature's envelope
    Ceiling,        \* LIVE_DELTA_BYTES_PER_JOB; 0 switches it off
    MaxConnects,    \* bound: clients the relay creates
    MaxFaults       \* bound: lost connections, failed reads, killed requests

ASSUME JobsAssumption ==
    FeatureJobs \subseteq Jobs /\ TestJobs \subseteq Jobs /\ DesignJobs \subseteq Jobs
ASSUME SizesAssumption == Sizes \subseteq Nat \ {0} /\ MaxPayload \in Nat /\ Ceiling \in Nat
ASSUME BoundsAssumption == MaxConnects \in Nat \ {0} /\ MaxFaults \in Nat

VARIABLES
    post,       \* post[r]: the request's next statement, its job and its size
    stored,     \* rows of job_events
    bytes,      \* jobs.delta_bytes
    warned,     \* how often a job's crossing of the ceiling was reported
    sent,       \* deltas announced
    listener,   \* listener[i]: the i-th client and the events it has yet to emit
    client,     \* the listener in use; 0 for null
    timers,     \* retries scheduled
    stopped,
    queue,      \* queue[i]: notifications on their way to listener i
    reading,    \* stored events whose row is being read back
    published,  \* <<post, scope>> handed to the hub
    faults

posting == <<post, stored, bytes, warned, sent>>
relay == <<listener, client, timers, stopped>>
vars == <<posting, relay, queue, reading, published, faults>>

Listeners == 1..MaxConnects
NoListener == 0
Live == {"connecting", "connected", "events", "listening"}

-----------------------------------------------------------------------------
(* Scopes. *)

Kinds == {"feature", "design_session", "test"}

\* Every scope of a job's stored events; a job belongs to at most one of each kind.
LiveScopesForJob(j) ==
    {k \in Kinds :
       \/ k = "feature" /\ j \in FeatureJobs
       \/ k = "design_session" /\ j \in DesignJobs \ FeatureJobs
       \/ k = "test" /\ j \in TestJobs}

LiveScopeForJobs == [j \in Jobs |->
    CASE j \in FeatureJobs -> "feature"
      [] j \in DesignJobs \ FeatureJobs -> "design_session"
      [] j \in TestJobs \ (FeatureJobs \cup DesignJobs) -> "test"
      [] OTHER -> "none"]

\* The primary one, the only scope of a delta.
LiveScopeForJob(j) == LiveScopeForJobs[j]

EnvelopesToPrimary(j) == IF LiveScopeForJob(j) = "none" THEN {} ELSE {LiveScopeForJob(j)}

RelayEnvelopesFor(j) == LiveScopesForJob(j)

\* A design session's envelope is longer than the one the route measures with.
Envelope(k) == IF k = "design_session" THEN 1 ELSE 0

DeltaTextFitsPayload(n) == n <= MaxPayload
EncodeDeltaPayload(k, n) == n + Envelope(k) <= MaxPayload

-----------------------------------------------------------------------------
(* Posting. *)

Idle == [at |-> "idle"]
Over == [at |-> "done"]
At(r, at) == post[r].at = at

Init ==
    /\ post = [r \in Posts |-> Idle]
    /\ stored = {} /\ sent = {}
    /\ bytes = [j \in Jobs |-> 0]
    /\ warned = [j \in Jobs |-> 0]
    /\ listener = [i \in Listeners |->
                     [state |-> IF i = 1 THEN "connecting" ELSE "unused", signals |-> 0]]
    /\ client = 1 /\ timers = 0 /\ stopped = FALSE
    /\ queue = [i \in Listeners |-> <<>>]
    /\ reading = {} /\ published = {} /\ faults = 0

\* NOTIFY reaches the connections that listen on the channel.
Notify(channel, r) ==
    queue' = [i \in Listeners |->
               IF listener[i].state = "listening"
                  \/ (channel = "event" /\ listener[i].state = "events")
               THEN Append(queue[i], [channel |-> channel, post |-> r])
               ELSE queue[i]]

CreateEventLater(r, j) ==
    /\ At(r, "idle")
    /\ post' = [post EXCEPT ![r] = [at |-> "notify", job |-> j]]
    /\ UNCHANGED <<stored, bytes, warned, sent, relay, queue, reading, published, faults>>

\* JobEventRepository.create: the INSERT and the NOTIFY commit one after the other.
CreateEvent(r, j) ==
    /\ At(r, "idle")
    /\ stored' = stored \cup {r}
    /\ post' = [post EXCEPT ![r] = [at |-> "notify", job |-> j]]
    /\ UNCHANGED <<bytes, warned, sent, relay, queue, reading, published, faults>>

NotifyEvent(r) ==
    /\ At(r, "notify")
    /\ Notify("event", r)
    /\ post' = [post EXCEPT ![r].at = "done"]
    /\ UNCHANGED <<stored, bytes, warned, sent, relay, reading, published, faults>>

\* The process dies, or the NOTIFY fails.
NotifyFails(r) ==
    /\ At(r, "notify") /\ faults < MaxFaults
    /\ post' = [post EXCEPT ![r].at = "done"]
    /\ faults' = faults + 1
    /\ UNCHANGED <<stored, bytes, warned, sent, relay, queue, reading, published>>

\* The route refuses a text that does not fit; that changes nothing.
DeltaArrives(r, j, n) ==
    /\ At(r, "idle")
    /\ DeltaTextFitsPayload(n)
    /\ post' = [post EXCEPT ![r] = [at |-> "count", job |-> j, size |-> n]]
    /\ UNCHANGED <<stored, bytes, warned, sent, relay, queue, reading, published, faults>>

Exceeds(total) == Ceiling > 0 /\ total > Ceiling

CrossesBelow(previous, total) == Exceeds(total) /\ previous < Ceiling

Crosses(previous, total) == Exceeds(total) /\ previous <= Ceiling

\* What the ceiling stops is the relaying: the job goes on, and so do its sockets.
Relayed(j, total) == LiveScopeForJob(j) # "none" /\ ~Exceeds(total)

\* recordRelayedDeltaBytes is one UPDATE, and what follows needs only what it
\* returned: the scope, the ceiling and its report.
RecordRelayedDeltaBytes(r) ==
    LET j == post[r].job
        total == bytes[j] + post[r].size IN
    /\ At(r, "count")
    /\ bytes' = [bytes EXCEPT ![j] = total]
    /\ warned' = IF LiveScopeForJob(j) # "none" /\ Crosses(bytes[j], total)
                 THEN [warned EXCEPT ![j] = @ + 1] ELSE warned
    /\ post' = [post EXCEPT ![r].at =
                  IF Relayed(j, total) THEN "publish" ELSE "done"]
    /\ UNCHANGED <<stored, sent, relay, queue, reading, published, faults>>

\* A payload that cannot be encoded is dropped with a log line.
PublishDelta(r) ==
    /\ At(r, "publish")
    /\ IF EncodeDeltaPayload(LiveScopeForJob(post[r].job), post[r].size)
       THEN Notify("delta", r) /\ sent' = sent \cup {r}
       ELSE UNCHANGED <<queue, sent>>
    /\ post' = [post EXCEPT ![r].at = "done"]
    /\ UNCHANGED <<stored, bytes, warned, relay, reading, published, faults>>

-----------------------------------------------------------------------------
(* The LISTEN client. *)

Became(i, state, signals) ==
    [listener EXCEPT ![i] = [state |-> state, signals |-> @.signals + signals]]

KeepsPosting == UNCHANGED <<posting, reading, published>>

Used == {i \in Listeners : listener[i].state # "unused"}
Fresh == Cardinality(Used) + 1

\* `await listener.connect()` returns; the relay may have been stopped meanwhile.
Connected(i) ==
    /\ listener[i].state = "connecting"
    /\ listener' = IF stopped THEN Became(i, "ended", 1) ELSE Became(i, "connected", 0)
    /\ KeepsPosting /\ UNCHANGED <<client, timers, stopped, queue, faults>>

Listen(i) ==
    /\ listener[i].state \in {"connected", "events"}
    /\ listener' = Became(i, IF listener[i].state = "connected" THEN "events" ELSE "listening", 0)
    /\ KeepsPosting /\ UNCHANGED <<client, timers, stopped, queue, faults>>

\* The connection is refused or drops.  'error' and 'end' are both emitted, or
\* the rejected connect or LISTEN and one of them.
Lost(i) ==
    /\ listener[i].state \in Live
    /\ faults < MaxFaults
    /\ faults' = faults + 1
    /\ listener' = Became(i, "ended", 2)
    /\ queue' = [queue EXCEPT ![i] = <<>>]
    /\ KeepsPosting /\ UNCHANGED <<client, timers, stopped>>

MattersWhileRunning(i) == ~stopped

MattersOfFirst(i) == ~stopped /\ client = i /\ i = 1

Matters(i) == ~stopped /\ client = i

\* onLost: one of the signals of a listener that ended.
OnLost(i) ==
    /\ listener[i].signals > 0
    /\ listener' = Became(i, "ended", -1)
    /\ IF Matters(i)
       THEN client' = NoListener /\ timers' = timers + 1
       ELSE UNCHANGED <<client, timers>>
    /\ KeepsPosting /\ UNCHANGED <<stopped, queue, faults>>

\* The timer runs out and connect() is called.
Retry ==
    /\ timers > 0
    /\ Fresh \in Listeners
    /\ timers' = timers - 1
    /\ IF stopped THEN UNCHANGED <<client, listener>>
       ELSE client' = Fresh /\ listener' = Became(Fresh, "connecting", 0)
    /\ KeepsPosting /\ UNCHANGED <<stopped, queue, faults>>

\* A client that is still connecting is ended when its connect() has returned.
EndedByStop(i) ==
    IF i # NoListener /\ listener[i].state \in Live \ {"connecting"}
    THEN Became(i, "ended", 1) ELSE listener

Stop ==
    /\ ~stopped
    /\ stopped' = TRUE
    /\ timers' = IF timers > 0 THEN timers - 1 ELSE 0
    /\ client' = NoListener
    /\ listener' = EndedByStop(client)
    /\ KeepsPosting /\ UNCHANGED <<queue, faults>>

HandledAlways(n) ==
    IF n.channel = "event"
    THEN reading' = reading \cup {n.post} /\ UNCHANGED published
    ELSE /\ published' = published \cup {<<n.post, LiveScopeForJob(post[n.post].job)>>}
         /\ UNCHANGED reading

\* deliver publishes a delta at once; deliverStored starts a read.
Handled(n) ==
    IF stopped THEN UNCHANGED <<reading, published>>
    ELSE HandledAlways(n)

\* A listener that was ended may still emit what had arrived.
Notification(i) ==
    /\ queue[i] # <<>>
    /\ queue' = [queue EXCEPT ![i] = Tail(@)]
    /\ Handled(Head(queue[i]))
    /\ UNCHANGED <<posting, relay, faults>>

\* Reads return in any order, and the stop is not looked at again.
FindByIdWithScope(r) ==
    /\ r \in reading
    /\ reading' = reading \ {r}
    /\ published' = published \cup ({r} \X RelayEnvelopesFor(post[r].job))
    /\ UNCHANGED <<posting, relay, queue, faults>>

ReadFails(r) ==
    /\ r \in reading /\ faults < MaxFaults
    /\ reading' = reading \ {r}
    /\ faults' = faults + 1
    /\ UNCHANGED <<posting, relay, queue, published>>

-----------------------------------------------------------------------------

Posting(r) == NotifyEvent(r) \/ RecordRelayedDeltaBytes(r) \/ PublishDelta(r)

Listening(i) == Connected(i) \/ Listen(i) \/ OnLost(i) \/ Notification(i)

Next ==
    \/ \E r \in Posts :
         \/ Posting(r) \/ NotifyFails(r) \/ FindByIdWithScope(r) \/ ReadFails(r)
         \/ \E j \in Jobs : CreateEvent(r, j) \/ \E n \in Sizes : DeltaArrives(r, j, n)
    \/ \E i \in Listeners : Listening(i) \/ Lost(i)
    \/ Retry \/ Stop

\* Postgres answers or the connection drops, timers run out, and the event loop
\* goes on.  Nothing is assumed of the Orchestrator, nor that the relay stops.
Fairness ==
    /\ \A i \in Listeners :
         /\ WF_vars(Connected(i)) /\ WF_vars(Listen(i))
         /\ WF_vars(OnLost(i)) /\ WF_vars(Notification(i))
    /\ WF_vars(Retry)
    /\ \A r \in Posts : WF_vars(Posting(r)) /\ WF_vars(FindByIdWithScope(r))

Spec == Init /\ [][Next]_vars
FairSpec == Spec /\ Fairness

-----------------------------------------------------------------------------
(* Properties. *)

Post ==
    {Idle} \cup [at : {"notify", "done"}, job : Jobs]
    \cup [at : {"count", "publish", "done"}, job : Jobs, size : Sizes]

Announcement == [channel : {"event"}, post : stored] \cup [channel : {"delta"}, post : sent]

\* Types, and what is read back or on its way was posted.
TypeOK ==
    /\ post \in [Posts -> Post]
    /\ stored \subseteq Posts /\ sent \subseteq Posts /\ reading \subseteq stored
    /\ bytes \in [Jobs -> Nat] /\ warned \in [Jobs -> Nat]
    /\ listener \in [Listeners -> [state : Live \cup {"unused", "ended"}, signals : Nat]]
    /\ client \in Listeners \cup {NoListener}
    /\ timers \in Nat /\ stopped \in BOOLEAN /\ faults \in 0..MaxFaults
    /\ queue \in [Listeners -> Seq(Announcement)]
    /\ published \subseteq (stored \cup sent) \X Kinds

\* The relay has one connection, or one on its way, or one retry scheduled; never
\* two, which would publish every frame twice, and none once it has stopped and the
\* connect in progress has returned (relay.ts:220-230).
OneListener ==
    /\ Cardinality({i \in Listeners : listener[i].state \in Live}) + timers <= 1
    /\ stopped =>
         /\ timers = 0
         /\ \A i \in Listeners :
              listener[i].state \in Live => listener[i].state = "connecting"

\* After stop() nothing new is read, no delta is published, and an event only if
\* its row was being read already (relay.ts:161-177).
QuietAfterStop ==
    [][stopped => /\ reading' \subseteq reading
                  /\ published' \ published \subseteq reading \X Kinds]_vars

DeltasSent(j) == {r \in sent : post[r].job = j}

\* The bytes of some deltas: which delta, and which byte of it.
BytesOf(deltas) == UNION {{r} \X (1..post[r].size) : r \in deltas}

\* However many deltas of a job are posted at once, no more bytes are announced
\* than its ceiling allows, and the crossing is reported exactly once
\* (jobs/repository.ts:139-143).
CeilingKept ==
    \A j \in Jobs :
      /\ Ceiling > 0 => Cardinality(BytesOf(DeltasSent(j))) <= Ceiling
      /\ warned[j] = IF LiveScopeForJob(j) # "none" /\ Exceeds(bytes[j]) THEN 1 ELSE 0

\* Whatever connections are lost, the relay ends up listening on both channels,
\* unless it was stopped (with fewer faults than clients, the run's bounds).
Relistens ==
    <>[](stopped \/ (client # NoListener /\ listener[client].state = "listening"))

\* An announced event reaches every scope of its job, unless the relay is stopped
\* or something fails (relay.ts:73-77).
NotifiedIsPublished ==
    \A r \in Posts : \A i \in Listeners :
      (\E k \in DOMAIN queue[i] : queue[i][k] = [channel |-> "event", post |-> r])
        ~> \/ At(r, "done") /\ {r} \X LiveScopesForJob(post[r].job) \subseteq published
           \/ stopped \/ faults > 0

-----------------------------------------------------------------------------
(* What comments of the code say and the code does not do *)

\* types.ts:372-374: "the route accepted it" and "the publisher will send it" are
\* the same statement.
AcceptedDeltaIsSent ==
    \A r \in Posts :
      At(r, "done") /\ "size" \in DOMAIN post[r] =>
        \/ r \in sent
        \/ LiveScopeForJob(post[r].job) = "none" \/ Exceeds(bytes[post[r].job])
=============================================================================
