----------------------------- MODULE LiveSockets -----------------------------
(***************************************************************************)
(* The live sockets one replica holds (live/socket.ts) and the hub that    *)
(* routes published frames to them (live/hub.ts).                          *)
(*                                                                         *)
(* A socket is authenticated asynchronously; frames that arrive before are *)
(* buffered.  Afterwards its frames are handled one at a time, in arrival  *)
(* order, and a `subscribe` awaits the reads that authorise it.  The relay *)
(* publishes on any topic at any time (module LiveRelay says when).        *)
(***************************************************************************)
EXTENDS Integers, Sequences, FiniteSets, SequencesExt

CONSTANTS
    Connections,   \* upgraded sockets
    Scopes,        \* features, design sessions and tests; each has one topic
    Projects,
    ProjectOf,     \* the project a scope's resource belongs to
    Membership,    \* projects each connection's user is a member of at first
    MaxEarly,      \* LIVE_MAX_EARLY_FRAMES
    MaxErrors,     \* LIVE_MAX_PROTOCOL_ERRORS
    Burst,         \* frames the budget allows back to back
    MaxFrames      \* bound: frames a client sends

ASSUME ScopesAssumption == ProjectOf \in [Scopes -> Projects]
ASSUME MembersAssumption == Membership \in [Connections -> SUBSET Projects]
ASSUME LimitsAssumption ==
    /\ MaxEarly \in Nat
    /\ MaxErrors \in Nat \ {0}
    /\ Burst \in Nat \ {0}
    /\ MaxFrames \in Nat

VARIABLES
    conn,          \* conn[c]: one socket and its handler's closure
    byTopic,       \* connectionsByTopic
    byConnection,  \* topicsByConnection
    members        \* members[c]: projects the user of c is a member of now

vars == <<conn, byTopic, byConnection, members>>

Frame ==
    [type : {"subscribe"}, project : Projects, scope : Scopes]
    \cup [type : {"unsubscribe"}, scope : Scopes]
    \cup [type : {"ping", "malformed"}]

Connection ==
    [ sock       : {"new", "open", "closing", "closed"},
      auth       : {"pending", "in", "out"},
      early      : Seq(Frame),
      overflowed : BOOLEAN,
      chain      : Seq(Frame),        \* frames queued, the first being handled
      stage      : {"idle", "member"},
      errors     : 0..MaxErrors,
      tokens     : 0..Burst,
      sent       : 0..MaxFrames,
      told       : SUBSET Scopes,     \* scopes whose last reply was `subscribed`
      wants      : SUBSET Scopes,     \* scopes whose last frame was `subscribe`
      pruned     : BOOLEAN,           \* history: a publish deleted its reverse
                                      \* index while it was on other topics too
      late       : SUBSET Scopes ]    \* history: subscribed after its close event

Opened ==
    [sock |-> "new", auth |-> "pending", early |-> <<>>, overflowed |-> FALSE,
     chain |-> <<>>, stage |-> "idle", errors |-> 0, tokens |-> Burst,
     sent |-> 0, told |-> {}, wants |-> {}, pruned |-> FALSE, late |-> {}]

Init ==
    /\ conn = [c \in Connections |-> Opened]
    /\ byTopic = [s \in Scopes |-> {}]
    /\ byConnection = [c \in Connections |-> {}]
    /\ members = Membership

-----------------------------------------------------------------------------
(* The hub.  A missing entry of a Map is an empty set here, which is what  *)
(* the code makes of it.                                                   *)

Subscribed(c) == {s \in Scopes : c \in byTopic[s]}

HubKeeps == UNCHANGED <<byTopic, byConnection>>

HubSubscribe(c, s) ==
    /\ byTopic' = [byTopic EXCEPT ![s] = @ \cup {c}]
    /\ byConnection' = [byConnection EXCEPT ![c] = @ \cup {s}]

HubUnsubscribeForgets(c, s) ==
    /\ byTopic' = [byTopic EXCEPT ![s] = @ \ {c}]
    /\ byConnection' = [byConnection EXCEPT ![c] = {}]

HubUnsubscribe(c, s) ==
    /\ byTopic' = [byTopic EXCEPT ![s] = @ \ {c}]
    /\ byConnection' = [byConnection EXCEPT ![c] = @ \ {s}]

\* Only the topics the reverse index names are visited.
HubRemove(c) ==
    /\ byTopic' = [s \in Scopes |->
                    IF s \in byConnection[c] THEN byTopic[s] \ {c} ELSE byTopic[s]]
    /\ byConnection' = [byConnection EXCEPT ![c] = {}]

-----------------------------------------------------------------------------
(* Sending.  `connection.send` throws unless the socket is open and the    *)
(* budget has a token; an exhausted budget also closes the socket.         *)

Closed(r) == [r EXCEPT !.sock = IF @ = "open" THEN "closing" ELSE @]

Accepts(r) == r.sock = "open" /\ r.tokens > 0

TakenOrSkipped(r) == IF Accepts(r) THEN [r EXCEPT !.tokens = @ - 1] ELSE r

Taken(r) == IF Accepts(r) THEN [r EXCEPT !.tokens = @ - 1] ELSE Closed(r)

Told(r, told) == IF Accepts(r) THEN [Taken(r) EXCEPT !.told = told] ELSE Taken(r)

Done(r) == [r EXCEPT !.chain = Tail(@), !.stage = "idle"]

Update(c, r) == conn' = [conn EXCEPT ![c] = r]

-----------------------------------------------------------------------------
(* A socket's life. *)

Connect(c) ==
    /\ conn[c].sock = "new"
    /\ Update(c, [conn[c] EXCEPT !.sock = "open"])
    /\ HubKeeps /\ UNCHANGED members

\* The close event finds the hub's handlers only if authentication has finished.
CloseEvent(c) ==
    /\ conn[c].sock \in {"open", "closing"}
    /\ Update(c, [conn[c] EXCEPT !.sock = "closed"])
    /\ IF conn[c].auth = "in" THEN HubRemove(c) ELSE HubKeeps
    /\ UNCHANGED members

\* What the client asked for last, scope by scope.
Wanted(r, f) ==
    CASE f.type = "subscribe" -> [r EXCEPT !.wants = @ \cup {f.scope}]
      [] f.type = "unsubscribe" -> [r EXCEPT !.wants = @ \ {f.scope}]
      [] OTHER -> r

Overflow(r) == Closed([r EXCEPT !.overflowed = TRUE, !.early = <<>>])

Buffered(r, f) ==
    IF Len(r.early) >= MaxEarly THEN Overflow(r)
    ELSE Wanted([r EXCEPT !.early = Append(@, f)], f)

Received(r, f) ==
    CASE r.auth = "in" -> Wanted([r EXCEPT !.chain = Append(@, f)], f)
      [] r.auth # "in" /\ r.overflowed -> r
      [] OTHER -> Buffered(r, f)

FrameArrives(c, f) ==
    /\ conn[c].sock \in {"open", "closing"}
    /\ conn[c].sent < MaxFrames
    /\ Update(c, Received([conn[c] EXCEPT !.sent = @ + 1], f))
    /\ HubKeeps /\ UNCHANGED members

\* No session, no user, or a lookup that throws: the socket is closed and what
\* it sent is dropped.
AuthenticationFails(c) ==
    /\ conn[c].sock # "new" /\ conn[c].auth = "pending"
    /\ Update(c, Closed([conn[c] EXCEPT !.auth = "out"]))
    /\ HubKeeps /\ UNCHANGED members

DrainedReversed(r) == [r EXCEPT !.chain = Reverse(r.early), !.early = <<>>]

\* `ready` goes out before the buffered frames are queued.
Drained(r) == [r EXCEPT !.chain = r.early, !.early = <<>>]

Authenticated(c) ==
    /\ conn[c].sock # "new" /\ conn[c].auth = "pending"
    /\ Update(c, Drained(Taken([conn[c] EXCEPT !.auth = "in", !.tokens = Burst])))
    /\ HubKeeps /\ UNCHANGED members

\* Elapsed time refills the budget.
Refill(c) ==
    /\ conn[c].tokens < Burst
    /\ Update(c, [conn[c] EXCEPT !.tokens = Burst])
    /\ HubKeeps /\ UNCHANGED members

-----------------------------------------------------------------------------
(* The frame chain: `handleFrame` for the first frame queued. *)

HandlesWhileOpen(c, type) ==
    /\ conn[c].sock = "open"
    /\ conn[c].chain # <<>>
    /\ conn[c].stage = "idle"
    /\ Head(conn[c].chain).type = type

Handles(c, type) ==
    /\ conn[c].chain # <<>>
    /\ conn[c].stage = "idle"
    /\ Head(conn[c].chain).type = type

Malformed(c) ==
    LET r == [conn[c] EXCEPT !.errors = IF @ < MaxErrors THEN @ + 1 ELSE @] IN
    /\ Handles(c, "malformed")
    /\ IF r.errors >= MaxErrors
       THEN Update(c, Done(Closed(r))) /\ HubRemove(c)
       ELSE Update(c, Done(Taken(r))) /\ HubKeeps
    /\ UNCHANGED members

Ping(c) ==
    /\ Handles(c, "ping")
    /\ Update(c, Done(Taken(conn[c])))
    /\ HubKeeps /\ UNCHANGED members

Unsubscribe(c) ==
    /\ Handles(c, "unsubscribe")
    /\ LET s == Head(conn[c].chain).scope IN
         /\ HubUnsubscribe(c, s)
         /\ Update(c, Done(Told(conn[c], conn[c].told \ {s})))
    /\ UNCHANGED members

\* The authoriser's first read: is the user a member of the project named?
AuthorizeProject(c) ==
    /\ Handles(c, "subscribe")
    /\ Update(c, IF Head(conn[c].chain).project \in members[c]
                 THEN [conn[c] EXCEPT !.stage = "member"]
                 ELSE Done(Taken(conn[c])))
    /\ HubKeeps /\ UNCHANGED members

\* Its second read looks the resource up inside that project.
ResourceFound(f) == ProjectOf[f.scope] = f.project

Added(r, s) == [r EXCEPT !.late = IF r.sock = "closed" THEN @ \cup {s} ELSE @]

\* After the last read the socket is added to the topic, open or not.
AuthorizeResource(c) ==
    LET f == Head(conn[c].chain) IN
    /\ conn[c].stage = "member"
    /\ IF ResourceFound(f)
       THEN /\ HubSubscribe(c, f.scope)
            /\ Update(c, Done(Told(Added(conn[c], f.scope), conn[c].told \cup {f.scope})))
       ELSE /\ Update(c, Done(Taken(conn[c])))
            /\ HubKeeps
    /\ UNCHANGED members

\* A failed read is answered with an error and the chain goes on.
AuthorizationThrows(c) ==
    /\ conn[c].chain # <<>> /\ Head(conn[c].chain).type = "subscribe"
    /\ Update(c, Done(Taken(conn[c])))
    /\ HubKeeps /\ UNCHANGED members

-----------------------------------------------------------------------------
(* The relay's fan-out, and the world outside. *)

Pruned(c, s) ==
    [Taken(conn[c]) EXCEPT !.pruned = @ \/ (~Accepts(conn[c]) /\ Subscribed(c) # {s})]

\* Every subscriber of the copy is tried; one whose send throws leaves this
\* topic and loses its whole reverse index.
Publish(s) ==
    LET accepted == {c \in byTopic[s] : Accepts(conn[c])} IN
    /\ byTopic[s] # {}
    /\ conn' = [c \in Connections |->
                 IF c \in byTopic[s] THEN Pruned(c, s) ELSE conn[c]]
    /\ byTopic' = [byTopic EXCEPT ![s] = accepted]
    /\ byConnection' = [c \in Connections |->
                 IF c \in byTopic[s] \ accepted THEN {} ELSE byConnection[c]]
    /\ UNCHANGED members

Leave(c, p) ==
    /\ p \in members[c]
    /\ members' = [members EXCEPT ![c] = @ \ {p}]
    /\ UNCHANGED conn /\ HubKeeps

Handle(c) ==
    \/ Malformed(c) \/ Ping(c) \/ Unsubscribe(c)
    \/ AuthorizeProject(c) \/ AuthorizeResource(c) \/ AuthorizationThrows(c)

Socket(c) ==
    \/ Connect(c) \/ CloseEvent(c) \/ Authenticated(c) \/ AuthenticationFails(c)
    \/ Refill(c)
    \/ \E f \in Frame : FrameArrives(c, f)

Next ==
    \/ \E c \in Connections : Socket(c) \/ Handle(c)
    \/ \E s \in Scopes : Publish(s)
    \/ \E c \in Connections, p \in Projects : Leave(c, p)

\* A read returns or fails, and the event loop runs the promise that waits for it.
Fairness ==
    \A c \in Connections : WF_vars(Handle(c)) /\ WF_vars(Authenticated(c))

Spec == Init /\ [][Next]_vars
FairSpec == Spec /\ Fairness

-----------------------------------------------------------------------------
(* Properties. *)

\* Types, and a membership read is only remembered while its subscribe frame
\* is the one being handled.
TypeOK ==
    /\ conn \in [Connections -> Connection]
    /\ byTopic \in [Scopes -> SUBSET Connections]
    /\ byConnection \in [Connections -> SUBSET Scopes]
    /\ members \in [Connections -> SUBSET Projects]
    /\ \A c \in Connections :
         conn[c].stage = "member" =>
           conn[c].chain # <<>> /\ Head(conn[c].chain).type = "subscribe"

\* The hub's two Maps say the same of every socket, open, closing or closed, so
\* that the removal on close, which reads only the reverse one, finds all its
\* topics (hub.ts:60-81): a closed socket is on no topic but one that a
\* `subscribe` still awaited at its close added it to.  Excepted is a socket on
\* several topics that a publish found dead (hub.ts:97-100): it is not open, and
\* what the reverse index regains is on its topics still.
IndexesAgree ==
    \A c \in Connections :
      IF conn[c].pruned
      THEN conn[c].sock # "open" /\ byConnection[c] \subseteq Subscribed(c)
      ELSE /\ byConnection[c] = Subscribed(c)
           /\ conn[c].sock = "closed" => Subscribed(c) \subseteq conn[c].late

\* An open client that was last told `subscribed` to a scope is in the fan-out
\* of that scope: no pruning, rate limit or protocol error drops it silently
\* (limits.ts: a close is visible to the client, a silent drop is not).
ToldIsSubscribed ==
    \A c \in Connections :
      conn[c].sock = "open" => conn[c].told \subseteq Subscribed(c)

\* When its frames are handled, an open client is subscribed only to scopes whose
\* last frame was `subscribe`, buffered frames included (socket.ts:294-311).
UnsubscribeHonoured ==
    \A c \in Connections :
      conn[c].sock = "open" /\ conn[c].chain = <<>> /\ conn[c].early = <<>> =>
        Subscribed(c) \subseteq conn[c].wants

\* The chain never stops: what a client sent is handled in the end, whatever
\* reads fail and whatever becomes of its socket (socket.ts:354-357).
FramesHandled ==
    \A c \in Connections : conn[c].chain # <<>> ~> conn[c].chain = <<>>

-----------------------------------------------------------------------------
(* What comments of the code say and the code does not do *)

\* A closed tab is not retained in any fan-out set once it has nothing left to
\* handle, as hub.ts:60-64 says of `remove`.
ClosedNotSubscribed ==
    \A c \in Connections :
      conn[c].sock = "closed" /\ conn[c].chain = <<>> => Subscribed(c) = {}
=============================================================================
