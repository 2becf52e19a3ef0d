-------------------------- MODULE LiveSockets_proofs --------------------------
(***************************************************************************)
(* What LiveSockets guarantees for any number of sockets, topics, frames   *)
(* and tokens.  An answer tells the truth and the last frame counts only   *)
(* because of what is still to be done to a socket: SocketGood adds the    *)
(* frames that are queued to what the client was told and what the hub     *)
(* holds, and says of each topic that the client no longer wants that the  *)
(* last queued frame about it, if there is one, unsubscribes.              *)
(***************************************************************************)
EXTENDS LiveSockets, TLAPS

-----------------------------------------------------------------------------
(* What the helpers do to one socket's record. *)

\* The part of a record that sending does not touch.
SameFrames(r, q) ==
    /\ q.auth = r.auth /\ q.early = r.early /\ q.overflowed = r.overflowed
    /\ q.chain = r.chain /\ q.stage = r.stage /\ q.wants = r.wants
    /\ q.sent = r.sent /\ q.pruned = r.pruned /\ q.late = r.late

LEMMA ClosedFacts ==
    ASSUME NEW r \in Connection
    PROVE  /\ Closed(r) \in Connection
           /\ SameFrames(r, Closed(r)) /\ Closed(r).told = r.told
           /\ Closed(r).tokens = r.tokens
           /\ Closed(r).sock # "open"
           /\ r.sock = "new" <=> Closed(r).sock = "new"
           /\ r.sock = "closed" <=> Closed(r).sock = "closed"
BY DEF Closed, Connection, SameFrames

\* A reply that is sent takes a token; one that cannot be sent closes the socket.
LEMMA TakenFacts ==
    ASSUME NEW r \in Connection
    PROVE  /\ Taken(r) \in Connection
           /\ SameFrames(r, Taken(r)) /\ Taken(r).told = r.told
           /\ Taken(r).sock = "open" <=> Accepts(r)
           /\ r.sock = "new" <=> Taken(r).sock = "new"
           /\ r.sock = "closed" <=> Taken(r).sock = "closed"
<1>1. CASE Accepts(r)
  <2>1. Taken(r) = [r EXCEPT !.tokens = r.tokens - 1]
    BY <1>1 DEF Taken
  <2>2. r.tokens - 1 \in 0..Burst /\ r.sock = "open"
    BY <1>1, LimitsAssumption DEF Accepts, Connection
  <2> QED BY <1>1, <2>1, <2>2 DEF Connection, SameFrames
<1>2. CASE ~Accepts(r)
  <2>1. Taken(r) = Closed(r)
    BY <1>2 DEF Taken
  <2> QED BY <1>2, <2>1, ClosedFacts
<1> QED BY <1>1, <1>2

LEMMA ToldFacts ==
    ASSUME NEW r \in Connection, NEW told \in SUBSET Scopes
    PROVE  /\ Told(r, told) \in Connection
           /\ SameFrames(r, Told(r, told))
           /\ Told(r, told).sock = "open" <=> Accepts(r)
           /\ Told(r, told).sock = "open" => Told(r, told).told = told
           /\ r.sock = "new" <=> Told(r, told).sock = "new"
           /\ r.sock = "closed" <=> Told(r, told).sock = "closed"
<1>1. Taken(r) \in Connection
  BY TakenFacts
<1>2. CASE Accepts(r)
  <2>1. Told(r, told) = [Taken(r) EXCEPT !.told = told]
    BY <1>2 DEF Told
  <2>2. /\ Told(r, told) \in Connection
        /\ SameFrames(Taken(r), Told(r, told)) /\ Told(r, told).told = told
        /\ Told(r, told).sock = Taken(r).sock
    BY <1>1, <2>1 DEF Connection, SameFrames
  <2> QED BY <1>2, <2>2, TakenFacts DEF SameFrames
<1>3. CASE ~Accepts(r)
  BY <1>3, TakenFacts DEF Told
<1> QED BY <1>2, <1>3

LEMMA DoneFacts ==
    ASSUME NEW r \in Connection, r.chain # <<>>
    PROVE  /\ Done(r) \in Connection
           /\ Done(r).chain = Tail(r.chain) /\ Done(r).stage = "idle"
           /\ Done(r).auth = r.auth /\ Done(r).early = r.early
           /\ Done(r).sock = r.sock /\ Done(r).told = r.told
           /\ Done(r).wants = r.wants
           /\ Done(r).pruned = r.pruned /\ Done(r).late = r.late
<1>1. Tail(r.chain) \in Seq(Frame)
  BY DEF Connection
<1> QED BY <1>1 DEF Done, Connection

\* Only a frame about a scope changes what a client wants of it.
LEMMA WantedFacts ==
    ASSUME NEW r \in Connection, NEW f \in Frame
    PROVE  /\ Wanted(r, f) \in Connection
           /\ LET q == Wanted(r, f) IN
                /\ q.sock = r.sock /\ q.auth = r.auth /\ q.early = r.early
                /\ q.chain = r.chain /\ q.stage = r.stage /\ q.told = r.told
                /\ q.pruned = r.pruned /\ q.late = r.late
           /\ f.type = "subscribe" => Wanted(r, f).wants = r.wants \cup {f.scope}
           /\ f.type = "unsubscribe" => Wanted(r, f).wants = r.wants \ {f.scope}
           /\ f.type \notin {"subscribe", "unsubscribe"} => Wanted(r, f).wants = r.wants
<1>1. CASE f.type = "subscribe"
  <2>1. f.scope \in Scopes
    BY <1>1 DEF Frame
  <2> QED BY <1>1, <2>1 DEF Wanted, Connection
<1>2. CASE f.type = "unsubscribe"
  <2>1. f.scope \in Scopes
    BY <1>2 DEF Frame
  <2> QED BY <1>2, <2>1 DEF Wanted, Connection
<1>3. CASE f.type \notin {"subscribe", "unsubscribe"}
  BY <1>3 DEF Wanted, Connection
<1> QED BY <1>1, <1>2, <1>3

\* What is wanted after a frame depends on what was wanted before it alone.
LEMMA SameWants ==
    ASSUME NEW a \in Connection, NEW r \in Connection, a.wants = r.wants, NEW f \in Frame
    PROVE  Wanted(a, f).wants = Wanted(r, f).wants
<1>1. CASE f.type = "subscribe"
  <2>1. Wanted(a, f).wants = a.wants \cup {f.scope}
    BY <1>1, WantedFacts
  <2>2. Wanted(r, f).wants = r.wants \cup {f.scope}
    BY <1>1, WantedFacts
  <2> QED BY <2>1, <2>2
<1>2. CASE f.type = "unsubscribe"
  <2>1. Wanted(a, f).wants = a.wants \ {f.scope}
    BY <1>2, WantedFacts
  <2>2. Wanted(r, f).wants = r.wants \ {f.scope}
    BY <1>2, WantedFacts
  <2> QED BY <2>1, <2>2
<1>3. CASE f.type \notin {"subscribe", "unsubscribe"}
  <2>1. Wanted(a, f).wants = a.wants
    BY <1>3, WantedFacts
  <2>2. Wanted(r, f).wants = r.wants
    BY <1>3, WantedFacts
  <2> QED BY <2>1, <2>2
<1> QED BY <1>1, <1>2, <1>3

-----------------------------------------------------------------------------
(* Types *)

LEMMA AppendFacts ==
    ASSUME NEW r \in Connection, NEW f \in Frame
    PROVE  /\ [r EXCEPT !.chain = Append(@, f)] \in Connection
           /\ [r EXCEPT !.early = Append(@, f)] \in Connection
<1>1. Append(r.chain, f) \in Seq(Frame) /\ Append(r.early, f) \in Seq(Frame)
  BY DEF Connection
<1> QED BY <1>1 DEF Connection

\* What a frame that arrives leaves in the record, by where it is kept.
LEMMA ReceivedFacts ==
    ASSUME NEW r \in Connection, NEW f \in Frame
    PROVE  LET q == Received(r, f) IN
           /\ q \in Connection
           /\ q.told = r.told /\ q.stage = r.stage /\ q.auth = r.auth
           /\ q.pruned = r.pruned /\ q.late = r.late
           /\ q.sock = "new" => r.sock = "new"
           /\ q.sock = "open" => r.sock = "open"
           /\ q.sock = "closed" => r.sock = "closed"
           /\ r.auth = "in" => /\ q.chain = Append(r.chain, f) /\ q.early = r.early
                               /\ q.wants = Wanted(r, f).wants
           /\ r.auth # "in" =>
                /\ q.chain = r.chain
                /\ \/ q.early = Append(r.early, f) /\ q.wants = Wanted(r, f).wants
                   \/ q.early = r.early /\ q.wants = r.wants
                   \/ q.sock # "open"
<1>1. CASE r.auth = "in"
  <2> DEFINE a == [r EXCEPT !.chain = Append(@, f)]
  <2>1. Received(r, f) = Wanted(a, f)
    BY <1>1 DEF Received
  <2>2. a \in Connection
    BY AppendFacts
  <2>3. /\ a.chain = Append(r.chain, f) /\ a.early = r.early /\ a.wants = r.wants
        /\ a.told = r.told /\ a.stage = r.stage /\ a.auth = r.auth /\ a.sock = r.sock
        /\ a.pruned = r.pruned /\ a.late = r.late
    BY DEF Connection
  <2> HIDE DEF a
  <2>4. Wanted(a, f).wants = Wanted(r, f).wants
    BY <2>2, <2>3, SameWants
  <2> QED BY <1>1, <2>1, <2>2, <2>3, <2>4, WantedFacts
<1>2. CASE r.auth # "in" /\ r.overflowed
  BY <1>2 DEF Received
<1>3. CASE r.auth # "in" /\ ~r.overflowed /\ Len(r.early) >= MaxEarly
  <2> DEFINE a == [r EXCEPT !.overflowed = TRUE, !.early = <<>>]
  <2>1. Received(r, f) = Closed(a)
    BY <1>3 DEF Received, Buffered, Overflow
  <2>2. /\ a \in Connection /\ a.chain = r.chain
        /\ a.told = r.told /\ a.stage = r.stage /\ a.auth = r.auth /\ a.sock = r.sock
        /\ a.pruned = r.pruned /\ a.late = r.late
    <3>1. <<>> \in Seq(Frame)
      OBVIOUS
    <3> QED BY <3>1 DEF Connection
  <2> HIDE DEF a
  <2> QED BY <1>3, <2>1, <2>2, ClosedFacts DEF SameFrames
<1>4. CASE r.auth # "in" /\ ~r.overflowed /\ ~(Len(r.early) >= MaxEarly)
  <2> DEFINE a == [r EXCEPT !.early = Append(@, f)]
  <2>1. Received(r, f) = Wanted(a, f)
    BY <1>4 DEF Received, Buffered
  <2>2. a \in Connection
    BY AppendFacts
  <2>3. /\ a.early = Append(r.early, f) /\ a.chain = r.chain /\ a.wants = r.wants
        /\ a.told = r.told /\ a.stage = r.stage /\ a.auth = r.auth /\ a.sock = r.sock
        /\ a.pruned = r.pruned /\ a.late = r.late
    BY DEF Connection
  <2> HIDE DEF a
  <2>4. Wanted(a, f).wants = Wanted(r, f).wants
    BY <2>2, <2>3, SameWants
  <2> QED BY <1>4, <2>1, <2>2, <2>3, <2>4, WantedFacts
<1> QED BY <1>1, <1>2, <1>3, <1>4

-----------------------------------------------------------------------------
(* The frames a client has sent and the server has yet to handle. *)

Queued(r) == IF r.auth = "in" THEN r.chain ELSE r.early

About(f, type, s) == f.type = type /\ f.scope = s

\* Every `subscribe` to s is followed by an `unsubscribe`, and there is one if s
\* is in the fan-out.
Cancelled(queue, s, subscribed) ==
    /\ subscribed => \E k \in DOMAIN queue : About(queue[k], "unsubscribe", s)
    /\ \A i \in DOMAIN queue : About(queue[i], "subscribe", s) =>
         \E k \in DOMAIN queue : k > i /\ About(queue[k], "unsubscribe", s)

LEMMA CancelledAppend ==
    ASSUME NEW queue \in Seq(Frame), NEW f \in Frame, NEW s \in Scopes,
           NEW subscribed \in BOOLEAN
    PROVE  /\ About(f, "unsubscribe", s) => Cancelled(Append(queue, f), s, subscribed)
           /\ ~About(f, "subscribe", s) /\ Cancelled(queue, s, subscribed) =>
                Cancelled(Append(queue, f), s, subscribed)
<1> DEFINE more == Append(queue, f)
<1>1. /\ DOMAIN queue = 1..Len(queue) /\ Len(queue) \in Nat
      /\ DOMAIN more = 1..(Len(queue) + 1) /\ more[Len(queue) + 1] = f
      /\ \A i \in DOMAIN queue : more[i] = queue[i]
  OBVIOUS
<1> HIDE DEF more
<1>2. ASSUME About(f, "unsubscribe", s) PROVE Cancelled(more, s, subscribed)
  <2>1. \A i \in DOMAIN more : About(more[i], "subscribe", s) => Len(queue) + 1 > i
    BY <1>1, <1>2 DEF About
  <2>2. Len(queue) + 1 \in DOMAIN more /\ About(more[Len(queue) + 1], "unsubscribe", s)
    BY <1>1, <1>2
  <2> QED BY <2>1, <2>2 DEF Cancelled
<1>3. ASSUME ~About(f, "subscribe", s), Cancelled(queue, s, subscribed)
      PROVE  Cancelled(more, s, subscribed)
  BY <1>1, <1>3 DEF Cancelled
<1> QED BY <1>2, <1>3 DEF more

LEMMA CancelledTail ==
    ASSUME NEW queue \in Seq(Frame), queue # <<>>, NEW s \in Scopes,
           NEW subscribed \in BOOLEAN, Cancelled(queue, s, subscribed)
    PROVE  /\ ~About(Head(queue), "unsubscribe", s) => Cancelled(Tail(queue), s, subscribed)
           /\ Cancelled(Tail(queue), s, FALSE)
           /\ About(Head(queue), "subscribe", s) => Cancelled(Tail(queue), s, TRUE)
<1> DEFINE rest == Tail(queue)
<1>1. /\ DOMAIN queue = 1..Len(queue) /\ Len(queue) \in Nat \ {0}
      /\ DOMAIN rest = 1..(Len(queue) - 1) /\ Head(queue) = queue[1]
      /\ \A i \in DOMAIN rest : i + 1 \in DOMAIN queue /\ rest[i] = queue[i + 1]
  OBVIOUS
<1> HIDE DEF rest
<1>2. \A k \in DOMAIN queue : k > 1 => k - 1 \in DOMAIN rest /\ rest[k - 1] = queue[k]
  BY <1>1
<1>3. Cancelled(rest, s, FALSE)
  <2> SUFFICES ASSUME NEW i \in DOMAIN rest, About(rest[i], "subscribe", s)
               PROVE  \E k \in DOMAIN rest : k > i /\ About(rest[k], "unsubscribe", s)
    BY DEF Cancelled
  <2>1. PICK k \in DOMAIN queue : k > i + 1 /\ About(queue[k], "unsubscribe", s)
    BY <1>1 DEF Cancelled
  <2>2. k - 1 \in DOMAIN rest /\ k - 1 > i /\ About(rest[k - 1], "unsubscribe", s)
    BY <1>1, <1>2, <2>1
  <2> QED BY <2>2
<1>4. ASSUME ~About(Head(queue), "unsubscribe", s) PROVE Cancelled(rest, s, subscribed)
  <2>1. ASSUME subscribed
        PROVE  \E k \in DOMAIN rest : About(rest[k], "unsubscribe", s)
    <3>1. PICK k \in DOMAIN queue : About(queue[k], "unsubscribe", s)
      BY <2>1 DEF Cancelled
    <3>2. k > 1
      BY <1>1, <1>4, <3>1
    <3> QED BY <1>2, <3>1, <3>2
  <2> QED BY <1>3, <2>1 DEF Cancelled
<1>5. ASSUME About(Head(queue), "subscribe", s) PROVE Cancelled(rest, s, TRUE)
  <2>1. PICK k \in DOMAIN queue : k > 1 /\ About(queue[k], "unsubscribe", s)
    BY <1>1, <1>5 DEF Cancelled
  <2> QED BY <1>2, <1>3, <2>1 DEF Cancelled
<1> QED BY <1>3, <1>4, <1>5 DEF rest

-----------------------------------------------------------------------------
(* The inductive invariant. *)

\* What the two indexes say of a socket with record r that is in the fan-out of
\* topics and whose reverse index names index: the body of IndexesAgree.
Agrees(r, topics, index) ==
    IF r.pruned
    THEN r.sock # "open" /\ index \subseteq topics
    ELSE index = topics /\ (r.sock = "closed" => topics \subseteq r.late)

\* What holds of one socket.  It is new until it is connected, and nothing happens
\* to it before.  Only the authenticated have a chain and topics, the others a
\* buffer.  What the client was told and wants is of open sockets alone.
SocketGood(r, topics, index) ==
    /\ r.stage = "member" => r.chain # <<>> /\ Head(r.chain).type = "subscribe"
    /\ r.auth = "in" => r.early = <<>>
    /\ r.auth # "in" => r.chain = <<>> /\ topics = {} /\ index = {}
    /\ r.sock = "new" =>
         /\ r.chain = <<>> /\ r.early = <<>> /\ r.told = {} /\ ~r.pruned
         /\ topics = {} /\ index = {}
    /\ Agrees(r, topics, index)
    /\ r.sock = "open" =>
         /\ r.told \subseteq topics
         /\ \A s \in Scopes \ r.wants : Cancelled(Queued(r), s, s \in topics)

SocketsInv ==
    /\ TypeOK
    /\ \A c \in Connections : SocketGood(conn[c], Subscribed(c), byConnection[c])

-----------------------------------------------------------------------------
(* Every step keeps it. *)

\* Sending anything but a reply about a scope, to an open socket or another.
LEMMA TakenGood ==
    ASSUME NEW r \in Connection, NEW topics, NEW index, SocketGood(r, topics, index)
    PROVE  SocketGood(Taken(r), topics, index)
<1> DEFINE q == Taken(r)
<1>1. /\ SameFrames(r, q) /\ q.told = r.told
      /\ q.sock = "open" => r.sock = "open"
      /\ q.sock = "new" => r.sock = "new"
      /\ q.sock = "closed" => r.sock = "closed"
  BY TakenFacts DEF Accepts
<1> HIDE DEF q
<1>2. Queued(q) = Queued(r)
  BY <1>1 DEF SameFrames, Queued
<1>3. Agrees(q, topics, index)
  BY <1>1 DEF SocketGood, Agrees, SameFrames
<1> QED BY <1>1, <1>2, <1>3 DEF SocketGood, SameFrames, q

LEMMA ClosedGood ==
    ASSUME NEW r \in Connection, NEW topics, NEW index, SocketGood(r, topics, index)
    PROVE  SocketGood(Closed(r), topics, index)
<1>1. Agrees(Closed(r), topics, index)
  BY ClosedFacts DEF SocketGood, Agrees, SameFrames
<1> QED BY <1>1, ClosedFacts DEF SocketGood, SameFrames

\* The first frame of the chain has been handled.
LEMMA HandledGood ==
    ASSUME NEW r \in Connection, NEW topics, NEW index, SocketGood(r, topics, index),
           r.chain # <<>>,
           NEW q \in Connection, SameFrames(r, q), q.sock = "open" => r.sock = "open",
           q.sock = "new" => r.sock = "new",
           NEW now, NEW reverse, Agrees(q, now, reverse),
           q.sock = "open" =>
             /\ q.told \subseteq now
             /\ \A s \in Scopes \ r.wants : Cancelled(Tail(r.chain), s, s \in now)
    PROVE  Done(q) \in Connection /\ SocketGood(Done(q), now, reverse)
<1>1. r.auth = "in" /\ r.early = <<>> /\ r.sock # "new" /\ q.chain = r.chain
  BY DEF SocketGood, SameFrames
<1>2. /\ Done(q) \in Connection
      /\ Done(q).chain = Tail(r.chain) /\ Done(q).stage = "idle"
      /\ Done(q).auth = "in" /\ Done(q).early = <<>>
      /\ Done(q).sock = q.sock /\ Done(q).told = q.told
      /\ Done(q).wants = r.wants
      /\ Done(q).pruned = q.pruned /\ Done(q).late = q.late
  BY <1>1, DoneFacts DEF SameFrames
<1>3. Queued(Done(q)) = Tail(r.chain)
  BY <1>2 DEF Queued
<1>4. Agrees(Done(q), now, reverse)
  BY <1>2 DEF Agrees
<1> QED BY <1>1, <1>2, <1>3, <1>4 DEF SocketGood

\* A frame that is no `unsubscribe`, or one about a scope that was left, does not
\* change what the fan-out may hold.
LEMMA AnsweredGood ==
    ASSUME NEW r \in Connection, NEW topics \in SUBSET Scopes, NEW index,
           SocketGood(r, topics, index),
           r.chain # <<>>, Head(r.chain).type # "unsubscribe"
    PROVE  /\ Done(Taken(r)) \in Connection
           /\ SocketGood(Done(Taken(r)), topics, index)
<1> DEFINE q == Taken(r)
<1>1. /\ q \in Connection /\ SameFrames(r, q) /\ q.told = r.told
      /\ q.sock = "open" => r.sock = "open"
      /\ q.sock = "new" => r.sock = "new"
  BY TakenFacts DEF Accepts
<1>2. ASSUME r.sock = "open", NEW s \in Scopes \ r.wants
      PROVE  Cancelled(Tail(r.chain), s, s \in topics)
  <2>1. Cancelled(r.chain, s, s \in topics)
    BY <1>2 DEF SocketGood, Queued
  <2>2. r.chain \in Seq(Frame) /\ (s \in topics) \in BOOLEAN
    BY DEF Connection
  <2>3. ~About(Head(r.chain), "unsubscribe", s)
    BY DEF About
  <2> QED BY <2>1, <2>2, <2>3, CancelledTail
<1>3. Agrees(q, topics, index) /\ (q.sock = "open" => q.told \subseteq topics)
  BY <1>1, TakenGood DEF SocketGood
<1> HIDE DEF q
<1>4. Done(q) \in Connection /\ SocketGood(Done(q), topics, index)
  BY <1>1, <1>2, <1>3, HandledGood
<1> QED BY <1>4 DEF q

\* A frame that arrives joins the queue; what it withdraws from `wants` it cancels.
LEMMA ReceivedGood ==
    ASSUME NEW r \in Connection, NEW f \in Frame, r.sock # "new",
           NEW topics \in SUBSET Scopes, NEW index, SocketGood(r, topics, index)
    PROVE  Received(r, f) \in Connection /\ SocketGood(Received(r, f), topics, index)
<1> DEFINE q == Received(r, f)
<1>1. /\ q \in Connection
      /\ q.told = r.told /\ q.stage = r.stage /\ q.auth = r.auth
      /\ q.pruned = r.pruned /\ q.late = r.late
      /\ q.sock # "new" /\ (q.sock = "open" => r.sock = "open")
      /\ q.sock = "closed" => r.sock = "closed"
      /\ r.auth = "in" => q.early = r.early /\ q.chain = Append(r.chain, f)
      /\ r.auth # "in" => q.chain = r.chain
      /\ q.sock = "open" =>
           \/ /\ Queued(q) = Append(Queued(r), f)
              /\ q.wants = Wanted(r, f).wants
           \/ Queued(q) = Queued(r) /\ q.wants = r.wants
  BY ReceivedFacts DEF Queued
<1> HIDE DEF q
<1>2. Queued(r) \in Seq(Frame) /\ r.chain \in Seq(Frame)
  BY DEF Queued, Connection
<1>3. r.stage = "member" => q.chain # <<>> /\ Head(q.chain).type = "subscribe"
  <2>1. r.chain # <<>> => Append(r.chain, f) # <<>> /\ Head(Append(r.chain, f)) = Head(r.chain)
    BY <1>2
  <2> QED BY <1>1, <2>1 DEF SocketGood
<1>4. ASSUME q.sock = "open", NEW s \in Scopes \ q.wants
      PROVE  Cancelled(Queued(q), s, s \in topics)
  <2>0. \A t \in Scopes \ r.wants : Cancelled(Queued(r), t, t \in topics)
    BY <1>1, <1>4 DEF SocketGood
  <2>1. CASE Queued(q) = Queued(r) /\ q.wants = r.wants
    BY <2>0, <2>1
  <2>2. CASE Queued(q) = Append(Queued(r), f) /\ q.wants = Wanted(r, f).wants
    <3>0. (s \in topics) \in BOOLEAN
      OBVIOUS
    <3>1. CASE About(f, "unsubscribe", s)
      <4>1. Cancelled(Append(Queued(r), f), s, s \in topics)
        BY <1>2, <3>0, <3>1, CancelledAppend
      <4> QED BY <2>2, <4>1
    <3>2. CASE ~About(f, "unsubscribe", s)
      <4>1. s \notin r.wants /\ ~About(f, "subscribe", s)
        BY <1>4, <2>2, <3>2, WantedFacts DEF About
      <4>2. (s \in topics) \in BOOLEAN /\ Cancelled(Queued(r), s, s \in topics)
        BY <2>0, <4>1
      <4> QED BY <1>2, <2>2, <4>1, <4>2, CancelledAppend
    <3> QED BY <3>1, <3>2
  <2> QED BY <1>1, <1>4, <2>1, <2>2
<1>5. Agrees(q, topics, index)
  BY <1>1 DEF SocketGood, Agrees
<1>6. SocketGood(q, topics, index)
  BY <1>1, <1>3, <1>4, <1>5 DEF SocketGood
<1> QED BY <1>1, <1>6 DEF q

IndexTypes ==
    /\ byTopic \in [Scopes -> SUBSET Connections]
    /\ byConnection \in [Connections -> SUBSET Scopes]

LEMMA HubKeepsFacts ==
    ASSUME TypeOK, NEW c \in Connections, HubKeeps
    PROVE  /\ IndexTypes' /\ Subscribed(c)' = Subscribed(c)
           /\ byConnection'[c] = byConnection[c]
           /\ \A d \in Connections \ {c} : /\ Subscribed(d)' = Subscribed(d)
                                         /\ byConnection'[d] = byConnection[d]
BY DEF TypeOK, HubKeeps, IndexTypes, Subscribed

LEMMA HubSubscribeFacts ==
    ASSUME TypeOK, NEW c \in Connections, NEW s \in Scopes, HubSubscribe(c, s)
    PROVE  /\ IndexTypes' /\ Subscribed(c)' = Subscribed(c) \cup {s}
           /\ byConnection'[c] = byConnection[c] \cup {s}
           /\ \A d \in Connections \ {c} : /\ Subscribed(d)' = Subscribed(d)
                                         /\ byConnection'[d] = byConnection[d]
BY DEF TypeOK, HubSubscribe, IndexTypes, Subscribed

LEMMA HubUnsubscribeFacts ==
    ASSUME TypeOK, NEW c \in Connections, NEW s \in Scopes, HubUnsubscribe(c, s)
    PROVE  /\ IndexTypes' /\ Subscribed(c)' = Subscribed(c) \ {s}
           /\ byConnection'[c] = byConnection[c] \ {s}
           /\ \A d \in Connections \ {c} : /\ Subscribed(d)' = Subscribed(d)
                                         /\ byConnection'[d] = byConnection[d]
BY DEF TypeOK, HubUnsubscribe, IndexTypes, Subscribed

LEMMA HubRemoveFacts ==
    ASSUME TypeOK, NEW c \in Connections, HubRemove(c)
    PROVE  /\ IndexTypes' /\ Subscribed(c)' = Subscribed(c) \ byConnection[c]
           /\ byConnection'[c] = {}
           /\ \A d \in Connections \ {c} : /\ Subscribed(d)' = Subscribed(d)
                                         /\ byConnection'[d] = byConnection[d]
BY DEF TypeOK, HubRemove, IndexTypes, Subscribed

LEMMA UpdateFacts ==
    ASSUME TypeOK, NEW c \in Connections, NEW q \in Connection, Update(c, q)
    PROVE  /\ conn' \in [Connections -> Connection] /\ conn'[c] = q
           /\ \A d \in Connections \ {c} : conn'[d] = conn[d]
BY DEF TypeOK, Update

\* So the invariant is kept if the socket that moved is good.
LEMMA OneMoves ==
    ASSUME SocketsInv, NEW c \in Connections, NEW q \in Connection, Update(c, q),
           IndexTypes', UNCHANGED members,
           \A d \in Connections \ {c} : /\ Subscribed(d)' = Subscribed(d)
                                     /\ byConnection'[d] = byConnection[d],
           SocketGood(q, Subscribed(c)', byConnection'[c])
    PROVE  SocketsInv'
<1>1. /\ conn' \in [Connections -> Connection] /\ conn'[c] = q
      /\ \A d \in Connections \ {c} : conn'[d] = conn[d]
  BY UpdateFacts DEF SocketsInv
<1>2. \A d \in Connections : SocketGood(conn[d], Subscribed(d), byConnection[d])'
  BY <1>1 DEF SocketsInv
<1>3. TypeOK'
  BY <1>1, <1>2 DEF TypeOK, IndexTypes, SocketsInv, SocketGood
<1> QED BY <1>2, <1>3 DEF SocketsInv

LEMMA SocketStep ==
    ASSUME SocketsInv, NEW c \in Connections, Socket(c)
    PROVE  SocketsInv'
<1> DEFINE r == conn[c]
<1>0. /\ TypeOK /\ r \in Connection /\ Subscribed(c) \in SUBSET Scopes
      /\ SocketGood(r, Subscribed(c), byConnection[c])
  BY DEF SocketsInv, TypeOK, Subscribed
<1>1. CASE Connect(c)
  <2> DEFINE q == [r EXCEPT !.sock = "open"]
  <2>1. /\ q \in Connection /\ q.sock = "open" /\ q.told = r.told /\ q.auth = r.auth
        /\ q.chain = r.chain /\ q.early = r.early /\ q.stage = r.stage
        /\ q.pruned = r.pruned
        /\ Update(c, q) /\ HubKeeps /\ UNCHANGED members /\ r.sock = "new"
    BY <1>0, <1>1 DEF Connect, Connection
  <2> HIDE DEF q
  <2>2. Queued(q) = <<>>
    BY <1>0, <2>1 DEF Queued, SocketGood
  <2>3. SocketGood(q, Subscribed(c), byConnection[c])
    <3>1. \A s \in Scopes : s \notin Subscribed(c)
      BY <1>0, <2>1 DEF SocketGood
    <3>2. DOMAIN <<>> = {}
      OBVIOUS
    <3>3. \A s \in Scopes : Cancelled(Queued(q), s, s \in Subscribed(c))
      BY <2>2, <3>1, <3>2 DEF Cancelled
    <3>4. Agrees(q, Subscribed(c), byConnection[c])
      BY <1>0, <2>1 DEF SocketGood, Agrees
    <3> QED BY <1>0, <2>1, <3>3, <3>4 DEF SocketGood
  <2> QED BY <1>0, <2>1, <2>3, HubKeepsFacts, OneMoves
<1>2. CASE CloseEvent(c)
  <2> DEFINE q == [r EXCEPT !.sock = "closed"]
  <2>1. /\ q \in Connection /\ q.sock = "closed" /\ q.told = r.told /\ q.auth = r.auth
        /\ q.chain = r.chain /\ q.early = r.early /\ q.stage = r.stage
        /\ q.pruned = r.pruned
        /\ Update(c, q) /\ UNCHANGED members
        /\ IF r.auth = "in" THEN HubRemove(c) ELSE HubKeeps
    BY <1>0, <1>2 DEF CloseEvent, Connection
  <2> HIDE DEF q
  <2>2. CASE r.auth = "in"
    <3>1. /\ Subscribed(c)' = Subscribed(c) \ byConnection[c] /\ byConnection'[c] = {}
          /\ IndexTypes'
          /\ \A d \in Connections \ {c} : /\ Subscribed(d)' = Subscribed(d)
                                        /\ byConnection'[d] = byConnection[d]
      BY <1>0, <2>1, <2>2, HubRemoveFacts
    <3>2. Agrees(q, Subscribed(c)', byConnection'[c])
      BY <1>0, <2>1, <3>1 DEF SocketGood, Agrees
    <3>3. SocketGood(q, Subscribed(c)', byConnection'[c])
      BY <1>0, <2>1, <2>2, <3>2 DEF SocketGood
    <3> QED BY <2>1, <3>1, <3>3, OneMoves
  <2>3. CASE r.auth # "in"
    <3>1. Subscribed(c) = {} /\ byConnection[c] = {}
      BY <1>0, <2>3 DEF SocketGood
    <3>2. Agrees(q, {}, {})
      BY <2>1 DEF Agrees
    <3>3. SocketGood(q, Subscribed(c), byConnection[c])
      BY <1>0, <2>1, <2>3, <3>1, <3>2 DEF SocketGood
    <3> QED BY <1>0, <2>1, <2>3, <3>3, HubKeepsFacts, OneMoves
  <2> QED BY <2>2, <2>3
<1>3. CASE Authenticated(c)
  <2> DEFINE a == [r EXCEPT !.auth = "in", !.tokens = Burst]
             b == Taken(a)
             q == Drained(b)
  <2>1. /\ r.sock # "new" /\ r.auth = "pending"
        /\ Update(c, q) /\ HubKeeps /\ UNCHANGED members
    BY <1>3 DEF Authenticated
  <2>2. /\ a \in Connection /\ a.sock = r.sock /\ a.told = r.told /\ a.auth = "in"
        /\ a.pruned = r.pruned /\ a.late = r.late
        /\ a.chain = r.chain /\ a.early = r.early /\ a.stage = r.stage /\ a.wants = r.wants
    <3>1. Burst \in 0..Burst
      BY LimitsAssumption
    <3> QED BY <1>0, <3>1 DEF Connection
  <2> HIDE DEF a
  <2>3. /\ b \in Connection /\ SameFrames(a, b) /\ b.told = r.told
        /\ b.sock = "open" => r.sock = "open"
        /\ b.sock # "new" /\ (b.sock = "closed" => r.sock = "closed")
    BY <2>1, <2>2, TakenFacts DEF Accepts
  <2> HIDE DEF b
  <2>4. /\ q \in Connection /\ q.chain = r.early /\ q.early = <<>> /\ q.auth = "in"
        /\ q.stage = r.stage /\ q.told = r.told /\ q.wants = r.wants /\ q.sock = b.sock
        /\ q.pruned = r.pruned /\ q.late = r.late
    <3>1. <<>> \in Seq(Frame)
      OBVIOUS
    <3>2. b.early \in Seq(Frame)
      BY <2>3 DEF Connection
    <3> QED BY <2>2, <2>3, <3>1, <3>2 DEF Drained, Connection, SameFrames
  <2> HIDE DEF q
  <2>5. Queued(q) = Queued(r)
    BY <2>1, <2>4 DEF Queued
  <2>6. SocketGood(q, Subscribed(c), byConnection[c])
    <3>1. Agrees(q, Subscribed(c), byConnection[c])
      BY <1>0, <2>3, <2>4 DEF SocketGood, Agrees
    <3> QED BY <1>0, <2>1, <2>3, <2>4, <2>5, <3>1 DEF SocketGood
  <2> QED BY <1>0, <2>1, <2>4, <2>6, HubKeepsFacts, OneMoves
<1>4. CASE AuthenticationFails(c)
  <2> DEFINE a == [r EXCEPT !.auth = "out"]
  <2>1. /\ r.sock # "new" /\ r.auth = "pending"
        /\ Update(c, Closed(a)) /\ HubKeeps /\ UNCHANGED members
    BY <1>4 DEF AuthenticationFails
  <2>2. /\ a \in Connection /\ a.sock = r.sock /\ a.told = r.told /\ a.auth = "out"
        /\ a.pruned = r.pruned /\ a.late = r.late
        /\ a.chain = r.chain /\ a.early = r.early /\ a.stage = r.stage /\ a.wants = r.wants
    BY <1>0 DEF Connection
  <2> HIDE DEF a
  <2>3. SocketGood(a, Subscribed(c), byConnection[c])
    <3>1. Queued(a) = Queued(r)
      BY <2>1, <2>2 DEF Queued
    <3>2. Agrees(a, Subscribed(c), byConnection[c])
      BY <1>0, <2>2 DEF SocketGood, Agrees
    <3> QED BY <1>0, <2>1, <2>2, <3>1, <3>2 DEF SocketGood
  <2>4. Closed(a) \in Connection /\ SocketGood(Closed(a), Subscribed(c), byConnection[c])
    BY <2>2, <2>3, ClosedFacts, ClosedGood
  <2> QED BY <1>0, <2>1, <2>4, HubKeepsFacts, OneMoves
<1>5. CASE Refill(c)
  <2> DEFINE q == [r EXCEPT !.tokens = Burst]
  <2>1. /\ q \in Connection /\ q.sock = r.sock /\ q.told = r.told /\ q.auth = r.auth
        /\ q.chain = r.chain /\ q.early = r.early /\ q.stage = r.stage /\ q.wants = r.wants
        /\ q.pruned = r.pruned /\ q.late = r.late
        /\ Update(c, q) /\ HubKeeps /\ UNCHANGED members
    <3>1. Burst \in 0..Burst
      BY LimitsAssumption
    <3>2. Update(c, q) /\ HubKeeps /\ UNCHANGED members
      BY <1>5 DEF Refill
    <3> QED BY <1>0, <3>1, <3>2 DEF Connection
  <2> HIDE DEF q
  <2>2. SocketGood(q, Subscribed(c), byConnection[c])
    <3>1. Queued(q) = Queued(r)
      BY <2>1 DEF Queued
    <3>2. Agrees(q, Subscribed(c), byConnection[c])
      BY <1>0, <2>1 DEF SocketGood, Agrees
    <3> QED BY <1>0, <2>1, <3>1, <3>2 DEF SocketGood
  <2> QED BY <1>0, <2>1, <2>2, HubKeepsFacts, OneMoves
<1>6. ASSUME NEW f \in Frame, FrameArrives(c, f) PROVE SocketsInv'
  <2> DEFINE a == [r EXCEPT !.sent = @ + 1]
             q == Received(a, f)
  <2>1. /\ r.sock # "new" /\ r.sent < MaxFrames
        /\ Update(c, q) /\ HubKeeps /\ UNCHANGED members
    BY <1>6 DEF FrameArrives
  <2>2. /\ a \in Connection /\ a.sock = r.sock /\ a.told = r.told /\ a.auth = r.auth
        /\ a.pruned = r.pruned /\ a.late = r.late
        /\ a.chain = r.chain /\ a.early = r.early /\ a.stage = r.stage /\ a.wants = r.wants
    <3>1. r.sent + 1 \in 0..MaxFrames
      BY <1>0, <2>1, LimitsAssumption DEF Connection
    <3> QED BY <1>0, <3>1 DEF Connection
  <2>3. SocketGood(a, Subscribed(c), byConnection[c])
    <3>1. Queued(a) = Queued(r)
      BY <2>2 DEF Queued
    <3>2. Agrees(a, Subscribed(c), byConnection[c])
      BY <1>0, <2>2 DEF SocketGood, Agrees
    <3> QED BY <1>0, <2>1, <2>2, <3>1, <3>2 DEF SocketGood
  <2> HIDE DEF a
  <2>4. q \in Connection /\ SocketGood(q, Subscribed(c), byConnection[c])
    BY <1>0, <2>1, <2>2, <2>3, ReceivedGood
  <2> QED BY <1>0, <2>1, <2>4, HubKeepsFacts, OneMoves
<1> QED BY <1>1, <1>2, <1>3, <1>4, <1>5, <1>6 DEF Socket

LEMMA HandleStep ==
    ASSUME SocketsInv, NEW c \in Connections, Handle(c)
    PROVE  SocketsInv'
<1> DEFINE r == conn[c]
<1>0. /\ TypeOK /\ r \in Connection /\ Subscribed(c) \in SUBSET Scopes
      /\ SocketGood(r, Subscribed(c), byConnection[c])
  BY DEF SocketsInv, TypeOK, Subscribed
<1>1. CASE Malformed(c)
  <2> DEFINE a == [r EXCEPT !.errors = IF @ < MaxErrors THEN @ + 1 ELSE @]
  <2>1. /\ r.chain # <<>> /\ Head(r.chain).type = "malformed" /\ UNCHANGED members
        /\ \/ Update(c, Done(Closed(a))) /\ HubRemove(c)
           \/ Update(c, Done(Taken(a))) /\ HubKeeps
    BY <1>1 DEF Malformed, Handles
  <2>2. /\ a \in Connection /\ a.sock = r.sock /\ a.told = r.told /\ a.auth = r.auth
        /\ a.pruned = r.pruned /\ a.late = r.late
        /\ a.chain = r.chain /\ a.early = r.early /\ a.stage = r.stage /\ a.wants = r.wants
    <3>1. (IF r.errors < MaxErrors THEN r.errors + 1 ELSE r.errors) \in 0..MaxErrors
      BY <1>0, LimitsAssumption DEF Connection
    <3> QED BY <1>0, <3>1 DEF Connection
  <2>3. SocketGood(a, Subscribed(c), byConnection[c])
    <3>1. Queued(a) = Queued(r)
      BY <2>2 DEF Queued
    <3>2. Agrees(a, Subscribed(c), byConnection[c])
      BY <1>0, <2>2 DEF SocketGood, Agrees
    <3> QED BY <1>0, <2>2, <3>1, <3>2 DEF SocketGood
  <2> HIDE DEF a
  <2>4. CASE Update(c, Done(Closed(a))) /\ HubRemove(c)
    <3>1. /\ Closed(a) \in Connection /\ SameFrames(a, Closed(a))
          /\ Closed(a).sock # "open" /\ (Closed(a).sock = "new" => a.sock = "new")
          /\ Agrees(Closed(a), Subscribed(c), byConnection[c])
      BY <2>2, <2>3, ClosedFacts, ClosedGood DEF SocketGood
    <3>2. Subscribed(c)' = Subscribed(c) \ byConnection[c] /\ byConnection'[c] = {}
      BY <1>0, <2>4, HubRemoveFacts
    <3>3. Agrees(Closed(a), Subscribed(c)', byConnection'[c])
      BY <3>1, <3>2 DEF Agrees
    <3>4. /\ Done(Closed(a)) \in Connection
          /\ SocketGood(Done(Closed(a)), Subscribed(c)', byConnection'[c])
      BY <2>1, <2>2, <2>3, <3>1, <3>3, HandledGood
    <3> QED BY <1>0, <2>1, <2>4, <3>4, HubRemoveFacts, OneMoves
  <2>5. CASE Update(c, Done(Taken(a))) /\ HubKeeps
    <3>1. /\ Done(Taken(a)) \in Connection
          /\ SocketGood(Done(Taken(a)), Subscribed(c), byConnection[c])
      BY <1>0, <2>1, <2>2, <2>3, AnsweredGood
    <3> QED BY <1>0, <2>1, <2>5, <3>1, HubKeepsFacts, OneMoves
  <2> QED BY <2>1, <2>4, <2>5
<1>2. ASSUME r.chain # <<>>, Head(r.chain).type # "unsubscribe",
             Update(c, Done(Taken(r))), HubKeeps, UNCHANGED members
      PROVE  SocketsInv'
  <2>1. /\ Done(Taken(r)) \in Connection
        /\ SocketGood(Done(Taken(r)), Subscribed(c), byConnection[c])
    BY <1>0, <1>2, AnsweredGood
  <2> QED BY <1>0, <1>2, <2>1, HubKeepsFacts, OneMoves
<1>3. CASE Ping(c)
  BY <1>2, <1>3 DEF Ping, Handles
<1>4. CASE Unsubscribe(c)
  <2> DEFINE s == Head(r.chain).scope
             told == r.told \ {s}
             q == Told(r, told)
  <2>1. /\ r.chain # <<>> /\ Head(r.chain).type = "unsubscribe"
        /\ HubUnsubscribe(c, s) /\ Update(c, Done(q)) /\ UNCHANGED members
    BY <1>4 DEF Unsubscribe, Handles
  <2>2. r.chain \in Seq(Frame) /\ r.told \in SUBSET Scopes
    BY <1>0 DEF Connection
  <2>3. s \in Scopes
    <3>1. Head(r.chain) \in Frame
      BY <2>1, <2>2
    <3> QED BY <2>1, <3>1 DEF Frame
  <2>4. /\ q \in Connection /\ SameFrames(r, q)
        /\ q.sock = "open" => r.sock = "open" /\ q.told = told
        /\ q.sock = "new" => r.sock = "new"
        /\ q.sock = "closed" => r.sock = "closed"
    BY <1>0, <2>2, ToldFacts DEF Accepts
  <2>5. /\ IndexTypes' /\ Subscribed(c)' = Subscribed(c) \ {s}
        /\ byConnection'[c] = byConnection[c] \ {s}
        /\ \A d \in Connections \ {c} : /\ Subscribed(d)' = Subscribed(d)
                                      /\ byConnection'[d] = byConnection[d]
    BY <1>0, <2>1, <2>3, HubUnsubscribeFacts
  <2>6. ASSUME r.sock = "open", NEW t \in Scopes \ r.wants
        PROVE  Cancelled(Tail(r.chain), t, t \in Subscribed(c) \ {s})
    <3>1. /\ (t \in Subscribed(c)) \in BOOLEAN
          /\ Cancelled(r.chain, t, t \in Subscribed(c))
      BY <1>0, <2>1, <2>6 DEF SocketGood, Queued
    <3>2. CASE t = s
      <4>1. Cancelled(Tail(r.chain), t, FALSE)
        BY <2>1, <2>2, <3>1, CancelledTail
      <4> QED BY <3>2, <4>1 DEF Cancelled
    <3>3. CASE t # s
      <4>1. ~About(Head(r.chain), "unsubscribe", t)
        BY <3>3 DEF About
      <4>2. Cancelled(Tail(r.chain), t, t \in Subscribed(c))
        BY <2>1, <2>2, <3>1, <4>1, CancelledTail
      <4> QED BY <3>3, <4>2 DEF Cancelled
    <3> QED BY <3>2, <3>3
  <2>7. q.sock = "open" => q.told \subseteq Subscribed(c)'
    BY <1>0, <2>4, <2>5 DEF SocketGood
  <2>8. Agrees(q, Subscribed(c)', byConnection'[c])
    BY <1>0, <2>4, <2>5 DEF SocketGood, Agrees, SameFrames
  <2> HIDE DEF q, s
  <2>9. Done(q) \in Connection /\ SocketGood(Done(q), Subscribed(c)', byConnection'[c])
    BY <1>0, <2>1, <2>4, <2>5, <2>6, <2>7, <2>8, HandledGood
  <2> QED BY <2>1, <2>5, <2>9, OneMoves
<1>5. CASE AuthorizeProject(c)
  <2> DEFINE q == [r EXCEPT !.stage = "member"]
  <2>1. /\ r.chain # <<>> /\ Head(r.chain).type = "subscribe" /\ HubKeeps /\ UNCHANGED members
        /\ Update(c, q) \/ Update(c, Done(Taken(r)))
    BY <1>5 DEF AuthorizeProject, Handles
  <2>2. CASE Update(c, q)
    <3>1. /\ q \in Connection /\ q.sock = r.sock /\ q.told = r.told /\ q.auth = r.auth
          /\ q.chain = r.chain /\ q.early = r.early /\ q.wants = r.wants
          /\ q.pruned = r.pruned /\ q.late = r.late /\ q.stage = "member"
      BY <1>0 DEF Connection
    <3> HIDE DEF q
    <3>2. Queued(q) = Queued(r)
      BY <3>1 DEF Queued
    <3>3. SocketGood(q, Subscribed(c), byConnection[c])
      <4>1. Agrees(q, Subscribed(c), byConnection[c])
        BY <1>0, <3>1 DEF SocketGood, Agrees
      <4> QED BY <1>0, <2>1, <3>1, <3>2, <4>1 DEF SocketGood
    <3> QED BY <1>0, <2>1, <2>2, <3>1, <3>3, HubKeepsFacts, OneMoves
  <2> QED BY <1>2, <2>1, <2>2
<1>6. CASE AuthorizeResource(c)
  <2> DEFINE s == Head(r.chain).scope
             told == r.told \cup {s}
             a == Added(r, s)
             q == Told(a, told)
  <2>1. /\ r.chain # <<>> /\ Head(r.chain).type = "subscribe" /\ UNCHANGED members
        /\ \/ HubSubscribe(c, s) /\ Update(c, Done(q))
           \/ HubKeeps /\ Update(c, Done(Taken(r)))
    BY <1>0, <1>6 DEF AuthorizeResource, SocketGood
  <2>2. CASE HubSubscribe(c, s) /\ Update(c, Done(q))
    <3>1. r.chain \in Seq(Frame) /\ r.told \in SUBSET Scopes
      BY <1>0 DEF Connection
    <3>2. s \in Scopes
      <4>1. Head(r.chain) \in Frame
        BY <2>1, <3>1
      <4> QED BY <2>1, <4>1 DEF Frame
    <3>3. /\ a \in Connection /\ a.sock = r.sock /\ a.told = r.told /\ a.auth = r.auth
          /\ a.chain = r.chain /\ a.early = r.early /\ a.stage = r.stage
          /\ a.wants = r.wants /\ a.pruned = r.pruned
          /\ a.late = IF r.sock = "closed" THEN r.late \cup {s} ELSE r.late
      BY <1>0, <3>2 DEF Added, Connection
    <3> HIDE DEF a
    <3>4. SocketGood(a, Subscribed(c), byConnection[c])
      <4>1. Queued(a) = Queued(r)
        BY <3>3 DEF Queued
      <4>2. Agrees(a, Subscribed(c), byConnection[c])
        BY <1>0, <3>3 DEF SocketGood, Agrees
      <4> QED BY <1>0, <3>3, <4>1, <4>2 DEF SocketGood
    <3>5. /\ q \in Connection /\ SameFrames(a, q)
          /\ q.sock = "open" => r.sock = "open" /\ q.told = told
          /\ q.sock = "new" => r.sock = "new"
          /\ q.sock = "closed" => r.sock = "closed"
      BY <3>1, <3>2, <3>3, ToldFacts DEF Accepts
    <3>6. /\ IndexTypes' /\ Subscribed(c)' = Subscribed(c) \cup {s}
          /\ byConnection'[c] = byConnection[c] \cup {s}
          /\ \A d \in Connections \ {c} : /\ Subscribed(d)' = Subscribed(d)
                                        /\ byConnection'[d] = byConnection[d]
      BY <1>0, <2>2, <3>2, HubSubscribeFacts
    <3>7. ASSUME r.sock = "open", NEW t \in Scopes \ r.wants
          PROVE  Cancelled(Tail(r.chain), t, t \in Subscribed(c) \cup {s})
      <4>1. /\ (t \in Subscribed(c)) \in BOOLEAN
            /\ Cancelled(r.chain, t, t \in Subscribed(c))
        BY <1>0, <2>1, <3>7 DEF SocketGood, Queued
      <4>2. CASE t = s
        <5>1. About(Head(r.chain), "subscribe", t)
          BY <2>1, <4>2 DEF About
        <5>2. Cancelled(Tail(r.chain), t, TRUE)
          BY <2>1, <3>1, <4>1, <5>1, CancelledTail
        <5> QED BY <4>2, <5>2 DEF Cancelled
      <4>3. CASE t # s
        <5>1. ~About(Head(r.chain), "unsubscribe", t)
          BY <2>1 DEF About
        <5>2. Cancelled(Tail(r.chain), t, t \in Subscribed(c))
          BY <2>1, <3>1, <4>1, <5>1, CancelledTail
        <5> QED BY <4>3, <5>2 DEF Cancelled
      <4> QED BY <4>2, <4>3
    <3>8. q.sock = "open" => q.told \subseteq Subscribed(c)'
      BY <1>0, <3>5, <3>6 DEF SocketGood
    <3>9. Agrees(q, Subscribed(c)', byConnection'[c])
      BY <3>5, <3>6, <3>3, <3>4 DEF SocketGood, Agrees, SameFrames
    <3> HIDE DEF q, s
    <3>10. Done(q) \in Connection /\ SocketGood(Done(q), Subscribed(c)', byConnection'[c])
      BY <2>1, <3>5, <3>6, <3>7, <3>8, <3>3, <3>4, <3>9, HandledGood
    <3> QED BY <2>1, <2>2, <3>6, <3>10, OneMoves
  <2> QED BY <1>2, <2>1, <2>2
<1>7. CASE AuthorizationThrows(c)
  BY <1>2, <1>7 DEF AuthorizationThrows
<1> QED BY <1>1, <1>3, <1>4, <1>5, <1>6, <1>7 DEF Handle

\* A publication prunes exactly the sockets that did not accept it, and those are
\* no longer open.
LEMMA PublishStep ==
    ASSUME SocketsInv, NEW s \in Scopes, Publish(s)
    PROVE  SocketsInv'
<1>1. TypeOK /\ \A c \in Connections : conn[c] \in Connection
  BY DEF SocketsInv, TypeOK
<1>2. /\ conn' = [c \in Connections |->
                    IF c \in byTopic[s] THEN Pruned(c, s) ELSE conn[c]]
      /\ byTopic' = [byTopic EXCEPT ![s] = {c \in byTopic[s] : Accepts(conn[c])}]
      /\ byConnection' = [c \in Connections |->
                    IF c \in byTopic[s] /\ ~Accepts(conn[c]) THEN {} ELSE byConnection[c]]
      /\ UNCHANGED members
  BY DEF Publish
<1>3. \A c \in Connections : Pruned(c, s) \in Connection
  <2> SUFFICES ASSUME NEW c \in Connections PROVE Pruned(c, s) \in Connection
    OBVIOUS
  <2>1. Taken(conn[c]) \in Connection
    BY <1>1, TakenFacts
  <2>2. (Taken(conn[c]).pruned \/ (~Accepts(conn[c]) /\ Subscribed(c) # {s})) \in BOOLEAN
    BY <2>1 DEF Connection
  <2> QED BY <2>1, <2>2 DEF Pruned, Connection
<1>4. conn' \in [Connections -> Connection]
  BY <1>1, <1>2, <1>3
<1>5. IndexTypes'
  BY <1>1, <1>2 DEF TypeOK, IndexTypes
<1>6. ASSUME NEW c \in Connections
      PROVE  SocketGood(conn[c], Subscribed(c), byConnection[c])'
  <2>0. SocketGood(conn[c], Subscribed(c), byConnection[c])
    BY DEF SocketsInv
  <2>1. CASE c \notin byTopic[s]
    <3>1. Subscribed(c)' = Subscribed(c)
      BY <1>1, <1>2, <2>1 DEF Subscribed, TypeOK
    <3> QED BY <1>2, <2>0, <2>1, <3>1
  <2>2. CASE c \in byTopic[s] /\ Accepts(conn[c])
    <3>1. Subscribed(c)' = Subscribed(c)
      BY <1>1, <1>2, <2>2 DEF Subscribed, TypeOK
    <3>2. conn'[c] = Pruned(c, s) /\ byConnection'[c] = byConnection[c]
      BY <1>2, <2>2
    <3>3. Pruned(c, s) = Taken(conn[c])
      <4>1. Taken(conn[c]) \in Connection /\ SameFrames(conn[c], Taken(conn[c]))
        BY <1>1, TakenFacts
      <4>2. Taken(conn[c]).pruned \in BOOLEAN
        BY <4>1 DEF Connection
      <4>3. Pruned(c, s) = [Taken(conn[c]) EXCEPT !.pruned = Taken(conn[c]).pruned]
        BY <2>2, <4>2 DEF Pruned
      <4> QED BY <4>1, <4>3 DEF Connection
    <3> QED BY <1>1, <2>0, <3>1, <3>2, <3>3, TakenGood
  <2>3. CASE c \in byTopic[s] /\ ~Accepts(conn[c])
    <3> DEFINE q == Pruned(c, s)
    <3>1. /\ conn'[c] = q /\ byConnection'[c] = {}
          /\ Subscribed(c)' = Subscribed(c) \ {s}
      BY <1>1, <1>2, <2>3 DEF Subscribed, TypeOK
    <3>2. conn[c].auth = "in" /\ conn[c].sock # "new"
      BY <2>0, <2>3 DEF SocketGood, Subscribed
    <3>3. /\ SameFrames(conn[c], Taken(conn[c])) /\ q.sock \notin {"open", "new"}
          /\ q.chain = conn[c].chain /\ q.stage = conn[c].stage
          /\ q.auth = conn[c].auth /\ q.early = conn[c].early
      <4>1. Taken(conn[c]) \in Connection /\ SameFrames(conn[c], Taken(conn[c]))
            /\ Taken(conn[c]).sock \notin {"open", "new"}
        BY <1>1, <2>3, <3>2, TakenFacts
      <4> QED BY <4>1 DEF Pruned, SameFrames, Connection
    <3>4. q.pruned <=> conn[c].pruned \/ Subscribed(c) # {s}
      <4>1. /\ Taken(conn[c]) \in Connection /\ conn[c] \in Connection
            /\ Taken(conn[c]).pruned = conn[c].pruned
        BY <1>1, TakenFacts DEF SameFrames
      <4> QED BY <2>3, <4>1 DEF Pruned, Connection
    <3>5. Agrees(q, Subscribed(c) \ {s}, {})
      BY <3>3, <3>4 DEF Agrees
    <3> HIDE DEF q
    <3>6. SocketGood(q, Subscribed(c) \ {s}, {})
      BY <2>0, <3>2, <3>3, <3>5 DEF SocketGood
    <3> QED BY <3>1, <3>6
  <2> QED BY <2>1, <2>2, <2>3
<1>7. TypeOK'
  BY <1>1, <1>2, <1>4, <1>5, <1>6 DEF TypeOK, IndexTypes, SocketGood
<1> QED BY <1>6, <1>7 DEF SocketsInv

LEMMA SocketsStep == SocketsInv /\ [Next]_vars => SocketsInv'
<1> SUFFICES ASSUME SocketsInv, [Next]_vars PROVE SocketsInv'
  OBVIOUS
<1>1. ASSUME NEW c \in Connections, Socket(c) \/ Handle(c) PROVE SocketsInv'
  BY <1>1, SocketStep, HandleStep
<1>2. ASSUME NEW s \in Scopes, Publish(s) PROVE SocketsInv'
  BY <1>2, PublishStep
<1>3. ASSUME NEW c \in Connections, NEW p \in Projects, Leave(c, p) PROVE SocketsInv'
  <2>1. /\ UNCHANGED <<conn, byTopic, byConnection>>
        /\ members' \in [Connections -> SUBSET Projects]
    BY <1>3 DEF Leave, HubKeeps, SocketsInv, TypeOK
  <2> QED BY <2>1 DEF SocketsInv, TypeOK, Subscribed
<1>4. CASE UNCHANGED vars
  BY <1>4 DEF vars, SocketsInv, TypeOK, Subscribed
<1> QED BY <1>1, <1>2, <1>3, <1>4 DEF Next

LEMMA SocketsInit == Init => SocketsInv
<1> SUFFICES ASSUME Init PROVE SocketsInv
  OBVIOUS
<1>1. /\ Opened \in Connection /\ Opened.sock = "new" /\ Opened.chain = <<>>
      /\ Opened.early = <<>> /\ Opened.told = {} /\ Opened.stage = "idle"
      /\ Opened.pruned = FALSE /\ Opened.auth = "pending"
  <2>1. <<>> \in Seq(Frame) /\ Burst \in 0..Burst /\ 0 \in 0..MaxErrors /\ 0 \in 0..MaxFrames
    BY LimitsAssumption
  <2> QED BY <2>1 DEF Opened, Connection
<1>2. \A c \in Connections : conn[c] = Opened /\ Subscribed(c) = {} /\ byConnection[c] = {}
  BY DEF Init, Subscribed
<1>3. \A c \in Connections : SocketGood(conn[c], Subscribed(c), byConnection[c])
  BY <1>1, <1>2 DEF SocketGood, Agrees
<1>4. TypeOK
  BY <1>1, MembersAssumption DEF Init, TypeOK
<1> QED BY <1>3, <1>4 DEF SocketsInv

LEMMA SocketsInvariant == Spec => []SocketsInv
BY SocketsInit, SocketsStep, PTL DEF Spec

-----------------------------------------------------------------------------
(* What follows. *)

\* The values of every variable; and a membership that was read is only remembered
\* while its `subscribe` is the frame being handled.
THEOREM TypeCorrect == Spec => []TypeOK
<1>1. SocketsInv => TypeOK
  BY DEF SocketsInv
<1> QED BY <1>1, SocketsInvariant, PTL

\* Whatever sockets open, ask, are pruned and close, the hub's two Maps agree about
\* every one that a publish did not find dead on several topics, the closed ones
\* included; those are on no topic but the ones added after their close
\* (hub.ts:60-81, 97-100; socket.ts:431).
THEOREM HubIndexesAgree == Spec => []IndexesAgree
<1>1. SocketsInv => IndexesAgree
  BY DEF SocketsInv, SocketGood, Agrees, IndexesAgree
<1> QED BY <1>1, SocketsInvariant, PTL

\* An open client is in the fan-out of every scope it was last told it is.
THEOREM RepliesAreTrue == Spec => []ToldIsSubscribed
<1>1. SocketsInv => ToldIsSubscribed
  BY DEF SocketsInv, SocketGood, ToldIsSubscribed
<1> QED BY <1>1, SocketsInvariant, PTL

\* Once its frames are handled an open client receives only what it last asked for
\* (socket.ts:294-311): with an empty queue nothing can be Cancelled.
THEOREM LastFrameCounts == Spec => []UnsubscribeHonoured
<1>1. SocketsInv => UnsubscribeHonoured
  <2> SUFFICES ASSUME SocketsInv, NEW c \in Connections,
                      conn[c].sock = "open", conn[c].chain = <<>>, conn[c].early = <<>>,
                      NEW s \in Subscribed(c), s \notin conn[c].wants
               PROVE  FALSE
    BY DEF UnsubscribeHonoured
  <2>1. Queued(conn[c]) = <<>> /\ s \in Scopes
    BY DEF Queued, Subscribed
  <2>2. Cancelled(<<>>, s, TRUE)
    BY <2>1 DEF SocketsInv, SocketGood, Cancelled
  <2> QED BY <2>2 DEF Cancelled
<1> QED BY <1>1, SocketsInvariant, PTL
=============================================================================
