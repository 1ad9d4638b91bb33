---------------------------- MODULE SessionProofs ----------------------------
(* The server, for any number of connections, requests and frames: every   *)
(* answer is that of its packet, every event is accounted for, and what a  *)
(* client sees of it is what DeviceContract allows.                        *)
EXTENDS Session, SequenceTheorems, TLAPS

Elements(s) == {s[i] : i \in DOMAIN s}

(* An event may be told after another. *)
Turn(d, e) ==
    d.request = e.request =>
      ~d.terminal
      /\ (IF e.error = "OK" THEN d.completed < e.completed
          ELSE d.completed <= e.completed)
InTurn(s) == \A i, j \in DOMAIN s : i < j => Turn(s[i], s[j])
Follows(D, E) == \A d \in D, e \in E : Turn(d, e)

Told == Elements(delivered)
Held == Elements(sending)
Queued == Elements(tx_events)

(* Where the server has stopped capture, and where it holds an event.      *)
Places ==
    /\ phase /= "accept" => conn > 0
    /\ phase \in {"accept", "open", "clear", "drain"} => ~scheduled
    /\ phase \in {"accept", "open", "clear"} => tx_events = <<>>
    /\ phase \in {"open", "clear"} => high_request = 0
    /\ IF phase = "send" THEN Len(sending) = 1 ELSE sending = <<>>

(* Nothing is known of a request that is still to come. *)
Newest == Request(conn, high_request)
Unused ==
    \A r \in Requests : r > Newest =>
      executed[r] = 0 /\ answer[r] = "none" /\ count[r] = 0

(* The answer of a packet; the cache has that of the newest one.           *)
AnswerTo(packet, ok) ==
    IF ~ok THEN "error" ELSE IF packet.kind = "TX" THEN "accepted" ELSE "applied"
Caching ==
    LET r == cache.reply.of
        a == AnswerTo(cache.packet, cache.reply.ok)
    IN  r /= 0 => /\ r = Newest /\ high_request > 0
                  /\ origin = [of |-> r, packet |-> cache.packet]
                  /\ executed[r] = 1 /\ answer[r] \in {"none", a}
                  /\ a = "accepted" <=> count[r] > 0
Latest ==
    origin.of /= 0 =>
      /\ origin.of <= Newest
      /\ Owner(origin.of) = conn => cache.reply.of = origin.of
Replying ==
    phase \in {"flush", "reply"} =>
      /\ reply = Refused \/ (reply = cache.reply /\ request = cache.packet)
      /\ Cached(request) => reply = cache.reply

(* An accepted request of this connection was answered, or is being.       *)
Serving == {"open", "clear", "poll", "flush", "events", "send"}
Answered ==
    \A r \in Requests : Owner(r) = conn /\ count[r] > 0 =>
      /\ phase \in Serving => answer[r] = "accepted"
      /\ phase = "reply" => answer[r] = "accepted" \/ r = reply.of

(* The open schedule is of this connection, and its frames are reported    *)
(* one by one.                                                             *)
Scheduled ==
    /\ \A r \in Requests : bus[r] <= count[r]
    /\ scheduled =>
         /\ active /\ tx_request \in Requests /\ Owner(tx_request) = conn
         /\ count[tx_request] > 0
         /\ completed <= bus[tx_request] /\ bus[tx_request] <= completed + 1
         /\ \A d \in Told \cup Held \cup Queued :
              d.request = tx_request => ~d.terminal /\ d.completed <= completed

(* The events that were not told yet are of this connection and true, and  *)
(* all are in order.                                                       *)
Events ==
    /\ \A d \in Told : count[d.request] > 0
    /\ \A e \in Held \cup Queued :
         Owner(e.request) = conn /\ count[e.request] > 0 /\ Device!Honest(e)
    /\ InTurn(tx_events) /\ Follows(Told, Held) /\ Follows(Told \cup Held, Queued)

SessionInv ==
    /\ TypeOK /\ Places /\ Unused /\ Caching /\ Latest /\ Replying /\ Answered
    /\ Scheduled /\ Events /\ EventsAccounted
-----------------------------------------------------------------------------
(* Requests are numbered connection by connection, ... *)
LEMMA Numbers ==
    ASSUME NEW c \in Nat, NEW id \in 0..MaxId
    PROVE  /\ Request(c, 0) \in Int /\ Request(c, id) = Request(c, 0) + id
           /\ Request(c + 1, 0) = Request(c, 0) + MaxId
  <1>1. MaxId \in Nat
    BY SessionAssumption
  <1>2. c * MaxId \in Int /\ (c - 1) * MaxId \in Int /\ (c - 1) * MaxId + MaxId = c * MaxId
    BY <1>1
  <1>3. (c + 1) - 1 = c
    OBVIOUS
  <1> QED BY <1>1, <1>2, <1>3 DEF Request

(* ... and Owner finds the connection of each. *)
LEMMA Owners ==
    ASSUME NEW r \in Nat \ {0}, NEW c \in Nat \ {0}
    PROVE  /\ Owner(r) \in Nat
           /\ Owner(r) = c <=> Request(c, 0) < r /\ r <= Request(c + 1, 0)
  <1> DEFINE k == c - 1
             q == (r - 1) \div MaxId
             m == (r - 1) % MaxId
  <1>1. MaxId \in Nat \ {0} /\ k \in Nat /\ r - 1 \in Nat
    BY SessionAssumption
  <1>2. q \in Nat /\ m \in 0..(MaxId - 1) /\ r - 1 = MaxId * q + m
    BY <1>1
  <1>3. /\ Request(c, 0) = k * MaxId /\ Request(c + 1, 0) = k * MaxId + MaxId
        /\ Request(c, 0) \in Int
    BY <1>1, SessionAssumption, Numbers DEF Request
  <1>4. Owner(r) = q + 1
    BY DEF Owner
  <1>5. k * MaxId \in Nat /\ q * MaxId \in Nat /\ MaxId * q = q * MaxId
    BY <1>1, <1>2
  <1> HIDE DEF k, q, m
  <1>6. CASE q = k
    BY <1>1, <1>2, <1>3, <1>4, <1>5, <1>6 DEF k
  <1>7. CASE q < k
    <2>1. q + 1 <= k /\ q + 1 \in Nat
      BY <1>1, <1>2, <1>7
    <2>2. (q + 1) * MaxId <= k * MaxId
      BY <1>1, <2>1
    <2>3. (q + 1) * MaxId = q * MaxId + MaxId
      BY <1>1, <1>2
    <2>4. r - 1 < k * MaxId
      BY <1>1, <1>2, <1>5, <2>2, <2>3
    <2> QED BY <1>1, <1>2, <1>3, <1>4, <1>5, <1>7, <2>4 DEF k
  <1>8. CASE q > k
    <2>1. k + 1 <= q
      BY <1>1, <1>2, <1>8
    <2>2. (k + 1) * MaxId <= q * MaxId
      BY <1>1, <1>2, <2>1
    <2>3. (k + 1) * MaxId = k * MaxId + MaxId
      BY <1>1
    <2>4. r - 1 >= k * MaxId + MaxId
      BY <1>1, <1>2, <1>5, <2>2, <2>3
    <2> QED BY <1>1, <1>2, <1>3, <1>4, <1>5, <1>8, <2>4 DEF k
  <1> QED BY <1>1, <1>2, <1>4, <1>6, <1>7, <1>8

(* The request of an id of a connection is one, and owned by it. *)
LEMMA Own ==
    ASSUME NEW c \in 1..MaxConnections, NEW id \in Ids
    PROVE  Request(c, id) \in Requests /\ Owner(Request(c, id)) = c
  <1>1. /\ MaxConnections \in Nat /\ MaxId \in Nat \ {0} /\ c \in Nat \ {0}
        /\ id \in 0..MaxId /\ id >= 1 /\ id <= MaxId /\ c - 1 \in Nat
        /\ c <= MaxConnections
    BY SessionAssumption DEF Ids
  <1>2. (c - 1) * MaxId \in Nat /\ (c - 1) * MaxId + MaxId = c * MaxId
    BY <1>1
  <1>3. c * MaxId <= MaxConnections * MaxId /\ MaxConnections * MaxId \in Nat
    BY <1>1
  <1>4. Request(c, id) \in Requests /\ Request(c, id) \in Nat \ {0}
    BY <1>1, <1>2, <1>3 DEF Request, Requests
  <1>5. Request(c, id) > Request(c, 0) /\ Request(c, id) <= Request(c + 1, 0)
    BY <1>1, Numbers
  <1> QED BY <1>1, <1>4, <1>5, Owners

-----------------------------------------------------------------------------
(* A queue grows at its end and shrinks at its front, and stays in order.  *)
LEMMA Grown ==
    ASSUME NEW S, NEW s \in Seq(S), NEW e \in S
    PROVE  \E t \in Seq(S) :
             /\ t = Append(s, e) /\ Len(t) = Len(s) + 1
             /\ Elements(t) = Elements(s) \cup {e}
             /\ InTurn(s) /\ Follows(Elements(s), {e}) => InTurn(t)
  <1> DEFINE t == Append(s, e)
  <1>1. /\ t \in Seq(S) /\ Len(t) = Len(s) + 1 /\ Len(s) \in Nat
        /\ DOMAIN s = 1..Len(s) /\ DOMAIN t = 1..(Len(s) + 1)
        /\ t[Len(s) + 1] = e /\ \A i \in DOMAIN s : t[i] = s[i]
    BY AppendProperties, LenProperties
  <1> HIDE DEF t
  <1>2. \A i \in DOMAIN t : i \in DOMAIN s \/ i = Len(s) + 1
    BY <1>1
  <1>3. Elements(t) = Elements(s) \cup {e}
    <2>1. DOMAIN s \subseteq DOMAIN t /\ Len(s) + 1 \in DOMAIN t
      BY <1>1
    <2> QED BY <1>1, <1>2, <2>1, Zenon DEF Elements
  <1>4. ASSUME InTurn(s), Follows(Elements(s), {e}) PROVE InTurn(t)
    <2> SUFFICES ASSUME NEW i \in DOMAIN t, NEW j \in DOMAIN t, i < j
                 PROVE  Turn(t[i], t[j])
      BY DEF InTurn
    <2>1. i \in DOMAIN s
      BY <1>1
    <2>2. CASE j \in DOMAIN s
      BY <1>1, <1>4, <2>1, <2>2 DEF InTurn
    <2>3. CASE j = Len(s) + 1
      <3>1. s[i] \in Elements(s)
        BY <2>1 DEF Elements
      <3> QED BY <1>1, <1>4, <2>1, <2>3, <3>1 DEF Follows
    <2> QED BY <1>2, <2>2, <2>3
  <1> QED BY <1>1, <1>3, <1>4 DEF t

LEMMA Shrunk ==
    ASSUME NEW S, NEW s \in Seq(S), s /= <<>>
    PROVE  LET t == Tail(s)
           IN  /\ t \in Seq(S) /\ Head(s) \in S /\ Len(t) = Len(s) - 1 /\ Len(s) \in Nat
               /\ Elements(s) = Elements(t) \cup {Head(s)}
               /\ InTurn(s) => InTurn(t) /\ Follows({Head(s)}, Elements(t))
  <1> DEFINE t == Tail(s)
  <1>1. /\ t \in Seq(S) /\ Head(s) \in S /\ Len(t) = Len(s) - 1 /\ Len(s) \in Nat \ {0}
        /\ DOMAIN s = 1..Len(s) /\ DOMAIN t = 1..(Len(s) - 1) /\ Head(s) = s[1]
        /\ \A i \in DOMAIN t : t[i] = s[i + 1]
    <2>1. /\ t \in Seq(S) /\ Head(s) \in S /\ Len(t) = Len(s) - 1
          /\ \A i \in 1..Len(t) : t[i] = s[i + 1]
      BY HeadTailProperties
    <2>2. DOMAIN t = 1..Len(t) /\ DOMAIN s = 1..Len(s) /\ Len(s) \in Nat \ {0}
      BY <2>1, LenProperties, EmptySeq
    <2> QED BY <2>1, <2>2
  <1> HIDE DEF t
  <1>2. /\ \A i \in DOMAIN t : i + 1 \in DOMAIN s /\ i + 1 > 1
        /\ \A i \in DOMAIN s : i = 1 \/ (i - 1 \in DOMAIN t /\ s[i] = t[i - 1])
        /\ 1 \in DOMAIN s
    BY <1>1
  <1>3. Elements(s) = Elements(t) \cup {Head(s)}
    <2>1. \A i \in DOMAIN s : s[i] = Head(s) \/ \E j \in DOMAIN t : s[i] = t[j]
      BY <1>1, <1>2
    <2>2. \A i \in DOMAIN t : \E j \in DOMAIN s : t[i] = s[j]
      BY <1>1, <1>2
    <2>3. \E j \in DOMAIN s : Head(s) = s[j]
      BY <1>1, <1>2
    <2>4. \A x : x \in Elements(s) <=> \E i \in DOMAIN s : x = s[i]
      BY DEF Elements
    <2>5. \A x : x \in Elements(t) <=> \E i \in DOMAIN t : x = t[i]
      BY DEF Elements
    <2>6. \A x : x \in Elements(s) <=> x \in Elements(t) \/ x = Head(s)
      BY <2>1, <2>2, <2>3, <2>4, <2>5
    <2> QED BY <2>6
  <1>4. ASSUME InTurn(s) PROVE InTurn(t) /\ Follows({Head(s)}, Elements(t))
    <2>1. ASSUME NEW i \in DOMAIN t, NEW j \in DOMAIN t, i < j
          PROVE  Turn(t[i], t[j])
      <3>1. i + 1 \in DOMAIN s /\ j + 1 \in DOMAIN s /\ i + 1 < j + 1
        BY <1>1, <2>1
      <3>2. Turn(s[i + 1], s[j + 1])
        BY <1>4, <3>1 DEF InTurn
      <3> QED BY <1>1, <3>2
    <2>2. ASSUME NEW j \in DOMAIN t PROVE Turn(Head(s), t[j])
      <3>1. Turn(s[1], s[j + 1])
        BY <1>2, <1>4 DEF InTurn
      <3> QED BY <1>1, <3>1
    <2> QED BY <2>1, <2>2, Zenon DEF InTurn, Follows, Elements
  <1> QED BY <1>1, <1>3, <1>4 DEF t

LEMMA Empty ==
    ASSUME NEW S
    PROVE  /\ <<>> \in Seq(S) /\ Len(<<>>) = 0 /\ Elements(<<>>) = {} /\ InTurn(<<>>)
           /\ \A e \in S : /\ <<e>> \in Seq(S) /\ Len(<<e>>) = 1 /\ Head(<<e>>) = e
                           /\ Elements(<<e>>) = {e}
           /\ \A s \in Seq(S) : Len(s) = 0 => s = <<>>
  <1>1. /\ <<>> \in Seq(S) /\ Len(<<>>) = 0 /\ DOMAIN <<>> = {}
        /\ \A s \in Seq(S) : Len(s) = 0 => s = <<>>
    BY EmptySeq
  <1>2. ASSUME NEW e \in S
        PROVE  /\ <<e>> \in Seq(S) /\ Len(<<e>>) = 1 /\ Head(<<e>>) = e
               /\ Elements(<<e>>) = {e}
    <2>1. DOMAIN <<e>> = {1} /\ <<e>>[1] = e
      OBVIOUS
    <2> QED BY <2>1 DEF Elements
  <1> QED BY <1>1, <1>2 DEF Elements, InTurn

LEMMA Singletons ==
    ASSUME NEW S, NEW s \in Seq(S), Len(s) = 1
    PROVE  s = <<Head(s)>> /\ Head(s) \in S /\ Elements(s) = {Head(s)}
  <1>1. s /= <<>> /\ DOMAIN s = 1..1 /\ s[1] = Head(s) /\ s \in [1..1 -> S]
    BY LenProperties
  <1>2. Head(s) \in S /\ s = <<Head(s)>>
    BY <1>1
  <1> QED BY <1>2, Empty

-----------------------------------------------------------------------------
(* What the steps of the core rely on and keep; most of it is about the    *)
(* schedule and its events.                                                *)
Sound ==
    /\ Core!TypeOK /\ conn \in 0..MaxConnections
    /\ sending \in Seq(Core!Event) /\ delivered \in Seq(Core!Event)
    /\ Scheduled /\ Events /\ EventsAccounted

LEMMA Members == ASSUME NEW S, NEW s \in Seq(S) PROVE Elements(s) \subseteq S
  BY LenProperties DEF Elements

LEMMA Known ==
    ASSUME Sound
    PROVE  /\ Told \cup Held \cup Queued \subseteq Core!Event
           /\ \A d \in Told \cup Held \cup Queued :
                /\ d.request \in Requests /\ d.completed \in Nat
                /\ d.terminal \in BOOLEAN
           /\ \A r \in Requests : /\ count[r] \in Nat /\ bus[r] \in Nat
                                  /\ bus[r] <= count[r] /\ count[r] <= MaxCount
           /\ completed \in Nat /\ MaxCount \in Nat
  <1>1. Told \cup Held \cup Queued \subseteq Core!Event
    BY Members DEF Sound, Core!TypeOK, Told, Held, Queued
  <1>2. \A d \in Core!Event : /\ d.request \in Requests /\ d.completed \in Nat
                              /\ d.terminal \in BOOLEAN
    BY SessionAssumption DEF Core!Event
  <1>3. MaxCount \in Nat /\ completed \in 0..MaxCount
        /\ \A r \in Requests : /\ count[r] \in 0..MaxCount /\ bus[r] \in 0..MaxCount
                               /\ bus[r] <= count[r]
    BY SessionAssumption DEF Sound, Core!TypeOK, Scheduled
  <1> QED BY <1>1, <1>2, <1>3

(* While its schedule is open, no event of it is final: those that wait    *)
(* stay true whatever is sent.                                             *)
LEMMA StillHonest ==
    ASSUME Sound, scheduled, count' = count,
           bus' \in [Requests -> Nat], bus'[tx_request] >= bus[tx_request],
           \A r \in Requests : r /= tx_request => bus'[r] = bus[r]
    PROVE  \A d \in Held \cup Queued : Device!Honest(d)'
  <1> SUFFICES ASSUME NEW d \in Held \cup Queued PROVE Device!Honest(d)'
    OBVIOUS
  <1>1. /\ d.request \in Requests /\ d.completed \in Nat /\ bus[d.request] \in Nat
        /\ bus'[d.request] \in Nat /\ Device!Honest(d)
    BY Known DEF Sound, Events
  <1>2. CASE d.request = tx_request
    <2>1. ~d.terminal
      BY <1>2 DEF Sound, Scheduled
    <2> QED BY <1>1, <1>2, <2>1 DEF Device!Honest
  <1>3. CASE d.request /= tx_request
    BY <1>1, <1>3 DEF Device!Honest
  <1> QED BY <1>2, <1>3

(* An event of the open schedule is raised: whatever becomes of it, all    *)
(* are true, in order and accounted for.                                   *)
LEMMA Raised ==
    ASSUME Sound, scheduled, NEW e \in Core!Event, e.request = tx_request,
           IF e.error = "OK" THEN completed < e.completed
                             ELSE completed <= e.completed,
           Core!Raise(e), count' = count, conn' = conn,
           sending' = sending, delivered' = delivered,
           bus' \in [Requests -> Nat], bus'[tx_request] >= bus[tx_request],
           \A r \in Requests : r /= tx_request => bus'[r] = bus[r],
           Device!Honest(e)'
    PROVE  /\ tx_events' \in Seq(Core!Event) /\ Len(tx_events') <= EventDepth
           /\ tx_event_drops' \in Nat /\ emitted' \in Seq(Core!Event)
           /\ Events' /\ EventsAccounted' /\ Queued' \subseteq Queued \cup {e}
           /\ Told' = Told /\ Held' = Held
  <1>1. /\ tx_events \in Seq(Core!Event) /\ emitted \in Seq(Core!Event)
        /\ tx_event_drops \in Nat /\ EventDepth \in Nat /\ Len(tx_events) <= EventDepth
        /\ Len(delivered) \in Nat /\ Len(sending) \in Nat /\ Len(tx_events) \in Nat
        /\ EventsAccounted
    BY SessionAssumption, LenProperties DEF Sound, Core!TypeOK
  <1>2. /\ emitted' \in Seq(Core!Event) /\ Len(emitted') = Len(emitted) + 1
        /\ Len(emitted) \in Nat
    <2>1. PICK t \in Seq(Core!Event) : t = Append(emitted, e) /\ Len(t) = Len(emitted) + 1
      BY <1>1, Grown, Zenon
    <2>2. emitted' = t
      BY <2>1 DEF Core!Raise
    <2> QED BY <2>1, <2>2, LenProperties DEF Sound
  <1>3. Told' = Told /\ Held' = Held
    BY DEF Told, Held
  <1>4. Follows(Told \cup Held \cup Queued, {e})
    <2> SUFFICES ASSUME NEW d \in Told \cup Held \cup Queued, d.request = e.request
                 PROVE  ~d.terminal /\ (IF e.error = "OK" THEN d.completed < e.completed
                                        ELSE d.completed <= e.completed)
      BY DEF Follows, Turn
    <2>1. ~d.terminal /\ d.completed <= completed /\ d.completed \in Nat
      BY Known DEF Sound, Scheduled
    <2>2. completed \in Nat /\ e.completed \in Nat
      BY Known, SessionAssumption DEF Core!Event
    <2> QED BY <2>1, <2>2
  <1>5. \A d \in Held \cup Queued : Device!Honest(d)'
    BY StillHonest
  <1>6. /\ tx_events' \in Seq(Core!Event) /\ Len(tx_events') <= EventDepth
        /\ Len(tx_events') \in Nat
        /\ tx_event_drops' \in Nat /\ Queued' \subseteq Queued \cup {e}
        /\ InTurn(tx_events')
        /\ Len(tx_events') + tx_event_drops' = Len(tx_events) + tx_event_drops + 1
    <2>1. CASE Len(tx_events) < EventDepth /\ tx_events' = Append(tx_events, e)
               /\ UNCHANGED tx_event_drops
      <3>1. InTurn(tx_events) /\ Follows(Elements(tx_events), {e})
        BY <1>4 DEF Sound, Events, Follows, Queued
      <3>2. /\ tx_events' \in Seq(Core!Event) /\ Len(tx_events') = Len(tx_events) + 1
            /\ Elements(tx_events') = Elements(tx_events) \cup {e}
            /\ InTurn(tx_events')
        <4>1. PICK t \in Seq(Core!Event) :
                /\ t = Append(tx_events, e) /\ Len(t) = Len(tx_events) + 1
                /\ Elements(t) = Elements(tx_events) \cup {e} /\ InTurn(t)
          BY <1>1, <3>1, Grown, Zenon
        <4>2. tx_events' = t
          BY <2>1, <4>1
        <4> QED BY <4>1, <4>2
      <3> QED BY <1>1, <2>1, <3>2 DEF Queued
    <2>2. CASE tx_event_drops' = tx_event_drops + 1 /\ UNCHANGED tx_events
      BY <1>1, <2>2 DEF Queued, Sound, Events
    <2> QED BY <2>1, <2>2 DEF Core!Raise
  <1>7. EventsAccounted'
    <2>1. /\ Len(emitted) = Len(delivered) + Len(sending) + Len(tx_events)
                            + tx_event_drops
          /\ Len(sending') = Len(sending) /\ Len(delivered') = Len(delivered)
      BY <1>1 DEF EventsAccounted
    <2>2. /\ Len(emitted) \in Nat /\ Len(delivered) \in Nat /\ Len(sending) \in Nat
          /\ Len(tx_events) \in Nat /\ tx_event_drops \in Nat
          /\ Len(tx_events') \in Nat /\ tx_event_drops' \in Nat
          /\ Len(emitted') = Len(emitted) + 1
          /\ Len(tx_events') + tx_event_drops' = Len(tx_events) + tx_event_drops + 1
      BY <1>1, <1>2, <1>6
    <2>3. Len(emitted') = Len(delivered) + Len(sending) + Len(tx_events')
                          + tx_event_drops'
      BY <2>1, <2>2
    <2> QED BY <2>1, <2>3 DEF EventsAccounted
  <1>8. Events'
    <2>1. \A d \in Told' : count'[d.request] > 0
      BY <1>3 DEF Sound, Events
    <2>2. \A d \in Held' \cup Queued' :
             Owner(d.request) = conn' /\ count'[d.request] > 0 /\ Device!Honest(d)'
      <3>1. Owner(e.request) = conn /\ count[e.request] > 0
        BY DEF Sound, Scheduled
      <3> QED BY <1>3, <1>5, <1>6, <3>1 DEF Sound, Events
    <2>3. Follows(Told', Held') /\ Follows(Told' \cup Held', Queued')
      BY <1>3, <1>4, <1>6 DEF Sound, Events, Follows
    <2> QED BY <1>6, <2>1, <2>2, <2>3 DEF Events
  <1> QED BY <1>2, <1>3, <1>6, <1>7, <1>8

(* A stop: what the bus may have got by then, and the last event. *)
LEMMA Stopped ==
    ASSUME Sound, Core!Close, scheduled' = FALSE, tx_request' = tx_request,
           count' = count, conn' = conn, sending' = sending, delivered' = delivered
    PROVE  /\ bus' \in [Requests -> 0..MaxCount] /\ Scheduled'
           /\ tx_events' \in Seq(Core!Event) /\ Len(tx_events') <= EventDepth
           /\ tx_event_drops' \in Nat /\ emitted' \in Seq(Core!Event)
           /\ Events' /\ EventsAccounted' /\ Device!Abort
           /\ ~scheduled => tx_events' = tx_events
  <1>1. CASE ~scheduled
    <2>1. bus' = bus /\ tx_events' = tx_events /\ tx_event_drops' = tx_event_drops
          /\ emitted' = emitted
      BY <1>1 DEF Core!Close, Core!eventvars
    <2>2. Events' /\ EventsAccounted' /\ Scheduled'
      BY <1>1, <2>1 DEF Sound, Events, EventsAccounted, Scheduled, Told, Held, Queued,
                        Device!Honest
    <2>3. Device!Abort
      BY <1>1, <2>1 DEF Device!Abort
    <2> QED BY <2>1, <2>2, <2>3 DEF Sound, Core!TypeOK
  <1>2. CASE scheduled
    <2>1. /\ tx_request \in Requests /\ completed \in 0..MaxCount
          /\ completed <= bus[tx_request] /\ bus[tx_request] <= completed + 1
          /\ bus[tx_request] <= count[tx_request] /\ completed \in Nat
          /\ count[tx_request] \in 0..MaxCount /\ bus[tx_request] \in Nat
          /\ bus \in [Requests -> 0..MaxCount] /\ MaxCount \in Nat
      BY <1>2, Known DEF Sound, Scheduled, Core!TypeOK
    <2>2. PICK n \in Nat, error \in {"ECANCELED", "EINPROGRESS"} :
            /\ Core!Raise(Core!Outcome(completed, error, TRUE))
            /\ bus' = [bus EXCEPT ![tx_request] = n]
            /\ n = bus[tx_request] \/ (n = bus[tx_request] + 1 /\ n <= count[tx_request])
            /\ n - completed \in (IF error = "EINPROGRESS" THEN {0, 1} ELSE {0})
      <3>1. CASE /\ bus[tx_request] = completed
                 /\ Core!Raise(Core!Outcome(completed, "ECANCELED", TRUE))
                 /\ UNCHANGED bus
        <4>1. bus' = [bus EXCEPT ![tx_request] = completed]
          BY <2>1, <3>1
        <4>2. completed = bus[tx_request] /\ completed - completed \in {0}
          BY <2>1, <3>1
        <4> QED BY <2>1, <3>1, <4>1, <4>2
      <3>2. CASE /\ completed < count[tx_request]
                 /\ \E n \in {completed, completed + 1} :
                       /\ n >= bus[tx_request]
                       /\ bus' = [bus EXCEPT ![tx_request] = n]
                 /\ Core!Raise(Core!Outcome(completed, "EINPROGRESS", TRUE))
        <4>1. PICK n \in {completed, completed + 1} :
                       /\ n >= bus[tx_request]
                       /\ bus' = [bus EXCEPT ![tx_request] = n]
          BY <3>2
        <4>2. /\ n \in Nat /\ n - completed \in {0, 1} /\ n <= count[tx_request]
              /\ n = bus[tx_request] \/ n = bus[tx_request] + 1
          BY <2>1, <3>2, <4>1
        <4> QED BY <3>2, <4>1, <4>2
      <3> QED BY <1>2, <3>1, <3>2 DEF Core!Close
    <2>3. PICK e \in Core!Event :
            /\ e = Core!Outcome(completed, error, TRUE) /\ e.request = tx_request
            /\ e.completed = completed /\ e.error = error /\ e.terminal = TRUE
      <3> DEFINE f == Core!Outcome(completed, error, TRUE)
      <3>1. /\ f \in Core!Event /\ f.request = tx_request /\ f.completed = completed
            /\ f.error = error /\ f.terminal = TRUE
        BY <2>1 DEF Core!Outcome, Core!Event, Core!Errors
      <3> QED BY <3>1
    <2>4. /\ bus' \in [Requests -> 0..MaxCount] /\ bus'[tx_request] = n
          /\ bus' \in [Requests -> Nat]
          /\ n >= bus[tx_request] /\ n <= count[tx_request]
          /\ \A r \in Requests : r /= tx_request => bus'[r] = bus[r]
      <3>1. n \in 0..MaxCount /\ n >= bus[tx_request] /\ n <= count[tx_request]
        BY <2>1, <2>2
      <3> QED BY <2>1, <2>2, <3>1
    <2>5. Device!Honest(e)'
      <3>1. e.completed <= n
        <4>1. completed <= n
          BY <2>1, <2>4
        <4>2. e.completed = completed
          BY <2>3
        <4> QED BY <4>1, <4>2, Zenon
      <3>2. n - e.completed \in (IF e.error = "EINPROGRESS" THEN {0, 1} ELSE {0})
        BY <2>2, <2>3
      <3>3. e.error /= "OK"
        BY <2>2, <2>3
      <3> QED BY <2>3, <2>4, <3>1, <3>2, <3>3 DEF Device!Honest
    <2>6. /\ tx_events' \in Seq(Core!Event) /\ Len(tx_events') <= EventDepth
          /\ tx_event_drops' \in Nat /\ emitted' \in Seq(Core!Event)
          /\ Events' /\ EventsAccounted'
      <3>1. Core!Raise(e)
        BY <2>2, <2>3
      <3>2. ~(e.error = "OK") /\ completed <= e.completed
        <4>1. e.completed = completed /\ e.error = error
          BY <2>3
        <4>2. error /= "OK" /\ completed <= completed
          BY <2>1
        <4> QED BY <4>1, <4>2, Zenon
      <3>3. bus'[tx_request] >= bus[tx_request]
        BY <2>4
      <3> QED BY <1>2, <2>3, <2>4, <2>5, <3>1, <3>2, <3>3, Raised
    <2>7. Scheduled'
      <3>1. \A r \in Requests : bus'[r] <= count[r]
        BY <2>4, Known
      <3> QED BY <3>1 DEF Scheduled
    <2>8. Device!Abort
      <3>1. CASE n = bus[tx_request]
        <4>1. bus' = bus
          BY <2>1, <2>2, <3>1
        <4> QED BY <4>1 DEF Device!Abort
      <3>2. CASE n = bus[tx_request] + 1
        <4>1. bus[tx_request] < count[tx_request]
          BY <2>1, <2>4, <3>2
        <4>2. tx_request /= 0
          BY <2>1 DEF Requests
        <4> QED BY <1>2, <2>1, <2>2, <3>2, <4>1, <4>2 DEF Device!Abort
      <3> QED BY <2>2, <3>1, <3>2
    <2> QED BY <1>2, <2>4, <2>6, <2>7, <2>8
  <1> QED BY <1>1, <1>2

LEMMA HaltKeeps ==
    ASSUME Sound, Core!Halt, conn' = conn, sending' = sending, delivered' = delivered
    PROVE  /\ Sound' /\ Device!Abort /\ count' = count
           /\ ~scheduled' /\ active' = FALSE /\ (~scheduled => tx_events' = tx_events)
  <1>1. /\ Core!Close /\ scheduled' = FALSE /\ tx_request' = tx_request
        /\ count' = count /\ completed' = completed /\ configured' = configured
        /\ taken' = taken /\ running' = FALSE /\ active' = FALSE
    BY DEF Core!Halt
  <1>2. Core!TypeOK'
    BY <1>1, Stopped DEF Sound, Core!TypeOK
  <1> QED BY <1>1, <1>2, Stopped DEF Sound

LEMMA ConfigureKeeps ==
    ASSUME Sound, Core!Configure, conn' = conn, sending' = sending, delivered' = delivered
    PROVE  /\ Sound' /\ Device!Abort /\ count' = count
           /\ ~scheduled' /\ active' \in BOOLEAN
  <1>1. /\ Core!Close /\ scheduled' = FALSE /\ tx_request' = tx_request
        /\ count' = count /\ completed' = completed /\ configured' \in BOOLEAN
        /\ taken' = taken /\ running' = FALSE /\ active' \in BOOLEAN
    BY DEF Core!Configure
  <1>2. Core!TypeOK'
    BY <1>1, Stopped DEF Sound, Core!TypeOK
  <1> QED BY <1>1, <1>2, Stopped DEF Sound

-----------------------------------------------------------------------------
(* Steps that leave the events where they are. *)
LEMMA Untouched ==
    ASSUME Sound, count' = count, conn' = conn, tx_events' = tx_events,
           tx_event_drops' = tx_event_drops, emitted' = emitted,
           sending' = sending, delivered' = delivered,
           bus' = bus \/ \A d \in Held \cup Queued : Device!Honest(d)'
    PROVE  Events' /\ EventsAccounted' /\ Told' = Told /\ Held' = Held /\ Queued' = Queued
  <1>1. Told' = Told /\ Held' = Held /\ Queued' = Queued
    BY DEF Told, Held, Queued
  <1>2. EventsAccounted'
    BY DEF Sound, EventsAccounted
  <1>3. \A d \in Held \cup Queued : Device!Honest(d)'
    BY DEF Sound, Events, Device!Honest
  <1> QED BY <1>1, <1>2, <1>3 DEF Sound, Events

LEMMA TransmitKeeps ==
    ASSUME Sound, Core!Transmit, conn' = conn, sending' = sending, delivered' = delivered
    PROVE  /\ Sound' /\ scheduled' = scheduled /\ count' = count
           /\ tx_events' = tx_events
  <1>1. /\ scheduled /\ tx_request \in Requests /\ completed \in Nat
        /\ completed < count[tx_request] /\ count[tx_request] \in Nat
        /\ bus[tx_request] = completed /\ count[tx_request] <= MaxCount
        /\ bus \in [Requests -> 0..MaxCount] /\ MaxCount \in Nat
        /\ bus' = [bus EXCEPT ![tx_request] = completed + 1]
    BY Known DEF Core!Transmit, Sound, Scheduled, Core!TypeOK
  <1>2. completed + 1 \in 0..MaxCount /\ completed + 1 <= count[tx_request]
        /\ completed + 1 >= bus[tx_request]
    BY <1>1
  <1>3. /\ bus' \in [Requests -> 0..MaxCount] /\ bus' \in [Requests -> Nat]
        /\ bus'[tx_request] = completed + 1 /\ bus'[tx_request] >= bus[tx_request]
        /\ \A r \in Requests : r /= tx_request => bus'[r] = bus[r]
    BY <1>1, <1>2
  <1>4. /\ running' = running /\ configured' = configured /\ active' = active
        /\ scheduled' = scheduled /\ tx_request' = tx_request
        /\ completed' = completed /\ count' = count /\ tx_events' = tx_events
        /\ tx_event_drops' = tx_event_drops /\ emitted' = emitted /\ taken' = taken
    BY DEF Core!Transmit, Core!eventvars
  <1>5. /\ Events' /\ EventsAccounted' /\ Told' = Told /\ Held' = Held
        /\ Queued' = Queued
    BY <1>1, <1>3, <1>4, StillHonest, Untouched
  <1>6. Core!TypeOK'
    BY <1>3, <1>4 DEF Sound, Core!TypeOK
  <1>7. Scheduled'
    <2>1. \A r \in Requests : bus'[r] <= count[r]
      BY <1>2, <1>3, Known
    <2>2. completed <= bus'[tx_request] /\ bus'[tx_request] <= completed + 1
      BY <1>1, <1>3
    <2> QED BY <1>4, <1>5, <2>1, <2>2 DEF Sound, Scheduled
  <1> QED BY <1>4, <1>5, <1>6, <1>7 DEF Sound

LEMMA ReportKeeps ==
    ASSUME Sound, Core!Report, conn' = conn, sending' = sending, delivered' = delivered
    PROVE  Sound' /\ (scheduled' => scheduled) /\ count' = count
  <1>1. /\ scheduled /\ tx_request \in Requests /\ completed \in Nat
        /\ bus[tx_request] = completed + 1 /\ bus[tx_request] <= count[tx_request]
        /\ count[tx_request] <= MaxCount /\ count[tx_request] \in Nat /\ MaxCount \in Nat
    BY Known DEF Core!Report, Sound, Scheduled, Core!TypeOK
  <1>2. /\ running' = running /\ configured' = configured /\ active' = active
        /\ tx_request' = tx_request /\ completed' = completed + 1
        /\ scheduled' = ~(completed' = count[tx_request])
        /\ count' = count /\ bus' = bus /\ taken' = taken
    BY DEF Core!Report
  <1>3. PICK e \in Core!Event :
          /\ e.request = tx_request /\ e.completed = completed + 1 /\ e.error = "OK"
          /\ e.terminal = (completed + 1 = count[tx_request]) /\ Core!Raise(e)
    <2> DEFINE f == Core!Outcome(completed + 1, "OK", completed + 1 = count[tx_request])
    <2>1. completed + 1 \in 0..MaxCount
      BY <1>1
    <2>2. /\ f \in Core!Event /\ f.request = tx_request /\ f.completed = completed + 1
          /\ f.error = "OK" /\ f.terminal = (completed + 1 = count[tx_request])
      BY <1>1, <2>1 DEF Core!Outcome, Core!Event, Core!Errors
    <2>3. Core!Raise(f)
      BY <1>2 DEF Core!Report
    <2> QED BY <2>2, <2>3
  <1>4. Device!Honest(e)'
    <2>1. bus[tx_request] - (completed + 1) \in {0} /\ completed + 1 <= bus[tx_request]
      BY <1>1
    <2> QED BY <1>1, <1>2, <1>3, <2>1 DEF Device!Honest
  <1>5. bus' \in [Requests -> 0..MaxCount] /\ bus' \in [Requests -> Nat]
    BY <1>2, SessionAssumption DEF Sound, Core!TypeOK
  <1>6. completed < e.completed /\ bus'[tx_request] >= bus[tx_request]
    BY <1>1, <1>2, <1>3
  <1>7. /\ tx_events' \in Seq(Core!Event) /\ Len(tx_events') <= EventDepth
        /\ tx_event_drops' \in Nat /\ emitted' \in Seq(Core!Event)
        /\ Events' /\ EventsAccounted' /\ Queued' \subseteq Queued \cup {e}
        /\ Told' = Told /\ Held' = Held
    BY <1>1, <1>2, <1>3, <1>4, <1>5, <1>6, Raised
  <1>8. Core!TypeOK'
    <2>1. completed' \in 0..MaxCount
      BY <1>1, <1>2
    <2>2. scheduled' \in BOOLEAN
      BY <1>2
    <2> QED BY <1>2, <1>5, <1>7, <2>1, <2>2 DEF Sound, Core!TypeOK
  <1>9. Scheduled'
    <2>1. \A r \in Requests : bus'[r] <= count'[r]
      BY <1>2 DEF Sound, Scheduled
    <2>2. ASSUME scheduled' PROVE ~e.terminal
      BY <1>2, <1>3, <2>2
    <2>3. ASSUME scheduled', NEW d \in Told' \cup Held' \cup Queued',
                 d.request = tx_request
          PROVE  ~d.terminal /\ d.completed <= completed'
      <3>1. CASE d = e
        BY <1>1, <1>2, <1>3, <2>2, <2>3, <3>1
      <3>2. CASE d \in Told \cup Held \cup Queued
        <4>1. ~d.terminal /\ d.completed <= completed /\ d.completed \in Nat
          BY <1>1, <2>3, <3>2, Known DEF Sound, Scheduled
        <4> QED BY <1>1, <1>2, <4>1
      <3> QED BY <1>7, <2>3, <3>1, <3>2
    <2>4. completed' <= bus'[tx_request] /\ bus'[tx_request] <= completed' + 1
      BY <1>1, <1>2
    <2>5. active /\ Owner(tx_request) = conn /\ count[tx_request] > 0
      BY <1>1 DEF Sound, Scheduled
    <2> QED BY <1>1, <1>2, <2>1, <2>3, <2>4, <2>5 DEF Scheduled
  <1> QED BY <1>1, <1>2, <1>7, <1>8, <1>9 DEF Sound

LEMMA FailKeeps ==
    ASSUME Sound, Core!Fail, conn' = conn, sending' = sending, delivered' = delivered
    PROVE  Sound' /\ ~scheduled' /\ scheduled /\ count' = count
  <1>1. /\ scheduled /\ tx_request \in Requests /\ completed \in 0..MaxCount
        /\ bus[tx_request] = completed /\ completed \in Nat
    BY Known DEF Core!Fail, Sound, Scheduled, Core!TypeOK
  <1>2. /\ running' = running /\ configured' = configured /\ active' = active
        /\ tx_request' = tx_request /\ completed' = completed /\ scheduled' = FALSE
        /\ count' = count /\ bus' = bus /\ taken' = taken
    BY DEF Core!Fail
  <1>3. PICK e \in Core!Event :
          /\ e.request = tx_request /\ e.completed = completed /\ e.error = "EIO"
          /\ e.terminal = TRUE /\ Core!Raise(e)
    <2> DEFINE f == Core!Outcome(completed, "EIO", TRUE)
    <2>1. /\ f \in Core!Event /\ f.request = tx_request /\ f.completed = completed
          /\ f.error = "EIO" /\ f.terminal = TRUE
      BY <1>1 DEF Core!Outcome, Core!Event, Core!Errors
    <2>2. Core!Raise(f)
      BY DEF Core!Fail
    <2> QED BY <2>1, <2>2
  <1>4. Device!Honest(e)'
    <2>1. bus[tx_request] - completed \in {0} /\ completed <= bus[tx_request]
      BY <1>1
    <2> QED BY <1>1, <1>2, <1>3, <2>1 DEF Device!Honest
  <1>5. bus' \in [Requests -> 0..MaxCount] /\ bus' \in [Requests -> Nat]
    BY <1>2, SessionAssumption DEF Sound, Core!TypeOK
  <1>6. completed <= e.completed /\ bus'[tx_request] >= bus[tx_request]
    BY <1>1, <1>2, <1>3
  <1>7. /\ tx_events' \in Seq(Core!Event) /\ Len(tx_events') <= EventDepth
        /\ tx_event_drops' \in Nat /\ emitted' \in Seq(Core!Event)
        /\ Events' /\ EventsAccounted'
    BY <1>1, <1>2, <1>3, <1>4, <1>5, <1>6, Raised
  <1>8. Core!TypeOK'
    BY <1>2, <1>5, <1>7 DEF Sound, Core!TypeOK
  <1>9. Scheduled'
    BY <1>2 DEF Sound, Scheduled
  <1> QED BY <1>1, <1>2, <1>7, <1>8, <1>9 DEF Sound

(* A schedule opens: nothing was ever said of its request. *)
LEMMA AcceptKeeps ==
    ASSUME Sound, NEW r \in Requests, Owner(r) = conn, NEW n \in 1..MaxCount,
           Core!Accept(r, n),
           conn' = conn, sending' = sending, delivered' = delivered
    PROVE  /\ Sound' /\ ~scheduled /\ scheduled' /\ count' = [count EXCEPT ![r] = n]
           /\ Device!Accept(r, n)
  <1>1. /\ running' = running /\ configured' = configured /\ active' = active
        /\ active /\ ~scheduled /\ count[r] = 0
        /\ tx_request' = r /\ completed' = 0 /\ scheduled' = TRUE
        /\ count' = [count EXCEPT ![r] = n] /\ bus' = bus /\ taken' = taken
        /\ tx_events' = tx_events /\ tx_event_drops' = tx_event_drops
        /\ emitted' = emitted
    BY DEF Core!Accept, Core!eventvars
  <1>2. /\ count \in [Requests -> 0..MaxCount] /\ bus \in [Requests -> 0..MaxCount]
        /\ MaxCount \in Nat
    BY Known DEF Sound, Core!TypeOK
  <1>3. /\ count' \in [Requests -> 0..MaxCount] /\ count'[r] = n /\ n > 0
        /\ \A q \in Requests : q /= r => count'[q] = count[q]
    BY <1>1, <1>2
  <1>4. Core!TypeOK'
    BY <1>1, <1>2, <1>3 DEF Sound, Core!TypeOK
  <1>5. Told' = Told /\ Held' = Held /\ Queued' = Queued
    BY <1>1 DEF Told, Held, Queued
  <1>6. \A d \in Told \cup Held \cup Queued : /\ d.request \in Requests
                                              /\ count[d.request] > 0
    BY Known DEF Sound, Events
  <1>7. \A d \in Told \cup Held \cup Queued :
           d.request /= r /\ count'[d.request] = count[d.request]
    BY <1>1, <1>3, <1>6
  <1>8. Scheduled'
    <2>1. bus[r] = 0
      BY <1>1, Known
    <2>2. \A q \in Requests : bus[q] <= count'[q]
      BY <1>2, <1>3, <2>1, Known
    <2> QED BY <1>1, <1>3, <1>5, <1>7, <2>1, <2>2 DEF Scheduled
  <1>9. Events'
    <2>1. \A d \in Held \cup Queued : Device!Honest(d)'
      BY <1>1, <1>7 DEF Sound, Events, Device!Honest
    <2> QED BY <1>1, <1>5, <1>7, <2>1 DEF Sound, Events
  <1>10. EventsAccounted'
    BY <1>1 DEF Sound, EventsAccounted
  <1>11. Device!Accept(r, n)
    BY <1>1 DEF Device!Accept
  <1> QED BY <1>1, <1>4, <1>8, <1>9, <1>10, <1>11 DEF Sound

(* Steps of the core that neither open a schedule nor raise an event. *)
LEMMA StartKeeps ==
    ASSUME Sound, Core!Start \/ UNCHANGED corevars,
           conn' = conn, sending' = sending, delivered' = delivered
    PROVE  Sound' /\ scheduled' = scheduled /\ count' = count /\ Device!Effectless
           /\ tx_events' = tx_events
  <1>1. /\ running' \in BOOLEAN /\ configured' = configured /\ active' = active
        /\ scheduled' = scheduled /\ tx_request' = tx_request
        /\ completed' = completed /\ count' = count /\ bus' = bus
        /\ tx_events' = tx_events /\ tx_event_drops' = tx_event_drops
        /\ emitted' = emitted /\ taken' = taken
    BY DEF Core!Start, Core!eventvars, corevars, Sound, Core!TypeOK
  <1>2. /\ Events' /\ EventsAccounted' /\ Told' = Told /\ Held' = Held
        /\ Queued' = Queued
    BY <1>1, Untouched
  <1>3. Core!TypeOK'
    BY <1>1 DEF Sound, Core!TypeOK
  <1>4. Scheduled'
    BY <1>1, <1>2 DEF Sound, Scheduled
  <1>5. Device!Effectless
    BY <1>1 DEF Device!Effectless
  <1> QED BY <1>1, <1>2, <1>3, <1>4, <1>5 DEF Sound

LEMMA TakeKeeps ==
    ASSUME Sound, Core!Take, sending = <<>>, sending' = <<Head(tx_events)>>,
           conn' = conn, delivered' = delivered
    PROVE  /\ Sound' /\ scheduled' = scheduled /\ count' = count /\ Len(sending') = 1
           /\ active' = active /\ tx_request' = tx_request /\ bus' = bus
  <1>1. /\ running' = running /\ configured' = configured /\ active' = active
        /\ scheduled' = scheduled /\ tx_request' = tx_request
        /\ completed' = completed /\ count' = count /\ bus' = bus
        /\ tx_events /= <<>> /\ tx_events' = Tail(tx_events)
        /\ tx_event_drops' = tx_event_drops /\ emitted' = emitted
        /\ taken' = taken + 1 /\ tx_events \in Seq(Core!Event) /\ taken \in Nat
        /\ Len(tx_events) <= EventDepth /\ EventDepth \in Nat
    BY SessionAssumption DEF Core!Take, Sound, Core!TypeOK
  <1> DEFINE h == Head(tx_events)
  <1>2. /\ tx_events' \in Seq(Core!Event) /\ h \in Core!Event
        /\ Len(tx_events') = Len(tx_events) - 1 /\ Len(tx_events) \in Nat
        /\ Queued = Queued' \cup {h}
        /\ InTurn(tx_events') /\ Follows({h}, Queued')
    BY <1>1, Shrunk DEF Sound, Events, Queued
  <1>3. /\ Told' = Told /\ Held = {} /\ Held' = {h} /\ sending' \in Seq(Core!Event)
        /\ Len(sending') = 1 /\ Len(sending) = 0
    BY <1>2, Empty DEF Told, Held
  <1> HIDE DEF h
  <1>4. Core!TypeOK'
    <2>1. Len(tx_events') <= EventDepth /\ taken' \in Nat
      BY <1>1, <1>2
    <2> QED BY <1>1, <1>2, <2>1 DEF Sound, Core!TypeOK
  <1>5. Scheduled'
    BY <1>1, <1>2, <1>3 DEF Sound, Scheduled
  <1>6. Events'
    <2>1. \A d \in Held' \cup Queued' :
             Owner(d.request) = conn /\ count[d.request] > 0 /\ Device!Honest(d)'
      BY <1>1, <1>2, <1>3 DEF Sound, Events, Device!Honest
    <2>2. Follows(Told', Held') /\ Follows(Told' \cup Held', Queued')
      BY <1>2, <1>3 DEF Sound, Events, Follows
    <2>3. \A d \in Told' : count'[d.request] > 0
      BY <1>1, <1>3 DEF Sound, Events
    <2> QED BY <1>1, <1>2, <2>1, <2>2, <2>3 DEF Events
  <1>7. EventsAccounted'
    <2>1. /\ Len(emitted) = Len(delivered) + Len(sending) + Len(tx_events)
                            + tx_event_drops
          /\ Len(delivered) \in Nat /\ tx_event_drops \in Nat
      BY LenProperties DEF Sound, EventsAccounted, Core!TypeOK
    <2>2. Len(emitted) = Len(delivered) + Len(sending') + Len(tx_events')
                         + tx_event_drops
      BY <1>2, <1>3, <2>1
    <2> QED BY <1>1, <2>2 DEF EventsAccounted
  <1> QED BY <1>1, <1>2, <1>3, <1>4, <1>5, <1>6, <1>7 DEF Sound

LEMMA DiscardKeeps ==
    ASSUME Sound, discard_queue, conn' = conn, sending' = sending,
           delivered' = delivered
    PROVE  /\ Sound' /\ scheduled' = scheduled /\ count' = count /\ tx_events' = <<>>
           /\ active' = active /\ tx_request' = tx_request /\ bus' = bus
  <1>1. CASE tx_events = <<>>
    BY <1>1, StartKeeps DEF discard_queue, corevars
  <1>2. CASE tx_events /= <<>>
    <2>1. /\ running' = running /\ configured' = configured /\ active' = active
          /\ scheduled' = scheduled /\ tx_request' = tx_request
          /\ completed' = completed /\ count' = count /\ bus' = bus
          /\ tx_events' = <<>> /\ emitted' = emitted /\ taken' = taken
          /\ tx_event_drops' = tx_event_drops + Len(tx_events)
          /\ tx_events \in Seq(Core!Event) /\ Len(tx_events) \in Nat
          /\ tx_event_drops \in Nat /\ EventDepth \in Nat
      BY <1>2, SessionAssumption, LenProperties
         DEF discard_queue, Core!DiscardEvents, Sound, Core!TypeOK
    <2>2. /\ Told' = Told /\ Held' = Held /\ Queued' = {} /\ Len(tx_events') = 0
          /\ tx_events' \in Seq(Core!Event) /\ InTurn(tx_events')
      BY <2>1, Empty DEF Told, Held, Queued
    <2>3. Core!TypeOK'
      <3>1. Len(tx_events') <= EventDepth /\ tx_event_drops' \in Nat
        BY <2>1, <2>2
      <3> QED BY <2>1, <2>2, <3>1 DEF Sound, Core!TypeOK
    <2>4. Scheduled'
      BY <2>1, <2>2 DEF Sound, Scheduled
    <2>5. Events'
      BY <2>1, <2>2 DEF Sound, Events, Follows, Device!Honest
    <2>6. EventsAccounted'
      <3>1. /\ Len(emitted) = Len(delivered) + Len(sending) + Len(tx_events)
                              + tx_event_drops
            /\ Len(delivered) \in Nat /\ Len(sending) \in Nat
        BY LenProperties DEF Sound, EventsAccounted
      <3>2. Len(emitted) = Len(delivered) + Len(sending) + Len(tx_events')
                           + tx_event_drops'
        BY <2>1, <2>2, <3>1
      <3> QED BY <2>1, <3>2 DEF EventsAccounted
    <2> QED BY <2>1, <2>3, <2>4, <2>5, <2>6 DEF Sound
  <1> QED BY <1>1, <1>2

(* The event in the server's hands is sent, or counted as lost. *)
LEMMA SendKeeps ==
    ASSUME Sound, Len(sending) = 1, sending' = <<>>, conn' = conn,
           \/ UNCHANGED corevars /\ delivered' = Append(delivered, Head(sending))
           \/ Core!Lose /\ delivered' = delivered
    PROVE  /\ Sound' /\ scheduled' = scheduled /\ count' = count
           /\ active' = active /\ tx_request' = tx_request /\ bus' = bus
           /\ tx_events' = tx_events
  <1>1. /\ running' = running /\ configured' = configured /\ active' = active
        /\ scheduled' = scheduled /\ tx_request' = tx_request
        /\ completed' = completed /\ count' = count /\ bus' = bus
        /\ tx_events' = tx_events /\ emitted' = emitted /\ taken' \in Nat
        /\ \/ /\ delivered' = Append(delivered, Head(sending))
              /\ tx_event_drops' = tx_event_drops
           \/ delivered' = delivered /\ tx_event_drops' = tx_event_drops + 1
        /\ tx_event_drops \in Nat
    BY DEF corevars, Core!Lose, Sound, Core!TypeOK
  <1>2. PICK h \in Core!Event : h = Head(sending) /\ Held = {h}
    BY Singletons DEF Sound, Held
  <1>3. /\ delivered' \in Seq(Core!Event) /\ Told \subseteq Told'
        /\ Told' \subseteq Told \cup {h}
        /\ Len(delivered') \in Nat /\ Len(delivered) \in Nat
        /\ Len(delivered') + tx_event_drops' = Len(delivered) + tx_event_drops + 1
    <2>0. h \in Core!Event
      OBVIOUS
    <2>1. delivered \in Seq(Core!Event) /\ Len(delivered) \in Nat
      BY LenProperties DEF Sound
    <2>2. CASE delivered' = delivered /\ tx_event_drops' = tx_event_drops + 1
      BY <1>1, <2>1, <2>2 DEF Told
    <2>3. CASE delivered' = Append(delivered, h) /\ tx_event_drops' = tx_event_drops
      <3>1. /\ delivered' \in Seq(Core!Event) /\ Len(delivered') = Len(delivered) + 1
            /\ Elements(delivered') = Elements(delivered) \cup {h}
        <4>1. PICK t \in Seq(Core!Event) :
                /\ t = Append(delivered, h) /\ Len(t) = Len(delivered) + 1
                /\ Elements(t) = Elements(delivered) \cup {h}
                /\ InTurn(delivered) /\ Follows(Elements(delivered), {h}) => InTurn(t)
          BY <2>0, <2>1, Grown, Zenon
        <4>2. delivered' = t
          BY <2>3, <4>1
        <4> QED BY <4>1, <4>2
      <3> QED BY <1>1, <2>1, <2>3, <3>1 DEF Told
    <2> QED BY <1>1, <1>2, <2>2, <2>3
  <1>4. /\ Held' = {} /\ Queued' = Queued /\ sending' \in Seq(Core!Event)
        /\ Len(sending') = 0
    BY <1>1, Empty DEF Held, Queued
  <1>5. Core!TypeOK'
    BY <1>1 DEF Sound, Core!TypeOK
  <1>6. Scheduled'
    BY <1>1, <1>2, <1>3, <1>4 DEF Sound, Scheduled
  <1>7. Events'
    <2>1. \A d \in Told' : count[d.request] > 0
      BY <1>2, <1>3 DEF Sound, Events
    <2>2. Follows(Told', Held') /\ Follows(Told' \cup Held', Queued')
      BY <1>2, <1>3, <1>4 DEF Sound, Events, Follows
    <2> QED BY <1>1, <1>4, <2>1, <2>2 DEF Sound, Events, Device!Honest
  <1>8. EventsAccounted'
    <2>1. /\ Len(emitted) = Len(delivered) + Len(sending) + Len(tx_events)
                            + tx_event_drops
          /\ Len(tx_events) \in Nat
      BY LenProperties DEF Sound, EventsAccounted, Core!TypeOK
    <2>2. tx_event_drops \in Nat /\ tx_event_drops' \in Nat
      BY <1>1
    <2>3. Len(emitted) = Len(delivered') + Len(sending') + Len(tx_events)
                         + tx_event_drops'
      BY <1>3, <1>4, <2>1, <2>2
    <2> QED BY <1>1, <2>3 DEF EventsAccounted
  <1> QED BY <1>1, <1>3, <1>4, <1>5, <1>6, <1>7, <1>8 DEF Sound

-----------------------------------------------------------------------------
(* The server.  Its steps leave the core alone or let it take a step of    *)
(* its own; either way what the core relies on is kept.                    *)
LEMMA Rely == ASSUME SessionInv PROVE Sound
  BY DEF SessionInv, Sound, TypeOK

LEMMA Ranges ==
    ASSUME SessionInv
    PROVE  /\ conn \in Nat /\ high_request \in 0..MaxId /\ MaxId \in Nat \ {0}
           /\ Newest = Request(conn, 0) + high_request /\ Request(conn, 0) \in Int
           /\ Newest <= Request(conn + 1, 0) /\ Newest \in Int
           /\ Requests \subseteq Nat \ {0} /\ 0 \notin Requests
           /\ phase /= "accept" => conn \in 1..MaxConnections
           /\ sending = <<>> => Held = {}
  <1>1. /\ conn \in 0..MaxConnections /\ high_request \in 0..MaxId
        /\ MaxId \in Nat \ {0} /\ MaxConnections \in Nat
        /\ phase /= "accept" => conn > 0
    BY SessionAssumption DEF SessionInv, TypeOK, Places
  <1>2. conn \in Nat
    BY <1>1
  <1>3. /\ Newest = Request(conn, 0) + high_request /\ Request(conn, 0) \in Int
        /\ Request(conn + 1, 0) = Request(conn, 0) + MaxId
    BY <1>1, <1>2, Numbers DEF Newest
  <1>4. Requests \subseteq Nat \ {0} /\ 0 \notin Requests
    BY DEF Requests
  <1>5. sending = <<>> => Held = {}
    BY Empty DEF Held
  <1> QED BY <1>1, <1>2, <1>3, <1>4, <1>5

(* What is known of the requests does not change while none is executed    *)
(* or answered.                                                            *)
LEMMA Quiet ==
    ASSUME SessionInv, conn' = conn, high_request' = high_request, cache' = cache,
           executed' = executed, origin' = origin, answer' = answer, count' = count
    PROVE  Unused' /\ Caching' /\ Latest' /\ Newest' = Newest
  BY DEF SessionInv, Unused, Caching, Latest, Newest

(* Steps of the core and of the other threads, with the server waiting. *)
LEMMA OthersStep ==
    ASSUME SessionInv, Others
    PROVE  SessionInv' /\ count' = count
  <1>1. /\ phase' = phase /\ conn' = conn /\ hello' = hello /\ reboot' = reboot
        /\ high_request' = high_request /\ cache' = cache /\ request' = request
        /\ reply' = reply /\ sending' = sending /\ executed' = executed
        /\ origin' = origin /\ answer' = answer /\ delivered' = delivered
        /\ lastconfig' = lastconfig
    BY DEF Others, server, history
  <1>2. /\ Sound' /\ count' = count /\ (scheduled' => scheduled)
        /\ ~scheduled => tx_events' = tx_events
    <2>1. CASE Core!Transmit
      BY <1>1, <2>1, Rely, TransmitKeeps
    <2>2. CASE Core!Report
      <3>1. scheduled
        BY <2>2 DEF Core!Report
      <3> QED BY <1>1, <2>2, <3>1, Rely, ReportKeeps
    <2>3. CASE Core!Fail
      BY <1>1, <2>3, Rely, FailKeeps
    <2>4. CASE Core!Halt
      BY <1>1, <2>4, Rely, HaltKeeps
    <2> QED BY <2>1, <2>2, <2>3, <2>4 DEF Others
  <1>3. TypeOK'
    BY <1>1, <1>2 DEF SessionInv, TypeOK, Sound
  <1>4. Places'
    BY <1>1, <1>2 DEF SessionInv, Places
  <1>5. Unused' /\ Caching' /\ Latest'
    BY <1>1, <1>2, Quiet
  <1>6. Replying' /\ Answered'
    BY <1>1, <1>2 DEF SessionInv, Replying, Answered, Cached
  <1> QED BY <1>2, <1>3, <1>4, <1>5, <1>6 DEF SessionInv, Sound

LEMMA HaltStep ==
    ASSUME SessionInv, ServeStop \/ Restart
    PROVE  SessionInv' /\ Device!Abort /\ active' = FALSE /\ scheduled' = FALSE
           /\ count' = count
  <1>1. /\ conn' = conn /\ hello' = hello /\ reboot' = reboot
        /\ high_request' = high_request /\ cache' = cache /\ request' = request
        /\ reply' = reply /\ sending' = sending /\ executed' = executed
        /\ origin' = origin /\ answer' = answer /\ delivered' = delivered
        /\ lastconfig' = lastconfig
    BY DEF ServeStop, Restart, server, history
  <1>2. \/ phase = "open" /\ phase' = "clear"
        \/ phase = "done" /\ phase' = "drain"
        \/ phase = "restart" /\ phase' = "reboot"
    BY DEF ServeStop, Restart, Goto
  <1>3. Core!Halt
    BY DEF ServeStop, Restart, Stop
  <1>4. /\ Sound' /\ count' = count /\ ~scheduled' /\ Device!Abort
        /\ ~scheduled => tx_events' = tx_events
    BY <1>1, <1>3, Rely, HaltKeeps
  <1>5. TypeOK'
    BY <1>1, <1>2, <1>4 DEF SessionInv, TypeOK, Sound, Phases
  <1>6. Places'
    BY <1>1, <1>2, <1>4 DEF SessionInv, Places
  <1>7. Unused' /\ Caching' /\ Latest'
    BY <1>1, <1>4, Quiet
  <1>8. Replying' /\ Answered'
    BY <1>1, <1>2, <1>4 DEF SessionInv, Replying, Answered, Cached, Serving
  <1>9. active' = FALSE /\ scheduled' = FALSE
    BY <1>3 DEF Core!Halt
  <1> QED BY <1>4, <1>5, <1>6, <1>7, <1>8, <1>9 DEF SessionInv, Sound

LEMMA DiscardStep ==
    ASSUME SessionInv, Discard
    PROVE  /\ SessionInv' /\ scheduled' = scheduled /\ count' = count
           /\ active' = active /\ tx_request' = tx_request /\ bus' = bus
  <1>1. /\ conn' = conn /\ hello' = hello /\ reboot' = reboot
        /\ high_request' = high_request /\ cache' = cache /\ request' = request
        /\ reply' = reply /\ sending' = sending /\ executed' = executed
        /\ origin' = origin /\ answer' = answer /\ delivered' = delivered
        /\ lastconfig' = lastconfig
    BY DEF Discard, server, history
  <1>2. \/ phase = "clear" /\ phase' = "poll"
        \/ phase = "flush" /\ phase' = "reply"
        \/ phase = "drain" /\ phase' = "accept"
    BY DEF Discard, Goto
  <1>3. /\ Sound' /\ scheduled' = scheduled /\ count' = count /\ tx_events' = <<>>
        /\ active' = active /\ tx_request' = tx_request /\ bus' = bus
    BY <1>1, Rely, DiscardKeeps DEF Discard
  <1>4. TypeOK'
    BY <1>1, <1>2, <1>3 DEF SessionInv, TypeOK, Sound, Phases
  <1>5. Places'
    BY <1>1, <1>2, <1>3 DEF SessionInv, Places
  <1>6. Unused' /\ Caching' /\ Latest'
    BY <1>1, <1>3, Quiet
  <1>7. Replying' /\ Answered'
    BY <1>1, <1>2, <1>3 DEF SessionInv, Replying, Answered, Cached, Serving
  <1> QED BY <1>3, <1>4, <1>5, <1>6, <1>7 DEF SessionInv, Sound

(* Steps that only change where the server is, or what it will answer. *)
LEMMA IdleStep ==
    ASSUME SessionInv,
           \/ Drop \/ SendFails \/ Polled \/ EventsSent
           \/ \E p \in Packet, boot \in BOOLEAN : Reject(p, boot) \/ Duplicate(p, boot)
    PROVE  /\ SessionInv' /\ UNCHANGED corevars /\ UNCHANGED <<conn, history>>
           /\ phase \in {"poll", "reply", "events"}
           /\ phase' \in {"done", "reply", "events", "poll"}
  <1>1. /\ UNCHANGED corevars /\ conn' = conn /\ hello' = hello /\ reboot' = reboot
        /\ high_request' = high_request /\ cache' = cache
        /\ sending' = sending /\ executed' = executed
        /\ origin' = origin /\ answer' = answer /\ delivered' = delivered
        /\ lastconfig' = lastconfig
    BY DEF Drop, SendFails, Polled, EventsSent, Reject, Duplicate, server, history
  <1>2. /\ Sound' /\ scheduled' = scheduled /\ count' = count
        /\ tx_events' = tx_events
    BY <1>1, Rely, StartKeeps
  <1>3. Unused' /\ Caching' /\ Latest'
    BY <1>1, <1>2, Quiet
  <1>4. /\ request' \in Packet \cup {NoPacket} /\ reply' \in Reply
        /\ \/ phase \in {"poll", "reply", "events"} /\ phase' = "done"
           \/ phase = "poll" /\ phase' = "events"
           \/ phase = "events" /\ phase' = "poll"
           \/ /\ phase = "poll" /\ phase' = "reply"
              /\ reply' = Refused \/ (reply' = cache'.reply /\ request' = cache'.packet)
              /\ Cached(request)' => reply' = cache'.reply
    <2>1. CASE Drop \/ SendFails \/ Polled \/ EventsSent
      <3>1. request' = request /\ reply' = reply
        BY <2>1 DEF Drop, SendFails, Polled, EventsSent, server
      <3>2. request \in Packet \cup {NoPacket} /\ reply \in Reply
        BY DEF SessionInv, TypeOK
      <3>3. \/ phase \in {"poll", "reply", "events"} /\ phase' = "done"
            \/ phase = "poll" /\ phase' = "events"
            \/ phase = "events" /\ phase' = "poll"
        <4>1. CASE Drop
          BY <4>1 DEF Drop, Goto
        <4>2. CASE SendFails
          BY <4>2 DEF SendFails, Goto
        <4>3. CASE Polled
          BY <4>3 DEF Polled, Goto
        <4>4. CASE EventsSent
          BY <4>4 DEF EventsSent, Goto
        <4> QED BY <2>1, <4>1, <4>2, <4>3, <4>4
      <3> QED BY <3>1, <3>2, <3>3
    <2>2. CASE \E p \in Packet, boot \in BOOLEAN : Reject(p, boot)
      BY <2>2 DEF Reject, Goto, SessionInv, TypeOK
    <2>3. CASE \E p \in Packet, boot \in BOOLEAN : Duplicate(p, boot)
      <3>1. PICK p \in Packet, boot \in BOOLEAN : Duplicate(p, boot)
        BY <2>3
      <3>2. Refused \in Reply /\ cache.reply \in Reply
        BY DEF SessionInv, TypeOK, Refused, Reply
      <3> QED BY <1>1, <3>1, <3>2 DEF Duplicate, Goto, Cached
    <2> QED BY <2>1, <2>2, <2>3
  <1>5. TypeOK'
    BY <1>1, <1>2, <1>4 DEF SessionInv, TypeOK, Sound, Phases
  <1>6. Places'
    BY <1>1, <1>2, <1>4 DEF SessionInv, Places
  <1>7. Replying'
    BY <1>4 DEF Replying
  <1>8. Answered'
    BY <1>1, <1>2, <1>4 DEF SessionInv, Answered, Serving
  <1> QED BY <1>1, <1>2, <1>3, <1>4, <1>5, <1>6, <1>7, <1>8
          DEF SessionInv, Sound, history

LEMMA EventStep ==
    ASSUME SessionInv, TakeEvent \/ SendEvent \/ SendEventFails
    PROVE  /\ SessionInv' /\ scheduled' = scheduled /\ count' = count
           /\ active' = active /\ tx_request' = tx_request /\ bus' = bus
  <1>1. /\ conn' = conn /\ hello' = hello /\ reboot' = reboot
        /\ high_request' = high_request /\ cache' = cache /\ request' = request
        /\ reply' = reply /\ executed' = executed /\ origin' = origin
        /\ answer' = answer /\ lastconfig' = lastconfig
    BY DEF TakeEvent, SendEvent, SendEventFails, history
  <1>2. \/ /\ phase = "events" /\ phase' = "send" /\ Core!Take
           /\ sending' = <<Head(tx_events)>> /\ delivered' = delivered
        \/ /\ phase = "send" /\ phase' \in {"events", "done"} /\ sending' = <<>>
           /\ \/ UNCHANGED corevars /\ delivered' = Append(delivered, Head(sending))
              \/ Core!Lose /\ delivered' = delivered
    BY DEF TakeEvent, SendEvent, SendEventFails, Goto, history, capture_discard_tx
  <1>3. /\ phase = "events" => sending = <<>>
        /\ phase = "send" => Len(sending) = 1
    BY DEF SessionInv, Places
  <1>4. /\ Sound' /\ scheduled' = scheduled /\ count' = count
        /\ active' = active /\ tx_request' = tx_request /\ bus' = bus
        /\ IF phase' = "send" THEN Len(sending') = 1 ELSE sending' = <<>>
    BY <1>1, <1>2, <1>3, Rely, TakeKeeps, SendKeeps
  <1>5. TypeOK'
    <2>1. Len(sending') <= 1
      <3>1. CASE sending' = <<>>
        <4>1. Len(sending') = 0
          BY <3>1, Empty
        <4> QED BY <4>1
      <3>2. CASE Len(sending') = 1
        BY <3>2
      <3> QED BY <1>4, <3>1, <3>2
    <2> QED BY <1>1, <1>2, <1>4, <2>1 DEF SessionInv, TypeOK, Sound, Phases
  <1>6. Places'
    BY <1>1, <1>2, <1>4 DEF SessionInv, Places
  <1>7. Unused' /\ Caching' /\ Latest'
    BY <1>1, <1>4, Quiet
  <1>8. Replying' /\ Answered'
    BY <1>1, <1>2, <1>4 DEF SessionInv, Replying, Answered, Cached, Serving
  <1> QED BY <1>4, <1>5, <1>6, <1>7, <1>8 DEF SessionInv, Sound

(* A connection begins: its ids are all new, and nothing waits for it. *)
LEMMA AcceptStep ==
    ASSUME SessionInv, Accept
    PROVE  SessionInv'
  <1>1. /\ phase = "accept" /\ phase' = "open" /\ conn' = conn + 1
        /\ conn < MaxConnections
        /\ hello' = FALSE /\ reboot' = FALSE /\ high_request' = 0
        /\ cache' = NoCache /\ request' = NoPacket /\ reply' = Refused
        /\ UNCHANGED corevars /\ sending' = sending /\ executed' = executed
        /\ origin' = origin /\ answer' = answer /\ delivered' = delivered
        /\ lastconfig' = lastconfig
    BY DEF Accept, Goto, history
  <1>2. /\ running' = running /\ configured' = configured /\ active' = active
        /\ scheduled' = scheduled /\ tx_request' = tx_request
        /\ completed' = completed /\ count' = count /\ bus' = bus
        /\ tx_events' = tx_events /\ tx_event_drops' = tx_event_drops
        /\ emitted' = emitted /\ taken' = taken
    BY <1>1 DEF corevars
  <1>3. sending = <<>> /\ tx_events = <<>> /\ ~scheduled
    BY <1>1 DEF SessionInv, Places
  <1>4. /\ conn' \in 0..MaxConnections /\ conn' \in Nat \ {0} /\ conn' > 0
        /\ Newest' = Request(conn', 0) /\ Newest <= Request(conn', 0)
        /\ Newest \in Int /\ Newest' \in Int
    <2>1. conn + 1 \in Nat /\ 0 \in 0..MaxId
      BY Ranges
    <2>2. Request(conn + 1, 0) \in Int
      BY <2>1, Numbers
    <2>3. conn \in 0..MaxConnections /\ MaxConnections \in Nat
      BY SessionAssumption DEF SessionInv, TypeOK
    <2> QED BY <1>1, <2>1, <2>2, <2>3, Ranges DEF Newest
  <1>5. TypeOK'
    <2>1. Core!TypeOK'
      BY <1>2 DEF SessionInv, TypeOK, Core!TypeOK
    <2>2. NoCache \in [packet : Packet \cup {NoPacket}, reply : Reply]
          /\ Refused \in Reply
      BY DEF NoCache, Refused, Reply
    <2>3. 0 \in 0..MaxId
      BY Ranges
    <2> QED BY <1>1, <1>4, <2>1, <2>2, <2>3 DEF SessionInv, TypeOK, Phases
  <1>6. Places'
    BY <1>1, <1>2, <1>3, <1>4 DEF SessionInv, Places
  <1>7. Unused'
    <2> SUFFICES ASSUME NEW r \in Requests, r > Newest'
                 PROVE  executed'[r] = 0 /\ answer'[r] = "none" /\ count'[r] = 0
      BY DEF Unused
    <2>1. r > Newest
      BY <1>4, Ranges
    <2> QED BY <1>1, <1>2, <2>1 DEF SessionInv, Unused
  <1>8. Caching' /\ Latest' /\ Replying'
    <2>1. Caching' /\ Replying'
      BY <1>1 DEF Caching, Replying, NoCache, Refused
    <2>2. ASSUME origin.of /= 0
          PROVE  origin.of <= Newest' /\ Owner(origin.of) /= conn'
      <3>1. origin.of \in Requests /\ origin.of \in Nat \ {0}
        BY <2>2, Ranges DEF SessionInv, TypeOK
      <3>2. origin.of <= Newest
        BY <2>2 DEF SessionInv, Latest
      <3>3. origin.of <= Request(conn', 0)
        BY <1>4, <3>1, <3>2
      <3>4. Owner(origin.of) = conn' => origin.of > Request(conn', 0)
        BY <1>4, <3>1, Owners
      <3>5. Request(conn', 0) \in Int
        BY <1>4
      <3> QED BY <1>4, <3>1, <3>3, <3>4, <3>5
    <2> QED BY <1>1, <2>1, <2>2 DEF Latest
  <1>9. Answered'
    <2>1. ASSUME NEW r \in Requests, Owner(r) = conn' PROVE count[r] = 0
      <3>1. r \in Nat \ {0} /\ r > Request(conn', 0)
        BY <1>4, <2>1, Ranges, Owners
      <3>2. r > Newest
        BY <1>4, <3>1
      <3> QED BY <3>2 DEF SessionInv, Unused
    <2> QED BY <1>2, <2>1 DEF Answered
  <1>10. Scheduled' /\ EventsAccounted'
    BY <1>1, <1>2, <1>3 DEF SessionInv, Scheduled, EventsAccounted
  <1>11. Events'
    <2>1. Told' = Told /\ Held' = {} /\ Queued' = {} /\ InTurn(tx_events')
      BY <1>1, <1>2, <1>3, Empty DEF Told, Held, Queued
    <2> QED BY <1>2, <2>1 DEF SessionInv, Events, Follows
  <1> QED BY <1>5, <1>6, <1>7, <1>8, <1>9, <1>10, <1>11 DEF SessionInv

(* The answer that goes out is the first of its request, or the same one   *)
(* again.                                                                  *)
LEMMA ReplyStep ==
    ASSUME SessionInv, SendReply
    PROVE  /\ SessionInv'
           /\ \/ answer' = answer
              \/ /\ reply.of = Newest /\ reply.of \in Requests
                 /\ executed[reply.of] = 1 /\ answer[reply.of] = "none"
                 /\ Answer = "accepted" <=> count[reply.of] > 0
                 /\ answer' = [answer EXCEPT ![reply.of] = Answer]
  <1>1. /\ phase = "reply" /\ phase' \in {"restart", "poll"}
        /\ conn' = conn /\ hello' = hello /\ reboot' = reboot
        /\ high_request' = high_request /\ cache' = cache /\ request' = NoPacket
        /\ reply' = Refused /\ sending' = sending /\ executed' = executed
        /\ origin' = origin /\ delivered' = delivered
        /\ lastconfig' = lastconfig /\ UNCHANGED corevars
        /\ answer' = IF reply.of /= 0 /\ answer[reply.of] = "none"
                     THEN [answer EXCEPT ![reply.of] = Answer] ELSE answer
    BY DEF SendReply, Goto
  <1>2. /\ Sound' /\ scheduled' = scheduled /\ count' = count
        /\ tx_events' = tx_events
    BY <1>1, Rely, StartKeeps
  <1>3. ASSUME reply.of /= 0
        PROVE  /\ reply = cache.reply /\ request = cache.packet
               /\ reply.of = Newest /\ reply.of \in Requests
               /\ executed[reply.of] = 1 /\ answer[reply.of] \in {"none", Answer}
               /\ Answer = "accepted" <=> count[reply.of] > 0
               /\ Answer = AnswerTo(cache.packet, cache.reply.ok)
    <2>1. reply = cache.reply /\ request = cache.packet
      BY <1>1, <1>3 DEF SessionInv, Replying, Refused
    <2>2. Answer = AnswerTo(cache.packet, cache.reply.ok)
      BY <2>1 DEF Answer, AnswerTo
    <2>3. reply.of \in Requests
      BY <1>3 DEF SessionInv, TypeOK, Reply
    <2> QED BY <1>3, <2>1, <2>2, <2>3 DEF SessionInv, Caching
  <1>4. /\ answer \in [Requests -> {"none", "error", "applied", "accepted"}]
        /\ Answer \in {"error", "applied", "accepted"}
    BY DEF SessionInv, TypeOK, Answer
  <1>5. /\ answer' \in [Requests -> {"none", "error", "applied", "accepted"}]
        /\ \A r \in Requests :
             answer'[r] = IF r = reply.of /\ answer[r] = "none" THEN Answer ELSE answer[r]
    <2>1. 0 \notin Requests
      BY Ranges
    <2> QED BY <1>1, <1>3, <1>4, <2>1
  <1>6. TypeOK'
    BY <1>1, <1>2, <1>5 DEF SessionInv, TypeOK, Sound, Phases, Reply, Refused
  <1>7. Places'
    BY <1>1, <1>2 DEF SessionInv, Places
  <1>8. Newest' = Newest
    BY <1>1 DEF Newest
  <1>9. Unused'
    <2>1. \A r \in Requests : r > Newest => r /= reply.of
      BY <1>3, Ranges
    <2> QED BY <1>1, <1>2, <1>5, <1>8, <2>1 DEF SessionInv, Unused
  <1>10. Caching'
    <2>1. CASE cache.reply.of = 0
      BY <1>1, <2>1 DEF Caching
    <2>2. CASE cache.reply.of /= 0
      <3>1. cache.reply.of \in Requests
        BY <2>2 DEF SessionInv, TypeOK, Reply
      <3>2. answer'[cache.reply.of] \in {"none", AnswerTo(cache.packet, cache.reply.ok)}
        BY <1>3, <1>5, <2>2, <3>1 DEF SessionInv, Caching
      <3> QED BY <1>1, <1>2, <1>8, <2>2, <3>2 DEF SessionInv, Caching
    <2> QED BY <2>1, <2>2
  <1>11. Latest' /\ Replying' /\ Answered'
    <2>3. Latest'
      BY <1>1, <1>8 DEF SessionInv, Latest
    <2>1. Replying'
      BY <1>1 DEF Replying
    <2>2. ASSUME NEW r \in Requests, Owner(r) = conn, count[r] > 0
          PROVE  answer'[r] = "accepted"
      <3>1. answer[r] = "accepted" \/ r = reply.of
        BY <1>1, <2>2 DEF SessionInv, Answered
      <3>2. CASE r = reply.of
        <4>1. answer[r] \in {"none", Answer} /\ Answer = "accepted"
          BY <1>3, <2>2, <3>2, Ranges
        <4> QED BY <1>5, <3>2, <4>1
      <3> QED BY <1>5, <3>1, <3>2
    <2> QED BY <1>1, <1>2, <2>1, <2>2, <2>3 DEF Answered
  <1>12. \/ answer' = answer
         \/ reply.of /= 0 /\ answer[reply.of] = "none"
            /\ answer' = [answer EXCEPT ![reply.of] = Answer]
    BY <1>1
  <1> QED BY <1>2, <1>3, <1>6, <1>7, <1>9, <1>10, <1>11, <1>12 DEF SessionInv, Sound

(* A command does to the core one of three things: nothing that a client   *)
(* notices, a stop, or the opening of a schedule, and this is what its     *)
(* answer says.                                                            *)
LEMMA CommandKeeps ==
    ASSUME Sound, NEW p \in Packet, NEW ok \in BOOLEAN, command(p, ok),
           conn \in 1..MaxConnections, count[Request(conn, p.id)] = 0,
           conn' = conn, sending' = sending, delivered' = delivered
    PROVE  LET r == Request(conn, p.id)
               accepts == p.kind = "TX" /\ ok
           IN  /\ Sound'
               /\ accepts => \E n \in 1..MaxCount :
                    Device!Accept(r, n) /\ count' = [count EXCEPT ![r] = n]
               /\ ~accepts => /\ Device!Effectless \/ Device!Reconfigure
                              /\ count' = count
  <1> DEFINE r == Request(conn, p.id)
             accepts == p.kind = "TX" /\ ok
             Plain == /\ Sound' /\ count' = count
                      /\ Device!Effectless \/ Device!Reconfigure
             Opens == Sound' /\ \E n \in 1..MaxCount :
                        Device!Accept(r, n) /\ count' = [count EXCEPT ![r] = n]
  <1>1. p.kind \in Kinds /\ p.id \in Ids
    BY DEF Packet
  <1>2. r \in Requests /\ Owner(r) = conn
    BY <1>1, Own
  <1>3. ASSUME UNCHANGED corevars PROVE Plain
    BY <1>3, StartKeeps
  <1>4. ASSUME Core!Halt PROVE Plain
    BY <1>4, HaltKeeps DEF Device!Reconfigure
  <1>5. ASSUME Core!Configure PROVE Plain
    BY <1>5, ConfigureKeeps DEF Device!Reconfigure
  <1>6. ASSUME Core!Start PROVE Plain
    BY <1>6, StartKeeps
  <1>7. ASSUME NEW n \in 1..MaxCount, Core!Accept(r, n) PROVE Opens
    BY <1>2, <1>7, AcceptKeeps
  <1>8. Count(p.payload) \in 1..MaxCount
    BY SessionAssumption DEF Count
  <1> HIDE DEF r, Plain, Opens
  <1>9. CASE p.kind \in {"HELLO", "PING"}
    <2>1. UNCHANGED corevars /\ ~accepts
      BY <1>9 DEF command
    <2> QED BY <1>3, <2>1 DEF Plain
  <1>10. CASE p.kind = "CONFIGURE"
    <2>1. (UNCHANGED corevars \/ Core!Configure) /\ ~accepts
      BY <1>10 DEF command, Configure
    <2> QED BY <1>3, <1>5, <2>1 DEF Plain
  <1>11. CASE p.kind = "START"
    <2>1. (UNCHANGED corevars \/ Core!Start) /\ ~accepts
      BY <1>11 DEF command, StartCapture
    <2> QED BY <1>3, <1>6, <2>1 DEF Plain
  <1>12. CASE p.kind = "STOP"
    <2>1. (UNCHANGED corevars \/ Core!Halt) /\ ~accepts
      BY <1>12 DEF command, StopCapture, Stop
    <2> QED BY <1>3, <1>4, <2>1 DEF Plain
  <1>13. CASE p.kind = "TX"
    <2>1. \/ ok /\ Core!Accept(r, Count(p.payload))
          \/ ~ok /\ UNCHANGED corevars
      BY <1>13 DEF command, Transmit, r
    <2>2. CASE ok /\ Core!Accept(r, Count(p.payload))
      <3>1. PICK n \in 1..MaxCount : Core!Accept(r, n)
        BY <1>8, <2>2
      <3>2. Opens
        BY <1>7, <3>1
      <3> QED BY <1>13, <2>2, <3>2 DEF Opens, r
    <2>3. CASE ~ok /\ UNCHANGED corevars
      BY <1>3, <2>3 DEF Plain
    <2> QED BY <2>1, <2>2, <2>3
  <1>14. CASE p.kind = "WIFI"
    <2>1. (UNCHANGED corevars \/ Core!Halt) /\ ~accepts
      BY <1>14 DEF command, Provision, Stop
    <2> QED BY <1>3, <1>4, <2>1 DEF Plain
  <1> QED BY <1>1, <1>9, <1>10, <1>11, <1>12, <1>13, <1>14 DEF Kinds

(* A new packet is executed, and becomes the newest request. *)
LEMMA ExecuteStep ==
    ASSUME SessionInv, NEW p \in Packet, NEW boot \in BOOLEAN, NEW ok \in BOOLEAN,
           Execute(p, boot, ok)
    PROVE  LET r == Request(conn, p.id)
           IN  /\ SessionInv' /\ r \in Requests /\ Owner(r) = conn /\ r > Newest
               /\ executed' = [executed EXCEPT ![r] = 1]
               /\ conn' = conn /\ answer' = answer /\ delivered' = delivered
               /\ phase = "poll" /\ phase' \in {"flush", "reply"}
               /\ \/ Device!Effectless \/ Device!Reconfigure
                  \/ \E n \in 1..MaxCount : Device!Accept(r, n)
  <1> DEFINE r == Request(conn, p.id)
             accepts == p.kind = "TX" /\ ok
  <1>1. /\ phase = "poll" /\ p.id > high_request
        /\ phase' = IF p.kind = "CONFIGURE" /\ p.payload /= "junk" THEN "flush"
                    ELSE "reply"
        /\ command(p, ok)
        /\ high_request' = p.id /\ hello' = TRUE /\ reboot' = (p.kind = "WIFI" /\ ok)
        /\ request' = p /\ reply' = [of |-> r, ok |-> ok]
        /\ cache' = [packet |-> p, reply |-> reply']
        /\ executed' = [executed EXCEPT ![r] = @ + 1]
        /\ origin' = [of |-> r, packet |-> p]
        /\ lastconfig' \in {lastconfig, "valid", "invalid"}
        /\ conn' = conn /\ sending' = sending /\ answer' = answer
        /\ delivered' = delivered
    BY DEF Execute, Goto, Fresh
  <1>2. conn \in 1..MaxConnections /\ p.id \in Ids /\ sending = <<>> /\ conn > 0
    <2>1. conn \in 1..MaxConnections
      BY <1>1, Ranges
    <2>2. sending = <<>>
      BY <1>1 DEF SessionInv, Places
    <2> QED BY <2>1, <2>2 DEF Packet
  <1>3. r \in Requests /\ Owner(r) = conn
    BY <1>2, Own
  <1>4. r = Request(conn, 0) + p.id /\ p.id \in Nat /\ p.id > 0 /\ p.id \in 0..MaxId
    <2>1. p.id \in 0..MaxId /\ p.id \in Nat /\ p.id > 0
      BY <1>2, Ranges DEF Ids
    <2>2. Request(conn, p.id) = Request(conn, 0) + p.id
      BY <2>1, Ranges, Numbers
    <2> QED BY <2>1, <2>2
  <1>5. Newest' = r
    BY <1>1 DEF Newest
  <1> HIDE DEF r
  <1>6. r > Newest
    BY <1>1, <1>4, Ranges
  <1>7. executed[r] = 0 /\ answer[r] = "none" /\ count[r] = 0
    BY <1>3, <1>6 DEF SessionInv, Unused
  <1>8. /\ Sound'
        /\ accepts => \E n \in 1..MaxCount :
                        Device!Accept(r, n) /\ count' = [count EXCEPT ![r] = n]
        /\ ~accepts => /\ Device!Effectless \/ Device!Reconfigure
                       /\ count' = count
    BY <1>1, <1>2, <1>7, Rely, CommandKeeps DEF r
  <1>9. /\ \A q \in Requests : q /= r => count'[q] = count[q]
        /\ accepts <=> count'[r] > 0
    <2>1. CASE accepts
      <3>1. PICK n \in 1..MaxCount : count' = [count EXCEPT ![r] = n]
        BY <1>8, <2>1
      <3>2. count \in [Requests -> 0..MaxCount] /\ n > 0
        BY SessionAssumption DEF SessionInv, TypeOK, Core!TypeOK
      <3> QED BY <1>3, <2>1, <3>1, <3>2
    <2>2. CASE ~accepts
      BY <1>7, <1>8, <2>2
    <2> QED BY <2>1, <2>2
  <1>10. /\ executed' = [executed EXCEPT ![r] = 1] /\ executed'[r] = 1
         /\ executed' \in [Requests -> Nat]
         /\ \A q \in Requests : q /= r => executed'[q] = executed[q]
    <2>1. executed \in [Requests -> Nat]
      BY DEF SessionInv, TypeOK
    <2>2. executed[r] + 1 = 1
      BY <1>3, <1>7, <2>1
    <2>3. executed' = [executed EXCEPT ![r] = executed[r] + 1]
      BY <1>1
    <2>4. executed' = [executed EXCEPT ![r] = 1]
      BY <2>2, <2>3
    <2> QED BY <1>3, <2>1, <2>4
  <1>11. TypeOK'
    <2>1. /\ reply' \in Reply /\ request' \in Packet
          /\ cache' \in [packet : Packet \cup {NoPacket}, reply : Reply]
          /\ origin' \in [of : Requests \cup {0}, packet : Packet \cup {NoPacket}]
      BY <1>1, <1>3 DEF Reply
    <2>2. reboot' \in BOOLEAN /\ phase' \in Phases
      BY <1>1 DEF Phases
    <2>3. /\ Core!TypeOK' /\ conn' \in 0..MaxConnections
          /\ sending' \in Seq(Core!Event) /\ delivered' \in Seq(Core!Event)
      BY <1>8 DEF Sound
    <2>4. /\ Len(sending') <= 1 /\ lastconfig' \in {"none", "valid", "invalid"}
          /\ answer' \in [Requests -> {"none", "error", "applied", "accepted"}]
      BY <1>1 DEF SessionInv, TypeOK
    <2> QED BY <1>1, <1>4, <1>10, <2>1, <2>2, <2>3, <2>4 DEF TypeOK
  <1>12. Places'
    BY <1>1, <1>2 DEF SessionInv, Places
  <1>13. Unused'
    <2> SUFFICES ASSUME NEW q \in Requests, q > r
                 PROVE  executed'[q] = 0 /\ answer'[q] = "none" /\ count'[q] = 0
      BY <1>5 DEF Unused
    <2>1. q > Newest /\ q /= r
      BY <1>3, <1>6, Ranges
    <2> QED BY <1>1, <1>9, <1>10, <2>1 DEF SessionInv, Unused
  <1>14. Caching'
    <2> DEFINE a == AnswerTo(p, ok)
    <2>1. a = "accepted" <=> count'[r] > 0
      BY <1>9 DEF AnswerTo
    <2>2. /\ cache'.reply.of = r /\ cache'.reply.ok = ok /\ cache'.packet = p
          /\ high_request' > 0
      BY <1>1, <1>4
    <2>3. answer'[r] = "none"
      BY <1>1, <1>7
    <2> QED BY <1>1, <1>5, <1>10, <2>1, <2>2, <2>3 DEF Caching
  <1>15. Latest' /\ Replying'
    <2>1. r \in Int /\ origin'.of = r /\ cache'.reply.of = r
      BY <1>1, <1>3, Ranges
    <2>2. Latest'
      BY <1>5, <2>1 DEF Latest
    <2>3. Replying'
      BY <1>1 DEF Replying
    <2> QED BY <2>2, <2>3
  <1>16. Answered'
    <2>1. ASSUME NEW q \in Requests, Owner(q) = conn, count'[q] > 0, q /= r
          PROVE  answer[q] = "accepted"
      <3>1. count[q] > 0
        BY <1>9, <2>1
      <3> QED BY <1>1, <2>1, <3>1 DEF SessionInv, Answered, Serving
    <2>2. phase' = "flush" => ~accepts
      BY <1>1
    <2>3. phase' = "flush" \/ (phase' = "reply" /\ phase' \notin Serving)
      BY <1>1 DEF Serving
    <2>4. reply'.of = r
      BY <1>1
    <2>5. ASSUME NEW q \in Requests, Owner(q) = conn, count'[q] > 0
          PROVE  /\ phase' \in Serving => answer'[q] = "accepted"
                 /\ phase' = "reply" => answer'[q] = "accepted" \/ q = reply'.of
      BY <1>1, <1>9, <2>1, <2>2, <2>3, <2>4, <2>5
    <2> QED BY <1>1, <2>5 DEF Answered
  <1>17. SessionInv'
    BY <1>8, <1>11, <1>12, <1>13, <1>14, <1>15, <1>16 DEF SessionInv, Sound
  <1>18. \/ Device!Effectless \/ Device!Reconfigure
         \/ \E n \in 1..MaxCount : Device!Accept(r, n)
    BY <1>8
  <1> QED BY <1>1, <1>3, <1>6, <1>10, <1>17, <1>18 DEF r

-----------------------------------------------------------------------------
LEMMA Initially == Init => SessionInv
  <1> SUFFICES ASSUME Init PROVE SessionInv
    OBVIOUS
  <1> USE SessionAssumption
  <1>1. TypeOK
    <2>1. Core!TypeOK
      <3>1. /\ tx_events \in Seq(Core!Event) /\ Len(tx_events) = 0
            /\ emitted \in Seq(Core!Event)
        <4>1. tx_events = <<>> /\ emitted = <<>>
          BY DEF Init, Core!Init
        <4>2. <<>> \in Seq(Core!Event) /\ Len(<<>>) = 0
          BY Empty
        <4> QED BY <4>1, <4>2
      <3>2. /\ running = FALSE /\ configured = TRUE /\ active = FALSE
            /\ scheduled = FALSE /\ tx_request = 0 /\ completed = 0
            /\ tx_event_drops = 0 /\ taken = 0
        BY DEF Init, Core!Init
      <3>3. count \in [Requests -> 0..MaxCount] /\ bus \in [Requests -> 0..MaxCount]
        BY DEF Init, Core!Init
      <3>4. 0 \in 0..MaxCount /\ 0 <= EventDepth
        OBVIOUS
      <3> QED BY <3>1, <3>2, <3>3, <3>4 DEF Core!TypeOK
    <2>2. /\ sending \in Seq(Core!Event) /\ Len(sending) = 0
          /\ delivered \in Seq(Core!Event)
      BY Empty DEF Init
    <2>3. Refused \in Reply /\ NoCache \in [packet : Packet \cup {NoPacket}, reply : Reply]
      BY DEF Refused, NoCache, Reply
    <2>4. /\ phase \in Phases /\ conn \in 0..MaxConnections
          /\ hello \in BOOLEAN /\ reboot \in BOOLEAN /\ high_request \in 0..MaxId
          /\ lastconfig \in {"none", "valid", "invalid"}
      <3>1. 0 \in 0..MaxConnections /\ 0 \in 0..MaxId
        OBVIOUS
      <3>2. /\ phase = "accept" /\ conn = 0 /\ hello = FALSE /\ reboot = FALSE
            /\ high_request = 0 /\ lastconfig = "none"
        BY DEF Init
      <3> QED BY <3>1, <3>2 DEF Phases
    <2>5. /\ executed \in [Requests -> Nat]
          /\ answer \in [Requests -> {"none", "error", "applied", "accepted"}]
          /\ origin \in [of : Requests \cup {0}, packet : Packet \cup {NoPacket}]
      BY DEF Init
    <2> QED BY <2>1, <2>2, <2>3, <2>4, <2>5 DEF TypeOK, Init
  <1>2. Places
    BY DEF Init, Core!Init, Places
  <1>3. Unused
    BY DEF Init, Core!Init, Unused
  <1>4. Caching /\ Latest /\ Replying
    BY DEF Init, Caching, Latest, Replying, NoCache, Refused
  <1>5. Answered /\ Scheduled
    BY DEF Init, Core!Init, Answered, Scheduled
  <1>6. Told = {} /\ Held = {} /\ Queued = {} /\ InTurn(tx_events)
    BY Empty DEF Init, Core!Init, Told, Held, Queued
  <1>7. Events
    BY <1>6 DEF Events, Follows
  <1>8. EventsAccounted
    <2>1. /\ Len(emitted) = 0 /\ Len(delivered) = 0 /\ Len(sending) = 0
          /\ Len(tx_events) = 0 /\ tx_event_drops = 0
      BY Empty DEF Init, Core!Init
    <2> QED BY <2>1 DEF EventsAccounted
  <1> QED BY <1>1, <1>2, <1>3, <1>4, <1>5, <1>7, <1>8 DEF SessionInv

LEMMA Step == SessionInv /\ [Next]_vars => SessionInv'
  <1> SUFFICES ASSUME SessionInv, [Next]_vars PROVE SessionInv'
    OBVIOUS
  <1>1. CASE Accept
    BY <1>1, AcceptStep
  <1>2. CASE ServeStop \/ Restart
    BY <1>2, HaltStep, Zenon
  <1>3. CASE Discard
    BY <1>3, DiscardStep
  <1>4. CASE \/ Drop \/ SendFails \/ Polled \/ EventsSent
             \/ \E p \in Packet, boot \in BOOLEAN : Reject(p, boot) \/ Duplicate(p, boot)
    BY <1>4, IdleStep
  <1>5. CASE \E p \in Packet, boot \in BOOLEAN, ok \in BOOLEAN : Execute(p, boot, ok)
    BY <1>5, ExecuteStep
  <1>6. CASE SendReply
    BY <1>6, ReplyStep
  <1>7. CASE TakeEvent \/ SendEvent \/ SendEventFails
    BY <1>7, EventStep
  <1>8. CASE Others
    BY <1>8, OthersStep
  <1>9. CASE UNCHANGED vars
    <2>1. /\ phase' = phase /\ conn' = conn /\ hello' = hello /\ reboot' = reboot
          /\ high_request' = high_request /\ cache' = cache /\ request' = request
          /\ reply' = reply /\ sending' = sending /\ executed' = executed
          /\ origin' = origin /\ answer' = answer /\ delivered' = delivered
          /\ lastconfig' = lastconfig /\ UNCHANGED corevars
      BY <1>9 DEF vars, server, history
    <2>2. /\ Sound' /\ scheduled' = scheduled /\ count' = count
          /\ tx_events' = tx_events
      BY <2>1, Rely, StartKeeps
    <2>3. TypeOK'
      BY <2>1, <2>2 DEF SessionInv, TypeOK, Sound
    <2>4. Places' /\ Replying' /\ Answered'
      BY <2>1, <2>2 DEF SessionInv, Places, Replying, Answered, Cached
    <2>5. Unused' /\ Caching' /\ Latest'
      BY <2>1, <2>2, Quiet
    <2> QED BY <2>2, <2>3, <2>4, <2>5 DEF SessionInv, Sound
  <1> QED BY <1>1, <1>2, <1>3, <1>4, <1>5, <1>6, <1>7, <1>8, <1>9 DEF Next, Receive

LEMMA Inductive == Spec => []SessionInv
  BY Initially, Step, PTL DEF Spec
-----------------------------------------------------------------------------
(* The variables of the server and of the core keep to their types. *)
THEOREM TypeCorrect == Spec => []TypeOK
  <1>1. SessionInv => TypeOK
    BY DEF SessionInv
  <1> QED BY <1>1, Inductive, PTL

(* For every number of connections and requests, a repetition of the       *)
(* newest packet is answered as that was, and what only looks like one, or *)
(* repeats an older packet, is refused: the cached reply of serve().       *)
THEOREM OneAnswer == Spec => []SameAnswer
  <1>1. SessionInv => SameAnswer
    <2> SUFFICES ASSUME SessionInv, phase = "reply" PROVE SameAnswer
      BY DEF SameAnswer
    <2>1. ASSUME reply.of /= 0
          PROVE  /\ origin = [of |-> reply.of, packet |-> request]
                 /\ Owner(reply.of) = conn
                 /\ answer[reply.of] \in {"none", Answer}
      <3>1. reply = cache.reply /\ request = cache.packet
        BY <2>1 DEF SessionInv, Replying, Refused
      <3>2. Answer = AnswerTo(cache.packet, cache.reply.ok)
        BY <3>1 DEF Answer, AnswerTo
      <3>3. /\ reply.of = Newest /\ high_request > 0
            /\ origin = [of |-> reply.of, packet |-> request]
            /\ answer[reply.of] \in {"none", Answer}
        BY <2>1, <3>1, <3>2 DEF SessionInv, Caching
      <3>4. Owner(Newest) = conn
        <4>1. conn \in 1..MaxConnections /\ high_request \in Ids
          BY <3>3, Ranges DEF Ids
        <4> QED BY <4>1, Own DEF Newest
      <3> QED BY <3>3, <3>4
    <2>2. ASSUME Repeated PROVE reply.of = origin.of
      <3>1. cache.reply.of = origin.of /\ origin.of /= 0
        BY <2>2 DEF SessionInv, Latest, Repeated
      <3>2. request = cache.packet
        BY <2>2, <3>1 DEF SessionInv, Caching, Repeated
      <3>3. Cached(request)
        BY <2>2, <3>2 DEF Cached, Repeated
      <3>4. reply = cache.reply
        BY <3>3 DEF SessionInv, Replying
      <3> QED BY <3>1, <3>4
    <2> QED BY <2>1, <2>2 DEF SameAnswer
  <1> QED BY <1>1, Inductive, PTL

(* No transmit event disappears between capture_take_event() and the       *)
(* client without being counted, also when the send of it fails.           *)
THEOREM NoEventVanishes == Spec => []EventsAccounted
  <1>1. SessionInv => EventsAccounted
    BY DEF SessionInv
  <1> QED BY <1>1, Inductive, PTL

-----------------------------------------------------------------------------
(* Every step of the server is one that DeviceContract allows, or one that *)
(* a client cannot see.                                                    *)
Seen == Device!Next \/ UNCHANGED Device!vars

LEMMA Unseen ==
    ASSUME conn' = conn, executed' = executed, answer' = answer, active' = active,
           scheduled' = scheduled, tx_request' = tx_request, count' = count,
           bus' = bus, delivered' = delivered,
           (phase \in {"accept", "drain", "reboot"})
             <=> (phase' \in {"accept", "drain", "reboot"})
    PROVE  Seen
  BY DEF Seen, Device!vars

LEMMA AcceptSeen == ASSUME SessionInv, Accept PROVE Seen
  <1>1. Device!Connect
    BY DEF Accept, Goto, corevars, history, Device!Connect
  <1> QED BY <1>1 DEF Seen, Device!Next

LEMMA HaltSeen == ASSUME SessionInv, ServeStop \/ Restart PROVE Seen
  <1>1. /\ conn' = conn /\ executed' = executed /\ answer' = answer
        /\ delivered' = delivered
    BY DEF ServeStop, Restart, server, history
  <1>2. Device!Abort /\ active' = FALSE /\ count' = count
    BY HaltStep, Zenon
  <1>3. CASE phase = "open" /\ phase' = "clear"
    <2>1. Device!Revoke
      BY <1>1, <1>2, <1>3 DEF Device!Revoke
    <2> QED BY <2>1 DEF Seen, Device!Next
  <1>4. CASE phase \in {"done", "restart"} /\ phase' \in {"drain", "reboot"}
    <2>1. Device!Disconnect
      BY <1>1, <1>2, <1>4 DEF Device!Disconnect
    <2> QED BY <2>1 DEF Seen, Device!Next
  <1> QED BY <1>3, <1>4 DEF ServeStop, Restart, Goto

LEMMA DiscardSeen == ASSUME SessionInv, Discard PROVE Seen
  <1>1. /\ conn' = conn /\ executed' = executed /\ answer' = answer
        /\ delivered' = delivered
    BY DEF Discard, server, history
  <1>2. \/ phase = "clear" /\ phase' = "poll"
        \/ phase = "flush" /\ phase' = "reply"
        \/ phase = "drain" /\ phase' = "accept"
    BY DEF Discard, Goto
  <1> QED BY <1>1, <1>2, DiscardStep, Unseen

LEMMA IdleSeen ==
    ASSUME SessionInv,
           \/ Drop \/ SendFails \/ Polled \/ EventsSent
           \/ \E p \in Packet, boot \in BOOLEAN : Reject(p, boot) \/ Duplicate(p, boot)
    PROVE  Seen
  BY IdleStep, Unseen DEF corevars, history

LEMMA ExecuteSeen ==
    ASSUME SessionInv, NEW p \in Packet, NEW boot \in BOOLEAN, NEW ok \in BOOLEAN,
           Execute(p, boot, ok)
    PROVE  Seen
  <1>1. PICK r \in Requests :
          /\ Owner(r) = conn /\ r > Newest
          /\ executed' = [executed EXCEPT ![r] = 1]
          /\ conn' = conn /\ answer' = answer /\ delivered' = delivered
          /\ phase = "poll" /\ phase' \in {"flush", "reply"}
          /\ \/ Device!Effectless \/ Device!Reconfigure
             \/ \E n \in 1..MaxCount : Device!Accept(r, n)
    BY ExecuteStep
  <1>2. \A q \in Requests : q >= r => executed[q] = 0
    <2> SUFFICES ASSUME NEW q \in Requests, q >= r PROVE executed[q] = 0
      OBVIOUS
    <2>1. q > Newest
      BY <1>1, Ranges
    <2> QED BY <2>1 DEF SessionInv, Unused
  <1>3. Device!Owner(r) = conn /\ r \in Device!Requests
    BY <1>1 DEF Owner, Device!Owner, Requests, Device!Requests
  <1>4. Device!Execute(r)
    <2>1. \A q \in Device!Requests :
             Device!Owner(q) = conn /\ q >= r => executed[q] = 0
      BY <1>2 DEF Requests, Device!Requests
    <2> QED BY <1>1, <1>3, <2>1 DEF Device!Execute
  <1> QED BY <1>3, <1>4 DEF Seen, Device!Next

LEMMA ReplySeen == ASSUME SessionInv, SendReply PROVE Seen
  <1>1. /\ phase = "reply" /\ phase' \in {"restart", "poll"}
        /\ conn' = conn /\ executed' = executed /\ delivered' = delivered
        /\ active' = active /\ scheduled' = scheduled /\ tx_request' = tx_request
        /\ count' = count /\ bus' = bus
    BY DEF SendReply, Goto, corevars
  <1>2. CASE answer' = answer
    BY <1>1, <1>2, Unseen
  <1>3. CASE /\ reply.of = Newest /\ reply.of \in Requests
             /\ executed[reply.of] = 1 /\ answer[reply.of] = "none"
             /\ Answer = "accepted" <=> count[reply.of] > 0
             /\ answer' = [answer EXCEPT ![reply.of] = Answer]
    <2>1. PICK r \in Requests, a \in {"error", "applied", "accepted"} :
            /\ r = reply.of /\ a = Answer
      BY <1>3 DEF Answer
    <2>2. Owner(r) = conn
      <3>1. r > Request(conn, 0) /\ r <= Request(conn + 1, 0) /\ r \in Nat \ {0}
        <4>1. r = Request(conn, 0) + high_request /\ r <= Request(conn + 1, 0)
          BY <1>3, <2>1, Ranges
        <4>2. high_request > 0
          BY <1>1, <1>3, Ranges DEF SessionInv, Replying, Refused, Caching
        <4> QED BY <4>1, <4>2, Ranges
      <3>2. conn \in Nat \ {0}
        BY <1>1, Ranges
      <3> QED BY <3>1, <3>2, Owners
    <2>3. Device!Owner(r) = conn /\ r \in Device!Requests /\ a \in Device!Answers
      BY <2>1, <2>2 DEF Owner, Device!Owner, Requests, Device!Requests, Device!Answers
    <2>4. Device!Reply(r, a)
      BY <1>1, <1>3, <2>1, <2>3 DEF Device!Reply
    <2> QED BY <2>3, <2>4 DEF Seen, Device!Next
  <1> QED BY <1>2, <1>3, ReplyStep

LEMMA EventSeen ==
    ASSUME SessionInv, TakeEvent \/ SendEvent \/ SendEventFails
    PROVE  Seen
  <1>1. /\ conn' = conn /\ executed' = executed /\ answer' = answer
    BY DEF TakeEvent, SendEvent, SendEventFails, history
  <1>2. /\ scheduled' = scheduled /\ count' = count
        /\ active' = active /\ tx_request' = tx_request /\ bus' = bus
    BY EventStep
  <1>3. CASE TakeEvent \/ SendEventFails
    <2>1. /\ delivered' = delivered /\ phase \in {"events", "send"}
          /\ phase' \in {"send", "done"}
      BY <1>3 DEF TakeEvent, SendEventFails, Goto, history
    <2> QED BY <1>1, <1>2, <2>1, Unseen
  <1>4. CASE SendEvent
    <2>1. /\ phase = "send" /\ phase' = "events"
          /\ delivered' = Append(delivered, Head(sending))
      BY <1>4 DEF SendEvent, Goto
    <2>2. Len(sending) = 1 /\ sending \in Seq(Core!Event)
      BY <2>1 DEF SessionInv, Places, TypeOK
    <2>3. PICK e \in Core!Event : e = Head(sending) /\ Held = {e}
      BY <2>2, Singletons DEF Held
    <2>4. /\ Owner(e.request) = conn /\ e.request \in Requests
          /\ answer[e.request] = "accepted" /\ Device!Honest(e)
          /\ e.terminal => ~(scheduled /\ tx_request = e.request)
      <3>1. e.request \in Requests
        BY DEF Core!Event
      <3>2. Owner(e.request) = conn /\ count[e.request] > 0 /\ Device!Honest(e)
        BY <2>3 DEF SessionInv, Events
      <3>3. answer[e.request] = "accepted"
        BY <2>1, <3>1, <3>2 DEF SessionInv, Answered, Serving
      <3>4. e.terminal => ~(scheduled /\ tx_request = e.request)
        BY <2>3 DEF SessionInv, Scheduled
      <3> QED BY <3>1, <3>2, <3>3, <3>4
    <2>5. Device!InTurn(e)
      <3>1. \A i \in DOMAIN delivered : Turn(delivered[i], e)
        BY <2>3 DEF SessionInv, Events, Follows, Told, Elements
      <3> QED BY <3>1 DEF Device!InTurn, Turn
    <2>6. Device!Owner(e.request) = conn
      BY <2>4 DEF Owner, Device!Owner
    <2>7. e.terminal => (IF scheduled THEN tx_request ELSE 0) /= e.request
      BY <2>4, Ranges
    <2>8. delivered' = Append(delivered, e)
      BY <2>1, <2>3
    <2>9. Device!Tell(e)
      BY <1>1, <1>2, <2>1, <2>4, <2>5, <2>6, <2>7, <2>8 DEF Device!Tell
    <2>10. e \in Device!Event
      BY DEF Core!Event, Device!Event, Requests, Device!Requests, Core!Errors, Device!Errors
    <2> QED BY <2>9, <2>10 DEF Seen, Device!Next
  <1> QED BY <1>3, <1>4

LEMMA OthersSeen == ASSUME SessionInv, Others PROVE Seen
  <1>1. /\ phase' = phase /\ conn' = conn /\ executed' = executed /\ answer' = answer
        /\ delivered' = delivered
    BY DEF Others, server, history
  <1>2. ASSUME scheduled
        PROVE  /\ tx_request \in Requests /\ tx_request /= 0 /\ active
               /\ bus[tx_request] <= count[tx_request] /\ completed \in Nat
               /\ count[tx_request] \in Nat /\ bus[tx_request] \in Nat
    BY <1>2, Rely, Known, Ranges DEF SessionInv, Scheduled
  <1>3. CASE Core!Transmit
    <2>1. scheduled /\ bus[tx_request] = completed /\ completed < count[tx_request]
      BY <1>3 DEF Core!Transmit
    <2>2. /\ active' = active /\ scheduled' = scheduled /\ tx_request' = tx_request
          /\ count' = count /\ bus' = [bus EXCEPT ![tx_request] = bus[tx_request] + 1]
      BY <1>3, <2>1 DEF Core!Transmit
    <2>3. bus[tx_request] < count[tx_request]
      BY <2>1
    <2>4. Device!Transmit
      BY <1>1, <1>2, <2>1, <2>2, <2>3 DEF Device!Transmit
    <2> QED BY <2>4 DEF Seen, Device!Next
  <1>4. CASE Core!Report \/ Core!Fail
    <2>1. scheduled
      BY <1>4 DEF Core!Report, Core!Fail
    <2>2. /\ active' = active /\ tx_request' = tx_request /\ count' = count
          /\ bus' = bus /\ scheduled' \in BOOLEAN
      BY <1>4 DEF Core!Report, Core!Fail
    <2>3. CASE scheduled'
      BY <1>1, <2>1, <2>2, <2>3 DEF Seen, Device!vars
    <2>4. CASE ~scheduled'
      <3>1. Device!Finish
        BY <1>1, <1>2, <2>1, <2>2, <2>4 DEF Device!Finish
      <3> QED BY <3>1 DEF Seen, Device!Next
    <2> QED BY <2>3, <2>4
  <1>5. CASE Core!Halt
    <2>1. Device!Abort /\ active' = FALSE /\ count' = count
      BY <1>1, <1>5, Rely, HaltKeeps DEF Others, server
    <2>2. Device!Revoke
      BY <1>1, <2>1 DEF Device!Revoke
    <2> QED BY <2>2 DEF Seen, Device!Next
  <1> QED BY <1>3, <1>4, <1>5 DEF Others

LEMMA StepSeen == SessionInv /\ [Next]_vars => [Device!Next]_(Device!vars)
  <1> SUFFICES ASSUME SessionInv, [Next]_vars PROVE Seen
    BY DEF Seen
  <1>1. CASE Accept
    BY <1>1, AcceptSeen
  <1>2. CASE ServeStop \/ Restart
    BY <1>2, HaltSeen
  <1>3. CASE Discard
    BY <1>3, DiscardSeen
  <1>4. CASE \/ Drop \/ SendFails \/ Polled \/ EventsSent
             \/ \E p \in Packet, boot \in BOOLEAN : Reject(p, boot) \/ Duplicate(p, boot)
    BY <1>4, IdleSeen
  <1>5. CASE \E p \in Packet, boot \in BOOLEAN, ok \in BOOLEAN : Execute(p, boot, ok)
    BY <1>5, ExecuteSeen
  <1>6. CASE SendReply
    BY <1>6, ReplySeen
  <1>7. CASE TakeEvent \/ SendEvent \/ SendEventFails
    BY <1>7, EventSeen
  <1>8. CASE Others
    BY <1>8, OthersSeen
  <1>9. CASE UNCHANGED vars
    BY <1>9, Unseen DEF vars, server, history, corevars
  <1> QED BY <1>1, <1>2, <1>3, <1>4, <1>5, <1>6, <1>7, <1>8, <1>9 DEF Next, Receive

(* serve() is what DeviceContract promises: each step of it, of the core   *)
(* and of the other threads is a step of the contract or is not seen.  All *)
(* that SendProofs shows of the contract holds of the firmware.            *)
THEOREM FirmwareImplementsDevice == Spec => ImplementsDevice
  <1>1. Init => Device!Init
    BY DEF Init, Core!Init, Device!Init, Requests, Device!Requests
  <1> QED BY <1>1, StepSeen, Inductive, PTL DEF Spec, Device!Spec, ImplementsDevice
=============================================================================
