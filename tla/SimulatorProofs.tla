--------------------------- MODULE SimulatorProofs ---------------------------
(* The simulator, for any number of connections, requests and frames: every*)
(* answer is that of its packet, and what a client sees of it is what      *)
(* DeviceContract allows.                                                  *)
EXTENDS Simulator, SequenceTheorems, TLAPS

Requests == Device!Requests
Owner(r) == Device!Owner(r)
Newest == Device!Request(conn, last_id)
Told == {told[i] : i \in DOMAIN told}

Histories ==
    /\ executed \in [Requests -> {0, 1}] /\ answer \in [Requests -> Device!Answers]
    /\ count \in [Requests -> 0..MaxCount] /\ bus \in [Requests -> 0..MaxCount]

(* The thread serves the owner, and nobody keeps a permission without one. *)
Busy == {"reply", "frames", "tick", "event"}
Places ==
    /\ phase = "listen" => owner = 0
    /\ phase \in Busy \cup {"recv"} => owner = conn /\ conn > 0
    /\ phase = "reply" => last_id > 0
    /\ owner = 0 => ~active /\ pending = NoPending

(* Nothing is known of a request that is still to come. *)
Unused ==
    \A r \in Requests : r > Newest =>
      executed[r] = 0 /\ answer[r] = "none" /\ count[r] = 0

(* The packet and the answer that are kept are those of the newest request.*)
Caching ==
    LET a == Answer(last_packet, last_reply.ok)
    IN  last_id > 0 =>
          /\ conn > 0 /\ last_packet \in Packet /\ last_packet.id = last_id
          /\ last_reply.of = Newest /\ executed[Newest] = 1
          /\ answer[Newest] \in {"none", a}
          /\ a = "accepted" <=> count[Newest] > 0
Replying ==
    phase = "reply" =>
      /\ reply = Stale \/ (reply = last_reply /\ request = last_packet)
      /\ request = last_packet => reply = last_reply

(* An accepted request of this connection was answered, or is being.       *)
Answered ==
    \A r \in Requests : Owner(r) = conn /\ count[r] > 0 =>
      /\ phase \in {"recv", "frames", "tick", "event"} => answer[r] = "accepted"
      /\ phase = "reply" => answer[r] = "accepted" \/ r = reply.of

(* The open schedule is of this connection; its frames are counted as they *)
(* are reported, and none of its events is final.                          *)
Scheduled ==
    /\ \A r \in Requests : bus[r] <= count[r]
    /\ \A d \in Told : count[d.request] > 0
    /\ pending /= NoPending =>
         /\ active /\ pending.request \in Requests /\ Owner(pending.request) = conn
         /\ pending.remaining > 0
         /\ pending.remaining + pending.completed = MaxCount
         /\ count[pending.request] = MaxCount
         /\ bus[pending.request] = pending.completed
         /\ \A d \in Told : d.request = pending.request =>
              ~d.terminal /\ d.completed <= pending.completed

(* The event in the thread's hands is true, and later than those told.     *)
Reporting ==
    phase = "event" =>
      /\ event \in Device!Event /\ Owner(event.request) = conn
      /\ count[event.request] = MaxCount /\ bus[event.request] = event.completed
      /\ event.error = "OK" /\ (event.terminal <=> event.completed = MaxCount)
      /\ event.terminal => pending.request /= event.request
      /\ \A d \in Told : d.request = event.request =>
           ~d.terminal /\ d.completed < event.completed

SimulatorInv ==
    /\ TypeOK /\ Histories /\ Places /\ Unused /\ Caching /\ Replying /\ Answered
    /\ Scheduled /\ Reporting
-----------------------------------------------------------------------------
(* Requests are numbered connection by connection, ... *)
LEMMA Numbers ==
    ASSUME NEW c \in Nat, NEW id \in 0..MaxId
    PROVE  /\ Device!Request(c, 0) \in Int /\ Device!Request(c, id) = Device!Request(c, 0) + id
           /\ Device!Request(c + 1, 0) = Device!Request(c, 0) + MaxId
  <1>1. MaxId \in Nat
    BY SimulatorAssumption
  <1>2. c * MaxId \in Int /\ (c - 1) * MaxId \in Int /\ (c - 1) * MaxId + MaxId = c * MaxId
    BY <1>1
  <1>3. (c + 1) - 1 = c
    OBVIOUS
  <1> QED BY <1>1, <1>2, <1>3 DEF Device!Request

(* ... and Owner finds the connection of each. *)
LEMMA Owners ==
    ASSUME NEW r \in Nat \ {0}, NEW c \in Nat \ {0}
    PROVE  /\ Device!Owner(r) \in Nat
           /\ Device!Owner(r) = c <=> Device!Request(c, 0) < r /\ r <= Device!Request(c + 1, 0)
  <1> DEFINE k == c - 1
             q == (r - 1) \div MaxId
             m == (r - 1) % MaxId
  <1>1. MaxId \in Nat \ {0} /\ k \in Nat /\ r - 1 \in Nat
    BY SimulatorAssumption
  <1>2. q \in Nat /\ m \in 0..(MaxId - 1) /\ r - 1 = MaxId * q + m
    BY <1>1
  <1>3. /\ Device!Request(c, 0) = k * MaxId /\ Device!Request(c + 1, 0) = k * MaxId + MaxId
        /\ Device!Request(c, 0) \in Int
    BY <1>1, SimulatorAssumption, Numbers DEF Device!Request
  <1>4. Device!Owner(r) = q + 1
    BY DEF Device!Owner
  <1>5. k * MaxId \in Nat /\ q * MaxId \in Nat /\ MaxId * q = q * MaxId
    BY <1>1, <1>2
  <1> HIDE DEF k, q, m
  <1>6. CASE q = k
    BY <1>1, <1>2, <1>3, <1>4, <1>5, <1>6 DEF k
  <1>7. CASE q < k
    <2>1. q + 1 <= k /\ q + 1 \in Nat
      BY <1>1, <1>2, <1>7
    <2>2. (q + 1) * MaxId <= k * MaxId
      BY <1>1, <2>1
    <2>3. (q + 1) * MaxId = q * MaxId + MaxId
      BY <1>1, <1>2
    <2>4. r - 1 < k * MaxId
      BY <1>1, <1>2, <1>5, <2>2, <2>3
    <2> QED BY <1>1, <1>2, <1>3, <1>4, <1>5, <1>7, <2>4 DEF k
  <1>8. CASE q > k
    <2>1. k + 1 <= q
      BY <1>1, <1>2, <1>8
    <2>2. (k + 1) * MaxId <= q * MaxId
      BY <1>1, <1>2, <2>1
    <2>3. (k + 1) * MaxId = k * MaxId + MaxId
      BY <1>1
    <2>4. r - 1 >= k * MaxId + MaxId
      BY <1>1, <1>2, <1>5, <2>2, <2>3
    <2> QED BY <1>1, <1>2, <1>3, <1>4, <1>5, <1>8, <2>4 DEF k
  <1> QED BY <1>1, <1>2, <1>4, <1>6, <1>7, <1>8

(* The request of an id of a connection is one, and owned by it. *)
LEMMA Own ==
    ASSUME NEW c \in 1..MaxConnections, NEW id \in 1..MaxId
    PROVE  Device!Request(c, id) \in Requests /\ Device!Owner(Device!Request(c, id)) = c
  <1>1. /\ MaxConnections \in Nat /\ MaxId \in Nat \ {0} /\ c \in Nat \ {0}
        /\ id \in 0..MaxId /\ id >= 1 /\ id <= MaxId /\ c - 1 \in Nat
        /\ c <= MaxConnections
    BY SimulatorAssumption
  <1>2. (c - 1) * MaxId \in Nat /\ (c - 1) * MaxId + MaxId = c * MaxId
    BY <1>1
  <1>3. c * MaxId <= MaxConnections * MaxId /\ MaxConnections * MaxId \in Nat
    BY <1>1
  <1>4. Device!Request(c, id) \in Requests /\ Device!Request(c, id) \in Nat \ {0}
    BY <1>1, <1>2, <1>3 DEF Device!Request, Device!Requests, Requests
  <1>5. Device!Request(c, id) > Device!Request(c, 0) /\ Device!Request(c, id) <= Device!Request(c + 1, 0)
    BY <1>1, Numbers
  <1> QED BY <1>1, <1>4, <1>5, Owners

(* What the invariant says of the numbers. *)
LEMMA Ranges ==
    ASSUME SimulatorInv
    PROVE  /\ conn \in 0..MaxConnections /\ conn \in Nat /\ last_id \in 0..MaxId
           /\ Newest \in Int /\ Newest = Device!Request(conn, 0) + last_id
           /\ Newest <= Device!Request(conn + 1, 0)
           /\ Device!Request(conn + 1, 0) \in Int /\ Device!Request(conn, 0) \in Int
           /\ \A r \in Requests :
                /\ r \in Nat \ {0} /\ Owner(r) \in Nat
                /\ executed[r] \in {0, 1} /\ answer[r] \in Device!Answers
                /\ count[r] \in Nat /\ count[r] <= MaxCount
                /\ bus[r] \in Nat /\ bus[r] <= count[r]
           /\ MaxCount \in Nat /\ MaxId \in Nat \ {0}
  <1>1. /\ conn \in 0..MaxConnections /\ conn \in Nat /\ last_id \in 0..MaxId
        /\ MaxCount \in Nat /\ MaxId \in Nat \ {0}
    BY SimulatorAssumption DEF SimulatorInv, TypeOK
  <1>2. /\ Device!Request(conn, 0) \in Int /\ Newest = Device!Request(conn, 0) + last_id
        /\ Device!Request(conn + 1, 0) = Device!Request(conn, 0) + MaxId
    BY <1>1, Numbers DEF Newest
  <1>3. ASSUME NEW r \in Requests
        PROVE  /\ r \in Nat \ {0} /\ Owner(r) \in Nat
               /\ executed[r] \in {0, 1} /\ answer[r] \in Device!Answers
               /\ count[r] \in Nat /\ count[r] <= MaxCount
               /\ bus[r] \in Nat /\ bus[r] <= count[r]
    <2>1. r \in Nat \ {0}
      BY <1>3 DEF Requests, Device!Requests
    <2>2. Owner(r) \in Nat
      BY <2>1, SimulatorAssumption, Owners DEF Owner
    <2>3. count[r] \in 0..MaxCount /\ bus[r] \in 0..MaxCount /\ bus[r] <= count[r]
      BY DEF SimulatorInv, Histories, Scheduled
    <2>4. executed[r] \in {0, 1} /\ answer[r] \in Device!Answers
      BY DEF SimulatorInv, Histories
    <2> QED BY <1>1, <2>1, <2>2, <2>3, <2>4
  <1> QED BY <1>1, <1>2, <1>3

(* A request that was told of is one, and is not to come. *)
LEMMA Tellers ==
    ASSUME SimulatorInv, NEW d \in Told
    PROVE  /\ d \in Device!Event /\ d.request \in Requests /\ d.completed \in Nat
           /\ d.terminal \in BOOLEAN /\ count[d.request] > 0 /\ ~(d.request > Newest)
  <1>1. d \in Device!Event
    BY LenProperties DEF SimulatorInv, TypeOK, Told
  <1>2. /\ d.request \in Requests /\ d.completed \in Nat /\ d.terminal \in BOOLEAN
    BY <1>1, SimulatorAssumption DEF Device!Event, Requests
  <1>3. count[d.request] > 0
    BY DEF SimulatorInv, Scheduled
  <1>4. ~(d.request > Newest)
    <2>1. ~(0 > 0)
      OBVIOUS
    <2> QED BY <1>2, <1>3, <2>1 DEF SimulatorInv, Unused
  <1> QED BY <1>1, <1>2, <1>3, <1>4

LEMMA Initially == Init => SimulatorInv
  <1> SUFFICES ASSUME Init PROVE SimulatorInv
    OBVIOUS
  <1> USE SimulatorAssumption
  <1>1. TypeOK
    <2>1. told \in Seq(Device!Event)
      BY EmptySeq DEF Init
    <2>2. NoPending \in [request : Device!Requests \cup {0},
                         remaining : 0..MaxCount, completed : 0..MaxCount]
      BY DEF NoPending
    <2>3. Stale \in [of : Device!Requests \cup {0}, ok : BOOLEAN]
      BY DEF Stale
    <2>4. /\ 0 \in 0..MaxConnections /\ 0 \in 0..MaxId /\ 0 \in 0..MaxSequence
      OBVIOUS
    <2> QED BY <2>1, <2>2, <2>3, <2>4 DEF Init, TypeOK
  <1>2. Histories
    BY DEF Init, Histories, Requests, Device!Answers
  <1>3. Places /\ Caching /\ Replying /\ Reporting
    BY DEF Init, Places, Caching, Replying, Reporting, Busy
  <1>4. Unused
    BY DEF Init, Unused, Requests
  <1>5. Told = {}
    BY DEF Init, Told
  <1>6. Answered /\ Scheduled
    BY <1>5 DEF Init, Answered, Scheduled, Requests
  <1> QED BY <1>1, <1>2, <1>3, <1>4, <1>6 DEF SimulatorInv
-----------------------------------------------------------------------------
(* A connection begins: its requests are all still to come. *)
LEMMA ConnectStep == ASSUME SimulatorInv, connect PROVE SimulatorInv'
  <1>1. /\ phase = "listen" /\ phase' = "recv" /\ conn < MaxConnections
        /\ conn' = conn + 1 /\ owner' = conn' /\ last_id' = 0
        /\ last_packet' = None /\ hello' = FALSE
        /\ active' = active /\ running' = running /\ pending' = pending
        /\ last_reply' = last_reply /\ sequence' = sequence
        /\ reply' = reply /\ event' = event
        /\ executed' = executed /\ answer' = answer /\ count' = count
        /\ bus' = bus /\ told' = told
    BY DEF connect, Goto, hands, history
  <1>2. owner = 0 /\ ~active /\ pending = NoPending
    BY <1>1 DEF SimulatorInv, Places
  <1>3. conn' \in 0..MaxConnections /\ conn' > 0 /\ conn' \in Nat \ {0} /\ 0 \in 0..MaxId
    BY <1>1, Ranges, SimulatorAssumption
  <1>4. TypeOK'
    BY <1>1, <1>3 DEF SimulatorInv, TypeOK
  <1>5. Histories' /\ Places' /\ Caching' /\ Replying' /\ Reporting'
    BY <1>1, <1>2, <1>3 DEF SimulatorInv, Histories, Places, Caching, Replying,
       Reporting, Busy
  <1>6. Newest' = Device!Request(conn + 1, 0)
    BY <1>1 DEF Newest, Device!Request
  <1>7. \A r \in Requests : r > Newest' => r > Newest
    BY <1>6, Ranges
  <1>8. Unused'
    <2> SUFFICES ASSUME NEW r \in Requests, r > Newest'
                 PROVE  executed[r] = 0 /\ answer[r] = "none" /\ count[r] = 0
      BY <1>1 DEF Unused
    <2> QED BY <1>7 DEF SimulatorInv, Unused
  <1>9. Answered'
    <2> SUFFICES ASSUME NEW r \in Requests, Owner(r) = conn' PROVE ~(count[r] > 0)
      BY <1>1 DEF Answered, Owner, Device!Owner
    <2>1. r > Newest
      <3>1. Device!Request(conn + 1, 0) < r
        BY <1>1, <1>3, Ranges, Owners DEF Owner
      <3> QED BY <3>1, Ranges
    <2> QED BY <2>1 DEF SimulatorInv, Unused
  <1>10. Scheduled'
    BY <1>1, <1>2 DEF SimulatorInv, Scheduled, Told
  <1> QED BY <1>4, <1>5, <1>8, <1>9, <1>10 DEF SimulatorInv

(* It ends, or its lease does: permission and schedule are gone. *)
LEMMA EndStep == ASSUME SimulatorInv, End \/ Expire PROVE SimulatorInv'
  <1>1. /\ phase' \in {"listen", "end"} /\ conn' = conn /\ hello' = hello
        /\ owner' = 0 /\ active' = FALSE /\ running' = FALSE /\ pending' = NoPending
        /\ last_id' = last_id /\ last_packet' = last_packet
        /\ last_reply' = last_reply /\ sequence' = sequence
        /\ reply' \in {reply, Stale} /\ event' \in {event, <<>>}
        /\ executed' = executed /\ answer' = answer /\ count' = count
        /\ bus' = bus /\ told' = told
    BY DEF End, Expire, disconnect, Goto, hands, history
  <1>2. TypeOK'
    <2>1. NoPending \in [request : Device!Requests \cup {0},
                         remaining : 0..MaxCount, completed : 0..MaxCount]
      BY SimulatorAssumption DEF NoPending
    <2>2. reply' \in [of : Device!Requests \cup {0}, ok : BOOLEAN]
      <3>1. Stale \in [of : Device!Requests \cup {0}, ok : BOOLEAN]
        BY DEF Stale
      <3> QED BY <1>1, <3>1 DEF SimulatorInv, TypeOK
    <2>3. event' \in Device!Event \cup {<<>>}
      BY <1>1 DEF SimulatorInv, TypeOK
    <2>4. phase' \in {"listen", "recv", "reply", "frames", "tick", "event", "end"}
      BY <1>1
    <2> QED BY <1>1, <2>1, <2>2, <2>3, <2>4 DEF SimulatorInv, TypeOK
  <1>3. Histories' /\ Places' /\ Replying' /\ Answered' /\ Reporting'
    BY <1>1 DEF SimulatorInv, Histories, Places, Replying, Answered, Reporting, Busy
  <1>4. Newest' = Newest
    BY <1>1 DEF Newest, Device!Request
  <1>5. Unused' /\ Caching'
    BY <1>1, <1>4 DEF SimulatorInv, Unused, Caching, Answer
  <1>6. Scheduled'
    BY <1>1 DEF SimulatorInv, Scheduled, Told
  <1> QED BY <1>2, <1>3, <1>5, <1>6 DEF SimulatorInv

(* Steps that only move the thread on. *)
LEMMA MoveStep ==
    ASSUME SimulatorInv,
           /\ conn' = conn /\ owner' = owner /\ active' = active /\ pending' = pending
           /\ running' = running /\ hello' = hello
           /\ last_id' = last_id /\ last_packet' = last_packet
           /\ last_reply' = last_reply /\ sequence' \in 0..MaxSequence
           /\ reply' = reply /\ event' = event /\ request' = request
           /\ executed' = executed /\ answer' = answer /\ count' = count
           /\ bus' = bus /\ told' = told,
           \/ phase' = phase \/ phase' = "end"
           \/ phase \in {"recv", "frames", "tick"} /\ phase' \in {"recv", "frames", "tick"}
    PROVE  SimulatorInv'
  <1>1. TypeOK'
    BY DEF SimulatorInv, TypeOK
  <1>2. Histories' /\ Places' /\ Replying' /\ Answered' /\ Reporting'
    BY DEF SimulatorInv, Histories, Places, Replying, Answered, Reporting, Busy, Told
  <1>3. Newest' = Newest
    BY DEF Newest, Device!Request
  <1>4. Unused' /\ Caching'
    BY <1>3 DEF SimulatorInv, Unused, Caching, Answer
  <1>5. Scheduled'
    BY DEF SimulatorInv, Scheduled, Told
  <1> QED BY <1>1, <1>2, <1>4, <1>5 DEF SimulatorInv

(* A packet that is not fresh: nothing is executed. *)
LEMMA RepeatStep ==
    ASSUME SimulatorInv, NEW p \in Packet, command(p), Repeat(p)
    PROVE  SimulatorInv'
  <1>1. /\ phase = "recv" /\ phase' = "reply" /\ conn' = conn /\ owner' = owner
        /\ active' = active /\ running' = running /\ pending' = pending /\ hello' = TRUE
        /\ last_id' = last_id /\ last_packet' = last_packet
        /\ last_reply' = last_reply /\ sequence' = sequence
        /\ request' = p /\ event' = event
        /\ executed' = executed /\ answer' = answer /\ count' = count
        /\ bus' = bus /\ told' = told
    BY DEF command, Repeat, Goto
  <1>2. reply' = (IF p = last_packet THEN last_reply ELSE Stale)
    BY DEF Repeat, Same
  <1>3. last_id > 0
    <2>1. p.id \in 1..MaxId /\ ~(p.id > last_id)
      BY DEF Repeat, Fresh, Packet
    <2> QED BY <2>1, Ranges
  <1>4. TypeOK'
    <2>1. Stale \in [of : Device!Requests \cup {0}, ok : BOOLEAN]
      BY DEF Stale
    <2>2. reply' \in [of : Device!Requests \cup {0}, ok : BOOLEAN]
      BY <1>2, <2>1 DEF SimulatorInv, TypeOK
    <2> QED BY <1>1, <2>2 DEF SimulatorInv, TypeOK
  <1>5. Histories' /\ Places' /\ Answered' /\ Reporting'
    BY <1>1, <1>3 DEF SimulatorInv, Histories, Places, Answered, Reporting, Busy
  <1>6. Replying'
    BY <1>1, <1>2 DEF Replying
  <1>7. Newest' = Newest
    BY <1>1 DEF Newest, Device!Request
  <1>8. Unused' /\ Caching'
    BY <1>1, <1>7 DEF SimulatorInv, Unused, Caching, Answer
  <1>9. Scheduled'
    BY <1>1 DEF SimulatorInv, Scheduled, Told
  <1> QED BY <1>4, <1>5, <1>6, <1>8, <1>9 DEF SimulatorInv

(* What a fresh packet does to permission, schedule and frames, seen from  *)
(* the contract; a schedule starts for its request only.                   *)
LEMMA Effects ==
    ASSUME SimulatorInv, NEW p \in Packet, Execute(p), NEW r \in Requests,
           r = Device!Request(conn, p.id), count[r] = 0,
           bus' = bus
    PROVE  /\ active' \in BOOLEAN /\ running' \in BOOLEAN
           /\ \/ /\ Answer(p, Valid(p)) = "accepted" /\ Device!Accept(r, MaxCount)
                 /\ active /\ pending = NoPending
                 /\ pending' = [request |-> r, remaining |-> MaxCount, completed |-> 0]
                 /\ count' = [count EXCEPT ![r] = MaxCount]
              \/ /\ Answer(p, Valid(p)) /= "accepted" /\ count' = count
                 /\ Device!Effectless \/ Device!Reconfigure
                 /\ pending' = NoPending \/ (pending' = pending /\ active' = active)
  <1>1. active \in BOOLEAN /\ running \in BOOLEAN
    BY DEF SimulatorInv, TypeOK
  <1>2. CASE ~Valid(p)
    <2>1. /\ active' = active /\ running' = running /\ pending' = pending
          /\ count' = count /\ Answer(p, Valid(p)) = "error"
      BY <1>2 DEF Execute, Answer
    <2> QED BY <1>1, <2>1 DEF Device!Effectless
  <1>3. CASE Valid(p) /\ p.kind = "TX"
    <2>1. /\ active /\ pending = NoPending
      BY <1>3 DEF Valid, Starts
    <2>2. /\ pending' = [request |-> r, remaining |-> MaxCount, completed |-> 0]
          /\ active' = active /\ running' = running
      BY <1>3 DEF Execute, Effect
    <2>3. count' = [count EXCEPT ![r] = MaxCount]
      BY <1>3 DEF Execute
    <2>4. pending.request = 0 /\ pending'.request = r
      BY <2>1, <2>2 DEF NoPending
    <2>5. Device!Accept(r, MaxCount)
      BY <2>1, <2>2, <2>3, <2>4 DEF Device!Accept
    <2>6. Answer(p, Valid(p)) = "accepted"
      BY <1>3 DEF Answer
    <2> QED BY <1>1, <2>1, <2>2, <2>3, <2>5, <2>6
  <1>4. CASE Valid(p) /\ p.kind /= "TX"
    <2>1. count' = count
      BY <1>4 DEF Execute
    <2>2. Answer(p, Valid(p)) /= "accepted"
      BY <1>4 DEF Answer
    <2>3. Effect(p)
      BY <1>4 DEF Execute
    <2>4. CASE p.kind \in {"CONFIGURE", "STOP"}
      <3>1. /\ running' = FALSE /\ active' \in BOOLEAN /\ pending' = NoPending
        BY <2>3, <2>4 DEF Effect
      <3>2. Device!Reconfigure
        BY <2>1, <3>1 DEF Device!Reconfigure, Device!Abort, NoPending
      <3> QED BY <2>1, <2>2, <3>1, <3>2
    <2>5. CASE p.kind \notin {"CONFIGURE", "STOP"}
      <3>1. /\ running' \in BOOLEAN /\ active' = active /\ pending' = pending
        BY <1>1, <1>4, <2>3, <2>5 DEF Effect
      <3>2. Device!Effectless
        BY <2>1, <3>1 DEF Device!Effectless
      <3> QED BY <1>1, <2>1, <2>2, <3>1, <3>2
    <2> QED BY <2>4, <2>5
  <1> QED BY <1>2, <1>3, <1>4

(* A fresh packet is a request of this connection, newer than all.         *)
LEMMA ExecuteStep ==
    ASSUME SimulatorInv, NEW p \in Packet, command(p), Execute(p)
    PROVE  /\ SimulatorInv'
           /\ \E r \in Requests :
                /\ Owner(r) = conn /\ r > Newest /\ owner = conn /\ owner /= 0
                /\ executed' = [executed EXCEPT ![r] = 1]
                /\ \/ Device!Effectless \/ Device!Reconfigure
                   \/ Device!Accept(r, MaxCount)
  <1> DEFINE ok == Valid(p)
             w == Device!Request(conn, p.id)
  <1>1. /\ phase = "recv" /\ phase' = "reply" /\ conn' = conn /\ owner' = owner
        /\ hello' = TRUE /\ last_id' = p.id /\ last_packet' = p
        /\ sequence' = sequence /\ request' = p /\ event' = event
        /\ answer' = answer /\ bus' = bus /\ told' = told /\ p.id > last_id
        /\ last_reply' = [of |-> w, ok |-> ok] /\ reply' = last_reply'
        /\ executed' = [executed EXCEPT ![w] = executed[w] + 1]
    BY DEF command, Execute, Goto, Fresh
  <1>2. owner = conn /\ conn > 0 /\ conn \in 1..MaxConnections /\ p.id \in 1..MaxId
    <2>1. owner = conn /\ conn > 0
      BY <1>1 DEF SimulatorInv, Places
    <2>2. p.id \in 1..MaxId
      BY DEF Packet
    <2> QED BY <2>1, <2>2, Ranges
  <1>3. PICK r \in Requests : r = w /\ Owner(r) = conn
    BY <1>2, Own DEF Owner
  <1>4. Newest' = r
    BY <1>1, <1>3 DEF Newest, Device!Request
  <1>5. r > Newest /\ r \in Nat \ {0}
    <2>1. r = Device!Request(conn, 0) + p.id
      BY <1>2, <1>3, Ranges, Numbers
    <2> QED BY <1>1, <1>2, <2>1, Ranges
  <1>6. executed[r] = 0 /\ answer[r] = "none" /\ count[r] = 0
    BY <1>5 DEF SimulatorInv, Unused
  <1>7. executed' = [executed EXCEPT ![r] = 1]
    BY <1>1, <1>3, <1>6
  <1> HIDE DEF ok, w
  <1>8. /\ active' \in BOOLEAN /\ running' \in BOOLEAN
        /\ \/ /\ Answer(p, ok) = "accepted" /\ Device!Accept(r, MaxCount)
              /\ active /\ pending = NoPending
              /\ pending' = [request |-> r, remaining |-> MaxCount, completed |-> 0]
              /\ count' = [count EXCEPT ![r] = MaxCount]
           \/ /\ Answer(p, ok) /= "accepted" /\ count' = count
              /\ Device!Effectless \/ Device!Reconfigure
              /\ pending' = NoPending \/ (pending' = pending /\ active' = active)
    BY <1>1, <1>3, <1>6, Effects DEF ok, w
  <1>9. /\ count' \in [Requests -> 0..MaxCount] /\ MaxCount > 0
        /\ \A q \in Requests : q /= r => count'[q] = count[q]
        /\ Answer(p, ok) = "accepted" <=> count'[r] > 0
    <2>1. count \in [Requests -> 0..MaxCount]
      BY DEF SimulatorInv, Histories
    <2>2. MaxCount \in 0..MaxCount /\ MaxCount > 0 /\ ~(0 > 0)
      BY SimulatorAssumption
    <2>3. CASE count' = [count EXCEPT ![r] = MaxCount] /\ Answer(p, ok) = "accepted"
      BY <2>1, <2>2, <2>3
    <2>4. CASE count' = count /\ Answer(p, ok) /= "accepted"
      BY <1>6, <2>1, <2>2, <2>4
    <2> QED BY <1>8, <2>3, <2>4
  <1>10. pending' \in [request : Device!Requests \cup {0},
                       remaining : 0..MaxCount, completed : 0..MaxCount]
    <2>1. CASE pending' = [request |-> r, remaining |-> MaxCount, completed |-> 0]
      BY <2>1, SimulatorAssumption DEF Requests
    <2>2. CASE pending' = NoPending
      BY <2>2, SimulatorAssumption DEF NoPending
    <2>3. CASE pending' = pending
      BY <2>3 DEF SimulatorInv, TypeOK
    <2> QED BY <1>8, <2>1, <2>2, <2>3
  <1>11. last_reply' \in [of : Device!Requests \cup {0}, ok : BOOLEAN]
         /\ last_reply'.of = r /\ last_reply'.ok = ok
    <2>1. ok \in BOOLEAN
      BY DEF ok, Valid, Mismatch, Starts
    <2> QED BY <1>1, <1>3, <2>1 DEF Requests
  <1>12. TypeOK'
    <2>1. last_id' \in 0..MaxId /\ last_id' > 0
      BY <1>1, <1>2, Ranges
    <2> QED BY <1>1, <1>8, <1>10, <1>11, <2>1 DEF SimulatorInv, TypeOK
  <1>13. Histories'
    BY <1>1, <1>7, <1>9 DEF SimulatorInv, Histories
  <1>14. Places' /\ Replying' /\ Reporting'
    <2>1. p.id > 0 /\ conn /= 0
      BY <1>2, Ranges
    <2> QED BY <1>1, <1>2, <2>1 DEF Places, Replying, Reporting, Busy
  <1>15. Unused'
    <2> SUFFICES ASSUME NEW q \in Requests, q > r
                 PROVE  executed'[q] = 0 /\ answer'[q] = "none" /\ count'[q] = 0
      BY <1>4 DEF Unused
    <2>1. q /= r /\ q > Newest
      BY <1>5, Ranges
    <2>2. executed[q] = 0 /\ answer[q] = "none" /\ count[q] = 0
      BY <2>1 DEF SimulatorInv, Unused
    <2> QED BY <1>1, <1>7, <1>9, <2>1, <2>2 DEF SimulatorInv, Histories
  <1>16. Caching'
    <2>1. Answer(last_packet, last_reply.ok)' = Answer(p, ok)
      BY <1>1, <1>11 DEF Answer
    <2>2. executed'[r] = 1 /\ answer'[r] = "none"
      BY <1>1, <1>6, <1>7 DEF SimulatorInv, Histories
    <2> QED BY <1>1, <1>2, <1>4, <1>9, <1>11, <2>1, <2>2 DEF Caching
  <1>17. Answered'
    <2> SUFFICES ASSUME NEW q \in Requests, Owner(q) = conn, count'[q] > 0
                 PROVE  answer[q] = "accepted" \/ q = r
      BY <1>1, <1>11 DEF Answered, Owner, Device!Owner
    <2> QED BY <1>1, <1>9 DEF SimulatorInv, Answered
  <1>18. Scheduled'
    <2>1. Told' = Told /\ \A d \in Told : d.request \in Requests /\ d.request /= r
      BY <1>1, <1>5, Tellers DEF Told
    <2>2. \A q \in Requests : bus'[q] <= count'[q]
      <3>1. bus[r] <= 0
        BY <1>6, Ranges
      <3>2. bus[r] <= count'[r]
        BY <1>6, <1>8, <1>9, <3>1, Ranges
      <3> QED BY <1>1, <1>9, <3>2, Ranges
    <2>3. \A d \in Told' : count'[d.request] > 0
      BY <1>9, <2>1 DEF SimulatorInv, Scheduled
    <2>4. CASE pending' = [request |-> r, remaining |-> MaxCount, completed |-> 0]
               /\ Device!Accept(r, MaxCount) /\ active
               /\ count' = [count EXCEPT ![r] = MaxCount]
      <3>1. active' = active
        BY <2>4 DEF Device!Accept
      <3>2. bus[r] = 0
        BY <1>6, Ranges
      <3>3. count'[r] = MaxCount
        BY <2>4 DEF SimulatorInv, Histories
      <3> QED BY <1>1, <1>3, <1>9, <2>1, <2>2, <2>3, <2>4, <3>1, <3>2, <3>3, Ranges
              DEF Scheduled, Owner, Device!Owner
    <2>5. CASE pending' = NoPending
      BY <2>2, <2>3, <2>5 DEF Scheduled
    <2>6. CASE pending' = pending /\ active' = active /\ count' = count
      BY <1>1, <2>1, <2>2, <2>3, <2>6 DEF SimulatorInv, Scheduled, Owner, Device!Owner
    <2> QED BY <1>8, <2>4, <2>5, <2>6
  <1>19. SimulatorInv'
    BY <1>12, <1>13, <1>14, <1>15, <1>16, <1>17, <1>18 DEF SimulatorInv
  <1>20. owner /= 0
    BY <1>2, Ranges
  <1> QED BY <1>2, <1>3, <1>5, <1>7, <1>8, <1>19, <1>20

(* The answer goes out: of the newest request, once. *)
LEMMA ReplyStep ==
    ASSUME SimulatorInv, SendReply
    PROVE  /\ SimulatorInv'
           /\ \/ answer' = answer
              \/ \E r \in Requests, a \in Device!Answers \ {"none"} :
                   /\ Owner(r) = conn /\ executed[r] = 1 /\ answer[r] = "none"
                   /\ (a = "accepted" <=> count[r] > 0)
                   /\ answer' = [answer EXCEPT ![r] = a]
  <1>1. /\ phase = "reply" /\ phase' = "recv" /\ conn' = conn /\ owner' = owner
        /\ active' = active /\ running' = running /\ pending' = pending /\ hello' = hello
        /\ last_id' = last_id /\ last_packet' = last_packet
        /\ last_reply' = last_reply /\ sequence' = sequence
        /\ reply' = Stale /\ event' = event
        /\ executed' = executed /\ count' = count
        /\ bus' = bus /\ told' = told
    BY DEF SendReply, Goto, state
  <1>2. answer' = (IF reply.of /= 0 /\ answer[reply.of] = "none"
                   THEN [answer EXCEPT ![reply.of] = Answer(request, reply.ok)]
                   ELSE answer)
    BY DEF SendReply
  <1>3. last_id > 0
    BY <1>1 DEF SimulatorInv, Places
  <1>4. /\ conn > 0 /\ last_reply.of = Newest /\ executed[Newest] = 1
        /\ answer[Newest] \in {"none", Answer(last_packet, last_reply.ok)}
        /\ Answer(last_packet, last_reply.ok) = "accepted" <=> count[Newest] > 0
    BY <1>3 DEF SimulatorInv, Caching
  <1>5. conn \in 1..MaxConnections /\ last_id \in 1..MaxId
    BY <1>3, <1>4, Ranges
  <1>6. Newest \in Requests /\ Owner(Newest) = conn
    BY <1>5, Own DEF Newest, Owner
  <1>7. PICK r \in Requests, a \in Device!Answers \ {"none"} :
          r = Newest /\ a = Answer(last_packet, last_reply.ok)
    BY <1>6 DEF Answer, Device!Answers
  <1>8. reply.of = 0 \/ (reply.of = r /\ Answer(request, reply.ok) = a)
    <2>1. CASE reply = Stale
      BY <2>1 DEF Stale
    <2>2. CASE reply = last_reply /\ request = last_packet
      BY <1>4, <1>7, <2>2
    <2> QED BY <1>1, <2>1, <2>2 DEF SimulatorInv, Replying
  <1>9. \/ answer' = answer
        \/ answer[r] = "none" /\ answer' = [answer EXCEPT ![r] = a]
    BY <1>2, <1>8
  <1>10. /\ answer' \in [Requests -> Device!Answers]
         /\ \A q \in Requests : q /= r => answer'[q] = answer[q]
         /\ answer'[r] \in {"none", a}
         /\ \A q \in Requests : answer[q] /= "none" => answer'[q] = answer[q]
    <2>1. answer \in [Requests -> Device!Answers]
      BY DEF SimulatorInv, Histories
    <2>2. answer[r] \in {"none", a}
      BY <1>4, <1>7
    <2> QED BY <1>9, <2>1, <2>2
  <1>11. TypeOK'
    <2>1. Stale \in [of : Device!Requests \cup {0}, ok : BOOLEAN]
      BY DEF Stale
    <2> QED BY <1>1, <2>1 DEF SimulatorInv, TypeOK
  <1>12. Histories' /\ Places' /\ Replying' /\ Reporting'
    BY <1>1, <1>10 DEF SimulatorInv, Histories, Places, Replying, Reporting, Busy
  <1>13. Newest' = Newest
    BY <1>1 DEF Newest, Device!Request
  <1>14. Unused'
    <2> SUFFICES ASSUME NEW q \in Requests, q > Newest
                 PROVE  executed[q] = 0 /\ answer'[q] = "none" /\ count[q] = 0
      BY <1>1, <1>13 DEF Unused
    <2>1. q /= r
      BY <1>7, Ranges
    <2> QED BY <1>10, <2>1 DEF SimulatorInv, Unused
  <1>15. Caching'
    <2>1. Answer(last_packet, last_reply.ok)' = Answer(last_packet, last_reply.ok)
      BY <1>1 DEF Answer
    <2> QED BY <1>1, <1>4, <1>7, <1>10, <1>13, <2>1 DEF SimulatorInv, Caching
  <1>16. Answered'
    <2> SUFFICES ASSUME NEW q \in Requests, Owner(q) = conn, count[q] > 0
                 PROVE  answer'[q] = "accepted"
      BY <1>1 DEF Answered, Owner, Device!Owner
    <2>1. answer[q] = "accepted" \/ q = reply.of
      BY <1>1 DEF SimulatorInv, Answered
    <2>2. CASE answer[q] = "accepted"
      BY <1>10, <2>2
    <2>3. CASE q = reply.of
      <3>1. q = r /\ Answer(request, reply.ok) = a /\ q /= 0
        BY <1>8, <2>3, Ranges
      <3>2. a = "accepted"
        BY <1>4, <1>7, <3>1
      <3>3. answer[r] \in {"none", a}
        BY <1>4, <1>7
      <3>4. CASE answer[r] = "none"
        <4>1. answer' = [answer EXCEPT ![r] = a]
          BY <1>2, <2>3, <3>1, <3>4
        <4> QED BY <3>1, <3>2, <4>1 DEF SimulatorInv, Histories
      <3> QED BY <1>10, <3>1, <3>2, <3>3, <3>4
    <2> QED BY <2>1, <2>2, <2>3
  <1>17. Scheduled'
    BY <1>1 DEF SimulatorInv, Scheduled, Told
  <1>18. SimulatorInv'
    BY <1>11, <1>12, <1>14, <1>15, <1>16, <1>17 DEF SimulatorInv
  <1>19. /\ Owner(r) = conn /\ executed[r] = 1 /\ (a = "accepted" <=> count[r] > 0)
    BY <1>4, <1>6, <1>7
  <1> QED BY <1>9, <1>18, <1>19

(* The next frame of the schedule is counted, and its event made.          *)
LEMMA DueStep ==
    ASSUME SimulatorInv, Due
    PROVE  SimulatorInv' /\ Device!Transmit
  <1> DEFINE r == pending.request
             left == pending.remaining - 1
             done == pending.completed + 1
  <1>1. /\ phase = "tick" /\ phase' = "event" /\ conn' = conn /\ owner' = owner
        /\ active' = active /\ running' = running /\ hello' = hello
        /\ last_id' = last_id /\ last_packet' = last_packet
        /\ last_reply' = last_reply /\ sequence' = sequence
        /\ reply' = reply /\ request' = request
        /\ executed' = executed /\ answer' = answer /\ count' = count
        /\ told' = told /\ pending /= NoPending
        /\ pending' = (IF left = 0 THEN NoPending
                       ELSE [request |-> r, remaining |-> left, completed |-> done])
        /\ bus' = [bus EXCEPT ![r] = bus[r] + 1]
        /\ event' = [request |-> r, completed |-> done, error |-> "OK",
                     terminal |-> left = 0]
    BY DEF Due, Goto, Outstanding
  <1>2. /\ active /\ r \in Requests /\ Owner(r) = conn
        /\ pending.remaining > 0 /\ pending.remaining + pending.completed = MaxCount
        /\ count[r] = MaxCount /\ bus[r] = pending.completed
        /\ \A d \in Told : d.request = r => ~d.terminal /\ d.completed <= pending.completed
    BY <1>1 DEF SimulatorInv, Scheduled
  <1>3. /\ MaxCount \in Nat \ {0} /\ pending.remaining \in 0..MaxCount
        /\ pending.completed \in 0..MaxCount
    BY SimulatorAssumption DEF SimulatorInv, TypeOK
  <1>4. /\ left \in 0..MaxCount /\ done \in 0..MaxCount /\ left + done = MaxCount
        /\ done > pending.completed /\ done \in Nat /\ (left = 0 <=> done = MaxCount)
    BY <1>2, <1>3
  <1>5. r \in Nat \ {0} /\ 0 \notin Requests
    BY <1>2 DEF Requests, Device!Requests
  <1>6. \A d \in Told : d.request = r => ~d.terminal /\ d.completed < done
    <2> SUFFICES ASSUME NEW d \in Told, d.request = r
                 PROVE  ~d.terminal /\ d.completed < done
      OBVIOUS
    <2>1. d.completed \in Nat
      BY Tellers
    <2> QED BY <1>2, <1>3, <1>4, <2>1
  <1>7. bus \in [Requests -> 0..MaxCount] /\ bus[r] + 1 = done
    BY <1>2 DEF SimulatorInv, Histories
  <1> HIDE DEF left, done
  <1>8. /\ bus' \in [Requests -> 0..MaxCount] /\ bus'[r] = done
        /\ \A q \in Requests : q /= r => bus'[q] = bus[q]
    BY <1>1, <1>2, <1>4, <1>7
  <1>9. pending'.request = (IF left = 0 THEN 0 ELSE r)
    BY <1>1 DEF NoPending
  <1>10. TypeOK'
    <2>1. pending' \in [request : Device!Requests \cup {0},
                        remaining : 0..MaxCount, completed : 0..MaxCount]
      <3>1. NoPending \in [request : Device!Requests \cup {0},
                           remaining : 0..MaxCount, completed : 0..MaxCount]
        BY <1>3 DEF NoPending
      <3> QED BY <1>1, <1>2, <1>4, <3>1 DEF Requests
    <2>2. event' \in Device!Event
      BY <1>1, <1>2, <1>4 DEF Device!Event, Device!Errors, Requests
    <2> QED BY <1>1, <2>1, <2>2 DEF SimulatorInv, TypeOK
  <1>11. Histories' /\ Places' /\ Replying' /\ Answered'
    BY <1>1, <1>8 DEF SimulatorInv, Histories, Places, Replying, Answered, Busy,
       Owner, Device!Owner
  <1>12. Newest' = Newest
    BY <1>1 DEF Newest, Device!Request
  <1>13. Unused' /\ Caching'
    BY <1>1, <1>12 DEF SimulatorInv, Unused, Caching, Answer
  <1>14. Scheduled'
    <2>1. \A q \in Requests : bus'[q] <= count'[q]
      BY <1>1, <1>2, <1>3, <1>4, <1>8, Ranges
    <2>2. Told' = Told /\ \A d \in Told' : count'[d.request] > 0
      BY <1>1 DEF SimulatorInv, Scheduled, Told
    <2>3. CASE left = 0
      BY <1>1, <2>1, <2>2, <2>3 DEF Scheduled
    <2>4. CASE left /= 0
      <3>1. /\ pending' = [request |-> r, remaining |-> left, completed |-> done]
            /\ left > 0
        BY <1>1, <1>4, <2>4
      <3>2. \A d \in Told : d.request = r => ~d.terminal /\ d.completed <= done
        <4> SUFFICES ASSUME NEW d \in Told, d.request = r
                     PROVE  ~d.terminal /\ d.completed <= done
          OBVIOUS
        <4>1. d.completed \in Nat
          BY Tellers
        <4> QED BY <1>4, <1>6, <4>1
      <3> QED BY <1>1, <1>2, <1>4, <1>8, <2>1, <2>2, <3>1, <3>2
              DEF Scheduled, Owner, Device!Owner
    <2> QED BY <2>3, <2>4
  <1>15. Reporting'
    <2>1. /\ event' \in Device!Event /\ event'.request = r
          /\ event'.completed = done /\ event'.error = "OK"
          /\ event'.terminal = (left = 0)
      BY <1>1, <1>2, <1>4 DEF Device!Event, Device!Errors, Requests
    <2>2. Told' = Told
      BY <1>1 DEF Told
    <2> QED BY <1>1, <1>2, <1>4, <1>5, <1>6, <1>8, <1>9, <2>1, <2>2
            DEF Reporting, Owner, Device!Owner
  <1>16. Device!Transmit
    <2>1. bus[r] < count[r]
      BY <1>2, <1>3, <1>4, <1>7
    <2>2. pending'.request = r \/ (bus'[r] = count[r] /\ pending'.request = 0)
      BY <1>2, <1>4, <1>8, <1>9
    <2>3. /\ UNCHANGED <<conn, owner /= 0, executed, answer, active, count, told>>
      BY <1>1
    <2> QED BY <1>1, <1>2, <1>5, <2>1, <2>2, <2>3 DEF Device!Transmit
  <1> QED BY <1>10, <1>11, <1>13, <1>14, <1>15, <1>16 DEF SimulatorInv

(* The event goes out. *)
LEMMA EventStep ==
    ASSUME SimulatorInv, SendEvent
    PROVE  SimulatorInv' /\ Device!Tell(event)
  <1>1. /\ phase = "event" /\ phase' = "recv" /\ conn' = conn /\ owner' = owner
        /\ active' = active /\ running' = running /\ pending' = pending /\ hello' = hello
        /\ last_id' = last_id /\ last_packet' = last_packet
        /\ last_reply' = last_reply /\ sequence' = sequence
        /\ reply' = reply /\ request' = request /\ event' = <<>>
        /\ executed' = executed /\ answer' = answer /\ count' = count
        /\ bus' = bus /\ told' = Append(told, event)
    BY DEF SendEvent, Goto, state
  <1>2. PICK e \in Device!Event : e = event
    BY <1>1 DEF SimulatorInv, Reporting
  <1>3. /\ Owner(e.request) = conn
        /\ count[e.request] = MaxCount /\ bus[e.request] = e.completed
        /\ e.error = "OK" /\ (e.terminal <=> e.completed = MaxCount)
        /\ e.terminal => pending.request /= e.request
        /\ \A d \in Told : d.request = e.request => ~d.terminal /\ d.completed < e.completed
    BY <1>1, <1>2 DEF SimulatorInv, Reporting
  <1>4. /\ e.request \in Requests /\ e.completed \in Nat /\ e.terminal \in BOOLEAN
        /\ MaxCount \in Nat \ {0} /\ e.request \in Nat \ {0}
    BY SimulatorAssumption DEF Device!Event, Requests, Device!Requests
  <1>5. told' \in Seq(Device!Event) /\ Told' = Told \cup {e}
    <2>1. told \in Seq(Device!Event)
      BY DEF SimulatorInv, TypeOK
    <2>2. /\ told' \in Seq(Device!Event) /\ DOMAIN told = 1..Len(told)
          /\ DOMAIN told' = 1..(Len(told) + 1) /\ Len(told) \in Nat
          /\ told'[Len(told) + 1] = e /\ \A i \in DOMAIN told : told'[i] = told[i]
      BY <1>1, <1>2, <2>1, AppendProperties, LenProperties
    <2>3. /\ \A i \in DOMAIN told' : i \in DOMAIN told \/ i = Len(told) + 1
          /\ DOMAIN told \subseteq DOMAIN told' /\ Len(told) + 1 \in DOMAIN told'
      BY <2>2
    <2>4. \A x : x \in Told <=> \E i \in DOMAIN told : x = told[i]
      BY DEF Told
    <2>5. \A x : x \in Told' <=> \E i \in DOMAIN told' : x = told'[i]
      BY DEF Told
    <2>6. \A x : x \in Told' <=> x \in Told \/ x = e
      BY <2>2, <2>3, <2>4, <2>5, Zenon
    <2> QED BY <2>2, <2>6
  <1>6. TypeOK'
    BY <1>1, <1>5 DEF SimulatorInv, TypeOK
  <1>7. Histories' /\ Places' /\ Replying' /\ Answered' /\ Reporting'
    BY <1>1 DEF SimulatorInv, Histories, Places, Replying, Answered, Reporting, Busy
  <1>8. Newest' = Newest
    BY <1>1 DEF Newest, Device!Request
  <1>9. Unused' /\ Caching'
    BY <1>1, <1>8 DEF SimulatorInv, Unused, Caching, Answer
  <1>10. Scheduled'
    <2>1. \A d \in Told' : count'[d.request] > 0
      BY <1>1, <1>3, <1>4, <1>5 DEF SimulatorInv, Scheduled
    <2>2. ASSUME pending /= NoPending, NEW d \in Told', d.request = pending.request
          PROVE  ~d.terminal /\ d.completed <= pending.completed
      <3>1. bus[pending.request] = pending.completed
        BY <2>2 DEF SimulatorInv, Scheduled
      <3>2. CASE d = e
        BY <1>3, <1>4, <2>2, <3>1, <3>2
      <3>3. CASE d \in Told
        BY <2>2, <3>3 DEF SimulatorInv, Scheduled
      <3> QED BY <1>5, <2>2, <3>2, <3>3
    <2> QED BY <1>1, <2>1, <2>2 DEF SimulatorInv, Scheduled
  <1>11. SimulatorInv'
    BY <1>6, <1>7, <1>9, <1>10 DEF SimulatorInv
  <1>12. owner /= 0
    BY <1>1, Ranges DEF SimulatorInv, Places, Busy
  <1>13. answer[e.request] = "accepted"
    <2>1. count[e.request] > 0
      BY <1>3, <1>4
    <2> QED BY <1>1, <1>3, <1>4, <2>1 DEF SimulatorInv, Answered
  <1>14. Device!Honest(e)
    BY <1>3, <1>4 DEF Device!Honest
  <1>15. Device!InTurn(e)
    BY <1>3 DEF Device!InTurn, Told
  <1>16. Device!Tell(e)
    BY <1>1, <1>2, <1>3, <1>12, <1>13, <1>14, <1>15 DEF Device!Tell, Owner
  <1> QED BY <1>2, <1>11, <1>16

-----------------------------------------------------------------------------
LEMMA Step == SimulatorInv /\ [Next]_vars => SimulatorInv'
  <1> SUFFICES ASSUME SimulatorInv, [Next]_vars PROVE SimulatorInv'
    OBVIOUS
  <1>1. CASE connect
    BY <1>1, ConnectStep
  <1>2. CASE End \/ Expire
    BY <1>2, EndStep
  <1>3. CASE \/ Gone \/ SendFails \/ Quiet \/ NotDue
             \/ (\E p \in Packet : HelloRequired(p)) \/ UNCHANGED vars
    <2>1. sequence \in 0..MaxSequence
      BY DEF SimulatorInv, TypeOK
    <2> QED BY <1>3, <2>1, MoveStep DEF Gone, SendFails, Quiet, NotDue, HelloRequired,
            Goto, state, history, hands, vars
  <1>4. CASE SendFrames
    <2>1. sequence' \in 0..MaxSequence
      BY <1>4, SimulatorAssumption DEF SendFrames, SimulatorInv, TypeOK
    <2> QED BY <1>4, <2>1, MoveStep DEF SendFrames, Goto, history, hands
  <1>5. CASE \E p \in Packet : command(p)
    BY <1>5, ExecuteStep, RepeatStep DEF command
  <1>6. CASE SendReply
    BY <1>6, ReplyStep
  <1>7. CASE Due
    BY <1>7, DueStep
  <1>8. CASE SendEvent
    BY <1>8, EventStep
  <1> QED BY <1>1, <1>2, <1>3, <1>4, <1>5, <1>6, <1>7, <1>8 DEF Next, Serve

LEMMA Inductive == Spec => []SimulatorInv
  BY Initially, Step, PTL DEF Spec

(* For every number of connections and requests, the cached reply goes out *)
(* for a repetition of the packet it answers, in the connection of that    *)
(* packet, and for nothing else: SimState.command() and last_packet.       *)
THEOREM OneAnswer == Spec => []SameAnswer
  <1>1. SimulatorInv => SameAnswer
    <2> SUFFICES ASSUME SimulatorInv, phase = "reply" PROVE SameAnswer
      BY DEF SameAnswer
    <2>1. last_id > 0
      BY DEF SimulatorInv, Places
    <2>2. /\ last_packet.id = last_id /\ last_reply.of = Newest
          /\ answer[Newest] \in {"none", Answer(last_packet, last_reply.ok)}
      BY <2>1 DEF SimulatorInv, Caching
    <2>3. ASSUME request = last_packet
          PROVE  reply.of = Device!Request(conn, request.id)
      <3>1. reply = last_reply
        BY <2>3 DEF SimulatorInv, Replying
      <3> QED BY <2>2, <2>3, <3>1 DEF Newest
    <2>4. ASSUME reply.of /= 0
          PROVE  /\ request = last_packet
                 /\ answer[reply.of] \in {"none", Answer(request, reply.ok)}
      <3>1. reply = last_reply /\ request = last_packet
        BY <2>4 DEF SimulatorInv, Replying, Stale
      <3> QED BY <2>2, <3>1
    <2> QED BY <2>3, <2>4 DEF SameAnswer
  <1> QED BY <1>1, Inductive, PTL

-----------------------------------------------------------------------------
(* Every step of the thread is one that DeviceContract allows, or one that *)
(* a client cannot see.                                                    *)
Seen == Device!Next \/ UNCHANGED Device!vars

LEMMA EndSeen == ASSUME SimulatorInv, End \/ Expire PROVE Seen
  <1>1. /\ conn' = conn /\ owner' = 0 /\ active' = FALSE /\ pending' = NoPending
        /\ executed' = executed /\ answer' = answer /\ count' = count
        /\ bus' = bus /\ told' = told
    BY DEF End, Expire, disconnect, history
  <1>2. CASE owner = 0
    <2>1. active = FALSE /\ pending = NoPending
      BY <1>2 DEF SimulatorInv, Places, TypeOK
    <2> QED BY <1>1, <1>2, <2>1 DEF Seen, Device!vars
  <1>3. CASE owner /= 0
    <2>1. Device!Disconnect
      BY <1>1, <1>3 DEF Device!Disconnect, Device!Abort, NoPending
    <2> QED BY <2>1 DEF Seen, Device!Next
  <1> QED BY <1>2, <1>3

LEMMA CommandSeen == ASSUME SimulatorInv, NEW p \in Packet, command(p) PROVE Seen
  <1>1. CASE Repeat(p)
    BY <1>1 DEF command, Repeat, Seen, Device!vars
  <1>2. CASE Execute(p)
    <2>1. PICK r \in Requests :
            /\ Owner(r) = conn /\ r > Newest /\ owner = conn /\ owner /= 0
            /\ executed' = [executed EXCEPT ![r] = 1]
            /\ \/ Device!Effectless \/ Device!Reconfigure
               \/ Device!Accept(r, MaxCount)
      BY <1>2, ExecuteStep
    <2>2. \A q \in Device!Requests : q >= r => executed[q] = 0
      <3> SUFFICES ASSUME NEW q \in Requests, q >= r PROVE executed[q] = 0
        BY DEF Requests
      <3>1. q > Newest
        BY <2>1, Ranges
      <3> QED BY <3>1 DEF SimulatorInv, Unused
    <2>3. conn' = conn /\ owner' = owner /\ answer' = answer /\ told' = told
      BY DEF command
    <2>4. MaxCount \in 1..MaxCount
      BY SimulatorAssumption
    <2>5. Device!Execute(r)
      BY <2>1, <2>2, <2>3, <2>4 DEF Device!Execute, Owner
    <2> QED BY <2>5 DEF Seen, Device!Next, Requests
  <1> QED BY <1>1, <1>2 DEF command

LEMMA ReplySeen == ASSUME SimulatorInv, SendReply PROVE Seen
  <1>1. /\ conn' = conn /\ owner' = owner /\ executed' = executed /\ active' = active
        /\ pending' = pending /\ count' = count /\ bus' = bus /\ told' = told
        /\ phase = "reply"
    BY DEF SendReply, Goto, state
  <1>2. owner /= 0
    BY <1>1, Ranges DEF SimulatorInv, Places, Busy
  <1>3. CASE answer' = answer
    BY <1>1, <1>3 DEF Seen, Device!vars
  <1>4. CASE \E r \in Requests, a \in Device!Answers \ {"none"} :
               /\ Owner(r) = conn /\ executed[r] = 1 /\ answer[r] = "none"
               /\ (a = "accepted" <=> count[r] > 0)
               /\ answer' = [answer EXCEPT ![r] = a]
    <2>1. PICK r \in Requests, a \in Device!Answers \ {"none"} :
               /\ Owner(r) = conn /\ executed[r] = 1 /\ answer[r] = "none"
               /\ (a = "accepted" <=> count[r] > 0)
               /\ answer' = [answer EXCEPT ![r] = a]
      BY <1>4
    <2>2. Device!Reply(r, a)
      BY <1>1, <1>2, <2>1 DEF Device!Reply, Owner
    <2> QED BY <2>2 DEF Seen, Device!Next, Requests
  <1> QED BY <1>3, <1>4, ReplyStep

LEMMA StepSeen == SimulatorInv /\ [Next]_vars => [Device!Next]_(Device!vars)
  <1> SUFFICES ASSUME SimulatorInv, [Next]_vars PROVE Seen
    BY DEF Seen
  <1>1. CASE connect
    <2>1. Device!Connect
      <3>1. owner = 0 /\ conn + 1 /= 0
        BY <1>1, Ranges DEF connect, Goto, SimulatorInv, Places
      <3> QED BY <1>1, <3>1 DEF connect, history, Device!Connect
    <2> QED BY <2>1 DEF Seen, Device!Next
  <1>2. CASE End \/ Expire
    BY <1>2, EndSeen
  <1>3. CASE \/ Gone \/ SendFails \/ Quiet \/ NotDue \/ SendFrames
             \/ (\E p \in Packet : HelloRequired(p)) \/ UNCHANGED vars
    BY <1>3 DEF Gone, SendFails, Quiet, NotDue, SendFrames, HelloRequired,
       state, history, vars, Seen, Device!vars
  <1>4. CASE \E p \in Packet : command(p)
    BY <1>4, CommandSeen
  <1>5. CASE SendReply
    BY <1>5, ReplySeen
  <1>6. CASE Due
    BY <1>6, DueStep DEF Seen, Device!Next
  <1>7. CASE SendEvent
    <2>1. event \in Device!Event
      BY <1>7 DEF SendEvent, Goto, SimulatorInv, Reporting
    <2> QED BY <1>7, <2>1, EventStep DEF Seen, Device!Next
  <1> QED BY <1>1, <1>2, <1>3, <1>4, <1>5, <1>6, <1>7 DEF Next, Serve

(* The simulator is what DeviceContract promises, as the firmware is, for  *)
(* every number of connections and frames: what SendProofs shows of it, and*)
(* what Send relies on, holds of both.                                     *)
THEOREM SimulatorImplementsDevice == Spec => ImplementsDevice
  <1>1. Init => Device!Init
    BY DEF Init, Device!Init, NoPending
  <1> QED BY <1>1, StepSeen, Inductive, PTL DEF Spec, Device!Spec, ImplementsDevice

=============================================================================
