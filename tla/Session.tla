------------------------------- MODULE Session -------------------------------
(* The server thread of the firmware (src/firmware/src/main.c): one owner  *)
(* at a time, its commands, their answers, and the transmit events it is   *)
(* sent.  The capture core is present as its contract, CaptureContract:    *)
(* the scheduler, the controller and the recovery thread take its steps    *)
(* between those of the server.                                            *)
(*                                                                         *)
(* A request id is unique within a connection only; the core's requests    *)
(* are the pairs of connection and id, numbered by Request.                *)
EXTENDS Integers, Sequences

CONSTANTS
    MaxConnections,   \* bound on the connections of one boot
    MaxId,            \* bound on the request ids of one connection
    MaxRequest,       \* bound on the requests of all, the last having fewer
    MaxCount,         \* frames of the larger TX command
    EventDepth,       \* CONFIG_WCAN_TX_EVENT_DEPTH
    Payloads          \* [Kinds -> sets of payloads]: what clients send

Kinds == {"HELLO", "PING", "CONFIGURE", "START", "STOP", "TX", "WIFI"}

ASSUME SessionAssumption ==
    /\ MaxConnections \in Nat \ {0} /\ MaxId \in Nat \ {0} /\ MaxRequest \in Nat
    /\ MaxCount \in Nat \ {0} /\ EventDepth \in Nat \ {0}
    /\ Payloads \in [Kinds -> SUBSET {"empty", "junk", "passive", "active",
                                      "one", "all", "short", "long"}]

Ids == 1..MaxId
Requests == 1..(MaxConnections * MaxId)
Request(c, id) == (c - 1) * MaxId + id
Owner(r) == (r - 1) \div MaxId + 1

VARIABLES
    running, configured, active, scheduled, tx_request, completed, count, bus,
    tx_events, tx_event_drops, emitted, taken,   \* see CaptureContract
    phase,           \* where the server thread is
    conn,            \* number of the current, or last, connection
    hello, reboot, high_request, cache,
    request, reply,  \* the packet being answered, and the answer
    sending,         \* the event in the server's hands
    executed,        \* history: times command() ran for a request
    origin,          \* history: the last one it ran for, and its packet
    answer,          \* history: the first answer sent
    delivered,       \* history: the events sent
    lastconfig       \* history: was the last configuration valid?

Core == INSTANCE CaptureContract
corevars == <<running, configured, active, scheduled, tx_request, completed,
              count, bus, tx_events, tx_event_drops, emitted, taken>>
server == <<conn, hello, reboot, high_request, cache, request, reply, sending>>
history == <<executed, origin, answer, delivered, lastconfig>>
vars == <<corevars, phase, server, history>>
-----------------------------------------------------------------------------
(* A payload stands for all that a command does not tell apart: "junk" is  *)
(* any that the command refuses before it calls the core, "long" one too   *)
(* long for the cache.  INFO is as PING, CANCEL as STOP.                   *)
Packet == {p \in [id : Ids, kind : Kinds,
                  payload : UNION {Payloads[k] : k \in Kinds}] :
             p.payload \in Payloads[p.kind]}

Count(payload) == IF payload = "one" THEN 1 ELSE MaxCount

NoPacket == [id |-> 0, kind |-> "HELLO", payload |-> "empty"]
Reply == [of : Requests \cup {0}, ok : BOOLEAN]
Refused == [of |-> 0, ok |-> FALSE]      \* "duplicate or stale request"
NoCache == [packet |-> NoPacket, reply |-> Refused]

Phases == {"accept", "open", "clear", "poll", "flush", "reply", "restart",
           "reboot", "events", "send", "done", "drain"}

TypeOK ==
    /\ Core!TypeOK
    /\ phase \in Phases /\ conn \in 0..MaxConnections
    /\ hello \in BOOLEAN /\ reboot \in BOOLEAN /\ high_request \in 0..MaxId
    /\ cache \in [packet : Packet \cup {NoPacket}, reply : Reply]
    /\ request \in Packet \cup {NoPacket} /\ reply \in Reply
    /\ sending \in Seq(Core!Event) /\ Len(sending) <= 1
    /\ executed \in [Requests -> Nat]
    /\ origin \in [of : Requests \cup {0}, packet : Packet \cup {NoPacket}]
    /\ answer \in [Requests -> {"none", "error", "applied", "accepted"}]
    /\ delivered \in Seq(Core!Event)
    /\ lastconfig \in {"none", "valid", "invalid"}

Init ==
    /\ Core!Init
    /\ phase = "accept" /\ conn = 0 /\ hello = FALSE /\ reboot = FALSE
    /\ high_request = 0 /\ cache = NoCache /\ request = NoPacket
    /\ reply = Refused /\ sending = <<>>
    /\ executed = [r \in Requests |-> 0]
    /\ origin = [of |-> 0, packet |-> NoPacket]
    /\ answer = [r \in Requests |-> "none"]
    /\ delivered = <<>> /\ lastconfig = "none"

Goto(from, to) == phase = from /\ phase' = to
-----------------------------------------------------------------------------
Accept ==
    /\ Goto("accept", "open")
    /\ conn < MaxConnections /\ conn' = conn + 1
    /\ hello' = FALSE /\ reboot' = FALSE /\ high_request' = 0
    /\ cache' = NoCache /\ request' = NoPacket /\ reply' = Refused
    /\ UNCHANGED <<corevars, sending, history>>

Stop == Core!Halt

(* serve() stops capture when it begins and when it ends, ... *)
ServeStop ==
    /\ Goto("open", "clear") \/ Goto("done", "drain")
    /\ Stop
    /\ UNCHANGED <<server, history>>

(* A server that leaves the events where they are. *)
discard_queueNot == UNCHANGED corevars
discard_queue ==
    IF tx_events = <<>> THEN UNCHANGED corevars ELSE Core!DiscardEvents

(* ... and then discards what is queued, as does a configuration. *)
Discard ==
    /\ Goto("clear", "poll") \/ Goto("flush", "reply") \/ Goto("drain", "accept")
    /\ discard_queue
    /\ UNCHANGED <<server, history>>

(* The peer is gone, silent for 3 s, slow with a packet for 2 s, or sends  *)
(* a header that w_parse() refuses, or a request id of 0.                  *)
Drop ==
    /\ Goto("poll", "done")
    /\ UNCHANGED <<corevars, server, history>>
-----------------------------------------------------------------------------
(* command(): what each kind does to the core, and whether it succeeds.    *)
Configure(payload, ok) ==
    \/ /\ payload = "junk" /\ ~ok
       /\ UNCHANGED corevars
    \/ /\ payload /= "junk"
       /\ Core!Configure
       /\ ok = configured'
       /\ ok => active' = (payload = "active")

(* The controller may also refuse to start. *)
StartCapture(ok) ==
    \/ ok /\ Core!Start
    \/ ~ok /\ UNCHANGED corevars

StopCapture(payload, ok) ==
    \/ payload = "empty" /\ ok /\ Stop
    \/ payload /= "empty" /\ ~ok /\ UNCHANGED corevars

(* Refused without permission and while a schedule is open; and by "junk", *)
(* which covers an FD frame under a classical configuration.               *)
Transmit(r, payload, ok) ==
    \/ ok /\ payload /= "junk" /\ Core!Accept(r, Count(payload))
    \/ ~ok /\ (payload = "junk" \/ ~running \/ ~active \/ scheduled)
       /\ UNCHANGED corevars

(* network_provision(): stops capture before it saves, and saving may fail.*)
Provision(payload, ok) ==
    \/ ~ok /\ payload = "junk" /\ UNCHANGED corevars
    \/ payload /= "junk" /\ Stop

command(p, ok) ==
    CASE p.kind \in {"HELLO", "PING"} ->
           ok = (p.payload = "empty") /\ UNCHANGED corevars
      [] p.kind = "CONFIGURE" -> Configure(p.payload, ok)
      [] p.kind = "START" -> StartCapture(ok)
      [] p.kind = "STOP" -> StopCapture(p.payload, ok)
      [] p.kind = "TX" -> Transmit(Request(conn, p.id), p.payload, ok)
      [] p.kind = "WIFI" -> Provision(p.payload, ok)
-----------------------------------------------------------------------------
(* A packet p arrives with boot, the session of its header, right or zero. *)
Unwelcome(p, boot) ==
    IF hello THEN ~boot ELSE p.kind /= "HELLO" \/ boot

Fresh(p) == p.id > high_request

(* A cache that is not asked for the payload, and one that is never asked. *)
CachedById(p) == p.id = cache.packet.id /\ p.kind = cache.packet.kind
CachedNever(p) == FALSE
Cached(p) == p = cache.packet /\ p.payload /= "long"

Reject(p, boot) ==
    /\ Goto("poll", "done")
    /\ Unwelcome(p, boot) \/ (Fresh(p) /\ p.kind = "HELLO" /\ hello)
    /\ request' = p
    /\ UNCHANGED <<corevars, conn, hello, reboot, high_request, cache, reply,
                   sending, history>>

Duplicate(p, boot) ==
    /\ Goto("poll", "reply")
    /\ ~Unwelcome(p, boot) /\ ~Fresh(p)
    /\ request' = p
    /\ reply' = IF Cached(p) THEN cache.reply ELSE Refused
    /\ UNCHANGED <<corevars, conn, hello, reboot, high_request, cache, sending,
                   history>>

Execute(p, boot, ok) ==
    LET r == Request(conn, p.id)
        configures == p.kind = "CONFIGURE"
    IN  /\ ~Unwelcome(p, boot) /\ Fresh(p) /\ ~(p.kind = "HELLO" /\ hello)
        /\ command(p, ok)
        /\ Goto("poll", IF configures /\ p.payload /= "junk" THEN "flush"
                        ELSE "reply")
        /\ high_request' = p.id /\ hello' = TRUE
        /\ reboot' = (p.kind = "WIFI" /\ ok)
        /\ request' = p /\ reply' = [of |-> r, ok |-> ok]
        /\ cache' = [packet |-> p, reply |-> reply']
        /\ executed' = [executed EXCEPT ![r] = @ + 1]
        /\ origin' = [of |-> r, packet |-> p]
        /\ lastconfig' = IF ~configures THEN lastconfig
                         ELSE IF ok THEN "valid" ELSE "invalid"
        /\ UNCHANGED <<conn, sending, answer, delivered>>
-----------------------------------------------------------------------------
Answer == IF ~reply.ok THEN "error"
          ELSE IF request.kind = "TX" THEN "accepted" ELSE "applied"

SendReply ==
    /\ Goto("reply", IF reboot THEN "restart" ELSE "poll")
    /\ answer' = IF reply.of /= 0 /\ answer[reply.of] = "none"
                 THEN [answer EXCEPT ![reply.of] = Answer]
                 ELSE answer
    /\ request' = NoPacket /\ reply' = Refused
    /\ UNCHANGED <<corevars, conn, hello, reboot, high_request, cache, sending,
                   executed, origin, delivered, lastconfig>>

(* Any send may fail: of the reply, of a batch of frames, of a status. *)
SendFails ==
    /\ Goto("reply", "done") \/ Goto("events", "done")
    /\ UNCHANGED <<corevars, server, history>>

Restart ==
    /\ Goto("restart", "reboot")
    /\ Stop
    /\ UNCHANGED <<server, history>>

(* No complete packet is left: the frames, the events, the status.         *)
Polled ==
    /\ Goto("poll", "events") /\ hello
    /\ UNCHANGED <<corevars, server, history>>

TakeEvent ==
    /\ Goto("events", "send")
    /\ Core!Take
    /\ sending' = <<Head(tx_events)>>
    /\ UNCHANGED <<conn, hello, reboot, high_request, cache, request, reply,
                   history>>

SendEvent ==
    /\ Goto("send", "events")
    /\ delivered' = Append(delivered, Head(sending))
    /\ sending' = <<>>
    /\ UNCHANGED <<corevars, conn, hello, reboot, high_request, cache, request,
                   reply, executed, origin, answer, lastconfig>>

(* A failed send that nobody counts. *)
capture_discard_txNot == UNCHANGED corevars
capture_discard_tx == Core!Lose

SendEventFails ==
    /\ Goto("send", "done")
    /\ capture_discard_tx
    /\ sending' = <<>>
    /\ UNCHANGED <<conn, hello, reboot, high_request, cache, request, reply,
                   history>>

EventsSent ==
    /\ Goto("events", "poll") /\ tx_events = <<>>
    /\ UNCHANGED <<corevars, server, history>>
-----------------------------------------------------------------------------
(* The scheduler, the controller and the recovery thread. *)
Others ==
    /\ phase /= "reboot"
    /\ Core!Transmit \/ Core!Report \/ Core!Fail \/ Core!Halt
    /\ UNCHANGED <<phase, server, history>>

(* A client may skip ids: no decision depends on the distance. *)
Receive ==
    \E p \in Packet, boot \in BOOLEAN :
      /\ p.id <= high_request + 1 /\ Request(conn, p.id) <= MaxRequest
      /\ \/ Reject(p, boot) \/ Duplicate(p, boot)
         \/ \E ok \in BOOLEAN : Execute(p, boot, ok)

Next ==
    \/ Accept \/ ServeStop \/ Discard \/ Drop \/ Receive
    \/ SendReply \/ SendFails \/ Restart
    \/ Polled \/ TakeEvent \/ SendEvent \/ SendEventFails \/ EventsSent
    \/ Others

Spec == Init /\ [][Next]_vars
-----------------------------------------------------------------------------
(* The packet that is being answered is the newest of the connection, or a *)
(* repetition of it that the cache holds.                                  *)
Repeated ==
    /\ origin.of /= 0 /\ Owner(origin.of) = conn
    /\ request = origin.packet /\ request.payload /= "long"

(* A packet that repeats the newest one, and is answered, gets the answer  *)
(* of its request; one that only looks like it, and an older one, does not *)
(* get any.  A HELLO cannot be repeated: its header has no session, and a  *)
(* second one ends the connection.                                         *)
SameAnswer ==
    phase = "reply" =>
      /\ reply.of /= 0 =>
           /\ origin = [of |-> reply.of, packet |-> request]
           /\ Owner(reply.of) = conn /\ answer[reply.of] \in {"none", Answer}
      /\ Repeated => reply.of = origin.of

(* What a client may rely on, see DeviceContract: the core's schedule and  *)
(* permission are those of the connection, an event counts once it is sent.*)
Device == INSTANCE DeviceContract WITH
    open <- phase \notin {"accept", "drain", "reboot"},
    permitted <- active,
    schedule <- IF scheduled THEN tx_request ELSE 0,
    told <- delivered

ImplementsDevice == Device!Spec

(* Every event is delivered, in the server's hands, waiting, or counted in *)
(* tx_event_discards, also when the send of it fails.                      *)
EventsAccounted ==
    Len(emitted) = Len(delivered) + Len(sending) + Len(tx_events)
                   + tx_event_drops

(* docs/protocol.md: "Invalid configuration leaves START disabled until a  *)
(* valid configuration is applied."                                        *)
InvalidDisablesStart == lastconfig = "invalid" => ~configured
=============================================================================
