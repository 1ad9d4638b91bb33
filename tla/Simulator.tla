------------------------------ MODULE Simulator ------------------------------
(* The device of the test suite (src/pc/can_tool/simulator.py): one thread *)
(* that accepts a connection, reads packets, executes and answers them, and*)
(* between two reads sends the frames it makes up, and an event of its     *)
(* schedule.  SimState is the state of the device, Simulator.run() the     *)
(* thread.  It counts a frame as sent when it says so.                     *)
(*                                                                         *)
(* Unlike the firmware (Session) it answers a packet with the wrong session*)
(* instead of closing, starts without a configuration, and takes a second  *)
(* HELLO; a client cannot tell by what DeviceContract says.                *)
EXTENDS Integers, Sequences

CONSTANTS
    MaxConnections,   \* bound on the connections
    MaxId,            \* bound on the request ids of one connection
    MaxRequest,       \* bound on the requests of all, the last having fewer
    MaxCount,         \* frames of the TX commands
    MaxSequence,      \* bound on the frames made up
    Payloads          \* [Kinds -> sets of payloads]: what clients send

Kinds == {"HELLO", "PING", "CONFIGURE", "START", "STOP", "TX", "WIFI"}

ASSUME SimulatorAssumption ==
    /\ MaxConnections \in Nat \ {0} /\ MaxId \in Nat \ {0} /\ MaxRequest \in Nat
    /\ MaxCount \in Nat \ {0} /\ MaxSequence \in Nat
    /\ Payloads \in [Kinds -> SUBSET {"empty", "junk", "passive", "active", "all"}]

VARIABLES
    conn,             \* number of the current, or last, connection
    phase, hello,     \* where the thread is; its flag
    owner,            \* SimState.owner: a connection, or 0 for None
    active, running,
    pending,          \* the schedule: request, frames left and done
    last_id, last_packet, last_reply,
    sequence,
    request, reply,   \* the packet in the thread's hands, and its answer
    event,            \* the event in its hands
    executed,         \* history: times a request was executed
    answer,           \* history: the answer it was given
    count, bus,       \* history: frames asked for, and done, by request
    told              \* history: the events sent

state == <<owner, active, running, pending, last_id, last_packet, last_reply,
           sequence>>
history == <<executed, answer, count, bus, told>>
hands == <<request, reply, event>>
vars == <<conn, phase, hello, state, hands, history>>

Device == INSTANCE DeviceContract WITH
    open <- owner /= 0, permitted <- active, schedule <- pending.request

(* A payload stands for all that a command does not tell apart, see        *)
(* Session; boot says whether the header has the session of this boot (a   *)
(* HELLO should not).  INFO is as PING, CANCEL as STOP.                    *)
Packet == {p \in [id : 1..MaxId, kind : Kinds, boot : BOOLEAN,
                  payload : UNION {Payloads[k] : k \in Kinds}] :
             p.payload \in Payloads[p.kind]}
None == [id |-> 0, kind |-> "HELLO", boot |-> TRUE, payload |-> "junk"]
NoPending == [request |-> 0, remaining |-> 0, completed |-> 0]
Stale == [of |-> 0, ok |-> FALSE]      \* "stale request"

TypeOK ==
    /\ phase \in {"listen", "recv", "reply", "frames", "tick", "event", "end"}
    /\ hello \in BOOLEAN /\ active \in BOOLEAN /\ running \in BOOLEAN
    /\ conn \in 0..MaxConnections /\ owner \in {0, conn}
    /\ pending \in [request : Device!Requests \cup {0},
                    remaining : 0..MaxCount, completed : 0..MaxCount]
    /\ last_id \in 0..MaxId /\ last_packet \in Packet \cup {None}
    /\ last_reply \in [of : Device!Requests \cup {0}, ok : BOOLEAN]
    /\ reply \in [of : Device!Requests \cup {0}, ok : BOOLEAN]
    /\ sequence \in 0..MaxSequence
    /\ event \in Device!Event \cup {<<>>} /\ told \in Seq(Device!Event)

Init ==
    /\ conn = 0 /\ phase = "listen" /\ hello = FALSE
    /\ owner = 0 /\ active = FALSE /\ running = FALSE /\ pending = NoPending
    /\ last_id = 0 /\ last_packet = None /\ last_reply = Stale /\ sequence = 0
    /\ request = None /\ reply = Stale /\ event = <<>>
    /\ executed = [r \in Device!Requests |-> 0]
    /\ answer = [r \in Device!Requests |-> "none"]
    /\ count = [r \in Device!Requests |-> 0]
    /\ bus = [r \in Device!Requests |-> 0] /\ told = <<>>

Goto(from, to) == phase = from /\ phase' = to
-----------------------------------------------------------------------------
(* SimState.connect() and the start of the connection. *)
connect ==
    /\ Goto("listen", "recv")
    /\ conn < MaxConnections /\ conn' = conn + 1 /\ owner' = conn'
    /\ last_id' = 0 /\ last_packet' = None /\ hello' = FALSE
    /\ UNCHANGED <<active, running, pending, last_reply, sequence, hands,
                   history>>

(* A simulator that leaves permission and schedule to the next owner. *)
disconnectOnly == owner' = 0 /\ UNCHANGED <<active, running, pending>>
disconnect ==
    /\ owner' = 0 /\ active' = FALSE /\ running' = FALSE /\ pending' = NoPending

(* The finally clause of run(), after any failure and when the client has  *)
(* gone or the simulator is closed.                                        *)
End ==
    /\ Goto("end", "listen")
    /\ disconnect
    /\ request' = None /\ reply' = Stale /\ event' = <<>>
    /\ UNCHANGED <<conn, hello, last_id, last_packet, last_reply, sequence,
                   history>>

Gone ==
    /\ Goto("recv", "end")
    /\ UNCHANGED <<conn, hello, state, hands, history>>
-----------------------------------------------------------------------------
(* command(): what a fresh packet does.  The first two are refused before  *)
(* they touch anything.                                                    *)
Mismatch(p) == IF p.kind = "HELLO" THEN p.boot \/ p.payload = "junk" ELSE ~p.boot

Starts(p) ==
    /\ p.kind = "TX" /\ p.payload /= "junk"
    /\ active /\ running /\ pending = NoPending

Valid(p) ==
    /\ ~Mismatch(p)
    /\ p.kind \in {"CONFIGURE", "TX"} => p.payload /= "junk"
    /\ p.kind = "TX" => Starts(p)
    /\ p.kind /= "WIFI"

Effect(p) ==
    CASE p.kind = "CONFIGURE" ->
           /\ running' = FALSE /\ pending' = NoPending
           /\ active' = (p.payload = "active")
      [] p.kind = "START" -> running' = TRUE /\ UNCHANGED <<active, pending>>
      [] p.kind = "STOP" ->
           running' = FALSE /\ active' = FALSE /\ pending' = NoPending
      [] p.kind = "TX" ->
           /\ pending' = [request |-> Device!Request(conn, p.id),
                          remaining |-> MaxCount, completed |-> 0]
           /\ UNCHANGED <<active, running>>
      [] OTHER -> UNCHANGED <<active, running, pending>>

Answer(p, ok) == IF ~ok THEN "error" ELSE IF p.kind = "TX" THEN "accepted"
                 ELSE "applied"

Fresh(p) == p.id > last_id

(* A cache that is not asked for the payload, and one that is never asked. *)
SameId(p) == p.id = last_packet.id /\ p.kind = last_packet.kind
SameNever(p) == FALSE
Same(p) == p = last_packet

Execute(p) ==
    LET r == Device!Request(conn, p.id)
        ok == Valid(p)
    IN  /\ Fresh(p)
        /\ last_id' = p.id /\ last_packet' = p
        /\ IF ok THEN Effect(p) ELSE UNCHANGED <<active, running, pending>>
        /\ last_reply' = [of |-> r, ok |-> ok] /\ reply' = last_reply'
        /\ executed' = [executed EXCEPT ![r] = @ + 1]
        /\ count' = IF ok /\ p.kind = "TX" THEN [count EXCEPT ![r] = MaxCount]
                    ELSE count

Repeat(p) ==
    /\ ~Fresh(p)
    /\ reply' = IF Same(p) THEN last_reply ELSE Stale
    /\ UNCHANGED <<active, running, pending, last_id, last_packet, last_reply,
                   executed, count>>

(* A packet of the owner; any first one but HELLO ends the connection.     *)
command(p) ==
    /\ hello \/ p.kind = "HELLO"
    /\ Goto("recv", "reply")
    /\ Execute(p) \/ Repeat(p)
    /\ hello' = TRUE /\ request' = p
    /\ UNCHANGED <<conn, owner, sequence, event, answer, bus, told>>

HelloRequired(p) ==
    /\ ~hello /\ p.kind /= "HELLO"
    /\ Goto("recv", "end")
    /\ UNCHANGED <<conn, hello, state, hands, history>>

(* The answer is sent whole, or in part when the socket blocks for 30 ms:  *)
(* that exception is taken for the end of a read.                          *)
SendReply ==
    /\ Goto("reply", "recv")
    /\ answer' = IF reply.of /= 0 /\ answer[reply.of] = "none"
                 THEN [answer EXCEPT ![reply.of] = Answer(request, reply.ok)]
                 ELSE answer
    /\ request' = None /\ reply' = Stale
    /\ UNCHANGED <<conn, hello, state, event, executed, count, bus, told>>

(* Any send may fail: of an answer, of frames, of an event. *)
SendFails ==
    /\ phase \in {"reply", "frames", "event"} /\ phase' = "end"
    /\ (phase = "frames" => running)
    /\ UNCHANGED <<conn, hello, state, hands, history>>
-----------------------------------------------------------------------------
(* Nothing more to read.  Before HELLO the thread only reads on.           *)
Quiet ==
    /\ Goto("recv", "frames") /\ hello
    /\ UNCHANGED <<conn, hello, state, hands, history>>

(* receive(), and the frame leaves at once: the queue never fills.         *)
SendFrames ==
    /\ Goto("frames", "tick")
    /\ \/ running /\ sequence < MaxSequence /\ sequence' = sequence + 1
       \/ UNCHANGED sequence
    /\ UNCHANGED <<conn, hello, owner, active, running, pending, last_id,
                   last_packet, last_reply, hands, history>>

(* tick(): three seconds without a fresh command ... *)
Expire ==
    /\ Goto("tick", "end")
    /\ disconnect
    /\ UNCHANGED <<conn, hello, last_id, last_packet, last_reply, sequence, hands,
                   history>>

(* A simulator that never gets to the last frame. *)
OutstandingMore == pending.remaining > 1
Outstanding == pending /= NoPending

(* ... or the next frame of the schedule is due, ... *)
Due ==
    /\ Goto("tick", "event")
    /\ Outstanding
    /\ LET left == pending.remaining - 1
           done == pending.completed + 1
           r == pending.request
       IN  /\ pending' = IF left = 0 THEN NoPending
                         ELSE [request |-> r, remaining |-> left, completed |-> done]
           /\ bus' = [bus EXCEPT ![r] = @ + 1]
           /\ event' = [request |-> r, completed |-> done, error |-> "OK",
                        terminal |-> left = 0]
    /\ UNCHANGED <<conn, hello, owner, active, running, last_id, last_packet,
                   last_reply, sequence, request, reply, executed, answer, count,
                   told>>

(* ... or it is not. *)
NotDue ==
    /\ Goto("tick", "recv")
    /\ UNCHANGED <<conn, hello, state, hands, history>>

SendEvent ==
    /\ Goto("event", "recv")
    /\ told' = Append(told, event) /\ event' = <<>>
    /\ UNCHANGED <<conn, hello, state, request, reply, executed, answer,
                   count, bus>>

Serve == End \/ SendReply \/ Quiet \/ SendFrames \/ NotDue \/ SendEvent

Next ==
    \/ connect \/ Gone \/ SendFails \/ Expire \/ Due \/ Serve
    \/ \E p \in Packet :
         /\ p.id <= last_id + 1 /\ Device!Request(conn, p.id) <= MaxRequest
         /\ command(p) \/ HelloRequired(p)

(* The thread runs; it reads at most 4096 bytes before it looks at the     *)
(* schedule, and a cycle time passes.                                      *)
Fairness == WF_vars(Serve) /\ SF_vars(Quiet) /\ SF_vars(Due)

Spec == Init /\ [][Next]_vars
FairSpec == Spec /\ Fairness
-----------------------------------------------------------------------------
(* What a client may rely on. *)
ImplementsDevice == Device!Spec

(* A packet that repeats the newest one gets the answer of its request; a  *)
(* changed one, an older one and one of another connection do not get any. *)
SameAnswer ==
    phase = "reply" =>
      /\ request = last_packet => reply.of = Device!Request(conn, request.id)
      /\ reply.of /= 0 =>
           /\ request = last_packet
           /\ answer[reply.of] \in {"none", Answer(request, reply.ok)}

(* A schedule ends, also under a client that never stops sending. *)
ScheduleEnds == pending /= NoPending ~> pending = NoPending
=============================================================================
