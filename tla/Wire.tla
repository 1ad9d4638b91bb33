-------------------------------- MODULE Wire --------------------------------
(* Packets in a stream of bytes: how the server takes them out of its      *)
(* input buffer (serve() in main.c, w_parse() in wire.c) and the reader of *)
(* the PC out of its own (Parser in protocol.py), whatever pieces they     *)
(* arrive in.  One direction at a time is followed: to the device or to    *)
(* the PC, which share nothing.  A byte is its packet and its place there; *)
(* the fields of a header are those of the packet.                         *)
EXTENDS Frames, SequencesExt

CONSTANTS
    W_HEADER, W_MAX,     \* bytes of a header, most bytes of a payload
    Requests, Batches,   \* what is sent to the device, what it sends
    MaxPackets,          \* bound on the packets of a connection
    Limit,               \* an incomplete packet may wait that long
    Turn,                \* bound on the time of a turn of the server's loop
    Refused, Garbled     \* a payload that is refused, or is not one

ASSUME WireAssumption ==
    /\ W_HEADER \in Nat \ {0} /\ W_MAX \in Nat /\ MaxPackets \in Nat
    /\ Limit \in Nat /\ Turn \in Nat
    /\ \A p \in Requests : p.header \in BOOLEAN /\ p.length \in Nat
    /\ \A p \in Batches : p.header \in BOOLEAN /\ p.length \in Nat

(* What is sent means something: to the device, a request that tx_wire()   *)
(* made of a legal frame, or nothing; to the PC, frames of the bus.        *)
ASSUME RequestAssumption ==
    \A p \in Requests :
      \/ p.payload = Refused /\ p.means = Refused
      \/ LET w == p.payload
             f == Decoded(Record(w))
         IN  /\ w /= Refused /\ f \in Frame /\ Legal(f)
             /\ w.interval \in Nat /\ w.count \in Nat
             /\ w = tx_wire(f, w.interval, w.count)
             /\ p.means = IF Sendable(f, w.interval, w.count)
                          THEN [frame |-> Record(w), interval |-> w.interval,
                                count |-> w.count]
                          ELSE Refused
ASSUME BatchAssumption ==
    \A p \in Batches :
      /\ \A i \in DOMAIN p.payload :
           LET r == p.payload[i]
           IN  /\ r.id \in Nat /\ r.dlc \in Nat /\ r.flags \in SUBSET Flags
               /\ OnBus(r.id, r.dlc, r.flags)
               /\ r = RxRecord([id |-> r.id, dlc |-> r.dlc, flags |-> r.flags])
      /\ p.means = [i \in DOMAIN p.payload |-> Decoded(p.payload[i])]

VARIABLES
    side,                \* who receives
    sent,                \* history: the packets that were sent
    line,                \* bytes in the connection
    buffer,
    phase,
    age,                 \* time since partial_since
    spent,               \* time since the turn of the loop began
    waited,              \* history: time the first byte in the buffer has waited
    parsed,              \* history: what the receiver made of each packet
    given                \* history: how many of them it has acted upon

transit == <<side, sent, line, buffer>>
clock == <<age, spent, waited>>
results == <<parsed, given>>
vars == <<transit, phase, clock, results>>

Capacity == W_HEADER + W_MAX

TypeOK ==
    /\ side \in {"device", "pc"}
    /\ Len(sent) <= MaxPackets
    /\ \A i \in DOMAIN sent :
         sent[i] \in IF side = "device" THEN Requests ELSE Batches
    /\ phase \in {"poll", "parse", "closed", "expired", "invalid"}
    /\ age \in Nat /\ spent \in 0..Turn /\ waited \in Nat
    /\ Len(parsed) <= Len(sent) /\ given \in 0..Len(parsed)

Init ==
    /\ side \in {"device", "pc"}
    /\ sent = <<>> /\ line = <<>> /\ buffer = <<>> /\ phase = "poll"
    /\ age = 0 /\ spent = 0 /\ waited = 0 /\ parsed = <<>> /\ given = 0

Bytes(i, packet) == [k \in 1..(W_HEADER + packet.length) |-> <<i, k>>]

(* The other end writes a packet. *)
Write ==
    /\ Len(sent) < MaxPackets
    /\ \E packet \in IF side = "device" THEN Requests ELSE Batches :
         /\ sent' = Append(sent, packet)
         /\ line' = line \o Bytes(Len(sent'), packet)
    /\ UNCHANGED <<side, buffer, phase, clock, results>>
-----------------------------------------------------------------------------
(* The server receives into the rest of its buffer; the reader takes what  *)
(* there is.                                                               *)
Room == IF side = "device" THEN Capacity - Len(buffer) ELSE Len(line)

(* What a turn may still take.  It begins when serve() has polled and      *)
(* received; it answers every packet it finds, and sends a batch, events   *)
(* and a status before it polls again.  The reader has no such deadline.   *)
Delays == IF side = "device" THEN 0..(Turn - spent) ELSE {0}

Older(a, d) == IF buffer = <<>> THEN 0 ELSE a + d

(* The deadline begins with every piece, or with the first. *)
BeginsAlways == TRUE
Begins == buffer = <<>>

(* Bytes come, at the end of the sends and the poll since the last look.   *)
Receive ==
    /\ phase = "poll" /\ phase' = "parse"
    /\ \E n \in 1..Smaller(Len(line), Room) :
         /\ buffer' = buffer \o SubSeq(line, 1, n)
         /\ line' = SubSeq(line, n + 1, Len(line))
    /\ \E d \in Delays :
         /\ age' = IF Begins THEN 0 ELSE age + d
         /\ waited' = Older(waited, d)
    /\ spent' = 0
    /\ UNCHANGED <<side, sent, results>>

(* Nothing has come when they end. *)
Poll ==
    /\ phase = "poll" /\ phase' = "parse"
    /\ \E d \in Delays : age' = Older(age, d) /\ waited' = Older(waited, d)
    /\ spent' = 0
    /\ UNCHANGED <<transit, results>>

(* A call to receive no bytes ends the connection, as do the end of the    *)
(* stream, an error, and three seconds without a packet.                   *)
Close ==
    /\ phase = "poll" /\ phase' = "closed"
    /\ UNCHANGED <<transit, clock, results>>
-----------------------------------------------------------------------------
(* What stands at the beginning of the buffer. *)
First == buffer[1][1]
Packet == sent[First]
Header == SubSeq(Bytes(First, Packet), 1, W_HEADER)

(* A header whose length is not looked at. *)
w_parseAnyLength ==
    SubSeq(buffer, 1, W_HEADER) = Header /\ Packet.header
w_parse ==
    SubSeq(buffer, 1, W_HEADER) = Header /\ Packet.header /\ Packet.length <= W_MAX

HasHeader == Len(buffer) >= W_HEADER
Complete == Len(buffer) >= W_HEADER + Packet.length

(* command() and capture_tx() on the device, decode_frames() on the PC.    *)
Understood(payload) ==
    IF side = "device"
    THEN IF payload = Refused \/ ~(FormOk(payload) /\ ValuesOk(payload)) THEN Refused
         ELSE [frame |-> Record(payload), interval |-> payload.interval,
               count |-> payload.count]
    ELSE IF \E i \in DOMAIN payload : ~Legal(Decoded(payload[i])) THEN Refused
         ELSE [i \in DOMAIN payload |-> Decoded(payload[i])]

(* A packet that takes a byte of the next with it; the bytes that are left.*)
RestOffByOne == SubSeq(buffer, W_HEADER + Packet.length + 2, Len(buffer))
Rest == SubSeq(buffer, W_HEADER + Packet.length + 1, Len(buffer))

(* What feed() has parsed of these bytes is lost with the exception.       *)
Invalid ==
    /\ phase = "parse" /\ HasHeader /\ ~w_parse
    /\ phase' = "invalid"
    /\ UNCHANGED <<transit, clock, results>>

(* The server answers a packet at once, and only then is partial_since the *)
(* present; the bytes of the rest have come when the turn began.           *)
Parse ==
    /\ phase = "parse" /\ HasHeader /\ w_parse /\ Complete
    /\ parsed' = Append(parsed,
                        IF SubSeq(buffer, 1, W_HEADER + Packet.length)
                             = Bytes(First, Packet)
                        THEN Understood(Packet.payload) ELSE Garbled)
    /\ given' = IF side = "device" THEN Len(parsed') ELSE given
    /\ buffer' = Rest
    /\ \E d \in Delays : spent' = spent + d /\ waited' = spent + d
    /\ age' = 0
    /\ UNCHANGED <<side, sent, line, phase>>

(* The server looks whether what is left has waited too long; feed()       *)
(* returns what it has parsed.                                             *)
Parsed ==
    /\ phase = "parse"
    /\ HasHeader => w_parse /\ ~Complete
    /\ phase' = IF side = "device" /\ buffer /= <<>> /\ age > Limit THEN "expired"
                ELSE "poll"
    /\ given' = Len(parsed)
    /\ UNCHANGED <<transit, clock, parsed>>

Next == Write \/ Receive \/ Poll \/ Close \/ Invalid \/ Parse \/ Parsed

Spec == Init /\ [][Next]_vars
-----------------------------------------------------------------------------
(* However the stream is cut, the packets come out whole, in order, and    *)
(* none is left behind; a legal request reaches the core, and a frame the  *)
(* recording, as it was; an illegal one is refused, and nobody else's      *)
(* connection is ended.  The server has acted upon all that came before a  *)
(* header that ends it.                                                    *)
ParsedInOrder ==
    /\ \A i \in DOMAIN parsed : sent[i].header /\ parsed[i] = sent[i].means
    /\ phase = "poll" /\ line = <<>> /\ buffer = <<>> => given = Len(sent)
    /\ phase = "invalid" => LET next == sent[Len(parsed) + 1]
                             IN  ~next.header \/ next.length > W_MAX
    /\ phase = "invalid" /\ side = "device" => given = Len(parsed)

(* The server always has room for what is missing of a packet, although it *)
(* may have parts of two: it never receives into no bytes, which would end *)
(* the connection of a client that did no wrong.                           *)
RoomLeft == phase = "poll" => Room > 0 \/ (side = "pc" /\ line = <<>>)

(* An incomplete packet expires (protocol.md:67), also when more of it     *)
(* trickles in: never before it has waited for Limit, and none that has    *)
(* waited for more than two turns of the loop beyond that is still there   *)
(* to be parsed.  The code allows for two: the answers to packets that     *)
(* came with its first bytes are sent before partial_since is set          *)
(* (main.c:188, 193), and more bytes are received once after the look at   *)
(* it (main.c:200, 148).                                                   *)
IncompleteExpires ==
    /\ phase = "expired" => waited > Limit
    /\ side = "device" /\ buffer /= <<>> => waited <= Limit + 2 * Turn
=============================================================================
