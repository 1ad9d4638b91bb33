------------------------------- MODULE MCWire -------------------------------
(* Wire on a small instance: payloads of no byte, one and the most;        *)
(* requests and frames at the limits of the rules.                         *)
EXTENDS Wire

Can(id, flags, dlc, len) == [id |-> id, flags |-> flags, dlc |-> dlc, len |-> len, channel |-> 0]

(* What a client of this PC library asks for. *)
Asked(id, flags, dlc, size, interval, count) ==
    LET f == [identifier |-> id, flags |-> flags, dlc |-> dlc, size |-> size, channel |-> 0]
    IN  [header |-> TRUE, length |-> W_MAX, payload |-> tx_wire(f, interval, count),
         means |-> IF Legal(f) /\ Sendable(f, interval, count)
                   THEN [frame |-> Can(id, flags, dlc, size), interval |-> interval,
                         count |-> count]
                   ELSE Refused]

MCRequests ==
    {Asked(2047, {}, 8, 8, 0, 1), Asked(536870911, {"EXT", "FD", "BRS"}, 9, 12, 10, 10000),
     Asked(1, {}, 9, 8, 0, 1), Asked(1, {"FD", "ESI"}, 0, 0, 0, 1), Asked(1, {}, 0, 0, 9, 2)}
    \cup {[header |-> h, length |-> n, payload |-> Refused, means |-> Refused] :
            h \in BOOLEAN, n \in {0, 1, W_MAX + 1}}

Received(id, flags, dlc) == [id |-> id, flags |-> flags, dlc |-> dlc]
Shown(g) ==
    [identifier |-> g.id, flags |-> g.flags, dlc |-> g.dlc, channel |-> 0,
     size |-> IF g.flags = {} THEN 8 ELSE IF g.dlc = 15 THEN 64 ELSE 0]
Batch(frames, length) ==
    [header |-> TRUE, length |-> length,
     payload |-> [i \in DOMAIN frames |-> RxRecord(frames[i])],
     means |-> [i \in DOMAIN frames |-> Shown(frames[i])]]
MCBatches ==
    LET classic == Received(2047, {}, 15)
        fd == Received(536870911, {"EXT", "FD", "ESI"}, 15)
        remote == Received(0, {"RTR"}, 8)
    IN  {Batch(<<>>, 0), Batch(<<classic>>, 1), Batch(<<fd, remote>>, W_MAX),
         [Batch(<<>>, 0) EXCEPT !.header = FALSE]}
=============================================================================
