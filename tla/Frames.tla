------------------------------- MODULE Frames -------------------------------
(* CAN frames and transmit requests as both ends encode and validate them: *)
(* protocol.py on the PC, wire.c, main.c and capture.c on the device.      *)
(* Data stand for their number of bytes, a flag byte for the set of its    *)
(* flags; "other" is any of the three that have no name.                   *)
EXTENDS Integers, FiniteSets

Flags == {"EXT", "FD", "BRS", "ESI", "RTR", "other"}

(* The length of the data, for a DLC of 0..15. *)
w_length(dlc) ==
    IF dlc <= 8 THEN dlc ELSE IF dlc <= 12 THEN 4 * (dlc - 6) ELSE 16 * (dlc - 11)

(* A frame of the PC, as its constructor gets it. *)
Frame == [identifier : Int, flags : SUBSET Flags, dlc : Int, size : Nat, channel : Int]

Has(f, flag) == flag \in f.flags
Smaller(a, b) == IF a < b THEN a ELSE b

(* Frame.__post_init__(): the constructor raises, or the frame is legal. *)
Legal(f) ==
    /\ 0 <= f.identifier
    /\ f.identifier <= IF Has(f, "EXT") THEN 536870911 ELSE 2047
    /\ ~Has(f, "other") /\ f.channel = 0 /\ f.dlc \in 0..15
    /\ Has(f, "FD") => ~Has(f, "RTR")
    /\ ~Has(f, "FD") => ~Has(f, "BRS") /\ ~Has(f, "ESI")
    /\ f.size = IF Has(f, "RTR") THEN 0
                ELSE IF Has(f, "FD") THEN w_length(f.dlc) ELSE Smaller(f.dlc, 8)

(* tx_wire(): what a client may ask for, once the frame is legal. *)
Sendable(f, interval, count) ==
    /\ ~Has(f, "ESI")
    /\ 1 <= count /\ count <= 10000 /\ 0 <= interval /\ interval <= 60000
    /\ count > 1 => interval >= 10
    /\ ~Has(f, "FD") => f.dlc <= 8

tx_wire(f, interval, count) ==
    [interval |-> interval, count |-> count, id |-> f.identifier, flags |-> f.flags,
     dlc |-> f.dlc, len |-> f.size, reserved |-> 0, length |-> 16 + f.size]
-----------------------------------------------------------------------------
(* w_validate() on a record of the device, whose fields are unsigned; the  *)
(* part for any frame, and all of it, as capture_tx() calls it.            *)
Valid(r) ==
    /\ r.channel = 0 /\ "other" \notin r.flags /\ r.dlc <= 15
    /\ r.id <= IF "EXT" \in r.flags THEN 536870911 ELSE 2047
    /\ ~({"FD", "RTR"} \subseteq r.flags)
    /\ "FD" \notin r.flags => r.flags \cap {"BRS", "ESI"} = {}
    /\ r.len = IF "RTR" \in r.flags THEN 0
               ELSE IF "FD" \in r.flags THEN w_length(r.dlc) ELSE Smaller(r.dlc, 8)
w_validate(r) ==
    Valid(r) /\ "ESI" \notin r.flags /\ ("FD" \in r.flags \/ r.dlc <= 8)

(* The TX command: its payload has the form, ... *)
FormOk(p) ==
    /\ 16 <= p.length /\ p.length <= 80 /\ p.reserved = 0
    /\ p.len <= 64 /\ p.length = 16 + p.len
Record(p) == [id |-> p.id, flags |-> p.flags, dlc |-> p.dlc, len |-> p.len, channel |-> 0]

(* ... and capture_tx() accepts its values, whatever its state. *)
ValuesOk(p) ==
    /\ w_validate(Record(p))
    /\ p.count /= 0 /\ p.count <= 10000 /\ p.interval <= 60000
    /\ p.count > 1 => p.interval >= 10
-----------------------------------------------------------------------------
(* rx(): the record of a frame from the controller; a frame that has more  *)
(* bytes than a record is dropped before it is counted.                    *)
RxRecord(g) ==
    [id |-> g.id, flags |-> g.flags, dlc |-> g.dlc, channel |-> 0,
     len |-> IF "RTR" \in g.flags THEN 0
             ELSE IF "FD" \in g.flags THEN w_length(g.dlc) ELSE Smaller(g.dlc, 8)]

(* decode_frames(): the constructor gets what the record says. *)
Decoded(r) ==
    [identifier |-> r.id, flags |-> r.flags, dlc |-> r.dlc, size |-> r.len,
     channel |-> r.channel]

(* What CAN allows on the bus. *)
OnBus(id, dlc, flags) ==
    /\ id \in 0..(IF "EXT" \in flags THEN 536870911 ELSE 2047)
    /\ dlc \in 0..15 /\ "other" \notin flags
    /\ "FD" \in flags => "RTR" \notin flags
    /\ "FD" \notin flags => flags \cap {"BRS", "ESI"} = {}
=============================================================================
