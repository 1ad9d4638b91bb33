---------------------------- MODULE MCSimulator ----------------------------
(* Simulator on a small instance: every packet, as in MCSession. *)
EXTENDS Simulator

EveryPacket ==
    [HELLO |-> {"empty"}, PING |-> {"empty"},
     CONFIGURE |-> {"passive", "active"}, START |-> {"empty"},
     STOP |-> {"empty"}, TX |-> {"all", "junk"}, WIFI |-> {}]
=============================================================================
