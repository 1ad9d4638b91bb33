----------------------------- MODULE MCSession -----------------------------
(* Session on small instances: every packet, on a connection that gets as  *)
(* far as a transmission and on a second that reuses its ids; and the      *)
(* packets that lead to a configuration.                                   *)
EXTENDS Session

None == [k \in Kinds |-> {}]
EveryPacket ==
    [HELLO |-> {"empty", "junk"}, PING |-> {"junk"},
     CONFIGURE |-> {"passive", "active"}, START |-> {"empty"},
     STOP |-> {"empty", "junk"}, TX |-> {"all", "junk"}, WIFI |-> {"long"}]
Control ==
    [None EXCEPT !["HELLO"] = {"empty"}, !["START"] = {"empty"},
                 !["CONFIGURE"] = {"passive", "junk"}]
=============================================================================
