------------------------------- MODULE MCSend -------------------------------
(* Send for two frames, with an event after the first and one at the end.  *)
EXTENDS Send
=============================================================================
