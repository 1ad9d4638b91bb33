------------------------------ MODULE MCClient ------------------------------
(* Client on a small instance: ids for HELLO, two requests of the user and *)
(* heartbeats between them; a queue of one event, so that it overflows.    *)
EXTENDS Client
=============================================================================
