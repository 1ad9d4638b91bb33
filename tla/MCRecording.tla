---------------------------- MODULE MCRecording ----------------------------
(* Recording on a small instance: numbers for a hole, an overflow and a    *)
(* frame after each; one packet waiting while the worker has another.      *)
EXTENDS Recording
=============================================================================
