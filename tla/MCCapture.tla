----------------------------- MODULE MCCapture -----------------------------
(* Capture on a small instance: cycle times 0 and 2 against a preemption   *)
(* of at most 1 unit, a lease and a deadline longer than a tick.           *)
EXTENDS Capture

OneRequest == {1}
MCIntervals == {0, 2}
=============================================================================
