----------------------------- MODULE MCRxStream -----------------------------
(* RxStream on a small instance: queue and packet of two, so that both     *)
(* overflow, fill and wrap; an overflow needs three frames and a fourth    *)
(* that shows the gap; one packet fills the client's queue.                *)
EXTENDS RxStream
=============================================================================
