------------------------------ MODULE RxQueue ------------------------------
(* The receive path of the firmware: the receive callback of the CAN       *)
(* controller (capture.c), the queue it fills, the counters that account   *)
(* for every frame, and the loop of the server thread (main.c) that drains *)
(* the queue in batches and reports the counters.  A frame is its sequence *)
(* number.                                                                 *)
EXTENDS Integers, SequencesExt

CONSTANTS
    RxDepth,       \* CONFIG_WCAN_RX_DEPTH
    Batch,         \* the 16 frames of one packet
    MaxSequence    \* bound on the number of frames received

ASSUME RxAssumption ==
    RxDepth \in Nat \ {0} /\ Batch \in Nat \ {0} /\ MaxSequence \in Nat

VARIABLES
    running,       \* capture runs: the callback may be called
    rx_queue, sequence, received, enqueued, drops, discards, highwater,
    phase,         \* where the server thread is
    batch,         \* the frames it has fetched and not yet sent
    report,        \* the last status it read
    sent, lost,    \* history: frames sent in a packet, frames lost
    base           \* history: sequence when the connection was accepted

counters == <<sequence, received, enqueued, drops, highwater>>
vars == <<running, rx_queue, counters, discards, phase, batch, report, sent,
          lost, base>>

Phases == {"accept", "open", "clear", "poll", "flush", "fetch", "status",
           "used", "done", "drain"}
Report == [received : Nat, enqueued : Nat, drops : Nat, discards : Nat,
           sequence : Nat, highwater : Nat, used : Nat, sent : Nat]

TypeOK ==
    /\ running \in BOOLEAN
    /\ rx_queue \in Seq(Nat) /\ Len(rx_queue) <= RxDepth
    /\ sequence \in Nat /\ received \in Nat /\ enqueued \in Nat
    /\ drops \in Nat /\ discards \in Nat /\ highwater \in 0..RxDepth
    /\ phase \in Phases
    /\ batch \in Seq(Nat) /\ Len(batch) <= Batch
    /\ report \in Report
    /\ sent \in SUBSET Nat /\ lost \in SUBSET Nat /\ base \in Nat

NoReport == [received |-> 0, enqueued |-> 0, drops |-> 0, discards |-> 0,
             sequence |-> 0, highwater |-> 0, used |-> 0, sent |-> 0]

Init ==
    /\ running = FALSE /\ rx_queue = <<>>
    /\ sequence = 0 /\ received = 0 /\ enqueued = 0 /\ drops = 0
    /\ discards = 0 /\ highwater = 0
    /\ phase = "accept" /\ batch = <<>> /\ report = NoReport
    /\ sent = {} /\ lost = {} /\ base = 0
-----------------------------------------------------------------------------
(* The receive callback, atomic under the spinlock of the counters. *)
rx ==
    /\ running /\ sequence < MaxSequence
    /\ sequence' = sequence + 1 /\ received' = received + 1
    /\ \/ /\ Len(rx_queue) < RxDepth
          /\ rx_queue' = Append(rx_queue, sequence')
          /\ enqueued' = enqueued + 1
          /\ highwater' = IF highwater < Len(rx_queue) + 1
                          THEN Len(rx_queue) + 1 ELSE highwater
          /\ UNCHANGED <<drops, lost>>
       \/ /\ Len(rx_queue) >= RxDepth
          /\ drops' = drops + 1 /\ lost' = lost \cup {sequence'}
          /\ UNCHANGED <<rx_queue, enqueued, highwater>>
    /\ UNCHANGED <<running, discards, phase, batch, report, sent, base>>

(* The scheduler or the recovery thread stops capture. *)
Halted ==
    /\ running /\ running' = FALSE
    /\ UNCHANGED <<rx_queue, counters, discards, phase, batch, report, sent,
                   lost, base>>
-----------------------------------------------------------------------------
(* A purge that is not counted, and none at all. *)
discard_queueUncounted ==
    /\ discards' = discards /\ lost' = lost \cup ToSet(rx_queue)
    /\ rx_queue' = <<>>
discard_queueNot == UNCHANGED <<discards, lost, rx_queue>>

(* discard_queue(): one step, for its callers have stopped capture. *)
discard_queue ==
    /\ discards' = discards + Len(rx_queue)
    /\ lost' = lost \cup ToSet(rx_queue)
    /\ rx_queue' = <<>>

(* The server thread goes from one place to another. *)
Goto(from, to) == phase = from /\ phase' = to

Accept ==
    /\ Goto("accept", "open")
    /\ base' = sequence
    /\ UNCHANGED <<running, rx_queue, counters, discards, batch, report, sent,
                   lost>>

Stopped == running' = FALSE

(* serve() stops capture when it begins and when it ends, ... *)
ServeStop ==
    /\ Goto("open", "clear") \/ Goto("done", "drain")
    /\ Stopped
    /\ UNCHANGED <<rx_queue, counters, discards, batch, report, sent, lost, base>>

(* ... and so does CONFIGURE; then the queue is discarded. *)
Discard ==
    /\ Goto("clear", "poll") \/ Goto("flush", "poll") \/ Goto("drain", "accept")
    /\ discard_queue
    /\ UNCHANGED <<running, counters, batch, report, sent, base>>

(* A packet of the client: START, STOP or CANCEL, CONFIGURE.  HELLO is not *)
(* told apart, for no frame is received before the START that follows it.  *)
CommandStart ==
    /\ phase = "poll" /\ ~running
    /\ running' = TRUE
    /\ UNCHANGED <<rx_queue, counters, discards, phase, batch, report, sent,
                   lost, base>>
CommandStop ==
    /\ phase = "poll"
    /\ running' = FALSE
    /\ UNCHANGED <<rx_queue, counters, discards, phase, batch, report, sent,
                   lost, base>>
CommandConfigure ==
    /\ Goto("poll", "flush")
    /\ running' = FALSE
    /\ UNCHANGED <<rx_queue, counters, discards, batch, report, sent, lost, base>>

(* No more packets: the loop goes on to the queue. *)
Polled ==
    /\ Goto("poll", "fetch")
    /\ UNCHANGED <<running, rx_queue, counters, discards, batch, report, sent,
                   lost, base>>

Room == Len(batch) < Batch

Fetch ==
    /\ phase = "fetch" /\ Room /\ rx_queue /= <<>>
    /\ batch' = Append(batch, Head(rx_queue)) /\ rx_queue' = Tail(rx_queue)
    /\ UNCHANGED <<running, counters, discards, phase, report, sent, lost, base>>

(* A server that waits until a packet is full. *)
FullOnly == Len(batch) = Batch
Full == ~Room \/ rx_queue = <<>>

SendBatch ==
    /\ phase = "fetch" /\ Full /\ phase' = "status"
    /\ sent' = sent \cup ToSet(batch) /\ batch' = <<>>
    /\ UNCHANGED <<running, rx_queue, counters, discards, report, lost, base>>

Failed == discards + Len(batch)

SendBatchFails ==
    /\ phase = "fetch" /\ Full /\ batch /= <<>> /\ phase' = "done"
    /\ discards' = Failed /\ lost' = lost \cup ToSet(batch) /\ batch' = <<>>
    /\ UNCHANGED <<running, rx_queue, counters, report, sent, base>>

(* capture_status() reads the counters under their lock, ... *)
Snapshot ==
    /\ Goto("status", "used")
    /\ report' = [received |-> received, enqueued |-> enqueued, drops |-> drops,
                  discards |-> discards, sequence |-> sequence,
                  highwater |-> highwater, used |-> 0,
                  sent |-> enqueued - discards - Len(rx_queue)]
    /\ UNCHANGED <<running, rx_queue, counters, discards, batch, sent, lost, base>>

(* A report whose counters are read again after the lock is released.      *)
CompletedLate == [report EXCEPT !.used = Len(rx_queue), !.received = received]
Completed == [report EXCEPT !.used = Len(rx_queue)]

(* ... and the fill of the queue after it has released the lock. *)
ReadUsed ==
    /\ phase = "used"
    /\ report' = Completed
    /\ phase' \in {"poll", "done"}     \* the status packet is sent, or not
    /\ UNCHANGED <<running, rx_queue, counters, discards, batch, sent, lost, base>>

NoStatus ==
    /\ Goto("status", "poll")
    /\ UNCHANGED <<running, rx_queue, counters, discards, batch, report, sent,
                   lost, base>>

(* The peer is gone or silent, or sent something invalid. *)
Disconnect ==
    /\ Goto("poll", "done")
    /\ UNCHANGED <<running, rx_queue, counters, discards, batch, report, sent,
                   lost, base>>

(* What the server does on its own account, whatever the client sends;     *)
(* sending apart.                                                          *)
Serve == Polled \/ Fetch \/ Snapshot \/ ReadUsed \/ NoStatus \/ ServeStop
         \/ Discard
Command == CommandStart \/ CommandStop \/ CommandConfigure

Next == rx \/ Halted \/ Accept \/ Command \/ Disconnect \/ Serve \/ SendBatch
        \/ SendBatchFails

Spec == Init /\ [][Next]_vars
-----------------------------------------------------------------------------
Held == batch \o rx_queue

(* Nothing vanishes and nothing is counted twice: every frame that the     *)
(* callback numbered is waiting, was sent once, or is lost and counted.    *)
Partition ==
    /\ ToSet(Held) \cup sent \cup lost = 1..sequence
    /\ sent \cap lost = {} /\ ToSet(Held) \cap (sent \cup lost) = {}
    /\ drops + discards = Cardinality(lost)

(* Frames wait, and are sent, in the order of their reception, and on the  *)
(* connection they were received on: no stop, failed batch or reconnection *)
(* leaves a frame to a later client, and nothing runs or waits without one.*)
InOrder ==
    /\ \A i, j \in DOMAIN Held : i < j => Held[i] < Held[j]
    /\ \A i \in DOMAIN Held : base < Held[i] /\ Held[i] <= sequence
    /\ \A s \in sent, i \in DOMAIN Held : s < Held[i]
    /\ phase = "accept" => Held = <<>> /\ ~running

(* A reported status is consistent although the fill of the queue is read  *)
(* after the counters: the frames in it are those the counters say, or     *)
(* came later.                                                             *)
StatusSound ==
    phase \in {"poll", "done"} =>
      /\ report.received = report.enqueued + report.drops
      /\ report.enqueued <= report.sent + report.discards + report.used
      /\ report.used <= RxDepth

(* A frame that is waiting is sent or discarded, whatever the client does. *)
EveryFrameServed ==
    \A s \in 1..MaxSequence :
      (s \in ToSet(Held)) ~> (s \in sent \cup lost)
=============================================================================
