------------------------------ MODULE Capture ------------------------------
(* The control and transmit core of the firmware                           *)
(* (src/firmware/src/capture.c): the operations the server thread calls,   *)
(* the scheduler thread that wakes every 2 ms, and the completion callback *)
(* of the CAN controller, which interrupts both.                           *)
(*                                                                         *)
(* The control mutex makes an operation of the server one step; a tick of  *)
(* the scheduler, which also holds it, is split at the places where the    *)
(* callback and the clock can interfere with it.  Deadlines are kept as    *)
(* the time left until they pass, so that Advance, one unit of time, moves *)
(* them all; "now" of a tick is lag units before the present.              *)
EXTENDS Integers, Sequences

CONSTANTS
    Requests,       \* ids of TX commands; the server never executes one twice
    MaxCount,       \* largest number of frames of one command (10000)
    Intervals,      \* cycle times of TX commands, in units of time
    MinInterval,    \* smallest cycle time of more than one frame (10 ms)
    LeaseMs,        \* the 3000 of the command lease, in units of time
    TxDeadlineMs,   \* the 1000 of tx_deadline, in units of time
    EventDepth,     \* CONFIG_WCAN_TX_EVENT_DEPTH
    MaxLag          \* bound on the time one tick is preempted for

ASSUME RequestAssumption == Requests \subseteq Nat \ {0} /\ MaxCount \in Nat \ {0}
ASSUME IntervalAssumption == Intervals \subseteq Nat /\ MinInterval \in Nat
ASSUME TimeAssumption ==
    LeaseMs \in Nat \ {0} /\ TxDeadlineMs \in Nat \ {0} /\ MaxLag \in Nat
ASSUME DepthAssumption == EventDepth \in Nat \ {0}

VARIABLES
    running, configured, active,                 \* active is applied.active
    scheduled, inflight,
    tx_request, remaining, completed, interval_ms,
    next_send, lease_deadline, tx_deadline,      \* time left, see above
    completion_ready, completion_error,
    tx_events, tx_event_drops,
    pc, lag,          \* the scheduler thread: where its tick is, age of "now"
    busy,             \* the controller holds a frame of ours
    listenonly,       \* the mode it was given
    slnt,             \* the pin that silences the transceiver
    count, bus,       \* history: frames asked for, and put on the bus
    emitted, taken,   \* history: events raised, number fetched and not lost
    idle              \* history: time since can_send, see NoCatchUpBurst

control  == <<running, configured, active>>
schedule == <<scheduled, inflight, tx_request, remaining, completed,
              interval_ms, count>>
timers   == <<next_send, lease_deadline, tx_deadline>>
isr      == <<completion_ready, completion_error, busy, bus>>
events   == <<tx_events, tx_event_drops, emitted, taken>>
thread   == <<pc, lag>>
hardware == <<listenonly, slnt>>
vars == <<control, schedule, timers, isr, events, thread, hardware, idle>>

Errors == {"OK", "EIO", "ECANCELED", "EINPROGRESS"}
Event == [request : Requests, completed : Nat, error : Errors,
          terminal : BOOLEAN]

(* A deadline this long past is the same as any older one: lag <= MaxLag.  *)
Past == -MaxLag - 1
Earlier(d) == IF d > Past THEN d - 1 ELSE d
(* Time since can_send is of interest up to the cycle time of the schedule.*)
Longer(t) == IF t < interval_ms THEN t + 1 ELSE t

TypeOK ==
    /\ running \in BOOLEAN /\ configured \in BOOLEAN /\ active \in BOOLEAN
    /\ scheduled \in BOOLEAN /\ inflight \in BOOLEAN
    /\ tx_request \in Requests \cup {0}
    /\ remaining \in 0..MaxCount /\ completed \in 0..MaxCount
    /\ interval_ms \in Intervals \cup {0}
    /\ next_send \in Int /\ next_send >= Past
    /\ lease_deadline \in Past..LeaseMs /\ tx_deadline \in Past..TxDeadlineMs
    /\ completion_ready \in {0, 1} /\ completion_error \in Errors
    /\ tx_events \in Seq(Event) /\ Len(tx_events) <= EventDepth
    /\ tx_event_drops \in Nat
    /\ pc \in {"sleep", "reap", "due"} /\ lag \in 0..MaxLag
    /\ busy \in BOOLEAN /\ listenonly \in BOOLEAN /\ slnt \in BOOLEAN
    /\ count \in [Requests -> 0..MaxCount] /\ bus \in [Requests -> 0..MaxCount]
    /\ emitted \in Seq(Event) /\ taken \in Nat /\ idle \in Nat

(* After capture_init: were its capture_configure of the defaults to fail, *)
(* main would return.  The defaults are passive.                           *)
Init ==
    /\ running = FALSE /\ configured = TRUE /\ active = FALSE
    /\ scheduled = FALSE /\ inflight = FALSE
    /\ tx_request = 0 /\ remaining = 0 /\ completed = 0 /\ interval_ms = 0
    /\ next_send = 0 /\ lease_deadline = 0 /\ tx_deadline = 0
    /\ completion_ready = 0 /\ completion_error = "OK"
    /\ tx_events = <<>> /\ tx_event_drops = 0 /\ emitted = <<>> /\ taken = 0
    /\ pc = "sleep" /\ lag = 0
    /\ busy = FALSE /\ listenonly = TRUE /\ slnt = TRUE
    /\ count = [r \in Requests |-> 0] /\ bus = [r \in Requests |-> 0]
    /\ idle = 0
-----------------------------------------------------------------------------
(* event(): queue it, or count the loss when the queue is full. *)
event(done, error, terminal) ==
    LET e == [request |-> tx_request, completed |-> done, error |-> error,
              terminal |-> terminal]
    IN  /\ emitted' = Append(emitted, e)
        /\ \/ /\ Len(tx_events) < EventDepth
              /\ tx_events' = Append(tx_events, e)
              /\ UNCHANGED tx_event_drops
           \/ /\ Len(tx_events) >= EventDepth
              /\ tx_event_drops' = tx_event_drops + 1
              /\ UNCHANGED tx_events
        /\ UNCHANGED taken

(* A stop that forgets a schedule with no frame in flight. *)
OpenInFlight == inflight
Open == scheduled \/ inflight

(* A stop that is sure of what it aborted. *)
StopErrorCertain == "ECANCELED"
StopError == IF inflight THEN "EINPROGRESS" ELSE "ECANCELED"

(* can_stop() aborts the frame the controller holds.  Whether it was on    *)
(* the bus by then is not known; the callback reports the abort.           *)
can_stop ==
    IF running /\ busy
    THEN /\ busy' = FALSE
         /\ completion_error' = "ECANCELED"
         /\ \/ UNCHANGED bus
            \/ bus' = [bus EXCEPT ![tx_request] = @ + 1]
    ELSE UNCHANGED <<busy, completion_error, bus>>

(* The part of stop_locked() common to a stop and a configuration: all of  *)
(* it but what becomes of applied.active, configured and the mode.         *)
stop_locked ==
    /\ slnt' = TRUE
    /\ can_stop
    /\ running' = FALSE
    /\ IF Open THEN event(completed, StopError, TRUE) ELSE UNCHANGED events
    /\ scheduled' = FALSE /\ inflight' = FALSE /\ remaining' = 0
    /\ completion_ready' = 0
    /\ UNCHANGED <<tx_request, completed, interval_ms, count, timers, idle>>
-----------------------------------------------------------------------------
(* The operations of the server thread, each under the control mutex. *)
Locked == pc = "sleep"

capture_stop ==
    /\ Locked
    /\ stop_locked /\ active' = FALSE
    /\ UNCHANGED <<configured, listenonly, thread>>

capture_lease ==
    /\ Locked
    /\ lease_deadline' = LeaseMs
    /\ UNCHANGED <<control, schedule, next_send, tx_deadline, isr, events,
                   thread, hardware, idle>>

(* On failure nothing is applied; can_set_mode may have been reached.      *)
capture_configure(on) ==
    /\ Locked
    /\ stop_locked
    /\ \/ configured' = TRUE /\ active' = on /\ listenonly' = ~on
       \/ configured' = FALSE /\ active' = FALSE
          /\ listenonly' \in {listenonly, ~on}
    /\ UNCHANGED thread

(* can_set_mode sets the mode of the applied configuration; when it or     *)
(* can_start fails, nothing else happens.                                  *)
capture_start ==
    /\ Locked
    /\ ~running /\ configured
    /\ \/ /\ listenonly' = ~active
          /\ running' = TRUE /\ slnt' = ~active /\ lease_deadline' = LeaseMs
       \/ /\ listenonly' \in {listenonly, ~active}
          /\ UNCHANGED <<running, slnt, lease_deadline>>
    /\ UNCHANGED <<configured, active, schedule, next_send, tx_deadline, isr,
                   events, thread, idle>>

(* An adapter that accepts TX commands in passive capture. *)
PermittedPassive == running
Permitted == running /\ active

(* The requests it refuses change nothing and are left out. *)
capture_tx(r, n, interval) ==
    /\ Locked
    /\ n > 1 => interval >= MinInterval
    /\ Permitted /\ ~Open
    /\ tx_request' = r /\ remaining' = n /\ completed' = 0
    /\ interval_ms' = interval /\ next_send' = 0 /\ scheduled' = TRUE
    /\ count' = [count EXCEPT ![r] = n] /\ idle' = 0
    /\ UNCHANGED <<control, inflight, lease_deadline, tx_deadline, isr, events,
                   thread, hardware>>

(* k_msgq_get() of the server loop; no lock is held. *)
TakeEvent ==
    /\ tx_events /= <<>>
    /\ tx_events' = Tail(tx_events) /\ taken' = taken + 1
    /\ UNCHANGED <<control, schedule, timers, isr, tx_event_drops, emitted,
                   thread, hardware, idle>>

(* capture_discard_tx(1) after the server failed to send what it fetched.  *)
LoseEvent ==
    /\ taken > 0
    /\ taken' = taken - 1 /\ tx_event_drops' = tx_event_drops + 1
    /\ UNCHANGED <<control, schedule, timers, isr, tx_events, emitted, thread,
                   hardware, idle>>

(* A purge that nobody counts. *)
capture_discard_txUncounted ==
    /\ tx_events /= <<>> /\ tx_events' = <<>>
    /\ UNCHANGED <<control, schedule, timers, isr, tx_event_drops, emitted,
                   taken, thread, hardware, idle>>

(* capture_discard_tx() of the queue's length, then the purge: the caller  *)
(* has higher priority than the scheduler and does not block in between.   *)
capture_discard_tx ==
    /\ tx_events /= <<>>
    /\ tx_event_drops' = tx_event_drops + Len(tx_events) /\ tx_events' = <<>>
    /\ UNCHANGED <<control, schedule, timers, isr, emitted, taken, thread,
                   hardware, idle>>

(* The server hands over each request id once (high_request in serve()).   *)
Operation ==
    \/ capture_stop \/ capture_lease \/ capture_start
    \/ \E on \in BOOLEAN : capture_configure(on)
    \/ \E r \in Requests, n \in 1..MaxCount, interval \in Intervals :
         count[r] = 0 /\ capture_tx(r, n, interval)
    \/ TakeEvent \/ LoseEvent \/ capture_discard_tx
-----------------------------------------------------------------------------
(* The completion callback, in interrupt context: at any time. *)
tx_done(error) ==
    /\ busy
    /\ busy' = FALSE
    /\ completion_ready' = 1 /\ completion_error' = error
    /\ bus' = IF error = "OK" THEN [bus EXCEPT ![tx_request] = @ + 1] ELSE bus
    /\ UNCHANGED <<control, schedule, timers, events, thread, hardware, idle>>

Advance ==
    /\ lag' = IF pc = "sleep" THEN 0 ELSE lag + 1
    /\ lag' <= MaxLag
    /\ next_send' = Earlier(next_send)
    /\ lease_deadline' = Earlier(lease_deadline)
    /\ tx_deadline' = Earlier(tx_deadline)
    /\ idle' = Longer(idle)
    /\ UNCHANGED <<control, schedule, isr, events, pc, hardware>>
-----------------------------------------------------------------------------
(* scheduler_tick().  now = present - lag, so now > d is -lag > d here.    *)
(* A lease that nobody enforces. *)
ExpiredNever == FALSE
Expired == running /\ 0 > lease_deadline

TickExpire ==
    /\ pc = "sleep" /\ Expired
    /\ pc' = "reap"
    /\ stop_locked /\ active' = FALSE
    /\ UNCHANGED <<configured, listenonly, lag>>

TickLive ==
    /\ pc = "sleep" /\ ~Expired
    /\ pc' = "reap"
    /\ UNCHANGED <<control, schedule, timers, isr, events, lag, hardware, idle>>

TickReap ==
    /\ pc = "reap" /\ inflight /\ completion_ready = 1
    /\ pc' = "due"
    /\ completion_ready' = 0 /\ inflight' = FALSE
    /\ completed' = IF completion_error = "OK" THEN completed + 1 ELSE completed
    /\ LET terminal == completion_error /= "OK" \/ remaining = 0
       IN  /\ event(completed', completion_error, terminal)
           /\ scheduled' = (scheduled /\ ~terminal)
    /\ UNCHANGED <<control, tx_request, remaining, interval_ms, count, timers,
                   completion_error, busy, bus, lag, hardware, idle>>

TickNoReap ==
    /\ pc = "reap" /\ ~(inflight /\ completion_ready = 1)
    /\ pc' = "due"
    /\ UNCHANGED <<control, schedule, timers, isr, events, lag, hardware, idle>>

(* A scheduler that waits for ever, one that sends while a frame is in     *)
(* flight, and one that catches up with the time it missed.                *)
GivesUpNever == FALSE
GivesUp == inflight /\ -lag > tx_deadline
DueInFlight == scheduled /\ -lag >= next_send
Due == scheduled /\ ~inflight /\ -lag >= next_send

NextSendCatchUp == next_send + interval_ms
NextSend == interval_ms - lag

TickGiveUp ==
    /\ pc = "due" /\ GivesUp
    /\ pc' = "sleep" /\ lag' = 0
    /\ stop_locked /\ active' = FALSE
    /\ UNCHANGED <<configured, listenonly>>

TickSend ==
    /\ pc = "due" /\ ~GivesUp /\ Due
    /\ pc' = "sleep" /\ lag' = 0
    /\ remaining' = remaining - 1
    /\ tx_deadline' = TxDeadlineMs - lag
    /\ next_send' = NextSend
    /\ inflight' = TRUE /\ busy' = TRUE /\ idle' = 0
    /\ UNCHANGED <<control, scheduled, tx_request, completed, interval_ms,
                   count, lease_deadline, completion_ready, completion_error,
                   bus, events, hardware>>

(* can_send() refuses the frame. *)
TickSendFails ==
    /\ pc = "due" /\ ~GivesUp /\ Due
    /\ pc' = "sleep" /\ lag' = 0
    /\ remaining' = remaining - 1
    /\ tx_deadline' = TxDeadlineMs - lag
    /\ next_send' = NextSend
    /\ inflight' = FALSE /\ scheduled' = FALSE
    /\ event(completed, "EIO", TRUE)
    /\ UNCHANGED <<control, tx_request, completed, interval_ms, count,
                   lease_deadline, isr, hardware, idle>>

TickIdle ==
    /\ pc = "due" /\ ~GivesUp /\ ~Due
    /\ pc' = "sleep" /\ lag' = 0
    /\ UNCHANGED <<control, schedule, timers, isr, events, hardware, idle>>

scheduler_tick ==
    \/ TickExpire \/ TickLive
    \/ TickReap \/ TickNoReap
    \/ TickGiveUp \/ TickSend \/ TickSendFails \/ TickIdle
-----------------------------------------------------------------------------
Next ==
    \/ Operation
    \/ \E error \in {"OK", "EIO"} : tx_done(error)
    \/ Advance
    \/ scheduler_tick

Spec == Init /\ [][Next]_vars

(* The scheduler thread keeps waking, and time passes.  Nothing else is    *)
(* fair: the controller may never complete a frame, the server may never   *)
(* call again.                                                             *)
FairSpec == Spec /\ WF_vars(scheduler_tick) /\ WF_vars(Advance)
-----------------------------------------------------------------------------
Raised == DOMAIN emitted
Verdict(r) == {i \in Raised : emitted[i].request = r /\ emitted[i].terminal}

(* What an event says of a schedule is true of the bus, when it is raised  *)
(* and for ever after: "completed" and "failed" count exactly the frames   *)
(* that got there, "cancelled" is said only when no frame is in doubt, and *)
(* "indeterminate" leaves one frame in doubt.                              *)
Honest(e) ==
    LET sent == bus[e.request]  asked == count[e.request]
    IN  CASE ~e.terminal -> e.error = "OK" /\ e.completed <= sent
                            /\ e.completed < asked
          [] e.terminal /\ e.error = "OK" -> e.completed = sent /\ sent = asked
          [] e.terminal /\ e.error \in {"EIO", "ECANCELED"} ->
               e.completed = sent /\ sent < asked
          [] OTHER -> sent \in {e.completed, e.completed + 1} /\ sent <= asked
                      /\ e.completed < asked
OutcomeExact == \A i \in Raised : Honest(emitted[i])

(* Of an accepted command, exactly one terminal event is raised and it is  *)
(* the last one: none while the schedule is open, none missing once it is  *)
(* closed, whichever of the server, the lease, the deadline or the         *)
(* controller closed it.  Earlier events count up without repetition.      *)
OneVerdict ==
    /\ \A i, j \in Raised :
         i < j /\ emitted[i].request = emitted[j].request
         => ~emitted[i].terminal /\ (emitted[j].error = "OK" =>
                                     emitted[i].completed < emitted[j].completed)
    /\ \A r \in Requests :
         count[r] > 0 => (Verdict(r) = {} <=> scheduled /\ tx_request = r)

(* The controller holds a frame of ours only while capture runs with the   *)
(* permission to transmit, in normal mode and with the transceiver enabled;*)
(* a stopped adapter is silent.                                            *)
TransmitOnlyWithPermission ==
    /\ busy => running /\ active /\ ~listenonly /\ ~slnt
    /\ ~running => slnt

(* Every event raised was handed over, is waiting, or is counted as lost:  *)
(* what a client misses shows in tx_event_discards.                        *)
EventAccounting == Len(emitted) = taken + Len(tx_events) + tx_event_drops

(* A frame is handed to the controller only under a command lease: the     *)
(* lease may have run out for as long as the tick was preempted, no more.  *)
SendWithinLease == [][~busy /\ busy' => lease_deadline >= -MaxLag]_vars

(* A delayed schedule does not catch up in a burst: two frames of it are a *)
(* cycle time apart, less what the tick was preempted for.                 *)
NoCatchUpBurst ==
    [][~busy /\ busy' /\ remaining < count[tx_request]
       => idle >= interval_ms - MaxLag]_vars

(* Without a command or heartbeat, capture stops: a lease that is running  *)
(* down is renewed or enforced.                                            *)
LeaseEnforced ==
    (running /\ lease_deadline < LeaseMs) ~> (~running \/ lease_deadline = LeaseMs)

(* Every schedule ends, even with a controller that never completes a      *)
(* frame and a client that renews the lease for ever.                      *)
ScheduleEnds ==
    \A r \in Requests : (scheduled /\ tx_request = r) ~> ~scheduled

Contract == INSTANCE CaptureContract
(* Everything above is an implementation of the promise CaptureContract.   *)
ImplementsContract == Contract!Spec
=============================================================================
