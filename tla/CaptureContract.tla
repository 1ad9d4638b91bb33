-------------------------- MODULE CaptureContract --------------------------
(* What the capture core of the firmware (src/firmware/src/capture.c)      *)
(* promises to the server thread that drives it, without ticks, atomics,   *)
(* clocks or the CAN controller: which schedules may run, what reaches the *)
(* bus, and what the transmit events say about it.  Capture is shown to    *)
(* implement it, and Session composes it with the server.                  *)
EXTENDS Integers, Sequences

CONSTANTS
    Requests,     \* request ids of TX commands
    MaxCount,     \* most frames of one schedule: the 10000 of capture_tx
    EventDepth    \* CONFIG_WCAN_TX_EVENT_DEPTH

VARIABLES
    running,          \* capture runs
    configured,       \* a valid configuration is applied
    active,           \* applied.active: transmit permission
    scheduled,        \* a transmit schedule is open
    tx_request,       \* the request of the last schedule, 0 before the first
    completed,        \* its frames reported as sent
    count,            \* [Requests -> Nat]: frames asked for, 0 if never accepted
    bus,              \* [Requests -> Nat]: frames that reached the bus
    tx_events,        \* the event queue
    tx_event_drops,   \* events counted as lost
    emitted,          \* every event raised, in order
    taken             \* number of events fetched and not lost since

eventvars == <<tx_events, tx_event_drops, emitted>>
vars == <<running, configured, active, scheduled, tx_request, completed,
          count, bus, eventvars, taken>>

Errors == {"OK", "EIO", "ECANCELED", "EINPROGRESS"}
Event == [request : Requests, completed : 0..MaxCount, error : Errors,
          terminal : BOOLEAN]

TypeOK ==
    /\ running \in BOOLEAN /\ configured \in BOOLEAN
    /\ active \in BOOLEAN /\ scheduled \in BOOLEAN
    /\ tx_request \in Requests \cup {0}
    /\ completed \in 0..MaxCount
    /\ count \in [Requests -> 0..MaxCount]
    /\ bus \in [Requests -> 0..MaxCount]
    /\ tx_events \in Seq(Event) /\ Len(tx_events) <= EventDepth
    /\ tx_event_drops \in Nat
    /\ emitted \in Seq(Event)
    /\ taken \in Nat

Init ==
    /\ running = FALSE /\ configured = TRUE
    /\ active = FALSE /\ scheduled = FALSE
    /\ tx_request = 0 /\ completed = 0
    /\ count = [r \in Requests |-> 0]
    /\ bus = [r \in Requests |-> 0]
    /\ tx_events = <<>> /\ tx_event_drops = 0 /\ emitted = <<>> /\ taken = 0

(* An event is queued, or counted as lost when the queue is full. *)
Raise(e) ==
    /\ emitted' = Append(emitted, e)
    /\ \/ /\ Len(tx_events) < EventDepth
          /\ tx_events' = Append(tx_events, e)
          /\ UNCHANGED tx_event_drops
       \/ /\ Len(tx_events) >= EventDepth
          /\ tx_event_drops' = tx_event_drops + 1
          /\ UNCHANGED tx_events

Outcome(done, error, terminal) ==
    [request |-> tx_request, completed |-> done, error |-> error,
     terminal |-> terminal]

(* A stop closes the open schedule.  It may say "cancelled" only if every  *)
(* frame on the bus has been reported; a frame whose fate is not known may *)
(* have reached the bus up to the very stop, and the event says so.        *)
Close ==
    IF scheduled
    THEN \/ /\ bus[tx_request] = completed
            /\ Raise(Outcome(completed, "ECANCELED", TRUE))
            /\ UNCHANGED bus
         \/ /\ completed < count[tx_request]
            /\ \E n \in {completed, completed + 1} :
                 /\ n >= bus[tx_request]
                 /\ bus' = [bus EXCEPT ![tx_request] = n]
            /\ Raise(Outcome(completed, "EINPROGRESS", TRUE))
    ELSE UNCHANGED <<bus, eventvars>>

Halt ==
    /\ Close
    /\ running' = FALSE /\ scheduled' = FALSE /\ active' = FALSE
    /\ UNCHANGED <<configured, tx_request, completed, count, taken>>

(* A configuration always stops first; a rejected one leaves none applied. *)
Configure ==
    /\ Close
    /\ running' = FALSE /\ scheduled' = FALSE
    /\ \/ configured' = TRUE /\ active' \in BOOLEAN
       \/ configured' = FALSE /\ active' = FALSE
    /\ UNCHANGED <<tx_request, completed, count, taken>>

Start ==
    /\ configured /\ ~running
    /\ running' = TRUE
    /\ UNCHANGED <<configured, active, scheduled, tx_request, completed, count,
                   bus, eventvars, taken>>

(* One schedule at a time, and only with transmit permission. *)
Accept(r, n) ==
    /\ running /\ active /\ ~scheduled /\ count[r] = 0
    /\ scheduled' = TRUE /\ tx_request' = r /\ completed' = 0
    /\ count' = [count EXCEPT ![r] = n]
    /\ UNCHANGED <<running, configured, active, bus, eventvars, taken>>

(* The next frame reaches the bus, never ahead of the previous report. *)
Transmit ==
    /\ scheduled
    /\ bus[tx_request] = completed /\ completed < count[tx_request]
    /\ bus' = [bus EXCEPT ![tx_request] = completed + 1]
    /\ UNCHANGED <<running, configured, active, scheduled, tx_request,
                   completed, count, eventvars, taken>>

Report ==
    /\ scheduled /\ bus[tx_request] = completed + 1
    /\ completed' = completed + 1
    /\ LET last == completed' = count[tx_request]
       IN  /\ Raise(Outcome(completed', "OK", last))
           /\ scheduled' = ~last
    /\ UNCHANGED <<running, configured, active, tx_request, count, bus, taken>>

(* The controller refused the frame or failed to send it. *)
Fail ==
    /\ scheduled
    /\ bus[tx_request] = completed /\ completed < count[tx_request]
    /\ Raise(Outcome(completed, "EIO", TRUE))
    /\ scheduled' = FALSE
    /\ UNCHANGED <<running, configured, active, tx_request, completed, count,
                   bus, taken>>

Take ==
    /\ tx_events /= <<>>
    /\ tx_events' = Tail(tx_events) /\ taken' = taken + 1
    /\ UNCHANGED <<running, configured, active, scheduled, tx_request,
                   completed, count, bus, tx_event_drops, emitted>>

(* The event just fetched could not be sent. *)
Lose ==
    /\ taken > 0
    /\ taken' = taken - 1 /\ tx_event_drops' = tx_event_drops + 1
    /\ UNCHANGED <<running, configured, active, scheduled, tx_request,
                   completed, count, bus, tx_events, emitted>>

DiscardEvents ==
    /\ tx_events /= <<>>
    /\ tx_event_drops' = tx_event_drops + Len(tx_events) /\ tx_events' = <<>>
    /\ UNCHANGED <<running, configured, active, scheduled, tx_request,
                   completed, count, bus, emitted, taken>>

Next ==
    \/ Halt \/ Configure \/ Start
    \/ \E r \in Requests, n \in 1..MaxCount : Accept(r, n)
    \/ Transmit \/ Report \/ Fail
    \/ Take \/ Lose \/ DiscardEvents

Spec == Init /\ [][Next]_vars
=============================================================================
