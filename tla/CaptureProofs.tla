--------------------------- MODULE CaptureProofs ---------------------------
(* Proofs about Capture: type correctness, the safety invariants, the      *)
(* action properties and the refinement of CaptureContract, for every      *)
(* value of the constants.                                                 *)
EXTENDS Capture, TLAPS

USE DEF Errors, Past, Open, StopError, Permitted, Expired, GivesUp, NextSend

(* The parts of the inductive invariant. *)

One(b) == IF b THEN 1 ELSE 0

(* A frame is in flight from can_send until it is reaped or given up; its  *)
(* completion is either still to come (busy) or waiting (completion_ready).*)
Flight ==
    /\ inflight => scheduled
    /\ busy => inflight /\ completion_ready = 0
    /\ inflight /\ ~busy => completion_ready = 1
    /\ completion_ready = 1 => inflight /\ completion_error \in {"OK", "EIO"}

(* The books of the open schedule: every frame asked for is reported, in   *)
(* flight or still to be sent, and only the one in flight may be on the    *)
(* bus without having been reported.                                       *)
Books ==
    scheduled =>
      /\ running /\ active
      /\ tx_request \in Requests
      /\ count[tx_request] = completed + remaining + One(inflight)
      /\ inflight \/ remaining >= 1
      /\ bus[tx_request] =
           completed + One(completion_ready = 1 /\ completion_error = "OK")

(* The applied configuration is the mode of the hardware while it runs. *)
Mode ==
    /\ running => configured /\ listenonly = ~active /\ slnt = ~active
    /\ ~running => slnt

(* What a tick knows of the lease stays true while it is preempted. *)
Lease ==
    /\ pc = "sleep" => lag = 0
    /\ pc /= "sleep" /\ running => lease_deadline >= -lag

(* The time already waited and the time left to wait make a cycle. *)
Pace ==
    scheduled /\ remaining < count[tx_request] =>
      \/ idle >= interval_ms - MaxLag
      \/ next_send + idle >= interval_ms - MaxLag

(* Events speak of accepted commands; of the open one they are not final.  *)
(* No more frames reach the bus than were asked for.                       *)
Record ==
    /\ \A r \in Requests : bus[r] <= count[r]
    /\ \A i \in Raised :
         emitted[i].request \in Requests /\ count[emitted[i].request] > 0
    /\ scheduled =>
         \A i \in Raised : emitted[i].request = tx_request
           => ~emitted[i].terminal /\ emitted[i].completed <= completed

IInv == /\ TypeOK /\ Flight /\ Books /\ Mode /\ Lease /\ Pace /\ Record
        /\ OutcomeExact /\ OneVerdict /\ EventAccounting
-----------------------------------------------------------------------------
(* What the event queue and the record of events are after an event. *)
LEMMA EventStep ==
    ASSUME TypeOK, EventAccounting, tx_request \in Requests,
           NEW done \in Nat, NEW error \in Errors, NEW terminal \in BOOLEAN,
           event(done, error, terminal)
    PROVE  /\ tx_events' \in Seq(Event) /\ Len(tx_events') <= EventDepth
           /\ tx_event_drops' \in Nat /\ taken' \in Nat
           /\ emitted' \in Seq(Event)
           /\ Len(emitted') = Len(emitted) + 1
           /\ Raised' = 1..Len(emitted) + 1 /\ Raised = 1..Len(emitted)
           /\ \A i \in Raised : emitted'[i] = emitted[i]
           /\ emitted'[Len(emitted) + 1] =
                [request |-> tx_request, completed |-> done, error |-> error,
                 terminal |-> terminal]
           /\ EventAccounting'
<1> DEFINE e == [request |-> tx_request, completed |-> done, error |-> error,
                 terminal |-> terminal]
<1>1. e \in Event
  BY DEF Event, TypeOK
<1>2. emitted \in Seq(Event) /\ tx_events \in Seq(Event)
  BY DEF TypeOK
<1>3. emitted' = Append(emitted, e) /\ UNCHANGED taken
  BY DEF event
<1>4. /\ emitted' \in Seq(Event) /\ Len(emitted') = Len(emitted) + 1
      /\ DOMAIN emitted = 1..Len(emitted) /\ DOMAIN emitted' = 1..Len(emitted')
      /\ \A i \in 1..Len(emitted) : emitted'[i] = emitted[i]
      /\ emitted'[Len(emitted) + 1] = e
  BY <1>1, <1>2, <1>3
<1>5. /\ tx_events' \in Seq(Event) /\ Len(tx_events') <= EventDepth
      /\ tx_event_drops' \in Nat
      /\ Len(tx_events') + tx_event_drops' = Len(tx_events) + tx_event_drops + 1
  <2>1. CASE Len(tx_events) < EventDepth /\ tx_events' = Append(tx_events, e)
             /\ UNCHANGED tx_event_drops
    BY <1>1, <1>2, <2>1, DepthAssumption DEF TypeOK
  <2>2. CASE Len(tx_events) >= EventDepth /\ UNCHANGED tx_events
             /\ tx_event_drops' = tx_event_drops + 1
    BY <1>2, <2>2, DepthAssumption DEF TypeOK
  <2>3. QED  BY <2>1, <2>2 DEF event
<1>6. EventAccounting'
  <2>1. /\ Len(emitted) \in Nat /\ Len(tx_events) \in Nat
        /\ Len(tx_events') \in Nat /\ taken \in Nat /\ tx_event_drops \in Nat
    BY <1>2, <1>5 DEF TypeOK
  <2>2. Len(emitted') = Len(emitted) + 1 /\ taken' = taken
    BY <1>3, <1>4
  <2>3. Len(emitted) = taken + Len(tx_events) + tx_event_drops
    BY DEF EventAccounting
  <2>4. Len(emitted') = taken' + Len(tx_events') + tx_event_drops'
    BY <1>5, <2>1, <2>2, <2>3
  <2>5. QED  BY <2>4 DEF EventAccounting
<1>7. QED  BY <1>3, <1>4, <1>5, <1>6 DEF TypeOK, Raised

(* An event of the open schedule keeps the record right if it is itself    *)
(* honest, closes the schedule exactly when it is terminal, and counts up. *)
LEMMA RaiseStep ==
    ASSUME IInv, scheduled,
           NEW done \in Nat, NEW error \in Errors, NEW terminal \in BOOLEAN,
           event(done, error, terminal),
           UNCHANGED <<tx_request, count>>,
           bus' \in [Requests -> 0..MaxCount],
           \A r \in Requests \ {tx_request} : bus'[r] = bus[r],
           bus'[tx_request] >= bus[tx_request],
           bus'[tx_request] <= count[tx_request],
           scheduled' <=> ~terminal, completed' = done,
           done >= completed, error = "OK" => done = completed + 1,
           Honest(emitted[Len(emitted)])'
    PROVE  Record' /\ OutcomeExact' /\ OneVerdict'
<1> DEFINE n == Len(emitted) + 1
<1>1. /\ TypeOK /\ EventAccounting /\ OutcomeExact /\ OneVerdict
      /\ Record /\ tx_request \in Requests /\ count[tx_request] > 0
  BY DEF IInv, Books, TypeOK, One
<1>2. /\ Raised = 1..Len(emitted) /\ Raised' = 1..n
      /\ emitted' \in Seq(Event) /\ Len(emitted') = n
      /\ \A i \in Raised : emitted'[i] = emitted[i]
      /\ emitted'[n] = [request |-> tx_request, completed |-> done,
                        error |-> error, terminal |-> terminal]
  BY <1>1, EventStep
<1>3. /\ Len(emitted) \in Nat /\ completed \in Nat
      /\ \A i \in Raised : emitted[i] \in Event
  <2>1. emitted \in Seq(Event) /\ completed \in Nat
    BY <1>1 DEF TypeOK
  <2>2. QED  BY <1>2, <2>1
<1>4. Record'
  <2>1. \A i \in Raised' :
          emitted'[i].request \in Requests /\ count'[emitted'[i].request] > 0
    BY <1>1, <1>2, <1>3 DEF Record
  <2>2. scheduled' => \A i \in Raised' : emitted'[i].request = tx_request'
          => ~emitted'[i].terminal /\ emitted'[i].completed <= completed'
    <3> SUFFICES ASSUME scheduled', NEW i \in Raised',
                        emitted'[i].request = tx_request
                 PROVE  ~emitted'[i].terminal /\ emitted'[i].completed <= completed'
      OBVIOUS
    <3>1. CASE i \in Raised
      <4>1. emitted'[i] = emitted[i]
        BY <1>2, <3>1
      <4>2. ~emitted[i].terminal /\ emitted[i].completed <= completed
        BY <1>1, <3>1, <4>1 DEF Record
      <4>3. emitted[i].completed \in Nat /\ completed \in Nat
        BY <1>3, <3>1 DEF Event
      <4>4. QED  BY <4>1, <4>2, <4>3
    <3>2. CASE i = n
      <4>1. emitted'[i].terminal = terminal /\ emitted'[i].completed = done
        BY <1>2, <3>2
      <4>2. ~terminal /\ completed' = done
        OBVIOUS
      <4>3. QED  BY <4>1, <4>2
    <3>3. QED  BY <1>2, <1>3, <3>1, <3>2
  <2>3. \A r \in Requests : bus'[r] <= count'[r]
    BY <1>1 DEF Record
  <2>4. QED  BY <2>1, <2>2, <2>3 DEF Record
<1>5. OutcomeExact'
  <2> SUFFICES ASSUME NEW i \in Raised PROVE Honest(emitted[i])'
    BY <1>2, <1>3 DEF OutcomeExact
  <2> DEFINE e == emitted[i]
  <2>1. /\ Honest(e) /\ e \in Event /\ e.request \in Requests
        /\ e.request = tx_request => ~e.terminal
    BY <1>1, <1>3 DEF OutcomeExact, Record
  <2>2. /\ bus'[e.request] \in Nat /\ bus[e.request] \in Nat
        /\ bus'[e.request] >= bus[e.request]
        /\ e.request /= tx_request => bus'[e.request] = bus[e.request]
    BY <1>1, <2>1 DEF TypeOK
  <2>3. emitted'[i] = e /\ count' = count
    BY <1>2
  <2>4. CASE ~e.terminal
    BY <2>1, <2>2, <2>3, <2>4 DEF Honest, Event
  <2>5. CASE e.terminal
    BY <2>1, <2>2, <2>3, <2>5 DEF Honest, Event
  <2>6. QED  BY <2>4, <2>5
<1>6. OneVerdict'
  <2>1. ASSUME NEW i \in Raised', NEW j \in Raised', i < j,
               emitted'[i].request = emitted'[j].request
        PROVE  ~emitted'[i].terminal /\ (emitted'[j].error = "OK" =>
                 emitted'[i].completed < emitted'[j].completed)
    <3>1. i \in Raised
      BY <1>2, <1>3, <2>1
    <3>2. CASE j \in Raised
      BY <1>1, <1>2, <2>1, <3>1, <3>2 DEF OneVerdict
    <3>3. CASE j = n
      <4>1. emitted[i].request = tx_request
        BY <1>2, <2>1, <3>1, <3>3
      <4>2. ~emitted[i].terminal /\ emitted[i].completed <= completed
        BY <1>1, <3>1, <4>1 DEF Record
      <4>3. QED  BY <1>2, <1>3, <3>1, <3>3, <4>2 DEF Event
    <3>4. QED  BY <1>2, <1>3, <3>2, <3>3
  <2>2. ASSUME NEW r \in Requests, count'[r] > 0
        PROVE  Verdict(r)' = {} <=> scheduled' /\ tx_request' = r
    <3>1. CASE r = tx_request
      <4>1. Verdict(r) = {}
        BY <1>1, <3>1 DEF Record, Verdict
      <4>2. Verdict(r)' = {} <=> ~terminal
        BY <1>2, <3>1, <4>1 DEF Verdict
      <4>3. QED  BY <3>1, <4>2
    <3>2. CASE r /= tx_request
      <4>1. Verdict(r)' = Verdict(r)
        BY <1>2, <1>3, <3>2 DEF Verdict
      <4>2. Verdict(r) /= {}
        BY <1>1, <2>2, <3>2 DEF OneVerdict
      <4>3. QED  BY <3>2, <4>1, <4>2
    <3>3. QED  BY <3>1, <3>2
  <2>3. QED  BY <2>1, <2>2 DEF OneVerdict
<1>7. QED  BY <1>4, <1>5, <1>6

(* A step that raises no event and leaves the books' histories alone. *)
LEMMA QuietStep ==
    ASSUME IInv,
           UNCHANGED <<emitted, count, bus, tx_request, scheduled, completed>>
    PROVE  Record' /\ OutcomeExact' /\ OneVerdict'
<1>1. Record /\ OutcomeExact /\ OneVerdict
  BY DEF IInv
<1>2. Raised' = Raised /\ \A r : Verdict(r)' = Verdict(r)
  BY DEF Raised, Verdict
<1>3. Record'
  BY <1>1, <1>2 DEF Record
<1>4. OutcomeExact'
  BY <1>1, <1>2 DEF OutcomeExact, Honest
<1>5. OneVerdict'
  BY <1>1, <1>2 DEF OneVerdict
<1>6. QED  BY <1>3, <1>4, <1>5

(* stop_locked() closes the open schedule with one honest event. *)
LEMMA StopStep ==
    ASSUME IInv, stop_locked
    PROVE  /\ ~running' /\ ~scheduled' /\ ~inflight' /\ ~busy' /\ slnt'
           /\ remaining' = 0 /\ completion_ready' = 0
           /\ completion_error' \in Errors
           /\ running' \in BOOLEAN /\ scheduled' \in BOOLEAN
           /\ inflight' \in BOOLEAN /\ busy' \in BOOLEAN /\ slnt' \in BOOLEAN
           /\ bus' \in [Requests -> 0..MaxCount]
           /\ tx_events' \in Seq(Event) /\ Len(tx_events') <= EventDepth
           /\ tx_event_drops' \in Nat /\ taken' \in Nat
           /\ emitted' \in Seq(Event)
           /\ Record' /\ OutcomeExact' /\ OneVerdict' /\ EventAccounting'
<1>1. TypeOK /\ Flight /\ Books /\ EventAccounting
  BY DEF IInv
<1>2. /\ ~running' /\ ~scheduled' /\ ~inflight' /\ slnt'
      /\ running' \in BOOLEAN /\ scheduled' \in BOOLEAN
      /\ inflight' \in BOOLEAN /\ slnt' \in BOOLEAN
      /\ remaining' = 0 /\ completion_ready' = 0
      /\ UNCHANGED <<tx_request, completed, count>>
  BY DEF stop_locked
<1>3. CASE ~scheduled
  <2>1. ~inflight /\ ~busy
    BY <1>1, <1>3 DEF Flight
  <2>2. UNCHANGED <<busy, completion_error, bus, events, scheduled>>
    BY <1>1, <1>3, <2>1 DEF stop_locked, can_stop, TypeOK
  <2>3. Record' /\ OutcomeExact' /\ OneVerdict'
    BY <1>2, <2>2, QuietStep DEF events
  <2>4. EventAccounting'
    BY <1>1, <2>2 DEF EventAccounting, events
  <2>5. QED  BY <1>1, <1>2, <2>1, <2>2, <2>3, <2>4 DEF TypeOK, events
<1>4. CASE scheduled
  <2> DEFINE error == IF inflight THEN "EINPROGRESS" ELSE "ECANCELED"
  <2>1. event(completed, error, TRUE)
    BY <1>4 DEF stop_locked
  <2>2. /\ running /\ tx_request \in Requests /\ completed \in Nat
        /\ error \in Errors /\ bus \in [Requests -> 0..MaxCount]
        /\ count[tx_request] \in 0..MaxCount
        /\ bus[tx_request] \in {completed, completed + 1}
        /\ bus[tx_request] <= count[tx_request] /\ completed < count[tx_request]
        /\ ~inflight => bus[tx_request] = completed
        /\ busy => inflight /\ bus[tx_request] = completed
    BY <1>1, <1>4 DEF TypeOK, Flight, Books, One
  <2>3. /\ ~busy' /\ busy' \in BOOLEAN /\ completion_error' \in Errors
        /\ \/ bus' = bus
           \/ busy /\ bus' = [bus EXCEPT ![tx_request] = @ + 1]
    BY <1>1, <2>2 DEF stop_locked, can_stop, TypeOK
  <2>4. /\ bus' \in [Requests -> 0..MaxCount]
        /\ \A r \in Requests \ {tx_request} : bus'[r] = bus[r]
        /\ bus'[tx_request] >= bus[tx_request]
        /\ bus'[tx_request] \in {completed, completed + 1}
        /\ bus'[tx_request] <= count[tx_request]
        /\ ~inflight => bus'[tx_request] = completed
    <3>1. CASE bus' = bus
      BY <2>2, <3>1
    <3>2. CASE busy /\ bus' = [bus EXCEPT ![tx_request] = @ + 1]
      <4>1. /\ bus[tx_request] = completed /\ bus[tx_request] \in 0..MaxCount
            /\ completed + 1 \in 0..MaxCount
        BY <2>2, <3>2, RequestAssumption
      <4>2. bus' = [bus EXCEPT ![tx_request] = completed + 1]
        BY <3>2, <4>1
      <4>3. QED  BY <2>2, <3>2, <4>1, <4>2
    <3>3. QED  BY <2>3, <3>1, <3>2
  <2>5. /\ tx_events' \in Seq(Event) /\ Len(tx_events') <= EventDepth
        /\ tx_event_drops' \in Nat /\ taken' \in Nat /\ emitted' \in Seq(Event)
        /\ Len(emitted') = Len(emitted) + 1
        /\ emitted'[Len(emitted) + 1] =
             [request |-> tx_request, completed |-> completed, error |-> error,
              terminal |-> TRUE]
        /\ EventAccounting'
    BY <1>1, <2>1, <2>2, EventStep
  <2>6. Honest(emitted[Len(emitted)])'
    <3>1. emitted'[Len(emitted')] =
             [request |-> tx_request, completed |-> completed, error |-> error,
              terminal |-> TRUE]
      BY <2>5
    <3>2. count' = count /\ bus'[tx_request] \in Nat
      BY <1>2, <2>2, <2>4
    <3>3. CASE inflight
      BY <2>2, <2>4, <3>1, <3>2, <3>3 DEF Honest
    <3>4. CASE ~inflight
      BY <2>2, <2>4, <3>1, <3>2, <3>4 DEF Honest
    <3>5. QED  BY <3>3, <3>4
  <2>7. Record' /\ OutcomeExact' /\ OneVerdict'
    <3>1. /\ error /= "OK" /\ TRUE \in BOOLEAN /\ (scheduled' <=> ~TRUE)
          /\ completed' = completed /\ completed >= completed
          /\ UNCHANGED <<tx_request, count>>
      BY <1>2, <2>2
    <3> HIDE DEF error
    <3>2. QED  BY <1>4, <2>1, <2>2, <2>4, <2>6, <3>1, RaiseStep
  <2>8. QED  BY <1>2, <2>3, <2>4, <2>5, <2>7
<1>5. QED  BY <1>1, <1>3, <1>4 DEF TypeOK
-----------------------------------------------------------------------------
LEMMA InitIInv == Init => IInv
<1> SUFFICES ASSUME Init PROVE IInv
  OBVIOUS
<1> USE RequestAssumption, IntervalAssumption, TimeAssumption, DepthAssumption
<1>1. TypeOK
  <2>1. <<>> \in Seq(Event) /\ Len(<<>>) = 0
    OBVIOUS
  <2>2. Past \in Int /\ Past <= 0 /\ 0 \in Past..LeaseMs /\ 0 \in Past..TxDeadlineMs
        /\ 0 \in 0..MaxLag /\ 0 \in 0..MaxCount
    OBVIOUS
  <2>3. next_send \in Int /\ next_send >= Past /\ interval_ms \in Intervals \cup {0}
    BY <2>2 DEF Init
  <2>4. /\ count \in [Requests -> 0..MaxCount] /\ bus \in [Requests -> 0..MaxCount]
        /\ tx_events \in Seq(Event) /\ emitted \in Seq(Event)
        /\ Len(tx_events) <= EventDepth
    BY <2>1, <2>2 DEF Init
  <2>5. QED  BY <2>2, <2>3, <2>4 DEF Init, TypeOK
<1>2. Flight /\ Books /\ Mode /\ Lease /\ Pace
  <2>1. Flight /\ Books /\ Pace
    BY DEF Init, Flight, Books, Pace
  <2>2. Mode /\ Lease
    BY DEF Init, Mode, Lease
  <2>3. QED  BY <2>1, <2>2
<1>3. emitted = <<>> /\ Raised = {} /\ \A r \in Requests : count[r] = 0
  BY DEF Init, Raised
<1>4. Record /\ OutcomeExact /\ OneVerdict
  BY <1>3 DEF Init, Record, OutcomeExact, OneVerdict
<1>5. EventAccounting
  BY DEF Init, EventAccounting
<1>6. QED  BY <1>1, <1>2, <1>4, <1>5 DEF IInv

(* A stop preserves the invariant, whatever it leaves configured. *)
LEMMA StoppedInv ==
    ASSUME IInv, stop_locked, active' \in BOOLEAN, configured' \in BOOLEAN,
           listenonly' \in BOOLEAN, pc' \in {"sleep", "reap", "due"},
           lag' \in 0..MaxLag, pc' = "sleep" => lag' = 0
    PROVE  IInv'
<1>1. TypeOK /\ Mode /\ Lease
  BY DEF IInv
<1>2. UNCHANGED <<tx_request, completed, interval_ms, count, timers, idle>>
  BY DEF stop_locked
<1>3. TypeOK'
  BY <1>1, <1>2, StopStep, RequestAssumption DEF TypeOK, timers
<1>4. /\ ~running' /\ ~scheduled' /\ ~inflight' /\ ~busy' /\ slnt'
      /\ completion_ready' = 0
  BY StopStep
<1>5. Flight' /\ Books' /\ Mode' /\ Pace'
  <2>1. Books' /\ Pace'
    BY <1>4 DEF Books, Pace
  <2>2. Flight'
    BY <1>4 DEF Flight
  <2>3. Mode'
    BY <1>4 DEF Mode
  <2>4. QED  BY <2>1, <2>2, <2>3
<1>6. Lease'
  BY <1>4 DEF Lease
<1>7. QED  BY <1>3, <1>5, <1>6, StopStep DEF IInv

(* The operations of the server thread. *)
LEMMA StopInv == IInv /\ capture_stop => IInv'
<1> SUFFICES ASSUME IInv, capture_stop PROVE IInv'
  OBVIOUS
<1>1. stop_locked /\ ~active' /\ active' \in BOOLEAN
      /\ UNCHANGED <<configured, listenonly, thread>>
  BY DEF capture_stop
<1>2. /\ configured' \in BOOLEAN /\ listenonly' \in BOOLEAN
      /\ pc' \in {"sleep", "reap", "due"} /\ lag' \in 0..MaxLag
      /\ (pc' = "sleep" => lag' = 0)
  BY <1>1 DEF IInv, TypeOK, Lease, thread
<1>3. QED  BY <1>1, <1>2, StoppedInv

LEMMA ConfigureInv == ASSUME IInv, NEW on \in BOOLEAN, capture_configure(on)
                      PROVE  IInv'
<1>1. /\ stop_locked /\ active' \in BOOLEAN /\ configured' \in BOOLEAN
      /\ listenonly' \in BOOLEAN /\ UNCHANGED thread
  BY DEF capture_configure, IInv, TypeOK
<1>2. pc' \in {"sleep", "reap", "due"} /\ lag' \in 0..MaxLag
      /\ (pc' = "sleep" => lag' = 0)
  BY <1>1 DEF IInv, TypeOK, Lease, thread
<1>3. QED  BY <1>1, <1>2, StoppedInv

LEMMA LeaseInv == IInv /\ capture_lease => IInv'
<1> SUFFICES ASSUME IInv, capture_lease PROVE IInv'
  OBVIOUS
<1>1. TypeOK /\ Flight /\ Books /\ Mode /\ Lease /\ Pace /\ EventAccounting
  BY DEF IInv
<1>2. TypeOK'
  BY <1>1, TimeAssumption DEF TypeOK, capture_lease, control, schedule, timers,
     isr, events, thread, hardware
<1>3. Flight' /\ Books' /\ Mode' /\ Lease' /\ Pace' /\ EventAccounting'
  BY <1>1 DEF Locked, Flight, Books, Mode, Lease, Pace, EventAccounting,
     capture_lease, control, schedule, isr, events, thread, hardware
<1>4. Record' /\ OutcomeExact' /\ OneVerdict'
  BY QuietStep DEF capture_lease, schedule, isr, events
<1>5. QED  BY <1>2, <1>3, <1>4 DEF IInv

LEMMA StartInv == IInv /\ capture_start => IInv'
<1> SUFFICES ASSUME IInv, capture_start PROVE IInv'
  OBVIOUS
<1>1. TypeOK /\ Flight /\ Books /\ Mode /\ Lease /\ Pace /\ EventAccounting
  BY DEF IInv
<1>2. TypeOK'
  <2>1. running' \in BOOLEAN /\ slnt' \in BOOLEAN /\ listenonly' \in BOOLEAN
    BY <1>1 DEF TypeOK, capture_start
  <2>2. lease_deadline' \in Past..LeaseMs
    BY <1>1, TimeAssumption DEF TypeOK, capture_start
  <2>3. UNCHANGED <<configured, active, schedule, next_send, tx_deadline, isr,
                   events, thread, idle>>
    BY DEF capture_start
  <2>4. QED  BY <1>1, <2>1, <2>2, <2>3 DEF TypeOK, schedule, isr, events, thread
<1>3. Flight' /\ Books' /\ Mode' /\ Lease' /\ Pace' /\ EventAccounting'
  BY <1>1 DEF TypeOK, Locked, Flight, Books, Mode, Lease, Pace,
     EventAccounting, capture_start, control, schedule, isr, events, thread
<1>4. Record' /\ OutcomeExact' /\ OneVerdict'
  BY QuietStep DEF capture_start, schedule, isr, events
<1>5. QED  BY <1>2, <1>3, <1>4 DEF IInv

LEMMA TxInv ==
    ASSUME IInv, NEW r \in Requests, NEW n \in 1..MaxCount,
           NEW interval \in Intervals, count[r] = 0, capture_tx(r, n, interval)
    PROVE  IInv'
<1>1. /\ TypeOK /\ Flight /\ Books /\ Mode /\ Lease /\ Record /\ EventAccounting
      /\ OutcomeExact /\ OneVerdict
  BY DEF IInv
<1>2. TypeOK'
  BY <1>1, RequestAssumption, IntervalAssumption, TimeAssumption
     DEF TypeOK, capture_tx, control, isr, events, thread, hardware
<1>3. /\ UNCHANGED <<emitted, bus, running, active, inflight, busy>>
      /\ UNCHANGED <<completion_ready, completion_error, tx_events,
                     tx_event_drops, taken, configured, listenonly, slnt, lag,
                     pc, lease_deadline>>
      /\ pc = "sleep" /\ running /\ active /\ ~scheduled /\ ~inflight
      /\ scheduled' /\ tx_request' = r /\ remaining' = n /\ completed' = 0
      /\ count' = [count EXCEPT ![r] = n]
  BY DEF capture_tx, Locked, control, isr, events, thread, hardware
<1>4. count'[r] = n /\ bus[r] = 0 /\ n >= 1 /\ n \in Nat
  BY <1>1, <1>3 DEF TypeOK, Record
<1>5. Flight' /\ Mode' /\ Lease' /\ EventAccounting'
  BY <1>1, <1>3 DEF Flight, Mode, Lease, EventAccounting
<1>6. Books' /\ Pace'
  BY <1>1, <1>3, <1>4 DEF Flight, Books, One, Pace
<1>7. /\ Raised' = Raised
      /\ \A i \in Raised : emitted[i].request \in Requests \ {r}
      /\ \A q \in Requests \ {r} : count'[q] = count[q]
  BY <1>1, <1>3 DEF Raised, Record, TypeOK
<1>8. Record'
  BY <1>1, <1>3, <1>4, <1>7 DEF Record
<1>9. OutcomeExact'
  BY <1>1, <1>3, <1>7 DEF OutcomeExact, Honest
<1>10. OneVerdict'
  <2>1. Verdict(r)' = {}
    BY <1>3, <1>7 DEF Verdict
  <2>2. \A q \in Requests \ {r} : Verdict(q)' = Verdict(q)
    BY <1>3, <1>7 DEF Verdict
  <2>3. QED  BY <1>1, <1>3, <1>7, <2>1, <2>2 DEF OneVerdict
<1>11. QED  BY <1>2, <1>5, <1>6, <1>8, <1>9, <1>10 DEF IInv

LEMMA TakeInv == IInv /\ (TakeEvent \/ LoseEvent \/ capture_discard_tx) => IInv'
<1> SUFFICES ASSUME IInv, TakeEvent \/ LoseEvent \/ capture_discard_tx PROVE IInv'
  OBVIOUS
<1>1. TypeOK /\ Flight /\ Books /\ Mode /\ Lease /\ Pace /\ EventAccounting
  BY DEF IInv
<1>2. UNCHANGED <<control, schedule, timers, isr, emitted, thread, hardware, idle>>
  BY DEF TakeEvent, LoseEvent, capture_discard_tx
<1>3. /\ tx_events' \in Seq(Event) /\ Len(tx_events') <= EventDepth
      /\ tx_event_drops' \in Nat /\ taken' \in Nat /\ EventAccounting'
  <2>1. tx_events \in Seq(Event) /\ Len(tx_events) \in Nat
        /\ Len(emitted) \in Nat /\ taken \in Nat /\ tx_event_drops \in Nat
    BY <1>1 DEF TypeOK, TakeEvent, LoseEvent, capture_discard_tx
  <2>2. CASE TakeEvent
    <3>1. tx_events /= <<>> /\ tx_events' = Tail(tx_events)
          /\ taken' = taken + 1 /\ UNCHANGED <<tx_event_drops, emitted>>
      BY <2>2 DEF TakeEvent
    <3>2. tx_events' \in Seq(Event) /\ Len(tx_events') = Len(tx_events) - 1
      BY <2>1, <3>1
    <3>3. Len(tx_events') <= EventDepth
      BY <1>1, <2>1, <3>2, DepthAssumption DEF TypeOK
    <3>4. taken' \in Nat /\ tx_event_drops' \in Nat /\ EventAccounting'
      BY <1>1, <2>1, <3>1, <3>2 DEF EventAccounting
    <3>5. QED  BY <3>2, <3>3, <3>4
  <2>3. CASE capture_discard_tx
    <3>1. tx_events' = <<>> /\ tx_event_drops' = tx_event_drops + Len(tx_events)
          /\ UNCHANGED <<taken, emitted>>
      BY <2>3 DEF capture_discard_tx
    <3>2. QED  BY <1>1, <2>1, <3>1, DepthAssumption DEF EventAccounting
  <2>4. CASE LoseEvent
    <3>1. taken > 0 /\ taken' = taken - 1 /\ tx_event_drops' = tx_event_drops + 1
          /\ UNCHANGED <<tx_events, emitted>>
      BY <2>4 DEF LoseEvent
    <3>2. taken' \in Nat /\ tx_event_drops' \in Nat
      BY <2>1, <3>1
    <3>3. EventAccounting'
      BY <1>1, <2>1, <3>1 DEF EventAccounting
    <3>4. tx_events' \in Seq(Event) /\ Len(tx_events') <= EventDepth
      BY <1>1, <3>1 DEF TypeOK
    <3>5. QED  BY <3>2, <3>3, <3>4
  <2>5. QED  BY <2>2, <2>3, <2>4
<1>4. TypeOK'
  BY <1>1, <1>2, <1>3 DEF TypeOK, control, schedule, timers, isr, thread,
     hardware
<1>5. Flight' /\ Books' /\ Mode' /\ Lease' /\ Pace'
  BY <1>1, <1>2 DEF Flight, Books, Mode, Lease, Pace, control, schedule,
     timers, isr, thread, hardware
<1>6. Record' /\ OutcomeExact' /\ OneVerdict'
  BY <1>2, QuietStep DEF schedule, isr
<1>7. QED  BY <1>3, <1>4, <1>5, <1>6 DEF IInv
-----------------------------------------------------------------------------
(* The completion callback and the clock. *)
LEMMA DoneInv ==
    ASSUME IInv, NEW error \in {"OK", "EIO"}, tx_done(error)
    PROVE  IInv'
<1>1. /\ TypeOK /\ Flight /\ Books /\ Mode /\ Lease /\ Pace /\ Record
      /\ EventAccounting /\ OutcomeExact /\ OneVerdict
  BY DEF IInv
<1>2. /\ UNCHANGED <<control, schedule, timers, events, thread, hardware, idle>>
      /\ busy /\ ~busy' /\ busy' \in BOOLEAN
      /\ completion_ready' = 1 /\ completion_error' = error
  BY DEF tx_done
<1>3. /\ scheduled /\ inflight /\ tx_request \in Requests
      /\ bus[tx_request] = completed /\ completed < count[tx_request]
      /\ count[tx_request] \in 0..MaxCount /\ completed \in Nat
      /\ bus \in [Requests -> 0..MaxCount]
  BY <1>1, <1>2 DEF Flight, Books, One, TypeOK
<1>4. /\ bus' \in [Requests -> 0..MaxCount]
      /\ \A r \in Requests \ {tx_request} : bus'[r] = bus[r]
      /\ bus'[tx_request] = completed + One(error = "OK")
  <2>1. completed \in 0..MaxCount /\ completed + 1 \in 0..MaxCount
    BY <1>3, RequestAssumption
  <2>2. CASE error = "OK"
    <3>1. bus' = [bus EXCEPT ![tx_request] = completed + 1]
      BY <1>3, <2>2 DEF tx_done
    <3>2. QED  BY <1>3, <2>1, <2>2, <3>1 DEF One
  <2>3. CASE error /= "OK"
    <3>1. bus' = bus
      BY <2>3 DEF tx_done
    <3>2. QED  BY <1>3, <2>3, <3>1 DEF One
  <2>4. QED  BY <2>2, <2>3
<1>5. TypeOK'
  BY <1>1, <1>2, <1>4 DEF TypeOK, control, schedule, timers, events, thread,
     hardware
<1>6. Flight' /\ Mode' /\ Lease' /\ Pace' /\ EventAccounting'
  BY <1>1, <1>2, <1>3 DEF Flight, Mode, Lease, Pace, EventAccounting, control,
     schedule, timers, events, thread, hardware
<1>7. Books'
  BY <1>1, <1>2, <1>3, <1>4 DEF Books, One, control, schedule
<1>8. Raised' = Raised /\ UNCHANGED <<emitted, count, tx_request, scheduled, completed>>
  BY <1>2 DEF Raised, events, schedule
<1>9. Record'
  BY <1>1, <1>3, <1>4, <1>8 DEF Record, One
<1>10. OutcomeExact'
  <2> SUFFICES ASSUME NEW i \in Raised PROVE Honest(emitted[i])'
    BY <1>8 DEF OutcomeExact
  <2>1. Honest(emitted[i]) /\ emitted[i].request \in Requests
        /\ (emitted[i].request = tx_request =>
              ~emitted[i].terminal /\ emitted[i].completed <= completed)
    BY <1>1, <1>3 DEF OutcomeExact, Record
  <2>4. emitted[i].completed \in Nat
    <3>1. emitted \in Seq(Event) /\ Raised = 1..Len(emitted)
      BY <1>1 DEF TypeOK, Raised
    <3>2. emitted[i] \in Event
      BY <3>1
    <3>3. QED  BY <3>2 DEF Event
  <2>2. CASE emitted[i].request = tx_request
    BY <1>3, <1>4, <1>8, <2>1, <2>4, <2>2 DEF Honest, One
  <2>3. CASE emitted[i].request /= tx_request
    BY <1>4, <1>8, <2>1, <2>3 DEF Honest
  <2>5. QED  BY <2>2, <2>3
<1>11. OneVerdict'
  BY <1>1, <1>8 DEF OneVerdict, Verdict
<1>12. QED  BY <1>5, <1>6, <1>7, <1>9, <1>10, <1>11 DEF IInv

(* A unit of time taken from the wait ahead is added to the wait behind. *)
LEMMA Later ==
    ASSUME NEW a \in Int, NEW b \in Int, NEW c \in Int, NEW d \in Int,
           c >= a - 1, d = b + 1
    PROVE  c + d >= a + b
OBVIOUS

LEMMA AdvanceInv == IInv /\ Advance => IInv'
<1> SUFFICES ASSUME IInv, Advance PROVE IInv'
  OBVIOUS
<1>1. TypeOK /\ Flight /\ Books /\ Mode /\ Lease /\ Pace /\ EventAccounting
  BY DEF IInv
<1>2. UNCHANGED <<control, schedule, isr, events, pc, hardware>>
  BY DEF Advance
<1>3. /\ lag' \in 0..MaxLag
      /\ lag' = IF pc = "sleep" THEN 0 ELSE lag + 1
      /\ next_send' \in Int /\ next_send' >= Past /\ next_send' >= next_send - 1
      /\ lease_deadline' \in Past..LeaseMs
      /\ lease_deadline' = IF lease_deadline > Past THEN lease_deadline - 1 ELSE Past
      /\ tx_deadline' \in Past..TxDeadlineMs
      /\ idle' \in Nat
      /\ idle' = idle + 1 \/ (idle' = idle /\ idle >= interval_ms)
  BY <1>1, TimeAssumption, IntervalAssumption DEF TypeOK, Advance, Earlier, Longer
<1>4. TypeOK'
  BY <1>1, <1>2, <1>3 DEF TypeOK, control, schedule, isr, events, hardware
<1>5. Flight' /\ Books' /\ Mode' /\ EventAccounting'
  BY <1>1, <1>2 DEF Flight, Books, Mode, EventAccounting, control, schedule,
     isr, events, hardware
<1>6. Lease'
  BY <1>1, <1>2, <1>3, TimeAssumption DEF TypeOK, Lease, control
<1>7. Pace'
  <2>1. next_send \in Int /\ idle \in Nat /\ interval_ms \in Nat
    BY <1>1, IntervalAssumption DEF TypeOK
  <2>2. UNCHANGED <<scheduled, remaining, count, tx_request, interval_ms>>
    BY <1>2 DEF schedule
  <2>3. next_send' + idle' >= next_send + idle \/ idle >= interval_ms
    <3>1. CASE idle' = idle + 1
      <4>1. /\ next_send \in Int /\ idle \in Int /\ next_send' \in Int
            /\ idle' \in Int /\ next_send' >= next_send - 1
        BY <1>3, <2>1
      <4>2. QED  BY <3>1, <4>1, Later
    <3>2. CASE idle >= interval_ms
      BY <3>2
    <3>3. QED  BY <1>3, <3>1, <3>2
  <2>4. idle' >= idle
    BY <1>3, <2>1
  <2>5. /\ next_send' + idle' \in Int /\ next_send + idle \in Int
        /\ idle' \in Int /\ interval_ms - MaxLag \in Int
        /\ interval_ms >= interval_ms - MaxLag
    BY <1>3, <2>1, TimeAssumption
  <2>6. QED  BY <1>1, <2>1, <2>2, <2>3, <2>4, <2>5 DEF Pace
<1>8. Record' /\ OutcomeExact' /\ OneVerdict'
  BY <1>2, QuietStep DEF schedule, isr, events
<1>9. QED  BY <1>4, <1>5, <1>6, <1>7, <1>8 DEF IInv
-----------------------------------------------------------------------------
(* The steps of a tick. *)
LEMMA ExpireInv == IInv /\ TickExpire => IInv'
<1> SUFFICES ASSUME IInv, TickExpire PROVE IInv'
  OBVIOUS
<1>1. /\ stop_locked /\ ~active' /\ active' \in BOOLEAN /\ pc' = "reap"
      /\ UNCHANGED <<configured, listenonly, lag>>
  BY DEF TickExpire
<1>2. /\ configured' \in BOOLEAN /\ listenonly' \in BOOLEAN
      /\ pc' \in {"sleep", "reap", "due"} /\ lag' \in 0..MaxLag
      /\ (pc' = "sleep" => lag' = 0)
  BY <1>1 DEF IInv, TypeOK
<1>3. QED  BY <1>1, <1>2, StoppedInv

LEMMA GiveUpInv == IInv /\ TickGiveUp => IInv'
<1> SUFFICES ASSUME IInv, TickGiveUp PROVE IInv'
  OBVIOUS
<1>1. /\ stop_locked /\ ~active' /\ active' \in BOOLEAN
      /\ pc' = "sleep" /\ lag' = 0
      /\ UNCHANGED <<configured, listenonly>>
  BY DEF TickGiveUp
<1>2. /\ configured' \in BOOLEAN /\ listenonly' \in BOOLEAN
      /\ pc' \in {"sleep", "reap", "due"} /\ lag' \in 0..MaxLag
      /\ (pc' = "sleep" => lag' = 0)
  BY <1>1, TimeAssumption DEF IInv, TypeOK
<1>3. QED  BY <1>1, <1>2, StoppedInv

(* Steps that only move the tick on. *)
LEMMA PassInv == IInv /\ (TickLive \/ TickNoReap \/ TickIdle) => IInv'
<1> SUFFICES ASSUME IInv, TickLive \/ TickNoReap \/ TickIdle PROVE IInv'
  OBVIOUS
<1>1. TypeOK /\ Flight /\ Books /\ Mode /\ Lease /\ Pace /\ EventAccounting
  BY DEF IInv
<1>2. UNCHANGED <<control, schedule, timers, isr, events, hardware, idle>>
  BY DEF TickLive, TickNoReap, TickIdle
<1>3. /\ pc' \in {"sleep", "reap", "due"} /\ lag' \in 0..MaxLag
      /\ (pc' = "sleep" => lag' = 0)
      /\ \/ pc /= "sleep" /\ lag' = lag
         \/ pc' = "sleep"
         \/ pc = "sleep" /\ lag' = lag /\ ~(running /\ 0 > lease_deadline)
  BY <1>1, TimeAssumption DEF TypeOK, TickLive, TickNoReap, TickIdle
<1>4. TypeOK'
  BY <1>1, <1>2, <1>3 DEF TypeOK, control, schedule, timers, isr, events,
     hardware
<1>5. Flight' /\ Books' /\ Mode' /\ Pace' /\ EventAccounting'
  BY <1>1, <1>2 DEF Flight, Books, Mode, Pace, EventAccounting, control,
     schedule, timers, isr, events, hardware
<1>6. Lease'
  <2>1. /\ lease_deadline \in Int /\ UNCHANGED <<running, lease_deadline>>
        /\ pc = "sleep" => lag = 0
    BY <1>1, <1>2, TimeAssumption DEF TypeOK, Lease, control, timers
  <2>2. CASE pc /= "sleep" /\ lag' = lag
    BY <1>1, <1>3, <2>1, <2>2 DEF Lease
  <2>3. CASE pc' = "sleep"
    BY <1>3, <2>3 DEF Lease
  <2>4. CASE pc = "sleep" /\ lag' = lag /\ ~(running /\ 0 > lease_deadline)
    <3>1. lag' = 0
      BY <2>1, <2>4
    <3>2. running' => lease_deadline' >= 0
      BY <2>1, <2>4
    <3>3. QED  BY <2>1, <3>1, <3>2 DEF Lease
  <2>5. QED  BY <1>3, <2>2, <2>3, <2>4
<1>7. Record' /\ OutcomeExact' /\ OneVerdict'
  BY <1>2, QuietStep DEF schedule, isr, events
<1>8. QED  BY <1>4, <1>5, <1>6, <1>7 DEF IInv

LEMMA ReapInv == IInv /\ TickReap => IInv'
<1> SUFFICES ASSUME IInv, TickReap PROVE IInv'
  OBVIOUS
<1> DEFINE error == completion_error
           terminal == completion_error /= "OK" \/ remaining = 0
<1>1. /\ TypeOK /\ Flight /\ Books /\ Mode /\ Lease /\ Pace /\ Record
      /\ EventAccounting
  BY DEF IInv
<1>2. /\ pc = "reap" /\ inflight /\ completion_ready = 1
      /\ pc' = "due" /\ completion_ready' = 0 /\ ~inflight' /\ inflight' \in BOOLEAN
      /\ event(completed', error, terminal)
      /\ scheduled' = (scheduled /\ ~terminal)
      /\ UNCHANGED <<control, tx_request, remaining, interval_ms, count, timers,
                     completion_error, busy, bus, lag, hardware, idle>>
  BY DEF TickReap
<1>3. /\ scheduled /\ running /\ active /\ ~busy /\ tx_request \in Requests
      /\ error \in {"OK", "EIO"} /\ completed \in Nat /\ remaining \in Nat
      /\ count[tx_request] \in 0..MaxCount
      /\ count[tx_request] = completed + remaining + 1
      /\ bus[tx_request] = completed + One(error = "OK")
      /\ bus \in [Requests -> 0..MaxCount]
  BY <1>1, <1>2 DEF Flight, Books, One, TypeOK
<1>4. /\ completed' = bus[tx_request] /\ completed' \in 0..MaxCount
      /\ completed' \in Nat /\ completed' >= completed
      /\ completed' + remaining <= count[tx_request]
      /\ error = "OK" => completed' = completed + 1
                         /\ count[tx_request] = completed' + remaining
      /\ error /= "OK" => completed' = completed
  <2>1. CASE error = "OK"
    <3>1. completed' = completed + 1
      BY <2>1 DEF TickReap
    <3>2. QED  BY <1>3, <2>1, <3>1, RequestAssumption DEF One
  <2>2. CASE error /= "OK"
    <3>1. completed' = completed
      BY <2>2 DEF TickReap
    <3>2. QED  BY <1>3, <2>2, <3>1, RequestAssumption DEF One
  <2>3. QED  BY <2>1, <2>2
<1>5. /\ terminal \in BOOLEAN /\ error \in Errors
      /\ scheduled' \in BOOLEAN /\ (scheduled' <=> ~terminal)
      /\ (~terminal => error = "OK" /\ remaining >= 1)
      /\ (terminal /\ error = "OK" => remaining = 0)
  <2>1. terminal \in BOOLEAN /\ error \in Errors
    BY <1>3
  <2>2. scheduled' <=> ~terminal
    BY <1>2, <1>3
  <2>3. scheduled' \in BOOLEAN
    BY <1>2, <1>3
  <2>4. ~terminal => error = "OK" /\ remaining >= 1
    BY <1>3
  <2>5. QED  BY <2>1, <2>2, <2>3, <2>4
<1> HIDE DEF terminal, error
<1>6. /\ tx_events' \in Seq(Event) /\ Len(tx_events') <= EventDepth
      /\ tx_event_drops' \in Nat /\ taken' \in Nat
      /\ emitted' \in Seq(Event)
      /\ Len(emitted') = Len(emitted) + 1
      /\ emitted'[Len(emitted) + 1] =
           [request |-> tx_request, completed |-> completed', error |-> error,
            terminal |-> terminal]
      /\ EventAccounting'
  BY <1>1, <1>2, <1>3, <1>4, <1>5, EventStep
<1>7. Honest(emitted[Len(emitted)])'
  <2>1. emitted'[Len(emitted')] =
           [request |-> tx_request, completed |-> completed', error |-> error,
            terminal |-> terminal]
    BY <1>6
  <2>2. count' = count /\ bus' = bus
    BY <1>2
  <2>3. CASE ~terminal
    BY <1>3, <1>4, <1>5, <2>1, <2>2, <2>3 DEF Honest
  <2>4. CASE terminal /\ error = "OK"
    BY <1>3, <1>4, <1>5, <2>1, <2>2, <2>4 DEF Honest
  <2>5. CASE terminal /\ error /= "OK"
    BY <1>3, <1>4, <2>1, <2>2, <2>5 DEF Honest, error
  <2>6. QED  BY <1>5, <2>3, <2>4, <2>5
<1>8. Record' /\ OutcomeExact' /\ OneVerdict'
  <2>1. /\ UNCHANGED <<tx_request, count>> /\ bus' \in [Requests -> 0..MaxCount]
        /\ \A r \in Requests \ {tx_request} : bus'[r] = bus[r]
        /\ bus'[tx_request] >= bus[tx_request]
        /\ bus'[tx_request] <= count[tx_request]
    BY <1>1, <1>2, <1>3 DEF Record
  <2>2. QED  BY <1>2, <1>3, <1>4, <1>5, <1>7, <2>1, RaiseStep
<1>9. TypeOK'
  BY <1>1, <1>2, <1>4, <1>5, <1>6 DEF TypeOK, control, timers, hardware
<1>10. Flight' /\ Mode' /\ Lease'
  BY <1>1, <1>2, <1>3 DEF Flight, Mode, Lease, control, timers, hardware
<1>11. Books'
  BY <1>1, <1>2, <1>3, <1>4, <1>5 DEF Books, One, control
<1>12. Pace'
  BY <1>1, <1>2, <1>3 DEF Pace, timers
<1>13. QED  BY <1>6, <1>8, <1>9, <1>10, <1>11, <1>12 DEF IInv

LEMMA SendInv == IInv /\ TickSend => IInv'
<1> SUFFICES ASSUME IInv, TickSend PROVE IInv'
  OBVIOUS
<1>1. TypeOK /\ Flight /\ Books /\ Mode /\ Lease /\ Pace /\ EventAccounting
  BY DEF IInv
<1>2. /\ UNCHANGED <<control, scheduled, tx_request, completed, interval_ms,
                     count, lease_deadline, completion_ready, completion_error,
                     bus, events, hardware>>
      /\ pc' = "sleep" /\ lag' = 0 /\ inflight' /\ busy' /\ idle' = 0
      /\ inflight' \in BOOLEAN /\ busy' \in BOOLEAN
      /\ remaining' = remaining - 1
      /\ tx_deadline' = TxDeadlineMs - lag /\ next_send' = interval_ms - lag
      /\ scheduled /\ ~inflight
  BY DEF TickSend, Due
<1>3. /\ remaining \in 1..MaxCount /\ completion_ready = 0
      /\ completed \in Nat /\ count[tx_request] = completed + remaining
      /\ lag \in 0..MaxLag /\ interval_ms \in Nat
  BY <1>1, <1>2, IntervalAssumption DEF TypeOK, Flight, Books, One
<1>4. /\ remaining' \in 0..MaxCount /\ remaining = remaining' + 1
      /\ tx_deadline' \in Past..TxDeadlineMs
      /\ next_send' \in Int /\ next_send' >= Past
      /\ next_send' + 0 >= interval_ms - MaxLag
  BY <1>2, <1>3, RequestAssumption, TimeAssumption
<1>5. TypeOK'
  BY <1>1, <1>2, <1>4, TimeAssumption DEF TypeOK, control, events, hardware
<1>6. Flight' /\ Mode' /\ Lease' /\ EventAccounting'
  BY <1>1, <1>2, <1>3 DEF Flight, Mode, Lease, EventAccounting, control,
     events, hardware
<1>7. Books'
  BY <1>1, <1>2, <1>3, <1>4 DEF Books, One, control
<1>8. Pace'
  BY <1>2, <1>4 DEF Pace
<1>9. Record' /\ OutcomeExact' /\ OneVerdict'
  BY <1>2, QuietStep DEF events
<1>10. QED  BY <1>5, <1>6, <1>7, <1>8, <1>9 DEF IInv

LEMMA SendFailsInv == IInv /\ TickSendFails => IInv'
<1> SUFFICES ASSUME IInv, TickSendFails PROVE IInv'
  OBVIOUS
<1>1. /\ TypeOK /\ Flight /\ Books /\ Mode /\ Lease /\ Pace /\ Record
      /\ EventAccounting
  BY DEF IInv
<1>2. /\ UNCHANGED <<control, tx_request, completed, interval_ms, count,
                     lease_deadline, isr, hardware, idle>>
      /\ pc' = "sleep" /\ lag' = 0 /\ ~inflight' /\ ~scheduled'
      /\ inflight' \in BOOLEAN /\ scheduled' \in BOOLEAN
      /\ remaining' = remaining - 1
      /\ tx_deadline' = TxDeadlineMs - lag /\ next_send' = interval_ms - lag
      /\ scheduled /\ ~inflight
      /\ event(completed, "EIO", TRUE)
  BY DEF TickSendFails, Due
<1>3. /\ remaining \in 1..MaxCount /\ completion_ready = 0 /\ ~busy
      /\ completed \in Nat /\ count[tx_request] = completed + remaining
      /\ lag \in 0..MaxLag /\ interval_ms \in Nat
      /\ tx_request \in Requests /\ bus[tx_request] = completed
      /\ bus \in [Requests -> 0..MaxCount]
      /\ "EIO" \in Errors /\ TRUE \in BOOLEAN /\ "EIO" /= "OK"
  BY <1>1, <1>2, IntervalAssumption DEF TypeOK, Flight, Books, One
<1>4. /\ remaining' \in 0..MaxCount
      /\ tx_deadline' \in Past..TxDeadlineMs
      /\ next_send' \in Int /\ next_send' >= Past
  BY <1>2, <1>3, RequestAssumption, TimeAssumption
<1>5. /\ tx_events' \in Seq(Event) /\ Len(tx_events') <= EventDepth
      /\ tx_event_drops' \in Nat /\ taken' \in Nat
      /\ emitted' \in Seq(Event)
      /\ Len(emitted') = Len(emitted) + 1
      /\ emitted'[Len(emitted) + 1] =
           [request |-> tx_request, completed |-> completed, error |-> "EIO",
            terminal |-> TRUE]
      /\ EventAccounting'
  BY <1>1, <1>2, <1>3, EventStep
<1>6. Honest(emitted[Len(emitted)])'
  <2>1. emitted'[Len(emitted')] =
           [request |-> tx_request, completed |-> completed, error |-> "EIO",
            terminal |-> TRUE]
    BY <1>5
  <2>2. count' = count /\ bus' = bus /\ completed < count[tx_request]
    BY <1>2, <1>3 DEF isr
  <2>3. QED  BY <1>3, <2>1, <2>2 DEF Honest
<1>7. Record' /\ OutcomeExact' /\ OneVerdict'
  <2>1. /\ UNCHANGED <<tx_request, count>> /\ bus' \in [Requests -> 0..MaxCount]
        /\ \A r \in Requests \ {tx_request} : bus'[r] = bus[r]
        /\ bus'[tx_request] >= bus[tx_request]
        /\ bus'[tx_request] <= count[tx_request]
        /\ (scheduled' <=> ~TRUE) /\ completed' = completed
        /\ completed >= completed
    BY <1>1, <1>2, <1>3 DEF Record, isr
  <2>2. QED  BY <1>2, <1>3, <1>6, <2>1, RaiseStep
<1>8. TypeOK'
  BY <1>1, <1>2, <1>4, <1>5, TimeAssumption DEF TypeOK, control, isr, hardware
<1>9. Flight' /\ Mode' /\ Lease' /\ Books' /\ Pace'
  BY <1>1, <1>2, <1>3 DEF Flight, Books, Mode, Lease, Pace, control, isr,
     hardware
<1>10. QED  BY <1>5, <1>7, <1>8, <1>9 DEF IInv
-----------------------------------------------------------------------------
LEMMA NextIInv == IInv /\ [Next]_vars => IInv'
<1> SUFFICES ASSUME IInv, [Next]_vars PROVE IInv'
  OBVIOUS
<1>1. CASE Operation
  BY <1>1, StopInv, LeaseInv, StartInv, ConfigureInv, TxInv, TakeInv
     DEF Operation
<1>2. CASE \E error \in {"OK", "EIO"} : tx_done(error)
  BY <1>2, DoneInv
<1>3. CASE Advance
  BY <1>3, AdvanceInv
<1>4. CASE scheduler_tick
  BY <1>4, ExpireInv, PassInv, ReapInv, GiveUpInv, SendInv, SendFailsInv
     DEF scheduler_tick
<1>5. CASE UNCHANGED vars
  <2>1. UNCHANGED <<control, schedule, timers, isr, events, thread, hardware, idle>>
    BY <1>5 DEF vars
  <2>2. /\ TypeOK /\ Flight /\ Books /\ Mode /\ Lease /\ Pace /\ EventAccounting
    BY DEF IInv
  <2>3. TypeOK'
    BY <2>1, <2>2 DEF TypeOK, control, schedule, timers, isr, events, thread,
       hardware
  <2>4. Flight' /\ Books' /\ Mode' /\ Lease' /\ Pace' /\ EventAccounting'
    BY <2>1, <2>2 DEF Flight, Books, Mode, Lease, Pace, EventAccounting,
       control, schedule, timers, isr, events, thread, hardware
  <2>5. Record' /\ OutcomeExact' /\ OneVerdict'
    BY <2>1, QuietStep DEF schedule, isr, events
  <2>6. QED  BY <2>3, <2>4, <2>5 DEF IInv
<1>6. QED  BY <1>1, <1>2, <1>3, <1>4, <1>5 DEF Next

(* The inductive invariant holds of every behaviour. *)
THEOREM Invariance == Spec => []IInv
<1>1. QED  BY InitIInv, NextIInv, PTL DEF Spec

(* capture.c: no counter underflows or overflows its range, no deadline,   *)
(* queue or state is ever outside its type.                                *)
THEOREM TypeCorrect == Spec => []TypeOK
<1>1. IInv => TypeOK
  BY DEF IInv
<1>2. QED  BY <1>1, Invariance, PTL

(* What the events of a TX command say of the bus is true (event(),        *)
(* stop_locked() and scheduler_tick() of capture.c).                       *)
THEOREM EventsAreHonest == Spec => []OutcomeExact
<1>1. IInv => OutcomeExact
  BY DEF IInv
<1>2. QED  BY <1>1, Invariance, PTL

(* Every accepted TX command gets exactly one terminal event, and no event *)
(* follows it.                                                             *)
THEOREM ExactlyOneVerdict == Spec => []OneVerdict
<1>1. IInv => OneVerdict
  BY DEF IInv
<1>2. QED  BY <1>1, Invariance, PTL

(* No event is lost without being counted. *)
THEOREM EventsAccounted == Spec => []EventAccounting
<1>1. IInv => EventAccounting
  BY DEF IInv
<1>2. QED  BY <1>1, Invariance, PTL

(* The controller never holds a frame without the permission to transmit,  *)
(* and a stopped adapter is silent.                                        *)
THEOREM Permission == Spec => []TransmitOnlyWithPermission
<1>1. IInv => TransmitOnlyWithPermission
  BY DEF IInv, Flight, Books, Mode, TransmitOnlyWithPermission
<1>2. QED  BY <1>1, Invariance, PTL

(* Only the send of a tick hands a frame to the controller. *)
LEMMA OnlySend == [Next]_vars /\ ~busy /\ busy' => TickSend
BY DEF Next, Operation, capture_stop, stop_locked, can_stop, capture_lease,
   capture_start, capture_configure, capture_tx, TakeEvent, LoseEvent,
   capture_discard_tx, tx_done, Advance, scheduler_tick, TickExpire, TickLive, TickReap,
   TickNoReap, TickGiveUp, TickSendFails, TickIdle, isr, vars

LEMMA AtLeast ==
    ASSUME NEW d \in Int, NEW l \in Nat, NEW m \in Nat, l <= m
    PROVE  d >= -l => d >= -m
OBVIOUS

(* No frame is sent once the lease ran out more than a preemption ago. *)
THEOREM LeaseGuardsSends == Spec => SendWithinLease
<1>1. ASSUME IInv, [Next]_vars, ~busy, busy'
      PROVE  lease_deadline >= -MaxLag
  <2>1. pc = "due" /\ scheduled
    BY <1>1, OnlySend DEF TickSend, Due
  <2>2. /\ running /\ lease_deadline \in Int /\ lag \in Nat /\ MaxLag \in Nat
        /\ lag <= MaxLag
    BY <1>1, <2>1, TimeAssumption DEF IInv, TypeOK, Books
  <2>3. lease_deadline >= -lag
    BY <1>1, <2>1, <2>2 DEF IInv, Lease
  <2>4. QED  BY <2>2, <2>3, AtLeast
<1>2. IInv /\ [Next]_vars
      => [~busy /\ busy' => lease_deadline >= -MaxLag]_vars
  BY <1>1
<1>3. QED  BY <1>2, Invariance, PTL DEF Spec, SendWithinLease

LEMMA Paced ==
    ASSUME NEW n \in Int, NEW i \in Nat, NEW l \in Nat, NEW c \in Int,
           -l >= n, n + i >= c
    PROVE  i >= c
OBVIOUS

(* Two frames of one schedule are a cycle time apart, less a preemption:   *)
(* next_send is set from the time of the send, not from the last due time. *)
THEOREM SendsArePaced == Spec => NoCatchUpBurst
<1>1. ASSUME IInv, [Next]_vars, ~busy, busy', remaining < count[tx_request]
      PROVE  idle >= interval_ms - MaxLag
  <2>1. scheduled /\ -lag >= next_send
    BY <1>1, OnlySend DEF TickSend, Due
  <2>2. /\ next_send \in Int /\ idle \in Nat /\ lag \in Nat
        /\ interval_ms - MaxLag \in Int
    BY <1>1, TimeAssumption, IntervalAssumption DEF IInv, TypeOK
  <2>3. \/ idle >= interval_ms - MaxLag
        \/ next_send + idle >= interval_ms - MaxLag
    BY <1>1, <2>1 DEF IInv, Pace
  <2>4. QED  BY <2>1, <2>2, <2>3, Paced
<1>2. IInv /\ [Next]_vars
      => [~busy /\ busy' /\ remaining < count[tx_request]
          => idle >= interval_ms - MaxLag]_vars
  BY <1>1
<1>3. QED  BY <1>2, Invariance, PTL DEF Spec, NoCatchUpBurst
-----------------------------------------------------------------------------
(* Capture implements CaptureContract: every step of the capture core is a *)
(* step of the contract or leaves what the contract speaks of alone.       *)

(* An event of the core is an event of the contract. *)
LEMMA EventRaises ==
    ASSUME NEW done, NEW error, NEW terminal, event(done, error, terminal)
    PROVE  Contract!Raise(Contract!Outcome(done, error, terminal)) /\ UNCHANGED taken
BY DEF event, Contract!Raise, Contract!Outcome

(* A stop closes the contract's schedule: "cancelled" only without doubt.  *)
LEMMA StopCloses ==
    ASSUME IInv, stop_locked
    PROVE  /\ Contract!Close /\ UNCHANGED taken
           /\ running' = FALSE /\ scheduled' = FALSE
           /\ UNCHANGED <<tx_request, completed, count>>
<1>1. TypeOK /\ Flight /\ Books
  BY DEF IInv
<1>2. /\ running' = FALSE /\ scheduled' = FALSE
      /\ UNCHANGED <<tx_request, completed, count>>
  BY DEF stop_locked
<1>3. CASE ~scheduled
  <2>1. ~inflight /\ ~busy
    BY <1>1, <1>3 DEF Flight
  <2>2. UNCHANGED <<bus, events>>
    BY <1>1, <1>3, <2>1 DEF stop_locked, can_stop, TypeOK
  <2>3. QED  BY <1>2, <1>3, <2>2 DEF Contract!Close, Contract!eventvars, events
<1>4. CASE scheduled
  <2> DEFINE error == IF inflight THEN "EINPROGRESS" ELSE "ECANCELED"
  <2>1. event(completed, error, TRUE)
    BY <1>4 DEF stop_locked
  <2>2. /\ running /\ tx_request \in Requests /\ completed \in Nat
        /\ bus \in [Requests -> 0..MaxCount]
        /\ count[tx_request] \in Nat /\ completed < count[tx_request]
        /\ bus[tx_request] \in {completed, completed + 1}
        /\ ~inflight => bus[tx_request] = completed /\ ~busy
        /\ busy => bus[tx_request] = completed
    BY <1>1, <1>4 DEF TypeOK, Flight, Books, One
  <2>3. \/ bus' = bus
        \/ busy /\ bus' = [bus EXCEPT ![tx_request] = @ + 1]
    BY <1>1, <2>2 DEF stop_locked, can_stop, TypeOK
  <2>4. CASE ~inflight
    <3>1. event(completed, "ECANCELED", TRUE) /\ bus' = bus
      BY <2>1, <2>2, <2>3, <2>4
    <3>2. Contract!Raise(Contract!Outcome(completed, "ECANCELED", TRUE))
          /\ UNCHANGED taken
      BY <3>1, EventRaises
    <3>3. QED  BY <1>2, <1>4, <2>2, <2>4, <3>1, <3>2 DEF Contract!Close
  <2>5. CASE inflight
    <3>1. event(completed, "EINPROGRESS", TRUE)
      BY <2>1, <2>5
    <3>2. Contract!Raise(Contract!Outcome(completed, "EINPROGRESS", TRUE))
          /\ UNCHANGED taken
      BY <3>1, EventRaises
    <3>3. \E n \in {completed, completed + 1} :
            n >= bus[tx_request] /\ bus' = [bus EXCEPT ![tx_request] = n]
      <4>1. CASE bus' = bus
        <5>1. bus' = [bus EXCEPT ![tx_request] = bus[tx_request]]
          BY <2>2, <4>1
        <5>2. bus[tx_request] >= bus[tx_request]
          BY <2>2
        <5>3. QED  BY <2>2, <5>1, <5>2
      <4>2. CASE busy /\ bus' = [bus EXCEPT ![tx_request] = @ + 1]
        <5>1. bus' = [bus EXCEPT ![tx_request] = completed + 1]
          BY <2>2, <4>2
        <5>2. completed + 1 >= bus[tx_request]
          BY <2>2, <4>2
        <5>3. QED  BY <5>1, <5>2
      <4>3. QED  BY <2>3, <4>1, <4>2
    <3>4. QED  BY <1>2, <1>4, <2>2, <3>2, <3>3 DEF Contract!Close
  <2>6. QED  BY <2>4, <2>5
<1>5. QED  BY <1>1, <1>3, <1>4 DEF TypeOK

LEMMA InitContract == Init => Contract!Init
BY DEF Init, Contract!Init

LEMMA ReapContract ==
    IInv /\ TickReap => Contract!Report \/ Contract!Fail
<1> SUFFICES ASSUME IInv, TickReap PROVE Contract!Report \/ Contract!Fail
  OBVIOUS
<1>1. TypeOK /\ Flight /\ Books
  BY DEF IInv
<1>2. /\ inflight /\ completion_ready = 1
      /\ event(completed', completion_error,
               completion_error /= "OK" \/ remaining = 0)
      /\ scheduled' = (scheduled /\ ~(completion_error /= "OK" \/ remaining = 0))
      /\ UNCHANGED <<control, tx_request, count, bus>>
  BY DEF TickReap
<1>3. /\ scheduled /\ completion_error \in {"OK", "EIO"}
      /\ completed \in Nat /\ remaining \in Nat /\ count[tx_request] \in Nat
      /\ count[tx_request] = completed + remaining + 1
      /\ bus[tx_request] = completed + One(completion_error = "OK")
  BY <1>1, <1>2 DEF Flight, Books, One, TypeOK
<1>4. CASE completion_error = "OK"
  <2>1. completed' = completed + 1
    BY <1>4 DEF TickReap
  <2>2. (completion_error /= "OK" \/ remaining = 0)
          = (completed' = count[tx_request])
    BY <1>3, <1>4, <2>1
  <2>3. event(completed', "OK", completed' = count[tx_request])
        /\ scheduled' = ~(completed' = count[tx_request])
    BY <1>2, <1>3, <1>4, <2>2
  <2>4. Contract!Raise(Contract!Outcome(completed', "OK",
                                        completed' = count[tx_request]))
        /\ UNCHANGED taken
    BY <2>3, EventRaises
  <2>5. QED  BY <1>2, <1>3, <1>4, <2>1, <2>3, <2>4
             DEF Contract!Report, One, control
<1>5. CASE completion_error = "EIO"
  <2>1. completed' = completed
    BY <1>5 DEF TickReap
  <2>2. event(completed, "EIO", TRUE) /\ scheduled' = FALSE
    BY <1>2, <1>5, <2>1
  <2>3. Contract!Raise(Contract!Outcome(completed, "EIO", TRUE))
        /\ UNCHANGED taken
    BY <2>2, EventRaises
  <2>4. completed < count[tx_request] /\ bus[tx_request] = completed
    BY <1>3, <1>5 DEF One
  <2>5. QED  BY <1>2, <1>3, <2>1, <2>2, <2>3, <2>4 DEF Contract!Fail, control
<1>6. QED  BY <1>3, <1>4, <1>5

LEMMA SendFailsContract == IInv /\ TickSendFails => Contract!Fail
<1> SUFFICES ASSUME IInv, TickSendFails PROVE Contract!Fail
  OBVIOUS
<1>1. TypeOK /\ Flight /\ Books
  BY DEF IInv
<1>2. /\ scheduled /\ ~inflight /\ scheduled' = FALSE
      /\ event(completed, "EIO", TRUE)
      /\ UNCHANGED <<control, tx_request, completed, count, bus>>
  BY DEF TickSendFails, Due, isr
<1>3. bus[tx_request] = completed /\ completed < count[tx_request]
  BY <1>1, <1>2 DEF Flight, Books, One, TypeOK
<1>4. Contract!Raise(Contract!Outcome(completed, "EIO", TRUE))
      /\ UNCHANGED taken
  BY <1>2, EventRaises
<1>5. QED  BY <1>2, <1>3, <1>4 DEF Contract!Fail, control

LEMMA DoneContract ==
    ASSUME IInv, NEW error \in {"OK", "EIO"}, tx_done(error)
    PROVE  Contract!Transmit \/ UNCHANGED Contract!vars
<1>1. TypeOK /\ Flight /\ Books
  BY DEF IInv
<1>2. busy /\ UNCHANGED <<control, schedule, events>>
  BY DEF tx_done
<1>3. /\ scheduled /\ tx_request \in Requests /\ bus[tx_request] = completed
      /\ completed < count[tx_request] /\ bus \in [Requests -> 0..MaxCount]
  BY <1>1, <1>2 DEF Flight, Books, One, TypeOK
<1>4. CASE error = "OK"
  <2>1. bus' = [bus EXCEPT ![tx_request] = completed + 1]
    BY <1>3, <1>4 DEF tx_done
  <2>2. QED  BY <1>2, <1>3, <2>1 DEF Contract!Transmit, Contract!eventvars,
             control, schedule, events
<1>5. CASE error /= "OK"
  <2>1. bus' = bus
    BY <1>5 DEF tx_done
  <2>2. QED  BY <1>2, <2>1 DEF Contract!vars, Contract!eventvars, control,
             schedule, events
<1>6. QED  BY <1>4, <1>5

(* The operations of the server thread. *)
LEMMA OperationContract ==
    IInv /\ Operation => Contract!Next \/ UNCHANGED Contract!vars
<1> SUFFICES ASSUME IInv, Operation PROVE Contract!Next \/ UNCHANGED Contract!vars
  OBVIOUS
<1>1. CASE capture_stop
  <2>1. Contract!Halt
    BY <1>1, StopCloses DEF capture_stop, Contract!Halt
  <2>2. QED  BY <2>1 DEF Contract!Next
<1>2. CASE capture_lease
  BY <1>2 DEF capture_lease, Contract!vars, Contract!eventvars, control,
     schedule, isr, events
<1>3. CASE capture_start
  <2>1. Contract!Start \/ UNCHANGED Contract!vars
    BY <1>3 DEF capture_start, Contract!Start, Contract!vars,
       Contract!eventvars, schedule, isr, events
  <2>2. QED  BY <2>1 DEF Contract!Next
<1>4. CASE \E on \in BOOLEAN : capture_configure(on)
  <2>1. Contract!Configure
    BY <1>4, StopCloses DEF capture_configure, Contract!Configure
  <2>2. QED  BY <2>1 DEF Contract!Next
<1>5. CASE \E r \in Requests, n \in 1..MaxCount, interval \in Intervals :
             count[r] = 0 /\ capture_tx(r, n, interval)
  <2>1. PICK r \in Requests, n \in 1..MaxCount, interval \in Intervals :
          count[r] = 0 /\ capture_tx(r, n, interval)
    BY <1>5
  <2>2. Contract!Accept(r, n)
    BY <2>1 DEF capture_tx, Contract!Accept, Contract!eventvars, control, isr,
       events
  <2>3. QED  BY <2>2 DEF Contract!Next
<1>6. CASE TakeEvent \/ LoseEvent \/ capture_discard_tx
  <2>1. Contract!Take \/ Contract!Lose \/ Contract!DiscardEvents
    BY <1>6 DEF TakeEvent, LoseEvent, capture_discard_tx, Contract!Take,
       Contract!Lose, Contract!DiscardEvents, control, schedule, isr
  <2>2. QED  BY <2>1 DEF Contract!Next
<1>7. QED  BY <1>1, <1>2, <1>3, <1>4, <1>5, <1>6 DEF Operation

LEMMA TickContract ==
    IInv /\ scheduler_tick => Contract!Next \/ UNCHANGED Contract!vars
<1> SUFFICES ASSUME IInv, scheduler_tick
             PROVE  Contract!Next \/ UNCHANGED Contract!vars
  OBVIOUS
<1>1. CASE TickExpire \/ TickGiveUp
  <2>1. Contract!Halt
    BY <1>1, StopCloses DEF TickExpire, TickGiveUp, Contract!Halt
  <2>2. QED  BY <2>1 DEF Contract!Next
<1>2. CASE TickLive \/ TickNoReap \/ TickIdle
  BY <1>2 DEF TickLive, TickNoReap, TickIdle, Contract!vars,
     Contract!eventvars, control, schedule, isr, events
<1>3. CASE TickReap
  BY <1>3, ReapContract DEF Contract!Next
<1>4. CASE TickSend
  BY <1>4 DEF TickSend, Contract!vars, Contract!eventvars, control, events
<1>5. CASE TickSendFails
  BY <1>5, SendFailsContract DEF Contract!Next
<1>6. QED  BY <1>1, <1>2, <1>3, <1>4, <1>5 DEF scheduler_tick

(* The capture core implements its contract. *)
THEOREM Refinement == Spec => ImplementsContract
<1>1. IInv /\ [Next]_vars => [Contract!Next]_(Contract!vars)
  <2> SUFFICES ASSUME IInv, [Next]_vars
               PROVE  Contract!Next \/ UNCHANGED Contract!vars
    OBVIOUS
  <2>1. CASE Operation
    BY <2>1, OperationContract
  <2>2. CASE \E error \in {"OK", "EIO"} : tx_done(error)
    BY <2>2, DoneContract DEF Contract!Next
  <2>3. CASE Advance
    BY <2>3 DEF Advance, Contract!vars, Contract!eventvars, control, schedule,
       isr, events
  <2>4. CASE scheduler_tick
    BY <2>4, TickContract
  <2>5. CASE UNCHANGED vars
    BY <2>5 DEF vars, Contract!vars, Contract!eventvars, control, schedule,
       isr, events
  <2>6. QED  BY <2>1, <2>2, <2>3, <2>4, <2>5 DEF Next
<1>2. QED  BY <1>1, InitContract, Invariance, PTL
           DEF Spec, ImplementsContract, Contract!Spec
=============================================================================
