------------------------------ MODULE RxStream ------------------------------
(* A frame's way from the CAN controller to the recording: RxQueue, the    *)
(* connection, the reader thread of the PC client (client.py), its bounded *)
(* queue of events, and the worker of the monitor (cli.py) whose           *)
(* SequenceTracker (model.py) reports the gaps.                            *)
(*                                                                         *)
(* One client at a time is followed: each connection has a Client, a       *)
(* worker and a tracker of its own.                                        *)
EXTENDS RxQueue

CONSTANT EventCapacity           \* capacity of Client.events

ASSUME CapacityAssumption == EventCapacity \in Nat \ {0}

VARIABLES
    wire,                        \* packets in the connection
    closed,                      \* Client.closed
    events,                      \* Client.events
    pc_queue_discards,
    packet,                      \* what the worker has still to observe
    last, gaps,                  \* the SequenceTracker; last is 0 for None
    raised,                      \* it raised: a sequence that did not increase
    observed                     \* history: the frames it was given

pcvars == <<wire, closed, events, pc_queue_discards, packet, last, gaps,
            raised, observed>>

StreamTypeOK ==
    /\ TypeOK
    /\ wire \in Seq(Seq(Nat)) /\ closed \in BOOLEAN
    /\ events \in Seq(Seq(Nat)) /\ Len(events) <= EventCapacity
    /\ pc_queue_discards \in {0, 1} /\ packet \in Seq(Nat)
    /\ last \in Nat /\ gaps \in Nat /\ raised \in BOOLEAN
    /\ observed \in SUBSET Nat

StreamInit ==
    /\ Init
    /\ wire = <<>> /\ closed = TRUE /\ events = <<>> /\ pc_queue_discards = 0
    /\ packet = <<>> /\ last = 0 /\ gaps = 0 /\ raised = FALSE /\ observed = {}
-----------------------------------------------------------------------------
(* A new client connects. *)
Connect ==
    /\ Accept
    /\ wire' = <<>> /\ closed' = FALSE /\ events' = <<>>
    /\ pc_queue_discards' = 0 /\ packet' = <<>>
    /\ last' = 0 /\ gaps' = 0 /\ raised' = FALSE /\ observed' = {}

(* A packet sent to a client that has closed is lost, as is one that is    *)
(* still in the connection then.                                           *)
Carried == IF closed \/ batch = <<>> THEN wire ELSE Append(wire, batch)

SendPacket ==
    /\ SendBatch
    /\ wire' = Carried
    /\ UNCHANGED <<closed, events, pc_queue_discards, packet, last, gaps,
                   raised, observed>>

(* The send that fails may have reached the client all the same; it is the *)
(* last of the connection.                                                 *)
SendPacketFails ==
    /\ SendBatchFails
    /\ wire' \in {wire, Carried}
    /\ UNCHANGED <<closed, events, pc_queue_discards, packet, last, gaps,
                   raised, observed>>

ServeElse == Serve /\ UNCHANGED pcvars
DeviceElse == (rx \/ Halted \/ Command \/ Disconnect) /\ UNCHANGED pcvars
-----------------------------------------------------------------------------
EventRoom == Len(events) < EventCapacity

(* A reader that drops what does not fit and goes on. *)
EndAtOverflowNot == FALSE
EndAtOverflow == TRUE

(* The reader thread: queue a packet, or close on a full queue. *)
Read ==
    /\ ~closed /\ wire /= <<>>
    /\ wire' = Tail(wire)
    /\ \/ /\ EventRoom
          /\ events' = Append(events, Head(wire))
          /\ UNCHANGED <<closed, pc_queue_discards>>
       \/ /\ ~EventRoom
          /\ closed' = EndAtOverflow /\ pc_queue_discards' = 1
          /\ UNCHANGED events
    /\ UNCHANGED <<packet, last, gaps, raised, observed, vars>>

(* The device has closed the connection, ... *)
ReadEnd ==
    /\ ~closed /\ wire = <<>> /\ phase = "accept"
    /\ closed' = TRUE
    /\ UNCHANGED <<wire, events, pc_queue_discards, packet, last, gaps,
                   raised, observed, vars>>

(* ... or the client does, with packets still under way. *)
Close ==
    /\ ~closed
    /\ closed' = TRUE /\ wire' = <<>>
    /\ UNCHANGED <<events, pc_queue_discards, packet, last, gaps, raised,
                   observed, vars>>

(* A tracker that counts the frame it has as missing. *)
GapOffByOne(from, to) == to - from
Gap(from, to) == to - from - 1

(* The worker takes a packet from the queue, also after the client has     *)
(* closed, ...                                                             *)
Take ==
    /\ ~raised /\ packet = <<>> /\ events /= <<>>
    /\ packet' = Head(events) /\ events' = Tail(events)
    /\ UNCHANGED <<wire, closed, pc_queue_discards, last, gaps, raised,
                   observed, vars>>

(* ... and has its frames observed, one by one.  If the tracker raises,    *)
(* the worker closes the client and ends.                                  *)
observe ==
    /\ ~raised /\ packet /= <<>>
    /\ LET n == Head(packet)
       IN  /\ raised' = (last /= 0 /\ n <= last)
           /\ last' = IF raised' THEN last ELSE n
           /\ gaps' = IF raised' \/ last = 0 THEN gaps ELSE gaps + Gap(last, n)
           /\ observed' = IF raised' THEN observed ELSE observed \cup {n}
    /\ packet' = Tail(packet)
    /\ closed' = (closed \/ raised')
    /\ UNCHANGED <<wire, events, pc_queue_discards, vars>>

Server == SendPacket \/ SendPacketFails \/ ServeElse

StreamNext ==
    \/ Connect \/ Server \/ DeviceElse
    \/ Read \/ ReadEnd \/ Close \/ Take \/ observe

(* The server's thread goes on; the client may send packets for ever.      *)
StreamSpec ==
    /\ StreamInit /\ [][StreamNext]_<<vars, pcvars>>
    /\ WF_<<vars, pcvars>>(Server)
-----------------------------------------------------------------------------
(* The gap count a user sees is the truth: between the first and the last  *)
(* frame of a recording, it counts exactly the frames that are missing,    *)
(* and every one of those was counted by the device as a drop or discard.  *)
(* No loss, reconfiguration or reconnection makes the sequence repeat or go*)
(* back: the tracker never raises.                                         *)
Missing == IF observed = {} THEN {} ELSE (Min(observed)..last) \ observed
GapsExplained ==
    /\ gaps = Cardinality(Missing)
    /\ Missing \subseteq lost
    /\ ~raised

(* What the client closed on, a full queue, it also reports: a recording   *)
(* that goes on has lost nothing between the socket and the file.          *)
Frames(packets) == UNION {ToSet(packets[i]) : i \in DOMAIN packets}
Kept == observed \cup ToSet(packet) \cup Frames(events) \cup Frames(wire)
NothingSkipped ==
    ~closed => pc_queue_discards = 0 /\ \A s \in sent : s > base => s \in Kept
=============================================================================
