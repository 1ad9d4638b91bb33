-------------------------------- MODULE Send --------------------------------
(* "wcan send": run() of cli.py and the requests it makes of its Client,   *)
(* composed with any device that keeps DeviceContract and with the         *)
(* recorder.  Everything may fail: the link, the disk, the device, and the *)
(* user may interrupt.  The inside of the Client is in module Client: here *)
(* it may be closed at any time, by its reader or its heartbeat.  Frames   *)
(* and status that arrive meanwhile are recorded like the events, and left *)
(* out.                                                                    *)
EXTENDS Recorder

CONSTANTS
    Count,            \* args.count, the frames to be sent
    MaxConnections, MaxId, MaxCount    \* of DeviceContract

VARIABLES
    conn, open, executed, answer, permitted, schedule, count, bus, told,
    at, step,         \* where the CLI is, and which request it makes or made
    raised,           \* it is unwinding an exception, or has
    recording,        \* args.output was given
    closed, response, events,         \* Client: closed, the waiter, the queue
    outgoing,         \* the request on its way to the device, 0 for none
    wire              \* answers and events on their way to the client

(* The requests; the pings between them are left out. *)
CONFIGURE == 1
START == 2
TX == 3
STOP == 4

ASSUME SendAssumption ==
    /\ Count \in Nat \ {0} /\ MaxCount \in Nat /\ MaxCount >= Count
    /\ MaxConnections \in Nat \ {0} /\ MaxId \in Nat /\ MaxId >= STOP

Device == INSTANCE DeviceContract

device == <<conn, open, executed, answer, permitted, schedule, count, bus, told>>
cli == <<at, step, raised, recording>>
link == <<closed, response, events, outgoing, wire>>
vars == <<device, cli, link, file>>

(* The acceptance is recorded as a tx_event too; here it has its own type. *)
Line(type) == [type |-> type, event |-> <<>>]
EventLine(e) == [type |-> "tx_event", event |-> <<e>>]
Item(r, a, e) == [request |-> r, answer |-> a, event |-> e]
InTry == step \in {START, TX}

TypeOK ==
    /\ at \in {"connect", "enter", "intent", "send", "await", "create", "accepted",
               "loop", "finally", "disconnect", "close", "leave", "exit"}
    /\ step \in CONFIGURE..STOP /\ outgoing \in 0..STOP
    /\ raised \in BOOLEAN /\ recording \in BOOLEAN /\ closed \in BOOLEAN
    /\ response \in Device!Answers /\ events \in Seq(Device!Event)
    /\ Len(wire) <= STOP + Len(told)
    /\ Len(buffer) <= 2 /\ failures \in 0..2

Init ==
    /\ Device!Init
    /\ at = "connect" /\ step = CONFIGURE /\ raised = FALSE /\ recording \in BOOLEAN
    /\ closed = FALSE /\ response = "none" /\ events = <<>>
    /\ outgoing = 0 /\ wire = <<>>
    /\ lines = <<>> /\ buffer = <<>> /\ file_open = FALSE /\ failures = 0
-----------------------------------------------------------------------------
Goto(from, to) == at = from /\ at' = to

(* An exception leaves the request or the loop: it goes to the finally     *)
(* clause, past it when it came from before the try, and is dropped when   *)
(* it is the last STOP that failed.                                        *)
Raise(from) ==
    /\ Goto(from, IF step = STOP THEN "disconnect"
                  ELSE IF InTry THEN "finally" ELSE "leave")
    /\ raised' = (raised \/ step /= STOP)

(* The except clause of request(). *)
CloseAndRaise(from) == closed' = TRUE /\ Raise(from)

(* The end of "with Client"; without it, the connection stays. *)
LeftOpen == closed
LeftClosed == TRUE

(* An intent that cannot be recorded, and a sender that does not mind. *)
IntentIgnored == Goto("intent", "send") /\ UNCHANGED <<raised, closed>>
IntentFails == CloseAndRaise("intent")

(* A client that takes every response for an ok. *)
AnyAccepted(a) == TRUE
Ok(a) == a /= "error"

(* A sender that takes any end for a success. *)
AnyEnd(e) == TRUE
Completed(e) == e.error = "OK"
-----------------------------------------------------------------------------
(* The program. *)
Connect ==
    /\ \/ Goto("connect", "enter") /\ Device!Connect /\ UNCHANGED raised
       \/ Goto("connect", "exit") /\ raised' = TRUE /\ UNCHANGED device
    /\ UNCHANGED <<step, recording, link, file>>

(* request(): the entry, and the callback that records the intent. *)
Enter ==
    /\ \/ /\ ~closed /\ UNCHANGED raised
          /\ Goto("enter", IF step = TX /\ recording THEN "intent" ELSE "send")
       \/ closed /\ Raise("enter")
    /\ response' = "none"
    /\ UNCHANGED <<device, step, recording, closed, events, outgoing, wire, file>>

Intent ==
    /\ \/ /\ Goto("intent", "send") /\ Written(Line("tx_request"))
          /\ UNCHANGED <<raised, closed>>
       \/ IntentFails /\ WriteFails(Line("tx_request"))
    /\ UNCHANGED <<device, step, recording, response, events, outgoing, wire>>

(* A send that fails may have sent all of the packet. *)
SendRequest ==
    /\ \/ /\ ~closed /\ Goto("send", "await") /\ outgoing' = step
          /\ UNCHANGED <<raised, closed>>
       \/ CloseAndRaise("send") /\ outgoing' \in (IF closed THEN {outgoing}
                                                  ELSE {outgoing, step})
    /\ UNCHANGED <<device, step, recording, response, events, wire, file>>

Answered ==
    /\ response /= "none"
    /\ \/ ~Ok(response) /\ Raise("await") /\ UNCHANGED step
       \/ /\ Ok(response) /\ UNCHANGED raised
          /\ Goto("await", CASE step = CONFIGURE -> "create" [] step = START -> "enter"
                             [] step = TX -> "accepted" [] step = STOP -> "disconnect")
          /\ step' = IF step = START THEN TX ELSE step
    /\ UNCHANGED <<device, recording, link, file>>

(* The deadline of a request may pass at any time. *)
GivesUp ==
    /\ response = "none" /\ CloseAndRaise("await")
    /\ UNCHANGED <<device, step, recording, response, events, outgoing, wire, file>>

(* The file is created before the try. *)
Create ==
    /\ \/ /\ Goto("create", "enter") /\ step' = START /\ UNCHANGED raised
          /\ lines' = (IF recording THEN <<Line("metadata")>> ELSE <<>>)
          /\ file_open' = recording /\ UNCHANGED buffer
       \/ /\ recording /\ Raise("create") /\ UNCHANGED <<step, lines, file_open>>
          /\ buffer' \in {<<>>, <<Line("metadata")>>}
    /\ UNCHANGED <<device, recording, link, failures>>

(* recorder.write(), if there is a recorder. *)
Writes(from, entry, to) ==
    \/ /\ Goto(from, to) /\ UNCHANGED raised
       /\ IF recording THEN Written(entry) ELSE UNCHANGED file
    \/ recording /\ WriteFails(entry) /\ Raise(from)

Accepted ==
    /\ Writes("accepted", Line("accepted"), "loop")
    /\ UNCHANGED <<device, step, recording, link>>

(* The loop: closed, the deadline, or an event from the queue. *)
LoopRaises ==
    /\ Raise("loop")
    /\ UNCHANGED <<device, step, recording, link, file>>

LoopTakes ==
    /\ ~closed /\ events /= <<>> /\ events' = Tail(events)
    /\ LET e == Head(events)
       IN  IF e.terminal /\ ~Completed(e)
           THEN /\ Raise("loop")
                /\ IF recording THEN Written(EventLine(e)) \/ WriteFails(EventLine(e))
                   ELSE UNCHANGED file
           ELSE Writes("loop", EventLine(e), IF e.terminal THEN "finally" ELSE "loop")
    /\ UNCHANGED <<device, step, recording, closed, response, outgoing, wire>>

Finally ==
    /\ \/ ~closed /\ Goto("finally", "enter") /\ step' = STOP
       \/ closed /\ Goto("finally", "disconnect") /\ UNCHANGED step
    /\ UNCHANGED <<device, raised, recording, link, file>>

Disconnect ==
    /\ \/ /\ Goto("disconnect", IF recording THEN "close" ELSE "leave")
          /\ IF recording THEN Written(Line("disconnect")) ELSE UNCHANGED file
          /\ UNCHANGED raised
       \/ /\ recording /\ Goto("disconnect", "leave") /\ raised' = TRUE
          /\ WriteFails(Line("disconnect"))
    /\ UNCHANGED <<device, step, recording, link>>

CloseFile ==
    /\ Goto("close", "leave") /\ FileCloses
    /\ raised' = (raised \/ buffer' /= <<>>)
    /\ UNCHANGED <<device, step, recording, link>>

Leave ==
    /\ Goto("leave", "exit") /\ closed' = LeftClosed
    /\ UNCHANGED <<device, step, raised, recording, response, events, outgoing, wire,
                   file>>

Program ==
    \/ Connect \/ Enter \/ Intent \/ SendRequest \/ Answered \/ GivesUp \/ Create
    \/ Accepted \/ LoopRaises \/ LoopTakes \/ Finally \/ Disconnect \/ CloseFile
    \/ Leave

(* Ctrl-C is not caught by the except clauses; the finally clause runs.  A *)
(* frame that the library refuses to encode raises in the same way.        *)
Interrupt ==
    /\ at \notin {"connect", "leave", "exit"} /\ raised' = TRUE
    /\ at' = IF InTry /\ at \in {"enter", "intent", "send", "await", "accepted", "loop"}
             THEN "finally" ELSE "leave"
    /\ UNCHANGED <<device, step, recording, link, file>>

Finalize ==
    /\ at = "exit" /\ FileCloses
    /\ UNCHANGED <<device, cli, link>>
-----------------------------------------------------------------------------
(* The client's threads close it; the reader hands over what arrives.  An  *)
(* answer that nobody waits for is dropped.                                *)
Lost ==
    /\ ~closed /\ closed' = TRUE
    /\ UNCHANGED <<device, cli, response, events, outgoing, wire, file>>

Reader ==
    /\ ~closed /\ wire /= <<>> /\ wire' = Tail(wire)
    /\ LET item == Head(wire)
       IN  IF item.request = 0
           THEN events' = events \o item.event /\ UNCHANGED response
           ELSE /\ response' = IF at = "await" /\ item.request = step
                               THEN item.answer ELSE response
                /\ UNCHANGED events
    /\ UNCHANGED <<device, cli, closed, outgoing, file>>

(* The device: what a request means to it, within the contract. *)
Ineffective ==
    permitted' = permitted /\ schedule' = schedule /\ count' = count /\ bus' = bus
Meant ==
    CASE outgoing = TX -> count'[TX] = Count \/ Ineffective
      [] outgoing = STOP ->
           (count' = count /\ schedule' = 0 /\ ~permitted') \/ Ineffective
      [] OTHER -> count' = count

DeviceExecutes ==
    /\ outgoing /= 0 /\ Device!Execute(outgoing) /\ Meant
    /\ outgoing' = 0
    /\ UNCHANGED <<cli, closed, response, events, wire, file>>

DeviceSends ==
    /\ \/ \E r \in Device!Requests, a \in Device!Answers :
            /\ Device!Reply(r, a) /\ (r = TX => a /= "applied")
            /\ wire' = Append(wire, Item(r, a, <<>>))
       \/ \E e \in Device!Event :
            /\ e.request = TX /\ Device!Tell(e)
            /\ wire' = Append(wire, Item(0, "none", <<e>>))
    /\ UNCHANGED <<cli, closed, response, events, outgoing, file>>

DeviceGoesOn ==
    /\ Device!Transmit \/ Device!Finish \/ Device!Revoke \/ Device!Disconnect
    /\ UNCHANGED <<cli, link, file>>

(* It notices a connection that was closed. *)
DeviceNotices ==
    /\ closed /\ Device!Disconnect
    /\ UNCHANGED <<cli, link, file>>

Next ==
    \/ Program \/ Interrupt \/ Finalize \/ Lost \/ Reader
    \/ DeviceExecutes \/ DeviceSends \/ DeviceGoesOn

FairSpec ==
    Init /\ [][Next]_vars /\ WF_vars(Program) /\ WF_vars(DeviceNotices)
-----------------------------------------------------------------------------
(* A run that reports success has sent exactly what was asked for, however *)
(* the link and the device behaved meanwhile, and its file reads back      *)
(* whole: the intent, the acceptance, every event and the end.             *)
Body(image) ==
    IF image.lines /= <<>> /\ Last(image.lines).type = "disconnect"
    THEN Front(image.lines) ELSE image.lines
Truth == <<Line("metadata"), Line("tx_request"), Line("accepted")>>
         \o [i \in DOMAIN told |-> EventLine(told[i])]

SuccessIsTrue ==
    at = "exit" /\ ~raised =>
      /\ count[TX] = Count /\ bus[TX] = Count
      /\ recording => \A image \in Left : LooksWhole(image) /\ Body(image) = Truth

(* Nothing is sent on the bus whose intent is not in the file already.     *)
IntentFirst ==
    recording /\ bus[TX] > 0 => \E i \in DOMAIN lines : lines[i].type = "tx_request"

(* Whatever fails, and whenever the power goes: what the file says is what *)
(* the device said, in its order, and a final outcome in it is what        *)
(* happened on the bus.                                                    *)
RecordIsTrue ==
    \A image \in Disk :
      LET body == Body(image)
      IN  /\ IsPrefix(body, Truth)
          /\ Len(body) >= 3 => answer[TX] = "accepted"
          /\ body /= <<>> /\ Last(body).type = "tx_event" =>
               LET e == Last(body).event[1]
               IN  e.terminal /\ e.error /= "EINPROGRESS" => bus[TX] = e.completed

(* The run ends, and then nothing is left scheduled, although the last     *)
(* STOP may have failed or never been sent.                                *)
EndsStopped == <>[](at = "exit" /\ ~open /\ schedule = 0)
=============================================================================
