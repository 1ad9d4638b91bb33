------------------------------ MODULE Recording ------------------------------
(* A recording of the PC tool: the thread of monitor() and run() in cli.py *)
(* that ends it, the worker that takes packets off the client's queue and  *)
(* writes them, the recorder (recording.py) with its buffered file, and    *)
(* what they see of the client: its reader fills the queue, and it may be  *)
(* closed by anybody at any time.  A packet is one frame, a frame is its   *)
(* sequence number.                                                        *)
EXTENDS Recorder, Tables

CONSTANTS
    MaxSequence,     \* bound on the sequence numbers that arrive
    EventCapacity    \* capacity of Client.events

ASSUME RecordingAssumption == MaxSequence \in Nat /\ EventCapacity \in Nat \ {0}

VARIABLES
    sequence,        \* number of the last frame that came to the client
    events,          \* Client.events
    reader,          \* the reader thread runs
    closed, failure, pc_queue_discards,   \* of the Client
    worker, item,    \* where the worker is, the entries it has still to write
    last,            \* the SequenceTracker; 0 for None
    errors, stop,    \* of monitor()
    main,            \* where the thread of the CLI is
    raised,          \* it is unwinding an exception, or has
    arrived,         \* history: the frames that were queued
    drained,         \* history: those queued when the queue was seen empty
    discarded        \* history: frames were lost before the worker was stopped

client == <<sequence, events, reader, closed, failure, pc_queue_discards, arrived,
            discarded>>
ingestion == <<worker, item, last, errors>>
control == <<stop, main, raised, drained>>
vars == <<client, ingestion, control, file>>

Entry == [type : {"rx", "gap", "metadata"}, n : 0..MaxSequence]
         \cup [type : {"disconnect"}, reason : BOOLEAN, n : {0, 1}]
Metadata == [type |-> "metadata", n |-> 0]
Rx(n) == [type |-> "rx", n |-> n]
Gap(n) == [type |-> "gap", n |-> n]

TypeOK ==
    /\ sequence \in 0..MaxSequence
    /\ events \in Seq(1..MaxSequence) /\ Len(events) <= EventCapacity
    /\ reader \in BOOLEAN /\ closed \in BOOLEAN /\ failure \in BOOLEAN
    /\ pc_queue_discards \in {0, 1}
    /\ worker \in {"top", "get", "empty", "write", "raise", "close", "join", "end"}
    /\ item \in Seq(Entry) /\ Len(item) <= 2 /\ last \in 0..MaxSequence
    /\ errors \in BOOLEAN /\ stop \in BOOLEAN /\ raised \in BOOLEAN
    /\ main \in {"loop", "ask", "asked", "drain", "stop", "join", "check",
                 "ask_again", "asked_again", "disconnect", "close", "exit"}
    /\ lines \in Seq(Entry) /\ buffer \in Seq(Entry) /\ Len(buffer) <= 2
    /\ file_open \in BOOLEAN /\ failures \in 0..2
    /\ arrived \in Seq(1..MaxSequence) /\ drained \in Seq(1..MaxSequence)
    /\ discarded \in BOOLEAN

(* monitor() has started its worker; the metadata are written. *)
Init ==
    /\ sequence = 0 /\ events = <<>> /\ reader = TRUE
    /\ closed = FALSE /\ failure = FALSE /\ pc_queue_discards = 0
    /\ worker = "top" /\ item = <<>> /\ last = 0 /\ errors = FALSE
    /\ stop = FALSE /\ main = "loop" /\ raised = FALSE
    /\ Created(Metadata)
    /\ arrived = <<>> /\ drained = <<>> /\ discarded = FALSE

Worker(from, to) == worker = from /\ worker' = to
Main(from, to) == main = from /\ main' = to
-----------------------------------------------------------------------------
EventRoom == Len(events) < EventCapacity

(* The client.  A frame comes, after another that was lost on the way or   *)
(* not; it is queued, or the reader ends on a full queue.                  *)
Arrive ==
    /\ reader
    /\ sequence' \in {sequence + 1, sequence + 2} /\ sequence' <= MaxSequence
    /\ \/ /\ EventRoom
          /\ events' = Append(events, sequence')
          /\ arrived' = Append(arrived, sequence')
          /\ UNCHANGED <<reader, closed, failure, pc_queue_discards, discarded>>
       \/ /\ ~EventRoom
          /\ pc_queue_discards' = 1 /\ reader' = FALSE /\ closed' = TRUE
          /\ failure' = (failure \/ ~closed)
          /\ discarded' = (discarded \/ ~stop)
          /\ UNCHANGED <<events, arrived>>
    /\ UNCHANGED <<ingestion, control, file>>

(* The device is gone, or the heartbeat gives up: with or without a        *)
(* failure, see Client.                                                    *)
Lost ==
    /\ ~closed /\ closed' = TRUE
    /\ failure' \in BOOLEAN
    /\ UNCHANGED <<sequence, events, reader, pc_queue_discards, arrived, discarded,
                   ingestion, control, file>>

ReaderEnds ==
    /\ reader /\ closed /\ reader' = FALSE
    /\ UNCHANGED <<sequence, events, closed, failure, pc_queue_discards, arrived,
                   discarded, ingestion, control, file>>
-----------------------------------------------------------------------------
(* The worker: process() of monitor(). *)
WorkerTop ==
    /\ Worker("top", IF stop THEN "end" ELSE "get")
    /\ UNCHANGED <<client, item, last, errors, control, file>>

(* A tracker whose gap is written after the frame that shows it. *)
EntriesSwapped(n) ==
    IF last = 0 \/ n = last + 1 THEN <<Rx(n)>>
    ELSE <<Rx(n), Gap(n - last - 1)>>
Entries(n) ==
    IF last = 0 \/ n = last + 1 THEN <<Rx(n)>>
    ELSE <<Gap(n - last - 1), Rx(n)>>

WorkerGets ==
    /\ Worker("get", "write") /\ events /= <<>>
    /\ events' = Tail(events)
    /\ item' = Entries(Head(events)) /\ last' = Head(events)
    /\ UNCHANGED <<sequence, reader, closed, failure, pc_queue_discards, arrived,
                   discarded, errors, control, file>>

(* The queue was empty for a while; only then does it look at the flag.    *)
WorkerWaits ==
    /\ Worker("get", "empty") /\ events = <<>>
    /\ UNCHANGED <<client, item, last, errors, control, file>>
WorkerGoesOn ==
    /\ Worker("empty", IF closed THEN "raise" ELSE "top")
    /\ UNCHANGED <<client, item, last, errors, control, file>>

WorkerWrites ==
    /\ Worker("write", IF Len(item) = 1 THEN "top" ELSE "write")
    /\ Written(Head(item)) /\ item' = Tail(item)
    /\ UNCHANGED <<client, last, errors, control>>

(* A worker that skips a packet it could not write. *)
OnFailureSkip == "top"
OnFailure == "raise"

(* The disk is full, or the file closed under the worker. *)
WorkerFails ==
    /\ Worker("write", OnFailure)
    /\ item' = <<>>
    /\ \/ WriteFails(Head(item))
       \/ ~file_open /\ UNCHANGED file
    /\ UNCHANGED <<client, last, errors, control>>

WorkerRaises ==
    /\ Worker("raise", "close")
    /\ errors' = TRUE /\ stop' = TRUE
    /\ UNCHANGED <<client, item, last, main, raised, drained, file>>

(* Client.close() joins the reader. *)
WorkerCloses ==
    /\ Worker("close", "join") /\ closed' = TRUE
    /\ UNCHANGED <<sequence, events, reader, failure, pc_queue_discards, arrived,
                   discarded, item, last, errors, control, file>>
WorkerEnds ==
    /\ Worker("join", "end") /\ ~reader
    /\ UNCHANGED <<client, item, last, errors, control, file>>

Process ==
    \/ WorkerTop \/ WorkerGets \/ WorkerWaits \/ WorkerGoesOn
    \/ WorkerWrites \/ WorkerFails
    \/ WorkerRaises \/ WorkerCloses \/ WorkerEnds
-----------------------------------------------------------------------------
(* The end of monitor() and of run().  The loop ends for any reason, also  *)
(* by an exception such as that of a keyboard interrupt.                   *)
Leave ==
    /\ Main("loop", "ask") /\ raised' \in BOOLEAN
    /\ UNCHANGED <<client, ingestion, stop, drained, file>>

(* request(STOP), if the client is open: it is answered, or it closes the  *)
(* client, which joins the reader, and the exception is dropped.           *)
Asks(from, joining, to) ==
    /\ \/ Main(from, to) /\ UNCHANGED closed
       \/ Main(from, joining) /\ ~closed /\ closed' = TRUE
       \/ Main(joining, to) /\ ~reader /\ UNCHANGED closed
    /\ UNCHANGED <<sequence, events, reader, failure, pc_queue_discards, arrived,
                   discarded, ingestion, stop, raised, drained, file>>
Ask == Asks("ask", "asked", "drain")
AskAgain == Asks("ask_again", "asked_again", "disconnect")

(* The queue is drained, or the worker has failed, or a second has passed. *)
Drain ==
    /\ Main("drain", "stop")
    /\ drained' = IF events = <<>> THEN arrived ELSE drained
    /\ UNCHANGED <<client, ingestion, stop, raised, file>>

StopWorker ==
    /\ Main("stop", "join") /\ stop' = TRUE
    /\ UNCHANGED <<client, ingestion, raised, drained, file>>

(* A monitor that does not wait for its worker. *)
JoinedNot == TRUE
Joined == worker = "end"

Join ==
    /\ \/ Joined /\ Main("join", "check") /\ UNCHANGED raised
       \/ ~Joined /\ Main("join", "ask_again") /\ raised' = TRUE
    /\ UNCHANGED <<client, ingestion, stop, drained, file>>

Check ==
    /\ Main("check", "ask_again") /\ raised' = (raised \/ errors)
    /\ UNCHANGED <<client, ingestion, stop, drained, file>>

Ending == [type |-> "disconnect", reason |-> failure, n |-> pc_queue_discards]

Disconnect ==
    /\ \/ Main("disconnect", "close") /\ Written(Ending) /\ UNCHANGED raised
       \/ Main("disconnect", "exit") /\ WriteFails(Ending) /\ raised' = TRUE
    /\ UNCHANGED <<client, ingestion, stop, drained>>

Close ==
    /\ Main("close", "exit") /\ FileCloses
    /\ raised' = (raised \/ buffer' /= <<>>)
    /\ UNCHANGED <<client, ingestion, stop, drained>>

End == Leave \/ Ask \/ Drain \/ StopWorker \/ Join \/ Check \/ AskAgain
       \/ Disconnect \/ Close

(* A file left open is closed by the interpreter, which ignores errors; a  *)
(* worker that is still there may go on until then.                        *)
Finalize ==
    /\ main = "exit" /\ FileCloses
    /\ UNCHANGED <<client, ingestion, control>>

Next == Arrive \/ Lost \/ ReaderEnds \/ Process \/ End \/ Finalize

Spec == Init /\ [][Next]_vars
-----------------------------------------------------------------------------
Frames(image) ==
    LET rows == export_csv(image).rows IN [i \in DOMAIN rows |-> rows[i].n]

(* What record i may be if it is frame n: an earlier frame comes before    *)
(* it, and between them, but for a disconnect, only the gap of their       *)
(* numbers, if there is one.                                               *)
Follows(records, i, n) ==
    \E previous \in 1..(i - 1) :
      LET between == {k \in (previous + 1)..(i - 1) : records[k].type /= "disconnect"}
          missing == n - records[previous].n - 1
      IN  /\ records[previous].type = "rx"
          /\ IF missing = 0 THEN between = {}
             ELSE \E k \in between : between = {k} /\ records[k] = Gap(missing)

(* Whatever fails, whoever writes last and whenever the power goes: the    *)
(* frames that the file gives back are the first that arrived, in their    *)
(* order, and a hole in their numbers is announced by a gap of its length. *)
(* (The disconnect of a run that gave up waiting for its worker may come   *)
(* between them.)                                                          *)
RecordsFaithful ==
    \A image \in Disk :
      LET records == read_recording(image).events
      IN  /\ IsPrefix(Frames(image), arrived)
          /\ \A i \in DOMAIN records :
               records[i].type = "rx" =>
                 \/ records[i].n = arrived[1]
                 \/ Follows(records, i, records[i].n)

(* A run that reports success leaves a file that reads back without error, *)
(* with all that was queued when the queue was seen empty, although the    *)
(* worker had a packet in its hands then.  If the power goes afterwards    *)
(* and takes something of that, the file ends in an error or without its   *)
(* disconnect.  (A run that gives up after a second also succeeds: then    *)
(* drained is empty.)                                                      *)
Success == main = "exit" /\ ~raised
SuccessIsComplete ==
    Success =>
      /\ ~file_open /\ worker = "end"
      /\ \A image \in Left : LooksWhole(image)
      /\ \A image \in Disk : LooksWhole(image) => IsPrefix(drained, Frames(image))

(* A failed write makes the run fail; frames that did not fit in the queue *)
(* do so too or are shown by the last record.                              *)
LossIsShown ==
    Success =>
      /\ failures = 0
      /\ discarded => LET ending == Last(lines) IN ending.reason \/ ending.n > 0

(* Playback of the file, and the monitor while it was recorded, show the   *)
(* same as a look at the whole history: whatever the keys of the frames,   *)
(* the rows are those of the keys seen last, and a row counts the frames   *)
(* of its key since that was last forgotten.                               *)
LatestFaithful ==
    main = "exit" /\ ~file_open =>
      \A image \in Left :
        LET numbers == Frames(image)
        IN  \A keys \in [DOMAIN numbers -> 0..Limit] :
              LET frames == [i \in DOMAIN numbers |->
                               [key |-> keys[i], time |-> numbers[i]]]
              IN  History(Shown(frames), frames, Len(frames))
=============================================================================
