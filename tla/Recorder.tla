------------------------------ MODULE Recorder ------------------------------
(* The recorder of the PC tool (recording.py), which monitor() and send    *)
(* write to: an append-only file of one record a line, flushed after each, *)
(* on a disk that may be full.                                             *)
EXTENDS Integers, SequencesExt

VARIABLES
    lines,           \* the complete lines of the file
    buffer,          \* entries not, or not wholly, in the file
    file_open,       \* the file is open
    failures         \* Recorder.failures

file == <<lines, buffer, file_open, failures>>

(* The constructor has created the file and written the metadata. *)
Created(metadata) ==
    lines = <<metadata>> /\ buffer = <<>> /\ file_open = TRUE /\ failures = 0

(* write(): what was left in the buffer goes first. *)
Written(entry) ==
    /\ file_open
    /\ lines' = lines \o buffer \o <<entry>> /\ buffer' = <<>>
    /\ UNCHANGED <<file_open, failures>>

(* A flush that fails keeps in the buffer what it has not written, and the *)
(* next flush goes on with it.                                             *)
WriteFails(entry) ==
    /\ file_open
    /\ failures' = failures + 1
    /\ LET all == Append(buffer, entry)
       IN  \E n \in 0..Len(buffer) :
             /\ lines' = lines \o SubSeq(all, 1, n)
             /\ buffer' = SubSeq(all, n + 1, Len(all))
    /\ UNCHANGED file_open

(* close() flushes as far as it can.  So does the interpreter with a file  *)
(* that was left open, and ignores the error.                              *)
FileCloses ==
    /\ file_open /\ file_open' = FALSE
    /\ \E n \in 0..Len(buffer) :
         /\ lines' = lines \o SubSeq(buffer, 1, n)
         /\ buffer' = SubSeq(buffer, n + 1, Len(buffer))
    /\ UNCHANGED failures
-----------------------------------------------------------------------------
(* What the disk may hold if the power fails now: nothing is synced, so    *)
(* any number of the lines, and part of the next if there was one.         *)
Image(n, torn) == [lines |-> SubSeq(lines, 1, n), torn |-> torn]
Disk == {Image(n, torn) : n \in 0..Len(lines), torn \in BOOLEAN}

(* Those of a run that has ended: a line may be there in part. *)
Left == {Image(Len(lines), torn) : torn \in {FALSE, buffer /= <<>>}}

Rejects(image) == image.torn \/ image.lines = <<>>

(* read_recording(): the records in order, and then an error if a line is  *)
(* not complete or there is none.                                          *)
read_recording(image) ==
    [events |-> image.lines, error |-> Rejects(image)]

(* export_csv(): a row for each frame. *)
Rows(records) ==
    LET rows[n \in 0..Len(records)] ==
          IF n = 0 THEN <<>>
          ELSE IF records[n].type = "rx" THEN Append(rows[n - 1], records[n])
          ELSE rows[n - 1]
    IN  rows

export_csv(image) ==
    LET read == read_recording(image)
    IN  [rows |-> Rows(read.events)[Len(read.events)], error |-> read.error]

(* It ends as a recording does, not in the middle. *)
LooksWhole(image) ==
    LET read == read_recording(image)
    IN  ~read.error /\ Last(read.events).type = "disconnect"
=============================================================================
