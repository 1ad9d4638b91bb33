------------------------------- MODULE Tables -------------------------------
(* The tables of the monitor and of playback (Monitor of model.py): the    *)
(* latest frame of each key and the trace, both bounded.  A frame is its   *)
(* key and its time; a recording is of one session.                        *)
EXTENDS Integers, FiniteSets, SequencesExt

CONSTANTS Limit      \* rows of either table

ASSUME TablesAssumption == Limit \in Nat \ {0}

None == -1

Empty == [trace |-> <<>>, latest |-> <<>>, first |-> None]

(* Whether, and where, a table has the row of a key. *)
Has(rows, key) == \E i \in DOMAIN rows : rows[i].frame.key = key
Place(rows, key) == CHOOSE i \in DOMAIN rows : rows[i].frame.key = key

(* The row of a frame: it goes on from the previous row of its key. *)
Row(frame, latest, first) ==
    LET known == Has(latest, frame.key)
        previous == latest[Place(latest, frame.key)]
    IN  [frame |-> frame,
         count |-> IF known THEN previous.count + 1 ELSE 1,
         interval |-> IF known THEN frame.time - previous.frame.time ELSE None,
         relative |-> frame.time - first]

(* A table that is full gives up its first row. *)
Bounded(rows) == IF Len(rows) > Limit THEN Tail(rows) ELSE rows

(* A row that keeps its place among the others. *)
PlacedAsBefore(rows, row) ==
    IF Has(rows, row.frame.key)
    THEN [rows EXCEPT ![Place(rows, row.frame.key)] = row]
    ELSE Append(rows, row)

(* The row of a key is taken out and put last. *)
Placed(rows, row) ==
    Append(IF Has(rows, row.frame.key)
           THEN RemoveAt(rows, Place(rows, row.frame.key)) ELSE rows, row)

add(monitor, frame) ==
    LET first == IF monitor.first = None THEN frame.time ELSE monitor.first
        row == Row(frame, monitor.latest, first)
    IN  [trace |-> Bounded(Append(monitor.trace, row)),
         latest |-> Bounded(Placed(monitor.latest, row)),
         first |-> first]

(* The tables after each frame, and after the last. *)
Tables(frames) ==
    LET tables[n \in 0..Len(frames)] ==
          IF n = 0 THEN Empty ELSE add(tables[n - 1], frames[n])
    IN  tables

Shown(frames) == Tables(frames)[Len(frames)]
-----------------------------------------------------------------------------
(* The same, from the whole history: after n frames the table has those    *)
(* that no frame of their key and frames of less than Limit keys followed. *)
Keys(frames, i, n) == {frames[l].key : l \in i..n}
Latest(frames, n) ==
    {i \in 1..n : LET since == Keys(frames, i + 1, n)
                  IN  frames[i].key \notin since /\ Cardinality(since) < Limit}

(* The frames that frame j is counted with: the key was not forgotten      *)
(* since.                                                                  *)
Remembered(frames, key, n) == \E i \in Latest(frames, n) : frames[i].key = key
Before(frames, j) ==
    {i \in 1..(j - 1) : frames[i].key = frames[j].key
                        /\ \A n \in i..(j - 1) : Remembered(frames, frames[j].key, n)}

RowOf(frames, j) ==
    LET before == Before(frames, j)
    IN  [frame |-> frames[j],
         count |-> Cardinality(before) + 1,
         interval |-> IF before = {} THEN None
                      ELSE frames[j].time - frames[Max(before)].time,
         relative |-> frames[j].time - frames[1].time]

(* The table is of these frames, in the order in which they came. *)
Lists(rows, frames, indices) ==
    \E index \in [DOMAIN rows -> indices] :
      /\ \A i \in indices : \E k \in DOMAIN rows : index[k] = i
      /\ \A k, l \in DOMAIN rows : k < l => index[k] < index[l]
      /\ \A k \in DOMAIN rows : rows[k] = RowOf(frames, index[k])

(* What the tables are after n frames. *)
History(tables, frames, n) ==
    /\ Lists(tables.trace, frames, {i \in 1..n : i > n - Limit})
    /\ Lists(tables.latest, frames, Latest(frames, n))
    /\ tables.first = IF n = 0 THEN None ELSE frames[1].time
=============================================================================
