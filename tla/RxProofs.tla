------------------------------ MODULE RxProofs ------------------------------
(* A frame's way from the CAN controller to the recording, for every depth *)
(* of the queues, size of a batch and number of frames: nothing vanishes,  *)
(* frames keep their order and their connection, a status is consistent,   *)
(* and the gaps a user sees are the frames the device counted as lost.     *)
EXTENDS RxStream, FiniteSetTheorems, SequenceTheorems, TLAPS

Sorted(s) == \A i, j \in DOMAIN s : i < j => s[i] < s[j]
Before(A, B) == \A a \in A, b \in B : a < b

(* The frames of a sequence that grows at its end ... *)
LEMMA Appended ==
    ASSUME NEW s \in Seq(Nat), NEW n \in Nat
    PROVE  /\ ToSet(Append(s, n)) = ToSet(s) \cup {n}
           /\ Sorted(s) /\ Before(ToSet(s), {n}) => Sorted(Append(s, n))
  <1> DEFINE t == Append(s, n)
  <1>1. /\ t \in Seq(Nat) /\ Len(t) = Len(s) + 1 /\ Len(s) \in Nat
        /\ \A i \in 1..Len(s) : t[i] = s[i]
        /\ t[Len(s) + 1] = n
    BY AppendProperties, LenProperties
  <1>2. DOMAIN s = 1..Len(s) /\ DOMAIN t = 1..(Len(s) + 1)
    BY <1>1, LenProperties
  <1>3. ToSet(t) = ToSet(s) \cup {n}
    BY <1>1, <1>2 DEF ToSet
  <1>4. ASSUME Sorted(s), Before(ToSet(s), {n}), NEW i \in DOMAIN t,
               NEW j \in DOMAIN t, i < j
        PROVE  t[i] < t[j]
    <2>1. i \in 1..Len(s) /\ s[i] \in ToSet(s) /\ t[i] = s[i]
      BY <1>1, <1>2, <1>4 DEF ToSet
    <2>2. CASE j = Len(s) + 1
      BY <1>1, <1>4, <2>1, <2>2 DEF Before
    <2>3. CASE j \in 1..Len(s)
      BY <1>1, <1>2, <1>4, <2>1, <2>3 DEF Sorted
    <2> QED BY <1>1, <1>2, <2>2, <2>3
  <1> QED BY <1>3, <1>4 DEF Sorted

(* ... and that loses its first. *)
LEMMA Shortened ==
    ASSUME NEW S, NEW s \in Seq(S), s /= <<>>
    PROVE  /\ ToSet(s) = {Head(s)} \cup ToSet(Tail(s))
           /\ Sorted(s) => Sorted(Tail(s)) /\ Before({Head(s)}, ToSet(Tail(s)))
  <1> DEFINE t == Tail(s)
  <1>1. /\ t \in Seq(S) /\ Len(t) = Len(s) - 1 /\ Len(s) \in Nat \ {0}
        /\ \A i \in 1..Len(t) : t[i] = s[i + 1]
    BY HeadTailProperties, EmptySeq
  <1>2. DOMAIN s = 1..Len(s) /\ DOMAIN t = 1..(Len(s) - 1) /\ Head(s) = s[1]
    BY <1>1, LenProperties
  <1>3. \A i \in DOMAIN s : i = 1 \/ (i - 1 \in DOMAIN t /\ s[i] = t[i - 1])
    BY <1>1, <1>2
  <1>4. \A i \in DOMAIN t : i + 1 \in DOMAIN s /\ t[i] = s[i + 1] /\ 1 < i + 1
    BY <1>1, <1>2
  <1>5. ToSet(s) = {Head(s)} \cup ToSet(t)
    <2>1. 1 \in DOMAIN s
      BY <1>1, <1>2
    <2>2. ASSUME NEW i \in DOMAIN s PROVE s[i] \in {Head(s)} \cup ToSet(t)
      <3>1. CASE i = 1
        BY <1>2, <3>1
      <3>2. CASE i - 1 \in DOMAIN t /\ s[i] = t[i - 1]
        BY <3>2, Zenon DEF ToSet
      <3> QED BY <1>3, <3>1, <3>2
    <2>3. ASSUME NEW i \in DOMAIN t PROVE t[i] \in ToSet(s)
      BY <1>4, Zenon DEF ToSet
    <2>4. Head(s) \in ToSet(s)
      BY <1>2, <2>1, Zenon DEF ToSet
    <2> QED BY <2>2, <2>3, <2>4, Zenon DEF ToSet
  <1>6. ASSUME Sorted(s) PROVE Sorted(t) /\ Before({Head(s)}, ToSet(t))
    <2>1. Sorted(t)
      BY <1>1, <1>2, <1>6 DEF Sorted
    <2>2. ASSUME NEW i \in DOMAIN t PROVE Head(s) < t[i]
      BY <1>1, <1>2, <1>4, <1>6 DEF Sorted
    <2> QED BY <2>1, <2>2 DEF Before, ToSet
  <1> QED BY <1>5, <1>6

LEMMA None == ToSet(<<>>) = {} /\ Sorted(<<>>)
  BY DEF ToSet, Sorted

(* Two sequences in a row. *)
LEMMA Joined ==
    ASSUME NEW s \in Seq(Nat), NEW t \in Seq(Nat)
    PROVE  /\ ToSet(s \o t) = ToSet(s) \cup ToSet(t)
           /\ Sorted(s) /\ Sorted(t) /\ Before(ToSet(s), ToSet(t)) => Sorted(s \o t)
  <1> DEFINE u == s \o t
  <1>1. /\ u \in Seq(Nat) /\ Len(u) = Len(s) + Len(t)
        /\ Len(s) \in Nat /\ Len(t) \in Nat
        /\ \A i \in 1..(Len(s) + Len(t)) :
             u[i] = IF i <= Len(s) THEN s[i] ELSE t[i - Len(s)]
    BY ConcatProperties, LenProperties
  <1>2. /\ DOMAIN s = 1..Len(s) /\ DOMAIN t = 1..Len(t)
        /\ DOMAIN u = 1..(Len(s) + Len(t))
    BY <1>1, LenProperties
  <1>3. \A i \in DOMAIN u : \/ i \in DOMAIN s /\ u[i] = s[i]
                            \/ i - Len(s) \in DOMAIN t /\ u[i] = t[i - Len(s)]
    BY <1>1, <1>2
  <1>4. /\ \A i \in DOMAIN s : i \in DOMAIN u /\ u[i] = s[i]
        /\ \A i \in DOMAIN t : i + Len(s) \in DOMAIN u /\ u[i + Len(s)] = t[i]
    BY <1>1, <1>2
  <1>5. ToSet(u) = ToSet(s) \cup ToSet(t)
    <2>1. ASSUME NEW i \in DOMAIN u PROVE u[i] \in ToSet(s) \cup ToSet(t)
      BY <1>3, Zenon DEF ToSet
    <2>2. ASSUME NEW i \in DOMAIN s PROVE s[i] \in ToSet(u)
      BY <1>4, Zenon DEF ToSet
    <2>3. ASSUME NEW i \in DOMAIN t PROVE t[i] \in ToSet(u)
      BY <1>4, Zenon DEF ToSet
    <2> QED BY <2>1, <2>2, <2>3, Zenon DEF ToSet
  <1>6. ASSUME Sorted(s), Sorted(t), Before(ToSet(s), ToSet(t)),
               NEW i \in DOMAIN u, NEW j \in DOMAIN u, i < j
        PROVE  u[i] < u[j]
    <2>1. CASE j \in DOMAIN s
      BY <1>1, <1>2, <1>4, <1>6, <2>1 DEF Sorted
    <2>2. CASE i \notin DOMAIN s
      <3>1. i - Len(s) \in DOMAIN t /\ j - Len(s) \in DOMAIN t
            /\ u[i] = t[i - Len(s)] /\ u[j] = t[j - Len(s)] /\ i - Len(s) < j - Len(s)
        BY <1>1, <1>2, <1>6, <2>2
      <3> QED BY <1>6, <3>1 DEF Sorted
    <2>3. CASE i \in DOMAIN s /\ j \notin DOMAIN s
      BY <1>3, <1>4, <1>6, <2>3 DEF Before, ToSet
    <2> QED BY <2>1, <2>2, <2>3
  <1> QED BY <1>5, <1>6 DEF Sorted

(* Frames in order are all different. *)
LEMMA Counted ==
    ASSUME NEW s \in Seq(Nat), Sorted(s)
    PROVE  IsFiniteSet(ToSet(s)) /\ Cardinality(ToSet(s)) = Len(s)
  <1>1. /\ Len(s) \in Nat /\ DOMAIN s = 1..Len(s)
        /\ s \in [1..Len(s) -> ToSet(s)]
    BY LenProperties DEF ToSet
  <1>2. s \in Bijection(1..Len(s), ToSet(s))
    <2>1. \A i, j \in 1..Len(s) : s[i] = s[j] => i = j
      <3>1. \A i \in 1..Len(s) : s[i] \in Nat
        BY ElementOfSeq
      <3> QED BY <1>1, <3>1 DEF Sorted
    <2>2. \A n \in ToSet(s) : \E i \in 1..Len(s) : s[i] = n
      BY <1>1 DEF ToSet
    <2> QED BY <1>1, <2>1, <2>2 DEF Bijection, Injection, Surjection, IsInjective
  <1>3. ExistsBijection(1..Len(s), ToSet(s))
    BY <1>2 DEF ExistsBijection
  <1>4. IsFiniteSet(ToSet(s))
    BY <1>1, <1>3, FS_NatBijection
  <1> QED BY <1>1, <1>3, <1>4, FS_CountingElements
-----------------------------------------------------------------------------
(* The inductive invariant of the device's side.                           *)
Waiting == ToSet(batch) \cup ToSet(rx_queue)

Ordered ==
    /\ Sorted(batch) /\ Sorted(rx_queue)
    /\ Before(ToSet(batch), ToSet(rx_queue))
    /\ Before(sent, Waiting)
    /\ \A n \in Waiting : base < n /\ n <= sequence
    /\ base <= sequence

Accounts ==
    /\ Waiting \cup sent \cup lost = 1..sequence
    /\ sent \cap lost = {} /\ Waiting \cap (sent \cup lost) = {}
    /\ received = enqueued + drops
    /\ drops + discards = Cardinality(lost)
    /\ enqueued = Cardinality(sent) + discards + Len(batch) + Len(rx_queue)

(* Where the server thread has stopped capture, fetched nothing, or        *)
(* discarded what waited.                                                  *)
Where ==
    /\ phase /= "fetch" => batch = <<>>
    /\ phase \in {"accept", "clear", "drain", "flush"} => ~running
    /\ phase = "accept" => rx_queue = <<>>

(* A report whose last field is still to be read, and one that is complete.*)
Sound(used) ==
    /\ report.received = report.enqueued + report.drops
    /\ report.enqueued <= report.sent + report.discards + used
    /\ used <= RxDepth
Reported == Sound(IF phase = "used" THEN Len(rx_queue) ELSE report.used)

QueueInv == TypeOK /\ Ordered /\ Accounts /\ Where /\ Reported
-----------------------------------------------------------------------------
LEMMA Disjoint ==
    ASSUME NEW S, NEW T, IsFiniteSet(S), IsFiniteSet(T), S \cap T = {}
    PROVE  Cardinality(S \cup T) = Cardinality(S) + Cardinality(T)
  <1>1. /\ Cardinality(S) \in Nat /\ Cardinality(T) \in Nat
        /\ Cardinality(S \cap T) = 0
    BY FS_CardinalityType, FS_EmptySet
  <1>2. Cardinality(S \cup T) = Cardinality(S) + Cardinality(T) - Cardinality(S \cap T)
    BY FS_Union
  <1> QED BY <1>1, <1>2

LEMMA Finite ==
    ASSUME TypeOK, Accounts
    PROVE  /\ IsFiniteSet(sent) /\ Cardinality(sent) \in Nat
           /\ IsFiniteSet(lost) /\ Cardinality(lost) \in Nat
  <1>1. IsFiniteSet(1..sequence)
    BY FS_Interval DEF TypeOK
  <1>2. sent \in SUBSET (1..sequence) /\ lost \in SUBSET (1..sequence)
    BY DEF Accounts
  <1> QED BY <1>1, <1>2, FS_Subset, FS_CardinalityType

LEMMA Numbers ==
    ASSUME TypeOK
    PROVE  /\ rx_queue \in Seq(Nat) /\ Len(rx_queue) \in Nat
           /\ batch \in Seq(Nat) /\ Len(batch) \in Nat
           /\ ToSet(rx_queue) \subseteq Nat /\ ToSet(batch) \subseteq Nat
           /\ sent \subseteq Nat /\ lost \subseteq Nat
           /\ sequence \in Nat /\ received \in Nat /\ enqueued \in Nat
           /\ drops \in Nat /\ discards \in Nat /\ base \in Nat
  BY LenProperties, ElementOfSeq DEF TypeOK, ToSet

LEMMA Sums ==
    ASSUME QueueInv
    PROVE  /\ received = enqueued + drops
           /\ drops + discards = Cardinality(lost)
           /\ enqueued = Cardinality(sent) + discards + Len(batch) + Len(rx_queue)
           /\ Cardinality(sent) \in Nat /\ Cardinality(lost) \in Nat
           /\ received \in Nat /\ enqueued \in Nat /\ drops \in Nat
           /\ discards \in Nat /\ Len(batch) \in Nat /\ Len(rx_queue) \in Nat
  <1>1. TypeOK /\ Accounts
    BY DEF QueueInv
  <1>2. Cardinality(sent) \in Nat /\ Cardinality(lost) \in Nat
    BY <1>1, Finite
  <1>3. received = enqueued + drops /\ drops + discards = Cardinality(lost)
    BY <1>1 DEF Accounts
  <1>4. enqueued = Cardinality(sent) + discards + Len(batch) + Len(rx_queue)
    BY <1>1 DEF Accounts
  <1> QED BY <1>1, <1>2, <1>3, <1>4, Numbers

LEMMA Fields ==
    ASSUME TypeOK
    PROVE  /\ report.received \in Nat /\ report.enqueued \in Nat
           /\ report.drops \in Nat /\ report.discards \in Nat
           /\ report.sent \in Nat /\ report.used \in Nat
  BY DEF TypeOK, Report

LEMMA QueueInitially == Init => QueueInv
  <1> SUFFICES ASSUME Init PROVE QueueInv
    OBVIOUS
  <1> USE DEF Init
  <1>1. ToSet(batch) = {} /\ ToSet(rx_queue) = {} /\ Sorted(batch) /\ Sorted(rx_queue)
    BY None
  <1>2. TypeOK
    <2>1. NoReport \in Report
      BY DEF NoReport, Report
    <2>2. <<>> \in Seq(Nat) /\ Len(<<>>) = 0
      OBVIOUS
    <2>3. report \in Report
      BY <2>1
    <2>4. rx_queue \in Seq(Nat) /\ Len(rx_queue) <= RxDepth
          /\ batch \in Seq(Nat) /\ Len(batch) <= Batch
      BY <2>2, RxAssumption
    <2>5. 0 \in 0..RxDepth /\ "accept" \in Phases
      BY RxAssumption DEF Phases
    <2>6. sent \in SUBSET Nat /\ lost \in SUBSET Nat
      OBVIOUS
    <2> QED BY <2>3, <2>4, <2>5, <2>6 DEF TypeOK
  <1>3. Ordered
    BY <1>1 DEF Ordered, Waiting, Before
  <1>4. Accounts
    <2>1. 1..0 = {} /\ Cardinality({}) = 0
      BY FS_EmptySet
    <2> QED BY <1>1, <2>1 DEF Accounts, Waiting
  <1>5. Where /\ Reported
    BY RxAssumption DEF Where, Reported, Sound, NoReport
  <1> QED BY <1>2, <1>3, <1>4, <1>5 DEF QueueInv

(* A frame is received: it is queued, or dropped. *)
LEMMA RxStep ==
    ASSUME QueueInv, rx
    PROVE  QueueInv'
  <1> DEFINE n == sequence + 1
  <1>1. /\ sequence \in Nat /\ n \in Nat /\ sequence' = n /\ received' = received + 1
        /\ running' = running /\ discards' = discards /\ phase' = phase
        /\ batch' = batch /\ report' = report /\ sent' = sent /\ base' = base
        /\ running
    BY DEF rx, QueueInv, TypeOK
  <1>2. rx_queue \in Seq(Nat) /\ Len(rx_queue) \in Nat
    BY LenProperties DEF QueueInv, TypeOK
  <1>3. CASE /\ Len(rx_queue) < RxDepth /\ rx_queue' = Append(rx_queue, n)
             /\ enqueued' = enqueued + 1 /\ drops' = drops /\ lost' = lost
             /\ highwater' = IF highwater < Len(rx_queue) + 1
                             THEN Len(rx_queue) + 1 ELSE highwater
    <2>1. /\ rx_queue' \in Seq(Nat) /\ Len(rx_queue') = Len(rx_queue) + 1
          /\ ToSet(rx_queue') = ToSet(rx_queue) \cup {n}
          /\ rx_queue' /= <<>>
      <3>1. ToSet(rx_queue') = ToSet(rx_queue) \cup {n}
        BY <1>1, <1>2, <1>3, Appended
      <3> QED BY <1>1, <1>2, <1>3, <3>1, AppendProperties
    <2>2. TypeOK'
      BY <1>1, <1>2, <1>3, <2>1, RxAssumption DEF QueueInv, TypeOK
    <2>3. Ordered'
      <3>1. Before(ToSet(rx_queue), {n}) /\ Before(ToSet(batch), {n})
            /\ Before(sent, {n})
        <4>1. \A a \in ToSet(rx_queue) \cup ToSet(batch) \cup sent :
                a \in Nat /\ a <= sequence
          BY Numbers DEF QueueInv, Ordered, Accounts, Waiting
        <4> QED BY <1>1, <4>1 DEF Before
      <3>2. Sorted(rx_queue')
        BY <1>1, <1>2, <1>3, <3>1, Appended DEF QueueInv, Ordered
      <3> QED
        <4>1. Before(ToSet(batch'), ToSet(rx_queue')) /\ Before(sent', Waiting')
          BY <1>1, <2>1, <3>1 DEF QueueInv, Ordered, Waiting, Before
        <4>2. \A m \in Waiting' : base' < m /\ m <= sequence'
          BY <1>1, <2>1, Numbers DEF QueueInv, Ordered, Waiting
        <4>3. base' <= sequence'
          BY <1>1, Numbers DEF QueueInv, Ordered
        <4> QED BY <1>1, <3>2, <4>1, <4>2, <4>3 DEF QueueInv, Ordered
    <2>4. Accounts'
      <3>1. n \notin sent /\ n \notin lost /\ 1..n = (1..sequence) \cup {n}
        BY <1>1 DEF QueueInv, Accounts
      <3>2. /\ Waiting' \cup sent' \cup lost' = 1..n
            /\ Waiting' \cap (sent' \cup lost') = {}
        BY <1>1, <1>3, <2>1, <3>1 DEF QueueInv, Accounts, Waiting
      <3>3. /\ received' = enqueued' + drops'
            /\ drops' + discards' = Cardinality(lost')
        BY <1>1, <1>3 DEF QueueInv, Accounts, TypeOK
      <3>4. enqueued' = Cardinality(sent') + discards' + Len(batch') + Len(rx_queue')
        <4>1. Len(rx_queue') = Len(rx_queue) + 1
          BY <2>1
        <4>2. /\ Len(batch') = Len(batch) /\ Cardinality(sent') = Cardinality(sent)
              /\ discards' = discards /\ enqueued' = enqueued + 1
          BY <1>1, <1>3
        <4> QED BY <4>1, <4>2, Sums, SMTT(30)
      <3> QED BY <1>1, <1>3, <3>2, <3>3, <3>4 DEF QueueInv, Accounts
    <2>5. Where' /\ Reported'
      <3>1. Len(rx_queue) + 1 <= RxDepth
        BY <1>2, <1>3, RxAssumption
      <3>2. Where'
        BY <1>1 DEF QueueInv, Where
      <3>3. ASSUME phase = "used" PROVE Reported'
        <4>1. Len(rx_queue') = Len(rx_queue) + 1 /\ report' = report /\ phase' = "used"
          BY <1>1, <2>1, <3>3
        <4>2. Sound(Len(rx_queue)) /\ TypeOK
          BY <3>3 DEF QueueInv, Reported
        <4>3. /\ report.enqueued \in Nat /\ report.discards \in Nat
              /\ report.sent \in Nat
          BY <4>2, Fields
        <4> QED BY <1>2, <3>1, <4>1, <4>2, <4>3 DEF Reported, Sound
      <3>4. ASSUME phase /= "used" PROVE Reported'
        <4>1. report' = report /\ phase' /= "used" /\ Sound(report.used)
          BY <1>1, <3>4 DEF QueueInv, Reported
        <4> QED BY <4>1 DEF Reported, Sound
      <3> QED BY <3>2, <3>3, <3>4
    <2> QED BY <2>2, <2>3, <2>4, <2>5 DEF QueueInv
  <1>4. CASE /\ drops' = drops + 1 /\ lost' = lost \cup {n}
             /\ rx_queue' = rx_queue /\ enqueued' = enqueued
             /\ highwater' = highwater
    <2>1. TypeOK'
      BY <1>1, <1>4 DEF QueueInv, TypeOK
    <2>2. Ordered'
      BY <1>1, <1>4, Numbers DEF QueueInv, Ordered, Waiting
    <2>3. Accounts'
      <3>1. n \notin lost /\ n \notin sent /\ n \notin Waiting
            /\ 1..n = (1..sequence) \cup {n}
        BY <1>1 DEF QueueInv, Accounts
      <3>2. /\ Waiting' \cup sent' \cup lost' = 1..n
            /\ sent' \cap lost' = {} /\ Waiting' \cap (sent' \cup lost') = {}
        BY <1>1, <1>4, <3>1 DEF QueueInv, Accounts, Waiting
      <3>3. Cardinality(lost') = Cardinality(lost) + 1 /\ Cardinality(lost) \in Nat
        BY <1>4, <3>1, Finite, FS_AddElement DEF QueueInv
      <3>4. /\ received' = enqueued' + drops'
            /\ drops' + discards' = Cardinality(lost')
            /\ enqueued' = Cardinality(sent') + discards' + Len(batch') + Len(rx_queue')
        <4>1. /\ Len(batch') = Len(batch) /\ Cardinality(sent') = Cardinality(sent)
              /\ Len(rx_queue') = Len(rx_queue) /\ discards' = discards
              /\ drops' = drops + 1 /\ enqueued' = enqueued /\ received' = received + 1
          BY <1>1, <1>4
        <4> QED BY <3>3, <4>1, Sums, SMTT(30)
      <3> QED BY <1>1, <3>2, <3>4 DEF Accounts
    <2>4. Where' /\ Reported'
      BY <1>1, <1>4 DEF QueueInv, Where, Reported, Sound
    <2> QED BY <2>1, <2>2, <2>3, <2>4 DEF QueueInv
  <1> QED BY <1>1, <1>3, <1>4 DEF rx

(* The queue is discarded while capture is stopped. *)
LEMMA DiscardStep ==
    ASSUME QueueInv, Discard
    PROVE  QueueInv'
  <1>1. /\ discards' = discards + Len(rx_queue) /\ lost' = lost \cup ToSet(rx_queue)
        /\ rx_queue' = <<>> /\ phase \in {"clear", "flush", "drain"}
        /\ phase' \in {"poll", "accept"} /\ (phase' = "accept" => phase = "drain")
        /\ running' = running /\ sequence' = sequence /\ received' = received
        /\ enqueued' = enqueued /\ drops' = drops /\ highwater' = highwater
        /\ batch' = batch /\ report' = report /\ sent' = sent /\ base' = base
    BY DEF Discard, discard_queue, Goto, counters
  <1>2. /\ rx_queue \in Seq(Nat) /\ Len(rx_queue) \in Nat /\ Len(<<>>) = 0
        /\ ToSet(rx_queue) \subseteq Nat /\ ToSet(rx_queue') = {} /\ Sorted(rx_queue')
    BY <1>1, None, LenProperties, ElementOfSeq DEF QueueInv, TypeOK, ToSet
  <1>3. TypeOK'
    <2>1. rx_queue' \in Seq(Nat) /\ Len(rx_queue') <= RxDepth /\ phase' \in Phases
      BY <1>1, <1>2, RxAssumption DEF Phases
    <2>2. discards' \in Nat /\ lost' \subseteq Nat
      BY <1>1, <1>2, Numbers DEF QueueInv
    <2> QED BY <1>1, <2>1, <2>2 DEF QueueInv, TypeOK
  <1>4. Ordered'
    BY <1>1, <1>2 DEF QueueInv, Ordered, Waiting, Before
  <1>5. Accounts'
    <2>1. /\ Waiting' \cup sent' \cup lost' = 1..sequence
          /\ sent' \cap lost' = {}
      BY <1>1, <1>2 DEF QueueInv, Accounts, Waiting
    <2>2. Waiting' \cap (sent' \cup lost') = {}
      <3>1. batch = <<>> /\ ToSet(batch) = {}
        BY <1>1, None DEF QueueInv, Where
      <3> QED BY <1>1, <1>2, <3>1 DEF Waiting
    <2>3. Cardinality(lost') = Cardinality(lost) + Len(rx_queue)
      <3>1. lost \cap ToSet(rx_queue) = {}
        BY DEF QueueInv, Accounts, Waiting
      <3>2. IsFiniteSet(lost) /\ IsFiniteSet(ToSet(rx_queue))
            /\ Cardinality(ToSet(rx_queue)) = Len(rx_queue)
        BY <1>2, Finite, Counted DEF QueueInv, Ordered
      <3> QED BY <1>1, <3>1, <3>2, Disjoint
    <2>4. /\ received' = enqueued' + drops' /\ drops' + discards' = Cardinality(lost')
          /\ enqueued' = Cardinality(sent') + discards' + Len(batch') + Len(rx_queue')
      <3>1. /\ Len(batch') = Len(batch) /\ Cardinality(sent') = Cardinality(sent)
            /\ Len(rx_queue') = 0 /\ discards' = discards + Len(rx_queue)
            /\ drops' = drops /\ enqueued' = enqueued /\ received' = received
        BY <1>1, <1>2
      <3> QED BY <2>3, <3>1, Sums, SMTT(30)
    <2> QED BY <1>1, <2>1, <2>2, <2>4 DEF Accounts
  <1>6. Where' /\ Reported'
    BY <1>1 DEF QueueInv, Where, Reported, Sound
  <1> QED BY <1>3, <1>4, <1>5, <1>6 DEF QueueInv

(* The server moves the first of the queue to its batch. *)
LEMMA FetchStep ==
    ASSUME QueueInv, Fetch
    PROVE  QueueInv'
  <1> DEFINE n == Head(rx_queue)
  <1>1. /\ phase = "fetch" /\ phase' = phase /\ rx_queue /= <<>>
        /\ Len(batch) < Batch
        /\ batch' = Append(batch, n) /\ rx_queue' = Tail(rx_queue)
        /\ running' = running /\ sequence' = sequence /\ received' = received
        /\ enqueued' = enqueued /\ drops' = drops /\ highwater' = highwater
        /\ discards' = discards /\ report' = report /\ sent' = sent
        /\ lost' = lost /\ base' = base
    BY DEF Fetch, Room, counters
  <1>2. TypeOK /\ Ordered /\ Accounts
    BY DEF QueueInv
  <1>3. /\ n \in Nat /\ rx_queue' \in Seq(Nat) /\ Len(rx_queue') = Len(rx_queue) - 1
        /\ batch' \in Seq(Nat) /\ Len(batch') = Len(batch) + 1
    BY <1>1, <1>2, Numbers, HeadTailProperties, AppendProperties
  <1>4. /\ ToSet(rx_queue) = {n} \cup ToSet(rx_queue') /\ Sorted(rx_queue')
        /\ Before({n}, ToSet(rx_queue'))
    BY <1>1, <1>2, Numbers, Shortened DEF Ordered
  <1>5. ToSet(batch') = ToSet(batch) \cup {n} /\ Sorted(batch')
    <2>1. Before(ToSet(batch), {n})
      BY <1>2, <1>4 DEF Ordered, Before
    <2> QED BY <1>1, <1>2, <1>3, <2>1, Numbers, Appended DEF Ordered
  <1>6. Waiting' = Waiting
    BY <1>4, <1>5 DEF Waiting
  <1>7. TypeOK'
    <2>1. Len(rx_queue') <= RxDepth /\ Len(batch') <= Batch
      BY <1>1, <1>2, <1>3, Numbers, RxAssumption DEF TypeOK
    <2> QED BY <1>1, <1>2, <1>3, <2>1 DEF TypeOK
  <1>8. Ordered'
    <2>1. Before(ToSet(batch'), ToSet(rx_queue'))
      BY <1>2, <1>4, <1>5 DEF Ordered, Before
    <2> QED BY <1>1, <1>2, <1>4, <1>5, <1>6, <2>1 DEF Ordered
  <1>9. Accounts'
    <2>1. enqueued' = Cardinality(sent') + discards' + Len(batch') + Len(rx_queue')
      <3>1. /\ Cardinality(sent') = Cardinality(sent) /\ discards' = discards
            /\ enqueued' = enqueued
        BY <1>1
      <3>2. Len(rx_queue') = Len(rx_queue) - 1 /\ Len(batch') = Len(batch) + 1
        BY <1>3
      <3> QED BY <3>1, <3>2, Sums, SMTT(30)
    <2> QED BY <1>1, <1>2, <1>6, <2>1 DEF Accounts
  <1>10. Where' /\ Reported'
    BY <1>1 DEF QueueInv, Where, Reported, Sound
  <1> QED BY <1>7, <1>8, <1>9, <1>10 DEF QueueInv

(* A batch is sent, ... *)
LEMMA SendStep ==
    ASSUME QueueInv, SendBatch
    PROVE  QueueInv'
  <1>1. /\ phase = "fetch" /\ phase' = "status"
        /\ sent' = sent \cup ToSet(batch) /\ batch' = <<>> /\ rx_queue' = rx_queue
        /\ running' = running /\ sequence' = sequence /\ received' = received
        /\ enqueued' = enqueued /\ drops' = drops /\ highwater' = highwater
        /\ discards' = discards /\ report' = report /\ lost' = lost /\ base' = base
    BY DEF SendBatch, counters
  <1>2. TypeOK /\ Ordered /\ Accounts
    BY DEF QueueInv
  <1>3. ToSet(batch') = {} /\ Sorted(batch') /\ Len(batch') = 0 /\ batch' \in Seq(Nat)
    BY <1>1, None
  <1>4. TypeOK'
    <2>1. Len(batch') <= Batch /\ sent' \subseteq Nat /\ phase' \in Phases
      BY <1>1, <1>2, <1>3, Numbers, RxAssumption DEF Phases
    <2> QED BY <1>1, <1>2, <1>3, <2>1 DEF TypeOK
  <1>5. Ordered'
    BY <1>1, <1>2, <1>3 DEF Ordered, Waiting, Before
  <1>6. Accounts'
    <2>1. /\ Waiting' \cup sent' \cup lost' = 1..sequence' /\ sent' \cap lost' = {}
          /\ Waiting' \cap (sent' \cup lost') = {}
      <3>1. ToSet(batch) \cap ToSet(rx_queue) = {}
        <4>1. ~ \E n \in Nat : n \in ToSet(batch) /\ n \in ToSet(rx_queue)
          BY <1>2 DEF Ordered, Before
        <4> QED BY <1>2, <4>1, Numbers
      <3> QED BY <1>1, <1>2, <1>3, <3>1 DEF Accounts, Waiting
    <2>2. Cardinality(sent') = Cardinality(sent) + Len(batch)
      <3>1. IsFiniteSet(sent) /\ IsFiniteSet(ToSet(batch))
            /\ Cardinality(ToSet(batch)) = Len(batch)
        BY <1>2, Finite, Counted, Numbers DEF Ordered
      <3>2. sent \cap ToSet(batch) = {}
        BY <1>2 DEF Accounts, Waiting
      <3> QED BY <1>1, <3>1, <3>2, Disjoint
    <2>3. enqueued' = Cardinality(sent') + discards' + Len(batch') + Len(rx_queue')
      <3>1. Len(rx_queue') = Len(rx_queue)
        BY <1>1
      <3> QED BY <1>1, <1>3, <2>2, <3>1, Sums, SMTT(30)
    <2> QED BY <1>1, <1>2, <2>1, <2>3 DEF Accounts
  <1>7. Where' /\ Reported'
    BY <1>1 DEF QueueInv, Where, Reported, Sound
  <1> QED BY <1>4, <1>5, <1>6, <1>7 DEF QueueInv

(* ... or is lost. *)
LEMMA SendFailsStep ==
    ASSUME QueueInv, SendBatchFails
    PROVE  QueueInv'
  <1>1. /\ phase = "fetch" /\ phase' = "done"
        /\ discards' = discards + Len(batch) /\ lost' = lost \cup ToSet(batch)
        /\ batch' = <<>> /\ rx_queue' = rx_queue
        /\ running' = running /\ sequence' = sequence /\ received' = received
        /\ enqueued' = enqueued /\ drops' = drops /\ highwater' = highwater
        /\ report' = report /\ sent' = sent /\ base' = base
    BY DEF SendBatchFails, Failed, counters
  <1>2. TypeOK /\ Ordered /\ Accounts
    BY DEF QueueInv
  <1>3. ToSet(batch') = {} /\ Sorted(batch') /\ Len(batch') = 0 /\ batch' \in Seq(Nat)
    BY <1>1, None
  <1>4. TypeOK'
    <2>1. /\ Len(batch') <= Batch /\ lost' \subseteq Nat /\ phase' \in Phases
          /\ discards' \in Nat
      BY <1>1, <1>2, <1>3, Numbers, RxAssumption DEF Phases
    <2> QED BY <1>1, <1>2, <1>3, <2>1 DEF TypeOK
  <1>5. Ordered'
    BY <1>1, <1>2, <1>3 DEF Ordered, Waiting, Before
  <1>6. Accounts'
    <2>1. /\ Waiting' \cup sent' \cup lost' = 1..sequence' /\ sent' \cap lost' = {}
          /\ Waiting' \cap (sent' \cup lost') = {}
      <3>1. ToSet(batch) \cap ToSet(rx_queue) = {}
        <4>1. ~ \E n \in Nat : n \in ToSet(batch) /\ n \in ToSet(rx_queue)
          BY <1>2 DEF Ordered, Before
        <4> QED BY <1>2, <4>1, Numbers
      <3> QED BY <1>1, <1>2, <1>3, <3>1 DEF Accounts, Waiting
    <2>2. Cardinality(lost') = Cardinality(lost) + Len(batch)
      <3>1. IsFiniteSet(lost) /\ IsFiniteSet(ToSet(batch))
            /\ Cardinality(ToSet(batch)) = Len(batch)
        BY <1>2, Finite, Counted, Numbers DEF Ordered
      <3>2. lost \cap ToSet(batch) = {}
        BY <1>2 DEF Accounts, Waiting
      <3> QED BY <1>1, <3>1, <3>2, Disjoint
    <2>3. /\ enqueued' = Cardinality(sent') + discards' + Len(batch') + Len(rx_queue')
          /\ drops' + discards' = Cardinality(lost')
      <3>1. Len(rx_queue') = Len(rx_queue) /\ Cardinality(sent') = Cardinality(sent)
        BY <1>1
      <3> QED BY <1>1, <1>3, <2>2, <3>1, Sums, SMTT(30)
    <2> QED BY <1>1, <1>2, <2>1, <2>3 DEF Accounts
  <1>7. Where' /\ Reported'
    BY <1>1 DEF QueueInv, Where, Reported, Sound
  <1> QED BY <1>4, <1>5, <1>6, <1>7 DEF QueueInv

(* Steps that move no frame. *)
LEMMA StillStep ==
    ASSUME QueueInv,
           rx_queue' = rx_queue, batch' = batch, sent' = sent, lost' = lost,
           sequence' = sequence, received' = received, enqueued' = enqueued,
           drops' = drops, highwater' = highwater, discards' = discards,
           base' = base \/ (base' = sequence /\ phase = "accept"),
           running' \in BOOLEAN, phase' \in Phases, report' \in Report
    PROVE  TypeOK' /\ Ordered' /\ Accounts'
  <1>1. TypeOK'
    BY DEF QueueInv, TypeOK
  <1>2. Ordered'
    <2>1. CASE base' = base
      BY <2>1 DEF QueueInv, Ordered, Waiting
    <2>2. CASE base' = sequence /\ phase = "accept"
      <3>1. Waiting = {}
        BY <2>2, None DEF QueueInv, Where, Waiting
      <3> QED BY <2>2, <3>1, Numbers DEF QueueInv, Ordered, Waiting
    <2> QED BY <2>1, <2>2
  <1>3. Accounts'
    BY DEF QueueInv, Accounts, Waiting
  <1> QED BY <1>1, <1>2, <1>3

(* The counters are read, ... *)
LEMMA SnapshotStep ==
    ASSUME QueueInv, Snapshot
    PROVE  QueueInv'
  <1> DEFINE unsent == enqueued - discards - Len(rx_queue)
  <1>1. /\ phase = "status" /\ phase' = "used"
        /\ report' = [received |-> received, enqueued |-> enqueued, drops |-> drops,
                      discards |-> discards, sequence |-> sequence,
                      highwater |-> highwater, used |-> 0, sent |-> unsent]
    BY DEF Snapshot, Goto
  <1>2. /\ running' = running /\ rx_queue' = rx_queue /\ batch' = batch
        /\ sequence' = sequence /\ received' = received /\ enqueued' = enqueued
        /\ drops' = drops /\ highwater' = highwater /\ discards' = discards
        /\ sent' = sent /\ lost' = lost /\ base' = base
    BY DEF Snapshot, counters
  <1>3. TypeOK /\ highwater \in Nat /\ Len(rx_queue) <= RxDepth
    BY RxAssumption DEF QueueInv, TypeOK
  <1>4. unsent \in Nat
    BY Sums, SMTT(30)
  <1>5. report' \in Report
    BY <1>1, <1>3, <1>4, Numbers DEF Report
  <1>6. TypeOK' /\ Ordered' /\ Accounts'
    <2>1. running' \in BOOLEAN /\ phase' \in Phases
      BY <1>1, <1>2, <1>3 DEF TypeOK, Phases
    <2> QED BY <1>2, <1>5, <2>1, StillStep
  <1>7. Where'
    BY <1>1, <1>2 DEF QueueInv, Where
  <1>8. Reported'
    <2>1. /\ report'.received = received /\ report'.enqueued = enqueued
          /\ report'.drops = drops /\ report'.discards = discards
          /\ report'.sent = unsent
      BY <1>1
    <2>2. enqueued <= unsent + discards + Len(rx_queue)
      BY Sums
    <2>3. Sound(Len(rx_queue))'
      BY <1>2, <1>3, <2>1, <2>2, Sums DEF Sound
    <2> QED BY <1>1, <2>3 DEF Reported
  <1> QED BY <1>6, <1>7, <1>8 DEF QueueInv

(* ... and then the fill of the queue. *)
LEMMA ReadUsedStep ==
    ASSUME QueueInv, ReadUsed
    PROVE  QueueInv'
  <1>1. /\ phase = "used" /\ phase' \in {"poll", "done"}
        /\ report' = [report EXCEPT !.used = Len(rx_queue)]
    BY DEF ReadUsed, Completed
  <1>2. /\ running' = running /\ rx_queue' = rx_queue /\ batch' = batch
        /\ sequence' = sequence /\ received' = received /\ enqueued' = enqueued
        /\ drops' = drops /\ highwater' = highwater /\ discards' = discards
        /\ sent' = sent /\ lost' = lost /\ base' = base
    BY DEF ReadUsed, counters
  <1>3. TypeOK /\ Sound(Len(rx_queue)) /\ report \in Report
    BY <1>1 DEF QueueInv, Reported, TypeOK
  <1>4. /\ report' \in Report /\ report'.used = Len(rx_queue)
        /\ report'.received = report.received /\ report'.enqueued = report.enqueued
        /\ report'.drops = report.drops /\ report'.sent = report.sent
        /\ report'.discards = report.discards
    BY <1>1, <1>3, Numbers DEF Report
  <1>5. TypeOK' /\ Ordered' /\ Accounts'
    <2>1. running' \in BOOLEAN /\ phase' \in Phases
      BY <1>1, <1>2, <1>3 DEF TypeOK, Phases
    <2> QED BY <1>2, <1>4, <2>1, StillStep
  <1>6. Where'
    BY <1>1, <1>2 DEF QueueInv, Where
  <1>7. Reported'
    BY <1>1, <1>3, <1>4 DEF Reported, Sound
  <1> QED BY <1>5, <1>6, <1>7 DEF QueueInv

(* Capture starts and stops, and the server goes from place to place. *)
LEMMA ElseStep ==
    ASSUME QueueInv,
           Halted \/ Accept \/ Command \/ Disconnect \/ Polled \/ NoStatus \/ ServeStop
    PROVE  QueueInv'
  <1>1. /\ rx_queue' = rx_queue /\ batch' = batch /\ report' = report
        /\ sequence' = sequence /\ received' = received /\ enqueued' = enqueued
        /\ drops' = drops /\ highwater' = highwater /\ discards' = discards
        /\ sent' = sent /\ lost' = lost
    BY DEF Halted, Accept, Command, CommandStart, CommandStop, CommandConfigure,
           Disconnect, Polled, NoStatus, ServeStop, counters
  <1>2. base' = base \/ (base' = sequence /\ phase = "accept")
    BY DEF Halted, Accept, Command, CommandStart, CommandStop, CommandConfigure,
           Disconnect, Polled, NoStatus, ServeStop, Goto
  <1>3. running' \in BOOLEAN /\ report' \in Report
    BY <1>1 DEF Halted, Accept, Command, CommandStart, CommandStop, CommandConfigure,
           Disconnect, Polled, NoStatus, ServeStop, Stopped, QueueInv, TypeOK
  <1>4. /\ phase' \in Phases /\ phase' /= "used" /\ (phase = "used" => phase' = "used")
        \/ phase' = phase
    BY DEF Halted, Accept, Command, CommandStart, CommandStop, CommandConfigure,
           Disconnect, Polled, NoStatus, ServeStop, Goto, Phases
  <1>5. TypeOK' /\ Ordered' /\ Accounts'
    BY <1>1, <1>2, <1>3, <1>4, StillStep DEF QueueInv, TypeOK
  <1>6. Where'
    BY <1>1 DEF QueueInv, Where, Halted, Accept, Command, CommandStart, CommandStop,
                CommandConfigure, Disconnect, Polled, NoStatus, ServeStop, Stopped,
                Goto
  <1>7. Reported'
    BY <1>1, <1>4 DEF QueueInv, Reported, Sound
  <1> QED BY <1>5, <1>6, <1>7 DEF QueueInv

LEMMA QueueStep == QueueInv /\ [Next]_vars => QueueInv'
  <1>1. ASSUME QueueInv, Next PROVE QueueInv'
    BY <1>1, RxStep, DiscardStep, FetchStep, SendStep, SendFailsStep, SnapshotStep,
       ReadUsedStep, ElseStep DEF Next, Serve
  <1>2. ASSUME QueueInv, UNCHANGED vars PROVE QueueInv'
    BY <1>2 DEF vars, counters, QueueInv, TypeOK, Ordered, Accounts, Where, Reported,
                Sound, Waiting
  <1> QED BY <1>1, <1>2

-----------------------------------------------------------------------------
(* The inductive invariant of the client's side: the frames it has, each   *)
(* part of its pipeline before the next.                                   *)
Stored == observed \cup ToSet(packet) \cup Frames(events)

InFlow(q) ==
    /\ \A i \in DOMAIN q : Sorted(q[i])
    /\ \A i, j \in DOMAIN q : i < j => Before(ToSet(q[i]), ToSet(q[j]))

Flow ==
    /\ Sorted(packet) /\ InFlow(events) /\ InFlow(wire)
    /\ Before(observed, ToSet(packet) \cup Frames(events) \cup Frames(wire))
    /\ Before(ToSet(packet), Frames(events) \cup Frames(wire))
    /\ Before(Frames(events), Frames(wire))
    /\ Before(Kept, Waiting)
    /\ \A n \in Kept : base < n /\ n <= sequence

(* Nothing that was sent on this connection is missing before a frame that *)
(* the client has.                                                         *)
Complete ==
    \A s \in sent, t \in Stored : base < s /\ s <= t => s \in Stored

Tracker ==
    /\ ~raised
    /\ observed = {} => last = 0 /\ gaps = 0
    /\ observed /= {} =>
         /\ last \in observed /\ \A n \in observed : n <= last
         /\ \E first \in observed : \A n \in observed : first <= n
    /\ gaps = Cardinality(Missing)

StreamInv ==
    QueueInv /\ StreamTypeOK /\ Flow /\ Complete /\ NothingSkipped /\ Tracker

-----------------------------------------------------------------------------
(* Packets in a row: one more at the end, ...                              *)
LEMMA PacketAppended ==
    ASSUME NEW q \in Seq(Seq(Nat)), NEW p \in Seq(Nat)
    PROVE  /\ Frames(Append(q, p)) = Frames(q) \cup ToSet(p)
           /\ InFlow(q) /\ Sorted(p) /\ Before(Frames(q), ToSet(p)) => InFlow(Append(q, p))
  <1> DEFINE t == Append(q, p)
  <1>1. /\ Len(q) \in Nat /\ DOMAIN q = 1..Len(q) /\ DOMAIN t = 1..(Len(q) + 1)
        /\ \A i \in 1..Len(q) : t[i] = q[i]
        /\ t[Len(q) + 1] = p
    BY AppendProperties, LenProperties
  <1>2. /\ \A i \in DOMAIN q : i \in DOMAIN t /\ t[i] = q[i]
        /\ \A i \in DOMAIN t : (i \in DOMAIN q /\ t[i] = q[i]) \/ t[i] = p
        /\ \E i \in DOMAIN t : t[i] = p
    BY <1>1
  <1>3. Frames(t) = Frames(q) \cup ToSet(p)
    BY <1>2, Zenon DEF Frames
  <1>4. ASSUME InFlow(q), Sorted(p), Before(Frames(q), ToSet(p))
        PROVE  InFlow(t)
    <2>1. \A i \in DOMAIN t : Sorted(t[i])
      BY <1>2, <1>4, Zenon DEF InFlow
    <2>2. ASSUME NEW i \in DOMAIN t, NEW j \in DOMAIN t, i < j
          PROVE  Before(ToSet(t[i]), ToSet(t[j]))
      <3>1. i \in DOMAIN q /\ t[i] = q[i]
        BY <1>1, <2>2
      <3>2. CASE j \in DOMAIN q
        <4>1. t[j] = q[j]
          BY <1>2, <3>2
        <4> QED BY <1>4, <2>2, <3>1, <3>2, <4>1, Zenon DEF InFlow
      <3>3. CASE j \notin DOMAIN q
        <4>1. t[j] = p
          BY <1>2, <3>3
        <4>2. Before(ToSet(q[i]), ToSet(p))
          BY <1>4, <3>1, Zenon DEF Before, Frames
        <4> QED BY <3>1, <4>1, <4>2
      <3> QED BY <3>2, <3>3
    <2> QED BY <2>1, <2>2 DEF InFlow
  <1> QED BY <1>3, <1>4

(* ... and the first of them taken. *)
LEMMA PacketTaken ==
    ASSUME NEW q \in Seq(Seq(Nat)), q /= <<>>
    PROVE  /\ Head(q) \in Seq(Nat) /\ Tail(q) \in Seq(Seq(Nat))
           /\ Frames(q) = ToSet(Head(q)) \cup Frames(Tail(q))
           /\ InFlow(q) => /\ Sorted(Head(q)) /\ InFlow(Tail(q))
                           /\ Before(ToSet(Head(q)), Frames(Tail(q)))
  <1> DEFINE t == Tail(q)
  <1>1. /\ Head(q) \in Seq(Nat) /\ t \in Seq(Seq(Nat)) /\ Len(t) = Len(q) - 1
        /\ \A i \in 1..Len(t) : t[i] = q[i + 1]
    BY HeadTailProperties
  <1>2. /\ Len(q) \in Nat \ {0} /\ DOMAIN q = 1..Len(q) /\ DOMAIN t = 1..(Len(q) - 1)
        /\ Head(q) = q[1]
    BY <1>1, LenProperties, EmptySeq
  <1>3. /\ \A i \in DOMAIN q : q[i] = Head(q) \/ (i - 1 \in DOMAIN t /\ t[i - 1] = q[i])
        /\ \A i \in DOMAIN t : i + 1 \in DOMAIN q /\ t[i] = q[i + 1] /\ 1 < i + 1
        /\ 1 \in DOMAIN q
    BY <1>1, <1>2
  <1>4. Frames(q) = ToSet(Head(q)) \cup Frames(t)
    <2>1. ASSUME NEW i \in DOMAIN q PROVE ToSet(q[i]) \subseteq ToSet(Head(q)) \cup Frames(t)
      <3>1. CASE q[i] = Head(q)
        BY <3>1
      <3>2. CASE i - 1 \in DOMAIN t /\ t[i - 1] = q[i]
        BY <3>2, Zenon DEF Frames
      <3> QED BY <1>3, <3>1, <3>2
    <2>2. \A i \in DOMAIN t : ToSet(t[i]) \subseteq Frames(q)
      BY <1>3, Zenon DEF Frames
    <2>3. ToSet(Head(q)) \subseteq Frames(q)
      BY <1>2, <1>3, Zenon DEF Frames
    <2> QED BY <2>1, <2>2, <2>3, Zenon DEF Frames
  <1>5. ASSUME InFlow(q)
        PROVE  Sorted(Head(q)) /\ InFlow(t) /\ Before(ToSet(Head(q)), Frames(t))
    <2>1. Sorted(Head(q)) /\ \A i \in DOMAIN t : Sorted(t[i])
      BY <1>2, <1>3, <1>5 DEF InFlow
    <2>2. ASSUME NEW i \in DOMAIN t, NEW j \in DOMAIN t, i < j
          PROVE  Before(ToSet(t[i]), ToSet(t[j]))
      <3>1. i + 1 \in DOMAIN q /\ j + 1 \in DOMAIN q /\ i + 1 < j + 1
            /\ t[i] = q[i + 1] /\ t[j] = q[j + 1]
        BY <1>2, <1>3, <2>2
      <3> QED BY <1>5, <3>1 DEF InFlow
    <2>3. ASSUME NEW i \in DOMAIN t PROVE Before(ToSet(Head(q)), ToSet(t[i]))
      BY <1>2, <1>3, <1>5 DEF InFlow
    <2>4. Before(ToSet(Head(q)), Frames(t))
      BY <2>3, Zenon DEF Before, Frames
    <2> QED BY <2>1, <2>2, <2>4 DEF InFlow
  <1> QED BY <1>1, <1>4, <1>5

LEMMA NoPackets == Frames(<<>>) = {} /\ InFlow(<<>>)
  BY DEF Frames, InFlow

LEMMA KeptNumbers ==
    ASSUME StreamTypeOK
    PROVE  Kept \subseteq Nat
  <1>1. ASSUME NEW q \in Seq(Seq(Nat)) PROVE Frames(q) \subseteq Nat
    <2>1. ASSUME NEW i \in DOMAIN q PROVE ToSet(q[i]) \subseteq Nat
      BY LenProperties, ElementOfSeq DEF ToSet
    <2> QED BY <2>1 DEF Frames
  <1>2. ToSet(packet) \subseteq Nat
    BY LenProperties, ElementOfSeq DEF StreamTypeOK, ToSet
  <1> QED BY <1>1, <1>2 DEF StreamTypeOK, Kept

LEMMA MinOf ==
    ASSUME NEW S \in SUBSET Nat, NEW m \in S, \A n \in S : m <= n
    PROVE  Min(S) = m
  <1>1. \A x \in S : (\A y \in S : x <= y) => x = m
    <2> SUFFICES ASSUME NEW x \in S, \A y \in S : x <= y PROVE x = m
      OBVIOUS
    <2>1. x <= m /\ m <= x /\ x \in Nat /\ m \in Nat
      OBVIOUS
    <2> QED BY <2>1
  <1> QED BY <1>1 DEF Min
-----------------------------------------------------------------------------
LEMMA StreamInitially == StreamInit => StreamInv
  <1> SUFFICES ASSUME StreamInit PROVE StreamInv
    OBVIOUS
  <1>1. QueueInv /\ TypeOK
    BY QueueInitially DEF StreamInit, QueueInv
  <1>2. /\ wire = <<>> /\ closed = TRUE /\ events = <<>> /\ pc_queue_discards = 0
        /\ packet = <<>> /\ last = 0 /\ gaps = 0 /\ raised = FALSE /\ observed = {}
    BY DEF StreamInit
  <1>3. Kept = {} /\ Stored = {}
    BY <1>2, None, NoPackets DEF Kept, Stored
  <1>4. StreamTypeOK
    <2>1. Len(events) <= EventCapacity /\ events \in Seq(Seq(Nat))
      BY <1>2, CapacityAssumption
    <2>2. wire \in Seq(Seq(Nat)) /\ packet \in Seq(Nat) /\ observed \in SUBSET Nat
      BY <1>2
    <2> QED BY <1>1, <1>2, <2>1, <2>2 DEF StreamTypeOK
  <1>5. Flow
    BY <1>2, <1>3, None, NoPackets DEF Flow, Before
  <1>6. Complete /\ NothingSkipped
    BY <1>2, <1>3 DEF Complete, NothingSkipped
  <1>7. Tracker
    BY <1>2, FS_EmptySet DEF Tracker, Missing
  <1> QED BY <1>1, <1>4, <1>5, <1>6, <1>7 DEF StreamInv

(* What the device does apart from sending and accepting, as far as the    *)
(* client's frames are concerned.                                          *)
LEMMA Elsewhere ==
    ASSUME QueueInv, rx \/ Halted \/ Command \/ Disconnect \/ Serve
    PROVE  /\ sent' = sent /\ base' = base /\ sequence <= sequence'
           /\ \A n \in Waiting' : n \in Waiting \/ sequence < n
  <1>1. CASE rx
    <2>1. /\ sequence \in Nat /\ sequence' = sequence + 1 /\ batch' = batch
          /\ rx_queue' = rx_queue \/ rx_queue' = Append(rx_queue, sequence + 1)
          /\ sent' = sent /\ base' = base
      BY <1>1 DEF rx, QueueInv, TypeOK
    <2>2. ToSet(rx_queue') \subseteq ToSet(rx_queue) \cup {sequence + 1}
      <3>1. rx_queue \in Seq(Nat) /\ sequence + 1 \in Nat
        BY Numbers DEF QueueInv
      <3>2. ToSet(Append(rx_queue, sequence + 1)) = ToSet(rx_queue) \cup {sequence + 1}
        BY <3>1, Appended
      <3> QED BY <2>1, <3>2
    <2> QED BY <2>1, <2>2 DEF Waiting
  <1>2. CASE Discard
    BY <1>2, None, Numbers DEF Discard, discard_queue, counters, Waiting, QueueInv
  <1>3. CASE Fetch
    <2>1. /\ rx_queue /= <<>> /\ batch' = Append(batch, Head(rx_queue))
          /\ rx_queue' = Tail(rx_queue)
          /\ sent' = sent /\ base' = base /\ sequence' = sequence
      BY <1>3 DEF Fetch, counters
    <2>2. rx_queue \in Seq(Nat) /\ batch \in Seq(Nat) /\ Head(rx_queue) \in Nat
          /\ sequence \in Nat
      BY <2>1, Numbers, HeadTailProperties DEF QueueInv
    <2>3. ToSet(rx_queue) = {Head(rx_queue)} \cup ToSet(Tail(rx_queue))
      BY <2>1, <2>2, Shortened
    <2>4. ToSet(batch') = ToSet(batch) \cup {Head(rx_queue)}
      BY <2>1, <2>2, Appended
    <2> QED BY <2>1, <2>2, <2>3, <2>4 DEF Waiting
  <1>4. CASE Halted \/ Command \/ Disconnect \/ Polled \/ Snapshot \/ ReadUsed
             \/ NoStatus \/ ServeStop
    <2>1. /\ rx_queue' = rx_queue /\ batch' = batch /\ sent' = sent /\ base' = base
          /\ sequence' = sequence
      BY <1>4 DEF Halted, Command, CommandStart, CommandStop, CommandConfigure,
                  Disconnect, Polled, Snapshot, ReadUsed, NoStatus, ServeStop, counters
    <2> QED BY <2>1, Numbers DEF QueueInv, Waiting
  <1> QED BY <1>1, <1>2, <1>3, <1>4 DEF Serve

(* The client's frames stay as they are while the device goes on. *)
LEMMA DeviceStep ==
    ASSUME StreamInv, ServeElse \/ DeviceElse
    PROVE  StreamInv'
  <1>1. /\ wire' = wire /\ closed' = closed /\ events' = events
        /\ pc_queue_discards' = pc_queue_discards /\ packet' = packet
        /\ last' = last /\ gaps' = gaps /\ raised' = raised /\ observed' = observed
    BY DEF ServeElse, DeviceElse, pcvars
  <1>2. rx \/ Halted \/ Command \/ Disconnect \/ Serve
    BY DEF ServeElse, DeviceElse
  <1>3. QueueInv' /\ TypeOK'
    <2>1. Next
      BY <1>2 DEF Next
    <2> QED BY <2>1, QueueStep DEF StreamInv, QueueInv
  <1>4. /\ sent' = sent /\ base' = base /\ sequence <= sequence'
        /\ \A n \in Waiting' : n \in Waiting \/ sequence < n
    BY <1>2, Elsewhere DEF StreamInv
  <1>5. Kept' = Kept /\ Stored' = Stored /\ Missing' = Missing
    BY <1>1 DEF Kept, Stored, Missing
  <1>6. StreamTypeOK'
    BY <1>1, <1>3 DEF StreamInv, StreamTypeOK
  <1>7. Flow'
    <2>1. /\ Kept \subseteq Nat /\ sequence \in Nat /\ sequence' \in Nat
          /\ Waiting' \subseteq Nat
      <3>1. Kept \subseteq Nat
        BY KeptNumbers DEF StreamInv
      <3>2. sequence \in Nat /\ sequence' \in Nat
        BY <1>3 DEF StreamInv, QueueInv, TypeOK
      <3>3. Waiting' \subseteq 1..sequence'
        BY <1>3 DEF QueueInv, Accounts
      <3> QED BY <3>1, <3>2, <3>3
    <2>2. Before(Kept', Waiting') /\ \A n \in Kept' : base' < n /\ n <= sequence'
      BY <1>4, <1>5, <2>1 DEF StreamInv, Flow, Before
    <2> QED BY <1>1, <2>2 DEF StreamInv, Flow
  <1>8. Complete' /\ NothingSkipped'
    BY <1>1, <1>4, <1>5 DEF StreamInv, Complete, NothingSkipped
  <1>9. Tracker'
    BY <1>1, <1>5 DEF StreamInv, Tracker
  <1> QED BY <1>3, <1>6, <1>7, <1>8, <1>9 DEF StreamInv

LEMMA ConnectStep ==
    ASSUME StreamInv, Connect
    PROVE  StreamInv'
  <1>1. /\ wire' = <<>> /\ closed' = FALSE /\ events' = <<>> /\ pc_queue_discards' = 0
        /\ packet' = <<>> /\ last' = 0 /\ gaps' = 0 /\ raised' = FALSE
        /\ observed' = {}
    BY DEF Connect
  <1>2. QueueInv' /\ TypeOK' /\ base' = sequence /\ sent' = sent
    BY QueueStep DEF StreamInv, Connect, Accept, Next, QueueInv
  <1>3. Kept' = {} /\ Stored' = {}
    BY <1>1, None, NoPackets DEF Kept, Stored
  <1>4. StreamTypeOK'
    <2>1. Len(events') <= EventCapacity /\ events' \in Seq(Seq(Nat))
      BY <1>1, CapacityAssumption
    <2>2. wire' \in Seq(Seq(Nat)) /\ packet' \in Seq(Nat) /\ observed' \in SUBSET Nat
      BY <1>1
    <2> QED BY <1>1, <1>2, <2>1, <2>2 DEF StreamTypeOK
  <1>5. Flow'
    BY <1>1, <1>3, None, NoPackets DEF Flow, Before
  <1>6. Complete' /\ NothingSkipped'
    <2>1. \A s \in sent : s <= sequence /\ s \in Nat /\ sequence \in Nat
      BY Numbers DEF StreamInv, QueueInv, Accounts
    <2> QED BY <1>1, <1>2, <1>3, <2>1 DEF Complete, NothingSkipped
  <1>7. Tracker'
    BY <1>1, FS_EmptySet DEF Tracker, Missing
  <1> QED BY <1>2, <1>4, <1>5, <1>6, <1>7 DEF StreamInv

(* A batch enters the connection, or is lost in it. *)
LEMMA CarriedStep ==
    ASSUME StreamInv, wire' \in {wire, Carried}
    PROVE  /\ wire' \in Seq(Seq(Nat)) /\ InFlow(wire')
           /\ Frames(wire') \subseteq Frames(wire) \cup ToSet(batch)
           /\ Frames(wire) \subseteq Frames(wire')
           /\ wire' = Carried /\ ~closed => Frames(wire') = Frames(wire) \cup ToSet(batch)
  <1>1. /\ wire \in Seq(Seq(Nat)) /\ batch \in Seq(Nat) /\ InFlow(wire) /\ Sorted(batch)
    BY Numbers DEF StreamInv, StreamTypeOK, Flow, QueueInv, Ordered
  <1>2. Before(Frames(wire), ToSet(batch))
    BY DEF StreamInv, Flow, Before, Kept, Waiting
  <1>3. CASE wire' = Append(wire, batch)
    BY <1>1, <1>2, <1>3, PacketAppended, AppendProperties
  <1>4. CASE wire' = wire /\ (wire' = Carried => closed \/ batch = <<>>)
    BY <1>1, <1>4, None
  <1> QED BY <1>3, <1>4 DEF Carried

LEMMA SendPacketStep ==
    ASSUME StreamInv, SendPacket
    PROVE  StreamInv'
  <1>1. /\ wire' = Carried /\ closed' = closed /\ events' = events
        /\ pc_queue_discards' = pc_queue_discards /\ packet' = packet
        /\ last' = last /\ gaps' = gaps /\ raised' = raised /\ observed' = observed
    BY DEF SendPacket
  <1>2. /\ sent' = sent \cup ToSet(batch) /\ batch' = <<>> /\ rx_queue' = rx_queue
        /\ base' = base /\ sequence' = sequence
    BY DEF SendPacket, SendBatch, counters
  <1>3. QueueInv' /\ TypeOK'
    BY SendStep DEF SendPacket, StreamInv, QueueInv
  <1>4. /\ wire' \in Seq(Seq(Nat)) /\ InFlow(wire')
        /\ Frames(wire') \subseteq Frames(wire) \cup ToSet(batch)
        /\ Frames(wire) \subseteq Frames(wire')
        /\ ~closed => Frames(wire') = Frames(wire) \cup ToSet(batch)
    BY <1>1, CarriedStep
  <1>5. /\ Stored' = Stored /\ Missing' = Missing /\ Waiting' = ToSet(rx_queue)
        /\ Kept' \subseteq Kept \cup ToSet(batch) /\ Kept \subseteq Kept'
        /\ Stored \subseteq Kept /\ Frames(wire) \subseteq Kept
    BY <1>1, <1>2, <1>4, None DEF Kept, Stored, Missing, Waiting
  <1>6. StreamTypeOK'
    BY <1>1, <1>3, <1>4 DEF StreamInv, StreamTypeOK
  <1>7. Before(Kept, ToSet(batch)) /\ Before(ToSet(batch), ToSet(rx_queue))
        /\ Before(Kept, ToSet(rx_queue))
    BY DEF StreamInv, Flow, QueueInv, Ordered, Waiting, Before
  <1>8. Flow'
    <2>1. \A n \in ToSet(batch) : base < n /\ n <= sequence
      BY DEF StreamInv, QueueInv, Ordered, Waiting
    <2>2. Before(Kept', Waiting') /\ \A n \in Kept' : base' < n /\ n <= sequence'
      BY <1>2, <1>5, <1>7, <2>1 DEF StreamInv, Flow, Before
    <2>3. Before(Stored, Frames(wire'))
      BY <1>4, <1>5, <1>7 DEF StreamInv, Flow, Before, Stored
    <2> QED BY <1>1, <1>4, <2>2, <2>3 DEF StreamInv, Flow, Before, Stored
  <1>9. Complete'
    <2>1. ASSUME NEW s \in ToSet(batch), NEW t \in Stored, s <= t
          PROVE  FALSE
      <3>1. t < s /\ s \in Nat /\ t \in Nat
        BY <1>5, <1>7, Numbers, KeptNumbers DEF Before, StreamInv, QueueInv
      <3> QED BY <2>1, <3>1
    <2> QED BY <1>2, <1>5, <2>1 DEF StreamInv, Complete
  <1>10. NothingSkipped'
    BY <1>1, <1>2, <1>4, <1>5 DEF StreamInv, NothingSkipped, Kept
  <1>11. Tracker'
    BY <1>1, <1>5 DEF StreamInv, Tracker
  <1> QED BY <1>3, <1>6, <1>8, <1>9, <1>10, <1>11 DEF StreamInv

LEMMA SendPacketFailsStep ==
    ASSUME StreamInv, SendPacketFails
    PROVE  StreamInv'
  <1>1. /\ wire' \in {wire, Carried} /\ closed' = closed /\ events' = events
        /\ pc_queue_discards' = pc_queue_discards /\ packet' = packet
        /\ last' = last /\ gaps' = gaps /\ raised' = raised /\ observed' = observed
    BY DEF SendPacketFails
  <1>2. /\ sent' = sent /\ batch' = <<>> /\ rx_queue' = rx_queue
        /\ base' = base /\ sequence' = sequence
    BY DEF SendPacketFails, SendBatchFails, counters
  <1>3. QueueInv' /\ TypeOK'
    BY SendFailsStep DEF SendPacketFails, StreamInv, QueueInv
  <1>4. /\ wire' \in Seq(Seq(Nat)) /\ InFlow(wire')
        /\ Frames(wire') \subseteq Frames(wire) \cup ToSet(batch)
        /\ Frames(wire) \subseteq Frames(wire')
    BY <1>1, CarriedStep
  <1>5. /\ Stored' = Stored /\ Missing' = Missing /\ Waiting' = ToSet(rx_queue)
        /\ Kept' \subseteq Kept \cup ToSet(batch) /\ Kept \subseteq Kept'
        /\ Stored \subseteq Kept
    BY <1>1, <1>2, <1>4, None DEF Kept, Stored, Missing, Waiting
  <1>6. StreamTypeOK'
    BY <1>1, <1>3, <1>4 DEF StreamInv, StreamTypeOK
  <1>7. Flow'
    <2>1. Before(Kept, ToSet(batch)) /\ Before(ToSet(batch), ToSet(rx_queue))
          /\ Before(Kept, ToSet(rx_queue))
      BY DEF StreamInv, Flow, QueueInv, Ordered, Waiting, Before
    <2>2. \A n \in ToSet(batch) : base < n /\ n <= sequence
      BY DEF StreamInv, QueueInv, Ordered, Waiting
    <2>3. Before(Kept', Waiting') /\ \A n \in Kept' : base' < n /\ n <= sequence'
      BY <1>2, <1>5, <2>1, <2>2 DEF StreamInv, Flow, Before
    <2>4. Before(Stored, Frames(wire'))
      BY <1>4, <1>5, <2>1 DEF StreamInv, Flow, Before, Stored
    <2> QED BY <1>1, <1>4, <2>3, <2>4 DEF StreamInv, Flow, Before, Stored
  <1>8. Complete' /\ NothingSkipped'
    BY <1>1, <1>2, <1>5 DEF StreamInv, Complete, NothingSkipped
  <1>9. Tracker'
    BY <1>1, <1>5 DEF StreamInv, Tracker
  <1> QED BY <1>3, <1>6, <1>7, <1>8, <1>9 DEF StreamInv
-----------------------------------------------------------------------------
(* The client's own steps leave the device as it is. *)
LEMMA Beside ==
    ASSUME StreamInv, UNCHANGED vars, Kept' \subseteq Kept
    PROVE  /\ QueueInv' /\ TypeOK' /\ sent' = sent /\ base' = base
           /\ Before(Kept', Waiting') /\ \A n \in Kept' : base' < n /\ n <= sequence'
  <1>1. /\ sent' = sent /\ base' = base /\ sequence' = sequence
        /\ batch' = batch /\ rx_queue' = rx_queue
    BY DEF vars, counters
  <1>2. QueueInv'
    BY QueueStep DEF StreamInv
  <1>3. Waiting' = Waiting
    BY <1>1 DEF Waiting
  <1> QED BY <1>1, <1>2, <1>3 DEF StreamInv, Flow, Before, QueueInv

LEMMA ReadStep ==
    ASSUME StreamInv, Read
    PROVE  StreamInv'
  <1> DEFINE p == Head(wire)
  <1>1. /\ wire /= <<>> /\ wire' = Tail(wire) /\ ~closed /\ UNCHANGED vars
        /\ packet' = packet /\ last' = last /\ gaps' = gaps /\ raised' = raised
        /\ observed' = observed
    BY DEF Read
  <1>2. /\ wire \in Seq(Seq(Nat)) /\ events \in Seq(Seq(Nat)) /\ InFlow(wire)
        /\ InFlow(events)
    BY DEF StreamInv, StreamTypeOK, Flow
  <1>3. /\ p \in Seq(Nat) /\ wire' \in Seq(Seq(Nat)) /\ InFlow(wire') /\ Sorted(p)
        /\ Frames(wire) = ToSet(p) \cup Frames(wire')
        /\ Before(ToSet(p), Frames(wire'))
    BY <1>1, <1>2, PacketTaken
  <1>4. Tracker' /\ Missing' = Missing
    BY <1>1 DEF StreamInv, Tracker, Missing
  <1>5. /\ Before(observed \cup ToSet(packet) \cup Frames(events), ToSet(p))
        /\ Before(Stored, Frames(wire'))
        /\ Before(observed, ToSet(packet) \cup Frames(events) \cup Frames(wire'))
        /\ Before(ToSet(packet), Frames(events) \cup Frames(wire'))
        /\ Before(Frames(events), Frames(wire'))
    BY <1>3 DEF StreamInv, Flow, Before, Stored
  <1>6. CASE /\ EventRoom /\ events' = Append(events, p) /\ closed' = closed
             /\ pc_queue_discards' = pc_queue_discards
    <2>1. /\ Frames(events') = Frames(events) \cup ToSet(p) /\ InFlow(events')
          /\ events' \in Seq(Seq(Nat)) /\ Len(events') = Len(events) + 1
          /\ Len(events) \in Nat
      <3>1. Before(Frames(events), ToSet(p))
        BY <1>5 DEF Before
      <3> QED BY <1>2, <1>3, <1>6, <3>1, PacketAppended, AppendProperties, LenProperties
    <2>2. Kept' = Kept /\ Stored' = Stored \cup ToSet(p)
      BY <1>1, <1>3, <2>1 DEF Kept, Stored
    <2>3. /\ QueueInv' /\ TypeOK' /\ sent' = sent /\ base' = base
          /\ Before(Kept', Waiting') /\ \A n \in Kept' : base' < n /\ n <= sequence'
      BY <1>1, <2>2, Beside
    <2>4. StreamTypeOK'
      BY <1>1, <1>3, <1>6, <2>1, <2>3, CapacityAssumption
         DEF StreamInv, StreamTypeOK, EventRoom
    <2>5. Flow'
      <3>1. /\ Before(observed', ToSet(packet') \cup Frames(events') \cup Frames(wire'))
            /\ Before(ToSet(packet'), Frames(events') \cup Frames(wire'))
            /\ Before(Frames(events'), Frames(wire'))
        BY <1>1, <1>3, <1>5, <2>1 DEF Before
      <3> QED BY <1>1, <1>3, <2>1, <2>3, <3>1 DEF StreamInv, Flow
    <2>6. NothingSkipped'
      BY <1>1, <1>6, <2>2, <2>3 DEF StreamInv, NothingSkipped
    <2>7. Complete'
      <3>1. ASSUME NEW s \in sent, NEW t \in ToSet(p), base < s, s <= t
            PROVE  s \in Stored \cup ToSet(p)
        <4>1. s \in Kept
          BY <1>1, <3>1, Numbers DEF StreamInv, NothingSkipped, QueueInv
        <4>2. s \notin Frames(wire')
          <5>1. t \in Nat /\ s \in Nat
            BY <1>3, <3>1, Numbers, KeptNumbers DEF StreamInv, QueueInv, Kept
          <5> QED BY <1>3, <3>1, <5>1 DEF Before
        <4> QED BY <1>3, <4>1, <4>2 DEF Kept, Stored
      <3> QED BY <2>2, <2>3, <3>1 DEF StreamInv, Complete
    <2> QED BY <1>4, <2>3, <2>4, <2>5, <2>6, <2>7 DEF StreamInv
  <1>7. CASE /\ ~EventRoom /\ closed' = TRUE /\ pc_queue_discards' = 1
             /\ events' = events
    <2>1. Kept' \subseteq Kept /\ Stored' = Stored
      BY <1>1, <1>3, <1>7 DEF Kept, Stored
    <2>2. /\ QueueInv' /\ TypeOK' /\ sent' = sent /\ base' = base
          /\ Before(Kept', Waiting') /\ \A n \in Kept' : base' < n /\ n <= sequence'
      BY <1>1, <2>1, Beside
    <2>3. StreamTypeOK'
      BY <1>1, <1>3, <1>7, <2>2 DEF StreamInv, StreamTypeOK
    <2>4. Flow'
      BY <1>1, <1>3, <1>5, <1>7, <2>2 DEF StreamInv, Flow
    <2>5. NothingSkipped' /\ Complete'
      BY <1>7, <2>1, <2>2 DEF StreamInv, NothingSkipped, Complete
    <2> QED BY <1>4, <2>2, <2>3, <2>4, <2>5 DEF StreamInv
  <1> QED BY <1>6, <1>7 DEF Read, EndAtOverflow

(* The connection ends for the client, with its packets. *)
LEMMA CloseStep ==
    ASSUME StreamInv, ReadEnd \/ Close
    PROVE  StreamInv'
  <1>1. /\ wire' = <<>> /\ closed' = TRUE /\ events' = events /\ UNCHANGED vars
        /\ pc_queue_discards' = pc_queue_discards /\ packet' = packet
        /\ last' = last /\ gaps' = gaps /\ raised' = raised /\ observed' = observed
    BY DEF ReadEnd, Close
  <1>2. Frames(wire') = {} /\ InFlow(wire') /\ wire' \in Seq(Seq(Nat))
    BY <1>1, NoPackets
  <1>3. Kept' \subseteq Kept /\ Stored' = Stored /\ Missing' = Missing
    BY <1>1, <1>2 DEF Kept, Stored, Missing
  <1>4. /\ QueueInv' /\ TypeOK' /\ sent' = sent /\ base' = base
        /\ Before(Kept', Waiting') /\ \A n \in Kept' : base' < n /\ n <= sequence'
    BY <1>1, <1>3, Beside
  <1>5. StreamTypeOK'
    BY <1>1, <1>2, <1>4 DEF StreamInv, StreamTypeOK
  <1>6. Flow'
    BY <1>1, <1>2, <1>4 DEF StreamInv, Flow, Before
  <1>7. NothingSkipped' /\ Complete' /\ Tracker'
    BY <1>1, <1>3, <1>4 DEF StreamInv, NothingSkipped, Complete, Tracker
  <1> QED BY <1>4, <1>5, <1>6, <1>7 DEF StreamInv

LEMMA TakeStep ==
    ASSUME StreamInv, Take
    PROVE  StreamInv'
  <1>1. /\ wire' = wire /\ closed' = closed /\ events' = Tail(events) /\ UNCHANGED vars
        /\ pc_queue_discards' = pc_queue_discards /\ packet' = Head(events)
        /\ last' = last /\ gaps' = gaps /\ raised' = raised /\ observed' = observed
        /\ packet = <<>> /\ events /= <<>>
    BY DEF Take
  <1>2. events \in Seq(Seq(Nat)) /\ InFlow(events)
    BY DEF StreamInv, StreamTypeOK, Flow
  <1>3. /\ packet' \in Seq(Nat) /\ events' \in Seq(Seq(Nat)) /\ InFlow(events')
        /\ Sorted(packet') /\ Frames(events) = ToSet(packet') \cup Frames(events')
        /\ Before(ToSet(packet'), Frames(events'))
        /\ Len(events') = Len(events) - 1 /\ Len(events) \in Nat
    BY <1>1, <1>2, PacketTaken, HeadTailProperties, LenProperties
  <1>4. Kept' = Kept /\ Stored' = Stored /\ Missing' = Missing
    BY <1>1, <1>3, None DEF Kept, Stored, Missing
  <1>5. /\ QueueInv' /\ TypeOK' /\ sent' = sent /\ base' = base
        /\ Before(Kept', Waiting') /\ \A n \in Kept' : base' < n /\ n <= sequence'
    BY <1>1, <1>4, Beside
  <1>6. StreamTypeOK'
    BY <1>1, <1>3, <1>5, CapacityAssumption DEF StreamInv, StreamTypeOK
  <1>7. Flow'
    <2>1. /\ Before(observed', ToSet(packet') \cup Frames(events') \cup Frames(wire'))
          /\ Before(ToSet(packet'), Frames(events') \cup Frames(wire'))
          /\ Before(Frames(events'), Frames(wire'))
      BY <1>1, <1>3 DEF StreamInv, Flow, Before
    <2> QED BY <1>1, <1>3, <1>5, <2>1 DEF StreamInv, Flow
  <1>8. NothingSkipped' /\ Complete' /\ Tracker'
    BY <1>1, <1>4, <1>5 DEF StreamInv, NothingSkipped, Complete, Tracker
  <1> QED BY <1>5, <1>6, <1>7, <1>8 DEF StreamInv

(* The tracker adds the frames between the last and this one. *)
LEMMA GapStep ==
    ASSUME StreamInv, NEW n \in Nat, observed' = observed \cup {n}, last' = n,
           \A m \in observed : m < n,
           gaps' = IF last = 0 THEN gaps ELSE gaps + Gap(last, n)
    PROVE  gaps' = Cardinality(Missing')
  <1>1. /\ observed \in SUBSET Nat /\ last \in Nat /\ gaps \in Nat
        /\ gaps = Cardinality(Missing)
    BY DEF StreamInv, StreamTypeOK, Tracker
  <1>2. CASE observed = {}
    <2>1. observed' = {n} /\ last = 0 /\ gaps = 0 /\ gaps' = 0
      BY <1>2 DEF StreamInv, Tracker
    <2>2. Min(observed') = n
      BY <2>1, MinOf
    <2>3. Missing' = {}
      BY <2>1, <2>2 DEF Missing
    <2> QED BY <2>1, <2>3, FS_EmptySet
  <1>3. CASE observed /= {}
    <2> DEFINE skipped == (last + 1)..(n - 1)
    <2>1. /\ last \in observed /\ \A m \in observed : m <= last /\ m \in Nat
          /\ last < n
      BY <1>1, <1>3 DEF StreamInv, Tracker
    <2>2. PICK first \in observed : \A m \in observed : first <= m
      BY <1>3 DEF StreamInv, Tracker
    <2>3. first \in Nat /\ first <= last /\ first <= n /\ Min(observed) = first
      BY <1>1, <2>1, <2>2, MinOf
    <2>4. Min(observed') = first
      <3>1. observed' \in SUBSET Nat /\ first \in observed'
            /\ \A m \in observed' : first <= m
        BY <1>1, <2>2, <2>3
      <3> QED BY <3>1, MinOf
    <2>5. Missing = (first..last) \ observed
      BY <1>3, <2>3 DEF Missing
    <2>6. Missing' = (first..n) \ (observed \cup {n})
      BY <2>4 DEF Missing
    <2>7. Missing' = Missing \cup skipped
      BY <1>1, <2>1, <2>3, <2>5, <2>6
    <2>8. Missing \cap skipped = {}
      BY <1>1, <2>1, <2>3, <2>5
    <2>9. IsFiniteSet(Missing) /\ Cardinality(Missing) \in Nat
      <3>1. IsFiniteSet(first..last)
        BY <1>1, <2>3, FS_Interval
      <3>2. Missing \in SUBSET (first..last)
        BY <2>5
      <3> QED BY <3>1, <3>2, FS_Subset, FS_CardinalityType
    <2>10. IsFiniteSet(skipped) /\ Cardinality(skipped) = n - last - 1
      <3>1. last + 1 \in Int /\ n - 1 \in Int
        BY <1>1
      <3>2. IsFiniteSet(skipped) /\ Cardinality(skipped)
              = IF last + 1 > n - 1 THEN 0 ELSE (n - 1) - (last + 1) + 1
        BY <3>1, FS_Interval
      <3> QED BY <1>1, <2>1, <3>2
    <2>11. Cardinality(Missing') = Cardinality(Missing) + Cardinality(skipped)
      BY <2>7, <2>8, <2>9, <2>10, Disjoint
    <2>12. last /= 0
      BY <1>1, <2>1, <2>3 DEF StreamInv, Flow, Kept, QueueInv, TypeOK
    <2> QED BY <1>1, <2>10, <2>11, <2>12 DEF Gap
  <1> QED BY <1>2, <1>3

LEMMA ObserveStep ==
    ASSUME StreamInv, observe
    PROVE  StreamInv'
  <1> DEFINE n == Head(packet)
  <1>1. /\ wire' = wire /\ events' = events /\ UNCHANGED vars
        /\ pc_queue_discards' = pc_queue_discards /\ packet' = Tail(packet)
        /\ packet /= <<>> /\ closed' = (closed \/ raised')
        /\ raised' = (last /= 0 /\ n <= last)
        /\ last' = (IF raised' THEN last ELSE n)
        /\ gaps' = (IF raised' \/ last = 0 THEN gaps ELSE gaps + Gap(last, n))
        /\ observed' = (IF raised' THEN observed ELSE observed \cup {n})
    BY DEF observe
  <1>2. packet \in Seq(Nat) /\ Sorted(packet) /\ observed \in SUBSET Nat
        /\ last \in Nat /\ gaps \in Nat
    BY DEF StreamInv, StreamTypeOK, Flow
  <1>3. /\ n \in Nat /\ packet' \in Seq(Nat) /\ Sorted(packet')
        /\ ToSet(packet) = {n} \cup ToSet(packet')
        /\ Before({n}, ToSet(packet'))
    BY <1>1, <1>2, Shortened, HeadTailProperties
  <1>4. \A m \in observed : m < n
    BY <1>3 DEF StreamInv, Flow, Before
  <1>5. last = 0 \/ last < n
    BY <1>4 DEF StreamInv, Tracker
  <1>6. raised' = FALSE
    <2>1. ~(last /= 0 /\ n <= last)
      BY <1>2, <1>3, <1>5
    <2> QED BY <1>1, <2>1, Zenon
  <1>7. /\ last' = n /\ observed' = observed \cup {n} /\ closed' = closed
        /\ gaps' = IF last = 0 THEN gaps ELSE gaps + Gap(last, n)
    BY <1>1, <1>6 DEF StreamInv, StreamTypeOK
  <1>8. Kept' = Kept /\ Stored' = Stored
    BY <1>1, <1>3, <1>7 DEF Kept, Stored
  <1>9. /\ QueueInv' /\ TypeOK' /\ sent' = sent /\ base' = base
        /\ Before(Kept', Waiting') /\ \A m \in Kept' : base' < m /\ m <= sequence'
    BY <1>1, <1>8, Beside
  <1>10. gaps' \in Nat
    BY <1>2, <1>3, <1>5, <1>7 DEF Gap
  <1>11. StreamTypeOK'
    BY <1>1, <1>2, <1>3, <1>6, <1>7, <1>9, <1>10 DEF StreamInv, StreamTypeOK
  <1>12. Flow'
    <2>1. /\ Before(observed', ToSet(packet') \cup Frames(events') \cup Frames(wire'))
          /\ Before(ToSet(packet'), Frames(events') \cup Frames(wire'))
          /\ Before(Frames(events'), Frames(wire'))
      BY <1>1, <1>3, <1>7 DEF StreamInv, Flow, Before
    <2> QED BY <1>1, <1>3, <1>9, <2>1 DEF StreamInv, Flow
  <1>13. NothingSkipped' /\ Complete'
    BY <1>1, <1>7, <1>8, <1>9 DEF StreamInv, NothingSkipped, Complete
  <1>14. Tracker'
    <2>1. gaps' = Cardinality(Missing')
      BY <1>3, <1>4, <1>7, GapStep
    <2>2. observed' /= {} /\ last' \in observed'
      BY <1>7
    <2>3. \A m \in observed' : m <= last'
      BY <1>2, <1>3, <1>4, <1>7
    <2>4. \E first \in observed' : \A m \in observed' : first <= m
      <3>1. CASE observed = {}
        BY <1>3, <1>7, <3>1
      <3>2. CASE observed /= {}
        <4>1. PICK first \in observed : \A m \in observed : first <= m
          BY <3>2 DEF StreamInv, Tracker
        <4>2. first <= n /\ first \in observed'
          BY <1>2, <1>3, <1>4, <1>7, <4>1
        <4> QED BY <1>7, <4>1, <4>2
      <3> QED BY <3>1, <3>2
    <2> QED BY <1>6, <2>1, <2>2, <2>3, <2>4 DEF Tracker
  <1> QED BY <1>9, <1>11, <1>12, <1>13, <1>14 DEF StreamInv

LEMMA StreamStep == StreamInv /\ [StreamNext]_<<vars, pcvars>> => StreamInv'
  <1>1. ASSUME StreamInv, StreamNext PROVE StreamInv'
    BY <1>1, ConnectStep, SendPacketStep, SendPacketFailsStep, DeviceStep, ReadStep,
       CloseStep, TakeStep, ObserveStep DEF StreamNext, Server
  <1>2. ASSUME StreamInv, UNCHANGED <<vars, pcvars>> PROVE StreamInv'
    <2>1. /\ wire' = wire /\ closed' = closed /\ events' = events /\ UNCHANGED vars
          /\ pc_queue_discards' = pc_queue_discards /\ packet' = packet
          /\ last' = last /\ gaps' = gaps /\ raised' = raised /\ observed' = observed
      BY <1>2 DEF pcvars
    <2>2. Kept' = Kept /\ Stored' = Stored /\ Missing' = Missing
      BY <2>1 DEF Kept, Stored, Missing
    <2>3. /\ QueueInv' /\ TypeOK' /\ sent' = sent /\ base' = base
          /\ Before(Kept', Waiting') /\ \A n \in Kept' : base' < n /\ n <= sequence'
      BY <1>2, <2>1, <2>2, Beside
    <2>4. StreamTypeOK' /\ Flow'
      BY <1>2, <2>1, <2>3 DEF StreamInv, StreamTypeOK, Flow
    <2>5. NothingSkipped' /\ Complete' /\ Tracker'
      BY <1>2, <2>1, <2>2, <2>3 DEF StreamInv, NothingSkipped, Complete, Tracker
    <2> QED BY <2>3, <2>4, <2>5 DEF StreamInv
  <1> QED BY <1>1, <1>2

(* The invariant from which everything below follows. *)
LEMMA StreamInvariant == StreamSpec => []StreamInv
  <1> QED BY StreamInitially, StreamStep, PTL DEF StreamSpec
-----------------------------------------------------------------------------
(* Every frame that the receive callback numbered is waiting, sent once or *)
(* lost and counted (capture.c, rx; main.c, serve).                        *)
THEOREM NothingVanishes == StreamSpec => []Partition
  <1>1. ASSUME StreamInv PROVE Partition
    <2>1. ToSet(Held) = Waiting
      BY <1>1, Numbers, Joined DEF StreamInv, QueueInv, Held, Waiting
    <2> QED BY <1>1, <2>1 DEF StreamInv, QueueInv, Accounts, Partition
  <1> QED BY <1>1, StreamInvariant, PTL

(* Frames wait and are sent in the order they were received in, on the     *)
(* connection they were received on; without one, none waits (main.c,      *)
(* serve and its caller).                                                  *)
THEOREM OrderKept == StreamSpec => []InOrder
  <1>1. ASSUME StreamInv PROVE InOrder
    <2>1. /\ batch \in Seq(Nat) /\ rx_queue \in Seq(Nat) /\ Held = batch \o rx_queue
          /\ Ordered /\ Where
      BY <1>1, Numbers DEF StreamInv, QueueInv, Held
    <2>2. Sorted(Held) /\ ToSet(Held) = Waiting
      BY <2>1, Joined DEF Ordered, Waiting
    <2>3. \A i \in DOMAIN Held : Held[i] \in Waiting
      BY <2>2, Zenon DEF ToSet
    <2>4. phase = "accept" => Held = <<>> /\ ~running
      BY <2>1 DEF Where
    <2>5. \A i \in DOMAIN Held : base < Held[i] /\ Held[i] <= sequence
      BY <2>1, <2>3 DEF Ordered
    <2>6. \A s \in sent, i \in DOMAIN Held : s < Held[i]
      BY <2>1, <2>3 DEF Ordered, Before
    <2> QED BY <2>2, <2>4, <2>5, <2>6 DEF InOrder, Sorted
  <1> QED BY <1>1, StreamInvariant, PTL

(* A status accounts for every frame, although the fill of the queue is    *)
(* read after the counters (capture.c, capture_status).                    *)
THEOREM StatusConsistent == StreamSpec => []StatusSound
  <1>1. ASSUME StreamInv PROVE StatusSound
    BY <1>1 DEF StreamInv, QueueInv, Reported, Sound, StatusSound
  <1> QED BY <1>1, StreamInvariant, PTL

(* The gaps a user sees are exactly the frames missing from the recording, *)
(* each counted by the device as lost, and the tracker never raises        *)
(* (model.py, SequenceTracker.observe; capture.c, rx).                     *)
THEOREM GapsAreLosses == StreamSpec => []GapsExplained
  <1>1. ASSUME StreamInv PROVE GapsExplained
    <2>1. ASSUME NEW m \in Missing PROVE m \in lost
      <3>1. observed /= {} /\ m \in Min(observed)..last /\ m \notin observed
        BY <2>1 DEF Missing
      <3>2. PICK first \in observed : \A k \in observed : first <= k
        BY <1>1, <3>1 DEF StreamInv, Tracker
      <3>3. /\ last \in observed /\ observed \in SUBSET Nat /\ base \in Nat
            /\ sequence \in Nat
        BY <1>1, <3>1 DEF StreamInv, Tracker, StreamTypeOK, QueueInv, TypeOK
      <3>4. Min(observed) = first
        BY <3>2, <3>3, MinOf
      <3>5. /\ first \in Kept /\ last \in Kept /\ first \in Nat /\ last \in Nat
            /\ base < first /\ last <= sequence
        BY <1>1, <3>2, <3>3 DEF StreamInv, Flow, Kept
      <3>6. m \in Nat /\ first <= m /\ m <= last /\ base < m /\ m \in 1..sequence
        BY <3>1, <3>3, <3>4, <3>5
      <3>7. m \in Waiting \cup sent \cup lost
        BY <1>1, <3>6 DEF StreamInv, QueueInv, Accounts
      <3>8. m \notin Waiting
        <4>1. \A w \in Waiting : last < w
          BY <1>1, <3>5 DEF StreamInv, Flow, Before
        <4> QED BY <3>5, <3>6, <4>1
      <3>9. ASSUME m \in sent PROVE FALSE
        <4>1. last \in Stored /\ m \in Stored
          BY <1>1, <3>3, <3>6, <3>9 DEF StreamInv, Complete, Stored
        <4>2. m \in ToSet(packet) \cup Frames(events)
          BY <3>1, <4>1 DEF Stored
        <4>3. last < m
          BY <1>1, <3>3, <4>2 DEF StreamInv, Flow, Before
        <4> QED BY <3>5, <3>6, <4>3
      <3> QED BY <3>7, <3>8, <3>9
    <2> QED BY <1>1, <2>1 DEF StreamInv, Tracker, GapsExplained
  <1> QED BY <1>1, StreamInvariant, PTL

(* A client that goes on has every frame that was sent to it (client.py,   *)
(* the reader thread, which closes on a full queue).                       *)
THEOREM NoSilentLoss == StreamSpec => []NothingSkipped
  <1>1. StreamInv => NothingSkipped
    BY DEF StreamInv
  <1> QED BY <1>1, StreamInvariant, PTL
=============================================================================
