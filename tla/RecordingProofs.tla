--------------------------- MODULE RecordingProofs ---------------------------
(* What a recording leaves on the disk, however the threads interleave,    *)
(* whatever write fails and whenever the power goes; and that the tables   *)
(* of the monitor show the history of the frames.                          *)
EXTENDS Recording, SequenceTheorems, FiniteSetTheorems, WellFoundedInduction, TLAPS

(* Every set of naturals has a least element; from this come an induction  *)
(* over a set and the existence of a function that is defined by           *)
(* recursion.                                                              *)
LEMMA Least ==
    ASSUME NEW T, T \subseteq Nat, T /= {} PROVE \E x \in T : \A y \in T : x <= y
  <1> DEFINE R == OpToRel(<, Nat)
  <1>1. \A x, y \in Nat : x < y => <<x, y>> \in R
    BY Zenon DEF OpToRel
  <1>2. IsWellFoundedOn(R, T)
    BY Zenon, NatLessThanWellFounded, IsWellFoundedOnSubset
  <1>3. PICK x \in T : \A y \in T : ~(<<y, x>> \in R)
    BY <1>2, WFMin, Zenon
  <1>4. \A y \in T : ~(y < x)
    BY <1>1, <1>3, Zenon
  <1> QED
    BY <1>4

(* The set is that of the numbers for which something is known.            *)
LEMMA Induction ==
    ASSUME NEW T, 0 \in T, \A n \in Nat : n \in T => n + 1 \in T
    PROVE  Nat \subseteq T
  <1>1. SUFFICES ASSUME Nat \ T /= {} PROVE FALSE
    OBVIOUS
  <1>2. PICK x \in Nat \ T : \A y \in Nat \ T : x <= y
    BY Least, <1>1
  <1>3. x /= 0 /\ x - 1 \in Nat /\ ~(x - 1 \in Nat \ T)
    BY <1>2
  <1> QED
    BY <1>2, <1>3

Iterated(S, b, step, m) ==
    \E f \in [0..m -> S] : f[0] = b /\ \A i \in 1..m : f[i] = step[i][f[i - 1]]

LEMMA Recursion ==
    ASSUME NEW S, NEW b \in S, NEW step \in [Nat -> [S -> S]], NEW m \in Nat
    PROVE  Iterated(S, b, step, m)
  <1> DEFINE Part(n, f) == /\ f \in [0..n -> S] /\ f[0] = b
                           /\ \A i \in 1..n : f[i] = step[i][f[i - 1]]
             T == {n \in Nat : \E f : Part(n, f)}
  <1>1. 0 \in T
    <2>1. Part(0, [i \in 0..0 |-> b])
      OBVIOUS
    <2> QED
      BY <2>1
  <1>2. ASSUME NEW n \in Nat, n \in T PROVE n + 1 \in T
    <2>1. PICK f : Part(n, f)
      BY <1>2
    <2> DEFINE g == [i \in 0..(n + 1) |-> IF i <= n THEN f[i] ELSE step[n + 1][f[n]]]
    <2>2. f[n] \in S /\ step[n + 1][f[n]] \in S
      BY <2>1
    <2>3. g \in [0..(n + 1) -> S] /\ g[0] = b
      BY <2>1, <2>2
    <2>4. ASSUME NEW i \in 1..(n + 1) PROVE g[i] = step[i][g[i - 1]]
      <3>1. CASE i = n + 1
        BY <3>1, <2>2
      <3>2. CASE i <= n
        BY <3>2, <2>1
      <3> QED
        BY <3>1, <3>2
    <2>5. Part(n + 1, g)
      BY <2>3, <2>4
    <2> HIDE DEF Part, g
    <2> QED
      BY <2>5
  <1> HIDE DEF T
  <1>3. Nat \subseteq T
    BY <1>1, <1>2, Induction
  <1> QED
    BY <1>3 DEF T, Iterated

-----------------------------------------------------------------------------
(* The rows of export_csv() after each record (recording.py:94).           *)
LEMMA RowsDefined ==
    ASSUME NEW S, NEW records \in Seq(S)
    PROVE  /\ Rows(records) \in [0..Len(records) -> Seq(S)]
           /\ Rows(records)[0] = <<>>
           /\ \A n \in 1..Len(records) :
                Rows(records)[n] = IF records[n].type = "rx"
                                   THEN Append(Rows(records)[n - 1], records[n])
                                   ELSE Rows(records)[n - 1]
  <1> DEFINE none == <<>>
             SS == Seq(S)
             m == Len(records)
             More(s, n) == IF records[n].type = "rx" THEN Append(s, records[n]) ELSE s
             F(r) == [n \in 0..m |-> IF n = 0 THEN none ELSE More(r[n - 1], n)]
  <1>1. none \in SS /\ m \in Nat /\ \A s \in SS, n \in 1..m : More(s, n) \in SS
    OBVIOUS
  <1>2. Rows(records) = CHOOSE r : r = F(r)
    BY DEF Rows
  <1> SUFFICES /\ Rows(records) \in [0..m -> SS]
               /\ Rows(records)[0] = none
               /\ \A n \in 1..m : Rows(records)[n] = More(Rows(records)[n - 1], n)
    OBVIOUS
  <1> HIDE DEF none, SS, m, More
  <1> DEFINE step == [n \in Nat |-> [s \in SS |-> IF n \in 1..m THEN More(s, n) ELSE s]]
  <1>3. PICK f \in [0..m -> SS] :
               f[0] = none /\ \A n \in 1..m : f[n] = step[n][f[n - 1]]
    <2>1. step \in [Nat -> [SS -> SS]]
      BY <1>1
    <2> HIDE DEF step
    <2>2. none \in SS /\ m \in Nat
      BY <1>1
    <2>3. Iterated(SS, none, step, m)
      BY <2>1, <2>2, Recursion
    <2> QED
      BY <2>3 DEF Iterated
  <1>4. ASSUME NEW n \in 1..m PROVE f[n] = More(f[n - 1], n)
    <2>1. f[n - 1] \in SS /\ n \in Nat
      BY <1>1, <1>3
    <2>2. step[n][f[n - 1]] = More(f[n - 1], n)
      BY <2>1
    <2> QED
      BY <1>3, <2>2
  <1> HIDE DEF step
  <1>5. f = F(f)
    BY <1>1, <1>3, <1>4
  <1> HIDE DEF F
  <1>6. Rows(records) = F(Rows(records))
    BY <1>2, <1>5
  <1>7. SUFFICES ASSUME NEW r, r = F(r)
                 PROVE  /\ r \in [0..m -> SS] /\ r[0] = none
                        /\ \A n \in 1..m : r[n] = More(r[n - 1], n)
    BY <1>6
  <1>8. /\ DOMAIN r = 0..m /\ r[0] = none
        /\ \A n \in 1..m : r[n] = More(r[n - 1], n)
    BY <1>1, <1>7 DEF F
  <1> DEFINE T == {n \in Nat : n <= m => r[n] \in SS}
  <1>9. 0 \in T
    BY <1>1, <1>8
  <1>10. ASSUME NEW n \in Nat, n \in T PROVE n + 1 \in T
    BY <1>1, <1>8, <1>10
  <1> HIDE DEF T
  <1>11. Nat \subseteq T
    BY <1>9, <1>10, Induction
  <1>12. \A n \in 0..m : r[n] \in SS
    BY <1>1, <1>11 DEF T
  <1>13. r = [n \in 0..m |-> r[n]]
    BY <1>7 DEF F
  <1> QED
    BY <1>8, <1>12, <1>13

(* What comes before what.                                                 *)
LEMMA PrefixElements ==
    ASSUME NEW S, NEW s \in Seq(S), NEW t \in Seq(S)
    PROVE  IsPrefix(s, t) <=> Len(s) <= Len(t) /\ \A i \in 1..Len(s) : s[i] = t[i]
  BY DEF IsPrefix

LEMMA PrefixReflexive ==
    ASSUME NEW S, NEW s \in Seq(S) PROVE IsPrefix(s, s)
  BY PrefixElements

LEMMA PrefixTransitive ==
    ASSUME NEW S, NEW s \in Seq(S), NEW t \in Seq(S), NEW u \in Seq(S),
           IsPrefix(s, t), IsPrefix(t, u)
    PROVE  IsPrefix(s, u)
  <1>1. Len(s) <= Len(t) /\ \A i \in 1..Len(s) : s[i] = t[i]
    BY PrefixElements
  <1>2. Len(t) <= Len(u) /\ \A i \in 1..Len(t) : t[i] = u[i]
    BY PrefixElements
  <1>3. Len(s) <= Len(u) /\ \A i \in 1..Len(s) : s[i] = u[i]
    BY <1>1, <1>2
  <1> QED
    BY <1>3, PrefixElements

LEMMA PrefixConcat ==
    ASSUME NEW S, NEW s \in Seq(S), NEW t \in Seq(S)
    PROVE  IsPrefix(s, s \o t)
  <1>1. s \o t \in Seq(S) /\ Len(s) <= Len(s \o t)
          /\ \A i \in 1..Len(s) : s[i] = (s \o t)[i]
    OBVIOUS
  <1> QED
    BY <1>1, PrefixElements

LEMMA PrefixAppend ==
    ASSUME NEW S, NEW s \in Seq(S), NEW e \in S
    PROVE  IsPrefix(s, Append(s, e))
  <1>1. /\ Append(s, e) \in Seq(S) /\ Len(s) <= Len(Append(s, e))
        /\ \A i \in 1..Len(s) : s[i] = Append(s, e)[i]
    OBVIOUS
  <1> QED
    BY <1>1, PrefixElements

-----------------------------------------------------------------------------
(* Rows and the numbers of the frames in them. *)
LEMMA RowsAgree ==
    ASSUME NEW S, NEW s \in Seq(S), NEW t \in Seq(S), NEW k \in Nat,
           k <= Len(s), k <= Len(t), \A i \in 1..k : s[i] = t[i]
    PROVE  Rows(s)[k] = Rows(t)[k]
  <1> DEFINE T == {n \in Nat : n <= k => Rows(s)[n] = Rows(t)[n]}
  <1>1. 0 \in T
    BY RowsDefined
  <1>2. ASSUME NEW n \in Nat, n \in T PROVE n + 1 \in T
    <2>1. SUFFICES ASSUME n + 1 <= k PROVE Rows(s)[n + 1] = Rows(t)[n + 1]
      OBVIOUS
    <2>2. n + 1 \in 1..Len(s) /\ n + 1 \in 1..Len(t) /\ s[n + 1] = t[n + 1]
          /\ (n + 1) - 1 = n
      BY <2>1
    <2>3. Rows(s)[n] = Rows(t)[n]
      BY <1>2, <2>1
    <2> QED
      BY <2>2, <2>3, RowsDefined
  <1> HIDE DEF T
  <1>3. Nat \subseteq T
    BY <1>1, <1>2, Induction
  <1> QED
    BY <1>3 DEF T

(* The rows only grow.                                                     *)
LEMMA RowsGrow ==
    ASSUME NEW S, NEW s \in Seq(S), NEW k \in Nat, k <= Len(s)
    PROVE  IsPrefix(Rows(s)[k], Rows(s)[Len(s)])
  <1> DEFINE T == {n \in Nat : k <= n /\ n <= Len(s) => IsPrefix(Rows(s)[k], Rows(s)[n])}
  <1>1. 0 \in T
    <2>1. Rows(s)[0] = <<>>
      BY RowsDefined
    <2>2. IsPrefix(<<>>, <<>>)
      BY DEF IsPrefix
    <2> QED
      BY <2>1, <2>2
  <1>2. ASSUME NEW n \in Nat, n \in T PROVE n + 1 \in T
    <2>1. SUFFICES ASSUME k <= n + 1, n + 1 <= Len(s)
                   PROVE  IsPrefix(Rows(s)[k], Rows(s)[n + 1])
      OBVIOUS
    <2> DEFINE a == Rows(s)[k]
               b == Rows(s)[n]
               c == Rows(s)[n + 1]
    <2>8. k \in 0..Len(s) /\ n \in 0..Len(s) /\ n + 1 \in 1..Len(s) /\ (n + 1) - 1 = n
      BY <2>1
    <2>2. a \in Seq(S) /\ b \in Seq(S) /\ c \in Seq(S)
      BY <2>8, RowsDefined
    <2>3. c = b \/ c = Append(b, s[n + 1])
      BY <2>8, RowsDefined
    <2>4. k = n + 1 \/ IsPrefix(a, b)
      BY <1>2, <2>1
    <2>5. s[n + 1] \in S
      BY <2>1
    <2>6. CASE k = n + 1
      BY <2>2, <2>6 DEF IsPrefix
    <2>7. CASE IsPrefix(a, b)
      <3>1. IsPrefix(b, c)
        <4> HIDE DEF a, b, c
        <4> QED
          BY <2>2, <2>3, <2>5, PrefixAppend, PrefixReflexive
      <3>2. IsPrefix(a, c)
        <4> HIDE DEF a, b, c
        <4> QED
          BY <2>2, <2>7, <3>1, PrefixTransitive
      <3> QED
        BY <3>2
    <2> QED
      BY <2>4, <2>6, <2>7
  <1> HIDE DEF T
  <1>3. Nat \subseteq T
    BY <1>1, <1>2, Induction
  <1> QED
    BY <1>3 DEF T

Numbers(records) ==
    LET rows == Rows(records)[Len(records)] IN [i \in DOMAIN rows |-> rows[i].n]

(* Every record has a number.                                              *)
LEMMA EntryNumber == \A e \in Entry : e.n \in 0..MaxSequence \cup {0, 1}
  BY DEF Entry

LEMMA NumbersType ==
    ASSUME NEW s \in Seq(Entry)
    PROVE  Numbers(s) \in Seq(Nat) /\ Len(Numbers(s)) = Len(Rows(s)[Len(s)])
  <1> DEFINE r == Rows(s)[Len(s)]
  <1>1. r \in Seq(Entry)
    BY RowsDefined
  <1>2. \A i \in DOMAIN r : r[i].n \in Nat
    BY <1>1, EntryNumber, RecordingAssumption
  <1> HIDE DEF r
  <1>3. [i \in DOMAIN r |-> r[i].n] \in Seq(Nat)
          /\ Len([i \in DOMAIN r |-> r[i].n]) = Len(r)
    BY <1>1, <1>2
  <1> QED
    BY <1>3 DEF Numbers, r

LEMMA NumbersEmpty == Numbers(<<>>) = <<>>
  <1>1. <<>> \in Seq(Entry) /\ Len(<<>>) = 0
    OBVIOUS
  <1>2. Rows(<<>>)[Len(<<>>)] = <<>>
    BY <1>1, RowsDefined
  <1> QED
    BY <1>2 DEF Numbers

LEMMA RowsAppend ==
    ASSUME NEW S, NEW s \in Seq(S), NEW e \in S
    PROVE  Rows(Append(s, e))[Len(Append(s, e))] =
              IF e.type = "rx" THEN Append(Rows(s)[Len(s)], e) ELSE Rows(s)[Len(s)]
  <1> DEFINE t == Append(s, e)
  <1>1. t \in Seq(S) /\ Len(t) = Len(s) + 1 /\ Len(t) \in 1..Len(t) /\ t[Len(t)] = e
        /\ Len(t) - 1 = Len(s)
    OBVIOUS
  <1>2. Rows(t)[Len(s)] = Rows(s)[Len(s)]
    <2>1. \A i \in 1..Len(s) : s[i] = t[i]
      OBVIOUS
    <2>2. Len(s) \in Nat /\ Len(s) <= Len(s) /\ Len(s) <= Len(t)
      BY <1>1
    <2> HIDE DEF t
    <2> QED
      BY <1>1, <2>1, <2>2, RowsAgree
  <1> HIDE DEF t
  <1>3. Rows(t)[Len(t)] = IF t[Len(t)].type = "rx" THEN Append(Rows(t)[Len(t) - 1], t[Len(t)])
                          ELSE Rows(t)[Len(t) - 1]
    BY <1>1, RowsDefined
  <1>4. Rows(t)[Len(t)] = IF e.type = "rx" THEN Append(Rows(s)[Len(s)], e)
                          ELSE Rows(s)[Len(s)]
    BY <1>1, <1>2, <1>3
  <1> QED
    BY <1>4 DEF t

(* A record that is written adds the number of a frame, or nothing.        *)
LEMMA NumbersAppend ==
    ASSUME NEW s \in Seq(Entry), NEW e \in Entry
    PROVE  Numbers(Append(s, e)) =
              IF e.type = "rx" THEN Append(Numbers(s), e.n) ELSE Numbers(s)
  <1> DEFINE t == Append(s, e)
             a == Rows(s)[Len(s)]
             b == Rows(t)[Len(t)]
  <1>1. a \in Seq(Entry) /\ b = IF e.type = "rx" THEN Append(a, e) ELSE a
    BY RowsDefined, RowsAppend
  <1>2. e.n \in Nat /\ \A i \in DOMAIN a : a[i].n \in Nat
    BY <1>1, EntryNumber, RecordingAssumption
  <1>3. Numbers(s) = [i \in DOMAIN a |-> a[i].n]
          /\ Numbers(t) = [i \in DOMAIN b |-> b[i].n]
    BY DEF Numbers
  <1> HIDE DEF a, b, t
  <1>4. CASE e.type = "rx"
    <2>1. b = Append(a, e)
      BY <1>1, <1>4
    <2> DEFINE x == [i \in DOMAIN a |-> a[i].n]
               y == [i \in DOMAIN b |-> b[i].n]
    <2>2. x \in Seq(Nat) /\ Len(x) = Len(a)
      BY <1>1, <1>2
    <2>3. y = Append(x, e.n)
      BY <1>1, <1>2, <2>1, <2>2
    <2> QED
      BY <1>3, <1>4, <2>3 DEF t
  <1>5. CASE e.type /= "rx"
    BY <1>1, <1>3, <1>5 DEF t
  <1> QED
    BY <1>4, <1>5

(* The frames of the first records are the first frames.                   *)
LEMMA NumbersPrefix ==
    ASSUME NEW s \in Seq(Entry), NEW n \in 0..Len(s)
    PROVE  IsPrefix(Numbers(SubSeq(s, 1, n)), Numbers(s))
  <1> DEFINE t == SubSeq(s, 1, n)
             a == Rows(t)[Len(t)]
             b == Rows(s)[Len(s)]
  <1>1. t \in Seq(Entry) /\ Len(t) = n /\ n \in Nat /\ \A i \in 1..n : s[i] = t[i]
    OBVIOUS
  <1>2. a = Rows(s)[n]
    <2> HIDE DEF t
    <2> QED
      BY <1>1, RowsAgree
  <1>3. a \in Seq(Entry) /\ b \in Seq(Entry) /\ IsPrefix(a, b)
    BY <1>2, RowsDefined, RowsGrow
  <1>4. Numbers(t) = [i \in DOMAIN a |-> a[i].n]
          /\ Numbers(s) = [i \in DOMAIN b |-> b[i].n]
    BY DEF Numbers
  <1>5. Len(a) <= Len(b) /\ \A i \in 1..Len(a) : a[i] = b[i]
    <2> HIDE DEF a, b
    <2> QED
      BY <1>3 DEF IsPrefix
  <1>6. /\ Numbers(t) \in Seq(Nat) /\ Len(Numbers(t)) = Len(a)
        /\ Numbers(s) \in Seq(Nat) /\ Len(Numbers(s)) = Len(b)
    BY <1>1, NumbersType
  <1> DEFINE x == Numbers(t)
             y == Numbers(s)
  <1>7. Len(x) <= Len(y) /\ \A i \in 1..Len(x) : x[i] = y[i]
    <2>1. /\ DOMAIN a = 1..Len(a) /\ DOMAIN b = 1..Len(b)
          /\ Len(a) \in Nat /\ Len(b) \in Nat
      BY <1>3
    <2>2. Len(x) = Len(a) /\ Len(y) = Len(b)
      BY <1>6
    <2> HIDE DEF a, b
    <2>3. ASSUME NEW i \in 1..Len(x) PROVE x[i] = y[i]
      <3>1. i \in 1..Len(a) /\ i \in 1..Len(b)
        BY <1>5, <2>1, <2>2, <2>3
      <3>2. x[i] = a[i].n /\ y[i] = b[i].n
        BY <1>4, <2>1, <3>1
      <3> QED
        BY <1>5, <3>1, <3>2
    <2> QED
      BY <1>5, <2>2, <2>3
  <1> HIDE DEF x, y, t
  <1>8. x \in Seq(Nat) /\ y \in Seq(Nat)
    BY <1>6 DEF x, y
  <1>9. IsPrefix(x, y)
    BY <1>7, <1>8 DEF IsPrefix
  <1> QED
    BY <1>9 DEF x, y, t

-----------------------------------------------------------------------------
(* What is written, in the file or not. *)
Text == lines \o buffer

(* The worker has given up, or is about to. *)
Failed == worker = "raise" \/ errors

Ordered ==
    /\ last <= sequence
    /\ \A i \in DOMAIN events : last < events[i] /\ events[i] <= sequence
    /\ \A i, j \in DOMAIN events : i < j => events[i] < events[j]

Places ==
    /\ item /= <<>> <=> worker = "write"
    /\ errors => worker \in {"close", "join", "end"}
    /\ worker \in {"close", "join"} => errors
    /\ errors \/ worker = "end" => stop

(* No frame is between the queue and the file but in the hands of the      *)
(* worker, until it fails.                                                 *)
Whole ==
    /\ IsPrefix(Numbers(Text), arrived)
    /\ ~Failed => /\ (Numbers(Text) \o Numbers(item)) \o events = arrived
                  /\ IsPrefix(drained, Numbers(Text) \o Numbers(item))

Announced ==
    /\ last > 0 => arrived /= <<>>
    /\ \A i \in DOMAIN Text :
         Text[i].type = "rx" =>
           arrived /= <<>> /\ (Text[i].n = arrived[1] \/ Follows(Text, i, Text[i].n))

(* Frame n is the last written. *)
LastIs(records, n) ==
    \E p \in DOMAIN records :
      /\ records[p] = Rx(n)
      /\ \A k \in (p + 1)..Len(records) : records[k].type = "disconnect"

Expected ==
    \/ last = 0 /\ item = <<>> /\ events = arrived
    \/ last > 0 /\ item = <<>> /\ LastIs(Text, last)
    \/ /\ last > 0 /\ item = <<Rx(last)>>
       /\ last = arrived[1] \/ Follows(Text, Len(Text) + 1, last)
    \/ /\ last > 0
       /\ \E m \in 1..(last - 2) :
            item = <<Gap(m), Rx(last)>> /\ LastIs(Text, last - m - 1)

Ends ==
    /\ main /= "exit" => file_open
    /\ \A i \in DOMAIN Text : Text[i].type = "disconnect" => main \in {"close", "exit"}
    /\ discarded => pc_queue_discards = 1
    /\ ~raised /\ main \in {"check", "ask_again", "asked_again", "disconnect",
                            "close", "exit"} => worker = "end"
    /\ ~raised /\ main \in {"ask_again", "asked_again", "disconnect", "close",
                            "exit"} => ~errors

Ended ==
    ~raised /\ main \in {"close", "exit"} =>
      /\ Text /= <<>> /\ buffer = <<>>
      /\ Text[Len(Text)].type = "disconnect"
      /\ discarded => Text[Len(Text)].n = 1
      /\ \A i \in 1..(Len(Text) - 1) : Text[i].type /= "disconnect"
      /\ main = "exit" => ~file_open

Failures ==
    /\ Len(buffer) <= failures
    /\ failures <= (IF Failed THEN 1 ELSE 0) + (IF main = "exit" /\ raised THEN 1 ELSE 0)

IInv == /\ TypeOK /\ Ordered /\ Places /\ Whole /\ Announced /\ (~Failed => Expected)
        /\ Ends /\ Ended /\ Failures

(* A part of the buffer goes to the file. *)
Parts(S, s, b, n) ==
    /\ s \o SubSeq(b, 1, n) \in Seq(S)
    /\ SubSeq(b, n + 1, Len(b)) \in Seq(S)
    /\ Len(SubSeq(b, n + 1, Len(b))) = Len(b) - n
    /\ (s \o SubSeq(b, 1, n)) \o SubSeq(b, n + 1, Len(b)) = s \o b

(* One sequence after another.                                             *)
LEMMA Concat ==
    ASSUME NEW S, NEW s \in Seq(S), NEW t \in Seq(S)
    PROVE  /\ s \o t \in Seq(S) /\ Len(s \o t) = Len(s) + Len(t)
           /\ \A i \in 1..(Len(s) + Len(t)) :
                (s \o t)[i] = IF i <= Len(s) THEN s[i] ELSE t[i - Len(s)]
  OBVIOUS

LEMMA Moved ==
    ASSUME NEW S, NEW s \in Seq(S), NEW b \in Seq(S), NEW n \in 0..Len(b)
    PROVE  Parts(S, s, b, n)
  <1> DEFINE front == SubSeq(b, 1, n)
             rest == SubSeq(b, n + 1, Len(b))
             x == s \o front
  <1>1. /\ front \in Seq(S) /\ Len(front) = n
        /\ \A i \in 1..n : front[i] = b[i]
    OBVIOUS
  <1>2. /\ rest \in Seq(S) /\ Len(rest) = Len(b) - n
        /\ \A i \in 1..(Len(b) - n) : rest[i] = b[n + i]
    OBVIOUS
  <1> HIDE DEF front, rest
  <1>3. /\ x \in Seq(S) /\ Len(x) = Len(s) + n
        /\ \A i \in 1..(Len(s) + n) : x[i] = IF i <= Len(s) THEN s[i] ELSE b[i - Len(s)]
    <2>1. /\ x \in Seq(S) /\ Len(x) = Len(s) + Len(front)
          /\ \A i \in 1..(Len(s) + Len(front)) :
               x[i] = IF i <= Len(s) THEN s[i] ELSE front[i - Len(s)]
      BY <1>1, Concat
    <2>2. \A i \in 1..(Len(s) + n) : ~(i <= Len(s)) => i - Len(s) \in 1..n
      OBVIOUS
    <2> HIDE DEF x
    <2> QED
      BY <1>1, <2>1, <2>2
  <1> HIDE DEF x
  <1>4. /\ x \o rest \in Seq(S) /\ s \o b \in Seq(S)
        /\ Len(x \o rest) = Len(s) + Len(b) /\ Len(s \o b) = Len(s) + Len(b)
    <2>1. x \in Seq(S) /\ rest \in Seq(S)
      BY <1>2, <1>3
    <2>2. /\ x \o rest \in Seq(S) /\ s \o b \in Seq(S)
          /\ Len(x \o rest) = Len(x) + Len(rest) /\ Len(s \o b) = Len(s) + Len(b)
          /\ n \in Nat /\ Len(s) \in Nat /\ Len(b) \in Nat
      BY <2>1
    <2>3. Len(x) = Len(s) + n /\ Len(rest) = Len(b) - n
      BY <1>2, <1>3
    <2> QED
      BY <2>2, <2>3
  <1> DEFINE u == x \o rest
             v == s \o b
  <1>5. ASSUME NEW i \in 1..(Len(s) + Len(b)) PROVE u[i] = v[i]
    <2>1. v[i] = IF i <= Len(s) THEN s[i] ELSE b[i - Len(s)]
      BY <1>5
    <2>2. u[i] = IF i <= Len(s) + n THEN x[i] ELSE rest[i - (Len(s) + n)]
      BY <1>2, <1>3, <1>5
    <2>3. CASE i <= Len(s) + n
      BY <1>3, <2>1, <2>2, <2>3
    <2>4. CASE i > Len(s) + n
      <3>1. /\ i - (Len(s) + n) \in 1..(Len(b) - n)
            /\ n + (i - (Len(s) + n)) = i - Len(s)
            /\ ~(i <= Len(s)) /\ ~(i <= Len(s) + n)
        BY <2>4
      <3>2. rest[i - (Len(s) + n)] = b[n + (i - (Len(s) + n))]
        BY <1>2, <3>1
      <3> QED
        BY <2>1, <2>2, <3>1, <3>2
    <2>5. i \in Int /\ n \in Int /\ Len(s) \in Int
      OBVIOUS
    <2> HIDE DEF u, v
    <2> QED
      BY <2>3, <2>4, <2>5
  <1>6. x \o rest = s \o b
    <2>1. u \in Seq(S) /\ v \in Seq(S) /\ Len(u) = Len(v)
            /\ \A i \in 1..Len(u) : u[i] = v[i]
      BY <1>4, <1>5
    <2> HIDE DEF u, v
    <2>2. u = v
      BY <2>1, SeqEqual
    <2> QED
      BY <2>2 DEF u, v
  <1> QED
    BY <1>2, <1>3, <1>6 DEF front, rest, x, Parts

(* What the three ways to touch the file make of the text.                 *)
LEMMA TextWritten ==
    ASSUME TypeOK, NEW entry \in Entry, Written(entry)
    PROVE  /\ lines' \in Seq(Entry) /\ buffer' = <<>> /\ Text \in Seq(Entry)
           /\ Text' = Append(Text, entry)
           /\ UNCHANGED <<file_open, failures>>
  <1>1. lines \in Seq(Entry) /\ buffer \in Seq(Entry) /\ Text = lines \o buffer
    BY DEF TypeOK, Text
  <1>2. lines' = Text \o <<entry>> /\ buffer' = <<>>
        /\ UNCHANGED <<file_open, failures>>
    BY DEF Written, Text
  <1>3. Text \in Seq(Entry)
    BY <1>1
  <1>4. Text' = lines' \o buffer'
    BY DEF Text
  <1> HIDE DEF Text
  <1>5. lines' \in Seq(Entry) /\ lines' = Append(Text, entry)
    BY <1>2, <1>3
  <1>6. lines' \o buffer' = lines'
    BY <1>2, <1>5
  <1> QED
    BY <1>2, <1>3, <1>4, <1>5, <1>6

LEMMA TextFails ==
    ASSUME TypeOK, NEW entry \in Entry, WriteFails(entry)
    PROVE  /\ lines' \in Seq(Entry) /\ buffer' \in Seq(Entry) /\ Text \in Seq(Entry)
           /\ Len(buffer') <= Len(buffer) + 1
           /\ Text' = Append(Text, entry)
           /\ file_open' = file_open /\ failures' = failures + 1
  <1> DEFINE all == Append(buffer, entry)
  <1>1. lines \in Seq(Entry) /\ buffer \in Seq(Entry) /\ Text = lines \o buffer
    BY DEF TypeOK, Text
  <1>2. all \in Seq(Entry) /\ Len(all) = Len(buffer) + 1 /\ all = buffer \o <<entry>>
    BY <1>1
  <1>3. PICK n \in 0..Len(buffer) :
          /\ lines' = lines \o SubSeq(all, 1, n)
          /\ buffer' = SubSeq(all, n + 1, Len(all))
    BY DEF WriteFails
  <1>4. n \in 0..Len(all)
    BY <1>1, <1>2
  <1> HIDE DEF all
  <1>5. /\ lines' \in Seq(Entry) /\ buffer' \in Seq(Entry)
        /\ Len(buffer') = Len(all) - n /\ lines' \o buffer' = lines \o all
    <2>1. Parts(Entry, lines, all, n)
      BY <1>1, <1>2, <1>4, Moved
    <2> QED
      BY <1>3, <2>1 DEF Parts
  <1>6. lines \o all = Append(lines \o buffer, entry) /\ Text \in Seq(Entry)
    BY <1>1 DEF all
  <1>7. Len(buffer') <= Len(buffer) + 1
    BY <1>1, <1>2, <1>5
  <1>8. Text' = lines' \o buffer'
    BY DEF Text
  <1> QED
    BY <1>1, <1>5, <1>6, <1>7, <1>8 DEF WriteFails

LEMMA TextCloses ==
    ASSUME TypeOK, FileCloses
    PROVE  /\ lines' \in Seq(Entry) /\ buffer' \in Seq(Entry) /\ Text \in Seq(Entry)
           /\ Len(buffer') <= Len(buffer)
           /\ Text' = Text
           /\ file_open' = FALSE /\ failures' = failures
  <1>1. lines \in Seq(Entry) /\ buffer \in Seq(Entry) /\ Text = lines \o buffer
    BY DEF TypeOK, Text
  <1>3. PICK n \in 0..Len(buffer) :
          /\ lines' = lines \o SubSeq(buffer, 1, n)
          /\ buffer' = SubSeq(buffer, n + 1, Len(buffer))
    BY DEF FileCloses
  <1>4. /\ lines' \in Seq(Entry) /\ buffer' \in Seq(Entry)
        /\ Len(buffer') = Len(buffer) - n /\ lines' \o buffer' = lines \o buffer
    <2>1. Parts(Entry, lines, buffer, n)
      BY <1>1, <1>3, Moved
    <2> QED
      BY <1>3, <2>1 DEF Parts
  <1>5. Text' = lines' \o buffer' /\ Text \in Seq(Entry) /\ Len(buffer') <= Len(buffer)
    BY <1>1, <1>4 DEF Text
  <1> QED
    BY <1>1, <1>4, <1>5 DEF FileCloses

-----------------------------------------------------------------------------
(* The types, with the bounds that Failures gives. *)
QueueTypes ==
    /\ sequence \in 0..MaxSequence /\ last \in 0..MaxSequence
    /\ events \in Seq(1..MaxSequence) /\ Len(events) <= EventCapacity
    /\ arrived \in Seq(1..MaxSequence) /\ drained \in Seq(1..MaxSequence)
    /\ MaxSequence \in Nat /\ EventCapacity \in Nat \ {0}

FlagTypes ==
    /\ reader \in BOOLEAN /\ closed \in BOOLEAN /\ failure \in BOOLEAN
    /\ pc_queue_discards \in {0, 1} /\ discarded \in BOOLEAN
    /\ worker \in {"top", "get", "empty", "write", "raise", "close", "join", "end"}
    /\ errors \in BOOLEAN /\ stop \in BOOLEAN /\ raised \in BOOLEAN
    /\ main \in {"loop", "ask", "asked", "drain", "stop", "join", "check",
                 "ask_again", "asked_again", "disconnect", "close", "exit"}
    /\ file_open \in BOOLEAN /\ failures \in 0..2

ItemTypes == item \in Seq(Entry) /\ Len(item) <= 2

FileTypes == lines \in Seq(Entry) /\ buffer \in Seq(Entry) /\ Len(buffer) <= 2

LEMMA TypeParts == TypeOK <=> QueueTypes /\ FlagTypes /\ ItemTypes /\ FileTypes
  <1>1. TypeOK => QueueTypes /\ FlagTypes
    BY RecordingAssumption, Zenon DEF TypeOK, QueueTypes, FlagTypes
  <1>2. TypeOK => ItemTypes /\ FileTypes
    BY Zenon DEF TypeOK, ItemTypes, FileTypes
  <1>3. QueueTypes /\ FlagTypes /\ ItemTypes /\ FileTypes => TypeOK
    BY Zenon DEF TypeOK, QueueTypes, FlagTypes, ItemTypes, FileTypes
  <1> QED
    BY <1>1, <1>2, <1>3

(* The records that are written.                                           *)
LEMMA EntryTypes ==
    /\ \A n \in 0..MaxSequence : /\ Rx(n) \in Entry /\ Rx(n).type = "rx" /\ Rx(n).n = n
                                /\ Gap(n) \in Entry /\ Gap(n).type = "gap" /\ Gap(n).n = n
    /\ FlagTypes => /\ Ending \in Entry /\ Ending.type = "disconnect"
                    /\ Ending.n = pc_queue_discards
    /\ Metadata \in Entry /\ Metadata.type = "metadata"
  <1>1. ASSUME NEW n \in 0..MaxSequence
        PROVE  /\ Rx(n) \in Entry /\ Rx(n).type = "rx" /\ Rx(n).n = n
               /\ Gap(n) \in Entry /\ Gap(n).type = "gap" /\ Gap(n).n = n
    BY DEF Rx, Gap, Entry
  <1>2. ASSUME FlagTypes
        PROVE  /\ Ending \in Entry /\ Ending.type = "disconnect"
               /\ Ending.n = pc_queue_discards
    <2>1. failure \in BOOLEAN /\ pc_queue_discards \in {0, 1}
      BY <1>2, Zenon DEF FlagTypes
    <2>2. Ending \in [type : {"disconnect"}, reason : BOOLEAN, n : {0, 1}]
      BY <2>1 DEF Ending
    <2> QED
      BY <2>2 DEF Ending, Entry
  <1>3. Metadata \in Entry /\ Metadata.type = "metadata"
    BY RecordingAssumption DEF Metadata, Entry
  <1> QED
    BY <1>1, <1>2, <1>3

(* The first of a sequence and the others.                                 *)
LEMMA HeadTail ==
    ASSUME NEW S, NEW s \in Seq(S), s /= <<>>
    PROVE  /\ Head(s) \in S /\ Head(s) = s[1] /\ Tail(s) \in Seq(S)
           /\ Len(s) \in Nat \ {0} /\ Len(Tail(s)) = Len(s) - 1
           /\ \A i \in 1..(Len(s) - 1) : Tail(s)[i] = s[i + 1]
           /\ (Tail(s) = <<>> <=> Len(s) = 1)
           /\ DOMAIN s = 1..Len(s) /\ DOMAIN Tail(s) = 1..(Len(s) - 1)
  <1>1. /\ Head(s) \in S /\ Head(s) = s[1] /\ Tail(s) \in Seq(S)
        /\ Len(s) \in Nat \ {0} /\ Len(Tail(s)) = Len(s) - 1
    OBVIOUS
  <1>2. \A i \in 1..(Len(s) - 1) : Tail(s)[i] = s[i + 1]
    OBVIOUS
  <1>3. DOMAIN s = 1..Len(s) /\ DOMAIN Tail(s) = 1..(Len(s) - 1)
    BY <1>1
  <1>4. Tail(s) = <<>> <=> Len(s) = 1
    <2> DEFINE t == Tail(s)
    <2>1. t \in Seq(S) /\ Len(s) \in Nat \ {0} /\ Len(t) = Len(s) - 1
      BY <1>1
    <2> HIDE DEF t
    <2>2. t = <<>> <=> Len(t) = 0
      BY <2>1
    <2>3. t = <<>> <=> Len(s) = 1
      BY <2>1, <2>2
    <2> QED
      BY <2>3 DEF t
  <1> QED
    BY <1>1, <1>2, <1>3, <1>4

(* What the worker has in its hands, and what it takes from the queue.     *)
LEMMA HeadTypes ==
    ASSUME ItemTypes, item /= <<>>
    PROVE  /\ Head(item) \in Entry /\ Tail(item) \in Seq(Entry)
           /\ Len(item) \in {1, 2} /\ Len(Tail(item)) = Len(item) - 1
           /\ (Tail(item) = <<>> <=> Len(item) = 1)
  <1>1. item \in Seq(Entry) /\ Len(item) <= 2
    BY DEF ItemTypes
  <1>2. /\ Head(item) \in Entry /\ Tail(item) \in Seq(Entry)
        /\ Len(item) \in Nat \ {0} /\ Len(Tail(item)) = Len(item) - 1
        /\ (Tail(item) = <<>> <=> Len(item) = 1)
    BY <1>1, HeadTail
  <1> QED
    BY <1>1, <1>2

LEMMA GetTypes ==
    ASSUME QueueTypes, Ordered, events /= <<>>
    PROVE  LET n == Head(events)
           IN  /\ n \in 1..MaxSequence /\ n = events[1] /\ last < n
               /\ Tail(events) \in Seq(1..MaxSequence)
               /\ Len(Tail(events)) = Len(events) - 1
               /\ \A i \in 1..(Len(events) - 1) : Tail(events)[i] = events[i + 1]
               /\ Entries(n) \in Seq(Entry) /\ Len(Entries(n)) \in {1, 2}
  <1> DEFINE n == Head(events)
  <1>1. /\ n \in 1..MaxSequence /\ n = events[1]
        /\ Tail(events) \in Seq(1..MaxSequence) /\ Len(Tail(events)) = Len(events) - 1
        /\ \A i \in 1..(Len(events) - 1) : Tail(events)[i] = events[i + 1]
        /\ 1 \in DOMAIN events
    <2>1. events \in Seq(1..MaxSequence)
      BY DEF QueueTypes
    <2>2. /\ Head(events) \in 1..MaxSequence /\ Head(events) = events[1]
          /\ Tail(events) \in Seq(1..MaxSequence)
          /\ Len(events) \in Nat \ {0} /\ Len(Tail(events)) = Len(events) - 1
          /\ \A i \in 1..(Len(events) - 1) : Tail(events)[i] = events[i + 1]
          /\ DOMAIN events = 1..Len(events)
      BY <2>1, HeadTail
    <2> QED
      BY <2>2
  <1> HIDE DEF n
  <1>2. last < n
    BY <1>1 DEF Ordered
  <1>3. n \in 0..MaxSequence /\ n - last - 1 \in 0..MaxSequence
    <2>1. n \in 1..MaxSequence /\ last \in 0..MaxSequence /\ MaxSequence \in Nat
      BY <1>1 DEF QueueTypes
    <2> QED
      BY <1>2, <2>1
  <1>4. Rx(n) \in Entry /\ Gap(n - last - 1) \in Entry
    BY <1>3, EntryTypes
  <1>5. Entries(n) = <<Rx(n)>> \/ Entries(n) = <<Gap(n - last - 1), Rx(n)>>
    BY DEF Entries
  <1>6. Entries(n) \in Seq(Entry) /\ Len(Entries(n)) \in {1, 2}
    <2>1. \A a, b \in Entry : /\ <<a>> \in Seq(Entry) /\ Len(<<a>>) = 1
                             /\ <<a, b>> \in Seq(Entry) /\ Len(<<a, b>>) = 2
      OBVIOUS
    <2> QED
      BY <1>4, <1>5, <2>1
  <1> QED
    BY <1>1, <1>2, <1>6 DEF n

(* The queue stays in order.                                               *)
LEMMA OrderedStep ==
    ASSUME TypeOK, Ordered, [Next]_vars PROVE Ordered'
  <1>1. CASE Arrive
    <2>1. sequence' \in Nat /\ sequence < sequence' /\ last' = last
      BY <1>1, TypeParts DEF Arrive, QueueTypes, ingestion
    <2>2. CASE events' = events
      BY <2>1, <2>2, TypeParts DEF Ordered, QueueTypes
    <2>3. CASE events' = Append(events, sequence')
      <3>1. /\ DOMAIN events' = 1..(Len(events) + 1) /\ Len(events) \in Nat
            /\ \A i \in 1..Len(events) : events'[i] = events[i]
            /\ events'[Len(events) + 1] = sequence'
        BY <2>3, TypeParts DEF QueueTypes
      <3>2. ASSUME NEW i \in 1..Len(events)
            PROVE  events[i] \in Nat /\ last < events[i] /\ events[i] <= sequence
        BY <3>2, TypeParts DEF Ordered, QueueTypes
      <3>3. last \in Nat /\ sequence \in Nat /\ last <= sequence
        BY TypeParts DEF Ordered, QueueTypes
      <3>4. \A i, j \in 1..Len(events) : i < j => events[i] < events[j]
        BY TypeParts DEF Ordered, QueueTypes
      <3>5. last' <= sequence'
        BY <2>1, <3>3
      <3>6. \A i \in DOMAIN events' : last' < events'[i] /\ events'[i] <= sequence'
        BY <2>1, <3>1, <3>2, <3>3
      <3>7. \A i, j \in DOMAIN events' : i < j => events'[i] < events'[j]
        BY <2>1, <3>1, <3>2, <3>3, <3>4
      <3> QED
        BY <3>5, <3>6, <3>7 DEF Ordered
    <2> QED
      BY <1>1, <2>2, <2>3 DEF Arrive
  <1>2. CASE WorkerGets
    <2>1. events /= <<>> /\ events' = Tail(events) /\ last' = Head(events)
            /\ sequence' = sequence
      BY <1>2 DEF WorkerGets
    <2>2. /\ last' = events[1] /\ Len(events) \in Nat \ {0}
               /\ DOMAIN events' = 1..(Len(events) - 1)
          /\ \A i \in DOMAIN events' : events'[i] = events[i + 1]
      BY <2>1, GetTypes, TypeParts DEF QueueTypes
    <2>3. \A i \in 1..Len(events) : events[i] \in Nat /\ events[i] <= sequence
      BY TypeParts DEF Ordered, QueueTypes
    <2>4. \A i, j \in 1..Len(events) : i < j => events[i] < events[j]
      BY TypeParts DEF Ordered, QueueTypes
    <2> QED
      BY <2>1, <2>2, <2>3, <2>4 DEF Ordered
  <1>3. ASSUME UNCHANGED <<last, sequence, events>> PROVE Ordered'
    BY <1>3 DEF Ordered
  <1>4. CASE Lost \/ ReaderEnds \/ End \/ Finalize \/ UNCHANGED vars
    <2>1. UNCHANGED <<last, sequence, events>>
      BY <1>4, Zenon DEF Lost, ReaderEnds, End, Finalize, vars, client, ingestion,
         Leave, Ask,
            AskAgain, Asks, Drain, StopWorker, Join, Check, Disconnect, Close
    <2> QED
      BY <1>3, <2>1
  <1>5. CASE WorkerTop \/ WorkerWaits \/ WorkerGoesOn \/ WorkerWrites \/ WorkerFails
             \/ WorkerRaises \/ WorkerCloses \/ WorkerEnds
    <2>1. UNCHANGED <<last, sequence, events>>
      BY <1>5, Zenon DEF WorkerTop, WorkerWaits, WorkerGoesOn, WorkerWrites,
         WorkerFails,
            WorkerRaises, WorkerCloses, WorkerEnds, client
    <2> QED
      BY <1>3, <2>1
  <1> QED
    BY <1>1, <1>2, <1>4, <1>5 DEF Next, Process

(* The worker is where its flags say.                                      *)
LEMMA PlacesStep ==
    ASSUME TypeOK, Ordered, Places, [Next]_vars PROVE Places'
  <1>0. ASSUME UNCHANGED <<worker, item, errors, stop>> PROVE Places'
    BY <1>0, Zenon DEF Places
  <1>1. CASE Arrive \/ Lost \/ ReaderEnds \/ Finalize \/ UNCHANGED vars
    <2>1. UNCHANGED <<worker, item, errors, stop>>
      BY <1>1, Zenon DEF Arrive, Lost, ReaderEnds, Finalize, vars, ingestion, control,
         client
    <2> QED
      BY <1>0, <2>1
  <1>2. CASE End
    <2>1. UNCHANGED <<worker, item, errors>> /\ (stop' = stop \/ stop' = TRUE)
      BY <1>2, Zenon DEF End, ingestion, Leave, Ask, AskAgain, Asks, Drain, StopWorker,
         Join,
            Check, Disconnect, Close
    <2> QED
      BY <2>1, Zenon DEF Places
  <1>3. CASE WorkerGets
    <2>1. item' /= <<>> /\ worker' = "write" /\ UNCHANGED <<errors, stop>>
            /\ worker = "get"
      <3>1. events /= <<>> /\ item' = Entries(Head(events)) /\ worker' = "write"
            /\ UNCHANGED <<errors, stop>> /\ worker = "get"
        BY <1>3, Zenon DEF WorkerGets, Worker, control
      <3>2. item' \in Seq(Entry) /\ Len(item') \in {1, 2}
        BY <3>1, GetTypes, TypeParts
      <3>3. item' /= <<>>
        BY <3>2
      <3> QED
        BY <3>1, <3>3
    <2> QED
      BY <2>1 DEF Places
  <1>4. CASE WorkerWrites
    <2>1. /\ item /= <<>> /\ item' = Tail(item) /\ worker = "write"
          /\ worker' = IF Len(item) = 1 THEN "top" ELSE "write"
          /\ UNCHANGED <<errors, stop>>
      BY <1>4, Zenon DEF WorkerWrites, Worker, Places, control
    <2>2. item' = <<>> <=> Len(item) = 1
      BY <2>1, HeadTypes, TypeParts
    <2> QED
      BY <2>1, <2>2 DEF Places
  <1>5. CASE WorkerFails
    <2>1. item' = <<>> /\ worker = "write" /\ worker' = "raise"
            /\ UNCHANGED <<errors, stop>>
      BY <1>5, Zenon DEF WorkerFails, OnFailure, Worker, control
    <2> QED
      BY <2>1 DEF Places
  <1>6. CASE WorkerRaises
    <2>1. item' = item /\ worker = "raise" /\ worker' = "close" /\ errors' = TRUE
            /\ stop' = TRUE
      BY <1>6, Zenon DEF WorkerRaises, Worker
    <2> QED
      BY <2>1 DEF Places
  <1>7. CASE WorkerTop
    <2>1. /\ item' = item /\ worker = "top" /\ worker' = (IF stop THEN "end" ELSE "get")
          /\ UNCHANGED <<errors, stop>>
      BY <1>7, Zenon DEF WorkerTop, Worker, control
    <2> QED
      BY <2>1 DEF Places
  <1>8. CASE WorkerWaits \/ WorkerGoesOn \/ WorkerCloses \/ WorkerEnds
    <2>1. /\ item' = item /\ UNCHANGED <<errors, stop>>
          /\ \/ worker = "get" /\ worker' = "empty"
             \/ worker = "empty" /\ worker' \in {"raise", "top"}
             \/ worker = "close" /\ worker' = "join"
             \/ worker = "join" /\ worker' = "end"
      BY <1>8 DEF WorkerWaits, WorkerGoesOn, WorkerCloses, WorkerEnds, Worker, control
    <2> QED
      BY <2>1 DEF Places
  <1> QED
    BY <1>1, <1>2, <1>3, <1>4, <1>5, <1>6, <1>7, <1>8 DEF Next, Process

(* Which steps touch the file, and which the queue. *)
LEMMA FileSteps ==
    ASSUME [Next]_vars
    PROVE  UNCHANGED file \/ WorkerWrites \/ WorkerFails \/ Disconnect \/ Close
             \/ Finalize
  <1>1. CASE Arrive \/ Lost \/ ReaderEnds \/ UNCHANGED vars
    BY <1>1, Zenon DEF Arrive, Lost, ReaderEnds, vars
  <1>2. CASE End
    BY <1>2, Zenon DEF End, Leave, Ask, AskAgain, Asks, Drain, StopWorker, Join, Check
  <1>3. CASE Process
    BY <1>3, Zenon DEF Process, WorkerTop, WorkerGets, WorkerWaits, WorkerGoesOn,
          WorkerRaises, WorkerCloses, WorkerEnds
  <1> QED
    BY <1>1, <1>2, <1>3 DEF Next

LEMMA QueueSteps ==
    ASSUME [Next]_vars
    PROVE  \/ UNCHANGED <<events, arrived, sequence, last>>
                /\ (UNCHANGED item \/ item' = Tail(item) \/ item' = <<>>)
           \/ Arrive \/ WorkerGets
  <1>1. CASE Lost \/ ReaderEnds \/ UNCHANGED vars \/ Finalize
    BY <1>1, Zenon DEF Lost, ReaderEnds, Finalize, vars, client, ingestion
  <1>2. CASE End
    BY <1>2, Zenon DEF End, Leave, Ask, AskAgain, Asks, Drain, StopWorker, Join, Check,
          Disconnect, Close, client, ingestion
  <1>3. CASE Process
    BY <1>3, Zenon DEF Process, WorkerTop, WorkerWaits, WorkerGoesOn, WorkerWrites,
          WorkerFails, WorkerRaises, WorkerCloses, WorkerEnds, client
  <1> QED
    BY <1>1, <1>2, <1>3 DEF Next

(* What is over stays over. *)
LEMMA Lasting ==
    ASSUME TypeOK, Places, [Next]_vars
    PROVE  /\ Failed => Failed'
           /\ main = "exit" => main' = "exit" /\ raised' = raised
           /\ worker = "end" => worker' = "end" /\ errors' = errors
  <1>1. CASE Arrive \/ Lost \/ ReaderEnds \/ Finalize \/ UNCHANGED vars
    <2>1. UNCHANGED <<worker, errors, main, raised>>
      BY <1>1, Zenon DEF Arrive, Lost, ReaderEnds, Finalize, vars, ingestion, control
    <2> QED
      BY <2>1 DEF Failed
  <1>2. CASE End
    <2>1. UNCHANGED <<worker, errors>>
      BY <1>2, Zenon DEF End, ingestion, Leave, Ask, AskAgain, Asks, Drain, StopWorker,
         Join,
            Check, Disconnect, Close
    <2>2. main /= "exit"
      <3>1. \/ main = "loop" \/ main = "ask" \/ main = "asked" \/ main = "drain"
            \/ main = "stop" \/ main = "join" \/ main = "check" \/ main = "ask_again"
            \/ main = "asked_again" \/ main = "disconnect" \/ main = "close"
        BY <1>2, Zenon DEF End, Leave, Ask, AskAgain, Asks, Drain, StopWorker, Join,
              Check, Disconnect, Close, Main
      <3> QED
        BY <3>1
    <2> QED
      BY <2>1, <2>2 DEF Failed
  <1>3. CASE WorkerRaises
    <2>1. worker = "raise" /\ errors' = TRUE /\ UNCHANGED <<main, raised>>
      BY <1>3, Zenon DEF WorkerRaises, Worker
    <2> QED
      BY <2>1 DEF Failed
  <1>4. CASE WorkerTop \/ WorkerGets \/ WorkerWaits \/ WorkerGoesOn \/ WorkerWrites
             \/ WorkerFails \/ WorkerCloses \/ WorkerEnds
    <2>1. UNCHANGED <<errors, main, raised>>
      BY <1>4, Zenon DEF WorkerTop, WorkerGets, WorkerWaits, WorkerGoesOn, WorkerWrites,
            WorkerFails, WorkerCloses, WorkerEnds, control
    <2>2. worker \notin {"raise", "end"}
      BY <1>4 DEF WorkerTop, WorkerGets, WorkerWaits, WorkerGoesOn, WorkerWrites,
            WorkerFails, WorkerCloses, WorkerEnds, Worker
    <2> QED
      BY <2>1, <2>2 DEF Failed
  <1> QED
    BY <1>1, <1>2, <1>3, <1>4 DEF Next, Process

(* No write fails twice but that of the disconnect.                        *)
LEMMA FailuresStep ==
    ASSUME TypeOK, Ordered, Places, Failures, [Next]_vars PROVE Failures'
  <1> DEFINE bound == (IF Failed THEN 1 ELSE 0) + (IF main = "exit" /\ raised THEN 1 ELSE 0)
  <1>1. Len(buffer) \in Nat /\ failures \in Nat
    <2>1. buffer \in Seq(Entry) /\ failures \in 0..2
      BY TypeParts, Zenon DEF FileTypes, FlagTypes
    <2> QED
      BY <2>1
  <1>2. Len(buffer) <= failures /\ failures <= bound
    BY DEF Failures
  <1>3. bound <= bound' /\ bound \in 0..2 /\ bound' \in 0..2
    BY Lasting
  <1> HIDE DEF bound
  <1>4. ASSUME failures' = failures, Len(buffer') \in Nat, Len(buffer') <= Len(buffer)
        PROVE  Failures'
    <2>1. Len(buffer') <= failures' /\ failures' <= bound'
      BY <1>1, <1>2, <1>3, <1>4
    <2> QED
      BY <2>1 DEF Failures, bound
  <1>5. ASSUME failures' = failures + 1, Len(buffer') \in Nat,
                 Len(buffer') <= Len(buffer) + 1,
               bound' = bound + 1
        PROVE  Failures'
    <2>1. Len(buffer') <= failures' /\ failures' <= bound'
      BY <1>1, <1>2, <1>3, <1>5
    <2> QED
      BY <2>1 DEF Failures, bound
  <1>6. CASE UNCHANGED file
    BY <1>1, <1>4, <1>6 DEF file
  <1>7. CASE WorkerWrites
    <2>1. Head(item) \in Entry /\ Written(Head(item))
      BY <1>7, HeadTypes, TypeParts DEF WorkerWrites, Worker, Places
    <2>2. buffer' = <<>> /\ failures' = failures
      BY <2>1, TextWritten
    <2> QED
      BY <1>1, <1>4, <2>2
  <1>8. CASE WorkerFails
    <2>1. worker = "write" /\ worker' = "raise" /\ UNCHANGED <<errors, main, raised>>
          /\ (WriteFails(Head(item)) \/ UNCHANGED file)
      BY <1>8, Zenon DEF WorkerFails, Worker, OnFailure, control
    <2>2. CASE WriteFails(Head(item))
      <3>1. Head(item) \in Entry
        BY <2>1, HeadTypes, TypeParts DEF Places
      <3>2. buffer' \in Seq(Entry) /\ Len(buffer') <= Len(buffer) + 1
              /\ failures' = failures + 1
        BY <2>2, <3>1, TextFails
      <3>3. ~Failed /\ Failed'
        BY <2>1 DEF Failed, Places
      <3>4. bound' = bound + 1
        BY <2>1, <3>3 DEF bound
      <3>5. Len(buffer') \in Nat
        BY <3>2
      <3> QED
        BY <1>5, <3>2, <3>4, <3>5
    <2> QED
      BY <1>6, <2>1, <2>2
  <1>9. CASE Disconnect
    <2>1. main = "disconnect" /\ UNCHANGED <<worker, errors>>
      BY <1>9, Zenon DEF Disconnect, Main, ingestion
    <2>2. Ending \in Entry
      BY EntryTypes, TypeParts
    <2>3. CASE Written(Ending)
      <3>1. buffer' = <<>> /\ failures' = failures
        BY <2>2, <2>3, TextWritten
      <3> QED
        BY <1>1, <1>4, <3>1
    <2>4. CASE WriteFails(Ending) /\ main' = "exit" /\ raised' = TRUE
      <3>1. buffer' \in Seq(Entry) /\ Len(buffer') <= Len(buffer) + 1
              /\ failures' = failures + 1
        BY <2>2, <2>4, TextFails
      <3>2. bound' = bound + 1
        BY <2>1, <2>4 DEF bound, Failed
      <3>3. Len(buffer') \in Nat
        BY <3>1
      <3> QED
        BY <1>5, <3>1, <3>2, <3>3
    <2> QED
      BY <1>9, <2>3, <2>4, Zenon DEF Disconnect, Main
  <1>10. CASE Close \/ Finalize
    <2>1. FileCloses
      BY <1>10 DEF Close, Finalize
    <2>2. buffer' \in Seq(Entry) /\ Len(buffer') <= Len(buffer) /\ failures' = failures
      BY <2>1, TextCloses
    <2>3. Len(buffer') \in Nat
      BY <2>2
    <2> QED
      BY <1>4, <2>2, <2>3
  <1> QED
    BY <1>6, <1>7, <1>8, <1>9, <1>10, FileSteps

(* What the worker writes next. *)
LEMMA Writes ==
    ASSUME TypeOK, Places, ~Failed => Expected, worker = "write"
    PROVE  /\ ~Failed /\ last \in 1..MaxSequence /\ item /= <<>> /\ Head(item) \in Entry
           /\ \/ /\ item = <<Rx(last)>> /\ Head(item) = Rx(last) /\ Len(item) = 1
                 /\ Tail(item) = <<>> /\ Head(item).type = "rx" /\ Head(item).n = last
                 /\ last = arrived[1] \/ Follows(Text, Len(Text) + 1, last)
              \/ \E m \in 1..(last - 2) :
                   /\ item = <<Gap(m), Rx(last)>> /\ Head(item) = Gap(m) /\ Len(item) = 2
                   /\ Tail(item) = <<Rx(last)>> /\ Head(item).type = "gap"
                   /\ LastIs(Text, last - m - 1)
  <1>1. ~Failed /\ item /= <<>>
    BY DEF Failed, Places
  <1>2. last \in 1..MaxSequence /\ MaxSequence \in Nat
    BY <1>1, TypeParts DEF Expected, QueueTypes
  <1>3. Rx(last) \in Entry /\ Rx(last).type = "rx" /\ Rx(last).n = last
    BY <1>2, EntryTypes
  <1>4. CASE item = <<Rx(last)>>
               /\ (last = arrived[1] \/ Follows(Text, Len(Text) + 1, last))
    <2>1. Head(item) = Rx(last) /\ Len(item) = 1 /\ Tail(item) = <<>>
      BY <1>4
    <2> QED
      BY <1>1, <1>2, <1>3, <1>4, <2>1
  <1>5. ASSUME NEW m \in 1..(last - 2), item = <<Gap(m), Rx(last)>>,
                     LastIs(Text, last - m - 1)
        PROVE  /\ Head(item) = Gap(m) /\ Len(item) = 2 /\ Gap(m) \in Entry
               /\ Tail(item) = <<Rx(last)>> /\ Head(item).type = "gap"
    <2>1. m \in 0..MaxSequence
      BY <1>2
    <2>2. Gap(m) \in Entry /\ Gap(m).type = "gap"
      BY <2>1, EntryTypes
    <2>3. Head(item) = Gap(m) /\ Len(item) = 2 /\ Tail(item) = <<Rx(last)>>
      BY <1>5
    <2> QED
      BY <2>2, <2>3
  <1> QED
    BY <1>1, <1>2, <1>4, <1>5 DEF Expected

LEMMA AppendElements ==
    ASSUME NEW S, NEW s \in Seq(S), NEW e \in S
    PROVE  /\ Append(s, e) \in Seq(S) /\ Len(s) \in Nat
           /\ Len(Append(s, e)) = Len(s) + 1
           /\ DOMAIN s = 1..Len(s) /\ DOMAIN Append(s, e) = 1..(Len(s) + 1)
           /\ \A i \in 1..Len(s) : Append(s, e)[i] = s[i]
           /\ Append(s, e)[Len(s) + 1] = e
  OBVIOUS

(* A step that leaves alone what is on its way to the file. *)
Rests == /\ Text' = Text /\ UNCHANGED <<item, events, arrived, last>>
         /\ UNCHANGED drained \/ Drain

LEMMA Steps ==
    ASSUME TypeOK, Places, ~Failed => Expected, [Next]_vars
    PROVE  /\ Text \in Seq(Entry) /\ lines' \in Seq(Entry) /\ buffer' \in Seq(Entry)
           /\ \/ Rests
              \/ Arrive /\ Text' = Text
              \/ WorkerGets /\ Text' = Text
              \/ WorkerWrites /\ Text' = Append(Text, Head(item))
              \/ WorkerFails /\ (Text' = Text \/ Text' = Append(Text, Head(item)))
              \/ Disconnect /\ Text' = Append(Text, Ending)
  <1>1. Text \in Seq(Entry) /\ lines \in Seq(Entry) /\ buffer \in Seq(Entry)
    BY TypeParts DEF FileTypes, Text
  <1>2. ASSUME UNCHANGED file PROVE Text' = Text /\ lines' = lines /\ buffer' = buffer
    BY <1>2 DEF file, Text
  <1>3. CASE Lost \/ ReaderEnds \/ UNCHANGED vars
    <2>1. UNCHANGED <<file, item, events, arrived, last, drained>>
      BY <1>3, Zenon DEF Lost, ReaderEnds, vars, client, ingestion, control
    <2> QED
      BY <1>1, <1>2, <2>1 DEF Rests
  <1>4. CASE Leave \/ Ask \/ AskAgain \/ StopWorker \/ Join \/ Check
    <2>1. UNCHANGED <<file, item, events, arrived, last, drained>>
      BY <1>4, Zenon DEF Leave, Ask, AskAgain, Asks, StopWorker, Join, Check, client,
         ingestion
    <2> QED
      BY <1>1, <1>2, <2>1 DEF Rests
  <1>5. CASE Drain
    <2>1. UNCHANGED <<file, item, events, arrived, last>>
      BY <1>5, Zenon DEF Drain, client, ingestion
    <2> QED
      BY <1>1, <1>2, <1>5, <2>1 DEF Rests
  <1>6. CASE Arrive \/ WorkerGets
    <2>1. UNCHANGED file
      BY <1>6, Zenon DEF Arrive, WorkerGets
    <2> QED
      BY <1>1, <1>2, <1>6, <2>1
  <1>7. CASE WorkerTop \/ WorkerWaits \/ WorkerGoesOn \/ WorkerRaises
               \/ WorkerCloses \/ WorkerEnds
    <2>1. UNCHANGED <<file, item, events, arrived, last, drained>>
      BY <1>7, Zenon DEF WorkerTop, WorkerWaits, WorkerGoesOn, WorkerRaises,
         WorkerCloses,
            WorkerEnds, client, control
    <2> QED
      BY <1>1, <1>2, <2>1 DEF Rests
  <1>8. CASE WorkerWrites
    <2>1. worker = "write" /\ Written(Head(item))
      BY <1>8, Zenon DEF WorkerWrites, Worker
    <2>2. Head(item) \in Entry
      BY <2>1, Writes
    <2>3. lines' \in Seq(Entry) /\ buffer' = <<>> /\ Text' = Append(Text, Head(item))
      BY <2>1, <2>2, TextWritten
    <2> QED
      BY <1>1, <1>8, <2>3
  <1>9. CASE WorkerFails
    <2>1. worker = "write" /\ (WriteFails(Head(item)) \/ UNCHANGED file)
      BY <1>9, Zenon DEF WorkerFails, Worker
    <2>2. Head(item) \in Entry
      BY <2>1, Writes
    <2>3. CASE WriteFails(Head(item))
      <3>1. lines' \in Seq(Entry) /\ buffer' \in Seq(Entry)
              /\ Text' = Append(Text, Head(item))
        BY <2>2, <2>3, TextFails
      <3> QED
        BY <1>1, <1>9, <3>1
    <2>4. CASE UNCHANGED file
      BY <1>1, <1>2, <1>9, <2>4
    <2> QED
      BY <2>1, <2>3, <2>4
  <1>10. CASE Disconnect
    <2>1. Ending \in Entry /\ (Written(Ending) \/ WriteFails(Ending))
      BY <1>10, EntryTypes, TypeParts DEF Disconnect
    <2>2. lines' \in Seq(Entry) /\ buffer' \in Seq(Entry) /\ Text' = Append(Text, Ending)
      <3>1. CASE Written(Ending)
        <4>1. lines' \in Seq(Entry) /\ buffer' = <<>> /\ Text' = Append(Text, Ending)
          BY <2>1, <3>1, TextWritten
        <4> QED
          BY <4>1
      <3>2. CASE WriteFails(Ending)
        BY <2>1, <3>2, TextFails
      <3> QED
        BY <2>1, <3>1, <3>2
    <2> QED
      BY <1>1, <1>10, <2>2
  <1>11. CASE Close \/ Finalize
    <2>1. FileCloses /\ UNCHANGED <<item, events, arrived, last, drained>>
      BY <1>11, Zenon DEF Close, Finalize, client, ingestion, control
    <2>2. lines' \in Seq(Entry) /\ buffer' \in Seq(Entry) /\ Text' = Text
      BY <2>1, TextCloses
    <2> QED
      BY <1>1, <2>1, <2>2 DEF Rests
  <1> QED
    BY <1>3, <1>4, <1>5, <1>6, <1>7, <1>8, <1>9, <1>10, <1>11 DEF Next, Process, End

(* The way of the thread of the CLI. *)
LEMMA MainSteps ==
    ASSUME [Next]_vars
    PROVE  \/ UNCHANGED <<main, raised, drained>>
           \/ Leave /\ main = "loop" /\ main' = "ask"
           \/ Ask /\ UNCHANGED raised /\ main \in {"ask", "asked"}
                /\ main' \in {"asked", "drain"}
           \/ Drain /\ UNCHANGED raised /\ main = "drain" /\ main' = "stop"
           \/ StopWorker /\ UNCHANGED raised /\ main = "stop" /\ main' = "join"
           \/ Join /\ main = "join" /\ main' \in {"check", "ask_again"}
           \/ Check /\ main = "check" /\ main' = "ask_again"
           \/ /\ AskAgain /\ UNCHANGED raised /\ main \in {"ask_again", "asked_again"}
              /\ main' \in {"asked_again", "disconnect"}
           \/ Disconnect /\ main = "disconnect" /\ main' \in {"close", "exit"}
           \/ Close /\ main = "close" /\ main' = "exit"
  <1>1. CASE ~End
    <2>1. UNCHANGED <<main, raised, drained>>
      BY <1>1, Zenon DEF Next, Process, Arrive, Lost, ReaderEnds, Finalize, vars,
         control,
         WorkerTop, WorkerGets, WorkerWaits, WorkerGoesOn, WorkerWrites,
         WorkerFails, WorkerRaises, WorkerCloses, WorkerEnds
    <2> QED
      BY <2>1
  <1>2. CASE Leave \/ Drain \/ StopWorker \/ Check \/ Close
    BY <1>2 DEF Leave, Drain, StopWorker, Check, Close, Main
  <1>3. CASE Ask
    BY <1>3 DEF Ask, Asks, Main
  <1>4. CASE AskAgain
    BY <1>4 DEF AskAgain, Asks, Main
  <1>5. CASE Join
    BY <1>5 DEF Join, Main
  <1>6. CASE Disconnect
    BY <1>6 DEF Disconnect, Main
  <1> QED
    BY <1>1, <1>2, <1>3, <1>4, <1>5, <1>6 DEF End

(* What the thread of the CLI knows of its worker when it goes on.         *)
LEMMA EndsStep ==
    ASSUME TypeOK, Places, ~Failed => Expected, Ends, [Next]_vars PROVE Ends'
  <1> DEFINE late == {"check", "ask_again", "asked_again", "disconnect", "close", "exit"}
             later == {"ask_again", "asked_again", "disconnect", "close", "exit"}
             Entered == /\ ~raised /\ main \in late => worker = "end"
                        /\ ~raised /\ main \in later => ~errors
             NoneYet == \A i \in DOMAIN Text :
                          Text[i].type = "disconnect" => main \in {"close", "exit"}
  <1>1. main' /= "exit" => file_open'
    <2>1. CASE UNCHANGED file /\ main /= "exit"
      BY <2>1 DEF Ends, file
    <2>2. CASE main = "exit"
      BY <2>2, Lasting
    <2>3. CASE (WorkerWrites \/ WorkerFails) /\ main /= "exit"
      <3>1. file_open' = file_open
        BY <2>3, Zenon DEF WorkerWrites, WorkerFails, Written, WriteFails, file
      <3> QED
        BY <2>3, <3>1 DEF Ends
    <2>4. CASE Disconnect /\ main /= "exit"
      <3>1. file_open' = file_open
        BY <2>4, Zenon DEF Disconnect, Written, WriteFails
      <3> QED
        BY <2>4, <3>1 DEF Ends
    <2>5. CASE Close \/ Finalize
      BY <2>5, Lasting DEF Close, Finalize, Main
    <2> QED
      BY <2>1, <2>2, <2>3, <2>4, <2>5, FileSteps
  <1>2. NoneYet'
    <2>0. main \in {"close", "exit"} => main' \in {"close", "exit"}
      BY MainSteps
    <2>1. ASSUME Text' = Text PROVE NoneYet'
      BY <2>0, <2>1 DEF Ends
    <2>2. ASSUME NEW e \in Entry, Text \in Seq(Entry), Text' = Append(Text, e),
                 e.type = "disconnect" => main' \in {"close", "exit"}
          PROVE  NoneYet'
      <3>1. NoneYet
        BY DEF Ends
      <3>2. ASSUME NEW i \in DOMAIN Text', Text'[i].type = "disconnect"
            PROVE  main' \in {"close", "exit"}
        <4>1. (i \in DOMAIN Text /\ Text'[i] = Text[i]) \/ Text'[i] = e
          <5> HIDE DEF NoneYet
          <5> QED
            BY <2>2, AppendElements
        <4> QED
          BY <2>0, <2>2, <3>1, <3>2, <4>1
      <3> QED
        BY <3>2
    <2>3. CASE worker = "write" /\ Text' = Append(Text, Head(item))
      <3>1. Head(item) \in Entry /\ Head(item).type /= "disconnect"
        BY <2>3, Writes
      <3> QED
        BY <2>2, <2>3, <3>1, Steps
    <2>4. CASE Disconnect /\ Text' = Append(Text, Ending)
      <3>1. Ending \in Entry /\ main' \in {"close", "exit"}
        BY <2>4, EntryTypes, TypeParts DEF Disconnect, Main
      <3> QED
        BY <2>2, <2>4, <3>1, Steps
    <2> QED
      BY <2>1, <2>3, <2>4, Steps DEF Rests, WorkerWrites, WorkerFails, Worker
  <1>3. discarded' => pc_queue_discards' = 1
    <2>1. CASE Arrive
      BY <2>1 DEF Arrive, Ends
    <2>2. CASE ~Arrive
      <3>1. UNCHANGED <<discarded, pc_queue_discards>>
        BY <2>2, Zenon DEF Next, Process, End, Lost, ReaderEnds, Finalize, vars, client,
           WorkerTop, WorkerGets, WorkerWaits, WorkerGoesOn, WorkerWrites,
           WorkerFails, WorkerRaises, WorkerCloses, WorkerEnds,
           Leave, Ask, AskAgain, Asks, Drain, StopWorker, Join, Check, Disconnect, Close
      <3> QED
        BY <3>1 DEF Ends
    <2> QED
      BY <2>1, <2>2
  <1>4. Entered'
    <2>1. worker = "end" => worker' = "end" /\ errors' = errors
      BY Lasting
    <2>2. /\ ~raised /\ main \in late => worker = "end"
          /\ ~raised /\ main \in later => ~errors
      BY DEF Ends
    <2>3. CASE UNCHANGED <<main, raised>>
      BY <2>1, <2>2, <2>3
    <2>4. CASE Join /\ main = "join" /\ main' \in {"check", "ask_again"}
      <3>1. (worker = "end" /\ UNCHANGED <<worker, errors>>  /\ main' = "check")
              \/ raised' = TRUE
        BY <2>4, Zenon DEF Join, Main, Joined, ingestion
      <3> QED
        BY <3>1
    <2>5. CASE Check /\ main = "check" /\ main' = "ask_again"
      <3>1. raised' = (raised \/ errors) /\ UNCHANGED <<worker, errors>>
        BY <2>5, Zenon DEF Check, ingestion
      <3>2. ~raised' => ~raised /\ ~errors'
        BY <3>1, Zenon
      <3>3. ~raised => worker' = "end"
        BY <2>2, <2>5, <3>1
      <3> QED
        BY <3>2, <3>3
    <2>6. CASE main' \notin late
      BY <2>6
    <2>7. CASE main \in later /\ UNCHANGED raised
      BY <2>1, <2>2, <2>7
    <2>8. CASE Disconnect \/ Close
      <3>1. (UNCHANGED raised \/ raised' = TRUE \/ (raised => raised')) /\ main \in later
        BY <2>8 DEF Disconnect, Close, Main
      <3> QED
        BY <2>1, <2>2, <3>1
    <2> QED
      BY <2>3, <2>4, <2>5, <2>6, <2>7, <2>8, MainSteps
  <1> QED
    BY <1>1, <1>2, <1>3, <1>4 DEF Ends

(* A run that ends well leaves the disconnect as the last record.          *)
LEMMA EndedStep ==
    ASSUME TypeOK, Places, ~Failed => Expected, Ends, Ended, Failures, [Next]_vars
    PROVE  Ended'
  <1> DEFINE over == {"close", "exit"}
             n == Len(Text)
  <1>1. SUFFICES ASSUME ~raised', main' \in over PROVE
          /\ Text' /= <<>> /\ buffer' = <<>>
          /\ Text'[Len(Text')].type = "disconnect"
          /\ discarded' => Text'[Len(Text')].n = 1
          /\ \A i \in 1..(Len(Text') - 1) : Text'[i].type /= "disconnect"
          /\ main' = "exit" => ~file_open'
    BY Zenon DEF Ended
  <1>2. CASE Disconnect
    <2>1. main = "disconnect" /\ main' = "close" /\ Written(Ending)
            /\ UNCHANGED <<raised, discarded>>
      BY <1>1, <1>2, Zenon DEF Disconnect, Main, client
    <2>2. /\ Ending \in Entry /\ Ending.type = "disconnect"
               /\ Ending.n = pc_queue_discards
      BY EntryTypes, TypeParts
    <2>3. buffer' = <<>> /\ Text \in Seq(Entry) /\ Text' = Append(Text, Ending)
      BY <2>1, <2>2, TextWritten
    <2>4. \A i \in DOMAIN Text : Text[i].type /= "disconnect"
      BY <2>1 DEF Ends
    <2>5. discarded => Ending.n = 1
      BY <2>2 DEF Ends
    <2>6. /\ Text' \in Seq(Entry) /\ n \in Nat /\ Len(Text') = n + 1 /\ DOMAIN Text = 1..n
          /\ \A i \in 1..n : Text'[i] = Text[i]
          /\ Text'[n + 1] = Ending
      BY <2>2, <2>3, AppendElements
    <2> QED
      BY <2>1, <2>2, <2>3, <2>4, <2>5, <2>6
  <1>3. CASE main \in over
    <2>1. ~raised
      <3>1. CASE Close
        BY <1>1, <3>1 DEF Close
      <3>2. CASE UNCHANGED raised
        BY <1>1, <3>2
      <3> QED
        BY <1>3, <3>1, <3>2, MainSteps
    <2>2. worker = "end" /\ ~errors
      BY <1>3, <2>1 DEF Ends
    <2>3. stop
      BY <2>2 DEF Places
    <2>4. /\ Text /= <<>> /\ buffer = <<>> /\ Text[n].type = "disconnect"
          /\ discarded => Text[n].n = 1
          /\ \A i \in 1..(n - 1) : Text[i].type /= "disconnect"
          /\ main = "exit" => ~file_open
      BY <1>3, <2>1 DEF Ended
    <2>5. Text' = Text
      BY <1>3, <2>2, Steps DEF Rests, WorkerWrites, WorkerFails, Worker, Disconnect,
         Main
    <2>6. discarded' => discarded
      <3>1. CASE Arrive
        BY <2>3, <3>1 DEF Arrive
      <3>2. CASE ~Arrive
        BY <3>2, Zenon DEF Next, Process, End, Lost, ReaderEnds, Finalize, vars, client,
           WorkerTop, WorkerGets, WorkerWaits, WorkerGoesOn, WorkerWrites,
           WorkerFails, WorkerRaises, WorkerCloses, WorkerEnds,
           Leave, Ask, AskAgain, Asks, Drain, StopWorker, Join, Check, Disconnect, Close
      <3> QED
        BY <3>1, <3>2
    <2>7. buffer' = <<>> /\ (main' = "exit" => ~file_open')
      <3>1. CASE UNCHANGED file /\ UNCHANGED main
        BY <2>4, <3>1 DEF file
      <3>2. CASE Close \/ Finalize
        <4>1. FileCloses
          BY <3>2 DEF Close, Finalize
        <4>2. buffer' \in Seq(Entry) /\ Len(buffer') <= Len(buffer) /\ file_open' = FALSE
          BY <4>1, TextCloses
        <4> QED
          BY <2>4, <4>2
      <3>3. ~WorkerWrites /\ ~WorkerFails /\ ~Disconnect
        BY <1>3, <2>2 DEF WorkerWrites, WorkerFails, Worker, Disconnect, Main
      <3>4. UNCHANGED main \/ Close
        BY <1>3, <3>3, MainSteps
      <3> QED
        BY <3>1, <3>2, <3>3, <3>4, FileSteps
    <2> QED
      BY <2>4, <2>5, <2>6, <2>7
  <1> QED
    BY <1>1, <1>2, <1>3, MainSteps

(* The types, part by part.                                                *)
LEMMA QueueTypesStep ==
    ASSUME TypeOK, Places, Ordered, ~Failed => Expected, [Next]_vars PROVE QueueTypes'
  <1>1. QueueTypes
    BY TypeParts
  <1>2. CASE Arrive
    <2>1. /\ sequence' \in {sequence + 1, sequence + 2} /\ sequence' <= MaxSequence
          /\ UNCHANGED <<last, drained>>
          /\ \/ EventRoom /\ events' = Append(events, sequence')
                  /\ arrived' = Append(arrived, sequence')
             \/ UNCHANGED <<events, arrived>>
      BY <1>2, Zenon DEF Arrive, ingestion, control
    <2>2. sequence' \in 1..MaxSequence /\ sequence' \in 0..MaxSequence
      BY <1>1, <2>1 DEF QueueTypes
    <2>3. CASE EventRoom /\ events' = Append(events, sequence')
                 /\ arrived' = Append(arrived, sequence')
      <3>1. events \in Seq(1..MaxSequence) /\ arrived \in Seq(1..MaxSequence)
        BY <1>1 DEF QueueTypes
      <3>2. /\ events' \in Seq(1..MaxSequence) /\ Len(events') = Len(events) + 1
            /\ arrived' \in Seq(1..MaxSequence) /\ Len(events) \in Nat
        BY <2>2, <2>3, <3>1, AppendElements
      <3>3. Len(events') <= EventCapacity
        BY <1>1, <2>3, <3>2 DEF EventRoom, QueueTypes
      <3> QED
        BY <1>1, <2>1, <2>2, <3>2, <3>3 DEF QueueTypes
    <2>4. CASE UNCHANGED <<events, arrived>>
      BY <1>1, <2>1, <2>2, <2>4 DEF QueueTypes
    <2> QED
      BY <2>1, <2>3, <2>4
  <1>3. CASE WorkerGets
    <2>1. events /= <<>> /\ events' = Tail(events) /\ last' = Head(events)
          /\ UNCHANGED <<sequence, arrived, drained>>
      BY <1>3, Zenon DEF WorkerGets, control
    <2>2. /\ Head(events) \in 1..MaxSequence
          /\ Tail(events) \in Seq(1..MaxSequence) /\ Len(Tail(events)) = Len(events) - 1
      BY <1>1, <2>1, GetTypes
    <2>3. last' \in 0..MaxSequence
      BY <1>1, <2>1, <2>2 DEF QueueTypes
    <2>4. Len(events') <= EventCapacity
      <3>1. Len(events) \in Nat /\ Len(events) <= EventCapacity /\ EventCapacity \in Nat
        BY <1>1 DEF QueueTypes
      <3> QED
        BY <2>1, <2>2, <3>1
    <2> QED
      BY <1>1, <2>1, <2>2, <2>3, <2>4 DEF QueueTypes
  <1>4. CASE UNCHANGED <<events, arrived, sequence, last>>
    <2>1. drained' \in {drained, arrived}
      BY <1>4, MainSteps DEF Drain, Leave, Ask, AskAgain, Asks, StopWorker, Join,
         Check, Disconnect, Close
    <2> QED
      BY <1>1, <1>4, <2>1 DEF QueueTypes
  <1> QED
    BY <1>2, <1>3, <1>4, QueueSteps

(* One or two entries, or one less.                                        *)
LEMMA Small == \A a \in {1, 2} : a <= 2 /\ (\A b : b = a - 1 => b <= 2)
  OBVIOUS

LEMMA ItemTypesStep ==
    ASSUME TypeOK, Ordered, Places, [Next]_vars PROVE ItemTypes'
  <1>1. ItemTypes /\ QueueTypes
    BY TypeParts
  <1>0. ASSUME item' \in Seq(Entry), Len(item') <= 2 PROVE ItemTypes'
    BY <1>0, Zenon DEF ItemTypes
  <1>2. CASE item' = item \/ item' = <<>>
    <2>1. CASE item' = item
      BY <1>1, <2>1, Zenon DEF ItemTypes
    <2>2. CASE item' = <<>>
      <3>1. <<>> \in Seq(Entry)
        OBVIOUS
      <3>2. Len(<<>>) <= 2
        OBVIOUS
      <3> QED
        BY <1>0, <2>2, <3>1, <3>2, Zenon
    <2> QED
      BY <1>2, <2>1, <2>2
  <1>3. CASE WorkerWrites
    <2>1. item /= <<>> /\ item' = Tail(item)
      BY <1>3, Zenon DEF WorkerWrites, Worker, Places
    <2>2. Tail(item) \in Seq(Entry) /\ Len(Tail(item)) = Len(item) - 1
            /\ Len(item) \in {1, 2}
      BY <1>1, <2>1, HeadTypes
    <2>3. Len(Tail(item)) <= 2
      <3>1. Len(Tail(item)) = Len(item) - 1 /\ Len(item) \in {1, 2}
        BY <2>2
      <3> QED
        BY <3>1, Small, Zenon
    <2> QED
      BY <1>0, <2>1, <2>2, <2>3, Zenon
  <1>4. CASE WorkerGets
    <2>1. events /= <<>> /\ item' = Entries(Head(events))
      BY <1>4, Zenon DEF WorkerGets
    <2>2. item' \in Seq(Entry) /\ Len(item') \in {1, 2}
      BY <1>1, <2>1, GetTypes
    <2>3. Len(item') <= 2
      <3>1. Len(item') \in {1, 2}
        BY <2>2, Zenon
      <3> QED
        BY <3>1, Small, Zenon
    <2> QED
      BY <1>0, <2>2, <2>3, Zenon
  <1>5. item' = item \/ item' = <<>> \/ WorkerWrites \/ WorkerGets
    <2>1. CASE Process
      BY <2>1, Zenon DEF Process, WorkerTop, WorkerWaits, WorkerGoesOn,
         WorkerFails, WorkerRaises, WorkerCloses, WorkerEnds
    <2>2. CASE ~Process
      BY <2>2, Zenon DEF Next, End, Arrive, Lost, ReaderEnds, Finalize, vars, ingestion,
         Leave, Ask, AskAgain, Asks, Drain, StopWorker, Join, Check, Disconnect, Close
    <2> QED
      BY <2>1, <2>2
  <1> QED
    BY <1>2, <1>3, <1>4, <1>5

LEMMA FileTypesStep ==
    ASSUME TypeOK, Places, ~Failed => Expected, Failures', [Next]_vars
    PROVE  FileTypes' /\ failures' \in 0..2
  <1>1. lines' \in Seq(Entry) /\ buffer' \in Seq(Entry)
    BY Steps
  <1>2. Len(buffer') \in Nat
    BY <1>1
  <1>3. Len(buffer') <= failures' /\ failures' <= 2
    <2>1. /\ Len(buffer') <= failures'
          /\ failures' <= (IF Failed' THEN 1 ELSE 0) + (IF main' = "exit" /\ raised' THEN 1 ELSE 0)
      BY Zenon DEF Failures
    <2>2. failures' \in Nat
      <3>1. failures \in Nat
        BY TypeParts DEF FlagTypes
      <3>2. failures' = failures \/ failures' = failures + 1
        BY FileSteps, Zenon DEF file, WorkerWrites, WorkerFails, Disconnect, Close,
           Finalize,
           Written, WriteFails, FileCloses
      <3> QED
        BY <3>1, <3>2
    <2> QED
      BY <2>1, <2>2
  <1>4. failures' \in Int
    <2>1. failures \in Nat
      BY TypeParts DEF FlagTypes
    <2>2. failures' = failures \/ failures' = failures + 1
      BY FileSteps, Zenon DEF file, WorkerWrites, WorkerFails, Disconnect, Close,
         Finalize,
           Written, WriteFails, FileCloses
    <2> QED
      BY <2>1, <2>2
  <1> QED
    BY <1>1, <1>2, <1>3, <1>4 DEF FileTypes

LEMMA FlagTypesStep ==
    ASSUME TypeOK, failures' \in 0..2, [Next]_vars PROVE FlagTypes'
  <1> DEFINE Workers == {"top", "get", "empty", "write", "raise", "close", "join", "end"}
             Mains == {"loop", "ask", "asked", "drain", "stop", "join", "check",
                       "ask_again", "asked_again", "disconnect", "close", "exit"}
  <1>0. /\ reader \in BOOLEAN /\ closed \in BOOLEAN /\ failure \in BOOLEAN
        /\ pc_queue_discards \in {0, 1} /\ discarded \in BOOLEAN
        /\ worker \in Workers /\ main \in Mains
        /\ errors \in BOOLEAN /\ stop \in BOOLEAN /\ raised \in BOOLEAN
        /\ file_open \in BOOLEAN
    BY TypeParts, Zenon DEF FlagTypes
  <1>1. /\ reader' \in BOOLEAN /\ closed' \in BOOLEAN /\ failure' \in BOOLEAN
        /\ pc_queue_discards' \in {0, 1} /\ discarded' \in BOOLEAN
    <2>1. CASE Arrive
      BY <1>0, <2>1, Zenon DEF Arrive
    <2>2. CASE Lost \/ ReaderEnds \/ WorkerCloses
      BY <1>0, <2>2, Zenon DEF Lost, ReaderEnds, WorkerCloses
    <2>3. CASE Ask \/ AskAgain
      BY <1>0, <2>3, Zenon DEF Ask, AskAgain, Asks
    <2>4. CASE ~Arrive /\ ~Lost /\ ~ReaderEnds /\ ~WorkerCloses /\ ~Ask /\ ~AskAgain
      <3>1. UNCHANGED <<reader, closed, failure, pc_queue_discards, discarded>>
        BY <2>4, Zenon DEF Next, Process, End, Finalize, vars, client,
           WorkerTop, WorkerGets, WorkerWaits, WorkerGoesOn, WorkerWrites,
           WorkerFails, WorkerRaises, WorkerEnds,
           Leave, Drain, StopWorker, Join, Check, Disconnect, Close
      <3> QED
        BY <1>0, <3>1, Zenon
    <2> QED
      BY <2>1, <2>2, <2>3, <2>4, Zenon
  <1>2. worker' \in Workers /\ errors' \in BOOLEAN
    <2>1. CASE ~Process
      <3>1. UNCHANGED <<worker, errors>>
        BY <2>1, Zenon DEF Next, End, Arrive, Lost, ReaderEnds, Finalize, vars,
           ingestion,
           Leave, Ask, AskAgain, Asks, Drain, StopWorker, Join, Check, Disconnect, Close
      <3> QED
        BY <1>0, <3>1, Zenon
    <2>2. CASE Process
      <3>1. errors' = errors \/ errors' = TRUE
        BY <2>2, Zenon DEF Process, WorkerTop, WorkerGets, WorkerWaits, WorkerGoesOn,
           WorkerWrites, WorkerFails, WorkerRaises, WorkerCloses, WorkerEnds
      <3>2. worker' \in Workers
        BY <2>2 DEF Process, WorkerTop, WorkerGets, WorkerWaits, WorkerGoesOn,
           WorkerWrites, WorkerFails, OnFailure, WorkerRaises, WorkerCloses,
           WorkerEnds, Worker
      <3> QED
        BY <1>0, <3>1, <3>2, Zenon
    <2> QED
      BY <2>1, <2>2
  <1>3. main' \in Mains
    BY <1>0, MainSteps
  <1>4. raised' \in BOOLEAN
    <2>1. raised' = raised \/ Leave \/ Join \/ Check \/ Disconnect \/ Close
      BY MainSteps, Zenon
    <2> QED
      BY <1>0, <2>1, Zenon DEF Leave, Join, Check, Disconnect, Close
  <1>5. stop' \in BOOLEAN
    <2>1. stop' = stop \/ stop' = TRUE
      BY Zenon DEF Next, Process, End, Finalize, vars, control, Arrive, Lost,
         ReaderEnds,
           WorkerTop, WorkerGets, WorkerWaits, WorkerGoesOn, WorkerWrites,
           WorkerFails, WorkerRaises, WorkerCloses, WorkerEnds,
           Leave, Ask, AskAgain, Asks, Drain, StopWorker, Join, Check, Disconnect, Close
    <2> QED
      BY <1>0, <2>1, Zenon
  <1>6. file_open' \in BOOLEAN
    <2>1. file_open' = file_open \/ file_open' = FALSE
      BY FileSteps, Zenon DEF file, WorkerWrites, WorkerFails, Disconnect, Close,
         Finalize,
         Written, WriteFails, FileCloses
    <2> QED
      BY <1>0, <2>1, Zenon
  <1> QED
    BY <1>1, <1>2, <1>3, <1>4, <1>5, <1>6, Zenon DEF FlagTypes

(* The types are kept.                                                     *)
LEMMA TypesStep ==
    ASSUME TypeOK, Ordered, Places, ~Failed => Expected, Failures, [Next]_vars
    PROVE  TypeOK'
  <1>1. Failures'
    BY FailuresStep
  <1>2. FileTypes' /\ failures' \in 0..2
    BY <1>1, FileTypesStep
  <1>3. FlagTypes'
    BY <1>2, FlagTypesStep
  <1>4. QueueTypes' /\ ItemTypes'
    BY QueueTypesStep, ItemTypesStep
  <1> QED
    BY <1>2, <1>3, <1>4, Zenon DEF TypeOK, QueueTypes, FlagTypes, ItemTypes, FileTypes

(* Sequences, one after the other.                                         *)
LEMMA NatSequence == ASSUME NEW m \in Nat, NEW s \in Seq(1..m) PROVE s \in Seq(Nat)
  <1>1. Len(s) \in Nat /\ DOMAIN s = 1..Len(s) /\ \A i \in 1..Len(s) : s[i] \in Nat
    OBVIOUS
  <1>2. s = [i \in 1..Len(s) |-> s[i]]
    OBVIOUS
  <1> QED
    BY <1>1, <1>2

LEMMA ConcatEmpty == ASSUME NEW S, NEW s \in Seq(S) PROVE s \o <<>> = s
  OBVIOUS

LEMMA ConcatOne ==
    ASSUME NEW S, NEW s \in Seq(S), NEW e \in S PROVE Append(s, e) = s \o <<e>>
  OBVIOUS

LEMMA ConcatAppend ==
    ASSUME NEW S, NEW s \in Seq(S), NEW t \in Seq(S), NEW e \in S
    PROVE  s \o Append(t, e) = Append(s \o t, e)
  OBVIOUS

LEMMA ConcatHead ==
    ASSUME NEW S, NEW s \in Seq(S), NEW t \in Seq(S), t /= <<>>
    PROVE  (s \o <<Head(t)>>) \o Tail(t) = s \o t
  <1> DEFINE h == Head(t)
             r == Tail(t)
             x == s \o <<h>>
             u == x \o r
             v == s \o t
  <1>1. /\ h \in S /\ h = t[1] /\ r \in Seq(S) /\ Len(t) \in Nat \ {0}
        /\ Len(r) = Len(t) - 1 /\ \A i \in 1..(Len(t) - 1) : r[i] = t[i + 1]
    BY HeadTail
  <1>5. Len(s) \in Nat
    OBVIOUS
  <1> HIDE DEF h, r
  <1>6. /\ x \in Seq(S) /\ Len(x) = Len(s) + 1 /\ x[Len(s) + 1] = h
        /\ \A i \in 1..Len(s) : x[i] = s[i]
    BY <1>1
  <1> HIDE DEF x
  <1>2. u \in Seq(S) /\ v \in Seq(S) /\ Len(u) = Len(v) /\ Len(v) = Len(s) + Len(t)
    <2>0. x \in Seq(S) /\ r \in Seq(S)
      BY <1>1, <1>6
    <2>1. u \in Seq(S) /\ Len(u) = Len(x) + Len(r)
      BY <2>0
    <2>2. v \in Seq(S) /\ Len(v) = Len(s) + Len(t)
      OBVIOUS
    <2> HIDE DEF u, v
    <2> QED
      BY <1>1, <1>5, <1>6, <2>1, <2>2
  <1>3. ASSUME NEW i \in 1..(Len(s) + Len(t)) PROVE u[i] = v[i]
    <2>1. v[i] = IF i <= Len(s) THEN s[i] ELSE t[i - Len(s)]
      BY <1>3
    <2>2. u[i] = IF i <= Len(s) + 1 THEN x[i] ELSE r[i - (Len(s) + 1)]
      BY <1>1, <1>3, <1>6
    <2>3. CASE i > Len(s) + 1
      <3>2. /\ i - (Len(s) + 1) \in 1..(Len(t) - 1) /\ (i - (Len(s) + 1)) + 1 = i - Len(s)
            /\ ~(i <= Len(s)) /\ ~(i <= Len(s) + 1)
        BY <1>1, <1>5, <1>3, <2>3
      <3>3. r[i - (Len(s) + 1)] = t[(i - (Len(s) + 1)) + 1]
        BY <1>1, <3>2
      <3> QED
        BY <2>1, <2>2, <3>2, <3>3
    <2>4. CASE i = Len(s) + 1
      <3>1. i - Len(s) = 1 /\ ~(i <= Len(s)) /\ i <= Len(s) + 1
        BY <1>5, <2>4
      <3> QED
        BY <1>1, <1>6, <2>1, <2>2, <2>4, <3>1
    <2>5. CASE i <= Len(s)
      <3>1. i <= Len(s) + 1 /\ i \in 1..Len(s)
        BY <1>5, <2>5
      <3> QED
        BY <1>6, <2>1, <2>2, <3>1
    <2>6. i \in Int /\ Len(s) \in Int
      BY <1>5
    <2> HIDE DEF u, v
    <2> QED
      BY <2>3, <2>4, <2>5, <2>6
  <1> HIDE DEF u, v
  <1>4. u = v
    BY <1>2, <1>3, SeqEqual
  <1> QED
    BY <1>4 DEF u, v, x, h, r

LEMMA PrefixOfConcat ==
    ASSUME NEW S, NEW s \in Seq(S), NEW t \in Seq(S), NEW u \in Seq(S), NEW w \in Seq(S),
           (s \o t) \o u = w
    PROVE  IsPrefix(s, w) /\ IsPrefix(s \o t, w)
  <1>1. s \o t \in Seq(S) /\ (s \o t) \o u \in Seq(S)
    OBVIOUS
  <1>2. IsPrefix(s, s \o t) /\ IsPrefix(s \o t, (s \o t) \o u)
    BY <1>1, PrefixConcat
  <1>3. IsPrefix(s, (s \o t) \o u)
    BY <1>1, <1>2, PrefixTransitive
  <1> QED
    BY <1>2, <1>3

(* Two entries.                                                            *)
LEMMA Pair == ASSUME NEW S, NEW a \in S, NEW b \in S PROVE Append(<<a>>, b) = <<a, b>>
  <1>1. <<a>> \in Seq(S) /\ Len(<<a>>) = 1 /\ <<a>>[1] = a
    OBVIOUS
  <1>2. <<a, b>> \in Seq(S) /\ Len(<<a, b>>) = 2 /\ <<a, b>>[1] = a /\ <<a, b>>[2] = b
    OBVIOUS
  <1>3. ASSUME NEW s \in Seq(S), Len(s) = 1, s[1] = a, NEW v \in Seq(S), Len(v) = 2,
                     v[1] = a, v[2] = b
        PROVE Append(s, b) = v
    <2>1. Append(s, b) \in Seq(S) /\ Len(Append(s, b)) = 2 /\ Append(s, b)[1] = a
            /\ Append(s, b)[2] = b
      <3>1. /\ Append(s, b) \in Seq(S) /\ Len(Append(s, b)) = Len(s) + 1
            /\ Append(s, b)[Len(s) + 1] = b /\ \A i \in 1..Len(s) : Append(s, b)[i] = s[i]
        OBVIOUS
      <3>2. Len(s) + 1 = 2 /\ 1 \in 1..Len(s)
        BY <1>3
      <3> QED
        BY <1>3, <3>1, <3>2, Zenon
    <2> DEFINE u == Append(s, b)
    <2> HIDE DEF u
    <2>2. \A i \in 1..Len(u) : u[i] = v[i]
      BY <2>1, <1>3 DEF u
    <2>3. u = v
      BY <2>1, <2>2, <1>3, SeqEqual DEF u
    <2> QED
      BY <2>3 DEF u
  <1> QED
    BY <1>1, <1>2, <1>3

(* A packet has one number, with its gap or without.                       *)
LEMMA EntriesNumbers ==
    ASSUME NEW n \in 0..MaxSequence
    PROVE  /\ Numbers(<<Rx(n)>>) = <<n>>
           /\ \A m \in 0..MaxSequence : Numbers(<<Gap(m), Rx(n)>>) = <<n>>
  <1>1. Rx(n) \in Entry /\ Rx(n).type = "rx" /\ Rx(n).n = n
    BY EntryTypes
  <1>2. <<>> \in Seq(Entry) /\ Append(<<>>, Rx(n)) = <<Rx(n)>> /\ Append(<<>>, n) = <<n>>
    OBVIOUS
  <1>3. Numbers(<<Rx(n)>>) = <<n>>
    <2>1. Numbers(Append(<<>>, Rx(n))) = Append(Numbers(<<>>), Rx(n).n)
      BY <1>1, <1>2, NumbersAppend
    <2> QED
      BY <1>1, <1>2, <2>1, NumbersEmpty
  <1>4. ASSUME NEW m \in 0..MaxSequence PROVE Numbers(<<Gap(m), Rx(n)>>) = <<n>>
    <2>1. Gap(m) \in Entry /\ Gap(m).type = "gap"
      BY EntryTypes
    <2>2. /\ Append(<<>>, Gap(m)) = <<Gap(m)>> /\ <<Gap(m)>> \in Seq(Entry)
          /\ Append(<<Gap(m)>>, Rx(n)) = <<Gap(m), Rx(n)>>
      <3>1. \A a \in Entry : Append(<<>>, a) = <<a>> /\ <<a>> \in Seq(Entry)
        OBVIOUS
      <3>2. \A a, b \in Entry : Append(<<a>>, b) = <<a, b>>
        BY Pair
      <3> QED
        BY <1>1, <2>1, <3>1, <3>2
    <2>3. Numbers(Append(<<>>, Gap(m))) = Numbers(<<>>)
      BY <1>2, <2>1, NumbersAppend
    <2>4. Numbers(Append(<<Gap(m)>>, Rx(n))) = Append(Numbers(<<Gap(m)>>), Rx(n).n)
      BY <1>1, <2>2, NumbersAppend
    <2> QED
      BY <1>1, <1>2, <2>2, <2>3, <2>4, NumbersEmpty
  <1> QED
    BY <1>3, <1>4

(* What is written is taken from the hands of the worker. *)
LEMMA NumbersWritten ==
    ASSUME TypeOK, Places, ~Failed => Expected, worker = "write", Text \in Seq(Entry)
    PROVE  LET text == Append(Text, Head(item))
           IN  /\ Numbers(text) \in Seq(Nat) /\ Numbers(Tail(item)) \in Seq(Nat)
               /\ Numbers(text) \o Numbers(Tail(item)) = Numbers(Text) \o Numbers(item)
  <1> DEFINE text == Append(Text, Head(item))
             N == Numbers(Text)
  <1>1. last \in 1..MaxSequence /\ Head(item) \in Entry /\ last \in Nat
          /\ last \in 0..MaxSequence
        /\ MaxSequence \in Nat
    <2>1. last \in 1..MaxSequence /\ Head(item) \in Entry
      BY Writes
    <2> QED
      BY <2>1, RecordingAssumption
  <1>2. N \in Seq(Nat)
    BY NumbersType
  <1>3. Numbers(text) = IF Head(item).type = "rx" THEN Append(N, Head(item).n) ELSE N
    BY <1>1, NumbersAppend
  <1>4. Numbers(<<Rx(last)>>) = <<last>>
    BY <1>1, EntriesNumbers
  <1> HIDE DEF text, N
  <1>5. CASE /\ item = <<Rx(last)>> /\ Tail(item) = <<>> /\ Head(item).type = "rx"
             /\ Head(item).n = last
    <2>1. Numbers(text) = Append(N, last) /\ Numbers(item) = <<last>>
            /\ Numbers(Tail(item)) = <<>>
      BY <1>3, <1>4, <1>5, NumbersEmpty
    <2>2. Append(N, last) \in Seq(Nat) /\ <<>> \in Seq(Nat)
          /\ Append(N, last) \o <<>> = N \o <<last>>
      BY <1>1, <1>2
    <2> QED
      BY <2>1, <2>2 DEF text, N
  <1>6. ASSUME NEW m \in 1..(last - 2), item = <<Gap(m), Rx(last)>>,
                     Tail(item) = <<Rx(last)>>,
               Head(item).type = "gap"
        PROVE  /\ Numbers(text) \in Seq(Nat) /\ Numbers(Tail(item)) \in Seq(Nat)
               /\ Numbers(text) \o Numbers(Tail(item)) = N \o Numbers(item)
    <2>1. m \in 0..MaxSequence
      BY <1>1, <1>6
    <2>2. Numbers(item) = <<last>> /\ Numbers(Tail(item)) = <<last>> /\ Numbers(text) = N
      BY <1>1, <1>3, <1>4, <1>6, <2>1, EntriesNumbers
    <2>3. <<last>> \in Seq(Nat)
      BY <1>1
    <2> QED
      BY <1>2, <2>2, <2>3
  <1> QED
    BY <1>5, <1>6, Writes DEF text, N

(* No step loses a frame between the queue and the file, or swaps two.     *)
LEMMA WholeStep ==
    ASSUME TypeOK, Ordered, Places, Whole, ~Failed => Expected, [Next]_vars
    PROVE  Whole'
  <1> DEFINE N == Numbers(Text)
             I == Numbers(item)
  <1>1. /\ N \in Seq(Nat) /\ I \in Seq(Nat)
        /\ events \in Seq(Nat) /\ arrived \in Seq(Nat) /\ drained \in Seq(Nat)
    <2>1. item \in Seq(Entry) /\ Text \in Seq(Entry)
      BY Steps, TypeParts DEF ItemTypes
    <2>2. N \in Seq(Nat) /\ I \in Seq(Nat)
      BY <2>1, NumbersType
    <2>3. /\ MaxSequence \in Nat /\ events \in Seq(1..MaxSequence)
          /\ arrived \in Seq(1..MaxSequence) /\ drained \in Seq(1..MaxSequence)
      BY TypeParts DEF QueueTypes
    <2> QED
      BY <2>2, <2>3, NatSequence
  <1>2. /\ IsPrefix(N, arrived)
        /\ ~Failed => (N \o I) \o events = arrived /\ IsPrefix(drained, N \o I)
    BY DEF Whole
  <1>3. Failed => Failed'
    BY Lasting
  <1>4. SUFFICES /\ IsPrefix(N', arrived')
                 /\ ~Failed' => (N' \o I') \o events' = arrived'
                      /\ IsPrefix(drained', N' \o I')
    BY Zenon DEF Whole
  <1>5. CASE Rests
    <2>1. N' = N /\ I' = I /\ events' = events /\ arrived' = arrived
      BY <1>5 DEF Rests
    <2>2. drained' = drained \/ (drained' = arrived /\ events = <<>>)
      BY <1>5 DEF Rests, Drain
    <2> HIDE DEF N, I
    <2>3. CASE drained' = drained
      BY <1>2, <1>3, <2>1, <2>3, Zenon
    <2>4. CASE drained' = arrived /\ events = <<>>
      <3>1. N \o I \in Seq(Nat) /\ (N \o I) \o <<>> = N \o I
        BY <1>1
      <3>2. ~Failed => arrived = N \o I
        BY <1>2, <2>4, <3>1
      <3>3. ~Failed => IsPrefix(arrived, N \o I)
        BY <3>1, <3>2, PrefixReflexive
      <3> QED
        BY <1>2, <1>3, <2>1, <2>4, <3>3, Zenon
    <2> QED
      BY <2>2, <2>3, <2>4
  <1>6. CASE Arrive /\ Text' = Text
    <2>1. N' = N /\ I' = I /\ drained' = drained /\ (Failed' <=> Failed)
      BY <1>6, Zenon DEF Arrive, ingestion, control, Failed
    <2>2. \/ UNCHANGED <<events, arrived>>
          \/ events' = Append(events, sequence') /\ arrived' = Append(arrived, sequence')
      BY <1>6, Zenon DEF Arrive
    <2>3. sequence' \in Nat
      BY <1>6, TypeParts DEF Arrive, QueueTypes
    <2> HIDE DEF N, I
    <2>4. CASE UNCHANGED <<events, arrived>>
      BY <1>2, <2>1, <2>4, Zenon
    <2>5. CASE events' = Append(events, sequence')
                 /\ arrived' = Append(arrived, sequence')
      <3>1. arrived' \in Seq(Nat) /\ IsPrefix(arrived, arrived')
        BY <1>1, <2>3, <2>5, PrefixAppend, AppendElements
      <3>2. IsPrefix(N, arrived')
        BY <1>1, <1>2, <3>1, PrefixTransitive
      <3>3. N \o I \in Seq(Nat)
        BY <1>1
      <3>4. (N \o I) \o events' = Append((N \o I) \o events, sequence')
        <4> DEFINE x == N \o I
        <4> HIDE DEF x
        <4>1. x \in Seq(Nat)
          BY <3>3 DEF x
        <4>2. x \o Append(events, sequence') = Append(x \o events, sequence')
          BY <1>1, <2>3, <4>1, ConcatAppend
        <4> QED
          BY <2>5, <4>2 DEF x
      <3> QED
        BY <1>2, <2>1, <2>5, <3>2, <3>4, Zenon
    <2> QED
      BY <2>2, <2>4, <2>5
  <1>7. CASE WorkerGets /\ Text' = Text
    <2>1. /\ worker = "get" /\ events /= <<>> /\ events' = Tail(events)
          /\ item' = Entries(Head(events))
          /\ UNCHANGED <<arrived, drained, errors>>
      BY <1>7, Zenon DEF WorkerGets, Worker, control
    <2>2. item = <<>> /\ ~Failed
      BY <2>1 DEF Places, Failed
    <2> DEFINE h == Head(events)
    <2>3. h \in 1..MaxSequence /\ h \in 0..MaxSequence /\ h \in Nat
            /\ h - last - 1 \in 0..MaxSequence
      <3>1. QueueTypes
        BY TypeParts
      <3>2. h \in 1..MaxSequence /\ last < h
        BY <2>1, <3>1, GetTypes
      <3>3. last \in 0..MaxSequence /\ MaxSequence \in Nat
        BY <3>1 DEF QueueTypes
      <3> HIDE DEF h
      <3> QED
        BY <3>2, <3>3
    <2>4. I = <<>> /\ N' = N
      BY <1>7, <2>2, NumbersEmpty
    <2>5. I' = <<h>>
      <3>1. item' = <<Rx(h)>> \/ item' = <<Gap(h - last - 1), Rx(h)>>
        BY <2>1 DEF Entries
      <3> HIDE DEF h
      <3> QED
        BY <2>3, <3>1, EntriesNumbers
    <2>6. events' = Tail(events) /\ <<h>> \in Seq(Nat)
      BY <2>1, <2>3
    <2> HIDE DEF N, I
    <2>7. N \o I = N /\ (N \o <<h>>) \o Tail(events) = N \o events
      BY <1>1, <2>1, <2>4, ConcatEmpty, ConcatHead
    <2>8. N \o <<h>> \in Seq(Nat) /\ IsPrefix(N, N \o <<h>>)
      <3>1. Append(N, h) \in Seq(Nat) /\ Append(N, h) = N \o <<h>>
              /\ IsPrefix(N, Append(N, h))
        BY <1>1, <2>3, AppendElements, ConcatOne, PrefixAppend
      <3> QED
        BY <3>1
    <2>9. IsPrefix(drained, N \o <<h>>)
      BY <1>1, <1>2, <2>2, <2>7, <2>8, PrefixTransitive
    <2>10. (N \o I) \o events = arrived
      BY <1>2, <2>2
    <2> QED
      BY <1>2, <2>1, <2>4, <2>5, <2>7, <2>9, <2>10, Zenon
  <1>8. ASSUME worker = "write", Text' = Append(Text, Head(item)), arrived' = arrived
        PROVE  /\ IsPrefix(N', arrived')
               /\ item' = Tail(item) => N' \o I' = N \o I
    <2>1. ~Failed /\ Text \in Seq(Entry)
      BY <1>8, Writes, Steps
    <2> DEFINE J == Numbers(Tail(item))
    <2>2. N' \in Seq(Nat) /\ J \in Seq(Nat) /\ N' \o J = N \o I
      BY <1>8, <2>1, NumbersWritten
    <2>3. item' = Tail(item) => I' = J
      OBVIOUS
    <2> HIDE DEF N, I, J
    <2>4. (N' \o J) \o events = arrived
      BY <1>2, <2>1, <2>2
    <2>5. IsPrefix(N', arrived)
      BY <1>1, <2>2, <2>4, PrefixOfConcat
    <2> QED
      BY <1>8, <2>2, <2>3, <2>5, Zenon
  <1>9. CASE WorkerWrites /\ Text' = Append(Text, Head(item))
    <2>1. worker = "write" /\ item' = Tail(item)
            /\ UNCHANGED <<events, arrived, drained, errors>>
      BY <1>9, Zenon DEF WorkerWrites, Worker, client, control
    <2>2. IsPrefix(N', arrived') /\ N' \o I' = N \o I
      BY <1>8, <1>9, <2>1
    <2>3. ~Failed
      BY <2>1, Writes
    <2> HIDE DEF N, I
    <2> QED
      BY <1>2, <2>1, <2>2, <2>3, Zenon
  <1>10. CASE WorkerFails /\ (Text' = Text \/ Text' = Append(Text, Head(item)))
    <2>1. worker = "write" /\ worker' = "raise" /\ UNCHANGED arrived
      BY <1>10, Zenon DEF WorkerFails, Worker, OnFailure, client
    <2>2. Failed'
      BY <2>1 DEF Failed
    <2>3. IsPrefix(N', arrived')
      <3>1. CASE Text' = Text
        BY <1>2, <2>1, <3>1
      <3>2. CASE Text' = Append(Text, Head(item))
        BY <1>8, <2>1, <3>2
      <3> QED
        BY <1>10, <3>1, <3>2
    <2> QED
      BY <2>2, <2>3
  <1>11. CASE Disconnect /\ Text' = Append(Text, Ending)
    <2>1. UNCHANGED <<events, arrived, drained, item, worker, errors>>
      BY <1>11, Zenon DEF Disconnect, client, ingestion
    <2>2. Ending \in Entry /\ Ending.type = "disconnect" /\ Text \in Seq(Entry)
      BY EntryTypes, TypeParts, Steps
    <2>3. N' = N
      BY <1>11, <2>2, NumbersAppend
    <2>4. I' = I /\ (Failed' <=> Failed)
      BY <2>1 DEF Failed
    <2> HIDE DEF N, I
    <2> QED
      BY <1>2, <2>1, <2>3, <2>4, Zenon
  <1> QED
    BY <1>5, <1>6, <1>7, <1>9, <1>10, <1>11, Steps

(* What a frame follows is in the records before it.                       *)
LEMMA FollowsAgree ==
    ASSUME NEW s, NEW t, NEW i \in Nat, NEW n, \A k \in 1..(i - 1) : s[k] = t[k],
           Follows(s, i, n)
    PROVE  Follows(t, i, n)
  <1> DEFINE B(x, p) == {k \in (p + 1)..(i - 1) : x[k].type /= "disconnect"}
             D(x, p) == n - x[p].n - 1
             F(x, p) == /\ x[p].type = "rx"
                        /\ IF D(x, p) = 0 THEN B(x, p) = {}
                           ELSE \E k \in B(x, p) : B(x, p) = {k} /\ x[k] = Gap(D(x, p))
  <1>1. PICK p \in 1..(i - 1) : F(s, p)
    BY DEF Follows
  <1>2. s[p] = t[p] /\ \A k \in (p + 1)..(i - 1) : s[k] = t[k]
    OBVIOUS
  <1>3. B(s, p) = B(t, p) /\ D(s, p) = D(t, p)
    BY <1>2
  <1>4. B(s, p) \subseteq (p + 1)..(i - 1)
    OBVIOUS
  <1>5. F(t, p)
    <2> HIDE DEF B, D
    <2> QED
      BY <1>1, <1>2, <1>3, <1>4
  <1> QED
    BY <1>5 DEF Follows

(* A frame that is written follows the one before it or its gap.           *)
LEMMA AnnouncedStep ==
    ASSUME TypeOK, Ordered, Places, Announced, ~Failed => Expected, [Next]_vars
    PROVE  Announced'
  <1>1. /\ arrived \in Seq(1..MaxSequence) /\ Text \in Seq(Entry) /\ last \in Nat
        /\ Len(Text) \in Nat /\ DOMAIN Text = 1..Len(Text)
    <2>1. arrived \in Seq(1..MaxSequence) /\ last \in 0..MaxSequence
            /\ MaxSequence \in Nat
      BY TypeParts DEF QueueTypes
    <2>2. Text \in Seq(Entry)
      BY Steps
    <2> QED
      BY <2>1, <2>2
  <1>2. arrived /= <<>> => arrived' /= <<>> /\ arrived'[1] = arrived[1]
    <2>1. CASE arrived' = arrived
      BY <2>1
    <2>2. CASE Arrive /\ arrived' = Append(arrived, sequence')
      <3>1. sequence' \in 1..MaxSequence
        BY <2>2, TypeParts DEF Arrive, QueueTypes
      <3>2. ASSUME arrived /= <<>> PROVE 1 \in 1..Len(arrived)
        BY <1>1, <3>2
      <3>3. /\ arrived' \in Seq(1..MaxSequence) /\ Len(arrived') = Len(arrived) + 1
            /\ \A i \in 1..Len(arrived) : arrived'[i] = arrived[i]
            /\ Len(arrived) \in Nat
        BY <1>1, <2>2, <3>1, AppendElements
      <3>4. arrived' /= <<>>
        <4>1. Len(arrived') /= 0
          BY <3>3
        <4> QED
          BY <4>1
      <3> QED
        BY <3>2, <3>3, <3>4
    <2> QED
      BY <2>1, <2>2, QueueSteps DEF Arrive, WorkerGets
  <1>3. last' > 0 => arrived' /= <<>>
    <2>1. CASE last' = last
      BY <1>2, <2>1 DEF Announced
    <2>2. CASE WorkerGets
      <3>1. worker = "get" /\ events /= <<>>
        BY <2>2, Zenon DEF WorkerGets, Worker
      <3>2. ~Failed
        BY <3>1 DEF Places, Failed
      <3>3. arrived /= <<>>
        BY <1>1, <3>1, <3>2 DEF Expected, Announced
      <3> QED
        BY <1>2, <3>3
    <2> QED
      BY <2>1, <2>2, QueueSteps DEF Arrive, ingestion
  <1> DEFINE Shows(text, i, from) ==
               text[i].type = "rx" => from /= <<>>
                 /\ (text[i].n = from[1] \/ Follows(text, i, text[i].n))
  <1>4. \A i \in 1..Len(Text) : Shows(Text, i, arrived)
    BY <1>1 DEF Announced
  <1>5. ASSUME NEW text \in Seq(Entry), NEW i \in 1..Len(Text),
                     \A k \in 1..i : text[k] = Text[k]
        PROVE  Shows(text, i, arrived')
    <2>1. text[i] = Text[i] /\ i \in Nat /\ \A k \in 1..(i - 1) : Text[k] = text[k]
      BY <1>5
    <2>2. Shows(Text, i, arrived)
      BY <1>4
    <2>3. Follows(Text, i, text[i].n) => Follows(text, i, text[i].n)
      BY <2>1, FollowsAgree
    <2> QED
      BY <1>2, <2>1, <2>2, <2>3, Zenon
  <1>6. ASSUME Text' = Text PROVE Announced'
    <2>1. \A i \in 1..Len(Text) : Shows(Text, i, arrived')
      BY <1>1, <1>5
    <2> QED
      BY <1>1, <1>3, <1>6, <2>1 DEF Announced
  <1>7. ASSUME NEW e \in Entry, Text' = Append(Text, e),
               e.type = "rx" => arrived /= <<>>
                 /\ (e.n = arrived[1] \/ Follows(Text, Len(Text) + 1, e.n))
        PROVE  Announced'
    <2> DEFINE text == Append(Text, e)
               m == Len(Text)
    <2>1. /\ text \in Seq(Entry) /\ DOMAIN text = 1..(m + 1) /\ m \in Nat
          /\ \A k \in 1..m : text[k] = Text[k]
          /\ text[m + 1] = e
      BY <1>1, AppendElements
    <2> HIDE DEF text
    <2>2. \A i \in 1..m : Shows(text, i, arrived')
      <3>1. \A i \in 1..m : \A k \in 1..i : text[k] = Text[k]
        BY <2>1
      <3> HIDE DEF m
      <3> QED
        BY <1>5, <2>1, <3>1 DEF m
    <2>3. Shows(text, m + 1, arrived')
      <3>1. Follows(Text, m + 1, e.n) => Follows(text, m + 1, e.n)
        <4>1. m + 1 \in Nat /\ \A k \in 1..((m + 1) - 1) : Text[k] = text[k]
          BY <2>1
        <4> HIDE DEF m
        <4> QED
          BY <4>1, FollowsAgree
      <3> QED
        BY <1>2, <1>7, <2>1, <3>1
    <2>4. \A i \in DOMAIN text : Shows(text, i, arrived')
      BY <2>1, <2>2, <2>3
    <2>5. Text' = text
      BY <1>7 DEF text
    <2> QED
      BY <1>3, <2>4, <2>5 DEF Announced
  <1>9. CASE worker = "write" /\ Text' = Append(Text, Head(item))
    <2>1. /\ Head(item) \in Entry /\ last > 0
          /\ Head(item).type = "rx" => /\ Head(item).n = last
                                       /\ last = arrived[1]
                                            \/ Follows(Text, Len(Text) + 1, last)
      <3>1. last \in 1..MaxSequence /\ MaxSequence \in Nat
        BY <1>9, Writes, RecordingAssumption
      <3> QED
        BY <1>9, <3>1, Writes
    <2>2. arrived /= <<>>
      BY <2>1 DEF Announced
    <2> QED
      BY <1>7, <1>9, <2>1, <2>2
  <1>10. CASE Text' = Append(Text, Ending)
    <2>1. Ending \in Entry /\ Ending.type = "disconnect"
      BY EntryTypes, TypeParts
    <2> QED
      BY <1>7, <1>10, <2>1
  <1>11. WorkerWrites \/ WorkerFails => worker = "write"
    BY DEF WorkerWrites, WorkerFails, Worker
  <1> QED
    BY <1>6, <1>9, <1>10, <1>11, Steps DEF Rests

(* What may be written after the last frame.                               *)
LEMMA LastAppended ==
    ASSUME NEW text \in Seq(Entry), NEW n \in 0..MaxSequence
    PROVE  LastIs(Append(text, Rx(n)), n)
  <1> DEFINE t == Append(text, Rx(n))
             p == Len(text) + 1
  <1>1. Rx(n) \in Entry
    BY EntryTypes
  <1>2. Len(t) = p /\ DOMAIN t = 1..p /\ t[p] = Rx(n) /\ p \in Nat \ {0}
    BY <1>1, AppendElements
  <1> HIDE DEF t, p
  <1>3. p \in DOMAIN t /\ \A k \in (p + 1)..Len(t) : FALSE
    BY <1>2
  <1>4. LastIs(t, n)
    BY <1>2, <1>3, Zenon DEF LastIs
  <1> QED
    BY <1>4 DEF t

LEMMA LastKept ==
    ASSUME NEW text \in Seq(Entry), NEW n, LastIs(text, n), NEW e \in Entry,
           e.type = "disconnect"
    PROVE  LastIs(Append(text, e), n)
  <1> DEFINE t == Append(text, e)
             m == Len(text)
  <1>1. /\ Len(t) = m + 1 /\ DOMAIN t = 1..(m + 1) /\ t[m + 1] = e /\ m \in Nat
        /\ DOMAIN text = 1..m /\ \A k \in 1..m : t[k] = text[k]
    BY AppendElements
  <1>2. PICK p \in DOMAIN text : /\ text[p] = Rx(n)
                                 /\ \A k \in (p + 1)..Len(text) : text[k].type = "disconnect"
    BY DEF LastIs
  <1>3. \A k \in (p + 1)..m : text[k].type = "disconnect"
    BY <1>2
  <1> HIDE DEF t, m
  <1>4. p \in DOMAIN t /\ t[p] = Rx(n)
    BY <1>1, <1>2
  <1>5. ASSUME NEW k \in (p + 1)..Len(t) PROVE t[k].type = "disconnect"
    <2>1. k \in (p + 1)..m \/ k = m + 1
      BY <1>1, <1>2
    <2>2. k \in (p + 1)..m => k \in 1..m
      BY <1>1, <1>2
    <2> QED
      BY <1>1, <1>3, <2>1, <2>2
  <1>6. LastIs(t, n)
    BY <1>4, <1>5, Zenon DEF LastIs
  <1> QED
    BY <1>6 DEF t

LEMMA LastFollows ==
    ASSUME NEW text \in Seq(Entry), NEW n \in 0..MaxSequence, LastIs(text, n)
    PROVE  Follows(text, Len(text) + 1, n + 1)
  <1>1. PICK p \in DOMAIN text : /\ text[p] = Rx(n)
                                 /\ \A k \in (p + 1)..Len(text) : text[k].type = "disconnect"
    BY DEF LastIs
  <1>2. Rx(n).type = "rx" /\ Rx(n).n = n
    BY EntryTypes
  <1>3. p \in 1..((Len(text) + 1) - 1) /\ (Len(text) + 1) - 1 = Len(text)
          /\ (n + 1) - n - 1 = 0
    BY RecordingAssumption
  <1> DEFINE B == {k \in (p + 1)..((Len(text) + 1) - 1) : text[k].type /= "disconnect"}
  <1>4. B = {}
    BY <1>1, <1>3
  <1>5. (n + 1) - text[p].n - 1 = 0 /\ text[p].type = "rx"
    BY <1>1, <1>2, <1>3
  <1> QED
    BY <1>3, <1>4, <1>5, Zenon DEF Follows

LEMMA GapFollows ==
    ASSUME NEW text \in Seq(Entry), NEW n \in 0..MaxSequence, LastIs(text, n),
           NEW m \in 0..MaxSequence, m > 0
    PROVE  Follows(Append(text, Gap(m)), Len(Append(text, Gap(m))) + 1, n + m + 1)
  <1> DEFINE t == Append(text, Gap(m))
             q == Len(text) + 1
  <1>0. Gap(m) \in Entry /\ Gap(m).type = "gap"
    BY EntryTypes
  <1>1. PICK p \in DOMAIN text : /\ text[p] = Rx(n)
                                 /\ \A k \in (p + 1)..Len(text) : text[k].type = "disconnect"
    BY DEF LastIs
  <1>2. Rx(n).type = "rx" /\ Rx(n).n = n
    BY EntryTypes
  <1>3. /\ Len(t) = q /\ DOMAIN t = 1..q /\ t[q] = Gap(m) /\ q - 1 \in Nat /\ q \in Nat
        /\ DOMAIN text = 1..(q - 1) /\ \A k \in 1..(q - 1) : t[k] = text[k]
        /\ Len(text) = q - 1
    BY <1>0, AppendElements
  <1>4. \A k \in (p + 1)..(q - 1) : text[k].type = "disconnect"
    BY <1>1, <1>3
  <1> HIDE DEF t, q
  <1>5. p \in 1..(q - 1) /\ t[p] = Rx(n)
    BY <1>1, <1>3
  <1> DEFINE B == {k \in (p + 1)..((Len(t) + 1) - 1) : t[k].type /= "disconnect"}
  <1>6. (Len(t) + 1) - 1 = q /\ p \in 1..((Len(t) + 1) - 1) /\ q \in (p + 1)..q
    BY <1>3, <1>5
  <1>7. \A k \in (p + 1)..q : k \in B <=> k = q
    <2>1. ASSUME NEW k \in (p + 1)..q, k /= q PROVE t[k].type = "disconnect"
      <3>1. k \in (p + 1)..(q - 1) /\ k \in 1..(q - 1)
        BY <1>3, <1>5, <2>1
      <3> QED
        BY <1>3, <1>4, <3>1
    <2>2. t[q].type /= "disconnect"
      BY <1>0, <1>3
    <2> QED
      BY <1>6, <2>1, <2>2
  <1>8. B = {q} /\ q \in B
    <2>1. B \subseteq (p + 1)..q
      BY <1>6
    <2> HIDE DEF B
    <2> QED
      BY <1>6, <1>7, <2>1
  <1>9. t[p].type = "rx" /\ (n + m + 1) - t[p].n - 1 = m /\ m /= 0
    BY <1>2, <1>5, RecordingAssumption
  <1>10. Follows(t, Len(t) + 1, n + m + 1)
    BY <1>3, <1>6, <1>8, <1>9, Zenon DEF Follows
  <1> QED
    BY <1>10 DEF t

LEMMA FollowsKept ==
    ASSUME NEW text \in Seq(Entry), NEW n, Follows(text, Len(text) + 1, n),
                 NEW e \in Entry,
           e.type = "disconnect"
    PROVE  Follows(Append(text, e), Len(Append(text, e)) + 1, n)
  <1> DEFINE t == Append(text, e)
             m == Len(text)
             B(x, p, l) == {k \in (p + 1)..((l + 1) - 1) : x[k].type /= "disconnect"}
             D(x, p) == n - x[p].n - 1
             F(x, p, l) == /\ x[p].type = "rx"
                           /\ IF D(x, p) = 0 THEN B(x, p, l) = {}
                              ELSE \E k \in B(x, p, l) : B(x, p, l) = {k}
                                /\ x[k] = Gap(D(x, p))
  <1>1. /\ Len(t) = m + 1 /\ DOMAIN t = 1..(m + 1) /\ t[m + 1] = e /\ m \in Nat
        /\ DOMAIN text = 1..m /\ \A k \in 1..m : t[k] = text[k]
    BY AppendElements
  <1>2. PICK p \in 1..((m + 1) - 1) : F(text, p, m)
    BY DEF Follows
  <1> HIDE DEF t, m
  <1>3. p \in 1..m /\ p \in 1..((Len(t) + 1) - 1) /\ t[p] = text[p]
    BY <1>1, <1>2
  <1>4. B(t, p, Len(t)) = B(text, p, m)
    <2>1. (m + 1) - 1 = m /\ (Len(t) + 1) - 1 = m + 1
      BY <1>1
    <2>2. \A k \in (p + 1)..(m + 1) : (k \in (p + 1)..m /\ t[k] = text[k])
            \/ t[k].type = "disconnect"
      BY <1>1, <1>3
    <2>3. \A k \in (p + 1)..m : k \in (p + 1)..(m + 1) /\ t[k] = text[k]
      BY <1>1, <1>3
    <2> QED
      BY <2>1, <2>2, <2>3
  <1>5. D(t, p) = D(text, p)
    BY <1>3
  <1>6. \A k \in B(text, p, m) : t[k] = text[k]
    BY <1>1, <1>3
  <1>7. F(t, p, Len(t))
    <2> HIDE DEF B, D
    <2> QED
      BY <1>2, <1>3, <1>4, <1>5, <1>6
  <1>8. Follows(t, Len(t) + 1, n)
    BY <1>3, <1>7, Zenon DEF Follows
  <1> QED
    BY <1>8 DEF t

(* What the worker holds fits what it has written.                         *)
LEMMA ExpectedStep ==
    ASSUME TypeOK, Ordered, Places, Announced, ~Failed => Expected, [Next]_vars
    PROVE  ~Failed' => Expected'
  <1> SUFFICES ASSUME ~Failed' PROVE Expected'
    OBVIOUS
  <1>1. ~Failed /\ Expected
    BY Lasting
  <1>2. /\ arrived \in Seq(1..MaxSequence) /\ Text \in Seq(Entry)
             /\ last \in 0..MaxSequence
        /\ MaxSequence \in Nat
    <2>1. arrived \in Seq(1..MaxSequence) /\ last \in 0..MaxSequence
            /\ MaxSequence \in Nat
      BY TypeParts DEF QueueTypes
    <2>2. Text \in Seq(Entry)
      BY Steps
    <2> QED
      BY <2>1, <2>2
  <1>3. last > 0 => arrived /= <<>>
    BY DEF Announced
  <1>4. CASE Rests
    BY <1>1, <1>4, Zenon DEF Rests, Expected
  <1>5. CASE Arrive /\ Text' = Text
    <2>1. UNCHANGED <<item, last>>
      BY <1>5, Zenon DEF Arrive, ingestion
    <2>2. CASE UNCHANGED <<events, arrived>>
      BY <1>1, <1>5, <2>1, <2>2, Zenon DEF Expected
    <2>3. CASE events' = Append(events, sequence')
                 /\ arrived' = Append(arrived, sequence')
      <3>1. sequence' \in 1..MaxSequence
        BY <1>5, TypeParts DEF Arrive, QueueTypes
      <3>2. events = arrived => events' = arrived'
        BY <2>3
      <3>3. last > 0 => arrived'[1] = arrived[1]
        <4>1. ASSUME arrived /= <<>> PROVE 1 \in 1..Len(arrived)
          BY <1>2, <4>1
        <4>2. \A i \in 1..Len(arrived) : arrived'[i] = arrived[i]
          BY <1>2, <2>3, <3>1, AppendElements
        <4> QED
          BY <1>3, <4>1, <4>2
      <3> QED
        BY <1>1, <1>5, <2>1, <3>2, <3>3, Zenon DEF Expected
    <2> QED
      BY <1>5, <2>2, <2>3 DEF Arrive
  <1>6. CASE WorkerGets /\ Text' = Text
    <2> DEFINE h == Head(events)
               m == h - last - 1
    <2>1. /\ worker = "get" /\ events /= <<>> /\ item' = Entries(h) /\ last' = h
          /\ arrived' = arrived
      BY <1>6, Zenon DEF WorkerGets, Worker
    <2>2. item = <<>>
      BY <2>1 DEF Places
    <2>3. h \in 1..MaxSequence /\ h = events[1] /\ last < h
      BY <2>1, GetTypes, TypeParts
    <2>4. item' = IF last = 0 \/ h = last + 1 THEN <<Rx(h)>> ELSE <<Gap(m), Rx(h)>>
      BY <2>1, Zenon DEF Entries
    <2>5. (last = 0 /\ events = arrived) \/ (last > 0 /\ LastIs(Text, last))
      <3>1. \A a : <<a>> /= <<>>
        OBVIOUS
      <3>2. \A a, b : <<a, b>> /= <<>>
        OBVIOUS
      <3> QED
        BY <1>1, <2>2, <3>1, <3>2, Zenon DEF Expected
    <2> HIDE DEF h
    <2>6. last' > 0
      BY <2>1, <2>3
    <2>7. CASE last = 0 /\ events = arrived
      <3>1. item' = <<Rx(last')>> /\ last' = arrived'[1]
        BY <2>1, <2>3, <2>4, <2>7
      <3> QED
        BY <2>6, <3>1, Zenon DEF Expected
    <2>8. CASE last > 0 /\ LastIs(Text, last) /\ h = last + 1
      <3>1. item' = <<Rx(last')>>
        BY <2>1, <2>4, <2>8
      <3>2. Follows(Text, Len(Text) + 1, last + 1)
        BY <1>2, <2>8, LastFollows
      <3>3. Follows(Text', Len(Text') + 1, last')
        BY <1>6, <2>1, <2>8, <3>2
      <3> QED
        BY <2>6, <3>1, <3>3, Zenon DEF Expected
    <2>9. CASE last > 0 /\ LastIs(Text, last) /\ h /= last + 1
      <3>1. item' = <<Gap(m), Rx(last')>>
        <4>1. last /= 0
          BY <1>2, <2>9
        <4> QED
          BY <2>1, <2>4, <2>9, <4>1
      <3>2. m \in 1..(last' - 2) /\ last' - m - 1 = last
        <4>1. /\ last' = h /\ last > 0 /\ h /= last + 1 /\ last < h
              /\ h \in 1..MaxSequence /\ last \in 0..MaxSequence /\ MaxSequence \in Nat
          BY <1>2, <2>1, <2>3, <2>9, Zenon
        <4>2. m \in 1..(h - 2) /\ h - m - 1 = last
          BY <4>1
        <4> QED
          BY <4>1, <4>2
      <3>3. LastIs(Text', last' - m - 1)
        BY <1>6, <2>9, <3>2
      <3> HIDE DEF m
      <3> QED
        BY <2>6, <3>1, <3>2, <3>3, Zenon DEF Expected
    <2> QED
      BY <2>5, <2>7, <2>8, <2>9
  <1>7. CASE WorkerWrites /\ Text' = Append(Text, Head(item))
    <2>1. worker = "write" /\ item' = Tail(item) /\ UNCHANGED <<events, arrived, last>>
      BY <1>7, Zenon DEF WorkerWrites, Worker, client
    <2>2. last \in 1..MaxSequence /\ last \in 0..MaxSequence /\ last > 0
      <3>1. last \in 1..MaxSequence
        BY <2>1, Writes
      <3> QED
        BY <1>2, <3>1
    <2>3. CASE Head(item) = Rx(last) /\ Tail(item) = <<>>
      <3>1. LastIs(Text', last)
        BY <1>2, <1>7, <2>2, <2>3, LastAppended
      <3>2. last' > 0 /\ item' = <<>> /\ LastIs(Text', last')
        BY <2>1, <2>2, <2>3, <3>1
      <3> QED
        BY <3>2, Zenon DEF Expected
    <2>4. ASSUME NEW m \in 1..(last - 2), Head(item) = Gap(m), Tail(item) = <<Rx(last)>>,
                 LastIs(Text, last - m - 1)
          PROVE  Expected'
      <3>1. /\ last - m - 1 \in 0..MaxSequence /\ m \in 0..MaxSequence /\ m > 0
            /\ (last - m - 1) + m + 1 = last
        BY <1>2, <2>2, <2>4
      <3>2. Follows(Append(Text, Gap(m)), Len(Append(Text, Gap(m))) + 1, (last - m - 1) + m + 1)
        BY <1>2, <2>4, <3>1, GapFollows
      <3>3. Follows(Text', Len(Text') + 1, last')
        BY <1>7, <2>1, <2>4, <3>1, <3>2
      <3>4. last' > 0 /\ item' = <<Rx(last')>>
        BY <2>1, <2>2, <2>4
      <3> QED
        BY <3>3, <3>4, Zenon DEF Expected
    <2> QED
      BY <2>1, <2>3, <2>4, Writes
  <1>8. ~WorkerFails
    BY DEF WorkerFails, Worker, OnFailure, Failed
  <1>9. CASE Disconnect /\ Text' = Append(Text, Ending)
    <2>1. UNCHANGED <<events, arrived, last, item>>
      BY <1>9, Zenon DEF Disconnect, client, ingestion
    <2>2. Ending \in Entry /\ Ending.type = "disconnect"
      BY EntryTypes, TypeParts
    <2>3. \A n : LastIs(Text, n) => LastIs(Text', n)
      BY <1>2, <1>9, <2>2, LastKept
    <2>4. \A n : Follows(Text, Len(Text) + 1, n) => Follows(Text', Len(Text') + 1, n)
      BY <1>2, <1>9, <2>2, FollowsKept
    <2> QED
      BY <1>1, <2>1, <2>3, <2>4, Zenon DEF Expected
  <1> QED
    BY <1>4, <1>5, <1>6, <1>7, <1>8, <1>9, Steps

(* The invariant holds when monitor() has started its worker.              *)
LEMMA Initial == Init => IInv
  <1> SUFFICES ASSUME Init PROVE IInv
    OBVIOUS
  <1>1. /\ sequence = 0 /\ events = <<>> /\ arrived = <<>> /\ drained = <<>>
             /\ item = <<>>
        /\ last = 0 /\ worker = "top" /\ main = "loop"
        /\ errors = FALSE /\ stop = FALSE /\ raised = FALSE /\ discarded = FALSE
        /\ pc_queue_discards = 0 /\ reader = TRUE /\ closed = FALSE /\ failure = FALSE
        /\ lines = <<Metadata>> /\ buffer = <<>> /\ file_open = TRUE /\ failures = 0
    BY Zenon DEF Init, Created
  <1>2. Metadata \in Entry /\ Metadata.type = "metadata"
    BY EntryTypes
  <1>3. /\ lines \in Seq(Entry) /\ buffer \in Seq(Entry) /\ Len(buffer) = 0
        /\ Text = <<Metadata>> /\ Text = Append(<<>>, Metadata)
    <2>1. \A e \in Entry : /\ <<e>> \in Seq(Entry) /\ <<e>> \o <<>> = <<e>>
                          /\ Append(<<>>, e) = <<e>>
      OBVIOUS
    <2>2. <<>> \in Seq(Entry) /\ Len(<<>>) = 0
      OBVIOUS
    <2> QED
      BY <1>1, <1>2, <2>1, <2>2 DEF Text
  <1>4. TypeOK
    <2>1. QueueTypes
      <3>1. /\ <<>> \in Seq(1..MaxSequence) /\ Len(<<>>) = 0
        OBVIOUS
      <3> QED
        BY <1>1, <3>1, RecordingAssumption DEF QueueTypes
    <2>2. FlagTypes
      <3>1. /\ reader \in BOOLEAN /\ closed \in BOOLEAN /\ failure \in BOOLEAN
            /\ discarded \in BOOLEAN /\ errors \in BOOLEAN /\ stop \in BOOLEAN
            /\ raised \in BOOLEAN /\ file_open \in BOOLEAN
        BY <1>1, Zenon
      <3>2. pc_queue_discards \in {0, 1} /\ failures \in 0..2
        BY <1>1
      <3>3. /\ worker \in {"top", "get", "empty", "write", "raise", "close", "join", "end"}
            /\ main \in {"loop", "ask", "asked", "drain", "stop", "join", "check",
                        "ask_again", "asked_again", "disconnect", "close", "exit"}
        BY <1>1
      <3> QED
        BY <3>1, <3>2, <3>3, Zenon DEF FlagTypes
    <2>3. ItemTypes
      <3>1. <<>> \in Seq(Entry)
        OBVIOUS
      <3>2. Len(<<>>) <= 2
        OBVIOUS
      <3> QED
        BY <1>1, <3>1, <3>2, Zenon DEF ItemTypes
    <2>4. FileTypes
      <3>1. Len(<<>>) <= 2
        OBVIOUS
      <3> QED
        BY <1>1, <1>3, <3>1, Zenon DEF FileTypes
    <2> QED
      BY <2>1, <2>2, <2>3, <2>4, TypeParts, Zenon
  <1>5. Ordered
    <2>1. DOMAIN <<>> = {}
      OBVIOUS
    <2> QED
      BY <1>1, <2>1 DEF Ordered
  <1>6. Places
    BY <1>1 DEF Places
  <1>7. Whole
    <2>1. <<>> \in Seq(Entry) /\ <<>> \in Seq(Nat)
      OBVIOUS
    <2>2. Numbers(Text) = <<>> /\ Numbers(item) = <<>>
      BY <1>1, <1>2, <1>3, <2>1, NumbersAppend, NumbersEmpty
    <2>3. (<<>> \o <<>>) \o <<>> = <<>> /\ <<>> \o <<>> = <<>>
      OBVIOUS
    <2>4. IsPrefix(<<>>, <<>>)
      BY <2>1, PrefixReflexive
    <2> QED
      BY <1>1, <2>2, <2>3, <2>4 DEF Whole
  <1>8. \A i \in DOMAIN Text : Text[i].type = "metadata"
    <2>1. \A e : DOMAIN <<e>> = {1} /\ <<e>>[1] = e
      OBVIOUS
    <2> QED
      BY <1>2, <1>3, <2>1
  <1>9. Announced
    BY <1>1, <1>8 DEF Announced
  <1>10. Expected
    BY <1>1 DEF Expected
  <1>11. Ends /\ Ended
    BY <1>1, <1>8 DEF Ends, Ended
  <1>12. Failures
    BY <1>1, <1>3 DEF Failures, Failed
  <1> QED
    BY <1>4, <1>5, <1>6, <1>7, <1>9, <1>10, <1>11, <1>12 DEF IInv

(* Every step keeps the invariant.                                         *)
LEMMA Inductive == IInv /\ [Next]_vars => IInv'
  <1> SUFFICES ASSUME IInv, [Next]_vars PROVE IInv'
    OBVIOUS
  <1>1. /\ TypeOK /\ Ordered /\ Places /\ Whole /\ Announced /\ (~Failed => Expected)
        /\ Ends /\ Ended /\ Failures
    BY DEF IInv
  <1>2. TypeOK' /\ Ordered' /\ Places'
    BY <1>1, TypesStep, OrderedStep, PlacesStep
  <1>3. Whole' /\ Announced' /\ (~Failed' => Expected')
    BY <1>1, WholeStep, AnnouncedStep, ExpectedStep
  <1>4. Ends' /\ Ended' /\ Failures'
    BY <1>1, EndsStep, EndedStep, FailuresStep
  <1> QED
    BY <1>2, <1>3, <1>4, Zenon DEF IInv

(* The invariant holds always.                                             *)
LEMMA Invariance == Spec => []IInv
  BY Initial, Inductive, PTL DEF Spec

(* What the disk gives back is the beginning of the text. *)
LEMMA DiskBegins ==
    ASSUME TypeOK, NEW image \in Disk
    PROVE  \E n \in 0..Len(lines) :
             /\ image.lines = SubSeq(lines, 1, n) /\ image.lines = SubSeq(Text, 1, n)
             /\ Len(image.lines) = n /\ n <= Len(Text) /\ image.lines \in Seq(Entry)
             /\ \A i \in 1..n : image.lines[i] = Text[i]
             /\ read_recording(image).events = image.lines
             /\ Frames(image) = Numbers(image.lines)
  <1>1. PICK n \in 0..Len(lines), torn \in BOOLEAN : image = Image(n, torn)
    BY DEF Disk
  <1>2. image.lines = SubSeq(lines, 1, n)
    BY <1>1 DEF Image
  <1>3. lines \in Seq(Entry) /\ buffer \in Seq(Entry) /\ Len(lines) \in Nat
    BY TypeParts DEF FileTypes
  <1>4. Text \in Seq(Entry) /\ n \in 0..Len(Text)
          /\ \A i \in 1..Len(lines) : Text[i] = lines[i]
    BY <1>3 DEF Text
  <1> DEFINE r == SubSeq(lines, 1, n)
             t == SubSeq(Text, 1, n)
  <1>5. /\ r \in Seq(Entry) /\ Len(r) = n /\ \A i \in 1..n : r[i] = lines[i]
    BY <1>3
  <1>6. /\ t \in Seq(Entry) /\ Len(t) = n /\ \A i \in 1..n : t[i] = Text[i]
    BY <1>4
  <1>7. r = t
    <2>1. \A i \in 1..n : r[i] = t[i]
      BY <1>3, <1>4, <1>5, <1>6
    <2> HIDE DEF r, t
    <2> QED
      BY <1>5, <1>6, <2>1, SeqEqual
  <1> HIDE DEF r, t
  <1>8. read_recording(image).events = image.lines
    BY DEF read_recording
  <1>9. Frames(image) = Numbers(image.lines)
    BY <1>8 DEF Frames, export_csv, Numbers
  <1>10. image.lines = r /\ image.lines = SubSeq(Text, 1, n) /\ n <= Len(Text)
    BY <1>2, <1>4, <1>7 DEF r, t
  <1> QED
    BY <1>2, <1>5, <1>6, <1>7, <1>8, <1>9, <1>10

(* The invariant says all of the properties.                               *)
LEMMA BeginsFaithful == IInv => RecordsFaithful
  <1> SUFFICES ASSUME IInv, NEW image \in Disk
               PROVE  /\ IsPrefix(Frames(image), arrived)
                      /\ \A i \in DOMAIN read_recording(image).events :
                           LET records == read_recording(image).events
                           IN  records[i].type = "rx" =>
                                 \/ records[i].n = arrived[1]
                                 \/ Follows(records, i, records[i].n)
    BY Zenon DEF RecordsFaithful
  <1>1. TypeOK /\ Whole /\ Announced
    BY DEF IInv
  <1>2. PICK n \in 0..Len(lines) :
             /\ image.lines = SubSeq(lines, 1, n) /\ image.lines = SubSeq(Text, 1, n)
             /\ Len(image.lines) = n /\ n <= Len(Text) /\ image.lines \in Seq(Entry)
             /\ \A i \in 1..n : image.lines[i] = Text[i]
             /\ read_recording(image).events = image.lines
             /\ Frames(image) = Numbers(image.lines)
    BY <1>1, DiskBegins
  <1>3. /\ Text \in Seq(Entry) /\ n \in 0..Len(Text) /\ arrived \in Seq(Nat)
        /\ DOMAIN Text = 1..Len(Text)
    <2>1. lines \in Seq(Entry) /\ buffer \in Seq(Entry)
      BY <1>1, TypeParts DEF FileTypes
    <2>2. Text \in Seq(Entry)
      BY <2>1 DEF Text
    <2>3. arrived \in Seq(1..MaxSequence) /\ MaxSequence \in Nat
      BY <1>1, TypeParts DEF QueueTypes
    <2>4. n \in Nat /\ n <= Len(Text)
      BY <1>2, <2>1
    <2> QED
      BY <2>2, <2>3, <2>4, NatSequence
  <1>4. IsPrefix(Frames(image), arrived)
    <2>1. IsPrefix(Numbers(SubSeq(Text, 1, n)), Numbers(Text))
      BY <1>3, NumbersPrefix
    <2>2. IsPrefix(Numbers(image.lines), Numbers(Text))
      BY <1>2, <2>1
    <2>3. Numbers(image.lines) \in Seq(Nat) /\ Numbers(Text) \in Seq(Nat)
      BY <1>2, <1>3, NumbersType
    <2>4. IsPrefix(Numbers(Text), arrived)
      BY <1>1 DEF Whole
    <2> QED
      BY <1>2, <1>3, <2>2, <2>3, <2>4, PrefixTransitive
  <1>5. ASSUME NEW i \in DOMAIN image.lines, image.lines[i].type = "rx"
        PROVE  \/ image.lines[i].n = arrived[1]
               \/ Follows(image.lines, i, image.lines[i].n)
    <2>1. i \in 1..n /\ i \in Nat /\ i \in DOMAIN Text /\ image.lines[i] = Text[i]
      BY <1>2, <1>3, <1>5
    <2>2. Text[i].n = arrived[1] \/ Follows(Text, i, Text[i].n)
      BY <1>1, <1>5, <2>1 DEF Announced
    <2>3. \A k \in 1..(i - 1) : Text[k] = image.lines[k]
      BY <1>2, <2>1
    <2>4. Follows(Text, i, Text[i].n) => Follows(image.lines, i, Text[i].n)
      BY <2>1, <2>3, FollowsAgree
    <2> QED
      BY <2>1, <2>2, <2>4
  <1> QED
    BY <1>2, <1>4, <1>5

LEMMA SuccessShown == IInv => LossIsShown
  <1> SUFFICES ASSUME IInv, Success
               PROVE  /\ failures = 0
                      /\ discarded => LET ending == Last(lines) IN ending.reason
                           \/ ending.n > 0
    BY Zenon DEF LossIsShown
  <1>1. main = "exit" /\ ~raised
    BY DEF Success
  <1>2. ~Failed
    BY <1>1 DEF IInv, Ends, Failed
  <1>3. failures = 0
    <2>1. failures \in 0..2
      BY TypeParts DEF IInv, FlagTypes
    <2> QED
      BY <1>1, <1>2, <2>1 DEF IInv, Failures
  <1>4. buffer = <<>> /\ (discarded => Text[Len(Text)].n = 1)
    BY <1>1 DEF IInv, Ended
  <1>5. lines \in Seq(Entry)
    BY TypeParts DEF IInv, FileTypes
  <1>6. Text = lines
    BY <1>4, <1>5 DEF Text
  <1>7. discarded => Last(lines).n = 1
    BY <1>4, <1>6 DEF Last
  <1>8. \A k : k = 1 => k > 0
    OBVIOUS
  <1> QED
    BY <1>3, <1>7, <1>8, Zenon

LEMMA SuccessWhole == IInv => SuccessIsComplete
  <1> SUFFICES ASSUME IInv, Success
               PROVE  /\ ~file_open /\ worker = "end"
                      /\ \A image \in Left : LooksWhole(image)
                      /\ \A image \in Disk :
                           LooksWhole(image) => IsPrefix(drained, Frames(image))
    BY Zenon DEF SuccessIsComplete
  <1>1. main = "exit" /\ ~raised
    BY DEF Success
  <1>2. worker = "end" /\ ~errors /\ ~Failed /\ item = <<>>
    BY <1>1 DEF IInv, Ends, Failed, Places
  <1>3. /\ Text /= <<>> /\ buffer = <<>> /\ ~file_open
        /\ Text[Len(Text)].type = "disconnect"
        /\ \A i \in 1..(Len(Text) - 1) : Text[i].type /= "disconnect"
    BY <1>1 DEF IInv, Ended
  <1>4. lines \in Seq(Entry) /\ Text = lines /\ TypeOK
    <2>1. lines \in Seq(Entry)
      BY TypeParts DEF IInv, FileTypes
    <2>2. Text = lines
      BY <1>3, <2>1 DEF Text
    <2> QED
      BY <2>1, <2>2 DEF IInv
  <1>5. /\ Len(lines) \in Nat \ {0} /\ lines /= <<>>
             /\ SubSeq(lines, 1, Len(lines)) = lines
    BY <1>3, <1>4
  <1>6. ASSUME NEW image \in Left PROVE LooksWhole(image)
    <2>1. image = Image(Len(lines), FALSE)
      BY <1>3, <1>6 DEF Left
    <2>2. image.lines = lines /\ image.torn = FALSE
      BY <1>5, <2>1 DEF Image
    <2>3. Last(lines).type = "disconnect"
      BY <1>3, <1>4 DEF Last
    <2> QED
      BY <1>5, <2>2, <2>3 DEF LooksWhole, read_recording, Rejects
  <1>7. ASSUME NEW image \in Disk, LooksWhole(image)
        PROVE  IsPrefix(drained, Frames(image))
    <2>1. PICK n \in 0..Len(lines) :
             /\ image.lines = SubSeq(lines, 1, n) /\ image.lines = SubSeq(Text, 1, n)
             /\ Len(image.lines) = n /\ n <= Len(Text) /\ image.lines \in Seq(Entry)
             /\ \A i \in 1..n : image.lines[i] = Text[i]
             /\ read_recording(image).events = image.lines
             /\ Frames(image) = Numbers(image.lines)
      BY <1>4, DiskBegins
    <2>2. image.lines /= <<>> /\ image.lines[Len(image.lines)].type = "disconnect"
      BY <1>7, <2>1 DEF LooksWhole, read_recording, Rejects, Last
    <2>3. n /= 0
      BY <2>1, <2>2
    <2>4. n \in 1..n /\ Text[n].type = "disconnect"
      BY <2>1, <2>2, <2>3
    <2>5. n = Len(lines)
      <3>1. n \in Nat /\ n <= Len(lines) /\ n >= 1 /\ Len(lines) \in Nat
        BY <1>5, <2>4
      <3>2. ASSUME n /= Len(lines) PROVE n \in 1..(Len(Text) - 1)
        BY <1>4, <3>1, <3>2
      <3> QED
        BY <1>3, <2>4, <3>2
    <2>6. Frames(image) = Numbers(Text)
      BY <1>4, <1>5, <2>1, <2>5
    <2>7. IsPrefix(drained, Numbers(Text) \o Numbers(item))
      BY <1>2 DEF IInv, Whole
    <2>8. Numbers(Text) \in Seq(Nat) /\ Numbers(item) = <<>>
      BY <1>2, <1>4, NumbersType, NumbersEmpty
    <2>9. Numbers(Text) \o <<>> = Numbers(Text)
      BY <2>8, ConcatEmpty
    <2> QED
      BY <2>6, <2>7, <2>8, <2>9
  <1> QED
    BY <1>2, <1>3, <1>6, <1>7

(* The state of a recording has its type.                                  *)
THEOREM TypeCorrect == Spec => []TypeOK
  <1>1. IInv => TypeOK
    BY DEF IInv
  <1> QED
    BY <1>1, Invariance, PTL

(* Whatever is left of the file, its frames are the first that arrived, in *)
(* their order, with a gap for each hole (recording.py:33 and 69,          *)
(* cli.py:193).                                                            *)
THEOREM FileIsFaithful == Spec => []RecordsFaithful
  BY Invariance, BeginsFaithful, PTL

(* A run that reports success leaves all that was queued when it saw the   *)
(* queue empty (cli.py:160 to 262).                                        *)
THEOREM SuccessHoldsAll == Spec => []SuccessIsComplete
  BY Invariance, SuccessWhole, PTL

(* A run that reports success had no failed write, and its last record     *)
(* shows                                                                   *)
(* the frames that did not fit in the queue (cli.py:258, client.py:72).    *)
THEOREM LossShows == Spec => []LossIsShown
  BY Invariance, SuccessShown, PTL

-----------------------------------------------------------------------------
(* The tables.  A frame has a key of any set K.                            *)
FrameSet(K) == [key : K, time : Nat]
RowSet(K) == [frame : FrameSet(K), count : Nat, interval : Int, relative : Int]
TableSet(K) == [trace : Seq(RowSet(K)), latest : Seq(RowSet(K)), first : Int]

(* What a row that is taken out leaves before and after its place.         *)
Skip(p, j) == IF j < p THEN j ELSE j + 1

(* The rows, with one more at the end, and without that of place p.        *)
Renewed(rows, table, p, row) ==
    /\ DOMAIN rows = 1..Len(table) /\ Len(rows) = Len(table)
    /\ \A j \in 1..Len(table) :
         rows[j] = IF j = Len(table) THEN row ELSE table[Skip(p, j)]

(* A row is taken out and another comes last.                              *)
LEMMA Removed ==
    ASSUME NEW S, NEW s \in Seq(S), NEW p \in 1..Len(s), NEW e \in S
    PROVE  /\ Append(RemoveAt(s, p), e) \in Seq(S)
           /\ Renewed(Append(RemoveAt(s, p), e), s, p, e)
  <1> DEFINE a == SubSeq(s, 1, p - 1)
             b == SubSeq(s, p + 1, Len(s))
             c == a \o b
             n == Len(s)
  <1>1. n \in Nat \ {0} /\ p \in Nat
    OBVIOUS
  <1>2. a \in Seq(S) /\ Len(a) = p - 1 /\ \A j \in 1..(p - 1) : a[j] = s[j]
    OBVIOUS
  <1>3. b \in Seq(S) /\ Len(b) = n - p /\ \A j \in 1..(n - p) : b[j] = s[p + j]
    OBVIOUS
  <1> HIDE DEF a, b
  <1>4. c \in Seq(S) /\ Len(c) = Len(a) + Len(b)
        /\ \A j \in 1..(Len(a) + Len(b)) : c[j] = IF j <= Len(a) THEN a[j] ELSE b[j - Len(a)]
    BY <1>2, <1>3, Concat
  <1> HIDE DEF c, n
  <1>5. Len(c) = n - 1 /\ Len(a) + Len(b) = n - 1
    BY <1>1, <1>2, <1>3, <1>4
  <1>6. ASSUME NEW j \in 1..(n - 1) PROVE c[j] = s[Skip(p, j)]
    <2>1. c[j] = IF j <= p - 1 THEN a[j] ELSE b[j - (p - 1)]
      BY <1>2, <1>4, <1>5, <1>6
    <2>2. CASE j < p
      BY <1>1, <1>2, <1>6, <2>1, <2>2 DEF Skip
    <2>3. CASE ~(j < p)
      <3>1. j - (p - 1) \in 1..(n - p) /\ p + (j - (p - 1)) = j + 1 /\ ~(j <= p - 1)
        BY <1>1, <1>6, <2>3
      <3> QED
        BY <1>3, <2>1, <2>3, <3>1 DEF Skip
    <2> QED
      BY <2>2, <2>3
  <1> DEFINE d == Append(c, e)
  <1>7. /\ d \in Seq(S) /\ Len(d) = Len(c) + 1 /\ DOMAIN d = 1..(Len(c) + 1)
        /\ \A j \in 1..Len(c) : d[j] = c[j]
        /\ d[Len(c) + 1] = e
    BY <1>4, AppendElements
  <1> HIDE DEF d
  <1>8. Len(d) = n /\ DOMAIN d = 1..n /\ d[n] = e /\ \A j \in 1..(n - 1) : d[j] = c[j]
    <2>1. Len(c) + 1 = n
      BY <1>1, <1>5
    <2> QED
      BY <1>5, <1>7, <2>1
  <1>9. \A j \in 1..n : d[j] = IF j = n THEN e ELSE s[Skip(p, j)]
    BY <1>1, <1>6, <1>8
  <1>10. d \in Seq(S) /\ Renewed(d, s, p, e)
    BY <1>7, <1>8, <1>9, Zenon DEF Renewed, n
  <1> QED
    BY <1>10, Zenon DEF a, b, c, d, n, RemoveAt

(* A row comes last and the first goes.                                    *)
LEMMA Shifted ==
    ASSUME NEW S, NEW s \in Seq(S), Len(s) > 0, NEW e \in S
    PROVE  /\ Tail(Append(s, e)) \in Seq(S)
           /\ Renewed(Tail(Append(s, e)), s, 1, e)
  <1> DEFINE c == Append(s, e)
             d == Tail(c)
             n == Len(s)
  <1>1. /\ c \in Seq(S) /\ n \in Nat /\ Len(c) = n + 1
        /\ \A j \in 1..n : c[j] = s[j]
        /\ c[n + 1] = e
    BY AppendElements
  <1> HIDE DEF c, n
  <1>2. c /= <<>>
    BY <1>1
  <1>3. /\ d \in Seq(S) /\ Len(d) = Len(c) - 1 /\ DOMAIN d = 1..(Len(c) - 1)
        /\ \A j \in 1..(Len(c) - 1) : d[j] = c[j + 1]
    BY <1>1, <1>2, HeadTail
  <1> HIDE DEF d
  <1>4. Len(c) - 1 = n /\ n > 0
    BY <1>1 DEF n
  <1>5. \A j \in 1..n : d[j] = IF j = n THEN e ELSE s[Skip(1, j)]
    <2>1. ASSUME NEW j \in 1..n, j /= n PROVE d[j] = s[Skip(1, j)]
      <3>1. Skip(1, j) = j + 1 /\ j + 1 \in 1..n
        BY <1>1, <2>1 DEF Skip
      <3> QED
        BY <1>1, <1>3, <1>4, <3>1
    <2>2. n \in 1..n => d[n] = e
      BY <1>1, <1>3, <1>4
    <2> QED
      BY <2>1, <2>2
  <1>6. d \in Seq(S) /\ Renewed(d, s, 1, e)
    BY <1>3, <1>4, <1>5, Zenon DEF Renewed, n
  <1> QED
    BY <1>6 DEF c, d

(* The place of a key that is known.                                       *)
LEMMA PlaceFound ==
    ASSUME NEW rows, NEW key, Has(rows, key)
    PROVE  Place(rows, key) \in DOMAIN rows /\ rows[Place(rows, key)].frame.key = key
  BY DEF Has, Place

(* add() keeps the types.                                                  *)
LEMMA RowType ==
    ASSUME NEW K, NEW frame \in FrameSet(K), NEW latest \in Seq(RowSet(K)), NEW first \in Int
    PROVE  Row(frame, latest, first) \in RowSet(K) /\ Row(frame, latest, first).frame = frame
  <1> DEFINE known == Has(latest, frame.key)
             p == Place(latest, frame.key)
             previous == latest[p]
             count == IF known THEN previous.count + 1 ELSE 1
             interval == IF known THEN frame.time - previous.frame.time ELSE None
  <1>1. known => previous.count \in Nat /\ previous.frame.time \in Nat
    <2>1. SUFFICES ASSUME known PROVE previous.count \in Nat /\ previous.frame.time \in Nat
      OBVIOUS
    <2>2. p \in DOMAIN latest
      BY <2>1, PlaceFound
    <2> HIDE DEF p
    <2>3. latest[p] \in RowSet(K)
      BY <2>2
    <2> QED
      BY <2>3 DEF RowSet, FrameSet
  <1>2. frame.time \in Nat
    BY DEF FrameSet
  <1> HIDE DEF known, previous
  <1>3. count \in Nat /\ interval \in Int /\ frame.time - first \in Int
    BY <1>1, <1>2 DEF None
  <1>4. Row(frame, latest, first) =
          [frame |-> frame, count |-> count, interval |-> interval,
           relative |-> frame.time - first]
    BY Zenon DEF Row, known, previous
  <1> HIDE DEF count, interval
  <1> QED
    BY <1>3, <1>4 DEF RowSet

LEMMA BoundedType ==
    ASSUME NEW S, NEW rows \in Seq(S) PROVE Bounded(rows) \in Seq(S)
  <1>1. CASE Len(rows) > Limit
    <2>1. rows /= <<>>
      BY <1>1, TablesAssumption
    <2> QED
      BY <1>1, <2>1, HeadTail DEF Bounded
  <1> QED
    BY <1>1 DEF Bounded

LEMMA PlacedType ==
    ASSUME NEW S, NEW rows \in Seq(S), NEW row \in S PROVE Placed(rows, row) \in Seq(S)
  <1>1. CASE Has(rows, row.frame.key)
    <2>1. Place(rows, row.frame.key) \in 1..Len(rows)
      BY <1>1, PlaceFound
    <2> QED
      BY <1>1, <2>1, Removed DEF Placed
  <1>2. CASE ~Has(rows, row.frame.key)
    BY <1>2, AppendElements DEF Placed
  <1> QED
    BY <1>1, <1>2

LEMMA AddType ==
    ASSUME NEW K, NEW monitor \in TableSet(K), NEW frame \in FrameSet(K)
    PROVE  add(monitor, frame) \in TableSet(K)
  <1> DEFINE first == IF monitor.first = None THEN frame.time ELSE monitor.first
             row == Row(frame, monitor.latest, first)
  <1>1. /\ monitor.trace \in Seq(RowSet(K)) /\ monitor.latest \in Seq(RowSet(K))
        /\ monitor.first \in Int
    BY DEF TableSet
  <1>2. first \in Int
    BY <1>1 DEF FrameSet
  <1> HIDE DEF first
  <1>3. row \in RowSet(K)
    BY <1>1, <1>2, RowType
  <1> HIDE DEF row
  <1>4. Append(monitor.trace, row) \in Seq(RowSet(K))
    BY <1>1, <1>3, AppendElements
  <1>5. /\ Bounded(Append(monitor.trace, row)) \in Seq(RowSet(K))
        /\ Bounded(Placed(monitor.latest, row)) \in Seq(RowSet(K))
    BY <1>1, <1>3, <1>4, BoundedType, PlacedType
  <1>6. add(monitor, frame) = [trace |-> Bounded(Append(monitor.trace, row)),
                               latest |-> Bounded(Placed(monitor.latest, row)),
                               first |-> first]
    BY Zenon DEF add, first, row
  <1> QED
    BY <1>2, <1>5, <1>6 DEF TableSet

(* The tables after each frame (model.py:115).                             *)
LEMMA TablesDefined ==
    ASSUME NEW K, NEW f \in Seq(FrameSet(K))
    PROVE  /\ Tables(f) \in [0..Len(f) -> TableSet(K)]
           /\ Tables(f)[0] = Empty
           /\ \A n \in 1..Len(f) : Tables(f)[n] = add(Tables(f)[n - 1], f[n])
  <1> DEFINE m == Len(f)
             SS == TableSet(K)
             none == Empty
             More(t, n) == add(t, f[n])
             F(t) == [n \in 0..m |-> IF n = 0 THEN none ELSE More(t[n - 1], n)]
  <1>1. none \in SS /\ m \in Nat /\ \A t \in SS, n \in 1..m : More(t, n) \in SS
    <2>1. none \in SS
      BY DEF Empty, TableSet, None
    <2>2. \A n \in 1..m : f[n] \in FrameSet(K)
      OBVIOUS
    <2>3. m \in Nat
      OBVIOUS
    <2> QED
      BY <2>1, <2>2, <2>3, AddType
  <1>2. Tables(f) = CHOOSE t : t = F(t)
    BY DEF Tables
  <1> SUFFICES /\ Tables(f) \in [0..m -> SS]
               /\ Tables(f)[0] = none
               /\ \A n \in 1..m : Tables(f)[n] = More(Tables(f)[n - 1], n)
    OBVIOUS
  <1> HIDE DEF none, SS, m, More
  <1> DEFINE step == [n \in Nat |-> [s \in SS |-> IF n \in 1..m THEN More(s, n) ELSE s]]
  <1>3. PICK t \in [0..m -> SS] :
               t[0] = none /\ \A n \in 1..m : t[n] = step[n][t[n - 1]]
    <2>1. step \in [Nat -> [SS -> SS]]
      BY <1>1
    <2> HIDE DEF step
    <2>2. none \in SS /\ m \in Nat
      BY <1>1
    <2>3. Iterated(SS, none, step, m)
      BY <2>1, <2>2, Recursion
    <2> QED
      BY <2>3 DEF Iterated
  <1>4. ASSUME NEW n \in 1..m PROVE t[n] = More(t[n - 1], n)
    <2>1. t[n - 1] \in SS /\ n \in Nat
      BY <1>1, <1>3
    <2>2. step[n][t[n - 1]] = More(t[n - 1], n)
      BY <2>1
    <2> QED
      BY <1>3, <2>2
  <1> HIDE DEF step
  <1>5. t = F(t)
    BY <1>1, <1>3, <1>4
  <1> HIDE DEF F
  <1>6. Tables(f) = F(Tables(f))
    BY <1>2, <1>5
  <1>7. SUFFICES ASSUME NEW r, r = F(r)
                 PROVE  /\ r \in [0..m -> SS] /\ r[0] = none
                        /\ \A n \in 1..m : r[n] = More(r[n - 1], n)
    BY <1>6
  <1>8. /\ DOMAIN r = 0..m /\ r[0] = none
        /\ \A n \in 1..m : r[n] = More(r[n - 1], n)
    BY <1>1, <1>7 DEF F
  <1> DEFINE T == {n \in Nat : n <= m => r[n] \in SS}
  <1>9. 0 \in T
    BY <1>1, <1>8
  <1>10. ASSUME NEW n \in Nat, n \in T PROVE n + 1 \in T
    BY <1>1, <1>8, <1>10
  <1> HIDE DEF T
  <1>11. Nat \subseteq T
    BY <1>9, <1>10, Induction
  <1>12. \A n \in 0..m : r[n] \in SS
    BY <1>1, <1>11 DEF T
  <1>13. r = [n \in 0..m |-> r[n]]
    BY <1>7 DEF F
  <1> QED
    BY <1>8, <1>12, <1>13

-----------------------------------------------------------------------------
(* The keys of the frames i to n.                                          *)
LEMMA KeysNext ==
    ASSUME NEW f, NEW n \in Nat, NEW i \in 1..(n + 1)
    PROVE  Keys(f, i, n + 1) = Keys(f, i, n) \cup {f[n + 1].key}
  <1>1. i..(n + 1) = (i..n) \cup {n + 1}
    OBVIOUS
  <1> QED
    BY <1>1, Zenon DEF Keys

LEMMA KeysNone == ASSUME NEW f, NEW n \in Nat PROVE Keys(f, n + 1, n) = {}
  <1>1. (n + 1)..n = {}
    OBVIOUS
  <1> QED
    BY <1>1, Zenon DEF Keys

LEMMA KeysOf ==
    ASSUME NEW f, NEW i \in Nat, NEW n \in Nat, NEW key
    PROVE  key \in Keys(f, i, n) <=> \E l \in i..n : f[l].key = key
  BY Zenon DEF Keys

LEMMA KeysWithin ==
    ASSUME NEW f, NEW i \in Nat, NEW j \in Nat, NEW m \in Nat, NEW n \in Nat, i <= j, m <= n
    PROVE  Keys(f, j, m) \subseteq Keys(f, i, n)
  <1>1. j..m \subseteq i..n
    OBVIOUS
  <1> QED
    BY <1>1, Zenon DEF Keys

LEMMA KeysFinite ==
    ASSUME NEW f, NEW i \in Nat \ {0}, NEW n \in Nat
    PROVE  IsFiniteSet(Keys(f, i, n)) /\ Cardinality(Keys(f, i, n)) \in Nat
  <1> DEFINE T == {m \in Nat : IsFiniteSet(Keys(f, i, m))}
  <1>1. ASSUME NEW m \in Nat, m < i PROVE Keys(f, i, m) = {}
    <2>1. i..m = {}
      BY <1>1
    <2> QED
      BY <2>1, Zenon DEF Keys
  <1>2. 0 \in T
    BY <1>1, FS_EmptySet
  <1>3. ASSUME NEW m \in Nat, m \in T PROVE m + 1 \in T
    <2>1. CASE i \in 1..(m + 1)
      BY <1>3, <2>1, KeysNext, FS_AddElement
    <2>2. CASE m + 1 < i
      BY <1>1, <2>2, FS_EmptySet
    <2> QED
      BY <2>1, <2>2
  <1> HIDE DEF T
  <1>4. n \in T
    BY <1>2, <1>3, Induction
  <1> QED
    BY <1>4, FS_CardinalityType DEF T

LEMMA KeysCount ==
    ASSUME NEW f, NEW n \in Nat, NEW i \in 1..(n + 1)
    PROVE  Cardinality(Keys(f, i, n + 1)) =
             IF f[n + 1].key \in Keys(f, i, n) THEN Cardinality(Keys(f, i, n))
             ELSE Cardinality(Keys(f, i, n)) + 1
  <1>1. IsFiniteSet(Keys(f, i, n))
    BY KeysFinite
  <1> QED
    BY <1>1, KeysNext, FS_AddElement

LEMMA KeysFewer ==
    ASSUME NEW f, NEW i \in Nat \ {0}, NEW j \in Nat \ {0}, NEW m \in Nat, NEW n \in Nat,
           i <= j, m <= n
    PROVE  Cardinality(Keys(f, j, m)) <= Cardinality(Keys(f, i, n))
  <1>1. Keys(f, j, m) \subseteq Keys(f, i, n)
    BY KeysWithin
  <1>2. IsFiniteSet(Keys(f, i, n))
    BY KeysFinite
  <1> QED
    BY <1>1, <1>2, FS_Subset

LEMMA LatestEarlier ==
    ASSUME NEW f, NEW n \in Nat, NEW i \in Latest(f, n), NEW m \in i..n
    PROVE  i \in Latest(f, m)
  <1>1. /\ i \in 1..n /\ f[i].key \notin Keys(f, i + 1, n)
        /\ Cardinality(Keys(f, i + 1, n)) < Limit
    BY DEF Latest
  <1>2. m \in Nat /\ i + 1 \in Nat \ {0} /\ m <= n /\ i \in 1..m
    BY <1>1
  <1>3. /\ Keys(f, i + 1, m) \subseteq Keys(f, i + 1, n)
        /\ Cardinality(Keys(f, i + 1, m)) <= Cardinality(Keys(f, i + 1, n))
        /\ Cardinality(Keys(f, i + 1, m)) \in Nat /\ Cardinality(Keys(f, i + 1, n)) \in Nat
    BY <1>2, KeysWithin, KeysFewer, KeysFinite
  <1>4. f[i].key \notin Keys(f, i + 1, m) /\ Cardinality(Keys(f, i + 1, m)) < Limit
    BY <1>1, <1>3, TablesAssumption
  <1> QED
    BY <1>2, <1>4 DEF Latest

(* If few keys came since, the last frame of each of them is known.        *)
LEMMA LastOf ==
    ASSUME NEW f, NEW n \in Nat, NEW i \in Nat \ {0}, NEW l \in i..n,
           Cardinality(Keys(f, i, n)) <= Limit
    PROVE  \E q \in Latest(f, n) : q >= l /\ f[q].key = f[l].key
  <1> DEFINE T == {x \in Nat : x <= n - l /\ f[n - x].key = f[l].key}
  <1>1. l \in Nat /\ n - l \in Nat /\ n - (n - l) = l
    OBVIOUS
  <1>2. n - l \in T
    BY <1>1
  <1>3. PICK x \in T : \A y \in T : x <= y
    <2>1. T \subseteq Nat /\ T /= {}
      BY <1>2
    <2> HIDE DEF T
    <2> QED
      BY <2>1, Least
  <1> DEFINE q == n - x
  <1>4. q \in l..n /\ f[q].key = f[l].key
    BY <1>1, <1>3
  <1>5. ASSUME NEW r \in (q + 1)..n PROVE f[r].key /= f[l].key
    <2>1. n - r \in Nat /\ n - (n - r) = r /\ n - r <= n - l /\ ~(x <= n - r)
      BY <1>1, <1>3, <1>4
    <2> QED
      BY <1>3, <2>1
  <1>6. q \in Nat /\ q + 1 \in Nat \ {0} /\ i <= q /\ q \in 1..n
    BY <1>1, <1>4
  <1> HIDE DEF q, T
  <1>7. f[q].key \notin Keys(f, q + 1, n)
    BY <1>4, <1>5, <1>6, KeysOf
  <1>8. Cardinality(Keys(f, q + 1, n)) < Limit
    <2>1. /\ IsFiniteSet(Keys(f, i, n)) /\ Cardinality(Keys(f, i, n)) \in Nat
          /\ Cardinality(Keys(f, q + 1, n)) \in Nat /\ IsFiniteSet(Keys(f, q + 1, n))
      BY <1>6, KeysFinite
    <2>2. Keys(f, q + 1, n) \cup {f[q].key} \subseteq Keys(f, i, n)
      <3>1. Keys(f, q + 1, n) \subseteq Keys(f, i, n)
        BY <1>6, KeysWithin
      <3>2. f[q].key \in Keys(f, i, n)
        BY <1>4, <1>6, KeysOf
      <3> QED
        BY <3>1, <3>2
    <2>3. Cardinality(Keys(f, q + 1, n) \cup {f[q].key}) = Cardinality(Keys(f, q + 1, n)) + 1
      BY <1>7, <2>1, FS_AddElement
    <2>4. Cardinality(Keys(f, q + 1, n) \cup {f[q].key}) <= Cardinality(Keys(f, i, n))
      BY <2>1, <2>2, FS_Subset
    <2> QED
      BY <2>1, <2>3, <2>4, TablesAssumption
  <1>9. q \in Latest(f, n)
    BY <1>6, <1>7, <1>8 DEF Latest
  <1> QED
    BY <1>1, <1>4, <1>9

(* What a row is counted with: nothing if the key is not known, else what  *)
(* the last row of the key was counted with, and that.                     *)
LEMMA BeforeNone ==
    ASSUME NEW f, NEW n \in Nat, ~Remembered(f, f[n + 1].key, n)
    PROVE  Before(f, n + 1) = {}
  <1>1. ASSUME NEW i \in Before(f, n + 1) PROVE FALSE
    <2>1. i \in 1..((n + 1) - 1) /\ \A m \in i..((n + 1) - 1) : Remembered(f, f[n + 1].key, m)
      BY <1>1 DEF Before
    <2>2. n \in i..((n + 1) - 1)
      BY <2>1
    <2> QED
      BY <2>1, <2>2
  <1> QED
    BY <1>1

LEMMA BeforeNext ==
    ASSUME NEW f, NEW n \in Nat, NEW i \in Latest(f, n), f[i].key = f[n + 1].key
    PROVE  Before(f, n + 1) = Before(f, i) \cup {i}
  <1> DEFINE key == f[n + 1].key
  <1>1. i \in 1..n /\ f[i].key \notin Keys(f, i + 1, n) /\ (n + 1) - 1 = n
    BY DEF Latest
  <1>2. ASSUME NEW m \in i..n PROVE Remembered(f, key, m)
    <2>1. i \in Latest(f, m)
      BY LatestEarlier
    <2> QED
      BY <2>1 DEF Remembered
  <1>3. Before(f, n + 1) =
          {x \in 1..n : f[x].key = key /\ \A m \in x..n : Remembered(f, key, m)}
    BY <1>1 DEF Before
  <1>4. Before(f, i) =
          {x \in 1..(i - 1) : f[x].key = key /\ \A m \in x..(i - 1) : Remembered(f, key, m)}
    BY DEF Before
  <1>5. i \in Before(f, n + 1)
    BY <1>1, <1>2, <1>3
  <1>6. ASSUME NEW x \in Before(f, i) PROVE x \in Before(f, n + 1)
    <2>1. x \in 1..(i - 1) /\ f[x].key = key /\ \A m \in x..(i - 1) : Remembered(f, key, m)
      BY <1>4, <1>6, Zenon
    <2>2. ASSUME NEW m \in x..n PROVE Remembered(f, key, m)
      <3>1. m \in x..(i - 1) \/ m \in i..n
        BY <1>1, <2>1
      <3> QED
        BY <1>2, <2>1, <3>1, Zenon
    <2>3. x \in 1..n
      BY <1>1, <2>1
    <2> QED
      BY <1>3, <2>1, <2>2, <2>3, Zenon
  <1>7. ASSUME NEW x \in Before(f, n + 1), x /= i PROVE x \in Before(f, i)
    <2>1. x \in 1..n /\ f[x].key = key /\ \A m \in x..n : Remembered(f, key, m)
      BY <1>3, <1>7, Zenon
    <2>2. x < i
      <3>1. SUFFICES ASSUME x \in (i + 1)..n PROVE FALSE
        BY <1>1, <1>7, <2>1
      <3>2. i + 1 \in Nat
        BY <1>1
      <3>3. key \in Keys(f, i + 1, n)
        BY <2>1, <3>1, <3>2, KeysOf
      <3> QED
        BY <1>1, <3>3
    <2>3. x \in 1..(i - 1) /\ x..(i - 1) \subseteq x..n
      BY <1>1, <2>1, <2>2
    <2> QED
      BY <1>4, <2>1, <2>3, Zenon
  <1> QED
    BY <1>5, <1>6, <1>7, Zenon

LEMMA BeforeFinite ==
    ASSUME NEW f, NEW i \in Nat
    PROVE  /\ IsFiniteSet(Before(f, i)) /\ Cardinality(Before(f, i)) \in Nat
           /\ Before(f, i) \subseteq 1..(i - 1)
  <1>1. Before(f, i) \subseteq 1..(i - 1)
    BY DEF Before
  <1>2. IsFiniteSet(1..(i - 1))
    BY FS_Interval
  <1> QED
    BY <1>1, <1>2, FS_Subset, FS_CardinalityType

(* The rows are of the frames that index gives, the last of their keys,    *)
(* and after each came the keys of the rows that follow.                   *)
InTable(f, n, rows, index) ==
    /\ index \in [1..Len(rows) -> 1..n]
    /\ \A j, k \in 1..Len(rows) : j < k => index[j] < index[k]
    /\ \A j \in 1..Len(rows) :
         /\ f[index[j]].key \notin Keys(f, index[j] + 1, n)
         /\ Cardinality(Keys(f, index[j] + 1, n)) = Len(rows) - j
         /\ rows[j] = RowOf(f, index[j])
    /\ \A i \in Latest(f, n) : \E j \in 1..Len(rows) : index[j] = i

LEMMA InLatest ==
    ASSUME NEW f, NEW n \in Nat, NEW rows, Len(rows) \in Nat, Len(rows) <= Limit,
           NEW index, InTable(f, n, rows, index), NEW j \in 1..Len(rows)
    PROVE  index[j] \in Latest(f, n)
  <1>1. /\ index[j] \in 1..n /\ f[index[j]].key \notin Keys(f, index[j] + 1, n)
        /\ Cardinality(Keys(f, index[j] + 1, n)) = Len(rows) - j
        /\ rows[j] = RowOf(f, index[j])
    BY Zenon DEF InTable
  <1>2. Cardinality(Keys(f, index[j] + 1, n)) < Limit
    BY <1>1, TablesAssumption
  <1> QED
    BY <1>1, <1>2, Zenon DEF Latest

LEMMA FrameOf ==
    ASSUME NEW f, NEW n, NEW rows, NEW index, InTable(f, n, rows, index),
           NEW j \in 1..Len(rows)
    PROVE  rows[j].frame = f[index[j]]
  <1>1. rows[j] = RowOf(f, index[j])
    BY Zenon DEF InTable
  <1> QED
    BY <1>1 DEF RowOf

LEMMA KnownKey ==
    ASSUME NEW f, NEW n \in Nat, NEW S, NEW rows \in Seq(S), Len(rows) <= Limit,
           NEW index, InTable(f, n, rows, index), NEW key
    PROVE  Has(rows, key) <=> Remembered(f, key, n)
  <1>1. DOMAIN rows = 1..Len(rows) /\ Len(rows) \in Nat
    OBVIOUS
  <1>2. ASSUME Has(rows, key) PROVE Remembered(f, key, n)
    <2>1. PICK j \in 1..Len(rows) : rows[j].frame.key = key
      BY <1>1, <1>2, Zenon DEF Has
    <2>2. index[j] \in Latest(f, n)
      BY <1>1, InLatest, Zenon
    <2>3. rows[j].frame = f[index[j]]
      BY FrameOf
    <2>4. f[index[j]].key = key
      BY <2>1, <2>3
    <2> QED
      BY <2>2, <2>4, Zenon DEF Remembered
  <1>3. ASSUME Remembered(f, key, n) PROVE Has(rows, key)
    <2>1. PICK i \in Latest(f, n) : f[i].key = key
      BY <1>3, Zenon DEF Remembered
    <2>2. PICK j \in 1..Len(rows) : index[j] = i
      BY Zenon DEF InTable
    <2>3. rows[j].frame = f[i]
      BY <2>2, FrameOf
    <2>4. rows[j].frame.key = key
      BY <2>1, <2>3
    <2> QED
      BY <1>1, <2>4, Zenon DEF Has
  <1> QED
    BY <1>2, <1>3

(* The row of the next frame is that of the history.                       *)
LEMMA RowNext ==
    ASSUME NEW K, NEW f \in Seq(FrameSet(K)), NEW n \in Nat, n < Len(f),
           NEW rows \in Seq(RowSet(K)), Len(rows) <= Limit,
           NEW index, InTable(f, n, rows, index)
    PROVE  Row(f[n + 1], rows, f[1].time) = RowOf(f, n + 1)
  <1> DEFINE e == f[n + 1]
             known == Has(rows, e.key)
             p == Place(rows, e.key)
             before == Before(f, n + 1)
             count == IF known THEN rows[p].count + 1 ELSE 1
             interval == IF known THEN e.time - rows[p].frame.time ELSE None
             since == IF before = {} THEN None ELSE e.time - f[Max(before)].time
  <1>1. /\ Row(e, rows, f[1].time) =
             [frame |-> e, count |-> count, interval |-> interval,
              relative |-> e.time - f[1].time]
        /\ RowOf(f, n + 1) =
             [frame |-> e, count |-> Cardinality(before) + 1, interval |-> since,
              relative |-> e.time - f[1].time]
    BY Zenon DEF Row, RowOf
  <1>2. known <=> Remembered(f, e.key, n)
    BY KnownKey
  <1> SUFFICES count = Cardinality(before) + 1 /\ interval = since
    <2> HIDE DEF known, p, before, count, interval, since
    <2> QED
      BY <1>1, Zenon
  <1>3. CASE ~known
    <2>1. before = {} /\ Cardinality(before) + 1 = 1
      <3>1. before = {}
        BY <1>2, <1>3, BeforeNone
      <3> HIDE DEF before
      <3>2. Cardinality(before) = 0
        BY <3>1, FS_EmptySet, Zenon
      <3> QED
        BY <3>1, <3>2
    <2> HIDE DEF known, before, e, p
    <2> QED
      BY <1>3, <2>1
  <1>4. CASE known
    <2>1. p \in 1..Len(rows) /\ rows[p].frame.key = e.key
      <3>1. DOMAIN rows = 1..Len(rows)
        OBVIOUS
      <3> QED
        BY <1>4, <3>1, PlaceFound, Zenon
    <2> DEFINE i == index[p]
    <2>2. i \in Latest(f, n) /\ rows[p].frame = f[i] /\ i \in 1..n /\ rows[p] = RowOf(f, i)
      <3> HIDE DEF p
      <3>0. Len(rows) \in Nat
        OBVIOUS
      <3>1. i \in Latest(f, n)
        BY <2>1, <3>0, InLatest, Zenon
      <3>2. rows[p].frame = f[i]
        BY <2>1, FrameOf
      <3> QED
        BY <2>1, <3>1, <3>2, Zenon DEF InTable
    <2>3. before = Before(f, i) \cup {i}
      <3> HIDE DEF i, p
      <3>1. f[i].key = f[n + 1].key
        BY <2>1, <2>2, Zenon DEF e
      <3> QED
        BY <2>2, <3>1, BeforeNext
    <2> HIDE DEF p, i, before, e, known
    <2>4. /\ IsFiniteSet(Before(f, i)) /\ Cardinality(Before(f, i)) \in Nat
          /\ Before(f, i) \subseteq 1..(i - 1)
      BY <2>2, BeforeFinite
    <2>5. Cardinality(before) = Cardinality(Before(f, i)) + 1
      <3>1. i \notin Before(f, i)
        BY <2>2, <2>4
      <3> QED
        BY <2>3, <2>4, <3>1, FS_AddElement
    <2>6. rows[p].count = Cardinality(Before(f, i)) + 1
      BY <2>2 DEF RowOf
    <2>7. Max(before) = i
      <3>1. i \in before /\ \A x \in before : i >= x
        BY <2>2, <2>3, <2>4
      <3>2. ASSUME NEW x \in before, \A y \in before : x >= y PROVE x = i
        <4>1. x >= i /\ i >= x /\ x \in Int /\ i \in Int
          BY <2>2, <2>3, <2>4, <3>1, <3>2
        <4> QED
          BY <4>1
      <3> QED
        BY <3>1, <3>2, Zenon DEF Max
    <2>8. before /= {}
      BY <2>3
    <2> QED
      BY <1>4, <2>2, <2>5, <2>6, <2>7, <2>8
  <1> QED
    BY <1>3, <1>4

(* A key that is not known has not come since the frame of any row.        *)
LEMMA Fresh ==
    ASSUME NEW f, NEW n \in Nat, NEW S, NEW rows \in Seq(S), Len(rows) <= Limit,
           NEW index, InTable(f, n, rows, index), NEW key, ~Remembered(f, key, n),
           NEW j \in 1..Len(rows)
    PROVE  key \notin Keys(f, index[j] + 1, n)
  <1>1. index[j] \in 1..n /\ Cardinality(Keys(f, index[j] + 1, n)) = Len(rows) - j
    BY Zenon DEF InTable
  <1>2. SUFFICES ASSUME key \in Keys(f, index[j] + 1, n) PROVE FALSE
    OBVIOUS
  <1>3. index[j] + 1 \in Nat \ {0}
    BY <1>1
  <1>4. PICK l \in (index[j] + 1)..n : f[l].key = key
    BY <1>2, <1>3, KeysOf
  <1>5. Cardinality(Keys(f, index[j] + 1, n)) <= Limit
    BY <1>1, TablesAssumption
  <1>6. \E q \in Latest(f, n) : q >= l /\ f[q].key = f[l].key
    BY <1>3, <1>5, LastOf
  <1> QED
    BY <1>4, <1>6, Zenon DEF Remembered

(* What the table has after the next frame, it had before, but for that.   *)
LEMMA LatestNext ==
    ASSUME NEW f, NEW n \in Nat, NEW i \in Latest(f, n + 1), i /= n + 1
    PROVE  /\ i \in Latest(f, n) /\ f[i].key /= f[n + 1].key
           /\ f[n + 1].key \notin Keys(f, i + 1, n)
                => Cardinality(Keys(f, i + 1, n)) + 1 < Limit
  <1>1. /\ i \in 1..(n + 1) /\ f[i].key \notin Keys(f, i + 1, n + 1)
        /\ Cardinality(Keys(f, i + 1, n + 1)) < Limit
    BY DEF Latest
  <1>2. i + 1 \in 1..(n + 1) /\ n \in i..(n + 1) /\ n + 1 \in Nat
    BY <1>1
  <1>3. i \in Latest(f, n)
    BY <1>2, LatestEarlier
  <1>4. f[n + 1].key \in Keys(f, i + 1, n + 1)
    <2>1. Keys(f, i + 1, n + 1) = Keys(f, i + 1, n) \cup {f[n + 1].key}
      BY <1>2, KeysNext
    <2> QED
      BY <2>1
  <1>6. Cardinality(Keys(f, i + 1, n + 1)) \in Nat /\ Limit \in Nat
    BY <1>2, KeysFinite, TablesAssumption
  <1>5. f[n + 1].key \notin Keys(f, i + 1, n)
          => Cardinality(Keys(f, i + 1, n + 1)) = Cardinality(Keys(f, i + 1, n)) + 1
    BY <1>2, KeysCount
  <1>7. f[i].key /= f[n + 1].key
    BY <1>1, <1>4
  <1> QED
    BY <1>1, <1>3, <1>5, <1>7, Zenon

Listed(f, n, rows) == \E index : InTable(f, n, rows, index)

(* The frame takes the place of the one before it with its key, or in a    *)
(* full table of the first; its row comes last.                            *)
LEMMA TakesPlace ==
    ASSUME NEW f, NEW n \in Nat, NEW S, NEW rows \in Seq(S), Len(rows) <= Limit,
           NEW index, InTable(f, n, rows, index), NEW p \in 1..Len(rows),
           NEW after, Renewed(after, rows, p, RowOf(f, n + 1)),
           \/ f[index[p]].key = f[n + 1].key
           \/ ~Remembered(f, f[n + 1].key, n) /\ p = 1 /\ Len(rows) = Limit
    PROVE  Listed(f, n + 1, after)
  <1> DEFINE key == f[n + 1].key
             m == Len(rows)
             next == [j \in 1..m |-> IF j = m THEN n + 1 ELSE index[Skip(p, j)]]
  <1>1. /\ m \in Nat \ {0} /\ m <= Limit
        /\ index \in [1..m -> 1..n]
        /\ \A j, k \in 1..m : j < k => index[j] < index[k]
        /\ \A j \in 1..m : /\ f[index[j]].key \notin Keys(f, index[j] + 1, n)
                           /\ Cardinality(Keys(f, index[j] + 1, n)) = m - j
                           /\ rows[j] = RowOf(f, index[j])
        /\ \A i \in Latest(f, n) : \E j \in 1..m : index[j] = i
    BY DEF InTable
  <1>2. /\ Len(after) = m
        /\ \A j \in 1..m : after[j] = IF j = m THEN RowOf(f, n + 1) ELSE rows[Skip(p, j)]
    BY Zenon DEF Renewed
  <1>3. \/ f[index[p]].key = key
        \/ (\A j \in 1..m : key \notin Keys(f, index[j] + 1, n)) /\ p = 1 /\ m = Limit
    BY Fresh
  <1>4. ASSUME f[index[p]].key /= key, NEW j \in 1..m PROVE f[index[j]].key /= key
    <2>1. ~Remembered(f, key, n)
      BY <1>4
    <2>2. index[j] \in Latest(f, n)
      BY <1>1, InLatest, Zenon
    <2> QED
      BY <2>1, <2>2, Zenon DEF Remembered
  <1> HIDE DEF m, key
  <1>5. ASSUME NEW j \in 1..m, j /= m
        PROVE  Skip(p, j) \in 1..m /\ Skip(p, j) /= p
    BY <1>1, <1>5 DEF Skip, m
  <1>6. ASSUME NEW j \in 1..m, j /= p
        PROVE  /\ f[index[j]].key /= key
               /\ j > p => key \notin Keys(f, index[j] + 1, n)
               /\ j < p => key \in Keys(f, index[j] + 1, n)
    <2>1. CASE f[index[p]].key = key
      <3>0. index[j] \in 1..n /\ index[p] \in 1..n /\ p \in 1..m
        BY <1>1 DEF m
      <3>1. CASE j > p
        <4>1. index[p] < index[j]
          BY <1>1, <3>0, <3>1
        <4>2. /\ index[p] + 1 \in Nat /\ index[j] + 1 \in Nat
              /\ index[p] + 1 <= index[j] + 1 /\ index[j] \in (index[p] + 1)..n
          BY <3>0, <4>1
        <4>3. key \notin Keys(f, index[p] + 1, n)
          BY <1>1, <2>1, <3>0, Zenon
        <4>4. Keys(f, index[j] + 1, n) \subseteq Keys(f, index[p] + 1, n)
          BY <4>2, KeysWithin
        <4>5. f[index[j]].key \in Keys(f, index[p] + 1, n)
          BY <4>2, KeysOf
        <4>6. ~(j < p)
          BY <3>1
        <4> QED
          BY <4>3, <4>4, <4>5, <4>6
      <3>2. CASE j < p
        <4>1. index[j] < index[p]
          BY <1>1, <3>0, <3>2
        <4>2. index[j] + 1 \in Nat /\ index[p] \in (index[j] + 1)..n
          BY <3>0, <4>1
        <4>3. key \in Keys(f, index[j] + 1, n)
          BY <2>1, <4>2, KeysOf
        <4>4. f[index[j]].key \notin Keys(f, index[j] + 1, n)
          BY <1>1, Zenon
        <4>5. ~(j > p)
          BY <3>2
        <4> QED
          BY <4>3, <4>4, <4>5
      <3> QED
        BY <1>6, <3>0, <3>1, <3>2
    <2>2. CASE f[index[p]].key /= key
      <3>1. p = 1 /\ key \notin Keys(f, index[j] + 1, n) /\ f[index[j]].key /= key
        BY <1>3, <1>4, <2>2
      <3> QED
        BY <3>1
    <2> QED
      BY <2>1, <2>2
  <1>7. ASSUME NEW j \in 1..m
        PROVE  /\ next[j] \in 1..(n + 1)
               /\ f[next[j]].key \notin Keys(f, next[j] + 1, n + 1)
               /\ Cardinality(Keys(f, next[j] + 1, n + 1)) = m - j
               /\ after[j] = RowOf(f, next[j])
    <2>1. CASE j = m
      <3>1. next[j] = n + 1 /\ after[j] = RowOf(f, n + 1) /\ m - j = 0 /\ n + 1 \in Nat
        BY <1>1, <1>2, <2>1
      <3>2. Keys(f, (n + 1) + 1, n + 1) = {}
        BY <3>1, KeysNone
      <3>3. Cardinality({}) = 0
        BY FS_EmptySet
      <3>4. n + 1 \in 1..(n + 1)
        OBVIOUS
      <3> HIDE DEF next
      <3> QED
        BY <3>1, <3>2, <3>3, <3>4
    <2>2. CASE j /= m
      <3> DEFINE q == Skip(p, j)
                 i == index[q]
      <3>1. q \in 1..m /\ q /= p
        BY <1>5, <2>2
      <3>2. next[j] = i /\ after[j] = rows[q]
        BY <1>2, <2>2
      <3>3. q = (IF j < p THEN j ELSE j + 1) /\ (j < p <=> q < p) /\ (~(j < p) <=> q > p)
        BY <1>1 DEF Skip, m
      <3> HIDE DEF q, next
      <3>4. /\ i \in 1..n /\ f[i].key \notin Keys(f, i + 1, n)
            /\ Cardinality(Keys(f, i + 1, n)) = m - q
            /\ rows[q] = RowOf(f, i)
        BY <1>1, <3>1
      <3>5. /\ f[i].key /= key /\ (q > p => key \notin Keys(f, i + 1, n))
            /\ (q < p => key \in Keys(f, i + 1, n))
        BY <1>6, <3>1
      <3> HIDE DEF i
      <3>6. /\ i + 1 \in 1..(n + 1) /\ Keys(f, i + 1, n + 1) = Keys(f, i + 1, n) \cup {key}
            /\ Cardinality(Keys(f, i + 1, n + 1)) =
                 IF key \in Keys(f, i + 1, n) THEN m - q ELSE (m - q) + 1
        <4>1. i + 1 \in 1..(n + 1)
          BY <3>4
        <4>2. Keys(f, i + 1, n + 1) = Keys(f, i + 1, n) \cup {key}
          BY <4>1, KeysNext DEF key
        <4>3. Cardinality(Keys(f, i + 1, n + 1)) =
                IF key \in Keys(f, i + 1, n) THEN Cardinality(Keys(f, i + 1, n))
                ELSE Cardinality(Keys(f, i + 1, n)) + 1
          BY <4>1, KeysCount DEF key
        <4>4. Cardinality(Keys(f, i + 1, n)) = m - q
          BY <3>4
        <4> QED
          BY <4>1, <4>2, <4>3, <4>4, Zenon
      <3>7. Cardinality(Keys(f, i + 1, n + 1)) = m - j
        <4>1. CASE j < p
          BY <3>3, <3>5, <3>6, <4>1
        <4>2. CASE ~(j < p)
          <5>1. Cardinality(Keys(f, i + 1, n + 1)) = (m - q) + 1 /\ q = j + 1
            BY <3>3, <3>5, <3>6, <4>2
          <5> QED
            BY <1>1, <5>1
        <4> QED
          BY <4>1, <4>2
      <3>8. f[i].key \notin Keys(f, i + 1, n + 1) /\ i \in 1..(n + 1)
        BY <3>4, <3>5, <3>6
      <3> QED
        BY <3>2, <3>4, <3>7, <3>8
    <2> QED
      BY <2>1, <2>2
  <1>8. ASSUME NEW j \in 1..m, NEW k \in 1..m, j < k PROVE next[j] < next[k]
    <2>1. j /= m /\ next[j] = index[Skip(p, j)]
      BY <1>1, <1>8
    <2>2. CASE k = m
      <3>1. next[k] = n + 1
        BY <2>2
      <3>2. index[Skip(p, j)] \in 1..n
        BY <1>1, <1>5, <2>1
      <3> HIDE DEF next
      <3> QED
        BY <2>1, <3>1, <3>2
    <2>3. CASE k /= m
      <3>1. next[k] = index[Skip(p, k)]
        BY <2>3
      <3>2. Skip(p, j) < Skip(p, k)
        BY <1>1, <1>8 DEF Skip, m
      <3>3. Skip(p, j) \in 1..m /\ Skip(p, k) \in 1..m
        BY <1>5, <2>1, <2>3
      <3> HIDE DEF next
      <3> QED
        BY <1>1, <2>1, <3>1, <3>2, <3>3
    <2> QED
      BY <2>2, <2>3
  <1>9. ASSUME NEW i \in Latest(f, n + 1) PROVE \E j \in 1..m : next[j] = i
    <2>1. CASE i = n + 1
      <3>1. m \in 1..m /\ next[m] = n + 1
        BY <1>1
      <3> QED
        BY <2>1, <3>1
    <2>2. CASE i /= n + 1
      <3>1. /\ i \in Latest(f, n) /\ f[i].key /= key
            /\ key \notin Keys(f, i + 1, n) => Cardinality(Keys(f, i + 1, n)) + 1 < Limit
        BY <2>2, LatestNext DEF key
      <3>2. PICK j \in 1..m : index[j] = i
        BY <1>1, <3>1
      <3>3. j /= p
        <4>1. SUFFICES ASSUME j = p PROVE FALSE
          OBVIOUS
        <4>2. key \notin Keys(f, i + 1, n) /\ p = 1 /\ m = Limit
          BY <1>3, <3>1, <3>2, <4>1
        <4>3. Cardinality(Keys(f, i + 1, n)) = m - 1
          BY <1>1, <3>2, <4>1, <4>2
        <4> QED
          BY <1>1, <3>1, <4>2, <4>3
      <3> DEFINE q == IF j < p THEN j ELSE j - 1
      <3>4. q \in 1..m /\ q /= m /\ Skip(p, q) = j
        BY <1>1, <3>3 DEF Skip, m
      <3>5. next[q] = i
        BY <3>2, <3>4
      <3> HIDE DEF q, next
      <3> QED
        BY <3>4, <3>5
    <2> QED
      BY <2>1, <2>2
  <1>10. next \in [1..m -> 1..(n + 1)]
    <2>1. next = [j \in 1..m |-> next[j]]
      OBVIOUS
    <2> HIDE DEF next
    <2> QED
      BY <1>7, <2>1
  <1> HIDE DEF next
  <1>11. InTable(f, n + 1, after, next)
    BY <1>2, <1>7, <1>8, <1>9, <1>10, Zenon DEF InTable
  <1> QED
    BY <1>11, Zenon DEF Listed

(* A frame of a key that is not known is added while there is room.        *)
LEMMA TakesLast ==
    ASSUME NEW f, NEW n \in Nat, NEW S, NEW rows \in Seq(S), Len(rows) < Limit,
           NEW index, InTable(f, n, rows, index), ~Remembered(f, f[n + 1].key, n),
           RowOf(f, n + 1) \in S
    PROVE  Listed(f, n + 1, Append(rows, RowOf(f, n + 1)))
  <1> DEFINE key == f[n + 1].key
             m == Len(rows)
             after == Append(rows, RowOf(f, n + 1))
             next == [j \in 1..(m + 1) |-> IF j = m + 1 THEN n + 1 ELSE index[j]]
  <1>1. /\ m \in Nat /\ m <= Limit
        /\ index \in [1..m -> 1..n]
        /\ \A j, k \in 1..m : j < k => index[j] < index[k]
        /\ \A j \in 1..m : /\ f[index[j]].key \notin Keys(f, index[j] + 1, n)
                           /\ Cardinality(Keys(f, index[j] + 1, n)) = m - j
                           /\ rows[j] = RowOf(f, index[j])
        /\ \A i \in Latest(f, n) : \E j \in 1..m : index[j] = i
    BY TablesAssumption DEF InTable
  <1>2. /\ Len(after) = m + 1 /\ after[m + 1] = RowOf(f, n + 1)
        /\ \A j \in 1..m : after[j] = rows[j]
    BY AppendElements
  <1>3. ASSUME NEW j \in 1..m
        PROVE  f[index[j]].key /= key /\ key \notin Keys(f, index[j] + 1, n)
    <2>1. index[j] \in Latest(f, n)
      BY <1>1, InLatest, Zenon
    <2>2. key \notin Keys(f, index[j] + 1, n)
      BY <1>1, Fresh
    <2> QED
      BY <2>1, <2>2, Zenon DEF Remembered
  <1> HIDE DEF m, key, after
  <1>4. ASSUME NEW j \in 1..(m + 1)
        PROVE  /\ next[j] \in 1..(n + 1)
               /\ f[next[j]].key \notin Keys(f, next[j] + 1, n + 1)
               /\ Cardinality(Keys(f, next[j] + 1, n + 1)) = (m + 1) - j
               /\ after[j] = RowOf(f, next[j])
    <2>1. CASE j = m + 1
      <3>1. /\ next[j] = n + 1 /\ after[j] = RowOf(f, n + 1) /\ (m + 1) - j = 0
            /\ n + 1 \in Nat
        BY <1>1, <1>2, <2>1
      <3>2. Keys(f, (n + 1) + 1, n + 1) = {}
        BY <3>1, KeysNone
      <3>3. Cardinality({}) = 0
        BY FS_EmptySet
      <3>4. n + 1 \in 1..(n + 1)
        OBVIOUS
      <3> HIDE DEF next
      <3> QED
        BY <3>1, <3>2, <3>3, <3>4
    <2>2. CASE j /= m + 1
      <3> DEFINE i == index[j]
      <3>1. j \in 1..m
        BY <1>1, <2>2
      <3>2. next[j] = i /\ after[j] = rows[j]
        BY <1>2, <2>2, <3>1
      <3> HIDE DEF next
      <3>4. /\ i \in 1..n /\ f[i].key \notin Keys(f, i + 1, n)
            /\ Cardinality(Keys(f, i + 1, n)) = m - j
            /\ rows[j] = RowOf(f, i)
        BY <1>1, <3>1
      <3>5. f[i].key /= key /\ key \notin Keys(f, i + 1, n)
        BY <1>3, <3>1
      <3> HIDE DEF i
      <3>6. /\ i + 1 \in 1..(n + 1) /\ Keys(f, i + 1, n + 1) = Keys(f, i + 1, n) \cup {key}
            /\ Cardinality(Keys(f, i + 1, n + 1)) = (m - j) + 1
        <4>1. i + 1 \in 1..(n + 1)
          BY <3>4
        <4>2. Keys(f, i + 1, n + 1) = Keys(f, i + 1, n) \cup {key}
          BY <4>1, KeysNext DEF key
        <4>3. Cardinality(Keys(f, i + 1, n + 1)) =
                IF key \in Keys(f, i + 1, n) THEN Cardinality(Keys(f, i + 1, n))
                ELSE Cardinality(Keys(f, i + 1, n)) + 1
          BY <4>1, KeysCount DEF key
        <4>4. Cardinality(Keys(f, i + 1, n)) = m - j
          BY <3>4
        <4> QED
          BY <3>5, <4>1, <4>2, <4>3, <4>4, Zenon
      <3>7. Cardinality(Keys(f, i + 1, n + 1)) = (m + 1) - j
        BY <1>1, <3>1, <3>6
      <3>8. f[i].key \notin Keys(f, i + 1, n + 1) /\ i \in 1..(n + 1)
        BY <3>4, <3>5, <3>6
      <3> QED
        BY <3>2, <3>4, <3>7, <3>8
    <2> QED
      BY <2>1, <2>2
  <1>5. ASSUME NEW j \in 1..(m + 1), NEW k \in 1..(m + 1), j < k PROVE next[j] < next[k]
    <2>1. j \in 1..m /\ next[j] = index[j] /\ index[j] \in 1..n
      BY <1>1, <1>5
    <2>2. CASE k = m + 1
      <3>1. next[k] = n + 1
        BY <2>2
      <3> HIDE DEF next
      <3> QED
        BY <2>1, <3>1
    <2>3. CASE k /= m + 1
      <3>1. next[k] = index[k] /\ k \in 1..m
        BY <1>1, <2>3
      <3> HIDE DEF next
      <3> QED
        BY <1>1, <1>5, <2>1, <3>1
    <2> QED
      BY <2>2, <2>3
  <1>6. ASSUME NEW i \in Latest(f, n + 1) PROVE \E j \in 1..(m + 1) : next[j] = i
    <2>1. CASE i = n + 1
      <3>1. m + 1 \in 1..(m + 1) /\ next[m + 1] = n + 1
        BY <1>1
      <3> HIDE DEF next
      <3> QED
        BY <2>1, <3>1
    <2>2. CASE i /= n + 1
      <3>1. i \in Latest(f, n)
        BY <2>2, LatestNext
      <3>2. PICK j \in 1..m : index[j] = i
        BY <1>1, <3>1
      <3>3. j \in 1..(m + 1) /\ j /= m + 1
        BY <1>1
      <3>4. next[j] = i
        BY <3>2, <3>3
      <3> HIDE DEF next
      <3> QED
        BY <3>3, <3>4
    <2> QED
      BY <2>1, <2>2
  <1>7. next \in [1..(m + 1) -> 1..(n + 1)]
    <2>1. next = [j \in 1..(m + 1) |-> next[j]]
      OBVIOUS
    <2> HIDE DEF next
    <2> QED
      BY <1>4, <2>1
  <1> HIDE DEF next
  <1>8. InTable(f, n + 1, after, next)
    BY <1>2, <1>4, <1>5, <1>6, <1>7, Zenon DEF InTable
  <1> QED
    BY <1>8, Zenon DEF Listed, after

(* The table of the latest after the next frame.                           *)
LEMMA LatestAdded ==
    ASSUME NEW f, NEW n \in Nat, NEW S, NEW rows \in Seq(S), Len(rows) <= Limit,
           Listed(f, n, rows), RowOf(f, n + 1) \in S
    PROVE  /\ Len(Bounded(Placed(rows, RowOf(f, n + 1)))) <= Limit
           /\ Listed(f, n + 1, Bounded(Placed(rows, RowOf(f, n + 1))))
  <1> DEFINE row == RowOf(f, n + 1)
             key == f[n + 1].key
             p == Place(rows, key)
  <1>1. PICK index : InTable(f, n, rows, index)
    BY DEF Listed
  <1>2. row.frame.key = key
    BY DEF RowOf
  <1>3. Has(rows, key) <=> Remembered(f, key, n)
    BY <1>1, KnownKey
  <1>4. Limit \in Nat \ {0} /\ Len(rows) \in Nat
    BY TablesAssumption
  <1> HIDE DEF row, key, p
  <1>5. CASE Has(rows, key)
    <2>1. p \in 1..Len(rows) /\ rows[p].frame.key = key
      <3>1. DOMAIN rows = 1..Len(rows)
        OBVIOUS
      <3> QED
        BY <1>5, <3>1, PlaceFound, Zenon DEF p
    <2> DEFINE after == Append(RemoveAt(rows, p), row)
    <2>2. Placed(rows, row) = after
      BY <1>2, <1>5, Zenon DEF Placed, p
    <2>3. after \in Seq(S) /\ Renewed(after, rows, p, row)
      BY <2>1, Removed DEF row
    <2> HIDE DEF after
    <2>4. f[index[p]].key = key
      <3>1. rows[p].frame = f[index[p]]
        BY <1>1, <2>1, FrameOf
      <3> QED
        BY <2>1, <3>1
    <2>5. Listed(f, n + 1, after)
      BY <1>1, <2>1, <2>3, <2>4, TakesPlace DEF row, key
    <2>6. Len(after) = Len(rows)
      BY <2>3 DEF Renewed
    <2>7. Bounded(after) = after
      BY <1>4, <2>6 DEF Bounded
    <2> QED
      BY <2>2, <2>5, <2>6, <2>7, Zenon DEF row
  <1>6. CASE ~Has(rows, key) /\ Len(rows) = Limit
    <2> DEFINE after == Tail(Append(rows, row))
    <2>1. Placed(rows, row) = Append(rows, row)
      BY <1>2, <1>6, Zenon DEF Placed
    <2>2. Len(Append(rows, row)) = Len(rows) + 1
      BY AppendElements DEF row
    <2>3. Bounded(Append(rows, row)) = after
      BY <1>4, <1>6, <2>2 DEF Bounded
    <2>4. after \in Seq(S) /\ Renewed(after, rows, 1, row)
      BY <1>4, <1>6, Shifted DEF row
    <2> HIDE DEF after
    <2>5. 1 \in 1..Len(rows)
      BY <1>4, <1>6
    <2>6. Listed(f, n + 1, after)
      BY <1>1, <1>3, <1>6, <2>4, <2>5, TakesPlace DEF row, key
    <2>7. Len(after) = Len(rows)
      BY <2>4 DEF Renewed
    <2> QED
      BY <2>1, <2>3, <2>6, <2>7, Zenon DEF row
  <1>7. CASE ~Has(rows, key) /\ Len(rows) < Limit
    <2> DEFINE after == Append(rows, row)
    <2>1. Placed(rows, row) = after
      BY <1>2, <1>7, Zenon DEF Placed
    <2>2. Len(after) = Len(rows) + 1
      BY AppendElements DEF row
    <2>3. Listed(f, n + 1, after)
      BY <1>1, <1>3, <1>7, TakesLast DEF row, key
    <2> HIDE DEF after
    <2>4. Len(after) <= Limit /\ Bounded(after) = after
      BY <1>4, <1>7, <2>2 DEF Bounded
    <2> QED
      BY <2>1, <2>3, <2>4, Zenon DEF row
  <1> QED
    BY <1>4, <1>5, <1>6, <1>7

(* The trace has the rows of the last frames.                              *)
Traced(f, n, trace) ==
    /\ Len(trace) = IF n <= Limit THEN n ELSE Limit
    /\ \A j \in 1..Len(trace) : trace[j] = RowOf(f, (n - Len(trace)) + j)

LEMMA TraceAdded ==
    ASSUME NEW f, NEW n \in Nat, NEW S, NEW trace \in Seq(S), Traced(f, n, trace),
           RowOf(f, n + 1) \in S
    PROVE  Traced(f, n + 1, Bounded(Append(trace, RowOf(f, n + 1))))
  <1> DEFINE row == RowOf(f, n + 1)
             m == Len(trace)
             longer == Append(trace, row)
             after == Bounded(longer)
  <1>1. /\ longer \in Seq(S) /\ m \in Nat /\ Len(longer) = m + 1
        /\ \A j \in 1..m : longer[j] = trace[j]
        /\ longer[m + 1] = row
    BY AppendElements
  <1>2. /\ m = (IF n <= Limit THEN n ELSE Limit)
        /\ \A j \in 1..m : trace[j] = RowOf(f, (n - m) + j)
        /\ Limit \in Nat \ {0}
    BY TablesAssumption DEF Traced
  <1> HIDE DEF m, longer, after
  <1>3. ASSUME NEW j \in 1..(m + 1) PROVE longer[j] = RowOf(f, (n - m) + j)
    <2>1. CASE j = m + 1
      <3>1. (n - m) + j = n + 1
        BY <1>1, <1>2, <2>1
      <3> QED
        BY <1>1, <2>1, <3>1
    <2>2. CASE j /= m + 1
      <3>1. j \in 1..m
        BY <1>1, <2>2
      <3> QED
        BY <1>1, <1>2, <3>1
    <2> QED
      BY <2>1, <2>2
  <1>4. CASE m + 1 <= Limit
    <2>1. after = longer
      BY <1>1, <1>2, <1>4 DEF after, Bounded
    <2>2. m = n /\ Len(after) = n + 1
      BY <1>1, <1>2, <1>4, <2>1
    <2>3. ASSUME NEW j \in 1..Len(after) PROVE after[j] = RowOf(f, ((n + 1) - Len(after)) + j)
      <3>1. j \in 1..(m + 1) /\ (n - m) + j = ((n + 1) - Len(after)) + j
        BY <2>2
      <3> QED
        BY <1>3, <2>1, <3>1
    <2>4. Len(after) = IF n + 1 <= Limit THEN n + 1 ELSE Limit
      BY <1>4, <2>2
    <2> QED
      BY <2>3, <2>4, Zenon DEF Traced, after, longer
  <1>5. CASE ~(m + 1 <= Limit)
    <2>1. after = Tail(longer) /\ m = Limit /\ Limit <= n
      BY <1>1, <1>2, <1>5 DEF after, Bounded
    <2>2. longer /= <<>>
      BY <1>1
    <2>3. /\ Len(after) = m /\ \A j \in 1..m : after[j] = longer[j + 1]
      <3>1. /\ Len(Tail(longer)) = Len(longer) - 1
            /\ \A i \in 1..(Len(longer) - 1) : Tail(longer)[i] = longer[i + 1]
        BY <1>1, <2>2, HeadTail
      <3>2. Len(longer) - 1 = m
        BY <1>1
      <3> QED
        BY <2>1, <3>1, <3>2
    <2>4. ASSUME NEW j \in 1..m PROVE after[j] = RowOf(f, ((n + 1) - m) + j)
      <3>1. j + 1 \in 1..(m + 1) /\ (n - m) + (j + 1) = ((n + 1) - m) + j
        BY <1>1
      <3> QED
        BY <1>3, <2>3, <3>1
    <2>5. m = IF n + 1 <= Limit THEN n + 1 ELSE Limit
      BY <1>1, <1>2, <2>1
    <2> QED
      BY <2>3, <2>4, <2>5, Zenon DEF Traced, after, longer
  <1> QED
    BY <1>4, <1>5

(* What the tables show after n frames.                                    *)
Shows(f, n, tables) ==
    /\ Traced(f, n, tables.trace)
    /\ Len(tables.latest) <= Limit /\ Listed(f, n, tables.latest)
    /\ tables.first = IF n = 0 THEN None ELSE f[1].time

LEMMA ShowsNext ==
    ASSUME NEW K, NEW f \in Seq(FrameSet(K)), NEW n \in Nat, n < Len(f),
           NEW tables \in TableSet(K), Shows(f, n, tables)
    PROVE  Shows(f, n + 1, add(tables, f[n + 1]))
  <1> DEFINE e == f[n + 1]
             first == IF tables.first = None THEN e.time ELSE tables.first
             row == Row(e, tables.latest, first)
             after == add(tables, e)
  <1>1. /\ tables.trace \in Seq(RowSet(K)) /\ tables.latest \in Seq(RowSet(K))
        /\ Len(tables.latest) <= Limit
    BY DEF TableSet, Shows
  <1>2. e \in FrameSet(K) /\ f[1] \in FrameSet(K) /\ n + 1 /= 0
    <2>1. n + 1 \in 1..Len(f) /\ 1 \in 1..Len(f)
      OBVIOUS
    <2>2. \A i \in 1..Len(f) : f[i] \in FrameSet(K)
      OBVIOUS
    <2> QED
      BY <2>1, <2>2
  <1>3. first = f[1].time /\ f[1].time \in Int
    <2>1. f[1].time \in Nat /\ None \notin Nat
      BY <1>2 DEF FrameSet, None
    <2>2. tables.first = IF n = 0 THEN None ELSE f[1].time
      BY Zenon DEF Shows
    <2>3. n = 0 => e = f[1]
      OBVIOUS
    <2> HIDE DEF e
    <2> QED
      BY <2>1, <2>2, <2>3
  <1> HIDE DEF first
  <1>4. row = RowOf(f, n + 1)
    <2>1. PICK index : InTable(f, n, tables.latest, index)
      BY Zenon DEF Shows, Listed
    <2> QED
      BY <1>1, <1>3, <2>1, RowNext
  <1>5. row \in RowSet(K) /\ row.frame = e
    BY <1>1, <1>2, <1>3, RowType
  <1>6. after = [trace |-> Bounded(Append(tables.trace, row)),
                 latest |-> Bounded(Placed(tables.latest, row)),
                 first |-> first]
    BY Zenon DEF add, first
  <1> HIDE DEF row, after, e
  <1>7. Traced(f, n + 1, after.trace)
    <2>1. Traced(f, n, tables.trace)
      BY Zenon DEF Shows
    <2>2. Traced(f, n + 1, Bounded(Append(tables.trace, RowOf(f, n + 1))))
      BY <1>1, <1>4, <1>5, <2>1, TraceAdded
    <2>3. after.trace = Bounded(Append(tables.trace, row))
      BY <1>6
    <2> QED
      BY <1>4, <2>2, <2>3, Zenon
  <1>8. Len(after.latest) <= Limit /\ Listed(f, n + 1, after.latest)
    <2>1. Listed(f, n, tables.latest)
      BY Zenon DEF Shows
    <2>2. /\ Len(Bounded(Placed(tables.latest, RowOf(f, n + 1)))) <= Limit
          /\ Listed(f, n + 1, Bounded(Placed(tables.latest, RowOf(f, n + 1))))
      BY <1>1, <1>4, <1>5, <2>1, LatestAdded
    <2>3. after.latest = Bounded(Placed(tables.latest, row))
      BY <1>6
    <2> QED
      BY <1>4, <2>2, <2>3, Zenon
  <1>9. after.first = f[1].time
    BY <1>3, <1>6
  <1> QED
    BY <1>2, <1>7, <1>8, <1>9, Zenon DEF Shows, after, e

LEMMA ShowsEmpty == ASSUME NEW f PROVE Shows(f, 0, Empty)
  <1>1. /\ Empty.trace = <<>> /\ Empty.latest = <<>> /\ Empty.first = None
        /\ Len(<<>>) = 0 /\ 1..0 = {} /\ 0 <= Limit
    BY TablesAssumption DEF Empty
  <1>2. Latest(f, 0) = {}
    BY <1>1, Zenon DEF Latest
  <1>3. Traced(f, 0, <<>>)
    <2>1. Len(<<>>) = IF 0 <= Limit THEN 0 ELSE Limit
      BY <1>1
    <2>2. 1..Len(<<>>) = {}
      BY <1>1
    <2> QED
      BY <2>1, <2>2, Zenon DEF Traced
  <1>4. <<>> \in [1..0 -> 1..0]
    BY <1>1
  <1>5. InTable(f, 0, <<>>, <<>>)
    BY <1>1, <1>2, <1>4, Zenon DEF InTable
  <1> QED
    BY <1>1, <1>3, <1>5, Zenon DEF Shows, Listed

LEMMA TablesShow ==
    ASSUME NEW K, NEW f \in Seq(FrameSet(K))
    PROVE  Shows(f, Len(f), Shown(f))
  <1> DEFINE t == Tables(f)
             T == {n \in Nat : n <= Len(f) => Shows(f, n, t[n])}
  <1>1. /\ t \in [0..Len(f) -> TableSet(K)] /\ t[0] = Empty /\ Len(f) \in Nat
        /\ \A n \in 1..Len(f) : t[n] = add(t[n - 1], f[n])
    BY TablesDefined
  <1> HIDE DEF t
  <1>2. 0 \in T
    BY <1>1, ShowsEmpty
  <1>3. ASSUME NEW n \in Nat, n \in T PROVE n + 1 \in T
    <2>1. SUFFICES ASSUME n + 1 <= Len(f) PROVE Shows(f, n + 1, t[n + 1])
      OBVIOUS
    <2>2. /\ n < Len(f) /\ n \in 0..Len(f) /\ n + 1 \in 1..Len(f) /\ (n + 1) - 1 = n
          /\ n <= Len(f)
      BY <1>1, <2>1
    <2>3. t[n] \in TableSet(K) /\ Shows(f, n, t[n]) /\ t[n + 1] = add(t[n], f[n + 1])
      BY <1>1, <1>3, <2>2
    <2>4. Shows(f, n + 1, add(t[n], f[n + 1]))
      BY <2>2, <2>3, ShowsNext
    <2> QED
      BY <2>3, <2>4
  <1> HIDE DEF T
  <1>4. Len(f) \in T
    BY <1>1, <1>2, <1>3, Induction
  <1> QED
    BY <1>1, <1>4 DEF T, t, Shown

(* What the tables show is what the history says they show.                *)
LEMMA ListsTrace ==
    ASSUME NEW f, NEW n \in Nat, NEW S, NEW trace \in Seq(S), Traced(f, n, trace)
    PROVE  Lists(trace, f, {i \in 1..n : i > n - Limit})
  <1> DEFINE m == Len(trace)
             kept == {i \in 1..n : i > n - Limit}
             index == [j \in 1..m |-> (n - m) + j]
  <1>1. /\ m = (IF n <= Limit THEN n ELSE Limit) /\ m \in Nat /\ DOMAIN trace = 1..m
        /\ \A j \in 1..m : trace[j] = RowOf(f, (n - m) + j)
        /\ Limit \in Nat \ {0}
    BY TablesAssumption DEF Traced
  <1> HIDE DEF m
  <1>2. m <= n /\ (m = n \/ m = Limit) /\ (n > Limit => m = Limit)
    BY <1>1
  <1>3. ASSUME NEW j \in 1..m PROVE (n - m) + j \in kept
    BY <1>1, <1>2
  <1>4. ASSUME NEW i \in kept PROVE i - (n - m) \in 1..m /\ (n - m) + (i - (n - m)) = i
    BY <1>1, <1>2
  <1> HIDE DEF kept
  <1>5. index \in [1..m -> kept] /\ \A j \in 1..m : index[j] = (n - m) + j
    BY <1>3
  <1> HIDE DEF index
  <1>6. \A i \in kept : \E k \in 1..m : index[k] = i
    BY <1>4, <1>5, Zenon
  <1>7. \A k, l \in 1..m : k < l => index[k] < index[l]
    BY <1>1, <1>5
  <1>8. \A k \in 1..m : trace[k] = RowOf(f, index[k])
    BY <1>1, <1>5, Zenon
  <1>9. Lists(trace, f, kept)
    <2>1. DOMAIN trace = 1..m
      BY <1>1
    <2>2. /\ index \in [DOMAIN trace -> kept]
          /\ \A i \in kept : \E k \in DOMAIN trace : index[k] = i
          /\ \A k, l \in DOMAIN trace : k < l => index[k] < index[l]
          /\ \A k \in DOMAIN trace : trace[k] = RowOf(f, index[k])
      BY <1>5, <1>6, <1>7, <1>8, <2>1
    <2> QED
      BY <2>2, Zenon DEF Lists
  <1> QED
    BY <1>9 DEF kept

LEMMA ListsLatest ==
    ASSUME NEW f, NEW n \in Nat, NEW S, NEW rows \in Seq(S), Len(rows) <= Limit,
           Listed(f, n, rows)
    PROVE  Lists(rows, f, Latest(f, n))
  <1>1. PICK index : InTable(f, n, rows, index)
    BY DEF Listed
  <1>2. DOMAIN rows = 1..Len(rows) /\ Len(rows) \in Nat
    OBVIOUS
  <1>3. \A j \in 1..Len(rows) : index[j] \in Latest(f, n)
    BY <1>1, <1>2, InLatest, Zenon
  <1>4. /\ index \in [1..Len(rows) -> 1..n]
        /\ \A j, k \in 1..Len(rows) : j < k => index[j] < index[k]
        /\ \A j \in 1..Len(rows) : rows[j] = RowOf(f, index[j])
        /\ \A i \in Latest(f, n) : \E j \in 1..Len(rows) : index[j] = i
    BY <1>1, Zenon DEF InTable
  <1>5. index \in [1..Len(rows) -> Latest(f, n)]
    BY <1>3, <1>4
  <1> QED
    BY <1>2, <1>4, <1>5, Zenon DEF Lists

(* Whatever the keys of the frames and whatever the limit, the tables      *)
(* after                                                                   *)
(* any frames are those that their whole history tells: the rows of the    *)
(* keys seen last, in their order, each counted from when its key was last *)
(* forgotten (model.py:115 to 135).                                        *)
THEOREM TablesAreHistory ==
    ASSUME NEW K, NEW f \in Seq([key : K, time : Nat])
    PROVE  History(Shown(f), f, Len(f))
  <1>1. f \in Seq(FrameSet(K)) /\ Len(f) \in Nat
    BY DEF FrameSet
  <1> DEFINE t == Shown(f)
             n == Len(f)
  <1>2. Shows(f, n, t)
    BY <1>1, TablesShow
  <1>3. t \in TableSet(K)
    <2>1. Tables(f) \in [0..Len(f) -> TableSet(K)]
      BY <1>1, TablesDefined
    <2>2. Len(f) \in 0..Len(f)
      BY <1>1
    <2> QED
      BY <2>1, <2>2 DEF Shown
  <1> HIDE DEF t
  <1>4. t.trace \in Seq(RowSet(K)) /\ t.latest \in Seq(RowSet(K))
    BY <1>3 DEF TableSet
  <1>5. /\ Traced(f, n, t.trace) /\ Len(t.latest) <= Limit /\ Listed(f, n, t.latest)
        /\ t.first = IF n = 0 THEN None ELSE f[1].time
    BY <1>2, Zenon DEF Shows
  <1>6. Lists(t.trace, f, {i \in 1..n : i > n - Limit})
    BY <1>1, <1>4, <1>5, ListsTrace
  <1>7. Lists(t.latest, f, Latest(f, n))
    BY <1>1, <1>4, <1>5, ListsLatest
  <1> QED
    BY <1>5, <1>6, <1>7, Zenon DEF History, t

LEMMA LatestShown == TypeOK => LatestFaithful
  <1> SUFFICES ASSUME TypeOK, NEW image \in Left,
                      NEW keys \in [DOMAIN Frames(image) -> 0..Limit]
               PROVE  LET numbers == Frames(image)
                          frames == [i \in DOMAIN numbers |->
                                       [key |-> keys[i], time |-> numbers[i]]]
                      IN  History(Shown(frames), frames, Len(frames))
    BY Zenon DEF LatestFaithful
  <1> DEFINE numbers == Frames(image)
             frames == [i \in DOMAIN numbers |-> [key |-> keys[i], time |-> numbers[i]]]
             K == 0..Limit
  <1>1. image \in Disk
    <2>1. lines \in Seq(Entry)
      BY TypeParts DEF FileTypes
    <2>2. Len(lines) \in 0..Len(lines)
      BY <2>1
    <2>3. {FALSE, buffer /= <<>>} \subseteq BOOLEAN
      OBVIOUS
    <2>4. PICK torn \in BOOLEAN : image = Image(Len(lines), torn)
      BY <2>3, Zenon DEF Left
    <2> QED
      BY <2>2, <2>4 DEF Disk
  <1>2. numbers \in Seq(Nat)
    <2>1. image.lines \in Seq(Entry) /\ numbers = Numbers(image.lines)
      BY <1>1, DiskBegins
    <2> QED
      BY <2>1, NumbersType
  <1> HIDE DEF numbers
  <1>3. Len(numbers) \in Nat /\ DOMAIN numbers = 1..Len(numbers)
        /\ \A i \in DOMAIN numbers : numbers[i] \in Nat /\ keys[i] \in K
    BY <1>2 DEF numbers
  <1> HIDE DEF K
  <1>4. frames \in Seq([key : K, time : Nat])
    BY <1>3
  <1> HIDE DEF frames
  <1>5. History(Shown(frames), frames, Len(frames))
    BY <1>4, TablesAreHistory
  <1> QED
    BY <1>5, Zenon DEF frames, numbers

(* So playback of whatever a run leaves shows its history (cli.py:338).    *)
THEOREM LatestOfHistory == Spec => []LatestFaithful
  <1>1. Spec => []TypeOK
    BY TypeCorrect
  <1>2. TypeOK => LatestFaithful
    BY LatestShown
  <1> QED
    BY <1>1, <1>2, PTL
=============================================================================
