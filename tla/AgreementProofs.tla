-------------------------- MODULE AgreementProofs --------------------------
(* What the PC and the device must agree on: the rules for frames and for  *)
(* the packets that carry them, which come whole through a stream that is  *)
(* cut anywhere (Wire); and the rules for the settings of the network,     *)
(* which are kept as they were asked for (Network).                        *)
EXTENDS Wire, Network, SequenceTheorems, TLAPS

(* The two sides compute the same length, and it is that of some data.     *)
LEMMA LengthBounds ==
    ASSUME NEW d \in 0..15
    PROVE  w_length(d) \in 0..64
  BY SMT DEF w_length

(* What tx_wire() encodes, the TX command of the device accepts, with the  *)
(* same values; and a legal frame that tx_wire() refuses would be refused  *)
(* there, too (protocol.py:136, main.c:96, capture.c:153).                 *)
THEOREM RequestsAgree ==
    ASSUME NEW f \in Frame, NEW interval \in Nat, NEW count \in Nat, Legal(f)
    PROVE  LET p == tx_wire(f, interval, count)
           IN  /\ Sendable(f, interval, count) <=> FormOk(p) /\ ValuesOk(p)
               /\ Decoded(Record(p)) = f
  <1> DEFINE p == tx_wire(f, interval, count)
             r == Record(p)
  <1>1. /\ p.interval = interval /\ p.count = count /\ p.reserved = 0
        /\ p.len = f.size /\ p.length = 16 + f.size
    BY SMT DEF tx_wire
  <1>2. /\ r.id = f.identifier /\ r.flags = f.flags /\ r.dlc = f.dlc
        /\ r.len = f.size /\ r.channel = 0
    BY SMT DEF tx_wire, Record
  <1>3. /\ f.flags \in SUBSET Flags /\ f.identifier \in Int /\ f.dlc \in 0..15
        /\ f.size \in Nat /\ f.channel = 0
    BY SMT DEF Frame, Legal
  <1>4. f.size <= 64
    <2>1. w_length(f.dlc) <= 64
      BY SMT, <1>3, LengthBounds
    <2>2. Smaller(f.dlc, 8) <= 64
      BY SMT, <1>3 DEF Smaller
    <2> QED BY <2>1, <2>2 DEF Legal
  <1>5. FormOk(p)
    BY SMT, <1>1, <1>3, <1>4 DEF FormOk
  <1>6. w_validate(r) <=> ~Has(f, "ESI") /\ (~Has(f, "FD") => f.dlc <= 8)
    BY SMT, <1>2, <1>3 DEF w_validate, Valid, Legal, Has
  <1>7. Sendable(f, interval, count) <=> ValuesOk(p)
    <2> DEFINE Schedule == /\ 1 <= count /\ count <= 10000 /\ interval <= 60000
                           /\ count > 1 => interval >= 10
    <2>1. Sendable(f, interval, count)
            <=> Schedule /\ ~Has(f, "ESI") /\ (~Has(f, "FD") => f.dlc <= 8)
      BY SMT DEF Sendable
    <2>2. w_validate(r) => (ValuesOk(p) <=> Schedule)
      BY SMT, <1>1 DEF ValuesOk
    <2>3. ValuesOk(p) => w_validate(r)
      BY SMT DEF ValuesOk
    <2> HIDE DEF Schedule
    <2> QED BY <1>6, <2>1, <2>2, <2>3
  <1>8. Decoded(r) = f
    BY SMT, <1>2, <1>3 DEF Decoded, Frame
  <1> QED BY <1>5, <1>7, <1>8

(* A frame that may be on a bus is decoded as what it was: the constructor *)
(* of the PC, which ends the recording when it raises, never does so       *)
(* (capture.c:34, protocol.py:94).                                         *)
THEOREM FramesDecode ==
    ASSUME NEW id \in Nat, NEW dlc \in Nat, NEW flags \in SUBSET Flags,
           OnBus(id, dlc, flags)
    PROVE  LET g == [id |-> id, dlc |-> dlc, flags |-> flags]
           IN  /\ Legal(Decoded(RxRecord(g)))
               /\ Valid(RxRecord(g))
  <1> DEFINE g == [id |-> id, dlc |-> dlc, flags |-> flags]
             r == RxRecord(g)
             f == Decoded(r)
  <1>1. /\ r.id = id /\ r.flags = flags /\ r.dlc = dlc /\ r.channel = 0
        /\ r.len = IF "RTR" \in flags THEN 0
                   ELSE IF "FD" \in flags THEN w_length(dlc) ELSE Smaller(dlc, 8)
    BY SMT DEF RxRecord
  <1>2. /\ f.identifier = id /\ f.flags = flags /\ f.dlc = dlc /\ f.channel = 0
        /\ f.size = r.len
    BY SMT, <1>1 DEF Decoded
  <1>3. Legal(f)
    BY SMT, <1>1, <1>2 DEF Legal, OnBus, Has
  <1>4. Valid(r)
    BY SMT, <1>1 DEF Valid, OnBus
  <1> QED BY <1>3, <1>4
-----------------------------------------------------------------------------
(* A stream s of the packets q, of which p were parsed: it has the bytes   *)
(* of those after them, all of them, each packet in one piece and one      *)
(* after the other.                                                        *)
Size(q, i) == W_HEADER + q[i].length
Ahead(p, q) == (p + 1)..Len(q)

FromPackets(s, p, q) ==
    \A n \in DOMAIN s : s[n][1] \in Ahead(p, q) /\ s[n][2] \in 1..Size(q, s[n][1])
AllThere(s, p, q) ==
    \A i \in Ahead(p, q) : \A k \in 1..Size(q, i) : \E n \in DOMAIN s : s[n] = <<i, k>>
InOnePiece(s) ==
    \A m, n \in DOMAIN s : s[m][1] = s[n][1] => s[n][2] - s[m][2] = n - m
OneByOne(s, q) ==
    \A n \in DOMAIN s :
      n > 1 /\ s[n][2] = 1 => s[n - 1] = <<s[n][1] - 1, Size(q, s[n][1] - 1)>>
Ends(s, p, q) ==
    s /= <<>> => s[1] = <<p + 1, 1>> /\ s[Len(s)] = <<Len(q), Size(q, Len(q))>>

Streamed(s, p, q) ==
    /\ FromPackets(s, p, q) /\ AllThere(s, p, q) /\ InOnePiece(s)
    /\ OneByOne(s, q) /\ Ends(s, p, q)

Stream == buffer \o line
Octet == Nat \X Nat
Packets == IF side = "device" THEN Requests ELSE Batches
Types ==
    /\ side \in {"device", "pc"}
    /\ sent \in Seq(Packets) /\ parsed \in Seq({p.means : p \in Packets})
    /\ buffer \in Seq(Octet) /\ line \in Seq(Octet)
    /\ age \in Nat /\ spent \in 0..Turn /\ waited \in Nat
    /\ Len(parsed) <= Len(sent)

(* The receiver takes nothing in before it has looked at what it has.      *)
Looked ==
    phase = "poll" =>
      /\ Len(buffer) >= W_HEADER =>
           LET next == sent[Len(parsed) + 1]
           IN  next.length <= W_MAX /\ Len(buffer) < W_HEADER + next.length
      /\ side = "device" /\ buffer /= <<>> => age <= Limit

Stops ==
    /\ phase = "invalid" =>
         /\ Len(parsed) < Len(sent)
         /\ LET next == sent[Len(parsed) + 1] IN ~next.header \/ next.length > W_MAX
    /\ phase = "expired" => age > Limit

Understanding == \A i \in DOMAIN parsed : sent[i].header /\ parsed[i] = sent[i].means

(* partial_since is at most a turn later than the first byte; since the    *)
(* last look at it a turn has passed.                                      *)
Timely ==
    /\ age <= waited /\ waited <= age + Turn
    /\ side = "device" => age <= Limit + Turn

(* The server acts upon a packet before it looks at the next, the reader   *)
(* once it has looked at all.                                              *)
ActedUpon == side = "device" \/ phase = "poll" => given = Len(parsed)

WireInv ==
    /\ Types /\ Streamed(Stream, Len(parsed), sent)
    /\ Looked /\ Stops /\ Understanding /\ Timely /\ ActedUpon
-----------------------------------------------------------------------------
Sizes(q) == /\ Len(q) \in Nat
            /\ \A i \in 1..Len(q) : Size(q, i) \in Nat \ {0}

(* The stream begins with the first packet that was not parsed.            *)
LEMMA FirstOne ==
    ASSUME NEW s \in Seq(Octet), NEW p \in Nat, NEW q, Sizes(q), Streamed(s, p, q),
           s /= <<>>
    PROVE  /\ p + 1 \in 1..Len(q) /\ Size(q, p + 1) \in 1..Len(s)
           /\ \A k \in 1..Size(q, p + 1) : s[k] = <<p + 1, k>>
           /\ \A n \in DOMAIN s : n > Size(q, p + 1) => s[n][1] > p + 1
  <1> DEFINE z == Size(q, p + 1)
  <1>1. /\ Len(s) \in Nat \ {0} /\ DOMAIN s = 1..Len(s) /\ s[1] = <<p + 1, 1>>
        /\ \A n \in DOMAIN s : s[n][1] \in Nat /\ s[n][2] \in Nat
    <2>1. /\ Len(s) \in Nat \ {0} /\ DOMAIN s = 1..Len(s)
          /\ \A n \in DOMAIN s : s[n] \in Octet
      BY EmptySeq, LenProperties
    <2> QED BY <2>1 DEF Streamed, Ends, Octet
  <1>2. p + 1 \in Ahead(p, q) /\ 1 \in DOMAIN s
    BY <1>1 DEF Streamed, FromPackets
  <1>3. p + 1 \in 1..Len(q) /\ Len(q) \in Nat /\ z \in Nat \ {0}
    BY <1>2 DEF Ahead, Sizes
  <1> HIDE DEF z
  <1>4. ASSUME NEW k \in 1..z PROVE k \in DOMAIN s /\ s[k] = <<p + 1, k>>
    <2>1. PICK m \in DOMAIN s : s[m] = <<p + 1, k>>
      BY <1>2 DEF Streamed, AllThere, z
    <2>2. s[m][2] - s[1][2] = m - 1
      BY <1>1, <1>2, <2>1 DEF Streamed, InOnePiece
    <2>3. m = k
      BY <1>1, <1>3, <2>1, <2>2
    <2> QED BY <2>1, <2>3
  <1>5. z \in 1..Len(s)
    <2>1. z \in 1..z
      BY <1>3
    <2> QED BY <1>1, <1>3, <1>4, <2>1
  <1>6. ASSUME NEW n \in DOMAIN s, n > z PROVE s[n][1] > p + 1
    <2>1. s[n][1] \in Ahead(p, q) /\ s[n][2] \in 1..Size(q, s[n][1])
      BY DEF Streamed, FromPackets
    <2>2. CASE s[n][1] = p + 1
      <3>1. s[n][2] - s[1][2] = n - 1
        BY <1>1, <1>2, <2>2 DEF Streamed, InOnePiece
      <3>2. s[n][2] <= z
        BY <1>3, <2>1, <2>2 DEF z
      <3> QED BY <1>1, <1>3, <1>6, <3>1, <3>2
    <2> QED BY <1>3, <2>1, <2>2 DEF Ahead
  <1> QED BY <1>3, <1>4, <1>5, <1>6 DEF z

(* Without its first packet, it is a stream again. *)
LEMMA Shorter ==
    ASSUME NEW s \in Seq(Octet), NEW p \in Nat, NEW q, Sizes(q), Streamed(s, p, q),
           s /= <<>>, NEW t \in Seq(Octet), Len(t) = Len(s) - Size(q, p + 1),
           \A n \in 1..Len(t) : t[n] = s[n + Size(q, p + 1)]
    PROVE  Streamed(t, p + 1, q)
  <1> DEFINE z == Size(q, p + 1)
  <1>1. /\ p + 1 \in 1..Len(q) /\ z \in 1..Len(s) /\ z \in Nat \ {0} /\ Len(s) \in Nat
        /\ Len(q) \in Nat /\ Len(t) = Len(s) - z /\ Len(t) \in Nat
        /\ \A k \in 1..z : s[k] = <<p + 1, k>>
        /\ \A n \in DOMAIN s : n > z => s[n][1] > p + 1
        /\ \A n \in 1..Len(t) : t[n] = s[n + z]
        /\ DOMAIN s = 1..Len(s) /\ DOMAIN t = 1..Len(t)
    BY FirstOne, LenProperties DEF Sizes
  <1>2. \A n \in DOMAIN s : s[n][1] \in Nat /\ s[n][2] \in Nat
    <2>1. \A n \in DOMAIN s : s[n] \in Octet
      BY LenProperties
    <2> QED BY <2>1 DEF Octet
  <1>3. /\ FromPackets(s, p, q) /\ AllThere(s, p, q) /\ InOnePiece(s)
        /\ OneByOne(s, q) /\ Ends(s, p, q)
    BY DEF Streamed
  <1> HIDE DEF z
  <1>4. \A n \in DOMAIN t : n + z \in DOMAIN s /\ t[n] = s[n + z] /\ n + z > z
    BY <1>1
  <1>5. FromPackets(t, p + 1, q)
    <2> SUFFICES ASSUME NEW n \in DOMAIN t
                 PROVE  t[n][1] \in Ahead(p + 1, q) /\ t[n][2] \in 1..Size(q, t[n][1])
      BY DEF FromPackets
    <2>1. s[n + z][1] \in Ahead(p, q) /\ s[n + z][2] \in 1..Size(q, s[n + z][1])
      BY <1>3, <1>4 DEF FromPackets
    <2>2. s[n + z][1] > p + 1
      BY <1>1, <1>4
    <2> QED BY <1>1, <1>4, <2>1, <2>2 DEF Ahead
  <1>6. AllThere(t, p + 1, q)
    <2> SUFFICES ASSUME NEW i \in Ahead(p + 1, q), NEW k \in 1..Size(q, i)
                 PROVE  \E n \in DOMAIN t : t[n] = <<i, k>>
      BY DEF AllThere
    <2>1. i \in Ahead(p, q) /\ i > p + 1
      BY <1>1 DEF Ahead
    <2>2. PICK m \in DOMAIN s : s[m] = <<i, k>>
      BY <1>3, <2>1 DEF AllThere
    <2>3. m > z
      BY <1>1, <2>1, <2>2
    <2>4. m - z \in DOMAIN t /\ (m - z) + z = m
      BY <1>1, <2>3
    <2> QED BY <1>4, <2>2, <2>4
  <1>7. InOnePiece(t)
    <2> SUFFICES ASSUME NEW m \in DOMAIN t, NEW n \in DOMAIN t, t[m][1] = t[n][1]
                 PROVE  t[n][2] - t[m][2] = n - m
      BY DEF InOnePiece
    <2>1. s[n + z][2] - s[m + z][2] = (n + z) - (m + z)
      BY <1>3, <1>4 DEF InOnePiece
    <2>2. t[m] = s[m + z] /\ t[n] = s[n + z]
      BY <1>4
    <2>3. (n + z) - (m + z) = n - m
      BY <1>1
    <2> QED BY <2>1, <2>2, <2>3, Zenon
  <1>8. OneByOne(t, q)
    <2> SUFFICES ASSUME NEW n \in DOMAIN t, n > 1, t[n][2] = 1
                 PROVE  t[n - 1] = <<t[n][1] - 1, Size(q, t[n][1] - 1)>>
      BY DEF OneByOne
    <2>1. n - 1 \in DOMAIN t /\ (n - 1) + z = (n + z) - 1 /\ n + z > 1
      BY <1>1
    <2>2. s[(n + z) - 1] = <<s[n + z][1] - 1, Size(q, s[n + z][1] - 1)>>
      BY <1>3, <1>4, <2>1 DEF OneByOne
    <2> QED BY <1>4, <2>1, <2>2
  <1>9. Ends(t, p + 1, q)
    <2> SUFFICES ASSUME t /= <<>>
                 PROVE  /\ t[1] = <<(p + 1) + 1, 1>>
                        /\ t[Len(t)] = <<Len(q), Size(q, Len(q))>>
      BY DEF Ends
    <2>1. Len(t) > 0 /\ 1 \in DOMAIN t /\ Len(t) \in DOMAIN t /\ Len(t) + z = Len(s)
      BY <1>1, EmptySeq
    <2>2. s[z + 1][1] > p + 1 /\ z + 1 \in DOMAIN s /\ z \in DOMAIN s
            /\ s[z] = <<p + 1, z>>
      <3>1. z + 1 \in 1..Len(s) /\ z \in 1..Len(s) /\ z \in 1..z /\ z + 1 > z
        BY <1>1, <2>1
      <3> QED BY <1>1, <3>1
    <2>3. s[z + 1][1] \in Ahead(p, q)
      BY <1>3, <2>2 DEF FromPackets
    <2>4. (p + 1) + 1 \in Ahead(p, q) /\ (p + 1) + 1 \in 1..Len(q)
      BY <1>1, <2>2, <2>3 DEF Ahead
    <2>5. 1 \in 1..Size(q, (p + 1) + 1)
      BY <2>4 DEF Sizes
    <2>6. PICK m \in DOMAIN s : s[m] = <<(p + 1) + 1, 1>>
      BY <1>3, <2>4, <2>5 DEF AllThere
    <2>7. m > z
      BY <1>1, <2>6
    <2>8. m > 1 /\ m - 1 \in DOMAIN s /\ s[m][1] - 1 = p + 1
      BY <1>1, <2>6, <2>7
    <2>9. s[m - 1] = <<p + 1, z>>
      BY <1>3, <2>6, <2>8 DEF OneByOne, z
    <2>10. s[m - 1][2] - s[z][2] = (m - 1) - z
      BY <1>3, <2>2, <2>8, <2>9 DEF InOnePiece
    <2>11. m = 1 + z
      BY <1>1, <2>2, <2>8, <2>9, <2>10
    <2>12. t[1] = <<(p + 1) + 1, 1>>
      BY <1>4, <2>1, <2>6, <2>11
    <2>13. s[Len(s)] = <<Len(q), Size(q, Len(q))>>
      BY <1>3 DEF Ends
    <2> QED BY <1>4, <2>1, <2>12, <2>13
  <1> QED BY <1>5, <1>6, <1>7, <1>8, <1>9 DEF Streamed

(* With another packet, too. *)
LEMMA Longer ==
    ASSUME NEW s \in Seq(Octet), NEW p \in Nat, NEW q, Sizes(q), Streamed(s, p, q),
           p <= Len(q),
           NEW r, Len(r) = Len(q) + 1, \A i \in 1..Len(q) : Size(r, i) = Size(q, i),
           NEW z \in Nat \ {0}, z = Size(r, Len(r)),
           NEW t \in Seq(Octet), Len(t) = Len(s) + z,
           \A n \in 1..Len(s) : t[n] = s[n],
           \A k \in 1..z : t[Len(s) + k] = <<Len(q) + 1, k>>
    PROVE  Streamed(t, p, r) /\ Sizes(r)
  <1>1. /\ Len(s) \in Nat /\ Len(q) \in Nat /\ DOMAIN s = 1..Len(s)
        /\ DOMAIN t = 1..Len(t)
        /\ \A n \in DOMAIN s : s[n][1] \in Nat /\ s[n][2] \in Nat
    <2>1. /\ Len(s) \in Nat /\ DOMAIN s = 1..Len(s) /\ DOMAIN t = 1..Len(t)
          /\ \A n \in DOMAIN s : s[n] \in Octet
      BY LenProperties
    <2> QED BY <2>1 DEF Octet, Sizes
  <1>2. /\ FromPackets(s, p, q) /\ AllThere(s, p, q) /\ InOnePiece(s)
        /\ OneByOne(s, q) /\ Ends(s, p, q)
    BY DEF Streamed
  <1>3. /\ \A n \in DOMAIN s : n \in DOMAIN t /\ t[n] = s[n]
        /\ \A k \in 1..z : Len(s) + k \in DOMAIN t
                           /\ t[Len(s) + k] = <<Len(q) + 1, k>>
        /\ \A n \in DOMAIN t : n \in DOMAIN s \/ (n - Len(s) \in 1..z /\ n > Len(s)
                                                  /\ t[n] = <<Len(q) + 1, n - Len(s)>>)
    <2>1. \A n \in DOMAIN t : n \in DOMAIN s \/ (n - Len(s) \in 1..z /\ n > Len(s)
                                                  /\ Len(s) + (n - Len(s)) = n)
      BY <1>1
    <2>2. \A n \in DOMAIN s : n \in DOMAIN t
      BY <1>1
    <2>3. \A k \in 1..z : Len(s) + k \in DOMAIN t
      BY <1>1
    <2> QED BY <1>1, <2>1, <2>2, <2>3
  <1>4. /\ \A i \in Ahead(p, q) : i \in Ahead(p, r) /\ i \in 1..Len(q)
        /\ Len(r) \in Ahead(p, r)
        /\ \A i \in Ahead(p, r) : i \in Ahead(p, q) \/ i = Len(r)
    BY <1>1 DEF Ahead
  <1>5. \A n \in DOMAIN s : s[n][1] \in Ahead(p, q) /\ s[n][1] /= Len(r)
    <2>1. \A n \in DOMAIN s : s[n][1] \in Ahead(p, q)
      BY <1>2 DEF FromPackets
    <2> QED BY <1>1, <1>4, <2>1
  <1>6. FromPackets(t, p, r)
    <2> SUFFICES ASSUME NEW n \in DOMAIN t
                 PROVE  t[n][1] \in Ahead(p, r) /\ t[n][2] \in 1..Size(r, t[n][1])
      BY DEF FromPackets
    <2>1. CASE n \in DOMAIN s
      <3>1. s[n][1] \in Ahead(p, q) /\ s[n][2] \in 1..Size(q, s[n][1])
        BY <1>2, <2>1 DEF FromPackets
      <3> QED BY <1>3, <1>4, <2>1, <3>1
    <2>2. CASE n - Len(s) \in 1..z /\ t[n] = <<Len(q) + 1, n - Len(s)>>
      BY <1>4, <2>2
    <2> QED BY <1>3, <2>1, <2>2
  <1>7. AllThere(t, p, r)
    <2> SUFFICES ASSUME NEW i \in Ahead(p, r), NEW k \in 1..Size(r, i)
                 PROVE  \E n \in DOMAIN t : t[n] = <<i, k>>
      BY DEF AllThere
    <2>1. CASE i \in Ahead(p, q)
      <3>1. k \in 1..Size(q, i)
        BY <1>4, <2>1
      <3>2. PICK n \in DOMAIN s : s[n] = <<i, k>>
        BY <1>2, <2>1, <3>1 DEF AllThere
      <3> QED BY <1>3, <3>2
    <2>2. CASE i = Len(r)
      BY <1>3, <2>2
    <2> QED BY <1>4, <2>1, <2>2
  <1>8. InOnePiece(t)
    <2> SUFFICES ASSUME NEW m \in DOMAIN t, NEW n \in DOMAIN t, t[m][1] = t[n][1]
                 PROVE  t[n][2] - t[m][2] = n - m
      BY DEF InOnePiece
    <2>1. CASE m \in DOMAIN s /\ n \in DOMAIN s
      BY <1>2, <1>3, <2>1 DEF InOnePiece
    <2>2. CASE /\ n > Len(s) /\ t[n] = <<Len(q) + 1, n - Len(s)>>
               /\ m > Len(s) /\ t[m] = <<Len(q) + 1, m - Len(s)>>
      BY <1>1, <2>2
    <2>3. (m \in DOMAIN s) <=> (n \in DOMAIN s)
      BY <1>3, <1>5
    <2> QED BY <1>3, <2>1, <2>2, <2>3
  <1>9. OneByOne(t, r)
    <2> SUFFICES ASSUME NEW n \in DOMAIN t, n > 1, t[n][2] = 1
                 PROVE  t[n - 1] = <<t[n][1] - 1, Size(r, t[n][1] - 1)>>
      BY DEF OneByOne
    <2>1. CASE n \in DOMAIN s
      <3>1. n - 1 \in DOMAIN s
        BY <1>1, <2>1
      <3>2. s[n - 1] = <<s[n][1] - 1, Size(q, s[n][1] - 1)>>
        BY <1>2, <1>3, <2>1 DEF OneByOne
      <3>3. s[n][1] - 1 \in 1..Len(q)
        BY <1>4, <1>5, <3>1, <3>2
      <3> QED BY <1>3, <2>1, <3>1, <3>2, <3>3
    <2>2. CASE n \notin DOMAIN s
      <3>1. n = Len(s) + 1 /\ t[n] = <<Len(q) + 1, 1>>
        BY <1>1, <1>3, <2>2
      <3>2. n - 1 = Len(s) /\ Len(s) \in DOMAIN s /\ s /= <<>>
        BY <1>1, <3>1
      <3>3. s[Len(s)] = <<Len(q), Size(q, Len(q))>>
        BY <1>2, <3>2 DEF Ends
      <3>4. Len(q) \in 1..Len(q)
        <4>1. s[Len(s)][1] \in Ahead(p, q) /\ s[Len(s)][1] = Len(q)
          BY <1>5, <3>2, <3>3
        <4>2. Len(q) \in Ahead(p, q)
          BY <4>1
        <4> QED BY <1>4, <4>2
      <3>5. t[n][1] - 1 = Len(q)
        BY <1>1, <3>1
      <3>6. t[n - 1] = <<Len(q), Size(q, Len(q))>>
        BY <1>3, <3>2, <3>3
      <3>7. Size(r, Len(q)) = Size(q, Len(q))
        BY <3>4
      <3> QED BY <3>5, <3>6, <3>7
    <2> QED BY <2>1, <2>2
  <1>10. Ends(t, p, r)
    <2>1. t[Len(t)] = <<Len(r), z>>
      <3>1. z \in 1..z
        OBVIOUS
      <3> QED BY <1>3, <3>1
    <2>2. CASE s = <<>>
      <3>1. Len(s) = 0 /\ 1 \in 1..z /\ DOMAIN s = {}
        BY <1>1, <2>2
      <3>2. t[1] = <<Len(q) + 1, 1>>
        BY <1>3, <3>1
      <3>3. p = Len(q)
        <4>1. ASSUME p < Len(q) PROVE FALSE
          <5>1. Len(q) \in Ahead(p, q) /\ Len(q) \in 1..Len(q)
            BY <1>1, <4>1 DEF Ahead
          <5>2. 1 \in 1..Size(q, Len(q))
            BY <5>1 DEF Sizes
          <5> QED BY <1>2, <3>1, <5>1, <5>2 DEF AllThere
        <4> QED BY <1>1, <4>1
      <3> QED BY <2>1, <3>2, <3>3 DEF Ends
    <2>3. CASE s /= <<>>
      <3>1. 1 \in DOMAIN s
        BY <1>1, <2>3, EmptySeq
      <3>2. t[1] = <<p + 1, 1>>
        BY <1>2, <1>3, <2>3, <3>1 DEF Ends
      <3> QED BY <2>1, <3>2 DEF Ends
    <2> QED BY <2>2, <2>3
  <1>11. Sizes(r)
    <2>1. Len(r) \in Nat /\ \A i \in 1..Len(r) : i \in 1..Len(q) \/ i = Len(r)
      BY <1>1
    <2>2. \A i \in 1..Len(q) : Size(r, i) \in Nat \ {0}
      BY DEF Sizes
    <2> QED BY <2>1, <2>2 DEF Sizes
  <1> QED BY <1>6, <1>7, <1>8, <1>9, <1>10, <1>11 DEF Streamed

(* A piece that goes from the line to the buffer leaves the stream as it   *)
(* was, and its length is that of both.                                    *)
LEMMA Passing ==
    ASSUME NEW b \in Seq(Octet), NEW l \in Seq(Octet), NEW n \in 1..Len(l)
    PROVE  /\ b \o SubSeq(l, 1, n) \in Seq(Octet) /\ SubSeq(l, n + 1, Len(l)) \in Seq(Octet)
           /\ b \o SubSeq(l, 1, n) /= <<>>
           /\ (b \o SubSeq(l, 1, n)) \o SubSeq(l, n + 1, Len(l)) = b \o l
  <1>1. /\ Len(l) \in Nat /\ \A i \in 1..Len(l) : l[i] \in Octet
    BY LenProperties, ElementOfSeq
  <1> DEFINE h == SubSeq(l, 1, n)
             r == SubSeq(l, n + 1, Len(l))
  <1>2. h \in Seq(Octet) /\ Len(h) = n
    <2>1. \A i \in 1..n : l[i] \in Octet
      BY <1>1
    <2> QED BY <1>1, <2>1, SubSeqProperties
  <1>3. r \in Seq(Octet)
    <2>1. \A i \in (n + 1)..Len(l) : l[i] \in Octet
      BY <1>1
    <2> QED BY <1>1, <2>1, SubSeqProperties
  <1>4. h \o r = l
    <2>1. h \o r = SubSeq(l, 1, Len(l))
      <3>1. 1 \in 1..(Len(l) + 1) /\ n \in (1 - 1)..Len(l) /\ Len(l) \in n..Len(l)
        BY <1>1
      <3> QED BY <3>1, ConcatAdjacentSubSeq
    <2> QED BY <2>1, SubSeqFull
  <1> HIDE DEF h, r
  <1>5. (b \o h) \o r = b \o l
    <2>1. h \in Seq(Octet) /\ r \in Seq(Octet)
      BY <1>2, <1>3
    <2>2. \A u, v, w \in Seq(Octet) : (u \o v) \o w = u \o (v \o w)
      OBVIOUS
    <2>3. (b \o h) \o r = b \o (h \o r)
      BY <2>1, <2>2
    <2> QED BY <1>4, <2>3, Zenon
  <1>6. b \o h \in Seq(Octet) /\ b \o h /= <<>>
    <2>1. b \o h \in Seq(Octet) /\ Len(b \o h) = Len(b) + Len(h) /\ Len(b) \in Nat
      BY <1>2, ConcatProperties, LenProperties
    <2>2. Len(b \o h) > 0
      BY <1>2, <2>1
    <2> QED BY <2>1, <2>2, EmptySeq
  <1> QED BY <1>3, <1>5, <1>6 DEF h, r

(* The bytes of a stream, where they are. *)
LEMMA Positions ==
    ASSUME NEW b \in Seq(Octet), NEW l \in Seq(Octet)
    PROVE  /\ b \o l \in Seq(Octet) /\ Len(b) \in Nat /\ Len(l) \in Nat
           /\ Len(b \o l) = Len(b) + Len(l)
           /\ \A n \in 1..Len(b) : (b \o l)[n] = b[n]
           /\ \A n \in 1..Len(l) : (b \o l)[Len(b) + n] = l[n]
           /\ b /= <<>> => b \o l /= <<>>
  <1>1. /\ b \o l \in Seq(Octet) /\ Len(b) \in Nat /\ Len(l) \in Nat
        /\ Len(b \o l) = Len(b) + Len(l)
        /\ \A i \in 1..(Len(b) + Len(l)) :
             (b \o l)[i] = IF i <= Len(b) THEN b[i] ELSE l[i - Len(b)]
    BY ConcatProperties, LenProperties
  <1>2. ASSUME NEW n \in 1..Len(b) PROVE (b \o l)[n] = b[n]
    BY <1>1
  <1>3. ASSUME NEW n \in 1..Len(l) PROVE (b \o l)[Len(b) + n] = l[n]
    <2>1. Len(b) + n \in 1..(Len(b) + Len(l)) /\ ~(Len(b) + n <= Len(b))
          /\ (Len(b) + n) - Len(b) = n
      BY <1>1
    <2> QED BY <1>1, <2>1
  <1>4. b /= <<>> => b \o l /= <<>>
    BY ConcatEqualIffEmpty
  <1> QED BY <1>1, <1>2, <1>3, <1>4

(* The beginning of the buffer taken away. *)
LEMMA Leaving ==
    ASSUME NEW b \in Seq(Octet), NEW l \in Seq(Octet), NEW z \in 1..Len(b)
    PROVE  LET c == SubSeq(b, z + 1, Len(b))
           IN  /\ c \in Seq(Octet) /\ c \o l \in Seq(Octet)
               /\ Len(c \o l) = Len(b \o l) - z
               /\ \A n \in 1..Len(c \o l) : (c \o l)[n] = (b \o l)[n + z]
  <1> DEFINE c == SubSeq(b, z + 1, Len(b))
  <1>1. /\ Len(b) \in Nat /\ Len(l) \in Nat /\ z \in Nat
        /\ \A i \in (z + 1)..Len(b) : b[i] \in Octet
    <2>1. Len(b) \in Nat /\ Len(l) \in Nat /\ z \in Nat
            /\ \A i \in 1..Len(b) : b[i] \in Octet
      BY LenProperties, ElementOfSeq
    <2>2. \A i \in (z + 1)..Len(b) : i \in 1..Len(b)
      BY <2>1
    <2> QED BY <2>1, <2>2
  <1>2. /\ c \in Seq(Octet) /\ Len(c) = Len(b) - z
        /\ \A i \in 1..(Len(b) - z) : c[i] = b[i + z]
    <2>1. /\ c \in Seq(Octet)
          /\ Len(c) = IF z + 1 <= Len(b) THEN Len(b) - (z + 1) + 1 ELSE 0
          /\ \A i \in 1..(Len(b) - (z + 1) + 1) : c[i] = b[(z + 1) + i - 1]
      BY <1>1, SubSeqProperties
    <2>2. Len(b) - (z + 1) + 1 = Len(b) - z /\ Len(c) = Len(b) - z
      BY <1>1, <2>1
    <2>3. \A i \in 1..(Len(b) - z) : (z + 1) + i - 1 = i + z
      BY <1>1
    <2> QED BY <2>1, <2>2, <2>3
  <1> HIDE DEF c
  <1>3. /\ c \o l \in Seq(Octet) /\ Len(c \o l) = Len(c) + Len(l) /\ Len(c) \in Nat
        /\ \A n \in 1..Len(c) : (c \o l)[n] = c[n]
        /\ \A n \in 1..Len(l) : (c \o l)[Len(c) + n] = l[n]
    BY <1>2, Positions
  <1>4. /\ Len(b \o l) = Len(b) + Len(l)
        /\ \A n \in 1..Len(b) : (b \o l)[n] = b[n]
        /\ \A n \in 1..Len(l) : (b \o l)[Len(b) + n] = l[n]
    BY Positions
  <1>5. Len(c \o l) = Len(b \o l) - z
    BY <1>1, <1>2, <1>3, <1>4
  <1>6. ASSUME NEW n \in 1..Len(c \o l) PROVE (c \o l)[n] = (b \o l)[n + z]
    <2>1. CASE n <= Len(c)
      <3>1. n \in 1..Len(c) /\ n \in 1..(Len(b) - z) /\ n + z \in 1..Len(b)
        BY <1>1, <1>2, <1>3, <2>1
      <3> QED BY <1>2, <1>3, <1>4, <3>1
    <2>2. CASE n > Len(c)
      <3>1. n \in 1..(Len(c) + Len(l))
        BY <1>3
      <3>2. n - Len(c) \in 1..Len(l)
        BY <1>1, <1>3, <2>2, <3>1
      <3>3. PICK m \in 1..Len(l) : m = n - Len(c)
        BY <3>2
      <3>4. n = Len(c) + m /\ n + z = Len(b) + m
        BY <1>1, <1>2, <1>3, <3>1, <3>3
      <3>5. (c \o l)[n] = l[m]
        <4>1. (c \o l)[Len(c) + m] = l[m]
          BY <1>3
        <4> QED BY <3>4, <4>1
      <3>6. (b \o l)[n + z] = l[m]
        <4>1. (b \o l)[Len(b) + m] = l[m]
          BY <1>4
        <4> QED BY <3>4, <4>1
      <3> QED BY <3>5, <3>6
    <2>3. n <= Len(c) \/ n > Len(c)
      BY <1>1, <1>3
    <2> QED BY <2>1, <2>2, <2>3, Zenon
  <1> QED BY <1>2, <1>3, <1>5, <1>6 DEF c

(* What the receiver makes of a packet that came whole. *)
LEMMA PacketMeaning ==
    ASSUME side \in {"device", "pc"}, NEW p \in Packets
    PROVE  Understood(p.payload) = p.means
  <1>1. CASE side = "device"
    <2>1. p \in Requests
      BY <1>1 DEF Packets
    <2>2. CASE p.payload = Refused /\ p.means = Refused
      BY <1>1, <2>2 DEF Understood
    <2>3. CASE ~(p.payload = Refused /\ p.means = Refused)
      <3> DEFINE w == p.payload
                 f == Decoded(Record(w))
      <3>1. /\ w /= Refused /\ f \in Frame /\ Legal(f)
            /\ w.interval \in Nat /\ w.count \in Nat
            /\ w = tx_wire(f, w.interval, w.count)
            /\ p.means = IF Sendable(f, w.interval, w.count)
                         THEN [frame |-> Record(w), interval |-> w.interval,
                               count |-> w.count]
                         ELSE Refused
        BY <2>1, <2>3, RequestAssumption, Zenon
      <3> HIDE DEF w, f
      <3>2. Sendable(f, w.interval, w.count)
              <=> FormOk(tx_wire(f, w.interval, w.count))
                  /\ ValuesOk(tx_wire(f, w.interval, w.count))
        BY <3>1, RequestsAgree, Zenon
      <3>3. Sendable(f, w.interval, w.count) <=> FormOk(w) /\ ValuesOk(w)
        BY <3>1, <3>2, Zenon
      <3>4. p.means = IF w = Refused \/ ~(FormOk(w) /\ ValuesOk(w)) THEN Refused
                      ELSE [frame |-> Record(w), interval |-> w.interval,
                            count |-> w.count]
        BY <3>1, <3>3, Zenon
      <3> QED BY <1>1, <3>4, Zenon DEF Understood, w
    <2> QED BY <2>2, <2>3
  <1>2. CASE side = "pc"
    <2> DEFINE b == p.payload
    <2>1. p \in Batches /\ side /= "device"
      BY <1>2 DEF Packets
    <2>2. /\ p.means = [i \in DOMAIN b |-> Decoded(b[i])]
          /\ \A i \in DOMAIN b :
               /\ b[i].id \in Nat /\ b[i].dlc \in Nat /\ b[i].flags \in SUBSET Flags
               /\ OnBus(b[i].id, b[i].dlc, b[i].flags)
               /\ b[i] = RxRecord([id |-> b[i].id, dlc |-> b[i].dlc,
                                   flags |-> b[i].flags])
      BY <2>1, BatchAssumption, Zenon
    <2> HIDE DEF b
    <2>3. ASSUME NEW i \in DOMAIN b PROVE Legal(Decoded(b[i]))
      <3>1. Legal(Decoded(RxRecord([id |-> b[i].id, dlc |-> b[i].dlc,
                                    flags |-> b[i].flags])))
        BY <2>2, FramesDecode, Zenon
      <3> QED BY <2>2, <3>1, Zenon
    <2> QED BY <2>1, <2>2, <2>3, Zenon DEF Understood, b
  <1> QED BY <1>1, <1>2

(* What the types say of the packets that were sent. *)
LEMMA Known ==
    ASSUME Types
    PROVE  /\ Sizes(sent) /\ Len(sent) \in Nat /\ Len(parsed) \in 0..Len(sent)
           /\ DOMAIN parsed = 1..Len(parsed)
           /\ \A i \in 1..Len(sent) : sent[i] \in Packets /\ sent[i].length \in Nat
                                      /\ sent[i].header \in BOOLEAN
           /\ Stream \in Seq(Octet)
  <1>1. /\ Len(sent) \in Nat /\ Len(parsed) \in 0..Len(sent)
        /\ DOMAIN parsed = 1..Len(parsed)
    BY LenProperties DEF Types
  <1>2. \A i \in 1..Len(sent) : sent[i] \in Packets
    BY ElementOfSeq DEF Types
  <1>3. \A p \in Packets : p.length \in Nat /\ p.header \in BOOLEAN
    BY WireAssumption DEF Packets
  <1>4. Sizes(sent)
    BY <1>1, <1>2, <1>3, WireAssumption DEF Sizes, Size
  <1>5. Stream \in Seq(Octet)
    BY Positions DEF Types, Stream
  <1> QED BY <1>1, <1>2, <1>3, <1>4, <1>5

(* The buffer begins with the packet that is next, and has no other's      *)
(* bytes before it has all of its own.                                     *)
LEMMA Beginning ==
    ASSUME Types, Streamed(Stream, Len(parsed), sent), buffer /= <<>>
    PROVE  /\ First = Len(parsed) + 1 /\ First \in 1..Len(sent)
           /\ \A m \in 1..(W_HEADER + Packet.length) :
                m <= Len(buffer)
                  => SubSeq(buffer, 1, m) = SubSeq(Bytes(First, Packet), 1, m)
  <1>1. /\ buffer \in Seq(Octet) /\ Len(buffer) \in Nat \ {0} /\ line \in Seq(Octet)
        /\ Stream /= <<>> /\ \A n \in 1..Len(buffer) : Stream[n] = buffer[n]
    <2>1. buffer \in Seq(Octet) /\ line \in Seq(Octet)
      BY DEF Types
    <2>2. Len(buffer) \in Nat \ {0}
      BY <2>1, EmptySeq
    <2> QED BY <2>1, <2>2, Positions DEF Stream
  <1>2. /\ Len(parsed) + 1 \in 1..Len(sent) /\ Len(parsed) \in Nat
        /\ \A k \in 1..Size(sent, Len(parsed) + 1) : Stream[k] = <<Len(parsed) + 1, k>>
    BY <1>1, Known, FirstOne
  <1>3. Size(sent, Len(parsed) + 1) \in Nat \ {0}
    BY <1>2, Known DEF Sizes
  <1>4. First = Len(parsed) + 1
    <2>1. 1 \in 1..Len(buffer) /\ 1 \in 1..Size(sent, Len(parsed) + 1)
      BY <1>1, <1>3
    <2>2. buffer[1] = <<Len(parsed) + 1, 1>>
      BY <1>1, <1>2, <2>1
    <2> QED BY <2>2 DEF First
  <1>5. W_HEADER + Packet.length = Size(sent, First)
    BY DEF Packet, Size
  <1>6. ASSUME NEW m \in 1..(W_HEADER + Packet.length), m <= Len(buffer)
        PROVE  SubSeq(buffer, 1, m) = SubSeq(Bytes(First, Packet), 1, m)
    <2> DEFINE B == Bytes(First, Packet)
               x == SubSeq(buffer, 1, m)
               y == SubSeq(B, 1, m)
    <2>1. m \in Nat \ {0} /\ m - 1 + 1 = m /\ 1 <= m /\ \A i \in 1..m : 1 + i - 1 = i
      BY <1>3, <1>4, <1>5
    <2>2. \A i \in 1..m : /\ buffer[i] = <<First, i>> /\ B[i] = <<First, i>>
                          /\ buffer[i] \in Octet /\ B[i] \in Octet
      <3> SUFFICES ASSUME NEW i \in 1..m
                   PROVE  /\ buffer[i] = <<First, i>> /\ B[i] = <<First, i>>
                          /\ buffer[i] \in Octet /\ B[i] \in Octet
        OBVIOUS
      <3>1. i \in 1..Len(buffer) /\ i \in 1..(W_HEADER + Packet.length) /\ i \in Nat
        BY <1>1, <1>3, <1>4, <1>5, <1>6
      <3>2. buffer[i] = <<First, i>>
        BY <1>1, <1>2, <1>4, <1>5, <3>1
      <3>3. B[i] = <<First, i>>
        BY <3>1 DEF Bytes
      <3> QED BY <1>2, <1>4, <3>1, <3>2, <3>3 DEF Octet
    <2> HIDE DEF B
    <2>3. /\ x \in Seq(Octet) /\ Len(x) = m /\ \A i \in 1..m : x[i] = buffer[i]
      <3>1. /\ x \in Seq(Octet) /\ Len(x) = IF 1 <= m THEN m - 1 + 1 ELSE 0
            /\ \A i \in 1..(m - 1 + 1) : x[i] = buffer[1 + i - 1]
        <4>1. 1 \in Int /\ m \in Int /\ \A i \in 1..m : buffer[i] \in Octet
          BY <2>1, <2>2
        <4> QED BY <4>1, SubSeqProperties
      <3> QED BY <2>1, <3>1
    <2>4. /\ y \in Seq(Octet) /\ Len(y) = m /\ \A i \in 1..m : y[i] = B[i]
      <3>1. /\ y \in Seq(Octet) /\ Len(y) = IF 1 <= m THEN m - 1 + 1 ELSE 0
            /\ \A i \in 1..(m - 1 + 1) : y[i] = B[1 + i - 1]
        <4>1. 1 \in Int /\ m \in Int /\ \A i \in 1..m : B[i] \in Octet
          BY <2>1, <2>2
        <4> QED BY <4>1, SubSeqProperties
      <3> QED BY <2>1, <3>1
    <2> HIDE DEF x, y
    <2>5. x = y
      <3>1. Len(x) = Len(y) /\ \A i \in 1..Len(x) : x[i] = y[i]
        BY <2>2, <2>3, <2>4
      <3> QED BY <2>3, <2>4, <3>1, SeqEqual
    <2> QED BY <2>5 DEF x, y, B
  <1> QED BY <1>2, <1>4, <1>6

LEMMA Initially == Init => WireInv
  <1> SUFFICES ASSUME Init PROVE WireInv
    OBVIOUS
  <1>1. /\ side \in {"device", "pc"} /\ sent = <<>> /\ line = <<>> /\ buffer = <<>>
        /\ phase = "poll" /\ age = 0 /\ spent = 0 /\ waited = 0 /\ parsed = <<>>
        /\ given = 0
    BY DEF Init
  <1>2. /\ <<>> \in Seq(Packets) /\ <<>> \in Seq(Octet)
        /\ <<>> \in Seq({p.means : p \in Packets})
    BY EmptySeq
  <1>3. Len(<<>>) = 0 /\ DOMAIN <<>> = {}
    BY EmptySeq
  <1>4. Types
    BY <1>1, <1>2, <1>3, WireAssumption DEF Types
  <1>5. Stream = <<>>
    BY <1>1, <1>2, ConcatEmptySeq DEF Stream
  <1>6. Streamed(<<>>, 0, <<>>)
    <2>1. Ahead(0, <<>>) = {}
      BY <1>3 DEF Ahead
    <2> QED BY <1>3, <2>1 DEF Streamed, FromPackets, AllThere, InOnePiece, OneByOne,
               Ends
  <1>7. Streamed(Stream, Len(parsed), sent)
    BY <1>1, <1>3, <1>5, <1>6
  <1>8. Looked /\ Stops /\ Understanding
    BY <1>1, <1>3, WireAssumption DEF Looked, Stops, Understanding
  <1>9. Timely /\ ActedUpon
    BY <1>1, <1>3, WireAssumption DEF Timely, ActedUpon
  <1> QED BY <1>4, <1>7, <1>8, <1>9 DEF WireInv

(* One more element at the end of a sequence. *)
LEMMA OneMore ==
    ASSUME NEW S, NEW s \in Seq(S), NEW e \in S
    PROVE  \E t \in Seq(S) : /\ t = Append(s, e) /\ Len(t) = Len(s) + 1
                             /\ \A i \in 1..Len(s) : t[i] = s[i]
                             /\ t[Len(s) + 1] = e
  BY AppendProperties

LEMMA WriteStep == ASSUME WireInv, Write PROVE WireInv'
  <1>1. /\ Types /\ Streamed(Stream, Len(parsed), sent) /\ Looked /\ Stops
        /\ Understanding /\ Timely /\ ActedUpon
    BY DEF WireInv
  <1>2. /\ Sizes(sent) /\ Len(sent) \in Nat /\ Len(parsed) \in 0..Len(sent)
        /\ DOMAIN parsed = 1..Len(parsed)
        /\ \A i \in 1..Len(sent) : sent[i] \in Packets /\ sent[i].length \in Nat
        /\ Stream \in Seq(Octet)
    BY <1>1, Known
  <1>3. PICK packet \in Packets :
          /\ sent' = Append(sent, packet)
          /\ line' = line \o Bytes(Len(sent'), packet)
    BY DEF Write, Packets
  <1>4. /\ side' = side /\ buffer' = buffer /\ phase' = phase /\ age' = age
        /\ spent' = spent /\ waited' = waited /\ parsed' = parsed /\ given' = given
    BY DEF Write, clock, results
  <1>5. sent \in Seq(Packets) /\ parsed \in Seq({p.means : p \in Packets})
        /\ buffer \in Seq(Octet) /\ line \in Seq(Octet)
    BY <1>1 DEF Types
  <1>6. /\ sent' \in Seq(Packets) /\ Len(sent') = Len(sent) + 1
        /\ \A i \in 1..Len(sent) : sent'[i] = sent[i]
        /\ sent'[Len(sent) + 1] = packet
    <2>1. PICK P : P = Packets
      OBVIOUS
    <2>2. PICK s \in Seq(P) : s = sent
      BY <1>5, <2>1
    <2>3. packet \in P
      BY <2>1
    <2>4. PICK t \in Seq(P) : /\ t = Append(s, packet) /\ Len(t) = Len(s) + 1
                              /\ \A i \in 1..Len(s) : t[i] = s[i]
                              /\ t[Len(s) + 1] = packet
      BY <2>3, OneMore, Zenon
    <2>5. sent' = t
      BY <1>3, <2>2, <2>4
    <2> QED BY <2>1, <2>2, <2>4, <2>5
  <1> DEFINE z == W_HEADER + packet.length
             B == Bytes(Len(sent'), packet)
  <1>7. z \in Nat \ {0} /\ packet.length \in Nat
    BY <1>3, WireAssumption DEF Packets
  <1>8. B \in Seq(Octet) /\ Len(B) = z /\ \A k \in 1..z : B[k] = <<Len(sent) + 1, k>>
    <2>1. B = [k \in 1..z |-> <<Len(sent) + 1, k>>]
      BY <1>6 DEF Bytes
    <2>2. \A k \in 1..z : <<Len(sent) + 1, k>> \in Octet
      BY <1>2, <1>7 DEF Octet
    <2> HIDE DEF z, B
    <2> QED BY <1>7, <2>1, <2>2
  <1> HIDE DEF z, B
  <1>9. Stream' = Stream \o B /\ line' \in Seq(Octet)
    <2>1. \A u, v, w \in Seq(Octet) : (u \o v) \o w = u \o (v \o w)
      OBVIOUS
    <2>2. (buffer \o line) \o B = buffer \o (line \o B)
      BY <1>5, <1>8, <2>1
    <2>3. line' = line \o B
      BY <1>3 DEF B
    <2>4. line \o B \in Seq(Octet)
      BY <1>5, <1>8, Positions
    <2> QED BY <1>4, <2>2, <2>3, <2>4 DEF Stream
  <1>10. Types'
    <2>1. Packets' = Packets
      BY <1>4 DEF Packets
    <2>2. Len(parsed) <= Len(sent')
      BY <1>2, <1>6
    <2>3. /\ side \in {"device", "pc"} /\ age \in Nat /\ spent \in 0..Turn
          /\ waited \in Nat
      BY <1>1 DEF Types
    <2>4. /\ sent' \in Seq(Packets') /\ parsed' \in Seq({p.means : p \in Packets'})
      BY <1>4, <1>5, <1>6, <2>1
    <2> QED BY <1>4, <1>5, <1>9, <2>2, <2>3, <2>4 DEF Types
  <1>11. Streamed(Stream', Len(parsed'), sent')
    <2>1. PICK s \in Seq(Octet) : s = Stream
      BY <1>2
    <2>2. PICK t \in Seq(Octet) : t = Stream'
      BY <1>2, <1>8, <1>9, Positions
    <2>3. /\ Len(t) = Len(s) + z /\ \A n \in 1..Len(s) : t[n] = s[n]
          /\ \A k \in 1..z : t[Len(s) + k] = <<Len(sent) + 1, k>>
      <3>1. /\ Len(s \o B) = Len(s) + Len(B)
            /\ \A n \in 1..Len(s) : (s \o B)[n] = s[n]
            /\ \A n \in 1..Len(B) : (s \o B)[Len(s) + n] = B[n]
        BY <1>8, Positions
      <3>2. t = s \o B
        BY <1>9, <2>1, <2>2
      <3> QED BY <1>8, <3>1, <3>2
    <2>4. PICK p \in Nat : p = Len(parsed)
      <3>1. Len(parsed) \in Nat
        BY <1>2
      <3> QED BY <3>1, Zenon
    <2>5. PICK q \in Seq(Packets) : q = sent
      BY <1>5
    <2>6. PICK r : r = sent'
      OBVIOUS
    <2>7. Len(r) = Len(q) + 1 /\ \A i \in 1..Len(q) : Size(r, i) = Size(q, i)
      BY <1>6, <2>5, <2>6 DEF Size
    <2>8. z = Size(r, Len(r))
      BY <1>6, <2>6 DEF Size, z
    <2>9. Streamed(s, p, q) /\ Sizes(q) /\ p <= Len(q)
      BY <1>1, <1>2, <2>1, <2>4, <2>5
    <2>10. \A k \in 1..z : t[Len(s) + k] = <<Len(q) + 1, k>>
      BY <2>3, <2>5
    <2>11. Streamed(t, p, r)
      BY <1>7, <2>3, <2>7, <2>8, <2>9, <2>10, Longer, Zenon
    <2> QED BY <1>4, <2>2, <2>4, <2>6, <2>11
  <1>12. Looked'
    <2>1. ASSUME Len(buffer) >= W_HEADER
          PROVE  sent'[Len(parsed) + 1] = sent[Len(parsed) + 1]
      <3>1. buffer /= <<>>
        BY <2>1, EmptySeq, WireAssumption
      <3>2. First = Len(parsed) + 1 /\ First \in 1..Len(sent)
        BY <1>1, <3>1, Beginning
      <3> QED BY <1>6, <3>2
    <2> QED BY <1>1, <1>4, <2>1 DEF Looked
  <1>13. Stops'
    <2>1. ASSUME Len(parsed) < Len(sent)
          PROVE  /\ sent'[Len(parsed) + 1] = sent[Len(parsed) + 1]
                 /\ Len(parsed) < Len(sent')
      <3>1. Len(parsed) + 1 \in 1..Len(sent)
        BY <1>2, <2>1
      <3> QED BY <1>2, <1>6, <2>1, <3>1
    <2> QED BY <1>1, <1>4, <2>1 DEF Stops
  <1>14. Understanding'
    <2>1. \A i \in DOMAIN parsed : i \in 1..Len(sent)
      BY <1>2
    <2> QED BY <1>1, <1>4, <1>6, <2>1 DEF Understanding
  <1>15. Timely' /\ ActedUpon'
    BY <1>1, <1>4 DEF Timely, ActedUpon
  <1> QED BY <1>10, <1>11, <1>12, <1>13, <1>14, <1>15 DEF WireInv

(* The rest of a turn passes, until the poll that ends it. *)
LEMMA TimePasses ==
    ASSUME WireInv, phase = "poll", phase' = "parse", side' = side, spent' = 0,
           parsed' = parsed, given' = given,
           \E d \in Delays : age' = Older(age, d) /\ waited' = Older(waited, d)
    PROVE  /\ age' \in Nat /\ spent' \in 0..Turn /\ waited' \in Nat
           /\ Timely' /\ ActedUpon'
  <1>1. /\ age \in Nat /\ waited \in Nat /\ spent \in 0..Turn /\ Timely
        /\ side = "device" /\ buffer /= <<>> => age <= Limit
        /\ given = Len(parsed) /\ Turn \in Nat /\ Limit \in Nat
    BY WireAssumption DEF WireInv, Types, Looked, ActedUpon
  <1>2. PICK d \in Delays : age' = Older(age, d) /\ waited' = Older(waited, d)
    OBVIOUS
  <1>3. d \in 0..Turn /\ (side /= "device" => d = 0)
    BY <1>1 DEF Delays
  <1>4. CASE buffer = <<>>
    <2>1. age' = 0 /\ waited' = 0
      BY <1>2, <1>4 DEF Older
    <2> QED BY <1>1, <2>1 DEF Timely, ActedUpon
  <1>5. CASE buffer /= <<>>
    <2>1. age' = age + d /\ waited' = waited + d
      BY <1>2, <1>5 DEF Older
    <2>2. age' \in Nat /\ waited' \in Nat /\ age' <= waited' /\ waited' <= age' + Turn
      BY <1>1, <1>3, <2>1 DEF Timely
    <2>3. side = "device" => age' <= Limit + Turn
      BY <1>1, <1>3, <1>5, <2>1
    <2> QED BY <1>1, <2>2, <2>3 DEF Timely, ActedUpon
  <1> QED BY <1>4, <1>5

LEMMA ReceiveStep == ASSUME WireInv, Receive PROVE WireInv'
  <1>1. /\ Types /\ Streamed(Stream, Len(parsed), sent) /\ Understanding
    BY DEF WireInv
  <1>2. /\ side' = side /\ sent' = sent /\ parsed' = parsed /\ given' = given
        /\ phase = "poll" /\ phase' = "parse" /\ spent' = 0
        /\ \E d \in Delays : age' = Older(age, d) /\ waited' = Older(waited, d)
    BY DEF Receive, Begins, Older, results
  <1>3. PICK n \in 1..Smaller(Len(line), Room) :
          /\ buffer' = buffer \o SubSeq(line, 1, n)
          /\ line' = SubSeq(line, n + 1, Len(line))
    BY DEF Receive
  <1>4. buffer \in Seq(Octet) /\ line \in Seq(Octet)
    BY <1>1 DEF Types
  <1>5. n \in 1..Len(line)
    <2>1. Len(line) \in Nat /\ Len(buffer) \in Nat
      BY <1>4, LenProperties
    <2>2. Room \in Int
      BY <2>1, WireAssumption DEF Room, Capacity
    <2> QED BY <2>1, <2>2 DEF Smaller
  <1>6. buffer' \in Seq(Octet) /\ line' \in Seq(Octet) /\ buffer' \o line' = buffer \o line
    BY <1>3, <1>4, <1>5, Passing
  <1>11. /\ age' \in Nat /\ spent' \in 0..Turn /\ waited' \in Nat
         /\ Timely' /\ ActedUpon'
    BY <1>2, TimePasses
  <1>7. Types'
    <2>1. Packets' = Packets
      BY <1>2 DEF Packets
    <2>2. /\ side \in {"device", "pc"} /\ sent \in Seq(Packets)
          /\ parsed \in Seq({p.means : p \in Packets}) /\ Len(parsed) <= Len(sent)
      BY <1>1 DEF Types
    <2> QED BY <1>2, <1>6, <1>11, <2>1, <2>2 DEF Types
  <1>8. Streamed(Stream', Len(parsed'), sent')
    BY <1>1, <1>2, <1>6 DEF Stream
  <1>9. Looked' /\ Stops'
    BY <1>2 DEF Looked, Stops
  <1>10. Understanding'
    BY <1>1, <1>2 DEF Understanding
  <1> QED BY <1>7, <1>8, <1>9, <1>10, <1>11 DEF WireInv

LEMMA PollStep == ASSUME WireInv, Poll PROVE WireInv'
  <1>1. /\ Types /\ Streamed(Stream, Len(parsed), sent) /\ Understanding
    BY DEF WireInv
  <1>2. /\ side' = side /\ sent' = sent /\ parsed' = parsed /\ given' = given
        /\ phase = "poll" /\ phase' = "parse" /\ spent' = 0
        /\ buffer' = buffer /\ line' = line
        /\ \E d \in Delays : age' = Older(age, d) /\ waited' = Older(waited, d)
    BY DEF Poll, transit, results
  <1>7. /\ age' \in Nat /\ spent' \in 0..Turn /\ waited' \in Nat
        /\ Timely' /\ ActedUpon'
    BY <1>2, TimePasses
  <1>3. Types'
    <2>1. Packets' = Packets
      BY <1>2 DEF Packets
    <2>2. /\ side \in {"device", "pc"} /\ sent \in Seq(Packets)
          /\ parsed \in Seq({p.means : p \in Packets}) /\ Len(parsed) <= Len(sent)
          /\ buffer \in Seq(Octet) /\ line \in Seq(Octet)
      BY <1>1 DEF Types
    <2> QED BY <1>2, <1>7, <2>1, <2>2 DEF Types
  <1>4. Streamed(Stream', Len(parsed'), sent')
    BY <1>1, <1>2 DEF Stream
  <1>5. Looked' /\ Stops'
    BY <1>2 DEF Looked, Stops
  <1>6. Understanding'
    BY <1>1, <1>2 DEF Understanding
  <1> QED BY <1>3, <1>4, <1>5, <1>6, <1>7 DEF WireInv

(* The receiver that only changes its phase. *)
LEMMA PhaseStep ==
    ASSUME WireInv, UNCHANGED <<transit, clock, parsed>>, Looked', Stops', ActedUpon'
    PROVE  WireInv'
  <1>1. /\ Types /\ Streamed(Stream, Len(parsed), sent) /\ Understanding
    BY DEF WireInv
  <1>2. /\ side' = side /\ sent' = sent /\ parsed' = parsed
        /\ buffer' = buffer /\ line' = line /\ age' = age /\ spent' = spent
        /\ waited' = waited
    BY DEF transit, clock
  <1>3. Types'
    <2>1. Packets' = Packets
      BY <1>2 DEF Packets
    <2> QED BY <1>1, <1>2, <2>1 DEF Types
  <1>4. Streamed(Stream', Len(parsed'), sent')
    BY <1>1, <1>2 DEF Stream
  <1>5. Understanding'
    BY <1>1, <1>2 DEF Understanding
  <1>6. Timely'
    BY <1>2 DEF WireInv, Timely
  <1> QED BY <1>3, <1>4, <1>5, <1>6 DEF WireInv

LEMMA CloseStep == ASSUME WireInv, Close PROVE WireInv'
  <1>1. phase' = "closed" /\ UNCHANGED <<transit, clock, parsed, given>> /\ side' = side
    BY DEF Close, transit, results
  <1>2. Looked' /\ Stops' /\ ActedUpon'
    BY <1>1 DEF WireInv, Looked, Stops, ActedUpon
  <1> QED BY <1>1, <1>2, PhaseStep

(* The header in the buffer is that of the next packet. *)
LEMMA HeaderThere ==
    ASSUME Types, Streamed(Stream, Len(parsed), sent), HasHeader
    PROVE  /\ First = Len(parsed) + 1 /\ First \in 1..Len(sent)
           /\ Packet = sent[Len(parsed) + 1]
           /\ w_parse <=> Packet.header /\ Packet.length <= W_MAX
           /\ Packet \in Packets /\ Packet.length \in Nat /\ Packet.header \in BOOLEAN
  <1>1. Len(buffer) >= W_HEADER /\ Len(buffer) \in Nat /\ buffer /= <<>>
    <2>1. Len(buffer) >= W_HEADER /\ Len(buffer) \in Nat
      BY LenProperties DEF Types, HasHeader
    <2> QED BY <2>1, EmptySeq, WireAssumption
  <1>2. /\ First = Len(parsed) + 1 /\ First \in 1..Len(sent)
        /\ \A m \in 1..(W_HEADER + Packet.length) :
             m <= Len(buffer) => SubSeq(buffer, 1, m) = SubSeq(Bytes(First, Packet), 1, m)
    BY <1>1, Beginning
  <1>3. Packet \in Packets /\ Packet.length \in Nat /\ Packet.header \in BOOLEAN
    BY <1>2, Known DEF Packet
  <1>4. SubSeq(buffer, 1, W_HEADER) = Header
    <2>1. W_HEADER \in 1..(W_HEADER + Packet.length) /\ W_HEADER <= Len(buffer)
      BY <1>1, <1>3, WireAssumption
    <2> QED BY <1>2, <2>1, Zenon DEF Header
  <1>5. w_parse <=> Packet.header /\ Packet.length <= W_MAX
    BY <1>4 DEF w_parse
  <1>6. Packet = sent[Len(parsed) + 1]
    BY <1>2 DEF Packet
  <1> QED BY <1>2, <1>3, <1>5, <1>6, Zenon

LEMMA InvalidStep == ASSUME WireInv, Invalid PROVE WireInv'
  <1>1. /\ phase' = "invalid" /\ HasHeader /\ ~w_parse
        /\ UNCHANGED <<transit, clock, parsed, given, side, sent>>
    BY DEF Invalid, transit, results
  <1>2. Types /\ Streamed(Stream, Len(parsed), sent)
    BY DEF WireInv
  <1>3. Looked' /\ ActedUpon'
    BY <1>1 DEF WireInv, Looked, ActedUpon
  <1>4. Stops'
    <2>1. /\ Len(parsed) + 1 \in 1..Len(sent) /\ Packet = sent[Len(parsed) + 1]
          /\ w_parse <=> Packet.header /\ Packet.length <= W_MAX
          /\ Packet.length \in Nat /\ Packet.header \in BOOLEAN
      BY <1>1, <1>2, HeaderThere
    <2>2. Len(parsed) < Len(sent)
      BY <1>2, <2>1, Known
    <2>3. ~sent[Len(parsed) + 1].header \/ sent[Len(parsed) + 1].length > W_MAX
      BY <1>1, <2>1, WireAssumption
    <2> QED BY <1>1, <2>2, <2>3 DEF Stops
  <1> QED BY <1>1, <1>3, <1>4, PhaseStep

LEMMA ParsedStep == ASSUME WireInv, Parsed PROVE WireInv'
  <1>1. /\ HasHeader => w_parse /\ ~Complete
        /\ phase' = IF side = "device" /\ buffer /= <<>> /\ age > Limit THEN "expired"
                    ELSE "poll"
        /\ given' = Len(parsed)
        /\ UNCHANGED <<transit, clock, parsed, side, sent, buffer, age>>
    BY DEF Parsed, transit, clock
  <1>2. Types /\ Streamed(Stream, Len(parsed), sent)
    BY DEF WireInv
  <1>3. Looked'
    <2>1. ASSUME HasHeader
          PROVE  LET next == sent[Len(parsed) + 1]
                 IN  next.length <= W_MAX /\ Len(buffer) < W_HEADER + next.length
      <3>1. /\ Packet = sent[Len(parsed) + 1] /\ Packet.length \in Nat
            /\ w_parse <=> Packet.header /\ Packet.length <= W_MAX
        BY <1>2, <2>1, HeaderThere
      <3>2. Len(buffer) \in Nat
        BY <1>2, LenProperties DEF Types
      <3>3. Len(buffer) < W_HEADER + Packet.length
        BY <1>1, <2>1, <3>1, <3>2, WireAssumption DEF Complete
      <3> QED BY <1>1, <2>1, <3>1, <3>3
    <2>2. phase' = "poll" /\ side = "device" /\ buffer /= <<>> => age <= Limit
      BY <1>1, <1>2, WireAssumption DEF Types
    <2>3. Len(buffer) >= W_HEADER => HasHeader
      BY DEF HasHeader
    <2> QED BY <1>1, <2>1, <2>2, <2>3 DEF Looked
  <1>4. Stops' /\ ActedUpon'
    BY <1>1 DEF Stops, ActedUpon
  <1> QED BY <1>1, <1>3, <1>4, PhaseStep

LEMMA ParseStep == ASSUME WireInv, Parse PROVE WireInv'
  <1>1. /\ Types /\ Streamed(Stream, Len(parsed), sent) /\ Understanding
    BY DEF WireInv
  <1> DEFINE size == W_HEADER + Packet.length
             made == IF SubSeq(buffer, 1, size) = Bytes(First, Packet)
                     THEN Understood(Packet.payload) ELSE Garbled
  <1>2. /\ phase = "parse" /\ HasHeader /\ w_parse /\ Len(buffer) >= size
        /\ parsed' = Append(parsed, made)
        /\ buffer' = SubSeq(buffer, size + 1, Len(buffer))
        /\ side' = side /\ sent' = sent /\ line' = line /\ phase' = phase
        /\ given' = IF side = "device" THEN Len(parsed') ELSE given
        /\ age' = 0 /\ \E d \in Delays : spent' = spent + d /\ waited' = spent + d
    BY DEF Parse, Complete, Rest
  <1>3. /\ First = Len(parsed) + 1 /\ First \in 1..Len(sent)
        /\ Packet = sent[Len(parsed) + 1] /\ Packet \in Packets
        /\ Packet.length \in Nat /\ Packet.header
    BY <1>1, <1>2, HeaderThere
  <1>4. /\ side \in {"device", "pc"} /\ sent \in Seq(Packets)
        /\ parsed \in Seq({p.means : p \in Packets})
        /\ buffer \in Seq(Octet) /\ line \in Seq(Octet)
    BY <1>1 DEF Types
  <1>5. /\ Len(buffer) \in Nat /\ size \in 1..Len(buffer) /\ buffer /= <<>>
    <2>1. Len(buffer) \in Nat /\ size \in Nat \ {0}
      BY <1>3, <1>4, LenProperties, WireAssumption
    <2> QED BY <1>2, <2>1, EmptySeq
  <1>6. made = Packet.means
    <2>1. SubSeq(buffer, 1, size) = SubSeq(Bytes(First, Packet), 1, size)
      <3>1. \A m \in 1..size :
              m <= Len(buffer)
                => SubSeq(buffer, 1, m) = SubSeq(Bytes(First, Packet), 1, m)
        BY <1>1, <1>5, Beginning
      <3>2. size \in 1..size /\ size <= Len(buffer)
        BY <1>5
      <3> QED BY <3>1, <3>2, Zenon
    <2>2. SubSeq(Bytes(First, Packet), 1, size) = Bytes(First, Packet)
      <3> DEFINE B == Bytes(First, Packet)
      <3>1. B = [k \in 1..size |-> <<First, k>>]
        BY DEF Bytes
      <3>2. size \in Nat /\ First \in Nat /\ \A k \in 1..size : <<First, k>> \in Octet
        BY <1>3, <1>5 DEF Octet
      <3> HIDE DEF size, B
      <3>3. B \in Seq(Octet) /\ Len(B) = size
        BY <3>1, <3>2
      <3>4. SubSeq(B, 1, Len(B)) = B
        BY <3>3, SubSeqFull
      <3> QED BY <3>3, <3>4 DEF B
    <2>3. made = Understood(Packet.payload)
      BY <2>1, <2>2
    <2>4. Understood(Packet.payload) = Packet.means
      BY <1>3, <1>4, PacketMeaning
    <2> QED BY <2>3, <2>4
  <1> HIDE DEF size, made
  <1>7. /\ parsed' \in Seq({p.means : p \in Packets}) /\ Len(parsed') = Len(parsed) + 1
        /\ \A i \in 1..Len(parsed) : parsed'[i] = parsed[i]
        /\ parsed'[Len(parsed) + 1] = Packet.means
    <2>1. PICK M : M = {p.means : p \in Packets}
      OBVIOUS
    <2>2. PICK s \in Seq(M) : s = parsed
      BY <1>4, <2>1
    <2>3. PICK e \in M : e = Packet.means
      BY <1>3, <2>1
    <2>4. PICK t \in Seq(M) : /\ t = Append(s, e) /\ Len(t) = Len(s) + 1
                              /\ \A i \in 1..Len(s) : t[i] = s[i]
                              /\ t[Len(s) + 1] = e
      BY OneMore, Zenon
    <2>5. parsed' = t
      BY <1>2, <1>6, <2>2, <2>3, <2>4
    <2> QED BY <2>1, <2>2, <2>3, <2>4, <2>5
  <1>8. /\ buffer' \in Seq(Octet) /\ buffer' \o line \in Seq(Octet)
        /\ Len(buffer' \o line) = Len(buffer \o line) - size
        /\ \A n \in 1..Len(buffer' \o line) : (buffer' \o line)[n] = (buffer \o line)[n + size]
    BY <1>2, <1>4, <1>5, Leaving
  <1>9. Streamed(Stream', Len(parsed'), sent')
    <2>1. PICK s \in Seq(Octet) : s = Stream
      BY <1>1, Known
    <2>2. PICK t \in Seq(Octet) : t = Stream'
      BY <1>2, <1>8 DEF Stream
    <2>3. Len(parsed) \in Nat
      BY <1>4, LenProperties
    <2>4. PICK p \in Nat : p = Len(parsed)
      BY <2>3, Zenon
    <2>5. PICK q \in Seq(Packets) : q = sent
      BY <1>4
    <2>6. Streamed(s, p, q) /\ Sizes(q)
      BY <1>1, <2>1, <2>4, <2>5, Known
    <2>7. s /= <<>>
      BY <1>4, <1>5, <2>1, Positions DEF Stream
    <2>8. size = Size(q, p + 1)
      BY <1>3, <2>4, <2>5 DEF size, Size
    <2>9. Len(t) = Len(s) - size /\ \A n \in 1..Len(t) : t[n] = s[n + size]
      BY <1>2, <1>8, <2>1, <2>2 DEF Stream
    <2>10. Streamed(t, p + 1, q)
      BY <2>6, <2>7, <2>8, <2>9, Shorter
    <2> QED BY <1>2, <1>7, <2>2, <2>4, <2>5, <2>10
  <1>13. /\ age' \in Nat /\ spent' \in 0..Turn /\ waited' \in Nat
         /\ Timely' /\ ActedUpon'
    <2>1. PICK d \in Delays : spent' = spent + d /\ waited' = spent + d
      BY <1>2
    <2>2. spent \in 0..Turn /\ Turn \in Nat /\ Limit \in Nat
      BY <1>1, WireAssumption DEF Types
    <2>3. spent' \in 0..Turn /\ waited' \in 0..Turn
      BY <2>1, <2>2 DEF Delays
    <2> QED BY <1>2, <2>2, <2>3 DEF Timely, ActedUpon
  <1>10. Types'
    <2>1. Packets' = Packets
      BY <1>2 DEF Packets
    <2>2. Len(parsed') <= Len(sent)
      BY <1>3, <1>7
    <2> QED BY <1>2, <1>4, <1>7, <1>8, <1>13, <2>1, <2>2 DEF Types
  <1>11. Looked' /\ Stops'
    BY <1>2 DEF Looked, Stops
  <1>12. Understanding'
    <2>1. /\ DOMAIN parsed = 1..Len(parsed) /\ Len(parsed) \in Nat
          /\ DOMAIN parsed' = 1..Len(parsed')
      BY <1>4, <1>7, LenProperties
    <2>2. \A i \in DOMAIN parsed' : i \in DOMAIN parsed \/ i = Len(parsed) + 1
      BY <1>7, <2>1
    <2>3. \A i \in DOMAIN parsed : /\ parsed'[i] = parsed[i]
                                   /\ sent[i].header /\ parsed[i] = sent[i].means
      BY <1>1, <1>7, <2>1 DEF Understanding
    <2>4. /\ sent[Len(parsed) + 1].header
          /\ parsed'[Len(parsed) + 1] = sent[Len(parsed) + 1].means
      BY <1>3, <1>7
    <2> QED BY <1>2, <2>2, <2>3, <2>4 DEF Understanding
  <1> QED BY <1>9, <1>10, <1>11, <1>12, <1>13 DEF WireInv

THEOREM Inductive == Spec => []WireInv
  <1>1. WireInv /\ UNCHANGED vars => WireInv'
    <2> SUFFICES ASSUME WireInv, UNCHANGED vars PROVE WireInv'
      OBVIOUS
    <2>1. /\ UNCHANGED <<transit, clock, parsed, given, side, sent, buffer, age>>
          /\ phase' = phase
      BY DEF vars, transit, clock, results
    <2>2. Looked' /\ Stops' /\ ActedUpon'
      BY <2>1 DEF WireInv, Looked, Stops, ActedUpon
    <2> QED BY <2>1, <2>2, PhaseStep
  <1>2. WireInv /\ [Next]_vars => WireInv'
    BY <1>1, WriteStep, ReceiveStep, PollStep, CloseStep, InvalidStep, ParseStep,
       ParsedStep DEF Next
  <1> QED BY Initially, <1>2, PTL DEF Spec
-----------------------------------------------------------------------------
(* However the stream is cut, the packets come out whole, in order and     *)
(* with what they meant, none is left behind, and only a header that is    *)
(* not one ends a connection (main.c:157, protocol.py:68).                *)
THEOREM PacketsComeWhole == Spec => []ParsedInOrder
  <1>1. WireInv => ParsedInOrder
    <2> SUFFICES ASSUME WireInv PROVE ParsedInOrder
      OBVIOUS
    <2>1. \A i \in DOMAIN parsed : sent[i].header /\ parsed[i] = sent[i].means
      BY DEF WireInv, Understanding
    <2>2. ASSUME phase = "poll", line = <<>>, buffer = <<>> PROVE given = Len(sent)
      <3>1. Types /\ Streamed(Stream, Len(parsed), sent)
        BY DEF WireInv
      <3>2. Stream = <<>> /\ DOMAIN Stream = {}
        <4>1. <<>> \in Seq(Octet) /\ DOMAIN <<>> = {}
          BY EmptySeq
        <4> QED BY <2>2, <4>1, ConcatEmptySeq DEF Stream
      <3>3. /\ Len(sent) \in Nat /\ Len(parsed) \in 0..Len(sent) /\ Sizes(sent)
        BY <3>1, Known
      <3>4. ASSUME Len(parsed) /= Len(sent) PROVE FALSE
        <4>1. Len(sent) \in Ahead(Len(parsed), sent) /\ Len(sent) \in 1..Len(sent)
          BY <3>3, <3>4 DEF Ahead
        <4>2. 1 \in 1..Size(sent, Len(sent))
          BY <4>1, <3>3 DEF Sizes
        <4> QED BY <3>1, <3>2, <4>1, <4>2 DEF Streamed, AllThere
      <3> QED BY <2>2, <3>4 DEF WireInv, ActedUpon
    <2>3. phase = "invalid" => LET next == sent[Len(parsed) + 1]
                               IN  ~next.header \/ next.length > W_MAX
      BY DEF WireInv, Stops
    <2>4. side = "device" => given = Len(parsed)
      BY DEF WireInv, ActedUpon
    <2> QED BY <2>1, <2>2, <2>3, <2>4 DEF ParsedInOrder
  <1> QED BY Inductive, <1>1, PTL

(* The server always has room for what a packet lacks, so that it never    *)
(* receives into no bytes and takes the answer for the end of the stream   *)
(* (main.c:148).                                                           *)
THEOREM AlwaysRoom == Spec => []RoomLeft
  <1>1. WireInv => RoomLeft
    <2> SUFFICES ASSUME WireInv, phase = "poll"
                 PROVE  Room > 0 \/ (side = "pc" /\ line = <<>>)
      BY DEF RoomLeft
    <2>1. Types /\ Streamed(Stream, Len(parsed), sent) /\ Looked
      BY DEF WireInv
    <2>2. /\ Len(buffer) \in Nat /\ line \in Seq(Octet) /\ side \in {"device", "pc"}
          /\ buffer \in Seq(Octet)
      BY <2>1, LenProperties DEF Types
    <2>3. CASE side = "device" /\ Len(buffer) < W_HEADER
      BY <2>2, <2>3, WireAssumption DEF Room, Capacity
    <2>4. CASE side = "device" /\ Len(buffer) >= W_HEADER
      <3> DEFINE next == sent[Len(parsed) + 1]
      <3>1. next.length <= W_MAX /\ Len(buffer) < W_HEADER + next.length
        BY <2>1, <2>4 DEF Looked
      <3>2. next.length \in Nat
        <4>1. HasHeader
          BY <2>4 DEF HasHeader
        <4> QED BY <2>1, <4>1, HeaderThere
      <3> HIDE DEF next
      <3> QED BY <2>2, <2>4, <3>1, <3>2, WireAssumption DEF Room, Capacity
    <2>5. CASE side = "pc"
      BY <2>2, <2>5, EmptySeq DEF Room
    <2> QED BY <2>2, <2>3, <2>4, <2>5, WireAssumption
  <1> QED BY Inductive, <1>1, PTL

(* No packet expires that has not waited for Limit; and whatever a turn of *)
(* the loop may take, none is there to be parsed that has waited for more  *)
(* than two turns beyond it (main.c:188, 200 and 148).                     *)
THEOREM IncompleteOnesExpire == Spec => []IncompleteExpires
  <1>1. WireInv => IncompleteExpires
    <2> SUFFICES ASSUME WireInv PROVE IncompleteExpires
      OBVIOUS
    <2>1. /\ age \in Nat /\ waited \in Nat /\ Turn \in Nat /\ Limit \in Nat
          /\ phase = "expired" => age > Limit
          /\ Timely
      BY WireAssumption DEF WireInv, Types, Stops
    <2> QED BY <2>1 DEF Timely, IncompleteExpires
  <1> QED BY Inductive, <1>1, PTL

-----------------------------------------------------------------------------
(* The settings: the rules of the PC and of the device, and what becomes   *)
(* of a request that both accept.                                          *)

(* The PC refuses exactly what the device would refuse, and what the device*)
(* takes from a payload is what the user meant (wifi.py:8, wifi_config.c:5 *)
(* and 36).                                                                *)
THEOREM RulesAgree ==
    ASSUME NoCountry \notin Countries, NEW C, NEW a \in Arguments(C)
    PROVE  /\ Permitted(a) <=> wifi_payload_parse(provisioning(a))
           /\ Candidate(provisioning(a)) = Meaning(a)
  <1> DEFINE p == provisioning(a)
             c == Candidate(p)
  <1>1. /\ a.mode \in {"ap", "station"} /\ a.ssid \in 0..255 /\ a.password \in 0..255
        /\ a.band \in {"2.4", "5"} /\ a.channel \in 0..255 /\ a.nul \in BOOLEAN
    BY DEF Arguments
  <1>2. c = Meaning(a)
    BY DEF Candidate, provisioning, Meaning
  <1>3. /\ c.station = Byte(a.mode = "station") /\ c.ssid = a.ssid
        /\ c.password = a.password /\ c.band = Byte(a.band = "5")
        /\ c.channel = a.channel /\ c.country = a.country
    BY <1>2 DEF Meaning
  <1>4. wifi_payload_parse(p) <=>
          /\ a.ssid <= 32 /\ a.password <= 63 /\ ~a.nul /\ wifi_saved_validate(c)
    BY <1>1 DEF wifi_payload_parse, provisioning, Offset
  <1>5. CASE a.mode = "station" /\ a.band = "5"
    <2>1. c.station = 1 /\ c.band = 1
      BY <1>3, <1>5 DEF Byte
    <2> QED
      BY <1>1, <1>2, <1>3, <1>4, <1>5, <2>1
      DEF Permitted, wifi_saved_validate, Mode
  <1>6. CASE a.mode = "station" /\ a.band = "2.4"
    <2>1. c.station = 1 /\ c.band = 0
      BY <1>3, <1>6 DEF Byte
    <2> QED
      BY <1>1, <1>2, <1>3, <1>4, <1>6, <2>1
         DEF Permitted, wifi_saved_validate, Mode
  <1>7. CASE a.mode = "ap" /\ a.band = "5"
    <2>1. c.station = 0 /\ c.band = 1
      BY <1>3, <1>7 DEF Byte
    <2> QED
      BY <1>1, <1>2, <1>3, <1>4, <1>7, <2>1
      DEF Permitted, wifi_saved_validate, Mode,
      Channels5GHz
  <1>8. CASE a.mode = "ap" /\ a.band = "2.4"
    <2>1. c.station = 0 /\ c.band = 0
      BY <1>3, <1>8 DEF Byte
    <2> QED
      BY <1>1, <1>2, <1>3, <1>4, <1>8, <2>1
         DEF Permitted, wifi_saved_validate, Mode
  <1> QED BY <1>1, <1>5, <1>6, <1>7, <1>8
-----------------------------------------------------------------------------
(* What the clients of this PC library send, with any arguments.           *)
PcRequests(C) ==
    {[payload |-> provisioning(a), means |-> Meaning(a)] :
       a \in {b \in Arguments(C) : Permitted(b)}}

(* Clients send those, and whatever the device refuses. *)
ClientsOf(C) ==
    \A r \in Clients : r \in PcRequests(C) \/ ~wifi_payload_parse(r.payload)

(* What is stored is valid and is what was asked for, also between the     *)
(* check and the save.                                                     *)
Stored ==
    /\ wifi_saved_validate(flash.settings) /\ flash.settings = asked
    /\ main = "save" => Candidate(request.payload) = request.means
                        /\ wifi_saved_validate(request.means)

(* Before network_init() has ended well, the recovery thread waits; the    *)
(* radio is set before it is used.                                         *)
Started ==
    /\ main \in {"boot", "loaded", "radio", "report", "ready"} => ~ready
    /\ recovery /= "wait" => ready
    /\ main \in {"boot", "loaded"} => ~radio_ready
    /\ main \in {"radio", "report", "ready"} => radio_ready

Radio ==
    /\ pending \/ connected \/ recovery = "retry" => radio_ready
    /\ radio_ready => hal = [band |-> saved.band, country |-> saved.country]

NetworkInv == Stored /\ Started /\ Radio /\ SettingsKept

LEMMA NetworkInitial ==
    ASSUME \A s \in Legacy : wifi_saved_validate(s), NetworkInit
    PROVE  NetworkInv
  <1>1. wifi_saved_validate(Default)
    BY DEF wifi_saved_validate, Default, Mode
  <1>2. wifi_saved_validate(flash.settings) /\ flash.settings = asked
    BY <1>1 DEF NetworkInit
  <1> QED BY <1>2 DEF NetworkInit, NetworkInv, Stored, Started, Radio,
             SettingsKept

(* A reboot, or a loss of power, leaves the flash. *)
LEMMA ResetStep ==
    ASSUME NetworkInv, Reset
    PROVE  NetworkInv'
  <1>1. /\ main' = "boot" /\ ready' = FALSE /\ radio_ready' = FALSE
        /\ connected' = FALSE /\ pending' = FALSE /\ recovery' = "wait"
        /\ flash' = flash /\ asked' = asked
    BY DEF Reset, store
  <1> QED BY <1>1 DEF NetworkInv, Stored, Started, Radio, SettingsKept

LEMMA InitStep ==
    ASSUME NetworkInv, network_init
    PROVE  NetworkInv'
  <1> USE DEF Goto, store, thread, NetworkInv, Stored, Started,
    Radio, SettingsKept
  <1>1. CASE InitFails
    BY <1>1 DEF InitFails, radio
  <1>2. CASE load
    <2>1. saved' = flash.settings
      BY <1>2 DEF load, Loaded
    <2> QED BY <1>2, <2>1 DEF load, radio
  <1>3. CASE RadioFails
    BY <1>3 DEF RadioFails
  <1>4. CASE RadioSet
    BY <1>4 DEF RadioSet
  <1>5. CASE Start
    BY <1>5 DEF Start
  <1>6. CASE NoAddress
    BY <1>6 DEF NoAddress, radio
  <1>7. CASE Report
    BY <1>7 DEF Report
  <1>8. CASE Ready
    BY <1>8 DEF Ready
  <1> QED BY <1>1, <1>2, <1>3, <1>4, <1>5, <1>6, <1>7, <1>8 DEF network_init

(* The only steps that change the flash, and what a request means. *)
LEMMA ServeStep ==
    ASSUME NoCountry \notin Countries, NEW C, ClientsOf(C), NetworkInv, Serve
    PROVE  NetworkInv'
  <1> USE DEF Goto, store, thread, radio
  <1>1. CASE Provision
    <2>1. request' \in Clients /\ wifi_payload_parse(request'.payload)
      BY <1>1 DEF Provision
    <2>2. PICK a \in Arguments(C) :
            request' = [payload |-> provisioning(a), means |-> Meaning(a)]
      BY <2>1 DEF ClientsOf, PcRequests
    <2>3. Candidate(request'.payload) = request'.means
      BY <2>2, RulesAgree, Zenon
    <2>4. wifi_saved_validate(request'.means)
      BY <2>1, <2>3 DEF wifi_payload_parse
    <2> QED BY <1>1, <2>3, <2>4 DEF Provision, NetworkInv, Stored, Started,
               Radio, SettingsKept
  <1>2. CASE Save
    <2>1. CASE Goto("save", "reply")
      <3>1. flash'.settings = Candidate(request.payload) /\ asked' = request.means
        BY <1>2, <2>1 DEF Save
      <3> QED BY <1>2, <2>1, <3>1 DEF Save, NetworkInv, Stored, Started, Radio,
                 SettingsKept
    <2>2. CASE Goto("save", "serve") /\ SaveFails
      BY <1>2, <2>2 DEF Save, SaveFails, NetworkInv, Stored, Started,
         Radio, SettingsKept
    <2> QED BY <1>2, <2>1, <2>2 DEF Save
  <1>3. CASE Reply
    BY <1>3 DEF Reply, NetworkInv, Stored, Started, Radio, SettingsKept
  <1>4. CASE Restart
    BY <1>4, ResetStep DEF Restart
  <1> QED BY <1>1, <1>2, <1>3, <1>4 DEF Serve

LEMMA RecoveryStep ==
    ASSUME NetworkInv, recovery_thread
    PROVE  NetworkInv'
  <1> USE DEF Step, store, server, radio, NetworkInv,
    Stored, Started, Radio, SettingsKept
  <1>1. CASE Wake
    BY <1>1 DEF Wake
  <1>2. CASE Sample
    BY <1>2 DEF Sample
  <1>3. CASE Clear
    <2>1. wifi_saved_validate(Default)
      BY DEF wifi_saved_validate, Default, Mode
    <2> QED BY <1>3, <2>1 DEF Clear, SaveFails
  <1>4. CASE Reboot
    BY <1>4, ResetStep DEF Reboot
  <1>5. CASE Linked
    BY <1>5 DEF Linked
  <1>6. CASE Unlinked
    BY <1>6 DEF Unlinked, Disconnected, RadioUsable
  <1>7. CASE Reconnect
    BY <1>7 DEF Reconnect
  <1>8. CASE ReconnectFailed
    BY <1>8 DEF ReconnectFailed
  <1> QED BY <1>1, <1>2, <1>3, <1>4, <1>5, <1>6, <1>7, <1>8 DEF recovery_thread

LEMMA NetworkStep ==
    ASSUME NoCountry \notin Countries, NEW C, ClientsOf(C), NetworkInv,
             [NetworkNext]_networkVars
    PROVE  NetworkInv'
  <1> USE DEF NetworkInv, Stored, Started, Radio, SettingsKept, store,
    server, radio, thread
  <1>1. CASE wifi_event
    BY <1>1 DEF wifi_event, Result, LinkLost
  <1>2. CASE Advance
    BY <1>2 DEF Advance
  <1>3. CASE Push
    BY <1>3 DEF Push
  <1>4. CASE UNCHANGED networkVars
    BY <1>4 DEF networkVars
  <1> QED
    BY <1>1, <1>2, <1>3, <1>4, InitStep, ServeStep, RecoveryStep, ResetStep
    DEF NetworkNext, PowerLoss

(* With clients of this library and settings that an earlier firmware took,*)
(* the invariant holds always.                                             *)
THEOREM NetworkInductive ==
    ASSUME NoCountry \notin Countries, NEW C, ClientsOf(C),
           \A s \in Legacy : wifi_saved_validate(s)
    PROVE  NetworkSpec => []NetworkInv
  <1>1. NetworkInit => NetworkInv
    BY NetworkInitial
  <1>2. NetworkInv /\ [NetworkNext]_networkVars => NetworkInv'
    BY NetworkStep
  <1> QED BY <1>1, <1>2, PTL DEF NetworkSpec

(* What the user asked for last is what the device loads at every boot     *)
(* (network.c:26, 51 and 78).                                              *)
THEOREM SettingsAreKept ==
    ASSUME NoCountry \notin Countries, NEW C, ClientsOf(C),
           \A s \in Legacy : wifi_saved_validate(s)
    PROVE  NetworkSpec => []SettingsKept
  <1>1. NetworkInv => SettingsKept
    BY DEF NetworkInv
  <1> QED BY <1>1, NetworkInductive, PTL

(* The radio works on the band and under the country of the settings only  *)
(* (network.c:84 and 132).                                                 *)
THEOREM BandAsSaved ==
    ASSUME NoCountry \notin Countries, NEW C, ClientsOf(C),
           \A s \in Legacy : wifi_saved_validate(s)
    PROVE  NetworkSpec => []OnlyOnSavedBand
  <1>1. NetworkInv => OnlyOnSavedBand
    BY DEF NetworkInv, Radio, OnlyOnSavedBand
  <1> QED BY <1>1, NetworkInductive, PTL
=============================================================================
