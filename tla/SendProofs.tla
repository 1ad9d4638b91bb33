------------------------------ MODULE SendProofs ------------------------------
(* What the contract gives a client, for any number of connections,        *)
(* requests and frames; and with it, what "wcan send" gives its user.      *)
EXTENDS Send, SequenceTheorems, TLAPS

DeviceTypes ==
    /\ executed \in [Device!Requests -> {0, 1}]
    /\ answer \in [Device!Requests -> Device!Answers]
    /\ count \in [Device!Requests -> Nat] /\ bus \in [Device!Requests -> Nat]
    /\ schedule \in Device!Requests \cup {0} /\ told \in Seq(Device!Event)

(* Nothing is known, asked for or scheduled of a request before it was     *)
(* executed.                                                               *)
Origins ==
    /\ \A r \in Device!Requests : executed[r] = 0 => count[r] = 0 /\ answer[r] = "none"
    /\ schedule /= 0 => executed[schedule] = 1
    /\ \A r \in Device!Requests : bus[r] <= count[r]

(* An event that was told is of a request that was executed, and a final   *)
(* one that claims to know is right.                                       *)
Right(e) ==
    /\ bus[e.request] = e.completed /\ schedule /= e.request
    /\ e.error = "OK" => e.completed = count[e.request]
Claims(e) == e.terminal /\ e.error /= "EINPROGRESS"
TrueEvents ==
    \A i \in DOMAIN told :
      executed[told[i].request] = 1 /\ (Claims(told[i]) => Right(told[i]))

DeviceInv == DeviceTypes /\ Origins /\ TrueEvents

LEMMA DeviceInitial == Device!Init => DeviceInv
  BY DEF Device!Init, DeviceInv, DeviceTypes, Origins, TrueEvents, Device!Requests,
         Device!Answers

(* A step that sends frames of the open schedule only, and opens one only  *)
(* for a request that was never executed, breaks nothing told before.      *)
LEMMA ToldBefore ==
    ASSUME DeviceInv, UNCHANGED told,
           executed' \in [Device!Requests -> {0, 1}],
           \A r \in Device!Requests : executed[r] = 1 => executed'[r] = 1,
           \A r \in Device!Requests : executed[r] = 1 /\ r /= schedule =>
                 bus'[r] = bus[r] /\ count'[r] = count[r] /\ schedule' /= r
    PROVE  TrueEvents'
  <1>1. SUFFICES ASSUME NEW i \in DOMAIN told
                 PROVE  /\ executed'[told[i].request] = 1
                        /\ Claims(told[i]) => Right(told[i])'
    BY DEF TrueEvents, Claims
  <1> DEFINE e == told[i]
  <1>2. e.request \in Device!Requests
    <2>1. told \in Seq(Device!Event)
      BY DEF DeviceInv, DeviceTypes
    <2>2. e \in Device!Event
      BY <1>1, <2>1
    <2> QED BY <2>2 DEF Device!Event
  <1>3. executed[e.request] = 1 /\ (Claims(e) => Right(e))
    BY <1>1 DEF DeviceInv, TrueEvents
  <1>4. CASE Claims(e)
    <2>1. e.request /= schedule
      BY <1>3, <1>4 DEF Right
    <2> QED BY <1>2, <1>3, <1>4, <2>1 DEF Right
  <1> QED BY <1>2, <1>3, <1>4

(* A schedule that ends, with or without a last frame. *)
LEMMA AbortStep ==
    ASSUME DeviceInv, Device!Abort
    PROVE  /\ bus' \in [Device!Requests -> Nat] /\ schedule' = 0
           /\ \A r \in Device!Requests : bus'[r] <= count[r]
           /\ \A r \in Device!Requests : r /= schedule => bus'[r] = bus[r]
  <1> USE DEF DeviceInv, DeviceTypes, Origins
  <1>1. CASE UNCHANGED bus
    BY <1>1 DEF Device!Abort
  <1>2. CASE schedule /= 0 /\ bus[schedule] < count[schedule]
             /\ bus' = [bus EXCEPT ![schedule] = @ + 1]
    <2>1. /\ schedule \in Device!Requests /\ schedule' = 0
          /\ bus[schedule] \in Nat /\ count[schedule] \in Nat
      BY <1>2 DEF Device!Abort
    <2>2. bus'[schedule] = bus[schedule] + 1
      BY <1>2, <2>1
    <2>3. bus'[schedule] <= count[schedule] /\ bus'[schedule] \in Nat
      BY <1>2, <2>1, <2>2
    <2> QED BY <1>2, <2>1, <2>3
  <1> QED BY <1>1, <1>2 DEF Device!Abort

(* Steps that end a schedule and touch nothing else.                       *)
LEMMA EndStep ==
    ASSUME DeviceInv, Device!Abort, UNCHANGED <<executed, answer, count, told>>
    PROVE  DeviceInv'
  <1>1. DeviceTypes' /\ Origins'
    BY AbortStep DEF DeviceInv, DeviceTypes, Origins
  <1>2. TrueEvents'
    BY AbortStep, ToldBefore DEF DeviceInv, DeviceTypes, Device!Requests
  <1> QED BY <1>1, <1>2 DEF DeviceInv

LEMMA ExecuteStep ==
    ASSUME DeviceInv, NEW r \in Device!Requests, Device!Execute(r)
    PROVE  DeviceInv'
  <1>1. executed[r] = 0 /\ r /= 0 /\ r \in Int
    BY DEF Device!Execute, DeviceInv, DeviceTypes, Device!Requests
  <1>2. /\ executed' = [executed EXCEPT ![r] = 1] /\ UNCHANGED <<answer, told>>
    BY DEF Device!Execute
  <1>3. CASE Device!Effectless
    <2>1. DeviceTypes' /\ Origins'
      BY <1>2, <1>3 DEF Device!Effectless, DeviceInv, DeviceTypes, Origins
    <2>2. TrueEvents'
      BY <1>2, <1>3, ToldBefore DEF Device!Effectless, DeviceInv, DeviceTypes
    <2> QED BY <2>1, <2>2 DEF DeviceInv
  <1>4. CASE Device!Reconfigure
    <2>1. Device!Abort /\ UNCHANGED count
      BY <1>4 DEF Device!Reconfigure
    <2>2. DeviceTypes' /\ Origins'
      BY <1>2, <2>1, AbortStep DEF DeviceInv, DeviceTypes, Origins
    <2>3. TrueEvents'
      BY <1>2, <2>1, AbortStep, ToldBefore DEF DeviceInv, DeviceTypes, Device!Requests
    <2> QED BY <2>2, <2>3 DEF DeviceInv
  <1>5. ASSUME NEW n \in 1..MaxCount, Device!Accept(r, n)
        PROVE  DeviceInv'
    <2>1. /\ schedule' = r /\ UNCHANGED bus
          /\ count' = [count EXCEPT ![r] = n] /\ n \in Nat
      BY <1>5 DEF Device!Accept
    <2>2. DeviceTypes'
      BY <1>2, <2>1 DEF DeviceInv, DeviceTypes
    <2>3. bus[r] = 0 /\ count[r] = 0
      BY <1>1 DEF DeviceInv, DeviceTypes, Origins
    <2>4. Origins'
      BY <1>1, <1>2, <2>1, <2>3 DEF DeviceInv, DeviceTypes, Origins
    <2>5. TrueEvents'
      BY <1>1, <1>2, <2>1, ToldBefore DEF DeviceInv, DeviceTypes
    <2> QED BY <2>2, <2>4, <2>5 DEF DeviceInv
  <1> QED BY <1>3, <1>4, <1>5 DEF Device!Execute

LEMMA TransmitStep ==
    ASSUME DeviceInv, Device!Transmit
    PROVE  DeviceInv'
  <1>1. /\ schedule \in Device!Requests /\ bus[schedule] < count[schedule]
        /\ bus' = [bus EXCEPT ![schedule] = @ + 1]
        /\ schedule' \in {schedule, 0}
        /\ UNCHANGED <<executed, answer, count, told>>
    BY DEF Device!Transmit, DeviceInv, DeviceTypes
  <1>2. bus[schedule] \in Nat /\ count[schedule] \in Nat
    BY <1>1 DEF DeviceInv, DeviceTypes
  <1>3. bus'[schedule] = bus[schedule] + 1
    BY <1>1 DEF DeviceInv, DeviceTypes
  <1>4. bus'[schedule] \in Nat /\ bus'[schedule] <= count[schedule]
    BY <1>1, <1>2, <1>3
  <1>5. DeviceTypes' /\ Origins'
    BY <1>1, <1>4 DEF DeviceInv, DeviceTypes, Origins
  <1>6. TrueEvents'
    BY <1>1, ToldBefore DEF DeviceInv, DeviceTypes, Device!Requests
  <1> QED BY <1>5, <1>6 DEF DeviceInv

(* A new event is right when it is told. *)
LEMMA TellStep ==
    ASSUME DeviceInv, NEW e \in Device!Event, Device!Tell(e)
    PROVE  DeviceInv'
  <1>1. /\ told' = Append(told, e) /\ e.request \in Device!Requests
        /\ answer[e.request] = "accepted" /\ Device!Honest(e)
        /\ (e.terminal => schedule /= e.request)
        /\ UNCHANGED <<executed, answer, schedule, count, bus>>
    BY DEF Device!Tell, Device!Event
  <1>2. DeviceTypes' /\ Origins'
    BY <1>1 DEF DeviceInv, DeviceTypes, Origins
  <1>3. executed[e.request] = 1
    BY <1>1 DEF DeviceInv, DeviceTypes, Origins
  <1>4. Claims(e) => Right(e)
    <2>1. SUFFICES ASSUME Claims(e) PROVE Right(e)
      OBVIOUS
    <2>2. e.completed \in Int /\ bus[e.request] \in Int
      BY <1>1 DEF Device!Event, DeviceInv, DeviceTypes
    <2>3. bus[e.request] - e.completed = 0
      BY <1>1, <2>1 DEF Device!Honest, Claims
    <2>4. e.error = "OK" => e.completed = count[e.request]
      BY <1>1, <2>1 DEF Device!Honest, Claims
    <2> QED BY <1>1, <2>1, <2>2, <2>3, <2>4 DEF Right, Claims
  <1>5. TrueEvents'
    <2>1. SUFFICES ASSUME NEW i \in DOMAIN told'
                   PROVE  executed[told'[i].request] = 1
                          /\ (Claims(told'[i]) => Right(told'[i]))
      BY <1>1 DEF TrueEvents, Claims, Right
    <2>2. told \in Seq(Device!Event) /\ DOMAIN told' = 1..(Len(told) + 1)
      BY <1>1 DEF DeviceInv, DeviceTypes
    <2>3. CASE i = Len(told) + 1
      BY <1>1, <1>3, <1>4, <2>2, <2>3
    <2>4. CASE i \in DOMAIN told
      BY <1>1, <2>2, <2>4 DEF DeviceInv, TrueEvents
    <2> QED BY <2>1, <2>2, <2>3, <2>4
  <1> QED BY <1>2, <1>5 DEF DeviceInv

LEMMA DeviceStep == DeviceInv /\ [Device!Next]_(Device!vars) => DeviceInv'
  <1> SUFFICES ASSUME DeviceInv, [Device!Next]_(Device!vars) PROVE DeviceInv'
    OBVIOUS
  <1>1. CASE UNCHANGED <<executed, answer, schedule, count, bus, told>>
    BY <1>1 DEF DeviceInv, DeviceTypes, Origins, TrueEvents, Claims, Right
  <1>2. CASE Device!Connect
    BY <1>1, <1>2 DEF Device!Connect
  <1>3. CASE Device!Disconnect
    BY <1>3, EndStep DEF Device!Disconnect
  <1>4. CASE Device!Revoke
    BY <1>4, EndStep DEF Device!Revoke
  <1>5. CASE Device!Transmit
    BY <1>5, TransmitStep
  <1>6. CASE Device!Finish
    BY <1>6, EndStep DEF Device!Finish, Device!Abort
  <1>7. ASSUME NEW r \in Device!Requests, Device!Execute(r) PROVE DeviceInv'
    BY <1>7, ExecuteStep
  <1>8. ASSUME NEW r \in Device!Requests, NEW a \in Device!Answers, Device!Reply(r, a)
        PROVE  DeviceInv'
    <2>1. /\ executed[r] = 1 /\ answer' = [answer EXCEPT ![r] = a]
          /\ UNCHANGED <<executed, schedule, count, bus, told>>
      BY <1>8 DEF Device!Reply
    <2>2. DeviceTypes' /\ Origins'
      BY <1>8, <2>1 DEF DeviceInv, DeviceTypes, Origins
    <2>3. TrueEvents'
      BY <2>1 DEF DeviceInv, TrueEvents, Claims, Right
    <2> QED BY <2>2, <2>3 DEF DeviceInv
  <1>9. ASSUME NEW e \in Device!Event, Device!Tell(e) PROVE DeviceInv'
    BY <1>9, TellStep
  <1> QED
    BY <1>1, <1>2, <1>3, <1>4, <1>5, <1>6, <1>7, <1>8, <1>9 DEF Device!Next, Device!vars

(* Whatever device keeps the contract, however often it is reconnected to: *)
(* a request is executed at most once, never more frames are sent than it  *)
(* asked for, and a final event that a client was told stays true, for     *)
(* nothing of a finished transmission is sent later (main.c serve and      *)
(* command, capture.c, simulator.py).                                      *)
THEOREM ClientsAreToldTheTruth == Device!Spec => []Device!Truthful
  <1>1. ASSUME DeviceInv PROVE Device!Truthful
    <2>1. \A r \in Device!Requests : executed[r] \in {0, 1} /\ bus[r] <= count[r]
      BY <1>1 DEF DeviceInv, DeviceTypes, Origins
    <2>2. \A r \in Device!Requests : executed[r] <= 1
      BY <2>1
    <2>3. \A i \in DOMAIN told : Claims(told[i]) => Right(told[i])
      BY <1>1 DEF DeviceInv, TrueEvents
    <2> QED BY <2>1, <2>2, <2>3 DEF Claims, Right, Device!Truthful
  <1> QED BY DeviceInitial, DeviceStep, <1>1, PTL DEF Device!Spec
-----------------------------------------------------------------------------
(* All that the recorder was given, whether it is in the file yet or not:  *)
(* nothing is taken back, so that it only grows.                           *)
Kinds == {"metadata", "tx_request", "accepted", "tx_event", "disconnect"}
Entry == [type : Kinds, event : Seq(Device!Event)]
Text == lines \o buffer
Message == [request : Nat, answer : Device!Answers, event : Seq(Device!Event)]

Types ==
    /\ recording \in BOOLEAN /\ raised \in BOOLEAN
    /\ lines \in Seq(Entry) /\ buffer \in Seq(Entry)
    /\ wire \in Seq(Message)
    /\ events \in Seq(Device!Event)

(* Where the program can be, and with which request. *)
Places ==
    /\ at \in {"connect", "enter", "intent", "send", "await", "create", "accepted",
               "loop", "finally", "disconnect", "close", "leave", "exit"}
    /\ step \in CONFIGURE..STOP /\ outgoing \in 0..step
    /\ \A r \in Device!Requests : executed[r] = 1 => r <= step
    /\ at \in {"connect", "create"} => step = CONFIGURE
    /\ at = "intent" => step = TX /\ recording
    /\ at \in {"accepted", "loop"} => step = TX
    /\ at = "finally" => InTry
    /\ at \in {"disconnect", "close"} => step /= CONFIGURE
    /\ ~recording \/ (step = CONFIGURE /\ at \notin {"leave", "exit"})
         => lines = <<>> /\ buffer = <<>>

(* The answers on the wire, and the one that was handed over, are those of *)
(* the device; the program is past the acceptance only with one.           *)
Replies ==
    /\ at \in {"intent", "send"} => response = "none"
    /\ at = "await" => response \in {"none", answer[step]}
    /\ at \in {"accepted", "loop"} => answer[TX] = "accepted"
    /\ answer[TX] /= "applied"
    /\ \A n \in 1..Len(wire) :
         LET r == wire[n].request
         IN  r /= 0 => /\ r \in Device!Requests /\ wire[n].answer /= "none"
                       /\ answer[r] = wire[n].answer

(* The request to transmit, and the record of its intent before it.        *)
Noted == \E i \in 1..Len(lines) : lines[i].type = "tx_request"
Asked ==
    /\ count[TX] \in {0, Count}
    /\ answer[TX] = "accepted" => count[TX] = Count
    /\ recording /\ (outgoing = TX \/ executed[TX] = 1 \/ (step = TX /\ at = "send"))
         => Noted

(* What the device tells, of the one transmission: it ends once.           *)
Told ==
    \A i \in 1..Len(told) :
      /\ told[i].request = TX /\ answer[TX] = "accepted"
      /\ told[i].terminal => i = Len(told)

(* The file says what happened, and then perhaps that it was the end.      *)
Past == at \in {"close", "leave", "exit"}
Faithful ==
    /\ \A i \in 1..Len(Text) :
         \/ i <= Len(Truth) /\ Text[i] = Truth[i]
         \/ Past /\ i = Len(Text) /\ Text[i] = Line("disconnect")
    /\ Len(Text) >= 3 /\ Text[3] = Line("accepted") => answer[TX] = "accepted"

(* The program has taken t of the events; those that follow are in its     *)
(* queue and then on the wire: f[n] were told before its next item, n + 1. *)
Flow(t, f) ==
    /\ t \in Nat /\ f \in [0..Len(wire) -> 0..Len(told)]
    /\ f[0] = t + Len(events) /\ f[Len(wire)] = Len(told)
    /\ \A n \in 1..Len(wire) :
         IF wire[n].request = 0
         THEN f[n] = f[n - 1] + 1 /\ wire[n].event = <<told[f[n]]>>
         ELSE f[n] = f[n - 1]
    /\ \A i \in 1..Len(events) : events[i] = told[t + i]

(* How far the file is, at each point; and what an end without an          *)
(* exception says.                                                         *)
Reading(t) ==
    /\ step \in {CONFIGURE, START}
       \/ (step = TX /\ at \in {"enter", "intent", "send", "await", "accepted"}) => t = 0
    /\ recording =>
         /\ step = START /\ at \in {"enter", "send", "await"} => Len(Text) = 1
         /\ step = TX /\ at \in {"enter", "intent"} => Len(Text) = 1
         /\ step = TX /\ at \in {"send", "await", "accepted"} => Len(Text) = 2
         /\ at = "loop" => Len(Text) = t + 3

Ended == at \in {"finally", "disconnect", "close", "leave", "exit"} \/ step = STOP
Done(t) ==
    ~raised /\ Ended =>
      /\ t = Len(told) /\ t > 0 /\ told[t].terminal /\ told[t].error = "OK"
      /\ recording => Len(Text) = (IF Past THEN t + 4 ELSE t + 3)
      /\ recording /\ at \in {"leave", "exit"} => buffer = <<>>

Progress == \E t, f : Flow(t, f) /\ Reading(t) /\ Done(t)

SendInv ==
    /\ DeviceInv /\ Types /\ Places /\ Replies /\ Asked /\ Told /\ Faithful
    /\ Progress

-----------------------------------------------------------------------------
LEMMA Ids ==
    /\ CONFIGURE = 1 /\ START = 2 /\ TX = 3 /\ STOP = 4
    /\ \A r \in 1..4 : r \in Device!Requests
  <1>1. MaxConnections * MaxId \in Nat /\ MaxConnections * MaxId >= MaxId
    BY SendAssumption
  <1> QED BY <1>1, SendAssumption DEF Device!Requests, CONFIGURE, START, TX, STOP

(* Two sequences in one. *)
LEMMA Both ==
    ASSUME NEW S, NEW a \in Seq(S), NEW b \in Seq(S)
    PROVE  /\ a \o b \in Seq(S) /\ Len(a) \in Nat /\ Len(b) \in Nat
           /\ Len(a \o b) = Len(a) + Len(b)
           /\ \A i \in 1..Len(a) : (a \o b)[i] = a[i]
           /\ \A i \in 1..Len(b) : (a \o b)[Len(a) + i] = b[i]
  <1>1. /\ a \o b \in Seq(S) /\ Len(a) \in Nat /\ Len(b) \in Nat
        /\ Len(a \o b) = Len(a) + Len(b)
        /\ \A i \in 1..(Len(a) + Len(b)) :
             (a \o b)[i] = IF i <= Len(a) THEN a[i] ELSE b[i - Len(a)]
    BY ConcatProperties, LenProperties
  <1>2. ASSUME NEW i \in 1..Len(a) PROVE (a \o b)[i] = a[i]
    BY <1>1
  <1>3. ASSUME NEW i \in 1..Len(b) PROVE (a \o b)[Len(a) + i] = b[i]
    <2>1. Len(a) + i \in 1..(Len(a) + Len(b)) /\ ~(Len(a) + i <= Len(a))
          /\ (Len(a) + i) - Len(a) = i
      BY <1>1
    <2> QED BY <1>1, <2>1
  <1> QED BY <1>1, <1>2, <1>3

(* What a true file would have, line by line. *)
LEMMA Truths ==
    ASSUME told \in Seq(Device!Event)
    PROVE  /\ Truth \in Seq(Entry) /\ Len(told) \in Nat /\ Len(Truth) = Len(told) + 3
           /\ Truth[1] = Line("metadata") /\ Truth[2] = Line("tx_request")
           /\ Truth[3] = Line("accepted")
           /\ \A i \in 1..Len(told) : Truth[i + 3] = EventLine(told[i])
  <1> DEFINE a == <<Line("metadata"), Line("tx_request"), Line("accepted")>>
             b == [i \in DOMAIN told |-> EventLine(told[i])]
  <1>1. Len(told) \in Nat /\ DOMAIN told = 1..Len(told)
    BY LenProperties
  <1>2. a \in Seq(Entry) /\ Len(a) = 3
    <2>1. /\ Line("metadata") \in Entry /\ Line("tx_request") \in Entry
          /\ Line("accepted") \in Entry
      BY EmptySeq DEF Line, Entry, Kinds
    <2> HIDE DEF Entry
    <2> QED BY <2>1
  <1>3. b \in Seq(Entry) /\ Len(b) = Len(told)
    <2>1. \A i \in 1..Len(told) : EventLine(told[i]) \in Entry
      <3> SUFFICES ASSUME NEW i \in 1..Len(told) PROVE EventLine(told[i]) \in Entry
        OBVIOUS
      <3>1. told[i] \in Device!Event
        BY ElementOfSeq
      <3>2. <<told[i]>> \in Seq(Device!Event)
        BY <3>1
      <3> QED BY <3>2 DEF EventLine, Entry, Kinds
    <2>2. b = [i \in 1..Len(told) |-> EventLine(told[i])]
      BY <1>1
    <2> HIDE DEF b
    <2> QED BY <1>1, <2>1, <2>2
  <1>4. /\ a[1] = Line("metadata") /\ a[2] = Line("tx_request")
        /\ a[3] = Line("accepted")
        /\ \A i \in 1..Len(told) : b[i] = EventLine(told[i])
    BY <1>1
  <1>5. Truth = a \o b
    BY DEF Truth
  <1> HIDE DEF a, b
  <1>6. /\ a \o b \in Seq(Entry) /\ Len(a \o b) = Len(a) + Len(b)
        /\ \A i \in 1..Len(a) : (a \o b)[i] = a[i]
        /\ \A i \in 1..Len(b) : (a \o b)[Len(a) + i] = b[i]
    <2>1. PICK x \in Seq(Entry) : x = a
      BY <1>2
    <2>2. PICK y \in Seq(Entry) : y = b
      BY <1>3
    <2>3. /\ x \o y \in Seq(Entry) /\ Len(x \o y) = Len(x) + Len(y)
          /\ \A i \in 1..Len(x) : (x \o y)[i] = x[i]
          /\ \A i \in 1..Len(y) : (x \o y)[Len(x) + i] = y[i]
      BY Both
    <2> QED BY <2>1, <2>2, <2>3
  <1>7. Truth[1] = a[1] /\ Truth[2] = a[2] /\ Truth[3] = a[3]
    BY <1>2, <1>5, <1>6
  <1>8. ASSUME NEW i \in 1..Len(told) PROVE Truth[i + 3] = EventLine(told[i])
    <2>1. Truth[3 + i] = b[i]
      BY <1>2, <1>3, <1>5, <1>6
    <2>2. 3 + i = i + 3
      BY <1>1
    <2> QED BY <1>4, <2>1, <2>2
  <1>9. Truth \in Seq(Entry) /\ Len(Truth) = Len(told) + 3
    BY <1>1, <1>2, <1>3, <1>5, <1>6
  <1> QED BY <1>1, <1>4, <1>7, <1>8, <1>9

LEMMA Associative == \A u, v, w \in Seq(Entry) : (u \o v) \o w = u \o (v \o w)
  OBVIOUS

(* A sequence cut in two. *)
LEMMA Cut ==
    ASSUME NEW S, NEW s \in Seq(S), NEW n \in 0..Len(s)
    PROVE  /\ SubSeq(s, 1, n) \in Seq(S) /\ SubSeq(s, n + 1, Len(s)) \in Seq(S)
           /\ Len(SubSeq(s, 1, n)) = n
           /\ \A i \in 1..n : SubSeq(s, 1, n)[i] = s[i]
           /\ SubSeq(s, 1, n) \o SubSeq(s, n + 1, Len(s)) = s
  <1>1. /\ Len(s) \in Nat /\ n \in Nat /\ \A i \in 1..Len(s) : s[i] \in S
    BY LenProperties, ElementOfSeq
  <1>2. /\ SubSeq(s, 1, n) \in Seq(S) /\ Len(SubSeq(s, 1, n)) = n
        /\ \A i \in 1..n : SubSeq(s, 1, n)[i] = s[i]
    <2>1. 1 \in Int /\ n \in Int /\ \A i \in 1..n : s[i] \in S
      BY <1>1
    <2>2. /\ SubSeq(s, 1, n) \in Seq(S)
          /\ Len(SubSeq(s, 1, n)) = IF 1 <= n THEN n - 1 + 1 ELSE 0
          /\ \A i \in 1..(n - 1 + 1) : SubSeq(s, 1, n)[i] = s[1 + i - 1]
      BY <2>1, SubSeqProperties
    <2>3. n - 1 + 1 = n /\ \A i \in 1..n : 1 + i - 1 = i
      BY <1>1
    <2> QED BY <1>1, <2>2, <2>3
  <1>3. SubSeq(s, n + 1, Len(s)) \in Seq(S)
    <2>1. n + 1 \in Int /\ Len(s) \in Int /\ \A i \in (n + 1)..Len(s) : s[i] \in S
      BY <1>1
    <2> QED BY <2>1, SubSeqProperties
  <1>4. SubSeq(s, 1, n) \o SubSeq(s, n + 1, Len(s)) = s
    <2>1. 1 \in 1..(Len(s) + 1) /\ n \in (1 - 1)..Len(s) /\ Len(s) \in n..Len(s)
      BY <1>1
    <2>2. SubSeq(s, 1, n) \o SubSeq(s, n + 1, Len(s)) = SubSeq(s, 1, Len(s))
      BY <2>1, ConcatAdjacentSubSeq
    <2> QED BY <2>2, SubSeqFull
  <1> QED BY <1>2, <1>3, <1>4

(* A line more, wherever it is kept. *)
Longer(e) ==
    /\ lines' \in Seq(Entry) /\ buffer' \in Seq(Entry)
    /\ Len(Text') = Len(Text) + 1 /\ Text'[Len(Text) + 1] = e
    /\ \A i \in 1..Len(Text) : Text'[i] = Text[i]
    /\ Len(lines) <= Len(lines') /\ \A i \in 1..Len(lines) : lines'[i] = lines[i]

LEMMA OneMore ==
    ASSUME NEW S, NEW s \in Seq(S), NEW e \in S
    PROVE  \E t \in Seq(S) : /\ t = Append(s, e) /\ t = s \o <<e>> /\ Len(t) = Len(s) + 1
                             /\ \A i \in 1..Len(s) : t[i] = s[i]
                             /\ t[Len(s) + 1] = e
  <1> DEFINE t == Append(s, e)
  <1>1. /\ t \in Seq(S) /\ Len(t) = Len(s) + 1
        /\ \A i \in 1..Len(s) : t[i] = s[i]
        /\ t[Len(s) + 1] = e
    BY AppendProperties
  <1>2. t = s \o <<e>>
    BY AppendIsConcat
  <1> QED BY <1>1, <1>2, Zenon


(* What was in the buffer goes first, whether the flush succeeds or not.   *)
LEMMA LineAdded ==
    ASSUME Types, NEW e \in Entry, Written(e) \/ WriteFails(e)
    PROVE  Longer(e) /\ (Written(e) => buffer' = <<>>)
  <1>1. lines \in Seq(Entry) /\ buffer \in Seq(Entry)
    BY DEF Types
  <1>2. PICK a \in Seq(Entry) : a = lines
    BY <1>1
  <1>3. PICK b \in Seq(Entry) : b = buffer
    BY <1>1
  <1>4. PICK c \in Seq(Entry) :
          /\ c = Append(b, e) /\ c = b \o <<e>> /\ Len(c) = Len(b) + 1
          /\ \A i \in 1..Len(b) : c[i] = b[i]
          /\ c[Len(b) + 1] = e
    BY OneMore
  <1>5. Len(a) \in Nat /\ Len(b) \in Nat
    BY LenProperties
  (* Whatever part x of c is in the file now, y is what is left of it.     *)
  <1>6. ASSUME NEW x \in Seq(Entry), NEW y \in Seq(Entry), x \o y = c,
               lines' = a \o x, buffer' = y
        PROVE  Longer(e)
    <2>1. Text' = a \o c
      <3>1. (a \o x) \o y = a \o (x \o y)
        BY Associative
      <3> QED BY <1>6, <3>1 DEF Text
    <2>2. Text = a \o b
      BY <1>2, <1>3 DEF Text
    <2>3. /\ Len(a \o b) = Len(a) + Len(b) /\ \A i \in 1..Len(a) : (a \o b)[i] = a[i]
          /\ \A i \in 1..Len(b) : (a \o b)[Len(a) + i] = b[i]
      BY Both
    <2>4. /\ Len(a \o c) = Len(a) + Len(c) /\ \A i \in 1..Len(a) : (a \o c)[i] = a[i]
          /\ \A i \in 1..Len(c) : (a \o c)[Len(a) + i] = c[i]
      BY Both
    <2>5. /\ a \o x \in Seq(Entry) /\ Len(a \o x) = Len(a) + Len(x) /\ Len(x) \in Nat
          /\ \A i \in 1..Len(a) : (a \o x)[i] = a[i]
      BY Both
    <2>6. Len(Text') = Len(Text) + 1
      BY <1>4, <1>5, <2>1, <2>2, <2>3, <2>4
    <2>7. Text'[Len(Text) + 1] = e
      <3>1. Len(b) + 1 \in 1..Len(c) /\ Len(a \o b) + 1 = Len(a) + (Len(b) + 1)
        BY <1>4, <1>5, <2>3
      <3> QED BY <1>4, <2>1, <2>2, <2>4, <3>1
    <2>8. ASSUME NEW i \in 1..Len(Text) PROVE Text'[i] = Text[i]
      <3>1. i \in 1..(Len(a) + Len(b))
        BY <2>2, <2>3
      <3>2. CASE i \in 1..Len(a)
        BY <2>1, <2>2, <2>3, <2>4, <3>2
      <3>3. CASE i \notin 1..Len(a)
        <4>1. i - Len(a) \in 1..Len(b)
          BY <1>5, <3>1, <3>3
        <4>2. PICK m \in 1..Len(b) : m = i - Len(a)
          BY <4>1
        <4>3. i = Len(a) + m /\ m \in 1..Len(c)
          BY <1>4, <1>5, <3>1, <4>2
        <4>4. (a \o b)[Len(a) + m] = b[m]
          BY <2>3
        <4>5. (a \o c)[Len(a) + m] = c[m]
          BY <2>4, <4>3
        <4>6. c[m] = b[m]
          BY <1>4
        <4> QED BY <2>1, <2>2, <4>3, <4>4, <4>5, <4>6
      <3> QED BY <3>2, <3>3
    <2>9. Len(lines) <= Len(lines') /\ \A i \in 1..Len(lines) : lines'[i] = lines[i]
      BY <1>2, <1>5, <1>6, <2>5
    <2>10. lines' \in Seq(Entry) /\ buffer' \in Seq(Entry)
      BY <1>6, <2>5
    <2> QED BY <2>6, <2>7, <2>8, <2>9, <2>10 DEF Longer
  <1>7. CASE Written(e)
    <2>1. lines' = (a \o b) \o <<e>> /\ buffer' = <<>>
      BY <1>2, <1>3, <1>7 DEF Written
    <2>2. <<e>> \in Seq(Entry) /\ <<>> \in Seq(Entry)
      BY EmptySeq
    <2>3. (a \o b) \o <<e>> = a \o c
      <3>1. (a \o b) \o <<e>> = a \o (b \o <<e>>)
        BY <2>2, Associative
      <3> QED BY <1>4, <3>1
    <2>4. c \o <<>> = c
      BY ConcatEmptySeq
    <2>5. Longer(e)
      BY <1>6, <2>1, <2>2, <2>3, <2>4
    <2> QED BY <2>1, <2>5
  <1>8. CASE WriteFails(e)
    <2>1. PICK n \in 0..Len(b) :
            lines' = a \o SubSeq(c, 1, n) /\ buffer' = SubSeq(c, n + 1, Len(c))
      BY <1>2, <1>3, <1>4, <1>8 DEF WriteFails
    <2>2. n \in 0..Len(c)
      BY <1>4, <1>5
    <2>3. /\ SubSeq(c, 1, n) \in Seq(Entry) /\ SubSeq(c, n + 1, Len(c)) \in Seq(Entry)
          /\ SubSeq(c, 1, n) \o SubSeq(c, n + 1, Len(c)) = c
      BY <2>2, Cut
    <2>4. Longer(e)
      BY <1>6, <2>1, <2>3
    <2>5. Written(e) => buffer' = <<>>
      BY DEF Written
    <2> QED BY <2>4, <2>5
  <1> QED BY <1>7, <1>8

(* A close moves what it can from the buffer to the file, and adds nothing.*)
LEMMA FileClosed ==
    ASSUME Types, FileCloses
    PROVE  /\ lines' \in Seq(Entry) /\ buffer' \in Seq(Entry) /\ Text' = Text
           /\ Len(lines) <= Len(lines') /\ \A i \in 1..Len(lines) : lines'[i] = lines[i]
           /\ buffer = <<>> => buffer' = <<>>
  <1>1. lines \in Seq(Entry) /\ buffer \in Seq(Entry)
    BY DEF Types
  <1>2. PICK a \in Seq(Entry) : a = lines
    BY <1>1
  <1>3. PICK b \in Seq(Entry) : b = buffer
    BY <1>1
  <1>4. PICK n \in 0..Len(b) :
          lines' = a \o SubSeq(b, 1, n) /\ buffer' = SubSeq(b, n + 1, Len(b))
    BY <1>2, <1>3 DEF FileCloses
  <1> DEFINE x == SubSeq(b, 1, n)
             y == SubSeq(b, n + 1, Len(b))
  <1>5. x \in Seq(Entry) /\ y \in Seq(Entry) /\ x \o y = b
    BY Cut
  <1> HIDE DEF x, y
  <1>6. /\ a \o x \in Seq(Entry) /\ Len(a \o x) = Len(a) + Len(x) /\ Len(x) \in Nat
        /\ Len(a) \in Nat /\ \A i \in 1..Len(a) : (a \o x)[i] = a[i]
    BY <1>5, Both
  <1>7. (a \o x) \o y = a \o b
    <2>1. (a \o x) \o y = a \o (x \o y)
      BY <1>5, Associative
    <2> QED BY <1>5, <2>1
  <1>8. lines' = a \o x /\ buffer' = y
    BY <1>4 DEF x, y
  <1>9. Text' = Text
    BY <1>2, <1>3, <1>7, <1>8 DEF Text
  <1>10. b = <<>> => y = <<>>
    <2>1. ASSUME b = <<>> PROVE y = <<>>
      <3>1. x \o y = <<>>
        BY <1>5, <2>1
      <3> QED BY <1>5, <3>1, ConcatEqualIffEmpty
    <2> QED BY <2>1
  <1> QED BY <1>2, <1>3, <1>5, <1>6, <1>8, <1>9, <1>10


LEMMA Initially == Init => SendInv
  <1> SUFFICES ASSUME Init PROVE SendInv
    OBVIOUS
  <1>1. /\ at = "connect" /\ step = CONFIGURE /\ raised = FALSE /\ recording \in BOOLEAN
        /\ response = "none" /\ events = <<>> /\ outgoing = 0 /\ wire = <<>>
        /\ lines = <<>> /\ buffer = <<>>
        /\ executed = [r \in Device!Requests |-> 0]
        /\ answer = [r \in Device!Requests |-> "none"]
        /\ count = [r \in Device!Requests |-> 0] /\ told = <<>>
    BY DEF Init, Device!Init
  <1>2. DeviceInv
    BY DeviceInitial DEF Init
  <1>3. /\ <<>> \in Seq(Entry) /\ <<>> \in Seq(Device!Event) /\ Len(<<>>) = 0
        /\ <<>> \in Seq(Message)
    BY EmptySeq
  <1>4. Types
    BY <1>1, <1>3 DEF Types
  <1>5. TX \in Device!Requests /\ answer[TX] = "none" /\ count[TX] = 0
        /\ \A r \in Device!Requests : executed[r] = 0
    BY <1>1, Ids
  <1>6. Places
    BY <1>1, <1>5, Ids DEF Places
  <1>7. Replies /\ Asked /\ Told
    BY <1>1, <1>3, <1>5, Ids DEF Replies, Asked, Told
  <1>8. Faithful
    <2>1. Text = <<>>
      BY <1>1, <1>3, ConcatEmptySeq DEF Text
    <2> QED BY <1>3, <2>1 DEF Faithful
  <1>9. Progress
    <2> DEFINE f == [n \in 0..0 |-> 0]
    <2>1. Flow(0, f)
      BY <1>1, <1>3 DEF Flow
    <2>2. Reading(0) /\ Done(0)
      BY <1>1, Ids DEF Reading, Done, Ended
    <2> QED BY <2>1, <2>2 DEF Progress
  <1> QED BY <1>2, <1>4, <1>6, <1>7, <1>8, <1>9 DEF SendInv
-----------------------------------------------------------------------------
(* The device goes on, and tells nothing. *)
LEMMA DeviceAlone ==
    ASSUME SendInv, DeviceInv',
           UNCHANGED <<at, step, raised, recording, response, events, wire, lines,
                       buffer, answer, told>>,
           outgoing' \in {0, outgoing},
           \A r \in Device!Requests : executed'[r] = 1 => executed[r] = 1 \/ r = outgoing,
           count'[TX] \in {0, Count}, answer[TX] = "accepted" => count'[TX] = Count
    PROVE  SendInv'
  <1>1. /\ DeviceInv /\ Types /\ Places /\ Replies /\ Asked /\ Told /\ Faithful
        /\ Progress
    BY DEF SendInv
  <1>2. /\ at' = at /\ step' = step /\ raised' = raised /\ recording' = recording
        /\ response' = response /\ events' = events /\ wire' = wire /\ lines' = lines
        /\ buffer' = buffer /\ answer' = answer /\ told' = told
    OBVIOUS
  <1>3. TX \in Device!Requests
    BY Ids
  <1>4. Types'
    BY <1>1, <1>2 DEF Types
  <1>5. Places'
    BY <1>1, <1>2, Ids DEF Places, InTry
  <1>6. Replies'
    BY <1>1, <1>2 DEF Replies
  <1>7. Asked'
    BY <1>1, <1>2, <1>3, Ids DEF Asked, Noted
  <1>8. Told'
    BY <1>1, <1>2 DEF Told
  <1>9. Text' = Text /\ Truth' = Truth
    BY <1>2 DEF Text, Truth
  <1>10. Faithful'
    BY <1>1, <1>2, <1>9 DEF Faithful, Past
  <1>11. Progress'
    <2>1. PICK t, f : Flow(t, f) /\ Reading(t) /\ Done(t)
      BY <1>1 DEF Progress
    <2>2. Flow(t, f)'
      BY <1>2, <2>1 DEF Flow
    <2>3. Reading(t)'
      BY <1>2, <1>9, <2>1 DEF Reading
    <2>4. Done(t)'
      BY <1>2, <1>9, <2>1 DEF Done, Ended, Past
    <2> QED BY <2>2, <2>3, <2>4 DEF Progress
  <1> QED BY <1>4, <1>5, <1>6, <1>7, <1>8, <1>10, <1>11 DEF SendInv

LEMMA ExecutesStep == ASSUME SendInv, DeviceExecutes PROVE SendInv'
  <1>1. DeviceInv /\ Places /\ Asked
    BY DEF SendInv
  <1>2. /\ outgoing /= 0 /\ Device!Execute(outgoing) /\ Meant /\ outgoing' = 0
        /\ UNCHANGED <<at, step, raised, recording, response, events, wire, lines,
                       buffer>>
    BY DEF DeviceExecutes, cli, file
  <1>3. outgoing \in Device!Requests /\ outgoing \in Nat
    BY <1>1, <1>2, Ids DEF Places
  <1>4. DeviceInv'
    BY <1>1, <1>2, <1>3, ExecuteStep
  <1>5. /\ executed' = [executed EXCEPT ![outgoing] = 1] /\ UNCHANGED <<answer, told>>
        /\ executed[outgoing] = 0
    BY <1>2, <1>3 DEF Device!Execute
  <1>6. \A r \in Device!Requests : executed'[r] = 1 => executed[r] = 1 \/ r = outgoing
    BY <1>1, <1>5 DEF DeviceInv, DeviceTypes
  <1>7. CASE outgoing = TX
    <2>1. answer[TX] = "none"
      BY <1>1, <1>3, <1>5, <1>7 DEF DeviceInv, Origins
    <2>2. count'[TX] = Count \/ count' = count
      BY <1>2, <1>7 DEF Meant, Ineffective
    <2>3. count'[TX] \in {0, Count}
      BY <1>1, <2>2 DEF Asked
    <2> QED BY <1>2, <1>4, <1>5, <1>6, <2>1, <2>3, DeviceAlone
  <1>8. CASE outgoing /= TX
    <2>1. count' = count
      BY <1>2, <1>8 DEF Meant, Ineffective
    <2> QED BY <1>1, <1>2, <1>4, <1>5, <1>6, <2>1, DeviceAlone DEF Asked
  <1> QED BY <1>7, <1>8

LEMMA GoesOnStep == ASSUME SendInv, DeviceGoesOn PROVE SendInv'
  <1>1. DeviceInv /\ Asked
    BY DEF SendInv
  <1>2. /\ Device!Transmit \/ Device!Finish \/ Device!Revoke \/ Device!Disconnect
        /\ UNCHANGED <<at, step, raised, recording, response, events, wire, lines,
                       buffer, outgoing>>
    BY DEF DeviceGoesOn, cli, file, link
  <1>3. UNCHANGED <<executed, answer, count, told>>
    BY <1>2 DEF Device!Transmit, Device!Finish, Device!Revoke, Device!Disconnect
  <1>4. DeviceInv'
    <2>1. [Device!Next]_(Device!vars)
      BY <1>2 DEF Device!Next
    <2> QED BY <1>1, <2>1, DeviceStep
  <1> QED BY <1>1, <1>2, <1>3, <1>4, DeviceAlone DEF Asked


(* An answer at the end of the wire, or an event that is now the last one  *)
(* told.                                                                   *)
LEMMA FlowLonger ==
    ASSUME NEW t, NEW f, Flow(t, f), wire \in Seq(Message), told \in Seq(Device!Event),
           events \in Seq(Device!Event), events' = events,
           NEW x \in Message, wire' = Append(wire, x),
           \/ x.request /= 0 /\ told' = told
           \/ \E e \in Device!Event :
                x.request = 0 /\ x.event = <<e>> /\ told' = Append(told, e)
    PROVE  \E g : Flow(t, g)'
  <1>1. Len(wire) \in Nat /\ Len(told) \in Nat /\ Len(events) \in Nat
    BY LenProperties
  <1>2. /\ t \in Nat /\ f \in [0..Len(wire) -> 0..Len(told)]
        /\ f[0] = t + Len(events) /\ f[Len(wire)] = Len(told)
        /\ \A n \in 1..Len(wire) :
             IF wire[n].request = 0
             THEN f[n] = f[n - 1] + 1 /\ wire[n].event = <<told[f[n]]>>
             ELSE f[n] = f[n - 1]
        /\ \A i \in 1..Len(events) : events[i] = told[t + i]
    BY DEF Flow
  <1>3. /\ Len(wire') = Len(wire) + 1 /\ wire'[Len(wire) + 1] = x
        /\ \A n \in 1..Len(wire) : wire'[n] = wire[n]
    <2>1. PICK s \in Seq(Message) : s = wire
      OBVIOUS
    <2>2. PICK w \in Seq(Message) :
            /\ w = Append(s, x) /\ w = s \o <<x>> /\ Len(w) = Len(s) + 1
            /\ \A i \in 1..Len(s) : w[i] = s[i]
            /\ w[Len(s) + 1] = x
      BY ONLY OneMore, s \in Seq(Message), x \in Message
    <2>3. wire' = w
      BY <2>1, <2>2
    <2> QED BY <2>1, <2>2, <2>3
  <1>4. /\ Len(told') = (IF x.request = 0 THEN Len(told) + 1 ELSE Len(told))
        /\ \A i \in 1..Len(told) : told'[i] = told[i]
        /\ x.request = 0 => x.event = <<told'[Len(told) + 1]>>
    <2>1. CASE x.request /= 0 /\ told' = told
      BY <2>1
    <2>2. CASE \E e \in Device!Event :
                 x.request = 0 /\ x.event = <<e>> /\ told' = Append(told, e)
      <3>1. PICK e \in Device!Event :
              x.request = 0 /\ x.event = <<e>> /\ told' = Append(told, e)
        BY <2>2
      <3>2. PICK s \in Seq(Device!Event) : s = told
        OBVIOUS
      <3>3. PICK w \in Seq(Device!Event) :
              /\ w = Append(s, e) /\ w = s \o <<e>> /\ Len(w) = Len(s) + 1
              /\ \A i \in 1..Len(s) : w[i] = s[i]
              /\ w[Len(s) + 1] = e
        BY ONLY OneMore, s \in Seq(Device!Event), e \in Device!Event
      <3>4. told' = w
        BY <3>1, <3>2, <3>3
      <3> QED BY <3>1, <3>2, <3>3, <3>4
    <2> QED BY <2>1, <2>2
  <1> DEFINE g == [n \in 0..(Len(wire) + 1) |-> IF n <= Len(wire) THEN f[n]
                                               ELSE Len(told')]
  <1>5. /\ g \in [0..Len(wire') -> 0..Len(told')] /\ g[Len(wire')] = Len(told')
        /\ g[0] = t + Len(events') /\ g[Len(wire)] = Len(told)
        /\ \A n \in 0..Len(wire) : g[n] = f[n] /\ f[n] \in 0..Len(told)
    <2>0. \A n \in 0..Len(wire) : f[n] \in 0..Len(told)
      BY <1>2
    <2>2. Len(told') \in 0..Len(told') /\ \A k \in 0..Len(told) : k \in 0..Len(told')
      BY <1>1, <1>4
    <2>1. \A n \in 0..Len(wire) : f[n] \in 0..Len(told) /\ f[n] \in 0..Len(told')
      BY <2>0, <2>2
    <2>3. g \in [0..Len(wire') -> 0..Len(told')]
      BY <1>1, <1>3, <2>1, <2>2
    <2>4. \A n \in 0..Len(wire) : g[n] = f[n]
      BY <1>1
    <2>5. g[Len(wire')] = Len(told')
      BY <1>1, <1>3
    <2>6. 0 \in 0..Len(wire) /\ Len(wire) \in 0..Len(wire)
      BY <1>1
    <2> QED BY <1>2, <2>1, <2>3, <2>4, <2>5, <2>6
  <1> HIDE DEF g
  <1>6. PICK h : h = g
    OBVIOUS
  <1>7. ASSUME NEW n \in 1..Len(wire')
        PROVE  IF wire'[n].request = 0
               THEN g[n] = g[n - 1] + 1 /\ wire'[n].event = <<told'[g[n]]>>
               ELSE g[n] = g[n - 1]
    <2>1. CASE n \in 1..Len(wire)
      <3>1. n - 1 \in 0..Len(wire) /\ n \in 0..Len(wire)
        BY <1>1, <2>1
      <3>2. g[n] = f[n] /\ g[n - 1] = f[n - 1] /\ wire'[n] = wire[n]
        BY <1>3, <1>5, <2>1, <3>1
      <3>3. f[n] \in 0..Len(told) /\ f[n - 1] \in 0..Len(told)
        BY <1>5, <3>1
      <3>4. ASSUME wire[n].request = 0 PROVE told'[f[n]] = told[f[n]]
        <4>1. f[n] = f[n - 1] + 1
          BY <1>2, <2>1, <3>4
        <4>2. f[n] \in 1..Len(told)
          BY <1>1, <3>3, <4>1
        <4> QED BY <1>4, <4>2
      <3> QED BY <1>2, <2>1, <3>2, <3>4
    <2>2. CASE n = Len(wire) + 1
      <3>1. n - 1 = Len(wire) /\ wire'[n] = x /\ g[n - 1] = Len(told)
            /\ g[n] = Len(told')
        BY <1>1, <1>3, <1>5, <2>2
      <3> QED BY <1>4, <3>1
    <2> QED BY <1>1, <1>3, <2>1, <2>2
  <1>8. \A i \in 1..Len(events') : events'[i] = told'[t + i]
    <2> SUFFICES ASSUME NEW i \in 1..Len(events) PROVE events[i] = told'[t + i]
      OBVIOUS
    <2>1. f[0] \in 0..Len(told)
      <3>1. 0 \in 0..Len(wire)
        BY <1>1
      <3> QED BY <1>2, <3>1
    <2>2. t + i \in 1..Len(told)
      <3>1. t \in Nat /\ f[0] = t + Len(events)
        BY <1>2
      <3> QED BY <1>1, <2>1, <3>1
    <2> QED BY <1>2, <1>4, <2>2
  <1>9. Flow(t, h)'
    <2>1. t \in Nat
      BY <1>2
    <2>2. \A n \in 1..Len(wire') :
            IF wire'[n].request = 0
            THEN h[n] = h[n - 1] + 1 /\ wire'[n].event = <<told'[h[n]]>>
            ELSE h[n] = h[n - 1]
      BY <1>7, <1>6
    <2>3. /\ h \in [0..Len(wire') -> 0..Len(told')] /\ h[Len(wire')] = Len(told')
          /\ h[0] = t + Len(events')
      BY <1>5, <1>6
    <2> QED BY <1>8, <2>1, <2>2, <2>3, Zenon DEF Flow
  <1> QED BY <1>9

(* What Truths gives is so of the next state as well. *)
TruthLines ==
    /\ Len(told) \in Nat /\ Len(Truth) = Len(told) + 3
    /\ Truth[1] = Line("metadata") /\ Truth[2] = Line("tx_request")
    /\ Truth[3] = Line("accepted")
    /\ \A i \in 1..Len(told) : Truth[i + 3] = EventLine(told[i])

LEMMA AlwaysTruths == told \in Seq(Device!Event) => TruthLines
  BY Truths DEF TruthLines

(* What was recorded stays true when the device tells more. *)
LEMMA TruthLonger ==
    ASSUME told \in Seq(Device!Event), told' \in Seq(Device!Event),
           Len(told) <= Len(told'), \A i \in 1..Len(told) : told'[i] = told[i]
    PROVE  /\ Len(Truth) \in Nat /\ Len(Truth') \in Nat /\ Len(Truth) <= Len(Truth')
           /\ \A i \in 1..Len(Truth) : Truth'[i] = Truth[i]
  <1>1. /\ Len(told) \in Nat /\ Len(Truth) = Len(told) + 3
        /\ Truth[1] = Line("metadata") /\ Truth[2] = Line("tx_request")
        /\ Truth[3] = Line("accepted")
        /\ \A i \in 1..Len(told) : Truth[i + 3] = EventLine(told[i])
    BY Truths
  <1>2. /\ Len(told') \in Nat /\ Len(Truth') = Len(told') + 3
        /\ Truth'[1] = Line("metadata") /\ Truth'[2] = Line("tx_request")
        /\ Truth'[3] = Line("accepted")
        /\ \A i \in 1..Len(told') : Truth'[i + 3] = EventLine(told'[i])
    <2>1. (told \in Seq(Device!Event))'
      OBVIOUS
    <2>2. TruthLines'
      BY <2>1, AlwaysTruths, PTL
    <2> QED BY <2>2 DEF TruthLines
  <1>3. Len(Truth) \in Nat /\ Len(Truth') \in Nat /\ Len(Truth) <= Len(Truth')
    BY <1>1, <1>2
  <1>4. ASSUME NEW i \in 1..Len(Truth) PROVE Truth'[i] = Truth[i]
    <2>1. CASE i \in 1..3
      BY <1>1, <1>2, <2>1
    <2>2. CASE i \notin 1..3
      <3>1. i - 3 \in 1..Len(told)
        BY <1>1, <2>2
      <3>2. PICK k \in 1..Len(told) : k = i - 3
        BY <3>1
      <3>3. i = k + 3 /\ k \in 1..Len(told')
        BY <1>1, <1>2, <3>2
      <3>4. Truth[k + 3] = EventLine(told[k]) /\ Truth'[k + 3] = EventLine(told'[k])
        BY <1>1, <1>2, <3>3
      <3> QED BY <3>3, <3>4
    <2> QED BY <2>1, <2>2
  <1> QED BY <1>3, <1>4

LEMMA WireLonger ==
    ASSUME wire \in Seq(Message), NEW x \in Message, wire' = Append(wire, x)
    PROVE  /\ wire' \in Seq(Message) /\ Len(wire) \in Nat /\ Len(wire') = Len(wire) + 1
           /\ wire'[Len(wire) + 1] = x /\ \A n \in 1..Len(wire) : wire'[n] = wire[n]
  <1>1. PICK s \in Seq(Message) : s = wire
    OBVIOUS
  <1>2. PICK w \in Seq(Message) :
          /\ w = Append(s, x) /\ w = s \o <<x>> /\ Len(w) = Len(s) + 1
          /\ \A i \in 1..Len(s) : w[i] = s[i]
          /\ w[Len(s) + 1] = x
    BY ONLY OneMore, s \in Seq(Message), x \in Message
  <1>3. wire' = w
    BY <1>1, <1>2
  <1> QED BY <1>1, <1>2, <1>3, LenProperties

(* An answer goes to the wire. *)
LEMMA ReplyStep ==
    ASSUME SendInv, NEW r \in Device!Requests, NEW a \in Device!Answers,
           Device!Reply(r, a), r = TX => a /= "applied",
           wire' = Append(wire, Item(r, a, <<>>)),
           UNCHANGED <<cli, closed, response, events, outgoing, file>>
    PROVE  SendInv'
  <1>1. /\ DeviceInv /\ Types /\ Places /\ Replies /\ Asked /\ Told /\ Faithful
        /\ Progress
    BY DEF SendInv
  <1>2. /\ at' = at /\ step' = step /\ raised' = raised /\ recording' = recording
        /\ response' = response /\ events' = events /\ outgoing' = outgoing
        /\ lines' = lines /\ buffer' = buffer
    BY DEF cli, file
  <1>3. /\ executed[r] = 1 /\ answer[r] = "none" /\ a /= "none"
        /\ (a = "accepted" <=> count[r] > 0)
        /\ answer' = [answer EXCEPT ![r] = a]
        /\ executed' = executed /\ count' = count /\ told' = told
    BY DEF Device!Reply
  <1>4. DeviceInv'
    <2>1. [Device!Next]_(Device!vars)
      BY DEF Device!Next
    <2> QED BY <1>1, <2>1, DeviceStep
  <1>5. answer \in [Device!Requests -> Device!Answers]
    BY <1>1 DEF DeviceInv, DeviceTypes
  <1>6. answer'[r] = a /\ \A q \in Device!Requests : q /= r => answer'[q] = answer[q]
    BY <1>3, <1>5
  <1>7. TX \in Device!Requests /\ r \in Nat /\ r /= 0
    BY Ids DEF Device!Requests
  <1> DEFINE x == Item(r, a, <<>>)
  <1>8. x \in Message /\ x.request = r /\ x.answer = a
    BY <1>7, EmptySeq DEF Item, Message
  <1> HIDE DEF x
  <1>9. /\ wire' \in Seq(Message) /\ Len(wire) \in Nat /\ Len(wire') = Len(wire) + 1
        /\ wire'[Len(wire) + 1] = x /\ \A n \in 1..Len(wire) : wire'[n] = wire[n]
    <2>1. wire \in Seq(Message) /\ wire' = Append(wire, x)
      BY <1>1 DEF Types, x
    <2> QED BY <1>8, <2>1, WireLonger
  <1>10. Types'
    BY <1>1, <1>2, <1>9 DEF Types
  <1>11. Places'
    BY <1>1, <1>2, <1>3 DEF Places, InTry
  <1>12. Replies'
    <2>1. at = "await" => response \in {"none", answer'[step]}
      <3>1. step \in Device!Requests
        BY <1>1, Ids DEF Places
      <3>2. CASE step = r
        BY <1>1, <1>3, <3>2 DEF Replies
      <3>3. CASE step /= r
        BY <1>1, <1>6, <3>1, <3>3 DEF Replies
      <3> QED BY <3>2, <3>3
    <2>2. answer'[TX] /= "applied"
          /\ (at \in {"accepted", "loop"} => answer'[TX] = "accepted")
      BY <1>1, <1>3, <1>6, <1>7 DEF Replies
    <2>3. ASSUME NEW n \in 1..Len(wire'), wire'[n].request /= 0
          PROVE  /\ wire'[n].request \in Device!Requests /\ wire'[n].answer /= "none"
                 /\ answer'[wire'[n].request] = wire'[n].answer
      <3>1. CASE n = Len(wire) + 1
        BY <1>3, <1>6, <1>8, <1>9, <3>1
      <3>2. CASE n \in 1..Len(wire)
        <4>1. wire'[n] = wire[n]
          BY <1>9, <3>2
        <4>2. /\ wire[n].request \in Device!Requests /\ wire[n].answer /= "none"
              /\ answer[wire[n].request] = wire[n].answer
          BY <1>1, <2>3, <3>2, <4>1 DEF Replies
        <4>3. wire[n].request /= r
          BY <1>3, <4>2
        <4> QED BY <1>6, <4>1, <4>2, <4>3
      <3> QED BY <1>9, <3>1, <3>2
    <2> QED BY <1>1, <1>2, <2>1, <2>2, <2>3 DEF Replies
  <1>13. answer[TX] = "accepted" => answer'[TX] = "accepted"
    BY <1>3, <1>6, <1>7
  <1>14. Asked'
    <2>1. answer'[TX] = "accepted" => count[TX] = Count
      <3>1. CASE r = TX
        BY <1>1, <1>3, <1>6, <3>1 DEF Asked
      <3>2. CASE r /= TX
        BY <1>1, <1>6, <1>7, <3>2 DEF Asked
      <3> QED BY <3>1, <3>2
    <2> QED BY <1>1, <1>2, <1>3, <2>1 DEF Asked, Noted
  <1>15. Told'
    BY <1>1, <1>3, <1>13 DEF Told
  <1>16. Text' = Text /\ Truth' = Truth
    BY <1>2, <1>3 DEF Text, Truth
  <1>17. Faithful'
    BY <1>1, <1>2, <1>13, <1>16 DEF Faithful, Past
  <1>18. Progress'
    <2>1. PICK t, f : Flow(t, f) /\ Reading(t) /\ Done(t)
      BY <1>1 DEF Progress
    <2>2. /\ wire \in Seq(Message) /\ told \in Seq(Device!Event)
          /\ events \in Seq(Device!Event) /\ wire' = Append(wire, x)
      BY <1>1 DEF Types, DeviceInv, DeviceTypes, x
    <2>3. PICK g : Flow(t, g)'
      BY <1>2, <1>3, <1>7, <1>8, <2>1, <2>2, FlowLonger
    <2>4. Reading(t)'
      BY <1>2, <1>16, <2>1 DEF Reading
    <2>5. Done(t)'
      BY <1>2, <1>3, <1>16, <2>1 DEF Done, Ended, Past
    <2> QED BY <2>3, <2>4, <2>5 DEF Progress
  <1> QED BY <1>4, <1>10, <1>11, <1>12, <1>14, <1>15, <1>17, <1>18 DEF SendInv

(* An event goes to the wire: none was told that is final. *)
LEMMA TellsStep ==
    ASSUME SendInv, NEW e \in Device!Event, e.request = TX, Device!Tell(e),
           wire' = Append(wire, Item(0, "none", <<e>>)),
           UNCHANGED <<cli, closed, response, events, outgoing, file>>
    PROVE  SendInv'
  <1>1. /\ DeviceInv /\ Types /\ Places /\ Replies /\ Asked /\ Told /\ Faithful
        /\ Progress
    BY DEF SendInv
  <1>2. /\ at' = at /\ step' = step /\ raised' = raised /\ recording' = recording
        /\ response' = response /\ events' = events /\ outgoing' = outgoing
        /\ lines' = lines /\ buffer' = buffer
    BY DEF cli, file
  <1>3. /\ answer[TX] = "accepted" /\ told' = Append(told, e)
        /\ executed' = executed /\ count' = count /\ answer' = answer
        /\ Device!InTurn(e)
    BY DEF Device!Tell
  <1>4. DeviceInv'
    BY <1>1, TellStep
  <1>5. told \in Seq(Device!Event) /\ told' \in Seq(Device!Event)
    BY <1>1, <1>4 DEF DeviceInv, DeviceTypes
  <1>6. /\ Len(told) \in Nat /\ Len(told') = Len(told) + 1 /\ told'[Len(told) + 1] = e
        /\ \A i \in 1..Len(told) : told'[i] = told[i]
    <2>1. PICK s \in Seq(Device!Event) : s = told
      BY <1>5
    <2>2. PICK w \in Seq(Device!Event) :
            /\ w = Append(s, e) /\ w = s \o <<e>> /\ Len(w) = Len(s) + 1
            /\ \A i \in 1..Len(s) : w[i] = s[i]
            /\ w[Len(s) + 1] = e
      BY ONLY OneMore, s \in Seq(Device!Event), e \in Device!Event
    <2>3. told' = w
      BY <1>3, <2>1, <2>2
    <2> QED BY <2>1, <2>2, <2>3, LenProperties
  <1>7. \A i \in 1..Len(told) : told[i].request = TX /\ ~told[i].terminal
    <2> SUFFICES ASSUME NEW i \in 1..Len(told)
                 PROVE  told[i].request = TX /\ ~told[i].terminal
      OBVIOUS
    <2>1. told[i].request = TX
      BY <1>1 DEF Told
    <2>2. i \in DOMAIN told
      BY <1>5
    <2> QED BY <1>3, <2>1, <2>2 DEF Device!InTurn
  <1> DEFINE x == Item(0, "none", <<e>>)
  <1>8. x \in Message /\ x.request = 0 /\ x.event = <<e>>
    <2>1. <<e>> \in Seq(Device!Event)
      OBVIOUS
    <2>2. "none" \in Device!Answers /\ 0 \in Nat
      BY DEF Device!Answers
    <2> QED BY <2>1, <2>2 DEF Item, Message
  <1> HIDE DEF x
  <1>9. /\ wire' \in Seq(Message) /\ Len(wire) \in Nat /\ Len(wire') = Len(wire) + 1
        /\ wire'[Len(wire) + 1] = x /\ \A n \in 1..Len(wire) : wire'[n] = wire[n]
    <2>1. wire \in Seq(Message) /\ wire' = Append(wire, x)
      BY <1>1 DEF Types, x
    <2> QED BY <1>8, <2>1, WireLonger
  <1>10. Types'
    BY <1>1, <1>2, <1>9 DEF Types
  <1>11. Places'
    BY <1>1, <1>2, <1>3 DEF Places, InTry
  <1>12. Replies'
    <2>1. ASSUME NEW n \in 1..Len(wire'), wire'[n].request /= 0
          PROVE  /\ wire'[n].request \in Device!Requests /\ wire'[n].answer /= "none"
                 /\ answer[wire'[n].request] = wire'[n].answer
      <3>1. n /= Len(wire) + 1
        BY <1>8, <1>9, <2>1
      <3>2. n \in 1..Len(wire)
        BY <1>9, <3>1
      <3> QED BY <1>1, <1>9, <2>1, <3>2 DEF Replies
    <2> QED BY <1>1, <1>2, <1>3, <2>1 DEF Replies
  <1>13. Asked'
    BY <1>1, <1>2, <1>3 DEF Asked, Noted
  <1>14. Told'
    <2> SUFFICES ASSUME NEW i \in 1..Len(told')
                 PROVE  /\ told'[i].request = TX /\ answer'[TX] = "accepted"
                        /\ told'[i].terminal => i = Len(told')
      BY DEF Told
    <2>1. CASE i = Len(told) + 1
      BY <1>3, <1>6, <2>1
    <2>2. CASE i \in 1..Len(told)
      BY <1>3, <1>6, <1>7, <2>2
    <2> QED BY <1>6, <2>1, <2>2
  <1>15. /\ Len(Truth) \in Nat /\ Len(Truth') \in Nat /\ Len(Truth) <= Len(Truth')
         /\ \A i \in 1..Len(Truth) : Truth'[i] = Truth[i]
    BY <1>5, <1>6, TruthLonger
  <1>16. Text' = Text
    BY <1>2 DEF Text
  <1>17. Faithful'
    <2>1. Len(Text) \in Nat
      BY <1>1, Both DEF Types, Text
    <2>2. ASSUME NEW i \in 1..Len(Text)
          PROVE  \/ i <= Len(Truth') /\ Text[i] = Truth'[i]
                 \/ Past /\ i = Len(Text) /\ Text[i] = Line("disconnect")
      BY <1>1, <1>15, <2>1 DEF Faithful
    <2> QED BY <1>1, <1>2, <1>3, <1>16, <2>2 DEF Faithful, Past
  <1>18. Progress'
    <2>1. PICK t, f : Flow(t, f) /\ Reading(t) /\ Done(t)
      BY <1>1 DEF Progress
    <2>2. wire \in Seq(Message) /\ events \in Seq(Device!Event) /\ wire' = Append(wire, x)
      BY <1>1 DEF Types, x
    <2>3. PICK g : Flow(t, g)'
      BY <1>2, <1>3, <1>5, <1>8, <2>1, <2>2, FlowLonger
    <2>4. Reading(t)'
      BY <1>2, <1>16, <2>1 DEF Reading
    <2>5. Done(t)'
      <3>1. ~(~raised /\ Ended)
        <4> SUFFICES ASSUME ~raised, Ended PROVE FALSE
          OBVIOUS
        <4>1. t = Len(told) /\ t > 0 /\ told[t].terminal
          BY <2>1 DEF Done
        <4>2. t \in 1..Len(told)
          BY <1>6, <4>1
        <4> QED BY <1>7, <4>1, <4>2
      <3> QED BY <1>2, <3>1 DEF Done, Ended
    <2> QED BY <2>3, <2>4, <2>5 DEF Progress
  <1> QED BY <1>4, <1>10, <1>11, <1>12, <1>13, <1>14, <1>17, <1>18 DEF SendInv

LEMMA SendsStep == ASSUME SendInv, DeviceSends PROVE SendInv'
  BY ReplyStep, TellsStep DEF DeviceSends

-----------------------------------------------------------------------------
(* The program goes on, and neither its file nor the wire changes. *)
LEMMA Control ==
    ASSUME SendInv,
           UNCHANGED <<recording, events, wire, lines, buffer, executed, answer,
                       schedule, count, bus, told>>,
           raised' \in BOOLEAN, Past => Past', Places', Replies', Asked',
           ASSUME NEW t, Reading(t), Done(t) PROVE Reading(t)' /\ Done(t)'
    PROVE  SendInv'
  <1>1. /\ DeviceInv /\ Types /\ Told /\ Faithful /\ Progress
    BY DEF SendInv
  <1>2. DeviceInv'
    BY <1>1 DEF DeviceInv, DeviceTypes, Origins, TrueEvents, Claims, Right
  <1>3. Types'
    BY <1>1 DEF Types
  <1>4. Told'
    BY <1>1 DEF Told
  <1>5. Text' = Text /\ Truth' = Truth
    BY DEF Text, Truth
  <1>6. Faithful'
    BY <1>1, <1>5 DEF Faithful
  <1>7. Progress'
    <2>1. PICK t, f : Flow(t, f) /\ Reading(t) /\ Done(t)
      BY <1>1 DEF Progress
    <2>2. Flow(t, f)'
      BY <2>1 DEF Flow
    <2>3. Reading(t)' /\ Done(t)'
      BY <2>1
    <2> QED BY <2>2, <2>3 DEF Progress
  <1> QED BY <1>2, <1>3, <1>4, <1>6, <1>7 DEF SendInv

LEMMA RaiseMeans ==
    ASSUME Types, NEW from, Raise(from)
    PROVE  /\ at = from /\ raised' \in BOOLEAN
           /\ step = STOP => at' = "disconnect" /\ raised' = raised
           /\ step /= STOP => at' = (IF InTry THEN "finally" ELSE "leave") /\ raised' = TRUE
  <1>1. /\ at = from /\ at' = (IF step = STOP THEN "disconnect"
                               ELSE IF InTry THEN "finally" ELSE "leave")
        /\ raised' = (raised \/ step /= STOP) /\ raised \in BOOLEAN
    BY DEF Raise, Goto, Types
  <1>2. CASE step = STOP
    BY <1>1, <1>2, Zenon
  <1>3. CASE step /= STOP
    BY <1>1, <1>3, Zenon
  <1> QED BY <1>1, <1>2, <1>3, Zenon

(* An exception. *)
LEMMA Raises ==
    ASSUME SendInv, NEW from \in {"enter", "send", "await", "intent", "loop"}, Raise(from),
           UNCHANGED <<device, step, recording, events, wire, file>>,
           outgoing' \in {outgoing, step}, outgoing' = outgoing \/ from = "send"
    PROVE  SendInv'
  <1>1. /\ Types /\ Places /\ Replies /\ Asked
    BY DEF SendInv
  <1>2. /\ at = from /\ raised' \in BOOLEAN
        /\ step = STOP => at' = "disconnect" /\ raised' = raised
        /\ step /= STOP => at' = (IF InTry THEN "finally" ELSE "leave") /\ raised' = TRUE
    BY <1>1, RaiseMeans
  <1>3. UNCHANGED <<step, recording, events, wire, lines, buffer, executed,
                    answer, schedule, count, bus, told>>
    BY DEF device, file
  <1>4. ~Past
    BY <1>2 DEF Past
  <1>5. at' \in {"finally", "disconnect", "leave"} /\ step \in 1..4 /\ outgoing \in 0..step
    BY <1>1, <1>2, Ids DEF Places
  <1>6. outgoing' \in 0..step
    BY <1>5
  <1>7. Places'
    BY <1>1, <1>2, <1>3, <1>5, <1>6, Ids DEF Places, InTry
  <1>8. Replies'
    BY <1>1, <1>3, <1>5 DEF Replies
  <1>9. Asked'
    BY <1>1, <1>2, <1>3, <1>5 DEF Asked, Noted
  <1>10. Text' = Text
    BY <1>3 DEF Text
  <1>11. ASSUME NEW t, Reading(t), Done(t) PROVE Reading(t)' /\ Done(t)'
    <2>1. Reading(t)'
      BY <1>2, <1>3, <1>5, <1>10, <1>11 DEF Reading
    <2>2. CASE step = STOP
      BY <1>2, <1>3, <1>4, <1>10, <1>11, <2>1, <2>2 DEF Done, Ended, Past
    <2>3. CASE step /= STOP
      BY <1>2, <2>1, <2>3 DEF Done
    <2> QED BY <2>2, <2>3
  <1> QED BY <1>2, <1>3, <1>4, <1>7, <1>8, <1>9, <1>11, Control

LEMMA ConnectStep == ASSUME SendInv, Connect PROVE SendInv'
  <1>1. /\ Types /\ Places /\ Replies /\ Asked
    BY DEF SendInv
  <1>2. UNCHANGED <<step, recording, response, events, outgoing, wire, lines, buffer,
                    executed, answer, schedule, count, bus, told>>
    BY DEF Connect, Device!Connect, device, link, file
  <1>3. /\ at = "connect" /\ \/ at' = "enter" /\ raised' = raised
                             \/ at' = "exit" /\ raised' = TRUE
    BY DEF Connect, Goto
  <1>4. raised' \in BOOLEAN /\ ~Past
    BY <1>1, <1>3 DEF Types, Past
  <1>5. step = CONFIGURE /\ outgoing \in 0..step
    BY <1>1, <1>3 DEF Places
  <1>6. Places'
    BY <1>1, <1>2, <1>3, <1>5, Ids DEF Places, InTry
  <1>7. Replies'
    BY <1>1, <1>2, <1>3 DEF Replies
  <1>8. Asked'
    BY <1>1, <1>2, <1>3 DEF Asked, Noted
  <1>9. ASSUME NEW t, Reading(t), Done(t) PROVE Reading(t)' /\ Done(t)'
    <2>1. Reading(t)'
      BY <1>2, <1>3, <1>5, <1>9, Ids DEF Reading
    <2>2. Done(t)'
      BY <1>2, <1>3, <1>5, Ids DEF Done, Ended
    <2> QED BY <2>1, <2>2
  <1> QED BY <1>2, <1>4, <1>6, <1>7, <1>8, <1>9, Control

LEMMA EnterStep == ASSUME SendInv, Enter PROVE SendInv'
  <1>1. /\ Types /\ Places /\ Replies /\ Asked
    BY DEF SendInv
  <1>2. UNCHANGED <<step, recording, events, outgoing, wire, lines, buffer,
                    executed, answer, schedule, count, bus, told>>
    BY DEF Enter, device, file
  <1>3. response' = "none" /\ at = "enter" /\ (raised' = raised \/ Raise("enter"))
        /\ at' \in {"intent", "send", "finally", "disconnect", "leave"}
    BY DEF Enter, Goto, Raise
  <1>4. ~Past /\ step \in 1..4
    BY <1>1, <1>3, Ids DEF Past, Places
  <1>5. CASE raised' = raised /\ at' = IF step = TX /\ recording THEN "intent" ELSE "send"
    <2>1. raised' \in BOOLEAN
      BY <1>1, <1>5 DEF Types
    <2>2. Places'
      BY <1>1, <1>2, <1>3, <1>4, <1>5, Ids DEF Places, InTry
    <2>3. Replies'
      BY <1>1, <1>2, <1>3, <1>5 DEF Replies
    <2>4. Asked'
      BY <1>1, <1>2, <1>3, <1>5 DEF Asked, Noted
    <2>5. Text' = Text
      BY <1>2 DEF Text
    <2>6. ASSUME NEW t, Reading(t), Done(t) PROVE Reading(t)' /\ Done(t)'
      <3>1. Reading(t)'
        BY <1>2, <1>3, <1>5, <2>5, <2>6, Ids DEF Reading
      <3>2. Done(t)'
        BY <1>2, <1>3, <1>5, <2>5, <2>6 DEF Done, Ended, Past
      <3> QED BY <3>1, <3>2
    <2> QED BY <1>2, <1>4, <2>1, <2>2, <2>3, <2>4, <2>6, Control
  <1>6. CASE Raise("enter")
    BY <1>6, Raises DEF Enter
  <1> QED BY <1>5, <1>6 DEF Enter, Goto

LEMMA SendStep == ASSUME SendInv, SendRequest PROVE SendInv'
  <1>1. /\ Types /\ Places /\ Replies /\ Asked
    BY DEF SendInv
  <1>2. CASE Raise("send")
    BY <1>2, Raises DEF SendRequest
  <1>3. CASE Goto("send", "await") /\ outgoing' = step /\ UNCHANGED raised
    <2>1. /\ at = "send" /\ at' = "await" /\ outgoing' = step
          /\ UNCHANGED <<step, raised, recording, response, events, wire, lines, buffer,
                         executed, answer, schedule, count, bus, told>>
      BY <1>3 DEF Goto, SendRequest, device, file
    <2>2. raised' \in BOOLEAN /\ ~Past /\ step \in 1..4
      BY <1>1, <2>1, Ids DEF Types, Past, Places
    <2>3. outgoing' \in 0..step
      BY <2>1, <2>2
    <2>4. Places'
      BY <1>1, <2>1, <2>2, <2>3, Ids DEF Places, InTry
    <2>5. Replies'
      BY <1>1, <2>1 DEF Replies
    <2>6. Asked'
      BY <1>1, <2>1 DEF Asked, Noted
    <2>7. Text' = Text
      BY <2>1 DEF Text
    <2>8. ASSUME NEW t, Reading(t), Done(t) PROVE Reading(t)' /\ Done(t)'
      <3>1. Reading(t)'
        BY <2>1, <2>7, <2>8, Ids DEF Reading
      <3>2. Done(t)'
        BY <2>1, <2>7, <2>8 DEF Done, Ended, Past
      <3> QED BY <3>1, <3>2
    <2> QED BY <2>1, <2>2, <2>4, <2>5, <2>6, <2>8, Control
  <1> QED BY <1>2, <1>3 DEF SendRequest, CloseAndRaise

LEMMA AnsweredStep == ASSUME SendInv, Answered PROVE SendInv'
  <1>1. /\ DeviceInv /\ Types /\ Places /\ Replies /\ Asked
    BY DEF SendInv
  <1>2. CASE Raise("await") /\ UNCHANGED step
    <2>1. UNCHANGED <<device, step, recording, events, outgoing, wire, file>>
      BY <1>2 DEF Answered, link
    <2> QED BY <1>2, <2>1, Raises
  <1>3. CASE /\ Ok(response) /\ UNCHANGED raised
             /\ Goto("await", CASE step = CONFIGURE -> "create" [] step = START -> "enter"
                                [] step = TX -> "accepted" [] step = STOP -> "disconnect")
             /\ step' = IF step = START THEN TX ELSE step
    <2>1. /\ at = "await" /\ raised' = raised /\ step \in 1..4 /\ outgoing \in 0..step
          /\ step = 1 => at' = "create" /\ step' = 1
          /\ step = 2 => at' = "enter" /\ step' = 3
          /\ step = 3 => at' = "accepted" /\ step' = 3
          /\ step = 4 => at' = "disconnect" /\ step' = 4
      BY <1>1, <1>3, Ids DEF Goto, Places
    <2>2. /\ UNCHANGED <<recording, response, events, outgoing, wire, lines, buffer,
                         executed, answer, schedule, count, bus, told>>
          /\ response /= "none" /\ response /= "error"
      BY <1>3 DEF Answered, Ok, device, link, file
    <2>3. raised' \in BOOLEAN /\ ~Past
      BY <1>1, <2>1 DEF Types, Past
    <2>4. step = 3 => answer[3] = "accepted"
      <3>1. response = answer[step]
        BY <1>1, <2>1, <2>2 DEF Replies
      <3>2. answer[3] \in Device!Answers
        BY <1>1, Ids DEF DeviceInv, DeviceTypes
      <3>3. answer[3] /= "applied"
        BY <1>1, Ids DEF Replies
      <3> QED BY <2>2, <3>1, <3>2, <3>3 DEF Device!Answers
    <2>5. outgoing \in 0..step' /\ step' \in 1..4 /\ step <= step'
      BY <2>1
    <2>6. \A r \in Device!Requests : executed[r] = 1 => r <= step'
      <3> SUFFICES ASSUME NEW r \in Device!Requests, executed[r] = 1 PROVE r <= step'
        OBVIOUS
      <3>1. r <= step /\ r \in Int
        BY <1>1 DEF Places, Device!Requests
      <3> QED BY <2>1, <2>5, <3>1
    <2>7. /\ at' \in {"create", "enter", "accepted", "disconnect"}
          /\ at' = "create" => step' = 1
          /\ at' = "accepted" => step' = 3
          /\ at' = "disconnect" => step' = 4
          /\ step' = 1 => step = 1
      BY <2>1
    <2>8. Places'
      BY <1>1, <2>1, <2>2, <2>5, <2>6, <2>7, Ids DEF Places, InTry
    <2>9. Replies'
      BY <1>1, <2>1, <2>2, <2>4, <2>7, Ids DEF Replies
    <2>10. Asked'
      BY <1>1, <2>1, <2>2, <2>7 DEF Asked, Noted
    <2>11. Text' = Text
      BY <2>2 DEF Text
    <2>12. ASSUME NEW t, Reading(t), Done(t) PROVE Reading(t)' /\ Done(t)'
      <3>1. Reading(t)'
        BY <2>1, <2>2, <2>11, <2>12, Ids DEF Reading
      <3>2. Done(t)'
        BY <2>1, <2>2, <2>11, <2>12, Ids DEF Done, Ended, Past
      <3> QED BY <3>1, <3>2
    <2> QED BY <2>2, <2>3, <2>8, <2>9, <2>10, <2>12, Control
  <1> QED BY <1>2, <1>3 DEF Answered

(* The places where nothing is kept. *)
LEMMA FinallyStep == ASSUME SendInv, Finally PROVE SendInv'
  <1>1. /\ Types /\ Places /\ Replies /\ Asked
    BY DEF SendInv
  <1>2. UNCHANGED <<raised, recording, response, events, outgoing, wire, lines, buffer,
                    executed, answer, schedule, count, bus, told>>
    BY DEF Finally, device, link, file
  <1>3. /\ at = "finally" /\ \/ at' = "enter" /\ step' = STOP
                             \/ at' = "disconnect" /\ step' = step
        /\ step \in {START, TX} /\ outgoing \in 0..step
    BY <1>1 DEF Finally, Goto, Places, InTry
  <1>4. raised' \in BOOLEAN /\ ~Past
    BY <1>1, <1>2, <1>3 DEF Types, Past
  <1>5. step' \in 2..4 /\ outgoing \in 0..step' /\ step <= step' /\ step \in 2..3
    BY <1>3, Ids
  <1>6. \A r \in Device!Requests : executed[r] = 1 => r <= step'
    <2> SUFFICES ASSUME NEW r \in Device!Requests, executed[r] = 1 PROVE r <= step'
      OBVIOUS
    <2>1. r <= step /\ r \in Int
      BY <1>1 DEF Places, Device!Requests
    <2> QED BY <1>5, <2>1
  <1>7. Places'
    BY <1>1, <1>2, <1>3, <1>5, <1>6, Ids DEF Places, InTry
  <1>8. Replies'
    BY <1>1, <1>2, <1>3 DEF Replies
  <1>9. Asked'
    BY <1>1, <1>2, <1>3 DEF Asked, Noted
  <1>10. Text' = Text
    BY <1>2 DEF Text
  <1>11. ASSUME NEW t, Reading(t), Done(t) PROVE Reading(t)' /\ Done(t)'
    <2>1. Reading(t)'
      BY <1>2, <1>3, <1>5, <1>10, <1>11, Ids DEF Reading
    <2>2. Done(t)'
      BY <1>2, <1>3, <1>5, <1>10, <1>11 DEF Done, Ended, Past
    <2> QED BY <2>1, <2>2
  <1> QED BY <1>2, <1>4, <1>7, <1>8, <1>9, <1>11, Control

LEMMA LeaveStep == ASSUME SendInv, Leave PROVE SendInv'
  <1>1. /\ Types /\ Places /\ Replies /\ Asked
    BY DEF SendInv
  <1>2. UNCHANGED <<step, raised, recording, response, events, outgoing, wire, lines,
                    buffer, executed, answer, schedule, count, bus, told>>
    BY DEF Leave, device, file
  <1>3. at = "leave" /\ at' = "exit"
    BY DEF Leave, Goto
  <1>4. raised' \in BOOLEAN /\ Past' /\ Past
    BY <1>1, <1>2, <1>3 DEF Types, Past
  <1>5. Places'
    BY <1>1, <1>2, <1>3 DEF Places, InTry
  <1>6. Replies'
    BY <1>1, <1>2, <1>3 DEF Replies
  <1>7. Asked'
    BY <1>1, <1>2, <1>3 DEF Asked, Noted
  <1>8. Text' = Text
    BY <1>2 DEF Text
  <1>9. ASSUME NEW t, Reading(t), Done(t) PROVE Reading(t)' /\ Done(t)'
    <2>1. Reading(t)'
      BY <1>2, <1>3, <1>8, <1>9 DEF Reading
    <2>2. Done(t)'
      BY <1>2, <1>3, <1>8, <1>9 DEF Done, Ended, Past
    <2> QED BY <2>1, <2>2
  <1> QED BY <1>2, <1>4, <1>5, <1>6, <1>7, <1>9, Control

LEMMA InterruptStep == ASSUME SendInv, Interrupt PROVE SendInv'
  <1>1. /\ Types /\ Places /\ Replies /\ Asked
    BY DEF SendInv
  <1>2. UNCHANGED <<step, recording, response, events, outgoing, wire, lines, buffer,
                    executed, answer, schedule, count, bus, told>>
    BY DEF Interrupt, device, link, file
  <1>3. /\ raised' = TRUE /\ at /= "connect"
        /\ \/ at' = "finally" /\ InTry
           \/ at' = "leave"
    BY DEF Interrupt
  <1>4. raised' \in BOOLEAN /\ (Past => Past')
    BY <1>3 DEF Past, Interrupt
  <1>5. Places'
    BY <1>1, <1>2, <1>3, Ids DEF Places, InTry
  <1>6. Replies'
    BY <1>1, <1>2, <1>3 DEF Replies
  <1>7. Asked'
    BY <1>1, <1>2, <1>3 DEF Asked, Noted
  <1>8. Text' = Text
    BY <1>2 DEF Text
  <1>9. ASSUME NEW t, Reading(t), Done(t) PROVE Reading(t)' /\ Done(t)'
    <2>1. Reading(t)'
      BY <1>2, <1>3, <1>8, <1>9 DEF Reading
    <2>2. Done(t)'
      BY <1>3 DEF Done
    <2> QED BY <2>1, <2>2
  <1> QED BY <1>2, <1>4, <1>5, <1>6, <1>7, <1>9, Control

LEMMA LostStep == ASSUME SendInv, Lost PROVE SendInv'
  <1>1. UNCHANGED <<at, step, raised, recording, response, events, outgoing, wire, lines,
                    buffer, executed, answer, schedule, count, bus, told>>
    BY DEF Lost, cli, device, file
  <1>2. /\ Types /\ Places /\ Replies /\ Asked
    BY DEF SendInv
  <1>3. /\ raised' \in BOOLEAN /\ (Past => Past') /\ Places' /\ Replies' /\ Asked'
    BY <1>1, <1>2 DEF Types, Past, Places, InTry, Replies, Asked, Noted
  <1>4. Text' = Text
    BY <1>1 DEF Text
  <1>5. ASSUME NEW t, Reading(t), Done(t) PROVE Reading(t)' /\ Done(t)'
    BY <1>1, <1>4, <1>5 DEF Reading, Done, Ended, Past
  <1> QED BY <1>1, <1>3, <1>5, Control

LEMMA GivesUpStep == ASSUME SendInv, GivesUp PROVE SendInv'
  <1>1. /\ Raise("await")
        /\ UNCHANGED <<device, step, recording, events, outgoing, wire, file>>
    BY DEF GivesUp, CloseAndRaise
  <1> QED BY <1>1, Raises

LEMMA LoopRaisesStep == ASSUME SendInv, LoopRaises PROVE SendInv'
  <1>1. /\ Raise("loop")
        /\ UNCHANGED <<device, step, recording, events, outgoing, wire, file>>
    BY DEF LoopRaises, link
  <1> QED BY <1>1, Raises

-----------------------------------------------------------------------------
(* The next item of the wire is handed over: an event to the queue, ... *)
LEMMA FlowShift ==
    ASSUME NEW t, NEW f, Flow(t, f), wire \in Seq(Message), told' = told,
           told \in Seq(Device!Event), events \in Seq(Device!Event),
           wire /= <<>>, wire' = Tail(wire),
           events' = IF wire[1].request = 0 THEN events \o wire[1].event ELSE events
    PROVE  events' \in Seq(Device!Event) /\ \E g : Flow(t, g)'
  <1>1. Len(wire) \in Nat \ {0} /\ Len(told) \in Nat /\ Len(events) \in Nat
    BY LenProperties, EmptySeq
  <1>2. /\ t \in Nat /\ f \in [0..Len(wire) -> 0..Len(told)]
        /\ f[0] = t + Len(events) /\ f[Len(wire)] = Len(told)
        /\ \A n \in 1..Len(wire) :
             IF wire[n].request = 0
             THEN f[n] = f[n - 1] + 1 /\ wire[n].event = <<told[f[n]]>>
             ELSE f[n] = f[n - 1]
        /\ \A i \in 1..Len(events) : events[i] = told[t + i]
    BY DEF Flow
  <1>3. Len(wire') = Len(wire) - 1 /\ \A n \in 1..Len(wire') : wire'[n] = wire[n + 1]
    BY <1>1, HeadTailProperties
  <1>4. \A n \in 0..Len(wire) : f[n] \in 0..Len(told)
    BY <1>2
  <1>5. 1 \in 1..Len(wire) /\ 1 \in 0..Len(wire) /\ 0 \in 0..Len(wire) /\ 1 - 1 = 0
    BY <1>1
  <1>6. /\ events' \in Seq(Device!Event) /\ f[1] = t + Len(events')
        /\ \A i \in 1..Len(events') : events'[i] = told[t + i]
    <2>1. CASE wire[1].request /= 0
      BY <1>2, <1>5, <2>1
    <2>2. CASE wire[1].request = 0
      <3>1. f[1] = f[0] + 1 /\ wire[1].event = <<told[f[1]]>>
        BY <1>2, <1>5, <2>2
      <3>2. f[1] \in 1..Len(told) /\ f[1] = t + (Len(events) + 1)
        BY <1>1, <1>2, <1>4, <1>5, <3>1
      <3>3. PICK e \in Device!Event : e = told[f[1]]
        BY <3>2, ElementOfSeq
      <3>4. PICK s \in Seq(Device!Event) : s = events
        OBVIOUS
      <3>5. PICK w \in Seq(Device!Event) :
              /\ w = Append(s, e) /\ w = s \o <<e>> /\ Len(w) = Len(s) + 1
              /\ \A i \in 1..Len(s) : w[i] = s[i]
              /\ w[Len(s) + 1] = e
        BY ONLY OneMore, s \in Seq(Device!Event), e \in Device!Event
      <3>6. events' = w
        BY <2>2, <3>1, <3>3, <3>4, <3>5
      <3>7. ASSUME NEW i \in 1..Len(w) PROVE w[i] = told[t + i]
        <4>1. CASE i = Len(s) + 1
          BY <3>2, <3>3, <3>4, <3>5, <4>1
        <4>2. CASE i \in 1..Len(s)
          BY <1>2, <3>4, <3>5, <4>2
        <4> QED BY <1>1, <3>4, <3>5, <4>1, <4>2
      <3> QED BY <3>2, <3>4, <3>5, <3>6, <3>7
    <2> QED BY <2>1, <2>2
  <1>7. PICK g : g = [n \in 0..(Len(wire) - 1) |-> f[n + 1]]
    OBVIOUS
  <1>8. \A n \in 0..(Len(wire) - 1) : n + 1 \in 0..Len(wire) /\ g[n] = f[n + 1]
    BY <1>1, <1>7
  <1>9. g \in [0..(Len(wire) - 1) -> 0..Len(told)]
    BY <1>4, <1>7, <1>8
  <1>10. g[0] = f[1] /\ g[Len(wire) - 1] = Len(told)
    <2>1. 0 \in 0..(Len(wire) - 1) /\ Len(wire) - 1 \in 0..(Len(wire) - 1)
          /\ 0 + 1 = 1 /\ (Len(wire) - 1) + 1 = Len(wire)
      BY <1>1
    <2> QED BY <1>2, <1>8, <2>1
  <1>11. ASSUME NEW n \in 1..(Len(wire) - 1)
         PROVE  IF wire[n + 1].request = 0
                THEN g[n] = g[n - 1] + 1 /\ wire[n + 1].event = <<told[g[n]]>>
                ELSE g[n] = g[n - 1]
    <2>1. /\ n \in 0..(Len(wire) - 1) /\ n - 1 \in 0..(Len(wire) - 1)
          /\ (n - 1) + 1 = n /\ (n + 1) - 1 = n /\ n + 1 \in 1..Len(wire)
      BY <1>1
    <2>2. g[n] = f[n + 1] /\ g[n - 1] = f[n]
      BY <1>8, <2>1
    <2> QED BY <1>2, <2>1, <2>2
  <1>12. Flow(t, g)'
    <2>1. /\ g \in [0..Len(wire') -> 0..Len(told')] /\ g[Len(wire')] = Len(told')
          /\ g[0] = t + Len(events')
      BY <1>3, <1>6, <1>9, <1>10
    <2>2. \A n \in 1..Len(wire') :
            IF wire'[n].request = 0
            THEN g[n] = g[n - 1] + 1 /\ wire'[n].event = <<told'[g[n]]>>
            ELSE g[n] = g[n - 1]
      BY <1>3, <1>11
    <2> QED BY <1>2, <1>6, <2>1, <2>2, Zenon DEF Flow
  <1> QED BY <1>6, <1>12

(* ... an answer to the program, if it is what it waits for. *)
LEMMA ReaderStep == ASSUME SendInv, Reader PROVE SendInv'
  <1>1. /\ DeviceInv /\ Types /\ Places /\ Replies /\ Asked /\ Told /\ Faithful
        /\ Progress
    BY DEF SendInv
  <1>2. /\ at' = at /\ step' = step /\ raised' = raised /\ recording' = recording
        /\ outgoing' = outgoing /\ lines' = lines /\ buffer' = buffer
        /\ executed' = executed /\ answer' = answer /\ schedule' = schedule
        /\ count' = count /\ bus' = bus /\ told' = told
    BY DEF Reader, cli, file, device
  <1>3. /\ wire \in Seq(Message) /\ told \in Seq(Device!Event)
        /\ events \in Seq(Device!Event)
    BY <1>1 DEF Types, DeviceInv, DeviceTypes
  <1>4. /\ wire /= <<>> /\ wire' = Tail(wire)
        /\ events' = (IF wire[1].request = 0 THEN events \o wire[1].event ELSE events)
        /\ response' = (IF wire[1].request /= 0 /\ at = "await"
                           /\ wire[1].request = step
                        THEN wire[1].answer ELSE response)
    <2>1. Head(wire) = wire[1]
      BY <1>3 DEF Reader
    <2> QED BY <2>1 DEF Reader
  <1>5. /\ Len(wire) \in Nat \ {0} /\ Len(wire') = Len(wire) - 1
        /\ wire' \in Seq(Message) /\ \A n \in 1..Len(wire') : wire'[n] = wire[n + 1]
    BY <1>3, <1>4, HeadTailProperties, LenProperties, EmptySeq
  <1>6. PICK t, f : Flow(t, f) /\ Reading(t) /\ Done(t)
    BY <1>1 DEF Progress
  <1>7. events' \in Seq(Device!Event) /\ \E g : Flow(t, g)'
    BY <1>2, <1>3, <1>4, <1>6, FlowShift
  <1>8. DeviceInv'
    BY <1>1, <1>2 DEF DeviceInv, DeviceTypes, Origins, TrueEvents, Claims, Right
  <1>9. Types'
    BY <1>1, <1>2, <1>5, <1>7 DEF Types
  <1>10. Places' /\ Asked' /\ Told'
    BY <1>1, <1>2 DEF Places, InTry, Asked, Noted, Told
  <1>11. Replies'
    <2>1. at = "await" => response' \in {"none", answer[step]}
      <3>1. CASE wire[1].request /= 0 /\ wire[1].request = step
        <4>1. 1 \in 1..Len(wire)
          BY <1>5
        <4>2. answer[step] = wire[1].answer
          BY <1>1, <3>1, <4>1 DEF Replies
        <4> QED BY <1>1, <1>4, <3>1, <4>2 DEF Replies
      <3>2. CASE ~(wire[1].request /= 0 /\ wire[1].request = step)
        BY <1>1, <1>4, <3>2 DEF Replies
      <3> QED BY <3>1, <3>2
    <2>2. at \in {"intent", "send"} => response' = "none"
      BY <1>1, <1>4 DEF Replies
    <2>3. ASSUME NEW n \in 1..Len(wire'), wire'[n].request /= 0
          PROVE  /\ wire'[n].request \in Device!Requests /\ wire'[n].answer /= "none"
                 /\ answer[wire'[n].request] = wire'[n].answer
      <3>1. n + 1 \in 1..Len(wire) /\ wire'[n] = wire[n + 1]
        BY <1>5
      <3> QED BY <1>1, <2>3, <3>1 DEF Replies
    <2> QED BY <1>1, <1>2, <2>1, <2>2, <2>3 DEF Replies
  <1>12. Text' = Text /\ Truth' = Truth
    BY <1>2 DEF Text, Truth
  <1>13. Faithful'
    BY <1>1, <1>2, <1>12 DEF Faithful, Past
  <1>14. Progress'
    <2>1. Reading(t)' /\ Done(t)'
      BY <1>2, <1>6, <1>12 DEF Reading, Done, Ended, Past
    <2> QED BY <1>7, <2>1 DEF Progress
  <1> QED BY <1>8, <1>9, <1>10, <1>11, <1>13, <1>14 DEF SendInv

-----------------------------------------------------------------------------
(* The program writes a line, which may fail: it is the next of the truth, *)
(* or the end.                                                             *)
LEMMA LineStep ==
    ASSUME SendInv, NEW e \in Entry, Written(e) \/ WriteFails(e), recording,
           UNCHANGED <<step, recording, outgoing, wire, executed, answer, schedule,
                       count, bus, told>>,
           events' \in Seq(Device!Event), raised' \in BOOLEAN, ~Past,
           Places', Replies', Progress', at' = "send" => Noted',
           \/ Len(Text) + 1 <= Len(Truth) /\ e = Truth[Len(Text) + 1]
           \/ Past' /\ e = Line("disconnect"),
           e = Line("accepted") => answer[TX] = "accepted"
    PROVE  SendInv'
  <1>1. /\ DeviceInv /\ Types /\ Asked /\ Told /\ Faithful
    BY DEF SendInv
  <1>2. Longer(e)
    BY <1>1, LineAdded
  <1>3. /\ lines' \in Seq(Entry) /\ buffer' \in Seq(Entry)
        /\ Len(Text') = Len(Text) + 1 /\ Text'[Len(Text) + 1] = e
        /\ \A i \in 1..Len(Text) : Text'[i] = Text[i]
        /\ Len(lines) <= Len(lines') /\ \A i \in 1..Len(lines) : lines'[i] = lines[i]
    BY <1>2 DEF Longer
  <1>4. /\ Len(Text) \in Nat /\ Len(lines) \in Nat /\ Len(lines') \in Nat
    <2>1. Len(lines') \in Nat
      BY <1>3, LenProperties
    <2> QED BY <1>1, <2>1, Both, LenProperties DEF Types, Text
  <1>5. DeviceInv'
    BY <1>1 DEF DeviceInv, DeviceTypes, Origins, TrueEvents, Claims, Right
  <1>6. Types'
    BY <1>1, <1>3 DEF Types
  <1>7. Told'
    BY <1>1 DEF Told
  <1>8. Noted => Noted'
    <2> SUFFICES ASSUME Noted PROVE Noted'
      OBVIOUS
    <2>1. PICK i \in 1..Len(lines) : lines[i].type = "tx_request"
      BY DEF Noted
    <2>2. i \in 1..Len(lines') /\ lines'[i] = lines[i]
      BY <1>3, <1>4
    <2> QED BY <2>1, <2>2 DEF Noted
  <1>9. Asked'
    BY <1>1, <1>8 DEF Asked
  <1>10. Truth' = Truth
    BY DEF Truth
  <1>11. Faithful'
    <2>1. ASSUME NEW i \in 1..Len(Text')
          PROVE  \/ i <= Len(Truth) /\ Text'[i] = Truth[i]
                 \/ Past' /\ i = Len(Text') /\ Text'[i] = Line("disconnect")
      <3>1. CASE i = Len(Text) + 1
        BY <1>3, <3>1
      <3>2. CASE i \in 1..Len(Text)
        BY <1>1, <1>3, <3>2 DEF Faithful
      <3> QED BY <1>3, <1>4, <3>1, <3>2
    <2>2. ASSUME Len(Text') >= 3, Text'[3] = Line("accepted")
          PROVE  answer[TX] = "accepted"
      <3>1. CASE Len(Text) = 2
        BY <1>3, <2>2, <3>1
      <3>2. CASE Len(Text) >= 3
        <4>1. 3 \in 1..Len(Text)
          BY <1>4, <3>2
        <4> QED BY <1>1, <1>3, <2>2, <3>2, <4>1 DEF Faithful
      <3> QED BY <1>3, <1>4, <2>2, <3>1, <3>2
    <2> QED BY <1>10, <2>1, <2>2 DEF Faithful
  <1> QED BY <1>5, <1>6, <1>7, <1>9, <1>11 DEF SendInv

LEMMA Strings ==
    /\ \A k \in Kinds : Line(k) \in Entry
    /\ \A j, k \in Kinds : Line(j) = Line(k) => j = k
    /\ \A e \in Device!Event : EventLine(e) \in Entry /\ EventLine(e).type = "tx_event"
    /\ \A k \in Kinds : Line(k).type = k
  <1>1. \A k \in Kinds : Line(k) \in Entry /\ Line(k).type = k
    BY EmptySeq DEF Line, Entry
  <1>2. ASSUME NEW e \in Device!Event
        PROVE  EventLine(e) \in Entry /\ EventLine(e).type = "tx_event"
    <2>1. <<e>> \in Seq(Device!Event)
      OBVIOUS
    <2> QED BY <2>1 DEF EventLine, Entry, Kinds
  <1>3. ASSUME NEW j \in Kinds, NEW k \in Kinds, Line(j) = Line(k) PROVE j = k
    <2>1. Line(j).type = j /\ Line(k).type = k
      BY <1>1
    <2> QED BY <1>3, <2>1
  <1> QED BY <1>1, <1>2, <1>3

(* The record of the intent. *)
LEMMA IntentStep == ASSUME SendInv, Intent PROVE SendInv'
  <1>1. /\ DeviceInv /\ Types /\ Places /\ Replies /\ Asked /\ Faithful /\ Progress
    BY DEF SendInv
  <1> DEFINE e == Line("tx_request")
  <1>2. /\ at = "intent" /\ recording /\ step = TX /\ ~Past
    BY <1>1 DEF Intent, IntentFails, CloseAndRaise, Raise, Goto, Past, Places
  <1>3. UNCHANGED <<step, recording, response, events, outgoing, wire, executed, answer,
                    schedule, count, bus, told>>
    BY DEF Intent, device
  <1>4. e \in Entry /\ e /= Line("accepted") /\ e.type = "tx_request"
    BY Strings DEF Kinds
  <1>5. Written(e) \/ WriteFails(e)
    BY DEF Intent
  <1>6. /\ at' \in {"send", "finally"}
        /\ at' = "send" => raised' = raised /\ Written(e)
        /\ at' = "finally" => raised' = TRUE
    <2>1. CASE Raise("intent")
      <3>1. step /= STOP /\ InTry
        BY <1>2, Ids DEF InTry
      <3>2. at' = "finally" /\ raised' = TRUE
        BY <1>1, <2>1, <3>1, RaiseMeans
      <3> QED BY <3>2
    <2>2. CASE at' = "send" /\ raised' = raised /\ Written(e)
      BY <2>2
    <2> QED BY <2>1, <2>2 DEF Intent, IntentFails, CloseAndRaise, Goto
  <1>7. raised' \in BOOLEAN
    BY <1>1, <1>6 DEF Types
  <1>8. PICK t, f : Flow(t, f) /\ Reading(t) /\ Done(t)
    BY <1>1 DEF Progress
  <1>9. Len(Text) = 1 /\ t = 0
    BY <1>2, <1>8 DEF Reading
  <1>10. Longer(e) /\ (Written(e) => buffer' = <<>>)
    BY <1>1, <1>4, <1>5, LineAdded
  <1>11. Len(Text') = 2 /\ Text'[2] = e
    BY <1>9, <1>10 DEF Longer
  <1>12. Len(Text) + 1 <= Len(Truth) /\ e = Truth[Len(Text) + 1]
    BY <1>1, <1>9, Truths DEF DeviceInv, DeviceTypes
  <1>13. at' = "send" => Noted'
    <2> SUFFICES ASSUME at' = "send" PROVE Noted'
      OBVIOUS
    <2>1. Text' = lines'
      <3>1. buffer' = <<>> /\ lines' \in Seq(Entry)
        BY <1>6, <1>10 DEF Longer
      <3> QED BY <3>1, ConcatEmptySeq DEF Text
    <2>2. 2 \in 1..Len(lines') /\ lines'[2].type = "tx_request"
      BY <1>4, <1>11, <2>1
    <2> QED BY <2>2 DEF Noted
  <1>14. Places'
    BY <1>1, <1>2, <1>3, <1>6, Ids DEF Places, InTry
  <1>15. Replies'
    BY <1>1, <1>2, <1>3, <1>6 DEF Replies
  <1>16. Progress'
    <2>1. Flow(t, f)'
      BY <1>3, <1>8 DEF Flow
    <2>2. Reading(t)'
      BY <1>2, <1>3, <1>6, <1>9, <1>11, Ids DEF Reading
    <2>3. Done(t)'
      BY <1>2, <1>3, <1>6, Ids DEF Done, Ended
    <2> QED BY <2>1, <2>2, <2>3 DEF Progress
  <1>17. events' \in Seq(Device!Event)
    BY <1>1, <1>3 DEF Types
  <1> HIDE DEF e
  <1> QED BY <1>2, <1>3, <1>4, <1>5, <1>7, <1>12, <1>13, <1>14, <1>15, <1>16, <1>17, LineStep

(* Where the run ends, and with what: the file is closed, or left open and *)
(* flushed later.                                                          *)
LEMMA ClosesStep ==
    ASSUME SendInv, FileCloses, at \in {"close", "exit"}, at' \in {"leave", "exit"},
           UNCHANGED <<device, step, recording, link>>, raised' \in BOOLEAN,
           ~raised' => ~raised /\ (buffer' = <<>> \/ at = "exit")
    PROVE  SendInv'
  <1>1. /\ DeviceInv /\ Types /\ Places /\ Replies /\ Asked /\ Told /\ Faithful
        /\ Progress
    BY DEF SendInv
  <1>2. UNCHANGED <<step, recording, response, events, outgoing, wire, executed, answer,
                    schedule, count, bus, told>>
    BY DEF device, link
  <1>3. /\ lines' \in Seq(Entry) /\ buffer' \in Seq(Entry) /\ Text' = Text
        /\ Len(lines) <= Len(lines') /\ \A i \in 1..Len(lines) : lines'[i] = lines[i]
        /\ buffer = <<>> => buffer' = <<>>
    BY <1>1, FileClosed
  <1>4. Past /\ Past'
    BY DEF Past
  <1>5. DeviceInv'
    BY <1>1, <1>2 DEF DeviceInv, DeviceTypes, Origins, TrueEvents, Claims, Right
  <1>6. Types'
    BY <1>1, <1>2, <1>3 DEF Types
  <1>7. ~recording => lines' = <<>> /\ buffer' = <<>>
    <2> SUFFICES ASSUME ~recording PROVE lines' = <<>> /\ buffer' = <<>>
      OBVIOUS
    <2>1. lines = <<>> /\ buffer = <<>>
      BY <1>1 DEF Places
    <2>2. PICK a \in Seq(Entry) : a = lines'
      BY <1>3
    <2>3. a \o <<>> = <<>>
      <3>1. Text' = a \o <<>> /\ Text = lines \o buffer
        BY <1>3, <2>1, <2>2 DEF Text
      <3>2. <<>> \in Seq(Entry) /\ lines \o buffer = <<>>
        BY <2>1, EmptySeq, ConcatEmptySeq
      <3> QED BY <1>3, <3>1, <3>2
    <2>4. a = <<>>
      BY <2>3, ConcatEmptySeq
    <2> QED BY <1>3, <2>1, <2>2, <2>4
  <1>8. Places'
    BY <1>1, <1>2, <1>7 DEF Places, InTry
  <1>9. Replies'
    BY <1>1, <1>2 DEF Replies
  <1>10. Noted => Noted'
    <2> SUFFICES ASSUME Noted PROVE Noted'
      OBVIOUS
    <2>1. PICK i \in 1..Len(lines) : lines[i].type = "tx_request"
      BY DEF Noted
    <2>2. i \in 1..Len(lines') /\ lines'[i] = lines[i]
      <3>1. Len(lines) \in Nat /\ Len(lines') \in Nat
        BY <1>1, <1>3, LenProperties DEF Types
      <3> QED BY <1>3, <3>1
    <2> QED BY <2>1, <2>2 DEF Noted
  <1>11. Asked'
    BY <1>1, <1>2, <1>10 DEF Asked
  <1>12. Told'
    BY <1>1, <1>2 DEF Told
  <1>13. Truth' = Truth
    BY <1>2 DEF Truth
  <1>14. Faithful'
    BY <1>1, <1>2, <1>3, <1>4, <1>13 DEF Faithful
  <1>15. Progress'
    <2>1. PICK t, f : Flow(t, f) /\ Reading(t) /\ Done(t)
      BY <1>1 DEF Progress
    <2>2. Flow(t, f)'
      BY <1>2, <2>1 DEF Flow
    <2>3. Reading(t)'
      BY <1>2, <1>3, <2>1 DEF Reading
    <2>4. Done(t)'
      BY <1>2, <1>3, <1>4, <2>1 DEF Done, Ended
    <2> QED BY <2>2, <2>3, <2>4 DEF Progress
  <1> QED BY <1>5, <1>6, <1>8, <1>9, <1>11, <1>12, <1>14, <1>15 DEF SendInv

LEMMA CloseFileStep == ASSUME SendInv, CloseFile PROVE SendInv'
  <1>1. /\ FileCloses /\ at = "close" /\ at' = "leave"
        /\ raised' = (raised \/ buffer' /= <<>>)
        /\ UNCHANGED <<device, step, recording, link>>
    BY DEF CloseFile, Goto
  <1>2. raised \in BOOLEAN
    BY DEF SendInv, Types
  <1>3. CASE raised \/ buffer' /= <<>>
    <2>1. raised' = TRUE
      BY <1>1, <1>3
    <2> QED BY <1>1, <2>1, ClosesStep
  <1>4. CASE ~(raised \/ buffer' /= <<>>)
    <2>1. raised' = FALSE /\ ~raised /\ buffer' = <<>>
      BY <1>1, <1>2, <1>4
    <2> QED BY <1>1, <2>1, ClosesStep
  <1> QED BY <1>3, <1>4

LEMMA FinalizeStep == ASSUME SendInv, Finalize PROVE SendInv'
  <1>1. /\ FileCloses /\ at = "exit" /\ at' = "exit" /\ raised' = raised
        /\ UNCHANGED <<device, step, recording, link>>
    BY DEF Finalize, cli
  <1>2. raised \in BOOLEAN
    BY DEF SendInv, Types
  <1> QED BY <1>1, <1>2, ClosesStep

(* The file is created with its first line, or part of it. *)
LEMMA CreateStep == ASSUME SendInv, Create PROVE SendInv'
  <1>1. /\ DeviceInv /\ Types /\ Places /\ Replies /\ Asked /\ Told /\ Faithful
        /\ Progress
    BY DEF SendInv
  <1> DEFINE e == Line("metadata")
  <1>2. UNCHANGED <<recording, response, events, outgoing, wire, executed, answer,
                    schedule, count, bus, told>>
    BY DEF Create, device, link
  <1>3. at = "create" /\ step = CONFIGURE /\ ~Past
    BY <1>1 DEF Create, Goto, Raise, Past, Places
  <1>4. /\ at' \in {"enter", "leave"} /\ raised' \in BOOLEAN
        /\ at' = "enter" => /\ step' = START /\ raised' = raised /\ buffer' = buffer
                            /\ lines' = (IF recording THEN <<e>> ELSE <<>>)
        /\ at' = "leave" => /\ step' = CONFIGURE /\ raised' = TRUE /\ recording
                            /\ lines' = lines /\ buffer' \in {<<>>, <<e>>}
    <2>1. CASE Raise("create") /\ step' = step
      <3>1. step /= STOP /\ ~InTry
        BY <1>3, Ids DEF InTry
      <3>2. at' = "leave" /\ raised' = TRUE
        BY <1>1, <2>1, <3>1, RaiseMeans
      <3> QED BY <1>3, <2>1, <3>2 DEF Create, Goto
    <2>2. CASE at' = "enter"
      <3>1. ~Raise("create")
        BY <1>3, <2>2, Ids DEF Raise, Goto, InTry
      <3> QED BY <1>1, <2>2, <3>1 DEF Create, Types
    <2> QED BY <2>1, <2>2 DEF Create, Goto
  <1>5. lines = <<>> /\ buffer = <<>>
    BY <1>1, <1>3 DEF Places
  <1>6. e \in Entry
    BY Strings DEF Kinds
  <1>7. <<e>> \in Seq(Entry) /\ Len(<<e>>) = 1 /\ <<e>>[1] = e
        /\ <<>> \in Seq(Entry) /\ Len(<<>>) = 0
    <2> HIDE DEF e
    <2> QED BY <1>6, EmptySeq
  <1>8. /\ lines' \in Seq(Entry) /\ buffer' \in Seq(Entry)
        /\ Text' = <<>> \/ Text' = <<e>>
        /\ at' = "enter" /\ recording => Text' = <<e>>
        /\ ~recording => lines' = <<>> /\ buffer' = <<>>
    <2> HIDE DEF e
    <2>1. <<>> \o <<>> = <<>> /\ <<>> \o <<e>> = <<e>> /\ <<e>> \o <<>> = <<e>>
      BY <1>7, ConcatEmptySeq
    <2>2. CASE at' = "enter"
      BY <1>4, <1>5, <1>7, <2>1, <2>2 DEF Text
    <2>3. CASE at' = "leave"
      BY <1>4, <1>5, <1>7, <2>1, <2>3 DEF Text
    <2> QED BY <1>4, <2>2, <2>3
  <1>9. DeviceInv'
    BY <1>1, <1>2 DEF DeviceInv, DeviceTypes, Origins, TrueEvents, Claims, Right
  <1>10. Types'
    BY <1>1, <1>2, <1>4, <1>8 DEF Types
  <1>11. step' \in 1..2 /\ step = 1 /\ outgoing \in 0..1
    BY <1>1, <1>3, <1>4, Ids DEF Places
  <1>12. \A r \in Device!Requests : executed[r] = 1 => r <= 1
    BY <1>1, <1>11 DEF Places
  <1>13. Places'
    <2>1. outgoing \in 0..step'
      BY <1>11
    <2>2. \A r \in Device!Requests : executed[r] = 1 => r <= step'
      <3> SUFFICES ASSUME NEW r \in Device!Requests, executed[r] = 1 PROVE r <= step'
        OBVIOUS
      <3>1. r <= 1 /\ r \in Int
        BY <1>12 DEF Device!Requests
      <3> QED BY <1>11, <3>1
    <2>3. step' \in CONFIGURE..STOP /\ (at' = "enter" => step' /= CONFIGURE)
      BY <1>4, <1>11, Ids
    <2> QED BY <1>2, <1>4, <1>8, <2>1, <2>2, <2>3 DEF Places
  <1>14. Replies'
    BY <1>1, <1>2, <1>4 DEF Replies
  <1>15. executed[TX] /= 1 /\ outgoing /= TX
    BY <1>11, <1>12, Ids
  <1>16. Asked'
    BY <1>1, <1>2, <1>4, <1>15 DEF Asked
  <1>17. Told'
    BY <1>1, <1>2 DEF Told
  <1>18. Truth' = Truth /\ Truth[1] = e /\ 1 <= Len(Truth)
    BY <1>1, <1>2, Truths DEF Truth, DeviceInv, DeviceTypes
  <1>19. Faithful'
    <2> HIDE DEF e
    <2>1. Len(Text') \in {0, 1} /\ (Len(Text') = 1 => Text'[1] = e)
      BY <1>7, <1>8
    <2>2. ASSUME NEW i \in 1..Len(Text')
          PROVE  i <= Len(Truth) /\ Text'[i] = Truth[i]
      <3>1. Len(Text') = 1 /\ i = 1
        BY <2>1
      <3> QED BY <1>18, <2>1, <3>1
    <2> QED BY <1>18, <2>1, <2>2 DEF Faithful
  <1>20. Progress'
    <2>1. PICK t, f : Flow(t, f) /\ Reading(t) /\ Done(t)
      BY <1>1 DEF Progress
    <2>2. Flow(t, f)'
      BY <1>2, <2>1 DEF Flow
    <2>3. t = 0
      BY <1>3, <2>1 DEF Reading
    <2>4. at' = "enter" /\ recording => Len(Text') = 1
      BY <1>7, <1>8
    <2>5. Reading(t)'
      BY <1>2, <1>4, <1>11, <2>3, <2>4, Ids DEF Reading
    <2>6. Done(t)'
      BY <1>4, <1>11, Ids DEF Done, Ended
    <2> QED BY <2>2, <2>5, <2>6 DEF Progress
  <1> QED BY <1>9, <1>10, <1>13, <1>14, <1>16, <1>17, <1>19, <1>20 DEF SendInv

LEMMA AcceptedStep == ASSUME SendInv, Accepted PROVE SendInv'
  <1>1. /\ DeviceInv /\ Types /\ Places /\ Replies /\ Asked /\ Progress
    BY DEF SendInv
  <1> DEFINE e == Line("accepted")
  <1>2. UNCHANGED <<step, recording, response, events, outgoing, wire, executed, answer,
                    schedule, count, bus, told>>
    BY DEF Accepted, device, link
  <1>3. at = "accepted" /\ step = TX /\ answer[TX] = "accepted" /\ ~Past
    BY <1>1 DEF Accepted, Writes, Raise, Goto, Past, Places, Replies
  <1>4. /\ at' \in {"loop", "finally"}
        /\ at' = "loop" => raised' = raised
        /\ at' = "finally" => raised' = TRUE
        /\ IF recording THEN Written(e) \/ WriteFails(e) ELSE UNCHANGED file
    <2>1. CASE Raise("accepted") /\ recording /\ WriteFails(e)
      <3>1. step /= STOP /\ InTry
        BY <1>3, Ids DEF InTry
      <3>2. at' = "finally" /\ raised' = TRUE
        BY <1>1, <2>1, <3>1, RaiseMeans
      <3> QED BY <2>1, <3>2
    <2>2. CASE /\ at' = "loop" /\ raised' = raised
               /\ IF recording THEN Written(e) ELSE UNCHANGED file
      BY <2>2
    <2> QED BY <2>1, <2>2 DEF Accepted, Writes, Goto
  <1>5. raised' \in BOOLEAN
    BY <1>1, <1>4 DEF Types
  <1>6. Replies'
    BY <1>1, <1>2, <1>3, <1>4 DEF Replies
  <1>7. CASE ~recording
    <2>1. UNCHANGED <<lines, buffer>>
      BY <1>4, <1>7 DEF file
    <2>2. Places'
      BY <1>1, <1>2, <1>3, <1>4, <2>1, Ids DEF Places, InTry
    <2>3. Asked'
      BY <1>1, <1>2, <1>7 DEF Asked
    <2>4. ASSUME NEW t, Reading(t), Done(t) PROVE Reading(t)' /\ Done(t)'
      <3>1. Reading(t)'
        BY <1>2, <1>3, <1>4, <1>7, <2>4, Ids DEF Reading
      <3>2. Done(t)'
        BY <1>2, <1>3, <1>4, Ids DEF Done, Ended
      <3> QED BY <3>1, <3>2
    <2> QED BY <1>2, <1>3, <1>5, <1>6, <2>1, <2>2, <2>3, <2>4, Control
  <1>8. CASE recording
    <2>1. PICK t, f : Flow(t, f) /\ Reading(t) /\ Done(t)
      BY <1>1 DEF Progress
    <2>2. Len(Text) = 2 /\ t = 0
      BY <1>3, <1>8, <2>1 DEF Reading
    <2>3. e \in Entry
      BY Strings DEF Kinds
    <2>4. Len(Text') = 3
      BY <1>1, <1>4, <1>8, <2>2, <2>3, LineAdded DEF Longer
    <2>5. Len(Text) + 1 <= Len(Truth) /\ e = Truth[Len(Text) + 1]
      BY <1>1, <2>2, Truths DEF DeviceInv, DeviceTypes
    <2>6. Places'
      BY <1>1, <1>2, <1>3, <1>4, <1>8, Ids DEF Places, InTry
    <2>7. Progress'
      <3>1. Flow(t, f)'
        BY <1>2, <2>1 DEF Flow
      <3>2. Reading(t)'
        BY <1>2, <1>3, <1>4, <2>2, <2>4, Ids DEF Reading
      <3>3. Done(t)'
        BY <1>2, <1>3, <1>4, Ids DEF Done, Ended
      <3> QED BY <3>1, <3>2, <3>3 DEF Progress
    <2>8. events' \in Seq(Device!Event)
      BY <1>1, <1>2 DEF Types
    <2> HIDE DEF e
    <2>9. Written(e) \/ WriteFails(e)
      BY <1>4, <1>8
    <2>10. at' /= "send"
      BY <1>4
    <2> QED
      BY <1>2, <1>3, <1>5, <1>6, <1>8, <2>3, <2>5, <2>6, <2>7, <2>8, <2>9, <2>10, LineStep
  <1> QED BY <1>7, <1>8

(* The next event is taken, and recorded; at the final one the loop ends.  *)
LEMMA TakesStep == ASSUME SendInv, LoopTakes PROVE SendInv'
  <1>1. /\ DeviceInv /\ Types /\ Places /\ Replies /\ Asked /\ Told /\ Progress
    BY DEF SendInv
  <1>2. UNCHANGED <<step, recording, response, outgoing, wire, executed, answer,
                    schedule, count, bus, told>>
    BY DEF LoopTakes, device
  <1>3. /\ events \in Seq(Device!Event) /\ events /= <<>> /\ events' = Tail(events)
        /\ told \in Seq(Device!Event)
    BY <1>1 DEF LoopTakes, Types, DeviceInv, DeviceTypes
  <1>4. /\ Len(events) \in Nat \ {0} /\ events' \in Seq(Device!Event)
        /\ Len(events') = Len(events) - 1 /\ Head(events) = events[1]
        /\ \A i \in 1..Len(events') : events'[i] = events[i + 1]
    BY <1>3, HeadTailProperties, LenProperties, EmptySeq
  <1>5. PICK t, f : Flow(t, f) /\ Reading(t) /\ Done(t)
    BY <1>1 DEF Progress
  <1>6. /\ t \in Nat /\ f \in [0..Len(wire) -> 0..Len(told)]
        /\ f[0] = t + Len(events) /\ f[Len(wire)] = Len(told)
        /\ \A n \in 1..Len(wire) :
             IF wire[n].request = 0
             THEN f[n] = f[n - 1] + 1 /\ wire[n].event = <<told[f[n]]>>
             ELSE f[n] = f[n - 1]
        /\ \A i \in 1..Len(events) : events[i] = told[t + i]
    BY <1>5 DEF Flow
  <1>7. Len(told) \in Nat /\ f[0] \in 0..Len(told)
    <2>1. 0 \in 0..Len(wire)
      BY <1>1, LenProperties DEF Types
    <2> QED BY <1>3, <1>6, <2>1, LenProperties
  <1>8. t + 1 \in 1..Len(told) /\ t + 1 \in Nat
    BY <1>4, <1>6, <1>7
  <1>9. PICK e \in Device!Event : e = Head(events)
    BY <1>3, <1>4, ElementOfSeq
  <1>10. e = told[t + 1]
    BY <1>4, <1>6, <1>9
  <1>11. e.terminal => t + 1 = Len(told)
    BY <1>1, <1>8, <1>10 DEF Told
  <1>12. at = "loop" /\ step = TX /\ answer[TX] = "accepted" /\ ~Past
    <2>1. at = "loop"
      BY DEF LoopTakes, Writes, Raise, Goto
    <2> QED BY <1>1, <2>1 DEF Past, Places, Replies
  <1> DEFINE l == EventLine(e)
  <1>13. /\ at' \in {"loop", "finally"}
         /\ at' = "loop" => raised' = raised /\ ~e.terminal
         /\ at' = "finally" => \/ raised' = TRUE
                               \/ raised' = raised /\ e.terminal /\ e.error = "OK"
         /\ IF recording THEN Written(l) \/ WriteFails(l) ELSE UNCHANGED file
    <2>1. ASSUME Raise("loop") PROVE at' = "finally" /\ raised' = TRUE
      <3>1. step /= STOP /\ InTry
        BY <1>12, Ids DEF InTry
      <3> QED BY <1>1, <2>1, <3>1, RaiseMeans
    <2>2. CASE e.terminal /\ ~Completed(e)
      <3>1. /\ Raise("loop")
            /\ IF recording THEN Written(l) \/ WriteFails(l) ELSE UNCHANGED file
        BY <1>9, <2>2 DEF LoopTakes
      <3> QED BY <2>1, <3>1
    <2>3. CASE ~(e.terminal /\ ~Completed(e))
      <3>1. Writes("loop", l, IF e.terminal THEN "finally" ELSE "loop")
        BY <1>9, <2>3 DEF LoopTakes
      <3>2. CASE recording /\ WriteFails(l) /\ Raise("loop")
        BY <2>1, <3>2
      <3>3. CASE /\ Goto("loop", IF e.terminal THEN "finally" ELSE "loop")
                 /\ UNCHANGED raised
                 /\ IF recording THEN Written(l) ELSE UNCHANGED file
        BY <2>3, <3>3 DEF Goto, Completed
      <3> QED BY <3>1, <3>2, <3>3 DEF Writes
    <2> QED BY <2>2, <2>3
  <1>14. raised' \in BOOLEAN
    BY <1>1, <1>13 DEF Types
  <1>15. Replies'
    BY <1>1, <1>2, <1>12, <1>13 DEF Replies
  <1>16. Flow(t + 1, f)'
    <2>1. f[0] = (t + 1) + Len(events')
      BY <1>4, <1>6
    <2>2. ASSUME NEW i \in 1..Len(events') PROVE events'[i] = told[(t + 1) + i]
      <3>1. i + 1 \in 1..Len(events) /\ t + (i + 1) = (t + 1) + i
        BY <1>4, <1>6
      <3> QED BY <1>4, <1>6, <3>1
    <2>3. /\ t + 1 \in Nat /\ f \in [0..Len(wire') -> 0..Len(told')]
          /\ f[0] = (t + 1) + Len(events') /\ f[Len(wire')] = Len(told')
      BY <1>2, <1>6, <1>8, <2>1
    <2>4. \A n \in 1..Len(wire') :
            IF wire'[n].request = 0
            THEN f[n] = f[n - 1] + 1 /\ wire'[n].event = <<told'[f[n]]>>
            ELSE f[n] = f[n - 1]
      BY <1>2, <1>6
    <2>5. \A i \in 1..Len(events') : events'[i] = told'[(t + 1) + i]
      BY <1>2, <2>2
    <2> QED BY <2>3, <2>4, <2>5, Zenon DEF Flow
  <1>17. recording => Len(Text) = t + 3
    BY <1>5, <1>12 DEF Reading
  <1>18. ASSUME recording => Len(Text') = t + 4 PROVE Progress'
    <2>1. Reading(t + 1)'
      BY <1>2, <1>6, <1>12, <1>13, <1>18, Ids DEF Reading
    <2>2. Done(t + 1)'
      <3>1. ASSUME ~raised', Ended'
            PROVE  /\ t + 1 = Len(told) /\ t + 1 > 0 /\ told[t + 1].terminal
                   /\ told[t + 1].error = "OK" /\ at' = "finally"
        <4>1. at' = "finally"
          BY <1>2, <1>12, <1>13, <3>1, Ids DEF Ended
        <4>2. e.terminal /\ e.error = "OK"
          BY <1>13, <3>1, <4>1
        <4> QED BY <1>8, <1>10, <1>11, <4>1, <4>2
      <3>2. (t + 1) + 3 = t + 4
        BY <1>6
      <3> QED BY <1>2, <1>18, <3>1, <3>2 DEF Done, Past
    <2> QED BY <1>16, <2>1, <2>2 DEF Progress
  <1>19. CASE ~recording
    <2>1. lines' = lines /\ buffer' = buffer
      BY <1>13, <1>19 DEF file
    <2>2. Places'
      BY <1>1, <1>2, <1>12, <1>13, <2>1, Ids DEF Places, InTry
    <2>3. Asked'
      BY <1>1, <1>2, <1>19 DEF Asked
    <2>4. DeviceInv'
      BY <1>1, <1>2 DEF DeviceInv, DeviceTypes, Origins, TrueEvents, Claims, Right
    <2>5. Types'
      BY <1>1, <1>2, <1>4, <1>14, <2>1 DEF Types
    <2>6. Told'
      BY <1>1, <1>2 DEF Told
    <2>7. Text = <<>> /\ Text' = <<>>
      BY <1>1, <1>19, <2>1, EmptySeq, ConcatEmptySeq DEF Places, Text
    <2>8. Faithful'
      BY <2>7, EmptySeq DEF Faithful
    <2> QED BY <1>15, <1>18, <1>19, <2>2, <2>3, <2>4, <2>5, <2>6, <2>8 DEF SendInv
  <1>20. CASE recording
    <2>1. l \in Entry /\ l /= Line("accepted")
      BY Strings DEF Kinds
    <2> HIDE DEF l
    <2>2. Written(l) \/ WriteFails(l)
      BY <1>13, <1>20
    <2>3. Longer(l)
      BY <1>1, <2>1, <2>2, LineAdded
    <2>4. Len(Text') = t + 4
      BY <1>6, <1>17, <1>20, <2>3 DEF Longer
    <2>5. Len(Text) + 1 <= Len(Truth) /\ l = Truth[Len(Text) + 1]
      <3>1. /\ Len(Truth) = Len(told) + 3
            /\ \A i \in 1..Len(told) : Truth[i + 3] = EventLine(told[i])
        BY <1>3, Truths
      <3>2. Truth[(t + 1) + 3] = EventLine(told[t + 1])
        BY <1>8, <3>1
      <3>3. Len(Text) + 1 = (t + 1) + 3
        BY <1>6, <1>17, <1>20
      <3> QED BY <1>6, <1>7, <1>8, <1>10, <3>1, <3>2, <3>3 DEF l
    <2>6. Places'
      BY <1>1, <1>2, <1>12, <1>13, <1>20, Ids DEF Places, InTry
    <2>7. Progress'
      BY <1>18, <2>4
    <2>8. at' /= "send"
      BY <1>13
    <2> QED
      BY <1>2, <1>4, <1>12, <1>14, <1>15, <1>20, <2>1, <2>2, <2>5, <2>6, <2>7, <2>8, LineStep
  <1> QED BY <1>19, <1>20

(* The last line. *)
LEMMA DisconnectStep == ASSUME SendInv, Disconnect PROVE SendInv'
  <1>1. /\ DeviceInv /\ Types /\ Places /\ Replies /\ Asked /\ Progress
    BY DEF SendInv
  <1> DEFINE e == Line("disconnect")
  <1>2. UNCHANGED <<step, recording, response, events, outgoing, wire, executed, answer,
                    schedule, count, bus, told>>
    BY DEF Disconnect, device, link
  <1>3. at = "disconnect" /\ ~Past /\ step /= CONFIGURE /\ Ended
    BY <1>1 DEF Disconnect, Goto, Past, Places, Ended
  <1>4. /\ at' \in {"close", "leave"} /\ Past'
        /\ raised' = raised \/ raised' = TRUE
        /\ IF recording THEN Written(e) \/ WriteFails(e) ELSE UNCHANGED file
        /\ recording /\ at' = "leave" => raised' = TRUE
    BY DEF Disconnect, Goto, Past
  <1>5. raised' \in BOOLEAN
    BY <1>1, <1>4 DEF Types
  <1>6. Replies'
    BY <1>1, <1>2, <1>4 DEF Replies
  <1>7. CASE ~recording
    <2>1. UNCHANGED <<lines, buffer>>
      BY <1>4, <1>7 DEF file
    <2>2. Places'
      BY <1>1, <1>2, <1>3, <1>4, <1>7, <2>1 DEF Places
    <2>3. Asked'
      BY <1>1, <1>2, <1>7 DEF Asked
    <2>4. ASSUME NEW t, Reading(t), Done(t) PROVE Reading(t)' /\ Done(t)'
      <3>1. Reading(t)'
        BY <1>2, <1>3, <1>4, <1>7, <2>4, Ids DEF Reading
      <3>2. Done(t)'
        BY <1>2, <1>3, <1>4, <1>5, <1>7, <2>4 DEF Done
      <3> QED BY <3>1, <3>2
    <2> QED BY <1>2, <1>3, <1>5, <1>6, <2>1, <2>2, <2>3, <2>4, Control
  <1>8. CASE recording
    <2>1. PICK t, f : Flow(t, f) /\ Reading(t) /\ Done(t)
      BY <1>1 DEF Progress
    <2>2. e \in Entry /\ e /= Line("accepted")
      BY Strings DEF Kinds
    <2>3. Len(Text') = Len(Text) + 1
      BY <1>1, <1>4, <1>8, <2>2, LineAdded DEF Longer
    <2>4. Places'
      BY <1>1, <1>2, <1>3, <1>4, <1>8 DEF Places
    <2>5. Progress'
      <3>1. Flow(t, f)' /\ t \in Nat
        BY <1>2, <2>1 DEF Flow
      <3>2. Reading(t)'
        BY <1>2, <1>3, <1>4, <2>1, Ids DEF Reading
      <3>3. Done(t)'
        <4>1. CASE raised' = TRUE
          BY <4>1 DEF Done
        <4>2. CASE raised' /= TRUE
          <5>1. raised = FALSE /\ at' /= "leave" /\ at' /= "exit"
            BY <1>1, <1>4, <1>8, <4>2 DEF Types
          <5>2. /\ t = Len(told) /\ t > 0 /\ told[t].terminal /\ told[t].error = "OK"
                /\ Len(Text) = t + 3
            BY <1>3, <1>8, <2>1, <5>1 DEF Done
          <5>3. Len(Text') = t + 4
            BY <2>3, <3>1, <5>2
          <5> QED BY <1>2, <1>4, <5>1, <5>2, <5>3 DEF Done
        <4> QED BY <4>1, <4>2
      <3> QED BY <3>1, <3>2, <3>3 DEF Progress
    <2>6. events' \in Seq(Device!Event)
      BY <1>1, <1>2 DEF Types
    <2>7. (Written(e) \/ WriteFails(e)) /\ at' /= "send"
      BY <1>4, <1>8
    <2>8. PICK l \in Entry : l = e
      BY <2>2
    <2>9. /\ Written(l) \/ WriteFails(l)
          /\ Past' /\ l = Line("disconnect")
          /\ l = Line("accepted") => answer[TX] = "accepted"
      BY <1>4, <2>2, <2>7, <2>8
    <2> QED
      BY <1>2, <1>3, <1>5, <1>6, <1>8, <2>4, <2>5, <2>6, <2>7, <2>9, LineStep
  <1> QED BY <1>7, <1>8

-----------------------------------------------------------------------------
LEMMA Inductive == FairSpec => []SendInv
  <1>1. ASSUME SendInv, [Next]_vars PROVE SendInv'
    <2>1. CASE UNCHANGED vars
      <3>1. UNCHANGED <<recording, events, wire, lines, buffer, executed, answer,
                        schedule, count, bus, told, at, step, raised, outgoing,
                        response>>
        BY <2>1 DEF vars, device, cli, link, file
      <3>2. /\ Types /\ Places /\ Replies /\ Asked
        BY <1>1 DEF SendInv
      <3>3. /\ raised' \in BOOLEAN /\ (Past => Past') /\ Places' /\ Replies' /\ Asked'
        BY <3>1, <3>2 DEF Types, Past, Places, InTry, Replies, Asked, Noted
      <3>4. Text' = Text
        BY <3>1 DEF Text
      <3>5. ASSUME NEW t, Reading(t), Done(t) PROVE Reading(t)' /\ Done(t)'
        BY <3>1, <3>4, <3>5 DEF Reading, Done, Ended, Past
      <3> QED BY <1>1, <3>1, <3>3, <3>5, Control
    <2>2. CASE Program
      <3>1. CASE Connect
        BY <1>1, <3>1, ConnectStep
      <3>2. CASE Enter
        BY <1>1, <3>2, EnterStep
      <3>3. CASE Intent
        BY <1>1, <3>3, IntentStep
      <3>4. CASE SendRequest
        BY <1>1, <3>4, SendStep
      <3>5. CASE Answered
        BY <1>1, <3>5, AnsweredStep
      <3>6. CASE GivesUp
        BY <1>1, <3>6, GivesUpStep
      <3>7. CASE Create
        BY <1>1, <3>7, CreateStep
      <3>8. CASE Accepted
        BY <1>1, <3>8, AcceptedStep
      <3>9. CASE LoopRaises
        BY <1>1, <3>9, LoopRaisesStep
      <3>10. CASE LoopTakes
        BY <1>1, <3>10, TakesStep
      <3>11. CASE Finally
        BY <1>1, <3>11, FinallyStep
      <3>12. CASE Disconnect
        BY <1>1, <3>12, DisconnectStep
      <3>13. CASE CloseFile
        BY <1>1, <3>13, CloseFileStep
      <3>14. CASE Leave
        BY <1>1, <3>14, LeaveStep
      <3> QED
        BY <2>2, <3>1, <3>2, <3>3, <3>4, <3>5, <3>6, <3>7, <3>8, <3>9, <3>10, <3>11,
           <3>12, <3>13, <3>14 DEF Program
    <2>3. CASE Interrupt
      BY <1>1, <2>3, InterruptStep
    <2>4. CASE Finalize
      BY <1>1, <2>4, FinalizeStep
    <2>5. CASE Lost
      BY <1>1, <2>5, LostStep
    <2>6. CASE Reader
      BY <1>1, <2>6, ReaderStep
    <2>7. CASE DeviceExecutes
      BY <1>1, <2>7, ExecutesStep
    <2>8. CASE DeviceSends
      BY <1>1, <2>8, SendsStep
    <2>9. CASE DeviceGoesOn
      BY <1>1, <2>9, GoesOnStep
    <2> QED BY <1>1, <2>1, <2>2, <2>3, <2>4, <2>5, <2>6, <2>7, <2>8, <2>9 DEF Next
  <1> QED BY Initially, <1>1, PTL DEF FairSpec

(* Nothing goes to the bus before its intent is in the file, wherever the  *)
(* power goes, and whatever fails (client.py:110, cli.py:434).             *)
THEOREM IntentComesFirst == FairSpec => []IntentFirst
  <1>1. SendInv => IntentFirst
    <2> SUFFICES ASSUME SendInv, recording, bus[TX] > 0
                 PROVE  \E i \in DOMAIN lines : lines[i].type = "tx_request"
      BY DEF IntentFirst
    <2>1. DeviceInv /\ Types /\ Asked
      BY DEF SendInv
    <2>2. /\ executed[TX] \in {0, 1} /\ count[TX] \in Nat /\ bus[TX] \in Nat
          /\ bus[TX] <= count[TX] /\ (executed[TX] = 0 => count[TX] = 0)
      BY <2>1, Ids DEF DeviceInv, DeviceTypes, Origins
    <2>3. executed[TX] = 1
      BY <2>2
    <2>4. Noted
      BY <2>1, <2>3 DEF Asked
    <2>5. DOMAIN lines = 1..Len(lines)
      BY <2>1, LenProperties DEF Types
    <2> QED BY <2>4, <2>5 DEF Noted
  <1> QED BY Inductive, <1>1, PTL

(* What the disk may hold is, up to the end, a beginning of the truth.     *)
LEMMA Shown ==
    ASSUME SendInv, NEW n \in 0..Len(lines), NEW image, image.lines = SubSeq(lines, 1, n)
    PROVE  /\ Body(image) \in Seq(Entry) /\ Len(Body(image)) \in Nat
           /\ Len(Body(image)) <= Len(Truth)
           /\ \A i \in 1..Len(Body(image)) : Body(image)[i] = Truth[i]
           /\ Len(Body(image)) >= 3 =>
                Len(Text) >= 3 /\ Text[3] = Body(image)[3]
  <1>1. /\ DeviceInv /\ Types /\ Faithful
    BY DEF SendInv
  <1>2. PICK a \in Seq(Entry) : a = lines
    BY <1>1 DEF Types
  <1>3. PICK b \in Seq(Entry) : b = buffer
    BY <1>1 DEF Types
  <1>4. /\ Len(a) \in Nat /\ Len(a) <= Len(Text) /\ Len(Text) \in Nat
        /\ \A i \in 1..Len(a) : Text[i] = a[i]
    <2>1. Text = a \o b
      BY <1>2, <1>3 DEF Text
    <2>2. /\ Len(a) \in Nat /\ Len(b) \in Nat /\ Len(a \o b) = Len(a) + Len(b)
          /\ \A i \in 1..Len(a) : (a \o b)[i] = a[i]
      BY Both
    <2> QED BY <2>1, <2>2
  <1>5. PICK p \in Seq(Entry) :
          p = image.lines /\ Len(p) = n /\ \A i \in 1..n : p[i] = a[i]
    <2>1. n \in 0..Len(a)
      BY <1>2
    <2> QED BY <1>2, <2>1, Cut
  <1>6. /\ Truth \in Seq(Entry) /\ Len(Truth) \in Nat
    BY <1>1, Truths, LenProperties DEF DeviceInv, DeviceTypes
  <1>7. n \in 0..Len(a) /\ n \in Nat
    BY <1>2, <1>4
  <1>8. \A i \in 1..n : p[i] = Text[i] /\ i \in 1..Len(Text)
    BY <1>4, <1>5, <1>7
  <1>9. \A i \in 1..n : \/ i <= Len(Truth) /\ p[i] = Truth[i]
                        \/ i = n /\ p[i] = Line("disconnect")
    <2> SUFFICES ASSUME NEW i \in 1..n
                 PROVE  \/ i <= Len(Truth) /\ p[i] = Truth[i]
                        \/ i = n /\ p[i] = Line("disconnect")
      OBVIOUS
    <2>1. p[i] = Text[i] /\ i \in 1..Len(Text)
      BY <1>8
    <2>2. \/ i <= Len(Truth) /\ Text[i] = Truth[i]
          \/ i = Len(Text) /\ Text[i] = Line("disconnect")
      BY <1>1, <2>1 DEF Faithful
    <2> QED BY <1>4, <1>7, <2>1, <2>2
  <1>10. p /= <<>> <=> n >= 1
    <2>1. p = <<>> <=> Len(p) = 0
      BY EmptySeq
    <2>2. Len(p) = n /\ (n = 0 <=> ~(n >= 1))
      BY <1>5, <1>7
    <2> QED BY <2>1, <2>2, Zenon
  <1>11. CASE p /= <<>> /\ p[n].type = "disconnect"
    <2>1. Body(image) = SubSeq(p, 1, n - 1)
      BY <1>5, <1>11 DEF Body, Last, Front
    <2>2. n - 1 \in 0..Len(p) /\ n - 1 \in Nat
      BY <1>5, <1>7, <1>10, <1>11
    <2>3. PICK q \in Seq(Entry) :
            q = SubSeq(p, 1, n - 1) /\ Len(q) = n - 1
            /\ \A i \in 1..(n - 1) : q[i] = p[i]
      BY <2>2, Cut
    <2>4. \A i \in 1..(n - 1) : i <= Len(Truth) /\ q[i] = Truth[i] /\ q[i] = Text[i]
      <3> SUFFICES ASSUME NEW i \in 1..(n - 1)
                   PROVE  i <= Len(Truth) /\ q[i] = Truth[i] /\ q[i] = Text[i]
        OBVIOUS
      <3>1. i \in 1..n /\ i /= n
        BY <1>7
      <3>2. q[i] = p[i] /\ p[i] = Text[i]
        BY <1>8, <2>3, <3>1
      <3> QED BY <1>9, <3>1, <3>2
    <2>5. Len(q) <= Len(Truth)
      <3>1. CASE n - 1 = 0
        BY <1>6, <2>3, <3>1
      <3>2. CASE n - 1 /= 0
        <4>1. n - 1 \in 1..(n - 1)
          BY <2>2, <3>2
        <4> QED BY <2>3, <2>4, <4>1
      <3> QED BY <3>1, <3>2
    <2>6. Len(q) >= 3 => Len(Text) >= 3 /\ Text[3] = q[3]
      <3> SUFFICES ASSUME Len(q) >= 3 PROVE Len(Text) >= 3 /\ Text[3] = q[3]
        OBVIOUS
      <3>1. 3 \in 1..(n - 1) /\ 3 \in 1..n
        BY <2>2, <2>3
      <3>2. 3 \in 1..Len(Text)
        BY <1>8, <3>1
      <3>3. q[3] = Text[3]
        BY <2>4, <3>1
      <3> QED BY <1>4, <3>2, <3>3
    <2> QED BY <2>1, <2>2, <2>3, <2>4, <2>5, <2>6
  <1>12. CASE ~(p /= <<>> /\ p[n].type = "disconnect")
    <2>1. Body(image) = p
      BY <1>5, <1>12 DEF Body, Last
    <2>2. \A i \in 1..n : i <= Len(Truth) /\ p[i] = Truth[i]
      <3> SUFFICES ASSUME NEW i \in 1..n PROVE i <= Len(Truth) /\ p[i] = Truth[i]
        OBVIOUS
      <3>1. p /= <<>>
        BY <1>7, <1>10
      <3>2. Line("disconnect").type = "disconnect"
        BY DEF Line
      <3>3. ~(i = n /\ p[i] = Line("disconnect"))
        BY <1>12, <3>1, <3>2
      <3> QED BY <1>9, <3>3
    <2>3. n <= Len(Truth)
      <3>1. CASE n = 0
        BY <1>6, <3>1
      <3>2. CASE n /= 0
        <4>1. n \in 1..n
          BY <1>7, <3>2
        <4> QED BY <2>2, <4>1
      <3> QED BY <3>1, <3>2
    <2>4. n >= 3 => Len(Text) >= 3 /\ Text[3] = p[3]
      <3> SUFFICES ASSUME n >= 3 PROVE Len(Text) >= 3 /\ Text[3] = p[3]
        OBVIOUS
      <3>1. 3 \in 1..n
        BY <1>7
      <3> QED BY <1>4, <1>8, <3>1
    <2> QED BY <1>5, <1>7, <2>1, <2>2, <2>3, <2>4
  <1> QED BY <1>11, <1>12

LEMMA Begins ==
    ASSUME NEW s \in Seq(Entry), NEW u \in Seq(Entry), Len(s) <= Len(u),
           \A i \in 1..Len(s) : s[i] = u[i]
    PROVE  IsPrefix(s, u)
  <1>1. Len(s) \in 0..Len(u) /\ Len(s) \in 0..Len(s)
    BY LenProperties
  <1>2. PICK x \in Seq(Entry) : x = SubSeq(s, 1, Len(s)) /\ Len(x) = Len(s)
                                /\ \A i \in 1..Len(s) : x[i] = s[i]
    BY <1>1, Cut
  <1>3. PICK y \in Seq(Entry) : y = SubSeq(u, 1, Len(s)) /\ Len(y) = Len(s)
                                /\ \A i \in 1..Len(s) : y[i] = u[i]
    BY <1>1, Cut
  <1>4. Len(x) = Len(y) /\ \A i \in 1..Len(x) : x[i] = y[i]
    BY <1>2, <1>3
  <1>5. x = y
    BY <1>4, SeqEqual
  <1> QED BY <1>2, <1>3, <1>5 DEF IsPrefix

(* Wherever the run is cut off, by an error, the user or a power failure,  *)
(* the file holds a beginning of what the device said, and a final outcome *)
(* in it is what happened on the bus (cli.py:450, recording.py:17).        *)
THEOREM RecordsAreTrue == FairSpec => []RecordIsTrue
  <1>1. SendInv => RecordIsTrue
    <2> SUFFICES ASSUME SendInv, NEW image \in Disk
                 PROVE  /\ IsPrefix(Body(image), Truth)
                        /\ Len(Body(image)) >= 3 => answer[TX] = "accepted"
                        /\ Body(image) /= <<>> /\ Last(Body(image)).type = "tx_event" =>
                             LET e == Last(Body(image)).event[1]
                             IN  e.terminal /\ e.error /= "EINPROGRESS"
                                   => bus[TX] = e.completed
      BY DEF RecordIsTrue
    <2>1. /\ DeviceInv /\ Told /\ Faithful
      BY DEF SendInv
    <2>2. PICK n \in 0..Len(lines) : image.lines = SubSeq(lines, 1, n)
      BY DEF Disk, Image
    <2>3. PICK s : s = Body(image)
      OBVIOUS
    <2>4. /\ s \in Seq(Entry) /\ Len(s) \in Nat /\ Len(s) <= Len(Truth)
          /\ \A i \in 1..Len(s) : s[i] = Truth[i]
          /\ Len(s) >= 3 => Len(Text) >= 3 /\ Text[3] = s[3]
      BY <2>2, <2>3, Shown
    <2>5. /\ Truth \in Seq(Entry) /\ Len(told) \in Nat /\ Len(Truth) = Len(told) + 3
          /\ Truth[1] = Line("metadata") /\ Truth[2] = Line("tx_request")
          /\ Truth[3] = Line("accepted")
          /\ \A i \in 1..Len(told) : Truth[i + 3] = EventLine(told[i])
          /\ told \in Seq(Device!Event)
      BY <2>1, Truths DEF DeviceInv, DeviceTypes
    <2>6. IsPrefix(s, Truth)
      <3>1. PICK u \in Seq(Entry) : u = Truth
        BY <2>5
      <3>2. IsPrefix(s, u)
        BY <2>4, <3>1, Begins
      <3> QED BY <3>1, <3>2
    <2>7. Len(s) >= 3 => answer[TX] = "accepted"
      <3> SUFFICES ASSUME Len(s) >= 3 PROVE answer[TX] = "accepted"
        OBVIOUS
      <3>1. 3 \in 1..Len(s)
        BY <2>4
      <3>2. Text[3] = Line("accepted") /\ Len(Text) >= 3
        BY <2>4, <2>5, <3>1
      <3> QED BY <2>1, <3>2 DEF Faithful
    <2>8. ASSUME s /= <<>>, Last(s).type = "tx_event",
                 Last(s).event[1].terminal, Last(s).event[1].error /= "EINPROGRESS"
          PROVE  bus[TX] = Last(s).event[1].completed
      <3>1. Len(s) \in 1..Len(s)
        BY <2>4, <2>8, EmptySeq
      <3>2. Last(s) = Truth[Len(s)]
        BY <2>4, <3>1 DEF Last
      <3>3. Len(s) \notin 1..3
        <4>1. /\ Line("metadata").type /= "tx_event" /\ Line("accepted").type /= "tx_event"
              /\ Line("tx_request").type /= "tx_event"
          BY DEF Line
        <4>2. ASSUME Len(s) \in 1..3 PROVE FALSE
          <5>1. Len(s) = 1 \/ Len(s) = 2 \/ Len(s) = 3
            BY <4>2
          <5> QED BY <2>5, <2>8, <3>2, <4>1, <5>1
        <4> QED BY <4>2
      <3>4. Len(s) - 3 \in 1..Len(told)
        <4>1. PICK m \in Nat : m = Len(s)
          BY <2>4
        <4>2. PICK k \in Nat : k = Len(told)
          BY <2>5
        <4>3. m \in 1..m /\ m \notin 1..3 /\ m <= k + 3
          BY <2>4, <2>5, <3>1, <3>3, <4>1, <4>2
        <4>4. m - 3 \in 1..k
          BY <4>3
        <4> QED BY <4>1, <4>2, <4>4
      <3>5. PICK k \in 1..Len(told) : k = Len(s) - 3
        BY <3>4
      <3>6. Len(s) = k + 3
        BY <2>4, <3>5
      <3>7. Last(s) = EventLine(told[k])
        BY <2>5, <3>2, <3>6
      <3>8. Last(s).event[1] = told[k]
        BY <3>7 DEF EventLine
      <3>9. told[k].request = TX /\ k \in DOMAIN told
        BY <2>1, <2>5 DEF Told
      <3>10. Claims(told[k])
        BY <2>8, <3>8 DEF Claims
      <3>11. Right(told[k])
        BY <2>1, <3>9, <3>10 DEF DeviceInv, TrueEvents
      <3> QED BY <3>8, <3>9, <3>11 DEF Right
    <2> QED BY <2>3, <2>6, <2>7, <2>8
  <1> QED BY Inductive, <1>1, PTL

(* A run that reports success has sent exactly what was asked for, and its *)
(* file is the whole of what happened, and reads back as such, however the *)
(* link and the device behaved meanwhile (cli.py:452).                     *)
THEOREM SuccessMeansSent == FairSpec => []SuccessIsTrue
  <1>1. SendInv => SuccessIsTrue
    <2> SUFFICES ASSUME SendInv, at = "exit", ~raised
                 PROVE  /\ count[TX] = Count /\ bus[TX] = Count
                        /\ recording => \A image \in Left :
                                          LooksWhole(image) /\ Body(image) = Truth
      BY DEF SuccessIsTrue
    <2>1. /\ DeviceInv /\ Types /\ Asked /\ Told /\ Faithful /\ Progress
      BY DEF SendInv
    <2>2. PICK t, f : Flow(t, f) /\ Reading(t) /\ Done(t)
      BY <2>1 DEF Progress
    <2>3. /\ t = Len(told) /\ t > 0 /\ told[t].terminal /\ told[t].error = "OK"
          /\ recording => Len(Text) = t + 4 /\ buffer = <<>>
          /\ t \in Nat
      BY <2>2 DEF Done, Ended, Past, Flow
    <2>4. t \in 1..Len(told) /\ t \in DOMAIN told
      <3>1. DOMAIN told = 1..Len(told)
        BY <2>1, LenProperties DEF DeviceInv, DeviceTypes
      <3> QED BY <2>3, <3>1
    <2>5. told[t].request = TX /\ count[TX] = Count
      BY <2>1, <2>4 DEF Told, Asked
    <2>6. bus[TX] = Count
      <3>1. Right(told[t])
        BY <2>1, <2>3, <2>4 DEF DeviceInv, TrueEvents, Claims
      <3> QED BY <2>3, <2>5, <3>1 DEF Right
    <2>7. ASSUME recording, NEW image \in Left
          PROVE  LooksWhole(image) /\ Body(image) = Truth
      <3>1. /\ lines \in Seq(Entry) /\ Len(lines) \in Nat /\ Text = lines
            /\ Len(lines) = t + 4
        <4>1. lines \in Seq(Entry) /\ Len(lines) \in Nat
          BY <2>1, LenProperties DEF Types
        <4>2. Text = lines
          BY <2>3, <2>7, <4>1, ConcatEmptySeq DEF Text
        <4> QED BY <2>3, <2>7, <4>1, <4>2
      <3>2. image.lines = SubSeq(lines, 1, Len(lines)) /\ image.torn = FALSE
        <4>1. PICK torn \in {FALSE, buffer /= <<>>} :
                image = [lines |-> SubSeq(lines, 1, Len(lines)), torn |-> torn]
          BY <2>7 DEF Left, Image
        <4>2. torn = FALSE
          BY <2>3, <2>7, <4>1
        <4> QED BY <4>1, <4>2
      <3>3. image.lines = lines
        BY <3>1, <3>2, SubSeqFull
      <3>4. /\ Truth \in Seq(Entry) /\ Len(Truth) = t + 3
        BY <2>1, <2>3, Truths DEF DeviceInv, DeviceTypes
      <3>5. lines[Len(lines)] = Line("disconnect") /\ lines /= <<>>
        <4>1. t + 4 \in 1..Len(Text) /\ ~(t + 4 <= Len(Truth))
          BY <2>3, <3>1, <3>4
        <4>2. Text[t + 4] = Line("disconnect")
          BY <2>1, <4>1 DEF Faithful
        <4> QED BY <2>3, <3>1, <4>2, EmptySeq
      <3>6. Last(image.lines).type = "disconnect" /\ image.lines /= <<>>
        BY <3>3, <3>5 DEF Last, Line
      <3>7. LooksWhole(image)
        BY <3>2, <3>6 DEF LooksWhole, read_recording, Rejects
      <3>8. Body(image) = Truth
        <4>1. Body(image) = SubSeq(lines, 1, t + 3)
          <5>1. Len(lines) - 1 = t + 3
            BY <2>3, <3>1
          <5> QED BY <3>3, <3>6, <5>1 DEF Body, Front
        <4>2. Len(lines) \in 0..Len(lines)
          BY <3>1
        <4>3. PICK a \in Seq(Entry) : a = lines
          BY <3>1
        <4>4. PICK m \in 0..Len(a) : m = t + 3
          BY <2>3, <3>1, <4>3
        <4>5. PICK q \in Seq(Entry) : q = SubSeq(a, 1, m) /\ Len(q) = m
          BY Cut
        <4>6. q = Body(image)
          BY <4>1, <4>3, <4>4, <4>5
        <4>7. \A i \in 1..Len(q) : q[i] = Truth[i]
          BY <3>2, <4>2, <4>6, Shown
        <4>8. PICK u \in Seq(Entry) : u = Truth
          BY <3>4
        <4>9. q = u
          BY <3>4, <4>4, <4>5, <4>7, <4>8, SeqEqual
        <4> QED BY <4>6, <4>8, <4>9
      <3> QED BY <3>7, <3>8
    <2> QED BY <2>5, <2>6, <2>7
  <1> QED BY Inductive, <1>1, PTL

===============================================================================
