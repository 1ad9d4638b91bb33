---------------------------- MODULE ClientProofs ----------------------------
(* The client's threads, for every number of ids and every capacity: the   *)
(* socket is never used by two threads or after it is closed, ids reach    *)
(* the device in order, and nothing follows a request that is in doubt.    *)
EXTENDS Client, SequenceTheorems, TLAPS

ReaderLabels == {"top", "lock", "recv", "handle", "finally", "shut", "join", "end"}
RequesterLabels == Labels \ {"top", "lock", "recv", "handle", "finally"}

(* The reader closes for good; a requester comes back, to where it was.    *)
Places ==
    /\ pc["reader"] \in ReaderLabels /\ ret["reader"] = "end"
    /\ \A t \in Requesters : pc[t] \in RequesterLabels
    /\ pc["reader"] = "handle" => incoming /= <<>>

(* Who holds a lock is known by where it is. *)
Inside(t) ==
    \/ pc[t] \in {"locked", "sending", "wait", "empty", "answered", "leave"}
    \/ pc[t] \in {"shut", "join"} /\ ret[t] = "leave"
Using(t) == pc[t] \in {"sending", "recv"}
Held ==
    /\ \A t \in Requesters : Inside(t) <=> request_lock = t
    /\ \A t \in Threads : Using(t) <=> io_lock = t

(* The socket is closed by one that has set the flag, and between uses.    *)
Socket ==
    /\ sock = "closed" => closed
    /\ \A t \in Threads : /\ pc[t] = "shut" => closed
                          /\ Using(t) => sock = "open"

(* The id of the one that holds the lock is the newest. *)
Newest ==
    /\ \A i \in DOMAIN sent : sent[i] < next_id
    /\ \A t \in Requesters :
         /\ Inside(t) => next_id > 1 /\ rid[t] = next_id - 1
         /\ pc[t] \in {"locked", "sending"} => \A i \in DOMAIN sent : sent[i] < rid[t]

(* A doubt closes the client, and nobody is left who could still send.     *)
Doubt ==
    \A i \in Ids : outcome[i] = "indeterminate" =>
      closed /\ \A t \in Requesters : pc[t] /= "sending"

Discipline ==
    Places /\ Held /\ Socket /\ Newest /\ Doubt /\ IdsInOrder /\ LastInDoubt
ClientInv == TypeOK /\ Discipline

(* The calls of the socket and of the locks are all the same to a proof.   *)
USE DEF Goto, BeginClose, CloseFlags, Concludes, threads, locks, flags,
        requests, device, Requesters, Threads
-----------------------------------------------------------------------------
LEMMA Initially == Init => ClientInv
  <1> SUFFICES ASSUME Init PROVE ClientInv
    OBVIOUS
  <1> USE ClientAssumption DEF Init, Free
  <1>1. TypeOK
    <2>1. <<>> \in Seq(Ids) /\ <<>> \in Seq(Incoming) /\ Len(<<>>) = 0
      OBVIOUS
    <2>2. /\ sent \in Seq(Ids) /\ incoming \in Seq(Incoming)
          /\ Len(incoming) <= Buffered /\ served \in 0..Len(sent)
      BY <2>1
    <2>3. /\ events \in 0..EventCapacity /\ next_id \in 1..(MaxId + 1)
          /\ pending \in SUBSET Ids
      OBVIOUS
    <2>4. /\ pc \in [Threads -> Labels] /\ ret \in [Threads -> {"leave", "end"}]
          /\ kind \in [Requesters -> Kinds]
          /\ rid \in [Requesters -> Ids \cup {0}]
      BY DEF Labels, Kinds
    <2>5. /\ waiter \in [Ids -> {"none", "ok", "rejected"}]
          /\ outcome \in [Ids -> Outcomes]
      BY DEF Outcomes
    <2> QED BY <2>2, <2>3, <2>4, <2>5 DEF TypeOK
  <1>2. Places /\ Held /\ Socket
    BY DEF Places, ReaderLabels, RequesterLabels, Labels, Held, Inside, Using, Socket
  <1>3. Newest /\ Doubt /\ IdsInOrder /\ LastInDoubt
    BY DEF Newest, Inside, Doubt, IdsInOrder, LastInDoubt
  <1> QED BY <1>1, <1>2, <1>3 DEF ClientInv, Discipline

(* Two sequences grow at the end and shrink at the front. *)
LEMMA Sequences ==
    ASSUME NEW S, NEW s \in Seq(S)
    PROVE  /\ Len(s) \in Nat /\ DOMAIN s = 1..Len(s) /\ \A i \in DOMAIN s : s[i] \in S
           /\ \A e \in S : LET t == Append(s, e)
                         IN  /\ t \in Seq(S) /\ Len(t) = Len(s) + 1 /\ t /= <<>>
                             /\ DOMAIN t = 1..(Len(s) + 1) /\ t[Len(s) + 1] = e
                             /\ \A i \in DOMAIN s : t[i] = s[i]
           /\ s /= <<>> => /\ Head(s) \in S /\ Tail(s) \in Seq(S)
                           /\ Len(Tail(s)) = Len(s) - 1
  BY AppendProperties, HeadTailProperties, LenProperties, ElementOfSeq

(* An id goes out, or does not: it is newer than those before it, and none *)
(* of those is in doubt.                                                   *)
LEMMA Sending ==
    ASSUME ClientInv, NEW t \in Requesters, pc[t] = "sending",
           sent' \in {sent, Outgoing(t)}
    PROVE  /\ rid[t] \in Ids /\ rid[t] = next_id - 1 /\ rid[t] < next_id
           /\ sent' \in Seq(Ids) /\ Len(sent) \in Nat /\ Len(sent') \in Nat
           /\ Len(sent') = Len(sent) \/ Len(sent') = Len(sent) + 1
           /\ \A i \in Ids : outcome[i] /= "indeterminate"
           /\ IdsInOrder'
           /\ \A i \in DOMAIN sent' : /\ sent'[i] \in Ids /\ sent'[i] <= rid[t]
                                      /\ sent'[i] = rid[t] => i = Len(sent')
  <1>1. /\ rid[t] \in Ids /\ rid[t] = next_id - 1 /\ rid[t] < next_id
        /\ next_id \in Nat /\ sent \in Seq(Ids)
        /\ \A i \in DOMAIN sent : sent[i] < rid[t] /\ sent[i] \in Ids
    <2>1. /\ sent \in Seq(Ids) /\ next_id \in 1..(MaxId + 1) /\ next_id > 1
          /\ rid[t] = next_id - 1 /\ \A i \in DOMAIN sent : sent[i] < rid[t]
      BY DEF ClientInv, Discipline, TypeOK, Newest, Inside
    <2>2. \A i \in DOMAIN sent : sent[i] \in Ids
      BY <2>1, Sequences
    <2> QED BY <2>1, <2>2, ClientAssumption DEF Ids
  <1>2. /\ \A i \in Ids : outcome[i] /= "indeterminate"
        /\ \A i, j \in DOMAIN sent : i < j => sent[i] < sent[j]
    BY DEF ClientInv, Discipline, Doubt, IdsInOrder
  <1>3. CASE sent' = sent
    <2>1. Len(sent) \in Nat
      BY <1>1, Sequences
    <2>2. \A i \in DOMAIN sent : sent[i] <= rid[t] /\ sent[i] /= rid[t]
      BY <1>1 DEF Ids
    <2> QED BY <1>1, <1>2, <1>3, <2>1, <2>2 DEF IdsInOrder
  <1>4. CASE sent' = Append(sent, rid[t])
    <2>1. /\ Len(sent) \in Nat /\ DOMAIN sent = 1..Len(sent)
          /\ sent' \in Seq(Ids) /\ Len(sent') = Len(sent) + 1
          /\ DOMAIN sent' = 1..(Len(sent) + 1) /\ sent'[Len(sent) + 1] = rid[t]
          /\ \A i \in DOMAIN sent : sent'[i] = sent[i]
      BY <1>1, <1>4, Sequences
    <2>2. \A i \in DOMAIN sent' : i \in DOMAIN sent \/ i = Len(sent')
      BY <2>1
    <2>3. \A i \in DOMAIN sent' : /\ sent'[i] \in Ids /\ sent'[i] <= rid[t]
                                  /\ sent'[i] = rid[t] => i = Len(sent')
      BY <1>1, <2>1, <2>2 DEF Ids
    <2>4. IdsInOrder'
      <3> SUFFICES ASSUME NEW i \in DOMAIN sent', NEW j \in DOMAIN sent', i < j
                   PROVE  sent'[i] < sent'[j]
        BY DEF IdsInOrder
      <3>1. i \in DOMAIN sent
        BY <2>1
      <3> QED BY <1>1, <1>2, <2>1, <2>2, <3>1
    <2> QED BY <1>1, <1>2, <2>1, <2>3, <2>4
  <1> QED BY <1>3, <1>4 DEF Outgoing

(* A packet for the client is sent, ... *)
LEMMA Arriving ==
    ASSUME ClientInv, Serve \/ DeviceEvent
    PROVE  /\ \E p \in Incoming : incoming' = Append(incoming, p)
           /\ incoming' \in Seq(Incoming) /\ Len(incoming') <= Buffered
           /\ sent' = sent /\ served' \in 0..Len(sent)
  <1>1. /\ incoming \in Seq(Incoming) /\ Len(incoming) < Buffered
        /\ sent \in Seq(Ids) /\ served \in 0..Len(sent) /\ sent' = sent
    BY DEF Serve, DeviceEvent, ClientInv, TypeOK
  <1>2. Len(sent) \in Nat /\ DOMAIN sent = 1..Len(sent)
    BY <1>1, Sequences
  <1>3. served' \in 0..Len(sent)
    BY <1>1, <1>2 DEF Serve, DeviceEvent
  <1>4. \E p \in Incoming : incoming' = Append(incoming, p)
    <2>1. CASE Serve
      <3>1. served + 1 \in DOMAIN sent
        BY <1>1, <1>2, <2>1 DEF Serve
      <3>2. sent[served + 1] \in Ids
        BY <1>1, <3>1, Sequences
      <3> QED BY <2>1, <3>2 DEF Serve, Incoming
    <2> QED BY <2>1 DEF DeviceEvent, Incoming
  <1>5. PICK p \in Incoming : incoming' = Append(incoming, p)
    BY <1>4
  <1>6. /\ Len(incoming) \in Nat /\ incoming' \in Seq(Incoming)
        /\ Len(incoming') = Len(incoming) + 1
    BY <1>1, <1>5, Sequences
  <1> QED BY <1>1, <1>3, <1>4, <1>6, ClientAssumption

(* ... and handled. *)
LEMMA Handled ==
    ASSUME ClientInv, HandleResponse \/ HandleEvent
    PROVE  incoming' \in Seq(Incoming) /\ Len(incoming') <= Buffered
  <1>1. /\ incoming \in Seq(Incoming) /\ Len(incoming) <= Buffered
        /\ incoming /= <<>> /\ incoming' = Tail(incoming)
    BY DEF HandleResponse, HandleEvent, ClientInv, Discipline, Places, TypeOK
  <1>2. /\ Len(incoming) \in Nat /\ Tail(incoming) \in Seq(Incoming)
        /\ Len(Tail(incoming)) = Len(incoming) - 1
    BY <1>1, Sequences
  <1> QED BY <1>1, <1>2, ClientAssumption

LEMMA TypesStep ==
    ASSUME ClientInv, Next
    PROVE  TypeOK'
  <1> USE ClientAssumption DEF ClientInv, Discipline, TypeOK, Places, Labels, Free,
                               Outcomes, Kinds, Ids
  <1>1. ASSUME NEW t \in Requesters, Enter(t) PROVE TypeOK'
    BY <1>1 DEF Enter, EnterAlone
  <1>2. ASSUME NEW t \in Requesters, Refuse(t) PROVE TypeOK'
    BY <1>2 DEF Refuse, EnterAlone
  <1>3. ASSUME NEW t \in Requesters, Lock(t) PROVE TypeOK'
    BY <1>3 DEF Lock, MaySend
  <1>4. ASSUME NEW t \in Requesters, SendRefused(t) PROVE TypeOK'
    BY <1>4 DEF SendRefused
  <1>5. ASSUME NEW t \in Requesters, Answered(t) PROVE TypeOK'
    BY <1>5 DEF Answered
  <1>6. ASSUME NEW t \in Requesters, Empty(t) PROVE TypeOK'
    BY <1>6 DEF Empty
  <1>7. ASSUME NEW t \in Requesters, WaitOn(t) PROVE TypeOK'
    BY <1>7 DEF WaitOn
  <1>8. ASSUME NEW t \in Requesters, GiveUp(t) PROVE TypeOK'
    BY <1>8 DEF GiveUp, Abandon
  <1>9. ASSUME NEW t \in Requesters, Except(t) PROVE TypeOK'
    BY <1>9 DEF Except
  <1>10. ASSUME NEW t \in Threads, CloseSocket(t) PROVE TypeOK'
    BY <1>10 DEF CloseSocket, Release
  <1>11. ASSUME NEW t \in Threads, Join(t) PROVE TypeOK'
    BY <1>11 DEF Join
  <1>12. ASSUME NEW k \in {"CONFIGURE", "TX", "STOP"}, Call(k) PROVE TypeOK'
    BY <1>12 DEF Call
  <1>13. ASSUME GoOn PROVE TypeOK'
    BY <1>13 DEF GoOn
  <1>14. ASSUME Activate PROVE TypeOK'
    BY <1>14 DEF Activate
  <1>15. ASSUME CloseClient PROVE TypeOK'
    BY <1>15 DEF CloseClient
  <1>16. ASSUME StartHeartbeat PROVE TypeOK'
    BY <1>16 DEF StartHeartbeat
  <1>17. ASSUME Beat PROVE TypeOK'
    BY <1>17 DEF Beat
  <1>18. ASSUME TakeEvent PROVE TypeOK'
    BY <1>18 DEF TakeEvent
  <1>19. ASSUME ReaderTop PROVE TypeOK'
    BY <1>19 DEF ReaderTop
  <1>20. ASSUME ReaderLock PROVE TypeOK'
    BY <1>20 DEF ReaderLock
  <1>21. ASSUME ReaderReceives PROVE TypeOK'
    BY <1>21 DEF ReaderReceives
  <1>22. ASSUME ReaderTimeout PROVE TypeOK'
    BY <1>22 DEF ReaderTimeout
  <1>23. ASSUME ReaderEnd PROVE TypeOK'
    BY <1>23 DEF ReaderEnd, ReaderFails
  <1>24. ASSUME ReaderFinally PROVE TypeOK'
    BY <1>24 DEF ReaderFinally
  <1>25. ASSUME LinkDown PROVE TypeOK'
    BY <1>25 DEF LinkDown
  <1>26. ASSUME NEW t \in Requesters, Send(t) PROVE TypeOK'
    <2>1. sent' \in Seq(Ids) /\ served' \in 0..Len(sent')
      BY <1>26, Sending DEF Send
    <2> QED BY <1>26, <2>1 DEF Send
  <1>27. ASSUME NEW t \in Requesters, SendFails(t) PROVE TypeOK'
    <2>1. sent' \in Seq(Ids) /\ served' \in 0..Len(sent')
      BY <1>27, Sending DEF SendFails
    <2> QED BY <1>27, <2>1 DEF SendFails
  <1>28. ASSUME NEW t \in Requesters, Leave(t) PROVE TypeOK'
    <2>1. /\ waiter' \in [Ids -> {"none", "ok", "rejected"}] /\ pending' \in SUBSET Ids
          /\ request_lock' = "free"
      BY <1>28 DEF Leave
    <2>2. pc' \in [Threads -> Labels]
      BY <1>28 DEF Leave
    <2> QED BY <1>28, <2>1, <2>2 DEF Leave
  <1>29. ASSUME HandleResponse PROVE TypeOK'
    <2>1. waiter' \in [Ids -> {"none", "ok", "rejected"}]
      BY <1>29 DEF HandleResponse
    <2> QED BY <1>29, <2>1, Handled DEF HandleResponse
  <1>30. ASSUME HandleEvent PROVE TypeOK'
    <2>1. pc' \in [Threads -> Labels]
      BY <1>30 DEF HandleEvent
    <2>2. events' \in 0..EventCapacity
      BY <1>30 DEF HandleEvent, EventRoom
    <2>3. failure' \in BOOLEAN
      BY <1>30 DEF HandleEvent, ReaderFails
    <2>4. incoming' \in Seq(Incoming) /\ Len(incoming') <= Buffered
      BY <1>30, Handled
    <2> QED BY <1>30, <2>1, <2>4, <2>2, <2>3 DEF HandleEvent
  <1>31. ASSUME Serve \/ DeviceEvent PROVE TypeOK'
    <2>1. /\ incoming' \in Seq(Incoming) /\ Len(incoming') <= Buffered
          /\ served' \in 0..Len(sent)
      BY <1>31, Arriving
    <2>2. UNCHANGED <<threads, locks, flags, sock, requests, events, sent, link>>
      BY <1>31 DEF Serve, DeviceEvent
    <2> QED BY <2>1, <2>2
  <1> HIDE DEF ClientInv, Discipline, TypeOK
  <1>32. ASSUME NEW t \in Requesters, Requesting(t) PROVE TypeOK'
    BY <1>32, <1>1, <1>2, <1>3, <1>4, <1>5, <1>6, <1>7, <1>8, <1>9, <1>10, <1>11,
       <1>26, <1>28, <1>27 DEF Requesting
  <1>33. ASSUME Reading PROVE TypeOK'
    BY <1>33, <1>10, <1>11, <1>19, <1>20, <1>21, <1>22, <1>23, <1>24, <1>29, <1>30
       DEF Reading
  <1> QED
    BY <1>12, <1>13, <1>14, <1>15, <1>16, <1>17, <1>18, <1>25, <1>31, <1>32,
       <1>33 DEF Next
-----------------------------------------------------------------------------
(* A request gets the lock and the next id. *)
LEMMA EnterStep ==
    ASSUME ClientInv, NEW t \in Requesters, Enter(t)
    PROVE  Discipline'
  <1> USE ClientAssumption DEF ClientInv, Discipline, Enter, EnterAlone
  <1>1. Places'
    BY DEF TypeOK, Places, ReaderLabels, RequesterLabels, Labels
  <1>2. Held' /\ Socket'
    BY DEF TypeOK, Places, ReaderLabels, RequesterLabels, Labels, Held, Socket,
           Inside, Using, Free
  <1>3. Newest'
    BY DEF TypeOK, Places, Labels, Held, Newest, Inside, Free, Ids
  <1>4. Doubt'
    BY DEF TypeOK, Places, ReaderLabels, RequesterLabels, Labels, Doubt, Ids
  <1>5. IdsInOrder' /\ LastInDoubt'
    BY DEF TypeOK, IdsInOrder, LastInDoubt, Newest, Inside, Doubt, Ids
  <1> QED BY <1>1, <1>2, <1>3, <1>4, <1>5

(* The socket is taken, while the client is open. *)
LEMMA LockStep ==
    ASSUME ClientInv, NEW t \in Requesters, Lock(t)
    PROVE  Discipline'
  <1> USE ClientAssumption DEF ClientInv, Discipline, Lock, MaySend
  <1>1. Places'
    BY DEF TypeOK, Places, ReaderLabels, RequesterLabels, Labels
  <1>2. Held' /\ Socket'
    BY DEF TypeOK, Places, ReaderLabels, RequesterLabels, Labels, Held, Socket,
           Inside, Using, Free
  <1>3. Newest'
    BY DEF TypeOK, Places, ReaderLabels, RequesterLabels, Labels, Newest, Inside, Ids
  <1>4. Doubt'
    BY DEF TypeOK, Places, ReaderLabels, RequesterLabels, Labels, Doubt, Ids
  <1>5. IdsInOrder' /\ LastInDoubt'
    BY DEF TypeOK, IdsInOrder, LastInDoubt, Newest, Inside, Doubt, Ids
  <1> QED BY <1>1, <1>2, <1>3, <1>4, <1>5

(* The packet is handed to it, and maybe the send of it fails. *)
LEMMA SendStep ==
    ASSUME ClientInv, NEW t \in Requesters, Send(t) \/ SendFails(t)
    PROVE  Discipline'
  <1>1. Places' /\ Held' /\ Socket'
    BY DEF Send, SendFails, ClientInv, Discipline, TypeOK, Places, ReaderLabels,
           RequesterLabels, Labels, Held, Socket, Inside, Using, Free
  <1>2. /\ pc[t] = "sending" /\ sent' \in {sent, Outgoing(t)} /\ rid' = rid
        /\ next_id' = next_id
        /\ \A u \in Requesters : Inside(u) => u = t
        /\ \A u \in Requesters : pc'[u] \notin {"locked", "sending"}
        /\ \A u \in Requesters : Inside(u)' => Inside(u)
        /\ outcome \in [Ids -> Outcomes]
        /\ \/ outcome' = outcome
           \/ closed' /\ outcome' = [outcome EXCEPT ![rid[t]] = "indeterminate"]
    BY DEF Send, SendFails, Outgoing, ClientInv, Discipline, TypeOK, Held, Inside
  <1>3. /\ rid[t] \in Ids /\ rid[t] = next_id - 1 /\ rid[t] < next_id
        /\ \A i \in Ids : outcome[i] /= "indeterminate"
        /\ IdsInOrder'
        /\ \A i \in DOMAIN sent' : /\ sent'[i] \in Ids /\ sent'[i] <= rid[t]
                                   /\ sent'[i] = rid[t] => i = Len(sent')
    BY <1>2, Sending
  <1>4. Newest'
    <2>1. \A i \in DOMAIN sent' : sent'[i] < next_id'
      <3>1. next_id \in 1..(MaxId + 1)
        BY DEF ClientInv, TypeOK
      <3>2. next_id \in Nat
        BY <3>1, ClientAssumption
      <3> QED BY <1>2, <1>3, <3>2 DEF Ids
    <2>2. \A u \in Requesters : Inside(u)' => next_id' > 1 /\ rid'[u] = next_id' - 1
      BY <1>2 DEF ClientInv, Discipline, Newest
    <2> QED BY <1>2, <2>1, <2>2 DEF Newest
  <1>5. \A i \in Ids : outcome'[i] = "indeterminate" => i = rid[t] /\ closed'
    BY <1>2, <1>3
  <1>6. Doubt'
    BY <1>2, <1>5 DEF Doubt
  <1>7. LastInDoubt'
    <2> SUFFICES ASSUME NEW i \in DOMAIN sent', outcome'[sent'[i]] = "indeterminate"
                 PROVE  i = Len(sent')
      BY DEF LastInDoubt
    <2>1. sent'[i] \in Ids
      BY <1>3
    <2>2. sent'[i] = rid[t]
      BY <1>5, <2>1
    <2> QED BY <1>3, <2>2
  <1> QED BY <1>1, <1>3, <1>4, <1>6, <1>7 DEF Discipline

(* A request ends in doubt: it is the last that was sent, or was not sent. *)
LEMMA InDoubtStep ==
    ASSUME ClientInv, NEW t \in Requesters, SendRefused(t) \/ GiveUp(t)
    PROVE  Discipline'
  <1> USE DEF ClientInv, Discipline, SendRefused, GiveUp, Abandon
  <1>1. Places' /\ Held' /\ Socket'
    BY DEF TypeOK, Places, ReaderLabels, RequesterLabels, Labels, Held, Socket,
           Inside, Using, Free
  <1>2. Newest' /\ Doubt'
    BY DEF TypeOK, Places, ReaderLabels, RequesterLabels, Labels, Held, Newest,
           Doubt, Inside, Using, Free, Ids
  <1>3. IdsInOrder'
    BY DEF IdsInOrder
  <1>4. LastInDoubt'
    <2>1. /\ sent' = sent /\ outcome' = [outcome EXCEPT ![rid[t]] = "indeterminate"]
          /\ outcome \in [Ids -> Outcomes] /\ sent \in Seq(Ids)
          /\ next_id \in Nat /\ rid[t] = next_id - 1
      BY DEF TypeOK, Newest, Inside
    <2>2. ASSUME NEW i \in DOMAIN sent, sent[i] = rid[t] PROVE i = Len(sent)
      <3>1. /\ Len(sent) \in Nat /\ DOMAIN sent = 1..Len(sent)
            /\ \A j \in DOMAIN sent : sent[j] \in Ids
        BY <2>1, Sequences
      <3>2. ASSUME i < Len(sent) PROVE FALSE
        <4>1. Len(sent) \in DOMAIN sent
          BY <2>2, <3>1, <3>2
        <4>2. sent[i] < sent[Len(sent)] /\ sent[Len(sent)] < next_id
          BY <2>2, <3>2, <4>1 DEF IdsInOrder, Newest
        <4>3. sent[Len(sent)] \in Nat
          BY <3>1, <4>1 DEF Ids
        <4> QED BY <2>1, <2>2, <4>2, <4>3
      <3> QED BY <2>2, <3>1, <3>2
    <2>3. \A i \in DOMAIN sent : sent[i] \in Ids
      BY <2>1, Sequences
    <2> QED BY <2>1, <2>2, <2>3 DEF LastInDoubt
  <1> QED BY <1>1, <1>2, <1>3, <1>4

LEMMA AnsweredStep ==
    ASSUME ClientInv, NEW t \in Requesters, Answered(t)
    PROVE  Discipline'
  <1> USE ClientAssumption DEF ClientInv, Discipline, Answered
  <1>1. Places'
    BY DEF TypeOK, Places, ReaderLabels, RequesterLabels, Labels
  <1>2. Held' /\ Socket'
    BY DEF TypeOK, Places, ReaderLabels, RequesterLabels, Labels, Held, Socket,
           Inside, Using, Free
  <1>3. Newest'
    BY DEF TypeOK, Places, ReaderLabels, RequesterLabels, Labels, Newest, Inside, Ids
  <1>4. Doubt'
    BY DEF TypeOK, Places, ReaderLabels, RequesterLabels, Labels, Doubt, Ids
  <1>5. IdsInOrder' /\ LastInDoubt'
    BY DEF TypeOK, IdsInOrder, LastInDoubt, Newest, Inside, Doubt, Ids
  <1> QED BY <1>1, <1>2, <1>3, <1>4, <1>5

(* The lock is released. *)
LEMMA LeaveStep ==
    ASSUME ClientInv, NEW t \in Requesters, Leave(t)
    PROVE  Discipline'
  <1> USE ClientAssumption DEF ClientInv, Discipline, Leave
  <1>1. Places'
    BY DEF TypeOK, Places, ReaderLabels, RequesterLabels, Labels
  <1>2. Held' /\ Socket'
    BY DEF TypeOK, Places, ReaderLabels, RequesterLabels, Labels, Held, Socket,
           Inside, Using, Free
  <1>3. Newest'
    BY DEF TypeOK, Places, ReaderLabels, RequesterLabels, Labels, Newest, Inside, Ids
  <1>4. Doubt'
    BY DEF TypeOK, Places, ReaderLabels, RequesterLabels, Labels, Doubt, Ids
  <1>5. IdsInOrder' /\ LastInDoubt'
    BY DEF TypeOK, IdsInOrder, LastInDoubt, Newest, Inside, Doubt, Ids
  <1> QED BY <1>1, <1>2, <1>3, <1>4, <1>5

(* A thread goes on, and changes nothing but flags. *)
LEMMA MoveStep ==
    ASSUME ClientInv, NEW t \in Requesters, Refuse(t) \/ Empty(t) \/ WaitOn(t) \/ Except(t)
    PROVE  Discipline'
  <1> USE ClientAssumption DEF ClientInv, Discipline, Refuse, EnterAlone, Empty,
                               WaitOn, Except
  <1>1. Places'
    BY DEF TypeOK, Places, ReaderLabels, RequesterLabels, Labels
  <1>2. Held' /\ Socket'
    BY DEF TypeOK, Places, ReaderLabels, RequesterLabels, Labels, Held, Socket,
           Inside, Using, Free
  <1>3. Newest'
    BY DEF TypeOK, Places, ReaderLabels, RequesterLabels, Labels, Newest, Inside, Ids
  <1>4. Doubt'
    BY DEF TypeOK, Places, ReaderLabels, RequesterLabels, Labels, Doubt, Ids
  <1>5. IdsInOrder' /\ LastInDoubt'
    BY DEF TypeOK, IdsInOrder, LastInDoubt, Newest, Inside, Doubt, Ids
  <1> QED BY <1>1, <1>2, <1>3, <1>4, <1>5

(* close(): the socket is closed when nobody uses it. *)
LEMMA CloseStep ==
    ASSUME ClientInv, NEW t \in Threads, CloseSocket(t) \/ Join(t)
    PROVE  Discipline'
  <1> USE ClientAssumption DEF ClientInv, Discipline, CloseSocket, Release, Join
  <1>1. Places'
    BY DEF TypeOK, Places, ReaderLabels, RequesterLabels, Labels
  <1>2. Held' /\ Socket'
    BY DEF TypeOK, Places, ReaderLabels, RequesterLabels, Labels, Held, Socket,
           Inside, Using, Free
  <1>3. Newest'
    BY DEF TypeOK, Places, ReaderLabels, RequesterLabels, Labels, Newest, Inside, Ids
  <1>4. Doubt'
    BY DEF TypeOK, Places, ReaderLabels, RequesterLabels, Labels, Doubt, Ids
  <1>5. IdsInOrder' /\ LastInDoubt'
    BY DEF TypeOK, IdsInOrder, LastInDoubt, Newest, Inside, Doubt, Ids
  <1> QED BY <1>1, <1>2, <1>3, <1>4, <1>5

LEMMA UserStep ==
    ASSUME ClientInv, NEW k \in {"CONFIGURE", "TX", "STOP"},
           Call(k) \/ GoOn \/ Activate \/ CloseClient \/ StartHeartbeat \/ Beat \/ TakeEvent
    PROVE  Discipline'
  <1> USE ClientAssumption DEF ClientInv, Discipline, Call, GoOn, Activate,
                               CloseClient, StartHeartbeat, Beat, TakeEvent
  <1>1. Places'
    BY DEF TypeOK, Places, ReaderLabels, RequesterLabels, Labels
  <1>2. Held' /\ Socket'
    BY DEF TypeOK, Places, ReaderLabels, RequesterLabels, Labels, Held, Socket,
           Inside, Using, Free
  <1>3. Newest'
    BY DEF TypeOK, Places, ReaderLabels, RequesterLabels, Labels, Newest, Inside, Ids
  <1>4. Doubt'
    BY DEF TypeOK, Places, ReaderLabels, RequesterLabels, Labels, Doubt, Ids
  <1>5. IdsInOrder' /\ LastInDoubt'
    BY DEF TypeOK, IdsInOrder, LastInDoubt, Newest, Inside, Doubt, Ids
  <1> QED BY <1>1, <1>2, <1>3, <1>4, <1>5

(* The reader takes the socket and releases it. *)
LEMMA ReaderStep ==
    ASSUME ClientInv, ReaderTop \/ ReaderLock \/ ReaderReceives \/ ReaderTimeout \/ ReaderEnd
           \/ ReaderFinally
    PROVE  Discipline'
  <1> USE ClientAssumption DEF ClientInv, Discipline, ReaderTop, ReaderLock,
                               ReaderReceives, ReaderTimeout,
                ReaderEnd, ReaderFails, ReaderFinally
  <1>1. Places'
    BY DEF TypeOK, Places, ReaderLabels, RequesterLabels, Labels
  <1>2. Held' /\ Socket'
    BY DEF TypeOK, Places, ReaderLabels, RequesterLabels, Labels, Held, Socket,
           Inside, Using, Free
  <1>3. Newest'
    <2>1. UNCHANGED <<sent, next_id, rid>>
      OBVIOUS
    <2>2. \A u \in Requesters : pc'[u] = pc[u] /\ ret'[u] = ret[u]
      BY DEF TypeOK
    <2>3. Newest
      OBVIOUS
    <2> QED BY ONLY <2>1, <2>2, <2>3 DEF Newest, Inside
  <1>4. Doubt'
    BY DEF TypeOK, Places, ReaderLabels, RequesterLabels, Labels, Doubt, Ids
  <1>5. IdsInOrder' /\ LastInDoubt'
    BY DEF TypeOK, IdsInOrder, LastInDoubt, Newest, Inside, Doubt, Ids
  <1> QED BY <1>1, <1>2, <1>3, <1>4, <1>5

(* It hands on what it received. *)
LEMMA HandleStep ==
    ASSUME ClientInv, HandleResponse \/ HandleEvent
    PROVE  Discipline'
  <1> USE ClientAssumption DEF ClientInv, Discipline, HandleResponse, HandleEvent,
                               EventRoom, ReaderFails
  <1>1. Places'
    BY DEF TypeOK, Places, ReaderLabels, RequesterLabels, Labels
  <1>2. Held' /\ Socket'
    BY DEF TypeOK, Places, ReaderLabels, RequesterLabels, Labels, Held, Socket,
           Inside, Using, Free
  <1>3. Newest'
    <2>1. UNCHANGED <<sent, next_id, rid>>
      OBVIOUS
    <2>2. \A u \in Requesters : pc'[u] = pc[u] /\ ret'[u] = ret[u]
      BY DEF TypeOK
    <2>3. Newest
      OBVIOUS
    <2> QED BY ONLY <2>1, <2>2, <2>3 DEF Newest, Inside
  <1>4. Doubt'
    BY DEF TypeOK, Places, ReaderLabels, RequesterLabels, Labels, Doubt, Ids
  <1>5. IdsInOrder' /\ LastInDoubt'
    BY DEF TypeOK, IdsInOrder, LastInDoubt, Newest, Inside, Doubt, Ids
  <1> QED BY <1>1, <1>2, <1>3, <1>4, <1>5

LEMMA DeviceStep ==
    ASSUME ClientInv, Serve \/ DeviceEvent \/ LinkDown
    PROVE  Discipline'
  <1> USE ClientAssumption DEF ClientInv, Discipline, Serve, DeviceEvent, LinkDown
  <1>1. Places'
    <2>1. incoming' /= <<>> \/ incoming' = incoming
      <3>1. ASSUME NEW p \in Incoming, incoming' = Append(incoming, p)
            PROVE  incoming' /= <<>>
        BY <3>1, Sequences DEF TypeOK
      <3> QED BY <3>1, Arriving DEF LinkDown
    <2> QED BY <2>1 DEF Places
  <1>2. Held' /\ Socket'
    BY DEF TypeOK, Places, ReaderLabels, RequesterLabels, Labels, Held, Socket,
           Inside, Using, Free
  <1>3. Newest'
    BY DEF TypeOK, Places, ReaderLabels, RequesterLabels, Labels, Newest, Inside, Ids
  <1>4. Doubt'
    BY DEF TypeOK, Places, ReaderLabels, RequesterLabels, Labels, Doubt, Ids
  <1>5. IdsInOrder' /\ LastInDoubt'
    BY DEF TypeOK, IdsInOrder, LastInDoubt, Newest, Inside, Doubt, Ids
  <1> QED BY <1>1, <1>2, <1>3, <1>4, <1>5

LEMMA ClientStep == ClientInv /\ [Next]_vars => ClientInv'
  <1>1. ASSUME ClientInv, NEW t \in Requesters, Requesting(t) PROVE Discipline'
    BY <1>1, EnterStep, LockStep, SendStep, InDoubtStep, AnsweredStep, LeaveStep,
       MoveStep, CloseStep DEF Requesting
  <1>2. ASSUME ClientInv, Reading PROVE Discipline'
    BY <1>2, ReaderStep, HandleStep, CloseStep DEF Reading
  <1>3. ASSUME ClientInv, Next PROVE ClientInv'
    BY <1>1, <1>2, <1>3, TypesStep, UserStep, DeviceStep DEF Next, ClientInv
  <1>4. ASSUME ClientInv, UNCHANGED vars PROVE ClientInv'
    BY <1>4 DEF vars, ClientInv, TypeOK, Discipline, Places, Held, Inside, Using,
                Socket,
                Newest, Doubt, IdsInOrder, LastInDoubt
  <1> QED BY <1>3, <1>4

LEMMA ClientInvariant == Spec => []ClientInv
  BY Initially, ClientStep, PTL DEF Spec
-----------------------------------------------------------------------------
(* The flags, the locks, the threads' places and the queues of a Client    *)
(* are what the program means them to be (client.py).                      *)
THEOREM TypeCorrect == Spec => []TypeOK
  <1>1. ClientInv => TypeOK
    BY DEF ClientInv
  <1> QED BY <1>1, ClientInvariant, PTL

(* One thread at a time is in a call of the socket, with the lock, and the *)
(* socket is open: close() never takes it from under another thread        *)
(* (client.py, _close_socket, _read, request).                             *)
THEOREM NobodyLosesTheSocket == Spec => []SocketExclusive
  <1>1. ClientInv => SocketExclusive
    BY DEF ClientInv, Discipline, Held, Socket, Using, SocketExclusive
  <1> QED BY <1>1, ClientInvariant, PTL

(* Two threads allocate ids, and the device sees them increase (client.py, *)
(* request: request_lock is held from the allocation to the answer).       *)
THEOREM IdsIncrease == Spec => []IdsInOrder
  <1>1. ClientInv => IdsInOrder
    BY DEF ClientInv, Discipline
  <1> QED BY <1>1, ClientInvariant, PTL

(* A request whose outcome is unknown is the last of its connection:       *)
(* neither it nor a later one is sent (client.py, request: close() before  *)
(* TransportError is raised).                                              *)
THEOREM DoubtIsLast == Spec => []LastInDoubt
  <1>1. ClientInv => LastInDoubt
    BY DEF ClientInv, Discipline
  <1> QED BY <1>1, ClientInvariant, PTL
=============================================================================
