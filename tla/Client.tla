------------------------------- MODULE Client -------------------------------
(* The transport of the PC library (src/pc/can_tool/client.py): the thread *)
(* of the application, the reader thread and the heartbeat thread, which   *)
(* share one TLS socket, two locks and the flags of a Client.  The device  *)
(* and the network are external: they execute what they receive in order,  *)
(* answer or not, send events, and may go away.                            *)
EXTENDS Integers, FiniteSets, SequencesExt

CONSTANTS
    MaxId,             \* the 0xFFFFFFFF of request(): the last request id
    EventCapacity,     \* capacity of Client.events
    Buffered           \* bound on the packets on their way to the client

ASSUME ClientAssumption ==
    MaxId \in Nat \ {0} /\ EventCapacity \in Nat \ {0} /\ Buffered \in Nat \ {0}

Requesters == {"user", "heartbeat"}
Threads == Requesters \cup {"reader"}
Ids == 1..MaxId

VARIABLES
    pc, ret,           \* where a thread is, and where its close() returns to
    kind, rid,         \* [Requesters -> ...]: the request it is making
    io_lock, request_lock,
    closed, active, failure, sock, next_id,
    waiter,            \* [Ids -> ...]: what the reader put there
    pending,           \* ids whose waiter the reader can find
    events,            \* number of events in Client.events
    sent, served,      \* ids handed to the socket, how many were executed
    incoming,          \* packets on their way to the client, or read
    link,              \* the connection is up
    outcome,           \* history: how request() ended for an id
    cause              \* history: who closed first

threads == <<pc, ret, kind, rid>>
locks == <<io_lock, request_lock>>
flags == <<closed, active, failure, cause>>
requests == <<next_id, waiter, pending, outcome>>
device == <<sent, served, incoming, link>>
vars == <<threads, locks, flags, sock, requests, events, device>>

Kinds == {"HELLO", "PING", "CONFIGURE", "TX", "STOP"}
Free == "free"
Labels == {"off", "idle", "enter", "locked", "sending", "wait", "empty",
           "answered", "activate", "shut", "join", "leave", "except",
           "top", "lock", "recv", "handle", "finally", "end"}
Outcomes == {"none", "answered", "indeterminate"}
Incoming == [rid : Ids \cup {0}, ok : BOOLEAN]        \* rid 0: an event

TypeOK ==
    /\ pc \in [Threads -> Labels] /\ ret \in [Threads -> {"leave", "end"}]
    /\ kind \in [Requesters -> Kinds] /\ rid \in [Requesters -> Ids \cup {0}]
    /\ io_lock \in Threads \cup {Free} /\ request_lock \in Requesters \cup {Free}
    /\ closed \in BOOLEAN /\ active \in BOOLEAN /\ failure \in BOOLEAN
    /\ sock \in {"open", "closed"} /\ next_id \in 1..(MaxId + 1)
    /\ waiter \in [Ids -> {"none", "ok", "rejected"}] /\ pending \in SUBSET Ids
    /\ events \in 0..EventCapacity
    /\ sent \in Seq(Ids) /\ served \in 0..Len(sent)
    /\ incoming \in Seq(Incoming) /\ Len(incoming) <= Buffered
    /\ link \in BOOLEAN /\ outcome \in [Ids -> Outcomes]
    /\ cause \in Threads \cup {"none"}

(* connect() has opened the socket and started the reader; its HELLO is    *)
(* the first request of the user's thread.                                 *)
Init ==
    /\ pc = [user |-> "enter", heartbeat |-> "off", reader |-> "top"]
    /\ ret = [t \in Threads |-> "end"]
    /\ kind = [user |-> "HELLO", heartbeat |-> "PING"]
    /\ rid = [t \in Requesters |-> 0]
    /\ io_lock = Free /\ request_lock = Free
    /\ closed = FALSE /\ active = FALSE /\ failure = FALSE /\ sock = "open"
    /\ next_id = 1 /\ waiter = [i \in Ids |-> "none"] /\ pending = {}
    /\ events = 0 /\ sent = <<>> /\ served = 0 /\ incoming = <<>> /\ link = TRUE
    /\ outcome = [i \in Ids |-> "none"] /\ cause = "none"

Goto(t, from, to) == pc[t] = from /\ pc' = [pc EXCEPT ![t] = to]
Concludes(i, word) == outcome' = [outcome EXCEPT ![i] = word]
-----------------------------------------------------------------------------
(* close(): set the flags, then _close_socket(), then join the reader. *)
CloseFlags(t) ==
    /\ closed' = TRUE /\ active' = FALSE
    /\ cause' = IF closed THEN cause ELSE t

BeginClose(t, from, back) ==
    /\ Goto(t, from, "shut") /\ ret' = [ret EXCEPT ![t] = back]
    /\ CloseFlags(t)

(* A close that keeps the lock until the reader has ended. *)
ReleaseLater(t) == t
Release(t) == Free

CloseSocket(t) ==
    /\ Goto(t, "shut", "join")
    /\ io_lock = Free /\ io_lock' = Release(t)
    /\ sock' = "closed"
    /\ UNCHANGED <<ret, kind, rid, request_lock, flags, requests, events, device>>

Join(t) ==
    /\ t = "reader" \/ pc["reader"] = "end"
    /\ Goto(t, "join", ret[t])
    /\ UNCHANGED <<ret, kind, rid, locks, flags, sock, requests, events, device>>
-----------------------------------------------------------------------------
(* request().  The lock is held from here to Leave; without it, an id may  *)
(* be overtaken on its way to the socket.                                  *)
EnterFree(t) == TRUE
EnterAlone(t) == request_lock = Free

Enter(t) ==
    /\ Goto(t, "enter", "locked")
    /\ EnterAlone(t) /\ request_lock' = t
    /\ ~closed /\ next_id <= MaxId
    /\ rid' = [rid EXCEPT ![t] = next_id] /\ next_id' = next_id + 1
    /\ pending' = pending \cup {next_id}
    /\ UNCHANGED <<ret, kind, io_lock, flags, sock, waiter, outcome, events,
                   device>>

(* The error of an entry refused is raised outside the try: no close().    *)
Refuse(t) ==
    /\ Goto(t, "enter", "except")
    /\ EnterAlone(t)
    /\ closed \/ next_id > MaxId
    /\ UNCHANGED <<ret, kind, rid, locks, flags, sock, requests, events, device>>

(* A sender that looks at the flag before it takes the lock. *)
MaySendUnchecked == TRUE
MaySend == ~closed

Lock(t) ==
    /\ Goto(t, "locked", "sending")
    /\ io_lock = Free /\ MaySend
    /\ io_lock' = t
    /\ UNCHANGED <<ret, kind, rid, request_lock, flags, sock, requests, events,
                   device>>

SendRefused(t) ==
    /\ io_lock = Free /\ closed
    /\ BeginClose(t, "locked", "leave")
    /\ Concludes(rid[t], "indeterminate")
    /\ UNCHANGED <<kind, rid, locks, failure, sock, next_id, waiter, pending,
                   events, device>>

Outgoing(t) == Append(sent, rid[t])

Send(t) ==
    /\ Goto(t, "sending", "wait")
    /\ io_lock' = Free
    /\ sent' = Outgoing(t)
    /\ UNCHANGED <<ret, kind, rid, request_lock, flags, sock, requests, events,
                   served, incoming, link>>

(* sendall() fails: the packet may have reached the device all the same.   *)
SendFails(t) ==
    /\ BeginClose(t, "sending", "leave")
    /\ io_lock' = Free
    /\ sent' \in {sent, Outgoing(t)}
    /\ Concludes(rid[t], "indeterminate")
    /\ UNCHANGED <<kind, rid, request_lock, failure, sock, next_id, waiter,
                   pending, events, served, incoming, link>>

(* waiter.get() returns the answer, ... *)
Answered(t) ==
    /\ pc[t] = "wait" /\ waiter[rid[t]] /= "none"
    /\ Goto(t, "wait", IF waiter[rid[t]] = "ok" THEN "answered" ELSE "leave")
    /\ Concludes(rid[t], "answered")
    /\ active' = (active /\ ~(kind[t] = "STOP" /\ waiter[rid[t]] = "ok"))
    /\ UNCHANGED <<ret, kind, rid, locks, closed, failure, cause, sock, next_id,
                   waiter, pending, events, device>>

(* ... or nothing for a while: the answer may come before the next look at *)
(* the flag and the clock.                                                 *)
Empty(t) ==
    /\ Goto(t, "wait", "empty") /\ waiter[rid[t]] = "none"
    /\ UNCHANGED <<ret, kind, rid, locks, flags, sock, requests, events, device>>

WaitOn(t) ==
    /\ Goto(t, "empty", "wait") /\ ~closed
    /\ UNCHANGED <<ret, kind, rid, locks, flags, sock, requests, events, device>>

(* A timeout that leaves the connection open. *)
AbandonOpen(t) == Goto(t, "empty", "leave") /\ UNCHANGED <<ret, closed, active, cause>>
Abandon(t) == BeginClose(t, "empty", "leave")

(* Closed, or the time is over: the request is in doubt. *)
GiveUp(t) ==
    /\ Abandon(t)
    /\ Concludes(rid[t], "indeterminate")
    /\ UNCHANGED <<kind, rid, locks, failure, sock, next_id, waiter, pending,
                   events, device>>

(* finally: forget the waiter, release the lock, return or raise. *)
Leave(t) ==
    /\ \/ Goto(t, "answered",
               IF kind[t] = "CONFIGURE" THEN "activate" ELSE "idle")
       \/ Goto(t, "leave", "except")
    /\ pending' = pending \ {rid[t]} /\ request_lock' = Free
    /\ waiter' = [waiter EXCEPT ![rid[t]] = "none"]
    /\ UNCHANGED <<ret, kind, rid, io_lock, flags, sock, next_id, outcome, events,
                   device>>

(* The caller of a request that raised: the heartbeat notes the failure,   *)
(* unless the connection is closed, and closes; so does connect(); of any  *)
(* other, the application decides whether to go on.                        *)
Except(t) ==
    /\ BeginClose(t, "except", "end")
    /\ failure' = (failure \/ (t = "heartbeat" /\ ~closed))
    /\ UNCHANGED <<kind, rid, locks, sock, requests, events, device>>

GoOn ==
    /\ Goto("user", "except", "idle") /\ kind["user"] /= "HELLO"
    /\ UNCHANGED <<ret, kind, rid, locks, flags, sock, requests, events, device>>

Requesting(t) ==
    \/ Enter(t) \/ Refuse(t) \/ Lock(t) \/ SendRefused(t) \/ Send(t)
    \/ SendFails(t) \/ Answered(t) \/ Empty(t) \/ WaitOn(t) \/ GiveUp(t)
    \/ Leave(t) \/ Except(t) \/ CloseSocket(t) \/ Join(t)
-----------------------------------------------------------------------------
(* The application: it configures, sends while the client is active, stops *)
(* and closes.  The heartbeat is started when HELLO has been answered.     *)
Call(k) ==
    /\ Goto("user", "idle", "enter") /\ pc["heartbeat"] /= "off"
    /\ k = "TX" => active
    /\ kind' = [kind EXCEPT !["user"] = k]
    /\ UNCHANGED <<ret, rid, locks, flags, sock, requests, events, device>>

Activate ==
    /\ Goto("user", "activate", "idle")
    /\ active' = TRUE
    /\ UNCHANGED <<ret, kind, rid, locks, closed, failure, cause, sock, requests,
                   events, device>>

CloseClient ==
    /\ BeginClose("user", "idle", "end") /\ pc["heartbeat"] /= "off"
    /\ UNCHANGED <<kind, rid, locks, failure, sock, requests, events, device>>

StartHeartbeat ==
    /\ pc["user"] = "idle" /\ Goto("heartbeat", "off", "idle")
    /\ UNCHANGED <<ret, kind, rid, locks, flags, sock, requests, events, device>>

Beat ==
    /\ Goto("heartbeat", "idle", IF closed THEN "end" ELSE "enter")
    /\ UNCHANGED <<ret, kind, rid, locks, flags, sock, requests, events, device>>

TakeEvent ==
    /\ events > 0 /\ events' = events - 1
    /\ UNCHANGED <<threads, locks, flags, sock, requests, device>>
-----------------------------------------------------------------------------
(* _read(): under the lock it looks at the flag again, then receives.      *)
ReaderTop ==
    /\ Goto("reader", "top", IF closed THEN "finally" ELSE "lock")
    /\ UNCHANGED <<ret, kind, rid, locks, flags, sock, requests, events, device>>

ReaderLock ==
    /\ io_lock = Free
    /\ \/ closed /\ Goto("reader", "lock", "finally") /\ UNCHANGED io_lock
       \/ ~closed /\ Goto("reader", "lock", "recv") /\ io_lock' = "reader"
    /\ UNCHANGED <<ret, kind, rid, request_lock, flags, sock, requests, events,
                   device>>

ReaderReceives ==
    /\ incoming /= <<>> /\ Goto("reader", "recv", "handle")
    /\ io_lock' = Free
    /\ UNCHANGED <<ret, kind, rid, request_lock, flags, sock, requests, events,
                   device>>

ReaderTimeout ==
    /\ incoming = <<>> /\ Goto("reader", "recv", "top")
    /\ io_lock' = Free
    /\ UNCHANGED <<ret, kind, rid, request_lock, flags, sock, requests, events,
                   device>>

(* An exception of the reader is a failure unless the client is closed. *)
ReaderFails == failure' = (failure \/ ~closed)

ReaderEnd ==
    /\ ~link /\ Goto("reader", "recv", "finally")
    /\ io_lock' = Free /\ ReaderFails
    /\ UNCHANGED <<ret, kind, rid, request_lock, closed, active, cause, sock,
                   requests, events, device>>

HandleResponse ==
    LET p == Head(incoming)
    IN  /\ Goto("reader", "handle", "top") /\ p.rid /= 0
        /\ waiter' = IF p.rid \in pending
                     THEN [waiter EXCEPT ![p.rid] = IF p.ok THEN "ok"
                                                    ELSE "rejected"]
                     ELSE waiter
        /\ incoming' = Tail(incoming)
        /\ UNCHANGED <<ret, kind, rid, locks, flags, sock, next_id, pending,
                       outcome, events, sent, served, link>>

EventRoom == events < EventCapacity

HandleEvent ==
    /\ pc["reader"] = "handle" /\ Head(incoming).rid = 0
    /\ \/ /\ EventRoom /\ events' = events + 1
          /\ Goto("reader", "handle", "top")
          /\ UNCHANGED failure
       \/ /\ ~EventRoom /\ UNCHANGED events
          /\ Goto("reader", "handle", "finally")
          /\ ReaderFails
    /\ incoming' = Tail(incoming)
    /\ UNCHANGED <<ret, kind, rid, locks, closed, active, cause, sock, requests,
                   sent, served, link>>

ReaderFinally ==
    /\ BeginClose("reader", "finally", "end")
    /\ UNCHANGED <<kind, rid, locks, failure, sock, requests, events, device>>

Reading ==
    \/ ReaderTop \/ ReaderLock \/ ReaderReceives \/ ReaderTimeout \/ ReaderEnd
    \/ HandleResponse \/ HandleEvent \/ ReaderFinally
    \/ CloseSocket("reader") \/ Join("reader")
-----------------------------------------------------------------------------
Serve ==
    /\ link /\ served < Len(sent) /\ Len(incoming) < Buffered
    /\ served' = served + 1
    /\ \E ok \in BOOLEAN :
         incoming' = Append(incoming, [rid |-> sent[served + 1], ok |-> ok])
    /\ UNCHANGED <<threads, locks, flags, sock, requests, events, sent, link>>

DeviceEvent ==
    /\ link /\ served > 0 /\ Len(incoming) < Buffered
    /\ incoming' = Append(incoming, [rid |-> 0, ok |-> TRUE])
    /\ UNCHANGED <<threads, locks, flags, sock, requests, events, sent, served,
                   link>>

LinkDown ==
    /\ link /\ link' = FALSE
    /\ UNCHANGED <<threads, locks, flags, sock, requests, events, sent, served,
                   incoming>>

Next ==
    \/ \E t \in Requesters : Requesting(t)
    \/ \E k \in {"CONFIGURE", "TX", "STOP"} : Call(k)
    \/ GoOn \/ Activate \/ CloseClient \/ StartHeartbeat \/ Beat \/ TakeEvent
    \/ Reading
    \/ Serve \/ DeviceEvent \/ LinkDown

Spec == Init /\ [][Next]_vars

(* Every thread is scheduled; nothing is assumed of the device, of the     *)
(* application, or of who gets a lock that several threads wait for.       *)
FairSpec ==
    /\ Spec /\ WF_vars(Reading) /\ WF_vars(Beat)
    /\ \A t \in Requesters : WF_vars(Requesting(t))
-----------------------------------------------------------------------------
(* tests/test_transport.py: "A closed/reused fd must never remain inside   *)
(* an SSL read": one thread at a time is in a call of the socket, and none *)
(* is when, or after, another closes it.                                   *)
SocketExclusive ==
    \A t \in Threads :
      pc[t] \in {"sending", "recv"} => io_lock = t /\ sock = "open"

(* Ids reach the device in increasing order although two threads allocate  *)
(* them: the device refuses one that was overtaken.                        *)
IdsInOrder ==
    \A i, j \in DOMAIN sent : i < j => sent[i] < sent[j]

(* Nothing follows a request whose outcome is in doubt: neither it nor a   *)
(* later one, of whatever thread, is sent on the connection.               *)
LastInDoubt ==
    \A i \in DOMAIN sent :
      outcome[sent[i]] = "indeterminate" => i = Len(sent)

(* close() returns, whoever calls it and whatever the others are doing:    *)
(* the reader and the heartbeat end, the socket is closed, no request is   *)
(* left waiting and no lock held.                                          *)
EndsOnceClosed ==
    closed ~> /\ pc["reader"] = "end" /\ pc["heartbeat"] \in {"off", "end"}
              /\ sock = "closed" /\ pending = {}
              /\ io_lock = Free /\ request_lock = Free

(* docs/recording-format.md: "`disconnect`: local close/error".  The error *)
(* is Client.failure: a connection given up by the heartbeat has one.      *)
FailureReported ==
    cause = "heartbeat" /\ pc["heartbeat"] = "end" => failure
=============================================================================
