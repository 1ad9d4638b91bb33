--------------------------- MODULE DeviceContract ---------------------------
(* What a client of the protocol may rely on, whatever serves it: the      *)
(* firmware (Session) or the simulator of the test suite (Simulator), both *)
(* of which are shown to implement this module; Send is composed with it.  *)
(* One connection is served at a time.  A request takes effect at most     *)
(* once; permission and schedules belong to a connection; what a client is *)
(* told of a transmission comes after the answer to its request, is true,  *)
(* and comes in order.  It may be told less than happened.                 *)
EXTENDS Integers, Sequences

CONSTANTS
    MaxConnections,   \* bound on the connections of one boot
    MaxId,            \* bound on the request ids of one connection
    MaxCount          \* most frames of one schedule

VARIABLES
    conn, open,       \* the number of the last connection; is it served?
    executed,         \* [Requests -> Nat]: times a request was executed
    answer,           \* [Requests -> Answers]: the answer it was given
    permitted,        \* the connection may transmit
    schedule,         \* the request of the open schedule, 0 for none
    count,            \* [Requests -> Nat]: frames asked for, 0 if not accepted
    bus,              \* [Requests -> Nat]: frames sent
    told              \* the transmit events the clients were sent

vars == <<conn, open, executed, answer, permitted, schedule, count, bus, told>>

(* Ids are unique within a connection only: a request is a pair of both.   *)
Requests == 1..(MaxConnections * MaxId)
Request(c, id) == (c - 1) * MaxId + id
Owner(r) == (r - 1) \div MaxId + 1

Answers == {"none", "error", "applied", "accepted"}
Errors == {"OK", "EIO", "ECANCELED", "EINPROGRESS"}
Event == [request : Requests, completed : 0..MaxCount, error : Errors,
          terminal : BOOLEAN]

Init ==
    /\ conn = 0 /\ open = FALSE
    /\ executed = [r \in Requests |-> 0] /\ answer = [r \in Requests |-> "none"]
    /\ permitted = FALSE /\ schedule = 0
    /\ count = [r \in Requests |-> 0] /\ bus = [r \in Requests |-> 0]
    /\ told = <<>>
-----------------------------------------------------------------------------
Connect ==
    /\ ~open /\ open' = TRUE /\ conn < MaxConnections /\ conn' = conn + 1
    /\ UNCHANGED <<executed, answer, permitted, schedule, count, bus, told>>

(* The schedule ends; a frame in flight may still have been sent. *)
Abort ==
    /\ schedule' = 0
    /\ \/ UNCHANGED bus
       \/ /\ schedule /= 0 /\ bus[schedule] < count[schedule]
          /\ bus' = [bus EXCEPT ![schedule] = @ + 1]

Disconnect ==
    /\ open /\ open' = FALSE /\ permitted' = FALSE /\ Abort
    /\ UNCHANGED <<conn, executed, answer, count, told>>

(* The lease has expired, or the device is being reconfigured locally. *)
Revoke ==
    /\ permitted' = FALSE /\ Abort
    /\ UNCHANGED <<conn, open, executed, answer, count, told>>

Effectless == UNCHANGED <<permitted, schedule, count, bus>>
Reconfigure == Abort /\ permitted' \in BOOLEAN /\ UNCHANGED count
Accept(r, n) ==
    /\ permitted /\ schedule = 0 /\ schedule' = r
    /\ count' = [count EXCEPT ![r] = n]
    /\ UNCHANGED <<permitted, bus>>

(* Ids increase, so that no request is executed twice. *)
Execute(r) ==
    /\ open /\ Owner(r) = conn
    /\ \A q \in Requests : Owner(q) = conn /\ q >= r => executed[q] = 0
    /\ executed' = [executed EXCEPT ![r] = 1]
    /\ Effectless \/ Reconfigure \/ \E n \in 1..MaxCount : Accept(r, n)
    /\ UNCHANGED <<conn, open, answer, told>>

Reply(r, a) ==
    /\ open /\ Owner(r) = conn /\ executed[r] = 1 /\ answer[r] = "none"
    /\ a /= "none" /\ (a = "accepted" <=> count[r] > 0)
    /\ answer' = [answer EXCEPT ![r] = a]
    /\ UNCHANGED <<conn, open, executed, permitted, schedule, count, bus, told>>

(* The next frame is sent.  The last one may end the schedule at once. *)
Transmit ==
    /\ schedule /= 0 /\ permitted /\ bus[schedule] < count[schedule]
    /\ bus' = [bus EXCEPT ![schedule] = @ + 1]
    /\ schedule' = schedule
       \/ (bus'[schedule] = count[schedule] /\ schedule' = 0)
    /\ UNCHANGED <<conn, open, executed, answer, permitted, count, told>>

Finish ==
    /\ schedule /= 0 /\ schedule' = 0
    /\ UNCHANGED <<conn, open, executed, answer, permitted, count, bus, told>>

(* A final event says exactly what was sent, unless it says that it does   *)
(* not know; "OK" is final only when all was sent.                         *)
Honest(e) ==
    LET sent == bus[e.request]
    IN  /\ e.completed <= sent /\ (e.error /= "OK" => e.terminal)
        /\ e.terminal => sent - e.completed \in
                           (IF e.error = "EINPROGRESS" THEN {0, 1} ELSE {0})
        /\ e.error = "OK" => (e.terminal <=> e.completed = count[e.request])

InTurn(e) ==
    \A i \in DOMAIN told :
      told[i].request = e.request =>
        ~told[i].terminal
        /\ (IF e.error = "OK" THEN told[i].completed < e.completed
            ELSE told[i].completed <= e.completed)

Tell(e) ==
    /\ open /\ Owner(e.request) = conn /\ answer[e.request] = "accepted"
    /\ Honest(e) /\ InTurn(e) /\ (e.terminal => schedule /= e.request)
    /\ told' = Append(told, e)
    /\ UNCHANGED <<conn, open, executed, answer, permitted, schedule, count, bus>>

Next ==
    \/ Connect \/ Disconnect \/ Revoke \/ Transmit \/ Finish
    \/ \E r \in Requests : Execute(r) \/ \E a \in Answers : Reply(r, a)
    \/ \E e \in Event : Tell(e)

Spec == Init /\ [][Next]_vars
-----------------------------------------------------------------------------
(* What a client has been told stays true: a request is executed once, and *)
(* no more frames are sent than it asked for; of a transmission that was   *)
(* reported as ended, exactly the frames reported were sent, all of them   *)
(* if it was completed, and none is sent any more.                         *)
Truthful ==
    /\ \A r \in Requests : executed[r] <= 1 /\ bus[r] <= count[r]
    /\ \A i \in DOMAIN told :
         LET e == told[i]
         IN  e.terminal /\ e.error /= "EINPROGRESS" =>
               /\ bus[e.request] = e.completed /\ schedule /= e.request
               /\ e.error = "OK" => e.completed = count[e.request]
=============================================================================
