# TLA+ specifications of the wireless CAN adapter

These modules specify the wireless CAN adapter of this repository: the firmware
(`src/firmware/src`, C on Zephyr) and the PC library and command line tool
(`src/pc/can_tool`, Python). They say what the parts do, step by step as the
code does it, and what must come of it. TLC checks them on small instances, and
TLAPS proves the theorems for every instance.

Paths below are relative to the repository, which is the directory `src/`.

## 1. The system

    CAN bus --- controller --- capture.c --- main.c ---TLS--- client.py --- cli.py --- recording.py
                                  |             |                |
                            tx_scheduler    network.c        heartbeat

| Component | Code | State it keeps | Operations | Talks to |
|---|---|---|---|---|
| Capture core | `firmware/src/capture.c` | `running`, `configured`, `applied`; one TX schedule (`scheduled`, `inflight`, `remaining`, `completed`, `next_send`); lease and TX deadline; the completion flag; queue of TX events | `capture_configure/start/stop/lease/tx`, `scheduler_tick` every 2 ms, `tx_done` in interrupt context | CAN controller below, server above |
| Receive path | `capture.c` (`rx`), `main.c` (`serve`, `discard_queue`) | `rx_queue`, five counters under a spinlock, the batch of the server | receive callback, batches of 16, status, discards | controller, server |
| Server session | `main.c` (`serve`, `command`) | one connection: `hello`, `high_request`, the cache of the last answer, `reboot` | handshake, nine commands, duplicates, sending of events, teardown | capture core, network, client |
| Network | `network.c` | saved settings, `ready`, `radio_ready`, `connected` | provisioning, recovery button, reconnection | settings storage, capture core |
| Wire codec | `wire.c`, `protocol.py` | the parser's buffer | encode, decode, validate | both ends |
| Wi-Fi rules | `wifi_config.c`, `wifi.py` | none | validate, parse, encode | network, CLI |
| PC client | `client.py` | socket, `closed`, `active`, `failure`, request ids, waiters, queue of events | `request`, reader thread, heartbeat thread, `close` | server, application |
| Monitor, CLI | `cli.py` | the worker thread, counters, the shutdown | monitor, record, send | client, recorder |
| Recording | `recording.py` | the file, `failures` | write, close, read, export | file system |
| Presentation | `model.py` | sequence tracker, bounded tables | filter, rows, gaps | monitor |
| Simulator | `simulator.py` | a second, synthetic device | commands, ticks | client, in tests |

The server runs in the main thread of the firmware, which has a higher priority
than the scheduler (5) and the recovery thread (7). It owns a connection until
that ends and only then accepts the next. Commands reach the core by calls under
the `control` mutex; frames and events reach the server by two bounded queues
that are written without waiting. Whatever ends a connection stops capture. On
the PC, three threads share one TLS socket: the application's, the reader and
the heartbeat.

What is hard about it, and what a unit test hardly reaches:

- a completion interrupt between any two steps of the scheduler, of a stop, of
  a new command; a tick that is preempted after it has read the clock;
- a frame whose fate is not known when its schedule is closed;
- bounded queues that overflow, and losses that must be counted, not silent;
- requests that are lost, repeated or in doubt, and ids that a next client uses
  again, while permission, schedules, frames and events belong to one client;
- a socket that one thread closes while two others use it, a `close()` that
  joins a thread that calls it;
- a device that must fall silent without anybody's help;
- settings that must survive a reboot or a loss of power at any moment, and a
  radio that may not be used on any other band than they say;
- a recording that is written, drained and closed by two threads on a disk that
  fails, and read back after the power was lost;
- a command line that must know whether its frames were sent, over a link that
  breaks at any moment;
- a second device, for the tests, that must promise no more than the first.

`PROJECT.json` lists these hazards at the lines where they bite, with the
properties that look for them.

## 2. The modules

### The capture core

`CaptureContract.tla` is the abstract specification: what the core promises to
whoever drives it. A schedule is accepted, its frames reach the bus one by one
(`Transmit`) and are reported (`Report`); a stop closes it, and may say
"cancelled" only when every frame on the bus was reported. There are no ticks,
no clocks and no flags in it.

`Capture.tla` is `capture.c`. Every operation of the server is one action, for
it holds the mutex, and so is what it calls: `stop_locked` with the abort of the
controller (`can_stop`) and the event. A tick of the scheduler holds the mutex
too, but the completion callback and the clock do not wait for it, so it is
split in three: the lease (`TickExpire`, `TickLive`), the completion
(`TickReap`, `TickNoReap`), the deadline and the next frame (`TickGiveUp`,
`TickSend`, `TickSendFails`, `TickIdle`). Between them `tx_done` may run, time
may pass (`Advance`) and the server may fetch events, but no operation of it
runs. Deadlines are kept as the time left; `lag` is the age of the `now` that
the tick has read. The controller is the part outside: it takes one frame
(`busy`), completes or fails it at any time or never, and whether an aborted
frame was on the bus is a free choice. `count`, `bus`, `emitted`, `taken` and
`idle` are history variables. Also modelled are the controller's listen-only
mode and the silence pin, because a stopped adapter must be silent.

`Capture` is shown to implement `CaptureContract` by the identity on the shared
variables, by TLC (`ImplementsContract`) and by proof: `CaptureProofs.tla` has
that and the invariants.

### The receive path

`RxQueue.tla` has the callback `rx` (one step, under the spinlock) and the
server's loop by its program points: what `serve` does when it begins (`open`,
`clear`), when it polls, fetches a batch frame by frame, sends it or fails to,
reads the status (the counters under their lock in `Snapshot`, the fill of the
queue later in `ReadUsed`), and what it does at the end (`done`, `drain`). A
frame is its sequence number; `sent` and `lost` are history.

`RxStream.tla` extends it by the other end: packets in the connection, the
reader thread and its bounded queue, the worker of the monitor, and the
`SequenceTracker`. It asks whether the gap count that a user sees is the truth.
The properties of `RxQueue` are checked on this composition, too. `Take` gives
the worker a packet (`packet`), and the tracker sees the frames of it one by one.

### What a client may rely on

`DeviceContract.tla` is the abstract device of the protocol: one connection at a
time; a request takes effect at most once, and later ids only; permission and
schedules end with their connection; an event comes after the answer to its
request, in order, and is true, but it may not come at all. It knows nothing of
packets, payloads, caches or queues. Three modules meet at it:

- `Session` (the firmware) implements it, with the capture core as *its*
  contract promises: `ImplementsDevice` under the mapping of its `phase` to
  `open`, of the core's schedule to `schedule` and of the events sent to `told`;
- `Simulator` implements it with `owner`, `active` and `pending`;
- `Send` is composed with it instead of with either.

So `Capture => CaptureContract`, `Session` over it `=> DeviceContract`, and
`Send` over that. Every arrow is a theorem as well as a run.

### The server session

`Session.tla` is `serve` and `command` composed with the core, of which it uses
the contract: `Core == INSTANCE CaptureContract`. The scheduler, the controller
and the recovery thread (`Others`) take steps of the contract between those of
the server. A client is any client: it sends any packet, in any order, again, or
changed. `origin` is history: the newest packet that was executed. `SameAnswer`
says both that its repetition gets the answer of it and that nothing else does,
for packets that are answered and are not too long for the cache; a repeated HELLO
is not answered (section 6). Payloads stand for what a command tells apart; a boolean stands for the
session of the header. A core request is a pair of connection and id, because
ids begin anew with every connection.

### The simulator

`Simulator.tla` is the device of the tests: `SimState.command`, `tick`, `receive`
and `disconnect`, and the thread of `Simulator.run()` by its program points: it
reads (`recv`), answers (`reply`), and when nothing more is to be read sends its
frames (`frames`), looks at lease and schedule (`tick`) and sends an event
(`event`). A frame of a schedule is "sent" when the event for it is made, for
there is no bus. A socket that blocks for 30 ms in the send of an answer is taken
for the end of a read, as in the code. It differs from the firmware where the
contract does not look: it answers a wrong session instead of closing, starts
without a configuration, takes a HELLO twice, and never makes an event that says
anything but "completed".

### The PC client

`Client.tla` has three threads and their program counters: the application's
(`user`), `heartbeat` and `reader`. `request_lock` and `io_lock` are taken and
released as in the code; `Client.lock`, which only guards single dictionary
operations, is atomicity of those. `close()` is three steps (`BeginClose`,
`CloseSocket`, `Join`) and returns to where its caller goes on. The device
executes what it gets in order, answers, is silent, sends events or is gone.

### The recording

`Recorder.tla` is `recording.py`: the file has complete `lines` and a `buffer`
that a failed write leaves behind, part of which the next write or the close may
still write. Nothing is synced, so `Disk` is what a loss of power may leave of
it: any number of its lines and perhaps part of another. `read_recording` and
`export_csv` are operators on such an image, so that a property can ask at every
moment what would be read back.

`Recording.tla` has the worker of `monitor()`, the recorder and the thread of
`run()` that ends both: STOP, the drain of at most a second (`Drain` may go on
with a full queue), the join of at most two (`Join` may give up), the
`disconnect` record, the close. The client is only what they see of it: frames
that arrive, with holes or not, a queue that overflows, a close at any time.

`Tables.tla` has the tables of the monitor and of playback (`Monitor.add`) as
operators, and beside them what they should show, from the whole history
(`History`): the trace and the keys seen last, a row counting the frames of its
key since that key was last forgotten. `Tables` is the tables after each frame, a
function that is defined by recursion, as is `Rows` of `Recorder`, the rows of an
export after each record.

### Send

`Send.tla` is `run()` of `wcan send` and the requests it makes: CONFIGURE, the
creation of the file, START, the intent, TX, the acceptance, the loop that waits
for a final event, and the finally clause with STOP, the `disconnect` record and
the close. The inside of the client is in `Client`; here it may be closed by its
own threads at any time (`Lost`), a deadline may pass at any time, every write
may fail and the user may interrupt between any two steps. The device is any
that keeps `DeviceContract`, with any numbers of connections, ids and frames,
restricted by what a request means to it (`Meant`): a TX asks for the frames of
the command line, and a STOP that takes effect stops. `Truth` is what the file
ought to say: metadata, intent, acceptance, then the events the device has told.
`Body` is a file without the `disconnect` record that may end it.

### The network

`WifiRules.tla` has the rules of the settings twice, as the PC states them
(`Permitted`, `provisioning`) and as the device does (`wifi_saved_validate`,
`wifi_payload_parse`); a text is its length. `Network.tla` composes them with
`network.c`: `network_init()` by its steps, the event callback, the WIFI command
of the server, the recovery thread with its button and its reconnections. A
reboot and a loss of power (`Reset`) leave only the flash. `asked` is a history
variable: the settings a user asked for last. That capture stops before a save
or a reconnection is in `Session`.

### The codec

`Frames.tla` has the rules of frames and transmit requests on both sides:
`Frame.__post_init__`, `tx_wire` and `decode_frames` of the PC, `w_validate`,
the TX command and `rx` of the device. Data are their number of bytes, flags a
set. `Wire.tla` puts packets into a stream of bytes that is cut anywhere, and
takes them out again, with the input buffer of `serve` or with `Parser.feed`;
the deadline of an incomplete packet is there, too. A turn of the server's loop
takes up to `Turn`: time passes in the answers to the packets it finds (`Parse`)
and in what it sends and polls before it receives again (`Receive`, `Poll`);
`spent` is what of it has passed. Two variables are history: `waited` is how long
the first byte in the buffer has been there, and `given` is how many of the parsed
packets the receiver has acted upon: the server does so at once, `feed` hands them
over at its end, and not at all when it raises at a later header. What a packet means is tied to
`Frames` by two assumptions on the constants: a request means what the TX
command makes of the payload that `tx_wire` built, or is refused
(`RequestAssumption`), and a batch means the frames of the bus
(`BatchAssumption`).

## 3. What TLC checks

All runs but the three of section 6 pass. Deadlock is checked where the
component runs for ever, and is not in `Session`, where the device reboots and
connections are bounded, `Simulator`, for the latter reason, `Client`,
`Recording` and `Send`, where all threads end, and `Wire`, where the connection
does. Every module has a `TypeOK`; it is an invariant of the run `capture`, and
elsewhere it documents the state.

| Run | Instance | Question |
|---|---|---|
| `capture` | one command of 1..3 frames, cycle times 0 and 2, lease 2, deadline 1, preemption up to 1, event queue of 1 | Do the events tell the truth about the bus? Who transmits, under which lease, how fast? Has every schedule exactly one end, and is every event accounted for? Does every schedule end? Is `CaptureContract` implemented? |
| `rx_stream` | queue of 2, batch of 2, 4 frames, PC queue of 1 packet | Is every frame waiting, sent or counted as lost, in order, within its connection? Is a status sound? Is the gap count the truth? Can a recording go on with a hole that nobody saw? Is a waiting frame served? |
| `session` | two connections, 4 ids on the first and 2 on the second, every packet, commands of 2 frames, event queue of 1 | Is a repeated packet answered as it was, and nothing else? Is every event accounted for? Is `DeviceContract` implemented: once, by the owner, true, in order? |
| `simulator` | the same clients, one frame made up | Is `DeviceContract` implemented, and a repeated packet answered as it was, and nothing else? Does a schedule end under a client that never stops sending? |
| `send` | two frames, with and without a recording | Is a success true? Is the intent on file before the bus sees a frame? Is the file true, whatever is lost of it? Does the run end, with nothing scheduled? |
| `session_config` | violated | see section 6 |
| `client` | 3 ids, PC queue of 1, 1 packet under way | Is the socket used by one thread at a time and by none when closed? Are ids in order, and is a request in doubt the last? Do all threads end? |
| `client_failure` | violated | see section 6 |
| `recording` | 4 sequence numbers, PC queue of 2 packets, tables of 2 rows | Are the frames that any image of the file gives back the first that arrived, with each hole announced, whatever fails? Is a run that reports success complete, and a file that was cut afterwards not taken for whole? Do the tables show what was received? |
| `network` | an access point and a station on each band, both payload formats, payloads to refuse, one failed save, 2 units of time for the button and for a retry | Does the device run with what was asked for last? Does the radio keep to its band? Does the button work? |
| `network_failure` | violated | see section 6 |
| `wire` | header of 2 bytes, payloads of 0, 1, 2 and 3, 3 packets, a deadline of 1, a turn of 1 | Do packets come out whole and in order, with their meaning? Is there always room for the rest of one? Does an incomplete one expire, not too early and not too late? |

Why the bounds are enough. Queues of one or two overflow, wrap and are purged half
full; a second command, connection or batch is what an effect of the first must
reach, and no code looks back further: the core keeps one schedule, the server one
cached answer and one high-water id, the tracker one last sequence. In `capture`
three frames are a first, a middle and a last one; that a second command finds
nothing of the first is proved for any number of commands (`ExactlyOneVerdict`,
`EventsAccounted`, `Refinement`). The lease and the deadline are longer than, and
as long as, a preempted tick. In `session` and `simulator` four ids are HELLO,
CONFIGURE, START and TX, all a transmission needs; the second connection uses the
first two of them again, while the schedule and the events of the first may still
be there. In `send` two frames have an event that is not final, one that is, and
an end between them. In `client` three ids are the HELLO and two requests that the
two requesting threads compete for. In `recording` four numbers are enough for a
hole, a frame in the worker's hands, one in the queue and one that comes late,
and, with three keys, for tables of two rows to forget a key that came twice. In
`network` the button and the retry each have a time before and at their limit, and
one failed save is one of the server or one of the recovery. `send` makes one
connection with four ids (CONFIGURE, START, TX and STOP; the HELLO belongs to the
connection here) and one TX of two frames, all it ever asks. In `wire` three
packets are one that is parsed, one in pieces behind it and one still in the
connection, and the buffer has room for two headers; a turn may take as long as the
deadline. `Turn` is no number of the code but exists: a turn answers the packets of
one buffer, and sends one batch, one status and the events that are queued or
arise meanwhile, which a lease of 3 s without a new packet ends; each send gives up after
750 ms and the second of the socket's own timeout. The bounds are `MaxCount`,
`MaxLag`, `MaxSequence`, `MaxConnections`, `MaxId`, `MaxRequest`, `Count`,
`Buffered`, `MaxFailures`, `MaxPackets` and the sets of requests and intervals.
`MaxCount` and `MaxId` are limits of the code, with other values. Events and time
are not bounded otherwise: time is relative, and the number of events follows from
that of the frames.

Fairness. `Capture`: the scheduler thread keeps waking and time passes (`WF` of
`scheduler_tick` and of `Advance`); it is an endless loop with a sleep of 2 ms.
Nothing is assumed of the controller, the server or the client. `RxStream`: the
server goes on with its own steps (`Server`); its sends time out, its poll does.
It is not assumed that the client falls silent: each turn of the outer loop
receives once, so the packets it answers before it goes on to the queues are those
of one buffer. `Network`: the main thread and the recovery thread are scheduled
and time passes; nothing is assumed of the button, the radio, the client and the
supply. `Client`: the reader, the heartbeat and each requesting thread are
scheduled; locks are not fair. `Simulator`: its thread runs (`WF` of its own
steps); since it reads at most 4096 bytes before it looks at the schedule, the end
of a read and a frame that is due are not put off for ever (`SF` of `Quiet` and
`Due`). `Send`: the program goes on (`WF` of `Program`; its waits all have a
deadline), and a device notices a connection that was closed (`WF` of
`DeviceNotices`: a receive fails at once, and 3 s without a command end the
connection anyway, `main.c:137`). The reader and the device need no fairness: a
run that waits for them in vain gives up.

## 4. What is proved

`CaptureProofs.tla` proves for every number of requests, frames, events and
every timing, from the assumptions of `Capture` on its constants:

- `Invariance`: `IInv` is an inductive invariant;
- `TypeCorrect`, `EventsAreHonest`, `ExactlyOneVerdict`, `EventsAccounted`,
  `Permission`: the five state properties of the runs;
- `LeaseGuardsSends`, `SendsArePaced`: the two action properties.

The state properties alone are not inductive. `OutcomeExact` speaks of events
already raised; that a new event is true needs to know what the core knows about
the bus. `IInv` adds it: `Flight` relates the frame in flight, the controller
and the completion flag (busy only if in flight, a completion only of a frame
that has left the controller); `Books` says that the frames asked for are those
remaining, completed and in flight, and that the bus is ahead of the reports by
at most the frame in flight; `Mode` ties the permission to the controller's mode
and the pin; `Lease` and `Pace` bound the timers by the history of the last
send; `Record` says that events are of accepted commands only and that an open
schedule has no verdict yet. TLC checked `IInv` as an invariant before it was
proved. The proof goes action by action; `EventStep` says once what an event
does to the queue and the record, and the step lemmas cite it.

`Refinement` proves `Spec => ImplementsContract` from the same invariant: every
step of the core is a step of the contract or leaves its variables alone.

`AgreementProofs.tla` is about what the PC and the device must agree on. It
extends `Network` and `Wire`, whose names are kept apart (`NetworkInit`,
`NetworkNext`, `NetworkSpec`). Of the network it has two results. `RulesAgree`,
for every set of country codes and every argument: the PC refuses exactly what the device would, and the
settings the device takes from a payload are those the user meant. The prover
follows `provisioning` through `wifi_payload_parse` in the four cases of mode
and band. With it, `SettingsAreKept` and `BandAsSaved` hold for every set of
clients of this library, together with payloads of any origin that the device
refuses, and all earlier settings that are valid. `NetworkInv` strengthens them by
what is stored (it is valid and what was asked for, and a request between check
and save means what it says), by the start (the recovery thread waits until
`network_init()` has ended, the radio is marked ready only once it is set) and
by the radio (its band is that of the settings as soon as it is marked).

`RxProofs.tla` follows a frame from the callback to the gap count of the user,
for every depth, batch size, PC queue and number of frames (`NothingVanishes`,
`OrderKept`, `StatusConsistent`, `GapsAreLosses`, `NoSilentLoss`). Two
invariants, one for each end. `QueueInv` adds to the properties that all frames
sent, in the batch and in the queue are in this order (`Ordered`), that the
counters are the cardinalities of the sets they stand for (`Accounts`), where the
server has nothing in hand (`Where`), and that a half-read status is already
sound for the fill the queue has now (`Reported`): the counters may move on
between `Snapshot` and `ReadUsed`, but only so that the inequality stays true.
`StreamInv` adds the order through connection, PC queue, packet and tracker
(`Flow`), and that what a client has is all that was sent on this connection up
to there (`Complete`), because a packet that is lost has closed the client, and all
that follows is lost with it. Then a hole between two observed frames can only be a loss
the device has counted, and `Tracker` says that `gaps` has counted every one.

`ClientProofs.tla` proves `NobodyLosesTheSocket`, `IdsIncrease` and
`DoubtIsLast` for every number of ids and every capacity. None of the three is
inductive: they speak of the socket and the ids, but what keeps them is where
the threads are. `ClientInv` says that a lock is held exactly by the thread
whose program counter is inside its block (`Held`), that a close of the socket
comes after the flag and never while a thread uses it (`Socket`), that the
holder of `request_lock` has the newest id (`Newest`), and that a doubt has
closed the client before anybody else may send (`Doubt`).

`SessionProofs.tla` and `SimulatorProofs.tla` prove for any number of
connections, ids and frames, and for every packet a client can send, that a
cached answer is given to a repetition of the packet it answers, and to nothing
else (`OneAnswer`), in the
firmware also that no event vanishes (`NoEventVanishes`), and that each of the
two implements `DeviceContract` (`FirmwareImplementsDevice`,
`SimulatorImplementsDevice`). The refinement goes action by action: a step is one
of the contract under the mapping, or changes nothing that a client sees. What
each such step needs is in `SessionInv` and `SimulatorInv`: nothing is known of
requests above the newest (`Unused`), or the next one would not be new to the
contract; the cache belongs to the newest, and the newest is in the cache (`Caching`,
`Latest`, `Replying`); an accepted
request has been answered before its event is sent (`Answered`), since the
answer and the events leave through the same thread; the open schedule is of this
connection, with the bus at most one frame ahead of the reports (`Scheduled`); and
the events in the queue and in the server's hands are true, of this connection
and in order after those told (`Events`, `Reporting`). In the session the core
is any that keeps `CaptureContract`, so with `Refinement` of the capture core
the chain from the interrupt to the client is proved.

Of the codec `AgreementProofs.tla` first proves for all frames, intervals and
counts that the device accepts a request exactly when `tx_wire` encodes it, with the same frame
(`RequestsAgree`), and that whatever the controller can receive is decoded
without an exception (`FramesDecode`); the numbers are those of the code. Then the
stream, for every size of header, payload and buffer and any number of packets:
they come out whole, in order and with their meaning (`PacketsComeWhole`), the
server never polls into a full buffer (`AlwaysRoom`), and a packet that is not
complete does not expire before its time and does not stay for more than two turns
of the loop beyond it (`IncompleteOnesExpire`), which is what the code allows:
`partial_since` is set after the answers to the packets that came with the first
bytes, and after the look at it the sends of the turn come before the next receive. `WireInv` says
of the bytes in buffer and connection together that they are the packets not yet
parsed, each in one piece and one after the other (`Streamed`), without reference
to the recursive function that laid them out, so that cutting a packet off its
front is a matter of arithmetic; that the receiver polls only after it has
looked at what it has (`Looked`) and acted upon it (`ActedUpon`), and that the
first byte has waited at most a turn longer than `partial_since` says, which is at
most a turn older than at the last look (`Timely`).

`SendProofs.tla` begins with the contract itself: in whatever keeps
`DeviceContract`, a request is executed at most once, no more frames are sent
than it asked for, and a final event that claims to know what was sent stays
true, because nothing of a transmission is sent after its end was told
(`ClientsAreToldTheTruth`). `Origins` adds that nothing is asked for or scheduled
of a request that was not executed, so that a new schedule is never one whose end
was told. By the two refinements this holds of the firmware and of the simulator.

Over any such device it proves what `wcan send` promises: the intent is in the
file before the bus sees a frame (`IntentComesFirst`), a file that is cut off
anywhere is a beginning of what the device said (`RecordsAreTrue`), and a run
that ends without an error has sent the frames asked for, with a complete file
(`SuccessMeansSent`). `SendInv` has four ideas. The file and the part a write
left in the buffer are one text, `Text`, that only grows, line by line along
`Truth` (`Faithful`); whatever a loss of power leaves is a prefix of it. The
intent is noted from the moment TX may be sent (`Asked`). All answers on their
way are the device's (`Replies`), so that "accepted" in the program means that
the transmission was accepted. And the events that were told, those in the queue
of the client and those on the wire are one sequence (`Flow`), which the
program's place and the length of the file keep step with (`Reading`); when it
leaves the loop without an exception it has seen the last of them, and that says
"completed" (`Done`). The run checks the three properties themselves; the
invariant is existential in `Flow` and left to the prover.

`RecordingProofs.tla` proves the four properties of the run `recording` for every
number of frames and every size of the queue and of the tables. `FileIsFaithful`:
whatever is left of the file gives back the first frames that arrived, in order,
with each hole announced. `SuccessHoldsAll` and `LossShows`: a run that reports
success leaves a file that has all that was queued when the queue was seen empty,
in which no write failed and in whose last record a loss can be seen. Its `IInv`
follows the frames, as `Text`, the file with what a failed write left in the
buffer, only grows:

- `Whole`: until the worker fails, the frames of `Text`, of what the worker has in
  its hands and of the queue are together those that arrived; this is what makes
  every image a beginning of `arrived`, and what makes the drain safe although the
  worker holds a packet when the queue is seen empty;
- `Announced` and `Expected`: a frame in the text follows the one before it or its
  gap; what the worker is about to write fits the last frame of the text, but for
  a `disconnect` of a run that gave up (`LastIs`);
- `Ordered` and `Places`: numbers in the queue are new and increase; where the
  flags of the worker say it is;
- `Failures`: only the worker that fails and the `disconnect` of a run that is
  raising can have failed to write, so that a buffer is never longer than two, and
  a run that succeeds has an empty one;
- `Ends` and `Ended`: what the other thread knows of the worker when it goes on,
  and that the last record of a run that succeeds is its only `disconnect`.

TLC checked `IInv` as an invariant before it was proved. A `disconnect` may come
between the frames: a run that waited two seconds in vain for its worker writes it,
and the worker, still alive, may write after it. So `Follows` skips a `disconnect`
where it looks for the gap.

`TablesAreHistory` is not about a state machine: after any frames with keys of any
set, what `Monitor.add` has made of its two tables frame by frame is what a look
at the whole history says (`History`). The argument is an induction over the
frames. After n of them `InTable` gives for each row the frame it is of: the
frames increase, their keys did not come again (`Latest`), and the number of
different keys that came after the frame of row j is the number of rows behind j.
So the first row of a full table is the one that `Limit` - 1 keys followed, and
it is dropped exactly when another key makes them `Limit` (`TakesPlace`), while a
frame whose key is known takes the place of that row and moves to the end, without
changing what the rows before it have counted. `BeforeNext` does the same for the
count and the interval of a row. `LatestOfHistory` applies this to what a run
leaves on the disk.

An induction over data is had here without the induction theorems of the library,
whose operator parameter no installed prover can instantiate. A set of naturals
has a least element (`Least`, from the theorem that `<` is well-founded on them),
so a *set* that contains 0 and with n also n + 1 has them all (`Induction`), and
a function that is defined by recursion exists (`Recursion`). With that,
`RowsDefined` and `TablesDefined` say what the recursive functions of the model
are at each index, and the rest is first-order.

Only model-checked are the liveness properties, which are beyond this prover:
`ScheduleEnds` of the simulator and of the core, `LeaseEnforced` of the core,
`EveryFrameServed`, `EndsOnceClosed`, `EndsStopped` and `RecoveryAvailable`.
Every safety property of a passing run, state invariant, action property or
refinement, is a theorem.

## 5. What is not modelled

- Bit timing arithmetic of `capture_configure`: it succeeds or fails.
- In `Session` and `RxQueue`, the deadlines of 2 s and 3 s of `serve`: `Drop`
  and `Disconnect` may happen at any time. The first of them is in `Wire`.
- In `Client`, an interrupt by the user: a Ctrl-C during the wait of a request,
  which `request()` does not catch (`client.py:133`), leaves a request in doubt on
  an open client. `Send`, which has the one program that would go on, has the
  interrupt between any two steps. `active` is there as a guard of TX, without a
  property of its own.
- In `Network`, a read of the button that fails: the pin is one of the chip.
- TLS, sockets, the Zephyr CAN and Wi-Fi drivers, the settings storage: external,
  as the code uses them. A save is there after a loss of power or fails; the
  comment at `capture.c:67` is taken at its word: a stopped controller holds no
  frame. `capture_init` has succeeded.
- The encoding of numbers in bytes, payload data, texts: values and lengths.
- The records of a file are their types and numbers: that the reader refuses a
  record of another format, an oversize line or an illegal frame is not there.
  The capacity of Python's own buffers is not reached by the two records that a
  run may leave in them.
- `first` in `Monitor` keeps the times of 16 sessions; a client refuses a change of
  session within a connection and a recording is of one, so there is only ever one.
- `DisplayFilter` is a predicate on one frame without a state, `Decoder` calls a
  library; `AdapterQueue` and `DiagnosticAdapter` are offered to other programs and
  have no caller here.
- The commands `info`, `wifi` and `configure` make one request, which is in
  `Client` and `Network`; arguments, rendering and discovery are presentation.
- DBC decoding (`dbc.py`), `tools/provision.py`, the diagrams: calls into
  libraries and external programs, sequential and without a state of their own.
- The test suite's fakes and the build files: read for what the code intends.
- How many milliseconds a schedule may drift. `send` allows five seconds more than
  `count` times `interval` (`cli.py:452`), while the device sets each frame from
  the tick that sent the last one, every 2 ms or later: a legal command of 10000
  frames at 10 ms may take 20 s longer than that, and `send` would then stop it and
  report it as indeterminate. In `Send` the deadline may pass at any time, so the
  properties hold of such a run.

## 6. Where the code and its documents part

Three runs check a sentence of the documents or of a comment and find it
violated.

- `session_config`: "Invalid configuration leaves START disabled until a valid
  configuration is applied" (`docs/protocol.md:39`). A malformed CONFIGURE
  (wrong length, flag above 1) is rejected at `main.c:68` before
  `capture_configure()` is called; the configuration before it stays applied.
- `client_failure`: the last record of a recording has the "local close/error"
  (`docs/recording-format.md:14`). When the PING of the heartbeat times out,
  `request()` has closed the client by the time `client.py:145` looks, so the
  error is dropped and the record says "client closed".
- `network_failure`: "failure remains observable" (`network.c:158`). The request
  to the radio is answered by an event, and a failing one that comes before
  `network.c:156` is overwritten there with the 0 of the request: the device
  shows no error for a radio that is down. An access point stays so; a station
  gets an error only from its next attempt.

Two more are in the actions of `Session` without a run of their own. An
identical immediate duplicate "gets the original response" (`protocol.md:57`),
but that of the HELLO, whose session is 0, closes the connection (`Reject`,
`main.c:162`). A HELLO must have "no payload" (`protocol.md:17`), but one that
has a payload is answered with an error and opens the session (`Execute`,
`main.c:177`).

## 7. Plan

Done: every component of section 1 but the presentation is modelled and checked,
and all safety properties and refinements are proved. What could come next:

1. The hazards that have no property (`PROJECT.json`): a duplicate of the first
   packet, `network_init()` that fails after the radio is ready, the drift of a
   schedule against the deadline of `send`, `active` set after a close. The packets
   before a bad header in one read, which `feed` loses, have none either.
2. `Send` composed with `Client`, instead of with what it may see of the client.
