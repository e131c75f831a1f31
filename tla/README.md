# A TLA+ model of the ITS3 telescope's data acquisition

The repository runs a test-beam telescope: ALPIDE planes, one device under test,
an event builder and a run control, all of them clients of EUDAQ2. This
directory models the parts that carry its logic, checks them with TLC and proves
the main safety properties with TLAPS.

1. [The system](#1-the-system)
2. [The modules](#2-the-modules)
3. [What the runs show](#3-what-the-runs-show)
4. [Fairness](#4-fairness)
5. [What is proved](#5-what-is-proved)
6. [Where code and documents disagree](#6-where-code-and-documents-disagree)
7. [What is not modelled](#7-what-is-not-modelled)
8. [Plan](#8-plan)

## 1. The system

Paths are below `src/`; `core/` is `eudaq2/main/lib/core/`.

| Component | Source | State | Operations |
|---|---|---|---|
| RunControl | `core/src/RunControl.cc` | the last status of every connection, the run number, whether it accepts connections | `Initialise`, `Configure`, `StartRun`, `StopRun`, `Reset`, `Terminate`; a command thread that receives statuses, a status thread that polls |
| Client state machine | `core/src/CommandReceiver.cc`, `Producer.cc`, `DataCollector.cc`, `Monitor.cc` | status, configuration, run number, the future of the RunLoop thread, a queue of commands | one handler for each command, in a forwarding thread; `RunLoop` in a thread of its own |
| Data server | `core/src/DataReceiver.cc`, `DataSender.cc` | connections, a queue of events and markers, two threads and a Deamon | `Listen`, `StopListen`; callbacks `OnConnect`, `OnReceive`, `OnDisconnect` |
| Event builder | `eudaq2/user/ITS3/python/ITS3DataCollector.py` | one queue for each plane, counters | the callbacks of a collector, `BuildAndWrite` |
| ITS3 run control | `eudaq2/user/ITS3/python/ITS3RunControl.py` | statuses and event counts by name, `running`, `halt`, `repeat`, a lock | a loop over configurations, hotkeys, `DoStatus`, `DoConnect`, `DoDisconnect` |
| Transport | `core/src/TransportBase.cc`, `TransportTCP.cc` | connections and sockets, partial packets, a queue of events | `Process`: poll, accept, framing, callback; `SendPacket`, `Close` |
| ALPIDE producer | `eudaq2/user/ITS3/python/ALPIDEProducer.py` | the board with its triggers and data, `is_running`, `triggermode` | `DoInitialise`, `DoConfigure`, `DoStartRun`, `RunLoop`, `DoStopRun`, `DoReset` |
| Merging by trigger | `eudaq2/user/eudet/module/src/TriggerIDSyncDataCollecor.cc` (and, the same, `user/example/module/src/Ex0TgDataCollector.cc`) | a queue for each connection, the inactive ones | `DoConnect`, `DoDisconnect`, `DoReceive`, `DoReset` |
| Log collection | `core/src/Log*.cc` | connections, a file | receive and write |
| Board software | `alpide-daq-software/` | registers of a board | read and write over USB, decoding |
| Launcher, utilities | `RUNCONTROL/` | none | start the processes in tmux, read raw files |

How they interact. RunControl sends commands over one TCP connection to each
client and reads statuses back; nothing else tells it what a client is doing.
Each command is a queue entry for the client's forwarding thread, which answers
every command with a status. At a START, producers open data connections to
collectors, and collectors to monitors, at the addresses that RunControl handed
out with CONFIG. Over these, events go to a DataReceiver, whose forwarding
thread calls the event builder. All of these connections are sockets of a
TCPServer, which cuts the bytes that come into packets. The planes are in step
because their boards are: each is triggered by the chain of boards, and one busy
board keeps all from being triggered. The ITS3 run control sits on top of
RunControl and is what the shifter sees.

What is hard about it, and the property each part lives by:

- RunControl decides from statuses that are old by the time they are read. A
  START of an earlier call may still be in the queue of a client that looks
  configured. It must nevertheless start no producer before the servers are up
  (`ServersUpFirst`), stop every server that runs (`NoServerOverlooked`), and keep a
  connection on record until its last word (`OnRecord`).
- The ITS3 run control knows its replicas by those same statuses, one at a time. It
  must move them together (`CycleSpec`, `Settled`), in one run (`OneRun`), and stop the
  producers before the collectors (`DocStopOrder`).
- A handler may throw in the middle, with an exception that is caught or one
  that is not; a RunLoop may throw, or not return; a process may end. What each
  of them leaves behind is found by the next command. Calls must return when
  nothing fails (`CallsReturn`).
- Four threads share a DataReceiver, and three plain flags, two condition
  variables and a mutex are all that orders them. One run must not see the
  events of the last one (`CleanSlate`), a connection is announced first and
  once (`HailedFirst`, `StreamSpec`), and stopping must end (`StopListenEnds`,
  `ListenAnswers`).
- Packets come in pieces, from sockets whose numbers are used again. They must
  come out whole, in order and under the right name (`ChannelSpec`,
  `SocketsMatch`, `StraysAreStale`), all of them (`EverythingHeard`).
- A board keeps its data when a run, or a process, ends. The n-th event of a run
  must be of its n-th trigger on every plane (`RunsSpec`), so nothing may be left
  at its start (`NoLeftovers`), and reading out what remains must end
  (`Answered`).
- The event builder puts events together by their position in queues. The n-th
  of each plane must meet (`InStep`), at once (`NothingHeldBack`), and only
  within a run (`BuildingSpec`). The one that merges by trigger number keeps its
  queues from run to run, and must still not mix (`MergingSpec`, `Together`,
  `NothingRemains`).

The full list of what can go wrong, with lines, is `hazards` in PROJECT.json.

## 2. The modules

```
EudaqControl <------- ITS3RunControl         RunControl, its clients, and who calls it
                          v
                      RunCycle               what that is to the replicas
DataReceiver -------> EventStream            a data server implements an event stream,
                          ^                  on which the event builders stand
    ITS3DataCollector ----+---- TriggerIDSyncDataCollector
          v                               v
    EventBuilding                   TriggerMerging
TransportTCP -------> PacketChannel          below all of them
ALPIDETelescope ----> TriggeredRuns          the planes and their boards
```

An arrow down or to the right is a refinement, one up or to the left EXTENDS. `XInv`
holds the inductive invariant of a module X (`TriggerIDSyncInv` and `MCTriggerSync` go with
TriggerIDSyncDataCollector), `X_proofs` its theorems (for EudaqControl in two
modules), and `MCX` the model values of its configurations.

**EudaqControl** is RunControl together with its clients. An element of
`Clients` is one connection, so that a process started again is another element.
`view` is `m_conn_status`, `cmdq` and `statq` are the two directions of a
connection (a socket and `m_qu_cmd` in one), `st` is the client's own status,
`hpc` where its forwarding thread is, `loop` and `flag` its RunLoop future and
`m_is_runlooping`, `lis` and `link` its data server and data connections. The
user's calls are actions; `StartRun` and `StopRun` are long, and become one
action for each group of sends and each wait (`rcpc`, `todo`, `cur`). `Initialise` and
`Configure` choose their clients under `m_mtx_conn` and look at them again later, one
at a time, so that they have phases of their own: a client that has moved on
meanwhile is passed over by the one (`InitialiseSingleConnection`) and sent its CONFIG
all the same by the other. `addrs` is what `m_conf` says of the servers; a Configure
without a ReadConfigureFile before it adds to that of the last one (`ConfigureWith`). Handlers
are atomic up to the point where another thread can matter: START is split where
the RunLoop thread is launched, STOP and RESET where it is waited for. A handler
fails either by its state check, or, for members of `Faulty`, at any call of user
code. `SetStatus` and the `SendStatus` that follows are one step (`Report`); what may
come between them, a RunLoop that throws, overwrites the status just sent as long as
nobody has read it (`LoopThrows`). A null status (RunControl.cc:73, 127, 510-518) is a
state of its own, `segv`.
A STATUS poll of a client outside `Polled` is left out when its answer would
repeat what is displayed, which changes nothing; so are the "Stopping ..."
statuses of a RunLoop that takes its time.

**EudaqControlInv** holds the inductive invariants, see section 5. `Inductive` and
`Parting` are proved and not part of a run; both hold on the instance of
control_faulty when they are added to its INVARIANTS.

**ITS3RunControl** extends EudaqControl by the program that makes its calls. It is
the composition of the two: every action of EudaqControl is an action here, with
a guard more, or a part of one. The user's thread is `userlogic_runner_`: `user`
says where it is, `goal` what `wait_replicas` waits for, `left` which replicas its
round has still to look at. `status` is `self.status`, what `DoStatus` saw, which
is one step behind `view`. A callback is three steps, the call, with `m_mtx_conn`
held (`cb`, `ConnsFree`), its `with self.lock` (`lock`) and what it waits for the
loop of the user interface to draw (`Draw`). The loop handles one key at a time
(`tui`), and while a handler waits for the lock it draws nothing. `EnoughEvents`
may happen in any run at any time: the counts behind it are not modelled. R is S,
as there is one configuration file. `late` counts the runs started after `halt`.
A replica is a connection like every client, so that a process which is started
again under its old name is not modelled here.

**RunCycle** is what the ITS3 run control is to its replicas: a barrier at every
state. `stage` is the state all are called to, `at` where each of them is; the next
stage is called for when all are in this one, in ERROR or gone, and a replica comes
along by itself, from the stage before. Of the mapping, `Place` makes one value of
the connection and the status of a client, and `Stage` is `goal`, with one
exception: when a run is stopped because of an error, `goal` stays RUNNING, and it is
`m_listening` that tells. RunControl, its statuses and its threads are not in it.

**DataReceiver** models `Listen` and `StopListen` of the command thread, the
receiving thread by kind of packet, the forwarding thread with each of its
steps between which another thread may run, and the Deamon, whose `get()` blocks
with `m_mx_deamon` held (`dm`). Futures are `rcv` and `fwd`: none, running, ended
or ended by an exception. The DataSender at the other end is `phase`. The limit
of `m_qu_ev` is the constant `Cap`, looked at where the code looks at it, when an
event comes and not when a marker does. A marker carries no meaning of its own,
as in the code: `state` at the time it is taken decides.

**EventStream** is what a DataReceiver promises the code on top of it. The
refinement mapping is the identity on the variables they share.

**ITS3DataCollector** extends EventStream, which `DataReceiver` implements, and
so stands on a specification of the receiver rather than on the receiver. It
models `DoStartRun`, `DoStopRun`, `DoStatus`, `DoConnect`, `DoDisconnect`,
`DoReceive` and `BuildAndWrite`, with the two exceptions that end a thread: a
KeyError for data without a queue, and a dictionary that changes size while
`DoStatus` iterates over it. Producers connect after `DoStartRun` because
RunControl starts them last, which is `ServersUpFirst`. `used` is the last event
of a connection in a global event. `regular` says that the telescope was
complete when the first data came, that none left and that nothing was lost.

**EventBuilding** is what an event building collector promises: each event in
one global event at most, in order, and of its own run.

**TransportTCP** is TCPServer with the thread that calls `Process`, and the
clients at the other ends. Bytes are modelled as bytes: `stream` is what a client
has written, `taken` how much of it was received, in pieces of any of the sizes
`Pieces`, `buf` and `len` are `m_buf` and `m_len`. A client may leave in the middle
of a packet. `sock` is what the system knows of each number, `conn` and `fd` what
TCPServer does; `Close` and `SendPacket` find connections by the number, as
`Matches` does. Sockets are read in the order of their numbers, after one
connection was accepted. `events` is `m_events`; that the callback is called
outside the lock of the poll makes no difference to it, as both are steps of the
same thread. `Greet` to `CallbackThrows` are what RunControl and LogCollector do
with the transport in their callbacks, `SendCommand` what other threads do.

**PacketChannel** is what a callback may rely on, and what the other modules take
for granted of a connection.

**ALPIDETelescope** is all planes with their boards. `fifo` is the data a board
holds, `forced` the bit of `trg.ctrl` that makes it busy, and both outlive the
process. `Trigger` is the chain of boards, which is not in the repository: a
trigger comes if no board is busy, and a board that holds `Depth` events is. The
handlers of the producer are split where another thread, or a trigger, can come
between: in DoConfigure before purge_events, in DoStartRun after armtrigger, in
DoStopRun and DoReset after stoptrigger. Any of them may throw, before or after
the board took its command. `RunLoop` is split at each read and each event.
RunControl is as in EudaqControl, but makes a call only when all earlier commands
were answered, which ITS3RunControl sees to (`Settled`), and starts a run only
with all planes.

**TriggeredRuns** is what the planes promise the event builder: the n-th data
event of a plane is of the n-th trigger of the run. Together with `InStep` of
ITS3DataCollector it says that the events that are written together belong
together.

**TriggerIDSyncDataCollector** extends EventStream as ITS3DataCollector does.
`Merge` is DoReceive from line 76 on, `Write` the packet and the inactive
connections that are forgotten with it. `tidy` says that every connection so far
was told to come and to go, `regular` that nothing of the run was lost and that
all came before its first event. **TriggerMerging** is what holds without either.

MC modules only name the model values of the configurations. Definitions
commented as mutants are faulty variants of the definition that follows them;
nothing refers to them, and each property fails when one takes its place.

## 3. What the runs show

| Run | Configuration | What it asks |
|---|---|---|
| control_faulty | a producer (the first to stop), a monitor, and a collector that may fail in every way; 4 calls | whether any sequence of calls, with statuses as late as they like, starts a producer early or overlooks a server, also with exceptions, hanging loops and crashes; whether a status or a null status is ever that of a connection it should not be; types |
| control_live | a collector and the producer that starts last; 5 calls | whether every call returns |
| control_hang | a monitor and a collector, no faults | finding, section 6 |
| run_control | a faulty producer and a collector under the ITS3 loop; 8 calls, one key | whether the replicas really are where `wait_replicas` waited for, whether they go through RunCycle together and in the same run, the order of STOPs, whether T ends the series |
| run_control_keys | one producer, no faults, one key | finding, section 6 |
| receiver | two connections with an event each, one of them rude; callbacks throw and hang; 3 calls | types, the clean slate, announcements and farewells, also as two connections get in each other's way |
| receiver_live | one connection with 3 events, a queue of 2, callbacks throw; 5 calls | the stream: events in order, none twice, none of another run, and the inductive invariant behind it; whether Listen and StopListen return |
| receiver_hang | one connection | finding, section 6 |
| collector | three planes and a connection that is none; two runs | in step, nothing held back, the promise of event building |
| transport | two connections over two socket numbers, packets of 0 and 1 byte in pieces of 4 or more | the packet channel, the table of sockets, that everything is heard, the inductive invariant |
| telescope | a sound plane and a faulty primary; boards of two events in any state; 2 runs; 3 triggers that are told apart, or any number that are not | the n-th event is of the n-th trigger, nothing left over, the inductive invariant; whether commands are answered, calls return and the drain of a RunLoop ends although triggers may come for ever; deadlock |
| trigger_sync | three connections, one without events, one with an event without a trigger; 2 runs | packets of one trigger, in order, complete, nothing remaining, the inductive invariant |

`DocStopOrder` holds of the composition only: RunControl as such does not keep it
(section 6), and under the ITS3 loop, which calls StopRun only when all replicas
have been seen running, it holds (`run_control`), if all producers are replicas: with
that premise it is a theorem.

Bounds, and why they do. `MaxRun = 1` gives two run numbers, enough for a START
of the wrong one. `MaxCalls` of 4 reaches Initialise, Configure, StartRun and
StopRun, or a second StartRun in place of the StopRun; 5 adds the StartRun after
a StopRun. Neither Initialise nor Configure is the last of them (`Preparation`): what
they do wrong shows in the calls they prepare. 8 in run_control are two whole runs and Terminate. `MaxQ = 2` leaves room for a command behind another that has not been
looked at, which is what staleness needs, and for two statuses that overtake
nothing. `Cap = 2` is a queue that overflows with markers and events in it.
Order needs more than one event of a connection: `receiver_live` has three, one more
than its queue holds, so that one may be delivered, one lost and one be on the way,
and calls enough for a second run with an event in it; one connection is enough, as
order is that of a connection. It has no rude sender and no hanging callback, with which
liveness does not hold; that these do not disturb the order is a theorem. A step that repeats the last OnReceive would be a
stutter of EventStream, and `StreamSpec` excludes it by a conjunct of its own. The
other properties of the receiver are of markers, which is why `receiver` has two
connections with one event. Above the receiver, `MaxEvents` of 1 or 2 on a connection
is what order and loss need; `MaxRuns = 2`
what leftovers need, and the third plane in the collector's run is there because a
leftover shows only if two planes of the first run are there and a new one comes
in the second. In
transport, the pieces cut a packet of one byte after its length and behind the
next packet's beginning, `Cuts` leave one with nothing, part or all of its length
written, and two numbers for two connections are enough for one to be used again
while a packet for its last owner is on the way. Three triggers in telescope are
a full board and a second run with a trigger. They are counted in order to be told
apart, which `RunsSpec` needs; `Answered` does not, and there must be no end of them,
or the drain would end for want of triggers, whatever DoStopRun does. So each
behaviour is of one of two kinds, which the initial value of `trg` decides: one whose
triggers are recorded, and one where they are not (`Unrecorded`), leave no trace but
the data on the boards, and come as often as the boards let them. None of these bounds is in the theorems of section 5, except that
they are constants there as well, of any value.

Deadlock is not checked in runs whose bound on calls or faults lets the system
stop; there, a state without a step means that the user has gone.
`receiver_live` and `telescope` check it.

## 4. Fairness

`EudaqControl!Fairness` is weak fairness of the user's thread inside a call
(`CallStep`), of the command thread for each connection, and of a client's
forwarding and RunLoop threads: threads that are not blocked, which the operating
system runs. Not assumed: that the user calls anything, that a client connects,
that polls happen, that anything fails.

`ITS3RunControl!UIFairness` is weak fairness of the same threads, the user's now
being `UserLogic`, and strong fairness of `HandleKey`: a handler that waits for
the lock gets it if it is free again and again, which makes the finding a
deadlock and no matter of luck. Not assumed: that a key is pressed, that a run
ever has enough events.

`DataReceiver!Fairness` is weak fairness of the receiving thread's end, the
forwarding thread, the Deamon and `StopListen`, and strong fairness of `Listen`,
which waits for `m_mx_deamon`. The Deamon takes that mutex in every round and
lets it go for 200 ms between rounds (DataReceiver.cc:199-201), so a thread that
waits for it finds it free again and again, for a time a scheduler cannot miss.
Senders, and the coincidence of a timeout with a notification, are not promised.

`TransportTCP!FairSpec` is weak fairness of the one thread that calls `Process`.
Not assumed: that clients connect, send or leave.

`ALPIDETelescope!Fairness` is weak fairness of the waits in StartRun and StopRun, and
of each plane's command thread and RunLoop. Not assumed: calls, triggers, faults,
restarts. In particular no fairness makes a board run empty, and in
the behaviours whose triggers are not recorded nothing else ends these: a board runs
empty because `RunLoop` reads and `stoptrigger` keeps triggers away. If DoStopRun left that out, the drain
could go on for ever (the mutant of `Answered`).

## 5. What is proved

For any sets of clients or connections, any limits and any bounds, from the
assumptions named in the modules (`ClientsAssumption`, `BoundsAssumption`,
`DataReceiverAssumption`, `ITS3DataCollectorAssumption`, `TransportAssumption`,
`TelescopeAssumption`, `TriggerAssumption`):

| Theorem | States |
|---|---|
| `Typing` | `Spec => []TypeOK` of EudaqControl |
| `InductiveInvariant`, `ServersAreUpFirst`, `NoServerIsOverlooked` | `Inductive` and what follows from it |
| `StatusesAreOnRecord` | `OnRecord` |
| `RunControlBelow`, `NoCollectorIsOverlooked`, `UITyping` | every behaviour of the ITS3 run control is one of EudaqControl, so that what is proved of that holds; types |
| `SeriesEnds`, `WaitingSettles` | `HaltIsHeard`, `Settled` |
| `ProducersStopFirst` | `DocStopOrder` under the ITS3 loop, if `Producers \subseteq Replicas` |
| `RunControlIsCycle`, `ReplicasShareTheRun` | ITS3RunControl implements RunCycle; `OneRun` |
| `ReceiverTyping`, `ReceiverInvariant`, `SlateIsClean` | types, `ReceiverInv`, `CleanSlate` |
| `HailedOnce`, `ReceiverImplementsStream` | `HailInv`; DataReceiver implements EventStream, and each OnReceive is of a later event |
| `FarewellIsOwed`, `HailComesFirst` | `FarewellWaits`, `HailedFirst` |
| `CollectorTyping`, `CollectorInvariant` | types, and what the queues hold |
| `PlanesAreInStep`, `NothingIsHeldBack`, `CollectorImplementsBuilding` | `InStep`, `NothingHeldBack`, `BuildingSpec` |
| TransportTCP: `Typing`, `TransportInvariant`, `Matched`, `Strays` | types, `TransportInv`, `SocketsMatch`, `StraysAreStale` |
| `ImplementsChannel` | TransportTCP implements PacketChannel |
| `TelescopeTyping`, `TelescopeInvariant`, `NothingIsLeft` | types, `TelescopeInv`, `NoLeftovers` |
| `TelescopeImplementsRuns` | ALPIDETelescope implements TriggeredRuns |
| `MergerTyping`, `MergerInvariant`, `TriggersTogether`, `SlateIsClean` (of TriggerIDSync_proofs) | types, `MergerInv`, `Together`, `NothingRemains` |
| `MergerImplementsMerging` | TriggerIDSyncDataCollector implements TriggerMerging |

*Control.* Neither property of EudaqControl is inductive: they speak of what
RunControl saw last, and a step may bring an old status up. `EudaqControlInv`
reads, for each server, what was last seen, what is on the way and what the
server is now as one sequence, oldest first. For a server nobody waits for, no
START is under way and this sequence never becomes RUNNING again once it is
anything else (`Falls`). For the one that is waited for it may do so once
(`Peaks`), and only through a START of the current run number. A view other than
RUNNING then means that no RUNNING is to come, which is `NoServerOverlooked`; a
view of RUNNING in the wait means that the START of this call was taken, which
is `ServersUpFirst`. Clients may fail in every way of the model; the theorem has
no premise about them. `OnRecord` rests on an invariant of its own, `Parting`: the
goodbye is the last thing under way, it is there only once the client is gone, and
a client that is up, or has anything under way, is on record. A status therefore
never meets `m_conn_status.at` without its entry (RunControl.cc:496), and the null
status that a call may dereference (RunControl.cc:270) is that of a client that
left. That the call then ends the program is not ruled out: it is the phase `segv`.

*Receiver.* An event is sent, then in a packet, then in the queue, then
delivered. `ReceiverInv` says that each of these places holds later events than
the next, in order, and that whatever holds something belongs to the server that
is open. With it every step is one of EventStream or a stutter, and an event that is
taken from the queue is later than the one delivered last. That OnConnect is
called once at most needs a second invariant, `HailInv`: there is one packet with
a name, only that packet makes a marker mean a connect, and the disconnect takes
the state back before its own marker enters the queue.
The other two rest on an invariant each. `FarewellInv`: as long as the queue was not
cut, a connection with a state is one that AsyncForwarding still knows, so a marker
that is used up either keeps it known or was the farewell. `FirstInv`: before its name
is handled a connection has nothing in the queue, and from then on its marker stays in
front of its events.

*Event builder.* The theorem about `InStep` rests on counting: `Nth(c, e)` is how
many of the first e events of c are data, and the i-th entry of a queue is the
(`ndev` + i)-th of its plane. Three lemmas about `Nth` carry it.

*Run control.* `RunControlBelow` goes through the actions of `UINext`: the part of
each that EudaqControl sees is one of its steps, or none. The invariants of
EudaqControl then hold without a word about the user interface. `HaltIsHeard` is
kept by `NoMoreRuns`: once `late` is 1 the user's thread is past StartRun, and the
only way back looks at `halt`.

`Settled` needs to know why a status may be believed that was under way for any
time. `SettledInv` reads, for each replica, what the program was told (`status`), what
RunControl received last, what is under way and what the client is now as one sequence
again. The goal of a wait is not in it when the wait begins, because all replicas are
then where they were for the goal before; it comes in with the one command that leads
there; and at that time no other command is open (`OneOpen`), nor is the call in
progress going to send one (`Unsent`). So from the goal on the sequence is the goal
again and again, or ERROR (`Arrived`), and nothing but polls is to be done. That is what
the round of `wait_replicas` finds for one replica after the other, and what stays true
of those it has passed (`Here`). `StopInv` starts from there: when StopRun is called all
producers are RUNNING or in ERROR with no START open, their statuses fall for good
(`Falls`), and one that StopRun does not wait for any more has been seen to have
stopped.

`SettledInv` is about the goal, which the replicas are on the way to. RunCycle needs
to know as well where they come from, and `CycleInv` says it for each: it is in the
stage or in the one before, every command under way leads to the stage, a START has
the number of the run that is being made, and what its forwarding thread is in the
middle of ends there (`InCycle`). `StageInv` has the calls of RunControl in their
places, so that what a call sends after its first step is for the stage it was made
in. Neither is inductive by itself: a call made while a replica is not where it was
waited for would put two commands on the way, and that it is made only then is
`Settled`. No replica comes late: the first wait, during which RunControl listens, is
for all of them.

*Transport.* `TransportInv` says where each byte of a stream is. `Spells` has the
packets one after the other in the stream, with their ends in `ends`; the buffer
of an open connection is the bytes from the end of the last packet that was
queued to `taken`, and `len` is what they say (`BufferShape`). That the length read
back is the length written is arithmetic, four digits of base 256
(`LengthOfEncoded`), for every length below 2^31, which is what an int can hold.
Since the end of a packet is in the buffer exactly when `HavePacket` says so, the
next event queued is the next packet. The end of a connection is queued when no
byte is left, so it is the last event. `SocketsMatch` is inductive by itself, and
without it bytes would not be known to go to their buffer.

*Telescope.* The argument is `RunShape`: what a plane has sent and what its board
holds, one after the other, are the triggers of the run, as long as its RunLoop
has not failed (if triggers are not recorded, neither is what is sent). A trigger keeps it because no board is busy then, so every plane
has its run going (`ForcedShape`: a plane that waits to be started is busy), and it
goes to all boards. It begins to hold with START, as the boards are empty and the
run has had no trigger (`FreshShape`): the planes not started yet were busy.

*Merging.* Counting the inactive connections is right if they are among the
connected ones, and not all of them (`TidyShape`): then the sizes are equal only
when the last has left. `Together` needs that a queue holds all events after those
that were used (`RegularShape`), so that a trigger that is not at the front of a
queue is not in it behind a higher one.

Only model-checked: `CallsReturn`, `StopListenEnds`, `ListenAnswers`, `EverythingHeard`
and `Answered`, which are liveness and out of the prover's reach.

## 6. Where code and documents disagree

- `control_hang`. StartRun's wait for a collector or monitor has a limit that is
  counted in a variable declared inside the loop (RunControl.cc:221, 238). A
  server that goes to ERROR instead of RUNNING blocks the user for ever.
- `run_control_keys`. The footer offers hotkeys (ITS3RunControl.py:175). `DoStatus`
  waits for the loop of the user interface with `self.lock` held, and the handler of
  a key waits for `self.lock` in that loop (ITS3RunControl.py:65, 286-292). If both
  meet, neither ends, and the command thread holds `m_mtx_conn`.
- `receiver_hang`. A sender that leaves before it is identified ends the receiving
  thread without its flag (DataReceiver.cc:51-52, 119). The Deamon then blocks with
  its mutex, and the next Listen never gets to the check it has for this.

Three more disagreements have no run of their own; what the code does there is in
the models:

- Integration.tex:155 promises that collectors are not sent STOP before all
  producers have stopped. StopRun takes for running what its last statuses say
  (RunControl.cc:310-320), and the producer that starts last is not waited for: if
  StopRun follows at once, that producer is still running when the collectors
  stop. `DocStopOrder` fails of EudaqControl alone, and is proved of ITS3RunControl.
- DataCollector.tex:26 has DoDisconnect called when a connection is expired. One
  whose marker is still queued when a run ends gets none, because the queue is
  thrown away (DataReceiver.cc:227-230). `FarewellWaits` says that this and the
  limit of the queue are the only ways to lose one.
- The comment at TransportBase.hh:189-193 has `Close` close the specified
  connection. TCPServer finds it, and that of `SendPacket`, by the number of its
  socket (TransportTCP.cc:152-158), so that a packet for a connection which has
  gone may reach the one that got its number. `StraysAreStale` says that this
  needs a close before.

## 7. What is not modelled

- RunControl's calls for a single connection (RunControl.cc:145-176, 194-198,
  292-302, 382-392, 402-406), which this telescope does not use.
- The address of the log collector (RunControl.cc:82-97), a configuration file without
  a RunControl section, which Configure answers with an exception (137), and an
  exception of a packet that cannot be sent, which ends the user's call. A packet for
  `ConnectionInfo::ALL` is, in TransportTCP, one for each connection in turn.
- Of a DataReceiver, its destructor, a Listen whose socket cannot be opened (it
  throws before it changes anything) and the value of `m_is_async_rcv_return`
  before the first Listen, which nothing reads.
- Of the event builder, the warning about planes out of sync, with its ten
  seconds of wall-clock time, the counter of status events and the SpillCounter:
  display. An exception in WriteEvent, which DataCollector keeps to itself and turns
  into a status of ERROR (DataCollector.cc:216-221): a global event counts as built
  when it is handed over, and the queues are the same.
- Of the ITS3 run control, a series of more than one configuration file and
  `repeat`, the counts of events, the screen, and an exception in drawing.
- Of the transport, the receiving side of TCPClient, which frames in the same way
  over one socket, `ReceivePacket`, errors of `select` and `accept`, TransportNULL,
  and what two threads write to the same socket at the same time. EudaqControl and
  DataReceiver are not composed with TransportTCP: they take from it what
  PacketChannel says, with the end of a server added.
- Of the planes, `DoStatus`, the registers of the chip, the check of raw data (a
  failed assert is an exception of RunLoop) and self-triggering, which line 68 of
  ALPIDEProducer.py switches off. A read that finds nothing for 100 ms is taken to
  mean that the board is empty (alpidedaqboard.py:357-370): an event that came later
  than that would be left over, and nothing in the code would notice. A process is
  taken to end only while RunControl waits for nobody; the other case ends
  RunControl too (`segv` of EudaqControl). The firmware is external.
- Of the merging collector, its printing and an exception in WriteEvent. That
  numbers increase along a connection is an assumption (`TriggerAssumption`). Nothing
  says that packets come out as fast as they could: an event completes one packet
  at most, and a queue that is empty for good holds all others back, which is what
  the code does.
- The rest of the board software, against hardware that is not here; the decoder.
- Log collection, Python bindings, launcher scripts, offline readers, the
  graphical run control, and the modules of other experiments.

Most lines of the repository are of that last kind: EUDAQ2 is vendored whole, with
the hardware access, converters and monitors of some twenty other experiments
(`eudaq2/legacy`, `eudaq2/user/*` but ITS3), which take no part in this telescope. The
models cover what is left: of `core/src` the files with state and threads, and of
`user/ITS3/python` the run control, the producer and the collector.

## 8. Plan

Done, in this order: EudaqControl, DataReceiver with EventStream,
ITS3DataCollector with EventBuilding, and their proofs; ITS3RunControl with the
proof that it is EudaqControl below, and of its own properties; TransportTCP with
PacketChannel, ALPIDETelescope with TriggeredRuns, TriggerIDSyncDataCollector with
TriggerMerging, and their proofs; RunCycle, and the proof that ITS3RunControl
implements it.

What is left, in this order:

1. The event counts behind the end of a run: status tags survive Configure and
   StartRun (Status.cc:30-34), so a count may be of the run before. `EnoughEvents`
   gets a guard, `DoStatus` two more variables.
2. RunControl's calls for single connections, and log collection, which nothing
   depends on.
3. The merge by time stamp (`Ex0TsDataCollector`), over EventStream as well.
