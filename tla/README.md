# Verification of the UP application and the protocols under it

The repository is a QualNet 7.3 simulator tree with one application added to it, "UP":
a vehicle (a *mobile data collector*, MDC) drives along a path of stops, collects *data
chunks* from data sites over Wi-Fi and TCP, and uploads them to a cloud server through the
access points it passes. The tree holds the UP application itself, the patched BSD TCP it
runs over, the 802.11 MAC that tells it about joins, and the simulator's message and
application layers. This directory models that code in TLA+, checks the models with TLC
and proves theorems about them with TLAPS.

## 1. Inventory

Paths are below `src/qualnet-edu-7.3/`. `app_up.cpp` is
`libraries/user_models/src/app_up.cpp`.

| component | where | state | operations | talks to |
|---|---|---|---|---|
| UP client daemon, MDC role | `app_up.cpp` 1241-3245 | path list, status of each planned task, joined AP, timeout id, count of sessions, list of chunks with "work" and "finish" bits, attempts | handlers of 8 messages (below) | MAC (joins), client and server sessions (reports), mobility model, itself (timers) |
| UP client daemon, data-site role | same handlers, `APP_UP_NODE_DATA_SITE` branches | its list of chunks, attempts | join, delivered, failed | MAC, client sessions |
| UP client session | `app_up.cpp` 66-147, 211-262, 522-757 | connection id, unique id, `sessionIsClosed`, chunk | open result, data sent, close result | TCP, daemon |
| UP server session | `app_up.cpp` 149-205, 269-520 | expected and received size, chunk, `sessionIsClosed` | open result, data, close result | TCP, daemon |
| choice of the next chunk | `app_up.cpp` 2350-2720 | plan, specs, rate history | `AppUpClientDaemonGNDC*` | daemon |
| TCP | `libraries/developer/src/transport_tcp_{subr,timer,usrreq}.cpp` | protocol blocks, timers, connection state | user requests, slow and fast timeout, drop, close | applications, IP |
| 802.11 management | `libraries/wireless/src/wifi/mac_dot11-mgmt.{cpp,h}` | management state, AP list, station lists, timers | scan, authenticate, associate, handle frames and timeouts | MAC, daemon (`JoinCompleted`) |
| 802.11 MAC | `libraries/wireless/src/wifi/mac_dot11.{cpp,h}`, `include/mac.h` | MAC state, backoff, NAV, retry counters | transmit, receive, timers, channel sensing | PHY, network queue |
| messages | `main/message.cpp` | payload, headers, info fields, free lists | alloc, send, free, fragment, reassemble, queue | everything |
| application layer | `main/application.cpp`, `include/{application,api}.h` | list of applications of a node | parse, dispatch, finalise | everything |
| hello sample, trace header, build and GUI files | | none | | |

**Interaction.** Everything is a message with a delay, handled one at a time in the order of
simulated time. A join reported by the MAC makes the daemon open a client session (TCP
active open). Its result comes back as `DataChunkDelivered` or `TransportConnectionFailed`,
or not at all. The node's server sessions report a chunk in two parts, header and whole item.
Two timers drive the vehicle: the path timer (walk) and the stop timeout (do not wait for
ever).

**Hard behaviours.** Joins, reports, arrivals and timeouts interleave freely; timers cannot
be cancelled, only ignored; a failed open is retried with a chunk chosen anew; sessions are
lost without a report; handlers pop the stop their caller was looking at; the end of the
path comes before the end of the simulation. Below the application: keep-alive and
retransmission timers that drop a connection inside the loop that visits all of them,
authentication and association timers that race with late responses, fragments at the
boundary of real and virtual payload.

**What makes each component correct.**

- *daemon*: one transfer at a time; each chunk uploaded at most once and never stranded; no
  stop left while its chunk arrives; no stop left because of another stop's timeout; never
  asleep over a task that has not begun; no access point done with while it is owed a chunk; the
  run ends.
- *data site*: each of its chunks is handed over at most once, and what it takes for delivered
  has arrived unless the connection broke afterwards.
- *sessions*: a server reports a chunk only when every byte of that item arrived, at most
  once; a client says "delivered" only if it sent the whole item.
- *choice*: the policy returns the maximal candidate by its own order, and never a chunk
  that is in work or finished.
- *TCP*: a timer drops a connection only in the states its comment names; the application
  hears of every connection it opened; no timer touches a freed block.
- *802.11 management*: an AP that is joined serves the station; the radio is on its channel;
  a scan covers every channel; a station that is not joined is never forgotten; the daemon
  knows the AP the MAC is joined to.
- *802.11 MAC*: no frame comes to a station that cannot take it; a frame is handed up once and
  in order; what is acknowledged has been handed up; every wait ends.
- *messages*: fragmentation and reassembly are inverse on real and virtual size, info fields
  and headers survive copying and cutting; every block of storage has one owner; a queue
  knows its earliest event.

The hazards of the code, each at its line, are in `PROJECT.json`.

## 2. Modules

| module | what it is | status |
|---|---|---|
| `UpDaemon` | the daemon of an MDC: all handlers and the path walk, with MAC, TCP, sessions and mobility as environment | done |
| `UpCustody` | abstract specification: where each chunk is | done, `UpDaemon` implements it |
| `MCUpDaemon` | instances for TLC | done |
| `UpDaemonProofs` | theorems | done |
| `UpTransfer` | the daemon of a data site, its client sessions and the server sessions at the other end: byte counts, header, closes, reports | done |
| `UpHandoff` | abstract specification: how a chunk passes from a site to a collector | done, `UpTransfer` implements it |
| `UpTransferProofs` | theorems | done |
| `UpSelect` | the policies with priorities, deadlines, sizes, rates and time, over a list that changes; the UP statements of the application file | done |
| `UpSelectProofs` | theorems | done |
| `TcpConn` | user requests, timers, drop and close of TCP connections, with `tcp_input`, `tcp_output` and the network as environment | done |
| `TcpService` | abstract specification: opens are answered, connections end, once | done, `TcpConn` implements it |
| `MCTcpConn`, `TcpConnProofs` | instances for TLC, theorems | done |
| `Dot11Join` | 802.11 management, station and AP: scan, authentication, association, timers, lost answers; its join report is the `JoinCompleted` of `UpDaemon` | done |
| `Dot11JoinProofs` | theorems | done |
| `Dot11Dcf` | the MAC in every station of a cell: contention, NAV, RTS/CTS/ACK, retries, queues, beacon | done |
| `Dot11DcfProofs`, `Dot11AckProofs` | theorems | done |
| `MessagePool` | storage of messages and info fields, fragmentation, packing, copying, the queue | done |
| `MessagePoolProofs` | theorems | done |
| `MCUpTransfer`, `MCUpSelect`, `MCDot11Join`, `MCDot11Dcf`, `MCMessagePool` | instances for TLC | done |

The order followed what the user of the repository added: the daemon first, then the
sessions that report to it, then what is below.

**How they compose.** The modules meet at the messages the components exchange. `UpDaemon`
takes as environment what the others are about: that a chunk is announced once by its header
and then comes whole (`HeaderThenWhole` of `UpTransfer`), that the policy answers with an
undone chunk of the list (`ChoiceAsAssumed`, proved of `UpSelect`, which instantiates `UpDaemon` for
its `GetNext`), that joins come at any time for any AP (`Dot11Join`), and that an open is
answered once (`TcpService`). In return `UpSelect` leaves the AP only while nothing is sent,
which is `NoTransferUnjoined` of `UpDaemon`.

## 3. `UpDaemon`: how it corresponds to the code

**State.** `path` is the number of the stop at the head of the code's linked list (stops are
popped, so the rest of the list is `path..NumStops`); `task[i][x]` is the status in `lsAId`
or `lsDId` of stop `i`; `joinedAId`, `connAttempted`, `timeoutId`, `sending`, `dataChunks`
are the fields of `AppDataUpClientDaemon`; `dirty[c]` the two bits of a chunk. `timeouts`,
`due`, `legs`, `initDue`, `report`, `term` are the messages pending for the daemon: stop
timeouts (with the id they carry and, for the property `LiveTimeouts` only, the stop at the
head when they were posted), path timers, mobility events with their timer, reports, the
termination timer. `sess` counts the client sessions of the node by phase; `rx[c]` is the
server session that brings chunk `c`. `run` names the function whose assertion failed.

**Actions.** One per message handler, and inside `MSG_APP_UP_PathTimer` one per outcome of
`AppUpClientDaemonMobilityModelProcess` (`PathEnd`, `Stay`, `PassThrough`, `Arrive`,
`MoveOn`, `MoveLast`). The functions the handlers share are operators with the code's names:
`CheckStop`, `CompAtA`, `SendNext`. They are nested as in the code, and take as parameters
what their caller has already changed, so one action is a whole handler: for example
`Delivered` sets the finish bit, decrements the counter, chooses a chunk, and if there is none
completes the AP task, resets the work bits, posts a new timeout, checks the stop and perhaps
pops it and forgets the AP.

**Time.** A message with a delay is a pending message that a later step handles. Path timers
that are due now are handled before a mobility event advances the clock; everything else may
come in any order, which includes every order the code's delays can produce. `MoveOn` may be
taken any number of times (each leg of the road is the same state again), so the length of
the road does not matter.

**Environment.** `JoinCompleted` may come at any time, for any AP, at most `MaxJoins` times.
`OpenOk`, `OpenFail`, `DataSent`, `Drop` are what `AppLayerUpClient` makes of TCP's results:
`Drop` is the close of an open session, which the client does not report (lines 711-742).
`RxHeader`, `RxWhole`, `RxBreak` are what `AppLayerUpServer` makes of the data it receives.
Chunk identifiers are assumed unique, and each data site hands over its chunk once.

**Choice.** `GetNext` gives the set of results the policy may return, and "none" where time
or rate may make it return nothing. Which of the allowed chunks is chosen is left open.

**Slips.** The definitions marked "Slip:" (`KeepBit`, `NeverBusy`, `SameId`, ...) are not used
by the specification. Each is a small mistake in the definition that follows it; substituted
there, it must break the property `PROJECT.json` pairs it with, and it does.

## 4. `TcpConn`: how it corresponds to the code

**State.** `block[c]` is the protocol block of connection `c` (`inpcb` and `tcpcb` together),
or `None`: `st` is `t_state`, `usrreq` the last user request, `timer` the array `t_timer`, `idle` and `shift` are `t_idle` and
`t_rxtshift`. `port` says whether `tcp_listen` has
set up the port remote nodes connect to. `told[c]` is the sequence of results sent to the application, `asked` the
connections that were opened or came in: a connection is opened once, later ones have another
id and another port. Time is the tick of the slow timeout.

**Actions.** `Listen`, `Connect`, `Send`, `Disconnect` are the user requests; `SlowTimo` is one call of
`tcp_slowtimo`, which visits all blocks: `Tick` decrements the timers of a block, runs
`tcp_timers` for each that expires, and closes the block if one of them does. `Become` is
`tcp_close` for the blocks that disappear in a step, with the report that `usrreq` selects
(`CloseReport`). `KeepDrops` is `TRUE` because the code is: see the finding below.

**Environment.** `tcp_input` and `tcp_output` are not in the repository. `Incoming`,
`Established`, `Segment`, `AckedAll`, `FinReceived` and `Reset` do what any acceptable segment
may do to states and timers, as the BSD code this TCP derives from does; every one may come at
any time, or never. `Send` and `Disconnect` include what `tcp_output` then does to the
timers.

**Assumption.** `ConnAssumption` says that no two connections share addresses and ports. An
application takes the next available port number for each open (`application.h`), and
accepted connections differ in the remote side. The branch of `tcp_connect` for a
connection that exists is in the model; the assumption excludes it. It would not answer the
application that asked, but the one that owns the connection (`transport_tcp_usrreq.cpp:282`).

## 5. `UpTransfer`: how it corresponds to the code

**State.** `session[s][i]` is one client session of site `s` with its connection and the server
session that accepts it: `chunk` and `closed` are the client's, `tcp` and `left` the
connection (`left`: bytes handed to TCP that the server has not got), `server`, `expected` and
`received` the server's. `dirty`, `sending` and `attempts` are the fields of the site's daemon,
`reports` the messages from its client sessions to it, `heard[c]` what the collector's daemon
has been told of chunk `c`.

**Actions.** `JoinCompleted`, `Delivered`, `ConnectionFailed` are the daemon's handlers in the
role of a data site (the give-up leaves the work bit set); `OpenOk`, `OpenFailed`, `DataSent`,
`ClientCloseResult` those of `AppLayerUpClient`; `Accept`, `DataReceived`, `ServerCloseResult`
those of `AppLayerUpServer`. A segment may have any length behind the header.

**Assumptions.** The first segment holds the whole header (TCP's segments are longer);
`MSG_APP_FromTransDataSent` comes once for the one item a session sends; either end may break
at any time. Fairness: reports are handled, TCP answers every open, sends, passes on and ends
or breaks. Nothing forces a join.

**Properties.** `HeaderThenWhole` is what `UpDaemon` assumes of receptions. `CloseIsWhole`: a
connection closed in order has brought the item whole, and a broken one is reported only if
nothing is missing. `SendingCounts`: the site's counter is the number of its sessions without
a report and of reports on their way, at most one; so a lost session, which reports nothing,
keeps it at 1 for ever. `HandoffSpec`: site and collector implement `UpHandoff`.
`DeliveredArrives`: what the site takes for delivered arrives unless the connection breaks.

**Bounds.** Two chunks of different priority let a retry or a delivery turn to the other; 2
bytes are the least that can be cut; one retry, two joins and the give-up are enough for every branch of the
handlers. 38,424 states. The code may draw a size of 0 for a chunk of 1 KB (1585); sizes are positive here.

## 6. `UpSelect`: how it corresponds to the code

**State.** The application file still to be read (`lines`), what runs on each node (`apps`),
the policy with its specs and plan, the daemon's list of chunks in order with priority,
deadline, size and bits, the rate history, time, and the fields of the daemon the choice reads.

**Actions.** `ReadStatement` is one UP statement of the file (`application.cpp`) with the part
of `AppUpClientDaemonInit` that reads path, plan and specs and asserts what they contain.
Then joins, arrivals of chunks, deliveries, failures, stops and time change what the next
choice sees. The policies are `AppUpClientDaemonGNDC*`, one operator each; each loop over the list is a
fold with the code's tests inside. The comparisons of
floating-point quotients are made exact by multiplying with the rate; a rate of 0 behaves as
the infinite or undefined quotient does. CONTROL_TH's evaluation is any of the chunks or none.

**Properties.** `ChoiceAsAssumed`: whatever a policy answers is in `UpDaemon`'s `GetNext`, so
its runs and proofs cover the policies of the code. `LastInTimeWins` says what the estimating
policies do: the flag that a chunk meets its deadline is never set (2489, 2633), so the last
chunk in time supersedes every earlier one, although the comment at 2504 says "Try to get a
small chunk with high priority". The history read at 2563 may be empty, which stops the run;
the grace period of ADAPTIVE_GP is computed before its counter and is always 0 (2587);
priorities are always raised (the condition at 1586 is always true).

**Bounds.** Three chunks, one planned for each of two APs and one for neither; estimating
policies with specs for both APs and for one; two rates, two times, two joins; five wrong
statements, four wrong path files and two wrong plan files. 798,354 states.

## 7. `Dot11Join`: how it corresponds to the code

**State.** The fields of the management block and of the MAC that the handlers read (each is
named at its VARIABLE), `timer` the one management timer whose number is current (an older
one is dead), `out` the management queue with its head perhaps being sent, `answers` the
answers queued at the APs, `listed` the station in each AP's list.

**Actions.** `Enable`, the expiries of the scan, beacon, authentication and association timers,
the handling of beacons, probe responses, authentication and association answers, the reset
now or put off (`PendingReset`), and the APs' handling of requests. What the MAC does with a
queued frame, the radio, the AP's station list and the trigger of a handover scan are
environment: sent and acknowledged, sent and not, dropped, or waiting, in any order.

**Properties.** Seven invariants and `JoinsInTheEnd`, each stated in the module.
`NoRefusedJoin`, `OnItsChannel`, `NeverForgotten` and parts of `ServedWhenJoined` and
`DaemonKnowsAp` exclude active scans: an active scan starts no timer until its probe has been
sent (5076), so when a reset cuts something short its timer stays alive, and its expiry later ends
a scan, asks or starts over under a station that waits for an answer or has joined.
`ServedWhenJoined` says of the access point a station is joined to that *some* access point of the
network on its channel has listed the station, not that the one it names has: an answer's
source is not compared with the one that was asked.
`PassiveAsksOwnNetwork` excludes them too: a probe response is taken whatever its SSID (3439),
and APs answer probes for another SSID although a comment says "Check SSID is correct" (1782), so an
actively scanning station may ask a foreign AP again after every refusal. `JoinsInTheEnd`
therefore speaks of passive scans. Fairness: the station's own timers, the sending of its
queue, put-off resets and lost answers (weak); and that beacons of an unheard own AP, requests and
answers get through again and again (strong): a radio that loses everything for ever never joins.

**Bounds.** Three channels of which the first cannot be listened to (the skip and the wrap
round), two own APs on distinct channels, of which one uses QoS, a foreign one on the second's
channel; one answer queued, one request queued when a handover scan starts. 301,082 states. The configured start channel is
not checked by the code (6806-6827); the radio refuses one it cannot listen to, and the
instance starts on listenable ones.

**Noted.** With active scans, two own APs on a single channel, up to three answers and two
requests queued, TLC finds that each guard is needed: a join refused (`state = "error"`, 49
steps), a joined station whose frames go to another address than the daemon was told (29 steps), and a
station that is not joined with no timer, request or reset left (about 31 steps). With two answers
queued in the run's own instance, after an active scan an old answer of an own AP completes the join
with a foreign AP on its channel (28 steps), so the AP the station names never listed it. Without
an active scan, and with own APs on distinct channels, it has (`OwnChannelsServed`).
A reassociation with id 0 is sent as a success (2254, 1530); a packet of the
management queue is entered twice (384); `mgmtSendResponse` may be stale (4313); the station
count of an AP's QBSS element never shrinks (1309); a beacon of the asked AP cancels the MAC's
timer (2596).

## 8. `Dot11Dcf`: how it corresponds to the code

**State.** `mac[n]` has the fields of `MacDataDot11` that matter: `state`, whether the last
timer started is alive, whether the NAV lies ahead, the message being sent, both retry
counters, the queues, `lastSeq` for duplicates, and `cut`, which marks the one wait whose
timer a beacon stopped. `tx`, `fresh`, `hears`, `lock`, `spoilt` are the radios: what each sends,
whom it has not reached, what each senses and receives, and whether that is spoilt. `handed` and
`acked` are histories.

**Actions.** One per event the MAC handles: its timer in each state (`ContentionEnds`,
`NoResponse`, `NoData`, `NavTimeout`, `SendBeacon`, `HeaderReceived`), a packet from above
(`NetworkLayerHasPacketToSend`, `DataQueueEnqueue`, `ManagementRequest`), and the radio's changes
of status (`SignalArrives`, `SignalEnds`, `TransmissionEnds`). The handlers' shared functions
are operators on an outcome `o`, the station and what it sends, nested as in the code.

**Time.** Lengths are not modelled: a NAV ends at any time, and whether a new NAV is later than
the old one is open. What the code's constants fix is kept: a signal that ends reaches all
radios before anything else happens, an answer on the air comes before the timer that waits for it, and a
CTS or ACK ends before anything begun later (`sooner`). A frame is lost because it is too
weak, drowned or collides.

**Properties.** `ReadyToReceive` is the code's own assertion (478). `HandedOnce`,
`AckedIsHanded` and `WaitsEnd` are stated in the module; the exception `cut` in `WaitsEnd` is
real: MacDot11ProcessBeacon cancels the timer and leaves the state (1019), so a station in WFDATA
ignores every RTS until a data frame or a NAV comes.

**Bounds.** An AP and two stations hidden from each other (the case that makes collisions);
three loads that mix RTS, broadcast, data queue and a management request; one retry, one beacon,
one queued answer. 810,629 states.

**Assumptions.** `DcfAssumption`: a layer above numbers its frames in the order it offers them, and
all data of a station goes one way, through the network layer's queue or through the data
queue, which only mesh points use (mac_dot11.cpp 820). With both, the data queue would overtake.
Numbers start at 1: `lastSeq` is 0 when nothing was heard, and so is `id` in frames without one (RTS,
CTS, ACK, beacon).

**Noted.** A station may win the channel with an empty local buffer and a frame in the management
queue: after a CTS without data it waits for a NAV (503-520), and the timer of that wait contends.
`StartSending` therefore fetches the frame first; that the helper does is assumed.
A change of the NAV overwrites WFACK with WFNAV without counting a retry (507-520);
`mgmtSendResponse` is set when a frame is queued (154); the probe-delay timer leaves
`waitForProbeDelay` set if it is an old one (2905); `MacDot11ReceiveNetworkLayerPacket` (338) is unused.

## 9. `MessagePool`: how it corresponds to the code

**State.** `pool` is the storage: what each block was allocated as and the two recycling
lists. `hold[f]` are the messages the owner of packet `f` has, `buffer[f]` those it has
serialised, `queue` and `earliest` the `MessageQueue`, `whole[f]` what the owner put in.
Messages are records: `Message::initialize` makes a recycled object what a new one is, so
objects have no identity. Blocks have one: `Malloc` gives some block the heap still has, and which
one means nothing.

**Actions.** What an owner may do with its packet: allocate, add, grow and remove info fields
and headers, cut it in the two ways the code has (`FragmentPacket`, `SplitPacket`), join all
pieces or two, pack and unpack, serialise and restore a list, copy, send, queue, free; and
`Dequeue` and `DequeueAll`. Copies are the ones that are sent, and may take over info fields.

**Properties.** `OneOwner`, `Whole`, `EarliestIsLeast`, stated in the module.

**Bounds.** One packet that is worked on and its copy, at most four messages; recycling lists of one
block; one field small enough for a cell, one too large, one of another type; 1 real and 2 virtual
bytes cut into pieces of 2 (the piece in which real bytes end). `View` numbers blocks in the
order in which the messages point to them and counts all that are allocated: states that differ in
the blocks' addresses only are one, since no operation compares addresses. 323,367 states.

**Noted.** With other constants two faults appear, which no caller here meets: a field that
grows inside its cell keeps its old size, so copies truncate it (979-997, against 812-815);
and a thread message's short block goes into the list of cells (1039). An empty list makes
UnserializeMsgList dereference NULL (2380). Packing what is packed already (2421-2425 has a branch for
it) is left out: the model's owner unpacks first.

## 10. Runs

| run | question | instance |
|---|---|---|
| `daemon_collect` | Are the daemon's books true: one transfer, work bits, joined AP, tasks, no early departure, nothing owed left behind? | strict plan, 2 chunks (one planned for each AP), 2 APs of which one is off the path, 2 stops, 1 retry, 2 joins, losses, start off the path |
| `daemon_way` | Do stale timeouts stay harmless, and does the daemon never fall asleep? | timeline policy and test mode, 3 stops of which the middle one has no task, start at the first stop |
| `daemon_live` | Do transfers end, does the run end, is custody kept? | "everything" policy, 2 chunks, 1 AP, losses, fairness |
| `daemon_joinend` | Does a join always find a stop ahead, as the code asserts? | violated |
| `daemon_compend` | Does an AP that is done with always find a stop ahead, as the code asserts? | violated |
| `tcp_conn` | Is every open answered, does every connection end, exactly once, whatever the peer does? | one connection opened here, one that comes in, 3 segments, at most 2 retransmissions, all timers 1 to 4 ticks |
| `tcp_keep` | Does the keep-alive timer drop only idle connections, as the comment says? | violated |
| `transfer` | Does the collector hear of each chunk once, header first and then whole, and what the site takes for delivered? | one site, 2 chunks of 2 and 1 bytes, header of 2, 1 retry, 2 joins; MDC or cloud |
| `select` | Does every policy choose as `UpDaemon` assumes, and in its own order of preference? | 3 chunks, 2 APs, 3 stops; all policies, 11 wrong files |
| `join` | Is a joined station consistent, is it never forgotten, does it join in the end? | 3 channels (one not listenable), 2 own APs (one with QoS), one foreign |
| `dcf` | Are frames handed up once, in order, acknowledged truly, and does every wait end? | AP and 2 stations hidden from each other, 3 loads, 1 retry, 1 beacon |
| `message` | Does a packet keep its content and every block its owner? | a packet and a copy, 4 messages, lists of one block |

Deadlock is not checked: a daemon that waits for a join that never comes, or whose run is
over, has no step, and both are normal. It is not checked for TCP either: the slow timeout is
always possible. `transfer`, `select`, `dcf` and `message` have finite traffic or flows that end, so
they may stop too. `join` is checked for deadlock: a station always has something to do.

**Properties.** `OneTransfer`: the counter `sending` is exactly the number of sessions and
reports under way, at most one. `WorkBits`: a chunk is "in work and not finished" exactly
while in transfer. `NoTransferUnjoined`: the AP is forgotten only when nothing is sent through
it. `LiveTimeouts`: a timeout that can still act belongs to the stop the vehicle is at (or one
separated from it by stops without tasks). `Awake`: while stops remain, a timer, a transfer
or a task marked WAIT will move the daemon on. `TaskTruth`: complete means received, awaited
means begun. `NoLeaveDuringReception`: a stop is not left while a chunk planned there arrives.
`DoneWhenUploaded`: an AP's task becomes complete only when nothing is being sent and every chunk
the policy owes it is delivered (strict plan: those planned for it; "everything", or an estimating
policy at the last AP: all), unless the last attempt has just failed; the choice must therefore see
the bits as its caller has changed them.
`TransfersEnd`: what is sent comes to an end unless a session is lost. `EndsOrStuck`: the
run ends, or the daemon is for ever in one of three named situations. `CustodySpec`: the
daemon implements `UpCustody` under the mapping `custody`.

For TCP: `Answers`: what the application was told of a connection agrees with its block in
every state, so an open is answered once and a close reported once. `Guarded`: every block has
a timer that ends it. `ClosesEnd`: a close that was asked for ends, with only the slow
timeout fair. `ServiceSpec`: `TcpConn` implements `TcpService` under the mapping `service`,
including that every open is answered. `KeepDropsIdle`: the comment about the keep-alive
timer.

The properties of the other modules are explained at the end of their sections. The type
invariants of `Dot11Join` and `Dot11Dcf` are written down (`TypeOK`) and held when they were
checked, but no run of `PROJECT.json` lists them: the other invariants say more. That of
`Dot11Join` is proved (`JoinTypeCorrect`).

**Bounds.** Two chunks let a retry and a delivery pass the turn to another chunk; two APs let
the joined one differ from the stop's; two stops are "this one and the next", three allow a
way point between two real ones. One retry (`ConnMax = 1`; the code has 15) reaches both
branches and the give-up. Two joins are enough for a rejoin during a transfer, after the AP
was forgotten and at another AP. `timeoutId` and the number of pending timeouts are bounded
by the number of stops, joins and retries, so no other bound is needed.

For TCP, the timer values keep the order of the code's (an open is given less patience than an
established connection, the keep-alive time is longer than a retransmission series), small
enough that all timers race. Three segments take a connection through a whole close
(acknowledgement, FIN, acknowledgement). Two connections make the slow timeout end two in one
tick. `idle` is not counted beyond the largest value it is compared with.

The bounds of the other runs are in their sections.

**Fairness.** `FairSpec` says that the simulator handles every pending message, that TCP
resolves every open and every transfer (deliver or lose), that a reception under way
completes or breaks, and (strong fairness of `MoveLast`) that a leg of finite length ends:
each step shortens the way by `APP_UP_PATH_SIMU_DISTANCE`. Joins, new receptions and losses
are never forced. For TCP only the slow timeout is fair (`WF_vars(SlowTimo)`): it is called
every 500 ms; the peer may be silent for ever. For `UpTransfer` and `Dot11Join` see their
sections; `UpSelect`, `MessagePool` and `Dot11Dcf` are checked for safety only.

**Findings.** Three situations of `Stuck` are real: a client session closed by TCP tells the
daemon nothing (711-742), so `sending` never returns to 0 and line 1918 ignores every later
join; a server session that breaks after its header leaves its task on WAIT, which no timeout
ends (487); and an AP marked WAIT at a later stop (3133) is waited for even if another AP is
joined there. They are in the property, since nothing in the repository promises otherwise.
Two assertions of the code fail:

- `assert(nextStop)` in `JoinCompleted` (1774): the path ends, the termination timer is
  posted, and the MAC completes a join before it fires (`daemon_joinend`).
- `assert(nextStop)` in `CompAtA` (3122): a transfer through an AP that is on no stop is
  under way when the last stop times out; its delivery finds no chunk left
  (`daemon_compend`).

And one comment is not true of the code:

- a `printf` was added under the unbraced `if` at `transport_tcp_timer.cpp:246`, so the `goto
  dropit` after it is always taken. The keep-alive timer drops a connection the first time it
  expires, in any state; the probes and the two branches that set the timer again are
  unreachable (`tcp_keep`). `ClosesEnd` holds partly because of this: a connection that waits in
  FIN_WAIT_2 without its 2MSL timer is ended by the keep-alive timer only.

Two further statements in the module are not run: `CheckFindsStop` (needs a path of three
stops that ends at a bare way point; the last one is popped without a new timeout id, 2957)
and `LeavesFromStop` (does not hold: a task completed on the road pops the stop while the
speed of the current event is still 0, 2998).

## 11. Theorems

Those about the daemon hold for every set of chunks and APs, every path, plan, policy, number
of retries and joins, from `PathAssumption` (a stop has at most one AP, and not both an AP and data sites:
what the path reader asserts) and `NameAssumption` (identifiers do not clash). Those about
TCP hold for every set of connections, all timer values and limits, from `TimeAssumption`
(timers start above zero) and `ConnAssumption` (section 4). Those about the transfer hold for
any number of sites, chunks, bytes, retries and joins, from `TransferAssumption`; those about the
802.11 management for any access points, networks, channels and queue bounds, from
`JoinAssumption`; those about the MAC for any stations, whoever hears whom (one way too), any
traffic and limits, from `DcfAssumption`. Those about the choice hold for any application files, access points, rates,
times and list, from `SelectAssumption` and `FileAssumption`: data lines have four numbers, and an
identifier is given by one data statement only (the UP addresses chunks by it alone). Those about
messages hold for any number of packets, messages, fields, sizes and limits, from `MessageSizes`
and `NoThreads`: no caller asks for the storage of a thread (section 9 says what happens else; no
protocol here does).

| theorem | module | property |
|---|---|---|
| `TypeCorrect` | `UpDaemonProofs` | `TypeOK` |
| `OneTransferAlways` | `UpDaemonProofs` | `OneTransfer` |
| `NoTransferUnjoinedAlways` | `UpDaemonProofs` | `NoTransferUnjoined` |
| `LiveTimeoutsAlways` | `UpDaemonProofs` | `LiveTimeouts` |
| `TaskTruthAlways` | `UpDaemonProofs` | `TaskTruth` |
| `NoLeaveAlways` | `UpDaemonProofs` | `NoLeaveDuringReception` |
| `DoneWhenUploadedAlways` | `UpDaemonProofs` | `DoneWhenUploaded` |
| `AwakeAlways` | `UpDaemonProofs` | `Awake` |
| `WorkBitsAlways` | `UpDaemonProofs` | `WorkBits` |
| `DaemonKeepsCustody` | `UpDaemonProofs` | `CustodySpec` |
| `TcpTypeCorrect` | `TcpConnProofs` | `TypeOK` |
| `AnswersAlways` | `TcpConnProofs` | `Answers` |
| `GuardedAlways` | `TcpConnProofs` | `Guarded` |
| `Implements` | `TcpConnProofs` | safety part of `ServiceSpec` |
| `TransferInvariant`, `TransferTypeCorrect` | `UpTransferProofs` | the inductive invariant, `TypeOK` |
| `SendingCountsAlways` | `UpTransferProofs` | `SendingCounts` |
| `HeaderThenWholeAlways` | `UpTransferProofs` | `HeaderThenWhole` |
| `CloseIsWholeAlways` | `UpTransferProofs` | `CloseIsWhole` |
| `TransferIsHandoff` | `UpTransferProofs` | `HandoffSpec` |
| `JoinInvariant`, `JoinTypeCorrect` | `Dot11JoinProofs` | the inductive invariant, `TypeOK` |
| `NoRefusedJoinAlways` | `Dot11JoinProofs` | `NoRefusedJoin` |
| `ServedWhenJoinedAlways` | `Dot11JoinProofs` | `ServedWhenJoined` |
| `OwnChannelsServed` | `Dot11JoinProofs` | own APs on distinct channels: the AP named has listed the station |
| `OnItsChannelAlways` | `Dot11JoinProofs` | `OnItsChannel` |
| `NeverForgottenAlways` | `Dot11JoinProofs` | `NeverForgotten` |
| `DaemonKnowsApAlways` | `Dot11JoinProofs` | `DaemonKnowsAp` |
| `PassiveAsksOwnNetworkAlways` | `Dot11JoinProofs` | `PassiveAsksOwnNetwork` |
| `ScanCoversAlways` | `Dot11JoinProofs` | `ScanCovers` |
| `Inductive`, `TypeIsRight` | `Dot11DcfProofs` | the inductive invariant, `TypeOK` |
| `AssertionsHold` | `Dot11DcfProofs` | `ReadyToReceive` |
| `NoWaitWithoutEnd` | `Dot11DcfProofs` | `WaitsEnd` |
| `DataHandedOnce` | `Dot11DcfProofs` | `HandedOnce` |
| `AcknowledgedIsHanded` | `Dot11AckProofs` | `AckedIsHanded` |
| `SelectInvariant` | `UpSelectProofs` | the inductive invariant |
| `ChoiceAlways` | `UpSelectProofs` | `ChoiceAsAssumed` |
| `LastInTimeAlways` | `UpSelectProofs` | `LastInTimeWins` |
| `Invariance` | `MessagePoolProofs` | the inductive invariant |
| `OneOwnerAlways` | `MessagePoolProofs` | `OneOwner` |
| `EarliestIsLeastAlways` | `MessagePoolProofs` | `EarliestIsLeast` |

**Argument.** The handlers are long and share their helpers, so each group of variables gets
an *effect*: a disjunction of the few things a step can do to it (`TransferStep`,
`TimeoutStep`, `PlanStep`, `JoinStep`, `ListStep`). One lemma per group shows that every step
of `Next` has one of these effects, action by action; the invariant is then proved against
the effects only. `OneTransfer` and `LiveTimeouts` are inductive with the types. `TaskTruth`
is not: that a task is on WAIT only for a reception at its *first* stop ahead is needed to
know that leaving a stop does not orphan it, and that is what `Reception` adds; it also gives
`NoLeaveDuringReception`. `NoTransferUnjoined` needs `Joined`: while a chunk is sent, the task
of the joined AP is on WAIT at the first stop ahead that has it; when nothing is sent it may
also be complete, but only at the head. `WorkBits` needs `Listed`, which adds that only listed
chunks carry bits and that a chunk is listed exactly when it was received. `DoneWhenUploaded`
follows from it: with no session under way a listed chunk is free or finished, so a choice of
nothing means that all it could have chosen is finished.
`Awake` needs that the vehicle moves only on the road (`Standing`), or leaving a stop could be
refused with no timer pending; and `OneTransfer` and `NoTransferUnjoined`, or the report that ends the
last transfer could be ignored and leave nothing to wait for.
`DaemonKeepsCustody` uses all these invariants but the last: each step maps to a step of `UpCustody` or to a
stutter.

For TCP the same is done per connection: a step leaves it alone, starts it, lets it go on,
opens it, asks for its close or ends it (`Effect`), and all requests and segments leave the
other connections alone (`Alone`). `Answers` is not inductive: which report `tcp_close` makes
depends on `usrreq`, so `Kinds` adds that `usrreq` is NONE or OPEN exactly in the embryonic
states, NONE only for accepted and OPEN only for opened connections. With it each effect
keeps `Sound`, the conjunction of all parts for one connection, and maps to a step of
`TcpService`.

For `UpTransfer` the invariant says of each session where its bytes are (`Counted`: at the client,
on their way, or counted by the server) and that a session that got through is the last one of
its chunk and the only one the collector heard of it through (`SessionSound`); of each site
that it rests, waits for its *last* session, or has that session's report. None of the four
properties is inductive without it: that a second session never repeats a header needs that a
retry is made only after a refusal, which needs `sending`, which needs the reports. Each action
is shown to change one session (or append one) with everything else left alone, and the same
steps are then mapped to those of `UpHandoff`.

For `Dot11Join` there are two layers. `IInv` is about the exchange. `AnswersListed` (an AP
grants only what it has listed) and `Served` hold with every scan. The rest holds `Quiet`ly,
without an active scan: which timer can be alive in which state (`TimerSound`), that an
authenticated station has something queued behind a queued authentication request (`OutSound`), and
that whoever is asked is on the radio's channel (`Channel`). `NeverForgotten` needs the second: the
authentication timer stays alive after its answer, and its expiry does nothing when the station
is authenticated, so it is the association request behind it that keeps the station going.
`ScanSound` is about the scan, of any type: `Listened` says that the channels visited are the
first `numResults` ones counted from some start round the last channel. A scan ends when it
has counted all of them; that these are all channels is arithmetic of remainders (`ModOnto`).

For `Dot11Dcf` a handler is an operator from outcome to outcome, so a lemma about each says what it
does to the line of frames to send (`Follows`), to what is handed up (`Silent`, `Answers`) and
to state and radio (`Calm`, `Ready`, `Turns`). The invariant has two halves. `RadioSound` and
`StationSound`: MAC and radio agree on who sends, whoever waits for the channel receives and
senses nothing and has something to send, every wait has a timer. They are `ReadyToReceive` and
`WaitsEnd` but for details. `HandedOnce` needs the other half: `Lined`, that what a
station holds of data is in order and on one path; `Known1`, that what a receiver has handed
up is behind all that the sender has yet to send, and if the sender is still busy with it, the
receiver's `lastSeq` has its number; `Receives`, the same of a frame being received. A
step advances one sender (`Advances`) and one receiver hears (`Hears`), and these effects keep
both for every pair.

`AckedIsHanded` has a module of its own, because an acknowledgement carries no number: why it is
never taken for that of another frame is a matter of who is on the air when. Its invariant `AInv`
adds to the one above what a receiver may conclude. What a radio receives is what the sender sends
and, once that has ended and the sender waits, the frame the sender waits for (`Locked`, from
`Sending`); the end of a transmission reaches all radios before the next one ends (`OneEnds`); the
sequence numbers a station keeps are of frames it has handed up (`Numbers`), so the ACK of a
duplicate is right too; an ACK to a station that still sends is over before that station has sent
its frame (`InOrder`, the one place where the constants' lengths come in, as `sooner`). From these,
`Truth`: an ACK on its way to a station that waits answers the frame it waits for, which has been
handed up. All steps but the end of a transmission are shown to be `Grows`: one station
starts to send or does not, senses or receives what has yet to reach it, and hands up no less than
before. `Grows` keeps `AInv`; the end of a transmission (`Over`) is treated by itself.

For `UpSelect` the two properties are about loops over a list of any length. What a loop computes is
stated for each prefix of the list: `MostUrgentLoop` (none, or the first of the most urgent
candidates so far) and `OpportuneLoop` (the best from the last one in time on, each chunk compared with
the best so far). A prefix for which such a statement failed would have a shortest one (`Least`, from
the well-foundedness of the natural numbers), which the loop's next step excludes; that the fold's
recursive function exists is shown the same way (`FoldExists`). The policies then follow by cases.
`UpDaemon` speaks of chunks and `UpSelect` of list entries, so the invariant must keep the
identifiers apart: in the list, in what is still to come and in the statements still to be read.

For `MessagePool` ownership is stated of one message first. `Good(w, m, K, H)`: in pool `w` message
`m` owns blocks of the right kinds at all its places but the holes `H`, and what else is used is
`K`, which is all there is to know of other messages. Each operation on one message keeps this,
filling or leaving holes (`Stored`, `InfoFreed`, `Replaced`, `CopiedFine`), and its loops over info fields do so
for fields of any number. `Sound(w, M)` says it of a set of messages, each good while the
others are the rest; `Opening` takes one out, `Closing` puts it back changed, `MadeSound` adds one and
`FreeSound` removes one. `Keeps(w, O, list)` carries that over to the lists that operations return.
What an action does to one flow then leaves the others alone, since they are in `O` throughout
(`Held`). `Custody` also says that a message is in one place of one chain only (`Shape`): freeing
a list twice, or queueing what is still held, would break it; and `Strings` that a packet kept as a
string has no messages.

**Only model-checked.** The liveness properties `TransfersEnd`, `EndsOrStuck`, `ClosesEnd` and the promise of
`TcpService` that every open is answered, which are out of the prover's reach. So
are `DeliveredArrives` and `JoinsInTheEnd`. `Whole` of
`MessagePool` (no byte of a packet is lost or made by cutting, packing and joining) is checked on
the instance above only: it is false for constants in general, where a field may grow inside its
cell (message.cpp:979, section 9) and copies carry its old size, and for the others it needs sums
and concatenations over the lists of fields of lists of packets.

## 12. Not modelled

- *UP*: printed records and statistics; the list of packets whose code is commented out;
  delays (among them the wait that divides by a speed of 0, 1902), so a stop without tasks that
  is popped without a new timeout id (3052) and a leg's first event with speed 0 (2998) are
  described above but not run.
- *application layer*: the rest of the scenario parser and the dispatch table of
  `application.cpp`: it starts applications whose code is not in the repository.
- *TCP*: `tcp_input` and `tcp_output` are not in the repository; delayed acknowledgements, header
  templates and responses, congestion windows and round-trip times, on which no property depends.
- *802.11 management*: ADDTS and HCCA (the caller and `tsStatus` are not in the repository);
  ad hoc and mesh networks, HT and power-save elements; static association (mac_dot11.cpp
  4231-4238 reports an error, so AutoJoin is unreachable); handlers that only report "not
  supported" (disassociate, deauthenticate and others); initialisation and statistics.
- *802.11 MAC*: power saving and PS-poll, ATIM, the point and hybrid coordination functions,
  802.11n/ac, mesh points, directional antennas, promiscuous mode, data rates, the
  initialisation from the scenario file and statistics.
- *messages*: trace fields and time stamps, messages of other threads and partitions (no code
  here sends them), the book-keeping of fragments' info fields, info fields and headers on a
  packed message; `ThreadSafeMessageQueue` has the same operations under a lock.
- tracing, the hello sample, the GUI and build files, whose behaviour is trivial or is no
  behaviour of the program.
