# Verification of the hardware messenger

TLA+ models, TLC runs and TLAPS proofs for the RDMA messenger in
`src/hardware_async`: an event-driven messenger (`HwMessenger`), its event loops
(`Event`, `Stack`), the reliable connection (`RDMAReliableConnected`) and the RDMA
transport under it (`RDMAStack`, `RDMAReliableConnectedSocketImpl`). Paths below are
relative to `src/hardware_async`.

`rdma/RDMAReliableConnected.cc` is the beginning of a rewrite (read_bulk, read_until,
accept, half of process). The complete implementation behind the same header is
`rdma/backed_RDMAReliableConnected.cc`; the models follow it, and "the connection"
below means that file.

## 1. The system

| part | state | operations | talks to |
|---|---|---|---|
| Messenger (`HwMessenger`) | conns, accepting_conns, deleted_conns, my_inst, did_bind, started, stopped, global_seq | bind, rebind, start, wait, shutdown, get_connection, send_message, mark_down, add_accept, accept_conn, unregister_conn, reap_dead, learned_addr | creates connections, called back by them in the handshake and in `_stop` |
| Connection (`RDMAReliableConnected`) | state, can_write, out_q, sent, out_seq, in_seq, ack_left, connect_seq, global_seq, peer_global_seq, replacing, is_reset_from_peer, once_ready, outcoming_bl, timers | send_message, handle_write, process (parser and handshake), fault, was_session_reset, mark_down, tick, wakeup_from | socket below, dispatch queue and messenger above, its event center for every callback, and *another* connection of the same peer when it is replaced |
| Event center (`Event`) | external_events and their count, time_events, event_map, file_events, notify pipe | dispatch_event_external, submit_to, create/delete of time and file events, process_events, wakeup | any thread; its own loop runs every callback |
| Workers and stack (`Stack`) | references, init, done | start, stop, drain, get_worker | one event center and one thread per worker |
| RDMA dispatcher (`RDMAStack`) | qp_conns, dead_queue_pairs, post_backlog, inflight, pending_workers | polling, handle_tx_event, post_chunk_to_pool, register_qp, erase_qpn, notify_pending_workers | polling thread; passes completions to sockets and buffers to workers |
| RDMA socket (`RDMAReliableConnectedSocketImpl`) | connected, active, error, pending_bl, wc, buffers, res_mem | try_connect, handle_connection, send, submit, read, zero_copy_read, fin, shutdown, close, fault | dispatcher, worker, TCP descriptor of the handshake |
| Infiniband wrapper, drivers, TCP helpers | handles | system and verbs calls | - |

Two things make the system hard.

*Threads.* Each worker runs one event loop; a connection belongs to one loop, but
users call `send_message` from anywhere, and `handle_connect_msg` of a newly accepted
connection, in *its* loop, locks and rewrites an existing connection of another loop.
`handle_write` holds neither `lock` nor `write_lock` while it numbers and writes a
message.  The event center itself mixes a mutex, an atomic count and a pipe.

*Failure.* A lossless connection outlives its sockets: messages written and not
acknowledged are requeued, their numbers given back, and on the next socket the two
ends exchange what they have. A peer may also have lost its session altogether.

What makes each part correct:

- message path: every submitted message is dispatched once, in order within its
  priority, eventually; the receiver never sees an old or a skipped number;
- session reset: nothing of the old session reaches the new one, nothing of the new
  one is lost, numbering starts again;
- handshake: the two ends settle on one connection and agree on connect_seq; no
  assertion of the state machine can fail; a race is always resolved;
- parser: every byte is read once and in order however it arrived, throttles are given
  back as they were taken, and no connection is left with something to read;
- event center: no wakeup is lost, events run once and in order, timers fire once;
- file events: the table and the driver agree, no edge-triggered report is lost;
- registry: every open connection is in a table, no lookup returns a stopped one, each
  worker counts its connections, and nothing is open when `wait` returns;
- receive buffers: each has one owner, what is owed to the receive queue is paid;
- send buffers: chunks are conserved and a waiting worker is woken.

## 2. Modules

| module | models | role |
|---|---|---|
| `LosslessChannel` | nothing in the code: what a lossless connection promises | abstract specification |
| `Session`, `SessionMC` | message path of a connection and its peer, one direction | detailed specification, implements `LosslessChannel` |
| `SessionInv` | - | the invariants of `Session`: numbers, and what is due |
| `SessionProofs` | - | theorems: the numbers fit; `Session` implements the channel |
| `SessionReset`, `SessionResetProofs` | an existing connection reset and given a new socket by another thread | specification, theorems |
| `Connection`, `ConnectionMC` | the handshake of two messengers with all their connections | specification |
| `ConnectionProofs` | - | theorems about `Connection` |
| `Receive`, `ReceiveMC` | the parser and the throttles of connections that share a policy | specification |
| `EventCenter`, `EventCenterProofs` | an event center, the threads that dispatch to it and the worker's loop | specification, theorems |
| `FileEvents`, `FileEventsProofs` | the file events of one loop, the epoll driver and the kernel | specification, theorems |
| `Registry`, `RegistryMC` | the messenger's tables, the workers' references, bind to wait | specification |
| `RegistryProofs` | - | theorems about `Registry` |
| `RdmaSocket`, `RdmaSocketMC` | handshake and sending half of the RDMA sockets of a process | specification |
| `RdmaSocketProofs` | - | theorems about `RdmaSocket` |
| `RxPool`, `RxPoolMC` | receiving half: the buffer pool, the dispatcher, the readers | specification |
| `RxPoolProofs` | - | theorems about `RxPool` |

Each module is one part with its own state. They meet where the code's parts meet, and
what one part takes from another is a small set of steps: `Reconnect` of Session and
`start` of Receive are what Connection does in detail; Connection's lookups and
`accept_conn` are Registry's, whose `lookup_existing` to `accepted` are Connection's
handshake seen from the tables; RxPool and RdmaSocket share a socket by its `connected`
and `error` flags. The MC modules only give values to constants.

### Session

State is named as in the code: `out_q` (a list per priority, two priorities: the
highest, which requeued messages go to, and one below it), `sent`, `out_seq`, `in_seq`,
`ack_left`, `state`. A message is its position in the history `log` and its sequence
number, 0 until it is written. `toR` and `toS` are the two directions of the socket;
`toS` carries only what concerns this direction of traffic (acknowledgements and the
number exchanged). `handle_write` is three actions, because the code drops
`write_lock` around `write_message`: `handle_write` (entry), `get_next_outgoing` (under
the lock) and `write_message` or `write_fails` (without it). `sent` holds pointers, so
numbering the message in hand also changes its entry there (`Renumber`).

`fault` and `receiver_fault` are the code's `fault()` of a lossless connection: the
sent list is requeued, and the connection goes to STANDBY or CONNECTING according to
`policy.server`, `policy.standby` and whether something is queued. The loss of what was
in the socket follows from the reader's fault; a writer may notice later than a reader
or earlier. `Reconnect` stands for a whole successful negotiation: the acceptor's
existing connection requeues in `deactivate_existing`, and the first thing each side
then learns is the other's `in_seq` (TAG_SEQ). The negotiation itself, its retries and
its races belong to the module Connection; a failed attempt changes nothing
here, which is why one step is enough.

### SessionReset

The same sender, in the moment `handle_connect_msg` of another connection finds it as
`existing` with `connect_seq == 0` from the peer (a hard reset, policy with
resetcheck). That thread takes `lock` and `write_lock` for `was_session_reset`, keeps
`lock`, and takes `write_lock` again for the replacement (`replace`);
`deactivate_existing` runs in the old loop afterwards (`deactivate`), and the replaced
connection answers READY (`open`). The old loop may be anywhere in `handle_write`:
between popping a message and writing it, or between reading `ack_left` and
subtracting it. `_try_send` takes all or nothing, nondeterministically (a full socket).
`randomize_out_seq` gives 0, as without MSG_AUTH. `torn` records that a reset fell
between the two unlocked uses of `ack_left`.

### Connection

Two messengers, node 1 with the smaller address, each with a few connection objects
(`conn`, the fields named as in the code; `gseq` and `peer_gseq` are the code's
global_seq and peer_global_seq of a connection) and the one it has registered for the
other (`conns`; an entry whose connection is closed stands for one that is also in
deleted_conns). `connect` is STATE_CONNECTING up to the socket and `add_accept` on the
other side; `learned_addr` gives the lock up while the messenger is told its address,
and on the way back the connection may have been stopped. What a socket carries is in
`chan`, per direction.

`handle_connect_msg` is three steps, because it drops `lock` twice:
`read_connect_msg` ends at the lookup of the existing connection; one action for every
way the decision goes (`retry_global`, `retry_session`, `wait`, `reset_session`,
`replace`, `hard_reset`, `open`, `open_lossy`), the last two up to the result of
`accept_conn`; and `accepted`, `accept_refused` or `accept_fails` when the lock is taken
again. The conditions of the decision are operators over the two connections
(`Outdated`, `HardReset`, `Same`, `Newer` ...) and each answer is a disjunction of them,
so that the cascade of tests and gotos can be read as a table. The replacement of a
socket continues in `deactivate` and `transfer`, run by the two event loops.

`fault` and `stop` are functions from the connections before to those after, shared by
every action that ends in them. An assertion or ceph_abort that fails is the step
`Abort`: it sets `failed`, and nothing happens any more. The fields `in_of` and
`out_to` are history: the connection whose messages `in_seq` counts and the one
`out_seq` numbers messages for. `shutdown_socket` in the header closes the socket only
if `last_tick_id` is set, and so does the model; its body names functions of the socket
in a way that does not compile, and is taken for the three calls it means.

### Receive

A connection's stream is a sequence of frames, its bytes numbered. `avail` is how many
have arrived, `read` how many were taken from the socket, `recv_buf` the prefetched ones,
`buf` and `state_offset` the item being read. `process` is one case of the switch per
step (a tag, a header, a throttle, front, data, footer): `read_until` over `read_bulk`,
then what the case does. A throttle that is full registers a `wakeup_from` and returns;
`dequeue` and `put` are the dispatch queue, which gives the throttles back; `at = "fast"`
is `fast_dispatch`, during which the lock is dropped and anything may happen to the
connection. `socket_fails`, `mark_down`, `replace` (by a new connection of the peer) and
`reopen` end a session at any point, each through `reset_recv_state`. The outcome of a
message (header CRC, aborted footer, signature, old number) is part of the frame. An
event of an edge-triggered socket is `readable`.

### EventCenter

`dispatch_event_external` is three steps of the calling thread (`push` under the lock,
`count`: test and increment, `wakeup` after the unlock), `submit_to` a dispatch
followed by a wait (`awaited`). `process_events` is a sequence of steps of the loop:
`begin` (is anything counted, until when to block), `event_wait`, `handle_notify`, `fire`
per time event, `check_external` (unlocked read), `swap` (under the lock), `run` per
event. Any callback may dispatch an event, create a time event or delete any
(`Callback`). `begin_stopped` is the loop of `Stack.cc` finding `done`. The pipe is a
Boolean: the handler reads it until it is empty. Time is a counter; the loop's `now` of
one call may be older than the clock, which `fire` covers by comparing with the clock
at any later moment. `tick` is the clock (external).

### FileEvents

The table (`file_events`, `nevent`) and the epoll set next to it, both changed by
`create_file_event` and `delete_file_event`, which any callback may call. The kernel
opens and closes files, reuses their numbers and makes them ready; an edge is kept in
`edge` until it is reported. `process_events` goes through what `event_wait` fetched, the
read and the write callback of a descriptor being two steps, so that the table may move
in between (`moved`): the code keeps a pointer into it. What such a callback then does,
and a file closed before its events are deleted, make the table wrong about a
descriptor; `spoiled` records which, and the properties say what holds of all others.

### Registry

`reg` holds the three tables, `conn` what the tables and the handlers tell connections
apart by, `references` the count of each worker, `msgr` the messenger's flags, its port
and nonce. A handler is a step when it holds `HwMessenger::lock` throughout; the handler
of a connect message is four places (`looked`, `unlocked`, `refused`, `registered`), which are the
points where it has given its own lock up. `stop` is `_stop` of a set of connections
with `unregister_conn`, `release_worker` and the dispatch of the reaper; `Found` and
`lookup_conn` are the lazy deletion. `rebind`, `shutdown` and `wait` are each a chain of
steps with the event loops running in between: stop the processor, stop the connections,
bind again, or join and drain. `leaked` and `ghosts` are histories of two things the code
does: an accept loop takes a reference for the socket that does not come, and
`accept_conn` registers a connection that was stopped while its lock was given up.

### RdmaSocket

A worker's thread runs the calls of its sockets; `get_reged_mem` is two steps, the chunks
taken and what is missing registered (`make_pending_worker`), because the dispatcher may
return chunks in between. `thread` is where a worker is and in whose call. The TCP
handshake is `connect`, `accept`, `handle_connection` (SYN, ACK, the peer's failure),
`send` before it completes keeps data in `pending_bl`, `activate` submits it.
`handle_tx_event`, `post_tx_buffer` and `delete_dead_queue_pairs` are the dispatcher,
`complete` the hardware (external). A queue pair refuses a request with `refused`, and one
destroyed under its requests leaves `lost` chunks. A function that counts chunks is summed
by `Total`, the cardinality of a set of pairs, so that proofs can cite the theorems about
finite sets. `remove_pending_conn` takes out one occurrence where list::remove takes out
all; a socket is in the list at most once, which `ListInv` of the proofs includes.

### RxPool

`receive` is the hardware (external): a chunk leaves the shared receive queue with one or
two units of data, and a completion is queued. The dispatcher polls a batch, refills the
queue from the pool (what is missing is `post_backlog`), hands the chunks to their sockets
(`pass_wc`, which notifies the reader), and goes to sleep in the code's order: rearm, poll
once more, block. A reader is `get_wc` and `read_buffers` (copying) or `zero_copy_read`.
Sockets end in two steps, `erase_qpn` and `drain`, and a chunk of a socket that is gone
is returned by the dispatcher. Reading before the handshake is finished is
`read_too_early`.

## 3. Runs

| run | module, cfg | bounds | properties | distinct states |
|---|---|---|---|---|
| session | SessionMC, Session | 3 messages, 2 spontaneous errors; two peers, and each end as the server | IInv, InOrderArrival, DeliveryInv, LosslessDelivery | 132,844 |
| session_reset | SessionReset | 3 messages, 2 reads, 2 lost sessions | NothingOld, NewKept, AckLeftCounts | 34,018 |
| session_reset_skip | SessionReset, SessionResetSkip | the same | NoSkippedSeq is **violated** | |
| connection | ConnectionMC, Connection | 3 connections per messenger, 2 sockets, global_seq up to 4, connect_seq up to 3 in retries, 1 failure; peers, client and server, lossy client | AssertionsHold, OneConnection, Agreement, SameSessionServed, Undisturbed | 883,930 |
| connection_accept | ConnectionMC, ConnectionAccept | the same, global_seq up to 3, peers | AcceptedOrClosed is **violated** | |
| connection_session | ConnectionMC, ConnectionSession | the same as connection, peers | SameSession is **violated** | |
| receive | ReceiveMC, Receive | one connection fed any of 7 streams byte by byte, one lossy with a larger message; 1 new socket; throttles of 2 messages, 3 and 2 units | NeverGarbled (with PrefetchOrPart), ThrottlesExact, NothingLeftUnread, NoThrottleDeadlock | 1,064,348 |
| event_center | EventCenter | 2 threads and the loop, 2 events, 2 time events, clock 0..2, waits of 1 | NoLostWakeup, RunInOrder, TimersConsistent, EventsRun, TimersFire | 497,127 |
| file_events | FileEvents | descriptors 2 and 8, a table of 2, 3 files opened | TablesAgree, NoLostEdge, AssertionsHold | 3,353,360 |
| registry | RegistryMC, Registry | 3 interchangeable connections, 1 address, 2 workers, 2 ports, threshold 2, 1 leak, 1 rebind | ReferencesExact, NoStale, AllReachable, WaitClosesAll, AddressFresh | 525,677 |
| rdma_socket | RdmaSocketMC, RdmaSocket | 2 workers with a socket each, one connecting and one accepting, 2 chunks, 2 units of data | ChunksConserved, PendingKnown, ForgottenOnlyInWindow, PostedWhenReady, DataPosted | 439,348 |
| rx_pool | RxPoolMC, RxPool | 2 interchangeable chunks, a queue of 2, 2 sockets, one of them zero-copy, 2 units of data | OneOwner, BacklogExact, StarvedOnlyByDead, SleepSafe, ReaderNotified, ReadInOrder | 5,532,352 |

Why the bounds are enough.

- *session*: requeueing needs two messages in `sent` and one queued behind them, hence
  three; a second error is what meets a requeued, partly resent queue.
- *session_reset*: one message in hand, one sent and one new; a second reset catches
  what the first left behind.
- *connection*: on each side one connection registered, one accepting against it and one
  about to be dropped, hence three; two sockets for the crossing attempts of the two
  sides or the two attempts of one; a race takes two attempts, a RETRY_GLOBAL and the
  reply, each of which draws a global_seq, so four is a race after which one side still
  reconnects. One failure (a broken socket, an idle timeout or a mark_down) starts a
  reconnection; those it entails are not counted.
- *receive*: the streams have each kind of item once, a message after another (what is
  prefetched of the second), a message larger than the prefetch buffer, and each way a
  message ends badly. The throttles admit one connection's message and not both, and the
  small message gets past the policy's throttles to wait at the messenger's.
- *event_center*: one event waiting, one being counted and one thread about to write, the
  loop dispatching itself, a time event deleted by the other's callback.
- *file_events*: one descriptor inside the first table and one equal to a size it grows
  to; a third file reuses a number.
- *registry*: a connection registered, one accepting for the same address, and a third
  that arrives when the second one registers; two workers, so that a replacement moves
  references; two addresses would add nothing, each being looked up on its own. A second
  port, so that rebinding to the same one and to another both happen.
- *rdma_socket*: two workers that compete for one chunk fewer than they need.
- *rx_pool*: the pool as large as the queue, so that every chunk a reader keeps is owed;
  a chunk of two units that is read in two pieces, followed by another.

`MaxMsgs`, `MaxFaults`, `MaxReads`, `MaxResets`, `MaxConns`, `MaxSockets`, `MaxGlobal`,
`MaxSeq`, `MaxEvents`, `MaxTimers`, `MaxNow`, `MaxReopen`, `MaxOpens`, `MaxEmpty`,
`MaxRebinds` and `MaxData` are the only bounds, each a guard of the action it limits.
Socket faults that merely follow from a peer's are not counted.

Deadlock is not checked: when the bounds are used up and everything is delivered, the
models stop, as the program idles. That nobody waits for somebody who waits is stated
where the code could do it: `EventsRun`, `NothingLeftUnread`, `NoThrottleDeadlock`,
`PendingKnown`, `SleepSafe`, `ReaderNotified`.

Fairness. In Session the two loops run what is queued for them, a closed socket is
noticed by its reader (`PeerClosed`, `ReceiverPeerClosed`) and a connection attempt
succeeds eventually (the code retries with a bounded backoff for as long as the
connection exists). Nothing is assumed of users, of spontaneous errors or of the other
direction's traffic: where the sender is the server, it is the receiver, a plain client,
that reconnects. In EventCenter every thread that is inside a call goes on, and the
loop too. The clock stops at `MaxNow`, so no liveness property is obtained from
`event_wait` timing out, which in the code takes 30 s; only due time events end a wait.
In RdmaSocket the workers' loops and the dispatcher run and the hardware completes what
it was given, with an error after its retries at the latest; peers need not answer. The
other specifications state no fairness, and no property that needs any.

What the violations show.

1. *Skipped number* (`NoSkippedSeq`). `write_message` executes `m->set_seq(++out_seq)`
   without `write_lock`. If `was_session_reset` runs between the pop and that line,
   `out_seq` is zeroed and then incremented for a message that is thrown away, and the
   new session's first message carries number 2: the peer logs "missed message?", or
   fails `assert(0 == "skipped incoming seq")`.
2. *Accepted, and replaced at once* (`AcceptedOrClosed`). `accept_conn` is called without
   `lock`, "because replacing will prevent other connections preempt this addr". A
   connection that is not itself being replaced has `replacing` false; registered, it is
   found by the peer's next attempt, which replaces it. Back from `accept_conn` its state
   is STATE_NONE, and `assert(state == STATE_CLOSED)` fails. It takes a peer that loses
   its first socket and retries before the acceptor has its lock back.
3. *Two sessions mixed* (`SameSession`). An attempt whose `existing` is closed between the
   lookup and its lock goes to `open` without the test that would have answered
   RESETSESSION for a connect_seq above 0. The peer then continues its session, with its
   sequence numbers, on a connection that starts at 0: messages are dropped as old or seen
   as skipped. The run does it with one mark_down. Between a client and its server
   (`SameSessionServed`) one failure does not lead there.

Other weak places of the code are named inside properties that hold, as exceptions with a
history variable: without the exception TLC finds them. They are the wrap of `ack_left`
(`torn`), the throttles an old message gives back twice (`discarded`), the prefetched
bytes that wait after a KEEPALIVE (`quiet`), the reference an accept loop takes for nobody
(`leaked`), the stopped connection that is registered (`ghosts`), the descriptor equal to
the table's new size (`overrun` in AssertionsHold), the callback found through a stale
pointer and the file closed with its events (`spoiled`), the wakeup a worker misses between
taking no chunk and registering (`missed`), the chunks of a refused request and of a
destroyed queue pair (`refused`, `lost`), the chunk looked at after it was returned
(`reread`) and the backlog a dead socket's chunk does not pay (`unpaid`).

In Connection two peers that reconnect at the same time may answer RETRY_SESSION to each
other with ever larger numbers. `MaxSeq` cuts this off, and no run claims that the
handshake ends.

## 4. Proofs

TLAPS proves, for all values of the constants allowed by the modules' assumptions:

| theorem | statement |
|---|---|
| `SessionProofs!Invariant` | `Spec => []IInv` |
| `SessionProofs!TypeCorrect` | `Spec => []TypeOK` |
| `SessionProofs!NeverOldNeverSkipped` | `Spec => []InOrderArrival` |
| `SessionProofs!DeliveryIsExact` | `Spec => []DeliveryInv` |
| `SessionProofs!ImplementsChannel` | `Spec => Channel!Init /\ [][Channel!Next]_(Channel!vars)` |
| `EventCenterProofs!Invariant`, `TypeCorrect` | the inductive invariant and TypeOK |
| `EventCenterProofs!WakeupNeverLost` | `Spec => []NoLostWakeup` |
| `EventCenterProofs!EventsRunInOrder` | `Spec => []RunInOrder` |
| `EventCenterProofs!TimersStayConsistent` | `Spec => []TimersConsistent` |
| `ConnectionProofs!Invariant`, `TypeCorrect` | the inductive invariant and TypeOK |
| `ConnectionProofs!RegisteredOnce` | `Spec => []OneConnection` |
| `ConnectionProofs!NoOtherAssertionFails` | `Spec => []AssertionsHold` |
| `ConnectionProofs!EndsAgree` | `Spec => []Agreement` |
| `ConnectionProofs!TalkUndisturbed` | `Spec => Undisturbed` |
| `RegistryProofs!TypeCorrect` | `Spec => []TypeOK` |
| `RegistryProofs!ReferencesAreExact` | `Spec => []ReferencesExact` |
| `RegistryProofs!NoneIsStale` | `Spec => []NoStale` |
| `RegistryProofs!OpenOnesAreReachable` | `Spec => []AllReachable` |
| `RegistryProofs!WaitClosesThemAll` | `Spec => []WaitClosesAll` |
| `RegistryProofs!AddressIsFresh` | `Spec => AddressFresh` |
| `FileEventsProofs!Invariant`, `TypeCorrect` | the inductive invariant and TypeOK |
| `FileEventsProofs!TableAndEpollAgree` | `Spec => []TablesAgree` |
| `FileEventsProofs!NoEdgeIsLost` | `Spec => []NoLostEdge` |
| `FileEventsProofs!AssertionsFailInTwoCases` | `Spec => []AssertionsHold` |
| `SessionResetProofs!Invariant`, `TypeCorrect` | the inductive invariant and TypeOK |
| `SessionResetProofs!NothingOldArrives` | `Spec => []NothingOld` |
| `SessionResetProofs!NothingNewIsLost` | `Spec => []NewKept` |
| `SessionResetProofs!AcknowledgementsAreExact` | `Spec => []AckLeftCounts` |
| `RxPoolProofs!Invariant`, `TypeCorrect` | the inductive invariant and TypeOK |
| `RxPoolProofs!ChunksHaveOneOwner` | `Spec => []OneOwner` |
| `RxPoolProofs!BacklogIsExact` | `Spec => []BacklogExact` |
| `RxPoolProofs!QueueIsFed` | `Spec => []StarvedOnlyByDead` |
| `RxPoolProofs!DispatcherIsWoken` | `Spec => []SleepSafe` |
| `RxPoolProofs!ReadersAreNotified` | `Spec => []ReaderNotified` |
| `RxPoolProofs!ReadsFollowTheStream` | `Spec => []ReadInOrder` |
| `RdmaSocketProofs!Invariant`, `TypeCorrect` | the inductive invariant and TypeOK |
| `RdmaSocketProofs!ChunksAreConserved` | `Spec => []ChunksConserved` |
| `RdmaSocketProofs!WaitersAreKnown` | `Spec => []PendingKnown` |
| `RdmaSocketProofs!ForgottenInOneWindow` | `Spec => []ForgottenOnlyInWindow` |
| `RdmaSocketProofs!NothingPostedEarly` | `Spec => []PostedWhenReady` |

*Session.* That the receiver sees exactly the next number (`InOrderArrival`) is not
inductive: it depends on what the sender will requeue. `IInv` follows the numbers
from the sender's lists through the socket to the receiver. `sent` is numbered
consecutively up to `out_seq` (`SentInv`), the first messages of the highest priority
continue from there and everything behind them has number 0 (`QueueInv`), the socket
continues `in_seq`, and while both ends are open it ends at `out_seq` (`ReceiverInv`);
notes on the way back never claim more than `in_seq`, and an exchanged number is exact
(`NotesInv`). The message in hand is the one exception to each, carried by `Pending`.
The receiver is never ahead of the highest number ever given (second half of
`QueueInv`): this is why a number given back can be given out again only to the same
message.

*The channel.* That nothing is lost, doubled or overtaken is a statement about which
message has which number. `Numbers(s)` is the message that has number `s`, or gets it if
nothing overtakes it: `sent`, the highest priority and the default one read one after the
other, from `Acked` on. `Due` is what lies beyond `in_seq`. `DeliveryInv` says that the
socket holds the first of what is due (`SocketInv`) and that what is due is exactly what
was submitted and not dispatched, each priority in order (`DueInv`). A requeue, an
acknowledgement, a discard, a write and a fault then change the lists but no `Numbers(s)`
of what is due, which is one lemma (`KeepDue`); it needs of `IInv` that an acknowledgement
and the exchanged number never pass `in_seq`. Only `send_message` (`SendPlace`: the
message is put behind those of its priority, and only default ones move back) and
`read_message` (the first of what is due, hence the oldest of its priority) are steps of
the channel.

*EventCenter.* `NoLostWakeup` needs that a non-zero count is always accompanied by a
reason for the loop to get up: the pipe, the thread that counted first, or the loop
being awake. `RunInOrder` is inductive with the lock's owner known; `TimersConsistent`
needs that ids are never reused and that pending, fired and deleted ids are disjoint.

*Connection.* From `ConnectionAssumption`: the bounds are any natural numbers, the policies
any set of policies; so connections, sockets, failures and the values of global_seq and
connect_seq are as many as one likes. None of the properties is inductive. `OneConnection`
is about who is registered, and a connection is registered by an acceptor long before it is
past the handshake: `Registers` says that whoever claims the entry (past the handshake,
back from it, being replaced, or an acceptor back from `accept_conn`) has it, and that the
connection an acceptor looked up stays registered until it is closed, however long the
acceptor waits for its lock. `Place` and `Socket` say what goes with a state: where the
handler is, that STATE_NONE means a replacement under way, and whether it has given the old
socket up. The assertions (in `handle_connect_reply`, after the locks are taken again, and
in the two lambdas of a replacement) follow from `Place`, `Socket` and `Answers`. `Agreement` compares the two ends of a socket, which take over their
connect_seq at different times and from different messages: `Shared` follows a socket
through a handshake. While one end waits for an answer, exactly one of these is the case:
its connect message is on the way, an acceptor at the other end has it, or the answer is on
the way (`Waits`, `Answered`), and the answer counts one session more than was asked with
(`Answers`), or one that RETRY_SESSION raises it to. A replacement moves an end from one
connection to another (`Inherits`), and a socket has at most one end per messenger
(`OneEnd`). `Given` bounds what a messenger can know of a global_seq.

`fault`, `stop` and the replacement change several connections and are called from most
handlers, so the argument about sockets is made once for each way a connection can change:
`Keeps` (at a socket nothing but less), `Stays` (stopped, or alike), `Quiet` and `Elsewhere`
(a socket nobody touches), `Exchange` (one end takes a message and answers it) and
`TakesOver` (one connection inherits another's socket); an action's own lemma shows which of
them it is for each connection.

`Undisturbed` is an action property, and it needs to know of a connect message that is still
on its way that it is old. `FreshInv` has two parts beyond `IInv`. `Recent`: the attempt of a
connection that waits is the latest of its messenger, because only the registered connection
connects, and the answer of an acceptor is later than every attempt of the acceptor's own
messenger. `Fits`: two ends past the handshake each know a number that no attempt of the
other's messenger has. So whatever connect message (`Attempt`) reaches an open connection is
`Outdated`, and the handler refuses it; each action is shown to be `Good`, that is, to keep
`FreshInv` and to leave pairs that talk `Untouched`. TLC checked `FreshInv` on the bounds of
run `connection`, and by simulation with three failures.

*Registry.* From `RegistryAssumption`: finitely many connections, at least one worker.
`ReferencesExact` is inductive given the types and that a connection in the middle of its
connect message has an address (`Placed`); the counts of workers are cardinalities, so
each step comes down to adding, removing or moving an element of a finite set
(the first part of the module). That `references` is a natural number, which `release_worker`
asserts, is a consequence. The other invariants hold together only: `AllReachable` needs
that what a handler has looked up or registered is still registered when it takes the
lock again (`Looked`, `InUse`), that an entry is under its connection's own address
(`Addressed`) and that only stopped connections unregister (`Lapsed`); `NoStale` needs
`Lapsed` and `Addressed`; `WaitClosesAll` needs that from `wait_close` on nobody listens
and nobody connects (`Ended` and `MsgrInv`), although the event loops are still at work.
`Gentle`, `Fewer` and `Stopping` describe what most handlers do, so that the argument is
made once (`TablesKept`). `AddressFresh` follows from `MsgrInv`: every address in use has
a nonce below the next one.

*FileEvents.* From `FileEventsAssumption`: finitely many descriptors, which are natural
numbers, and a table that is not empty. `TablesAgree` is inductive once a closed file is
known to have left the epoll set (`ClosedInv`). `NoLostEdge` is not inductive: between the
read and the write part of a report the read part is behind the loop, and `HandledInv`
says that what was there to be read has been handled, or has been registered or become
ready since. What users and the kernel do leaves the loop where it is, and one formula
(`EdgeStep`) says what that does to a readiness: it will be reported, or it was there
before and is no worse off; `EdgesKept` then covers every place in the loop at once.
`AssertionsHold` rests on the growth of the table: `new_size` is the first of the sizes
4, 16, ... times the old one that is not below the descriptor. The module writes the loop
as a recursive function (`Sizes`); that a function with this recursion exists, that it
grows beyond every number, and that the CHOOSE in `Quadrupled` therefore has a value are
`SizesAre`, `SizesGrow` and `QuadrupledIs`, each by a least counterexample (`LeastOf`).

*SessionReset.* From `ResetAssumption`: the word `ack_left` is kept in can count the
messages read (`MaxReads < Word`; a word of 64 bits does). Two loops work on one
connection, and `PhaseInv` says what the phase of the replacement tells of the other
loop: `cs`, whose socket the connection has, is the lost peer's from `was_session_reset`
until `deactivate_existing`, and CANWRITE is set only while it is the present one's. What
lies in the lists is then always of the present session, and what lies in the buffer or
is being written is of the session whose socket it is for (`FreshInv`); while the socket
is the lost peer's, everything submitted since waits in `out_q` (`KeptInv`), which is why
dropping the buffer loses nothing. `AckInv` carries `handle_write`'s copy of `ack_left`
(`left`), the value that may be stale after a reset. `SentInv` is needed for the types
only: `requeue_sent` takes back no more numbers than were given.

*RxPool.* From `RxPoolAssumption`: finitely many chunks, at least as many as the queue
takes. `OneOwner` says of each chunk that its places add up to one; the proof is about
the places instead: no two hold a chunk in common and together they hold all
(`OwnerInv`), and no queue holds one twice (`OnceInv`), so that lengths of queues are
numbers of chunks and `BacklogExact` becomes a statement about cardinalities. Each step
moves chunks from one place to another; what it moves out of a queue is described by
`Select`, which the module defines by rank and not by recursion: the element at place k
is the one with k chosen positions up to it. That it is a bijection between places and
chosen positions takes a least element (`LeastOf`), which the library's theorem about
well-founded sets gives where induction would have to be used. `SleepSafe` needs that the
channel, once rearmed, has its event or will give one (`PollInv`); `StarvedOnlyByDead`
needs that while something is owed the pool is empty; `ReaderNotified` is inductive with
what a closed socket may still hold (`LifeInv`).

`ReadInOrder` takes an invariant of its own beside `IInv`. `StreamInv` says that what a
socket has read, what is in its buffers, in the completions passed to it, in the batch of the
dispatcher and in the completion queue are consecutive stretches of its stream: each ends
where the next one starts, and the last at what was sent. A queue holds completions of several
sockets, so a stretch is described by marks (`Marks`): one place in the stream for each
position of the queue, which moves on at the completions of the socket (`Tiles`). Marks
survive what the steps do to queues: selecting the completions of one socket (`TilesSelect`),
dropping those without data (`TilesDrop`), appending (`TilesAppend`, `CarriesConcat`) and
reading units off the front (`RestCarries`). A completion without data is a fin and marks an
end (`End`), which nothing follows (`FinAtEnd`); this, and that a read which wants more has
emptied the buffers before it takes from the completions (`Reading`), gives the second half
of the property. `Data` is a fold of the library (`FlattenSeq`); that it is the units between
two marks (`MarksData`) goes by a least counterexample.

*RdmaSocket.* From `RdmaSocketAssumption`: finitely many workers and sockets, at least
one chunk, and a value for "no socket". `PendingKnown` relates a socket, a list, a thread
and the dispatcher, and each of them changes under the others. `ThreadInv` says what a
worker inside `submit` or back from it still has to do, `ListInv` what being in its list
means (each socket once, open, marked, and the worker known to the dispatcher or at work),
`SocketInv` that a socket that is short is marked and a marked one is in the list or in
the worker's hands. The mark (`set_pending`) is what keeps it in the list once, and what
the mutant of `submitted_pending` forgets. `ForgottenOnlyInWindow` says that nobody is left
waiting when nothing is in flight; the invariant behind it (`WaitInv`) says at every moment
who is going to wake the workers that wait: `Responsible` is a chunk with the hardware or
in the completion queue, the dispatcher about to notify, a worker that was notified and
will work through its list or post chunks, or one of the losses named in the property. The
responsibility is handed on by every step, and the only step that drops it is a
notification that finds the list empty while a worker is in the window of `get_reged_mem`,
which sets `missed`. `ChunksConserved` is inductive with the types: what moves between its
parts is a change of a sum at one point (`TotalExcept`) or a split of one (`TotalSplit`).
`PostedWhenReady` needs that whoever may post is ready or was hung up on (`Sendable`), from
the handshake (`SocketInv`) through the list (`ListInv`) to the thread (`ThreadInv`).

The invariants of Connection, FileEvents, SessionReset, RxPool and RdmaSocket were checked
with TLC on the bounds of section 3 (`IInv` of RxPool with one unit of data) before they were
proved.

What is left to TLC. Liveness (`LosslessDelivery`, `EventsRun`, `TimersFire`, `DataPosted`)
is out of the prover's reach. `SameSessionServed` of `Connection` holds within the bound of
one failure only, so it is no theorem about every value of the constants. The four invariants
of `Receive` are checked, not proved. The theorems of induction take an operator as their
parameter, which the provers cannot instantiate; where the proofs need an operation on
data it is defined without recursion (`Select`, `Total`), or as a recursive function of
which the little that is needed follows from a least counterexample (`Sizes`, `Data`).

## 5. What could follow

A run of Connection with lossless_peer (no resetcheck) and one with a second failure, for
both of which the state space has to be cut down first; proofs of `ThrottlesExact` and
`NeverGarbled`; FileEvents and EventCenter as one loop; the negotiated step `Reconnect`
of Session as an abstraction of Connection.

## 6. Not modelled

- *Conversions*: wire formats, checksums, signatures and authorizers (BADAUTHORIZER,
  MSG_AUTH), mismatches of features or protocol. What they decide is an input where it
  changes control (the outcome of a frame), and left out of the handshake.
- *Bytes in chunks*: `tx_copy_chunk` and the layout of a buffer list over registered
  chunks; data is counted in units.
- *Fault injection*: DelayedDelivery, ms_inject_*.
- *Configurations the program does not have*: a bind postponed until the stack is ready
  (every stack of the repository is ready at once), the DPDK and POSIX stacks (not in the
  repository), pollers, the kqueue and select drivers.
- *Policies*: lossless_peer without resetcheck. Lossy connections are in Connection,
  Receive and Registry, not in Session: they keep no `sent`.
- *Timing*: keepalives and their timeouts, backoff, which may be as short or as long as it
  likes; STATE_WAIT_SEND (partial writes of the handshake).
- *Two event centers waiting for each other* in submit_to (a loop that closes a socket
  whose worker is another one): EventCenter is one loop and threads without one.
- *Setup*: verbs calls (devices, ports, protection domains, registration of memory, states
  of queue pairs), creation and binding of threads, perf counters, socket options.
- *The unfinished rewrite* `rdma/RDMAReliableConnected.cc` and the older copies in
  `backup/` and `rdma/ceph_rdma/`.
