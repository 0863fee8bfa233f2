------------------------------ MODULE Receive ------------------------------
(***************************************************************************)
(* The receiving half of a connection: process() reads one item after      *)
(* another from the socket, through a prefetch buffer and possibly in      *)
(* pieces, takes three throttles for a message before it reads its body,   *)
(* and passes it to the dispatch queue, which gives them back.             *)
(*                                                                         *)
(* Connections of one policy share its throttles; each runs in the thread  *)
(* of a worker of its own, under its lock except during fast_dispatch.     *)
(* Step by step, an action is one case of process().  The bytes of a       *)
(* stream are numbered; its frames say what they mean.  The middle of a    *)
(* message is read as its front is, and is left out.  The sockets are      *)
(* edge-triggered: an event says that something arrived since the last.    *)
(***************************************************************************)
EXTENDS Integers, SequencesExt, FiniteSetsExt

CONSTANTS
  Conns,
  Streams,           \* per connection, what its peer may send: sequences of Frames
  InPieces,          \* the connections whose bytes may arrive one at a time
  Lossy,             \* the connections with a lossy policy
  HeaderLen,         \* bytes of a header; a tag, a footer, a timestamp and an ack have one
  recv_max_prefetch,
  MaxReopen,         \* bound on the times a connection gets a new socket
  MaxMessages, MaxBytes, MaxDispatch   \* limits of the throttles

\* end: what process() finds out about the message once it is all there.
Frame == [tag : {"MSG", "KEEPALIVE", "KEEPALIVE2", "KEEPALIVE2_ACK", "ACK", "CLOSE", "bad"},
          front : Nat, data : Nat,
          end : {"ok", "bad_header", "aborted", "bad_signature", "old"}]

ASSUME ReceiveAssumption ==
  /\ \A c \in Conns : Streams[c] \subseteq Seq(Frame)
  /\ InPieces \subseteq Conns /\ Lossy \subseteq Conns
  /\ HeaderLen \in Nat \ {0} /\ recv_max_prefetch \in Nat \ {0}
  /\ MaxReopen \in Nat
  /\ MaxMessages \in Nat /\ MaxBytes \in Nat /\ MaxDispatch \in Nat

VARIABLES
  conn,               \* the connections, see Conn
  stream,             \* per connection, the frames its peer sends on each socket
  avail,              \* per connection, the bytes of them that have arrived
  throttler_messages, throttler_bytes,   \* of the policy
  dispatch_throttler, \* of the messenger
  queue,              \* per connection, sizes of the messages in the dispatch queue
  handling,           \* per connection, sizes of the messages being dispatched
  reopened,           \* the times a connection got a new socket
  discarded           \* history: sizes of the messages discarded as old

throttles == <<throttler_messages, throttler_bytes, dispatch_throttler>>
vars == <<conn, stream, avail, throttles, queue, handling, reopened, discarded>>

\* The states in the order of RC_State, which reset_recv_state compares.
ReadStates == <<"OPEN", "KEEPALIVE2", "KEEPALIVE2_ACK", "TAG_ACK", "MESSAGE_HEADER",
  "THROTTLE_MESSAGE", "THROTTLE_BYTES", "THROTTLE_DISPATCH_QUEUE", "READ_FRONT",
  "READ_DATA", "READ_FOOTER_AND_DISPATCH", "TAG_CLOSE">>
Order(state) == IF state \in Range(ReadStates)
                THEN CHOOSE i \in DOMAIN ReadStates : ReadStates[i] = state ELSE 0
Throttling == {"THROTTLE_MESSAGE", "THROTTLE_BYTES", "THROTTLE_DISPATCH_QUEUE"}

\* at: process() is not running, is running, or has dropped its lock to dispatch.
\* read: bytes taken from the socket.  recv_buf: the prefetched ones.  buf: what
\* the item being read has so far, state_offset bytes of it are good.  parsed:
\* the last byte of the last whole item.  register_time_events: a wakeup is
\* registered.  stuck: the last message was old, its state is kept.  quiet:
\* process() returned although it might have gone on, see NothingLeftUnread.
\* The acknowledgements process() leaves to the write handler are Session's.
\* State "NONE" stands for every state in which the connection has no session.
Conn == [state : Range(ReadStates) \cup {"NONE", "CLOSED"}, at : {"out", "run", "fast"},
         readable : BOOLEAN, register_time_events : BOOLEAN,
         read : Nat, recv_buf : Seq(Nat), state_offset : Nat, buf : Seq(Nat), parsed : Nat,
         frame : Nat, garbled : BOOLEAN, stuck : BOOLEAN, quiet : BOOLEAN]
\* process() has just finished the handshake.
NewConn == [state |-> "OPEN", at |-> "run", readable |-> FALSE, register_time_events |-> FALSE,
            read |-> 0, recv_buf |-> <<>>, state_offset |-> 0, buf |-> <<>>, parsed |-> 0,
            frame |-> 0, garbled |-> FALSE, stuck |-> FALSE, quiet |-> FALSE]

Least(a, b) == IF a < b THEN a ELSE b
cur(c) == stream[c][conn[c].frame]
cur_msg_size(c) == cur(c).front + cur(c).data
Bytes(f) == CASE f.tag = "MSG" -> 2 + HeaderLen + f.front + f.data
              [] f.tag \in {"KEEPALIVE2", "KEEPALIVE2_ACK", "ACK"} -> 2
              [] OTHER -> 1
SumSeq(s) == LET sum[n \in 0 .. Len(s)] == IF n = 0 THEN 0 ELSE sum[n - 1] + s[n]
             IN  sum[Len(s)]
Total(c) == SumSeq([i \in DOMAIN stream[c] |-> Bytes(stream[c][i])])

-------------------------------------------------------------------------------
(* read_until. *)

\* memcpy of the bytes s to p + offset.
Copy(p, offset, s) ==
  [i \in 1 .. (IF Len(p) < offset + Len(s) THEN offset + Len(s) ELSE Len(p)) |->
     IF i > offset /\ i <= offset + Len(s) THEN s[i - offset] ELSE p[i]]

\* The ways read_bulk, called until it has left bytes or there are none, can
\* advance the socket: calls ask for more bytes than are left, unless the item
\* is too long for the prefetch buffer.
Bulk(c, len, left) ==
  LET here == avail[c] - conn[c].read
      most == IF len > recv_max_prefetch THEN left ELSE left - 1 + recv_max_prefetch
  IN  IF here < left THEN {here} ELSE left .. Least(here, most)

\* The next item starts at its beginning.  Mutant: where this one went on.
NextItem_there(o) == o
NextItem(o) == [o EXCEPT !.state_offset = 0]

\* What the connection o is after read_until(len), and whether the item is whole.
read_until(c, len) ==
  LET o == conn[c]
      to_read == Least(Len(o.recv_buf), len - o.state_offset)
      buffered == Copy(o.buf, 0, SubSeq(o.recv_buf, 1, to_read))
      rest == SubSeq(o.recv_buf, to_read + 1, Len(o.recv_buf))
      offset == o.state_offset + to_read
      left == len - offset
      Got(n) == [i \in 1 .. n |-> o.read + i]
      Whole(p) == [done |-> TRUE, o |->
        [o EXCEPT !.parsed = @ + len, !.buf = <<>>,
                  !.garbled = @ \/ SubSeq(p, 1, len) # [i \in 1 .. len |-> o.parsed + i]]]
  IN  IF left = 0
      THEN {[Whole(buffered) EXCEPT !.o.recv_buf = rest]}
      ELSE {IF n < left
            THEN [done |-> FALSE, o |->
                    [o EXCEPT !.recv_buf = <<>>, !.read = @ + n, !.state_offset = offset + n,
                              !.buf = Copy(buffered, offset, Got(n))]]
            ELSE LET whole == Whole(Copy(buffered, offset, Got(left))) IN
                 [whole EXCEPT !.o = [NextItem(@) EXCEPT
                    !.recv_buf = SubSeq(Got(n), left + 1, n), !.read = @ + n]]
            : n \in Bulk(c, len, left)}

-------------------------------------------------------------------------------
(* The throttles. *)

\* Throttle::get_or_fail: a request above the limit passes when the limit is not
\* exceeded yet.
get_or_fail(count, size, max) ==
  IF size <= max THEN count + size <= max ELSE count <= max

\* put of m messages, b bytes and d bytes of the dispatch throttle.  Its assertion
\* that as much was taken ends the process: the model has no step then.
Release(m, b, d) ==
  /\ throttler_messages >= m /\ throttler_bytes >= b /\ dispatch_throttler >= d
  /\ throttler_messages' = throttler_messages - m
  /\ throttler_bytes' = throttler_bytes - b
  /\ dispatch_throttler' = dispatch_throttler - d

\* What the connection holds for the message it is reading.
Holds(c, since) ==
  /\ Order(conn[c].state) > Order(since)
  /\ Order(conn[c].state) <= Order("READ_FOOTER_AND_DISPATCH")
Messages(c) == IF Holds(c, "THROTTLE_MESSAGE") THEN 1 ELSE 0
PolicyBytes(c) == IF Holds(c, "THROTTLE_BYTES") THEN cur_msg_size(c) ELSE 0
DispatchBytes(c) == IF Holds(c, "THROTTLE_DISPATCH_QUEUE") THEN cur_msg_size(c) ELSE 0

\* Mutant: the dispatch throttle is forgotten.
reset_recv_state_policy(c) == Release(Messages(c), PolicyBytes(c), 0)
reset_recv_state(c) == Release(Messages(c), PolicyBytes(c), DispatchBytes(c))

-------------------------------------------------------------------------------
(* process(): one case of its switch each. *)

\* At the end of a case: once more if the state has changed.
Return(o) == [o EXCEPT !.at = "out"]
Loop(c, o) == conn' = [conn EXCEPT ![c] = IF o.state # conn[c].state THEN o ELSE Return(o)]

In(c, state) == conn[c].at = "run" /\ conn[c].state = state

\* An item of len bytes is read, or process() returns; when whole, Case(o) says
\* what the connection becomes.
Read(c, len, Case(_)) ==
  \E r \in read_until(c, len) : Loop(c, IF r.done THEN Case(r.o) ELSE r.o)

\* _stop: also drops the messages still in the dispatch queue.
stop(c, o) ==
  /\ Release(Messages(c) + Len(queue[c]), PolicyBytes(c) + SumSeq(queue[c]),
             DispatchBytes(c) + SumSeq(queue[c]))
  /\ queue' = [queue EXCEPT ![c] = <<>>]
  /\ conn' = [conn EXCEPT ![c] = [o EXCEPT !.state = "CLOSED", !.state_offset = 0]]

\* What the connection o becomes without a session.  Mutant: state_offset is kept.
Reset_buffer(o) == [o EXCEPT !.state = "NONE", !.recv_buf = <<>>]
Reset(o) == [o EXCEPT !.state = "NONE", !.recv_buf = <<>>, !.state_offset = 0]

\* fault(): the connection is to have another socket, or stops.  process() ends.
fault(c, o) ==
  \/ c \in Lossy /\ stop(c, Return(o))
  \/ /\ c \notin Lossy
     /\ reset_recv_state(c)
     /\ conn' = [conn EXCEPT ![c] = [Reset(Return(o)) EXCEPT !.register_time_events = FALSE]]
     /\ UNCHANGED queue

NoDispatch == UNCHANGED <<stream, avail, handling, reopened, discarded>>
NoMessage == UNCHANGED <<throttles, queue>> /\ NoDispatch

StateOfTag(tag) == CASE tag = "MSG" -> "MESSAGE_HEADER" [] tag = "ACK" -> "TAG_ACK"
                     [] tag = "CLOSE" -> "TAG_CLOSE" [] tag = "KEEPALIVE" -> "OPEN"
                     [] OTHER -> tag

\* A KEEPALIVE leaves the state as it is, so that process() returns.
read_tag(c) ==
  /\ In(c, "OPEN")
  /\ \E r \in read_until(c, 1) :
       LET f == stream[c][conn[c].frame + 1]
           o == [r.o EXCEPT !.frame = @ + 1]
       IN  \/ ~r.done /\ Loop(c, r.o) /\ NoMessage
           \/ /\ r.done /\ f.tag # "bad"
              /\ Loop(c, [o EXCEPT !.state = StateOfTag(f.tag), !.quiet = (f.tag = "KEEPALIVE")])
              /\ NoMessage
           \/ r.done /\ f.tag = "bad" /\ fault(c, o) /\ NoDispatch

\* What these answer or acknowledge is Session's.
read_stamp(c, state) ==
  /\ In(c, state) /\ NoMessage
  /\ Read(c, 1, LAMBDA o : [o EXCEPT !.state = "OPEN"])
read_keepalive2(c) == read_stamp(c, "KEEPALIVE2")
read_keepalive2_ack(c) == read_stamp(c, "KEEPALIVE2_ACK")
read_ack(c) == read_stamp(c, "TAG_ACK")

read_header(c) ==
  /\ In(c, "MESSAGE_HEADER") /\ NoDispatch
  /\ \E r \in read_until(c, HeaderLen) :
       \/ r.done /\ cur(c).end = "bad_header" /\ fault(c, r.o)
       \/ /\ ~(r.done /\ cur(c).end = "bad_header")
          /\ Loop(c, IF r.done THEN [r.o EXCEPT !.state = "THROTTLE_MESSAGE"] ELSE r.o)
          /\ UNCHANGED <<throttles, queue>>

\* A throttle is full: process() returns, to be woken up in a millisecond.
\* Mutant: nobody wakes it up.
wait_for_throttle_only(c) == Loop(c, conn[c])
wait_for_throttle(c) == Loop(c, [conn[c] EXCEPT !.register_time_events = TRUE])

throttle_message(c) ==
  /\ In(c, "THROTTLE_MESSAGE")
  /\ UNCHANGED <<throttler_bytes, dispatch_throttler, queue>> /\ NoDispatch
  /\ IF get_or_fail(throttler_messages, 1, MaxMessages)
     THEN /\ throttler_messages' = throttler_messages + 1
          /\ Loop(c, [conn[c] EXCEPT !.state = "THROTTLE_BYTES"])
     ELSE wait_for_throttle(c) /\ UNCHANGED throttler_messages

\* An empty message takes nothing.
throttle_bytes(c) ==
  /\ In(c, "THROTTLE_BYTES")
  /\ UNCHANGED <<throttler_messages, dispatch_throttler, queue>> /\ NoDispatch
  /\ IF cur_msg_size(c) = 0 \/ get_or_fail(throttler_bytes, cur_msg_size(c), MaxBytes)
     THEN /\ throttler_bytes' = throttler_bytes + cur_msg_size(c)
          /\ Loop(c, [conn[c] EXCEPT !.state = "THROTTLE_DISPATCH_QUEUE"])
     ELSE wait_for_throttle(c) /\ UNCHANGED throttler_bytes

throttle_dispatch_queue(c) ==
  /\ In(c, "THROTTLE_DISPATCH_QUEUE")
  /\ UNCHANGED <<throttler_messages, throttler_bytes, queue>> /\ NoDispatch
  /\ IF cur_msg_size(c) = 0 \/ get_or_fail(dispatch_throttler, cur_msg_size(c), MaxDispatch)
     THEN /\ dispatch_throttler' = dispatch_throttler + cur_msg_size(c)
          /\ Loop(c, [conn[c] EXCEPT !.state = "READ_FRONT"])
     ELSE wait_for_throttle(c) /\ UNCHANGED dispatch_throttler

\* A part without bytes is not read at all.
read_part(c, state, len, next) ==
  /\ In(c, state) /\ NoMessage
  /\ IF len = 0 THEN Loop(c, [conn[c] EXCEPT !.state = next])
                ELSE Read(c, len, LAMBDA o : [o EXCEPT !.state = next])
read_front(c) == /\ Order(conn[c].state) > 0 /\ conn[c].frame > 0
                 /\ read_part(c, "READ_FRONT", cur(c).front, "READ_DATA")
read_data(c) == /\ Order(conn[c].state) > 0 /\ conn[c].frame > 0
                /\ read_part(c, "READ_DATA", cur(c).data, "READ_FOOTER_AND_DISPATCH")

\* The message is there.  It takes over what the connection holds, and goes to
\* the dispatch queue, or to its handler with the lock dropped.
dispatch(c, o) ==
  /\ conn' = [conn EXCEPT ![c] = o] /\ UNCHANGED queue
  /\ handling' = [handling EXCEPT ![c] = Append(@, cur_msg_size(c))]
enqueue(c, o) ==
  /\ conn' = [conn EXCEPT ![c] = o] /\ UNCHANGED handling
  /\ queue' = [queue EXCEPT ![c] = Append(@, cur_msg_size(c))]

\* A message that came before: it gives back the policy's throttles, and process()
\* returns with the state still at the footer.
discard_old(c, o) ==
  /\ Release(1, cur_msg_size(c), 0)
  /\ conn' = [conn EXCEPT ![c] = Return([o EXCEPT !.stuck = TRUE, !.quiet = TRUE])]
  /\ discarded' = Append(discarded, cur_msg_size(c))
  /\ UNCHANGED <<queue, handling>>

\* Aborted messages, those that cannot be decoded or whose signature is wrong, and
\* other bytes read as a footer, fail.
read_footer(c) ==
  /\ In(c, "READ_FOOTER_AND_DISPATCH")
  /\ \E r \in read_until(c, 1) :
       LET end == IF r.o.stuck THEN "aborted" ELSE cur(c).end
           o == [r.o EXCEPT !.state = "OPEN"]
       IN  \/ ~r.done /\ Loop(c, r.o) /\ UNCHANGED <<throttles, queue, handling, discarded>>
           \/ /\ r.done /\ end = "ok" /\ UNCHANGED <<throttles, discarded>>
              /\ dispatch(c, [o EXCEPT !.at = "fast"]) \/ enqueue(c, o)
           \/ r.done /\ end = "old" /\ discard_old(c, r.o)
           \/ /\ r.done /\ end \in {"aborted", "bad_signature"}
              /\ fault(c, r.o) /\ UNCHANGED <<handling, discarded>>
  /\ UNCHANGED <<stream, avail, reopened>>

\* fast_dispatch has returned and the lock is taken again.
fast_dispatched(c) ==
  /\ conn[c].at = "fast"
  /\ conn' = [conn EXCEPT ![c].at = "run"] /\ NoMessage

read_close(c) ==
  /\ In(c, "TAG_CLOSE")
  /\ stop(c, Return(conn[c])) /\ NoDispatch

\* The connection was replaced or stopped while its lock was free.
read_nothing(c) ==
  /\ In(c, "NONE") \/ In(c, "CLOSED")
  /\ Loop(c, conn[c]) /\ NoMessage

-------------------------------------------------------------------------------
(* What makes process() run. *)

Run(o) == [o EXCEPT !.at = IF Order(o.state) > 0 THEN "run" ELSE "out", !.quiet = FALSE]

start(c) ==
  /\ conn[c].at = "out" /\ conn[c].readable
  /\ conn' = [conn EXCEPT ![c] = Run([@ EXCEPT !.readable = FALSE])] /\ NoMessage

wakeup_from(c) ==
  /\ conn[c].at = "out" /\ conn[c].register_time_events
  /\ conn' = [conn EXCEPT ![c] = Run([@ EXCEPT !.register_time_events = FALSE])] /\ NoMessage

-------------------------------------------------------------------------------
(* The end of a session. *)

Lose(c) == Order(conn[c].state) > 0 /\ NoDispatch

\* A read fails, or the connection was idle for too long (tick).
socket_fails(c) ==
  /\ conn[c].at = "out" \/ (conn[c].at = "run" /\ conn[c].state \notin Throttling)
  /\ Lose(c) /\ fault(c, conn[c])

mark_down(c) ==
  /\ conn[c].at # "run"
  /\ Lose(c) /\ stop(c, conn[c])

\* handle_connect_msg of another connection; the time events are deleted when the
\* thread of this one gets to deactivate_existing.
replace(c) ==
  /\ conn[c].at # "run" /\ c \notin Lossy
  /\ Lose(c) /\ reset_recv_state(c)
  /\ conn' = [conn EXCEPT ![c] = Reset(@)]
  /\ UNCHANGED queue

\* The handshake on the new socket is over; recv_buf and state_offset are as the
\* end of the last session left them.  The peer sends again what it sent before.
reopen(c) ==
  /\ conn[c].state = "NONE" /\ conn[c].at = "out"
  /\ reopened < MaxReopen /\ reopened' = reopened + 1
  /\ conn' = [conn EXCEPT ![c] = [NewConn EXCEPT
       !.recv_buf = conn[c].recv_buf, !.state_offset = conn[c].state_offset,
       !.buf = conn[c].buf]]
  /\ avail' = [avail EXCEPT ![c] = 0]
  /\ UNCHANGED <<stream, throttles, queue, handling, discarded>>

-------------------------------------------------------------------------------
(* The peer, the network, and the threads that dispatch. *)

\* All there is, or one byte more.
arrive(c, n) ==
  /\ Order(conn[c].state) > 0 /\ n > avail[c] /\ n <= Total(c)
  /\ avail' = [avail EXCEPT ![c] = n]
  /\ conn' = [conn EXCEPT ![c].readable = TRUE]
  /\ UNCHANGED <<stream, throttles, queue, handling, reopened, discarded>>

dequeue(c) ==
  /\ queue[c] # <<>>
  /\ queue' = [queue EXCEPT ![c] = Tail(@)]
  /\ handling' = [handling EXCEPT ![c] = Append(@, Head(queue[c]))]
  /\ UNCHANGED <<conn, stream, avail, throttles, reopened, discarded>>

\* The message is handled and its last reference put.
put(c) ==
  /\ handling[c] # <<>>
  /\ Release(1, Head(handling[c]), Head(handling[c]))
  /\ handling' = [handling EXCEPT ![c] = Tail(@)]
  /\ UNCHANGED <<conn, stream, avail, queue, reopened, discarded>>

-------------------------------------------------------------------------------
Init ==
  /\ stream \in [Conns -> UNION {Streams[c] : c \in Conns}]
  /\ conn = [c \in Conns |-> NewConn]
  /\ \A c \in Conns : stream[c] \in Streams[c]
  /\ avail = [c \in Conns |-> 0]
  /\ throttler_messages = 0 /\ throttler_bytes = 0 /\ dispatch_throttler = 0
  /\ queue = [c \in Conns |-> <<>>] /\ handling = [c \in Conns |-> <<>>]
  /\ reopened = 0 /\ discarded = <<>>

process(c) ==
  \/ read_tag(c) \/ read_keepalive2(c) \/ read_keepalive2_ack(c) \/ read_ack(c)
  \/ read_header(c) \/ throttle_message(c) \/ throttle_bytes(c)
  \/ throttle_dispatch_queue(c) \/ read_front(c) \/ read_data(c) \/ read_footer(c)
  \/ fast_dispatched(c) \/ read_close(c) \/ read_nothing(c)

Next ==
  \E c \in Conns :
    \/ process(c) \/ start(c) \/ wakeup_from(c)
    \/ socket_fails(c) \/ mark_down(c) \/ replace(c) \/ reopen(c)
    \/ arrive(c, Total(c))
    \/ c \in InPieces /\ arrive(c, avail[c] + 1)
    \/ dequeue(c) \/ put(c)

Spec == Init /\ [][Next]_vars

-------------------------------------------------------------------------------
(* Properties. *)

TypeOK ==
  /\ conn \in [Conns -> Conn]
  /\ \A c \in Conns : stream[c] \in Streams[c] /\ avail[c] \in 0 .. Total(c)
  /\ throttler_messages \in Nat /\ throttler_bytes \in Nat /\ dispatch_throttler \in Nat
  /\ \A c \in Conns : queue[c] \in Seq(Nat) /\ handling[c] \in Seq(Nat)
  /\ reopened \in 0 .. MaxReopen /\ discarded \in Seq(Nat)

\* An item read in part leaves nothing in the prefetch buffer, which read_until
\* relies on: it copies from there to the start of the item.
PrefetchOrPart ==
  \A c \in Conns : conn[c].recv_buf # <<>> => conn[c].state_offset = 0

\* Every item process() reads is the next bytes of the stream, however they
\* arrived, were prefetched or came with an earlier socket.
NeverGarbled == PrefetchOrPart /\ \A c \in Conns : ~conn[c].garbled

\* What each throttle counts is what connections hold for the message they read
\* and what undispatched messages hold, whatever ends a message or a session;
\* except that an old message gives back the policy's throttles twice, once
\* itself and once by the connection, which stays at its footer.
ThrottlesExact ==
  LET Sum(Of(_)) == FoldSet(LAMBDA c, n : n + Of(c), 0, Conns)
      Queued(c) == SumSeq(queue[c]) + SumSeq(handling[c])
  IN  /\ throttler_messages + Len(discarded) =
           Sum(Messages) + Sum(LAMBDA c : Len(queue[c]) + Len(handling[c]))
      /\ throttler_bytes + SumSeq(discarded) = Sum(PolicyBytes) + Sum(Queued)
      /\ dispatch_throttler = Sum(DispatchBytes) + Sum(Queued)

\* When process() has returned with something left to read, or waits for a
\* throttle, an event or a wakeup will run it again; except after a KEEPALIVE or
\* an old message, when what was prefetched has to wait for something to arrive.
NothingLeftUnread ==
  \A c \in Conns : LET o == conn[c] IN
    /\ o.at = "out" /\ Order(o.state) > 0
    /\ o.recv_buf # <<>> \/ o.read < avail[c] \/ o.state \in Throttling
    => o.readable \/ o.register_time_events \/ o.quiet

\* Waiting for throttles is never circular: when only connections that wait for
\* one hold any, one of them can go on.
NoThrottleDeadlock ==
  LET Waiting == {c \in Conns : conn[c].state \in Throttling}
      Busy(c) == Holds(c, "THROTTLE_DISPATCH_QUEUE") \/ queue[c] # <<>> \/ handling[c] # <<>>
      Passes(c) ==
        CASE conn[c].state = "THROTTLE_MESSAGE" ->
               get_or_fail(throttler_messages, 1, MaxMessages)
          [] conn[c].state = "THROTTLE_BYTES" ->
               get_or_fail(throttler_bytes, cur_msg_size(c), MaxBytes)
          [] OTHER -> get_or_fail(dispatch_throttler, cur_msg_size(c), MaxDispatch)
  IN  Waiting # {} /\ (\A c \in Conns : ~Busy(c)) => \E c \in Waiting : Passes(c)
===============================================================================
