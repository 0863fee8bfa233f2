------------------------------- MODULE RxPool -------------------------------
(***************************************************************************)
(* The receiving half of the RDMA transport of one process: the pool of    *)
(* registered receive buffers, the shared receive queue the hardware takes *)
(* them from, the dispatcher thread that polls completions, refills the    *)
(* queue and hands the chunks to their sockets, and the sockets' users,    *)
(* who read.                                                               *)
(*                                                                         *)
(* The pool is at its limit (ms_async_rdma_receive_buffers): the chunks    *)
(* the queue is short of are owed (post_backlog) until some come back.     *)
(* Each socket is read by a thread of its own.  A chunk holds one or two   *)
(* units of data; units are numbered in the order the peer sent them.      *)
(* What happens after a chunk got two owners is not followed.              *)
(***************************************************************************)
EXTENDS Integers, FiniteSets, SequencesExt

CONSTANTS
  Chunks,      \* the receive buffers
  QueueLen,    \* rx_queue_len, length of the shared receive queue
  Sockets,
  ZeroCopy,    \* the sockets whose users call zero_copy_read; the others call read
  MaxData      \* bound on the units the peer of a socket sends

ASSUME RxPoolAssumption ==
  /\ IsFiniteSet(Chunks)
  /\ QueueLen \in Nat /\ QueueLen <= Cardinality(Chunks)   \* checked by Infiniband::init
  /\ ZeroCopy \subseteq Sockets /\ MaxData \in Nat

VARIABLES
  pool,          \* free chunks
  srq,           \* chunks posted to the shared receive queue
  rx_cq,         \* completions not polled yet, oldest first
  batch,         \* completions the dispatcher has polled and not handled
  post_backlog,  \* chunks owed to the queue
  polling,       \* where the dispatcher is: "poll", "handle", "idle", "sleep", "exited"
  rearmed,       \* the dispatcher has rearmed the completion channel
  armed,         \* the next completion will raise an event
  cq_event,      \* an event waits in the completion channel
  done,          \* polling_stop was called
  sock,          \* the sockets, see Socket
  reader,        \* what each socket's reader is doing: "idle", "recheck", "cqe", "drain"
  sent,          \* per socket, units the peer has sent
  received,      \* history: per socket, the units its user has read
  reread,        \* history: read_buffers looked at a chunk that had a new owner
  unpaid         \* history: a chunk went back to the pool past the backlog

poolVars == <<pool, srq, post_backlog>>
cqVars   == <<rx_cq, batch, polling, rearmed, armed, cq_event, done>>
vars == <<poolVars, cqVars, sock, reader, sent, received, reread, unpaid>>

\* registered: in qp_conns; wc: completions passed by the dispatcher; buffers:
\* chunks not read to their end; res_mem: chunks lent to the user; notify_fd:
\* readable; fin: the peer's fin has arrived; eof: the user was told ECONNRESET.
NewSocket ==
  [life |-> "open", registered |-> TRUE, connected |-> FALSE, error |-> FALSE,
   faulted |-> FALSE, wc |-> <<>>, buffers |-> <<>>, res_mem |-> {},
   notify_fd |-> FALSE, fin |-> FALSE, eof |-> FALSE]

\* A completion: its chunk, its socket and the units received; none for a fin.
Wc == [chunk : Chunks, s : Sockets, data : Seq(Nat), ok : BOOLEAN]

Idle == [at |-> "idle", chunk |-> "none", got |-> 0, len |-> 0]
ChunksIn(q) == {q[i].chunk : i \in DOMAIN q}
HasData(q) == {i \in DOMAIN q : q[i].data # <<>>}
\* What q holds at the positions in I, in q's order.
Select(q, I) ==
  [k \in 1 .. Cardinality(I) |-> q[CHOOSE i \in I : Cardinality(I \cap 1 .. i) = k]]
fault(o) == [o EXCEPT !.error = TRUE, !.faulted = TRUE, !.connected = TRUE,
                      !.notify_fd = TRUE]

-------------------------------------------------------------------------------
(* The pool and the shared receive queue, under the dispatcher's lock. *)

\* get_rx_buffer for up to num chunks out of free: the sets that may be posted.
post_chunks_to_srq(free, num) ==
  {T \in SUBSET free : Cardinality(T) =
       IF Cardinality(free) < num THEN Cardinality(free) ELSE num}

\* Bugs: the debt is not reduced; a chunk goes to the pool and no further.
post_chunk_to_pool_uncounted(C) ==
  \E T \in post_chunks_to_srq(pool \cup C, IF C = {} THEN 0 ELSE post_backlog) :
    pool' = (pool \cup C) \ T /\ srq' = srq \cup T /\ UNCHANGED post_backlog
post_chunk_to_pool_only(C) == pool' = pool \cup C /\ UNCHANGED <<srq, post_backlog>>

\* post_chunk_to_pool of the dispatcher, for each chunk of C: what is owed to
\* the queue is posted.
post_chunk_to_pool(C) ==
  \E T \in post_chunks_to_srq(pool \cup C, IF C = {} THEN 0 ELSE post_backlog) :
    /\ pool' = (pool \cup C) \ T /\ srq' = srq \cup T
    /\ post_backlog' = post_backlog - Cardinality(T)

-------------------------------------------------------------------------------
(* The dispatcher's thread. *)

Polled == polling' = IF rx_cq = <<>> THEN "idle" ELSE "handle"

poll_cq ==
  /\ polling = "poll"
  /\ batch' = rx_cq /\ rx_cq' = <<>>
  /\ Polled
  /\ UNCHANGED <<poolVars, rearmed, armed, cq_event, done, sock, reader, sent, received,
                 reread, unpaid>>

\* The completions of a socket, at the end of those it has: its reader is called.
pass_wc(o, add_wc) ==
  IF add_wc = <<>> THEN o ELSE [o EXCEPT !.wc = @ \o add_wc, !.notify_fd = TRUE]

\* The completions polled: the queue is refilled first, then each chunk goes to
\* its socket, or straight back to the pool when the socket is gone or the
\* receive failed.
handle_rx ==
  LET registered(i) == sock[batch[i].s].registered
      good == {i \in DOMAIN batch : batch[i].ok /\ registered(i)}
      back == {batch[i].chunk : i \in DOMAIN batch \ good}
      Failed(s) == \E i \in DOMAIN batch :
                     batch[i].s = s /\ ~batch[i].ok /\ registered(i) /\ sock[s].connected
      Passed(s) == Select(batch, {i \in good : batch[i].s = s})
  IN  /\ polling = "handle"
      /\ \E T \in post_chunks_to_srq(pool, Len(batch)) :
           /\ pool' = (pool \ T) \cup back /\ srq' = srq \cup T
           /\ post_backlog' = post_backlog + Len(batch) - Cardinality(T)
      /\ unpaid' = (unpaid \/ (back # {} /\ post_backlog' > 0))
      /\ sock' = [s \in Sockets |->
                    pass_wc(IF Failed(s) THEN fault(sock[s]) ELSE sock[s], Passed(s))]
      /\ batch' = <<>> /\ polling' = "poll"
      /\ UNCHANGED <<rx_cq, rearmed, armed, cq_event, done, reader, sent, received, reread>>

\* The completion channel is armed for the next completion; what completed before
\* that raises no event, and is polled once more.  Bug: it is not.
rearm_and_sleep == ~rearmed /\ polling' = "sleep" /\ rearmed' = TRUE /\ armed' = TRUE
rearm == ~rearmed /\ polling' = "poll" /\ rearmed' = TRUE /\ armed' = TRUE

\* A round that found nothing: dead queue pairs are deleted, and the thread
\* exits when it is told to and no socket is registered.
idle ==
  /\ polling = "idle"
  /\ sock' = [s \in Sockets |-> IF sock[s].registered THEN sock[s]
                                ELSE [sock[s] EXCEPT !.fin = TRUE]]
  /\ \/ /\ done /\ \A s \in Sockets : ~sock[s].registered
        /\ polling' = "exited" /\ UNCHANGED <<rearmed, armed>>
     \/ /\ ~(done /\ \A s \in Sockets : ~sock[s].registered)
        /\ \/ polling' = "poll" /\ UNCHANGED <<rearmed, armed>>
           \/ rearm
           \/ rearmed /\ polling' = "sleep" /\ UNCHANGED <<rearmed, armed>>
  /\ UNCHANGED <<poolVars, rx_cq, batch, cq_event, done, reader, sent, received, reread,
                 unpaid>>

\* poll() on the completion channel returns, or done is noticed.
wake ==
  /\ polling = "sleep"
  /\ \/ cq_event /\ cq_event' = FALSE
     \/ done /\ UNCHANGED cq_event
  /\ rearmed' = FALSE /\ polling' = "poll"
  /\ UNCHANGED <<poolVars, rx_cq, batch, armed, done, sock, reader, sent, received, reread,
                 unpaid>>

\* IBV_EVENT_QP_LAST_WQE_REACHED, after an idle round.
handle_async_event(s) ==
  /\ polling = "idle" /\ sock[s].registered /\ sock[s].error
  /\ sock' = [sock EXCEPT ![s] = [fault(@) EXCEPT !.registered = FALSE]]
  /\ UNCHANGED <<poolVars, cqVars, reader, sent, received, reread, unpaid>>

polling_stop ==
  /\ ~done /\ done' = TRUE
  /\ UNCHANGED <<poolVars, rx_cq, batch, polling, rearmed, armed, cq_event, sock, reader,
                 sent, received, reread, unpaid>>

-------------------------------------------------------------------------------
(* The hardware. *)

\* A message of s's peer arrives in a posted chunk: up to two units, or a fin,
\* or the receive fails.
Arrive(s, data, ok) ==
  \E c \in srq :
    /\ srq' = srq \ {c}
    /\ rx_cq' = Append(rx_cq, [chunk |-> c, s |-> s, data |-> data, ok |-> ok])
    /\ armed' = FALSE /\ cq_event' = (cq_event \/ armed)
    /\ UNCHANGED <<pool, post_backlog, batch, polling, rearmed, done, reader, received,
                   reread, unpaid>>

receive(s, n) ==
  /\ ~sock[s].fin /\ sent[s] + n <= MaxData
  /\ Arrive(s, [i \in 1 .. n |-> sent[s] + i], TRUE)
  /\ sent' = [sent EXCEPT ![s] = @ + n]
  /\ UNCHANGED sock

receive_fin(s, ok) ==
  /\ ~sock[s].fin
  /\ Arrive(s, <<>>, ok)
  /\ sock' = [sock EXCEPT ![s].fin = TRUE]
  /\ UNCHANGED sent

-------------------------------------------------------------------------------
(* A socket and its reader. *)

Reads(s) == sock[s].life = "open" /\ reader[s].at = "idle" /\ ~reread

\* The handshake is over, which wakes a reader that came too early.
connected(s) ==
  /\ Reads(s) /\ ~sock[s].connected
  /\ sock' = [sock EXCEPT ![s].connected = TRUE, ![s].notify_fd = TRUE]
  /\ UNCHANGED <<poolVars, cqVars, reader, sent, received, reread, unpaid>>

read_too_early(s) ==
  /\ Reads(s) /\ s \notin ZeroCopy /\ sock[s].notify_fd /\ ~sock[s].connected
  /\ sock' = [sock EXCEPT ![s].notify_fd = FALSE]
  /\ UNCHANGED <<poolVars, cqVars, reader, sent, received, reread, unpaid>>

Data(q) == FlattenSeq([i \in DOMAIN q |-> q[i].data])
\* Bug: a chunk is gone once it has been read from.
Rest_untouched(q, n) == SelectSeq(q, LAMBDA c : c.data # <<>> /\ \A i \in DOMAIN q :
  q[i] = c => n <= Len(Data(SubSeq(q, 1, i - 1))))

\* q without its first n units; chunks read to their end are gone.
Rest(q, n) ==
  LET before(i) == Len(Data(SubSeq(q, 1, i - 1)))
      left == [i \in DOMAIN q |-> [q[i] EXCEPT !.data =
                 SubSeq(@, IF n > before(i) THEN n - before(i) + 1 ELSE 1, Len(@))]]
  IN  Select(left, HasData(left))
Taken(q, len) == IF Len(Data(q)) < len THEN Len(Data(q)) ELSE len

\* read(): the eventfd is read, and len units at most come from buffers; chunks
\* read to their end go back to the pool.  When the last unit wanted was the
\* last of its chunk, over() is asked of that chunk again afterwards.
read_buffers(s, len) ==
  LET o == sock[s]
      n == Taken(o.buffers, len)
      rest == Rest(o.buffers, n)
      over == ChunksIn(o.buffers) \ ChunksIn(rest)
      last == {c \in over : n = len /\ c = o.buffers[Len(o.buffers) - Len(rest)].chunk}
  IN
  /\ Reads(s) /\ s \notin ZeroCopy /\ o.connected
  /\ post_chunk_to_pool(over)
  /\ sock' = [sock EXCEPT ![s].buffers = rest, ![s].notify_fd = FALSE]
  /\ received' = [received EXCEPT ![s] = @ \o SubSeq(Data(o.buffers), 1, n)]
  /\ reader' = [reader EXCEPT ![s] =
                  [at |-> IF last = {} THEN "cqe" ELSE "recheck",
                   chunk |-> IF last = {} THEN "none" ELSE CHOOSE c \in last : TRUE,
                   got |-> n, len |-> len]]
  /\ UNCHANGED <<cqVars, sent, reread, unpaid>>

\* Somebody prepared the chunk for reading meanwhile: it is not over any more,
\* and stays in these buffers too.
recheck(s) ==
  /\ reader[s].at = "recheck"
  /\ reread' = (reread \/ \E t \in Sockets :
                  reader[s].chunk \in ChunksIn(sock[t].buffers) \cup sock[t].res_mem)
  /\ reader' = [reader EXCEPT ![s].at = "cqe", ![s].chunk = "none"]
  /\ UNCHANGED <<poolVars, cqVars, sock, sent, received, unpaid>>

\* The reader is called again when something is left.  Bug: it has to be notified.
NotifyAgain_never(o, left) == o.notify_fd
NotifyAgain(o, left) == o.notify_fd \/ left # <<>>

\* The rest of read(): the completions passed meanwhile.
get_wc(s) ==
  LET o == sock[s]
      data == Select(o.wc, HasData(o.wc))
      n == Taken(data, reader[s].len - reader[s].got)
      rest == Rest(data, n)
      left == o.buffers \o rest
      fin == Len(data) < Len(o.wc)
      error == o.error \/ fin
  IN
  /\ reader[s].at = "cqe" /\ ~reread
  /\ post_chunk_to_pool(ChunksIn(o.wc) \ ChunksIn(rest))
  /\ sock' = [sock EXCEPT ![s] = [o EXCEPT !.wc = <<>>, !.buffers = left, !.error = error,
                !.notify_fd = NotifyAgain(o, left),
                !.eof = @ \/ (error /\ reader[s].got + n = 0)]]
  /\ received' = [received EXCEPT ![s] = @ \o SubSeq(Data(data), 1, n)]
  /\ reader' = [reader EXCEPT ![s] = Idle]
  /\ UNCHANGED <<cqVars, sent, reread, unpaid>>

\* zero_copy_read: the chunk at the back of buffers is lent to the user; fins are
\* only dropped.  With nothing but fins buffers.back() is undefined: the process
\* fails, and the model has no step.
zero_copy_read(s) ==
  LET o == sock[s]
      data == IF o.buffers = <<>> THEN Select(o.wc, HasData(o.wc))
                                  ELSE o.buffers
      lent == Last(data)
  IN
  /\ Reads(s) /\ s \in ZeroCopy /\ ~o.error /\ data # <<>>
  /\ sock' = [sock EXCEPT ![s] = [o EXCEPT
                !.buffers = Front(data), !.res_mem = @ \cup {lent.chunk},
                !.wc = IF o.buffers = <<>> THEN <<>> ELSE @]]
  /\ post_chunk_to_pool(IF o.buffers = <<>> THEN ChunksIn(o.wc) \ ChunksIn(data) ELSE {})
  /\ received' = [received EXCEPT ![s] = @ \o lent.data]
  /\ UNCHANGED <<cqVars, reader, sent, reread, unpaid>>

\* The destructor: first the socket is unregistered, then its chunks go back.
\* Bug: it stays registered.
erase_qpn_not(s) ==
  /\ Reads(s)
  /\ sock' = [sock EXCEPT ![s].life = "closed", ![s].error = TRUE]
  /\ reader' = [reader EXCEPT ![s].at = "drain"]
  /\ UNCHANGED <<poolVars, cqVars, sent, received, reread, unpaid>>
erase_qpn(s) ==
  /\ Reads(s)
  /\ sock' = [sock EXCEPT ![s].life = "closed", ![s].registered = FALSE, ![s].error = TRUE]
  /\ reader' = [reader EXCEPT ![s].at = "drain"]
  /\ UNCHANGED <<poolVars, cqVars, sent, received, reread, unpaid>>

drain(s) ==
  /\ reader[s].at = "drain"
  /\ post_chunk_to_pool(ChunksIn(sock[s].wc) \cup ChunksIn(sock[s].buffers))
  /\ sock' = [sock EXCEPT ![s].wc = <<>>, ![s].buffers = <<>>]
  /\ reader' = [reader EXCEPT ![s] = Idle]
  /\ UNCHANGED <<cqVars, sent, received, reread, unpaid>>
-------------------------------------------------------------------------------
\* Infiniband::init has filled the shared receive queue.
Init ==
  /\ srq \in post_chunks_to_srq(Chunks, QueueLen) /\ pool = Chunks \ srq
  /\ rx_cq = <<>> /\ batch = <<>> /\ post_backlog = 0
  /\ polling = "poll" /\ rearmed = FALSE /\ armed = TRUE /\ cq_event = FALSE /\ done = FALSE
  /\ sock = [s \in Sockets |-> NewSocket] /\ reader = [s \in Sockets |-> Idle]
  /\ sent = [s \in Sockets |-> 0] /\ received = [s \in Sockets |-> <<>>]
  /\ reread = FALSE /\ unpaid = FALSE

Next ==
  \/ poll_cq \/ handle_rx \/ idle \/ wake \/ polling_stop
  \/ \E s \in Sockets : handle_async_event(s)
  \/ \E s \in Sockets, n \in 1 .. 2 : receive(s, n)
  \/ \E s \in Sockets, ok \in BOOLEAN : receive_fin(s, ok)
  \/ \E s \in Sockets, len \in 1 .. 2 : read_buffers(s, len)
  \/ \E s \in Sockets : \/ connected(s) \/ read_too_early(s) \/ recheck(s) \/ get_wc(s)
                        \/ zero_copy_read(s) \/ erase_qpn(s) \/ drain(s)

Spec == Init /\ [][Next]_vars

-------------------------------------------------------------------------------
(* Properties. *)

Socket == [life : {"open", "closed"}, registered : BOOLEAN, connected : BOOLEAN,
           error : BOOLEAN, faulted : BOOLEAN, wc : Seq(Wc), buffers : Seq(Wc),
           res_mem : SUBSET Chunks, notify_fd : BOOLEAN, fin : BOOLEAN, eof : BOOLEAN]

Reader == [at : {"idle", "recheck", "cqe", "drain"}, chunk : Chunks \cup {"none"},
           got : Nat, len : Nat]

TypeOK ==
  /\ pool \subseteq Chunks /\ srq \subseteq Chunks /\ post_backlog \in 0 .. QueueLen
  /\ rx_cq \in Seq(Wc) /\ batch \in Seq(Wc)
  /\ polling \in {"poll", "handle", "idle", "sleep", "exited"}
  /\ {rearmed, armed, cq_event, done, reread, unpaid} \subseteq BOOLEAN
  /\ sock \in [Sockets -> Socket]
  /\ reader \in [Sockets -> Reader]
  /\ sent \in [Sockets -> 0 .. MaxData]

\* The chunks a socket holds.
Held(s) == ChunksIn(sock[s].wc) \cup ChunksIn(sock[s].buffers) \cup sock[s].res_mem

\* Every chunk is in exactly one place: the pool, the receive queue, a completion
\* on its way to a socket, or a socket.  None is leaked or given to two users,
\* except that read_buffers may keep a chunk it has returned; a destroyed socket
\* keeps only what it lent.
OneOwner ==
  LET Shared == <<pool, srq, ChunksIn(rx_cq), ChunksIn(batch)>>
  IN  reread \/
      /\ \A c \in Chunks : Cardinality({i \in 1 .. 4 : c \in Shared[i]}) +
                           Cardinality({s \in Sockets : c \in Held(s)}) = 1
      /\ \A s \in Sockets : sock[s].life = "closed" /\ reader[s].at = "idle" =>
                             sock[s].wc = <<>> /\ sock[s].buffers = <<>>

\* Posted, completed and owed chunks add up to the length of the queue: the
\* backlog is paid exactly, by whichever thread returns a chunk.
BacklogExact ==
  Cardinality(srq) + Len(rx_cq) + Len(batch) + post_backlog = QueueLen

\* The queue can only dry up for good, all chunks being free, after a chunk went
\* back to the pool without paying what is owed: one of a socket that was gone or
\* of a failed receive.
StarvedOnlyByDead ==
  srq = {} /\ rx_cq = <<>> /\ batch = <<>> /\ pool = Chunks => unpaid \/ QueueLen = 0

\* The dispatcher never sleeps on a completion without an event for it.
SleepSafe == polling = "sleep" /\ rx_cq # <<>> => cq_event \/ done

\* While a connected socket has something to read, its reader is in read() or
\* will be called: pass_wc, read and the end of the handshake all notify.
ReaderNotified ==
  \A s \in Sockets \ ZeroCopy : LET o == sock[s] IN
    Reads(s) /\ o.connected /\ (o.wc # <<>> \/ o.buffers # <<>>) => o.notify_fd

\* A user reads what the peer sent, in order, and is told of the end only after
\* the last unit, unless the transport failed.
ReadInOrder ==
  \A s \in Sockets \ ZeroCopy :
    /\ received[s] = [i \in 1 .. Len(received[s]) |-> i]
    /\ sock[s].eof /\ sock[s].life = "open" /\ ~sock[s].faulted =>
         Len(received[s]) = sent[s]
===============================================================================
