----------------------------- MODULE RdmaSocket -----------------------------
(***************************************************************************)
(* The sending half of the RDMA transport of one process: the handshake of *)
(* a socket over TCP, the data its user sends before and after, the        *)
(* registered chunks all sockets share, the lists of those that wait for a *)
(* chunk, and the dispatcher thread that takes chunks back when the        *)
(* hardware is done with them.                                             *)
(*                                                                         *)
(* A socket belongs to a worker, whose thread runs all its calls; only     *)
(* fault() is also called by the dispatcher.  A call that submits data     *)
(* takes its chunks in one step and registers what is missing in another   *)
(* (get_reged_mem): between the two the dispatcher may return chunks and   *)
(* look for workers to notify.  Data is counted in chunks.                 *)
(*                                                                         *)
(* The peer is external: it answers the handshake, hangs up or sends       *)
(* garbage, and the hardware completes a request at any time.              *)
(***************************************************************************)
EXTENDS Integers, FiniteSets, SequencesExt

CONSTANTS
  Workers, Sockets,
  Owner,        \* the worker of each socket
  Servers,      \* the sockets that are accepted; the others connect
  NumChunks,    \* chunks of the send cluster
  MaxData       \* bound on the data sent on a socket

ASSUME RdmaSocketAssumption ==
  /\ IsFiniteSet(Workers) /\ IsFiniteSet(Sockets) /\ "none" \notin Sockets
  /\ Owner \in [Sockets -> Workers] /\ Servers \subseteq Sockets
  /\ NumChunks \in Nat \ {0} /\ MaxData \in Nat

VARIABLES
  sock,                \* the sockets, see Socket
  thread,              \* what each worker's thread is doing, see Thread
  tx_event,            \* tx_handler events queued in each worker's event center
  pending_sent_conns,  \* per worker, the sockets that wait for chunks
  pending_workers,     \* the workers to notify when chunks come back
  free_chunks,         \* chunks in the cluster
  sq,                  \* per socket, chunks the hardware is sending
  tx_cq,               \* per socket, chunks completed and not polled yet
  tx_error,            \* per socket, one of these completions is an error
  dispatcher,          \* "poll", or "notify" after chunks were returned
  refused,             \* history: chunks of requests the queue pair refused
  lost,                \* history: chunks that went with a destroyed queue pair
  missed               \* history: the dispatcher looked for a worker to notify just
                       \* before one that got no chunk had registered

sendVars == <<pending_sent_conns, pending_workers, free_chunks>>
hwVars   == <<sq, tx_cq, tx_error>>
history  == <<refused, lost, missed>>
vars == <<sock, thread, tx_event, sendVars, hwVars, dispatcher, history>>

\* life: "none", "open", "dead" (destroyed, its queue pair in dead_queue_pairs),
\* "deleted"; ready: the queue pair can send; peer_msg: what peer_msg.peer_qpn
\* says; hung_up: the peer closed the TCP connection before the handshake ended.
Socket == [life : {"none", "open", "dead", "deleted"}, is_server : BOOLEAN,
           connected : BOOLEAN, active : BOOLEAN, error : BOOLEAN, ready : BOOLEAN,
           peer_msg : {"uninitialized", "syn", "ack"}, hung_up : BOOLEAN,
           pending_bl : 0 .. MaxData, pending : BOOLEAN, data : 0 .. MaxData]
NewSocket ==
  [life |-> "none", is_server |-> FALSE, connected |-> FALSE, active |-> FALSE,
   error |-> FALSE, ready |-> FALSE, peer_msg |-> "uninitialized", hung_up |-> FALSE,
   pending_bl |-> 0, pending |-> FALSE, data |-> 0]

\* at: "idle", "submit" (got chunks for socket s), "return" (from submit, with
\* result r), "pending" (in the loop of handle_pending_message); caller: who
\* called submit.
Thread == [at : {"idle", "submit", "return", "pending"}, s : Sockets \cup {"none"},
           got : Nat, r : {"ok", "EAGAIN", "error"},
           caller : {"send", "handle_pending_message", "activate", "handle_connection"}]
Idle == [at |-> "idle", s |-> "none", got |-> 0, r |-> "ok", caller |-> "send"]

Runs(w) == thread[w].at = "idle"
\* The handler of the TCP connection is there until cleanup.
Open(s) == sock[s].life = "open"
Least(a, b) == IF a < b THEN a ELSE b
\* The chunks counted by f: f[x] of them for each x.
Total(f) == Cardinality(UNION {{x} \X (1 .. f[x]) : x \in DOMAIN f})

-------------------------------------------------------------------------------
(* Waiting for chunks. *)

make_pending_worker(w) ==
  pending_workers' = IF Contains(pending_workers, w) THEN pending_workers
                                                     ELSE Append(pending_workers, w)

\* Nobody is notified when the list is empty, although a worker that found no
\* chunk may be about to enter it.
notify_pending_workers ==
  /\ tx_event' = IF pending_workers = <<>> THEN tx_event
                 ELSE [tx_event EXCEPT ![Head(pending_workers)] = @ + 1]
  /\ pending_workers' = IF pending_workers = <<>> THEN <<>> ELSE Tail(pending_workers)
  /\ missed' = (missed \/ /\ pending_workers = <<>>
                          /\ \E w \in Workers : thread[w].at = "submit" /\ thread[w].got = 0)

fault(s) == [s EXCEPT !.error = TRUE, !.connected = TRUE]

-------------------------------------------------------------------------------
(* Sending, in the worker's thread. *)

\* The first half of submit: the socket o (as it now is) has failed, or has
\* nothing to send, or takes what the cluster has.
get_tx_buffers(w, s, o, caller) ==
  LET got == Least(free_chunks, o.pending_bl)
      T(at, n, r) == [at |-> at, s |-> s, got |-> n, r |-> r, caller |-> caller]
  IN  \/ /\ o.error
         /\ thread' = [thread EXCEPT ![w] = T("return", 0, "error")]
         /\ UNCHANGED free_chunks
      \/ /\ ~o.error /\ o.pending_bl = 0
         /\ thread' = [thread EXCEPT ![w] = T("return", 0, "ok")]
         /\ UNCHANGED free_chunks
      \/ /\ ~o.error /\ o.pending_bl > 0
         /\ thread' = [thread EXCEPT ![w] = T("submit", got, "ok")]
         /\ free_chunks' = free_chunks - got

\* The end of get_reged_mem: the socket and the worker are registered when
\* fewer chunks were got than wanted.
get_reged_mem(w, s, short) ==
  /\ pending_sent_conns' = IF short /\ ~sock[s].pending
                           THEN [pending_sent_conns EXCEPT ![w] = Append(@, s)]
                           ELSE pending_sent_conns
  /\ IF short THEN make_pending_worker(w) ELSE UNCHANGED pending_workers

\* The second half: register what is missing, post what was got.
submit(w) ==
  LET t == thread[w]  s == t.s  o == sock[s]
      short == t.got < o.pending_bl
      left  == o.pending_bl - t.got
      r == IF t.got > 0 /\ ~o.ready THEN "error" ELSE IF left > 0 THEN "EAGAIN" ELSE "ok"
  IN  /\ t.at = "submit"
      /\ get_reged_mem(w, s, short)
      /\ sock' = [sock EXCEPT ![s].pending_bl = left, ![s].pending = @ \/ short]
      /\ sq' = [sq EXCEPT ![s] = IF o.ready THEN @ + t.got ELSE @]
      /\ refused' = IF o.ready THEN refused ELSE refused + t.got
      /\ thread' = [thread EXCEPT ![w].at = "return", ![w].got = 0, ![w].r = r]
      /\ UNCHANGED <<tx_event, free_chunks, tx_cq, tx_error, dispatcher, lost, missed>>

\* Mutant: no fake send, data is submitted at once.
send_at_once(s, n) ==
  LET o == [sock[s] EXCEPT !.pending_bl = @ + n, !.data = @ + n] IN
  /\ Open(s) /\ Runs(Owner[s]) /\ ~sock[s].error /\ sock[s].data + n <= MaxData
  /\ sock' = [sock EXCEPT ![s] = o]
  /\ get_tx_buffers(Owner[s], s, o, "send")
  /\ UNCHANGED <<tx_event, pending_sent_conns, pending_workers, hwVars, dispatcher, history>>

\* Until the handshake is over the data is only kept (a fake send).
send(s, n) ==
  LET o == [sock[s] EXCEPT !.pending_bl = @ + n, !.data = @ + n] IN
  /\ Open(s) /\ Runs(Owner[s]) /\ ~sock[s].error /\ sock[s].data + n <= MaxData
  /\ sock' = [sock EXCEPT ![s] = o]
  /\ IF o.connected THEN get_tx_buffers(Owner[s], s, o, "send")
                    ELSE UNCHANGED <<thread, free_chunks>>
  /\ UNCHANGED <<tx_event, pending_sent_conns, pending_workers, hwVars, dispatcher, history>>

sent(w) ==
  /\ thread[w].at = "return" /\ thread[w].caller \in {"send", "handle_connection"}
  /\ thread' = [thread EXCEPT ![w] = Idle]
  /\ UNCHANGED <<sock, tx_event, sendVars, hwVars, dispatcher, history>>

\* Chunks came back: the event of notify_worker.
handle_pending_message(w) ==
  /\ Runs(w) /\ tx_event[w] > 0
  /\ tx_event' = [tx_event EXCEPT ![w] = @ - 1]
  /\ thread' = [thread EXCEPT ![w].at = "pending"]
  /\ UNCHANGED <<sock, sendVars, hwVars, dispatcher, history>>

submit_pending(w) ==
  LET s == Head(pending_sent_conns[w]) IN
  /\ thread[w].at = "pending" /\ pending_sent_conns[w] # <<>>
  /\ pending_sent_conns' = [pending_sent_conns EXCEPT ![w] = Tail(@)]
  /\ get_tx_buffers(w, s, sock[s], "handle_pending_message")
  /\ UNCHANGED <<sock, tx_event, pending_workers, hwVars, dispatcher, history>>

\* Mutant: set_pending(0) is left out.
submitted_pending_flag(w) ==
  LET t == thread[w]  s == t.s IN
  /\ t.at = "return" /\ t.caller = "handle_pending_message"
  /\ IF t.r = "EAGAIN"
     THEN /\ pending_sent_conns' = [pending_sent_conns EXCEPT ![w] = Append(@, s)]
          /\ make_pending_worker(w) /\ thread' = [thread EXCEPT ![w] = Idle]
     ELSE /\ thread' = [thread EXCEPT ![w] = [Idle EXCEPT !.at = "pending"]]
          /\ UNCHANGED <<pending_sent_conns, pending_workers>>
  /\ UNCHANGED <<sock, tx_event, free_chunks, hwVars, dispatcher, history>>

\* A socket that is still short goes to the back, and the loop ends.
submitted_pending(w) ==
  LET t == thread[w]  s == t.s IN
  /\ t.at = "return" /\ t.caller = "handle_pending_message"
  /\ \/ /\ t.r = "EAGAIN"
        /\ pending_sent_conns' = [pending_sent_conns EXCEPT ![w] = Append(@, s)]
        /\ make_pending_worker(w)
        /\ thread' = [thread EXCEPT ![w] = Idle]
        /\ UNCHANGED sock
     \/ /\ t.r # "EAGAIN"
        /\ sock' = [sock EXCEPT ![s] = [(IF t.r = "error" THEN fault(@) ELSE @)
                                         EXCEPT !.pending = FALSE]]
        /\ thread' = [thread EXCEPT ![w] = [Idle EXCEPT !.at = "pending"]]
        /\ UNCHANGED <<pending_sent_conns, pending_workers>>
  /\ UNCHANGED <<tx_event, free_chunks, hwVars, dispatcher, history>>

\* Mutant: the other pending workers are not notified.
pending_done_quietly(w) ==
  /\ thread[w].at = "pending" /\ pending_sent_conns[w] = <<>>
  /\ thread' = [thread EXCEPT ![w] = Idle]
  /\ UNCHANGED <<sock, tx_event, sendVars, hwVars, dispatcher, history>>


pending_done(w) ==
  /\ thread[w].at = "pending" /\ pending_sent_conns[w] = <<>>
  /\ notify_pending_workers
  /\ thread' = [thread EXCEPT ![w] = Idle]
  /\ UNCHANGED <<sock, pending_sent_conns, free_chunks, hwVars, dispatcher, refused, lost>>

-------------------------------------------------------------------------------
(* The handshake, in the worker's thread. *)

\* send_msg: s is then as written, or as failed if the message could not be written
\* to the TCP connection, at once or in four attempts.
send_msg(s, written, failed) ==
  \E o \in {written, failed} : sock' = [sock EXCEPT ![s] = o]

\* If the syn cannot be sent, the socket is deleted at once.
try_connect(s) ==
  send_msg(s, [sock[s] EXCEPT !.life = "open"], [sock[s] EXCEPT !.life = "dead"])

\* The messages of the handshake will be read, in the worker's thread.
set_accept_fd(o) == [o EXCEPT !.life = "open", !.is_server = TRUE]

connect(s) ==
  /\ s \notin Servers /\ sock[s].life = "none" /\ Runs(Owner[s])
  /\ try_connect(s)
  /\ UNCHANGED <<thread, tx_event, sendVars, hwVars, dispatcher, history>>

accept(s) ==
  /\ s \in Servers /\ sock[s].life = "none" /\ Runs(Owner[s])
  /\ sock' = [sock EXCEPT ![s] = set_accept_fd(@)]
  /\ UNCHANGED <<thread, tx_event, sendVars, hwVars, dispatcher, history>>

\* A client activates its queue pair and submits what it has; if it is refused,
\* assert(!r) ends the process.
activate_client(s) ==
  LET o == [sock[s] EXCEPT !.ready = TRUE, !.connected = TRUE] IN
  /\ sock' = [sock EXCEPT ![s] = o]
  /\ get_tx_buffers(Owner[s], s, o, "activate")

\* A server activates its queue pair and answers, with or without success.
activate_server(s) ==
  LET o == [sock[s] EXCEPT !.ready = TRUE, !.active = TRUE, !.peer_msg = "syn"] IN
  /\ send_msg(s, o, fault(o))
  /\ UNCHANGED <<thread, free_chunks>>

\* Mutant: what was sent before the acknowledgement is not submitted.
handshake_done_only(s) ==
  /\ sock' = [sock EXCEPT ![s].connected = TRUE, ![s].peer_msg = "ack"]
  /\ UNCHANGED <<thread, free_chunks>>

\* The client's acknowledgement: a server may send.
handshake_done(s) ==
  LET o == [sock[s] EXCEPT !.connected = TRUE, !.peer_msg = "ack"] IN
  /\ sock' = [sock EXCEPT ![s] = o]
  /\ get_tx_buffers(Owner[s], s, o, "handle_connection")

\* A message of the peer, in the order of the handshake.
handle_connection(s) ==
  LET o == sock[s] IN
  /\ Open(s) /\ Runs(Owner[s]) /\ ~o.connected /\ ~o.hung_up
  /\ \/ ~o.is_server /\ activate_client(s)
     \/ o.is_server /\ o.peer_msg = "uninitialized" /\ ~o.active /\ activate_server(s)
     \/ o.is_server /\ o.peer_msg = "syn" /\ handshake_done(s)
  /\ UNCHANGED <<tx_event, pending_sent_conns, pending_workers, hwVars, dispatcher, history>>

\* The message cannot be read, or comes when the socket is connected: fault.
handshake_fails(s) ==
  /\ Open(s) /\ Runs(Owner[s]) /\ ~(sock[s].error /\ sock[s].connected)
  /\ sock' = [sock EXCEPT ![s] = fault(@)]
  /\ UNCHANGED <<thread, tx_event, sendVars, hwVars, dispatcher, history>>

\* The peer hangs up before the handshake is over: recv_msg returns 0, which is
\* taken for a message, and peer_msg is what it was before.
peer_closed(s) ==
  LET o == [sock[s] EXCEPT !.hung_up = TRUE]
      new == o.peer_msg = "uninitialized"
  IN
  /\ Open(s) /\ Runs(Owner[s]) /\ ~o.connected /\ ~sock[s].hung_up
  /\ \/ /\ ~o.is_server
        /\ LET a == [o EXCEPT !.ready = TRUE, !.connected = TRUE] IN
             sock' = [sock EXCEPT ![s] = a] /\ get_tx_buffers(Owner[s], s, a, "activate")
     \/ /\ o.is_server /\ (new \/ o.peer_msg = "syn")
        /\ sock' = [sock EXCEPT ![s] =
                     IF o.active THEN o ELSE [o EXCEPT !.ready = TRUE, !.active = TRUE]]
        /\ UNCHANGED <<thread, free_chunks>>
     \/ /\ o.is_server /\ new
        /\ LET a == [o EXCEPT !.connected = TRUE] IN
             /\ sock' = [sock EXCEPT ![s] = a]
             /\ get_tx_buffers(Owner[s], s, a, "handle_connection")
  /\ UNCHANGED <<tx_event, pending_sent_conns, pending_workers, hwVars, dispatcher, history>>

\* Back from the submit of activate: the client acknowledges, or cannot.
activated(w) ==
  LET s == thread[w].s  o == [sock[s] EXCEPT !.active = TRUE] IN
  /\ thread[w].at = "return" /\ thread[w].caller = "activate"
  /\ send_msg(s, o, fault(o))
  /\ thread' = [thread EXCEPT ![w] = Idle]
  /\ UNCHANGED <<tx_event, sendVars, hwVars, dispatcher, history>>

-------------------------------------------------------------------------------
(* The end of a socket, in the worker's thread. *)

close(s) ==
  /\ Open(s) /\ Runs(Owner[s]) /\ (sock[s].active \/ ~sock[s].error)
  /\ sock' = [sock EXCEPT ![s].error = TRUE, ![s].active = FALSE]
  /\ UNCHANGED <<thread, tx_event, sendVars, hwVars, dispatcher, history>>

\* list::remove of a socket that is in the list once at most.
remove_pending_conn(q, s) ==
  IF Contains(q, s) THEN RemoveAt(q, CHOOSE i \in DOMAIN q : q[i] = s) ELSE q

destroy(s) ==
  /\ Open(s) /\ Runs(Owner[s])
  /\ sock' = [sock EXCEPT ![s].life = "dead", ![s].error = TRUE]
  /\ pending_sent_conns' = [pending_sent_conns EXCEPT ![Owner[s]] = remove_pending_conn(@, s)]
  /\ UNCHANGED <<thread, tx_event, pending_workers, free_chunks, hwVars, dispatcher, history>>

-------------------------------------------------------------------------------
(* The hardware and the dispatcher's thread. *)

complete(s, ok) ==
  /\ sq[s] > 0 /\ sock[s].life # "deleted"
  /\ sq' = [sq EXCEPT ![s] = @ - 1] /\ tx_cq' = [tx_cq EXCEPT ![s] = @ + 1]
  /\ tx_error' = [tx_error EXCEPT ![s] = @ \/ ~ok]
  /\ UNCHANGED <<sock, thread, tx_event, sendVars, dispatcher, history>>

Polled == Total(tx_cq)

\* Mutant: the chunk of a failed request is not returned.
handle_tx_event_failed ==
  /\ dispatcher = "poll" /\ Polled > 0
  /\ sock' = [s \in Sockets |-> IF tx_error[s] /\ Open(s) /\ sock[s].connected
                                THEN fault(sock[s]) ELSE sock[s]]
  /\ free_chunks' = free_chunks + Total([s \in {x \in Sockets : ~tx_error[x]} |-> tx_cq[s]])
  /\ tx_cq' = [s \in Sockets |-> 0] /\ tx_error' = [s \in Sockets |-> FALSE]
  /\ dispatcher' = "notify"
  /\ UNCHANGED <<thread, tx_event, pending_sent_conns, pending_workers, sq, history>>

\* Everything completed is polled: a failed request faults its socket, and all
\* chunks go back to the cluster.
handle_tx_event ==
  /\ dispatcher = "poll" /\ Polled > 0
  /\ sock' = [s \in Sockets |-> IF tx_error[s] /\ Open(s) /\ sock[s].connected
                                THEN fault(sock[s]) ELSE sock[s]]
  /\ free_chunks' = free_chunks + Polled
  /\ tx_cq' = [s \in Sockets |-> 0] /\ tx_error' = [s \in Sockets |-> FALSE]
  /\ dispatcher' = "notify"
  /\ UNCHANGED <<thread, tx_event, pending_sent_conns, pending_workers, sq, history>>

post_tx_buffer ==
  /\ dispatcher = "notify"
  /\ notify_pending_workers
  /\ dispatcher' = "poll"
  /\ UNCHANGED <<sock, thread, pending_sent_conns, free_chunks, hwVars, refused, lost>>

\* A round of polling that found nothing destroys the dead queue pairs; what
\* the hardware still had of theirs never completes.
delete_dead_queue_pairs ==
  LET dead == {s \in Sockets : sock[s].life = "dead"}
      gone == [s \in dead |-> sq[s]]
  IN  /\ dispatcher = "poll" /\ Polled = 0 /\ dead # {}
      /\ sock' = [s \in Sockets |-> IF s \in dead THEN [sock[s] EXCEPT !.life = "deleted"]
                                                  ELSE sock[s]]
      /\ sq' = [s \in Sockets |-> IF s \in dead THEN 0 ELSE sq[s]]
      /\ lost' = lost + Total(gone)
      /\ UNCHANGED <<thread, tx_event, sendVars, tx_cq, tx_error, dispatcher, refused, missed>>
-------------------------------------------------------------------------------
Init ==
  /\ sock = [s \in Sockets |-> NewSocket] /\ thread = [w \in Workers |-> Idle]
  /\ tx_event = [w \in Workers |-> 0] /\ pending_sent_conns = [w \in Workers |-> <<>>]
  /\ pending_workers = <<>> /\ free_chunks = NumChunks
  /\ sq = [s \in Sockets |-> 0] /\ tx_cq = [s \in Sockets |-> 0]
  /\ tx_error = [s \in Sockets |-> FALSE] /\ dispatcher = "poll"
  /\ refused = 0 /\ lost = 0 /\ missed = FALSE

WorkerStep(w) ==
  \/ submit(w) \/ sent(w) \/ handle_pending_message(w) \/ submit_pending(w)
  \/ submitted_pending(w) \/ pending_done(w) \/ activated(w)

Next ==
  \/ \E w \in Workers : WorkerStep(w)
  \/ \E s \in Sockets : \E n \in 1 .. MaxData : send(s, n)
  \/ \E s \in Sockets : \/ connect(s) \/ accept(s) \/ handle_connection(s)
                        \/ handshake_fails(s) \/ peer_closed(s) \/ close(s) \/ destroy(s)
  \/ \E s \in Sockets, ok \in BOOLEAN : complete(s, ok)
  \/ handle_tx_event \/ post_tx_buffer \/ delete_dead_queue_pairs

Spec == Init /\ [][Next]_vars

\* The worker's loop and the dispatcher run, and the hardware completes what it
\* was given (with an error after its retries, at the latest).
FairSpec ==
  /\ Spec /\ WF_vars(handle_tx_event) /\ WF_vars(post_tx_buffer)
  /\ \A w \in Workers : WF_vars(WorkerStep(w))
  /\ \A s \in Sockets : WF_vars(\E ok \in BOOLEAN : complete(s, ok))

-------------------------------------------------------------------------------
(* Properties. *)

TypeOK ==
  /\ sock \in [Sockets -> Socket] /\ thread \in [Workers -> Thread]
  /\ tx_event \in [Workers -> Nat] /\ free_chunks \in 0 .. NumChunks
  /\ pending_sent_conns \in [Workers -> Seq(Sockets)]
  /\ pending_workers \in Seq(Workers)
  /\ sq \in [Sockets -> 0 .. NumChunks] /\ tx_cq \in [Sockets -> 0 .. NumChunks]
  /\ tx_error \in [Sockets -> BOOLEAN] /\ dispatcher \in {"poll", "notify"}
  /\ refused \in 0 .. NumChunks /\ lost \in 0 .. NumChunks /\ missed \in BOOLEAN

\* What the workers inside submit hold.
Held == Total([w \in Workers |-> thread[w].got])

\* Every chunk is in the cluster, held by a worker inside submit, with the
\* hardware or in the completion queue; the only ones that are not were posted
\* to a queue pair that refused them or was destroyed under them.
ChunksConserved ==
  free_chunks + Held + Total(sq) + Polled + refused + lost = NumChunks

\* A connected socket with data left is always in its worker's list, and the
\* worker in the dispatcher's list or about to work through its own (get_reged_mem,
\* handle_pending_message); a destroyed socket is in no list.
PendingKnown ==
  \A s \in Sockets : LET o == sock[s]  w == Owner[s] IN
    /\ Open(s) /\ o.connected /\ ~o.error /\ o.pending_bl > 0 /\ thread[w].s # s =>
         /\ Contains(pending_sent_conns[w], s)
         /\ Contains(pending_workers, w) \/ tx_event[w] > 0 \/ thread[w].at # "idle"
    /\ ~Open(s) => ~Contains(pending_sent_conns[w], s)

\* A worker that waits for chunks when nothing is in flight any more has missed
\* its notification in one way only: the dispatcher looked for it between its
\* get_tx_buffers and its make_pending_worker (or chunks were lost for good).
ForgottenOnlyInWindow ==
  /\ pending_workers # <<>> /\ dispatcher = "poll" /\ Polled = 0
  /\ \A s \in Sockets : sq[s] = 0
  /\ \A w \in Workers : thread[w].at = "idle" /\ tx_event[w] = 0
  => missed \/ lost > 0 \/ refused > 0

\* Nothing is posted to a queue pair that was not activated, whenever the user
\* starts to send, unless the peer hung up during the handshake and its closing
\* was read as a message (recv_msg returns 0).
PostedWhenReady == refused > 0 => \E s \in Sockets : sock[s].hung_up

\* What a connected socket was given to send is posted, unless the socket fails
\* or a wakeup or chunks were lost as above.
DataPosted ==
  \A s \in Sockets :
    (Open(s) /\ sock[s].connected /\ sock[s].pending_bl > 0) ~>
       (sock[s].pending_bl = 0 \/ sock[s].error \/ missed \/ lost > 0 \/ refused > 0)
===============================================================================
