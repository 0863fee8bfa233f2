------------------------------- MODULE Session -------------------------------
(***************************************************************************)
(* One direction of the message path of a lossless RDMAReliableConnected:  *)
(* the sender's priority queue out_q and its list sent of unacknowledged   *)
(* messages, the receiver's in_seq, the socket between them and the        *)
(* exchange of sequence numbers when a broken socket is replaced.          *)
(*                                                                         *)
(* Each endpoint runs in one event-loop thread; send_message runs in any   *)
(* thread under write_lock.  handle_write drops write_lock while a message *)
(* is numbered and written, which is why it takes three actions here.      *)
(*                                                                         *)
(* The banner and connect/reply negotiation is one action, Reconnect: it   *)
(* ends with the old socket gone on both sides and the receiver's in_seq   *)
(* on its way to the sender.                                               *)
(***************************************************************************)
EXTENDS Integers, Sequences

CONSTANTS
  MaxMsgs,           \* bound on the messages handed to send_message
  MaxFaults,         \* bound on spontaneous socket errors
  Policies           \* policies the two endpoints may have for each other

Ends == {"sender", "receiver"}

ASSUME SessionAssumption ==
  /\ MaxMsgs \in Nat /\ MaxFaults \in Nat
  /\ Policies \subseteq [Ends -> [server : BOOLEAN, standby : BOOLEAN]]

VARIABLES
  log,          \* history: log[i] is the priority of the i-th message submitted
  out_q,        \* messages to write, one list per priority
  sent,         \* messages written and not acknowledged
  out_seq,      \* sequence number of the last message written
  writer,       \* where handle_write is: "idle", "loop", or "write" (lock dropped)
  msg,          \* the message handle_write holds in "write"
  write_event,  \* the write handler is queued in the sender's event center
  state,        \* the sender's connection state
  toR,          \* messages in the socket
  toS,          \* acks and the sequence number exchanged, back to the sender
  in_seq,       \* sequence number of the last message dispatched
  ack_left,     \* messages dispatched and not acknowledged
  rstate,       \* the receiver's connection state
  delivered,    \* history: the messages dispatched, by their position in log
  faults,       \* spontaneous socket errors so far
  policy        \* policy.server and policy.standby of each end, set when it is made

senderVars   == <<log, out_q, sent, out_seq, writer, msg, write_event, state, policy>>
receiverVars == <<in_seq, ack_left, rstate, delivered, policy>>
vars == <<log, out_q, sent, out_seq, writer, msg, write_event, state,
          toR, toS, in_seq, ack_left, rstate, delivered, faults, policy>>

Prios == {"highest", "default"}
\* A message is its position in log and its sequence number, 0 until written.
Msg   == [id : Nat, seq : Nat]
NoMsg == [id |-> 0, seq |-> 0]
Note  == [tag : {"SEQ", "ACK"}, seq : Nat]

is_queued == \E p \in Prios : out_q[p] # <<>>
can_write == state = "OPEN"   \* CANWRITE is set on entering OPEN, NOWRITE on leaving

\* How many messages at the front of q carry a sequence number in S.
Leading(q, S) ==
  CHOOSE k \in 0 .. Len(q) : /\ \A i \in 1 .. k : q[i].seq \in S
                             /\ k < Len(q) => q[k + 1].seq \notin S

\* q without its first k elements.
Drop(q, k) == SubSeq(q, k + 1, Len(q))

-------------------------------------------------------------------------------
(* The user: any thread, under write_lock. *)

send_message(p) ==
  /\ Len(log) < MaxMsgs
  /\ log' = Append(log, p)
  /\ out_q' = [out_q EXCEPT ![p] = Append(@, [id |-> Len(log) + 1, seq |-> 0])]
  /\ write_event' = TRUE
  /\ UNCHANGED <<sent, out_seq, writer, msg, state, toR, toS, receiverVars, faults>>

-------------------------------------------------------------------------------
(* The sender's event-loop thread. *)

\* Mutant: sent is requeued behind what waits at the highest priority.
requeue_sent_behind ==
  /\ out_q' = [out_q EXCEPT !["highest"] = @ \o sent]
  /\ out_seq' = out_seq - Len(sent)
  /\ sent' = <<>>

\* sent goes back to the front of the highest priority and its numbers are
\* given back, to be given out again in the same order.
requeue_sent ==
  /\ out_q' = [out_q EXCEPT !["highest"] = sent \o @]
  /\ out_seq' = out_seq - Len(sent)
  /\ sent' = <<>>

\* Mutant: the discarded messages' numbers are given out again.
discard_without_counting(seq) ==
  LET k == Leading(out_q["highest"], 1 .. seq)
  IN  /\ out_q' = [out_q EXCEPT !["highest"] = Drop(@, k)]
      /\ out_seq' = out_seq

\* The peer already has these of the requeued messages.
discard_requeued_up_to(seq) ==
  LET k == Leading(out_q["highest"], 1 .. seq)
  IN  /\ out_q' = [out_q EXCEPT !["highest"] = Drop(@, k)]
      /\ out_seq' = out_seq + k

\* handle_write starts: with CANWRITE it enters its loop, in STANDBY it starts
\* to connect when there is something to send.
handle_write ==
  /\ writer = "idle" /\ write_event
  /\ write_event' = FALSE
  /\ IF can_write
     THEN writer' = "loop" /\ UNCHANGED state
     ELSE /\ state' = IF state = "STANDBY" /\ ~policy["sender"].server /\ is_queued
                      THEN "CONNECTING" ELSE state
          /\ UNCHANGED writer
  /\ UNCHANGED <<log, out_q, sent, out_seq, msg, toR, toS, receiverVars, faults>>

\* Under write_lock: take the first message of the highest priority, put it on
\* sent and drop the lock, or leave the loop.
get_next_outgoing ==
  /\ writer = "loop"
  /\ IF can_write /\ is_queued
     THEN LET p == IF out_q["highest"] # <<>> THEN "highest" ELSE "default"
              m == Head(out_q[p])
          IN  /\ out_q' = [out_q EXCEPT ![p] = Tail(@)]
              /\ sent' = Append(sent, m)
              /\ msg' = m
              /\ writer' = "write"
     ELSE /\ writer' = "idle"
          /\ UNCHANGED <<out_q, sent, msg>>
  /\ UNCHANGED <<log, out_seq, write_event, state, toR, toS, receiverVars, faults>>

Numbered(m) == [m EXCEPT !.seq = out_seq + 1]

\* Mutant: the message requeued after a failed write has no number.
Renumber_not(s) == s

\* sent holds a pointer to the message, its last, so numbering it shows there.
Renumber(s) == [i \in DOMAIN s |-> IF i = Len(s) THEN Numbered(msg) ELSE s[i]]

\* Without the lock: number the message and write it to the socket.
write_message ==
  /\ writer = "write"
  /\ out_seq' = out_seq + 1
  /\ sent' = Renumber(sent)
  /\ toR' = Append(toR, Numbered(msg))
  /\ writer' = "loop" /\ msg' = NoMsg
  /\ UNCHANGED <<log, out_q, write_event, state, toS, receiverVars, faults>>

\* The state fault() leaves a lossless connection in, given whether it still
\* has something to send.
AfterFault(end, queued) ==
  IF (policy[end].standby /\ ~queued) \/ policy[end].server THEN "STANDBY" ELSE "CONNECTING"

\* Writing fails: the message keeps the number it was given, and fault()
\* requeues it with the others.
write_fails ==
  /\ writer = "write" /\ faults < MaxFaults
  /\ faults' = faults + 1
  /\ LET all == Renumber(sent)
     IN  /\ out_q' = [out_q EXCEPT !["highest"] = all \o @]
         /\ out_seq' = out_seq + 1 - Len(all)
  /\ sent' = <<>>
  /\ state' = AfterFault("sender", TRUE)
  /\ writer' = "idle" /\ msg' = NoMsg
  /\ toS' = <<>>
  /\ UNCHANGED <<log, write_event, toR, receiverVars>>

\* Reading fails, or finds that the peer closed the socket.
fault ==
  /\ writer = "idle" /\ state \in {"WAIT_SEQ", "OPEN"}
  /\ IF rstate \in {"CONNECTING", "STANDBY"} /\ toS = <<>>
     THEN UNCHANGED faults
     ELSE faults < MaxFaults /\ faults' = faults + 1
  /\ requeue_sent
  /\ state' = AfterFault("sender", is_queued \/ sent # <<>>)
  /\ toS' = <<>>
  /\ UNCHANGED <<log, writer, msg, write_event, toR, receiverVars>>

\* The sequence numbers an acknowledgement covers.
UpTo(seq) == 0 .. seq

handle_ack ==
  /\ writer = "idle" /\ state = "OPEN"
  /\ toS # <<>> /\ Head(toS).tag = "ACK"
  /\ sent' = Drop(sent, Leading(sent, UpTo(Head(toS).seq)))
  /\ toS' = Tail(toS)
  /\ UNCHANGED <<log, out_q, out_seq, writer, msg, write_event, state, toR,
                 receiverVars, faults>>

\* Mutant: what was queued during the handshake does not wake the writer.
wake_never == write_event

\* The connection dispatches its write handler when something waits in out_q.
wake_if_queued == write_event \/ \E p \in Prios : out_q'[p] # <<>>

\* STATE_CONNECTING_WAIT_ACK_SEQ or STATE_ACCEPTING_WAIT_SEQ: the peer's in_seq
\* arrives; what it has is discarded and the connection opens for writing.
wait_seq ==
  /\ writer = "idle" /\ state = "WAIT_SEQ"
  /\ toS # <<>> /\ Head(toS).tag = "SEQ"
  /\ discard_requeued_up_to(Head(toS).seq)
  /\ state' = "OPEN"
  /\ write_event' = wake_if_queued
  /\ toS' = Tail(toS)
  /\ UNCHANGED <<log, sent, writer, msg, toR, receiverVars, faults>>

-------------------------------------------------------------------------------
(* The receiver's event-loop thread. *)

\* A message is read and dispatched, or dropped when its number is old.  The
\* drop leaves the parser expecting a footer, so the stream is not readable any more.
read_message ==
  /\ rstate = "OPEN" /\ toR # <<>>
  /\ toR' = Tail(toR)
  /\ LET m == Head(toR)
     IN  IF m.seq <= in_seq
         THEN /\ rstate' = "READ_FOOTER"
              /\ UNCHANGED <<in_seq, ack_left, delivered>>
         ELSE /\ in_seq' = m.seq
              /\ ack_left' = ack_left + 1
              /\ delivered' = Append(delivered, m.id)
              /\ UNCHANGED rstate
  /\ UNCHANGED <<senderVars, toS, faults>>

\* handle_write of the receiver acknowledges all it has dispatched.
write_ack ==
  /\ rstate = "OPEN" /\ ack_left > 0
  /\ toS' = IF state \in {"WAIT_SEQ", "OPEN"}
            THEN Append(toS, [tag |-> "ACK", seq |-> in_seq]) ELSE toS
  /\ ack_left' = 0
  /\ UNCHANGED <<senderVars, toR, in_seq, rstate, delivered, faults>>

\* The receiver's connection fails.  Whether it has something to send itself is
\* the other direction's business, hence both outcomes.
receiver_fault ==
  /\ rstate \in {"OPEN", "READ_FOOTER"}
  /\ IF rstate = "READ_FOOTER" \/ (state \in {"CONNECTING", "STANDBY"} /\ toR = <<>>)
     THEN UNCHANGED faults
     ELSE faults < MaxFaults /\ faults' = faults + 1
  /\ \E queued \in BOOLEAN :
        rstate' = AfterFault("receiver", queued)
  /\ toR' = <<>>
  /\ UNCHANGED <<senderVars, toS, in_seq, ack_left, delivered>>

\* Something of the other direction takes the receiver out of STANDBY.
receiver_connect ==
  /\ rstate = "STANDBY" /\ ~policy["receiver"].server
  /\ rstate' = "CONNECTING"
  /\ UNCHANGED <<senderVars, toR, toS, in_seq, ack_left, delivered, faults>>

-------------------------------------------------------------------------------
(* A new socket.  Either side connects; the other side's connection, in     *)
(* whatever state, is given the new socket (requeueing what it had sent),   *)
(* and the receiver's in_seq is the first thing sent to the sender.         *)
Reconnect ==
  /\ state = "CONNECTING" \/ rstate = "CONNECTING"
  /\ writer = "idle"
  /\ requeue_sent
  /\ state' = "WAIT_SEQ" /\ rstate' = "OPEN"
  /\ toR' = <<>>
  /\ toS' = <<[tag |-> "SEQ", seq |-> in_seq]>>
  /\ UNCHANGED <<log, writer, msg, write_event, in_seq, ack_left, delivered, faults, policy>>

-------------------------------------------------------------------------------
\* The first socket has just been negotiated, whichever side asked for it.
Init ==
  /\ log = <<>> /\ out_q = [p \in Prios |-> <<>>]
  /\ sent = <<>> /\ out_seq = 0
  /\ writer = "idle" /\ msg = NoMsg /\ write_event = FALSE
  /\ state = "WAIT_SEQ" /\ rstate = "OPEN"
  /\ toR = <<>> /\ toS = <<[tag |-> "SEQ", seq |-> 0]>>
  /\ in_seq = 0 /\ ack_left = 0 /\ delivered = <<>> /\ faults = 0
  /\ policy \in Policies

Next ==
  \/ \E p \in Prios : send_message(p)
  \/ handle_write \/ get_next_outgoing \/ write_message \/ write_fails
  \/ fault \/ handle_ack \/ wait_seq
  \/ read_message \/ write_ack \/ receiver_fault \/ receiver_connect
  \/ Reconnect

Spec == Init /\ [][Next]_vars

\* The two event loops keep running their handlers, a closed socket is noticed,
\* and a connection attempt is repeated until it succeeds.  Nothing is assumed
\* of the user, of spontaneous errors or of the other direction's traffic.
PeerClosed == /\ writer = "idle" /\ rstate \in {"CONNECTING", "STANDBY"} /\ fault
ReceiverPeerClosed == /\ state \in {"CONNECTING", "STANDBY"} /\ receiver_fault

Fairness ==
  /\ WF_vars(handle_write) /\ WF_vars(get_next_outgoing)
  /\ WF_vars(write_message) /\ WF_vars(handle_ack) /\ WF_vars(wait_seq)
  /\ WF_vars(read_message) /\ WF_vars(write_ack)
  /\ WF_vars(PeerClosed) /\ WF_vars(ReceiverPeerClosed)
  /\ WF_vars(Reconnect)

FairSpec == Spec /\ Fairness

-------------------------------------------------------------------------------
(* Properties. *)

TypeOK ==
  /\ log \in Seq(Prios) /\ out_q \in [Prios -> Seq(Msg)] /\ sent \in Seq(Msg)
  /\ out_seq \in Nat /\ in_seq \in Nat /\ ack_left \in Nat /\ faults \in Nat
  /\ writer \in {"idle", "loop", "write"} /\ msg \in Msg /\ write_event \in BOOLEAN
  /\ state \in {"CONNECTING", "STANDBY", "WAIT_SEQ", "OPEN"}
  /\ rstate \in {"CONNECTING", "STANDBY", "READ_FOOTER", "OPEN"}
  /\ toR \in Seq(Msg) /\ toS \in Seq(Note) /\ delivered \in Seq(Nat)

\* Nothing the receiver reads is old or ahead of what it expects: the two
\* assertions of ms_die_on_old_message and ms_die_on_skipped_message never fail.
InOrderArrival ==
  rstate = "OPEN" => \A i \in DOMAIN toR : toR[i].seq = in_seq + i

\* The connection implements a lossless channel: each message is dispatched
\* once, in order within its priority and, under FairSpec, eventually.
Channel == INSTANCE LosslessChannel
  WITH Prios <- Prios, MaxMsgs <- MaxMsgs, log <- log, delivered <- delivered
LosslessDelivery == Channel!Spec
===============================================================================
