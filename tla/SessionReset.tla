----------------------------- MODULE SessionReset -----------------------------
(***************************************************************************)
(* A peer that lost its session connects again.  handle_connect_msg runs   *)
(* in the event loop of the newly accepted connection and there resets the *)
(* existing connection (was_session_reset) and gives it the new socket,    *)
(* while the existing connection's own event loop may be in the middle of  *)
(* handle_write: with CANWRITE that holds neither lock while it numbers    *)
(* and writes a message, nor while it acknowledges.                        *)
(*                                                                         *)
(* The module models the existing connection, of a policy with resetcheck. *)
(* A session is named by its number, 0 for the first, and a message by its *)
(* position in log.                                                        *)
(***************************************************************************)
EXTENDS Integers, Sequences

CONSTANTS
  MaxMsgs,    \* bound on the messages submitted
  MaxReads,   \* bound on the messages read from the peers
  MaxResets,  \* bound on the sessions a peer loses
  Word        \* one more than the largest value of the unsigned log, read

\* The counter has 64 bits: it does not wrap around by counting messages.
ASSUME ResetAssumption ==
  {MaxMsgs, MaxReads, MaxResets} \subseteq Nat /\ Word \in Nat /\ MaxReads < Word

VARIABLES
  out_q, sent, out_seq,  \* as in Session, one priority being enough here
  in_seq, ack_left,
  can_write, state,
  outcoming_bl,          \* what is to be written to the socket cs
  cs,                    \* the session whose peer the socket leads to
  writer,                \* handle_write: "idle", "loop", "write", "unlocked", "ack"
  msg, left,             \* its local variables
  acceptor,              \* handle_connect_msg holds lock ("reset") or not ("none")
  log,                   \* history: log[i] is the session message i was submitted in
  read,                  \* history: messages read in all sessions
  session,               \* history: the current peer's session
  dispatched,            \* history: messages of this session dispatched
  received,              \* history: what the current peer has been sent
  torn                   \* history: a reset fell between read_ack_left and write_ack

vars == <<out_q, sent, out_seq, in_seq, ack_left, can_write, state, outcoming_bl,
          cs, writer, msg, left, acceptor, log, read, session, dispatched,
          received, torn>>

NoMsg == 0

\* _try_send: the socket takes all of buf, or none of it and it stays buffered.
TrySend(buf, taken) ==
  /\ outcoming_bl' = IF taken THEN <<>> ELSE buf
  /\ received' = IF taken /\ cs = session THEN received \o buf ELSE received

-------------------------------------------------------------------------------
send_message ==
  /\ Len(log) < MaxMsgs
  /\ log' = Append(log, session)
  /\ out_q' = Append(out_q, Len(log) + 1)
  /\ UNCHANGED <<sent, out_seq, in_seq, ack_left, can_write, state, outcoming_bl, cs,
                 writer, msg, left, acceptor, read, session, dispatched, received, torn>>

-------------------------------------------------------------------------------
(* The existing connection's event loop. *)

\* process holds lock from the sequence check to the dispatch.
read_message ==
  /\ writer = "idle" /\ acceptor = "none"
  /\ state = "OPEN" /\ cs = session /\ read < MaxReads
  /\ read' = read + 1 /\ dispatched' = dispatched + 1
  /\ in_seq' = in_seq + 1
  /\ ack_left' = (ack_left + 1) % Word
  /\ UNCHANGED <<out_q, sent, out_seq, can_write, state, outcoming_bl, cs, writer,
                 msg, left, acceptor, log, session, received, torn>>

\* CANWRITE takes only write_lock; anything else takes lock first and sends what
\* is buffered.
handle_write ==
  /\ writer = "idle"
  /\ \/ /\ can_write = "CANWRITE"
        /\ writer' = "loop"
        /\ UNCHANGED <<outcoming_bl, received>>
     \/ /\ can_write # "CANWRITE" /\ acceptor = "none"
        /\ state # "NONE"
        /\ \E taken \in BOOLEAN : TrySend(outcoming_bl, taken)
        /\ UNCHANGED writer
  /\ UNCHANGED <<out_q, sent, out_seq, in_seq, ack_left, can_write, state, cs,
                 msg, left, acceptor, log, read, session, dispatched, torn>>

get_next_outgoing ==
  /\ writer = "loop"
  /\ IF can_write = "CANWRITE" /\ out_q # <<>>
     THEN /\ msg' = Head(out_q) /\ out_q' = Tail(out_q)
          /\ sent' = Append(sent, Head(out_q))
          /\ writer' = "write"
     ELSE writer' = "unlocked" /\ UNCHANGED <<msg, out_q, sent>>
  /\ UNCHANGED <<out_seq, in_seq, ack_left, can_write, state, outcoming_bl, cs, left,
                 acceptor, log, read, session, dispatched, received, torn>>

\* Without write_lock.  A message the socket did not take ends the loop.
write_message ==
  /\ writer = "write"
  /\ out_seq' = out_seq + 1
  /\ \E taken \in BOOLEAN :
        /\ TrySend(Append(outcoming_bl, [tag |-> "MSG", seq |-> out_seq + 1, m |-> msg]), taken)
        /\ writer' = IF taken THEN "loop" ELSE "unlocked"
  /\ msg' = NoMsg
  /\ UNCHANGED <<out_q, sent, in_seq, ack_left, can_write, state, cs, left, acceptor,
                 log, read, session, dispatched, torn>>

\* After the loop, without a lock: how many messages are to be acknowledged.
read_ack_left ==
  /\ writer = "unlocked"
  /\ left' = ack_left
  /\ writer' = IF ack_left > 0 THEN "ack" ELSE "idle"
  /\ UNCHANGED <<out_q, sent, out_seq, in_seq, ack_left, can_write, state, outcoming_bl,
                 cs, msg, acceptor, log, read, session, dispatched, received, torn>>

write_ack ==
  /\ writer = "ack"
  /\ \E taken \in BOOLEAN :
        TrySend(Append(outcoming_bl, [tag |-> "ACK", seq |-> in_seq, m |-> NoMsg]), taken)
  /\ ack_left' = (ack_left - left) % Word
  /\ writer' = "idle" /\ left' = 0
  /\ UNCHANGED <<out_q, sent, out_seq, in_seq, can_write, state, cs, msg, acceptor,
                 log, read, session, dispatched, torn>>

\* Mutant: what was buffered for the old socket goes to the new one.
deactivate_keeping_buffer ==
  /\ writer = "idle" /\ acceptor = "none" /\ state = "NONE"
  /\ out_q' = sent \o out_q /\ out_seq' = out_seq - Len(sent) /\ sent' = <<>>
  /\ cs' = session /\ state' = "ACCEPTING"
  /\ UNCHANGED <<in_seq, ack_left, can_write, outcoming_bl, writer, msg, left, acceptor,
                 log, read, session, dispatched, received, torn>>

\* deactivate_existing, submitted by replace to this event loop: the old socket
\* is dropped with what was buffered for it, and the new one takes its place.
deactivate ==
  /\ writer = "idle" /\ acceptor = "none" /\ state = "NONE"
  /\ out_q' = sent \o out_q /\ out_seq' = out_seq - Len(sent) /\ sent' = <<>>
  /\ outcoming_bl' = <<>>
  /\ cs' = session /\ state' = "ACCEPTING"
  /\ UNCHANGED <<in_seq, ack_left, can_write, writer, msg, left, acceptor,
                 log, read, session, dispatched, received, torn>>

\* The replaced connection answers the peer's connect with READY, a hard reset
\* needing no exchange of sequence numbers.
open ==
  /\ writer = "idle" /\ acceptor = "none" /\ state = "ACCEPTING"
  /\ state' = "OPEN" /\ can_write' = "CANWRITE"
  /\ in_seq' = 0
  /\ UNCHANGED <<out_q, sent, out_seq, ack_left, outcoming_bl, cs, writer, msg, left,
                 acceptor, log, read, session, dispatched, received, torn>>

-------------------------------------------------------------------------------
(* handle_connect_msg of the accepted connection, in its own event loop. *)

discard_out_queue == sent' = <<>> /\ out_q' = <<>>

\* randomize_out_seq, between peers that do not sign their messages.
first_out_seq == 0

\* Mutant: the acknowledgements of the old session are still owed.
was_session_reset_acks ==
  /\ acceptor = "none" /\ state = "OPEN" /\ session < MaxResets
  /\ acceptor' = "reset"
  /\ session' = session + 1 /\ dispatched' = 0 /\ received' = <<>>
  /\ discard_out_queue
  /\ out_seq' = first_out_seq /\ in_seq' = 0 /\ ack_left' = ack_left
  /\ can_write' = "NOWRITE"
  /\ torn' = (torn \/ writer = "ack")
  /\ UNCHANGED <<state, outcoming_bl, cs, writer, msg, left, log, read>>

\* With lock held, write_lock is taken for the reset alone.
was_session_reset ==
  /\ acceptor = "none" /\ state = "OPEN" /\ session < MaxResets
  /\ acceptor' = "reset"
  /\ session' = session + 1 /\ dispatched' = 0 /\ received' = <<>>
  /\ discard_out_queue
  /\ out_seq' = first_out_seq /\ in_seq' = 0 /\ ack_left' = 0
  /\ can_write' = "NOWRITE"
  /\ torn' = (torn \/ writer = "ack")
  /\ UNCHANGED <<state, outcoming_bl, cs, writer, msg, left, log, read>>

\* Mutant: the queue is discarded once more when the socket is replaced.
replace_discarding ==
  /\ acceptor = "reset"
  /\ can_write' = "REPLACING" /\ state' = "NONE"
  /\ acceptor' = "none"
  /\ discard_out_queue
  /\ UNCHANGED <<out_seq, in_seq, ack_left, outcoming_bl, cs, writer, msg,
                 left, log, read, session, dispatched, received, torn>>

\* write_lock is taken again, and both locks released.
replace ==
  /\ acceptor = "reset"
  /\ can_write' = "REPLACING" /\ state' = "NONE"
  /\ acceptor' = "none"
  /\ UNCHANGED <<out_q, sent, out_seq, in_seq, ack_left, outcoming_bl, cs, writer, msg,
                 left, log, read, session, dispatched, received, torn>>

-------------------------------------------------------------------------------
Init ==
  /\ out_q = <<>> /\ sent = <<>> /\ out_seq = 0 /\ in_seq = 0 /\ ack_left = 0
  /\ can_write = "CANWRITE" /\ state = "OPEN" /\ outcoming_bl = <<>> /\ cs = 0
  /\ writer = "idle" /\ msg = NoMsg /\ left = 0 /\ acceptor = "none"
  /\ log = <<>> /\ read = 0 /\ session = 0 /\ dispatched = 0 /\ received = <<>>
  /\ torn = FALSE

Next ==
  \/ send_message
  \/ read_message \/ handle_write \/ get_next_outgoing \/ write_message
  \/ read_ack_left \/ write_ack \/ deactivate \/ open
  \/ was_session_reset \/ replace

Spec == Init /\ [][Next]_vars

-------------------------------------------------------------------------------
(* Properties. *)

\* Nothing of a lost session reaches the peer's new one, neither a message
\* submitted before the reset nor an acknowledgement of one the old peer sent.
NothingOld ==
  \A i \in DOMAIN received :
     IF received[i].tag = "MSG" THEN log[received[i].m] = session
                                ELSE received[i].seq <= dispatched

\* What is submitted after the reset survives the replacement of the socket.
NewKept ==
  LET Written == outcoming_bl \o received
      Held    == {out_q[i] : i \in DOMAIN out_q} \cup {msg} \cup
                 {Written[i].m : i \in DOMAIN Written}
  IN  \A i \in DOMAIN log : log[i] = session => i \in Held

\* A peer that starts a session receives its messages numbered from 1, one by
\* one: process asserts it when ms_die_on_skipped_message is set.
NoSkippedSeq ==
  LET messages == SelectSeq(received, LAMBDA r : r.tag = "MSG")
  IN  \A i \in DOMAIN messages : messages[i].seq = i

\* What this session has dispatched is still owed an acknowledgement, or one that
\* covers it has been written; nothing of another session is owed one. Only a reset
\* between handle_write's two unlocked uses of ack_left (was_session_reset calls its
\* own assignment "safe, double locked") makes the unsigned counter wrap around.
AckLeftCounts ==
  LET Written == outcoming_bl \o received
  IN  ~torn => /\ ack_left <= dispatched
               /\ \/ ack_left > 0 \/ dispatched = 0
                  \/ \E i \in DOMAIN Written : Written[i].tag = "ACK" /\ Written[i].seq = dispatched
===============================================================================
