------------------------------ MODULE Connection ------------------------------
(***************************************************************************)
(* The handshake of RDMAReliableConnected between two messengers.  Each    *)
(* messenger keeps the connection registered for the other in conns; a     *)
(* connection that connects opens a socket, on whose other end a new       *)
(* connection object accepts.  handle_connect_msg of the accepted object   *)
(* finds the connection registered for the peer, and refuses, delays or    *)
(* accepts the attempt, replaces the existing connection's socket by its   *)
(* own, or opens a new session.                                            *)
(*                                                                         *)
(* Every connection runs in an event loop of its own.  process holds lock  *)
(* from a message read to the answer written and is one action, except     *)
(* where it drops lock: for learned_addr, and twice in handle_connect_msg, *)
(* to look up the existing connection and to register itself in            *)
(* accept_conn.  The replacement of a socket goes on in two lambdas run by *)
(* the old and the new event loop.                                         *)
(***************************************************************************)
EXTENDS Integers, Sequences

CONSTANTS
  MaxConns,      \* connection objects of a messenger at a time
  MaxSockets,    \* sockets at a time
  MaxGlobal,     \* bound on global_seq: attempts, retries and replies
  MaxSeq,        \* bound on connect_seq in answers to RETRY_SESSION
  MaxFaults,     \* bound on broken sockets, idle timeouts and mark_downs
  Policies       \* the policies a run considers

Node == {1, 2}            \* the messengers, in the order of their addresses
Peer(n) == 3 - n

\* Who has server, standby, resetcheck and lossy in its policy for the other.
PolicySet == [server : SUBSET Node, standby : SUBSET Node,
              resetcheck : SUBSET Node, lossy : SUBSET Node]

ASSUME ConnectionAssumption ==
  /\ {MaxConns, MaxSockets, MaxGlobal, MaxSeq, MaxFaults} \subseteq Nat
  /\ Policies \subseteq PolicySet

VARIABLES
  policy,       \* one of Policies, fixed
  conn,         \* the connection objects of both messengers
  conns,        \* per messenger, the connection registered for the peer
  global_seq,   \* per messenger
  chan,         \* per socket and messenger, what is on its way to it
  broken,       \* sockets that failed
  failed,       \* the assertion that aborted the program, or "none"
  faults

vars == <<policy, conn, conns, global_seq, chan, broken, failed, faults>>

Conns   == Node \X (1 .. MaxConns)
Sockets == 1 .. MaxSockets
None    == <<0, 0>>
Stale   == <<0, 1>>       \* a session that no longer exists

\* What a connection object holds.  The last two fields are history: the
\* connection whose messages its in_seq counts, and the one its out_seq numbers
\* messages for, None when it starts from 0.
Free == [state |-> "FREE", cs |-> 0, connect_seq |-> 0, gseq |-> 0, peer_gseq |-> 0,
         replacing |-> FALSE, reset_from_peer |-> FALSE, once_ready |-> FALSE,
         queued |-> FALSE, lossy |-> FALSE, tick |-> FALSE,
         at |-> "", existing |-> None, msg |-> [tag |-> "NONE", cseq |-> 0, gseq |-> 0],
         swap |-> "", new_cs |-> 0, in_of |-> None, out_to |-> None]

Msg(tag, cseq, gseq) == [tag |-> tag, cseq |-> cseq, gseq |-> gseq]

Connecting   == {"CONNECTING", "WAIT_IDENTIFY", "WAIT_CONNECT_REPLY"}
HalfAccepted == {"WAIT_CONNECT_MSG", "CONNECT_MSG_AUTH"}
Registered   == Connecting \cup {"WAIT_SEQ", "OPEN", "STANDBY", "NONE"}

ConnsOf(n)    == {c \in Conns : c[1] = n}
Holds(c, s)   == s \in {conn[c].cs, conn[c].new_cs}
EndOpen(s, n) == \E c \in ConnsOf(n) : Holds(c, s)
Lowest(S)     == CHOOSE i \in S : \A j \in S : i <= j
FreeSockets   == {s \in Sockets : \A c \in Conns : ~Holds(c, s)}
FreeConns(n)  == {i \in 1 .. MaxConns : conn[<<n, i>>].state = "FREE"}
NewConn(n)    == <<n, Lowest(FreeConns(n))>>

\* What is written to a socket whose other end is closed goes nowhere.
Send(ch, s, n, m) ==
  IF EndOpen(s, n) THEN [ch EXCEPT ![s][n] = Append(@, m)] ELSE ch

-------------------------------------------------------------------------------
(* Helpers of the handlers: from the connection objects f to those after it. *)

\* The session of c is gone for whoever remembers it.
Forget(f, c) ==
  [d \in Conns |-> [f[d] EXCEPT !.in_of  = IF @ = c THEN Stale ELSE @,
                                !.out_to = IF @ = c THEN Stale ELSE @]]

\* Of a stopped connection only the socket it still holds matters, and where its
\* handler is.
stop(f, c) ==
  LET r == f[c] IN
  IF r.state = "CLOSED" THEN f
  ELSE Forget([f EXCEPT ![c] = [Free EXCEPT !.state = "CLOSED", !.cs = r.cs, !.at = r.at,
                 !.existing = r.existing, !.swap = r.swap, !.new_cs = r.new_cs]], c)

\* Mutant: the numbers of the old session go on.
was_session_reset_numbers(f, c) ==
  [f EXCEPT ![c] = [@ EXCEPT !.queued = FALSE, !.connect_seq = 0, !.once_ready = FALSE]]

was_session_reset(f, c) ==
  Forget([f EXCEPT ![c] = [@ EXCEPT !.queued = FALSE, !.connect_seq = 0, !.once_ready = FALSE,
                                    !.in_of = None, !.out_to = None]], c)

\* Only a connection that has opened has a tick event, and only then is the
\* socket closed.
shutdown_socket(r) == IF r.tick THEN [r EXCEPT !.cs = 0] ELSE r

\* fault() of a lossless connection that is to go on.
after_fault(n, r) ==
  LET q == [shutdown_socket(r) EXCEPT !.reset_from_peer = FALSE, !.replacing = FALSE]
  IN  IF n \in policy.standby /\ ~r.queued /\ r.state # "WAIT"
      THEN [q EXCEPT !.state = "STANDBY"]
      ELSE IF r.state \in Connecting \cup {"WAIT"}
      THEN [q EXCEPT !.state = "CONNECTING"]
      ELSE IF n \in policy.server
      THEN [q EXCEPT !.state = "STANDBY"]
      ELSE [q EXCEPT !.state = "CONNECTING", !.connect_seq = @ + 1]

half_accepted(r) ==
  ~r.once_ready /\ ~r.queued /\ r.state \in HalfAccepted /\ ~r.replacing

fault(f, c) ==
  LET r == f[c] IN
  IF r.state \in {"CLOSED", "NONE"} THEN f
  ELSE IF r.lossy /\ r.state \notin Connecting THEN stop(f, c)
  ELSE IF half_accepted(r) THEN stop([f EXCEPT ![c] = shutdown_socket(r)], c)
  ELSE [f EXCEPT ![c] = after_fault(c[1], r)]

Abort(label) ==
  /\ failed = "none" /\ failed' = label
  /\ UNCHANGED <<policy, conn, conns, global_seq, chan, broken, faults>>

\* No assertion failed, and none does now.
Runs == failed = "none" /\ UNCHANGED <<policy, failed>>
Goes_on == Runs /\ UNCHANGED faults

\* _connect: the event loop of the connection is to begin.
_connect(r) == [r EXCEPT !.state = "CONNECTING"]

-------------------------------------------------------------------------------
(* Users of the messenger, in any thread. *)

\* _lookup_conn: a connection in deleted_conns is not found.
lookup(n) == IF conns[n] = None \/ conn[conns[n]].state = "CLOSED" THEN None ELSE conns[n]

send_message(n) ==
  LET c == lookup(n) IN
  /\ IF c # None
     THEN ~conn[c].queued /\ conn' = [conn EXCEPT ![c].queued = TRUE] /\ UNCHANGED conns
     ELSE /\ n \notin policy.server /\ FreeConns(n) # {}
          /\ conn' = [conn EXCEPT ![NewConn(n)] = _connect(
                        [Free EXCEPT !.queued = TRUE, !.lossy = n \in policy.lossy])]
          /\ conns' = [conns EXCEPT ![n] = NewConn(n)]
  /\ UNCHANGED <<global_seq, chan, broken>> /\ Goes_on

mark_down(n) ==
  /\ lookup(n) # None /\ faults < MaxFaults
  /\ conn' = stop(conn, lookup(n))
  /\ faults' = faults + 1
  /\ UNCHANGED <<conns, global_seq, chan, broken>> /\ Runs

-------------------------------------------------------------------------------
(* The connecting side. *)

\* handle_write in STANDBY.
wake_standby(c) ==
  /\ conn[c].state = "STANDBY" /\ conn[c].queued /\ c[1] \notin policy.server
  /\ conn' = [conn EXCEPT ![c] = _connect(@)]
  /\ UNCHANGED <<conns, global_seq, chan, broken>> /\ Goes_on

\* What STATE_CONNECTING_SEND_CONNECT_MSG writes: flags, features and authorizer
\* follow from the policy.
ConnectMsg(connect_seq, gseq) == Msg("CONNECT", connect_seq, gseq)

\* The connection object that add_accept makes on the other end.
accept(s) == [Free EXCEPT !.cs = s]

\* It has sent its banner and addresses and read the banner and address of the peer.
Accepting(s) == [accept(s) EXCEPT !.state = "WAIT_CONNECT_MSG"]

\* From STATE_CONNECTING until the peer's banner and addresses are read: the old
\* socket is closed and a new one opened, on whose other end add_accept makes a
\* connection object.  lock is dropped for learned_addr.
connect(c) ==
  /\ conn[c].state = "CONNECTING" /\ conn[c].at = ""
  /\ IF c[1] \in policy.server THEN Abort("connecting server")
     ELSE LET n == c[1]
              p == Peer(n)
              g == global_seq[n] + 1
              s == Lowest(FreeSockets)
          IN /\ FreeSockets # {} /\ FreeConns(p) # {} /\ g <= MaxGlobal
             /\ conn' = [conn EXCEPT
                  ![c] = [@ EXCEPT !.state = "WAIT_IDENTIFY", !.at = "learned", !.gseq = g, !.cs = s],
                  ![NewConn(p)] = Accepting(s)]
             /\ global_seq' = [global_seq EXCEPT ![n] = g]
             /\ chan' = [chan EXCEPT ![s] = [m \in Node |-> <<>>]]
             /\ broken' = broken \ {s}
             /\ UNCHANGED <<conns>> /\ Goes_on

\* c, in state, has something to read.
Reads(c, state) ==
  /\ conn[c].state = state /\ conn[c].at = ""
  /\ chan[conn[c].cs][c[1]] # <<>>
Next_msg(c) == Head(chan[conn[c].cs][c[1]])
Taken(c)    == [chan EXCEPT ![conn[c].cs][c[1]] = Tail(@)]
ToPeer(ch, c, m) == Send(ch, conn[c].cs, Peer(c[1]), m)

\* lock is taken again: own address and connect message are sent, unless the
\* connection was marked down or replaced meanwhile.
learned_addr(c) ==
  /\ conn[c].at = "learned"
  /\ IF conn[c].state # "WAIT_IDENTIFY"
     THEN conn' = [conn EXCEPT ![c].at = ""] /\ UNCHANGED chan
     ELSE /\ conn' = [conn EXCEPT ![c].at = "", ![c].state = "WAIT_CONNECT_REPLY"]
          /\ chan' = ToPeer(chan, c, ConnectMsg(conn[c].connect_seq, conn[c].gseq))
  /\ UNCHANGED <<conns, global_seq, broken>> /\ Goes_on

\* The reply is read, and its authorizer holds.
Reply(c, tag) == Reads(c, "WAIT_CONNECT_REPLY") /\ Next_msg(c).tag = tag

\* handle_connect_reply, then STATE_CONNECTING_SEND_CONNECT_MSG again.
reply_reset_session(c) ==
  /\ Reply(c, "RESETSESSION")
  /\ conn' = was_session_reset(conn, c)
  /\ chan' = ToPeer(Taken(c), c, ConnectMsg(0, conn[c].gseq))
  /\ UNCHANGED <<conns, global_seq, broken>> /\ Goes_on

Larger(a, b) == IF a > b THEN a ELSE b

reply_retry_global(c) ==
  LET n == c[1]
      g == Larger(global_seq[n], Next_msg(c).gseq) + 1
  IN /\ Reply(c, "RETRY_GLOBAL") /\ g <= MaxGlobal
     /\ conn' = [conn EXCEPT ![c].gseq = g]
     /\ global_seq' = [global_seq EXCEPT ![n] = g]
     /\ chan' = ToPeer(Taken(c), c, ConnectMsg(conn[c].connect_seq, g))
     /\ UNCHANGED <<conns, broken>> /\ Goes_on

reply_retry_session(c) ==
  /\ Reply(c, "RETRY_SESSION")
  /\ LET seq == Next_msg(c).cseq IN
     IF seq <= conn[c].connect_seq THEN Abort("retry session")
     ELSE /\ seq <= MaxSeq
          /\ conn' = [conn EXCEPT ![c].connect_seq = seq]
          /\ chan' = ToPeer(Taken(c), c, ConnectMsg(seq, conn[c].gseq))
          /\ UNCHANGED <<conns, global_seq, broken>> /\ Goes_on

\* STATE_WAIT fails at once, to try again after the longest backoff.
reply_wait(c) ==
  /\ Reply(c, "WAIT")
  /\ conn' = fault([conn EXCEPT ![c].state = "WAIT"], c)
  /\ chan' = Taken(c)
  /\ UNCHANGED <<conns, global_seq, broken>> /\ Goes_on

\* Mutant: the connecting side keeps the policy it began with.
LossyByReply_ignored(c) == conn[c].lossy
\* CEPH_MSG_CONNECT_LOSSY in the reply: the acceptor's policy is used by both.
LossyByReply(c) == Peer(c[1]) \in policy.lossy

\* STATE_CONNECTING_WAIT_ACK_SEQ for TAG_SEQ, then STATE_CONNECTING_READY.
reply_ready(c) ==
  /\ (Reply(c, "SEQ") \/ Reply(c, "READY"))
  /\ LET m == Next_msg(c) IN
     IF m.cseq # conn[c].connect_seq + 1 THEN Abort("connect_seq")
     ELSE /\ conn' = [conn EXCEPT ![c] = [@ EXCEPT !.state = "OPEN",
                        !.connect_seq = conn[c].connect_seq + 1,
                        !.peer_gseq = m.gseq, !.lossy = LossyByReply(c),
                        !.once_ready = TRUE, !.tick = TRUE]]
          /\ chan' = IF m.tag = "SEQ" THEN ToPeer(Taken(c), c, Msg("IN_SEQ", 0, 0))
                                      ELSE Taken(c)
          /\ UNCHANGED <<conns, global_seq, broken>> /\ Goes_on

-------------------------------------------------------------------------------
(* The accepting side: handle_connect_msg. *)

\* The beginning of handle_connect_msg: version, features and authorizer match,
\* and the existing connection is looked up without lock.
Looking_up(r, n) == [r EXCEPT !.at = "lookup", !.existing = lookup(n)]

\* The connect message and its authorizer are read, and the policy is the one for
\* the peer's type.
read_connect_msg(c) ==
  /\ Reads(c, "WAIT_CONNECT_MSG")
  /\ conn' = [conn EXCEPT ![c] = Looking_up([@ EXCEPT !.state = "CONNECT_MSG_AUTH",
                !.msg = Next_msg(c), !.lossy = c[1] \in policy.lossy], c[1])]
  /\ chan' = Taken(c)
  /\ UNCHANGED <<conns, global_seq, broken>> /\ Goes_on

\* lock is taken again: what the decision depends on.
Deciding(c)    == conn[c].at = "lookup" /\ conn[c].state = "CONNECT_MSG_AUTH"
NoExisting(c)  == conn[c].existing \in {None, c}
Existing(c)    == conn[conn[c].existing]
Closed(c)      == ~NoExisting(c) /\ Existing(c).state = "CLOSED"
Live(c)        == ~NoExisting(c) /\ Existing(c).state # "CLOSED"
cseq(c)        == conn[c].msg.cseq
ResetCheck(c)  == c[1] \in policy.resetcheck

\* Mutant: an attempt made before the existing connection's last is accepted.
Outdated_never(c) == Existing(c).replacing
\* Mutant: a connection that is being replaced is replaced again.
Outdated_by_number(c) == conn[c].msg.gseq < Existing(c).peer_gseq
Outdated(c)    == Existing(c).replacing \/ conn[c].msg.gseq < Existing(c).peer_gseq
Current(c)     == Live(c) /\ ~Outdated(c)
Lossless(c)    == Current(c) /\ ~Existing(c).lossy
HardReset(c)   == Lossless(c) /\ cseq(c) = 0 /\ Existing(c).connect_seq > 0
Ordinary(c)    == Lossless(c) /\ ~HardReset(c)
Same(c)        == Ordinary(c) /\ cseq(c) = Existing(c).connect_seq
Newer(c)       == Ordinary(c) /\ cseq(c) > Existing(c).connect_seq
BothZero(c)    == ResetCheck(c) /\ Existing(c).connect_seq = 0
Established(c) == Existing(c).state \in {"OPEN", "STANDBY"}
\* The code compares with STATE_OPEN: a connection waiting for the rest of a
\* message is not recognised as open.
Racing(c)      == Existing(c).state # "STANDBY"
IncomingWins(c) == Peer(c[1]) < c[1] \/ c[1] \in policy.server

RetrySession(c) == \/ Ordinary(c) /\ cseq(c) < Existing(c).connect_seq
                   \/ Same(c) /\ Established(c) /\ ~BothZero(c)
Wait(c)         == Same(c) /\ Racing(c) /\ ~IncomingWins(c)
ResetSession(c) == \/ NoExisting(c) /\ ~conn[c].replacing /\ cseq(c) > 0
                   \/ Newer(c) /\ BothZero(c)
Replace(c)      == \/ Same(c) /\ Established(c) /\ BothZero(c)
                   \/ Same(c) /\ Racing(c) /\ IncomingWins(c)
                   \/ Newer(c) /\ ~BothZero(c)
Open(c)         == \/ NoExisting(c) /\ (conn[c].replacing \/ cseq(c) = 0)
                   \/ Closed(c)

\* _reply_accept: the next connect message may follow on the same socket.
reply_accept(c, m) ==
  /\ conn' = [conn EXCEPT ![c] = [@ EXCEPT !.state = "WAIT_CONNECT_MSG", !.at = "",
                                           !.existing = None, !.msg = Free.msg]]
  /\ chan' = ToPeer(chan, c, m)
  /\ UNCHANGED <<conns, global_seq, broken>> /\ Goes_on

retry_global(c) ==
  /\ Deciding(c) /\ Live(c) /\ Outdated(c)
  /\ reply_accept(c, Msg("RETRY_GLOBAL", 0, Existing(c).peer_gseq))

retry_session(c) ==
  /\ Deciding(c) /\ RetrySession(c)
  /\ reply_accept(c, Msg("RETRY_SESSION", Existing(c).connect_seq + 1, 0))

wait(c) ==
  /\ Deciding(c) /\ Wait(c)
  /\ reply_accept(c, Msg("WAIT", 0, 0))

reset_session(c) ==
  /\ Deciding(c) /\ ResetSession(c)
  /\ reply_accept(c, Msg("RESETSESSION", 0, 0))

\* The label replace: the existing connection e takes the socket of c, which
\* stops and, never registered, is gone; e's old event loop is to finish the
\* exchange.
replace_by(f, c, reset) ==
  LET e == f[c].existing IN
  IF f[c].replacing THEN Abort("can_write")
  ELSE /\ conn' = [f EXCEPT
            ![e] = [@ EXCEPT !.state = "NONE", !.replacing = TRUE, !.swap = "deactivate",
                             !.new_cs = f[c].cs, !.reset_from_peer = f[e].reset_from_peer \/ reset],
            ![c] = Free]
       /\ UNCHANGED <<conns, global_seq, chan, broken>> /\ Goes_on

replace(c) == Deciding(c) /\ Replace(c) /\ replace_by(conn, c, FALSE)

hard_reset(c) ==
  /\ Deciding(c) /\ HardReset(c)
  /\ replace_by(IF ResetCheck(c) THEN was_session_reset(conn, conn[c].existing) ELSE conn, c, TRUE)

\* Mutant: accept_conn takes the place of whoever is registered.
Registrable_always(f, c) == TRUE
\* accept_conn: nobody else is registered for the peer and not deleted.
Registrable(f, c) == conns[c[1]] \in {None, c} \/ f[conns[c[1]]].state = "CLOSED"

\* The label open, until accept_conn has registered c or refused to.
open_with(f, c) ==
  LET n == c[1]
      r == f[c]
      g == global_seq[n] + 1
      free == Registrable(f, c)
  IN /\ g <= MaxGlobal
     /\ conn' = [f EXCEPT ![c] = [@ EXCEPT
          !.connect_seq = r.msg.cseq + 1, !.peer_gseq = r.msg.gseq, !.reset_from_peer = FALSE,
          !.in_of = IF r.reset_from_peer THEN None ELSE r.in_of,
          !.msg = Msg(IF r.reset_from_peer THEN "READY" ELSE "SEQ", r.msg.cseq + 1, g),
          !.at = IF free THEN "accepted" ELSE "refused", !.existing = None]]
     /\ conns' = IF free THEN [conns EXCEPT ![n] = c] ELSE conns
     /\ global_seq' = [global_seq EXCEPT ![n] = g]
     /\ UNCHANGED <<chan, broken>> /\ Goes_on

open(c) == Deciding(c) /\ Open(c) /\ open_with(conn, c)

open_lossy(c) ==
  /\ Deciding(c) /\ Current(c) /\ Existing(c).lossy
  /\ open_with(stop(conn, conn[c].existing), c)

\* The state changed while lock was dropped for the lookup.
state_changed(c) ==
  /\ conn[c].at = "lookup" /\ conn[c].state # "CONNECT_MSG_AUTH"
  /\ IF conn[c].state # "CLOSED" THEN Abort("lookup")
     ELSE /\ conn' = [conn EXCEPT ![c] = [@ EXCEPT !.at = "", !.existing = None, !.msg = Free.msg]]
          /\ UNCHANGED <<conns, global_seq, chan, broken>> /\ Goes_on

\* lock is taken again after accept_conn.
Back(c) == [conn EXCEPT ![c] = [@ EXCEPT !.replacing = FALSE, !.at = "", !.msg = Free.msg]]

accept_refused(c) ==
  /\ conn[c].at = "refused"
  /\ conn' = fault(Back(c), c)
  /\ UNCHANGED <<conns, global_seq, chan, broken>> /\ Goes_on

\* The reply is written, and without a sequence number to wait for the
\* connection opens.
accepted(c) ==
  /\ conn[c].at = "accepted"
  /\ IF conn[c].state = "CLOSED"
     THEN conn' = Back(c) /\ UNCHANGED <<conns, global_seq, chan, broken>> /\ Goes_on
     ELSE IF conn[c].state # "CONNECT_MSG_AUTH" THEN Abort("accept_conn")
     ELSE LET seq == conn[c].msg.tag = "SEQ" IN
          /\ conn' = [Back(c) EXCEPT ![c].once_ready = TRUE, ![c].tick = @ \/ ~seq,
                                     ![c].state = IF seq THEN "WAIT_SEQ" ELSE "OPEN"]
          /\ chan' = ToPeer(chan, c, conn[c].msg)
          /\ UNCHANGED <<conns, global_seq, broken>> /\ Goes_on

\* The peer is gone: the reply cannot be written.
Dead(c) == conn[c].cs \in broken \/ ~EndOpen(conn[c].cs, Peer(c[1]))

accept_fails(c) ==
  /\ conn[c].at = "accepted" /\ conn[c].state = "CONNECT_MSG_AUTH" /\ Dead(c)
  /\ conn' = fault(Back(c), c)
  /\ UNCHANGED <<conns, global_seq, chan, broken>> /\ Goes_on

\* STATE_ACCEPTING_WAIT_SEQ, then STATE_ACCEPTING_READY.
read_seq(c) ==
  /\ Reads(c, "WAIT_SEQ")
  /\ conn' = [conn EXCEPT ![c] = [@ EXCEPT !.state = "OPEN", !.tick = TRUE]]
  /\ chan' = Taken(c)
  /\ UNCHANGED <<conns, global_seq, broken>> /\ Goes_on

\* deactivate_existing, in the replaced connection's old event loop: the socket
\* that c had is closed, or the new one if c was stopped meanwhile.
deactivate(c) ==
  LET r == conn[c] IN
  /\ r.swap = "deactivate" /\ r.at = ""
  /\ IF r.state \notin {"NONE", "CLOSED"} THEN Abort("deactivate")
     ELSE /\ conn' = [conn EXCEPT ![c] =
               IF r.state = "NONE"
               THEN [r EXCEPT !.cs = r.new_cs, !.new_cs = 0, !.swap = "transfer"]
               ELSE [r EXCEPT !.new_cs = 0, !.swap = ""]]
          /\ UNCHANGED <<conns, global_seq, chan, broken>> /\ Goes_on

\* transfer_existing, in its new event loop: the peer is to send its connect
\* message again, to c.
transfer(c) ==
  LET r == conn[c] IN
  /\ r.swap = "transfer"
  /\ IF r.state = "CLOSED"
     THEN /\ conn' = [conn EXCEPT ![c].swap = ""]
          /\ UNCHANGED <<conns, global_seq, chan, broken>> /\ Goes_on
     ELSE IF r.state # "NONE" THEN Abort("transfer")
     ELSE /\ conn' = [conn EXCEPT ![c].state = "WAIT_CONNECT_MSG", ![c].swap = ""]
          /\ chan' = ToPeer(chan, c, Msg("RETRY_GLOBAL", 0, r.peer_gseq))
          /\ UNCHANGED <<conns, global_seq, broken>> /\ Goes_on

-------------------------------------------------------------------------------
(* Either side. *)

\* A read or a write fails: the socket broke, or the other end closed it and
\* what it wrote before has been read.
socket_error(c) ==
  /\ conn[c].state \in {"WAIT_CONNECT_REPLY", "WAIT_CONNECT_MSG", "WAIT_SEQ", "OPEN"}
  /\ conn[c].at = "" /\ conn[c].cs # 0 /\ Dead(c)
  /\ conn[c].cs \in broken \/ chan[conn[c].cs][c[1]] = <<>>
  /\ conn' = fault(conn, c)
  /\ UNCHANGED <<conns, global_seq, chan, broken>> /\ Goes_on

\* The tick event of an opened connection: idle for too long, or not opened any
\* more.
tick(c) ==
  /\ conn[c].tick /\ conn[c].state \notin {"CLOSED", "FREE"} /\ conn[c].at = ""
  /\ \/ faults < MaxFaults /\ faults' = faults + 1
        /\ conn' = fault([conn EXCEPT ![c].tick = FALSE], c)
     \/ conn[c].state # "OPEN" /\ conn' = [conn EXCEPT ![c].tick = FALSE] /\ UNCHANGED faults
  /\ UNCHANGED <<conns, global_seq, chan, broken>> /\ Runs

\* Messages go from c to the connection on the other end; without an
\* acknowledgement they stay queued.
deliver(c) ==
  \E d \in Conns :
    /\ conn[c].state = "OPEN" /\ conn[d].state = "OPEN" /\ conn[c].queued
    /\ d[1] = Peer(c[1]) /\ conn[d].cs = conn[c].cs /\ conn[c].cs \notin broken
    /\ \E left \in BOOLEAN :
         conn' = [conn EXCEPT ![c].queued = left, ![c].out_to = d, ![d].in_of = c]
    /\ UNCHANGED <<conns, global_seq, chan, broken>> /\ Goes_on

\* The last reference to a closed connection is gone: reap_dead or a lookup has
\* dropped it from conns.
Referenced(c) == \E d \in Conns : conn[d].at = "lookup" /\ conn[d].existing = c

destroy(c) ==
  /\ conn[c].state = "CLOSED" /\ conn[c].at = "" /\ conn[c].swap = "" /\ ~Referenced(c)
  /\ conn' = [conn EXCEPT ![c] = Free]
  /\ conns' = [n \in Node |-> IF conns[n] = c THEN None ELSE conns[n]]
  /\ UNCHANGED <<global_seq, chan, broken>> /\ Goes_on

-------------------------------------------------------------------------------
(* The network. *)
break(s) ==
  /\ faults < MaxFaults /\ s \notin FreeSockets \cup broken
  /\ faults' = faults + 1
  /\ broken' = broken \cup {s}
  /\ UNCHANGED <<conn, conns, global_seq, chan>> /\ Runs

-------------------------------------------------------------------------------
Init ==
  /\ policy \in Policies
  /\ conn = [c \in Conns |-> Free]
  /\ conns = [n \in Node |-> None]
  /\ global_seq = [n \in Node |-> 0]
  /\ chan = [s \in Sockets |-> [n \in Node |-> <<>>]]
  /\ broken = {}
  /\ failed = "none" /\ faults = 0

Next ==
  \/ \E n \in Node : send_message(n) \/ mark_down(n)
  \/ \E c \in Conns :
       \/ wake_standby(c) \/ connect(c) \/ learned_addr(c)
       \/ reply_reset_session(c) \/ reply_retry_global(c) \/ reply_retry_session(c)
       \/ reply_wait(c) \/ reply_ready(c)
       \/ read_connect_msg(c) \/ state_changed(c)
       \/ retry_global(c) \/ retry_session(c) \/ wait(c) \/ reset_session(c)
       \/ replace(c) \/ hard_reset(c) \/ open(c) \/ open_lossy(c)
       \/ accepted(c) \/ accept_refused(c) \/ accept_fails(c) \/ read_seq(c)
       \/ deactivate(c) \/ transfer(c)
       \/ socket_error(c) \/ tick(c) \/ deliver(c) \/ destroy(c)
  \/ \E s \in Sockets : break(s)

Spec == Init /\ [][Next]_vars

-------------------------------------------------------------------------------
(* Properties. *)

Message == [tag : {"NONE", "CONNECT", "RETRY_GLOBAL", "RETRY_SESSION", "WAIT", "RESETSESSION",
                   "SEQ", "READY", "IN_SEQ"}, cseq : Nat, gseq : Nat]
States   == Registered \cup HalfAccepted \cup {"FREE", "CLOSED", "WAIT"}
Places   == {"", "learned", "lookup", "accepted", "refused"}
Swaps    == {"", "deactivate", "transfer"}
Ends     == {0} \cup Sockets
ConnPtr  == Conns \cup {None}
Sessions == ConnPtr \cup {Stale}
Connections ==
  [state : States, cs : Ends, new_cs : Ends, connect_seq : Nat, gseq : Nat, peer_gseq : Nat,
   replacing : BOOLEAN, reset_from_peer : BOOLEAN, once_ready : BOOLEAN, queued : BOOLEAN,
   lossy : BOOLEAN, tick : BOOLEAN, at : Places, existing : ConnPtr, msg : Message,
   swap : Swaps, in_of : Sessions, out_to : Sessions]

\* Types; and no connection knows a global_seq its peer has not given yet.
TypeOK ==
  /\ policy \in PolicySet /\ conn \in [Conns -> Connections]
  /\ conns \in [Node -> ConnPtr]
  /\ global_seq \in [Node -> Nat]
  /\ chan \in [Sockets -> [Node -> Seq(Message)]]
  /\ broken \subseteq Sockets /\ faults \in Nat
  /\ \A c \in Conns : conn[c].peer_gseq <= global_seq[Peer(c[1])]

\* No assertion of the state machine fails, but for the one of
\* AcceptedOrClosed.
AssertionsHold == failed \in {"none", "accept_conn"}

\* After accept_conn the state may have changed only because of mark_down: the
\* assertion, and the comment that "replacing" prevents others from preempting.
AcceptedOrClosed == failed # "accept_conn"

\* A connection that got past the handshake is the one registered for the peer.
OneConnection ==
  \A c \in Conns : conn[c].state \in Registered => conns[c[1]] = c

Connected(c, d) ==
  /\ c[1] # d[1] /\ conn[c].cs = conn[d].cs /\ conn[c].cs # 0
  /\ conn[c].state = "OPEN" /\ conn[d].state = "OPEN"

\* The two ends of an open socket agree on connect_seq and on the policy.
Agreement ==
  \A c, d \in Conns : Connected(c, d) => /\ conn[c].connect_seq = conn[d].connect_seq
                                         /\ conn[c].lossy = conn[d].lossy

\* The two ends of an open socket continue the same session: what one numbers
\* its messages for is what the other counts.
SameSession ==
  \A c, d \in Conns : Connected(c, d) =>
    /\ conn[c].in_of \in {None, d} /\ conn[c].out_to \in {None, d}
    /\ conn[c].in_of = d <=> conn[d].out_to = c

\* They do between a client and its server, whatever else fails once.
SameSessionServed == policy.server # {} => SameSession

\* Two connections that talk to each other stay so until the socket fails, one
\* is idle for too long or somebody marks one down: attempts of either side that
\* were under way, and are delayed, do not come between them.
Undisturbed ==
  [][\A c, d \in Conns :
        Connected(c, d) /\ conn[c].cs \notin broken /\ faults' = faults => Connected(c, d)']_vars
===============================================================================
