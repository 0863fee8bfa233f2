--------------------------- MODULE ConnectionProofs ---------------------------
(* The handshake: the inductive invariant of Connection, the one on attempts   *)
(* that keeps what talks undisturbed, and the theorems.                        *)
EXTENDS Connection, FiniteSetTheorems, SequenceTheorems, TLAPS

-------------------------------------------------------------------------------
(* The inductive invariant. *)

\* c has socket s and is in one of the states S; it is to take s over, which it
\* has from the accepted connection that replaced it; it is an acceptor on s that
\* has not accepted yet.
Active == {"WAIT_IDENTIFY", "WAIT_CONNECT_REPLY", "WAIT_CONNECT_MSG", "CONNECT_MSG_AUTH",
           "WAIT_SEQ", "OPEN"}
On(c, s, S) == conn[c].cs = s /\ conn[c].state \in S
Inherits(c, s) ==
  conn[c].state = "NONE" /\ s = IF conn[c].swap = "deactivate" THEN conn[c].new_cs ELSE conn[c].cs
Accepts(c, s) == On(c, s, HalfAccepted) \/ Inherits(c, s)

Lossy(c) == c[1] \in policy.lossy

\* What goes with the states of a connection.
Place(c) ==
  LET r == conn[c] IN
  /\ r.state # "WAIT"
  /\ r.state = "FREE" => r.at = "" /\ ~r.once_ready /\ ~r.queued /\ ~r.replacing
  /\ r.state = "CLOSED" => ~r.once_ready /\ ~r.queued /\ ~r.replacing
  /\ r.state = "WAIT_IDENTIFY" => r.at = "learned"
  /\ r.at = "learned" => r.state \in {"WAIT_IDENTIFY", "NONE", "CLOSED"}
  /\ r.state = "CONNECT_MSG_AUTH" => r.at \in {"lookup", "accepted", "refused"}
  /\ r.at \in {"lookup", "refused"} => r.state \in {"CONNECT_MSG_AUTH", "CLOSED"}
  /\ r.at = "accepted" => r.state \in {"CONNECT_MSG_AUTH", "NONE", "CLOSED"}
  /\ r.state \in Connecting => c[1] \notin policy.server
PlaceInv == \A c \in Conns : Place(c)

\* A replacement is under way exactly while the connection is in STATE_NONE, or was
\* stopped since; who is not connecting or closed has a socket.
Socket(c) ==
  LET r == conn[c] IN
  /\ r.state = "FREE" => r.cs = 0
  /\ r.state = "NONE" => r.replacing /\ r.swap # ""
  /\ r.swap # "" => r.state \in {"NONE", "CLOSED"}
  /\ r.swap = "transfer" => r.at = ""
  /\ r.swap # "deactivate" => r.new_cs = 0
  /\ r.state = "NONE" /\ r.swap = "deactivate" => r.new_cs # 0
  /\ r.state = "NONE" /\ r.swap = "transfer" => r.cs # 0
  /\ r.state \in {"WAIT_IDENTIFY", "WAIT_CONNECT_REPLY", "WAIT_SEQ", "OPEN"} \cup HalfAccepted
       => r.cs # 0
SocketInv == \A c \in Conns : Socket(c)

\* Who is registered for the peer: a connection past the handshake or that has
\* been, and one back from accept_conn; an acceptor only while it replaces.  The
\* connection that was looked up stays registered until it is closed.
Claims(r) ==
  \/ r.state \in Registered \/ r.once_ready \/ r.queued \/ r.replacing
  \/ r.at = "accepted" /\ r.state = "CONNECT_MSG_AUTH"
Entry(n) == conns[n] # None => conns[n][1] = n /\ conn[conns[n]].state # "FREE"
Registers(c) ==
  LET r == conn[c] IN
  /\ Claims(r) => conns[c[1]] = c
  /\ r.state \in HalfAccepted /\ conns[c[1]] = c => r.replacing \/ r.at = "accepted"
  /\ r.at = "lookup" /\ r.existing # None =>
       /\ r.existing[1] = c[1]
       /\ conns[c[1]] = r.existing \/ conn[r.existing].state = "CLOSED"
RegistryInv == (\A n \in Node : Entry(n)) /\ \A c \in Conns : Registers(c)

\* What is on the socket of a connecting connection: its last message, or the
\* answer to it.  On the way to an acceptor there are connect messages only.
Retries == {"RETRY_GLOBAL", "RETRY_SESSION", "WAIT", "RESETSESSION"}
Accepted == {"SEQ", "READY"}
Answers(m, connect_seq) ==
  \/ m.tag \in Retries /\ (m.tag = "RETRY_SESSION" => m.cseq > connect_seq)
  \/ m.tag \in Accepted /\ m.cseq = connect_seq + 1
Identifies(c, s) == chan[s][c[1]] = <<>> /\ chan[s][Peer(c[1])] = <<>>
Waits(c, s) ==
  LET in == chan[s][c[1]]
      out == chan[s][Peer(c[1])]
  IN  /\ in = <<>> \/ out = <<>>
      /\ Len(in) <= 1 /\ Len(out) <= 1
      /\ \A i \in DOMAIN in : Answers(in[i], conn[c].connect_seq)
      /\ \A i \in DOMAIN out : out[i].tag = "CONNECT" /\ out[i].cseq = conn[c].connect_seq
\* What a connection that decides has read, and one that accepted is to write.
Decides(c) ==
  LET r == conn[c] IN
  /\ r.lossy = Lossy(c)
  /\ r.at = "lookup" => r.msg.tag = "CONNECT"
  /\ r.at = "accepted" => r.msg.tag \in Accepted /\ r.connect_seq = r.msg.cseq
Channel(c, s) ==
  /\ On(c, s, {"WAIT_IDENTIFY"}) => Identifies(c, s)
  /\ On(c, s, {"WAIT_CONNECT_REPLY"}) => Waits(c, s)
  /\ On(c, s, {"CONNECT_MSG_AUTH"}) => Decides(c)
  /\ Accepts(c, s) => \A i \in DOMAIN chan[s][c[1]] : chan[s][c[1]][i].tag = "CONNECT"

\* The two ends of a socket.  d answers the message that c, connecting, waits for
\* an answer to: the message is on its way, with d, or the answer is on its way.
Answered(c, d, s) ==
  LET in == chan[s][c[1]] IN
  /\ ~On(d, s, {"WAIT_IDENTIFY", "WAIT_CONNECT_REPLY"})
  /\ On(d, s, {"CONNECT_MSG_AUTH"}) \/ Inherits(d, s) => Identifies(c, s)
  /\ On(d, s, {"CONNECT_MSG_AUTH"}) =>
       /\ conn[d].at = "lookup" => conn[d].msg.cseq = conn[c].connect_seq
       /\ conn[d].at = "accepted" => conn[d].msg.cseq = conn[c].connect_seq + 1
  /\ On(d, s, {"WAIT_SEQ", "OPEN"}) =>
       /\ in # <<>> /\ in[1].tag \in Accepted
       /\ conn[d].connect_seq = conn[c].connect_seq + 1 /\ conn[d].lossy = Lossy(d)
  /\ On(d, s, {"WAIT_CONNECT_MSG"}) => \A i \in DOMAIN in : in[i].tag \in Retries
Pair(c, d, s) ==
  /\ On(c, s, {"WAIT_IDENTIFY"}) =>
       ~Inherits(d, s) /\ ~On(d, s, Active \ {"WAIT_CONNECT_MSG"})
  /\ On(c, s, {"WAIT_CONNECT_REPLY"}) => Answered(c, d, s)
  /\ Accepts(c, s) => ~Accepts(d, s) /\ ~On(d, s, {"WAIT_SEQ", "OPEN"})
  /\ On(c, s, {"WAIT_SEQ"}) => ~On(d, s, {"WAIT_SEQ"})
  /\ On(c, s, {"OPEN"}) /\ On(d, s, {"WAIT_SEQ", "OPEN"}) =>
       conn[c].connect_seq = conn[d].connect_seq /\ conn[c].lossy = conn[d].lossy

\* A socket has one end at each messenger.
OneEnd(c, d, s) == c # d /\ c[1] = d[1] => ~ (Holds(c, s) /\ Holds(d, s))
Shared(s) == \A c, d \in Conns :
  /\ Channel(c, s) /\ OneEnd(c, d, s)
  /\ c[1] # d[1] => Pair(c, d, s)
SharedInv == \A s \in Sockets : Shared(s)

\* A global_seq is known only after it was given.
Given(c) ==
  LET r == conn[c] IN
  /\ r.gseq <= global_seq[c[1]]
  /\ r.peer_gseq <= global_seq[Peer(c[1])]
  /\ r.msg.tag = "CONNECT" => r.msg.gseq <= global_seq[Peer(c[1])]
  /\ r.msg.tag \in Accepted => r.msg.gseq <= global_seq[c[1]]
GivenTo(g, n, m) == m.tag \in Accepted \cup {"CONNECT"} => m.gseq <= g[Peer(n)]
Way(s, n) == \A i \in DOMAIN chan[s][n] : GivenTo(global_seq, n, chan[s][n][i])
GlobalInv == (\A c \in Conns : Given(c)) /\ \A s \in Sockets, n \in Node : Way(s, n)

Types ==
  /\ policy \in PolicySet /\ conn \in [Conns -> Connections]
  /\ conns \in [Node -> ConnPtr]
  /\ global_seq \in [Node -> Nat]
  /\ chan \in [Sockets -> [Node -> Seq(Message)]]
  /\ broken \subseteq Sockets /\ faults \in Nat

IInv ==
  /\ Types /\ PlaceInv /\ SocketInv /\ RegistryInv /\ SharedInv /\ GlobalInv
  /\ AssertionsHold

-------------------------------------------------------------------------------
(* Constants, and the least of a set of numbers. *)

LEMMA Nodes ==
  /\ \A n \in Node : Peer(n) \in Node /\ Peer(n) # n /\ Peer(Peer(n)) = n
  /\ \A m, n \in Node : m # n => m = Peer(n)
  /\ \A c \in Conns : c[1] \in Node
BY DEF Node, Peer, Conns

LEMMA NoneIs == None \notin Conns /\ Stale \notin Conns
BY DEF None, Stale, Conns, Node

LEMMA SocketsAre == 0 \notin Sockets
BY ConnectionAssumption DEF Sockets

LEMMA LeastOf ==
  ASSUME NEW B \in SUBSET Nat, B # {}
  PROVE  \E n \in B : \A m \in B : n <= m
<1> DEFINE D(n) == 0 .. n
           T == {D(n) : n \in B}
<1>1. T \subseteq FiniteSubsetsOf(Nat) /\ T # {}
  <2>1. ASSUME NEW n \in B PROVE D(n) \in SUBSET Nat /\ IsFiniteSet(D(n))
    BY FS_Interval
  <2> HIDE DEF D
  <2>2. QED BY <2>1 DEF FiniteSubsetsOf
<1>2. IsWellFoundedOn(StrictSubsetOrdering(Nat), FiniteSubsetsOf(Nat))
  BY FS_StrictSubsetOrderingWellFounded
<1>3. PICK t \in T : \A u \in T : ~ (<<u, t>> \in StrictSubsetOrdering(Nat))
  <2> HIDE DEF T
  <2> QED BY <1>1, <1>2, WFMin
<1>4. PICK n \in B : t = D(n)
  OBVIOUS
<1>5. ASSUME NEW m \in B, ~ (n <= m) PROVE FALSE
  <2>1. m \in Nat /\ n \in Nat
    OBVIOUS
  <2>2. D(m) \subseteq D(n) /\ n \in D(n) /\ n \notin D(m)
    BY <1>5, <2>1
  <2>3. D(m) \in SUBSET Nat /\ D(n) \in SUBSET Nat /\ D(m) \in T
    OBVIOUS
  <2> HIDE DEF D, T
  <2>4. <<D(m), t>> \in StrictSubsetOrdering(Nat)
    BY <1>4, <2>2, <2>3 DEF StrictSubsetOrdering
  <2>5. QED BY <1>3, <2>3, <2>4
<1>6. QED BY <1>5

LEMMA LowestIs == ASSUME NEW B \in SUBSET Nat, B # {} PROVE Lowest(B) \in B
BY LeastOf DEF Lowest

\* A messenger that may still have a connection object gets a free one.
LEMMA NewConnIs ==
  ASSUME NEW n \in Node, FreeConns(n) # {}
  PROVE  NewConn(n) \in Conns /\ NewConn(n)[1] = n /\ conn[NewConn(n)].state = "FREE"
<1>1. FreeConns(n) \in SUBSET Nat
  BY DEF FreeConns
<1>2. Lowest(FreeConns(n)) \in FreeConns(n)
  BY <1>1, LowestIs
<1>3. QED BY <1>2 DEF NewConn, FreeConns, Conns

LEMMA NewSocketIs ==
  ASSUME FreeSockets # {}
  PROVE  Lowest(FreeSockets) \in Sockets /\ \A c \in Conns : ~Holds(c, Lowest(FreeSockets))
<1>1. FreeSockets \in SUBSET Nat
  BY ConnectionAssumption DEF FreeSockets, Sockets
<1>2. Lowest(FreeSockets) \in FreeSockets
  BY <1>1, LowestIs
<1>3. QED BY <1>2 DEF FreeSockets

-------------------------------------------------------------------------------
(* The functions that the handlers share. *)

\* Equal but for the history of the session, on which nothing depends.
Alike(q, r) ==
  /\ q.state = r.state /\ q.cs = r.cs /\ q.new_cs = r.new_cs /\ q.connect_seq = r.connect_seq
  /\ q.gseq = r.gseq /\ q.peer_gseq = r.peer_gseq /\ q.replacing = r.replacing
  /\ q.reset_from_peer = r.reset_from_peer /\ q.once_ready = r.once_ready
  /\ q.queued = r.queued /\ q.lossy = r.lossy /\ q.tick = r.tick /\ q.at = r.at
  /\ q.existing = r.existing /\ q.msg = r.msg /\ q.swap = r.swap

Table == [Conns -> Connections]

LEMMA FreeIs == Free \in Connections
BY DEF Free, Connections, Message, States, Places, Swaps, Ends, ConnPtr, Sessions

LEMMA ForgetIs ==
  ASSUME NEW f \in Table, NEW c \in Conns
  PROVE  Forget(f, c) \in Table /\ \A d \in Conns : Alike(Forget(f, c)[d], f[d])
<1>1. ASSUME NEW d \in Conns
      PROVE  Forget(f, c)[d] \in Connections /\ Alike(Forget(f, c)[d], f[d])
  <2> DEFINE a == IF f[d].in_of = c THEN Stale ELSE f[d].in_of
             b == IF f[d].out_to = c THEN Stale ELSE f[d].out_to
  <2>1. f[d] \in Connections
    BY DEF Table
  <2>2. a \in Sessions /\ b \in Sessions
    BY <2>1 DEF Connections, Sessions
  <2>3. Forget(f, c)[d] = [f[d] EXCEPT !.in_of = a, !.out_to = b]
    BY DEF Forget
  <2> HIDE DEF a, b
  <2>4. [f[d] EXCEPT !.in_of = a, !.out_to = b] \in Connections
    BY <2>1, <2>2 DEF Connections
  <2>5. Alike([f[d] EXCEPT !.in_of = a, !.out_to = b], f[d])
    BY <2>1 DEF Connections, Alike
  <2>6. QED BY <2>3, <2>4, <2>5
<1>2. QED BY <1>1 DEF Forget, Table

\* What is left of a stopped connection r.
Stopped(q, r) ==
  /\ q.state = "CLOSED" /\ q.cs = r.cs /\ q.at = r.at /\ q.existing = r.existing
  /\ q.swap = r.swap /\ q.new_cs = r.new_cs
  /\ q.connect_seq = 0 /\ q.gseq = 0 /\ q.peer_gseq = 0 /\ q.msg = Free.msg
  /\ ~q.replacing /\ ~q.once_ready /\ ~q.queued

LEMMA Writable ==
  /\ \A u \in Connections, a \in Ends,
        at \in Places :
       [u EXCEPT !.state = "CLOSED", !.cs = a, !.at = at] \in Connections
  /\ \A v \in Connections, e \in ConnPtr, swap \in Swaps,
        b \in Ends :
       [v EXCEPT !.existing = e, !.swap = swap, !.new_cs = b] \in Connections
<1>1. ASSUME NEW u \in Connections, NEW a \in Ends,
             NEW at \in Places
      PROVE  [u EXCEPT !.state = "CLOSED", !.cs = a, !.at = at] \in Connections
  BY DEF Connections, States
<1>2. ASSUME NEW v \in Connections, NEW e \in ConnPtr,
             NEW swap \in Swaps, NEW b \in Ends
      PROVE  [v EXCEPT !.existing = e, !.swap = swap, !.new_cs = b] \in Connections
  BY DEF Connections
<1>3. QED BY <1>1, <1>2

LEMMA ClosedIs ==
  ASSUME NEW u \in Connections, NEW r \in Connections
  PROVE  [u EXCEPT !.state = "CLOSED", !.cs = r.cs, !.at = r.at, !.existing = r.existing,
                   !.swap = r.swap, !.new_cs = r.new_cs] \in Connections
<1>1. /\ r.cs \in Ends /\ r.new_cs \in Ends
      /\ r.at \in Places
      /\ r.existing \in ConnPtr /\ r.swap \in Swaps
  BY DEF Connections
<1> DEFINE v == [u EXCEPT !.state = "CLOSED", !.cs = r.cs, !.at = r.at]
<1>2. v \in Connections
  BY Writable, <1>1
<1>3. [v EXCEPT !.existing = r.existing, !.swap = r.swap, !.new_cs = r.new_cs] \in Connections
  <2> HIDE DEF v
  <2> QED BY Writable, <1>1, <1>2
<1>4. QED BY <1>3

LEMMA StopIs ==
  ASSUME NEW f \in Table, NEW c \in Conns
  PROVE  /\ stop(f, c) \in Table
         /\ \A d \in Conns \ {c} : Alike(stop(f, c)[d], f[d])
         /\ f[c].state = "CLOSED" => stop(f, c)[c] = f[c]
         /\ f[c].state # "CLOSED" => Stopped(stop(f, c)[c], f[c])
<1> DEFINE r == f[c]
           q == [Free EXCEPT !.state = "CLOSED", !.cs = r.cs, !.at = r.at,
                   !.existing = r.existing, !.swap = r.swap, !.new_cs = r.new_cs]
           g == [f EXCEPT ![c] = q]
<1>1. r \in Connections
  BY DEF Table
<1>2. CASE r.state = "CLOSED"
  <2>1. stop(f, c) = f
    BY <1>2 DEF stop
  <2>2. \A d \in Conns : Alike(f[d], f[d])
    BY DEF Alike
  <2>3. QED BY <1>2, <2>1, <2>2
<1>3. CASE r.state # "CLOSED"
  <2>1. stop(f, c) = Forget(g, c)
    BY <1>3 DEF stop
  <2>2. q \in Connections /\ Stopped(q, r)
    <3>1. q \in Connections
      BY <1>1, FreeIs, ClosedIs
    <3>2. Stopped(q, r)
      BY DEF Free, Stopped
    <3>3. QED BY <3>1, <3>2, FreeIs
  <2>3. g \in Table /\ g[c] = q /\ \A d \in Conns \ {c} : g[d] = f[d]
    BY <2>2 DEF Table
  <2> HIDE DEF g, q
  <2>4. Forget(g, c) \in Table /\ \A d \in Conns : Alike(Forget(g, c)[d], g[d])
    BY <2>3, ForgetIs
  <2>5. Stopped(Forget(g, c)[c], r)
    <3>1. Alike(Forget(g, c)[c], q)
      BY <2>3, <2>4
    <3>2. QED BY <3>1, <2>2 DEF Alike, Stopped
  <2>7. QED BY <1>3, <2>1, <2>3, <2>4, <2>5
<1>4. QED BY <1>2, <1>3

\* The connection's own session starts again, everything else stays.
WasReset(q, r) ==
  /\ q.connect_seq = 0 /\ ~q.queued /\ ~q.once_ready
  /\ q.state = r.state /\ q.cs = r.cs /\ q.new_cs = r.new_cs /\ q.gseq = r.gseq
  /\ q.peer_gseq = r.peer_gseq /\ q.replacing = r.replacing /\ q.lossy = r.lossy
  /\ q.at = r.at /\ q.existing = r.existing /\ q.msg = r.msg /\ q.swap = r.swap

LEMMA ResetIs ==
  ASSUME NEW f \in Table, NEW c \in Conns
  PROVE  LET g == was_session_reset(f, c) IN
         /\ g \in Table
         /\ \A d \in Conns \ {c} : Alike(g[d], f[d])
         /\ WasReset(g[c], f[c])
<1> DEFINE r == f[c]
           q == [r EXCEPT !.queued = FALSE, !.connect_seq = 0, !.once_ready = FALSE,
                          !.in_of = None, !.out_to = None]
           h == [f EXCEPT ![c] = q]
<1>1. r \in Connections
  BY DEF Table
<1>2. was_session_reset(f, c) = Forget(h, c)
  BY DEF was_session_reset, Table
<1>3. q \in Connections /\ WasReset(q, r)
  BY <1>1 DEF Connections, WasReset, Sessions, ConnPtr
<1>4. h \in Table /\ h[c] = q /\ \A d \in Conns \ {c} : h[d] = f[d]
  BY <1>3 DEF Table
<1> HIDE DEF h, q
<1>5. Forget(h, c) \in Table /\ \A d \in Conns : Alike(Forget(h, c)[d], h[d])
  BY <1>4, ForgetIs
<1>6. WasReset(Forget(h, c)[c], r)
  <2>1. Alike(Forget(h, c)[c], q)
    BY <1>4, <1>5
  <2>2. QED BY <2>1, <1>3 DEF Alike, WasReset
<1>7. QED BY <1>2, <1>4, <1>5, <1>6

\* What fault makes of a connection r of messenger n: it is stopped, or goes on
\* unless it has only been accepted.
Faulted(n, q, r) ==
  /\ q.cs \in {0, r.cs} /\ q.new_cs = r.new_cs /\ q.swap = r.swap
  /\ q.at = r.at /\ q.existing = r.existing /\ ~q.replacing
  /\ \/ /\ q.state = "CLOSED" /\ ~q.once_ready /\ ~q.queued
        /\ q.gseq = 0 /\ q.peer_gseq = 0 /\ q.msg = Free.msg
     \/ /\ q.state \in {"STANDBY", "CONNECTING"} /\ ~half_accepted(r)
        /\ q.once_ready = r.once_ready /\ q.queued = r.queued
        /\ q.gseq = r.gseq /\ q.peer_gseq = r.peer_gseq /\ q.msg = r.msg
        /\ q.state = "CONNECTING" => r.state \in Connecting \cup {"WAIT"} \/ n \notin policy.server

LEMMA ShutdownIs ==
  ASSUME NEW r \in Connections
  PROVE  LET q == shutdown_socket(r) IN
         /\ q \in Connections /\ q.cs \in {0, r.cs} /\ q.state = r.state /\ q.new_cs = r.new_cs
         /\ q.swap = r.swap /\ q.at = r.at /\ q.existing = r.existing /\ q.msg = r.msg
         /\ q.once_ready = r.once_ready /\ q.queued = r.queued /\ q.connect_seq = r.connect_seq
         /\ q.gseq = r.gseq /\ q.peer_gseq = r.peer_gseq
<1>1. shutdown_socket(r) = IF r.tick THEN [r EXCEPT !.cs = 0] ELSE r
  BY DEF shutdown_socket
<1>2. CASE r.tick
  BY <1>1, <1>2 DEF Connections, Ends
<1>3. CASE ~r.tick
  BY <1>1, <1>3
<1>4. QED BY <1>2, <1>3

LEMMA AfterFaultIs ==
  ASSUME NEW r \in Connections, NEW n \in Node
  PROVE  LET q == after_fault(n, r) IN
         /\ q \in Connections /\ q.cs \in {0, r.cs} /\ q.new_cs = r.new_cs
         /\ q.swap = r.swap /\ q.at = r.at /\ q.existing = r.existing /\ q.msg = r.msg
         /\ q.once_ready = r.once_ready /\ q.queued = r.queued /\ ~q.replacing
         /\ q.gseq = r.gseq /\ q.peer_gseq = r.peer_gseq
         /\ q.state \in {"STANDBY", "CONNECTING"}
         /\ q.state = "CONNECTING" => r.state \in Connecting \cup {"WAIT"} \/ n \notin policy.server
<1> DEFINE s == shutdown_socket(r)
           p == [s EXCEPT !.reset_from_peer = FALSE, !.replacing = FALSE]
           q == after_fault(n, r)
<1>1. /\ s \in Connections /\ s.cs \in {0, r.cs} /\ s.state = r.state /\ s.new_cs = r.new_cs
      /\ s.swap = r.swap /\ s.at = r.at /\ s.existing = r.existing /\ s.msg = r.msg
      /\ s.once_ready = r.once_ready /\ s.queued = r.queued
      /\ s.gseq = r.gseq /\ s.peer_gseq = r.peer_gseq
  BY ShutdownIs
<1>2. \/ q = [p EXCEPT !.state = "STANDBY"]
      \/ q = [p EXCEPT !.state = "CONNECTING"] /\ r.state \in Connecting \cup {"WAIT"}
      \/ q = [p EXCEPT !.state = "CONNECTING", !.connect_seq = @ + 1] /\ n \notin policy.server
  BY DEF after_fault
<1> HIDE DEF s, q
<1>3. /\ p \in Connections /\ p.cs = s.cs /\ p.new_cs = s.new_cs
      /\ p.swap = s.swap /\ p.at = s.at /\ p.existing = s.existing /\ p.msg = s.msg
      /\ p.once_ready = s.once_ready /\ p.queued = s.queued /\ ~p.replacing
      /\ p.gseq = s.gseq /\ p.peer_gseq = s.peer_gseq
  BY <1>1 DEF Connections
<1> HIDE DEF p
<1>4. \A st \in {"STANDBY", "CONNECTING"} :
        LET u == [p EXCEPT !.state = st] IN
        /\ u \in Connections /\ u.cs = p.cs /\ u.new_cs = p.new_cs /\ u.state = st
        /\ u.swap = p.swap /\ u.at = p.at /\ u.existing = p.existing /\ u.msg = p.msg
        /\ u.once_ready = p.once_ready /\ u.queued = p.queued /\ ~u.replacing
        /\ u.gseq = p.gseq /\ u.peer_gseq = p.peer_gseq
  <2>1. {"STANDBY", "CONNECTING"} \subseteq States
    BY DEF States, Registered, Connecting
  <2>2. QED BY <1>3, <2>1 DEF Connections
<1>5. LET u == [p EXCEPT !.state = "CONNECTING", !.connect_seq = p.connect_seq + 1] IN
        /\ u \in Connections /\ u.cs = p.cs /\ u.new_cs = p.new_cs /\ u.state = "CONNECTING"
        /\ u.swap = p.swap /\ u.at = p.at /\ u.existing = p.existing /\ u.msg = p.msg
        /\ u.once_ready = p.once_ready /\ u.queued = p.queued /\ ~u.replacing
        /\ u.gseq = p.gseq /\ u.peer_gseq = p.peer_gseq
  <2>1. "CONNECTING" \in States /\ p.connect_seq + 1 \in Nat
    BY <1>3 DEF Connections, States, Registered, Connecting
  <2>2. ASSUME NEW st \in States, NEW k \in Nat
        PROVE  LET u == [p EXCEPT !.state = st, !.connect_seq = k] IN
        /\ u \in Connections /\ u.cs = p.cs /\ u.new_cs = p.new_cs /\ u.state = st
        /\ u.swap = p.swap /\ u.at = p.at /\ u.existing = p.existing /\ u.msg = p.msg
        /\ u.once_ready = p.once_ready /\ u.queued = p.queued /\ u.replacing = p.replacing
        /\ u.gseq = p.gseq /\ u.peer_gseq = p.peer_gseq
    BY <1>3 DEF Connections
  <2>3. QED BY <1>3, <2>1, <2>2
<1>6. QED
  <2>1. CASE q = [p EXCEPT !.state = "STANDBY"]
    BY <1>1, <1>3, <1>4, <2>1 DEF q
  <2>2. CASE q = [p EXCEPT !.state = "CONNECTING"] /\ r.state \in Connecting \cup {"WAIT"}
    BY <1>1, <1>3, <1>4, <2>2 DEF q
  <2>3. CASE /\ q = [p EXCEPT !.state = "CONNECTING", !.connect_seq = @ + 1]
             /\ n \notin policy.server
    BY <1>1, <1>3, <1>5, <2>3 DEF q
  <2>4. QED BY <1>2, <2>1, <2>2, <2>3

LEMMA FaultIs ==
  ASSUME NEW f \in Table, NEW c \in Conns
  PROVE  /\ fault(f, c) \in Table
         /\ \A d \in Conns \ {c} : Alike(fault(f, c)[d], f[d])
         /\ f[c].state \in {"CLOSED", "NONE"} => fault(f, c) = f
         /\ f[c].state \notin {"CLOSED", "NONE"} => Faulted(c[1], fault(f, c)[c], f[c])
<1> DEFINE r == f[c]
<1>1. r \in Connections /\ c[1] \in Node
  BY Nodes DEF Table
<1>2. \A d \in Conns : Alike(f[d], f[d])
  BY DEF Alike
<1>3. CASE r.state \in {"CLOSED", "NONE"}
  BY <1>2, <1>3 DEF fault
<1>4. CASE r.state \notin {"CLOSED", "NONE"} /\ r.lossy /\ r.state \notin Connecting
  <2>1. fault(f, c) = stop(f, c)
    BY <1>4 DEF fault
  <2>2. QED BY <2>1, <1>4, StopIs DEF Stopped, Faulted
<1>5. CASE /\ r.state \notin {"CLOSED", "NONE"} /\ ~ (r.lossy /\ r.state \notin Connecting)
           /\ half_accepted(r)
  <2> DEFINE h == [f EXCEPT ![c] = shutdown_socket(r)]
  <2>1. fault(f, c) = stop(h, c)
    BY <1>5 DEF fault
  <2>2. h \in Table /\ h[c] = shutdown_socket(r) /\ \A d \in Conns \ {c} : h[d] = f[d]
    BY <1>1, ShutdownIs DEF Table
  <2> HIDE DEF h
  <2>3. Stopped(stop(h, c)[c], h[c])
    BY <2>2, <1>5, <1>1, ShutdownIs, StopIs
  <2>4. QED BY <2>1, <2>2, <2>3, <1>1, <1>5, ShutdownIs, StopIs DEF Stopped, Faulted
<1>6. CASE /\ r.state \notin {"CLOSED", "NONE"} /\ ~ (r.lossy /\ r.state \notin Connecting)
           /\ ~half_accepted(r)
  <2> DEFINE q == after_fault(c[1], r)
             g == [f EXCEPT ![c] = q]
  <2>1. fault(f, c) = g
    BY <1>6 DEF fault
  <2>2. q \in Connections /\ Faulted(c[1], q, r)
    BY <1>1, <1>6, AfterFaultIs DEF Faulted
  <2> HIDE DEF q
  <2>3. g \in Table /\ g[c] = q /\ \A d \in Conns \ {c} : g[d] = f[d]
    BY <2>2 DEF Table
  <2>4. QED BY <2>1, <2>2, <2>3, <1>2, <1>6
<1>7. QED BY <1>3, <1>4, <1>5, <1>6

-------------------------------------------------------------------------------
(* Sockets. *)

Socketful == [Sockets -> [Node -> Seq(Message)]]

\* What is sent arrives behind what is on the way, or nowhere.
LEMMA SendIs ==
  ASSUME NEW ch \in Socketful, NEW s \in Sockets, NEW n \in Node, NEW m \in Message
  PROVE  LET g == Send(ch, s, n, m) IN
         /\ g \in Socketful
         /\ \A t \in Sockets \ {s} : g[t] = ch[t]
         /\ \A k \in Node \ {n} : g[s][k] = ch[s][k]
         /\ g[s][n] = IF EndOpen(s, n) THEN Append(ch[s][n], m) ELSE ch[s][n]
<1>1. Append(ch[s][n], m) \in Seq(Message)
  BY DEF Socketful
<1>2. QED BY <1>1 DEF Send, Socketful

LEMMA TakenIs ==
  ASSUME Types, NEW c \in Conns, conn[c].cs \in Sockets, chan[conn[c].cs][c[1]] # <<>>
  PROVE  LET s == conn[c].cs
             n == c[1] IN
         /\ Taken(c) \in Socketful
         /\ \A t \in Sockets \ {s} : Taken(c)[t] = chan[t]
         /\ Taken(c)[s][n] = Tail(chan[s][n]) /\ Taken(c)[s][Peer(n)] = chan[s][Peer(n)]
         /\ Next_msg(c) \in Message
<1>1. chan \in Socketful
  BY DEF Types, Socketful
<1>2. c[1] \in Node /\ Peer(c[1]) \in Node /\ Peer(c[1]) # c[1]
  BY Nodes
<1>3. /\ Tail(chan[conn[c].cs][c[1]]) \in Seq(Message)
      /\ Head(chan[conn[c].cs][c[1]]) \in Message
  BY <1>1, <1>2 DEF Socketful
<1>4. QED BY <1>1, <1>2, <1>3 DEF Taken, Next_msg, Socketful

\* On socket s connection c has at most the part that it had before.
Keeps(c, s) ==
  LET r == conn[c]
      q == conn'[c]
  IN  /\ Holds(c, s)' => Holds(c, s)
      /\ Inherits(c, s)' => Inherits(c, s)
      /\ q.cs = s /\ q.state \in Active =>
           /\ r.cs = s /\ q.state = r.state /\ q.connect_seq = r.connect_seq /\ q.lossy = r.lossy
           /\ q.state = "CONNECT_MSG_AUTH" => q.at = r.at /\ q.msg = r.msg

LEMMA ChannelKept ==
  ASSUME NEW c \in Conns, NEW s \in Sockets, Keeps(c, s), Channel(c, s),
         chan'[s] = chan[s], policy' = policy
  PROVE  Channel(c, s)'
<1>1. On(c, s, {"WAIT_IDENTIFY"})' => On(c, s, {"WAIT_IDENTIFY"})
  BY DEF On, Keeps, Active
<1>2. On(c, s, {"WAIT_CONNECT_REPLY"})' =>
        On(c, s, {"WAIT_CONNECT_REPLY"}) /\ conn'[c].connect_seq = conn[c].connect_seq
  BY DEF On, Keeps, Active
<1>3. On(c, s, {"CONNECT_MSG_AUTH"})' =>
        /\ On(c, s, {"CONNECT_MSG_AUTH"}) /\ conn'[c].connect_seq = conn[c].connect_seq
        /\ conn'[c].lossy = conn[c].lossy /\ conn'[c].at = conn[c].at /\ conn'[c].msg = conn[c].msg
  BY DEF On, Keeps, Active
<1>4. Accepts(c, s)' => Accepts(c, s)
  <2>1. On(c, s, HalfAccepted)' => On(c, s, HalfAccepted)
    BY DEF On, Keeps, Active, HalfAccepted
  <2>2. QED BY <2>1 DEF Accepts, Keeps
<1>5. Waits(c, s) /\ conn'[c].connect_seq = conn[c].connect_seq => Waits(c, s)'
  BY DEF Waits
<1>6. QED BY <1>1, <1>2, <1>3, <1>4, <1>5 DEF Channel, Identifies, Decides, Lossy

LEMMA PairKept ==
  ASSUME NEW c \in Conns, NEW d \in Conns, NEW s \in Sockets, Keeps(c, s), Keeps(d, s),
         Pair(c, d, s), chan'[s] = chan[s], policy' = policy
  PROVE  Pair(c, d, s)'
<1>1. \A S \in SUBSET Active : On(c, s, S)' =>
        /\ On(c, s, S) /\ conn'[c].connect_seq = conn[c].connect_seq
        /\ conn'[c].lossy = conn[c].lossy
  BY DEF On, Keeps
<1>2. \A S \in SUBSET Active : On(d, s, S)' =>
        /\ On(d, s, S) /\ conn'[d].connect_seq = conn[d].connect_seq
        /\ conn'[d].lossy = conn[d].lossy
  BY DEF On, Keeps
<1>3. On(d, s, {"CONNECT_MSG_AUTH"})' =>
        On(d, s, {"CONNECT_MSG_AUTH"}) /\ conn'[d].at = conn[d].at /\ conn'[d].msg = conn[d].msg
  BY DEF On, Keeps, Active
<1>4. (Inherits(c, s)' => Inherits(c, s)) /\ (Inherits(d, s)' => Inherits(d, s))
  BY DEF Keeps
<1>5. (Accepts(c, s)' => Accepts(c, s)) /\ (Accepts(d, s)' => Accepts(d, s))
  BY <1>1, <1>2, <1>4 DEF Accepts, HalfAccepted, Active
<1>6. /\ {"WAIT_IDENTIFY"} \in SUBSET Active /\ {"WAIT_CONNECT_REPLY"} \in SUBSET Active
      /\ Active \ {"WAIT_CONNECT_MSG"} \in SUBSET Active
      /\ {"WAIT_SEQ", "OPEN"} \in SUBSET Active /\ {"WAIT_SEQ"} \in SUBSET Active
      /\ {"OPEN"} \in SUBSET Active /\ {"WAIT_CONNECT_MSG"} \in SUBSET Active
      /\ {"CONNECT_MSG_AUTH"} \in SUBSET Active
      /\ {"WAIT_IDENTIFY", "WAIT_CONNECT_REPLY"} \in SUBSET Active
  BY DEF Active
<1> HIDE DEF Active
<1>7. On(c, s, {"WAIT_CONNECT_REPLY"})' => Answered(c, d, s)'
  <2>1. SUFFICES ASSUME On(c, s, {"WAIT_CONNECT_REPLY"})' PROVE Answered(c, d, s)'
    OBVIOUS
  <2>2. Answered(c, d, s) /\ conn'[c].connect_seq = conn[c].connect_seq
    BY <2>1, <1>1, <1>6 DEF Pair
  <2>3. Lossy(d)' = Lossy(d) /\ (Identifies(c, s) => Identifies(c, s)')
    BY DEF Lossy, Identifies
  <2>4. QED BY <2>2, <2>3, <1>2, <1>3, <1>4, <1>6 DEF Answered
<1>8. On(c, s, {"WAIT_IDENTIFY"})' =>
        ~Inherits(d, s)' /\ ~On(d, s, Active \ {"WAIT_CONNECT_MSG"})'
  BY <1>1, <1>2, <1>4, <1>6 DEF Pair
<1>9. Accepts(c, s)' => ~Accepts(d, s)' /\ ~On(d, s, {"WAIT_SEQ", "OPEN"})'
  BY <1>2, <1>5, <1>6 DEF Pair
<1>10. On(c, s, {"WAIT_SEQ"})' => ~On(d, s, {"WAIT_SEQ"})'
  BY <1>1, <1>2, <1>6 DEF Pair
<1>11. On(c, s, {"OPEN"})' /\ On(d, s, {"WAIT_SEQ", "OPEN"})' =>
         conn'[c].connect_seq = conn'[d].connect_seq /\ conn'[c].lossy = conn'[d].lossy
  BY <1>1, <1>2, <1>6 DEF Pair
<1>12. QED BY <1>7, <1>8, <1>9, <1>10, <1>11 DEF Pair

\* A socket on which nothing happens.
LEMMA SharedKept ==
  ASSUME NEW s \in Sockets, Shared(s), \A c \in Conns : Keeps(c, s),
         chan'[s] = chan[s], policy' = policy
  PROVE  Shared(s)'
<1>1. ASSUME NEW c \in Conns, NEW d \in Conns
      PROVE  /\ Channel(c, s)' /\ OneEnd(c, d, s)'
             /\ c[1] # d[1] => Pair(c, d, s)'
  <2>1. Channel(c, s)'
    BY ChannelKept DEF Shared
  <2>2. OneEnd(c, d, s)'
    BY DEF Shared, OneEnd, Keeps
  <2>3. c[1] # d[1] => Pair(c, d, s)'
    BY PairKept DEF Shared
  <2>4. QED BY <2>1, <2>2, <2>3
<1>2. QED BY <1>1 DEF Shared

\* Connection c does something on its socket s, which matters to the other end.
LEMMA Exchange ==
  ASSUME NEW c \in Conns, NEW s \in Sockets, Shared(s), Holds(c, s),
         \A d \in Conns \ {c} : Keeps(d, s),
         Channel(c, s)',
         \A d \in Conns : d[1] # c[1] /\ Holds(d, s) =>
           Channel(d, s)' /\ Pair(c, d, s)' /\ Pair(d, c, s)'
  PROVE  Shared(s)'
<1>1. \A d \in Conns \ {c} : d[1] = c[1] => ~Holds(d, s)
  BY DEF Shared, OneEnd
<1>2. ASSUME NEW d \in Conns \ {c}, ~Holds(d, s)
      PROVE  ~Holds(d, s)' /\ ~Inherits(d, s)' /\ ~Accepts(d, s)' /\ \A S : ~On(d, s, S)'
  <2>1. ~Holds(d, s)'
    BY <1>2 DEF Keeps
  <2>2. QED BY <2>1 DEF Holds, Inherits, Accepts, On
<1>3. ASSUME NEW d \in Conns \ {c}, ~Holds(d, s), NEW a \in Conns
      PROVE  Channel(d, s)' /\ Pair(a, d, s)' /\ Pair(d, a, s)'
  BY <1>2, <1>3 DEF Channel, Pair, Answered
<1>4. ASSUME NEW a \in Conns, NEW b \in Conns
      PROVE  /\ Channel(a, s)' /\ OneEnd(a, b, s)'
             /\ a[1] # b[1] => Pair(a, b, s)'
  <2>1. Channel(a, s)'
    <3>1. CASE a = c
      BY <3>1
    <3>2. CASE a # c /\ a[1] = c[1]
      BY <1>1, <1>3, <3>2
    <3>3. CASE a[1] # c[1]
      BY <1>3, <3>3
    <3>4. QED BY <3>1, <3>2, <3>3
  <2>2. OneEnd(a, b, s)'
    <3>1. \A d \in Conns \ {c} : Holds(d, s)' => Holds(d, s)
      BY DEF Keeps
    <3>2. SUFFICES ASSUME a # b, a[1] = b[1], Holds(a, s)', Holds(b, s)' PROVE FALSE
      BY DEF OneEnd
    <3>3. CASE a = c
      BY <1>1, <3>1, <3>2, <3>3
    <3>4. CASE b = c
      BY <1>1, <3>1, <3>2, <3>4
    <3>5. CASE a # c /\ b # c
      BY <3>1, <3>2, <3>5 DEF Shared, OneEnd
    <3>6. QED BY <3>3, <3>4, <3>5
  <2>3. a[1] # b[1] => Pair(a, b, s)'
    <3>1. SUFFICES ASSUME a[1] # b[1] PROVE Pair(a, b, s)'
      OBVIOUS
    <3>2. CASE a = c
      BY <1>3, <3>1, <3>2
    <3>3. CASE b = c
      BY <1>3, <3>1, <3>3
    <3>4. CASE a # c /\ b # c
      <4>1. a[1] = c[1] \/ b[1] = c[1]
        BY <3>1, Nodes
      <4>2. QED BY <1>1, <1>3, <3>4, <4>1
    <3>5. QED BY <3>2, <3>3, <3>4
  <2>4. QED BY <2>1, <2>2, <2>3
<1>5. QED BY <1>4 DEF Shared

LEMMA AlikeKeeps ==
  ASSUME NEW c \in Conns, Alike(conn'[c], conn[c])
  PROVE  \A s \in Sockets : Keeps(c, s)
BY DEF Alike, Keeps, Holds, Inherits

\* A connection that has ended its handshake, and one that only finds out what does
\* not matter to it.
LEMMA FadedKeeps ==
  ASSUME NEW c \in Conns, conn'[c].state \notin Active \cup {"NONE"},
         conn'[c].cs \in {0, conn[c].cs}, conn'[c].new_cs \in {0, conn[c].new_cs}
  PROVE  \A s \in Sockets : Keeps(c, s)
BY SocketsAre DEF Keeps, Holds, Inherits

LEMMA SameKeeps ==
  ASSUME NEW c \in Conns,
         conn'[c].state = conn[c].state, conn'[c].cs = conn[c].cs, conn'[c].new_cs = conn[c].new_cs,
         conn'[c].swap = conn[c].swap, conn'[c].connect_seq = conn[c].connect_seq,
         conn'[c].lossy = conn[c].lossy,
         conn'[c].state = "CONNECT_MSG_AUTH" =>
           conn'[c].at = conn[c].at /\ conn'[c].msg = conn[c].msg
  PROVE  \A s \in Sockets : Keeps(c, s)
BY DEF Keeps, Holds, Inherits

\* A step in which nothing happens on any socket.
LEMMA Quiet ==
  ASSUME SharedInv, \A c \in Conns : \A s \in Sockets : Keeps(c, s),
         chan' = chan, policy' = policy
  PROVE  SharedInv'
BY SharedKept DEF SharedInv

\* A step on one socket.
LEMMA Elsewhere ==
  ASSUME SharedInv, NEW s \in Sockets, Shared(s)',
         \A c \in Conns : \A t \in Sockets \ {s} : Keeps(c, t),
         \A t \in Sockets \ {s} : chan'[t] = chan[t], policy' = policy
  PROVE  SharedInv'
BY SharedKept DEF SharedInv

\* A step of one connection.
Only(c) == conn' \in Table /\ \A d \in Conns \ {c} : Alike(conn'[d], conn[d])

LEMMA OneChanged ==
  ASSUME Types, PlaceInv, SocketInv, RegistryInv, NEW c \in Conns, Only(c),
         conn'[c].state # "FREE", conn[c].state = "CLOSED" => conn'[c].state = "CLOSED",
         conns' = conns, policy' = policy, Place(c)', Socket(c)', Registers(c)'
  PROVE  PlaceInv' /\ SocketInv' /\ RegistryInv'
<1>1. PlaceInv'
  <2>1. ASSUME NEW d \in Conns \ {c} PROVE Place(d)'
    <3>1. Alike(conn'[d], conn[d]) /\ Place(d)
      BY DEF PlaceInv, Only
    <3>2. QED BY <3>1 DEF Place, Alike
  <2>2. QED BY <2>1 DEF PlaceInv
<1>2. SocketInv'
  <2>1. ASSUME NEW d \in Conns \ {c} PROVE Socket(d)'
    <3>1. Alike(conn'[d], conn[d]) /\ Socket(d)
      BY DEF SocketInv, Only
    <3>2. QED BY <3>1 DEF Socket, Alike
  <2>2. QED BY <2>1 DEF SocketInv
<1>3. RegistryInv'
  <2>1. ASSUME NEW n \in Node PROVE Entry(n)'
    <3>1. Entry(n) /\ conns[n] \in Conns \cup {None}
      BY DEF RegistryInv, Types, ConnPtr
    <3>2. \A d \in Conns : conn[d].state # "FREE" => conn'[d].state # "FREE"
      BY DEF Only, Alike
    <3>3. QED BY <3>1, <3>2 DEF Entry
  <2>2. ASSUME NEW d \in Conns \ {c} PROVE Registers(d)'
    <3>1. Registers(d) /\ Alike(conn'[d], conn[d])
      BY DEF RegistryInv, Only
    <3>2. Claims(conn'[d]) => Claims(conn[d])
      BY <3>1 DEF Claims, Alike
    <3>3. \A e \in Conns : conn[e].state = "CLOSED" => conn'[e].state = "CLOSED"
      BY DEF Only, Alike
    <3>4. conn[d].existing # None => conn[d].existing \in Conns
      <4>1. conn[d] \in Connections
        BY DEF Types
      <4>2. QED BY <4>1 DEF Connections, ConnPtr
    <3>5. QED BY <3>1, <3>2, <3>3, <3>4 DEF Registers, Alike
  <2>3. QED BY <2>1, <2>2 DEF RegistryInv
<1>4. QED BY <1>1, <1>2, <1>3

GivenBy(r, n, g) ==
  /\ r.gseq <= g[n]
  /\ r.peer_gseq <= g[Peer(n)]
  /\ r.msg.tag = "CONNECT" => r.msg.gseq <= g[Peer(n)]
  /\ r.msg.tag \in Accepted => r.msg.gseq <= g[n]

LEMMA GivenLater ==
  ASSUME Types, NEW c \in Conns, Given(c),
         global_seq' \in [Node -> Nat], \A n \in Node : global_seq[n] <= global_seq'[n]
  PROVE  GivenBy(conn[c], c[1], global_seq')
<1>1. conn[c] \in Connections
  BY DEF Types
<1>2. /\ conn[c].gseq \in Nat /\ conn[c].peer_gseq \in Nat /\ conn[c].msg.gseq \in Nat
  BY <1>1 DEF Connections, Message
<1>3. c[1] \in Node /\ Peer(c[1]) \in Node
  BY Nodes
<1>4. \A n \in Node : global_seq[n] \in Nat /\ global_seq'[n] \in Nat
  BY DEF Types
<1>5. QED BY <1>2, <1>3, <1>4 DEF Given, GivenBy

LEMMA GivenKept ==
  ASSUME Types, GlobalInv, NEW c \in Conns, Only(c), Given(c)',
         global_seq' \in [Node -> Nat], \A n \in Node : global_seq[n] <= global_seq'[n]
  PROVE  /\ \A d \in Conns : Given(d)'
         /\ \A s \in Sockets, n \in Node :
              \A i \in DOMAIN chan[s][n] : GivenTo(global_seq', n, chan[s][n][i])
<1>1. ASSUME NEW d \in Conns \ {c} PROVE Given(d)'
  <2>1. conn[d] \in Connections
    BY DEF Types
  <2>2. /\ conn[d].gseq \in Nat /\ conn[d].peer_gseq \in Nat /\ conn[d].msg.gseq \in Nat
    BY <2>1 DEF Connections, Message
  <2>3. d[1] \in Node /\ Peer(d[1]) \in Node
    BY Nodes
  <2>4. \A n \in Node : global_seq[n] \in Nat /\ global_seq'[n] \in Nat
    BY DEF Types
  <2>5. Given(d) /\ Alike(conn'[d], conn[d])
    BY DEF GlobalInv, Only
  <2>6. QED BY <2>2, <2>3, <2>4, <2>5 DEF Given, Alike
<1>2. ASSUME NEW s \in Sockets, NEW n \in Node, NEW i \in DOMAIN chan[s][n]
      PROVE  GivenTo(global_seq', n, chan[s][n][i])
  <2>1. chan[s][n][i] \in Message
    BY DEF Types
  <2>2. chan[s][n][i].gseq \in Nat
    BY <2>1 DEF Message
  <2>3. Peer(n) \in Node /\ global_seq[Peer(n)] \in Nat /\ global_seq'[Peer(n)] \in Nat
    BY Nodes DEF Types
  <2>4. GivenTo(global_seq, n, chan[s][n][i])
    BY DEF GlobalInv, Way
  <2>5. QED BY <2>2, <2>3, <2>4 DEF GivenTo
<1>3. Given(c)'
  OBVIOUS
<1>4. QED BY <1>1, <1>2, <1>3

\* A handler of connection c has its connections in h, with little changed but c's
\* place, before it calls fault.
Prepared(h, c) ==
  /\ h \in Table /\ \A d \in Conns \ {c} : h[d] = conn[d]
  /\ conn[c].state # "FREE"
  /\ \/ h[c].state = conn[c].state
     \/ h[c].state = "WAIT" /\ conn[c].state = "WAIT_CONNECT_REPLY"
  /\ h[c].at = "" /\ h[c].cs = conn[c].cs /\ h[c].new_cs = conn[c].new_cs
  /\ h[c].swap = conn[c].swap /\ h[c].existing = conn[c].existing /\ h[c].gseq = conn[c].gseq
  /\ h[c].peer_gseq = conn[c].peer_gseq /\ h[c].once_ready = conn[c].once_ready
  /\ h[c].queued = conn[c].queued /\ h[c].msg \in {conn[c].msg, Free.msg}
  /\ h[c].connect_seq = conn[c].connect_seq /\ h[c].lossy = conn[c].lossy
  /\ \/ h[c].replacing = conn[c].replacing
     \/ h[c].replacing = FALSE /\ conn[c].state \in {"CONNECT_MSG_AUTH", "CLOSED"}

LEMMA FaultStep ==
  ASSUME Types, PlaceInv, SocketInv, RegistryInv, GlobalInv, NEW c \in Conns, NEW h,
         Prepared(h, c), conn' = fault(h, c), UNCHANGED <<policy, conns, global_seq>>
  PROVE  /\ Only(c) /\ PlaceInv' /\ SocketInv' /\ RegistryInv'
         /\ (\A d \in Conns : Given(d)')
         /\ \A s \in Sockets : \A d \in Conns : Keeps(d, s)
<1> DEFINE r == conn[c]
           p == h[c]
           q == conn'[c]
<1>a. /\ p.state = r.state \/ (p.state = "WAIT" /\ r.state = "WAIT_CONNECT_REPLY")
      /\ r.state # "FREE" /\ p.at = "" /\ p.cs = r.cs /\ p.new_cs = r.new_cs /\ p.swap = r.swap
      /\ p.once_ready = r.once_ready /\ p.queued = r.queued
      /\ \/ p.replacing = r.replacing
         \/ p.replacing = FALSE /\ r.state \in {"CONNECT_MSG_AUTH", "CLOSED"}
  BY DEF Prepared
<1>b. /\ p.existing = r.existing /\ p.gseq = r.gseq /\ p.peer_gseq = r.peer_gseq
      /\ p.msg = r.msg \/ p.msg = Free.msg
      /\ p.connect_seq = r.connect_seq /\ p.lossy = r.lossy
  BY DEF Prepared
<1>c. h \in Table /\ \A d \in Conns \ {c} : h[d] = conn[d]
  BY DEF Prepared
<1>d. policy' = policy /\ conns' = conns /\ global_seq' = global_seq
  OBVIOUS
<1>e. /\ \A n \in Node : global_seq[n] \in Nat /\ global_seq[n] <= global_seq'[n]
      /\ global_seq' \in [Node -> Nat]
  <2>1. global_seq \in [Node -> Nat]
    BY DEF Types
  <2>2. global_seq' = global_seq
    OBVIOUS
  <2>3. global_seq' \in [Node -> Nat]
    BY <2>1, <2>2
  <2>4. ASSUME NEW n \in Node PROVE global_seq[n] \in Nat /\ global_seq[n] <= global_seq'[n]
    <3>1. global_seq[n] \in Nat
      BY <2>1
    <3>2. QED BY <3>1, <2>2
  <2>5. QED BY <2>3, <2>4
<1>1. r \in Connections /\ p \in Connections /\ q \in Connections /\ c[1] \in Node
  BY <1>c, FaultIs, Nodes DEF Types, Table
<1>2. Only(c)
  <2>1. \A d \in Conns : Alike(h[d], h[d])
    BY DEF Alike
  <2>2. QED BY <2>1, <1>c, FaultIs DEF Only
<1>3. p.state \in {"CLOSED", "NONE"} => q = p
  BY <1>c, FaultIs
<1>4. p.state \notin {"CLOSED", "NONE"} => Faulted(c[1], q, p)
  BY <1>c, FaultIs
<1>5. Place(c) /\ Socket(c) /\ Registers(c) /\ Given(c)
  BY DEF PlaceInv, SocketInv, RegistryInv, GlobalInv
<1>6. r.state # "NONE" /\ r.state # "CLOSED" => r.swap = "" /\ r.new_cs = 0
  <2>1. r.swap # "" => r.state \in {"NONE", "CLOSED"}
    BY <1>5 DEF Socket
  <2>2. r.swap # "deactivate" => r.new_cs = 0
    BY <1>5 DEF Socket
  <2>3. QED BY <2>1, <2>2
<1> HIDE DEF r, p, q
<1>7. CASE p.state \in {"CLOSED", "NONE"}
  <2>1. q = p /\ p.state = r.state
    BY <1>3, <1>7, <1>a
  <2>2. Place(c)'
    BY <2>1, <1>5, <1>7, <1>a, <1>d DEF Place, r, q
  <2>3. Socket(c)'
    BY <2>1, <1>5, <1>7, <1>a DEF Socket, r, q
  <2>4. Registers(c)'
    <3>1. Claims(q) => Claims(r)
      BY <2>1, <1>7, <1>a DEF Claims
    <3>2. QED BY <2>1, <3>1, <1>5, <1>7, <1>a, <1>d DEF Registers, HalfAccepted, r, q
  <2>5. Given(c)'
    <3>1. Free.msg.tag = "NONE"
      BY DEF Free
    <3>2. QED BY <2>1, <3>1, <1>5, <1>b, <1>d DEF Given, Accepted, r, q
  <2>6. q.state # "FREE" /\ (r.state = "CLOSED" => q.state = "CLOSED")
    BY <2>1, <1>7
  <2>7. PlaceInv' /\ SocketInv' /\ RegistryInv'
    BY <1>2, <1>d, <2>2, <2>3, <2>4, <2>6, OneChanged DEF r, q
  <2>8. \A d \in Conns : Given(d)'
    BY <1>2, <1>e, <2>5, GivenKept
  <2>9. \A s \in Sockets : Keeps(c, s)
    BY <2>1, <1>7, <1>a, <1>b, SameKeeps DEF r, q
  <2>10. QED BY <1>2, <2>7, <2>8, <2>9, AlikeKeeps DEF Only
<1>8. CASE p.state \notin {"CLOSED", "NONE"}
  <2>1. Faulted(c[1], q, p) /\ r.state \notin {"CLOSED", "NONE"}
    BY <1>4, <1>8, <1>a
  <2>2. Place(c)'
    BY <2>1, <1>5, <1>8, <1>a, <1>d DEF Place, Faulted, Connecting, r, q
  <2>3. Socket(c)'
    BY <2>1, <1>6, <1>a DEF Socket, Faulted, HalfAccepted, r, q
  <2>4. Claims(q) => Claims(r)
    <3>1. r.state \in Registered \cup HalfAccepted
      <4>1. r.state \in States /\ r.state # "WAIT"
        BY <1>1, <1>5 DEF Connections, Place, r
      <4>2. QED BY <4>1, <2>1, <1>a DEF States
    <3>2. CASE q.state = "CLOSED"
      BY <2>1, <3>2, <1>a DEF Faulted, Claims, Registered, Connecting
    <3>3. CASE q.state \in {"STANDBY", "CONNECTING"}
      <4>1. ~half_accepted(p)
        BY <2>1, <3>3 DEF Faulted
      <4>2. p.once_ready \/ p.queued \/ p.state \notin HalfAccepted \/ p.replacing
        BY <4>1 DEF half_accepted
      <4>3. p.replacing => r.replacing
        BY <1>a
      <4>4. r.state \in HalfAccepted => p.state \in HalfAccepted
        BY <1>a DEF HalfAccepted
      <4>5. QED BY <3>1, <4>2, <4>3, <4>4, <1>a DEF Claims
    <3>4. QED BY <2>1, <3>2, <3>3 DEF Faulted
  <2>5. Registers(c)'
    <3>1. q.state \notin HalfAccepted /\ q.at = ""
      BY <2>1, <1>a DEF Faulted, HalfAccepted
    <3>2. QED BY <3>1, <2>4, <1>5, <1>d DEF Registers, r, q
  <2>6. Given(c)'
    <3>1. \/ q.gseq = 0 /\ q.peer_gseq = 0 /\ q.msg = Free.msg
          \/ q.gseq = r.gseq /\ q.peer_gseq = r.peer_gseq /\ q.msg \in {r.msg, Free.msg}
      BY <2>1, <1>b DEF Faulted
    <3>2. Free.msg.tag = "NONE"
      BY DEF Free
    <3>3. global_seq[c[1]] \in Nat /\ global_seq[Peer(c[1])] \in Nat
      BY <1>1, <1>e, Nodes
    <3>4. QED BY <3>1, <3>2, <3>3, <1>5, <1>d DEF Given, Accepted, r, q
  <2>7. q.state # "FREE" /\ r.state # "CLOSED"
    BY <2>1 DEF Faulted
  <2>8. PlaceInv' /\ SocketInv' /\ RegistryInv'
    BY <1>2, <1>d, <2>2, <2>3, <2>5, <2>7, OneChanged DEF r, q
  <2>9. \A d \in Conns : Given(d)'
    BY <1>2, <1>e, <2>6, GivenKept
  <2>10. \A s \in Sockets : Keeps(c, s)
    <3>1. q.state \notin Active \cup {"NONE"} /\ q.cs \in {0, r.cs} /\ q.new_cs \in {0, r.new_cs}
      BY <2>1, <1>a DEF Faulted, Active
    <3>2. QED BY <3>1, FadedKeeps DEF r, q
  <2>11. QED BY <1>2, <2>8, <2>9, <2>10, AlikeKeeps DEF Only
<1>9. QED BY <1>7, <1>8

-------------------------------------------------------------------------------
(* The steps.  First those that touch no socket's messages. *)

LEMMA WayKept == ASSUME GlobalInv, UNCHANGED <<chan, global_seq>>
                 PROVE  \A s \in Sockets, n \in Node : Way(s, n)'
BY DEF GlobalInv, Way

\* fault, of a handler in whose state nothing else changed.
LEMMA FaultKept ==
  ASSUME IInv, NEW c \in Conns, NEW h, Prepared(h, c), conn' = fault(h, c),
         faults' \in Nat, UNCHANGED <<policy, conns, global_seq, chan, broken, failed>>
  PROVE  IInv'
<1> USE DEF IInv
<1>1. /\ Only(c) /\ PlaceInv' /\ SocketInv' /\ RegistryInv'
      /\ (\A d \in Conns : Given(d)')
      /\ \A s \in Sockets : \A d \in Conns : Keeps(d, s)
  BY FaultStep
<1>2. SharedInv'
  BY <1>1, Quiet
<1>3. GlobalInv'
  BY <1>1, WayKept DEF GlobalInv
<1>4. Types'
  BY <1>1 DEF Types, Only, Table
<1>5. AssertionsHold'
  BY DEF AssertionsHold
<1>6. QED BY <1>1, <1>2, <1>3, <1>4, <1>5

\* Back, for who is in the middle of a connect message.
LEMMA BackIs ==
  ASSUME Types, NEW c \in Conns
  PROVE  LET q == Back(c)[c] IN
         /\ Back(c) \in Table /\ \A d \in Conns \ {c} : Back(c)[d] = conn[d]
         /\ q = [conn[c] EXCEPT !.replacing = FALSE, !.at = "", !.msg = Free.msg]
         /\ q.state = conn[c].state /\ q.cs = conn[c].cs /\ q.new_cs = conn[c].new_cs
         /\ q.swap = conn[c].swap /\ q.existing = conn[c].existing /\ q.gseq = conn[c].gseq
         /\ q.peer_gseq = conn[c].peer_gseq /\ q.once_ready = conn[c].once_ready
         /\ q.queued = conn[c].queued /\ q.connect_seq = conn[c].connect_seq
         /\ q.lossy = conn[c].lossy /\ q.at = "" /\ q.replacing = FALSE /\ q.msg = Free.msg
<1> DEFINE q == [conn[c] EXCEPT !.replacing = FALSE, !.at = "", !.msg = Free.msg]
<1>1. conn \in Table /\ conn[c] \in Connections
  BY DEF Types, Table
<1>2. "" \in Places /\ Free.msg \in Message
  BY DEF Places, Free, Message
<1>3. /\ q \in Connections
      /\ q.state = conn[c].state /\ q.cs = conn[c].cs /\ q.new_cs = conn[c].new_cs
      /\ q.swap = conn[c].swap /\ q.existing = conn[c].existing /\ q.gseq = conn[c].gseq
      /\ q.peer_gseq = conn[c].peer_gseq /\ q.once_ready = conn[c].once_ready
      /\ q.queued = conn[c].queued /\ q.connect_seq = conn[c].connect_seq
      /\ q.lossy = conn[c].lossy /\ q.at = "" /\ q.replacing = FALSE /\ q.msg = Free.msg
  BY <1>1, <1>2 DEF Connections
<1>4. Back(c) = [conn EXCEPT ![c] = q]
  BY DEF Back
<1> HIDE DEF q
<1>5. Back(c) \in Table /\ Back(c)[c] = q /\ \A d \in Conns \ {c} : Back(c)[d] = conn[d]
  BY <1>1, <1>3, <1>4 DEF Table
<1>6. QED BY <1>3, <1>5 DEF q

LEMMA BackPrepared ==
  ASSUME Types, NEW c \in Conns, conn[c].state \in {"CONNECT_MSG_AUTH", "CLOSED"}
  PROVE  Prepared(Back(c), c)
BY BackIs DEF Prepared

LEMMA RefusedStep == ASSUME IInv, NEW c \in Conns, accept_refused(c) PROVE IInv'
<1>1. /\ conn[c].at = "refused" /\ conn' = fault(Back(c), c)
      /\ UNCHANGED <<policy, conns, global_seq, chan, broken, failed, faults>>
  BY DEF accept_refused, Goes_on, Runs
<1>2. conn[c].state \in {"CONNECT_MSG_AUTH", "CLOSED"}
  BY <1>1 DEF IInv, PlaceInv, Place
<1>3. faults' \in Nat
  BY <1>1 DEF IInv, Types
<1>4. Prepared(Back(c), c)
  BY <1>2, BackPrepared DEF IInv
<1>5. QED BY <1>1, <1>3, <1>4, FaultKept

LEMMA AcceptFailsStep == ASSUME IInv, NEW c \in Conns, accept_fails(c) PROVE IInv'
<1>1. /\ conn[c].state = "CONNECT_MSG_AUTH" /\ conn' = fault(Back(c), c)
      /\ UNCHANGED <<policy, conns, global_seq, chan, broken, failed, faults>>
  BY DEF accept_fails, Goes_on, Runs
<1>2. faults' \in Nat
  BY <1>1 DEF IInv, Types
<1>3. Prepared(Back(c), c)
  BY <1>1, BackPrepared DEF IInv
<1>4. QED BY <1>1, <1>2, <1>3, FaultKept

LEMMA SocketErrorStep == ASSUME IInv, NEW c \in Conns, socket_error(c) PROVE IInv'
<1>1. /\ conn[c].state \in {"WAIT_CONNECT_REPLY", "WAIT_CONNECT_MSG", "WAIT_SEQ", "OPEN"}
      /\ conn[c].at = "" /\ conn' = fault(conn, c)
      /\ UNCHANGED <<policy, conns, global_seq, chan, broken, failed, faults>>
  BY DEF socket_error, Goes_on, Runs
<1>2. faults' \in Nat
  BY <1>1 DEF IInv, Types
<1>3. Prepared(conn, c)
  BY <1>1 DEF Prepared, IInv, Types, Table
<1>4. QED BY <1>1, <1>2, <1>3, FaultKept

\* A step of one connection that changes nothing on sockets.
LEMMA QuietStep ==
  ASSUME IInv, NEW c \in Conns, Only(c), conn'[c].state # "FREE",
         conn[c].state = "CLOSED" => conn'[c].state = "CLOSED",
         Place(c)', Socket(c)', Registers(c)', Given(c)', \A s \in Sockets : Keeps(c, s),
         faults' \in Nat, UNCHANGED <<policy, conns, global_seq, chan, broken, failed>>
  PROVE  IInv'
<1> USE DEF IInv
<1>1. PlaceInv' /\ SocketInv' /\ RegistryInv'
  BY OneChanged
<1>2. SharedInv'
  <2>1. \A d \in Conns \ {c} : \A s \in Sockets : Keeps(d, s)
    BY AlikeKeeps DEF Only
  <2>2. QED BY <2>1, Quiet
<1>3. \A n \in Node : global_seq[n] <= global_seq'[n] /\ global_seq'[n] \in Nat
  BY DEF Types
<1>4. \A d \in Conns : Given(d)'
  BY <1>3, GivenKept DEF Types
<1>5. GlobalInv'
  BY <1>4, WayKept DEF GlobalInv
<1>6. Types'
  BY DEF Types, Only, Table
<1>7. AssertionsHold'
  BY DEF AssertionsHold
<1>8. QED BY <1>1, <1>2, <1>5, <1>6, <1>7

\* What an assignment of one connection is.
LEMMA Assigned ==
  ASSUME Types, NEW c \in Conns, NEW q \in Connections, conn' = [conn EXCEPT ![c] = q]
  PROVE  Only(c) /\ conn'[c] = q
BY DEF Types, Only, Table, Alike

\* Who is looked up is registered, and neither closed nor free.
LEMMA LookupIs ==
  ASSUME IInv, NEW n \in Node, lookup(n) # None
  PROVE  /\ lookup(n) = conns[n] /\ lookup(n) \in Conns /\ lookup(n)[1] = n
         /\ conn[lookup(n)].state \notin {"CLOSED", "FREE"}
<1>1. lookup(n) = conns[n] /\ conns[n] # None /\ conn[conns[n]].state # "CLOSED"
  BY DEF lookup
<1>2. conns[n] \in ConnPtr /\ Entry(n)
  BY DEF IInv, Types, RegistryInv
<1>3. QED BY <1>1, <1>2 DEF ConnPtr, Entry

\* Users.
LEMMA MarkDownStep == ASSUME IInv, NEW n \in Node, mark_down(n) PROVE IInv'
<1>0. lookup(n) \in Conns /\ conn[lookup(n)].state \notin {"CLOSED", "FREE"}
  BY LookupIs DEF mark_down
<1> PICK c \in Conns : c = lookup(n)
  BY <1>0
<1>1. /\ conn' = stop(conn, c) /\ faults' = faults + 1
      /\ UNCHANGED <<policy, conns, global_seq, chan, broken, failed>>
  BY DEF mark_down, Runs
<1>2. conn[c].state # "CLOSED" /\ conn[c].state # "FREE"
  BY <1>0
<1> DEFINE r == conn[c]
           q == conn'[c]
<1>a. policy' = policy /\ conns' = conns /\ global_seq' = global_seq
  BY <1>1
<1>3. conn \in Table /\ faults' \in Nat
  BY <1>1 DEF IInv, Types, Table
<1>4. Only(c) /\ Stopped(q, r)
  BY <1>1, <1>2, <1>3, StopIs DEF Only
<1>5. Place(c) /\ Socket(c) /\ Registers(c) /\ Given(c)
  BY <1>2 DEF IInv, PlaceInv, SocketInv, RegistryInv, GlobalInv
<1> HIDE DEF r, q
<1>6. Place(c)'
  BY <1>4, <1>5, <1>a DEF Place, Stopped, Connecting, r, q
<1>b. Socket(c)'
  BY <1>4, <1>5 DEF Socket, Stopped, HalfAccepted, r, q
<1>7. Registers(c)'
  <2>1. ~Claims(q) /\ q.state = "CLOSED" /\ q.existing = r.existing /\ q.at = r.at
    BY <1>4 DEF Claims, Stopped, Registered, Connecting
  <2>2. r.existing \in Conns \cup {None}
    <3>1. r \in Connections
      BY <1>2, <1>3 DEF Table, r
    <3>2. QED BY <3>1 DEF Connections, ConnPtr
  <2>3. \A d \in Conns : conn[d].state = "CLOSED" => conn'[d].state = "CLOSED"
    BY <1>4, <2>1 DEF Only, Alike, r, q
  <2>4. QED BY <1>a, <1>5, <2>1, <2>2, <2>3 DEF Registers, HalfAccepted, r, q
<1>8. Given(c)'
  <2>1. global_seq'[c[1]] \in Nat /\ global_seq'[Peer(c[1])] \in Nat
    <3>1. global_seq \in [Node -> Nat]
      BY DEF IInv, Types
    <3>2. QED BY <1>a, <1>2, <3>1, Nodes
  <2>2. Free.msg.tag = "NONE"
    BY DEF Free
  <2>3. QED BY <1>4, <2>1, <2>2 DEF Given, Stopped, Accepted, r, q
<1>9. \A s \in Sockets : Keeps(c, s)
  BY <1>2, <1>4, FadedKeeps DEF Stopped, Active, r, q
<1>10. q.state = "CLOSED"
  BY <1>4 DEF Stopped
<1>11. QED BY <1>1, <1>2, <1>3, <1>4, <1>6, <1>b, <1>7, <1>8, <1>9, <1>10, QuietStep DEF q, r

-------------------------------------------------------------------------------
(* Steps on one socket. *)

\* A step of connection c on its socket s.
LEMMA SocketStep ==
  ASSUME IInv, NEW c \in Conns, NEW s \in Sockets, Only(c), Holds(c, s),
         conn'[c].state # "FREE", conn[c].state = "CLOSED" => conn'[c].state = "CLOSED",
         Place(c)', Socket(c)', Registers(c)', Given(c)',
         \A t \in Sockets \ {s} : Keeps(c, t), Channel(c, s)',
         \A d \in Conns : d[1] # c[1] /\ Holds(d, s) =>
           Channel(d, s)' /\ Pair(c, d, s)' /\ Pair(d, c, s)',
         global_seq' \in [Node -> Nat], \A n \in Node : global_seq[n] <= global_seq'[n],
         chan' \in Socketful, \A t \in Sockets \ {s} : chan'[t] = chan[t],
         \A n \in Node : Way(s, n)',
         UNCHANGED <<policy, conns, broken, failed, faults>>
  PROVE  IInv'
<1>a. /\ Types /\ PlaceInv /\ SocketInv /\ RegistryInv /\ SharedInv /\ GlobalInv
      /\ AssertionsHold
  BY DEF IInv
<1>1. PlaceInv' /\ SocketInv' /\ RegistryInv'
  <2>1. conns' = conns /\ policy' = policy
    OBVIOUS
  <2>2. QED BY <1>a, <2>1, OneChanged
<1>2. \A d \in Conns \ {c} : \A t \in Sockets : Keeps(d, t)
  BY AlikeKeeps DEF Only
<1>3. SharedInv'
  <2>1. Shared(s) /\ policy' = policy
    BY <1>a DEF SharedInv
  <2>2. Shared(s)'
    BY <2>1, <1>2, Exchange
  <2>3. \A d \in Conns : \A t \in Sockets \ {s} : Keeps(d, t)
    BY <1>2
  <2>4. QED BY <1>a, <2>1, <2>2, <2>3, Elsewhere
<1>4. GlobalInv'
  <2>1. /\ \A d \in Conns : Given(d)'
        /\ \A t \in Sockets, n \in Node :
             \A i \in DOMAIN chan[t][n] : GivenTo(global_seq', n, chan[t][n][i])
    BY <1>a, GivenKept
  <2>2. \A t \in Sockets \ {s}, n \in Node : Way(t, n)'
    BY <2>1 DEF Way
  <2>3. QED BY <2>1, <2>2 DEF GlobalInv
<1>5. Types'
  BY <1>a DEF Types, Only, Table, Socketful
<1>6. AssertionsHold'
  BY <1>a DEF AssertionsHold
<1>7. QED BY <1>1, <1>3, <1>4, <1>5, <1>6 DEF IInv

\* c, on socket s, takes a message or none, and sends m or nothing.
Took(c, s) == chan'[s][c[1]] = Tail(chan[s][c[1]])
Left(c, s) == chan'[s][c[1]] = chan[s][c[1]]
Sent(c, s, m) ==
  /\ m \in Message
  /\ chan'[s][Peer(c[1])] = IF EndOpen(s, Peer(c[1])) THEN Append(chan[s][Peer(c[1])], m)
                                                      ELSE chan[s][Peer(c[1])]
Silent(c, s) == chan'[s][Peer(c[1])] = chan[s][Peer(c[1])]

LEMMA TailIs ==
  ASSUME NEW x \in Seq(Message), x # <<>>
  PROVE  \A i \in DOMAIN Tail(x) : i + 1 \in DOMAIN x /\ Tail(x)[i] = x[i + 1]
<1>1. Tail(x) \in Seq(Message) /\ Len(Tail(x)) = Len(x) - 1 /\ Len(x) \in Nat
  BY HeadTailProperties
<1>2. \A i \in 1 .. Len(Tail(x)) : Tail(x)[i] = x[i + 1]
  BY HeadTailProperties
<1>3. DOMAIN Tail(x) = 1 .. Len(Tail(x)) /\ DOMAIN x = 1 .. Len(x)
  BY <1>1
<1>4. QED BY <1>1, <1>2, <1>3

LEMMA HeadIs ==
  ASSUME NEW x \in Seq(Message), x # <<>>
  PROVE  /\ Head(x) = x[1] /\ Head(x) \in Message /\ 1 \in DOMAIN x
         /\ Tail(x) \in Seq(Message)
<1>1. Len(x) \in Nat \ {0} /\ DOMAIN x = 1 .. Len(x)
  <2>1. Len(x) # 0
    BY EmptySeq
  <2>2. Len(x) \in Nat /\ DOMAIN x = 1 .. Len(x)
    BY LenProperties
  <2>3. QED BY <2>1, <2>2
<1>2. Head(x) \in Message /\ Tail(x) \in Seq(Message)
  BY HeadTailProperties
<1>3. QED BY <1>1, <1>2 DEF Head

LEMMA WaySent ==
  ASSUME Types, GlobalInv, NEW c \in Conns, NEW s \in Sockets, chan' \in Socketful,
         global_seq' \in [Node -> Nat], \A n \in Node : global_seq[n] <= global_seq'[n],
         NEW m, Left(c, s) \/ (Took(c, s) /\ chan[s][c[1]] # <<>>),
         Silent(c, s) \/ (Sent(c, s, m) /\ GivenTo(global_seq', Peer(c[1]), m))
  PROVE  \A n \in Node : Way(s, n)'
<1>1. /\ c[1] \in Node /\ Peer(c[1]) \in Node
      /\ \A n \in Node : n \in {c[1], Peer(c[1])}
  BY Nodes
<1>2. \A n \in Node : chan[s][n] \in Seq(Message) /\ chan'[s][n] \in Seq(Message)
  BY DEF Types, Socketful
<1>3. ASSUME NEW n \in Node, NEW i \in DOMAIN chan[s][n]
      PROVE  GivenTo(global_seq', n, chan[s][n][i])
  <2>1. chan[s][n][i] \in Message
    BY <1>2
  <2>2. chan[s][n][i].gseq \in Nat
    BY <2>1 DEF Message
  <2>3. Peer(n) \in Node /\ global_seq[Peer(n)] \in Nat /\ global_seq'[Peer(n)] \in Nat
    BY Nodes DEF Types
  <2>4. GivenTo(global_seq, n, chan[s][n][i])
    BY DEF GlobalInv, Way
  <2>5. QED BY <2>2, <2>3, <2>4 DEF GivenTo
<1>4. Way(s, c[1])'
  <2>1. ASSUME NEW i \in DOMAIN chan'[s][c[1]]
        PROVE  \E j \in DOMAIN chan[s][c[1]] : chan'[s][c[1]][i] = chan[s][c[1]][j]
    <3>1. CASE Left(c, s)
      BY <3>1 DEF Left
    <3>2. CASE Took(c, s) /\ chan[s][c[1]] # <<>>
      <4>1. DEFINE x == chan[s][c[1]]
                   y == chan'[s][c[1]]
      <4>2. x \in Seq(Message) /\ x # <<>> /\ y = Tail(x) /\ i \in DOMAIN y
        BY <3>2, <1>1, <1>2 DEF Took
      <4> HIDE DEF x, y
      <4>3. i + 1 \in DOMAIN x /\ y[i] = x[i + 1]
        BY <4>2, TailIs
      <4>4. QED BY <4>3 DEF x, y
    <3>3. QED BY <3>1, <3>2
  <2>2. QED BY <2>1, <1>1, <1>3 DEF Way
<1>5. Way(s, Peer(c[1]))'
  <2> DEFINE n == Peer(c[1])
             x == chan[s][n]
             y == chan'[s][n]
  <2>1. CASE y = x
    BY <2>1, <1>1, <1>3 DEF Way
  <2>2. CASE y = Append(x, m) /\ m \in Message /\ GivenTo(global_seq', n, m)
    <3>1. x \in Seq(Message)
      BY <1>1, <1>2
    <3>2. ASSUME NEW i \in DOMAIN y PROVE y[i] = m \/ (i \in DOMAIN x /\ y[i] = x[i])
      <4> HIDE DEF x, y
      <4> QED BY <3>1, <3>2, <2>2
    <3>3. \A i \in DOMAIN y : GivenTo(global_seq', n, y[i])
      BY <3>2, <2>2, <1>1, <1>3
    <3>4. QED BY <3>3 DEF Way
  <2>3. QED BY <2>1, <2>2 DEF Silent, Sent
<1>6. QED BY <1>1, <1>4, <1>5

\* The messages of the step: chan' for a handler that reads nothing, and one that
\* reads.
LEMMA Sends ==
  ASSUME Types, NEW c \in Conns, conn[c].cs \in Sockets, NEW m \in Message,
         chan' = ToPeer(chan, c, m)
  PROVE  /\ chan' \in Socketful /\ \A t \in Sockets \ {conn[c].cs} : chan'[t] = chan[t]
         /\ Left(c, conn[c].cs) /\ Sent(c, conn[c].cs, m)
<1>1. chan \in Socketful
  BY DEF Types, Socketful
<1>2. c[1] \in Node /\ Peer(c[1]) \in Node /\ Peer(c[1]) # c[1]
  BY Nodes
<1>3. QED BY <1>1, <1>2, SendIs DEF ToPeer, Left, Sent

LEMMA Answers_message ==
  ASSUME Types, NEW c \in Conns, conn[c].cs \in Sockets, chan[conn[c].cs][c[1]] # <<>>,
         NEW m \in Message, chan' = ToPeer(Taken(c), c, m)
  PROVE  /\ chan' \in Socketful /\ \A t \in Sockets \ {conn[c].cs} : chan'[t] = chan[t]
         /\ Took(c, conn[c].cs) /\ Sent(c, conn[c].cs, m)
<1>1. c[1] \in Node /\ Peer(c[1]) \in Node /\ Peer(c[1]) # c[1]
  BY Nodes
<1>2. QED BY <1>1, TakenIs, SendIs DEF ToPeer, Took, Sent

LEMMA Reads_message ==
  ASSUME Types, NEW c \in Conns, conn[c].cs \in Sockets, chan[conn[c].cs][c[1]] # <<>>,
         chan' = Taken(c)
  PROVE  /\ chan' \in Socketful /\ \A t \in Sockets \ {conn[c].cs} : chan'[t] = chan[t]
         /\ Took(c, conn[c].cs) /\ Silent(c, conn[c].cs)
BY TakenIs DEF Took, Silent


\* The part that an unchanged connection has in a socket.
LEMMA AlikeOn ==
  ASSUME NEW d \in Conns, NEW s, Alike(conn'[d], conn[d])
  PROVE  /\ Inherits(d, s)' <=> Inherits(d, s)
         /\ Holds(d, s)' <=> Holds(d, s)
         /\ conn'[d].cs = conn[d].cs /\ conn'[d].state = conn[d].state
         /\ conn'[d].connect_seq = conn[d].connect_seq /\ conn'[d].lossy = conn[d].lossy
         /\ conn'[d].at = conn[d].at /\ conn'[d].msg = conn[d].msg
BY DEF Alike, Inherits, Holds

\* c asks, with a connect message, on a socket that has nothing for it and whose
\* other end is waiting for such a message.
LEMMA Asks ==
  ASSUME Types, NEW c \in Conns, NEW s \in Sockets, Shared(s), conn[c].cs = s, Only(c),
         conn'[c].cs = s, conn'[c].state = "WAIT_CONNECT_REPLY",
         chan'[s][c[1]] = <<>>, chan[s][Peer(c[1])] = <<>>, NEW m, Sent(c, s, m),
         m.tag = "CONNECT", m.cseq = conn'[c].connect_seq,
         \A d \in Conns : d[1] # c[1] /\ Holds(d, s) =>
           ~Inherits(d, s) /\ ~ (conn[d].cs = s /\ conn[d].state \in Active \ {"WAIT_CONNECT_MSG"})
  PROVE  /\ Channel(c, s)'
         /\ \A d \in Conns : d[1] # c[1] /\ Holds(d, s) =>
              Channel(d, s)' /\ Pair(c, d, s)' /\ Pair(d, c, s)'
<1> DEFINE out == chan'[s][Peer(c[1])]
<1>1. out = <<>> \/ out = <<m>>
  <2>1. Append(<<>>, m) = <<m>>
    OBVIOUS
  <2>2. QED BY <2>1 DEF Sent
<1>2. Len(out) <= 1 /\ \A i \in DOMAIN out : out[i] = m
  <2>1. CASE out = <<>>
    <3>1. Len(<<>>) = 0 /\ DOMAIN <<>> = {}
      OBVIOUS
    <3>2. QED BY <2>1, <3>1
  <2>2. CASE out = <<m>>
    <3>1. Len(<<m>>) = 1 /\ \A i \in DOMAIN <<m>> : <<m>>[i] = m
      OBVIOUS
    <3>2. QED BY <2>2, <3>1
  <2>3. QED BY <1>1, <2>1, <2>2
<1>3. ~Accepts(c, s)' /\ ~On(c, s, {"WAIT_IDENTIFY"})' /\ ~On(c, s, {"CONNECT_MSG_AUTH"})'
      /\ ~On(c, s, {"WAIT_SEQ"})' /\ ~On(c, s, {"OPEN"})' /\ ~On(c, s, {"WAIT_SEQ", "OPEN"})'
  BY DEF Accepts, On, HalfAccepted, Inherits
<1>4. Channel(c, s)'
  <2>1. chan'[s][c[1]] = <<>> /\ Len(<<>>) = 0 /\ DOMAIN <<>> = {}
    OBVIOUS
  <2>2. Waits(c, s)'
    BY <1>2, <2>1 DEF Waits
  <2>3. QED BY <1>3, <2>2 DEF Channel
<1>5. ASSUME NEW d \in Conns, d[1] # c[1], Holds(d, s)
      PROVE  Channel(d, s)' /\ Pair(c, d, s)' /\ Pair(d, c, s)'
  <2>1. d[1] = Peer(c[1])
    BY <1>5, Nodes
  <2>2. ~Inherits(d, s)' /\ (conn'[d].cs = s => conn'[d].state \notin Active \ {"WAIT_CONNECT_MSG"})
    <3>1. Alike(conn'[d], conn[d])
      BY <1>5 DEF Only
    <3>2. QED BY <1>5, <3>1, AlikeOn
  <2>3. /\ ~On(d, s, {"WAIT_IDENTIFY"})' /\ ~On(d, s, {"WAIT_CONNECT_REPLY"})'
        /\ ~On(d, s, {"CONNECT_MSG_AUTH"})' /\ ~On(d, s, {"WAIT_SEQ", "OPEN"})'
        /\ ~On(d, s, {"WAIT_SEQ"})' /\ ~On(d, s, {"OPEN"})' /\ ~Inherits(d, s)'
        /\ ~On(d, s, {"WAIT_IDENTIFY", "WAIT_CONNECT_REPLY"})'
        /\ ~On(d, s, Active \ {"WAIT_CONNECT_MSG"})'
    BY <2>2 DEF On, Active
  <2>4. Channel(d, s)'
    BY <1>2, <2>1, <2>3 DEF Channel
  <2>5. Answered(c, d, s)'
    <3>1. DOMAIN <<>> = {} /\ chan'[s][c[1]] = <<>>
      OBVIOUS
    <3>2. QED BY <2>3, <3>1 DEF Answered
  <2>6. Pair(c, d, s)'
    BY <1>3, <2>5 DEF Pair
  <2>7. Pair(d, c, s)'
    BY <1>3, <2>3 DEF Pair
  <2>8. QED BY <2>4, <2>6, <2>7
<1>6. QED BY <1>4, <1>5


LEMMA AskStep ==
  ASSUME IInv, NEW c \in Conns, NEW s \in Sockets, conn[c].cs = s,
         conn[c].state \in {"WAIT_IDENTIFY", "WAIT_CONNECT_REPLY"}, Only(c),
         conn'[c].state = "WAIT_CONNECT_REPLY", conn'[c].cs = s, conn'[c].at = "",
         conn'[c].new_cs = conn[c].new_cs, conn'[c].swap = conn[c].swap,
         conn'[c].peer_gseq = conn[c].peer_gseq, conn'[c].msg = conn[c].msg,
         conn'[c].gseq <= global_seq'[c[1]],
         global_seq' \in [Node -> Nat], \A n \in Node : global_seq[n] <= global_seq'[n],
         chan'[s][c[1]] = <<>>, chan[s][Peer(c[1])] = <<>>,
         Left(c, s) \/ (Took(c, s) /\ chan[s][c[1]] # <<>>),
         Sent(c, s, ConnectMsg(conn'[c].connect_seq, conn'[c].gseq)),
         chan' \in Socketful, \A t \in Sockets \ {s} : chan'[t] = chan[t],
         \A d \in Conns : d[1] # c[1] /\ Holds(d, s) =>
           ~Inherits(d, s) /\ ~ (conn[d].cs = s /\ conn[d].state \in Active \ {"WAIT_CONNECT_MSG"}),
         UNCHANGED <<policy, conns, broken, failed, faults>>
  PROVE  IInv'
<1> DEFINE r == conn[c]
           q == conn'[c]
           m == ConnectMsg(q.connect_seq, q.gseq)
<1>a. Types /\ GlobalInv /\ Shared(s)
  BY DEF IInv, SharedInv
<1>b. Place(c) /\ Socket(c) /\ Registers(c) /\ Given(c)
  BY DEF IInv, PlaceInv, SocketInv, RegistryInv, GlobalInv
<1>c. conns' = conns /\ policy' = policy
  OBVIOUS
<1>d. m.tag = "CONNECT" /\ m.cseq = q.connect_seq /\ m.gseq = q.gseq
  BY DEF ConnectMsg, Msg
<1>e. r.swap = "" /\ r.new_cs = 0
  BY <1>b DEF Socket
<1>f. r.state \in Registered /\ q.state \in Registered /\ q.state \notin HalfAccepted
  BY DEF Registered, Connecting, HalfAccepted
<1> HIDE DEF m
<1>1. Place(c)'
  BY <1>b, <1>c DEF Place, Connecting
<1>2. Socket(c)'
  BY <1>b, <1>e DEF Socket, HalfAccepted
<1>3. Registers(c)'
  BY <1>b, <1>c, <1>f DEF Registers, Claims
<1>4. Given(c)'
  <2>1. GivenBy(r, c[1], global_seq')
    BY <1>a, <1>b, GivenLater
  <2>2. QED BY <2>1 DEF GivenBy, Given
<1>5. /\ Channel(c, s)'
      /\ \A d \in Conns : d[1] # c[1] /\ Holds(d, s) =>
           Channel(d, s)' /\ Pair(c, d, s)' /\ Pair(d, c, s)'
  BY <1>a, <1>d, Asks DEF m
<1>6. \A n \in Node : Way(s, n)'
  <2>1. GivenTo(global_seq', Peer(c[1]), m)
    BY <1>d, Nodes DEF GivenTo
  <2>2. QED BY <1>a, <2>1, WaySent DEF m
<1>7. \A t \in Sockets \ {s} : Keeps(c, t)
  BY <1>e, SocketsAre DEF Keeps, Holds, Inherits
<1>8. Holds(c, s) /\ q.state # "FREE" /\ r.state # "CLOSED"
  BY DEF Holds
<1>9. QED
  <2> HIDE DEF r, q
  <2>1. q.state # "FREE" /\ r.state # "CLOSED" /\ Holds(c, s)
    BY <1>8
  <2> QED BY <1>1, <1>2, <1>3, <1>4, <1>5, <1>6, <1>7, <2>1, SocketStep DEF r, q

LEMMA OneIs ==
  ASSUME NEW x \in Seq(Message), x # <<>>, Len(x) <= 1
  PROVE  /\ x = <<Head(x)>> /\ Tail(x) = <<>> /\ 1 \in DOMAIN x /\ Head(x) = x[1]
         /\ Head(x) \in Message
<1>1. Len(x) = 1
  <2>1. Len(x) \in Nat \ {0}
    BY EmptySeq
  <2>2. QED BY <2>1
<1>2. x \in [1 .. 1 -> Message] /\ DOMAIN x = 1 .. 1
  BY <1>1, LenProperties
<1>3. Head(x) = x[1] /\ x[1] \in Message
  <2>1. x[1] \in Message
    BY <1>2
  <2>2. QED BY <2>1 DEF Head
<1>4. <<x[1]>> \in Seq(Message) /\ Len(<<x[1]>>) = 1 /\ <<x[1]>>[1] = x[1]
  BY <1>3
<1>5. \A i \in 1 .. 1 : i = 1
  OBVIOUS
<1>6. x = <<x[1]>>
  <2>1. \A i \in 1 .. Len(x) : x[i] = <<x[1]>>[i]
    BY <1>1, <1>4, <1>5
  <2> DEFINE y == <<x[1]>>
  <2>2. y \in Seq(Message) /\ Len(x) = Len(y) /\ \A i \in 1 .. Len(x) : x[i] = y[i]
    BY <1>1, <1>4, <2>1
  <2> HIDE DEF y
  <2>3. x = y
    BY <2>2, SeqEqual
  <2>4. QED BY <2>3 DEF y
<1>7. Tail(x) = <<>>
  <2>1. Tail(x) \in Seq(Message) /\ Len(Tail(x)) = 0
    BY <1>1, HeadTailProperties
  <2>2. QED BY <2>1, EmptySeq
<1>8. QED BY <1>2, <1>3, <1>6, <1>7

\* An exchanged message is one that c, waiting for an answer, has been sent.
LEMMA ReplyIs ==
  ASSUME IInv, NEW c \in Conns, NEW tag, Reply(c, tag)
  PROVE  LET s == conn[c].cs IN
         /\ s \in Sockets /\ conn[c].state = "WAIT_CONNECT_REPLY" /\ conn[c].at = ""
         /\ chan[s][c[1]] = <<Next_msg(c)>> /\ Tail(chan[s][c[1]]) = <<>>
         /\ chan[s][Peer(c[1])] = <<>>
         /\ Next_msg(c) \in Message /\ Next_msg(c).tag = tag
         /\ Answers(Next_msg(c), conn[c].connect_seq)
         /\ GivenTo(global_seq, c[1], Next_msg(c))
         /\ \A d \in Conns : d[1] # c[1] => Answered(c, d, s)
<1> DEFINE s == conn[c].cs
           in == chan[s][c[1]]
           m == Next_msg(c)
<1>1. /\ conn[c].state = "WAIT_CONNECT_REPLY" /\ conn[c].at = "" /\ in # <<>>
      /\ m = Head(in) /\ m.tag = tag
  BY DEF Reply, Reads, Next_msg
<1>2. Types /\ SocketInv /\ SharedInv /\ GlobalInv
  BY DEF IInv
<1>3. s \in Sockets
  <2>1. s # 0
    BY <1>1, <1>2 DEF SocketInv, Socket
  <2>2. s \in Ends
    BY <1>2 DEF Types, Connections
  <2>3. QED BY <2>1, <2>2 DEF Ends
<1>4. Shared(s) /\ On(c, s, {"WAIT_CONNECT_REPLY"})
  BY <1>1, <1>2, <1>3 DEF SharedInv, On
<1>5. in \in Seq(Message)
  BY <1>2, <1>3, Nodes DEF Types
<1>6. /\ in = <<>> \/ chan[s][Peer(c[1])] = <<>>
      /\ Len(in) <= 1 /\ \A i \in DOMAIN in : Answers(in[i], conn[c].connect_seq)
  BY <1>4 DEF Shared, Channel, Waits
<1>7. \A d \in Conns : d[1] # c[1] => Answered(c, d, s)
  BY <1>4 DEF Shared, Pair
<1>8. \A i \in DOMAIN in : GivenTo(global_seq, c[1], in[i])
  BY <1>2, <1>3, Nodes DEF GlobalInv, Way
<1> HIDE DEF in, m, s
<1>9. in = <<m>> /\ Tail(in) = <<>> /\ 1 \in DOMAIN in /\ m = in[1] /\ m \in Message
  <2>1. m = Head(in) /\ in # <<>>
    BY <1>1 DEF in, m
  <2>2. Len(in) <= 1
    BY <1>6
  <2>3. QED BY <1>5, <2>1, <2>2, OneIs
<1>10. QED BY <1>1, <1>3, <1>6, <1>7, <1>8, <1>9 DEF in, m, s


LEMMA MessageIs ==
  ASSUME NEW tag \in {"CONNECT", "RETRY_GLOBAL", "RETRY_SESSION", "WAIT", "RESETSESSION",
                      "SEQ", "READY", "IN_SEQ"}, NEW a \in Nat, NEW b \in Nat
  PROVE  /\ Msg(tag, a, b) \in Message
         /\ Msg(tag, a, b).tag = tag /\ Msg(tag, a, b).cseq = a /\ Msg(tag, a, b).gseq = b
BY DEF Msg, Message

LEMMA Unbounded ==
  ASSUME Types
  PROVE  /\ global_seq \in [Node -> Nat] /\ \A n \in Node : global_seq[n] <= global_seq[n]
<1>1. global_seq \in [Node -> Nat]
  BY DEF Types
<1>2. ASSUME NEW n \in Node PROVE global_seq[n] <= global_seq[n]
  <2>1. global_seq[n] \in Nat
    BY <1>1
  <2>2. QED BY <2>1
<1>3. QED BY <1>1, <1>2

\* The socket of a connection that has one.
LEMMA HasSocket ==
  ASSUME IInv, NEW c \in Conns,
         conn[c].state \in {"WAIT_IDENTIFY", "WAIT_CONNECT_REPLY", "WAIT_SEQ", "OPEN"} \cup HalfAccepted
  PROVE  conn[c].cs \in Sockets /\ Shared(conn[c].cs) /\ Holds(c, conn[c].cs)
         /\ conn[c].swap = "" /\ conn[c].new_cs = 0
<1>1. Socket(c) /\ conn[c] \in Connections
  BY DEF IInv, SocketInv, Types
<1>2. conn[c].cs # 0 /\ conn[c].cs \in Ends
  BY <1>1 DEF Socket, Connections
<1>3. conn[c].cs \in Sockets
  BY <1>2 DEF Ends
<1>4. conn[c].state \notin {"NONE", "CLOSED"}
  BY DEF HalfAccepted
<1>5. QED BY <1>1, <1>3, <1>4 DEF IInv, SharedInv, Holds, Socket

LEMMA LearnedStep == ASSUME IInv, NEW c \in Conns, learned_addr(c) PROVE IInv'
<1> DEFINE r == conn[c]
<1>a. /\ Types /\ Place(c) /\ Socket(c) /\ Registers(c) /\ Given(c) /\ conn \in Table
      /\ r \in Connections
  BY DEF IInv, Types, Table, PlaceInv, SocketInv, RegistryInv, GlobalInv
<1>b. /\ conns' = conns /\ policy' = policy /\ global_seq' = global_seq /\ broken' = broken
      /\ failed' = failed /\ faults' = faults
  BY DEF learned_addr, Goes_on, Runs
<1>c. faults' \in Nat
  BY <1>a, <1>b DEF Types
<1>d. r.at = "learned"
  BY DEF learned_addr
<1>1. CASE r.state # "WAIT_IDENTIFY"
  <2> DEFINE q == [r EXCEPT !.at = ""]
  <2>1. conn' = [conn EXCEPT ![c] = q] /\ chan' = chan
    BY <1>1 DEF learned_addr
  <2>2. q \in Connections
    BY <1>a DEF Connections, Places
  <2>3. /\ q.state = r.state /\ q.cs = r.cs /\ q.new_cs = r.new_cs /\ q.swap = r.swap
        /\ q.connect_seq = r.connect_seq /\ q.lossy = r.lossy /\ q.at = "" /\ q.msg = r.msg
        /\ q.existing = r.existing /\ q.replacing = r.replacing /\ q.once_ready = r.once_ready
        /\ q.queued = r.queued /\ q.gseq = r.gseq /\ q.peer_gseq = r.peer_gseq
    BY <1>a DEF Connections
  <2> HIDE DEF q
  <2>4. Only(c) /\ conn'[c] = q
    BY <1>a, <2>1, <2>2, Assigned
  <2>5. r.state \in {"NONE", "CLOSED"}
    BY <1>1, <1>a, <1>d DEF Place
  <2>6. Place(c)'
    BY <1>a, <1>b, <2>3, <2>4, <2>5 DEF Place, Connecting
  <2>7. Socket(c)'
    BY <1>a, <2>3, <2>4 DEF Socket
  <2>8. Registers(c)'
    <3>1. Claims(q) => Claims(r)
      BY <2>3 DEF Claims
    <3>2. q.state \notin HalfAccepted
      BY <2>3, <2>5 DEF HalfAccepted
    <3>3. QED BY <1>a, <1>b, <2>3, <2>4, <3>1, <3>2 DEF Registers
  <2>9. Given(c)'
    BY <1>a, <1>b, <2>3, <2>4 DEF Given
  <2>10. \A s \in Sockets : Keeps(c, s)
    BY <2>3, <2>4, <2>5, SameKeeps
  <2>11. conn'[c].state # "FREE" /\ (conn[c].state = "CLOSED" => conn'[c].state = "CLOSED")
    BY <2>3, <2>4, <2>5
  <2>12. QED BY <1>b, <1>c, <2>1, <2>4, <2>6, <2>7, <2>8, <2>9, <2>10, <2>11, QuietStep
<1>2. CASE r.state = "WAIT_IDENTIFY"
  <2> DEFINE q == [r EXCEPT !.at = "", !.state = "WAIT_CONNECT_REPLY"]
             s == r.cs
             m == ConnectMsg(r.connect_seq, r.gseq)
  <2>1. conn' = [conn EXCEPT ![c] = q] /\ chan' = ToPeer(chan, c, m)
    BY <1>2, <1>a DEF learned_addr
  <2>2. q \in Connections
    <3>1. "WAIT_CONNECT_REPLY" \in States /\ "" \in Places
      BY DEF States, Registered, Connecting, Places
    <3>2. QED BY <1>a, <3>1 DEF Connections
  <2>3. /\ q.state = "WAIT_CONNECT_REPLY" /\ q.cs = r.cs /\ q.new_cs = r.new_cs
        /\ q.swap = r.swap /\ q.connect_seq = r.connect_seq /\ q.at = "" /\ q.msg = r.msg
        /\ q.gseq = r.gseq /\ q.peer_gseq = r.peer_gseq
    BY <1>a DEF Connections
  <2>4. s \in Sockets /\ Shared(s) /\ On(c, s, {"WAIT_IDENTIFY"})
    BY <1>2, HasSocket DEF On
  <2>5. m \in Message
    <3>1. r.connect_seq \in Nat /\ r.gseq \in Nat
      BY <1>a DEF Connections
    <3>2. QED BY <3>1, MessageIs DEF ConnectMsg
  <2>6. Identifies(c, s)
    BY <2>4 DEF Shared, Channel
  <2>7. \A d \in Conns : d[1] # c[1] /\ Holds(d, s) =>
           ~Inherits(d, s) /\ ~ (conn[d].cs = s /\ conn[d].state \in Active \ {"WAIT_CONNECT_MSG"})
    <3>1. \A d \in Conns : d[1] # c[1] => Pair(c, d, s)
      BY <2>4 DEF Shared
    <3>2. QED BY <2>4, <3>1 DEF Pair, On
  <2> HIDE DEF q, m
  <2>8. Only(c) /\ conn'[c] = q
    BY <1>a, <2>1, <2>2, Assigned
  <2>9. /\ chan' \in Socketful /\ \A t \in Sockets \ {s} : chan'[t] = chan[t]
        /\ Left(c, s) /\ Sent(c, s, m)
    BY <1>a, <2>1, <2>4, <2>5, Sends
  <2>10. chan'[s][c[1]] = <<>> /\ chan[s][Peer(c[1])] = <<>>
    BY <2>6, <2>9 DEF Identifies, Left
  <2>11. Sent(c, s, ConnectMsg(conn'[c].connect_seq, conn'[c].gseq))
    BY <2>3, <2>8, <2>9 DEF m
  <2>12. conn'[c].gseq <= global_seq'[c[1]]
    BY <1>a, <1>b, <2>3, <2>8 DEF Given
  <2>13. global_seq' \in [Node -> Nat] /\ \A n \in Node : global_seq[n] <= global_seq'[n]
    BY <1>a, <1>b, Unbounded
  <2>14. QED BY <1>2, <1>b, <2>3, <2>4, <2>7, <2>8, <2>9, <2>10, <2>11, <2>12, <2>13, AskStep
<1>3. QED BY <1>1, <1>2

\* An answer after which c, in another try, sends its connect message again.
LEMMA AgainStep ==
  ASSUME IInv, NEW c \in Conns, NEW tag \in Retries, Reply(c, tag), Only(c),
         conn'[c].state = conn[c].state, conn'[c].cs = conn[c].cs, conn'[c].at = conn[c].at,
         conn'[c].new_cs = conn[c].new_cs, conn'[c].swap = conn[c].swap,
         conn'[c].peer_gseq = conn[c].peer_gseq, conn'[c].msg = conn[c].msg,
         conn'[c].gseq <= global_seq'[c[1]],
         global_seq' \in [Node -> Nat], \A n \in Node : global_seq[n] <= global_seq'[n],
         NEW m, m = ConnectMsg(conn'[c].connect_seq, conn'[c].gseq),
         chan' = ToPeer(Taken(c), c, m),
         UNCHANGED <<policy, conns, broken, failed, faults>>
  PROVE  IInv'
<1> DEFINE s == conn[c].cs
<1>1. /\ s \in Sockets /\ conn[c].state = "WAIT_CONNECT_REPLY" /\ conn[c].at = ""
      /\ chan[s][c[1]] = <<Next_msg(c)>> /\ Tail(chan[s][c[1]]) = <<>>
      /\ chan[s][Peer(c[1])] = <<>> /\ Next_msg(c).tag = tag
      /\ \A d \in Conns : d[1] # c[1] => Answered(c, d, s)
  BY ReplyIs
<1>2. chan[s][c[1]] # <<>> /\ chan[s][c[1]][1].tag = tag
  <2>1. <<Next_msg(c)>> # <<>> /\ <<Next_msg(c)>>[1] = Next_msg(c)
    OBVIOUS
  <2>2. QED BY <1>1, <2>1
<1>3. m \in Message
  <2>1. conn'[c] \in Connections
    BY DEF Only, Table
  <2>2. conn'[c].connect_seq \in Nat /\ conn'[c].gseq \in Nat
    BY <2>1 DEF Connections
  <2>3. QED BY <2>2, MessageIs DEF ConnectMsg
<1>4. /\ chan' \in Socketful /\ \A t \in Sockets \ {s} : chan'[t] = chan[t]
      /\ Took(c, s) /\ Sent(c, s, m)
  BY <1>1, <1>2, <1>3, Answers_message DEF IInv
<1>5. chan'[s][c[1]] = <<>>
  BY <1>1, <1>4 DEF Took
<1>6. \A d \in Conns : d[1] # c[1] /\ Holds(d, s) =>
         ~Inherits(d, s) /\ ~ (conn[d].cs = s /\ conn[d].state \in Active \ {"WAIT_CONNECT_MSG"})
  <2>1. tag \notin Accepted
    BY DEF Retries, Accepted
  <2>2. QED BY <1>1, <1>2, <2>1 DEF Answered, On, Identifies, Active
<1> HIDE DEF s
<1>7. s = conn[c].cs
  BY DEF s
<1>8. QED BY <1>1, <1>2, <1>4, <1>5, <1>6, <1>7, AskStep

LEMMA ResetSessionStep == ASSUME IInv, NEW c \in Conns, reply_reset_session(c) PROVE IInv'
<1>1. /\ Reply(c, "RESETSESSION") /\ conn' = was_session_reset(conn, c)
      /\ chan' = ToPeer(Taken(c), c, ConnectMsg(0, conn[c].gseq))
      /\ UNCHANGED <<policy, conns, global_seq, broken, failed, faults>>
  BY DEF reply_reset_session, Goes_on, Runs
<1>2. conn \in Table /\ Types /\ Given(c)
  BY DEF IInv, Types, Table, GlobalInv
<1>3. Only(c) /\ WasReset(conn'[c], conn[c])
  BY <1>1, <1>2, ResetIs DEF Only
<1>4. conn'[c].gseq <= global_seq'[c[1]]
  BY <1>1, <1>2, <1>3 DEF WasReset, Given
<1>5. global_seq' \in [Node -> Nat] /\ \A n \in Node : global_seq[n] <= global_seq'[n]
  BY <1>1, <1>2, Unbounded
<1>6. /\ conn'[c].state = conn[c].state /\ conn'[c].cs = conn[c].cs /\ conn'[c].at = conn[c].at
      /\ conn'[c].new_cs = conn[c].new_cs /\ conn'[c].swap = conn[c].swap
      /\ conn'[c].peer_gseq = conn[c].peer_gseq /\ conn'[c].msg = conn[c].msg
      /\ ConnectMsg(0, conn[c].gseq) = ConnectMsg(conn'[c].connect_seq, conn'[c].gseq)
  BY <1>3 DEF WasReset
<1>7. "RESETSESSION" \in Retries
  BY DEF Retries
<1>8. QED BY <1>1, <1>3, <1>4, <1>5, <1>6, <1>7, AgainStep

LEMMA RetrySessionStep == ASSUME IInv, NEW c \in Conns, reply_retry_session(c) PROVE IInv'
<1> DEFINE r == conn[c]
           k == Next_msg(c).cseq
           q == [r EXCEPT !.connect_seq = k]
<1>1. Reply(c, "RETRY_SESSION")
  BY DEF reply_retry_session
<1>2. Types /\ Given(c) /\ r \in Connections
  BY DEF IInv, Types, GlobalInv
<1>3. k > r.connect_seq /\ k \in Nat
  <2>1. Answers(Next_msg(c), r.connect_seq) /\ Next_msg(c).tag = "RETRY_SESSION" /\ Next_msg(c) \in Message
    BY <1>1, ReplyIs
  <2>2. QED BY <2>1 DEF Answers, Accepted, Message
<1>4. /\ conn' = [conn EXCEPT ![c] = q]
      /\ chan' = ToPeer(Taken(c), c, ConnectMsg(k, r.gseq))
      /\ UNCHANGED <<policy, conns, global_seq, broken, failed, faults>>
  <2>1. r.connect_seq \in Nat
    BY <1>2 DEF Connections
  <2>2. ~ (k <= r.connect_seq)
    BY <1>3, <2>1
  <2>3. QED BY <2>2 DEF reply_retry_session, Goes_on, Runs
<1> HIDE DEF k
<1>5. /\ q \in Connections
      /\ q.state = r.state /\ q.cs = r.cs /\ q.at = r.at /\ q.new_cs = r.new_cs
      /\ q.swap = r.swap /\ q.peer_gseq = r.peer_gseq /\ q.msg = r.msg
      /\ q.gseq = r.gseq /\ q.connect_seq = k
  BY <1>2, <1>3 DEF Connections
<1> HIDE DEF q
<1>6. Only(c) /\ conn'[c] = q
  BY <1>2, <1>4, <1>5, Assigned
<1>7. conn'[c].gseq <= global_seq'[c[1]]
  BY <1>2, <1>4, <1>5, <1>6 DEF Given
<1>8. global_seq' \in [Node -> Nat] /\ \A n \in Node : global_seq[n] <= global_seq'[n]
  BY <1>2, <1>4, Unbounded
<1>9. "RETRY_SESSION" \in Retries
  BY DEF Retries
<1>10. QED BY <1>1, <1>4, <1>5, <1>6, <1>7, <1>8, <1>9, AgainStep

LEMMA RetryGlobalStep == ASSUME IInv, NEW c \in Conns, reply_retry_global(c) PROVE IInv'
<1> DEFINE r == conn[c]
           n == c[1]
           g == Larger(global_seq[n], Next_msg(c).gseq) + 1
           q == [r EXCEPT !.gseq = g]
<1>1. /\ Reply(c, "RETRY_GLOBAL") /\ conn' = [conn EXCEPT ![c] = q]
      /\ global_seq' = [global_seq EXCEPT ![n] = g]
      /\ chan' = ToPeer(Taken(c), c, ConnectMsg(r.connect_seq, g))
      /\ UNCHANGED <<policy, conns, broken, failed, faults>>
  BY DEF reply_retry_global, Goes_on, Runs
<1>2. Types /\ r \in Connections /\ n \in Node /\ global_seq \in [Node -> Nat]
  BY Nodes DEF IInv, Types
<1>3. g \in Nat /\ global_seq[n] <= g /\ global_seq[n] \in Nat
  <2>1. Next_msg(c) \in Message
    BY <1>1, ReplyIs
  <2>2. Next_msg(c).gseq \in Nat /\ global_seq[n] \in Nat
    BY <1>2, <2>1 DEF Message
  <2>3. QED BY <2>2 DEF Larger
<1> HIDE DEF g
<1>5. /\ q \in Connections
      /\ q.state = r.state /\ q.cs = r.cs /\ q.at = r.at /\ q.new_cs = r.new_cs
      /\ q.swap = r.swap /\ q.peer_gseq = r.peer_gseq /\ q.msg = r.msg
      /\ q.gseq = g /\ q.connect_seq = r.connect_seq
  BY <1>2, <1>3 DEF Connections
<1> HIDE DEF q
<1>6. Only(c) /\ conn'[c] = q
  BY <1>1, <1>2, <1>5, Assigned
<1>7. global_seq' \in [Node -> Nat] /\ \A m \in Node : global_seq[m] <= global_seq'[m]
  <2>1. global_seq' \in [Node -> Nat]
    BY <1>1, <1>2, <1>3
  <2>2. ASSUME NEW m \in Node PROVE global_seq[m] <= global_seq'[m]
    <3>1. global_seq[m] \in Nat
      BY <1>2
    <3>2. CASE m = n
      BY <1>1, <1>2, <1>3, <3>2
    <3>3. CASE m # n
      BY <1>1, <1>2, <3>1, <3>3
    <3>4. QED BY <3>2, <3>3
  <2>3. QED BY <2>1, <2>2
<1>8. conn'[c].gseq <= global_seq'[n]
  BY <1>1, <1>2, <1>3, <1>5, <1>6
<1>9. "RETRY_GLOBAL" \in Retries
  BY DEF Retries
<1>10. QED BY <1>1, <1>5, <1>6, <1>7, <1>8, <1>9, AgainStep


\* The other end of the socket of one who has a connect message, or inherits the
\* socket: at most it waits for the answer, and nothing is on its way.
LEMMA OtherEnd ==
  ASSUME NEW c \in Conns, NEW d \in Conns, NEW s \in Sockets, Shared(s), c[1] # d[1],
         On(c, s, {"CONNECT_MSG_AUTH"}) \/ Inherits(c, s)
  PROVE  /\ ~Accepts(d, s) /\ ~On(d, s, {"WAIT_SEQ", "OPEN"}) /\ ~On(d, s, {"WAIT_IDENTIFY"})
         /\ On(d, s, {"WAIT_CONNECT_REPLY"}) => Identifies(d, s) /\ Answered(d, c, s)
<1>1. Pair(c, d, s) /\ Pair(d, c, s)
  BY DEF Shared
<1>2. Accepts(c, s)
  BY DEF Accepts, On, HalfAccepted
<1>3. On(c, s, {"CONNECT_MSG_AUTH"}) => On(c, s, Active \ {"WAIT_CONNECT_MSG"})
  BY DEF On, Active
<1>4. QED BY <1>1, <1>2, <1>3 DEF Pair, Answered

\* What d, that waits for an answer to its message, has when m is sent.
LEMMA OneSent ==
  ASSUME NEW c \in Conns, NEW d \in Conns, NEW s \in Sockets, NEW m, c[1] # d[1], Holds(d, s),
         Left(c, s), Sent(c, s, m)
  PROVE  /\ d[1] = Peer(c[1]) /\ c[1] = Peer(d[1])
         /\ chan'[s][c[1]] = chan[s][c[1]]
         /\ chan'[s][d[1]] = Append(chan[s][d[1]], m)
         /\ chan[s][d[1]] = <<>> =>
              /\ chan'[s][d[1]] # <<>> /\ Len(chan'[s][d[1]]) <= 1
              /\ chan'[s][d[1]][1] = m
              /\ \A i \in DOMAIN chan'[s][d[1]] : chan'[s][d[1]][i] = m
<1>1. d[1] = Peer(c[1]) /\ c[1] = Peer(d[1])
  BY Nodes
<1>2. EndOpen(s, Peer(c[1]))
  BY <1>1 DEF EndOpen, ConnsOf
<1>3. chan'[s][d[1]] = Append(chan[s][d[1]], m)
  BY <1>1, <1>2 DEF Sent
<1>4. /\ Append(<<>>, m) = <<m>> /\ <<m>> # <<>> /\ Len(<<m>>) <= 1 /\ <<m>>[1] = m
      /\ \A i \in DOMAIN <<m>> : <<m>>[i] = m
  OBVIOUS
<1>5. QED BY <1>1, <1>3, <1>4 DEF Left

\* c sends the connect message back, with m.
LEMMA Refuses ==
  ASSUME NEW c \in Conns, NEW s \in Sockets, Shared(s), Only(c),
         On(c, s, {"CONNECT_MSG_AUTH"}) \/ Inherits(c, s),
         conn'[c].cs = s, conn'[c].state = "WAIT_CONNECT_MSG",
         NEW m, Left(c, s), Sent(c, s, m), m.tag \in Retries,
         \A d \in Conns : d[1] # c[1] /\ On(d, s, {"WAIT_CONNECT_REPLY"}) =>
           (m.tag = "RETRY_SESSION" => m.cseq > conn[d].connect_seq)
  PROVE  /\ Channel(c, s)'
         /\ \A d \in Conns : d[1] # c[1] /\ Holds(d, s) =>
              Channel(d, s)' /\ Pair(c, d, s)' /\ Pair(d, c, s)'
<1>1. /\ ~On(c, s, {"WAIT_IDENTIFY"})' /\ ~On(c, s, {"WAIT_CONNECT_REPLY"})'
      /\ ~On(c, s, {"CONNECT_MSG_AUTH"})' /\ ~On(c, s, {"WAIT_SEQ"})' /\ ~On(c, s, {"OPEN"})'
      /\ ~On(c, s, {"WAIT_SEQ", "OPEN"})' /\ ~Inherits(c, s)'
      /\ ~On(c, s, Active \ {"WAIT_CONNECT_MSG"})'
      /\ ~On(c, s, {"WAIT_IDENTIFY", "WAIT_CONNECT_REPLY"})'
  BY DEF On, Inherits, Active
<1>2. Channel(c, s)'
  <2>1. Accepts(c, s) /\ Channel(c, s)
    BY DEF Accepts, On, HalfAccepted, Shared
  <2>2. chan'[s][c[1]] = chan[s][c[1]]
    BY DEF Left
  <2>3. QED BY <1>1, <2>1, <2>2 DEF Channel
<1>3. ASSUME NEW d \in Conns, d[1] # c[1], Holds(d, s)
      PROVE  Channel(d, s)' /\ Pair(c, d, s)' /\ Pair(d, c, s)'
  <2>1. /\ ~Accepts(d, s) /\ ~On(d, s, {"WAIT_SEQ", "OPEN"}) /\ ~On(d, s, {"WAIT_IDENTIFY"})
        /\ On(d, s, {"WAIT_CONNECT_REPLY"}) => Identifies(d, s) /\ Answered(d, c, s)
    BY <1>3, OtherEnd
  <2>2. /\ conn'[d].cs = conn[d].cs /\ conn'[d].state = conn[d].state
        /\ conn'[d].connect_seq = conn[d].connect_seq /\ conn'[d].lossy = conn[d].lossy
        /\ Inherits(d, s)' <=> Inherits(d, s)
    <3>1. Alike(conn'[d], conn[d])
      BY <1>3 DEF Only
    <3>2. QED BY <3>1, AlikeOn
  <2>3. /\ ~Inherits(d, s)' /\ ~Accepts(d, s)' /\ ~On(d, s, {"WAIT_SEQ", "OPEN"})'
        /\ ~On(d, s, {"WAIT_SEQ"})' /\ ~On(d, s, {"OPEN"})' /\ ~On(d, s, {"WAIT_IDENTIFY"})'
        /\ ~On(d, s, {"CONNECT_MSG_AUTH"})'
        /\ On(d, s, {"WAIT_CONNECT_REPLY"})' => On(d, s, {"WAIT_CONNECT_REPLY"})
    BY <2>1, <2>2 DEF Accepts, On, HalfAccepted
  <2>4. On(d, s, {"WAIT_CONNECT_REPLY"}) =>
          /\ chan'[s][d[1]] # <<>> /\ Len(chan'[s][d[1]]) <= 1
          /\ \A i \in DOMAIN chan'[s][d[1]] : chan'[s][d[1]][i] = m
          /\ chan'[s][Peer(d[1])] = <<>>
    BY <1>3, <2>1, OneSent DEF Identifies
  <2>5. On(d, s, {"WAIT_CONNECT_REPLY"}) => Waits(d, s)'
    <3>1. Len(<<>>) = 0 /\ DOMAIN <<>> = {}
      OBVIOUS
    <3>2. On(d, s, {"WAIT_CONNECT_REPLY"}) => Answers(m, conn'[d].connect_seq)
      BY <1>3, <2>2 DEF Answers
    <3>3. QED BY <2>4, <3>1, <3>2 DEF Waits
  <2>6. Channel(d, s)'
    BY <2>3, <2>5 DEF Channel
  <2>7. Pair(c, d, s)'
    BY <1>1, <2>3 DEF Pair
  <2>8. On(d, s, {"WAIT_CONNECT_REPLY"}) => Answered(d, c, s)'
    BY <1>1, <2>4 DEF Answered
  <2>9. Pair(d, c, s)'
    BY <1>1, <2>3, <2>8 DEF Pair
  <2>10. QED BY <2>6, <2>7, <2>9
<1>4. QED BY <1>2, <1>3

\* c accepts the attempt.
LEMMA Agrees ==
  ASSUME NEW c \in Conns, NEW s \in Sockets, Shared(s), Only(c),
         On(c, s, {"CONNECT_MSG_AUTH"}), conn[c].at = "accepted", policy' = policy,
         conn'[c].cs = s, conn'[c].state \in {"WAIT_SEQ", "OPEN"},
         conn'[c].connect_seq = conn[c].connect_seq, conn'[c].lossy = conn[c].lossy,
         Left(c, s), Sent(c, s, conn[c].msg)
  PROVE  /\ Channel(c, s)'
         /\ \A d \in Conns : d[1] # c[1] /\ Holds(d, s) =>
              Channel(d, s)' /\ Pair(c, d, s)' /\ Pair(d, c, s)'
<1> DEFINE m == conn[c].msg
<1>1. /\ ~On(c, s, {"WAIT_IDENTIFY"})' /\ ~On(c, s, {"WAIT_CONNECT_REPLY"})'
      /\ ~On(c, s, {"CONNECT_MSG_AUTH"})' /\ ~On(c, s, {"WAIT_CONNECT_MSG"})'
      /\ ~Inherits(c, s)' /\ ~Accepts(c, s)'
      /\ ~On(c, s, {"WAIT_IDENTIFY", "WAIT_CONNECT_REPLY"})'
  BY DEF On, Inherits, Accepts, HalfAccepted
<1>2. m.tag \in Accepted /\ conn[c].connect_seq = m.cseq /\ conn[c].lossy = Lossy(c)
  BY DEF Shared, Channel, Decides
<1>3. Channel(c, s)'
  BY <1>1 DEF Channel
<1>4. ASSUME NEW d \in Conns, d[1] # c[1], Holds(d, s)
      PROVE  Channel(d, s)' /\ Pair(c, d, s)' /\ Pair(d, c, s)'
  <2>1. /\ ~Accepts(d, s) /\ ~On(d, s, {"WAIT_SEQ", "OPEN"}) /\ ~On(d, s, {"WAIT_IDENTIFY"})
        /\ On(d, s, {"WAIT_CONNECT_REPLY"}) => Identifies(d, s) /\ Answered(d, c, s)
    BY <1>4, OtherEnd
  <2>2. /\ conn'[d].cs = conn[d].cs /\ conn'[d].state = conn[d].state
        /\ conn'[d].connect_seq = conn[d].connect_seq /\ conn'[d].lossy = conn[d].lossy
        /\ Inherits(d, s)' <=> Inherits(d, s)
    <3>1. Alike(conn'[d], conn[d])
      BY <1>4 DEF Only
    <3>2. QED BY <3>1, AlikeOn
  <2>3. /\ ~Inherits(d, s)' /\ ~Accepts(d, s)' /\ ~On(d, s, {"WAIT_SEQ", "OPEN"})'
        /\ ~On(d, s, {"WAIT_SEQ"})' /\ ~On(d, s, {"OPEN"})' /\ ~On(d, s, {"WAIT_IDENTIFY"})'
        /\ ~On(d, s, {"CONNECT_MSG_AUTH"})'
        /\ On(d, s, {"WAIT_CONNECT_REPLY"})' => On(d, s, {"WAIT_CONNECT_REPLY"})
    BY <2>1, <2>2 DEF Accepts, On, HalfAccepted
  <2>4. On(d, s, {"WAIT_CONNECT_REPLY"}) =>
          /\ chan'[s][d[1]] # <<>> /\ Len(chan'[s][d[1]]) <= 1 /\ chan'[s][d[1]][1] = m
          /\ \A i \in DOMAIN chan'[s][d[1]] : chan'[s][d[1]][i] = m
          /\ chan'[s][Peer(d[1])] = <<>>
    BY <1>4, <2>1, OneSent DEF Identifies
  <2>5. On(d, s, {"WAIT_CONNECT_REPLY"}) => m.cseq = conn[d].connect_seq + 1
    BY <2>1 DEF Answered
  <2>6. On(d, s, {"WAIT_CONNECT_REPLY"}) => Waits(d, s)'
    <3>1. Len(<<>>) = 0 /\ DOMAIN <<>> = {}
      OBVIOUS
    <3>2. On(d, s, {"WAIT_CONNECT_REPLY"}) => Answers(m, conn'[d].connect_seq)
      BY <1>2, <2>2, <2>5 DEF Answers
    <3> HIDE DEF m
    <3>3. QED BY <2>4, <3>1, <3>2 DEF Waits
  <2>7. Channel(d, s)'
    BY <2>3, <2>6 DEF Channel
  <2>8. Pair(c, d, s)'
    BY <1>1, <2>3 DEF Pair
  <2>9. On(d, s, {"WAIT_CONNECT_REPLY"}) => Answered(d, c, s)'
    <3>1. On(d, s, {"WAIT_CONNECT_REPLY"}) =>
            conn'[c].connect_seq = conn'[d].connect_seq + 1 /\ conn'[c].lossy = Lossy(c)'
      BY <1>2, <2>2, <2>5 DEF Lossy
    <3> HIDE DEF m
    <3>2. QED BY <1>1, <1>2, <2>4, <3>1 DEF Answered
  <2>10. Pair(d, c, s)'
    BY <1>1, <2>3, <2>9 DEF Pair
  <2>11. QED BY <2>7, <2>8, <2>10
<1>5. QED BY <1>3, <1>4


\* A connection between its connect message and the answer.
LEMMA AuthIs ==
  ASSUME IInv, NEW c \in Conns, conn[c].state = "CONNECT_MSG_AUTH"
  PROVE  LET s == conn[c].cs IN
         /\ s \in Sockets /\ Shared(s) /\ Holds(c, s) /\ On(c, s, {"CONNECT_MSG_AUTH"})
         /\ conn[c].swap = "" /\ conn[c].new_cs = 0 /\ Decides(c)
<1>1. /\ conn[c].cs \in Sockets /\ Shared(conn[c].cs) /\ Holds(c, conn[c].cs)
      /\ conn[c].swap = "" /\ conn[c].new_cs = 0
  BY HasSocket DEF HalfAccepted
<1>2. On(c, conn[c].cs, {"CONNECT_MSG_AUTH"})
  BY DEF On
<1>3. Decides(c)
  BY <1>1, <1>2 DEF Shared, Channel
<1>4. QED BY <1>1, <1>2, <1>3

\* The live connection that was looked up is the registered one.
LEMMA LiveIs ==
  ASSUME IInv, NEW c \in Conns, Deciding(c), Live(c)
  PROVE  LET e == conn[c].existing IN
         /\ e \in Conns /\ e # c /\ e[1] = c[1] /\ conns[c[1]] = e
         /\ Existing(c) = conn[e] /\ conn[e] \in Connections
         /\ conn[e].state \notin {"CLOSED", "FREE"}
<1>1. conn[c] \in Connections /\ Registers(c) /\ Entry(c[1])
  BY Nodes DEF IInv, Types, RegistryInv
<1>2. conn[c].existing \in ConnPtr /\ conn[c].existing \notin {None, c}
  BY <1>1 DEF Connections, Live, NoExisting
<1>3. conn[c].existing \in Conns /\ Existing(c) = conn[conn[c].existing]
  BY <1>2 DEF ConnPtr, Existing
<1>4. conn[conn[c].existing].state # "CLOSED"
  BY <1>3 DEF Live
<1>5. conns[c[1]] = conn[c].existing /\ conn[c].existing[1] = c[1]
  BY <1>1, <1>2, <1>4 DEF Registers, Deciding
<1>6. conn[conn[c].existing].state # "FREE"
  BY <1>1, <1>2, <1>5 DEF Entry
<1>7. QED BY <1>2, <1>3, <1>4, <1>5, <1>6 DEF IInv, Types

\* The handler, at the end of which c waits for a connect message.
LEMMA RefuseStep ==
  ASSUME IInv, NEW c \in Conns, NEW s \in Sockets, conn[c].cs = s,
         On(c, s, {"CONNECT_MSG_AUTH"}) \/ Inherits(c, s), Only(c), conn[c].new_cs = 0,
         conn'[c].state = "WAIT_CONNECT_MSG", conn'[c].cs = s, conn'[c].new_cs = 0,
         conn'[c].swap = "", conn'[c].at = "", conn'[c].replacing = conn[c].replacing,
         conn'[c].once_ready = conn[c].once_ready, conn'[c].queued = conn[c].queued,
         conn'[c].gseq = conn[c].gseq, conn'[c].peer_gseq = conn[c].peer_gseq,
         conn'[c].msg \in {conn[c].msg, Free.msg},
         conn[c].at \in {"", "lookup"},
         NEW m \in Message, chan' = ToPeer(chan, c, m), m.tag \in Retries,
         \A d \in Conns : d[1] # c[1] /\ On(d, s, {"WAIT_CONNECT_REPLY"}) =>
           (m.tag = "RETRY_SESSION" => m.cseq > conn[d].connect_seq),
         UNCHANGED <<policy, conns, global_seq, broken, failed, faults>>
  PROVE  IInv'
<1> DEFINE r == conn[c]
           q == conn'[c]
<1>a. Types /\ GlobalInv /\ Shared(s)
  BY DEF IInv, SharedInv
<1>b. Place(c) /\ Socket(c) /\ Registers(c) /\ Given(c)
  BY DEF IInv, PlaceInv, SocketInv, RegistryInv, GlobalInv
<1>c. conns' = conns /\ policy' = policy /\ global_seq' = global_seq
  OBVIOUS
<1>d. s # 0 /\ r.state \in {"CONNECT_MSG_AUTH", "NONE"}
  BY SocketsAre DEF On, Inherits
<1>1. Place(c)'
  BY <1>b, <1>c DEF Place, Connecting
<1>2. Socket(c)'
  BY <1>d DEF Socket, HalfAccepted
<1>3. Registers(c)'
  <2>1. Claims(q) => Claims(r)
    BY DEF Claims, Registered, Connecting
  <2>2. Claims(r) => conns[c[1]] = c
    BY <1>b DEF Registers
  <2>3. conns[c[1]] = c => r.replacing
    <3>1. CASE r.state = "NONE"
      BY <1>b, <3>1 DEF Socket
    <3>2. CASE r.state = "CONNECT_MSG_AUTH"
      BY <1>b, <3>2 DEF Registers, HalfAccepted
    <3>3. QED BY <1>d, <3>1, <3>2
  <2>4. QED BY <1>c, <2>1, <2>2, <2>3 DEF Registers
<1>4. Given(c)'
  <2>1. Free.msg.tag = "NONE"
    BY DEF Free
  <2>2. QED BY <2>1, <1>b, <1>c DEF Given, Accepted
<1>5. /\ chan' \in Socketful /\ \A t \in Sockets \ {s} : chan'[t] = chan[t]
      /\ Left(c, s) /\ Sent(c, s, m)
  BY <1>a, Sends
<1>6. /\ Channel(c, s)'
      /\ \A d \in Conns : d[1] # c[1] /\ Holds(d, s) =>
           Channel(d, s)' /\ Pair(c, d, s)' /\ Pair(d, c, s)'
  BY <1>a, <1>5, Refuses
<1>7. global_seq' \in [Node -> Nat] /\ \A n \in Node : global_seq[n] <= global_seq'[n]
  BY <1>a, <1>c, Unbounded
<1>8. \A n \in Node : Way(s, n)'
  <2>1. GivenTo(global_seq', Peer(c[1]), m)
    BY DEF GivenTo, Retries, Accepted
  <2>2. QED BY <1>a, <1>5, <1>7, <2>1, WaySent
<1>9. \A t \in Sockets \ {s} : Keeps(c, t)
  BY SocketsAre DEF Keeps, Holds, Inherits
<1>10. Holds(c, s) /\ q.state # "FREE" /\ r.state # "CLOSED"
  BY <1>d DEF Holds
<1>11. QED
  <2> HIDE DEF r, q
  <2>1. q.state # "FREE" /\ r.state # "CLOSED" /\ Holds(c, s)
    BY <1>10
  <2> QED BY <1>1, <1>2, <1>3, <1>4, <1>5, <1>6, <1>7, <1>8, <1>9, <2>1, SocketStep DEF r, q

LEMMA ReplyAcceptStep ==
  ASSUME IInv, NEW c \in Conns, Deciding(c), NEW m \in Message, m.tag \in Retries,
         m.tag = "RETRY_SESSION" => m.cseq > cseq(c), reply_accept(c, m)
  PROVE  IInv'
<1> DEFINE r == conn[c]
           s == r.cs
           q == [r EXCEPT !.state = "WAIT_CONNECT_MSG", !.at = "", !.existing = None,
                          !.msg = Free.msg]
<1>1. /\ conn' = [conn EXCEPT ![c] = q] /\ chan' = ToPeer(chan, c, m)
      /\ UNCHANGED <<policy, conns, global_seq, broken, failed, faults>>
  BY DEF reply_accept, Goes_on, Runs
<1>2. Types /\ r \in Connections
  BY DEF IInv, Types
<1>3. r.state = "CONNECT_MSG_AUTH" /\ r.at = "lookup"
  BY DEF Deciding
<1>4. /\ s \in Sockets /\ Shared(s) /\ On(c, s, {"CONNECT_MSG_AUTH"})
      /\ r.swap = "" /\ r.new_cs = 0
  BY <1>3, AuthIs
<1>5. q \in Connections
  <2>1. "WAIT_CONNECT_MSG" \in States /\ "" \in Places /\ None \in ConnPtr /\ Free.msg \in Message
    BY DEF States, HalfAccepted, Places, ConnPtr, Free, Message
  <2>2. QED BY <1>2, <2>1 DEF Connections
<1>6. /\ q.state = "WAIT_CONNECT_MSG" /\ q.cs = s /\ q.new_cs = r.new_cs /\ q.swap = r.swap
      /\ q.at = "" /\ q.replacing = r.replacing /\ q.once_ready = r.once_ready
      /\ q.queued = r.queued /\ q.gseq = r.gseq /\ q.peer_gseq = r.peer_gseq /\ q.msg = Free.msg
  BY <1>2 DEF Connections
<1> HIDE DEF q
<1>7. Only(c) /\ conn'[c] = q
  BY <1>1, <1>2, <1>5, Assigned
<1>8. \A d \in Conns : d[1] # c[1] /\ On(d, s, {"WAIT_CONNECT_REPLY"}) =>
           (m.tag = "RETRY_SESSION" => m.cseq > conn[d].connect_seq)
  <2>1. ASSUME NEW d \in Conns, d[1] # c[1], On(d, s, {"WAIT_CONNECT_REPLY"})
        PROVE  conn[d].connect_seq = cseq(c)
    <3>1. Answered(d, c, s)
      BY <1>4, <2>1, OtherEnd
    <3>2. QED BY <1>3, <1>4, <3>1 DEF Answered, cseq
  <2>2. QED BY <2>1
<1>9. /\ conn'[c].state = "WAIT_CONNECT_MSG" /\ conn'[c].cs = s /\ conn'[c].new_cs = 0
      /\ conn'[c].swap = "" /\ conn'[c].at = "" /\ conn'[c].replacing = conn[c].replacing
      /\ conn'[c].once_ready = conn[c].once_ready /\ conn'[c].queued = conn[c].queued
      /\ conn'[c].gseq = conn[c].gseq /\ conn'[c].peer_gseq = conn[c].peer_gseq
      /\ conn'[c].msg = Free.msg
  BY <1>4, <1>6, <1>7
<1>10. /\ conn[c].cs = s /\ conn[c].new_cs = 0 /\ conn[c].at = "lookup"
       /\ On(c, s, {"CONNECT_MSG_AUTH"}) /\ s \in Sockets
  BY <1>3, <1>4
<1>11. Only(c) /\ chan' = ToPeer(chan, c, m)
  BY <1>1, <1>7
<1>12. UNCHANGED <<policy, conns, global_seq, broken, failed, faults>>
  BY <1>1
<1> HIDE DEF r, s
<1>13. QED BY <1>8, <1>9, <1>10, <1>11, <1>12, RefuseStep

LEMMA RetryGlobalAnswerStep == ASSUME IInv, NEW c \in Conns, retry_global(c) PROVE IInv'
<1>1. Deciding(c) /\ Live(c) /\ reply_accept(c, Msg("RETRY_GLOBAL", 0, Existing(c).peer_gseq))
  BY DEF retry_global
<1>2. Existing(c).peer_gseq \in Nat
  <2>1. Existing(c) \in Connections
    BY <1>1, LiveIs
  <2>2. QED BY <2>1 DEF Connections
<1> DEFINE m == Msg("RETRY_GLOBAL", 0, Existing(c).peer_gseq)
<1>3. m \in Message /\ m.tag \in Retries /\ m.tag # "RETRY_SESSION"
  BY <1>2, MessageIs DEF Retries
<1> HIDE DEF m
<1>4. reply_accept(c, m)
  BY <1>1 DEF m
<1>5. QED BY <1>1, <1>3, <1>4, ReplyAcceptStep

LEMMA RetrySessionAnswerStep == ASSUME IInv, NEW c \in Conns, retry_session(c) PROVE IInv'
<1> DEFINE k == Existing(c).connect_seq
           m == Msg("RETRY_SESSION", k + 1, 0)
<1>1. Deciding(c) /\ RetrySession(c) /\ reply_accept(c, m)
  BY DEF retry_session
<1>2. Live(c) /\ cseq(c) <= k
  <2>1. Ordinary(c) /\ (cseq(c) < k \/ cseq(c) = k)
    BY <1>1 DEF RetrySession, Same
  <2>2. Live(c)
    BY <2>1 DEF Ordinary, Lossless, Current
  <2>3. Existing(c) \in Connections /\ conn[c] \in Connections
    BY <1>1, <2>2, LiveIs DEF IInv, Types
  <2>4. k \in Nat /\ cseq(c) \in Nat
    BY <2>3 DEF Connections, Message, cseq
  <2>5. QED BY <2>1, <2>2, <2>4
<1>3. k \in Nat /\ cseq(c) \in Nat
  <2>1. Existing(c) \in Connections /\ conn[c] \in Connections
    BY <1>1, <1>2, LiveIs DEF IInv, Types
  <2>2. QED BY <2>1 DEF Connections, Message, cseq
<1> HIDE DEF k
<1>4. m \in Message /\ m.tag = "RETRY_SESSION" /\ m.cseq = k + 1
  <2>1. k + 1 \in Nat
    BY <1>3
  <2>2. QED BY <2>1, MessageIs
<1> HIDE DEF m
<1>5. m.tag \in Retries /\ m.cseq > cseq(c)
  BY <1>2, <1>3, <1>4 DEF Retries
<1>6. QED BY <1>1, <1>4, <1>5, ReplyAcceptStep

LEMMA WaitAnswerStep == ASSUME IInv, NEW c \in Conns, wait(c) PROVE IInv'
<1> DEFINE m == Msg("WAIT", 0, 0)
<1>1. Deciding(c) /\ reply_accept(c, m)
  BY DEF wait
<1>2. m \in Message /\ m.tag \in Retries /\ m.tag # "RETRY_SESSION"
  BY MessageIs DEF Retries
<1> HIDE DEF m
<1>3. QED BY <1>1, <1>2, ReplyAcceptStep

LEMMA ResetSessionAnswerStep == ASSUME IInv, NEW c \in Conns, reset_session(c) PROVE IInv'
<1> DEFINE m == Msg("RESETSESSION", 0, 0)
<1>1. Deciding(c) /\ reply_accept(c, m)
  BY DEF reset_session
<1>2. m \in Message /\ m.tag \in Retries /\ m.tag # "RETRY_SESSION"
  BY MessageIs DEF Retries
<1> HIDE DEF m
<1>3. QED BY <1>1, <1>2, ReplyAcceptStep

LEMMA TransferStep == ASSUME IInv, NEW c \in Conns, transfer(c) PROVE IInv'
<1> DEFINE r == conn[c]
           s == r.cs
<1>a. /\ Types /\ Place(c) /\ Socket(c) /\ Registers(c) /\ Given(c) /\ r \in Connections
  BY DEF IInv, Types, PlaceInv, SocketInv, RegistryInv, GlobalInv
<1>b. r.swap = "transfer" /\ r.at = "" /\ r.new_cs = 0 /\ r.state \in {"NONE", "CLOSED"}
  <2>1. r.swap = "transfer"
    BY DEF transfer
  <2>2. QED BY <1>a, <2>1 DEF Socket
<1>c. faults \in Nat
  BY <1>a DEF Types
<1>1. CASE r.state = "CLOSED"
  <2> DEFINE q == [r EXCEPT !.swap = ""]
  <2>1. /\ conn' = [conn EXCEPT ![c] = q]
        /\ UNCHANGED <<policy, conns, global_seq, chan, broken, failed, faults>>
    BY <1>1 DEF transfer, Goes_on, Runs
  <2>2. q \in Connections
    BY <1>a DEF Connections, Swaps
  <2>3. /\ q.state = r.state /\ q.cs = r.cs /\ q.new_cs = r.new_cs /\ q.swap = ""
        /\ q.at = r.at /\ q.msg = r.msg
        /\ q.existing = r.existing /\ q.replacing = r.replacing /\ q.once_ready = r.once_ready
        /\ q.queued = r.queued /\ q.gseq = r.gseq /\ q.peer_gseq = r.peer_gseq
    BY <1>a DEF Connections
  <2> HIDE DEF q
  <2>4. Only(c) /\ conn'[c] = q
    BY <1>a, <2>1, <2>2, Assigned
  <2>b. policy' = policy /\ conns' = conns /\ global_seq' = global_seq
    BY <2>1
  <2>5. Place(c)'
    BY <1>a, <1>1, <2>b, <2>3, <2>4 DEF Place, Connecting
  <2>6. Socket(c)'
    BY <1>a, <1>b, <1>1, <2>3, <2>4 DEF Socket, HalfAccepted
  <2>7. Registers(c)'
    <3>1. Claims(q) => Claims(r)
      BY <2>3 DEF Claims
    <3>2. QED BY <1>a, <1>b, <1>1, <2>b, <2>3, <2>4, <3>1 DEF Registers, HalfAccepted
  <2>8. Given(c)'
    BY <1>a, <2>b, <2>3, <2>4 DEF Given
  <2>9. \A t \in Sockets : Keeps(c, t)
    BY <1>1, <1>b, <2>3, <2>4, FadedKeeps DEF Active
  <2>10. QED BY <1>1, <1>c, <2>1, <2>3, <2>4, <2>5, <2>6, <2>7, <2>8, <2>9, QuietStep
<1>2. CASE r.state = "NONE"
  <2> DEFINE q == [r EXCEPT !.state = "WAIT_CONNECT_MSG", !.swap = ""]
             m == Msg("RETRY_GLOBAL", 0, r.peer_gseq)
  <2>1. /\ conn' = [conn EXCEPT ![c] = q] /\ chan' = ToPeer(chan, c, m)
        /\ UNCHANGED <<policy, conns, global_seq, broken, failed, faults>>
    BY <1>2, <1>a DEF transfer, Goes_on, Runs, Types
  <2>2. q \in Connections
    <3>1. "WAIT_CONNECT_MSG" \in States /\ "" \in Swaps
      BY DEF States, HalfAccepted, Swaps
    <3>2. QED BY <1>a, <3>1 DEF Connections
  <2>3. /\ q.state = "WAIT_CONNECT_MSG" /\ q.cs = s /\ q.new_cs = r.new_cs /\ q.swap = ""
        /\ q.at = r.at /\ q.replacing = r.replacing /\ q.once_ready = r.once_ready
        /\ q.queued = r.queued /\ q.gseq = r.gseq /\ q.peer_gseq = r.peer_gseq /\ q.msg = r.msg
    BY <1>a DEF Connections
  <2>4. s \in Sockets /\ Inherits(c, s)
    <3>1. s \in Ends /\ s # 0
      BY <1>a, <1>b, <1>2 DEF Connections, Socket
    <3>2. QED BY <1>b, <1>2, <3>1 DEF Ends, Inherits
  <2>5. m \in Message /\ m.tag \in Retries /\ m.tag # "RETRY_SESSION"
    <3>1. r.peer_gseq \in Nat
      BY <1>a DEF Connections
    <3>2. QED BY <3>1, MessageIs DEF Retries
  <2> HIDE DEF q, m
  <2>6. Only(c) /\ conn'[c] = q
    BY <1>a, <2>1, <2>2, Assigned
  <2>7. /\ conn'[c].state = "WAIT_CONNECT_MSG" /\ conn'[c].cs = s /\ conn'[c].new_cs = 0
        /\ conn'[c].swap = "" /\ conn'[c].at = "" /\ conn'[c].replacing = conn[c].replacing
        /\ conn'[c].once_ready = conn[c].once_ready /\ conn'[c].queued = conn[c].queued
        /\ conn'[c].gseq = conn[c].gseq /\ conn'[c].peer_gseq = conn[c].peer_gseq
        /\ conn'[c].msg = conn[c].msg
    BY <1>b, <2>3, <2>6
  <2>8. conn[c].cs = s /\ conn[c].new_cs = 0 /\ conn[c].at = ""
    BY <1>b
  <2>9. UNCHANGED <<policy, conns, global_seq, broken, failed, faults>>
    BY <2>1
  <2> HIDE DEF r, s
  <2>10. QED BY <2>1, <2>4, <2>5, <2>6, <2>7, <2>8, <2>9, RefuseStep
<1>3. QED BY <1>b, <1>1, <1>2


\* A handler at the end of which c has opened, or waits for the peer's in_seq.
LEMMA OpensStep ==
  ASSUME IInv, NEW c \in Conns, NEW s \in Sockets, conn[c].cs = s, conn[c].swap = "",
         conn[c].new_cs = 0, conn[c].state \notin {"CLOSED", "FREE"}, Claims(conn[c]), Only(c),
         conn'[c].state \in {"WAIT_SEQ", "OPEN"}, conn'[c].cs = s, conn'[c].new_cs = 0,
         conn'[c].swap = "", conn'[c].at = "", Given(c)', Channel(c, s)',
         \A d \in Conns : d[1] # c[1] /\ Holds(d, s) =>
           Channel(d, s)' /\ Pair(c, d, s)' /\ Pair(d, c, s)',
         chan' \in Socketful, \A t \in Sockets \ {s} : chan'[t] = chan[t],
         \A n \in Node : Way(s, n)',
         UNCHANGED <<policy, conns, global_seq, broken, failed, faults>>
  PROVE  IInv'
<1>a. Types /\ Registers(c)
  BY DEF IInv, RegistryInv
<1>b. conns' = conns
  OBVIOUS
<1>1. Place(c)'
  BY DEF Place, Connecting
<1>2. Socket(c)'
  BY SocketsAre DEF Socket, HalfAccepted
<1>3. Registers(c)'
  BY <1>a, <1>b DEF Registers, HalfAccepted
<1>4. \A t \in Sockets \ {s} : Keeps(c, t)
  BY SocketsAre DEF Keeps, Holds, Inherits
<1>5. Holds(c, s) /\ conn'[c].state # "FREE" /\ conn[c].state # "CLOSED"
  BY DEF Holds
<1>6. global_seq' \in [Node -> Nat] /\ \A n \in Node : global_seq[n] <= global_seq'[n]
  <2>1. global_seq' = global_seq
    OBVIOUS
  <2>2. QED BY <1>a, <2>1, Unbounded
<1>7. QED BY <1>1, <1>2, <1>3, <1>4, <1>5, <1>6, SocketStep

\* A step that changes no connection.
LEMMA SameStep ==
  ASSUME IInv, UNCHANGED <<policy, conn, conns, global_seq, chan>>, broken' \subseteq Sockets,
         faults' \in Nat, failed' \in {"none", "accept_conn"}
  PROVE  IInv'
<1>a. /\ policy' = policy /\ conn' = conn /\ conns' = conns /\ global_seq' = global_seq
      /\ chan' = chan
  OBVIOUS
<1>1. Types'
  BY <1>a DEF IInv, Types
<1>2. PlaceInv'
  BY <1>a DEF IInv, PlaceInv, Place
<1>3. SocketInv'
  BY <1>a DEF IInv, SocketInv, Socket
<1>4. RegistryInv'
  BY <1>a DEF IInv, RegistryInv, Registers, Entry
<1>5. SharedInv'
  <2>1. \A c \in Conns : \A s \in Sockets : Keeps(c, s)
    BY <1>a DEF Keeps, Holds, Inherits
  <2>2. QED BY <1>a, <2>1, Quiet DEF IInv
<1>6. GlobalInv'
  BY <1>a DEF IInv, GlobalInv, Given, Way
<1>7. QED BY <1>1, <1>2, <1>3, <1>4, <1>5, <1>6 DEF IInv, AssertionsHold

LEMMA AcceptedStep == ASSUME IInv, NEW c \in Conns, accepted(c) PROVE IInv'
<1> DEFINE r == conn[c]
           p == Back(c)[c]
<1> PICK s : s = r.cs
  OBVIOUS
<1>a. /\ Types /\ Place(c) /\ Socket(c) /\ Registers(c) /\ Given(c) /\ r \in Connections
  BY DEF IInv, Types, PlaceInv, SocketInv, RegistryInv, GlobalInv
<1>b. r.at = "accepted" /\ r.state \in {"CONNECT_MSG_AUTH", "NONE", "CLOSED"}
  BY <1>a DEF accepted, Place
<1>c. faults \in Nat /\ broken \subseteq Sockets
  BY <1>a DEF Types
<1>d. /\ Back(c) \in Table /\ \A d \in Conns \ {c} : Back(c)[d] = conn[d]
      /\ p.state = r.state /\ p.cs = r.cs /\ p.new_cs = r.new_cs
      /\ p.swap = r.swap /\ p.existing = r.existing /\ p.gseq = r.gseq
      /\ p.peer_gseq = r.peer_gseq /\ p.once_ready = r.once_ready
      /\ p.queued = r.queued /\ p.connect_seq = r.connect_seq
      /\ p.lossy = r.lossy /\ p.at = "" /\ p.replacing = FALSE /\ p.msg = Free.msg
  BY <1>a, BackIs
<1>e. \A d \in Conns : Alike(conn[d], conn[d])
  BY DEF Alike
<1>f. Free.msg.tag = "NONE"
  BY DEF Free
<1>1. CASE r.state = "CLOSED"
  <2>1. /\ conn' = Back(c)
        /\ UNCHANGED <<policy, conns, global_seq, chan, broken, failed, faults>>
    BY <1>1 DEF accepted, Goes_on, Runs
  <2>2. Only(c) /\ conn'[c] = p
    BY <1>d, <1>e, <2>1 DEF Only
  <2>b. policy' = policy /\ conns' = conns /\ global_seq' = global_seq
    BY <2>1
  <2> HIDE DEF p
  <2>3. Place(c)'
    BY <1>a, <1>d, <1>1, <2>2, <2>b DEF Place, Connecting
  <2>4. Socket(c)'
    BY <1>a, <1>d, <1>1, <2>2 DEF Socket, HalfAccepted
  <2>5. Registers(c)'
    <3>1. Claims(p) => Claims(r)
      BY <1>1, <1>d DEF Claims
    <3>2. QED BY <1>a, <1>d, <1>1, <2>2, <2>b, <3>1 DEF Registers, HalfAccepted
  <2>6. Given(c)'
    BY <1>a, <1>d, <1>f, <2>2, <2>b DEF Given, Accepted
  <2>7. \A t \in Sockets : Keeps(c, t)
    BY <1>1, <1>d, <2>2, FadedKeeps DEF Active
  <2>8. conn'[c].state # "FREE" /\ conn'[c].state = "CLOSED"
    BY <1>1, <1>d, <2>2
  <2>9. QED BY <1>c, <2>1, <2>2, <2>3, <2>4, <2>5, <2>6, <2>7, <2>8, QuietStep
<1>2. CASE r.state = "NONE"
  <2>1. Abort("accept_conn")
    BY <1>2 DEF accepted
  <2>2. QED BY <1>c, <2>1, SameStep DEF Abort
<1>3. CASE r.state = "CONNECT_MSG_AUTH"
  <2> DEFINE seq == r.msg.tag = "SEQ"
             st == IF seq THEN "WAIT_SEQ" ELSE "OPEN"
             q == [p EXCEPT !.once_ready = TRUE, !.tick = p.tick \/ ~seq, !.state = st]
             m == r.msg
  <2>1. /\ conn' = [Back(c) EXCEPT ![c].once_ready = TRUE, ![c].tick = @ \/ ~seq,
                                   ![c].state = IF seq THEN "WAIT_SEQ" ELSE "OPEN"]
        /\ chan' = ToPeer(chan, c, m)
        /\ UNCHANGED <<policy, conns, global_seq, broken, failed, faults>>
    BY <1>3 DEF accepted, Goes_on, Runs
  <2>2. conn' = [Back(c) EXCEPT ![c] = q]
    BY <1>d, <2>1 DEF Table
  <2>3. p \in Connections /\ st \in {"WAIT_SEQ", "OPEN"} /\ st \in States /\ (p.tick \/ ~seq) \in BOOLEAN
    BY <1>d DEF Table, States, Registered
  <2> HIDE DEF p, seq, st
  <2>4. /\ q \in Connections
        /\ q.state = st /\ q.cs = p.cs /\ q.new_cs = p.new_cs /\ q.swap = p.swap
        /\ q.connect_seq = p.connect_seq /\ q.lossy = p.lossy /\ q.at = p.at /\ q.msg = p.msg
        /\ q.gseq = p.gseq /\ q.peer_gseq = p.peer_gseq
    BY <2>3 DEF Connections
  <2> HIDE DEF q
  <2>5. Only(c) /\ conn'[c] = q
    BY <1>d, <1>e, <2>2, <2>4 DEF Only, Table
  <2>6. /\ s \in Sockets /\ Shared(s) /\ On(c, s, {"CONNECT_MSG_AUTH"})
        /\ r.swap = "" /\ r.new_cs = 0
    BY <1>3, AuthIs
  <2>7. m \in Message
    BY <1>a DEF Connections
  <2>8. /\ chan' \in Socketful /\ \A t \in Sockets \ {s} : chan'[t] = chan[t]
        /\ Left(c, s) /\ Sent(c, s, m)
    BY <1>a, <2>1, <2>6, <2>7, Sends
  <2>9. /\ conn'[c].cs = s /\ conn'[c].state \in {"WAIT_SEQ", "OPEN"} /\ conn'[c].new_cs = 0
        /\ conn'[c].swap = "" /\ conn'[c].at = ""
        /\ conn'[c].connect_seq = conn[c].connect_seq /\ conn'[c].lossy = conn[c].lossy
    BY <1>d, <2>3, <2>4, <2>5, <2>6
  <2>b. policy' = policy /\ conns' = conns /\ global_seq' = global_seq
    BY <2>1
  <2>10. /\ Channel(c, s)'
         /\ \A d \in Conns : d[1] # c[1] /\ Holds(d, s) =>
              Channel(d, s)' /\ Pair(c, d, s)' /\ Pair(d, c, s)'
    BY <1>b, <2>b, <2>5, <2>6, <2>8, <2>9, Agrees
  <2>11. Given(c)'
    BY <1>a, <1>d, <1>f, <2>4, <2>5, <2>b DEF Given, Accepted
  <2>12. \A n \in Node : Way(s, n)'
    <3>1. m.tag \in Accepted /\ m.tag # "CONNECT"
      BY <1>b, <2>6 DEF Shared, Channel, Decides, Accepted
    <3>2. GivenTo(global_seq', Peer(c[1]), m)
      <4>1. m.gseq <= global_seq[c[1]]
        BY <1>a, <3>1 DEF Given
      <4>2. QED BY <4>1, <2>b, Nodes DEF GivenTo
    <3>3. global_seq' \in [Node -> Nat] /\ \A n \in Node : global_seq[n] <= global_seq'[n]
      BY <1>a, <2>b, Unbounded
    <3>4. Types /\ GlobalInv /\ s \in Sockets
      BY <2>6 DEF IInv
    <3> HIDE DEF m
    <3>5. QED BY <2>8, <3>2, <3>3, <3>4, WaySent
  <2>13. Claims(conn[c])
    BY <1>3, <1>b DEF Claims
  <2>14. conn[c].state \notin {"CLOSED", "FREE"} /\ conn[c].swap = "" /\ conn[c].new_cs = 0
         /\ conn[c].cs = s /\ s \in Sockets /\ Only(c)
    BY <1>3, <2>5, <2>6
  <2>15. UNCHANGED <<policy, conns, global_seq, broken, failed, faults>>
    BY <2>1
  <2> HIDE DEF r, m
  <2>16. QED BY <2>8, <2>9, <2>10, <2>11, <2>12, <2>13, <2>14, <2>15, OpensStep
<1>4. QED BY <1>b, <1>1, <1>2, <1>3


\* The channels that an unchanged connection d sees when c has read.
LEMMA OtherReads ==
  ASSUME NEW c \in Conns, NEW d \in Conns, NEW s, d[1] # c[1], Took(c, s), Silent(c, s)
  PROVE  /\ d[1] = Peer(c[1]) /\ c[1] = Peer(d[1])
         /\ chan'[s][d[1]] = chan[s][d[1]] /\ chan'[s][c[1]] = Tail(chan[s][c[1]])
<1>1. d[1] = Peer(c[1]) /\ c[1] = Peer(d[1])
  BY Nodes
<1>2. QED BY <1>1 DEF Took, Silent

LEMMA ReadSeqStep == ASSUME IInv, NEW c \in Conns, read_seq(c) PROVE IInv'
<1> DEFINE r == conn[c]
           q == [r EXCEPT !.state = "OPEN", !.tick = TRUE]
<1> PICK s : s = r.cs
  OBVIOUS
<1>1. /\ r.state = "WAIT_SEQ" /\ r.at = "" /\ chan[s][c[1]] # <<>>
      /\ conn' = [conn EXCEPT ![c] = q] /\ chan' = Taken(c)
      /\ UNCHANGED <<policy, conns, global_seq, broken, failed, faults>>
  BY DEF read_seq, Reads, Goes_on, Runs
<1>a. Types /\ Registers(c) /\ Given(c) /\ r \in Connections /\ GlobalInv
  BY DEF IInv, Types, RegistryInv, GlobalInv
<1>b. policy' = policy /\ conns' = conns /\ global_seq' = global_seq
  BY <1>1
<1>2. s \in Sockets /\ Shared(s) /\ r.swap = "" /\ r.new_cs = 0 /\ On(c, s, {"WAIT_SEQ"})
  BY <1>1, HasSocket DEF On
<1>3. q \in Connections
  <2>1. "OPEN" \in States
    BY DEF States, Registered
  <2>2. QED BY <1>a, <2>1 DEF Connections
<1>4. /\ q.state = "OPEN" /\ q.cs = r.cs /\ q.new_cs = r.new_cs /\ q.swap = r.swap
      /\ q.connect_seq = r.connect_seq /\ q.lossy = r.lossy /\ q.at = r.at /\ q.msg = r.msg
      /\ q.gseq = r.gseq /\ q.peer_gseq = r.peer_gseq
  BY <1>a DEF Connections
<1> HIDE DEF q
<1>5. Only(c) /\ conn'[c] = q
  BY <1>a, <1>1, <1>3, Assigned
<1>6. /\ conn'[c].cs = s /\ conn'[c].state = "OPEN" /\ conn'[c].new_cs = 0
      /\ conn'[c].swap = "" /\ conn'[c].at = ""
      /\ conn'[c].connect_seq = conn[c].connect_seq /\ conn'[c].lossy = conn[c].lossy
  BY <1>1, <1>2, <1>4, <1>5
<1>7. /\ chan' \in Socketful /\ \A t \in Sockets \ {s} : chan'[t] = chan[t]
      /\ Took(c, s) /\ Silent(c, s)
  BY <1>a, <1>1, <1>2, Reads_message
<1>8. Given(c)'
  BY <1>a, <1>b, <1>4, <1>5 DEF Given
<1>9. Claims(conn[c]) /\ conn[c].state \notin {"CLOSED", "FREE"}
  BY <1>1 DEF Claims, Registered
<1>10. \A n \in Node : Way(s, n)'
  <2>1. global_seq' \in [Node -> Nat] /\ \A n \in Node : global_seq[n] <= global_seq'[n]
    BY <1>a, <1>b, Unbounded
  <2>2. QED BY <1>1, <1>2, <1>7, <1>a, <2>1, WaySent
<1>11. /\ ~On(c, s, {"WAIT_IDENTIFY"})' /\ ~On(c, s, {"WAIT_CONNECT_REPLY"})'
       /\ ~On(c, s, {"CONNECT_MSG_AUTH"})' /\ ~On(c, s, {"WAIT_SEQ"})'
       /\ ~Inherits(c, s)' /\ ~Accepts(c, s)'
  BY <1>6 DEF On, Inherits, Accepts, HalfAccepted
<1>12. Channel(c, s)'
  BY <1>11 DEF Channel
<1>13. ASSUME NEW d \in Conns, d[1] # c[1], Holds(d, s)
       PROVE  Channel(d, s)' /\ Pair(c, d, s)' /\ Pair(d, c, s)'
  <2>1. Pair(c, d, s) /\ Pair(d, c, s) /\ Channel(d, s)
    BY <1>2, <1>13 DEF Shared
  <2>2. ~On(d, s, {"WAIT_IDENTIFY"}) /\ ~Accepts(d, s) /\ ~On(d, s, {"WAIT_SEQ"})
    <3>1. On(c, s, Active \ {"WAIT_CONNECT_MSG"}) /\ On(c, s, {"WAIT_SEQ", "OPEN"})
      BY <1>2 DEF On, Active
    <3>2. QED BY <1>2, <2>1, <3>1 DEF Pair
  <2>3. ~On(d, s, {"WAIT_CONNECT_REPLY"})
    <3>1. SUFFICES ASSUME On(d, s, {"WAIT_CONNECT_REPLY"}) PROVE FALSE
      OBVIOUS
    <3>2. Answered(d, c, s) /\ Waits(d, s)
      BY <2>1, <3>1 DEF Pair, Channel
    <3>3. On(c, s, {"WAIT_SEQ", "OPEN"})
      BY <1>2 DEF On
    <3>4. chan[s][d[1]] # <<>>
      BY <3>2, <3>3 DEF Answered
    <3>5. chan[s][Peer(d[1])] = <<>>
      BY <3>2, <3>4 DEF Waits
    <3>6. c[1] = Peer(d[1])
      BY <1>13, Nodes
    <3>7. QED BY <1>1, <3>5, <3>6
  <2>4. On(d, s, {"OPEN"}) => conn[c].connect_seq = conn[d].connect_seq /\ conn[c].lossy = conn[d].lossy
    <3>1. On(c, s, {"WAIT_SEQ", "OPEN"})
      BY <1>2 DEF On
    <3>2. QED BY <2>1, <3>1 DEF Pair
  <2>5. /\ conn'[d].cs = conn[d].cs /\ conn'[d].state = conn[d].state
        /\ conn'[d].connect_seq = conn[d].connect_seq /\ conn'[d].lossy = conn[d].lossy
        /\ Inherits(d, s)' <=> Inherits(d, s)
    <3>1. Alike(conn'[d], conn[d])
      BY <1>5, <1>13 DEF Only
    <3>2. QED BY <3>1, AlikeOn
  <2>6. /\ ~On(d, s, {"WAIT_IDENTIFY"})' /\ ~On(d, s, {"WAIT_CONNECT_REPLY"})'
        /\ ~Accepts(d, s)' /\ ~On(d, s, {"WAIT_SEQ"})' /\ ~On(d, s, {"CONNECT_MSG_AUTH"})'
        /\ On(d, s, {"OPEN"})' => On(d, s, {"OPEN"})
        /\ On(d, s, {"WAIT_SEQ", "OPEN"})' => On(d, s, {"OPEN"})
    BY <2>2, <2>3, <2>5 DEF On, Accepts, HalfAccepted
  <2>7. On(d, s, {"OPEN"}) => conn'[c].connect_seq = conn'[d].connect_seq /\ conn'[c].lossy = conn'[d].lossy
    BY <1>6, <2>4, <2>5
  <2>8. Channel(d, s)'
    BY <2>6 DEF Channel
  <2>9. Pair(c, d, s)'
    BY <1>11, <2>6, <2>7 DEF Pair
  <2>10. Pair(d, c, s)'
    BY <2>6, <2>7 DEF Pair
  <2>11. QED BY <2>8, <2>9, <2>10
<1>14. UNCHANGED <<policy, conns, global_seq, broken, failed, faults>>
  BY <1>1
<1>15. conn[c].cs = s /\ conn[c].swap = "" /\ conn[c].new_cs = 0 /\ s \in Sockets /\ Only(c)
       /\ conn'[c].state \in {"WAIT_SEQ", "OPEN"}
  BY <1>2, <1>5, <1>6
<1> HIDE DEF r
<1>16. QED BY <1>6, <1>7, <1>8, <1>9, <1>10, <1>12, <1>13, <1>14, <1>15, OpensStep

LEMMA ReadyStep == ASSUME IInv, NEW c \in Conns, reply_ready(c) PROVE IInv'
<1> DEFINE r == conn[c]
           m == Next_msg(c)
           k == r.connect_seq + 1
           p == [r EXCEPT !.state = "OPEN", !.connect_seq = k, !.peer_gseq = m.gseq]
           q == [p EXCEPT !.lossy = LossyByReply(c), !.once_ready = TRUE, !.tick = TRUE]
<1> PICK s : s = r.cs
  OBVIOUS
<1>a. Types /\ Registers(c) /\ Given(c) /\ r \in Connections /\ GlobalInv
  BY DEF IInv, Types, RegistryInv, GlobalInv
<1>1. Reply(c, "SEQ") \/ Reply(c, "READY")
  BY DEF reply_ready
<1>2. /\ s \in Sockets /\ r.state = "WAIT_CONNECT_REPLY" /\ r.at = ""
      /\ chan[s][c[1]] = <<m>> /\ Tail(chan[s][c[1]]) = <<>> /\ chan[s][Peer(c[1])] = <<>>
      /\ m \in Message /\ m.tag \in Accepted /\ Answers(m, r.connect_seq)
      /\ GivenTo(global_seq, c[1], m)
      /\ \A d \in Conns : d[1] # c[1] => Answered(c, d, s)
  BY <1>1, ReplyIs DEF Accepted
<1>3. m.cseq = k /\ m.gseq \in Nat /\ k \in Nat
  <2>1. r.connect_seq \in Nat
    BY <1>a DEF Connections
  <2>2. QED BY <1>2, <2>1 DEF Answers, Retries, Accepted, Message
<1>4. /\ conn' = [conn EXCEPT ![c] = q]
      /\ chan' = IF m.tag = "SEQ" THEN ToPeer(Taken(c), c, Msg("IN_SEQ", 0, 0)) ELSE Taken(c)
      /\ UNCHANGED <<policy, conns, global_seq, broken, failed, faults>>
  <2> DEFINE w == [r EXCEPT !.state = "OPEN", !.connect_seq = k, !.peer_gseq = m.gseq,
                            !.lossy = LossyByReply(c), !.once_ready = TRUE, !.tick = TRUE]
  <2>1. q = w
    OBVIOUS
  <2>2. ~ (m.cseq # conn[c].connect_seq + 1)
    BY <1>3
  <2> HIDE DEF q
  <2>3. conn' = [conn EXCEPT ![c] = w]
    <3>1. conn' = [conn EXCEPT ![c] = [@ EXCEPT !.state = "OPEN",
                     !.connect_seq = conn[c].connect_seq + 1, !.peer_gseq = m.gseq,
                     !.lossy = LossyByReply(c), !.once_ready = TRUE, !.tick = TRUE]]
      BY <2>2 DEF reply_ready
    <3>2. QED BY <3>1
  <2>4. /\ chan' = IF m.tag = "SEQ" THEN ToPeer(Taken(c), c, Msg("IN_SEQ", 0, 0)) ELSE Taken(c)
        /\ UNCHANGED <<policy, conns, global_seq, broken, failed, faults>>
    BY <2>2 DEF reply_ready, Goes_on, Runs
  <2> HIDE DEF w
  <2>5. QED BY <2>1, <2>3, <2>4
<1>b. policy' = policy /\ conns' = conns /\ global_seq' = global_seq
  BY <1>4
<1> HIDE DEF k, m
<1>5. /\ p \in Connections
      /\ p.state = "OPEN" /\ p.cs = r.cs /\ p.new_cs = r.new_cs /\ p.swap = r.swap
      /\ p.connect_seq = k /\ p.at = r.at /\ p.msg = r.msg
      /\ p.gseq = r.gseq /\ p.peer_gseq = m.gseq
  <2>1. "OPEN" \in States
    BY DEF States, Registered
  <2>2. QED BY <1>a, <1>3, <2>1 DEF Connections
<1> HIDE DEF p
<1>6. /\ q \in Connections
      /\ q.state = "OPEN" /\ q.cs = p.cs /\ q.new_cs = p.new_cs /\ q.swap = p.swap
      /\ q.connect_seq = p.connect_seq /\ q.at = p.at /\ q.msg = p.msg
      /\ q.gseq = p.gseq /\ q.peer_gseq = p.peer_gseq /\ q.lossy = LossyByReply(c)
  <2>1. LossyByReply(c) \in BOOLEAN
    BY DEF LossyByReply
  <2>2. QED BY <1>5, <2>1 DEF Connections
<1> HIDE DEF q
<1>7. Only(c) /\ conn'[c] = q
  BY <1>a, <1>4, <1>6, Assigned
<1>8. r.swap = "" /\ r.new_cs = 0 /\ Shared(s)
  BY <1>2, HasSocket
<1>9. /\ conn'[c].cs = s /\ conn'[c].state = "OPEN" /\ conn'[c].new_cs = 0
      /\ conn'[c].swap = "" /\ conn'[c].at = ""
      /\ conn'[c].connect_seq = k /\ conn'[c].lossy = (Peer(c[1]) \in policy.lossy)
  BY <1>2, <1>5, <1>6, <1>7, <1>8 DEF LossyByReply
<1>10. chan[s][c[1]] # <<>> /\ chan[s][c[1]][1] = m
  <2>1. <<m>> # <<>> /\ <<m>>[1] = m
    OBVIOUS
  <2>2. QED BY <1>2, <2>1
<1>11. Msg("IN_SEQ", 0, 0) \in Message /\ Msg("IN_SEQ", 0, 0).tag = "IN_SEQ"
  BY MessageIs
<1> DEFINE in_seq == Msg("IN_SEQ", 0, 0)
<1> HIDE DEF in_seq
<1>12. /\ chan' \in Socketful /\ \A t \in Sockets \ {s} : chan'[t] = chan[t]
       /\ Took(c, s) /\ (Silent(c, s) \/ Sent(c, s, in_seq))
  <2>1. CASE m.tag = "SEQ"
    BY <1>a, <1>2, <1>4, <1>10, <1>11, <2>1, Answers_message DEF in_seq
  <2>2. CASE m.tag # "SEQ"
    BY <1>a, <1>2, <1>4, <1>10, <2>2, Reads_message
  <2>3. QED BY <2>1, <2>2
<1>13. \A n \in Node : Way(s, n)'
  <2>1. global_seq' \in [Node -> Nat] /\ \A n \in Node : global_seq[n] <= global_seq'[n]
    BY <1>a, <1>b, Unbounded
  <2>2. GivenTo(global_seq', Peer(c[1]), in_seq)
    BY <1>11 DEF GivenTo, Accepted, in_seq
  <2>3. QED BY <1>2, <1>10, <1>12, <1>a, <2>1, <2>2, WaySent
<1>14. Given(c)'
  <2>1. conn'[c].gseq = r.gseq /\ conn'[c].msg = r.msg /\ conn'[c].peer_gseq = m.gseq
    BY <1>5, <1>6, <1>7
  <2>2. m.gseq <= global_seq[Peer(c[1])]
    BY <1>2 DEF GivenTo
  <2>3. QED BY <1>a, <1>b, <2>1, <2>2 DEF Given
<1>15. /\ ~On(c, s, {"WAIT_IDENTIFY"})' /\ ~On(c, s, {"WAIT_CONNECT_REPLY"})'
       /\ ~On(c, s, {"CONNECT_MSG_AUTH"})' /\ ~On(c, s, {"WAIT_SEQ"})'
       /\ ~Inherits(c, s)' /\ ~Accepts(c, s)'
  BY <1>9 DEF On, Inherits, Accepts, HalfAccepted
<1>16. Channel(c, s)'
  BY <1>15 DEF Channel
<1>17. ASSUME NEW d \in Conns, d[1] # c[1], Holds(d, s)
       PROVE  Channel(d, s)' /\ Pair(c, d, s)' /\ Pair(d, c, s)'
  <2>1. Answered(c, d, s)
    BY <1>2, <1>17
  <2>2. m.tag \notin Retries
    BY <1>2 DEF Retries, Accepted
  <2>3. ~On(d, s, {"CONNECT_MSG_AUTH"}) /\ ~Inherits(d, s)
    BY <1>10, <2>1 DEF Answered, Identifies
  <2>4. ~On(d, s, {"WAIT_CONNECT_MSG"})
    <3>1. 1 \in DOMAIN chan[s][c[1]]
      <4>1. 1 \in DOMAIN <<m>>
        OBVIOUS
      <4>2. QED BY <4>1, <1>2
    <3>2. QED BY <1>10, <2>1, <2>2, <3>1 DEF Answered
  <2>5. ~On(d, s, {"WAIT_IDENTIFY", "WAIT_CONNECT_REPLY"})
    BY <2>1 DEF Answered
  <2>6. On(d, s, {"WAIT_SEQ", "OPEN"}) => conn[d].connect_seq = k /\ conn[d].lossy = (d[1] \in policy.lossy)
    BY <2>1 DEF Answered, Lossy, k
  <2>7. /\ conn'[d].cs = conn[d].cs /\ conn'[d].state = conn[d].state
        /\ conn'[d].connect_seq = conn[d].connect_seq /\ conn'[d].lossy = conn[d].lossy
        /\ Inherits(d, s)' <=> Inherits(d, s)
    <3>1. Alike(conn'[d], conn[d])
      BY <1>7, <1>17 DEF Only
    <3>2. QED BY <3>1, AlikeOn
  <2>8. /\ ~On(d, s, {"WAIT_IDENTIFY"})' /\ ~On(d, s, {"WAIT_CONNECT_REPLY"})'
        /\ ~Accepts(d, s)' /\ ~On(d, s, {"CONNECT_MSG_AUTH"})'
        /\ On(d, s, {"OPEN"})' => On(d, s, {"WAIT_SEQ", "OPEN"})
        /\ On(d, s, {"WAIT_SEQ", "OPEN"})' => On(d, s, {"WAIT_SEQ", "OPEN"})
    BY <2>3, <2>4, <2>5, <2>7 DEF On, Accepts, HalfAccepted
  <2>9. d[1] = Peer(c[1])
    BY <1>17, Nodes
  <2>10. On(d, s, {"WAIT_SEQ", "OPEN"}) =>
           conn'[c].connect_seq = conn'[d].connect_seq /\ conn'[c].lossy = conn'[d].lossy
    BY <1>9, <2>6, <2>7, <2>9
  <2>11. Channel(d, s)'
    BY <2>8 DEF Channel
  <2>12. Pair(c, d, s)'
    BY <1>15, <2>8, <2>10 DEF Pair
  <2>13. Pair(d, c, s)'
    BY <1>15, <2>8, <2>10 DEF Pair
  <2>14. QED BY <2>11, <2>12, <2>13
<1>18. UNCHANGED <<policy, conns, global_seq, broken, failed, faults>>
  BY <1>4
<1>19. conn[c].cs = s /\ conn[c].swap = "" /\ conn[c].new_cs = 0 /\ s \in Sockets /\ Only(c)
       /\ conn'[c].state \in {"WAIT_SEQ", "OPEN"} /\ conn[c].state \notin {"CLOSED", "FREE"}
  BY <1>2, <1>7, <1>8, <1>9
<1>20. Claims(conn[c])
  BY <1>2 DEF Claims, Registered, Connecting
<1> HIDE DEF r
<1>21. QED BY <1>9, <1>12, <1>13, <1>14, <1>16, <1>17, <1>18, <1>19, <1>20, OpensStep


LEMMA ReadConnectMsgStep == ASSUME IInv, NEW c \in Conns, read_connect_msg(c) PROVE IInv'
<1> DEFINE r == conn[c]
           m == Next_msg(c)
           l == c[1] \in policy.lossy
           e == lookup(c[1])
           p == [r EXCEPT !.state = "CONNECT_MSG_AUTH", !.msg = m, !.lossy = l]
           q == [p EXCEPT !.at = "lookup", !.existing = e]
<1> PICK s : s = r.cs
  OBVIOUS
<1>1. /\ r.state = "WAIT_CONNECT_MSG" /\ r.at = "" /\ chan[s][c[1]] # <<>>
      /\ conn' = [conn EXCEPT ![c] = Looking_up(p, c[1])] /\ chan' = Taken(c)
      /\ UNCHANGED <<policy, conns, global_seq, broken, failed, faults>>
  BY DEF read_connect_msg, Reads, Goes_on, Runs
<1>a. /\ Types /\ Place(c) /\ Socket(c) /\ Registers(c) /\ Given(c) /\ r \in Connections
      /\ GlobalInv
  BY DEF IInv, Types, PlaceInv, SocketInv, RegistryInv, GlobalInv
<1>b. policy' = policy /\ conns' = conns /\ global_seq' = global_seq
  BY <1>1
<1>2. /\ s \in Sockets /\ Shared(s) /\ r.swap = "" /\ r.new_cs = 0
      /\ On(c, s, {"WAIT_CONNECT_MSG"}) /\ Accepts(c, s)
  BY <1>1, HasSocket DEF On, HalfAccepted, Accepts
<1>3. /\ m = chan[s][c[1]][1] /\ m \in Message /\ 1 \in DOMAIN chan[s][c[1]]
      /\ chan[s][c[1]] \in Seq(Message) /\ Tail(chan[s][c[1]]) \in Seq(Message)
  <2>1. chan[s][c[1]] \in Seq(Message)
    BY <1>a, <1>2, Nodes DEF Types
  <2>2. m = Head(chan[s][c[1]])
    BY DEF Next_msg
  <2> HIDE DEF m
  <2>3. QED BY <1>1, <2>1, <2>2, HeadIs
<1>4. m.tag = "CONNECT" /\ \A i \in DOMAIN chan[s][c[1]] : chan[s][c[1]][i].tag = "CONNECT"
  <2> HIDE DEF m
  <2>1. Channel(c, s)
    BY <1>2 DEF Shared
  <2>2. QED BY <1>2, <1>3, <2>1 DEF Channel
<1> HIDE DEF m, l
<1>5. /\ p \in Connections
      /\ p.state = "CONNECT_MSG_AUTH" /\ p.cs = s /\ p.new_cs = 0 /\ p.swap = ""
      /\ p.connect_seq = r.connect_seq /\ p.lossy = l /\ p.msg = m
      /\ p.gseq = r.gseq /\ p.peer_gseq = r.peer_gseq /\ p.replacing = r.replacing
      /\ p.once_ready = r.once_ready /\ p.queued = r.queued
  <2>1. "CONNECT_MSG_AUTH" \in States /\ l \in BOOLEAN
    BY DEF States, HalfAccepted, l
  <2>2. QED BY <1>a, <1>2, <1>3, <2>1 DEF Connections
<1> HIDE DEF p
<1>6. conn' = [conn EXCEPT ![c] = q]
  BY <1>1 DEF Looking_up
<1>7. /\ e \in ConnPtr
      /\ e # None => e[1] = c[1] /\ conns[c[1]] = e
  BY LookupIs, Nodes DEF ConnPtr
<1> HIDE DEF e
<1>8. /\ q \in Connections
      /\ q.state = p.state /\ q.cs = p.cs /\ q.new_cs = p.new_cs /\ q.swap = p.swap
      /\ q.connect_seq = p.connect_seq /\ q.lossy = p.lossy /\ q.msg = p.msg
      /\ q.gseq = p.gseq /\ q.peer_gseq = p.peer_gseq /\ q.replacing = p.replacing
      /\ q.once_ready = p.once_ready /\ q.queued = p.queued /\ q.at = "lookup" /\ q.existing = e
  <2>1. "lookup" \in Places
    BY DEF Places
  <2>2. QED BY <1>5, <1>7, <2>1 DEF Connections
<1> HIDE DEF q
<1>9. Only(c) /\ conn'[c] = q
  BY <1>a, <1>6, <1>8, Assigned
<1>10. /\ q.state = "CONNECT_MSG_AUTH" /\ q.cs = s /\ q.new_cs = 0 /\ q.swap = ""
       /\ q.lossy = l /\ q.msg = m /\ q.at = "lookup" /\ q.existing = e
       /\ q.gseq = r.gseq /\ q.peer_gseq = r.peer_gseq /\ q.replacing = r.replacing
       /\ q.once_ready = r.once_ready /\ q.queued = r.queued
  BY <1>5, <1>8
<1>11. Place(c)'
  BY <1>9, <1>10 DEF Place, Connecting
<1>12. Socket(c)'
  BY <1>2, <1>9, <1>10, SocketsAre DEF Socket
<1>13. Registers(c)'
  <2>1. Claims(q) => Claims(r)
    BY <1>10 DEF Claims, Registered, Connecting
  <2>2. conns[c[1]] = c => r.replacing
    BY <1>1, <1>a DEF Registers, HalfAccepted
  <2>3. QED BY <1>a, <1>b, <1>7, <1>9, <1>10, <2>1, <2>2 DEF Registers
<1>14. Given(c)'
  <2>1. m.gseq <= global_seq[Peer(c[1])]
    BY <1>2, <1>3, <1>4, <1>a, Nodes DEF GlobalInv, Way, GivenTo
  <2>2. QED BY <1>a, <1>b, <1>4, <1>9, <1>10, <2>1 DEF Given, Accepted
<1>15. /\ chan' \in Socketful /\ \A t \in Sockets \ {s} : chan'[t] = chan[t]
       /\ Took(c, s) /\ Silent(c, s)
  BY <1>a, <1>1, <1>2, Reads_message
<1>16. global_seq' \in [Node -> Nat] /\ \A n \in Node : global_seq[n] <= global_seq'[n]
  BY <1>a, <1>b, Unbounded
<1>17. \A n \in Node : Way(s, n)'
  BY <1>1, <1>2, <1>15, <1>16, <1>a, WaySent
<1>18. /\ ~On(c, s, {"WAIT_IDENTIFY"})' /\ ~On(c, s, {"WAIT_CONNECT_REPLY"})'
       /\ ~On(c, s, {"WAIT_SEQ"})' /\ ~On(c, s, {"OPEN"})' /\ ~On(c, s, {"WAIT_SEQ", "OPEN"})'
       /\ ~On(c, s, {"WAIT_CONNECT_MSG"})' /\ ~On(c, s, {"WAIT_IDENTIFY", "WAIT_CONNECT_REPLY"})'
       /\ ~Inherits(c, s)'
  BY <1>9, <1>10 DEF On, Inherits
<1>19. Channel(c, s)'
  <2>1. \A i \in DOMAIN chan'[s][c[1]] : chan'[s][c[1]][i].tag = "CONNECT"
    <3>1. chan'[s][c[1]] = Tail(chan[s][c[1]])
      BY <1>15 DEF Took
    <3>2. \A i \in DOMAIN Tail(chan[s][c[1]]) :
            i + 1 \in DOMAIN chan[s][c[1]] /\ Tail(chan[s][c[1]])[i] = chan[s][c[1]][i + 1]
      BY <1>1, <1>3, TailIs
    <3>3. QED BY <1>4, <3>1, <3>2
  <2>2. Decides(c)'
    BY <1>4, <1>9, <1>10, <1>b DEF Decides, Lossy, l
  <2>3. QED BY <1>18, <2>1, <2>2 DEF Channel
<1>20. ASSUME NEW d \in Conns, d[1] # c[1], Holds(d, s)
       PROVE  Channel(d, s)' /\ Pair(c, d, s)' /\ Pair(d, c, s)'
  <2>1. Pair(c, d, s) /\ Pair(d, c, s) /\ Channel(d, s)
    BY <1>2, <1>20 DEF Shared
  <2>2. /\ d[1] = Peer(c[1]) /\ c[1] = Peer(d[1])
        /\ chan'[s][d[1]] = chan[s][d[1]] /\ chan'[s][c[1]] = Tail(chan[s][c[1]])
    BY <1>15, <1>20, OtherReads
  <2>3. ~On(d, s, {"WAIT_IDENTIFY"})
    BY <1>1, <2>1, <2>2 DEF Channel, Identifies
  <2>4. ~Accepts(d, s) /\ ~On(d, s, {"WAIT_SEQ", "OPEN"})
    BY <1>2, <2>1 DEF Pair
  <2>5. /\ conn'[d].cs = conn[d].cs /\ conn'[d].state = conn[d].state
        /\ conn'[d].connect_seq = conn[d].connect_seq /\ conn'[d].lossy = conn[d].lossy
        /\ Inherits(d, s)' <=> Inherits(d, s)
    <3>1. Alike(conn'[d], conn[d])
      BY <1>9, <1>20 DEF Only
    <3>2. QED BY <3>1, AlikeOn
  <2>6. /\ ~Inherits(d, s)' /\ ~Accepts(d, s)' /\ ~On(d, s, {"WAIT_SEQ", "OPEN"})'
        /\ ~On(d, s, {"WAIT_SEQ"})' /\ ~On(d, s, {"OPEN"})' /\ ~On(d, s, {"WAIT_IDENTIFY"})'
        /\ ~On(d, s, {"CONNECT_MSG_AUTH"})'
        /\ On(d, s, {"WAIT_CONNECT_REPLY"})' => On(d, s, {"WAIT_CONNECT_REPLY"})
    BY <2>3, <2>4, <2>5 DEF Accepts, On, HalfAccepted
  <2>7. On(d, s, {"WAIT_CONNECT_REPLY"}) =>
          /\ chan'[s][d[1]] = <<>> /\ chan'[s][Peer(d[1])] = <<>>
          /\ m.cseq = conn'[d].connect_seq
    <3>1. SUFFICES ASSUME On(d, s, {"WAIT_CONNECT_REPLY"})
                   PROVE  /\ chan'[s][d[1]] = <<>> /\ chan'[s][Peer(d[1])] = <<>>
                          /\ m.cseq = conn'[d].connect_seq
      OBVIOUS
    <3>2. Waits(d, s)
      BY <2>1, <3>1 DEF Channel
    <3>3. chan[s][d[1]] = <<>> /\ Len(chan[s][c[1]]) <= 1 /\ chan[s][c[1]][1].cseq = conn[d].connect_seq
      BY <1>1, <1>3, <2>2, <3>2 DEF Waits
    <3>4. Tail(chan[s][c[1]]) = <<>>
      BY <1>1, <1>3, <3>3, OneIs
    <3>5. QED BY <1>3, <2>2, <2>5, <3>3, <3>4
  <2>8. On(d, s, {"WAIT_CONNECT_REPLY"}) => Waits(d, s)'
    <3>1. Len(<<>>) = 0 /\ DOMAIN <<>> = {}
      OBVIOUS
    <3>2. QED BY <2>7, <3>1 DEF Waits
  <2>9. Channel(d, s)'
    BY <2>6, <2>8 DEF Channel
  <2>10. Pair(c, d, s)'
    BY <1>18, <2>6 DEF Pair
  <2>11. On(d, s, {"WAIT_CONNECT_REPLY"}) => Answered(d, c, s)'
    <3>1. On(d, s, {"WAIT_CONNECT_REPLY"}) => Identifies(d, s)'
      BY <2>7 DEF Identifies
    <3>2. conn'[c].at = "lookup" /\ conn'[c].msg = m
      BY <1>9, <1>10
    <3>3. QED BY <1>18, <2>7, <3>1, <3>2 DEF Answered
  <2>12. Pair(d, c, s)'
    BY <1>18, <2>6, <2>11 DEF Pair
  <2>13. QED BY <2>9, <2>10, <2>12
<1>21. \A t \in Sockets \ {s} : Keeps(c, t)
  BY <1>9, <1>10, SocketsAre DEF Keeps, Holds, Inherits
<1>22. Holds(c, s) /\ conn'[c].state # "FREE" /\ conn[c].state # "CLOSED"
  BY <1>1, <1>9, <1>10 DEF Holds
<1>23. UNCHANGED <<policy, conns, broken, failed, faults>>
  BY <1>1
<1> HIDE DEF r
<1>24. QED BY <1>2, <1>9, <1>11, <1>12, <1>13, <1>14, <1>15, <1>16, <1>17, <1>19, <1>20, <1>21,
              <1>22, <1>23, SocketStep

LEMMA ReplyWaitStep == ASSUME IInv, NEW c \in Conns, reply_wait(c) PROVE IInv'
<1> DEFINE r == conn[c]
           p == [r EXCEPT !.state = "WAIT"]
           h == [conn EXCEPT ![c] = p]
<1> PICK s : s = r.cs
  OBVIOUS
<1>1. /\ Reply(c, "WAIT") /\ conn' = fault(h, c) /\ chan' = Taken(c)
      /\ UNCHANGED <<policy, conns, global_seq, broken, failed, faults>>
  BY DEF reply_wait, Goes_on, Runs
<1>a. /\ Types /\ PlaceInv /\ SocketInv /\ RegistryInv /\ SharedInv /\ GlobalInv
      /\ AssertionsHold /\ conn \in Table /\ r \in Connections
  BY DEF IInv, Types, Table
<1>b. policy' = policy /\ conns' = conns /\ global_seq' = global_seq
  BY <1>1
<1>2. /\ s \in Sockets /\ r.state = "WAIT_CONNECT_REPLY" /\ r.at = ""
      /\ chan[s][c[1]] = <<Next_msg(c)>> /\ Shared(s)
  BY <1>1, <1>a, ReplyIs DEF SharedInv
<1>3. /\ p \in Connections /\ p.state = "WAIT" /\ p.cs = r.cs /\ p.new_cs = r.new_cs
      /\ p.swap = r.swap /\ p.existing = r.existing /\ p.gseq = r.gseq
      /\ p.peer_gseq = r.peer_gseq /\ p.once_ready = r.once_ready /\ p.queued = r.queued
      /\ p.msg = r.msg /\ p.connect_seq = r.connect_seq /\ p.lossy = r.lossy /\ p.at = ""
      /\ p.replacing = r.replacing
  <2>1. "WAIT" \in States
    BY DEF States
  <2>2. QED BY <1>a, <1>2, <2>1 DEF Connections
<1> HIDE DEF p
<1>4. h \in Table /\ h[c] = p /\ \A d \in Conns \ {c} : h[d] = conn[d]
  BY <1>a, <1>3 DEF Table
<1> HIDE DEF h
<1>5. Prepared(h, c)
  BY <1>2, <1>3, <1>4 DEF Prepared
<1>6. /\ Only(c) /\ PlaceInv' /\ SocketInv' /\ RegistryInv'
      /\ (\A d \in Conns : Given(d)')
      /\ \A t \in Sockets : \A d \in Conns : Keeps(d, t)
  BY <1>1, <1>5, <1>a, FaultStep
<1>7. conn'[c].state \in {"CLOSED", "STANDBY", "CONNECTING"}
  <2>1. Faulted(c[1], conn'[c], h[c])
    BY <1>1, <1>3, <1>4, FaultIs
  <2>2. QED BY <2>1 DEF Faulted
<1>8. chan[s][c[1]] # <<>>
  <2>1. <<Next_msg(c)>> # <<>>
    OBVIOUS
  <2>2. QED BY <1>2, <2>1
<1>9. /\ chan' \in Socketful /\ \A t \in Sockets \ {s} : chan'[t] = chan[t]
      /\ Took(c, s) /\ Silent(c, s)
  BY <1>a, <1>1, <1>2, <1>8, Reads_message
<1>11. /\ ~On(c, s, {"WAIT_IDENTIFY"})' /\ ~On(c, s, {"WAIT_CONNECT_REPLY"})'
       /\ ~On(c, s, {"CONNECT_MSG_AUTH"})' /\ ~On(c, s, {"WAIT_SEQ"})' /\ ~On(c, s, {"OPEN"})'
       /\ ~On(c, s, {"WAIT_SEQ", "OPEN"})' /\ ~Inherits(c, s)' /\ ~Accepts(c, s)'
  BY <1>7 DEF On, Inherits, Accepts, HalfAccepted
<1>12. Channel(c, s)'
  BY <1>11 DEF Channel
<1>13. ASSUME NEW d \in Conns, d[1] # c[1], Holds(d, s)
       PROVE  Channel(d, s)' /\ Pair(c, d, s)' /\ Pair(d, c, s)'
  <2>1. Pair(d, c, s) /\ Channel(d, s) /\ Pair(c, d, s)
    BY <1>2, <1>13 DEF Shared
  <2>2. ~On(d, s, {"WAIT_IDENTIFY"}) /\ ~On(d, s, {"WAIT_CONNECT_REPLY"})
    <3>1. Answered(c, d, s)
      BY <1>2, <2>1 DEF Pair, On
    <3>2. QED BY <3>1 DEF Answered, On
  <2>3. chan'[s][d[1]] = chan[s][d[1]]
    BY <1>9, <1>13, OtherReads
  <2>4. /\ conn'[d].cs = conn[d].cs /\ conn'[d].state = conn[d].state
        /\ conn'[d].connect_seq = conn[d].connect_seq /\ conn'[d].lossy = conn[d].lossy
        /\ conn'[d].at = conn[d].at /\ conn'[d].msg = conn[d].msg
        /\ Inherits(d, s)' <=> Inherits(d, s)
    <3>1. Alike(conn'[d], conn[d])
      BY <1>6, <1>13 DEF Only
    <3>2. QED BY <3>1, AlikeOn
  <2>5. /\ ~On(d, s, {"WAIT_IDENTIFY"})' /\ ~On(d, s, {"WAIT_CONNECT_REPLY"})'
        /\ Accepts(d, s)' <=> Accepts(d, s)
        /\ On(d, s, {"CONNECT_MSG_AUTH"})' <=> On(d, s, {"CONNECT_MSG_AUTH"})
    BY <2>2, <2>4 DEF On, Accepts
  <2>6. Channel(d, s)'
    <3>1. Decides(d) => Decides(d)'
      BY <2>4, <1>b DEF Decides, Lossy
    <3>2. QED BY <2>1, <2>3, <2>5, <3>1 DEF Channel
  <2>7. Pair(c, d, s)'
    BY <1>11 DEF Pair
  <2>8. Pair(d, c, s)'
    BY <1>11, <2>5 DEF Pair
  <2>9. QED BY <2>6, <2>7, <2>8
<1>14. SharedInv'
  <2>1. Holds(c, s) /\ \A d \in Conns \ {c} : Keeps(d, s)
    BY <1>2, <1>6 DEF Holds
  <2>2. Shared(s)'
    BY <2>1, <1>2, <1>12, <1>13, Exchange
  <2>3. \A d \in Conns : \A t \in Sockets \ {s} : Keeps(d, t)
    BY <1>6
  <2>4. QED BY <1>a, <1>b, <1>2, <1>9, <2>2, <2>3, Elsewhere
<1>15. GlobalInv'
  <2>1. global_seq' \in [Node -> Nat] /\ \A n \in Node : global_seq[n] <= global_seq'[n]
    BY <1>a, <1>b, Unbounded
  <2>2. \A n \in Node : Way(s, n)'
    BY <1>2, <1>8, <1>9, <1>a, <2>1, WaySent
  <2>3. \A t \in Sockets \ {s}, n \in Node : Way(t, n)'
    BY <1>a, <1>b, <1>9 DEF GlobalInv, Way
  <2>4. QED BY <1>6, <2>2, <2>3 DEF GlobalInv
<1>16. Types'
  BY <1>a, <1>1, <1>6, <1>9 DEF Types, Only, Table, Socketful
<1>17. AssertionsHold'
  BY <1>a, <1>1 DEF AssertionsHold
<1>18. QED BY <1>6, <1>14, <1>15, <1>16, <1>17 DEF IInv


-------------------------------------------------------------------------------
(* Steps of several connections, and steps that register one. *)

\* A connection that stays as it is, or is stopped.
Stays(d) ==
  \/ Alike(conn'[d], conn[d])
  \/ Stopped(conn'[d], conn[d]) /\ conn[d].state # "FREE"

Grows == /\ global_seq' \in [Node -> Nat]
         /\ \A n \in Node : global_seq[n] <= global_seq'[n]

LEMMA StaysIs ==
  ASSUME Types, NEW d \in Conns, Stays(d), Place(d), Socket(d), Given(d), policy' = policy, Grows
  PROVE  /\ Place(d)' /\ Socket(d)' /\ Given(d)'
         /\ \A s \in Sockets : Keeps(d, s)
         /\ conn[d].state = "CLOSED" => conn'[d].state = "CLOSED"
         /\ conn'[d].state = "FREE" => conn[d].state = "FREE"
         /\ conn'[d].at = conn[d].at /\ conn'[d].existing = conn[d].existing
         /\ conn'[d].state \in HalfAccepted =>
              conn[d].state \in HalfAccepted /\ conn'[d].replacing = conn[d].replacing
         /\ Claims(conn'[d]) => Claims(conn[d]) /\ conn'[d].state # "CLOSED"
<1> DEFINE r == conn[d]
           q == conn'[d]
<1>a. /\ global_seq'[d[1]] \in Nat /\ global_seq'[Peer(d[1])] \in Nat
      /\ GivenBy(r, d[1], global_seq')
  BY GivenLater, Nodes DEF Grows
<1>1. CASE Alike(q, r)
  <2>1. Place(d)'
    BY <1>1 DEF Place, Alike
  <2>2. Socket(d)'
    BY <1>1 DEF Socket, Alike
  <2>3. Given(d)'
    BY <1>1, <1>a DEF Given, GivenBy, Alike
  <2>4. \A s \in Sockets : Keeps(d, s)
    BY <1>1, AlikeKeeps
  <2>5. Claims(q) => Claims(r)
    BY <1>1 DEF Claims, Alike
  <2>6. Claims(q) => q.state # "CLOSED"
    BY <2>1 DEF Place, Claims, Registered, Connecting
  <2>7. QED BY <1>1, <2>1, <2>2, <2>3, <2>4, <2>5, <2>6 DEF Alike
<1>2. CASE Stopped(q, r) /\ r.state # "FREE"
  <2>1. Place(d)'
    BY <1>2 DEF Place, Stopped, Connecting
  <2>2. Socket(d)'
    BY <1>2 DEF Socket, Stopped, HalfAccepted
  <2>3. Given(d)'
    <3>1. Free.msg.tag = "NONE"
      BY DEF Free
    <3>2. QED BY <1>2, <1>a, <3>1 DEF Given, Stopped, Accepted
  <2>4. \A s \in Sockets : Keeps(d, s)
    BY <1>2, FadedKeeps DEF Stopped, Active
  <2>5. ~Claims(q)
    BY <1>2 DEF Claims, Stopped, Registered, Connecting
  <2>6. QED BY <1>2, <2>1, <2>2, <2>3, <2>4, <2>5 DEF Stopped, HalfAccepted
<1>3. QED BY <1>1, <1>2 DEF Stays

\* The connections C changed, of which one may be registered now.
Registering(C) ==
  /\ conns' \in [Node -> ConnPtr]
  /\ \A c \in C : /\ Registers(c)'
                  /\ conn[c].state = "CLOSED" => conn'[c].state = "CLOSED"
                  /\ conns'[c[1]] = c => conn'[c].state # "FREE"
  /\ \A n \in Node : \/ conns'[n] = conns[n]
                     \/ /\ conns'[n] \in C /\ conns'[n][1] = n
                        /\ \/ conns[n] \in {None, conns'[n]}
                           \/ conn'[conns[n]].state = "CLOSED"

LEMMA RegistryStays ==
  ASSUME IInv, NEW C \in SUBSET Conns, \A d \in Conns \ C : Stays(d), Registering(C),
         policy' = policy, Grows
  PROVE  RegistryInv'
<1>a. /\ Types /\ PlaceInv /\ SocketInv /\ RegistryInv /\ (\A d \in Conns : Given(d))
  BY DEF IInv, GlobalInv
<1>b. ASSUME NEW d \in Conns \ C
      PROVE  /\ conn[d].state = "CLOSED" => conn'[d].state = "CLOSED"
             /\ conn'[d].state = "FREE" => conn[d].state = "FREE"
             /\ conn'[d].at = conn[d].at /\ conn'[d].existing = conn[d].existing
             /\ conn'[d].state \in HalfAccepted =>
                  conn[d].state \in HalfAccepted /\ conn'[d].replacing = conn[d].replacing
             /\ Claims(conn'[d]) => Claims(conn[d]) /\ conn'[d].state # "CLOSED"
  BY <1>a, StaysIs DEF PlaceInv, SocketInv
<1>1. \A e \in Conns : conn[e].state = "CLOSED" => conn'[e].state = "CLOSED"
  BY <1>b DEF Registering
<1>2. ASSUME NEW n \in Node PROVE Entry(n)'
  <2>1. SUFFICES ASSUME conns'[n] # None
                 PROVE  conns'[n][1] = n /\ conn'[conns'[n]].state # "FREE"
    BY DEF Entry
  <2>2. conns'[n] \in Conns
    BY <2>1 DEF Registering, ConnPtr
  <2>3. conns'[n][1] = n
    BY <1>a, <2>1 DEF Registering, RegistryInv, Entry
  <2>4. CASE conns'[n] \in C
    BY <2>3, <2>4 DEF Registering
  <2>5. CASE conns'[n] \notin C
    BY <1>a, <1>b, <2>1, <2>2, <2>5 DEF Registering, RegistryInv, Entry
  <2>6. QED BY <2>3, <2>4, <2>5
<1>3. ASSUME NEW d \in Conns \ C PROVE Registers(d)'
  <2>1. Registers(d) /\ d[1] \in Node /\ d # None
    BY <1>a, Nodes, NoneIs DEF RegistryInv
  <2>2. \/ conns'[d[1]] = conns[d[1]]
        \/ /\ conns'[d[1]] \in C
           /\ \/ conns[d[1]] \in {None, conns'[d[1]]}
              \/ conn'[conns[d[1]]].state = "CLOSED"
    BY <2>1 DEF Registering
  <2>3. Claims(conn'[d]) => conns'[d[1]] = d
    <3>1. SUFFICES ASSUME Claims(conn'[d]) PROVE conns'[d[1]] = d
      OBVIOUS
    <3>2. conns[d[1]] = d /\ conn'[d].state # "CLOSED"
      BY <1>b, <2>1, <3>1 DEF Registers
    <3>3. QED BY <2>1, <2>2, <3>2
  <2>4. conn'[d].state \in HalfAccepted /\ conns'[d[1]] = d =>
          conn'[d].replacing \/ conn'[d].at = "accepted"
    BY <1>b, <2>1, <2>2 DEF Registers
  <2>5. conn[d].existing \in ConnPtr
    BY <1>a DEF Types, Connections
  <2>6. ASSUME conn[d].at = "lookup", conn[d].existing # None
        PROVE  /\ conn[d].existing[1] = d[1]
               /\ conns'[d[1]] = conn[d].existing \/ conn'[conn[d].existing].state = "CLOSED"
    <3>1. /\ conn[d].existing[1] = d[1]
          /\ conns[d[1]] = conn[d].existing \/ conn[conn[d].existing].state = "CLOSED"
      BY <2>1, <2>6 DEF Registers
    <3>2. conn[d].existing \in Conns
      BY <2>5, <2>6 DEF ConnPtr
    <3>3. QED BY <1>1, <2>2, <2>6, <3>1, <3>2
  <2>7. conn'[d].at = conn[d].at /\ conn'[d].existing = conn[d].existing
    BY <1>b
  <2>8. QED BY <2>3, <2>4, <2>6, <2>7 DEF Registers
<1>4. QED BY <1>2, <1>3 DEF RegistryInv, Registering

LEMMA WayLater ==
  ASSUME Types, GlobalInv, Grows, NEW s \in Sockets, NEW n \in Node
  PROVE  \A i \in DOMAIN chan[s][n] : GivenTo(global_seq', n, chan[s][n][i])
<1>1. ASSUME NEW i \in DOMAIN chan[s][n] PROVE GivenTo(global_seq', n, chan[s][n][i])
  <2>1. chan[s][n][i] \in Message
    BY DEF Types
  <2>2. chan[s][n][i].gseq \in Nat
    BY <2>1 DEF Message
  <2>3. Peer(n) \in Node /\ global_seq[Peer(n)] \in Nat /\ global_seq'[Peer(n)] \in Nat
    BY Nodes DEF Types, Grows
  <2>4. GivenTo(global_seq, n, chan[s][n][i])
    BY DEF GlobalInv, Way
  <2>5. QED BY <2>2, <2>3, <2>4 DEF GivenTo, Grows
<1>2. QED BY <1>1

LEMMA StaysStep ==
  ASSUME IInv, NEW C \in SUBSET Conns, conn' \in Table, \A d \in Conns \ C : Stays(d),
         \A c \in C : Place(c)' /\ Socket(c)' /\ Given(c)',
         RegistryInv', SharedInv', Grows, \A s \in Sockets, n \in Node : Way(s, n)',
         conns' \in [Node -> ConnPtr], chan' \in Socketful, broken' \subseteq Sockets,
         faults' \in Nat, policy' = policy, failed' = failed
  PROVE  IInv'
<1>a. Types /\ PlaceInv /\ SocketInv /\ (\A d \in Conns : Given(d)) /\ AssertionsHold
  BY DEF IInv, GlobalInv
<1>1. \A d \in Conns : Place(d)' /\ Socket(d)' /\ Given(d)'
  BY <1>a, StaysIs DEF PlaceInv, SocketInv
<1>2. PlaceInv' /\ SocketInv' /\ GlobalInv'
  BY <1>1 DEF PlaceInv, SocketInv, GlobalInv
<1>3. Types'
  BY <1>a DEF Types, Table, Socketful, Grows
<1>4. AssertionsHold'
  BY <1>a DEF AssertionsHold
<1>5. QED BY <1>2, <1>3, <1>4 DEF IInv

\* One in which nothing happens on any socket.
LEMMA QuietStaysStep ==
  ASSUME IInv, NEW C \in SUBSET Conns, conn' \in Table, \A d \in Conns \ C : Stays(d),
         \A c \in C : Place(c)' /\ Socket(c)' /\ Given(c)',
         \A c \in C : \A s \in Sockets : Keeps(c, s),
         RegistryInv', conns' \in [Node -> ConnPtr],
         UNCHANGED <<policy, global_seq, chan, broken, failed, faults>>
  PROVE  IInv'
<1>a. /\ Types /\ PlaceInv /\ SocketInv /\ SharedInv /\ GlobalInv
      /\ \A d \in Conns : Given(d)
  BY DEF IInv, GlobalInv
<1>b. /\ policy' = policy /\ global_seq' = global_seq /\ chan' = chan /\ broken' = broken
      /\ failed' = failed /\ faults' = faults
  OBVIOUS
<1>1. Grows
  BY <1>a, <1>b, Unbounded DEF Grows
<1>2. \A d \in Conns \ C : \A s \in Sockets : Keeps(d, s)
  BY <1>a, <1>b, <1>1, StaysIs DEF PlaceInv, SocketInv
<1>3. SharedInv'
  BY <1>a, <1>b, <1>2, Quiet
<1>4. \A s \in Sockets, n \in Node : Way(s, n)'
  BY <1>a, <1>b, WayKept
<1>5. chan' \in Socketful /\ broken' \subseteq Sockets /\ faults' \in Nat
  BY <1>a, <1>b DEF Types, Socketful
<1>6. QED BY <1>b, <1>1, <1>3, <1>4, <1>5, StaysStep


\* A step of c after which it has no more to do with its socket than before.
LEMMA WakeStep == ASSUME IInv, NEW c \in Conns, wake_standby(c) PROVE IInv'
<1> DEFINE r == conn[c]
           q == [r EXCEPT !.state = "CONNECTING"]
<1>1. /\ r.state = "STANDBY" /\ c[1] \notin policy.server /\ conn' = [conn EXCEPT ![c] = q]
      /\ UNCHANGED <<policy, conns, global_seq, chan, broken, failed, faults>>
  BY DEF wake_standby, _connect, Goes_on, Runs
<1>a. /\ Types /\ Place(c) /\ Socket(c) /\ Registers(c) /\ Given(c) /\ r \in Connections
  BY DEF IInv, Types, PlaceInv, SocketInv, RegistryInv, GlobalInv
<1>b. policy' = policy /\ conns' = conns /\ global_seq' = global_seq
  BY <1>1
<1>2. /\ q \in Connections /\ q.state = "CONNECTING" /\ q.cs = r.cs /\ q.new_cs = r.new_cs
      /\ q.swap = r.swap /\ q.at = r.at /\ q.existing = r.existing /\ q.gseq = r.gseq
      /\ q.peer_gseq = r.peer_gseq /\ q.msg = r.msg
  <2>1. "CONNECTING" \in States
    BY DEF States, Registered, Connecting
  <2>2. QED BY <1>a, <2>1 DEF Connections
<1> HIDE DEF q
<1>3. Only(c) /\ conn'[c] = q
  BY <1>a, <1>1, <1>2, Assigned
<1>4. Place(c)'
  BY <1>a, <1>b, <1>1, <1>2, <1>3 DEF Place
<1>5. Socket(c)'
  BY <1>a, <1>1, <1>2, <1>3 DEF Socket, HalfAccepted
<1>6. Registers(c)'
  <2>1. Claims(r)
    BY <1>1 DEF Claims, Registered
  <2>2. r.at # "lookup"
    BY <1>a, <1>1 DEF Place
  <2>3. QED BY <1>a, <1>b, <1>2, <1>3, <2>1, <2>2 DEF Registers, HalfAccepted
<1>7. Given(c)'
  BY <1>a, <1>b, <1>2, <1>3 DEF Given
<1>8. \A s \in Sockets : Keeps(c, s)
  BY <1>2, <1>3, FadedKeeps DEF Active
<1>9. faults' \in Nat /\ conn'[c].state # "FREE" /\ r.state # "CLOSED"
  BY <1>a, <1>1, <1>2, <1>3 DEF Types
<1>10. QED BY <1>1, <1>3, <1>4, <1>5, <1>6, <1>7, <1>8, <1>9, QuietStep

LEMMA StateChangedStep == ASSUME IInv, NEW c \in Conns, state_changed(c) PROVE IInv'
<1> DEFINE r == conn[c]
           q == [r EXCEPT !.at = "", !.existing = None, !.msg = Free.msg]
<1>a. /\ Types /\ Place(c) /\ Socket(c) /\ Registers(c) /\ Given(c) /\ r \in Connections
      /\ GlobalInv
  BY DEF IInv, Types, PlaceInv, SocketInv, RegistryInv, GlobalInv
<1>1. r.at = "lookup" /\ r.state = "CLOSED"
  BY <1>a DEF state_changed, Place
<1>2. /\ conn' = [conn EXCEPT ![c] = q]
      /\ UNCHANGED <<policy, conns, global_seq, chan, broken, failed, faults>>
  BY <1>1 DEF state_changed, Goes_on, Runs
<1>b. policy' = policy /\ conns' = conns /\ global_seq' = global_seq
  BY <1>2
<1>3. /\ q \in Connections /\ q.state = r.state /\ q.cs = r.cs /\ q.new_cs = r.new_cs
      /\ q.swap = r.swap /\ q.at = "" /\ q.existing = None /\ q.gseq = r.gseq
      /\ q.peer_gseq = r.peer_gseq /\ q.msg = Free.msg /\ q.once_ready = r.once_ready
      /\ q.queued = r.queued /\ q.replacing = r.replacing
  <2>1. "" \in Places /\ None \in ConnPtr /\ Free.msg \in Message
    BY DEF Places, ConnPtr, Free, Message
  <2>2. QED BY <1>a, <2>1 DEF Connections
<1> HIDE DEF q
<1>4. Only(c) /\ conn'[c] = q
  BY <1>a, <1>2, <1>3, Assigned
<1>5. Place(c)'
  BY <1>a, <1>b, <1>1, <1>3, <1>4 DEF Place, Connecting
<1>6. Socket(c)'
  BY <1>a, <1>1, <1>3, <1>4 DEF Socket
<1>7. Registers(c)'
  <2>1. ~Claims(q)
    BY <1>a, <1>1, <1>3 DEF Claims, Place, Registered, Connecting
  <2>2. QED BY <1>1, <1>3, <1>4, <2>1 DEF Registers, HalfAccepted
<1>8. Given(c)'
  <2>1. Free.msg.tag = "NONE"
    BY DEF Free
  <2>2. QED BY <1>a, <1>b, <1>3, <1>4, <2>1 DEF Given, Accepted
<1>9. \A s \in Sockets : Keeps(c, s)
  BY <1>1, <1>3, <1>4, FadedKeeps DEF Active
<1>10. faults' \in Nat /\ conn'[c].state # "FREE" /\ conn'[c].state = "CLOSED"
  BY <1>a, <1>1, <1>2, <1>3, <1>4 DEF Types
<1>11. QED BY <1>2, <1>4, <1>5, <1>6, <1>7, <1>8, <1>9, <1>10, QuietStep

\* The replaced connection lets go of its old socket, or of the new one.
LEMMA DeactivateStep == ASSUME IInv, NEW c \in Conns, deactivate(c) PROVE IInv'
<1> DEFINE r == conn[c]
           q == IF r.state = "NONE"
                THEN [r EXCEPT !.cs = r.new_cs, !.new_cs = 0, !.swap = "transfer"]
                ELSE [r EXCEPT !.new_cs = 0, !.swap = ""]
<1>a. /\ Types /\ Place(c) /\ Socket(c) /\ Registers(c) /\ Given(c) /\ r \in Connections
  BY DEF IInv, Types, PlaceInv, SocketInv, RegistryInv, GlobalInv
<1>1. r.swap = "deactivate" /\ r.at = "" /\ r.state \in {"NONE", "CLOSED"}
  BY <1>a DEF deactivate, Socket
<1>2. /\ conn' = [conn EXCEPT ![c] = q]
      /\ UNCHANGED <<policy, conns, global_seq, chan, broken, failed, faults>>
  BY <1>1 DEF deactivate, Goes_on, Runs
<1>b. policy' = policy /\ conns' = conns /\ global_seq' = global_seq
  BY <1>2
<1>3. /\ q \in Connections /\ q.state = r.state /\ q.new_cs = 0 /\ q.at = "" 
      /\ q.existing = r.existing /\ q.gseq = r.gseq /\ q.peer_gseq = r.peer_gseq
      /\ q.msg = r.msg /\ q.once_ready = r.once_ready /\ q.queued = r.queued
      /\ q.replacing = r.replacing
      /\ r.state = "NONE" => q.cs = r.new_cs /\ q.swap = "transfer"
      /\ r.state = "CLOSED" => q.cs = r.cs /\ q.swap = ""
  <2>1. {"", "transfer"} \subseteq Swaps /\ 0 \in Ends /\ r.new_cs \in Ends
    BY <1>a DEF Swaps, Ends, Connections
  <2>2. CASE r.state = "NONE"
    <3>1. q = [r EXCEPT !.cs = r.new_cs, !.new_cs = 0, !.swap = "transfer"]
      BY <2>2
    <3>2. QED BY <1>a, <1>1, <2>1, <2>2, <3>1 DEF Connections
  <2>3. CASE r.state = "CLOSED"
    <3>1. q = [r EXCEPT !.new_cs = 0, !.swap = ""]
      BY <2>3
    <3>2. QED BY <1>a, <1>1, <2>1, <2>3, <3>1 DEF Connections
  <2>4. QED BY <1>1, <2>2, <2>3
<1> HIDE DEF q
<1>4. Only(c) /\ conn'[c] = q
  BY <1>a, <1>2, <1>3, Assigned
<1>5. Place(c)'
  BY <1>a, <1>b, <1>1, <1>3, <1>4 DEF Place, Connecting
<1>6. Socket(c)'
  BY <1>a, <1>1, <1>3, <1>4 DEF Socket, HalfAccepted
<1>7. Registers(c)'
  <2>1. Claims(q) => Claims(r)
    BY <1>1, <1>3 DEF Claims
  <2>2. QED BY <1>a, <1>b, <1>1, <1>3, <1>4, <2>1 DEF Registers, HalfAccepted
<1>8. Given(c)'
  BY <1>a, <1>b, <1>3, <1>4 DEF Given
<1>9. \A s \in Sockets : Keeps(c, s)
  <2>1. CASE r.state = "NONE"
    BY <1>1, <1>3, <1>4, <2>1, SocketsAre DEF Keeps, Holds, Inherits, Active
  <2>2. CASE r.state = "CLOSED"
    BY <1>3, <1>4, <2>2, FadedKeeps DEF Active
  <2>3. QED BY <1>1, <2>1, <2>2
<1>10. faults' \in Nat /\ conn'[c].state # "FREE" /\ conn'[c].state = r.state
  BY <1>a, <1>1, <1>2, <1>3, <1>4 DEF Types
<1>11. QED BY <1>2, <1>4, <1>5, <1>6, <1>7, <1>8, <1>9, <1>10, QuietStep

\* The tick event: the connection is found idle and fails, or the event is not
\* set again.
LEMMA TickStep == ASSUME IInv, NEW c \in Conns, tick(c) PROVE IInv'
<1> DEFINE r == conn[c]
           q == [r EXCEPT !.tick = FALSE]
           h == [conn EXCEPT ![c] = q]
<1>1. /\ r.state \notin {"CLOSED", "FREE"} /\ r.at = ""
      /\ \/ conn' = fault(h, c) /\ faults' = faults + 1
         \/ conn' = h /\ faults' = faults
      /\ UNCHANGED <<policy, conns, global_seq, chan, broken, failed>>
  BY DEF tick, Runs
<1>a. /\ Types /\ Place(c) /\ Socket(c) /\ Registers(c) /\ Given(c) /\ r \in Connections
      /\ conn \in Table
  BY DEF IInv, Types, PlaceInv, SocketInv, RegistryInv, GlobalInv, Table
<1>b. policy' = policy /\ conns' = conns /\ global_seq' = global_seq
  BY <1>1
<1>2. /\ q \in Connections /\ q.state = r.state /\ q.cs = r.cs /\ q.new_cs = r.new_cs
      /\ q.swap = r.swap /\ q.at = r.at /\ q.existing = r.existing /\ q.gseq = r.gseq
      /\ q.peer_gseq = r.peer_gseq /\ q.msg = r.msg /\ q.once_ready = r.once_ready
      /\ q.queued = r.queued /\ q.replacing = r.replacing /\ q.connect_seq = r.connect_seq
      /\ q.lossy = r.lossy
  BY <1>a DEF Connections
<1>3. h \in Table /\ h[c] = q /\ \A d \in Conns \ {c} : h[d] = conn[d]
  BY <1>a, <1>2 DEF Table
<1>4. faults' \in Nat
  <2>1. faults \in Nat /\ faults' \in {faults, faults + 1}
    BY <1>a, <1>1 DEF Types
  <2> HIDE DEF h, q, r
  <2>2. QED BY <2>1
<1>5. CASE conn' = fault(h, c)
  <2> HIDE DEF h, q
  <2>1. Prepared(h, c)
    BY <1>1, <1>2, <1>3 DEF Prepared
  <2>2. QED BY <1>1, <1>4, <1>5, <2>1, FaultKept
<1>6. CASE conn' = h
  <2>1. conn' = [conn EXCEPT ![c] = q]
    BY <1>6
  <2> HIDE DEF h, q
  <2>2. Only(c) /\ conn'[c] = q
    BY <1>a, <1>2, <2>1, Assigned
  <2>3. Place(c)'
    BY <1>a, <1>b, <1>2, <2>2 DEF Place
  <2>4. Socket(c)'
    BY <1>a, <1>2, <2>2 DEF Socket
  <2>5. Registers(c)'
    <3>1. Claims(q) => Claims(r)
      BY <1>2 DEF Claims
    <3>2. QED BY <1>a, <1>b, <1>1, <1>2, <2>2, <3>1 DEF Registers
  <2>6. Given(c)'
    BY <1>a, <1>b, <1>2, <2>2 DEF Given
  <2>7. \A s \in Sockets : Keeps(c, s)
    BY <1>2, <2>2, SameKeeps
  <2>8. conn'[c].state # "FREE" /\ r.state # "CLOSED"
    BY <1>1, <1>2, <2>2
  <2>9. QED BY <1>1, <1>4, <2>2, <2>3, <2>4, <2>5, <2>6, <2>7, <2>8, QuietStep
<1>7. QED BY <1>1, <1>5, <1>6

LEMMA BreakStep == ASSUME IInv, NEW s \in Sockets, break(s) PROVE IInv'
<1>1. /\ faults' = faults + 1 /\ broken' = broken \cup {s}
      /\ UNCHANGED <<policy, conn, conns, global_seq, chan, failed>>
  BY DEF break, Runs
<1>2. broken' \subseteq Sockets /\ faults' \in Nat
  BY <1>1 DEF IInv, Types
<1>3. failed' \in {"none", "accept_conn"}
  BY <1>1 DEF IInv, AssertionsHold
<1>4. QED BY <1>1, <1>2, <1>3, SameStep

\* A message is sent on the registered connection, or on a new one.
LEMMA SendMessageStep == ASSUME IInv, NEW n \in Node, send_message(n) PROVE IInv'
<1>a. /\ Types /\ PlaceInv /\ SocketInv /\ RegistryInv /\ GlobalInv /\ conn \in Table
  BY DEF IInv, Types, Table
<1>1. CASE lookup(n) # None
  <2>1. lookup(n) = conns[n] /\ lookup(n) \in Conns /\ lookup(n)[1] = n
        /\ conn[lookup(n)].state \notin {"CLOSED", "FREE"}
    BY <1>1, LookupIs
  <2> PICK c \in Conns : c = lookup(n)
    BY <2>1
  <2> DEFINE r == conn[c]
             q == [r EXCEPT !.queued = TRUE]
  <2>2. /\ conn' = [conn EXCEPT ![c] = q]
        /\ UNCHANGED <<policy, conns, global_seq, chan, broken, failed, faults>>
    BY <1>1 DEF send_message, Goes_on, Runs
  <2>b. policy' = policy /\ conns' = conns /\ global_seq' = global_seq
    BY <2>2
  <2>3. /\ Place(c) /\ Socket(c) /\ Registers(c) /\ Given(c) /\ r \in Connections
        /\ conns[c[1]] = c /\ r.state \notin {"CLOSED", "FREE"}
    BY <1>a, <2>1 DEF Types, PlaceInv, SocketInv, RegistryInv, GlobalInv
  <2>4. /\ q \in Connections /\ q.state = r.state /\ q.cs = r.cs /\ q.new_cs = r.new_cs
        /\ q.swap = r.swap /\ q.at = r.at /\ q.existing = r.existing /\ q.gseq = r.gseq
        /\ q.peer_gseq = r.peer_gseq /\ q.msg = r.msg /\ q.once_ready = r.once_ready
        /\ q.replacing = r.replacing /\ q.connect_seq = r.connect_seq
        /\ q.lossy = r.lossy
    BY <2>3 DEF Connections
  <2> HIDE DEF q
  <2>5. Only(c) /\ conn'[c] = q
    BY <1>a, <2>2, <2>4, Assigned
  <2>6. Place(c)'
    BY <2>b, <2>3, <2>4, <2>5 DEF Place
  <2>7. Socket(c)'
    BY <2>3, <2>4, <2>5 DEF Socket
  <2>8. Registers(c)'
    <3>1. r.existing \in ConnPtr
      BY <2>3 DEF Connections
    <3>2. \A e \in Conns : conn[e].state = "CLOSED" => conn'[e].state = "CLOSED"
      BY <2>3, <2>5 DEF Only, Alike
    <3>3. QED BY <2>b, <2>3, <2>4, <2>5, <3>1, <3>2 DEF Registers, ConnPtr
  <2>9. Given(c)'
    BY <2>b, <2>3, <2>4, <2>5 DEF Given
  <2>10. \A s \in Sockets : Keeps(c, s)
    BY <2>4, <2>5, SameKeeps
  <2>11. conn'[c].state # "FREE" /\ r.state # "CLOSED" /\ faults' \in Nat
    BY <1>a, <2>2, <2>3, <2>4, <2>5 DEF Types
  <2>12. QED BY <2>2, <2>5, <2>6, <2>7, <2>8, <2>9, <2>10, <2>11, QuietStep
<1>2. CASE lookup(n) = None
  <2>1. n \notin policy.server /\ FreeConns(n) # {}
    BY <1>2 DEF send_message
  <2>2. NewConn(n) \in Conns /\ NewConn(n)[1] = n /\ conn[NewConn(n)].state = "FREE"
    BY <2>1, NewConnIs
  <2> PICK c \in Conns : c = NewConn(n)
    BY <2>2
  <2> DEFINE l == n \in policy.lossy
             q == [[Free EXCEPT !.queued = TRUE, !.lossy = l] EXCEPT !.state = "CONNECTING"]
  <2>3. /\ conn' = [conn EXCEPT ![c] = q] /\ conns' = [conns EXCEPT ![n] = c]
        /\ UNCHANGED <<policy, global_seq, chan, broken, failed, faults>>
    BY <1>2 DEF send_message, Goes_on, Runs, _connect
  <2>b. /\ policy' = policy /\ global_seq' = global_seq /\ chan' = chan /\ broken' = broken
        /\ failed' = failed /\ faults' = faults
    BY <2>3
  <2>4. /\ q \in Connections /\ q.state = "CONNECTING" /\ q.cs = 0 /\ q.new_cs = 0
        /\ q.swap = "" /\ q.at = "" /\ q.gseq = 0 /\ q.peer_gseq = 0 /\ q.msg = Free.msg
    <3>1. "CONNECTING" \in States /\ l \in BOOLEAN
      BY DEF States, Registered, Connecting
    <3>2. q = [Free EXCEPT !.queued = TRUE, !.lossy = l, !.state = "CONNECTING"]
      BY DEF Free
    <3> HIDE DEF l, q
    <3>3. q \in Connections
      BY <3>1, <3>2, FreeIs DEF Connections
    <3>4. QED BY <3>2, <3>3 DEF Free
  <2> HIDE DEF q
  <2>5. Only(c) /\ conn'[c] = q
    BY <1>a, <2>3, <2>4, Assigned
  <2>6. c[1] = n /\ conn[c].state = "FREE" /\ n \in Node
    BY <2>2
  <2>7. Place(c)'
    BY <2>b, <2>1, <2>4, <2>5, <2>6 DEF Place
  <2>8. Socket(c)'
    BY <2>4, <2>5 DEF Socket, HalfAccepted
  <2>9. conns' \in [Node -> ConnPtr] /\ conns'[n] = c /\ \A m \in Node : m # n => conns'[m] = conns[m]
    <3>1. conns \in [Node -> ConnPtr] /\ c \in ConnPtr
      BY <1>a DEF Types, ConnPtr
    <3>2. QED BY <2>3, <3>1
  <2>10. Registers(c)'
    BY <2>4, <2>5, <2>6, <2>9 DEF Registers, HalfAccepted
  <2>11. Given(c)'
    <3>1. Free.msg.tag = "NONE"
      BY DEF Free
    <3>2. global_seq'[c[1]] \in Nat /\ global_seq'[Peer(c[1])] \in Nat
      <4>1. global_seq \in [Node -> Nat]
        BY <1>a DEF Types
      <4>2. QED BY <4>1, <2>b, Nodes
    <3>3. conn'[c].gseq = 0 /\ conn'[c].peer_gseq = 0 /\ conn'[c].msg.tag = "NONE"
      BY <2>4, <2>5, <3>1
    <3>4. QED BY <3>2, <3>3 DEF Given, Accepted
  <2>12. \A s \in Sockets : Keeps(c, s)
    BY <2>4, <2>5, FadedKeeps DEF Active
  <2>13. \A d \in Conns \ {c} : Stays(d)
    BY <2>5 DEF Only, Stays
  <2>14. conns[n] = None \/ conn'[conns[n]].state = "CLOSED"
    <3>1. conns[n] = None \/ conn[conns[n]].state = "CLOSED"
      BY <1>2, NoneIs DEF lookup
    <3>2. conns[n] # None => conns[n] \in Conns
      BY <1>a DEF Types, ConnPtr
    <3>3. QED BY <2>5, <2>6, <3>1, <3>2 DEF Only, Alike
  <2>15. Registering({c})
    BY <2>4, <2>5, <2>6, <2>9, <2>10, <2>14 DEF Registering
  <2>16. RegistryInv'
    <3>1. Grows
      BY <1>a, <2>b, Unbounded DEF Grows
    <3>2. QED BY <2>b, <2>13, <2>15, <3>1, RegistryStays
  <2>17. conn' \in Table
    BY <2>5 DEF Only
  <2>18. /\ {c} \in SUBSET Conns
         /\ \A d \in {c} : /\ Place(d)' /\ Socket(d)' /\ Given(d)'
                          /\ \A s \in Sockets : Keeps(d, s)
    BY <2>7, <2>8, <2>11, <2>12
  <2>19. conns' \in [Node -> ConnPtr] /\ UNCHANGED <<policy, global_seq, chan, broken, failed, faults>>
    BY <2>3, <2>9
  <2>20. QED BY <2>13, <2>16, <2>17, <2>18, <2>19, QuietStaysStep
<1>3. QED BY <1>1, <1>2


\* Messages are exchanged: only what the two ends remember of their session changes,
\* and whether c has more to send.
LEMMA DeliverStep == ASSUME IInv, NEW c \in Conns, deliver(c) PROVE IInv'
<1> PICK d \in Conns, left \in BOOLEAN :
      /\ conn[c].state = "OPEN" /\ conn[c].queued /\ d[1] = Peer(c[1])
      /\ conn' = [conn EXCEPT ![c].queued = left, ![c].out_to = d, ![d].in_of = c]
      /\ UNCHANGED <<policy, conns, global_seq, chan, broken, failed, faults>>
  BY DEF deliver, Goes_on, Runs
<1> DEFINE r == conn[c]
           q == [r EXCEPT !.queued = left, !.out_to = d]
           p == [conn[d] EXCEPT !.in_of = c]
<1>a. /\ Types /\ Place(c) /\ Socket(c) /\ Registers(c) /\ Given(c) /\ r \in Connections
      /\ conn[d] \in Connections /\ conn \in Table
  BY DEF IInv, Types, PlaceInv, SocketInv, RegistryInv, GlobalInv, Table
<1>b. policy' = policy /\ conns' = conns /\ global_seq' = global_seq
  OBVIOUS
<1>1. c # d
  BY Nodes
<1>2. /\ q \in Connections /\ q.state = r.state /\ q.cs = r.cs /\ q.new_cs = r.new_cs
      /\ q.swap = r.swap /\ q.at = r.at /\ q.existing = r.existing /\ q.gseq = r.gseq
      /\ q.peer_gseq = r.peer_gseq /\ q.msg = r.msg /\ q.once_ready = r.once_ready
      /\ q.replacing = r.replacing /\ q.connect_seq = r.connect_seq /\ q.lossy = r.lossy
  <2>1. d \in Sessions
    BY DEF Sessions, ConnPtr
  <2>2. QED BY <1>a, <2>1 DEF Connections
<1>3. p \in Connections /\ Alike(p, conn[d])
  <2>1. c \in Sessions
    BY DEF Sessions, ConnPtr
  <2>2. QED BY <1>a, <2>1 DEF Connections, Alike
<1>4. conn' = [conn EXCEPT ![c] = q, ![d] = p]
  BY <1>1, <1>a DEF Table, Connections
<1> HIDE DEF q, p
<1>5. Only(c) /\ conn'[c] = q
  <2>1. conn' \in Table /\ conn'[c] = q /\ conn'[d] = p /\ \A e \in Conns \ {c, d} : conn'[e] = conn[e]
    BY <1>a, <1>1, <1>2, <1>3, <1>4 DEF Table
  <2>2. \A e \in Conns : Alike(conn[e], conn[e])
    BY DEF Alike
  <2>3. QED BY <1>3, <2>1, <2>2 DEF Only
<1>6. Place(c)'
  BY <1>a, <1>b, <1>2, <1>5 DEF Place
<1>7. Socket(c)'
  BY <1>a, <1>2, <1>5 DEF Socket
<1>8. Registers(c)'
  <2>1. Claims(r) /\ r.at # "lookup"
    BY <1>a DEF Claims, Registered, Place
  <2>2. QED BY <1>a, <1>b, <1>2, <1>5, <2>1 DEF Registers
<1>9. Given(c)'
  BY <1>a, <1>b, <1>2, <1>5 DEF Given
<1>10. \A s \in Sockets : Keeps(c, s)
  BY <1>2, <1>5, SameKeeps
<1>11. faults' \in Nat /\ conn'[c].state # "FREE" /\ r.state # "CLOSED"
  BY <1>a, <1>2, <1>5 DEF Types
<1>12. QED BY <1>5, <1>6, <1>7, <1>8, <1>9, <1>10, <1>11, QuietStep

\* The object is gone, and with it the entry for it.
LEMMA DestroyStep == ASSUME IInv, NEW c \in Conns, destroy(c) PROVE IInv'
<1>1. /\ conn[c].state = "CLOSED" /\ ~Referenced(c) /\ conn' = [conn EXCEPT ![c] = Free]
      /\ conns' = [n \in Node |-> IF conns[n] = c THEN None ELSE conns[n]]
      /\ UNCHANGED <<policy, global_seq, chan, broken, failed, faults>>
  BY DEF destroy, Goes_on, Runs
<1>a. /\ Types /\ PlaceInv /\ SocketInv /\ RegistryInv /\ GlobalInv
  BY DEF IInv
<1>b. policy' = policy /\ global_seq' = global_seq
  BY <1>1
<1>2. Only(c) /\ conn'[c] = Free
  BY <1>a, <1>1, FreeIs, Assigned
<1>3. /\ Free.state = "FREE" /\ Free.cs = 0 /\ Free.new_cs = 0 /\ Free.swap = "" /\ Free.at = ""
      /\ Free.gseq = 0 /\ Free.peer_gseq = 0 /\ Free.msg.tag = "NONE" /\ Free.existing = None
      /\ ~Free.once_ready /\ ~Free.queued /\ ~Free.replacing
  BY DEF Free
<1> HIDE DEF Free
<1>4. Place(c)'
  BY <1>2, <1>3 DEF Place, Connecting
<1>5. Socket(c)'
  BY <1>2, <1>3 DEF Socket, HalfAccepted
<1>6. Given(c)'
  <2>1. global_seq'[c[1]] \in Nat /\ global_seq'[Peer(c[1])] \in Nat
    <3>1. global_seq \in [Node -> Nat]
      BY <1>a DEF Types
    <3>2. QED BY <3>1, <1>b, Nodes
  <2>2. conn'[c].gseq = 0 /\ conn'[c].peer_gseq = 0 /\ conn'[c].msg.tag = "NONE"
    BY <1>2, <1>3
  <2>3. QED BY <2>1, <2>2 DEF Given, Accepted
<1>7. \A s \in Sockets : Keeps(c, s)
  BY <1>2, <1>3, FadedKeeps DEF Active
<1>8. \A d \in Conns \ {c} : Alike(conn'[d], conn[d])
  BY <1>2 DEF Only
<1>9. /\ conns' \in [Node -> ConnPtr]
      /\ \A n \in Node : /\ conns'[n] \in {None, conns[n]} /\ conns'[n] # c
                         /\ conns[n] # c => conns'[n] = conns[n]
  <2>1. \A n \in Node : conns[n] \in ConnPtr
    BY <1>a DEF Types
  <2>2. None \in ConnPtr /\ None # c
    BY NoneIs DEF ConnPtr
  <2>3. QED BY <1>1, <2>1, <2>2
<1>10. ASSUME NEW n \in Node PROVE Entry(n)'
  <2>1. conns'[n] # None => conns'[n] \in Conns \ {c} /\ conns'[n] = conns[n]
    BY <1>9 DEF ConnPtr
  <2>2. QED BY <1>a, <1>8, <2>1 DEF RegistryInv, Entry, Alike
<1>11. ASSUME NEW d \in Conns \ {c} PROVE Registers(d)'
  <2>1. Registers(d) /\ Alike(conn'[d], conn[d]) /\ d[1] \in Node /\ d # None
    BY <1>a, <1>8, Nodes, NoneIs DEF RegistryInv
  <2>2. Claims(conn'[d]) => Claims(conn[d])
    BY <2>1 DEF Claims, Alike
  <2>3. Claims(conn'[d]) => conns'[d[1]] = d
    BY <1>9, <2>1, <2>2 DEF Registers
  <2>4. conn'[d].state \in HalfAccepted /\ conns'[d[1]] = d =>
          conn'[d].replacing \/ conn'[d].at = "accepted"
    BY <1>9, <2>1 DEF Registers, Alike
  <2>5. ASSUME conn'[d].at = "lookup", conn'[d].existing # None
        PROVE  /\ conn'[d].existing[1] = d[1]
               /\ conns'[d[1]] = conn'[d].existing \/ conn'[conn'[d].existing].state = "CLOSED"
    <3>1. conn[d].at = "lookup" /\ conn[d].existing = conn'[d].existing
      BY <2>1, <2>5 DEF Alike
    <3>2. conn[d].existing \in Conns \ {c}
      <4>1. conn[d].existing \in ConnPtr
        BY <1>a DEF Types, Connections
      <4>2. QED BY <1>1, <2>5, <3>1, <4>1 DEF Referenced, ConnPtr
    <3>3. QED BY <1>8, <1>9, <2>1, <2>5, <3>1, <3>2 DEF Registers, Alike
  <2>6. QED BY <2>3, <2>4, <2>5 DEF Registers
<1>12. Registers(c)'
  BY <1>2, <1>3 DEF Registers, Claims, Registered, Connecting, HalfAccepted
<1>13. RegistryInv'
  BY <1>10, <1>11, <1>12 DEF RegistryInv
<1>14. /\ {c} \in SUBSET Conns /\ conn' \in Table /\ (\A d \in Conns \ {c} : Stays(d))
       /\ \A d \in {c} : /\ Place(d)' /\ Socket(d)' /\ Given(d)'
                         /\ \A s \in Sockets : Keeps(d, s)
  BY <1>2, <1>4, <1>5, <1>6, <1>7, <1>8 DEF Stays, Only
<1>15. conns' \in [Node -> ConnPtr] /\ UNCHANGED <<policy, global_seq, chan, broken, failed, faults>>
  BY <1>1, <1>9
<1>16. QED BY <1>13, <1>14, <1>15, QuietStaysStep

\* Who does not hold a socket has no part in it.
LEMMA NotThere ==
  ASSUME NEW d \in Conns, NEW s, ~Holds(d, s)', NEW a \in Conns
  PROVE  Channel(d, s)' /\ Pair(a, d, s)' /\ Pair(d, a, s)'
<1>1. ~Inherits(d, s)' /\ ~Accepts(d, s)' /\ \A S : ~On(d, s, S)'
  BY DEF Holds, Inherits, Accepts, On
<1>2. QED BY <1>1 DEF Channel, Pair, Answered

\* A socket that two connections hold, one of each messenger.
LEMMA Two ==
  ASSUME NEW a \in Conns, NEW b \in Conns, NEW s, a[1] # b[1],
         \A d \in Conns \ {a, b} : ~Holds(d, s)',
         Channel(a, s)', Channel(b, s)', Pair(a, b, s)', Pair(b, a, s)'
  PROVE  Shared(s)'
<1>1. ASSUME NEW x \in Conns, NEW y \in Conns
      PROVE  /\ Channel(x, s)' /\ OneEnd(x, y, s)'
             /\ x[1] # y[1] => Pair(x, y, s)'
  <2>1. CASE x \in {a, b} /\ y \in {a, b}
    BY <2>1 DEF OneEnd
  <2>2. CASE x \notin {a, b}
    <3>1. ~Holds(x, s)'
      BY <2>2
    <3>2. QED BY <3>1, NotThere DEF OneEnd
  <2>3. CASE x \in {a, b} /\ y \notin {a, b}
    <3>1. ~Holds(y, s)'
      BY <2>3
    <3>2. QED BY <2>3, <3>1, NotThere DEF OneEnd
  <2>4. QED BY <2>1, <2>2, <2>3
<1>2. QED BY <1>1 DEF Shared


\* c opens a socket, on whose other end a new connection accepts.
LEMMA ConnectStep == ASSUME IInv, NEW c \in Conns, connect(c) PROVE IInv'
<1> DEFINE r == conn[c]
           g == global_seq[c[1]] + 1
<1>a. /\ Types /\ PlaceInv /\ SocketInv /\ RegistryInv /\ SharedInv /\ GlobalInv
      /\ Place(c) /\ Socket(c) /\ Registers(c) /\ Given(c) /\ r \in Connections /\ conn \in Table
  BY DEF IInv, Types, PlaceInv, SocketInv, RegistryInv, GlobalInv, Table
<1>1. r.state = "CONNECTING" /\ r.at = "" /\ c[1] \notin policy.server
  BY <1>a DEF connect, Place, Connecting
<1> PICK s : s = Lowest(FreeSockets)
  OBVIOUS
<1> PICK n \in Node : n = Peer(c[1])
  BY Nodes
<1> PICK a : a = NewConn(n)
  OBVIOUS
<1> DEFINE q == [r EXCEPT !.state = "WAIT_IDENTIFY", !.at = "learned", !.gseq = g, !.cs = s]
           p == Accepting(s)
<1>2. /\ FreeSockets # {} /\ FreeConns(n) # {}
      /\ conn' = [conn EXCEPT ![c] = q, ![a] = p]
      /\ global_seq' = [global_seq EXCEPT ![c[1]] = g]
      /\ chan' = [chan EXCEPT ![s] = [m \in Node |-> <<>>]]
      /\ broken' = broken \ {s}
      /\ UNCHANGED <<policy, conns, failed, faults>>
  BY <1>1 DEF connect, Goes_on, Runs
<1>b. /\ policy' = policy /\ conns' = conns /\ failed' = failed /\ faults' = faults
      /\ broken' = broken \ {s}
  BY <1>2
<1>3. s \in Sockets /\ \A d \in Conns : ~Holds(d, s)
  BY <1>2, NewSocketIs
<1>4. a \in Conns /\ a[1] = n /\ conn[a].state = "FREE" /\ a # c /\ a[1] # c[1]
  BY <1>2, NewConnIs, Nodes
<1>5. /\ c[1] \in Node /\ n # c[1] /\ g \in Nat /\ global_seq[c[1]] <= g
      /\ global_seq' \in [Node -> Nat] /\ global_seq'[c[1]] = g
      /\ \A m \in Node : global_seq[m] <= global_seq'[m]
  <2>1. global_seq \in [Node -> Nat] /\ c[1] \in Node /\ n # c[1]
    BY <1>a, Nodes DEF Types
  <2>2. \A m \in Node : global_seq[m] \in Nat
    BY <2>1
  <2>3. g \in Nat /\ global_seq[c[1]] <= g
    BY <2>1, <2>2
  <2> HIDE DEF g
  <2>4. /\ global_seq' \in [Node -> Nat] /\ global_seq'[c[1]] = g
        /\ \A m \in Node : m # c[1] => global_seq'[m] = global_seq[m]
    BY <1>2, <2>1, <2>3
  <2>5. \A m \in Node : global_seq[m] <= global_seq'[m]
    BY <2>2, <2>3, <2>4
  <2>6. QED BY <2>1, <2>3, <2>4, <2>5
<1> HIDE DEF g
<1>6. /\ q \in Connections /\ q.state = "WAIT_IDENTIFY" /\ q.cs = s /\ q.new_cs = r.new_cs
      /\ q.swap = r.swap /\ q.at = "learned" /\ q.existing = r.existing /\ q.gseq = g
      /\ q.peer_gseq = r.peer_gseq /\ q.msg = r.msg
  <2>1. "WAIT_IDENTIFY" \in States /\ "learned" \in Places /\ s \in Ends
    BY <1>3 DEF States, Registered, Connecting, Places, Ends
  <2>2. QED BY <1>a, <1>5, <2>1 DEF Connections
<1>7. /\ p \in Connections /\ p.state = "WAIT_CONNECT_MSG" /\ p.cs = s /\ p.new_cs = 0
      /\ p.swap = "" /\ p.at = "" /\ p.gseq = 0 /\ p.peer_gseq = 0 /\ p.msg.tag = "NONE"
      /\ ~p.once_ready /\ ~p.queued /\ ~p.replacing
  <2>1. "WAIT_CONNECT_MSG" \in States /\ s \in Ends
    BY <1>3 DEF States, HalfAccepted, Ends
  <2>2. p = [Free EXCEPT !.cs = s, !.state = "WAIT_CONNECT_MSG"]
    BY DEF Accepting, accept, Free
  <2> HIDE DEF p
  <2>3. p \in Connections
    BY <2>1, <2>2, FreeIs DEF Connections
  <2>4. QED BY <2>2, <2>3 DEF Free
<1> HIDE DEF q, p
<1>8. /\ conn' \in Table /\ conn'[c] = q /\ conn'[a] = p
      /\ \A d \in Conns \ {c, a} : conn'[d] = conn[d]
  BY <1>a, <1>2, <1>4, <1>6, <1>7 DEF Table
<1>9. \A d \in Conns \ {c, a} : Stays(d)
  BY <1>8 DEF Stays, Alike
<1>10. r.swap = "" /\ r.new_cs = 0
  BY <1>a, <1>1 DEF Socket
<1>11. Place(c)' /\ Place(a)'
  <2>1. Place(c)'
    BY <1>b, <1>1, <1>6, <1>8 DEF Place
  <2>2. Place(a)'
    BY <1>7, <1>8 DEF Place, Connecting
  <2>3. QED BY <2>1, <2>2
<1>12. Socket(c)' /\ Socket(a)'
  <2>1. Socket(c)'
    BY <1>3, <1>6, <1>8, <1>10, SocketsAre DEF Socket
  <2>2. Socket(a)'
    BY <1>3, <1>7, <1>8, SocketsAre DEF Socket
  <2>3. QED BY <2>1, <2>2
<1>13. Given(c)' /\ Given(a)'
  <2>1. GivenBy(r, c[1], global_seq')
    BY <1>a, <1>5, GivenLater
  <2>2. Given(c)'
    BY <1>5, <1>6, <1>8, <2>1 DEF Given, GivenBy
  <2>3. global_seq'[a[1]] \in Nat /\ global_seq'[Peer(a[1])] \in Nat
    BY <1>4, <1>5, Nodes
  <2>4. conn'[a].gseq = 0 /\ conn'[a].peer_gseq = 0 /\ conn'[a].msg.tag = "NONE"
    BY <1>7, <1>8
  <2>5. Given(a)'
    BY <2>3, <2>4 DEF Given, Accepted
  <2>6. QED BY <2>2, <2>5
<1>14. Registers(c)' /\ Registers(a)'
  <2>1. conns[c[1]] = c
    BY <1>a, <1>1 DEF Registers, Claims, Registered, Connecting
  <2>2. Registers(c)'
    BY <1>b, <1>6, <1>8, <2>1 DEF Registers, HalfAccepted
  <2>3. conns[a[1]] # a
    BY <1>a, <1>4, NoneIs DEF RegistryInv, Entry
  <2>4. Registers(a)'
    BY <1>b, <1>7, <1>8, <2>3 DEF Registers, Claims, Registered, Connecting
  <2>5. QED BY <2>2, <2>4
<1>15. Registering({c, a})
  <2>1. conns' \in [Node -> ConnPtr]
    BY <1>a, <1>b DEF Types
  <2>2. QED BY <1>b, <1>1, <1>4, <1>6, <1>7, <1>8, <1>14, <2>1 DEF Registering
<1>16. Grows
  BY <1>5 DEF Grows
<1>17. {c, a} \in SUBSET Conns
  BY <1>4
<1>18. RegistryInv'
  BY <1>b, <1>9, <1>15, <1>16, <1>17, RegistryStays
<1>19. /\ chan' \in Socketful /\ chan'[s] = [m \in Node |-> <<>>]
       /\ \A t \in Sockets \ {s} : chan'[t] = chan[t]
  <2>1. chan \in Socketful
    BY <1>a DEF Types, Socketful
  <2>2. [m \in Node |-> <<>>] \in [Node -> Seq(Message)]
    OBVIOUS
  <2>3. QED BY <1>2, <1>3, <2>1, <2>2 DEF Socketful
<1>20. \A m \in Node : chan'[s][m] = <<>> /\ DOMAIN chan'[s][m] = {}
  <2>1. DOMAIN <<>> = {}
    OBVIOUS
  <2>2. QED BY <1>19, <2>1
<1>21. Shared(s)'
  <2>1. /\ ~On(c, s, {"WAIT_CONNECT_REPLY"})' /\ ~On(c, s, {"CONNECT_MSG_AUTH"})'
        /\ ~On(c, s, {"WAIT_SEQ"})' /\ ~On(c, s, {"OPEN"})' /\ ~On(c, s, {"WAIT_SEQ", "OPEN"})'
        /\ ~Inherits(c, s)' /\ ~Accepts(c, s)'
    BY <1>6, <1>8 DEF On, Inherits, Accepts, HalfAccepted
  <2>2. /\ ~On(a, s, {"WAIT_IDENTIFY"})' /\ ~On(a, s, {"WAIT_CONNECT_REPLY"})'
        /\ ~On(a, s, {"CONNECT_MSG_AUTH"})' /\ ~On(a, s, {"WAIT_SEQ"})' /\ ~On(a, s, {"OPEN"})'
        /\ ~Inherits(a, s)' /\ ~On(a, s, Active \ {"WAIT_CONNECT_MSG"})'
    BY <1>7, <1>8 DEF On, Inherits, Active
  <2>3. Channel(c, s)'
    BY <2>1, <1>5, <1>20, Nodes DEF Channel, Identifies
  <2>4. Channel(a, s)'
    BY <2>2, <1>4, <1>20 DEF Channel
  <2>5. Pair(c, a, s)'
    BY <2>1, <2>2 DEF Pair
  <2>6. Pair(a, c, s)'
    BY <2>1, <2>2 DEF Pair
  <2>7. \A d \in Conns \ {c, a} : ~Holds(d, s)'
    BY <1>3, <1>8 DEF Holds
  <2>8. QED BY <1>4, <2>3, <2>4, <2>5, <2>6, <2>7, Two
<1>22. \A d \in Conns : \A t \in Sockets \ {s} : Keeps(d, t)
  <2>1. \A d \in Conns \ {c, a} : \A t \in Sockets : Keeps(d, t)
    BY <1>8, AlikeKeeps DEF Alike
  <2>2. \A t \in Sockets \ {s} : Keeps(c, t)
    BY <1>6, <1>8, <1>10, SocketsAre DEF Keeps, Holds, Inherits
  <2>3. \A t \in Sockets \ {s} : Keeps(a, t)
    BY <1>7, <1>8, SocketsAre DEF Keeps, Holds, Inherits
  <2>4. QED BY <2>1, <2>2, <2>3
<1>23. SharedInv'
  BY <1>a, <1>b, <1>3, <1>19, <1>21, <1>22, Elsewhere
<1>24. ASSUME NEW t \in Sockets, NEW m \in Node PROVE Way(t, m)'
  <2>1. CASE t = s
    BY <1>20, <2>1 DEF Way
  <2>2. CASE t # s
    BY <1>a, <1>16, <1>19, <2>2, WayLater DEF Way
  <2>3. QED BY <2>1, <2>2
<1>25. /\ conns' \in [Node -> ConnPtr] /\ broken' \subseteq Sockets /\ faults' \in Nat
  BY <1>a, <1>b DEF Types
<1>26. \A d \in {c, a} : Place(d)' /\ Socket(d)' /\ Given(d)'
  BY <1>11, <1>12, <1>13
<1>27. QED BY <1>b, <1>8, <1>9, <1>16, <1>17, <1>18, <1>19, <1>23, <1>24, <1>25, <1>26, StaysStep

\* e takes the place of c, of the same messenger, on socket s.
LEMMA TakesOver ==
  ASSUME NEW c \in Conns, NEW e \in Conns, NEW s \in Sockets, e # c, e[1] = c[1],
         Shared(s), Holds(c, s), ~Holds(c, s)', \A d \in Conns \ {c, e} : Keeps(d, s),
         Channel(e, s)',
         \A d \in Conns : d[1] # c[1] /\ Holds(d, s) =>
           Channel(d, s)' /\ Pair(e, d, s)' /\ Pair(d, e, s)'
  PROVE  Shared(s)'
<1>1. ASSUME NEW d \in Conns \ {e}, d[1] = c[1] PROVE ~Holds(d, s)'
  <2>1. CASE d = c
    BY <2>1
  <2>2. CASE d # c
    BY <1>1, <2>2 DEF Shared, OneEnd, Keeps
  <2>3. QED BY <2>1, <2>2
<1>2. ASSUME NEW d \in Conns, d[1] # c[1] PROVE Holds(d, s)' => Holds(d, s)
  BY <1>2 DEF Keeps
<1>3. ASSUME NEW x \in Conns, NEW y \in Conns
      PROVE  /\ Channel(x, s)' /\ OneEnd(x, y, s)'
             /\ x[1] # y[1] => Pair(x, y, s)'
  <2>1. CASE ~Holds(x, s)'
    BY <2>1, NotThere DEF OneEnd
  <2>2. CASE Holds(x, s)' /\ ~Holds(y, s)'
    <3>1. Channel(x, s)'
      BY <1>1, <1>2, <2>2
    <3>2. QED BY <2>2, <3>1, NotThere DEF OneEnd
  <2>3. CASE Holds(x, s)' /\ Holds(y, s)'
    <3>1. Channel(x, s)'
      BY <1>1, <1>2, <2>3
    <3>2. OneEnd(x, y, s)'
      <4>1. CASE x[1] = c[1]
        BY <1>1, <2>3, <4>1 DEF OneEnd
      <4>2. CASE x[1] # c[1]
        BY <1>2, <2>3, <4>2 DEF OneEnd, Shared
      <4>3. QED BY <4>1, <4>2
    <3>3. x[1] # y[1] => Pair(x, y, s)'
      <4>1. SUFFICES ASSUME x[1] # y[1] PROVE Pair(x, y, s)'
        OBVIOUS
      <4>2. x[1] = c[1] \/ y[1] = c[1]
        BY <4>1, Nodes
      <4>3. QED BY <1>1, <1>2, <2>3, <4>1, <4>2
    <3>4. QED BY <3>1, <3>2, <3>3
  <2>4. QED BY <2>1, <2>2, <2>3
<1>4. QED BY <1>3 DEF Shared


\* The existing connection, whose session is reset or not, takes over the socket.
LEMMA ReplaceStep ==
  ASSUME IInv, NEW c \in Conns, Deciding(c), Live(c), ~Outdated(c), NEW f \in Table,
         \A d \in Conns \ {conn[c].existing} : Alike(f[d], conn[d]),
         LET e == conn[c].existing IN Alike(f[e], conn[e]) \/ WasReset(f[e], conn[e]),
         NEW reset \in BOOLEAN, replace_by(f, c, reset)
  PROVE  IInv'
<1>a. /\ Types /\ PlaceInv /\ SocketInv /\ RegistryInv /\ SharedInv /\ GlobalInv
  BY DEF IInv
<1> PICK e : e = conn[c].existing
  OBVIOUS
<1> PICK s : s = conn[c].cs
  OBVIOUS
<1>1. /\ e \in Conns /\ e # c /\ e[1] = c[1] /\ conns[c[1]] = e /\ Existing(c) = conn[e]
      /\ conn[e] \in Connections /\ conn[e].state \notin {"CLOSED", "FREE"}
  BY LiveIs
<1>2. /\ conn[c].state = "CONNECT_MSG_AUTH" /\ s \in Sockets /\ Shared(s) /\ Holds(c, s)
      /\ On(c, s, {"CONNECT_MSG_AUTH"})
  BY AuthIs DEF Deciding
<1>3. ~conn[e].replacing
  BY <1>1 DEF Outdated
<1>4. ~conn[c].replacing
  BY <1>a, <1>1 DEF RegistryInv, Registers, Claims
<1>5. /\ Alike(f[c], conn[c]) /\ f[c].existing = e /\ f[c].cs = s /\ ~f[c].replacing
  BY <1>1, <1>4 DEF Alike
<1> DEFINE b == f[e].reset_from_peer \/ reset
           q == [f[e] EXCEPT !.state = "NONE", !.replacing = TRUE, !.swap = "deactivate",
                             !.new_cs = s, !.reset_from_peer = b]
<1>6. /\ conn' = [f EXCEPT ![e] = q, ![c] = Free]
      /\ UNCHANGED <<policy, conns, global_seq, chan, broken, failed, faults>>
  BY <1>5 DEF replace_by, Goes_on, Runs
<1>b. /\ policy' = policy /\ conns' = conns /\ failed' = failed /\ faults' = faults
      /\ broken' = broken /\ chan' = chan /\ global_seq' = global_seq
  BY <1>6
<1>7. f[e] \in Connections /\ f[e].cs = conn[e].cs /\ f[e].at = conn[e].at
      /\ f[e].existing = conn[e].existing /\ f[e].gseq = conn[e].gseq
      /\ f[e].peer_gseq = conn[e].peer_gseq /\ f[e].msg = conn[e].msg
  BY <1>1 DEF Table, Alike, WasReset
<1>8. /\ q \in Connections /\ q.state = "NONE" /\ q.replacing /\ q.swap = "deactivate"
      /\ q.new_cs = s /\ q.cs = conn[e].cs /\ q.at = conn[e].at
      /\ q.existing = conn[e].existing /\ q.gseq = conn[e].gseq
      /\ q.peer_gseq = conn[e].peer_gseq /\ q.msg = conn[e].msg
  <2>1. "NONE" \in States /\ "deactivate" \in Swaps /\ s \in Ends
    BY <1>2 DEF States, Registered, Swaps, Ends
  <2>2. b \in BOOLEAN
    OBVIOUS
  <2> HIDE DEF b
  <2>3. q \in Connections
    BY <1>7, <2>1, <2>2 DEF Connections
  <2>4. QED BY <1>7, <2>3 DEF Connections
<1> HIDE DEF q
<1>9. /\ Free.state = "FREE" /\ Free.cs = 0 /\ Free.new_cs = 0 /\ Free.swap = "" /\ Free.at = ""
      /\ Free.gseq = 0 /\ Free.peer_gseq = 0 /\ Free.msg.tag = "NONE" /\ Free.existing = None
      /\ ~Free.once_ready /\ ~Free.queued /\ ~Free.replacing
  BY DEF Free
<1>10. /\ conn' \in Table /\ conn'[c] = Free /\ conn'[e] = q
       /\ \A d \in Conns \ {c, e} : Alike(conn'[d], conn[d])
  BY <1>1, <1>6, <1>8, FreeIs DEF Table
<1> HIDE DEF Free
<1>11. \A d \in Conns \ {c, e} : Stays(d)
  BY <1>10 DEF Stays
<1>12. conn[e].at \in {"", "learned", "accepted"}
  <2>1. Place(e) /\ Registers(e) /\ conn[e].at \in Places
    BY <1>a, <1>1 DEF PlaceInv, RegistryInv, Connections
  <2>2. conn[e].at \in {"lookup", "refused"} => conn[e].state = "CONNECT_MSG_AUTH"
    BY <1>1, <2>1 DEF Place
  <2>3. conn[e].state = "CONNECT_MSG_AUTH" => conn[e].at = "accepted"
    BY <1>1, <1>3, <2>1 DEF Registers, HalfAccepted
  <2>4. QED BY <2>1, <2>2, <2>3 DEF Places
<1>13. Place(c)' /\ Place(e)'
  <2>1. Place(c)'
    BY <1>9, <1>10 DEF Place, Connecting
  <2>2. Place(e)'
    BY <1>8, <1>10, <1>12 DEF Place, Connecting
  <2>3. QED BY <2>1, <2>2
<1>14. Socket(c)' /\ Socket(e)'
  <2>1. Socket(c)'
    BY <1>9, <1>10 DEF Socket, HalfAccepted
  <2>2. Socket(e)'
    BY <1>2, <1>8, <1>10, SocketsAre DEF Socket, HalfAccepted
  <2>3. QED BY <2>1, <2>2
<1>15. Grows
  BY <1>a, <1>b, Unbounded DEF Grows
<1>16. Given(c)' /\ Given(e)'
  <2>1. global_seq'[c[1]] \in Nat /\ global_seq'[Peer(c[1])] \in Nat
    BY <1>15, Nodes DEF Grows
  <2>2. conn'[c].gseq = 0 /\ conn'[c].peer_gseq = 0 /\ conn'[c].msg.tag = "NONE"
    BY <1>9, <1>10
  <2>3. Given(c)'
    BY <2>1, <2>2 DEF Given, Accepted
  <2>4. Given(e)'
    BY <1>a, <1>b, <1>1, <1>8, <1>10 DEF Given, GlobalInv
  <2>5. QED BY <2>3, <2>4
<1>17. Registers(c)' /\ Registers(e)'
  <2>1. Registers(c)'
    BY <1>9, <1>10 DEF Registers, Claims, Registered, Connecting, HalfAccepted
  <2>2. Registers(e)'
    BY <1>b, <1>1, <1>8, <1>10, <1>12 DEF Registers, HalfAccepted
  <2>3. QED BY <2>1, <2>2
<1>18. Registering({c, e})
  <2>1. conns' \in [Node -> ConnPtr]
    BY <1>a, <1>b DEF Types
  <2>2. QED BY <1>b, <1>1, <1>2, <1>8, <1>10, <1>17, <2>1 DEF Registering
<1>19. {c, e} \in SUBSET Conns
  BY <1>1
<1>20. RegistryInv'
  BY <1>b, <1>11, <1>15, <1>18, <1>19, RegistryStays
<1>21. \A d \in Conns \ {c, e} : \A t \in Sockets : Keeps(d, t)
  BY <1>10, AlikeKeeps
<1>22. /\ ~On(e, s, {"WAIT_IDENTIFY"})' /\ ~On(e, s, {"WAIT_CONNECT_REPLY"})'
       /\ ~On(e, s, {"CONNECT_MSG_AUTH"})' /\ ~On(e, s, {"WAIT_SEQ"})' /\ ~On(e, s, {"OPEN"})'
       /\ ~On(e, s, {"WAIT_SEQ", "OPEN"})' /\ ~On(e, s, {"WAIT_CONNECT_MSG"})'
       /\ ~On(e, s, {"WAIT_IDENTIFY", "WAIT_CONNECT_REPLY"})'
       /\ ~On(e, s, Active \ {"WAIT_CONNECT_MSG"})'
  BY <1>8, <1>10 DEF On, Active
<1>23. Channel(e, s)'
  <2>1. Channel(c, s) /\ Accepts(c, s)
    BY <1>2 DEF Shared, Accepts, On, HalfAccepted
  <2>2. QED BY <1>b, <1>1, <1>22, <2>1 DEF Channel
<1>24. ASSUME NEW d \in Conns, d[1] # c[1], Holds(d, s)
       PROVE  Channel(d, s)' /\ Pair(e, d, s)' /\ Pair(d, e, s)'
  <2>1. /\ ~Accepts(d, s) /\ ~On(d, s, {"WAIT_SEQ", "OPEN"}) /\ ~On(d, s, {"WAIT_IDENTIFY"})
        /\ On(d, s, {"WAIT_CONNECT_REPLY"}) => Identifies(d, s)
    BY <1>2, <1>24, OtherEnd
  <2>2. d \in Conns \ {c, e} /\ Alike(conn'[d], conn[d])
    BY <1>1, <1>10, <1>24
  <2>3. /\ conn'[d].cs = conn[d].cs /\ conn'[d].state = conn[d].state
        /\ Inherits(d, s)' <=> Inherits(d, s)
    BY <2>2, AlikeOn
  <2>4. /\ ~Inherits(d, s)' /\ ~Accepts(d, s)' /\ ~On(d, s, {"WAIT_SEQ", "OPEN"})'
        /\ ~On(d, s, {"WAIT_SEQ"})' /\ ~On(d, s, {"OPEN"})' /\ ~On(d, s, {"WAIT_IDENTIFY"})'
        /\ On(d, s, {"WAIT_CONNECT_REPLY"})' => On(d, s, {"WAIT_CONNECT_REPLY"})
    BY <2>1, <2>3 DEF Accepts, On, HalfAccepted
  <2>5. Channel(d, s)'
    BY <1>b, <1>2, <1>21, <2>2, ChannelKept DEF Shared
  <2>6. Pair(e, d, s)'
    BY <1>22, <2>4 DEF Pair
  <2>7. On(d, s, {"WAIT_CONNECT_REPLY"})' => Answered(d, e, s)'
    <3>1. Identifies(d, s) => Identifies(d, s)'
      BY <1>b DEF Identifies
    <3>2. QED BY <1>22, <2>1, <2>4, <3>1 DEF Answered
  <2>8. Pair(d, e, s)'
    BY <1>22, <2>4, <2>7 DEF Pair
  <2>9. QED BY <2>5, <2>6, <2>8
<1>25. Shared(s)'
  <2>1. ~Holds(c, s)'
    BY <1>2, <1>9, <1>10, SocketsAre DEF Holds
  <2>2. QED BY <1>1, <1>2, <1>21, <1>23, <1>24, <2>1, TakesOver
<1>26. SharedInv'
  <2>1. \A t \in Sockets \ {s} : Keeps(c, t) /\ Keeps(e, t)
    <3>1. ASSUME NEW t \in Sockets \ {s} PROVE Keeps(c, t)
      <4>1. /\ conn'[c].state = "FREE" /\ conn'[c].cs # t /\ conn'[c].new_cs # t
            /\ conn'[c].state \notin Active \cup {"NONE"}
        BY <1>9, <1>10, SocketsAre DEF Active
      <4>2. QED BY <4>1 DEF Keeps, Holds, Inherits
    <3>2. ASSUME NEW t \in Sockets \ {s} PROVE Keeps(e, t)
      <4>1. /\ conn'[e].state = "NONE" /\ conn'[e].cs = conn[e].cs /\ conn'[e].new_cs # t
            /\ conn'[e].swap = "deactivate" /\ conn'[e].state \notin Active
        BY <1>8, <1>10 DEF Active
      <4>2. QED BY <4>1 DEF Keeps, Holds, Inherits
    <3>3. QED BY <3>1, <3>2
  <2>2. \A d \in Conns : \A t \in Sockets \ {s} : Keeps(d, t)
    BY <1>21, <2>1
  <2>3. QED BY <1>a, <1>b, <1>2, <1>25, <2>2, Elsewhere
<1>27. \A t \in Sockets, m \in Node : Way(t, m)'
  BY <1>a, <1>b, WayKept
<1>28. /\ conns' \in [Node -> ConnPtr] /\ broken' \subseteq Sockets /\ faults' \in Nat
       /\ chan' \in Socketful
  BY <1>a, <1>b DEF Types, Socketful
<1>29. \A d \in {c, e} : Place(d)' /\ Socket(d)' /\ Given(d)'
  BY <1>13, <1>14, <1>16
<1>30. QED BY <1>b, <1>10, <1>11, <1>15, <1>19, <1>20, <1>26, <1>27, <1>28, <1>29, StaysStep

\* Only a current attempt is decided on its connect_seq.
LEMMA CurrentIs ==
  ASSUME NEW c, Replace(c) \/ HardReset(c)
  PROVE  Live(c) /\ ~Outdated(c)
BY DEF Replace, HardReset, Same, Newer, Ordinary, Lossless, Current

LEMMA ReplacedStep == ASSUME IInv, NEW c \in Conns, replace(c) PROVE IInv'
<1>1. Deciding(c) /\ Live(c) /\ ~Outdated(c) /\ replace_by(conn, c, FALSE)
  BY CurrentIs DEF replace
<1>2. conn \in Table /\ \A d \in Conns : Alike(conn[d], conn[d])
  BY DEF IInv, Types, Table, Alike
<1>3. conn[c].existing \in Conns
  BY <1>1, LiveIs
<1>4. QED BY <1>1, <1>2, <1>3, ReplaceStep

LEMMA HardResetStep == ASSUME IInv, NEW c \in Conns, hard_reset(c) PROVE IInv'
<1> DEFINE f == IF ResetCheck(c) THEN was_session_reset(conn, conn[c].existing) ELSE conn
<1>1. Deciding(c) /\ Live(c) /\ ~Outdated(c) /\ replace_by(f, c, TRUE)
  BY CurrentIs DEF hard_reset
<1>2. conn \in Table /\ \A d \in Conns : Alike(conn[d], conn[d])
  BY DEF IInv, Types, Table, Alike
<1>3. conn[c].existing \in Conns
  BY <1>1, LiveIs
<1>4. /\ f \in Table /\ \A d \in Conns \ {conn[c].existing} : Alike(f[d], conn[d])
      /\ \/ Alike(f[conn[c].existing], conn[conn[c].existing])
         \/ WasReset(f[conn[c].existing], conn[conn[c].existing])
  BY <1>2, <1>3, ResetIs
<1> HIDE DEF f
<1>5. QED BY <1>1, <1>4, ReplaceStep


\* c opens a new session, and is registered if nobody else is.
LEMMA OpenStep ==
  ASSUME IInv, NEW c \in Conns, Deciding(c), NEW f \in Table, Alike(f[c], conn[c]),
         \A d \in Conns \ {c} :
           \/ Alike(f[d], conn[d])
           \/ Stopped(f[d], conn[d]) /\ conn[d].state # "FREE",
         open_with(f, c)
  PROVE  IInv'
<1>a. /\ Types /\ PlaceInv /\ SocketInv /\ RegistryInv /\ SharedInv /\ GlobalInv
      /\ Place(c) /\ Socket(c) /\ Registers(c) /\ Given(c)
  BY DEF IInv, PlaceInv, SocketInv, RegistryInv, GlobalInv
<1> PICK s : s = conn[c].cs
  OBVIOUS
<1> PICK n \in Node : n = c[1]
  BY Nodes
<1> DEFINE r == f[c]
           m == conn[c].msg
           g == global_seq[n] + 1
           free == Registrable(f, c)
           w == Msg(IF r.reset_from_peer THEN "READY" ELSE "SEQ", r.msg.cseq + 1, g)
           i == IF r.reset_from_peer THEN None ELSE r.in_of
           u == [r EXCEPT !.connect_seq = r.msg.cseq + 1, !.peer_gseq = r.msg.gseq,
                          !.reset_from_peer = FALSE, !.in_of = i]
           q == [u EXCEPT !.msg = w, !.at = IF free THEN "accepted" ELSE "refused",
                          !.existing = None]
<1>1. /\ conn[c].state = "CONNECT_MSG_AUTH" /\ conn[c].at = "lookup" /\ s \in Sockets
      /\ Shared(s) /\ Holds(c, s) /\ On(c, s, {"CONNECT_MSG_AUTH"}) /\ conn[c].swap = ""
      /\ conn[c].new_cs = 0 /\ conn[c].lossy = Lossy(c) /\ m.tag = "CONNECT"
  BY AuthIs DEF Deciding, Decides
<1>2. /\ conn' = [f EXCEPT ![c] = q]
      /\ conns' = IF free THEN [conns EXCEPT ![n] = c] ELSE conns
      /\ global_seq' = [global_seq EXCEPT ![n] = g]
      /\ UNCHANGED <<policy, chan, broken, failed, faults>>
  BY DEF open_with, Goes_on, Runs
<1>b. /\ policy' = policy /\ failed' = failed /\ faults' = faults /\ broken' = broken
      /\ chan' = chan
  BY <1>2
<1>3. /\ g \in Nat /\ global_seq' \in [Node -> Nat] /\ global_seq'[n] = g
      /\ \A k \in Node : global_seq[k] <= global_seq'[k]
  <2>1. global_seq \in [Node -> Nat]
    BY <1>a DEF Types
  <2>2. \A k \in Node : global_seq[k] \in Nat
    BY <2>1
  <2>3. g \in Nat /\ global_seq[n] <= g
    BY <2>2
  <2> HIDE DEF g, free
  <2>4. /\ global_seq' \in [Node -> Nat] /\ global_seq'[n] = g
        /\ \A k \in Node : k # n => global_seq'[k] = global_seq[k]
    BY <1>2, <2>1, <2>3
  <2>5. \A k \in Node : global_seq[k] <= global_seq'[k]
    BY <2>2, <2>3, <2>4
  <2>6. QED BY <2>3, <2>4, <2>5
<1>4. Grows
  BY <1>3 DEF Grows
<1>5. /\ r \in Connections /\ r.msg = m /\ m \in Message /\ m.cseq \in Nat /\ m.gseq \in Nat
  <2>1. r \in Connections /\ r.msg = m
    BY DEF Table, Alike
  <2>2. m \in Message
    BY <2>1 DEF Connections
  <2>3. QED BY <2>1, <2>2 DEF Message
<1>6. /\ w \in Message /\ w.tag \in Accepted /\ w.cseq = m.cseq + 1 /\ w.gseq = g
      /\ m.cseq + 1 \in Nat
  <2> DEFINE tag == IF r.reset_from_peer THEN "READY" ELSE "SEQ"
  <2>1. tag \in {"READY", "SEQ"} /\ m.cseq + 1 \in Nat /\ w = Msg(tag, m.cseq + 1, g)
    BY <1>5
  <2> DEFINE k == m.cseq + 1
  <2>2. k \in Nat /\ w = Msg(tag, k, g)
    BY <2>1
  <2> HIDE DEF tag, g, w, k
  <2>3. w \in Message /\ w.tag = tag /\ w.cseq = k /\ w.gseq = g
    BY <1>3, <2>1, <2>2, MessageIs
  <2>4. QED BY <2>1, <2>2, <2>3 DEF Accepted, k
<1>7. free \in BOOLEAN
  BY DEF Registrable
<1>8. i \in Sessions
  <2>1. r.in_of \in Sessions /\ None \in Sessions
    BY <1>5 DEF Connections, Sessions, ConnPtr
  <2>2. QED BY <2>1
<1> HIDE DEF g, free, w, i
<1>9. /\ u \in Connections /\ u.connect_seq = m.cseq + 1 /\ u.peer_gseq = m.gseq
      /\ u.state = r.state /\ u.cs = r.cs /\ u.new_cs = r.new_cs /\ u.swap = r.swap
      /\ u.gseq = r.gseq /\ u.replacing = r.replacing /\ u.once_ready = r.once_ready
      /\ u.queued = r.queued /\ u.lossy = r.lossy
  BY <1>5, <1>6, <1>8 DEF Connections
<1> HIDE DEF u
<1>10. /\ q \in Connections /\ q.connect_seq = u.connect_seq /\ q.peer_gseq = u.peer_gseq
       /\ q.state = u.state /\ q.cs = u.cs /\ q.new_cs = u.new_cs /\ q.swap = u.swap
       /\ q.gseq = u.gseq /\ q.replacing = u.replacing /\ q.once_ready = u.once_ready
       /\ q.queued = u.queued /\ q.lossy = u.lossy /\ q.msg = w /\ q.existing = None
       /\ free => q.at = "accepted"
       /\ ~free => q.at = "refused"
  <2> DEFINE at == IF free THEN "accepted" ELSE "refused"
  <2>1. at \in Places /\ None \in ConnPtr
    BY <1>7 DEF Places, ConnPtr
  <2>2. q = [u EXCEPT !.msg = w, !.at = at, !.existing = None]
    OBVIOUS
  <2>3. (free => at = "accepted") /\ (~free => at = "refused")
    OBVIOUS
  <2> HIDE DEF at, q
  <2>4. QED BY <1>6, <1>9, <2>1, <2>2, <2>3 DEF Connections
<1> HIDE DEF q
<1>11. /\ conn' \in Table /\ conn'[c] = q /\ \A d \in Conns \ {c} : conn'[d] = f[d]
  BY <1>2, <1>10 DEF Table
<1>12. /\ q.state = "CONNECT_MSG_AUTH" /\ q.cs = s /\ q.new_cs = 0 /\ q.swap = ""
       /\ q.lossy = Lossy(c) /\ q.gseq = conn[c].gseq /\ q.replacing = conn[c].replacing
       /\ q.once_ready = conn[c].once_ready /\ q.queued = conn[c].queued
       /\ q.connect_seq = m.cseq + 1 /\ q.peer_gseq = m.gseq
  BY <1>1, <1>9, <1>10 DEF Alike
<1>13. \A d \in Conns \ {c} : Stays(d)
  BY <1>11 DEF Stays
<1>14. Place(c)'
  BY <1>7, <1>10, <1>11, <1>12 DEF Place, Connecting
<1>15. Socket(c)'
  BY <1>1, <1>11, <1>12, SocketsAre DEF Socket
<1>16. Given(c)'
  <2>1. GivenBy(conn[c], c[1], global_seq')
    BY <1>a, <1>3, GivenLater
  <2>2. q.gseq <= global_seq'[c[1]] /\ q.peer_gseq <= global_seq'[Peer(c[1])]
    BY <1>1, <1>12, <2>1 DEF GivenBy
  <2>3. q.msg.tag # "CONNECT" /\ q.msg.gseq <= global_seq'[c[1]]
    <3>1. q.msg.tag # "CONNECT" /\ q.msg.gseq = g
      BY <1>6, <1>10 DEF Accepted
    <3>2. global_seq'[c[1]] = g /\ g \in Nat
      BY <1>3
    <3>3. QED BY <3>1, <3>2
  <2>4. QED BY <1>11, <2>2, <2>3 DEF Given
<1>17. /\ conns' \in [Node -> ConnPtr] /\ \A k \in Node : k # n => conns'[k] = conns[k]
       /\ free => conns'[n] = c
       /\ ~free => conns'[n] = conns[n]
  <2>1. conns \in [Node -> ConnPtr] /\ c \in ConnPtr
    BY <1>a DEF Types, ConnPtr
  <2>2. QED BY <1>2, <2>1
<1>18. conns[n] = c => free
  BY DEF Registrable, free
<1>19. Registers(c)'
  <2>1. Claims(q) => conns'[n] = c
    <3>1. CASE free
      BY <1>17, <3>1
    <3>2. CASE ~free
      <4>1. Claims(q) => Claims(conn[c])
        BY <1>1, <1>10, <1>12, <3>2 DEF Claims
      <4>2. QED BY <1>a, <1>17, <1>18, <3>2, <4>1 DEF Registers
    <3>3. QED BY <3>1, <3>2
  <2>2. conns'[n] = c => q.at = "accepted"
    BY <1>10, <1>17, <1>18
  <2>3. q.at # "lookup"
    BY <1>7, <1>10
  <2>4. QED BY <1>11, <2>1, <2>2, <2>3 DEF Registers
<1>20. free => conns[n] \in {None, c} \/ conn'[conns[n]].state = "CLOSED"
  <2>1. free => conns[n] \in {None, c} \/ f[conns[n]].state = "CLOSED"
    BY DEF free, Registrable
  <2>2. conns[n] \in {None, c} \/ conns[n] \in Conns \ {c}
    BY <1>a DEF Types, ConnPtr
  <2>3. QED BY <1>11, <2>1, <2>2
<1>21. Registering({c})
  BY <1>1, <1>11, <1>12, <1>17, <1>19, <1>20 DEF Registering
<1>22. RegistryInv'
  BY <1>b, <1>4, <1>13, <1>21, RegistryStays
<1>23. \A d \in Conns \ {c} : \A t \in Sockets : Keeps(d, t)
  BY <1>a, <1>b, <1>4, <1>13, StaysIs DEF PlaceInv, SocketInv, GlobalInv
<1>24. /\ ~On(c, s, {"WAIT_IDENTIFY"})' /\ ~On(c, s, {"WAIT_CONNECT_REPLY"})'
       /\ ~On(c, s, {"WAIT_SEQ"})' /\ ~On(c, s, {"OPEN"})' /\ ~On(c, s, {"WAIT_SEQ", "OPEN"})'
       /\ ~On(c, s, {"WAIT_CONNECT_MSG"})'
       /\ ~On(c, s, {"WAIT_IDENTIFY", "WAIT_CONNECT_REPLY"})' /\ ~Inherits(c, s)'
  BY <1>11, <1>12 DEF On, Inherits
<1>25. Channel(c, s)'
  <2>1. Channel(c, s) /\ Accepts(c, s)
    BY <1>1 DEF Shared, Accepts, On, HalfAccepted
  <2>2. Decides(c)'
    <3>1. Lossy(c)' = Lossy(c)
      BY <1>b DEF Lossy
    <3>2. q.at # "lookup" /\ q.msg.tag \in Accepted /\ q.connect_seq = q.msg.cseq
      BY <1>6, <1>7, <1>10, <1>12
    <3>3. QED BY <1>11, <1>12, <3>1, <3>2 DEF Decides
  <2>3. QED BY <1>b, <1>24, <2>1, <2>2 DEF Channel
<1>26. ASSUME NEW d \in Conns, d[1] # c[1], Holds(d, s)
       PROVE  Channel(d, s)' /\ Pair(c, d, s)' /\ Pair(d, c, s)'
  <2>1. /\ ~Accepts(d, s) /\ ~On(d, s, {"WAIT_SEQ", "OPEN"}) /\ ~On(d, s, {"WAIT_IDENTIFY"})
        /\ On(d, s, {"WAIT_CONNECT_REPLY"}) => Identifies(d, s) /\ Answered(d, c, s)
    BY <1>1, <1>26, OtherEnd
  <2>2. d \in Conns \ {c} /\ Keeps(d, s)
    BY <1>1, <1>23, <1>26
  <2>3. /\ ~Inherits(d, s)' /\ ~Accepts(d, s)' /\ ~On(d, s, {"WAIT_SEQ", "OPEN"})'
        /\ ~On(d, s, {"WAIT_SEQ"})' /\ ~On(d, s, {"OPEN"})' /\ ~On(d, s, {"WAIT_IDENTIFY"})'
        /\ On(d, s, {"WAIT_CONNECT_REPLY"})' =>
             On(d, s, {"WAIT_CONNECT_REPLY"}) /\ conn'[d].connect_seq = conn[d].connect_seq
    BY <2>1, <2>2 DEF Keeps, Accepts, On, HalfAccepted, Active
  <2>4. Channel(d, s)'
    BY <1>b, <1>1, <2>2, ChannelKept DEF Shared
  <2>5. Pair(c, d, s)'
    BY <1>24, <2>3 DEF Pair
  <2>6. On(d, s, {"WAIT_CONNECT_REPLY"})' => Answered(d, c, s)'
    <3>1. Identifies(d, s) => Identifies(d, s)'
      BY <1>b DEF Identifies
    <3>2. On(d, s, {"WAIT_CONNECT_REPLY"}) => m.cseq = conn[d].connect_seq
      BY <1>1, <2>1 DEF Answered
    <3>3. conn'[c].at # "lookup" /\ conn'[c].msg.cseq = m.cseq + 1
      BY <1>6, <1>7, <1>10, <1>11
    <3> HIDE DEF m
    <3>4. QED BY <1>24, <2>1, <2>3, <3>1, <3>2, <3>3 DEF Answered
  <2>7. Pair(d, c, s)'
    BY <1>24, <2>3, <2>6 DEF Pair
  <2>8. QED BY <2>4, <2>5, <2>7
<1>27. Shared(s)'
  BY <1>1, <1>23, <1>25, <1>26, Exchange
<1>28. SharedInv'
  <2>1. \A t \in Sockets \ {s} : Keeps(c, t)
    BY <1>11, <1>12, SocketsAre DEF Keeps, Holds, Inherits
  <2>2. \A d \in Conns : \A t \in Sockets \ {s} : Keeps(d, t)
    BY <1>23, <2>1
  <2>3. QED BY <1>a, <1>b, <1>1, <1>27, <2>2, Elsewhere
<1>29. \A t \in Sockets, k \in Node : Way(t, k)'
  BY <1>a, <1>b, <1>4, WayLater DEF Way
<1>30. /\ broken' \subseteq Sockets /\ faults' \in Nat /\ chan' \in Socketful
  BY <1>a, <1>b DEF Types, Socketful
<1>31. {c} \in SUBSET Conns /\ \A d \in {c} : Place(d)' /\ Socket(d)' /\ Given(d)'
  BY <1>14, <1>15, <1>16
<1> HIDE DEF r, m
<1>32. QED BY <1>b, <1>4, <1>11, <1>13, <1>17, <1>22, <1>28, <1>29, <1>30, <1>31, StaysStep

LEMMA OpenedStep == ASSUME IInv, NEW c \in Conns, open(c) PROVE IInv'
<1>1. Deciding(c) /\ open_with(conn, c)
  BY DEF open
<1>2. conn \in Table /\ \A d \in Conns : Alike(conn[d], conn[d])
  BY DEF IInv, Types, Table, Alike
<1>3. QED BY <1>1, <1>2, OpenStep

LEMMA OpenedLossyStep == ASSUME IInv, NEW c \in Conns, open_lossy(c) PROVE IInv'
<1> PICK e : e = conn[c].existing
  OBVIOUS
<1> DEFINE f == stop(conn, e)
<1>1. Deciding(c) /\ Live(c) /\ open_with(f, c)
  BY DEF open_lossy, Current
<1>2. e \in Conns /\ e # c /\ conn[e].state \notin {"CLOSED", "FREE"}
  BY <1>1, LiveIs
<1>3. conn \in Table
  BY DEF IInv, Types, Table
<1>4. /\ f \in Table /\ (\A d \in Conns \ {e} : Alike(f[d], conn[d])) /\ Stopped(f[e], conn[e])
  BY <1>2, <1>3, StopIs
<1> HIDE DEF f
<1>5. Alike(f[c], conn[c])
  BY <1>2, <1>4
<1>6. \A d \in Conns \ {c} : \/ Alike(f[d], conn[d])
                             \/ Stopped(f[d], conn[d]) /\ conn[d].state # "FREE"
  BY <1>2, <1>4
<1>7. QED BY <1>1, <1>4, <1>5, <1>6, OpenStep


-------------------------------------------------------------------------------
(* The theorems. *)

LEMMA InitStep == Init => IInv
<1> SUFFICES ASSUME Init PROVE IInv
  OBVIOUS
<1>1. /\ \A c \in Conns : conn[c] = Free
      /\ \A n \in Node : conns[n] = None /\ global_seq[n] = 0
      /\ \A s \in Sockets, n \in Node : chan[s][n] = <<>>
      /\ failed = "none"
  BY DEF Init
<1>2. /\ Free.state = "FREE" /\ Free.cs = 0 /\ Free.new_cs = 0 /\ Free.swap = "" /\ Free.at = ""
      /\ Free.gseq = 0 /\ Free.peer_gseq = 0 /\ Free.msg.tag = "NONE" /\ Free.existing = None
      /\ ~Free.once_ready /\ ~Free.queued /\ ~Free.replacing
  BY DEF Free
<1>3. Types
  <2>1. None \in ConnPtr /\ <<>> \in Seq(Message)
    BY DEF ConnPtr
  <2>2. QED BY <2>1, FreeIs, ConnectionAssumption DEF Init, Types
<1> HIDE DEF Free
<1>4. PlaceInv
  BY <1>1, <1>2 DEF PlaceInv, Place, Connecting
<1>5. SocketInv
  BY <1>1, <1>2 DEF SocketInv, Socket, HalfAccepted
<1>6. RegistryInv
  <2>1. \A n \in Node : Entry(n)
    BY <1>1 DEF Entry
  <2>2. \A c \in Conns : Registers(c)
    BY <1>1, <1>2 DEF Registers, Claims, Registered, Connecting, HalfAccepted
  <2>3. QED BY <2>1, <2>2 DEF RegistryInv
<1>7. SharedInv
  <2>1. ASSUME NEW s \in Sockets, NEW c \in Conns
        PROVE  ~Holds(c, s) /\ ~Inherits(c, s) /\ ~Accepts(c, s) /\ \A S : ~On(c, s, S)
    BY <1>1, <1>2, SocketsAre DEF Holds, Inherits, Accepts, On
  <2>2. QED BY <2>1 DEF SharedInv, Shared, Channel, OneEnd, Pair
<1>8. GlobalInv
  <2>1. ASSUME NEW c \in Conns PROVE Given(c)
    <3>1. c[1] \in Node /\ Peer(c[1]) \in Node
      BY Nodes
    <3>2. conn[c].gseq = 0 /\ conn[c].peer_gseq = 0 /\ conn[c].msg.tag = "NONE"
      BY <1>1, <1>2
    <3>3. global_seq[c[1]] = 0 /\ global_seq[Peer(c[1])] = 0
      BY <1>1, <3>1
    <3>4. QED BY <3>2, <3>3 DEF Given, Accepted
  <2>2. \A s \in Sockets, n \in Node : Way(s, n)
    <3>1. DOMAIN <<>> = {}
      OBVIOUS
    <3>2. QED BY <1>1, <3>1 DEF Way
  <2>3. QED BY <2>1, <2>2 DEF GlobalInv
<1>9. AssertionsHold
  BY <1>1 DEF AssertionsHold
<1>10. QED BY <1>3, <1>4, <1>5, <1>6, <1>7, <1>8, <1>9 DEF IInv

LEMMA ConnectionStep ==
  ASSUME IInv, NEW c \in Conns,
         \/ wake_standby(c) \/ connect(c) \/ learned_addr(c)
         \/ reply_reset_session(c) \/ reply_retry_global(c) \/ reply_retry_session(c)
         \/ reply_wait(c) \/ reply_ready(c)
         \/ read_connect_msg(c) \/ state_changed(c)
         \/ retry_global(c) \/ retry_session(c) \/ wait(c) \/ reset_session(c)
         \/ replace(c) \/ hard_reset(c) \/ open(c) \/ open_lossy(c)
         \/ accepted(c) \/ accept_refused(c) \/ accept_fails(c) \/ read_seq(c)
         \/ deactivate(c) \/ transfer(c)
         \/ socket_error(c) \/ tick(c) \/ deliver(c) \/ destroy(c)
  PROVE  IInv'
BY WakeStep, ConnectStep, LearnedStep, ResetSessionStep, RetryGlobalStep, RetrySessionStep,
   ReplyWaitStep, ReadyStep, ReadConnectMsgStep, StateChangedStep, RetryGlobalAnswerStep,
   RetrySessionAnswerStep, WaitAnswerStep, ResetSessionAnswerStep, ReplacedStep, HardResetStep,
   OpenedStep, OpenedLossyStep, AcceptedStep, RefusedStep, AcceptFailsStep, ReadSeqStep,
   DeactivateStep, TransferStep, SocketErrorStep, TickStep, DeliverStep, DestroyStep

LEMMA NextStep == IInv /\ [Next]_vars => IInv'
<1> SUFFICES ASSUME IInv, [Next]_vars PROVE IInv'
  OBVIOUS
<1>1. ASSUME NEW n \in Node, send_message(n) \/ mark_down(n) PROVE IInv'
  BY <1>1, SendMessageStep, MarkDownStep
<1>2. ASSUME NEW s \in Sockets, break(s) PROVE IInv'
  BY <1>2, BreakStep
<1>3. CASE UNCHANGED vars
  <2>1. /\ UNCHANGED <<policy, conn, conns, global_seq, chan>>
        /\ broken' = broken /\ faults' = faults /\ failed' = failed
    BY <1>3 DEF vars
  <2>2. broken' \subseteq Sockets /\ faults' \in Nat /\ failed' \in {"none", "accept_conn"}
    BY <2>1 DEF IInv, Types, AssertionsHold
  <2>3. QED BY <2>1, <2>2, SameStep
<1>4. CASE Next
  BY <1>1, <1>2, <1>4, ConnectionStep DEF Next
<1>5. QED BY <1>3, <1>4

\* The invariant of the handshake: for any number of connection objects, sockets
\* and failures, what the two ends of a socket know of each other and of what is
\* on its way fits together.
THEOREM Invariant == Spec => []IInv
<1>1. QED BY InitStep, NextStep, PTL DEF Spec

\* Every variable keeps its type, and no connection knows a global_seq that its
\* peer has not given yet.
THEOREM TypeCorrect == Spec => []TypeOK
<1>1. IInv => TypeOK
  BY DEF IInv, Types, TypeOK, GlobalInv, Given
<1>2. QED BY <1>1, Invariant, PTL

\* A connection that got past the handshake is the one registered for its peer: the
\* handler of a connect message never leaves two objects that go on for the same
\* messenger, however attempts of both sides cross.
THEOREM RegisteredOnce == Spec => []OneConnection
<1>1. IInv => OneConnection
  BY DEF IInv, RegistryInv, Registers, Claims, OneConnection
<1>2. QED BY <1>1, Invariant, PTL

\* No assertion of the state machine fails, but for the one after accept_conn that
\* a replacement in the meantime violates.
THEOREM NoOtherAssertionFails == Spec => []AssertionsHold
<1>1. IInv => AssertionsHold
  BY DEF IInv
<1>2. QED BY <1>1, Invariant, PTL

\* When both ends of a socket are open, they have counted the same number of
\* sessions and follow the same policy.
THEOREM EndsAgree == Spec => []Agreement
<1>1. IInv => Agreement
  <2>1. SUFFICES ASSUME IInv, NEW c \in Conns, NEW d \in Conns, Connected(c, d)
                 PROVE  conn[c].connect_seq = conn[d].connect_seq /\ conn[c].lossy = conn[d].lossy
    BY DEF Agreement
  <2> PICK s : s = conn[c].cs
    OBVIOUS
  <2>2. s \in Sockets
    <3>1. conn[c] \in Connections
      BY <2>1 DEF IInv, Types
    <3>2. conn[c].cs \in Ends /\ conn[c].cs # 0
      BY <2>1, <3>1 DEF Connections, Connected
    <3>3. QED BY <3>2 DEF Ends
  <2>3. Pair(c, d, s)
    BY <2>1, <2>2 DEF IInv, SharedInv, Shared, Connected
  <2>4. On(c, s, {"OPEN"}) /\ On(d, s, {"WAIT_SEQ", "OPEN"})
    BY <2>1 DEF Connected, On
  <2>5. QED BY <2>3, <2>4 DEF Pair
<1>2. QED BY <1>1, Invariant, PTL


-------------------------------------------------------------------------------
(* Nothing comes between two connections that talk: what is still on its way   *)
(* was sent earlier than what they agreed on.                                  *)

\* A connect message of n is on its way on socket s, or its acceptor decides about
\* it.  Every one was sent before global_seq had the value g.
OnWay(n, s, h) == \E i \in DOMAIN chan[s][Peer(n)] :
  chan[s][Peer(n)][i].tag = "CONNECT" /\ chan[s][Peer(n)][i].gseq = h
InHand(n, s, h) == \E e \in Conns :
  e[1] = Peer(n) /\ conn[e].cs = s /\ Deciding(e) /\ conn[e].msg.gseq = h
Attempt(n, s, h) == OnWay(n, s, h) \/ InHand(n, s, h)
Before(n, g) == \A s \in Sockets, h \in Nat : Attempt(n, s, h) => h < g

\* The attempt of a connection that waits for an answer is the latest of its
\* messenger; an answer that accepts is later than all attempts of the acceptor's.
Recent(c) ==
  LET r == conn[c] IN
  /\ r.state \in {"WAIT_IDENTIFY", "WAIT_CONNECT_REPLY"} =>
       \A s \in Sockets, h \in Nat : Attempt(c[1], s, h) =>
         (IF s = r.cs THEN h = r.gseq ELSE h < r.gseq)
  /\ r.state = "CONNECT_MSG_AUTH" /\ r.at = "accepted" => Before(c[1], r.msg.gseq)

\* c accepted the attempt of d, at the other end of its socket: each knows a number
\* that no attempt of the other's messenger has.
Past == {"WAIT_SEQ", "OPEN"}
Granted(r) == r.state \in Past \/ (r.state = "CONNECT_MSG_AUTH" /\ r.at = "accepted")
Met(c, d) == c[1] # d[1] /\ conn[c].cs = conn[d].cs /\ conn[c].cs # 0
Fits(c, d) ==
  LET r == conn[c]
      q == conn[d]
      in == chan[q.cs][d[1]]
  IN  /\ Granted(r) /\ q.state = "WAIT_CONNECT_REPLY" => r.peer_gseq = q.gseq
      /\ r.state \in Past /\ q.state = "WAIT_CONNECT_REPLY" =>
           \A i \in DOMAIN in : Before(c[1], in[i].gseq)
      /\ r.state \in Past /\ q.state = "OPEN" =>
           Before(d[1], r.peer_gseq) /\ Before(c[1], q.peer_gseq)

FreshInv == /\ \A c \in Conns : Recent(c)
            /\ \A c, d \in Conns : Met(c, d) => Fits(c, d)

-------------------------------------------------------------------------------
\* A connection that a step leaves as it is, or that gives its socket up.
Watched == Active \ {"WAIT_CONNECT_MSG"}
Steady(d) == conn'[d].state \in Watched =>
  /\ conn'[d].state = conn[d].state /\ conn'[d].cs = conn[d].cs /\ conn'[d].gseq = conn[d].gseq
  /\ conn'[d].peer_gseq = conn[d].peer_gseq /\ conn'[d].at = conn[d].at
  /\ conn'[d].msg = conn[d].msg
FewerOf(n) == \A s \in Sockets, h \in Nat : Attempt(n, s, h)' => Attempt(n, s, h)
Fewer == \A n \in Node : FewerOf(n)
\* What is on its way was so before, but for m from c to the other end of s.
Old(s, n, m) == \E i \in DOMAIN chan[s][n] : chan[s][n][i] = m
News(c, t, m) == \A s \in Sockets, n \in Node : \A i \in DOMAIN chan'[s][n] :
  Old(s, n, chan'[s][n][i]) \/ (s = t /\ n = Peer(c[1]) /\ chan'[s][n][i] = m)
NoNews == \A s \in Sockets, n \in Node : \A i \in DOMAIN chan'[s][n] : Old(s, n, chan'[s][n][i])

LEMMA AlikeSteady == ASSUME NEW d, Alike(conn'[d], conn[d]) PROVE Steady(d)
BY DEF Alike, Steady

LEMMA StaysSteady == ASSUME NEW d, Stays(d) PROVE Steady(d)
BY AlikeSteady DEF Stays, Stopped, Steady, Watched, Active

LEMMA Unwatched == ASSUME NEW d, conn'[d].state \notin Watched PROVE Steady(d)
BY DEF Steady

LEMMA AttemptsKnown ==
  ASSUME IInv, NEW n \in Node, NEW s \in Sockets, NEW h \in Nat, Attempt(n, s, h)
  PROVE  h <= global_seq[n]
<1>1. CASE OnWay(n, s, h)
  <2>1. PICK i \in DOMAIN chan[s][Peer(n)] :
          chan[s][Peer(n)][i].tag = "CONNECT" /\ chan[s][Peer(n)][i].gseq = h
    BY <1>1 DEF OnWay
  <2>2. Peer(n) \in Node /\ Peer(Peer(n)) = n
    BY Nodes
  <2>3. GivenTo(global_seq, Peer(n), chan[s][Peer(n)][i])
    BY <2>1, <2>2 DEF IInv, GlobalInv, Way
  <2>4. QED BY <2>1, <2>2, <2>3 DEF GivenTo
<1>2. CASE InHand(n, s, h)
  <2>1. PICK e \in Conns : e[1] = Peer(n) /\ Deciding(e) /\ conn[e].msg.gseq = h
    BY <1>2 DEF InHand
  <2>2. Decides(e) /\ conn[e].at = "lookup"
    BY <2>1, AuthIs DEF Deciding
  <2>3. Given(e) /\ Peer(e[1]) = n
    BY <2>1, Nodes DEF IInv, GlobalInv
  <2>4. QED BY <2>1, <2>2, <2>3 DEF Decides, Given
<1>3. QED BY <1>1, <1>2 DEF Attempt

\* No step but that of a connecting connection adds an attempt.
LEMMA FewerIs ==
  ASSUME NEW x \in Conns, NEW t, NEW m, \A d \in Conns \ {x} : Steady(d), News(x, t, m),
         m.tag # "CONNECT", ~Deciding(x)' \/ Steady(x)
  PROVE  Fewer
<1> SUFFICES ASSUME NEW n \in Node, NEW s \in Sockets, NEW h \in Nat, Attempt(n, s, h)'
             PROVE  Attempt(n, s, h)
  BY DEF Fewer, FewerOf
<1>1. CASE OnWay(n, s, h)'
  <2>1. PICK i \in DOMAIN chan'[s][Peer(n)] :
          chan'[s][Peer(n)][i].tag = "CONNECT" /\ chan'[s][Peer(n)][i].gseq = h
    BY <1>1 DEF OnWay
  <2>2. Peer(n) \in Node
    BY Nodes
  <2>3. Old(s, Peer(n), chan'[s][Peer(n)][i])
    BY <2>1, <2>2 DEF News
  <2>4. QED BY <2>1, <2>3 DEF Old, Attempt, OnWay
<1>2. CASE InHand(n, s, h)'
  <2>1. PICK e \in Conns : /\ e[1] = Peer(n) /\ conn'[e].cs = s /\ conn'[e].at = "lookup"
                           /\ conn'[e].state = "CONNECT_MSG_AUTH" /\ conn'[e].msg.gseq = h
    BY <1>2 DEF InHand, Deciding
  <2>2. Steady(e)
    BY <2>1 DEF Deciding
  <2>3. conn[e].cs = s /\ Deciding(e) /\ conn[e].msg.gseq = h
    BY <2>1, <2>2 DEF Steady, Watched, Active, Deciding
  <2>4. QED BY <2>1, <2>3 DEF Attempt, InHand
<1>3. QED BY <1>1, <1>2 DEF Attempt

LEMMA BeforeKept == ASSUME NEW n \in Node, FewerOf(n), NEW g, Before(n, g)
                    PROVE  \A s \in Sockets, h \in Nat : Attempt(n, s, h)' => h < g
BY DEF FewerOf, Before

LEMMA RecentKept ==
  ASSUME NEW c \in Conns, FewerOf(c[1]), Steady(c), Recent(c)
  PROVE  Recent(c)'
<1>1. c[1] \in Node
  BY Nodes
<1>2. ASSUME conn'[c].state \in {"WAIT_IDENTIFY", "WAIT_CONNECT_REPLY"},
             NEW s \in Sockets, NEW h \in Nat, Attempt(c[1], s, h)'
      PROVE  IF s = conn'[c].cs THEN h = conn'[c].gseq ELSE h < conn'[c].gseq
  <2>1. Attempt(c[1], s, h)
    BY <1>1, <1>2 DEF FewerOf
  <2>2. /\ conn'[c].state = conn[c].state /\ conn'[c].cs = conn[c].cs
        /\ conn'[c].gseq = conn[c].gseq
    BY <1>2 DEF Steady, Watched, Active
  <2>3. IF s = conn[c].cs THEN h = conn[c].gseq ELSE h < conn[c].gseq
    BY <1>2, <2>1, <2>2 DEF Recent
  <2>4. QED BY <2>2, <2>3
<1>3. ASSUME conn'[c].state = "CONNECT_MSG_AUTH", conn'[c].at = "accepted"
      PROVE  Before(c[1], conn[c].msg.gseq)'
  <2>1. conn[c].state = "CONNECT_MSG_AUTH" /\ conn[c].at = "accepted" /\ conn'[c].msg = conn[c].msg
    BY <1>3 DEF Steady, Watched, Active
  <2>2. Before(c[1], conn[c].msg.gseq)
    BY <2>1 DEF Recent
  <2>3. \A s \in Sockets, h \in Nat : Attempt(c[1], s, h)' => h < conn[c].msg.gseq
    BY <1>1, <2>2, BeforeKept
  <2>4. QED BY <2>1, <2>3 DEF Before
<1>4. QED BY <1>2, <1>3 DEF Recent

LEMMA FitsKept ==
  ASSUME IInv, Fewer, NEW c \in Conns, NEW d \in Conns, Steady(c), Steady(d),
         Met(c, d) => Fits(c, d), Met(c, d)',
         conn[c].cs = conn[d].cs /\ conn[c].state \in Past /\ conn[d].state = "WAIT_CONNECT_REPLY" =>
           \A i \in DOMAIN chan'[conn[d].cs][d[1]] :
             Old(conn[d].cs, d[1], chan'[conn[d].cs][d[1]][i])
  PROVE  Fits(c, d)'
<1>1. c[1] \in Node /\ d[1] \in Node
  BY Nodes
<1>2. ASSUME Granted(conn'[c]), conn'[d].state \in {"WAIT_CONNECT_REPLY", "OPEN"}
      PROVE  /\ conn'[c].state = conn[c].state /\ conn'[c].peer_gseq = conn[c].peer_gseq
             /\ conn'[d].state = conn[d].state /\ conn'[d].peer_gseq = conn[d].peer_gseq
             /\ conn'[d].gseq = conn[d].gseq /\ conn'[d].cs = conn[d].cs
             /\ conn[c].cs = conn[d].cs
             /\ Granted(conn[c]) /\ Fits(c, d)
  <2>1. /\ conn'[c].state = conn[c].state /\ conn'[c].peer_gseq = conn[c].peer_gseq
        /\ conn'[c].cs = conn[c].cs /\ conn'[c].at = conn[c].at
    BY <1>2 DEF Granted, Past, Steady, Watched, Active
  <2>2. /\ conn'[d].state = conn[d].state /\ conn'[d].peer_gseq = conn[d].peer_gseq
        /\ conn'[d].gseq = conn[d].gseq /\ conn'[d].cs = conn[d].cs
    BY <1>2 DEF Steady, Watched, Active
  <2>3. Granted(conn[c])
    BY <1>2, <2>1 DEF Granted
  <2>4. Met(c, d)
    BY <2>1, <2>2 DEF Met
  <2>5. QED BY <2>1, <2>2, <2>3, <2>4 DEF Met
<1>3. Granted(conn'[c]) /\ conn'[d].state = "WAIT_CONNECT_REPLY" => conn'[c].peer_gseq = conn'[d].gseq
  BY <1>2 DEF Fits
<1>4. ASSUME conn'[c].state \in Past, conn'[d].state = "WAIT_CONNECT_REPLY",
             NEW i \in DOMAIN chan'[conn'[d].cs][d[1]]
      PROVE  Before(c[1], chan[conn[d].cs][d[1]][i].gseq)'
  <2>1. Granted(conn'[c])
    BY <1>4 DEF Granted
  <2>2. /\ conn[c].state \in Past /\ conn[d].state = "WAIT_CONNECT_REPLY"
        /\ conn'[d].cs = conn[d].cs /\ conn[c].cs = conn[d].cs /\ Fits(c, d)
    BY <1>2, <1>4, <2>1
  <2>3. PICK j \in DOMAIN chan[conn[d].cs][d[1]] :
          chan[conn[d].cs][d[1]][j] = chan'[conn'[d].cs][d[1]][i]
    BY <1>4, <2>2 DEF Old
  <2>4. Before(c[1], chan[conn[d].cs][d[1]][j].gseq)
    BY <2>2 DEF Fits
  <2>5. Before(c[1], chan'[conn'[d].cs][d[1]][i].gseq)
    BY <2>3, <2>4
  <2> DEFINE g == chan'[conn'[d].cs][d[1]][i].gseq
  <2>6. \A s \in Sockets, h \in Nat : Attempt(c[1], s, h)' => h < g
    BY <1>1, <2>5, BeforeKept DEF Fewer
  <2>7. QED BY <2>6 DEF Before
<1>5. ASSUME conn'[c].state \in Past, conn'[d].state = "OPEN"
      PROVE  Before(d[1], conn[c].peer_gseq)' /\ Before(c[1], conn[d].peer_gseq)'
  <2>1. Granted(conn'[c])
    BY <1>5 DEF Granted
  <2>2. /\ conn[c].state \in Past /\ conn[d].state = "OPEN" /\ Fits(c, d)
        /\ conn'[c].peer_gseq = conn[c].peer_gseq /\ conn'[d].peer_gseq = conn[d].peer_gseq
    BY <1>2, <1>5, <2>1
  <2>3. Before(d[1], conn[c].peer_gseq) /\ Before(c[1], conn[d].peer_gseq)
    BY <2>2 DEF Fits
  <2>4. /\ \A s \in Sockets, h \in Nat : Attempt(d[1], s, h)' => h < conn[c].peer_gseq
        /\ \A s \in Sockets, h \in Nat : Attempt(c[1], s, h)' => h < conn[d].peer_gseq
    BY <1>1, <2>3, BeforeKept DEF Fewer
  <2>5. QED BY <2>2, <2>4 DEF Before
<1>6. QED BY <1>3, <1>4, <1>5 DEF Fits

\* A step of x alone that sends at most m, no attempt.
LEMMA SteadyStep ==
  ASSUME IInv, FreshInv, NEW x \in Conns, NEW t, NEW m, \A d \in Conns \ {x} : Steady(d), Fewer,
         t \in Sockets => Holds(x, t), News(x, t, m), Recent(x)',
         \A d \in Conns : Met(x, d)' => Fits(x, d)' /\ Fits(d, x)'
  PROVE  FreshInv'
<1>1. ASSUME NEW c \in Conns PROVE Recent(c)'
  BY RecentKept, Nodes DEF FreshInv, Fewer
<1>2. ASSUME NEW c \in Conns, NEW d \in Conns, Met(c, d)' PROVE Fits(c, d)'
  <2>1. CASE c = x
    BY <1>2, <2>1
  <2>2. CASE d = x
    BY <1>2, <2>2 DEF Met
  <2>3. CASE c # x /\ d # x
    <3> DEFINE s == conn[d].cs
    <3>1. ASSUME conn[c].cs = s, conn[c].state \in Past, conn[d].state = "WAIT_CONNECT_REPLY",
                 NEW i \in DOMAIN chan'[s][d[1]]
          PROVE  Old(s, d[1], chan'[s][d[1]][i])
      <4>1. s \in Sockets /\ Shared(s) /\ Holds(d, s)
        BY <3>1, HasSocket
      <4>2. Holds(c, s)
        BY <3>1 DEF Holds
      <4>3. c[1] \in Node /\ d[1] \in Node /\ x[1] \in Node /\ c[1] # d[1]
        BY <1>2, Nodes DEF Met
      <4>4. ASSUME s = t, d[1] = Peer(x[1]) PROVE FALSE
        <5>1. c[1] = x[1]
          BY <4>3, <4>4, Nodes
        <5>2. OneEnd(c, x, s)
          BY <4>1 DEF Shared
        <5>3. QED BY <2>3, <4>1, <4>2, <4>4, <5>1, <5>2 DEF OneEnd
      <4>5. QED BY <3>1, <4>1, <4>3, <4>4 DEF News
    <3>2. Steady(c) /\ Steady(d) /\ (Met(c, d) => Fits(c, d))
      BY <2>3 DEF FreshInv
    <3>3. QED BY <1>2, <3>1, <3>2, FitsKept
  <2>4. QED BY <2>1, <2>2, <2>3
<1>3. QED BY <1>1, <1>2 DEF FreshInv

-------------------------------------------------------------------------------
\* What is open stays so.
Remains(d) == conn[d].state = "OPEN" => conn'[d].state = "OPEN" /\ conn'[d].cs = conn[d].cs
Untouched == \A d, e \in Conns :
  Connected(d, e) /\ conn[d].cs \notin broken /\ faults' = faults => Remains(d)
Good == FreshInv' /\ Untouched

LEMMA AlikeRemains == ASSUME NEW d, Alike(conn'[d], conn[d]) PROVE Steady(d) /\ Remains(d)
BY AlikeSteady DEF Alike, Remains

LEMMA NewsIs ==
  ASSUME Types, NEW c \in Conns, NEW s \in Sockets, NEW m,
         \A t \in Sockets \ {s} : chan'[t] = chan[t],
         Left(c, s) \/ (Took(c, s) /\ chan[s][c[1]] # <<>>), Silent(c, s) \/ Sent(c, s, m)
  PROVE  News(c, s, m) /\ (Silent(c, s) => NoNews)
<1>1. c[1] \in Node /\ Peer(c[1]) \in Node /\ \A n \in Node : n \in {c[1], Peer(c[1])}
  BY Nodes
<1>2. \A n \in Node : chan[s][n] \in Seq(Message)
  BY DEF Types
<1>3. \A i \in DOMAIN chan'[s][c[1]] : Old(s, c[1], chan'[s][c[1]][i])
  <2>1. CASE Left(c, s)
    BY <2>1 DEF Left, Old
  <2>2. CASE Took(c, s) /\ chan[s][c[1]] # <<>>
    BY <1>1, <1>2, <2>2, TailIs DEF Took, Old
  <2>3. QED BY <2>1, <2>2
<1>4. \A i \in DOMAIN chan'[s][Peer(c[1])] :
        \/ Old(s, Peer(c[1]), chan'[s][Peer(c[1])][i])
        \/ ~Silent(c, s) /\ chan'[s][Peer(c[1])][i] = m
  <2>1. CASE chan'[s][Peer(c[1])] = chan[s][Peer(c[1])]
    BY <2>1 DEF Old
  <2>2. CASE ~Silent(c, s) /\ m \in Message
             /\ chan'[s][Peer(c[1])] = Append(chan[s][Peer(c[1])], m)
    <3> PICK x \in Seq(Message) : x = chan[s][Peer(c[1])]
      BY <1>1, <1>2
    <3>1. \A i \in DOMAIN Append(x, m) : (i \in DOMAIN x /\ Append(x, m)[i] = x[i])
                                          \/ Append(x, m)[i] = m
      BY <2>2
    <3>2. QED BY <2>2, <3>1 DEF Old
  <2>3. QED BY <2>1, <2>2 DEF Silent, Sent
<1>5. \A t \in Sockets \ {s}, n \in Node : \A i \in DOMAIN chan'[t][n] : Old(t, n, chan'[t][n][i])
  BY DEF Old
<1>6. QED BY <1>1, <1>3, <1>4, <1>5 DEF News, NoNews

LEMMA SameNews == ASSUME chan' = chan PROVE NoNews
BY DEF NoNews, Old

\* A step that neither sends anything nor brings a connection into the handshake.
LEMMA CalmStep ==
  ASSUME IInv, FreshInv, \A d \in Conns : Steady(d), NoNews
  PROVE  FreshInv'
<1>1. CASE Conns = {}
  BY <1>1 DEF FreshInv
<1>2. CASE Conns # {}
  <2> PICK x \in Conns : TRUE
    BY <1>2
  <2>1. News(x, 0, Free.msg) /\ Free.msg.tag # "CONNECT"
    BY DEF NoNews, News, Free
  <2>2. Fewer
    BY <2>1, FewerIs
  <2>3. Recent(x)'
    BY <2>2, RecentKept, Nodes DEF FreshInv, Fewer
  <2>4. ASSUME NEW d \in Conns, Met(x, d)' PROVE Fits(x, d)' /\ Fits(d, x)'
    <3>1. \A s \in Sockets, n \in Node : \A i \in DOMAIN chan'[s][n] : Old(s, n, chan'[s][n][i])
      BY DEF NoNews
    <3>2. \A e \in Conns : conn[e].state = "WAIT_CONNECT_REPLY" =>
             conn[e].cs \in Sockets /\ e[1] \in Node
      BY HasSocket, Nodes
    <3>3. Met(d, x)'
      BY <2>4 DEF Met
    <3>4. (Met(x, d) => Fits(x, d)) /\ (Met(d, x) => Fits(d, x))
      BY DEF FreshInv
    <3>5. Fits(x, d)'
      BY <2>2, <2>4, <3>1, <3>2, <3>4, FitsKept
    <3>6. Fits(d, x)'
      BY <2>2, <3>1, <3>2, <3>3, <3>4, FitsKept
    <3>7. QED BY <3>5, <3>6
  <2>5. 0 \notin Sockets
    BY SocketsAre
  <2>6. QED BY <2>1, <2>2, <2>3, <2>4, <2>5, SteadyStep
<1>3. QED BY <1>1, <1>2

LEMMA CalmGood ==
  ASSUME IInv, FreshInv, \A d \in Conns : Steady(d), NoNews,
         (\A d \in Conns : Remains(d)) \/ faults' # faults
  PROVE  Good
BY CalmStep DEF Good, Untouched

\* A step that changes one connection, to one that is out of the handshake.
LEMMA FadesGood ==
  ASSUME IInv, FreshInv, NEW c \in Conns, NEW q, conn' = [conn EXCEPT ![c] = q],
         q.state \notin Watched, conn[c].state # "OPEN", NoNews
  PROVE  Good
<1>1. conn'[c] = q /\ \A d \in Conns \ {c} : conn'[d] = conn[d]
  BY DEF IInv, Types
<1>2. \A d \in Conns : Steady(d) /\ Remains(d)
  BY <1>1, Unwatched DEF Steady, Remains
<1>3. QED BY <1>2, CalmGood

LEMMA AbortGood ==
  ASSUME IInv, FreshInv, UNCHANGED <<conn, chan>>
  PROVE  Good
<1>1. conn' = conn /\ chan' = chan
  OBVIOUS
<1>2. \A d \in Conns : Steady(d) /\ Remains(d)
  BY <1>1 DEF Steady, Remains
<1>3. QED BY <1>1, <1>2, SameNews, CalmGood

LEMMA SendMessageGood == ASSUME IInv, FreshInv, NEW n \in Node, send_message(n) PROVE Good
<1>1. chan' = chan
  BY DEF send_message
<1>2. CASE lookup(n) # None
  <2> PICK c : c = lookup(n)
    OBVIOUS
  <2>1. c \in Conns /\ conn[c] \in Connections
    BY <1>2, LookupIs DEF IInv, Types
  <2>2. conn' = [conn EXCEPT ![c].queued = TRUE]
    BY <1>2 DEF send_message
  <2>3. \A d \in Conns : conn'[d] = IF d = c THEN [conn[c] EXCEPT !.queued = TRUE] ELSE conn[d]
    BY <2>1, <2>2 DEF IInv, Types
  <2>4. LET q == [conn[c] EXCEPT !.queued = TRUE] IN Alike([q EXCEPT !.queued = conn[c].queued], conn[c])
        /\ q.state = conn[c].state /\ q.cs = conn[c].cs /\ q.gseq = conn[c].gseq
        /\ q.peer_gseq = conn[c].peer_gseq /\ q.at = conn[c].at /\ q.msg = conn[c].msg
    BY <2>1 DEF Connections, Alike
  <2>5. \A d \in Conns : Steady(d) /\ Remains(d)
    BY <2>3, <2>4 DEF Steady, Remains
  <2>6. QED BY <1>1, <2>5, SameNews, CalmGood
<1>3. CASE lookup(n) = None
  <2> DEFINE q == _connect([Free EXCEPT !.queued = TRUE, !.lossy = n \in policy.lossy])
  <2>1. FreeConns(n) # {} /\ conn' = [conn EXCEPT ![NewConn(n)] = q]
    BY <1>3 DEF send_message
  <2>2. NewConn(n) \in Conns /\ conn[NewConn(n)].state = "FREE"
    BY <2>1, NewConnIs
  <2>3. q.state \notin Watched
    BY DEF _connect, Free, Watched, Active
  <2> HIDE DEF q
  <2>4. QED BY <1>1, <2>1, <2>2, <2>3, SameNews, FadesGood
<1>4. QED BY <1>2, <1>3

LEMMA MarkDownGood == ASSUME IInv, FreshInv, NEW n \in Node, mark_down(n) PROVE Good
<1>1. /\ conn' = stop(conn, lookup(n)) /\ faults' = faults + 1 /\ chan' = chan
      /\ lookup(n) \in Conns /\ conn[lookup(n)].state # "CLOSED"
  BY LookupIs DEF mark_down
<1>2. conn \in Table /\ faults \in Nat
  BY DEF IInv, Types, Table
<1>3. \A d \in Conns : Steady(d)
  <2>1. Stopped(conn'[lookup(n)], conn[lookup(n)]) /\ \A d \in Conns \ {lookup(n)} : Alike(conn'[d], conn[d])
    BY <1>1, <1>2, StopIs
  <2>2. QED BY <2>1, AlikeSteady DEF Stopped, Steady, Watched, Active
<1>4. QED BY <1>1, <1>2, <1>3, SameNews, CalmGood

LEMMA WakeGood == ASSUME IInv, FreshInv, NEW c \in Conns, wake_standby(c) PROVE Good
<1>1. conn' = [conn EXCEPT ![c] = _connect(conn[c])] /\ chan' = chan /\ conn[c].state = "STANDBY"
  BY DEF wake_standby
<1>2. _connect(conn[c]).state \notin Watched
  BY DEF IInv, Types, Connections, _connect, Watched, Active
<1>3. QED BY <1>1, <1>2, SameNews, FadesGood

LEMMA StateChangedGood == ASSUME IInv, FreshInv, NEW c \in Conns, state_changed(c) PROVE Good
<1> DEFINE q == [conn[c] EXCEPT !.at = "", !.existing = None, !.msg = Free.msg]
<1>1. conn[c].at = "lookup" /\ conn[c].state = "CLOSED" /\ conn[c] \in Connections
  BY DEF state_changed, IInv, PlaceInv, Place, Types
<1>2. conn' = [conn EXCEPT ![c] = q] /\ chan' = chan
  BY <1>1 DEF state_changed
<1>3. q.state \notin Watched
  BY <1>1 DEF Connections, Watched, Active
<1> HIDE DEF q
<1>4. QED BY <1>1, <1>2, <1>3, SameNews, FadesGood

LEMMA DeactivateGood == ASSUME IInv, FreshInv, NEW c \in Conns, deactivate(c) PROVE Good
<1> PICK r : r = conn[c]
  OBVIOUS
<1> DEFINE q == IF r.state = "NONE"
                THEN [r EXCEPT !.cs = r.new_cs, !.new_cs = 0, !.swap = "transfer"]
                ELSE [r EXCEPT !.new_cs = 0, !.swap = ""]
<1>1. r.swap = "deactivate" /\ r.state \in {"NONE", "CLOSED"} /\ r \in Connections
  BY DEF deactivate, IInv, SocketInv, Socket, Types
<1>2. conn' = [conn EXCEPT ![c] = q] /\ chan' = chan
  BY <1>1 DEF deactivate
<1>3. q.state = r.state
  BY <1>1 DEF Connections
<1> HIDE DEF q
<1>4. q.state \notin Watched
  BY <1>1, <1>3 DEF Watched, Active
<1>5. QED BY <1>1, <1>2, <1>4, SameNews, FadesGood

LEMMA DestroyGood == ASSUME IInv, FreshInv, NEW c \in Conns, destroy(c) PROVE Good
<1>1. conn' = [conn EXCEPT ![c] = Free] /\ chan' = chan /\ conn[c].state = "CLOSED"
  BY DEF destroy
<1>2. Free.state \notin Watched
  BY DEF Free, Watched, Active
<1>3. QED BY <1>1, <1>2, SameNews, FadesGood

LEMMA DeliverGood == ASSUME IInv, FreshInv, NEW c \in Conns, deliver(c) PROVE Good
<1> PICK d \in Conns, left \in BOOLEAN :
      /\ conn' = [conn EXCEPT ![c].queued = left, ![c].out_to = d, ![d].in_of = c]
      /\ d[1] = Peer(c[1]) /\ chan' = chan
  BY DEF deliver
<1> DEFINE q == [conn[c] EXCEPT !.queued = left, !.out_to = d]
           p == [conn[d] EXCEPT !.in_of = c]
<1>1. c # d /\ conn \in [Conns -> Connections] /\ conn[c] \in Connections /\ conn[d] \in Connections
  BY Nodes DEF IInv, Types
<1>2. conn' = [conn EXCEPT ![c] = q, ![d] = p]
  BY <1>1 DEF Connections
<1>3. /\ q.state = conn[c].state /\ q.cs = conn[c].cs /\ q.gseq = conn[c].gseq
      /\ q.peer_gseq = conn[c].peer_gseq /\ q.at = conn[c].at /\ q.msg = conn[c].msg
      /\ p.state = conn[d].state /\ p.cs = conn[d].cs /\ p.gseq = conn[d].gseq
      /\ p.peer_gseq = conn[d].peer_gseq /\ p.at = conn[d].at /\ p.msg = conn[d].msg
  BY <1>1 DEF Connections
<1> HIDE DEF q, p
<1>4. conn'[c] = q /\ conn'[d] = p /\ \A e \in Conns \ {c, d} : conn'[e] = conn[e]
  BY <1>1, <1>2
<1>5. \A e \in Conns : Steady(e) /\ Remains(e)
  BY <1>3, <1>4 DEF Steady, Remains
<1>6. QED BY <1>5, SameNews, CalmGood

LEMMA BreakGood == ASSUME IInv, FreshInv, NEW s \in Sockets, break(s) PROVE Good
BY AbortGood DEF break


\* Nobody whose socket fails at one end talks to the other end.
LEMMA FaultGood ==
  ASSUME IInv, FreshInv, NEW c \in Conns, NEW h, Prepared(h, c), conn' = fault(h, c), NoNews,
         \A e \in Conns : Connected(c, e) => conn[c].cs \in broken \/ faults' # faults
  PROVE  Good
<1>1. h \in Table /\ \A d \in Conns \ {c} : h[d] = conn[d]
  BY DEF Prepared
<1>2. \A d \in Conns \ {c} : Alike(conn'[d], conn[d])
  BY <1>1, FaultIs
<1>3. conn'[c].state \notin Watched
  <2>1. CASE h[c].state \in {"CLOSED", "NONE"}
    BY <1>1, <2>1, FaultIs DEF Watched, Active
  <2>2. CASE h[c].state \notin {"CLOSED", "NONE"}
    <3>1. Faulted(c[1], conn'[c], h[c])
      BY <1>1, <2>2, FaultIs
    <3>2. QED BY <3>1 DEF Faulted, Watched, Active
  <2>3. QED BY <2>1, <2>2
<1>4. \A d \in Conns : Steady(d)
  BY <1>2, <1>3, AlikeSteady, Unwatched
<1>5. Untouched
  BY <1>2, AlikeRemains DEF Untouched
<1>6. QED BY <1>4, <1>5, CalmStep DEF Good

LEMMA BackGood ==
  ASSUME IInv, FreshInv, NEW c \in Conns, conn[c].state \in {"CONNECT_MSG_AUTH", "CLOSED"},
         conn' = fault(Back(c), c), chan' = chan
  PROVE  Good
<1>1. Prepared(Back(c), c)
  BY BackPrepared DEF IInv
<1>2. \A e \in Conns : ~Connected(c, e)
  BY DEF Connected
<1>3. QED BY <1>1, <1>2, SameNews, FaultGood

LEMMA RefusedGood == ASSUME IInv, FreshInv, NEW c \in Conns, accept_refused(c) PROVE Good
<1>1. conn[c].state \in {"CONNECT_MSG_AUTH", "CLOSED"}
  BY DEF accept_refused, IInv, PlaceInv, Place
<1>2. QED BY <1>1, BackGood DEF accept_refused

LEMMA AcceptFailsGood == ASSUME IInv, FreshInv, NEW c \in Conns, accept_fails(c) PROVE Good
BY BackGood DEF accept_fails

LEMMA SocketErrorGood == ASSUME IInv, FreshInv, NEW c \in Conns, socket_error(c) PROVE Good
<1>1. conn' = fault(conn, c) /\ chan' = chan /\ Dead(c) /\ conn[c].at = "" /\ conn[c].state # "FREE"
  BY DEF socket_error
<1>2. Prepared(conn, c)
  BY <1>1 DEF Prepared, IInv, Types, Table
<1>3. ASSUME NEW e \in Conns, Connected(c, e) PROVE conn[c].cs \in broken
  <2>1. e \in ConnsOf(Peer(c[1])) /\ Holds(e, conn[c].cs)
    BY <1>3, Nodes DEF Connected, ConnsOf, Holds
  <2>2. QED BY <1>1, <2>1 DEF Dead, EndOpen
<1>4. QED BY <1>1, <1>2, <1>3, SameNews, FaultGood

LEMMA TickGood == ASSUME IInv, FreshInv, NEW c \in Conns, tick(c) PROVE Good
<1> DEFINE q == [conn[c] EXCEPT !.tick = FALSE]
           h == [conn EXCEPT ![c] = q]
<1>1. /\ conn[c].state \notin {"CLOSED", "FREE"} /\ conn[c].at = "" /\ chan' = chan
      /\ (conn' = fault(h, c) /\ faults' = faults + 1) \/ conn' = h
  BY DEF tick
<1>2. conn[c] \in Connections /\ conn \in Table /\ faults \in Nat
  BY DEF IInv, Types, Table
<1>3. /\ q \in Connections /\ q.state = conn[c].state /\ q.cs = conn[c].cs
      /\ q.new_cs = conn[c].new_cs /\ q.swap = conn[c].swap /\ q.at = conn[c].at
      /\ q.existing = conn[c].existing /\ q.gseq = conn[c].gseq
      /\ q.peer_gseq = conn[c].peer_gseq /\ q.msg = conn[c].msg
      /\ q.once_ready = conn[c].once_ready /\ q.queued = conn[c].queued
      /\ q.connect_seq = conn[c].connect_seq /\ q.lossy = conn[c].lossy
      /\ q.replacing = conn[c].replacing
  BY <1>2 DEF Connections
<1>4. h \in Table /\ h[c] = q /\ \A d \in Conns \ {c} : h[d] = conn[d]
  BY <1>2, <1>3 DEF Table
<1>5. CASE conn' = fault(h, c) /\ faults' = faults + 1
  <2> HIDE DEF h, q
  <2>1. Prepared(h, c)
    BY <1>1, <1>3, <1>4 DEF Prepared
  <2>2. faults' # faults
    BY <1>2, <1>5
  <2>3. QED BY <1>1, <1>5, <2>1, <2>2, SameNews, FaultGood
<1>6. CASE conn' = h
  <2> HIDE DEF q
  <2>1. \A d \in Conns : Steady(d) /\ Remains(d)
    BY <1>3, <1>4, <1>6 DEF Steady, Remains
  <2>2. QED BY <1>1, <2>1, SameNews, CalmGood
<1>7. QED BY <1>1, <1>5, <1>6

LEMMA ReplyWaitGood == ASSUME IInv, FreshInv, NEW c \in Conns, reply_wait(c) PROVE Good
<1> DEFINE p == [conn[c] EXCEPT !.state = "WAIT"]
           h == [conn EXCEPT ![c] = p]
<1> PICK s : s = conn[c].cs
  OBVIOUS
<1>1. Reply(c, "WAIT") /\ conn' = fault(h, c) /\ chan' = Taken(c)
  BY DEF reply_wait
<1>2. /\ s \in Sockets /\ conn[c].state = "WAIT_CONNECT_REPLY" /\ conn[c].at = ""
      /\ chan[s][c[1]] # <<>>
  BY <1>1, ReplyIs DEF Reply, Reads
<1>3. Types /\ conn[c] \in Connections /\ conn \in Table
  BY DEF IInv, Types, Table
<1>4. /\ p \in Connections /\ p.state = "WAIT" /\ p.cs = conn[c].cs
      /\ p.new_cs = conn[c].new_cs /\ p.swap = conn[c].swap /\ p.at = conn[c].at
      /\ p.existing = conn[c].existing /\ p.gseq = conn[c].gseq
      /\ p.peer_gseq = conn[c].peer_gseq /\ p.msg = conn[c].msg
      /\ p.once_ready = conn[c].once_ready /\ p.queued = conn[c].queued
      /\ p.connect_seq = conn[c].connect_seq /\ p.lossy = conn[c].lossy
      /\ p.replacing = conn[c].replacing
  <2>1. "WAIT" \in States
    BY DEF States
  <2>2. QED BY <1>3, <2>1 DEF Connections
<1> HIDE DEF p
<1>5. h \in Table /\ h[c] = p /\ \A d \in Conns \ {c} : h[d] = conn[d]
  BY <1>3, <1>4 DEF Table
<1> HIDE DEF h
<1>6. Prepared(h, c)
  BY <1>2, <1>4, <1>5 DEF Prepared
<1>7. NoNews
  <2>1. (\A t \in Sockets \ {s} : chan'[t] = chan[t]) /\ Took(c, s) /\ Silent(c, s)
    BY <1>1, <1>2, <1>3, Reads_message
  <2>2. QED BY <1>2, <1>3, <2>1, NewsIs
<1>8. \A e \in Conns : ~Connected(c, e)
  BY <1>2 DEF Connected
<1>9. QED BY <1>1, <1>6, <1>7, <1>8, FaultGood

-------------------------------------------------------------------------------
(* The connecting side asks, or asks again: the only steps that add an attempt. *)

LEMMA AskGood ==
  ASSUME IInv, IInv', FreshInv, NEW c \in Conns, NEW s \in Sockets, conn[c].cs = s,
         conn[c].state \in {"WAIT_IDENTIFY", "WAIT_CONNECT_REPLY"}, Only(c),
         conn'[c].state = "WAIT_CONNECT_REPLY", conn'[c].cs = s,
         conn'[c].gseq = conn[c].gseq \/ conn'[c].gseq > global_seq[c[1]],
         chan[s][Peer(c[1])] = <<>>, \A t \in Sockets \ {s} : chan'[t] = chan[t],
         Left(c, s) \/ (Took(c, s) /\ chan[s][c[1]] # <<>>),
         NEW m, Sent(c, s, m), m.tag = "CONNECT", m.gseq = conn'[c].gseq
  PROVE  Good
<1> PICK n \in Node : n = c[1]
  BY Nodes
<1>a. /\ Types /\ Registers(c) /\ Given(c) /\ RegistryInv' /\ Shared(s)'
  BY DEF IInv, RegistryInv, GlobalInv, SharedInv
<1>1. News(c, s, m)
  BY <1>a, NewsIs
<1>2. /\ conn[c].gseq \in Nat /\ conn'[c].gseq \in Nat /\ global_seq[n] \in Nat
      /\ conn[c].gseq <= conn'[c].gseq
  <2>1. conn[c] \in Connections /\ conn'[c] \in Connections /\ global_seq[n] \in Nat
    BY <1>a DEF Types, Only, Table
  <2>2. conn[c].gseq \in Nat /\ conn'[c].gseq \in Nat /\ conn[c].gseq <= global_seq[n]
    BY <1>a, <2>1 DEF Connections, Given
  <2>3. QED BY <2>1, <2>2
\* What the other end finds on the socket.
<1>3. ASSUME NEW d \in Conns, d[1] # n, conn'[d].cs = s
      PROVE  chan'[s][Peer(n)] = <<m>> /\ d[1] = Peer(n)
  <2>1. d # c /\ conn[d].cs = s /\ d[1] = Peer(n)
    BY <1>3, Nodes DEF Only, Alike
  <2>2. d \in ConnsOf(Peer(n)) /\ Holds(d, s)
    BY <2>1 DEF ConnsOf, Holds
  <2>3. EndOpen(s, Peer(n))
    BY <2>2 DEF EndOpen
  <2>4. chan'[s][Peer(n)] = Append(<<>>, m)
    BY <2>3 DEF Sent
  <2>5. QED BY <2>1, <2>4
<1>4. ASSUME NEW d \in Conns, d[1] # n, conn'[d].cs = s
      PROVE  conn'[d].state \notin {"CONNECT_MSG_AUTH", "WAIT_SEQ", "OPEN"}
  <2>1. chan'[s][Peer(n)] # <<>>
    <3>1. <<m>> # <<>>
      OBVIOUS
    <3>2. QED BY <1>3, <1>4, <3>1
  <2>2. On(c, s, {"WAIT_CONNECT_REPLY"})'
    BY DEF On
  <2>3. Answered(c, d, s)' /\ Waits(c, s)'
    BY <1>a, <1>4, <2>2 DEF Shared, Pair, Channel
  <2>4. ~On(d, s, {"CONNECT_MSG_AUTH"})'
    BY <2>1, <2>3 DEF Answered, Identifies
  <2>5. ~On(d, s, {"WAIT_SEQ", "OPEN"})'
    BY <2>1, <2>3 DEF Answered, Waits
  <2>6. QED BY <1>4, <2>4, <2>5 DEF On
\* Attempts of others, and of this messenger elsewhere, are old.
<1>5. ASSUME NEW k \in Node, NEW t \in Sockets, NEW h \in Nat, Attempt(k, t, h)', k # n \/ t # s
      PROVE  Attempt(k, t, h)
  <2>1. CASE OnWay(k, t, h)'
    <3>1. PICK i \in DOMAIN chan'[t][Peer(k)] :
            chan'[t][Peer(k)][i].tag = "CONNECT" /\ chan'[t][Peer(k)][i].gseq = h
      BY <2>1 DEF OnWay
    <3>2. Peer(k) \in Node /\ (t = s => Peer(k) # Peer(n))
      BY <1>5, Nodes
    <3>3. Old(t, Peer(k), chan'[t][Peer(k)][i])
      BY <1>1, <3>1, <3>2 DEF News
    <3>4. QED BY <3>1, <3>3 DEF Old, Attempt, OnWay
  <2>2. CASE InHand(k, t, h)'
    <3>1. PICK e \in Conns : /\ e[1] = Peer(k) /\ conn'[e].cs = t /\ conn'[e].at = "lookup"
                             /\ conn'[e].state = "CONNECT_MSG_AUTH" /\ conn'[e].msg.gseq = h
      BY <2>2 DEF InHand, Deciding
    <3>2. Steady(e)
      BY <3>1, AlikeSteady DEF Only
    <3>3. conn[e].cs = t /\ Deciding(e) /\ conn[e].msg.gseq = h
      BY <3>1, <3>2 DEF Steady, Watched, Active, Deciding
    <3>4. QED BY <3>1, <3>3 DEF Attempt, InHand
  <2>3. QED BY <1>5, <2>1, <2>2 DEF Attempt
<1>6. ASSUME NEW h \in Nat, Attempt(n, s, h)' PROVE h = conn'[c].gseq
  <2>1. CASE OnWay(n, s, h)'
    <3>1. PICK i \in DOMAIN chan'[s][Peer(n)] : chan'[s][Peer(n)][i].gseq = h
      BY <2>1 DEF OnWay
    <3>2. \/ Old(s, Peer(n), chan'[s][Peer(n)][i])
          \/ chan'[s][Peer(n)][i] = m
      BY <1>1, <3>1, Nodes DEF News
    <3>3. ~Old(s, Peer(n), chan'[s][Peer(n)][i])
      BY DEF Old
    <3>4. QED BY <3>1, <3>2, <3>3
  <2>2. CASE InHand(n, s, h)'
    <3>1. PICK e \in Conns : e[1] = Peer(n) /\ conn'[e].cs = s /\ conn'[e].state = "CONNECT_MSG_AUTH"
      BY <2>2 DEF InHand, Deciding
    <3>2. QED BY <1>4, <3>1, Nodes
  <2>3. QED BY <1>6, <2>1, <2>2 DEF Attempt
<1>7. Recent(c)'
  <2>1. ASSUME NEW t \in Sockets, NEW h \in Nat, Attempt(n, t, h)'
        PROVE  IF t = s THEN h = conn'[c].gseq ELSE h < conn'[c].gseq
    <3>1. CASE t = s
      BY <1>6, <2>1, <3>1
    <3>2. CASE t # s
      <4>1. Attempt(n, t, h)
        BY <1>5, <2>1, <3>2
      <4>2. h < conn[c].gseq
        BY <3>2, <4>1 DEF FreshInv, Recent
      <4>3. QED BY <1>2, <3>2, <4>2
    <3>3. QED BY <3>1, <3>2
  <2>2. QED BY <2>1 DEF Recent
\* Nobody else of this messenger is in a handshake or past it.
<1>8. ASSUME NEW d \in Conns \ {c}, d[1] = n
      PROVE  /\ conn'[d].state \notin {"WAIT_IDENTIFY", "WAIT_CONNECT_REPLY", "WAIT_SEQ", "OPEN"}
             /\ conn'[d].state = "CONNECT_MSG_AUTH" => conn'[d].at # "accepted"
  <2>1. Registers(c)' /\ Registers(d)'
    BY <1>a DEF RegistryInv
  <2>2. Claims(conn'[c])
    BY DEF Claims, Registered, Connecting
  <2>3. ~Claims(conn'[d])
    BY <1>8, <2>1, <2>2 DEF Registers
  <2>4. QED BY <2>3 DEF Claims, Registered, Connecting
<1>9. ASSUME NEW d \in Conns PROVE Recent(d)'
  <2>1. CASE d = c
    BY <1>7, <2>1
  <2>2. CASE d # c /\ d[1] = n
    BY <1>8, <2>2 DEF Recent
  <2>3. CASE d[1] # n
    <3>1. FewerOf(d[1])
      BY <1>5, <2>3, Nodes DEF FewerOf
    <3>2. Steady(d)
      BY <2>3, AlikeSteady DEF Only
    <3>3. QED BY <3>1, <3>2, RecentKept DEF FreshInv
  <2>4. QED BY <2>1, <2>2, <2>3
<1>10. ASSUME NEW a \in Conns, NEW b \in Conns, Met(a, b)' PROVE Fits(a, b)'
  <2>1. a[1] # b[1] /\ conn'[a].cs = conn'[b].cs /\ (a[1] = n \/ b[1] = n)
    BY <1>10, Nodes DEF Met
  <2>2. CASE a[1] = n
    <3>1. ~Granted(conn'[a])
      BY <1>8, <2>2 DEF Granted, Past
    <3>2. QED BY <3>1 DEF Fits, Granted
  <2>3. CASE b[1] = n /\ b # c
    BY <1>8, <2>3 DEF Fits
  <2>4. CASE b = c
    <3>1. ~Granted(conn'[a])
      BY <1>4, <2>1, <2>4 DEF Granted, Past
    <3>2. QED BY <3>1 DEF Fits, Granted
  <2>5. QED BY <2>1, <2>2, <2>3, <2>4
<1>11. FreshInv'
  BY <1>9, <1>10 DEF FreshInv
<1>12. Untouched
  BY AlikeRemains DEF Only, Untouched, Connected
<1>13. QED BY <1>11, <1>12 DEF Good

LEMMA LearnedGood == ASSUME IInv, IInv', FreshInv, NEW c \in Conns, learned_addr(c) PROVE Good
<1> PICK r : r = conn[c]
  OBVIOUS
<1>1. r.at = "learned" /\ r \in Connections /\ Place(c) /\ Types
  BY DEF learned_addr, IInv, Types, PlaceInv
<1>2. CASE r.state # "WAIT_IDENTIFY"
  <2> DEFINE q == [r EXCEPT !.at = ""]
  <2>1. conn' = [conn EXCEPT ![c] = q] /\ chan' = chan
    BY <1>2 DEF learned_addr
  <2>2. q.state = r.state /\ r.state \in {"NONE", "CLOSED"}
    BY <1>1, <1>2 DEF Place, Connections
  <2> HIDE DEF q
  <2>3. q.state \notin Watched
    BY <2>2 DEF Watched, Active
  <2>4. QED BY <2>1, <2>2, <2>3, SameNews, FadesGood
<1>3. CASE r.state = "WAIT_IDENTIFY"
  <2> DEFINE q == [r EXCEPT !.at = "", !.state = "WAIT_CONNECT_REPLY"]
             m == ConnectMsg(r.connect_seq, r.gseq)
  <2> PICK s : s = r.cs
    OBVIOUS
  <2>1. conn' = [conn EXCEPT ![c] = q] /\ chan' = ToPeer(chan, c, m)
    BY <1>3, <1>1 DEF learned_addr
  <2>2. q \in Connections
    <3>1. "WAIT_CONNECT_REPLY" \in States /\ "" \in Places
      BY DEF States, Registered, Connecting, Places
    <3>2. QED BY <1>1, <3>1 DEF Connections
  <2>3. q.state = "WAIT_CONNECT_REPLY" /\ q.cs = s /\ q.gseq = r.gseq
    BY <1>1 DEF Connections
  <2>4. s \in Sockets /\ Shared(s) /\ On(c, s, {"WAIT_IDENTIFY"})
    BY <1>3, HasSocket DEF On
  <2>5. m \in Message /\ m.tag = "CONNECT" /\ m.gseq = r.gseq
    <3>1. r.connect_seq \in Nat /\ r.gseq \in Nat
      BY <1>1 DEF Connections
    <3>2. QED BY <3>1, MessageIs DEF ConnectMsg
  <2>6. chan[s][Peer(c[1])] = <<>>
    BY <2>4 DEF Shared, Channel, Identifies
  <2> HIDE DEF q, m
  <2>7. Only(c) /\ conn'[c] = q
    BY <1>1, <2>1, <2>2, Assigned
  <2>8. /\ \A t \in Sockets \ {s} : chan'[t] = chan[t]
        /\ Left(c, s) /\ Sent(c, s, m)
    BY <1>1, <2>1, <2>4, <2>5, Sends
  <2>9. QED BY <1>3, <2>3, <2>4, <2>5, <2>6, <2>7, <2>8, AskGood
<1>4. QED BY <1>2, <1>3

\* An answer is read after which c asks again.
LEMMA AgainGood ==
  ASSUME IInv, IInv', FreshInv, NEW c \in Conns, NEW tag, Reply(c, tag), Only(c),
         conn'[c].state = conn[c].state, conn'[c].cs = conn[c].cs,
         conn'[c].gseq = conn[c].gseq \/ conn'[c].gseq > global_seq[c[1]],
         NEW k \in Nat, NEW g \in Nat, conn'[c].gseq = g,
         chan' = ToPeer(Taken(c), c, ConnectMsg(k, g))
  PROVE  Good
<1> DEFINE m == ConnectMsg(k, g)
<1> PICK s : s = conn[c].cs
  OBVIOUS
<1>1. /\ s \in Sockets /\ conn[c].state = "WAIT_CONNECT_REPLY"
      /\ chan[s][c[1]] = <<Next_msg(c)>> /\ chan[s][Peer(c[1])] = <<>>
  BY ReplyIs
<1>2. chan[s][c[1]] # <<>>
  <2>1. <<Next_msg(c)>> # <<>>
    OBVIOUS
  <2>2. QED BY <1>1, <2>1
<1>3. m \in Message /\ m.tag = "CONNECT" /\ m.gseq = g
  BY MessageIs DEF ConnectMsg
<1> HIDE DEF m
<1>4. /\ \A t \in Sockets \ {s} : chan'[t] = chan[t]
      /\ Took(c, s) /\ Sent(c, s, m)
  BY <1>1, <1>2, <1>3, Answers_message DEF IInv, m
<1>5. QED BY <1>1, <1>2, <1>3, <1>4, AskGood

LEMMA ResetSessionGood == ASSUME IInv, IInv', FreshInv, NEW c \in Conns, reply_reset_session(c) PROVE Good
<1>1. /\ Reply(c, "RESETSESSION") /\ conn' = was_session_reset(conn, c)
      /\ chan' = ToPeer(Taken(c), c, ConnectMsg(0, conn[c].gseq))
  BY DEF reply_reset_session
<1>2. conn \in Table /\ conn[c] \in Connections
  BY DEF IInv, Types, Table
<1>3. Only(c) /\ WasReset(conn'[c], conn[c])
  BY <1>1, <1>2, ResetIs DEF Only
<1>4. conn'[c].state = conn[c].state /\ conn'[c].cs = conn[c].cs /\ conn'[c].gseq = conn[c].gseq
  BY <1>3 DEF WasReset
<1>5. conn[c].gseq \in Nat /\ 0 \in Nat
  BY <1>2 DEF Connections
<1>6. QED BY <1>1, <1>3, <1>4, <1>5, AgainGood

LEMMA RetrySessionGood == ASSUME IInv, IInv', FreshInv, NEW c \in Conns, reply_retry_session(c) PROVE Good
<1> DEFINE k == Next_msg(c).cseq
           q == [conn[c] EXCEPT !.connect_seq = k]
<1>1. Reply(c, "RETRY_SESSION")
  BY DEF reply_retry_session
<1>2. Types /\ conn[c] \in Connections
  BY DEF IInv, Types
<1>3. k > conn[c].connect_seq /\ k \in Nat
  <2>1. /\ Answers(Next_msg(c), conn[c].connect_seq)
        /\ Next_msg(c).tag = "RETRY_SESSION" /\ Next_msg(c) \in Message
    BY <1>1, ReplyIs
  <2>2. QED BY <2>1 DEF Answers, Accepted, Message
<1>4. /\ conn' = [conn EXCEPT ![c] = q]
      /\ chan' = ToPeer(Taken(c), c, ConnectMsg(k, conn[c].gseq))
  <2>1. conn[c].connect_seq \in Nat
    BY <1>2 DEF Connections
  <2>2. ~ (k <= conn[c].connect_seq)
    BY <1>3, <2>1
  <2>3. QED BY <2>2 DEF reply_retry_session
<1> HIDE DEF k
<1>5. /\ q \in Connections /\ q.state = conn[c].state /\ q.cs = conn[c].cs
      /\ q.gseq = conn[c].gseq /\ conn[c].gseq \in Nat
  BY <1>2, <1>3 DEF Connections
<1> HIDE DEF q
<1>6. Only(c) /\ conn'[c] = q
  BY <1>2, <1>4, <1>5, Assigned
<1>7. QED BY <1>1, <1>3, <1>4, <1>5, <1>6, AgainGood

LEMMA RetryGlobalGood == ASSUME IInv, IInv', FreshInv, NEW c \in Conns, reply_retry_global(c) PROVE Good
<1> DEFINE n == c[1]
           g == Larger(global_seq[n], Next_msg(c).gseq) + 1
           q == [conn[c] EXCEPT !.gseq = g]
<1>1. /\ Reply(c, "RETRY_GLOBAL") /\ conn' = [conn EXCEPT ![c] = q]
      /\ chan' = ToPeer(Taken(c), c, ConnectMsg(conn[c].connect_seq, g))
  BY DEF reply_retry_global
<1>2. Types /\ conn[c] \in Connections /\ n \in Node /\ global_seq \in [Node -> Nat]
  BY Nodes DEF IInv, Types
<1>3. g \in Nat /\ g > global_seq[n]
  <2>1. Next_msg(c) \in Message
    BY <1>1, ReplyIs
  <2>2. Next_msg(c).gseq \in Nat /\ global_seq[n] \in Nat
    BY <1>2, <2>1 DEF Message
  <2>3. QED BY <2>2 DEF Larger
<1> HIDE DEF g
<1>4. /\ q \in Connections /\ q.state = conn[c].state /\ q.cs = conn[c].cs
      /\ q.gseq = g /\ conn[c].connect_seq \in Nat
  BY <1>2, <1>3 DEF Connections
<1> HIDE DEF q
<1>5. Only(c) /\ conn'[c] = q
  BY <1>1, <1>2, <1>4, Assigned
<1>6. QED BY <1>1, <1>3, <1>4, <1>5, AgainGood


-------------------------------------------------------------------------------
(* The accepting side. *)

\* c sends an answer and waits for the next connect message.
LEMMA RefuseGood ==
  ASSUME IInv, FreshInv, NEW c \in Conns, NEW s \in Sockets, conn[c].cs = s, Only(c),
         conn[c].state # "OPEN", conn'[c].state = "WAIT_CONNECT_MSG",
         NEW m \in Message, m.tag # "CONNECT", chan' = ToPeer(chan, c, m)
  PROVE  Good
<1>1. /\ \A t \in Sockets \ {s} : chan'[t] = chan[t]
      /\ Left(c, s) /\ Sent(c, s, m)
  BY Sends DEF IInv
<1>2. News(c, s, m)
  BY <1>1, NewsIs DEF IInv
<1>3. \A d \in Conns : Steady(d)
  BY AlikeSteady, Unwatched DEF Only, Watched
<1>4. Fewer
  BY <1>2, <1>3, FewerIs
<1>5. Recent(c)'
  BY DEF Recent
<1>6. \A d \in Conns : Fits(c, d)' /\ Fits(d, c)'
  BY DEF Fits, Granted, Past
<1>7. Holds(c, s)
  BY DEF Holds
<1>8. FreshInv'
  BY <1>2, <1>3, <1>4, <1>5, <1>6, <1>7, SteadyStep
<1>9. Untouched
  BY AlikeRemains DEF Only, Untouched, Connected
<1>10. QED BY <1>8, <1>9 DEF Good

LEMMA ReplyAcceptGood ==
  ASSUME IInv, FreshInv, NEW c \in Conns, Deciding(c), NEW m \in Message, m.tag # "CONNECT",
         reply_accept(c, m)
  PROVE  Good
<1> PICK s : s = conn[c].cs
  OBVIOUS
<1> DEFINE q == [conn[c] EXCEPT !.state = "WAIT_CONNECT_MSG", !.at = "", !.existing = None,
                                !.msg = Free.msg]
<1>1. conn' = [conn EXCEPT ![c] = q] /\ chan' = ToPeer(chan, c, m)
  BY DEF reply_accept
<1>2. Types /\ conn[c] \in Connections
  BY DEF IInv, Types
<1>3. s \in Sockets /\ conn[c].state # "OPEN"
  BY AuthIs DEF Deciding
<1>4. q \in Connections
  <2>1. "WAIT_CONNECT_MSG" \in States /\ "" \in Places /\ None \in ConnPtr /\ Free.msg \in Message
    BY DEF States, HalfAccepted, Places, ConnPtr, Free, Message
  <2>2. QED BY <1>2, <2>1 DEF Connections
<1>5. q.state = "WAIT_CONNECT_MSG"
  BY <1>2 DEF Connections
<1> HIDE DEF q
<1>6. Only(c) /\ conn'[c] = q
  BY <1>1, <1>2, <1>4, Assigned
<1>7. QED BY <1>1, <1>3, <1>5, <1>6, RefuseGood

LEMMA RefusalGood ==
  ASSUME IInv, FreshInv, NEW c \in Conns,
         retry_global(c) \/ retry_session(c) \/ wait(c) \/ reset_session(c)
  PROVE  Good
<1>1. ASSUME NEW tag \in Retries, NEW a \in Nat, NEW b \in Nat, Deciding(c),
             reply_accept(c, Msg(tag, a, b))
      PROVE  Good
  <2>1. tag # "CONNECT" /\ tag \in {"RETRY_GLOBAL", "RETRY_SESSION", "WAIT", "RESETSESSION"}
    BY DEF Retries
  <2> DEFINE m == Msg(tag, a, b)
  <2>2. m \in Message /\ m.tag = tag
    BY <2>1, MessageIs
  <2> HIDE DEF m
  <2>3. reply_accept(c, m)
    BY <1>1 DEF m
  <2>4. QED BY <1>1, <2>1, <2>2, <2>3, ReplyAcceptGood
<1>2. ASSUME Deciding(c), Live(c)
      PROVE  Existing(c).peer_gseq \in Nat /\ Existing(c).connect_seq + 1 \in Nat
  <2>1. Existing(c) \in Connections
    BY <1>2, LiveIs
  <2>2. Existing(c).peer_gseq \in Nat /\ Existing(c).connect_seq \in Nat
    BY <2>1 DEF Connections
  <2>3. QED BY <2>2
<1>3. CASE retry_global(c)
  <2>1. Deciding(c) /\ Live(c) /\ reply_accept(c, Msg("RETRY_GLOBAL", 0, Existing(c).peer_gseq))
    BY <1>3 DEF retry_global
  <2>2. QED BY <1>1, <1>2, <2>1 DEF Retries
<1>4. CASE retry_session(c)
  <2>1. Deciding(c) /\ Live(c) /\ reply_accept(c, Msg("RETRY_SESSION", Existing(c).connect_seq + 1, 0))
    BY <1>4 DEF retry_session, RetrySession, Same, Ordinary, Lossless, Current
  <2>2. QED BY <1>1, <1>2, <2>1 DEF Retries
<1>5. CASE wait(c)
  BY <1>1, <1>5 DEF wait, Retries
<1>6. CASE reset_session(c)
  BY <1>1, <1>6 DEF reset_session, Retries
<1>7. QED BY <1>3, <1>4, <1>5, <1>6

LEMMA TransferGood == ASSUME IInv, FreshInv, NEW c \in Conns, transfer(c) PROVE Good
<1> PICK r : r = conn[c]
  OBVIOUS
<1>1. r.swap = "transfer" /\ r.state \in {"NONE", "CLOSED"} /\ r \in Connections /\ Socket(c) /\ Types
  BY DEF transfer, IInv, SocketInv, Socket, Types
<1>2. CASE r.state = "CLOSED"
  <2> DEFINE q == [r EXCEPT !.swap = ""]
  <2>1. conn' = [conn EXCEPT ![c] = q] /\ chan' = chan
    BY <1>1, <1>2 DEF transfer
  <2>2. q.state = "CLOSED"
    BY <1>1, <1>2 DEF Connections
  <2> HIDE DEF q
  <2>3. q.state \notin Watched
    BY <2>2 DEF Watched, Active
  <2>4. QED BY <1>2, <2>1, <2>3, SameNews, FadesGood
<1>3. CASE r.state = "NONE"
  <2> DEFINE q == [r EXCEPT !.state = "WAIT_CONNECT_MSG", !.swap = ""]
             m == Msg("RETRY_GLOBAL", 0, r.peer_gseq)
  <2> PICK s : s = r.cs
    OBVIOUS
  <2>1. conn' = [conn EXCEPT ![c] = q] /\ chan' = ToPeer(chan, c, m)
    BY <1>1, <1>3 DEF transfer
  <2>2. s \in Sockets
    BY <1>1, <1>3 DEF Socket, Connections, Ends
  <2>3. q \in Connections /\ q.state = "WAIT_CONNECT_MSG"
    <3>1. "WAIT_CONNECT_MSG" \in States /\ "" \in Swaps
      BY DEF States, HalfAccepted, Swaps
    <3>2. QED BY <1>1, <3>1 DEF Connections
  <2>4. m \in Message /\ m.tag # "CONNECT"
    <3>1. r.peer_gseq \in Nat
      BY <1>1 DEF Connections
    <3>2. QED BY <3>1, MessageIs
  <2> HIDE DEF q, m
  <2>5. Only(c) /\ conn'[c] = q
    BY <1>1, <2>1, <2>3, Assigned
  <2>6. QED BY <1>3, <2>1, <2>2, <2>3, <2>4, <2>5, RefuseGood
<1>4. QED BY <1>1, <1>2, <1>3


\* The attempt that c reads was on its way to it.
LEMMA ReadConnectMsgGood ==
  ASSUME IInv, FreshInv, NEW c \in Conns, read_connect_msg(c) PROVE Good
<1> PICK r : r = conn[c]
  OBVIOUS
<1> PICK s : s = r.cs
  OBVIOUS
<1> DEFINE m == Next_msg(c)
           l == c[1] \in policy.lossy
           e == lookup(c[1])
           p == [r EXCEPT !.state = "CONNECT_MSG_AUTH", !.msg = m, !.lossy = l]
           q == [p EXCEPT !.at = "lookup", !.existing = e]
<1>1. /\ r.state = "WAIT_CONNECT_MSG" /\ r.at = "" /\ chan[s][c[1]] # <<>>
      /\ conn' = [conn EXCEPT ![c] = Looking_up(p, c[1])] /\ chan' = Taken(c)
  BY DEF read_connect_msg, Reads
<1>2. Types /\ r \in Connections
  BY DEF IInv, Types
<1>3. s \in Sockets /\ Shared(s) /\ Holds(c, s) /\ Accepts(c, s)
  BY <1>1, HasSocket DEF On, HalfAccepted, Accepts
<1>4. m = chan[s][c[1]][1] /\ m \in Message /\ 1 \in DOMAIN chan[s][c[1]]
  <2>1. chan[s][c[1]] \in Seq(Message)
    BY <1>2, <1>3, Nodes DEF Types
  <2>2. m = Head(chan[s][c[1]])
    BY DEF Next_msg
  <2> HIDE DEF m
  <2>3. QED BY <1>1, <2>1, <2>2, HeadIs
<1>5. m.tag = "CONNECT"
  <2> HIDE DEF m
  <2>1. Channel(c, s)
    BY <1>3 DEF Shared
  <2>2. QED BY <1>3, <1>4, <2>1 DEF Channel
<1>6. conn' = [conn EXCEPT ![c] = q] /\ e \in ConnPtr
  BY <1>1, LookupIs, Nodes DEF Looking_up, ConnPtr
<1> HIDE DEF m, l, e
<1>7. p \in Connections /\ p.state = "CONNECT_MSG_AUTH" /\ p.cs = s /\ p.msg = m
  <2>1. "CONNECT_MSG_AUTH" \in States /\ l \in BOOLEAN
    BY DEF States, HalfAccepted, l
  <2>2. QED BY <1>2, <1>4, <2>1 DEF Connections
<1> HIDE DEF p
<1>8. /\ q \in Connections /\ q.state = "CONNECT_MSG_AUTH" /\ q.cs = s /\ q.msg = m
      /\ q.at = "lookup"
  <2>1. "lookup" \in Places
    BY DEF Places
  <2>2. QED BY <1>6, <1>7, <2>1 DEF Connections
<1> HIDE DEF q
<1>9. Only(c) /\ conn'[c] = q
  BY <1>2, <1>6, <1>8, Assigned
<1>10. \A d \in Conns \ {c} : Steady(d)
  BY <1>9, AlikeSteady DEF Only
<1>11. News(c, s, Free.msg) /\ NoNews
  <2>1. (\A t \in Sockets \ {s} : chan'[t] = chan[t]) /\ Took(c, s) /\ Silent(c, s)
    BY <1>1, <1>2, <1>3, Reads_message
  <2>2. QED BY <1>1, <1>2, <1>3, <2>1, NewsIs
<1>12. ASSUME NEW n \in Node, NEW t \in Sockets, NEW h \in Nat, Attempt(n, t, h)'
       PROVE  Attempt(n, t, h)
  <2>1. CASE OnWay(n, t, h)'
    <3>1. PICK i \in DOMAIN chan'[t][Peer(n)] :
            chan'[t][Peer(n)][i].tag = "CONNECT" /\ chan'[t][Peer(n)][i].gseq = h
      BY <2>1 DEF OnWay
    <3>2. Old(t, Peer(n), chan'[t][Peer(n)][i])
      BY <1>11, <3>1, Nodes DEF NoNews
    <3>3. QED BY <3>1, <3>2 DEF Old, Attempt, OnWay
  <2>2. CASE InHand(n, t, h)'
    <3>1. PICK d \in Conns : /\ d[1] = Peer(n) /\ conn'[d].cs = t /\ conn'[d].at = "lookup"
                             /\ conn'[d].state = "CONNECT_MSG_AUTH" /\ conn'[d].msg.gseq = h
      BY <2>2 DEF InHand, Deciding
    <3>2. CASE d = c
      <4>1. Peer(n) = c[1] /\ t = s /\ h = m.gseq
        BY <1>8, <1>9, <3>1, <3>2
      <4>2. OnWay(n, t, h)
        BY <1>4, <1>5, <4>1 DEF OnWay
      <4>3. QED BY <4>2 DEF Attempt
    <3>3. CASE d # c
      <4>1. conn[d].cs = t /\ Deciding(d) /\ conn[d].msg.gseq = h
        BY <1>10, <3>1, <3>3 DEF Steady, Watched, Active, Deciding
      <4>2. QED BY <3>1, <4>1 DEF Attempt, InHand
    <3>4. QED BY <3>2, <3>3
  <2>3. QED BY <1>12, <2>1, <2>2 DEF Attempt
<1>13. Fewer
  BY <1>12 DEF Fewer, FewerOf
<1>14. Recent(c)'
  BY <1>8, <1>9 DEF Recent
<1>15. \A d \in Conns : Fits(c, d)' /\ Fits(d, c)'
  BY <1>8, <1>9 DEF Fits, Granted, Past
<1>16. FreshInv'
  BY <1>3, <1>10, <1>11, <1>13, <1>14, <1>15, SteadyStep
<1>17. Untouched
  BY <1>1, <1>9, AlikeRemains DEF Only, Untouched, Connected
<1>18. QED BY <1>16, <1>17 DEF Good


\* The attempt that begins is later than all of its messenger's.
LEMMA ConnectGood == ASSUME IInv, FreshInv, NEW c \in Conns, connect(c) PROVE Good
<1> PICK r : r = conn[c]
  OBVIOUS
<1> DEFINE g == global_seq[c[1]] + 1
<1>1. r.state = "CONNECTING" /\ c[1] \notin policy.server /\ Types /\ r \in Connections
  BY DEF connect, IInv, Types, PlaceInv, Place, Connecting
<1> PICK s : s = Lowest(FreeSockets)
  OBVIOUS
<1> PICK n \in Node : n = Peer(c[1])
  BY Nodes
<1> PICK a : a = NewConn(n)
  OBVIOUS
<1> DEFINE q == [r EXCEPT !.state = "WAIT_IDENTIFY", !.at = "learned", !.gseq = g, !.cs = s]
           p == Accepting(s)
<1>2. /\ FreeSockets # {} /\ FreeConns(n) # {}
      /\ conn' = [conn EXCEPT ![c] = q, ![a] = p]
      /\ chan' = [chan EXCEPT ![s] = [m \in Node |-> <<>>]]
  BY <1>1 DEF connect
<1>3. s \in Sockets /\ \A d \in Conns : ~Holds(d, s)
  BY <1>2, NewSocketIs
<1>4. a \in Conns /\ conn[a].state = "FREE" /\ a # c
  BY <1>2, NewConnIs, Nodes
<1>5. c[1] \in Node /\ global_seq[c[1]] \in Nat
  BY <1>1, Nodes DEF Types
<1>6. q.state = "WAIT_IDENTIFY" /\ q.cs = s /\ q.gseq = g
  BY <1>1 DEF Connections
<1>7. p.state = "WAIT_CONNECT_MSG"
  BY DEF Accepting, accept, Free
<1> HIDE DEF q, p
<1>8. /\ conn'[c] = q /\ conn'[a] = p /\ \A d \in Conns \ {c, a} : conn'[d] = conn[d]
  BY <1>1, <1>2, <1>4 DEF Types
<1>9. \A d \in Conns \ {c} : Steady(d) /\ Remains(d)
  BY <1>4, <1>7, <1>8 DEF Steady, Remains, Watched
<1>10. /\ \A m \in Node : DOMAIN chan'[s][m] = {}
       /\ \A t \in Sockets \ {s} : chan'[t] = chan[t]
  <2>1. DOMAIN <<>> = {}
    OBVIOUS
  <2>2. QED BY <1>1, <1>2, <1>3, <2>1 DEF Types
<1>11. NoNews /\ 0 \notin Sockets
  BY <1>10, SocketsAre DEF NoNews, Old
<1>12. News(c, 0, Free.msg) /\ Free.msg.tag # "CONNECT"
  BY <1>11 DEF News, NoNews, Free
<1>13. ~Deciding(c)'
  BY <1>6, <1>8 DEF Deciding
<1>14. Fewer
  BY <1>9, <1>12, <1>13, FewerIs
<1>15. ASSUME NEW t \in Sockets, NEW h \in Nat, Attempt(c[1], t, h)' PROVE t # s /\ h < g
  <2>1. Attempt(c[1], t, h)
    BY <1>5, <1>14, <1>15 DEF Fewer, FewerOf
  <2>2. h <= global_seq[c[1]]
    BY <1>5, <2>1, AttemptsKnown
  <2>3. ~OnWay(c[1], s, h)'
    BY <1>10, Nodes DEF OnWay
  <2>4. ~InHand(c[1], s, h)'
    <3>1. ASSUME NEW e \in Conns, conn'[e].cs = s, conn'[e].state = "CONNECT_MSG_AUTH" PROVE FALSE
      <4>1. e \notin {c, a}
        BY <1>6, <1>7, <1>8, <3>1
      <4>2. Holds(e, s)
        BY <1>8, <3>1, <4>1 DEF Holds
      <4>3. QED BY <1>3, <4>2
    <3>2. QED BY <3>1 DEF InHand, Deciding
  <2>5. QED BY <1>5, <1>15, <2>2, <2>3, <2>4 DEF Attempt
<1>16. Recent(c)'
  BY <1>6, <1>8, <1>15 DEF Recent
<1>17. \A d \in Conns : Fits(c, d)' /\ Fits(d, c)'
  BY <1>6, <1>8 DEF Fits, Granted, Past
<1>18. FreshInv'
  BY <1>9, <1>11, <1>12, <1>14, <1>16, <1>17, SteadyStep
<1>19. Untouched
  BY <1>1, <1>9 DEF Untouched, Connected
<1>20. QED BY <1>18, <1>19 DEF Good


\* What c decides about is an attempt of its peer, the one d waits for if d is at
\* the other end, and outdated if the existing connection is open.
LEMMA IsAttempt ==
  ASSUME IInv, NEW c \in Conns, Deciding(c), NEW d \in Conns, d[1] # c[1]
  PROVE  /\ conn[c].cs \in Sockets /\ conn[c].msg.gseq \in Nat
         /\ Attempt(d[1], conn[c].cs, conn[c].msg.gseq)
<1>1. conn[c].cs \in Sockets
  BY AuthIs DEF Deciding
<1>2. conn[c].msg.gseq \in Nat
  <2>1. conn[c].msg \in Message
    BY DEF IInv, Types, Connections
  <2>2. QED BY <2>1 DEF Message
<1>3. c[1] = Peer(d[1])
  BY Nodes
<1>4. QED BY <1>1, <1>2, <1>3 DEF Attempt, InHand

LEMMA OpenExisting ==
  ASSUME IInv, FreshInv, NEW c \in Conns, Deciding(c), Live(c), NEW d \in Conns,
         Connected(conn[c].existing, d)
  PROVE  Outdated(c)
<1> PICK e : e = conn[c].existing
  OBVIOUS
<1>1. e \in Conns /\ e[1] = c[1] /\ Existing(c) = conn[e]
  BY LiveIs
<1>2. d[1] # e[1] /\ Met(e, d) /\ conn[e].state \in Past /\ conn[d].state = "OPEN"
  BY DEF Connected, Met, Past
<1>3. Before(d[1], conn[e].peer_gseq)
  BY <1>1, <1>2 DEF FreshInv, Fits
<1>4. conn[c].msg.gseq < conn[e].peer_gseq
  BY <1>1, <1>2, <1>3, IsAttempt DEF Before
<1>5. QED BY <1>1, <1>4 DEF Outdated

LEMMA ReplaceByGood ==
  ASSUME IInv, FreshInv, NEW c \in Conns, Deciding(c), Live(c), ~Outdated(c), NEW f \in Table,
         \A d \in Conns \ {conn[c].existing} : Alike(f[d], conn[d]),
         NEW reset, replace_by(f, c, reset)
  PROVE  Good
<1> PICK e : e = conn[c].existing
  OBVIOUS
<1>1. e \in Conns /\ e # c /\ e[1] = c[1] /\ conns[c[1]] = e
  BY LiveIs
<1>2. ~conn[c].replacing /\ conn[c].state = "CONNECT_MSG_AUTH"
  BY <1>1 DEF IInv, RegistryInv, Registers, Claims, Deciding
<1>3. f[c].existing = e /\ f[c].cs = conn[c].cs /\ ~f[c].replacing
  BY <1>1, <1>2 DEF Alike
<1> DEFINE q == [f[e] EXCEPT !.state = "NONE", !.replacing = TRUE, !.swap = "deactivate",
                   !.new_cs = f[c].cs, !.reset_from_peer = f[e].reset_from_peer \/ reset]
<1>4. conn' = [f EXCEPT ![e] = q, ![c] = Free] /\ chan' = chan
  BY <1>3 DEF replace_by
<1>5. q.state = "NONE" /\ Free.state = "FREE"
  BY <1>1 DEF Table, Connections, Free
<1> HIDE DEF q, Free
<1>6. conn'[e] = q /\ conn'[c] = Free /\ \A d \in Conns \ {c, e} : Alike(conn'[d], conn[d])
  BY <1>1, <1>4 DEF Table
<1>7. \A d \in Conns : Steady(d)
  <2>1. q.state \notin Watched /\ Free.state \notin Watched
    BY <1>5 DEF Watched, Active
  <2>2. QED BY <1>6, <2>1, AlikeSteady, Unwatched
<1>8. \A d \in Conns : ~Connected(e, d)
  BY OpenExisting
<1>9. Untouched
  <2>1. \A d \in Conns : ~Connected(c, d)
    BY <1>2 DEF Connected
  <2>2. \A d \in Conns \ {c, e} : Remains(d)
    BY <1>6, AlikeRemains
  <2>3. QED BY <1>8, <2>1, <2>2 DEF Untouched
<1>10. QED BY <1>4, <1>7, <1>9, SameNews, CalmStep DEF Good

LEMMA ReplaceGood ==
  ASSUME IInv, FreshInv, NEW c \in Conns, replace(c) \/ hard_reset(c) PROVE Good
<1> DEFINE f == IF replace(c) THEN conn
                ELSE IF ResetCheck(c) THEN was_session_reset(conn, conn[c].existing) ELSE conn
<1>1. Deciding(c) /\ Live(c) /\ ~Outdated(c) /\ \E reset \in BOOLEAN : replace_by(f, c, reset)
  BY CurrentIs DEF replace, hard_reset
<1>2. conn \in Table /\ \A d \in Conns : Alike(conn[d], conn[d])
  BY DEF IInv, Types, Table, Alike
<1>3. conn[c].existing \in Conns
  BY <1>1, LiveIs
<1>4. f \in Table /\ \A d \in Conns \ {conn[c].existing} : Alike(f[d], conn[d])
  BY <1>2, <1>3, ResetIs
<1> HIDE DEF f
<1>5. QED BY <1>1, <1>4, ReplaceByGood

\* c accepts an attempt: its answer is later than all attempts of its messenger,
\* and it knows the number of the one that waits for the answer.
LEMMA OpenWithGood ==
  ASSUME IInv, FreshInv, NEW c \in Conns, Deciding(c), NEW f \in Table, Alike(f[c], conn[c]),
         \A d \in Conns \ {c} :
           \/ Alike(f[d], conn[d])
           \/ f[d].state = "CLOSED" /\ \A e \in Conns : ~Connected(d, e),
         open_with(f, c)
  PROVE  Good
<1> PICK s : s = conn[c].cs
  OBVIOUS
<1> PICK n \in Node : n = c[1]
  BY Nodes
<1> PICK g : g = global_seq[n] + 1
  OBVIOUS
<1> DEFINE r == f[c]
           m == conn[c].msg
           k == r.msg.cseq + 1
           tag == IF r.reset_from_peer THEN "READY" ELSE "SEQ"
           at == IF Registrable(f, c) THEN "accepted" ELSE "refused"
           i == IF r.reset_from_peer THEN None ELSE r.in_of
           u == [r EXCEPT !.connect_seq = k, !.peer_gseq = r.msg.gseq,
                          !.reset_from_peer = FALSE, !.in_of = i]
           q == [u EXCEPT !.msg = Msg(tag, k, g), !.at = at, !.existing = None]
<1>1. /\ conn[c].state = "CONNECT_MSG_AUTH" /\ conn[c].at = "lookup" /\ s \in Sockets
      /\ Holds(c, s)
  BY AuthIs DEF Deciding
<1>2. conn' = [f EXCEPT ![c] = q] /\ chan' = chan
  BY DEF open_with
<1>3. r \in Connections /\ r.msg = m /\ r.state = conn[c].state /\ r.cs = s
  BY DEF Table, Alike
<1>4. at # "lookup" /\ Msg(tag, k, g).gseq = g
  BY DEF Msg
<1> HIDE DEF k, at, i
<1>5. u.state = "CONNECT_MSG_AUTH" /\ u.cs = s /\ u.peer_gseq = m.gseq
      /\ DOMAIN u = DOMAIN r
  BY <1>1, <1>3 DEF Connections
<1>6. /\ q.state = "CONNECT_MSG_AUTH" /\ q.cs = s /\ q.peer_gseq = m.gseq
      /\ q.at # "lookup" /\ q.msg.gseq = g
  <2>1. q.state = u.state /\ q.cs = u.cs /\ q.peer_gseq = u.peer_gseq
        /\ q.at = at /\ q.msg = Msg(tag, k, g)
    <3> HIDE DEF tag
    <3> QED BY <1>3 DEF Connections
  <2> HIDE DEF q, u
  <2>2. QED BY <1>4, <1>5, <2>1
<1> HIDE DEF q, u, r
<1>7. conn'[c] = q /\ \A d \in Conns \ {c} : conn'[d] = f[d]
  BY <1>2 DEF Table
<1>8. \A d \in Conns \ {c} : Steady(d)
  <2>1. "CLOSED" \notin Watched
    BY DEF Watched, Active
  <2>2. QED BY <1>7, <2>1, AlikeSteady, Unwatched
<1>9. News(c, s, Free.msg) /\ Free.msg.tag # "CONNECT"
  BY <1>2, SameNews DEF News, NoNews, Free
<1>10. ~Deciding(c)'
  BY <1>6, <1>7 DEF Deciding
<1>11. Fewer
  BY <1>8, <1>9, <1>10, FewerIs
<1>12. Before(n, g)'
  <2>1. ASSUME NEW t \in Sockets, NEW h \in Nat, Attempt(n, t, h)' PROVE h < g
    <3>1. h <= global_seq[n]
      BY <1>11, <2>1, AttemptsKnown DEF Fewer, FewerOf
    <3>2. global_seq[n] \in Nat
      BY DEF IInv, Types
    <3>3. QED BY <3>1, <3>2
  <2>2. QED BY <2>1 DEF Before
<1>13. Recent(c)'
  BY <1>6, <1>7, <1>12 DEF Recent
<1>14. ASSUME NEW d \in Conns, Met(c, d)' PROVE Fits(c, d)' /\ Fits(d, c)'
  <2>1. ASSUME conn'[d].state = "WAIT_CONNECT_REPLY" PROVE conn'[c].peer_gseq = conn'[d].gseq
    <3>1. d # c /\ d[1] # c[1] /\ conn'[d].cs = s
      BY <1>6, <1>7, <1>14 DEF Met
    <3>2. conn[d].state = "WAIT_CONNECT_REPLY" /\ conn[d].cs = s /\ conn'[d].gseq = conn[d].gseq
      BY <1>8, <2>1, <3>1 DEF Steady, Watched, Active
    <3>3. Attempt(d[1], s, m.gseq) /\ m.gseq \in Nat
      BY <3>1, IsAttempt
    <3>4. m.gseq = conn[d].gseq
      BY <1>1, <3>2, <3>3 DEF FreshInv, Recent
    <3>5. QED BY <1>6, <1>7, <3>2, <3>4
  <2>2. conn'[c].state = "CONNECT_MSG_AUTH"
    BY <1>6, <1>7
  <2>3. QED BY <2>1, <2>2 DEF Fits, Past
<1>15. FreshInv'
  BY <1>1, <1>8, <1>9, <1>11, <1>13, <1>14, SteadyStep
<1>16. Untouched
  <2>1. \A d \in Conns : ~Connected(c, d)
    BY <1>1 DEF Connected
  <2>2. \A d \in Conns \ {c} : Remains(d) \/ \A e \in Conns : ~Connected(d, e)
    BY <1>7, AlikeRemains
  <2>3. QED BY <2>1, <2>2 DEF Untouched
<1>17. QED BY <1>15, <1>16 DEF Good

LEMMA OpenGood ==
  ASSUME IInv, FreshInv, NEW c \in Conns, open(c) \/ open_lossy(c) PROVE Good
<1>1. conn \in Table /\ \A d \in Conns : Alike(conn[d], conn[d])
  BY DEF IInv, Types, Table, Alike
<1>2. CASE open(c)
  <2>1. Deciding(c) /\ open_with(conn, c)
    BY <1>2 DEF open
  <2>2. QED BY <1>1, <2>1, OpenWithGood
<1>3. CASE open_lossy(c)
  <2> PICK e : e = conn[c].existing
    OBVIOUS
  <2> DEFINE f == stop(conn, e)
  <2>1. Deciding(c) /\ Live(c) /\ ~Outdated(c) /\ open_with(f, c)
    BY <1>3 DEF open_lossy, Current
  <2>2. e \in Conns /\ e # c /\ conn[e].state # "CLOSED"
    BY <2>1, LiveIs
  <2>3. /\ f \in Table /\ \A d \in Conns \ {e} : Alike(f[d], conn[d])
        /\ f[e].state = "CLOSED"
    BY <1>1, <2>2, StopIs DEF Stopped
  <2>4. \A d \in Conns : ~Connected(e, d)
    BY <2>1, OpenExisting
  <2> HIDE DEF f
  <2>5. QED BY <2>1, <2>2, <2>3, <2>4, OpenWithGood
<1>4. QED BY <1>2, <1>3


-------------------------------------------------------------------------------
(* A connection opens, or waits for the rest of the sequence numbers. *)

LEMMA OpensGood ==
  ASSUME IInv, FreshInv, NEW c \in Conns, NEW s \in Sockets, conn[c].cs = s,
         conn[c].state # "OPEN", Only(c), conn'[c].state \in Past, conn'[c].cs = s,
         NEW m, m.tag # "CONNECT", News(c, s, m), NEW p, conn'[c].peer_gseq = p,
         \A d \in Conns : d[1] # c[1] /\ conn[d].cs = s /\ conn[d].state = "WAIT_CONNECT_REPLY" =>
           /\ p = conn[d].gseq
           /\ \A i \in DOMAIN chan'[s][d[1]] : Before(c[1], chan'[s][d[1]][i].gseq),
         \A d \in Conns :
           d[1] # c[1] /\ conn[d].cs = s /\ conn[d].state \in Past
           /\ (conn[d].state = "OPEN" \/ conn'[c].state = "OPEN") =>
           Before(d[1], p) /\ Before(c[1], conn[d].peer_gseq)
  PROVE  Good
<1> PICK n \in Node : n = c[1]
  BY Nodes
<1>1. \A d \in Conns \ {c} : Steady(d)
  BY AlikeSteady DEF Only
<1>2. Fewer
  <2>1. ~Deciding(c)'
    BY DEF Deciding, Past
  <2>2. QED BY <1>1, <2>1, FewerIs
<1>3. Recent(c)'
  BY DEF Recent, Past
<1>4. ASSUME NEW d \in Conns, Met(c, d)' PROVE Fits(c, d)' /\ Fits(d, c)'
  <2>1. /\ d # c /\ d[1] # n /\ d[1] \in Node /\ conn[d].cs = s /\ conn'[d].cs = s
        /\ conn'[d].state = conn[d].state /\ conn'[d].gseq = conn[d].gseq
        /\ conn'[d].peer_gseq = conn[d].peer_gseq
    BY <1>4, Nodes DEF Met, Only, Alike
  <2>2. ASSUME conn'[d].state = "WAIT_CONNECT_REPLY", NEW i \in DOMAIN chan'[conn'[d].cs][d[1]]
        PROVE  Before(n, chan[conn[d].cs][d[1]][i].gseq)'
    <3> DEFINE h == chan'[conn'[d].cs][d[1]][i].gseq
    <3>1. Before(n, h)
      BY <2>1, <2>2
    <3>2. \A t \in Sockets, k \in Nat : Attempt(n, t, k)' => k < h
      BY <1>2, <3>1, BeforeKept DEF Fewer
    <3>3. QED BY <3>2 DEF Before
  <2>3. ASSUME conn'[d].state = "OPEN" \/ (conn'[d].state \in Past /\ conn'[c].state = "OPEN")
        PROVE  Before(d[1], conn[c].peer_gseq)' /\ Before(n, conn[d].peer_gseq)'
    <3>1. Before(d[1], p) /\ Before(n, conn[d].peer_gseq)
      BY <2>1, <2>3 DEF Past
    <3>2. /\ \A t \in Sockets, k \in Nat : Attempt(d[1], t, k)' => k < p
          /\ \A t \in Sockets, k \in Nat : Attempt(n, t, k)' => k < conn[d].peer_gseq
      BY <1>2, <2>1, <3>1, BeforeKept DEF Fewer
    <3>3. QED BY <2>1, <3>2 DEF Before
  <2>4. conn'[d].state = "WAIT_CONNECT_REPLY" => conn'[c].peer_gseq = conn'[d].gseq
    BY <2>1
  <2>5. Fits(c, d)'
    BY <2>2, <2>3, <2>4 DEF Fits
  <2>6. Fits(d, c)'
    <3>1. conn'[c].state # "WAIT_CONNECT_REPLY"
      BY DEF Past
    <3>2. QED BY <2>3, <3>1 DEF Fits
  <2>7. QED BY <2>5, <2>6
<1>5. Holds(c, s)
  BY DEF Holds
<1>6. FreshInv'
  BY <1>1, <1>2, <1>3, <1>4, <1>5, SteadyStep
<1>7. Untouched
  BY AlikeRemains DEF Only, Untouched, Connected
<1>8. QED BY <1>6, <1>7 DEF Good

LEMMA ReadSeqGood == ASSUME IInv, FreshInv, NEW c \in Conns, read_seq(c) PROVE Good
<1> PICK r : r = conn[c]
  OBVIOUS
<1> PICK s : s = r.cs
  OBVIOUS
<1> DEFINE q == [r EXCEPT !.state = "OPEN", !.tick = TRUE]
<1>1. /\ r.state = "WAIT_SEQ" /\ chan[s][c[1]] # <<>>
      /\ conn' = [conn EXCEPT ![c] = q] /\ chan' = Taken(c)
  BY DEF read_seq, Reads
<1>2. Types /\ r \in Connections
  BY DEF IInv, Types
<1>3. s \in Sockets /\ Shared(s) /\ On(c, s, {"WAIT_SEQ"})
  BY <1>1, HasSocket DEF On
<1>4. q \in Connections /\ q.state = "OPEN" /\ q.cs = s /\ q.peer_gseq = r.peer_gseq
  <2>1. "OPEN" \in States
    BY DEF States, Registered
  <2>2. QED BY <1>2, <2>1 DEF Connections
<1> HIDE DEF q
<1>5. Only(c) /\ conn'[c] = q
  BY <1>1, <1>2, <1>4, Assigned
<1>6. (\A t \in Sockets \ {s} : chan'[t] = chan[t]) /\ Took(c, s) /\ Silent(c, s)
  BY <1>1, <1>2, <1>3, Reads_message
<1>7. News(c, s, Free.msg) /\ Free.msg.tag # "CONNECT"
  BY <1>1, <1>2, <1>3, <1>6, NewsIs DEF Free
<1>8. ASSUME NEW d \in Conns, d[1] # c[1], conn[d].cs = s
      PROVE  /\ conn[d].state # "WAIT_SEQ" /\ chan'[s][d[1]] = chan[s][d[1]]
             /\ Fits(c, d) /\ conn[c].state \in Past
  <2>1. ~On(d, s, {"WAIT_SEQ"})
    BY <1>3, <1>8 DEF Shared, Pair
  <2>2. Met(c, d)
    BY <1>3, <1>8, SocketsAre DEF Met
  <2>3. chan'[s][d[1]] = chan[s][d[1]]
    BY <1>6, <1>8, OtherReads
  <2>4. QED BY <1>1, <1>8, <2>1, <2>2, <2>3 DEF On, FreshInv, Past
<1>9. \A d \in Conns : d[1] # c[1] /\ conn[d].cs = s /\ conn[d].state = "WAIT_CONNECT_REPLY" =>
        /\ r.peer_gseq = conn[d].gseq
        /\ \A i \in DOMAIN chan'[s][d[1]] : Before(c[1], chan'[s][d[1]][i].gseq)
  BY <1>8 DEF Fits, Granted
<1>10. \A d \in Conns :
           d[1] # c[1] /\ conn[d].cs = s /\ conn[d].state \in Past
           /\ (conn[d].state = "OPEN" \/ conn'[c].state = "OPEN") =>
         Before(d[1], r.peer_gseq) /\ Before(c[1], conn[d].peer_gseq)
  BY <1>8 DEF Fits, Past
<1>11. conn'[c].state \in Past /\ conn[c].state # "OPEN" /\ conn'[c].cs = s /\ conn[c].cs = s
  BY <1>1, <1>4, <1>5 DEF Past
<1>12. QED BY <1>3, <1>4, <1>5, <1>7, <1>9, <1>10, <1>11, OpensGood


\* The answer that c sends is later than all attempts of its messenger.
LEMMA AcceptedGood == ASSUME IInv, FreshInv, NEW c \in Conns, accepted(c) PROVE Good
<1> PICK r : r = conn[c]
  OBVIOUS
<1> PICK s : s = r.cs
  OBVIOUS
<1> DEFINE p == Back(c)[c]
<1>a. Types /\ r \in Connections
  BY DEF IInv, Types
<1>b. r.at = "accepted" /\ r.state \in {"CONNECT_MSG_AUTH", "NONE", "CLOSED"}
  BY DEF accepted, IInv, PlaceInv, Place
<1>c. /\ Back(c) \in Table /\ \A d \in Conns \ {c} : Back(c)[d] = conn[d]
      /\ p.state = r.state /\ p.cs = r.cs /\ p.peer_gseq = r.peer_gseq /\ p.at = ""
  BY <1>a, BackIs
<1>1. CASE r.state = "CLOSED"
  <2>1. conn' = Back(c) /\ chan' = chan
    BY <1>1 DEF accepted
  <2>2. \A d \in Conns : Steady(d) /\ Remains(d)
    BY <1>1, <1>c, <2>1 DEF Steady, Remains, Watched, Active
  <2>3. QED BY <2>1, <2>2, SameNews, CalmGood
<1>2. CASE r.state = "NONE"
  BY <1>2, AbortGood DEF accepted, Abort
<1>3. CASE r.state = "CONNECT_MSG_AUTH"
  <2> PICK m : m = r.msg
    OBVIOUS
  <2> DEFINE seq == m.tag = "SEQ"
             st == IF seq THEN "WAIT_SEQ" ELSE "OPEN"
             q == [p EXCEPT !.once_ready = TRUE, !.tick = p.tick \/ ~seq, !.state = st]
  <2>1. /\ conn' = [Back(c) EXCEPT ![c].once_ready = TRUE, ![c].tick = @ \/ ~seq,
                                   ![c].state = IF seq THEN "WAIT_SEQ" ELSE "OPEN"]
        /\ chan' = ToPeer(chan, c, m)
    BY <1>3 DEF accepted
  <2>2. conn' = [Back(c) EXCEPT ![c] = q]
    BY <1>c, <2>1 DEF Table
  <2>3. p \in Connections /\ st \in Past /\ st \in States /\ (p.tick \/ ~seq) \in BOOLEAN
    BY <1>c DEF Table, States, Registered, Past
  <2> HIDE DEF p, seq, st
  <2>4. /\ q \in Connections /\ q.state = st /\ q.cs = p.cs /\ q.peer_gseq = p.peer_gseq
    BY <2>3 DEF Connections
  <2> HIDE DEF q
  <2>5. /\ Only(c) /\ conn'[c].state \in Past /\ conn'[c].cs = s
        /\ conn'[c].peer_gseq = r.peer_gseq
    <3>1. conn' \in Table /\ conn'[c] = q /\ \A d \in Conns \ {c} : conn'[d] = conn[d]
      BY <1>c, <2>2, <2>4 DEF Table
    <3>2. QED BY <1>c, <2>3, <2>4, <3>1 DEF Only, Alike
  <2>6. s \in Sockets /\ Shared(s) /\ On(c, s, {"CONNECT_MSG_AUTH"}) /\ Decides(c)
    BY <1>3, AuthIs
  <2>7. m \in Message /\ m.tag # "CONNECT"
    BY <1>a, <1>b, <2>6 DEF Connections, Decides, Accepted
  <2>8. (\A t \in Sockets \ {s} : chan'[t] = chan[t]) /\ Left(c, s) /\ Sent(c, s, m)
    BY <1>a, <2>1, <2>6, <2>7, Sends
  <2>9. News(c, s, m)
    BY <1>a, <2>6, <2>8, NewsIs
  <2>10. Before(c[1], m.gseq)
    BY <1>3, <1>b DEF FreshInv, Recent
  <2>11. ASSUME NEW d \in Conns, d[1] # c[1], conn[d].cs = s, conn[d].state = "WAIT_CONNECT_REPLY"
         PROVE  /\ r.peer_gseq = conn[d].gseq
                /\ \A i \in DOMAIN chan'[s][d[1]] : Before(c[1], chan'[s][d[1]][i].gseq)
    <3>1. Holds(d, s) /\ On(d, s, {"WAIT_CONNECT_REPLY"}) /\ Met(c, d)
      BY <2>6, <2>11, SocketsAre DEF Holds, On, Met
    <3>2. Identifies(d, s)
      BY <2>6, <2>11, <3>1, OtherEnd
    <3>3. \A i \in DOMAIN chan'[s][d[1]] : chan'[s][d[1]][i] = m
      BY <2>6, <2>8, <2>11, <3>1, <3>2, OneSent DEF Identifies
    <3>4. r.peer_gseq = conn[d].gseq
      BY <1>3, <1>b, <2>11, <3>1 DEF FreshInv, Fits, Granted
    <3>5. QED BY <2>10, <3>3, <3>4
  <2>12. ASSUME NEW d \in Conns, d[1] # c[1], conn[d].cs = s PROVE conn[d].state \notin Past
    <3>1. ~On(d, s, {"WAIT_SEQ", "OPEN"})
      BY <2>6, <2>12, OtherEnd
    <3>2. QED BY <2>12, <3>1 DEF On, Past
  <2>13. conn[c].state # "OPEN" /\ conn[c].cs = s
    BY <1>3
  <2> PICK g : g = r.peer_gseq
    OBVIOUS
  <2>14. \A d \in Conns : d[1] # c[1] /\ conn[d].cs = s /\ conn[d].state = "WAIT_CONNECT_REPLY" =>
           /\ g = conn[d].gseq
           /\ \A i \in DOMAIN chan'[s][d[1]] : Before(c[1], chan'[s][d[1]][i].gseq)
    BY <2>11
  <2>15. \A d \in Conns :
           d[1] # c[1] /\ conn[d].cs = s /\ conn[d].state \in Past
           /\ (conn[d].state = "OPEN" \/ conn'[c].state = "OPEN") =>
             Before(d[1], g) /\ Before(c[1], conn[d].peer_gseq)
    BY <2>12
  <2>16. conn'[c].peer_gseq = g
    BY <2>5
  <2>17. QED BY <2>5, <2>6, <2>7, <2>9, <2>13, <2>14, <2>15, <2>16, OpensGood
<1>4. QED BY <1>b, <1>1, <1>2, <1>3

\* The attempt that is answered was the last of its messenger.
LEMMA ReadyGood == ASSUME IInv, FreshInv, NEW c \in Conns, reply_ready(c) PROVE Good
<1> PICK r : r = conn[c]
  OBVIOUS
<1> PICK s : s = r.cs
  OBVIOUS
<1> PICK m : m = Next_msg(c)
  OBVIOUS
<1> DEFINE k == r.connect_seq + 1
           p == [r EXCEPT !.state = "OPEN", !.connect_seq = k, !.peer_gseq = m.gseq]
           q == [p EXCEPT !.lossy = LossyByReply(c), !.once_ready = TRUE, !.tick = TRUE]
<1>a. Types /\ r \in Connections
  BY DEF IInv, Types
<1>1. Reply(c, "SEQ") \/ Reply(c, "READY")
  BY DEF reply_ready
<1>2. /\ s \in Sockets /\ r.state = "WAIT_CONNECT_REPLY"
      /\ chan[s][c[1]] = <<m>> /\ chan[s][Peer(c[1])] = <<>>
      /\ m \in Message /\ m.tag \in Accepted /\ Answers(m, r.connect_seq)
      /\ \A d \in Conns : d[1] # c[1] => Answered(c, d, s)
  BY <1>1, ReplyIs DEF Accepted
<1>3. m.cseq = k /\ m.gseq \in Nat /\ k \in Nat
  <2>1. r.connect_seq \in Nat
    BY <1>a DEF Connections
  <2>2. QED BY <1>2, <2>1 DEF Answers, Retries, Accepted, Message
<1>4. /\ conn' = [conn EXCEPT ![c] = q]
      /\ chan' = IF m.tag = "SEQ" THEN ToPeer(Taken(c), c, Msg("IN_SEQ", 0, 0)) ELSE Taken(c)
  <2> DEFINE w == [r EXCEPT !.state = "OPEN", !.connect_seq = k, !.peer_gseq = m.gseq,
                            !.lossy = LossyByReply(c), !.once_ready = TRUE, !.tick = TRUE]
  <2>1. q = w
    OBVIOUS
  <2>2. ~ (m.cseq # conn[c].connect_seq + 1)
    BY <1>3
  <2> HIDE DEF q
  <2>3. conn' = [conn EXCEPT ![c] = w]
    <3>1. conn' = [conn EXCEPT ![c] = [@ EXCEPT !.state = "OPEN",
                     !.connect_seq = conn[c].connect_seq + 1, !.peer_gseq = m.gseq,
                     !.lossy = LossyByReply(c), !.once_ready = TRUE, !.tick = TRUE]]
      BY <2>2 DEF reply_ready
    <3>2. QED BY <3>1
  <2>4. chan' = IF m.tag = "SEQ" THEN ToPeer(Taken(c), c, Msg("IN_SEQ", 0, 0)) ELSE Taken(c)
    BY <2>2 DEF reply_ready
  <2> HIDE DEF w
  <2>5. QED BY <2>1, <2>3, <2>4
<1> HIDE DEF k
<1>5. p \in Connections /\ p.state = "OPEN" /\ p.cs = r.cs /\ p.peer_gseq = m.gseq
  <2>1. "OPEN" \in States
    BY DEF States, Registered
  <2>2. QED BY <1>a, <1>3, <2>1 DEF Connections
<1> HIDE DEF p
<1>6. q \in Connections /\ q.state = "OPEN" /\ q.cs = s /\ q.peer_gseq = m.gseq
  <2>1. LossyByReply(c) \in BOOLEAN
    BY DEF LossyByReply
  <2>2. QED BY <1>5, <2>1 DEF Connections
<1> HIDE DEF q
<1>7. Only(c) /\ conn'[c] = q
  BY <1>a, <1>4, <1>6, Assigned
<1>8. chan[s][c[1]] # <<>> /\ 1 \in DOMAIN chan[s][c[1]] /\ chan[s][c[1]][1] = m
  <2>1. <<m>> # <<>> /\ 1 \in DOMAIN <<m>> /\ <<m>>[1] = m
    OBVIOUS
  <2>2. QED BY <1>2, <2>1
<1> PICK in_seq : in_seq = Msg("IN_SEQ", 0, 0)
  OBVIOUS
<1>9. in_seq \in Message /\ in_seq.tag # "CONNECT"
  BY MessageIs
<1>10. /\ \A t \in Sockets \ {s} : chan'[t] = chan[t]
       /\ Took(c, s) /\ (Silent(c, s) \/ Sent(c, s, in_seq))
  <2>1. CASE m.tag = "SEQ"
    BY <1>a, <1>2, <1>4, <1>8, <1>9, <2>1, Answers_message
  <2>2. CASE m.tag # "SEQ"
    BY <1>a, <1>2, <1>4, <1>8, <2>2, Reads_message
  <2>3. QED BY <2>1, <2>2
<1>11. News(c, s, in_seq)
  BY <1>a, <1>2, <1>8, <1>10, NewsIs
<1>12. ASSUME NEW d \in Conns, d[1] # c[1], conn[d].cs = s
       PROVE  conn[d].state # "WAIT_CONNECT_REPLY"
  <2>1. ~On(d, s, {"WAIT_IDENTIFY", "WAIT_CONNECT_REPLY"})
    BY <1>2, <1>12 DEF Answered
  <2>2. QED BY <1>12, <2>1 DEF On
<1>13. Before(c[1], r.gseq)
  <2>1. ASSUME NEW t \in Sockets, NEW h \in Nat, Attempt(c[1], t, h) PROVE t # s
    <3>1. ~OnWay(c[1], s, h)
      <4>1. DOMAIN chan[s][Peer(c[1])] = {}
        BY <1>2
      <4>2. QED BY <4>1 DEF OnWay
    <3>2. ~InHand(c[1], s, h)
      <4>1. ASSUME NEW e \in Conns, e[1] = Peer(c[1]), conn[e].cs = s, Deciding(e) PROVE FALSE
        <5>1. e[1] # c[1] /\ On(e, s, {"CONNECT_MSG_AUTH"})
          BY <4>1, Nodes DEF On, Deciding
        <5>2. Identifies(c, s)
          BY <1>2, <5>1 DEF Answered
        <5>3. QED BY <1>8, <5>2 DEF Identifies
      <4>2. QED BY <4>1 DEF InHand
    <3>3. QED BY <2>1, <3>1, <3>2 DEF Attempt
  <2>2. ASSUME NEW t \in Sockets, NEW h \in Nat, Attempt(c[1], t, h) PROVE h < r.gseq
    BY <1>2, <2>1, <2>2 DEF FreshInv, Recent
  <2>3. QED BY <2>2 DEF Before
<1>14. ASSUME NEW d \in Conns, d[1] # c[1], conn[d].cs = s, conn[d].state \in Past
       PROVE  Before(d[1], m.gseq) /\ Before(c[1], conn[d].peer_gseq)
  <2>1. Met(d, c)
    BY <1>2, <1>14, SocketsAre DEF Met
  <2>2. Fits(d, c) /\ Granted(conn[d])
    BY <1>14, <2>1 DEF FreshInv, Granted
  <2>3. conn[d].peer_gseq = r.gseq /\ \A i \in DOMAIN chan[s][c[1]] : Before(d[1], chan[s][c[1]][i].gseq)
    BY <1>2, <1>14, <2>2 DEF Fits
  <2>4. QED BY <1>8, <1>13, <2>3
<1>15. conn[c].state # "OPEN" /\ conn[c].cs = s /\ conn'[c].state \in Past
  BY <1>2, <1>6, <1>7 DEF Past
<1>16. QED BY <1>2, <1>6, <1>7, <1>9, <1>11, <1>12, <1>14, <1>15, OpensGood


-------------------------------------------------------------------------------
(* Every step leaves alone who talks to the other end. *)

LEMMA FreshInit == Init => FreshInv
<1> SUFFICES ASSUME Init PROVE FreshInv
  OBVIOUS
<1>1. \A c \in Conns : conn[c].state = "FREE" /\ conn[c].cs = 0
  BY DEF Init, Free
<1>2. \A c \in Conns : Recent(c)
  BY <1>1 DEF Recent
<1>3. \A c, d \in Conns : ~Met(c, d)
  BY <1>1 DEF Met
<1>4. QED BY <1>2, <1>3 DEF FreshInv

LEMMA ConnectionGood ==
  ASSUME IInv, IInv', FreshInv, NEW c \in Conns,
         \/ wake_standby(c) \/ connect(c) \/ learned_addr(c)
         \/ reply_reset_session(c) \/ reply_retry_global(c) \/ reply_retry_session(c)
         \/ reply_wait(c) \/ reply_ready(c)
         \/ read_connect_msg(c) \/ state_changed(c)
         \/ retry_global(c) \/ retry_session(c) \/ wait(c) \/ reset_session(c)
         \/ replace(c) \/ hard_reset(c) \/ open(c) \/ open_lossy(c)
         \/ accepted(c) \/ accept_refused(c) \/ accept_fails(c) \/ read_seq(c)
         \/ deactivate(c) \/ transfer(c)
         \/ socket_error(c) \/ tick(c) \/ deliver(c) \/ destroy(c)
  PROVE  Good
BY WakeGood, ConnectGood, LearnedGood, ResetSessionGood, RetryGlobalGood, RetrySessionGood,
   ReplyWaitGood, ReadyGood, ReadConnectMsgGood, StateChangedGood, RefusalGood, ReplaceGood,
   OpenGood, AcceptedGood, RefusedGood, AcceptFailsGood, ReadSeqGood, DeactivateGood,
   TransferGood, SocketErrorGood, TickGood, DeliverGood, DestroyGood

LEMMA NextGood == IInv /\ IInv' /\ FreshInv /\ [Next]_vars => Good
<1> SUFFICES ASSUME IInv, IInv', FreshInv, [Next]_vars PROVE Good
  OBVIOUS
<1>1. ASSUME NEW n \in Node, send_message(n) \/ mark_down(n) PROVE Good
  BY <1>1, SendMessageGood, MarkDownGood
<1>2. ASSUME NEW s \in Sockets, break(s) PROVE Good
  BY <1>2, BreakGood
<1>3. CASE UNCHANGED vars
  BY <1>3, AbortGood DEF vars
<1>4. CASE Next
  BY <1>1, <1>2, <1>4, ConnectionGood DEF Next
<1>5. QED BY <1>3, <1>4

\* Two connections that talk to each other are left alone, for any number of
\* connection objects, sockets and attempts: until the socket fails, one is idle for
\* too long or somebody marks one down, no connect message, however delayed, makes
\* the handler replace or stop either of them.
THEOREM TalkUndisturbed == Spec => Undisturbed
<1> DEFINE Step == \A c, d \in Conns :
             Connected(c, d) /\ conn[c].cs \notin broken /\ faults' = faults => Connected(c, d)'
<1>1. Good => Step
  <2>1. ASSUME Untouched, NEW c \in Conns, NEW d \in Conns,
               Connected(c, d), conn[c].cs \notin broken, faults' = faults
        PROVE  Connected(c, d)'
    <3>1. Connected(d, c) /\ conn[d].cs \notin broken
      BY <2>1 DEF Connected
    <3>2. Remains(c) /\ Remains(d)
      BY <2>1, <3>1 DEF Untouched
    <3>3. QED BY <2>1, <3>2 DEF Connected, Remains
  <2>2. QED BY <2>1 DEF Good
<1>2. IInv /\ IInv' /\ FreshInv /\ [Next]_vars => FreshInv' /\ [Step]_vars
  BY <1>1, NextGood DEF Good
<1> HIDE DEF Step
<1>3. Spec => [][Step]_vars
  BY <1>2, FreshInit, Invariant, PTL DEF Spec
<1>4. QED BY <1>3 DEF Undisturbed, Step

===============================================================================
