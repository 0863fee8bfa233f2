------------------------------ MODULE Registry ------------------------------
(* The messenger: which connections it knows (conns, accepting_conns,           *)
(* deleted_conns), which worker each of them is counted on, and how it starts,  *)
(* binds, rebinds and shuts down.                                               *)
(*                                                                              *)
(* The order of locks is HwMessenger::lock, a connection's lock, deleted_lock.  *)
(* A connection can therefore not take itself out of conns when it stops: it    *)
(* puts itself into deleted_conns, and whoever meets it later takes it out. For *)
(* the same reason the handler of a connect message gives its own lock up       *)
(* around lookup_conn and around accept_conn, and looks again at its state      *)
(* afterwards; those are the points where the steps of other threads come in.   *)
EXTENDS Integers, FiniteSets, Functions

CONSTANTS
  Conns, NoConn,                \* connections, none of which is created twice
  Addrs, NoAddr,                \* addresses of peers
  NumWorkers,
  Ports,                        \* ms_bind_port_min .. ms_bind_port_max
  ReapDeadConnectionThreshold,
  MaxEmpty,                     \* bound: accept loops that leak a reference
  MaxRebinds                    \* bound: rebinds

ASSUME RegistryAssumption ==
  /\ IsFiniteSet(Conns) /\ NoConn \notin Conns /\ NoAddr \notin Addrs
  /\ Ports \subseteq Nat \ {0}
  /\ {NumWorkers, ReapDeadConnectionThreshold} \subseteq Nat \ {0}
  /\ {MaxEmpty, MaxRebinds} \subseteq Nat

Workers == 1 .. NumWorkers
LocalWorker == 1                \* the first one get_worker returned
Acceptor == 1                   \* the worker of the only Processor

VARIABLES
  conn,                         \* the connections
  reg,                          \* conns, accepting_conns, deleted_conns
  reap,                         \* reap_handler is in the queue of the local worker
  references,                   \* of each worker
  msgr,                         \* the messenger's own state
  leaked,                       \* references taken for connections that never came
  ghosts                        \* closed connections accept_conn has registered

vars == <<conn, reg, reap, references, msgr, leaked, ghosts>>

\* "accepting" until the connect handshake ends, "moving" while a replacement of
\* its socket is on its way to its event loop and "moved" on the way back.
Lives == {"unborn", "accepting", "live", "moving", "moved", "closed"}
\* Where the handler of the connect message is: with the lock, between lookup_conn
\* and the lock, before accept_conn, between accept_conn and the lock.
Places == {"locked", "looked", "unlocked", "refused", "registered"}

TypeOK ==
  /\ conn \in [Conns -> [life : Lives, at : Places, addr : Addrs \cup {NoAddr},
                         worker : Workers, to : Workers, existing : Conns \cup {NoConn},
                         replacing : BOOLEAN]]
  /\ reg \in [conns : [Addrs -> Conns \cup {NoConn}], accepting : SUBSET Conns,
              deleted : SUBSET Conns]
  /\ reap \in BOOLEAN
  /\ references \in [Workers -> Nat] /\ leaked \in [Workers -> Nat]
  /\ msgr \in [started : BOOLEAN, stopped : BOOLEAN, did_bind : BOOLEAN,
               bound : Ports \cup {0}, listening : BOOLEAN, port : Ports \cup {0},
               nonce : Nat, told : Nat, used : SUBSET (Ports \X Nat),
               call : {"none", "shutdown", "rebind", "rebinding"},
               waiting : {"no", "blocked", "joined", "draining", "done"},
               undrained : SUBSET Workers]
  /\ ghosts \subseteq Conns

Alive == {c \in Conns : conn[c].life \notin {"unborn", "closed"}}
Registered == {reg.conns[a] : a \in Addrs} \ {NoConn}

\* A worker runs one handler at a time.
Free(w) == \A c \in Conns : conn[c].worker = w => conn[c].at = "locked"
Running == msgr.started /\ msgr.waiting \in {"no", "blocked"}

-------------------------------------------------------------------------------
(* The tables, under lock. *)

\* The entry under an address, unless its connection unregistered itself.
Found(a) == IF reg.conns[a] \in reg.deleted THEN NoConn ELSE reg.conns[a]

\* Mutant: the entry is not taken out of conns.
lookup_conn_only(a) ==
  IF reg.conns[a] \in reg.deleted
  THEN [reg EXCEPT !.deleted = @ \ {reg.conns[a]}]
  ELSE reg

\* _lookup_conn, the lazy deletion of an entry whose connection has stopped.
lookup_conn(a) ==
  IF reg.conns[a] \in reg.deleted
  THEN [reg EXCEPT !.conns[a] = NoConn, !.deleted = @ \ {reg.conns[a]}]
  ELSE reg

\* The worker with the least references, the first of them.
get_worker ==
  CHOOSE w \in Workers :
    /\ \A v \in Workers : references[w] <= references[v]
    /\ \A v \in 1 .. (w - 1) : references[w] < references[v]

NewConn(life, a, w) ==
  [life |-> life, at |-> "locked", addr |-> a, worker |-> w, to |-> w,
   existing |-> NoConn, replacing |-> FALSE]

Create(c, life, a) ==
  /\ conn[c].life = "unborn"
  /\ conn' = [conn EXCEPT ![c] = NewConn(life, a, get_worker)]
  /\ references' = [references EXCEPT ![get_worker] = @ + 1]

\* Mutant: the reference stays with the worker.
release_not(S) == references' = references

\* release_worker, by each connection of S.
release(S) ==
  references' = [w \in Workers |-> references[w] - Cardinality({c \in S : conn[c].worker = w})]

\* unregister_conn, by each connection of S.
Unregistered(r, S) == [r EXCEPT !.deleted = @ \cup S]

\* Mutant: a connection that was stopped before is stopped again.
Stoppable_all(S) == S \ {c \in Conns : conn[c].life = "unborn"}

Stoppable(S) == S \cap Alive

\* _stop of each connection of S, cn and r being what the handler made of the
\* connections and of the tables before.
stop(cn, r, S) ==
  LET T == Stoppable(S)
  IN  /\ conn' = [c \in Conns |-> IF c \in T THEN [cn[c] EXCEPT !.life = "closed"] ELSE cn[c]]
      /\ reg' = Unregistered(r, T)
      /\ release(T)
      /\ reap' = (reap \/ (T # {} /\ Cardinality(r.deleted \cup T)
                                       >= ReapDeadConnectionThreshold))

-------------------------------------------------------------------------------
(* The application. *)

\* get_connection, and send_message without a policy.server.
get_connection(a) ==
  /\ Running
  /\ IF Found(a) # NoConn
     THEN reg' = lookup_conn(a) /\ UNCHANGED <<conn, references>>
     ELSE \E c \in Conns :
            /\ Create(c, "live", a)
            /\ reg' = [lookup_conn(a) EXCEPT !.conns[a] = c]
  /\ UNCHANGED <<reap, msgr, leaked, ghosts>>

\* A server has no session with that peer: submit_message drops the message.
send_message_as_server(a) ==
  /\ Running /\ Found(a) = NoConn /\ lookup_conn(a) # reg
  /\ reg' = lookup_conn(a)
  /\ UNCHANGED <<conn, reap, references, msgr, leaked, ghosts>>

mark_down_addr(a) ==
  /\ Running
  /\ stop(conn, lookup_conn(a), {Found(a)} \ {NoConn})
  /\ UNCHANGED <<msgr, leaked, ghosts>>

\* Connection::mark_down, of a connection the application was given.
mark_down(c) ==
  /\ Running /\ c \in Alive \ reg.accepting
  /\ stop(conn, reg, {c})
  /\ UNCHANGED <<msgr, leaked, ghosts>>

-------------------------------------------------------------------------------
(* Processor::accept, in the event loop of its worker. *)

\* add_accept takes the lock for the whole of it.
add_accept(c) ==
  /\ msgr.listening /\ Free(Acceptor)
  /\ Create(c, "accepting", NoAddr)
  /\ reg' = [reg EXCEPT !.accepting = @ \cup {c}]
  /\ UNCHANGED <<reap, msgr, leaked, ghosts>>

\* Every accept loop ends with a socket that did not come, for which it has taken
\* a reference.
accept_again ==
  /\ msgr.listening /\ Free(Acceptor)
  /\ SumFunction(leaked) < MaxEmpty
  /\ references' = [references EXCEPT ![get_worker] = @ + 1]
  /\ leaked' = [leaked EXCEPT ![get_worker] = @ + 1]
  /\ UNCHANGED <<conn, reg, reap, msgr, ghosts>>

-------------------------------------------------------------------------------
(* handle_connect_msg, in the event loop of the accepting connection. *)

\* The lock is given up, and the connection under the peer's address looked up.
lookup_existing(c, a) ==
  /\ conn[c].life = "accepting" /\ Free(conn[c].worker)
  /\ conn[c].addr \in {a, NoAddr}
  /\ reg' = lookup_conn(a)
  /\ conn' = [conn EXCEPT ![c].addr = a, ![c].existing = Found(a), ![c].at = "looked"]
  /\ UNCHANGED <<reap, references, msgr, leaked, ghosts>>

\* What is left of the existing connection when its lock is taken.
Existing(c) ==
  LET e == conn[c].existing
  IN  IF e = NoConn \/ e = c THEN NoConn ELSE IF e \in Alive THEN e ELSE NoConn

Back(cn, c) == [cn EXCEPT ![c].at = "locked", ![c].existing = NoConn]
Onward(cn, c) == [cn EXCEPT ![c].at = "unlocked", ![c].existing = NoConn]

\* "state changed while accept, it must be mark_down".
stopped_meanwhile(c) ==
  /\ conn[c].at = "looked" /\ conn[c].life = "closed"
  /\ conn' = Back(conn, c)
  /\ UNCHANGED <<reg, reap, references, msgr, leaked, ghosts>>

\* _reply_accept: RETRY_GLOBAL, RETRY_SESSION, WAIT or RESETSESSION, and the peer
\* sends another connect message. A connection being replaced answers for nobody else.
reply_accept(c) ==
  /\ conn[c].at = "looked" /\ conn[c].life = "accepting"
  /\ Existing(c) = NoConn => ~conn[c].replacing /\ conn[c].existing \in {c, NoConn}
  /\ conn' = Back(conn, c)
  /\ UNCHANGED <<reg, reap, references, msgr, leaked, ghosts>>

\* No session, or one that has just been closed.
accept_new(c) ==
  /\ conn[c].at = "looked" /\ conn[c].life = "accepting" /\ Existing(c) = NoConn
  /\ conn' = Onward(conn, c)
  /\ UNCHANGED <<reg, reap, references, msgr, leaked, ghosts>>

\* "replacing on lossy channel, failing existing".
replace_lossy(c) ==
  /\ conn[c].at = "looked" /\ conn[c].life = "accepting" /\ Existing(c) # NoConn
  /\ ~conn[Existing(c)].replacing /\ conn[Existing(c)].at = "locked"
  /\ stop(Onward(conn, c), reg, {Existing(c)})
  /\ UNCHANGED <<msgr, leaked, ghosts>>

\* The existing connection takes the socket over, and this one stops. (An existing
\* connection that has given its lock up before or after accept_conn is not found
\* in STATE_CLOSED afterwards, and the program aborts: see Connection.)
replace(c) ==
  /\ conn[c].at = "looked" /\ conn[c].life = "accepting" /\ Existing(c) # NoConn
  /\ ~conn[Existing(c)].replacing /\ conn[Existing(c)].at = "locked"
  /\ stop([Back(conn, c) EXCEPT ![Existing(c)].life = "moving",
                                ![Existing(c)].replacing = TRUE,
                                ![Existing(c)].to = conn[c].worker], reg, {c})
  /\ UNCHANGED <<msgr, leaked, ghosts>>

\* Mutant: the references move although the connection has been stopped.
deactivate_existing_anyway(e) ==
  /\ conn[e].to # conn[e].worker /\ conn[e].life \in {"moving", "closed"}
  /\ Free(conn[e].worker)
  /\ conn' = [conn EXCEPT ![e].worker = conn[e].to,
                          ![e].life = IF @ = "moving" THEN "moved" ELSE @]
  /\ references' = [references EXCEPT ![conn[e].worker] = @ - 1, ![conn[e].to] = @ + 1]
  /\ UNCHANGED <<reg, reap, msgr, leaked, ghosts>>

\* In the old event loop of the replaced connection. One that was stopped in the
\* meantime closes the new socket and goes nowhere.
deactivate_existing(e) ==
  /\ conn[e].life = "moving" /\ Free(conn[e].worker)
  /\ conn' = [conn EXCEPT ![e].worker = conn[e].to, ![e].life = "moved"]
  /\ references' = [w \in Workers |-> references[w] - (IF w = conn[e].worker THEN 1 ELSE 0)
                                                    + (IF w = conn[e].to THEN 1 ELSE 0)]
  /\ UNCHANGED <<reg, reap, msgr, leaked, ghosts>>

\* In the new one: RETRY_GLOBAL makes the peer send its connect message again.
transfer_existing(e) ==
  /\ conn[e].life = "moved" /\ Free(conn[e].worker)
  /\ conn' = [conn EXCEPT ![e].life = "accepting"]
  /\ UNCHANGED <<reg, reap, references, msgr, leaked, ghosts>>

\* Mutant: the connection leaves accepting_conns before the address is looked at.
accept_conn_early(c, a) ==
  LET r == lookup_conn(a)
  IN  IF r.conns[a] \notin {c, NoConn}
      THEN [r EXCEPT !.accepting = @ \ {c}]
      ELSE [r EXCEPT !.conns[a] = c, !.accepting = @ \ {c}]

\* The tables after accept_conn: an entry that unregistered itself gives way, even
\* if it is this connection's own.
accept_conn(c, a) ==
  LET r == lookup_conn(a)
  IN  IF r.conns[a] \notin {c, NoConn}
      THEN r
      ELSE [r EXCEPT !.conns[a] = c, !.accepting = @ \ {c}]

register(c) ==
  LET r == accept_conn(c, conn[c].addr)
      refused == Found(conn[c].addr) \notin {c, NoConn}
  IN  /\ conn[c].at = "unlocked"
      /\ reg' = r
      /\ conn' = [conn EXCEPT ![c].at = IF refused THEN "refused" ELSE "registered"]
      /\ ghosts' = IF conn[c].life = "closed" /\ ~refused THEN ghosts \cup {c} ELSE ghosts
      /\ UNCHANGED <<reap, references, msgr, leaked>>

\* fault: a fresh connection in the middle of its handshake is stopped, as is a
\* lossy one; one that has been replaced goes on, reconnecting or on standby.
Faulty(c) ==
  \/ stop(Back(conn, c), reg, {c})
  \/ /\ c \notin reg.accepting
     /\ conn' = [Back(conn, c) EXCEPT ![c].life = IF @ = "closed" THEN @ ELSE "live",
                                      ![c].replacing = FALSE]
     /\ UNCHANGED <<reg, reap, references>>

\* "existing race replacing process, just fail later one", a stop in the meantime,
\* or a reply that could not be sent.
fail_registered(c) ==
  /\ conn[c].at \in {"refused", "registered"}
  /\ Faulty(c)
  /\ UNCHANGED <<msgr, leaked, ghosts>>

accepted(c) ==
  /\ conn[c].at = "registered" /\ conn[c].life = "accepting"
  /\ conn' = [Back(conn, c) EXCEPT ![c].life = "live", ![c].replacing = FALSE]
  /\ UNCHANGED <<reg, reap, references, msgr, leaked, ghosts>>

\* Any other broken socket.
fault(c) ==
  /\ conn[c].life \in {"accepting", "live"} /\ Free(conn[c].worker)
  /\ Faulty(c)
  /\ UNCHANGED <<msgr, leaked, ghosts>>

-------------------------------------------------------------------------------
(* reap_handler, in the local worker. *)

\* Mutant: an entry is erased whoever it is by now.
reap_dead_any ==
  /\ reap /\ Free(LocalWorker)
  /\ reap' = FALSE
  /\ reg' = [reg EXCEPT !.conns = [a \in Addrs |->
                 IF \E c \in reg.deleted : conn[c].addr = a THEN NoConn ELSE @[a]],
               !.accepting = @ \ reg.deleted, !.deleted = {}]
  /\ UNCHANGED <<conn, references, msgr, leaked, ghosts>>

reap_dead ==
  /\ reap /\ Free(LocalWorker)
  /\ reap' = FALSE
  /\ reg' = [reg EXCEPT !.conns = [a \in Addrs |->
                 IF @[a] \in reg.deleted THEN NoConn ELSE @[a]],
               !.accepting = @ \ reg.deleted, !.deleted = {}]
  /\ UNCHANGED <<conn, references, msgr, leaked, ghosts>>

-------------------------------------------------------------------------------
(* The life of the messenger. *)

\* Mutant: those being accepted are forgotten and not stopped.
shutdown_connections_registered ==
  LET S == Stoppable(Registered)
  IN  /\ conn' = [c \in Conns |-> IF c \in S THEN [conn[c] EXCEPT !.life = "closed"] ELSE conn[c]]
      /\ reg' = [conns |-> [a \in Addrs |-> NoConn], accepting |-> {}, deleted |-> {}]
      /\ release(S)
      /\ UNCHANGED reap

\* Every connection the tables know of is stopped, and the tables are cleared.
shutdown_connections ==
  LET S == Stoppable(Registered \cup reg.accepting)
  IN  /\ conn' = [c \in Conns |-> IF c \in S THEN [conn[c] EXCEPT !.life = "closed"] ELSE conn[c]]
      /\ reg' = [conns |-> [a \in Addrs |-> NoConn], accepting |-> {}, deleted |-> {}]
      /\ release(S)
      /\ reap' = (reap \/ (S # {} /\ Cardinality(reg.deleted \cup S)
                                       >= ReapDeadConnectionThreshold))

start ==
  /\ ~msgr.started /\ msgr.waiting = "no"
  /\ msgr' = [msgr EXCEPT !.started = TRUE, !.stopped = FALSE]
  /\ UNCHANGED <<conn, reg, reap, references, leaked, ghosts>>

\* Mutant: the nonce the peers are told is the first one.
finish_bind_first(m, p) ==
  [m EXCEPT !.bound = p, !.port = p, !.told = 0, !.did_bind = TRUE,
            !.used = @ \cup {<<p, 0>>}]

\* Processor::bind has found a port, and _finish_bind sets the address.
finish_bind(m, p) ==
  [m EXCEPT !.bound = p, !.port = p, !.told = m.nonce, !.did_bind = TRUE,
            !.used = @ \cup {<<p, m.nonce>>}]

\* Before start. (Every stack of the program is_ready, so that no bind is postponed.)
bind(p) ==
  /\ ~msgr.started /\ msgr.waiting = "no" /\ ~msgr.did_bind
  /\ msgr' = finish_bind(msgr, p)
  /\ UNCHANGED <<conn, reg, reap, references, leaked, ghosts>>

\* Processor::start, in its event loop, for which the caller waits.
start_listening(m) == [m EXCEPT !.listening = TRUE]

ready ==
  /\ msgr.started /\ msgr.did_bind /\ msgr.call = "none" /\ ~msgr.listening /\ msgr.bound # 0
  /\ msgr' = start_listening(msgr)
  /\ UNCHANGED <<conn, reg, reap, references, leaked, ghosts>>

\* Processor::stop runs in the processor's event loop, and the caller waits for it.
stop_listening(call) ==
  /\ Free(Acceptor)
  /\ msgr' = [msgr EXCEPT !.listening = FALSE, !.bound = 0, !.call = call]
  /\ UNCHANGED <<conn, reg, reap, references, leaked, ghosts>>

rebind ==
  /\ Running /\ msgr.call = "none" /\ msgr.did_bind /\ msgr.listening
  /\ msgr.nonce < MaxRebinds
  /\ stop_listening("rebind")

rebind_close ==
  /\ msgr.call = "rebind"
  /\ shutdown_connections
  /\ msgr' = [msgr EXCEPT !.nonce = @ + 1, !.call = "rebinding"]
  /\ UNCHANGED <<leaked, ghosts>>

\* Any free port but the ones to be avoided. (The port of before is put into
\* new_avoid as 0, and new_avoid is not used.)
rebind_bind(p) ==
  /\ msgr.call = "rebinding"
  /\ msgr' = [start_listening(finish_bind(msgr, p)) EXCEPT !.call = "none"]
  /\ UNCHANGED <<conn, reg, reap, references, leaked, ghosts>>

\* No port is free: the messenger goes on without listening.
rebind_fails ==
  /\ msgr.call = "rebinding"
  /\ msgr' = [msgr EXCEPT !.call = "none"]
  /\ UNCHANGED <<conn, reg, reap, references, leaked, ghosts>>

shutdown ==
  /\ Running /\ msgr.call = "none" /\ ~msgr.stopped
  /\ stop_listening("shutdown")

shutdown_close ==
  /\ msgr.call = "shutdown"
  /\ shutdown_connections
  /\ msgr' = [msgr EXCEPT !.did_bind = FALSE, !.stopped = TRUE, !.call = "none"]
  /\ UNCHANGED <<leaked, ghosts>>

wait ==
  /\ msgr.started /\ msgr.waiting = "no"
  /\ msgr' = [msgr EXCEPT !.waiting = "blocked"]
  /\ UNCHANGED <<conn, reg, reap, references, leaked, ghosts>>

\* Signalled by shutdown; the dispatch queue, and the application with it, is joined.
wait_joined ==
  /\ msgr.waiting = "blocked" /\ msgr.stopped
  /\ msgr' = [msgr EXCEPT !.waiting = "joined"]
  /\ UNCHANGED <<conn, reg, reap, references, leaked, ghosts>>

wait_close ==
  /\ msgr.waiting = "joined"
  /\ shutdown_connections
  /\ msgr' = [msgr EXCEPT !.waiting = "draining", !.undrained = Workers]
  /\ UNCHANGED <<leaked, ghosts>>

\* NetworkStack::drain: every worker runs an event that does nothing but count.
drain(w) ==
  /\ w \in msgr.undrained /\ Free(w)
  /\ msgr' = [msgr EXCEPT !.undrained = @ \ {w},
                          !.waiting = IF msgr.undrained = {w} THEN "done" ELSE @,
                          !.started = msgr.undrained # {w}]
  /\ UNCHANGED <<conn, reg, reap, references, leaked, ghosts>>

-------------------------------------------------------------------------------
Init ==
  /\ conn = [c \in Conns |-> NewConn("unborn", NoAddr, LocalWorker)]
  /\ reg = [conns |-> [a \in Addrs |-> NoConn], accepting |-> {}, deleted |-> {}]
  /\ reap = FALSE
  /\ references = [w \in Workers |-> IF w = LocalWorker THEN 1 ELSE 0]
  /\ msgr = [started |-> FALSE, stopped |-> TRUE, did_bind |-> FALSE, bound |-> 0,
             listening |-> FALSE, port |-> 0, nonce |-> 0, told |-> 0, used |-> {},
             call |-> "none", waiting |-> "no", undrained |-> {}]
  /\ leaked = [w \in Workers |-> 0] /\ ghosts = {}

Application ==
  \/ start \/ ready \/ rebind \/ rebind_close \/ rebind_fails
  \/ shutdown \/ shutdown_close \/ wait \/ wait_joined \/ wait_close
  \/ \E p \in Ports : bind(p) \/ rebind_bind(p)
  \/ \E a \in Addrs : get_connection(a) \/ send_message_as_server(a) \/ mark_down_addr(a)
  \/ \E c \in Conns : mark_down(c)

Worker ==
  \/ accept_again \/ reap_dead
  \/ \E w \in Workers : drain(w)
  \/ \E c \in Conns :
       \/ add_accept(c) \/ stopped_meanwhile(c) \/ reply_accept(c) \/ accept_new(c)
       \/ replace_lossy(c) \/ replace(c) \/ deactivate_existing(c) \/ transfer_existing(c)
       \/ register(c) \/ fail_registered(c) \/ accepted(c) \/ fault(c)
       \/ \E a \in Addrs : lookup_existing(c, a)

Next == Application \/ Worker

Spec == Init /\ [][Next]_vars

-------------------------------------------------------------------------------
(* Properties. *)

\* A worker counts every connection it has and nothing else, except for what its
\* accept loops have leaked and for the loopback connection: release_worker asserts
\* that there is a reference to release, and get_worker balances by these counts.
\* The counts move with a connection that is replaced, unless it is stopped first.
ReferencesExact ==
  \A w \in Workers :
    references[w] = Cardinality({c \in Alive : conn[c].worker = w}) + leaked[w]
                    + (IF w = LocalWorker THEN 1 ELSE 0)

\* "_lookup_conn must ensure not return a HwConnection in this set": a stopped
\* connection still in conns is in deleted_conns, so that it makes way for a new
\* one. The only ones that stay are those accept_conn registered after they had
\* been stopped, handle_connect_msg not unregistering them when it finds out.
NoStale == \A a \in Addrs : reg.conns[a] \in Alive \cup reg.deleted \cup ghosts \cup {NoConn}

\* A connection that is not closed is where shutdown_connections finds it, and one
\* that has been in use is under its peer's address and no other.
AllReachable ==
  \A c \in Alive :
    \/ c \in reg.accepting /\ conn[c].life = "accepting"
    \/ conn[c].addr # NoAddr /\ reg.conns[conn[c].addr] = c

\* When wait returns, no connection is left open, whatever was being accepted,
\* replaced or refused in the meantime, and the tables hold only closed ones.
WaitClosesAll == msgr.waiting = "done" => Alive = {} /\ Registered \subseteq ghosts

\* A messenger that binds again gives its peers an address it never had before: "we
\* want our entity_addr_t to be truly unique", though the port may be the same one.
AddressFresh ==
  [][msgr.bound = 0 /\ msgr'.bound # 0
       => <<msgr'.port, msgr'.told>> \notin msgr.used /\ msgr'.port = msgr'.bound]_vars
=============================================================================
