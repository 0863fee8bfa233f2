--------------------------- MODULE RegistryProofs ---------------------------
(* The tables of the messenger: the inductive invariant of Registry and the       *)
(* theorems. Most handlers do three things in turn: change the handler's place,   *)
(* take entries of stopped connections out of the tables, and stop some           *)
(* connections. Gentle, Fewer and Stopping say so, TablesKept shows once that the *)
(* invariant survives it, and a lemma of its own treats each handler that adds to *)
(* the tables.                                                                    *)
EXTENDS Registry, FiniteSetTheorems, TLAPS

-------------------------------------------------------------------------------
(* The references of the workers: every step keeps them exact. A step stops some *)
(* connections, creates one, moves one, or does none of these, and there is a    *)
(* lemma on the cardinality of a worker's connections for each. Sound, Placed and *)
(* the types are what the steps have to keep for the next.                        *)

\* get_worker always finds a worker: with finitely many of them, one has the least
\* references, and is the first such.
LEMMA LeastWorker ==
  ASSUME references \in [Workers -> Int]
  PROVE  get_worker \in Workers
<1> DEFINE Before(v, w) == references[v] < references[w] \/ (references[v] = references[w] /\ v < w)
           D(w) == {v \in Workers : Before(v, w)}
           T == {D(w) : w \in Workers}
<1> USE RegistryAssumption DEF Workers
<1>1. IsFiniteSet(Workers)
  BY FS_Interval
<1>2. T \subseteq FiniteSubsetsOf(Workers) /\ T # {}
  <2>1. 1 \in Workers
    OBVIOUS
  <2>2. FiniteSubsetsOf(Workers) = SUBSET Workers
    BY <1>1, FS_FiniteSubsetsOfFinite
  <2>3. T \subseteq SUBSET Workers
    OBVIOUS
  <2>4. D(1) \in T
    BY <2>1
  <2>5. QED BY <2>2, <2>3, <2>4
<1>3. IsWellFoundedOn(StrictSubsetOrdering(Workers), FiniteSubsetsOf(Workers))
  BY FS_StrictSubsetOrderingWellFounded
<1>4. PICK t \in T : \A u \in T : ~ (<<u, t>> \in StrictSubsetOrdering(Workers))
  <2> HIDE DEF T
  <2> QED BY <1>2, <1>3, WFMin
<1>5. PICK w \in Workers : t = D(w)
  OBVIOUS
<1>6. ASSUME NEW v \in Workers, Before(v, w) PROVE FALSE
  <2>1. D(v) \subseteq D(w)
    <3> HIDE DEF T, D
    <3>1. ASSUME NEW x \in Workers, Before(x, v) PROVE Before(x, w)
      <4>1. /\ references[x] \in Int /\ references[v] \in Int /\ references[w] \in Int
            /\ x \in Int /\ v \in Int /\ w \in Int
        OBVIOUS
      <4>2. QED BY <1>6, <3>1, <4>1
    <3>2. QED BY <3>1 DEF D
  <2>2. v \in D(w) /\ v \notin D(v)
    BY <1>6
  <2>3. D(v) \in SUBSET Workers /\ D(w) \in SUBSET Workers /\ D(v) \in T
    OBVIOUS
  <2> HIDE DEF D, T
  <2>4. <<D(v), t>> \in StrictSubsetOrdering(Workers)
    BY <2>1, <2>2, <2>3, <1>5 DEF StrictSubsetOrdering
  <2>5. QED BY <2>3, <2>4, <1>4
<1> HIDE DEF T, D
<1>7. /\ \A v \in Workers : references[w] <= references[v]
      /\ \A v \in 1 .. (w - 1) : references[w] < references[v]
  <2>1. ASSUME NEW v \in Workers PROVE references[w] <= references[v]
    BY <1>6
  <2>2. ASSUME NEW v \in 1 .. (w - 1) PROVE references[w] < references[v]
    <3>1. v \in Workers /\ v < w
      OBVIOUS
    <3>2. ~(references[v] < references[w]) /\ ~(references[v] = references[w])
      BY <1>6, <3>1
    <3>3. QED BY <3>1, <3>2
  <2>3. QED BY <2>1, <2>2
<1>8. QED BY <1>7 DEF get_worker

-------------------------------------------------------------------------------
(* Types. *)

Connection ==
  [life : Lives, at : Places, addr : Addrs \cup {NoAddr}, worker : Workers, to : Workers,
   existing : Conns \cup {NoConn}, replacing : BOOLEAN]
Tables ==
  [conns : [Addrs -> Conns \cup {NoConn}], accepting : SUBSET Conns, deleted : SUBSET Conns]
Messenger ==
  [started : BOOLEAN, stopped : BOOLEAN, did_bind : BOOLEAN, bound : Ports \cup {0},
   listening : BOOLEAN, port : Ports \cup {0}, nonce : Nat, told : Nat,
   used : SUBSET (Ports \X Nat), call : {"none", "shutdown", "rebind", "rebinding"},
   waiting : {"no", "blocked", "joined", "draining", "done"}, undrained : SUBSET Workers]

\* TypeOK without references, whose values ReferencesExact gives.
Types ==
  /\ conn \in [Conns -> Connection] /\ reg \in Tables /\ reap \in BOOLEAN
  /\ leaked \in [Workers -> Nat] /\ msgr \in Messenger /\ ghosts \subseteq Conns

Counts == references \in [Workers -> Int] /\ ReferencesExact

\* TypeOK is Types together with what ReferencesExact implies of references.
LEMMA TypeOKSplit == TypeOK <=> Types /\ references \in [Workers -> Nat]
BY DEF TypeOK, Types, Connection, Tables, Messenger

\* The local worker and the acceptor's are workers.
LEMMA WorkersExist == LocalWorker \in Workers /\ Acceptor \in Workers
BY RegistryAssumption DEF LocalWorker, Acceptor, Workers

\* The open connections of a worker are finitely many, and can be counted.
LEMMA AliveOf == ASSUME NEW w PROVE LET S == {c \in Alive : conn[c].worker = w}
                                    IN  IsFiniteSet(S) /\ Cardinality(S) \in Nat
<1>1. {c \in Alive : conn[c].worker = w} \in SUBSET Conns
  BY DEF Alive
<1>2. IsFiniteSet({c \in Alive : conn[c].worker = w})
  BY <1>1, FS_Subset, RegistryAssumption
<1>3. QED BY <1>2, FS_CardinalityType

\* Counts that are exact are never negative: release_worker's assertion.
LEMMA CountsNat == ASSUME Types, Counts PROVE references \in [Workers -> Nat]
<1>1. ASSUME NEW w \in Workers PROVE references[w] \in Nat
  <2>1. Cardinality({c \in Alive : conn[c].worker = w}) \in Nat
    BY AliveOf
  <2>2. leaked[w] \in Nat
    BY DEF Types
  <2>3. QED BY <2>1, <2>2 DEF Counts, ReferencesExact
<1>2. QED BY <1>1 DEF Counts

-------------------------------------------------------------------------------
(* What the steps do to the counts. *)

\* A step that opens, closes and moves no connection keeps the counts.
LEMMA CountKept ==
  ASSUME Counts, Alive' = Alive, \A c \in Alive : conn'[c].worker = conn[c].worker,
         UNCHANGED <<references, leaked>>
  PROVE  Counts'
<1>1. ASSUME NEW w PROVE {c \in Alive' : conn'[c].worker = w} = {c \in Alive : conn[c].worker = w}
  OBVIOUS
<1>2. QED BY <1>1 DEF Counts, ReferencesExact

\* Connections that stop give their references back.
LEMMA CountReleased ==
  ASSUME Types, Counts, NEW T \in SUBSET Alive, Alive' = Alive \ T,
         \A c \in Alive : conn'[c].worker = conn[c].worker, release(T), leaked' = leaked
  PROVE  Counts'
<1>1. ASSUME NEW w \in Workers
      PROVE  /\ references'[w] \in Int
             /\ references'[w] = Cardinality({c \in Alive' : conn'[c].worker = w})
                                 + leaked'[w] + (IF w = LocalWorker THEN 1 ELSE 0)
  <2> DEFINE A == {c \in Alive : conn[c].worker = w}
             B == {c \in T : conn[c].worker = w}
  <2>1. IsFiniteSet(A) /\ Cardinality(A) \in Nat
    BY AliveOf
  <2>2. A \cap T = B /\ {c \in Alive' : conn'[c].worker = w} = A \ T
    OBVIOUS
  <2>3. Cardinality(A \ T) = Cardinality(A) - Cardinality(B)
    <3>1. Cardinality(A \ T) = Cardinality(A) - Cardinality(A \cap T)
      <4> HIDE DEF A
      <4> QED BY <2>1, FS_Difference
    <3>2. QED BY <3>1, <2>2
  <2>4. Cardinality(B) \in Nat
    <3>1. IsFiniteSet(A \cap T)
      BY <2>1, FS_Intersection
    <3>2. QED BY <3>1, <2>2, FS_CardinalityType
  <2>5. references'[w] = references[w] - Cardinality(B)
    BY DEF release
  <2>6. references[w] = Cardinality(A) + leaked[w] + (IF w = LocalWorker THEN 1 ELSE 0)
    BY DEF Counts, ReferencesExact
  <2>7. references[w] \in Int /\ leaked[w] \in Int
    BY DEF Counts, Types
  <2>8. /\ references'[w] \in Int
        /\ references'[w] = Cardinality(A \ T) + leaked'[w] + (IF w = LocalWorker THEN 1 ELSE 0)
    <3> HIDE DEF A, B
    <3> QED BY <2>1, <2>2, <2>3, <2>4, <2>5, <2>6, <2>7
  <2>9. QED BY <2>8, <2>2
<1>2. references' = [w \in Workers |-> references'[w]]
  BY DEF release
<1>3. QED BY <1>1, <1>2 DEF Counts, ReferencesExact

\* A connection that is created is one more for its worker v.
LEMMA CountCreated ==
  ASSUME Types, Counts, NEW c \in Conns \ Alive, Alive' = Alive \cup {c},
         NEW v \in Workers, conn'[c].worker = v,
         \A d \in Alive : conn'[d].worker = conn[d].worker,
         references' = [references EXCEPT ![v] = @ + 1], leaked' = leaked
  PROVE  Counts'
<1>1. ASSUME NEW w \in Workers
      PROVE  /\ references'[w] \in Int
             /\ references'[w] = Cardinality({d \in Alive' : conn'[d].worker = w})
                                 + leaked'[w] + (IF w = LocalWorker THEN 1 ELSE 0)
  <2> DEFINE A == {d \in Alive : conn[d].worker = w}
             C == {d \in Alive' : conn'[d].worker = w}
  <2>1. IsFiniteSet(A) /\ Cardinality(A) \in Nat
    BY AliveOf
  <2>2. C = IF w = v THEN A \cup {c} ELSE A
    OBVIOUS
  <2>3. c \notin A
    OBVIOUS
  <2>4. Cardinality(A \cup {c}) = Cardinality(A) + 1
    BY <2>1, <2>3, FS_AddElement
  <2>5. references[w] = Cardinality(A) + leaked[w] + (IF w = LocalWorker THEN 1 ELSE 0)
    BY DEF Counts, ReferencesExact
  <2>6. references[w] \in Int /\ leaked[w] \in Int
    BY DEF Counts, Types
  <2>7. references'[w] = IF w = v THEN references[w] + 1 ELSE references[w]
    BY DEF Counts
  <2>8. /\ references'[w] \in Int
        /\ references'[w] = Cardinality(C) + leaked'[w] + (IF w = LocalWorker THEN 1 ELSE 0)
    <3> HIDE DEF A, C
    <3> QED BY <2>1, <2>2, <2>4, <2>5, <2>6, <2>7
  <2>9. QED BY <2>8
<1>2. references' \in [Workers -> Int]
  BY <1>1 DEF Counts
<1>3. QED BY <1>1, <1>2 DEF Counts, ReferencesExact

\* One that is moved is one less for u and one more for v, which may be the same.
LEMMA CountMoved ==
  ASSUME Types, Counts, NEW c \in Alive, Alive' = Alive,
         NEW u \in Workers, NEW v \in Workers, conn[c].worker = u, conn'[c].worker = v,
         \A d \in Alive \ {c} : conn'[d].worker = conn[d].worker,
         references' = [w \in Workers |-> references[w] - (IF w = u THEN 1 ELSE 0)
                                                        + (IF w = v THEN 1 ELSE 0)],
         leaked' = leaked
  PROVE  Counts'
<1>1. ASSUME NEW w \in Workers
      PROVE  /\ references'[w] \in Int
             /\ references'[w] = Cardinality({d \in Alive' : conn'[d].worker = w})
                                 + leaked'[w] + (IF w = LocalWorker THEN 1 ELSE 0)
  <2> DEFINE A == {d \in Alive : conn[d].worker = w}
             C == {d \in Alive' : conn'[d].worker = w}
  <2>1. IsFiniteSet(A) /\ Cardinality(A) \in Nat
    BY AliveOf
  <2>2. C = IF w = v THEN A \cup {c} ELSE A \ {c}
    OBVIOUS
  <2>3. c \in A <=> w = u
    OBVIOUS
  <2>4. Cardinality(A \cup {c}) = IF w = u THEN Cardinality(A) ELSE Cardinality(A) + 1
    BY <2>1, <2>3, FS_AddElement
  <2>5. Cardinality(A \ {c}) = IF w = u THEN Cardinality(A) - 1 ELSE Cardinality(A)
    BY <2>1, <2>3, FS_RemoveElement
  <2>6. references[w] = Cardinality(A) + leaked[w] + (IF w = LocalWorker THEN 1 ELSE 0)
    BY DEF Counts, ReferencesExact
  <2>7. references[w] \in Int /\ leaked[w] \in Int
    BY DEF Counts, Types
  <2>8. references'[w] = references[w] - (IF w = u THEN 1 ELSE 0) + (IF w = v THEN 1 ELSE 0)
    OBVIOUS
  <2>9. /\ references'[w] \in Int
        /\ references'[w] = Cardinality(C) + leaked'[w] + (IF w = LocalWorker THEN 1 ELSE 0)
    <3> HIDE DEF A, C
    <3> QED BY <2>1, <2>2, <2>4, <2>5, <2>6, <2>7, <2>8
  <2>10. QED BY <2>9
<1>2. references' = [w \in Workers |-> references'[w]]
  OBVIOUS
<1>3. QED BY <1>1, <1>2 DEF Counts, ReferencesExact
-------------------------------------------------------------------------------
(* Every step keeps the types and the counts. *)

\* lookup_conn keeps the tables well-formed.
LEMMA LookupTypes ==
  ASSUME Types, NEW a \in Addrs
  PROVE  lookup_conn(a) \in Tables /\ Found(a) \in Conns \cup {NoConn}
BY DEF Types, Tables, lookup_conn, Found

\* What a handler makes of conn before it stops connections: cn.
Sound(cn) ==
  /\ cn \in [Conns -> Connection]
  /\ \A c \in Conns : /\ cn[c].worker = conn[c].worker
                      /\ c \in Alive <=> (cn[c].life \notin {"unborn", "closed"})

\* conn itself, and what the handler of a connect message makes of it, is sound.
LEMMA SoundConn ==
  ASSUME Types
  PROVE  /\ Sound(conn)
         /\ \A c \in Conns : Sound(Back(conn, c)) /\ Sound(Onward(conn, c))
<1>1. Sound(conn)
  BY DEF Types, Sound, Alive
<1>2. ASSUME NEW c \in Conns, NEW at \in Places, NEW cn,
             cn = [conn EXCEPT ![c] = [[conn[c] EXCEPT !.at = at] EXCEPT !.existing = NoConn]]
      PROVE  Sound(cn)
  <2>1. conn \in [Conns -> Connection] /\ conn[c] \in Connection
    BY DEF Types
  <2> DEFINE r == [[conn[c] EXCEPT !.at = at] EXCEPT !.existing = NoConn]
  <2>2. r \in Connection /\ r.worker = conn[c].worker /\ r.life = conn[c].life
    BY <2>1 DEF Connection
  <2> HIDE DEF r
  <2>3. cn = [conn EXCEPT ![c] = r]
    BY <1>2 DEF r
  <2>4. cn \in [Conns -> Connection]
    BY <2>1, <2>2, <2>3
  <2>5. \A d \in Conns : cn[d].worker = conn[d].worker /\ cn[d].life = conn[d].life
    BY <2>1, <2>2, <2>3
  <2>6. QED BY <2>4, <2>5 DEF Sound, Alive
<1>3. "locked" \in Places /\ "unlocked" \in Places
  BY DEF Places
<1>4. QED BY <1>1, <1>2, <1>3 DEF Back, Onward

\* So is an update of one connection that keeps its worker and whether it is open.
LEMMA SoundUpdate ==
  ASSUME NEW cn, Sound(cn), NEW c \in Conns, NEW r \in Connection,
         r.worker = cn[c].worker, c \in Alive <=> r.life \notin {"unborn", "closed"}
  PROVE  Sound([cn EXCEPT ![c] = r])
<1> DEFINE n == [cn EXCEPT ![c] = r]
<1>1. n \in [Conns -> Connection] /\ n[c] = r /\ \A d \in Conns \ {c} : n[d] = cn[d]
  BY DEF Sound
<1> HIDE DEF n
<1>2. \A d \in Conns : /\ n[d].worker = conn[d].worker
                      /\ d \in Alive <=> n[d].life \notin {"unborn", "closed"}
  BY <1>1 DEF Sound
<1>3. Sound(n)
  BY <1>1, <1>2 DEF Sound
<1>4. QED BY <1>3 DEF n

\* _stop of some connections keeps the types and the counts.
LEMMA StopCounts ==
  ASSUME Types, Counts, NEW cn, Sound(cn), NEW r \in Tables, NEW S, stop(cn, r, S),
         UNCHANGED <<leaked, ghosts, msgr>>
  PROVE  Types' /\ Counts'
<1> DEFINE T == Stoppable(S)
<1>1. T \in SUBSET Alive /\ T \subseteq Conns
  BY DEF Stoppable, Alive
<1>2. /\ conn' = [c \in Conns |-> IF c \in T THEN [cn[c] EXCEPT !.life = "closed"] ELSE cn[c]]
      /\ reg' = Unregistered(r, T) /\ release(T) /\ reap' \in BOOLEAN
  BY DEF stop, Types
<1> HIDE DEF T
<1>3. conn' \in [Conns -> Connection] /\ reg' \in Tables
  BY <1>1, <1>2 DEF Sound, Connection, Lives, Tables, Unregistered
<1>4. \A c \in Conns : /\ conn'[c].worker = conn[c].worker
                       /\ conn'[c].life = IF c \in T THEN "closed" ELSE cn[c].life
  <2>1. \A c \in Conns : cn[c] \in Connection /\ cn[c].worker = conn[c].worker
    BY DEF Sound
  <2>2. QED BY <1>2, <2>1 DEF Connection
<1>5. Alive' = Alive \ T
  BY <1>4 DEF Alive, Sound
<1>6. Counts'
  <2>1. \A c \in Alive : conn'[c].worker = conn[c].worker
    BY <1>4 DEF Alive
  <2>2. QED BY <2>1, <1>1, <1>2, <1>5, CountReleased
<1>7. QED BY <1>2, <1>3, <1>6 DEF Types

\* So does shutdown_connections.
LEMMA ShutdownCounts ==
  ASSUME Types, Counts, shutdown_connections, UNCHANGED <<leaked, ghosts>>, msgr' \in Messenger
  PROVE  Types' /\ Counts'
<1> DEFINE T == Stoppable(Registered \cup reg.accepting)
<1>1. T \in SUBSET Alive
  BY DEF Stoppable
<1>2. /\ conn' = [c \in Conns |-> IF c \in T THEN [conn[c] EXCEPT !.life = "closed"] ELSE conn[c]]
      /\ reg' = [conns |-> [a \in Addrs |-> NoConn], accepting |-> {}, deleted |-> {}]
      /\ release(T) /\ reap' \in BOOLEAN
  BY DEF shutdown_connections, Types
<1> HIDE DEF T
<1>3. conn' \in [Conns -> Connection] /\ reg' \in Tables
  BY <1>2 DEF Types, Connection, Lives, Tables
<1>4. Alive' = Alive \ T /\ \A c \in Conns : conn'[c].worker = conn[c].worker
  BY <1>2 DEF Alive, Types, Connection
<1>5. Counts'
  <2>1. \A c \in Alive : conn'[c].worker = conn[c].worker
    BY <1>4 DEF Alive
  <2>2. QED BY <2>1, <1>1, <1>2, <1>4, CountReleased
<1>6. QED BY <1>2, <1>3, <1>5 DEF Types

\* So does the creation of a connection, on the worker get_worker chooses.
LEMMA CreateCounts ==
  ASSUME Types, Counts, NEW c \in Conns, NEW life \in {"accepting", "live"},
         NEW a \in Addrs \cup {NoAddr}, Create(c, life, a), leaked' = leaked
  PROVE  conn' \in [Conns -> Connection] /\ Counts'
<1>1. get_worker \in Workers
  BY LeastWorker DEF Counts
<1>2. /\ conn' = [conn EXCEPT ![c] = NewConn(life, a, get_worker)]
      /\ conn[c].life = "unborn"
      /\ references' = [references EXCEPT ![get_worker] = @ + 1]
  BY DEF Create
<1> DEFINE w == get_worker
<1>3. w \in Workers
  BY <1>1
<1> HIDE DEF w
<1>4. NewConn(life, a, w) \in Connection /\ NewConn(life, a, w).worker = w
      /\ NewConn(life, a, w).life = life
  BY <1>3 DEF NewConn, Connection, Lives, Places
<1>5. conn' = [conn EXCEPT ![c] = NewConn(life, a, w)]
      /\ references' = [references EXCEPT ![w] = @ + 1]
  BY <1>2 DEF w
<1>6. conn' \in [Conns -> Connection]
  BY <1>4, <1>5 DEF Types
<1>7. c \notin Alive /\ Alive' = Alive \cup {c} /\ conn'[c].worker = w
      /\ \A d \in Alive : conn'[d].worker = conn[d].worker
  BY <1>2, <1>4, <1>5 DEF Types, Alive
<1>8. Counts'
  BY <1>3, <1>5, <1>7, CountCreated
<1>9. QED BY <1>6, <1>8

\* So does a step that neither takes nor gives back references.
LEMMA SoundStep ==
  ASSUME Types, Counts, Sound(conn'), reg' \in Tables, reap' \in BOOLEAN, msgr' \in Messenger,
         ghosts' \subseteq Conns, UNCHANGED <<references, leaked>>
  PROVE  Types' /\ Counts'
<1>1. conn' \in [Conns -> Connection] /\ Alive' = Alive
      /\ \A c \in Alive : conn'[c].worker = conn[c].worker
  BY DEF Sound, Alive
<1>2. Counts'
  BY <1>1, CountKept
<1>3. QED BY <1>1, <1>2 DEF Types

\* The application and the messenger.
LEMMA ApplicationCounts == ASSUME Types, Counts, Application PROVE Types' /\ Counts'
<1> USE WorkersExist
<1>1. ASSUME UNCHANGED <<conn, reg, reap, references, leaked, ghosts>>, msgr' \in Messenger
      PROVE  Types' /\ Counts'
  BY <1>1, SoundConn, SoundStep DEF Types
<1>2. CASE start \/ ready \/ rebind \/ rebind_fails \/ shutdown \/ wait \/ wait_joined
  <2>1. UNCHANGED <<conn, reg, reap, references, leaked, ghosts>>
    BY <1>2 DEF start, ready, rebind, rebind_fails, shutdown, stop_listening, wait, wait_joined
  <2>2. msgr \in Messenger
    BY DEF Types
  <2>3. CASE start
    BY <2>2, <2>3, <2>1, <1>1 DEF start, Messenger
  <2>4. CASE ready
    BY <2>2, <2>4, <2>1, <1>1 DEF ready, start_listening, Messenger
  <2>5. CASE rebind
    BY <2>2, <2>5, <2>1, <1>1 DEF rebind, stop_listening, Messenger
  <2>6. CASE rebind_fails
    BY <2>2, <2>6, <2>1, <1>1 DEF rebind_fails, Messenger
  <2>7. CASE shutdown
    BY <2>2, <2>7, <2>1, <1>1 DEF shutdown, stop_listening, Messenger
  <2>8. CASE wait
    BY <2>2, <2>8, <2>1, <1>1 DEF wait, Messenger
  <2>9. CASE wait_joined
    BY <2>2, <2>9, <2>1, <1>1 DEF wait_joined, Messenger
  <2>10. QED BY <1>2, <2>3, <2>4, <2>5, <2>6, <2>7, <2>8, <2>9
<1>3. ASSUME NEW p \in Ports, bind(p) \/ rebind_bind(p) PROVE Types' /\ Counts'
  <2>1. finish_bind(msgr, p) \in Messenger
    <3>1. msgr \in Messenger /\ msgr.used \cup {<<p, msgr.nonce>>} \in SUBSET (Ports \X Nat)
      BY DEF Types, Messenger
    <3>2. ASSUME NEW u \in SUBSET (Ports \X Nat)
          PROVE  [msgr EXCEPT !.bound = p, !.port = p, !.told = msgr.nonce, !.did_bind = TRUE,
                              !.used = u] \in Messenger
      BY <3>1 DEF Messenger
    <3>3. QED BY <3>1, <3>2 DEF finish_bind
  <2>2. msgr' \in Messenger
    <3>1. CASE bind(p)
      BY <3>1, <2>1 DEF bind
    <3>2. CASE rebind_bind(p)
      <4> DEFINE m == finish_bind(msgr, p)
      <4>1. m \in Messenger /\ msgr' = [[m EXCEPT !.listening = TRUE] EXCEPT !.call = "none"]
        BY <3>2, <2>1 DEF rebind_bind, start_listening
      <4> HIDE DEF m
      <4>2. QED BY <4>1 DEF Messenger
    <3>3. QED BY <1>3, <3>1, <3>2
  <2>3. QED BY <1>1, <1>3, <2>2 DEF bind, rebind_bind
<1>4. CASE rebind_close \/ shutdown_close \/ wait_close
  <2>1. UNCHANGED <<leaked, ghosts>> /\ shutdown_connections /\ msgr \in Messenger
    BY <1>4 DEF rebind_close, shutdown_close, wait_close, Types
  <2>2. CASE rebind_close
    <3>1. msgr' \in Messenger
      <4>1. msgr.nonce + 1 \in Nat
        BY <2>1 DEF Messenger
      <4>2. ASSUME NEW n \in Nat PROVE [msgr EXCEPT !.nonce = n, !.call = "rebinding"] \in Messenger
        BY <2>1 DEF Messenger
      <4>3. QED BY <2>2, <4>1, <4>2 DEF rebind_close
    <3>2. QED BY <2>1, <3>1, ShutdownCounts
  <2>3. CASE shutdown_close
    <3>1. msgr' \in Messenger
      BY <2>1, <2>3 DEF shutdown_close, Messenger
    <3>2. QED BY <2>1, <3>1, ShutdownCounts
  <2>4. CASE wait_close
    <3>1. msgr' \in Messenger
      BY <2>1, <2>4 DEF wait_close, Messenger
    <3>2. QED BY <2>1, <3>1, ShutdownCounts
  <2>5. QED BY <1>4, <2>2, <2>3, <2>4
<1>5. ASSUME NEW a \in Addrs, get_connection(a) PROVE Types' /\ Counts'
  <2>0. UNCHANGED <<reap, msgr, leaked, ghosts>>
    BY <1>5 DEF get_connection
  <2>1. CASE Found(a) # NoConn
    <3>1. reg' = lookup_conn(a) /\ UNCHANGED <<conn, references>>
      BY <1>5, <2>1 DEF get_connection
    <3>2. QED BY <2>0, <3>1, LookupTypes, SoundConn, SoundStep DEF Types
  <2>2. CASE Found(a) = NoConn
    <3>1. PICK c \in Conns : /\ Create(c, "live", a)
                             /\ reg' = [lookup_conn(a) EXCEPT !.conns[a] = c]
      BY <1>5, <2>2 DEF get_connection
    <3>2. conn' \in [Conns -> Connection] /\ Counts'
      BY <3>1, <2>0, CreateCounts
    <3>3. reg' \in Tables
      BY <3>1, LookupTypes DEF Tables
    <3>4. QED BY <2>0, <3>2, <3>3 DEF Types
  <2>3. QED BY <2>1, <2>2
<1>6. ASSUME NEW a \in Addrs, send_message_as_server(a) PROVE Types' /\ Counts'
  BY <1>6, LookupTypes, SoundConn, SoundStep DEF Types, send_message_as_server
<1>7. ASSUME NEW a \in Addrs, mark_down_addr(a) PROVE Types' /\ Counts'
  BY <1>7, LookupTypes, SoundConn, StopCounts DEF mark_down_addr
<1>8. ASSUME NEW c \in Conns, mark_down(c) PROVE Types' /\ Counts'
  <2>1. stop(conn, reg, {c}) /\ UNCHANGED <<msgr, leaked, ghosts>> /\ reg \in Tables
    BY <1>8 DEF mark_down, Types
  <2>2. QED BY <2>1, SoundConn, StopCounts
<1>9. QED BY <1>2, <1>3, <1>4, <1>5, <1>6, <1>7, <1>8 DEF Application

\* So does fault, on each of its paths.
LEMMA FaultyCounts ==
  ASSUME Types, Counts, NEW c \in Conns, conn[c].life # "unborn", Faulty(c),
         UNCHANGED <<msgr, leaked, ghosts>>
  PROVE  Types' /\ Counts'
<1>1. CASE stop(Back(conn, c), reg, {c})
  BY <1>1, SoundConn, StopCounts DEF Types
<1>2. CASE /\ conn' = [Back(conn, c) EXCEPT ![c].life = IF @ = "closed" THEN @ ELSE "live",
                                           ![c].replacing = FALSE]
           /\ UNCHANGED <<reg, reap, references>>
  <2> DEFINE cn == Back(conn, c)
             life == IF cn[c].life = "closed" THEN cn[c].life ELSE "live"
             r == [[cn[c] EXCEPT !.life = life] EXCEPT !.replacing = FALSE]
  <2>1. Sound(cn) /\ cn[c].life = conn[c].life
    BY SoundConn DEF Back, Types, Connection
  <2>2. conn' = [cn EXCEPT ![c] = r]
    BY <1>2, <2>1 DEF Sound
  <2> HIDE DEF cn
  <2>3. cn[c] \in Connection /\ (c \in Alive <=> conn[c].life # "closed")
    BY <2>1 DEF Sound, Alive
  <2>4. life \in Lives /\ (c \in Alive <=> life \notin {"unborn", "closed"})
    BY <2>1, <2>3 DEF Lives
  <2> HIDE DEF life
  <2>5. r \in Connection /\ r.worker = cn[c].worker /\ r.life = life
    BY <2>3, <2>4 DEF Connection
  <2> HIDE DEF r
  <2>6. Sound(conn')
    BY <2>1, <2>2, <2>4, <2>5, SoundUpdate
  <2>7. QED BY <1>2, <2>6, SoundStep DEF Types
<1>3. QED BY <1>1, <1>2 DEF Faulty

\* A connection in the middle of its connect message has been told an address.
Placed ==
  \A c \in Conns : conn[c].at # "locked" => conn[c].life # "unborn" /\ conn[c].addr \in Addrs

\* The event loops.
LEMMA WorkerCounts == ASSUME Types, Counts, Placed, Worker PROVE Types' /\ Counts'
<1> USE WorkersExist
<1>1. CASE accept_again
  <2>1. get_worker \in Workers
    BY LeastWorker DEF Counts
  <2> DEFINE w == get_worker
  <2>2. w \in Workers /\ references' = [references EXCEPT ![w] = @ + 1]
        /\ leaked' = [leaked EXCEPT ![w] = @ + 1] /\ UNCHANGED <<conn, reg, reap, msgr, ghosts>>
    BY <1>1, <2>1 DEF accept_again
  <2> HIDE DEF w
  <2>3. Types'
    BY <2>2 DEF Types
  <2>4. Alive' = Alive
    BY <2>2 DEF Alive
  <2>5. ASSUME NEW v \in Workers
        PROVE  references'[v] \in Int /\ 
               references'[v] = Cardinality({c \in Alive' : conn'[c].worker = v})
                                + leaked'[v] + (IF v = LocalWorker THEN 1 ELSE 0)
    <3> DEFINE N == Cardinality({c \in Alive : conn[c].worker = v})
    <3>1. N \in Nat /\ N = Cardinality({c \in Alive' : conn'[c].worker = v})
      BY <2>2, <2>4, AliveOf
    <3>2. references[v] \in Int /\ leaked[v] \in Nat
          /\ references[v] = N + leaked[v] + (IF v = LocalWorker THEN 1 ELSE 0)
      BY DEF Counts, ReferencesExact, Types
    <3>3. /\ references'[v] = IF v = w THEN references[v] + 1 ELSE references[v]
          /\ leaked'[v] = IF v = w THEN leaked[v] + 1 ELSE leaked[v]
      BY <2>2 DEF Counts, Types
    <3>4. /\ references'[v] \in Int
          /\ references'[v] = N + leaked'[v] + (IF v = LocalWorker THEN 1 ELSE 0)
      <4> HIDE DEF N
      <4> QED BY <3>1, <3>2, <3>3
    <3>5. QED BY <3>1, <3>4
  <2>6. references' \in [Workers -> Int]
    BY <2>2, <2>5 DEF Counts
  <2>7. QED BY <2>3, <2>5, <2>6 DEF Counts, ReferencesExact
<1>2. CASE reap_dead
  <2>1. reg' \in Tables
    BY <1>2 DEF reap_dead, Types, Tables
  <2>2. QED BY <1>2, <2>1, SoundConn, SoundStep DEF reap_dead, Types
<1>3. ASSUME NEW w \in Workers, drain(w) PROVE Types' /\ Counts'
  <2>1. msgr' \in Messenger
    BY <1>3 DEF drain, Types, Messenger
  <2>2. QED BY <1>3, <2>1, SoundConn, SoundStep DEF drain, Types
<1>4. ASSUME NEW c \in Conns, add_accept(c) PROVE Types' /\ Counts'
  <2>1. conn' \in [Conns -> Connection] /\ Counts'
    BY <1>4, CreateCounts DEF add_accept
  <2>2. QED BY <1>4, <2>1 DEF add_accept, Types, Tables
<1>5. ASSUME NEW c \in Conns, stopped_meanwhile(c) \/ reply_accept(c) \/ accept_new(c)
      PROVE  Types' /\ Counts'
  <2>1. Sound(conn') /\ UNCHANGED <<reg, reap, references, msgr, leaked, ghosts>>
    BY <1>5, SoundConn DEF stopped_meanwhile, reply_accept, accept_new
  <2>2. QED BY <2>1, SoundStep DEF Types
<1>6. ASSUME NEW c \in Conns, replace_lossy(c) PROVE Types' /\ Counts'
  BY <1>6, SoundConn, StopCounts DEF replace_lossy, Types
<1>7. ASSUME NEW c \in Conns, replace(c) PROVE Types' /\ Counts'
  <2> DEFINE e == Existing(c)
             cn == [Back(conn, c) EXCEPT ![e].life = "moving", ![e].replacing = TRUE,
                                         ![e].to = conn[c].worker]
  <2>1. e \in Alive
    BY <1>7 DEF replace, Existing
  <2>2. stop(cn, reg, {c}) /\ UNCHANGED <<msgr, leaked, ghosts>>
    BY <1>7 DEF replace
  <2> HIDE DEF e
  <2> DEFINE b == Back(conn, c)
             r == [[[b[e] EXCEPT !.life = "moving"] EXCEPT !.replacing = TRUE]
                                 EXCEPT !.to = conn[c].worker]
  <2>3. Sound(b) /\ conn[c].worker \in Workers /\ e \in Conns
    BY <2>1, SoundConn DEF Types, Connection, Alive
  <2>4. Sound(cn)
    <3>1. b[e] \in Connection /\ cn = [b EXCEPT ![e] = r]
      BY <2>3 DEF Sound
    <3> HIDE DEF b
    <3>2. r \in Connection /\ r.worker = b[e].worker /\ r.life = "moving"
      BY <2>3, <3>1 DEF Connection, Lives
    <3> HIDE DEF r, cn
    <3>3. QED BY <2>1, <2>3, <3>1, <3>2, SoundUpdate
  <2> HIDE DEF cn
  <2>5. QED BY <2>2, <2>4, StopCounts DEF Types
<1>8. ASSUME NEW c \in Conns, deactivate_existing(c) PROVE Types' /\ Counts'
  <2>1. conn[c] \in Connection /\ conn[c].life = "moving"
    BY <1>8 DEF deactivate_existing, Types
  <2>2. conn' = [conn EXCEPT ![c] = [[conn[c] EXCEPT !.worker = conn[c].to] EXCEPT !.life = "moved"]]
        /\ UNCHANGED <<reg, reap, msgr, leaked, ghosts>>
    BY <1>8 DEF deactivate_existing
  <2>3. conn' \in [Conns -> Connection] /\ conn'[c].worker = conn[c].to /\ conn'[c].life = "moved"
        /\ \A d \in Conns \ {c} : conn'[d] = conn[d]
    BY <2>1, <2>2 DEF Types, Connection, Lives
  <2>4. c \in Alive /\ Alive' = Alive
    BY <2>1, <2>3 DEF Alive
  <2>5. \A d \in Alive \ {c} : conn'[d].worker = conn[d].worker
    BY <2>3 DEF Alive
  <2>6. conn[c].worker \in Workers /\ conn[c].to \in Workers
    BY <2>1 DEF Connection
  <2>7. references' = [w \in Workers |-> references[w]
                           - (IF w = conn[c].worker THEN 1 ELSE 0)
                           + (IF w = conn[c].to THEN 1 ELSE 0)]
    BY <1>8 DEF deactivate_existing
  <2>q. Counts'
    <3> DEFINE u == conn[c].worker
               v == conn[c].to
    <3>1. u \in Workers /\ v \in Workers /\ conn[c].worker = u /\ conn'[c].worker = v
          /\ references' = [w \in Workers |-> references[w] - (IF w = u THEN 1 ELSE 0)
                                                            + (IF w = v THEN 1 ELSE 0)]
      BY <2>3, <2>6, <2>7
    <3> HIDE DEF u, v
    <3>2. QED BY <1>8, <2>2, <2>4, <2>5, <3>1, CountMoved
  <2>8. QED BY <2>2, <2>3, <2>7, <2>q DEF Types
<1>9. ASSUME NEW c \in Conns, transfer_existing(c) PROVE Types' /\ Counts'
  <2> DEFINE r == [conn[c] EXCEPT !.life = "accepting"]
  <2>1. Sound(conn')
    <3>1. r \in Connection /\ r.worker = conn[c].worker /\ r.life = "accepting" /\ c \in Alive
          /\ conn' = [conn EXCEPT ![c] = r]
      BY <1>9 DEF transfer_existing, Types, Connection, Lives, Alive
    <3> HIDE DEF r
    <3>2. QED BY <3>1, SoundConn, SoundUpdate
  <2>2. QED BY <1>9, <2>1, SoundStep DEF transfer_existing, Types
<1>10. ASSUME NEW c \in Conns, register(c) PROVE Types' /\ Counts'
  <2>1. conn[c] \in Connection /\ conn[c].at = "unlocked"
    BY <1>10 DEF register, Types
  <2>2. conn[c].addr \in Addrs
    BY <2>1 DEF Placed
  <2>3. accept_conn(c, conn[c].addr) \in Tables
    BY <2>2, LookupTypes DEF accept_conn, Tables
  <2>4. Sound(conn')
    <3>1. PICK at \in Places : conn' = [conn EXCEPT ![c].at = at]
      BY <1>10 DEF register, Places
    <3> DEFINE r == [conn[c] EXCEPT !.at = at]
    <3>2. r \in Connection /\ r.worker = conn[c].worker /\ r.life = conn[c].life
          /\ conn' = [conn EXCEPT ![c] = r]
      BY <2>1, <3>1 DEF Connection
    <3>3. c \in Alive <=> conn[c].life \notin {"unborn", "closed"}
      BY DEF Alive
    <3> HIDE DEF r
    <3>4. QED BY <3>2, <3>3, SoundConn, SoundUpdate
  <2>5. reg' \in Tables /\ ghosts' \subseteq Conns
    BY <1>10, <2>3 DEF register, Types
  <2>6. UNCHANGED <<reap, references, msgr, leaked>>
    BY <1>10 DEF register
  <2>7. QED BY <2>4, <2>5, <2>6, SoundStep DEF Types
<1>11. ASSUME NEW c \in Conns, fail_registered(c) PROVE Types' /\ Counts'
  <2>1. conn[c].life # "unborn"
    BY <1>11 DEF fail_registered, Placed
  <2>2. QED BY <1>11, <2>1, FaultyCounts DEF fail_registered
<1>12. ASSUME NEW c \in Conns, accepted(c) PROVE Types' /\ Counts'
  <2>1. Sound(Back(conn, c)) /\ c \in Alive
    BY <1>12, SoundConn DEF accepted, Alive
  <2>2. Sound(conn')
    <3> DEFINE b == Back(conn, c)
               r == [[b[c] EXCEPT !.life = "live"] EXCEPT !.replacing = FALSE]
    <3>1. conn' = [b EXCEPT ![c] = r]
      BY <1>12 DEF accepted
    <3>2. r \in Connection /\ r.worker = b[c].worker /\ r.life = "live"
      BY <2>1 DEF Sound, Connection, Lives
    <3>3. Sound(b)
      BY <2>1
    <3> HIDE DEF b, r
    <3>4. QED BY <2>1, <3>1, <3>2, <3>3 DEF Sound
  <2>3. QED BY <1>12, <2>2, SoundStep DEF accepted, Types
<1>13. ASSUME NEW c \in Conns, fault(c) PROVE Types' /\ Counts'
  BY <1>13, FaultyCounts DEF fault
<1>14. ASSUME NEW c \in Conns, NEW a \in Addrs, lookup_existing(c, a) PROVE Types' /\ Counts'
  <2>1. Found(a) \in Conns \cup {NoConn} /\ reg' \in Tables
    BY <1>14, LookupTypes DEF lookup_existing
  <2> DEFINE e == Found(a)
             r == [[[conn[c] EXCEPT !.addr = a] EXCEPT !.existing = e] EXCEPT !.at = "looked"]
  <2>2. Sound(conn')
    <3>1. conn[c] \in Connection /\ conn' = [conn EXCEPT ![c] = r]
      BY <1>14 DEF lookup_existing, Types
    <3>2. e \in Conns \cup {NoConn}
      BY <2>1
    <3> HIDE DEF e
    <3>3. r \in Connection /\ r.worker = conn[c].worker /\ r.life = conn[c].life
      BY <3>1, <3>2 DEF Connection, Places
    <3>4. c \in Alive <=> conn[c].life \notin {"unborn", "closed"}
      BY DEF Alive
    <3> HIDE DEF r
    <3>5. QED BY <3>1, <3>3, <3>4, SoundConn, SoundUpdate
  <2>3. QED BY <1>14, <2>1, <2>2, SoundStep DEF lookup_existing, Types
<1>15. QED BY <1>1, <1>2, <1>3, <1>4, <1>5, <1>6, <1>7, <1>8, <1>9, <1>10, <1>11, <1>12,
              <1>13, <1>14 DEF Worker

-------------------------------------------------------------------------------
(* The messenger's own state. *)

\* shutdown and rebind listen no more once they have stopped the processor; whoever
\* waits has been started, and past the join has been shut down; an address that has
\* been used has a nonce the next one will not have.
MsgrInv ==
  /\ msgr.call # "none" => msgr.started /\ ~msgr.listening
  /\ ~msgr.started => ~msgr.listening
  /\ msgr.waiting \in {"blocked", "joined", "draining"} => msgr.started
  /\ msgr.waiting \in {"joined", "draining"} => msgr.stopped
  /\ msgr.started /\ msgr.stopped => ~msgr.did_bind /\ ~msgr.listening /\ msgr.call = "none"
  /\ msgr.waiting = "done" => ~msgr.started
  /\ msgr.undrained # {} => msgr.waiting = "draining"
  /\ \A u \in msgr.used : u[2] <= msgr.nonce /\ (msgr.call = "rebinding" => u[2] < msgr.nonce)
  /\ ~msgr.started /\ msgr.waiting = "no" /\ ~msgr.did_bind => msgr.used = {}

\* The steps that change the messenger's own state.
MsgrStep ==
  \/ start \/ ready \/ rebind \/ rebind_close \/ rebind_fails
  \/ shutdown \/ shutdown_close \/ wait \/ wait_joined \/ wait_close
  \/ \E p \in Ports : bind(p) \/ rebind_bind(p)
  \/ \E w \in Workers : drain(w)

\* No step but these changes the messenger's own state.
LEMMA MsgrSteps == ASSUME Next PROVE MsgrStep \/ msgr' = msgr
BY DEF Next, Application, Worker, MsgrStep, get_connection, send_message_as_server,
   mark_down_addr, mark_down, accept_again, reap_dead, add_accept, stopped_meanwhile,
   reply_accept, accept_new, replace_lossy, replace, deactivate_existing, transfer_existing,
   register, fail_registered, accepted, fault, lookup_existing

\* The messenger's own part of the invariant is kept by every step.
LEMMA MsgrKept == ASSUME msgr \in Messenger, MsgrInv, Next PROVE MsgrInv'
<1>1. CASE msgr' = msgr
  BY <1>1 DEF MsgrInv
<1>2. CASE start
  BY <1>2 DEF start, MsgrInv, Messenger
<1>3. CASE ready
  BY <1>3 DEF ready, start_listening, MsgrInv, Messenger
<1>4. CASE rebind
  BY <1>4 DEF rebind, Running, stop_listening, MsgrInv, Messenger
<1>5. CASE rebind_close
  BY <1>5 DEF rebind_close, MsgrInv, Messenger
<1>6. CASE rebind_fails
  BY <1>6 DEF rebind_fails, MsgrInv, Messenger
<1>7. CASE shutdown
  BY <1>7 DEF shutdown, Running, stop_listening, MsgrInv, Messenger
<1>8. CASE shutdown_close
  BY <1>8 DEF shutdown_close, MsgrInv, Messenger
<1>9. CASE wait
  BY <1>9 DEF wait, MsgrInv, Messenger
<1>10. CASE wait_joined
  BY <1>10 DEF wait_joined, MsgrInv, Messenger
<1>11. CASE wait_close
  BY <1>11 DEF wait_close, MsgrInv, Messenger
<1>12. ASSUME NEW p \in Ports, bind(p) PROVE MsgrInv'
  BY <1>12 DEF bind, finish_bind, MsgrInv, Messenger
<1>13. ASSUME NEW p \in Ports, rebind_bind(p) PROVE MsgrInv'
  BY <1>13 DEF rebind_bind, start_listening, finish_bind, MsgrInv, Messenger
<1>14. ASSUME NEW w \in Workers, drain(w) PROVE MsgrInv'
  BY <1>14 DEF drain, MsgrInv, Messenger
<1>15. QED BY <1>1, <1>2, <1>3, <1>4, <1>5, <1>6, <1>7, <1>8, <1>9, <1>10, <1>11, <1>12,
              <1>13, <1>14, MsgrSteps DEF MsgrStep
-------------------------------------------------------------------------------
(* The tables. *)

\* A connection is registered under its own address only.
Addressed ==
  \A a \in Addrs : \A c \in Conns :
    reg.conns[a] = c => conn[c].addr = a /\ conn[c].life # "unborn"

\* Only connections that have stopped unregister themselves.
Lapsed == \A c \in reg.deleted : conn[c].life = "closed"

\* accept_conn has registered it, and nobody can take its place while it is open.
InUse == \A c \in Alive : conn[c].at = "registered" => c \in Registered

\* So can nobody take the place of the connection a handler has looked up.
Looked ==
  \A c \in Conns, e \in Conns :
    conn[c].existing = e => /\ conn[e].life # "unborn"
                            /\ conn[c].at = "looked" /\ e \in Alive => e \in Registered

\* From wait_close on nothing is open: nobody listens and nobody connects.
Ended == msgr.waiting \in {"draining", "done"} => Alive = {} /\ Registered \subseteq ghosts

\* The tables' part of the invariant.
TablesInv ==
  /\ Addressed /\ Lapsed /\ Placed /\ InUse /\ Looked /\ NoStale /\ AllReachable /\ Ended

\* What a handler makes of the connections before it stops any.
Gentle(cn) ==
  \A c \in Conns :
    /\ cn[c].addr = conn[c].addr
    /\ cn[c].life = "unborn" <=> conn[c].life = "unborn"
    /\ cn[c].life = "closed" <=> conn[c].life = "closed"
    /\ c \in Alive /\ cn[c].life # "accepting" => conn[c].life # "accepting" \/ c \in Registered
    /\ cn[c].at \in {conn[c].at, "locked"} \/ (cn[c].at = "unlocked" /\ conn[c].at = "looked")
    /\ cn[c].existing \in {conn[c].existing, NoConn}

\* What it makes of the tables: entries of connections that have stopped may go.
Fewer(r) ==
  /\ \A a \in Addrs : r.conns[a] = reg.conns[a]
                      \/ (r.conns[a] = NoConn /\ reg.conns[a] \in reg.deleted)
  /\ r.deleted \subseteq reg.deleted
  /\ \A c \in reg.deleted \ r.deleted : \A a \in Addrs : r.conns[a] # c
  /\ r.accepting \subseteq reg.accepting /\ reg.accepting \ r.accepting \subseteq reg.deleted

\* Then the connections of T stop.
Stopping(cn, r, T) ==
  /\ Gentle(cn) /\ Fewer(r) /\ T \in SUBSET Alive /\ ghosts' = ghosts
  /\ \A c \in Conns : /\ conn'[c].addr = cn[c].addr /\ conn'[c].at = cn[c].at
                      /\ conn'[c].existing = cn[c].existing
                      /\ conn'[c].life = IF c \in T THEN "closed" ELSE cn[c].life
  /\ reg'.conns = r.conns /\ reg'.accepting = r.accepting /\ reg'.deleted = r.deleted \cup T
  /\ msgr'.waiting \in {"draining", "done"} => msgr.waiting \in {"draining", "done"}

\* Such a step keeps the tables' part of the invariant.
LEMMA TablesKept ==
  ASSUME Types, Types', TablesInv, NEW cn, NEW r, NEW T, Stopping(cn, r, T)
  PROVE  TablesInv'
<1> USE DEF TablesInv, Stopping
<1>0. conn' \in [Conns -> Connection] /\ reg' \in Tables
  BY DEF Types
<1>1. \A c \in Conns :
        /\ conn'[c].addr = conn[c].addr
        /\ conn'[c].life = "unborn" <=> conn[c].life = "unborn"
        /\ conn'[c].life = "closed" <=> conn[c].life = "closed" \/ c \in T
        /\ c \in Alive' <=> c \in Alive /\ c \notin T
        /\ c \in Alive' /\ conn'[c].life # "accepting"
             => conn[c].life # "accepting" \/ c \in Registered
        /\ \/ conn'[c].at \in {conn[c].at, "locked"}
           \/ conn'[c].at = "unlocked" /\ conn[c].at = "looked"
        /\ conn'[c].existing \in {conn[c].existing, NoConn}
  BY DEF Gentle, Alive
<1>2. \A a \in Addrs : reg'.conns[a] = reg.conns[a]
                       \/ (reg'.conns[a] = NoConn /\ reg.conns[a] \in reg.deleted)
  BY DEF Fewer
<1>3. NoConn \notin Conns /\ NoAddr \notin Addrs
  BY RegistryAssumption
<1>4. \A a \in Addrs : reg.conns[a] \in Conns \cup {NoConn}
  BY DEF Types, Tables
<1>5. Addressed'
  BY <1>1, <1>2, <1>3 DEF Addressed
<1>6. Lapsed'
  <2>1. \A c \in reg.deleted : c \in Conns
    BY DEF Types, Tables
  <2>2. QED BY <2>1, <1>1 DEF Lapsed, Fewer, Alive
<1>7. Placed'
  BY <1>1 DEF Placed
<1>8. \A c \in Alive' : c \in Conns /\ c \in Alive /\ c \notin reg.deleted
  BY <1>1 DEF Alive, Lapsed
<1>9. \A c \in Alive' : c \in Registered => c \in Registered'
  BY <1>2, <1>8 DEF Registered
<1>10. InUse'
  BY <1>1, <1>8, <1>9 DEF InUse
<1>11. Looked'
  BY <1>1, <1>3, <1>8, <1>9 DEF Looked
<1>12. NoStale'
  <2>1. ASSUME NEW a \in Addrs, reg'.conns[a] # NoConn
        PROVE  reg'.conns[a] \in Alive' \cup reg'.deleted \cup ghosts'
    <3>1. reg'.conns[a] = reg.conns[a] /\ reg.conns[a] \in Conns
      BY <2>1, <1>2, <1>4
    <3>2. reg.conns[a] \in Alive \cup reg.deleted \cup ghosts
      BY <3>1, <1>3 DEF NoStale
    <3>3. CASE reg.conns[a] \in Alive
      BY <3>1, <3>3, <1>1
    <3>4. CASE reg.conns[a] \in reg.deleted
      BY <3>1, <3>4 DEF Fewer
    <3>5. QED BY <3>1, <3>2, <3>3, <3>4
  <2>2. QED BY <2>1 DEF NoStale
<1>13. AllReachable'
  <2>1. ASSUME NEW c \in Alive'
        PROVE  \/ c \in reg'.accepting /\ conn'[c].life = "accepting"
               \/ conn'[c].addr # NoAddr /\ reg'.conns[conn'[c].addr] = c
    <3>1. c \in Alive /\ c \in Conns /\ c \notin reg.deleted
      BY <1>8
    <3>2. CASE conn[c].addr # NoAddr /\ reg.conns[conn[c].addr] = c
      <4>1. conn[c].addr \in Addrs
        BY <3>1, <3>2 DEF Types, Connection
      <4>2. QED BY <3>1, <3>2, <4>1, <1>1, <1>2
    <3>3. CASE c \in reg.accepting /\ conn[c].life = "accepting"
      <4>1. c \in reg'.accepting
        BY <3>1, <3>3 DEF Fewer
      <4>2. CASE conn'[c].life = "accepting"
        BY <4>1, <4>2
      <4>3. CASE conn'[c].life # "accepting"
        <5>1. PICK a \in Addrs : reg.conns[a] = c
          BY <3>1, <3>3, <4>3, <1>1 DEF Registered
        <5>2. conn[c].addr = a
          BY <3>1, <5>1 DEF Addressed
        <5>3. QED BY <3>1, <5>1, <5>2, <1>1, <1>2, <1>3
      <4>4. QED BY <4>2, <4>3
    <3>4. QED BY <3>1, <3>2, <3>3 DEF AllReachable
  <2>2. QED BY <2>1 DEF AllReachable
<1>14. Ended'
  <2>1. Registered' \subseteq Registered
    BY <1>2 DEF Registered
  <2>2. Alive' \subseteq Alive
    BY <1>8
  <2>3. QED BY <2>1, <2>2 DEF Ended
<1>15. QED BY <1>5, <1>6, <1>7, <1>10, <1>11, <1>12, <1>13, <1>14

\* conn itself, and what the handler of a connect message makes of it, is gentle.
LEMMA GentleConn ==
  ASSUME Types
  PROVE  /\ Gentle(conn)
         /\ \A c \in Conns : /\ Gentle(Back(conn, c))
                             /\ conn[c].at = "looked" => Gentle(Onward(conn, c))
<1>1. Gentle(conn)
  BY DEF Gentle
<1>2. ASSUME NEW c \in Conns, NEW at \in {"locked", "unlocked"},
             at = "locked" \/ conn[c].at = "looked"
      PROVE  Gentle([conn EXCEPT ![c].at = at, ![c].existing = NoConn])
  <2> DEFINE r == [[conn[c] EXCEPT !.at = at] EXCEPT !.existing = NoConn]
             cn == [conn EXCEPT ![c] = r]
  <2>1. conn \in [Conns -> Connection] /\ conn[c] \in Connection
    BY DEF Types
  <2>2. r.addr = conn[c].addr /\ r.life = conn[c].life /\ r.at = at /\ r.existing = NoConn
    BY <2>1 DEF Connection
  <2> HIDE DEF r
  <2>3. cn[c] = r /\ \A d \in Conns \ {c} : cn[d] = conn[d]
    BY <2>1
  <2> HIDE DEF cn
  <2>4. Gentle(cn)
    BY <1>2, <2>2, <2>3 DEF Gentle
  <2>5. QED BY <2>4 DEF cn, r
<1>3. QED BY <1>1, <1>2 DEF Back, Onward

\* lookup_conn takes nothing but entries of stopped connections out.
LEMMA FewerLookup ==
  ASSUME Types, TablesInv
  PROVE  Fewer(reg) /\ reg \in Tables
         /\ \A a \in Addrs : /\ Fewer(lookup_conn(a)) /\ lookup_conn(a) \in Tables
                             /\ lookup_conn(a).conns = [reg.conns EXCEPT ![a] = Found(a)]
                             /\ Found(a) \in Conns \cup {NoConn} /\ Found(a) \notin reg.deleted
<1>1. Fewer(reg) /\ reg \in Tables /\ NoConn \notin Conns
  BY RegistryAssumption DEF Fewer, Types
<1>2. ASSUME NEW a \in Addrs
      PROVE  /\ Fewer(lookup_conn(a)) /\ lookup_conn(a) \in Tables
             /\ lookup_conn(a).conns = [reg.conns EXCEPT ![a] = Found(a)]
             /\ Found(a) \in Conns \cup {NoConn} /\ Found(a) \notin reg.deleted
  <2>1. CASE reg.conns[a] \notin reg.deleted
    <3>1. lookup_conn(a) = reg /\ Found(a) = reg.conns[a]
      BY <2>1 DEF lookup_conn, Found
    <3>2. QED BY <1>1, <2>1, <3>1 DEF Tables
  <2>2. CASE reg.conns[a] \in reg.deleted
    <3> DEFINE c == reg.conns[a]
               r == lookup_conn(a)
    <3>1. c \in Conns /\ Found(a) = NoConn /\ NoConn \notin reg.deleted
      BY <1>1, <2>2 DEF Tables, Found
    <3>2. r \in Tables /\ r.conns = [reg.conns EXCEPT ![a] = NoConn]
          /\ r.deleted = reg.deleted \ {c} /\ r.accepting = reg.accepting
      BY <1>1, <2>2 DEF lookup_conn, Tables
    <3> HIDE DEF r
    <3>3. \A b \in Addrs : r.conns[b] = IF b = a THEN NoConn ELSE reg.conns[b]
      BY <1>1, <3>2 DEF Tables
    <3>4. \A b \in Addrs \ {a} : reg.conns[b] # c
      BY <3>1 DEF TablesInv, Addressed
    <3>5. Fewer(r)
      BY <1>1, <2>2, <3>1, <3>2, <3>3, <3>4 DEF Fewer
    <3>6. QED BY <3>1, <3>2, <3>5 DEF r
  <2>3. QED BY <2>1, <2>2
<1>3. QED BY <1>1, <1>2

\* A handler that stops some connections.
LEMMA StopTables ==
  ASSUME Types, Types', TablesInv, NEW cn, cn \in [Conns -> Connection], Gentle(cn),
         NEW r \in Tables, Fewer(r), NEW S, stop(cn, r, S), ghosts' = ghosts, msgr' = msgr
  PROVE  TablesInv'
<1> DEFINE T == Stoppable(S)
<1>1. T \in SUBSET Alive
  BY DEF Stoppable
<1>2. /\ conn' = [c \in Conns |-> IF c \in T THEN [cn[c] EXCEPT !.life = "closed"] ELSE cn[c]]
      /\ reg' = [r EXCEPT !.deleted = @ \cup T]
  BY DEF stop, Unregistered
<1> HIDE DEF T
<1>3. \A c \in Conns : /\ conn'[c].addr = cn[c].addr /\ conn'[c].at = cn[c].at
                       /\ conn'[c].existing = cn[c].existing
                       /\ conn'[c].life = IF c \in T THEN "closed" ELSE cn[c].life
  <2>1. \A c \in Conns : cn[c] \in Connection
    OBVIOUS
  <2>2. QED BY <1>2, <2>1 DEF Connection
<1>4. reg'.conns = r.conns /\ reg'.accepting = r.accepting /\ reg'.deleted = r.deleted \cup T
  BY <1>2 DEF Tables
<1>5. Stopping(cn, r, T)
  BY <1>1, <1>3, <1>4 DEF Stopping
<1>6. QED BY <1>5, TablesKept

\* A handler that stops none.
LEMMA GentleTables ==
  ASSUME Types, Types', TablesInv, Gentle(conn'), Fewer(reg'), ghosts' = ghosts,
         msgr'.waiting \in {"draining", "done"} => msgr.waiting \in {"draining", "done"}
  PROVE  TablesInv'
<1>1. Stopping(conn', reg', {})
  BY DEF Stopping
<1>2. QED BY <1>1, TablesKept

\* Every connection that is open is stopped.
LEMMA ShutdownTables ==
  ASSUME Types, Types', TablesInv, shutdown_connections, ghosts' = ghosts
  PROVE  TablesInv' /\ Alive' = {}
<1> DEFINE T == Stoppable(Registered \cup reg.accepting)
<1>1. T = Alive
  <2>1. ASSUME NEW c \in Alive PROVE c \in Registered \cup reg.accepting
    <3>1. CASE conn[c].addr # NoAddr /\ reg.conns[conn[c].addr] = c
      <4>1. conn[c].addr \in Addrs /\ c # NoConn
        BY <3>1, RegistryAssumption DEF Alive, Types, Connection
      <4>2. QED BY <3>1, <4>1 DEF Registered
    <3>2. QED BY <3>1 DEF TablesInv, AllReachable
  <2>2. QED BY <2>1 DEF Stoppable
<1>2. /\ conn' = [c \in Conns |-> IF c \in T THEN [conn[c] EXCEPT !.life = "closed"] ELSE conn[c]]
      /\ reg' = [conns |-> [a \in Addrs |-> NoConn], accepting |-> {}, deleted |-> {}]
  BY DEF shutdown_connections
<1> HIDE DEF T
<1>3. \A c \in Conns : /\ conn'[c].addr = conn[c].addr /\ conn'[c].at = conn[c].at
                       /\ conn'[c].existing = conn[c].existing
                       /\ conn'[c].life = IF c \in Alive THEN "closed" ELSE conn[c].life
  BY <1>1, <1>2 DEF Types, Connection
<1>4. Alive' = {}
  BY <1>3 DEF Alive
<1>5. reg'.deleted = {} /\ \A a \in Addrs : reg'.conns[a] = NoConn
  BY <1>2
<1>6. Addressed' /\ Lapsed' /\ InUse' /\ NoStale' /\ AllReachable' /\ Ended'
  BY <1>4, <1>5, RegistryAssumption
     DEF Addressed, Lapsed, InUse, NoStale, AllReachable, Ended, Registered
<1>7. Placed'
  BY <1>3 DEF TablesInv, Placed, Alive
<1>8. Looked'
  BY <1>3, <1>4 DEF TablesInv, Looked, Alive
<1>9. QED BY <1>4, <1>6, <1>7, <1>8 DEF TablesInv

\* What a handler is told of an address it looks up.
LEMMA LookupKept ==
  ASSUME Types, TablesInv, NEW a \in Addrs
  PROVE  LET r == lookup_conn(a)
         IN  /\ \A b \in Addrs : r.conns[b] = IF b = a THEN Found(a) ELSE reg.conns[b]
             /\ \A b \in Addrs : reg.conns[b] \in Alive => r.conns[b] = reg.conns[b]
             /\ r.accepting = reg.accepting /\ r.deleted \subseteq reg.deleted
             /\ \A b \in Addrs : r.conns[b] \in {reg.conns[b], NoConn}
             /\ \A b \in Addrs : reg.conns[b] \in reg.deleted \ r.deleted => r.conns[b] = NoConn
             /\ Found(a) \in Conns \cup {NoConn} /\ Found(a) \in {reg.conns[a], NoConn}
             /\ Found(a) \in Conns => Found(a) \notin reg.deleted
             /\ reg.conns[a] \in Alive => Found(a) = reg.conns[a]
<1> DEFINE r == lookup_conn(a)
<1>1. /\ r.conns = [reg.conns EXCEPT ![a] = Found(a)] /\ reg.conns \in [Addrs -> Conns \cup {NoConn}]
      /\ Found(a) \in Conns \cup {NoConn} /\ Found(a) \notin reg.deleted /\ Fewer(r)
  BY FewerLookup DEF Types, Tables
<1>2. \A b \in Addrs : reg.conns[b] \in Alive => reg.conns[b] \notin reg.deleted
  BY DEF TablesInv, Lapsed, Alive
<1>3. Found(a) = IF reg.conns[a] \in reg.deleted THEN NoConn ELSE reg.conns[a]
  BY DEF Found
<1>4. r.accepting = reg.accepting
  BY DEF lookup_conn, Types, Tables
<1> HIDE DEF r
<1>5. /\ \A b \in Addrs : r.conns[b] = IF b = a THEN Found(a) ELSE reg.conns[b]
      /\ \A b \in Addrs : reg.conns[b] \in Alive => r.conns[b] = reg.conns[b]
      /\ \A b \in Addrs : r.conns[b] \in {reg.conns[b], NoConn}
      /\ Found(a) \in {reg.conns[a], NoConn}
      /\ reg.conns[a] \in Alive => Found(a) = reg.conns[a]
  BY <1>1, <1>2, <1>3
<1>6. \A b \in Addrs : reg.conns[b] \in reg.deleted \ r.deleted => r.conns[b] = NoConn
  BY <1>1, <1>5 DEF Fewer
<1>7. r.deleted \subseteq reg.deleted
  BY <1>1 DEF Fewer
<1>8. QED BY <1>1, <1>4, <1>5, <1>6, <1>7 DEF r

\* A connection the application opens.
LEMMA CreateTables ==
  ASSUME Types, Types', TablesInv, NEW a \in Addrs, Found(a) = NoConn, NEW c \in Conns,
         Create(c, "live", a), reg' = [lookup_conn(a) EXCEPT !.conns[a] = c],
         ghosts' = ghosts, msgr' = msgr, Running
  PROVE  TablesInv'
<1> USE DEF TablesInv
<1> DEFINE r == lookup_conn(a)
<1>1. /\ \A b \in Addrs : reg'.conns[b] = IF b = a THEN c ELSE r.conns[b]
      /\ reg'.accepting = reg.accepting /\ reg'.deleted = r.deleted
  <2>1. r \in Tables /\ r.accepting = reg.accepting /\ reg' = [r EXCEPT !.conns[a] = c]
    BY LookupKept, FewerLookup
  <2> HIDE DEF r
  <2>2. QED BY <2>1 DEF Tables
<1>2. /\ \A b \in Addrs : r.conns[b] = IF b = a THEN NoConn ELSE reg.conns[b]
      /\ \A b \in Addrs : reg.conns[b] \in reg.deleted \ r.deleted => r.conns[b] = NoConn
      /\ r.deleted \subseteq reg.deleted /\ reg.conns[a] \notin Alive
  BY LookupKept, RegistryAssumption DEF Alive
<1> HIDE DEF r
<1>3. /\ conn[c].life = "unborn" /\ conn'[c].addr = a /\ conn'[c].life = "live"
      /\ conn'[c].at = "locked" /\ conn'[c].existing = NoConn
      /\ \A d \in Conns \ {c} : conn'[d] = conn[d]
  BY DEF Create, NewConn, Types
<1>4. Alive' = Alive \cup {c} /\ c \notin Alive
  BY <1>3 DEF Alive
<1>5. NoConn \notin Conns /\ NoAddr \notin Addrs
  BY RegistryAssumption
<1>6. Addressed'
  BY <1>1, <1>2, <1>3, <1>5 DEF Addressed
<1>7. Lapsed' /\ c \notin reg.deleted
  BY <1>1, <1>2, <1>3 DEF Lapsed, Types, Tables
<1>8. Placed'
  BY <1>3 DEF Placed
<1>9. \A d \in Alive : d \in Registered => d \in Registered'
  BY <1>1, <1>2 DEF Registered
<1>10. InUse'
  BY <1>3, <1>4, <1>9 DEF InUse, Alive
<1>11. Looked'
  BY <1>3, <1>4, <1>5, <1>9 DEF Looked
<1>12. NoStale'
  <2>1. ASSUME NEW b \in Addrs, reg'.conns[b] # NoConn
        PROVE  reg'.conns[b] \in Alive' \cup reg'.deleted \cup ghosts'
    BY <1>1, <1>2, <1>4, <2>1 DEF NoStale
  <2>2. QED BY <2>1 DEF NoStale
<1>13. AllReachable'
  <2>1. ASSUME NEW d \in Alive, conn[d].addr # NoAddr, reg.conns[conn[d].addr] = d
        PROVE  conn'[d].addr # NoAddr /\ reg'.conns[conn'[d].addr] = d
    <3>1. conn[d].addr \in Addrs /\ d # c
      BY <1>4, <2>1 DEF Types, Connection, Alive
    <3>2. QED BY <1>1, <1>2, <1>3, <2>1, <3>1 DEF Alive
  <2>2. QED BY <1>1, <1>3, <1>4, <1>5, <2>1 DEF AllReachable, Alive
<1>14. Ended'
  BY DEF Running, Ended
<1>15. QED BY <1>6, <1>7, <1>8, <1>10, <1>11, <1>12, <1>13, <1>14

\* A connection whose socket has just been accepted.
LEMMA AcceptTables ==
  ASSUME Types, Types', MsgrInv, TablesInv, NEW c \in Conns, add_accept(c)
  PROVE  TablesInv'
<1> USE DEF TablesInv
<1>1. /\ reg'.conns = reg.conns /\ reg'.accepting = reg.accepting \cup {c}
      /\ reg'.deleted = reg.deleted /\ ghosts' = ghosts /\ msgr' = msgr
  BY DEF add_accept, Types, Tables
<1>2. /\ conn[c].life = "unborn" /\ conn'[c].addr = NoAddr /\ conn'[c].life = "accepting"
      /\ conn'[c].at = "locked" /\ conn'[c].existing = NoConn
      /\ \A d \in Conns \ {c} : conn'[d] = conn[d]
  BY DEF add_accept, Create, NewConn, Types
<1>3. Alive' = Alive \cup {c} /\ c \notin Alive
  BY <1>2 DEF Alive
<1>4. NoConn \notin Conns /\ NoAddr \notin Addrs /\ Registered' = Registered
  BY <1>1, RegistryAssumption DEF Registered
<1>5. Addressed' /\ Lapsed' /\ Placed' /\ c \notin reg.deleted
  BY <1>1, <1>2, <1>4 DEF Addressed, Lapsed, Placed, Types, Tables
<1>6. InUse'
  BY <1>2, <1>3, <1>4 DEF InUse, Alive
<1>7. Looked'
  BY <1>2, <1>3, <1>4 DEF Looked
<1>8. NoStale'
  BY <1>1, <1>3 DEF NoStale
<1>9. AllReachable'
  BY <1>1, <1>2, <1>3, <1>4 DEF AllReachable, Alive
<1>10. Ended'
  BY <1>1 DEF MsgrInv, Ended, add_accept
<1>11. QED BY <1>5, <1>6, <1>7, <1>8, <1>9, <1>10

\* The peer's address is looked up, and becomes the connection's own.
LEMMA LookupTables ==
  ASSUME Types, Types', TablesInv, NEW c \in Conns, NEW a \in Addrs, lookup_existing(c, a)
  PROVE  TablesInv'
<1> USE DEF TablesInv
<1> DEFINE e == Found(a)
<1>1. /\ \A b \in Addrs : reg.conns[b] \in Alive => reg'.conns[b] = reg.conns[b]
      /\ reg'.accepting = reg.accepting /\ reg'.deleted \subseteq reg.deleted
      /\ \A b \in Addrs : reg'.conns[b] \in {reg.conns[b], NoConn}
      /\ \A b \in Addrs : reg.conns[b] \in reg.deleted \ reg'.deleted => reg'.conns[b] = NoConn
      /\ e \in Conns \cup {NoConn} /\ e \in {reg.conns[a], NoConn} /\ ghosts' = ghosts /\ msgr' = msgr
  BY LookupKept DEF lookup_existing
<1> HIDE DEF e
<1>2. /\ conn'[c].addr = a /\ conn'[c].life = "accepting" /\ conn[c].life = "accepting"
      /\ conn'[c].at = "looked" /\ conn'[c].existing = e /\ conn[c].addr \in {a, NoAddr}
      /\ \A d \in Conns \ {c} : conn'[d] = conn[d]
  BY DEF lookup_existing, Types, Connection, e
<1>3. Alive' = Alive /\ c \in Alive
  BY <1>2 DEF Alive
<1>4. NoConn \notin Conns /\ NoAddr \notin Addrs
  BY RegistryAssumption
<1>5. Addressed'
  BY <1>1, <1>2, <1>4 DEF Addressed
<1>6. Lapsed'
  BY <1>1, <1>2 DEF Lapsed, Types, Tables
<1>7. Placed'
  BY <1>2 DEF Placed
<1>8. \A d \in Alive : d \in Registered => d \in Registered'
  BY <1>1 DEF Registered
<1>9. InUse'
  BY <1>2, <1>3, <1>8 DEF InUse, Alive
<1>10. Looked'
  <2>1. ASSUME e \in Conns PROVE conn'[e].life # "unborn" /\ e \in Registered
    BY <1>1, <1>2, <1>4, <2>1 DEF Addressed, Registered
  <2>2. QED BY <1>2, <1>3, <1>4, <1>8, <2>1 DEF Looked
<1>11. NoStale'
  BY <1>1, <1>3 DEF NoStale
<1>12. AllReachable'
  <2>1. ASSUME NEW d \in Alive, conn[d].addr # NoAddr, reg.conns[conn[d].addr] = d
        PROVE  conn'[d].addr # NoAddr /\ reg'.conns[conn'[d].addr] = d
    <3>1. conn[d].addr \in Addrs /\ conn'[d].addr = conn[d].addr
      BY <1>2, <2>1 DEF Types, Connection, Alive
    <3>2. QED BY <1>1, <2>1, <3>1
  <2>2. QED BY <1>1, <1>2, <1>3, <2>1 DEF AllReachable, Alive
<1>13. Ended'
  BY <1>1, <1>3 DEF Ended
<1>14. QED BY <1>5, <1>6, <1>7, <1>9, <1>10, <1>11, <1>12, <1>13

\* accept_conn, whether or not the connection has been stopped in the meantime.
LEMMA RegisterTables ==
  ASSUME Types, Types', TablesInv, NEW c \in Conns, register(c)
  PROVE  TablesInv'
<1> USE DEF TablesInv
<1> DEFINE a == conn[c].addr
           r == lookup_conn(a)
<1>1. a \in Addrs /\ conn[c].life # "unborn" /\ conn[c].at = "unlocked"
  BY DEF register, Placed
<1>2. /\ \A b \in Addrs : r.conns[b] = IF b = a THEN Found(a) ELSE reg.conns[b]
      /\ \A b \in Addrs : reg.conns[b] \in Alive => r.conns[b] = reg.conns[b]
      /\ r.accepting = reg.accepting /\ r.deleted \subseteq reg.deleted
      /\ \A b \in Addrs : r.conns[b] \in {reg.conns[b], NoConn}
      /\ \A b \in Addrs : reg.conns[b] \in reg.deleted \ r.deleted => r.conns[b] = NoConn
      /\ reg.conns[a] \in Alive => Found(a) = reg.conns[a]
      /\ r \in Tables
  BY <1>1, LookupKept, FewerLookup
<1>3. r.conns[a] = Found(a)
  BY <1>1, <1>2
<1> DEFINE refused == Found(a) \notin {c, NoConn}
<1>4. reg' = IF refused THEN r ELSE [r EXCEPT !.conns[a] = c, !.accepting = @ \ {c}]
  BY <1>3 DEF register, accept_conn
<1>5. /\ \A d \in Conns : conn'[d].addr = conn[d].addr /\ conn'[d].life = conn[d].life
                           /\ conn'[d].existing = conn[d].existing
      /\ conn'[c].at = IF refused THEN "refused" ELSE "registered"
      /\ \A d \in Conns \ {c} : conn'[d].at = conn[d].at
      /\ ghosts \subseteq ghosts' /\ (conn[c].life = "closed" /\ ~refused => c \in ghosts')
      /\ msgr' = msgr
  BY DEF register, Types, Connection
<1> HIDE DEF r
<1>6. reg'.conns = (IF refused THEN r.conns ELSE [r.conns EXCEPT ![a] = c]) /\ reg'.deleted = r.deleted
      /\ reg'.accepting = IF refused THEN reg.accepting ELSE reg.accepting \ {c}
  BY <1>2, <1>4 DEF Tables
<1>7. \A b \in Addrs : reg'.conns[b] = IF b = a /\ ~refused THEN c ELSE r.conns[b]
  BY <1>2, <1>6 DEF Tables
<1>8. Alive' = Alive /\ (c \in Alive <=> conn[c].life # "closed")
  BY <1>1, <1>5 DEF Alive
<1>9. NoConn \notin Conns /\ NoAddr \notin Addrs
  BY RegistryAssumption
<1>10. \A b \in Addrs : reg.conns[b] \in Alive => reg'.conns[b] = reg.conns[b]
  BY <1>2, <1>7, <1>9 DEF Alive
<1> HIDE DEF a, refused
<1>11. Addressed'
  BY <1>1, <1>2, <1>5, <1>7, <1>9 DEF Addressed, a
<1>12. Lapsed'
  BY <1>2, <1>5, <1>6 DEF Lapsed, Types, Tables
<1>13. Placed'
  BY <1>1, <1>5 DEF Placed, a
<1>14. \A d \in Alive : d \in Registered => d \in Registered'
  BY <1>10 DEF Registered
<1>15. InUse'
  <2>1. ~refused => c \in Registered'
    BY <1>1, <1>7, <1>9 DEF Registered
  <2>2. QED BY <2>1, <1>5, <1>8, <1>14 DEF InUse, Alive
<1>16. Looked'
  BY <1>1, <1>5, <1>8, <1>14 DEF Looked
<1>17. NoStale'
  <2>1. ASSUME NEW b \in Addrs, reg'.conns[b] # NoConn
        PROVE  reg'.conns[b] \in Alive' \cup reg'.deleted \cup ghosts'
    BY <1>2, <1>5, <1>6, <1>7, <1>8, <2>1 DEF NoStale
  <2>2. QED BY <2>1 DEF NoStale
<1>18. AllReachable'
  <2>1. ASSUME NEW d \in Alive, conn[d].addr # NoAddr, reg.conns[conn[d].addr] = d
        PROVE  reg'.conns[conn[d].addr] = d
    <3>1. conn[d].addr \in Addrs
      BY <2>1 DEF Types, Connection, Alive
    <3>2. QED BY <1>10, <2>1, <3>1
  <2>2. ASSUME ~refused PROVE conn[c].addr # NoAddr /\ reg'.conns[conn[c].addr] = c
    BY <1>1, <1>7, <1>9, <2>2 DEF a
  <2>3. QED BY <1>5, <1>6, <1>8, <2>1, <2>2 DEF AllReachable, Alive
<1>19. Ended'
  <2>1. ASSUME NEW d \in Registered' PROVE d \in Registered \/ (d = c /\ ~refused)
    BY <1>2, <1>7, <2>1 DEF Registered
  <2>2. QED BY <1>5, <1>8, <2>1 DEF Ended
<1>20. QED BY <1>11, <1>12, <1>13, <1>15, <1>16, <1>17, <1>18, <1>19

-------------------------------------------------------------------------------
(* Every step keeps the tables. *)

\* The application and the messenger.
LEMMA ApplicationTables ==
  ASSUME Types, Types', MsgrInv, TablesInv, Application
  PROVE  TablesInv'
<1>1. ASSUME UNCHANGED <<conn, reg, ghosts>>, msgr'.waiting = msgr.waiting
             \/ msgr'.waiting \in {"blocked", "joined"}
      PROVE  TablesInv'
  BY <1>1, GentleConn, FewerLookup, GentleTables
<1>2. CASE start \/ ready \/ rebind \/ rebind_fails \/ shutdown \/ wait \/ wait_joined
  <2>1. UNCHANGED <<conn, reg, ghosts>>
    BY <1>2 DEF start, ready, rebind, rebind_fails, shutdown, stop_listening, wait, wait_joined
  <2>2. msgr'.waiting = msgr.waiting \/ msgr'.waiting \in {"blocked", "joined"}
    BY <1>2 DEF start, ready, start_listening, rebind, rebind_fails, shutdown, stop_listening,
                wait, wait_joined, Types, Messenger
  <2>3. QED BY <1>1, <2>1, <2>2
<1>3. ASSUME NEW p \in Ports, bind(p) \/ rebind_bind(p) PROVE TablesInv'
  <2>1. UNCHANGED <<conn, reg, ghosts>> /\ msgr'.waiting = msgr.waiting
    BY <1>3 DEF bind, rebind_bind, start_listening, finish_bind, Types, Messenger
  <2>2. QED BY <1>1, <2>1
<1>4. CASE rebind_close \/ shutdown_close \/ wait_close
  BY <1>4, ShutdownTables DEF rebind_close, shutdown_close, wait_close
<1>5. ASSUME NEW a \in Addrs, get_connection(a) PROVE TablesInv'
  <2>1. CASE Found(a) # NoConn
    <3>1. reg' = lookup_conn(a) /\ UNCHANGED <<conn, msgr, ghosts>>
      BY <1>5, <2>1 DEF get_connection
    <3>2. QED BY <3>1, GentleConn, FewerLookup, GentleTables
  <2>2. CASE Found(a) = NoConn
    BY <1>5, <2>2, CreateTables DEF get_connection
  <2>3. QED BY <2>1, <2>2
<1>6. ASSUME NEW a \in Addrs, send_message_as_server(a) PROVE TablesInv'
  <2>1. reg' = lookup_conn(a) /\ UNCHANGED <<conn, msgr, ghosts>>
    BY <1>6 DEF send_message_as_server
  <2>2. QED BY <2>1, GentleConn, FewerLookup, GentleTables
<1>7. ASSUME NEW a \in Addrs, mark_down_addr(a) PROVE TablesInv'
  <2>1. stop(conn, lookup_conn(a), {Found(a)} \ {NoConn}) /\ UNCHANGED <<msgr, ghosts>>
    BY <1>7 DEF mark_down_addr
  <2>2. conn \in [Conns -> Connection]
    BY DEF Types
  <2>3. QED BY <2>1, <2>2, GentleConn, FewerLookup, StopTables
<1>8. ASSUME NEW c \in Conns, mark_down(c) PROVE TablesInv'
  <2>1. stop(conn, reg, {c}) /\ UNCHANGED <<msgr, ghosts>>
    BY <1>8 DEF mark_down
  <2>2. conn \in [Conns -> Connection]
    BY DEF Types
  <2>3. QED BY <2>1, <2>2, GentleConn, FewerLookup, StopTables
<1>9. QED BY <1>2, <1>3, <1>4, <1>5, <1>6, <1>7, <1>8 DEF Application

\* One connection changes in nothing the tables tell of.
LEMMA GentleUpdate ==
  ASSUME Types, NEW cn, Gentle(cn), cn \in [Conns -> Connection], NEW c \in Conns,
         NEW r, r.addr = cn[c].addr, r.at = cn[c].at, r.existing = cn[c].existing,
         r.life = "unborn" <=> cn[c].life = "unborn", r.life = "closed" <=> cn[c].life = "closed",
         c \in Alive /\ r.life # "accepting" => conn[c].life # "accepting" \/ c \in Registered
  PROVE  Gentle([cn EXCEPT ![c] = r])
<1> DEFINE n == [cn EXCEPT ![c] = r]
<1>1. n[c] = r /\ \A d \in Conns \ {c} : n[d] = cn[d]
  OBVIOUS
<1> HIDE DEF n
<1>2. Gentle(n)
  BY <1>1 DEF Gentle
<1>3. QED BY <1>2 DEF n

\* fault, on each of its paths.
LEMMA FaultyTables ==
  ASSUME Types, Types', TablesInv, NEW c \in Conns, Faulty(c), conn[c].life # "unborn",
         UNCHANGED <<msgr, ghosts>>
  PROVE  TablesInv'
<1> DEFINE cn == Back(conn, c)
<1>1. Gentle(cn) /\ cn \in [Conns -> Connection] /\ cn[c].life = conn[c].life
  <2>1. Gentle(cn) /\ Sound(cn)
    BY GentleConn, SoundConn
  <2>2. cn[c].life = conn[c].life
    BY DEF Back, Types, Connection
  <2>3. QED BY <2>1, <2>2 DEF Sound
<1>2. Fewer(reg) /\ reg \in Tables
  BY FewerLookup
<1>3. CASE stop(cn, reg, {c})
  <2> HIDE DEF cn
  <2>1. QED BY <1>1, <1>2, <1>3, StopTables
<1>4. CASE /\ c \notin reg.accepting
           /\ conn' = [cn EXCEPT ![c].life = IF @ = "closed" THEN @ ELSE "live",
                                 ![c].replacing = FALSE]
           /\ reg' = reg
  <2> DEFINE life == IF cn[c].life = "closed" THEN cn[c].life ELSE "live"
             r == [[cn[c] EXCEPT !.life = life] EXCEPT !.replacing = FALSE]
  <2>1. conn' = [cn EXCEPT ![c] = r]
    BY <1>1, <1>4
  <2> HIDE DEF cn
  <2>2. cn[c] \in Connection
    BY <1>1
  <2>3. life \in Lives /\ life # "unborn" /\ (life = "closed" <=> cn[c].life = "closed")
    BY DEF Lives
  <2> HIDE DEF life
  <2>4. r.addr = cn[c].addr /\ r.at = cn[c].at /\ r.existing = cn[c].existing /\ r.life = life
    BY <2>2 DEF Connection
  <2> HIDE DEF r
  <2>5. c \in Alive => c \in Registered
    <3>1. ASSUME c \in Alive PROVE conn[c].addr \in Addrs /\ reg.conns[conn[c].addr] = c
      BY <1>4, <3>1 DEF TablesInv, AllReachable, Types, Connection
    <3>2. QED BY <3>1, RegistryAssumption DEF Registered
  <2>6. Gentle(conn')
    BY <1>1, <2>1, <2>3, <2>4, <2>5, GentleUpdate
  <2>7. QED BY <1>2, <1>4, <2>6, GentleTables
<1>5. QED BY <1>3, <1>4 DEF Faulty

\* The event loops.
LEMMA WorkerTables ==
  ASSUME Types, Types', MsgrInv, TablesInv, Worker
  PROVE  TablesInv'
<1>0. Fewer(reg) /\ Gentle(conn) /\ reg \in Tables /\ conn \in [Conns -> Connection]
  BY FewerLookup, GentleConn DEF Types
<1>1. CASE accept_again
  BY <1>0, <1>1, GentleTables DEF accept_again
<1>2. CASE reap_dead
  <2>1. /\ \A a \in Addrs : reg'.conns[a] = IF reg.conns[a] \in reg.deleted THEN NoConn ELSE reg.conns[a]
        /\ reg'.accepting = reg.accepting \ reg.deleted /\ reg'.deleted = {}
        /\ UNCHANGED <<conn, msgr, ghosts>>
    BY <1>0, <1>2 DEF reap_dead, Tables
  <2>2. Fewer(reg')
    BY <1>0, <2>1, RegistryAssumption DEF Fewer, Tables
  <2>3. QED BY <1>0, <2>1, <2>2, GentleTables
<1>3. ASSUME NEW w \in Workers, drain(w) PROVE TablesInv'
  BY <1>0, <1>3, GentleTables DEF drain, MsgrInv
<1>4. ASSUME NEW c \in Conns, add_accept(c) PROVE TablesInv'
  BY <1>4, AcceptTables
<1>5. ASSUME NEW c \in Conns, stopped_meanwhile(c) \/ reply_accept(c) \/ accept_new(c)
      PROVE  TablesInv'
  <2>1. Gentle(conn') /\ UNCHANGED <<reg, msgr, ghosts>>
    BY <1>5, GentleConn DEF stopped_meanwhile, reply_accept, accept_new
  <2>2. QED BY <1>0, <2>1, GentleTables
<1>6. ASSUME NEW c \in Conns, replace_lossy(c) PROVE TablesInv'
  <2>1. /\ Gentle(Onward(conn, c)) /\ Onward(conn, c) \in [Conns -> Connection]
        /\ stop(Onward(conn, c), reg, {Existing(c)}) /\ UNCHANGED <<msgr, ghosts>>
    BY <1>6, GentleConn, SoundConn DEF replace_lossy, Sound
  <2>2. QED BY <1>0, <2>1, StopTables
<1>7. ASSUME NEW c \in Conns, replace(c) PROVE TablesInv'
  <2> DEFINE e == Existing(c)
             b == Back(conn, c)
             r == [[[b[e] EXCEPT !.life = "moving"] EXCEPT !.replacing = TRUE]
                                 EXCEPT !.to = conn[c].worker]
             cn == [b EXCEPT ![e] = r]
  <2>1. e \in Alive /\ e = conn[c].existing /\ conn[c].at = "looked"
    BY <1>7 DEF replace, Existing
  <2>2. e \in Conns /\ e \in Registered
    BY <2>1 DEF TablesInv, Looked, Alive
  <2>3. stop(cn, reg, {c}) /\ UNCHANGED <<msgr, ghosts>>
    BY <1>7 DEF replace
  <2>4. Gentle(b) /\ Sound(b) /\ conn[c].worker \in Workers
    BY GentleConn, SoundConn DEF Types, Connection
  <2> HIDE DEF e, b
  <2>5. b[e] \in Connection /\ b \in [Conns -> Connection]
        /\ b[e].life \notin {"unborn", "closed"}
    BY <2>1, <2>2, <2>4 DEF Sound
  <2>6. r \in Connection /\ r.addr = b[e].addr /\ r.at = b[e].at /\ r.existing = b[e].existing
        /\ r.life = "moving"
    BY <2>4, <2>5 DEF Connection, Lives
  <2> HIDE DEF r
  <2>7. Gentle(cn)
    BY <2>2, <2>4, <2>5, <2>6, GentleUpdate
  <2>8. cn \in [Conns -> Connection]
    BY <2>5, <2>6
  <2> HIDE DEF cn
  <2>9. QED BY <1>0, <2>3, <2>7, <2>8, StopTables
<1>8. ASSUME NEW c \in Conns, deactivate_existing(c) PROVE TablesInv'
  <2> DEFINE r == [[conn[c] EXCEPT !.worker = conn[c].to] EXCEPT !.life = "moved"]
  <2>1. conn' = [conn EXCEPT ![c] = r] /\ UNCHANGED <<reg, msgr, ghosts>> /\ conn[c].life = "moving"
    BY <1>8 DEF deactivate_existing
  <2>2. r.addr = conn[c].addr /\ r.at = conn[c].at /\ r.existing = conn[c].existing
        /\ r.life = "moved"
    BY <1>0 DEF Connection
  <2> HIDE DEF r
  <2>3. Gentle(conn')
    BY <1>0, <2>1, <2>2, GentleUpdate
  <2>4. QED BY <1>0, <2>1, <2>3, GentleTables
<1>9. ASSUME NEW c \in Conns, transfer_existing(c) PROVE TablesInv'
  <2> DEFINE r == [conn[c] EXCEPT !.life = "accepting"]
  <2>1. conn' = [conn EXCEPT ![c] = r] /\ UNCHANGED <<reg, msgr, ghosts>> /\ conn[c].life = "moved"
    BY <1>9 DEF transfer_existing
  <2>2. r.addr = conn[c].addr /\ r.at = conn[c].at /\ r.existing = conn[c].existing
        /\ r.life = "accepting"
    BY <1>0 DEF Connection
  <2> HIDE DEF r
  <2>3. Gentle(conn')
    BY <1>0, <2>1, <2>2, GentleUpdate
  <2>4. QED BY <1>0, <2>1, <2>3, GentleTables
<1>10. ASSUME NEW c \in Conns, register(c) PROVE TablesInv'
  BY <1>10, RegisterTables
<1>11. ASSUME NEW c \in Conns, fail_registered(c) PROVE TablesInv'
  <2>1. conn[c].life # "unborn" /\ Faulty(c) /\ UNCHANGED <<msgr, ghosts>>
    BY <1>11 DEF fail_registered, TablesInv, Placed
  <2>2. QED BY <2>1, FaultyTables
<1>12. ASSUME NEW c \in Conns, accepted(c) PROVE TablesInv'
  <2> DEFINE b == Back(conn, c)
             r == [[b[c] EXCEPT !.life = "live"] EXCEPT !.replacing = FALSE]
  <2>1. /\ conn' = [b EXCEPT ![c] = r] /\ Gentle(b) /\ Sound(b) /\ UNCHANGED <<reg, msgr, ghosts>>
        /\ b[c].life = conn[c].life
    BY <1>12, GentleConn, SoundConn DEF accepted, Back, Types, Connection
  <2>2. conn[c].life = "accepting" /\ c \in Registered
    BY <1>12 DEF accepted, TablesInv, InUse, Alive
  <2> HIDE DEF b
  <2>3. b[c] \in Connection /\ b \in [Conns -> Connection]
    BY <2>1 DEF Sound
  <2>4. r.addr = b[c].addr /\ r.at = b[c].at /\ r.existing = b[c].existing /\ r.life = "live"
    BY <2>3 DEF Connection
  <2> HIDE DEF r
  <2>5. Gentle(conn')
    BY <2>1, <2>2, <2>3, <2>4, GentleUpdate
  <2>6. QED BY <1>0, <2>1, <2>5, GentleTables
<1>13. ASSUME NEW c \in Conns, fault(c) PROVE TablesInv'
  <2>1. conn[c].life # "unborn" /\ Faulty(c) /\ UNCHANGED <<msgr, ghosts>>
    BY <1>13 DEF fault
  <2>2. QED BY <2>1, FaultyTables
<1>14. ASSUME NEW c \in Conns, NEW a \in Addrs, lookup_existing(c, a) PROVE TablesInv'
  BY <1>14, LookupTables
<1>15. QED BY <1>1, <1>2, <1>3, <1>4, <1>5, <1>6, <1>7, <1>8, <1>9, <1>10, <1>11, <1>12,
              <1>13, <1>14 DEF Worker

-------------------------------------------------------------------------------
(* The theorems. *)

\* The inductive invariant.
IInv == Types /\ Counts /\ MsgrInv /\ TablesInv

\* The invariant holds initially: no connection has been made.
LEMMA InitIInv == Init => IInv
<1> SUFFICES ASSUME Init PROVE IInv
  OBVIOUS
<1> USE WorkersExist, RegistryAssumption
<1>1. \A c \in Conns : /\ conn[c].life = "unborn" /\ conn[c].at = "locked"
                       /\ conn[c].existing = NoConn
  BY DEF Init, NewConn
<1>2. Alive = {} /\ Registered = {}
  <2>1. \A a \in Addrs : reg.conns[a] = NoConn
    BY DEF Init
  <2>2. QED BY <1>1, <2>1 DEF Alive, Registered
<1>3. Types
  <2>1. NewConn("unborn", NoAddr, LocalWorker) \in Connection
    BY DEF NewConn, Connection, Lives, Places
  <2>2. conn \in [Conns -> Connection]
    BY <2>1 DEF Init
  <2>3. QED BY <2>2 DEF Init, Types, Tables, Messenger
<1>4. Counts
  <2>1. ASSUME NEW w PROVE Cardinality({c \in Alive : conn[c].worker = w}) = 0
    <3>1. {c \in Alive : conn[c].worker = w} = {}
      BY <1>2
    <3>2. QED BY <3>1, FS_EmptySet
  <2>2. \A w \in Workers : /\ references[w] = (IF w = LocalWorker THEN 1 ELSE 0)
                           /\ references[w] \in Int /\ leaked[w] = 0
    BY DEF Init
  <2>3. references \in [Workers -> Int]
    BY DEF Init
  <2>4. ASSUME NEW w \in Workers
        PROVE  references[w] = Cardinality({c \in Alive : conn[c].worker = w}) + leaked[w]
                               + (IF w = LocalWorker THEN 1 ELSE 0)
    <3> DEFINE N == Cardinality({c \in Alive : conn[c].worker = w})
    <3>1. N = 0
      BY <2>1
    <3> HIDE DEF N
    <3>2. references[w] = N + leaked[w] + (IF w = LocalWorker THEN 1 ELSE 0)
      BY <2>2, <3>1
    <3>3. QED BY <3>2 DEF N
  <2>5. QED BY <2>3, <2>4 DEF Counts, ReferencesExact
<1>5. MsgrInv
  BY DEF Init, MsgrInv
<1>6. TablesInv
  BY <1>1, <1>2 DEF Init, TablesInv, Addressed, Lapsed, Placed, InUse, Looked, NoStale,
                    AllReachable, Ended
<1>7. QED BY <1>3, <1>4, <1>5, <1>6 DEF IInv

\* Every step keeps the invariant.
LEMMA StepIInv == IInv /\ [Next]_vars => IInv'
<1> SUFFICES ASSUME IInv, [Next]_vars PROVE IInv'
  OBVIOUS
<1> USE DEF IInv
<1>1. CASE Next
  <2>1. Types' /\ Counts'
    BY <1>1, ApplicationCounts, WorkerCounts DEF Next, TablesInv
  <2>2. MsgrInv'
    BY <1>1, MsgrKept DEF Types
  <2>3. TablesInv'
    BY <1>1, <2>1, ApplicationTables, WorkerTables DEF Next
  <2>4. QED BY <2>1, <2>2, <2>3
<1>2. CASE UNCHANGED vars
  BY <1>2 DEF vars, Types, Counts, ReferencesExact, MsgrInv, TablesInv, Addressed, Lapsed, Placed,
              InUse, Looked, NoStale, AllReachable, Ended, Alive, Registered
<1>3. QED BY <1>1, <1>2

\* The invariant holds throughout.
LEMMA Inductive == Spec => []IInv
BY InitIInv, StepIInv, PTL DEF Spec

\* The state keeps its types: a worker's references are never negative, whatever is
\* stopped, moved and leaked in whatever order (release_worker asserts it).
THEOREM TypeCorrect == Spec => []TypeOK
<1>1. IInv => TypeOK
  BY TypeOKSplit, CountsNat DEF IInv
<1>2. QED BY Inductive, <1>1, PTL

\* Each worker counts its open connections, the loopback connection and what its
\* accept loops have leaked, for any number of connections, peers and workers.
THEOREM ReferencesAreExact == Spec => []ReferencesExact
<1>1. IInv => ReferencesExact
  BY DEF IInv, Counts
<1>2. QED BY Inductive, <1>1, PTL

\* conns holds open connections, those that unregistered themselves, and those that
\* accept_conn registered after they had been stopped; no lookup returns any other.
THEOREM NoneIsStale == Spec => []NoStale
<1>1. IInv => NoStale
  BY DEF IInv, TablesInv
<1>2. QED BY Inductive, <1>1, PTL

\* shutdown_connections finds every open connection, because every one is in one of
\* the two tables at each of its stops.
THEOREM OpenOnesAreReachable == Spec => []AllReachable
<1>1. IInv => AllReachable
  BY DEF IInv, TablesInv
<1>2. QED BY Inductive, <1>1, PTL

\* When wait returns no connection is open, although wait does not hold the lock
\* while the event loops go on accepting, replacing and failing until it drains them.
THEOREM WaitClosesThemAll == Spec => []WaitClosesAll
<1>1. IInv => WaitClosesAll
  BY DEF IInv, TablesInv, Ended, WaitClosesAll
<1>2. QED BY Inductive, <1>1, PTL

\* bind and rebind never give out an address a second time: the nonce has grown since
\* every earlier one, even when the port is the same.
THEOREM AddressIsFresh == Spec => AddressFresh
<1>1. ASSUME IInv, Next, msgr.bound = 0, msgr'.bound # 0
      PROVE  <<msgr'.port, msgr'.told>> \notin msgr.used /\ msgr'.port = msgr'.bound
  <2>1. PICK p \in Ports : bind(p) \/ rebind_bind(p)
    <3>1. MsgrStep
      BY <1>1, MsgrSteps
    <3>2. QED BY <1>1, <3>1
            DEF MsgrStep, IInv, Types, Messenger, start, ready, start_listening, rebind,
                rebind_close, rebind_fails, shutdown, shutdown_close, stop_listening, wait,
                wait_joined, wait_close, drain
  <2>2. /\ msgr'.port = p /\ msgr'.bound = p /\ msgr'.told = msgr.nonce /\ msgr.nonce \in Nat
        /\ \A u \in msgr.used : u[2] \in Nat
    <3>1. msgr \in Messenger
      BY <1>1 DEF IInv, Types
    <3>2. msgr.nonce \in Nat /\ \A u \in msgr.used : u[2] \in Nat
      BY <3>1 DEF Messenger
    <3>3. CASE bind(p)
      BY <3>1, <3>3 DEF Messenger, bind, finish_bind
    <3>4. CASE rebind_bind(p)
      BY <3>1, <3>4 DEF Messenger, rebind_bind, finish_bind, start_listening
    <3>5. QED BY <2>1, <3>2, <3>3, <3>4
  <2>3. \A u \in msgr.used : u[2] # msgr.nonce
    <3>1. CASE bind(p)
      BY <1>1, <3>1 DEF IInv, MsgrInv, bind
    <3>2. CASE rebind_bind(p)
      BY <1>1, <2>2, <3>2 DEF IInv, MsgrInv, rebind_bind
    <3>3. QED BY <2>1, <3>1, <3>2
  <2>4. QED BY <2>2, <2>3
<1>2. IInv /\ [Next]_vars
        => [msgr.bound = 0 /\ msgr'.bound # 0
              => <<msgr'.port, msgr'.told>> \notin msgr.used /\ msgr'.port = msgr'.bound]_vars
  BY <1>1 DEF vars
<1>3. QED BY <1>2, Inductive, PTL DEF Spec, AddressFresh
=============================================================================
