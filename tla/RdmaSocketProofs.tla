--------------------------- MODULE RdmaSocketProofs ---------------------------
(***************************************************************************)
(* The send chunks of the RDMA transport are conserved, a socket that is   *)
(* short of them is known to its worker and the worker to the dispatcher,  *)
(* a worker is forgotten in one window only, and nothing is posted before  *)
(* the queue pair is ready: for any workers, sockets and chunks.           *)
(*                                                                         *)
(* The invariant says what each worker's thread and list imply about its   *)
(* sockets, and who still has to wake the workers that wait: a chunk in    *)
(* flight, the dispatcher, or a worker that was notified (Responsible).    *)
(***************************************************************************)
EXTENDS RdmaSocket, FiniteSetTheorems, SequenceTheorems, TLAPS

-------------------------------------------------------------------------------
(* The inductive invariant. *)

TypeInv ==
  /\ sock \in [Sockets -> Socket] /\ thread \in [Workers -> Thread]
  /\ tx_event \in [Workers -> Nat] /\ free_chunks \in Nat
  /\ pending_sent_conns \in [Workers -> Seq(Sockets)] /\ pending_workers \in Seq(Workers)
  /\ sq \in [Sockets -> Nat] /\ tx_cq \in [Sockets -> Nat]
  /\ tx_error \in [Sockets -> BOOLEAN] /\ dispatcher \in {"poll", "notify"}
  /\ refused \in Nat /\ lost \in Nat /\ missed \in BOOLEAN

Busy(w) == thread[w].at \in {"submit", "return"}
\* The submit under way was called for a socket taken out of the list.
Retry(w) == Busy(w) /\ thread[w].caller = "handle_pending_message"
\* The worker is to be notified, or has been.
Known(w) == Contains(pending_workers, w) \/ tx_event[w] > 0
Sendable(s) == sock[s].ready \/ sock[s].hung_up
Short(s) == Open(s) /\ sock[s].connected /\ ~sock[s].error /\ sock[s].pending_bl > 0
Once(q) == \A i, j \in DOMAIN q : q[i] = q[j] => i = j

ThreadInv(w) ==
  LET t == thread[w]  o == sock[t.s] IN
  /\ ~Busy(w) => t.s = "none"
  /\ Busy(w) => t.s \in Sockets /\ Owner[t.s] = w /\ Open(t.s)
  /\ t.at # "submit" => t.got = 0
  /\ t.at = "submit" => t.got <= o.pending_bl /\ Sendable(t.s)
  /\ Retry(w) => o.pending /\ Sendable(t.s)
  /\ t.at = "return" /\ t.r = "EAGAIN" => Known(w)
  /\ t.at = "return" /\ o.pending_bl > 0 /\ ~o.error => t.r # "ok" /\ o.pending

ListInv(w) ==
  LET q == pending_sent_conns[w] IN
  /\ Once(q)
  /\ \A s \in Sockets : Contains(q, s) =>
       /\ Owner[s] = w /\ Open(s) /\ sock[s].pending /\ Sendable(s)
       /\ ~(Retry(w) /\ thread[w].s = s)
  /\ q # <<>> => Known(w) \/ thread[w].at = "pending" \/ Retry(w)

SocketInv(s) ==
  LET o == sock[s]  w == Owner[s] IN
  /\ o.pending_bl <= o.data
  /\ o.connected /\ ~o.error => Sendable(s)
  /\ o.peer_msg = "syn" => o.ready
  /\ o.life = "none" => ~o.connected /\ ~o.pending
  /\ Open(s) /\ o.pending =>
       Contains(pending_sent_conns[w], s) \/ (Retry(w) /\ thread[w].s = s)
  /\ Short(s) /\ thread[w].s # s => o.pending

\* The worker notifies others when it is through with its list, or posts chunks.
Active(w) ==
  \/ tx_event[w] > 0 \/ thread[w].at = "pending"
  \/ thread[w].at = "submit" /\ thread[w].got > 0
  \/ thread[w].at = "return" /\ Retry(w) /\ thread[w].r # "EAGAIN"
Waiting ==
  \/ pending_workers # <<>>
  \/ \E w \in Workers : thread[w].at = "submit" /\ thread[w].got = 0
Responsible ==
  \/ missed \/ lost > 0 \/ refused > 0
  \/ dispatcher = "notify" \/ Polled > 0 \/ \E s \in Sockets : sq[s] > 0
  \/ \E w \in Workers : Active(w)

WaitInv == Waiting => Responsible

IInv ==
  /\ TypeInv
  /\ \A w \in Workers : ThreadInv(w) /\ ListInv(w)
  /\ \A s \in Sockets : SocketInv(s)
  /\ ChunksConserved
  /\ WaitInv
  /\ PostedWhenReady

-------------------------------------------------------------------------------
(* Lists. *)

LEMMA ContainsType ==
  ASSUME NEW S, NEW q \in Seq(S), NEW x
  PROVE  /\ Contains(q, x) <=> \E i \in DOMAIN q : q[i] = x
         /\ Contains(q, x) => x \in S /\ q # <<>>
         /\ Contains(q, x) \in BOOLEAN
<1>1. DOMAIN q = 1 .. Len(q) /\ \A i \in DOMAIN q : q[i] \in S
  OBVIOUS
<1>2. QED BY <1>1 DEF Contains

LEMMA AppendProps ==
  ASSUME NEW S, NEW q \in Seq(S), NEW x \in S
  PROVE  /\ Append(q, x) \in Seq(S) /\ Append(q, x) # <<>>
         /\ \A y : Contains(Append(q, x), y) <=> Contains(q, y) \/ y = x
         /\ Once(q) /\ ~Contains(q, x) => Once(Append(q, x))
<1>1. /\ Append(q, x) \in Seq(S) /\ Len(Append(q, x)) = Len(q) + 1 /\ Len(q) \in Nat
      /\ \A i \in 1 .. Len(q) : Append(q, x)[i] = q[i]
      /\ Append(q, x)[Len(q) + 1] = x
  OBVIOUS
<1>2. Append(q, x) # <<>>
  BY <1>1
<1>3. DOMAIN q = 1 .. Len(q) /\ DOMAIN Append(q, x) = 1 .. (Len(q) + 1)
  BY <1>1
<1> DEFINE r == Append(q, x)
<1>4. ASSUME NEW y PROVE Contains(r, y) <=> Contains(q, y) \/ y = x
  <2>1. Len(r) = Len(q) + 1 /\ Len(q) \in Nat /\ r[Len(q) + 1] = x
        /\ \A i \in 1 .. Len(q) : r[i] = q[i]
    BY <1>1
  <2> HIDE DEF r
  <2>2. QED BY <2>1 DEF Contains
<1>5. ASSUME Once(q), ~Contains(q, x) PROVE Once(r)
  <2>1. /\ DOMAIN r = 1 .. (Len(q) + 1) /\ DOMAIN q = 1 .. Len(q) /\ Len(q) \in Nat
        /\ r[Len(q) + 1] = x /\ \A i \in 1 .. Len(q) : r[i] = q[i]
    BY <1>1, <1>3
  <2>2. \A i \in 1 .. Len(q) : q[i] # x
    BY <1>5 DEF Contains
  <2> HIDE DEF r
  <2>3. QED BY <1>5, <2>1, <2>2 DEF Once
<1>6. QED BY <1>1, <1>2, <1>4, <1>5

LEMMA TailProps ==
  ASSUME NEW S, NEW q \in Seq(S), q # <<>>
  PROVE  /\ Head(q) \in S /\ Contains(q, Head(q)) /\ Tail(q) \in Seq(S)
         /\ \A y : Contains(q, y) <=> Contains(Tail(q), y) \/ y = Head(q)
         /\ Once(q) => Once(Tail(q)) /\ ~Contains(Tail(q), Head(q))
<1> DEFINE r == Tail(q)
<1>1. /\ r \in Seq(S) /\ Len(q) \in Nat \ {0} /\ Len(r) = Len(q) - 1
      /\ Head(q) = q[1] /\ q[1] \in S
      /\ \A i \in 1 .. Len(r) : r[i] = q[i + 1]
      /\ DOMAIN q = 1 .. Len(q) /\ DOMAIN r = 1 .. Len(r)
  OBVIOUS
<1> HIDE DEF r
<1>2. ASSUME NEW y PROVE Contains(q, y) <=> Contains(r, y) \/ y = q[1]
  <2>1. CASE Contains(q, y)
    <3>1. PICK i \in 1 .. Len(q) : q[i] = y
      BY <2>1 DEF Contains
    <3>2. CASE i = 1
      BY <2>1, <3>1, <3>2
    <3>3. CASE i # 1
      <4>1. i - 1 \in 1 .. Len(r) /\ r[i - 1] = y
        BY <1>1, <3>1, <3>3
      <4>2. QED BY <2>1, <4>1 DEF Contains
    <3>4. QED BY <2>1, <3>2, <3>3
  <2>2. CASE Contains(r, y)
    <3>1. PICK i \in 1 .. Len(r) : r[i] = y
      BY <2>2 DEF Contains
    <3>2. i + 1 \in 1 .. Len(q) /\ q[i + 1] = y
      BY <1>1, <3>1
    <3>3. QED BY <2>2, <3>2 DEF Contains
  <2>3. CASE y = q[1]
    BY <1>1, <2>3 DEF Contains
  <2>4. QED BY <2>1, <2>2, <2>3
<1>3. ASSUME Once(q) PROVE Once(r)
  <2>1. ASSUME NEW i \in DOMAIN r, NEW j \in DOMAIN r, r[i] = r[j] PROVE i = j
    <3>1. i + 1 \in DOMAIN q /\ j + 1 \in DOMAIN q /\ q[i + 1] = q[j + 1]
      BY <1>1, <2>1
    <3>2. i + 1 = j + 1
      BY <1>3, <3>1 DEF Once
    <3>3. QED BY <1>1, <3>2
  <2>2. QED BY <2>1 DEF Once
<1>4. ASSUME Once(q) PROVE ~Contains(r, q[1])
  <2>1. ASSUME NEW i \in 1 .. Len(r), r[i] = q[1] PROVE FALSE
    <3>1. i + 1 \in DOMAIN q /\ 1 \in DOMAIN q /\ q[i + 1] = q[1]
      BY <1>1, <2>1
    <3>2. i + 1 = 1
      BY <1>4, <3>1 DEF Once
    <3>3. QED BY <1>1, <3>2
  <2>2. QED BY <2>1 DEF Contains
<1>5. Contains(q, q[1])
  BY <1>1 DEF Contains
<1>6. QED BY <1>1, <1>2, <1>3, <1>4, <1>5 DEF r

LEMMA RemoveProps ==
  ASSUME NEW S, NEW q \in Seq(S), Once(q), NEW x
  PROVE  LET r == remove_pending_conn(q, x) IN
         /\ r \in Seq(S) /\ Once(r) /\ ~Contains(r, x)
         /\ \A y : y # x => (Contains(r, y) <=> Contains(q, y))
         /\ r # <<>> => q # <<>>
<1> DEFINE r == remove_pending_conn(q, x)
<1>1. CASE ~Contains(q, x)
  <2>1. r = q
    BY <1>1 DEF remove_pending_conn
  <2>2. QED BY <1>1, <2>1
<1>2. CASE Contains(q, x)
  <2> DEFINE n == CHOOSE i \in DOMAIN q : q[i] = x
  <2>0. DOMAIN q = 1 .. Len(q) /\ Len(q) \in Nat
    OBVIOUS
  <2>1. n \in 1 .. Len(q) /\ q[n] = x
    <3>1. \E i \in DOMAIN q : q[i] = x
      BY <1>2, <2>0 DEF Contains
    <3>2. QED BY <2>0, <3>1
  <2>2. r = SubSeq(q, 1, n - 1) \o SubSeq(q, n + 1, Len(q))
    BY <1>2 DEF remove_pending_conn, RemoveAt
  <2> HIDE DEF n
  <2> DEFINE a == SubSeq(q, 1, n - 1)  b == SubSeq(q, n + 1, Len(q))
  <2>3. /\ a \in Seq(S) /\ Len(a) = n - 1 /\ \A i \in 1 .. (n - 1) : a[i] = q[i]
        /\ b \in Seq(S) /\ Len(b) = Len(q) - n
        /\ \A i \in 1 .. (Len(q) - n) : b[i] = q[n + i]
    <3>1. a \in Seq(S) /\ Len(a) = n - 1 /\ \A i \in 1 .. (n - 1) : a[i] = q[i]
      BY <2>0, <2>1
    <3>2. b \in Seq(S) /\ Len(b) = Len(q) - n
      <4>1. n + 1 \in Int /\ Len(q) \in Int /\ \A i \in n + 1 .. Len(q) : q[i] \in S
        BY <2>0, <2>1
      <4>2. b \in Seq(S) /\ Len(b) = IF n + 1 <= Len(q) THEN Len(q) - (n + 1) + 1 ELSE 0
        BY <4>1, SubSeqProperties
      <4> HIDE DEF b
      <4> DEFINE l == Len(q)  k == Len(b)
      <4>3. n \in Int /\ l \in Int /\ 1 <= n /\ n <= l /\ k = IF n + 1 <= l THEN l - (n + 1) + 1 ELSE 0
        <5>1. n \in Int /\ l \in Int
          BY <2>0, <2>1
        <5>2. 1 <= n /\ n <= l
          BY <2>0, <2>1
        <5>3. k = IF n + 1 <= l THEN l - (n + 1) + 1 ELSE 0
          BY <4>2
        <5>4. QED BY <5>1, <5>2, <5>3
      <4> HIDE DEF l, k
      <4>4. k = l - n
        BY <4>3
      <4>5. QED BY <4>2, <4>4 DEF l, k
    <3>3. \A i \in 1 .. (Len(q) - n) : b[i] = q[n + i]
      BY <2>0, <2>1
    <3>4. QED BY <3>1, <3>2, <3>3
  <2> HIDE DEF a, b, r
  <2>4. r = a \o b
    BY <2>2 DEF a, b
  <2>5. /\ r \in Seq(S) /\ Len(r) = Len(q) - 1 /\ DOMAIN r = 1 .. (Len(q) - 1)
        /\ \A i \in 1 .. (Len(q) - 1) : r[i] = IF i < n THEN q[i] ELSE q[i + 1]
    <3>1. /\ r \in Seq(S) /\ Len(r) = Len(a) + Len(b) /\ DOMAIN r = 1 .. Len(r)
          /\ \A i \in 1 .. Len(r) : r[i] = IF i <= Len(a) THEN a[i] ELSE b[i - Len(a)]
      <4>1. /\ r \in Seq(S) /\ Len(r) = Len(a) + Len(b)
            /\ \A i \in 1 .. Len(a) + Len(b) : r[i] = IF i <= Len(a) THEN a[i] ELSE b[i - Len(a)]
        BY <2>3, <2>4, ConcatProperties
      <4>2. DOMAIN r = 1 .. Len(r)
        BY <4>1
      <4>3. QED BY <4>1, <4>2
    <3>2. Len(r) = Len(q) - 1
      BY <2>0, <2>1, <2>3, <3>1
    <3>3. ASSUME NEW i \in 1 .. (Len(q) - 1) PROVE r[i] = IF i < n THEN q[i] ELSE q[i + 1]
      <4>1. CASE i < n
        <5>1. i \in 1 .. (n - 1) /\ i <= Len(a) /\ i \in 1 .. Len(r)
          BY <2>0, <2>1, <2>3, <3>2, <4>1
        <5>2. QED BY <2>3, <3>1, <4>1, <5>1
      <4>2. CASE ~ (i < n)
        <5>1. i - (n - 1) \in 1 .. (Len(q) - n) /\ n + (i - (n - 1)) = i + 1
          BY <2>0, <2>1, <4>2
        <5>2. r[i] = b[i - (n - 1)]
          BY <2>0, <2>1, <2>3, <3>1, <3>2, <4>2
        <5>3. QED BY <2>3, <4>2, <5>1, <5>2
      <4>3. QED BY <4>1, <4>2
    <3>4. QED BY <3>1, <3>2, <3>3
  <2>6. ASSUME NEW i \in 1 .. Len(q), NEW j \in 1 .. Len(q), q[i] = q[j] PROVE i = j
    BY <2>0, <2>6 DEF Once
  <2>7. Once(r)
    <3>1. ASSUME NEW i \in DOMAIN r, NEW j \in DOMAIN r, r[i] = r[j] PROVE i = j
      <4>1. PICK k \in 1 .. Len(q) : r[i] = q[k] /\ k = IF i < n THEN i ELSE i + 1
        BY <2>0, <2>1, <2>5
      <4>2. PICK l \in 1 .. Len(q) : r[j] = q[l] /\ l = IF j < n THEN j ELSE j + 1
        BY <2>0, <2>1, <2>5
      <4>3. k = l
        BY <2>6, <3>1, <4>1, <4>2
      <4>4. QED BY <2>0, <2>1, <2>5, <4>1, <4>2, <4>3
    <3>2. QED BY <3>1 DEF Once
  <2>8. ~Contains(r, x)
    <3>1. ASSUME NEW i \in 1 .. Len(r), r[i] = x PROVE FALSE
      <4>1. PICK k \in 1 .. Len(q) : r[i] = q[k] /\ k = IF i < n THEN i ELSE i + 1
        BY <2>0, <2>1, <2>5
      <4>2. k = n
        BY <2>1, <2>6, <3>1, <4>1
      <4>3. QED BY <2>0, <2>1, <4>1, <4>2
    <3>2. QED BY <3>1 DEF Contains
  <2>9. ASSUME NEW y, y # x PROVE Contains(r, y) <=> Contains(q, y)
    <3>1. ASSUME NEW i \in 1 .. Len(r), r[i] = y PROVE Contains(q, y)
      <4>1. PICK k \in 1 .. Len(q) : r[i] = q[k]
        BY <2>0, <2>1, <2>5
      <4>2. QED BY <3>1, <4>1 DEF Contains
    <3>2. ASSUME NEW i \in 1 .. Len(q), q[i] = y PROVE Contains(r, y)
      <4>1. i # n
        BY <2>1, <2>9, <3>2
      <4>2. PICK k \in 1 .. Len(r) : r[k] = q[i]
        <5>1. CASE i < n
          <6>1. i \in 1 .. Len(r) /\ r[i] = q[i]
            BY <2>0, <2>1, <2>5, <5>1
          <6>2. QED BY <6>1
        <5>2. CASE i > n
          <6>1. i - 1 \in 1 .. Len(r) /\ r[i - 1] = q[i]
            BY <2>0, <2>1, <2>5, <5>2
          <6>2. QED BY <6>1
        <5>3. QED BY <2>1, <4>1, <5>1, <5>2
      <4>3. QED BY <3>2, <4>2 DEF Contains
    <3>3. QED BY <3>1, <3>2 DEF Contains
  <2>10. q # <<>>
    BY <2>1, <2>0
  <2>11. QED BY <2>5, <2>7, <2>8, <2>9, <2>10 DEF r
<1>3. QED BY <1>1, <1>2

-------------------------------------------------------------------------------
(* Total. *)

LEMMA TotalSplit ==
  ASSUME NEW S, IsFiniteSet(S), NEW f \in [S -> Nat], NEW D \in SUBSET S
  PROVE  LET T == Total([x \in D |-> f[x]])  U == Total([x \in S \ D |-> f[x]]) IN
         Total(f) \in Nat /\ T \in Nat /\ U \in Nat /\ Total(f) = T + U
<1> DEFINE B(x) == {x} \X (1 .. f[x])
           T == UNION {B(x) : x \in D}  U == UNION {B(x) : x \in S \ D}
           V == UNION {B(x) : x \in S}
<1>1. ASSUME NEW R \in SUBSET S PROVE IsFiniteSet(UNION {B(x) : x \in R})
  <2>1. IsFiniteSet(R)
    BY FS_Subset
  <2>2. IsFiniteSet({B(x) : x \in R})
    <3> DEFINE b == [x \in R |-> B(x)]
    <3>1. b \in Surjection(R, {B(x) : x \in R})
      <4> HIDE DEF B
      <4>1. QED BY DEF Surjection
    <3>2. QED BY <2>1, <3>1, FS_Surjection
  <2>3. ASSUME NEW x \in R PROVE IsFiniteSet(B(x))
    <3>1. f[x] \in Int /\ 1 \in Int
      OBVIOUS
    <3>2. IsFiniteSet(1 .. f[x])
      BY <3>1, FS_Interval
    <3>3. IsFiniteSet({x})
      BY FS_Singleton
    <3>4. QED BY <3>2, <3>3, FS_Product
  <2> HIDE DEF B
  <2>4. \A A \in {B(x) : x \in R} : IsFiniteSet(A)
    BY <2>3
  <2>5. QED BY <2>2, <2>4, FS_UNION
<1>2. T \cap U = {}
  <2>1. \A x, y \in S : x # y => B(x) \cap B(y) = {}
    OBVIOUS
  <2> HIDE DEF B
  <2>2. QED BY <2>1
<1>3. IsFiniteSet(T) /\ IsFiniteSet(U)
  BY <1>1
<1>4. V = T \cup U
  <2> HIDE DEF B
  <2>1. QED OBVIOUS
<1>5. Total(f) = Cardinality(V)
  BY DEF Total
<1>6. Total([x \in D |-> f[x]]) = Cardinality(T)
  <2>1. DOMAIN [x \in D |-> f[x]] = D /\ \A x \in D : [y \in D |-> f[y]][x] = f[x]
    OBVIOUS
  <2>2. QED BY <2>1 DEF Total
<1>7. Total([x \in S \ D |-> f[x]]) = Cardinality(U)
  <2>1. /\ DOMAIN [x \in S \ D |-> f[x]] = S \ D
        /\ \A x \in S \ D : [y \in S \ D |-> f[y]][x] = f[x]
    OBVIOUS
  <2>2. QED BY <2>1 DEF Total
<1> HIDE DEF T, U, V
<1>8. /\ Cardinality(T) \in Nat /\ Cardinality(U) \in Nat
      /\ Cardinality(T \cup U) = Cardinality(T) + Cardinality(U)
  <2>1. /\ Cardinality(T) \in Nat /\ Cardinality(U) \in Nat
        /\ Cardinality(T \cup U) = Cardinality(T) + Cardinality(U) - Cardinality(T \cap U)
    BY <1>3, FS_CardinalityType, FS_Union
  <2>2. Cardinality(T \cap U) = 0
    BY <1>2, FS_EmptySet
  <2>3. QED BY <2>1, <2>2
<1>9. QED BY <1>4, <1>5, <1>6, <1>7, <1>8

LEMMA TotalZero ==
  ASSUME NEW S, NEW f \in [S -> Nat], \A x \in S : f[x] = 0
  PROVE  Total(f) = 0
<1>1. UNION {{x} \X (1 .. f[x]) : x \in DOMAIN f} = {}
  <2>1. \A x \in S : {x} \X (1 .. f[x]) = {}
    OBVIOUS
  <2>2. QED BY <2>1
<1>2. QED BY <1>1, FS_EmptySet DEF Total

LEMMA TotalOne ==
  ASSUME NEW x, NEW n \in Nat PROVE Total([y \in {x} |-> n]) = n
<1> DEFINE A == {x} \X (1 .. n)
<1>1. Total([y \in {x} |-> n]) = Cardinality(A)
  <2>1. UNION {{z} \X (1 .. [y \in {x} |-> n][z]) : z \in {x}} = A
    OBVIOUS
  <2>2. QED BY <2>1 DEF Total
<1>2. 0 \in Int /\ 1 \in Int /\ n \in Int
  OBVIOUS
<1>3. IsFiniteSet({x}) /\ Cardinality({x}) = 1 /\ IsFiniteSet(1 .. n) /\ Cardinality(1 .. n) = n
  <2>1. Cardinality(1 .. n) = IF 1 > n THEN 0 ELSE n - 1 + 1
    BY <1>2, FS_Interval
  <2>2. IsFiniteSet(1 .. n) /\ Cardinality(1 .. n) = n
    BY <1>2, <2>1, FS_Interval
  <2>3. IsFiniteSet({x}) /\ Cardinality({x}) = 1
    BY FS_Singleton
  <2>4. QED BY <2>2, <2>3
<1>4. Cardinality(A) = 1 * n
  BY <1>3, FS_Product
<1>5. QED BY <1>1, <1>4

LEMMA TotalAt ==
  ASSUME NEW S, IsFiniteSet(S), NEW f \in [S -> Nat], NEW x \in S
  PROVE  LET U == Total([y \in S \ {x} |-> f[y]]) IN
         Total(f) \in Nat /\ U \in Nat /\ Total(f) = f[x] + U
<1>1. [y \in {x} |-> f[y]] = [y \in {x} |-> f[x]]
  OBVIOUS
<1>2. Total([y \in {x} |-> f[y]]) = f[x]
  BY <1>1, TotalOne
<1>3. QED BY <1>2, TotalSplit

\* A change at one point.
LEMMA TotalExcept ==
  ASSUME NEW S, IsFiniteSet(S), NEW f \in [S -> Nat], NEW x \in S, NEW g \in [S -> Nat],
         \A y \in S \ {x} : g[y] = f[y]
  PROVE  Total(f) \in Nat /\ Total(g) \in Nat /\ Total(g) + f[x] = Total(f) + g[x]
<1>1. [y \in S \ {x} |-> g[y]] = [y \in S \ {x} |-> f[y]]
  OBVIOUS
<1> DEFINE n == Total([y \in S \ {x} |-> f[y]])
<1>2. n \in Nat /\ Total(f) = f[x] + n /\ Total(g) = g[x] + n
  <2>1. Total(f) \in Nat /\ n \in Nat /\ Total(f) = f[x] + n
    BY TotalAt
  <2>2. Total(g) = g[x] + Total([y \in S \ {x} |-> g[y]])
    BY TotalAt
  <2>3. QED BY <1>1, <2>1, <2>2
<1> HIDE DEF n
<1>3. f[x] \in Nat /\ g[x] \in Nat
  OBVIOUS
<1>4. QED BY <1>2, <1>3

LEMMA TotalPositive ==
  ASSUME NEW S, IsFiniteSet(S), NEW f \in [S -> Nat]
  PROVE  /\ Total(f) \in Nat
         /\ \A x \in S : f[x] <= Total(f)
         /\ Total(f) > 0 <=> \E x \in S : f[x] > 0
<1>1. Total(f) \in Nat
  BY TotalSplit
<1>2. ASSUME NEW x \in S PROVE f[x] <= Total(f) /\ f[x] \in Nat
  <2> DEFINE n == Total([y \in S \ {x} |-> f[y]])
  <2>1. Total(f) \in Nat /\ n \in Nat /\ Total(f) = f[x] + n
    BY TotalAt
  <2>2. f[x] \in Nat
    OBVIOUS
  <2> HIDE DEF n
  <2>3. QED BY <2>1, <2>2
<1>3. ASSUME Total(f) > 0, ~ \E x \in S : f[x] > 0 PROVE FALSE
  <2>1. \A x \in S : f[x] = 0
    BY <1>3
  <2>2. Total(f) = 0
    BY <2>1, TotalZero
  <2>3. QED BY <1>3, <2>2
<1>4. QED BY <1>1, <1>2, <1>3


-------------------------------------------------------------------------------
(* What a step of one worker leaves alone. *)

WorkersInv == \A w \in Workers : ThreadInv(w) /\ ListInv(w)
SocketsInv == \A s \in Sockets : SocketInv(s)

LEMMA OthersKept ==
  ASSUME TypeInv, WorkersInv, SocketsInv, NEW w \in Workers,
         \A v \in Workers \ {w} : /\ thread'[v] = thread[v]
                                  /\ pending_sent_conns'[v] = pending_sent_conns[v]
                                  /\ Known(v) => Known(v)',
         \A s \in Sockets : Owner[s] # w => sock'[s] = sock[s]
  PROVE  /\ \A v \in Workers \ {w} : ThreadInv(v)' /\ ListInv(v)'
         /\ \A s \in Sockets : Owner[s] # w => SocketInv(s)'
<1>1. ASSUME NEW v \in Workers \ {w} PROVE ThreadInv(v)' /\ ListInv(v)'
  <2>1. /\ ThreadInv(v) /\ ListInv(v) /\ thread'[v] = thread[v]
        /\ pending_sent_conns'[v] = pending_sent_conns[v] /\ (Known(v) => Known(v)')
    BY <1>1 DEF WorkersInv
  <2>2. \A s \in Sockets : Owner[s] = v => sock'[s] = sock[s]
    OBVIOUS
  <2>3. Busy(v)' = Busy(v) /\ Retry(v)' = Retry(v)
    BY <2>1 DEF Busy, Retry
  <2>4. \A s \in Sockets : Owner[s] = v => Open(s)' = Open(s) /\ Sendable(s)' = Sendable(s)
    BY <2>2 DEF Open, Sendable
  <2>5. ThreadInv(v)'
    <3>1. CASE Busy(v)
      <4>1. thread[v].s \in Sockets /\ Owner[thread[v].s] = v
        BY <2>1, <3>1 DEF ThreadInv
      <4> DEFINE s == thread[v].s
      <4>2. sock'[s] = sock[s] /\ thread'[v].s = s
        BY <2>1, <2>2, <4>1
      <4>3. QED BY <2>1, <2>3, <4>1, <4>2 DEF ThreadInv, Open, Sendable
    <3>2. CASE ~Busy(v)
      <4>1. thread[v].at \notin {"submit", "return"} /\ ~Retry(v)
        BY <3>2 DEF Busy, Retry
      <4>2. QED BY <2>1, <2>3, <3>2, <4>1 DEF ThreadInv
    <3>3. QED BY <3>1, <3>2
  <2>6. ListInv(v)'
    <3>1. Once(pending_sent_conns'[v])
      BY <2>1 DEF ListInv
    <3>2. ASSUME NEW s \in Sockets, Contains(pending_sent_conns'[v], s)
          PROVE  /\ Owner[s] = v /\ Open(s)' /\ sock'[s].pending /\ Sendable(s)'
                 /\ ~(Retry(v)' /\ thread'[v].s = s)
      <4>1. /\ Owner[s] = v /\ Open(s) /\ sock[s].pending /\ Sendable(s)
            /\ ~(Retry(v) /\ thread[v].s = s)
        BY <2>1, <3>2 DEF ListInv
      <4>2. QED BY <2>1, <2>2, <2>3, <2>4, <4>1
    <3>3. pending_sent_conns'[v] # <<>> => Known(v)' \/ thread'[v].at = "pending" \/ Retry(v)'
      BY <2>1, <2>3 DEF ListInv
    <3>4. QED BY <3>1, <3>2, <3>3 DEF ListInv
  <2>7. QED BY <2>5, <2>6
<1>2. ASSUME NEW s \in Sockets, Owner[s] # w PROVE SocketInv(s)'
  <2>1. /\ SocketInv(s) /\ sock'[s] = sock[s] /\ Owner[s] \in Workers \ {w}
        /\ thread'[Owner[s]] = thread[Owner[s]]
        /\ pending_sent_conns'[Owner[s]] = pending_sent_conns[Owner[s]]
    BY <1>2, RdmaSocketAssumption DEF SocketsInv
  <2>2. QED BY <2>1 DEF SocketInv, Sendable, Open, Retry, Busy, Short
<1>3. QED BY <1>1, <1>2

\* The other sockets of the worker.
LEMMA SocketKept ==
  ASSUME NEW s \in Sockets, SocketInv(s), sock'[s] = sock[s],
         Retry(Owner[s]) /\ thread[Owner[s]].s = s
           => Retry(Owner[s])' /\ thread'[Owner[s]].s = s,
         thread[Owner[s]].s = s => thread'[Owner[s]].s = s,
         Contains(pending_sent_conns[Owner[s]], s)
           => \/ Contains(pending_sent_conns'[Owner[s]], s)
              \/ Retry(Owner[s])' /\ thread'[Owner[s]].s = s
  PROVE  SocketInv(s)'
BY DEF SocketInv, Sendable, Open, Short

-------------------------------------------------------------------------------
(* A step that changes one socket of an idle worker only. *)

LEMMA WaitKept ==
  ASSUME WaitInv, UNCHANGED <<thread, tx_event, pending_workers, sq, tx_cq, dispatcher, history>>
  PROVE  WaitInv'
<1>1. Polled' = Polled
  BY DEF Polled
<1>2. Waiting' = Waiting
  BY DEF Waiting
<1>3. Responsible' = Responsible
  BY <1>1 DEF Responsible, Active, Retry, Busy, history
<1>4. QED BY <1>2, <1>3 DEF WaitInv

LEMMA CountKept ==
  ASSUME ChunksConserved, UNCHANGED <<thread, free_chunks, sq, tx_cq, refused, lost>>
  PROVE  ChunksConserved'
<1>1. Polled' = Polled /\ Held' = Held /\ Total(sq)' = Total(sq)
  BY DEF Polled, Held
<1>2. QED BY <1>1 DEF ChunksConserved

LEMMA PostedKept ==
  ASSUME PostedWhenReady, refused' = refused,
         \A s \in Sockets : sock[s].hung_up => sock'[s].hung_up
  PROVE  PostedWhenReady'
BY DEF PostedWhenReady

\* What the change may do to the socket.
Step(s, o) ==
  /\ o.pending = sock[s].pending /\ o.pending_bl <= o.data
  /\ Sendable(s) => o.ready \/ o.hung_up
  /\ sock[s].hung_up => o.hung_up
  /\ o.connected /\ ~o.error => o.ready \/ o.hung_up
  /\ o.peer_msg = "syn" => o.ready

LEMMA SocketStep ==
  ASSUME IInv, NEW s \in Sockets, thread[Owner[s]].at = "idle",
         NEW o \in Socket, sock' = [sock EXCEPT ![s] = o], Step(s, o),
         Open(s) => o.life = "open",
         sock[s].life # "deleted" /\ o.life # "none",
         o.life = "open" /\ o.connected /\ ~o.error /\ o.pending_bl > 0 => Short(s),
         o.life = "open" /\ o.pending => Open(s),
         UNCHANGED <<thread, tx_event, sendVars, hwVars, dispatcher, history>>
  PROVE  IInv'
<1> DEFINE w == Owner[s]
<1>0. /\ TypeInv /\ WorkersInv /\ SocketsInv /\ ChunksConserved /\ WaitInv /\ PostedWhenReady
      /\ w \in Workers /\ sock'[s] = o /\ thread' = thread
      /\ \A t \in Sockets \ {s} : sock'[t] = sock[t]
      /\ UNCHANGED <<tx_event, pending_sent_conns, pending_workers, free_chunks, sq, tx_cq,
                     tx_error, dispatcher, refused, lost, missed>>
  BY RdmaSocketAssumption DEF IInv, WorkersInv, SocketsInv, TypeInv, sendVars, hwVars, history
<1>1. TypeInv'
  BY <1>0 DEF TypeInv
<1>2. /\ \A v \in Workers \ {w} : ThreadInv(v)' /\ ListInv(v)'
      /\ \A t \in Sockets : Owner[t] # w => SocketInv(t)'
  <2>1. \A v \in Workers : Known(v) => Known(v)'
    BY <1>0 DEF Known
  <2>2. QED BY <1>0, <2>1, OthersKept
<1>3. ThreadInv(w) /\ ListInv(w) /\ SocketInv(s)
  BY <1>0 DEF WorkersInv, SocketsInv
<1>4. /\ Busy(w)' = Busy(w) /\ Retry(w)' = Retry(w) /\ ~Busy(w) /\ ~Retry(w)
      /\ Known(w)' = Known(w)
  BY <1>0 DEF Busy, Retry, Known
<1>5. /\ Sendable(s)' = (o.ready \/ o.hung_up) /\ Open(s)' = (o.life = "open")
      /\ Short(s)' = (o.life = "open" /\ o.connected /\ ~o.error /\ o.pending_bl > 0)
      /\ \A t \in Sockets \ {s} : Open(t)' = Open(t) /\ Sendable(t)' = Sendable(t)
  BY <1>0 DEF Sendable, Open, Short
<1>6. ThreadInv(w)'
  BY <1>0, <1>3, <1>4 DEF ThreadInv
<1>7. ListInv(w)'
  <2>1. ASSUME NEW t \in Sockets, Contains(pending_sent_conns'[w], t)
        PROVE  /\ Owner[t] = w /\ Open(t)' /\ sock'[t].pending /\ Sendable(t)'
               /\ ~(Retry(w)' /\ thread'[w].s = t)
    <3>1. Owner[t] = w /\ Open(t) /\ sock[t].pending /\ Sendable(t)
      BY <1>0, <1>3, <2>1 DEF ListInv
    <3>2. CASE t = s
      BY <1>0, <1>4, <1>5, <3>1, <3>2 DEF Step
    <3>3. CASE t # s
      BY <1>0, <1>4, <1>5, <3>1, <3>3
    <3>4. QED BY <3>2, <3>3
  <2>2. QED BY <1>0, <1>3, <1>4, <2>1 DEF ListInv
<1>8. SocketInv(s)'
  BY <1>0, <1>3, <1>4, <1>5 DEF SocketInv, Step
<1>9. ASSUME NEW t \in Sockets, Owner[t] = w, t # s PROVE SocketInv(t)'
  BY <1>0, <1>4, <1>9, SocketKept DEF SocketsInv
<1>10. WaitInv' /\ ChunksConserved'
  BY <1>0, WaitKept, CountKept DEF history
<1>11. PostedWhenReady'
  <2>1. \A t \in Sockets : sock[t].hung_up => sock'[t].hung_up
    BY <1>0 DEF Step
  <2>2. QED BY <1>0, <2>1, PostedKept
<1>12. QED BY <1>0, <1>1, <1>2, <1>6, <1>7, <1>8, <1>9, <1>10, <1>11 DEF IInv


LEMMA SocketAt ==
  ASSUME IInv, NEW s \in Sockets
  PROVE  /\ SocketInv(s) /\ sock[s] \in Socket /\ Owner[s] \in Workers
         /\ ThreadInv(Owner[s]) /\ ListInv(Owner[s])
BY RdmaSocketAssumption DEF IInv, TypeInv

LEMMA ConnectStep == ASSUME IInv, NEW s \in Sockets, connect(s) PROVE IInv'
<1> DEFINE a == [sock[s] EXCEPT !.life = "open"]  b == [sock[s] EXCEPT !.life = "dead"]
<1>0. SocketInv(s) /\ sock[s] \in Socket
  BY SocketAt
<1>1. /\ sock[s].life = "none" /\ thread[Owner[s]].at = "idle"
      /\ UNCHANGED <<thread, tx_event, sendVars, hwVars, dispatcher, history>>
  BY DEF connect, Runs
<1>2. PICK o \in {a, b} : sock' = [sock EXCEPT ![s] = o]
  BY DEF connect, try_connect, send_msg
<1>3. o \in Socket /\ o.life # "none" /\ Step(s, o)
  BY <1>0, <1>2 DEF Socket, Step, SocketInv, Sendable
<1>4. ~o.connected /\ ~o.pending
  BY <1>0, <1>1, <1>2 DEF Socket, SocketInv
<1> HIDE DEF a, b
<1>5. QED BY <1>1, <1>2, <1>3, <1>4, SocketStep DEF Open

LEMMA AcceptStep == ASSUME IInv, NEW s \in Sockets, accept(s) PROVE IInv'
<1> DEFINE o == set_accept_fd(sock[s])
<1>0. SocketInv(s) /\ sock[s] \in Socket
  BY SocketAt
<1>1. /\ sock[s].life = "none" /\ thread[Owner[s]].at = "idle"
      /\ UNCHANGED <<thread, tx_event, sendVars, hwVars, dispatcher, history>>
      /\ sock' = [sock EXCEPT ![s] = o]
  BY DEF accept, Runs
<1>2. o \in Socket /\ o.life = "open" /\ Step(s, o)
  BY <1>0 DEF Socket, Step, SocketInv, Sendable, set_accept_fd
<1>3. ~o.connected /\ ~o.pending
  BY <1>0, <1>1 DEF Socket, SocketInv, set_accept_fd
<1> HIDE DEF o
<1>4. QED BY <1>1, <1>2, <1>3, SocketStep DEF Open

\* A change of an open socket that gives it nothing to send.
LEMMA OpenStep ==
  ASSUME IInv, NEW s \in Sockets, Open(s), Runs(Owner[s]),
         NEW o \in Socket, sock' = [sock EXCEPT ![s] = o], Step(s, o), o.life = "open",
         o.connected /\ ~o.error /\ o.pending_bl > 0 => Short(s),
         UNCHANGED <<thread, tx_event, sendVars, hwVars, dispatcher, history>>
  PROVE  IInv'
BY SocketStep DEF Open, Runs

LEMMA FakeSendStep ==
  ASSUME IInv, NEW s \in Sockets, NEW n \in 1 .. MaxData, send(s, n), ~sock[s].connected
  PROVE  IInv'
<1> DEFINE o == [sock[s] EXCEPT !.pending_bl = @ + n, !.data = @ + n]
<1>0. SocketInv(s) /\ sock[s] \in Socket /\ MaxData \in Nat
  BY SocketAt, RdmaSocketAssumption
<1>1. /\ Open(s) /\ Runs(Owner[s]) /\ sock[s].data + n <= MaxData
      /\ sock' = [sock EXCEPT ![s] = o]
      /\ UNCHANGED <<tx_event, pending_sent_conns, pending_workers, hwVars, dispatcher, history>>
  BY DEF send
<1>2. ~o.connected
  BY <1>0 DEF Socket
<1>3. UNCHANGED <<thread, free_chunks>>
  BY <1>2 DEF send
<1>4. o \in Socket
  <2>1. /\ sock[s].pending_bl \in Nat /\ sock[s].data \in Nat
        /\ sock[s].pending_bl <= sock[s].data
    BY <1>0 DEF Socket, SocketInv
  <2>2. sock[s].pending_bl + n \in 0 .. MaxData /\ sock[s].data + n \in 0 .. MaxData
    BY <1>0, <1>1, <2>1
  <2>3. QED BY <1>0, <2>2 DEF Socket
<1>5. Step(s, o)
  BY <1>0 DEF Socket, Step, SocketInv, Sendable
<1>6. o.life = "open"
  BY <1>0, <1>1 DEF Socket, Open
<1> HIDE DEF o
<1>7. QED BY <1>1, <1>2, <1>3, <1>4, <1>5, <1>6, OpenStep DEF sendVars

LEMMA ActivateServerStep ==
  ASSUME IInv, NEW s \in Sockets, Open(s), Runs(Owner[s]), ~sock[s].connected,
         activate_server(s),
         UNCHANGED <<tx_event, pending_sent_conns, pending_workers, hwVars, dispatcher, history>>
  PROVE  IInv'
<1> DEFINE a == [sock[s] EXCEPT !.ready = TRUE, !.active = TRUE, !.peer_msg = "syn"]
<1>0. SocketInv(s) /\ sock[s] \in Socket
  BY SocketAt
<1>1. PICK o \in {a, fault(a)} : sock' = [sock EXCEPT ![s] = o]
  BY DEF activate_server, send_msg
<1>2. o \in Socket /\ Step(s, o) /\ o.life = "open"
  BY <1>0, <1>1 DEF Socket, Step, SocketInv, Sendable, fault, Open
<1>3. ~ (o.connected /\ ~o.error)
  BY <1>0, <1>1 DEF Socket, fault
<1>4. UNCHANGED <<thread, free_chunks>>
  BY DEF activate_server
<1> HIDE DEF a
<1>5. QED BY <1>1, <1>2, <1>3, <1>4, OpenStep DEF sendVars

LEMMA HandshakeFailsStep == ASSUME IInv, NEW s \in Sockets, handshake_fails(s) PROVE IInv'
<1> DEFINE o == fault(sock[s])
<1>0. SocketInv(s) /\ sock[s] \in Socket
  BY SocketAt
<1>1. /\ Open(s) /\ Runs(Owner[s]) /\ sock' = [sock EXCEPT ![s] = o]
      /\ UNCHANGED <<thread, tx_event, sendVars, hwVars, dispatcher, history>>
  BY DEF handshake_fails
<1>2. o \in Socket /\ Step(s, o) /\ o.life = "open" /\ o.error
  BY <1>0, <1>1 DEF Socket, Step, SocketInv, Sendable, fault, Open
<1> HIDE DEF o
<1>3. QED BY <1>1, <1>2, OpenStep

LEMMA CloseStep == ASSUME IInv, NEW s \in Sockets, close(s) PROVE IInv'
<1> DEFINE o == [sock[s] EXCEPT !.error = TRUE, !.active = FALSE]
<1>0. SocketInv(s) /\ sock[s] \in Socket /\ sock \in [Sockets -> Socket]
  BY SocketAt DEF IInv, TypeInv
<1>1. /\ Open(s) /\ Runs(Owner[s])
      /\ UNCHANGED <<thread, tx_event, sendVars, hwVars, dispatcher, history>>
  BY DEF close
<1>2. sock' = [sock EXCEPT ![s] = o]
  BY <1>0 DEF close, Socket
<1>3. o \in Socket /\ Step(s, o) /\ o.life = "open" /\ o.error
  BY <1>0, <1>1 DEF Socket, Step, SocketInv, Sendable, Open
<1> HIDE DEF o
<1>4. QED BY <1>1, <1>2, <1>3, OpenStep

\* The server whose peer hung up, taken for an answer to its syn or for a syn.
LEMMA PeerClosedServerStep ==
  ASSUME IInv, NEW s \in Sockets, Open(s), Runs(Owner[s]), ~sock[s].connected, NEW b \in BOOLEAN,
         sock' = [sock EXCEPT ![s] =
                   IF b THEN [sock[s] EXCEPT !.hung_up = TRUE]
                        ELSE [[sock[s] EXCEPT !.hung_up = TRUE] EXCEPT !.ready = TRUE, !.active = TRUE]],
         UNCHANGED <<thread, tx_event, sendVars, hwVars, dispatcher, history>>
  PROVE  IInv'
<1> DEFINE o == IF b THEN [sock[s] EXCEPT !.hung_up = TRUE]
                ELSE [[sock[s] EXCEPT !.hung_up = TRUE] EXCEPT !.ready = TRUE, !.active = TRUE]
<1>0. SocketInv(s) /\ sock[s] \in Socket
  BY SocketAt
<1>1. o \in Socket /\ Step(s, o) /\ o.life = "open" /\ ~o.connected
  BY <1>0 DEF Socket, Step, SocketInv, Sendable, Open
<1> HIDE DEF o
<1>2. sock' = [sock EXCEPT ![s] = o]
  BY DEF o
<1>3. QED BY <1>1, <1>2, OpenStep

LEMMA DestroyStep == ASSUME IInv, NEW s \in Sockets, destroy(s) PROVE IInv'
<1> DEFINE w == Owner[s]  q == pending_sent_conns[w]  r == remove_pending_conn(q, s)
           o == [sock[s] EXCEPT !.life = "dead", !.error = TRUE]
<1>0. /\ TypeInv /\ WorkersInv /\ SocketsInv /\ ChunksConserved /\ WaitInv /\ PostedWhenReady
      /\ w \in Workers /\ SocketInv(s) /\ sock[s] \in Socket /\ ThreadInv(w) /\ ListInv(w)
      /\ sock \in [Sockets -> Socket] /\ q \in Seq(Sockets)
  BY SocketAt DEF IInv, WorkersInv, SocketsInv, TypeInv
<1>1. /\ Open(s) /\ thread[w].at = "idle"
      /\ UNCHANGED <<thread, tx_event, pending_workers, free_chunks, sq, tx_cq, tx_error,
                     dispatcher, refused, lost, missed>>
      /\ pending_sent_conns' = [pending_sent_conns EXCEPT ![w] = r]
  BY DEF destroy, Runs, hwVars, history
<1>2. o \in Socket /\ sock' = [sock EXCEPT ![s] = o] /\ o.life = "dead"
      /\ (sock[s].hung_up => o.hung_up)
  BY <1>0 DEF destroy, Socket
<1>3. /\ r \in Seq(Sockets) /\ Once(r) /\ ~Contains(r, s) /\ (r # <<>> => q # <<>>)
      /\ \A t \in Sockets : t # s => (Contains(r, t) <=> Contains(q, t))
  BY <1>0, RemoveProps DEF ListInv
<1>4. /\ sock'[s] = o /\ \A t \in Sockets \ {s} : sock'[t] = sock[t]
      /\ pending_sent_conns'[w] = r
      /\ \A v \in Workers \ {w} : pending_sent_conns'[v] = pending_sent_conns[v]
  BY <1>0, <1>1, <1>2 DEF TypeInv
<1>5. TypeInv'
  BY <1>0, <1>1, <1>2, <1>3 DEF TypeInv
<1>6. o.pending_bl <= o.data /\ (o.peer_msg = "syn" => o.ready) /\ o.error
  BY <1>0 DEF SocketInv, Socket
<1> HIDE DEF o, r
<1>7. /\ \A v \in Workers \ {w} : ThreadInv(v)' /\ ListInv(v)'
      /\ \A t \in Sockets : Owner[t] # w => SocketInv(t)'
  <2>1. \A v \in Workers : Known(v) => Known(v)'
    BY <1>1 DEF Known
  <2>2. QED BY <1>0, <1>1, <1>4, <2>1, OthersKept
<1>8. /\ Busy(w)' = Busy(w) /\ Retry(w)' = Retry(w) /\ ~Busy(w) /\ ~Retry(w)
      /\ Known(w)' = Known(w)
      /\ \A t \in Sockets \ {s} : Open(t)' = Open(t) /\ Sendable(t)' = Sendable(t)
      /\ ~Open(s)' /\ ~Short(s)'
  BY <1>1, <1>2, <1>4 DEF Busy, Retry, Known, Open, Sendable, Short
<1>9. ThreadInv(w)'
  BY <1>0, <1>1, <1>8 DEF ThreadInv
<1>10. ListInv(w)'
  <2>1. ASSUME NEW t \in Sockets, Contains(pending_sent_conns'[w], t)
        PROVE  /\ Owner[t] = w /\ Open(t)' /\ sock'[t].pending /\ Sendable(t)'
               /\ ~(Retry(w)' /\ thread'[w].s = t)
    <3>1. t # s /\ Contains(q, t)
      BY <1>3, <1>4, <2>1
    <3>2. Owner[t] = w /\ Open(t) /\ sock[t].pending /\ Sendable(t)
      BY <1>0, <3>1 DEF ListInv
    <3>3. QED BY <1>4, <1>8, <3>1, <3>2
  <2>2. q # <<>> => Known(w)
    BY <1>0, <1>1, <1>8 DEF ListInv
  <2>3. QED BY <1>3, <1>4, <1>8, <2>1, <2>2 DEF ListInv
<1>11. SocketInv(s)'
  BY <1>2, <1>4, <1>6, <1>8 DEF SocketInv
<1>12. ASSUME NEW t \in Sockets, Owner[t] = w, t # s PROVE SocketInv(t)'
  <2>1. Contains(pending_sent_conns[w], t) => Contains(pending_sent_conns'[w], t)
    BY <1>3, <1>4, <1>12
  <2>2. QED BY <1>0, <1>1, <1>4, <1>8, <1>12, <2>1, SocketKept DEF SocketsInv
<1>13. WaitInv' /\ ChunksConserved'
  BY <1>0, <1>1, WaitKept, CountKept DEF history
<1>14. PostedWhenReady'
  <2>1. \A t \in Sockets : sock[t].hung_up => sock'[t].hung_up
    BY <1>2, <1>4
  <2>2. QED BY <1>0, <1>1, <2>1, PostedKept
<1>15. QED BY <1>0, <1>5, <1>7, <1>9, <1>10, <1>11, <1>12, <1>13, <1>14 DEF IInv


-------------------------------------------------------------------------------
(* A step that starts a submit. *)

\* Chunks that are not in the cluster are somebody's, who will bring them back.
LEMMA NoneFree ==
  ASSUME TypeInv, WorkersInv, ChunksConserved, free_chunks = 0
  PROVE  Responsible
<1> DEFINE h == [w \in Workers |-> thread[w].got]
<1>1. h \in [Workers -> Nat] /\ sq \in [Sockets -> Nat] /\ tx_cq \in [Sockets -> Nat]
  BY DEF TypeInv, Thread
<1>2. Held \in Nat /\ (Held > 0 <=> \E w \in Workers : thread[w].got > 0)
  <2>1. Total(h) \in Nat /\ (Total(h) > 0 <=> \E w \in Workers : h[w] > 0)
    BY <1>1, TotalPositive, RdmaSocketAssumption
  <2>2. Held = Total(h)
    BY DEF Held
  <2>3. QED BY <2>1, <2>2
<1>3. Total(sq) \in Nat /\ (Total(sq) > 0 <=> \E s \in Sockets : sq[s] > 0)
  BY <1>1, TotalPositive, RdmaSocketAssumption
<1>4. Polled \in Nat
  BY <1>1, TotalPositive, RdmaSocketAssumption DEF Polled
<1>5. Held + Total(sq) + Polled + refused + lost > 0
  <2>1. NumChunks \in Nat \ {0} /\ refused \in Nat /\ lost \in Nat
    BY RdmaSocketAssumption DEF TypeInv
  <2>2. 0 + Held + Total(sq) + Polled + refused + lost = NumChunks
    BY DEF ChunksConserved
  <2>3. QED BY <1>2, <1>3, <1>4, <2>1, <2>2
<1>6. Held > 0 \/ Total(sq) > 0 \/ Polled > 0 \/ refused > 0 \/ lost > 0
  <2>1. refused \in Nat /\ lost \in Nat
    BY DEF TypeInv
  <2>2. QED BY <1>2, <1>3, <1>4, <1>5, <2>1
<1>7. ASSUME NEW w \in Workers, thread[w].got > 0 PROVE Active(w)
  BY <1>7 DEF WorkersInv, ThreadInv, Active
<1>8. QED BY <1>2, <1>3, <1>6, <1>7 DEF Responsible

LEMMA NoneFreeNext ==
  TypeInv' /\ WorkersInv' /\ ChunksConserved' /\ (free_chunks = 0)' => Responsible'
<1>1. TypeInv /\ WorkersInv /\ ChunksConserved /\ free_chunks = 0 => Responsible
  BY NoneFree
<1>2. QED BY <1>1, PTL

LEMMA Balance ==
  ASSUME NEW f \in Nat, NEW h \in Nat, NEW a \in Nat, NEW b \in Nat, NEW c \in Nat,
         NEW d \in Nat, NEW g \in Nat, g <= f, NEW k \in Nat, k = h + g
  PROVE  f - g + k + a + b + c + d = f + h + a + b + c + d
OBVIOUS

\* What the workers hold when one of them takes or gives back some.
LEMMA HeldExcept ==
  ASSUME TypeInv, NEW w \in Workers, NEW t \in Thread, thread' = [thread EXCEPT ![w] = t]
  PROVE  Held \in Nat /\ Held' \in Nat /\ Held' + thread[w].got = Held + t.got
<1> DEFINE f == [v \in Workers |-> thread[v].got]  g == [v \in Workers |-> thread'[v].got]
<1>1. /\ f \in [Workers -> Nat] /\ g \in [Workers -> Nat] /\ \A v \in Workers \ {w} : g[v] = f[v]
      /\ f[w] = thread[w].got /\ g[w] = t.got
  BY DEF TypeInv, Thread
<1>2. Held = Total(f) /\ Held' = Total(g)
  BY DEF Held
<1> HIDE DEF f, g
<1>3. Total(f) \in Nat /\ Total(g) \in Nat /\ Total(g) + f[w] = Total(f) + g[w]
  BY <1>1, TotalExcept, RdmaSocketAssumption
<1>4. QED BY <1>1, <1>2, <1>3

LEMMA HeldSame ==
  ASSUME TypeInv, NEW w \in Workers, NEW t \in Thread, thread' = [thread EXCEPT ![w] = t],
         t.got = thread[w].got
  PROVE  Held' = Held
<1> DEFINE n == thread[w].got  H == Held  K == Held'
<1>1. H \in Nat /\ K \in Nat /\ K + n = H + n
  BY HeldExcept
<1>2. n \in Nat
  BY DEF TypeInv, Thread
<1> HIDE DEF n, H, K
<1>3. K = H
  BY <1>1, <1>2
<1>4. QED BY <1>3 DEF H, K

LEMMA ThreadNext ==
  ASSUME NEW w \in Workers, NEW t, NEW o, thread'[w] = t, sock'[t.s] = o, o.life = "open",
         t.s \in Sockets, Owner[t.s] = w, t.at \in {"submit", "return"},
         t.at = "return" => t.got = 0,
         t.at = "submit" => t.got <= o.pending_bl /\ (o.ready \/ o.hung_up),
         t.caller = "handle_pending_message" => o.pending /\ (o.ready \/ o.hung_up),
         t.at = "return" /\ t.r = "EAGAIN" => Known(w)',
         t.at = "return" /\ o.pending_bl > 0 /\ ~o.error => t.r # "ok" /\ o.pending
  PROVE  ThreadInv(w)'
<1>1. /\ thread'[w].at = t.at /\ thread'[w].s = t.s /\ thread'[w].got = t.got
      /\ thread'[w].r = t.r /\ thread'[w].caller = t.caller /\ sock'[thread'[w].s] = o
  OBVIOUS
<1>2. Busy(w)' /\ Retry(w)' = (t.caller = "handle_pending_message")
  BY <1>1 DEF Busy, Retry
<1>3. QED BY <1>1, <1>2 DEF ThreadInv, Open, Sendable

Callers == {"send", "handle_pending_message", "activate", "handle_connection"}

LEMMA GetStep ==
  ASSUME IInv, NEW w \in Workers, NEW s \in Sockets, Owner[s] = w, Open(s),
         NEW caller \in Callers,
         NEW o \in Socket, sock' = [sock EXCEPT ![s] = o], Step(s, o), o.life = "open",
         ~o.error => o.ready \/ o.hung_up,
         get_tx_buffers(w, s, o, caller),
         \/ /\ caller # "handle_pending_message" /\ thread[w].at = "idle"
            /\ pending_sent_conns' = pending_sent_conns
         \/ /\ caller = "handle_pending_message" /\ thread[w].at = "pending"
            /\ pending_sent_conns[w] # <<>> /\ s = Head(pending_sent_conns[w])
            /\ pending_sent_conns' = [pending_sent_conns EXCEPT ![w] = Tail(@)],
         UNCHANGED <<tx_event, pending_workers, hwVars, dispatcher, history>>
  PROVE  IInv'
<1> DEFINE q == pending_sent_conns[w]  hpm == caller = "handle_pending_message"
<1>0. /\ TypeInv /\ WorkersInv /\ SocketsInv /\ ChunksConserved /\ WaitInv /\ PostedWhenReady
      /\ SocketInv(s) /\ sock[s] \in Socket /\ ThreadInv(w) /\ ListInv(w)
      /\ sock \in [Sockets -> Socket] /\ q \in Seq(Sockets) /\ free_chunks \in Nat
      /\ thread[w].at \in {"idle", "pending"} /\ ~Busy(w) /\ ~Retry(w)
      /\ thread \in [Workers -> Thread]
      /\ UNCHANGED <<tx_event, pending_workers, sq, tx_cq, tx_error, dispatcher,
                     refused, lost, missed>>
  BY SocketAt DEF IInv, WorkersInv, SocketsInv, TypeInv, hwVars, history, Busy, Retry
<1>1. /\ o.pending_bl \in Nat /\ o.pending = sock[s].pending /\ o.pending_bl <= o.data
      /\ (sock[s].hung_up => o.hung_up)
      /\ (o.peer_msg = "syn" => o.ready) /\ (Sendable(s) => o.ready \/ o.hung_up)
  BY <1>0 DEF Socket, Step
<1>2. PICK t \in Thread :
        /\ thread' = [thread EXCEPT ![w] = t]
        /\ t.s = s /\ t.caller = caller /\ t.at \in {"submit", "return"}
        /\ t.at = "return" => /\ t.got = 0 /\ t.r # "EAGAIN" /\ (o.error \/ o.pending_bl = 0)
        /\ t.at = "submit" => /\ ~o.error /\ t.got <= o.pending_bl
                              /\ t.got = 0 => free_chunks = 0
        /\ t.got <= free_chunks /\ free_chunks' = free_chunks - t.got
  <2> DEFINE got == Least(free_chunks, o.pending_bl)
             T(at, n, r) == [at |-> at, s |-> s, got |-> n, r |-> r, caller |-> caller]
  <2>1. /\ got \in Nat /\ got <= free_chunks /\ got <= o.pending_bl
        /\ (o.pending_bl > 0 /\ got = 0 => free_chunks = 0)
    BY <1>0, <1>1 DEF Least
  <2>2. CASE o.error
    <3> DEFINE t == T("return", 0, "error")
    <3>1. thread' = [thread EXCEPT ![w] = t] /\ free_chunks' = free_chunks
      BY <2>2 DEF get_tx_buffers
    <3>2. /\ t \in Thread /\ t.s = s /\ t.caller = caller /\ t.at = "return" /\ t.got = 0
          /\ t.r = "error"
      BY DEF Thread, Callers
    <3> HIDE DEF t
    <3>3. t.got <= free_chunks /\ free_chunks' = free_chunks - t.got
      BY <1>0, <3>1, <3>2
    <3>4. QED BY <2>2, <3>1, <3>2, <3>3
  <2>3. CASE ~o.error /\ o.pending_bl = 0
    <3> DEFINE t == T("return", 0, "ok")
    <3>1. thread' = [thread EXCEPT ![w] = t] /\ free_chunks' = free_chunks
      BY <2>3 DEF get_tx_buffers
    <3>2. /\ t \in Thread /\ t.s = s /\ t.caller = caller /\ t.at = "return" /\ t.got = 0
          /\ t.r = "ok"
      BY DEF Thread, Callers
    <3> HIDE DEF t
    <3>3. t.got <= free_chunks /\ free_chunks' = free_chunks - t.got
      BY <1>0, <3>1, <3>2
    <3>4. QED BY <2>3, <3>1, <3>2, <3>3
  <2>4. CASE ~o.error /\ o.pending_bl > 0
    <3>1. /\ thread' = [thread EXCEPT ![w] = T("submit", got, "ok")]
          /\ free_chunks' = free_chunks - got
      BY <2>4 DEF get_tx_buffers
    <3> HIDE DEF got
    <3>2. T("submit", got, "ok") \in Thread
      BY <2>1 DEF Thread, Callers
    <3>3. QED BY <2>1, <2>4, <3>1, <3>2
  <2>5. QED BY <1>1, <2>2, <2>3, <2>4
<1>3. /\ sock'[s] = o /\ thread'[w] = t
      /\ \A x \in Sockets \ {s} : sock'[x] = sock[x]
      /\ \A v \in Workers \ {w} : /\ thread'[v] = thread[v]
                                  /\ pending_sent_conns'[v] = pending_sent_conns[v]
  BY <1>0, <1>2 DEF TypeInv
<1> DEFINE r == pending_sent_conns'[w]
<1>4. /\ r \in Seq(Sockets) /\ Once(r) /\ pending_sent_conns' \in [Workers -> Seq(Sockets)]
      /\ \A x \in Sockets : Contains(r, x) => Contains(q, x)
      /\ \A x \in Sockets \ {s} : Contains(q, x) => Contains(r, x)
      /\ hpm => Contains(q, s) /\ ~Contains(r, s)
      /\ ~hpm => r = q
  <2>1. CASE ~hpm
    BY <1>0, <2>1 DEF ListInv, TypeInv
  <2>2. CASE hpm
    <3>1. /\ q # <<>> /\ s = Head(q) /\ r = Tail(q)
          /\ pending_sent_conns' = [pending_sent_conns EXCEPT ![w] = Tail(q)]
      BY <1>0, <2>2 DEF TypeInv
    <3>2. Once(q)
      BY <1>0 DEF ListInv
    <3>3. /\ Tail(q) \in Seq(Sockets) /\ Contains(q, s) /\ Once(Tail(q)) /\ ~Contains(Tail(q), s)
          /\ \A x : Contains(q, x) <=> Contains(Tail(q), x) \/ x = s
      BY <1>0, <3>1, <3>2, TailProps
    <3>4. QED BY <1>0, <2>2, <3>1, <3>3 DEF TypeInv
  <2>3. QED BY <2>1, <2>2
<1> HIDE DEF r
<1>5. TypeInv'
  <2>1. t.got \in Nat
    BY DEF Thread
  <2>2. free_chunks' \in Nat
    BY <1>0, <1>2, <2>1
  <2>3. thread' \in [Workers -> Thread] /\ sock' \in [Sockets -> Socket]
    BY <1>0, <1>2
  <2>4. QED BY <1>0, <1>4, <2>2, <2>3 DEF TypeInv
<1>6. /\ \A v \in Workers \ {w} : ThreadInv(v)' /\ ListInv(v)'
      /\ \A x \in Sockets : Owner[x] # w => SocketInv(x)'
  <2>1. \A v \in Workers : Known(v) => Known(v)'
    BY <1>0 DEF Known
  <2>2. QED BY <1>0, <1>3, <2>1, OthersKept
<1>7. /\ Busy(w)' /\ Retry(w)' = hpm /\ Known(w)' = Known(w)
      /\ Open(s)' /\ Sendable(s)' = (o.ready \/ o.hung_up)
      /\ \A x \in Sockets \ {s} : Open(x)' = Open(x) /\ Sendable(x)' = Sendable(x)
  BY <1>0, <1>2, <1>3 DEF Busy, Retry, Known, Open, Sendable
<1>8. ThreadInv(w)'
  <2>1. hpm => o.pending /\ (o.ready \/ o.hung_up)
    BY <1>0, <1>1, <1>4 DEF ListInv
  <2>2. t.at = "submit" => t.got <= o.pending_bl /\ (o.ready \/ o.hung_up)
    BY <1>2
  <2>3. ~ (t.at = "return" /\ o.pending_bl > 0 /\ ~o.error)
    BY <1>1, <1>2
  <2>4. QED BY <1>2, <1>3, <2>1, <2>2, <2>3, ThreadNext
<1>9. ListInv(w)'
  <2>1. ASSUME NEW x \in Sockets, Contains(r, x)
        PROVE  /\ Owner[x] = w /\ Open(x)' /\ sock'[x].pending /\ Sendable(x)'
               /\ ~(Retry(w)' /\ thread'[w].s = x)
    <3>1. Owner[x] = w /\ Open(x) /\ sock[x].pending /\ Sendable(x)
      BY <1>0, <1>4, <2>1 DEF ListInv
    <3>2. CASE x = s
      BY <1>1, <1>3, <1>4, <1>7, <2>1, <3>1, <3>2
    <3>3. CASE x # s
      BY <1>2, <1>3, <1>7, <3>1, <3>3
    <3>4. QED BY <3>2, <3>3
  <2>2. r # <<>> => Known(w)' \/ Retry(w)'
    BY <1>0, <1>4, <1>7 DEF ListInv
  <2>3. QED BY <1>4, <2>1, <2>2 DEF ListInv, r
<1>10. SocketInv(s)'
  <2>1. o.pending => Contains(r, s) \/ (Retry(w)' /\ thread'[w].s = s)
    <3>1. CASE hpm
      BY <1>2, <1>3, <1>7, <3>1
    <3>2. CASE ~hpm
      BY <1>0, <1>1, <1>4, <3>2 DEF SocketInv
    <3>3. QED BY <3>1, <3>2
  <2>2. thread'[w].s = s /\ (o.connected /\ ~o.error => o.ready \/ o.hung_up)
    BY <1>2, <1>3
  <2>3. QED BY <1>1, <1>3, <1>7, <2>1, <2>2 DEF SocketInv, r
<1>11. ASSUME NEW x \in Sockets, Owner[x] = w, x # s PROVE SocketInv(x)'
  <2>1. thread[w].s # x
    BY <1>0, RdmaSocketAssumption DEF ThreadInv
  <2>2. Contains(q, x) => Contains(r, x)
    BY <1>4, <1>11
  <2>3. QED BY <1>0, <1>3, <1>11, <2>1, <2>2, SocketKept DEF SocketsInv, r
<1>12. ChunksConserved'
  <2>1. Held \in Nat /\ Held' \in Nat /\ Held' + thread[w].got = Held + t.got
    BY <1>0, <1>2, HeldExcept
  <2>2. thread[w].got = 0 /\ t.got \in Nat
    BY <1>0 DEF ThreadInv, Thread
  <2>3. Polled' = Polled /\ Total(sq)' = Total(sq) /\ Polled \in Nat /\ Total(sq) \in Nat
    BY <1>0, TotalPositive, RdmaSocketAssumption DEF Polled, TypeInv
  <2>4. refused \in Nat /\ lost \in Nat
    BY <1>0 DEF TypeInv
  <2>5. Held' = Held + t.got
    BY <2>1, <2>2
  <2>6. free_chunks - t.got + Held' + Total(sq) + Polled + refused + lost =
          free_chunks + Held + Total(sq) + Polled + refused + lost
    <3>1. /\ free_chunks \in Nat /\ t.got \in Nat /\ t.got <= free_chunks
          /\ Held \in Nat /\ Held' \in Nat /\ Held' = Held + t.got
          /\ Total(sq) \in Nat /\ Polled \in Nat /\ refused \in Nat /\ lost \in Nat
      BY <1>0, <1>2, <2>1, <2>2, <2>3, <2>4, <2>5
    <3>2. QED BY ONLY <3>1, Balance
  <2>7. QED BY <1>0, <1>2, <2>3, <2>6 DEF ChunksConserved
<1>13. WaitInv'
  <2>1. CASE free_chunks' = 0
    <3>1. WorkersInv'
      BY <1>6, <1>8, <1>9 DEF WorkersInv
    <3>2. QED BY <1>5, <1>12, <2>1, <3>1, NoneFreeNext DEF WaitInv
  <2>2. CASE free_chunks' # 0
    <3>1. ~ (t.at = "submit" /\ t.got = 0)
      BY <1>0, <1>2, <2>2
    <3>2. Waiting' => Waiting
      BY <1>0, <1>3, <3>1 DEF Waiting
    <3>3. Polled' = Polled
      BY <1>0 DEF Polled
    <3>4. ASSUME NEW v \in Workers, Active(v) PROVE Active(v)'
      <4>1. CASE v # w
        BY <1>0, <1>3, <3>4, <4>1 DEF Active, Retry, Busy
      <4>2. CASE v = w
        <5>1. tx_event[w] > 0 \/ hpm
          BY <1>0, <3>4, <4>2 DEF Active
        <5>2. CASE tx_event[w] > 0
          BY <1>0, <4>2, <5>2 DEF Active
        <5>3. CASE hpm
          <6>1. t.got \in Nat
            BY DEF Thread
          <6>2. (t.at = "submit" /\ t.got > 0) \/ (t.at = "return" /\ t.r # "EAGAIN")
            BY <1>2, <3>1, <6>1
          <6>3. QED BY <1>3, <1>7, <4>2, <5>3, <6>2 DEF Active
        <5>4. QED BY <5>1, <5>2, <5>3
      <4>3. QED BY <4>1, <4>2
    <3>5. Responsible => Responsible'
      BY <1>0, <3>3, <3>4 DEF Responsible
    <3>6. QED BY <1>0, <3>2, <3>5 DEF WaitInv
  <2>3. QED BY <2>1, <2>2
<1>14. PostedWhenReady'
  <2>1. \A x \in Sockets : sock[x].hung_up => sock'[x].hung_up
    BY <1>1, <1>3
  <2>2. QED BY <1>0, <2>1, PostedKept
<1>15. QED BY <1>5, <1>6, <1>8, <1>9, <1>10, <1>11, <1>12, <1>13, <1>14 DEF IInv


LEMMA SendStep ==
  ASSUME IInv, NEW s \in Sockets, NEW n \in 1 .. MaxData, send(s, n)
  PROVE  IInv'
<1> DEFINE o == [sock[s] EXCEPT !.pending_bl = @ + n, !.data = @ + n]
<1>0. SocketInv(s) /\ sock[s] \in Socket /\ MaxData \in Nat /\ Owner[s] \in Workers
  BY SocketAt, RdmaSocketAssumption
<1>1. CASE ~sock[s].connected
  BY <1>1, FakeSendStep
<1>2. CASE sock[s].connected
  <2>1. /\ Open(s) /\ thread[Owner[s]].at = "idle" /\ ~sock[s].error
        /\ sock[s].data + n <= MaxData /\ sock' = [sock EXCEPT ![s] = o]
        /\ UNCHANGED <<tx_event, pending_sent_conns, pending_workers, hwVars, dispatcher, history>>
    BY DEF send, Runs
  <2>2. o.connected
    BY <1>0, <1>2 DEF Socket
  <2>3. get_tx_buffers(Owner[s], s, o, "send")
    BY <2>2 DEF send
  <2>4. o \in Socket
    <3>1. /\ sock[s].pending_bl \in Nat /\ sock[s].data \in Nat
          /\ sock[s].pending_bl <= sock[s].data
      BY <1>0 DEF Socket, SocketInv
    <3>2. sock[s].pending_bl + n \in 0 .. MaxData /\ sock[s].data + n \in 0 .. MaxData
      BY <1>0, <2>1, <3>1
    <3>3. QED BY <1>0, <3>2 DEF Socket
  <2>5. Step(s, o) /\ o.life = "open" /\ (o.ready \/ o.hung_up)
    BY <1>0, <1>2, <2>1 DEF Socket, Step, SocketInv, Sendable, Open
  <2> HIDE DEF o
  <2>6. QED BY <1>0, <2>1, <2>3, <2>4, <2>5, GetStep DEF Callers
<1>3. QED BY <1>1, <1>2

LEMMA ActivateClientStep ==
  ASSUME IInv, NEW s \in Sockets, Open(s), Runs(Owner[s]), NEW b \in BOOLEAN,
         NEW o, o = [[sock[s] EXCEPT !.hung_up = @ \/ b] EXCEPT !.ready = TRUE, !.connected = TRUE],
         sock' = [sock EXCEPT ![s] = o], get_tx_buffers(Owner[s], s, o, "activate"),
         UNCHANGED <<tx_event, pending_sent_conns, pending_workers, hwVars, dispatcher, history>>
  PROVE  IInv'
<1>0. SocketInv(s) /\ sock[s] \in Socket /\ Owner[s] \in Workers
  BY SocketAt
<1>1. o \in Socket /\ Step(s, o) /\ o.life = "open" /\ o.ready
  BY <1>0 DEF Socket, Step, SocketInv, Sendable, Open
<1>2. QED BY <1>0, <1>1, GetStep DEF Callers, Runs

\* The end of a server's handshake, with an acknowledgement or with b as its peer
\* hung up.
LEMMA HandshakeDoneStep ==
  ASSUME IInv, NEW s \in Sockets, Open(s), Runs(Owner[s]),
         NEW o \in Socket, sock' = [sock EXCEPT ![s] = o], Step(s, o), o.life = "open",
         o.ready \/ o.hung_up, get_tx_buffers(Owner[s], s, o, "handle_connection"),
         UNCHANGED <<tx_event, pending_sent_conns, pending_workers, hwVars, dispatcher, history>>
  PROVE  IInv'
<1>0. Owner[s] \in Workers
  BY SocketAt
<1>1. QED BY <1>0, GetStep DEF Callers, Runs

LEMMA HandleConnectionStep == ASSUME IInv, NEW s \in Sockets, handle_connection(s) PROVE IInv'
<1>0. SocketInv(s) /\ sock[s] \in Socket
  BY SocketAt
<1>1. /\ Open(s) /\ Runs(Owner[s]) /\ ~sock[s].connected
      /\ UNCHANGED <<tx_event, pending_sent_conns, pending_workers, hwVars, dispatcher, history>>
  BY DEF handle_connection
<1>2. CASE activate_client(s)
  <2> DEFINE o == [sock[s] EXCEPT !.ready = TRUE, !.connected = TRUE]
  <2>1. sock' = [sock EXCEPT ![s] = o] /\ get_tx_buffers(Owner[s], s, o, "activate")
    BY <1>2 DEF activate_client
  <2>2. o = [[sock[s] EXCEPT !.hung_up = @ \/ FALSE] EXCEPT !.ready = TRUE, !.connected = TRUE]
    BY <1>0 DEF Socket
  <2> HIDE DEF o
  <2>3. QED BY <1>1, <2>1, <2>2, ActivateClientStep
<1>3. CASE activate_server(s)
  BY <1>1, <1>3, ActivateServerStep
<1>4. CASE sock[s].peer_msg = "syn" /\ handshake_done(s)
  <2> DEFINE o == [sock[s] EXCEPT !.connected = TRUE, !.peer_msg = "ack"]
  <2>1. sock' = [sock EXCEPT ![s] = o] /\ get_tx_buffers(Owner[s], s, o, "handle_connection")
    BY <1>4 DEF handshake_done
  <2>2. o \in Socket /\ Step(s, o) /\ o.life = "open" /\ o.ready
    BY <1>0, <1>1, <1>4 DEF Socket, Step, SocketInv, Sendable, Open
  <2> HIDE DEF o
  <2>3. QED BY <1>1, <2>1, <2>2, HandshakeDoneStep
<1>5. QED BY <1>2, <1>3, <1>4 DEF handle_connection

LEMMA PeerClosedStep == ASSUME IInv, NEW s \in Sockets, peer_closed(s) PROVE IInv'
<1> DEFINE h == [sock[s] EXCEPT !.hung_up = TRUE]
<1>0. SocketInv(s) /\ sock[s] \in Socket
  BY SocketAt
<1>1. /\ Open(s) /\ Runs(Owner[s]) /\ ~h.connected /\ ~sock[s].connected
      /\ UNCHANGED <<tx_event, pending_sent_conns, pending_workers, hwVars, dispatcher, history>>
  BY <1>0 DEF peer_closed, Socket
<1>2. ASSUME NEW a, a = [h EXCEPT !.ready = TRUE, !.connected = TRUE],
             sock' = [sock EXCEPT ![s] = a], get_tx_buffers(Owner[s], s, a, "activate")
      PROVE  IInv'
  <2>1. a = [[sock[s] EXCEPT !.hung_up = @ \/ TRUE] EXCEPT !.ready = TRUE, !.connected = TRUE]
    BY <1>0, <1>2 DEF Socket
  <2> HIDE DEF h
  <2>2. QED BY <1>1, <1>2, <2>1, ActivateClientStep
<1>3. ASSUME sock' = [sock EXCEPT ![s] =
                       IF h.active THEN h ELSE [h EXCEPT !.ready = TRUE, !.active = TRUE]],
             UNCHANGED <<thread, free_chunks>>
      PROVE  IInv'
  <2>1. h.active \in BOOLEAN
    BY <1>0 DEF Socket
  <2>2. UNCHANGED <<thread, tx_event, sendVars, hwVars, dispatcher, history>>
    BY <1>1, <1>3 DEF sendVars
  <2>3. CASE h.active
    BY <1>1, <1>3, <2>2, <2>3, PeerClosedServerStep
  <2>4. CASE ~h.active
    BY <1>1, <1>3, <2>2, <2>4, PeerClosedServerStep
  <2>5. QED BY <2>3, <2>4
<1>4. ASSUME NEW a, a = [h EXCEPT !.connected = TRUE],
             sock' = [sock EXCEPT ![s] = a], get_tx_buffers(Owner[s], s, a, "handle_connection")
      PROVE  IInv'
  <2>1. a \in Socket /\ Step(s, a) /\ a.life = "open" /\ a.hung_up
    BY <1>0, <1>1, <1>4 DEF Socket, Step, SocketInv, Sendable, Open
  <2>2. QED BY <1>1, <1>4, <2>1, HandshakeDoneStep
<1>5. QED BY <1>2, <1>3, <1>4 DEF peer_closed

LEMMA SubmitPendingStep == ASSUME IInv, NEW w \in Workers, submit_pending(w) PROVE IInv'
<1> DEFINE q == pending_sent_conns[w]  s == Head(q)
<1>1. /\ thread[w].at = "pending" /\ q # <<>>
      /\ pending_sent_conns' = [pending_sent_conns EXCEPT ![w] = Tail(@)]
      /\ get_tx_buffers(w, s, sock[s], "handle_pending_message") /\ sock' = sock
      /\ UNCHANGED <<tx_event, pending_workers, hwVars, dispatcher, history>>
  BY DEF submit_pending
<1>2. q \in Seq(Sockets) /\ sock \in [Sockets -> Socket] /\ ListInv(w)
  BY DEF IInv, TypeInv
<1>3. s \in Sockets /\ Contains(q, s)
  BY <1>1, <1>2, TailProps
<1>4. Owner[s] = w /\ Open(s) /\ Sendable(s)
  BY <1>2, <1>3 DEF ListInv
<1> HIDE DEF s
<1>5. SocketInv(s) /\ sock[s] \in Socket
  BY <1>3, SocketAt
<1>6. /\ Step(s, sock[s]) /\ sock[s].life = "open" /\ sock' = [sock EXCEPT ![s] = sock[s]]
      /\ sock[s].ready \/ sock[s].hung_up
  BY <1>1, <1>2, <1>3, <1>4, <1>5 DEF Step, SocketInv, Sendable, Open
<1>7. QED BY <1>1, <1>3, <1>4, <1>5, <1>6, GetStep DEF Callers, s


-------------------------------------------------------------------------------
(* A step that returns from a submit. *)

LEMMA IdleThread == Idle \in Thread /\ [Idle EXCEPT !.at = "pending"] \in Thread
BY DEF Idle, Thread

\* The next state of a thread that is in no submit.
LEMMA ThreadOut ==
  ASSUME NEW w \in Workers, thread'[w].at \in {"idle", "pending"}, thread'[w].s = "none",
         thread'[w].got = 0
  PROVE  ThreadInv(w)' /\ ~Busy(w)' /\ ~Retry(w)'
BY DEF ThreadInv, Busy, Retry

\* The user's call, or the handler of the handshake, returns.
LEMMA BackStep ==
  ASSUME IInv, NEW w \in Workers, thread[w].at = "return",
         thread[w].caller # "handle_pending_message", thread' = [thread EXCEPT ![w] = Idle],
         NEW o \in Socket, sock' = [sock EXCEPT ![thread[w].s] = o], Step(thread[w].s, o),
         o.life = "open", o.pending_bl = sock[thread[w].s].pending_bl,
         sock[thread[w].s].error => o.error,
         UNCHANGED <<tx_event, sendVars, hwVars, dispatcher, history>>
  PROVE  IInv'
<1> DEFINE q == pending_sent_conns[w]
<1>0. /\ TypeInv /\ WorkersInv /\ SocketsInv /\ ChunksConserved /\ WaitInv /\ PostedWhenReady
      /\ ThreadInv(w) /\ ListInv(w) /\ Busy(w) /\ ~Retry(w) /\ q \in Seq(Sockets)
      /\ UNCHANGED <<tx_event, pending_sent_conns, pending_workers, free_chunks, sq, tx_cq,
                     tx_error, dispatcher, refused, lost, missed>>
  BY DEF IInv, WorkersInv, SocketsInv, TypeInv, sendVars, hwVars, history, Busy, Retry
<1>1. PICK s \in Sockets : s = thread[w].s /\ Owner[s] = w /\ Open(s) /\ thread[w].got = 0
  BY <1>0 DEF ThreadInv
<1>2. SocketInv(s) /\ sock[s] \in Socket /\ s # "none"
  BY <1>1, SocketAt, RdmaSocketAssumption
<1>3. /\ sock'[s] = o /\ \A x \in Sockets \ {s} : sock'[x] = sock[x]
      /\ thread'[w] = Idle /\ \A v \in Workers \ {w} : thread'[v] = thread[v]
      /\ Idle.at = "idle" /\ Idle.s = "none" /\ Idle.got = 0 /\ Idle \in Thread
  BY <1>0, <1>1, IdleThread DEF TypeInv, Idle
<1>4. TypeInv'
  BY <1>0, <1>1, <1>3 DEF TypeInv
<1>5. /\ \A v \in Workers \ {w} : ThreadInv(v)' /\ ListInv(v)'
      /\ \A x \in Sockets : Owner[x] # w => SocketInv(x)'
  <2>1. \A v \in Workers : Known(v) => Known(v)'
    BY <1>0 DEF Known
  <2>2. QED BY <1>0, <1>1, <1>3, <2>1, OthersKept
<1>6. ThreadInv(w)' /\ ~Busy(w)' /\ ~Retry(w)'
  BY <1>3, ThreadOut
<1>7. /\ o.pending = sock[s].pending /\ o.pending_bl <= o.data /\ (sock[s].hung_up => o.hung_up)
      /\ (o.connected /\ ~o.error => o.ready \/ o.hung_up)
      /\ (o.peer_msg = "syn" => o.ready) /\ (Sendable(s) => o.ready \/ o.hung_up)
      /\ o.pending_bl = sock[s].pending_bl /\ (sock[s].error => o.error)
  BY <1>1 DEF Step
<1>8. /\ Open(s)' /\ Sendable(s)' = (o.ready \/ o.hung_up) /\ Known(w)' = Known(w)
      /\ \A x \in Sockets \ {s} : Open(x)' = Open(x) /\ Sendable(x)' = Sendable(x)
  BY <1>0, <1>3 DEF Open, Sendable, Known
<1>9. ListInv(w)'
  <2>1. ASSUME NEW x \in Sockets, Contains(pending_sent_conns'[w], x)
        PROVE  /\ Owner[x] = w /\ Open(x)' /\ sock'[x].pending /\ Sendable(x)'
               /\ ~(Retry(w)' /\ thread'[w].s = x)
    <3>1. Owner[x] = w /\ Open(x) /\ sock[x].pending /\ Sendable(x)
      BY <1>0, <2>1 DEF ListInv
    <3>2. CASE x = s
      <4>1. o.pending /\ (o.ready \/ o.hung_up)
        BY <1>7, <3>1, <3>2 DEF Sendable
      <4>2. QED BY <1>1, <1>3, <1>6, <3>2, <4>1 DEF Open, Sendable
    <3>3. CASE x # s
      BY <1>3, <1>6, <1>8, <3>1, <3>3
    <3>4. QED BY <3>2, <3>3
  <2>2. q # <<>> => Known(w)
    BY <1>0 DEF ListInv
  <2>3. QED BY <1>0, <1>8, <2>1, <2>2 DEF ListInv
<1>10. SocketInv(s)'
  <2>1. o.pending => Contains(pending_sent_conns'[w], s)
    BY <1>0, <1>1, <1>2, <1>7 DEF SocketInv
  <2>2. o.pending_bl > 0 /\ ~o.error => o.pending
    BY <1>0, <1>1, <1>7 DEF ThreadInv
  <2>3. Short(s)' => o.pending
    BY <1>3, <2>2 DEF Short
  <2>4. QED BY <1>1, <1>3, <1>7, <1>8, <2>1, <2>3 DEF SocketInv
<1>11. ASSUME NEW x \in Sockets, Owner[x] = w, x # s PROVE SocketInv(x)'
  <2>1. thread[w].s # x
    BY <1>1, <1>11
  <2>2. QED BY <1>0, <1>3, <1>11, <2>1, SocketKept DEF SocketsInv
<1>12. ChunksConserved'
  <2>1. Held' = Held
    BY <1>0, <1>1, <1>3, HeldSame
  <2>2. Polled' = Polled /\ Total(sq)' = Total(sq)
    BY <1>0 DEF Polled
  <2>3. QED BY <1>0, <2>1, <2>2 DEF ChunksConserved
<1>13. WaitInv'
  <2>1. Waiting' => Waiting
    BY <1>0, <1>3 DEF Waiting
  <2>2. Polled' = Polled
    BY <1>0 DEF Polled
  <2>3. ASSUME NEW v \in Workers, Active(v) PROVE Active(v)'
    <3>1. CASE v # w
      BY <1>0, <1>3, <2>3, <3>1 DEF Active, Retry, Busy
    <3>2. CASE v = w
      BY <1>0, <2>3, <3>2 DEF Active
    <3>3. QED BY <3>1, <3>2
  <2>4. Responsible => Responsible'
    BY <1>0, <2>2, <2>3 DEF Responsible
  <2>5. QED BY <1>0, <2>1, <2>4 DEF WaitInv
<1>14. PostedWhenReady'
  <2>1. \A x \in Sockets : sock[x].hung_up => sock'[x].hung_up
    BY <1>3, <1>7
  <2>2. QED BY <1>0, <2>1, PostedKept
<1>15. QED BY <1>4, <1>5, <1>6, <1>9, <1>10, <1>11, <1>12, <1>13, <1>14 DEF IInv

LEMMA ReturnSocket ==
  ASSUME IInv, NEW w \in Workers, Busy(w)
  PROVE  /\ thread[w].s \in Sockets /\ Open(thread[w].s) /\ SocketInv(thread[w].s)
         /\ sock[thread[w].s] \in Socket /\ sock \in [Sockets -> Socket]
<1>1. ThreadInv(w)
  BY DEF IInv
<1>2. thread[w].s \in Sockets /\ Open(thread[w].s)
  BY <1>1 DEF ThreadInv
<1>3. QED BY <1>2, SocketAt DEF IInv, TypeInv

LEMMA SentStep == ASSUME IInv, NEW w \in Workers, sent(w) PROVE IInv'
<1> DEFINE s == thread[w].s
<1>1. /\ thread[w].at = "return" /\ thread[w].caller # "handle_pending_message"
      /\ thread' = [thread EXCEPT ![w] = Idle] /\ sock' = sock
      /\ UNCHANGED <<tx_event, sendVars, hwVars, dispatcher, history>>
  BY DEF sent
<1>2. Busy(w)
  BY <1>1 DEF Busy
<1>3. s \in Sockets /\ Open(s) /\ SocketInv(s) /\ sock[s] \in Socket /\ sock \in [Sockets -> Socket]
  BY <1>2, ReturnSocket
<1>4. sock' = [sock EXCEPT ![s] = sock[s]] /\ Step(s, sock[s]) /\ sock[s].life = "open"
  BY <1>1, <1>3 DEF Step, SocketInv, Sendable, Open
<1>5. QED BY <1>1, <1>3, <1>4, BackStep

LEMMA ActivatedStep == ASSUME IInv, NEW w \in Workers, activated(w) PROVE IInv'
<1> DEFINE s == thread[w].s  a == [sock[s] EXCEPT !.active = TRUE]
<1>1. /\ thread[w].at = "return" /\ thread[w].caller # "handle_pending_message"
      /\ thread' = [thread EXCEPT ![w] = Idle]
      /\ UNCHANGED <<tx_event, sendVars, hwVars, dispatcher, history>>
  BY DEF activated
<1>2. Busy(w)
  BY <1>1 DEF Busy
<1>3. s \in Sockets /\ Open(s) /\ SocketInv(s) /\ sock[s] \in Socket
  BY <1>2, ReturnSocket
<1>4. PICK o \in {a, fault(a)} : sock' = [sock EXCEPT ![s] = o]
  BY DEF activated, send_msg
<1>5. /\ o \in Socket /\ Step(s, o) /\ o.life = "open" /\ o.pending_bl = sock[s].pending_bl
      /\ (sock[s].error => o.error)
  BY <1>3, <1>4 DEF Socket, Step, SocketInv, Sendable, Open, fault
<1> HIDE DEF a
<1>6. QED BY <1>1, <1>4, <1>5, BackStep

LEMMA MakePending ==
  ASSUME TypeInv, NEW w \in Workers, make_pending_worker(w), tx_event' = tx_event
  PROVE  /\ pending_workers' \in Seq(Workers) /\ pending_workers' # <<>> /\ Known(w)'
         /\ \A v \in Workers : Known(v) => Known(v)'
<1>1. pending_workers \in Seq(Workers)
  BY DEF TypeInv
<1>2. CASE Contains(pending_workers, w)
  <2>1. pending_workers' = pending_workers
    BY <1>2 DEF make_pending_worker
  <2>2. QED BY <1>1, <1>2, <2>1, ContainsType DEF Known
<1>3. CASE ~Contains(pending_workers, w)
  <2>1. pending_workers' = Append(pending_workers, w)
    BY <1>3 DEF make_pending_worker
  <2>2. /\ Append(pending_workers, w) \in Seq(Workers) /\ Append(pending_workers, w) # <<>>
        /\ \A v : Contains(Append(pending_workers, w), v) <=> Contains(pending_workers, v) \/ v = w
    BY <1>1, AppendProps
  <2>3. QED BY <2>1, <2>2 DEF Known
<1>4. QED BY <1>2, <1>3

LEMMA NotifyProps ==
  ASSUME TypeInv, notify_pending_workers
  PROVE  /\ pending_workers' \in Seq(Workers) /\ tx_event' \in [Workers -> Nat]
         /\ \A v \in Workers : Known(v) => Known(v)'
         /\ \A v \in Workers : tx_event[v] > 0 => tx_event'[v] > 0
         /\ pending_workers # <<>> => \E v \in Workers : tx_event'[v] > 0
         /\ pending_workers = <<>> =>
              /\ pending_workers' = <<>>
              /\ (\E w \in Workers : thread[w].at = "submit" /\ thread[w].got = 0) => missed'
         /\ (missed => missed') /\ missed' \in BOOLEAN
<1>0. /\ pending_workers \in Seq(Workers) /\ tx_event \in [Workers -> Nat]
      /\ missed \in BOOLEAN
  BY DEF TypeInv
<1>1. missed' \in BOOLEAN /\ (missed => missed')
  BY <1>0 DEF notify_pending_workers
<1>2. CASE pending_workers = <<>>
  <2>1. /\ pending_workers' = <<>> /\ tx_event' = tx_event
        /\ ((\E w \in Workers : thread[w].at = "submit" /\ thread[w].got = 0) => missed')
    BY <1>2 DEF notify_pending_workers
  <2>2. QED BY <1>0, <1>1, <1>2, <2>1 DEF Known
<1>3. CASE pending_workers # <<>>
  <2> DEFINE h == Head(pending_workers)
  <2>1. /\ h \in Workers /\ Tail(pending_workers) \in Seq(Workers)
        /\ \A v : Contains(pending_workers, v) <=> Contains(Tail(pending_workers), v) \/ v = h
    BY <1>0, <1>3, TailProps
  <2>2. /\ pending_workers' = Tail(pending_workers)
        /\ tx_event' = [tx_event EXCEPT ![h] = @ + 1]
    BY <1>3 DEF notify_pending_workers
  <2> HIDE DEF h
  <2>3. /\ tx_event' \in [Workers -> Nat] /\ tx_event'[h] > 0
        /\ \A v \in Workers \ {h} : tx_event'[v] = tx_event[v]
    BY <1>0, <2>1, <2>2
  <2>4. \A v \in Workers : tx_event[v] > 0 => tx_event'[v] > 0
    BY <2>3
  <2>5. \A v \in Workers : Known(v) => Known(v)'
    BY <2>1, <2>2, <2>3, <2>4 DEF Known
  <2>6. QED BY <1>1, <1>3, <2>1, <2>2, <2>3, <2>4, <2>5
<1>4. QED BY <1>2, <1>3


-------------------------------------------------------------------------------
(* The loop of handle_pending_message. *)

\* Facts about a step of worker w that changes no socket.
LEMMA SameSockets ==
  ASSUME sock' = sock
  PROVE  \A x \in Sockets : Open(x)' = Open(x) /\ Sendable(x)' = Sendable(x)
BY DEF Open, Sendable

\* A worker that is in no submit, before or after, and keeps its list.
LEMMA LoopStep ==
  ASSUME IInv, NEW w \in Workers, thread[w].at \in {"idle", "pending"},
         NEW t \in Thread, t.at \in {"idle", "pending"}, t.s = "none", t.got = 0,
         thread' = [thread EXCEPT ![w] = t],
         tx_event' \in [Workers -> Nat], pending_workers' \in Seq(Workers), missed' \in BOOLEAN,
         \A v \in Workers \ {w} : Known(v) => Known(v)',
         t.at = "pending" \/ pending_sent_conns[w] = <<>>,
         UNCHANGED <<sock, pending_sent_conns, free_chunks, hwVars, dispatcher, refused, lost>>
  PROVE  /\ TypeInv' /\ WorkersInv' /\ SocketsInv' /\ ChunksConserved' /\ PostedWhenReady'
         /\ Polled' = Polled
<1> DEFINE q == pending_sent_conns[w]
<1>0. /\ TypeInv /\ WorkersInv /\ SocketsInv /\ ChunksConserved /\ PostedWhenReady
      /\ ThreadInv(w) /\ ListInv(w) /\ ~Busy(w) /\ ~Retry(w)
      /\ UNCHANGED <<sock, pending_sent_conns, free_chunks, sq, tx_cq, tx_error, dispatcher,
                     refused, lost>>
  BY DEF IInv, WorkersInv, SocketsInv, hwVars, Busy, Retry
<1>1. thread'[w] = t /\ \A v \in Workers \ {w} : thread'[v] = thread[v]
  BY <1>0 DEF TypeInv
<1>2. thread[w].s = "none" /\ thread[w].got = 0
  BY <1>0 DEF ThreadInv
<1>3. TypeInv'
  BY <1>0 DEF TypeInv
<1>4. /\ \A v \in Workers \ {w} : ThreadInv(v)' /\ ListInv(v)'
      /\ \A x \in Sockets : Owner[x] # w => SocketInv(x)'
  BY <1>0, <1>1, OthersKept
<1>5. ThreadInv(w)' /\ ~Busy(w)' /\ ~Retry(w)'
  BY <1>1, ThreadOut
<1>6. ListInv(w)'
  <2>1. \A x \in Sockets : Open(x)' = Open(x) /\ Sendable(x)' = Sendable(x)
    BY <1>0, SameSockets
  <2>2. QED BY <1>0, <1>1, <1>5, <2>1 DEF ListInv
<1>7. ASSUME NEW x \in Sockets, Owner[x] = w PROVE SocketInv(x)'
  <2>1. thread[w].s # x
    BY <1>2, RdmaSocketAssumption
  <2>2. QED BY <1>0, <1>1, <1>7, <2>1, SocketKept DEF SocketsInv
<1>8. Polled' = Polled
  BY <1>0 DEF Polled
<1>9. ChunksConserved'
  <2>1. Held' = Held
    BY <1>0, <1>2, HeldSame
  <2>2. QED BY <1>0, <1>8, <2>1 DEF ChunksConserved
<1>10. PostedWhenReady'
  BY <1>0, PostedKept
<1>11. QED BY <1>3, <1>4, <1>5, <1>6, <1>7, <1>8, <1>9, <1>10 DEF WorkersInv, SocketsInv

LEMMA HandlePendingStep ==
  ASSUME IInv, NEW w \in Workers, handle_pending_message(w) PROVE IInv'
<1> DEFINE t == [thread[w] EXCEPT !.at = "pending"]
<1>0. TypeInv /\ ThreadInv(w) /\ thread[w] \in Thread /\ tx_event \in [Workers -> Nat]
  BY DEF IInv, TypeInv
<1>1. /\ thread[w].at = "idle" /\ tx_event[w] > 0 /\ tx_event' = [tx_event EXCEPT ![w] = @ - 1]
      /\ UNCHANGED <<sock, pending_sent_conns, pending_workers, free_chunks, hwVars, dispatcher,
                     refused, lost, missed>>
  BY DEF handle_pending_message, Runs, sendVars, history
<1>2. thread' = [thread EXCEPT ![w] = t]
  BY <1>0 DEF handle_pending_message, TypeInv
<1>3. t \in Thread /\ t.at = "pending" /\ t.s = "none" /\ t.got = 0
  BY <1>0, <1>1 DEF Thread, ThreadInv, Busy
<1> HIDE DEF t
<1>4. /\ tx_event' \in [Workers -> Nat] /\ pending_workers' \in Seq(Workers)
      /\ missed' \in BOOLEAN /\ \A v \in Workers \ {w} : tx_event'[v] = tx_event[v]
  BY <1>0, <1>1 DEF TypeInv
<1>5. \A v \in Workers \ {w} : Known(v) => Known(v)'
  BY <1>1, <1>4 DEF Known
<1>6. /\ TypeInv' /\ WorkersInv' /\ SocketsInv' /\ ChunksConserved' /\ PostedWhenReady'
  BY <1>1, <1>2, <1>3, <1>4, <1>5, LoopStep
<1>7. thread'[w] = t
  BY <1>0, <1>2 DEF TypeInv
<1>8. Active(w)'
  BY <1>3, <1>7 DEF Active
<1>9. WaitInv'
  BY <1>8 DEF WaitInv, Responsible
<1>10. QED BY <1>6, <1>9 DEF IInv, WorkersInv, SocketsInv

LEMMA PendingDoneStep == ASSUME IInv, NEW w \in Workers, pending_done(w) PROVE IInv'
<1>0. TypeInv /\ WaitInv /\ thread \in [Workers -> Thread]
  BY DEF IInv, TypeInv
<1>1. /\ thread[w].at = "pending" /\ pending_sent_conns[w] = <<>> /\ notify_pending_workers
      /\ thread' = [thread EXCEPT ![w] = Idle]
      /\ UNCHANGED <<sock, pending_sent_conns, free_chunks, hwVars, dispatcher, refused, lost>>
  BY DEF pending_done
<1>2. /\ pending_workers' \in Seq(Workers) /\ tx_event' \in [Workers -> Nat]
      /\ \A v \in Workers : Known(v) => Known(v)'
      /\ \A v \in Workers : tx_event[v] > 0 => tx_event'[v] > 0
      /\ pending_workers # <<>> => \E v \in Workers : tx_event'[v] > 0
      /\ pending_workers = <<>> =>
           /\ pending_workers' = <<>>
           /\ (\E v \in Workers : thread[v].at = "submit" /\ thread[v].got = 0) => missed'
      /\ missed' \in BOOLEAN
  BY <1>0, <1>1, NotifyProps
<1>3. Idle.at = "idle" /\ Idle.s = "none" /\ Idle.got = 0 /\ Idle \in Thread
  BY IdleThread DEF Idle
<1>4. /\ TypeInv' /\ WorkersInv' /\ SocketsInv' /\ ChunksConserved' /\ PostedWhenReady'
  BY <1>1, <1>2, <1>3, LoopStep
<1>5. WaitInv'
  <2>1. CASE pending_workers # <<>>
    BY <1>2, <2>1 DEF WaitInv, Responsible, Active
  <2>2. CASE pending_workers = <<>>
    <3>1. Waiting' => \E v \in Workers : thread[v].at = "submit" /\ thread[v].got = 0
      BY <1>0, <1>1, <1>2, <1>3, <2>2 DEF Waiting
    <3>2. QED BY <1>2, <2>2, <3>1 DEF WaitInv, Responsible
  <2>3. QED BY <2>1, <2>2
<1>6. QED BY <1>4, <1>5 DEF IInv, WorkersInv, SocketsInv

LEMMA SubmittedPendingStep ==
  ASSUME IInv, NEW w \in Workers, submitted_pending(w) PROVE IInv'
<1> DEFINE q == pending_sent_conns[w]
<1>0. /\ TypeInv /\ WorkersInv /\ SocketsInv /\ ChunksConserved /\ WaitInv /\ PostedWhenReady
      /\ ThreadInv(w) /\ ListInv(w) /\ q \in Seq(Sockets) /\ thread[w] \in Thread
      /\ sock \in [Sockets -> Socket]
      /\ thread[w].at = "return" /\ thread[w].caller = "handle_pending_message"
      /\ UNCHANGED <<tx_event, free_chunks, sq, tx_cq, tx_error, dispatcher, refused, lost, missed>>
  BY DEF submitted_pending, IInv, WorkersInv, SocketsInv, TypeInv, hwVars, history
<1>1. Busy(w) /\ Retry(w)
  BY <1>0 DEF Busy, Retry
<1>2. PICK s \in Sockets : /\ s = thread[w].s /\ Owner[s] = w /\ Open(s) /\ thread[w].got = 0
                           /\ sock[s].pending /\ Sendable(s) /\ ~Contains(q, s)
  BY <1>0, <1>1 DEF ThreadInv, ListInv
<1>3. SocketInv(s) /\ sock[s] \in Socket /\ s # "none"
  BY <1>2, SocketAt, RdmaSocketAssumption
<1>4. CASE thread[w].r = "EAGAIN"
  <2>1. /\ pending_sent_conns' = [pending_sent_conns EXCEPT ![w] = Append(q, s)]
        /\ make_pending_worker(w) /\ thread' = [thread EXCEPT ![w] = Idle] /\ sock' = sock
    BY <1>2, <1>4 DEF submitted_pending
  <2>2. /\ pending_workers' \in Seq(Workers) /\ pending_workers' # <<>> /\ Known(w)'
        /\ \A v \in Workers : Known(v) => Known(v)'
    BY <1>0, <2>1, MakePending
  <2>3. Idle.at = "idle" /\ Idle.s = "none" /\ Idle.got = 0 /\ Idle \in Thread
    BY IdleThread DEF Idle
  <2> DEFINE r == Append(q, s)
  <2>4. /\ r \in Seq(Sockets) /\ r # <<>> /\ Once(r)
        /\ \A x \in Sockets : Contains(r, x) <=> Contains(q, x) \/ x = s
    BY <1>0, <1>2, AppendProps DEF ListInv
  <2> HIDE DEF r
  <2>5. /\ thread'[w] = Idle /\ pending_sent_conns'[w] = r
        /\ \A v \in Workers \ {w} : /\ thread'[v] = thread[v]
                                    /\ pending_sent_conns'[v] = pending_sent_conns[v]
    BY <1>0, <2>1 DEF TypeInv, r
  <2>6. TypeInv'
    BY <1>0, <2>1, <2>2, <2>3, <2>4 DEF TypeInv, r
  <2>7. /\ \A v \in Workers \ {w} : ThreadInv(v)' /\ ListInv(v)'
        /\ \A x \in Sockets : Owner[x] # w => SocketInv(x)'
    BY <1>0, <2>1, <2>2, <2>5, OthersKept
  <2>8. ThreadInv(w)' /\ ~Busy(w)' /\ ~Retry(w)'
    BY <2>3, <2>5, ThreadOut
  <2>9. \A x \in Sockets : Open(x)' = Open(x) /\ Sendable(x)' = Sendable(x)
    BY <2>1, SameSockets
  <2>10. ListInv(w)'
    <3>1. ASSUME NEW x \in Sockets, Contains(r, x)
          PROVE  Owner[x] = w /\ Open(x) /\ sock[x].pending /\ Sendable(x)
      BY <1>0, <1>2, <2>4, <3>1 DEF ListInv
    <3>2. QED BY <2>1, <2>2, <2>4, <2>5, <2>8, <2>9, <3>1 DEF ListInv
  <2>11. ASSUME NEW x \in Sockets, Owner[x] = w PROVE SocketInv(x)'
    <3>1. CASE x = s
      <4>1. Contains(pending_sent_conns'[w], s)
        BY <2>4, <2>5
      <4>2. QED BY <1>2, <1>3, <2>1, <3>1, <4>1 DEF SocketInv, Open, Sendable
    <3>2. CASE x # s
      <4>1. Contains(q, x) => Contains(pending_sent_conns'[w], x)
        BY <2>4, <2>5
      <4>2. thread[w].s # x
        BY <1>2, <3>2
      <4>3. QED BY <1>0, <2>1, <2>11, <4>1, <4>2, SocketKept DEF SocketsInv
    <3>3. QED BY <3>1, <3>2
  <2>12. Polled' = Polled /\ Total(sq)' = Total(sq)
    BY <1>0 DEF Polled
  <2>13. ChunksConserved'
    <3>1. Held' = Held
      BY <1>0, <1>2, <2>1, <2>3, HeldSame
    <3>2. QED BY <1>0, <2>12, <3>1 DEF ChunksConserved
  <2>14. WaitInv'
    <3>1. Known(w)
      BY <1>0, <1>4 DEF ThreadInv
    <3>2. ASSUME NEW v \in Workers, Active(v) PROVE Active(v)'
      <4>1. CASE v # w
        BY <1>0, <2>5, <3>2, <4>1 DEF Active, Retry, Busy
      <4>2. CASE v = w
        BY <1>0, <1>4, <3>2, <4>2 DEF Active
      <4>3. QED BY <4>1, <4>2
    <3>3. Responsible => Responsible'
      BY <1>0, <2>12, <3>2 DEF Responsible
    <3>4. CASE tx_event[w] > 0
      BY <1>0, <3>4 DEF WaitInv, Responsible, Active
    <3>5. CASE Contains(pending_workers, w)
      <4>1. Waiting
        BY <1>0, <3>5, ContainsType DEF Waiting, TypeInv
      <4>2. QED BY <1>0, <3>3, <4>1 DEF WaitInv
    <3>6. QED BY <3>1, <3>4, <3>5 DEF Known
  <2>15. PostedWhenReady'
    BY <1>0, <2>1, PostedKept
  <2>16. QED BY <2>6, <2>7, <2>8, <2>10, <2>11, <2>13, <2>14, <2>15 DEF IInv
<1>5. CASE thread[w].r # "EAGAIN"
  <2> DEFINE t == [Idle EXCEPT !.at = "pending"]
  <2>1. PICK o \in Socket :
          /\ sock' = [sock EXCEPT ![s] = o]
          /\ ~o.pending /\ o.pending_bl = sock[s].pending_bl /\ o.data = sock[s].data
          /\ o.life = sock[s].life /\ o.ready = sock[s].ready /\ o.hung_up = sock[s].hung_up
          /\ o.peer_msg = sock[s].peer_msg
          /\ \/ o.error
             \/ /\ thread[w].r = "ok" /\ o.error = sock[s].error
                /\ o.connected = sock[s].connected
    <3> DEFINE a == [fault(sock[s]) EXCEPT !.pending = FALSE]
               b == [sock[s] EXCEPT !.pending = FALSE]
    <3>1. /\ a \in Socket /\ ~a.pending /\ a.pending_bl = sock[s].pending_bl
          /\ a.data = sock[s].data /\ a.life = sock[s].life /\ a.ready = sock[s].ready
          /\ a.hung_up = sock[s].hung_up /\ a.peer_msg = sock[s].peer_msg /\ a.error
      BY <1>3 DEF Socket, fault
    <3>2. /\ b \in Socket /\ ~b.pending /\ b.pending_bl = sock[s].pending_bl
          /\ b.data = sock[s].data /\ b.life = sock[s].life /\ b.ready = sock[s].ready
          /\ b.hung_up = sock[s].hung_up /\ b.peer_msg = sock[s].peer_msg
          /\ b.error = sock[s].error /\ b.connected = sock[s].connected
      BY <1>3 DEF Socket
    <3>3. sock' = [sock EXCEPT ![s] = IF thread[w].r = "error" THEN a ELSE b]
      BY <1>2, <1>5 DEF submitted_pending
    <3> HIDE DEF a, b
    <3>4. CASE thread[w].r = "error"
      BY <3>1, <3>3, <3>4
    <3>5. CASE thread[w].r # "error"
      <4>1. thread[w].r = "ok"
        BY <1>0, <1>5, <3>5 DEF Thread
      <4>2. QED BY <3>2, <3>3, <3>5, <4>1
    <3>6. QED BY <3>4, <3>5
  <2>2. thread' = [thread EXCEPT ![w] = t] /\ UNCHANGED <<pending_sent_conns, pending_workers>>
    BY <1>5 DEF submitted_pending
  <2>3. t \in Thread /\ t.at = "pending" /\ t.s = "none" /\ t.got = 0
    BY IdleThread DEF Idle
  <2> HIDE DEF t
  <2>4. /\ thread'[w] = t /\ \A v \in Workers \ {w} : thread'[v] = thread[v]
        /\ sock'[s] = o /\ \A x \in Sockets \ {s} : sock'[x] = sock[x]
    BY <1>0, <2>1, <2>2 DEF TypeInv
  <2>5. TypeInv'
    BY <1>0, <2>1, <2>2, <2>3 DEF TypeInv
  <2>6. /\ \A v \in Workers \ {w} : ThreadInv(v)' /\ ListInv(v)'
        /\ \A x \in Sockets : Owner[x] # w => SocketInv(x)'
    <3>1. \A v \in Workers : Known(v) => Known(v)'
      BY <1>0, <2>2 DEF Known
    <3>2. QED BY <1>0, <1>2, <2>2, <2>4, <3>1, OthersKept
  <2>7. ThreadInv(w)' /\ ~Busy(w)' /\ ~Retry(w)'
    BY <2>3, <2>4, ThreadOut
  <2>8. \A x \in Sockets \ {s} : Open(x)' = Open(x) /\ Sendable(x)' = Sendable(x)
    BY <2>4 DEF Open, Sendable
  <2>9. ListInv(w)'
    <3>1. ASSUME NEW x \in Sockets, Contains(q, x)
          PROVE  x # s /\ Owner[x] = w /\ Open(x) /\ sock[x].pending /\ Sendable(x)
      BY <1>0, <1>2, <3>1 DEF ListInv
    <3>2. QED BY <1>0, <2>2, <2>3, <2>4, <2>7, <2>8, <3>1 DEF ListInv
  <2>10. SocketInv(s)'
    <3>1. ~Short(s)'
      BY <1>0, <1>2, <2>1, <2>4 DEF ThreadInv, Short
    <3>2. /\ o.pending_bl <= o.data /\ (o.connected /\ ~o.error => o.ready \/ o.hung_up)
          /\ (o.peer_msg = "syn" => o.ready) /\ o.life = "open"
      BY <1>2, <1>3, <2>1 DEF SocketInv, Sendable, Open
    <3>3. QED BY <2>1, <2>4, <3>1, <3>2 DEF SocketInv, Sendable
  <2>11. ASSUME NEW x \in Sockets, Owner[x] = w, x # s PROVE SocketInv(x)'
    <3>1. thread[w].s # x
      BY <1>2, <2>11
    <3>2. QED BY <1>0, <2>2, <2>4, <2>11, <3>1, SocketKept DEF SocketsInv
  <2>12. ChunksConserved'
    <3>1. Held' = Held
      BY <1>0, <1>2, <2>2, <2>3, HeldSame
    <3>2. Polled' = Polled /\ Total(sq)' = Total(sq)
      BY <1>0 DEF Polled
    <3>3. QED BY <1>0, <3>1, <3>2 DEF ChunksConserved
  <2>13. WaitInv'
    <3>1. Active(w)'
      BY <2>3, <2>4 DEF Active
    <3>2. QED BY <3>1 DEF WaitInv, Responsible
  <2>14. PostedWhenReady'
    <3>1. \A x \in Sockets : sock[x].hung_up => sock'[x].hung_up
      BY <2>1, <2>4
    <3>2. QED BY <1>0, <3>1, PostedKept
  <2>15. QED BY <2>5, <2>6, <2>7, <2>9, <2>10, <2>11, <2>12, <2>13, <2>14 DEF IInv
<1>6. QED BY <1>4, <1>5


-------------------------------------------------------------------------------
(* The second half of submit. *)

LEMMA SubmitStep == ASSUME IInv, NEW w \in Workers, submit(w) PROVE IInv'
<1> DEFINE q == pending_sent_conns[w]
<1>0. /\ TypeInv /\ WorkersInv /\ SocketsInv /\ ChunksConserved /\ WaitInv /\ PostedWhenReady
      /\ ThreadInv(w) /\ ListInv(w) /\ q \in Seq(Sockets) /\ thread[w] \in Thread
      /\ sock \in [Sockets -> Socket] /\ sq \in [Sockets -> Nat] /\ refused \in Nat
      /\ free_chunks \in Nat /\ lost \in Nat
      /\ thread[w].at = "submit" /\ Busy(w)
      /\ UNCHANGED <<tx_event, free_chunks, tx_cq, tx_error, dispatcher, lost, missed>>
  BY DEF submit, IInv, WorkersInv, SocketsInv, TypeInv, Busy
<1>1. PICK s \in Sockets : s = thread[w].s /\ Owner[s] = w /\ Open(s) /\ Sendable(s)
  BY <1>0 DEF ThreadInv
<1>2. PICK n \in Nat : n = thread[w].got /\ n <= sock[s].pending_bl
  BY <1>0, <1>1 DEF ThreadInv, Thread
<1>3. SocketInv(s) /\ sock[s] \in Socket
  BY <1>1, SocketAt
<1> DEFINE o == sock[s]  short == n < o.pending_bl  left == o.pending_bl - n
           r == IF n > 0 /\ ~o.ready THEN "error" ELSE IF left > 0 THEN "EAGAIN" ELSE "ok"
           t == [thread[w] EXCEPT !.at = "return", !.got = 0, !.r = r]
           p == [o EXCEPT !.pending_bl = left, !.pending = @ \/ short]
<1>4. /\ o.pending_bl \in 0 .. MaxData /\ o.data \in 0 .. MaxData /\ o.pending \in BOOLEAN
      /\ o.ready \in BOOLEAN /\ o.pending_bl <= o.data
      /\ left \in 0 .. MaxData /\ left <= o.data /\ (left > 0 <=> short)
  <2>1. /\ o.pending_bl \in 0 .. MaxData /\ o.data \in 0 .. MaxData /\ o.pending \in BOOLEAN
        /\ o.ready \in BOOLEAN /\ o.pending_bl <= o.data /\ MaxData \in Nat
    BY <1>3, RdmaSocketAssumption DEF Socket, SocketInv
  <2>2. QED BY <1>2, <2>1
<1>5. /\ t \in Thread /\ t.s = s /\ t.at = "return" /\ t.got = 0 /\ t.caller = thread[w].caller
      /\ t.r = r /\ thread' = [thread EXCEPT ![w] = t]
  BY <1>0, <1>1, <1>2 DEF submit, Thread, TypeInv
<1>6. /\ p \in Socket /\ p.pending_bl = left /\ p.pending = (o.pending \/ short)
      /\ p.life = o.life /\ p.ready = o.ready /\ p.hung_up = o.hung_up /\ p.data = o.data
      /\ p.connected = o.connected /\ p.error = o.error /\ p.peer_msg = o.peer_msg
  <2> HIDE DEF left, short
  <2>1. QED BY <1>3, <1>4 DEF Socket
<1>7. sock' = [sock EXCEPT ![s] = p]
  BY <1>0, <1>1, <1>2, <1>3 DEF submit, Socket
<1>8. /\ sq' = [sq EXCEPT ![s] = IF o.ready THEN @ + n ELSE @]
      /\ refused' = IF o.ready THEN refused ELSE refused + n
      /\ pending_sent_conns' = IF short /\ ~o.pending
                               THEN [pending_sent_conns EXCEPT ![w] = Append(q, s)]
                               ELSE pending_sent_conns
      /\ IF short THEN make_pending_worker(w) ELSE pending_workers' = pending_workers
  BY <1>1, <1>2 DEF submit, get_reged_mem
<1>9. r = "EAGAIN" => left > 0
  OBVIOUS
<1>10. left > 0 => r # "ok"
  OBVIOUS
<1> HIDE DEF t, p, r, left
<1>11. /\ pending_workers' \in Seq(Workers) /\ (short => Known(w)')
       /\ (short => pending_workers' # <<>>)
       /\ \A v \in Workers : Known(v) => Known(v)'
  <2>1. CASE short
    BY <1>0, <1>8, <2>1, MakePending
  <2>2. CASE ~short
    BY <1>0, <1>8, <2>2 DEF Known, TypeInv
  <2>3. QED BY <2>1, <2>2
<1> DEFINE k == pending_sent_conns'[w]
<1>12. /\ k \in Seq(Sockets) /\ Once(k)
       /\ pending_sent_conns' \in [Workers -> Seq(Sockets)]
       /\ \A v \in Workers \ {w} : pending_sent_conns'[v] = pending_sent_conns[v]
       /\ \A x \in Sockets : Contains(k, x) <=> Contains(q, x) \/ (x = s /\ short /\ ~o.pending)
       /\ (k # <<>> => q # <<>> \/ short)
  <2>1. Once(q) /\ (~o.pending => ~Contains(q, s))
    BY <1>0 DEF ListInv
  <2>2. CASE short /\ ~o.pending
    <3>1. k = Append(q, s) /\ pending_sent_conns' = [pending_sent_conns EXCEPT ![w] = Append(q, s)]
      BY <1>0, <1>8, <2>2 DEF TypeInv
    <3>2. /\ Append(q, s) \in Seq(Sockets) /\ Once(Append(q, s))
          /\ \A x : Contains(Append(q, s), x) <=> Contains(q, x) \/ x = s
      BY <1>0, <2>1, <2>2, AppendProps
    <3>3. QED BY <1>0, <2>2, <3>1, <3>2 DEF TypeInv
  <2>3. CASE ~ (short /\ ~o.pending)
    <3>1. pending_sent_conns' = pending_sent_conns
      BY <1>8, <2>3
    <3>2. QED BY <1>0, <2>1, <2>3, <3>1 DEF TypeInv
  <2>4. QED BY <2>2, <2>3
<1> HIDE DEF k
<1>13. /\ sock'[s] = p /\ \A x \in Sockets \ {s} : sock'[x] = sock[x]
       /\ thread'[w] = t /\ \A v \in Workers \ {w} : thread'[v] = thread[v]
       /\ sq' \in [Sockets -> Nat] /\ refused' \in Nat
       /\ sq'[s] = (IF o.ready THEN sq[s] + n ELSE sq[s])
       /\ \A x \in Sockets \ {s} : sq'[x] = sq[x]
  BY <1>0, <1>5, <1>7, <1>8 DEF TypeInv
<1>14. TypeInv'
  BY <1>0, <1>5, <1>6, <1>7, <1>11, <1>12, <1>13 DEF TypeInv
<1>15. /\ \A v \in Workers \ {w} : ThreadInv(v)' /\ ListInv(v)'
       /\ \A x \in Sockets : Owner[x] # w => SocketInv(x)'
  BY <1>0, <1>1, <1>11, <1>12, <1>13, OthersKept
<1>16. /\ Busy(w)' /\ Retry(w)' = Retry(w)
       /\ \A x \in Sockets : Open(x)' = Open(x) /\ Sendable(x)' = Sendable(x)
       /\ (Retry(w) => o.pending)
  <2>1. Busy(w)' /\ Retry(w)' = Retry(w)
    BY <1>0, <1>5, <1>13 DEF Busy, Retry
  <2>2. ASSUME NEW x \in Sockets PROVE Open(x)' = Open(x) /\ Sendable(x)' = Sendable(x)
    <3>1. CASE x = s
      BY <1>6, <1>13, <3>1 DEF Open, Sendable
    <3>2. CASE x # s
      BY <1>13, <3>2 DEF Open, Sendable
    <3>3. QED BY <3>1, <3>2
  <2>3. QED BY <1>0, <1>1, <2>1, <2>2 DEF ThreadInv
<1>17. ThreadInv(w)'
  <2>1. p.life = "open" /\ (p.ready \/ p.hung_up)
    BY <1>1, <1>6 DEF Open, Sendable
  <2>2. t.caller = "handle_pending_message" => p.pending
    BY <1>0, <1>5, <1>6, <1>16 DEF Retry
  <2>3. t.r = "EAGAIN" => Known(w)'
    BY <1>4, <1>5, <1>9, <1>11
  <2>4. p.pending_bl > 0 => t.r # "ok" /\ p.pending
    BY <1>4, <1>5, <1>6, <1>10
  <2>5. QED BY <1>1, <1>5, <1>13, <2>1, <2>2, <2>3, <2>4, ThreadNext
<1>18. ListInv(w)'
  <2>1. ASSUME NEW x \in Sockets, Contains(k, x)
        PROVE  /\ Owner[x] = w /\ Open(x)' /\ sock'[x].pending /\ Sendable(x)'
               /\ ~(Retry(w)' /\ thread'[w].s = x)
    <3>1. CASE x = s /\ short /\ ~o.pending
      <4>1. ~Retry(w)' /\ Open(s)' /\ Sendable(s)'
        BY <1>1, <1>16, <3>1
      <4>2. sock'[s].pending
        BY <1>6, <1>13, <3>1
      <4>3. QED BY <1>1, <1>16, <3>1, <4>1, <4>2
    <3>2. CASE Contains(q, x)
      <4>1. /\ Owner[x] = w /\ Open(x) /\ sock[x].pending /\ Sendable(x)
            /\ ~(Retry(w) /\ s = x)
        BY <1>0, <1>1, <3>2 DEF ListInv
      <4>2. sock'[x].pending
        <5>1. CASE x = s
          BY <1>6, <1>13, <4>1, <5>1
        <5>2. CASE x # s
          BY <1>13, <4>1, <5>2
        <5>3. QED BY <5>1, <5>2
      <4>3. QED BY <1>5, <1>13, <1>16, <4>1, <4>2
    <3>3. QED BY <1>12, <2>1, <3>1, <3>2
  <2>2. k # <<>> => Known(w)' \/ Retry(w)'
    BY <1>0, <1>11, <1>12, <1>16 DEF ListInv
  <2>3. QED BY <1>12, <2>1, <2>2 DEF ListInv, k
<1>19. SocketInv(s)'
  <2>1. p.pending => Contains(k, s) \/ (Retry(w)' /\ thread'[w].s = s)
    <3>1. CASE o.pending
      BY <1>1, <1>3, <1>5, <1>12, <1>13, <1>16, <3>1 DEF SocketInv
    <3>2. CASE ~o.pending
      BY <1>6, <1>12, <3>2
    <3>3. QED BY <3>1, <3>2
  <2>2. thread'[w].s = s
    BY <1>5, <1>13
  <2>3. /\ p.pending_bl <= p.data /\ (p.peer_msg = "syn" => p.ready) /\ p.life = "open"
        /\ (p.ready \/ p.hung_up)
    BY <1>1, <1>3, <1>4, <1>6 DEF SocketInv, Open, Sendable
  <2>4. QED BY <1>1, <1>13, <2>1, <2>2, <2>3 DEF SocketInv, Sendable, k
<1>20. ASSUME NEW x \in Sockets, Owner[x] = w, x # s PROVE SocketInv(x)'
  <2>1. thread[w].s # x
    BY <1>1, <1>20
  <2>2. Contains(q, x) => Contains(k, x)
    BY <1>12
  <2>3. QED BY <1>0, <1>13, <1>20, <2>1, <2>2, SocketKept DEF SocketsInv, k
<1>21. Polled' = Polled
  BY <1>0 DEF Polled
<1>22. ChunksConserved'
  <2> DEFINE H == Held  K == Held'  A == Total(sq)  B == Total(sq')  P == Polled
  <2>1. H \in Nat /\ K \in Nat /\ K + n = H + 0
    BY <1>0, <1>2, <1>5, HeldExcept
  <2>2. A \in Nat /\ B \in Nat /\ B + sq[s] = A + sq'[s] /\ sq[s] \in Nat
    BY <1>0, <1>13, TotalExcept, RdmaSocketAssumption
  <2>3. P \in Nat
    BY <1>0, TotalPositive, RdmaSocketAssumption DEF Polled, TypeInv
  <2>4. free_chunks + H + A + P + refused + lost = NumChunks
    BY <1>0 DEF ChunksConserved
  <2>5. ChunksConserved' = (free_chunks + K + B + P + refused' + lost = NumChunks)
    BY <1>0, <1>21 DEF ChunksConserved
  <2> HIDE DEF H, K, A, B, P
  <2>6. B + refused' = A + refused + n
    <3>1. CASE o.ready
      <4>1. B = A + n /\ refused' = refused
        BY <1>8, <1>13, <2>2, <3>1
      <4>2. QED BY <1>0, <2>2, <4>1
    <3>2. CASE ~o.ready
      <4>1. B = A /\ refused' = refused + n
        BY <1>8, <1>13, <2>2, <3>2
      <4>2. QED BY <1>0, <2>2, <4>1
    <3>3. QED BY <3>1, <3>2
  <2>7. free_chunks + K + B + P + refused' + lost = free_chunks + H + A + P + refused + lost
    <3>1. n \in Nat /\ refused' \in Nat /\ H = K + n
      BY <1>0, <1>13, <2>1, <2>2, <2>3
    <3>2. PICK f \in Nat, l \in Nat, h \in Nat, a \in Nat, d \in Nat, c \in Nat :
            /\ f = free_chunks /\ l = lost /\ h = H /\ a = A /\ d = P /\ c = refused
      BY <1>0, <2>1, <2>2, <2>3
    <3>3. PICK i \in Nat, b \in Nat, e \in Nat : i = K /\ b = B /\ e = refused'
      BY <2>1, <2>2, <3>1
    <3>4. h = i + n /\ b + e = a + c + n
      BY <2>6, <3>1, <3>2, <3>3
    <3>5. f + i + b + d + e + l = f + h + a + d + c + l
      BY <3>4
    <3>6. QED BY <3>2, <3>3, <3>5
  <2>8. QED BY <2>4, <2>5, <2>7
<1>23. WaitInv'
  <2>1. CASE n > 0
    <3>1. sq[s] \in Nat
      BY <1>0
    <3>2. sq'[s] > 0 \/ refused' > 0
      BY <1>0, <1>8, <1>13, <2>1, <3>1
    <3>3. QED BY <3>2 DEF WaitInv, Responsible
  <2>2. CASE n = 0
    <3>1. Waiting
      BY <1>0, <1>2, <2>2 DEF Waiting
    <3>2. refused' = refused /\ \A x \in Sockets : sq'[x] = sq[x]
      BY <1>0, <1>8, <1>13, <2>2
    <3>3. ASSUME NEW v \in Workers, Active(v) PROVE Active(v)'
      <4>1. CASE v # w
        BY <1>0, <1>13, <3>3, <4>1 DEF Active, Retry, Busy
      <4>2. CASE v = w
        <5>1. ~ (thread[w].got > 0) /\ thread[w].at = "submit"
          BY <1>0, <1>2, <2>2
        <5>2. tx_event'[w] > 0
          BY <1>0, <3>3, <4>2, <5>1 DEF Active
        <5>3. QED BY <4>2, <5>2 DEF Active
      <4>3. QED BY <4>1, <4>2
    <3>4. Responsible => Responsible'
      BY <1>0, <1>21, <3>2, <3>3 DEF Responsible
    <3>5. QED BY <1>0, <3>1, <3>4 DEF WaitInv
  <2>3. QED BY <2>1, <2>2
<1>24. PostedWhenReady'
  <2>1. \A x \in Sockets : sock[x].hung_up => sock'[x].hung_up
    BY <1>6, <1>13
  <2>2. CASE o.ready \/ n = 0
    <3>1. refused' = refused
      BY <1>0, <1>8, <2>2
    <3>2. QED BY <1>0, <2>1, <3>1, PostedKept
  <2>3. CASE ~o.ready
    <3>1. sock'[s].hung_up
      BY <1>1, <1>6, <1>13, <2>3 DEF Sendable
    <3>2. QED BY <3>1 DEF PostedWhenReady
  <2>4. QED BY <2>2, <2>3
<1>25. QED BY <1>14, <1>15, <1>17, <1>18, <1>19, <1>20, <1>22, <1>23, <1>24 DEF IInv


-------------------------------------------------------------------------------
(* The hardware and the dispatcher. *)

\* What the dispatcher does to a socket: nothing, a fault, or the end.
Faulted(s) == Open(s) /\ sock[s].connected /\ sock'[s] = fault(sock[s])
Deleted(s) == sock[s].life = "dead" /\ sock'[s] = [sock[s] EXCEPT !.life = "deleted"]

LEMMA DispatcherProps ==
  ASSUME NEW s \in Sockets, sock[s] \in Socket,
         sock'[s] = sock[s] \/ Faulted(s) \/ Deleted(s)
  PROVE  /\ sock'[s] \in Socket /\ Open(s)' = Open(s) /\ Sendable(s)' = Sendable(s)
         /\ sock'[s].pending = sock[s].pending /\ sock'[s].pending_bl = sock[s].pending_bl
         /\ sock'[s].data = sock[s].data /\ sock'[s].peer_msg = sock[s].peer_msg
         /\ sock'[s].ready = sock[s].ready /\ sock'[s].hung_up = sock[s].hung_up
         /\ sock[s].error => sock'[s].error
         /\ sock'[s].connected /\ ~sock'[s].error => sock[s].connected /\ ~sock[s].error
         /\ sock'[s].life = "none" => sock'[s] = sock[s]
<1>1. CASE sock'[s] = sock[s]
  BY <1>1 DEF Open, Sendable
<1>2. CASE Faulted(s)
  BY <1>2 DEF Faulted, Open, Sendable, fault, Socket
<1>3. CASE Deleted(s)
  BY <1>3 DEF Deleted, Open, Sendable, Socket
<1>4. QED BY <1>1, <1>2, <1>3

LEMMA DispatcherStep ==
  ASSUME TypeInv, WorkersInv, SocketsInv, UNCHANGED <<thread, pending_sent_conns>>,
         \A v \in Workers : Known(v) => Known(v)',
         \A s \in Sockets : sock'[s] = sock[s] \/ Faulted(s) \/ Deleted(s)
  PROVE  /\ WorkersInv' /\ SocketsInv' /\ \A s \in Sockets : sock'[s] \in Socket
         /\ \A s \in Sockets : sock[s].hung_up => sock'[s].hung_up
<1>0. sock \in [Sockets -> Socket] /\ Owner \in [Sockets -> Workers]
  BY RdmaSocketAssumption DEF TypeInv
<1>1. \A s \in Sockets :
         /\ sock'[s] \in Socket /\ Open(s)' = Open(s) /\ Sendable(s)' = Sendable(s)
         /\ sock'[s].pending = sock[s].pending /\ sock'[s].pending_bl = sock[s].pending_bl
         /\ sock'[s].data = sock[s].data /\ sock'[s].peer_msg = sock[s].peer_msg
         /\ sock'[s].ready = sock[s].ready /\ sock'[s].hung_up = sock[s].hung_up
         /\ sock[s].error => sock'[s].error
         /\ sock'[s].connected /\ ~sock'[s].error => sock[s].connected /\ ~sock[s].error
         /\ sock'[s].life = "none" => sock'[s] = sock[s]
  BY <1>0, DispatcherProps
<1>2. \A w \in Workers : Busy(w)' = Busy(w) /\ Retry(w)' = Retry(w)
  BY DEF Busy, Retry
<1>3. ASSUME NEW w \in Workers PROVE ThreadInv(w)'
  <2>1. ThreadInv(w) /\ Busy(w)' = Busy(w) /\ Retry(w)' = Retry(w) /\ thread' = thread
        /\ (Known(w) => Known(w)')
    BY <1>2 DEF WorkersInv
  <2>2. CASE Busy(w)
    <3>1. PICK s \in Sockets : s = thread[w].s
      BY <2>1, <2>2 DEF ThreadInv
    <3>2. /\ Open(s)' = Open(s) /\ Sendable(s)' = Sendable(s)
          /\ sock'[s].pending = sock[s].pending /\ sock'[s].pending_bl = sock[s].pending_bl
          /\ (sock[s].error => sock'[s].error)
      BY <1>1
    <3>3. QED BY <2>1, <2>2, <3>1, <3>2 DEF ThreadInv
  <2>3. CASE ~Busy(w)
    <3>1. thread[w].at # "submit" /\ thread[w].at # "return" /\ ~Retry(w)
      BY <2>3 DEF Busy, Retry
    <3>2. QED BY <2>1, <2>3, <3>1 DEF ThreadInv
  <2>4. QED BY <2>2, <2>3
<1>4. ASSUME NEW w \in Workers PROVE ListInv(w)'
  <2>1. ListInv(w) /\ Retry(w)' = Retry(w) /\ (Known(w) => Known(w)')
    BY <1>2 DEF WorkersInv
  <2>2. QED BY <1>1, <2>1 DEF ListInv
<1>5. ASSUME NEW s \in Sockets PROVE SocketInv(s)'
  <2>1. SocketInv(s) /\ Retry(Owner[s])' = Retry(Owner[s])
    BY <1>0, <1>2 DEF SocketsInv
  <2>2. Short(s)' => Short(s)
    BY <1>1 DEF Short
  <2>3. /\ Open(s)' = Open(s) /\ Sendable(s)' = Sendable(s)
        /\ sock'[s].pending = sock[s].pending /\ sock'[s].pending_bl = sock[s].pending_bl
        /\ sock'[s].data = sock[s].data /\ sock'[s].peer_msg = sock[s].peer_msg
        /\ sock'[s].ready = sock[s].ready
        /\ (sock'[s].connected /\ ~sock'[s].error => sock[s].connected /\ ~sock[s].error)
        /\ (sock'[s].life = "none" => sock'[s] = sock[s])
    BY <1>1
  <2>4. QED BY <2>1, <2>2, <2>3 DEF SocketInv
<1>6. QED BY <1>1, <1>3, <1>4, <1>5 DEF WorkersInv, SocketsInv

LEMMA CompleteStep ==
  ASSUME IInv, NEW s \in Sockets, NEW ok \in BOOLEAN, complete(s, ok) PROVE IInv'
<1>0. /\ TypeInv /\ WorkersInv /\ SocketsInv /\ ChunksConserved /\ PostedWhenReady
      /\ sq \in [Sockets -> Nat] /\ tx_cq \in [Sockets -> Nat] /\ sq[s] \in Nat /\ sq[s] > 0
      /\ tx_cq[s] \in Nat
      /\ sq' = [sq EXCEPT ![s] = @ - 1] /\ tx_cq' = [tx_cq EXCEPT ![s] = @ + 1]
      /\ tx_error' = [tx_error EXCEPT ![s] = @ \/ ~ok]
      /\ UNCHANGED <<sock, thread, tx_event, pending_sent_conns, pending_workers, free_chunks,
                     dispatcher, refused, lost, missed>>
  BY DEF IInv, WorkersInv, SocketsInv, TypeInv, complete, sendVars, history
<1>1. /\ sq' \in [Sockets -> Nat] /\ tx_cq' \in [Sockets -> Nat]
      /\ sq'[s] = sq[s] - 1 /\ tx_cq'[s] = tx_cq[s] + 1
      /\ \A x \in Sockets \ {s} : sq'[x] = sq[x] /\ tx_cq'[x] = tx_cq[x]
  BY <1>0
<1>2. TypeInv'
  <2>1. tx_error' \in [Sockets -> BOOLEAN]
    BY <1>0 DEF TypeInv
  <2>2. QED BY <1>0, <1>1, <2>1 DEF TypeInv
<1>3. WorkersInv' /\ SocketsInv' /\ PostedWhenReady'
  <2>1. \A v \in Workers : Known(v) => Known(v)'
    BY <1>0 DEF Known
  <2>2. QED BY <1>0, <2>1, DispatcherStep, PostedKept
<1>4. Held \in Nat /\ Held' = Held
  <2>1. [w \in Workers |-> thread[w].got] \in [Workers -> Nat]
    BY <1>0 DEF TypeInv, Thread
  <2>2. QED BY <1>0, <2>1, TotalPositive, RdmaSocketAssumption DEF Held
<1>5. ChunksConserved'
  <2> DEFINE A == Total(sq)  B == Total(sq')  P == Total(tx_cq)  Q == Total(tx_cq')
             i == sq[s]  j == tx_cq[s]
  <2>1. A \in Nat /\ B \in Nat /\ B + i = A + (i - 1)
    <3>1. A \in Nat /\ B \in Nat /\ B + sq[s] = A + sq'[s]
      <4>1. /\ sq \in [Sockets -> Nat] /\ sq' \in [Sockets -> Nat] /\ IsFiniteSet(Sockets)
            /\ \A x \in Sockets \ {s} : sq'[x] = sq[x]
        BY <1>0, <1>1, RdmaSocketAssumption
      <4>2. QED BY ONLY <4>1, s \in Sockets, TotalExcept
    <3> HIDE DEF A, B
    <3>2. QED BY <1>1, <3>1
  <2>2. P \in Nat /\ Q \in Nat /\ Q + j = P + (j + 1)
    <3>1. P \in Nat /\ Q \in Nat /\ Q + tx_cq[s] = P + tx_cq'[s]
      <4>1. /\ tx_cq \in [Sockets -> Nat] /\ tx_cq' \in [Sockets -> Nat]
            /\ IsFiniteSet(Sockets) /\ \A x \in Sockets \ {s} : tx_cq'[x] = tx_cq[x]
        BY <1>0, <1>1, RdmaSocketAssumption
      <4>2. QED BY ONLY <4>1, s \in Sockets, TotalExcept
    <3> HIDE DEF P, Q
    <3>2. QED BY <1>1, <3>1
  <2>3. i \in Nat /\ j \in Nat
    BY <1>0
  <2>4. free_chunks + Held + A + P + refused + lost = NumChunks
    BY <1>0 DEF ChunksConserved, Polled
  <2>5. ChunksConserved' = (free_chunks + Held + B + Q + refused + lost = NumChunks)
    BY <1>0, <1>4 DEF ChunksConserved, Polled
  <2>6. free_chunks \in Nat /\ refused \in Nat /\ lost \in Nat
    BY <1>0 DEF TypeInv
  <2> HIDE DEF A, B, P, Q, i, j
  <2>7. A = B + 1 /\ Q = P + 1
    BY <2>1, <2>2, <2>3
  <2>8. free_chunks + Held + B + Q + refused + lost = free_chunks + Held + A + P + refused + lost
    BY <1>4, <2>1, <2>2, <2>6, <2>7
  <2>9. QED BY <2>4, <2>5, <2>8
<1>6. Polled' > 0
  <2>1. tx_cq'[s] > 0
    BY <1>0, <1>1
  <2>2. Total(tx_cq') > 0
    BY <1>1, <2>1, TotalPositive, RdmaSocketAssumption
  <2>3. QED BY <2>2 DEF Polled
<1>7. WaitInv'
  BY <1>6 DEF WaitInv, Responsible
<1>8. QED BY <1>2, <1>3, <1>5, <1>7 DEF IInv, WorkersInv, SocketsInv

LEMMA HandleTxEventStep == ASSUME IInv, handle_tx_event PROVE IInv'
<1>0. /\ TypeInv /\ WorkersInv /\ SocketsInv /\ ChunksConserved /\ PostedWhenReady
      /\ tx_cq \in [Sockets -> Nat] /\ sq \in [Sockets -> Nat]
      /\ free_chunks \in Nat /\ refused \in Nat /\ lost \in Nat
      /\ sock' = [s \in Sockets |-> IF tx_error[s] /\ Open(s) /\ sock[s].connected
                                    THEN fault(sock[s]) ELSE sock[s]]
      /\ free_chunks' = free_chunks + Polled
      /\ tx_cq' = [s \in Sockets |-> 0] /\ tx_error' = [s \in Sockets |-> FALSE]
      /\ dispatcher' = "notify"
      /\ UNCHANGED <<thread, tx_event, pending_sent_conns, pending_workers, sq, refused, lost,
                     missed>>
  BY DEF IInv, WorkersInv, SocketsInv, TypeInv, handle_tx_event, history
<1>1. \A s \in Sockets : sock'[s] = sock[s] \/ Faulted(s) \/ Deleted(s)
  BY <1>0 DEF Faulted
<1>2. /\ WorkersInv' /\ SocketsInv' /\ \A s \in Sockets : sock'[s] \in Socket
      /\ \A s \in Sockets : sock[s].hung_up => sock'[s].hung_up
  <2>1. \A v \in Workers : Known(v) => Known(v)'
    BY <1>0 DEF Known
  <2>2. QED BY <1>0, <1>1, <2>1, DispatcherStep
<1>3. Polled \in Nat /\ Polled' = 0
  <2>1. Total(tx_cq) \in Nat
    BY <1>0, TotalPositive, RdmaSocketAssumption
  <2>2. tx_cq' \in [Sockets -> Nat] /\ \A s \in Sockets : tx_cq'[s] = 0
    BY <1>0
  <2>3. Total(tx_cq') = 0
    BY <2>2, TotalZero
  <2>4. QED BY <2>1, <2>3 DEF Polled
<1>4. TypeInv'
  <2>1. sock' \in [Sockets -> Socket]
    BY <1>0, <1>2
  <2>2. /\ tx_cq' \in [Sockets -> Nat] /\ tx_error' \in [Sockets -> BOOLEAN]
        /\ free_chunks' \in Nat /\ dispatcher' \in {"poll", "notify"}
    BY <1>0, <1>3
  <2>3. QED BY <1>0, <2>1, <2>2 DEF TypeInv
<1>5. ChunksConserved'
  <2> DEFINE A == Total(sq)  P == Polled  H == Held
  <2>1. A \in Nat
    BY <1>0, TotalPositive, RdmaSocketAssumption
  <2>2. H \in Nat /\ Held' = H
    <3>1. [w \in Workers |-> thread[w].got] \in [Workers -> Nat]
      BY <1>0 DEF TypeInv, Thread
    <3>2. QED BY <1>0, <3>1, TotalPositive, RdmaSocketAssumption DEF Held
  <2>3. free_chunks + H + A + P + refused + lost = NumChunks
    BY <1>0 DEF ChunksConserved
  <2>4. ChunksConserved' = (free_chunks + P + H + A + 0 + refused + lost = NumChunks)
    BY <1>0, <1>3, <2>2 DEF ChunksConserved
  <2>5. P \in Nat
    BY <1>3
  <2> HIDE DEF A, P, H
  <2>6. free_chunks + P + H + A + 0 + refused + lost = free_chunks + H + A + P + refused + lost
    BY <1>0, <2>1, <2>2, <2>5
  <2>7. QED BY <2>3, <2>4, <2>6
<1>6. WaitInv' /\ PostedWhenReady'
  <2>1. WaitInv'
    BY <1>0 DEF WaitInv, Responsible
  <2>2. QED BY <1>0, <1>2, <2>1, PostedKept
<1>7. QED BY <1>2, <1>4, <1>5, <1>6 DEF IInv, WorkersInv, SocketsInv

LEMMA PostTxBufferStep == ASSUME IInv, post_tx_buffer PROVE IInv'
<1>0. /\ TypeInv /\ WorkersInv /\ SocketsInv /\ ChunksConserved /\ PostedWhenReady
      /\ notify_pending_workers /\ dispatcher' = "poll"
      /\ UNCHANGED <<sock, thread, pending_sent_conns, free_chunks, sq, tx_cq, tx_error,
                     refused, lost>>
  BY DEF IInv, WorkersInv, SocketsInv, post_tx_buffer, hwVars
<1>1. /\ pending_workers' \in Seq(Workers) /\ tx_event' \in [Workers -> Nat]
      /\ \A v \in Workers : Known(v) => Known(v)'
      /\ pending_workers # <<>> => \E v \in Workers : tx_event'[v] > 0
      /\ pending_workers = <<>> =>
           /\ pending_workers' = <<>>
           /\ (\E v \in Workers : thread[v].at = "submit" /\ thread[v].got = 0) => missed'
      /\ missed' \in BOOLEAN
  BY <1>0, NotifyProps
<1>2. TypeInv'
  BY <1>0, <1>1 DEF TypeInv
<1>3. WorkersInv' /\ SocketsInv' /\ PostedWhenReady' /\ ChunksConserved'
  BY <1>0, <1>1, DispatcherStep, PostedKept, CountKept
<1>4. WaitInv'
  <2>1. CASE pending_workers # <<>>
    BY <1>1, <2>1 DEF WaitInv, Responsible, Active
  <2>2. CASE pending_workers = <<>>
    <3>1. Waiting' => \E v \in Workers : thread[v].at = "submit" /\ thread[v].got = 0
      BY <1>0, <1>1, <2>2 DEF Waiting
    <3>2. QED BY <1>1, <2>2, <3>1 DEF WaitInv, Responsible
  <2>3. QED BY <2>1, <2>2
<1>5. QED BY <1>2, <1>3, <1>4 DEF IInv, WorkersInv, SocketsInv


LEMMA DeleteDeadStep == ASSUME IInv, delete_dead_queue_pairs PROVE IInv'
<1> DEFINE dead == {s \in Sockets : sock[s].life = "dead"}
           gone == [s \in dead |-> sq[s]]
           rest == [s \in Sockets \ dead |-> sq[s]]
<1>0. /\ TypeInv /\ WorkersInv /\ SocketsInv /\ ChunksConserved /\ WaitInv /\ PostedWhenReady
      /\ tx_cq \in [Sockets -> Nat] /\ sq \in [Sockets -> Nat]
      /\ free_chunks \in Nat /\ refused \in Nat /\ lost \in Nat
      /\ sock' = [s \in Sockets |-> IF s \in dead THEN [sock[s] EXCEPT !.life = "deleted"]
                                                  ELSE sock[s]]
      /\ sq' = [s \in Sockets |-> IF s \in dead THEN 0 ELSE sq[s]]
      /\ lost' = lost + Total(gone)
      /\ UNCHANGED <<thread, tx_event, pending_sent_conns, pending_workers, free_chunks, tx_cq,
                     tx_error, dispatcher, refused, missed>>
  BY DEF IInv, WorkersInv, SocketsInv, TypeInv, delete_dead_queue_pairs, sendVars
<1>1. \A s \in Sockets : sock'[s] = sock[s] \/ Faulted(s) \/ Deleted(s)
  BY <1>0 DEF Deleted
<1>2. /\ WorkersInv' /\ SocketsInv' /\ \A s \in Sockets : sock'[s] \in Socket
      /\ \A s \in Sockets : sock[s].hung_up => sock'[s].hung_up
  <2>1. \A v \in Workers : Known(v) => Known(v)'
    BY <1>0 DEF Known
  <2>2. QED BY <1>0, <1>1, <2>1, DispatcherStep
<1>3. /\ dead \in SUBSET Sockets /\ IsFiniteSet(dead) /\ gone \in [dead -> Nat]
      /\ \A s \in dead : gone[s] = sq[s]
  <2>1. dead \in SUBSET Sockets /\ IsFiniteSet(dead)
    BY FS_Subset, RdmaSocketAssumption
  <2>2. QED BY <1>0, <2>1
<1>4. sq' \in [Sockets -> Nat] /\ \A s \in Sockets : sq'[s] = IF s \in dead THEN 0 ELSE sq[s]
  BY <1>0
<1> HIDE DEF dead
<1>5. /\ Total(gone) \in Nat /\ Total(rest) \in Nat /\ Total(sq) = Total(gone) + Total(rest)
      /\ Total(sq') = Total(rest)
  <2>1. /\ Total(gone) \in Nat /\ Total(rest) \in Nat /\ Total(sq) = Total(gone) + Total(rest)
    <3>1. sq \in [Sockets -> Nat] /\ dead \in SUBSET Sockets /\ IsFiniteSet(Sockets)
      BY <1>0, <1>3, RdmaSocketAssumption
    <3>2. QED BY ONLY <3>1, TotalSplit
  <2> DEFINE T == Total([s \in dead |-> sq'[s]])  U == Total([s \in Sockets \ dead |-> sq'[s]])
  <2>2. T \in Nat /\ U \in Nat /\ Total(sq') = T + U
    BY <1>3, <1>4, TotalSplit, RdmaSocketAssumption
  <2>3. T = 0
    <3> DEFINE f == [s \in dead |-> sq'[s]]
    <3>1. f \in [dead -> Nat] /\ \A s \in dead : f[s] = 0
      BY <1>3, <1>4
    <3> HIDE DEF f
    <3>2. Total(f) = 0
      BY <3>1, TotalZero
    <3>3. QED BY <3>2 DEF f
  <2>4. U = Total(rest)
    <3>1. [s \in Sockets \ dead |-> sq'[s]] = rest
      BY <1>4
    <3>2. QED BY <3>1
  <2> HIDE DEF T, U
  <2>5. T + U = U
    BY <2>2, <2>3
  <2>6. QED BY <2>1, <2>2, <2>4, <2>5
<1>6. TypeInv'
  <2>1. sock' \in [Sockets -> Socket]
    BY <1>0, <1>2
  <2>2. lost' \in Nat
    BY <1>0, <1>5
  <2>3. QED BY <1>0, <1>4, <2>1, <2>2 DEF TypeInv
<1>7. ChunksConserved'
  <2> DEFINE A == Total(gone)  B == Total(rest)  P == Polled  H == Held
  <2>1. H \in Nat /\ P \in Nat /\ Held' = H /\ Polled' = P
    <3>1. [w \in Workers |-> thread[w].got] \in [Workers -> Nat]
      BY <1>0 DEF TypeInv, Thread
    <3>2. H \in Nat /\ P \in Nat
      BY <1>0, <3>1, TotalPositive, RdmaSocketAssumption DEF Held, Polled
    <3>3. Held' = H /\ Polled' = P
      BY <1>0 DEF Held, Polled
    <3>4. QED BY <3>2, <3>3
  <2>2. A \in Nat /\ B \in Nat
    BY <1>5
  <2>3. free_chunks + H + (A + B) + P + refused + lost = NumChunks
    BY <1>0, <1>5 DEF ChunksConserved
  <2>4. ChunksConserved' = (free_chunks + H + B + P + refused + (lost + A) = NumChunks)
    BY <1>0, <1>5, <2>1 DEF ChunksConserved
  <2> HIDE DEF A, B, P, H
  <2>5. free_chunks + H + B + P + refused + (lost + A)
          = free_chunks + H + (A + B) + P + refused + lost
    BY <1>0, <2>1, <2>2
  <2>6. QED BY <2>3, <2>4, <2>5
<1>8. WaitInv'
  <2>1. Waiting' = Waiting
    BY <1>0 DEF Waiting
  <2>2. ASSUME Responsible PROVE Responsible'
    <3>1. CASE \E s \in Sockets : sq[s] > 0
      <4>1. PICK s \in Sockets : sq[s] > 0
        BY <3>1
      <4>2. CASE s \in dead
        <5>1. Total(gone) > 0
          <6>1. gone[s] > 0
            BY <1>3, <4>1, <4>2
          <6> HIDE DEF gone
          <6>2. QED BY <1>3, <4>2, <6>1, TotalPositive
        <5>2. lost' > 0
          BY <1>0, <1>5, <5>1
        <5>3. QED BY <5>2 DEF Responsible
      <4>3. CASE s \notin dead
        <5>1. sq'[s] > 0
          BY <1>4, <4>1, <4>3
        <5>2. QED BY <5>1 DEF Responsible
      <4>4. QED BY <4>2, <4>3
    <3>2. CASE lost > 0
      <4>1. lost' > 0
        BY <1>0, <1>5, <3>2
      <4>2. QED BY <4>1 DEF Responsible
    <3>3. CASE /\ ~(lost > 0) /\ ~ \E s \in Sockets : sq[s] > 0
      <4>1. Polled' = Polled
        BY <1>0 DEF Polled
      <4>2. \A w \in Workers : Active(w)' = Active(w)
        BY <1>0 DEF Active, Retry, Busy
      <4>3. \/ missed' \/ refused' > 0 \/ dispatcher' = "notify" \/ Polled' > 0
            \/ \E w \in Workers : Active(w)'
        BY <1>0, <2>2, <3>3, <4>1, <4>2 DEF Responsible
      <4>4. QED BY <4>3 DEF Responsible
    <3>4. QED BY <3>1, <3>2, <3>3
  <2>3. QED BY <1>0, <2>1, <2>2 DEF WaitInv
<1>9. PostedWhenReady'
  BY <1>0, <1>2, PostedKept
<1>10. QED BY <1>2, <1>6, <1>7, <1>8, <1>9 DEF IInv, WorkersInv, SocketsInv

-------------------------------------------------------------------------------
(* The invariant. *)

LEMMA InitInv == Init => IInv
<1>1. SUFFICES ASSUME Init PROVE IInv
  OBVIOUS
<1>2. /\ sock = [s \in Sockets |-> NewSocket] /\ thread = [w \in Workers |-> Idle]
      /\ tx_event = [w \in Workers |-> 0] /\ pending_sent_conns = [w \in Workers |-> <<>>]
      /\ pending_workers = <<>> /\ free_chunks = NumChunks
      /\ sq = [s \in Sockets |-> 0] /\ tx_cq = [s \in Sockets |-> 0]
      /\ tx_error = [s \in Sockets |-> FALSE] /\ dispatcher = "poll"
      /\ refused = 0 /\ lost = 0 /\ missed = FALSE /\ NumChunks \in Nat
  BY <1>1, RdmaSocketAssumption DEF Init
<1>3. NewSocket \in Socket /\ Idle \in Thread
  BY IdleThread, RdmaSocketAssumption DEF NewSocket, Socket
<1>4. TypeInv
  <2>1. <<>> \in Seq(Sockets) /\ <<>> \in Seq(Workers)
    OBVIOUS
  <2>2. pending_sent_conns \in [Workers -> Seq(Sockets)] /\ pending_workers \in Seq(Workers)
    BY <1>2, <2>1
  <2>3. sock \in [Sockets -> Socket] /\ thread \in [Workers -> Thread]
    BY <1>2, <1>3
  <2>4. /\ tx_event \in [Workers -> Nat] /\ free_chunks \in Nat
        /\ sq \in [Sockets -> Nat] /\ tx_cq \in [Sockets -> Nat]
        /\ tx_error \in [Sockets -> BOOLEAN] /\ dispatcher \in {"poll", "notify"}
        /\ refused \in Nat /\ lost \in Nat /\ missed \in BOOLEAN
    BY <1>2
  <2>5. QED BY <2>2, <2>3, <2>4 DEF TypeInv
<1>5. ASSUME NEW w \in Workers PROVE ThreadInv(w) /\ ListInv(w)
  <2>1. thread[w] = Idle /\ pending_sent_conns[w] = <<>>
    BY <1>2
  <2>2. ~Busy(w) /\ ~Retry(w)
    BY <2>1 DEF Busy, Retry, Idle
  <2>3. ThreadInv(w)
    BY <2>1, <2>2 DEF ThreadInv, Idle
  <2>4. Once(<<>>) /\ \A s : ~Contains(<<>>, s)
    BY DEF Once, Contains
  <2>5. QED BY <2>1, <2>3, <2>4 DEF ListInv
<1>6. ASSUME NEW s \in Sockets PROVE SocketInv(s)
  <2>1. sock[s] = NewSocket
    BY <1>2
  <2>2. QED BY <2>1, RdmaSocketAssumption DEF SocketInv, NewSocket, Open, Short
<1>7. ChunksConserved
  <2>1. Total(sq) = 0 /\ Total(tx_cq) = 0
    <3>1. sq \in [Sockets -> Nat] /\ tx_cq \in [Sockets -> Nat]
          /\ \A s \in Sockets : sq[s] = 0 /\ tx_cq[s] = 0
      BY <1>2
    <3>2. QED BY <3>1, TotalZero
  <2>2. Held = 0
    <3> DEFINE f == [w \in Workers |-> thread[w].got]
    <3>1. f \in [Workers -> Nat] /\ \A w \in Workers : f[w] = 0
      BY <1>2 DEF Idle
    <3> HIDE DEF f
    <3>2. Total(f) = 0
      BY <3>1, TotalZero
    <3>3. QED BY <3>2 DEF f, Held
  <2>3. NumChunks + 0 + 0 + 0 + 0 + 0 = NumChunks
    BY <1>2
  <2>4. QED BY <1>2, <2>1, <2>2, <2>3 DEF ChunksConserved, Polled
<1>8. WaitInv /\ PostedWhenReady
  <2>1. ~Waiting
    BY <1>2 DEF Waiting, Idle
  <2>2. ~(refused > 0)
    BY <1>2
  <2>3. QED BY <2>1, <2>2 DEF WaitInv, PostedWhenReady
<1>9. QED BY <1>4, <1>5, <1>6, <1>7, <1>8 DEF IInv

LEMMA StutterInv == ASSUME IInv, UNCHANGED vars PROVE IInv'
<1>0. /\ TypeInv /\ WorkersInv /\ SocketsInv /\ ChunksConserved /\ WaitInv /\ PostedWhenReady
      /\ UNCHANGED <<sock, thread, tx_event, pending_sent_conns, pending_workers, free_chunks,
                     sq, tx_cq, tx_error, dispatcher, refused, lost, missed>>
  BY DEF IInv, WorkersInv, SocketsInv, vars, sendVars, hwVars, history
<1>1. TypeInv'
  BY <1>0 DEF TypeInv
<1>2. WorkersInv' /\ SocketsInv'
  <2>1. \A v \in Workers : Known(v) => Known(v)'
    BY <1>0 DEF Known
  <2>2. QED BY <1>0, <2>1, DispatcherStep
<1>3. ChunksConserved' /\ WaitInv' /\ PostedWhenReady'
  BY <1>0, CountKept, WaitKept, PostedKept DEF history
<1>4. QED BY <1>1, <1>2, <1>3 DEF IInv, WorkersInv, SocketsInv

LEMMA StepInv == IInv /\ [Next]_vars => IInv'
<1>1. SUFFICES ASSUME IInv, [Next]_vars PROVE IInv'
  OBVIOUS
<1>2. ASSUME NEW w \in Workers, WorkerStep(w) PROVE IInv'
  <2>1. CASE submit(w)
    BY <1>1, <2>1, SubmitStep
  <2>2. CASE sent(w)
    BY <1>1, <2>2, SentStep
  <2>3. CASE handle_pending_message(w)
    BY <1>1, <2>3, HandlePendingStep
  <2>4. CASE submit_pending(w)
    BY <1>1, <2>4, SubmitPendingStep
  <2>5. CASE submitted_pending(w)
    BY <1>1, <2>5, SubmittedPendingStep
  <2>6. CASE pending_done(w)
    BY <1>1, <2>6, PendingDoneStep
  <2>7. CASE activated(w)
    BY <1>1, <2>7, ActivatedStep
  <2>8. QED BY <1>2, <2>1, <2>2, <2>3, <2>4, <2>5, <2>6, <2>7 DEF WorkerStep
<1>3. ASSUME NEW s \in Sockets, NEW n \in 1 .. MaxData, send(s, n) PROVE IInv'
  BY <1>1, <1>3, SendStep
<1>4. ASSUME NEW s \in Sockets,
             \/ connect(s) \/ accept(s) \/ handle_connection(s)
             \/ handshake_fails(s) \/ peer_closed(s) \/ close(s) \/ destroy(s)
      PROVE  IInv'
  <2>1. CASE connect(s)
    BY <1>1, <2>1, ConnectStep
  <2>2. CASE accept(s)
    BY <1>1, <2>2, AcceptStep
  <2>3. CASE handle_connection(s)
    BY <1>1, <2>3, HandleConnectionStep
  <2>4. CASE handshake_fails(s)
    BY <1>1, <2>4, HandshakeFailsStep
  <2>5. CASE peer_closed(s)
    BY <1>1, <2>5, PeerClosedStep
  <2>6. CASE close(s)
    BY <1>1, <2>6, CloseStep
  <2>7. CASE destroy(s)
    BY <1>1, <2>7, DestroyStep
  <2>8. QED BY <1>4, <2>1, <2>2, <2>3, <2>4, <2>5, <2>6, <2>7
<1>5. ASSUME NEW s \in Sockets, NEW ok \in BOOLEAN, complete(s, ok) PROVE IInv'
  BY <1>1, <1>5, CompleteStep
<1>6. CASE handle_tx_event
  BY <1>1, <1>6, HandleTxEventStep
<1>7. CASE post_tx_buffer
  BY <1>1, <1>7, PostTxBufferStep
<1>8. CASE delete_dead_queue_pairs
  BY <1>1, <1>8, DeleteDeadStep
<1>9. CASE UNCHANGED vars
  BY <1>1, <1>9, StutterInv
<1>10. QED BY <1>1, <1>2, <1>3, <1>4, <1>5, <1>6, <1>7, <1>8, <1>9 DEF Next


-------------------------------------------------------------------------------
(* The theorems. *)

\* The invariant holds throughout, for any finite sets of workers and sockets, any
\* assignment of sockets to workers and any number of chunks.
THEOREM Invariant == Spec => []IInv
<1>1. Init => IInv
  BY InitInv
<1>2. IInv /\ [Next]_vars => IInv'
  BY StepInv
<1>3. QED BY <1>1, <1>2, PTL DEF Spec

\* The count of the chunks bounds each of its parts.
LEMMA Parts == ASSUME IInv PROVE TypeOK
<1>0. /\ TypeInv /\ ChunksConserved /\ NumChunks \in Nat /\ free_chunks \in Nat
      /\ refused \in Nat /\ lost \in Nat
      /\ sq \in [Sockets -> Nat] /\ tx_cq \in [Sockets -> Nat]
  BY RdmaSocketAssumption DEF IInv, TypeInv
<1>1. Total(sq) \in Nat /\ \A s \in Sockets : sq[s] <= Total(sq)
  BY <1>0, TotalPositive, RdmaSocketAssumption
<1>2. Polled \in Nat /\ \A s \in Sockets : tx_cq[s] <= Polled
  BY <1>0, TotalPositive, RdmaSocketAssumption DEF Polled
<1>3. Held \in Nat
  <2>1. [w \in Workers |-> thread[w].got] \in [Workers -> Nat]
    BY <1>0 DEF TypeInv, Thread
  <2>2. QED BY <2>1, TotalPositive, RdmaSocketAssumption DEF Held
<1>4. PICK h \in Nat, a \in Nat, p \in Nat : h = Held /\ a = Total(sq) /\ p = Polled
  BY <1>1, <1>2, <1>3
<1>5. free_chunks + h + a + p + refused + lost = NumChunks
  BY <1>0, <1>4 DEF ChunksConserved
<1>6. /\ free_chunks \in 0 .. NumChunks /\ refused \in 0 .. NumChunks
      /\ lost \in 0 .. NumChunks /\ a <= NumChunks /\ p <= NumChunks
  BY <1>0, <1>5
<1>7. sq \in [Sockets -> 0 .. NumChunks] /\ tx_cq \in [Sockets -> 0 .. NumChunks]
  <2>1. \A s \in Sockets : sq[s] \in 0 .. NumChunks /\ tx_cq[s] \in 0 .. NumChunks
    <3>1. ASSUME NEW s \in Sockets
          PROVE  sq[s] \in 0 .. NumChunks /\ tx_cq[s] \in 0 .. NumChunks
      <4>1. sq[s] \in Nat /\ tx_cq[s] \in Nat /\ sq[s] <= a /\ tx_cq[s] <= p
        BY <1>0, <1>1, <1>2, <1>4
      <4>2. QED BY <1>0, <1>6, <4>1
    <3>2. QED BY <3>1
  <2>2. QED BY <1>0, <2>1
<1>8. QED BY <1>0, <1>6, <1>7 DEF TypeInv, TypeOK

\* Every variable keeps its type; no part of the cluster's chunks exceeds the cluster.
THEOREM TypeCorrect == Spec => []TypeOK
BY Invariant, Parts, PTL

\* Chunks are neither lost nor made: each is in the cluster, with a worker inside
\* submit, with the hardware or in the completion queue, or was refused or went
\* with a queue pair (get_tx_buffers, submit, handle_tx_event, post_tx_buffer,
\* delete_dead_queue_pairs).
THEOREM ChunksAreConserved == Spec => []ChunksConserved
<1>1. IInv => ChunksConserved
  BY DEF IInv
<1>2. QED BY <1>1, Invariant, PTL

LEMMA KnownNow == ASSUME IInv PROVE PendingKnown
<1>1. SUFFICES ASSUME NEW s \in Sockets
               PROVE  LET o == sock[s]  w == Owner[s] IN
                      /\ Open(s) /\ o.connected /\ ~o.error /\ o.pending_bl > 0
                           /\ thread[w].s # s =>
                         /\ Contains(pending_sent_conns[w], s)
                         /\ \/ Contains(pending_workers, w) \/ tx_event[w] > 0
                            \/ thread[w].at # "idle"
                      /\ ~Open(s) => ~Contains(pending_sent_conns[w], s)
  BY DEF PendingKnown
<1> DEFINE w == Owner[s]  q == pending_sent_conns[w]
<1>2. /\ SocketInv(s) /\ w \in Workers /\ ListInv(w) /\ q \in Seq(Sockets)
      /\ thread[w] \in Thread
  BY SocketAt DEF IInv, TypeInv
<1>3. ASSUME Short(s), thread[w].s # s
      PROVE  /\ Contains(q, s)
             /\ Contains(pending_workers, w) \/ tx_event[w] > 0 \/ thread[w].at # "idle"
  <2>1. Contains(q, s)
    BY <1>2, <1>3 DEF SocketInv, Short
  <2>2. q # <<>>
    BY <1>2, <2>1, ContainsType
  <2>3. Known(w) \/ thread[w].at = "pending" \/ Retry(w)
    BY <1>2, <2>2 DEF ListInv
  <2>4. QED BY <2>1, <2>3 DEF Known, Retry, Busy
<1>4. ~Open(s) => ~Contains(q, s)
  BY <1>2 DEF ListInv
<1>5. QED BY <1>3, <1>4 DEF Short

\* A connected socket with data left is in its worker's list and the worker in the
\* dispatcher's, or working through its own; a destroyed socket is in no list
\* (get_reged_mem, handle_pending_message, submitted_pending, destroy).
THEOREM WaitersAreKnown == Spec => []PendingKnown
BY Invariant, KnownNow, PTL

LEMMA ForgottenNow == ASSUME IInv PROVE ForgottenOnlyInWindow
<1>1. SUFFICES ASSUME pending_workers # <<>>, dispatcher = "poll", Polled = 0,
                      \A s \in Sockets : sq[s] = 0,
                      \A w \in Workers : thread[w].at = "idle" /\ tx_event[w] = 0
               PROVE  missed \/ lost > 0 \/ refused > 0
  BY DEF ForgottenOnlyInWindow
<1>2. Responsible
  BY <1>1 DEF IInv, WaitInv, Waiting
<1>3. \A w \in Workers : ~Active(w)
  BY <1>1 DEF Active
<1>4. QED BY <1>1, <1>2, <1>3 DEF Responsible

\* When nothing is in flight a worker still waits for chunks only if the dispatcher
\* looked for it in the window of get_reged_mem, or chunks were lost for good.
THEOREM ForgottenInOneWindow == Spec => []ForgottenOnlyInWindow
BY Invariant, ForgottenNow, PTL

\* Nothing is posted to a queue pair before it is activated, unless the peer's
\* closing was read as a message of the handshake (recv_msg, handle_connection).
THEOREM NothingPostedEarly == Spec => []PostedWhenReady
<1>1. IInv => PostedWhenReady
  BY DEF IInv
<1>2. QED BY <1>1, Invariant, PTL
=============================================================================
