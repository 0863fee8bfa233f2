---------------------------- MODULE RxPoolProofs ----------------------------
(* Theorems of RxPool: for any number of chunks and sockets no chunk is leaked or *)
(* given to two users, the debt to the receive queue is exact, the dispatcher     *)
(* never sleeps on a completion, no reader waits beside data it could read, and   *)
(* what is read is what was sent.                                                 *)
(* The argument is first about sets of chunks: each step moves chunks between     *)
(* places that hold no chunk in common.  The last theorem's is about their data:  *)
(* what was read and what is on its way to a reader are consecutive stretches of  *)
(* one stream, and each step moves the marks between them.                        *)
EXTENDS RxPool, FiniteSetTheorems, SequenceTheorems, TLAPS

Distinct(q) == \A i, j \in DOMAIN q : q[i].chunk = q[j].chunk => i = j
Free == pool \cup srq

\* A rearmed channel has its event, or gives one for the next completion.
PollInv ==
  /\ polling # "handle" => batch = <<>>
  /\ rearmed => armed \/ cq_event
  /\ polling = "sleep" => rearmed
  /\ polling # "poll" /\ rearmed /\ rx_cq # <<>> => cq_event

\* No two places hold a chunk in common, and together they hold all.
OwnerInv ==
  /\ pool \cap srq = {}
  /\ Free \cap (ChunksIn(rx_cq) \cup ChunksIn(batch)) = {}
  /\ ChunksIn(rx_cq) \cap ChunksIn(batch) = {}
  /\ \A s \in Sockets : Held(s) \cap (Free \cup ChunksIn(rx_cq) \cup ChunksIn(batch)) = {}
  /\ \A s, t \in Sockets : s # t => Held(s) \cap Held(t) = {}
  /\ Chunks = Free \cup ChunksIn(rx_cq) \cup ChunksIn(batch) \cup UNION {Held(s) : s \in Sockets}

\* Within a queue, a batch and a socket each chunk occurs once.
Once(o) ==
  /\ Distinct(o.wc) /\ Distinct(o.buffers)
  /\ ChunksIn(o.wc) \cap ChunksIn(o.buffers) = {}
  /\ o.res_mem \cap (ChunksIn(o.wc) \cup ChunksIn(o.buffers)) = {}
OnceInv ==
  /\ Distinct(rx_cq) /\ Distinct(batch)
  /\ \A s \in Sockets : Once(sock[s])

CountInv ==
  /\ BacklogExact
  /\ ~unpaid /\ post_backlog > 0 => pool = {}

\* A socket being destroyed is given nothing any more.
LifeInv ==
  \A s \in Sockets : sock[s].life = "closed" =>
    /\ ~sock[s].registered /\ reader[s].at \in {"idle", "drain"}
    /\ reader[s].at = "idle" => sock[s].wc = <<>> /\ sock[s].buffers = <<>>

\* ReaderNotified, whatever was read twice.
NotifyInv ==
  \A s \in Sockets \ ZeroCopy : LET o == sock[s] IN
    /\ o.life = "open" /\ reader[s].at = "idle" /\ o.connected
    /\ o.wc # <<>> \/ o.buffers # <<>>
    => o.notify_fd

IInv ==
  TypeOK /\ PollInv /\ OwnerInv /\ OnceInv /\ CountInv /\ LifeInv /\ NotifyInv

-------------------------------------------------------------------------------
(* Select: what its definition, by counting, computes. *)

\* The position a chosen element gets: its rank numbers the chosen positions.
LEMMA Ranks ==
  ASSUME NEW n \in Nat, NEW I \in SUBSET (1 .. n)
  PROVE  /\ Cardinality(I) \in Nat
         /\ \A i, j \in I : Cardinality(I \cap 1 .. i) = Cardinality(I \cap 1 .. j) => i = j
         /\ \A k \in 1 .. Cardinality(I) : \E i \in I : Cardinality(I \cap 1 .. i) = k
<1> DEFINE R == [i \in I |-> Cardinality(I \cap 1 .. i)]
<1>1. IsFiniteSet(I) /\ Cardinality(I) \in Nat
  <2>1. IsFiniteSet(1 .. n)
    BY FS_Interval
  <2>2. IsFiniteSet(I)
    BY <2>1, FS_Subset
  <2>3. QED BY <2>2, FS_CardinalityType
<1>2. ASSUME NEW i \in I PROVE /\ IsFiniteSet(I \cap 1 .. i) /\ R[i] \in 1 .. Cardinality(I)
  <2> DEFINE J == I \cap 1 .. i
  <2>1. J \in SUBSET I /\ i \in J
    OBVIOUS
  <2> HIDE DEF J
  <2>2. IsFiniteSet(J) /\ Cardinality(J) <= Cardinality(I) /\ Cardinality(J) \in Nat
    BY <1>1, <2>1, FS_Subset, FS_CardinalityType
  <2>3. Cardinality(J) # 0
    BY <2>1, <2>2, FS_EmptySet
  <2>4. R[i] = Cardinality(J)
    BY DEF J
  <2>5. QED BY <1>1, <2>2, <2>3, <2>4 DEF J
<1>3. ASSUME NEW i \in I, NEW j \in I, i < j PROVE R[i] # R[j]
  <2>1. (I \cap 1 .. i) \in SUBSET (I \cap 1 .. j) /\ j \notin I \cap 1 .. i /\ j \in I \cap 1 .. j
    BY <1>3
  <2>2. I \cap 1 .. i # I \cap 1 .. j
    BY <2>1
  <2>3. QED BY <1>2, <2>1, <2>2, FS_Subset
<1>4. ASSUME NEW i \in I, NEW j \in I, R[i] = R[j] PROVE i = j
  <2>1. i \in Int /\ j \in Int
    OBVIOUS
  <2>2. QED BY <1>3, <1>4, <2>1
<1>5. R \in Injection(I, 1 .. Cardinality(I))
  <2>1. R \in [I -> 1 .. Cardinality(I)]
    BY <1>2
  <2> HIDE DEF R
  <2>2. QED BY <1>4, <2>1 DEF Injection, IsInjective
<1>6. IsFiniteSet(1 .. Cardinality(I)) /\ Cardinality(1 .. Cardinality(I)) = Cardinality(I)
  BY <1>1, FS_Interval
<1>7. R \in Surjection(I, 1 .. Cardinality(I))
  <2> HIDE DEF R
  <2>1. QED BY <1>5, <1>6, FS_Injection
<1>8. ASSUME NEW k \in 1 .. Cardinality(I) PROVE \E i \in I : R[i] = k
  <2> HIDE DEF R
  <2>1. QED BY <1>7 DEF Surjection
<1>9. QED BY <1>1, <1>4, <1>8

\* The chosen elements, each once and no other.
LEMMA SelectProps ==
  ASSUME NEW S, NEW q \in Seq(S), NEW I \in SUBSET DOMAIN q
  PROVE  /\ Select(q, I) \in Seq(S)
         /\ \A k \in DOMAIN Select(q, I) : \E i \in I : Select(q, I)[k] = q[i]
         /\ \A i \in I : \E k \in DOMAIN Select(q, I) : Select(q, I)[k] = q[i]
         /\ \E g \in [DOMAIN Select(q, I) -> I] :
              /\ \A k \in DOMAIN Select(q, I) : Select(q, I)[k] = q[g[k]]
              /\ \A j, k \in DOMAIN Select(q, I) : g[j] = g[k] => j = k
<1> DEFINE N == Cardinality(I)
           At(k) == CHOOSE i \in I : Cardinality(I \cap 1 .. i) = k
           g == [k \in 1 .. N |-> At(k)]
<1>1. DOMAIN q = 1 .. Len(q) /\ Len(q) \in Nat /\ \A i \in I : q[i] \in S
  OBVIOUS
<1>2. /\ N \in Nat
      /\ \A i, j \in I : Cardinality(I \cap 1 .. i) = Cardinality(I \cap 1 .. j) => i = j
      /\ \A k \in 1 .. N : \E i \in I : Cardinality(I \cap 1 .. i) = k
  BY <1>1, Ranks
<1>3. \A k \in 1 .. N : At(k) \in I /\ Cardinality(I \cap 1 .. At(k)) = k
  BY <1>2
<1>4. ASSUME NEW i \in I PROVE \E k \in 1 .. N : At(k) = i
  <2>1. Cardinality(I \cap 1 .. i) \in 1 .. N
    <3> DEFINE J == I \cap 1 .. i
    <3>1. J \in SUBSET I /\ i \in J
      BY <1>1
    <3>2. IsFiniteSet(I)
      <4>1. IsFiniteSet(1 .. Len(q)) /\ I \in SUBSET (1 .. Len(q))
        BY <1>1, FS_Interval
      <4>2. QED BY <4>1, FS_Subset
    <3> HIDE DEF J
    <3>3. IsFiniteSet(J) /\ Cardinality(J) <= N /\ Cardinality(J) \in Nat /\ Cardinality(J) # 0
      BY <3>1, <3>2, FS_Subset, FS_CardinalityType, FS_EmptySet
    <3>4. Cardinality(J) \in 1 .. N
      BY <1>2, <3>3
    <3>5. QED BY <3>4 DEF J
  <2>2. PICK k \in 1 .. N : Cardinality(I \cap 1 .. i) = k
    BY <2>1
  <2>3. At(k) \in I /\ Cardinality(I \cap 1 .. At(k)) = Cardinality(I \cap 1 .. i)
    BY <1>3, <2>2
  <2>4. At(k) = i
    BY <1>2, <2>3
  <2>5. QED BY <2>4
<1>5. Select(q, I) = [k \in 1 .. N |-> q[At(k)]]
  BY DEF Select
<1> HIDE DEF At, N
<1>6. Select(q, I) \in Seq(S) /\ DOMAIN Select(q, I) = 1 .. N
  <2>1. Select(q, I) \in [1 .. N -> S]
    BY <1>1, <1>3, <1>5
  <2>2. QED BY <1>2, <2>1
<1>7. \A k \in 1 .. N : Select(q, I)[k] = q[At(k)]
  BY <1>5
<1>8. g \in [1 .. N -> I] /\ \A k \in 1 .. N : g[k] = At(k)
  BY <1>3
<1>9. \A j, k \in 1 .. N : At(j) = At(k) => j = k
  BY <1>3
<1> HIDE DEF g
<1>10. /\ g \in [DOMAIN Select(q, I) -> I]
       /\ \A k \in DOMAIN Select(q, I) : Select(q, I)[k] = q[g[k]]
       /\ \A j, k \in DOMAIN Select(q, I) : g[j] = g[k] => j = k
  BY <1>6, <1>7, <1>8, <1>9
<1>11. \A k \in DOMAIN Select(q, I) : \E i \in I : Select(q, I)[k] = q[i]
  BY <1>3, <1>6, <1>7
<1>12. \A i \in I : \E k \in DOMAIN Select(q, I) : Select(q, I)[k] = q[i]
  BY <1>4, <1>6, <1>7
<1>13. QED BY ONLY <1>6, <1>10, <1>11, <1>12

Rank(I, i) == Cardinality(I \cap 1 .. i)

\* The k-th chosen element is the one of rank k.
LEMMA SelectRank ==
  ASSUME NEW S, NEW q \in Seq(S), NEW I \in SUBSET DOMAIN q
  PROVE  /\ Cardinality(I) \in Nat /\ Len(Select(q, I)) = Cardinality(I)
         /\ \E g \in [1 .. Cardinality(I) -> I] : \A k \in 1 .. Cardinality(I) :
              Select(q, I)[k] = q[g[k]] /\ Rank(I, g[k]) = k
<1> DEFINE N == Cardinality(I)
           At(k) == CHOOSE i \in I : Cardinality(I \cap 1 .. i) = k
           g == [k \in 1 .. N |-> At(k)]
<1>1. DOMAIN q = 1 .. Len(q) /\ Len(q) \in Nat
  OBVIOUS
<1>2. N \in Nat /\ \A k \in 1 .. N : \E i \in I : Cardinality(I \cap 1 .. i) = k
  BY <1>1, Ranks
<1>3. \A k \in 1 .. N : At(k) \in I /\ Cardinality(I \cap 1 .. At(k)) = k
  BY <1>2
<1>4. Select(q, I) = [k \in 1 .. N |-> q[At(k)]]
  BY DEF Select
<1> HIDE DEF At
<1>5. g \in [1 .. N -> I] /\ \A k \in 1 .. N : g[k] = At(k)
  BY <1>3
<1> HIDE DEF g, N
<1>6. \A k \in 1 .. N : Select(q, I)[k] = q[g[k]] /\ Rank(I, g[k]) = k
  BY <1>3, <1>4, <1>5 DEF Rank
<1>7. Len(Select(q, I)) = N
  BY <1>2, <1>4
<1>8. QED BY <1>2, <1>5, <1>6, <1>7 DEF N

LEMMA SelectChunks ==
  ASSUME NEW S, NEW q \in Seq(S), NEW I \in SUBSET DOMAIN q
  PROVE  /\ ChunksIn(Select(q, I)) = {q[i].chunk : i \in I}
         /\ ChunksIn(Select(q, I)) \subseteq ChunksIn(q)
         /\ Distinct(q) => Distinct(Select(q, I))
<1> DEFINE r == Select(q, I)
<1>0. /\ \A k \in DOMAIN r : \E i \in I : r[k] = q[i]
      /\ \A i \in I : \E k \in DOMAIN r : r[k] = q[i]
  BY SelectProps
<1> HIDE DEF r
<1>1. ChunksIn(r) \subseteq {q[i].chunk : i \in I}
  BY <1>0 DEF ChunksIn
<1>2. {q[i].chunk : i \in I} \subseteq ChunksIn(r)
  BY <1>0 DEF ChunksIn
<1>4. {q[i].chunk : i \in I} \subseteq ChunksIn(q)
  BY DEF ChunksIn
<1>3. ASSUME Distinct(q) PROVE Distinct(Select(q, I))
  <2>1. PICK g \in [DOMAIN Select(q, I) -> I] :
          /\ \A k \in DOMAIN Select(q, I) : Select(q, I)[k] = q[g[k]]
          /\ \A j, k \in DOMAIN Select(q, I) : g[j] = g[k] => j = k
    BY SelectProps
  <2>2. QED BY <1>3, <2>1 DEF Distinct
<1>5. QED BY <1>1, <1>2, <1>3, <1>4 DEF r

-------------------------------------------------------------------------------
(* FlattenSeq: the least counterexample takes the place of an induction. *)

LEMMA LeastOf ==
  ASSUME NEW B \in SUBSET Nat, B # {}
  PROVE  \E n \in B : \A m \in B : n <= m
<1> DEFINE D(n) == 0 .. n
           T == {D(n) : n \in B}
<1>1. T \subseteq FiniteSubsetsOf(Nat) /\ T # {}
  <2>1. ASSUME NEW n \in B PROVE D(n) \in SUBSET Nat /\ IsFiniteSet(D(n))
    BY FS_Interval
  <2> HIDE DEF D
  <2>2. QED BY <2>1 DEF FiniteSubsetsOf
<1>2. IsWellFoundedOn(StrictSubsetOrdering(Nat), FiniteSubsetsOf(Nat))
  BY FS_StrictSubsetOrderingWellFounded
<1>3. PICK t \in T : \A u \in T : ~ (<<u, t>> \in StrictSubsetOrdering(Nat))
  <2> HIDE DEF T
  <2> QED BY <1>1, <1>2, WFMin
<1>4. PICK n \in B : t = D(n)
  OBVIOUS
<1>5. ASSUME NEW m \in B, ~ (n <= m) PROVE FALSE
  <2>1. m \in Nat /\ n \in Nat
    OBVIOUS
  <2>2. D(m) \subseteq D(n) /\ n \in D(n) /\ n \notin D(m)
    BY <1>5, <2>1
  <2>3. D(m) \in SUBSET Nat /\ D(n) \in SUBSET Nat /\ D(m) \in T
    OBVIOUS
  <2> HIDE DEF D, T
  <2>4. <<D(m), t>> \in StrictSubsetOrdering(Nat)
    BY <1>4, <2>2, <2>3 DEF StrictSubsetOrdering
  <2>5. QED BY <1>3, <2>3, <2>4
<1>6. QED BY <1>5

\* The function FlattenSeq chooses exists, and satisfies its recursion.
LEMMA FlattenEq ==
  ASSUME NEW S, NEW q \in Seq(Seq(S)), Len(q) # 0
  PROVE  \E f : /\ f = [i \in 1 .. Len(q) |-> IF i = 1 THEN q[i] ELSE f[i - 1] \o q[i]]
               /\ FlattenSeq(q) = f[Len(q)]
<1> DEFINE n == Len(q)
           Eq(f, m) == f = [i \in 1 .. m |-> IF i = 1 THEN q[i] ELSE f[i - 1] \o q[i]]
           flatten == CHOOSE f : Eq(f, n)
           HasSuch(m) == \E f \in [1 .. m -> Seq(S)] : Eq(f, m)
<1>1. n \in Nat /\ \A i \in 1 .. n : q[i] \in Seq(S)
  OBVIOUS
<1>2. FlattenSeq(q) = IF n = 0 THEN q ELSE flatten[n]
  BY DEF FlattenSeq
<1>3. ASSUME n # 0 PROVE HasSuch(1)
  <2> DEFINE f == [i \in 1 .. 1 |-> q[i]]
  <2>1. f \in [1 .. 1 -> Seq(S)]
    BY <1>1, <1>3
  <2>2. \A i \in 1 .. 1 : i = 1
    OBVIOUS
  <2>3. Eq(f, 1)
    BY <2>2
  <2>4. QED BY <2>1, <2>3
<1>4. ASSUME NEW m \in 1 .. n, m # 1, HasSuch(m - 1) PROVE HasSuch(m)
  <2>1. PICK f \in [1 .. m - 1 -> Seq(S)] : Eq(f, m - 1)
    BY <1>4
  <2> DEFINE e == f[m - 1] \o q[m]
             g == [i \in 1 .. m |-> IF i = m THEN e ELSE f[i]]
  <2>2. /\ m \in Nat /\ m > 1 /\ m - 1 \in 1 .. m - 1 /\ m - 1 \in 1 .. m
        /\ \A i \in 1 .. m : i # m => i \in 1 .. m - 1
        /\ \A i \in 1 .. m : i # m /\ i # 1 => i - 1 \in 1 .. m /\ i - 1 # m
    BY <1>1, <1>4
  <2>3. e \in Seq(S)
    BY <1>1, <2>2, ConcatProperties
  <2> HIDE DEF e
  <2>4. g \in [1 .. m -> Seq(S)]
    BY <2>2, <2>3
  <2>5. ASSUME NEW i \in 1 .. m PROVE g[i] = IF i = 1 THEN q[i] ELSE g[i - 1] \o q[i]
    <3>1. CASE i = m
      <4>1. g[i] = e
        BY <3>1
      <4>2. m - 1 # m /\ g[m - 1] = f[m - 1]
        BY <2>2
      <4>3. e = g[m - 1] \o q[m]
        BY <4>2 DEF e
      <4>4. i # 1
        BY <2>2, <3>1
      <4> HIDE DEF g
      <4>5. g[i] = g[i - 1] \o q[i]
        BY <3>1, <4>1, <4>3
      <4>6. QED BY <4>4, <4>5
    <3>2. CASE i # m
      <4>1. g[i] = f[i] /\ f[i] = IF i = 1 THEN q[i] ELSE f[i - 1] \o q[i]
        BY <2>1, <2>2, <3>2
      <4>2. i # 1 => g[i - 1] = f[i - 1]
        BY <2>2, <3>2
      <4>3. QED BY <4>1, <4>2
    <3>3. QED BY <3>1, <3>2
  <2> DEFINE h == [i \in 1 .. m |-> IF i = 1 THEN q[i] ELSE g[i - 1] \o q[i]]
  <2>6. h = g
    <3>1. \A i \in 1 .. m : h[i] = g[i]
      BY <2>5
    <3>2. DOMAIN h = 1 .. m /\ DOMAIN g = 1 .. m /\ h = [i \in 1 .. m |-> h[i]] /\ g = [i \in 1 .. m |-> g[i]]
      OBVIOUS
    <3> HIDE DEF h, g
    <3>3. QED BY <3>1, <3>2
  <2>7. Eq(g, m)
    BY <2>6
  <2> HIDE DEF g, Eq
  <2>8. QED BY <2>4, <2>7
<1> HIDE DEF HasSuch
<1>5. ASSUME n # 0 PROVE HasSuch(n)
  <2> DEFINE B == {m \in 1 .. n : ~HasSuch(m)}
  <2>0. n \in 1 .. n
    BY <1>1, <1>5
  <2>1. SUFFICES ASSUME B # {} PROVE FALSE
    BY <2>0
  <2>2. B \in SUBSET Nat
    BY <1>1
  <2> HIDE DEF B
  <2>3. PICK m \in B : \A k \in B : m <= k
    BY <2>1, <2>2, LeastOf
  <2> USE DEF B
  <2>4. m \in 1 .. n /\ ~HasSuch(m) /\ m # 1
    BY <1>3, <1>5
  <2>5. m - 1 \in 1 .. n /\ ~ (m <= m - 1)
    BY <1>1, <2>4
  <2>6. HasSuch(m - 1)
    BY <2>3, <2>5
  <2>7. QED BY <1>4, <2>4, <2>6
<1>6. ASSUME n # 0 PROVE Eq(flatten, n)
  <2>1. \E f : Eq(f, n)
    BY <1>5, <1>6 DEF HasSuch
  <2> HIDE DEF Eq
  <2>2. QED BY <2>1
<1>7. Eq(flatten, n) /\ FlattenSeq(q) = flatten[n]
  BY <1>2, <1>6
<1> HIDE DEF flatten
<1>8. QED BY <1>7

LEMMA FlattenType ==
  ASSUME NEW S, NEW q \in Seq(Seq(S))
  PROVE  FlattenSeq(q) \in Seq(S)
<1> DEFINE n == Len(q)
<1>1. n \in Nat /\ \A i \in 1 .. n : q[i] \in Seq(S)
  OBVIOUS
<1>2. ASSUME n # 0 PROVE FlattenSeq(q) \in Seq(S)
  <2>0. PICK f : /\ f = [i \in 1 .. n |-> IF i = 1 THEN q[i] ELSE f[i - 1] \o q[i]]
                 /\ FlattenSeq(q) = f[n]
    BY <1>2, FlattenEq
  <2>1. \A i \in 1 .. n : f[i] = IF i = 1 THEN q[i] ELSE f[i - 1] \o q[i]
    BY <2>0
  <2> DEFINE B == {m \in 1 .. n : f[m] \notin Seq(S)}
  <2>2. ASSUME B # {} PROVE FALSE
    <3>1. B \in SUBSET Nat
      BY <1>1
    <3> HIDE DEF B
    <3>2. PICK m \in B : \A k \in B : m <= k
      BY <2>2, <3>1, LeastOf
    <3>3. m \in 1 .. n /\ f[m] \notin Seq(S)
      BY DEF B
    <3>4. m # 1
      BY <1>1, <2>1, <3>3
    <3>5. m - 1 \in 1 .. n /\ ~ (m <= m - 1)
      BY <1>1, <3>3, <3>4
    <3>6. f[m - 1] \in Seq(S)
      BY <3>2, <3>5 DEF B
    <3>7. f[m] = f[m - 1] \o q[m] /\ q[m] \in Seq(S)
      BY <1>1, <2>1, <3>3, <3>4
    <3>8. QED BY <3>3, <3>6, <3>7, ConcatProperties
  <2>3. n \in 1 .. n
    BY <1>1, <1>2
  <2>4. QED BY <2>0, <2>2, <2>3
<1>3. CASE n = 0
  BY <1>3 DEF FlattenSeq
<1>4. QED BY <1>2, <1>3

-------------------------------------------------------------------------------
(* The chunks of a sequence of completions. *)

LEMMA ChunksEmpty == ChunksIn(<<>>) = {} /\ Distinct(<<>>)
BY DEF ChunksIn, Distinct

LEMMA ChunksConcat ==
  ASSUME NEW S, NEW s \in Seq(S), NEW t \in Seq(S)
  PROVE  /\ s \o t \in Seq(S) /\ ChunksIn(s \o t) = ChunksIn(s) \cup ChunksIn(t)
         /\ Distinct(s) /\ Distinct(t) /\ ChunksIn(s) \cap ChunksIn(t) = {} => Distinct(s \o t)
<1> DEFINE u == s \o t
<1>1. /\ u \in Seq(S) /\ Len(u) = Len(s) + Len(t)
      /\ \A i \in 1 .. Len(s) + Len(t) : u[i] = IF i <= Len(s) THEN s[i] ELSE t[i - Len(s)]
  BY ConcatProperties
<1>2. /\ DOMAIN s = 1 .. Len(s) /\ DOMAIN t = 1 .. Len(t) /\ Len(s) \in Nat /\ Len(t) \in Nat
      /\ DOMAIN u = 1 .. Len(s) + Len(t)
  BY <1>1
<1> HIDE DEF u
<1>3. ASSUME NEW i \in DOMAIN s PROVE i \in DOMAIN u /\ u[i] = s[i]
  BY <1>1, <1>2
<1>4. ASSUME NEW i \in DOMAIN t
      PROVE  Len(s) + i \in DOMAIN u /\ u[Len(s) + i] = t[i]
  <2>1. Len(s) + i \in 1 .. Len(s) + Len(t) /\ ~(Len(s) + i <= Len(s)) /\ Len(s) + i - Len(s) = i
    BY <1>2
  <2>2. QED BY <1>1, <1>2, <2>1
<1>5. ASSUME NEW i \in DOMAIN u
      PROVE  \/ i \in DOMAIN s /\ u[i] = s[i]
             \/ i > Len(s) /\ i - Len(s) \in DOMAIN t /\ u[i] = t[i - Len(s)]
  <2>1. CASE i <= Len(s)
    BY <1>1, <1>2, <2>1
  <2>2. CASE i > Len(s)
    <3>1. i - Len(s) \in DOMAIN t /\ ~(i <= Len(s)) /\ i \in 1 .. Len(s) + Len(t)
      BY <1>2, <2>2
    <3>2. QED BY <1>1, <2>2, <3>1
  <2>3. QED BY <1>2, <2>1, <2>2
<1>6. ChunksIn(u) \subseteq ChunksIn(s) \cup ChunksIn(t)
  BY <1>5 DEF ChunksIn
<1>7. ChunksIn(s) \subseteq ChunksIn(u)
  BY <1>3 DEF ChunksIn
<1>8. ChunksIn(t) \subseteq ChunksIn(u)
  <2>1. ASSUME NEW i \in DOMAIN t PROVE t[i].chunk \in ChunksIn(u)
    BY <1>4 DEF ChunksIn
  <2>2. QED BY <2>1 DEF ChunksIn
<1>9. ASSUME Distinct(s), Distinct(t), ChunksIn(s) \cap ChunksIn(t) = {} PROVE Distinct(u)
  <2>1. ASSUME NEW i \in DOMAIN u, NEW j \in DOMAIN u, u[i].chunk = u[j].chunk PROVE i = j
    <3>1. CASE i \in DOMAIN s /\ u[i] = s[i] /\ j \in DOMAIN s /\ u[j] = s[j]
      BY <1>9, <2>1, <3>1 DEF Distinct
    <3>2. ASSUME NEW k \in DOMAIN s, NEW l \in DOMAIN t PROVE s[k].chunk # t[l].chunk
      BY <1>9 DEF ChunksIn
    <3>3. CASE /\ i > Len(s) /\ i - Len(s) \in DOMAIN t /\ u[i] = t[i - Len(s)]
               /\ j > Len(s) /\ j - Len(s) \in DOMAIN t /\ u[j] = t[j - Len(s)]
      <4>1. i - Len(s) = j - Len(s)
        BY <1>9, <2>1, <3>3 DEF Distinct
      <4>2. QED BY <1>2, <4>1
    <3>4. QED BY <1>5, <2>1, <3>1, <3>2, <3>3
  <2>2. QED BY <2>1 DEF Distinct
<1>10. QED BY <1>1, <1>6, <1>7, <1>8, <1>9 DEF u

LEMMA ChunksAppend ==
  ASSUME NEW S, NEW s \in Seq(S), NEW e \in S
  PROVE  /\ Append(s, e) \in Seq(S) /\ Len(Append(s, e)) = Len(s) + 1
         /\ ChunksIn(Append(s, e)) = ChunksIn(s) \cup {e.chunk}
         /\ Distinct(s) /\ e.chunk \notin ChunksIn(s) => Distinct(Append(s, e))
<1> DEFINE t == Append(s, e)
           n == Len(s) + 1
<1>1. /\ t \in Seq(S) /\ Len(t) = n /\ t[n] = e /\ \A i \in 1 .. Len(s) : t[i] = s[i]
  BY AppendProperties
<1>2. DOMAIN s = 1 .. Len(s) /\ DOMAIN t = 1 .. n /\ Len(s) \in Nat
  BY <1>1
<1>3. n \in DOMAIN t /\ \A i \in DOMAIN t : i \in DOMAIN s \/ i = n
  BY <1>2
<1>4. \A i \in DOMAIN s : i \in DOMAIN t /\ t[i] = s[i]
  BY <1>1, <1>2
<1> HIDE DEF t, n
<1>5. ChunksIn(t) \subseteq ChunksIn(s) \cup {e.chunk}
  BY <1>1, <1>3, <1>4 DEF ChunksIn
<1>6. ChunksIn(s) \cup {e.chunk} \subseteq ChunksIn(t)
  BY <1>1, <1>3, <1>4 DEF ChunksIn
<1>7. Distinct(s) /\ e.chunk \notin ChunksIn(s) => Distinct(t)
  BY <1>1, <1>3, <1>4 DEF ChunksIn, Distinct
<1>8. QED BY <1>1, <1>5, <1>6, <1>7 DEF t, n

\* The last chunk of a sequence and what is before it.
LEMMA ChunksFront ==
  ASSUME NEW S, NEW s \in Seq(S), s # <<>>
  PROVE  /\ Front(s) \in Seq(S) /\ Last(s) \in S
         /\ ChunksIn(s) = ChunksIn(Front(s)) \cup {Last(s).chunk}
         /\ Distinct(s) => Distinct(Front(s)) /\ Last(s).chunk \notin ChunksIn(Front(s))
<1> DEFINE t == Front(s)
           n == Len(s)
<1>1. n \in Nat /\ n # 0 /\ DOMAIN s = 1 .. n /\ \A i \in 1 .. n : s[i] \in S
  BY EmptySeq
<1>2. t \in Seq(S) /\ Len(t) = n - 1 /\ \A i \in 1 .. n - 1 : t[i] = s[i]
  <2> DEFINE m == n - 1
  <2>1. t = SubSeq(s, 1, m) /\ m \in Int /\ 1 \in Int /\ \A i \in 1 .. m : s[i] \in S
    BY <1>1 DEF Front
  <2> HIDE DEF m, t
  <2>2. /\ t \in Seq(S) /\ Len(t) = (IF 1 <= m THEN m - 1 + 1 ELSE 0)
        /\ \A i \in 1 .. m - 1 + 1 : t[i] = s[1 + i - 1]
    BY ONLY <2>1, SubSeqProperties
  <2>3. m \in Nat /\ m - 1 + 1 = m /\ \A i \in 1 .. m : 1 + i - 1 = i
    BY <1>1 DEF m
  <2>4. \A i \in 1 .. m : t[i] = s[i]
    BY <2>2, <2>3
  <2>5. Len(t) = m
    BY <2>2, <2>3
  <2>6. QED BY <2>2, <2>4, <2>5 DEF m
<1> HIDE DEF t
<1>3. DOMAIN t = 1 .. n - 1
  BY <1>1, <1>2
<1>4. /\ n \in DOMAIN s /\ n \notin DOMAIN t /\ \A i \in DOMAIN s : i \in DOMAIN t \/ i = n
      /\ \A i \in DOMAIN t : i \in DOMAIN s /\ t[i] = s[i]
  BY <1>1, <1>2, <1>3
<1>5. Last(s) = s[n]
  BY DEF Last
<1> HIDE DEF n
<1>6. ChunksIn(s) \subseteq ChunksIn(t) \cup {s[n].chunk}
  BY <1>4 DEF ChunksIn
<1>7. ChunksIn(t) \cup {s[n].chunk} \subseteq ChunksIn(s)
  BY <1>4 DEF ChunksIn
<1>8. ASSUME Distinct(s) PROVE Distinct(t) /\ s[n].chunk \notin ChunksIn(t)
  BY <1>4, <1>8 DEF ChunksIn, Distinct
<1>9. Last(s) \in S
  BY <1>1, <1>4, <1>5
<1>10. QED BY <1>2, <1>5, <1>6, <1>7, <1>8, <1>9 DEF t

LEMMA DataType == ASSUME NEW q \in Seq(Wc) PROVE Data(q) \in Seq(Nat) /\ Len(Data(q)) \in Nat
<1> DEFINE d == [i \in DOMAIN q |-> q[i].data]
<1>1. \A i \in DOMAIN q : q[i].data \in Seq(Nat)
  <2>1. \A i \in DOMAIN q : q[i] \in Wc
    OBVIOUS
  <2>2. QED BY <2>1 DEF Wc
<1>2. d \in [1 .. Len(q) -> Seq(Nat)] /\ Len(q) \in Nat
  BY <1>1
<1>3. d \in Seq(Seq(Nat))
  BY <1>2
<1> HIDE DEF d
<1>4. FlattenSeq(d) \in Seq(Nat)
  BY <1>3, FlattenType
<1>5. QED BY <1>4 DEF Data, d

\* Reading takes units off each completion's front, and then the empty ones out.
LEMMA RestLeft ==
  ASSUME NEW q \in Seq(Wc), NEW n \in Int
  PROVE  \E left \in Seq(Wc) :
           /\ DOMAIN left = DOMAIN q /\ Rest(q, n) = Select(left, HasData(left))
           /\ \A i \in DOMAIN q :
                /\ left[i].chunk = q[i].chunk
                /\ LET before == Len(Data(SubSeq(q, 1, i - 1)))
                   IN  left[i].data =
                         SubSeq(q[i].data, IF n > before THEN n - before + 1 ELSE 1, Len(q[i].data))
<1> DEFINE before(i) == Len(Data(SubSeq(q, 1, i - 1)))
           from(i) == IF n > before(i) THEN n - before(i) + 1 ELSE 1
           left == [i \in DOMAIN q |-> [q[i] EXCEPT !.data = SubSeq(@, from(i), Len(@))]]
<1>1. DOMAIN q = 1 .. Len(q) /\ Len(q) \in Nat /\ \A i \in DOMAIN q : q[i] \in Wc
  OBVIOUS
<1>2. ASSUME NEW i \in DOMAIN q PROVE from(i) \in Int /\ from(i) >= 1
  <2> DEFINE p == SubSeq(q, 1, i - 1)
  <2>1. p \in Seq(Wc)
    <3>1. i - 1 \in Int /\ \A j \in 1 .. i - 1 : q[j] \in Wc
      BY <1>1
    <3>2. QED BY <3>1, SubSeqProperties
  <2> HIDE DEF p
  <2>2. Len(Data(p)) \in Nat
    BY <2>1, DataType
  <2>3. before(i) \in Nat
    BY <2>2 DEF p
  <2> HIDE DEF before
  <2>4. QED BY <2>3
<1> HIDE DEF from
<1>3. ASSUME NEW i \in DOMAIN q PROVE left[i] \in Wc /\ left[i].chunk = q[i].chunk
  <2> DEFINE d == SubSeq(q[i].data, from(i), Len(q[i].data))
  <2>1. q[i].data \in Seq(Nat) /\ q[i] \in Wc
    BY <1>1 DEF Wc
  <2>2. d \in Seq(Nat)
    <3>1. /\ from(i) \in Int /\ Len(q[i].data) \in Int
          /\ \A j \in from(i) .. Len(q[i].data) : q[i].data[j] \in Nat
      BY <1>2, <2>1
    <3>2. QED BY <3>1, SubSeqProperties
  <2>3. left[i] = [q[i] EXCEPT !.data = d]
    OBVIOUS
  <2> HIDE DEF d, left
  <2>4. QED BY <2>1, <2>2, <2>3 DEF Wc
<1>4. left \in Seq(Wc) /\ DOMAIN left = DOMAIN q
  <2>1. left \in [1 .. Len(q) -> Wc]
    <3>1. DOMAIN left = 1 .. Len(q)
      BY <1>1
    <3>2. left = [i \in 1 .. Len(q) |-> left[i]]
      BY <1>1
    <3> HIDE DEF left
    <3>3. QED BY <1>1, <1>3, <3>1, <3>2
  <2> HIDE DEF left
  <2>2. QED BY <1>1, <2>1
<1>5. Rest(q, n) = Select(left, HasData(left))
  BY DEF Rest, from
<1>6. \A i \in DOMAIN q : left[i].data = SubSeq(q[i].data, from(i), Len(q[i].data))
  <2>1. \A i \in DOMAIN q :
          left[i] = [q[i] EXCEPT !.data = SubSeq(q[i].data, from(i), Len(q[i].data))]
    OBVIOUS
  <2> HIDE DEF left
  <2>2. QED BY <1>1, <2>1 DEF Wc
<1> HIDE DEF left
<1>7. QED BY <1>3, <1>4, <1>5, <1>6 DEF from

\* It leaves chunks the sequence had.
LEMMA RestProps ==
  ASSUME NEW q \in Seq(Wc), NEW n \in Int
  PROVE  /\ Rest(q, n) \in Seq(Wc) /\ ChunksIn(Rest(q, n)) \subseteq ChunksIn(q)
         /\ Distinct(q) => Distinct(Rest(q, n))
<1>1. PICK left \in Seq(Wc) :
        /\ DOMAIN left = DOMAIN q /\ Rest(q, n) = Select(left, HasData(left))
        /\ \A i \in DOMAIN q : left[i].chunk = q[i].chunk
  BY RestLeft
<1>2. HasData(left) \in SUBSET DOMAIN left
  BY DEF HasData
<1>3. ChunksIn(left) = ChunksIn(q) /\ (Distinct(q) => Distinct(left))
  BY <1>1 DEF ChunksIn, Distinct
<1> HIDE DEF Wc
<1>4. QED BY <1>1, <1>2, <1>3, SelectProps, SelectChunks

-------------------------------------------------------------------------------
(* The debt. *)

\* What post_chunks_to_srq takes: as much as is wanted, or all there is.
LEMMA Posted ==
  ASSUME NEW free, IsFiniteSet(free), NEW num \in Nat, NEW T \in post_chunks_to_srq(free, num)
  PROVE  /\ T \subseteq free /\ IsFiniteSet(T) /\ Cardinality(T) \in Nat /\ Cardinality(T) <= num
         /\ Cardinality(T) = num \/ T = free
<1>1. /\ T \in SUBSET free /\ IsFiniteSet(T) /\ Cardinality(T) \in Nat
      /\ Cardinality(T) = (IF Cardinality(free) < num THEN Cardinality(free) ELSE num)
      /\ Cardinality(free) \in Nat
  BY FS_Subset, FS_CardinalityType DEF post_chunks_to_srq
<1>2. Cardinality(free) = Cardinality(T) => free = T
  BY <1>1, FS_Subset
<1>3. QED BY <1>1, <1>2

\* Posting chunks that are not posted yet lengthens the queue by their number.
LEMMA Lengthened ==
  ASSUME NEW Q, IsFiniteSet(Q), NEW T, IsFiniteSet(T), T \cap Q = {}
  PROVE  /\ IsFiniteSet(Q \cup T) /\ Cardinality(Q) \in Nat /\ Cardinality(T) \in Nat
         /\ Cardinality(Q \cup T) = Cardinality(Q) + Cardinality(T)
<1>1. /\ Cardinality(Q \cup T) = Cardinality(Q) + Cardinality(T) - Cardinality(Q \cap T)
      /\ IsFiniteSet(Q \cup T)
  BY FS_Union
<1>2. Cardinality(Q \cap T) = 0 /\ Cardinality(Q) \in Nat /\ Cardinality(T) \in Nat
  <2>1. Q \cap T = {}
    OBVIOUS
  <2>2. QED BY <2>1, FS_EmptySet, FS_CardinalityType
<1>3. QED BY <1>1, <1>2

\* What is posted is owed no more.
LEMMA Balance ==
  ASSUME NEW a \in Nat, NEW b \in Nat, NEW p \in Nat, NEW q \in Nat, NEW x \in Nat, NEW y \in Nat,
         NEW n, a + x + y + p = n, b + q = a + p
  PROVE  b + x + y + q = n
OBVIOUS

LEMMA PostChunk ==
  ASSUME NEW C, C \subseteq Chunks, pool \subseteq Chunks, srq \subseteq Chunks, post_backlog \in Nat,
         pool \cap srq = {}, C \cap srq = {}, post_chunk_to_pool(C)
  PROVE  /\ pool' \cup srq' = Free \cup C /\ pool' \cap srq' = {} /\ post_backlog' \in Nat
         /\ Cardinality(srq') + post_backlog' = Cardinality(srq) + post_backlog
         /\ (post_backlog > 0 => pool = {}) => (post_backlog' > 0 => pool' = {})
<1> DEFINE num == IF C = {} THEN 0 ELSE post_backlog
           free == pool \cup C
<1>1. IsFiniteSet(free) /\ IsFiniteSet(srq) /\ num \in Nat /\ free \cap srq = {}
  BY FS_Subset, RxPoolAssumption
<1>2. PICK T \in post_chunks_to_srq(free, num) :
        pool' = free \ T /\ srq' = srq \cup T /\ post_backlog' = post_backlog - Cardinality(T)
  BY DEF post_chunk_to_pool
<1> HIDE DEF free
<1>3. /\ T \subseteq free /\ IsFiniteSet(T) /\ Cardinality(T) \in Nat /\ Cardinality(T) <= num
      /\ Cardinality(T) = num \/ T = free
  <2> HIDE DEF num
  <2>1. QED BY <1>1, <1>2, Posted
<1>4. /\ Cardinality(srq') = Cardinality(srq) + Cardinality(T) /\ Cardinality(srq) \in Nat
  <2>1. T \cap srq = {}
    BY <1>1, <1>3
  <2>2. QED BY <1>1, <1>2, <1>3, <2>1, Lengthened
<1>5. pool' \cup srq' = free \cup srq /\ pool' \cap srq' = {}
  BY <1>1, <1>2, <1>3
<1>6. num <= post_backlog
  OBVIOUS
<1>7. post_backlog' \in Nat /\ Cardinality(srq') + post_backlog' = Cardinality(srq) + post_backlog
  <2> HIDE DEF num
  <2>1. QED BY <1>1, <1>2, <1>3, <1>4, <1>6
<1>8. ASSUME post_backlog > 0 => pool = {}, post_backlog' > 0 PROVE pool' = {}
  <2>1. CASE C = {}
    <3>1. Cardinality(T) = 0 /\ post_backlog' = post_backlog
      BY <1>2, <1>3, <2>1
    <3>2. free = {}
      BY <1>8, <2>1, <3>1 DEF free
    <3>3. QED BY <1>2, <3>2
  <2>2. CASE C # {}
    <3>1. Cardinality(T) # num
      BY <1>2, <1>8, <2>2
    <3>2. QED BY <1>2, <1>3, <3>1
  <2>3. QED BY <2>1, <2>2
<1>9. pool' \cup srq' = Free \cup C
  BY <1>5 DEF free, Free
<1>10. QED BY <1>5, <1>7, <1>8, <1>9

-------------------------------------------------------------------------------
(* What the steps of a kind keep. *)

LEMMA Socks ==
  ASSUME sock \in [Sockets -> Socket], NEW s \in Sockets, NEW o \in Socket,
         sock' = [sock EXCEPT ![s] = o]
  PROVE  /\ sock' \in [Sockets -> Socket] /\ sock'[s] = o
         /\ \A t \in Sockets : t # s => sock'[t] = sock[t]
<1> HIDE DEF Socket
<1>1. QED OBVIOUS

\* The parts of the invariant that say where the chunks are.
ChunkInv == OwnerInv /\ OnceInv /\ CountInv
PoolType == pool \subseteq Chunks /\ srq \subseteq Chunks /\ post_backlog \in 0 .. QueueLen

\* A step that moves no chunk.
LEMMA SameChunks ==
  ASSUME IInv, UNCHANGED <<poolVars, rx_cq, batch, unpaid>>,
         \A t \in Sockets : /\ sock'[t].wc = sock[t].wc /\ sock'[t].buffers = sock[t].buffers
                            /\ sock'[t].res_mem = sock[t].res_mem
  PROVE  PoolType' /\ ChunkInv'
<1>0. /\ OwnerInv /\ OnceInv /\ CountInv /\ pool' = pool /\ srq' = srq /\ post_backlog' = post_backlog
      /\ rx_cq' = rx_cq /\ batch' = batch /\ unpaid' = unpaid
  BY DEF IInv, poolVars
<1>1. PoolType'
  BY <1>0 DEF IInv, TypeOK, PoolType
<1>2. \A t \in Sockets : Held(t)' = Held(t) /\ (Once(sock[t]) => Once(sock[t])')
  BY DEF Held, Once
<1>3. OwnerInv'
  BY <1>0, <1>2 DEF OwnerInv, Free
<1>4. OnceInv'
  BY <1>0, <1>2 DEF OnceInv
<1>5. CountInv'
  BY <1>0 DEF CountInv, BacklogExact
<1>6. QED BY <1>1, <1>3, <1>4, <1>5 DEF ChunkInv

\* A reader's step that gives some of its socket's chunks back.
LEMMA Returned ==
  ASSUME IInv, NEW s \in Sockets, NEW C, NEW o \in Socket,
         C \subseteq Held(s), post_chunk_to_pool(C), sock' = [sock EXCEPT ![s] = o],
         ChunksIn(o.wc) \cup ChunksIn(o.buffers) \cup o.res_mem = Held(s) \ C, Once(o),
         UNCHANGED <<rx_cq, batch, unpaid>>
  PROVE  PoolType' /\ ChunkInv'
<1>0. /\ pool \subseteq Chunks /\ srq \subseteq Chunks /\ post_backlog \in Nat /\ QueueLen \in Nat
      /\ sock \in [Sockets -> Socket] /\ OwnerInv /\ OnceInv /\ CountInv
      /\ rx_cq \in Seq(Wc) /\ batch \in Seq(Wc) /\ rx_cq' = rx_cq /\ batch' = batch /\ unpaid' = unpaid
  BY RxPoolAssumption DEF IInv, TypeOK
<1>1. sock'[s] = o /\ \A t \in Sockets : t # s => sock'[t] = sock[t]
  BY <1>0, Socks
<1>2. Held(s)' = Held(s) \ C /\ \A t \in Sockets : t # s => Held(t)' = Held(t)
  BY <1>1 DEF Held
<1>3. /\ C \subseteq Chunks /\ C \cap srq = {} /\ pool \cap srq = {}
  BY <1>0 DEF OwnerInv, Free
<1>4. /\ pool' \cup srq' = Free \cup C /\ pool' \cap srq' = {} /\ post_backlog' \in Nat
      /\ Cardinality(srq') + post_backlog' = Cardinality(srq) + post_backlog
      /\ (post_backlog > 0 => pool = {}) => (post_backlog' > 0 => pool' = {})
  BY <1>0, <1>3, PostChunk
<1>5. Free' = Free \cup C
  BY <1>4 DEF Free
<1>6. OwnerInv'
  <2>1. \A t \in Sockets : Held(t)' \subseteq Held(t)
    BY <1>2
  <2>2. \A t \in Sockets : Held(t)' \cap C = {}
    BY <1>0, <1>2 DEF OwnerInv
  <2>3. C \cap (ChunksIn(rx_cq) \cup ChunksIn(batch)) = {}
    BY <1>0 DEF OwnerInv
  <2>4. Free' \cap (ChunksIn(rx_cq) \cup ChunksIn(batch)) = {}
    BY <1>0, <1>5, <2>3 DEF OwnerInv
  <2>5. \A t \in Sockets : Held(t)' \cap (Free' \cup ChunksIn(rx_cq) \cup ChunksIn(batch)) = {}
    <3>1. ASSUME NEW t \in Sockets, NEW c \in Held(t)' PROVE c \notin Free \cup ChunksIn(rx_cq) \cup ChunksIn(batch) /\ c \notin C
      BY <1>0, <2>1, <2>2 DEF OwnerInv
    <3>2. QED BY <1>5, <3>1
  <2>6. \A t, u \in Sockets : t # u => Held(t)' \cap Held(u)' = {}
    <3>1. \A t, u \in Sockets : t # u => Held(t) \cap Held(u) = {}
      BY <1>0 DEF OwnerInv
    <3>2. QED BY <2>1, <3>1
  <2>7. UNION {Held(t) : t \in Sockets} = C \cup UNION {Held(t)' : t \in Sockets}
    <3>1. ASSUME NEW t \in Sockets, NEW c \in Held(t) PROVE c \in C \/ c \in Held(t)'
      BY <1>2
    <3>2. QED BY <2>1, <3>1
  <2>8. Chunks = Free \cup ChunksIn(rx_cq) \cup ChunksIn(batch) \cup UNION {Held(t) : t \in Sockets}
    BY <1>0 DEF OwnerInv
  <2>9. Chunks = Free' \cup ChunksIn(rx_cq) \cup ChunksIn(batch) \cup UNION {Held(t)' : t \in Sockets}
    <3> DEFINE U == UNION {Held(t) : t \in Sockets}
               V == UNION {Held(t)' : t \in Sockets}
    <3>1. U = C \cup V /\ Chunks = Free \cup ChunksIn(rx_cq) \cup ChunksIn(batch) \cup U
      BY <2>7, <2>8
    <3> HIDE DEF U, V
    <3>2. Chunks = Free' \cup ChunksIn(rx_cq) \cup ChunksIn(batch) \cup V
      BY <1>5, <3>1
    <3>3. QED BY <3>2 DEF V
  <2>10. ChunksIn(rx_cq) \cap ChunksIn(batch) = {}
    BY <1>0 DEF OwnerInv
  <2>11. QED BY <1>0, <1>4, <2>4, <2>5, <2>6, <2>9, <2>10 DEF OwnerInv
<1>7. OnceInv'
  <2>1. \A t \in Sockets : Once(sock[t])'
    <3>1. \A t \in Sockets : t # s => Once(sock[t])'
      BY <1>0, <1>1 DEF OnceInv, Once
    <3>2. Once(sock[s])'
      BY <1>1 DEF Once
    <3>3. QED BY <3>1, <3>2
  <2>2. QED BY <1>0, <2>1 DEF OnceInv
<1>8. CountInv'
  <2>1. Cardinality(srq) + Len(rx_cq) + Len(batch) + post_backlog = QueueLen
    BY <1>0 DEF CountInv, BacklogExact
  <2>2. /\ Len(rx_cq) \in Nat /\ Len(batch) \in Nat /\ Cardinality(srq) \in Nat
        /\ Cardinality(srq') \in Nat
    <3>1. srq' \subseteq Chunks
      BY <1>0, <1>3, <1>4 DEF Free
    <3>2. IsFiniteSet(srq) /\ IsFiniteSet(srq')
      BY <1>0, <3>1, FS_Subset, RxPoolAssumption
    <3>3. QED BY <1>0, <3>2, FS_CardinalityType
  <2>3. Cardinality(srq') + Len(rx_cq) + Len(batch) + post_backlog' = QueueLen
    <3>1. /\ post_backlog \in Nat /\ post_backlog' \in Nat
          /\ Cardinality(srq') + post_backlog' = Cardinality(srq) + post_backlog
      BY <1>0, <1>4
    <3> DEFINE a == Cardinality(srq)
               b == Cardinality(srq')
               x == Len(rx_cq)
               y == Len(batch)
               p == post_backlog
               q == post_backlog'
    <3>2. /\ a \in Nat /\ b \in Nat /\ x \in Nat /\ y \in Nat /\ p \in Nat /\ q \in Nat
          /\ a + x + y + p = QueueLen /\ b + q = a + p
      BY ONLY <2>1, <2>2, <3>1
    <3> HIDE DEF a, b, x, y, p, q
    <3>3. b + x + y + q = QueueLen
      BY ONLY <3>2, Balance
    <3>4. QED BY ONLY <3>3 DEF b, x, y, q
  <2>4. BacklogExact'
    BY <1>0, <2>3 DEF BacklogExact
  <2>5. ~unpaid /\ post_backlog' > 0 => pool' = {}
    BY <1>0, <1>4 DEF CountInv
  <2>6. QED BY <1>0, <2>4, <2>5 DEF CountInv
<1>9. PoolType'
  <2>1. pool' \subseteq Chunks /\ srq' \subseteq Chunks
    BY <1>0, <1>3, <1>4 DEF Free
  <2>2. Cardinality(srq') + Len(rx_cq) + Len(batch) + post_backlog' = QueueLen
    BY <1>0, <1>8 DEF CountInv, BacklogExact
  <2>3. Cardinality(srq') \in Nat /\ Len(rx_cq) \in Nat /\ Len(batch) \in Nat
    <3>1. IsFiniteSet(srq')
      BY <2>1, FS_Subset, RxPoolAssumption
    <3>2. QED BY <1>0, <3>1, FS_CardinalityType
  <2>4. post_backlog' \in 0 .. QueueLen
    BY <1>0, <1>4, <2>2, <2>3
  <2>5. QED BY <2>1, <2>4 DEF PoolType
<1>10. QED BY <1>6, <1>7, <1>8, <1>9 DEF ChunkInv

-------------------------------------------------------------------------------
(* The dispatcher's steps but handle_rx. *)

LEMMA PollStep == ASSUME IInv, poll_cq PROVE IInv'
<1>0. /\ TypeOK /\ PollInv /\ OwnerInv /\ OnceInv /\ CountInv /\ LifeInv /\ NotifyInv
      /\ polling = "poll" /\ batch' = rx_cq /\ rx_cq' = <<>>
      /\ polling' = IF rx_cq = <<>> THEN "idle" ELSE "handle"
      /\ pool' = pool /\ srq' = srq /\ post_backlog' = post_backlog /\ rearmed' = rearmed
      /\ armed' = armed /\ cq_event' = cq_event /\ done' = done /\ sock' = sock
      /\ reader' = reader /\ sent' = sent /\ reread' = reread /\ unpaid' = unpaid
  BY DEF IInv, poll_cq, Polled, poolVars
<1>1. batch = <<>>
  BY <1>0 DEF PollInv
<1>2. TypeOK'
  <2>1. <<>> \in Seq(Wc)
    OBVIOUS
  <2>2. QED BY <1>0, <2>1 DEF TypeOK
<1>3. PollInv'
  BY <1>0 DEF PollInv
<1>4. ChunksIn(batch) = {} /\ ChunksIn(rx_cq)' = {} /\ ChunksIn(batch)' = ChunksIn(rx_cq)
      /\ \A s \in Sockets : Held(s)' = Held(s)
  BY <1>0, <1>1, ChunksEmpty DEF Held
<1>5. OwnerInv'
  BY <1>0, <1>4 DEF OwnerInv, Free
<1>6. OnceInv'
  BY <1>0, ChunksEmpty DEF OnceInv, Once
<1>7. CountInv'
  <2>1. Len(rx_cq) \in Nat /\ Len(batch) = 0 /\ Len(rx_cq') = 0 /\ Len(batch') = Len(rx_cq)
    BY <1>0, <1>1 DEF TypeOK
  <2>2. IsFiniteSet(srq)
    BY <1>0, FS_Subset, RxPoolAssumption DEF TypeOK
  <2>3. Cardinality(srq) \in Nat
    BY <2>2, FS_CardinalityType
  <2>4. Cardinality(srq) + Len(rx_cq) + 0 = Cardinality(srq) + 0 + Len(rx_cq)
    BY <2>1, <2>3
  <2>5. QED BY <1>0, <2>1, <2>4 DEF CountInv, BacklogExact
<1>8. LifeInv' /\ NotifyInv'
  BY <1>0 DEF LifeInv, NotifyInv
<1>9. QED BY <1>2, <1>3, <1>5, <1>6, <1>7, <1>8 DEF IInv

LEMMA IdleStep == ASSUME IInv, idle PROVE IInv'
<1>0. /\ TypeOK /\ PollInv /\ LifeInv /\ NotifyInv /\ polling = "idle"
      /\ sock' = [s \in Sockets |-> IF sock[s].registered THEN sock[s]
                                    ELSE [sock[s] EXCEPT !.fin = TRUE]]
      /\ \/ polling' \in {"exited", "poll"} /\ rearmed' = rearmed /\ armed' = armed
         \/ ~rearmed /\ polling' = "poll" /\ rearmed' = TRUE /\ armed' = TRUE
         \/ rearmed /\ polling' = "sleep" /\ rearmed' = rearmed /\ armed' = armed
      /\ UNCHANGED poolVars /\ rx_cq' = rx_cq /\ batch' = batch /\ unpaid' = unpaid
      /\ cq_event' = cq_event /\ done' = done /\ reader' = reader /\ sent' = sent /\ reread' = reread
  BY DEF IInv, idle, rearm
<1>1. ASSUME NEW s \in Sockets
      PROVE  /\ sock'[s] \in Socket /\ sock'[s].wc = sock[s].wc /\ sock'[s].buffers = sock[s].buffers
             /\ sock'[s].res_mem = sock[s].res_mem /\ sock'[s].life = sock[s].life
             /\ sock'[s].registered = sock[s].registered
             /\ sock'[s].connected = sock[s].connected /\ sock'[s].notify_fd = sock[s].notify_fd
  <2>1. sock[s] \in Socket
    BY <1>0 DEF TypeOK
  <2>2. CASE sock[s].registered
    BY <1>0, <2>1, <2>2
  <2>3. CASE ~sock[s].registered
    <3>1. sock'[s] = [sock[s] EXCEPT !.fin = TRUE]
      BY <1>0, <2>3
    <3>2. QED BY <2>1, <3>1 DEF Socket
  <2>4. QED BY <2>2, <2>3
<1>2. sock' \in [Sockets -> Socket]
  BY <1>0, <1>1
<1>3. PoolType' /\ ChunkInv'
  BY <1>0, <1>1, SameChunks
<1>4. TypeOK'
  BY <1>0, <1>2, <1>3 DEF TypeOK, PoolType
<1>5. PollInv'
  BY <1>0 DEF PollInv
<1>6. LifeInv'
  BY <1>0, <1>1 DEF LifeInv
<1>7. NotifyInv'
  BY <1>0, <1>1 DEF NotifyInv
<1>8. QED BY <1>3, <1>4, <1>5, <1>6, <1>7 DEF IInv, ChunkInv

LEMMA WakeStep == ASSUME IInv, wake \/ polling_stop PROVE IInv'
<1>0. /\ TypeOK /\ PollInv /\ LifeInv /\ NotifyInv
      /\ UNCHANGED <<poolVars, rx_cq, batch, armed, sock, reader, sent, reread, unpaid>>
      /\ done' \in {done, TRUE} /\ cq_event' \in {cq_event, FALSE}
      /\ \/ cq_event' = cq_event /\ rearmed' = rearmed /\ polling' = polling
         \/ rearmed' = FALSE /\ polling' = "poll" /\ polling = "sleep"
  BY DEF IInv, wake, polling_stop
<1>1. PoolType' /\ ChunkInv'
  <2>1. UNCHANGED <<poolVars, rx_cq, batch, unpaid>> /\ sock' = sock
    BY <1>0
  <2>2. QED BY <2>1, SameChunks
<1>2. TypeOK'
  BY <1>0, <1>1 DEF TypeOK, PoolType
<1>3. PollInv'
  BY <1>0 DEF PollInv
<1>4. LifeInv' /\ NotifyInv'
  BY <1>0 DEF LifeInv, NotifyInv
<1>5. QED BY <1>1, <1>2, <1>3, <1>4 DEF IInv, ChunkInv

\* A step of one socket that moves no chunk and leaves the dispatcher alone.
LEMMA SocketStep ==
  ASSUME IInv, NEW s \in Sockets, NEW o \in Socket, NEW r \in Reader,
         o.wc = sock[s].wc, o.buffers = sock[s].buffers, o.res_mem = sock[s].res_mem,
         sock' = [sock EXCEPT ![s] = o], reader' = [reader EXCEPT ![s] = r],
         UNCHANGED <<poolVars, cqVars, sent, unpaid>>, reread' \in BOOLEAN,
         o.life = "closed" => /\ ~o.registered /\ r.at \in {"idle", "drain"}
                              /\ r.at = "idle" => o.wc = <<>> /\ o.buffers = <<>>,
         o.life = "open" /\ r.at = "idle" /\ o.connected /\ s \notin ZeroCopy =>
           o.notify_fd \/ (o.wc = <<>> /\ o.buffers = <<>>)
  PROVE  IInv'
<1>0. /\ TypeOK /\ PollInv /\ LifeInv /\ NotifyInv /\ UNCHANGED poolVars /\ UNCHANGED cqVars
      /\ rx_cq' = rx_cq /\ batch' = batch /\ unpaid' = unpaid /\ sent' = sent
      /\ sock \in [Sockets -> Socket] /\ reader \in [Sockets -> Reader]
  BY DEF IInv, cqVars, TypeOK
<1>1. /\ sock' \in [Sockets -> Socket] /\ sock'[s] = o
      /\ \A t \in Sockets : t # s => sock'[t] = sock[t]
  BY <1>0, Socks
<1>2. /\ reader' \in [Sockets -> Reader] /\ reader'[s] = r
      /\ \A t \in Sockets : t # s => reader'[t] = reader[t]
  BY <1>0
<1>3. PoolType' /\ ChunkInv'
  <2>1. UNCHANGED <<poolVars, rx_cq, batch, unpaid>>
    BY <1>0
  <2>2. \A t \in Sockets : /\ sock'[t].wc = sock[t].wc /\ sock'[t].buffers = sock[t].buffers
                           /\ sock'[t].res_mem = sock[t].res_mem
    BY <1>1
  <2>3. QED BY <2>1, <2>2, SameChunks
<1>4. TypeOK'
  BY <1>0, <1>1, <1>2, <1>3 DEF TypeOK, PoolType, cqVars
<1>5. PollInv'
  BY <1>0 DEF PollInv, cqVars
<1>6. LifeInv'
  BY <1>0, <1>1, <1>2 DEF LifeInv
<1>7. NotifyInv'
  <2>1. ASSUME NEW t \in Sockets \ ZeroCopy, sock'[t].life = "open", reader'[t].at = "idle",
               sock'[t].connected, sock'[t].wc # <<>> \/ sock'[t].buffers # <<>>
        PROVE  sock'[t].notify_fd
    <3>1. CASE t = s
      BY <1>1, <1>2, <2>1, <3>1
    <3>2. CASE t # s
      BY <1>0, <1>1, <1>2, <2>1, <3>2 DEF NotifyInv
    <3>3. QED BY <3>1, <3>2
  <2>2. QED BY <2>1 DEF NotifyInv
<1>8. QED BY <1>3, <1>4, <1>5, <1>6, <1>7 DEF IInv, ChunkInv

\* A step of one socket's reader that may give chunks back.
LEMMA ReaderStep ==
  ASSUME IInv, NEW s \in Sockets, NEW C, NEW o \in Socket, NEW r \in Reader,
         C \subseteq Held(s), post_chunk_to_pool(C), sock' = [sock EXCEPT ![s] = o],
         ChunksIn(o.wc) \cup ChunksIn(o.buffers) \cup o.res_mem = Held(s) \ C, Once(o),
         reader' = [reader EXCEPT ![s] = r],
         UNCHANGED <<cqVars, sent, reread, unpaid>>,
         o.life = "closed" => /\ ~o.registered /\ r.at \in {"idle", "drain"}
                              /\ r.at = "idle" => o.wc = <<>> /\ o.buffers = <<>>,
         o.life = "open" /\ r.at = "idle" /\ o.connected /\ s \notin ZeroCopy =>
           o.notify_fd \/ (o.wc = <<>> /\ o.buffers = <<>>)
  PROVE  IInv'
<1>0. /\ TypeOK /\ PollInv /\ LifeInv /\ NotifyInv /\ UNCHANGED cqVars
      /\ rx_cq' = rx_cq /\ batch' = batch /\ unpaid' = unpaid /\ sent' = sent /\ reread' = reread
      /\ sock \in [Sockets -> Socket] /\ reader \in [Sockets -> Reader]
  BY DEF IInv, cqVars, TypeOK
<1>1. /\ sock' \in [Sockets -> Socket] /\ sock'[s] = o
      /\ \A t \in Sockets : t # s => sock'[t] = sock[t]
  BY <1>0, Socks
<1>2. /\ reader' \in [Sockets -> Reader] /\ reader'[s] = r
      /\ \A t \in Sockets : t # s => reader'[t] = reader[t]
  BY <1>0
<1>3. PoolType' /\ ChunkInv'
  <2>1. UNCHANGED <<rx_cq, batch, unpaid>>
    BY <1>0
  <2>2. QED BY <2>1, Returned
<1>4. TypeOK'
  BY <1>0, <1>1, <1>2, <1>3 DEF TypeOK, PoolType, cqVars
<1>5. PollInv'
  BY <1>0 DEF PollInv, cqVars
<1>6. LifeInv'
  BY <1>0, <1>1, <1>2 DEF LifeInv
<1>7. NotifyInv'
  <2>1. ASSUME NEW t \in Sockets \ ZeroCopy, sock'[t].life = "open", reader'[t].at = "idle",
               sock'[t].connected, sock'[t].wc # <<>> \/ sock'[t].buffers # <<>>
        PROVE  sock'[t].notify_fd
    <3>1. CASE t = s
      BY <1>1, <1>2, <2>1, <3>1
    <3>2. CASE t # s
      BY <1>0, <1>1, <1>2, <2>1, <3>2 DEF NotifyInv
    <3>3. QED BY <3>1, <3>2
  <2>2. QED BY <2>1 DEF NotifyInv
<1>8. QED BY <1>3, <1>4, <1>5, <1>6, <1>7 DEF IInv, ChunkInv

-------------------------------------------------------------------------------
(* The steps of a socket and of its reader. *)

\* What is known of a socket at the start of its step.
LEMMA SocketTypes ==
  ASSUME IInv, NEW s \in Sockets
  PROVE  /\ sock \in [Sockets -> Socket] /\ reader \in [Sockets -> Reader] /\ reread \in BOOLEAN
         /\ sock[s] \in Socket /\ reader[s] \in Reader
         /\ sock[s].wc \in Seq(Wc) /\ sock[s].buffers \in Seq(Wc) /\ sock[s].res_mem \subseteq Chunks
         /\ sock[s].life \in {"open", "closed"}
         /\ Once(sock[s])
         /\ sock[s].life = "closed" =>
              /\ ~sock[s].registered /\ reader[s].at \in {"idle", "drain"}
              /\ reader[s].at = "idle" => sock[s].wc = <<>> /\ sock[s].buffers = <<>>
<1>1. sock \in [Sockets -> Socket] /\ reader \in [Sockets -> Reader] /\ reread \in BOOLEAN
  BY DEF IInv, TypeOK
<1>2. sock[s] \in Socket /\ reader[s] \in Reader
  BY <1>1
<1>3. /\ sock[s].wc \in Seq(Wc) /\ sock[s].buffers \in Seq(Wc) /\ sock[s].res_mem \subseteq Chunks
      /\ sock[s].life \in {"open", "closed"}
  BY <1>2 DEF Socket
<1>4. Once(sock[s])
  BY DEF IInv, OnceInv
<1>5. LifeInv
  BY DEF IInv
<1>6. QED BY <1>1, <1>2, <1>3, <1>4, <1>5 DEF LifeInv

LEMMA AsyncStep ==
  ASSUME IInv, NEW s \in Sockets, handle_async_event(s)
  PROVE  IInv'
<1> DEFINE o == [fault(sock[s]) EXCEPT !.registered = FALSE]
           r == reader[s]
<1>1. /\ sock' = [sock EXCEPT ![s] = o] /\ UNCHANGED <<poolVars, cqVars, sent, unpaid>>
      /\ reader' = reader /\ reread' = reread
  BY DEF handle_async_event
<1>2. /\ o \in Socket /\ o.wc = sock[s].wc /\ o.buffers = sock[s].buffers
      /\ o.res_mem = sock[s].res_mem /\ o.life = sock[s].life /\ ~o.registered /\ o.notify_fd
  BY SocketTypes DEF fault, Socket
<1>3. reader' = [reader EXCEPT ![s] = r] /\ r \in Reader
  BY <1>1, SocketTypes
<1>4. o.life = "closed" => /\ ~o.registered /\ r.at \in {"idle", "drain"}
                           /\ r.at = "idle" => o.wc = <<>> /\ o.buffers = <<>>
  BY <1>2, SocketTypes
<1>5. reread' \in BOOLEAN
  BY <1>1, SocketTypes
<1> HIDE DEF o, r
<1>6. QED BY <1>1, <1>2, <1>3, <1>4, <1>5, SocketStep

LEMMA ConnectedStep ==
  ASSUME IInv, NEW s \in Sockets, connected(s)
  PROVE  IInv'
<1> DEFINE o == [sock[s] EXCEPT !.connected = TRUE, !.notify_fd = TRUE]
           r == reader[s]
<1>1. /\ sock' = [sock EXCEPT ![s] = o] /\ UNCHANGED <<poolVars, cqVars, sent, unpaid>>
      /\ reader' = reader /\ reread' = reread
  BY SocketTypes DEF connected
<1>2. /\ o \in Socket /\ o.wc = sock[s].wc /\ o.buffers = sock[s].buffers
      /\ o.res_mem = sock[s].res_mem /\ o.life = sock[s].life /\ o.registered = sock[s].registered
      /\ o.notify_fd
  BY SocketTypes DEF Socket
<1>3. reader' = [reader EXCEPT ![s] = r] /\ r \in Reader
  BY <1>1, SocketTypes
<1>4. o.life = "closed" => /\ ~o.registered /\ r.at \in {"idle", "drain"}
                           /\ r.at = "idle" => o.wc = <<>> /\ o.buffers = <<>>
  BY <1>2, SocketTypes
<1>5. reread' \in BOOLEAN
  BY <1>1, SocketTypes
<1> HIDE DEF o, r
<1>6. QED BY <1>1, <1>2, <1>3, <1>4, <1>5, SocketStep

LEMMA TooEarlyStep ==
  ASSUME IInv, NEW s \in Sockets, read_too_early(s)
  PROVE  IInv'
<1> DEFINE o == [sock[s] EXCEPT !.notify_fd = FALSE]
           r == reader[s]
<1>1. /\ sock' = [sock EXCEPT ![s] = o] /\ UNCHANGED <<poolVars, cqVars, sent, unpaid>>
      /\ reader' = reader /\ reread' = reread /\ ~sock[s].connected
  BY SocketTypes DEF read_too_early
<1>2. /\ o \in Socket /\ o.wc = sock[s].wc /\ o.buffers = sock[s].buffers
      /\ o.res_mem = sock[s].res_mem /\ o.life = sock[s].life /\ o.registered = sock[s].registered
      /\ ~o.connected
  BY <1>1, SocketTypes DEF Socket
<1>3. reader' = [reader EXCEPT ![s] = r] /\ r \in Reader
  BY <1>1, SocketTypes
<1>4. o.life = "closed" => /\ ~o.registered /\ r.at \in {"idle", "drain"}
                           /\ r.at = "idle" => o.wc = <<>> /\ o.buffers = <<>>
  BY <1>2, SocketTypes
<1>5. reread' \in BOOLEAN
  BY <1>1, SocketTypes
<1> HIDE DEF o, r
<1>6. QED BY <1>1, <1>2, <1>3, <1>4, <1>5, SocketStep

LEMMA RecheckStep ==
  ASSUME IInv, NEW s \in Sockets, recheck(s)
  PROVE  IInv'
<1> DEFINE r == [reader[s] EXCEPT !.at = "cqe", !.chunk = "none"]
<1>1. /\ reader' = [reader EXCEPT ![s] = r] /\ UNCHANGED <<poolVars, cqVars, sent, unpaid>>
      /\ sock' = sock /\ reread' \in BOOLEAN /\ reader[s].at = "recheck"
  BY SocketTypes DEF recheck
<1>2. r \in Reader /\ r.at = "cqe"
  BY SocketTypes DEF Reader
<1>3. sock' = [sock EXCEPT ![s] = sock[s]]
  BY <1>1, SocketTypes
<1> HIDE DEF r
<1>4. QED BY <1>1, <1>2, <1>3, SocketTypes, SocketStep

LEMMA EraseStep ==
  ASSUME IInv, NEW s \in Sockets, erase_qpn(s)
  PROVE  IInv'
<1> DEFINE o == [sock[s] EXCEPT !.life = "closed", !.registered = FALSE, !.error = TRUE]
           r == [reader[s] EXCEPT !.at = "drain"]
<1>1. /\ sock' = [sock EXCEPT ![s] = o] /\ reader' = [reader EXCEPT ![s] = r]
      /\ UNCHANGED <<poolVars, cqVars, sent, unpaid>> /\ reread' = reread
  BY SocketTypes DEF erase_qpn
<1>2. /\ o \in Socket /\ o.wc = sock[s].wc /\ o.buffers = sock[s].buffers
      /\ o.res_mem = sock[s].res_mem /\ o.life = "closed" /\ ~o.registered
  BY SocketTypes DEF Socket
<1>3. r \in Reader /\ r.at = "drain"
  BY SocketTypes DEF Reader
<1> HIDE DEF o, r
<1>4. QED BY <1>1, <1>2, <1>3, SocketTypes, SocketStep

\* Reading takes a natural number of units.
LEMMA TakenType ==
  ASSUME NEW q \in Seq(Wc), NEW len \in Int
  PROVE  Taken(q, len) \in Int /\ (len >= 0 => Taken(q, len) \in Nat)
BY DataType DEF Taken

LEMMA ReadBuffersStep ==
  ASSUME IInv, NEW s \in Sockets, NEW len \in 1 .. 2, read_buffers(s, len)
  PROVE  IInv'
<1> DEFINE b == sock[s].buffers
           n == Taken(b, len)
           rest == Rest(b, n)
           over == ChunksIn(b) \ ChunksIn(rest)
           last == {c \in over : n = len /\ c = b[Len(b) - Len(rest)].chunk}
           o == [sock[s] EXCEPT !.buffers = rest, !.notify_fd = FALSE]
           r == [at |-> IF last = {} THEN "cqe" ELSE "recheck",
                 chunk |-> IF last = {} THEN "none" ELSE CHOOSE c \in last : TRUE,
                 got |-> n, len |-> len]
<1>1. /\ post_chunk_to_pool(over) /\ sock' = [sock EXCEPT ![s] = o]
      /\ reader' = [reader EXCEPT ![s] = r] /\ UNCHANGED <<cqVars, sent, reread, unpaid>>
      /\ sock[s].life = "open"
  BY SocketTypes DEF read_buffers, Reads
<1>2. b \in Seq(Wc) /\ Once(sock[s]) /\ sock[s] \in Socket
  BY SocketTypes
<1>3. n \in Nat /\ n \in Int
  <2>1. len \in Int /\ len >= 0
    OBVIOUS
  <2> HIDE DEF b
  <2>2. Taken(b, len) \in Nat
    BY <1>2, <2>1, TakenType
  <2>3. QED BY <2>2
<1>4. rest \in Seq(Wc) /\ ChunksIn(rest) \subseteq ChunksIn(b) /\ Distinct(rest)
  <2>1. Distinct(b)
    BY <1>2 DEF Once
  <2> HIDE DEF b, n
  <2>2. QED BY <1>2, <1>3, <2>1, RestProps
<1> HIDE DEF n, rest
<1>5. /\ o \in Socket /\ o.wc = sock[s].wc /\ o.buffers = rest /\ o.res_mem = sock[s].res_mem
      /\ o.life = "open"
  BY <1>1, <1>2, <1>4 DEF Socket
<1>6. ChunksIn(b) \subseteq Chunks
  <2>1. \A i \in DOMAIN b : b[i] \in Wc
    BY <1>2
  <2>2. QED BY <2>1 DEF ChunksIn, Wc
<1>7. r \in Reader /\ r.at # "idle"
  <2>1. last \subseteq Chunks
    BY <1>6
  <2> HIDE DEF last
  <2>2. last # {} => (CHOOSE c \in last : TRUE) \in Chunks
    BY <2>1
  <2>3. QED BY <1>3, <2>2 DEF Reader
<1>8. /\ over \subseteq Held(s)
      /\ ChunksIn(o.wc) \cup ChunksIn(o.buffers) \cup o.res_mem = Held(s) \ over
  <2>1. /\ ChunksIn(sock[s].wc) \cap ChunksIn(b) = {} /\ sock[s].res_mem \cap ChunksIn(b) = {}
        /\ Held(s) = ChunksIn(sock[s].wc) \cup ChunksIn(b) \cup sock[s].res_mem
    BY <1>2 DEF Once, Held
  <2> HIDE DEF o, b
  <2>2. QED BY <1>4, <1>5, <2>1
<1>9. Once(o)
  <2>1. /\ Distinct(sock[s].wc) /\ ChunksIn(sock[s].wc) \cap ChunksIn(b) = {}
        /\ sock[s].res_mem \cap (ChunksIn(sock[s].wc) \cup ChunksIn(b)) = {}
    BY <1>2 DEF Once
  <2> HIDE DEF o, b
  <2>2. QED BY <1>4, <1>5, <2>1 DEF Once
<1> HIDE DEF o, r, over, last
<1>10. QED BY <1>1, <1>5, <1>7, <1>8, <1>9, ReaderStep

\* What is left of the completions once those without data are dropped.
LEMMA WithData ==
  ASSUME NEW q \in Seq(Wc)
  PROVE  LET d == Select(q, HasData(q)) IN
         d \in Seq(Wc) /\ ChunksIn(d) \subseteq ChunksIn(q) /\ (Distinct(q) => Distinct(d))
<1>1. HasData(q) \in SUBSET DOMAIN q
  BY DEF HasData
<1> HIDE DEF Wc
<1>2. QED BY <1>1, SelectProps, SelectChunks

LEMMA GetWcStep ==
  ASSUME IInv, NEW s \in Sockets, get_wc(s)
  PROVE  IInv'
<1> DEFINE w == sock[s].wc
           b == sock[s].buffers
           data == Select(w, HasData(w))
           n == Taken(data, reader[s].len - reader[s].got)
           rest == Rest(data, n)
           left == b \o rest
           error == sock[s].error \/ Len(data) < Len(w)
           eof == sock[s].eof \/ (error /\ reader[s].got + n = 0)
           over == ChunksIn(w) \ ChunksIn(rest)
           o == [sock[s] EXCEPT !.wc = <<>>, !.buffers = left, !.error = error,
                   !.notify_fd = NotifyAgain(sock[s], left), !.eof = eof]
<1>1. /\ post_chunk_to_pool(over) /\ reader' = [reader EXCEPT ![s] = Idle]
      /\ UNCHANGED <<cqVars, sent, reread, unpaid>> /\ reader[s].at = "cqe"
  BY DEF get_wc
<1>2. sock' = [sock EXCEPT ![s] = o]
  BY DEF get_wc
<1>3. /\ w \in Seq(Wc) /\ b \in Seq(Wc) /\ Once(sock[s]) /\ sock[s] \in Socket
      /\ reader[s].len - reader[s].got \in Int
  BY SocketTypes DEF Reader
<1>4. sock[s].life = "open"
  BY <1>1, SocketTypes
<1>5. Distinct(w) /\ Distinct(b) /\ ChunksIn(w) \cap ChunksIn(b) = {}
      /\ sock[s].res_mem \cap (ChunksIn(w) \cup ChunksIn(b)) = {}
  BY <1>3 DEF Once
<1>6. data \in Seq(Wc) /\ ChunksIn(data) \subseteq ChunksIn(w) /\ Distinct(data)
  <2> HIDE DEF w
  <2>1. QED BY <1>3, <1>5, WithData
<1> HIDE DEF data
<1>7. n \in Int
  BY <1>3, <1>6, TakenType
<1> HIDE DEF n
<1>8. rest \in Seq(Wc) /\ ChunksIn(rest) \subseteq ChunksIn(w) /\ Distinct(rest)
  BY <1>6, <1>7, RestProps
<1> HIDE DEF rest
<1>9. left \in Seq(Wc) /\ ChunksIn(left) = ChunksIn(b) \cup ChunksIn(rest) /\ Distinct(left)
  <2>1. ChunksIn(b) \cap ChunksIn(rest) = {}
    BY <1>5, <1>8
  <2> HIDE DEF b
  <2>2. QED BY <1>3, <1>5, <1>8, <2>1, ChunksConcat
<1> HIDE DEF left
<1>10. <<>> \in Seq(Wc) /\ NotifyAgain(sock[s], left) \in BOOLEAN /\ error \in BOOLEAN /\ eof \in BOOLEAN
  BY <1>3 DEF NotifyAgain, Socket
<1> DEFINE notify == NotifyAgain(sock[s], left)
<1>11. notify \/ left = <<>>
  BY DEF NotifyAgain
<1> HIDE DEF notify, error, eof
<1>12. /\ o \in Socket /\ o.wc = <<>> /\ o.buffers = left /\ o.res_mem = sock[s].res_mem
       /\ o.life = "open" /\ o.notify_fd = notify
  BY <1>3, <1>4, <1>9, <1>10 DEF Socket, notify
<1>13. /\ over \subseteq Held(s)
       /\ ChunksIn(o.wc) \cup ChunksIn(o.buffers) \cup o.res_mem = Held(s) \ over
  <2>1. Held(s) = ChunksIn(w) \cup ChunksIn(b) \cup sock[s].res_mem
    BY DEF Held
  <2> HIDE DEF o, w, b
  <2>2. QED BY <1>5, <1>8, <1>9, <1>12, <2>1, ChunksEmpty
<1>14. Once(o)
  <2> HIDE DEF o, w, b
  <2>1. QED BY <1>5, <1>8, <1>9, <1>12, ChunksEmpty DEF Once
<1>15. Idle \in Reader /\ Idle.at = "idle"
  BY DEF Idle, Reader
<1> HIDE DEF o, over
<1>16. QED BY <1>1, <1>2, <1>11, <1>12, <1>13, <1>14, <1>15, ReaderStep

LEMMA ZeroCopyStep ==
  ASSUME IInv, NEW s \in Sockets, zero_copy_read(s)
  PROVE  IInv'
<1> DEFINE w == sock[s].wc
           b == sock[s].buffers
           sel == Select(w, HasData(w))
           data == IF b = <<>> THEN sel ELSE b
           lent == Last(data)
           rest == Front(data)
           mem == sock[s].res_mem \cup {lent.chunk}
           wc == IF b = <<>> THEN <<>> ELSE w
           over == IF b = <<>> THEN ChunksIn(w) \ ChunksIn(data) ELSE {}
           o == [sock[s] EXCEPT !.buffers = rest, !.res_mem = mem, !.wc = wc]
           r == reader[s]
<1>1. /\ post_chunk_to_pool(over) /\ reader' = reader /\ data # <<>> /\ s \in ZeroCopy
      /\ UNCHANGED <<cqVars, sent, reread, unpaid>> /\ sock[s].life = "open"
  BY DEF zero_copy_read, Reads
<1>2. sock' = [sock EXCEPT ![s] = o]
  BY DEF zero_copy_read
<1>3. /\ w \in Seq(Wc) /\ b \in Seq(Wc) /\ Once(sock[s]) /\ sock[s] \in Socket
      /\ sock[s].res_mem \subseteq Chunks /\ r \in Reader /\ reader \in [Sockets -> Reader]
  BY SocketTypes
<1>4. Distinct(w) /\ Distinct(b) /\ ChunksIn(w) \cap ChunksIn(b) = {}
      /\ sock[s].res_mem \cap (ChunksIn(w) \cup ChunksIn(b)) = {}
  BY <1>3 DEF Once
<1>5. sel \in Seq(Wc) /\ ChunksIn(sel) \subseteq ChunksIn(w) /\ Distinct(sel)
  <2> HIDE DEF w
  <2>1. QED BY <1>3, <1>4, WithData
<1>6. Held(s) = ChunksIn(w) \cup ChunksIn(b) \cup sock[s].res_mem
  BY DEF Held
<1> HIDE DEF w, b, sel
<1>7. data \in Seq(Wc) /\ Distinct(data)
  BY <1>3, <1>4, <1>5
<1> DEFINE c == lent.chunk
           F == ChunksIn(rest)
<1>8. /\ rest \in Seq(Wc) /\ lent \in Wc /\ ChunksIn(data) = F \cup {c}
      /\ Distinct(rest) /\ c \notin F
  <2> HIDE DEF data
  <2>1. QED BY <1>1, <1>7, ChunksFront
<1>9. c \in Chunks
  <2>1. lent \in Wc
    BY <1>8
  <2> HIDE DEF lent
  <2>2. QED BY <2>1 DEF Wc
<1>10. /\ wc \in Seq(Wc) /\ Distinct(wc) /\ over \subseteq ChunksIn(w)
       /\ F \cup {c} \cup ChunksIn(wc) = (ChunksIn(w) \cup ChunksIn(b)) \ over
       /\ ChunksIn(wc) \cap (F \cup {c}) = {}
  <2>1. CASE b = <<>>
    <3>1. /\ wc = <<>> /\ over = ChunksIn(w) \ ChunksIn(data) /\ data = sel /\ ChunksIn(b) = {}
          /\ ChunksIn(wc) = {} /\ Distinct(wc) /\ <<>> \in Seq(Wc)
      BY <2>1, ChunksEmpty
    <3> HIDE DEF wc, over, data, c, F
    <3>2. QED BY <1>5, <1>8, <3>1
  <2>2. CASE b # <<>>
    <3>1. wc = w /\ over = {} /\ data = b
      BY <2>2
    <3> HIDE DEF wc, over, data, c, F
    <3>2. QED BY <1>3, <1>4, <1>8, <3>1
  <2>3. QED BY <2>1, <2>2
<1> HIDE DEF rest, lent, wc, over, F, c
<1>11. mem \subseteq Chunks /\ mem = sock[s].res_mem \cup {c}
  BY <1>3, <1>9 DEF c
<1> HIDE DEF mem
<1>12. /\ o \in Socket /\ o.wc = wc /\ o.buffers = rest /\ o.res_mem = mem
       /\ o.life = "open"
  BY <1>1, <1>3, <1>8, <1>10, <1>11 DEF Socket
<1> HIDE DEF o
<1>13. /\ over \subseteq Held(s)
       /\ ChunksIn(o.wc) \cup ChunksIn(o.buffers) \cup o.res_mem = Held(s) \ over
  <2>1. over \cap sock[s].res_mem = {} /\ ChunksIn(o.buffers) = F
    BY <1>4, <1>10, <1>12 DEF F
  <2>2. QED BY <1>6, <1>10, <1>11, <1>12, <2>1
<1>14. Once(o)
  <2>1. ChunksIn(rest) = F
    BY DEF F
  <2>2. F \cup {c} \cup ChunksIn(wc) \subseteq ChunksIn(w) \cup ChunksIn(b)
    BY <1>10
  <2>3. ChunksIn(wc) \cap F = {} /\ mem \cap (ChunksIn(wc) \cup F) = {}
    BY <1>4, <1>8, <1>10, <1>11, <2>2
  <2>4. QED BY <1>8, <1>10, <1>12, <2>1, <2>3 DEF Once
<1>15. reader' = [reader EXCEPT ![s] = r]
  BY <1>1, <1>3
<1> HIDE DEF r, data
<1>16. QED BY <1>1, <1>2, <1>3, <1>12, <1>13, <1>14, <1>15, ReaderStep

LEMMA DrainStep ==
  ASSUME IInv, NEW s \in Sockets, drain(s)
  PROVE  IInv'
<1> DEFINE over == ChunksIn(sock[s].wc) \cup ChunksIn(sock[s].buffers)
           o == [sock[s] EXCEPT !.wc = <<>>, !.buffers = <<>>]
<1>1. /\ post_chunk_to_pool(over) /\ reader' = [reader EXCEPT ![s] = Idle]
      /\ UNCHANGED <<cqVars, sent, reread, unpaid>>
  BY DEF drain
<1>2. sock' = [sock EXCEPT ![s] = o]
  BY SocketTypes DEF drain
<1>3. sock[s].res_mem \cap over = {} /\ Held(s) = over \cup sock[s].res_mem
  BY SocketTypes DEF Once, Held
<1>4. <<>> \in Seq(Wc)
  OBVIOUS
<1>5. /\ o \in Socket /\ o.wc = <<>> /\ o.buffers = <<>> /\ o.res_mem = sock[s].res_mem
      /\ o.life = sock[s].life /\ o.registered = sock[s].registered
  BY <1>4, SocketTypes DEF Socket
<1>6. o.life = "closed" => ~o.registered
  BY <1>5, SocketTypes
<1> HIDE DEF o, over
<1>7. over \subseteq Held(s) /\ ChunksIn(o.wc) \cup ChunksIn(o.buffers) \cup o.res_mem = Held(s) \ over
  BY <1>3, <1>5, ChunksEmpty
<1>8. Once(o)
  BY <1>5, ChunksEmpty DEF Once
<1>9. Idle \in Reader /\ Idle.at = "idle"
  BY DEF Idle, Reader
<1>10. QED BY <1>1, <1>2, <1>5, <1>6, <1>7, <1>8, <1>9, ReaderStep

-------------------------------------------------------------------------------
(* The hardware's steps. *)

LEMMA ArriveStep ==
  ASSUME IInv, NEW s \in Sockets, NEW data \in Seq(Nat), NEW ok \in BOOLEAN, Arrive(s, data, ok),
         sock' \in [Sockets -> Socket], sent' \in [Sockets -> 0 .. MaxData],
         \A t \in Sockets : /\ sock'[t].wc = sock[t].wc /\ sock'[t].buffers = sock[t].buffers
                            /\ sock'[t].res_mem = sock[t].res_mem /\ sock'[t].life = sock[t].life
                            /\ sock'[t].registered = sock[t].registered
                            /\ sock'[t].connected = sock[t].connected
                            /\ sock'[t].notify_fd = sock[t].notify_fd
  PROVE  IInv'
<1> DEFINE E(c) == [chunk |-> c, s |-> s, data |-> data, ok |-> ok]
<1>1. PICK c \in srq : srq' = srq \ {c} /\ rx_cq' = Append(rx_cq, E(c))
  BY DEF Arrive
<1>2. /\ TypeOK /\ PollInv /\ OwnerInv /\ OnceInv /\ CountInv /\ LifeInv /\ NotifyInv
      /\ armed' = FALSE /\ cq_event' = (cq_event \/ armed)
      /\ pool' = pool /\ post_backlog' = post_backlog /\ batch' = batch /\ polling' = polling
      /\ rearmed' = rearmed /\ done' = done /\ reader' = reader /\ reread' = reread /\ unpaid' = unpaid
  BY DEF IInv, Arrive
<1>3. c \in Chunks /\ srq \subseteq Chunks /\ pool \subseteq Chunks /\ post_backlog \in Nat
      /\ rx_cq \in Seq(Wc) /\ batch \in Seq(Wc)
  BY <1>2, RxPoolAssumption DEF TypeOK
<1> DEFINE e == E(c)
<1>4. e \in Wc /\ e.chunk = c
  BY <1>3 DEF Wc
<1> HIDE DEF e
<1>5. c \notin ChunksIn(rx_cq)
  BY <1>2 DEF OwnerInv, Free
<1>6. /\ rx_cq' \in Seq(Wc) /\ Len(rx_cq') = Len(rx_cq) + 1
      /\ ChunksIn(rx_cq') = ChunksIn(rx_cq) \cup {c} /\ Distinct(rx_cq')
  <2>1. rx_cq' = Append(rx_cq, e) /\ Distinct(rx_cq)
    BY <1>1, <1>2 DEF e, OnceInv
  <2>2. QED BY <1>3, <1>4, <1>5, <2>1, ChunksAppend
<1>7. IsFiniteSet(srq) /\ Cardinality(srq') = Cardinality(srq) - 1 /\ Cardinality(srq) \in Nat
  <2>1. IsFiniteSet(srq)
    BY <1>3, FS_Subset, RxPoolAssumption
  <2>2. QED BY <1>1, <2>1, FS_RemoveElement, FS_CardinalityType
<1>8. TypeOK'
  <2>1. srq' \subseteq Chunks
    BY <1>1, <1>3
  <2>2. {rearmed, armed, cq_event, done, reread, unpaid}' \subseteq BOOLEAN
    BY <1>2 DEF TypeOK
  <2>3. QED BY <1>2, <1>6, <2>1, <2>2 DEF TypeOK
<1>9. PollInv'
  BY <1>2 DEF PollInv
<1>10. \A t \in Sockets : Held(t)' = Held(t) /\ (Once(sock[t]) => Once(sock[t])')
  BY DEF Held, Once
<1>11. OwnerInv'
  <2>1. Free' = Free \ {c}
    BY <1>1, <1>2 DEF Free, OwnerInv
  <2>2. ChunksIn(rx_cq)' = ChunksIn(rx_cq) \cup {c} /\ ChunksIn(batch)' = ChunksIn(batch)
    BY <1>2, <1>6
  <2>3. c \in Free
    BY DEF Free
  <2>4. \A t \in Sockets : Held(t)' \cap (Free' \cup ChunksIn(rx_cq)' \cup ChunksIn(batch)') = {}
    BY <1>2, <1>10, <2>1, <2>2, <2>3 DEF OwnerInv
  <2>5. \A t, u \in Sockets : t # u => Held(t)' \cap Held(u)' = {}
    BY <1>2, <1>10 DEF OwnerInv
  <2>6. UNION {Held(t)' : t \in Sockets} = UNION {Held(t) : t \in Sockets}
    BY <1>10
  <2>7. Chunks = Free' \cup ChunksIn(rx_cq)' \cup ChunksIn(batch)' \cup UNION {Held(t)' : t \in Sockets}
    <3> DEFINE U == UNION {Held(t) : t \in Sockets}
    <3>1. Chunks = Free \cup ChunksIn(rx_cq) \cup ChunksIn(batch) \cup U
      BY <1>2 DEF OwnerInv
    <3> HIDE DEF U
    <3>2. Chunks = Free' \cup ChunksIn(rx_cq)' \cup ChunksIn(batch)' \cup U
      BY <2>1, <2>2, <2>3, <3>1
    <3>3. QED BY <2>6, <3>2 DEF U
  <2>8. /\ pool' \cap srq' = {} /\ Free' \cap (ChunksIn(rx_cq)' \cup ChunksIn(batch)') = {}
        /\ ChunksIn(rx_cq)' \cap ChunksIn(batch)' = {}
    BY <1>1, <1>2, <2>1, <2>2, <2>3 DEF OwnerInv
  <2>9. QED BY <2>4, <2>5, <2>7, <2>8 DEF OwnerInv
<1>12. OnceInv'
  BY <1>2, <1>6, <1>10 DEF OnceInv
<1>13. CountInv'
  <2>1. Cardinality(srq) + Len(rx_cq) + Len(batch) + post_backlog = QueueLen
    BY <1>2 DEF CountInv, BacklogExact
  <2>2. Len(rx_cq) \in Nat /\ Len(batch) \in Nat
    BY <1>3
  <2>3. BacklogExact'
    BY <1>2, <1>3, <1>6, <1>7, <2>1, <2>2 DEF BacklogExact
  <2>4. QED BY <1>2, <2>3 DEF CountInv
<1>14. LifeInv'
  BY <1>2 DEF LifeInv
<1>15. NotifyInv'
  BY <1>2 DEF NotifyInv
<1>16. QED BY <1>8, <1>9, <1>11, <1>12, <1>13, <1>14, <1>15 DEF IInv

LEMMA ReceiveStep ==
  ASSUME IInv, NEW s \in Sockets, NEW n \in 1 .. 2, receive(s, n)
  PROVE  IInv'
<1> DEFINE data == [i \in 1 .. n |-> sent[s] + i]
<1>1. /\ Arrive(s, data, TRUE) /\ sent[s] + n <= MaxData
      /\ sent' = [sent EXCEPT ![s] = @ + n] /\ sock' = sock
  BY DEF receive
<1>2. sent \in [Sockets -> 0 .. MaxData] /\ sock \in [Sockets -> Socket] /\ MaxData \in Nat
  BY RxPoolAssumption DEF IInv, TypeOK
<1>3. data \in Seq(Nat)
  <2>1. sent[s] \in Nat /\ n \in Nat
    BY <1>2
  <2>2. \A i \in 1 .. n : sent[s] + i \in Nat
    BY <2>1
  <2>3. data \in [1 .. n -> Nat]
    BY <2>2
  <2> HIDE DEF data
  <2>4. QED BY <2>1, <2>3
<1>4. sent' \in [Sockets -> 0 .. MaxData]
  <2>1. sent[s] + n \in 0 .. MaxData
    BY <1>1, <1>2
  <2>2. QED BY <1>1, <1>2, <2>1
<1> HIDE DEF data
<1>5. QED BY <1>1, <1>2, <1>3, <1>4, ArriveStep

LEMMA ReceiveFinStep ==
  ASSUME IInv, NEW s \in Sockets, NEW ok \in BOOLEAN, receive_fin(s, ok)
  PROVE  IInv'
<1> DEFINE o == [sock[s] EXCEPT !.fin = TRUE]
           data == <<>>
<1>1. sent \in [Sockets -> 0 .. MaxData] /\ sock \in [Sockets -> Socket] /\ sock[s] \in Socket
  BY SocketTypes DEF IInv, TypeOK
<1>2. Arrive(s, data, ok) /\ sent' = sent /\ sock' = [sock EXCEPT ![s] = o]
  BY <1>1 DEF receive_fin
<1>3. data \in Seq(Nat)
  OBVIOUS
<1>4. /\ o \in Socket /\ o.wc = sock[s].wc /\ o.buffers = sock[s].buffers
      /\ o.res_mem = sock[s].res_mem /\ o.life = sock[s].life
      /\ o.registered = sock[s].registered
      /\ o.connected = sock[s].connected /\ o.notify_fd = sock[s].notify_fd
  BY <1>1 DEF Socket
<1> HIDE DEF o, data
<1>5. /\ sock' \in [Sockets -> Socket] /\ sock'[s] = o
      /\ \A t \in Sockets : t # s => sock'[t] = sock[t]
  BY <1>1, <1>2, <1>4, Socks
<1>6. \A t \in Sockets : /\ sock'[t].wc = sock[t].wc /\ sock'[t].buffers = sock[t].buffers
                         /\ sock'[t].res_mem = sock[t].res_mem /\ sock'[t].life = sock[t].life
                         /\ sock'[t].registered = sock[t].registered
                         /\ sock'[t].connected = sock[t].connected
                         /\ sock'[t].notify_fd = sock[t].notify_fd
  BY <1>4, <1>5
<1>7. QED BY <1>1, <1>2, <1>3, <1>5, <1>6, ArriveStep

-------------------------------------------------------------------------------
(* handle_rx: every chunk of the batch goes to one socket or back to the pool. *)

Good == {i \in DOMAIN batch : batch[i].ok /\ sock[batch[i].s].registered}
GoodOf(s) == {i \in Good : batch[i].s = s}
Back == {batch[i].chunk : i \in DOMAIN batch \ Good}
PassedTo(s) == Select(batch, GoodOf(s))
FailedOf(s) == \E i \in DOMAIN batch : /\ batch[i].s = s /\ ~batch[i].ok
                                       /\ sock[batch[i].s].registered /\ sock[s].connected

LEMMA HandleRx ==
  ASSUME IInv, handle_rx
  PROVE  /\ polling = "handle" /\ polling' = "poll" /\ batch' = <<>>
         /\ \E T \in post_chunks_to_srq(pool, Len(batch)) :
               /\ pool' = (pool \ T) \cup Back /\ srq' = srq \cup T
               /\ post_backlog' = post_backlog + Len(batch) - Cardinality(T)
         /\ unpaid' = (unpaid \/ (Back # {} /\ post_backlog' > 0))
         /\ sock' = [s \in Sockets |-> pass_wc(IF FailedOf(s) THEN fault(sock[s]) ELSE sock[s],
                                              PassedTo(s))]
         /\ UNCHANGED <<rx_cq, rearmed, armed, cq_event, done, reader, sent, received, reread>>
BY DEF handle_rx, Good, GoodOf, Back, PassedTo, FailedOf

\* What a socket is passed.
LEMMA PassedProps ==
  ASSUME IInv, NEW s \in Sockets
  PROVE  /\ PassedTo(s) \in Seq(Wc) /\ Distinct(PassedTo(s))
         /\ ChunksIn(PassedTo(s)) = {batch[i].chunk : i \in GoodOf(s)}
         /\ ChunksIn(PassedTo(s)) \subseteq ChunksIn(batch)
         /\ ~sock[s].registered => PassedTo(s) = <<>> /\ ~FailedOf(s)
<1>1. batch \in Seq(Wc) /\ Distinct(batch) /\ GoodOf(s) \in SUBSET DOMAIN batch
  BY DEF IInv, TypeOK, OnceInv, GoodOf, Good
<1>2. /\ PassedTo(s) \in Seq(Wc) /\ Distinct(PassedTo(s))
      /\ ChunksIn(PassedTo(s)) = {batch[i].chunk : i \in GoodOf(s)}
      /\ ChunksIn(PassedTo(s)) \subseteq ChunksIn(batch)
  <2> HIDE DEF Wc
  <2>1. QED BY <1>1, SelectProps, SelectChunks DEF PassedTo
<1>3. ASSUME ~sock[s].registered PROVE PassedTo(s) = <<>> /\ ~FailedOf(s)
  <2>1. GoodOf(s) = {}
    BY <1>3 DEF GoodOf, Good
  <2>2. \A k \in DOMAIN PassedTo(s) : \E i \in GoodOf(s) : PassedTo(s)[k] = batch[i]
    <3> HIDE DEF Wc
    <3>1. QED BY <1>1, SelectProps DEF PassedTo
  <2>3. DOMAIN PassedTo(s) = {}
    BY <2>1, <2>2
  <2>4. PassedTo(s) = <<>>
    <3>1. DOMAIN PassedTo(s) = 1 .. Len(PassedTo(s)) /\ Len(PassedTo(s)) \in Nat
      BY <1>2
    <3>2. Len(PassedTo(s)) = 0
      BY <2>3, <3>1
    <3>3. QED BY <1>2, <3>2, EmptySeq
  <2>5. ~FailedOf(s)
    BY <1>3 DEF FailedOf
  <2>6. QED BY <2>4, <2>5
<1>4. QED BY <1>2, <1>3

\* What it becomes.
LEMMA PassWc ==
  ASSUME IInv, handle_rx, NEW s \in Sockets
  PROVE  /\ sock'[s] \in Socket /\ Once(sock'[s])
         /\ ChunksIn(sock'[s].wc) = ChunksIn(sock[s].wc) \cup ChunksIn(PassedTo(s))
         /\ sock'[s].buffers = sock[s].buffers /\ sock'[s].res_mem = sock[s].res_mem
         /\ sock'[s].life = sock[s].life /\ sock'[s].registered = sock[s].registered
         /\ sock'[s].notify_fd \/ sock'[s] = sock[s]
         /\ ~sock[s].registered => sock'[s] = sock[s]
<1> DEFINE o == IF FailedOf(s) THEN fault(sock[s]) ELSE sock[s]
           add == PassedTo(s)
           wc == sock[s].wc \o add
<1>1. sock'[s] = pass_wc(o, add)
  BY HandleRx
<1>2. /\ sock[s] \in Socket /\ sock[s].wc \in Seq(Wc) /\ Once(sock[s])
      /\ \/ o = sock[s]
         \/ FailedOf(s) /\ o = fault(sock[s])
  BY SocketTypes
<1>3. /\ o \in Socket /\ o.wc = sock[s].wc /\ o.buffers = sock[s].buffers
      /\ o.res_mem = sock[s].res_mem /\ o.life = sock[s].life /\ o.registered = sock[s].registered
      /\ o.notify_fd \/ o = sock[s]
      /\ ~FailedOf(s) => o = sock[s]
  BY <1>2 DEF Socket, fault
<1> HIDE DEF o
<1>4. /\ add \in Seq(Wc) /\ Distinct(add) /\ ChunksIn(add) \subseteq ChunksIn(batch)
      /\ ~sock[s].registered => add = <<>> /\ ~FailedOf(s)
  BY PassedProps
<1>5. ChunksIn(batch) \cap Held(s) = {}
  BY DEF IInv, OwnerInv
<1>6. /\ Distinct(sock[s].wc) /\ Distinct(sock[s].buffers)
      /\ ChunksIn(sock[s].wc) \cap ChunksIn(sock[s].buffers) = {}
      /\ sock[s].res_mem \cap (ChunksIn(sock[s].wc) \cup ChunksIn(sock[s].buffers)) = {}
      /\ Held(s) = ChunksIn(sock[s].wc) \cup ChunksIn(sock[s].buffers) \cup sock[s].res_mem
  BY <1>2 DEF Once, Held
<1> HIDE DEF add
<1>7. /\ wc \in Seq(Wc) /\ ChunksIn(wc) = ChunksIn(sock[s].wc) \cup ChunksIn(add) /\ Distinct(wc)
  <2>1. ChunksIn(sock[s].wc) \cap ChunksIn(add) = {}
    BY <1>4, <1>5, <1>6
  <2>2. QED BY <1>2, <1>4, <1>6, <2>1, ChunksConcat
<1> HIDE DEF wc
<1>8. CASE add = <<>>
  <2>1. sock'[s] = o /\ ChunksIn(add) = {}
    BY <1>1, <1>8, ChunksEmpty DEF pass_wc
  <2>2. QED BY <1>2, <1>3, <1>4, <1>6, <2>1 DEF Once, add
<1>9. CASE add # <<>>
  <2>1. sock'[s] = [o EXCEPT !.wc = wc, !.notify_fd = TRUE]
    BY <1>1, <1>3, <1>9 DEF pass_wc, wc
  <2>2. /\ sock'[s] \in Socket /\ sock'[s].wc = wc /\ sock'[s].notify_fd
        /\ sock'[s].buffers = sock[s].buffers /\ sock'[s].res_mem = sock[s].res_mem
        /\ sock'[s].life = sock[s].life /\ sock'[s].registered = sock[s].registered
    BY <1>3, <1>7, <2>1 DEF Socket
  <2>3. sock[s].registered
    BY <1>4, <1>9
  <2>4. Once(sock'[s])
    <3>1. ChunksIn(add) \cap (ChunksIn(sock[s].buffers) \cup sock[s].res_mem) = {}
      BY <1>4, <1>5, <1>6
    <3>2. QED BY <1>6, <1>7, <2>2, <3>1 DEF Once
  <2>5. QED BY <1>7, <2>2, <2>3, <2>4 DEF add
<1>10. QED BY <1>8, <1>9

LEMMA HandleStep == ASSUME IInv, handle_rx PROVE IInv'
<1>0. /\ TypeOK /\ PollInv /\ OwnerInv /\ OnceInv /\ CountInv /\ LifeInv /\ NotifyInv
      /\ polling = "handle" /\ polling' = "poll" /\ batch' = <<>> /\ rx_cq' = rx_cq
      /\ rearmed' = rearmed /\ armed' = armed /\ cq_event' = cq_event /\ done' = done
      /\ reader' = reader /\ sent' = sent /\ reread' = reread
      /\ unpaid' = (unpaid \/ (Back # {} /\ post_backlog' > 0))
  BY HandleRx DEF IInv
<1>1. PICK T \in post_chunks_to_srq(pool, Len(batch)) :
        /\ pool' = (pool \ T) \cup Back /\ srq' = srq \cup T
        /\ post_backlog' = post_backlog + Len(batch) - Cardinality(T)
  BY HandleRx
<1>2. /\ pool \subseteq Chunks /\ srq \subseteq Chunks /\ post_backlog \in Nat /\ QueueLen \in Nat
      /\ rx_cq \in Seq(Wc) /\ batch \in Seq(Wc) /\ Len(rx_cq) \in Nat /\ Len(batch) \in Nat
      /\ <<>> \in Seq(Wc) /\ Len(batch') = 0
  BY <1>0, RxPoolAssumption DEF TypeOK
<1>3. /\ T \subseteq pool /\ IsFiniteSet(T) /\ Cardinality(T) \in Nat /\ Cardinality(T) <= Len(batch)
      /\ Cardinality(T) = Len(batch) \/ T = pool
  <2>1. IsFiniteSet(pool)
    BY <1>2, FS_Subset, RxPoolAssumption
  <2>2. QED BY <1>2, <2>1, Posted
<1>4. /\ \A i \in DOMAIN batch : batch[i].s \in Sockets /\ batch[i].chunk \in Chunks
      /\ Distinct(batch)
  <2>1. \A i \in DOMAIN batch : batch[i] \in Wc
    BY <1>2
  <2>2. QED BY <1>0, <2>1 DEF Wc, OnceInv
<1> DEFINE G(s) == ChunksIn(PassedTo(s))
<1>5. \A s \in Sockets : G(s) = {batch[i].chunk : i \in GoodOf(s)}
  BY PassedProps
<1>6. \A s \in Sockets : /\ Held(s)' = Held(s) \cup G(s) /\ Once(sock[s])'
                         /\ sock'[s].life = sock[s].life
                         /\ sock'[s].registered = sock[s].registered
                         /\ sock'[s].notify_fd \/ sock'[s] = sock[s]
                         /\ ~sock[s].registered => sock'[s] = sock[s]
                         /\ sock'[s] \in Socket
  <2>1. ASSUME NEW s \in Sockets
        PROVE  Held(s)' = Held(s) \cup G(s) /\ Once(sock[s])'
    <3>1. /\ ChunksIn(sock'[s].wc) = ChunksIn(sock[s].wc) \cup G(s) /\ Once(sock'[s])
          /\ sock'[s].buffers = sock[s].buffers /\ sock'[s].res_mem = sock[s].res_mem
      BY PassWc
    <3> HIDE DEF G
    <3>2. QED BY <3>1 DEF Held, Once
  <2>2. QED BY <2>1, PassWc
\* The batch is divided among the sockets and the pool.
<1>7. /\ ChunksIn(batch) = Back \cup UNION {G(s) : s \in Sockets}
      /\ \A s \in Sockets : G(s) \cap Back = {} /\ G(s) \subseteq ChunksIn(batch)
      /\ \A s, t \in Sockets : s # t => G(s) \cap G(t) = {}
      /\ Back \subseteq ChunksIn(batch)
  <2>1. \A s \in Sockets : G(s) \subseteq ChunksIn(batch)
    BY PassedProps
  <2>2. Back \subseteq ChunksIn(batch)
    BY DEF Back, ChunksIn
  <2> HIDE DEF G
  <2>3. ASSUME NEW i \in DOMAIN batch
        PROVE  batch[i].chunk \in Back \/ \E s \in Sockets : batch[i].chunk \in G(s)
    <3>1. CASE i \in Good
      <4>1. i \in GoodOf(batch[i].s) /\ batch[i].s \in Sockets
        BY <1>4, <3>1 DEF GoodOf
      <4>2. batch[i].chunk \in G(batch[i].s)
        BY <1>5, <4>1
      <4>3. QED BY <4>1, <4>2
    <3>2. CASE i \notin Good
      BY <3>2 DEF Back
    <3>3. QED BY <3>1, <3>2
  <2>4. ChunksIn(batch) \subseteq Back \cup UNION {G(s) : s \in Sockets}
    BY <2>3 DEF ChunksIn
  <2>5. ASSUME NEW s \in Sockets, NEW c \in G(s), c \in Back PROVE FALSE
    <3>1. PICK i \in GoodOf(s) : c = batch[i].chunk
      BY <1>5
    <3>2. PICK j \in DOMAIN batch \ Good : c = batch[j].chunk
      BY <2>5 DEF Back
    <3>3. i \in DOMAIN batch /\ i \in Good
      BY DEF GoodOf, Good
    <3>4. QED BY <1>4, <3>1, <3>2, <3>3 DEF Distinct
  <2>6. ASSUME NEW s \in Sockets, NEW t \in Sockets, s # t, NEW c \in G(s), c \in G(t) PROVE FALSE
    <3>1. PICK i \in GoodOf(s) : c = batch[i].chunk
      BY <1>5
    <3>2. PICK j \in GoodOf(t) : c = batch[j].chunk
      BY <1>5, <2>6
    <3>3. i \in DOMAIN batch /\ j \in DOMAIN batch /\ batch[i].s = s /\ batch[j].s = t
      BY DEF GoodOf, Good
    <3>4. QED BY <1>4, <2>6, <3>1, <3>2, <3>3 DEF Distinct
  <2>7. ChunksIn(batch) = Back \cup UNION {G(s) : s \in Sockets}
    BY <2>1, <2>2, <2>4
  <2>8. QED BY <2>1, <2>2, <2>5, <2>6, <2>7
<1> HIDE DEF G
<1>8. T \cap srq = {} /\ Back \cap srq = {} /\ pool \cap srq = {}
  BY <1>0, <1>3, <1>7 DEF OwnerInv, Free
<1>9. Free' = Free \cup Back /\ pool' \cap srq' = {}
  BY <1>0, <1>1, <1>3, <1>7, <1>8 DEF Free, OwnerInv
<1>10. OwnerInv'
  <2>1. ChunksIn(batch)' = {} /\ ChunksIn(rx_cq)' = ChunksIn(rx_cq)
    BY <1>0, ChunksEmpty
  <2>2. /\ Free \cap ChunksIn(rx_cq) = {} /\ ChunksIn(batch) \cap ChunksIn(rx_cq) = {}
        /\ Free \cap ChunksIn(batch) = {}
        /\ \A t \in Sockets : Held(t) \cap (Free \cup ChunksIn(rx_cq) \cup ChunksIn(batch)) = {}
        /\ \A t, u \in Sockets : t # u => Held(t) \cap Held(u) = {}
        /\ Chunks = Free \cup ChunksIn(rx_cq) \cup ChunksIn(batch) \cup UNION {Held(t) : t \in Sockets}
    BY <1>0 DEF OwnerInv
  <2>3. Free' \cap ChunksIn(rx_cq) = {}
    BY <1>7, <1>9, <2>2
  <2>4. \A t \in Sockets : Held(t)' \cap (Free' \cup ChunksIn(rx_cq)) = {}
    <3>1. ASSUME NEW t \in Sockets, NEW c \in Held(t)' PROVE c \notin Free' /\ c \notin ChunksIn(rx_cq)
      <4>1. CASE c \in Held(t)
        BY <1>7, <1>9, <2>2, <4>1
      <4>2. CASE c \in G(t)
        BY <1>7, <1>9, <2>2, <4>2
      <4>3. QED BY <1>6, <4>1, <4>2
    <3>2. QED BY <3>1
  <2>5. \A t, u \in Sockets : t # u => Held(t)' \cap Held(u)' = {}
    <3>1. ASSUME NEW t \in Sockets, NEW u \in Sockets, t # u
          PROVE  (Held(t) \cup G(t)) \cap (Held(u) \cup G(u)) = {}
      BY <1>7, <2>2, <3>1
    <3>2. QED BY <1>6, <3>1
  <2>6. UNION {Held(t)' : t \in Sockets} =
         (UNION {Held(t) : t \in Sockets}) \cup (UNION {G(t) : t \in Sockets})
    <3>1. \A t \in Sockets : Held(t)' = Held(t) \cup G(t)
      BY <1>6
    <3>2. QED BY <3>1
  <2>7. Chunks = Free' \cup ChunksIn(rx_cq) \cup UNION {Held(t)' : t \in Sockets}
    <3> DEFINE U == UNION {Held(t) : t \in Sockets}
               V == UNION {Held(t)' : t \in Sockets}
               W == UNION {G(t) : t \in Sockets}
    <3>1. /\ V = U \cup W /\ ChunksIn(batch) = Back \cup W /\ Free' = Free \cup Back
          /\ Chunks = Free \cup ChunksIn(rx_cq) \cup ChunksIn(batch) \cup U
      BY <1>7, <1>9, <2>2, <2>6
    <3> HIDE DEF U, V, W
    <3>2. Chunks = Free' \cup ChunksIn(rx_cq) \cup V
      BY <3>1
    <3>3. QED BY <3>2 DEF V
  <2>8. QED BY <1>9, <2>1, <2>3, <2>4, <2>5, <2>7 DEF OwnerInv
<1>11. OnceInv'
  BY <1>0, <1>6, ChunksEmpty DEF OnceInv
<1>12. post_backlog' \in Nat
  BY <1>1, <1>2, <1>3
<1>13. /\ Cardinality(srq') = Cardinality(srq) + Cardinality(T) /\ Cardinality(srq) \in Nat
  <2>1. IsFiniteSet(srq)
    BY <1>2, FS_Subset, RxPoolAssumption
  <2>2. QED BY <1>1, <1>3, <1>8, <2>1, Lengthened
<1>14. Cardinality(srq') + Len(rx_cq) + 0 + post_backlog' = QueueLen
  <2>1. Cardinality(srq) + Len(rx_cq) + Len(batch) + post_backlog = QueueLen
    BY <1>0 DEF CountInv, BacklogExact
  <2> DEFINE a == Cardinality(srq)
             k == Cardinality(T)
             x == Len(rx_cq)
             y == Len(batch)
  <2>2. a + x + y + post_backlog = QueueLen /\ a \in Nat /\ k \in Nat /\ x \in Nat /\ y \in Nat
    BY <1>2, <1>3, <1>13, <2>1
  <2>3. Cardinality(srq') = a + k /\ post_backlog' = post_backlog + y - k
    BY <1>1, <1>13
  <2> HIDE DEF a, k, x, y
  <2>4. (a + k) + x + 0 + (post_backlog + y - k) = a + x + y + post_backlog
    BY <1>2, <2>2
  <2>5. QED BY <2>2, <2>3, <2>4 DEF x
<1>15. CountInv'
  <2>1. BacklogExact'
    BY <1>0, <1>2, <1>14 DEF BacklogExact
  <2>2. ASSUME ~unpaid', post_backlog' > 0 PROVE pool' = {}
    <3>1. ~unpaid /\ Back = {}
      BY <1>0, <2>2
    <3>2. pool' = pool \ T
      BY <1>1, <3>1
    <3>3. CASE T = pool
      BY <3>2, <3>3
    <3>4. CASE Cardinality(T) = Len(batch)
      <4>1. post_backlog' = post_backlog
        BY <1>1, <1>2, <3>4
      <4>2. pool = {}
        BY <1>0, <2>2, <3>1, <4>1 DEF CountInv
      <4>3. QED BY <3>2, <4>2
    <3>5. QED BY <1>3, <3>3, <3>4
  <2>3. QED BY <2>1, <2>2 DEF CountInv
<1>16. TypeOK'
  <2>1. pool' \subseteq Chunks /\ srq' \subseteq Chunks
    <3>1. Back \subseteq Chunks
      BY <1>4 DEF Back
    <3>2. QED BY <1>1, <1>2, <1>3, <3>1
  <2>2. Cardinality(srq') \in Nat
    <3>1. IsFiniteSet(srq')
      BY <2>1, FS_Subset, RxPoolAssumption
    <3>2. QED BY <3>1, FS_CardinalityType
  <2>3. post_backlog' \in 0 .. QueueLen
    BY <1>2, <1>12, <1>14, <2>2
  <2>4. sock' \in [Sockets -> Socket]
    <3>1. sock' = [s \in Sockets |-> sock'[s]]
      BY HandleRx
    <3>2. QED BY <1>6, <3>1
  <2>5. {rearmed, armed, cq_event, done, reread, unpaid}' \subseteq BOOLEAN
    BY <1>0 DEF TypeOK
  <2>6. QED BY <1>0, <1>2, <2>1, <2>3, <2>4, <2>5 DEF TypeOK
<1>17. PollInv'
  BY <1>0 DEF PollInv
<1>18. LifeInv'
  BY <1>0, <1>6 DEF LifeInv
<1>19. NotifyInv'
  BY <1>0, <1>6 DEF NotifyInv
<1>20. QED BY <1>10, <1>11, <1>15, <1>16, <1>17, <1>18, <1>19 DEF IInv

-------------------------------------------------------------------------------
(* The theorems. *)

LEMMA InitInv == Init => IInv
<1> SUFFICES ASSUME Init PROVE IInv
  OBVIOUS
<1> USE DEF Init
<1>0. QueueLen \in Nat /\ IsFiniteSet(Chunks) /\ QueueLen <= Cardinality(Chunks)
  BY RxPoolAssumption
<1>1. /\ srq \subseteq Chunks /\ Cardinality(srq) = QueueLen /\ pool = Chunks \ srq
  <2>1. Cardinality(Chunks) \in Nat
    BY <1>0, FS_CardinalityType
  <2>2. QED BY <1>0, <2>1 DEF post_chunks_to_srq
<1>2. /\ NewSocket \in Socket /\ NewSocket.wc = <<>> /\ NewSocket.buffers = <<>>
      /\ NewSocket.res_mem = {} /\ NewSocket.life = "open" /\ Idle \in Reader
  <2>1. <<>> \in Seq(Wc)
    OBVIOUS
  <2>2. QED BY <2>1 DEF NewSocket, Socket, Idle, Reader
<1>3. \A s \in Sockets : sock[s] = NewSocket /\ reader[s] = Idle /\ Held(s) = {} /\ Once(sock[s])
  BY <1>2, ChunksEmpty DEF Held, Once
<1>4. TypeOK
  <2>1. <<>> \in Seq(Wc) /\ 0 \in 0 .. QueueLen /\ 0 \in 0 .. MaxData
    BY RxPoolAssumption
  <2>2. sock \in [Sockets -> Socket] /\ reader \in [Sockets -> Reader]
    BY <1>2
  <2>3. sent \in [Sockets -> 0 .. MaxData]
    BY <2>1
  <2>4. QED BY <1>1, <2>1, <2>2, <2>3 DEF TypeOK
<1>5. PollInv
  BY DEF PollInv
<1>6. OwnerInv
  BY <1>1, <1>3, ChunksEmpty DEF OwnerInv, Free
<1>7. OnceInv
  BY <1>3, ChunksEmpty DEF OnceInv
<1>8. CountInv
  <2>1. Len(rx_cq) = 0 /\ Len(batch) = 0
    OBVIOUS
  <2>2. QED BY <1>0, <1>1, <2>1 DEF CountInv, BacklogExact
<1>9. LifeInv /\ NotifyInv
  BY <1>2, <1>3 DEF LifeInv, NotifyInv
<1>10. QED BY <1>4, <1>5, <1>6, <1>7, <1>8, <1>9 DEF IInv

LEMMA StepInv == IInv /\ [Next]_vars => IInv'
<1> SUFFICES ASSUME IInv, [Next]_vars PROVE IInv'
  OBVIOUS
<1>1. CASE poll_cq \/ handle_rx \/ idle \/ wake \/ polling_stop
  BY <1>1, PollStep, HandleStep, IdleStep, WakeStep
<1>2. CASE \E s \in Sockets : handle_async_event(s)
  BY <1>2, AsyncStep
<1>3. CASE \E s \in Sockets, n \in 1 .. 2 : receive(s, n)
  BY <1>3, ReceiveStep
<1>4. CASE \E s \in Sockets, ok \in BOOLEAN : receive_fin(s, ok)
  BY <1>4, ReceiveFinStep
<1>5. CASE \E s \in Sockets, len \in 1 .. 2 : read_buffers(s, len)
  BY <1>5, ReadBuffersStep
<1>6. CASE \E s \in Sockets : \/ connected(s) \/ read_too_early(s) \/ recheck(s) \/ get_wc(s)
                             \/ zero_copy_read(s) \/ erase_qpn(s) \/ drain(s)
  BY <1>6, ConnectedStep, TooEarlyStep, RecheckStep, GetWcStep, ZeroCopyStep, EraseStep, DrainStep
<1>7. CASE UNCHANGED vars
  <2>1. /\ UNCHANGED <<poolVars, rx_cq, batch, unpaid>> /\ sock' = sock /\ reader' = reader
        /\ UNCHANGED cqVars /\ sent' = sent /\ reread' = reread
    BY <1>7 DEF vars, cqVars
  <2>2. PoolType' /\ ChunkInv'
    BY <2>1, SameChunks
  <2>3. TypeOK'
    BY <2>1, <2>2 DEF IInv, TypeOK, PoolType, cqVars
  <2>4. PollInv'
    BY <2>1 DEF IInv, PollInv, cqVars
  <2>5. LifeInv' /\ NotifyInv'
    BY <2>1 DEF IInv, LifeInv, NotifyInv
  <2>6. QED BY <2>2, <2>3, <2>4, <2>5 DEF IInv, ChunkInv
<1>8. QED BY <1>1, <1>2, <1>3, <1>4, <1>5, <1>6, <1>7 DEF Next

\* IInv holds in every state: the chunks' places are disjoint and hold all chunks,
\* and the debt to the receive queue is what is missing from it.
THEOREM Invariant == Spec => []IInv
BY InitInv, StepInv, PTL DEF Spec

\* RxPool's state has its types: no index is out of range, no debt is negative or
\* exceeds the queue.
THEOREM TypeCorrect == Spec => []TypeOK
<1>1. IInv => TypeOK
  BY DEF IInv
<1>2. QED BY <1>1, Invariant, PTL

\* A chunk has one owner at any time, whichever threads return, post and pass
\* chunks (post_chunk_to_pool, polling, read, zero_copy_read, the destructor).
THEOREM ChunksHaveOneOwner == Spec => []OneOwner
<1> DEFINE At(i, c) == c \in <<pool, srq, ChunksIn(rx_cq), ChunksIn(batch)>>[i]
           I(c) == {i \in 1 .. 4 : At(i, c)}
           H(c) == {s \in Sockets : c \in Held(s)}
<1>1. ASSUME IInv, NEW c \in Chunks PROVE Cardinality(I(c)) + Cardinality(H(c)) = 1
  <2>0. /\ At(1, c) <=> c \in pool
        /\ At(2, c) <=> c \in srq
        /\ At(3, c) <=> c \in ChunksIn(rx_cq)
        /\ At(4, c) <=> c \in ChunksIn(batch)
        /\ 1 .. 4 = {1, 2, 3, 4}
    OBVIOUS
  <2>1. /\ pool \cap srq = {} /\ Free \cap (ChunksIn(rx_cq) \cup ChunksIn(batch)) = {}
        /\ ChunksIn(rx_cq) \cap ChunksIn(batch) = {}
        /\ \A s \in Sockets : Held(s) \cap (Free \cup ChunksIn(rx_cq) \cup ChunksIn(batch)) = {}
        /\ \A s, t \in Sockets : s # t => Held(s) \cap Held(t) = {}
        /\ c \in Free \/ c \in ChunksIn(rx_cq) \/ c \in ChunksIn(batch)
           \/ \E s \in Sockets : c \in Held(s)
    BY <1>1 DEF IInv, OwnerInv
  <2> HIDE DEF At
  <2>2. CASE \E s \in Sockets : c \in Held(s)
    <3>1. PICK s \in Sockets : c \in Held(s)
      BY <2>2
    <3>2. H(c) = {s}
      BY <2>1, <3>1
    <3>3. I(c) = {}
      BY <2>0, <2>1, <3>1 DEF Free
    <3> HIDE DEF I, H
    <3>4. Cardinality(H(c)) = 1 /\ Cardinality(I(c)) = 0
      BY <3>2, <3>3, FS_Singleton, FS_EmptySet
    <3>5. QED BY <3>4
  <2>3. CASE ~ \E s \in Sockets : c \in Held(s)
    <3>1. H(c) = {}
      BY <2>3
    <3>2. \E i \in 1 .. 4 : I(c) = {i}
      <4>1. CASE c \in pool
        <5>1. I(c) = {1}
          BY <2>0, <2>1, <4>1 DEF Free
        <5>2. QED BY <5>1
      <4>2. CASE c \in srq
        <5>1. I(c) = {2}
          BY <2>0, <2>1, <4>2 DEF Free
        <5>2. QED BY <5>1
      <4>3. CASE c \in ChunksIn(rx_cq)
        <5>1. I(c) = {3}
          BY <2>0, <2>1, <4>3 DEF Free
        <5>2. QED BY <5>1
      <4>4. CASE c \in ChunksIn(batch)
        <5>1. I(c) = {4}
          BY <2>0, <2>1, <4>4 DEF Free
        <5>2. QED BY <5>1
      <4>5. QED BY <2>1, <2>3, <4>1, <4>2, <4>3, <4>4 DEF Free
    <3> HIDE DEF I, H
    <3>3. Cardinality(H(c)) = 0 /\ Cardinality(I(c)) = 1
      BY <3>1, <3>2, FS_Singleton, FS_EmptySet
    <3>4. QED BY <3>3
  <2>4. QED BY <2>2, <2>3
<1>2. IInv => OneOwner
  <2> SUFFICES ASSUME IInv PROVE OneOwner
    OBVIOUS
  <2>1. \A s \in Sockets : sock[s].life = "closed" /\ reader[s].at = "idle" =>
                             sock[s].wc = <<>> /\ sock[s].buffers = <<>>
    BY DEF IInv, LifeInv
  <2>2. QED BY <1>1, <2>1 DEF OneOwner
<1>3. QED BY <1>2, Invariant, PTL

\* The dispatcher and the readers pay exactly what the receive queue is short of.
THEOREM BacklogIsExact == Spec => []BacklogExact
<1>1. IInv => BacklogExact
  BY DEF IInv, CountInv
<1>2. QED BY <1>1, Invariant, PTL

\* The queue dries up for good only by a chunk that went back unpaid.
THEOREM QueueIsFed == Spec => []StarvedOnlyByDead
<1>1. IInv => StarvedOnlyByDead
  <2> SUFFICES ASSUME IInv, srq = {}, rx_cq = <<>>, batch = <<>>, pool = Chunks, ~unpaid
               PROVE  QueueLen = 0
    BY DEF StarvedOnlyByDead
  <2>1. /\ Cardinality(srq) + Len(rx_cq) + Len(batch) + post_backlog = QueueLen
        /\ post_backlog > 0 => pool = {}
    BY DEF IInv, CountInv, BacklogExact
  <2>2. Cardinality(srq) = 0 /\ Len(rx_cq) = 0 /\ Len(batch) = 0
    BY FS_EmptySet
  <2>3. QueueLen = post_backlog /\ post_backlog \in Nat
    BY <2>1, <2>2, RxPoolAssumption DEF IInv, TypeOK
  <2>4. CASE post_backlog > 0
    <3>1. Cardinality(Chunks) = 0
      BY <2>1, <2>4, FS_EmptySet
    <3>2. QED BY <2>3, <3>1, RxPoolAssumption
  <2>5. QED BY <2>3, <2>4
<1>2. QED BY <1>1, Invariant, PTL

\* polling() goes to sleep only with an event to come for what has completed.
THEOREM DispatcherIsWoken == Spec => []SleepSafe
<1>1. IInv => SleepSafe
  BY DEF IInv, PollInv, SleepSafe
<1>2. QED BY <1>1, Invariant, PTL

\* pass_wc, read and the end of the handshake leave no reader waiting beside data.
THEOREM ReadersAreNotified == Spec => []ReaderNotified
<1>1. IInv => ReaderNotified
  BY DEF IInv, NotifyInv, ReaderNotified, Reads
<1>2. QED BY <1>1, Invariant, PTL

-------------------------------------------------------------------------------
(* The stream: what a user has read and what is on its way to it follow each    *)
(* other without a gap.                                                         *)

\* The units after the a-th, up to the b-th.
Units(a, b) == [j \in 1 .. b - a |-> a + j]

\* f marks where in the stream each completion of q ends: those at the positions
\* in I carry it from the a-th unit to the b-th, and one that carries nothing is a
\* fin, at one of the ends in E.
Marks(f, q, I, a, b, E) ==
  /\ f[0] = a /\ f[Len(q)] = b
  /\ \A i \in 1 .. Len(q) :
       IF i \in I
       THEN /\ f[i - 1] <= f[i] /\ q[i].data = Units(f[i - 1], f[i])
            /\ q[i].data = <<>> => f[i] \in E
       ELSE f[i] = f[i - 1]
Tiles(q, I, a, b, E) == \E f \in [0 .. Len(q) -> Nat] : Marks(f, q, I, a, b, E)
Carries(q, a, b, E) == Tiles(q, DOMAIN q, a, b, E)

LEMMA UnitsProps ==
  ASSUME NEW a \in Nat, NEW b \in Nat, a <= b
  PROVE  /\ Units(a, b) \in Seq(Nat) /\ Len(Units(a, b)) = b - a
         /\ \A j \in 1 .. b - a : Units(a, b)[j] = a + j
         /\ Units(a, b) = <<>> <=> a = b
<1> DEFINE u == Units(a, b)
<1>1. b - a \in Nat /\ \A j \in 1 .. b - a : a + j \in Nat
  OBVIOUS
<1>2. u \in [1 .. b - a -> Nat] /\ \A j \in 1 .. b - a : u[j] = a + j
  BY <1>1 DEF Units
<1> HIDE DEF u
<1>3. u \in Seq(Nat) /\ Len(u) = b - a
  BY <1>1, <1>2
<1>4. u = <<>> <=> b - a = 0
  BY <1>3, EmptySeq
<1>5. QED BY <1>2, <1>3, <1>4 DEF u

LEMMA UnitsNone == \A a \in Nat : Units(a, a) = <<>>
<1>1. \A a \in Nat : a <= a
  OBVIOUS
<1>2. QED BY <1>1, UnitsProps

\* Sequences of the same length with the same elements are the same.
LEMMA SameSeq ==
  ASSUME NEW S, NEW p \in Seq(S), NEW q \in Seq(S), Len(p) = Len(q),
         \A j \in 1 .. Len(p) : p[j] = q[j]
  PROVE  p = q
<1>1. p = [j \in 1 .. Len(p) |-> p[j]] /\ q = [j \in 1 .. Len(q) |-> q[j]]
  OBVIOUS
<1>2. QED BY <1>1

LEMMA UnitsConcat ==
  ASSUME NEW a \in Nat, NEW b \in Nat, NEW c \in Nat, a <= b, b <= c
  PROVE  Units(a, b) \o Units(b, c) = Units(a, c)
<1> DEFINE p == Units(a, b)
           q == Units(b, c)
           u == Units(a, c)
<1>1. /\ p \in Seq(Nat) /\ Len(p) = b - a /\ \A j \in 1 .. b - a : p[j] = a + j
      /\ q \in Seq(Nat) /\ Len(q) = c - b /\ \A j \in 1 .. c - b : q[j] = b + j
      /\ u \in Seq(Nat) /\ Len(u) = c - a /\ \A j \in 1 .. c - a : u[j] = a + j
  <2>1. p \in Seq(Nat) /\ Len(p) = b - a /\ \A j \in 1 .. b - a : p[j] = a + j
    BY UnitsProps
  <2>2. q \in Seq(Nat) /\ Len(q) = c - b /\ \A j \in 1 .. c - b : q[j] = b + j
    BY UnitsProps
  <2>3. a <= c
    OBVIOUS
  <2>4. u \in Seq(Nat) /\ Len(u) = c - a /\ \A j \in 1 .. c - a : u[j] = a + j
    BY <2>3, UnitsProps
  <2>5. QED BY <2>1, <2>2, <2>4
<1> HIDE DEF p, q, u
<1>2. /\ p \o q \in Seq(Nat) /\ Len(p \o q) = Len(p) + Len(q)
      /\ \A i \in 1 .. Len(p) + Len(q) : (p \o q)[i] = IF i <= Len(p) THEN p[i] ELSE q[i - Len(p)]
  BY <1>1, ConcatProperties
<1>3. Len(p \o q) = c - a
  BY <1>1, <1>2
<1>4. ASSUME NEW j \in 1 .. c - a PROVE (p \o q)[j] = u[j]
  <2>0. j \in 1 .. Len(p) + Len(q) /\ Len(p) = b - a
    BY <1>1
  <2>1. (p \o q)[j] = IF j <= b - a THEN p[j] ELSE q[j - (b - a)]
    BY <1>2, <2>0
  <2>2. CASE j <= b - a
    BY <1>1, <2>1, <2>2
  <2>3. CASE ~(j <= b - a)
    <3>1. j - (b - a) \in 1 .. c - b /\ b + (j - (b - a)) = a + j
      BY <2>3
    <3>2. QED BY <1>1, <2>1, <2>3, <3>1
  <2>4. QED BY <2>2, <2>3
<1>5. QED BY <1>1, <1>2, <1>3, <1>4, SameSeq DEF p, q, u

From(p, m) == SubSeq(p, m, Len(p))

\* The units from the m-th on.
LEMMA UnitsRest ==
  ASSUME NEW a \in Nat, NEW b \in Nat, a <= b, NEW m \in Nat, m >= 1,
         NEW c \in Nat, a + m - 1 <= b => c = a + m - 1, b < a + m - 1 => c = b
  PROVE  From(Units(a, b), m) = Units(c, b)
<1> DEFINE p == Units(a, b)
           n == b - a
           d == SubSeq(p, m, n)
           u == Units(c, b)
<1>1. /\ p \in Seq(Nat) /\ Len(p) = n /\ \A j \in 1 .. n : p[j] = a + j
      /\ c <= b /\ u \in Seq(Nat) /\ Len(u) = b - c /\ \A j \in 1 .. b - c : u[j] = c + j
  <2>1. c <= b
    OBVIOUS
  <2>2. QED BY <2>1, UnitsProps
<1>2. m \in Int /\ n \in Int /\ \A j \in m .. n : p[j] \in Nat
  BY <1>1
<1> HIDE DEF p, u
<1>3. /\ d \in Seq(Nat) /\ Len(d) = (IF m <= n THEN n - m + 1 ELSE 0)
      /\ \A i \in 1 .. n - m + 1 : d[i] = p[m + i - 1]
  <2> HIDE DEF n
  <2>1. QED BY ONLY <1>2, SubSeqProperties DEF d
<1>4. Len(d) = b - c
  BY <1>3
<1>5. ASSUME NEW j \in 1 .. b - c PROVE d[j] = u[j]
  <2>1. m <= n /\ c = a + m - 1
    OBVIOUS
  <2>2. j \in 1 .. n - m + 1 /\ m + j - 1 \in 1 .. n
    BY <2>1
  <2>3. d[j] = a + (m + j - 1)
    BY <1>1, <1>3, <2>2
  <2>4. QED BY <1>1, <2>1, <2>3
<1> HIDE DEF d
<1>6. d = u
  BY <1>1, <1>3, <1>4, <1>5, SameSeq
<1>7. QED BY <1>1, <1>6 DEF d, p, u, From

\* The units up to the n-th.
LEMMA UnitsFirst ==
  ASSUME NEW a \in Nat, NEW b \in Nat, a <= b, NEW n \in Nat, a + n <= b
  PROVE  SubSeq(Units(a, b), 1, n) = Units(a, a + n)
<1> DEFINE p == Units(a, b)
           d == SubSeq(p, 1, n)
           u == Units(a, a + n)
<1>1. /\ p \in Seq(Nat) /\ Len(p) = b - a /\ \A j \in 1 .. b - a : p[j] = a + j
      /\ u \in Seq(Nat) /\ Len(u) = n /\ \A j \in 1 .. n : u[j] = a + j
  <2> DEFINE e == a + n
  <2>1. e \in Nat /\ a <= e /\ e - a = n
    OBVIOUS
  <2> HIDE DEF e
  <2>2. /\ Units(a, e) \in Seq(Nat) /\ Len(Units(a, e)) = n
        /\ \A j \in 1 .. n : Units(a, e)[j] = a + j
    BY <2>1, UnitsProps
  <2>3. p \in Seq(Nat) /\ Len(p) = b - a /\ \A j \in 1 .. b - a : p[j] = a + j
    BY UnitsProps
  <2>4. QED BY <2>2, <2>3 DEF e
<1>2. 1 \in Int /\ n \in Int /\ \A j \in 1 .. n : p[j] \in Nat
  BY <1>1
<1> HIDE DEF p, u
<1>3. /\ d \in Seq(Nat) /\ Len(d) = (IF 1 <= n THEN n - 1 + 1 ELSE 0)
      /\ \A i \in 1 .. n - 1 + 1 : d[i] = p[1 + i - 1]
  BY ONLY <1>2, SubSeqProperties DEF d
<1>4. Len(d) = n
  BY <1>3
<1>5. ASSUME NEW j \in 1 .. n PROVE d[j] = u[j]
  <2>1. j \in 1 .. b - a /\ j \in 1 .. n - 1 + 1 /\ 1 + j - 1 = j
    OBVIOUS
  <2>2. d[j] = p[j]
    BY <1>3, <2>1
  <2>3. QED BY <1>1, <2>1, <2>2
<1> HIDE DEF d
<1>6. d = u
  BY <1>1, <1>3, <1>4, <1>5, SameSeq
<1>7. QED BY <1>6 DEF d, p, u

-------------------------------------------------------------------------------
(* What marks are good for. *)

\* Marks never go back.
LEMMA MarksMono ==
  ASSUME NEW q, Len(q) \in Nat, NEW I, NEW a, NEW b, NEW E, NEW f \in [0 .. Len(q) -> Nat],
         Marks(f, q, I, a, b, E), NEW i \in 0 .. Len(q), NEW j \in 0 .. Len(q), i <= j
  PROVE  f[i] <= f[j]
<1> DEFINE n == Len(q)
           B == {k \in i .. n : ~(f[i] <= f[k])}
<1>1. n \in Nat /\ i \in Nat /\ j \in i .. n /\ B \in SUBSET Nat
  OBVIOUS
<1>2. \A k \in 1 .. n : f[k - 1] <= f[k] /\ f[k - 1] \in Nat /\ f[k] \in Nat
  <2>1. ASSUME NEW k \in 1 .. n PROVE f[k - 1] \in Nat /\ f[k] \in Nat
    <3>1. k - 1 \in 0 .. n /\ k \in 0 .. n
      BY <1>1
    <3>2. QED BY <3>1
  <2>2. ASSUME NEW k \in 1 .. n PROVE f[k - 1] <= f[k] \/ f[k] = f[k - 1]
    BY DEF Marks
  <2>3. QED BY <2>1, <2>2
<1>3. f[i] \in Nat
  OBVIOUS
<1>4. ASSUME B # {} PROVE FALSE
  <2> HIDE DEF B
  <2>1. PICK k \in B : \A m \in B : k <= m
    BY <1>1, <1>4, LeastOf
  <2>2. k \in i .. n /\ ~(f[i] <= f[k])
    BY <2>1 DEF B
  <2>3. k # i
    BY <1>3, <2>2
  <2>4. k \in 1 .. n /\ k - 1 \in i .. n /\ ~(k <= k - 1)
    BY <1>1, <2>2, <2>3
  <2>5. k - 1 \notin B
    BY <2>1, <2>4
  <2>6. f[i] <= f[k - 1]
    BY <2>4, <2>5 DEF B
  <2>7. QED BY <1>2, <1>3, <2>2, <2>4, <2>6
<1>5. QED BY <1>1, <1>4

LEMMA TilesOrder ==
  ASSUME NEW q, Len(q) \in Nat, NEW I, NEW a, NEW b, NEW E, Tiles(q, I, a, b, E)
  PROVE  a \in Nat /\ b \in Nat /\ a <= b
<1>1. PICK f \in [0 .. Len(q) -> Nat] : Marks(f, q, I, a, b, E)
  BY DEF Tiles
<1>2. f[0] = a /\ f[Len(q)] = b
  BY <1>1 DEF Marks
<1>3. 0 \in 0 .. Len(q) /\ Len(q) \in 0 .. Len(q) /\ 0 <= Len(q)
  OBVIOUS
<1>4. f[0] <= f[Len(q)]
  BY <1>1, <1>3, MarksMono
<1>5. QED BY <1>2, <1>3, <1>4

\* The data of completions that follow each other.
LEMMA MarksData ==
  ASSUME NEW q \in Seq(Wc), NEW a, NEW b, NEW E, NEW f \in [0 .. Len(q) -> Nat],
         Marks(f, q, DOMAIN q, a, b, E)
  PROVE  Data(q) = Units(a, b)
<1> DEFINE n == Len(q)
           d == [i \in DOMAIN q |-> q[i].data]
<1>1. n \in Nat /\ DOMAIN q = 1 .. n /\ \A i \in DOMAIN q : q[i].data \in Seq(Nat)
  <2>1. \A i \in DOMAIN q : q[i] \in Wc
    OBVIOUS
  <2>2. QED BY <2>1 DEF Wc
<1>2. d \in Seq(Seq(Nat)) /\ Len(d) = n /\ \A i \in 1 .. n : d[i] = q[i].data
  <2>1. d \in [1 .. n -> Seq(Nat)]
    BY <1>1
  <2>2. \A i \in 1 .. n : d[i] = q[i].data
    BY <1>1
  <2> HIDE DEF d
  <2>3. QED BY <1>1, <2>1, <2>2
<1>3. Data(q) = FlattenSeq(d)
  BY DEF Data
<1>4. /\ f[0] = a /\ f[n] = b
      /\ \A i \in 1 .. n : f[i - 1] <= f[i] /\ d[i] = Units(f[i - 1], f[i])
  BY <1>1, <1>2 DEF Marks
<1>5. \A i \in 0 .. n : f[i] \in Nat /\ a <= f[i]
  <2>1. ASSUME NEW i \in 0 .. n PROVE f[i] \in Nat /\ f[0] <= f[i]
    <3>1. 0 \in 0 .. n /\ 0 <= i
      BY <1>1
    <3>2. QED BY <1>1, <3>1, MarksMono
  <2>2. QED BY <1>4, <2>1
<1>6. a \in Nat
  BY <1>1, <1>4
<1> HIDE DEF d
<1>7. CASE n = 0
  <2>1. d = <<>>
    BY <1>2, <1>7, EmptySeq
  <2>2. FlattenSeq(d) = <<>>
    <3>1. Len(d) = 0
      BY <1>2, <1>7
    <3>2. QED BY <2>1, <3>1 DEF FlattenSeq
  <2>3. Units(a, b) = <<>>
    BY <1>4, <1>6, <1>7, UnitsProps
  <2>4. QED BY <1>3, <2>2, <2>3
<1>8. CASE n # 0
  <2>0. PICK g : /\ g = [i \in 1 .. n |-> IF i = 1 THEN d[i] ELSE g[i - 1] \o d[i]]
                 /\ FlattenSeq(d) = g[n]
    BY <1>2, <1>8, FlattenEq
  <2>1. \A i \in 1 .. n : g[i] = IF i = 1 THEN d[i] ELSE g[i - 1] \o d[i]
    BY <2>0
  <2> DEFINE B == {m \in 1 .. n : g[m] # Units(a, f[m])}
  <2>2. ASSUME B # {} PROVE FALSE
    <3>1. B \in SUBSET Nat
      BY <1>1
    <3> HIDE DEF B
    <3>2. PICK m \in B : \A k \in B : m <= k
      BY <2>2, <3>1, LeastOf
    <3>3. m \in 1 .. n /\ g[m] # Units(a, f[m])
      BY DEF B
    <3>4. d[m] = Units(f[m - 1], f[m]) /\ f[m - 1] <= f[m]
      BY <1>4, <3>3
    <3>5. m # 1
      <4>1. ASSUME m = 1 PROVE FALSE
        <5>1. g[m] = d[m] /\ m - 1 = 0
          BY <2>1, <3>3, <4>1
        <5>2. QED BY <1>4, <3>3, <3>4, <5>1
      <4>2. QED BY <4>1
    <3>6. m - 1 \in 1 .. n /\ ~ (m <= m - 1) /\ m - 1 \in 0 .. n /\ m \in 0 .. n
      BY <1>1, <3>3, <3>5
    <3>7. g[m - 1] = Units(a, f[m - 1])
      BY <3>2, <3>6 DEF B
    <3>8. g[m] = g[m - 1] \o d[m]
      BY <2>1, <3>3, <3>5
    <3>9. Units(a, f[m - 1]) \o Units(f[m - 1], f[m]) = Units(a, f[m])
      BY <1>5, <1>6, <3>4, <3>6, UnitsConcat
    <3>10. QED BY <3>3, <3>4, <3>7, <3>8, <3>9
  <2>3. n \in 1 .. n
    BY <1>1, <1>8
  <2>4. g[n] = Units(a, f[n])
    BY <2>2, <2>3
  <2>5. QED BY <1>3, <1>4, <2>0, <2>4
<1>9. QED BY <1>7, <1>8

LEMMA CarriesData ==
  ASSUME NEW q \in Seq(Wc), NEW a, NEW b, NEW E, Carries(q, a, b, E)
  PROVE  /\ Data(q) = Units(a, b) /\ a \in Nat /\ b \in Nat /\ a <= b /\ Len(Data(q)) = b - a
<1>1. PICK f \in [0 .. Len(q) -> Nat] : Marks(f, q, DOMAIN q, a, b, E)
  BY DEF Carries, Tiles
<1>2. Len(q) \in Nat
  OBVIOUS
<1>3. a \in Nat /\ b \in Nat /\ a <= b
  BY <1>2, TilesOrder DEF Carries
<1>4. Data(q) = Units(a, b)
  BY <1>1, MarksData
<1>5. QED BY <1>3, <1>4, UnitsProps

\* What comes before a position.
LEMMA MarksPrefix ==
  ASSUME NEW q \in Seq(Wc), NEW a, NEW b, NEW E, NEW f \in [0 .. Len(q) -> Nat],
         Marks(f, q, DOMAIN q, a, b, E), NEW m \in 0 .. Len(q)
  PROVE  Len(Data(SubSeq(q, 1, m))) = f[m] - a
<1> DEFINE n == Len(q)
           p == SubSeq(q, 1, m)
           g == [i \in 0 .. m |-> f[i]]
<1>1. n \in Nat /\ DOMAIN q = 1 .. n /\ m \in Nat /\ m <= n /\ 1 \in Int /\ m \in Int
      /\ \A i \in 1 .. m : q[i] \in Wc
  OBVIOUS
<1>2. /\ p \in Seq(Wc) /\ Len(p) = (IF 1 <= m THEN m - 1 + 1 ELSE 0)
      /\ \A i \in 1 .. m - 1 + 1 : p[i] = q[1 + i - 1]
  BY ONLY <1>1, SubSeqProperties
<1>3. Len(p) = m /\ DOMAIN p = 1 .. m /\ \A i \in 1 .. m : p[i] = q[i]
  <2>1. Len(p) = m
    BY <1>1, <1>2
  <2>2. \A i \in 1 .. m : i \in 1 .. m - 1 + 1 /\ 1 + i - 1 = i
    BY <1>1
  <2> HIDE DEF p
  <2>3. QED BY <1>2, <2>1, <2>2
<1>4. g \in [0 .. m -> Nat] /\ \A i \in 0 .. m : g[i] = f[i]
  BY <1>1
<1> HIDE DEF p, g
<1>5. Marks(g, p, DOMAIN p, a, f[m], E)
  <2>1. g[0] = a /\ g[Len(p)] = f[m]
    BY <1>1, <1>3, <1>4 DEF Marks
  <2>2. ASSUME NEW i \in 1 .. m
        PROVE  /\ g[i - 1] <= g[i] /\ p[i].data = Units(g[i - 1], g[i])
               /\ p[i].data = <<>> => g[i] \in E
    <3>1. i \in 1 .. n /\ i \in DOMAIN q /\ i - 1 \in 0 .. m /\ i \in 0 .. m
      BY <1>1
    <3>2. /\ f[i - 1] <= f[i] /\ q[i].data = Units(f[i - 1], f[i])
          /\ q[i].data = <<>> => f[i] \in E
      BY <3>1 DEF Marks
    <3>3. QED BY <1>3, <1>4, <3>1, <3>2
  <2>3. QED BY <1>3, <2>1, <2>2 DEF Marks
<1>6. Data(p) = Units(a, f[m])
  BY <1>2, <1>3, <1>4, <1>5, MarksData
<1>7. a \in Nat /\ f[m] \in Nat /\ a <= f[m]
  <2>1. 0 \in 0 .. n /\ 0 <= m /\ f[0] = a
    BY <1>1 DEF Marks
  <2>2. f[0] <= f[m]
    BY <1>1, <2>1, MarksMono
  <2>3. QED BY <2>1, <2>2
<1>8. QED BY <1>6, <1>7, UnitsProps DEF p

-------------------------------------------------------------------------------
(* How completions that follow each other may change. *)

LEMMA CarriesNothing ==
  ASSUME NEW I, NEW a \in Nat, NEW E
  PROVE  /\ Tiles(<<>>, I, a, a, E) /\ Carries(<<>>, a, a, E)
         /\ \A b : Tiles(<<>>, I, a, b, E) \/ Carries(<<>>, a, b, E) => b = a
<1>1. Len(<<>>) = 0 /\ 1 .. 0 = {} /\ 0 \in 0 .. 0
  OBVIOUS
<1> DEFINE f == [i \in 0 .. 0 |-> a]
<1>2. f \in [0 .. Len(<<>>) -> Nat] /\ f[0] = a
  BY <1>1
<1> HIDE DEF f
<1>3. \A J : Tiles(<<>>, J, a, a, E)
  BY <1>1, <1>2 DEF Tiles, Marks
<1>4. ASSUME NEW J, NEW b, Tiles(<<>>, J, a, b, E) PROVE b = a
  BY <1>1, <1>4 DEF Tiles, Marks
<1>5. QED BY <1>3, <1>4 DEF Carries

\* There may be more ends.
LEMMA TilesMore ==
  ASSUME NEW q, NEW I, NEW a, NEW b, NEW E, NEW F, E \subseteq F, Tiles(q, I, a, b, E)
  PROVE  Tiles(q, I, a, b, F)
BY DEF Tiles, Marks

\* Completions that carry nothing can be left out.
LEMMA TilesDrop ==
  ASSUME NEW q, Len(q) \in Nat, NEW I, NEW J, J \subseteq I, NEW a, NEW b, NEW E, NEW F,
         \A i \in I \ J : q[i].data = <<>>,
         \A i \in J : q[i].data = <<>> => E \subseteq F,
         Tiles(q, I, a, b, E)
  PROVE  Tiles(q, J, a, b, F)
<1>1. PICK f \in [0 .. Len(q) -> Nat] : Marks(f, q, I, a, b, E)
  BY DEF Tiles
<1>2. ASSUME NEW i \in 1 .. Len(q)
      PROVE  IF i \in J
             THEN /\ f[i - 1] <= f[i] /\ q[i].data = Units(f[i - 1], f[i])
                  /\ q[i].data = <<>> => f[i] \in F
             ELSE f[i] = f[i - 1]
  <2>1. CASE i \in J
    BY <1>1, <2>1 DEF Marks
  <2>2. CASE i \notin I
    BY <1>1, <2>2 DEF Marks
  <2>3. CASE i \in I \ J
    <3>1. f[i - 1] <= f[i] /\ Units(f[i - 1], f[i]) = <<>>
      BY <1>1, <2>3 DEF Marks
    <3>2. f[i - 1] \in Nat /\ f[i] \in Nat
      <4>1. i - 1 \in 0 .. Len(q) /\ i \in 0 .. Len(q)
        OBVIOUS
      <4>2. QED BY <4>1
    <3>3. f[i] = f[i - 1]
      BY <3>1, <3>2, UnitsProps
    <3>4. QED BY <2>3, <3>3
  <2>4. QED BY <2>1, <2>2, <2>3
<1>3. Marks(f, q, J, a, b, F)
  BY <1>1, <1>2 DEF Marks
<1>4. QED BY <1>3 DEF Tiles

LEMMA CarriesConcat ==
  ASSUME NEW p \in Seq(Wc), NEW q \in Seq(Wc), NEW a, NEW b, NEW c, NEW E,
         Carries(p, a, b, E), Carries(q, b, c, E)
  PROVE  Carries(p \o q, a, c, E)
<1> DEFINE u == p \o q
           m == Len(p)
           n == Len(q)
<1>1. /\ m \in Nat /\ n \in Nat /\ DOMAIN p = 1 .. m /\ DOMAIN q = 1 .. n
      /\ u \in Seq(Wc) /\ Len(u) = m + n
      /\ \A i \in 1 .. m + n : u[i] = IF i <= m THEN p[i] ELSE q[i - m]
  BY ConcatProperties
<1>2. DOMAIN u = 1 .. m + n
  BY <1>1
<1> HIDE DEF u
<1>3. PICK f \in [0 .. m -> Nat] : Marks(f, p, DOMAIN p, a, b, E)
  BY DEF Carries, Tiles
<1>4. PICK g \in [0 .. n -> Nat] : Marks(g, q, DOMAIN q, b, c, E)
  BY DEF Carries, Tiles
<1>5. f[0] = a /\ f[m] = b /\ g[0] = b /\ g[n] = c
  BY <1>3, <1>4 DEF Marks
<1> HIDE DEF m, n
<1> DEFINE h == [i \in 0 .. m + n |-> IF i <= m THEN f[i] ELSE g[i - m]]
<1>6. h \in [0 .. m + n -> Nat]
  <2>1. ASSUME NEW i \in 0 .. m + n PROVE (IF i <= m THEN f[i] ELSE g[i - m]) \in Nat
    <3>1. CASE i <= m
      BY <1>1, <3>1
    <3>2. CASE ~(i <= m)
      <4>1. i - m \in 0 .. n
        BY <1>1, <3>2
      <4>2. QED BY <3>2, <4>1
    <3>3. QED BY <3>1, <3>2
  <2>2. QED BY <2>1
<1>7. \A i \in 0 .. m : h[i] = f[i]
  BY <1>1
<1>0. \A k \in 0 .. m + n : h[k] = IF k <= m THEN f[k] ELSE g[k - m]
  OBVIOUS
<1>8. \A i \in 0 .. n : m + i \in 0 .. m + n /\ h[m + i] = g[i]
  <2>1. ASSUME NEW i \in 0 .. n PROVE m + i \in 0 .. m + n /\ h[m + i] = g[i]
    <3>1. m + i \in 0 .. m + n /\ m + i - m = i /\ (m + i <= m => i = 0 /\ m + i = m)
      BY <1>1
    <3> HIDE DEF h
    <3>2. h[m + i] = IF m + i <= m THEN f[m + i] ELSE g[i]
      BY <1>0, <1>1, <3>1
    <3>3. QED BY <1>5, <3>1, <3>2
  <2>2. QED BY <2>1
<1> HIDE DEF h
<1>9. ASSUME NEW i \in 1 .. m + n
      PROVE  /\ h[i - 1] <= h[i] /\ u[i].data = Units(h[i - 1], h[i])
             /\ u[i].data = <<>> => h[i] \in E
  <2>1. CASE i <= m
    <3>1. i \in 1 .. m /\ i - 1 \in 0 .. m /\ i \in 0 .. m
      BY <1>1, <2>1
    <3>2. /\ f[i - 1] <= f[i] /\ p[i].data = Units(f[i - 1], f[i])
          /\ p[i].data = <<>> => f[i] \in E
      BY <1>1, <1>3, <3>1 DEF Marks, m
    <3>3. u[i] = p[i] /\ h[i - 1] = f[i - 1] /\ h[i] = f[i]
      BY <1>1, <1>7, <2>1, <3>1
    <3>4. QED BY <3>2, <3>3
  <2>2. CASE ~(i <= m)
    <3>1. PICK k \in 1 .. n : i = m + k
      <4>1. i - m \in 1 .. n /\ i = m + (i - m)
        BY <1>1, <2>2
      <4>2. QED BY <4>1
    <3>2. k - 1 \in 0 .. n /\ k \in 0 .. n /\ i - 1 = m + (k - 1) /\ i - m = k
      BY <1>1, <3>1
    <3>3. /\ g[k - 1] <= g[k] /\ q[k].data = Units(g[k - 1], g[k])
          /\ q[k].data = <<>> => g[k] \in E
      BY <1>1, <1>4 DEF Marks, n
    <3>4. u[i] = q[k]
      BY <1>1, <2>2, <3>2
    <3>5. h[i - 1] = g[k - 1] /\ h[i] = g[k]
      BY <1>8, <3>1, <3>2
    <3>6. QED BY <3>3, <3>4, <3>5
  <2>3. QED BY <2>1, <2>2
<1>10. h[0] = a /\ h[m + n] = c
  BY <1>1, <1>5, <1>7, <1>8
<1>11. Marks(h, u, DOMAIN u, a, c, E)
  BY <1>1, <1>2, <1>9, <1>10 DEF Marks
<1>12. QED BY <1>1, <1>6, <1>11 DEF Carries, Tiles, u

\* The completions of one socket.
Of(q, s) == {i \in DOMAIN q : q[i].s = s}

LEMMA TilesAppend ==
  ASSUME NEW q \in Seq(Wc), NEW e \in Wc, NEW s, NEW a, NEW b, NEW E, NEW c \in Nat,
         Tiles(q, Of(q, s), a, b, E),
         IF e.s = s THEN /\ b <= c /\ e.data = Units(b, c)
                         /\ e.data = <<>> => c \in E
                    ELSE c = b
  PROVE  Tiles(Append(q, e), Of(Append(q, e), s), a, c, E)
<1> DEFINE t == Append(q, e)
           n == Len(q)
<1>1. /\ t \in Seq(Wc) /\ Len(t) = n + 1 /\ t[n + 1] = e /\ \A i \in 1 .. n : t[i] = q[i]
      /\ n \in Nat /\ DOMAIN q = 1 .. n
  BY AppendProperties
<1>2. DOMAIN t = 1 .. n + 1
  BY <1>1
<1> HIDE DEF t
<1>3. PICK f \in [0 .. n -> Nat] : Marks(f, q, Of(q, s), a, b, E)
  BY DEF Tiles
<1>4. f[0] = a /\ f[n] = b
  BY <1>3 DEF Marks
<1> HIDE DEF n
<1> DEFINE h == [i \in 0 .. n + 1 |-> IF i <= n THEN f[i] ELSE c]
<1>5. h \in [0 .. n + 1 -> Nat] /\ h[n + 1] = c /\ \A i \in 0 .. n : h[i] = f[i]
  BY <1>1
<1> HIDE DEF h
<1>6. ASSUME NEW i \in 1 .. n + 1
      PROVE  IF i \in Of(t, s)
             THEN /\ h[i - 1] <= h[i] /\ t[i].data = Units(h[i - 1], h[i])
                  /\ t[i].data = <<>> => h[i] \in E
             ELSE h[i] = h[i - 1]
  <2>1. CASE i = n + 1
    <3>1. i - 1 = n /\ n \in 0 .. n
      BY <1>1, <2>1
    <3>2. h[i] = c /\ h[i - 1] = b /\ t[i] = e
      BY <1>1, <1>4, <1>5, <2>1, <3>1
    <3>3. i \in Of(t, s) <=> e.s = s
      BY <1>2, <3>2 DEF Of
    <3>4. QED BY <3>2, <3>3
  <2>2. CASE i # n + 1
    <3>1. i \in 1 .. n /\ i \in 0 .. n /\ i - 1 \in 0 .. n
      BY <1>1, <2>2
    <3>2. t[i] = q[i] /\ h[i] = f[i] /\ h[i - 1] = f[i - 1]
      BY <1>1, <1>5, <3>1
    <3>3. i \in Of(t, s) <=> i \in Of(q, s)
      BY <1>1, <1>2, <3>1, <3>2 DEF Of
    <3>4. IF i \in Of(q, s)
          THEN /\ f[i - 1] <= f[i] /\ q[i].data = Units(f[i - 1], f[i])
               /\ q[i].data = <<>> => f[i] \in E
          ELSE f[i] = f[i - 1]
      BY <1>3, <3>1 DEF Marks, n
    <3>5. QED BY <3>2, <3>3, <3>4
  <2>3. QED BY <2>1, <2>2
<1>7. h[0] = a
  BY <1>1, <1>4, <1>5
<1>8. Marks(h, t, Of(t, s), a, c, E)
  BY <1>1, <1>5, <1>6, <1>7 DEF Marks
<1>9. QED BY <1>1, <1>5, <1>8 DEF Tiles, t

\* The rank of a position grows by one at a chosen position.
LEMMA RankStep ==
  ASSUME NEW n \in Nat, NEW I \in SUBSET (1 .. n), NEW i \in 1 .. n
  PROVE  /\ Rank(I, i) \in Nat /\ Rank(I, i - 1) \in Nat
         /\ Rank(I, i) = Rank(I, i - 1) + (IF i \in I THEN 1 ELSE 0)
<1> DEFINE J == I \cap 1 .. (i - 1)
           K == I \cap 1 .. i
<1>1. i - 1 \in Nat /\ K = (IF i \in I THEN J \cup {i} ELSE J) /\ i \notin J
  OBVIOUS
<1>2. IsFiniteSet(J)
  <2>1. IsFiniteSet(1 .. n) /\ J \in SUBSET (1 .. n)
    BY FS_Interval
  <2>2. QED BY <2>1, FS_Subset
<1> HIDE DEF J, K
<1>3. Cardinality(J) \in Nat /\ Cardinality(J \cup {i}) = Cardinality(J) + 1
  BY <1>1, <1>2, FS_AddElement, FS_CardinalityType
<1>4. Cardinality(K) \in Nat /\ Cardinality(K) = Cardinality(J) + (IF i \in I THEN 1 ELSE 0)
  BY <1>1, <1>3
<1>5. QED BY <1>3, <1>4 DEF J, K, Rank

LEMMA RankEnds ==
  ASSUME NEW n \in Nat, NEW I \in SUBSET (1 .. n)
  PROVE  /\ Rank(I, 0) = 0 /\ Rank(I, n) = Cardinality(I)
         /\ \A i \in 0 .. n : Rank(I, i) \in Nat
         /\ \A i, j \in 0 .. n : i <= j => Rank(I, i) <= Rank(I, j)
<1>1. I \cap 1 .. 0 = {} /\ I \cap 1 .. n = I
  <2>1. 1 .. 0 = {}
    OBVIOUS
  <2>2. \A D : I \subseteq D => I \cap D = I
    OBVIOUS
  <2>3. QED BY <2>1, <2>2
<1>2. \A i \in 0 .. n : IsFiniteSet(I \cap 1 .. i)
  <2>1. ASSUME NEW i \in 0 .. n PROVE IsFiniteSet(I \cap 1 .. i)
    <3>1. IsFiniteSet(1 .. n) /\ I \cap 1 .. i \in SUBSET (1 .. n)
      BY FS_Interval
    <3>2. QED BY <3>1, FS_Subset
  <2>2. QED BY <2>1
<1>3. ASSUME NEW i \in 0 .. n, NEW j \in 0 .. n, i <= j
      PROVE  Rank(I, i) <= Rank(I, j)
  <2>1. I \cap 1 .. i \in SUBSET (I \cap 1 .. j) /\ IsFiniteSet(I \cap 1 .. j)
    BY <1>2, <1>3
  <2>2. QED BY <2>1, FS_Subset DEF Rank
<1>4. \A i \in 0 .. n : Rank(I, i) \in Nat
  BY <1>2, FS_CardinalityType DEF Rank
<1>5. Rank(I, 0) = 0 /\ Rank(I, n) = Cardinality(I)
  BY <1>1, FS_EmptySet DEF Rank
<1>6. QED BY <1>3, <1>4, <1>5

\* Between two chosen positions nothing is carried.
LEMMA MarksRank ==
  ASSUME NEW q, Len(q) \in Nat, NEW I \in SUBSET (1 .. Len(q)), NEW a, NEW b, NEW E,
         NEW f \in [0 .. Len(q) -> Nat], Marks(f, q, I, a, b, E),
         NEW i \in 0 .. Len(q), NEW j \in 0 .. Len(q),
         Rank(I, i) = Rank(I, j)
  PROVE  f[i] = f[j]
<1> DEFINE n == Len(q)
           R(k) == Rank(I, k)
<1>1. n \in Nat /\ \A k \in 1 .. n : k \notin I => f[k] = f[k - 1]
  BY DEF Marks
<1>2. /\ \A k \in 0 .. n : R(k) \in Nat
      /\ \A k, l \in 0 .. n : k <= l => R(k) <= R(l)
  BY RankEnds
<1>3. \A k \in 1 .. n : R(k) = R(k - 1) + (IF k \in I THEN 1 ELSE 0)
  <2>1. I \in SUBSET (1 .. n) /\ n \in Nat
    BY <1>1
  <2> HIDE DEF n
  <2>2. ASSUME NEW k \in 1 .. n PROVE R(k) = R(k - 1) + (IF k \in I THEN 1 ELSE 0)
    BY <2>1, RankStep
  <2>3. QED BY <2>2
<1> HIDE DEF R
<1>4. ASSUME NEW x \in 0 .. n, NEW y \in 0 .. n, R(x) = R(y), x <= y PROVE f[x] = f[y]
  <2> DEFINE B == {k \in x .. n : R(k) = R(x) /\ f[k] # f[x]}
  <2>1. B \in SUBSET Nat
    BY <1>1
  <2>2. ASSUME B # {} PROVE FALSE
    <3> HIDE DEF B
    <3>1. PICK k \in B : \A m \in B : k <= m
      BY <2>1, <2>2, LeastOf
    <3>2. k \in x .. n /\ R(k) = R(x) /\ f[k] # f[x]
      BY DEF B
    <3>3. k # x
      BY <3>2
    <3>4. k \in 1 .. n /\ k - 1 \in x .. n /\ k - 1 \in 0 .. n /\ k \in 0 .. n /\ ~(k <= k - 1)
          /\ x <= k - 1
      BY <1>1, <3>2, <3>3
    <3>5. R(x) <= R(k - 1) /\ R(k - 1) \in Nat /\ R(x) \in Nat
      BY <1>2, <3>4
    <3>6. k \notin I /\ R(k - 1) = R(x)
      BY <1>3, <3>2, <3>4, <3>5
    <3>7. f[k] = f[k - 1]
      BY <1>1, <3>4, <3>6
    <3>8. k - 1 \notin B
      BY <3>1, <3>4
    <3>9. QED BY <3>2, <3>4, <3>6, <3>7, <3>8 DEF B
  <2>3. y \in x .. n /\ R(y) = R(x)
    BY <1>1, <1>4
  <2>4. QED BY <2>2, <2>3
<1>5. R(i) = R(j) /\ (i <= j \/ j <= i)
  BY DEF R
<1>6. QED BY <1>4, <1>5

\* What is selected carries what was carried.
LEMMA TilesSelect ==
  ASSUME NEW S, NEW q \in Seq(S), NEW I \in SUBSET DOMAIN q, NEW a, NEW b, NEW E,
         Tiles(q, I, a, b, E)
  PROVE  Carries(Select(q, I), a, b, E)
<1> DEFINE n == Len(q)
           N == Cardinality(I)
           t == Select(q, I)
           R(k) == Rank(I, k)
<1>1. n \in Nat /\ DOMAIN q = 1 .. n /\ I \in SUBSET (1 .. n)
  OBVIOUS
<1>2. PICK f \in [0 .. n -> Nat] : Marks(f, q, I, a, b, E)
  BY DEF Tiles
<1>3. /\ N \in Nat /\ Len(t) = N
      /\ \E g \in [1 .. N -> I] : \A k \in 1 .. N : t[k] = q[g[k]] /\ R(g[k]) = k
  BY SelectRank
<1>4. PICK g \in [1 .. N -> I] : \A k \in 1 .. N : t[k] = q[g[k]] /\ R(g[k]) = k
  BY <1>3
<1>5. t \in Seq(S) /\ DOMAIN t = 1 .. N
  <2>1. t \in Seq(S)
    BY SelectProps
  <2> HIDE DEF t
  <2>2. QED BY <1>3, <2>1
<1>6. /\ R(0) = 0 /\ R(n) = N
      /\ \A k \in 0 .. n : R(k) \in Nat
  BY <1>1, RankEnds
<1>7. \A k \in 1 .. n : R(k) = R(k - 1) + (IF k \in I THEN 1 ELSE 0)
  <2>1. I \in SUBSET (1 .. n) /\ n \in Nat
    BY <1>1
  <2> HIDE DEF n
  <2>2. ASSUME NEW k \in 1 .. n PROVE R(k) = R(k - 1) + (IF k \in I THEN 1 ELSE 0)
    BY <2>1, RankStep
  <2>3. QED BY <2>2
<1>8. \A i, j \in 0 .. n : R(i) = R(j) => f[i] = f[j]
  BY <1>1, <1>2, MarksRank
<1> HIDE DEF t, R, N
<1>9. f[0] = a /\ f[n] = b
  BY <1>2 DEF Marks
<1>10. \A k \in 1 .. N : /\ g[k] \in I /\ g[k] \in 1 .. n /\ g[k] \in 0 .. n /\ g[k] - 1 \in 0 .. n
                         /\ R(g[k] - 1) = k - 1
  <2>1. ASSUME NEW k \in 1 .. N
        PROVE  /\ g[k] \in I /\ g[k] \in 1 .. n /\ g[k] \in 0 .. n /\ g[k] - 1 \in 0 .. n
               /\ R(g[k] - 1) = k - 1
    <3>1. g[k] \in I /\ g[k] \in 1 .. n /\ R(g[k]) = k
      BY <1>1, <1>4
    <3> DEFINE i == g[k]
    <3> HIDE DEF i
    <3>2. i \in I /\ i \in 1 .. n /\ R(i) = k
      BY <3>1 DEF i
    <3>3. i \in 0 .. n /\ i - 1 \in 0 .. n
      BY <1>1, <3>2
    <3>4. R(i) = R(i - 1) + 1 /\ R(i - 1) \in Nat
      BY <1>6, <1>7, <3>2, <3>3
    <3>5. QED BY <3>2, <3>3, <3>4 DEF i
  <2>2. QED BY <2>1
<1> DEFINE h == [k \in 0 .. N |-> IF k = 0 THEN a ELSE f[g[k]]]
<1>11. a \in Nat /\ 0 \in 0 .. n /\ n \in 0 .. n
  BY <1>1, <1>9
<1>12. h \in [0 .. N -> Nat] /\ h[0] = a /\ \A k \in 1 .. N : h[k] = f[g[k]]
  <2>1. \A k \in 0 .. N : k # 0 => k \in 1 .. N
    BY <1>3
  <2>2. \A k \in 0 .. N : (IF k = 0 THEN a ELSE f[g[k]]) \in Nat
    BY <1>10, <1>11, <2>1
  <2>3. \A k \in 1 .. N : k \in 0 .. N /\ k # 0
    BY <1>3
  <2>4. 0 \in 0 .. N
    BY <1>3
  <2>5. QED BY <2>2, <2>3, <2>4
<1> HIDE DEF h
<1>13. ASSUME NEW k \in 1 .. N
       PROVE  /\ h[k - 1] <= h[k] /\ t[k].data = Units(h[k - 1], h[k])
              /\ t[k].data = <<>> => h[k] \in E
  <2>1. h[k - 1] = f[g[k] - 1]
    <3>1. CASE k = 1
      <4>1. R(g[k] - 1) = R(0) /\ g[k] - 1 \in 0 .. n /\ k - 1 = 0
        BY <1>6, <1>10, <3>1
      <4>2. f[g[k] - 1] = f[0]
        BY <1>8, <1>11, <4>1
      <4>3. QED BY <1>9, <1>12, <4>1, <4>2
    <3>2. CASE k # 1
      <4>1. k - 1 \in 1 .. N
        BY <1>3, <3>2
      <4>2. R(g[k - 1]) = k - 1 /\ R(g[k] - 1) = k - 1
        BY <1>4, <1>10, <4>1
      <4>3. g[k - 1] \in 0 .. n /\ g[k] - 1 \in 0 .. n
        BY <1>10, <4>1
      <4>4. f[g[k - 1]] = f[g[k] - 1]
        BY <1>8, <4>2, <4>3
      <4>5. QED BY <1>12, <4>1, <4>4
    <3>3. QED BY <3>1, <3>2
  <2>2. h[k] = f[g[k]] /\ t[k] = q[g[k]] /\ g[k] \in I /\ g[k] \in 1 .. n
    BY <1>4, <1>10, <1>12
  <2>3. /\ f[g[k] - 1] <= f[g[k]] /\ q[g[k]].data = Units(f[g[k] - 1], f[g[k]])
        /\ q[g[k]].data = <<>> => f[g[k]] \in E
    BY <1>2, <2>2 DEF Marks
  <2>4. QED BY <2>1, <2>2, <2>3
<1>14. h[N] = b
  <2>1. CASE N = 0
    <3>1. f[0] = f[n]
      BY <1>6, <1>8, <1>11, <2>1
    <3>2. QED BY <1>9, <1>12, <2>1, <3>1
  <2>2. CASE N # 0
    <3>1. N \in 1 .. N
      BY <1>3, <2>2
    <3>2. R(g[N]) = R(n) /\ g[N] \in 0 .. n
      BY <1>4, <1>6, <1>10, <3>1
    <3>3. QED BY <1>8, <1>9, <1>11, <1>12, <3>1, <3>2
  <2>3. QED BY <2>1, <2>2
<1>15. Marks(h, t, DOMAIN t, a, b, E)
  BY <1>3, <1>5, <1>12, <1>13, <1>14 DEF Marks
<1>16. QED BY <1>3, <1>12, <1>15 DEF Carries, Tiles, t

\* Without its first n units q carries what is left, and no fin.
LEMMA RestCarries ==
  ASSUME NEW q \in Seq(Wc), NEW a, NEW b, NEW E, NEW F, Carries(q, a, b, E),
         NEW n \in Nat, n <= b - a
  PROVE  Carries(Rest(q, n), a + n, b, F)
<1> DEFINE N == Len(q)
           m == a + n
<1>1. PICK f \in [0 .. N -> Nat] : Marks(f, q, DOMAIN q, a, b, E)
  BY DEF Carries, Tiles
<1>2. /\ N \in Nat /\ DOMAIN q = 1 .. N /\ a \in Nat /\ b \in Nat /\ n \in Int
      /\ f[0] = a /\ f[N] = b /\ m \in Nat /\ m <= b /\ a <= m
  <2>1. f[0] = a /\ f[N] = b
    BY <1>1 DEF Marks
  <2>2. N \in Nat /\ DOMAIN q = 1 .. N /\ 0 \in 0 .. N /\ N \in 0 .. N
    OBVIOUS
  <2>3. a \in Nat /\ b \in Nat
    BY <2>1, <2>2
  <2>4. QED BY <2>1, <2>2, <2>3
<1>3. PICK left \in Seq(Wc) :
        /\ DOMAIN left = DOMAIN q /\ Rest(q, n) = Select(left, HasData(left))
        /\ \A i \in DOMAIN q :
             LET before == Len(Data(SubSeq(q, 1, i - 1)))
             IN  left[i].data =
                   SubSeq(q[i].data, IF n > before THEN n - before + 1 ELSE 1, Len(q[i].data))
  BY <1>2, RestLeft
<1>4. Len(left) = N /\ DOMAIN left = 1 .. N
  BY <1>2, <1>3
<1> DEFINE h == [i \in 0 .. N |-> IF m <= f[i] THEN f[i] ELSE m]
<1>5. /\ h \in [0 .. N -> Nat] /\ h[0] = m /\ h[N] = b
      /\ \A i \in 0 .. N : h[i] = IF m <= f[i] THEN f[i] ELSE m
  <2>1. \A i \in 0 .. N : h[i] = IF m <= f[i] THEN f[i] ELSE m
    OBVIOUS
  <2>2. 0 \in 0 .. N /\ N \in 0 .. N
    BY <1>2
  <2>3. h \in [0 .. N -> Nat]
    BY <1>2
  <2> HIDE DEF h, m
  <2>4. h[0] = m /\ h[N] = b
    BY <1>2, <2>1, <2>2
  <2>5. QED BY <2>1, <2>3, <2>4
<1> HIDE DEF h
<1>6. ASSUME NEW i \in 1 .. N
      PROVE  h[i - 1] <= h[i] /\ left[i].data = Units(h[i - 1], h[i])
  <2> DEFINE x == f[i - 1]
             y == f[i]
             from == IF n > x - a THEN n - (x - a) + 1 ELSE 1
             c == IF x + from - 1 <= y THEN x + from - 1 ELSE y
  <2>1. i \in DOMAIN q /\ i - 1 \in 0 .. N /\ i \in 0 .. N /\ 0 \in 0 .. N /\ 0 <= i - 1
    BY <1>2
  <2>2. x <= y /\ q[i].data = Units(x, y) /\ x \in Nat /\ y \in Nat /\ a <= x
    <3>1. x <= y /\ q[i].data = Units(x, y)
      BY <1>1, <2>1 DEF Marks
    <3>2. f[0] <= x
      BY <1>1, <1>2, <2>1, MarksMono
    <3>3. QED BY <1>2, <2>1, <3>1, <3>2
  <2>3. Len(Data(SubSeq(q, 1, i - 1))) = x - a
    BY <1>1, <2>1, MarksPrefix
  <2>4. left[i].data = SubSeq(Units(x, y), from, Len(Units(x, y)))
    BY <1>3, <2>1, <2>2, <2>3
  <2>5. h[i - 1] = (IF m <= x THEN x ELSE m) /\ h[i] = (IF m <= y THEN y ELSE m)
    BY <1>5, <2>1
  <2> HIDE DEF x, y
  <2>6. from \in Nat /\ from >= 1 /\ c \in Nat
    BY <1>2, <2>2
  <2>7. Units(c, y) = Units(h[i - 1], h[i]) /\ h[i - 1] <= h[i]
    <3>1. CASE m <= x
      <4>1. from = 1 /\ c = x
        BY <1>2, <2>2, <3>1
      <4>2. QED BY <1>2, <2>2, <2>5, <3>1, <4>1
    <3>2. CASE ~(m <= x)
      <4>1. x + from - 1 = m
        BY <1>2, <2>2, <3>2
      <4>2. CASE m <= y
        BY <1>2, <2>2, <2>5, <3>2, <4>1, <4>2
      <4>3. CASE ~(m <= y)
        <5>1. c = y /\ h[i - 1] = m /\ h[i] = m
          BY <1>2, <2>2, <2>5, <3>2, <4>1, <4>3
        <5>2. Units(y, y) = <<>> /\ Units(m, m) = <<>>
          <6>1. m \in Nat /\ y \in Nat /\ y <= y /\ m <= m
            BY <1>2, <2>2
          <6> HIDE DEF m
          <6>2. QED BY <6>1, UnitsProps
        <5>3. QED BY <1>2, <5>1, <5>2
      <4>4. QED BY <4>2, <4>3
    <3>3. QED BY <3>1, <3>2
  <2>8. SubSeq(Units(x, y), from, Len(Units(x, y))) = Units(c, y)
    <3> DEFINE e == from
               z == c
    <3>1. /\ e \in Nat /\ e >= 1 /\ z \in Nat
          /\ x + e - 1 <= y => z = x + e - 1
          /\ y < x + e - 1 => z = y
      BY <2>2, <2>6
    <3> HIDE DEF e, z, from, c
    <3>2. x \in Nat /\ y \in Nat /\ x <= y
      BY <2>2
    <3>3. SubSeq(Units(x, y), e, Len(Units(x, y))) = Units(z, y)
      <4>1. From(Units(x, y), e) = Units(z, y)
        BY <3>1, <3>2, UnitsRest
      <4>2. QED BY <4>1 DEF From
    <3>4. QED BY <3>3 DEF e, z
  <2> HIDE DEF from, c
  <2>9. QED BY <2>4, <2>7, <2>8
<1>7. ASSUME NEW i \in 1 .. N
      PROVE  IF i \in HasData(left)
             THEN /\ h[i - 1] <= h[i] /\ left[i].data = Units(h[i - 1], h[i])
                  /\ left[i].data = <<>> => h[i] \in F
             ELSE h[i] = h[i - 1]
  <2>1. i \in HasData(left) <=> left[i].data # <<>>
    BY <1>4 DEF HasData
  <2>2. h[i - 1] \in Nat /\ h[i] \in Nat
    <3>1. i - 1 \in 0 .. N /\ i \in 0 .. N
      BY <1>2
    <3>2. QED BY <1>5, <3>1
  <2>3. left[i].data = <<>> => h[i] = h[i - 1]
    <3> DEFINE x == h[i - 1]
               y == h[i]
    <3>1. x \in Nat /\ y \in Nat /\ x <= y /\ left[i].data = Units(x, y)
      BY <1>6, <2>2
    <3> HIDE DEF x, y
    <3>2. Units(x, y) = <<>> <=> x = y
      BY <3>1, UnitsProps
    <3>3. QED BY <3>1, <3>2 DEF x, y
  <2>4. QED BY <1>6, <2>1, <2>3
<1>8. Tiles(left, HasData(left), m, b, F)
  <2>1. Marks(h, left, HasData(left), m, b, F)
    <3> HIDE DEF m
    <3>1. QED BY <1>4, <1>5, <1>7 DEF Marks
  <2>2. QED BY <1>4, <1>5, <2>1 DEF Tiles
<1>9. HasData(left) \in SUBSET DOMAIN left
  BY DEF HasData
<1> HIDE DEF m, Wc
<1>10. Carries(Select(left, HasData(left)), m, b, F)
  BY <1>8, <1>9, TilesSelect
<1>11. QED BY <1>3, <1>10 DEF m

\* What carries no unit and no fin is empty.
LEMMA CarriesNone ==
  ASSUME NEW q \in Seq(Wc), NEW a, Carries(q, a, a, {})
  PROVE  q = <<>>
<1>1. PICK f \in [0 .. Len(q) -> Nat] : Marks(f, q, DOMAIN q, a, a, {})
  BY DEF Carries, Tiles
<1>2. Len(q) \in Nat /\ DOMAIN q = 1 .. Len(q)
  OBVIOUS
<1>3. ASSUME NEW i \in 1 .. Len(q) PROVE FALSE
  <2>1. /\ i \in DOMAIN q /\ i - 1 \in 0 .. Len(q) /\ i \in 0 .. Len(q) /\ 0 \in 0 .. Len(q)
        /\ Len(q) \in 0 .. Len(q) /\ 0 <= i - 1 /\ i - 1 <= i /\ i <= Len(q)
    BY <1>2
  <2>2. f[0] <= f[i - 1] /\ f[i - 1] <= f[i] /\ f[i] <= f[Len(q)]
    BY <1>1, <1>2, <2>1, MarksMono
  <2>3. f[0] = a /\ f[Len(q)] = a
    BY <1>1 DEF Marks
  <2>4. f[i - 1] \in Nat /\ f[i] \in Nat /\ f[i] = f[i - 1]
    BY <2>1, <2>2, <2>3
  <2>5. Units(f[i], f[i]) = <<>>
    BY <2>4, UnitsNone
  <2>6. QED BY <1>1, <2>1, <2>4, <2>5 DEF Marks
<1>4. Len(q) = 0
  BY <1>2, <1>3
<1>5. QED BY <1>4, EmptySeq

\* A fin is at an end the completions do not go beyond.
LEMMA FinAtEnd ==
  ASSUME NEW q \in Seq(Wc), NEW a, NEW b, NEW E, Carries(q, a, b, E),
         Len(Select(q, HasData(q))) # Len(q)
  PROVE  \E e \in E : e \in Nat /\ e <= b
<1>1. PICK f \in [0 .. Len(q) -> Nat] : Marks(f, q, DOMAIN q, a, b, E)
  BY DEF Carries, Tiles
<1>2. Len(q) \in Nat /\ DOMAIN q = 1 .. Len(q) /\ HasData(q) \in SUBSET DOMAIN q
  BY DEF HasData
<1>3. Cardinality(HasData(q)) # Len(q)
  <2> HIDE DEF Wc
  <2>1. Len(Select(q, HasData(q))) = Cardinality(HasData(q))
    BY <1>2, SelectRank
  <2>2. QED BY <2>1
<1>4. HasData(q) # 1 .. Len(q)
  <2>1. Cardinality(1 .. Len(q)) = Len(q)
    <3>1. Cardinality(1 .. Len(q)) = IF 1 > Len(q) THEN 0 ELSE Len(q) - 1 + 1
      BY <1>2, FS_Interval
    <3>2. QED BY <1>2, <3>1
  <2>2. QED BY <1>3, <2>1
<1>5. PICK i \in 1 .. Len(q) : q[i].data = <<>>
  BY <1>2, <1>4 DEF HasData
<1>6. f[i] \in E
  BY <1>1, <1>2, <1>5 DEF Marks
<1>7. i \in 0 .. Len(q) /\ Len(q) \in 0 .. Len(q) /\ i <= Len(q)
  BY <1>2
<1>8. f[i] <= f[Len(q)] /\ f[i] \in Nat
  BY <1>1, <1>2, <1>7, MarksMono
<1>9. f[Len(q)] = b
  BY <1>1 DEF Marks
<1>10. QED BY <1>6, <1>8, <1>9

-------------------------------------------------------------------------------
(* The invariant of the stream. *)

\* Where a fin can be.
End(s) == IF sock[s].fin THEN {sent[s]} ELSE {}

\* What is on its way to s follows what s has been passed.
Coming(s, c) ==
  \E d \in Nat : /\ Tiles(batch, Of(batch, s), c, d, End(s))
                 /\ Tiles(rx_cq, Of(rx_cq, s), d, sent[s], End(s))

\* s has read r units, has those up to b in its buffers and those up to c in its
\* completions.  While read() is at work nothing it wanted is left in the buffers.
\* Unless the transport failed, an error is a fin, which nothing follows.
Reading(s, r, b, c) == LET o == sock[s] IN
  /\ Carries(o.buffers, r, b, {}) /\ Carries(o.wc, b, c, End(s))
  /\ o.registered => Coming(s, c)
  /\ reader[s].at # "drain"
  /\ reader[s].at \in {"recheck", "cqe"} =>
       /\ reader[s].got <= reader[s].len /\ reader[s].len >= 1
       /\ reader[s].got < reader[s].len => b = r
  /\ ~o.faulted => /\ o.registered
                   /\ o.error => o.fin /\ c = sent[s]
                   /\ o.eof => o.fin /\ r = sent[s]

Stream(s) == \E r, b, c \in Nat : /\ received[s] = Units(0, r)
                                  /\ sock[s].life = "open" => Reading(s, r, b, c)

\* A failed receive brings no data.
NoData(q) == \A i \in DOMAIN q : ~q[i].ok => q[i].data = <<>>

StreamInv ==
  /\ received \in [Sockets -> Seq(Nat)]
  /\ NoData(rx_cq) /\ NoData(batch)
  /\ \A s \in Sockets \ ZeroCopy : Stream(s)

\* The stream of a socket nothing of which changes.
LEMMA SameStream ==
  ASSUME NEW s, Stream(s), received'[s] = received[s], sent'[s] = sent[s],
         rx_cq' = rx_cq, batch' = batch, reader'[s] = reader[s],
         sock'[s].life = sock[s].life, sock'[s].registered = sock[s].registered,
         sock'[s].buffers = sock[s].buffers, sock'[s].wc = sock[s].wc,
         sock'[s].fin = sock[s].fin, sock'[s].eof = sock[s].eof,
         sock'[s].error = sock[s].error, sock'[s].faulted = sock[s].faulted
  PROVE  Stream(s)'
<1>1. End(s)' = End(s)
  BY DEF End
<1>2. Of(batch, s)' = Of(batch, s) /\ Of(rx_cq, s)' = Of(rx_cq, s)
  BY DEF Of
<1>3. PICK r \in Nat, b \in Nat, c \in Nat :
        received[s] = Units(0, r) /\ (sock[s].life = "open" => Reading(s, r, b, c))
  BY DEF Stream
<1>4. Coming(s, c) => Coming(s, c)'
  BY <1>1, <1>2 DEF Coming
<1>5. Reading(s, r, b, c) => Reading(s, r, b, c)'
  BY <1>1, <1>4 DEF Reading
<1>6. QED BY <1>3, <1>5 DEF Stream

\* What is passed, on its way and sent, in this order.
LEMMA StreamOrder ==
  ASSUME IInv, NEW s \in Sockets, NEW r \in Nat, NEW b \in Nat, NEW c \in Nat, Reading(s, r, b, c)
  PROVE  /\ r <= b /\ b <= c /\ sent[s] \in Nat
         /\ sock[s].registered => c <= sent[s]
<1>1. /\ sock[s].buffers \in Seq(Wc) /\ sock[s].wc \in Seq(Wc)
      /\ Len(sock[s].buffers) \in Nat /\ Len(sock[s].wc) \in Nat
  BY SocketTypes
<1>2. rx_cq \in Seq(Wc) /\ batch \in Seq(Wc) /\ Len(rx_cq) \in Nat /\ Len(batch) \in Nat
      /\ sent[s] \in Nat
  BY RxPoolAssumption DEF IInv, TypeOK
<1>3. r <= b /\ b <= c
  BY <1>1, TilesOrder DEF Reading, Carries
<1>4. ASSUME sock[s].registered PROVE c <= sent[s]
  <2>1. PICK d \in Nat : /\ Tiles(batch, Of(batch, s), c, d, End(s))
                         /\ Tiles(rx_cq, Of(rx_cq, s), d, sent[s], End(s))
    BY <1>4 DEF Reading, Coming
  <2>2. c <= d
    BY <1>2, <2>1, TilesOrder
  <2>3. d <= sent[s]
    BY <1>2, <2>1, TilesOrder
  <2>4. QED BY <1>2, <2>2, <2>3
<1>5. QED BY <1>2, <1>3, <1>4

-------------------------------------------------------------------------------
(* The dispatcher's steps and the hardware's. *)

LEMMA PollStream == ASSUME IInv, StreamInv, poll_cq PROVE StreamInv'
<1>1. /\ batch = <<>> /\ batch' = rx_cq /\ rx_cq' = <<>> /\ sock' = sock /\ reader' = reader
      /\ sent' = sent /\ received' = received
  BY DEF IInv, PollInv, poll_cq
<1>2. NoData(rx_cq)' /\ NoData(batch)' /\ received' \in [Sockets -> Seq(Nat)]
  BY <1>1 DEF StreamInv, NoData
<1>3. ASSUME NEW s \in Sockets \ ZeroCopy PROVE Stream(s)'
  <2>1. PICK r \in Nat, b \in Nat, c \in Nat :
          received[s] = Units(0, r) /\ (sock[s].life = "open" => Reading(s, r, b, c))
    BY DEF StreamInv, Stream
  <2>2. End(s)' = End(s) /\ sent[s] \in Nat
    BY <1>1, RxPoolAssumption DEF End, IInv, TypeOK
  <2>3. ASSUME Coming(s, c) PROVE Coming(s, c)'
    <3>1. PICK d \in Nat : /\ Tiles(batch, Of(batch, s), c, d, End(s))
                           /\ Tiles(rx_cq, Of(rx_cq, s), d, sent[s], End(s))
      BY <2>3 DEF Coming
    <3>2. d = c
      BY <1>1, <3>1, CarriesNothing
    <3>3. Of(batch, s)' = Of(rx_cq, s) /\ sent[s]' = sent[s] /\ sent[s]' \in Nat
      BY <1>1, <2>2 DEF Of
    <3>4. Tiles(batch', Of(batch, s)', c, sent[s]', End(s)')
      BY <1>1, <2>2, <3>1, <3>2, <3>3
    <3>5. Tiles(rx_cq', Of(rx_cq, s)', sent[s]', sent[s]', End(s)')
      BY <1>1, <3>3, CarriesNothing
    <3>6. QED BY <3>3, <3>4, <3>5 DEF Coming
  <2>4. Reading(s, r, b, c) => Reading(s, r, b, c)'
    BY <1>1, <2>2, <2>3 DEF Reading
  <2>5. QED BY <1>1, <2>1, <2>4 DEF Stream
<1>4. QED BY <1>2, <1>3 DEF StreamInv

LEMMA IdleStream == ASSUME IInv, StreamInv, idle PROVE StreamInv'
<1>1. /\ UNCHANGED <<rx_cq, batch, reader, sent, received>>
      /\ sock' = [s \in Sockets |-> IF sock[s].registered THEN sock[s]
                                    ELSE [sock[s] EXCEPT !.fin = TRUE]]
  BY DEF idle
<1>2. NoData(rx_cq)' /\ NoData(batch)' /\ received' \in [Sockets -> Seq(Nat)]
  BY <1>1 DEF StreamInv, NoData
<1>3. ASSUME NEW s \in Sockets \ ZeroCopy PROVE Stream(s)'
  <2>1. Stream(s) /\ sock[s] \in Socket
    BY SocketTypes DEF StreamInv
  <2>2. CASE sock[s].registered
    <3>1. sock'[s] = sock[s]
      BY <1>1, <2>2
    <3>2. QED BY <1>1, <2>1, <3>1, SameStream
  <2>3. CASE ~sock[s].registered
    <3>1. /\ sock'[s].life = sock[s].life /\ sock'[s].registered = sock[s].registered
          /\ sock'[s].buffers = sock[s].buffers /\ sock'[s].wc = sock[s].wc
          /\ sock'[s].fin /\ sock'[s].faulted = sock[s].faulted
      BY <1>1, <2>1, <2>3 DEF Socket
    <3>2. PICK r \in Nat, b \in Nat, c \in Nat :
            received[s] = Units(0, r) /\ (sock[s].life = "open" => Reading(s, r, b, c))
      BY <2>1 DEF Stream
    <3>3. End(s) \subseteq End(s)'
      BY <1>1, <3>1 DEF End
    <3>4. ASSUME Reading(s, r, b, c) PROVE Reading(s, r, b, c)'
      <4>1. sock[s].faulted
        BY <2>3, <3>4 DEF Reading
      <4>2. Carries(sock[s].wc, b, c, End(s)')
        BY <3>3, <3>4, TilesMore DEF Reading, Carries
      <4>3. QED BY <1>1, <2>3, <3>1, <3>4, <4>1, <4>2 DEF Reading
    <3>5. QED BY <1>1, <3>1, <3>2, <3>4 DEF Stream
  <2>4. QED BY <2>2, <2>3
<1>4. QED BY <1>2, <1>3 DEF StreamInv

LEMMA AsyncStream ==
  ASSUME IInv, StreamInv, NEW s \in Sockets, handle_async_event(s)
  PROVE  StreamInv'
<1> DEFINE o == [fault(sock[s]) EXCEPT !.registered = FALSE]
<1>1. /\ sock' = [sock EXCEPT ![s] = o] /\ reader' = reader /\ sent' = sent
      /\ received' = received /\ rx_cq' = rx_cq /\ batch' = batch
  BY DEF handle_async_event, cqVars
<1>2. /\ o \in Socket /\ o.wc = sock[s].wc /\ o.buffers = sock[s].buffers
      /\ o.life = sock[s].life /\ ~o.registered /\ o.faulted /\ o.fin = sock[s].fin
  BY SocketTypes DEF fault, Socket
<1> HIDE DEF o
<1>3. sock'[s] = o /\ \A t \in Sockets : t # s => sock'[t] = sock[t]
  BY <1>1, <1>2, SocketTypes, Socks
<1>4. NoData(rx_cq)' /\ NoData(batch)' /\ received' \in [Sockets -> Seq(Nat)]
  BY <1>1 DEF StreamInv, NoData
<1>5. ASSUME NEW t \in Sockets \ ZeroCopy PROVE Stream(t)'
  <2>1. Stream(t)
    BY DEF StreamInv
  <2>2. CASE t # s
    <3>1. sock'[t] = sock[t]
      BY <1>3, <2>2
    <3>2. QED BY <1>1, <2>1, <3>1, SameStream
  <2>3. CASE t = s
    <3>1. PICK r \in Nat, b \in Nat, c \in Nat :
            received[s] = Units(0, r) /\ (sock[s].life = "open" => Reading(s, r, b, c))
      BY <2>1, <2>3 DEF Stream
    <3>2. End(s)' = End(s)
      BY <1>1, <1>2, <1>3 DEF End
    <3>3. Reading(s, r, b, c) => Reading(s, r, b, c)'
      BY <1>1, <1>2, <1>3, <3>2 DEF Reading
    <3>4. QED BY <1>1, <1>2, <1>3, <2>3, <3>1, <3>3 DEF Stream
  <2>4. QED BY <2>2, <2>3
<1>6. QED BY <1>4, <1>5 DEF StreamInv

\* A completion with data after everything on its way, or with none at its end.
LEMMA ArriveStream ==
  ASSUME IInv, StreamInv, NEW s \in Sockets, NEW n \in Nat, NEW ok \in BOOLEAN,
         NEW fin \in BOOLEAN, fin <=> n = 0,
         NEW data \in Seq(Nat), data = Units(sent[s], sent[s] + n), ~ok => n = 0,
         Arrive(s, data, ok), ~sock[s].fin,
         sent' = [sent EXCEPT ![s] = sent[s] + n], sock' \in [Sockets -> Socket],
         sock'[s] = [sock[s] EXCEPT !.fin = fin],
         \A t \in Sockets : t # s => sock'[t] = sock[t]
  PROVE  StreamInv'
<1>1. PICK k \in srq : rx_cq' = Append(rx_cq, [chunk |-> k, s |-> s, data |-> data, ok |-> ok])
  BY DEF Arrive
<1> DEFINE e == [chunk |-> k, s |-> s, data |-> data, ok |-> ok]
<1>2. /\ e \in Wc /\ e.s = s /\ e.data = data /\ e.ok = ok /\ rx_cq' = Append(rx_cq, e)
      /\ rx_cq \in Seq(Wc) /\ batch \in Seq(Wc) /\ sent \in [Sockets -> 0 .. MaxData]
      /\ MaxData \in Nat
  BY <1>1, RxPoolAssumption DEF IInv, TypeOK, Wc
<1> HIDE DEF e
<1>3. batch' = batch /\ reader' = reader /\ received' = received
  BY DEF Arrive
<1>4. sent[s] \in Nat /\ sent[s] + n \in Nat /\ sent'[s] = sent[s] + n
      /\ \A t \in Sockets : t # s => sent'[t] = sent[t]
  BY <1>2
<1>5. data = <<>> <=> n = 0
  <2> DEFINE x == sent[s]
             y == sent[s] + n
  <2>1. x \in Nat /\ y \in Nat /\ x <= y /\ (x = y <=> n = 0)
    BY <1>4
  <2> HIDE DEF x, y
  <2>2. Units(x, y) = <<>> <=> x = y
    BY <2>1, UnitsProps
  <2>3. QED BY <2>1, <2>2 DEF x, y
<1>6. NoData(rx_cq)' /\ NoData(batch)' /\ received' \in [Sockets -> Seq(Nat)]
  <2>1. NoData(batch)' /\ received' \in [Sockets -> Seq(Nat)]
    BY <1>3 DEF StreamInv, NoData
  <2>2. /\ Len(rx_cq') = Len(rx_cq) + 1 /\ rx_cq'[Len(rx_cq) + 1] = e
        /\ \A i \in 1 .. Len(rx_cq) : rx_cq'[i] = rx_cq[i]
        /\ rx_cq' \in Seq(Wc) /\ Len(rx_cq) \in Nat
    BY <1>2, AppendProperties
  <2>3. ASSUME NEW i \in DOMAIN rx_cq' PROVE ~rx_cq'[i].ok => rx_cq'[i].data = <<>>
    <3>1. i \in 1 .. Len(rx_cq) \/ i = Len(rx_cq) + 1
      BY <2>2
    <3>2. CASE i \in 1 .. Len(rx_cq)
      BY <1>2, <2>2, <3>2 DEF StreamInv, NoData
    <3>3. CASE i = Len(rx_cq) + 1
      BY <1>2, <1>5, <2>2, <3>3
    <3>4. QED BY <3>1, <3>2, <3>3
  <2>4. QED BY <2>1, <2>3 DEF NoData
<1>7. ASSUME NEW t \in Sockets \ ZeroCopy PROVE Stream(t)'
  <2>1. PICK r \in Nat, b \in Nat, c \in Nat :
          received[t] = Units(0, r) /\ (sock[t].life = "open" => Reading(t, r, b, c))
    BY DEF StreamInv, Stream
  <2>2. sock[t] \in Socket /\ sent[t] \in Nat
    BY <1>2, SocketTypes
  <2>3. End(t) \subseteq End(t)' /\ (t = s => End(t) = {}) /\ (t # s => End(t)' = End(t))
    BY <1>4, <2>2 DEF End
  <2>4. /\ sock'[t].life = sock[t].life /\ sock'[t].registered = sock[t].registered
        /\ sock'[t].buffers = sock[t].buffers /\ sock'[t].wc = sock[t].wc
        /\ sock'[t].eof = sock[t].eof /\ sock'[t].error = sock[t].error
        /\ sock'[t].faulted = sock[t].faulted /\ (sock[t].fin => sock'[t] = sock[t])
    <3>1. CASE t = s
      BY <2>2, <3>1 DEF Socket
    <3>2. CASE t # s
      BY <3>2
    <3>3. QED BY <3>1, <3>2
  <2>5. ASSUME Coming(t, c) PROVE Coming(t, c)'
    <3>1. PICK d \in Nat : /\ Tiles(batch, Of(batch, t), c, d, End(t))
                           /\ Tiles(rx_cq, Of(rx_cq, t), d, sent[t], End(t))
      BY <2>5 DEF Coming
    <3>2. Of(batch, t)' = Of(batch, t) /\ Of(rx_cq, t)' = Of(rx_cq', t)
      BY <1>3 DEF Of
    <3>3. Tiles(batch, Of(batch, t), c, d, End(t)') /\ Tiles(rx_cq, Of(rx_cq, t), d, sent[t], End(t)')
      BY <2>3, <3>1, TilesMore
    <3>4. Tiles(rx_cq', Of(rx_cq', t), d, sent[t]', End(t)')
      <4>1. CASE t = s
        <5> DEFINE x == sent[t]'
                   F == End(t)'
        <5>1. x \in Nat /\ sent[t] <= x /\ e.data = Units(sent[t], x) /\ e.s = t
          BY <1>2, <1>4, <4>1
        <5>2. e.data = <<>> => x \in F
          BY <1>2, <1>4, <1>5, <2>2, <4>1 DEF End, Socket
        <5>3. Tiles(rx_cq, Of(rx_cq, t), d, sent[t], F)
          BY <3>3
        <5> HIDE DEF x, F
        <5>4. Tiles(Append(rx_cq, e), Of(Append(rx_cq, e), t), d, x, F)
          BY <1>2, <5>1, <5>2, <5>3, TilesAppend
        <5>5. QED BY <1>2, <5>4 DEF x, F
      <4>2. CASE t # s
        <5> DEFINE x == sent[t]'
                   F == End(t)'
        <5>1. x \in Nat /\ x = sent[t] /\ e.s # t
          BY <1>2, <1>4, <2>2, <4>2
        <5>3. Tiles(rx_cq, Of(rx_cq, t), d, sent[t], F)
          BY <3>3
        <5> HIDE DEF x, F
        <5>4. Tiles(Append(rx_cq, e), Of(Append(rx_cq, e), t), d, x, F)
          BY <1>2, <5>1, <5>3, TilesAppend
        <5>5. QED BY <1>2, <5>4 DEF x, F
      <4>3. QED BY <4>1, <4>2
    <3>5. QED BY <1>3, <3>2, <3>3, <3>4 DEF Coming
  <2>6. ASSUME Reading(t, r, b, c) PROVE Reading(t, r, b, c)'
    <3>1. Carries(sock[t].wc, b, c, End(t)')
      BY <2>3, <2>6, TilesMore DEF Reading, Carries
    <3>2. sock[t].fin => sent[t]' = sent[t]
      BY <1>4
    <3>3. QED BY <1>3, <2>4, <2>5, <2>6, <3>1, <3>2 DEF Reading
  <2>7. QED BY <1>3, <2>1, <2>4, <2>6 DEF Stream
<1>8. QED BY <1>6, <1>7 DEF StreamInv

LEMMA ReceiveStream ==
  ASSUME IInv, StreamInv, NEW s \in Sockets, NEW n \in 1 .. 2, receive(s, n)
  PROVE  StreamInv'
<1> DEFINE data == [i \in 1 .. n |-> sent[s] + i]
<1>1. /\ Arrive(s, data, TRUE) /\ ~sock[s].fin /\ sent' = [sent EXCEPT ![s] = sent[s] + n]
      /\ sock' = sock
  BY DEF receive
<1>2. sent \in [Sockets -> 0 .. MaxData] /\ sock \in [Sockets -> Socket] /\ MaxData \in Nat
      /\ sock[s] \in Socket
  BY SocketTypes, RxPoolAssumption DEF IInv, TypeOK
<1>3. n \in Nat /\ n # 0 /\ sent[s] \in Nat
  BY <1>2
<1>4. data = Units(sent[s], sent[s] + n)
  <2> DEFINE x == sent[s]
             m == (x + n) - x
  <2>1. m = n
    BY <1>3
  <2>2. Units(x, x + n) = [j \in 1 .. m |-> x + j]
    BY DEF Units
  <2> HIDE DEF x, m
  <2>3. Units(x, x + n) = [i \in 1 .. n |-> x + i]
    BY <2>1, <2>2
  <2>4. QED BY <2>3 DEF x
<1>5. data \in Seq(Nat)
  <2> DEFINE x == sent[s]
             y == sent[s] + n
  <2>1. x \in Nat /\ y \in Nat /\ x <= y
    BY <1>3
  <2> HIDE DEF x, y
  <2>2. Units(x, y) \in Seq(Nat)
    BY <2>1, UnitsProps
  <2>3. QED BY <1>4, <2>2 DEF x, y
<1>6. sock'[s] = [sock[s] EXCEPT !.fin = FALSE] /\ \A t \in Sockets : t # s => sock'[t] = sock[t]
  <2>2. sock[s].fin = FALSE
    BY <1>1, <1>2 DEF Socket
  <2>3. sock[s] = [sock[s] EXCEPT !.fin = FALSE]
    BY <1>2, <2>2 DEF Socket
  <2>4. QED BY <1>1, <2>3
<1> HIDE DEF data
<1>7. n = 0 <=> FALSE
  BY <1>3
<1>8. QED BY <1>1, <1>2, <1>3, <1>4, <1>5, <1>6, <1>7, ArriveStream

LEMMA ReceiveFinStream ==
  ASSUME IInv, StreamInv, NEW s \in Sockets, NEW ok \in BOOLEAN, receive_fin(s, ok)
  PROVE  StreamInv'
<1> DEFINE o == [sock[s] EXCEPT !.fin = TRUE]
           data == <<>>
<1>1. /\ sent \in [Sockets -> 0 .. MaxData] /\ MaxData \in Nat
      /\ sock \in [Sockets -> Socket] /\ sock[s] \in Socket
  BY SocketTypes, RxPoolAssumption DEF IInv, TypeOK
<1>2. Arrive(s, data, ok) /\ ~sock[s].fin /\ sent' = sent /\ sock' = [sock EXCEPT ![s] = o]
  BY <1>1 DEF receive_fin
<1>3. o \in Socket /\ o = [sock[s] EXCEPT !.fin = TRUE]
  BY <1>1 DEF Socket
<1>4. /\ sock' \in [Sockets -> Socket] /\ sock'[s] = o
      /\ \A t \in Sockets : t # s => sock'[t] = sock[t]
  <2> HIDE DEF o
  <2>1. QED BY <1>1, <1>2, <1>3, Socks
<1>5. sent[s] \in Nat /\ sent[s] + 0 = sent[s] /\ sent' = [sent EXCEPT ![s] = sent[s] + 0]
  BY <1>1, <1>2
<1>6. data \in Seq(Nat) /\ data = Units(sent[s], sent[s] + 0)
  BY <1>5, UnitsNone
<1> HIDE DEF data, o
<1>7. sock'[s] = [sock[s] EXCEPT !.fin = TRUE]
  BY <1>3, <1>4
<1>8. 0 \in Nat /\ (TRUE <=> 0 = 0) /\ (~ok => 0 = 0)
  OBVIOUS
<1>9. QED BY <1>2, <1>4, <1>5, <1>6, <1>7, <1>8, ArriveStream

\* What handle_rx does to a socket that is registered.
LEMMA PassedFields ==
  ASSUME IInv, handle_rx, NEW s \in Sockets
  PROVE  LET o == sock'[s] IN
         /\ o.wc = sock[s].wc \o PassedTo(s) /\ o.buffers = sock[s].buffers
         /\ o.life = sock[s].life /\ o.registered = sock[s].registered
         /\ o.fin = sock[s].fin /\ o.eof = sock[s].eof
         /\ o.faulted \/ (o.faulted = sock[s].faulted /\ o.error = sock[s].error)
<1> DEFINE o == IF FailedOf(s) THEN fault(sock[s]) ELSE sock[s]
           add == PassedTo(s)
           wc == sock[s].wc \o add
<1>1. sock'[s] = pass_wc(o, add)
  BY HandleRx
<1>2. sock[s] \in Socket /\ sock[s].wc \in Seq(Wc) /\ add \in Seq(Wc)
  BY SocketTypes, PassedProps
<1>3. /\ o \in Socket /\ o.wc = sock[s].wc /\ o.buffers = sock[s].buffers
      /\ o.life = sock[s].life /\ o.registered = sock[s].registered
      /\ o.fin = sock[s].fin /\ o.eof = sock[s].eof
      /\ o.faulted \/ (o.faulted = sock[s].faulted /\ o.error = sock[s].error)
  <2>1. CASE FailedOf(s)
    BY <1>2, <2>1 DEF Socket, fault
  <2>2. CASE ~FailedOf(s)
    BY <1>2, <2>2
  <2>3. QED BY <2>1, <2>2
<1>4. wc \in Seq(Wc) /\ (add = <<>> => wc = sock[s].wc)
  <2>1. wc \in Seq(Wc)
    BY <1>2, ConcatProperties
  <2>2. add = <<>> => wc = sock[s].wc
    BY <1>2, ConcatEmptySeq
  <2>3. QED BY <2>1, <2>2
<1> HIDE DEF o, add, wc
<1>5. CASE add = <<>>
  BY <1>1, <1>3, <1>4, <1>5 DEF pass_wc, add, wc
<1>6. CASE add # <<>>
  <2>1. sock'[s] = [o EXCEPT !.wc = wc, !.notify_fd = TRUE]
    BY <1>1, <1>3, <1>6 DEF pass_wc, wc
  <2>2. QED BY <1>3, <2>1 DEF Socket, add, wc
<1>7. QED BY <1>5, <1>6

LEMMA HandleStream == ASSUME IInv, StreamInv, handle_rx PROVE StreamInv'
<1>1. /\ batch' = <<>> /\ rx_cq' = rx_cq /\ reader' = reader /\ sent' = sent
      /\ received' = received
  BY HandleRx
<1>2. NoData(rx_cq)' /\ NoData(batch)' /\ received' \in [Sockets -> Seq(Nat)]
  BY <1>1 DEF StreamInv, NoData
<1>3. ASSUME NEW s \in Sockets \ ZeroCopy PROVE Stream(s)'
  <2> DEFINE add == PassedTo(s)
  <2>1. PICK r \in Nat, b \in Nat, c \in Nat :
          received[s] = Units(0, r) /\ (sock[s].life = "open" => Reading(s, r, b, c))
    BY DEF StreamInv, Stream
  <2>2. /\ sock'[s].wc = sock[s].wc \o add /\ sock'[s].buffers = sock[s].buffers
        /\ sock'[s].life = sock[s].life /\ sock'[s].registered = sock[s].registered
        /\ sock'[s].fin = sock[s].fin /\ sock'[s].eof = sock[s].eof
        /\ sock'[s].faulted \/ /\ sock'[s].faulted = sock[s].faulted
                               /\ sock'[s].error = sock[s].error
    BY PassedFields
  <2>3. sock[s].wc \in Seq(Wc) /\ batch \in Seq(Wc) /\ Len(batch) \in Nat /\ add \in Seq(Wc)
        /\ (~sock[s].registered => add = <<>>)
    BY SocketTypes, PassedProps DEF IInv, TypeOK
  <2>4. End(s)' = End(s)
    BY <1>1, <2>2 DEF End
  <2>5. CASE sock[s].life # "open"
    BY <1>1, <2>1, <2>2, <2>5 DEF Stream
  <2>6. CASE sock[s].life = "open" /\ ~sock[s].registered
    <3>1. sock'[s].wc = sock[s].wc
      BY <2>2, <2>3, <2>6, ConcatEmptySeq
    <3>2. Reading(s, r, b, c)'
      BY <1>1, <2>1, <2>2, <2>4, <2>6, <3>1 DEF Reading
    <3>3. QED BY <1>1, <2>1, <3>2 DEF Stream
  <2>7. CASE sock[s].life = "open" /\ sock[s].registered
    <3>1. Reading(s, r, b, c) /\ Coming(s, c)
      BY <2>1, <2>7 DEF Reading
    <3>2. PICK d \in Nat : /\ Tiles(batch, Of(batch, s), c, d, End(s))
                           /\ Tiles(rx_cq, Of(rx_cq, s), d, sent[s], End(s))
      BY <3>1 DEF Coming
    <3>3. Carries(add, c, d, End(s))
      <4>1. GoodOf(s) \in SUBSET DOMAIN batch /\ GoodOf(s) \subseteq Of(batch, s)
        BY DEF GoodOf, Good, Of
      <4>2. \A i \in Of(batch, s) \ GoodOf(s) : batch[i].data = <<>>
        BY <2>7 DEF GoodOf, Good, Of, StreamInv, NoData
      <4>3. Tiles(batch, GoodOf(s), c, d, End(s))
        BY <2>3, <3>2, <4>1, <4>2, TilesDrop
      <4> HIDE DEF Wc
      <4>4. QED BY <2>3, <4>1, <4>3, TilesSelect DEF PassedTo
    <3>4. Carries(sock'[s].wc, b, d, End(s)')
      <4> HIDE DEF add
      <4>1. QED BY <2>2, <2>3, <2>4, <3>1, <3>3, CarriesConcat DEF Reading
    <3>5. Coming(s, d)'
      <4>1. Of(rx_cq, s)' = Of(rx_cq, s)
        BY <1>1 DEF Of
      <4>2. Tiles(batch', Of(batch, s)', d, d, End(s)')
        BY <1>1, CarriesNothing
      <4>3. Tiles(rx_cq', Of(rx_cq, s)', d, sent[s]', End(s)')
        BY <1>1, <2>4, <3>2, <4>1
      <4>4. QED BY <4>2, <4>3 DEF Coming
    <3>6. c <= d /\ d <= sent[s] /\ sent[s] \in Nat
      <4>1. Len(rx_cq) \in Nat /\ sent[s] \in Nat
        BY RxPoolAssumption DEF IInv, TypeOK
      <4>2. c <= d
        BY <2>3, <3>2, TilesOrder
      <4>3. d <= sent[s]
        BY <3>2, <4>1, TilesOrder
      <4>4. QED BY <4>1, <4>2, <4>3
    <3>7. c = sent[s] => d = sent[s]
      BY <3>6
    <3>8. Reading(s, r, b, d)'
      BY <1>1, <2>2, <3>1, <3>4, <3>5, <3>7 DEF Reading
    <3>9. QED BY <1>1, <2>1, <3>8 DEF Stream
  <2>8. QED BY <2>5, <2>6, <2>7
<1>4. QED BY <1>2, <1>3 DEF StreamInv

-------------------------------------------------------------------------------
(* The reader's steps. *)

\* A step of s alone, which leaves what is on its way.
LEMMA OwnStream ==
  ASSUME IInv, StreamInv, NEW s \in Sockets, UNCHANGED cqVars, sent' = sent,
         NEW o \in Socket, NEW p \in Reader, NEW u \in Seq(Nat),
         sock' = [sock EXCEPT ![s] = o], reader' = [reader EXCEPT ![s] = p],
         received' = [received EXCEPT ![s] = u],
         s \notin ZeroCopy => Stream(s)'
  PROVE  StreamInv'
<1>1. /\ rx_cq' = rx_cq /\ batch' = batch /\ received \in [Sockets -> Seq(Nat)]
      /\ sock \in [Sockets -> Socket] /\ reader \in [Sockets -> Reader]
  BY SocketTypes DEF cqVars, StreamInv
<1>2. NoData(rx_cq)' /\ NoData(batch)' /\ received' \in [Sockets -> Seq(Nat)]
  BY <1>1 DEF StreamInv, NoData
<1>3. \A t \in Sockets : t # s => /\ sock'[t] = sock[t] /\ reader'[t] = reader[t]
                                  /\ received'[t] = received[t]
  <2>1. \A t \in Sockets : t # s => sock'[t] = sock[t]
    BY <1>1, Socks
  <2>2. \A t \in Sockets : t # s => reader'[t] = reader[t]
    BY <1>1
  <2>3. \A t \in Sockets : t # s => received'[t] = received[t]
    BY <1>1
  <2>4. QED BY <2>1, <2>2, <2>3
<1>4. ASSUME NEW t \in Sockets \ ZeroCopy PROVE Stream(t)'
  <2>1. CASE t = s
    BY <2>1
  <2>2. CASE t # s
    <3>1. Stream(t) /\ sock'[t] = sock[t] /\ reader'[t] = reader[t] /\ received'[t] = received[t]
      BY <1>3, <2>2 DEF StreamInv
    <3>2. QED BY <1>1, <3>1, SameStream
  <2>3. QED BY <2>1, <2>2
<1>5. QED BY <1>2, <1>4 DEF StreamInv

\* What a step of s finds, and what it leaves, once s and its reader are named.
LEMMA OwnParts ==
  ASSUME IInv, StreamInv, NEW s \in Sockets, UNCHANGED cqVars, sent' = sent,
         NEW o \in Socket, NEW p \in Reader, NEW u \in Seq(Nat),
         sock' = [sock EXCEPT ![s] = o], reader' = [reader EXCEPT ![s] = p],
         received' = [received EXCEPT ![s] = u], o.fin = sock[s].fin
  PROVE  /\ sock'[s] = o /\ reader'[s] = p /\ received'[s] = u /\ sent'[s] = sent[s]
         /\ End(s)' = End(s) /\ \A c : Coming(s, c) => Coming(s, c)'
<1>1. /\ rx_cq' = rx_cq /\ batch' = batch /\ received \in [Sockets -> Seq(Nat)]
      /\ reader \in [Sockets -> Reader]
  BY SocketTypes DEF cqVars, StreamInv
<1>2. sock'[s] = o
  BY SocketTypes, Socks
<1>3. reader'[s] = p /\ received'[s] = u
  BY <1>1
<1>4. End(s)' = End(s)
  BY <1>2 DEF End
<1>5. Of(batch, s)' = Of(batch, s) /\ Of(rx_cq, s)' = Of(rx_cq, s)
  BY <1>1 DEF Of
<1>6. \A c : Coming(s, c) => Coming(s, c)'
  BY <1>1, <1>4, <1>5 DEF Coming
<1>7. QED BY <1>2, <1>3, <1>4, <1>6

\* A step that reads nothing.
LEMMA QuietStream ==
  ASSUME IInv, StreamInv, NEW s \in Sockets, UNCHANGED cqVars, sent' = sent, received' = received,
         NEW o \in Socket, NEW p \in Reader,
         sock' = [sock EXCEPT ![s] = o], reader' = [reader EXCEPT ![s] = p],
         o.life = sock[s].life, o.registered = sock[s].registered, o.buffers = sock[s].buffers,
         o.wc = sock[s].wc, o.fin = sock[s].fin, o.eof = sock[s].eof, o.error = sock[s].error,
         o.faulted = sock[s].faulted, p.got = reader[s].got, p.len = reader[s].len,
         p.at = reader[s].at \/ (p.at = "cqe" /\ reader[s].at = "recheck")
  PROVE  StreamInv'
<1> DEFINE u == received[s]
<1>1. u \in Seq(Nat) /\ received' = [received EXCEPT ![s] = u]
  BY DEF StreamInv
<1> HIDE DEF u
<1>2. /\ sock'[s] = o /\ reader'[s] = p /\ received'[s] = u /\ sent'[s] = sent[s]
      /\ End(s)' = End(s) /\ \A c : Coming(s, c) => Coming(s, c)'
  BY <1>1, OwnParts
<1>3. ASSUME s \notin ZeroCopy PROVE Stream(s)'
  <2>1. PICK r \in Nat, b \in Nat, c \in Nat :
          received[s] = Units(0, r) /\ (sock[s].life = "open" => Reading(s, r, b, c))
    BY <1>3 DEF StreamInv, Stream
  <2>2. Reading(s, r, b, c) => Reading(s, r, b, c)'
    BY <1>2 DEF Reading
  <2>3. QED BY <1>2, <2>1, <2>2 DEF Stream, u
<1>4. QED BY <1>1, <1>3, OwnStream

\* A step of a socket that is closed.
LEMMA ClosedStream ==
  ASSUME IInv, StreamInv, NEW s \in Sockets, UNCHANGED cqVars, sent' = sent, received' = received,
         NEW o \in Socket, NEW p \in Reader,
         sock' = [sock EXCEPT ![s] = o], reader' = [reader EXCEPT ![s] = p],
         o.life = "closed"
  PROVE  StreamInv'
<1> DEFINE u == received[s]
<1>1. u \in Seq(Nat) /\ received' = [received EXCEPT ![s] = u] /\ received'[s] = u
  BY DEF StreamInv
<1>2. sock'[s] = o
  BY SocketTypes, Socks
<1>3. ASSUME s \notin ZeroCopy PROVE Stream(s)'
  <2>1. PICK r \in Nat, b \in Nat, c \in Nat : received[s] = Units(0, r)
    BY <1>3 DEF StreamInv, Stream
  <2>2. QED BY <1>1, <1>2, <2>1 DEF Stream
<1> HIDE DEF u
<1>4. QED BY <1>1, <1>3, OwnStream

LEMMA WakeStream == ASSUME IInv, StreamInv, wake \/ polling_stop PROVE StreamInv'
<1>1. /\ UNCHANGED <<rx_cq, batch, sock, reader, sent, received>>
  BY DEF wake, polling_stop
<1>2. NoData(rx_cq)' /\ NoData(batch)' /\ received' \in [Sockets -> Seq(Nat)]
  BY <1>1 DEF StreamInv, NoData
<1>3. ASSUME NEW t \in Sockets \ ZeroCopy PROVE Stream(t)'
  <2>1. Stream(t)
    BY DEF StreamInv
  <2>2. QED BY <1>1, <2>1, SameStream
<1>4. QED BY <1>2, <1>3 DEF StreamInv

LEMMA ConnectedStream ==
  ASSUME IInv, StreamInv, NEW s \in Sockets, connected(s) \/ read_too_early(s)
  PROVE  StreamInv'
<1>1. PICK v \in BOOLEAN, w \in BOOLEAN :
        /\ sock' = [sock EXCEPT ![s] = [sock[s] EXCEPT !.connected = v, !.notify_fd = w]]
        /\ UNCHANGED cqVars /\ sent' = sent /\ received' = received /\ reader' = reader
  <2>1. CASE connected(s)
    BY <2>1, SocketTypes DEF connected
  <2>2. CASE read_too_early(s)
    <3>1. /\ sock' = [sock EXCEPT ![s] = [sock[s] EXCEPT !.notify_fd = FALSE]]
          /\ UNCHANGED cqVars /\ sent' = sent /\ received' = received /\ reader' = reader
      BY <2>2, SocketTypes DEF read_too_early
    <3>2. sock[s].connected \in BOOLEAN
      BY SocketTypes DEF Socket
    <3>3. [sock[s] EXCEPT !.notify_fd = FALSE]
            = [sock[s] EXCEPT !.connected = sock[s].connected, !.notify_fd = FALSE]
      BY SocketTypes DEF Socket
    <3>4. QED BY <3>1, <3>2, <3>3
  <2>3. QED BY <2>1, <2>2
<1> DEFINE o == [sock[s] EXCEPT !.connected = v, !.notify_fd = w]
           p == reader[s]
<1>2. /\ o \in Socket /\ o.life = sock[s].life /\ o.registered = sock[s].registered
      /\ o.buffers = sock[s].buffers /\ o.wc = sock[s].wc /\ o.fin = sock[s].fin
      /\ o.eof = sock[s].eof /\ o.error = sock[s].error /\ o.faulted = sock[s].faulted
  BY SocketTypes DEF Socket
<1>3. p \in Reader /\ reader' = [reader EXCEPT ![s] = p]
  BY <1>1, SocketTypes
<1>4. sock' = [sock EXCEPT ![s] = o]
  BY <1>1
<1>5. p.got = reader[s].got /\ p.len = reader[s].len /\ p.at = reader[s].at
  OBVIOUS
<1> HIDE DEF o, p
<1>6. QED BY <1>1, <1>2, <1>3, <1>4, <1>5, QuietStream

LEMMA RecheckStream ==
  ASSUME IInv, StreamInv, NEW s \in Sockets, recheck(s)
  PROVE  StreamInv'
<1> DEFINE p == [reader[s] EXCEPT !.at = "cqe", !.chunk = "none"]
           o == sock[s]
<1>1. /\ reader' = [reader EXCEPT ![s] = p] /\ UNCHANGED cqVars /\ sent' = sent
      /\ received' = received /\ sock' = sock /\ reader[s].at = "recheck"
  BY SocketTypes DEF recheck
<1>2. p \in Reader /\ p.at = "cqe" /\ p.got = reader[s].got /\ p.len = reader[s].len
  BY SocketTypes DEF Reader
<1>3. o \in Socket /\ sock' = [sock EXCEPT ![s] = o]
  BY <1>1, SocketTypes
<1> HIDE DEF p
<1>4. QED BY <1>1, <1>2, <1>3, QuietStream

LEMMA EraseStream ==
  ASSUME IInv, StreamInv, NEW s \in Sockets, erase_qpn(s)
  PROVE  StreamInv'
<1> DEFINE o == [sock[s] EXCEPT !.life = "closed", !.registered = FALSE, !.error = TRUE]
           p == [reader[s] EXCEPT !.at = "drain"]
<1>1. /\ sock' = [sock EXCEPT ![s] = o] /\ reader' = [reader EXCEPT ![s] = p]
      /\ UNCHANGED cqVars /\ sent' = sent /\ received' = received
  BY SocketTypes DEF erase_qpn
<1>2. o \in Socket /\ o.life = "closed" /\ p \in Reader
  BY SocketTypes DEF Socket, Reader
<1> HIDE DEF o, p
<1>3. QED BY <1>1, <1>2, ClosedStream

LEMMA DrainStream ==
  ASSUME IInv, StreamInv, NEW s \in Sockets, drain(s)
  PROVE  StreamInv'
<1> DEFINE o == [sock[s] EXCEPT !.wc = <<>>, !.buffers = <<>>]
<1>1. /\ sock' = [sock EXCEPT ![s] = o] /\ reader' = [reader EXCEPT ![s] = Idle]
      /\ UNCHANGED cqVars /\ sent' = sent /\ received' = received /\ reader[s].at = "drain"
  BY SocketTypes DEF drain
<1>2. <<>> \in Seq(Wc) /\ Idle \in Reader
  BY DEF Idle, Reader
<1>3. o \in Socket /\ o.life = sock[s].life
  BY <1>2, SocketTypes DEF Socket
<1> HIDE DEF o
<1>4. CASE sock[s].life = "closed"
  BY <1>1, <1>2, <1>3, <1>4, ClosedStream
<1>5. CASE sock[s].life = "open" /\ s \notin ZeroCopy
  BY <1>1, <1>5 DEF StreamInv, Stream, Reading
<1>6. CASE s \in ZeroCopy
  <2> DEFINE u == received[s]
  <2>1. u \in Seq(Nat) /\ received' = [received EXCEPT ![s] = u]
    BY <1>1 DEF StreamInv
  <2> HIDE DEF u
  <2>2. QED BY <1>1, <1>2, <1>3, <1>6, <2>1, OwnStream
<1>7. QED BY <1>4, <1>5, <1>6, SocketTypes

LEMMA ZeroCopyStream ==
  ASSUME IInv, StreamInv, NEW s \in Sockets, zero_copy_read(s)
  PROVE  StreamInv'
<1> DEFINE w == sock[s].wc
           b == sock[s].buffers
           data == IF b = <<>> THEN Select(w, HasData(w)) ELSE b
           lent == Last(data)
           o == [sock[s] EXCEPT !.buffers = Front(data), !.res_mem = @ \cup {lent.chunk},
                   !.wc = IF b = <<>> THEN <<>> ELSE @]
           p == reader[s]
           u == received[s] \o lent.data
<1>1. /\ sock' = [sock EXCEPT ![s] = o] /\ reader' = reader /\ UNCHANGED cqVars /\ sent' = sent
      /\ received' = [received EXCEPT ![s] = u] /\ s \in ZeroCopy /\ data # <<>>
  BY DEF zero_copy_read
<1>2. sock[s] \in Socket /\ w \in Seq(Wc) /\ b \in Seq(Wc) /\ received[s] \in Seq(Nat)
      /\ sock[s].res_mem \subseteq Chunks
  BY SocketTypes DEF StreamInv
<1>3. data \in Seq(Wc)
  <2>1. Select(w, HasData(w)) \in Seq(Wc)
    <3> HIDE DEF w
    <3>1. QED BY <1>2, WithData
  <2>2. QED BY <1>2, <2>1
<1> HIDE DEF data
<1>4. Front(data) \in Seq(Wc) /\ lent \in Wc
  <2> HIDE DEF Wc
  <2>1. QED BY <1>1, <1>3, ChunksFront
<1> HIDE DEF lent
<1>5. lent.data \in Seq(Nat) /\ lent.chunk \in Chunks
  BY <1>4 DEF Wc
<1>6. u \in Seq(Nat)
  BY <1>2, <1>5, ConcatProperties
<1> DEFINE x == IF b = <<>> THEN <<>> ELSE w
           y == sock[s].res_mem \cup {lent.chunk}
<1>7. x \in Seq(Wc) /\ y \subseteq Chunks
  BY <1>2, <1>5
<1>8. o = [sock[s] EXCEPT !.buffers = Front(data), !.res_mem = y, !.wc = x]
  OBVIOUS
<1> HIDE DEF x, y, o
<1>9. o \in Socket
  BY <1>2, <1>4, <1>7, <1>8 DEF Socket
<1>10. p \in Reader /\ reader' = [reader EXCEPT ![s] = p]
  BY <1>1, SocketTypes
<1> HIDE DEF u, p
<1>11. QED BY <1>1, <1>6, <1>9, <1>10, OwnStream

\* What is taken: as much as is wanted, or all there is.
LEMMA TakenUnits ==
  ASSUME NEW q \in Seq(Wc), NEW a, NEW b, NEW E, Carries(q, a, b, E), NEW len \in Nat
  PROVE  LET n == Taken(q, len) IN
         /\ n \in Nat /\ n <= b - a /\ n <= len /\ (n < len => n = b - a)
         /\ a \in Nat /\ b \in Nat /\ a <= b
<1>1. Len(Data(q)) = b - a /\ a \in Nat /\ b \in Nat /\ a <= b
  BY CarriesData
<1>2. Taken(q, len) = IF b - a < len THEN b - a ELSE len
  BY <1>1 DEF Taken
<1>3. QED BY <1>1, <1>2

\* What is read follows what was read.
LEMMA ReadOn ==
  ASSUME NEW q \in Seq(Wc), NEW r \in Nat, NEW b, NEW E, Carries(q, r, b, E),
         NEW n \in Nat, n <= b - r
  PROVE  /\ Units(0, r) \o SubSeq(Data(q), 1, n) = Units(0, r + n)
         /\ Units(0, r + n) \in Seq(Nat)
<1>1. Data(q) = Units(r, b) /\ b \in Nat /\ r <= b
  BY CarriesData
<1> DEFINE m == r + n
<1>2. m \in Nat /\ r <= m /\ 0 <= r /\ 0 <= m /\ m <= b /\ 0 \in Nat
  BY <1>1
<1>3. SubSeq(Data(q), 1, n) = Units(r, m)
  BY <1>1, <1>2, UnitsFirst
<1> HIDE DEF m
<1>4. Units(0, r) \o Units(r, m) = Units(0, m) /\ Units(0, m) \in Seq(Nat)
  BY <1>2, UnitsConcat, UnitsProps
<1>5. QED BY <1>3, <1>4 DEF m

\* What read() takes from the buffers.
LEMMA ReadBuffersStream ==
  ASSUME IInv, StreamInv, NEW s \in Sockets, NEW len \in 1 .. 2, read_buffers(s, len)
  PROVE  StreamInv'
<1> DEFINE q == sock[s].buffers
           n == Taken(q, len)
           rest == Rest(q, n)
           over == ChunksIn(q) \ ChunksIn(rest)
           last == {c \in over : n = len /\ c = q[Len(q) - Len(rest)].chunk}
           o == [sock[s] EXCEPT !.buffers = rest, !.notify_fd = FALSE]
           at == IF last = {} THEN "cqe" ELSE "recheck"
           chunk == IF last = {} THEN "none" ELSE CHOOSE c \in last : TRUE
           p == [at |-> at, chunk |-> chunk, got |-> n, len |-> len]
           u == received[s] \o SubSeq(Data(q), 1, n)
<1>1. /\ sock' = [sock EXCEPT ![s] = o] /\ reader' = [reader EXCEPT ![s] = p]
      /\ received' = [received EXCEPT ![s] = u] /\ UNCHANGED cqVars /\ sent' = sent
      /\ sock[s].life = "open" /\ s \notin ZeroCopy
  BY SocketTypes DEF read_buffers, Reads
<1>2. q \in Seq(Wc) /\ sock[s] \in Socket /\ len \in Nat /\ len >= 1 /\ sent[s] \in Nat
  BY SocketTypes, RxPoolAssumption DEF IInv, TypeOK
<1>3. PICK r \in Nat, b \in Nat, c \in Nat : received[s] = Units(0, r) /\ Reading(s, r, b, c)
  BY <1>1 DEF StreamInv, Stream
<1>4. Carries(q, r, b, {})
  BY <1>3 DEF Reading
<1>5. n \in Nat /\ n <= b - r /\ n <= len /\ (n < len => n = b - r)
  <2> HIDE DEF q
  <2>1. QED BY <1>2, <1>4, TakenUnits
<1>6. at \in {"cqe", "recheck"} /\ chunk \in Chunks \cup {"none"}
  <2>1. \A i \in DOMAIN q : q[i].chunk \in Chunks
    <3>1. \A i \in DOMAIN q : q[i] \in Wc
      BY <1>2
    <3>2. QED BY <3>1 DEF Wc
  <2>2. last \subseteq Chunks
    BY <2>1 DEF ChunksIn
  <2> HIDE DEF last
  <2>3. last # {} => (CHOOSE c2 \in last : TRUE) \in Chunks
    BY <2>2
  <2>4. QED BY <2>3
<1> HIDE DEF n, last, at, chunk
<1>7. Carries(rest, r + n, b, {}) /\ rest \in Seq(Wc)
  <2> HIDE DEF q
  <2>1. n \in Int
    BY <1>5
  <2>2. QED BY <1>2, <1>4, <1>5, <2>1, RestCarries, RestProps
<1> HIDE DEF rest, over
<1>8. u = Units(0, r + n) /\ u \in Seq(Nat)
  <2> HIDE DEF q
  <2>1. /\ Units(0, r) \o SubSeq(Data(q), 1, n) = Units(0, r + n)
        /\ Units(0, r + n) \in Seq(Nat)
    BY <1>2, <1>3, <1>4, <1>5, ReadOn
  <2>2. QED BY <1>3, <2>1
<1> HIDE DEF u
<1>9. p \in Reader /\ p.at = at /\ p.got = n /\ p.len = len
  BY <1>2, <1>5, <1>6 DEF Reader
<1>10. /\ o \in Socket /\ o.buffers = rest /\ o.wc = sock[s].wc /\ o.life = "open"
       /\ o.registered = sock[s].registered /\ o.faulted = sock[s].faulted
       /\ o.error = sock[s].error /\ o.eof = sock[s].eof /\ o.fin = sock[s].fin
  BY <1>1, <1>2, <1>7 DEF Socket
<1> HIDE DEF o, p, q
<1>11. /\ sock'[s] = o /\ reader'[s] = p /\ received'[s] = u /\ sent'[s] = sent[s]
       /\ End(s)' = End(s) /\ \A k : Coming(s, k) => Coming(s, k)'
  <2>1. UNCHANGED cqVars /\ sent' = sent /\ o \in Socket /\ p \in Reader /\ u \in Seq(Nat)
        /\ o.fin = sock[s].fin
    BY <1>1, <1>8, <1>9, <1>10
  <2>2. sock' = [sock EXCEPT ![s] = o] /\ reader' = [reader EXCEPT ![s] = p]
        /\ received' = [received EXCEPT ![s] = u]
    BY <1>1
  <2>3. QED BY <2>1, <2>2, OwnParts
<1>0. PICK r1 \in Nat : r1 = r + n
  BY <1>5
<1>12. /\ (n < len => b = r1)
       /\ (sock[s].registered /\ r = sent[s] => r1 = sent[s])
  <2>1. /\ r <= b /\ b <= c
        /\ sock[s].registered => c <= sent[s]
    BY <1>3, StreamOrder
  <2>2. QED BY <1>0, <1>2, <1>5, <2>1
<1>13. Reading(s, r1, b, c)'
  <2>1. Carries(o.buffers, r1, b, {})
    BY <1>0, <1>7, <1>10
  <2>2. Carries(o.wc, b, c, End(s)') /\ (o.registered => Coming(s, c)')
    BY <1>3, <1>10, <1>11 DEF Reading
  <2>3. /\ p.at # "drain" /\ p.got <= p.len /\ p.len >= 1
        /\ p.got < p.len => b = r1
    BY <1>2, <1>5, <1>6, <1>9, <1>12
  <2>4. ~o.faulted => /\ o.registered
                      /\ o.error => o.fin /\ c = sent[s]'
                      /\ o.eof => o.fin /\ r1 = sent[s]'
    BY <1>3, <1>10, <1>11, <1>12 DEF Reading
  <2>5. QED BY <1>11, <2>1, <2>2, <2>3, <2>4 DEF Reading
<1>14. Stream(s)'
  BY <1>0, <1>8, <1>11, <1>13 DEF Stream
<1>15. QED BY <1>1, <1>8, <1>9, <1>10, <1>14, OwnStream

\* What is left of completions once the fins are dropped carries the same.
LEMMA WithoutFins ==
  ASSUME NEW q \in Seq(Wc), NEW a, NEW b, NEW E, Carries(q, a, b, E)
  PROVE  Carries(Select(q, HasData(q)), a, b, {})
<1>1. HasData(q) \in SUBSET DOMAIN q /\ Len(q) \in Nat
  BY DEF HasData
<1>2. /\ \A i \in DOMAIN q \ HasData(q) : q[i].data = <<>>
      /\ \A i \in HasData(q) : q[i].data = <<>> => E \subseteq {}
  BY DEF HasData
<1>3. Tiles(q, HasData(q), a, b, {})
  BY <1>1, <1>2, TilesDrop DEF Carries
<1> HIDE DEF Wc
<1>4. QED BY <1>1, <1>3, TilesSelect

\* What read() takes from the completions passed.  r units were read before it looks
\* at them, b in the end of the buffers, c that of the completions.
LEMMA GetWcStream ==
  ASSUME IInv, StreamInv, NEW s \in Sockets, get_wc(s)
  PROVE  StreamInv'
<1> DEFINE w == sock[s].wc
           q == sock[s].buffers
           data == Select(w, HasData(w))
           m == reader[s].len - reader[s].got
           n == Taken(data, m)
           rest == Rest(data, n)
           left == q \o rest
           fin == Len(data) < Len(w)
           error == sock[s].error \/ fin
           eof == sock[s].eof \/ (error /\ reader[s].got + n = 0)
           notify == NotifyAgain(sock[s], left)
           o == [sock[s] EXCEPT !.wc = <<>>, !.buffers = left, !.error = error,
                   !.notify_fd = notify, !.eof = eof]
           u == received[s] \o SubSeq(Data(data), 1, n)
<1>1. /\ sock' = [sock EXCEPT ![s] = o] /\ reader' = [reader EXCEPT ![s] = Idle]
      /\ UNCHANGED cqVars /\ sent' = sent /\ reader[s].at = "cqe"
  BY DEF get_wc
<1>2. received' = [received EXCEPT ![s] = u]
  BY DEF get_wc
<1>3. /\ w \in Seq(Wc) /\ q \in Seq(Wc) /\ sock[s] \in Socket /\ sock[s].life = "open"
      /\ m \in Int /\ reader[s].got \in Nat /\ reader[s].len \in Nat
      /\ received[s] \in Seq(Nat) /\ sent[s] \in Nat
  <2>1. reader[s].got \in Nat /\ reader[s].len \in Nat
    BY SocketTypes DEF Reader
  <2>2. received[s] \in Seq(Nat) /\ sent[s] \in Nat
    BY RxPoolAssumption DEF IInv, TypeOK, StreamInv
  <2>3. QED BY <1>1, <2>1, <2>2, SocketTypes
<1>4. data \in Seq(Wc)
  <2> HIDE DEF w
  <2>1. QED BY <1>3, WithData
<1> HIDE DEF data
<1>5. n \in Int
  BY <1>3, <1>4, TakenType
<1>6. SubSeq(Data(data), 1, n) \in Seq(Nat)
  <2>1. Data(data) \in Seq(Nat) /\ Len(Data(data)) \in Nat /\ n <= Len(Data(data))
    BY <1>3, <1>4, DataType DEF Taken
  <2>2. \A j \in 1 .. n : Data(data)[j] \in Nat
    BY <1>5, <2>1
  <2> HIDE DEF n
  <2>3. QED BY <1>5, <2>2, SubSeqProperties
<1> HIDE DEF n
<1>7. rest \in Seq(Wc)
  BY <1>4, <1>5, RestProps
<1> HIDE DEF rest
<1>8. left \in Seq(Wc) /\ u \in Seq(Nat)
  BY <1>3, <1>6, <1>7, ConcatProperties
<1> HIDE DEF left, u
<1>9. notify \in BOOLEAN /\ error \in BOOLEAN /\ eof \in BOOLEAN
  BY <1>3 DEF NotifyAgain, Socket
<1> HIDE DEF notify, error, eof
<1>10. /\ o \in Socket /\ o.buffers = left /\ o.wc = <<>> /\ o.life = "open"
       /\ o.registered = sock[s].registered /\ o.faulted = sock[s].faulted
       /\ o.error = error /\ o.eof = eof /\ o.fin = sock[s].fin
  <2>1. <<>> \in Seq(Wc)
    OBVIOUS
  <2>2. QED BY <1>3, <1>8, <1>9, <2>1 DEF Socket
<1>11. Idle \in Reader /\ Idle.at = "idle"
  BY DEF Idle, Reader
<1> HIDE DEF o
<1>12. ASSUME s \notin ZeroCopy PROVE Stream(s)'
  <2>1. PICK r \in Nat, b \in Nat, c \in Nat : received[s] = Units(0, r) /\ Reading(s, r, b, c)
    BY <1>3, <1>12 DEF StreamInv, Stream
  <2>2. /\ Carries(q, r, b, {}) /\ Carries(w, b, c, End(s))
        /\ reader[s].got <= reader[s].len /\ reader[s].len >= 1
        /\ reader[s].got < reader[s].len => b = r
    BY <1>1, <2>1 DEF Reading
  <2>3. /\ r <= b /\ b <= c
        /\ sock[s].registered => c <= sent[s]
    BY <2>1, StreamOrder
  <2>4. Carries(data, b, c, {})
    <3> HIDE DEF w
    <3>1. QED BY <1>3, <2>2, WithoutFins DEF data
  <2>5. m \in Nat /\ n \in Nat /\ n <= c - b /\ n <= m /\ (n < m => n = c - b)
    <3>1. m \in Nat
      BY <1>3, <2>2
    <3> HIDE DEF m
    <3>2. QED BY <1>4, <2>4, <3>1, TakenUnits DEF n
  <2>6. n = 0 \/ b = r
    BY <1>3, <2>2, <2>5
  <2>7. PICK r1 \in Nat : r1 = r + n
    BY <2>5
  <2>8. u = Units(0, r1)
    <3>1. Data(data) = Units(b, c)
      BY <1>4, <2>4, CarriesData
    <3>2. SubSeq(Data(data), 1, n) = Units(b, b + n)
      <4>1. n \in Nat /\ b <= c /\ b + n <= c
        BY <2>3, <2>5
      <4>2. SubSeq(Units(b, c), 1, n) = Units(b, b + n)
        BY <4>1, UnitsFirst
      <4>3. QED BY <3>1, <4>2
    <3>3. Units(b, b + n) = Units(r, r1)
      <4>1. CASE n = 0
        <5>1. b + n = b /\ r1 = r
          BY <2>7, <4>1
        <5>2. QED BY <5>1, UnitsNone
      <4>2. CASE b = r
        BY <2>7, <4>2
      <4>3. QED BY <2>6, <4>1, <4>2
    <3>4. 0 \in Nat /\ 0 <= r /\ r <= r1
      BY <2>5, <2>7
    <3>5. Units(0, r) \o Units(r, r1) = Units(0, r1)
      BY <3>4, UnitsConcat
    <3>6. QED BY <2>1, <3>2, <3>3, <3>5 DEF u
  <2>9. Carries(left, r1, c, {})
    <3>1. Carries(rest, b + n, c, {})
      BY <1>4, <2>4, <2>5, RestCarries DEF rest
    <3>2. CASE n = 0
      <4>1. b + n = b /\ r1 = r
        BY <2>7, <3>2
      <4> HIDE DEF q
      <4>2. QED BY <1>3, <1>7, <2>2, <3>1, <4>1, CarriesConcat DEF left
    <3>3. CASE b = r
      <4> HIDE DEF q
      <4>1. q = <<>>
        BY <1>3, <2>2, <3>3, CarriesNone
      <4>2. left = rest
        BY <1>7, <4>1, ConcatEmptySeq DEF left
      <4>3. QED BY <2>7, <3>1, <3>3, <4>2
    <3>4. QED BY <2>6, <3>2, <3>3
  <2>10. ASSUME fin, sock[s].registered PROVE sock[s].fin /\ c = sent[s]
    <3>1. Len(data) # Len(w)
      <4>1. Len(data) \in Nat /\ Len(w) \in Nat
        BY <1>3, <1>4
      <4>2. QED BY <2>10, <4>1
    <3> HIDE DEF w
    <3>2. PICK e \in End(s) : e \in Nat /\ e <= c
      BY <1>3, <2>2, <3>1, FinAtEnd DEF data
    <3>3. sock[s].fin /\ e = sent[s]
      BY <3>2 DEF End
    <3>4. QED BY <1>3, <2>3, <2>10, <3>2, <3>3
  <2>11. ~sock[s].faulted => /\ sock[s].registered
                             /\ error => sock[s].fin /\ c = sent[s]
    BY <2>1, <2>10 DEF Reading, error
  <2>12. ASSUME ~sock[s].faulted, eof PROVE sock[s].fin /\ r1 = sent[s]
    <3>1. CASE sock[s].eof
      <4>1. sock[s].fin /\ r = sent[s] /\ c <= sent[s]
        BY <2>1, <2>3, <2>12, <3>1 DEF Reading
      <4>2. n = 0
        BY <2>3, <2>5, <4>1
      <4>3. QED BY <2>7, <4>1, <4>2
    <3>2. CASE error /\ reader[s].got + n = 0
      <4>1. sock[s].fin /\ c = sent[s]
        BY <2>11, <2>12, <3>2
      <4>2. n = 0 /\ reader[s].got = 0
        BY <1>3, <2>5, <3>2
      <4>3. b = r /\ n < m
        BY <1>3, <2>2, <4>2
      <4>4. r1 = c
        BY <2>5, <2>7, <4>2, <4>3
      <4>5. QED BY <4>1, <4>4
    <3>3. QED BY <2>12, <3>1, <3>2 DEF eof
  <2> HIDE DEF m, w, q, fin
  <2>13. /\ sock'[s] = o /\ reader'[s] = Idle /\ received'[s] = u /\ sent'[s] = sent[s]
         /\ End(s)' = End(s) /\ \A k : Coming(s, k) => Coming(s, k)'
    <3>1. UNCHANGED cqVars /\ sent' = sent /\ o \in Socket /\ Idle \in Reader /\ u \in Seq(Nat)
          /\ o.fin = sock[s].fin
      BY <1>1, <1>8, <1>10, <1>11
    <3>2. sock' = [sock EXCEPT ![s] = o] /\ reader' = [reader EXCEPT ![s] = Idle]
          /\ received' = [received EXCEPT ![s] = u]
      BY <1>1, <1>2
    <3>3. QED BY <3>1, <3>2, OwnParts
  <2>14. Reading(s, r1, c, c)'
    <3>1. Carries(o.buffers, r1, c, {}) /\ Carries(o.wc, c, c, End(s)')
      BY <1>10, <2>9, CarriesNothing
    <3>2. o.registered => Coming(s, c)'
      BY <1>10, <2>1, <2>13 DEF Reading, Coming
    <3>3. ~o.faulted => /\ o.registered
                        /\ o.error => o.fin /\ c = sent[s]'
                        /\ o.eof => o.fin /\ r1 = sent[s]'
      BY <1>10, <2>11, <2>12, <2>13
    <3>4. QED BY <1>11, <2>13, <3>1, <3>2, <3>3 DEF Reading
  <2>15. QED BY <2>8, <2>13, <2>14 DEF Stream
<1> HIDE DEF w, q, m, fin
<1>13. QED BY <1>1, <1>2, <1>8, <1>10, <1>11, <1>12, OwnStream

-------------------------------------------------------------------------------
LEMMA StreamInit == Init => StreamInv
<1> SUFFICES ASSUME Init PROVE StreamInv
  OBVIOUS
<1>1. /\ received = [s \in Sockets |-> <<>>] /\ rx_cq = <<>> /\ batch = <<>>
      /\ sent = [s \in Sockets |-> 0]
      /\ \A s \in Sockets : sock[s] = NewSocket /\ reader[s] = Idle
  BY DEF Init
<1>2. received \in [Sockets -> Seq(Nat)] /\ NoData(rx_cq) /\ NoData(batch)
  <2>1. <<>> \in Seq(Nat)
    OBVIOUS
  <2>2. received \in [Sockets -> Seq(Nat)]
    BY <1>1, <2>1
  <2>3. DOMAIN <<>> = {}
    OBVIOUS
  <2>4. QED BY <1>1, <2>2, <2>3 DEF NoData
<1>3. /\ NewSocket.wc = <<>> /\ NewSocket.buffers = <<>> /\ NewSocket.registered
      /\ ~NewSocket.error /\ ~NewSocket.eof /\ Idle.at = "idle"
  BY DEF NewSocket, Idle
<1>4. ASSUME NEW s \in Sockets PROVE Stream(s)
  <2>1. Coming(s, 0)
    BY <1>1, CarriesNothing DEF Coming
  <2>2. Reading(s, 0, 0, 0)
    BY <1>1, <1>3, <2>1, CarriesNothing DEF Reading
  <2>3. received[s] = Units(0, 0)
    BY <1>1, UnitsNone
  <2>4. QED BY <2>2, <2>3 DEF Stream
<1>5. QED BY <1>2, <1>4 DEF StreamInv

LEMMA StreamStep == IInv /\ StreamInv /\ [Next]_vars => StreamInv'
<1> SUFFICES ASSUME IInv, StreamInv, [Next]_vars PROVE StreamInv'
  OBVIOUS
<1>1. CASE poll_cq \/ handle_rx \/ idle \/ wake \/ polling_stop
  BY <1>1, PollStream, HandleStream, IdleStream, WakeStream
<1>2. CASE \E s \in Sockets : handle_async_event(s)
  BY <1>2, AsyncStream
<1>3. CASE \E s \in Sockets, n \in 1 .. 2 : receive(s, n)
  BY <1>3, ReceiveStream
<1>4. CASE \E s \in Sockets, ok \in BOOLEAN : receive_fin(s, ok)
  BY <1>4, ReceiveFinStream
<1>5. CASE \E s \in Sockets, len \in 1 .. 2 : read_buffers(s, len)
  BY <1>5, ReadBuffersStream
<1>6. CASE \E s \in Sockets : \/ connected(s) \/ read_too_early(s) \/ recheck(s) \/ get_wc(s)
                             \/ zero_copy_read(s) \/ erase_qpn(s) \/ drain(s)
  BY <1>6, ConnectedStream, RecheckStream, GetWcStream, ZeroCopyStream, EraseStream, DrainStream
<1>7. CASE UNCHANGED vars
  <2>1. UNCHANGED <<rx_cq, batch, sock, reader, sent, received>>
    BY <1>7 DEF vars, cqVars
  <2>2. received' \in [Sockets -> Seq(Nat)] /\ NoData(rx_cq)' /\ NoData(batch)'
    BY <2>1 DEF StreamInv, NoData
  <2>3. ASSUME NEW t \in Sockets \ ZeroCopy PROVE Stream(t)'
    <3>1. Stream(t)
      BY DEF StreamInv
    <3>2. QED BY <2>1, <3>1, SameStream
  <2>4. QED BY <2>2, <2>3 DEF StreamInv
<1>8. QED BY <1>1, <1>2, <1>3, <1>4, <1>5, <1>6, <1>7 DEF Next

\* What a user has read is what its peer has sent, from the first unit on and without
\* a gap, however completions and calls of read() interleave; and unless the transport
\* failed, a socket that reports the end (ECONNRESET) has delivered everything sent
\* before it (polling, pass_wc, read, read_buffers, get_wc).
THEOREM ReadsFollowTheStream == Spec => []ReadInOrder
<1>1. ASSUME IInv, StreamInv PROVE ReadInOrder
  <2> SUFFICES ASSUME NEW s \in Sockets \ ZeroCopy
               PROVE  /\ received[s] = [i \in 1 .. Len(received[s]) |-> i]
                      /\ sock[s].eof /\ sock[s].life = "open" /\ ~sock[s].faulted =>
                           Len(received[s]) = sent[s]
    BY DEF ReadInOrder
  <2>1. PICK r \in Nat, b \in Nat, c \in Nat :
          received[s] = Units(0, r) /\ (sock[s].life = "open" => Reading(s, r, b, c))
    BY <1>1 DEF StreamInv, Stream
  <2>2. /\ received[s] \in Seq(Nat) /\ Len(received[s]) = r
        /\ \A j \in 1 .. r : received[s][j] = j
    <3>1. 0 \in Nat /\ 0 <= r /\ r - 0 = r /\ \A j \in 1 .. r : 0 + j = j
      OBVIOUS
    <3>2. /\ Units(0, r) \in Seq(Nat) /\ Len(Units(0, r)) = r - 0
          /\ \A j \in 1 .. r - 0 : Units(0, r)[j] = 0 + j
      BY <3>1, UnitsProps
    <3>3. QED BY <2>1, <3>1, <3>2
  <2>3. received[s] = [i \in 1 .. Len(received[s]) |-> received[s][i]]
    BY <2>2
  <2>4. received[s] = [i \in 1 .. Len(received[s]) |-> i]
    BY <2>2, <2>3
  <2>5. sock[s].eof /\ sock[s].life = "open" /\ ~sock[s].faulted => r = sent[s]
    BY <2>1 DEF Reading
  <2>6. QED BY <2>2, <2>4, <2>5
<1>2. QED BY <1>1, Invariant, StreamInit, StreamStep, PTL DEF Spec
=============================================================================
