-------------------------- MODULE FileEventsProofs --------------------------
(* Theorems of FileEvents: for any finite set of descriptors and any number of    *)
(* files the table and the epoll set agree, no readiness is lost, and the two     *)
(* assertions fail only where the table is wrong or its last place is asked for.  *)
(* A step of a user or of the kernel leaves the loop where it is, so there one    *)
(* fact about what is still to be reported does for every place in the loop.      *)
EXTENDS FileEvents, FiniteSetTheorems, SequenceTheorems, TLAPS

\* e of fd will be reported, or its handler has been called since it is ready.
Seen(fd, e) == e \in edge[fd] \/ ~epoll[fd].et \/ e \in told[fd]

\* A closed file has left the epoll set.
ClosedInv == \A fd \in Fds : file[fd] = 0 => epoll[fd].mask = {}

\* When the read part of a report is behind the loop, what was there to be read has
\* been handled, or has been registered or become ready since.
HandledInv ==
  pc \in {"reading", "read"} =>
    \/ at.fd \in spoiled \/ Seen(at.fd, "READABLE")
    \/ "READABLE" \notin at.mask \cap file_events[at.fd].mask \cap ready[at.fd]

IInv ==
  TypeOK /\ ClosedInv /\ TablesAgree /\ AssertionsHold /\ NoLostEdge /\ HandledInv

\* What a step does to a readiness that is registered: it will be reported, or it
\* was there before and has not been made worse.
EdgeStep ==
  \A fd \in Fds \ spoiled' : \A e \in file_events[fd].mask' \cap ready[fd]' :
    \/ Seen(fd, e)'
    \/ /\ fd \notin spoiled /\ e \in file_events[fd].mask \cap ready[fd]
       /\ Seen(fd, e) => Seen(fd, e)'

-------------------------------------------------------------------------------
(* The sizes of the table: the least counterexample takes the place of an        *)
(* induction.                                                                    *)

LEMMA LeastOf ==
  ASSUME NEW B \in SUBSET Nat, B # {}
  PROVE  \E n \in B : \A m \in B : n <= m
<1> DEFINE D(n) == 0 .. n
           T == {D(n) : n \in B}
<1>1. T \subseteq FiniteSubsetsOf(Nat) /\ T # {}
  <2>1. ASSUME NEW n \in B PROVE D(n) \in SUBSET Nat /\ IsFiniteSet(D(n))
    BY FS_Interval
  <2> HIDE DEF D
  <2>2. QED BY <2>1 DEF FiniteSubsetsOf
<1>2. IsWellFoundedOn(StrictSubsetOrdering(Nat), FiniteSubsetsOf(Nat))
  BY FS_StrictSubsetOrderingWellFounded
<1>3. PICK t \in T : \A u \in T : ~ (<<u, t>> \in StrictSubsetOrdering(Nat))
  <2> HIDE DEF T
  <2> QED BY <1>1, <1>2, WFMin
<1>4. PICK n \in B : t = D(n)
  OBVIOUS
<1>5. ASSUME NEW m \in B, ~ (n <= m) PROVE FALSE
  <2>1. m \in Nat /\ n \in Nat
    OBVIOUS
  <2>2. D(m) \subseteq D(n) /\ n \in D(n) /\ n \notin D(m)
    BY <1>5, <2>1
  <2>3. D(m) \in SUBSET Nat /\ D(n) \in SUBSET Nat /\ D(m) \in T
    OBVIOUS
  <2> HIDE DEF D, T
  <2>4. <<D(m), t>> \in StrictSubsetOrdering(Nat)
    BY <1>4, <2>2, <2>3 DEF StrictSubsetOrdering
  <2>5. QED BY <1>3, <2>3, <2>4
<1>6. QED BY <1>5

\* There is a function that the recursion of Sizes describes: the least length that
\* has no prefix of it is not 0, and the prefix before it can be extended.
LEMMA SizesAre ==
  ASSUME NEW n \in Nat \ {0}
  PROVE  /\ Sizes(n) \in [Nat -> Nat] /\ Sizes(n)[0] = n
         /\ \A k \in Nat : Sizes(n)[k + 1] = 4 * Sizes(n)[k]
<1> DEFINE Prefix(m) == {g \in [0 .. m -> Nat] :
                           g[0] = n /\ \A k \in 0 .. m : k # 0 => g[k] = 4 * g[k - 1]}
           Rec(f) == f = [k \in Nat |-> IF k = 0 THEN n ELSE 4 * f[k - 1]]
<1>1. \A m \in Nat : Prefix(m) # {}
  <2> DEFINE B == {m \in Nat : Prefix(m) = {}}
  <2>1. SUFFICES ASSUME B # {} PROVE FALSE
    OBVIOUS
  <2>2. PICK m \in B : \A k \in B : m <= k
    BY <2>1, LeastOf
  <2>3. m # 0
    <3>1. [k \in 0 .. 0 |-> n] \in Prefix(0)
      OBVIOUS
    <3>2. QED BY <3>1
  <2>4. m - 1 \in Nat /\ m - 1 \notin B
    <3> HIDE DEF Prefix
    <3>1. m \in Nat /\ m - 1 \in Nat /\ ~ (m <= m - 1)
      BY <2>2, <2>3
    <3>2. QED BY <2>2, <3>1
  <2>5. PICK g \in [0 .. m - 1 -> Nat] :
           g[0] = n /\ \A k \in 0 .. m - 1 : k # 0 => g[k] = 4 * g[k - 1]
    BY <2>4
  <2> DEFINE h == [k \in 0 .. m |-> IF k = m THEN 4 * g[m - 1] ELSE g[k]]
  <2>6. h \in [0 .. m -> Nat]
    <3>1. g[m - 1] \in Nat /\ \A k \in 0 .. m : k # m => g[k] \in Nat
      BY <2>4, <2>5
    <3>2. QED BY <3>1
  <2>7. h[0] = n
    BY <2>3, <2>5
  <2>8. ASSUME NEW k \in 0 .. m, k # 0 PROVE h[k] = 4 * h[k - 1]
    <3>1. k - 1 \in 0 .. m /\ k - 1 # m
      BY <2>8
    <3>2. h[k - 1] = g[k - 1]
      BY <3>1
    <3>3. CASE k = m
      BY <3>2, <3>3
    <3>4. CASE k # m
      BY <2>5, <2>8, <3>2, <3>4
    <3>5. QED BY <3>3, <3>4
  <2>9. h \in Prefix(m)
    BY <2>6, <2>7, <2>8
  <2>10. QED BY <2>2, <2>9
<1>2. ASSUME NEW i \in Nat, NEW j \in Nat, i <= j,
             NEW g \in Prefix(i), NEW h \in Prefix(j)
      PROVE  g[i] = h[i]
  <2> DEFINE B == {k \in 0 .. i : g[k] # h[k]}
  <2>1. SUFFICES ASSUME B # {} PROVE FALSE
    <3>1. i \in 0 .. i
      OBVIOUS
    <3> HIDE DEF Prefix
    <3>2. QED BY <3>1
  <2>2. B \in SUBSET Nat
    OBVIOUS
  <2>3. PICK k \in B : \A l \in B : k <= l
    BY <2>1, <2>2, LeastOf
  <2>4. k # 0
    OBVIOUS
  <2>5. k - 1 \in 0 .. i /\ k - 1 \notin B /\ k \in 0 .. i /\ k \in 0 .. j
    BY <1>2, <2>3, <2>4
  <2>6. g[k] = 4 * g[k - 1] /\ h[k] = 4 * h[k - 1] /\ g[k - 1] = h[k - 1]
    BY <2>4, <2>5
  <2>7. QED BY <2>6
<1> DEFINE p == [m \in Nat |-> CHOOSE g : g \in Prefix(m)]
           f == [k \in Nat |-> p[k][k]]
<1>3. ASSUME NEW m \in Nat PROVE p[m] \in Prefix(m)
  <2>1. \E g : g \in Prefix(m)
    BY <1>1
  <2> HIDE DEF Prefix
  <2>2. QED BY <2>1
<1>4. Rec(f)
  <2>1. ASSUME NEW k \in Nat PROVE f[k] = IF k = 0 THEN n ELSE 4 * f[k - 1]
    <3>1. p[k] \in Prefix(k) /\ f[k] = p[k][k]
      BY <1>3
    <3>2. CASE k = 0
      <4> HIDE DEF p, f
      <4> QED BY <3>1, <3>2
    <3>3. CASE k # 0
      <4>1. k - 1 \in Nat /\ k - 1 <= k
        BY <3>3
      <4>2. p[k - 1] \in Prefix(k - 1) /\ f[k - 1] = p[k - 1][k - 1]
        BY <1>3, <4>1
      <4>3. p[k - 1][k - 1] = p[k][k - 1]
        <5> DEFINE g == p[k - 1]  h == p[k]
                   r == [l \in 0 .. k - 1 |-> h[l]]
        <5>1. h \in Prefix(k) /\ g \in Prefix(k - 1)
          BY <3>1, <4>2
        <5>2. r \in Prefix(k - 1)
          <6> HIDE DEF h, p
          <6>1. /\ h \in [0 .. k -> Nat] /\ h[0] = n
                /\ \A l \in 0 .. k : l # 0 => h[l] = 4 * h[l - 1]
            BY <5>1
          <6>2. r \in [0 .. k - 1 -> Nat] /\ r[0] = n
            BY <4>1, <6>1
          <6>3. ASSUME NEW l \in 0 .. k - 1, l # 0 PROVE r[l] = 4 * r[l - 1]
            BY <4>1, <6>1, <6>3
          <6>4. QED BY <6>2, <6>3
        <5>3. g[k - 1] = r[k - 1]
          <6> HIDE DEF Prefix, g, r
          <6> QED BY <1>2, <4>1, <5>1, <5>2
        <5>4. r[k - 1] = h[k - 1]
          BY <4>1
        <5>5. QED BY <5>3, <5>4
      <4>4. p[k][k] = 4 * p[k][k - 1]
        <5> HIDE DEF p
        <5> QED BY <3>1, <3>3
      <4> HIDE DEF p, f, Prefix
      <4>5. QED BY <3>1, <3>3, <4>2, <4>3, <4>4
    <3>4. QED BY <3>2, <3>3
  <2>2. f = [k \in Nat |-> f[k]]
    OBVIOUS
  <2> HIDE DEF f
  <2>3. QED BY <2>1, <2>2
<1> HIDE DEF f
<1>5. Sizes(n) = CHOOSE s : Rec(s)
  BY DEF Sizes
<1>6. Rec(Sizes(n))
  <2> HIDE DEF Rec
  <2> QED BY <1>4, <1>5
<1> DEFINE s == Sizes(n)
<1> HIDE DEF s
<1>7. s = [k \in Nat |-> IF k = 0 THEN n ELSE 4 * s[k - 1]]
  BY <1>6 DEF s
<1>8. s[0] = n
  BY <1>7
<1>9. ASSUME NEW k \in Nat PROVE s[k + 1] = 4 * s[k]
  <2>1. k + 1 \in Nat /\ k + 1 # 0 /\ (k + 1) - 1 = k
    OBVIOUS
  <2>2. s[k + 1] = 4 * s[(k + 1) - 1]
    BY <1>7, <2>1
  <2>3. QED BY <2>1, <2>2
<1>10. \A k \in Nat : s[k] \in Nat
  <2> DEFINE B == {k \in Nat : s[k] \notin Nat}
  <2>1. SUFFICES ASSUME B # {} PROVE FALSE
    OBVIOUS
  <2>2. PICK k \in B : \A l \in B : k <= l
    BY <2>1, LeastOf
  <2>3. k # 0
    BY <1>8
  <2>4. k - 1 \in Nat /\ k - 1 \notin B
    BY <2>2, <2>3
  <2>5. s[k - 1] \in Nat /\ s[(k - 1) + 1] = 4 * s[k - 1] /\ (k - 1) + 1 = k
    BY <1>9, <2>4
  <2>6. s[k] = 4 * s[k - 1]
    BY <2>5
  <2>7. QED BY <2>5, <2>6
<1>11. s \in [Nat -> Nat]
  <2>1. s = [k \in Nat |-> s[k]]
    BY <1>7
  <2>2. QED BY <1>10, <2>1
<1>12. QED BY <1>8, <1>9, <1>11 DEF s

\* Four times as large is beyond the next number.
LEMMA SizesGrow ==
  ASSUME NEW n \in Nat \ {0}, NEW k \in Nat
  PROVE  Sizes(n)[k] \in Nat /\ Sizes(n)[k] > k /\ Sizes(n)[k] >= n
<1> DEFINE s == Sizes(n)
           B == {j \in Nat : ~ (s[j] > j /\ s[j] >= n)}
<1>1. /\ s \in [Nat -> Nat] /\ s[0] = n
      /\ \A j \in Nat : s[j + 1] = 4 * s[j]
  BY SizesAre
<1> HIDE DEF s
<1>2. SUFFICES ASSUME B # {} PROVE FALSE
  BY <1>1 DEF s
<1>3. PICK j \in B : \A l \in B : j <= l
  BY <1>2, LeastOf
<1>4. j # 0
  BY <1>1
<1>5. j - 1 \in Nat /\ j - 1 \notin B
  BY <1>3, <1>4
<1>6. s[j - 1] > j - 1 /\ s[j - 1] >= n /\ s[j - 1] \in Nat
  BY <1>1, <1>5
<1>7. s[(j - 1) + 1] = 4 * s[j - 1] /\ (j - 1) + 1 = j
  BY <1>1, <1>5
<1>8. s[j] = 4 * s[j - 1]
  BY <1>7
<1>9. s[j] > j /\ s[j] >= n
  BY <1>6, <1>8
<1>10. QED BY <1>9

LEMMA QuadrupledIs ==
  ASSUME NEW n \in Nat \ {0}, NEW fd \in Nat
  PROVE  Quadrupled(n, fd) \in Nat /\ Quadrupled(n, fd) >= fd /\ Quadrupled(n, fd) >= n
<1> DEFINE s == Sizes(n)
           B == {k \in Nat : fd <= s[k]}
           P(k) == fd <= s[k] /\ \A j \in 0 .. k - 1 : fd > s[j]
<1>1. \A k \in Nat : s[k] \in Nat /\ s[k] > k /\ s[k] >= n
  BY SizesGrow
<1>2. Quadrupled(n, fd) = s[CHOOSE k \in 0 .. fd : P(k)]
  BY DEF Quadrupled
<1> HIDE DEF s
<1>3. fd \in B
  BY <1>1
<1>4. PICK k \in B : \A l \in B : k <= l
  BY <1>3, LeastOf
<1>5. k \in 0 .. fd
  BY <1>3, <1>4
<1>6. ASSUME NEW j \in 0 .. k - 1 PROVE fd > s[j]
  <2>1. j \in Nat /\ ~ (k <= j) /\ s[j] \in Nat
    BY <1>1, <1>5
  <2>2. j \notin B
    BY <1>4, <2>1
  <2>3. QED BY <2>1, <2>2
<1>7. P(k)
  BY <1>4, <1>6
<1> DEFINE c == CHOOSE l \in 0 .. fd : P(l)
<1>8. c \in 0 .. fd /\ P(c)
  <2> HIDE DEF P
  <2> QED BY <1>5, <1>7
<1> HIDE DEF c
<1>9. c \in Nat /\ fd <= s[c]
  BY <1>8
<1>10. QED BY <1>1, <1>2, <1>9 DEF c

\* The new table is no smaller than the old and leaves out no number below fd.
LEMMA NewSizeIs ==
  ASSUME nevent \in Nat \ {0}, NEW fd \in Nat
  PROVE  /\ NewSize(fd) \in Nat \ {0} /\ NewSize(fd) >= nevent /\ NewSize(fd) >= fd
         /\ fd < nevent => NewSize(fd) = nevent
<1>1. CASE fd >= nevent
  <2>1. 4 * nevent \in Nat \ {0} /\ 4 * nevent >= nevent
    OBVIOUS
  <2>2. /\ Quadrupled(4 * nevent, fd) \in Nat
        /\ Quadrupled(4 * nevent, fd) >= fd /\ Quadrupled(4 * nevent, fd) >= 4 * nevent
    BY <2>1, QuadrupledIs
  <2>3. NewSize(fd) = Quadrupled(4 * nevent, fd)
    BY <1>1 DEF NewSize
  <2>4. QED BY <1>1, <2>1, <2>2, <2>3
<1>2. CASE ~ (fd >= nevent)
  BY <1>2 DEF NewSize
<1>3. QED BY <1>1, <1>2

-------------------------------------------------------------------------------
(* The steps that leave the loop where it is, or stop it.                        *)

TableInv == TypeOK /\ ClosedInv /\ TablesAgree /\ AssertionsHold
Kept == UNCHANGED loop \/ (pc' \in {"aborted", "overrun"} /\ UNCHANGED <<fired, at>>)

\* What is lost of no readiness registered is lost nowhere in the loop.
LEMMA EdgesKept ==
  ASSUME IInv, Kept, EdgeStep, spoiled \subseteq spoiled'
  PROVE  NoLostEdge' /\ HandledInv'
<1>1. CASE UNCHANGED loop
  <2>1. pc' = pc /\ at' = at /\ fired' = fired
    BY <1>1 DEF loop
  <2>2. ASSUME NEW fd \in Fds \ spoiled', NEW e \in file_events[fd].mask' \cap ready[fd]',
               ~ Seen(fd, e)'
        PROVE  \/ \E i \in DOMAIN fired : fired[i].fd = fd /\ e \in fired[i].mask
               \/ at.fd = fd /\ e \in at.mask /\ pc \in {"reading", "read"}
               \/ pc \in {"aborted", "overrun"}
    <3>1. /\ fd \in Fds \ spoiled /\ e \in file_events[fd].mask \cap ready[fd]
          /\ ~ Seen(fd, e)
      BY <2>2 DEF EdgeStep
    <3>2. QED BY <3>1 DEF IInv, NoLostEdge, Seen
  <2>3. NoLostEdge'
    BY <2>1, <2>2 DEF NoLostEdge, Seen
  <2>4. HandledInv'
    <3>1. SUFFICES ASSUME pc \in {"reading", "read"}, at.fd \notin spoiled',
                          "READABLE" \in at.mask \cap file_events[at.fd].mask' \cap ready[at.fd]'
                   PROVE  Seen(at.fd, "READABLE")'
      BY <2>1 DEF HandledInv, Seen
    <3>2. at.fd \in Fds \ spoiled'
      BY <3>1 DEF IInv, TypeOK
    <3>3. \/ Seen(at.fd, "READABLE")'
          \/ /\ at.fd \notin spoiled /\ "READABLE" \in file_events[at.fd].mask \cap ready[at.fd]
             /\ Seen(at.fd, "READABLE") => Seen(at.fd, "READABLE")'
      BY <2>1, <3>1, <3>2 DEF EdgeStep, Seen
    <3>4. QED BY <3>1, <3>3 DEF IInv, HandledInv
  <2>5. QED BY <2>3, <2>4
<1>2. CASE pc' \in {"aborted", "overrun"}
  BY <1>2 DEF NoLostEdge, HandledInv
<1>3. QED BY <1>1, <1>2 DEF Kept

\* A descriptor whose entry and registration stay as they are agrees as before.
Same(fd) ==
  /\ file_events'[fd] = file_events[fd] /\ epoll'[fd] = epoll[fd]
  /\ file'[fd] = file[fd]

Agrees(fd) ==
  LET event == file_events[fd]
  IN  /\ epoll[fd].mask = event.mask
      /\ event.read_cb.of = IF "READABLE" \in event.mask THEN file[fd] ELSE 0
      /\ event.write_cb.of = IF "WRITABLE" \in event.mask THEN file[fd] ELSE 0

LEMMA AgreementOf ==
  TablesAgree <=> \A fd \in Fds \ spoiled : Agrees(fd)
BY DEF TablesAgree, Agrees

\* One descriptor changes, the others agree as before.
LEMMA OneChanges ==
  ASSUME TablesAgree, ClosedInv, spoiled \subseteq spoiled', NEW fd \in Fds,
         \A d \in Fds \ {fd} : Same(d),
         fd \in spoiled' \/ Agrees(fd)',
         file'[fd] = 0 => epoll'[fd].mask = {}
  PROVE  TablesAgree' /\ ClosedInv'
<1>1. ASSUME NEW d \in Fds, d \notin spoiled' PROVE Agrees(d)'
  <2>1. CASE d = fd
    BY <1>1, <2>1
  <2>2. CASE d # fd
    <3>1. Same(d) /\ Agrees(d)
      BY <1>1, <2>2, AgreementOf
    <3>2. QED BY <3>1 DEF Same, Agrees
  <2>3. QED BY <2>1, <2>2
<1>2. TablesAgree'
  BY <1>1 DEF TablesAgree, Agrees
<1>3. ClosedInv'
  BY DEF ClosedInv, Same
<1>4. QED BY <1>2, <1>3

LEMMA FdsAre == \A fd \in Fds : fd \in Nat
BY FileEventsAssumption

\* open
LEMMA OpenStep ==
  ASSUME IInv, NEW fd \in Fds, open(fd)
  PROVE  TableInv' /\ EdgeStep /\ Kept
<1> USE DEF IInv
<1>1. /\ file \in [Fds -> 0 .. MaxOpens] /\ opens \in 0 .. MaxOpens /\ MaxOpens \in Nat
      /\ opens < MaxOpens /\ file' = [file EXCEPT ![fd] = opens + 1] /\ file[fd] = 0
  BY FileEventsAssumption DEF TypeOK, open
<1>2. /\ file' \in [Fds -> 0 .. MaxOpens] /\ opens' \in 0 .. MaxOpens
      /\ file'[fd] # 0
  BY <1>1 DEF open
<1>3. TypeOK'
  BY <1>2 DEF TypeOK, open, loop
<1>4. fd \notin spoiled => Agrees(fd)'
  <2>1. fd \notin spoiled => Agrees(fd) /\ epoll[fd].mask = {}
    BY <1>1, AgreementOf DEF ClosedInv
  <2>2. QED BY <2>1 DEF Agrees, open
<1>5. TablesAgree' /\ ClosedInv'
  <2>1. \A d \in Fds \ {fd} : Same(d)
    BY <1>1 DEF open, Same
  <2>2. spoiled' = spoiled
    BY DEF open
  <2>3. QED BY <1>2, <1>4, <2>1, <2>2, OneChanges
<1>6. AssertionsHold'
  BY DEF AssertionsHold, open, loop
<1>7. EdgeStep
  BY DEF EdgeStep, Seen, open
<1>8. QED BY <1>3, <1>5, <1>6, <1>7 DEF TableInv, Kept, open

\* closed, by shutdown_socket or drop
LEMMA ClosedStep ==
  ASSUME IInv, NEW fd \in Fds, closed(fd), spoiled \subseteq spoiled', spoiled' \subseteq Fds,
         fd \in spoiled' \/ file_events[fd].mask = {}
  PROVE  TableInv' /\ EdgeStep /\ Kept
<1> USE DEF IInv
<1>1. /\ file' = [file EXCEPT ![fd] = 0]
      /\ epoll' = [epoll EXCEPT ![fd] = Unregistered] /\ edge' = [edge EXCEPT ![fd] = {}]
      /\ ready' = [ready EXCEPT ![fd] = {}] /\ told' = [told EXCEPT ![fd] = {}]
      /\ UNCHANGED <<nevent, file_events, moved, opens, loop>>
  BY DEF closed
<1>2. /\ file' \in [Fds -> 0 .. MaxOpens]
      /\ epoll' \in [Fds -> [mask : SUBSET Events, et : BOOLEAN]]
      /\ edge' \in [Fds -> SUBSET Events] /\ ready' \in [Fds -> SUBSET Events]
      /\ told' \in [Fds -> SUBSET Events]
  BY <1>1, FileEventsAssumption DEF TypeOK, Unregistered
<1>3. TypeOK'
  BY <1>1, <1>2 DEF TypeOK, loop
<1>4. /\ file'[fd] = 0 /\ epoll'[fd].mask = {} /\ ready'[fd] = {}
      /\ \A d \in Fds \ {fd} : Same(d)
      /\ \A d \in Fds \ {fd} : edge'[d] = edge[d] /\ ready'[d] = ready[d] /\ told'[d] = told[d]
  BY <1>1 DEF TypeOK, Unregistered, Same
<1>5. fd \in spoiled' \/ Agrees(fd)'
  <2>1. fd \notin spoiled' => fd \notin spoiled /\ file_events[fd].mask = {}
    OBVIOUS
  <2>2. fd \notin spoiled' => Agrees(fd)
    BY <2>1, AgreementOf
  <2>3. QED BY <1>1, <1>4, <2>1, <2>2 DEF Agrees
<1>6. TablesAgree' /\ ClosedInv'
  BY <1>4, <1>5, OneChanges
<1>7. AssertionsHold'
  BY <1>1 DEF AssertionsHold, loop
<1>8. EdgeStep
  <2>1. ASSUME NEW d \in Fds \ spoiled', NEW e \in file_events[d].mask' \cap ready[d]'
        PROVE  /\ d \notin spoiled /\ e \in file_events[d].mask \cap ready[d]
               /\ Seen(d, e) => Seen(d, e)'
    <3>1. d # fd
      BY <1>4, <2>1
    <3>2. QED BY <1>1, <1>4, <2>1, <3>1 DEF Seen, Same
  <2>2. QED BY <2>1 DEF EdgeStep
<1>9. QED BY <1>1, <1>3, <1>6, <1>7, <1>8 DEF TableInv, Kept

LEMMA ShutdownStep ==
  ASSUME IInv, NEW fd \in Fds, shutdown_socket(fd)
  PROVE  TableInv' /\ EdgeStep /\ Kept /\ spoiled \subseteq spoiled'
<1>1. closed(fd) /\ spoiled' = spoiled /\ file_events[fd].mask = {}
  BY DEF shutdown_socket
<1>2. spoiled \subseteq Fds
  BY DEF IInv, TypeOK
<1>3. QED BY <1>1, <1>2, ClosedStep

LEMMA DropStep ==
  ASSUME IInv, NEW fd \in Fds, drop(fd)
  PROVE  TableInv' /\ EdgeStep /\ Kept /\ spoiled \subseteq spoiled'
<1>1. closed(fd) /\ spoiled' = spoiled \cup {fd}
  BY DEF drop
<1>2. spoiled \subseteq Fds
  BY DEF IInv, TypeOK
<1>3. spoiled \subseteq spoiled' /\ spoiled' \subseteq Fds /\ fd \in spoiled'
  BY <1>1, <1>2
<1>4. QED BY <1>1, <1>3, ClosedStep

\* The kernel makes something ready.
LEMMA ArrivesStep ==
  ASSUME IInv, NEW fd \in Fds, NEW e \in Events, arrives(fd, e)
  PROVE  TableInv' /\ EdgeStep /\ Kept
<1> USE DEF IInv
<1>1. /\ ready' = [ready EXCEPT ![fd] = ready[fd] \cup {e}]
      /\ edge' = [edge EXCEPT ![fd] = IF epoll[fd].et THEN edge[fd] \cup (epoll[fd].mask \cap {e})
                                                      ELSE edge[fd]]
      /\ told' = [told EXCEPT ![fd] = told[fd] \ {e}]
      /\ UNCHANGED <<nevent, file_events, moved, epoll, file, opens, loop, spoiled>>
  BY DEF arrives
<1>2. /\ edge' \in [Fds -> SUBSET Events] /\ ready' \in [Fds -> SUBSET Events]
      /\ told' \in [Fds -> SUBSET Events]
  BY <1>1 DEF TypeOK
<1>3. TypeOK'
  BY <1>1, <1>2 DEF TypeOK, loop
<1>4. TablesAgree' /\ ClosedInv' /\ AssertionsHold'
  BY <1>1 DEF TablesAgree, ClosedInv, AssertionsHold, loop
<1>5. EdgeStep
  <2>1. SUFFICES ASSUME NEW d \in Fds \ spoiled, NEW a \in file_events[d].mask \cap ready'[d],
                        ~ Seen(d, a)'
                 PROVE  a \in ready[d] /\ ~ Seen(d, a)
    BY <1>1 DEF EdgeStep, Seen
  <2>2. CASE d = fd /\ a = e
    <3>1. a \in epoll[fd].mask
      BY <2>1, <2>2 DEF TablesAgree
    <3>2. epoll[fd].et => a \in edge'[fd]
      BY <1>1, <2>2, <3>1 DEF TypeOK
    <3>3. QED BY <1>1, <2>1, <2>2, <3>2 DEF Seen
  <2>3. CASE d # fd \/ a # e
    <3>1. /\ a \in ready[d] /\ (a \in told[d] => a \in told'[d])
          /\ a \in edge[d] => a \in edge'[d]
      BY <1>1, <2>1, <2>3 DEF TypeOK
    <3>2. QED BY <1>1, <2>1, <3>1 DEF Seen
  <2>4. QED BY <2>2, <2>3
<1>6. QED BY <1>1, <1>3, <1>4, <1>5 DEF TableInv, Kept

\* A handler takes what was ready.
LEMMA ConsumeStep ==
  ASSUME IInv, NEW fd \in Fds, NEW e \in Events, consume(fd, e)
  PROVE  TableInv' /\ EdgeStep /\ Kept
<1> USE DEF IInv
<1>1. /\ ready' = [ready EXCEPT ![fd] = ready[fd] \ {e}]
      /\ edge' = [edge EXCEPT ![fd] = edge[fd] \ {e}]
      /\ told' = [told EXCEPT ![fd] = told[fd] \ {e}]
      /\ UNCHANGED <<nevent, file_events, moved, epoll, file, opens, loop, spoiled>>
  BY DEF consume
<1>2. /\ edge' \in [Fds -> SUBSET Events] /\ ready' \in [Fds -> SUBSET Events]
      /\ told' \in [Fds -> SUBSET Events]
  BY <1>1 DEF TypeOK
<1>3. TypeOK'
  BY <1>1, <1>2 DEF TypeOK, loop
<1>4. TablesAgree' /\ ClosedInv' /\ AssertionsHold'
  BY <1>1 DEF TablesAgree, ClosedInv, AssertionsHold, loop
<1>5. EdgeStep
  <2>1. SUFFICES ASSUME NEW d \in Fds \ spoiled, NEW a \in file_events[d].mask \cap ready'[d]
                 PROVE  a \in ready[d] /\ (Seen(d, a) => Seen(d, a)')
    BY <1>1 DEF EdgeStep, Seen
  <2>2. d # fd \/ a # e
    BY <1>1, <2>1 DEF TypeOK
  <2>3. /\ a \in ready[d] /\ (a \in told[d] => a \in told'[d])
        /\ a \in edge[d] => a \in edge'[d]
    BY <1>1, <2>1, <2>2 DEF TypeOK
  <2>4. QED BY <1>1, <2>3 DEF Seen
<1>6. QED BY <1>1, <1>3, <1>4, <1>5 DEF TableInv, Kept

-------------------------------------------------------------------------------
(* Creating and deleting file events.                                            *)

\* A descriptor that is registered anew reports what is ready, or is reported
\* whenever it is.
LEMMA CtlSees ==
  ASSUME TypeOK, NEW fd \in Fds, NEW mask \in SUBSET Events, NEW et \in BOOLEAN,
         ctl(fd, mask, et)
  PROVE  /\ epoll' \in [Fds -> [mask : SUBSET Events, et : BOOLEAN]]
         /\ edge' \in [Fds -> SUBSET Events] /\ told' \in [Fds -> SUBSET Events]
         /\ epoll'[fd].mask = mask
         /\ \A e \in mask \cap ready[fd] : e \in edge'[fd] \/ ~epoll'[fd].et
         /\ \A d \in Fds \ {fd} : epoll'[d] = epoll[d] /\ edge'[d] = edge[d] /\ told'[d] = told[d]
BY DEF TypeOK, ctl

\* The edges when one descriptor's registration changes.
LEMMA OneReseen ==
  ASSUME IInv, NEW fd \in Fds, ready' = ready, spoiled' = spoiled,
         \A d \in Fds \ {fd} : /\ file_events'[d] = file_events[d] /\ epoll'[d] = epoll[d]
                               /\ edge'[d] = edge[d] /\ told'[d] = told[d],
         \A e \in file_events'[fd].mask \cap ready[fd] : e \in edge'[fd] \/ ~epoll'[fd].et
  PROVE  EdgeStep
<1>1. SUFFICES ASSUME NEW d \in Fds \ spoiled, NEW e \in file_events'[d].mask \cap ready[d],
                      ~ Seen(d, e)'
               PROVE  e \in file_events[d].mask /\ ~ Seen(d, e)
  BY DEF EdgeStep
<1>2. d # fd
  BY <1>1 DEF Seen
<1>3. QED BY <1>1, <1>2 DEF Seen

\* The table when it may have grown.
LEMMA GrownTo ==
  ASSUME TypeOK, NEW fd \in Fds, Grown(fd)
  PROVE  /\ nevent' \in Nat \ {0} /\ moved' \in Nat /\ nevent' >= nevent
         /\ nevent' = NewSize(fd) /\ nevent' >= fd
         /\ nevent' # nevent => moved' > 0
         /\ fd >= NewSize(fd) => fd = nevent' /\ moved' > 0
<1>1. nevent \in Nat \ {0} /\ moved \in Nat /\ fd \in Nat
  BY FdsAre DEF TypeOK
<1>2. /\ NewSize(fd) \in Nat \ {0} /\ NewSize(fd) >= nevent /\ NewSize(fd) >= fd
      /\ fd < nevent => NewSize(fd) = nevent
  BY <1>1, NewSizeIs
<1>3. CASE fd >= nevent
  <2>1. nevent' = NewSize(fd) /\ moved' = moved + 1
    BY <1>3 DEF Grown
  <2>2. QED BY <1>1, <1>2, <2>1
<1>4. CASE ~ (fd >= nevent)
  <2>1. nevent' = nevent /\ moved' = moved /\ NewSize(fd) = nevent
    BY <1>1, <1>2, <1>4 DEF Grown
  <2>2. QED BY <1>1, <1>2, <1>4, <2>1
<1>5. QED BY <1>3, <1>4

\* Nothing is kept for a descriptor outside the table.
LEMMA CoveredStep ==
  ASSUME TypeOK, AssertionsHold, NEW fd \in Fds, nevent' \in Nat, nevent' >= nevent,
         \A d \in Fds \ {fd} : file_events'[d] = file_events[d],
         file_events'[fd] = file_events[fd] \/ fd < nevent'
  PROVE  \A d \in Fds : d >= nevent' => file_events'[d] = Empty
<1>1. SUFFICES ASSUME NEW d \in Fds, d >= nevent' PROVE file_events'[d] = file_events[d] /\ d >= nevent
  BY DEF AssertionsHold
<1>2. d \in Nat /\ nevent \in Nat
  BY FdsAre DEF TypeOK
<1>3. QED BY <1>1, <1>2

LEMMA CreateStep ==
  ASSUME IInv, NEW fd \in Fds, NEW mask \in SUBSET Events, NEW cb \in Callbacks,
         create_file_event(fd, mask, cb)
  PROVE  TableInv' /\ EdgeStep /\ Kept /\ spoiled' = spoiled
<1> USE DEF IInv
<1>1. /\ file[fd] # 0 /\ cb.of = file[fd] /\ Grown(fd) /\ pc \notin {"aborted", "overrun"}
      /\ UNCHANGED <<file, ready, opens, spoiled, fired, at>>
  BY DEF create_file_event, InThread, loop
<1>2. /\ nevent' \in Nat \ {0} /\ moved' \in Nat /\ nevent' >= nevent
      /\ nevent' = NewSize(fd) /\ nevent' \in Nat
      /\ fd >= NewSize(fd) => fd = nevent' /\ moved' > 0
  BY <1>1, GrownTo
<1>3. CASE UNCHANGED <<file_events, epoll, edge, told>>
           /\ (pc' = pc \/ (pc' = "overrun" /\ fd >= NewSize(fd))
               \/ (pc' = "aborted" /\ file_events[fd].mask # {} /\ epoll[fd].mask = {}))
  <2>1. TypeOK'
    BY <1>1, <1>2, <1>3 DEF TypeOK
  <2>2. TablesAgree' /\ ClosedInv'
    BY <1>1, <1>3 DEF TablesAgree, ClosedInv
  <2>3. AssertionsHold'
    <3>1. \A d \in Fds : d >= nevent' => file_events'[d] = Empty
      BY <1>2, <1>3, CoveredStep
    <3>2. pc' = "overrun" => nevent' \in Fds /\ moved' > 0
      BY <1>1, <1>2, <1>3
    <3>3. pc' = "aborted" => spoiled' # {}
      <4>1. fd \notin spoiled => epoll[fd].mask = file_events[fd].mask
        BY DEF TablesAgree
      <4>2. QED BY <1>1, <1>3, <4>1
    <3>4. QED BY <3>1, <3>2, <3>3 DEF AssertionsHold
  <2>4. EdgeStep
    BY <1>1, <1>3 DEF EdgeStep, Seen
  <2>5. Kept
    BY <1>1, <1>3 DEF Kept, loop
  <2>6. QED BY <1>1, <2>1, <2>2, <2>3, <2>4, <2>5 DEF TableInv
<1>4. CASE /\ fd < NewSize(fd) /\ UNCHANGED loop
           /\ add_event(fd, file_events[fd].mask, mask)
           /\ file_events' = [file_events EXCEPT ![fd] = With(file_events[fd], mask, cb)]
  <2> DEFINE old == file_events[fd]  all == old.mask \cup mask
  <2>1. old \in [mask : SUBSET Events, read_cb : Callbacks, write_cb : Callbacks]
    BY DEF TypeOK
  <2>2. ctl(fd, all, TRUE) /\ all \in SUBSET Events
    BY <1>4, <2>1 DEF add_event
  <2>3. /\ epoll' \in [Fds -> [mask : SUBSET Events, et : BOOLEAN]]
        /\ edge' \in [Fds -> SUBSET Events] /\ told' \in [Fds -> SUBSET Events]
        /\ epoll'[fd].mask = all
        /\ \A e \in all \cap ready[fd] : e \in edge'[fd] \/ ~epoll'[fd].et
        /\ \A d \in Fds \ {fd} : epoll'[d] = epoll[d] /\ edge'[d] = edge[d] /\ told'[d] = told[d]
    <3> HIDE DEF all
    <3> QED BY <2>2, CtlSees
  <2>4. /\ file_events' \in [Fds -> [mask : SUBSET Events, read_cb : Callbacks, write_cb : Callbacks]]
        /\ file_events'[fd] = With(old, mask, cb)
        /\ \A d \in Fds \ {fd} : file_events'[d] = file_events[d]
    <3>1. With(old, mask, cb) \in [mask : SUBSET Events, read_cb : Callbacks, write_cb : Callbacks]
      BY <2>1 DEF With
    <3>2. QED BY <1>4, <3>1 DEF TypeOK
  <2>5. file_events'[fd].mask = all
    BY <2>4 DEF With
  <2>6. TypeOK'
    BY <1>1, <1>2, <1>4, <2>3, <2>4 DEF TypeOK, loop
  <2>7. fd \notin spoiled => Agrees(fd)'
    <3>1. fd \notin spoiled => Agrees(fd)
      BY AgreementOf
    <3>2. QED BY <1>1, <2>3, <2>4, <2>5, <3>1 DEF Agrees, With
  <2>8. TablesAgree' /\ ClosedInv'
    <3>1. \A d \in Fds \ {fd} : Same(d)
      BY <1>1, <2>3, <2>4 DEF Same
    <3>2. file'[fd] # 0 /\ spoiled' = spoiled
      BY <1>1
    <3>3. QED BY <2>7, <3>1, <3>2, OneChanges
  <2>9. AssertionsHold'
    <3>1. \A d \in Fds : d >= nevent' => file_events'[d] = Empty
      BY <1>2, <1>4, <2>4, CoveredStep
    <3>2. QED BY <1>1, <1>4, <3>1 DEF AssertionsHold, loop
  <2>10. EdgeStep
    BY <1>1, <2>3, <2>4, <2>5, OneReseen
  <2>11. QED BY <1>1, <1>4, <2>6, <2>8, <2>9, <2>10 DEF TableInv, Kept
<1>5. \/ UNCHANGED <<file_events, epoll, edge, told>>
         /\ (pc' = pc \/ (pc' = "overrun" /\ fd >= NewSize(fd))
             \/ (pc' = "aborted" /\ file_events[fd].mask # {} /\ epoll[fd].mask = {}))
      \/ /\ fd < NewSize(fd) /\ UNCHANGED loop
         /\ add_event(fd, file_events[fd].mask, mask)
         /\ file_events' = [file_events EXCEPT ![fd] = With(file_events[fd], mask, cb)]
  <2>1. NewSize(fd) \in Nat /\ fd \in Nat
    BY <1>2, FdsAre
  <2>2. CASE fd >= NewSize(fd)
    BY <2>2 DEF create_file_event
  <2>3. CASE ~ (fd >= NewSize(fd))
    <3>1. fd < NewSize(fd)
      BY <2>1, <2>3
    <3>2. \/ UNCHANGED <<file_events, epoll, edge, told, loop>>
          \/ /\ add_event(fd, file_events[fd].mask, mask)
             /\ file_events' = [file_events EXCEPT ![fd] = With(file_events[fd], mask, cb)]
             /\ UNCHANGED loop
          \/ /\ file_events[fd].mask # {} /\ epoll[fd].mask = {}
             /\ pc' = "aborted" /\ UNCHANGED <<file_events, epoll, edge, told, fired, at>>
      BY <2>3 DEF create_file_event
    <3>3. QED BY <3>1, <3>2 DEF loop
  <2>4. QED BY <2>2, <2>3
<1>6. QED BY <1>3, <1>4, <1>5

LEMMA DeleteStep ==
  ASSUME IInv, NEW fd \in Fds, NEW mask \in SUBSET Events, delete_file_event(fd, mask)
  PROVE  TableInv' /\ EdgeStep /\ Kept /\ spoiled' = spoiled
<1> USE DEF IInv
<1>1. /\ file[fd] # 0 /\ fd < nevent /\ file_events[fd].mask # {}
      /\ UNCHANGED <<nevent, moved, file, ready, opens, spoiled>>
  BY DEF delete_file_event
<1>2. CASE epoll[fd].mask = {} /\ pc' = "aborted"
           /\ UNCHANGED <<file_events, epoll, edge, told, fired, at>>
  <2>1. TypeOK'
    BY <1>1, <1>2 DEF TypeOK
  <2>2. TablesAgree' /\ ClosedInv'
    BY <1>1, <1>2 DEF TablesAgree, ClosedInv
  <2>3. spoiled # {}
    BY <1>1, <1>2 DEF TablesAgree
  <2>4. AssertionsHold'
    BY <1>1, <1>2, <2>3 DEF AssertionsHold
  <2>5. EdgeStep
    BY <1>1, <1>2 DEF EdgeStep, Seen
  <2>6. QED BY <1>1, <1>2, <2>1, <2>2, <2>4, <2>5 DEF TableInv, Kept
<1>3. CASE /\ del_event(fd, file_events[fd].mask, mask) /\ UNCHANGED loop
           /\ file_events' = [file_events EXCEPT ![fd] = Without(file_events[fd], mask)]
  <2> DEFINE old == file_events[fd]  left == old.mask \ mask
  <2>1. /\ old \in [mask : SUBSET Events, read_cb : Callbacks, write_cb : Callbacks]
        /\ left \in SUBSET Events
    BY DEF TypeOK
  <2>2. /\ epoll' \in [Fds -> [mask : SUBSET Events, et : BOOLEAN]]
        /\ edge' \in [Fds -> SUBSET Events] /\ told' \in [Fds -> SUBSET Events]
        /\ epoll'[fd].mask = left
        /\ \A e \in left \cap ready[fd] : e \in edge'[fd] \/ ~epoll'[fd].et
        /\ \A d \in Fds \ {fd} : epoll'[d] = epoll[d] /\ edge'[d] = edge[d] /\ told'[d] = told[d]
    <3>1. CASE left # {}
      <4>1. ctl(fd, left, FALSE)
        BY <1>3, <3>1 DEF del_event
      <4> HIDE DEF left
      <4>2. QED BY <2>1, <4>1, CtlSees
    <3>2. CASE left = {}
      <4>1. /\ epoll' = [epoll EXCEPT ![fd] = Unregistered]
            /\ edge' = [edge EXCEPT ![fd] = {}] /\ told' = [told EXCEPT ![fd] = {}]
        BY <1>3, <3>2 DEF del_event
      <4> HIDE DEF left
      <4>2. QED BY <3>2, <4>1 DEF TypeOK, Unregistered
    <3>3. QED BY <3>1, <3>2
  <2>3. /\ file_events' \in [Fds -> [mask : SUBSET Events, read_cb : Callbacks, write_cb : Callbacks]]
        /\ file_events'[fd] = Without(old, mask)
        /\ \A d \in Fds \ {fd} : file_events'[d] = file_events[d]
    <3>1. Without(old, mask) \in [mask : SUBSET Events, read_cb : Callbacks, write_cb : Callbacks]
      BY <2>1 DEF Without, Callbacks
    <3>2. QED BY <1>3, <3>1 DEF TypeOK
  <2>4. file_events'[fd].mask = left
    BY <2>3 DEF Without
  <2>5. TypeOK'
    BY <1>1, <1>3, <2>2, <2>3 DEF TypeOK, loop
  <2>6. fd \notin spoiled => Agrees(fd)'
    <3>1. fd \notin spoiled => Agrees(fd)
      BY AgreementOf
    <3>2. NoCallback.of = 0
      BY DEF NoCallback
    <3>3. QED BY <1>1, <2>2, <2>3, <2>4, <3>1, <3>2 DEF Agrees, Without
  <2>7. TablesAgree' /\ ClosedInv'
    <3>1. \A d \in Fds \ {fd} : Same(d)
      BY <1>1, <2>2, <2>3 DEF Same
    <3>2. file'[fd] # 0 /\ spoiled' = spoiled
      BY <1>1
    <3>3. QED BY <2>6, <3>1, <3>2, OneChanges
  <2>8. AssertionsHold'
    <3>1. nevent' \in Nat /\ nevent' >= nevent /\ fd < nevent'
      BY <1>1 DEF TypeOK
    <3>2. \A d \in Fds : d >= nevent' => file_events'[d] = Empty
      BY <2>3, <3>1, CoveredStep
    <3>3. QED BY <1>1, <1>3, <3>2 DEF AssertionsHold, loop
  <2>9. EdgeStep
    BY <1>1, <2>2, <2>3, <2>4, OneReseen
  <2>10. QED BY <1>1, <1>3, <2>5, <2>7, <2>8, <2>9 DEF TableInv, Kept
<1>4. QED BY <1>2, <1>3 DEF delete_file_event

-------------------------------------------------------------------------------
(* process_events.                                                               *)

LEMMA InitHolds == ASSUME Init PROVE IInv
<1> USE FileEventsAssumption DEF Init
<1>1. NoCallback \in Callbacks
  BY DEF Callbacks
<1>2. TypeOK
  BY <1>1 DEF TypeOK, Empty, Unregistered, Nothing
<1>3. ClosedInv /\ AssertionsHold /\ HandledInv
  BY DEF ClosedInv, AssertionsHold, HandledInv, Unregistered
<1>4. TablesAgree
  BY DEF TablesAgree, Empty, Unregistered, NoCallback
<1>5. NoLostEdge
  BY DEF NoLostEdge, Empty
<1>6. QED BY <1>2, <1>3, <1>4, <1>5 DEF IInv

\* The fetched reports contain one of each descriptor that was chosen.
LEMMA Listed ==
  ASSUME NEW S \in SUBSET Fds, NEW order \in SetToSeqs(S)
  PROVE  order \in Seq(S) /\ \A fd \in S : \E i \in DOMAIN order : order[i] = fd
<1> DEFINE n == Cardinality(S)
<1>1. IsFiniteSet(S)
  BY FileEventsAssumption, FS_Subset
<1>2. n \in Nat
  BY <1>1, FS_CardinalityType
<1>3. order \in [1 .. n -> S] /\ \A i, j \in 1 .. n : i # j => order[i] # order[j]
  BY DEF SetToSeqs
<1>4. IsFiniteSet(1 .. n) /\ Cardinality(1 .. n) = n
  BY <1>2, FS_Interval
<1> HIDE DEF n
<1>5. order \in Injection(1 .. n, S)
  BY <1>3 DEF Injection, IsInjective
<1>6. order \in Surjection(1 .. n, S)
  BY <1>1, <1>4, <1>5, FS_Injection DEF n
<1>7. order \in Seq(S)
  BY <1>2, <1>3
<1>8. QED BY <1>3, <1>6, <1>7 DEF Surjection

LEMMA WaitStep == ASSUME IInv, event_wait PROVE IInv'
<1> USE DEF IInv
<1>1. PICK S \in SUBSET {fd \in Fds : Reported(fd) # {}} :
        /\ \E order \in SetToSeqs(S) :
             fired' = [i \in DOMAIN order |-> [fd |-> order[i], mask |-> Reported(order[i])]]
        /\ edge' = [fd \in Fds |-> IF fd \in S THEN {} ELSE edge[fd]]
  BY DEF event_wait
<1>2. PICK order \in SetToSeqs(S) :
        fired' = [i \in DOMAIN order |-> [fd |-> order[i], mask |-> Reported(order[i])]]
  BY <1>1
<1>3. /\ pc = "idle" /\ pc' = "loop"
      /\ UNCHANGED <<nevent, file_events, moved, epoll, file, ready, opens, at, told, spoiled>>
  BY DEF event_wait
<1>4. S \in SUBSET Fds /\ order \in Seq(S) /\ \A fd \in S : \E i \in DOMAIN order : order[i] = fd
  BY <1>1, <1>2, Listed
<1>5. \A fd \in Fds : Reported(fd) \in SUBSET Events
  BY DEF Reported, TypeOK
<1>6. fired' \in Seq([fd : Fds, mask : SUBSET Events])
  <2>1. Len(order) \in Nat /\ DOMAIN order = 1 .. Len(order) /\ \A i \in 1 .. Len(order) : order[i] \in Fds
    BY <1>4
  <2>2. fired' \in [1 .. Len(order) -> [fd : Fds, mask : SUBSET Events]]
    BY <1>2, <1>5, <2>1
  <2> DEFINE R == [fd : Fds, mask : SUBSET Events]
  <2>3. fired' \in [1 .. Len(order) -> R]
    BY <2>2
  <2> HIDE DEF R
  <2>4. fired' \in Seq(R)
    BY <2>1, <2>3
  <2>5. QED BY <2>4 DEF R
<1>7. TypeOK'
  <2>1. edge' \in [Fds -> SUBSET Events]
    BY <1>1 DEF TypeOK
  <2>2. QED BY <1>3, <1>6, <2>1 DEF TypeOK
<1>8. ClosedInv' /\ TablesAgree' /\ AssertionsHold' /\ HandledInv'
  BY <1>3 DEF ClosedInv, TablesAgree, AssertionsHold, HandledInv
<1>9. NoLostEdge'
  <2>1. SUFFICES ASSUME NEW fd \in Fds \ spoiled, NEW e \in file_events[fd].mask \cap ready[fd],
                        e \notin edge'[fd], epoll[fd].et, e \notin told[fd]
                 PROVE  \E i \in DOMAIN fired' : fired'[i].fd = fd /\ e \in fired'[i].mask
    BY <1>3 DEF NoLostEdge
  <2>2. e \in edge[fd]
    <3>1. fired = <<>> /\ DOMAIN fired = {}
      BY <1>3 DEF TypeOK
    <3>2. QED BY <1>3, <2>1, <3>1 DEF NoLostEdge
  <2>3. fd \in S
    BY <1>1, <2>1, <2>2
  <2>4. e \in Reported(fd)
    <3>1. e \in ready[fd] \cap epoll[fd].mask
      BY <2>1 DEF TablesAgree
    <3>2. QED BY <2>2, <3>1 DEF Reported
  <2>5. PICK i \in DOMAIN order : order[i] = fd
    BY <1>4, <2>3
  <2>6. i \in DOMAIN fired' /\ fired'[i] = [fd |-> fd, mask |-> Reported(fd)]
    BY <1>2, <2>5
  <2>7. QED BY <2>4, <2>6
<1>10. QED BY <1>7, <1>8, <1>9

LEMMA NextFiredStep == ASSUME IInv, next_fired PROVE IInv'
<1> USE DEF IInv
<1> DEFINE f == Head(fired)
           reads == "READABLE" \in f.mask \cap file_events[f.fd].mask
<1>1. /\ pc = "loop" /\ fired # <<>> /\ fired' = Tail(fired)
      /\ at' = [fd |-> f.fd, mask |-> f.mask, rfired |-> reads, moved |-> moved]
      /\ pc' = IF reads THEN "reading" ELSE "read"
      /\ told' = IF reads THEN [told EXCEPT ![f.fd] = told[f.fd] \cup ({"READABLE"} \cap ready[f.fd])]
                          ELSE told
      /\ UNCHANGED <<nevent, file_events, moved, epoll, edge, file, ready, opens, spoiled>>
  BY DEF next_fired, kernel
<1>2. fired \in Seq([fd : Fds, mask : SUBSET Events])
  BY DEF TypeOK
<1>3. /\ f \in [fd : Fds, mask : SUBSET Events] /\ f = fired[1]
      /\ fired' \in Seq([fd : Fds, mask : SUBSET Events])
      /\ Len(fired') = Len(fired) - 1 /\ \A i \in 1 .. Len(fired') : fired'[i] = fired[i + 1]
  <2> DEFINE R == [fd : Fds, mask : SUBSET Events]
  <2>1. fired \in Seq(R) /\ fired # <<>> /\ fired' = Tail(fired)
    BY <1>1, <1>2
  <2> HIDE DEF R, reads
  <2>2. /\ Head(fired) \in R /\ Head(fired) = fired[1] /\ Tail(fired) \in Seq(R)
        /\ Len(Tail(fired)) = Len(fired) - 1
        /\ \A i \in 1 .. Len(Tail(fired)) : Tail(fired)[i] = fired[i + 1]
    BY <2>1, HeadTailProperties
  <2>3. QED BY <2>1, <2>2 DEF R
<1>4. f.fd \in Fds /\ f.mask \in SUBSET Events /\ reads \in BOOLEAN
  BY <1>3
<1>5. /\ told' \in [Fds -> SUBSET Events] /\ \A fd \in Fds : told[fd] \subseteq told'[fd]
      /\ reads /\ "READABLE" \in ready[f.fd] => "READABLE" \in told'[f.fd]
  <2>1. told \in [Fds -> SUBSET Events] /\ "READABLE" \in Events
    BY DEF TypeOK, Events
  <2> HIDE DEF reads, f
  <2>2. QED BY <1>1, <1>4, <2>1
<1>6. /\ at'.fd = f.fd /\ at'.mask = f.mask /\ pc' \in {"reading", "read"}
      /\ at' \in [fd : Nat, mask : SUBSET Events, rfired : BOOLEAN, moved : Nat]
  <2>1. f.fd \in Nat /\ moved \in Nat
    BY <1>4, FdsAre DEF TypeOK
  <2> HIDE DEF reads, f
  <2>2. QED BY <1>1, <1>4, <2>1
<1> HIDE DEF f
<1>7. TypeOK'
  <2> HIDE DEF reads
  <2> QED BY <1>1, <1>3, <1>4, <1>5, <1>6 DEF TypeOK
<1>8. ClosedInv' /\ TablesAgree' /\ AssertionsHold'
  BY <1>1, <1>6 DEF ClosedInv, TablesAgree, AssertionsHold
<1>9. HandledInv'
  BY <1>1, <1>4, <1>5, <1>6 DEF HandledInv, Seen
<1>10. NoLostEdge'
  <2>1. SUFFICES ASSUME NEW fd \in Fds \ spoiled, NEW e \in file_events[fd].mask \cap ready[fd],
                        e \notin edge[fd], epoll[fd].et, e \notin told'[fd],
                        ~ (f.fd = fd /\ e \in f.mask)
                 PROVE  \E i \in DOMAIN fired' : fired'[i].fd = fd /\ e \in fired'[i].mask
    BY <1>1, <1>6 DEF NoLostEdge
  <2>2. PICK i \in DOMAIN fired : fired[i].fd = fd /\ e \in fired[i].mask
    BY <1>1, <1>5, <2>1 DEF NoLostEdge
  <2>3. i # 1 /\ i \in 1 .. Len(fired) /\ Len(fired) \in Nat
    BY <1>2, <1>3, <2>1, <2>2
  <2>4. i - 1 \in 1 .. Len(fired') /\ (i - 1) + 1 = i
    BY <1>3, <2>3
  <2>5. i - 1 \in DOMAIN fired' /\ fired'[i - 1] = fired[i]
    BY <1>3, <2>4
  <2>6. QED BY <2>2, <2>5
<1>11. QED BY <1>7, <1>8, <1>9, <1>10

LEMMA ReadReturnsStep == ASSUME IInv, read_returns PROVE IInv'
<1> USE DEF IInv
<1>1. /\ pc = "reading" /\ pc' = "read"
      /\ UNCHANGED <<nevent, file_events, moved, epoll, edge, file, ready, opens, fired, at,
                     told, spoiled>>
  BY DEF read_returns, kernel
<1>2. TypeOK'
  BY <1>1 DEF TypeOK
<1>3. ClosedInv' /\ TablesAgree' /\ AssertionsHold'
  BY <1>1 DEF ClosedInv, TablesAgree, AssertionsHold
<1>4. NoLostEdge' /\ HandledInv'
  BY <1>1 DEF NoLostEdge, HandledInv, Seen
<1>5. QED BY <1>2, <1>3, <1>4

LEMMA WriteStep == ASSUME IInv, write_if_fired PROVE IInv'
<1> USE DEF IInv
<1> DEFINE tells == Writes \/ (at.rfired /\ SameHandler)
           due == at.mask \cap Event.mask \cap ready[at.fd]
<1>1. /\ pc = "read" /\ pc' = IF Writes THEN "writing" ELSE "loop"
      /\ at' = IF Writes THEN at ELSE Nothing
      /\ told' = IF tells THEN [told EXCEPT ![at.fd] = told[at.fd] \cup due] ELSE told
      /\ UNCHANGED <<nevent, file_events, moved, epoll, edge, file, ready, opens, fired, spoiled>>
  BY DEF write_if_fired, kernel
<1>2. at.fd \in Fds /\ due \in SUBSET Events /\ Event = file_events[at.fd]
  BY <1>1 DEF TypeOK, Event
<1>3. /\ told' \in [Fds -> SUBSET Events] /\ \A fd \in Fds : told[fd] \subseteq told'[fd]
      /\ tells => due \subseteq told'[at.fd]
  <2> HIDE DEF tells, due
  <2> QED BY <1>1, <1>2 DEF TypeOK
<1>4. TypeOK'
  <2>1. Nothing \in [fd : Nat, mask : SUBSET Events, rfired : BOOLEAN, moved : Nat]
    BY DEF Nothing
  <2> HIDE DEF tells
  <2>2. QED BY <1>1, <1>2, <1>3, <2>1 DEF TypeOK
<1>5. ClosedInv' /\ TablesAgree' /\ AssertionsHold' /\ HandledInv'
  BY <1>1 DEF ClosedInv, TablesAgree, AssertionsHold, HandledInv
<1>6. NoLostEdge'
  <2>1. SUFFICES ASSUME NEW fd \in Fds \ spoiled, NEW e \in file_events[fd].mask \cap ready[fd],
                        e \notin edge[fd], epoll[fd].et, e \notin told'[fd]
                 PROVE  \E i \in DOMAIN fired : fired[i].fd = fd /\ e \in fired[i].mask
    BY <1>1 DEF NoLostEdge
  <2>2. SUFFICES ASSUME at.fd = fd, e \in at.mask PROVE FALSE
    BY <1>1, <1>3, <2>1 DEF NoLostEdge
  <2>3. e \in due /\ ~ tells /\ e \notin told[fd]
    BY <1>2, <1>3, <2>1, <2>2
  <2>4. CASE e = "READABLE"
    BY <1>1, <1>2, <2>1, <2>2, <2>3, <2>4 DEF HandledInv, Seen
  <2>5. CASE e = "WRITABLE"
    BY <1>2, <2>1, <2>3, <2>5 DEF Writes
  <2>6. e \in Events
    BY <2>1 DEF TypeOK
  <2>7. QED BY <2>4, <2>5, <2>6 DEF Events
<1>7. QED BY <1>4, <1>5, <1>6

LEMMA DanglingStep == ASSUME IInv, write_if_fired_dangling PROVE IInv'
<1> USE DEF IInv
<1>1. /\ pc = "read" /\ pc' \in {"loop", "aborted"} /\ at' = Nothing
      /\ spoiled' = spoiled \cup {at.fd}
      /\ UNCHANGED <<nevent, file_events, moved, epoll, edge, file, ready, opens, fired, told>>
  BY DEF write_if_fired_dangling, kernel
<1>2. at.fd \in Fds
  BY <1>1 DEF TypeOK
<1>3. TypeOK'
  <2>1. Nothing \in [fd : Nat, mask : SUBSET Events, rfired : BOOLEAN, moved : Nat]
    BY DEF Nothing
  <2>2. QED BY <1>1, <1>2, <2>1 DEF TypeOK
<1>4. ClosedInv' /\ TablesAgree' /\ AssertionsHold' /\ HandledInv'
  BY <1>1 DEF ClosedInv, TablesAgree, AssertionsHold, HandledInv
<1>5. NoLostEdge'
  BY <1>1 DEF NoLostEdge
<1>6. QED BY <1>3, <1>4, <1>5

LEMMA LoopStep == ASSUME IInv, write_returns \/ all_fired PROVE IInv'
<1> USE DEF IInv
<1>1. /\ pc \in {"writing", "loop"} /\ pc' \in {"loop", "idle"} /\ at' = Nothing
      /\ pc' = "idle" => fired = <<>>
      /\ UNCHANGED <<nevent, file_events, moved, epoll, edge, file, ready, opens, fired, told,
                     spoiled>>
  BY DEF write_returns, all_fired, kernel, TypeOK
<1>2. TypeOK'
  <2>1. Nothing \in [fd : Nat, mask : SUBSET Events, rfired : BOOLEAN, moved : Nat]
    BY DEF Nothing
  <2>2. QED BY <1>1, <2>1 DEF TypeOK
<1>3. ClosedInv' /\ TablesAgree' /\ AssertionsHold' /\ HandledInv'
  BY <1>1 DEF ClosedInv, TablesAgree, AssertionsHold, HandledInv
<1>4. NoLostEdge'
  BY <1>1 DEF NoLostEdge
<1>5. QED BY <1>2, <1>3, <1>4

-------------------------------------------------------------------------------
LEMMA UsersStep == ASSUME IInv, Users PROVE IInv'
<1> DEFINE Does == TableInv' /\ EdgeStep /\ Kept /\ spoiled \subseteq spoiled'
<1>1. PICK fd \in Fds :
        \/ open(fd) \/ shutdown_socket(fd) \/ drop(fd)
        \/ \E h \in Handlers : \E e \in Events :
             create_file_event(fd, {e}, [of |-> file[fd], handler |-> h])
        \/ delete_file_event(fd, {"WRITABLE"}) \/ delete_file_event(fd, Events)
        \/ \E e \in Events : arrives(fd, e) \/ consume(fd, e)
  BY DEF Users
<1>2. SUFFICES Does
  BY EdgesKept DEF TableInv, IInv
<1>3. CASE open(fd)
  BY <1>3, OpenStep DEF open
<1>4. CASE shutdown_socket(fd)
  BY <1>4, ShutdownStep
<1>5. CASE drop(fd)
  BY <1>5, DropStep
<1>6. ASSUME NEW h \in Handlers, NEW e \in Events,
             create_file_event(fd, {e}, [of |-> file[fd], handler |-> h])
      PROVE  Does
  <2> DEFINE cb == [of |-> file[fd], handler |-> h]
  <2>1. file[fd] # 0 /\ file[fd] \in 0 .. MaxOpens /\ MaxOpens \in Nat
    BY <1>6, FileEventsAssumption DEF create_file_event, IInv, TypeOK
  <2>2. cb \in Callbacks
    BY <2>1 DEF Callbacks
  <2>3. {e} \in SUBSET Events /\ create_file_event(fd, {e}, cb)
    BY <1>6
  <2> HIDE DEF cb
  <2>4. QED BY <2>2, <2>3, CreateStep
<1>7. CASE delete_file_event(fd, {"WRITABLE"})
  <2>1. {"WRITABLE"} \in SUBSET Events
    BY DEF Events
  <2>2. QED BY <1>7, <2>1, DeleteStep
<1>8. CASE delete_file_event(fd, Events)
  <2>1. Events \in SUBSET Events
    OBVIOUS
  <2>2. QED BY <1>8, <2>1, DeleteStep
<1>9. ASSUME NEW e \in Events, arrives(fd, e) \/ consume(fd, e) PROVE Does
  <2>1. spoiled' = spoiled
    BY <1>9 DEF arrives, consume
  <2>2. QED BY <1>9, <2>1, ArrivesStep, ConsumeStep
<1>10. QED BY <1>1, <1>3, <1>4, <1>5, <1>6, <1>7, <1>8, <1>9

\* The inductive invariant: the table and the epoll set agree, a closed file has left
\* it, and every readiness that is registered is still to be reported, to be handled
\* in the present round, or has been handled (process_events, create_file_event,
\* delete_file_event).
THEOREM Invariant == Spec => []IInv
<1>1. Init => IInv
  BY InitHolds
<1>2. IInv /\ [Next]_vars => IInv'
  <2>1. SUFFICES ASSUME IInv, [Next]_vars PROVE IInv'
    OBVIOUS
  <2>2. CASE Users
    BY <2>1, <2>2, UsersStep
  <2>3. CASE process_events
    BY <2>1, <2>3, WaitStep, NextFiredStep, ReadReturnsStep, WriteStep, DanglingStep, LoopStep
       DEF process_events
  <2>4. CASE UNCHANGED vars
    BY <2>1, <2>4 DEF vars, IInv, TypeOK, ClosedInv, TablesAgree, AssertionsHold, NoLostEdge,
                      HandledInv, Seen
  <2>5. QED BY <2>1, <2>2, <2>3, <2>4 DEF Next
<1>3. QED BY <1>1, <1>2, PTL DEF Spec

\* Every variable keeps its type: what was fetched names descriptors and events, and
\* the loop is at one of its steps.
THEOREM TypeCorrect == Spec => []TypeOK
<1>1. IInv => TypeOK
  BY DEF IInv
<1>2. QED BY <1>1, Invariant, PTL

\* The table and the epoll set agree on every descriptor the table has not been made
\* wrong about, and a number that is used again inherits no callback, however files
\* are opened, closed and registered from within the callbacks (create_file_event,
\* delete_file_event, shutdown_socket).
THEOREM TableAndEpollAgree == Spec => []TablesAgree
<1>1. IInv => TablesAgree
  BY DEF IInv
<1>2. QED BY <1>1, Invariant, PTL

\* Readiness that epoll reports once is not lost between its report and the handler:
\* neither by what callbacks of the same round create and delete, nor by a handler
\* that is called once for both events (process_events, del_event).
THEOREM NoEdgeIsLost == Spec => []NoLostEdge
<1>1. IInv => NoLostEdge
  BY DEF IInv
<1>2. QED BY <1>1, Invariant, PTL

\* For any size and any growth of the table, the assertion of _get_file_event fails
\* only for a descriptor equal to the size it has grown to, and the driver fails only
\* for a descriptor the table is wrong about (create_file_event, _get_file_event).
THEOREM AssertionsFailInTwoCases == Spec => []AssertionsHold
<1>1. IInv => AssertionsHold
  BY DEF IInv
<1>2. QED BY <1>1, Invariant, PTL
=============================================================================
