-------------------------- MODULE SessionResetProofs --------------------------
(* Theorems of SessionReset: for any number of messages, reads and lost sessions *)
(* nothing of a lost session reaches the new peer, nothing submitted after the   *)
(* reset is dropped with the old socket, and what is acknowledged was dispatched. *)
(* The invariant relates the two event loops: which phase of the replacement the *)
(* connection is in says whose socket cs is, and so what may lie in its buffer.  *)
EXTENDS SessionReset, SequenceTheorems, TLAPS

Elems(s) == {s[i] : i \in DOMAIN s}

Frame == [tag : {"MSG", "ACK"}, seq : Nat, m : Nat]

TypeOK ==
  /\ out_q \in Seq(Nat) /\ sent \in Seq(Nat) /\ log \in Seq(Nat)
  /\ outcoming_bl \in Seq(Frame) /\ received \in Seq(Frame)
  /\ out_seq \in Nat /\ in_seq \in Nat /\ ack_left \in Nat /\ left \in Nat /\ msg \in Nat
  /\ can_write \in {"NOWRITE", "REPLACING", "CANWRITE"}
  /\ state \in {"OPEN", "NONE", "ACCEPTING"}
  /\ writer \in {"idle", "loop", "write", "unlocked", "ack"}
  /\ acceptor \in {"none", "reset"}
  /\ cs \in Nat /\ session \in Nat /\ read \in Nat /\ dispatched \in Nat /\ torn \in BOOLEAN

\* Between was_session_reset and deactivate_existing the socket is the lost peer's,
\* and CANWRITE is set only while it is the current one's.
PhaseInv ==
  /\ acceptor = "reset" => state = "OPEN" /\ cs # session /\ can_write = "NOWRITE"
  /\ state = "OPEN" /\ acceptor = "none" => cs = session /\ can_write = "CANWRITE"
  /\ state = "NONE" => acceptor = "none" /\ cs # session /\ can_write = "REPLACING"
  /\ state = "ACCEPTING" => /\ acceptor = "none" /\ cs = session /\ can_write = "REPLACING"
                            /\ writer = "idle" /\ outcoming_bl = <<>>

\* Submitted to the peer that is there now.
Current(i) == i \in DOMAIN log /\ log[i] = session

Fresh(f) == IF f.tag = "MSG" THEN Current(f.m) ELSE f.seq <= dispatched

\* The queues hold the session's messages only; the buffer and the message being
\* written are of the session whose socket they are for.
FreshInv ==
  /\ \A i \in DOMAIN log : log[i] <= session
  /\ \A i \in Elems(out_q) \cup Elems(sent) : Current(i)
  /\ \A f \in Elems(received) : Fresh(f)
  /\ writer # "write" => msg = NoMsg
  /\ cs = session => /\ \A f \in Elems(outcoming_bl) : Fresh(f)
                     /\ writer = "write" => Current(msg)
  /\ cs # session => received = <<>>

\* While the socket is the lost peer's, all that was submitted since waits in out_q.
KeptInv ==
  \A i \in DOMAIN log : log[i] = session =>
     IF cs = session
     THEN i \in Elems(out_q) \cup {msg} \cup {f.m : f \in Elems(outcoming_bl) \cup Elems(received)}
     ELSE i \in Elems(out_q)

\* handle_write's two uses of ack_left see the same value unless a reset came between.
AckInv ==
  /\ dispatched <= read /\ read <= MaxReads /\ in_seq = dispatched
  /\ cs # session \/ state = "ACCEPTING" => dispatched = 0
  /\ ~torn =>
       /\ ack_left <= dispatched
       /\ writer = "ack" => left = ack_left /\ ack_left > 0
       /\ \/ ack_left > 0 \/ dispatched = 0
          \/ \E f \in Elems(outcoming_bl) \cup Elems(received) : f.tag = "ACK" /\ f.seq = dispatched

\* requeue_sent takes out_seq back by what write_message has numbered.
SentInv == Len(sent) <= out_seq + IF writer = "write" THEN 1 ELSE 0

IInv == TypeOK /\ PhaseInv /\ FreshInv /\ KeptInv /\ AckInv /\ SentInv

-------------------------------------------------------------------------------
(* What is held in a sequence. *)

LEMMA ElemsConcat ==
  ASSUME NEW S, NEW s \in Seq(S), NEW t \in Seq(S)
  PROVE  s \o t \in Seq(S) /\ Elems(s \o t) = Elems(s) \cup Elems(t)
<1>1. /\ s \o t \in Seq(S) /\ Len(s \o t) = Len(s) + Len(t)
      /\ \A i \in 1 .. Len(s) + Len(t) :
            (s \o t)[i] = IF i <= Len(s) THEN s[i] ELSE t[i - Len(s)]
  BY ConcatProperties
<1>2. /\ DOMAIN s = 1 .. Len(s) /\ DOMAIN t = 1 .. Len(t) /\ Len(s) \in Nat /\ Len(t) \in Nat
      /\ DOMAIN (s \o t) = 1 .. Len(s) + Len(t)
  BY <1>1
<1>3. ASSUME NEW i \in DOMAIN s PROVE i \in DOMAIN (s \o t) /\ (s \o t)[i] = s[i]
  BY <1>1, <1>2
<1>4. ASSUME NEW i \in DOMAIN t
      PROVE  Len(s) + i \in DOMAIN (s \o t) /\ (s \o t)[Len(s) + i] = t[i]
  <2>1. Len(s) + i \in 1 .. Len(s) + Len(t) /\ ~(Len(s) + i <= Len(s)) /\ Len(s) + i - Len(s) = i
    BY <1>2
  <2>2. QED BY <1>1, <1>2, <2>1
<1>5. ASSUME NEW i \in DOMAIN (s \o t)
      PROVE  (s \o t)[i] \in Elems(s) \cup Elems(t)
  <2>1. CASE i <= Len(s)
    BY <1>1, <1>2, <2>1 DEF Elems
  <2>2. CASE i > Len(s)
    <3>1. i - Len(s) \in DOMAIN t /\ ~(i <= Len(s)) /\ i \in 1 .. Len(s) + Len(t)
      BY <1>2, <2>2
    <3>2. QED BY <1>1, <3>1 DEF Elems
  <2>3. QED BY <1>2, <2>1, <2>2
<1>6. Elems(s \o t) \subseteq Elems(s) \cup Elems(t)
  BY <1>5 DEF Elems
<1>7. Elems(s) \subseteq Elems(s \o t)
  BY <1>3 DEF Elems
<1>8. Elems(t) \subseteq Elems(s \o t)
  <2>1. ASSUME NEW e \in Elems(t) PROVE e \in Elems(s \o t)
    <3>1. PICK i \in DOMAIN t : e = t[i]
      BY DEF Elems
    <3>2. QED BY <1>4, <3>1 DEF Elems
  <2>2. QED BY <2>1
<1>9. QED BY <1>1, <1>6, <1>7, <1>8

LEMMA ElemsAppend ==
  ASSUME NEW S, NEW s \in Seq(S), NEW e \in S
  PROVE  /\ Append(s, e) \in Seq(S) /\ Len(Append(s, e)) = Len(s) + 1
         /\ Elems(Append(s, e)) = Elems(s) \cup {e}
<1>1. /\ Append(s, e) \in Seq(S) /\ Len(Append(s, e)) = Len(s) + 1 /\ Len(s) \in Nat
      /\ Append(s, e)[Len(s) + 1] = e
      /\ \A i \in 1 .. Len(s) : Append(s, e)[i] = s[i]
  BY AppendProperties
<1>2. DOMAIN s = 1 .. Len(s) /\ DOMAIN Append(s, e) = 1 .. Len(s) + 1
  BY <1>1
<1>3. 1 .. Len(s) + 1 = 1 .. Len(s) \cup {Len(s) + 1}
  BY <1>1
<1>4. QED BY <1>1, <1>2, <1>3 DEF Elems

LEMMA ElemsTail ==
  ASSUME NEW S, NEW s \in Seq(S), s # <<>>
  PROVE  Head(s) \in S /\ Tail(s) \in Seq(S) /\ Elems(s) = {Head(s)} \cup Elems(Tail(s))
<1>1. /\ Head(s) \in S /\ Head(s) = s[1] /\ Tail(s) \in Seq(S) /\ Len(s) \in Nat \ {0}
      /\ Len(Tail(s)) = Len(s) - 1 /\ \A i \in 1 .. Len(s) - 1 : Tail(s)[i] = s[i + 1]
  BY HeadTailProperties, EmptySeq
<1>2. DOMAIN s = 1 .. Len(s) /\ DOMAIN Tail(s) = 1 .. Len(s) - 1
  BY <1>1
<1>3. ASSUME NEW i \in DOMAIN s PROVE i = 1 \/ (i - 1 \in DOMAIN Tail(s) /\ Tail(s)[i - 1] = s[i])
  <2>1. CASE i # 1
    <3>1. i - 1 \in 1 .. Len(s) - 1 /\ (i - 1) + 1 = i
      BY <1>1, <1>2, <2>1
    <3>2. Tail(s)[i - 1] = s[(i - 1) + 1]
      BY <1>1, <3>1
    <3>3. QED BY <1>2, <3>1, <3>2
  <2>2. QED BY <2>1
<1>4. ASSUME NEW i \in DOMAIN Tail(s) PROVE i + 1 \in DOMAIN s /\ Tail(s)[i] = s[i + 1]
  BY <1>1, <1>2
<1>5. 1 \in DOMAIN s
  BY <1>1, <1>2
<1>6. QED BY <1>1, <1>3, <1>4, <1>5 DEF Elems

LEMMA ElemsEmpty == Elems(<<>>) = {}
BY DEF Elems

\* Counting below the word's size does not wrap around.
LEMMA NoWrap ==
  ASSUME NEW n \in Nat, n <= MaxReads
  PROVE  n % Word = n
BY ResetAssumption

\* Whatever is subtracted, an unsigned counter holds a natural number.
LEMMA Unsigned == ASSUME NEW n \in Int PROVE n % Word \in Nat
BY ResetAssumption

-------------------------------------------------------------------------------
(* What each action keeps. *)

\* Whoever's socket it is, what is not taken stays buffered; the current peer has
\* received what was taken.
LEMMA TrySendProps ==
  ASSUME TypeOK, NEW buf \in Seq(Frame), NEW taken \in BOOLEAN, TrySend(buf, taken)
  PROVE  /\ outcoming_bl' \in Seq(Frame) /\ received' \in Seq(Frame)
         /\ Elems(outcoming_bl') \subseteq Elems(buf)
         /\ cs = session => Elems(outcoming_bl') \cup Elems(received') = Elems(buf) \cup Elems(received)
         /\ cs # session => received' = received
<1>1. received \in Seq(Frame) /\ <<>> \in Seq(Frame)
  BY DEF TypeOK
<1>2. received \o buf \in Seq(Frame) /\ Elems(received \o buf) = Elems(received) \cup Elems(buf)
  BY <1>1, ElemsConcat
<1>3. CASE taken
  BY <1>1, <1>2, <1>3, ElemsEmpty DEF TrySend
<1>4. CASE ~taken
  BY <1>1, <1>4 DEF TrySend
<1>5. QED BY <1>3, <1>4

\* A step that neither submits a message nor resets the session.
LEMMA SameMessages ==
  ASSUME log' = log, session' = session, dispatched' = dispatched
  PROVE  \A x : (Current(x)' <=> Current(x)) /\ (Fresh(x)' <=> Fresh(x))
BY DEF Current, Fresh

LEMMA InitInv == Init => IInv
<1> SUFFICES ASSUME Init PROVE IInv
  OBVIOUS
<1> USE DEF Init, NoMsg
<1>1. TypeOK
  <2>1. <<>> \in Seq(Nat) /\ <<>> \in Seq(Frame)
    OBVIOUS
  <2>2. QED BY <2>1 DEF TypeOK
<1>2. PhaseInv /\ SentInv
  BY DEF PhaseInv, SentInv
<1>3. FreshInv /\ KeptInv /\ AckInv
  BY ElemsEmpty, ResetAssumption DEF FreshInv, KeptInv, AckInv
<1>4. QED BY <1>1, <1>2, <1>3 DEF IInv

LEMMA SendStep == ASSUME IInv, send_message PROVE IInv'
<1> USE DEF IInv
<1>0. /\ log \in Seq(Nat) /\ session \in Nat /\ out_q \in Seq(Nat) /\ Len(log) \in Nat
      /\ log' = Append(log, session) /\ out_q' = Append(out_q, Len(log) + 1)
      /\ UNCHANGED <<sent, out_seq, in_seq, ack_left, can_write, state, outcoming_bl, cs,
                     writer, msg, left, acceptor, read, session, dispatched, received, torn>>
  BY DEF TypeOK, send_message
<1>1. /\ log' \in Seq(Nat) /\ DOMAIN log = 1 .. Len(log) /\ DOMAIN log' = 1 .. Len(log) + 1
      /\ Len(log) \in Nat /\ log'[Len(log) + 1] = session
      /\ \A i \in DOMAIN log : i \in DOMAIN log' /\ log'[i] = log[i]
      /\ \A i \in DOMAIN log' : i \in DOMAIN log \/ i = Len(log) + 1
  BY <1>0, AppendProperties
<1>2. out_q' \in Seq(Nat) /\ Elems(out_q') = Elems(out_q) \cup {Len(log) + 1}
  <2> DEFINE n == Len(log) + 1
  <2>1. n \in Nat /\ out_q' = Append(out_q, n)
    BY <1>0
  <2> HIDE DEF n
  <2>2. out_q' \in Seq(Nat) /\ Elems(out_q') = Elems(out_q) \cup {n}
    BY <1>0, <2>1, ElemsAppend
  <2>3. QED BY <2>2 DEF n
<1>3. \A x : (Current(x) => Current(x)') /\ (Fresh(x) => Fresh(x)')
  BY <1>0, <1>1 DEF Current, Fresh
<1>4. TypeOK'
  BY <1>0, <1>1, <1>2 DEF TypeOK
<1>5. FreshInv'
  <2>1. \A i \in DOMAIN log' : log'[i] <= session
    BY <1>0, <1>1 DEF FreshInv
  <2>2. \A x : x = Len(log) + 1 => Current(x)'
    BY <1>0, <1>1 DEF Current
  <2>3. \A i \in Elems(out_q') \cup Elems(sent) : Current(i)'
    BY <1>2, <1>3, <2>2 DEF FreshInv
  <2>4. QED BY <1>0, <1>3, <2>1, <2>3 DEF FreshInv
<1>6. KeptInv'
  BY <1>0, <1>1, <1>2 DEF KeptInv
<1>7. PhaseInv' /\ AckInv' /\ SentInv'
  BY <1>0 DEF PhaseInv, AckInv, SentInv
<1>8. QED BY <1>4, <1>5, <1>6, <1>7

LEMMA ReadStep == ASSUME IInv, read_message PROVE IInv'
<1> USE DEF IInv, read_message
<1>1. /\ read' = read + 1 /\ dispatched' = dispatched + 1 /\ in_seq' = in_seq + 1
      /\ read + 1 <= MaxReads /\ MaxReads \in Nat /\ {read, dispatched, in_seq, ack_left} \subseteq Nat
  BY ResetAssumption DEF TypeOK
<1>2. ack_left' = (ack_left + 1) % Word /\ ack_left' \in Nat
  BY <1>1, Unsigned
<1>3. TypeOK'
  BY <1>1, <1>2 DEF TypeOK
<1>4. \A x : (Current(x)' <=> Current(x)) /\ (Fresh(x) => Fresh(x)' \/ x.seq \notin Nat)
  BY <1>1 DEF Current, Fresh
<1>5. \A f \in Elems(received) \cup Elems(outcoming_bl) : f.seq \in Nat
  <2>1. received \in Seq(Frame) /\ outcoming_bl \in Seq(Frame)
    BY DEF TypeOK
  <2>2. Elems(received) \cup Elems(outcoming_bl) \subseteq Frame
    BY <2>1 DEF Elems
  <2>3. QED BY <2>2 DEF Frame
<1>6. FreshInv' /\ KeptInv'
  BY <1>4, <1>5 DEF FreshInv, KeptInv
<1>7. ~torn => ack_left' = ack_left + 1
  BY <1>1, <1>2, NoWrap DEF AckInv
<1>8. AckInv'
  BY <1>1, <1>7 DEF AckInv, PhaseInv
<1>9. PhaseInv' /\ SentInv'
  BY DEF PhaseInv, SentInv
<1>10. QED BY <1>3, <1>6, <1>8, <1>9

\* What is buffered may be sent, and nothing else changes but the writer.
LEMMA HandleWriteStep == ASSUME IInv, handle_write PROVE IInv'
<1> USE DEF IInv
<1>1. /\ UNCHANGED <<out_q, sent, out_seq, in_seq, ack_left, can_write, state, cs,
                     msg, left, acceptor, log, read, session, dispatched, torn>>
      /\ writer = "idle" /\ writer' \in {"idle", "loop"}
      /\ writer' = "loop" => can_write = "CANWRITE" /\ UNCHANGED <<outcoming_bl, received>>
  BY DEF handle_write
<1>2. /\ outcoming_bl' \in Seq(Frame) /\ received' \in Seq(Frame)
      /\ Elems(outcoming_bl') \subseteq Elems(outcoming_bl)
      /\ cs = session => Elems(outcoming_bl') \cup Elems(received')
                            = Elems(outcoming_bl) \cup Elems(received)
      /\ cs # session => received' = received
      /\ outcoming_bl = <<>> => outcoming_bl' = <<>>
  <2>1. CASE UNCHANGED <<outcoming_bl, received>>
    BY <2>1 DEF TypeOK
  <2>2. ASSUME NEW taken \in BOOLEAN, TrySend(outcoming_bl, taken) PROVE <1>2
    <3>1. outcoming_bl = <<>> => outcoming_bl' = <<>>
      BY <2>2 DEF TrySend
    <3>2. QED BY <2>2, <3>1, TrySendProps DEF TypeOK
  <2>3. QED BY <2>1, <2>2 DEF handle_write
<1>3. \A x : (Current(x)' <=> Current(x)) /\ (Fresh(x)' <=> Fresh(x))
  BY <1>1, SameMessages
<1>4. TypeOK'
  BY <1>1, <1>2 DEF TypeOK
<1>5. PhaseInv'
  BY <1>1, <1>2 DEF PhaseInv
<1>6. FreshInv'
  BY <1>1, <1>2, <1>3 DEF FreshInv
<1>7. KeptInv'
  BY <1>1, <1>2 DEF KeptInv
<1>8. AckInv' /\ SentInv'
  BY <1>1, <1>2 DEF AckInv, SentInv
<1>9. QED BY <1>4, <1>5, <1>6, <1>7, <1>8

LEMMA GetNextStep == ASSUME IInv, get_next_outgoing PROVE IInv'
<1> USE DEF IInv
<1>1. /\ UNCHANGED <<out_seq, in_seq, ack_left, can_write, state, outcoming_bl, cs, left,
                     acceptor, log, read, session, dispatched, received, torn>>
      /\ writer = "loop"
  BY DEF get_next_outgoing
<1>2. \A x : (Current(x)' <=> Current(x)) /\ (Fresh(x)' <=> Fresh(x))
  BY <1>1, SameMessages
<1>3. CASE ~(can_write = "CANWRITE" /\ out_q # <<>>)
  <2>1. writer' = "unlocked" /\ UNCHANGED <<msg, out_q, sent>>
    BY <1>3 DEF get_next_outgoing
  <2>2. TypeOK' /\ PhaseInv' /\ SentInv'
    BY <1>1, <2>1 DEF TypeOK, PhaseInv, SentInv
  <2>3. FreshInv' /\ KeptInv' /\ AckInv'
    BY <1>1, <1>2, <2>1 DEF FreshInv, KeptInv, AckInv
  <2>4. QED BY <2>2, <2>3
<1>4. CASE can_write = "CANWRITE" /\ out_q # <<>>
  <2>1. msg' = Head(out_q) /\ out_q' = Tail(out_q) /\ sent' = Append(sent, Head(out_q)) /\ writer' = "write"
    BY <1>4 DEF get_next_outgoing
  <2>2. Head(out_q) \in Nat /\ out_q' \in Seq(Nat) /\ Elems(out_q) = {msg'} \cup Elems(out_q')
    BY <1>4, <2>1, ElemsTail DEF TypeOK
  <2>3. sent' \in Seq(Nat) /\ Len(sent') = Len(sent) + 1 /\ Elems(sent') = Elems(sent) \cup {msg'}
    BY <2>1, <2>2, ElemsAppend DEF TypeOK
  <2>4. TypeOK'
    BY <1>1, <2>1, <2>2, <2>3 DEF TypeOK
  <2>5. cs = session /\ PhaseInv'
    BY <1>1, <1>4, <2>1 DEF PhaseInv, TypeOK
  <2>6. FreshInv'
    BY <1>1, <1>2, <2>1, <2>2, <2>3 DEF FreshInv
  <2>7. KeptInv'
    <3>1. msg = NoMsg
      BY <1>1 DEF FreshInv
    <3>2. \A i \in DOMAIN log : i # NoMsg
      BY DEF TypeOK, NoMsg
    <3>3. QED BY <1>1, <2>2, <2>5, <3>1, <3>2 DEF KeptInv
  <2>8. AckInv' /\ SentInv'
    <3>1. Len(sent) \in Nat /\ out_seq \in Nat
      BY DEF TypeOK
    <3>2. SentInv'
      BY <1>1, <2>1, <2>3, <3>1 DEF SentInv
    <3>3. QED BY <1>1, <2>1, <3>2 DEF AckInv
  <2>9. QED BY <2>4, <2>5, <2>6, <2>7, <2>8
<1>5. QED BY <1>3, <1>4

LEMMA WriteStep == ASSUME IInv, write_message PROVE IInv'
<1> USE DEF IInv
<1> DEFINE f == [tag |-> "MSG", seq |-> out_seq + 1, m |-> msg]
           buf == Append(outcoming_bl, f)
<1>1. /\ UNCHANGED <<out_q, sent, in_seq, ack_left, can_write, state, cs, left, acceptor,
                     log, read, session, dispatched, torn>>
      /\ writer = "write" /\ writer' \in {"loop", "unlocked"} /\ msg' = NoMsg
      /\ out_seq' = out_seq + 1
  BY DEF write_message
<1>2. f \in Frame /\ f.tag = "MSG" /\ f.m = msg
  BY DEF TypeOK, Frame
<1>3. PICK taken \in BOOLEAN : TrySend(buf, taken)
  BY DEF write_message
<1> HIDE DEF f
<1>4. buf \in Seq(Frame) /\ Elems(buf) = Elems(outcoming_bl) \cup {f}
  BY <1>2, ElemsAppend DEF TypeOK
<1> HIDE DEF buf
<1>5. /\ outcoming_bl' \in Seq(Frame) /\ received' \in Seq(Frame)
      /\ Elems(outcoming_bl') \subseteq Elems(buf)
      /\ cs = session => Elems(outcoming_bl') \cup Elems(received')
                            = Elems(outcoming_bl) \cup {f} \cup Elems(received)
      /\ cs # session => received' = received
  BY <1>3, <1>4, TrySendProps
<1>6. \A x : (Current(x)' <=> Current(x)) /\ (Fresh(x)' <=> Fresh(x))
  BY <1>1, SameMessages
<1>7. TypeOK'
  BY <1>1, <1>5 DEF TypeOK, NoMsg
<1>8. PhaseInv' /\ SentInv'
  <2>1. Len(sent) \in Nat /\ out_seq \in Nat
    BY DEF TypeOK
  <2>2. SentInv'
    BY <1>1, <2>1 DEF SentInv
  <2>3. QED BY <1>1, <2>2 DEF PhaseInv
<1>9. FreshInv'
  <2>1. cs = session => Fresh(f)
    BY <1>1, <1>2 DEF FreshInv, Fresh
  <2>2. cs = session => \A g \in Elems(outcoming_bl') \cup Elems(received') : Fresh(g)
    BY <1>5, <2>1 DEF FreshInv
  <2>3. \A g \in Elems(received') : Fresh(g)
    BY <1>5, <2>2 DEF FreshInv
  <2>4. QED BY <1>1, <1>5, <1>6, <2>2, <2>3 DEF FreshInv
<1>10. KeptInv'
  <2>1. ASSUME NEW i \in DOMAIN log, log[i] = session, cs = session
        PROVE  i \in Elems(out_q) \cup {g.m : g \in Elems(outcoming_bl') \cup Elems(received')}
    <3>1. i \in Elems(out_q) \cup {msg} \cup {g.m : g \in Elems(outcoming_bl) \cup Elems(received)}
      BY <2>1 DEF KeptInv
    <3>2. f \in Elems(outcoming_bl') \cup Elems(received')
      BY <1>5, <2>1
    <3>3. QED BY <1>2, <1>5, <2>1, <3>1, <3>2
  <2>2. QED BY <1>1, <2>1 DEF KeptInv
<1>11. AckInv'
  BY <1>1, <1>5 DEF AckInv
<1>12. QED BY <1>7, <1>8, <1>9, <1>10, <1>11

LEMMA ReadAckLeftStep == ASSUME IInv, read_ack_left PROVE IInv'
<1> USE DEF IInv, read_ack_left
<1>1. \A x : (Current(x)' <=> Current(x)) /\ (Fresh(x)' <=> Fresh(x))
  BY SameMessages
<1>2. TypeOK' /\ PhaseInv' /\ SentInv'
  BY DEF TypeOK, PhaseInv, SentInv
<1>3. FreshInv' /\ KeptInv'
  BY <1>1 DEF FreshInv, KeptInv
<1>4. AckInv'
  BY DEF AckInv
<1>5. QED BY <1>2, <1>3, <1>4

LEMMA WriteAckStep == ASSUME IInv, write_ack PROVE IInv'
<1> USE DEF IInv
<1> DEFINE f == [tag |-> "ACK", seq |-> in_seq, m |-> NoMsg]
           buf == Append(outcoming_bl, f)
<1>1. /\ UNCHANGED <<out_q, sent, out_seq, in_seq, can_write, state, cs, msg, acceptor,
                     log, read, session, dispatched, torn>>
      /\ writer = "ack" /\ writer' = "idle" /\ left' = 0
      /\ ack_left' = (ack_left - left) % Word
  BY DEF write_ack
<1>2. f \in Frame /\ f.tag = "ACK" /\ f.seq = dispatched
  BY DEF TypeOK, Frame, NoMsg, AckInv
<1>3. PICK taken \in BOOLEAN : TrySend(buf, taken)
  BY DEF write_ack
<1> HIDE DEF f
<1>4. buf \in Seq(Frame) /\ Elems(buf) = Elems(outcoming_bl) \cup {f}
  BY <1>2, ElemsAppend DEF TypeOK
<1> HIDE DEF buf
<1>5. /\ outcoming_bl' \in Seq(Frame) /\ received' \in Seq(Frame)
      /\ Elems(outcoming_bl') \subseteq Elems(buf)
      /\ cs = session => Elems(outcoming_bl') \cup Elems(received')
                            = Elems(outcoming_bl) \cup {f} \cup Elems(received)
      /\ cs # session => received' = received
  BY <1>3, <1>4, TrySendProps
<1>6. \A x : (Current(x)' <=> Current(x)) /\ (Fresh(x)' <=> Fresh(x))
  BY <1>1, SameMessages
<1>7. ack_left' \in Nat
  BY <1>1, Unsigned DEF TypeOK
<1>8. TypeOK' /\ PhaseInv' /\ SentInv'
  BY <1>1, <1>5, <1>7 DEF TypeOK, PhaseInv, SentInv
<1>9. FreshInv'
  <2>1. Fresh(f)
    BY <1>2 DEF Fresh, TypeOK
  <2>2. cs = session => \A g \in Elems(outcoming_bl') \cup Elems(received') : Fresh(g)
    BY <1>5, <2>1 DEF FreshInv
  <2>3. \A g \in Elems(received') : Fresh(g)
    BY <1>5, <2>2 DEF FreshInv
  <2>4. QED BY <1>1, <1>5, <1>6, <2>2, <2>3 DEF FreshInv
<1>10. KeptInv'
  BY <1>1, <1>5 DEF KeptInv
<1>11. AckInv'
  <2>1. ~torn => ack_left' = 0
    <3>1. ~torn => ack_left - left = 0
      BY <1>1 DEF AckInv, TypeOK
    <3>2. QED BY <1>1, <3>1, NoWrap, ResetAssumption
  <2>2. ~torn => cs = session
    BY <1>1 DEF AckInv, TypeOK
  <2>3. QED BY <1>1, <1>2, <1>5, <2>1, <2>2 DEF AckInv, TypeOK
<1>12. QED BY <1>8, <1>9, <1>10, <1>11

LEMMA DeactivateStep == ASSUME IInv, deactivate PROVE IInv'
<1> USE DEF IInv, deactivate
<1>1. /\ out_q' \in Seq(Nat) /\ Elems(out_q') = Elems(sent) \cup Elems(out_q)
      /\ sent' = <<>> /\ Elems(sent') = {} /\ Elems(outcoming_bl') = {}
  BY ElemsConcat, ElemsEmpty DEF TypeOK
<1>2. out_seq' \in Nat
  BY DEF TypeOK, SentInv
<1>3. \A x : (Current(x)' <=> Current(x)) /\ (Fresh(x)' <=> Fresh(x))
  BY SameMessages
<1>4. TypeOK' /\ SentInv'
  BY <1>1, <1>2 DEF TypeOK, SentInv
<1>5. PhaseInv'
  BY DEF PhaseInv
<1>6. cs # session
  BY DEF PhaseInv
<1>7. FreshInv' /\ KeptInv'
  BY <1>1, <1>3, <1>6 DEF FreshInv, KeptInv
<1>8. AckInv'
  BY <1>6 DEF AckInv
<1>9. QED BY <1>4, <1>5, <1>7, <1>8

LEMMA OpenStep == ASSUME IInv, open PROVE IInv'
<1> USE DEF IInv, open
<1>1. \A x : (Current(x)' <=> Current(x)) /\ (Fresh(x)' <=> Fresh(x))
  BY SameMessages
<1>2. TypeOK' /\ PhaseInv' /\ SentInv'
  BY DEF TypeOK, PhaseInv, SentInv
<1>3. FreshInv' /\ KeptInv'
  BY <1>1 DEF FreshInv, KeptInv
<1>4. AckInv'
  BY DEF AckInv
<1>5. QED BY <1>2, <1>3, <1>4

\* No message was submitted yet in the session that begins.
LEMMA ResetStep == ASSUME IInv, was_session_reset PROVE IInv'
<1> USE DEF IInv, was_session_reset
<1>1. /\ session' = session + 1 /\ session \in Nat /\ cs = session /\ cs' # session'
      /\ \A i \in DOMAIN log : log[i] \in Nat /\ log[i] <= session
  BY DEF PhaseInv, FreshInv, TypeOK
<1>2. /\ out_q' = <<>> /\ sent' = <<>> /\ received' = <<>>
      /\ Elems(out_q') = {} /\ Elems(sent') = {} /\ Elems(received') = {}
  BY ElemsEmpty DEF discard_out_queue
<1>3. TypeOK' /\ PhaseInv' /\ SentInv'
  BY <1>1, <1>2 DEF TypeOK, PhaseInv, SentInv, first_out_seq
<1>4. FreshInv'
  BY <1>1, <1>2 DEF FreshInv
<1>5. KeptInv'
  BY <1>1 DEF KeptInv
<1>6. AckInv'
  <2>1. /\ dispatched' = 0 /\ in_seq' = 0 /\ ack_left' = 0 /\ read' = read /\ writer' = writer
        /\ read \in Nat /\ read <= MaxReads
    BY DEF TypeOK, AckInv
  <2>2. ~torn' => writer' # "ack"
    OBVIOUS
  <2> HIDE DEF was_session_reset, IInv
  <2>3. dispatched' <= read' /\ ack_left' <= dispatched'
    BY <2>1
  <2>4. QED BY <2>1, <2>2, <2>3 DEF AckInv
<1>7. QED BY <1>3, <1>4, <1>5, <1>6

LEMMA ReplaceStep == ASSUME IInv, replace PROVE IInv'
<1> USE DEF IInv, replace
<1>1. \A x : (Current(x)' <=> Current(x)) /\ (Fresh(x)' <=> Fresh(x))
  BY SameMessages
<1>2. TypeOK' /\ PhaseInv' /\ SentInv'
  BY DEF TypeOK, PhaseInv, SentInv
<1>3. FreshInv' /\ KeptInv'
  BY <1>1 DEF FreshInv, KeptInv
<1>4. AckInv'
  BY DEF AckInv, PhaseInv
<1>5. QED BY <1>2, <1>3, <1>4

LEMMA Inductive == IInv /\ [Next]_vars => IInv'
<1> SUFFICES ASSUME IInv, [Next]_vars PROVE IInv'
  OBVIOUS
<1>1. CASE UNCHANGED vars
  <2>1. \A x : (Current(x)' <=> Current(x)) /\ (Fresh(x)' <=> Fresh(x))
    BY <1>1, SameMessages DEF vars
  <2>2. TypeOK' /\ PhaseInv' /\ SentInv'
    BY <1>1 DEF vars, IInv, TypeOK, PhaseInv, SentInv
  <2>3. FreshInv' /\ KeptInv' /\ AckInv'
    BY <1>1, <2>1 DEF vars, IInv, FreshInv, KeptInv, AckInv
  <2>4. QED BY <2>2, <2>3 DEF IInv
<1>2. CASE Next
  BY <1>2, SendStep, ReadStep, HandleWriteStep, GetNextStep, WriteStep, ReadAckLeftStep,
     WriteAckStep, DeactivateStep, OpenStep, ResetStep, ReplaceStep DEF Next
<1>3. QED BY <1>1, <1>2

-------------------------------------------------------------------------------
(* Theorems. *)

\* In every phase of a replacement the queues, the buffer and the counters belong
\* to the session they should: handle_write needs no lock for that while it writes,
\* and was_session_reset may run between any two of its steps.
THEOREM Invariant == Spec => []IInv
BY InitInv, Inductive, PTL DEF Spec

\* Nothing of a lost session reaches the peer's new one, however handle_write of
\* the existing connection and handle_connect_msg of the new one interleave.
THEOREM NothingOldArrives == Spec => []NothingOld
<1>1. IInv => NothingOld
  BY DEF IInv, FreshInv, Fresh, Current, NothingOld, Elems
<1>2. QED BY <1>1, Invariant, PTL

\* What is submitted after the reset is not dropped with the old socket's buffer
\* by deactivate_existing, nor with the queue by discard_out_queue.
THEOREM NothingNewIsLost == Spec => []NewKept
<1>1. ASSUME IInv PROVE NewKept
  <2> DEFINE Written == outcoming_bl \o received
  <2>1. /\ Elems(Written) = Elems(outcoming_bl) \cup Elems(received)
        /\ \A i \in DOMAIN log : log[i] = session =>
              i \in Elems(out_q) \cup {msg} \cup {f.m : f \in Elems(Written)}
    BY <1>1, ElemsConcat DEF IInv, TypeOK, KeptInv
  <2> HIDE DEF Written
  <2>2. {f.m : f \in Elems(Written)} = {Written[i].m : i \in DOMAIN Written}
    BY DEF Elems
  <2>3. QED BY <2>1, <2>2 DEF NewKept, Elems, Written
<1>2. QED BY <1>1, Invariant, PTL

\* A message is acknowledged once it is dispatched and not before, unless a reset
\* fell between handle_write's two uses of ack_left.
THEOREM AcknowledgementsAreExact == Spec => []AckLeftCounts
<1>1. ASSUME IInv PROVE AckLeftCounts
  <2> DEFINE Written == outcoming_bl \o received
  <2>1. /\ Elems(Written) = Elems(outcoming_bl) \cup Elems(received)
        /\ ~torn => /\ ack_left <= dispatched
                    /\ \/ ack_left > 0 \/ dispatched = 0
                       \/ \E f \in Elems(Written) : f.tag = "ACK" /\ f.seq = dispatched
    BY <1>1, ElemsConcat DEF IInv, TypeOK, AckInv
  <2> HIDE DEF Written
  <2>2. (\E f \in Elems(Written) : f.tag = "ACK" /\ f.seq = dispatched)
        => \E i \in DOMAIN Written : Written[i].tag = "ACK" /\ Written[i].seq = dispatched
    BY DEF Elems
  <2>3. QED BY <2>1, <2>2 DEF AckLeftCounts, Written
<1>2. QED BY <1>1, Invariant, PTL

\* The counters that requeue_sent and write_ack subtract from never become negative,
\* and every queue holds what it should.
THEOREM TypeCorrect == Spec => []TypeOK
<1>1. IInv => TypeOK
  BY DEF IInv
<1>2. QED BY <1>1, Invariant, PTL
===============================================================================
