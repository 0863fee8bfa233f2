---------------------------- MODULE SessionProofs ----------------------------
(***************************************************************************)
(* Session for every number of messages and faults and every policy: type  *)
(* correctness, that the receiver never reads an old or a skipped sequence *)
(* number, and that it implements the channel.                             *)
(***************************************************************************)
EXTENDS SessionInv, SequenceTheorems, TLAPS

-------------------------------------------------------------------------------
(* What Leading returns, once some k is known to have its property. *)
LEMMA LeadingUnique ==
  ASSUME NEW q \in Seq(Msg), NEW S, NEW k \in 0 .. Len(q),
         \A i \in 1 .. k : q[i].seq \in S,
         k < Len(q) => q[k + 1].seq \notin S
  PROVE  Leading(q, S) = k
<1> DEFINE P(j) == /\ \A i \in 1 .. j : q[i].seq \in S
                   /\ j < Len(q) => q[j + 1].seq \notin S
<1>1. P(k)
  OBVIOUS
<1>2. ASSUME NEW j \in 0 .. Len(q), P(j) PROVE j = k
  <2>1. CASE j < k
    <3>1. j + 1 \in 1 .. k /\ j < Len(q)
      BY <2>1
    <3>2. QED BY <3>1, <1>2
  <2>2. CASE k < j
    <3>1. k + 1 \in 1 .. j /\ k < Len(q)
      BY <2>2
    <3>2. QED BY <3>1, <1>2
  <2>3. QED BY <2>1, <2>2
<1>3. (CHOOSE j \in 0 .. Len(q) : P(j)) = k
  <2> HIDE DEF P
  <2>1. \E j \in 0 .. Len(q) : P(j)
    BY <1>1
  <2>2. (CHOOSE j \in 0 .. Len(q) : P(j)) \in 0 .. Len(q) /\ P(CHOOSE j \in 0 .. Len(q) : P(j))
    BY <2>1
  <2>3. QED BY <2>2, <1>2
<1>4. QED BY <1>3 DEF Leading

(* Dropping from the front of a sequence. *)
LEMMA DropProps ==
  ASSUME NEW q \in Seq(Msg), NEW k \in 0 .. Len(q)
  PROVE  /\ Drop(q, k) \in Seq(Msg)
         /\ Len(Drop(q, k)) = Len(q) - k
         /\ \A i \in 1 .. Len(q) - k : Drop(q, k)[i] = q[k + i]
<1>1. \A i \in k + 1 .. Len(q) : q[i] \in Msg
  OBVIOUS
<1>2. QED BY <1>1, SubSeqProperties DEF Drop

LEMMA NumberedProps ==
  ASSUME TypeOK
  PROVE  Numbered(msg) \in Msg /\ Numbered(msg).seq = out_seq + 1
<1>1. msg \in [id : Nat, seq : Nat] /\ out_seq + 1 \in Nat
  BY DEF TypeOK, Msg
<1>2. [msg EXCEPT !.seq = out_seq + 1] \in [id : Nat, seq : Nat]
  BY <1>1
<1>3. [msg EXCEPT !.seq = out_seq + 1].seq = out_seq + 1
  BY <1>1
<1>4. QED BY <1>2, <1>3 DEF Numbered, Msg

LEMMA RenumberProps ==
  ASSUME TypeOK, NEW s \in Seq(Msg)
  PROVE  /\ Renumber(s) \in Seq(Msg)
         /\ Len(Renumber(s)) = Len(s)
         /\ \A i \in 1 .. Len(s) : Renumber(s)[i].seq =
                IF i = Len(s) THEN out_seq + 1 ELSE s[i].seq
<1>1. \A i \in 1 .. Len(s) : s[i] \in Msg
  OBVIOUS
<1>2. QED BY <1>1, NumberedProps DEF Renumber

-------------------------------------------------------------------------------
(* Each action preserves the invariant. *)

LEMMA Priorities == "highest" \in Prios /\ "default" \in Prios /\ NoMsg \in Msg
BY DEF Prios, NoMsg, Msg

LEMMA InitInv == Init => IInv
<1> SUFFICES ASSUME Init PROVE IInv
  OBVIOUS
<1> USE Priorities DEF Init
<1>1. TypeOK
  <2>1. [tag |-> "SEQ", seq |-> 0] \in Note
    BY DEF Note
  <2>2. toS \in Seq(Note)
    BY <2>1
  <2>3. out_q \in [Prios -> Seq(Msg)] /\ log \in Seq(Prios) /\ delivered \in Seq(Nat)
    OBVIOUS
  <2>4. sent \in Seq(Msg) /\ toR \in Seq(Msg)
    OBVIOUS
  <2>5. QED BY <2>2, <2>3, <2>4 DEF TypeOK
<1>2. WriterInv /\ SentInv
  BY DEF WriterInv, SentInv, Acked, Pending
<1>3. QueueInv
  <2>1. Requeued(0) /\ in_seq + Readable <= LastNumber(0)
    BY DEF Requeued, Readable, LastNumber, Pending, hi
  <2>2. QED BY <2>1 DEF QueueInv, hi, lo
<1>4. ReceiverInv /\ NotesInv
  BY DEF ReceiverInv, NotesInv, Acked, Pending, InOrderArrival
<1>5. QED BY <1>1, <1>2, <1>3, <1>4 DEF IInv

LEMMA SendStep ==
  ASSUME IInv, NEW p \in Prios, send_message(p) PROVE IInv'
<1> USE Priorities DEF IInv, send_message, receiverVars
<1> DEFINE m == [id |-> Len(log) + 1, seq |-> 0]
<1>1. m \in Msg
  BY DEF TypeOK, Msg
<1>2. TypeOK'
  BY <1>1 DEF TypeOK
<1>3. /\ hi \in Seq(Msg) /\ lo \in Seq(Msg)
      /\ hi' = hi \/ hi' = Append(hi, m)
      /\ lo' = lo \/ lo' = Append(lo, m)
  BY DEF TypeOK, Prios, hi, lo
<1>4. (WriterInv /\ SentInv)'
  BY DEF WriterInv, SentInv, Acked, Pending
<1>5. QueueInv'
  <2>1. PICK n \in 0 .. Len(hi) : Requeued(n) /\ in_seq + Readable <= LastNumber(n)
    BY DEF QueueInv
  <2>f. m.seq = 0
    OBVIOUS
  <2> HIDE DEF m
  <2>2. /\ hi' \in Seq(Msg) /\ Len(hi') >= Len(hi)
        /\ \A i \in 1 .. Len(hi) : hi'[i] = hi[i]
        /\ \A i \in Len(hi) + 1 .. Len(hi') : hi'[i].seq = 0
    <3>1. CASE hi' = hi
      BY <3>1, <1>3
    <3>2. CASE hi' = Append(hi, m)
      BY <3>2, <1>1, <1>3, <2>f, AppendProperties
    <3>3. QED BY <3>1, <3>2, <1>3
  <2>3. \A i \in 1 .. Len(lo') : lo'[i].seq = 0
    <3>1. CASE lo' = lo
      BY <3>1 DEF QueueInv
    <3>2. CASE lo' = Append(lo, m)
      BY <3>2, <1>1, <1>3, <2>f, AppendProperties DEF QueueInv
    <3>3. QED BY <3>1, <3>2, <1>3
  <2>4. Requeued(n)' /\ n \in 0 .. Len(hi')
    <3>1. n \in 0 .. Len(hi')
      BY <1>3, <2>2
    <3>2. ASSUME NEW i \in n + 1 .. Len(hi') PROVE hi'[i].seq = 0
      <4>1. CASE i <= Len(hi)
        BY <1>3, <2>1, <2>2, <4>1 DEF Requeued
      <4>2. CASE i > Len(hi)
        BY <1>3, <2>2, <4>2
      <4>3. QED BY <1>3, <4>1, <4>2
    <3>3. \A i \in 1 .. n : (hi[i].seq = out_seq + Pending + i)'
      <4>1. \A i \in 1 .. n : hi'[i] = hi[i] /\ hi[i].seq = out_seq + Pending + i
        BY <1>3, <2>1, <2>2 DEF Requeued
      <4>2. Pending' = Pending /\ out_seq' = out_seq
        BY DEF Pending
      <4>3. QED BY <4>1, <4>2
    <3>4. QED BY <3>1, <3>2, <3>3, <2>1 DEF Requeued
  <2>5. (in_seq + Readable <= LastNumber(n))'
    BY <2>1 DEF Readable, LastNumber, Pending
  <2>6. QED BY <2>3, <2>4, <2>5 DEF QueueInv
<1>6. (ReceiverInv /\ NotesInv)'
  BY DEF ReceiverInv, NotesInv, InOrderArrival, Acked, Pending
<1>7. QED BY <1>2, <1>4, <1>5, <1>6

LEMMA HandleWriteStep == ASSUME IInv, handle_write PROVE IInv'
<1> USE DEF IInv, handle_write, receiverVars, can_write
<1>1. TypeOK'
  BY DEF TypeOK
<1>2. (WriterInv /\ SentInv)'
  BY DEF WriterInv, SentInv, Acked, Pending
<1>3. QueueInv'
  BY DEF QueueInv, Requeued, LastNumber, Readable, Pending, hi, lo
<1>4. (ReceiverInv /\ NotesInv)'
  BY DEF ReceiverInv, NotesInv, InOrderArrival, Acked, Pending
<1>5. QED BY <1>1, <1>2, <1>3, <1>4

LEMMA GetNextStep == ASSUME IInv, get_next_outgoing PROVE IInv'
<1> USE Priorities DEF IInv, get_next_outgoing, receiverVars
<1>h. hi \in Seq(Msg) /\ lo \in Seq(Msg) /\ writer = "loop" /\ Pending = 0
  BY DEF TypeOK, hi, lo, Pending
<1>1. CASE ~(can_write /\ is_queued)
  <2>1. TypeOK'
    BY <1>1 DEF TypeOK
  <2>2. (WriterInv /\ SentInv)'
    BY <1>1 DEF WriterInv, SentInv, Acked, Pending
  <2>3. QueueInv'
    BY <1>1, <1>h DEF QueueInv, Requeued, LastNumber, Readable, Pending, hi, lo
  <2>4. (ReceiverInv /\ NotesInv)'
    BY <1>1, <1>h DEF ReceiverInv, NotesInv, InOrderArrival, Acked, Pending
  <2>5. QED BY <2>1, <2>2, <2>3, <2>4
<1>2. CASE can_write /\ is_queued
  <2> DEFINE q == IF hi # <<>> THEN hi ELSE lo
  <2>1. q \in Seq(Msg) /\ q # <<>>
    BY <1>2, <1>h DEF is_queued, Prios, hi, lo
  <2>2. Head(q) \in Msg /\ Head(q) = q[1] /\ Tail(q) \in Seq(Msg)
        /\ Len(Tail(q)) = Len(q) - 1
        /\ \A i \in 1 .. Len(q) - 1 : Tail(q)[i] = q[i + 1]
    BY <2>1, HeadTailProperties
  <2>3. /\ sent' = Append(sent, Head(q)) /\ msg' = Head(q) /\ writer' = "write"
        /\ hi' = IF hi # <<>> THEN Tail(hi) ELSE hi
        /\ lo' = IF hi # <<>> THEN lo ELSE Tail(lo)
    BY <1>2 DEF TypeOK, Prios, hi, lo
  <2>4. TypeOK'
    <3>1. out_q' \in [Prios -> Seq(Msg)]
      BY <1>2, <2>2 DEF TypeOK, hi, lo
    <3>2. QED BY <1>2, <2>2, <2>3, <3>1 DEF TypeOK
  <2>5. PICK n \in 0 .. Len(hi) : Requeued(n) /\ in_seq + Readable <= LastNumber(n)
    BY DEF QueueInv
  <2>6. /\ q[1].seq = IF n > 0 THEN out_seq + 1 ELSE 0
        /\ n > 0 => hi # <<>>
        /\ out_seq \in Nat /\ sent \in Seq(Msg)
    <3>1. CASE hi # <<>> /\ n > 0
      BY <3>1, <1>h, <2>5 DEF Requeued, TypeOK
    <3>2. CASE hi # <<>> /\ n = 0
      BY <3>2, <1>h, <2>5 DEF Requeued, TypeOK
    <3>3. CASE hi = <<>>
      <4>1. n = 0 /\ q = lo /\ lo # <<>>
        BY <3>3, <2>1
      <4>2. QED BY <4>1, <1>h DEF QueueInv, TypeOK
    <3>4. QED BY <3>1, <3>2, <3>3, <2>5
  <2>7. Pending' = 1 /\ Acked' = Acked /\ Len(sent') = Len(sent) + 1
    BY <2>2, <2>3, <2>6, <1>h DEF Pending, Acked
  <2>8. WriterInv'
    <3>1. state' = "OPEN" /\ writer' = "write" /\ sent' # <<>> /\ sent'[Len(sent')] = msg'
      BY <1>2, <2>2, <2>3, <2>6, <2>7, AppendProperties DEF can_write
    <3>2. msg'.seq \in {0, out_seq' + 1}
      BY <1>2, <2>2, <2>3, <2>6
    <3>3. 0 <= Acked'
      BY <2>7 DEF WriterInv
    <3>4. QED BY <3>1, <3>2, <3>3 DEF WriterInv
  <2>9. SentInv'
    BY <2>2, <2>3, <2>6, <2>7, <1>h DEF SentInv, Acked
  <2>10. QueueInv'
    <3> DEFINE k == IF n > 0 THEN n - 1 ELSE 0
    <3>1. k \in 0 .. Len(hi')
      BY <1>h, <2>2, <2>3, <2>6
    <3>2. Requeued(k)'
      BY <1>h, <2>2, <2>3, <2>5, <2>6, <2>7 DEF Requeued
    <3>3. (in_seq + Readable <= LastNumber(k))'
      <4>1. in_seq + Readable <= out_seq + n
        BY <1>h, <2>5, <2>6 DEF LastNumber
      <4>2. Readable' = Readable /\ in_seq' = in_seq /\ out_seq' = out_seq
        BY <1>2 DEF Readable
      <4>3. msg'.seq = IF n > 0 THEN out_seq + 1 ELSE 0
        BY <2>2, <2>3, <2>6
      <4>4. LastNumber(k)' = out_seq + n
        BY <4>2, <4>3, <2>3, <2>6, <2>7 DEF LastNumber
      <4>5. QED BY <4>1, <4>2, <4>4
    <3>4. \A i \in 1 .. Len(lo') : lo'[i].seq = 0
      BY <1>h, <2>2, <2>3 DEF QueueInv
    <3>5. QED BY <3>1, <3>2, <3>3, <3>4 DEF QueueInv
  <2>11. (ReceiverInv /\ NotesInv)'
    BY <1>2, <2>7 DEF ReceiverInv, NotesInv, InOrderArrival
  <2>12. QED BY <2>4, <2>8, <2>9, <2>10, <2>11
<1>3. QED BY <1>1, <1>2

LEMMA WriteStep == ASSUME IInv, write_message PROVE IInv'
<1> USE Priorities DEF IInv, write_message, receiverVars
<1>1. /\ writer = "write" /\ Pending = 1 /\ Pending' = 0
      /\ state = "OPEN" /\ sent # <<>> /\ msg.seq \in {0, out_seq + 1}
      /\ sent \in Seq(Msg) /\ hi \in Seq(Msg) /\ toR \in Seq(Msg) /\ toR' \in Seq(Msg)
      /\ out_seq \in Nat /\ in_seq \in Nat
  <2>1. Numbered(msg) \in Msg
    BY NumberedProps
  <2>2. QED BY <2>1, Priorities DEF WriterInv, Pending, TypeOK, hi
<1>2. /\ sent' \in Seq(Msg) /\ Len(sent') = Len(sent)
      /\ \A i \in 1 .. Len(sent) : sent'[i].seq =
            IF i = Len(sent) THEN out_seq + 1 ELSE sent[i].seq
  BY <1>1, RenumberProps
<1>3. /\ Len(toR') = Len(toR) + 1 /\ \A i \in 1 .. Len(toR) : toR'[i] = toR[i]
      /\ toR'[Len(toR) + 1].seq = out_seq + 1
  BY <1>1, NumberedProps, AppendProperties
<1>4. TypeOK'
  BY <1>1, <1>2 DEF TypeOK
<1>5. Acked' = Acked /\ Acked = out_seq + 1 - Len(sent)
  BY <1>1, <1>2 DEF Acked
<1>6. WriterInv'
  BY <1>1, <1>2, <1>5 DEF WriterInv
<1>7. SentInv'
  <2>1. ASSUME NEW i \in 1 .. Len(sent) PROVE sent'[i].seq = Acked + i
    <3>1. CASE i = Len(sent)
      BY <3>1, <1>1, <1>2, <1>5
    <3>2. CASE i # Len(sent)
      <4>1. i \in 1 .. Len(sent) - Pending
        BY <3>2, <1>1
      <4>2. QED BY <3>2, <4>1, <1>2 DEF SentInv
    <3>3. QED BY <3>1, <3>2
  <2>2. QED BY <1>1, <1>2, <1>5, <2>1 DEF SentInv
<1>8. QueueInv'
  <2>1. PICK n \in 0 .. Len(hi) : Requeued(n) /\ in_seq + Readable <= LastNumber(n)
    BY DEF QueueInv
  <2>2. hi' = hi /\ lo' = lo
    BY DEF hi, lo
  <2>3. Requeued(n)'
    BY <1>1, <2>1, <2>2 DEF Requeued
  <2>4. (in_seq + Readable <= LastNumber(n))'
    BY <1>1, <1>3, <2>1 DEF Readable, LastNumber, ReceiverInv
  <2>5. QED BY <2>2, <2>3, <2>4 DEF QueueInv
<1>9. (ReceiverInv /\ NotesInv)'
  <2>1. InOrderArrival'
    <3>1. ASSUME rstate = "OPEN" PROVE in_seq + Len(toR) = out_seq
      BY <1>1, <3>1 DEF ReceiverInv
    <3>2. ASSUME rstate = "OPEN", NEW i \in 1 .. Len(toR) PROVE toR[i].seq = in_seq + i
      BY <3>2 DEF ReceiverInv, InOrderArrival
    <3>3. ASSUME rstate = "OPEN", NEW i \in 1 .. Len(toR') PROVE toR'[i].seq = in_seq + i
      <4>1. CASE i \in 1 .. Len(toR)
        BY <4>1, <3>2, <3>3, <1>3
      <4>2. CASE i = Len(toR) + 1
        BY <4>2, <3>1, <3>3, <1>1, <1>3
      <4>3. QED BY <4>1, <4>2, <1>3, <1>1
    <3>4. QED BY <3>3, <1>1 DEF InOrderArrival
  <2>2. Acked' <= in_seq'
    BY <1>5 DEF ReceiverInv
  <2>3. ASSUME rstate' = "OPEN", state' = "OPEN" PROVE in_seq' + Len(toR') = out_seq'
    <3>1. rstate = "OPEN"
      BY <1>1, <2>3
    <3>2. in_seq + Len(toR) = out_seq
      BY <1>1, <3>1 DEF ReceiverInv
    <3>3. in_seq' = in_seq /\ Len(toR') = Len(toR) + 1 /\ out_seq' = out_seq + 1
      BY <1>1, <1>3
    <3>4. in_seq \in Int /\ Len(toR) \in Int
      BY <1>1
    <3>5. QED BY <3>2, <3>3, <3>4
  <2>4. ReceiverInv'
    BY <1>1, <2>1, <2>2, <2>3 DEF ReceiverInv
  <2>5. NotesInv'
    BY DEF NotesInv
  <2>6. QED BY <2>4, <2>5
<1>10. QED BY <1>4, <1>6, <1>7, <1>8, <1>9

(* Requeueing all of s, numbered up to the last number written, leaves the     *)
(* queue numbered from the first of them.                                      *)
LEMMA RequeueQueue ==
  ASSUME TypeOK, NEW s \in Seq(Msg), NEW n \in 0 .. Len(hi),
         \A i \in 1 .. Len(s) : s[i].seq = Acked + i,
         Len(s) = Len(sent), 0 <= Acked,
         Requeued(n), in_seq + Readable <= out_seq + Pending + n,
         \A i \in 1 .. Len(lo) : lo[i].seq = 0,
         out_q' = [out_q EXCEPT !["highest"] = s \o @],
         out_seq' = Acked, sent' = <<>>, writer' = "idle",
         in_seq' + Readable' <= in_seq + Readable, in_seq' \in Nat, Readable' \in Nat
  PROVE  /\ out_q' \in [Prios -> Seq(Msg)] /\ out_seq' \in Nat
         /\ QueueInv' /\ Acked' = Acked
<1> USE Priorities
<1>1. /\ hi \in Seq(Msg) /\ out_seq \in Nat /\ in_seq \in Nat /\ sent \in Seq(Msg)
      /\ Pending \in {0, 1} /\ Pending' = 0
  BY DEF TypeOK, hi, Pending
<1>2. hi' = s \o hi /\ lo' = lo
  BY DEF TypeOK, hi, lo, Prios
<1>3. /\ s \o hi \in Seq(Msg) /\ Len(s \o hi) = Len(s) + Len(hi)
      /\ \A i \in 1 .. Len(s) + Len(hi) :
            (s \o hi)[i] = IF i <= Len(s) THEN s[i] ELSE hi[i - Len(s)]
  BY <1>1, ConcatProperties
<1>4. out_q' \in [Prios -> Seq(Msg)] /\ out_seq' \in Nat /\ Acked' = Acked
  BY <1>1, <1>3 DEF TypeOK, hi, Acked
<1>5. QueueInv'
  <2> DEFINE k == Len(s) + n
  <2>1. k \in 0 .. Len(hi')
    BY <1>1, <1>2, <1>3
  <2>2. Requeued(k)'
    <3>1. ASSUME NEW i \in 1 .. k PROVE hi'[i].seq = out_seq' + i
      <4>1. CASE i <= Len(s)
        <5>1. i \in 1 .. Len(s) /\ i \in 1 .. Len(s) + Len(hi)
          BY <4>1, <1>1
        <5>2. hi'[i] = s[i]
          BY <4>1, <5>1, <1>2, <1>3
        <5>3. QED BY <5>1, <5>2
      <4>2. CASE i > Len(s)
        <5>1. i - Len(s) \in 1 .. n
          BY <4>2, <1>1
        <5>2. hi[i - Len(s)].seq = out_seq + Pending + (i - Len(s))
          BY <5>1 DEF Requeued
        <5>3. hi'[i] = hi[i - Len(s)]
          <6>1. i \in 1 .. Len(s) + Len(hi)
            BY <1>1
          <6>2. QED BY <4>2, <6>1, <1>2, <1>3
        <5>4. out_seq' = out_seq + Pending - Len(s)
          BY DEF Acked
        <5>5. QED BY <5>2, <5>3, <5>4, <1>1
      <4>3. QED BY <4>1, <4>2, <1>1
    <3>2. ASSUME NEW i \in k + 1 .. Len(hi') PROVE hi'[i].seq = 0
      <4>1. i - Len(s) \in n + 1 .. Len(hi)
        BY <1>1, <1>2, <1>3
      <4>2. i \in 1 .. Len(s) + Len(hi) /\ ~(i <= Len(s)) /\ i <= Len(hi')
        BY <1>1, <1>2, <1>3
      <4>3. hi'[i] = hi[i - Len(s)]
        BY <1>2, <1>3, <4>2
      <4>4. QED BY <4>1, <4>3 DEF Requeued
    <3>3. \A i \in 1 .. k : hi'[i].seq = out_seq' + Pending' + i
      BY <3>1, <1>1, <1>4
    <3>4. QED BY <3>2, <3>3 DEF Requeued
  <2>3. (in_seq + Readable <= LastNumber(k))'
    BY <1>1 DEF LastNumber, Acked, Readable
  <2>4. QED BY <2>1, <2>2, <2>3, <1>2 DEF QueueInv
<1>6. QED BY <1>4, <1>5

LEMMA WriteFailsStep == ASSUME IInv, write_fails PROVE IInv'
<1> USE Priorities DEF IInv, write_fails, receiverVars
<1> DEFINE s == Renumber(sent)
<1>1. /\ writer = "write" /\ Pending = 1 /\ state = "OPEN"
      /\ sent \in Seq(Msg) /\ out_seq \in Nat /\ in_seq \in Nat /\ Len(sent) > 0
  BY DEF WriterInv, Pending, TypeOK
<1>2. /\ s \in Seq(Msg) /\ Len(s) = Len(sent)
      /\ \A i \in 1 .. Len(s) : s[i].seq = IF i = Len(s) THEN out_seq + 1 ELSE sent[i].seq
  BY RenumberProps, <1>1
<1>3. \A i \in 1 .. Len(s) : s[i].seq = Acked + i
  BY <1>1, <1>2 DEF SentInv, Acked
<1>4. PICK n \in 0 .. Len(hi) : Requeued(n) /\ in_seq + Readable <= LastNumber(n)
  BY DEF QueueInv
<1>5. /\ in_seq + Readable <= out_seq + Pending + n
      /\ Readable \in Nat /\ Readable' = Readable
  <2>1. LastNumber(n) <= out_seq + Pending + n
    BY <1>1 DEF LastNumber
  <2>2. Readable' = Readable
    BY DEF Readable
  <2>3. Readable \in Nat
    <3>1. toR \in Seq(Msg)
      BY DEF TypeOK
    <3>2. Len(toR) \in Nat
      BY <3>1
    <3>3. QED BY <3>2 DEF Readable
  <2>4. LastNumber(n) \in Int
    BY <1>1 DEF LastNumber
  <2> HIDE DEF write_fails, receiverVars, IInv
  <2>5. QED BY <1>1, <1>4, <2>1, <2>2, <2>3, <2>4
<1>6. out_seq' = Acked /\ in_seq' = in_seq
  BY <1>1, <1>2 DEF Acked
<1>q. 0 <= Acked /\ \A i \in 1 .. Len(lo) : lo[i].seq = 0
  BY DEF QueueInv, WriterInv
<1>7. /\ out_q' \in [Prios -> Seq(Msg)] /\ out_seq' \in Nat
      /\ QueueInv' /\ Acked' = Acked
  <2>1. /\ Len(s) = Len(sent) /\ writer' = "idle" /\ sent' = <<>>
        /\ out_q' = [out_q EXCEPT !["highest"] = s \o @]
        /\ in_seq' + Readable' <= in_seq + Readable /\ in_seq' \in Nat /\ Readable' \in Nat
    BY <1>1, <1>2, <1>5, <1>6
  <2> HIDE DEF s
  <2>2. QED BY <1>2, <1>3, <1>4, <1>5, <1>6, <1>q, <2>1, RequeueQueue
<1>8. TypeOK'
  BY <1>7 DEF TypeOK, AfterFault
<1>9. state' \in {"STANDBY", "CONNECTING"}
  BY DEF AfterFault
<1>n. \A i \in 1 .. Len(toS') : toS'[i].tag # "SEQ"
  OBVIOUS
<1>10. (WriterInv /\ SentInv)'
  BY <1>7, <1>9 DEF WriterInv, SentInv, Pending
<1>11. (ReceiverInv /\ NotesInv)'
  <2>1. Acked' <= in_seq' /\ InOrderArrival'
    BY <1>7 DEF ReceiverInv, InOrderArrival
  <2>2. ReceiverInv'
    BY <1>9, <2>1 DEF ReceiverInv
  <2>3. QED BY <1>n, <2>2 DEF NotesInv
<1>12. QED BY <1>7, <1>8, <1>10, <1>11

LEMMA FaultStep == ASSUME IInv, fault PROVE IInv'
<1> USE Priorities DEF IInv, fault, requeue_sent, receiverVars
<1>1. /\ writer = "idle" /\ Pending = 0 /\ Pending' = 0
      /\ sent \in Seq(Msg) /\ out_seq \in Nat /\ in_seq \in Nat
      /\ out_seq' = Acked /\ in_seq' = in_seq
  BY DEF Pending, TypeOK, Acked
<1>2. \A i \in 1 .. Len(sent) : sent[i].seq = Acked + i
  BY <1>1 DEF SentInv
<1>3. PICK n \in 0 .. Len(hi) : Requeued(n) /\ in_seq + Readable <= LastNumber(n)
  BY DEF QueueInv
<1>4. /\ in_seq + Readable <= out_seq + Pending + n
      /\ Readable \in Nat /\ Readable' = Readable
  BY <1>1, <1>3 DEF LastNumber, Readable, TypeOK
<1>q. 0 <= Acked /\ \A i \in 1 .. Len(lo) : lo[i].seq = 0
  BY DEF QueueInv, WriterInv
<1>5. /\ out_q' \in [Prios -> Seq(Msg)] /\ out_seq' \in Nat
      /\ QueueInv' /\ Acked' = Acked
  <2>1. /\ writer' = "idle" /\ sent' = <<>>
        /\ out_q' = [out_q EXCEPT !["highest"] = sent \o @]
        /\ in_seq' + Readable' <= in_seq + Readable /\ in_seq' \in Nat /\ Readable' \in Nat
    BY <1>1, <1>4
  <2>2. QED BY <1>1, <1>2, <1>3, <1>4, <1>q, <2>1, RequeueQueue
<1>6. state' \in {"STANDBY", "CONNECTING"} /\ faults' \in Nat
  BY DEF AfterFault, TypeOK
<1>7. TypeOK'
  BY <1>5, <1>6 DEF TypeOK
<1>8. (WriterInv /\ SentInv)'
  BY <1>1, <1>5, <1>6 DEF WriterInv, SentInv
<1>9. (ReceiverInv /\ NotesInv)'
  BY <1>5, <1>6 DEF ReceiverInv, NotesInv, InOrderArrival
<1>10. QED BY <1>5, <1>7, <1>8, <1>9

LEMMA ReconnectStep == ASSUME IInv, Reconnect PROVE IInv'
<1> USE Priorities DEF IInv, Reconnect, requeue_sent, receiverVars
<1>1. /\ writer = "idle" /\ Pending = 0 /\ Pending' = 0
      /\ sent \in Seq(Msg) /\ out_seq \in Nat /\ in_seq \in Nat
      /\ out_seq' = Acked /\ in_seq' = in_seq
  BY DEF Pending, TypeOK, Acked
<1>2. \A i \in 1 .. Len(sent) : sent[i].seq = Acked + i
  BY <1>1 DEF SentInv
<1>3. PICK n \in 0 .. Len(hi) : Requeued(n) /\ in_seq + Readable <= LastNumber(n)
  BY DEF QueueInv
<1>4. /\ in_seq + Readable <= out_seq + Pending + n
      /\ Readable \in Nat /\ Readable' = 0
  BY <1>1, <1>3 DEF LastNumber, Readable, TypeOK
<1>q. 0 <= Acked /\ \A i \in 1 .. Len(lo) : lo[i].seq = 0
  BY DEF QueueInv, WriterInv
<1>5. /\ out_q' \in [Prios -> Seq(Msg)] /\ out_seq' \in Nat
      /\ QueueInv' /\ Acked' = Acked
  <2>1. /\ writer' = "idle" /\ sent' = <<>>
        /\ out_q' = [out_q EXCEPT !["highest"] = sent \o @]
        /\ in_seq' + Readable' <= in_seq + Readable /\ in_seq' \in Nat /\ Readable' \in Nat
    BY <1>1, <1>4
  <2>2. QED BY <1>1, <1>2, <1>3, <1>4, <1>q, <2>1, RequeueQueue
<1>6. TypeOK'
  BY <1>1, <1>5 DEF TypeOK, Note
<1>7. (WriterInv /\ SentInv)'
  BY <1>1, <1>5 DEF WriterInv, SentInv
<1>8. (ReceiverInv /\ NotesInv)'
  BY <1>1, <1>5 DEF ReceiverInv, NotesInv, InOrderArrival
<1>9. QED BY <1>5, <1>6, <1>7, <1>8

(* The notes left after the first is handled are as they were. *)
LEMMA TailNotes ==
  ASSUME TypeOK, NotesInv, toS # <<>>, toS' = Tail(toS), in_seq' = in_seq,
         \A i \in 2 .. Len(toS) : toS[i].tag # "SEQ"
  PROVE  toS' \in Seq(Note) /\ NotesInv'
<1>1. /\ Tail(toS) \in Seq(Note) /\ Len(Tail(toS)) = Len(toS) - 1
      /\ \A i \in 1 .. Len(Tail(toS)) : Tail(toS)[i] = toS[i + 1]
      /\ toS \in Seq(Note)
  BY HeadTailProperties DEF TypeOK
<1>2. QED BY <1>1 DEF NotesInv

\* An acknowledgement covers the first of sent, up to its number.
LEMMA AckedOnes ==
  ASSUME IInv, handle_ack
  PROVE  \E k \in 0 .. Len(sent) :
            /\ Leading(sent, UpTo(Head(toS).seq)) = k
            /\ k = 0 \/ Acked + k <= Head(toS).seq
<1> USE DEF IInv, handle_ack, UpTo, receiverVars
<1> DEFINE a == Head(toS).seq
<1>1. /\ writer = "idle" /\ Pending = 0 /\ Pending' = 0
      /\ sent \in Seq(Msg) /\ out_seq \in Nat /\ in_seq \in Nat
      /\ \A i \in 1 .. Len(sent) : sent[i].seq = Acked + i
      /\ Acked = out_seq - Len(sent) /\ 0 <= Acked
  BY DEF Pending, TypeOK, Acked, SentInv, WriterInv
<1>2. a \in Nat /\ a <= in_seq
  <2>1. toS \in Seq(Note) /\ toS # <<>> /\ 1 \in 1 .. Len(toS) /\ Head(toS) = toS[1]
    BY DEF TypeOK
  <2>2. toS[1] \in Note /\ toS[1].tag # "SEQ"
    BY <2>1
  <2>3. QED BY <2>1, <2>2 DEF NotesInv, Note
<1> DEFINE k == IF a <= Acked THEN 0 ELSE IF a - Acked <= Len(sent) THEN a - Acked ELSE Len(sent)
<1>3. /\ k \in 0 .. Len(sent) /\ Acked \in Nat /\ Len(sent) \in Nat
      /\ k = 0 \/ Acked + k <= a
      /\ k = Len(sent) \/ Acked + k >= a
  <2> HIDE DEF a
  <2>1. Acked \in Nat /\ Len(sent) \in Nat /\ a \in Nat
    BY <1>1, <1>2
  <2>2. QED BY <2>1
<1> HIDE DEF k
<1>4. Leading(sent, 0 .. a) = k
  <2> HIDE DEF a
  <2>1. \A i \in 1 .. k : sent[i].seq \in 0 .. a
    <3>1. ASSUME NEW i \in 1 .. k PROVE Acked + i \in 0 .. a
      BY <1>1, <1>2, <1>3
    <3>2. \A i \in 1 .. k : i \in 1 .. Len(sent)
      BY <1>3
    <3>3. QED BY <3>1, <3>2, <1>1
  <2>2. k < Len(sent) => sent[k + 1].seq \notin 0 .. a
    <3>1. ASSUME k < Len(sent) PROVE Acked + k + 1 > a
      BY <3>1, <1>1, <1>2, <1>3
    <3>2. k < Len(sent) => sent[k + 1].seq = Acked + k + 1
      BY <1>1, <1>3
    <3>3. QED BY <3>1, <3>2, <1>1, <1>2, <1>3
  <2>3. QED BY <1>1, <1>3, <2>1, <2>2, LeadingUnique
<1>5. QED BY <1>3, <1>4

LEMMA HandleAckStep == ASSUME IInv, handle_ack PROVE IInv'
<1> USE DEF IInv, handle_ack, UpTo, receiverVars
<1> DEFINE a == Head(toS).seq
<1>1. /\ writer = "idle" /\ Pending = 0 /\ Pending' = 0
      /\ sent \in Seq(Msg) /\ out_seq \in Nat /\ in_seq \in Nat
      /\ \A i \in 1 .. Len(sent) : sent[i].seq = Acked + i
      /\ Acked = out_seq - Len(sent) /\ 0 <= Acked
  BY DEF Pending, TypeOK, Acked, SentInv, WriterInv
<1>2. a \in Nat /\ a <= in_seq
  <2>1. toS \in Seq(Note) /\ toS # <<>> /\ 1 \in 1 .. Len(toS) /\ Head(toS) = toS[1]
    BY DEF TypeOK
  <2>2. toS[1] \in Note /\ toS[1].tag # "SEQ"
    BY <2>1
  <2>3. QED BY <2>1, <2>2 DEF NotesInv, Note
<1>k. PICK k \in 0 .. Len(sent) : Leading(sent, 0 .. a) = k /\ (k = 0 \/ Acked + k <= a)
  BY AckedOnes
<1>3. /\ k \in 0 .. Len(sent) /\ Acked \in Nat /\ Len(sent) \in Nat
      /\ k = 0 \/ Acked + k <= a
  BY <1>1, <1>k
<1>4. Leading(sent, 0 .. a) = k
  BY <1>k
<1>5. /\ sent' \in Seq(Msg) /\ Len(sent') = Len(sent) - k
      /\ \A i \in 1 .. Len(sent) - k : sent'[i] = sent[k + i]
  BY <1>1, <1>3, <1>4, DropProps
<1>6. Acked' = Acked + k /\ Acked + k <= in_seq
  <2>1. Acked' = out_seq - (Len(sent) - k)
    <3>1. out_seq' = out_seq /\ Len(sent') \in Int /\ Pending' = 0
      BY <1>1, <1>3, <1>5
    <3>2. Acked' = out_seq' + 0 - Len(sent')
      BY <3>1 DEF Acked
    <3>3. Len(sent') = Len(sent) - k
      BY <1>5
    <3>4. QED
      <4> HIDE DEF IInv, handle_ack
      <4> QED BY <3>1, <3>2, <3>3, <1>1, <1>3
  <2>2. Acked <= in_seq
    BY DEF ReceiverInv
  <2> HIDE DEF a
  <2>3. Acked' = Acked + k
    BY <1>1, <1>3, <2>1
  <2>4. Acked + k <= in_seq
    BY <1>1, <1>2, <1>3, <2>2
  <2>5. QED BY <2>3, <2>4
<1>7. toS' \in Seq(Note) /\ NotesInv'
  <2>1. \A i \in 1 .. Len(toS) : toS[i].tag # "SEQ"
    BY DEF NotesInv
  <2>2. QED BY <2>1, TailNotes DEF TypeOK
<1>8. TypeOK'
  BY <1>5, <1>7 DEF TypeOK
<1>9. WriterInv' /\ SentInv'
  <2>1. \A i \in 1 .. Len(sent') : sent'[i].seq = Acked' + i
    <3>1. ASSUME NEW i \in 1 .. Len(sent) - k PROVE sent'[i].seq = Acked' + i
      <4>1. k + i \in 1 .. Len(sent) /\ sent'[i] = sent[k + i]
        BY <1>3, <1>5
      <4>2. sent[k + i].seq = Acked + (k + i)
        BY <4>1, <1>1
      <4>3. QED BY <4>1, <4>2, <1>3, <1>6
    <3>2. QED BY <3>1, <1>5
  <2>2. Len(sent') \in Nat /\ 0 <= Acked'
    BY <1>3, <1>5, <1>6
  <2>3. QED BY <1>1, <2>1, <2>2 DEF WriterInv, SentInv
<1>10. QueueInv'
  BY <1>1 DEF QueueInv, Requeued, LastNumber, Readable, hi, lo
<1>11. ReceiverInv'
  BY <1>1, <1>6 DEF ReceiverInv, InOrderArrival
<1>12. QED BY <1>7, <1>8, <1>9, <1>10, <1>11

\* The number exchanged covers the first of what is requeued, exactly up to it.
LEMMA PeerHasThese ==
  ASSUME IInv, wait_seq
  PROVE  \E n \in 0 .. Len(hi), k \in 0 .. Len(hi) :
            /\ Requeued(n) /\ in_seq + Readable <= LastNumber(n)
            /\ k <= n /\ out_seq + k = in_seq /\ Leading(hi, 1 .. in_seq) = k
<1> USE Priorities DEF IInv, wait_seq, wake_if_queued, receiverVars, discard_requeued_up_to
<1>1. /\ writer = "idle" /\ Pending = 0 /\ Pending' = 0
      /\ hi \in Seq(Msg) /\ out_seq \in Nat /\ in_seq \in Nat
      /\ sent = <<>> /\ toR = <<>> /\ Acked = out_seq /\ out_seq <= in_seq
      /\ Head(toS).seq = in_seq /\ Readable = 0
  BY DEF Pending, TypeOK, Acked, WriterInv, ReceiverInv, NotesInv, hi, Readable
<1>2. PICK n \in 0 .. Len(hi) : Requeued(n) /\ in_seq + Readable <= LastNumber(n)
  BY DEF QueueInv
<1>p. PICK k \in 0 .. n : out_seq + k = in_seq
  <2>1. in_seq - out_seq \in 0 .. n
    BY <1>1, <1>2 DEF LastNumber
  <2>2. QED BY <2>1, <1>1
<1>3. k \in 0 .. n /\ n \in Nat /\ n <= Len(hi) /\ k \in 0 .. Len(hi)
  BY <1>1, <1>2
<1>k. out_seq + k = in_seq
  BY <1>p
<1>r. /\ \A i \in 1 .. n : hi[i].seq = out_seq + i
      /\ \A i \in n + 1 .. Len(hi) : hi[i].seq = 0
  BY <1>1, <1>2 DEF Requeued
<1>4. Leading(hi, 1 .. in_seq) = k
  <2>1. \A i \in 1 .. k : hi[i].seq \in 1 .. in_seq
    <3>1. ASSUME NEW i \in 1 .. k PROVE i \in 1 .. n /\ out_seq + i \in 1 .. in_seq
      BY <1>1, <1>3, <1>k
    <3>2. QED BY <3>1, <1>r
  <2>2. ASSUME k < Len(hi) PROVE hi[k + 1].seq \notin 1 .. in_seq
    <3>1. hi[k + 1].seq \in {0, in_seq + 1}
      <4>1. k + 1 \in 1 .. n \/ k + 1 \in n + 1 .. Len(hi)
        BY <1>1, <1>3, <2>2
      <4>2. out_seq + (k + 1) = in_seq + 1
        BY <1>1, <1>3, <1>k
      <4>3. QED BY <4>1, <4>2, <1>r
    <3>2. QED BY <3>1, <1>1
  <2>3. QED BY <1>1, <1>3, <2>1, <2>2, LeadingUnique
<1>5. QED BY <1>2, <1>3, <1>4, <1>k

LEMMA WaitSeqStep == ASSUME IInv, wait_seq PROVE IInv'
<1> USE Priorities DEF IInv, wait_seq, wake_if_queued, receiverVars, discard_requeued_up_to
<1>1. /\ writer = "idle" /\ Pending = 0 /\ Pending' = 0
      /\ hi \in Seq(Msg) /\ out_seq \in Nat /\ in_seq \in Nat
      /\ sent = <<>> /\ toR = <<>> /\ Acked = out_seq /\ out_seq <= in_seq
      /\ Head(toS).seq = in_seq /\ Readable = 0
  BY DEF Pending, TypeOK, Acked, WriterInv, ReceiverInv, NotesInv, hi, Readable
<1>2. PICK n \in 0 .. Len(hi), k \in 0 .. Len(hi) :
        /\ Requeued(n) /\ in_seq + Readable <= LastNumber(n)
        /\ k <= n /\ out_seq + k = in_seq /\ Leading(hi, 1 .. in_seq) = k
  BY PeerHasThese
<1>3. k \in 0 .. n /\ n \in Nat /\ n <= Len(hi) /\ k \in 0 .. Len(hi)
  BY <1>1, <1>2
<1>k. out_seq + k = in_seq
  BY <1>2
<1>r. /\ \A i \in 1 .. n : hi[i].seq = out_seq + i
      /\ \A i \in n + 1 .. Len(hi) : hi[i].seq = 0
  BY <1>1, <1>2 DEF Requeued
<1>4. Leading(hi, 1 .. in_seq) = k
  BY <1>2
<1>5. /\ Drop(hi, k) \in Seq(Msg) /\ Len(Drop(hi, k)) = Len(hi) - k
      /\ \A i \in 1 .. Len(hi) - k : Drop(hi, k)[i] = hi[k + i]
  BY <1>1, <1>3, DropProps
<1>6. /\ hi' = Drop(hi, k) /\ lo' = lo /\ out_seq' = in_seq
      /\ out_q' \in [Prios -> Seq(Msg)]
  <2>1. out_q' = [out_q EXCEPT !["highest"] = Drop(hi, k)] /\ out_seq' = in_seq
    BY <1>1, <1>4, <1>k DEF hi
  <2>2. out_q \in [Prios -> Seq(Msg)]
    BY DEF TypeOK
  <2>3. out_q' \in [Prios -> Seq(Msg)] /\ hi' = Drop(hi, k) /\ lo' = lo
    BY <2>1, <2>2, <1>5 DEF hi, lo, Prios
  <2>4. QED BY <2>1, <2>3
<1>7. toS' \in Seq(Note) /\ NotesInv'
  <2>1. \A i \in 2 .. Len(toS) : toS[i].tag # "SEQ"
    BY DEF NotesInv
  <2>2. QED BY <2>1, TailNotes DEF TypeOK
<1>8. TypeOK'
  BY <1>1, <1>6, <1>7 DEF TypeOK
<1>9. WriterInv' /\ SentInv' /\ Acked' = in_seq
  BY <1>1, <1>6 DEF WriterInv, SentInv, Acked
<1>10. QueueInv'
  <2>0. n - k \in 0 .. Len(hi')
    BY <1>1, <1>3, <1>5, <1>6
  <2>1. Requeued(n - k)'
    <3>1. ASSUME NEW i \in 1 .. n - k PROVE hi'[i].seq = out_seq' + i
      <4>1. k + i \in 1 .. n /\ i \in 1 .. Len(hi) - k
        BY <1>1, <1>3
      <4>2. hi'[i].seq = out_seq + (k + i)
        BY <4>1, <1>5, <1>6, <1>r
      <4>3. out_seq' = out_seq + k /\ i \in Int /\ k \in Int
        BY <1>3, <1>6, <1>k
      <4>4. out_seq \in Int
        BY <1>1
      <4>5. out_seq + (k + i) = (out_seq + k) + i
        BY <4>3, <4>4
      <4>6. QED BY <4>2, <4>3, <4>5
    <3>2. ASSUME NEW i \in n - k + 1 .. Len(hi') PROVE hi'[i].seq = 0
      <4>1. k + i \in n + 1 .. Len(hi) /\ i \in 1 .. Len(hi) - k
        BY <1>1, <1>3, <1>5, <1>6
      <4>2. QED BY <4>1, <1>5, <1>6, <1>r
    <3>3. \A i \in 1 .. n - k : hi'[i].seq = out_seq' + Pending' + i
      BY <3>1, <1>1, <1>3, <1>6
    <3>4. writer' # "write"
      BY <1>1
    <3>5. QED BY <3>2, <3>3, <3>4 DEF Requeued
  <2>2. (in_seq + Readable <= LastNumber(n - k))'
    <3>1. Readable' = 0 /\ in_seq' = in_seq
      BY <1>1 DEF Readable
    <3>2. LastNumber(n - k)' = in_seq + (n - k)
      BY <1>1, <1>3, <1>6 DEF LastNumber
    <3>3. QED BY <3>1, <3>2, <1>1, <1>3
  <2>3. \A i \in 1 .. Len(lo') : lo'[i].seq = 0
    BY <1>6 DEF QueueInv
  <2>4. QED
    <3> HIDE DEF IInv
    <3> QED BY <2>0, <2>1, <2>2, <2>3 DEF QueueInv
<1>11. ReceiverInv'
  BY <1>1, <1>6, <1>9 DEF ReceiverInv, InOrderArrival
<1>12. QED BY <1>7, <1>8, <1>9, <1>10, <1>11

LEMMA ReadStep == ASSUME IInv, read_message PROVE IInv'
<1> USE DEF IInv, read_message, senderVars
<1>1. /\ rstate = "OPEN" /\ toR # <<>> /\ toR \in Seq(Msg) /\ in_seq \in Nat
      /\ toR' \in Seq(Msg) /\ Len(toR') = Len(toR) - 1
      /\ \A i \in 1 .. Len(toR) - 1 : toR'[i] = toR[i + 1]
      /\ Head(toR) \in Msg /\ Head(toR).seq = in_seq + 1
  BY HeadTailProperties DEF TypeOK, ReceiverInv, InOrderArrival
<1>2. /\ in_seq' = in_seq + 1 /\ rstate' = rstate
      /\ ack_left' = ack_left + 1 /\ delivered' = Append(delivered, Head(toR).id)
  BY <1>1
<1>3. TypeOK'
  BY <1>1, <1>2 DEF TypeOK, Msg
<1>4. (WriterInv /\ SentInv)' /\ Acked' = Acked
  BY DEF WriterInv, SentInv, Acked, Pending
<1>5. QueueInv'
  <2>1. PICK n \in 0 .. Len(hi) : Requeued(n) /\ in_seq + Readable <= LastNumber(n)
    BY DEF QueueInv
  <2>2. in_seq' + Readable' = in_seq + Readable
    BY <1>1, <1>2 DEF Readable
  <2>3. LastNumber(n)' = LastNumber(n) /\ Requeued(n)' /\ hi' = hi /\ lo' = lo
    BY <2>1 DEF LastNumber, Requeued, Pending, hi, lo
  <2>4. QED BY <2>1, <2>2, <2>3 DEF QueueInv
<1>6. ReceiverInv'
  <2>1. Acked' <= in_seq'
    BY <1>1, <1>2, <1>4 DEF ReceiverInv, Acked, Pending, TypeOK
  <2>2. InOrderArrival'
    <3>1. ASSUME NEW i \in 1 .. Len(toR') PROVE toR'[i].seq = in_seq' + i
      <4>1. i + 1 \in 1 .. Len(toR) /\ toR'[i] = toR[i + 1]
        BY <1>1
      <4>2. toR[i + 1].seq = in_seq + (i + 1)
        <5>1. \A j \in DOMAIN toR : toR[j].seq = in_seq + j
          BY <1>1 DEF ReceiverInv, InOrderArrival
        <5>2. i + 1 \in DOMAIN toR
          BY <4>1, <1>1
        <5>3. QED BY <5>1, <5>2
      <4>3. QED BY <4>1, <4>2, <1>1, <1>2
    <3>2. QED BY <3>1, <1>1 DEF InOrderArrival
  <2>3. rstate' = "OPEN" /\ state' = "OPEN" => in_seq' + Len(toR') = out_seq'
    BY <1>1, <1>2 DEF ReceiverInv
  <2>4. state # "WAIT_SEQ"
    BY <1>1 DEF ReceiverInv
  <2>5. QED BY <2>1, <2>2, <2>3, <2>4 DEF ReceiverInv
<1>7. NotesInv'
  <2>1. state # "WAIT_SEQ"
    BY <1>1 DEF ReceiverInv
  <2>2. ASSUME NEW i \in 1 .. Len(toS) PROVE toS[i].tag # "SEQ" /\ toS[i].seq \in Nat /\ toS[i].seq <= in_seq
    <3>1. toS[i] \in Note
      BY DEF TypeOK
    <3>2. QED BY <2>1, <3>1 DEF NotesInv, Note
  <2>3. ASSUME NEW i \in 1 .. Len(toS') PROVE toS'[i].tag # "SEQ" /\ toS'[i].seq <= in_seq'
    BY <2>2, <1>1, <1>2
  <2>4. QED BY <2>3 DEF NotesInv
<1>8. QED BY <1>3, <1>4, <1>5, <1>6, <1>7

LEMMA WriteAckStep == ASSUME IInv, write_ack PROVE IInv'
<1> USE DEF IInv, write_ack, senderVars
<1> DEFINE a == [tag |-> "ACK", seq |-> in_seq]
<1>1. a \in Note /\ toS \in Seq(Note)
  BY DEF TypeOK, Note
<1>2. TypeOK'
  BY <1>1 DEF TypeOK
<1>3. (WriterInv /\ SentInv)'
  BY DEF WriterInv, SentInv, Acked, Pending
<1>4. QueueInv'
  BY DEF QueueInv, Requeued, LastNumber, Readable, Pending, hi, lo
<1>5. ReceiverInv'
  BY DEF ReceiverInv, InOrderArrival, Acked, Pending
<1>6. NotesInv'
  <2>1. ASSUME NEW i \in 1 .. Len(toS')
        PROVE  toS'[i] = a \/ (i \in 1 .. Len(toS) /\ toS'[i] = toS[i])
    <3>1. CASE toS' = toS
      BY <3>1
    <3>2. CASE toS' = Append(toS, a)
      <4> HIDE DEF a
      <4>1. QED BY <3>2, <1>1, AppendProperties
    <3>3. QED BY <3>1, <3>2
  <2>2. in_seq \in Nat
    BY DEF TypeOK
  <2>3. QED BY <2>1, <2>2 DEF NotesInv
<1>7. QED BY <1>2, <1>3, <1>4, <1>5, <1>6

LEMMA ReceiverDownStep ==
  ASSUME IInv, receiver_fault \/ receiver_connect PROVE IInv'
<1> USE DEF IInv, receiver_fault, receiver_connect, senderVars
<1>1. /\ rstate' \in {"STANDBY", "CONNECTING"} /\ faults' \in Nat
      /\ toR' = <<>> \/ toR' = toR
  BY DEF AfterFault, TypeOK
<1>2. TypeOK'
  <2>1. toR' \in Seq(Msg)
    <3>1. toR \in Seq(Msg) /\ <<>> \in Seq(Msg)
      BY DEF TypeOK
    <3>2. QED BY <3>1, <1>1
  <2>2. UNCHANGED <<senderVars, toS, in_seq, ack_left, delivered>>
    OBVIOUS
  <2>3. QED BY <1>1, <2>1, <2>2 DEF TypeOK
<1>3. (WriterInv /\ SentInv)'
  BY DEF WriterInv, SentInv, Acked, Pending
<1>4. QueueInv'
  <2>1. PICK n \in 0 .. Len(hi) : Requeued(n) /\ in_seq + Readable <= LastNumber(n)
    BY DEF QueueInv
  <2>2. Readable \in Nat /\ Readable' = 0 /\ in_seq' = in_seq /\ in_seq \in Nat /\ out_seq \in Nat
        /\ Pending \in Nat
    BY <1>1 DEF Readable, TypeOK, Pending
  <2>3. LastNumber(n)' = LastNumber(n) /\ Requeued(n)' /\ hi' = hi /\ lo' = lo
    BY <2>1 DEF LastNumber, Requeued, Pending, hi, lo
  <2>4. in_seq' + Readable' <= LastNumber(n)
    BY <2>1, <2>2 DEF LastNumber
  <2>5. QED BY <2>1, <2>3, <2>4 DEF QueueInv
<1>5. (ReceiverInv /\ NotesInv)'
  BY <1>1 DEF ReceiverInv, NotesInv, InOrderArrival, Acked, Pending
<1>6. QED BY <1>2, <1>3, <1>4, <1>5

-------------------------------------------------------------------------------
LEMMA Inductive == IInv /\ [Next]_vars => IInv'
<1> SUFFICES ASSUME IInv, [Next]_vars PROVE IInv'
  OBVIOUS
<1>1. CASE UNCHANGED vars
  <2>1. Pending' = Pending /\ hi' = hi /\ lo' = lo /\ Readable' = Readable
    BY <1>1 DEF vars, Pending, hi, lo, Readable
  <2>2. Acked' = Acked /\ InOrderArrival' = InOrderArrival
    BY <1>1, <2>1 DEF vars, Acked, InOrderArrival
  <2>3. TypeOK' /\ WriterInv' /\ SentInv'
    BY <1>1, <2>1, <2>2 DEF vars, IInv, TypeOK, WriterInv, SentInv
  <2>4. QueueInv'
    BY <1>1, <2>1, <2>2 DEF vars, IInv, QueueInv, Requeued, LastNumber
  <2>5. ReceiverInv' /\ NotesInv'
    BY <1>1, <2>1, <2>2 DEF vars, IInv, ReceiverInv, NotesInv
  <2>6. QED BY <2>3, <2>4, <2>5 DEF IInv
<1>2. CASE Next
  BY <1>2, SendStep, HandleWriteStep, GetNextStep, WriteStep, WriteFailsStep, FaultStep,
     HandleAckStep, WaitSeqStep, ReadStep, WriteAckStep, ReceiverDownStep, ReconnectStep
     DEF Next
<1>3. QED BY <1>1, <1>2

\* The invariant holds throughout: numbers given by write_message, requeue_sent
\* and discard_requeued_up_to agree with the receiver's in_seq across any faults.
THEOREM Invariant == Spec => []IInv
BY InitInv, Inductive, PTL DEF Spec

\* All the session's state keeps its type; in particular out_seq never drops
\* below 0 when requeue_sent takes it back.
THEOREM TypeCorrect == Spec => []TypeOK
<1>1. IInv => TypeOK
  BY DEF IInv
<1>2. QED BY <1>1, Invariant, PTL

\* The receiver's checks of message sequence numbers (old, or skipped) never
\* fire, whatever faults and reconnections happen between the two ends.
THEOREM NeverOldNeverSkipped == Spec => []InOrderArrival
<1>1. IInv => InOrderArrival
  BY DEF IInv, ReceiverInv
<1>2. QED BY <1>1, Invariant, PTL

-------------------------------------------------------------------------------
(***************************************************************************)
(* Session implements the safety part of LosslessChannel: a step of the    *)
(* message path hands a new message to it, dispatches the oldest           *)
(* undelivered message of a priority, or is invisible to the user.         *)
(***************************************************************************)

(* The lists that hold what is due, and where the receiver stands in them. *)

LEMMA Lists ==
  ASSUME IInv
  PROVE  /\ sent \in Seq(Msg) /\ hi \in Seq(Msg) /\ lo \in Seq(Msg)
         /\ Len(sent) \in Nat /\ Len(hi) \in Nat /\ Len(lo) \in Nat
         /\ Acked \in Nat /\ in_seq \in Nat /\ Acked <= in_seq
         /\ End \in Nat /\ End = Acked + Len(sent) + Len(hi) + Len(lo)
<1>1. sent \in Seq(Msg) /\ hi \in Seq(Msg) /\ lo \in Seq(Msg) /\ in_seq \in Nat /\ out_seq \in Nat
  BY Priorities DEF IInv, TypeOK, hi, lo
<1>2. Len(sent) \in Nat /\ Len(hi) \in Nat /\ Len(lo) \in Nat
  BY <1>1
<1>3. Acked \in Nat /\ Acked <= in_seq
  BY <1>1, <1>2 DEF Acked, Pending, IInv, WriterInv, ReceiverInv
<1>4. QED BY <1>1, <1>2, <1>3 DEF End

\* What the receiver has, or still reads, was written or is requeued.
LEMMA ReadableIsDue ==
  ASSUME IInv
  PROVE  Readable \in Nat /\ in_seq + Readable <= Acked + Len(sent) + Len(hi)
<1>1. PICK n \in 0 .. Len(hi) : Requeued(n) /\ in_seq + Readable <= LastNumber(n)
  BY DEF IInv, QueueInv
<1>2. in_seq \in Nat /\ out_seq \in Nat /\ Readable \in Nat /\ Pending \in {0, 1}
  BY DEF IInv, TypeOK, Readable, Pending
<1>3. Len(sent) \in Nat /\ Len(hi) \in Nat
  BY Lists
<1>4. LastNumber(n) <= out_seq + Pending + n
  BY <1>1, <1>2 DEF LastNumber
<1>5. Acked + Len(sent) = out_seq + Pending
  BY <1>2, <1>3 DEF Acked
<1>6. LastNumber(n) \in Int
  BY <1>1, <1>2 DEF LastNumber
<1>7. QED BY <1>1, <1>2, <1>3, <1>4, <1>5, <1>6

\* A message waiting at the default priority is due.
LEMMA LowIsDue == ASSUME IInv PROVE End - Len(lo) + 1 .. End \subseteq Due
BY Lists, ReadableIsDue DEF Due

\* What is due is a message of the log and is not dispatched; each such message is due.
LEMMA DueProps ==
  ASSUME DeliveryInv
  PROVE  /\ \A s \in Due : Numbers(s) \in DOMAIN log /\ Numbers(s) \notin Channel!Delivered
         /\ \A j \in DOMAIN log : j \notin Channel!Delivered => \E s \in Due : Numbers(s) = j
<1>1. {Numbers(s) : s \in Due} = DOMAIN log \ Channel!Delivered
  BY DEF DeliveryInv, DueInv
<1>2. QED BY <1>1

\* A step that moves no due message to another number.
LEMMA KeepOrder ==
  ASSUME IInv, DueInv,
         log' = log, delivered' = delivered, in_seq' = in_seq, End' = End,
         Len(lo') \in Nat, Len(lo') <= Len(lo),
         \A s \in Due : Numbers(s)' = Numbers(s)
  PROVE  /\ DueInv'
         /\ \A i \in Nat : in_seq + i \in Due => Numbers(in_seq + i)' = Numbers(in_seq + i)
<1>1. Due' = Due /\ Channel!Delivered' = Channel!Delivered
  BY DEF Due, Channel!Delivered
<1>2. ASSUME NEW i \in Nat, in_seq + i \in Due
      PROVE  Numbers(in_seq + i)' = Numbers(in_seq + i)
  <2>1. \A s \in Due : s = in_seq + i => Numbers(s)' = Numbers(in_seq + i)'
    OBVIOUS
  <2>2. QED BY <1>2, <2>1
<1>3. {Numbers(s) : s \in Due}' = {Numbers(s) : s \in Due}
  BY <1>1
<1>4. (\A s, t \in Due :
         s < t /\ log[Numbers(s)] = log[Numbers(t)] => Numbers(s) < Numbers(t))'
  BY <1>1 DEF DueInv
<1>5. (\A s \in End - Len(lo) + 1 .. End : log[Numbers(s)] = "default")'
  <2>1. ASSUME NEW s \in End - Len(lo') + 1 .. End PROVE log[Numbers(s)'] = "default"
    <3>1. s \in End - Len(lo) + 1 .. End
      BY Lists
    <3>2. Numbers(s)' = Numbers(s)
      BY <3>1, LowIsDue
    <3>3. QED BY <3>1, <3>2 DEF DueInv
  <2>2. QED BY <2>1
<1>6. QED BY <1>1, <1>2, <1>3, <1>4, <1>5 DEF DueInv

\* What the receiver can still read is due.
LEMMA SocketIsDue ==
  ASSUME IInv, rstate = "OPEN", NEW i \in DOMAIN toR
  PROVE  i \in Nat \ {0} /\ in_seq + i \in Due
<1>1. toR \in Seq(Msg) /\ i \in 1 .. Len(toR) /\ Readable = Len(toR)
  BY DEF IInv, TypeOK, Readable
<1>2. /\ Readable \in Nat /\ in_seq + Readable <= Acked + Len(sent) + Len(hi)
      /\ in_seq \in Nat /\ Len(lo) \in Nat
      /\ End = Acked + Len(sent) + Len(hi) + Len(lo)
      /\ Acked \in Nat /\ Len(sent) \in Nat /\ Len(hi) \in Nat
  BY Lists, ReadableIsDue
<1>3. i \in Nat \ {0} /\ i <= Readable
  BY <1>1, <1>2
<1>4. in_seq + i \in in_seq + 1 .. End
  BY <1>2, <1>3
<1>5. QED BY <1>3, <1>4 DEF Due

\* Such a step that also leaves what the receiver can still read, or discards it.
LEMMA KeepDue ==
  ASSUME IInv, DeliveryInv,
         log' = log, delivered' = delivered, in_seq' = in_seq, End' = End,
         Len(lo') \in Nat, Len(lo') <= Len(lo),
         \A s \in Due : Numbers(s)' = Numbers(s),
         rstate' = "OPEN" => toR' = <<>> \/ (rstate = "OPEN" /\ toR' = toR)
  PROVE  DeliveryInv'
<1>1. /\ DueInv'
      /\ \A i \in Nat : in_seq + i \in Due => Numbers(in_seq + i)' = Numbers(in_seq + i)
  BY KeepOrder DEF DeliveryInv
<1>2. SocketInv'
  <2>1. ASSUME rstate' = "OPEN", NEW i \in DOMAIN toR'
        PROVE  toR'[i].id = Numbers(in_seq + i)'
    <3>1. rstate = "OPEN" /\ toR' = toR
      BY <2>1
    <3>2. toR[i].id = Numbers(in_seq + i)
      BY <2>1, <3>1 DEF DeliveryInv, SocketInv
    <3>3. i \in Nat /\ in_seq + i \in Due
      BY <2>1, <3>1, SocketIsDue
    <3>4. QED BY <1>1, <3>1, <3>2, <3>3
  <2>2. QED BY <2>1 DEF SocketInv
<1>3. QED BY <1>1, <1>2 DEF DeliveryInv

-------------------------------------------------------------------------------
(* The steps the user does not see. *)

LEMMA QuietKeeps ==
  ASSUME IInv, DeliveryInv, handle_write \/ write_ack \/ receiver_fault \/ receiver_connect
  PROVE  DeliveryInv' /\ UNCHANGED Channel!vars
<1>1. UNCHANGED <<log, out_q, sent, out_seq, in_seq, delivered>>
  BY DEF handle_write, write_ack, receiver_fault, receiver_connect, senderVars, receiverVars
<1>2. Acked' = Acked
  <2>1. Pending' = Pending
    BY DEF handle_write, write_ack, receiver_fault, receiver_connect, senderVars, Pending, can_write
  <2>2. QED BY <1>1, <2>1 DEF Acked
<1>3. hi' = hi /\ lo' = lo /\ End' = End /\ \A s \in Due : Numbers(s)' = Numbers(s)
  BY <1>1, <1>2 DEF hi, lo, End, Numbers
<1>4. rstate' = "OPEN" => rstate = "OPEN" /\ toR' = toR
  BY DEF handle_write, write_ack, receiver_fault, receiver_connect, AfterFault, receiverVars
<1>5. QED BY <1>1, <1>3, <1>4, Lists, KeepDue DEF Channel!vars

LEMMA GetNextKeeps ==
  ASSUME IInv, DeliveryInv, get_next_outgoing
  PROVE  DeliveryInv' /\ UNCHANGED Channel!vars
<1>0. /\ sent \in Seq(Msg) /\ hi \in Seq(Msg) /\ lo \in Seq(Msg)
      /\ Len(sent) \in Nat /\ Len(hi) \in Nat /\ Len(lo) \in Nat
      /\ Acked \in Nat /\ in_seq \in Nat /\ Acked <= in_seq
      /\ End = Acked + Len(sent) + Len(hi) + Len(lo)
  BY Lists
<1>1. /\ UNCHANGED <<log, out_seq, in_seq, rstate, toR, delivered>>
      /\ writer = "loop" /\ Pending = 0 /\ out_seq \in Nat
  BY DEF get_next_outgoing, receiverVars, IInv, TypeOK, Pending
<1>2. CASE ~(can_write /\ is_queued)
  <2>1. UNCHANGED <<sent, out_q>> /\ Pending' = 0
    BY <1>2 DEF get_next_outgoing, Pending
  <2>2. Acked' = Acked /\ hi' = hi /\ lo' = lo
    BY <1>1, <2>1 DEF Acked, hi, lo
  <2>3. End' = End /\ \A s \in Due : Numbers(s)' = Numbers(s)
    BY <2>1, <2>2 DEF End, Numbers
  <2>4. QED BY <1>0, <1>1, <2>2, <2>3, KeepDue DEF Channel!vars
<1>3. CASE can_write /\ is_queued
  <2> DEFINE q == IF hi # <<>> THEN hi ELSE lo
  <2>1. q \in Seq(Msg) /\ q # <<>>
    BY <1>0, <1>3 DEF is_queued, Prios, hi, lo
  <2>2. /\ Head(q) \in Msg /\ Head(q) = q[1] /\ Tail(q) \in Seq(Msg)
        /\ Len(Tail(q)) = Len(q) - 1 /\ Len(q) \in Nat \ {0}
        /\ \A i \in 1 .. Len(q) - 1 : Tail(q)[i] = q[i + 1]
    BY <2>1, HeadTailProperties
  <2>3. /\ sent' = Append(sent, q[1]) /\ writer' = "write"
        /\ hi' = IF hi # <<>> THEN Tail(q) ELSE hi
        /\ lo' = IF hi # <<>> THEN lo ELSE Tail(q)
    BY <1>3, <2>2 DEF get_next_outgoing, IInv, TypeOK, Prios, hi, lo
  <2>4. /\ Len(sent') = Len(sent) + 1 /\ sent'[Len(sent) + 1] = q[1]
        /\ \A i \in 1 .. Len(sent) : sent'[i] = sent[i]
    BY <1>0, <2>2, <2>3, AppendProperties
  <2>5. Acked' = Acked
    BY <1>0, <1>1, <2>3, <2>4 DEF Acked, Pending
  <2>6. CASE hi # <<>>
    <3>1. /\ lo' = lo /\ Len(hi) > 0 /\ Len(hi') = Len(hi) - 1 /\ sent'[Len(sent) + 1] = hi[1]
          /\ \A i \in 1 .. Len(hi) - 1 : hi'[i] = hi[i + 1]
      BY <1>0, <2>2, <2>3, <2>4, <2>6
    <3>2. End' = End
      BY <1>0, <2>4, <2>5, <3>1 DEF End
    <3>3. ASSUME NEW s \in Due PROVE Numbers(s)' = Numbers(s)
      <4> DEFINE k == s - Acked
      <4>1. k \in Nat \ {0} /\ s - Acked' = k
        BY <1>0, <2>5 DEF Due
      <4>2. Numbers(s)' = IF k <= Len(sent) + 1 THEN sent'[k].id
                          ELSE IF k <= Len(sent) + Len(hi) THEN hi'[k - (Len(sent) + 1)].id
                          ELSE lo[k - (Len(sent) + Len(hi))].id
        <5>1. Numbers(s)' = IF k <= Len(sent') THEN sent'[k].id
                            ELSE IF k <= Len(sent') + Len(hi') THEN hi'[k - Len(sent')].id
                            ELSE lo[k - (Len(sent') + Len(hi'))].id
          BY <4>1, <3>1 DEF Numbers
        <5>2. Len(sent') = Len(sent) + 1 /\ Len(sent') + Len(hi') = Len(sent) + Len(hi)
          BY <1>0, <2>4, <3>1
        <5> HIDE DEF k
        <5>3. QED BY <5>1, <5>2
      <4>3. Numbers(s) = IF k <= Len(sent) THEN sent[k].id
                         ELSE IF k <= Len(sent) + Len(hi) THEN hi[k - Len(sent)].id
                         ELSE lo[k - (Len(sent) + Len(hi))].id
        BY DEF Numbers
      <4> HIDE DEF k
      <4>4. CASE k <= Len(sent) + 1
        BY <1>0, <4>1, <4>2, <4>3, <4>4, <2>4, <3>1
      <4>5. CASE k > Len(sent) + 1
        <5> DEFINE i == k - (Len(sent) + 1)
        <5>1. i \in Nat \ {0} /\ i + 1 = k - Len(sent)
          BY <1>0, <4>1, <4>5
        <5>2. i <= Len(hi) - 1 => hi'[i] = hi[i + 1]
          BY <1>0, <3>1, <5>1
        <5>3. CASE k <= Len(sent) + Len(hi)
          <6>1. i <= Len(hi) - 1
            BY <1>0, <4>1, <5>3
          <6>2. Numbers(s)' = hi'[i].id /\ Numbers(s) = hi[i + 1].id
            BY <1>0, <4>1, <4>2, <4>3, <4>5, <5>1, <5>3
          <6>3. QED BY <5>2, <6>1, <6>2
        <5>4. CASE k > Len(sent) + Len(hi)
          BY <1>0, <4>1, <4>2, <4>3, <4>5, <5>4
        <5>5. QED BY <1>0, <4>1, <5>3, <5>4
      <4>6. QED BY <4>1, <4>4, <4>5
    <3>4. QED BY <1>0, <1>1, <3>1, <3>2, <3>3, KeepDue DEF Channel!vars
  <2>7. CASE hi = <<>>
    <3>1. /\ hi' = hi /\ Len(hi) = 0 /\ Len(lo) > 0 /\ Len(lo') = Len(lo) - 1
          /\ sent'[Len(sent) + 1] = lo[1] /\ \A i \in 1 .. Len(lo) - 1 : lo'[i] = lo[i + 1]
      BY <1>0, <2>2, <2>3, <2>4, <2>7
    <3>2. End' = End
      BY <1>0, <2>4, <2>5, <3>1 DEF End
    <3>3. ASSUME NEW s \in Due PROVE Numbers(s)' = Numbers(s)
      <4> DEFINE k == s - Acked
      <4>1. /\ k \in Nat \ {0} /\ s - Acked' = k
            /\ k <= Len(sent) + Len(hi) + Len(lo)
        BY <1>0, <2>5 DEF Due
      <4>2. Numbers(s)' = IF k <= Len(sent) + 1 THEN sent'[k].id
                          ELSE lo'[k - (Len(sent) + 1)].id
        <5>1. Numbers(s)' = IF k <= Len(sent') THEN sent'[k].id
                            ELSE IF k <= Len(sent') + Len(hi') THEN hi'[k - Len(sent')].id
                            ELSE lo'[k - (Len(sent') + Len(hi'))].id
          BY <4>1 DEF Numbers
        <5>2. Len(sent') = Len(sent) + 1 /\ Len(sent') + Len(hi') = Len(sent) + 1
          BY <1>0, <2>4, <3>1
        <5> HIDE DEF k
        <5>3. QED BY <5>1, <5>2
      <4>3. Numbers(s) = IF k <= Len(sent) THEN sent[k].id
                         ELSE lo[k - Len(sent)].id
        <5>1. Numbers(s) = IF k <= Len(sent) THEN sent[k].id
                           ELSE IF k <= Len(sent) + Len(hi) THEN hi[k - Len(sent)].id
                           ELSE lo[k - (Len(sent) + Len(hi))].id
          BY DEF Numbers
        <5>2. Len(sent) + Len(hi) = Len(sent)
          BY <1>0, <3>1
        <5> HIDE DEF k
        <5>3. QED BY <5>1, <5>2
      <4> HIDE DEF k
      <4>4. CASE k <= Len(sent) + 1
        BY <1>0, <4>1, <4>2, <4>3, <4>4, <2>4, <3>1
      <4>5. CASE k > Len(sent) + 1
        <5> DEFINE i == k - (Len(sent) + 1)
        <5>1. i \in Nat \ {0} /\ i + 1 = k - Len(sent)
          BY <1>0, <4>1, <4>5
        <5>2. i <= Len(lo) - 1 => lo'[i] = lo[i + 1]
          BY <1>0, <3>1, <5>1
        <5>3. i <= Len(lo) - 1
          BY <1>0, <3>1, <4>1
        <5>4. Numbers(s)' = lo'[i].id /\ Numbers(s) = lo[i + 1].id
          BY <1>0, <4>1, <4>2, <4>3, <4>5, <5>1
        <5>5. QED BY <5>2, <5>3, <5>4
      <4>6. QED BY <4>1, <4>4, <4>5
    <3>4. QED BY <1>0, <1>1, <3>1, <3>2, <3>3, KeepDue DEF Channel!vars
  <2>8. QED BY <2>6, <2>7
<1>4. QED BY <1>2, <1>3

(* What is on sent goes back to the front of the queue as it is. *)
LEMMA RequeueKeeps ==
  ASSUME IInv, DeliveryInv, NEW s \in Seq(Msg), Len(s) = Len(sent),
         \A i \in 1 .. Len(s) : s[i].id = sent[i].id,
         out_q' = [out_q EXCEPT !["highest"] = s \o @],
         out_seq' = Acked, sent' = <<>>, writer' = "idle",
         UNCHANGED <<log, in_seq, delivered>>,
         rstate' = "OPEN" => toR' = <<>> \/ (rstate = "OPEN" /\ toR' = toR)
  PROVE  DeliveryInv' /\ UNCHANGED Channel!vars
<1>0. /\ sent \in Seq(Msg) /\ hi \in Seq(Msg) /\ lo \in Seq(Msg)
      /\ Len(sent) \in Nat /\ Len(hi) \in Nat /\ Len(lo) \in Nat
      /\ Acked \in Nat /\ in_seq \in Nat /\ Acked <= in_seq
      /\ End = Acked + Len(sent) + Len(hi) + Len(lo)
  BY Lists
<1>1. hi' = s \o hi /\ lo' = lo
  BY Priorities DEF IInv, TypeOK, hi, lo, Prios
<1>2. /\ Len(hi') = Len(sent) + Len(hi)
      /\ \A i \in 1 .. Len(sent) + Len(hi) :
            hi'[i] = IF i <= Len(sent) THEN s[i] ELSE hi[i - Len(sent)]
  <2>1. /\ Len(s \o hi) = Len(s) + Len(hi)
        /\ \A i \in 1 .. Len(s) + Len(hi) :
              (s \o hi)[i] = IF i <= Len(s) THEN s[i] ELSE hi[i - Len(s)]
    BY <1>0, ConcatProperties
  <2>2. QED BY <1>0, <1>1, <2>1
<1>3. Acked' = Acked /\ Len(sent') = 0
  BY DEF Acked, Pending
<1>4. End' = End
  BY <1>0, <1>1, <1>2, <1>3 DEF End
<1>5. ASSUME NEW t \in Due PROVE Numbers(t)' = Numbers(t)
  <2> DEFINE k == t - Acked
  <2>1. k \in Nat \ {0} /\ t - Acked' = k
    BY <1>0, <1>3 DEF Due
  <2>2. Numbers(t)' = IF k <= Len(hi') THEN hi'[k].id ELSE lo[k - Len(hi')].id
    <3>1. Numbers(t)' = IF k <= Len(sent') THEN sent'[k].id
                        ELSE IF k <= Len(sent') + Len(hi') THEN hi'[k - Len(sent')].id
                        ELSE lo[k - (Len(sent') + Len(hi'))].id
      BY <1>1, <2>1 DEF Numbers
    <3>2. Len(sent') + Len(hi') = Len(hi') /\ Len(hi') \in Nat
      BY <1>0, <1>2, <1>3
    <3> HIDE DEF k
    <3>3. k - Len(sent') = k /\ ~(k <= Len(sent'))
      BY <1>3, <2>1
    <3>4. QED BY <3>1, <3>2, <3>3
  <2>3. Numbers(t) = IF k <= Len(sent) THEN sent[k].id
                     ELSE IF k <= Len(sent) + Len(hi) THEN hi[k - Len(sent)].id
                     ELSE lo[k - (Len(sent) + Len(hi))].id
    BY DEF Numbers
  <2> HIDE DEF k
  <2>4. CASE k <= Len(sent)
    <3>1. hi'[k] = s[k] /\ s[k].id = sent[k].id
      BY <1>0, <1>2, <2>1, <2>4
    <3>2. QED BY <1>0, <1>2, <2>1, <2>2, <2>3, <2>4, <3>1
  <2>5. CASE k > Len(sent)
    BY <1>0, <1>2, <2>1, <2>2, <2>3, <2>5
  <2>6. QED BY <2>1, <2>4, <2>5
<1>6. QED BY <1>0, <1>1, <1>4, <1>5, KeepDue DEF Channel!vars

LEMMA FaultKeeps ==
  ASSUME IInv, DeliveryInv, fault \/ Reconnect
  PROVE  DeliveryInv' /\ UNCHANGED Channel!vars
<1>1. writer = "idle" /\ writer' = "idle" /\ requeue_sent
  BY DEF fault, Reconnect
<1>2. out_seq' = Acked
  BY <1>1, Lists DEF requeue_sent, Acked, Pending, IInv, TypeOK
<1>3. /\ UNCHANGED <<log, in_seq, delivered>>
      /\ rstate' = "OPEN" => toR' = <<>> \/ (rstate = "OPEN" /\ toR' = toR)
  BY DEF fault, Reconnect, receiverVars
<1>4. QED BY <1>1, <1>2, <1>3, Lists, RequeueKeeps DEF requeue_sent

(* Numbering the message that is being written changes no other thing about sent. *)
LEMMA RenumberIds ==
  ASSUME IInv, writer = "write"
  PROVE  /\ Renumber(sent) \in Seq(Msg) /\ Len(Renumber(sent)) = Len(sent)
         /\ \A i \in 1 .. Len(sent) : Renumber(sent)[i].id = sent[i].id
<1>1. TypeOK /\ sent[Len(sent)] = msg
  BY DEF IInv, WriterInv
<1>2. Numbered(msg).id = msg.id
  BY <1>1 DEF Numbered, TypeOK, Msg
<1>3. QED BY <1>1, <1>2, Lists, RenumberProps DEF Renumber

LEMMA WriteFailsKeeps ==
  ASSUME IInv, DeliveryInv, write_fails
  PROVE  DeliveryInv' /\ UNCHANGED Channel!vars
<1> DEFINE s == Renumber(sent)
<1>1. writer = "write" /\ s \in Seq(Msg) /\ Len(s) = Len(sent)
      /\ \A i \in 1 .. Len(s) : s[i].id = sent[i].id
  BY RenumberIds, Lists DEF write_fails
<1>2. out_seq' = Acked
  BY <1>1, Lists DEF write_fails, Acked, Pending, IInv, TypeOK
<1>3. /\ UNCHANGED <<log, in_seq, delivered>> /\ sent' = <<>> /\ writer' = "idle"
      /\ out_q' = [out_q EXCEPT !["highest"] = s \o @]
      /\ rstate' = "OPEN" => toR' = <<>> \/ (rstate = "OPEN" /\ toR' = toR)
  BY DEF write_fails, receiverVars
<1> HIDE DEF s
<1>4. QED BY <1>1, <1>2, <1>3, RequeueKeeps

(* What is acknowledged leaves the front of sent, and is not due. *)
LEMMA AckKeeps ==
  ASSUME IInv, DeliveryInv, handle_ack
  PROVE  DeliveryInv' /\ UNCHANGED Channel!vars
<1>0. /\ sent \in Seq(Msg) /\ hi \in Seq(Msg) /\ lo \in Seq(Msg)
      /\ Len(sent) \in Nat /\ Len(hi) \in Nat /\ Len(lo) \in Nat
      /\ Acked \in Nat /\ in_seq \in Nat /\ Acked <= in_seq
      /\ End = Acked + Len(sent) + Len(hi) + Len(lo)
  BY Lists
<1>1. /\ UNCHANGED <<log, out_q, out_seq, writer, in_seq, rstate, toR, delivered>>
      /\ hi' = hi /\ lo' = lo /\ Pending' = Pending
  BY DEF handle_ack, receiverVars, hi, lo, Pending
<1>2. PICK k \in 0 .. Len(sent) : sent' = Drop(sent, k)
  BY AckedOnes DEF handle_ack
<1>3. /\ Len(sent') = Len(sent) - k
      /\ \A i \in 1 .. Len(sent) - k : sent'[i] = sent[k + i]
  BY <1>0, <1>2, DropProps
<1>4. Acked' = Acked + k
  <2>1. out_seq \in Nat /\ Pending \in {0, 1}
    BY DEF IInv, TypeOK, Pending
  <2>2. QED BY <1>0, <1>1, <1>2, <1>3, <2>1 DEF Acked
<1>5. Acked + k <= in_seq
  BY <1>1, <1>4, HandleAckStep DEF IInv, ReceiverInv
<1>6. End' = End
  BY <1>0, <1>1, <1>2, <1>3, <1>4 DEF End
<1>7. ASSUME NEW s \in Due PROVE Numbers(s)' = Numbers(s)
  <2> DEFINE i == s - (Acked + k)
  <2>1. i \in Nat \ {0} /\ s - Acked' = i /\ s - Acked = k + i
    BY <1>0, <1>2, <1>4, <1>5 DEF Due
  <2>2. Numbers(s)' = IF i <= Len(sent) - k THEN sent'[i].id
                      ELSE IF i <= Len(sent) - k + Len(hi) THEN hi[i - (Len(sent) - k)].id
                      ELSE lo[i - (Len(sent) - k) - Len(hi)].id
    BY <1>1, <1>3, <2>1 DEF Numbers
  <2>3. Numbers(s) = IF k + i <= Len(sent) THEN sent[k + i].id
                     ELSE IF k + i <= Len(sent) + Len(hi) THEN hi[k + i - Len(sent)].id
                     ELSE lo[k + i - Len(sent) - Len(hi)].id
    BY <2>1 DEF Numbers
  <2> HIDE DEF i
  <2>4. i <= Len(sent) - k => sent'[i] = sent[k + i]
    BY <1>0, <1>2, <1>3, <2>1
  <2>5. /\ i - (Len(sent) - k) = k + i - Len(sent)
        /\ i <= Len(sent) - k <=> k + i <= Len(sent)
        /\ i <= Len(sent) - k + Len(hi) <=> k + i <= Len(sent) + Len(hi)
    BY <1>0, <1>2, <2>1
  <2>6. CASE k + i <= Len(sent)
    BY <2>2, <2>3, <2>4, <2>5, <2>6
  <2>7. CASE ~(k + i <= Len(sent)) /\ k + i <= Len(sent) + Len(hi)
    BY <2>2, <2>3, <2>5, <2>7
  <2>8. CASE ~(k + i <= Len(sent)) /\ ~(k + i <= Len(sent) + Len(hi))
    BY <1>0, <1>2, <2>1, <2>2, <2>3, <2>5, <2>8
  <2>9. QED BY <2>6, <2>7, <2>8
<1>8. QED BY <1>0, <1>1, <1>6, <1>7, KeepDue DEF Channel!vars

(* What the peer has leaves the front of the queue, and is not due. *)
LEMMA WaitSeqKeeps ==
  ASSUME IInv, DeliveryInv, wait_seq
  PROVE  DeliveryInv' /\ UNCHANGED Channel!vars
<1>0. /\ sent \in Seq(Msg) /\ hi \in Seq(Msg) /\ lo \in Seq(Msg)
      /\ Len(sent) \in Nat /\ Len(hi) \in Nat /\ Len(lo) \in Nat
      /\ Acked \in Nat /\ in_seq \in Nat /\ Acked <= in_seq
      /\ End = Acked + Len(sent) + Len(hi) + Len(lo)
  BY Lists
<1>1. /\ UNCHANGED <<log, sent, writer, in_seq, rstate, toR, delivered>>
      /\ sent = <<>> /\ Pending = 0 /\ Pending' = 0 /\ out_seq \in Nat
      /\ Head(toS).seq = in_seq
  BY DEF wait_seq, receiverVars, IInv, TypeOK, WriterInv, NotesInv, Pending
<1>2. PICK k \in 0 .. Len(hi) : out_seq + k = in_seq /\ Leading(hi, 1 .. in_seq) = k
  BY PeerHasThese
<1>3. hi' = Drop(hi, k) /\ lo' = lo /\ out_seq' = out_seq + k
  BY <1>1, <1>2 DEF wait_seq, discard_requeued_up_to, IInv, TypeOK, Prios, hi, lo
<1>4. /\ Len(hi') = Len(hi) - k
      /\ \A i \in 1 .. Len(hi) - k : hi'[i] = hi[k + i]
  BY <1>0, <1>2, <1>3, DropProps
<1>5. Acked = out_seq /\ Acked' = out_seq + k /\ Len(sent) = 0
  BY <1>0, <1>1, <1>2, <1>3 DEF Acked
<1>6. End' = End
  BY <1>0, <1>1, <1>2, <1>3, <1>4, <1>5 DEF End
<1>7. ASSUME NEW s \in Due PROVE Numbers(s)' = Numbers(s)
  <2> DEFINE i == s - in_seq
  <2>1. i \in Nat \ {0} /\ s - Acked' = i /\ s - Acked = k + i
    BY <1>0, <1>1, <1>2, <1>5 DEF Due
  <2>2. Numbers(s)' = IF i <= Len(hi) - k THEN hi'[i].id ELSE lo[i - (Len(hi) - k)].id
    BY <1>1, <1>2, <1>3, <1>4, <1>5, <2>1 DEF Numbers
  <2>3. Numbers(s) = IF k + i <= Len(hi) THEN hi[k + i].id ELSE lo[k + i - Len(hi)].id
    BY <1>2, <1>5, <2>1, <1>0 DEF Numbers
  <2> HIDE DEF i
  <2>4. i <= Len(hi) - k => hi'[i] = hi[k + i]
    BY <1>0, <1>2, <1>4, <2>1
  <2>5. i - (Len(hi) - k) = k + i - Len(hi) /\ (i <= Len(hi) - k <=> k + i <= Len(hi))
    BY <1>0, <1>2, <2>1
  <2>6. QED BY <2>2, <2>3, <2>4, <2>5
<1>8. QED BY <1>0, <1>1, <1>3, <1>6, <1>7, KeepDue DEF Channel!vars

-------------------------------------------------------------------------------
(* The message written is the next one the receiver expects. *)
LEMMA WriteKeeps ==
  ASSUME IInv, DeliveryInv, write_message
  PROVE  DeliveryInv' /\ UNCHANGED Channel!vars
<1>0. /\ sent \in Seq(Msg) /\ hi \in Seq(Msg) /\ lo \in Seq(Msg)
      /\ Len(sent) \in Nat /\ Len(hi) \in Nat /\ Len(lo) \in Nat
      /\ Acked \in Nat /\ in_seq \in Nat /\ Acked <= in_seq
      /\ End = Acked + Len(sent) + Len(hi) + Len(lo)
  BY Lists
<1>1. /\ UNCHANGED <<log, out_q, in_seq, rstate, delivered>>
      /\ writer = "write" /\ state = "OPEN" /\ sent # <<>> /\ sent[Len(sent)] = msg
      /\ out_seq \in Nat /\ toR \in Seq(Msg) /\ Pending = 1 /\ Pending' = 0
      /\ hi' = hi /\ lo' = lo
  BY DEF write_message, receiverVars, IInv, TypeOK, WriterInv, Pending, hi, lo
<1>2. /\ sent' \in Seq(Msg) /\ Len(sent') = Len(sent)
      /\ \A i \in 1 .. Len(sent) : sent'[i].id = sent[i].id
  BY <1>1, RenumberIds DEF write_message
<1>3. Acked' = Acked /\ Acked + Len(sent) = out_seq + 1
  BY <1>0, <1>1, <1>2 DEF write_message, Acked
<1>4. End' = End /\ Due' = Due
  BY <1>1, <1>2, <1>3 DEF End, Due
<1>5. ASSUME NEW s \in Due PROVE Numbers(s)' = Numbers(s)
  <2>1. s - Acked \in Nat \ {0}
    BY <1>0 DEF Due
  <2>2. QED BY <1>0, <1>1, <1>2, <1>3, <2>1 DEF Numbers
<1>6. /\ DueInv'
      /\ \A i \in Nat : in_seq + i \in Due => Numbers(in_seq + i)' = Numbers(in_seq + i)
  BY <1>0, <1>1, <1>4, <1>5, KeepOrder DEF DeliveryInv
<1>7. /\ toR' \in Seq(Msg) /\ Len(toR') = Len(toR) + 1 /\ toR'[Len(toR) + 1].id = msg.id
      /\ \A i \in 1 .. Len(toR) : toR'[i] = toR[i]
  <2>1. /\ Numbered(msg) \in Msg /\ Numbered(msg).id = msg.id
        /\ toR' = Append(toR, Numbered(msg))
    BY NumberedProps DEF write_message, Numbered, IInv, TypeOK, Msg
  <2>2. QED BY <1>1, <2>1, AppendProperties
<1>8. ASSUME rstate = "OPEN", NEW i \in 1 .. Len(toR) + 1
      PROVE  in_seq + i \in Due /\ toR'[i].id = Numbers(in_seq + i)
  <2>1. in_seq + Len(toR) = out_seq /\ Len(toR) \in Nat
    BY <1>1, <1>8 DEF IInv, ReceiverInv
  <2>2. CASE i = Len(toR) + 1
    <3>1. in_seq + i \in Due
      BY <1>0, <1>3, <2>1 DEF Due
    <3>2. in_seq + i - Acked = Len(sent)
      BY <1>0, <1>1, <1>3, <2>1, <2>2
    <3>3. Numbers(in_seq + i) = sent[Len(sent)].id
      BY <1>0, <3>2 DEF Numbers
    <3>4. QED BY <1>1, <1>7, <2>2, <3>1, <3>3
  <2>3. CASE i # Len(toR) + 1
    <3>1. i \in DOMAIN toR /\ i \in 1 .. Len(toR)
      BY <1>1, <2>1, <2>3
    <3>2. toR[i].id = Numbers(in_seq + i)
      BY <1>8, <3>1 DEF DeliveryInv, SocketInv
    <3>3. QED BY <1>7, <1>8, <3>1, <3>2, SocketIsDue
  <2>4. QED BY <2>2, <2>3
<1>9. SocketInv'
  <2>1. ASSUME rstate' = "OPEN", NEW i \in DOMAIN toR'
        PROVE  toR'[i].id = Numbers(in_seq + i)'
    <3>1. rstate = "OPEN" /\ i \in 1 .. Len(toR) + 1 /\ i \in Nat
      BY <1>1, <1>7, <2>1
    <3>2. QED BY <1>6, <1>8, <3>1
  <2>2. QED BY <2>1 DEF SocketInv
<1>10. QED BY <1>1, <1>6, <1>9 DEF DeliveryInv, Channel!vars

-------------------------------------------------------------------------------
(* The two steps the user sees. *)

\* A new message is numbered behind those of its priority; only messages of
\* another priority wait behind it, and each of them moves back by one.
LEMMA SendPlace ==
  ASSUME IInv, DeliveryInv, NEW p \in Prios, send_message(p)
  PROVE  \E P \in in_seq + Readable + 1 .. End + 1 :
            /\ End' = End + 1
            /\ \A s \in in_seq + 1 .. End + 1 :
                 Numbers(s)' = IF s < P THEN Numbers(s)
                               ELSE IF s = P THEN Len(log) + 1 ELSE Numbers(s - 1)
            /\ \A s \in P .. End : log[Numbers(s)] # p
            /\ End' - Len(lo') + 1 .. End' \subseteq in_seq + 1 .. End + 1
            /\ \A s \in End' - Len(lo') + 1 .. End' :
                 IF s < P THEN log[Numbers(s)] = "default"
                 ELSE IF s = P THEN p = "default" ELSE log[Numbers(s - 1)] = "default"
<1>0. /\ sent \in Seq(Msg) /\ hi \in Seq(Msg) /\ lo \in Seq(Msg)
      /\ Len(sent) \in Nat /\ Len(hi) \in Nat /\ Len(lo) \in Nat
      /\ Acked \in Nat /\ in_seq \in Nat /\ Acked <= in_seq
      /\ End = Acked + Len(sent) + Len(hi) + Len(lo)
  BY Lists
<1> DEFINE m == [id |-> Len(log) + 1, seq |-> 0]
           H == Acked + Len(sent) + Len(hi)
<1>1. /\ UNCHANGED <<sent, in_seq, rstate, toR>> /\ Acked' = Acked
      /\ m \in Msg /\ m.id = Len(log) + 1
  BY DEF send_message, receiverVars, Acked, Pending, IInv, TypeOK, Msg
<1>2. Readable \in Nat /\ in_seq + Readable <= H
  BY ReadableIsDue
<1>3. \A s \in H + 1 .. End : log[Numbers(s)] = "default"
  BY <1>0 DEF DeliveryInv, DueInv
<1>4. CASE p = "highest"
  <2>1. hi' = Append(hi, m) /\ lo' = lo
    BY <1>4 DEF send_message, IInv, TypeOK, Prios, hi, lo
  <2> HIDE DEF m
  <2>2. /\ Len(hi') = Len(hi) + 1 /\ hi'[Len(hi) + 1] = m
        /\ \A i \in 1 .. Len(hi) : hi'[i] = hi[i]
    BY <1>0, <1>1, <2>1, AppendProperties
  <2>3. End' = End + 1 /\ H + 1 \in in_seq + Readable + 1 .. End + 1
    BY <1>0, <1>1, <1>2, <2>1, <2>2 DEF End
  <2>4. ASSUME NEW s \in in_seq + 1 .. End + 1
        PROVE  Numbers(s)' = IF s < H + 1 THEN Numbers(s)
                             ELSE IF s = H + 1 THEN Len(log) + 1 ELSE Numbers(s - 1)
    <3> DEFINE k == s - Acked
    <3>1. /\ k \in Nat \ {0} /\ s - Acked' = k /\ s - 1 - Acked = k - 1
          /\ s < H + 1 <=> k <= Len(sent) + Len(hi)
          /\ s = H + 1 <=> k = Len(sent) + Len(hi) + 1
      BY <1>0, <1>1
    <3>2. Numbers(s)' = IF k <= Len(sent) THEN sent[k].id
                        ELSE IF k <= Len(sent) + Len(hi) + 1 THEN hi'[k - Len(sent)].id
                        ELSE lo[k - (Len(sent) + Len(hi) + 1)].id
      <4>1. Numbers(s)' = IF k <= Len(sent) THEN sent[k].id
                          ELSE IF k <= Len(sent) + Len(hi') THEN hi'[k - Len(sent)].id
                          ELSE lo[k - (Len(sent) + Len(hi'))].id
        BY <1>1, <2>1, <3>1 DEF Numbers
      <4>2. Len(sent) + Len(hi') = Len(sent) + Len(hi) + 1
            BY <1>0, <2>2, <3>1
      <4> HIDE DEF k
      <4>3. QED BY <4>1, <4>2
    <3>3. Numbers(s) = IF k <= Len(sent) THEN sent[k].id
                       ELSE IF k <= Len(sent) + Len(hi) THEN hi[k - Len(sent)].id
                       ELSE lo[k - (Len(sent) + Len(hi))].id
      BY <3>1 DEF Numbers
    <3>4. Numbers(s - 1) = IF k - 1 <= Len(sent) THEN sent[k - 1].id
                           ELSE IF k - 1 <= Len(sent) + Len(hi) THEN hi[k - 1 - Len(sent)].id
                           ELSE lo[k - (Len(sent) + Len(hi) + 1)].id
      <4>1. Numbers(s - 1) = IF k - 1 <= Len(sent) THEN sent[k - 1].id
                             ELSE IF k - 1 <= Len(sent) + Len(hi) THEN hi[k - 1 - Len(sent)].id
                             ELSE lo[k - 1 - (Len(sent) + Len(hi))].id
        BY <3>1 DEF Numbers
      <4> HIDE DEF k
      <4>2. k - 1 - (Len(sent) + Len(hi)) = k - (Len(sent) + Len(hi) + 1)
        BY <1>0, <3>1
      <4>3. QED BY <4>1, <4>2
    <3> HIDE DEF k, H
    <3>q. s \in Int /\ k \in Int /\ Len(sent) \in Int /\ Len(hi) \in Int /\ H + 1 \in Int
      BY <1>0, <3>1 DEF H
    <3>5. CASE k <= Len(sent) + Len(hi)
      <4>1. s < H + 1 /\ k <= Len(sent) + Len(hi) + 1
        BY <3>1, <3>5, <3>q
      <4>2. CASE k <= Len(sent)
        BY <3>2, <3>3, <4>1, <4>2
      <4>3. CASE k > Len(sent)
        <5>1. k - Len(sent) \in 1 .. Len(hi) /\ ~(k <= Len(sent))
          BY <1>0, <3>1, <3>5, <4>3
        <5>2. hi'[k - Len(sent)] = hi[k - Len(sent)]
          BY <2>2, <5>1
        <5>3. QED BY <3>2, <3>3, <3>5, <4>1, <5>1, <5>2
      <4>4. QED BY <3>q, <4>2, <4>3
    <3>6. CASE k = Len(sent) + Len(hi) + 1
      <4>1. s = H + 1 /\ ~(s < H + 1) /\ ~(k <= Len(sent)) /\ k - Len(sent) = Len(hi) + 1
            /\ k <= Len(sent) + Len(hi) + 1
        BY <1>0, <3>1, <3>6, <3>q
      <4>2. QED BY <1>1, <2>2, <3>2, <4>1
    <3>7. CASE k > Len(sent) + Len(hi) + 1
      <4>1. /\ s # H + 1 /\ ~(s < H + 1) /\ ~(k <= Len(sent)) /\ ~(k - 1 <= Len(sent))
            /\ ~(k <= Len(sent) + Len(hi) + 1) /\ ~(k - 1 <= Len(sent) + Len(hi))
        BY <1>0, <3>1, <3>7, <3>q
      <4>2. QED BY <3>2, <3>4, <4>1
    <3>8. QED BY <3>q, <3>5, <3>6, <3>7
  <2>5. \A s \in H + 1 .. End : log[Numbers(s)] # p
    BY <1>3, <1>4
  <2>6. ASSUME NEW s \in End' - Len(lo') + 1 .. End'
        PROVE  s > H + 1 /\ log[Numbers(s - 1)] = "default"
    <3>1. s > H + 1 /\ s - 1 \in H + 1 .. End
      BY <1>0, <2>1, <2>3
    <3> HIDE DEF H
    <3>2. QED BY <1>3, <3>1
  <2>7. H + 1 \in Int /\ \A s \in End' - Len(lo') + 1 .. End' : s \in Int
    BY <1>0
  <2> DEFINE P == H + 1
  <2>8. \A s \in in_seq + 1 .. End + 1 :
           Numbers(s)' = IF s < P THEN Numbers(s)
                         ELSE IF s = P THEN Len(log) + 1 ELSE Numbers(s - 1)
    BY <2>4
  <2>9. \A s \in End' - Len(lo') + 1 .. End' :
           IF s < P THEN log[Numbers(s)] = "default"
           ELSE IF s = P THEN p = "default" ELSE log[Numbers(s - 1)] = "default"
    <3> HIDE DEF H
    <3>1. QED BY <2>6, <2>7
  <2>10. P \in in_seq + Readable + 1 .. End + 1 /\ \A s \in P .. End : log[Numbers(s)] # p
    BY <2>3, <2>5
  <2>11. End' - Len(lo') + 1 .. End' \subseteq in_seq + 1 .. End + 1
    BY <1>0, <1>2, <2>1, <2>3
  <2> HIDE DEF P, H
  <2>12. QED BY <2>3, <2>8, <2>9, <2>10, <2>11
<1>5. CASE p = "default"
  <2>1. hi' = hi /\ lo' = Append(lo, m)
    BY <1>5 DEF send_message, IInv, TypeOK, Prios, hi, lo
  <2> HIDE DEF m
  <2>2. /\ Len(lo') = Len(lo) + 1 /\ lo'[Len(lo) + 1] = m
        /\ \A i \in 1 .. Len(lo) : lo'[i] = lo[i]
    BY <1>0, <1>1, <2>1, AppendProperties
  <2>3. End' = End + 1 /\ End + 1 \in in_seq + Readable + 1 .. End + 1
    BY <1>0, <1>1, <1>2, <2>1, <2>2 DEF End
  <2>4. ASSUME NEW s \in in_seq + 1 .. End + 1
        PROVE  Numbers(s)' = IF s < End + 1 THEN Numbers(s) ELSE Len(log) + 1
    <3> DEFINE k == s - Acked
    <3>1. /\ k \in Nat \ {0} /\ s - Acked' = k
          /\ s < End + 1 <=> k <= Len(sent) + Len(hi) + Len(lo)
          /\ k <= Len(sent) + Len(hi) + Len(lo) + 1
      BY <1>0, <1>1
    <3>2. Numbers(s)' = IF k <= Len(sent) THEN sent[k].id
                        ELSE IF k <= Len(sent) + Len(hi) THEN hi[k - Len(sent)].id
                        ELSE lo'[k - (Len(sent) + Len(hi))].id
      <4>1. hi' = hi /\ sent' = sent /\ s - Acked' = k
        BY <1>1, <2>1, <3>1
      <4> HIDE DEF H
      <4>2. QED BY <4>1 DEF Numbers
    <3>3. Numbers(s) = IF k <= Len(sent) THEN sent[k].id
                       ELSE IF k <= Len(sent) + Len(hi) THEN hi[k - Len(sent)].id
                       ELSE lo[k - (Len(sent) + Len(hi))].id
      BY <3>1 DEF Numbers
    <3> HIDE DEF k
    <3> DEFINE j == k - (Len(sent) + Len(hi))
    <3>4. /\ k \in Int /\ Len(sent) \in Int /\ Len(hi) \in Int /\ Len(lo) \in Int
          /\ j \in Int /\ (k <= Len(sent) + Len(hi) \/ j \in 1 .. Len(lo) \/ j = Len(lo) + 1)
          /\ k <= Len(sent) => k <= Len(sent) + Len(hi)
          /\ k <= Len(sent) + Len(hi) => s < End + 1
          /\ j \in 1 .. Len(lo) => s < End + 1 /\ ~(k <= Len(sent) + Len(hi))
          /\ j = Len(lo) + 1 => ~(s < End + 1) /\ ~(k <= Len(sent) + Len(hi))
      <4>1. k \in Int /\ Len(sent) \in Nat /\ Len(hi) \in Nat /\ Len(lo) \in Nat
        BY <1>0, <3>1
      <4>2. QED BY <3>1, <4>1
    <3> HIDE DEF j
    <3>5. CASE k <= Len(sent) + Len(hi)
      BY <3>2, <3>3, <3>4, <3>5
    <3>6. CASE j \in 1 .. Len(lo)
      <4>1. lo'[j] = lo[j]
        BY <2>2, <3>6
      <4>2. QED BY <3>2, <3>3, <3>4, <3>6, <4>1 DEF j
    <3>8. CASE j = Len(lo) + 1
      <4>1. lo'[j].id = Len(log) + 1
        BY <1>1, <2>2, <3>8
      <4>2. QED BY <3>2, <3>4, <3>8, <4>1 DEF j
    <3>9. QED BY <3>4, <3>5, <3>6, <3>8
  <2>5. ASSUME NEW s \in End' - Len(lo') + 1 .. End'
        PROVE  IF s < End + 1 THEN log[Numbers(s)] = "default" ELSE s = End + 1
    <3>1. s \in H + 1 .. End + 1
      BY <1>0, <2>2, <2>3
    <3> HIDE DEF H
    <3>2. CASE s < End + 1
      <4>1. s \in H + 1 .. End
        BY <1>0, <3>1, <3>2
      <4>2. QED BY <1>3, <3>2, <4>1
    <3>3. CASE ~(s < End + 1)
      BY <1>0, <3>1, <3>3
    <3>4. QED BY <3>2, <3>3
  <2>6. \A s \in End + 1 .. End : log[Numbers(s)] # p
    BY <1>0
  <2> DEFINE P == End + 1
  <2>7. \A s \in in_seq + 1 .. End + 1 :
           Numbers(s)' = IF s < P THEN Numbers(s)
                         ELSE IF s = P THEN Len(log) + 1 ELSE Numbers(s - 1)
    BY <1>0, <2>4
  <2>8. \A s \in End' - Len(lo') + 1 .. End' :
           IF s < P THEN log[Numbers(s)] = "default"
           ELSE IF s = P THEN p = "default" ELSE log[Numbers(s - 1)] = "default"
    BY <1>5, <2>5
  <2>9. P \in in_seq + Readable + 1 .. End + 1 /\ \A s \in P .. End : log[Numbers(s)] # p
    BY <2>3, <2>6
  <2>10. End' - Len(lo') + 1 .. End' \subseteq in_seq + 1 .. End + 1
    BY <1>0, <1>2, <2>2, <2>3
  <2> HIDE DEF P
  <2>11. QED BY <2>3, <2>7, <2>8, <2>9, <2>10
<1>6. QED BY <1>4, <1>5 DEF Prios

\* What is dispatched is known by its position in log.
LEMMA LogProps ==
  ASSUME IInv, DueInv
  PROVE  /\ log \in Seq(Prios) /\ Len(log) \in Nat /\ DOMAIN log = 1 .. Len(log)
         /\ delivered \in Seq(Nat) /\ Channel!Delivered \subseteq 1 .. Len(log)
BY DEF IInv, TypeOK, DueInv

LEMMA SendKeeps ==
  ASSUME IInv, DeliveryInv, NEW p \in Prios, send_message(p)
  PROVE  DeliveryInv' /\ Channel!Send(p)
<1>1. /\ log \in Seq(Prios) /\ Len(log) \in Nat /\ DOMAIN log = 1 .. Len(log)
      /\ Channel!Delivered \subseteq 1 .. Len(log)
  BY LogProps DEF DeliveryInv
<1>2. /\ Len(log) < MaxMsgs /\ log' = Append(log, p)
      /\ UNCHANGED <<in_seq, rstate, toR, delivered>>
  BY DEF send_message, receiverVars
<1>3. /\ DOMAIN log' = 1 .. Len(log) + 1 /\ log'[Len(log) + 1] = p
      /\ \A j \in 1 .. Len(log) : log'[j] = log[j]
  BY <1>1, <1>2, AppendProperties
<1>4. Channel!Delivered' = Channel!Delivered
  BY <1>2 DEF Channel!Delivered
<1>5. in_seq \in Nat /\ End \in Nat /\ Readable \in Nat
  BY Lists, ReadableIsDue
<1>6. PICK P \in in_seq + Readable + 1 .. End + 1 :
         /\ End' = End + 1
         /\ \A s \in in_seq + 1 .. End + 1 :
              Numbers(s)' = IF s < P THEN Numbers(s)
                            ELSE IF s = P THEN Len(log) + 1 ELSE Numbers(s - 1)
         /\ \A s \in P .. End : log[Numbers(s)] # p
         /\ End' - Len(lo') + 1 .. End' \subseteq in_seq + 1 .. End + 1
         /\ \A s \in End' - Len(lo') + 1 .. End' :
              IF s < P THEN log[Numbers(s)] = "default"
              ELSE IF s = P THEN p = "default" ELSE log[Numbers(s - 1)] = "default"
  BY SendPlace
<1>7. P \in Int /\ P > in_seq + Readable /\ P \in in_seq + 1 .. End + 1
  BY <1>5
<1>8. Due = in_seq + 1 .. End /\ Due' = in_seq + 1 .. End + 1
  BY <1>2, <1>6 DEF Due
<1>9. /\ \A s \in Due : Numbers(s) \in 1 .. Len(log) /\ Numbers(s) \notin Channel!Delivered
      /\ \A j \in 1 .. Len(log) : j \notin Channel!Delivered => \E s \in Due : Numbers(s) = j
  BY <1>1, DueProps
<1>10. ASSUME NEW s \in Due'
       PROVE  /\ s < P => s \in Due /\ Numbers(s)' = Numbers(s)
              /\ s = P => Numbers(s)' = Len(log) + 1
              /\ s > P => s - 1 \in Due /\ s - 1 \in P .. End /\ Numbers(s)' = Numbers(s - 1)
  BY <1>5, <1>6, <1>7, <1>8
<1>11. SocketInv'
  <2>1. ASSUME rstate' = "OPEN", NEW i \in DOMAIN toR'
        PROVE  toR'[i].id = Numbers(in_seq + i)'
    <3>1. rstate = "OPEN" /\ i \in DOMAIN toR /\ Readable = Len(toR) /\ toR \in Seq(Msg)
      BY <1>2, <2>1 DEF Readable, IInv, TypeOK
    <3>2. i \in Nat /\ in_seq + i \in Due' /\ in_seq + i < P
      BY <1>5, <1>7, <1>8, <3>1, SocketIsDue
    <3>3. Numbers(in_seq + i)' = Numbers(in_seq + i)
      <4>1. \A s \in Due' : s = in_seq + i => Numbers(s)' = Numbers(in_seq + i)'
        BY <1>2
      <4>2. QED BY <1>2, <1>10, <3>2, <4>1
    <3>4. QED BY <1>2, <3>1, <3>3 DEF DeliveryInv, SocketInv
  <2>2. QED BY <2>1 DEF SocketInv
<1>12. {Numbers(s) : s \in Due}' = DOMAIN log' \ Channel!Delivered'
  <2>1. ASSUME NEW s \in Due'
        PROVE  Numbers(s)' \in 1 .. Len(log) + 1 /\ Numbers(s)' \notin Channel!Delivered
    <3>1. s < P \/ s = P \/ s > P
      BY <1>5, <1>7, <1>8
    <3>2. QED BY <1>1, <1>9, <1>10, <3>1
  <2>2. ASSUME NEW j \in 1 .. Len(log) + 1, j \notin Channel!Delivered
        PROVE  \E s \in Due' : Numbers(s)' = j
    <3>1. CASE j = Len(log) + 1
      BY <1>7, <1>8, <1>10, <3>1
    <3>2. CASE j # Len(log) + 1
      <4>1. PICK s \in Due : Numbers(s) = j
        BY <1>1, <1>9, <2>2, <3>2
      <4>2. CASE s < P
        <5>1. s \in Due'
          BY <1>5, <1>8
        <5>2. QED BY <1>10, <4>1, <4>2, <5>1
      <4>3. CASE s >= P
        <5>1. s + 1 \in Due' /\ s + 1 > P /\ (s + 1) - 1 = s
          BY <1>5, <1>7, <1>8, <4>3
        <5>2. Numbers(s + 1)' = Numbers((s + 1) - 1)
          BY <1>10, <5>1
        <5>3. QED BY <4>1, <5>1, <5>2
      <4>4. QED BY <1>5, <1>7, <1>8, <4>2, <4>3
    <3>3. QED BY <3>1, <3>2
  <2>3. QED BY <1>3, <1>4, <2>1, <2>2
<1>13. ASSUME NEW s \in Due', NEW t \in Due', s < t, log'[Numbers(s)'] = log'[Numbers(t)']
       PROVE  Numbers(s)' < Numbers(t)'
  <2>1. CASE s = P
    <3>1. t > P
      BY <1>5, <1>7, <1>8, <1>13, <2>1
    <3>2. log'[Numbers(t)'] # p
      BY <1>3, <1>6, <1>9, <1>10, <3>1
    <3>3. QED BY <1>3, <1>10, <1>13, <2>1, <3>2
  <2>2. CASE t = P
    <3>1. s < P
      BY <1>13, <2>2
    <3>2. QED BY <1>1, <1>9, <1>10, <2>2, <3>1
  <2>3. CASE s # P /\ t # P
    <3> DEFINE old(u) == IF u < P THEN u ELSE u - 1
    <3>1. /\ old(s) \in Due /\ old(t) \in Due
          /\ Numbers(s)' = Numbers(old(s)) /\ Numbers(t)' = Numbers(old(t))
      BY <1>5, <1>7, <1>8, <1>10, <2>3
    <3>2. old(s) < old(t)
      BY <1>5, <1>7, <1>8, <1>13, <2>3
    <3> HIDE DEF old
    <3>3. log[Numbers(old(s))] = log[Numbers(old(t))]
      BY <1>3, <1>9, <1>13, <3>1
    <3>4. QED BY <3>1, <3>2, <3>3 DEF DeliveryInv, DueInv
  <2>4. QED BY <2>1, <2>2, <2>3
<1>14. ASSUME NEW s \in End' - Len(lo') + 1 .. End' PROVE log'[Numbers(s)'] = "default"
  <2>1. s \in Due'
    <3>1. s \in in_seq + 1 .. End + 1
      BY <1>6
    <3>2. QED BY <1>8, <3>1
  <2>2. (s < P \/ s = P \/ s > P) /\ ~(s < P /\ s = P) /\ ~(s < P /\ s > P)
        /\ ~(s = P /\ s > P)
    BY <1>5, <1>7, <1>8, <2>1
  <2>3. IF s < P THEN log[Numbers(s)] = "default"
        ELSE IF s = P THEN p = "default" ELSE log[Numbers(s - 1)] = "default"
    BY <1>6
  <2>4. CASE s < P
    <3>1. s \in Due /\ Numbers(s)' = Numbers(s) /\ log[Numbers(s)] = "default"
      BY <1>10, <2>1, <2>3, <2>4
    <3>2. QED BY <1>3, <1>9, <3>1
  <2>5. CASE s = P
    <3>1. Numbers(s)' = Len(log) + 1 /\ p = "default"
      BY <1>10, <2>1, <2>2, <2>3, <2>5
    <3>2. QED BY <1>3, <3>1
  <2>6. CASE s > P
    <3>1. s - 1 \in Due /\ Numbers(s)' = Numbers(s - 1)
      BY <1>10, <2>1, <2>6
    <3>2. log[Numbers(s - 1)] = "default"
      BY <2>2, <2>3, <2>6
    <3>3. QED BY <1>3, <1>9, <3>1, <3>2
  <2>7. QED BY <2>2, <2>4, <2>5, <2>6
<1>15. DueInv'
  BY <1>1, <1>3, <1>4, <1>12, <1>13, <1>14 DEF DueInv
<1>16. QED BY <1>2, <1>11, <1>15 DEF DeliveryInv, Channel!Send

\* The receiver dispatches what is due first, the oldest of its priority.
LEMMA ReadKeeps ==
  ASSUME IInv, DeliveryInv, read_message
  PROVE  DeliveryInv' /\ \E i \in DOMAIN log : Channel!Deliver(i)
<1> DEFINE d == Numbers(in_seq + 1)
<1>1. /\ log \in Seq(Prios) /\ Len(log) \in Nat /\ DOMAIN log = 1 .. Len(log)
      /\ delivered \in Seq(Nat) /\ Channel!Delivered \subseteq 1 .. Len(log)
  BY LogProps DEF DeliveryInv
<1>2. /\ rstate = "OPEN" /\ toR \in Seq(Msg) /\ toR # <<>> /\ 1 \in DOMAIN toR
      /\ Len(toR') = Len(toR) - 1 /\ Len(toR) \in Nat \ {0}
      /\ toR' \in Seq(Msg) /\ \A i \in 1 .. Len(toR) - 1 : toR'[i] = toR[i + 1]
      /\ Head(toR) = toR[1]
  BY HeadTailProperties DEF read_message, IInv, TypeOK
<1>3. in_seq \in Nat /\ End \in Nat /\ in_seq + 1 \in Due
  BY <1>2, Lists, SocketIsDue
<1>4. Head(toR).seq = in_seq + 1 /\ Head(toR).id = d
  <2>1. toR[1].seq = in_seq + 1
    BY <1>2 DEF IInv, ReceiverInv, InOrderArrival
  <2>2. toR[1].id = Numbers(in_seq + 1)
    BY <1>2 DEF DeliveryInv, SocketInv
  <2>3. QED BY <1>2, <2>1, <2>2
<1>5. /\ in_seq' = in_seq + 1 /\ delivered' = Append(delivered, d)
      /\ UNCHANGED <<log, out_q, sent, out_seq, writer, rstate>>
  <2>1. ~(Head(toR).seq <= in_seq)
    BY <1>3, <1>4
  <2>2. QED BY <1>4, <2>1 DEF read_message, senderVars
<1>6. /\ End' = End /\ lo' = lo /\ Due' = in_seq + 2 .. End /\ Due = in_seq + 1 .. End
      /\ \A s \in Due : Numbers(s)' = Numbers(s)
  <2>1. Acked' = Acked /\ hi' = hi /\ lo' = lo
    BY <1>5 DEF Acked, Pending, hi, lo
  <2>2. End' = End /\ \A s \in Due : Numbers(s)' = Numbers(s)
    BY <1>5, <2>1 DEF End, Numbers
  <2>3. QED BY <1>3, <1>5, <2>1, <2>2 DEF Due
<1>7. /\ \A s \in Due : Numbers(s) \in 1 .. Len(log) /\ Numbers(s) \notin Channel!Delivered
      /\ \A j \in 1 .. Len(log) : j \notin Channel!Delivered => \E s \in Due : Numbers(s) = j
  BY <1>1, DueProps
<1>8. d \in 1 .. Len(log) /\ d \notin Channel!Delivered
  BY <1>3, <1>7
<1>9. \A s, t \in Due : s < t /\ log[Numbers(s)] = log[Numbers(t)] => Numbers(s) < Numbers(t)
  BY DEF DeliveryInv, DueInv
<1>10. ASSUME NEW s \in Due, s # in_seq + 1
       PROVE  s \in Due' /\ Numbers(s) # d /\ (log[Numbers(s)] = log[d] => d < Numbers(s))
  <2>1. in_seq + 1 < s /\ s \in Due'
    BY <1>3, <1>6, <1>10
  <2>2. log[Numbers(s)] = log[d] => d < Numbers(s)
    BY <1>3, <1>9, <2>1
  <2> HIDE DEF d
  <2>3. Numbers(s) # d
    BY <1>8, <2>2
  <2>4. QED BY <2>1, <2>2, <2>3
<1>11. Channel!Deliver(d)
  <2>1. ASSUME NEW j \in 1 .. d - 1, log[j] = log[d], j \notin Channel!Delivered PROVE FALSE
    <3> HIDE DEF d
    <3>1. j \in 1 .. Len(log) /\ j # d /\ ~(d < j)
      BY <1>1, <1>8, <2>1
    <3>2. PICK s \in Due : Numbers(s) = j
      BY <1>7, <2>1, <3>1
    <3>3. s # in_seq + 1
      BY <3>1, <3>2 DEF d
    <3>4. QED BY <1>10, <2>1, <3>1, <3>2, <3>3
  <2> HIDE DEF d
  <2>2. QED BY <1>5, <1>8, <2>1 DEF Channel!Deliver
<1>12. Channel!Delivered' = Channel!Delivered \cup {d}
  <2> HIDE DEF d
  <2>1. /\ Len(delivered') = Len(delivered) + 1 /\ delivered'[Len(delivered) + 1] = d
        /\ \A k \in 1 .. Len(delivered) : delivered'[k] = delivered[k]
        /\ DOMAIN delivered' = 1 .. Len(delivered) + 1 /\ Len(delivered) \in Nat
        /\ DOMAIN delivered = 1 .. Len(delivered)
    BY <1>1, <1>5, <1>8, AppendProperties
  <2>2. ASSUME NEW k \in DOMAIN delivered' PROVE delivered'[k] \in Channel!Delivered \cup {d}
    BY <2>1 DEF Channel!Delivered
  <2>3. ASSUME NEW k \in DOMAIN delivered
        PROVE  k \in DOMAIN delivered' /\ delivered'[k] = delivered[k]
    BY <2>1
  <2>4. Len(delivered) + 1 \in DOMAIN delivered'
    BY <2>1
  <2>5. QED BY <2>1, <2>2, <2>3, <2>4 DEF Channel!Delivered
<1>13. DueInv'
  <2>1. Due' \subseteq Due /\ in_seq + 1 \notin Due'
    BY <1>3, <1>6
  <2>2. {Numbers(s) : s \in Due}' = DOMAIN log' \ Channel!Delivered'
    <3>1. ASSUME NEW s \in Due'
          PROVE  Numbers(s)' \in 1 .. Len(log) /\ Numbers(s)' \notin Channel!Delivered'
      <4> HIDE DEF d
      <4>1. QED BY <1>6, <1>7, <1>10, <1>12, <2>1
    <3>2. ASSUME NEW j \in 1 .. Len(log), j \notin Channel!Delivered'
          PROVE  \E s \in Due' : Numbers(s)' = j
      <4>1. PICK s \in Due : Numbers(s) = j
        BY <1>7, <1>12, <3>2
      <4>2. s # in_seq + 1
        BY <1>12, <3>2, <4>1
      <4>3. QED BY <1>6, <1>10, <4>1, <4>2
    <3>3. QED BY <1>1, <1>5, <3>1, <3>2
  <2>3. \A s, t \in Due' : s < t /\ log'[Numbers(s)'] = log'[Numbers(t)'] => Numbers(s)' < Numbers(t)'
    BY <1>5, <1>6, <1>9, <2>1
  <2>4. \A s \in End' - Len(lo') + 1 .. End' : log'[Numbers(s)'] = "default"
    <3>1. \A s \in End - Len(lo) + 1 .. End : s \in Due /\ log[Numbers(s)] = "default"
      BY LowIsDue DEF DeliveryInv, DueInv
    <3>2. QED BY <1>5, <1>6, <3>1
  <2>5. Channel!Delivered' \subseteq DOMAIN log'
    <3> HIDE DEF d
    <3>1. QED BY <1>1, <1>5, <1>8, <1>12
  <2>6. QED BY <2>2, <2>3, <2>4, <2>5 DEF DueInv
<1>14. SocketInv'
  <2>1. ASSUME NEW i \in DOMAIN toR' PROVE toR'[i].id = Numbers(in_seq + i)'
    <3>1. /\ i \in Nat /\ i + 1 \in DOMAIN toR /\ toR'[i] = toR[i + 1]
          /\ in_seq + (i + 1) = in_seq' + i
      <4>1. DOMAIN toR' = 1 .. Len(toR') /\ DOMAIN toR = 1 .. Len(toR)
        BY <1>2
      <4>2. i \in 1 .. Len(toR) - 1
        BY <1>2, <4>1
      <4>3. i \in Nat /\ i + 1 \in 1 .. Len(toR)
        BY <1>2, <4>2
      <4>4. toR'[i] = toR[i + 1]
        BY <1>2, <4>2
      <4>5. in_seq + (i + 1) = in_seq' + i
        BY <1>3, <1>5, <4>3
      <4>6. QED BY <4>1, <4>3, <4>4, <4>5
    <3>2. toR[i + 1].id = Numbers(in_seq + (i + 1)) /\ in_seq + (i + 1) \in Due
      BY <1>2, <3>1, SocketIsDue DEF DeliveryInv, SocketInv
    <3>3. \A s \in Due : s = in_seq' + i => Numbers(s)' = Numbers(in_seq + i)'
      OBVIOUS
    <3>4. QED BY <1>6, <3>1, <3>2, <3>3
  <2>2. QED BY <2>1 DEF SocketInv
<1>15. QED BY <1>1, <1>8, <1>11, <1>13, <1>14 DEF DeliveryInv

-------------------------------------------------------------------------------
LEMMA InitDelivery == Init => DeliveryInv /\ Channel!Init
<1> SUFFICES ASSUME Init PROVE DeliveryInv /\ Channel!Init
  OBVIOUS
<1>1. /\ log = <<>> /\ delivered = <<>> /\ sent = <<>> /\ toR = <<>>
      /\ hi = <<>> /\ lo = <<>> /\ in_seq = 0 /\ out_seq = 0 /\ Pending = 0
  BY Priorities DEF Init, hi, lo, Pending
<1>2. Acked = 0 /\ End = 0 /\ Len(lo) = 0
  <2>1. Len(sent) = 0 /\ Len(hi) = 0 /\ Len(lo) = 0
    BY <1>1
  <2>2. Acked = 0
    <3>1. Acked = out_seq + Pending - Len(sent) /\ out_seq = 0 /\ Pending = 0 /\ Len(sent) = 0
      BY <1>1, <2>1 DEF Acked
    <3> HIDE DEF Init
    <3>2. QED BY <3>1
  <2>3. QED BY <2>1, <2>2 DEF End
<1>3. Due = {} /\ End - Len(lo) + 1 .. End = {}
  BY <1>1, <1>2 DEF Due
<1>4. Channel!Delivered = {} /\ DOMAIN log = {}
  BY <1>1 DEF Channel!Delivered
<1>5. QED BY <1>1, <1>3, <1>4 DEF DeliveryInv, SocketInv, DueInv, Channel!Init

LEMMA DeliveryStep ==
  IInv /\ DeliveryInv /\ [Next]_vars => DeliveryInv' /\ [Channel!Next]_(Channel!vars)
<1> SUFFICES ASSUME IInv, DeliveryInv, [Next]_vars
             PROVE  DeliveryInv' /\ [Channel!Next]_(Channel!vars)
  OBVIOUS
<1>1. CASE UNCHANGED vars
  <2>1. Pending' = Pending /\ hi' = hi /\ lo' = lo
    BY <1>1 DEF vars, Pending, hi, lo
  <2>2. Acked' = Acked
    BY <1>1, <2>1 DEF vars, Acked
  <2>3. End' = End /\ \A s \in Due : Numbers(s)' = Numbers(s)
    BY <1>1, <2>1, <2>2 DEF vars, End, Numbers
  <2>4. UNCHANGED <<log, in_seq, delivered, toR>> /\ rstate' = rstate /\ Channel!vars' = Channel!vars
    BY <1>1 DEF vars, Channel!vars
  <2>5. QED BY <2>1, <2>3, <2>4, Lists, KeepDue
<1>2. ASSUME NEW p \in Prios, send_message(p)
      PROVE  DeliveryInv' /\ [Channel!Next]_(Channel!vars)
  BY <1>2, SendKeeps DEF Channel!Next
<1>3. CASE read_message
  BY <1>3, ReadKeeps DEF Channel!Next
<1>4. CASE \/ handle_write \/ get_next_outgoing \/ write_message \/ write_fails
           \/ fault \/ handle_ack \/ wait_seq
           \/ write_ack \/ receiver_fault \/ receiver_connect \/ Reconnect
  BY <1>4, QuietKeeps, GetNextKeeps, WriteKeeps, WriteFailsKeeps, FaultKeeps, AckKeeps, WaitSeqKeeps
<1>5. QED BY <1>1, <1>2, <1>3, <1>4 DEF Next

\* What the receiver has not dispatched lies in sent, out_q and the socket exactly
\* once and in the order of each priority, whatever fails and is negotiated again.
THEOREM DeliveryIsExact == Spec => []DeliveryInv
<1>1. Init => DeliveryInv
  BY InitDelivery
<1>2. IInv /\ DeliveryInv /\ [Next]_vars => DeliveryInv'
  BY DeliveryStep
<1>3. QED BY <1>1, <1>2, Invariant, PTL DEF Spec

\* The message path implements the lossless channel, but for its liveness: every
\* step of handle_write, process, fault and the negotiation is a send, an in-order
\* delivery of a message never delivered before, or invisible.
THEOREM ImplementsChannel == Spec => Channel!Init /\ [][Channel!Next]_(Channel!vars)
<1>1. Init => Channel!Init
  BY InitDelivery
<1>2. IInv /\ DeliveryInv /\ [Next]_vars => [Channel!Next]_(Channel!vars)
  BY DeliveryStep
<1>3. QED BY <1>1, <1>2, Invariant, DeliveryIsExact, PTL DEF Spec
===============================================================================
