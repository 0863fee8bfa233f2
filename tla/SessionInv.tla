----------------------------- MODULE SessionInv -----------------------------
(***************************************************************************)
(* The inductive invariant of Session: how the numbers held by the sender, *)
(* the socket and the receiver fit together.  It is checked here by TLC    *)
(* and used by the proofs of SessionProofs.                                *)
(***************************************************************************)
EXTENDS Session

hi == out_q["highest"]
lo == out_q["default"]

\* 1 while handle_write holds a message it has put on sent and not numbered.
Pending == IF writer = "write" THEN 1 ELSE 0
\* The number of the last message whose acknowledgement was handled.
Acked   == out_seq + Pending - Len(sent)
\* Messages the receiver can still read.
Readable == IF rstate = "OPEN" THEN Len(toR) ELSE 0

\* handle_write only loops while the connection is open, and sent is empty when
\* it is not; the message held in "write" is the last on sent.
WriterInv ==
  /\ writer # "idle" => state = "OPEN"
  /\ state # "OPEN" => sent = <<>>
  /\ writer = "write" => /\ sent # <<>> /\ sent[Len(sent)] = msg
                         /\ msg.seq \in {0, out_seq + 1}
  /\ 0 <= Acked

\* sent carries consecutive numbers up to out_seq.
SentInv == \A i \in 1 .. Len(sent) - Pending : sent[i].seq = Acked + i

\* The first n of the highest priority are requeued, numbered on from where
\* writing resumes; everything behind them has never been written.
Requeued(n) ==
  /\ \A i \in 1 .. n : hi[i].seq = out_seq + Pending + i
  /\ \A i \in n + 1 .. Len(hi) : hi[i].seq = 0
  /\ writer = "write" /\ msg.seq = 0 => n = 0

\* The highest number ever given to a message.
LastNumber(n) == IF writer = "write" /\ msg.seq = 0 THEN out_seq ELSE out_seq + Pending + n

\* The receiver is never ahead of the numbers given.
QueueInv ==
  /\ \A i \in 1 .. Len(lo) : lo[i].seq = 0
  /\ \E n \in 0 .. Len(hi) : Requeued(n) /\ in_seq + Readable <= LastNumber(n)

\* It has all that is acknowledged, and what is in its socket follows on.
ReceiverInv ==
  /\ Acked <= in_seq
  /\ InOrderArrival
  /\ rstate = "OPEN" /\ state = "OPEN" => in_seq + Len(toR) = out_seq
  /\ state = "WAIT_SEQ" => toR = <<>>

\* Acknowledgements are never ahead of the receiver; the exchanged number is exact.
NotesInv ==
  \A i \in 1 .. Len(toS) :
     IF toS[i].tag = "SEQ" THEN i = 1 /\ state = "WAIT_SEQ" /\ toS[i].seq = in_seq
                           ELSE toS[i].seq <= in_seq

\* The five parts hold together at every step of either end: the numbers on sent,
\* in the requeued part of out_q and in the socket continue one another.
IInv == TypeOK /\ WriterInv /\ SentInv /\ QueueInv /\ ReceiverInv /\ NotesInv
-------------------------------------------------------------------------------
(* How what is still to be dispatched lies in the sender's lists. *)

\* The number the last of the waiting messages gets if nothing overtakes it.
End == Acked + Len(sent) + Len(hi) + Len(lo)

\* The message that has the number s, or gets it if nothing overtakes it: sent,
\* the highest priority and the default one, read one after the other.
Numbers(s) ==
  LET k == s - Acked
  IN  IF k <= Len(sent) THEN sent[k].id
      ELSE IF k <= Len(sent) + Len(hi) THEN hi[k - Len(sent)].id
      ELSE lo[k - (Len(sent) + Len(hi))].id

\* What the receiver has not dispatched yet, by number.
Due == in_seq + 1 .. End

\* The socket holds the first of what is due, in order.
SocketInv ==
  rstate = "OPEN" => \A i \in DOMAIN toR : toR[i].id = Numbers(in_seq + i)

\* What is due is what was submitted and not dispatched, each priority in the
\* order of submission; only default messages wait at the default priority.
DueInv ==
  /\ Channel!Delivered \subseteq DOMAIN log
  /\ {Numbers(s) : s \in Due} = DOMAIN log \ Channel!Delivered
  /\ \A s, t \in Due :
        s < t /\ log[Numbers(s)] = log[Numbers(t)] => Numbers(s) < Numbers(t)
  /\ \A s \in End - Len(lo) + 1 .. End : log[Numbers(s)] = "default"

\* No message is lost, doubled or overtaken by a later one of its priority between
\* send_message and the dispatch, whatever is requeued, discarded or acknowledged.
DeliveryInv == SocketInv /\ DueInv
===============================================================================
