--------------------------- MODULE LosslessChannel ---------------------------
(***************************************************************************)
(* What a lossless connection promises its user in one direction: every    *)
(* message handed to send_message reaches the peer's dispatcher exactly    *)
(* once, and messages of one priority arrive in the order they were sent.  *)
(* A message of a higher priority may overtake the ones waiting behind it. *)
(***************************************************************************)
EXTENDS Naturals, Sequences

CONSTANTS Prios,    \* message priorities
          MaxMsgs   \* bound on the messages the user sends

VARIABLES log,        \* log[i] is the priority of the i-th message sent
          delivered   \* the messages dispatched so far, by their position in log

vars == <<log, delivered>>

Delivered == {delivered[k] : k \in DOMAIN delivered}

Init == log = <<>> /\ delivered = <<>>

Send(p) ==
  /\ Len(log) < MaxMsgs
  /\ log' = Append(log, p)
  /\ UNCHANGED delivered

\* The oldest undelivered message of its priority is delivered.
Deliver(i) ==
  /\ i \notin Delivered
  /\ \A j \in 1 .. i - 1 : log[j] = log[i] => j \in Delivered
  /\ delivered' = Append(delivered, i)
  /\ UNCHANGED log

Next == \/ \E p \in Prios : Send(p)
        \/ \E i \in DOMAIN log : Deliver(i)

Spec == Init /\ [][Next]_vars /\ WF_vars(\E i \in DOMAIN log : Deliver(i))
===============================================================================
