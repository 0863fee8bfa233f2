----------------------------- MODULE ReceiveMC -----------------------------
(* One connection whose peer may send anything, another with a large message. *)
EXTENDS Receive, TLC
CONSTANTS a, b
Msg(front, data, end) == [tag |-> "MSG", front |-> front, data |-> data, end |-> end]
Item(tag) == [tag |-> tag, front |-> 0, data |-> 0, end |-> "ok"]
Anything == {
  <<Item("KEEPALIVE"), Msg(1, 0, "ok")>>, <<Item("KEEPALIVE2"), Msg(1, 3, "aborted")>>,
  <<Msg(1, 0, "ok"), Msg(1, 0, "ok")>>, <<Msg(1, 0, "old")>>,
  <<Item("KEEPALIVE2_ACK"), Msg(1, 0, "bad_header")>>, <<Item("ACK"), Item("bad")>>,
  <<Item("CLOSE")>>}
TheStreams == (a :> Anything) @@ (b :> {<<Msg(0, 2, "ok")>>})
=============================================================================
