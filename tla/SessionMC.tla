----------------------------- MODULE SessionMC -----------------------------
(* Two peers, each of which connects again when it has something to send, and   *)
(* each end as the server, which waits in STANDBY for its client to do so.      *)
EXTENDS SessionInv

Peer   == [server |-> FALSE, standby |-> TRUE]
Server == [server |-> TRUE, standby |-> TRUE]
Client == [server |-> FALSE, standby |-> FALSE]

PeersAndServers ==
  {[e \in Ends |-> Peer]} \cup
  {[e \in Ends |-> IF e = s THEN Server ELSE Client] : s \in Ends}
=============================================================================
