----------------------------- MODULE ConnectionMC -----------------------------
(***************************************************************************)
(* The policies that the runs of Connection consider: two lossless peers   *)
(* that check for resets (lossless_peer_reuse), a lossless client and its  *)
(* stateful server, and a client of a server that makes the connection     *)
(* lossy.                                                                  *)
(***************************************************************************)
EXTENDS Connection

Peers  == [server |-> {}, standby |-> {1, 2}, resetcheck |-> {1, 2}, lossy |-> {}]
Client == [server |-> {2}, standby |-> {2}, resetcheck |-> {1, 2}, lossy |-> {}]
LossyClient == [server |-> {2}, standby |-> {}, resetcheck |-> {}, lossy |-> {2}]

AllPolicies  == {Peers, Client, LossyClient}
PeersOnly    == {Peers}
===============================================================================
