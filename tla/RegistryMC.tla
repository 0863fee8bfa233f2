----------------------------- MODULE RegistryMC -----------------------------
(* Connections are interchangeable. *)
EXTENDS Registry, TLC

Interchangeable == Permutations(Conns)
=============================================================================
