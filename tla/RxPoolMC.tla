------------------------------ MODULE RxPoolMC ------------------------------
(* The receive buffers are interchangeable. *)
EXTENDS RxPool, TLC
Interchangeable == Permutations(Chunks)
=============================================================================
