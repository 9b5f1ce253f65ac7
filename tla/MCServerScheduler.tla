-------------------------- MODULE MCServerScheduler --------------------------
(* Instances of the server's scheduler.  Connections are interchangeable.  *)
EXTENDS ServerScheduler, TLC

Interchangeable == Permutations(Clients)
=============================================================================
