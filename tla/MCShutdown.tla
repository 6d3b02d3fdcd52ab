----------------------------- MODULE MCShutdown -----------------------------
(* Shutdown with little work for the threads.                              *)
EXTENDS Shutdown
=============================================================================
