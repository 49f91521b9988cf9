---------------------------- MODULE MCWorkerPool ----------------------------
(* Four items and two slots: items wait for a slot, and two goroutines     *)
(* meet at the mutex.                                                      *)
EXTENDS WorkerPool
=============================================================================
