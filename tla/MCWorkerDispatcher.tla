------------------------- MODULE MCWorkerDispatcher -------------------------
(***************************************************************************)
(* Three calls: one that runs, one that waits, one that comes at any       *)
(* moment; one exception of the worker, and its end.                       *)
(***************************************************************************)
EXTENDS WorkerDispatcher
=============================================================================
