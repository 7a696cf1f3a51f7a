--------------------------- MODULE MCWorkerThread ---------------------------
(* An instance of WorkerThread for TLC. *)
EXTENDS WorkerThread

CONSTANTS a, b
=============================================================================
