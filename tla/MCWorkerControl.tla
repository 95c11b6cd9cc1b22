--------------------------- MODULE MCWorkerControl ---------------------------
(* The worker host with its constants given by the configuration files. *)
EXTENDS WorkerControl
=============================================================================
