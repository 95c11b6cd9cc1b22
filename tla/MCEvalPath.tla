----------------------------- MODULE MCEvalPath -----------------------------
(* The evaluation path with its constants given by the configuration files. *)
EXTENDS EvalPath
=============================================================================
