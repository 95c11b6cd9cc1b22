----------------------------- MODULE MCDataCache -----------------------------
(* The data cache with its constants given by the configuration files. *)
EXTENDS DataCache
=============================================================================
