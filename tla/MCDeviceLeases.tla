-------------------------- MODULE MCDeviceLeases ---------------------------
(***************************************************************************)
(* TLC instances of DeviceLeases.  Clients and handlers are interchangeable *)
(* in the safety runs.                                                     *)
(***************************************************************************)
EXTENDS DeviceLeases, TLC

Symmetry == Permutations(Clients) \cup Permutations(Handlers)
=============================================================================
