---------------------------- MODULE MCSupervisor ----------------------------
(***************************************************************************)
(* Supervisor for TLC.  Instance identifiers are drawn at random and only  *)
(* ever compared, and clients are alike: both sets are symmetric.          *)
(***************************************************************************)
EXTENDS Supervisor, TLC

Symmetric == Permutations(Launch) \cup Permutations(Clients)
=============================================================================
