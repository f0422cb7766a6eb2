--------------------------- MODULE MCPairingSessions ---------------------------
(***************************************************************************)
(* HAPPairingSessions for TLC.                                             *)
(***************************************************************************)
EXTENDS HAPPairingSessions, TLC

Symmetry == Permutations(Controllers) \cup Permutations(IPSessions)
===============================================================================
