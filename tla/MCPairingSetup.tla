---------------------------- MODULE MCPairingSetup ----------------------------
(***************************************************************************)
(* HAPPairingSetup for TLC.                                                *)
(***************************************************************************)
EXTENDS HAPPairingSetup, TLC

Symmetry == Permutations(Controllers) \cup Permutations(Codes)
            \cup Permutations(IPSessions)
===============================================================================
