-------------------------- MODULE MCIPAccessoryServer --------------------------
(***************************************************************************)
(* HAPIPAccessoryServer for TLC.                                           *)
(***************************************************************************)
EXTENDS HAPIPAccessoryServer, TLC

Symmetry == Permutations(Sessions)
================================================================================
