---------------------------- MODULE MCSessionKeys ----------------------------
(***************************************************************************)
(* Small instances of SessionKeys for TLC.                                  *)
(***************************************************************************)
EXTENDS SessionKeys, TLC

KeySymmetry == Permutations(Keys)
==============================================================================
