---------------------------- MODULE MCHelmRelease -----------------------------
(* Finite instances of HelmRelease for TLC. *)
EXTENDS HelmRelease, TLC

MCSymmetry == Permutations(Charts) \union Permutations(Settings)
================================================================================
