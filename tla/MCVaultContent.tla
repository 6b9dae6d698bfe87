--------------------------- MODULE MCVaultContent ---------------------------
(***************************************************************************)
(* Instances of VaultContent for TLC.                                      *)
(***************************************************************************)
EXTENDS VaultContent, TLC

SealSymmetry == Permutations(Seals)
FileAndSealSymmetry == Permutations(Files) \cup Permutations(Seals)
=============================================================================
