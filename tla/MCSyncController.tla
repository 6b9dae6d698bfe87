-------------------------- MODULE MCSyncController --------------------------
(***************************************************************************)
(* Instances of SyncController for TLC.                                    *)
(***************************************************************************)
EXTENDS SyncController, TLC

Symmetric == Permutations(Tasks) \cup Permutations(Callers) \cup Permutations(Engines)
=============================================================================
