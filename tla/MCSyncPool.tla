----------------------------- MODULE MCSyncPool -----------------------------
(* The instances of SyncPool that TLC checks: workers and vaults are model *)
(* values, and the bounds are given in the configurations.                 *)
EXTENDS SyncPool, TLC
=============================================================================
