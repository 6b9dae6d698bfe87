---------------------------- MODULE MCFileSync ----------------------------
(* The instances of FileSync that TLC checks: the bounds are given in the  *)
(* configurations.                                                         *)
EXTENDS FileSync, TLC
=============================================================================
