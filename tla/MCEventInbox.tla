---------------------------- MODULE MCEventInbox ----------------------------
(* The instances of EventInbox that TLC checks: the bounds are given in    *)
(* the configurations.                                                     *)
EXTENDS EventInbox, TLC
=============================================================================
