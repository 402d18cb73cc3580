---------------------------- MODULE MCApplyLock ----------------------------
(* Two daemons over one database, two concurrent calls in the first.       *)
EXTENDS ApplyLock, TLC

CONSTANTS d1, d2, c1, c2, c3

MCDaemonOf == (c1 :> d1) @@ (c2 :> d1) @@ (c3 :> d2)
=============================================================================
