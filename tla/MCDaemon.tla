------------------------------ MODULE MCDaemon ------------------------------
(* Values for model checking Daemon: one shard, as for colliding addresses. *)
EXTENDS Daemon

CONSTANTS v1, v2, a1, l1

MCShard == [a \in Addr |-> 0]
=============================================================================
