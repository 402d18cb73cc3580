------------------------------ MODULE MCStore -------------------------------
(* Values for model checking Store: three bodies, two of which collide, and *)
(* an id that addresses none of them.                                       *)
EXTENDS Store

MCHash == [body \in {"b1", "b2", "b3"} |->
              CASE body = "b1" -> "h1" [] body = "b2" -> "h2" [] body = "b3" -> "h2"]

=============================================================================
