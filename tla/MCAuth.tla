------------------------------- MODULE MCAuth -------------------------------
(* Values and symmetry for model checking Auth and, beside it, the login   *)
(* limiter.  The two share no state: a run steps the one or the other.     *)
EXTENDS Logins, TLC

CONSTANTS u1, t1, p, q, r1, r2, a1, a2, l1, l2

MCOwner == [t \in Token |-> u1]
OneShard == [a \in Addr |-> 0]

MCInit == Init /\ Limiter!Init

AuthSteps == Limiter!Init /\ Next /\ UNCHANGED limiterVars
LimiterSteps == Init /\ Limiter!Next /\ UNCHANGED vars

MCSpec == MCInit /\ [][AuthSteps \/ LimiterSteps]_<<vars, limiterVars>>

Symmetry == Permutations(Request) \cup Permutations(Password)
=============================================================================
