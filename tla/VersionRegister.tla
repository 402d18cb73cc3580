--------------------------- MODULE VersionRegister ---------------------------
(***************************************************************************)
(* What optimistic concurrency on the configuration promises the clients:  *)
(* the applied version is a register that only moves one up at a time, and *)
(* each move is made by one request, which learns the version it made.     *)
(* Applier is shown to implement it.                                       *)
(***************************************************************************)
EXTENDS Naturals
CONSTANT Req              \* the requests that may change the configuration

VARIABLES
    pointer,              \* the applied version
    won                   \* the version each request made current, 0 if none

Init == pointer = 0 /\ won = [r \in Req |-> 0]

Advance(r) ==
    /\ won[r] = 0
    /\ pointer' = pointer + 1
    /\ won' = [won EXCEPT ![r] = pointer + 1]

Next == \E r \in Req : Advance(r)

Spec == Init /\ [][Next]_<<pointer, won>>
=============================================================================
