--------------------------- MODULE ApplyExclusion ---------------------------
(***************************************************************************)
(* What the apply lock promises its callers, with no word on how: of all   *)
(* the `apply()` calls aimed at one Caddy instance, from every process     *)
(* that shares the database, at most one at a time is inside the apply     *)
(* body.  ApplyLock is shown to implement this specification.              *)
(***************************************************************************)
CONSTANT Call             \* the apply() calls, of every process

VARIABLE inside           \* the calls that are running the apply body

Init == inside = {}

Enter(c) ==
    /\ inside = {}
    /\ inside' = {c}

\* A call finishes, panics or dies with its process.
Leave(c) ==
    /\ c \in inside
    /\ inside' = inside \ {c}

Next == \E c \in Call : Enter(c) \/ Leave(c)

Spec == Init /\ [][Next]_inside
=============================================================================
