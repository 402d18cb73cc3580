-------------------------------- MODULE Logins -------------------------------
(***************************************************************************)
(* The rate limiter in front of the logins of Auth, with a clock of its    *)
(* own: what becomes of a login after the limiter has let it through does  *)
(* not matter to the limiter but for how it ends, and is left to Auth.     *)
(***************************************************************************)
EXTENDS Auth

CONSTANTS
    Addr,           \* client addresses
    Shard,          \* Addr -> Nat: the shard of the map that holds its bucket
    Login,          \* slots for concurrent logins
    FreeFailures, BackoffCap, PurgeEvery, StaleAfter,
    MaxSeconds      \* bound on the limiter's clock

\* A failure may be free; a back-off may be none.
ASSUME LoginsAssumption ==
    /\ IsFiniteSet(Login) /\ Login # {}
    /\ {FreeFailures, BackoffCap} \subseteq Nat

VARIABLES seconds, bucket, held, login, inWindow

limiterVars == <<seconds, bucket, held, login, inWindow>>

Limiter == INSTANCE LoginLimiter WITH now <- seconds, MaxTime <- MaxSeconds

-----------------------------------------------------------------------------
(* Properties.                                                             *)

\* check and record_failure are two calls with an Argon2 run between them
\* (auth_routes.rs:221-283), so logins under way when a back-off begins are still
\* counted against it; never more than there are other logins.
BackoffHolds ==
    \A a \in Addr : inWindow[a] < Cardinality(Login)

=============================================================================
