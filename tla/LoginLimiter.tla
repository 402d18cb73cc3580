---------------------------- MODULE LoginLimiter ----------------------------
(***************************************************************************)
(* The login rate limiter, as concurrent logins use it: check when a login *)
(* arrives, then a lookup and an Argon2 run during which other logins      *)
(* proceed, then record_failure with the clock read at arrival, or         *)
(* record_success.  Module Auth models what else a login does.             *)
(*                                                                         *)
(* The map of buckets is a DashMap: a bucket is reached under the lock of  *)
(* its shard, and a lock asked for twice by one thread is never granted.   *)
(***************************************************************************)
EXTENDS Naturals

CONSTANTS
    Addr,           \* client addresses
    Shard,          \* Addr -> Nat: the shard of the map that holds its bucket
    Login,          \* slots for concurrent logins
    None,           \* no address
    FreeFailures,   \* failures before back-off (5)
    BackoffCap,     \* longest back-off in seconds (60)
    PurgeEvery,     \* a purge every so many failures of a bucket (100)
    StaleAfter,     \* age of a back-off that a purge removes (300)
    MaxTime         \* bound on the clock

VARIABLES
    now,            \* the wall clock, in seconds
    bucket,         \* LoginRateLimiter.buckets; NoBucket stands for no entry
    held,           \* addresses whose shard a hung login keeps locked
    login,          \* what each login does next
    inWindow        \* history: failures recorded while a back-off was in force

limiter == <<bucket, held, inWindow>>
vars == <<now, limiter, login>>

NoBucket == [count |-> 0, next |-> 0]
Idle == [pc |-> "idle", addr |-> None, at |-> 0]

TypeOK ==
    /\ now \in Nat
    /\ bucket \in [Addr -> [count : Nat, next : Nat]]
    /\ held \subseteq Addr
    /\ login \in [Login -> [pc : {"idle", "verify", "hung"},
                            addr : Addr \cup {None}, at : Nat]]
    /\ inWindow \in [Addr -> Nat]

Init ==
    /\ now = 0
    /\ bucket = [a \in Addr |-> NoBucket]
    /\ held = {}
    /\ login = [l \in Login |-> Idle]
    /\ inWindow = [a \in Addr |-> 0]

Locked(a) == \E b \in held : Shard[b] = Shard[a]

InForce(a) == now < bucket[a].next

\* min(2^(count - 4), 60) seconds from the fifth failure on; the power saturates.
Backoff(count) ==
    LET wanted == 2^(count - (FreeFailures - 1))
    IN IF wanted \in 0..BackoffCap THEN wanted ELSE BackoffCap

\* record_failure up to the purge.
Counted(a, at) ==
    LET c == bucket[a].count + 1
    IN [count |-> c,
        next |-> IF c >= FreeFailures THEN at + Backoff(c) ELSE bucket[a].next]

\* Every hundredth failure of a bucket purges the map, with the lock of that
\* bucket's shard in hand.
Hangs(a) == (bucket[a].count + 1) % PurgeEvery = 0

\* The purge visits the shards in order and waits for ever at the first one
\* that is locked, at the latest at its own.
Purged(a, at) ==
    {b \in Addr : /\ \A c \in held \cup {a} : Shard[b] < Shard[c]
                  /\ bucket[b].next + StaleAfter <= at}

RecordFailure(a, at) ==
    /\ bucket' = [b \in Addr |->
                    IF b = a THEN Counted(a, at)
                    ELSE IF Hangs(a) /\ b \in Purged(a, at) THEN NoBucket
                    ELSE bucket[b]]
    /\ held' = IF Hangs(a) THEN held \cup {a} ELSE held
    /\ inWindow' = [inWindow EXCEPT ![a] = IF InForce(a) THEN @ + 1 ELSE 0]

RecordSuccess(a) ==
    /\ bucket' = [bucket EXCEPT ![a] = NoBucket]
    /\ inWindow' = [inWindow EXCEPT ![a] = 0]
    /\ UNCHANGED held

\* Mutant: the back-off is not looked at.
Admitted_Always(a) == ~Locked(a)

\* check: the bucket can be read, and no back-off is in force.
Admitted(a) == ~Locked(a) /\ ~InForce(a)

\* A login that is not admitted is answered 429, or waits for the shard.
Arrive(l, a) ==
    /\ login[l] = Idle
    /\ Admitted(a)
    /\ login' = [login EXCEPT ![l] = [pc |-> "verify", addr |-> a, at |-> now]]
    /\ UNCHANGED <<now, limiter>>

Reject(l) ==
    LET a == login[l].addr
    IN /\ login[l].pc = "verify"
       /\ ~Locked(a)
       /\ RecordFailure(a, login[l].at)
       /\ login' = [login EXCEPT ![l] = IF Hangs(a) THEN [Idle EXCEPT !.pc = "hung"] ELSE Idle]
       /\ UNCHANGED now

Accept(l) ==
    /\ login[l].pc = "verify"
    /\ ~Locked(login[l].addr)
    /\ RecordSuccess(login[l].addr)
    /\ login' = [login EXCEPT ![l] = Idle]
    /\ UNCHANGED now

\* The lookup or Argon2 fails, or the client goes away during the lookup: the
\* login ends without a record.
Abort(l) ==
    /\ login[l].pc = "verify"
    /\ login' = [login EXCEPT ![l] = Idle]
    /\ UNCHANGED <<now, limiter>>

\* The daemon ends and starts again; the limiter is in memory only.
Restart ==
    /\ bucket' = [a \in Addr |-> NoBucket]
    /\ held' = {}
    /\ login' = [l \in Login |-> Idle]
    /\ inWindow' = [a \in Addr |-> 0]
    /\ UNCHANGED now

Tick ==
    /\ now < MaxTime
    /\ now' = now + 1
    /\ UNCHANGED <<limiter, login>>

Record(l) == Reject(l) \/ Accept(l)
End(l) == Record(l) \/ Abort(l)

Next ==
    \/ \E l \in Login : End(l) \/ \E a \in Addr : Arrive(l, a)
    \/ Restart
    \/ Tick

Spec == Init /\ [][Next]_vars

=============================================================================
