-------------------------------- MODULE Auth --------------------------------
(***************************************************************************)
(* Accounts, sessions and bearer tokens, as the requests that use them     *)
(* interleave.  A request is one of: login, a read (any protected route),  *)
(* logout, change-password.  Every await of its handler ends a step; what  *)
(* the code does between two awaits is one step, and a request shows up    *)
(* with its first query: what it brought with it that is read later        *)
(* (passwords) is chosen when it is read.  SessionStore reads the clock    *)
(* before it waits for the database, so its queries may run on an older    *)
(* time ("at").                                                            *)
(*                                                                         *)
(* A password stands for itself and for its hash.  Left out because no     *)
(* property here reads them: last_seen_at and its throttle, roles and      *)
(* permissions, and the text of answers; a request that is answered goes   *)
(* back to "idle" whatever the status.                                     *)
(***************************************************************************)
EXTENDS Naturals, Sequences, FiniteSets

CONSTANTS
    User,           \* accounts of table users
    Password,       \* passwords of twelve characters and more
    None,           \* no user, no password, no token
    Token,          \* bearer tokens of table tokens
    Owner,          \* Token -> User \cup {None}: tokens.user_id
    Request,        \* slots for concurrent requests
    TTL,            \* session_ttl_seconds
    MaxTime,        \* bound on the clock
    MaxSessions     \* bound on the rows of table sessions

ASSUME AuthAssumption ==
    /\ None \notin User \cup Password \cup Token
    /\ Owner \in [Token -> User \cup {None}]
    /\ {TTL, MaxTime, MaxSessions} \subseteq Nat

VARIABLES
    now,            \* the wall clock, in seconds
    password,       \* users.password_hash
    mustChange,     \* users.must_change_pw
    enabled,        \* users.disabled_at IS NULL
    revokedTokens,  \* tokens whose revoked_at is set
    sessions,       \* table sessions; a session id is a place in it
    job,            \* what each request does next, and its locals
    entitled,       \* history: what has held of the request's credential
    unfinished      \* history: users whose change-password ended half-way

users == <<password, mustChange, enabled, revokedTokens>>
vars == <<now, users, sessions, job, entitled, unfinished>>

Session == [user : User, under : Password, late : BOOLEAN,
            expires : Nat, revoked : BOOLEAN]

Kinds == {"login", "read", "logout", "change"}

\* Where a request with a cookie or a token may be once it is authenticated.
Handlers == {"serve", "revoke", "verify_old", "update", "clear", "revoke_all"}

\* What auth_layer asks of a credential: its expiry on its own, the rest together.
Facts == {"unexpired", "allowed"}

Job == [pc : {"idle", "verify", "create", "audit", "expiry", "user", "bearer"} \cup Handlers,
        kind : Kinds, user : User \cup {None}, new : Password \cup {None},
        hash : Password \cup {None}, cookie : Nat, token : Token \cup {None}, left : Nat]

Idle == [pc |-> "idle", kind |-> "read", user |-> None, new |-> None,
         hash |-> None, cookie |-> 0, token |-> None, left |-> 0]

TypeOK ==
    /\ now \in Nat
    /\ password \in [User -> Password]
    /\ mustChange \in [User -> BOOLEAN] /\ enabled \in [User -> BOOLEAN]
    /\ revokedTokens \subseteq Token
    /\ sessions \in Seq(Session)
    /\ job \in [Request -> Job]
    /\ entitled \in [Request -> SUBSET Facts]
    /\ unfinished \subseteq User

Init ==
    /\ now = 0
    /\ password \in [User -> Password]
    /\ mustChange \in [User -> BOOLEAN]
    /\ enabled = [u \in User |-> TRUE]
    /\ revokedTokens = {}
    /\ sessions = <<>>
    /\ job = [r \in Request |-> Idle]
    /\ entitled = [r \in Request |-> {}]
    /\ unfinished = {}

At(r, pc) == job[r].pc = pc
Goto(r, pc) == job' = [job EXCEPT ![r].pc = pc]
Answer(r) == job' = [job EXCEPT ![r] = Idle]

\* Locals that nothing reads any more are dropped.
Enter(r, pc) == job' = [job EXCEPT ![r] = [Idle EXCEPT !.pc = pc]]
Owes(r, rows) == job' = [job EXCEPT ![r] = [Idle EXCEPT !.pc = "audit", !.left = rows]]

-----------------------------------------------------------------------------
(* POST /auth/login.                                                       *)

\* find_by_username; an absent or disabled account has no hash to match.  The
\* rate limiter (module LoginLimiter) may turn a login away before, which
\* changes nothing here.
Lookup(r, u) ==
    /\ At(r, "idle")
    /\ job' = [job EXCEPT ![r] = [Idle EXCEPT !.pc = "verify", !.kind = "login", !.user = u,
                 !.hash = IF u # None /\ enabled[u] THEN password[u] ELSE None]]
    /\ UNCHANGED <<now, users, sessions, unfinished>>

\* verify_password on the hash that Lookup read; a failed login owes its row.
Verify(r, p) ==
    /\ At(r, "verify")
    /\ IF job[r].hash = p THEN Goto(r, "create") ELSE Owes(r, 1)
    /\ UNCHANGED <<now, users, sessions, unfinished>>

\* SessionStore::create.  "late" records that the password which the login
\* verified is no longer the user's.
Create(r, at) ==
    LET j == job[r]
    IN /\ At(r, "create")
       /\ Len(sessions) < MaxSessions
       /\ sessions' = Append(sessions,
            [user |-> j.user, under |-> j.hash, late |-> password[j.user] # j.hash,
             expires |-> at + TTL, revoked |-> FALSE])
       /\ Owes(r, 1)
       /\ UNCHANGED <<now, users, unfinished>>

\* One audit row; the request is answered after the last.
Audit(r) ==
    /\ At(r, "audit")
    /\ IF job[r].left <= 1 THEN Answer(r) ELSE Owes(r, job[r].left - 1)
    /\ UNCHANGED <<now, users, sessions, unfinished>>

-----------------------------------------------------------------------------
(* auth_layer: a cookie first, then a bearer token.                        *)

\* The paths a user with must_change_pw may reach.
Allowed(kind, must) == must => kind = "change"

\* Without a session the bearer token is tried; without one the answer is 401.
TryBearer(r, kind, t) ==
    /\ t # None
    /\ job' = [job EXCEPT ![r] = [Idle EXCEPT !.pc = "bearer", !.kind = kind, !.token = t]]

TakeSession(r, kind, s) ==
    job' = [job EXCEPT ![r] = [Idle EXCEPT !.pc = "expiry", !.kind = kind, !.cookie = s,
              !.user = sessions[s].user]]

\* Mutant: touch looks only at the expiry.
Touch_IgnoresRevoked(r, kind, s, t, at) ==
    /\ At(r, "idle") /\ kind # "login"
    /\ IF s # 0 /\ ~(sessions[s].expires < at)
       THEN TakeSession(r, kind, s)
       ELSE TryBearer(r, kind, t)
    /\ UNCHANGED <<now, users, sessions, unfinished>>

\* SessionStore::touch on the cookie s (0: no cookie) of a request with token t.
Touch(r, kind, s, t, at) ==
    /\ At(r, "idle") /\ kind # "login"
    /\ IF s # 0 /\ ~sessions[s].revoked /\ ~(sessions[s].expires < at)
       THEN TakeSession(r, kind, s)
       ELSE TryBearer(r, kind, t)
    /\ UNCHANGED <<now, users, sessions, unfinished>>

\* The middleware's own expiry check, by its own clock, before it awaits the user.
CheckExpiry(r) ==
    /\ At(r, "expiry")
    /\ IF sessions[job[r].cookie].expires <= now THEN Answer(r) ELSE Goto(r, "user")
    /\ UNCHANGED <<now, users, sessions, unfinished>>

\* Where the handlers that need a session start.
Entry(kind) == IF kind = "logout" THEN "revoke" ELSE "verify_old"

\* find_user_by_id, disabled_at, must_change_pw.
FindUser(r) ==
    LET j == job[r]
    IN /\ At(r, "user")
       /\ IF enabled[j.user] /\ Allowed(j.kind, mustChange[j.user])
          THEN IF j.kind = "read" THEN Enter(r, "serve") ELSE Goto(r, Entry(j.kind))
          ELSE Answer(r)
       /\ UNCHANGED <<now, users, sessions, unfinished>>

\* The account behind a token is in order, if it has one.
OwnerAllows(t, kind) ==
    Owner[t] # None => enabled[Owner[t]] /\ Allowed(kind, mustChange[Owner[t]])

\* try_bearer_token, one SELECT.  logout and change-password want a session
\* and answer 401 to a token.
Bearer(r) ==
    LET j == job[r]
    IN /\ At(r, "bearer")
       /\ IF j.token \notin revokedTokens /\ OwnerAllows(j.token, j.kind) /\ j.kind = "read"
          THEN Enter(r, "serve")
          ELSE Answer(r)
       /\ UNCHANGED <<now, users, sessions, unfinished>>

Serve(r) ==
    /\ At(r, "serve")
    /\ Answer(r)
    /\ UNCHANGED <<now, users, sessions, unfinished>>

-----------------------------------------------------------------------------
(* POST /auth/logout and POST /auth/change-password.                       *)

RevokeOne(r) ==
    /\ At(r, "revoke")
    /\ sessions' = [sessions EXCEPT ![job[r].cookie].revoked = TRUE]
    /\ Owes(r, 1)
    /\ UNCHANGED <<now, users, unfinished>>

\* find_user_by_id, verify_password, and the checks of the new password.
VerifyOld(r, old, new) ==
    /\ At(r, "verify_old")
    /\ IF password[job[r].user] = old /\ new # old
       THEN job' = [job EXCEPT ![r].pc = "update", ![r].new = new]
       ELSE Answer(r)
    /\ UNCHANGED <<now, users, sessions, unfinished>>

UpdatePassword(r) ==
    /\ At(r, "update")
    /\ password' = [password EXCEPT ![job[r].user] = job[r].new]
    /\ job' = [job EXCEPT ![r].pc = "clear", ![r].new = None]
    /\ UNCHANGED <<now, mustChange, enabled, revokedTokens, sessions, unfinished>>

ClearFlag(r) ==
    /\ At(r, "clear")
    /\ mustChange' = [mustChange EXCEPT ![job[r].user] = FALSE]
    /\ Goto(r, "revoke_all")
    /\ UNCHANGED <<now, password, enabled, revokedTokens, sessions, unfinished>>

\* The sessions revoke_all_for_user marks.
ToRevoke(u) == {s \in DOMAIN sessions : sessions[s].user = u /\ ~sessions[s].revoked}

\* Mutant: the session that made the request survives.
RevokeAll_Others(r) ==
    LET j == job[r]
        gone == ToRevoke(j.user) \ {j.cookie}
    IN /\ At(r, "revoke_all")
       /\ sessions' = [s \in DOMAIN sessions |->
                         [sessions[s] EXCEPT !.revoked = @ \/ s \in gone]]
       /\ IF gone = {} THEN Answer(r) ELSE Owes(r, Cardinality(gone))
       /\ unfinished' = unfinished \ {j.user}
       /\ UNCHANGED <<now, users>>

RevokeAll(r) ==
    LET j == job[r]
        gone == ToRevoke(j.user)
    IN /\ At(r, "revoke_all")
       /\ sessions' = [s \in DOMAIN sessions |->
                         [sessions[s] EXCEPT !.revoked = @ \/ s \in gone]]
       /\ IF gone = {} THEN Answer(r) ELSE Owes(r, Cardinality(gone))
       /\ unfinished' = unfinished \ {j.user}
       /\ UNCHANGED <<now, users>>

-----------------------------------------------------------------------------
(* Faults and the outside world.                                           *)

HalfWay(r) == job[r].pc \in {"clear", "revoke_all"}

\* The database fails, or the client goes away and the future is dropped.
Fail(r) ==
    /\ ~At(r, "idle")
    /\ unfinished' = unfinished \cup {u \in User : HalfWay(r) /\ u = job[r].user}
    /\ Answer(r)
    /\ UNCHANGED <<now, users, sessions>>

\* The daemon ends and starts again.
Restart ==
    /\ \E r \in Request : ~At(r, "idle")
    /\ unfinished' = unfinished \cup {u \in User : \E r \in Request : HalfWay(r) /\ u = job[r].user}
    /\ job' = [r \in Request |-> Idle]
    /\ UNCHANGED <<now, users, sessions>>

Tick ==
    /\ now < MaxTime
    /\ now' = now + 1
    /\ UNCHANGED <<users, sessions, job, unfinished>>

\* Nothing in the daemon disables an account or revokes a token: an operator
\* does, in the database.
Disable(u) ==
    /\ enabled[u]
    /\ enabled' = [enabled EXCEPT ![u] = FALSE]
    /\ UNCHANGED <<now, password, mustChange, revokedTokens, sessions, job, unfinished>>

RevokeToken(t) ==
    /\ t \notin revokedTokens
    /\ revokedTokens' = revokedTokens \cup {t}
    /\ UNCHANGED <<now, password, mustChange, enabled, sessions, job, unfinished>>

-----------------------------------------------------------------------------
(* History: what has held of the credential of a request, for what it      *)
(* asks, at an instant since it arrived.                                   *)

SessionAllows(s, kind) ==
    /\ ~sessions[s].revoked
    /\ enabled[sessions[s].user]
    /\ Allowed(kind, mustChange[sessions[s].user])

TokenAllows(t, kind) == t \notin revokedTokens /\ OwnerAllows(t, kind)

\* A token does not expire.
Held(r) ==
    LET j == job[r]
    IN {f \in Facts :
          \/ /\ j.cookie # 0
             /\ f = "unexpired" => now < sessions[j.cookie].expires
             /\ f = "allowed" => SessionAllows(j.cookie, j.kind)
          \/ /\ j.token # None
             /\ f = "allowed" => TokenAllows(j.token, j.kind)}

Arrived(r) == job[r].pc \in {"expiry", "user", "bearer"} \cup Handlers

Witness == entitled' = [r \in Request |-> IF Arrived(r)' THEN entitled[r] \cup Held(r)' ELSE {}]

Step(r) ==
    \/ \E u \in User \cup {None} : Lookup(r, u)
    \/ \E p \in Password : Verify(r, p)
    \/ \E at \in 0..now : Create(r, at)
    \/ Audit(r)
    \/ \E kind \in Kinds, s \in 0..Len(sessions), t \in Token \cup {None}, at \in 0..now :
          Touch(r, kind, s, t, at)
    \/ CheckExpiry(r) \/ FindUser(r) \/ Bearer(r) \/ Serve(r)
    \/ RevokeOne(r)
    \/ \E old, new \in Password : VerifyOld(r, old, new)
    \/ UpdatePassword(r) \/ ClearFlag(r) \/ RevokeAll(r)
    \/ Fail(r)

Next ==
    /\ \/ \E r \in Request : Step(r)
       \/ Restart
       \/ Tick
       \/ \E u \in User : Disable(u)
       \/ \E t \in Token : RevokeToken(t)
    /\ Witness

Spec == Init /\ [][Next]_vars

-----------------------------------------------------------------------------
(* Properties.                                                             *)

\* A handler behind auth_layer runs only for a request whose cookie or token
\* was, at one instant since it arrived, unrevoked, of an enabled account and
\* allowed by must_change_pw all together, and at one instant, maybe another,
\* unexpired.  The middleware reads these facts one by one
\* (auth_middleware.rs:160-230), and a change-password that falls between touch
\* and find_user_by_id must not open a gap.  Expiry is on its own because the
\* code judges it before it awaits the user: a session may expire in between.
ServedWhenEntitled ==
    \A r \in Request : job[r].pc \in Handlers => entitled[r] = Facts

\* After a password change no session opened under the old password is good
\* (auth_routes.rs:412-480), with two exceptions the code leaves: a login that
\* had verified the old password and inserted its session after the change, and
\* a change that wrote the password but ended before it revoked.
OldPasswordSessionsEnd ==
    \A s \in DOMAIN sessions :
        LET u == sessions[s].user
        IN \/ sessions[s].revoked \/ sessions[s].late
           \/ sessions[s].under = password[u]
           \/ u \in unfinished
           \/ \E r \in Request : HalfWay(r) /\ job[r].user = u

\* No step makes a revoked session good again, or moves a session to another
\* user or a later expiry (sessions.rs:124-229).
RevocationIsFinal ==
    [][\A s \in DOMAIN sessions :
          /\ s \in DOMAIN sessions'
          /\ sessions[s].revoked => sessions'[s].revoked
          /\ sessions'[s].user = sessions[s].user
          /\ sessions'[s].expires = sessions[s].expires]_vars

=============================================================================
