----------------------------- MODULE AuthProofs -----------------------------
(***************************************************************************)
(* Proofs about Auth and Logins: types, what a password change does to     *)
(* sessions, that auth_layer, which reads the facts about a credential one *)
(* by one, lets no request through for which those it reads for the user   *)
(* never held together, and how far the rate limiter can be overrun.       *)
(***************************************************************************)
EXTENDS Logins, FiniteSetTheorems, TLAPS

\* The places of a request that has a session, and remembers its user.
Owned == {"expiry", "user", "revoke", "verify_old", "update", "clear", "revoke_all"}

\* The locals that a place relies on.
LocalsOK(r) ==
    /\ job[r].pc = "verify" /\ job[r].hash # None => job[r].user # None
    /\ job[r].pc = "create" => job[r].user # None /\ job[r].hash # None
    /\ job[r].pc \in Owned =>
          job[r].cookie \in DOMAIN sessions /\ job[r].user = sessions[job[r].cookie].user
    /\ job[r].pc = "update" => job[r].new # None
    /\ job[r].pc = "bearer" => job[r].token # None

Locals == TypeOK /\ \A r \in Request : LocalsOK(r)

-----------------------------------------------------------------------------
(* Types.                                                                  *)

LEMMA OwnedTyped ==
    ASSUME Locals, NEW r \in Request, job[r].pc \in Owned
    PROVE  /\ job[r].user \in User /\ job[r].cookie \in DOMAIN sessions
           /\ sessions[job[r].cookie] \in Session
           /\ job[r].user = sessions[job[r].cookie].user
<1>1. job[r].cookie \in DOMAIN sessions /\ job[r].user = sessions[job[r].cookie].user
  BY DEF Locals, LocalsOK
<1>2. sessions[job[r].cookie] \in Session
  BY <1>1 DEF Locals, TypeOK
<1> QED BY <1>1, <1>2 DEF Session

LEMMA IdleTyped == Idle \in Job
BY AuthAssumption DEF Idle, Job, Kinds

LEMMA AnswerTyped ==
    ASSUME Locals, NEW r \in Request, Answer(r), sessions' = sessions
    PROVE  job' \in [Request -> Job] /\ \A q \in Request : LocalsOK(q)'
BY IdleTyped DEF Locals, LocalsOK, TypeOK, Answer, Idle, Owned

LEMMA InitLocals == Init => Locals
<1> SUFFICES ASSUME Init PROVE Locals
  OBVIOUS
<1>1. sessions \in Seq(Session) /\ job \in [Request -> Job]
  BY IdleTyped DEF Init
<1>2. TypeOK
  BY <1>1 DEF Init, TypeOK
<1> QED BY <1>2 DEF Init, Locals, LocalsOK, Idle, Owned

(* The witness of a credential is a set of facts per request.              *)
LEMMA WitnessTyped == Locals /\ Witness => entitled' \in [Request -> SUBSET Facts]
<1> SUFFICES ASSUME Locals, Witness PROVE entitled' \in [Request -> SUBSET Facts]
  OBVIOUS
<1>1. \A r \in Request : entitled[r] \subseteq Facts /\ Held(r)' \subseteq Facts
  BY DEF Locals, TypeOK, Held
<1> QED BY <1>1 DEF Witness

\* What a request's step does to the variables but the witness.
StepTyped ==
    /\ sessions' \in Seq(Session) /\ password' \in [User -> Password]
    /\ mustChange' \in [User -> BOOLEAN] /\ job' \in [Request -> Job] /\ unfinished' \subseteq User
    /\ \A q \in Request : LocalsOK(q)'

LEMMA OwesTyped ==
    ASSUME Locals, NEW r \in Request, NEW rows \in Nat, Owes(r, rows),
           DOMAIN sessions' = DOMAIN sessions,
           \A s \in DOMAIN sessions : sessions'[s].user = sessions[s].user
    PROVE  job' \in [Request -> Job] /\ \A q \in Request : LocalsOK(q)'
<1>1. job' \in [Request -> Job]
  BY IdleTyped DEF Locals, TypeOK, Owes, Idle, Job
<1>2. job'[r].pc = "audit"
  BY DEF Locals, TypeOK, Owes, Idle
<1>3. \A q \in Request : q # r => job'[q] = job[q]
  BY DEF Locals, TypeOK, Owes
<1> QED BY <1>1, <1>2, <1>3 DEF Locals, LocalsOK, Owned

(* A step that gives one request a job, its locals in order, and leaves the *)
(* sessions alone.                                                          *)
LEMMA MoveTyped ==
    ASSUME Locals, NEW r \in Request, NEW j \in Job, job' = [job EXCEPT ![r] = j],
           sessions' = sessions, LocalsOK(r)'
    PROVE  job' \in [Request -> Job] /\ \A q \in Request : LocalsOK(q)'
<1>1. job' \in [Request -> Job]
  BY DEF Locals, TypeOK
<1>2. \A q \in Request : q # r => job'[q] = job[q]
  BY DEF Locals, TypeOK
<1> QED BY <1>1, <1>2 DEF Locals, LocalsOK

LEMMA LookupTyped ==
    ASSUME Locals, NEW r \in Request, NEW u \in User \cup {None}, Lookup(r, u)
    PROVE  StepTyped
<1> DEFINE h == IF u # None /\ enabled[u] THEN password[u] ELSE None
           j == [Idle EXCEPT !.pc = "verify", !.kind = "login", !.user = u, !.hash = h]
<1>1. h \in Password \cup {None} /\ (h # None => u # None)
  BY DEF Locals, TypeOK
<1>2. j \in Job /\ j.pc = "verify" /\ j.user = u /\ j.hash = h
  BY <1>1, AuthAssumption DEF Idle, Job, Kinds
<1>3. job' = [job EXCEPT ![r] = j] /\ sessions' = sessions
  BY DEF Lookup
<1>4. job'[r] = j
  BY <1>3 DEF Locals, TypeOK
<1> HIDE DEF j, h
<1>5. LocalsOK(r)'
  BY <1>1, <1>2, <1>4 DEF LocalsOK, Owned
<1> QED BY <1>2, <1>3, <1>5, MoveTyped DEF StepTyped, Lookup, Locals, TypeOK, users

LEMMA VerifyTyped ==
    ASSUME Locals, NEW r \in Request, NEW p \in Password, Verify(r, p)
    PROVE  StepTyped
<1>1. CASE job[r].hash = p
  <2> DEFINE j == [job[r] EXCEPT !.pc = "create"]
  <2>1. job' = [job EXCEPT ![r] = j] /\ sessions' = sessions
    BY <1>1 DEF Verify, Goto, Locals, TypeOK, Job
  <2>2. j \in Job /\ j.pc = "create" /\ j.user = job[r].user /\ j.hash = job[r].hash
    BY DEF Locals, TypeOK, Job
  <2>3. job[r].hash # None /\ job[r].user # None
    BY <1>1, AuthAssumption DEF Verify, At, Locals, LocalsOK
  <2>4. job'[r] = j
    BY <2>1 DEF Locals, TypeOK
  <2> HIDE DEF j
  <2>5. LocalsOK(r)'
    BY <2>2, <2>3, <2>4 DEF LocalsOK, Owned
  <2> QED BY <2>1, <2>2, <2>5, MoveTyped DEF StepTyped, Verify, Locals, TypeOK, users
<1>2. CASE job[r].hash # p
  <2>1. Owes(r, 1) /\ sessions' = sessions
    BY <1>2 DEF Verify
  <2> QED BY <2>1, OwesTyped DEF StepTyped, Verify, Locals, TypeOK, users
<1> QED BY <1>1, <1>2

LEMMA CreateTyped ==
    ASSUME Locals, NEW r \in Request, NEW at \in 0..now, Create(r, at)
    PROVE  StepTyped
<1> DEFINE s == [user |-> job[r].user, under |-> job[r].hash,
                 late |-> password[job[r].user] # job[r].hash,
                 expires |-> at + TTL, revoked |-> FALSE]
<1>1. job[r].user \in User /\ job[r].hash \in Password
  <2>1. job[r].user # None /\ job[r].hash # None /\ job[r] \in Job
    BY DEF Create, At, Locals, LocalsOK, TypeOK
  <2> QED BY <2>1 DEF Job
<1>2. s \in Session
  BY <1>1, AuthAssumption DEF Session, Locals, TypeOK
<1>3. sessions' = Append(sessions, s)
  BY DEF Create
<1> HIDE DEF s
<1>4. /\ sessions' \in Seq(Session) /\ DOMAIN sessions \subseteq DOMAIN sessions'
      /\ \A i \in DOMAIN sessions : sessions'[i] = sessions[i]
  BY <1>2, <1>3 DEF Locals, TypeOK
<1>5. job' \in [Request -> Job] /\ job'[r].pc = "audit"
  BY IdleTyped DEF Create, Owes, Locals, TypeOK, Idle, Job
<1>6. \A q \in Request : q # r => job'[q] = job[q]
  BY DEF Create, Owes, Locals, TypeOK
<1>7. \A q \in Request : LocalsOK(q)'
  BY <1>4, <1>5, <1>6 DEF Locals, LocalsOK, Owned
<1> QED BY <1>4, <1>5, <1>7 DEF StepTyped, Create, Locals, TypeOK, users

LEMMA AuditTyped ==
    ASSUME Locals, NEW r \in Request, Audit(r)
    PROVE  StepTyped
<1>1. job[r].left \in Nat
  BY DEF Locals, TypeOK, Job
<1>2. Answer(r) \/ (Owes(r, job[r].left - 1) /\ job[r].left - 1 \in Nat)
  BY <1>1 DEF Audit
<1>3. sessions' = sessions
  BY DEF Audit
<1> QED BY <1>2, <1>3, AnswerTyped, OwesTyped DEF StepTyped, Audit, Locals, TypeOK, users

LEMMA TouchTyped ==
    ASSUME Locals, NEW r \in Request, NEW kind \in Kinds, NEW s \in 0..Len(sessions),
           NEW t \in Token \cup {None}, NEW at, Touch(r, kind, s, t, at)
    PROVE  StepTyped
<1>1. CASE s # 0 /\ TakeSession(r, kind, s)
  <2> DEFINE j == [Idle EXCEPT !.pc = "expiry", !.kind = kind, !.cookie = s, !.user = sessions[s].user]
  <2>1. s \in Nat /\ s \in DOMAIN sessions /\ sessions[s] \in Session
    BY <1>1 DEF Locals, TypeOK
  <2>2. sessions[s].user \in User
    BY <2>1 DEF Session
  <2>3. j \in Job /\ j.pc = "expiry" /\ j.cookie = s /\ j.user = sessions[s].user
    BY <2>1, <2>2 DEF Idle, Job, Kinds
  <2>4. job' = [job EXCEPT ![r] = j] /\ sessions' = sessions
    BY <1>1 DEF Touch, TakeSession
  <2>5. job'[r] = j
    BY <2>4 DEF Locals, TypeOK
  <2> HIDE DEF j
  <2>6. LocalsOK(r)'
    BY <2>1, <2>3, <2>4, <2>5 DEF LocalsOK, Owned
  <2> QED BY <2>3, <2>4, <2>6, MoveTyped DEF StepTyped, Touch, Locals, TypeOK, users
<1>2. CASE TryBearer(r, kind, t)
  <2> DEFINE j == [Idle EXCEPT !.pc = "bearer", !.kind = kind, !.token = t]
  <2>1. j \in Job /\ j.pc = "bearer" /\ j.token = t /\ t # None
    BY <1>2, AuthAssumption DEF Idle, Job, Kinds, TryBearer
  <2>2. job' = [job EXCEPT ![r] = j] /\ sessions' = sessions
    BY <1>2 DEF Touch, TryBearer
  <2>3. job'[r] = j
    BY <2>2 DEF Locals, TypeOK
  <2> HIDE DEF j
  <2>4. LocalsOK(r)'
    BY <2>1, <2>3 DEF LocalsOK, Owned
  <2> QED BY <2>1, <2>2, <2>4, MoveTyped DEF StepTyped, Touch, Locals, TypeOK, users
<1> QED BY <1>1, <1>2 DEF Touch

LEMMA EnterTyped ==
    ASSUME Locals, NEW r \in Request, Enter(r, "serve"), sessions' = sessions
    PROVE  job' \in [Request -> Job] /\ \A q \in Request : LocalsOK(q)'
<1> DEFINE j == [Idle EXCEPT !.pc = "serve"]
<1>1. j \in Job /\ j.pc = "serve" /\ job' = [job EXCEPT ![r] = j]
  BY DEF Enter, Idle, Job, Kinds, Handlers
<1>2. job'[r] = j
  BY <1>1 DEF Locals, TypeOK
<1> HIDE DEF j
<1>3. LocalsOK(r)'
  BY <1>1, <1>2 DEF LocalsOK, Owned
<1> QED BY <1>1, <1>3, MoveTyped

(* A request that keeps its session goes from one place to another.        *)
LEMMA GotoTyped ==
    ASSUME Locals, NEW r \in Request, job[r].pc \in Owned,
           NEW pc \in Owned \ {"update"}, NEW new \in Password \cup {None},
           job' = [job EXCEPT ![r].pc = pc, ![r].new = new], sessions' = sessions
    PROVE  job' \in [Request -> Job] /\ \A q \in Request : LocalsOK(q)'
<1> DEFINE j == [job[r] EXCEPT !.pc = pc, !.new = new]
<1>1. /\ j \in Job /\ j.pc = pc /\ j.cookie = job[r].cookie /\ j.user = job[r].user
      /\ job' = [job EXCEPT ![r] = j]
  BY DEF Locals, TypeOK, Job, Owned, Handlers
<1>2. job'[r] = j
  BY <1>1 DEF Locals, TypeOK
<1> HIDE DEF j
<1>3. LocalsOK(r)'
  BY <1>1, <1>2 DEF LocalsOK, Locals, Owned
<1> QED BY <1>1, <1>3, MoveTyped

LEMMA CheckExpiryTyped ==
    ASSUME Locals, NEW r \in Request, CheckExpiry(r)
    PROVE  StepTyped
<1>1. sessions' = sessions /\ job[r].pc = "expiry" /\ job[r] \in Job
  BY DEF CheckExpiry, At, Locals, TypeOK
<1>2. CASE Answer(r)
  BY <1>1, <1>2, AnswerTyped DEF StepTyped, CheckExpiry, Locals, TypeOK, users
<1>3. CASE Goto(r, "user")
  <2>1. job' = [job EXCEPT ![r].pc = "user", ![r].new = job[r].new]
    BY <1>1, <1>3 DEF Goto, Locals, TypeOK, Job
  <2>2. "user" \in Owned \ {"update"} /\ job[r].new \in Password \cup {None}
    BY <1>1 DEF Owned, Job
  <2>3. job' \in [Request -> Job] /\ \A q \in Request : LocalsOK(q)'
    BY <1>1, <2>1, <2>2, GotoTyped DEF Owned
  <2> QED BY <2>3 DEF StepTyped, CheckExpiry, Locals, TypeOK, users
<1> QED BY <1>2, <1>3 DEF CheckExpiry

LEMMA FindUserTyped ==
    ASSUME Locals, NEW r \in Request, FindUser(r)
    PROVE  StepTyped
<1>1. sessions' = sessions /\ job[r].pc = "user" /\ job[r] \in Job
  BY DEF FindUser, At, Locals, TypeOK
<1>2. CASE Enter(r, "serve") \/ Answer(r)
  BY <1>1, <1>2, EnterTyped, AnswerTyped DEF StepTyped, FindUser, Locals, TypeOK, users
<1>3. CASE Goto(r, Entry(job[r].kind))
  <2>1. job' = [job EXCEPT ![r].pc = Entry(job[r].kind), ![r].new = job[r].new]
    BY <1>1, <1>3 DEF Goto, Locals, TypeOK, Job
  <2>2. Entry(job[r].kind) \in Owned \ {"update"} /\ job[r].new \in Password \cup {None}
    BY <1>1 DEF Entry, Owned, Job
  <2>3. job' \in [Request -> Job] /\ \A q \in Request : LocalsOK(q)'
    BY <1>1, <2>1, <2>2, GotoTyped DEF Owned
  <2> QED BY <2>3 DEF StepTyped, FindUser, Locals, TypeOK, users
<1> QED BY <1>2, <1>3 DEF FindUser

LEMMA BearerTyped ==
    ASSUME Locals, NEW r \in Request, Bearer(r)
    PROVE  StepTyped
<1>1. sessions' = sessions /\ (Enter(r, "serve") \/ Answer(r))
  BY DEF Bearer
<1> QED BY <1>1, EnterTyped, AnswerTyped DEF StepTyped, Bearer, Locals, TypeOK, users

LEMMA ServeTyped ==
    ASSUME Locals, NEW r \in Request, Serve(r)
    PROVE  StepTyped
BY AnswerTyped DEF StepTyped, Serve, Locals, TypeOK, users

LEMMA RevokeOneTyped ==
    ASSUME Locals, NEW r \in Request, RevokeOne(r)
    PROVE  StepTyped
<1> DEFINE c == job[r].cookie
<1>1. c \in DOMAIN sessions /\ sessions[c] \in Session
  BY OwnedTyped DEF RevokeOne, At, Owned
<1>2. sessions' = [sessions EXCEPT ![c] = [sessions[c] EXCEPT !.revoked = TRUE]]
  BY DEF RevokeOne
<1>3. [sessions[c] EXCEPT !.revoked = TRUE] \in Session
  BY <1>1 DEF Session
<1> HIDE DEF c
<1>4. sessions' \in Seq(Session) /\ DOMAIN sessions' = DOMAIN sessions
  BY <1>1, <1>2, <1>3 DEF Locals, TypeOK
<1>5. \A s \in DOMAIN sessions : sessions'[s].user = sessions[s].user
  BY <1>1, <1>2 DEF Locals, TypeOK, Session
<1>6. Owes(r, 1)
  BY DEF RevokeOne
<1> QED BY <1>4, <1>5, <1>6, OwesTyped DEF StepTyped, RevokeOne, Locals, TypeOK, users

LEMMA VerifyOldTyped ==
    ASSUME Locals, NEW r \in Request, NEW old \in Password, NEW new \in Password,
           VerifyOld(r, old, new)
    PROVE  StepTyped
<1>1. sessions' = sessions /\ job[r].pc \in Owned
  BY DEF VerifyOld, At, Owned
<1>2. CASE Answer(r)
  BY <1>1, <1>2, AnswerTyped DEF StepTyped, VerifyOld, Locals, TypeOK, users
<1>3. CASE job' = [job EXCEPT ![r].pc = "update", ![r].new = new]
  <2> DEFINE j == [job[r] EXCEPT !.pc = "update", !.new = new]
  <2>1. /\ j \in Job /\ j.pc = "update" /\ j.cookie = job[r].cookie /\ j.user = job[r].user
        /\ j.new = new /\ job' = [job EXCEPT ![r] = j]
    BY <1>3 DEF Locals, TypeOK, Job, Handlers
  <2>2. job'[r] = j
    BY <2>1 DEF Locals, TypeOK
  <2>3. new # None
    BY AuthAssumption
  <2> HIDE DEF j
  <2>4. LocalsOK(r)'
    BY <1>1, <2>1, <2>2, <2>3 DEF LocalsOK, Locals, Owned
  <2> QED BY <1>1, <2>1, <2>4, MoveTyped DEF StepTyped, VerifyOld, Locals, TypeOK, users
<1> QED BY <1>2, <1>3 DEF VerifyOld

LEMMA UpdatePasswordTyped ==
    ASSUME Locals, NEW r \in Request, UpdatePassword(r)
    PROVE  StepTyped
<1>1. sessions' = sessions /\ job[r].pc = "update"
  BY DEF UpdatePassword, At
<1>2. job[r].pc \in Owned /\ "clear" \in Owned \ {"update"}
  BY <1>1 DEF Owned
<1>3. job' \in [Request -> Job] /\ \A q \in Request : LocalsOK(q)'
  BY <1>1, <1>2, GotoTyped DEF UpdatePassword
<1>4. job[r].new \in Password
  <2>1. job[r].new # None /\ job[r] \in Job
    BY <1>1 DEF Locals, LocalsOK, TypeOK
  <2> QED BY <2>1 DEF Job
<1> QED BY <1>3, <1>4 DEF StepTyped, UpdatePassword, Locals, TypeOK

LEMMA ClearFlagTyped ==
    ASSUME Locals, NEW r \in Request, ClearFlag(r)
    PROVE  StepTyped
<1>1. sessions' = sessions /\ job[r].pc = "clear" /\ job[r] \in Job
  BY DEF ClearFlag, At, Locals, TypeOK
<1>2. job[r].pc \in Owned /\ "revoke_all" \in Owned \ {"update"}
  BY <1>1 DEF Owned
<1>3. job' = [job EXCEPT ![r].pc = "revoke_all", ![r].new = job[r].new]
      /\ job[r].new \in Password \cup {None}
  BY <1>1 DEF ClearFlag, Goto, Locals, TypeOK, Job
<1>4. job' \in [Request -> Job] /\ \A q \in Request : LocalsOK(q)'
  BY <1>1, <1>2, <1>3, GotoTyped
<1> QED BY <1>4 DEF StepTyped, ClearFlag, Locals, TypeOK

(* What revoke_all_for_user leaves of a session.                           *)
LEMMA RevokeAllSessions ==
    ASSUME Locals, NEW r \in Request, RevokeAll(r)
    PROVE  /\ sessions' \in Seq(Session) /\ DOMAIN sessions' = DOMAIN sessions
           /\ \A s \in DOMAIN sessions :
                /\ sessions'[s].user = sessions[s].user
                /\ sessions'[s].expires = sessions[s].expires
                /\ sessions'[s].under = sessions[s].under
                /\ sessions'[s].late = sessions[s].late
                /\ sessions'[s].revoked <=> (sessions[s].revoked \/ sessions[s].user = job[r].user)
<1> DEFINE gone == ToRevoke(job[r].user)
           row(s) == [sessions[s] EXCEPT !.revoked = @ \/ s \in gone]
<1>1. sessions' = [s \in DOMAIN sessions |-> row(s)]
  BY DEF RevokeAll
<1>2. \A s \in DOMAIN sessions : sessions[s] \in Session
  BY DEF Locals, TypeOK
<1>3. \A s \in DOMAIN sessions : s \in gone <=> sessions[s].user = job[r].user /\ ~sessions[s].revoked
  BY DEF ToRevoke
<1> HIDE DEF gone
<1>4. ASSUME NEW s \in DOMAIN sessions
      PROVE  /\ row(s) \in Session /\ row(s).user = sessions[s].user
             /\ row(s).expires = sessions[s].expires /\ row(s).under = sessions[s].under
             /\ row(s).late = sessions[s].late
             /\ row(s).revoked <=> (sessions[s].revoked \/ s \in gone)
  BY <1>2 DEF Session
<1> HIDE DEF row
<1>5. DOMAIN sessions = 1..Len(sessions) /\ Len(sessions) \in Nat
  BY DEF Locals, TypeOK
<1>6. sessions' \in Seq(Session) /\ DOMAIN sessions' = DOMAIN sessions
  BY <1>1, <1>4, <1>5
<1>7. \A s \in DOMAIN sessions : sessions'[s] = row(s)
  BY <1>1
<1>8. \A s \in DOMAIN sessions :
        row(s).revoked <=> (sessions[s].revoked \/ sessions[s].user = job[r].user)
  BY <1>2, <1>3, <1>4 DEF Session
<1> QED BY <1>4, <1>6, <1>7, <1>8

LEMMA RevokeAllTyped ==
    ASSUME Locals, NEW r \in Request, RevokeAll(r)
    PROVE  StepTyped
<1> DEFINE gone == ToRevoke(job[r].user)
<1>1. Cardinality(gone) \in Nat
  <2>1. IsFiniteSet(1..Len(sessions))
    BY FS_Interval DEF Locals, TypeOK
  <2>2. gone \subseteq 1..Len(sessions)
    BY DEF ToRevoke, Locals, TypeOK
  <2> QED BY <2>1, <2>2, FS_Subset, FS_CardinalityType
<1>2. Answer(r) \/ Owes(r, Cardinality(gone))
  BY DEF RevokeAll
<1>3. CASE Owes(r, Cardinality(gone))
  BY <1>1, <1>3, RevokeAllSessions, OwesTyped DEF StepTyped, RevokeAll, Locals, TypeOK, users
<1>4. CASE Answer(r)
  <2>1. job' \in [Request -> Job] /\ job'[r] = Idle /\ \A q \in Request : q # r => job'[q] = job[q]
    BY <1>4, IdleTyped DEF Answer, Locals, TypeOK
  <2>2. \A q \in Request : LocalsOK(q)'
    BY <2>1, RevokeAllSessions DEF Locals, LocalsOK, Owned, Idle
  <2> QED BY <2>1, <2>2, RevokeAllSessions DEF StepTyped, RevokeAll, Locals, TypeOK, users
<1> QED BY <1>2, <1>3, <1>4

LEMMA FailTyped ==
    ASSUME Locals, NEW r \in Request, Fail(r)
    PROVE  StepTyped
BY AnswerTyped DEF StepTyped, Fail, Locals, TypeOK, users

LEMMA RequestTyped ==
    ASSUME Locals, NEW r \in Request, Step(r)
    PROVE  StepTyped
BY LookupTyped, VerifyTyped, CreateTyped, AuditTyped, TouchTyped, CheckExpiryTyped, FindUserTyped, BearerTyped,
   ServeTyped, RevokeOneTyped, VerifyOldTyped, UpdatePasswordTyped, ClearFlagTyped,
   RevokeAllTyped, FailTyped DEF Step

LEMMA StepLocals == Locals /\ [Next]_vars => Locals'
<1> SUFFICES ASSUME Locals, [Next]_vars PROVE Locals'
  OBVIOUS
<1>1. CASE UNCHANGED vars
  BY <1>1 DEF vars, users, Locals, LocalsOK, TypeOK
<1> SUFFICES ASSUME Next PROVE Locals'
  BY <1>1
<1>2. entitled' \in [Request -> SUBSET Facts]
  BY WitnessTyped DEF Next
<1>3. CASE \E r \in Request : Step(r)
  <2>1. PICK r \in Request : Step(r)
    BY <1>3
  <2>2. StepTyped
    BY <2>1, RequestTyped
  <2>3. now' = now /\ revokedTokens' = revokedTokens /\ enabled' = enabled
    BY <2>1 DEF Step, Lookup, Verify, Create, Audit, Touch, CheckExpiry, FindUser, Bearer, Serve, RevokeOne,
       VerifyOld, UpdatePassword, ClearFlag, RevokeAll, Fail, users
  <2> QED BY <1>2, <2>2, <2>3 DEF StepTyped, Locals, TypeOK
<1>4. CASE Restart
  BY <1>2, <1>4, IdleTyped DEF Restart, users, Locals, LocalsOK, TypeOK, Idle, Owned
<1>5. CASE Tick
  BY <1>2, <1>5 DEF Tick, users, Locals, LocalsOK, TypeOK
<1>6. CASE \E u \in User : Disable(u)
  BY <1>2, <1>6 DEF Disable, Locals, LocalsOK, TypeOK
<1>7. CASE \E t \in Token : RevokeToken(t)
  BY <1>2, <1>7 DEF RevokeToken, Locals, LocalsOK, TypeOK
<1> QED BY <1>3, <1>4, <1>5, <1>6, <1>7 DEF Next

(* The daemon's tables and the locals of its requests keep their types:    *)
(* no handler runs on a user, a session or a password it has not read      *)
(* (auth_routes.rs:180-480, auth_middleware.rs:60-240).                     *)
THEOREM Typed == Spec => []Locals
BY InitLocals, StepLocals, PTL DEF Spec

THEOREM TypeCorrect == Spec => []TypeOK
<1>1. Locals => TypeOK
  BY DEF Locals
<1> QED BY <1>1, Typed, PTL

-----------------------------------------------------------------------------
(* What no step undoes.                                                    *)

\* logout, and the revocation that ends a change, run for users who need not
\* change their password: the middleware, or the step before, saw to it.
FlagClear ==
    \A r \in Request : job[r].pc \in {"revoke", "revoke_all"} => ~mustChange[job[r].user]

\* The facts the middleware reads, from one state to the next: a session or a
\* token that ended stays so, and a session is revoked only when its user has
\* no password to change.
Onward ==
    /\ now <= now'
    /\ revokedTokens \subseteq revokedTokens'
    /\ \A u \in User : (enabled'[u] => enabled[u]) /\ (mustChange'[u] => mustChange[u])
    /\ \A s \in DOMAIN sessions :
          /\ s \in DOMAIN sessions'
          /\ sessions'[s].user = sessions[s].user
          /\ sessions'[s].expires = sessions[s].expires
          /\ sessions'[s].under = sessions[s].under
          /\ sessions'[s].late = sessions[s].late
          /\ sessions[s].revoked => sessions'[s].revoked
          /\ FlagClear /\ ~sessions[s].revoked /\ sessions'[s].revoked =>
                ~mustChange[sessions[s].user]

LEMMA RevokeOneSessions ==
    ASSUME Locals, NEW r \in Request, RevokeOne(r)
    PROVE  /\ DOMAIN sessions' = DOMAIN sessions
           /\ sessions'[job[r].cookie] = [sessions[job[r].cookie] EXCEPT !.revoked = TRUE]
           /\ \A s \in DOMAIN sessions : s # job[r].cookie => sessions'[s] = sessions[s]
BY OwnedTyped DEF RevokeOne, At, Owned, Locals, TypeOK

LEMMA CreateSessions ==
    ASSUME Locals, NEW r \in Request, NEW at \in 0..now, Create(r, at)
    PROVE  /\ DOMAIN sessions' = DOMAIN sessions \cup {Len(sessions) + 1}
           /\ \A s \in DOMAIN sessions : sessions'[s] = sessions[s]
           /\ LET s == sessions'[Len(sessions) + 1]
              IN s.user = job[r].user /\ s.under = job[r].hash
                 /\ s.late = (password[job[r].user] # job[r].hash)
BY DEF Create, Locals, TypeOK

LEMMA NextOnward ==
    ASSUME Locals, Next
    PROVE  Onward
<1>1. \A s \in DOMAIN sessions : sessions[s] \in Session
  BY DEF Locals, TypeOK
<1>2. CASE \E r \in Request : Step(r)
  <2>1. PICK r \in Request : Step(r)
    BY <1>2
  <2>2. CASE RevokeOne(r)
    <3>1. now' = now /\ users' = users
      BY <2>2 DEF RevokeOne, users
    <3>2. job[r].pc = "revoke" /\ job[r].user = sessions[job[r].cookie].user
      BY <2>2 DEF RevokeOne, At, Locals, LocalsOK, Owned
    <3>3. job[r].cookie \in DOMAIN sessions
      BY <2>2, OwnedTyped DEF RevokeOne, At, Owned
    <3> DEFINE c == job[r].cookie
    <3>4. /\ sessions'[c].user = sessions[c].user /\ sessions'[c].expires = sessions[c].expires
          /\ sessions'[c].under = sessions[c].under /\ sessions'[c].late = sessions[c].late
          /\ sessions'[c].revoked
      <4>1. sessions[c] \in Session /\ sessions'[c] = [sessions[c] EXCEPT !.revoked = TRUE]
        BY <1>1, <2>2, <3>3, RevokeOneSessions
      <4> QED BY <4>1 DEF Session
    <3>5. FlagClear => ~mustChange[sessions[c].user]
      BY <3>2 DEF FlagClear
    <3>6. DOMAIN sessions' = DOMAIN sessions /\ \A s \in DOMAIN sessions : s # c => sessions'[s] = sessions[s]
      BY <2>2, RevokeOneSessions
    <3> HIDE DEF c
    <3> QED BY <3>1, <3>4, <3>5, <3>6 DEF Onward, users, Locals, TypeOK
  <2>3. CASE RevokeAll(r)
    <3>1. now' = now /\ users' = users
      BY <2>3 DEF RevokeAll, users
    <3>2. FlagClear => ~mustChange[job[r].user]
      BY <2>3 DEF RevokeAll, At, FlagClear
    <3> QED BY <2>3, <3>1, <3>2, RevokeAllSessions DEF Onward, users, Locals, TypeOK
  <2>4. CASE \E at \in 0..now : Create(r, at)
    <3>1. now' = now /\ users' = users
      BY <2>4 DEF Create, users
    <3>2. DOMAIN sessions \subseteq DOMAIN sessions' /\ \A s \in DOMAIN sessions : sessions'[s] = sessions[s]
      BY <2>4, CreateSessions
    <3> QED BY <3>1, <3>2 DEF Onward, users, Locals, TypeOK
  <2>5. CASE ClearFlag(r)
    BY <2>5 DEF ClearFlag, Onward, Locals, TypeOK
  <2>6. CASE UpdatePassword(r)
    BY <2>6 DEF UpdatePassword, Onward, Locals, TypeOK
  <2>7. CASE ~(\/ RevokeOne(r) \/ RevokeAll(r) \/ (\E at \in 0..now : Create(r, at))
               \/ ClearFlag(r) \/ UpdatePassword(r))
    <3>1. now' = now /\ users' = users /\ sessions' = sessions
      BY <2>1, <2>7 DEF Step, Lookup, Verify, Audit, Touch, CheckExpiry, FindUser, Bearer, Serve, VerifyOld, Fail
    <3> QED BY <3>1 DEF Onward, users, Locals, TypeOK
  <2> QED BY <2>2, <2>3, <2>4, <2>5, <2>6, <2>7
<1>3. CASE Restart
  BY <1>3 DEF Restart, users, Onward, Locals, TypeOK
<1>4. CASE Tick
  BY <1>4 DEF Tick, users, Onward, Locals, TypeOK
<1>5. CASE \E u \in User : Disable(u)
  BY <1>5 DEF Disable, Onward, Locals, TypeOK
<1>6. CASE \E t \in Token : RevokeToken(t)
  BY <1>6 DEF RevokeToken, Onward, Locals, TypeOK
<1> QED BY <1>2, <1>3, <1>4, <1>5, <1>6 DEF Next

(* No step makes a revoked session good again, gives it to another user or *)
(* lengthens its life (sessions.rs:124-229).                                *)
THEOREM RevokedForGood == Spec => RevocationIsFinal
<1>1. Locals /\ [Next]_vars =>
        [\A s \in DOMAIN sessions :
          /\ s \in DOMAIN sessions'
          /\ sessions[s].revoked => sessions'[s].revoked
          /\ sessions'[s].user = sessions[s].user
          /\ sessions'[s].expires = sessions[s].expires]_vars
  BY NextOnward DEF Onward
<1> QED BY <1>1, Typed, PTL DEF Spec, RevocationIsFinal

-----------------------------------------------------------------------------
(* How a step leaves the requests that do not take it, and the one that     *)
(* does.                                                                    *)

\* The places a request may be after a step of its own.
LEMMA OthersKeep ==
    ASSUME Locals, NEW r \in Request, Step(r), NEW q \in Request, q # r
    PROVE  job'[q] = job[q]
BY DEF Step, Lookup, Verify, Create, Audit, Touch, CheckExpiry, FindUser, Bearer, Serve, RevokeOne, VerifyOld,
   UpdatePassword, ClearFlag, RevokeAll, Fail, Goto, Answer, Enter, Owes, TryBearer, TakeSession,
   Locals, TypeOK

LEMMA IdleAfterRestart ==
    ASSUME Restart, NEW q \in Request
    PROVE  job'[q] = Idle
BY DEF Restart

\* What the middleware has still to find about a credential that was never
\* allowed as a whole: its account is disabled, or has a password to change and
\* has had since the request arrived.
SessionDoomed(r) ==
    LET s == sessions[job[r].cookie]
    IN \/ ~enabled[s.user]
       \/ ~Allowed(job[r].kind, mustChange[s.user]) /\ ~s.revoked

TokenDoomed(r) == ~TokenAllows(job[r].token, job[r].kind)

Gated(r) ==
    /\ job[r].pc \in Handlers => entitled[r] = Facts
    /\ job[r].pc \in {"expiry", "user"} => "allowed" \in entitled[r] \/ SessionDoomed(r)
    /\ job[r].pc = "user" => "unexpired" \in entitled[r]
    /\ job[r].pc = "bearer" => entitled[r] = Facts \/ TokenDoomed(r)

Gate == Locals /\ FlagClear /\ \A r \in Request : Gated(r)

LEMMA InitGate == Init => Gate
BY InitLocals DEF Init, Gate, FlagClear, Gated, Idle, Handlers

(* A request at the middleware whose credential is not doomed after a step  *)
(* is allowed: the credential is in order at that very state.               *)
LEMMA NotDoomed ==
    ASSUME Locals', Witness, NEW r \in Request, entitled[r] \subseteq Facts
    PROVE  /\ job'[r].pc \in {"expiry", "user"} =>
                 "allowed" \in entitled'[r] \/ SessionDoomed(r)' \/ sessions'[job'[r].cookie].revoked
           /\ job'[r].pc = "bearer" => entitled'[r] = Facts \/ TokenDoomed(r)'
<1>1. CASE job'[r].pc \in {"expiry", "user"}
  <2> DEFINE c == job[r].cookie
  <2>1. c' \in DOMAIN sessions' /\ c' # 0
    BY <1>1 DEF Locals, LocalsOK, Owned, TypeOK
  <2>2. Held(r)' \subseteq entitled'[r]
    BY <1>1 DEF Witness, Arrived
  <2>3. ASSUME ~SessionDoomed(r)', ~sessions'[c'].revoked PROVE "allowed" \in Held(r)'
    <3>1. SessionAllows(c, job[r].kind)'
      BY <2>3 DEF SessionDoomed, SessionAllows
    <3> QED BY <2>1, <3>1 DEF Held, Facts
  <2> QED BY <1>1, <2>2, <2>3
<1>2. CASE job'[r].pc = "bearer"
  <2>1. entitled'[r] = entitled[r] \cup Held(r)' /\ job'[r].token # None
    BY <1>2 DEF Witness, Arrived, Locals, LocalsOK
  <2>2. ~TokenDoomed(r)' => Held(r)' = Facts
    BY <2>1 DEF Held, TokenDoomed
  <2> QED BY <1>2, <2>1, <2>2
<1> QED BY <1>1, <1>2

(* A request keeps what it has shown until it is answered.                  *)
LEMMA EntitledStays ==
    ASSUME Locals, Witness, NEW r \in Request,
           job'[r].pc \in {"expiry", "user", "bearer"} \cup Handlers
    PROVE  entitled[r] \subseteq entitled'[r] /\ entitled'[r] \subseteq Facts
<1>1. entitled' \in [Request -> SUBSET Facts]
  BY WitnessTyped
<1> QED BY <1>1 DEF Witness, Arrived

(* A request that does not move.                                           *)
LEMMA WaitingGated ==
    ASSUME Gate, Locals', Onward, Witness, NEW r \in Request, job'[r] = job[r]
    PROVE  Gated(r)'
<1>0. entitled[r] \subseteq Facts
  BY DEF Gate, Locals, TypeOK
<1>1. CASE job[r].pc \in Handlers
  BY <1>1, EntitledStays DEF Gate, Gated, Handlers
<1>2. CASE job[r].pc \in {"expiry", "user"}
  <2> DEFINE c == job[r].cookie
  <2>1. c \in DOMAIN sessions /\ sessions[c] \in Session
    BY <1>2 DEF Gate, Locals, LocalsOK, Owned, TypeOK
  <2>2. sessions[c].user \in User
    BY <2>1 DEF Session
  <2>3. job[r].pc = "user" => "unexpired" \in entitled'[r]
    BY EntitledStays DEF Gate, Gated
  <2>4. CASE "allowed" \in entitled[r]
    <3>1. "allowed" \in entitled'[r]
      BY <1>2, <2>4, EntitledStays DEF Gate
    <3> QED BY <1>2, <2>3, <3>1 DEF Gated, Handlers
  <2>5. CASE ~enabled[sessions[c].user]
    <3>1. ~enabled'[sessions'[c].user]
      BY <2>1, <2>2, <2>5 DEF Onward
    <3> QED BY <1>2, <2>3, <3>1 DEF Gated, SessionDoomed, Handlers
  <2>6. CASE ~Allowed(job[r].kind, mustChange[sessions[c].user]) /\ ~sessions[c].revoked
    <3>1. mustChange[sessions[c].user]
      BY <2>6 DEF Allowed
    <3>2. ~sessions'[c].revoked
      BY <2>1, <2>6, <3>1 DEF Onward, Gate
    <3> QED BY <1>0, <1>2, <2>3, <3>2, NotDoomed DEF Gated, Handlers
  <2> QED BY <1>2, <2>4, <2>5, <2>6 DEF Gate, Gated, SessionDoomed
<1>3. CASE job[r].pc = "bearer"
  BY <1>0, <1>3, NotDoomed DEF Gated, Handlers
<1>4. CASE job[r].pc \notin {"expiry", "user", "bearer"} \cup Handlers
  BY <1>4 DEF Gated
<1> QED BY <1>1, <1>2, <1>3, <1>4

(* Where the ways to leave a place lead.                                   *)
LEMMA Places ==
    ASSUME Locals, NEW r \in Request
    PROVE  /\ Answer(r) => job'[r].pc = "idle"
           /\ \A n : Owes(r, n) => job'[r].pc = "audit"
           /\ \A pc : Enter(r, pc) => job'[r].pc = pc
           /\ \A pc : Goto(r, pc) => job'[r].pc = pc /\ job'[r].user = job[r].user
<1>1. job \in [Request -> Job]
  BY DEF Locals, TypeOK
<1>2. Answer(r) => job'[r].pc = "idle"
  BY <1>1 DEF Answer, Idle
<1>3. \A n : Owes(r, n) => job'[r].pc = "audit"
  BY <1>1 DEF Owes, Idle
<1>4. \A pc : Enter(r, pc) => job'[r].pc = pc
  BY <1>1 DEF Enter, Idle
<1>5. ASSUME NEW pc, Goto(r, pc) PROVE job'[r].pc = pc /\ job'[r].user = job[r].user
  <2>1. job'[r] = [job[r] EXCEPT !.pc = pc] /\ job[r] \in Job
    BY <1>1, <1>5 DEF Goto
  <2> QED BY <2>1 DEF Job
<1> QED BY <1>2, <1>3, <1>4, <1>5

LEMMA TouchGated ==
    ASSUME Gate, Locals', Witness, NEW r \in Request, NEW kind \in Kinds, NEW s \in 0..Len(sessions),
           NEW t \in Token \cup {None}, NEW at, Touch(r, kind, s, t, at)
    PROVE  Gated(r)'
<1>0. entitled[r] \subseteq Facts
  BY DEF Gate, Locals, TypeOK
<1>1. CASE s # 0 /\ ~sessions[s].revoked /\ TakeSession(r, kind, s)
  <2>1. job'[r].pc = "expiry" /\ job'[r].cookie = s
    BY <1>1 DEF TakeSession, Gate, Locals, TypeOK, Idle
  <2>2. ~sessions'[job'[r].cookie].revoked
    BY <1>1, <2>1 DEF Touch
  <2> QED BY <1>0, <2>1, <2>2, NotDoomed DEF Gated, Handlers
<1>2. CASE TryBearer(r, kind, t)
  <2>1. job'[r].pc = "bearer"
    BY <1>2 DEF TryBearer, Gate, Locals, TypeOK, Idle
  <2> QED BY <1>0, <2>1, NotDoomed DEF Gated, Handlers
<1> QED BY <1>1, <1>2 DEF Touch

LEMMA CheckExpiryGated ==
    ASSUME Gate, Locals', Onward, Witness, NEW r \in Request, CheckExpiry(r)
    PROVE  Gated(r)'
<1> DEFINE c == job[r].cookie
<1>1. /\ job[r].pc = "expiry" /\ c \in DOMAIN sessions /\ sessions[c] \in Session
      /\ c # 0 /\ now \in Nat /\ job[r] \in Job
      /\ sessions' = sessions /\ now' = now /\ users' = users
  BY DEF CheckExpiry, At, Gate, Locals, LocalsOK, Owned, TypeOK
<1>2. sessions[c].expires \in Nat
  BY <1>1 DEF Session
<1>3. CASE Answer(r)
  BY <1>3 DEF Answer, Idle, Gated, Handlers, Gate, Locals, TypeOK
<1>4. CASE ~(sessions[c].expires <= now) /\ Goto(r, "user")
  <2>1. job'[r].pc = "user" /\ job'[r].cookie = c /\ job'[r].kind = job[r].kind
    BY <1>1, <1>4 DEF Goto, Gate, Locals, TypeOK, Job
  <2>2. "unexpired" \in Held(r)'
    BY <1>1, <1>2, <1>4, <2>1 DEF Held, Facts
  <2>3. "unexpired" \in entitled'[r] /\ entitled[r] \subseteq entitled'[r]
    BY <2>1, <2>2 DEF Witness, Arrived
  <2>4. SessionDoomed(r) => SessionDoomed(r)'
    BY <1>1, <2>1 DEF SessionDoomed, users
  <2>5. "allowed" \in entitled'[r] \/ SessionDoomed(r)'
    BY <1>1, <2>3, <2>4 DEF Gate, Gated
  <2> QED BY <2>1, <2>3, <2>5 DEF Gated, Handlers
<1> QED BY <1>3, <1>4 DEF CheckExpiry

LEMMA FindUserGated ==
    ASSUME Gate, Witness, NEW r \in Request, FindUser(r)
    PROVE  Gated(r)'
<1> DEFINE c == job[r].cookie
<1>1. job[r].pc = "user" /\ job[r].user = sessions[c].user
  BY DEF FindUser, At, Gate, Locals, LocalsOK, Owned
<1>2. CASE Answer(r)
  BY <1>2 DEF Answer, Idle, Gated, Handlers, Gate, Locals, TypeOK
<1>3. CASE /\ enabled[job[r].user] /\ Allowed(job[r].kind, mustChange[job[r].user])
           /\ Enter(r, "serve") \/ Goto(r, Entry(job[r].kind))
  <2>1. ~SessionDoomed(r)
    BY <1>1, <1>3 DEF SessionDoomed
  <2>2. Facts \subseteq entitled[r]
    BY <1>1, <2>1 DEF Gate, Gated, Facts
  <2>3. job'[r].pc \in Handlers
    BY <1>3 DEF Enter, Goto, Entry, Idle, Handlers, Gate, Locals, TypeOK, Job
  <2>4. entitled'[r] = Facts
    BY <2>2, <2>3, EntitledStays DEF Gate
  <2> QED BY <2>3, <2>4 DEF Gated, Handlers
<1> QED BY <1>2, <1>3 DEF FindUser

LEMMA BearerGated ==
    ASSUME Gate, Witness, NEW r \in Request, Bearer(r)
    PROVE  Gated(r)'
<1>1. CASE Answer(r)
  BY <1>1 DEF Answer, Idle, Gated, Handlers, Gate, Locals, TypeOK
<1>2. CASE job[r].token \notin revokedTokens /\ OwnerAllows(job[r].token, job[r].kind) /\ Enter(r, "serve")
  <2>1. ~TokenDoomed(r) /\ job[r].pc = "bearer"
    BY <1>2 DEF TokenDoomed, TokenAllows, Bearer, At
  <2>2. entitled[r] = Facts
    BY <2>1 DEF Gate, Gated
  <2>3. job'[r].pc \in Handlers
    BY <1>2 DEF Enter, Idle, Handlers, Gate, Locals, TypeOK
  <2>4. entitled'[r] = Facts
    BY <2>2, <2>3, EntitledStays DEF Gate
  <2> QED BY <2>3, <2>4 DEF Gated, Handlers
<1> QED BY <1>1, <1>2 DEF Bearer

LEMMA MovingGated ==
    ASSUME Gate, Locals', Onward, Witness, NEW r \in Request, Step(r)
    PROVE  Gated(r)'
<1>1. CASE \E kind \in Kinds, s \in 0..Len(sessions), t \in Token \cup {None}, at \in 0..now :
             Touch(r, kind, s, t, at)
  BY <1>1, TouchGated
<1>2. CASE CheckExpiry(r) \/ FindUser(r)
  BY <1>2, CheckExpiryGated, FindUserGated
<1>3. CASE Bearer(r)
  BY <1>3, BearerGated
<1>4. CASE \/ \E u \in User \cup {None} : Lookup(r, u)
           \/ \E p \in Password : Verify(r, p)
           \/ \E at \in 0..now : Create(r, at)
           \/ Audit(r) \/ Serve(r) \/ RevokeOne(r) \/ RevokeAll(r) \/ Fail(r)
  <2>1. job'[r].pc \in {"idle", "verify", "create", "audit"}
    <3>1. CASE \E u \in User \cup {None} : Lookup(r, u)
      BY <3>1 DEF Lookup, Idle, Gate, Locals, TypeOK
    <3>2. CASE ~\E u \in User \cup {None} : Lookup(r, u)
      <4>1. Answer(r) \/ (\E n : Owes(r, n)) \/ Goto(r, "create")
        BY <1>4, <3>2 DEF Verify, Create, Audit, Serve, RevokeOne, RevokeAll, Fail
      <4> QED BY <4>1, Places DEF Gate
    <3> QED BY <3>1, <3>2
  <2> QED BY <2>1 DEF Gated, Handlers
<1>5. CASE (\E old, new \in Password : VerifyOld(r, old, new)) \/ UpdatePassword(r) \/ ClearFlag(r)
  <2>1. job[r].pc \in Handlers
    BY <1>5 DEF VerifyOld, UpdatePassword, ClearFlag, At, Handlers
  <2>2. job'[r].pc \in {"idle"} \cup Handlers
    BY <1>5, Places DEF VerifyOld, UpdatePassword, ClearFlag, Handlers, Gate, Locals, TypeOK, Job
  <2>3. job'[r].pc \in Handlers => entitled'[r] = Facts
    BY <2>1, EntitledStays DEF Gate, Gated
  <2> QED BY <2>2, <2>3 DEF Gated, Handlers
<1> QED BY <1>1, <1>2, <1>3, <1>4, <1>5 DEF Step

LEMMA StepFlag ==
    ASSUME Gate, Locals', Onward, Next
    PROVE  FlagClear'
<1> SUFFICES ASSUME NEW q \in Request, job'[q].pc \in {"revoke", "revoke_all"}
             PROVE  ~mustChange'[job'[q].user]
  BY DEF FlagClear
<1>1. \A u \in User : mustChange'[u] => mustChange[u]
  BY DEF Onward
<1>2. CASE job'[q] = job[q]
  <2>1. job[q].user \in User
    BY <1>2, OwnedTyped DEF Owned, Gate
  <2> QED BY <1>1, <1>2, <2>1 DEF Gate, FlagClear
<1>3. CASE Restart
  BY <1>3, IdleAfterRestart DEF Idle
<1>4. CASE Step(q)
  <2>1. CASE FindUser(q)
    <3>1. /\ Goto(q, Entry(job[q].kind)) /\ Allowed(job[q].kind, mustChange[job[q].user])
          /\ job[q].pc = "user" /\ job[q] \in Job
      BY <2>1 DEF FindUser, At, Enter, Answer, Idle, Gate, Locals, TypeOK
    <3>2. job'[q].user = job[q].user /\ job'[q].pc = Entry(job[q].kind) /\ mustChange' = mustChange
      BY <2>1, <3>1 DEF FindUser, Goto, users, Gate, Locals, TypeOK, Job
    <3>3. job[q].kind = "logout"
      BY <3>2 DEF Entry
    <3> QED BY <3>1, <3>2, <3>3 DEF Allowed
  <2>2. CASE ClearFlag(q)
    <3>1. job[q].user \in User /\ job'[q].user = job[q].user
      BY <2>2, OwnedTyped DEF ClearFlag, At, Goto, Owned, Gate, Locals, TypeOK, Job
    <3> QED BY <2>2, <3>1 DEF ClearFlag, Gate, Locals, TypeOK
  <2>3. CASE ~(FindUser(q) \/ ClearFlag(q))
    <3>1. job'[q].pc \in {"idle", "verify", "create", "audit", "expiry", "user", "bearer", "serve",
                          "update", "clear"}
      <4>1. CASE \/ \E u \in User \cup {None} : Lookup(q, u)
                 \/ \E kind \in Kinds, s \in 0..Len(sessions), t \in Token \cup {None}, at \in 0..now :
                      Touch(q, kind, s, t, at)
        <5>1. job \in [Request -> Job]
          BY DEF Gate, Locals, TypeOK
        <5>2. ASSUME NEW u, Lookup(q, u) PROVE job'[q].pc = "verify"
          BY <5>1, <5>2 DEF Lookup, Idle
        <5>3. ASSUME NEW kind, NEW s, NEW t, NEW at, Touch(q, kind, s, t, at)
              PROVE  job'[q].pc = "expiry" \/ job'[q].pc = "bearer"
          BY <5>1, <5>3 DEF Touch, TryBearer, TakeSession, Idle
        <5> QED BY <4>1, <5>2, <5>3
      <4>2. CASE (\E old, new \in Password : VerifyOld(q, old, new)) \/ UpdatePassword(q)
        <5>1. Answer(q) \/ job'[q].pc = "update" \/ job'[q].pc = "clear"
          BY <4>2 DEF VerifyOld, UpdatePassword, Gate, Locals, TypeOK, Job
        <5> QED BY <5>1, Places DEF Gate
      <4>3. CASE \/ \E p \in Password : Verify(q, p)
                 \/ \E at \in 0..now : Create(q, at)
                 \/ Audit(q) \/ CheckExpiry(q) \/ Bearer(q) \/ Serve(q) \/ RevokeOne(q)
                 \/ RevokeAll(q) \/ Fail(q)
        <5>1. Answer(q) \/ (\E n : Owes(q, n)) \/ Goto(q, "create") \/ Goto(q, "user") \/ Enter(q, "serve")
          BY <4>3 DEF Verify, Create, Audit, CheckExpiry, Bearer, Serve, RevokeOne, RevokeAll, Fail
        <5> QED BY <5>1, Places DEF Gate
      <4> QED BY <1>4, <2>3, <4>1, <4>2, <4>3 DEF Step
    <3> QED BY <3>1
  <2> QED BY <2>1, <2>2, <2>3
<1>5. CASE \E r \in Request : Step(r) /\ r # q
  BY <1>2, <1>5, OthersKeep DEF Gate
<1>6. CASE Tick \/ (\E u \in User : Disable(u)) \/ \E t \in Token : RevokeToken(t)
  BY <1>2, <1>6 DEF Tick, Disable, RevokeToken
<1> QED BY <1>3, <1>4, <1>5, <1>6 DEF Next

LEMMA StepGate == Gate /\ [Next]_vars => Gate'
<1> SUFFICES ASSUME Gate, [Next]_vars PROVE Gate'
  OBVIOUS
<1>1. CASE UNCHANGED vars
  BY <1>1 DEF vars, users, Gate, Locals, LocalsOK, TypeOK, FlagClear, Gated, SessionDoomed, TokenDoomed,
     TokenAllows, OwnerAllows, Allowed
<1> SUFFICES ASSUME Next PROVE Gate'
  BY <1>1
<1>2. Locals' /\ Onward /\ Witness
  BY StepLocals, NextOnward DEF Gate, Next
<1>3. FlagClear'
  BY <1>2, StepFlag
<1>4. ASSUME NEW q \in Request PROVE Gated(q)'
  <2>1. CASE job'[q] = job[q]
    BY <1>2, <2>1, WaitingGated
  <2>2. CASE Restart
    BY <2>2, IdleAfterRestart DEF Gated, Idle, Handlers
  <2>3. CASE Step(q)
    BY <1>2, <2>3, MovingGated
  <2>4. CASE \E r \in Request : Step(r) /\ r # q
    BY <2>1, <2>4, OthersKeep DEF Gate
  <2>5. CASE Tick \/ (\E u \in User : Disable(u)) \/ \E t \in Token : RevokeToken(t)
    BY <2>1, <2>5 DEF Tick, Disable, RevokeToken
  <2> QED BY <2>2, <2>3, <2>4, <2>5 DEF Next
<1> QED BY <1>2, <1>3, <1>4 DEF Gate

(* A handler behind auth_layer runs only for a credential that was, at one *)
(* instant since the request arrived, unrevoked, of an enabled account and  *)
(* allowed by must_change_pw, and at one instant unexpired                  *)
(* (auth_middleware.rs:154-230).  The middleware reads these facts at       *)
(* different times, the expiry before it awaits the user; the proof rests   *)
(* on disabled_at being lost for good, and on no session being revoked      *)
(* while its user still has a password to change.                           *)
THEOREM Entitled == Spec => []ServedWhenEntitled
<1>1. Gate => ServedWhenEntitled
  BY DEF Gate, Gated, ServedWhenEntitled
<1> QED BY <1>1, InitGate, StepGate, PTL DEF Spec

-----------------------------------------------------------------------------
(* Sessions opened under a password that is no longer the user's.          *)

\* Why session s may be good although its user changed the password.
Excused(s) ==
    LET u == sessions[s].user
    IN \/ sessions[s].revoked \/ sessions[s].late
       \/ sessions[s].under = password[u]
       \/ u \in unfinished
       \/ \E r \in Request : HalfWay(r) /\ job[r].user = u

(* The password changes under a session only by a change that is then      *)
(* half-way for the session's user.                                         *)
LEMMA PasswordMoves ==
    ASSUME Locals, Next, NEW u \in User
    PROVE  password'[u] = password[u] \/ \E r \in Request : HalfWay(r)' /\ job'[r].user = u
<1>1. CASE \E r \in Request : UpdatePassword(r) /\ job[r].user = u
  <2>1. PICK r \in Request : UpdatePassword(r) /\ job[r].user = u
    BY <1>1
  <2>2. job'[r].pc = "clear" /\ job'[r].user = u
    BY <2>1 DEF UpdatePassword, Locals, TypeOK, Job
  <2> QED BY <2>2 DEF HalfWay
<1>2. CASE \E r \in Request : UpdatePassword(r) /\ job[r].user # u
  BY <1>2 DEF UpdatePassword, Locals, TypeOK
<1>3. CASE ~\E r \in Request : UpdatePassword(r)
  <2>1. password' = password
    BY <1>3 DEF Next, Step, Lookup, Verify, Create, Audit, Touch, CheckExpiry, FindUser, Bearer, Serve, RevokeOne,
       VerifyOld, ClearFlag, RevokeAll, Fail, Restart, Tick, Disable, RevokeToken, users
  <2> QED BY <2>1
<1> QED BY <1>1, <1>2, <1>3

(* Only the revocation of all sessions of a user ends a change of hers.    *)
LEMMA UnfinishedStays ==
    ASSUME Next, NEW u \in unfinished, ~\E r \in Request : RevokeAll(r) /\ job[r].user = u
    PROVE  u \in unfinished'
<1>1. CASE \E r \in Request : RevokeAll(r)
  BY <1>1 DEF RevokeAll
<1>2. CASE ~\E r \in Request : RevokeAll(r)
  BY <1>2 DEF Next, Step, Lookup, Verify, Create, Audit, Touch, CheckExpiry, FindUser, Bearer, Serve, RevokeOne,
     VerifyOld, UpdatePassword, ClearFlag, Fail, Restart, Tick, Disable, RevokeToken
<1> QED BY <1>1, <1>2

LEMMA HalfWayStays ==
    ASSUME Locals, Next, NEW q \in Request, HalfWay(q), ~RevokeAll(q)
    PROVE  \/ job[q].user \in unfinished'
           \/ HalfWay(q)' /\ job'[q].user = job[q].user
<1>0. job[q].pc \in {"clear", "revoke_all"} /\ job[q].user \in User
  BY OwnedTyped DEF HalfWay, Owned
<1>1. CASE job'[q] = job[q]
  BY <1>1, <1>0 DEF HalfWay
<1>2. CASE Restart
  BY <1>0, <1>2 DEF Restart, HalfWay
<1>3. CASE Step(q)
  <2>1. ClearFlag(q) \/ Fail(q)
    BY <1>0, <1>3 DEF Step, Lookup, Verify, Create, Audit, Touch, CheckExpiry, FindUser, Bearer, Serve, RevokeOne,
       VerifyOld, UpdatePassword, At
  <2>2. CASE ClearFlag(q)
    BY <2>2, Places DEF ClearFlag, HalfWay
  <2>3. CASE Fail(q)
    BY <1>0, <2>3 DEF Fail, HalfWay
  <2> QED BY <2>1, <2>2, <2>3
<1>4. CASE \E r \in Request : Step(r) /\ r # q
  BY <1>1, <1>4, OthersKeep
<1>5. CASE Tick \/ (\E u \in User : Disable(u)) \/ \E t \in Token : RevokeToken(t)
  BY <1>1, <1>5 DEF Tick, Disable, RevokeToken
<1> QED BY <1>2, <1>3, <1>4, <1>5 DEF Next

(* A session that is there before the step.                                *)
LEMMA OldSessionExcused ==
    ASSUME Locals, Next, Onward, NEW s \in DOMAIN sessions, Excused(s)
    PROVE  Excused(s)'
<1> DEFINE u == sessions[s].user
<1>1. /\ sessions'[s].user = u /\ sessions'[s].under = sessions[s].under
      /\ sessions[s].late = sessions'[s].late /\ (sessions[s].revoked => sessions'[s].revoked)
  BY DEF Onward
<1>2. u \in User
  <2>1. sessions[s] \in Session
    BY DEF Locals, TypeOK
  <2> QED BY <2>1 DEF Session
<1>3. CASE sessions[s].revoked \/ sessions[s].late
  BY <1>1, <1>3 DEF Excused
<1>4. CASE sessions[s].under = password[u]
  BY <1>1, <1>2, <1>4, PasswordMoves DEF Excused
<1>5. CASE \E r \in Request : RevokeAll(r) /\ job[r].user = u
  <2>1. sessions'[s].revoked
    BY <1>5, RevokeAllSessions
  <2> QED BY <2>1 DEF Excused
<1>6. CASE u \in unfinished /\ ~\E r \in Request : RevokeAll(r) /\ job[r].user = u
  BY <1>1, <1>6, UnfinishedStays DEF Excused
<1>7. CASE (\E r \in Request : HalfWay(r) /\ job[r].user = u) /\ ~\E r \in Request : RevokeAll(r) /\ job[r].user = u
  BY <1>1, <1>7, HalfWayStays DEF Excused
<1> QED BY <1>3, <1>4, <1>5, <1>6, <1>7 DEF Excused

(* A session the step inserts: its login has verified a password that is    *)
(* still the user's, or it is late.                                         *)
LEMMA NewSessionExcused ==
    ASSUME Locals, Next, NEW s \in DOMAIN sessions', s \notin DOMAIN sessions
    PROVE  Excused(s)'
<1>1. PICK r \in Request, at \in 0..now : Create(r, at)
  <2>1. CASE \E r \in Request : RevokeOne(r) \/ RevokeAll(r)
    BY <2>1, RevokeOneSessions, RevokeAllSessions
  <2>2. CASE ~(\E r \in Request : RevokeOne(r) \/ RevokeAll(r)) /\ ~\E r \in Request, at \in 0..now : Create(r, at)
    <3>1. sessions' = sessions
      BY <2>2 DEF Next, Step, Lookup, Verify, Audit, Touch, CheckExpiry, FindUser, Bearer, Serve, VerifyOld,
         UpdatePassword, ClearFlag, Fail, Restart, Tick, Disable, RevokeToken
    <3> QED BY <3>1
  <2> QED BY <2>1, <2>2
<1>2. s = Len(sessions) + 1 /\ password' = password
  BY <1>1, CreateSessions DEF Create, users
<1>3. /\ sessions'[s].user = job[r].user /\ sessions'[s].under = job[r].hash
      /\ sessions'[s].late = (password[job[r].user] # job[r].hash)
  BY <1>1, <1>2, CreateSessions
<1> QED BY <1>2, <1>3 DEF Excused

(* After a password change no session opened under the old password is      *)
(* good, but for a login that overtook the change and a change that ended   *)
(* half-way (auth_routes.rs:412-480).                                       *)
THEOREM OldSessionsEnd == Spec => []OldPasswordSessionsEnd
<1> DEFINE Ended == \A s \in DOMAIN sessions : Excused(s)
<1>1. Init => Ended
  BY DEF Init
<1>2. Locals /\ Ended /\ [Next]_vars => Ended'
  <2> SUFFICES ASSUME Locals, Ended, [Next]_vars PROVE Ended'
    OBVIOUS
  <2>1. CASE UNCHANGED vars
    BY <2>1 DEF vars, users, Excused, HalfWay
  <2>2. CASE Next
    <3>1. Onward
      BY <2>2, NextOnward
    <3> QED BY <2>2, <3>1, OldSessionExcused, NewSessionExcused
  <2> QED BY <2>1, <2>2
<1>3. Ended => OldPasswordSessionsEnd
  BY DEF Excused, OldPasswordSessionsEnd
<1> HIDE DEF Ended
<1> QED BY <1>1, <1>2, <1>3, Typed, PTL DEF Spec

-----------------------------------------------------------------------------
(* The rate limiter.                                                       *)

\* The logins of an address that are between check and their record.
UnderWay(a) == {l \in Login : login[l].pc = "verify" /\ login[l].addr = a}

LimiterTypes ==
    /\ Limiter!TypeOK
    /\ \A l \in Login : login[l].pc = "verify" => login[l].addr \in Addr

\* What is counted against an address, and may yet be: the logins counted against
\* a back-off were under way when it began.
Spent(a) ==
    /\ inWindow[a] < Cardinality(Login)
    /\ Limiter!InForce(a) => inWindow[a] + Cardinality(UnderWay(a)) < Cardinality(Login)

LEMMA UnderWayCounts ==
    ASSUME NEW a
    PROVE  /\ IsFiniteSet(UnderWay(a)) /\ Cardinality(UnderWay(a)) \in Nat
           /\ Cardinality(Login) \in Nat \ {0}
<1>1. UnderWay(a) \subseteq Login /\ IsFiniteSet(Login)
  BY LoginsAssumption DEF UnderWay
<1>2. IsFiniteSet(UnderWay(a))
  BY <1>1, FS_Subset
<1> QED BY <1>1, <1>2, LoginsAssumption, FS_CardinalityType, FS_EmptySet

LEMMA CountedTyped ==
    ASSUME Limiter!TypeOK, NEW a \in Addr, NEW at \in Nat
    PROVE  Limiter!Counted(a, at) \in [count : Nat, next : Nat]
<1>1. bucket[a] \in [count : Nat, next : Nat]
  BY DEF Limiter!TypeOK
<1>2. \A count : Limiter!Backoff(count) \in Nat
  BY LoginsAssumption DEF Limiter!Backoff
<1> QED BY <1>1, <1>2 DEF Limiter!Counted

LEMMA LimiterInit == Limiter!Init => LimiterTypes /\ \A a \in Addr : Spent(a)
<1> SUFFICES ASSUME Limiter!Init PROVE LimiterTypes /\ \A a \in Addr : Spent(a)
  OBVIOUS
<1>1. LimiterTypes
  BY DEF Limiter!Init, LimiterTypes, Limiter!TypeOK, Limiter!NoBucket, Limiter!Idle
<1>2. \A a \in Addr : inWindow[a] = 0 /\ ~Limiter!InForce(a)
  BY DEF Limiter!Init, Limiter!InForce, Limiter!NoBucket
<1> QED BY <1>1, <1>2, UnderWayCounts DEF Spent

\* The end of a login, with or without a record.
Ends(l) ==
    /\ l \in Login /\ login[l].pc = "verify"
    /\ \E new \in {Limiter!Idle, [Limiter!Idle EXCEPT !.pc = "hung"]} : login' = [login EXCEPT ![l] = new]

LEMMA EndsTyped ==
    ASSUME LimiterTypes, NEW l, Ends(l)
    PROVE  /\ login' \in [Login -> [pc : {"idle", "verify", "hung"}, addr : Addr \cup {None}, at : Nat]]
           /\ \A k \in Login : login'[k].pc = "verify" => login'[k].addr \in Addr
           /\ \A a : UnderWay(a)' = UnderWay(a) \ {l}
<1>1. PICK new \in {Limiter!Idle, [Limiter!Idle EXCEPT !.pc = "hung"]} : login' = [login EXCEPT ![l] = new]
  BY DEF Ends
<1>2. new \in [pc : {"idle", "hung"}, addr : Addr \cup {None}, at : Nat]
  BY DEF Limiter!Idle
<1> QED BY <1>1, <1>2 DEF LimiterTypes, Limiter!TypeOK, UnderWay, Ends

LEMMA RejectKeeps ==
    ASSUME LimiterTypes, NEW l \in Login, Limiter!Reject(l), NEW b \in Addr, \A a \in Addr : Spent(a)
    PROVE  LimiterTypes' /\ Spent(b)'
<1> DEFINE a == login[l].addr
<1>1. /\ a \in Addr /\ login[l].at \in Nat /\ l \in UnderWay(a)
      /\ inWindow \in [Addr -> Nat] /\ seconds' = seconds
  BY DEF LimiterTypes, Limiter!TypeOK, Limiter!Reject, UnderWay
<1>2. Ends(l)
  BY DEF Limiter!Reject, Ends
<1>3. Limiter!Counted(a, login[l].at) \in [count : Nat, next : Nat]
  BY <1>1, CountedTyped DEF LimiterTypes
<1>4. LimiterTypes'
  <2>1. bucket' \in [Addr -> [count : Nat, next : Nat]]
    BY <1>1, <1>3 DEF Limiter!Reject, Limiter!RecordFailure, Limiter!NoBucket, LimiterTypes, Limiter!TypeOK
  <2>2. inWindow' \in [Addr -> Nat] /\ held' \subseteq Addr
    BY <1>1 DEF Limiter!Reject, Limiter!RecordFailure, LimiterTypes, Limiter!TypeOK
  <2> QED BY <1>1, <1>2, <2>1, <2>2, EndsTyped DEF LimiterTypes, Limiter!TypeOK
<1>5. inWindow' = [inWindow EXCEPT ![a] = IF Limiter!InForce(a) THEN @ + 1 ELSE 0]
  BY DEF Limiter!Reject, Limiter!RecordFailure
<1>6. UnderWay(b)' = UnderWay(b) \ {l}
  BY <1>2, EndsTyped
<1>7. /\ Cardinality(UnderWay(b)) \in Nat /\ Cardinality(Login) \in Nat \ {0}
      /\ Cardinality(UnderWay(b)') = IF l \in UnderWay(b) THEN Cardinality(UnderWay(b)) - 1 ELSE Cardinality(UnderWay(b))
      /\ Cardinality(UnderWay(b)') \in Nat
  BY <1>6, UnderWayCounts, FS_RemoveElement, FS_CardinalityType
<1>8. CASE b = a
  <2>1. inWindow[b] \in Nat /\ inWindow'[b] = IF Limiter!InForce(b) THEN inWindow[b] + 1 ELSE 0
    BY <1>1, <1>5, <1>8
  <2>2. l \notin UnderWay(b)'
    BY <1>6
  <2>3. Cardinality(UnderWay(b)') < Cardinality(Login)
    <3>1. l \in UnderWay(b) /\ Cardinality(UnderWay(b)) <= Cardinality(Login)
      BY <1>1, <1>8, LoginsAssumption, FS_Subset DEF UnderWay
    <3> QED BY <1>7, <3>1
  <2>4. l \in UnderWay(b)
    BY <1>1, <1>8
  <2> HIDE DEF a
  <2> QED BY <1>4, <1>7, <2>1, <2>3, <2>4 DEF Spent
<1>9. CASE b # a
  <2>1. inWindow'[b] = inWindow[b] /\ l \notin UnderWay(b)
    BY <1>1, <1>5, <1>9 DEF UnderWay
  <2>2. bucket'[b] \in {bucket[b], Limiter!NoBucket}
    BY <1>9 DEF Limiter!Reject, Limiter!RecordFailure
  <2>3. Limiter!InForce(b)' => Limiter!InForce(b)
    BY <1>1, <2>2 DEF Limiter!InForce, Limiter!NoBucket, LimiterTypes, Limiter!TypeOK
  <2> QED BY <1>4, <1>6, <2>1, <2>3 DEF Spent
<1> QED BY <1>4, <1>8, <1>9

LEMMA AcceptKeeps ==
    ASSUME LimiterTypes, NEW l \in Login, Limiter!Accept(l), NEW b \in Addr, \A a \in Addr : Spent(a)
    PROVE  LimiterTypes' /\ Spent(b)'
<1> DEFINE a == login[l].addr
<1>1. /\ a \in Addr /\ Ends(l)
      /\ bucket' = [bucket EXCEPT ![a] = Limiter!NoBucket]
      /\ inWindow' = [inWindow EXCEPT ![a] = 0]
      /\ held' = held /\ seconds' = seconds
  BY DEF LimiterTypes, Limiter!Accept, Limiter!RecordSuccess, Ends
<1>2. LimiterTypes'
  BY <1>1, EndsTyped DEF LimiterTypes, Limiter!TypeOK, Limiter!NoBucket
<1>3. CASE b = a
  <2>1. inWindow'[b] = 0 /\ bucket'[b] = Limiter!NoBucket
    BY <1>1, <1>3 DEF LimiterTypes, Limiter!TypeOK
  <2>2. ~Limiter!InForce(b)'
    BY <1>1, <2>1 DEF Limiter!InForce, Limiter!NoBucket, LimiterTypes, Limiter!TypeOK
  <2> QED BY <1>2, <2>1, <2>2, UnderWayCounts DEF Spent
<1>4. CASE b # a
  <2>1. inWindow'[b] = inWindow[b] /\ (Limiter!InForce(b)' <=> Limiter!InForce(b))
    BY <1>1, <1>4 DEF LimiterTypes, Limiter!TypeOK, Limiter!InForce
  <2>2. UnderWay(b)' = UnderWay(b)
    <3>1. UnderWay(b)' = UnderWay(b) \ {l}
      BY <1>1, EndsTyped
    <3>2. l \notin UnderWay(b)
      BY <1>4 DEF UnderWay
    <3> QED BY <3>1, <3>2
  <2> QED BY <1>2, <2>1, <2>2 DEF Spent
<1> QED BY <1>2, <1>3, <1>4

LEMMA AbortKeeps ==
    ASSUME LimiterTypes, NEW l \in Login, Limiter!Abort(l), NEW b \in Addr, \A a \in Addr : Spent(a)
    PROVE  LimiterTypes' /\ Spent(b)'
<1>1. Ends(l) /\ bucket' = bucket /\ inWindow' = inWindow /\ held' = held /\ seconds' = seconds
  BY DEF Limiter!Abort, Limiter!limiter, Ends
<1>2. LimiterTypes'
  BY <1>1, EndsTyped DEF LimiterTypes, Limiter!TypeOK
<1>3. UnderWay(b)' \subseteq UnderWay(b)
  BY <1>1, EndsTyped
<1>4. Cardinality(UnderWay(b)') <= Cardinality(UnderWay(b)) /\ Cardinality(UnderWay(b)') \in Nat
  BY <1>3, UnderWayCounts, FS_Subset, FS_CardinalityType
<1>5. inWindow[b] \in Nat /\ (Limiter!InForce(b)' <=> Limiter!InForce(b))
  BY <1>1 DEF LimiterTypes, Limiter!TypeOK, Limiter!InForce
<1> QED BY <1>1, <1>2, <1>4, <1>5, UnderWayCounts DEF Spent

LEMMA ArriveKeeps ==
    ASSUME LimiterTypes, NEW l \in Login, NEW a \in Addr, Limiter!Arrive(l, a),
           NEW b \in Addr, \A c \in Addr : Spent(c)
    PROVE  LimiterTypes' /\ Spent(b)'
<1>1. /\ login' = [login EXCEPT ![l] = [pc |-> "verify", addr |-> a, at |-> seconds]]
      /\ bucket' = bucket /\ inWindow' = inWindow /\ held' = held /\ seconds' = seconds
      /\ ~Limiter!InForce(a) /\ login[l].pc # "verify"
  BY DEF Limiter!Arrive, Limiter!limiter, Limiter!Admitted, Limiter!Idle
<1>2. LimiterTypes'
  BY <1>1 DEF LimiterTypes, Limiter!TypeOK
<1>3. Limiter!InForce(b)' <=> Limiter!InForce(b)
  BY <1>1 DEF Limiter!InForce
<1>4. b # a => UnderWay(b)' = UnderWay(b)
  BY <1>1 DEF UnderWay, LimiterTypes, Limiter!TypeOK
<1> QED BY <1>1, <1>2, <1>3, <1>4 DEF Spent

LEMMA LimiterKeeps ==
    ASSUME LimiterTypes, \A a \in Addr : Spent(a), Limiter!Next
    PROVE  LimiterTypes' /\ \A a \in Addr : Spent(a)'
<1>1. CASE \E l \in Login : Limiter!End(l)
  <2>1. PICK l \in Login : Limiter!End(l)
    BY <1>1
  <2>2. login[l].addr \in Addr
    BY <2>1 DEF Limiter!End, Limiter!Record, Limiter!Reject, Limiter!Accept, Limiter!Abort, LimiterTypes
  <2> QED BY <2>1, <2>2, RejectKeeps, AcceptKeeps, AbortKeeps DEF Limiter!End, Limiter!Record
<1>2. CASE \E l \in Login, a \in Addr : Limiter!Arrive(l, a)
  BY <1>2, ArriveKeeps
<1>3. CASE Limiter!Restart
  <2>1. LimiterTypes'
    BY <1>3 DEF Limiter!Restart, LimiterTypes, Limiter!TypeOK, Limiter!NoBucket, Limiter!Idle
  <2>2. \A a \in Addr : inWindow'[a] = 0 /\ ~Limiter!InForce(a)'
    BY <1>3 DEF Limiter!Restart, Limiter!InForce, Limiter!NoBucket, LimiterTypes, Limiter!TypeOK
  <2> QED BY <2>1, <2>2, UnderWayCounts DEF Spent
<1>4. CASE Limiter!Tick
  <2>1. /\ bucket' = bucket /\ inWindow' = inWindow /\ held' = held /\ login' = login
        /\ seconds \in Nat /\ seconds' = seconds + 1
    BY <1>4 DEF Limiter!Tick, Limiter!limiter, LimiterTypes, Limiter!TypeOK
  <2>2. LimiterTypes'
    BY <2>1 DEF LimiterTypes, Limiter!TypeOK
  <2>3. \A a \in Addr : Limiter!InForce(a)' => Limiter!InForce(a)
    BY <2>1 DEF Limiter!InForce, LimiterTypes, Limiter!TypeOK
  <2>4. \A a \in Addr : UnderWay(a)' = UnderWay(a)
    BY <2>1 DEF UnderWay
  <2> QED BY <2>1, <2>2, <2>3, <2>4 DEF Spent
<1> QED BY <1>1, <1>2, <1>3, <1>4 DEF Limiter!Next

(* However many logins run between check and their record, of those that   *)
(* are counted against a back-off while it is in force there are fewer than *)
(* logins run at a time (auth_routes.rs:221-283, rate_limit.rs:54-92).      *)
THEOREM BackoffCounts == Limiter!Spec => []BackoffHolds
<1> DEFINE Inv == LimiterTypes /\ \A a \in Addr : Spent(a)
<1>1. Limiter!Init => Inv
  BY LimiterInit
<1>2. Inv /\ [Limiter!Next]_(Limiter!vars) => Inv'
  <2> SUFFICES ASSUME Inv, [Limiter!Next]_(Limiter!vars) PROVE Inv'
    OBVIOUS
  <2>1. CASE Limiter!Next
    BY <2>1, LimiterKeeps
  <2>2. CASE UNCHANGED Limiter!vars
    BY <2>2 DEF Limiter!vars, Limiter!limiter, LimiterTypes, Limiter!TypeOK, Spent, UnderWay, Limiter!InForce
  <2> QED BY <2>1, <2>2
<1>3. Inv => BackoffHolds
  BY DEF Spent, BackoffHolds
<1> HIDE DEF Inv
<1> QED BY <1>1, <1>2, <1>3, PTL DEF Limiter!Spec

=============================================================================
