----------------------------- MODULE ApplyLock -----------------------------
(***************************************************************************)
(* The two-level lock around CaddyApplier::apply: the in-process           *)
(* tokio mutex `instance_mutex`, then the row of the SQLite table          *)
(* `apply_locks` (primary key `instance_id`), which is the only lock that  *)
(* reaches across processes.  One Caddy instance is modelled: rows of      *)
(* different instances never touch each other.                             *)
(*                                                                         *)
(* Daemons crash and start again under a process id the kernel picks.  An  *)
(* apply() future can be dropped half-way (a client that disconnects, a    *)
(* task aborted at shutdown), can panic, and every DELETE of the row is    *)
(* best effort: the code ignores its error.                                *)
(*                                                                         *)
(* The daemon also takes an advisory lock on its data directory before it  *)
(* opens the database (FileLock), which leaves one daemon at a time; the   *)
(* row is meant to serve "multiple daemon processes sharing the same       *)
(* database file" (migration 0007) without it.                             *)
(***************************************************************************)
CONSTANTS
    Daemon,         \* the processes that may share the database
    Call,           \* apply() calls; a value is reused once it is answered
    DaemonOf,       \* the process each call runs in
    Pid,            \* process ids
    NoPid, NoCall,  \* "no row / not running" and "mutex free"
    FileLock,       \* does LockHandle keep a second daemon from starting?
    PidReuse        \* may a new process get an id that the row, or a call
                    \* about to reap it, still remembers from a dead one?

ASSUME CallAssumption ==
    /\ DaemonOf \in [Call -> Daemon]
    /\ NoCall \notin Call
ASSUME PidAssumption == NoPid \notin Pid
ASSUME FlagAssumption == {FileLock, PidReuse} \subseteq BOOLEAN

VARIABLES
    row,        \* apply_locks.holder_pid, NoPid when there is no row
    pid,        \* the process id of each daemon, NoPid when it is down
    mutex,      \* the call that owns each daemon's instance_mutex
    pc,         \* what each call does next
    seen,       \* holder_pid as acquire_apply_lock read it, until it has
                \* been probed or reaped
    cleanup,    \* panicked calls whose "lock-cleanup-panic" thread is to run
    lost        \* ghost: has a DELETE been lost, or an INSERT been left behind?

vars == <<row, pid, mutex, pc, seen, cleanup, lost>>

Pc == {"idle", "mutex", "insert", "select", "probe", "reap", "retry",
       "inside", "release"}

TypeOK ==
    /\ row \in Pid \cup {NoPid}
    /\ pid \in [Daemon -> Pid \cup {NoPid}]
    /\ mutex \in [Daemon -> Call \cup {NoCall}]
    /\ pc \in [Call -> Pc]
    /\ seen \in [Call -> Pid \cup {NoPid}]
    /\ cleanup \in SUBSET Call
    /\ lost \in BOOLEAN

Init ==
    /\ row = NoPid
    /\ pid = [d \in Daemon |-> NoPid]
    /\ mutex = [d \in Daemon |-> NoCall]
    /\ pc = [c \in Call |-> "idle"]
    /\ seen = [c \in Call |-> NoPid]
    /\ cleanup = {} /\ lost = FALSE

-----------------------------------------------------------------------------
MyPid(c) == pid[DaemonOf[c]]

\* kill(pid, 0) succeeds
process_alive(p) == \E d \in Daemon : pid[d] = p

\* The row, or a call that has read the row, still names process id p.
Remembered(p) == row = p \/ \E c \in Call : seen[c] = p

Goto(c, from, to) ==
    /\ pc[c] = from
    /\ pc' = [pc EXCEPT ![c] = to]

\* Mutant: the mutex guard outlives the call.
Return_KeepsMutex(c) ==
    /\ pc' = [pc EXCEPT ![c] = "idle"]
    /\ seen' = [seen EXCEPT ![c] = NoPid]
    /\ UNCHANGED mutex

\* The call is over: apply() returns, and _process_guard is dropped.
Return(c) ==
    /\ pc' = [pc EXCEPT ![c] = "idle"]
    /\ seen' = [seen EXCEPT ![c] = NoPid]
    /\ mutex' = [mutex EXCEPT ![DaemonOf[c]] = NoCall]

\* Mutant: DELETE ... WHERE instance_id = ?, whoever holds the row.
RowWithout_AnyHolder(p) == NoPid

\* The row after DELETE ... WHERE instance_id = ? AND holder_pid = p
RowWithout(p) == IF row = p THEN NoPid ELSE row

\* A DELETE whose error is ignored.
DeleteRow(p) ==
    \/ row' = RowWithout(p) /\ UNCHANGED lost
    \/ lost' = TRUE /\ UNCHANGED row

-----------------------------------------------------------------------------
\* A daemon starts, under a process id no running process has.
Start(d) ==
    /\ pid[d] = NoPid
    /\ FileLock => \A e \in Daemon : pid[e] = NoPid
    /\ \E p \in Pid :
          /\ ~process_alive(p)
          /\ PidReuse \/ ~Remembered(p)
          /\ pid' = [pid EXCEPT ![d] = p]
    /\ UNCHANGED <<row, mutex, pc, seen, cleanup, lost>>

\* kill -9 or power loss: calls, mutex and cleanup threads die; the row stays.
Crash(d) ==
    /\ pid[d] # NoPid
    /\ pid' = [pid EXCEPT ![d] = NoPid]
    /\ mutex' = [mutex EXCEPT ![d] = NoCall]
    /\ pc' = [c \in Call |-> IF DaemonOf[c] = d THEN "idle" ELSE pc[c]]
    /\ seen' = [c \in Call |-> IF DaemonOf[c] = d THEN NoPid ELSE seen[c]]
    /\ cleanup' = {c \in cleanup : DaemonOf[c] # d}
    /\ UNCHANGED <<row, lost>>

\* apply() is called and waits on instance_mutex.lock().
Request(c) ==
    /\ MyPid(c) # NoPid
    /\ Goto(c, "idle", "mutex")
    /\ UNCHANGED <<row, pid, mutex, seen, cleanup, lost>>

TakeMutex(c) ==
    /\ mutex[DaemonOf[c]] = NoCall
    /\ Goto(c, "mutex", "insert")
    /\ mutex' = [mutex EXCEPT ![DaemonOf[c]] = c]
    /\ UNCHANGED <<row, pid, seen, cleanup, lost>>

\* try_insert_lock, first attempt: BEGIN IMMEDIATE, INSERT, COMMIT.
Insert(c) ==
    /\ \/ row = NoPid /\ Goto(c, "insert", "inside") /\ row' = MyPid(c)
       \/ row # NoPid /\ Goto(c, "insert", "select") /\ UNCHANGED row
    /\ UNCHANGED <<pid, mutex, seen, cleanup, lost>>

\* SELECT holder_pid; no row any more means straight to the second attempt.
Select(c) ==
    /\ Goto(c, "select", IF row = NoPid THEN "retry" ELSE "probe")
    /\ seen' = [seen EXCEPT ![c] = row]
    /\ UNCHANGED <<row, pid, mutex, cleanup, lost>>

\* The holder is alive: LockError::AlreadyHeld.
ProbeAlive(c) ==
    /\ pc[c] = "probe"
    /\ process_alive(seen[c])
    /\ Return(c)
    /\ UNCHANGED <<row, pid, cleanup, lost>>

ProbeDead(c) ==
    /\ ~process_alive(seen[c])
    /\ Goto(c, "probe", "reap")
    /\ UNCHANGED <<row, pid, mutex, seen, cleanup, lost>>

\* Mutant: the DELETE names the caller's own pid and removes nothing.
Reap_OwnPid(c) ==
    /\ Goto(c, "reap", "retry")
    /\ row' = RowWithout(MyPid(c))
    /\ seen' = [seen EXCEPT ![c] = NoPid]
    /\ UNCHANGED <<pid, mutex, cleanup, lost>>

\* DELETE the stale row, by the holder_pid read before.
Reap(c) ==
    /\ Goto(c, "reap", "retry")
    /\ row' = RowWithout(seen[c])
    /\ seen' = [seen EXCEPT ![c] = NoPid]
    /\ UNCHANGED <<pid, mutex, cleanup, lost>>

\* try_insert_lock, second attempt; a row that is back means AlreadyHeld.
Retry(c) ==
    /\ pc[c] = "retry"
    /\ \/ row = NoPid /\ Goto(c, "retry", "inside") /\ row' = MyPid(c)
          /\ UNCHANGED <<mutex, seen>>
       \/ row # NoPid /\ Return(c) /\ UNCHANGED row
    /\ UNCHANGED <<pid, cleanup, lost>>

\* Any database error other than the UNIQUE violation: LockError::Storage.
StorageError(c) ==
    /\ pc[c] \in {"insert", "select", "reap", "retry"}
    /\ Return(c)
    /\ UNCHANGED <<row, pid, cleanup, lost>>

\* The apply body is done, well or badly, and awaits AcquiredLock::release.
Finish(c) ==
    /\ Goto(c, "inside", "release")
    /\ UNCHANGED <<row, pid, mutex, seen, cleanup, lost>>

\* Mutant: release() forgets to delete the row.
Release_KeepsRow(c) ==
    /\ pc[c] = "release"
    /\ Return(c)
    /\ UNCHANGED <<row, pid, cleanup, lost>>

\* Mutant: without mem::forget, Drop deletes a second time, later.
Release_WithoutForget(c) ==
    /\ pc[c] = "release"
    /\ DeleteRow(MyPid(c))
    /\ cleanup' = cleanup \cup {c}
    /\ Return(c)
    /\ UNCHANGED pid

\* AcquiredLock::release: the DELETE, whose error is ignored.
Release(c) ==
    /\ pc[c] = "release"
    /\ DeleteRow(MyPid(c))
    /\ Return(c)
    /\ UNCHANGED <<pid, cleanup>>

\* A panic in the apply body: Drop leaves the DELETE to a detached thread
\* (best effort: the thread may not start) and the mutex guard is dropped.
Panic(c) ==
    /\ pc[c] = "inside"
    /\ \/ cleanup' = cleanup \cup {c} /\ UNCHANGED lost
       \/ lost' = TRUE /\ UNCHANGED cleanup
    /\ Return(c)
    /\ UNCHANGED <<row, pid>>

\* The detached thread runs, at any later time.
Cleanup(c) ==
    /\ c \in cleanup
    /\ DeleteRow(MyPid(c))
    /\ cleanup' = cleanup \ {c}
    /\ UNCHANGED <<pid, mutex, pc, seen>>

\* The future of a call that holds no guard yet is dropped.  Dropped during
\* an INSERT that the SQLite worker goes on to commit, it leaves the row.
CancelOutside(c) ==
    /\ pc[c] \in {"mutex", "insert", "select", "retry", "reap"}
    /\ pc' = [pc EXCEPT ![c] = "idle"]
    /\ seen' = [seen EXCEPT ![c] = NoPid]
    /\ mutex' = [mutex EXCEPT ![DaemonOf[c]] = IF @ = c THEN NoCall ELSE @]
    /\ \/ UNCHANGED <<row, lost>>
       \/ /\ pc[c] \in {"insert", "retry"} /\ row = NoPid
          /\ row' = MyPid(c) /\ lost' = TRUE
    /\ UNCHANGED <<pid, cleanup>>

\* The future of a call inside is dropped: Drop deletes the row and waits for
\* it.  In release() the guard is already forgotten, so only the DELETE that
\* was under way may remove the row.
CancelInside(c) ==
    /\ pc[c] \in {"inside", "release"}
    /\ DeleteRow(MyPid(c))
    /\ Return(c)
    /\ UNCHANGED <<pid, cleanup>>

\* What a call does by itself once it owns the mutex.
Step(c) ==
    \/ Insert(c) \/ Select(c) \/ ProbeAlive(c) \/ ProbeDead(c)
    \/ Reap(c) \/ Retry(c) \/ Finish(c) \/ Release(c)

Fault(c) == StorageError(c) \/ Panic(c) \/ CancelOutside(c) \/ CancelInside(c)

Next ==
    \/ \E d \in Daemon : Start(d) \/ Crash(d)
    \/ \E c \in Call :
          Request(c) \/ TakeMutex(c) \/ Step(c) \/ Fault(c) \/ Cleanup(c)

Spec == Init /\ [][Next]_vars

\* Every call that runs goes on running, and tokio's Mutex is first in first
\* out: a waiting call is served although the mutex changes hands.
Fairness ==
    \A c \in Call : WF_vars(Step(c)) /\ SF_vars(TakeMutex(c)) /\ WF_vars(Cleanup(c))

FairSpec == Spec /\ Fairness

-----------------------------------------------------------------------------
Inside == {c \in Call : pc[c] = "inside"}

\* At most one apply is in flight for the Caddy instance, across all the
\* processes (applier_caddy.rs: "Together these guarantee at most one apply
\* is in flight per caddy_instance_id, even across separate processes").
MutualExclusion == \A c, e \in Inside : c = e

\* Until a DELETE is lost, a row that names a running process is owned: a call
\* of that process is inside or releasing, or a panic cleanup for it is still
\* to come.  A live row that nobody owns refuses every apply until the daemon
\* restarts ("A stale `apply_locks` row from a crashed process is reaped on
\* the next acquire", docs/todo/phase-07-apply-path.md).
Owner(c) == pc[c] \in {"inside", "release"} \/ c \in cleanup

RowIsOwned ==
    \A d \in Daemon : row # NoPid /\ row = pid[d] /\ ~lost =>
        \E c \in Call : DaemonOf[c] = d /\ Owner(c)

\* Nobody takes the row away from a call that stays inside: neither a reaper
\* working from an old holder_pid nor a late panic cleanup.
RowKeptWhileInside ==
    [][\A c \in Call : pc[c] = "inside" /\ pc'[c] = "inside" => row' = row]_vars

\* Every call that waits for the mutex is answered: it gets inside, or it is
\* refused (AlreadyHeld, an error) or dies with its daemon.
EveryCallAnswered ==
    \A c \in Call : pc[c] = "mutex" ~> pc[c] \in {"inside", "idle"}

\* A row left by a dead process does not outlast the calls that meet it: if it
\* stays while a call gets to probe it again and again, then that call keeps
\* failing before its DELETE, or its daemon keeps crashing.
StaleRow == row # NoPid /\ ~process_alive(row)

FailsBeforeReap(c) == pc[c] # "retry" /\ Fault(c)

StaleRowReaped ==
    \A c \in Call :
        <>[]StaleRow /\ []<>(pc[c] = "probe") =>
            []<><<FailsBeforeReap(c) \/ Crash(DaemonOf[c])>>_vars

Exclusion == INSTANCE ApplyExclusion WITH inside <- Inside
Implements == Exclusion!Spec
=============================================================================
