# Trilithon in TLA+

Trilithon is a control plane for the Caddy web server: a daemon keeps the
desired configuration as immutable snapshots in SQLite, renders a snapshot to
Caddy JSON, loads it through Caddy's admin API, watches for configuration drift
and writes an audit log. This directory holds TLA+ models of the daemon's
core, the TLC configurations that check them on small instances, and proofs for
TLAPS. All paths below are relative to `src/core/crates/` unless they start
with `docs/`.

Everything here is translated from the code. Section 5 lists where a document or
a comment promises something else.

## 1. Inventory of the system

| component | source | state | operations | interacts with |
|---|---|---|---|---|
| Apply lock | `adapters/src/storage_sqlite/locks.rs`, `applier_caddy.rs` | the tokio mutex `instance_mutex` of each process; table `apply_locks` (one row per Caddy instance, `holder_pid`) | acquire (insert, select, probe pid, reap, retry), release, drop, cleanup after a panic | taken by every `apply()`; the drift loop takes the mutex only |
| Applier | `adapters/src/applier_caddy.rs` | none of its own: the snapshot table, `applied_config_version`, Caddy, audit rows | `apply`, `rollback`, `validate` | called by `POST /mutations`, drift reapply, rollback; calls the lock, Caddy, storage, audit |
| Optimistic concurrency | `storage_sqlite/snapshots.rs`, `sqlite_storage.rs` | `caddy_instances.applied_config_version` | `cas_advance_config_version` | last step of `apply()` |
| Snapshots and storage | `sqlite_storage.rs`, `storage_sqlite/`; its double `core/src/storage/in_memory.rs` | tables `snapshots`, `audit_log`, `drift_events`, ... | insert (monotonic version, content address), CAS, drift events, proposals, reads | everything; tests run on the double |
| Audit log | `audit_writer.rs`, `sqlite_storage.rs`, `core/src/storage/helpers.rs`, `http_axum/audit_routes.rs` | table `audit_log` with a hash chain | `record`, `verify_audit_chain`, paging | every other component writes to it |
| Drift detector | `drift.rs`, `http_axum/drift_routes.rs` | `last_running_hash` in memory, table `drift_events` | tick, record, `mark_resolved`, `init_from_storage`; routes `current`, `defer`, `adopt` (501), `reapply` | shares the apply mutex; reads Caddy and the latest snapshot |
| Startup | `cli/src/run.rs`, `adapters/src/lock.rs`, `migrate.rs` | advisory file lock on the data directory | start gates in order | everything |
| Ownership sentinel | `caddy/sentinel.rs`, `installation_id.rs` | an `@id` object in Caddy's configuration, a file with the installation id | ensure, takeover | startup; `POST /load` replaces what it wrote |
| Capability probe, reconnect loop | `caddy/probe.rs`, `cache.rs`, `capability_store.rs`, `reconnect.rs` | a cache, a table with one current row, health, backoff | probe, reconnect | the applier's capability check |
| Caddy admin client | `caddy/hyper_client.rs` | none | `POST /load`, `GET /config/`, ... with timeouts | applier, drift detector, probe, sentinel |
| Login, sessions, tokens | `http_axum/auth_routes.rs`, `auth_middleware.rs`, `auth/` | tables `users`, `sessions`, `api_tokens` | login, logout, change-password, classify, touch | rate limiter, audit |
| Login rate limiter | `auth/rate_limit.rs` | a sharded map of failures per address | check, record failure, record success | login |
| Bootstrap account | `auth/bootstrap.rs` | a credentials file, a user row, its flag, an audit row | `bootstrap_if_empty` | startup |
| HTTP server and shutdown | `http_axum.rs`, `cli/src/shutdown.rs` | in-flight tasks, a signal | serve, drain for ten seconds, abort | everything |
| TLS observer | `tls_observer.rs` | last seen certificates | poll | not wired by `run.rs` |
| Integrity check | `integrity_check.rs` | none | a periodic `PRAGMA`, logged | storage |
| Secrets vault | `secrets_local/`, `core/src/secrets.rs` | key material, encrypted values | seal, open | none of the modelled flows |
| Desired state, mutation algebra | `core/src/model/`, `core/src/mutation/` | pure | `apply_mutation` and its checks | `POST /mutations` |
| Diff engine | `core/src/diff*` | pure | flatten, diff, resolve, ignore list | applier, drift detector |
| Renderer, capability check | `core/src/reconciler/` | pure | render, check modules | applier |
| Canonical JSON | `core/src/canonical_json.rs` | pure | content address of a snapshot | storage |
| Redactor, vocabulary | `core/src/audit/`, `core/src/schema/` | pure | redact a diff, audit kinds | audit writer |
| Configuration, observability, tools, scaffolds | `core/src/config/`, `cli/`, `xtask/`, `ffi/`, `src/web` | none | parsing, logging | none |

What is hard here: several futures of one process, several processes over one
database, futures that are *dropped* at any await (a client hangs up, shutdown
aborts after its drain budget), a Caddy that answers late or never, writes that
are made one transaction at a time with memory in between, and a clock that is
read outside the transaction it orders. `PROJECT.json` lists each hazard at its
line.

What makes each component correct, in a sentence: at most one apply runs and
the lock is never left behind; the applied version moves by one, only to a
stored snapshot that Caddy accepted, and no update is lost; rows of the audit
log tell the truth and can be verified and read completely; a drift that lasts
is reported, and reported once; a request is served only for a credential that has
been good, and a password change ends what the old password opened; failed logins wait
for their back-off; no sequence of mutations leaves a state that the renderer, the
capability check or the diff does not expect; the double differs from the database
only by accepting more; the daemon catches up with a Caddy that comes back, and
ends when it is told to.

## 2. Modules

| module | models | composed with |
|---|---|---|
| `ApplyExclusion` | what the lock promises: at most one call inside | the abstract side of `ApplyLock`, and the lock as `Applier` uses it |
| `ApplyLock` | the mutex and the `apply_locks` row, over several daemons | implements `ApplyExclusion` |
| `VersionRegister` | what optimistic concurrency promises: a register that moves by one, each move made by one request that learns its version | the abstract side of `Applier` |
| `Applier` | `apply()` and its four callers over snapshots, applied version, Caddy, audit rows | `INSTANCE ApplyExclusion`; implements `VersionRegister` |
| `AuditLog` | `AuditWriter::record`, `record_audit_event`, verification, paging | stands alone: `Applier` and `DriftDetector` need only that a row is written or not |
| `DriftDetector` | the loop, `record`, deferrals, recovery | stands alone: of an apply it needs the mutex and the load |
| `Startup` | the gates of a start that leave something behind: advisory lock, installation id, ownership sentinel, bootstrap account | stands alone: it ends where the other modules' daemons begin |
| `Auth` | login, logout, change-password and the middleware with cookies and bearer tokens, over users, sessions and tokens | stands alone: the limiter decides only whether a login goes on |
| `LoginLimiter` | the rate limiter as concurrent logins use it, with the locks of its map | used by `Daemon` and `Logins` |
| `Logins` | the limiter in front of the logins of `Auth`, with a clock of its own | extends `Auth`, `INSTANCE LoginLimiter` |
| `Daemon` | the stages of a start, the tasks each spawns, the reconnect loop with the cached capabilities, drain and exit | `INSTANCE LoginLimiter` for the logins the HTTP server runs |
| `Store` | the `Storage` trait: the SQLite storage and the in-memory double given the same calls | the double is compared with the database |
| `DesiredState` | the types of `core/src/model` and the validity of their fields | extended by `Mutations` and `Render` |
| `Mutations` | `apply_mutation`: capability gate, pre-conditions, new state, reported changes | extended by `Documents` |
| `JsonDiff` | JSON documents, the ignore list, `structural_diff`, the summary of a diff, `apply_diff` | extended by `Render` |
| `Render` | the two documents of a state (its own JSON, Caddy's configuration), the capability check before an apply | extends `DesiredState` and `JsonDiff`, extended by `Documents` |
| `Documents` | what the gates in front of a mutation owe to everything behind it | composes `Mutations` and `Render` |
| `MC*` | instances for TLC (symmetry, constants) | |
| `*Proofs` | theorems and proofs | extend their module and `TLAPS`; `AuthProofs` is about `Auth` and `Logins`, `DocumentsProofs` about `Mutations`, `JsonDiff`, `Render` and `Documents`, `DaemonProofs` about `Startup` and `Daemon` |

### ApplyLock

`row` is `apply_locks.holder_pid`, `mutex` each daemon's `instance_mutex`, `pc`
where a call of `apply()` stands between two awaits, `seen` the pid that
`acquire_apply_lock` has read, `cleanup` the detached threads that `Drop` spawns
after a panic. `Insert`, `Select`, `ProbeAlive`/`ProbeDead`, `Reap`, `Retry` are
the statements of `acquire_apply_lock` in their order; each is one SQLite
statement or one system call, and anybody may act in between. `Finish`/`Release`
end a call; `Panic` + `Cleanup`, `CancelInside`, `CancelOutside` are the three
ways a guard or a future is dropped; `Crash`/`Start` kill and restart a daemon.
A DELETE of the row is best effort in the code: it may be lost at every place
where it is made. The ghost `lost` remembers that this has happened.

Two flags name assumptions. `FileLock`: the daemon's advisory lock on its data
directory leaves one daemon at a time. `PidReuse`: a new process may get an id
that the row, or a reaper, still remembers.

### Applier

A snapshot is a version and a body, because its id is the hash of a document
that contains both. `snapshots`, `pointer`, `running`, `rows` are the tables, the
applied version, Caddy's configuration and the audit rows; `late` holds loads
that timed out for the client and that Caddy may still perform. A request is one
of four flows: `insert-first` (how the tests and the documents call the applier),
`mutation` (`POST /mutations`), `reapply` (`POST /drift/{id}/reapply`) and
`rollback`. The steps of `apply()` are the actions `Enter`, `ReadConflict` /
`ReadAgrees`, `PreflightFails`, `LoadAccepted` / `LoadRejected` /
`LoadUnanswered`, `VerifyAgrees` / `VerifyFails`, `CasAdvances` / `CasFails`,
`AuditApplied`, `Leave`. `Die` is what a dropped future or a crash leaves
behind. `RecordApply` writes nothing when the snapshot is not stored: the foreign
key of `audit_log.snapshot_id` refuses the row and the code ignores the error.

`won`, `accepted` and `cause` are ghosts: what each request has made current,
what Caddy has accepted, and why Caddy may differ from the applied version.
`StructuralDiff` says whether the diff engine compares at all; `run.rs` wires one
that never differs.

### AuditLog

A ULID is a number, milliseconds times the random range plus a random part;
`at` is the second that `record` reads afterwards. `Commit` is the whole
`BEGIN IMMEDIATE` transaction: it reads the row with the greatest
`(occurred_at, id)`, takes its hash and inserts. The hash of a row is
identified with its id, the primary key, which the hash covers. The reader
pages with `cursor_before` as `GET /audit` does.

### DriftDetector

What Caddy serves has a content and a part Caddy manages itself; the comparison
ignores the second, the deduplication hash covers both. `BeginTick`, `Fetch`,
`TickClean` / `TickDrifted` run under the apply mutex (`try_lock`), `Deduplicate`,
`WriteDetected`, `InsertRow`, `SetHash` after it has been released, under the
mutex around `last_running_hash` (`GuardHeld`). A deferral reads the open event,
writes its audit row, resolves the event and resets the hash, each a step;
`Cancel` drops it at any of them. `Restart` loses the memory and recovers the hash
from the open event. `adopt` answers 501 and is no action.

### Startup

`at` is the gate each daemon is at, `run` the number of its start, `starts` the
data directory of every start so far. A random draw (installation id, password)
is identified with the number of the start that made it. The disk of an
installation is `idFile`, `creds`, `account` with `mustChange`, and `row`; Caddy is
`sentinel` and the PUTs that may still land (`late`). `ReadId` / `DraftId` +
`RenameId` are `read_or_create`, where `idFile` is 0 also for a file that spells no id and is
replaced as an absent one is (a file that is damaged while a sentinel names its id is left out); `FindSentinel` and `PutSentinel` the GET and the
PUT of `ensure_sentinel`, with everybody else's steps in between; `CountUsers` to
`RecordBootstrap` are `bootstrap_if_empty`. Gates that only read (migrations, the
integrity check, the capability probe) are no steps: where they fail they end the
process as `Down` does. `Down` is also the kill, the signal and a foreign sentinel
without `--takeover`. A PUT is taken as `core/src/caddy/client.rs` documents it
("Set the value at `path`"); where Caddy refuses one instead, that is `Down`.
`LoadDropsSentinel` is what any apply does: the document the renderer emits holds
the id `trilithon-owner-local`, not the `trilithon-owner` that startup looks for.
The ghost `displaced` remembers that a sentinel has been replaced or dropped.

### Auth and LoginLimiter

A request is a login, a read of a protected route, a logout or a change-password.
`job[r].pc` is the query its handler makes next, `job[r]` its locals; `Touch` /
`CheckExpiry` / `FindUser` / `Bearer` are the middleware (the session is touched and its
expiry judged *before* its user is read, a bearer token is tried when no session answers), `Serve`, `RevokeOne`
and `VerifyOld` to `RevokeAll` the handlers. `Fail` is a query that ends in an
error or a dropped future, `Disable` and `RevokeToken` what an operator does to the
tables, `Tick` the clock that expires sessions. A password stands for its own hash.
The history `entitled` says which `Facts` have held of the request's credential at some
instant since it arrived: that it was `"allowed"` is that it was unrevoked, of an enabled
account and permitted by `must_change_pw` *together*, which is more than that each of the
middleware's reads was good at its own. That it was `"unexpired"` is a fact of its own: the
code judges expiry before it awaits the user, so a session that expires while a
change-password clears the flag may be served without ever having been good as a whole.
`unfinished` are the users whose change-password stopped after one of its three writes. Roles and permissions, the throttle of `last_seen_at` and
the texts of answers are left out.

`LoginLimiter` takes a login apart into `Arrive` (the check, and the clock that
`login` reads), the lookup and the Argon2 run during which others act, and
`Reject` / `Accept` with the clock of the arrival. A bucket lives in a shard of a
`DashMap`; `held` are the addresses whose shard a thread keeps locked because the
purge of the hundredth failure asks for the shard it already holds (`Hangs`).

### Daemon

`stage` is where `run_with_shutdown` stands, `task` the `JoinSet`. A periodic task
is `"waiting"` or `"busy"`; what it does while busy is in the other modules. The drift loop
prefers the signal to its timer (`biased`), the others may tick once more (`Unbiased`). The
reconnect loop is modelled in full: `HealthFails`, `HealthOk`, `ReProbe` /
`ReProbeFails`, `StoreProbe` over `link`, `backoff`, `cache` and the `stored` row.
`Signal`, `Drained`, `DrainTimesOut` and `Exit` are the shutdown: the drain with its
budget, the abort of the survivors, and the drop of the runtime, which waits for
every thread to come back to it. `missed` remembers that the loop had no chance to
probe: an outage between two health checks, or a probe that failed.

### Store

Every method of the trait that touches snapshots, versions, drift events or
proposals is one action that makes the call on both stores; `Compared` is the
verdict on the two answers. A run goes on while the answers are the same and stops
at the first that differs. `Hash` lets two bodies collide and ids address nothing,
because both happen to `insert_snapshot`. SQLite refuses to hold proposals, so
`queue` is the double's alone. `Page`, `SqlChain` and `DoubleChain` are the reads that
compute something, `SqlLatestDrifts` and `DoubleLatestDrift` what `latest_drift_event` may
answer. The history `again` keeps the events that were resolved a second time, which the
database ignores and the double takes over; both answer `Ok`. `tail_audit_log` is a read of
`AuditLog`.

### DesiredState, Mutations, JsonDiff, Render, Documents

A name, a port or a text is abstracted to what the code decides on: a hostname is
a tag, whether its labels are well-formed and whether it is longer than 253 bytes, a CIDR a
family and a prefix, a destination a kind and whether it renders. The body of a preset is a
string in the code; here it is the JSON document it spells, any one (`Document`), or `None`
when it spells none. A mutation is a record of its kind, the
version it expects and its payload. `Accepted` is the order of checks in
`apply_mutation`: version, capability gate, pre-conditions; `NewState` and `Changes`
follow its arms one by one, all thirteen variants.

A JSON document is a map from paths to nodes. `Diff` is `structural_diff` by
leaves. `ApplyDiff` is `apply_diff` in its two phases, with its failures: `Pruned` takes
away the subtrees that lose all of their leaves, those with the shortest pointer first, so
that array elements move up in between; `AllApplied` sets the other leaves in the order of
their pointers, each after `EnsureParent` when it is new. `StateJson` and `Config` in `Render` are the two
documents: enums are the tagged objects that serde writes (`HostJson`, `Tagged`), so that the
elements of `hostnames` and of the header lists are objects with leaves of their own, and the
`policy` of a handler is the whole document of its preset's body (`PolicyBody`). `Parses` is
what serde asks of a document before it is a state again, `StructureNeeds` and `PolicyNeeds` the modules that
`check_against_capability_set` wants.
`Documents` states what must hold between these for every state that mutations reach.

## 3. Runs that pass

| run | what it explores | what it shows |
|---|---|---|
| `apply_lock` | 2 daemons, 2 calls in one and 1 in the other, 4 pids, no pid reuse, no file lock (46 k states) | a live row owned until a DELETE is lost, the row kept while inside, refinement of `ApplyExclusion`, every waiting call answered, a stale row reaped |
| `applier` | 3 requests, 2 bodies, all four flows, no-op diff, all faults (1.2 M) | the early check still holds at the CAS, a linear history, applied implies stored and accepted, Caddy in sync unless a cause is known, audit rows true, refinement of `VersionRegister` |
| `applier_live` | 2 requests, 2 bodies, all flows, a structural diff, lost audit rows, all faults (58 k) | every request ends |
| `audit_log` | 2 writers, 3 rows, 3 milliseconds in 2 seconds, 2 random parts, clock set back, pages of 2 (0.9 M) | the chain verifies exactly when rows were committed in key order, paging is complete and repeats nothing |
| `drift_detector` | 3 contents, 2 concurrent deferrals, 3 detections, failing writes, clock steps, restarts (0.4 M) | events and resolutions are audited, a closed event's hash silences nothing (but for a dropped deferral) |
| `drift_live` | 2 contents, 2 managed parts, 1 deferral, 3 detections, restarts (0.2 M) | a lasting drift is reported again and again; until a deferral one drift makes one event |
| `startup` | 2 daemons, 2 data directories, 4 starts, kills at every gate, unanswered and late PUTs, takeovers, applies, restarts of Caddy, files removed by hand (0.5 M) | until a sentinel is replaced or dropped, it names every daemon past the ownership check; an installation knows its own sentinel; a flagged account has its password in the file; a daemon comes up with a complete bootstrap |
| `auth` | 1 user, 1 token, 2 passwords, 2 requests of every kind, 2 sessions, sessions that expire, failures at every query, restarts; beside it 2 logins from 2 addresses of one shard through the limiter (0.8 M) | a handler runs only for a credential that was unrevoked, enabled and allowed at one instant and unexpired at one, a password change ends the sessions of the old password, unless it ended half-way or a login verified the old one before, a back-off holds but for logins admitted before it |
| `documents` | 2 routes, 2 upstreams, 3 presets (a body with a leaf, `{}`, and one that is no JSON), 2 capability sets, sequences of up to 4 mutations with one of every kind and a value on either side of every decision (4 k states, each with all its documents) | references to upstreams and valid fields survive every sequence, reported changes are the changes made, the gates cover the checks of an apply, a state stops rendering only for the three things mutations leave unchecked, a change of the configuration shows in its diff (but for containers without leaves) and in the summary, a diff applied makes no other desired state than the new one (but where it cuts in front of an element that stays) |
| `store` | 3 ids, 3 bodies of which two collide, versions up to 2, 2 drift events, a queue of 2 proposals (5.1 M) | the double differs only by accepting what SQLite refuses; until then the reads of snapshots, applied version and drift events agree, but for how an event resolved twice was resolved; every stored snapshot has its parents |
| `daemon` | starts, outages of a Caddy that comes back with other modules, panics, a hung login, signals and restarts (0.2 M) | the exit code of a drain that was not forced tells whether a task panicked, back-off stays within its schedule and is forgotten by a reconnection, a shutdown ends (unless a login hangs in the purge), the cached capabilities catch up |

Properties that are proved for every value of the constants and that say little
more on a small instance are not run again: the type invariants, `MutualExclusion`,
`VersionsWonOnce`, `Anchored`, `RevocationIsFinal`, `FirstResolutionStays`,
`OneOpenProposal` and `SameContents` (section 6). `DaemonTypeOK` of `Daemon` and `TypeOK`
of `LoginLimiter` document the types of their variables.

Why the bounds are enough. Two daemons and three calls let a reaper of one
daemon meet a reaper of the other and a third call behind the mutex; four pids
give every crash a fresh id twice. Three requests are a winner, a loser and one
that comes between; two bodies make two snapshots of one version possible, which
is what `HistoryIsLinear` is about. Three audit rows are the least in which a row
can be overtaken and then be somebody's predecessor; two seconds with two
milliseconds each let two rows share `occurred_at`. Three detections are an event,
its successor and the one a reset repeats. Four starts let two
installations race, and one of them be killed, or leave a late PUT, and come back
while the other runs. Two requests of `Auth` are the change-password and whoever
overtakes it; two passwords the old and the new. The limiter's two addresses share
a shard, so that a hung login stops another address; two free failures, a cap of
three seconds and a purge at the fourth failure put the threshold, the doubling, the
cap and the hang within five failures. Three snapshots are a parent, a child and a rival, and
`MaxVersion` 2 lets two of them collide. Four mutations create, attach, change and
delete; `[Good]`, `[Good, Wild]` and `[Wild, Wild]` are the hostname lists that grow at the end
and change a variant in place, and three presets a body that shows, one that does not and one
that fails; after them every pair of entities of the instance has met. The reconnect loop
doubles a back-off of 1 to 2 and to the cap of 3, which is not a power of it.

`MaxMs`, `MaxRows` (`AuditLog`), `MaxRows` (`DriftDetector`), `MaxStarts`
(`Startup`), `MaxTime` and `MaxSessions` (`Auth`), `MaxTime` (`LoginLimiter`),
`MaxVersion`, `Times` and `MaxQueue` (`Store`) are the only bounds in guards.
`MaxVersion` of `Mutations` is the code's own, the overflow of a version, set to 4;
requests are one-shot in `Applier`, calls are reused without bound in `ApplyLock`,
requests in `Auth`, logins and starts in `Daemon`.

Symmetry is used where no liveness is checked. `Applier` may stop only when every
request has ended (`Finished`). The deadlock check is switched off in `auth`, `documents`
and `store` only: their clocks, versions and verdicts come to an end. In `Startup`
Caddy may always restart and in `Daemon` a daemon may always start again, so the check
says little there; `Daemon` states what must come to an end as liveness, and `Startup`
states no liveness: a gate either goes on or ends the process.

Each property of a passing run has a mutant in `PROJECT.json`: a definition
changed the way a plausible bug would change the code (the operators with an
underscore in their names, next to what they replace), under which TLC finds the
property violated.

## 4. Fairness

* `ApplyLock`: the steps a call makes by itself are weakly fair (futures are
  polled), taking the mutex strongly fair, since tokio's mutex queues its waiters
  first in first out; cleanup threads run. Nothing is assumed of crashes, faults
  or new requests.
* `Applier`: the same, and the answer of Caddy is one of three actions of which
  one is always possible, because `hyper_client.rs` puts a timeout on every call.
* `DriftDetector`: the loop goes on (an interval timer) and an apply ends; a
  skipped tick is a tick that does not happen, so only a mutex that *stays* free
  is sure to be found free. A deferral goes on; the reset waits for a tokio mutex.
* `Daemon`: the reconnect loop goes on (a timer), and of its health checks of a
  Caddy that is up again and again one succeeds (`SF` of `HealthOk`); the drain
  ends or its budget does. A login that hangs in the purge takes no step, and fairness does
  not help it: `ShutdownEnds` names `held`. That a login which is not hung ends is no property
  of the run: it would repeat its own fairness. Nothing is assumed of Caddy, logins, signals,
  ticks or panics.

`AuditLog`, `Startup`, `Auth`, `Store` and `Documents` state safety only.

## 5. Where documents and code part

One sentence has a run in which TLC finds it violated: `applier_restore`. "Desired
state re-applied" (`http_axum/drift_routes.rs:139`) and the comment in `rollback`
(`applier_caddy.rs:648-652`) say that rollback and reapply move the applied version;
they reload Caddy, and then the CAS refuses any version but the next (`RestoreAdvances`).

The others are behaviour that the models contain, without a run of its own.

Applier, lock and audit:

* "A stale `apply_locks` row from a crashed process is reaped on the next acquire"
  (`docs/todo/phase-07-apply-path.md`): a daemon restarted under its old pid, usual
  in a container, takes its own old row for a live holder's (`locks.rs:277`). With
  `PidReuse` and `FileLock` set, `RowIsOwned` of `ApplyLock` fails.
* "Snapshots are inserted by the mutation pipeline before `apply()` is called"
  (`storage_sqlite/snapshots.rs`): `POST /mutations` inserts after `apply()`, whose
  CAS wants the row (`mutations.rs:345-347`).
* "prev_hash is always derived from the true last row" (`sqlite_storage.rs`): the row
  with the greatest key is not the last row committed once a writer is overtaken or the
  clock is set back, and the chain forks (`IntactIffInOrder` says exactly when).
* "a single drift produces one row, not one row per tick"
  (`docs/todo/phase-08-drift-detection.md`): the reset of an older deferral throws away
  the hash of a newer event (`drift.rs:415`). `OneEventUntilDeferred` is what remains.

Storage:

* `insert_snapshot` of the trait "rejects" an id that exists; both stores accept the same
  snapshot again. The trait's CAS reads `MAX(config_version)`, the code reads the applied
  version (`Advances`).
* A snapshot that was stored and never applied takes its version for good: the insert
  compares with the greatest stored version, the CAS with the applied one
  (`sqlite_storage.rs:370`).
* `parent_chain` cut off at its limit keeps the oldest ancestors and loses the leaf it
  was asked for (`sqlite_storage.rs:707-774`), against `trait_def.rs:46-50`; hence the
  limit in `ReadsAgree`.
* The double has no check of hashes, parents or versions: `OnlyStricter` allows what tests on
  it cannot notice. Its `resolve` overwrites an earlier resolution (`in_memory.rs:297-312`)
  where the database keeps the first (`sqlite_storage.rs:1063-1100`). Both answer `Ok`, and
  `latest_drift_event` then tells them apart (`sqlite_storage.rs:1004-1032`,
  `in_memory.rs:287-290`): hence `again` in `ReadsAgree`. Its `tail_audit_log` takes the limit
  as it comes, the database's clamps it to 1 to 1000 and reads 0 as 100.

Sessions:

* "and revokes all other sessions for the user" (`auth_routes.rs:395-396`): the code revokes
  all of them, the one that made the request included (line 458, where the comment says so).
* The middleware's "secondary expiry check" (`auth_middleware.rs:166-178`) comes before the
  user is read: a request may be served after its session has expired, and for an account
  whose flag was cleared only then. `ServedWhenEntitled` says expiry apart for this reason.

Mutations, documents and diffs:

* "This is the inverse of `structural_diff`: for any non-conflicting `(before, after)` pair,
  `apply_diff(before, structural_diff(before, after)) == after`" (`diff.rs:162-165`). It is not.
  It may fail: a missing parent is created as an object although the comment says that an
  all-digit segment means an array, an empty container has no leaf, two removals at the end of
  one array are at odds. And it may make a desired state that is not the new one: from the
  hostnames `[Exact a, Wildcard c]` to `[Wildcard d, Wildcard c]`, the one leaf of
  `/hostnames/0` goes and `0/Wildcard` comes. The removal of `/hostnames/0` is a `Vec::remove`
  that moves the second element to its place (`diff.rs:549-555`), and setting `0/Wildcard`
  then overwrites `c` with `d`: the result is `[Wildcard d]`, a good state and a wrong one.
  Changing one kind of destination or hostname into another in front of an element that stays
  is enough. `DiffNeverMisleads` is what remains: unless an element is cut out in front of one
  that stays (`CutsInFront`), a result that is a desired state has the document of the new
  one, node by node. No flow of the daemon calls `apply_diff` yet.
* Drift is blind to empty containers for the same reason: turning on-demand TLS on without an
  ask URL adds `{}`, and so does attaching a preset whose body is `{}`, as presets in the
  repository's own tests are (`mutation/apply.rs:741`, `877`). `ConfigChangesShow` names both.
* In `render.rs`, `build_handler` of a redirect leaves out policies and headers (the comment
  at 314-316 has them), `build_matcher` renders hosts and paths only, and the global section
  is not rendered. `ConfigChangesShow` is about what *is* rendered.
* Three things that the renderer refuses are checked by no mutation: the destination of an
  upstream (`CreateUpstream`, `UpdateUpstream` and an import all take any), an attachment that
  comes with a route (create, update, import), and the body of a preset, which `AttachPolicy`
  and `UpgradePolicy` do not read (`InvalidPresetBody`, `render.rs:337-343`).
  `OnlyUncheckedFieldsFail` says that nothing else makes a state unrenderable.
* `POST /mutations`: without capabilities in the cache the fallback called permissive is
  the restrictive one (`mutations.rs:276-283`); validation errors are answered with 500.

Daemon:

* "Maximum wall-clock budget between SIGINT/SIGTERM receipt and process exit"
  (`shutdown.rs:14`): after a forced drain the drop of the runtime waits for a thread that
  hangs in the limiter's purge (`rate_limit.rs:79-85`); hence `held # {}` in `ShutdownEnds`.
  Nothing in the code prevents the hang: after it, logins from addresses of that shard hang too,
  each on a thread of the runtime, until the process is killed.
* A forced drain exits clean even when a task has panicked (`run.rs:494-518`), and a crash of
  the HTTP server is only logged; `PanicsAreReported` is about the other drains.
* The first retry of the reconnect loop comes after twice the initial back-off, since it
  doubles before it waits (`reconnect.rs:94`). A probe that fails at a reconnection, or an
  outage between two health checks, leaves stale capabilities until the next outage (`missed`).
* A failure recorded with the clock of its arrival can move `next_allowed` backwards
  (`auth_routes.rs:221`, `rate_limit.rs:74`).

The startup sequence parts from `docs/adr/0015` ("The write must be conditional",
"Detection must not race", "The sentinel must survive Caddy reloads") and from
`docs/phases/phase-09-http-api.md:40` (a bootstrap that is "idempotent and
atomically safe across restarts"): two installations that both find no sentinel
both write one, any apply drops it, and of a bootstrap that is cut off there
remains a credentials file that makes every later start fail until it is removed
(`WriteFile` needs `creds = 0`), an account without its flag or its audit row, or,
when `set_must_change_pw` fails, an account whose only password has been deleted
(`UserFails`). The properties of `startup` say what holds all the same; these cases
are the reason for `displaced` and for `mustChange` in them.

Further behaviour the models contain and that a reader should know of, without a
run of its own: an apply that fails at rendering, verification or the CAS leaves
no audit row (`PreflightFails`, `VerifyFails`, `CasFails` write none), and a
mutation that conflicts leaves none either (`RecordApply`); a DELETE of the lock row
that is lost while its process lives refuses every later apply (`lost`); a
deferral dropped between its UPDATE and the reset silences the drift until the
restart (`"dropped"`); a change under a managed path while a drift lasts makes a
second event (`CaddyManages`); only a deferral resolves an event, since `reapply` never
succeeds and `adopt` answers 501; a crash between the two writes of `record` makes a
second audit row after the restart; two concurrent deferrals both write a
resolution row; a snapshot that is stored and not applied is reported as drift.

## 6. Proofs

The proofs hold for every value of the constants under the assumptions named in
the modules. `ApplyLockProofs` assumes besides that process ids are not reused
(`~PidReuse`), which is what the code relies on (section 5).
`OneEventEach` assumes that no write fails and the clock is not set back
(`~MayFail`, `~ClockSteps`).

* **ApplyLock.** `MutualExclusion` is not inductive: nothing in it stops a reaper
  from removing a live row. `Inv` adds who may stand behind the row: an owner (a
  call inside or releasing, or a pending cleanup) has the row under its own pid;
  a pending cleanup excludes every other owner, because the mutex is free by then
  and only the row keeps others out; and a call about to reap names a dead
  process. From it follow `Exclusive`, `RowKept`, `RowAlwaysOwned` and the
  refinement `LockImplementsExclusion`.
* **Applier.** The invariant says that a call between the check and the CAS is
  inside, so that it is alone, and that the pointer is then what it expects;
  together with bounds on what has been won it gives `Checked`, `WonOnce`,
  `Linear`, `Accepted`, `Synced`, `Truthful` and the refinement
  `ApplierImplementsRegister`.
* **AuditLog.** Ids are never repeated among rows and drafts, so the order on
  `(at, id)` is a strict total order on the rows and the hash identifies its row:
  `ChainIsAnchored`, and `ChainIsOrder`, the equivalence of verification and
  commit order for logs of any length. For paging (`PagesAreExact`), `WalkInv` says that
  every id lies below the cursor a walk starts with, that what a walk has been given lies at
  or above its cursor, without repetition, and that of the rows there were when it started
  nothing at or above the cursor is missing.
* **DriftDetector.** An event points to its own detected row, a resolved event to
  a deferral that wrote its row (`AuditedFirst`); a set hash has an open event or
  a deferral that is about to reset, or was dropped (`NoDriftSilenced`). The guard
  around the hash is what makes the second inductive. `OneEventEach` rests on `OneInv`:
  until a deferral begins, every event is open and the hash the loop knows, in memory or
  about to be recovered, is that of the last event.
* **Startup.** The lock gives each data directory to one daemon (`OneHolder`), and a
  start's number is nobody else's. An id is saved before it is shown to Caddy and
  belongs to the installation that drew it (`IdsAtHome`, `IdSaved`), so a sentinel,
  landed or late, is recognised (`Recognised`). A takeover has seen a sentinel
  that is there or has been dropped (`TakesSomething`); with it `Marked` is inductive,
  and two daemons that both find their id are of one installation (`Sole`). For the
  bootstrap, each gate knows what its start has left in the directory
  (`KnowsAccount`) and nobody else has its password (`PasswordFresh`), from which
  `CredentialsOpen` and `Complete` follow.

* **Auth.** `Entitled` says that a handler runs for a credential that was unrevoked, of an
  enabled account and allowed all at one instant, although these are read in separate queries,
  and unexpired at an instant, which is when the middleware judged it. A request of which the
  first does not hold yet must still fail (`Gated`, `SessionDoomed`, `TokenDoomed`): its session
  or token has been revoked, its account is disabled, or its account has had a password to
  change all along. The first two are for good
  (`RevokedForGood`, `Onward`); the third holds because a session is revoked only when its
  user has no password to change (`FlagClear`), so no session is lost just before the flag
  is cleared. For `OldSessionsEnd`, what excuses a session opened under another password
  either stays or is replaced by its revocation, step by step.
* **Logins.** `BackoffHolds` bounds the failures that are counted against a back-off that has
  begun. What is inductive is finer: while a back-off is in force, the counted failures and the
  logins still under way for that address are together fewer than the slots, because the login
  whose failure began the back-off has ended, and nobody arrives until it is over.
* **Mutations.** `NoDanglingReference` (of upstreams; presets may be missing) and `ValidRoutes` go through the variants one by one;
  the work is in the maps: which entries each of them keeps, replaces or removes.
  `GateSuffices` needs that a route brings no need that the mutation that brought it was not
  checked for, also when a patch meets the fields it leaves alone. `RendersIfChecked` follows
  from the three: known upstreams and valid hostnames leave only what nobody checks, that is a
  destination, an attachment and the body of a preset.
  `DiffsAreWhole` replays and undoes the reported changes; for an import it is about lists of
  any length, changed one entry at a time.
* **Documents.** `ConfigShows` puts a document together of smaller ones (`Composed`): a leaf of
  the whole is a leaf of a part under its key or position, so what is true of the leaves of the
  parts, and of where two documents differ, is carried up from a header to the configuration.
  `Told` (documents with the same leaves are the same) holds for every object whose optional
  members have a leaf whenever they are there. Two need not have one. On-demand TLS is an
  exception in the property by its switch. The body of a preset may be any document: `ToldBut`
  allows two documents to differ without differing leaves where the kinds of their nodes differ
  under a path pattern (`KindsDiffer`), and is carried up from the handler to the configuration
  like `Told`, the pattern growing by a segment at each level until it is `PolicyPattern`.
  `Unmatched` shows that the ignore list hides no leaf the renderer writes, whatever the body of
  a preset holds, `Within` where leaves can differ. `PositionsAreNumerals`, the theorem's
  hypothesis, is that there is a segment for every array index and that no two share one; the
  run has four. What a value looks like as text (`ToString`) is not used: all that counts is
  which leaves are equal.
* **Store.** `WholeHistory` is inductive with the greatest version: a new snapshot is above
  all others, so its parent is below it and no version is missing. `Agree` relates the two
  stores field by field; with it, one step per call gives `DoubleIsLaxer` and
  `DoubleHasTheSame`. `OneOpenEach` and `ResolvedOnce` are about the double's queue and the
  database's events. For `DoubleReadsTheSame`, `Readable` says that ids, versions and the times
  of events have the order in which the database's queries put them, which is the order in
  which the double appended them.
* **Daemon.** `Reported` is inductive as `Settled`: before the runtime is dropped no exit code
  is known but that of a failed start, and after a drain that was not forced every task has
  ended, so that none can panic any more. `BackoffBounded` needs no more than
  `Initial <= Cap`.

The library's theorems of induction take an operator, which no prover here can instantiate.
Where a proof needs induction on the length of a list (`PutAllIs`) it takes the least
counterexample instead (`LeastNatural`).

Only model-checked: all liveness (fairness and ENABLED are outside the prover, that is
`EveryCallAnswered`, `StaleRowReaped`, `EveryRequestEnds`, `LastingDriftReported`,
`ShutdownEnds`, `CapabilitiesCatchUp`), the violation run, and `DiffNeverMisleads`, which
follows a document of nested lists through the phases of `apply_diff`. Every other invariant
and action property that a run checks is stated by a theorem.

## 7. Not modelled

`PROJECT.json` has a status for every component. Left out, and why:

* TLS observer: `run.rs` wires none, so no state of the program is reachable in it.
* Secrets vault: key files and ciphers that no modelled flow uses.
* Redactor and vocabulary of the audit log: a table of secret paths and names, which a model
  would only restate. It follows that the redaction of a diff before it is stored, and the
  supplemental `drift.defer` row written after a resolution, are not in `DriftDetector`.
* Configuration, command line, logging, repository tools, the web, macOS and FFI scaffolds:
  no state that a protocol depends on.
* The bytes of canonical JSON: a document is a map here, which has no order of keys, and an id
  stands for the hash of its document.
* Power loss: with `synchronous=NORMAL` it may undo the last commits; which, is up to SQLite
  and the disk. A crash is a crash of the process in every module.
* A transaction left open on a pooled connection: `BEGIN IMMEDIATE` is issued by hand
  (`sqlite_storage.rs:317-330`, `1128-1163`, `locks.rs:344`), and an early return or a
  dropped future gives the connection back inside its transaction. What the pool does with it
  is in a library that is not part of this repository; every model takes a transaction as one
  step.
* Roles, permissions and the throttle of `last_seen_at` in `Auth`; the routing layers of the
  HTTP server; `unknown_extensions`, which no mutation sets; the audit rows of the double.

Of Caddy only what the admin API shows is modelled.

## 8. What could come next

1. `PooledTransaction`: connections with an open transaction, once the behaviour of the pool
   on a dropped future is pinned down, and on top of it the waits of every writer.
2. Power loss as an action of `Applier` and `AuditLog` that undoes a suffix of the commits.
3. `apply_diff`: a proof of `DiffNeverMisleads` for documents whose arrays hold objects, and of
   which pairs of states it succeeds and rebuilds the new one (no new list, no emptied map, no
   shortened list).
4. The redactor, with the property that what `redact_diff` documents is what its callers pass.
