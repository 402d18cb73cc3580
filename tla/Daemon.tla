------------------------------- MODULE Daemon -------------------------------
(***************************************************************************)
(* The daemon process: the startup sequence of run_with_shutdown and what  *)
(* it spawns, the reconnect loop that keeps the cached capabilities of     *)
(* Caddy up to date, the logins the HTTP server runs (module LoginLimiter) *)
(* and the shutdown that drains all of it.                                 *)
(*                                                                         *)
(* Modules Startup, DriftDetector and ApplyLock model what the steps of    *)
(* the startup and the other tasks do; here a task waits or is busy.  Names *)
(* that every module has start with Daemon, so that DaemonProofs can extend *)
(* Startup with this module.                                               *)
(***************************************************************************)
EXTENDS Naturals

CONSTANTS
    Worker,         \* the periodic tasks among integrity, drift and loop
    Modules,        \* sets of modules a Caddy may be built with
    None,           \* no modules, no exit code, no address
    Initial, Cap,   \* INITIAL_BACKOFF and MAX_BACKOFF
    Addr, Shard, Login, FreeFailures, BackoffCap, PurgeEvery, StaleAfter, MaxTime

ASSUME DaemonAssumption ==
    /\ {Initial, Cap} \subseteq Nat /\ Initial <= Cap
    /\ None \notin {"clean", "startup", "panic"}

VARIABLES
    stage,          \* where run_with_shutdown is
    task,           \* the JoinSet: every task and what it does
    triggered,      \* the shutdown channel
    code,           \* the exit code, once it is known
    forced,         \* the drain budget ran out
    ready,          \* ready_since_unix_ms is set
    proxy,          \* Caddy: is it up, and with which modules
    link,           \* state of reconnect_loop
    backoff,        \* backoff of reconnect_loop
    cache,          \* CapabilityCache
    stored,         \* the current row of capability_probe_results
    missed,         \* history: reconnect_loop has lost its chance to probe
    now, bucket, held, login, inWindow

L == INSTANCE LoginLimiter

process == <<stage, triggered, code, forced, ready>>
monitor == <<link, backoff, cache, stored, missed>>
logins == <<now, bucket, held, login, inWindow>>
daemonVars == <<process, task, proxy, monitor, logins>>

Task == Worker \cup {"reconnect", "http"}
Ended == {"none", "done", "panicked", "aborted"}
Codes == {"clean", "startup", "panic"}

DaemonTypeOK ==
    /\ stage \in {"probe", "sentinel", "bootstrap", "bind", "ready", "serving",
                  "draining", "dropping", "exited"}
    /\ task \in [Task -> Ended \cup {"waiting", "busy", "probe", "store"}]
    /\ {triggered, forced, ready, missed} \subseteq BOOLEAN
    /\ code \in Codes \cup {None}
    /\ proxy \in [up : BOOLEAN, modules : Modules]
    /\ link \in {"Reachable", "Unreachable"}
    /\ backoff \in Initial..Cap
    /\ {cache, stored} \subseteq Modules \cup {None}
    /\ L!TypeOK

Spawned(tasks) == [t \in Task |-> IF t \in tasks THEN "waiting" ELSE task[t]]

DaemonInit ==
    /\ stage = "probe"
    /\ task = [t \in Task |-> IF t = "integrity" THEN "waiting" ELSE "none"]
    /\ triggered = FALSE /\ forced = FALSE /\ ready = FALSE /\ missed = FALSE
    /\ code = None /\ cache = None /\ stored = None
    /\ proxy \in [up : BOOLEAN, modules : Modules]
    /\ link = "Reachable" /\ backoff = Initial
    /\ L!Init

-----------------------------------------------------------------------------
(* Startup.                                                                *)

\* Mutant: only an empty cache is filled.
Probed_Once ==
    /\ cache' = IF cache = None THEN proxy.modules ELSE cache
    /\ missed' = FALSE

\* run_initial_probe: what Caddy has loaded goes into the cache.
Probed ==
    /\ cache' = proxy.modules
    /\ missed' = FALSE

\* The probe of the startup; the row is written if it is news.
Probe ==
    /\ stage = "probe" /\ proxy.up
    /\ Probed
    /\ stored' = proxy.modules
    /\ stage' = "sentinel"
    /\ UNCHANGED <<task, triggered, code, forced, ready, proxy, link, backoff,
                   logins>>

\* check_sentinel passes and the reconnect loop is spawned.
Sentinel ==
    /\ stage = "sentinel"
    /\ stage' = "bootstrap"
    /\ task' = Spawned({"reconnect"})
    /\ UNCHANGED <<triggered, code, forced, ready, proxy, monitor, logins>>

\* The account exists and the drift detector is spawned.
Bootstrap ==
    /\ stage = "bootstrap"
    /\ stage' = "bind"
    /\ task' = Spawned({"drift"} \cap Worker)
    /\ UNCHANGED <<triggered, code, forced, ready, proxy, monitor, logins>>

BindAndSpawnHttp ==
    /\ stage = "bind"
    /\ stage' = "ready"
    /\ task' = Spawned({"http"})
    /\ UNCHANGED <<triggered, code, forced, ready, proxy, monitor, logins>>

MarkReady ==
    /\ stage = "ready"
    /\ stage' = "serving"
    /\ ready' = TRUE
    /\ task' = Spawned({"loop"} \cap Worker)
    /\ UNCHANGED <<triggered, code, forced, proxy, monitor, logins>>

\* A gate fails: run_with_shutdown returns, and the JoinSet with it.
StartupFails ==
    /\ stage \in {"probe", "sentinel", "bootstrap", "bind"}
    /\ stage' = "dropping"
    /\ code' = "startup"
    /\ UNCHANGED <<task, triggered, forced, ready, proxy, monitor, logins>>

-----------------------------------------------------------------------------
(* Tasks.                                                                  *)

Become(t, status) == task' = [task EXCEPT ![t] = status]

\* The tasks whose select looks at the timer and at the shutdown in any order; the
\* others look at the shutdown first.
Unbiased == {"integrity", "reconnect"}

\* A tick, which may win against a shutdown that is under way.
Tick(t) ==
    /\ task[t] = "waiting" /\ (triggered => t \in Unbiased)
    /\ Become(t, "busy")
    /\ UNCHANGED <<process, proxy, monitor, logins>>

Tock(t) ==
    /\ task[t] = "busy"
    /\ Become(t, "waiting")
    /\ UNCHANGED <<process, proxy, monitor, logins>>

Stop(t) ==
    /\ task[t] = "waiting" /\ triggered
    /\ Become(t, "done")
    /\ UNCHANGED <<process, proxy, monitor, logins>>

Panic(t) ==
    /\ task[t] \in {"busy", "probe", "store"}
    /\ Become(t, "panicked")
    /\ UNCHANGED <<process, proxy, monitor, logins>>

\* Graceful shutdown waits for the requests under way; logins stand for them.
StopHttp ==
    /\ task["http"] = "waiting" /\ triggered
    /\ \A l \in Login : login[l] = L!Idle
    /\ Become("http", "done")
    /\ UNCHANGED <<process, proxy, monitor, logins>>

\* AxumServer::run returns an error, which is logged.
HttpCrashes ==
    /\ task["http"] = "waiting" /\ ~triggered
    /\ Become("http", "done")
    /\ UNCHANGED <<process, proxy, monitor, logins>>

-----------------------------------------------------------------------------
(* reconnect_loop.                                                         *)

Doubled(b) == IF 2 * b < Cap THEN 2 * b ELSE Cap

\* health_check fails: Caddy is down, or its answer is lost.
HealthFails ==
    /\ task["reconnect"] = "busy"
    /\ link' = "Unreachable"
    /\ backoff' = Doubled(backoff)
    /\ Become("reconnect", "waiting")
    /\ UNCHANGED <<process, proxy, cache, stored, missed, logins>>

HealthOk ==
    /\ task["reconnect"] = "busy" /\ proxy.up
    /\ Become("reconnect", IF link = "Unreachable" THEN "probe" ELSE "waiting")
    /\ UNCHANGED <<process, proxy, monitor, logins>>

\* Mutant: a probe that fails leaves the back-off where it was.
Reconnected_KeepsBackoff(status) ==
    /\ link' = "Reachable" /\ backoff' = IF status = "store" THEN Initial ELSE backoff
    /\ Become("reconnect", status)

\* Whatever comes of the probe, the loop is connected again.
Reconnected(status) ==
    /\ link' = "Reachable" /\ backoff' = Initial
    /\ Become("reconnect", status)

ReProbe ==
    /\ task["reconnect"] = "probe" /\ proxy.up
    /\ Probed
    /\ Reconnected("store")
    /\ UNCHANGED <<process, proxy, stored, logins>>

\* get_loaded_modules fails: logged, and no other probe until the next outage.
ReProbeFails ==
    /\ task["reconnect"] = "probe"
    /\ missed' = TRUE
    /\ Reconnected("waiting")
    /\ UNCHANGED <<process, proxy, cache, stored, logins>>

\* record_current, unless the row says so already or the database fails.
StoreProbe ==
    /\ task["reconnect"] = "store"
    /\ stored' \in {cache, stored}
    /\ Become("reconnect", "waiting")
    /\ UNCHANGED <<process, proxy, link, backoff, cache, missed, logins>>

\* Caddy stops, or starts, perhaps another build.  An outage between two health
\* checks goes unnoticed.
CaddyStops ==
    /\ proxy.up
    /\ proxy' = [proxy EXCEPT !.up = FALSE]
    /\ UNCHANGED <<process, task, monitor, logins>>

CaddyStarts ==
    /\ ~proxy.up
    /\ \E m \in Modules : proxy' = [up |-> TRUE, modules |-> m]
    /\ missed' = (missed \/ (link = "Reachable" /\ proxy'.modules # proxy.modules))
    /\ UNCHANGED <<process, task, link, backoff, cache, stored, logins>>

-----------------------------------------------------------------------------
(* Logins: those of LoginLimiter while the HTTP server runs.               *)

Arrive ==
    /\ task["http"] = "waiting" /\ ~triggered
    /\ \E l \in Login, a \in Addr : L!Arrive(l, a)
    /\ UNCHANGED <<process, task, proxy, monitor>>

RecordLogin(l) ==
    /\ L!Record(l)
    /\ UNCHANGED <<process, task, proxy, monitor>>

AbortLogin(l) ==
    /\ L!Abort(l)
    /\ UNCHANGED <<process, task, proxy, monitor>>

ClockTicks ==
    /\ L!Tick
    /\ UNCHANGED <<process, task, proxy, monitor>>

-----------------------------------------------------------------------------
(* Shutdown.                                                               *)

\* SIGINT or SIGTERM; or the handlers cannot be installed, and the daemon drains
\* its tasks before it reports that.
Signal ==
    /\ stage = "serving"
    /\ stage' = "draining"
    /\ triggered' = TRUE
    /\ code' \in {None, "startup"}
    /\ UNCHANGED <<forced, ready, task, proxy, monitor, logins>>

Panicked == \E t \in Task : task[t] = "panicked"

\* Mutant: only the result of the last task to be joined counts.
Outcome_LastJoined ==
    IF code # None THEN code ELSE IF task["http"] = "panicked" THEN "panic" ELSE "clean"

\* The exit code after a drain that joined every task.
Outcome == IF code # None THEN code ELSE IF Panicked THEN "panic" ELSE "clean"

Drained ==
    /\ stage = "draining"
    /\ \A t \in Task : task[t] \in Ended
    /\ stage' = "dropping"
    /\ code' = Outcome
    /\ UNCHANGED <<task, triggered, forced, ready, proxy, monitor, logins>>

\* Mutant: the drain has no budget.
OverBudget_Never == FALSE

\* DRAIN_BUDGET may run out as long as a task is left.
OverBudget == \E t \in Task : task[t] \notin Ended

\* DRAIN_BUDGET is over: the survivors are aborted, and what the joined ones
\* returned is forgotten.
DrainTimesOut ==
    /\ stage = "draining" /\ OverBudget
    /\ stage' = "dropping"
    /\ forced' = TRUE
    /\ code' = IF code # None THEN code ELSE "clean"
    /\ task' = [t \in Task |-> IF task[t] \in Ended THEN task[t] ELSE "aborted"]
    /\ UNCHANGED <<triggered, ready, proxy, monitor, logins>>

\* Dropping the runtime waits for every thread to come back to it.
ThreadsYield == held = {}

Exit ==
    /\ stage = "dropping" /\ ThreadsYield
    /\ stage' = "exited"
    /\ task' = [t \in Task |-> IF task[t] \in Ended THEN task[t] ELSE "aborted"]
    /\ L!Restart
    /\ UNCHANGED <<triggered, code, forced, ready, proxy, monitor>>

Start ==
    /\ stage = "exited"
    /\ stage' = "probe"
    /\ task' = [t \in Task |-> IF t = "integrity" THEN "waiting" ELSE "none"]
    /\ triggered' = FALSE /\ forced' = FALSE /\ ready' = FALSE /\ missed' = FALSE
    /\ code' = None /\ cache' = None
    /\ link' = "Reachable" /\ backoff' = Initial
    /\ UNCHANGED <<stored, proxy, logins>>

-----------------------------------------------------------------------------

Reconnect ==
    \/ Tick("reconnect") \/ Stop("reconnect")
    \/ HealthFails \/ HealthOk \/ ReProbe \/ ReProbeFails \/ StoreProbe

Shutdown == Drained \/ DrainTimesOut \/ Exit

Work(t) == Tick(t) \/ Tock(t) \/ Stop(t)

DaemonNext ==
    \/ Probe \/ Sentinel \/ Bootstrap \/ BindAndSpawnHttp \/ MarkReady \/ StartupFails
    \/ \E t \in Worker : Work(t)
    \/ \E t \in Worker \cup {"reconnect"} : Panic(t)
    \/ StopHttp \/ HttpCrashes
    \/ Reconnect
    \/ CaddyStops \/ CaddyStarts
    \/ Arrive \/ ClockTicks
    \/ \E l \in Login : RecordLogin(l) \/ AbortLogin(l)
    \/ Signal \/ Shutdown \/ Start

\* The scheduler runs the reconnect loop and its timers fire; the drain ends, and
\* so does the drop of the runtime if it can.  Of the health checks of a Caddy that
\* stays up, one is answered at last.
Fairness ==
    /\ WF_daemonVars(Reconnect) /\ SF_daemonVars(HealthOk)
    /\ WF_daemonVars(Shutdown)

DaemonSpec == DaemonInit /\ [][DaemonNext]_daemonVars
FairSpec == DaemonSpec /\ Fairness

-----------------------------------------------------------------------------
(* Properties.                                                             *)

\* A panic in a task is what the exit code says if and only if there was one,
\* unless the drain was forced or the signal handlers were refused
\* (run.rs:211-229, drain_tasks).
PanicsAreReported ==
    (stage = "exited" /\ ~forced /\ code \in {"clean", "panic"})
        => (code = "panic" <=> Panicked)

\* A retry after an outage waits twice the first back-off at least and the cap at
\* most, and a connected loop has forgotten the outages before (reconnect.rs:51-99).
BackoffSchedule ==
    IF link = "Reachable" THEN backoff = Initial ELSE backoff \in Doubled(Initial)..Cap

\* A shutdown ends, unless a login hangs in the limiter's purge: dropping the
\* runtime waits for its thread (run.rs:221-229, main.rs:112-119).
ShutdownEnds == stage = "draining" ~> (stage = "exited" \/ held # {})

Stale == stage = "serving" /\ proxy.up /\ cache # proxy.modules

\* A daemon that serves with the capabilities of an earlier Caddy catches up once
\* Caddy stays up, unless the outage went unnoticed or the probe at the
\* reconnection failed: nothing else looks again (reconnect.rs:70-98).
CapabilitiesCatchUp ==
    Stale ~> \/ cache = proxy.modules \/ ~proxy.up \/ missed
             \/ stage # "serving" \/ task["reconnect"] = "panicked"

=============================================================================
