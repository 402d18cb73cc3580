--------------------------- MODULE DriftDetector ---------------------------
(***************************************************************************)
(* The drift detector: the loop that compares Caddy's configuration with   *)
(* the latest snapshot and records what it finds, and the requests that    *)
(* defer a drift event, concurrently, with applies and edits by others.    *)
(*                                                                         *)
(* What Caddy serves has a content, which may differ from the snapshot,    *)
(* and a part that Caddy manages itself, which the comparison ignores; its *)
(* hash covers both and is identified with it.  The correlation id of an   *)
(* event is the place of its config.drift-detected row among the rows of   *)
(* that kind.                                                              *)
(***************************************************************************)
EXTENDS Naturals, Sequences

CONSTANTS
    Config,         \* contents of a configuration
    Managed,        \* what Caddy may put under the paths it manages
    None,           \* no hash, no snapshot, nothing fetched
    Defer,          \* requests to POST /drift/{id}/defer
    ClockSteps,     \* may the wall clock be set back?
    MayFail,        \* do Caddy and the database fail?
    MaxRows         \* bound on the config.drift-detected rows

ASSUME DriftAssumption ==
    /\ None \notin Config
    /\ None \notin [content : Config, managed : Managed]
    /\ {ClockSteps, MayFail} \subseteq BOOLEAN
    /\ MaxRows \in Nat

VARIABLES
    running,        \* what Caddy serves
    desired,        \* latest_desired_state: the snapshot with the top version
    applying,       \* does an apply hold the apply mutex?
    tick,           \* what the loop does next
    seen,           \* the configuration its tick has fetched
    hash,           \* last_running_hash
    detected,       \* the config.drift-detected rows: what was running
    events,         \* table drift_events
    pc,             \* what each deferral does next
    target,         \* the event it resolves
    closed          \* the deferrals that wrote a config.drift-resolved row

caddy == <<running, desired, applying>>
loop == <<tick, seen>>
deferral == <<pc, target, closed>>
vars == <<caddy, loop, hash, detected, events, deferral>>

Running == [content : Config, managed : Managed]

Event == [hash : Running, row : Nat, open : BOOLEAN]

TypeOK ==
    /\ running \in Running /\ desired \in Config \cup {None}
    /\ applying \in BOOLEAN /\ (applying => desired # None)
    /\ tick \in {"wait", "fetch", "compare", "record", "insert", "set"}
    /\ seen \in Running \cup {None} /\ hash \in Running \cup {None}
    /\ tick \in {"compare", "record", "insert", "set"} => seen # None
    /\ detected \in Seq(Running)
    /\ events \in Seq(Event)
    /\ pc \in [Defer -> {"idle", "audit", "update", "reset", "done", "dropped"}]
    /\ target \in [Defer -> Nat]
    /\ closed \in SUBSET Defer

Init ==
    /\ running \in Running /\ desired = None /\ applying = FALSE
    /\ tick = "wait" /\ seen = None /\ hash = None
    /\ detected = <<>> /\ events = <<>>
    /\ pc = [r \in Defer |-> "idle"] /\ target = [r \in Defer |-> 0]
    /\ closed = {}

-----------------------------------------------------------------------------
(* Applies and edits.                                                      *)

\* A snapshot is inserted; its apply, if there is one, comes later.
Store ==
    /\ \E c \in Config : c # desired /\ desired' = c
    /\ UNCHANGED <<running, applying, loop, hash, detected, events, deferral>>

\* tick_once keeps its guard while it fetches and compares.
MutexFree == ~applying /\ tick \notin {"fetch", "compare"}

BeginApply ==
    /\ desired # None /\ MutexFree
    /\ applying' = TRUE
    /\ UNCHANGED <<running, desired, loop, hash, detected, events, deferral>>

\* The apply loads the snapshot (the latest one, here), or fails, and ends.
EndApply ==
    /\ applying /\ applying' = FALSE
    /\ running' \in {running} \cup [content : {desired}, managed : Managed]
    /\ UNCHANGED <<desired, loop, hash, detected, events, deferral>>

OutsideEdit ==
    /\ \E c \in Config : /\ c # running.content
                        /\ running' = [running EXCEPT !.content = c]
    /\ UNCHANGED <<desired, applying, loop, hash, detected, events, deferral>>

\* Caddy renews a certificate, checks an upstream, ...
CaddyManages ==
    /\ \E m \in Managed : /\ m # running.managed
                         /\ running' = [running EXCEPT !.managed = m]
    /\ UNCHANGED <<desired, applying, loop, hash, detected, events, deferral>>

-----------------------------------------------------------------------------
(* The loop.                                                               *)

\* The loop waits for its next tick.
Sleep == tick' = "wait" /\ seen' = None

\* try_lock; while an apply holds the mutex the tick is skipped.
BeginTick ==
    /\ tick = "wait" /\ MutexFree /\ Len(detected) < MaxRows
    /\ tick' = "fetch"
    /\ UNCHANGED <<caddy, seen, hash, detected, events, deferral>>

\* GET /config/
Fetch ==
    /\ tick = "fetch"
    /\ seen' = running /\ tick' = "compare"
    /\ UNCHANGED <<caddy, hash, detected, events, deferral>>

TickFails ==
    /\ MayFail /\ tick \in {"fetch", "compare"}
    /\ Sleep
    /\ UNCHANGED <<caddy, hash, detected, events, deferral>>

\* No snapshot, or no difference outside the paths Caddy manages.
Clean == desired \in {None, seen.content}

TickClean ==
    /\ tick = "compare" /\ Clean
    /\ Sleep
    /\ UNCHANGED <<caddy, hash, detected, events, deferral>>

\* The event is made, and the apply mutex released, before it is recorded.
TickDrifted ==
    /\ tick = "compare" /\ ~Clean
    /\ tick' = "record"
    /\ UNCHANGED <<caddy, seen, hash, detected, events, deferral>>

Deduplicate ==
    /\ tick = "record" /\ hash = seen
    /\ Sleep
    /\ UNCHANGED <<caddy, hash, detected, events, deferral>>

\* Mutant: the lock on last_running_hash is given up after the comparison.
GuardHeld_Never == FALSE

\* record() holds the lock on last_running_hash until it has set it.
GuardHeld == tick \in {"insert", "set"}

WriteDetected ==
    /\ tick = "record" /\ hash # seen
    /\ detected' = Append(detected, seen)
    /\ tick' = "insert"
    /\ UNCHANGED <<caddy, seen, hash, events, deferral>>

InsertRow ==
    /\ tick = "insert"
    /\ events' = Append(events,
                        [hash |-> seen, row |-> Len(detected), open |-> TRUE])
    /\ tick' = "set"
    /\ UNCHANGED <<caddy, seen, hash, detected, deferral>>

\* Either write fails: an error, and the hash stays what it was.
RecordFails ==
    /\ MayFail
    /\ \/ tick = "record" /\ hash # seen
       \/ tick = "insert"
    /\ Sleep
    /\ UNCHANGED <<caddy, hash, detected, events, deferral>>

SetHash ==
    /\ tick = "set"
    /\ hash' = seen
    /\ Sleep
    /\ UNCHANGED <<caddy, detected, events, deferral>>

-----------------------------------------------------------------------------
(* Deferrals.                                                              *)

Goto(r, l) == pc' = [pc EXCEPT ![r] = l]

\* WHERE resolved_at IS NULL ORDER BY detected_at DESC LIMIT 1: the last one
\* recorded, unless the clock was set back.
LatestOpen ==
    {i \in 1..Len(events) :
        /\ events[i].open
        /\ ClockSteps \/ \A j \in i + 1..Len(events) : ~events[j].open}

ReadOpen(r) ==
    /\ pc[r] = "idle"
    /\ \E i \in LatestOpen : target' = [target EXCEPT ![r] = i]
    /\ Goto(r, "audit")
    /\ UNCHANGED <<caddy, loop, hash, detected, events, closed>>

\* Another event, or none, is the latest open one: 404.
NotFound(r) ==
    /\ pc[r] = "idle" /\ Goto(r, "done")
    /\ UNCHANGED <<caddy, loop, hash, detected, events, target, closed>>

\* Mutant: a failure to write the row is ignored.
WriteResolved_Ignored(r) ==
    /\ pc[r] = "audit"
    /\ \/ closed' = closed \cup {r}
       \/ MayFail /\ UNCHANGED closed
    /\ Goto(r, "update")
    /\ UNCHANGED <<caddy, loop, hash, detected, events, target>>

\* mark_resolved: the config.drift-resolved row,
WriteResolved(r) ==
    /\ pc[r] = "audit"
    /\ closed' = closed \cup {r}
    /\ Goto(r, "update")
    /\ UNCHANGED <<caddy, loop, hash, detected, events, target>>

\* the event (no row is changed if it is resolved already),
Resolve(r) ==
    /\ pc[r] = "update"
    /\ events' = [events EXCEPT ![target[r]].open = FALSE]
    /\ Goto(r, "reset")
    /\ UNCHANGED <<caddy, loop, hash, detected, target, closed>>

\* Mutant: mark_resolved does not reset the hash.
Reset_Forgotten(r) ==
    /\ pc[r] = "reset" /\ Goto(r, "done")
    /\ UNCHANGED <<caddy, loop, hash, detected, events, target, closed>>

\* and the hash, whatever it is by now.
Reset(r) ==
    /\ pc[r] = "reset" /\ ~GuardHeld
    /\ hash' = None
    /\ Goto(r, "done")
    /\ UNCHANGED <<caddy, loop, detected, events, target, closed>>

\* Either write fails: 500.
ResolveFails(r) ==
    /\ MayFail /\ pc[r] \in {"audit", "update"}
    /\ Goto(r, "done")
    /\ UNCHANGED <<caddy, loop, hash, detected, events, target, closed>>

\* The client hangs up, and the handler's future is dropped: perhaps between
\* the UPDATE and the reset of the hash.
Cancel(r) ==
    /\ pc[r] \in {"audit", "update", "reset"}
    /\ Goto(r, IF pc[r] = "reset" THEN "dropped" ELSE "done")
    /\ UNCHANGED <<caddy, loop, hash, detected, events, target, closed>>

-----------------------------------------------------------------------------
\* Mutant: without init_from_storage.
Recovered_Nothing == {None}

\* init_from_storage; run.rs goes on if the query fails.
Recovered ==
    IF LatestOpen = {} THEN {None}
    ELSE {events[i].hash : i \in LatestOpen} \cup (IF MayFail THEN {None} ELSE {})

\* The daemon crashes and starts again.
Restart ==
    /\ Sleep /\ applying' = FALSE
    /\ hash' \in Recovered
    /\ pc' = [r \in Defer |-> IF pc[r] = "idle" THEN "idle" ELSE "done"]
    /\ UNCHANGED <<running, desired, detected, events, target, closed>>

Detect ==
    \/ BeginTick \/ Fetch \/ TickClean \/ TickDrifted
    \/ Deduplicate \/ WriteDetected \/ InsertRow \/ SetHash

Mark(r) == WriteResolved(r) \/ Resolve(r)

Next ==
    \/ Store \/ BeginApply \/ EndApply \/ OutsideEdit \/ CaddyManages
    \/ Detect \/ TickFails \/ RecordFails
    \/ \E r \in Defer :
          ReadOpen(r) \/ NotFound(r) \/ Mark(r) \/ Reset(r) \/ ResolveFails(r) \/ Cancel(r)
    \/ Restart

Spec == Init /\ [][Next]_vars

\* The loop ticks (a tick that finds the mutex taken is skipped, so only a
\* mutex that stays free is sure to be found free); a deferral goes on, and
\* the tokio mutex around the hash serves it in turn.
Fairness ==
    /\ WF_vars(Detect)
    /\ WF_vars(EndApply)
    /\ \A r \in Defer : WF_vars(Mark(r)) /\ SF_vars(Reset(r))

FairSpec == Spec /\ Fairness

-----------------------------------------------------------------------------
(* Properties.                                                             *)

\* Whatever fails or crashes between the writes, an event has a
\* config.drift-detected row of its own that says what was running, and a
\* resolved event a config.drift-resolved row.
EventsAreAudited ==
    /\ \A i \in 1..Len(events) :
          /\ events[i].row \in 1..Len(detected)
          /\ detected[events[i].row] = events[i].hash
          /\ ~events[i].open => \E r \in closed : target[r] = i
    /\ \A i, j \in 1..Len(events) : events[i].row = events[j].row => i = j

\* A configuration is skipped as recorded only while an event about it is
\* open, or a deferral is about to reset the hash, or was dropped when it was
\* about to (until the daemon restarts): nothing else silences a drift.
HashIsOpen ==
    hash # None =>
        \/ \E i \in 1..Len(events) : events[i].open /\ events[i].hash = hash
        \/ \E r \in Defer : pc[r] \in {"reset", "dropped"}

\* While nobody defers, one drift makes one event, "across daemon restarts"
\* too (drift.rs, init_from_storage).
OneEventUntilDeferred ==
    (\A r \in Defer : target[r] = 0) =>
        \A i \in 1..Len(events) - 1 : events[i].hash # events[i + 1].hash

\* A drift that stays is reported, if the daemon stays up and no deferral is
\* dropped before its reset: again and again there is an open event about it,
\* as often as it is deferred (until MaxRows is reached).
Lasting(c) ==
    running.content = c /\ desired \notin {None, c} /\ ~applying /\ Len(detected) < MaxRows

LastingDriftReported ==
    \A c \in Config :
        (/\ <>[]Lasting(c)
         /\ <>[][~Restart]_vars
         /\ []<>(\A r \in Defer : pc[r] # "dropped"))
        => []<>(\E i \in 1..Len(events) : events[i].open /\ events[i].hash.content = c)

=============================================================================
