------------------------------ MODULE Applier ------------------------------
(***************************************************************************)
(* CaddyApplier::apply and the flows that call it, over the snapshot       *)
(* table, the applied version of caddy_instances and a Caddy that fails,   *)
(* times out and is edited by others.  Requests are one-shot and run       *)
(* concurrently; the apply lock appears as the exclusion that ApplyLock    *)
(* implements.                                                             *)
(*                                                                         *)
(* A snapshot is its version and a body: its id is the hash of a document  *)
(* that contains both, so two snapshots are the same row exactly when they *)
(* are equal.  The ghost variables won, accepted and cause record history  *)
(* that properties speak about; no action reads them.                      *)
(***************************************************************************)
EXTENDS Naturals

CONSTANTS
    Req,            \* requests
    Body,           \* what a configuration may say
    Foreign,        \* a configuration Trilithon did not write
    Kinds,          \* the flows under study, a subset of Flow
    StructuralDiff, \* is the diff engine a real one (run.rs wires a no-op)?
    AuditMayFail,   \* may an audit row be lost?
    Faults          \* do daemons crash, futures drop, Caddy answers get lost,
                    \* and do others edit Caddy?

Flow == {"insert-first", "mutation", "reapply", "rollback"}

ASSUME ApplierAssumption ==
    /\ Kinds \subseteq Flow
    /\ {StructuralDiff, AuditMayFail, Faults} \subseteq BOOLEAN
    /\ Foreign \notin [version : Nat, body : Body]

VARIABLES
    snapshots,      \* the rows of table snapshots
    pointer,        \* caddy_instances.applied_config_version
    running,        \* what Caddy serves
    late,           \* requests whose POST /load Caddy may still perform
    inside,         \* the calls inside the apply lock
    kind,           \* the flow of each request
    pc,             \* what each request does next
    snap,           \* the snapshot a request applies
    expected,       \* its expected_version
    outcome,        \* how it ended
    rows,           \* audit rows, as <<request, event>>
    won,            \* ghost: the version a request made current
    accepted,       \* ghost: the snapshots Caddy has answered 2xx for
    cause           \* ghost: why Caddy may differ from the applied version

request == <<kind, snap, expected>>
vars == <<snapshots, pointer, running, late, inside, kind, pc, snap, expected,
          outcome, rows, won, accepted, cause>>

Snapshot == [version : Nat, body : Body]

Pc == {"new", "store", "lock", "read", "load", "verify", "cas", "audit",
       "leave", "save", "done"}

Critical == {"read", "load", "verify", "cas", "audit", "leave"}

Outcome == {"none", "succeeded", "failed", "conflicted", "error", "lost"}

Event == {"config.applied", "config.apply-failed", "caddy.unreachable",
          "mutation.conflicted", "mutation.applied", "mutation.rejected"}

TypeOK ==
    /\ snapshots \in SUBSET Snapshot
    /\ pointer \in Nat
    /\ running \in Snapshot \cup {Foreign}
    /\ late \in SUBSET Req
    /\ inside \in SUBSET Req
    /\ kind \in [Req -> Flow]
    /\ pc \in [Req -> Pc]
    /\ snap \in [Req -> Snapshot]
    /\ expected \in [Req -> Nat]
    /\ outcome \in [Req -> Outcome]
    /\ rows \in SUBSET (Req \X Event)
    /\ won \in [Req -> Nat]
    /\ accepted \in SUBSET Snapshot
    /\ cause \in BOOLEAN

Init ==
    /\ snapshots = {} /\ pointer = 0 /\ running = Foreign
    /\ late = {} /\ inside = {}
    /\ kind \in [Req -> Kinds]
    /\ pc = [r \in Req |-> "new"]
    /\ \E s \in [version : {0}, body : Body] : snap = [r \in Req |-> s]
    /\ expected = [r \in Req |-> 0]
    /\ outcome = [r \in Req |-> "none"]
    /\ rows = {}
    /\ won = [r \in Req |-> 0] /\ accepted = {} /\ cause = FALSE

Lock == INSTANCE ApplyExclusion WITH Call <- Req

-----------------------------------------------------------------------------
(* The snapshot table.                                                     *)

\* MAX(config_version), 0 when the table is empty (the only element)
LatestVersion ==
    {v \in {0} \cup {s.version : s \in snapshots} :
        \A s \in snapshots : s.version <= v}

\* latest_desired_state: ORDER BY config_version DESC LIMIT 1
LatestSnapshot == {s \in snapshots : \A t \in snapshots : t.version <= s.version}

\* Mutant: the monotonicity check lets an equal version through.
Insertable_Equal(s) == \A t \in snapshots : t.version <= s.version

\* insert_snapshot takes s: it is there already, or newer than every row
Insertable(s) == s \in snapshots \/ \A t \in snapshots : t.version < s.version

-----------------------------------------------------------------------------
Goto(r, l) == pc' = [pc EXCEPT ![r] = l]

\* A request ends without having entered, or after having left, the lock.
End(r, o) ==
    /\ Goto(r, "done")
    /\ outcome' = [outcome EXCEPT ![r] = o]

\* The result of the apply body, before the lock is released.
Result(r, o) ==
    /\ Goto(r, "leave")
    /\ outcome' = [outcome EXCEPT ![r] = o]

\* AuditWriter::record under `let _ =`
Record(r, e) ==
    \/ rows' = rows \cup {<<r, e>>}
    \/ AuditMayFail /\ UNCHANGED rows

\* apply()'s own rows carry the snapshot id, which the foreign key
\* audit_log.snapshot_id REFERENCES snapshots(id) wants to be stored: for a
\* snapshot that is not, the insert fails, and the error is ignored.
RecordApply(r, e) ==
    \/ snap[r] \in snapshots /\ Record(r, e)
    \/ snap[r] \notin snapshots /\ UNCHANGED rows

-----------------------------------------------------------------------------
(* Callers.                                                                *)

\* The caller of Applier::apply that first inserts its snapshot: a new one
\* above the latest it has read, or one inserted before, to try it again.
SubmitInserted(r) ==
    /\ pc[r] = "new" /\ kind[r] = "insert-first"
    /\ \E v \in LatestVersion, b \in Body, e \in 0..pointer :
          \E s \in snapshots \cup {[version |-> v + 1, body |-> b]} :
             /\ snap' = [snap EXCEPT ![r] = s]
             /\ expected' = [expected EXCEPT ![r] = e]
    /\ Goto(r, "store")
    /\ UNCHANGED <<snapshots, pointer, running, late, inside, kind, outcome,
                   rows, won, accepted, cause>>

InsertFirst(r) ==
    /\ pc[r] = "store"
    /\ \/ /\ Insertable(snap[r])
          /\ snapshots' = snapshots \cup {snap[r]}
          /\ Goto(r, "lock") /\ UNCHANGED outcome
       \/ /\ Faults \/ ~Insertable(snap[r])
          /\ End(r, "error") /\ UNCHANGED snapshots
    /\ UNCHANGED <<pointer, running, late, inside, request, rows, won, accepted,
                   cause>>

\* POST /mutations, up to apply(): the new state is one above the latest
\* snapshot, whatever expected_version says; nothing is stored yet.
SubmitMutation(r) ==
    /\ pc[r] = "new" /\ kind[r] = "mutation"
    /\ \E v \in LatestVersion, b \in Body, e \in 0..pointer :
          /\ snap' = [snap EXCEPT ![r] = [version |-> v + 1, body |-> b]]
          /\ expected' = [expected EXCEPT ![r] = e]
    /\ Goto(r, "lock")
    /\ UNCHANGED <<snapshots, pointer, running, late, inside, kind, outcome,
                   rows, won, accepted, cause>>

\* No expected_version or a body that does not parse: a row and 400 or 422.
\* A mutation apply_mutation refuses (its own version is stale, a missing
\* capability, a failed pre-condition) ends without a row.
RejectMutation(r) ==
    /\ pc[r] = "new" /\ kind[r] = "mutation"
    /\ End(r, "error")
    /\ \/ Record(r, "mutation.rejected")
       \/ UNCHANGED rows
    /\ UNCHANGED <<snapshots, pointer, running, late, inside, request, won,
                   accepted, cause>>

\* POST /drift/{id}/reapply: the latest snapshot, at its own version.
SubmitReapply(r) ==
    /\ pc[r] = "new" /\ kind[r] = "reapply"
    /\ \E s \in LatestSnapshot :
          /\ snap' = [snap EXCEPT ![r] = s]
          /\ expected' = [expected EXCEPT ![r] = s.version]
    /\ Goto(r, "lock")
    /\ UNCHANGED <<snapshots, pointer, running, late, inside, kind, outcome,
                   rows, won, accepted, cause>>

\* Applier::rollback: a snapshot of the table, at the applied version read now.
SubmitRollback(r) ==
    /\ pc[r] = "new" /\ kind[r] = "rollback"
    /\ \E s \in snapshots : snap' = [snap EXCEPT ![r] = s]
    /\ expected' = [expected EXCEPT ![r] = pointer]
    /\ Goto(r, "lock")
    /\ UNCHANGED <<snapshots, pointer, running, late, inside, kind, outcome,
                   rows, won, accepted, cause>>

\* Nothing to reapply or roll back to.
NothingStored(r) ==
    /\ pc[r] = "new" /\ kind[r] \in {"reapply", "rollback"} /\ snapshots = {}
    /\ End(r, "error")
    /\ UNCHANGED <<snapshots, pointer, running, late, inside, request, rows, won,
                   accepted, cause>>

-----------------------------------------------------------------------------
(* apply().                                                                *)

\* Mutant: apply() runs without the lock.
Enter_Unlocked(r) ==
    /\ pc[r] = "lock"
    /\ inside' = inside \cup {r}
    /\ Goto(r, "read")
    /\ UNCHANGED <<snapshots, pointer, running, late, request, outcome, rows,
                   won, accepted, cause>>

Enter(r) ==
    /\ pc[r] = "lock"
    /\ Lock!Enter(r)
    /\ Goto(r, "read")
    /\ UNCHANGED <<snapshots, pointer, running, late, request, outcome, rows,
                   won, accepted, cause>>

\* The advisory lock is refused: ApplyError::LockContested, or a storage error.
Refused(r) ==
    /\ pc[r] = "lock"
    /\ End(r, "error")
    /\ UNCHANGED <<snapshots, pointer, running, late, inside, request, rows, won,
                   accepted, cause>>

\* Step 0: the early conflict check, by a plain read of the applied version.
ReadConflict(r) ==
    /\ pc[r] = "read" /\ pointer # expected[r]
    /\ Result(r, "conflicted")
    /\ RecordApply(r, "mutation.conflicted")
    /\ UNCHANGED <<snapshots, pointer, running, late, inside, request, won,
                   accepted, cause>>

ReadAgrees(r) ==
    /\ pc[r] = "read" /\ pointer = expected[r]
    /\ Goto(r, "load")
    /\ UNCHANGED <<snapshots, pointer, running, late, inside, request, outcome,
                   rows, won, accepted, cause>>

\* Steps 0, 2, 3 and 4 may fail: the read itself, parsing, rendering, a module
\* Caddy has not loaded; and so may building the request of step 5.  No row is
\* written.
PreflightFails(r) ==
    /\ pc[r] \in {"read", "load"}
    /\ Result(r, "error")
    /\ UNCHANGED <<snapshots, pointer, running, late, inside, request, rows, won,
                   accepted, cause>>

\* Step 5: POST /load is answered 2xx.
LoadAccepted(r) ==
    /\ pc[r] = "load"
    /\ running' = snap[r]
    /\ accepted' = accepted \cup {snap[r]}
    /\ cause' = FALSE
    /\ Goto(r, "verify")
    /\ UNCHANGED <<snapshots, pointer, late, inside, request, outcome, rows, won>>

\* Mutant: a status other than 2xx is not an error.
LoadRejected_Ignored(r) ==
    /\ pc[r] = "load"
    /\ Goto(r, "verify")
    /\ UNCHANGED <<snapshots, pointer, running, late, inside, request, outcome,
                   rows, won, accepted, cause>>

\* Caddy answers 4xx or 5xx and keeps its configuration.
LoadRejected(r) ==
    /\ pc[r] = "load"
    /\ Result(r, "failed")
    /\ RecordApply(r, "config.apply-failed")
    /\ UNCHANGED <<snapshots, pointer, running, late, inside, request, won,
                   accepted, cause>>

\* Unreachable or timed out: Caddy may have done it, may do it later, or never.
LoadUnanswered(r) ==
    /\ Faults
    /\ pc[r] = "load"
    /\ Result(r, "error")
    /\ RecordApply(r, "caddy.unreachable")
    /\ \/ UNCHANGED <<running, late, cause>>
       \/ running' = snap[r] /\ cause' = TRUE /\ UNCHANGED late
       \/ late' = late \cup {r} /\ UNCHANGED <<running, cause>>
    /\ UNCHANGED <<snapshots, pointer, inside, request, won, accepted>>

\* Mutant: the config.applied row is written before the version moves.
VerifyAgrees_Audits(r) ==
    /\ pc[r] = "verify"
    /\ StructuralDiff => running = snap[r]
    /\ Goto(r, "cas")
    /\ RecordApply(r, "config.applied")
    /\ UNCHANGED <<snapshots, pointer, running, late, inside, request, outcome,
                   won, accepted, cause>>

\* Step 6: GET /config and the diff.
VerifyAgrees(r) ==
    /\ pc[r] = "verify"
    /\ StructuralDiff => running = snap[r]
    /\ Goto(r, "cas")
    /\ UNCHANGED <<snapshots, pointer, running, late, inside, request, outcome,
                   rows, won, accepted, cause>>

\* The GET fails or the diff is not empty: an error, and no row.
VerifyFails(r) ==
    /\ pc[r] = "verify"
    /\ \/ Faults
       \/ StructuralDiff /\ running # snap[r]
    /\ Result(r, "error")
    /\ cause' = TRUE
    /\ UNCHANGED <<snapshots, pointer, running, late, inside, request, rows, won,
                   accepted>>

\* Mutant: the snapshot need only exist, at whatever version.
Advances_AnySnapshot(r) ==
    /\ pointer = expected[r]
    /\ snap[r] \in snapshots

\* Step 6b: advance_config_version_if_eq, in one BEGIN IMMEDIATE transaction.
Advances(r) ==
    /\ pointer = expected[r]
    /\ snap[r] \in snapshots
    /\ snap[r].version = expected[r] + 1

\* Mutant: the pointer is set to the version of the snapshot, whatever it is.
CasAdvances_ToSnapshot(r) ==
    /\ pc[r] = "cas" /\ pointer = expected[r] /\ snap[r] \in snapshots
    /\ pointer' = snap[r].version
    /\ won' = [won EXCEPT ![r] = snap[r].version]
    /\ Goto(r, "audit")
    /\ UNCHANGED <<snapshots, running, late, inside, request, outcome, rows,
                   accepted, cause>>

CasAdvances(r) ==
    /\ pc[r] = "cas" /\ Advances(r)
    /\ pointer' = expected[r] + 1
    /\ won' = [won EXCEPT ![r] = expected[r] + 1]
    /\ Goto(r, "audit")
    /\ UNCHANGED <<snapshots, running, late, inside, request, outcome, rows,
                   accepted, cause>>

\* It refuses, or the database fails.
CasFails(r) ==
    /\ pc[r] = "cas"
    /\ Faults \/ ~Advances(r)
    /\ Result(r, "error")
    /\ cause' = TRUE
    /\ UNCHANGED <<snapshots, pointer, running, late, inside, request, rows, won,
                   accepted>>

\* Step 7: the config.applied row.
AuditApplied(r) ==
    /\ pc[r] = "audit"
    /\ RecordApply(r, "config.applied")
    /\ Result(r, "succeeded")
    /\ UNCHANGED <<snapshots, pointer, running, late, inside, request, won,
                   accepted, cause>>

\* Mutant: the lock is not released.
Leave_KeepsLock(r) ==
    /\ pc[r] = "leave"
    /\ Goto(r, IF kind[r] = "mutation" /\ outcome[r] \in {"succeeded", "failed"}
               THEN "save" ELSE "done")
    /\ UNCHANGED <<snapshots, pointer, running, late, inside, request, outcome,
                   rows, won, accepted, cause>>

\* release(); then the mutation handler goes on with a success or a failure.
Leave(r) ==
    /\ pc[r] = "leave"
    /\ Lock!Leave(r)
    /\ Goto(r, IF kind[r] = "mutation" /\ outcome[r] \in {"succeeded", "failed"}
               THEN "save" ELSE "done")
    /\ UNCHANGED <<snapshots, pointer, running, late, request, outcome, rows,
                   won, accepted, cause>>

-----------------------------------------------------------------------------
(* apply_and_respond, after apply(): only now is the snapshot stored, and  *)
(* the database may refuse.                                                *)

SaveApplied(r) ==
    /\ pc[r] = "save" /\ outcome[r] = "succeeded"
    /\ \/ /\ Insertable(snap[r])
          /\ snapshots' = snapshots \cup {snap[r]}
          /\ Record(r, "mutation.applied")
          /\ UNCHANGED outcome
       \/ /\ Faults \/ ~Insertable(snap[r])
          /\ outcome' = [outcome EXCEPT ![r] = "error"]
          /\ UNCHANGED <<snapshots, rows>>
    /\ Goto(r, "done")
    /\ UNCHANGED <<pointer, running, late, inside, request, won, accepted, cause>>

SaveRejected(r) ==
    /\ pc[r] = "save" /\ outcome[r] = "failed"
    /\ Record(r, "mutation.rejected")
    /\ Goto(r, "done")
    /\ UNCHANGED <<snapshots, pointer, running, late, inside, request, outcome,
                   won, accepted, cause>>

-----------------------------------------------------------------------------
(* Faults.                                                                 *)

Active == {r \in Req : pc[r] \notin {"new", "done"}}

\* The futures of the requests in S are gone, and the lock with them; a POST
\* /load under way may still reach Caddy.
Die(S) ==
    /\ pc' = [r \in Req |-> IF r \in S THEN "done" ELSE pc[r]]
    /\ outcome' = [r \in Req |-> IF r \in S THEN "lost" ELSE outcome[r]]
    /\ inside' = inside \ S
    /\ late' \in {late, late \cup {r \in S : pc[r] = "load"}}
    /\ cause' = (cause \/ \E r \in S : pc[r] \in {"verify", "cas"})
    /\ UNCHANGED <<snapshots, pointer, running, request, rows, won, accepted>>

\* A client goes away, a task is aborted, or the apply body panics.
Cancel(r) == Faults /\ r \in Active /\ Die({r})

\* The daemon crashes; the next apply() reaps the stale lock row.
Crash == Faults /\ Active # {} /\ Die(Active)

\* Caddy performs a load whose request is no longer waiting for it.
LateLoad(r) ==
    /\ r \in late
    /\ late' = late \ {r}
    /\ running' = snap[r]
    /\ cause' = TRUE
    /\ UNCHANGED <<snapshots, pointer, inside, request, pc, outcome, rows, won,
                   accepted>>

\* Somebody edits Caddy's configuration behind Trilithon's back.
OutsideEdit ==
    /\ Faults /\ running # Foreign
    /\ running' = Foreign
    /\ cause' = TRUE
    /\ UNCHANGED <<snapshots, pointer, late, inside, request, pc, outcome, rows,
                   won, accepted>>

-----------------------------------------------------------------------------
Submit(r) ==
    \/ SubmitInserted(r) \/ SubmitMutation(r) \/ RejectMutation(r)
    \/ SubmitReapply(r) \/ SubmitRollback(r) \/ NothingStored(r)

Apply(r) ==
    \/ ReadConflict(r) \/ ReadAgrees(r) \/ PreflightFails(r)
    \/ LoadAccepted(r) \/ LoadRejected(r) \/ LoadUnanswered(r)
    \/ VerifyAgrees(r) \/ VerifyFails(r)
    \/ CasAdvances(r) \/ CasFails(r) \/ AuditApplied(r) \/ Leave(r)

Step(r) ==
    InsertFirst(r) \/ Apply(r) \/ SaveApplied(r) \/ SaveRejected(r)

\* Every request has ended.
Finished == \A r \in Req : pc[r] = "done"

Next ==
    \/ \E r \in Req :
          \/ Submit(r) \/ Step(r) \/ Enter(r) \/ Refused(r)
          \/ Cancel(r) \/ LateLoad(r)
    \/ Crash \/ OutsideEdit
    \/ Finished /\ UNCHANGED vars

Spec == Init /\ [][Next]_vars

\* A request that runs goes on (every Caddy call has a timeout), and the
\* tokio mutex serves the calls that wait for it in order.
Fairness == \A r \in Req : WF_vars(Step(r)) /\ SF_vars(Enter(r))

FairSpec == Spec /\ Fairness

-----------------------------------------------------------------------------
(* Properties.                                                             *)

\* Between the early check and the advance nobody moves the applied version
\* (applier_caddy.rs, step 0: "no other process can advance
\* applied_config_version while we hold it"), so the CAS never conflicts.
CheckHolds ==
    \A r \in Req : pc[r] \in {"load", "verify", "cas"} => pointer = expected[r]

\* Of the requests that expect the same version at most one advances it, and
\* every version up to the applied one was made current by some request: no
\* update is lost, none is counted twice.
VersionsWonOnce ==
    /\ \A r, e \in Req : won[r] # 0 /\ won[r] = won[e] => r = e
    /\ \A v \in 1..pointer : \E r \in Req : won[r] = v

\* No two writers extend the same version: of two snapshots built on the same
\* predecessor at most one is ever stored.
HistoryIsLinear == \A s, t \in snapshots : s.version = t.version => s = t

\* The applied version is that of a stored snapshot, and Caddy has accepted
\* that snapshot before the version moved ("applied_config_version only moves
\* forward after Caddy has accepted ... the new config").
AppliedWasAccepted ==
    pointer > 0 => \E s \in snapshots \cap accepted : s.version = pointer

\* While no apply is under way Caddy serves the configuration of the applied
\* version, unless something known came between: an edit by others, a load
\* that Caddy did without its answer being heard, an apply that broke off
\* after its load.  Two applies never mix their loads and their advances.
InSync ==
    inside = {} /\ ~cause /\ pointer > 0 =>
        running \in snapshots /\ running.version = pointer

\* A config.applied row stands only for a request that moved the version, and
\* a row that reports a conflict, a rejection or an unreachable Caddy only for
\* one that did not.
RowsTellTheTruth ==
    \A r \in Req :
        /\ <<r, "config.applied">> \in rows => won[r] # 0
        /\ \A e \in Event \ {"config.applied", "mutation.applied"} :
              <<r, e>> \in rows => won[r] = 0

\* Every request that has come to an apply ends, however Caddy behaves.
EveryRequestEnds ==
    \A r \in Req : pc[r] # "new" ~> pc[r] = "done"

Register == INSTANCE VersionRegister
Implements == Register!Spec

-----------------------------------------------------------------------------
(* What documents and comments say, and the code does not do.              *)

\* A rollback or a drift reapply that Caddy accepted and that was verified
\* advances the version ("Desired state re-applied", drift_routes.rs): the
\* applied version is read so that the CAS does not always conflict (rollback).
RestoreAdvances ==
    \A r \in Req :
        kind[r] \in {"reapply", "rollback"} /\ pc[r] = "cas" => Advances(r)
=============================================================================
