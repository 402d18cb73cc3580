--------------------------- MODULE ApplierProofs ---------------------------
(***************************************************************************)
(* Proofs about Applier for any number of requests and bodies, any mix of  *)
(* callers, a real or a no-op diff engine, and every fault of the model.   *)
(* The argument: the lock leaves one call at a time inside (Alone), so the *)
(* version read at step 0 still holds at the CAS (CheckHolds); a CAS that  *)
(* succeeds moves the version to that of a stored snapshot which the same  *)
(* call has had accepted by Caddy just before (LoadedIsAccepted,           *)
(* LoadedIsRunning).                                                       *)
(***************************************************************************)
EXTENDS Applier, TLAPS

\* A call is inside exactly while it runs the apply body.
InsideIsCritical == \A r \in Req : r \in inside <=> pc[r] \in Critical

Alone == \A r, e \in inside : r = e

LoadedIsAccepted == \A r \in Req : pc[r] \in {"verify", "cas"} => snap[r] \in accepted

\* Between its load and its advance, Caddy serves what a call has loaded.
LoadedIsRunning ==
    \A r \in Req : pc[r] \in {"verify", "cas"} /\ ~cause => running = snap[r]

\* InSync, for every state in which no call is between load and advance.
InSyncOutsideLoads ==
    (\A r \in Req : pc[r] \notin {"verify", "cas"}) /\ ~cause /\ pointer > 0 =>
        running \in snapshots /\ running.version = pointer

\* A version is won at the CAS and not before.
WonLate ==
    \A r \in Req :
        /\ won[r] # 0 => pc[r] \in {"audit", "leave", "save", "done"}
        /\ pc[r] = "audit" => won[r] # 0
        /\ outcome[r] = "failed" =>
              won[r] = 0 /\ pc[r] \in {"leave", "save", "done"}
        /\ pc[r] \in {"new", "store", "lock"} => outcome[r] = "none"

WonUpToPointer == \A r \in Req : won[r] <= pointer

\* A row against a request is written when it can no longer win.
RowsAreLate ==
    \A r \in Req :
        \A e \in Event \ {"config.applied", "mutation.applied"} :
            <<r, e>> \in rows => pc[r] \in {"leave", "save", "done"}

Inv ==
    /\ TypeOK /\ InsideIsCritical /\ Alone
    /\ CheckHolds /\ VersionsWonOnce /\ WonUpToPointer /\ WonLate
    /\ LoadedIsAccepted /\ LoadedIsRunning
    /\ AppliedWasAccepted /\ HistoryIsLinear /\ InSyncOutsideLoads
    /\ RowsTellTheTruth /\ RowsAreLate

-----------------------------------------------------------------------------
(* No variable ever leaves its type.                                       *)
THEOREM TypeCorrect == Spec => []TypeOK
<1>1. Init => TypeOK
  <2> SUFFICES ASSUME Init PROVE TypeOK
    OBVIOUS
  <2>1. kind \in [Req -> Flow]
    BY ApplierAssumption DEF Init
  <2>2. snap \in [Req -> Snapshot]
    <3>1. [version : {0}, body : Body] \subseteq Snapshot
      BY DEF Snapshot
    <3> QED BY <3>1 DEF Init
  <2>3. /\ pc = [r \in Req |-> "new"] /\ outcome = [r \in Req |-> "none"]
        /\ expected = [r \in Req |-> 0] /\ won = [r \in Req |-> 0]
        /\ snapshots = {} /\ pointer = 0 /\ running = Foreign /\ late = {}
        /\ inside = {} /\ rows = {} /\ accepted = {} /\ cause = FALSE
    BY DEF Init
  <2> QED BY <2>1, <2>2, <2>3 DEF TypeOK, Pc, Outcome
<1>2. TypeOK /\ [Next]_vars => TypeOK'
  <2> SUFFICES ASSUME TypeOK, [Next]_vars PROVE TypeOK'
    OBVIOUS
  <2> USE ApplierAssumption
      DEF TypeOK, Pc, Outcome, request, Goto, End, Result, RecordApply
  <2>0. ASSUME NEW r \in Req, NEW e \in Event, Record(r, e)
        PROVE  rows' \in SUBSET (Req \X Event)
    BY <2>0 DEF Record
  <2>1. ASSUME NEW r \in Req, Submit(r) PROVE TypeOK'
    <3>1. \A v \in LatestVersion, b \in Body :
             [version |-> v + 1, body |-> b] \in Snapshot
      BY DEF LatestVersion, Snapshot
    <3>2. CASE SubmitInserted(r)
      BY <3>1, <3>2 DEF SubmitInserted
    <3>3. CASE SubmitMutation(r) BY <3>1, <3>3 DEF SubmitMutation
    <3>4. CASE RejectMutation(r)
      BY <2>0, <3>4 DEF RejectMutation, Event
    <3>5. CASE SubmitReapply(r)
      <4>1. \A s \in LatestSnapshot : s \in Snapshot /\ s.version \in Nat
        BY DEF LatestSnapshot, Snapshot
      <4> QED BY <3>5, <4>1 DEF SubmitReapply
    <3>6. CASE SubmitRollback(r) BY <3>6 DEF SubmitRollback
    <3>7. CASE NothingStored(r) BY <3>7 DEF NothingStored
    <3> QED BY <2>1, <3>2, <3>3, <3>4, <3>5, <3>6, <3>7 DEF Submit
  <2>2. ASSUME NEW r \in Req, Enter(r) \/ Refused(r) PROVE TypeOK'
    BY <2>2 DEF Enter, Refused, Lock!Enter
  <2>3. ASSUME NEW r \in Req, Step(r) PROVE TypeOK'
    <3>1. CASE InsertFirst(r) BY <3>1 DEF InsertFirst
    <3>2. CASE ReadConflict(r) \/ ReadAgrees(r) \/ PreflightFails(r)
      BY <2>0, <3>2 DEF ReadConflict, ReadAgrees, PreflightFails, Event
    <3>3. CASE LoadAccepted(r) BY <3>3 DEF LoadAccepted
    <3>10. CASE LoadRejected(r) BY <2>0, <3>10 DEF LoadRejected, Event
    <3>4. CASE LoadUnanswered(r)
      BY <2>0, <3>4 DEF LoadUnanswered, Event
    <3>5. CASE VerifyAgrees(r) \/ VerifyFails(r)
      BY <3>5 DEF VerifyAgrees, VerifyFails
    <3>6. CASE CasAdvances(r)
      <4>1. expected[r] + 1 \in Nat
        OBVIOUS
      <4> QED BY <3>6, <4>1 DEF CasAdvances
    <3>11. CASE CasFails(r) BY <3>11 DEF CasFails
    <3>7. CASE AuditApplied(r) \/ Leave(r)
      BY <2>0, <3>7 DEF AuditApplied, Leave, Lock!Leave, Event
    <3>8. CASE SaveApplied(r) BY <2>0, <3>8 DEF SaveApplied, Event
    <3>9. CASE SaveRejected(r) BY <2>0, <3>9 DEF SaveRejected, Event
    <3> QED
      BY <2>3, <3>1, <3>2, <3>3, <3>4, <3>5, <3>6, <3>7, <3>8, <3>9,
         <3>10, <3>11 DEF Step, Apply
  <2>4. ASSUME NEW S \in SUBSET Req, Die(S) PROVE TypeOK'
    BY <2>4 DEF Die
  <2>5. ASSUME NEW r \in Req, LateLoad(r) PROVE TypeOK'
    BY <2>5 DEF LateLoad
  <2>6. CASE OutsideEdit
    BY <2>6 DEF OutsideEdit
  <2>7. CASE UNCHANGED vars
    BY <2>7 DEF vars
  <2> QED
    BY <2>1, <2>2, <2>3, <2>4, <2>5, <2>6, <2>7
    DEF Next, Cancel, Crash, Active
<1> QED BY <1>1, <1>2, PTL DEF Spec

-----------------------------------------------------------------------------
LEMMA VersionIsNat == \A s \in Snapshot : s.version \in Nat
  BY DEF Snapshot

LEMMA InvInit == ASSUME Init, TypeOK PROVE Inv
  BY DEF Init, TypeOK, Inv, InsideIsCritical, Critical, Alone, CheckHolds,
     VersionsWonOnce, WonUpToPointer, WonLate, LoadedIsAccepted,
     LoadedIsRunning, AppliedWasAccepted, HistoryIsLinear,
     InSyncOutsideLoads, RowsTellTheTruth, RowsAreLate

(* The inductive step, one group of actions at a time.                      *)
LEMMA InvNext ==
  ASSUME Inv, [Next]_vars, TypeOK'
  PROVE  Inv'
<1> USE DEF Inv, InsideIsCritical, Critical, Alone, CheckHolds,
       VersionsWonOnce, WonUpToPointer, WonLate, LoadedIsAccepted,
       LoadedIsRunning, AppliedWasAccepted, HistoryIsLinear,
       InSyncOutsideLoads, RowsTellTheTruth, RowsAreLate,
       request, Goto, End, Result, Record, RecordApply, TypeOK
<1>1. ASSUME NEW r \in Req, Submit(r) PROVE Inv'
  <2>1. CASE SubmitInserted(r) BY <2>1 DEF SubmitInserted
  <2>2. CASE SubmitMutation(r) BY <2>2 DEF SubmitMutation
  <2>3. CASE RejectMutation(r) BY <2>3 DEF RejectMutation
  <2>4. CASE SubmitReapply(r) BY <2>4 DEF SubmitReapply
  <2>5. CASE SubmitRollback(r) BY <2>5 DEF SubmitRollback
  <2>6. CASE NothingStored(r) BY <2>6 DEF NothingStored
  <2> QED BY <1>1, <2>1, <2>2, <2>3, <2>4, <2>5, <2>6 DEF Submit
<1>2. ASSUME NEW r \in Req, Enter(r) PROVE Inv'
  BY <1>2 DEF Enter, Lock!Enter
<1>3. ASSUME NEW r \in Req, Refused(r) PROVE Inv'
  BY <1>3 DEF Refused
<1>4. ASSUME NEW r \in Req, InsertFirst(r) PROVE Inv'
  BY <1>4, VersionIsNat DEF InsertFirst, Insertable
<1>5. ASSUME NEW r \in Req, Apply(r) PROVE Inv'
  <2>1. CASE ReadConflict(r) BY <2>1 DEF ReadConflict
  <2>2. CASE ReadAgrees(r) BY <2>2 DEF ReadAgrees
  <2>3. CASE PreflightFails(r) BY <2>3 DEF PreflightFails
  <2>4. CASE LoadAccepted(r) BY <2>4 DEF LoadAccepted
  <2>5. CASE LoadRejected(r) BY <2>5 DEF LoadRejected
  <2>6. CASE LoadUnanswered(r) BY <2>6 DEF LoadUnanswered
  <2>7. CASE VerifyAgrees(r) BY <2>7 DEF VerifyAgrees
  <2>8. CASE VerifyFails(r) BY <2>8 DEF VerifyFails
  <2>9. CASE CasAdvances(r) BY <2>9 DEF CasAdvances, Advances
  <2>10. CASE CasFails(r) BY <2>10 DEF CasFails
  <2>11. CASE AuditApplied(r) BY <2>11 DEF AuditApplied
  <2>12. CASE Leave(r) BY <2>12 DEF Leave, Lock!Leave
  <2> QED
    BY <1>5, <2>1, <2>2, <2>3, <2>4, <2>5, <2>6, <2>7, <2>8, <2>9, <2>10,
       <2>11, <2>12 DEF Apply
<1>6. ASSUME NEW r \in Req, SaveApplied(r) PROVE Inv'
  BY <1>6, VersionIsNat DEF SaveApplied, Insertable
<1>7. ASSUME NEW r \in Req, SaveRejected(r) PROVE Inv'
  BY <1>7 DEF SaveRejected
<1>8. ASSUME NEW S \in SUBSET Active, Die(S) PROVE Inv'
  <2> USE <1>8 DEF Die, Active
  <2>1. (InsideIsCritical /\ Alone)'
    OBVIOUS
  <2>2. (CheckHolds /\ VersionsWonOnce /\ WonUpToPointer)'
    OBVIOUS
  <2>3. WonLate'
    OBVIOUS
  <2>4. (LoadedIsAccepted /\ LoadedIsRunning)'
    OBVIOUS
  <2>5. (AppliedWasAccepted /\ HistoryIsLinear)'
    OBVIOUS
  <2>6. InSyncOutsideLoads'
    OBVIOUS
  <2>7. (RowsTellTheTruth /\ RowsAreLate)'
    OBVIOUS
  <2> HIDE <1>8 DEF Die, Active, InsideIsCritical, Alone, CheckHolds,
       VersionsWonOnce, WonUpToPointer, WonLate, LoadedIsAccepted,
       LoadedIsRunning, AppliedWasAccepted, HistoryIsLinear,
       InSyncOutsideLoads, RowsTellTheTruth, RowsAreLate, TypeOK
  <2> QED BY <2>1, <2>2, <2>3, <2>4, <2>5, <2>6, <2>7
<1>9. ASSUME NEW r \in Req, LateLoad(r) PROVE Inv'
  BY <1>9 DEF LateLoad
<1>10. CASE OutsideEdit
  BY <1>10 DEF OutsideEdit
<1>11. CASE UNCHANGED vars
  BY <1>11 DEF vars
<1> HIDE DEF Inv
<1>12. ASSUME NEW r \in Req, Cancel(r) PROVE Inv'
  BY <1>8, <1>12 DEF Cancel
<1>13. CASE Crash
  BY <1>8, <1>13 DEF Crash
<1>14. ASSUME NEW r \in Req, Step(r) PROVE Inv'
  BY <1>4, <1>5, <1>6, <1>7, <1>14 DEF Step
<1> QED
  BY <1>1, <1>2, <1>3, <1>9, <1>10, <1>11, <1>12, <1>13, <1>14 DEF Next

-----------------------------------------------------------------------------
LEMMA Invariance == Spec => []Inv
<1>1. Init /\ TypeOK => Inv
  BY InvInit
<1>2. Inv /\ [Next]_vars /\ TypeOK' => Inv'
  BY InvNext
<1> QED BY <1>1, <1>2, TypeCorrect, PTL DEF Spec

(* The version read at step 0 of apply() is the applied version until the  *)
(* call advances it, however many callers there are: the CAS of step 6b    *)
(* never sees a version moved by somebody else.                            *)
THEOREM Checked == Spec => []CheckHolds
<1>1. Inv => CheckHolds
  BY DEF Inv
<1> QED BY <1>1, Invariance, PTL

(* Every version up to the applied one was made current by exactly one     *)
(* request: no accepted apply is overwritten by a concurrent one.          *)
THEOREM WonOnce == Spec => []VersionsWonOnce
<1>1. Inv => VersionsWonOnce
  BY DEF Inv
<1> QED BY <1>1, Invariance, PTL

(* The insert checks of insert_snapshot leave one snapshot per version,    *)
(* whichever callers race to store theirs.                                 *)
THEOREM Linear == Spec => []HistoryIsLinear
<1>1. Inv => HistoryIsLinear
  BY DEF Inv
<1> QED BY <1>1, Invariance, PTL

(* applied_config_version is always that of a stored snapshot which Caddy  *)
(* has accepted.                                                           *)
THEOREM Accepted == Spec => []AppliedWasAccepted
<1>1. Inv => AppliedWasAccepted
  BY DEF Inv
<1> QED BY <1>1, Invariance, PTL

(* With no apply under way and no known cause to differ, Caddy serves the  *)
(* applied version.                                                        *)
THEOREM Synced == Spec => []InSync
<1>1. Inv => InSync
  BY DEF Inv, InSync, InSyncOutsideLoads, InsideIsCritical, Critical
<1> QED BY <1>1, Invariance, PTL

(* The audit rows of apply() never say more than what happened.            *)
THEOREM Truthful == Spec => []RowsTellTheTruth
<1>1. Inv => RowsTellTheTruth
  BY DEF Inv
<1> QED BY <1>1, Invariance, PTL

(* Through all its callers and faults, Applier moves the applied version   *)
(* only as the register of VersionRegister may: up by one, by a request    *)
(* that has not won before.                                                *)
THEOREM ApplierImplementsRegister == Spec => Implements
<1>1. Init => Register!Init
  BY DEF Init, Register!Init
<1>2. Inv /\ [Next]_vars => [Register!Next]_<<pointer, won>>
  <2> SUFFICES ASSUME Inv, [Next]_vars
               PROVE  [Register!Next]_<<pointer, won>>
    OBVIOUS
  <2>1. ASSUME NEW r \in Req, CasAdvances(r) PROVE Register!Advance(r)
    <3>1. won[r] = 0
      BY <2>1 DEF Inv, WonLate, CasAdvances
    <3> QED BY <2>1, <3>1 DEF CasAdvances, Advances, Register!Advance
  <2>2. ASSUME NEW r \in Req, Submit(r) \/ Enter(r) \/ Refused(r) \/ LateLoad(r)
        PROVE  UNCHANGED <<pointer, won>>
    BY <2>2 DEF Submit, SubmitInserted, SubmitMutation, RejectMutation,
       SubmitReapply, SubmitRollback, NothingStored, Enter, Refused, LateLoad
  <2>3. ASSUME NEW r \in Req, Step(r), ~CasAdvances(r)
        PROVE  UNCHANGED <<pointer, won>>
    BY <2>3 DEF Step, Apply, InsertFirst, ReadConflict, ReadAgrees,
       PreflightFails, LoadAccepted, LoadRejected, LoadUnanswered,
       VerifyAgrees, VerifyFails, CasFails, AuditApplied, Leave,
       SaveApplied, SaveRejected
  <2>4. ASSUME NEW S \in SUBSET Active, Die(S)
        PROVE  UNCHANGED <<pointer, won>>
    BY <2>4 DEF Die
  <2>5. ASSUME NEW r \in Req, Cancel(r) PROVE UNCHANGED <<pointer, won>>
    BY <2>4, <2>5 DEF Cancel
  <2>6. CASE Crash
    BY <2>4, <2>6 DEF Crash
  <2>7. CASE OutsideEdit
    BY <2>7 DEF OutsideEdit
  <2>8. CASE UNCHANGED vars
    BY <2>8 DEF vars
  <2> QED
    BY <2>1, <2>2, <2>3, <2>5, <2>6, <2>7, <2>8 DEF Next, Register!Next
<1> QED
  BY <1>1, <1>2, Invariance, PTL DEF Spec, Implements, Register!Spec
=============================================================================
