-------------------------- MODULE ApplyLockProofs --------------------------
(***************************************************************************)
(* Proofs about ApplyLock for any number of daemons, calls and process     *)
(* ids, under one assumption: the kernel does not give a new process an id *)
(* that the lock row, or a call about to reap it, still remembers.  The    *)
(* inductive invariant Inv says who may be behind the row: a call inside   *)
(* or releasing, or one pending panic cleanup, never two of them, and a    *)
(* call that is about to reap only ever names a dead process.              *)
(***************************************************************************)
EXTENDS ApplyLock, TLAPS

InSection(c) == pc[c] \in {"inside", "release"}

\* Past the mutex, a call owns the mutex of its daemon.
MutexOwned ==
    \A c \in Call : pc[c] \notin {"idle", "mutex"} => mutex[DaemonOf[c]] = c

\* Calls and cleanup threads exist only in running daemons.
OnlyWhenUp == \A c \in Call : pc[c] # "idle" \/ c \in cleanup => MyPid(c) # NoPid

PidsDistinct ==
    \A d, e \in Daemon : pid[d] # NoPid /\ pid[d] = pid[e] => d = e

OwnerHasRow == \A c \in Call : Owner(c) => row = MyPid(c)

\* A pending cleanup leaves no room for a second one or for a call inside.
CleanupAlone ==
    \A c \in cleanup, e \in Call : ~InSection(e) /\ (e \in cleanup => e = c)

SectionAlone == \A c, e \in Call : InSection(c) /\ InSection(e) => c = e

SeenIsDead ==
    \A c \in Call :
        /\ pc[c] \in {"probe", "reap"} => seen[c] # NoPid
        /\ pc[c] = "reap" => ~process_alive(seen[c])

Inv ==
    /\ TypeOK /\ MutexOwned /\ OnlyWhenUp /\ PidsDistinct
    /\ OwnerHasRow /\ CleanupAlone /\ SectionAlone /\ SeenIsDead

-----------------------------------------------------------------------------
(* No variable ever leaves its type, whatever the flags.                   *)
THEOREM TypeCorrect == Spec => []TypeOK
<1>1. Init => TypeOK
  BY CallAssumption DEF Init, TypeOK, Pc
<1>2. TypeOK /\ [Next]_vars => TypeOK'
  <2> SUFFICES ASSUME TypeOK, [Next]_vars PROVE TypeOK'
    OBVIOUS
  <2> USE CallAssumption, PidAssumption DEF TypeOK, Pc
  <2>1. ASSUME NEW d \in Daemon, Start(d) PROVE TypeOK'
    BY <2>1 DEF Start
  <2>2. ASSUME NEW d \in Daemon, Crash(d) PROVE TypeOK'
    BY <2>2 DEF Crash
  <2>3. ASSUME NEW c \in Call, Request(c) \/ TakeMutex(c) PROVE TypeOK'
    BY <2>3 DEF Request, TakeMutex, Goto
  <2>4. ASSUME NEW c \in Call, Step(c) PROVE TypeOK'
    <3>1. CASE Insert(c) BY <3>1 DEF Insert, Goto, MyPid
    <3>2. CASE Select(c) BY <3>2 DEF Select, Goto
    <3>3. CASE ProbeAlive(c) BY <3>3 DEF ProbeAlive, Return
    <3>4. CASE ProbeDead(c) BY <3>4 DEF ProbeDead, Goto
    <3>5. CASE Reap(c) BY <3>5 DEF Reap, Goto, RowWithout
    <3>6. CASE Retry(c) BY <3>6 DEF Retry, Goto, Return, MyPid
    <3>7. CASE Finish(c) BY <3>7 DEF Finish, Goto
    <3>8. CASE Release(c)
      BY <3>8 DEF Release, Return, DeleteRow, RowWithout
    <3> QED BY <2>4, <3>1, <3>2, <3>3, <3>4, <3>5, <3>6, <3>7, <3>8 DEF Step
  <2>5. ASSUME NEW c \in Call, Fault(c) PROVE TypeOK'
    <3>1. CASE StorageError(c) BY <3>1 DEF StorageError, Return
    <3>2. CASE Panic(c) BY <3>2 DEF Panic, Return
    <3>3. CASE CancelOutside(c) BY <3>3 DEF CancelOutside, MyPid
    <3>4. CASE CancelInside(c)
      BY <3>4 DEF CancelInside, Return, DeleteRow, RowWithout
    <3> QED BY <2>5, <3>1, <3>2, <3>3, <3>4 DEF Fault
  <2>6. ASSUME NEW c \in Call, Cleanup(c) PROVE TypeOK'
    BY <2>6 DEF Cleanup, DeleteRow, RowWithout
  <2>7. CASE UNCHANGED vars
    BY <2>7 DEF vars
  <2> QED BY <2>1, <2>2, <2>3, <2>4, <2>5, <2>6, <2>7 DEF Next
<1> QED BY <1>1, <1>2, PTL DEF Spec

-----------------------------------------------------------------------------
LEMMA InvInit == Init => Inv
  BY CallAssumption DEF Init, Inv, TypeOK, Pc, MutexOwned, OnlyWhenUp,
     PidsDistinct, OwnerHasRow, Owner, CleanupAlone, SectionAlone, InSection,
     SeenIsDead

(* A call inside or releasing shares its row with nobody: when it deletes   *)
(* the row, no owner is left but itself.                                    *)
LEMMA OwnerUnique ==
  ASSUME Inv, NEW c \in Call, NEW e \in Call, Owner(c), Owner(e)
  PROVE  c = e
  BY DEF Inv, CleanupAlone, SectionAlone, InSection, Owner

(* Nobody owns anything while there is no row.                              *)
LEMMA NoRowNoOwner ==
  ASSUME Inv, row = NoPid, NEW c \in Call
  PROVE  ~Owner(c)
  BY DEF Inv, OwnerHasRow, OnlyWhenUp, Owner

(* The inductive step, one action at a time.                                *)
LEMMA InvNext ==
  ASSUME Inv, [Next]_vars, TypeOK', ~PidReuse
  PROVE  Inv'
<1> USE CallAssumption, PidAssumption
<1> USE DEF Inv, InSection, Owner, MyPid
<1>1. ASSUME NEW d \in Daemon, Start(d) PROVE Inv'
  <2> USE <1>1 DEF Start, TypeOK
  <2>1. \A c \in Call : DaemonOf[c] = d => pc[c] = "idle" /\ c \notin cleanup
    BY DEF OnlyWhenUp
  <2>2. (MutexOwned /\ OnlyWhenUp /\ OwnerHasRow)'
    BY <2>1 DEF MutexOwned, OnlyWhenUp, OwnerHasRow
  <2>3. PidsDistinct'
    BY DEF PidsDistinct, process_alive
  <2>4. (CleanupAlone /\ SectionAlone)'
    BY DEF CleanupAlone, SectionAlone
  <2>5. SeenIsDead'
    BY DEF SeenIsDead, process_alive, Remembered
  <2> QED BY <2>2, <2>3, <2>4, <2>5
<1>2. ASSUME NEW d \in Daemon, Crash(d) PROVE Inv'
  <2> USE <1>2 DEF Crash, TypeOK
  <2>1. (MutexOwned /\ OnlyWhenUp /\ OwnerHasRow)'
    BY DEF MutexOwned, OnlyWhenUp, OwnerHasRow
  <2>2. PidsDistinct'
    BY DEF PidsDistinct
  <2>3. (CleanupAlone /\ SectionAlone)'
    BY DEF CleanupAlone, SectionAlone
  <2>4. SeenIsDead'
    BY DEF SeenIsDead, process_alive
  <2> QED BY <2>1, <2>2, <2>3, <2>4
<1> USE DEF MutexOwned, OnlyWhenUp, PidsDistinct, OwnerHasRow,
           CleanupAlone, SectionAlone, SeenIsDead, process_alive, TypeOK
<1>3. ASSUME NEW c \in Call, Request(c) PROVE Inv'
  BY <1>3 DEF Request, Goto
<1>4. ASSUME NEW c \in Call, TakeMutex(c) PROVE Inv'
  BY <1>4 DEF TakeMutex, Goto
<1>5. ASSUME NEW c \in Call, Step(c) PROVE Inv'
  <2>1. CASE Insert(c)
    <3>1. CASE row = NoPid
      <4>1. \A e \in Call : ~Owner(e)
        BY <3>1, NoRowNoOwner
      <4> QED BY <2>1, <3>1, <4>1 DEF Insert, Goto
    <3>2. CASE row # NoPid
      BY <2>1, <3>2 DEF Insert, Goto
    <3> QED BY <3>1, <3>2
  <2>2. CASE Select(c) BY <2>2 DEF Select, Goto
  <2>3. CASE ProbeAlive(c) BY <2>3 DEF ProbeAlive, Return
  <2>4. CASE ProbeDead(c) BY <2>4 DEF ProbeDead, Goto
  <2>5. CASE Reap(c) BY <2>5 DEF Reap, Goto, RowWithout
  <2>6. CASE Retry(c)
    <3>1. CASE row = NoPid
      <4>1. \A e \in Call : ~Owner(e)
        BY <3>1, NoRowNoOwner
      <4> QED BY <2>6, <3>1, <4>1 DEF Retry, Goto
    <3>2. CASE row # NoPid
      BY <2>6, <3>2 DEF Retry, Return
    <3> QED BY <3>1, <3>2
  <2>7. CASE Finish(c) BY <2>7 DEF Finish, Goto
  <2>8. CASE Release(c)
    <3>1. \A e \in Call : Owner(e) => e = c
      BY <2>8, OwnerUnique DEF Release
    <3> QED BY <2>8, <3>1 DEF Release, Return, DeleteRow, RowWithout
  <2> QED
    BY <1>5, <2>1, <2>2, <2>3, <2>4, <2>5, <2>6, <2>7, <2>8 DEF Step
<1>6. ASSUME NEW c \in Call, Fault(c) PROVE Inv'
  <2>1. CASE StorageError(c) BY <2>1 DEF StorageError, Return
  <2>2. CASE Panic(c)
    <3>1. \A e \in Call : Owner(e) => e = c
      BY <2>2, OwnerUnique DEF Panic
    <3> QED BY <2>2, <3>1 DEF Panic, Return
  <2>3. CASE CancelOutside(c)
    <3>1. CASE row' = row
      BY <2>3, <3>1 DEF CancelOutside
    <3>2. CASE row = NoPid
      <4>1. \A e \in Call : ~Owner(e)
        BY <3>2, NoRowNoOwner
      <4> QED BY <2>3, <4>1 DEF CancelOutside
    <3> QED BY <2>3, <3>1, <3>2 DEF CancelOutside
  <2>4. CASE CancelInside(c)
    <3>1. \A e \in Call : Owner(e) => e = c
      BY <2>4, OwnerUnique DEF CancelInside
    <3> QED BY <2>4, <3>1 DEF CancelInside, Return, DeleteRow, RowWithout
  <2> QED BY <1>6, <2>1, <2>2, <2>3, <2>4 DEF Fault
<1>7. ASSUME NEW c \in Call, Cleanup(c) PROVE Inv'
  <2>1. \A e \in Call : Owner(e) => e = c
    BY <1>7, OwnerUnique DEF Cleanup
  <2> QED BY <1>7, <2>1 DEF Cleanup, DeleteRow, RowWithout
<1>8. CASE UNCHANGED vars
  BY <1>8 DEF vars
<1> QED BY <1>1, <1>2, <1>3, <1>4, <1>5, <1>6, <1>7, <1>8 DEF Next

-----------------------------------------------------------------------------
(* Inv holds in every reachable state while process ids are not reused.    *)
THEOREM Invariance ==
  ASSUME ~PidReuse
  PROVE  Spec => []Inv
<1>1. Inv /\ [Next]_vars /\ TypeOK' => Inv'
  BY InvNext
<1> QED BY InvInit, TypeCorrect, <1>1, PTL DEF Spec

(* At most one apply is in flight across all daemons, whatever crashes,     *)
(* panics, dropped futures and failed DELETEs occur (applier_caddy.rs, the  *)
(* comment of step -1; migration 0007).                                     *)
THEOREM Exclusive ==
  ASSUME ~PidReuse
  PROVE  Spec => []MutualExclusion
<1>1. Inv => MutualExclusion
  BY DEF Inv, SectionAlone, InSection, MutualExclusion, Inside
<1> QED BY Invariance, <1>1, PTL

(* No reaper with an old holder_pid and no late panic cleanup deletes the   *)
(* row of a call that is inside and stays inside.                           *)
THEOREM RowKept ==
  ASSUME ~PidReuse
  PROVE  Spec => RowKeptWhileInside
<1> DEFINE Kept == \A c \in Call : pc[c] = "inside" /\ pc'[c] = "inside" => row' = row
<1>1. Inv /\ [Next]_vars => Kept
  <2> SUFFICES ASSUME Inv, [Next]_vars, NEW c \in Call,
                      pc[c] = "inside", pc'[c] = "inside"
               PROVE  row' = row
    OBVIOUS
  <2> USE CallAssumption, PidAssumption
  <2>1. Owner(c)
    BY DEF Owner
  <2>2. row = MyPid(c) /\ row # NoPid
    BY <2>1 DEF Inv, OwnerHasRow, OnlyWhenUp
  <2>3. ASSUME NEW e \in Call, Step(e) PROVE row' = row
    <3>1. CASE Reap(e)
      BY <2>2, <3>1 DEF Reap, Goto, RowWithout, Inv, SeenIsDead,
         process_alive, MyPid
    <3>2. CASE Release(e)
      <4>1. e = c
        BY <2>1, <3>2, OwnerUnique DEF Release, Owner
      <4> QED BY <3>2, <4>1 DEF Release
    <3> QED
      BY <2>2, <2>3, <3>1, <3>2 DEF Step, Insert, Select, ProbeAlive,
         ProbeDead, Retry, Finish
  <2>4. ASSUME NEW e \in Call, Fault(e) PROVE row' = row
    <3>1. CASE CancelInside(e)
      <4>1. e = c
        BY <2>1, <3>1, OwnerUnique DEF CancelInside, Owner
      <4> QED BY <3>1, <4>1 DEF CancelInside, Return, Inv, TypeOK
    <3> QED
      BY <2>2, <2>4, <3>1 DEF Fault, StorageError, Panic, CancelOutside
  <2>5. ASSUME NEW e \in Call, Cleanup(e) PROVE row' = row
    BY <2>5 DEF Cleanup, Inv, CleanupAlone, InSection
  <2>6. CASE UNCHANGED vars
    BY <2>6 DEF vars
  <2> QED
    BY <2>3, <2>4, <2>5, <2>6 DEF Next, Start, Crash, Request, TakeMutex
<1> QED BY Invariance, <1>1, PTL DEF Spec, RowKeptWhileInside

(* Until a DELETE of the row is lost, a row that names a running process    *)
(* always has an owner that will delete it.                                 *)
LEMMA RowIsOwnedNext ==
  ASSUME Inv, RowIsOwned, [Next]_vars, ~PidReuse
  PROVE  RowIsOwned'
<1> USE CallAssumption, PidAssumption
<1> USE DEF Inv, RowIsOwned, TypeOK, Owner, MyPid
<1>1. ASSUME NEW d \in Daemon, Start(d) PROVE RowIsOwned'
  BY <1>1 DEF Start, Remembered
<1>2. ASSUME NEW d \in Daemon, Crash(d) PROVE RowIsOwned'
  BY <1>2 DEF Crash
<1>3. ASSUME NEW c \in Call, Request(c) \/ TakeMutex(c) PROVE RowIsOwned'
  BY <1>3 DEF Request, TakeMutex, Goto
<1>4. ASSUME NEW c \in Call, Step(c) PROVE RowIsOwned'
  <2>1. CASE Insert(c)
    BY <2>1 DEF Insert, Goto, PidsDistinct
  <2>2. CASE Reap(c)
    BY <2>2 DEF Reap, Goto, RowWithout
  <2>3. CASE Retry(c)
    BY <2>3 DEF Retry, Goto, Return, PidsDistinct
  <2>4. CASE Release(c)
    BY <2>4 DEF Release, Return, DeleteRow, RowWithout, OwnerHasRow
  <2> QED
    BY <1>4, <2>1, <2>2, <2>3, <2>4
    DEF Step, Select, ProbeAlive, ProbeDead, Finish, Goto, Return
<1>5. ASSUME NEW c \in Call, Fault(c) PROVE RowIsOwned'
  <2>1. CASE CancelInside(c)
    BY <2>1 DEF CancelInside, Return, DeleteRow, RowWithout, OwnerHasRow
  <2> QED
    BY <1>5, <2>1 DEF Fault, StorageError, Panic, CancelOutside, Return
<1>6. ASSUME NEW c \in Call, Cleanup(c) PROVE RowIsOwned'
  BY <1>6 DEF Cleanup, DeleteRow, RowWithout, OwnerHasRow
<1>7. CASE UNCHANGED vars
  BY <1>7 DEF vars
<1> QED BY <1>1, <1>2, <1>3, <1>4, <1>5, <1>6, <1>7 DEF Next

THEOREM RowAlwaysOwned ==
  ASSUME ~PidReuse
  PROVE  Spec => []RowIsOwned
<1>1. Init => RowIsOwned
  BY DEF Init, RowIsOwned
<1>2. Inv /\ RowIsOwned /\ [Next]_vars => RowIsOwned'
  BY RowIsOwnedNext
<1> QED BY Invariance, <1>1, <1>2, PTL DEF Spec

-----------------------------------------------------------------------------
(* ApplyLock implements ApplyExclusion: of all the steps of the protocol,   *)
(* only a successful INSERT lets a call in, and only when nobody is.        *)
THEOREM LockImplementsExclusion ==
  ASSUME ~PidReuse
  PROVE  Spec => Implements
<1>1. Init => Exclusion!Init
  BY DEF Init, Exclusion!Init, Inside
<1>2. Inv /\ [Next]_vars => [Exclusion!Next]_Inside
  <2> SUFFICES ASSUME Inv, [Next]_vars PROVE [Exclusion!Next]_Inside
    OBVIOUS
  <2> USE CallAssumption DEF Inv, TypeOK, Inside
  <2>1. ASSUME NEW c \in Call, row = NoPid, pc' = [pc EXCEPT ![c] = "inside"]
        PROVE  Exclusion!Enter(c)
    <3>1. \A e \in Call : pc[e] # "inside"
      BY <2>1, NoRowNoOwner DEF Owner
    <3> QED BY <2>1, <3>1 DEF Exclusion!Enter
  <2>2. ASSUME NEW c \in Call, NEW s \in Pc, s # "inside",
               pc' = [pc EXCEPT ![c] = s]
        PROVE  Exclusion!Leave(c) \/ UNCHANGED Inside
    <3>1. CASE pc[c] = "inside"
      BY <2>2, <3>1 DEF Exclusion!Leave
    <3>2. CASE pc[c] # "inside"
      BY <2>2, <3>2
    <3> QED BY <3>1, <3>2
  <2>3. ASSUME NEW c \in Call, Step(c)
        PROVE  Exclusion!Enter(c) \/ Exclusion!Leave(c) \/ UNCHANGED Inside
    BY <2>1, <2>2, <2>3 DEF Step, Insert, Select, ProbeAlive, ProbeDead,
       Reap, Retry, Finish, Release, Goto, Return, Pc
  <2>4. ASSUME NEW c \in Call, Fault(c)
        PROVE  Exclusion!Leave(c) \/ UNCHANGED Inside
    BY <2>2, <2>4 DEF Fault, StorageError, Panic, CancelOutside,
       CancelInside, Return, Pc
  <2>5. ASSUME NEW c \in Call, Request(c) \/ TakeMutex(c)
        PROVE  UNCHANGED Inside
    BY <2>5 DEF Request, TakeMutex, Goto
  <2>6. ASSUME NEW d \in Daemon, Crash(d)
        PROVE  (\E c \in Call : Exclusion!Leave(c)) \/ UNCHANGED Inside
    <3>1. Inside' = {c \in Inside : DaemonOf[c] # d}
      BY <2>6 DEF Crash
    <3>2. \A c, e \in Inside : c = e
      BY DEF SectionAlone, InSection
    <3> QED BY <3>1, <3>2 DEF Exclusion!Leave
  <2>7. (\E d \in Daemon : Start(d)) \/ (\E c \in Call : Cleanup(c))
            \/ UNCHANGED vars => UNCHANGED Inside
    BY DEF Start, Cleanup, vars
  <2> QED
    BY <2>3, <2>4, <2>5, <2>6, <2>7 DEF Next, Exclusion!Next
<1> QED
  BY Invariance, <1>1, <1>2, PTL DEF Spec, Implements, Exclusion!Spec
=============================================================================
