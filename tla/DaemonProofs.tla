---------------------------- MODULE DaemonProofs ---------------------------
(***************************************************************************)
(* Proofs about Startup (types, the lock on the data directory, the        *)
(* ownership sentinel, the bootstrap account) and about Daemon (no panic   *)
(* of a task is lost to the exit code, the schedule of the reconnect       *)
(* loop's waits).  The two modules are specifications of their own; what   *)
(* is proved of one cites nothing of the other.                            *)
(***************************************************************************)
EXTENDS Startup, Daemon, TLAPS

Holds(d) == at[d] \notin {"down", "open"}

(* Every step but a start leaves the numbers of the starts alone.          *)
LEMMA AppendKeeps ==
    ASSUME NEW s \in Seq(Install), NEW i \in Install
    PROVE  /\ Append(s, i) \in Seq(Install)
           /\ Len(Append(s, i)) = Len(s) + 1 /\ Len(s) \in Nat
           /\ \A n \in 1..Len(s) : Append(s, i)[n] = s[n]
           /\ Append(s, i)[Len(s) + 1] = i
OBVIOUS

LEMMA StartedGrows ==
    ASSUME TypeOK, NEW i \in Install, starts' = Append(starts, i)
    PROVE  /\ starts' \in Seq(Install)
           /\ Started \subseteq Started' /\ Len(starts) + 1 \in Started'
           /\ Len(starts) + 1 \notin Started /\ Len(starts) + 1 \in Nat
           /\ Started \subseteq Nat
           /\ \A n \in Started : starts'[n] = starts[n]
           /\ starts'[Len(starts) + 1] = i
BY AppendKeeps DEF TypeOK, Started

LEMMA RunTyped ==
    ASSUME TypeOK, NEW d \in Daemon, at[d] # "down"
    PROVE  run[d] \in Started /\ run[d] \in Nat /\ run[d] # 0 /\ Dir(d) \in Install
BY DEF TypeOK, Started, Dir

-----------------------------------------------------------------------------
(* Types.                                                                  *)

LEMMA InitTypes == Init => TypeOK
<1> SUFFICES ASSUME Init PROVE TypeOK
  OBVIOUS
<1>1. starts \in Seq(Install)
  BY DEF Init
<1>2. \A d \in Daemon : at[d] = "down"
  BY DEF Init
<1>3. /\ at \in [Daemon -> Gates]
      /\ run \in [Daemon -> Nat] /\ id \in [Daemon -> Nat]
      /\ idFile \in [Install -> {0} \cup Started]
      /\ creds \in [Install -> {0, Garbled} \cup Started]
      /\ account \in [Install -> {0} \cup Started]
  BY DEF Init, Gates
<1>4. /\ mustChange \in [Install -> BOOLEAN] /\ row \in [Install -> BOOLEAN]
      /\ sentinel = 0 /\ late = {} /\ displaced = FALSE
  BY DEF Init
<1> QED BY <1>1, <1>2, <1>3, <1>4 DEF TypeOK, Identified

LEMMA LaunchTypes == ASSUME TypeOK, NEW d \in Daemon, Launch(d) PROVE TypeOK'
<1>1. PICK i \in Install : starts' = Append(starts, i)
  BY DEF Launch
<1>2. /\ starts' \in Seq(Install)
      /\ Started \subseteq Started' /\ Len(starts) + 1 \in Started'
      /\ Len(starts) + 1 \in Nat /\ Started \subseteq Nat
  BY <1>1, StartedGrows
<1> QED BY <1>2 DEF Launch, Goto, TypeOK, Gates, Identified, directory, caddy

LEMMA PutTypes ==
    ASSUME TypeOK, NEW kind, NEW n \in Started, Put(kind, n)
    PROVE  sentinel' \in {0} \cup Started /\ displaced' \in BOOLEAN
BY DEF TypeOK, Put, SentinelBecomes

LEMMA StepTypes == ASSUME TypeOK, NEW d \in Daemon, Step(d) PROVE TypeOK'
<1> USE RunTyped DEF Goto, Gone, Gates, Identified, Started, directory, caddy
<1>1. CASE OpenStorage(d)
  BY <1>1 DEF OpenStorage, TypeOK
<1>2. CASE ReadId(d)
  BY <1>2 DEF ReadId, TypeOK
<1>3. CASE DraftId(d)
  BY <1>3 DEF DraftId, TypeOK
<1>4. CASE RenameId(d)
  BY <1>4 DEF RenameId, TypeOK
<1>5. CASE FindSentinel(d)
  BY <1>5 DEF FindSentinel, Verdict, TypeOK
<1>6. CASE PutSentinel(d)
  BY <1>6, PutTypes DEF PutSentinel, TypeOK
<1>7. CASE PutUnanswered(d)
  <2>1. <<at[d], id[d]>> \in {"claim", "takeover"} \X Started
    BY <1>7 DEF PutUnanswered, TypeOK
  <2>2. late' \in SUBSET ({"claim", "takeover"} \X Started)
    BY <1>7, <2>1 DEF PutUnanswered, TypeOK
  <2>3. at' \in [Daemon -> Gates] /\ run' \in [Daemon -> Nat] /\ id' \in [Daemon -> Nat]
    BY <1>7 DEF PutUnanswered, TypeOK
  <2>4. \A e \in Daemon : at'[e] # "down" => at[e] = at'[e] /\ run'[e] = run[e] /\ id'[e] = id[e]
    BY <1>7 DEF PutUnanswered, TypeOK
  <2> QED BY <1>7, <2>2, <2>3, <2>4 DEF PutUnanswered, TypeOK
<1>8. CASE CountUsers(d)
  BY <1>8 DEF CountUsers, TypeOK
<1>9. CASE WriteFile(d)
  BY <1>9 DEF WriteFile, TypeOK
<1>10. CASE WriteFails(d)
  BY <1>10 DEF WriteFails, TypeOK
<1>11. CASE CreateUser(d)
  BY <1>11 DEF CreateUser, TypeOK
<1>12. CASE SetFlag(d)
  BY <1>12 DEF SetFlag, TypeOK
<1>13. CASE UserFails(d)
  BY <1>13 DEF UserFails, TypeOK
<1>14. CASE RecordBootstrap(d)
  BY <1>14 DEF RecordBootstrap, TypeOK
<1>15. CASE BindHttp(d)
  BY <1>15 DEF BindHttp, TypeOK
<1> QED BY <1>1, <1>2, <1>3, <1>4, <1>5, <1>6, <1>7, <1>8, <1>9, <1>10, <1>11,
           <1>12, <1>13, <1>14, <1>15 DEF Step

LEMMA NextTypes == TypeOK /\ [Next]_vars => TypeOK'
<1> SUFFICES ASSUME TypeOK, [Next]_vars PROVE TypeOK'
  OBVIOUS
<1>1. ASSUME NEW d \in Daemon, Launch(d) PROVE TypeOK'
  BY <1>1, LaunchTypes
<1>2. ASSUME NEW d \in Daemon, Down(d) PROVE TypeOK'
  BY <1>2 DEF Down, Gone, TypeOK, Gates, Identified, Started, directory, caddy
<1>3. ASSUME NEW d \in Daemon, Step(d) PROVE TypeOK'
  BY <1>3, StepTypes
<1>4. ASSUME NEW d \in Daemon, LoadDropsSentinel(d) PROVE TypeOK'
  BY <1>4 DEF LoadDropsSentinel, SentinelBecomes, TypeOK, Started, daemons, directory
<1>5. ASSUME NEW put \in late, LatePut(put) PROVE TypeOK'
  <2>1. put[2] \in Started
    BY <1>5 DEF TypeOK
  <2> QED BY <1>5, <2>1, PutTypes DEF LatePut, TypeOK, Started, daemons, directory
<1>6. CASE CaddyRestarts
  BY <1>6 DEF CaddyRestarts, SentinelBecomes, TypeOK, Started, daemons, directory
<1>7. ASSUME NEW i \in Install, RemoveFile(i) PROVE TypeOK'
  BY <1>7 DEF RemoveFile, TypeOK, Started, daemons, caddy
<1>8. CASE UNCHANGED vars
  BY <1>8 DEF vars, daemons, directory, caddy, TypeOK, Started
<1> QED BY <1>1, <1>2, <1>3, <1>4, <1>5, <1>6, <1>7, <1>8 DEF Next

(* Whatever is started, killed or lost, every variable keeps its type.     *)
THEOREM Typing == Spec => []TypeOK
<1> QED BY InitTypes, NextTypes, PTL DEF Spec

-----------------------------------------------------------------------------
(* The lock on the data directory.                                         *)

RunsDistinct ==
    \A d, e \in Daemon :
        at[d] # "down" /\ at[e] # "down" /\ run[d] = run[e] => d = e

OneHolder ==
    \A d, e \in Daemon : Holds(d) /\ Holds(e) /\ Dir(d) = Dir(e) => d = e

LockInv == TypeOK /\ RunsDistinct /\ OneHolder

(* A step of one daemon, or of none, that starts no daemon and opens no    *)
(* storage.                                                                *)
Quiet ==
    /\ starts' = starts
    /\ \A e \in Daemon : at'[e] # "down" =>
          at[e] # "down" /\ run'[e] = run[e] /\ (at'[e] # "open" => Holds(e))

LEMMA QuietLock == ASSUME LockInv, Quiet, TypeOK' PROVE LockInv'
BY DEF LockInv, Quiet, RunsDistinct, OneHolder, Holds, Dir

LEMMA StepQuiet ==
    ASSUME LockInv, NEW d \in Daemon, Step(d), ~OpenStorage(d)
    PROVE  Quiet
BY DEF LockInv, TypeOK, Quiet, Holds, Goto, Gone, Step, ReadId, DraftId, RenameId,
       FindSentinel, PutSentinel, PutUnanswered, CountUsers, WriteFile, WriteFails,
       CreateUser, SetFlag, UserFails, RecordBootstrap, BindHttp, Verdict

LEMMA LaunchLock == ASSUME LockInv, NEW d \in Daemon, Launch(d) PROVE LockInv'
<1>1. PICK i \in Install : starts' = Append(starts, i)
  BY DEF Launch
<1>2. /\ at[d] = "down" /\ at' = [at EXCEPT ![d] = "open"]
      /\ run' = [run EXCEPT ![d] = Len(starts) + 1]
  BY DEF Launch, Goto
<1>3. \A e \in Daemon : at[e] # "down" => run[e] \in Started /\ starts'[run[e]] = starts[run[e]]
  BY <1>1, StartedGrows, RunTyped DEF LockInv
<1>4. Len(starts) + 1 \notin Started
  BY <1>1, StartedGrows DEF LockInv
<1>5. RunsDistinct'
  BY <1>2, <1>3, <1>4 DEF LockInv, RunsDistinct, TypeOK
<1>6. OneHolder'
  BY <1>2, <1>3 DEF LockInv, OneHolder, Holds, Dir, TypeOK
<1> QED BY <1>5, <1>6, LaunchTypes DEF LockInv

LEMMA OpenLock == ASSUME LockInv, NEW d \in Daemon, OpenStorage(d) PROVE LockInv'
<1>1. /\ at' = [at EXCEPT ![d] = "identify"] /\ at[d] = "open"
      /\ run' = run /\ starts' = starts
  BY DEF OpenStorage, Goto
<1>2. \A e \in Daemon : Holds(e) => Dir(e) # Dir(d)
  BY DEF OpenStorage, Locked, Holds
<1>3. RunsDistinct'
  BY <1>1 DEF LockInv, RunsDistinct, TypeOK
<1>4. OneHolder'
  BY <1>1, <1>2 DEF LockInv, OneHolder, Holds, Dir, TypeOK
<1>5. TypeOK'
  BY StepTypes DEF Step, LockInv
<1> QED BY <1>3, <1>4, <1>5 DEF LockInv

LEMMA OtherQuiet ==
    ASSUME LockInv,
           \/ \E d \in Daemon : Down(d) \/ LoadDropsSentinel(d)
           \/ \E put \in late : LatePut(put)
           \/ CaddyRestarts
           \/ \E i \in Install : RemoveFile(i)
           \/ UNCHANGED vars
    PROVE  Quiet
BY DEF LockInv, TypeOK, Quiet, Holds, Down, Gone, LoadDropsSentinel, LatePut,
       CaddyRestarts, RemoveFile, vars, daemons

LEMMA NextLock == LockInv /\ [Next]_vars => LockInv'
<1> SUFFICES ASSUME LockInv, [Next]_vars PROVE LockInv'
  OBVIOUS
<1>1. TypeOK'
  BY NextTypes DEF LockInv
<1>2. ASSUME NEW d \in Daemon, Launch(d) PROVE LockInv'
  BY <1>2, LaunchLock
<1>3. ASSUME NEW d \in Daemon, OpenStorage(d) PROVE LockInv'
  BY <1>3, OpenLock
<1>4. ASSUME NEW d \in Daemon, Step(d), ~OpenStorage(d) PROVE LockInv'
  BY <1>1, <1>4, StepQuiet, QuietLock
<1> QED BY <1>1, <1>2, <1>3, <1>4, OtherQuiet, QuietLock DEF Next

-----------------------------------------------------------------------------
(* The installation id and the sentinel.                                   *)

(* An id is drawn by a start of the installation that saves it.            *)
IdsAtHome == \A i \in Install : idFile[i] # 0 => starts[idFile[i]] = i

IdSaved ==
    \A d \in Daemon :
        /\ at[d] = "rename" => idFile[Dir(d)] = 0 /\ id[d] = run[d]
        /\ at[d] \in Identified \ {"rename"} => idFile[Dir(d)] = id[d]

(* A takeover has seen a sentinel: it is there, or it has been dropped.    *)
TakesSomething == \A d \in Daemon : at[d] = "takeover" => displaced \/ sentinel # 0

OwnInv ==
    LockInv /\ IdsAtHome /\ IdSaved /\ OwnSentinelRecognised /\ TakesSomething /\ OwnerIsMarked

(* The part of OwnInv that concerns the data directories and the ids.      *)
SavedInv == IdsAtHome /\ IdSaved /\ OwnSentinelRecognised

LEMMA IdsAreNumbers ==
    ASSUME TypeOK
    PROVE  /\ Started \subseteq Nat /\ 0 \notin Started
           /\ \A d \in Daemon : at[d] \in Identified => id[d] \in Started /\ id[d] # 0
           /\ \A d \in Daemon : at[d] \in PastCheck \cup {"claim", "takeover"} => at[d] \in Identified
           /\ \A put \in late : put[2] \in Started /\ put[2] # 0 /\ put[1] \in {"claim", "takeover"}
BY DEF TypeOK, Started, Identified, Gates, PastCheck

LEMMA InitOwn == Init => OwnInv
<1> SUFFICES ASSUME Init PROVE OwnInv
  OBVIOUS
<1>1. /\ \A d \in Daemon : at[d] = "down"
      /\ \A i \in Install : idFile[i] = 0
      /\ sentinel = 0 /\ late = {}
  BY DEF Init
<1>2. LockInv
  BY <1>1, InitTypes DEF LockInv, RunsDistinct, OneHolder, Holds
<1>3. IdsAtHome /\ IdSaved /\ TakesSomething
  BY <1>1 DEF IdsAtHome, IdSaved, TakesSomething, Identified
<1>4. OwnSentinelRecognised
  BY <1>1 DEF OwnSentinelRecognised
<1>5. OwnerIsMarked
  BY <1>1 DEF OwnerIsMarked, PastCheck
<1> QED BY <1>2, <1>3, <1>4, <1>5 DEF OwnInv

(* A step that saves no id, and lets nobody else get one.                  *)
LEMMA SavedFrame ==
    ASSUME OwnInv, TypeOK', Quiet, idFile' = idFile,
           \A d \in Daemon : at'[d] \in Identified =>
               \/ at[d] \in Identified /\ id'[d] = id[d] /\ (at'[d] = "rename" <=> at[d] = "rename")
               \/ /\ at'[d] = "rename" /\ idFile[Dir(d)] = 0 /\ id'[d] = run[d]
               \/ /\ at'[d] # "rename" /\ idFile[Dir(d)] = id'[d],
           {sentinel'} \cup {put[2] : put \in late'}
               \subseteq {0, sentinel} \cup {put[2] : put \in late}
                         \cup {id[d] : d \in {e \in Daemon : at[e] \in {"claim", "takeover"}}}
    PROVE  SavedInv'
<1>1. starts' = starts
  BY DEF Quiet
<1>2. \A d \in Daemon : at'[d] # "down" => Dir(d)' = Dir(d) /\ run'[d] = run[d]
  BY DEF Quiet, Dir
<1>3. IdsAtHome'
  BY <1>1 DEF OwnInv, IdsAtHome
<1>4. IdSaved'
  <2> SUFFICES ASSUME NEW d \in Daemon, at'[d] \in Identified
               PROVE  /\ at'[d] = "rename" => idFile'[Dir(d)'] = 0 /\ id'[d] = run'[d]
                      /\ at'[d] # "rename" => idFile'[Dir(d)'] = id'[d]
    BY DEF IdSaved, Identified, Gates
  <2>1. Dir(d)' = Dir(d) /\ run'[d] = run[d] /\ idFile'[Dir(d)'] = idFile[Dir(d)]
    BY <1>2 DEF Identified
  <2>2. at[d] \in Identified =>
           /\ at[d] = "rename" => idFile[Dir(d)] = 0 /\ id[d] = run[d]
           /\ at[d] # "rename" => idFile[Dir(d)] = id[d]
    BY DEF OwnInv, IdSaved
  <2> QED BY <2>1, <2>2
<1>5. \A d \in Daemon : at[d] \in {"claim", "takeover"} => idFile[starts[id[d]]] = id[d]
  <2> SUFFICES ASSUME NEW d \in Daemon, at[d] \in {"claim", "takeover"}
               PROVE  idFile[starts[id[d]]] = id[d]
    OBVIOUS
  <2>1. idFile[Dir(d)] = id[d] /\ id[d] # 0 /\ Dir(d) \in Install
    BY IdsAreNumbers, RunTyped DEF OwnInv, LockInv, IdSaved, Identified, Gates, PastCheck
  <2>2. starts[id[d]] = Dir(d)
    BY <2>1 DEF OwnInv, IdsAtHome
  <2> QED BY <2>1, <2>2
<1>6. OwnSentinelRecognised'
  BY <1>1, <1>5 DEF OwnInv, OwnSentinelRecognised
<1> QED BY <1>3, <1>4, <1>6 DEF SavedInv

LEMMA LaunchSaved == ASSUME OwnInv, NEW d \in Daemon, Launch(d) PROVE SavedInv'
<1>1. PICK i \in Install : starts' = Append(starts, i)
  BY DEF Launch
<1>2. TypeOK
  BY DEF OwnInv, LockInv
<1>3. \A n \in Started : starts'[n] = starts[n]
  BY <1>1, <1>2, StartedGrows
<1>4. /\ at' = [at EXCEPT ![d] = "open"] /\ run' = [run EXCEPT ![d] = Len(starts) + 1]
      /\ id' = id /\ idFile' = idFile /\ sentinel' = sentinel /\ late' = late
  BY DEF Launch, Goto, directory, caddy
<1>5. IdsAtHome'
  BY <1>2, <1>3, <1>4 DEF OwnInv, IdsAtHome, TypeOK
<1>6. \A e \in Daemon : at'[e] \in Identified =>
          e # d /\ at[e] = at'[e] /\ run'[e] = run[e] /\ run[e] \in Started
  BY <1>2, <1>4, RunTyped DEF TypeOK, Identified
<1>7. IdSaved'
  BY <1>3, <1>4, <1>6 DEF OwnInv, IdSaved, Dir, Identified, Gates
<1>8. OwnSentinelRecognised'
  BY <1>2, <1>3, <1>4, IdsAreNumbers DEF OwnInv, OwnSentinelRecognised, TypeOK
<1> QED BY <1>5, <1>7, <1>8 DEF SavedInv

LEMMA RenameSaved == ASSUME OwnInv, NEW d \in Daemon, RenameId(d) PROVE SavedInv'
<1>1. /\ at[d] = "rename" /\ at' = [at EXCEPT ![d] = "check"]
      /\ idFile' = [idFile EXCEPT ![Dir(d)] = id[d]]
      /\ starts' = starts /\ run' = run /\ id' = id /\ sentinel' = sentinel /\ late' = late
  BY DEF RenameId, Goto, caddy
<1>2. TypeOK
  BY DEF OwnInv, LockInv
<1>3. idFile[Dir(d)] = 0 /\ id[d] = run[d] /\ Dir(d) \in Install
  BY <1>1, <1>2, RunTyped DEF OwnInv, IdSaved
<1>4. IdsAtHome'
  BY <1>1, <1>2, <1>3 DEF OwnInv, IdsAtHome, Dir, TypeOK
<1>5. \A e \in Daemon : Dir(e)' = Dir(e)
  BY <1>1 DEF Dir
<1>6. \A e \in Daemon : e # d /\ at[e] \in Identified => Dir(e) # Dir(d)
  BY <1>1 DEF OwnInv, LockInv, OneHolder, Holds, Identified
<1>7. IdSaved'
  BY <1>1, <1>2, <1>3, <1>5, <1>6 DEF OwnInv, IdSaved, Identified, Gates, TypeOK
<1>8. \A n \in Started : starts[n] \in Install
  BY <1>2 DEF TypeOK, Started
<1>9. OwnSentinelRecognised'
  <2> SUFFICES ASSUME NEW n \in {sentinel} \cup {put[2] : put \in late}, n # 0
               PROVE  idFile'[starts[n]] = n
    BY <1>1 DEF OwnSentinelRecognised
  <2>1. idFile[starts[n]] = n /\ n \in Started
    BY <1>2, IdsAreNumbers DEF OwnInv, OwnSentinelRecognised, TypeOK
  <2>2. starts[n] # Dir(d) /\ starts[n] \in Install
    BY <1>3, <1>8, <2>1
  <2> QED BY <1>1, <1>2, <2>1, <2>2 DEF TypeOK
<1> QED BY <1>4, <1>7, <1>9 DEF SavedInv

-----------------------------------------------------------------------------
LEMMA StepSaved == ASSUME OwnInv, NEW d \in Daemon, Step(d) PROVE SavedInv'
<1>1. TypeOK /\ LockInv /\ TypeOK'
  BY StepTypes DEF OwnInv, LockInv
<1>2. \A e \in Daemon : at[e] # "down" => Dir(e) \in Install
  BY <1>1, RunTyped
<1>3. CASE OpenStorage(d)
  <2>1. /\ at[d] = "open" /\ at' = [at EXCEPT ![d] = "identify"]
        /\ starts' = starts /\ run' = run /\ id' = id
        /\ idFile' = idFile /\ sentinel' = sentinel /\ late' = late
    BY <1>3 DEF OpenStorage, Goto, directory, caddy
  <2>2. \A e \in Daemon : at'[e] \in Identified => at'[e] = at[e]
    BY <1>1, <2>1 DEF TypeOK, Identified
  <2>3. IdsAtHome' /\ OwnSentinelRecognised'
    BY <2>1 DEF OwnInv, IdsAtHome, OwnSentinelRecognised
  <2>4. IdSaved'
    BY <2>1, <2>2 DEF OwnInv, IdSaved, Dir, Identified, Gates
  <2> QED BY <2>3, <2>4 DEF SavedInv
<1>4. CASE RenameId(d)
  BY <1>4, RenameSaved
<1>5. CASE ReadId(d)
  <2>1. /\ at[d] = "identify" /\ at' = [at EXCEPT ![d] = "check"]
        /\ id' = [id EXCEPT ![d] = idFile[Dir(d)]]
        /\ idFile' = idFile /\ sentinel' = sentinel /\ late' = late
    BY <1>5 DEF ReadId, Goto, directory, caddy
  <2>2. Quiet
    BY <1>1, <1>5, <2>1, StepQuiet DEF OpenStorage, Goto
  <2>3. \A e \in Daemon : at'[e] \in Identified =>
           \/ at[e] \in Identified /\ id'[e] = id[e] /\ (at'[e] = "rename" <=> at[e] = "rename")
           \/ at'[e] # "rename" /\ idFile[Dir(e)] = id'[e]
    BY <1>1, <2>1 DEF TypeOK
  <2> QED BY <1>1, <2>1, <2>2, <2>3, SavedFrame
<1>6. CASE DraftId(d)
  <2>1. /\ at[d] = "identify" /\ at' = [at EXCEPT ![d] = "rename"]
        /\ id' = [id EXCEPT ![d] = run[d]] /\ idFile[Dir(d)] = 0
        /\ idFile' = idFile /\ sentinel' = sentinel /\ late' = late
    BY <1>6 DEF DraftId, Goto, directory, caddy
  <2>2. Quiet
    BY <1>1, <1>6, <2>1, StepQuiet DEF OpenStorage, Goto
  <2>3. \A e \in Daemon : at'[e] \in Identified =>
           \/ at[e] \in Identified /\ id'[e] = id[e] /\ (at'[e] = "rename" <=> at[e] = "rename")
           \/ at'[e] = "rename" /\ idFile[Dir(e)] = 0 /\ id'[e] = run[e]
    BY <1>1, <2>1 DEF TypeOK
  <2> QED BY <1>1, <2>1, <2>2, <2>3, SavedFrame
<1>7. CASE PutSentinel(d)
  <2>1. /\ at[d] \in {"claim", "takeover"} /\ at' = [at EXCEPT ![d] = "count"]
        /\ id' = id /\ sentinel' \in {0, id[d]} /\ idFile' = idFile /\ late' = late
    BY <1>7 DEF PutSentinel, Put, SentinelBecomes, Goto, directory
  <2>2. Quiet
    BY <1>1, <1>7, <2>1, StepQuiet DEF OpenStorage, Goto
  <2>3. \A e \in Daemon : at'[e] \in Identified =>
           at[e] \in Identified /\ id'[e] = id[e] /\ (at'[e] = "rename" <=> at[e] = "rename")
    BY <1>1, <2>1 DEF TypeOK, Identified, Gates
  <2> QED BY <1>1, <2>1, <2>2, <2>3, SavedFrame
<1>8. CASE PutUnanswered(d)
  <2>1. /\ at[d] \in {"claim", "takeover"} /\ at' = [at EXCEPT ![d] = "down"]
        /\ id' = [id EXCEPT ![d] = 0] /\ sentinel' = sentinel /\ idFile' = idFile
        /\ late' = late \cup {<<at[d], id[d]>>}
    BY <1>8 DEF PutUnanswered, Gone, directory
  <2>2. Quiet
    BY <1>1, <1>8, <2>1, StepQuiet DEF OpenStorage, Goto
  <2>3. \A e \in Daemon : at'[e] \in Identified =>
           at[e] \in Identified /\ id'[e] = id[e] /\ (at'[e] = "rename" <=> at[e] = "rename")
    BY <1>1, <2>1 DEF TypeOK, Identified, Gates
  <2> QED BY <1>1, <2>1, <2>2, <2>3, SavedFrame
<1>9. CASE \/ FindSentinel(d) \/ CountUsers(d) \/ WriteFile(d) \/ WriteFails(d) \/ CreateUser(d)
           \/ SetFlag(d) \/ UserFails(d) \/ RecordBootstrap(d) \/ BindHttp(d)
  <2>1. idFile' = idFile /\ sentinel' = sentinel /\ late' = late
    BY <1>9 DEF FindSentinel, CountUsers, WriteFile, WriteFails, CreateUser, SetFlag, UserFails,
                RecordBootstrap, BindHttp, directory, caddy
  <2>2. at[d] # "open"
    BY <1>9 DEF FindSentinel, CountUsers, WriteFile, WriteFails, CreateUser, SetFlag, UserFails,
                RecordBootstrap, BindHttp, Goto
  <2>3. Quiet
    BY <1>1, <1>9, <2>2, StepQuiet DEF OpenStorage, Goto
  <2>4. \A e \in Daemon : at'[e] \in Identified =>
           at[e] \in Identified /\ id'[e] = id[e] /\ (at'[e] = "rename" <=> at[e] = "rename")
    BY <1>1, <1>9 DEF FindSentinel, CountUsers, WriteFile, WriteFails, CreateUser, SetFlag,
                UserFails, RecordBootstrap, BindHttp, Goto, Gone, Verdict, TypeOK, Identified, Gates
  <2> QED BY <1>1, <2>1, <2>3, <2>4, SavedFrame
<1> QED BY <1>3, <1>4, <1>5, <1>6, <1>7, <1>8, <1>9 DEF Step

LEMMA OtherSaved ==
    ASSUME OwnInv,
           \/ \E d \in Daemon : Down(d) \/ LoadDropsSentinel(d)
           \/ \E put \in late : LatePut(put)
           \/ CaddyRestarts
           \/ \E i \in Install : RemoveFile(i)
           \/ UNCHANGED vars
    PROVE  SavedInv'
<1>1. TypeOK /\ LockInv /\ Quiet
  BY OtherQuiet DEF OwnInv, LockInv
<1>2. TypeOK'
  BY <1>1, NextTypes DEF Next
<1>3. idFile' = idFile
  BY DEF Down, LoadDropsSentinel, LatePut, CaddyRestarts, RemoveFile, vars, directory
<1>4. \A e \in Daemon : at'[e] \in Identified =>
         at[e] \in Identified /\ id'[e] = id[e] /\ (at'[e] = "rename" <=> at[e] = "rename")
  BY <1>1 DEF Down, Gone, LoadDropsSentinel, LatePut, CaddyRestarts, RemoveFile, vars, daemons,
              TypeOK, Identified
<1>5. {sentinel'} \cup {put[2] : put \in late'} \subseteq {0, sentinel} \cup {put[2] : put \in late}
  BY DEF Down, LoadDropsSentinel, LatePut, CaddyRestarts, RemoveFile, vars, caddy, Put,
         SentinelBecomes
<1> QED BY <1>1, <1>2, <1>3, <1>4, <1>5, SavedFrame

(* Who is past the check, or about to take over, keeps what it relies on:  *)
(* a sentinel that is replaced or dropped is remembered as displaced.      *)
MarkInv == TakesSomething /\ OwnerIsMarked

LEMMA MarkFrame ==
    ASSUME OwnInv, displaced' = (displaced \/ (sentinel # 0 /\ sentinel' # sentinel)),
           \A d \in Daemon : at'[d] = "takeover" =>
               at[d] = "takeover" \/ displaced' \/ sentinel' # 0,
           \A d \in Daemon : at'[d] \in PastCheck =>
               (at[d] \in PastCheck /\ id'[d] = id[d]) \/ displaced' \/ sentinel' = id'[d]
    PROVE  MarkInv'
<1>1. \A d \in Daemon : at[d] \in PastCheck => id[d] # 0
  BY IdsAreNumbers DEF OwnInv, LockInv
<1>2. TakesSomething'
  BY DEF OwnInv, TakesSomething
<1>3. OwnerIsMarked'
  BY <1>1 DEF OwnInv, OwnerIsMarked
<1> QED BY <1>2, <1>3 DEF MarkInv

LEMMA StepMark == ASSUME OwnInv, NEW d \in Daemon, Step(d) PROVE MarkInv'
<1>1. TypeOK
  BY DEF OwnInv, LockInv
<1>2. CASE PutSentinel(d)
  <2>1. /\ at[d] \in {"claim", "takeover"} /\ at' = [at EXCEPT ![d] = "count"] /\ id' = id
        /\ sentinel' = IF at[d] = "takeover" /\ sentinel = 0 THEN 0 ELSE id[d]
        /\ displaced' = (displaced \/ (sentinel # 0 /\ sentinel' # sentinel))
    BY <1>2 DEF PutSentinel, Put, SentinelBecomes, Goto
  <2>2. at[d] = "takeover" => displaced \/ sentinel # 0
    BY DEF OwnInv, TakesSomething
  <2>3. displaced' \/ sentinel' = id'[d]
    BY <2>1, <2>2
  <2>4. \A e \in Daemon : e # d => at'[e] = at[e]
    BY <1>1, <2>1 DEF TypeOK
  <2>5. at'[d] = "count"
    BY <1>1, <2>1 DEF TypeOK
  <2> QED BY <2>1, <2>3, <2>4, <2>5, MarkFrame
<1>3. CASE FindSentinel(d)
  <2> DEFINE next == Verdict(d, sentinel)
  <2>1. /\ at' = [at EXCEPT ![d] = next] /\ id' = id
        /\ sentinel' = sentinel /\ displaced' = displaced
    BY <1>3 DEF FindSentinel, Goto, caddy
  <2>2. /\ next = "takeover" => sentinel # 0
        /\ next \in PastCheck => sentinel = id[d]
    BY DEF Verdict, PastCheck
  <2>3. /\ at'[d] = next
        /\ \A e \in Daemon : e # d => at'[e] = at[e]
    <3> HIDE DEF next
    <3> QED BY <1>1, <2>1 DEF TypeOK
  <2>4. displaced' = (displaced \/ (sentinel # 0 /\ sentinel' # sentinel))
    BY <1>1, <2>1 DEF TypeOK
  <2> HIDE DEF next
  <2> QED BY <2>1, <2>2, <2>3, <2>4, MarkFrame
<1>4. CASE \/ OpenStorage(d) \/ ReadId(d) \/ DraftId(d) \/ RenameId(d) \/ PutUnanswered(d)
           \/ CountUsers(d) \/ WriteFile(d) \/ WriteFails(d) \/ CreateUser(d) \/ SetFlag(d)
           \/ UserFails(d) \/ RecordBootstrap(d) \/ BindHttp(d)
  <2>1. sentinel' = sentinel /\ displaced' = displaced
    BY <1>4 DEF OpenStorage, ReadId, DraftId, RenameId, PutUnanswered, CountUsers, WriteFile,
                WriteFails, CreateUser, SetFlag, UserFails, RecordBootstrap, BindHttp, caddy
  <2>2. /\ \A e \in Daemon : at'[e] = "takeover" => at[e] = "takeover"
        /\ \A e \in Daemon : at'[e] \in PastCheck => at[e] \in PastCheck /\ id'[e] = id[e]
    BY <1>1, <1>4 DEF OpenStorage, ReadId, DraftId, RenameId, PutUnanswered, CountUsers, WriteFile,
                WriteFails, CreateUser, SetFlag, UserFails, RecordBootstrap, BindHttp,
                Goto, Gone, TypeOK, PastCheck
  <2>3. displaced' = (displaced \/ (sentinel # 0 /\ sentinel' # sentinel))
    BY <1>1, <2>1 DEF TypeOK
  <2> QED BY <2>2, <2>3, MarkFrame
<1> QED BY <1>2, <1>3, <1>4 DEF Step

LEMMA OtherMark ==
    ASSUME OwnInv,
           \/ \E d \in Daemon : Launch(d) \/ Down(d) \/ LoadDropsSentinel(d)
           \/ \E put \in late : LatePut(put)
           \/ CaddyRestarts
           \/ \E i \in Install : RemoveFile(i)
           \/ UNCHANGED vars
    PROVE  MarkInv'
<1>1. TypeOK
  BY DEF OwnInv, LockInv
<1>2. displaced' = (displaced \/ (sentinel # 0 /\ sentinel' # sentinel))
  BY <1>1 DEF Launch, Down, LoadDropsSentinel, LatePut, Put, CaddyRestarts, RemoveFile, vars, caddy,
              SentinelBecomes, TypeOK
<1>3. /\ \A e \in Daemon : at'[e] = "takeover" => at[e] = "takeover"
      /\ \A e \in Daemon : at'[e] \in PastCheck => at[e] \in PastCheck /\ id'[e] = id[e]
  BY <1>1 DEF Launch, Down, LoadDropsSentinel, LatePut, CaddyRestarts, RemoveFile, vars, daemons,
              Goto, Gone, TypeOK, PastCheck
<1> QED BY <1>2, <1>3, MarkFrame

LEMMA NextOwn == OwnInv /\ [Next]_vars => OwnInv'
<1> SUFFICES ASSUME OwnInv, [Next]_vars PROVE OwnInv'
  OBVIOUS
<1>1. LockInv'
  BY NextLock DEF OwnInv
<1>2. SavedInv'
  BY LaunchSaved, StepSaved, OtherSaved DEF Next
<1>3. MarkInv'
  BY StepMark, OtherMark DEF Next
<1> QED BY <1>1, <1>2, <1>3 DEF OwnInv, SavedInv, MarkInv

LEMMA OwnAlways == Spec => []OwnInv
<1> QED BY InitOwn, NextOwn, PTL DEF Spec

(* A daemon past the ownership check finds its own id in Caddy, unless a   *)
(* sentinel has been replaced or dropped (ensure_sentinel).                *)
THEOREM Marked == Spec => []OwnerIsMarked
<1>1. OwnInv => OwnerIsMarked
  BY DEF OwnInv
<1> QED BY <1>1, OwnAlways, PTL

(* An installation recognises the sentinel that it wrote                   *)
(* (read_or_create).                                                       *)
THEOREM Recognised == Spec => []OwnSentinelRecognised
<1>1. OwnInv => OwnSentinelRecognised
  BY DEF OwnInv
<1> QED BY <1>1, OwnAlways, PTL

(* Two installations manage one Caddy only after a sentinel has been       *)
(* replaced or dropped (ensure_sentinel).                                  *)
THEOREM Sole == Spec => []SoleOwner
<1>1. OwnInv => SoleOwner
  <2> SUFFICES ASSUME OwnInv, ~displaced, NEW d \in Daemon, NEW e \in Daemon,
                      at[d] \in PastCheck, at[e] \in PastCheck
               PROVE  Dir(d) = Dir(e)
    BY DEF SoleOwner
  <2>1. sentinel = id[d] /\ sentinel = id[e]
    BY DEF OwnInv, OwnerIsMarked
  <2>2. TypeOK /\ at[d] # "down" /\ at[e] # "down"
    BY DEF OwnInv, LockInv, PastCheck
  <2>3. id[d] # 0 /\ idFile[Dir(d)] = id[d] /\ idFile[Dir(e)] = id[e]
    BY <2>2, IdsAreNumbers DEF OwnInv, IdSaved, PastCheck, Identified, Gates
  <2>4. starts[id[d]] = Dir(d) /\ starts[id[e]] = Dir(e)
    BY <2>1, <2>2, <2>3, RunTyped DEF OwnInv, IdsAtHome
  <2> QED BY <2>1, <2>4
<1> QED BY <1>1, OwnAlways, PTL

-----------------------------------------------------------------------------
(* The bootstrap account.                                                  *)

(* What the start of d knows of its directory's account, file and row.     *)
KnowsAccount(d) ==
    /\ at[d] \in {"file", "user"} => account[Dir(d)] = 0
    /\ at[d] = "user" => creds[Dir(d)] = run[d]
    /\ at[d] = "flag" => account[Dir(d)] = run[d] /\ creds[Dir(d)] = run[d]
                         /\ ~mustChange[Dir(d)]
    /\ at[d] = "audit" => account[Dir(d)] = run[d] /\ mustChange[Dir(d)]

(* Until it creates the user, the password of a start is nobody's.         *)
PasswordFresh(d) ==
    at[d] \notin {"down", "flag", "audit", "bind", "ready"} => account[Dir(d)] # run[d]

BootInv ==
    /\ LockInv
    /\ \A d \in Daemon : KnowsAccount(d) /\ PasswordFresh(d)
    /\ CredentialsOpenAccount /\ BootstrapComplete

Bootstrapping == {"file", "user", "flag", "audit", "bind", "ready"}

LEMMA InitBoot == Init => BootInv
<1> SUFFICES ASSUME Init PROVE BootInv
  OBVIOUS
<1>1. \A d \in Daemon : at[d] = "down"
  BY DEF Init
<1>2. \A i \in Install : ~mustChange[i]
  BY DEF Init
<1>3. LockInv
  BY InitOwn DEF OwnInv
<1> QED BY <1>1, <1>2, <1>3 DEF BootInv, KnowsAccount, PasswordFresh, CredentialsOpenAccount,
                                BootstrapComplete

(* A step that leaves accounts, files and rows alone.                      *)
LEMMA BootFrame ==
    ASSUME BootInv, LockInv', starts' = starts,
           \A d \in Daemon : at'[d] # "down" => at[d] # "down" /\ run'[d] = run[d],
           account' = account, creds' = creds, mustChange' = mustChange, row' = row,
           \A d \in Daemon : at'[d] \in Bootstrapping =>
               \/ at[d] = at'[d]
               \/ at[d] = "bind" /\ at'[d] = "ready"
               \/ at[d] = "count" /\ at'[d] = "file" /\ account[Dir(d)] = 0
               \/ at[d] = "count" /\ at'[d] = "bind" /\ account[Dir(d)] # 0,
           \A d \in Daemon : at'[d] # "down" /\ at'[d] \notin Bootstrapping =>
               at[d] \notin {"down", "flag", "audit", "bind", "ready"}
    PROVE  BootInv'
<1>1. \A d \in Daemon : at'[d] # "down" =>
         Dir(d)' = Dir(d) /\ run'[d] = run[d] /\ at[d] # "down"
  BY DEF Dir
<1>2. ASSUME NEW d \in Daemon PROVE KnowsAccount(d)'
  BY <1>1 DEF BootInv, KnowsAccount, Bootstrapping
<1>3. ASSUME NEW d \in Daemon PROVE PasswordFresh(d)'
  BY <1>1 DEF BootInv, PasswordFresh, Bootstrapping
<1>4. CredentialsOpenAccount'
  BY DEF BootInv, CredentialsOpenAccount
<1>5. BootstrapComplete'
  BY <1>1 DEF BootInv, PasswordFresh, BootstrapComplete, Bootstrapping
<1> QED BY <1>2, <1>3, <1>4, <1>5 DEF BootInv

(* A step of one daemon that changes its own directory only: the others    *)
(* that hold their lock are elsewhere.                                     *)
LEMMA Elsewhere ==
    ASSUME LockInv, NEW d \in Daemon, at[d] \in Bootstrapping, NEW e \in Daemon, e # d
    PROVE  /\ at[e] \notin {"down", "open"} => Dir(e) # Dir(d)
           /\ at[e] # "down" => run[e] # run[d] /\ Dir(e) \in Install
           /\ run[d] \in Nat /\ run[d] # 0 /\ Dir(d) \in Install
BY RunTyped DEF LockInv, OneHolder, RunsDistinct, Holds, Bootstrapping

LEMMA LaunchBoot == ASSUME BootInv, NEW d \in Daemon, Launch(d) PROVE BootInv'
<1>1. PICK i \in Install : starts' = Append(starts, i)
  BY DEF Launch
<1>2. TypeOK /\ LockInv'
  BY LaunchLock DEF BootInv, LockInv
<1>3. /\ at' = [at EXCEPT ![d] = "open"] /\ run' = [run EXCEPT ![d] = Len(starts) + 1]
      /\ creds' = creds /\ account' = account /\ mustChange' = mustChange /\ row' = row
  BY DEF Launch, Goto, directory
<1>4. /\ \A n \in Started : starts'[n] = starts[n]
      /\ starts'[Len(starts) + 1] = i /\ Len(starts) + 1 \notin Started
      /\ Len(starts) \in Nat
  <2>1. starts \in Seq(Install)
    BY <1>2 DEF TypeOK
  <2>2. Len(starts) \in Nat
    BY <2>1
  <2> QED BY <1>1, <1>2, <2>2, StartedGrows
<1>5. \A e \in Daemon : e # d /\ at'[e] # "down" =>
         at[e] = at'[e] /\ run'[e] = run[e] /\ Dir(e)' = Dir(e)
  BY <1>2, <1>3, <1>4, RunTyped DEF TypeOK, Dir
<1>6. at'[d] = "open" /\ account'[Dir(d)'] # run'[d]
  BY <1>2, <1>3, <1>4 DEF TypeOK, Dir
<1>7. ASSUME NEW e \in Daemon PROVE KnowsAccount(e)'
  BY <1>3, <1>5, <1>6 DEF BootInv, KnowsAccount
<1>8. ASSUME NEW e \in Daemon PROVE PasswordFresh(e)'
  BY <1>3, <1>5, <1>6 DEF BootInv, PasswordFresh
<1>9. CredentialsOpenAccount'
  BY <1>3 DEF BootInv, CredentialsOpenAccount
<1>10. BootstrapComplete'
  BY <1>3, <1>5, <1>6 DEF BootInv, BootstrapComplete
<1> QED BY <1>2, <1>7, <1>8, <1>9, <1>10 DEF BootInv

LEMMA WriteFileBoot == ASSUME BootInv, LockInv', NEW d \in Daemon, WriteFile(d) PROVE BootInv'
<1>1. TypeOK /\ LockInv
  BY DEF BootInv, LockInv
<1>2. /\ at[d] = "file" /\ at' = [at EXCEPT ![d] = "user"]
      /\ creds' = [creds EXCEPT ![Dir(d)] = run[d]]
      /\ starts' = starts /\ run' = run
      /\ account' = account /\ mustChange' = mustChange /\ row' = row
  BY DEF WriteFile, Goto
<1>3. at[d] \in Bootstrapping /\ account[Dir(d)] = 0 /\ Dir(d) \in Install
  BY <1>1, <1>2, RunTyped DEF BootInv, KnowsAccount, Bootstrapping
<1>4. \A e \in Daemon : Dir(e)' = Dir(e) /\ (e # d => at'[e] = at[e])
  BY <1>1, <1>2 DEF Dir, TypeOK
<1>5. at'[d] = "user" /\ creds'[Dir(d)] = run[d]
  BY <1>1, <1>2, <1>3 DEF TypeOK
<1>6. \A i \in Install : i # Dir(d) => creds'[i] = creds[i]
  BY <1>1, <1>2 DEF TypeOK
<1>7. ASSUME NEW e \in Daemon PROVE KnowsAccount(e)' /\ PasswordFresh(e)'
  <2>1. CASE e = d
    BY <1>2, <1>3, <1>4, <1>5, <2>1 DEF BootInv, KnowsAccount, PasswordFresh
  <2>2. CASE e # d
    BY <1>1, <1>2, <1>3, <1>4, <1>6, <2>2, Elsewhere DEF BootInv, KnowsAccount, PasswordFresh
  <2> QED BY <2>1, <2>2
<1>8. CredentialsOpenAccount'
  BY <1>2, <1>3, <1>6 DEF BootInv, CredentialsOpenAccount
<1>9. BootstrapComplete'
  BY <1>2, <1>4, <1>5 DEF BootInv, BootstrapComplete
<1> QED BY <1>7, <1>8, <1>9 DEF BootInv

(* The two ways a start ends having touched the file only.                 *)
LEMMA FileOnlyBoot ==
    ASSUME BootInv, LockInv', NEW d \in Daemon, WriteFails(d) \/ UserFails(d)
    PROVE  BootInv'
<1>1. TypeOK /\ LockInv
  BY DEF BootInv, LockInv
<1>2. /\ at[d] \in {"file", "user", "flag"} /\ at' = [at EXCEPT ![d] = "down"]
      /\ run' = [run EXCEPT ![d] = 0] /\ starts' = starts
      /\ account' = account /\ mustChange' = mustChange /\ row' = row
  BY DEF WriteFails, UserFails, Gone
<1>3. \A i \in Install : i # Dir(d) => creds'[i] = creds[i]
  BY <1>1 DEF WriteFails, UserFails, TypeOK
<1>4. at[d] \in Bootstrapping /\ Dir(d) \in Install
  BY <1>1, <1>2, RunTyped DEF Bootstrapping
<1>5. ~mustChange[Dir(d)]
  <2>1. at[d] \in {"file", "user"} => account[Dir(d)] = 0
    BY DEF BootInv, KnowsAccount
  <2>2. at[d] = "flag" => ~mustChange[Dir(d)]
    BY DEF BootInv, KnowsAccount
  <2> QED BY <1>2, <1>4, <2>1, <2>2 DEF BootInv, CredentialsOpenAccount
<1>6. \A e \in Daemon : at'[e] # "down" =>
         e # d /\ at'[e] = at[e] /\ run'[e] = run[e] /\ Dir(e)' = Dir(e)
  BY <1>1, <1>2 DEF Dir, TypeOK
<1>7. ASSUME NEW e \in Daemon PROVE KnowsAccount(e)' /\ PasswordFresh(e)'
  BY <1>1, <1>2, <1>3, <1>4, <1>6, Elsewhere DEF BootInv, KnowsAccount, PasswordFresh
<1>8. CredentialsOpenAccount'
  BY <1>2, <1>3, <1>5 DEF BootInv, CredentialsOpenAccount
<1>9. BootstrapComplete'
  BY <1>2, <1>6 DEF BootInv, BootstrapComplete
<1> QED BY <1>7, <1>8, <1>9 DEF BootInv

LEMMA CreateUserBoot == ASSUME BootInv, LockInv', NEW d \in Daemon, CreateUser(d) PROVE BootInv'
<1>1. TypeOK /\ LockInv
  BY DEF BootInv, LockInv
<1>2. /\ at[d] = "user" /\ at' = [at EXCEPT ![d] = "flag"]
      /\ account' = [account EXCEPT ![Dir(d)] = run[d]]
      /\ starts' = starts /\ run' = run
      /\ creds' = creds /\ mustChange' = mustChange /\ row' = row
  BY DEF CreateUser, Goto
<1>3. at[d] \in Bootstrapping /\ Dir(d) \in Install
  BY <1>1, <1>2, RunTyped DEF Bootstrapping
<1>4. account[Dir(d)] = 0 /\ creds[Dir(d)] = run[d] /\ ~mustChange[Dir(d)]
  BY <1>2, <1>3 DEF BootInv, KnowsAccount, CredentialsOpenAccount
<1>5. \A e \in Daemon : Dir(e)' = Dir(e) /\ (e # d => at'[e] = at[e])
  BY <1>1, <1>2 DEF Dir, TypeOK
<1>6. at'[d] = "flag" /\ account'[Dir(d)] = run[d]
  BY <1>1, <1>2, <1>3 DEF TypeOK
<1>7. \A i \in Install : i # Dir(d) => account'[i] = account[i]
  BY <1>1, <1>2 DEF TypeOK
<1>8. ASSUME NEW e \in Daemon PROVE KnowsAccount(e)' /\ PasswordFresh(e)'
  <2>1. CASE e = d
    BY <1>2, <1>4, <1>5, <1>6, <2>1 DEF KnowsAccount, PasswordFresh
  <2>2. CASE e # d
    <3>1. KnowsAccount(e)'
      BY <1>1, <1>2, <1>3, <1>5, <1>7, <2>2, Elsewhere DEF BootInv, KnowsAccount
    <3>2. PasswordFresh(e)'
      BY <1>1, <1>2, <1>3, <1>5, <1>6, <1>7, <2>2, Elsewhere DEF BootInv, PasswordFresh
    <3> QED BY <3>1, <3>2
  <2> QED BY <2>1, <2>2
<1>9. CredentialsOpenAccount'
  BY <1>2, <1>4, <1>7 DEF BootInv, CredentialsOpenAccount
<1>10. BootstrapComplete'
  BY <1>1, <1>2, <1>3, <1>5, <1>6, <1>7, Elsewhere DEF BootInv, BootstrapComplete
<1> QED BY <1>8, <1>9, <1>10 DEF BootInv

LEMMA SetFlagBoot == ASSUME BootInv, LockInv', NEW d \in Daemon, SetFlag(d) PROVE BootInv'
<1>1. TypeOK /\ LockInv
  BY DEF BootInv, LockInv
<1>2. /\ at[d] = "flag" /\ at' = [at EXCEPT ![d] = "audit"]
      /\ mustChange' = [mustChange EXCEPT ![Dir(d)] = TRUE]
      /\ starts' = starts /\ run' = run
      /\ creds' = creds /\ account' = account /\ row' = row
  BY DEF SetFlag, Goto
<1>3. at[d] \in Bootstrapping /\ Dir(d) \in Install /\ run[d] # 0
  BY <1>1, <1>2, RunTyped DEF Bootstrapping
<1>4. account[Dir(d)] = run[d] /\ creds[Dir(d)] = run[d]
  BY <1>2 DEF BootInv, KnowsAccount
<1>5. \A e \in Daemon : Dir(e)' = Dir(e) /\ (e # d => at'[e] = at[e])
  BY <1>1, <1>2 DEF Dir, TypeOK
<1>6. at'[d] = "audit" /\ mustChange'[Dir(d)]
  BY <1>1, <1>2, <1>3 DEF TypeOK
<1>7. \A i \in Install : i # Dir(d) => mustChange'[i] = mustChange[i]
  BY <1>1, <1>2 DEF TypeOK
<1>8. ASSUME NEW e \in Daemon PROVE KnowsAccount(e)' /\ PasswordFresh(e)'
  <2>1. CASE e = d
    BY <1>2, <1>4, <1>5, <1>6, <2>1 DEF KnowsAccount, PasswordFresh
  <2>2. CASE e # d
    BY <1>1, <1>2, <1>3, <1>5, <1>7, <2>2, Elsewhere DEF BootInv, KnowsAccount, PasswordFresh
  <2> QED BY <2>1, <2>2
<1>9. CredentialsOpenAccount'
  BY <1>2, <1>3, <1>4, <1>7 DEF BootInv, CredentialsOpenAccount
<1>10. BootstrapComplete'
  BY <1>1, <1>2, <1>3, <1>5, <1>6, <1>7, Elsewhere DEF BootInv, BootstrapComplete
<1> QED BY <1>8, <1>9, <1>10 DEF BootInv

LEMMA RecordBoot == ASSUME BootInv, LockInv', NEW d \in Daemon, RecordBootstrap(d) PROVE BootInv'
<1>1. TypeOK /\ LockInv
  BY DEF BootInv, LockInv
<1>2. /\ at[d] = "audit" /\ at' = [at EXCEPT ![d] = "bind"]
      /\ row' = [row EXCEPT ![Dir(d)] = TRUE]
      /\ starts' = starts /\ run' = run
      /\ creds' = creds /\ account' = account /\ mustChange' = mustChange
  BY DEF RecordBootstrap, Goto
<1>3. at[d] \in Bootstrapping /\ Dir(d) \in Install /\ run[d] # 0
  BY <1>1, <1>2, RunTyped DEF Bootstrapping
<1>4. account[Dir(d)] = run[d] /\ mustChange[Dir(d)]
  BY <1>2 DEF BootInv, KnowsAccount
<1>5. \A e \in Daemon : Dir(e)' = Dir(e) /\ (e # d => at'[e] = at[e])
  BY <1>1, <1>2 DEF Dir, TypeOK
<1>6. at'[d] = "bind" /\ row'[Dir(d)]
  BY <1>1, <1>2, <1>3 DEF TypeOK
<1>7. \A i \in Install : i # Dir(d) => row'[i] = row[i]
  BY <1>1, <1>2 DEF TypeOK
<1>8. ASSUME NEW e \in Daemon PROVE KnowsAccount(e)' /\ PasswordFresh(e)'
  BY <1>2, <1>5, <1>6 DEF BootInv, KnowsAccount, PasswordFresh
<1>9. CredentialsOpenAccount'
  BY <1>2 DEF BootInv, CredentialsOpenAccount
<1>10. BootstrapComplete'
  BY <1>1, <1>2, <1>3, <1>4, <1>5, <1>6, <1>7, Elsewhere DEF BootInv, BootstrapComplete
<1> QED BY <1>8, <1>9, <1>10 DEF BootInv

LEMMA StepBoot == ASSUME BootInv, LockInv', NEW d \in Daemon, Step(d) PROVE BootInv'
<1>1. TypeOK
  BY DEF BootInv, LockInv
<1>2. CASE \/ OpenStorage(d) \/ ReadId(d) \/ DraftId(d) \/ RenameId(d) \/ FindSentinel(d)
           \/ PutSentinel(d) \/ PutUnanswered(d) \/ CountUsers(d) \/ BindHttp(d)
  <2>1. /\ starts' = starts /\ account' = account /\ creds' = creds
        /\ mustChange' = mustChange /\ row' = row
    BY <1>2 DEF OpenStorage, ReadId, DraftId, RenameId, FindSentinel, PutSentinel, PutUnanswered,
                CountUsers, BindHttp, directory
  <2>2. \A e \in Daemon : at'[e] # "down" => at[e] # "down" /\ run'[e] = run[e]
    BY <1>1, <1>2 DEF OpenStorage, ReadId, DraftId, RenameId, FindSentinel, PutSentinel,
                PutUnanswered, CountUsers, BindHttp, Goto, Gone, Verdict, TypeOK
  <2>3. /\ \A e \in Daemon : at'[e] \in Bootstrapping =>
              \/ at[e] = at'[e]
              \/ at[e] = "bind" /\ at'[e] = "ready"
              \/ at[e] = "count" /\ at'[e] = "file" /\ account[Dir(e)] = 0
              \/ at[e] = "count" /\ at'[e] = "bind" /\ account[Dir(e)] # 0
        /\ \A e \in Daemon : at'[e] # "down" /\ at'[e] \notin Bootstrapping =>
              at[e] \notin {"down", "flag", "audit", "bind", "ready"}
    BY <1>1, <1>2 DEF OpenStorage, ReadId, DraftId, RenameId, FindSentinel, PutSentinel,
                PutUnanswered, CountUsers, BindHttp, Goto, Gone, Verdict, TypeOK, Bootstrapping
  <2> QED BY <2>1, <2>2, <2>3, BootFrame
<1> QED BY <1>2, WriteFileBoot, FileOnlyBoot, CreateUserBoot, SetFlagBoot, RecordBoot DEF Step

LEMMA OtherBoot ==
    ASSUME BootInv, LockInv',
           \/ \E d \in Daemon : Down(d) \/ LoadDropsSentinel(d)
           \/ \E put \in late : LatePut(put)
           \/ CaddyRestarts
           \/ UNCHANGED vars
    PROVE  BootInv'
<1>1. TypeOK
  BY DEF BootInv, LockInv
<1>2. /\ starts' = starts /\ account' = account /\ creds' = creds
      /\ mustChange' = mustChange /\ row' = row
  BY DEF Down, LoadDropsSentinel, LatePut, CaddyRestarts, vars, daemons, directory
<1>3. \A e \in Daemon : at'[e] # "down" => at[e] = at'[e] /\ run'[e] = run[e]
  BY <1>1 DEF Down, Gone, LoadDropsSentinel, LatePut, CaddyRestarts, vars, daemons, TypeOK
<1> QED BY <1>2, <1>3, BootFrame DEF Bootstrapping

LEMMA RemoveBoot == ASSUME BootInv, LockInv', NEW i \in Install, RemoveFile(i) PROVE BootInv'
<1>1. TypeOK
  BY DEF BootInv, LockInv
<1>2. /\ account[i] = 0 /\ creds' = [creds EXCEPT ![i] = 0]
      /\ starts' = starts /\ at' = at /\ run' = run
      /\ account' = account /\ mustChange' = mustChange /\ row' = row
  BY DEF RemoveFile, daemons
<1>3. \A d \in Daemon : at[d] \notin {"down", "open"} => Dir(d) # i
  BY DEF RemoveFile, Locked
<1>4. \A j \in Install : j # i => creds'[j] = creds[j]
  BY <1>1, <1>2 DEF TypeOK
<1>5. \A d \in Daemon : Dir(d)' = Dir(d)
  BY <1>2 DEF Dir
<1>6. ASSUME NEW d \in Daemon PROVE KnowsAccount(d)' /\ PasswordFresh(d)'
  BY <1>1, <1>2, <1>3, <1>4, <1>5, RunTyped DEF BootInv, KnowsAccount, PasswordFresh
<1>7. CredentialsOpenAccount'
  BY <1>2, <1>4 DEF BootInv, CredentialsOpenAccount
<1>8. BootstrapComplete'
  BY <1>2, <1>5 DEF BootInv, BootstrapComplete
<1> QED BY <1>6, <1>7, <1>8 DEF BootInv

LEMMA NextBoot == BootInv /\ [Next]_vars => BootInv'
<1> SUFFICES ASSUME BootInv, [Next]_vars PROVE BootInv'
  OBVIOUS
<1>1. LockInv'
  BY NextLock DEF BootInv
<1> QED BY <1>1, LaunchBoot, StepBoot, OtherBoot, RemoveBoot DEF Next

LEMMA BootAlways == Spec => []BootInv
<1> QED BY InitBoot, NextBoot, PTL DEF Spec

(* An account that must change its password can be logged in to with the   *)
(* credentials file (bootstrap_if_empty).                                  *)
THEOREM CredentialsOpen == Spec => []CredentialsOpenAccount
<1>1. BootInv => CredentialsOpenAccount
  BY DEF BootInv
<1> QED BY <1>1, BootAlways, PTL

(* A daemon comes up with an account only, and the start that created it   *)
(* with its flag and its row (run_bootstrap).                              *)
THEOREM Complete == Spec => []BootstrapComplete
<1>1. BootInv => BootstrapComplete
  BY DEF BootInv
<1> QED BY <1>1, BootAlways, PTL

-----------------------------------------------------------------------------
(* The process: what its exit code says.                                   *)

\* A code that says how the tasks ended is settled only when all have, and no
\* other code than a failure of the startup is settled before.
Settled ==
    /\ task \in [Task -> Ended \cup {"waiting", "busy", "probe", "store"}]
    /\ stage \notin {"dropping", "exited"} => code \in {None, "startup"}
    /\ stage \in {"dropping", "exited"} /\ ~forced /\ code \in {"clean", "panic"} =>
          (\A t \in Task : task[t] \in Ended) /\ (code = "panic" <=> Panicked)

\* No task runs, and what each has come to stays so.
AllEnded == \A t \in Task : task[t] \in Ended

LEMMA BecomeTyped ==
    ASSUME Settled, NEW t, NEW status \in Ended \cup {"waiting", "busy", "probe", "store"}, Become(t, status)
    PROVE  task' \in [Task -> Ended \cup {"waiting", "busy", "probe", "store"}]
BY DEF Settled, Become

\* A step of a task that has not ended, which leaves the process alone.
TaskStep ==
    /\ UNCHANGED process
    /\ \/ task' = task
       \/ \E t \in Task, status \in Ended \cup {"waiting", "busy", "probe", "store"} :
             task[t] \notin Ended /\ Become(t, status)

LEMMA TaskStepSettled ==
    ASSUME Settled, TaskStep
    PROVE  Settled'
<1>1. task' \in [Task -> Ended \cup {"waiting", "busy", "probe", "store"}]
  BY BecomeTyped DEF TaskStep, Settled
<1>2. stage' = stage /\ code' = code /\ forced' = forced
  BY DEF TaskStep, process
<1>3. AllEnded => task' = task
  BY DEF AllEnded, TaskStep
<1> QED BY <1>1, <1>2, <1>3 DEF Settled, AllEnded, Panicked

LEMMA TasksStep ==
    ASSUME Settled,
           \/ \E t \in Worker : Work(t)
           \/ \E t \in Worker \cup {"reconnect"} : Panic(t)
           \/ StopHttp \/ HttpCrashes \/ Reconnect
           \/ CaddyStops \/ CaddyStarts \/ Arrive \/ ClockTicks
           \/ \E l \in Login : RecordLogin(l) \/ AbortLogin(l)
    PROVE  TaskStep
<1> USE DEF TaskStep, Task, Ended
<1>1. ASSUME NEW t \in Task, Tick(t) \/ Tock(t) \/ Stop(t) \/ Panic(t) PROVE TaskStep
  BY <1>1 DEF Tick, Tock, Stop, Panic
<1>2. CASE StopHttp \/ HttpCrashes
  BY <1>2 DEF StopHttp, HttpCrashes
<1>3. CASE HealthFails \/ HealthOk \/ ReProbe \/ ReProbeFails \/ StoreProbe
  BY <1>3 DEF HealthFails, HealthOk, ReProbe, ReProbeFails, StoreProbe, Reconnected
<1>4. CASE CaddyStops \/ CaddyStarts \/ Arrive \/ ClockTicks \/ \E l \in Login : RecordLogin(l) \/ AbortLogin(l)
  BY <1>4 DEF CaddyStops, CaddyStarts, Arrive, ClockTicks, RecordLogin, AbortLogin
<1>5. "reconnect" \in Task /\ Worker \subseteq Task
  OBVIOUS
<1> HIDE DEF TaskStep, Task, Ended
<1> QED BY <1>1, <1>2, <1>3, <1>4, <1>5 DEF Work, Reconnect

LEMMA StagesSettle ==
    ASSUME Settled,
           Probe \/ Sentinel \/ Bootstrap \/ BindAndSpawnHttp \/ MarkReady \/ StartupFails \/ Signal \/ Start
    PROVE  Settled'
<1>1. task' \in [Task -> Ended \cup {"waiting", "busy", "probe", "store"}]
  BY DEF Settled, Spawned, Ended, Probe, Sentinel, Bootstrap, BindAndSpawnHttp, MarkReady, StartupFails, Signal, Start
<1>2. CASE StartupFails
  BY <1>1, <1>2 DEF StartupFails, Settled
<1>3. CASE ~StartupFails
  <2>1. stage' \notin {"dropping", "exited"} /\ code' \in {None, "startup"}
    BY <1>3 DEF Settled, Probe, Sentinel, Bootstrap, BindAndSpawnHttp, MarkReady, Signal, Start
  <2> QED BY <1>1, <2>1 DEF Settled
<1> QED BY <1>2, <1>3

LEMMA ShutdownSettles ==
    ASSUME Settled, Shutdown
    PROVE  Settled'
<1>1. CASE Drained
  <2>1. AllEnded /\ task' = task /\ stage' = "dropping" /\ forced' = forced /\ stage = "draining"
    BY <1>1 DEF Drained, AllEnded
  <2>2. code \in {None, "startup"}
    BY <2>1 DEF Settled
  <2>3. code' = IF code # None THEN "startup" ELSE IF Panicked THEN "panic" ELSE "clean"
    BY <1>1, <2>2 DEF Drained, Outcome
  <2>4. Panicked' <=> Panicked
    BY <2>1 DEF Panicked
  <2> QED BY <2>1, <2>3, <2>4 DEF Settled, AllEnded
<1>2. CASE DrainTimesOut
  BY <1>2 DEF DrainTimesOut, Settled, Ended
<1>3. CASE Exit
  <2>1. /\ stage = "dropping" /\ stage' = "exited" /\ code' = code /\ forced' = forced
        /\ task' = [t \in Task |-> IF task[t] \in Ended THEN task[t] ELSE "aborted"]
    BY <1>3 DEF Exit
  <2>2. task' \in [Task -> Ended \cup {"waiting", "busy", "probe", "store"}]
    BY <2>1 DEF Ended
  <2>3. AllEnded => task' = task
    BY <2>1 DEF AllEnded, Settled
  <2> QED BY <2>1, <2>2, <2>3 DEF Settled, AllEnded, Panicked
<1> QED BY <1>1, <1>2, <1>3 DEF Shutdown

(* A panic in a task is what the exit code says if and only if there was    *)
(* one, unless the drain was forced or the signal handlers were refused     *)
(* (run.rs:211-229, drain_tasks).                                           *)
THEOREM Reported == DaemonSpec => []PanicsAreReported
<1>1. DaemonInit => Settled
  BY DEF DaemonInit, Settled, Ended
<1>2. Settled /\ [DaemonNext]_daemonVars => Settled'
  <2> SUFFICES ASSUME Settled, [DaemonNext]_daemonVars PROVE Settled'
    OBVIOUS
  <2>1. CASE UNCHANGED daemonVars
    BY <2>1 DEF daemonVars, process, Settled, Panicked
  <2>2. CASE DaemonNext
    BY <2>2, TasksStep, TaskStepSettled, StagesSettle, ShutdownSettles DEF DaemonNext
  <2> QED BY <2>1, <2>2
<1>3. Settled => PanicsAreReported
  BY DEF Settled, PanicsAreReported
<1> QED BY <1>1, <1>2, <1>3, PTL DEF DaemonSpec

-----------------------------------------------------------------------------
(* The back-off of the reconnect loop.                                     *)

LEMMA DoubledBounds ==
    ASSUME NEW b \in Initial..Cap
    PROVE  Doubled(b) \in Doubled(Initial)..Cap /\ Doubled(b) \in Initial..Cap
BY DaemonAssumption DEF Doubled

(* A retry after an outage waits twice the first back-off at least and the  *)
(* cap at most, and a loop that is connected has forgotten the outages      *)
(* before (reconnect.rs:51-99).                                             *)
THEOREM BackoffBounded == DaemonSpec => []BackoffSchedule
<1> DEFINE Inv == link \in {"Reachable", "Unreachable"} /\ BackoffSchedule
<1>1. DaemonInit => Inv
  BY DEF DaemonInit, BackoffSchedule
<1>2. Inv /\ [DaemonNext]_daemonVars => Inv'
  <2> SUFFICES ASSUME Inv, [DaemonNext]_daemonVars PROVE Inv'
    OBVIOUS
  <2>1. CASE link' = link /\ backoff' = backoff
    BY <2>1 DEF BackoffSchedule
  <2>2. CASE link' = "Reachable" /\ backoff' = Initial
    BY <2>2 DEF BackoffSchedule
  <2>3. CASE HealthFails
    <3>1. Initial \in Initial..Cap /\ Doubled(Initial) \in Initial..Cap
      BY DaemonAssumption, DoubledBounds
    <3>2. backoff \in Initial..Cap
      BY <3>1, DaemonAssumption DEF BackoffSchedule
    <3>3. link' = "Unreachable" /\ backoff' = Doubled(backoff)
      BY <2>3 DEF HealthFails
    <3> QED BY <3>2, <3>3, DoubledBounds DEF BackoffSchedule
  <2>4. CASE UNCHANGED daemonVars
    BY <2>1, <2>4 DEF daemonVars, monitor
  <2>5. CASE Reconnect
    BY <2>1, <2>2, <2>3, <2>5 DEF Reconnect, Tick, Stop, HealthOk, ReProbe, ReProbeFails, StoreProbe,
       Reconnected, monitor
  <2>6. CASE \E t \in Worker \cup {"reconnect"} : Tick(t) \/ Tock(t) \/ Stop(t) \/ Panic(t)
    BY <2>1, <2>6 DEF Tick, Tock, Stop, Panic, monitor
  <2>7. CASE \/ StopHttp \/ HttpCrashes \/ CaddyStops \/ CaddyStarts \/ Arrive \/ ClockTicks
             \/ \E l \in Login : RecordLogin(l) \/ AbortLogin(l)
    BY <2>1, <2>7 DEF StopHttp, HttpCrashes, CaddyStops, CaddyStarts, Arrive, ClockTicks, RecordLogin,
       AbortLogin, monitor
  <2>8. CASE \/ Probe \/ Sentinel \/ Bootstrap \/ BindAndSpawnHttp \/ MarkReady \/ StartupFails
             \/ Signal \/ Start \/ Shutdown
    BY <2>1, <2>2, <2>8 DEF Probe, Sentinel, Bootstrap, BindAndSpawnHttp, MarkReady, StartupFails,
       Signal, Start, Shutdown, Drained, DrainTimesOut, Exit, monitor
  <2> QED BY <2>4, <2>5, <2>6, <2>7, <2>8 DEF DaemonNext, Work
<1>3. Inv => BackoffSchedule
  OBVIOUS
<1> HIDE DEF Inv
<1> QED BY <1>1, <1>2, <1>3, PTL DEF DaemonSpec

=============================================================================
