------------------------ MODULE DriftDetectorProofs ------------------------
(* What the drift detector keeps, for any number of deferrals and          *)
(* configurations: every event is audited, and no drift is silenced.       *)
EXTENDS DriftDetector, TLAPS

-----------------------------------------------------------------------------
(* Type correctness.                                                       *)

LEMMA EventsTyped ==
    ASSUME TypeOK
    PROVE  \A i \in 1..Len(events) : events[i] \in Event
  BY DEF TypeOK

LEMMA LatestOpenIsOpen ==
    \A i \in LatestOpen : i \in 1..Len(events) /\ events[i].open
  BY DEF LatestOpen

LEMMA RecoveredTyped ==
    ASSUME TypeOK, NEW h \in Recovered
    PROVE  h \in Running \cup {None}
<1>1. \A i \in LatestOpen : events[i].hash \in Running
  BY EventsTyped, LatestOpenIsOpen DEF Event
<1> QED BY <1>1 DEF Recovered

LEMMA InitTyped == Init => TypeOK
<1> SUFFICES ASSUME Init PROVE TypeOK
  OBVIOUS
<1>1. detected \in Seq(Running) /\ events \in Seq(Event)
  BY DEF Init
<1>2. /\ pc \in [Defer -> {"idle", "audit", "update", "reset", "done", "dropped"}]
      /\ target \in [Defer -> Nat] /\ closed \in SUBSET Defer
  BY DEF Init
<1> QED BY <1>1, <1>2 DEF Init, TypeOK


(* What Resolve does to the table.                                         *)
LEMMA ResolveCloses ==
    ASSUME TypeOK, NEW r \in Defer, Resolve(r)
    PROVE  /\ events' \in Seq(Event)
           /\ Len(events') = Len(events)
           /\ \A i \in 1..Len(events) :
                 /\ events'[i].row = events[i].row /\ events'[i].hash = events[i].hash
                 /\ i # target[r] => events'[i].open = events[i].open
<1> DEFINE n == Len(events)
           closing(e) == [e EXCEPT !.open = FALSE]
<1>1. /\ events \in Seq(Event) /\ n \in Nat
      /\ events' = [events EXCEPT ![target[r]].open = FALSE]
  BY DEF TypeOK, Resolve
<1>2. events \in [1..n -> Event]
  BY <1>1
<1>3. \A e \in Event : /\ closing(e) \in Event
                      /\ closing(e).row = e.row /\ closing(e).hash = e.hash
  BY DEF Event
<1>4. events' = [events EXCEPT ![target[r]] = closing(events[target[r]])]
  BY <1>1
<1> HIDE DEF closing
<1>5. /\ DOMAIN events' = 1..n
      /\ \A i \in 1..n : events'[i] = IF i = target[r] THEN closing(events[i]) ELSE events[i]
  BY <1>2, <1>4
<1>6. events' \in [1..n -> Event]
  BY <1>2, <1>3, <1>4
<1>7. events' \in Seq(Event) /\ Len(events') = n
  BY <1>1, <1>6
<1> QED BY <1>2, <1>3, <1>5, <1>7

LEMMA NextTyped ==
    ASSUME TypeOK, [Next]_vars
    PROVE  TypeOK'
<1> USE DEF TypeOK, caddy, loop, deferral
<1>1. CASE Store \/ BeginApply \/ EndApply \/ OutsideEdit \/ CaddyManages
  <2>1. CASE Store
    <3>1. PICK c \in Config : desired' = c
      BY <2>1 DEF Store
    <3>2. desired' # None
      BY <3>1, DriftAssumption DEF DriftAssumption
    <3> QED BY <2>1, <3>1, <3>2 DEF Store
  <2>2. CASE BeginApply
    BY <2>2 DEF BeginApply
  <2>3. CASE EndApply
    BY <2>3 DEF EndApply, Running
  <2>4. CASE OutsideEdit
    BY <2>4 DEF OutsideEdit, Running
  <2>5. CASE CaddyManages
    BY <2>5 DEF CaddyManages, Running
  <2> QED BY <1>1, <2>1, <2>2, <2>3, <2>4, <2>5
<1>2. CASE BeginTick \/ Fetch \/ TickClean \/ TickDrifted \/ Deduplicate \/ SetHash
  <2>1. None \notin Running
    BY DriftAssumption DEF DriftAssumption, Running
  <2> QED BY <1>2, <2>1
          DEF BeginTick, Fetch, TickClean, TickDrifted, Deduplicate, SetHash, Sleep
<1>3. CASE TickFails \/ RecordFails
  BY <1>3 DEF TickFails, RecordFails, Sleep
<1>4. CASE WriteDetected
  BY <1>4 DEF WriteDetected
<1>5. CASE InsertRow
  <2>1. Len(detected) \in Nat /\ seen \in Running
    BY <1>5 DEF InsertRow
  <2>2. [hash |-> seen, row |-> Len(detected), open |-> TRUE] \in Event
    BY <2>1 DEF Event
  <2> QED BY <1>5, <2>2 DEF InsertRow
<1>6. ASSUME NEW r \in Defer, ReadOpen(r) PROVE TypeOK'
  <2>1. PICK i \in LatestOpen : target' = [target EXCEPT ![r] = i]
    BY <1>6 DEF ReadOpen
  <2>2. i \in Nat
    BY LatestOpenIsOpen
  <2> QED BY <1>6, <2>1, <2>2 DEF ReadOpen, Goto
<1>7. ASSUME NEW r \in Defer,
             NotFound(r) \/ WriteResolved(r) \/ Reset(r) \/ ResolveFails(r) \/ Cancel(r)
      PROVE  TypeOK'
  BY <1>7 DEF NotFound, WriteResolved, Reset, ResolveFails, Cancel, Goto
<1>8. ASSUME NEW r \in Defer, Resolve(r) PROVE TypeOK'
  <2>1. events' \in Seq(Event)
    BY <1>8, ResolveCloses
  <2> QED BY <1>8, <2>1 DEF Resolve, Goto
<1>9. CASE Restart
  BY <1>9, RecoveredTyped DEF Restart, Sleep
<1>10. CASE UNCHANGED vars
  BY <1>10 DEF vars
<1> QED BY <1>1, <1>2, <1>3, <1>4, <1>5, <1>6, <1>7, <1>8, <1>9, <1>10
        DEF Next, Detect, Mark

(* Every variable keeps its type.                                          *)
THEOREM TypeCorrect == Spec => []TypeOK
  BY InitTyped, NextTyped, PTL DEF Spec

-----------------------------------------------------------------------------
(* Audit rows.                                                             *)

(* A row of the table is only ever closed by Resolve: otherwise the table  *)
(* stays, or grows by the row of InsertRow.                                *)
Fresh ==
    tick = "insert" =>
        /\ Len(detected) > 0 /\ detected[Len(detected)] = seen
        /\ \A i \in 1..Len(events) : events[i].row # Len(detected)

Marked ==
    \A r \in Defer :
        /\ pc[r] = "idle" => r \notin closed
        /\ pc[r] = "audit" => target[r] \in 1..Len(events)
        /\ pc[r] \in {"update", "reset"} => r \in closed /\ target[r] \in 1..Len(events)

AuditInv == TypeOK /\ EventsAreAudited /\ Fresh /\ Marked

LEMMA InitAudited == Init => AuditInv
<1> SUFFICES ASSUME Init PROVE AuditInv
  OBVIOUS
<1>1. Len(events) = 0 /\ tick = "wait"
  BY DEF Init
<1>2. Marked
  BY DEF Init, Marked
<1> QED BY <1>1, <1>2, InitTyped DEF AuditInv, EventsAreAudited, Fresh

(* A step that leaves both tables, and the marks of deferrals, alone.      *)
LEMMA SameTables ==
    ASSUME AuditInv, TypeOK', events' = events, detected' = detected,
           target' = target, closed' = closed,
           tick' = "insert" => tick = "insert" /\ seen' = seen,
           \A r \in Defer : pc'[r] = pc[r] \/ pc'[r] \in {"done", "dropped"}
    PROVE  AuditInv'
<1>1. EventsAreAudited'
  BY DEF AuditInv, EventsAreAudited
<1>2. Fresh'
  BY DEF AuditInv, Fresh
<1>3. Marked'
  BY DEF AuditInv, Marked
<1> QED BY <1>1, <1>2, <1>3 DEF AuditInv

LEMMA WriteDetectedAudited == ASSUME AuditInv, TypeOK', WriteDetected PROVE AuditInv'
<1>1. /\ detected \in Seq(Running) /\ seen \in Running
      /\ detected' = Append(detected, seen) /\ events' = events
      /\ UNCHANGED deferral /\ seen' = seen
  BY DEF AuditInv, TypeOK, WriteDetected
<1>2. /\ Len(detected') = Len(detected) + 1
      /\ \A k \in 1..Len(detected) : detected'[k] = detected[k]
      /\ detected'[Len(detected')] = seen
      /\ Len(detected) \in Nat
  BY <1>1
<1>3. EventsAreAudited'
  BY <1>1, <1>2 DEF AuditInv, EventsAreAudited, deferral
<1>4. Fresh'
  BY <1>1, <1>2 DEF AuditInv, EventsAreAudited, Fresh
<1>5. Marked'
  BY <1>1 DEF AuditInv, Marked, deferral
<1> QED BY <1>3, <1>4, <1>5 DEF AuditInv

LEMMA InsertRowAudited == ASSUME AuditInv, TypeOK', InsertRow PROVE AuditInv'
<1> DEFINE new == [hash |-> seen, row |-> Len(detected), open |-> TRUE]
           n == Len(events)
<1>1. /\ tick = "insert" /\ tick' = "set" /\ detected' = detected
      /\ events' = Append(events, new) /\ UNCHANGED deferral
      /\ events \in Seq(Event) /\ Len(detected) \in Nat /\ n \in Nat
  BY DEF AuditInv, TypeOK, InsertRow
<1>2. new \in Event
  BY <1>1 DEF AuditInv, TypeOK, Event
<1>3. /\ Len(events') = n + 1
      /\ \A i \in 1..n : events'[i] = events[i]
      /\ events'[n + 1] = new
  BY <1>1, <1>2
<1>4. new.hash = seen /\ new.row = Len(detected) /\ new.open
  OBVIOUS
<1>5. /\ Len(detected) > 0 /\ detected[Len(detected)] = seen
      /\ \A i \in 1..n : events[i].row # Len(detected)
  BY <1>1 DEF AuditInv, Fresh
<1> HIDE DEF new, n
<1>6. EventsAreAudited'
  <2>1. \A i \in 1..n + 1 :
           /\ events'[i].row \in 1..Len(detected)
           /\ detected[events'[i].row] = events'[i].hash
           /\ ~events'[i].open => \E r \in closed : target[r] = i
    <3>1. SUFFICES ASSUME NEW i \in 1..n + 1
                   PROVE  /\ events'[i].row \in 1..Len(detected)
                          /\ detected[events'[i].row] = events'[i].hash
                          /\ ~events'[i].open => \E r \in closed : target[r] = i
      OBVIOUS
    <3>2. CASE i \in 1..n
      BY <1>3, <3>2 DEF AuditInv, EventsAreAudited, n
    <3>3. CASE i = n + 1
      <4>1. events'[i].row = Len(detected) /\ events'[i].hash = seen /\ events'[i].open
        BY <1>3, <1>4, <3>3
      <4>2. events'[i].row \in 1..Len(detected) /\ detected[events'[i].row] = events'[i].hash
        BY <1>1, <1>5, <4>1
      <4> QED BY <4>1, <4>2
    <3>4. i \in 1..n \/ i = n + 1
      BY <1>1
    <3> QED BY <3>2, <3>3, <3>4
  <2>2. \A i, j \in 1..n + 1 : events'[i].row = events'[j].row => i = j
    <3>1. SUFFICES ASSUME NEW i \in 1..n + 1, NEW j \in 1..n + 1,
                          events'[i].row = events'[j].row
                   PROVE  i = j
      OBVIOUS
    <3>2. CASE i \in 1..n /\ j \in 1..n
      BY <1>3, <3>1, <3>2 DEF AuditInv, EventsAreAudited, n
    <3>3. CASE i = n + 1 \/ j = n + 1
      BY <1>1, <1>3, <1>4, <1>5, <3>1, <3>3
    <3> QED BY <1>1, <3>2, <3>3
  <2> QED BY <1>1, <1>3, <2>1, <2>2 DEF EventsAreAudited, deferral
<1>7. Fresh'
  BY <1>1 DEF Fresh
<1>8. Marked'
  BY <1>1, <1>3 DEF AuditInv, Marked, deferral, n
<1> QED BY <1>6, <1>7, <1>8 DEF AuditInv

LEMMA ReadOpenAudited ==
    ASSUME AuditInv, TypeOK', NEW r \in Defer, ReadOpen(r)
    PROVE  AuditInv'
<1>1. PICK i \in LatestOpen : target' = [target EXCEPT ![r] = i]
  BY DEF ReadOpen
<1>2. /\ pc[r] = "idle" /\ pc' = [pc EXCEPT ![r] = "audit"]
      /\ UNCHANGED <<caddy, loop, hash, detected, events, closed>>
  BY DEF ReadOpen, Goto
<1>3. /\ pc \in [Defer -> {"idle", "audit", "update", "reset", "done", "dropped"}]
      /\ target \in [Defer -> Nat] /\ closed \in SUBSET Defer
  BY DEF AuditInv, TypeOK
<1>4. i \in 1..Len(events) /\ r \notin closed
  BY <1>2, LatestOpenIsOpen DEF AuditInv, Marked
<1>5. EventsAreAudited'
  BY <1>1, <1>2, <1>3, <1>4 DEF AuditInv, EventsAreAudited
<1>6. Fresh'
  BY <1>2 DEF AuditInv, Fresh, loop
<1>7. Marked'
  BY <1>1, <1>2, <1>3, <1>4 DEF AuditInv, Marked
<1> QED BY <1>5, <1>6, <1>7 DEF AuditInv

LEMMA WriteResolvedAudited ==
    ASSUME AuditInv, TypeOK', NEW r \in Defer, WriteResolved(r)
    PROVE  AuditInv'
<1>1. /\ pc[r] = "audit" /\ pc' = [pc EXCEPT ![r] = "update"]
      /\ closed' = closed \cup {r}
      /\ UNCHANGED <<caddy, loop, hash, detected, events, target>>
  BY DEF WriteResolved, Goto
<1>2. pc \in [Defer -> {"idle", "audit", "update", "reset", "done", "dropped"}]
  BY DEF AuditInv, TypeOK
<1>3. EventsAreAudited'
  BY <1>1 DEF AuditInv, EventsAreAudited
<1>4. Fresh'
  BY <1>1 DEF AuditInv, Fresh, loop
<1>5. Marked'
  BY <1>1, <1>2 DEF AuditInv, Marked
<1> QED BY <1>3, <1>4, <1>5 DEF AuditInv

LEMMA ResolveAudited ==
    ASSUME AuditInv, TypeOK', NEW r \in Defer, Resolve(r)
    PROVE  AuditInv'
<1>1. /\ pc[r] = "update" /\ pc' = [pc EXCEPT ![r] = "reset"]
      /\ UNCHANGED <<caddy, loop, hash, detected, target, closed>>
  BY DEF Resolve, Goto
<1>2. pc \in [Defer -> {"idle", "audit", "update", "reset", "done", "dropped"}]
  BY DEF AuditInv, TypeOK
<1>3. r \in closed /\ target[r] \in 1..Len(events)
  BY <1>1 DEF AuditInv, Marked
<1>4. /\ Len(events') = Len(events)
      /\ \A i \in 1..Len(events) :
            /\ events'[i].row = events[i].row /\ events'[i].hash = events[i].hash
            /\ i # target[r] => events'[i].open = events[i].open
  BY ResolveCloses DEF AuditInv
<1>5. EventsAreAudited'
  <2>1. ASSUME NEW i \in 1..Len(events), ~events'[i].open
        PROVE  \E q \in closed : target[q] = i
    BY <1>3, <1>4, <2>1 DEF AuditInv, EventsAreAudited
  <2> QED BY <1>1, <1>4, <2>1 DEF AuditInv, EventsAreAudited
<1>6. Fresh'
  BY <1>1, <1>4 DEF AuditInv, Fresh, loop
<1>7. Marked'
  BY <1>1, <1>2, <1>3, <1>4 DEF AuditInv, Marked
<1> QED BY <1>5, <1>6, <1>7 DEF AuditInv

LEMMA NextAudited == AuditInv /\ [Next]_vars => AuditInv'
<1> SUFFICES ASSUME AuditInv, [Next]_vars PROVE AuditInv'
  OBVIOUS
<1>0. TypeOK /\ TypeOK'
  BY NextTyped DEF AuditInv
<1>1. CASE Store \/ BeginApply \/ EndApply \/ OutsideEdit \/ CaddyManages
  BY <1>0, <1>1, SameTables DEF Store, BeginApply, EndApply, OutsideEdit, CaddyManages, loop, deferral
<1>2. CASE BeginTick \/ Fetch \/ TickClean \/ TickDrifted \/ Deduplicate \/ SetHash
  BY <1>0, <1>2, SameTables
  DEF BeginTick, Fetch, TickClean, TickDrifted, Deduplicate, SetHash, Sleep, deferral
<1>3. CASE TickFails \/ RecordFails
  BY <1>0, <1>3, SameTables DEF TickFails, RecordFails, Sleep, deferral
<1>4. CASE WriteDetected
  BY <1>0, <1>4, WriteDetectedAudited
<1>5. CASE InsertRow
  BY <1>0, <1>5, InsertRowAudited
<1>6. ASSUME NEW r \in Defer, ReadOpen(r) PROVE AuditInv'
  BY <1>0, <1>6, ReadOpenAudited
<1>7. ASSUME NEW r \in Defer, WriteResolved(r) PROVE AuditInv'
  BY <1>0, <1>7, WriteResolvedAudited
<1>8. ASSUME NEW r \in Defer, Resolve(r) PROVE AuditInv'
  BY <1>0, <1>8, ResolveAudited
<1>9. ASSUME NEW r \in Defer, NotFound(r) \/ Reset(r) \/ ResolveFails(r) \/ Cancel(r)
      PROVE  AuditInv'
  <2>1. \A q \in Defer : pc'[q] = pc[q] \/ pc'[q] \in {"done", "dropped"}
    BY <1>0, <1>9 DEF NotFound, Reset, ResolveFails, Cancel, Goto, TypeOK
  <2> QED BY <1>0, <1>9, <2>1, SameTables
          DEF NotFound, Reset, ResolveFails, Cancel, loop
<1>10. CASE Restart
  <2>1. \A q \in Defer : pc'[q] = pc[q] \/ pc'[q] \in {"done", "dropped"}
    BY <1>10 DEF Restart
  <2> QED BY <1>0, <1>10, <2>1, SameTables DEF Restart, Sleep
<1>11. CASE UNCHANGED vars
  BY <1>0, <1>11, SameTables DEF vars, loop, deferral
<1> QED BY <1>1, <1>2, <1>3, <1>4, <1>5, <1>6, <1>7, <1>8, <1>9, <1>10, <1>11
        DEF Next, Detect, Mark

LEMMA Audit == Spec => []AuditInv
  BY InitAudited, NextAudited, PTL DEF Spec

(* The audit row of an event is written before the event, and the one of   *)
(* its resolution before it is resolved.                                   *)
THEOREM AuditedFirst == Spec => []EventsAreAudited
<1>1. AuditInv => EventsAreAudited
  BY DEF AuditInv
<1> QED BY <1>1, Audit, PTL

-----------------------------------------------------------------------------
(* The deduplication hash.                                                 *)

(* An event about c is open, or a deferral is about to reset the hash, or   *)
(* was dropped when it was.                                                *)
About(c) ==
    \/ \E i \in 1..Len(events) : events[i].open /\ events[i].hash = c
    \/ \E r \in Defer : pc[r] \in {"reset", "dropped"}

HashInv ==
    /\ hash # None => About(hash)
    /\ tick = "set" => About(seen)

(* A step that adds no hash, closes no event and ends no reset.            *)
LEMMA SameHash ==
    ASSUME HashInv, events' = events, hash' = hash,
           tick' = "set" => tick = "set" /\ seen' = seen,
           \A r \in Defer :
              pc[r] \in {"reset", "dropped"} => pc'[r] \in {"reset", "dropped"}
    PROVE  HashInv'
  BY DEF HashInv, About

LEMMA NextHash ==
    ASSUME AuditInv, HashInv, [Next]_vars
    PROVE  HashInv'
<1>0. TypeOK
  BY DEF AuditInv
<1>1. CASE Store \/ BeginApply \/ EndApply \/ OutsideEdit \/ CaddyManages
  BY <1>1, SameHash DEF Store, BeginApply, EndApply, OutsideEdit, CaddyManages, loop, deferral
<1>2. CASE BeginTick \/ Fetch \/ TickClean \/ TickDrifted \/ Deduplicate
  BY <1>2, SameHash
  DEF BeginTick, Fetch, TickClean, TickDrifted, Deduplicate, Sleep, deferral
<1>3. CASE TickFails \/ RecordFails
  BY <1>3, SameHash DEF TickFails, RecordFails, Sleep, deferral
<1>4. CASE WriteDetected
  BY <1>4, SameHash DEF WriteDetected, deferral
<1>5. CASE InsertRow
  <2>1. PICK new \in Event : /\ new.hash = seen /\ new.open
                             /\ events' = Append(events, new)
    <3> DEFINE row == [hash |-> seen, row |-> Len(detected), open |-> TRUE]
    <3>1. row \in Event /\ row.hash = seen /\ row.open
      BY <1>0, <1>5 DEF InsertRow, TypeOK, Event
    <3>2. events' = Append(events, row)
      BY <1>5 DEF InsertRow
    <3> QED BY <3>1, <3>2
  <2>2. /\ Len(events') = Len(events) + 1 /\ Len(events) \in Nat
        /\ \A i \in 1..Len(events) : events'[i] = events[i]
        /\ events'[Len(events) + 1] = new
    BY <1>0, <2>1 DEF TypeOK
  <2>3. UNCHANGED <<hash, seen, pc>>
    BY <1>5 DEF InsertRow, deferral
  <2>4. About(seen)'
    <3>1. Len(events) + 1 \in 1..Len(events')
      BY <2>2
    <3> QED BY <2>1, <2>2, <2>3, <3>1 DEF About
  <2>5. hash' # None => About(hash)'
    BY <2>2, <2>3 DEF HashInv, About
  <2> QED BY <2>4, <2>5 DEF HashInv
<1>6. CASE SetHash
  BY <1>6 DEF SetHash, Sleep, HashInv, About, deferral
<1>7. ASSUME NEW r \in Defer,
             \/ ReadOpen(r) \/ NotFound(r) \/ WriteResolved(r) \/ ResolveFails(r)
             \/ Cancel(r)
      PROVE  HashInv'
  <2>1. \A q \in Defer :
           pc[q] \in {"reset", "dropped"} => pc'[q] \in {"reset", "dropped"}
    BY <1>0, <1>7
    DEF ReadOpen, NotFound, WriteResolved, ResolveFails, Cancel, Goto, TypeOK
  <2> QED BY <1>7, <2>1, SameHash
          DEF ReadOpen, NotFound, WriteResolved, ResolveFails, Cancel, loop
<1>8. ASSUME NEW r \in Defer, Resolve(r) PROVE HashInv'
  <2>1. pc'[r] = "reset"
    BY <1>0, <1>8 DEF Resolve, Goto, TypeOK
  <2> QED BY <2>1 DEF HashInv, About
<1>9. ASSUME NEW r \in Defer, Reset(r) PROVE HashInv'
  BY <1>9 DEF Reset, GuardHeld, HashInv, loop
<1>10. CASE Restart
  <2>1. hash' # None => \E i \in 1..Len(events) : events[i].open /\ events[i].hash = hash'
    BY <1>10, LatestOpenIsOpen DEF Restart, Recovered
  <2>2. events' = events /\ tick' = "wait"
    BY <1>10 DEF Restart, Sleep
  <2> QED BY <2>1, <2>2 DEF HashInv, About
<1>11. CASE UNCHANGED vars
  BY <1>11, SameHash DEF vars, loop, deferral
<1> QED BY <1>1, <1>2, <1>3, <1>4, <1>5, <1>6, <1>7, <1>8, <1>9, <1>10, <1>11
        DEF Next, Detect, Mark

(* A configuration is skipped as already recorded only while somebody can  *)
(* still see its event, or after a deferral was dropped before its reset.  *)
THEOREM NoDriftSilenced == Spec => []HashIsOpen
<1>1. Init => HashInv
  BY DEF Init, HashInv
<1>2. AuditInv /\ HashInv /\ [Next]_vars => HashInv'
  BY NextHash
<1>3. HashInv => HashIsOpen
  BY DEF HashInv, HashIsOpen, About
<1> QED BY <1>1, <1>2, <1>3, Audit, PTL DEF Spec

-----------------------------------------------------------------------------
(* One event for one drift, until somebody defers.                         *)

Untouched == \A r \in Defer : target[r] = 0

(* What record() compares a new configuration with: the hash, or the one it *)
(* is about to become.                                                     *)
Known == IF tick = "set" THEN seen ELSE hash

OneInv ==
    Untouched =>
        /\ \A r \in Defer : pc[r] \in {"idle", "done"}
        /\ \A i \in 1..Len(events) : events[i].open
        /\ Len(events) > 0 => Known = events[Len(events)].hash
        /\ tick = "insert" => hash # seen
        /\ \A i \in 1..Len(events) - 1 : events[i].hash # events[i + 1].hash

(* A step that leaves the table, the hash and the targets alone.           *)
LEMMA SameEvents ==
    ASSUME OneInv, events' = events, Known' = Known, target' = target,
           tick' = "insert" => hash' # seen',
           Untouched => \A r \in Defer : pc'[r] \in {"idle", "done"}
    PROVE  OneInv'
  BY DEF OneInv, Untouched

(* With every event open and a clock that only goes forward, a restart     *)
(* recovers the hash of the last event.                                    *)
LEMMA RecoversLast ==
    ASSUME TypeOK, ~MayFail, ~ClockSteps, Len(events) > 0,
           \A i \in 1..Len(events) : events[i].open
    PROVE  \A h \in Recovered : h = events[Len(events)].hash
<1>1. Len(events) \in Nat
  BY DEF TypeOK
<1>2. \A i \in LatestOpen : i = Len(events)
  <2>1. SUFFICES ASSUME NEW i \in LatestOpen, i # Len(events) PROVE FALSE
    OBVIOUS
  <2>2. i \in 1..Len(events) /\ \A j \in i + 1..Len(events) : ~events[j].open
    BY <2>1 DEF LatestOpen
  <2>3. Len(events) \in i + 1..Len(events)
    BY <1>1, <2>1, <2>2
  <2> QED BY <1>1, <2>2, <2>3
<1>3. Len(events) \in LatestOpen
  BY <1>1 DEF LatestOpen
<1> QED BY <1>2, <1>3 DEF Recovered

LEMMA InsertRowOne ==
    ASSUME TypeOK, OneInv, InsertRow
    PROVE  OneInv'
<1> DEFINE new == [hash |-> seen, row |-> Len(detected), open |-> TRUE]
           n == Len(events)
<1>1. /\ tick = "insert" /\ tick' = "set" /\ events' = Append(events, new)
      /\ seen' = seen /\ hash' = hash /\ pc' = pc /\ target' = target
  BY DEF InsertRow, deferral
<1>2. /\ n \in Nat /\ Len(events') = n + 1
      /\ \A i \in 1..n : events'[i] = events[i]
      /\ events'[n + 1] = new
  <2>1. events \in Seq(Event)
    BY DEF TypeOK
  <2> QED BY <1>1, <2>1
<1>3. new.hash = seen /\ new.open
  OBVIOUS
<1> HIDE DEF new
<1>4. SUFFICES ASSUME Untouched
               PROVE  /\ \A r \in Defer : pc'[r] \in {"idle", "done"}
                      /\ \A i \in 1..Len(events') : events'[i].open
                      /\ Known' = events'[Len(events')].hash
                      /\ \A i \in 1..Len(events') - 1 : events'[i].hash # events'[i + 1].hash
  BY <1>1 DEF OneInv, Untouched
<1>5. /\ \A r \in Defer : pc[r] \in {"idle", "done"}
      /\ \A i \in 1..n : events[i].open
      /\ n > 0 => hash = events[n].hash
      /\ hash # seen
      /\ \A i \in 1..n - 1 : events[i].hash # events[i + 1].hash
  BY <1>1, <1>4 DEF OneInv, Known
<1>6. \A i \in 1..n + 1 : events'[i].open
  BY <1>2, <1>3, <1>5
<1>7. ASSUME NEW i \in 1..n PROVE events'[i].hash # events'[i + 1].hash
  <2>1. CASE i = n
    BY <1>2, <1>3, <1>5, <2>1
  <2>2. CASE i # n
    <3>1. i \in 1..n - 1 /\ i + 1 \in 1..n
      BY <1>2, <2>2
    <3> QED BY <1>2, <1>5, <3>1
  <2> QED BY <2>1, <2>2
<1>8. Known' = events'[n + 1].hash
  BY <1>1, <1>2, <1>3 DEF Known
<1> QED BY <1>1, <1>2, <1>5, <1>6, <1>7, <1>8

LEMMA NextOne ==
    ASSUME ~MayFail, ~ClockSteps, AuditInv, OneInv, [Next]_vars
    PROVE  OneInv'
<1>0. TypeOK
  BY DEF AuditInv
<1>p. Untouched => \A r \in Defer : pc[r] \in {"idle", "done"}
  BY DEF OneInv
<1>1. CASE Store \/ BeginApply \/ EndApply \/ OutsideEdit \/ CaddyManages \/ UNCHANGED vars
  <2>1. UNCHANGED <<tick, seen, hash, events, pc, target>>
    BY <1>1 DEF Store, BeginApply, EndApply, OutsideEdit, CaddyManages, loop, deferral, vars
  <2>2. tick' = "insert" => hash' # seen' \/ ~Untouched
    BY <2>1 DEF OneInv
  <2> QED BY <2>1, <2>2, <1>p DEF OneInv, Untouched, Known
<1>2. CASE BeginTick \/ Fetch \/ TickClean \/ TickDrifted \/ Deduplicate
  <2>1. /\ UNCHANGED <<hash, events, pc, target>>
        /\ tick # "set" /\ tick' \notin {"set", "insert"}
    BY <1>2 DEF BeginTick, Fetch, TickClean, TickDrifted, Deduplicate, Sleep, deferral
  <2>2. Known' = Known
    BY <2>1 DEF Known
  <2> QED BY <2>1, <2>2, <1>p, SameEvents
<1>3. ~(TickFails \/ RecordFails)
  BY DEF TickFails, RecordFails
<1>4. CASE WriteDetected
  <2>1. /\ UNCHANGED <<seen, hash, events, pc, target>> /\ hash # seen
        /\ tick = "record" /\ tick' = "insert"
    BY <1>4 DEF WriteDetected, deferral
  <2>2. Known' = Known
    BY <2>1 DEF Known
  <2> QED BY <2>1, <2>2, <1>p, SameEvents
<1>5. CASE InsertRow
  BY <1>0, <1>5, InsertRowOne
<1>6. CASE SetHash
  <2>1. /\ UNCHANGED <<events, pc, target>>
        /\ tick = "set" /\ tick' = "wait" /\ hash' = seen
    BY <1>6 DEF SetHash, Sleep, deferral
  <2>2. Known' = Known
    BY <2>1 DEF Known
  <2> QED BY <2>1, <2>2, <1>p, SameEvents
<1>7. ASSUME NEW r \in Defer, ReadOpen(r) PROVE OneInv'
  <2>1. PICK i \in LatestOpen : target' = [target EXCEPT ![r] = i]
    BY <1>7 DEF ReadOpen
  <2>2. i \in 1..Len(events) /\ Len(events) \in Nat /\ target \in [Defer -> Nat]
    BY <1>0, LatestOpenIsOpen DEF TypeOK
  <2>3. target'[r] # 0
    BY <2>1, <2>2
  <2> QED BY <2>3 DEF OneInv, Untouched
<1>8. ASSUME NEW r \in Defer, NotFound(r) PROVE OneInv'
  <2>1. /\ UNCHANGED <<tick, seen, hash, events, target>>
        /\ pc' = [pc EXCEPT ![r] = "done"]
    BY <1>8 DEF NotFound, Goto, loop
  <2>2. \A q \in Defer : pc'[q] = pc[q] \/ pc'[q] = "done"
    BY <1>0, <2>1 DEF TypeOK
  <2>3. Untouched => \A q \in Defer : pc'[q] \in {"idle", "done"}
    BY <1>p, <2>2
  <2> QED BY <2>1, <2>3 DEF OneInv, Untouched, Known
<1>9. ASSUME NEW r \in Defer,
             WriteResolved(r) \/ Resolve(r) \/ Reset(r) \/ ResolveFails(r) \/ Cancel(r)
      PROVE  OneInv'
  <2>1. pc[r] \notin {"idle", "done"} /\ target' = target
    BY <1>9 DEF WriteResolved, Resolve, Reset, ResolveFails, Cancel
  <2>2. ~Untouched
    BY <1>p, <2>1
  <2> QED BY <2>1, <2>2 DEF OneInv, Untouched
<1>10. CASE Restart
  <2>1. /\ UNCHANGED <<events, target>> /\ tick' = "wait" /\ hash' \in Recovered
        /\ pc' = [r \in Defer |-> IF pc[r] = "idle" THEN "idle" ELSE "done"]
    BY <1>10 DEF Restart, Sleep
  <2>2. Untouched /\ Len(events) > 0 => hash' = events[Len(events)].hash
    BY <1>0, <2>1, RecoversLast DEF OneInv
  <2>3. \A q \in Defer : pc'[q] \in {"idle", "done"}
    BY <2>1
  <2> QED BY <2>1, <2>2, <2>3 DEF OneInv, Untouched, Known
<1> QED BY <1>1, <1>2, <1>3, <1>4, <1>5, <1>6, <1>7, <1>8, <1>9, <1>10
        DEF Next, Detect, Mark

(* While nothing fails and the clock only goes forward, one drift makes one *)
(* event until somebody defers, across restarts too.                       *)
THEOREM OneEventEach ==
    ASSUME ~MayFail, ~ClockSteps
    PROVE  Spec => []OneEventUntilDeferred
<1>1. Init => OneInv
  BY DEF Init, OneInv, Known
<1>2. AuditInv /\ OneInv /\ [Next]_vars => OneInv'
  BY NextOne
<1>3. OneInv => OneEventUntilDeferred
  BY DEF OneInv, OneEventUntilDeferred, Untouched
<1> QED BY <1>1, <1>2, <1>3, Audit, PTL DEF Spec
=============================================================================
