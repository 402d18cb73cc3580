----------------------------- MODULE StoreProofs ----------------------------
(***************************************************************************)
(* Proofs about Store: the history of snapshots is whole, resolutions and  *)
(* open proposals are what they should be, and the in-memory double        *)
(* answers calls, and reads, as SQLite does until SQLite is the stricter   *)
(* of the two.                                                             *)
(***************************************************************************)
EXTENDS Store, FiniteSetTheorems, SequenceTheorems, WellFoundedInduction, TLAPS

-----------------------------------------------------------------------------
(* Types.                                                                  *)

SqlType == [snapshots : SUBSET Snapshots, applied : 0..MaxVersion, drifts : Seq(Drifts)]

DoubleType == [snapshots : SUBSET Snapshots, applied : 0..MaxVersion, drifts : Seq(Drifts),
               latest : Ids \cup {None}]

Shape ==
    /\ sql \in SqlType /\ double \in DoubleType
    /\ double.latest \in Stored(double.snapshots) \cup {None}
    /\ queue \in Seq(Proposals)
    /\ verdict \in {"same", "stricter", "different"}
    /\ again \subseteq Correlations

LEMMA Answers == \A x : Ok(x) # Refused
BY DEF Ok, Refused

LEMMA ComparedTyped ==
    ASSUME verdict \in {"same", "stricter", "different"}, NEW a, NEW b
    PROVE  /\ Compared(a, b) \in {"same", "stricter", "different"}
           /\ Compared(a, b) = "same" <=> verdict = "same" /\ a = b
           /\ Compared(a, b) = "different" => verdict = "different" \/ (a # Refused /\ a # b)
BY DEF Compared

LEMMA RowFound ==
    ASSUME NEW table, NEW id \in Stored(table)
    PROVE  Row(table, id) \in table /\ Row(table, id).id = id
BY DEF Stored, Row

LEMMA InitShape == Init => Shape
<1> SUFFICES ASSUME Init PROVE Shape
  OBVIOUS
<1>1. sql \in SqlType /\ double \in DoubleType
  BY StoreAssumption DEF Init, SqlType, DoubleType
<1> QED BY <1>1 DEF Init, Shape, Stored

(* What a call of insert_snapshot leaves in each of the two.               *)
LEMMA InsertEffect ==
    ASSUME Shape, NEW s \in Snapshots, InsertSnapshot(s)
    PROVE  /\ sql' \in SqlType /\ double' \in DoubleType
           /\ sql'.applied = sql.applied /\ sql'.drifts = sql.drifts
           /\ double'.applied = double.applied /\ double'.drifts = double.drifts
           /\ sql'.snapshots = IF SqlInsert(s) = Ok(s.id) /\ s.id \notin Stored(sql.snapshots)
                               THEN sql.snapshots \cup {s} ELSE sql.snapshots
           /\ double'.snapshots = IF s.id \in Stored(double.snapshots)
                                  THEN double.snapshots ELSE double.snapshots \cup {s}
           /\ double'.latest \in {double.latest, s.id}
           /\ double'.latest = double.latest \/ s \in double'.snapshots
<1>1. Pointed(s) \in {double.latest, s.id} /\ s.id \in Ids
  BY DEF Pointed, Snapshots
<1>2. sql' \in SqlType /\ sql'.applied = sql.applied /\ sql'.drifts = sql.drifts
      /\ sql'.snapshots = IF SqlInsert(s) = Ok(s.id) /\ s.id \notin Stored(sql.snapshots)
                          THEN sql.snapshots \cup {s} ELSE sql.snapshots
  BY DEF Shape, InsertSnapshot, SqlType
<1>3. CASE s.id \in Stored(double.snapshots)
  BY <1>2, <1>3 DEF Shape, InsertSnapshot
<1>4. CASE s.id \notin Stored(double.snapshots)
  <2>1. double' = [double EXCEPT !.snapshots = @ \cup {s}, !.latest = Pointed(s)]
    BY <1>4 DEF InsertSnapshot
  <2> QED BY <1>1, <1>2, <1>4, <2>1 DEF Shape, DoubleType
<1> QED BY <1>3, <1>4

LEMMA CasEffect ==
    ASSUME Shape, NEW expected \in 0..MaxVersion, NEW id \in Ids, CasAdvance(expected, id)
    PROVE  /\ sql' \in SqlType /\ double' \in DoubleType
           /\ sql'.snapshots = sql.snapshots /\ sql'.drifts = sql.drifts
           /\ double'.snapshots = double.snapshots /\ double'.drifts = double.drifts
           /\ double'.latest = double.latest
           /\ sql'.applied = IF Advances(sql, expected, id) THEN expected + 1 ELSE sql.applied
           /\ double'.applied = IF Advances(double, expected, id) THEN expected + 1 ELSE double.applied
<1>1. Advances(sql, expected, id) => expected + 1 \in 0..MaxVersion
  BY StoreAssumption DEF Shape, SqlType, Snapshots, Advances
<1>2. Advances(double, expected, id) => expected + 1 \in 0..MaxVersion
  BY StoreAssumption DEF Shape, DoubleType, Snapshots, Advances
<1>3. sql' = IF Advances(sql, expected, id) THEN [sql EXCEPT !.applied = expected + 1] ELSE sql
  BY DEF CasAdvance, CasIn
<1>4. double' = IF Advances(double, expected, id) THEN [double EXCEPT !.applied = expected + 1] ELSE double
  BY DEF CasAdvance, CasIn
<1>5. sql' \in SqlType /\ sql'.snapshots = sql.snapshots /\ sql'.drifts = sql.drifts
      /\ sql'.applied = IF Advances(sql, expected, id) THEN expected + 1 ELSE sql.applied
  BY <1>1, <1>3 DEF Shape, SqlType
<1>6. double' \in DoubleType /\ double'.snapshots = double.snapshots /\ double'.drifts = double.drifts
      /\ double'.latest = double.latest
      /\ double'.applied = IF Advances(double, expected, id) THEN expected + 1 ELSE double.applied
  BY <1>2, <1>4 DEF Shape, DoubleType
<1> QED BY <1>5, <1>6

LEMMA RecordEffect ==
    ASSUME Shape, NEW c \in Correlations, NEW at \in Times, RecordDriftEvent(c, at)
    PROVE  LET row == [correlation |-> c, at |-> at, resolution |-> None]
           IN /\ sql' \in SqlType /\ double' \in DoubleType
              /\ sql'.snapshots = sql.snapshots /\ sql'.applied = sql.applied
              /\ double'.snapshots = double.snapshots /\ double'.applied = double.applied
              /\ double'.latest = double.latest /\ again' = again
              /\ sql'.drifts = IF Known(sql.drifts, c) THEN sql.drifts ELSE Append(sql.drifts, row)
              /\ double'.drifts = Append(double.drifts, row)
              /\ row \in Drifts
<1> DEFINE row == [correlation |-> c, at |-> at, resolution |-> None]
<1>1. row \in Drifts
  BY DEF Drifts
<1>2. /\ sql' = IF ~Known(sql.drifts, c) THEN [sql EXCEPT !.drifts = Append(sql.drifts, row)] ELSE sql
      /\ double' = [double EXCEPT !.drifts = Append(double.drifts, row)]
  BY DEF RecordDriftEvent
<1>3. Append(sql.drifts, row) \in Seq(Drifts) /\ Append(double.drifts, row) \in Seq(Drifts)
  BY <1>1 DEF Shape, SqlType, DoubleType
<1> HIDE DEF row
<1>4. /\ sql' \in SqlType /\ sql'.snapshots = sql.snapshots /\ sql'.applied = sql.applied
      /\ sql'.drifts = IF Known(sql.drifts, c) THEN sql.drifts ELSE Append(sql.drifts, row)
  BY <1>2, <1>3 DEF Shape, SqlType
<1>5. /\ double' \in DoubleType /\ double'.snapshots = double.snapshots
      /\ double'.applied = double.applied /\ double'.latest = double.latest
      /\ double'.drifts = Append(double.drifts, row)
  BY <1>2, <1>3 DEF Shape, DoubleType
<1>6. again' = again
  BY DEF RecordDriftEvent
<1> QED BY <1>1, <1>4, <1>5, <1>6 DEF row

\* A resolution that is asked for.
Resolutions == {"accepted", "deferred"}

(* Rewriting the resolution of some rows of a list keeps the list.         *)
LEMMA ResolvedTyped ==
    ASSUME NEW rows \in Seq(Drifts), NEW c \in Correlations, NEW resolution \in Resolutions
    PROVE  /\ SqlResolved(rows, c, resolution) \in Seq(Drifts)
           /\ DoubleResolved(rows, c, resolution) \in Seq(Drifts)
<1>1. DOMAIN rows = 1..Len(rows) /\ Len(rows) \in Nat /\ \A i \in DOMAIN rows : rows[i] \in Drifts
  OBVIOUS
<1>2. \A i \in DOMAIN rows : [rows[i] EXCEPT !.resolution = resolution] \in Drifts
  BY <1>1 DEF Drifts, Resolutions
<1>3. SqlResolved(rows, c, resolution) \in Seq(Drifts)
  BY <1>1, <1>2 DEF SqlResolved
<1>4. DoubleResolved(rows, c, resolution) \in Seq(Drifts)
  BY <1>1, <1>2 DEF DoubleResolved
<1> QED BY <1>3, <1>4

LEMMA ResolveEffect ==
    ASSUME Shape, NEW c \in Correlations, NEW resolution \in Resolutions, ResolveDriftEvent(c, resolution)
    PROVE  /\ sql' \in SqlType /\ double' \in DoubleType
           /\ sql'.snapshots = sql.snapshots /\ sql'.applied = sql.applied
           /\ double'.snapshots = double.snapshots /\ double'.applied = double.applied
           /\ double'.latest = double.latest
           /\ again' \subseteq Correlations /\ again \subseteq again'
           /\ Resolved(sql.drifts, c) => c \in again'
           /\ sql'.drifts = SqlResolved(sql.drifts, c, resolution)
           /\ double'.drifts = DoubleResolved(double.drifts, c, resolution)
<1>1. sql.drifts \in Seq(Drifts) /\ double.drifts \in Seq(Drifts)
  BY DEF Shape, SqlType, DoubleType
<1>2. /\ SqlResolved(sql.drifts, c, resolution) \in Seq(Drifts)
      /\ DoubleResolved(double.drifts, c, resolution) \in Seq(Drifts)
  BY <1>1, ResolvedTyped
<1>3. /\ sql' = [sql EXCEPT !.drifts = SqlResolved(sql.drifts, c, resolution)]
      /\ double' = [double EXCEPT !.drifts = DoubleResolved(double.drifts, c, resolution)]
  BY DEF ResolveDriftEvent
<1>4. /\ again' \subseteq Correlations /\ again \subseteq again'
      /\ Resolved(sql.drifts, c) => c \in again'
  BY DEF ResolveDriftEvent, Shape
<1> QED BY <1>2, <1>3, <1>4 DEF Shape, SqlType, DoubleType

-----------------------------------------------------------------------------
(* The queue of proposals.                                                 *)

OneOpen(q) ==
    \A i, j \in DOMAIN q :
        q[i].state = "Pending" /\ q[j].state = "Pending" /\ q[i].source = q[j].source => i = j

LEMMA QueueAppended ==
    ASSUME NEW q \in Seq(Proposals), NEW row \in Proposals,
           \A i \in DOMAIN q : ~(q[i].state = "Pending" /\ q[i].source = row.source)
    PROVE  Append(q, row) \in Seq(Proposals) /\ (OneOpen(q) => OneOpen(Append(q, row)))
<1> DEFINE new == Append(q, row)
<1>1. /\ new \in Seq(Proposals) /\ DOMAIN new = 1..Len(q) + 1 /\ DOMAIN q = 1..Len(q)
      /\ Len(q) \in Nat /\ new[Len(q) + 1] = row /\ \A i \in DOMAIN q : new[i] = q[i]
  OBVIOUS
<1> HIDE DEF new
<1>2. \A i \in DOMAIN new : i \in DOMAIN q \/ i = Len(q) + 1
  BY <1>1
<1>3. ASSUME OneOpen(q) PROVE OneOpen(new)
  BY <1>1, <1>2, <1>3 DEF OneOpen
<1> QED BY <1>1, <1>3 DEF new

LEMMA QueueCut ==
    ASSUME NEW q \in Seq(Proposals), NEW i \in DOMAIN q
    PROVE  LET new == SubSeq(q, 1, i - 1) \o SubSeq(q, i + 1, Len(q))
           IN new \in Seq(Proposals) /\ (OneOpen(q) => OneOpen(new))
<1> DEFINE new == SubSeq(q, 1, i - 1) \o SubSeq(q, i + 1, Len(q))
           from(j) == IF j < i THEN j ELSE j + 1
<1>1. Len(q) \in Nat /\ DOMAIN q = 1..Len(q) /\ i \in 1..Len(q)
  OBVIOUS
<1>2. SubSeq(q, 1, i - 1) \in Seq(Proposals) /\ Len(SubSeq(q, 1, i - 1)) = i - 1
  BY <1>1
<1>3. SubSeq(q, i + 1, Len(q)) \in Seq(Proposals) /\ Len(SubSeq(q, i + 1, Len(q))) = Len(q) - i
  BY <1>1
<1>4. new \in Seq(Proposals) /\ DOMAIN new = 1..Len(q) - 1
  BY <1>1, <1>2, <1>3
<1>5. \A j \in DOMAIN new : new[j] = q[from(j)] /\ from(j) \in DOMAIN q
  <2> DEFINE left == SubSeq(q, 1, i - 1)
             right == SubSeq(q, i + 1, Len(q))
  <2>1. \A j \in 1..i - 1 : left[j] = q[j]
    BY <1>1
  <2>2. \A j \in 1..Len(q) - i : right[j] = q[j + i]
    BY <1>1
  <2>3. /\ left \in Seq(Proposals) /\ Len(left) = i - 1
        /\ right \in Seq(Proposals) /\ Len(right) = Len(q) - i
    BY <1>2, <1>3
  <2> HIDE DEF left, right
  <2>4. ASSUME NEW j \in 1..Len(q) - 1 PROVE (left \o right)[j] = q[from(j)] /\ from(j) \in DOMAIN q
    <3>0. j \in Nat /\ i \in Nat /\ Len(q) \in Nat /\ j <= Len(q) - 1 /\ 1 <= j /\ i <= Len(q)
      BY <1>1
    <3>1. CASE j < i
      <4>1. (left \o right)[j] = left[j]
        BY <2>3, <3>0, <3>1
      <4> QED BY <1>1, <2>1, <3>0, <3>1, <4>1
    <3>2. CASE ~(j < i)
      <4>1. j - (i - 1) \in 1..Len(q) - i /\ (j - (i - 1)) + i = j + 1
        BY <3>0, <3>2
      <4>2. (left \o right)[j] = right[j - (i - 1)]
        <5>1. j \in 1..Len(left) + Len(right) /\ j > Len(left)
          BY <2>3, <3>0, <3>2
        <5>2. (left \o right)[j] = right[j - Len(left)]
          BY <2>3, <5>1
        <5> QED BY <2>3, <5>2
      <4>3. right[j - (i - 1)] = q[j + 1]
        BY <2>2, <4>1
      <4> QED BY <1>1, <3>0, <3>2, <4>2, <4>3
    <3> QED BY <3>1, <3>2
  <2> QED BY <1>4, <2>4 DEF left, right
<1>6. \A j, k \in DOMAIN new : from(j) = from(k) => j = k
  BY <1>1, <1>4
<1> HIDE DEF new, from
<1>7. ASSUME OneOpen(q) PROVE OneOpen(new)
  BY <1>5, <1>6, <1>7 DEF OneOpen
<1> QED BY <1>4, <1>7 DEF new

LEMMA QueueExpired ==
    ASSUME NEW q \in Seq(Proposals), NEW now
    PROVE  LET new == [i \in DOMAIN q |->
                          [q[i] EXCEPT !.state = IF q[i].expires <= now THEN "Expired" ELSE @]]
           IN new \in Seq(Proposals) /\ (OneOpen(q) => OneOpen(new))
<1> DEFINE row(i) == [q[i] EXCEPT !.state = IF q[i].expires <= now THEN "Expired" ELSE @]
           new == [i \in DOMAIN q |-> row(i)]
<1>1. Len(q) \in Nat /\ DOMAIN q = 1..Len(q) /\ \A i \in DOMAIN q : q[i] \in Proposals
  OBVIOUS
<1>2. ASSUME NEW i \in DOMAIN q
      PROVE  /\ row(i) \in Proposals /\ row(i).source = q[i].source
             /\ row(i).state = "Pending" => q[i].state = "Pending"
  BY <1>1 DEF Proposals
<1> HIDE DEF row
<1>3. new \in Seq(Proposals) /\ DOMAIN new = DOMAIN q /\ \A i \in DOMAIN q : new[i] = row(i)
  BY <1>1, <1>2
<1> HIDE DEF new
<1>4. ASSUME OneOpen(q) PROVE OneOpen(new)
  BY <1>2, <1>3, <1>4 DEF OneOpen
<1> QED BY <1>3, <1>4 DEF new, row

(* What any call does to the queue.                                        *)
LEMMA QueueEffect ==
    ASSUME Shape, Calls
    PROVE  queue' \in Seq(Proposals) /\ (OneOpen(queue) => OneOpen(queue'))
<1>1. queue \in Seq(Proposals)
  BY DEF Shape
<1>2. ASSUME NEW source \in Sources, NEW expires \in Times, EnqueueProposal(source, expires)
      PROVE  queue' \in Seq(Proposals) /\ (OneOpen(queue) => OneOpen(queue'))
  <2> DEFINE row == [source |-> source, expires |-> expires, state |-> "Pending"]
  <2>1. row \in Proposals /\ row.source = source
    BY DEF Proposals
  <2>2. queue' = Append(queue, row) /\ \A i \in DOMAIN queue : ~(queue[i].state = "Pending" /\ queue[i].source = source)
    BY <1>2 DEF EnqueueProposal, Open
  <2> QED BY <1>1, <2>1, <2>2, QueueAppended
<1>3. CASE DequeueProposal
  BY <1>1, <1>3, QueueCut DEF DequeueProposal
<1>4. ASSUME NEW now \in Times, ExpireProposals(now)
      PROVE  queue' \in Seq(Proposals) /\ (OneOpen(queue) => OneOpen(queue'))
  BY <1>1, <1>4, QueueExpired DEF ExpireProposals
<1>5. CASE queue' = queue
  BY <1>1, <1>5
<1> QED BY <1>2, <1>3, <1>4, <1>5 DEF Calls, InsertSnapshot, CasAdvance, RecordDriftEvent, ResolveDriftEvent

-----------------------------------------------------------------------------
(* The invariant of the types.                                             *)

LEMMA StepShape == Shape /\ [Next]_vars => Shape'
<1> SUFFICES ASSUME Shape, [Next]_vars PROVE Shape'
  OBVIOUS
<1>1. CASE UNCHANGED vars
  BY <1>1 DEF vars, Shape
<1> SUFFICES ASSUME Next PROVE Shape'
  BY <1>1
<1>2. queue' \in Seq(Proposals)
  BY QueueEffect DEF Next
<1>3. ASSUME NEW s \in Snapshots, InsertSnapshot(s) PROVE Shape'
  <2>1. verdict' \in {"same", "stricter", "different"}
    BY <1>3, ComparedTyped DEF Shape, InsertSnapshot
  <2>3. again' = again
    BY <1>3 DEF InsertSnapshot
  <2>2. double'.latest \in Stored(double'.snapshots) \cup {None}
    <3>1. double'.latest = s.id => s \in double'.snapshots \/ double'.latest = double.latest
      BY <1>3, InsertEffect
    <3>2. double.snapshots \subseteq double'.snapshots
      BY <1>3, InsertEffect
    <3> QED BY <1>3, <3>1, <3>2, InsertEffect DEF Shape, Stored
  <2> QED BY <1>2, <1>3, <2>1, <2>2, <2>3, InsertEffect DEF Shape
<1>4. ASSUME NEW expected \in 0..MaxVersion, NEW id \in Ids, CasAdvance(expected, id) PROVE Shape'
  <2>1. verdict' \in {"same", "stricter", "different"}
    BY <1>4, ComparedTyped DEF Shape, CasAdvance
  <2>2. again' = again
    BY <1>4 DEF CasAdvance
  <2> QED BY <1>2, <1>4, <2>1, <2>2, CasEffect DEF Shape
<1>5. ASSUME NEW c \in Correlations, NEW at \in Times, RecordDriftEvent(c, at) PROVE Shape'
  <2>1. verdict' \in {"same", "stricter", "different"}
    BY <1>5, ComparedTyped DEF Shape, RecordDriftEvent
  <2> QED BY <1>2, <1>5, <2>1, RecordEffect DEF Shape
<1>6. ASSUME NEW c \in Correlations, NEW resolution \in Resolutions, ResolveDriftEvent(c, resolution)
      PROVE  Shape'
  <2>1. verdict' = verdict
    BY <1>6 DEF ResolveDriftEvent
  <2> QED BY <1>2, <1>6, <2>1, ResolveEffect DEF Shape
<1>7. CASE UNCHANGED <<sql, double, verdict, again>>
  BY <1>2, <1>7 DEF Shape
<1> QED BY <1>3, <1>4, <1>5, <1>6, <1>7 DEF Next, Calls, Resolutions, EnqueueProposal, DequeueProposal,
       ExpireProposals

THEOREM Shaped == Spec => []Shape
BY InitShape, StepShape, PTL DEF Spec

(* What the two stores hold keeps its types, and the pointer that the      *)
(* double keeps is to a snapshot it has (in_memory.rs:79-110).              *)
THEOREM TypeCorrect == Spec => []TypeOK
<1>1. Shape => TypeOK
  BY DEF Shape, TypeOK, IsDrifts, SqlType, DoubleType
<1> QED BY <1>1, Shaped, PTL

(* At most one proposal of a source is open, whatever expires and whatever *)
(* is taken from the queue (in_memory.rs:314-345).                          *)
THEOREM OneOpenEach == Spec => []OneOpenProposal
<1>1. Init => OneOpen(queue)
  BY DEF Init, OneOpen
<1>2. Shape /\ OneOpen(queue) /\ [Next]_vars => OneOpen(queue)'
  BY QueueEffect DEF Next, vars, OneOpen
<1>3. OneOpen(queue) => OneOpenProposal
  BY DEF OneOpen, OneOpenProposal
<1> QED BY <1>1, <1>2, <1>3, Shaped, PTL DEF Spec

(* The first resolution of a drift event is its last: no call of the        *)
(* trait rewrites a row that is resolved (sqlite_storage.rs:1063-1100).     *)
THEOREM ResolvedOnce == Spec => FirstResolutionStays
<1> DEFINE Kept == \A i \in DOMAIN sql.drifts :
                      sql.drifts[i].resolution # None => sql'.drifts[i] = sql.drifts[i]
<1>1. ASSUME Shape, [Next]_vars PROVE [Kept]_sql
  <2>0. sql.drifts \in Seq(Drifts)
    BY <1>1 DEF Shape, SqlType
  <2>1. CASE sql' = sql
    BY <2>1
  <2>2. ASSUME NEW s \in Snapshots, InsertSnapshot(s) PROVE Kept
    BY <1>1, <2>2, InsertEffect
  <2>3. ASSUME NEW expected \in 0..MaxVersion, NEW id \in Ids, CasAdvance(expected, id) PROVE Kept
    BY <1>1, <2>3, CasEffect
  <2>4. ASSUME NEW c \in Correlations, NEW at \in Times, RecordDriftEvent(c, at) PROVE Kept
    <3> DEFINE row == [correlation |-> c, at |-> at, resolution |-> None]
    <3>1. sql'.drifts = sql.drifts \/ sql'.drifts = Append(sql.drifts, row)
      BY <1>1, <2>4, RecordEffect
    <3> HIDE DEF row
    <3> QED BY <2>0, <3>1
  <2>5. ASSUME NEW c \in Correlations, NEW resolution \in Resolutions, ResolveDriftEvent(c, resolution)
        PROVE  Kept
    <3>1. sql'.drifts = SqlResolved(sql.drifts, c, resolution)
      BY <1>1, <2>5, ResolveEffect
    <3> QED BY <3>1 DEF SqlResolved
  <2> QED BY <1>1, <2>1, <2>2, <2>3, <2>4, <2>5 DEF Next, Calls, Resolutions, vars, EnqueueProposal,
         DequeueProposal, ExpireProposals
<1>2. Shape /\ [Next]_vars => [Kept]_sql
  BY <1>1
<1> QED BY <1>2, Shaped, PTL DEF Spec, FirstResolutionStays

-----------------------------------------------------------------------------
(* The history of snapshots.                                               *)

Versions(table) == {row.version : row \in table} \cup {0}

\* The greatest version of a table exists; it need not be derived from the
\* table's being finite, since only a greater version is inserted.
HasGreatest(table) == \E g \in Versions(table) : \A v \in Versions(table) : v <= g

OneRowPerVersion(table) == \A a, b \in table : a.version = b.version => a = b

ParentsBefore(table) ==
    \A row \in table :
        row.parent # None => \E p \in table : p.id = row.parent /\ p.version < row.version

AppliedStored == \A v \in 1..sql.applied : \E row \in sql.snapshots : row.version = v

History ==
    /\ HasGreatest(sql.snapshots) /\ OneRowPerVersion(sql.snapshots)
    /\ ParentsBefore(sql.snapshots) /\ AppliedStored

LEMMA GreatestIsGreatest ==
    ASSUME NEW table \in SUBSET Snapshots, HasGreatest(table)
    PROVE  Greatest(table) \in Nat /\ \A row \in table : row.version <= Greatest(table)
<1>1. Versions(table) \subseteq Nat
  BY StoreAssumption DEF Versions, Snapshots
<1>2. PICK g \in Versions(table) : \A v \in Versions(table) : v <= g
  BY DEF HasGreatest
<1>3. \A v \in Versions(table) : g >= v
  BY <1>1, <1>2
<1>4. Greatest(table) \in Versions(table) /\ \A v \in Versions(table) : Greatest(table) >= v
  BY <1>3 DEF Greatest, Max, Versions
<1>5. \A row \in table : row.version \in Versions(table)
  BY DEF Versions
<1> QED BY <1>1, <1>4, <1>5

LEMMA InsertKeepsHistory ==
    ASSUME Shape, History, NEW s \in Snapshots, InsertSnapshot(s)
    PROVE  History'
<1> DEFINE old == sql.snapshots
<1>1. old \in SUBSET Snapshots /\ sql'.applied = sql.applied
  BY InsertEffect DEF Shape, SqlType
<1>2. CASE sql'.snapshots = old
  BY <1>1, <1>2 DEF History, AppliedStored
<1>3. CASE SqlInsert(s) = Ok(s.id) /\ s.id \notin Stored(old)
  <2>1. sql'.snapshots = old \cup {s}
    BY <1>3, InsertEffect
  <2>2. s.parent \in Stored(old) \cup {None} /\ ~(s.version <= Greatest(old))
    BY <1>3, Answers DEF SqlInsert
  <2>3. s.version \in Nat /\ \A row \in old : row.version \in Nat
    BY <1>1, StoreAssumption DEF Snapshots
  <2>4. \A row \in old : row.version < s.version
    BY <1>1, <2>2, <2>3, GreatestIsGreatest DEF History
  <2>5. HasGreatest(old \cup {s})
    <3>1. Versions(old \cup {s}) = Versions(old) \cup {s.version}
      BY DEF Versions
    <3>2. \A v \in Versions(old) \cup {s.version} : v <= s.version
      BY <2>3, <2>4 DEF Versions
    <3> QED BY <3>1, <3>2 DEF HasGreatest
  <2>6. OneRowPerVersion(old \cup {s})
    BY <2>3, <2>4 DEF History, OneRowPerVersion
  <2>7. ParentsBefore(old \cup {s})
    BY <2>2, <2>4 DEF History, ParentsBefore, Stored
  <2>8. AppliedStored'
    BY <1>1, <2>1 DEF History, AppliedStored
  <2> QED BY <2>1, <2>5, <2>6, <2>7, <2>8 DEF History
<1> QED BY <1>2, <1>3, InsertEffect

LEMMA CasKeepsHistory ==
    ASSUME Shape, History, NEW expected \in 0..MaxVersion, NEW id \in Ids, CasAdvance(expected, id)
    PROVE  History'
<1>1. sql'.snapshots = sql.snapshots /\ sql.applied \in Nat
  BY CasEffect, StoreAssumption DEF Shape, SqlType
<1>2. AppliedStored'
  <2>1. CASE sql'.applied = sql.applied
    BY <1>1, <2>1 DEF History, AppliedStored
  <2>2. CASE Advances(sql, expected, id) /\ sql'.applied = expected + 1
    <3>1. expected = sql.applied /\ \E row \in sql.snapshots : row.version = sql.applied + 1
      BY <2>2 DEF Advances
    <3>2. \A v \in 1..sql.applied + 1 : v \in 1..sql.applied \/ v = sql.applied + 1
      BY <1>1
    <3> QED BY <1>1, <2>2, <3>1, <3>2 DEF History, AppliedStored
  <2> QED BY <2>1, <2>2, CasEffect
<1> QED BY <1>1, <1>2 DEF History

LEMMA Histories == Spec => []History
<1>1. Init => History
  BY DEF Init, History, HasGreatest, Versions, OneRowPerVersion, ParentsBefore, AppliedStored
<1>2. Shape /\ History /\ [Next]_vars => History'
  <2> SUFFICES ASSUME Shape, History, [Next]_vars PROVE History'
    OBVIOUS
  <2>1. CASE sql'.snapshots = sql.snapshots /\ sql'.applied = sql.applied
    BY <2>1 DEF History, AppliedStored
  <2>2. ASSUME NEW c \in Correlations, NEW at \in Times, RecordDriftEvent(c, at) PROVE History'
    BY <2>1, <2>2, RecordEffect
  <2>3. ASSUME NEW c \in Correlations, NEW resolution \in Resolutions, ResolveDriftEvent(c, resolution)
        PROVE  History'
    BY <2>1, <2>3, ResolveEffect
  <2> QED BY <2>1, <2>2, <2>3, InsertKeepsHistory, CasKeepsHistory DEF Next, Calls, Resolutions, vars,
         EnqueueProposal, DequeueProposal, ExpireProposals
<1> QED BY <1>1, <1>2, Shaped, PTL DEF Spec

(* Every chain of parents ends, because versions grow from a parent to its *)
(* children, and no version of the applied history is missing               *)
(* (sqlite_storage.rs:295-429, 1121-1164).                                  *)
THEOREM WholeHistory == Spec => []HistoryIsWhole
<1>1. Shape /\ History => HistoryIsWhole
  <2> SUFFICES ASSUME Shape, History, NEW v \in 1..sql.applied
               PROVE  Cardinality({row \in sql.snapshots : row.version = v}) = 1
    BY DEF HistoryIsWhole, History, ParentsBefore
  <2>1. PICK row \in sql.snapshots : row.version = v
    BY DEF History, AppliedStored
  <2>2. {r \in sql.snapshots : r.version = v} = {row}
    BY <2>1 DEF History, OneRowPerVersion
  <2> QED BY <2>2, FS_Singleton
<1> QED BY <1>1, Histories, Shaped, PTL

-----------------------------------------------------------------------------
(* The double agrees with SQLite.                                          *)

\* The same drift events, open in the one if they are in the other and resolved
\* in the same way if once, and no correlation id twice.
SameEvents ==
    /\ DOMAIN sql.drifts = DOMAIN double.drifts
    /\ \A i \in DOMAIN sql.drifts :
          /\ SameAnswer(sql.drifts[i], double.drifts[i])
          /\ sql.drifts[i].resolution = None <=> double.drifts[i].resolution = None
    /\ \A i, j \in DOMAIN sql.drifts :
          sql.drifts[i].correlation = sql.drifts[j].correlation => i = j

Same ==
    /\ sql.snapshots = double.snapshots /\ sql.applied = double.applied
    /\ SameEvents

Agree == verdict # "different" /\ (verdict = "same" => Same)

(* A row that neither of two agreeing lists has yet.                       *)
LEMMA EventAppended ==
    ASSUME Shape, SameEvents, NEW c \in Correlations, NEW at \in Times, RecordDriftEvent(c, at),
           ~Known(sql.drifts, c)
    PROVE  SameEvents'
<1> DEFINE row == [correlation |-> c, at |-> at, resolution |-> None]
           s == sql.drifts
           d == double.drifts
<1>1. s \in Seq(Drifts) /\ d \in Seq(Drifts) /\ row \in Drifts
      /\ sql'.drifts = Append(s, row) /\ double'.drifts = Append(d, row)
  BY RecordEffect DEF Shape, SqlType, DoubleType
<1>2. \A i \in DOMAIN s : s[i].correlation # row.correlation
  BY DEF Known
<1>3. Len(s) = Len(d) /\ Len(s) \in Nat /\ DOMAIN s = 1..Len(s) /\ DOMAIN d = DOMAIN s
  BY <1>1 DEF SameEvents
<1>4. row.resolution = None
  OBVIOUS
<1> HIDE DEF row
<1>5. /\ DOMAIN sql'.drifts = 1..Len(s) + 1 /\ DOMAIN double'.drifts = 1..Len(s) + 1
      /\ sql'.drifts[Len(s) + 1] = row /\ double'.drifts[Len(s) + 1] = row
      /\ \A i \in 1..Len(s) : sql'.drifts[i] = s[i] /\ double'.drifts[i] = d[i]
  BY <1>1, <1>3
<1>6. \A i \in 1..Len(s) + 1 : i \in 1..Len(s) \/ i = Len(s) + 1
  BY <1>3
<1>7. \A i \in 1..Len(s) + 1 :
        /\ sql'.drifts[i].correlation = double'.drifts[i].correlation
        /\ sql'.drifts[i].at = double'.drifts[i].at
        /\ sql'.drifts[i].resolution = double'.drifts[i].resolution \/ sql'.drifts[i].correlation \in again'
        /\ sql'.drifts[i].resolution = None <=> double'.drifts[i].resolution = None
  <2>1. again' = again
    BY RecordEffect
  <2> QED BY <1>3, <1>5, <1>6, <2>1 DEF SameEvents, SameAnswer
<1>8. \A i, j \in 1..Len(s) + 1 : sql'.drifts[i].correlation = sql'.drifts[j].correlation => i = j
  <2>1. \A i, j \in 1..Len(s) : s[i].correlation = s[j].correlation => i = j
    BY <1>3 DEF SameEvents
  <2> QED BY <1>2, <1>3, <1>5, <1>6, <2>1
<1> QED BY <1>5, <1>7, <1>8 DEF SameEvents, SameAnswer

(* A resolution closes the same row in both.                               *)
LEMMA EventResolved ==
    ASSUME Shape, SameEvents, NEW c \in Correlations, NEW resolution \in Resolutions,
           ResolveDriftEvent(c, resolution)
    PROVE  SameEvents'
<1> DEFINE s == sql.drifts
           d == double.drifts
<1>1. /\ s \in Seq(Drifts) /\ d \in Seq(Drifts) /\ DOMAIN s = DOMAIN d
      /\ \A i \in DOMAIN s : s[i] \in Drifts /\ d[i] \in Drifts
  BY DEF Shape, SqlType, DoubleType, SameEvents
<1>2. resolution # None
  BY StoreAssumption DEF Resolutions
<1>3. DOMAIN s = 1..Len(s) /\ Len(s) \in Nat
  BY <1>1
<1>4. /\ DOMAIN sql'.drifts = DOMAIN s
      /\ \A i \in DOMAIN s :
            sql'.drifts[i] = IF s[i].correlation = c /\ s[i].resolution = None
                             THEN [s[i] EXCEPT !.resolution = resolution] ELSE s[i]
  BY ResolveEffect DEF SqlResolved
<1>5. /\ DOMAIN double'.drifts = DOMAIN s
      /\ \A i \in DOMAIN s :
            double'.drifts[i] = IF d[i].correlation = c
                                THEN [d[i] EXCEPT !.resolution = resolution] ELSE d[i]
  <2>1. double'.drifts = DoubleResolved(d, c, resolution)
    BY ResolveEffect
  <2>2. ASSUME NEW i \in DOMAIN s, d[i].correlation = c, NEW j \in 1..i - 1
        PROVE  d[j].correlation # c
    <3>1. j \in DOMAIN s /\ j # i
      BY <1>3
    <3> QED BY <2>2, <3>1 DEF SameEvents, SameAnswer
  <2> QED BY <1>1, <2>1, <2>2 DEF DoubleResolved
<1>6. ASSUME NEW i \in DOMAIN s
      PROVE  /\ sql'.drifts[i].correlation = s[i].correlation
             /\ double'.drifts[i].correlation = d[i].correlation
             /\ sql'.drifts[i].resolution = None <=> s[i].resolution = None /\ s[i].correlation # c
             /\ double'.drifts[i].resolution = None <=> d[i].resolution = None /\ d[i].correlation # c
  BY <1>1, <1>2, <1>4, <1>5 DEF Drifts
<1>7. ASSUME NEW i \in DOMAIN s 
      PROVE  /\ sql'.drifts[i].correlation = double'.drifts[i].correlation
             /\ sql'.drifts[i].at = double'.drifts[i].at
             /\ \/ sql'.drifts[i].resolution = double'.drifts[i].resolution
                \/ sql'.drifts[i].correlation \in again'
  <2>1. /\ SameAnswer(s[i], d[i])
        /\ s[i].resolution = None <=> d[i].resolution = None
        /\ s[i].correlation = d[i].correlation /\ again \subseteq again'
    BY ResolveEffect DEF SameEvents, SameAnswer
  <2>2. CASE s[i].correlation # c
    BY <1>1, <1>4, <1>5, <2>1, <2>2 DEF SameAnswer
  <2>3. CASE s[i].correlation = c /\ s[i].resolution = None
    <3>1. /\ sql'.drifts[i] = [s[i] EXCEPT !.resolution = resolution]
          /\ double'.drifts[i] = [d[i] EXCEPT !.resolution = resolution]
      BY <1>1, <1>4, <1>5, <2>1, <2>3
    <3>2. sql'.drifts[i].resolution = resolution /\ double'.drifts[i].resolution = resolution
      BY <1>1, <3>1 DEF Drifts
    <3>3. sql'.drifts[i].at = s[i].at /\ double'.drifts[i].at = d[i].at
      BY <1>1, <3>1 DEF Drifts
    <3> QED BY <1>6, <2>1, <3>2, <3>3 DEF SameAnswer
  <2>4. CASE s[i].correlation = c /\ s[i].resolution # None
    <3>1. c \in again'
      BY <1>1, <2>4, ResolveEffect DEF Resolved
    <3>2. sql'.drifts[i].at = s[i].at /\ double'.drifts[i].at = d[i].at
      BY <1>1, <1>4, <1>5 DEF Drifts
    <3> QED BY <1>6, <2>1, <2>4, <3>1, <3>2 DEF SameAnswer
  <2> QED BY <2>2, <2>3, <2>4
<1>8. \A i \in DOMAIN s :
        /\ SameAnswer(s[i], d[i])
        /\ s[i].resolution = None <=> d[i].resolution = None
        /\ s[i].correlation = d[i].correlation
  BY DEF SameEvents, SameAnswer
<1>9. \A i \in DOMAIN s :
        sql'.drifts[i].resolution = None <=> double'.drifts[i].resolution = None
  BY <1>6, <1>8
<1>10. \A i, j \in DOMAIN s : sql'.drifts[i].correlation = sql'.drifts[j].correlation => i = j
  BY <1>6 DEF SameEvents
<1> QED BY <1>4, <1>5, <1>7, <1>9, <1>10 DEF SameEvents, SameAnswer

LEMMA InsertAgrees ==
    ASSUME Shape, Same, NEW s \in Snapshots
    PROVE  /\ SqlInsert(s) = Refused \/ SqlInsert(s) = DoubleInsert(s)
           /\ InsertSnapshot(s) /\ SqlInsert(s) = DoubleInsert(s) => Same'
<1>1. sql.snapshots = double.snapshots
  BY DEF Same
<1>2. SqlInsert(s) \in {Ok(s.id), Refused} /\ DoubleInsert(s) \in {Ok(s.id), Refused}
  BY DEF SqlInsert, DoubleInsert
<1>3. SqlInsert(s) = Ok(s.id) => DoubleInsert(s) = Ok(s.id)
  BY <1>1, Answers DEF SqlInsert, DoubleInsert
<1>4. DoubleInsert(s) = Refused => s.id \in Stored(double.snapshots)
  BY Answers DEF DoubleInsert
<1>5. ASSUME InsertSnapshot(s), SqlInsert(s) = DoubleInsert(s) PROVE Same'
  <2>1. sql'.snapshots = double'.snapshots
    BY <1>1, <1>2, <1>4, <1>5, InsertEffect
  <2>2. again' = again
    BY <1>5 DEF InsertSnapshot
  <2> QED BY <1>5, <2>1, <2>2, InsertEffect DEF Same, SameEvents, SameAnswer
<1> QED BY <1>2, <1>3, <1>5

LEMMA StepAgree == Shape /\ Agree /\ [Next]_vars => Agree'
<1> SUFFICES ASSUME Shape, Agree, [Next]_vars PROVE Agree'
  OBVIOUS
<1>1. CASE UNCHANGED vars
  BY <1>1 DEF vars, Agree, Same, SameEvents, SameAnswer
<1> SUFFICES ASSUME Next PROVE Agree'
  BY <1>1
<1>2. verdict = "same" /\ Same
  BY DEF Next, Agree
<1>3. ASSUME NEW s \in Snapshots, InsertSnapshot(s) PROVE Agree'
  <2>1. verdict' = Compared(SqlInsert(s), DoubleInsert(s))
    BY <1>3 DEF InsertSnapshot
  <2> QED BY <1>2, <1>3, <2>1, InsertAgrees, ComparedTyped DEF Shape, Agree
<1>4. ASSUME NEW expected \in 0..MaxVersion, NEW id \in Ids, CasAdvance(expected, id) PROVE Agree'
  <2>1. Advances(sql, expected, id) <=> Advances(double, expected, id)
    BY <1>2 DEF Same, Advances
  <2>2. CasAnswer(sql, expected, id) = CasAnswer(double, expected, id)
    BY <2>1 DEF CasAnswer
  <2>3. verdict' = verdict
    BY <1>4, <2>2 DEF CasAdvance, Compared
  <2>4. Same'
    BY <1>2, <1>4, <2>1, CasEffect DEF Same, SameEvents, SameAnswer, CasAdvance
  <2> QED BY <1>2, <2>3, <2>4 DEF Agree
<1>5. ASSUME NEW c \in Correlations, NEW at \in Times, RecordDriftEvent(c, at) PROVE Agree'
  <2>1. CASE Known(sql.drifts, c)
    <3>1. verdict' = Compared(Refused, Ok(c))
      BY <1>5, <2>1 DEF RecordDriftEvent
    <3> QED BY <1>2, <3>1, Answers DEF Agree, Compared
  <2>2. CASE ~Known(sql.drifts, c)
    <3>1. verdict' = Compared(Ok(c), Ok(c))
      BY <1>5, <2>2 DEF RecordDriftEvent
    <3>2. Same'
      BY <1>2, <1>5, <2>2, RecordEffect, EventAppended DEF Same
    <3> QED BY <1>2, <3>1, <3>2 DEF Agree, Compared
  <2> QED BY <2>1, <2>2
<1>6. ASSUME NEW c \in Correlations, NEW resolution \in Resolutions, ResolveDriftEvent(c, resolution)
      PROVE  Agree'
  <2>1. Same'
    BY <1>2, <1>6, ResolveEffect, EventResolved DEF Same
  <2> QED BY <1>2, <1>6, <2>1 DEF Agree, ResolveDriftEvent
<1>7. CASE UNCHANGED <<sql, double, verdict, again>>
  BY <1>7 DEF Agree, Same, SameEvents, SameAnswer
<1> QED BY <1>3, <1>4, <1>5, <1>6, <1>7 DEF Next, Calls, Resolutions, EnqueueProposal, DequeueProposal,
       ExpireProposals

THEOREM Agreement == Spec => []Agree
<1>1. Init => Agree
  BY DEF Init, Agree, Same, SameEvents
<1> QED BY <1>1, StepAgree, Shaped, PTL DEF Spec

(* Until SQLite refuses a call that the double takes, the two give every    *)
(* call the same answer (in_memory.rs:79-409, sqlite_storage.rs:296-429,     *)
(* 1121-1164).                                                              *)
THEOREM DoubleIsLaxer == Spec => []OnlyStricter
<1>1. Agree => OnlyStricter
  BY DEF Agree, OnlyStricter
<1> QED BY <1>1, Agreement, PTL

(* As long as they do, they hold the same snapshots and applied version and *)
(* have the same drift events open, although a resolution is written to     *)
(* them in different ways.                                                  *)
THEOREM DoubleHasTheSame == Spec => []SameContents
<1>1. Agree => SameContents
  BY DEF Agree, Same, SameEvents, SameContents, Unresolved
<1> QED BY <1>1, Agreement, PTL

-----------------------------------------------------------------------------
(* The reads.                                                              *)

Less == {pair \in Nat \X Nat : pair[1] < pair[2]}

LEMMA LeastNatural ==
    ASSUME NEW T, T \subseteq Nat, T # {}
    PROVE  \E n \in T : \A k \in T : n <= k
<1>1. IsWellFoundedOn(Less, Nat)
  BY NatLessThanWellFounded DEF OpToRel, Less
<1>2. PICK n \in T : \A k \in T : ~(<<k, n>> \in Less)
  BY <1>1, WFMin
<1>3. \A k \in T : n \in Nat /\ k \in Nat /\ ~(k < n)
  BY <1>2 DEF Less
<1> QED BY <1>3

LEMMA MaxOfBounded ==
    ASSUME NEW bound \in Nat, NEW T \in SUBSET 1..bound, T # {}
    PROVE  Max(T) \in T /\ \A k \in T : k <= Max(T)
<1> DEFINE Rest == {bound - k : k \in T}
<1>1. Rest \subseteq Nat /\ Rest # {}
  <2>1. \A k \in T : bound - k \in Nat
    OBVIOUS
  <2> QED BY <2>1
<1>2. PICK r \in Rest : \A q \in Rest : r <= q
  BY <1>1, LeastNatural
<1>3. PICK m \in T : r = bound - m
  OBVIOUS
<1>4. \A k \in T : k <= m
  <2>1. ASSUME NEW k \in T PROVE k <= m
    <3>1. r <= bound - k /\ k \in Nat /\ m \in Nat
      BY <1>2
    <3> QED BY <1>3, <3>1
  <2> QED BY <2>1
<1>5. \E x \in T : \A y \in T : x >= y
  BY <1>4
<1>6. Max(T) \in T /\ \A y \in T : Max(T) >= y
  BY <1>5 DEF Max
<1> QED BY <1>6

\* The double's pointer is the greatest version.
LatestIsGreatest ==
    \/ sql.snapshots = {} /\ double.latest = None
    \/ \E row \in sql.snapshots :
          row.id = double.latest /\ \A r \in sql.snapshots : r.version <= row.version

InOrder(rows) == \A i, j \in DOMAIN rows : i <= j => rows[i].at <= rows[j].at

OneRowPerId(table) == \A a, b \in table : a.id = b.id => a = b

Readable ==
    /\ IsFiniteSet(sql.snapshots) /\ OneRowPerId(sql.snapshots)
    /\ InOrder(sql.drifts)
    /\ verdict = "same" => LatestIsGreatest

LEMMA InsertReadable ==
    ASSUME Shape, History, Agree, Readable, verdict = "same", NEW s \in Snapshots, InsertSnapshot(s)
    PROVE  Readable'
<1> DEFINE old == sql.snapshots
<1>1. old \in SUBSET Snapshots /\ old = double.snapshots /\ sql'.drifts = sql.drifts
  BY InsertEffect DEF Shape, SqlType, Agree, Same
<1>2. CASE s.id \in Stored(old)
  <2>1. sql'.snapshots = old /\ double' = double
    BY <1>1, <1>2, InsertEffect DEF InsertSnapshot
  <2> QED BY <1>1, <2>1 DEF Readable, LatestIsGreatest
<1>3. CASE s.id \notin Stored(old) /\ SqlInsert(s) # Ok(s.id)
  <2>1. sql'.snapshots = old
    BY <1>3, InsertEffect
  <2>2. SqlInsert(s) = Refused /\ DoubleInsert(s) = Ok(s.id)
    BY <1>1, <1>3 DEF SqlInsert, DoubleInsert
  <2>3. verdict' # "same"
    BY <2>2, Answers DEF InsertSnapshot, Compared
  <2> QED BY <1>1, <2>1, <2>3 DEF Readable
<1>4. CASE s.id \notin Stored(old) /\ SqlInsert(s) = Ok(s.id)
  <2>1. sql'.snapshots = old \cup {s}
    BY <1>4, InsertEffect
  <2>2. ~(s.version <= Greatest(old)) /\ s.version \in Nat /\ \A row \in old : row.version \in Nat
    BY <1>1, <1>4, Answers, StoreAssumption DEF SqlInsert, Snapshots
  <2>3. \A row \in old : row.version < s.version
    BY <1>1, <2>2, GreatestIsGreatest DEF History
  <2>4. double'.latest = s.id
    <3>1. double'.latest = Pointed(s)
      BY <1>1, <1>4 DEF InsertSnapshot, Shape, DoubleType
    <3>2. CASE double.latest = None
      BY <3>1, <3>2 DEF Pointed
    <3>3. CASE double.latest # None
      <4>1. double.latest \in Stored(double.snapshots)
        BY <3>3 DEF Shape
      <4>2. Row(double.snapshots, double.latest) \in old
        BY <1>1, <4>1, RowFound
      <4> QED BY <2>2, <2>3, <3>1, <4>2 DEF Pointed
    <3> QED BY <3>2, <3>3
  <2>5. IsFiniteSet(old \cup {s})
    BY FS_AddElement DEF Readable
  <2>6. OneRowPerId(old \cup {s})
    BY <1>4 DEF Readable, OneRowPerId, Stored
  <2>7. LatestIsGreatest'
    BY <2>1, <2>2, <2>3, <2>4 DEF LatestIsGreatest
  <2> QED BY <1>1, <2>1, <2>5, <2>6, <2>7 DEF Readable
<1> QED BY <1>2, <1>3, <1>4

LEMMA RecordReadable ==
    ASSUME Shape, Readable, NEW c \in Correlations, NEW at \in Times, RecordDriftEvent(c, at)
    PROVE  InOrder(sql'.drifts)
<1> DEFINE row == [correlation |-> c, at |-> at, resolution |-> None]
           s == sql.drifts
<1>1. s \in Seq(Drifts) /\ sql'.drifts \in {s, Append(s, row)} /\ row \in Drifts
  BY RecordEffect DEF Shape, SqlType
<1>2. \A i \in DOMAIN s : s[i].at <= at
  BY DEF RecordDriftEvent
<1>3. CASE sql'.drifts = Append(s, row)
  <2>1. row.at = at /\ at \in Nat
    BY StoreAssumption
  <2> HIDE DEF row
  <2>2. DOMAIN s = 1..Len(s) /\ Len(s) \in Nat
    BY <1>1
  <2>3. /\ DOMAIN Append(s, row) = 1..Len(s) + 1 /\ Append(s, row)[Len(s) + 1] = row
        /\ \A i \in 1..Len(s) : Append(s, row)[i] = s[i]
    BY <1>1, <2>2
  <2>4. \A i \in 1..Len(s) + 1 : i \in 1..Len(s) \/ i = Len(s) + 1
    BY <2>2
  <2>5. ASSUME NEW i \in 1..Len(s) + 1, NEW j \in 1..Len(s) + 1, i <= j
        PROVE  Append(s, row)[i].at <= Append(s, row)[j].at
    <3>1. CASE j = Len(s) + 1
      BY <1>2, <2>1, <2>2, <2>3, <2>4, <3>1
    <3>2. CASE j \in 1..Len(s)
      <4>1. i \in 1..Len(s)
        BY <2>2, <2>5, <3>2
      <4> QED BY <2>2, <2>3, <2>5, <3>2, <4>1 DEF Readable, InOrder
    <3> QED BY <2>4, <3>1, <3>2
  <2> QED BY <1>3, <2>3, <2>5 DEF InOrder
<1>4. CASE sql'.drifts = s
  BY <1>4 DEF Readable
<1> QED BY <1>1, <1>3, <1>4

LEMMA ResolveReadable ==
    ASSUME Shape, Readable, NEW c \in Correlations, NEW resolution \in Resolutions,
           ResolveDriftEvent(c, resolution)
    PROVE  InOrder(sql'.drifts)
<1>1. sql'.drifts = SqlResolved(sql.drifts, c, resolution)
  BY ResolveEffect
<1>2. \A i \in DOMAIN sql.drifts : sql.drifts[i] \in Drifts
  BY DEF Shape, SqlType
<1>3. /\ DOMAIN sql'.drifts = DOMAIN sql.drifts
      /\ \A i \in DOMAIN sql.drifts : sql'.drifts[i].at = sql.drifts[i].at
  BY <1>1, <1>2 DEF SqlResolved, Drifts
<1> QED BY <1>3 DEF Readable, InOrder

LEMMA StepReadable == Shape /\ History /\ Agree /\ Readable /\ [Next]_vars => Readable'
<1> SUFFICES ASSUME Shape, History, Agree, Readable, [Next]_vars PROVE Readable'
  OBVIOUS
<1>1. CASE UNCHANGED vars
  BY <1>1 DEF vars, Readable, LatestIsGreatest
<1> SUFFICES ASSUME Next PROVE Readable'
  BY <1>1
<1>2. verdict = "same"
  BY DEF Next
<1>3. ASSUME NEW s \in Snapshots, InsertSnapshot(s) PROVE Readable'
  BY <1>2, <1>3, InsertReadable
<1>4. CASE sql'.snapshots = sql.snapshots /\ double'.latest = double.latest /\ InOrder(sql'.drifts)
  BY <1>2, <1>4 DEF Readable, LatestIsGreatest
<1>5. ASSUME NEW expected \in 0..MaxVersion, NEW id \in Ids, CasAdvance(expected, id) PROVE Readable'
  BY <1>4, <1>5, CasEffect DEF Readable
<1>6. ASSUME NEW c \in Correlations, NEW at \in Times, RecordDriftEvent(c, at) PROVE Readable'
  BY <1>4, <1>6, RecordEffect, RecordReadable
<1>7. ASSUME NEW c \in Correlations, NEW resolution \in Resolutions, ResolveDriftEvent(c, resolution)
      PROVE  Readable'
  BY <1>4, <1>7, ResolveEffect, ResolveReadable
<1>8. CASE UNCHANGED <<sql, double, verdict, again>>
  BY <1>4, <1>8 DEF Readable
<1> QED BY <1>3, <1>5, <1>6, <1>7, <1>8 DEF Next, Calls, Resolutions, EnqueueProposal, DequeueProposal,
       ExpireProposals

LEMMA LatestRead ==
    ASSUME Shape, History, LatestIsGreatest, OneRowPerId(sql.snapshots)
    PROVE  SqlLatest = double.latest
<1>1. CASE sql.snapshots = {}
  BY <1>1 DEF SqlLatest, LatestIsGreatest
<1>2. CASE sql.snapshots # {}
  <2>1. PICK row \in sql.snapshots :
           row.id = double.latest /\ \A r \in sql.snapshots : r.version <= row.version
    BY <1>2 DEF LatestIsGreatest
  <2>2. /\ \A r \in sql.snapshots : r.version \in Nat /\ r.version > 0
        /\ sql.snapshots \in SUBSET Snapshots
    BY StoreAssumption DEF Shape, SqlType, Snapshots
  <2>3. Greatest(sql.snapshots) \in Versions(sql.snapshots)
    <3>1. row.version \in Versions(sql.snapshots) /\ \A v \in Versions(sql.snapshots) : row.version >= v
      BY <2>1, <2>2 DEF Versions
    <3> QED BY <3>1 DEF Greatest, Max, Versions
  <2>4. Greatest(sql.snapshots) \in Nat /\ \A r \in sql.snapshots : r.version <= Greatest(sql.snapshots)
    BY <2>2, GreatestIsGreatest DEF History
  <2>5. row.version = Greatest(sql.snapshots)
    BY <2>1, <2>2, <2>3, <2>4 DEF Versions
  <2> DEFINE last == CHOOSE r \in sql.snapshots : r.version = Greatest(sql.snapshots)
  <2>6. last \in sql.snapshots /\ last.version = Greatest(sql.snapshots)
    BY <2>5
  <2>7. last = row
    BY <2>5, <2>6 DEF History, OneRowPerVersion
  <2> QED BY <1>2, <2>1, <2>7 DEF SqlLatest
<1> QED BY <1>1, <1>2

LEMMA HeightCounts ==
    ASSUME NEW table, IsFiniteSet(table), NEW leaf
    PROVE  Height(table, leaf) \in Nat
<1> DEFINE Steps == {n \in 0..Cardinality(table) : Ancestors(table, leaf)[n] \in Stored(table)}
<1>1. IsFiniteSet(0..Cardinality(table))
  BY FS_CardinalityType, FS_Interval
<1>2. Steps \subseteq 0..Cardinality(table)
  OBVIOUS
<1> HIDE DEF Steps
<1>3. Cardinality(Steps) \in Nat
  BY <1>1, <1>2, FS_Subset, FS_CardinalityType
<1> QED BY <1>3 DEF Height, Steps

LEMMA ChainsRead ==
    ASSUME Same, IsFiniteSet(sql.snapshots), NEW leaf
    PROVE  LET all == Height(sql.snapshots, leaf) IN SqlChain(leaf, all) = DoubleChain(leaf, all)
<1> DEFINE h == Height(sql.snapshots, leaf)
           rows == Chain(sql.snapshots, leaf, h)
<1>1. h \in Nat /\ h = Height(double.snapshots, leaf) /\ sql.snapshots = double.snapshots
  BY HeightCounts DEF Same
<1>2. /\ rows = [i \in 1..h |-> Ancestors(sql.snapshots, leaf)[h - i]]
      /\ rows = Chain(double.snapshots, leaf, h)
  BY <1>1 DEF Chain
<1>3. rows \in Seq({rows[i] : i \in 1..h}) /\ Len(rows) = h
  BY <1>1, <1>2
<1> HIDE DEF rows
<1>4. SubSeq(rows, 1, h) = rows
  BY <1>3, SubSeqFull
<1> HIDE DEF h
<1>5. SmallerOf(h, h + 2) = h /\ SmallerOf(h, h) = h
  BY <1>1 DEF SmallerOf
<1>6. SqlChain(leaf, h) = rows
  BY <1>3, <1>4, <1>5 DEF SqlChain, rows, h
<1>7. DoubleChain(leaf, h) = rows
  BY <1>1, <1>2, <1>5 DEF DoubleChain
<1> QED BY <1>6, <1>7 DEF h

LEMMA DriftRead ==
    ASSUME Shape, SameEvents, InOrder(sql.drifts), Unresolved(double.drifts) # {}
    PROVE  \E row \in SqlUnresolved : SameAnswer(row, double.drifts[Max(Unresolved(double.drifts))])
<1> DEFINE open == Unresolved(double.drifts)
           last == Max(open)
<1>1. open = Unresolved(sql.drifts) /\ DOMAIN double.drifts = DOMAIN sql.drifts
  BY DEF SameEvents, Unresolved
<1>2. Len(sql.drifts) \in Nat /\ DOMAIN sql.drifts = 1..Len(sql.drifts)
  BY DEF Shape, SqlType
<1>3. open \subseteq 1..Len(sql.drifts)
  BY <1>1, <1>2 DEF Unresolved
<1> HIDE DEF open
<1>4. last \in open /\ \A k \in open : k <= last
  BY <1>2, <1>3, MaxOfBounded DEF open
<1> HIDE DEF last
<1>5. \A k \in open : sql.drifts[k].at <= sql.drifts[last].at
  BY <1>2, <1>3, <1>4 DEF InOrder
<1>6. sql.drifts[last] \in SqlUnresolved
  BY <1>1, <1>4, <1>5 DEF SqlUnresolved
<1>7. SameAnswer(sql.drifts[last], double.drifts[last])
  BY <1>2, <1>3, <1>4 DEF SameEvents
<1> QED BY <1>6, <1>7 DEF last, open

LEMMA LatestDriftRead ==
    ASSUME Shape, SameEvents, InOrder(sql.drifts), double.drifts # <<>>
    PROVE  \E row \in SqlLatestDrifts : SameAnswer(row, DoubleLatestDrift)
<1> DEFINE last == Len(double.drifts)
<1>1. /\ Len(sql.drifts) \in Nat /\ DOMAIN sql.drifts = 1..Len(sql.drifts)
      /\ last \in Nat \ {0} /\ DOMAIN double.drifts = 1..last
  BY DEF Shape, SqlType, DoubleType
<1>2. last \in DOMAIN sql.drifts /\ \A k \in DOMAIN sql.drifts : k <= last
  <2>1. DOMAIN sql.drifts = 1..last
    BY <1>1 DEF SameEvents
  <2> HIDE DEF last
  <2> QED BY <1>1, <2>1
<1> HIDE DEF last
<1>3. \A k \in DOMAIN sql.drifts : sql.drifts[k].at <= sql.drifts[last].at
  BY <1>2 DEF InOrder
<1>4. sql.drifts[last] \in SqlLatestDrifts
  BY <1>2, <1>3 DEF SqlLatestDrifts
<1>5. SameAnswer(sql.drifts[last], double.drifts[last])
  BY <1>2 DEF SameEvents
<1> QED BY <1>4, <1>5 DEF DoubleLatestDrift, last

(* ... and the reads of these tables give the same: the latest snapshot,     *)
(* pages, whole chains of parents, the applied version, and the latest and   *)
(* the latest open drift event, but for how an event was resolved that was   *)
(* resolved twice (in_memory.rs:117-185 and 287-311, sqlite_storage.rs:      *)
(* 662-793 and 1004-1062).                                                  *)
THEOREM DoubleReadsTheSame == Spec => []ReadsAgree
<1>1. Init => Readable
  BY FS_EmptySet DEF Init, Readable, OneRowPerId, InOrder, LatestIsGreatest
<1>2. Shape /\ History /\ Agree /\ Readable => ReadsAgree
  <2> SUFFICES ASSUME Shape, History, Agree, Readable, verdict = "same" PROVE ReadsAgree
    BY DEF ReadsAgree
  <2>1. Same /\ SameEvents /\ sql.snapshots = double.snapshots
    BY DEF Agree, Same
  <2>2. SqlLatest = double.latest
    BY LatestRead DEF Readable
  <2>3. \A leaf \in Ids : LET all == Height(sql.snapshots, leaf) IN SqlChain(leaf, all) = DoubleChain(leaf, all)
    BY <2>1, ChainsRead DEF Readable
  <2>4. Unresolved(double.drifts) # {} =>
           \E row \in SqlUnresolved : SameAnswer(row, double.drifts[Max(Unresolved(double.drifts))])
    BY <2>1, DriftRead DEF Readable
  <2>5. double.drifts # <<>> => \E row \in SqlLatestDrifts : SameAnswer(row, DoubleLatestDrift)
    BY <2>1, LatestDriftRead DEF Readable
  <2>6. sql.applied = double.applied
    BY <2>1 DEF Same
  <2> QED BY <2>1, <2>2, <2>3, <2>4, <2>5, <2>6 DEF ReadsAgree
<1> QED BY <1>1, <1>2, StepReadable, Shaped, Histories, Agreement, PTL DEF Spec

=============================================================================
