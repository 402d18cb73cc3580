------------------------------- MODULE Store --------------------------------
(***************************************************************************)
(* The Storage trait and its two implementations, given the same calls:    *)
(* SqliteStorage, which the daemon uses, and InMemoryStorage, with which   *)
(* most tests replace it.  A call is atomic in both: one by a transaction  *)
(* (see AuditLog and Applier for calls that race), one by its mutexes.     *)
(***************************************************************************)
EXTENDS Naturals, Sequences, FiniteSets, FiniteSetsExt

CONSTANTS
    Ids, Bodies, Hash,  \* Hash[body] is the id that addresses the body
    Correlations,       \* correlation ids of drift events
    Sources,            \* (source, source_ref) of proposals
    None,
    MaxVersion,         \* bounds: snapshot versions,
    Times,              \* times of the clock,
    MaxQueue            \* and proposals in the queue

ASSUME StoreAssumption ==
    /\ Hash \in [Bodies -> Ids]
    /\ None \notin Ids \cup {"accepted", "deferred"}
    /\ MaxVersion \in Nat /\ Times \subseteq Nat /\ MaxQueue \in Nat

Snapshots ==
    [id : Ids, parent : Ids \cup {None}, version : 1..MaxVersion, body : Bodies]

Drifts ==
    [correlation : Correlations, at : Times, resolution : {"accepted", "deferred", None}]

Proposals == [source : Sources, expires : Times, state : {"Pending", "Expired"}]

Ok(value) == <<"ok", value>>

Refused == <<"refused">>

VARIABLES
    sql,        \* the tables: snapshots (a set), applied, drifts
    double,     \* the fields of InMemoryStorage, with latest_ptr
    queue,      \* proposals, which SqliteStorage refuses to hold
    verdict,    \* the answers so far: all the "same", SQLite once "stricter" than
                \* the double, or once different in another way
    again       \* history: drift events that were resolved when they were already

vars == <<sql, double, queue, verdict, again>>

Stored(table) == {row.id : row \in table}

Row(table, id) == CHOOSE row \in table : row.id = id

Greatest(table) == Max({row.version : row \in table} \cup {0})

Compared(sqlAnswer, doubleAnswer) ==
    IF verdict # "same" \/ sqlAnswer = doubleAnswer THEN verdict
    ELSE IF sqlAnswer = Refused THEN "stricter" ELSE "different"

-----------------------------------------------------------------------------
(* insert_snapshot.                                                        *)

SqlInsert(s) ==
    IF Hash[s.body] # s.id THEN Refused
    ELSE IF s.id \in Stored(sql.snapshots)
    THEN LET row == Row(sql.snapshots, s.id)
         IN IF row.body = s.body /\ row.version = s.version THEN Ok(s.id) ELSE Refused
    ELSE IF s.parent \notin Stored(sql.snapshots) \cup {None} THEN Refused
    ELSE IF s.version <= Greatest(sql.snapshots) THEN Refused
    ELSE Ok(s.id)

\* Mutant: the double asks for a greater version first.
DoubleInsert_Greater(s) ==
    IF s.version <= Greatest(double.snapshots) THEN Refused ELSE Ok(s.id)

DoubleInsert(s) ==
    IF s.id \in Stored(double.snapshots) /\ Row(double.snapshots, s.id).body # s.body
    THEN Refused ELSE Ok(s.id)

\* latest_ptr moves only to a greater version.
Pointed(s) ==
    IF double.latest = None \/ s.version > Row(double.snapshots, double.latest).version
    THEN s.id ELSE double.latest

\* Mutant: the last snapshot inserted is the latest.
InsertSnapshot_Last(s) ==
    /\ sql' = IF SqlInsert(s) = Ok(s.id) /\ s.id \notin Stored(sql.snapshots)
              THEN [sql EXCEPT !.snapshots = @ \cup {s}] ELSE sql
    /\ double' = IF s.id \in Stored(double.snapshots) THEN [double EXCEPT !.latest = s.id]
                 ELSE [double EXCEPT !.snapshots = @ \cup {s}, !.latest = s.id]
    /\ verdict' = Compared(SqlInsert(s), DoubleInsert(s))
    /\ UNCHANGED <<queue, again>>

InsertSnapshot(s) ==
    /\ sql' = IF SqlInsert(s) = Ok(s.id) /\ s.id \notin Stored(sql.snapshots)
              THEN [sql EXCEPT !.snapshots = @ \cup {s}] ELSE sql
    /\ double' = IF s.id \in Stored(double.snapshots) THEN double
                 ELSE [double EXCEPT !.snapshots = @ \cup {s}, !.latest = Pointed(s)]
    /\ verdict' = Compared(SqlInsert(s), DoubleInsert(s))
    /\ UNCHANGED <<queue, again>>

-----------------------------------------------------------------------------
(* cas_advance_config_version.                                             *)

\* Mutant: any stored snapshot will do.
Advances_Any(store, expected, id) ==
    store.applied = expected /\ id \in Stored(store.snapshots)

Advances(store, expected, id) ==
    /\ store.applied = expected
    /\ \E row \in store.snapshots : row.id = id /\ row.version = expected + 1

CasAnswer(store, expected, id) ==
    IF Advances(store, expected, id) THEN Ok(expected + 1) ELSE Refused

CasIn(store, expected, id) ==
    IF Advances(store, expected, id) THEN [store EXCEPT !.applied = expected + 1] ELSE store

CasAdvance(expected, id) ==
    /\ sql' = CasIn(sql, expected, id)
    /\ double' = CasIn(double, expected, id)
    /\ verdict' = Compared(CasAnswer(sql, expected, id), CasAnswer(double, expected, id))
    /\ UNCHANGED <<queue, again>>

-----------------------------------------------------------------------------
(* Drift events, rows in the order of their insertion.                     *)

Known(rows, correlation) == \E i \in DOMAIN rows : rows[i].correlation = correlation

\* The correlation id is unique in the table.  The clock does not step back.
RecordDriftEvent(correlation, at) ==
    LET unique == ~Known(sql.drifts, correlation)
        row == [correlation |-> correlation, at |-> at, resolution |-> None]
    IN /\ \A i \in DOMAIN sql.drifts : sql.drifts[i].at <= at
       /\ sql' = IF unique THEN [sql EXCEPT !.drifts = Append(@, row)] ELSE sql
       /\ double' = [double EXCEPT !.drifts = Append(@, row)]
       /\ verdict' = Compared(IF unique THEN Ok(correlation) ELSE Refused, Ok(correlation))
       /\ UNCHANGED <<queue, again>>

SqlResolved(rows, correlation, resolution) ==
    [i \in DOMAIN rows |->
        IF rows[i].correlation = correlation /\ rows[i].resolution = None
        THEN [rows[i] EXCEPT !.resolution = resolution] ELSE rows[i]]

\* The double overwrites the resolution of the first row of that id.
DoubleResolved(rows, correlation, resolution) ==
    LET First(i) == rows[i].correlation = correlation
                    /\ \A j \in 1..i - 1 : rows[j].correlation # correlation
    IN [i \in DOMAIN rows |->
           IF First(i) THEN [rows[i] EXCEPT !.resolution = resolution] ELSE rows[i]]

Resolved(rows, correlation) ==
    \E i \in DOMAIN rows : rows[i].correlation = correlation /\ rows[i].resolution # None

ResolveDriftEvent(correlation, resolution) ==
    /\ again' = again \cup {c \in {correlation} : Resolved(sql.drifts, c)}
    /\ sql' = [sql EXCEPT !.drifts = SqlResolved(@, correlation, resolution)]
    /\ double' = [double EXCEPT !.drifts = DoubleResolved(@, correlation, resolution)]
    /\ UNCHANGED <<queue, verdict>>

-----------------------------------------------------------------------------
(* Proposals.  SqliteStorage answers every call with NotYetAvailable, which *)
(* is not compared.                                                        *)

Open(source) == \E i \in DOMAIN queue : queue[i].state = "Pending" /\ queue[i].source = source

\* Both refuse a second open proposal of a source, which changes nothing.
EnqueueProposal(source, expires) ==
    /\ Len(queue) < MaxQueue
    /\ ~Open(source)
    /\ queue' = Append(queue, [source |-> source, expires |-> expires, state |-> "Pending"])
    /\ UNCHANGED <<sql, double, verdict, again>>

\* The first pending proposal leaves the queue, whether it has expired or not.
DequeueProposal ==
    \E i \in DOMAIN queue :
        /\ queue[i].state = "Pending" /\ \A j \in 1..i - 1 : queue[j].state # "Pending"
        /\ queue' = SubSeq(queue, 1, i - 1) \o SubSeq(queue, i + 1, Len(queue))
        /\ UNCHANGED <<sql, double, verdict, again>>

ExpireProposals(now) ==
    /\ queue' = [i \in DOMAIN queue |->
                    [queue[i] EXCEPT !.state = IF queue[i].expires <= now THEN "Expired" ELSE @]]
    /\ UNCHANGED <<sql, double, verdict, again>>

-----------------------------------------------------------------------------
(* Reads.  tail_audit_log is left to module AuditLog.                      *)

\* latest_desired_state.
SqlLatest == IF sql.snapshots = {} THEN None
             ELSE (CHOOSE row \in sql.snapshots : row.version = Greatest(sql.snapshots)).id

\* list_snapshots: the set of what a page from below a version holds.
Page(table, limit, before) ==
    LET below == {row \in table : row.version < before}
    IN {row \in below : Cardinality({r \in below : r.version > row.version}) < limit}

\* latest_drift_event: SQLite answers one of the rows detected last, the double
\* the row it recorded last.
SqlLatestDrifts ==
    {sql.drifts[i] : i \in {j \in DOMAIN sql.drifts :
                        \A k \in DOMAIN sql.drifts : sql.drifts[k].at <= sql.drifts[j].at}}

DoubleLatestDrift == double.drifts[Len(double.drifts)]

\* latest_unresolved_drift_event.
Unresolved(rows) == {i \in DOMAIN rows : rows[i].resolution = None}

SqlUnresolved ==
    {sql.drifts[i] : i \in {j \in Unresolved(sql.drifts) :
                        \A k \in Unresolved(sql.drifts) : sql.drifts[k].at <= sql.drifts[j].at}}

\* parent_chain: the snapshot n steps above the leaf, None above the first one.
Ancestors(table, leaf) ==
    LET a[n \in 0..Cardinality(table)] ==
            IF n = 0 THEN leaf
            ELSE IF a[n - 1] \in Stored(table) THEN Row(table, a[n - 1]).parent ELSE None
    IN a

Height(table, leaf) ==
    Cardinality({n \in 0..Cardinality(table) : Ancestors(table, leaf)[n] \in Stored(table)})

\* The n snapshots from the leaf upwards, oldest first.
Chain(table, leaf, n) == [i \in 1..n |-> Ancestors(table, leaf)[n - i]]

SmallerOf(m, n) == IF m < n THEN m ELSE n

\* The query walks to depth limit + 1 and the code keeps the first rows, the oldest.
SqlChain(leaf, limit) ==
    LET rows == Chain(sql.snapshots, leaf, SmallerOf(Height(sql.snapshots, leaf), limit + 2))
    IN SubSeq(rows, 1, SmallerOf(Len(rows), limit))

\* The walk stops after limit rows.
DoubleChain(leaf, limit) ==
    Chain(double.snapshots, leaf, SmallerOf(Height(double.snapshots, leaf), limit))

-----------------------------------------------------------------------------

Init ==
    /\ sql = [snapshots |-> {}, applied |-> 0, drifts |-> <<>>]
    /\ double = [snapshots |-> {}, applied |-> 0, drifts |-> <<>>, latest |-> None]
    /\ queue = <<>> /\ verdict = "same" /\ again = {}

Calls ==
    \/ \E s \in Snapshots : InsertSnapshot(s)
    \/ \E expected \in 0..MaxVersion, id \in Ids : CasAdvance(expected, id)
    \/ \E c \in Correlations :
          \/ \E at \in Times : RecordDriftEvent(c, at)
          \/ \E resolution \in {"accepted", "deferred"} : ResolveDriftEvent(c, resolution)
    \/ \E source \in Sources, expires \in Times : EnqueueProposal(source, expires)
    \/ DequeueProposal
    \/ \E now \in Times : ExpireProposals(now)

\* Nothing is compared once the histories differ; the call that SQLite refused
\* has left its tables alone, so no state of theirs is missed.
Next == verdict = "same" /\ Calls

Spec == Init /\ [][Next]_vars

-----------------------------------------------------------------------------
(* Properties.                                                             *)

IsDrifts(rows) ==
    \A i \in DOMAIN rows : rows[i] \in Drifts

TypeOK ==
    /\ sql.snapshots \subseteq Snapshots /\ sql.applied \in 0..MaxVersion /\ IsDrifts(sql.drifts)
    /\ double.snapshots \subseteq Snapshots /\ double.applied \in 0..MaxVersion
    /\ IsDrifts(double.drifts) /\ double.latest \in Stored(double.snapshots) \cup {None}
    /\ \A i \in DOMAIN queue : queue[i] \in Proposals
    /\ verdict \in {"same", "stricter", "different"} /\ again \subseteq Correlations

\* Up to the first call that SQLite refuses and the double does not, every call
\* gets the same answer from both: what a test finds refused by the double is
\* refused by SQLite (in_memory.rs:79-409, sqlite_storage.rs:296-429, 1121-1164).
OnlyStricter == verdict # "different"

\* After the same answers the two hold the same snapshots and applied version,
\* and have the same drift events open.
SameContents ==
    verdict = "same" =>
        /\ sql.snapshots = double.snapshots /\ sql.applied = double.applied
        /\ Unresolved(sql.drifts) = Unresolved(double.drifts)

\* Two answers about a drift event: the same event, resolved in the same way
\* unless it was resolved twice, which SQLite ignores and the double does not.
SameAnswer(row, other) ==
    /\ row.correlation = other.correlation /\ row.at = other.at
    /\ row.resolution = other.resolution \/ row.correlation \in again

\* ... and the reads of these tables agree.  latest_desired_state: the pointer
\* that the double keeps is the greatest version; list_snapshots: pages are
\* equal; parent_chain: so is a chain within the limit; current_config_version;
\* latest_drift_event and latest_unresolved_drift_event: the row that the double
\* answers is one that SQLite may, but for how it was resolved the second time.
ReadsAgree ==
    verdict = "same" =>
        /\ SqlLatest = double.latest
        /\ \A limit \in 1..2, before \in 1..MaxVersion + 1 :
              Page(sql.snapshots, limit, before) = Page(double.snapshots, limit, before)
        /\ \A leaf \in Ids : LET all == Height(sql.snapshots, leaf)
                            IN SqlChain(leaf, all) = DoubleChain(leaf, all)
        /\ sql.applied = double.applied
        /\ double.drifts # <<>> =>
              \E row \in SqlLatestDrifts : SameAnswer(row, DoubleLatestDrift)
        /\ Unresolved(double.drifts) # {} =>
              \E row \in SqlUnresolved :
                 SameAnswer(row, double.drifts[Max(Unresolved(double.drifts))])

\* The snapshots are a forest in which versions grow from a parent to its
\* children, so that every chain of parents ends; and no version of the applied
\* history is missing.
HistoryIsWhole ==
    /\ \A row \in sql.snapshots :
          row.parent # None => \E p \in sql.snapshots : p.id = row.parent /\ p.version < row.version
    /\ \A v \in 1..sql.applied : Cardinality({row \in sql.snapshots : row.version = v}) = 1

\* The first resolution of a drift event is its last, whoever else resolves it
\* (F023, sqlite_storage.rs:1063-1100).
FirstResolutionStays ==
    [][\A i \in DOMAIN sql.drifts :
          sql.drifts[i].resolution # None => sql'.drifts[i] = sql.drifts[i]]_sql

\* At most one proposal of a source is open (in_memory.rs:314-345).
OneOpenProposal ==
    \A i, j \in DOMAIN queue :
        queue[i].state = "Pending" /\ queue[j].state = "Pending" /\ queue[i].source = queue[j].source
            => i = j

=============================================================================
