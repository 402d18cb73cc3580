------------------------------ MODULE AuditLog ------------------------------
(***************************************************************************)
(* The audit log: concurrent AuditWriter::record calls, each of which      *)
(* draws a row id and reads the clock before the transaction that chains   *)
(* and inserts the row, and a client that pages through the log meanwhile. *)
(*                                                                         *)
(* A ULID is a number: its milliseconds, then its random part.             *)
(***************************************************************************)
EXTENDS Naturals, Sequences, FiniteSets

CONSTANTS
    Writer,         \* concurrent calls of AuditWriter::record
    Seed,           \* audit_prev_hash_seed(), 64 zeros: the hash of no row
    RandomRange,    \* how many random parts a ULID may have
    MsPerSecond,
    ClockSteps,     \* may the wall clock be set back?
    PageSize,       \* the limit of one GET /audit, after clamping
    MaxMs, MaxRows  \* bounds of the model

ASSUME AuditAssumption ==
    /\ Seed \notin Nat
    /\ RandomRange \in Nat \ {0} /\ MsPerSecond \in Nat \ {0}
    /\ PageSize \in Nat \ {0}
    /\ ClockSteps \in BOOLEAN
    /\ MaxMs \in Nat /\ MaxRows \in Nat

VARIABLES
    clock,          \* the wall clock, in milliseconds
    pc,             \* what each writer does next
    id, at,         \* the row each writer prepares: its id, its occurred_at
    log,            \* table audit_log, in the order of the commits
    walk,           \* is the client paging?
    cursor,         \* its cursor_before: every id it may still get is below
    base,           \* the rows there were when it started
    got, count      \* the rows it was given, and how many rows that was

draft == <<pc, id, at>>
reader == <<walk, cursor, base, got, count>>
vars == <<clock, draft, log, reader>>

Row == [id : Nat, at : Nat, prev : Nat \cup {Seed}]

TypeOK ==
    /\ clock \in Nat
    /\ pc \in [Writer -> {"idle", "clock", "commit"}]
    /\ id \in [Writer -> Nat] /\ at \in [Writer -> Nat]
    /\ log \in Seq(Row)
    /\ walk \in {"off", "on", "done"}
    /\ cursor \in Nat /\ base \in SUBSET Nat /\ got \in SUBSET Nat /\ count \in Nat

Init ==
    /\ clock = 0
    /\ pc = [w \in Writer |-> "idle"]
    /\ id = [w \in Writer |-> 0] /\ at = [w \in Writer |-> 0]
    /\ log = <<>>
    /\ walk = "off" /\ cursor = 0 /\ base = {} /\ got = {} /\ count = 0

-----------------------------------------------------------------------------
Rows == {log[i] : i \in 1..Len(log)}
Ids == {r.id : r \in Rows}

\* ORDER BY occurred_at, id
Precedes(r, s) == r.at < s.at \/ (r.at = s.at /\ r.id < s.id)

\* compute_audit_chain_hash: SHA-256 of the row without its prev_hash.  It
\* covers the id, the primary key, and so tells the rows apart as the id does.
HashOf(r) == r.id

\* Mutant: the predecessor is the first row (ASC for DESC).
PrevHash_First ==
    IF Rows = {} THEN {Seed}
    ELSE {HashOf(r) : r \in {f \in Rows : \A s \in Rows : s = f \/ Precedes(f, s)}}

\* The hash of the last row, ORDER BY occurred_at DESC, id DESC LIMIT 1, or
\* the seed (the only element).
PrevHash ==
    IF Rows = {} THEN {Seed}
    ELSE {HashOf(r) : r \in {l \in Rows : \A s \in Rows : s = l \/ Precedes(s, l)}}

-----------------------------------------------------------------------------
(* Writers.                                                                *)

\* The call returns, and its row goes with it.
Forget(w) ==
    /\ pc' = [pc EXCEPT ![w] = "idle"]
    /\ id' = [id EXCEPT ![w] = 0] /\ at' = [at EXCEPT ![w] = 0]

\* Ulid::new(): the time now and a random part; no two ULIDs are equal.
DrawId(w) ==
    /\ pc[w] = "idle" /\ Len(log) < MaxRows
    /\ \E random \in 0..RandomRange - 1 :
          LET new == clock * RandomRange + random IN
          /\ new \notin Ids
          /\ \A v \in Writer : pc[v] # "idle" => id[v] # new
          /\ id' = [id EXCEPT ![w] = new]
    /\ pc' = [pc EXCEPT ![w] = "clock"]
    /\ UNCHANGED <<clock, at, log, reader>>

\* clock.now_unix_ms() / 1_000
ReadClock(w) ==
    /\ pc[w] = "clock"
    /\ at' = [at EXCEPT ![w] = clock \div MsPerSecond]
    /\ pc' = [pc EXCEPT ![w] = "commit"]
    /\ UNCHANGED <<clock, id, log, reader>>

\* record_audit_event: BEGIN IMMEDIATE, SELECT the last row, INSERT, COMMIT.
Commit(w) ==
    /\ pc[w] = "commit" /\ Len(log) < MaxRows
    /\ \E hash \in PrevHash :
          log' = Append(log, [id |-> id[w], at |-> at[w], prev |-> hash])
    /\ Forget(w)
    /\ UNCHANGED <<clock, reader>>

\* An unknown kind, a field too long, a foreign key, a busy database, a
\* dropped future, a crash: no row.
Fail(w) ==
    /\ pc[w] # "idle"
    /\ Forget(w)
    /\ UNCHANGED <<clock, log, reader>>

Tick ==
    /\ \/ clock < MaxMs /\ clock' = clock + 1
       \/ ClockSteps /\ clock > 0 /\ clock' = clock - 1
    /\ UNCHANGED <<draft, log, reader>>

-----------------------------------------------------------------------------
(* The client of GET /api/v1/audit.                                        *)

StartWalk ==
    /\ walk = "off"
    /\ walk' = "on" /\ cursor' = (MaxMs + 1) * RandomRange
    /\ base' = Ids /\ got' = {} /\ count' = 0
    /\ UNCHANGED <<clock, draft, log>>

\* WHERE id < cursor_before
Eligible == {i \in Ids : i < cursor}

\* Mutant: ORDER BY id ASC.
IsPage_Ascending(page) ==
    /\ page \subseteq Eligible
    /\ Cardinality(page) <= PageSize
    /\ \A i \in page, j \in Eligible \ page : j > i
    /\ page # Eligible => Cardinality(page) = PageSize

\* ORDER BY id DESC LIMIT PageSize
IsPage(page) ==
    /\ page \subseteq Eligible
    /\ Cardinality(page) <= PageSize
    /\ \A i \in page, j \in Eligible \ page : j < i
    /\ page # Eligible => Cardinality(page) = PageSize

\* The next page starts below its last row; a short page is the last one.
NextPage ==
    /\ walk = "on"
    /\ \E page \in SUBSET Eligible :
          /\ IsPage(page)
          /\ got' = got \cup page /\ count' = count + Cardinality(page)
          /\ walk' = IF Cardinality(page) < PageSize THEN "done" ELSE "on"
          /\ cursor' \in IF page = {} THEN {cursor}
                         ELSE {i \in page : \A j \in page : i <= j}
    /\ UNCHANGED <<clock, draft, log, base>>

EndWalk ==
    /\ walk = "done" /\ walk' = "off"
    /\ cursor' = 0 /\ base' = {} /\ got' = {} /\ count' = 0
    /\ UNCHANGED <<clock, draft, log>>

Next ==
    \/ \E w \in Writer : DrawId(w) \/ ReadClock(w) \/ Commit(w) \/ Fail(w)
    \/ Tick \/ StartWalk \/ NextPage \/ EndWalk

Spec == Init /\ [][Next]_vars

-----------------------------------------------------------------------------
\* verify_audit_chain over the rows, oldest first, answers Ok: each row
\* carries the hash of the row just before it, the oldest the seed.
Verifies ==
    \A r \in Rows :
        \/ r.prev = Seed /\ \A s \in Rows : ~Precedes(s, r)
        \/ \E p \in Rows :
              /\ r.prev = HashOf(p) /\ Precedes(p, r)
              /\ \A s \in Rows : ~(Precedes(p, s) /\ Precedes(s, r))

(* Properties.                                                             *)

\* The chain hangs together: the first row committed, and no other, carries
\* the seed; every other row the hash of a row committed before it.
Anchored ==
    \A i \in 1..Len(log) :
        IF i = 1 THEN log[i].prev = Seed
        ELSE \E j \in 1..i - 1 : log[i].prev = HashOf(log[j])

\* No row was committed after a row of a later (occurred_at, id).
CommittedInOrder ==
    \A i, j \in 1..Len(log) : i < j => Precedes(log[i], log[j])

\* The verification fails exactly when some row was overtaken between drawing
\* its id and its commit: BEGIN IMMEDIATE keeps the chain whole if and only if
\* the writers commit in the order of their keys.
IntactIffInOrder == Verifies <=> CommittedInOrder

\* A client that pages with the cursor gets every row there was when it
\* started, however many rows are written meanwhile, and no row twice.
PagingIsExact ==
    /\ walk = "done" => base \subseteq got
    /\ count = Cardinality(got)

=============================================================================
