--------------------------- MODULE AuditLogProofs ---------------------------
(* The chain of the audit log, for any number of writers and rows.         *)
EXTENDS AuditLog, FiniteSetTheorems, TLAPS

USE DEF HashOf

(***************************************************************************)
(* What an inductive invariant has to say: the ids of the rows and of the  *)
(* drafts are distinct, and the row a commit chained to was the last, in   *)
(* the order of (occurred_at, id), of those committed before it.           *)
(***************************************************************************)
IdsUnique ==
    \A i, j \in 1..Len(log) : log[i].id = log[j].id => i = j

DraftsFresh ==
    \A w \in Writer : pc[w] # "idle" =>
        \A i \in 1..Len(log) : log[i].id # id[w]

DraftsDistinct ==
    \A v, w \in Writer :
        pc[v] # "idle" /\ pc[w] # "idle" /\ id[v] = id[w] => v = w

LastBefore(i, j) ==
    \A k \in 1..j - 1 : k = i \/ Precedes(log[k], log[i])

Chained ==
    \A j \in 1..Len(log) :
        /\ j = 1 => log[j].prev = Seed
        /\ j > 1 => \E i \in 1..j - 1 : log[j].prev = HashOf(log[i]) /\ LastBefore(i, j)

LogInv == TypeOK /\ IdsUnique /\ DraftsFresh /\ DraftsDistinct /\ Chained

-----------------------------------------------------------------------------
(* Rows are ordered by (occurred_at, id).                                  *)
LEMMA PrecedesIsTransitive ==
    ASSUME NEW r \in Row, NEW s \in Row, NEW t \in Row,
           Precedes(r, s), Precedes(s, t)
    PROVE  Precedes(r, t)
  BY DEF Row, Precedes

LEMMA PrecedesIsAsymmetric ==
    ASSUME NEW r \in Row, NEW s \in Row, Precedes(r, s)
    PROVE  ~Precedes(s, r)
  BY DEF Row, Precedes

LEMMA ProductIsNat ==
    ASSUME NEW m \in Nat, NEW n \in Nat
    PROVE  m * n \in Nat
  OBVIOUS

LEMMA QuotientIsNat ==
    ASSUME NEW m \in Nat, NEW n \in Nat \ {0}
    PROVE  m \div n \in Nat
  OBVIOUS

LEMMA RowsAreRows ==
    ASSUME log \in Seq(Row)
    PROVE  \A i \in 1..Len(log) : log[i] \in Row
  OBVIOUS

LEMMA IdsAreNats == ASSUME TypeOK PROVE Ids \subseteq Nat
<1>1. \A i \in 1..Len(log) : log[i] \in Row
  BY RowsAreRows DEF TypeOK
<1>2. \A r \in Rows : r.id \in Nat
  BY <1>1 DEF Rows, Row
<1> QED BY <1>2 DEF Ids

(* A page is a finite set of ids.                                          *)
LEMMA PagesAreFinite ==
    ASSUME TypeOK, NEW page \in SUBSET Eligible
    PROVE  page \subseteq Nat /\ Cardinality(page) \in Nat
<1>1. cursor \in Nat /\ Ids \subseteq Nat
  BY IdsAreNats DEF TypeOK
<1>2. page \in SUBSET Nat /\ \A i \in page : i <= cursor
  BY <1>1 DEF Eligible
<1>3. IsFiniteSet(page)
  BY <1>1, <1>2, FS_BoundedSetOfNaturals
<1> QED BY <1>2, <1>3, FS_CardinalityType

(* What a commit appends is chained to the last row, if there is one.      *)
LEMMA CommitChains ==
    ASSUME LogInv, NEW w \in Writer, Commit(w)
    PROVE  /\ Len(log') = Len(log) + 1
           /\ \A i \in 1..Len(log) : log'[i] = log[i]
           /\ log'[Len(log')] \in Row
           /\ log'[Len(log')].id = id[w]
           /\ Len(log) = 0 => log'[Len(log')].prev = Seed
           /\ Len(log) > 0 => \E i \in 1..Len(log) :
                 /\ log'[Len(log')].prev = log[i].id
                 /\ \A k \in 1..Len(log) : k = i \/ Precedes(log[k], log[i])
<1>1. log \in Seq(Row) /\ id[w] \in Nat /\ at[w] \in Nat
  BY DEF LogInv, TypeOK
<1>2. PICK hash \in PrevHash :
         log' = Append(log, [id |-> id[w], at |-> at[w], prev |-> hash])
  BY DEF Commit
<1>3. Len(log) = 0 => hash = Seed
  BY <1>1, <1>2 DEF PrevHash, Rows
<1>4. Len(log) > 0 => \E i \in 1..Len(log) :
         hash = log[i].id /\ \A k \in 1..Len(log) : k = i \/ Precedes(log[k], log[i])
  <2>1. SUFFICES ASSUME Len(log) > 0
                 PROVE  \E i \in 1..Len(log) : /\ hash = log[i].id
                            /\ \A k \in 1..Len(log) : k = i \/ Precedes(log[k], log[i])
    OBVIOUS
  <2>2. Rows # {}
    <3>1. 1 \in 1..Len(log)
      BY <1>1, <2>1
    <3> QED BY <3>1 DEF Rows
  <2>3. PICK l \in Rows : hash = l.id /\ \A s \in Rows : s = l \/ Precedes(s, l)
    BY <1>2, <2>2 DEF PrevHash
  <2>4. PICK i \in 1..Len(log) : l = log[i]
    BY <2>3 DEF Rows
  <2>5. ASSUME NEW k \in 1..Len(log) PROVE k = i \/ Precedes(log[k], log[i])
    <3>1. log[k] \in Rows
      BY DEF Rows
    <3>2. log[k] = log[i] => k = i
      BY DEF LogInv, IdsUnique
    <3> QED BY <2>3, <2>4, <3>1, <3>2
  <2> QED BY <2>3, <2>4, <2>5
<1>5. hash \in Nat \cup {Seed}
  <2>1. CASE Len(log) = 0
    BY <1>3, <2>1
  <2>2. CASE Len(log) > 0
    BY <1>1, <1>4, <2>2, RowsAreRows DEF Row
  <2> QED BY <1>1, <2>1, <2>2
<1>6. [id |-> id[w], at |-> at[w], prev |-> hash] \in Row
  BY <1>1, <1>5 DEF Row
<1>7. /\ Len(log') = Len(log) + 1
      /\ \A i \in 1..Len(log) : log'[i] = log[i]
      /\ log'[Len(log')] = [id |-> id[w], at |-> at[w], prev |-> hash]
  BY <1>1, <1>2, <1>6
<1> QED BY <1>3, <1>4, <1>6, <1>7

-----------------------------------------------------------------------------
LEMMA InitLog == Init => LogInv
<1> SUFFICES ASSUME Init PROVE LogInv
  OBVIOUS
<1>1. log = <<>> /\ Len(log) = 0
  BY DEF Init
<1>2. TypeOK
  BY DEF Init, TypeOK
<1> QED BY <1>1, <1>2 DEF Init, LogInv, IdsUnique, DraftsFresh, DraftsDistinct, Chained

(* A step that leaves the rows and every draft that is under way alone.    *)
LEMMA SameRows ==
    ASSUME LogInv, TypeOK', log' = log,
           \A w \in Writer : pc'[w] # "idle" => pc[w] # "idle" /\ id'[w] = id[w]
    PROVE  LogInv'
<1>1. IdsUnique' /\ DraftsFresh' /\ DraftsDistinct'
  BY DEF LogInv, IdsUnique, DraftsFresh, DraftsDistinct
<1>2. Chained'
  BY DEF LogInv, Chained, LastBefore, Precedes
<1> QED BY <1>1, <1>2 DEF LogInv

LEMMA DrawIdLog == ASSUME LogInv, NEW w \in Writer, DrawId(w) PROVE LogInv'
<1>1. PICK random \in 0..RandomRange - 1 :
         /\ clock * RandomRange + random \notin Ids
         /\ \A v \in Writer : pc[v] # "idle" => id[v] # clock * RandomRange + random
         /\ id' = [id EXCEPT ![w] = clock * RandomRange + random]
  BY DEF DrawId
<1> DEFINE new == clock * RandomRange + random
<1>2. new \in Nat
  <2>1. clock \in Nat /\ RandomRange \in Nat /\ random \in Nat
    BY AuditAssumption DEF LogInv, TypeOK, AuditAssumption
  <2>2. clock * RandomRange \in Nat
    BY <2>1, ProductIsNat
  <2> HIDE DEF new
  <2> QED BY <2>1, <2>2 DEF new
<1>3. /\ pc[w] = "idle" /\ pc' = [pc EXCEPT ![w] = "clock"]
      /\ id' = [id EXCEPT ![w] = new] /\ log' = log
  BY <1>1 DEF DrawId
<1>4. TypeOK'
  BY <1>2, <1>3 DEF LogInv, TypeOK, DrawId, reader
<1>5. \A i \in 1..Len(log) : log[i].id # new
  BY <1>1 DEF Ids, Rows
<1>6. \A v \in Writer : pc[v] # "idle" => id[v] # new
  BY <1>1
<1> HIDE DEF new
<1>7. pc \in [Writer -> {"idle", "clock", "commit"}] /\ id \in [Writer -> Nat]
  BY DEF LogInv, TypeOK
<1>8. DraftsFresh'
  BY <1>3, <1>5, <1>7 DEF LogInv, DraftsFresh
<1>9. DraftsDistinct'
  BY <1>3, <1>6, <1>7 DEF LogInv, DraftsDistinct
<1>10. IdsUnique' /\ Chained'
  BY <1>3 DEF LogInv, IdsUnique, Chained, LastBefore, Precedes
<1> QED BY <1>4, <1>8, <1>9, <1>10 DEF LogInv

LEMMA CommitLog == ASSUME LogInv, NEW w \in Writer, Commit(w) PROVE LogInv'
<1> DEFINE n == Len(log)
<1>1. /\ Len(log') = n + 1
      /\ \A i \in 1..n : log'[i] = log[i]
      /\ log'[n + 1] \in Row
      /\ log'[n + 1].id = id[w]
      /\ n = 0 => log'[n + 1].prev = Seed
      /\ n > 0 => \E i \in 1..n :
            /\ log'[n + 1].prev = log[i].id
            /\ \A k \in 1..n : k = i \/ Precedes(log[k], log[i])
  BY CommitChains
<1>2. /\ log \in Seq(Row) /\ n \in Nat
      /\ pc \in [Writer -> {"idle", "clock", "commit"}] /\ id \in [Writer -> Nat]
  BY DEF LogInv, TypeOK
<1>3. /\ pc[w] # "idle"
      /\ pc' = [pc EXCEPT ![w] = "idle"] /\ id' = [id EXCEPT ![w] = 0]
  BY DEF Commit, Forget
<1>4. TypeOK'
  <2>1. PICK hash \in PrevHash :
           log' = Append(log, [id |-> id[w], at |-> at[w], prev |-> hash])
    BY DEF Commit
  <2>2. [id |-> id[w], at |-> at[w], prev |-> hash] = log'[n + 1]
    BY <1>2, <2>1
  <2>3. log' \in Seq(Row)
    BY <1>1, <1>2, <2>1, <2>2
  <2> QED BY <2>3 DEF LogInv, TypeOK, Commit, Forget, reader
<1> HIDE DEF n
<1>5. \A i \in 1..n : log[i].id # id[w]
  BY <1>3 DEF LogInv, DraftsFresh, n
<1>6. IdsUnique'
  <2>1. SUFFICES ASSUME NEW i \in 1..n + 1, NEW j \in 1..n + 1, log'[i].id = log'[j].id
                 PROVE  i = j
    BY <1>1 DEF IdsUnique
  <2>2. CASE i \in 1..n /\ j \in 1..n
    BY <1>1, <2>1, <2>2 DEF LogInv, IdsUnique, n
  <2>3. CASE i = n + 1 \/ j = n + 1
    BY <1>1, <1>2, <1>5, <2>1, <2>3
  <2> QED BY <1>2, <2>2, <2>3
<1>7. DraftsFresh'
  <2>1. SUFFICES ASSUME NEW v \in Writer, pc'[v] # "idle", NEW i \in 1..n + 1
                 PROVE  log'[i].id # id'[v]
    BY <1>1 DEF DraftsFresh
  <2>2. v # w /\ pc[v] # "idle" /\ id'[v] = id[v]
    BY <1>2, <1>3, <2>1
  <2>3. CASE i \in 1..n
    BY <1>1, <2>2, <2>3 DEF LogInv, DraftsFresh, n
  <2>4. CASE i = n + 1
    BY <1>1, <1>3, <2>2, <2>4 DEF LogInv, DraftsDistinct
  <2> QED BY <1>2, <2>3, <2>4
<1>8. DraftsDistinct'
  BY <1>2, <1>3 DEF LogInv, DraftsDistinct
<1>9. Chained'
  <2>1. SUFFICES ASSUME NEW j \in 1..n + 1
                 PROVE  /\ j = 1 => log'[j].prev = Seed
                        /\ j > 1 => \E i \in 1..j - 1 :
                              /\ log'[j].prev = log'[i].id
                              /\ \A k \in 1..j - 1 :
                                    k = i \/ Precedes(log'[k], log'[i])
    BY <1>1 DEF Chained, LastBefore, Precedes
  <2>2. CASE j \in 1..n
    <3>1. /\ j = 1 => log[j].prev = Seed
          /\ j > 1 => \E i \in 1..j - 1 :
                log[j].prev = log[i].id
                /\ \A k \in 1..j - 1 : k = i \/ Precedes(log[k], log[i])
      BY <2>2 DEF LogInv, Chained, LastBefore, n
    <3>2. \A i \in 1..j - 1 : log'[i] = log[i]
      BY <1>1, <1>2, <2>2
    <3>3. log'[j] = log[j]
      BY <1>1, <2>2
    <3> QED BY <3>1, <3>2, <3>3
  <2>3. CASE j = n + 1
    <3>1. \A i \in 1..j - 1 : log'[i] = log[i]
      BY <1>1, <1>2, <2>3
    <3>2. j - 1 = n /\ (j = 1 => n = 0) /\ (j > 1 => n > 0)
      BY <1>2, <2>3
    <3> QED BY <1>1, <2>3, <3>1, <3>2
  <2> QED BY <1>2, <2>2, <2>3
<1> QED BY <1>4, <1>6, <1>7, <1>8, <1>9 DEF LogInv

LEMMA NextLog == LogInv /\ [Next]_vars => LogInv'
<1> SUFFICES ASSUME LogInv, [Next]_vars PROVE LogInv'
  OBVIOUS
<1>0. TypeOK
  BY DEF LogInv
<1>1. ASSUME NEW w \in Writer, DrawId(w) PROVE LogInv'
  BY <1>1, DrawIdLog
<1>2. ASSUME NEW w \in Writer, ReadClock(w) PROVE LogInv'
  <2>1. clock \div MsPerSecond \in Nat
    BY <1>0, AuditAssumption, QuotientIsNat DEF TypeOK, AuditAssumption
  <2>2. TypeOK'
    BY <1>0, <1>2, <2>1 DEF TypeOK, ReadClock, reader
  <2> QED BY <1>0, <1>2, <2>2, SameRows DEF ReadClock, TypeOK
<1>3. ASSUME NEW w \in Writer, Commit(w) PROVE LogInv'
  BY <1>3, CommitLog
<1>4. ASSUME NEW w \in Writer, Fail(w) PROVE LogInv'
  <2>1. TypeOK'
    BY <1>0, <1>4 DEF TypeOK, Fail, Forget, reader
  <2> QED BY <1>0, <1>4, <2>1, SameRows DEF Fail, Forget, TypeOK
<1>5. CASE Tick
  <2>1. TypeOK'
    BY <1>0, <1>5 DEF TypeOK, Tick, draft, reader
  <2> QED BY <1>5, <2>1, SameRows DEF Tick, draft
<1>6. CASE StartWalk
  <2>1. Ids \subseteq Nat /\ (MaxMs + 1) * RandomRange \in Nat
    BY <1>0, IdsAreNats, AuditAssumption, ProductIsNat DEF AuditAssumption
  <2>2. TypeOK'
    BY <1>0, <1>6, <2>1 DEF TypeOK, StartWalk, draft
  <2> QED BY <1>6, <2>2, SameRows DEF StartWalk, draft
<1>7. CASE NextPage
  <2>2. PICK page \in SUBSET Eligible :
           /\ IsPage(page)
           /\ got' = got \cup page /\ count' = count + Cardinality(page)
           /\ walk' = IF Cardinality(page) < PageSize THEN "done" ELSE "on"
           /\ cursor' \in IF page = {} THEN {cursor}
                          ELSE {i \in page : \A j \in page : i <= j}
    BY <1>7 DEF NextPage
  <2>3. page \subseteq Nat /\ Cardinality(page) \in Nat
    BY <1>0, PagesAreFinite
  <2>4. TypeOK'
    BY <1>0, <1>7, <2>2, <2>3 DEF TypeOK, NextPage, draft
  <2> QED BY <1>7, <2>4, SameRows DEF NextPage, draft
<1>8. CASE EndWalk
  <2>1. TypeOK'
    BY <1>0, <1>8 DEF TypeOK, EndWalk, draft
  <2> QED BY <1>8, <2>1, SameRows DEF EndWalk, draft
<1>9. CASE UNCHANGED vars
  <2>1. TypeOK'
    BY <1>0, <1>9 DEF TypeOK, vars, draft, reader
  <2> QED BY <1>9, <2>1, SameRows DEF vars, draft
<1> QED BY <1>1, <1>2, <1>3, <1>4, <1>5, <1>6, <1>7, <1>8, <1>9 DEF Next

LEMMA Invariance == Spec => []LogInv
  BY InitLog, NextLog, PTL DEF Spec

-----------------------------------------------------------------------------
(* Every variable keeps its type.                                          *)
THEOREM TypeCorrect == Spec => []TypeOK
<1>1. LogInv => TypeOK
  BY DEF LogInv
<1> QED BY <1>1, Invariance, PTL

(* Whatever the writers interleave and whatever the clock does, exactly    *)
(* the first row carries the seed and every other row the hash of a row    *)
(* that was committed before it.                                           *)
THEOREM ChainIsAnchored == Spec => []Anchored
<1>1. ASSUME LogInv PROVE Anchored
  BY <1>1 DEF LogInv, Chained, Anchored
<1> QED BY <1>1, Invariance, PTL

(* Rows committed in the order of their keys make a chain that verifies:   *)
(* the last row before a commit is then the row committed before it.       *)
LEMMA OrderVerifies ==
    ASSUME LogInv, CommittedInOrder
    PROVE  Verifies
<1>1. log \in Seq(Row) /\ \A i \in 1..Len(log) : log[i] \in Row
  BY RowsAreRows DEF LogInv, TypeOK
<1>2. \A i, j \in 1..Len(log) : i < j => Precedes(log[i], log[j])
  BY DEF CommittedInOrder
<1>3. \A i, j \in 1..Len(log) : Precedes(log[i], log[j]) => i < j
  <2>1. SUFFICES ASSUME NEW i \in 1..Len(log), NEW j \in 1..Len(log),
                        Precedes(log[i], log[j]), ~(i < j)
                 PROVE  FALSE
    OBVIOUS
  <2>2. ~Precedes(log[j], log[i])
    BY <1>1, <2>1, PrecedesIsAsymmetric
  <2>3. i = j \/ j < i
    BY <2>1
  <2> QED BY <1>2, <2>1, <2>2, <2>3
<1> DEFINE Linked(r) ==
        \/ r.prev = Seed /\ \A s \in Rows : ~Precedes(s, r)
        \/ \E p \in Rows :
              /\ r.prev = p.id /\ Precedes(p, r)
              /\ \A s \in Rows : ~(Precedes(p, s) /\ Precedes(s, r))
<1>4. SUFFICES ASSUME NEW j \in 1..Len(log) PROVE Linked(log[j])
  <2> HIDE DEF Linked
  <2>1. \A r \in Rows : Linked(r)
    BY DEF Rows
  <2> USE DEF Linked
  <2> QED BY <2>1 DEF Verifies
<1>5. CASE j = 1
  <2>1. log[j].prev = Seed
    BY <1>5 DEF LogInv, Chained
  <2>2. \A k \in 1..Len(log) : ~Precedes(log[k], log[j])
    BY <1>3, <1>5
  <2> QED BY <2>1, <2>2 DEF Rows
<1>6. CASE j > 1
  <2>1. PICK i \in 1..j - 1 : log[j].prev = HashOf(log[i]) /\ LastBefore(i, j)
    BY <1>6 DEF LogInv, Chained
  <2>2. j - 1 \in 1..Len(log) /\ i \in 1..Len(log)
    BY <1>1, <1>6
  <2>3. i = j - 1
    BY <1>3, <2>1, <2>2 DEF LastBefore
  <2>4. Precedes(log[i], log[j])
    BY <1>2, <2>2, <2>3
  <2>5. \A k \in 1..Len(log) : ~(Precedes(log[i], log[k]) /\ Precedes(log[k], log[j]))
    BY <1>3, <2>2, <2>3
  <2>6. log[i] \in Rows
    BY <2>2 DEF Rows
  <2> QED BY <2>1, <2>4, <2>5, <2>6 DEF Rows
<1> QED BY <1>1, <1>5, <1>6

(* In a chain that verifies, a row follows the row it is chained to, which *)
(* was the last of those committed before it: it follows all of them.      *)
LEMMA VerifiedIsOrdered ==
    ASSUME LogInv, Verifies
    PROVE  CommittedInOrder
<1>1. log \in Seq(Row) /\ \A i \in 1..Len(log) : log[i] \in Row
  BY RowsAreRows DEF LogInv, TypeOK
<1>2. SUFFICES ASSUME NEW k \in 1..Len(log), NEW j \in 1..Len(log), k < j
               PROVE  Precedes(log[k], log[j])
  BY DEF CommittedInOrder
<1>3. PICK i \in 1..j - 1 : log[j].prev = HashOf(log[i]) /\ LastBefore(i, j)
  BY <1>2 DEF LogInv, Chained
<1>4. i \in 1..Len(log) /\ log[i].id \in Nat
  <2>1. Len(log) \in Nat
    BY <1>1
  <2>2. i \in 1..Len(log)
    BY <1>3, <2>1
  <2> QED BY <1>1, <2>2 DEF Row
<1>5. log[j] \in Rows
  BY DEF Rows
<1>6. PICK p \in Rows : log[j].prev = p.id /\ Precedes(p, log[j])
  BY <1>3, <1>4, <1>5, AuditAssumption DEF Verifies, AuditAssumption
<1>7. PICK m \in 1..Len(log) : p = log[m]
  BY <1>6 DEF Rows
<1>8. p = log[i]
  BY <1>3, <1>4, <1>6, <1>7 DEF LogInv, IdsUnique
<1>9. k = i \/ Precedes(log[k], log[i])
  BY <1>2, <1>3 DEF LastBefore
<1> QED BY <1>1, <1>4, <1>6, <1>8, <1>9, PrecedesIsTransitive

(* The chain verifies exactly when no row was overtaken on its way from    *)
(* Ulid::new() to its commit.                                              *)
THEOREM ChainIsOrder == Spec => []IntactIffInOrder
<1>1. ASSUME LogInv PROVE IntactIffInOrder
  BY <1>1, OrderVerifies, VerifiedIsOrdered DEF IntactIffInOrder
<1> QED BY <1>1, Invariance, PTL

-----------------------------------------------------------------------------
(* Paging: what is at the cursor or above has been given to the client, and *)
(* ids stay below the cursor a walk starts with.                           *)

Start == (MaxMs + 1) * RandomRange

WalkInv ==
    /\ clock <= MaxMs
    /\ \A i \in Ids : i < Start
    /\ \A w \in Writer : pc[w] # "idle" => id[w] < Start
    /\ base \subseteq Ids
    /\ IsFiniteSet(got) /\ count = Cardinality(got)
    /\ walk = "on" => \A i \in got : i >= cursor
    /\ walk = "on" => \A i \in base : i >= cursor => i \in got
    /\ walk = "done" => base \subseteq got

LEMMA IdBelowStart ==
    ASSUME NEW c \in Nat, NEW m \in Nat, NEW n \in Nat \ {0}, NEW k \in 0..n - 1, c <= m
    PROVE  c * n + k < (m + 1) * n
<1>1. PICK d \in Nat : m = c + d
  <2>1. m - c \in Nat /\ m = c + (m - c)
    OBVIOUS
  <2> QED BY <2>1
<1>2. (m + 1) * n = c * n + d * n + n
  BY <1>1
<1>3. d * n \in Nat /\ c * n \in Nat
  BY ProductIsNat
<1> QED BY <1>2, <1>3

LEMMA InitWalk == Init => WalkInv
<1> SUFFICES ASSUME Init PROVE WalkInv
  OBVIOUS
<1>1. Ids = {}
  BY DEF Init, Ids, Rows
<1>2. IsFiniteSet({}) /\ Cardinality({}) = 0
  BY FS_EmptySet
<1> QED BY <1>1, <1>2, AuditAssumption DEF Init, WalkInv, AuditAssumption

(* A step that leaves the reader and the rows alone.                       *)
LEMMA SameWalk ==
    ASSUME WalkInv, UNCHANGED <<log, reader>>, clock' <= MaxMs,
           \A w \in Writer : pc'[w] # "idle" => id'[w] < Start
    PROVE  WalkInv'
  BY DEF WalkInv, reader, Ids, Rows, Start

LEMMA CommitWalk ==
    ASSUME LogInv, WalkInv, NEW w \in Writer, Commit(w)
    PROVE  WalkInv'
<1>1. /\ Len(log') = Len(log) + 1 /\ Len(log) \in Nat
      /\ \A i \in 1..Len(log) : log'[i] = log[i]
      /\ log'[Len(log')].id = id[w]
  BY CommitChains DEF LogInv, TypeOK
<1>2. /\ pc[w] = "commit" /\ pc' = [pc EXCEPT ![w] = "idle"]
      /\ id' = [id EXCEPT ![w] = 0] /\ UNCHANGED <<clock, reader>>
  BY DEF Commit, Forget
<1>3. Ids' = Ids \cup {id[w]}
  <2>1. \A i \in 1..Len(log') : i \in 1..Len(log) \/ i = Len(log')
    BY <1>1
  <2>2. Len(log') \in 1..Len(log') /\ 1..Len(log) \subseteq 1..Len(log')
    BY <1>1
  <2> QED BY <1>1, <2>1, <2>2 DEF Ids, Rows
<1>4. id[w] < Start
  BY <1>2 DEF WalkInv
<1>5. \A v \in Writer : pc'[v] # "idle" => pc[v] # "idle" /\ id'[v] = id[v]
  BY <1>2 DEF LogInv, TypeOK
<1> QED BY <1>2, <1>3, <1>4, <1>5 DEF WalkInv, reader, Start

LEMMA NextPageWalk ==
    ASSUME LogInv, WalkInv, NextPage
    PROVE  WalkInv'
<1>1. PICK page \in SUBSET Eligible :
         /\ IsPage(page)
         /\ got' = got \cup page /\ count' = count + Cardinality(page)
         /\ walk' = IF Cardinality(page) < PageSize THEN "done" ELSE "on"
         /\ cursor' \in IF page = {} THEN {cursor}
                        ELSE {i \in page : \A j \in page : i <= j}
  BY DEF NextPage
<1>2. walk = "on" /\ UNCHANGED <<clock, draft, log, base>>
  BY DEF NextPage
<1>3. cursor \in Nat /\ Ids \subseteq Nat /\ got \subseteq Nat
  BY IdsAreNats DEF LogInv, TypeOK
<1>4. IsFiniteSet(page) /\ Cardinality(page) \in Nat
  <2>1. page \in SUBSET Nat /\ \A i \in page : i <= cursor
    BY <1>3 DEF Eligible
  <2> QED BY <1>3, <2>1, FS_BoundedSetOfNaturals, FS_CardinalityType
<1>5. page \subseteq Ids /\ \A i \in page : i < cursor
  BY DEF Eligible
<1>6. \A i \in got : i >= cursor
  BY <1>2 DEF WalkInv
<1>7. IsFiniteSet(got') /\ count' = Cardinality(got')
  <2>1. IsFiniteSet(got) /\ count = Cardinality(got) /\ count \in Nat
    BY FS_CardinalityType DEF WalkInv
  <2>2. got \cap page = {}
    BY <1>3, <1>5, <1>6
  <2>3. /\ IsFiniteSet(got \cup page)
        /\ Cardinality(got \cup page)
              = Cardinality(got) + Cardinality(page) - Cardinality(got \cap page)
    BY <1>4, <2>1, FS_Union
  <2>4. Cardinality(got \cap page) = 0
    BY <2>2, FS_EmptySet
  <2> QED BY <1>1, <1>4, <2>1, <2>3, <2>4
<1>8. CASE page = {}
  <2>1. Cardinality(page) = 0
    BY <1>8, FS_EmptySet
  <2>2. walk' = "done"
    BY <1>1, <2>1, AuditAssumption DEF AuditAssumption
  <2>3. Eligible = {}
    BY <1>1, <1>8, <2>1, AuditAssumption DEF IsPage, AuditAssumption
  <2>4. base \subseteq got
    BY <1>2, <1>3, <2>3 DEF WalkInv, Eligible
  <2> QED BY <1>1, <1>2, <1>7, <2>2, <2>4 DEF WalkInv, draft, Ids, Rows, Start
<1>9. CASE page # {}
  <2>1. cursor' \in page /\ \A j \in page : cursor' <= j
    BY <1>1, <1>9
  <2>2. \A i \in got' : i >= cursor'
    BY <1>1, <1>3, <1>5, <1>6, <2>1
  <2>3. ASSUME NEW i \in base, i >= cursor' PROVE i \in got'
    <3>1. CASE i >= cursor
      BY <1>1, <1>2, <3>1 DEF WalkInv
    <3>2. CASE i < cursor
      <4>1. i \in Eligible
        BY <3>2 DEF WalkInv, Eligible
      <4>2. i \in page
        <5>1. i \in Eligible \ page => i < cursor'
          BY <1>1, <2>1 DEF IsPage
        <5> QED BY <1>3, <1>5, <2>1, <2>3, <4>1, <5>1 DEF Eligible
      <4> QED BY <1>1, <4>2
    <3>3. i \in Nat
      BY <1>3 DEF WalkInv
    <3> QED BY <1>3, <3>1, <3>2, <3>3
  <2>4. walk' = "done" => base \subseteq got'
    <3>1. SUFFICES ASSUME Cardinality(page) < PageSize, NEW i \in base PROVE i \in got'
      BY <1>1
    <3>2. page = Eligible
      BY <1>1, <1>4, <3>1, AuditAssumption DEF IsPage, AuditAssumption
    <3>3. i \in Nat
      BY <1>3 DEF WalkInv
    <3> QED BY <1>1, <1>2, <1>3, <3>2, <3>3 DEF WalkInv, Eligible
  <2> QED BY <1>1, <1>2, <1>7, <2>2, <2>3, <2>4 DEF WalkInv, draft, Ids, Rows, Start
<1> QED BY <1>8, <1>9

LEMMA NextWalk == LogInv /\ WalkInv /\ [Next]_vars => WalkInv'
<1> SUFFICES ASSUME LogInv, WalkInv, [Next]_vars PROVE WalkInv'
  OBVIOUS
<1>0. /\ pc \in [Writer -> {"idle", "clock", "commit"}] /\ id \in [Writer -> Nat]
      /\ clock \in Nat /\ clock <= MaxMs /\ MaxMs \in Nat
      /\ RandomRange \in Nat \ {0}
  BY AuditAssumption DEF LogInv, TypeOK, WalkInv, AuditAssumption
<1>1. ASSUME NEW w \in Writer, DrawId(w) PROVE WalkInv'
  <2>1. PICK random \in 0..RandomRange - 1 :
           id' = [id EXCEPT ![w] = clock * RandomRange + random]
    BY <1>1 DEF DrawId
  <2>2. clock * RandomRange + random < Start
    BY <1>0, IdBelowStart DEF Start
  <2>3. pc' = [pc EXCEPT ![w] = "clock"] /\ UNCHANGED <<clock, log, reader>>
    BY <1>1 DEF DrawId
  <2>4. \A v \in Writer : pc'[v] # "idle" => id'[v] < Start
    <3>1. SUFFICES ASSUME NEW v \in Writer, pc'[v] # "idle" PROVE id'[v] < Start
      OBVIOUS
    <3>2. CASE v = w
      BY <1>0, <2>1, <2>2, <3>2
    <3>3. CASE v # w
      BY <1>0, <2>1, <2>3, <3>1, <3>3 DEF WalkInv
    <3> QED BY <3>2, <3>3
  <2> QED BY <1>0, <2>3, <2>4, SameWalk
<1>2. ASSUME NEW w \in Writer, ReadClock(w) \/ Fail(w) PROVE WalkInv'
  <2>1. \A v \in Writer : pc'[v] # "idle" => pc[v] # "idle" /\ id'[v] = id[v]
    BY <1>0, <1>2 DEF ReadClock, Fail, Forget
  <2>2. \A v \in Writer : pc'[v] # "idle" => id'[v] < Start
    BY <2>1 DEF WalkInv
  <2> QED BY <1>0, <1>2, <2>2, SameWalk DEF ReadClock, Fail
<1>3. ASSUME NEW w \in Writer, Commit(w) PROVE WalkInv'
  BY <1>3, CommitWalk
<1>4. CASE Tick
  <2>1. clock' <= MaxMs /\ UNCHANGED <<draft, log, reader>>
    BY <1>0, <1>4 DEF Tick
  <2> QED BY <2>1, SameWalk DEF WalkInv, draft
<1>5. CASE StartWalk
  <2>1. /\ cursor' = Start /\ base' = Ids /\ got' = {} /\ count' = 0 /\ walk' = "on"
        /\ UNCHANGED <<clock, draft, log>>
    BY <1>5 DEF StartWalk, Start
  <2>2. Ids \subseteq Nat /\ Start \in Nat
    BY <1>0, IdsAreNats, ProductIsNat DEF LogInv, Start
  <2>3. \A i \in Ids : ~(i >= Start)
    BY <2>2 DEF WalkInv
  <2>4. IsFiniteSet({}) /\ Cardinality({}) = 0
    BY FS_EmptySet
  <2> QED BY <2>1, <2>3, <2>4 DEF WalkInv, draft, Ids, Rows, Start
<1>6. CASE NextPage
  BY <1>6, NextPageWalk
<1>7. CASE EndWalk
  <2>1. IsFiniteSet({}) /\ Cardinality({}) = 0
    BY FS_EmptySet
  <2> QED BY <1>7, <2>1 DEF EndWalk, WalkInv, draft, Ids, Rows, Start
<1>8. CASE UNCHANGED vars
  BY <1>0, <1>8, SameWalk DEF vars, draft, WalkInv
<1> QED BY <1>1, <1>2, <1>3, <1>4, <1>5, <1>6, <1>7, <1>8 DEF Next

(* A client that pages gets every row there was when it started, and no row *)
(* twice, whatever is written meanwhile.                                   *)
THEOREM PagesAreExact == Spec => []PagingIsExact
<1>1. WalkInv => PagingIsExact
  BY DEF WalkInv, PagingIsExact
<1> QED BY <1>1, InitWalk, NextWalk, Invariance, PTL DEF Spec
=============================================================================
