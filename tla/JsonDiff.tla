------------------------------ MODULE JsonDiff ------------------------------
(***************************************************************************)
(* JSON documents, their structural diff and what apply_diff makes of one. *)
(* A document maps the path of each of its nodes to the node; a path is    *)
(* the sequence of its segments, array positions being the strings "0",    *)
(* "1", ...  A node is an object, an array or a scalar, null included.     *)
(* Canonical form (sorted keys, whole numbers) is built in: a map has no   *)
(* order of its keys and a scalar no spelling.                             *)
(***************************************************************************)
EXTENDS Naturals, Sequences, FiniteSets, SequencesExt

CONSTANTS
    Behind,         \* of every segment those behind it in lexicographic order
    Positions,      \* the numbers as path segments: <<"0", "1", ...>>
    PointerLength(_)    \* of every path, the bytes of its pointer

Object == [kind |-> "object"]
Array == [kind |-> "array"]
Scalar(v) == [kind |-> "scalar", value |-> v]
Null == Scalar("null")

\* The document of an operation that ended in an error.
Failed == <<>>

Root == <<>>

Kind(doc, path) == IF path \in DOMAIN doc THEN doc[path].kind ELSE "absent"

Under(doc, path) == {p \in DOMAIN doc : IsPrefix(path, p)}

Children(doc, path) == {p \in DOMAIN doc : Len(p) = Len(path) + 1 /\ IsPrefix(path, p)}

Only(doc, paths) == [p \in paths |-> doc[p]]

Plus(doc, paths, node) == [p \in DOMAIN doc \cup paths |-> IF p \in paths THEN node ELSE doc[p]]

-----------------------------------------------------------------------------
(* Building documents.                                                     *)

IsPosition(segment) == \E i \in DOMAIN Positions : Positions[i] = segment

\* The number that a segment spells.
Position(segment) == (CHOOSE i \in DOMAIN Positions : Positions[i] = segment) - 1

Leaf(v) == [p \in {Root} |-> Scalar(v)]

\* The paths of the children of a new root.
Below(members, Segment(_)) ==
    UNION {{<<Segment(m)>> \o p : p \in DOMAIN members[m]} : m \in DOMAIN members}

ObjectOf(members) ==
    LET Same(m) == m
    IN [p \in {Root} \cup Below(members, Same) |->
          IF p = Root THEN Object ELSE members[p[1]][Tail(p)]]

ArrayOf(elements) ==
    LET At(i) == Positions[i]
    IN [p \in {Root} \cup Below(elements, At) |->
          IF p = Root THEN Array ELSE elements[Position(p[1]) + 1][Tail(p)]]

-----------------------------------------------------------------------------
(* ignore_list::is_caddy_managed.                                          *)

\* Does a path start with a pattern, in which "*" is any one segment?
SegmentMatch(path, pattern) ==
    /\ Len(path) >= Len(pattern)
    /\ \A i \in DOMAIN pattern : pattern[i] \in {"*", path[i]}

\* Mutant: everything about an upstream, not only its health.
ManagedTrees_Upstreams ==
    {<<"apps", "tls", "automation", "policies", "*", "managed_certificates">>,
     <<"storage", "acme">>, <<"storage", "ocsp">>,
     <<"apps", "http", "servers", "*", "routes", "*", "handle", "*", "upstreams", "*">>}

\* The path itself, and what lies under it, of these patterns ...
ManagedTrees ==
    {<<"apps", "tls", "automation", "policies", "*", "managed_certificates">>,
     <<"storage", "acme">>, <<"storage", "ocsp">>,
     <<"apps", "http", "servers", "*", "routes", "*", "handle", "*", "upstreams", "*", "health">>}

\* ... and only the path itself of these.
ManagedPaths ==
    {<<"apps", "http", "servers", "*", "automatic_https", "disable_redirects">>,
     <<"apps", "http", "servers", "*", "request_id">>}

IsCaddyManaged(path) ==
    \/ \E pattern \in ManagedTrees : SegmentMatch(path, pattern)
    \/ \E pattern \in ManagedPaths : SegmentMatch(path, pattern) /\ Len(path) = Len(pattern)

-----------------------------------------------------------------------------
(* flatten and structural_diff.                                            *)

\* Only scalars are leaves: an empty object or array has none.
Leaves(doc) == {p \in DOMAIN doc : doc[p].kind = "scalar"}

\* Leaves that count.
Shown(doc) == {p \in Leaves(doc) : ~IsCaddyManaged(p)}

Removed(a, b) == Shown(a) \ Leaves(b)

Added(a, b) == Shown(b) \ Leaves(a)

\* Mutant: a new value of the same type is no change.
Modified_Kinds(a, b) == {p \in Shown(a) \cap Leaves(b) : a[p].kind # b[p].kind}

Modified(a, b) == {p \in Shown(a) \cap Leaves(b) : a[p] # b[p]}

\* The diff: what each changed path becomes, "removed" when it goes.
Diff(a, b) ==
    [p \in Removed(a, b) \cup Added(a, b) \cup Modified(a, b) |->
        IF p \in Leaves(b) THEN b[p] ELSE [kind |-> "removed"]]

\* ObjectKind::classify: the first pattern that a path starts with.
Classify(path) ==
    CASE SegmentMatch(path, <<"apps", "http", "servers", "*", "routes", "*">>) -> "Route"
      [] SegmentMatch(path, <<"apps", "tls", "*">>) -> "Tls"
      [] /\ SegmentMatch(path, <<"apps", "http", "servers", "*">>)
         /\ ~SegmentMatch(path, <<"apps", "http", "servers", "*", "routes", "*">>) -> "Server"
      [] OTHER -> "Other"

\* summarise_diff, up to the number of entries of each kind.
Summary(diff) == {Classify(p) : p \in DOMAIN diff}

-----------------------------------------------------------------------------
(* apply_diff.                                                             *)

\* The order of the pointers.
Before(p, q) ==
    \/ IsStrictPrefix(p, q)
    \/ \E i \in DOMAIN p \cap DOMAIN q :
          /\ \A j \in 1..i - 1 : p[j] = q[j]
          /\ q[i] \in Behind[p[i]]

\* Paths by the number of those before them.
Ranked(paths, before) ==
    LET rank == [p \in paths |-> Cardinality(before[p])]
    IN [i \in 1..Cardinality(paths) |-> CHOOSE p \in paths : rank[p] = i - 1]

Sorted(paths) == Ranked(paths, [p \in paths |-> {q \in paths : Before(q, p)}])

\* The order of the subtrees: a stable sort by the length of the pointer.
Shorter(p, q) ==
    \/ PointerLength(p) < PointerLength(q)
    \/ PointerLength(p) = PointerLength(q) /\ Before(p, q)

ShortestFirst(paths) == Ranked(paths, [p \in paths |-> {q \in paths : Shorter(q, p)}])

\* The least subtrees of a that lose all of their leaves.
FullyRemoved(a, removed) ==
    LET candidates == UNION {{SubSeq(p, 1, n) : n \in 1..Len(p)} : p \in removed}
        emptied == {c \in candidates : Leaves(a) \cap Under(a, c) \subseteq removed}
    IN {c \in emptied : ~\E d \in emptied : IsStrictPrefix(d, c)}

Size(doc, path) == Cardinality(Children(doc, path))

\* Vec::remove: the elements behind the removed one move up.
Spliced(doc, parent, at) ==
    LET depth == Len(parent) + 1
        gone == Under(doc, Append(parent, Positions[at + 1]))
        Later(p) == Len(p) >= depth /\ IsPrefix(parent, p) /\ Position(p[depth]) > at
        Up(p) == [p EXCEPT ![depth] = Positions[Position(p[depth])]]
        kept == DOMAIN doc \ gone
        moved == {p \in kept : Later(p)}
        Home(q) == CHOOSE p \in moved : Up(p) = q
    IN [q \in (kept \ moved) \cup {Up(p) : p \in moved} |->
          IF q \in {Up(p) : p \in moved} THEN doc[Home(q)] ELSE doc[q]]

\* pointer_remove.
PointerRemove(doc, path) ==
    LET parent == Front(path)
    IN CASE Kind(doc, parent) = "object" -> Only(doc, DOMAIN doc \ Under(doc, path))
         [] Kind(doc, parent) = "array" /\ path \in DOMAIN doc ->
               Spliced(doc, parent, Position(Last(path)))
         [] OTHER -> Failed

\* One step of ensure_parent: every missing node becomes an object, also where
\* the next segment is a position; an array grows by objects.
EnsureNode(doc, path) ==
    LET parent == Front(path)
        grown == {Append(parent, Positions[i]) : i \in Size(doc, parent) + 1..Position(Last(path)) + 1}
    IN IF path \in DOMAIN doc THEN doc
       ELSE CASE Kind(doc, parent) = "object" -> Plus(doc, {path}, Object)
              [] Kind(doc, parent) = "array" /\ IsPosition(Last(path)) -> Plus(doc, grown, Object)
              [] OTHER -> Failed

EnsureParent(doc, path) ==
    LET ensured[n \in 0..Len(path) - 1] ==
            IF n = 0 THEN doc ELSE EnsureNode(ensured[n - 1], SubSeq(path, 1, n))
    IN ensured[Len(path) - 1]

\* pointer_set; an array grows by nulls up to the position.
PointerSet(doc, path, node) ==
    LET parent == Front(path)
        nulls == {Append(parent, Positions[i]) : i \in Size(doc, parent) + 1..Position(Last(path))}
        Set(d) == Plus(Only(d, DOMAIN d \ Under(d, path)), {path}, node)
    IN CASE Kind(doc, parent) = "object" -> Set(doc)
         [] Kind(doc, parent) = "array" /\ IsPosition(Last(path)) -> Set(Plus(doc, nulls, Null))
         [] OTHER -> Failed

\* One entry.  A removed leaf is a subtree that loses all of its leaves, so it
\* is gone by now; a modified leaf of a is set where its parent should be.
Applied(a, doc, path, node) ==
    IF node.kind = "removed" THEN doc
    ELSE PointerSet(IF path \in DOMAIN a THEN doc ELSE EnsureParent(doc, path), path, node)

\* The subtrees that go, in their order.
Pruned(a, paths) ==
    LET pruned[n \in 0..Len(paths)] ==
            IF n = 0 THEN a ELSE PointerRemove(pruned[n - 1], paths[n])
    IN pruned[Len(paths)]

\* Every entry, in the order of the paths.
AllApplied(a, doc, diff, paths) ==
    LET applied[n \in 0..Len(paths)] ==
            IF n = 0 THEN doc ELSE Applied(a, applied[n - 1], paths[n], diff[paths[n]])
    IN applied[Len(paths)]

ApplyDiff(a, diff) ==
    LET removed == {p \in DOMAIN diff : diff[p].kind = "removed"}
    IN AllApplied(a, Pruned(a, ShortestFirst(FullyRemoved(a, removed))), diff, Sorted(DOMAIN diff))

=============================================================================
