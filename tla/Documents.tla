----------------------------- MODULE Documents ------------------------------
(***************************************************************************)
(* The documents of a desired state that mutations change: do the gates in *)
(* front of a mutation guarantee what the renderer, the capability check   *)
(* before an apply, the diff of two snapshots and the drift detector       *)
(* expect of it?                                                           *)
(***************************************************************************)
EXTENDS Mutations, Render

\* The values of a list of changes, put one after the other.
PutAll(s, changes, values) ==
    LET done[n \in 0..Len(changes)] ==
            IF n = 0 THEN s ELSE Put(done[n - 1], changes[n].path, values[n])
    IN done[Len(changes)]

Replayed(s, changes) == PutAll(s, changes, [i \in DOMAIN changes |-> changes[i].after])

Undone(s, changes) == PutAll(s, changes, [i \in DOMAIN changes |-> changes[i].before])

\* What apply_mutation reports is what it did: the changes replayed on the old
\* state give the new one, and undone on the new one the old (apply.rs:84-458).
ChangesTellAll ==
    \A m \in Mutation :
        Accepted(m) =>
            LET new == [NewState(state, m) EXCEPT !.version = state.version]
            IN /\ Replayed(state, Changes(state, m)) = new
               /\ Undone(new, Changes(state, m)) = state

\* Two gates name the same modules: while the capabilities do not change, the
\* modules that mutations were checked for one by one (capability.rs:15-183)
\* cover those that the fields of the whole state need at an apply
\* (capability_check.rs:84-115).
GateCoversApply ==
    \A id \in Enabled(state) : StructureNeeds(state.routes[id]) \subseteq capabilities

\* A state stops rendering only for what mutations leave unchecked: the
\* destination of an upstream, an attachment that came with a route, or the body
\* of a preset, which need not spell a document (render.rs:337-343).
OnlyUncheckedFieldsFail ==
    \A id \in Enabled(state) :
        LET r == state.routes[id]
        IN \/ RouteRenders(state, r)
           \/ \E i \in DOMAIN r.upstreams :
                /\ r.upstreams[i] \in DOMAIN state.upstreams
                /\ ~state.upstreams[r.upstreams[i]].dest.usable
           \/ r.policy # None /\ PresetOf(state, r.policy) = {}
           \/ r.policy # None /\ \E p \in PresetOf(state, r.policy) : p.body = None

\* What can become of the state in one mutation.
Successors == {NewState(state, m) : m \in {n \in Mutation : Accepted(n)}}

\* What lies at and under the policy of a handler, which is the body of a preset.
PolicyPattern ==
    <<"apps", "http", "servers", "*", "routes", "*", "handle", "*", "policy">>

\* Of a place at or under the pattern, two documents have different kinds of node.
KindsDiffer(a, b, pattern) ==
    \E p \in DOMAIN a \cup DOMAIN b : SegmentMatch(p, pattern) /\ Kind(a, p) # Kind(b, p)

\* Two configurations have another container, or none, at a place in a policy.
PolicyHides(a, b) == KindsDiffer(a, b, PolicyPattern)

\* A change of the configuration is a drift to the detector, which compares
\* leaves (diff.rs:340-385), but for containers that have none: on-demand TLS
\* without an ask URL, and what is empty in the body of a preset, such as the body
\* itself (render.rs:337-344).  The summary of the drift names the kind of object
\* that changed, and no other (diff.rs:725-804).
ConfigChangesShow ==
    LET old == Config(state)
    IN \A new \in Successors :
          Renders(state) /\ Renders(new) =>
              LET changed == Config(new)
                  diff == Diff(old, changed)
              IN /\ old # changed =>
                       \/ DOMAIN diff # {}
                       \/ state.tls.onDemand # new.tls.onDemand
                       \/ PolicyHides(old, changed)
                 /\ state.tls = new.tls => Summary(diff) \subseteq {"Route"}
                 /\ state.routes = new.routes /\ state.upstreams = new.upstreams
                       => Summary(diff) \subseteq {"Tls"}

\* An element that loses all of its leaves stands before one that does not:
\* Vec::remove moves the second to where the diff does not expect it.
CutsInFront(a, b) ==
    LET cut == FullyRemoved(a, Removed(a, b))
    IN \E c \in cut :
          /\ Kind(a, Front(c)) = "array"
          /\ \E e \in Children(a, Front(c)) \ cut : Position(Last(c)) < Position(Last(e))

\* apply_diff may refuse the diff of two snapshots, or make a document that is no
\* desired state, but makes no desired state other than the new one (diff.rs:259-337),
\* unless it cuts an element out of a list in front of one that stays.
DiffNeverMisleads ==
    LET old == StateJson(state)
    IN \A new \in Successors :
          LET wanted == StateJson(new)
              made == ApplyDiff(old, Diff(old, wanted))
          IN ~CutsInFront(old, wanted) /\ Parses(made) => made = wanted

=============================================================================
