----------------------------- MODULE Mutations ------------------------------
(***************************************************************************)
(* apply_mutation: the typed changes to the desired state, the check of    *)
(* the Caddy modules they reference, their pre-conditions, what they make  *)
(* of the state and the changes they report.  A mutation is a record of    *)
(* its kind, the version it expects and its payload.  A patch is a record  *)
(* of the fields it sets: a field it lacks is left alone and None clears.  *)
(***************************************************************************)
EXTENDS DesiredState

CONSTANTS
    Presets,        \* the presets the store holds; no mutation changes them
    Capabilities,   \* sets of Caddy modules a probe may have found
    Mutation,       \* the mutations that may be submitted
    MaxVersion      \* i64::MAX

\* A patch sets some of the fields to values they may have.
IsPatch(patch, types) ==
    /\ DOMAIN patch \subseteq DOMAIN types
    /\ \A field \in DOMAIN patch : patch[field] \in types[field]

\* A list of entities, each with its id.
IsList(entries, keys, types) ==
    /\ IsFunction(entries) /\ Len(entries) \in Nat /\ DOMAIN entries = 1..Len(entries)
    /\ \A i \in DOMAIN entries : entries[i].id \in keys /\ IsRecord(entries[i].body, types)

\* The payload of a mutation, by its kind.
IsPayload(m) ==
    \/ m.kind = "CreateRoute" /\ m.id \in RouteId /\ IsRecord(m.route, RouteTypes)
    \/ m.kind = "UpdateRoute" /\ m.id \in RouteId /\ IsPatch(m.patch, RouteTypes)
    \/ m.kind \in {"DeleteRoute", "DetachPolicy"} /\ m.id \in RouteId
    \/ m.kind = "CreateUpstream" /\ m.id \in UpstreamId /\ IsRecord(m.upstream, UpstreamTypes)
    \/ m.kind = "UpdateUpstream" /\ m.id \in UpstreamId /\ IsPatch(m.patch, UpstreamTypes)
    \/ m.kind = "DeleteUpstream" /\ m.id \in UpstreamId
    \/ m.kind = "AttachPolicy" /\ m.id \in RouteId /\ m.preset \in PresetId /\ m.version \in Nat
    \/ m.kind = "UpgradePolicy" /\ m.id \in RouteId /\ m.version \in Nat
    \/ m.kind = "SetGlobalConfig" /\ IsPatch(m.patch, GlobalTypes)
    \/ m.kind = "SetTlsConfig" /\ IsPatch(m.patch, TlsTypes)
    \/ /\ m.kind = "ImportFromCaddyfile"
       /\ IsList(m.routes, RouteId, RouteTypes)
       /\ IsList(m.upstreams, UpstreamId, UpstreamTypes)
    \/ m.kind = "Rollback"

ASSUME MutationsAssumption ==
    /\ IsMap(Presets, PresetId, PresetTypes)
    /\ MaxVersion \in Nat
    /\ \A m \in Mutation : m.expected \in Nat /\ IsPayload(m)

VARIABLES
    state,          \* the desired state of the latest snapshot
    capabilities    \* CapabilitySet.loaded_modules

vars == <<state, capabilities>>

With(f, key, value) ==
    [k \in DOMAIN f \cup {key} |-> IF k = key THEN value ELSE f[k]]

Without(f, key) == [k \in DOMAIN f \ {key} |-> f[k]]

\* What a patch leaves of x.
Patched(x, patch) ==
    [field \in DOMAIN x |-> IF field \in DOMAIN patch THEN patch[field] ELSE x[field]]

Sets(patch, field) == field \in DOMAIN patch /\ patch[field] # None

-----------------------------------------------------------------------------
(* Mutation::referenced_caddy_modules.                                     *)

\* Mutant: only the upstreams of a route are looked at.
RouteModules_Upstreams(r) ==
    IF "upstreams" \in DOMAIN r /\ r.upstreams # <<>> THEN {"reverse_proxy"} ELSE {}

\* The modules that the fields of a route, or of a route patch, call for.
RouteModules(r) ==
    {m \in {"reverse_proxy", "headers", "static_response"} :
        \/ m = "reverse_proxy" /\ "upstreams" \in DOMAIN r /\ r.upstreams # <<>>
        \/ m = "headers" /\ "headers" \in DOMAIN r /\ r.headers # {}
        \/ m = "static_response" /\ Sets(r, "redirect")}

UpstreamModules(u) ==
    {"reverse_proxy"} \cup
    IF "probe" \in DOMAIN u /\ u.probe # "Disabled" THEN {"health_checks"} ELSE {}

Bodies(entries) == {entries[i].body : i \in DOMAIN entries}

Referenced(m) ==
    CASE m.kind = "CreateRoute" -> RouteModules(m.route)
      [] m.kind = "UpdateRoute" -> RouteModules(m.patch)
      [] m.kind = "CreateUpstream" -> UpstreamModules(m.upstream)
      [] m.kind = "UpdateUpstream" -> UpstreamModules(m.patch)
      [] m.kind = "SetTlsConfig" -> IF DOMAIN m.patch # {} THEN {"tls"} ELSE {}
      [] m.kind = "ImportFromCaddyfile" ->
            UNION {RouteModules(r) : r \in Bodies(m.routes)}
            \cup UNION {UpstreamModules(u) : u \in Bodies(m.upstreams)}
      [] OTHER -> {}

-----------------------------------------------------------------------------
(* validate::pre_conditions.                                               *)

UpstreamsExist(known, ids) == \A i \in DOMAIN ids : ids[i] \in known

HasDestination(r) == r.upstreams # <<>> \/ r.redirect # None

\* What CreateRoute and the import ask of a route's own fields.
RouteValid(r) ==
    /\ HostnamesValid(r.hosts)
    /\ MatchersValid(r.remote)
    /\ HasDestination(r)
    /\ r.redirect # None => RedirectValid(r.redirect)

\* Mutant: a patch is only asked whether its upstreams exist.
RoutePatchValid_Upstreams(s, patch) ==
    "upstreams" \in DOMAIN patch => UpstreamsExist(DOMAIN s.upstreams, patch.upstreams)

RoutePatchValid(s, patch) ==
    /\ "upstreams" \in DOMAIN patch => UpstreamsExist(DOMAIN s.upstreams, patch.upstreams)
    /\ "hosts" \in DOMAIN patch => HostnamesValid(patch.hosts)
    /\ "remote" \in DOMAIN patch => MatchersValid(patch.remote)
    /\ Sets(patch, "redirect") => RedirectValid(patch.redirect)

Available(s, preset, version) ==
    preset \in DOMAIN s.presets /\ s.presets[preset].version = version

Attached(s, id) == id \in DOMAIN s.routes /\ s.routes[id].policy # None

\* Mutant: disabled routes do not count as references.
Referring_Enabled(s, id) ==
    {r \in DOMAIN s.routes :
        s.routes[r].enabled /\ \E i \in DOMAIN s.routes[r].upstreams : s.routes[r].upstreams[i] = id}

\* The routes that keep an upstream from being deleted.
Referring(s, id) ==
    {r \in DOMAIN s.routes : \E i \in DOMAIN s.routes[r].upstreams : s.routes[r].upstreams[i] = id}

Ids(entries) == {entries[i].id : i \in DOMAIN entries}

\* No id twice, and none that is taken.
Fresh(known, entries) ==
    /\ Ids(entries) \cap known = {}
    /\ \A i, j \in DOMAIN entries : entries[i].id = entries[j].id => i = j

ImportValid(s, m) ==
    /\ Fresh(DOMAIN s.upstreams, m.upstreams)
    /\ Fresh(DOMAIN s.routes, m.routes)
    /\ \A r \in Bodies(m.routes) :
          RouteValid(r) /\ UpstreamsExist(DOMAIN s.upstreams \cup Ids(m.upstreams), r.upstreams)

\* Nothing is said of an upstream's fields, nor of a route's own attachment.
PreConditions(s, m) ==
    \/ /\ m.kind = "CreateRoute"
       /\ m.id \notin DOMAIN s.routes
       /\ UpstreamsExist(DOMAIN s.upstreams, m.route.upstreams)
       /\ RouteValid(m.route)
    \/ /\ m.kind = "UpdateRoute"
       /\ m.id \in DOMAIN s.routes
       /\ RoutePatchValid(s, m.patch)
    \/ m.kind = "DeleteRoute" /\ m.id \in DOMAIN s.routes
    \/ m.kind = "CreateUpstream" /\ m.id \notin DOMAIN s.upstreams
    \/ m.kind = "UpdateUpstream" /\ m.id \in DOMAIN s.upstreams
    \/ /\ m.kind = "DeleteUpstream"
       /\ m.id \in DOMAIN s.upstreams
       /\ Referring(s, m.id) = {}
    \/ /\ m.kind = "AttachPolicy"
       /\ m.id \in DOMAIN s.routes
       /\ m.version # 0 /\ Available(s, m.preset, m.version)
    \/ m.kind = "DetachPolicy" /\ Attached(s, m.id)
    \/ /\ m.kind = "UpgradePolicy"
       /\ Attached(s, m.id)
       /\ Available(s, s.routes[m.id].policy.preset, m.version)
       /\ m.version > s.routes[m.id].policy.version
    \/ m.kind = "SetGlobalConfig" /\ DOMAIN m.patch # {}
    \/ m.kind = "SetTlsConfig" /\ (Sets(m.patch, "askUrl") => AskUrlValid(m.patch.askUrl))
    \/ m.kind = "ImportFromCaddyfile" /\ ImportValid(s, m)

-----------------------------------------------------------------------------
(* apply_variant: the new state and the changes it reports.  A change has  *)
(* the path of what it replaces, as a sequence; what was there before and  *)
(* is there after is a sequence of one value, or none.                     *)

Change(path, before, after) == [path |-> path, before |-> before, after |-> after]

Get(f, key) == IF key \in DOMAIN f THEN <<f[key]>> ELSE <<>>

Some(option) == IF option = None THEN <<>> ELSE <<option>>

BodyOf(entries, id) == entries[CHOOSE i \in DOMAIN entries : entries[i].id = id].body

Inserted(f, entries) ==
    [k \in DOMAIN f \cup Ids(entries) |->
        IF k \in Ids(entries) THEN BodyOf(entries, k) ELSE f[k]]

\* The entries of a list appear one by one, nothing having been there.
Appeared(where, entries) ==
    [i \in DOMAIN entries |-> Change(<<where, entries[i].id>>, <<>>, <<entries[i].body>>)]

\* The route after a mutation of one of its fields.
ChangedRoute(s, m) ==
    LET r == s.routes[m.id]
    IN CASE m.kind = "UpdateRoute" -> Patched(r, m.patch)
         [] m.kind = "AttachPolicy" ->
               [r EXCEPT !.policy = [preset |-> m.preset, version |-> m.version]]
         [] m.kind = "DetachPolicy" -> [r EXCEPT !.policy = None]
         [] m.kind = "UpgradePolicy" -> [r EXCEPT !.policy.version = m.version]

PolicyKinds == {"AttachPolicy", "DetachPolicy", "UpgradePolicy"}

NewRoutes(s, m) ==
    CASE m.kind = "CreateRoute" -> With(s.routes, m.id, m.route)
      [] m.kind = "DeleteRoute" -> Without(s.routes, m.id)
      [] m.kind \in {"UpdateRoute"} \cup PolicyKinds -> With(s.routes, m.id, ChangedRoute(s, m))
      [] m.kind = "ImportFromCaddyfile" -> Inserted(s.routes, m.routes)
      [] OTHER -> s.routes

NewUpstreams(s, m) ==
    CASE m.kind = "CreateUpstream" -> With(s.upstreams, m.id, m.upstream)
      [] m.kind = "UpdateUpstream" -> With(s.upstreams, m.id, Patched(s.upstreams[m.id], m.patch))
      [] m.kind = "DeleteUpstream" -> Without(s.upstreams, m.id)
      [] m.kind = "ImportFromCaddyfile" -> Inserted(s.upstreams, m.upstreams)
      [] OTHER -> s.upstreams

NewState(s, m) ==
    [s EXCEPT !.version = @ + 1,
              !.routes = NewRoutes(s, m),
              !.upstreams = NewUpstreams(s, m),
              !.global = IF m.kind = "SetGlobalConfig" THEN Patched(@, m.patch) ELSE @,
              !.tls = IF m.kind = "SetTlsConfig" THEN Patched(@, m.patch) ELSE @]

\* Mutant: the old value is read after the change.
EntityChange_Late(where, id, before, after) ==
    <<Change(<<where, id>>, Get(after, id), Get(after, id))>>

\* One entity of a map, before and after.
EntityChange(where, id, before, after) ==
    <<Change(<<where, id>>, Get(before, id), Get(after, id))>>

\* A whole section; no change is reported when it is the same.
SectionChange(where, before, after) ==
    IF before = after THEN <<>> ELSE <<Change(<<where>>, <<before>>, <<after>>)>>

\* MutationOutcome.diff.
Changes(s, m) ==
    CASE m.kind \in {"CreateRoute", "UpdateRoute", "DeleteRoute"} ->
            EntityChange("routes", m.id, s.routes, NewRoutes(s, m))
      [] m.kind \in PolicyKinds ->
            <<Change(<<"routes", m.id, "policy">>,
                     Some(s.routes[m.id].policy), Some(NewRoutes(s, m)[m.id].policy))>>
      [] m.kind \in {"CreateUpstream", "UpdateUpstream", "DeleteUpstream"} ->
            EntityChange("upstreams", m.id, s.upstreams, NewUpstreams(s, m))
      [] m.kind = "SetGlobalConfig" -> SectionChange("global", s.global, NewState(s, m).global)
      [] m.kind = "SetTlsConfig" -> SectionChange("tls", s.tls, NewState(s, m).tls)
      [] m.kind = "ImportFromCaddyfile" ->
            Appeared("upstreams", m.upstreams) \o Appeared("routes", m.routes)

-----------------------------------------------------------------------------
(* apply_mutation.                                                         *)

\* check_capabilities.
Capable(m) == Referenced(m) \subseteq capabilities

\* All that stands between a mutation and a new state, in the order of the
\* checks; a mutation that fails one is refused and changes nothing.
Accepted(m) ==
    /\ m.expected = state.version
    /\ Capable(m)
    /\ PreConditions(state, m)
    /\ state.version < MaxVersion

Init ==
    /\ state = Empty(Presets)
    /\ capabilities \in Capabilities

\* The new state is stored as the next snapshot.
Submit(m) ==
    /\ Accepted(m)
    /\ state' = NewState(state, m)
    /\ UNCHANGED capabilities

Next == \E m \in Mutation : Submit(m)

Spec == Init /\ [][Next]_vars

-----------------------------------------------------------------------------
(* Properties.                                                             *)

TypeOK == IsDesiredState(state) /\ capabilities \in Capabilities

\* Every upstream that a route names exists: creating, patching, importing and
\* deleting guard the references from both sides (validate.rs:24-26, 254-258,
\* 145-160, 386-409).
ReferencesExist ==
    \A r \in DOMAIN state.routes :
        UpstreamsExist(DOMAIN state.upstreams, state.routes[r].upstreams)

\* Hostnames, CIDRs and redirects in the state are valid, whichever mutation
\* brought them: each of the three ways in has checks of its own.
RoutesStayValid ==
    \A r \in DOMAIN state.routes :
        LET route == state.routes[r]
        IN /\ HostnamesValid(route.hosts) /\ MatchersValid(route.remote)
           /\ route.redirect # None => RedirectValid(route.redirect)

\* A change as a function of the state it is replayed on or undone from.
Put(s, path, value) ==
    IF Len(path) = 1 THEN [s EXCEPT ![path[1]] = value[1]]
    ELSE IF Len(path) = 3
    THEN [s EXCEPT !.routes[path[2]].policy = IF value = <<>> THEN None ELSE value[1]]
    ELSE [s EXCEPT ![path[1]] = IF value = <<>> THEN Without(@, path[2])
                                ELSE With(@, path[2], value[1])]

=============================================================================
