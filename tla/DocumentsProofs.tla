--------------------------- MODULE DocumentsProofs --------------------------
(***************************************************************************)
(* Proofs about Mutations and Documents: whatever mutations are accepted,  *)
(* the desired state keeps its type, its references and its valid routes;  *)
(* what follows for an apply; that the reported changes are the whole      *)
(* change; and that a changed configuration shows as a drift.              *)
(***************************************************************************)
EXTENDS Documents, SequenceTheorems, FiniteSetTheorems, TLAPS

-----------------------------------------------------------------------------
(* Maps and records.                                                       *)

LEMMA PatchedRecord ==
    ASSUME NEW types, NEW x, NEW patch, IsRecord(x, types), IsPatch(patch, types)
    PROVE  IsRecord(Patched(x, patch), types)
BY DEF IsFunction, IsRecord, IsPatch, Patched

LEMMA WithMap ==
    ASSUME NEW keys, NEW types, NEW f, NEW key \in keys, NEW value,
           IsMap(f, keys, types), IsRecord(value, types)
    PROVE  IsMap(With(f, key, value), keys, types)
BY DEF IsFunction, IsMap, With

LEMMA WithoutMap ==
    ASSUME NEW keys, NEW types, NEW f, NEW key, IsMap(f, keys, types)
    PROVE  IsMap(Without(f, key), keys, types)
BY DEF IsFunction, IsMap, Without

LEMMA BodyOfEntry ==
    ASSUME NEW entries, NEW k \in Ids(entries)
    PROVE  \E i \in DOMAIN entries : entries[i].id = k /\ BodyOf(entries, k) = entries[i].body
BY DEF Ids, BodyOf

LEMMA InsertedMap ==
    ASSUME NEW keys, NEW types, NEW f, NEW entries,
           IsMap(f, keys, types), IsList(entries, keys, types)
    PROVE  IsMap(Inserted(f, entries), keys, types)
<1>1. Ids(entries) \subseteq keys
  BY DEF Ids, IsList
<1>2. \A k \in Ids(entries) : IsRecord(BodyOf(entries, k), types)
  BY BodyOfEntry DEF IsList
<1> QED BY <1>1, <1>2 DEF IsFunction, IsMap, Inserted

-----------------------------------------------------------------------------
(* Types.                                                                  *)

LEMMA ChangedRouteTyped ==
    ASSUME NEW s, IsDesiredState(s), NEW m, IsPayload(m), PreConditions(s, m),
           m.kind \in {"UpdateRoute"} \cup PolicyKinds
    PROVE  m.id \in DOMAIN s.routes /\ IsRecord(ChangedRoute(s, m), RouteTypes)
<1> DEFINE r == s.routes[m.id]
<1>1. m.id \in DOMAIN s.routes
  BY DEF PreConditions, PolicyKinds, Attached
<1>2. IsRecord(r, RouteTypes)
  BY <1>1 DEF IsDesiredState, IsMap
<1>3. CASE m.kind = "UpdateRoute"
  <2>1. IsPatch(m.patch, RouteTypes)
    BY <1>3 DEF IsPayload
  <2> QED BY <1>1, <1>2, <1>3, <2>1, PatchedRecord DEF ChangedRoute
<1>4. ASSUME NEW p \in Opt(Attachment) PROVE IsRecord([r EXCEPT !.policy = p], RouteTypes)
  BY <1>2, SMTT(30) DEF IsFunction, IsRecord, RouteTypes
<1>5. CASE m.kind = "AttachPolicy"
  <2>1. [preset |-> m.preset, version |-> m.version] \in Opt(Attachment)
    BY <1>5 DEF IsPayload, Attachment, Opt
  <2> QED BY <1>1, <1>4, <1>5, <2>1 DEF ChangedRoute
<1>6. CASE m.kind = "DetachPolicy"
  BY <1>1, <1>4, <1>6 DEF ChangedRoute, Opt
<1>7. CASE m.kind = "UpgradePolicy"
  <2>1. r.policy # None /\ r.policy \in Opt(Attachment)
    BY <1>2, <1>7 DEF PreConditions, Attached, IsRecord, RouteTypes
  <2>2. [r.policy EXCEPT !.version = m.version] \in Opt(Attachment)
    BY <1>7, <2>1 DEF IsPayload, Attachment, Opt
  <2>3. ChangedRoute(s, m) = [r EXCEPT !.policy = [r.policy EXCEPT !.version = m.version]]
    BY <1>7 DEF ChangedRoute
  <2> QED BY <1>1, <1>4, <2>2, <2>3
<1> QED BY <1>3, <1>5, <1>6, <1>7 DEF PolicyKinds

LEMMA NewRoutesTyped ==
    ASSUME NEW s, IsDesiredState(s), NEW m, IsPayload(m), PreConditions(s, m)
    PROVE  IsMap(NewRoutes(s, m), RouteId, RouteTypes)
<1>0. IsMap(s.routes, RouteId, RouteTypes)
  BY DEF IsDesiredState
<1>1. CASE m.kind = "CreateRoute"
  <2>1. m.id \in RouteId /\ IsRecord(m.route, RouteTypes)
    BY <1>1 DEF IsPayload
  <2>2. NewRoutes(s, m) = With(s.routes, m.id, m.route)
    BY <1>1 DEF NewRoutes, PolicyKinds
  <2> QED BY <1>0, <2>1, <2>2, WithMap
<1>2. CASE m.kind = "DeleteRoute"
  <2>1. NewRoutes(s, m) = Without(s.routes, m.id)
    BY <1>2 DEF NewRoutes, PolicyKinds
  <2> QED BY <1>0, <2>1, WithoutMap
<1>3. CASE m.kind \in {"UpdateRoute"} \cup PolicyKinds
  <2>1. m.id \in RouteId /\ IsRecord(ChangedRoute(s, m), RouteTypes)
    BY <1>0, <1>3, ChangedRouteTyped DEF IsMap
  <2>2. NewRoutes(s, m) = With(s.routes, m.id, ChangedRoute(s, m))
    BY <1>3 DEF NewRoutes, PolicyKinds
  <2> QED BY <1>0, <2>1, <2>2, WithMap
<1>4. CASE m.kind = "ImportFromCaddyfile"
  <2>1. IsList(m.routes, RouteId, RouteTypes) /\ NewRoutes(s, m) = Inserted(s.routes, m.routes)
    BY <1>4 DEF IsPayload, NewRoutes, PolicyKinds
  <2> QED BY <1>0, <2>1, InsertedMap
<1>5. CASE m.kind \notin {"CreateRoute", "DeleteRoute", "UpdateRoute", "ImportFromCaddyfile"} \cup PolicyKinds
  BY <1>0, <1>5 DEF NewRoutes
<1> QED BY <1>1, <1>2, <1>3, <1>4, <1>5

LEMMA NewUpstreamsTyped ==
    ASSUME NEW s, IsDesiredState(s), NEW m, IsPayload(m), PreConditions(s, m)
    PROVE  IsMap(NewUpstreams(s, m), UpstreamId, UpstreamTypes)
<1>0. IsMap(s.upstreams, UpstreamId, UpstreamTypes)
  BY DEF IsDesiredState
<1>1. CASE m.kind = "CreateUpstream"
  <2>1. m.id \in UpstreamId /\ IsRecord(m.upstream, UpstreamTypes)
    BY <1>1 DEF IsPayload
  <2> QED BY <1>0, <1>1, <2>1, WithMap DEF NewUpstreams
<1>2. CASE m.kind = "UpdateUpstream"
  <2>1. /\ m.id \in UpstreamId /\ IsPatch(m.patch, UpstreamTypes)
        /\ m.id \in DOMAIN s.upstreams
    BY <1>2 DEF IsPayload, PreConditions
  <2>2. IsRecord(Patched(s.upstreams[m.id], m.patch), UpstreamTypes)
    BY <1>0, <2>1, PatchedRecord DEF IsMap
  <2> QED BY <1>0, <1>2, <2>1, <2>2, WithMap DEF NewUpstreams
<1>3. CASE m.kind = "DeleteUpstream"
  BY <1>0, <1>3, WithoutMap DEF NewUpstreams
<1>4. CASE m.kind = "ImportFromCaddyfile"
  <2>1. IsList(m.upstreams, UpstreamId, UpstreamTypes) /\ NewUpstreams(s, m) = Inserted(s.upstreams, m.upstreams)
    BY <1>4 DEF IsPayload, NewUpstreams
  <2> QED BY <1>0, <2>1, InsertedMap
<1>5. CASE m.kind \notin {"CreateUpstream", "UpdateUpstream", "DeleteUpstream", "ImportFromCaddyfile"}
  BY <1>0, <1>5 DEF NewUpstreams
<1> QED BY <1>1, <1>2, <1>3, <1>4, <1>5

LEMMA NewStateFields ==
    ASSUME NEW s, IsDesiredState(s), NEW m
    PROVE  LET new == NewState(s, m)
           IN /\ IsFunction(new) /\ DOMAIN new = DOMAIN s
              /\ new.version = s.version + 1
              /\ new.routes = NewRoutes(s, m) /\ new.upstreams = NewUpstreams(s, m)
              /\ new.presets = s.presets
              /\ new.global = IF m.kind = "SetGlobalConfig" THEN Patched(s.global, m.patch) ELSE s.global
              /\ new.tls = IF m.kind = "SetTlsConfig" THEN Patched(s.tls, m.patch) ELSE s.tls
BY DEF NewState, IsDesiredState, IsFunction

LEMMA NewStateTyped ==
    ASSUME NEW s, IsDesiredState(s), NEW m, IsPayload(m), PreConditions(s, m)
    PROVE  IsDesiredState(NewState(s, m))
<1>1. m.kind = "SetGlobalConfig" => IsRecord(Patched(s.global, m.patch), GlobalTypes)
  BY PatchedRecord DEF IsPayload, IsDesiredState
<1>2. m.kind = "SetTlsConfig" => IsRecord(Patched(s.tls, m.patch), TlsTypes)
  BY PatchedRecord DEF IsPayload, IsDesiredState
<1>3. /\ IsMap(NewRoutes(s, m), RouteId, RouteTypes)
      /\ IsMap(NewUpstreams(s, m), UpstreamId, UpstreamTypes)
  BY NewRoutesTyped, NewUpstreamsTyped
<1> QED BY <1>1, <1>2, <1>3, NewStateFields DEF IsDesiredState

LEMMA EmptyTyped == IsDesiredState(Empty(Presets))
<1>1. IsRecord(NoGlobal, GlobalTypes)
  BY DEF IsFunction, IsRecord, NoGlobal, GlobalTypes, Opt
<1>3. IsRecord(NoTls, TlsTypes)
  <2>1. /\ DOMAIN NoTls = {"email", "onDemand", "askUrl", "issuer"}
        /\ DOMAIN TlsTypes = {"email", "onDemand", "askUrl", "issuer"}
    BY DEF NoTls, TlsTypes
  <2>2. /\ NoTls.email \in TlsTypes.email /\ NoTls.onDemand \in TlsTypes.onDemand
        /\ NoTls.askUrl \in TlsTypes.askUrl /\ NoTls.issuer \in TlsTypes.issuer
    BY DEF NoTls, TlsTypes, Opt
  <2>3. IsFunction(NoTls)
    BY DEF IsFunction, NoTls
  <2> QED BY <2>1, <2>2, <2>3 DEF IsRecord
<1>2. IsMap(<<>>, RouteId, RouteTypes) /\ IsMap(<<>>, UpstreamId, UpstreamTypes)
  BY DEF IsFunction, IsMap
<1> QED BY <1>1, <1>2, <1>3, MutationsAssumption DEF IsFunction, Empty, IsDesiredState

(* The desired state has the types of core/src/model after any mutations:  *)
(* every patch, attachment and import keeps them (apply.rs:84-458).         *)
THEOREM TypeCorrect == Spec => []TypeOK
<1>1. Init => TypeOK
  BY EmptyTyped DEF Init, TypeOK
<1>2. TypeOK /\ [Next]_vars => TypeOK'
  <2> SUFFICES ASSUME TypeOK, [Next]_vars PROVE TypeOK'
    OBVIOUS
  <2>1. CASE UNCHANGED vars
    BY <2>1 DEF vars, TypeOK
  <2>2. ASSUME NEW m \in Mutation, Submit(m) PROVE TypeOK'
    BY <2>2, NewStateTyped, MutationsAssumption DEF Submit, Accepted, TypeOK
  <2> QED BY <2>1, <2>2 DEF Next
<1> QED BY <1>1, <1>2, PTL DEF Spec

-----------------------------------------------------------------------------
(* What a mutation makes of the routes.                                    *)

\* Route new has the fields of route old that a policy has no part in.
SameFields(new, old) ==
    /\ new.hosts = old.hosts /\ new.remote = old.remote /\ new.headers = old.headers
    /\ new.redirect = old.redirect /\ new.upstreams = old.upstreams

\* A route after a mutation is an old one, but for its policy, or it came with
\* the mutation: whole, as a patch or in an import.
LEMMA RouteOrigin ==
    ASSUME NEW s, IsDesiredState(s), NEW m, PreConditions(s, m), NEW r \in DOMAIN NewRoutes(s, m)
    PROVE  LET new == NewRoutes(s, m)[r]
           IN \/ r \in DOMAIN s.routes /\ SameFields(new, s.routes[r])
              \/ m.kind = "CreateRoute" /\ new = m.route
              \/ m.kind = "UpdateRoute" /\ m.id \in DOMAIN s.routes /\ new = Patched(s.routes[m.id], m.patch)
              \/ m.kind = "ImportFromCaddyfile" /\ new \in Bodies(m.routes)
<1> DEFINE new == NewRoutes(s, m)[r]
<1>1. CASE m.kind = "CreateRoute"
  <2>1. NewRoutes(s, m) = With(s.routes, m.id, m.route)
    BY <1>1 DEF NewRoutes, PolicyKinds
  <2> QED BY <1>1, <2>1 DEF With, SameFields
<1>2. CASE m.kind = "DeleteRoute"
  <2>1. NewRoutes(s, m) = Without(s.routes, m.id)
    BY <1>2 DEF NewRoutes, PolicyKinds
  <2> QED BY <2>1 DEF Without, SameFields
<1>3. CASE m.kind \in {"UpdateRoute"} \cup PolicyKinds
  <2>1. NewRoutes(s, m) = With(s.routes, m.id, ChangedRoute(s, m)) /\ m.id \in DOMAIN s.routes
    BY <1>3 DEF NewRoutes, PolicyKinds, PreConditions, Attached
  <2>2. CASE r # m.id
    BY <2>1, <2>2 DEF With, SameFields
  <2>3. CASE r = m.id /\ m.kind = "UpdateRoute"
    BY <2>1, <2>3 DEF With, ChangedRoute
  <2>4. CASE r = m.id /\ m.kind \in PolicyKinds
    <3>1. new = ChangedRoute(s, m)
      BY <2>1, <2>4 DEF With
    <3>2. IsRecord(s.routes[m.id], RouteTypes)
      BY <2>1 DEF IsDesiredState, IsMap
    <3>3. \E p : ChangedRoute(s, m) = [s.routes[m.id] EXCEPT !.policy = p]
      BY <2>4 DEF ChangedRoute, PolicyKinds
    <3>4. SameFields(new, s.routes[m.id])
      BY <3>1, <3>2, <3>3 DEF SameFields, IsRecord, RouteTypes
    <3> QED BY <2>1, <2>4, <3>4
  <2> QED BY <1>3, <2>2, <2>3, <2>4
<1>4. CASE m.kind = "ImportFromCaddyfile"
  <2>1. NewRoutes(s, m) = Inserted(s.routes, m.routes)
    BY <1>4 DEF NewRoutes, PolicyKinds
  <2>2. CASE r \in Ids(m.routes)
    <3>1. new = BodyOf(m.routes, r)
      BY <2>1, <2>2 DEF Inserted
    <3>2. BodyOf(m.routes, r) \in Bodies(m.routes)
      BY <2>2, BodyOfEntry DEF Bodies
    <3> QED BY <1>4, <3>1, <3>2
  <2>3. CASE r \notin Ids(m.routes)
    BY <2>1, <2>3 DEF Inserted, SameFields
  <2> QED BY <2>2, <2>3
<1>5. CASE m.kind \notin {"CreateRoute", "DeleteRoute", "UpdateRoute", "ImportFromCaddyfile"} \cup PolicyKinds
  <2>1. NewRoutes(s, m) = s.routes
    BY <1>5 DEF NewRoutes
  <2> QED BY <2>1 DEF SameFields
<1> QED BY <1>1, <1>2, <1>3, <1>4, <1>5

\* What a patched route has of a field it did not have before.
LEMMA PatchedField ==
    ASSUME NEW x, IsRecord(x, RouteTypes), NEW patch, NEW field \in DOMAIN RouteTypes
    PROVE  Patched(x, patch)[field] = IF field \in DOMAIN patch THEN patch[field] ELSE x[field]
BY DEF IsRecord, Patched

\* The upstreams that are still there.
LEMMA UpstreamsKept ==
    ASSUME NEW s, NEW m, PreConditions(s, m)
    PROVE  /\ m.kind # "DeleteUpstream" => DOMAIN s.upstreams \subseteq DOMAIN NewUpstreams(s, m)
           /\ m.kind = "DeleteUpstream" => DOMAIN NewUpstreams(s, m) = DOMAIN s.upstreams \ {m.id}
           /\ m.kind = "ImportFromCaddyfile" =>
                 DOMAIN NewUpstreams(s, m) = DOMAIN s.upstreams \cup Ids(m.upstreams)
BY DEF NewUpstreams, With, Without, Inserted

\* The references of one route.
RouteRefers(s, route) == UpstreamsExist(DOMAIN s.upstreams, route.upstreams)

LEMMA ReferencesKept ==
    ASSUME NEW s, IsDesiredState(s), NEW m, IsPayload(m), PreConditions(s, m),
           \A r \in DOMAIN s.routes : RouteRefers(s, s.routes[r]),
           NEW r \in DOMAIN NewRoutes(s, m)
    PROVE  UpstreamsExist(DOMAIN NewUpstreams(s, m), NewRoutes(s, m)[r].upstreams)
<1> DEFINE new == NewRoutes(s, m)[r]
<1>1. CASE r \in DOMAIN s.routes /\ SameFields(new, s.routes[r])
  <2>1. RouteRefers(s, s.routes[r]) /\ new.upstreams = s.routes[r].upstreams
    BY <1>1 DEF SameFields
  <2>2. CASE m.kind = "DeleteUpstream"
    <3>1. \A i \in DOMAIN s.routes[r].upstreams : s.routes[r].upstreams[i] # m.id
      BY <1>1, <2>2 DEF PreConditions, Referring
    <3>2. DOMAIN NewUpstreams(s, m) = DOMAIN s.upstreams \ {m.id}
      BY <2>2, UpstreamsKept
    <3>3. new.upstreams = s.routes[r].upstreams
      BY <2>1
    <3>4. \A i \in DOMAIN new.upstreams : new.upstreams[i] \in DOMAIN s.upstreams
      BY <2>1 DEF RouteRefers, UpstreamsExist
    <3> HIDE DEF new
    <3>5. UpstreamsExist(DOMAIN s.upstreams \ {m.id}, new.upstreams)
      BY <3>1, <3>3, <3>4 DEF UpstreamsExist
    <3> QED BY <3>2, <3>5 DEF new
  <2>3. CASE m.kind # "DeleteUpstream"
    BY <2>1, <2>3, UpstreamsKept DEF RouteRefers, UpstreamsExist
  <2> QED BY <2>2, <2>3
<1>2. CASE m.kind = "CreateRoute" /\ new = m.route
  BY <1>2, UpstreamsKept DEF PreConditions, UpstreamsExist
<1>3. CASE m.kind = "UpdateRoute" /\ m.id \in DOMAIN s.routes /\ new = Patched(s.routes[m.id], m.patch)
  <2>1. IsRecord(s.routes[m.id], RouteTypes) /\ "upstreams" \in DOMAIN RouteTypes
    BY <1>3 DEF IsDesiredState, IsMap, RouteTypes
  <2>2. new.upstreams = IF "upstreams" \in DOMAIN m.patch THEN m.patch.upstreams
                        ELSE s.routes[m.id].upstreams
    BY <1>3, <2>1, PatchedField
  <2>3. "upstreams" \in DOMAIN m.patch => UpstreamsExist(DOMAIN s.upstreams, m.patch.upstreams)
    BY <1>3 DEF PreConditions, RoutePatchValid
  <2>4. UpstreamsExist(DOMAIN s.upstreams, new.upstreams)
    BY <1>3, <2>2, <2>3 DEF RouteRefers
  <2>5. m.kind # "DeleteUpstream"
    BY <1>3
  <2> QED BY <2>4, <2>5, UpstreamsKept DEF UpstreamsExist
<1>4. CASE m.kind = "ImportFromCaddyfile" /\ new \in Bodies(m.routes)
  BY <1>4, UpstreamsKept DEF PreConditions, ImportValid
<1> QED BY <1>1, <1>2, <1>3, <1>4, RouteOrigin

(* No route of the desired state names an upstream that does not exist,    *)
(* whatever mutations were accepted (validate.rs:24-26, 145-160, 254-258,   *)
(* 386-409).                                                                *)
THEOREM NoDanglingReference == Spec => []ReferencesExist
<1>1. Init => ReferencesExist
  BY DEF Init, Empty, ReferencesExist
<1>2. TypeOK /\ ReferencesExist /\ [Next]_vars => ReferencesExist'
  <2> SUFFICES ASSUME TypeOK, ReferencesExist, [Next]_vars PROVE ReferencesExist'
    OBVIOUS
  <2>1. CASE UNCHANGED vars
    BY <2>1 DEF vars, ReferencesExist
  <2>2. ASSUME NEW m \in Mutation, Submit(m) PROVE ReferencesExist'
    <3>1. IsPayload(m) /\ PreConditions(state, m) /\ IsDesiredState(state)
      BY <2>2, MutationsAssumption DEF Submit, Accepted, TypeOK
    <3>2. state'.routes = NewRoutes(state, m) /\ state'.upstreams = NewUpstreams(state, m)
      BY <2>2, <3>1 DEF Submit, NewState, IsDesiredState
    <3>3. \A r \in DOMAIN state.routes : RouteRefers(state, state.routes[r])
      BY DEF ReferencesExist, RouteRefers
    <3> QED BY <3>1, <3>2, <3>3, ReferencesKept DEF ReferencesExist
  <2> QED BY <2>1, <2>2 DEF Next
<1> QED BY <1>1, <1>2, TypeCorrect, PTL DEF Spec

-----------------------------------------------------------------------------
(* Valid routes.                                                           *)

RouteIsValid(route) ==
    /\ HostnamesValid(route.hosts) /\ MatchersValid(route.remote)
    /\ route.redirect # None => RedirectValid(route.redirect)

LEMMA RoutesKept ==
    ASSUME NEW s, IsDesiredState(s), NEW m, PreConditions(s, m),
           \A r \in DOMAIN s.routes : RouteIsValid(s.routes[r]),
           NEW r \in DOMAIN NewRoutes(s, m)
    PROVE  RouteIsValid(NewRoutes(s, m)[r])
<1> DEFINE new == NewRoutes(s, m)[r]
<1>1. CASE r \in DOMAIN s.routes /\ SameFields(new, s.routes[r])
  BY <1>1 DEF SameFields, RouteIsValid
<1>2. CASE m.kind = "CreateRoute" /\ new = m.route
  BY <1>2 DEF PreConditions, RouteValid, RouteIsValid
<1>3. CASE m.kind = "UpdateRoute" /\ m.id \in DOMAIN s.routes /\ new = Patched(s.routes[m.id], m.patch)
  <2>1. IsRecord(s.routes[m.id], RouteTypes) /\ {"hosts", "remote", "redirect"} \subseteq DOMAIN RouteTypes
    BY <1>3 DEF IsDesiredState, IsMap, RouteTypes
  <2>2. RoutePatchValid(s, m.patch) /\ RouteIsValid(s.routes[m.id])
    BY <1>3 DEF PreConditions
  <2>3. HostnamesValid(new.hosts)
    BY <1>3, <2>1, <2>2, PatchedField DEF RoutePatchValid, RouteIsValid
  <2>4. MatchersValid(new.remote)
    BY <1>3, <2>1, <2>2, PatchedField DEF RoutePatchValid, RouteIsValid
  <2>5. new.redirect # None => RedirectValid(new.redirect)
    BY <1>3, <2>1, <2>2, PatchedField DEF RoutePatchValid, RouteIsValid, Sets
  <2> QED BY <2>3, <2>4, <2>5 DEF RouteIsValid
<1>4. CASE m.kind = "ImportFromCaddyfile" /\ new \in Bodies(m.routes)
  BY <1>4 DEF PreConditions, ImportValid, RouteValid, RouteIsValid
<1> QED BY <1>1, <1>2, <1>3, <1>4, RouteOrigin

(* Hostnames, CIDRs and redirects of the desired state are valid whichever *)
(* mutation brought them, a patch that left some of them alone included    *)
(* (validate.rs:145-160, 253-300, 386-420).                                 *)
THEOREM ValidRoutes == Spec => []RoutesStayValid
<1>1. Init => RoutesStayValid
  BY DEF Init, Empty, RoutesStayValid
<1>2. TypeOK /\ RoutesStayValid /\ [Next]_vars => RoutesStayValid'
  <2> SUFFICES ASSUME TypeOK, RoutesStayValid, [Next]_vars PROVE RoutesStayValid'
    OBVIOUS
  <2>1. CASE UNCHANGED vars
    BY <2>1 DEF vars, RoutesStayValid
  <2>2. ASSUME NEW m \in Mutation, Submit(m) PROVE RoutesStayValid'
    <3>1. PreConditions(state, m) /\ IsDesiredState(state)
      BY <2>2 DEF Submit, Accepted, TypeOK
    <3>2. state'.routes = NewRoutes(state, m)
      BY <2>2, <3>1 DEF Submit, NewState, IsDesiredState
    <3>3. \A r \in DOMAIN state.routes : RouteIsValid(state.routes[r])
      BY DEF RoutesStayValid, RouteIsValid
    <3>4. \A r \in DOMAIN state'.routes : RouteIsValid(state'.routes[r])
      BY <3>1, <3>2, <3>3, RoutesKept
    <3> QED BY <3>4 DEF RoutesStayValid, RouteIsValid
  <2> QED BY <2>1, <2>2 DEF Next
<1> QED BY <1>1, <1>2, TypeCorrect, PTL DEF Spec


-----------------------------------------------------------------------------
(* What an apply needs.                                                    *)

\* What a route's fields need is what its creation is asked for.
LEMMA NeedsOfRoute ==
    ASSUME NEW r, IsRecord(r, RouteTypes)
    PROVE  StructureNeeds(r) = RouteModules(r)
BY DEF StructureNeeds, RouteModules, Sets, IsRecord, RouteTypes

LEMMA NeedsKept ==
    ASSUME NEW s, IsDesiredState(s), NEW m, IsPayload(m), PreConditions(s, m), NEW modules,
           Referenced(m) \subseteq modules,
           \A r \in DOMAIN s.routes : StructureNeeds(s.routes[r]) \subseteq modules,
           NEW r \in DOMAIN NewRoutes(s, m)
    PROVE  StructureNeeds(NewRoutes(s, m)[r]) \subseteq modules
<1> DEFINE new == NewRoutes(s, m)[r]
<1>1. CASE r \in DOMAIN s.routes /\ SameFields(new, s.routes[r])
  BY <1>1 DEF SameFields, StructureNeeds
<1>2. CASE m.kind = "CreateRoute" /\ new = m.route
  <2>1. IsRecord(m.route, RouteTypes)
    BY <1>2 DEF IsPayload
  <2>2. RouteModules(m.route) \subseteq modules
    BY <1>2 DEF Referenced
  <2> QED BY <1>2, <2>1, <2>2, NeedsOfRoute
<1>3. CASE m.kind = "UpdateRoute" /\ m.id \in DOMAIN s.routes /\ new = Patched(s.routes[m.id], m.patch)
  <2> DEFINE old == s.routes[m.id]
  <2>1. IsRecord(old, RouteTypes) /\ {"upstreams", "headers", "redirect"} \subseteq DOMAIN RouteTypes
    BY <1>3 DEF IsDesiredState, IsMap, RouteTypes
  <2>2. RouteModules(m.patch) \subseteq modules /\ StructureNeeds(old) \subseteq modules
    BY <1>3 DEF Referenced
  <2>3. \A field \in {"upstreams", "headers", "redirect"} :
           new[field] = IF field \in DOMAIN m.patch THEN m.patch[field] ELSE old[field]
    BY <1>3, <2>1, PatchedField
  <2> HIDE DEF new, old
  <2>4. StructureNeeds(new) \subseteq StructureNeeds(old) \cup RouteModules(m.patch)
    BY <2>3 DEF StructureNeeds, RouteModules, Sets
  <2> QED BY <2>2, <2>4 DEF new
<1>4. CASE m.kind = "ImportFromCaddyfile" /\ new \in Bodies(m.routes)
  <2>1. IsRecord(new, RouteTypes)
    BY <1>4 DEF IsPayload, IsList, Bodies
  <2>2. RouteModules(new) \subseteq modules
    BY <1>4 DEF Referenced
  <2> QED BY <2>1, <2>2, NeedsOfRoute
<1> QED BY <1>1, <1>2, <1>3, <1>4, RouteOrigin

\* Every route, a disabled one too, needs no more than the gate has let through.
Covered == \A r \in DOMAIN state.routes : StructureNeeds(state.routes[r]) \subseteq capabilities

(* The gate in front of every mutation, which looks at what the mutation    *)
(* brings, covers what the whole state needs at an apply                    *)
(* (capability.rs:15-183, capability_check.rs:84-115).                      *)
THEOREM GateSuffices == Spec => []GateCoversApply
<1>1. Init => Covered
  BY DEF Init, Empty, Covered
<1>2. TypeOK /\ Covered /\ [Next]_vars => Covered'
  <2> SUFFICES ASSUME TypeOK, Covered, [Next]_vars PROVE Covered'
    OBVIOUS
  <2>1. CASE UNCHANGED vars
    BY <2>1 DEF vars, Covered
  <2>2. ASSUME NEW m \in Mutation, Submit(m) PROVE Covered'
    <3>1. /\ IsPayload(m) /\ PreConditions(state, m) /\ IsDesiredState(state)
          /\ Referenced(m) \subseteq capabilities
      BY <2>2, MutationsAssumption DEF Submit, Accepted, Capable, TypeOK
    <3>2. state'.routes = NewRoutes(state, m) /\ capabilities' = capabilities
      BY <2>2, <3>1, NewStateFields DEF Submit
    <3> QED BY <3>1, <3>2, NeedsKept DEF Covered
  <2> QED BY <2>1, <2>2 DEF Next
<1>3. Covered => GateCoversApply
  BY DEF Covered, GateCoversApply, Enabled
<1> QED BY <1>1, <1>2, <1>3, TypeCorrect, PTL DEF Spec

(* An accepted state stops rendering only for the destination of an        *)
(* upstream, an attachment that came with a route, or the body of a preset *)
(* that spells no document: hostnames and references are what validation   *)
(* left there (render.rs, validate.rs).                                    *)
THEOREM RendersIfChecked == Spec => []OnlyUncheckedFieldsFail
<1>1. TypeOK /\ ReferencesExist /\ RoutesStayValid => OnlyUncheckedFieldsFail
  <2> SUFFICES ASSUME TypeOK, ReferencesExist, RoutesStayValid, NEW id \in Enabled(state)
               PROVE  LET r == state.routes[id]
                      IN \/ RouteRenders(state, r)
                         \/ \E i \in DOMAIN r.upstreams :
                              /\ r.upstreams[i] \in DOMAIN state.upstreams
                              /\ ~state.upstreams[r.upstreams[i]].dest.usable
                         \/ r.policy # None /\ PresetOf(state, r.policy) = {}
                         \/ r.policy # None /\ \E p \in PresetOf(state, r.policy) : p.body = None
    BY DEF OnlyUncheckedFieldsFail
  <2> DEFINE r == state.routes[id]
  <2>1. id \in DOMAIN state.routes /\ IsRecord(r, RouteTypes)
    BY DEF Enabled, TypeOK, IsDesiredState, IsMap
  <2>2. \A i \in DOMAIN r.hosts : r.hosts[i] \in Host
    BY <2>1 DEF IsRecord, RouteTypes
  <2>3. \A i \in DOMAIN r.hosts : ValidateHostname(r.hosts[i].name) # None
    BY <2>1, <2>2, HostAssumption DEF RoutesStayValid, HostnamesValid
  <2>4. \A i \in DOMAIN r.upstreams : r.upstreams[i] \in DOMAIN state.upstreams
    BY <2>1 DEF ReferencesExist, UpstreamsExist
  <2>5. \/ PresetOf(state, r.policy) = {}
        \/ \E p \in PresetOf(state, r.policy) : p.body # None
        \/ \E p \in PresetOf(state, r.policy) : p.body = None
    OBVIOUS
  <2> QED BY <2>3, <2>4, <2>5 DEF RouteRenders
<1> QED BY <1>1, TypeCorrect, NoDanglingReference, ValidRoutes, PTL

-----------------------------------------------------------------------------
(* That the reported changes are the whole change: what PutAll computes.   *)

Less == {pair \in Nat \X Nat : pair[1] < pair[2]}

\* A set of naturals that is not empty has a least element: a proof by least
\* counterexample does what an induction would.
LEMMA LeastNatural ==
    ASSUME NEW T, T \subseteq Nat, T # {}
    PROVE  \E n \in T : \A k \in T : n <= k
<1>1. IsWellFoundedOn(Less, Nat)
  BY NatLessThanWellFounded DEF OpToRel, Less
<1>2. PICK n \in T : \A k \in T : ~(<<k, n>> \in Less)
  BY <1>1, WFMin
<1>3. \A k \in T : n \in Nat /\ k \in Nat /\ ~(k < n)
  BY <1>2 DEF Less
<1> QED BY <1>3

\* PutAll is what any function with its recursion gives.
LEMMA PutAllIs ==
    ASSUME NEW s, NEW changes, NEW values, Len(changes) \in Nat, NEW g,
           g = [n \in 0..Len(changes) |->
                   IF n = 0 THEN s ELSE Put(g[n - 1], changes[n].path, values[n])]
    PROVE  PutAll(s, changes, values) = g[Len(changes)]
<1> DEFINE Steps(f) == [n \in 0..Len(changes) |->
                          IF n = 0 THEN s ELSE Put(f[n - 1], changes[n].path, values[n])]
           a == CHOOSE f : f = Steps(f)
<1>1. PutAll(s, changes, values) = a[Len(changes)]
  BY DEF PutAll
<1>2. a = Steps(a)
  <2>1. \E f : f = Steps(f)
    OBVIOUS
  <2> HIDE DEF Steps
  <2> QED BY <2>1
<1> HIDE DEF a
<1>3. \A n \in 0..Len(changes) : a[n] = g[n]
  <2> DEFINE Wrong == {n \in 0..Len(changes) : a[n] # g[n]}
  <2> SUFFICES ASSUME Wrong # {} PROVE FALSE
    OBVIOUS
  <2>1. PICK n \in Wrong : \A k \in Wrong : n <= k
    <3>1. Wrong \subseteq Nat
      OBVIOUS
    <3> HIDE DEF Wrong
    <3> QED BY <3>1, LeastNatural
  <2>2. a[0] = s /\ g[0] = s
    BY <1>2
  <2>3. n \in 1..Len(changes) /\ n - 1 \in 0..Len(changes) /\ n - 1 \notin Wrong
    <3>1. n \in 0..Len(changes) /\ n # 0
      BY <2>1, <2>2
    <3>2. n \in 1..Len(changes) /\ n - 1 \in 0..Len(changes) /\ ~(n <= n - 1)
      BY <3>1
    <3> QED BY <2>1, <3>2
  <2>4. /\ a[n] = Put(a[n - 1], changes[n].path, values[n])
        /\ g[n] = Put(g[n - 1], changes[n].path, values[n])
    BY <1>2, <2>3
  <2> QED BY <2>1, <2>3, <2>4
<1> QED BY <1>1, <1>3

LEMMA NothingPut ==
    ASSUME NEW s, NEW values
    PROVE  PutAll(s, <<>>, values) = s
<1> DEFINE g == [n \in 0..0 |-> s]
<1>1. Len(<<>>) = 0 /\ Len(<<>>) \in Nat /\ g[0] = s
  OBVIOUS
<1>2. g = [n \in 0..Len(<<>>) |-> IF n = 0 THEN s ELSE Put(g[n - 1], <<>>[n].path, values[n])]
  BY <1>1
<1> HIDE DEF g
<1> QED BY <1>1, <1>2, PutAllIs

LEMMA OnePut ==
    ASSUME NEW s, NEW c, NEW values
    PROVE  PutAll(s, <<c>>, values) = Put(s, c.path, values[1])
<1> DEFINE changes == <<c>>
           g == [n \in 0..1 |-> IF n = 0 THEN s ELSE Put(s, c.path, values[1])]
<1>1. /\ Len(changes) = 1 /\ Len(changes) \in Nat /\ changes[1] = c
      /\ g[0] = s /\ g[1] = Put(s, c.path, values[1])
  OBVIOUS
<1> HIDE DEF changes
<1>2. g = [n \in 0..Len(changes) |-> IF n = 0 THEN s ELSE Put(g[n - 1], changes[n].path, values[n])]
  BY <1>1
<1> HIDE DEF g
<1>3. PutAll(s, changes, values) = g[Len(changes)]
  BY <1>1, <1>2, PutAllIs
<1> QED BY <1>1, <1>3 DEF changes

-----------------------------------------------------------------------------
(* One value put into a section of the state.                              *)

\* A value put into a map of entities.
EntityPut(f, id, value) == IF value = <<>> THEN Without(f, id) ELSE With(f, id, value[1])

LEMMA PutEntity ==
    ASSUME NEW s, NEW where, NEW id, NEW value
    PROVE  Put(s, <<where, id>>, value) = [s EXCEPT ![where] = EntityPut(s[where], id, value)]
BY DEF Put, EntityPut

\* State s with other upstreams and routes.
Sections(s, upstreams, routes) == [s EXCEPT !.upstreams = upstreams, !.routes = routes]

\* Two functions that agree are one.
LEMMA SameFunction ==
    ASSUME NEW f, NEW g, IsFunction(f), IsFunction(g), DOMAIN f = DOMAIN g,
           \A k \in DOMAIN f : f[k] = g[k]
    PROVE  f = g
BY DEF IsFunction

LEMMA SectionsFields ==
    ASSUME NEW s, IsDesiredState(s), NEW u, NEW r
    PROVE  /\ IsFunction(Sections(s, u, r)) /\ DOMAIN Sections(s, u, r) = DOMAIN s
           /\ \A k \in DOMAIN s : Sections(s, u, r)[k] = CASE k = "upstreams" -> u
                                                          [] k = "routes" -> r
                                                          [] OTHER -> s[k]
BY DEF Sections, IsDesiredState, IsFunction

LEMMA IsSections ==
    ASSUME NEW s, IsDesiredState(s), NEW u, NEW r, NEW t, IsFunction(t), DOMAIN t = DOMAIN s,
           t.upstreams = u, t.routes = r, \A k \in DOMAIN s \ {"upstreams", "routes"} : t[k] = s[k]
    PROVE  t = Sections(s, u, r)
BY SectionsFields, SameFunction DEF IsDesiredState

LEMMA SameSections ==
    ASSUME NEW s, IsDesiredState(s)
    PROVE  Sections(s, s.upstreams, s.routes) = s
<1>1. IsFunction(s)
  BY DEF IsDesiredState
<1> QED BY <1>1, IsSections

LEMMA UpstreamPut ==
    ASSUME NEW s, IsDesiredState(s), NEW u, NEW r, NEW id, NEW value
    PROVE  Put(Sections(s, u, r), <<"upstreams", id>>, value) = Sections(s, EntityPut(u, id, value), r)
<1> DEFINE t == Sections(s, u, r)
           new == [t EXCEPT !["upstreams"] = EntityPut(t["upstreams"], id, value)]
<1>1. {"upstreams", "routes"} \subseteq DOMAIN s
  BY DEF IsDesiredState
<1>2. /\ IsFunction(t) /\ DOMAIN t = DOMAIN s /\ t.upstreams = u /\ t.routes = r
      /\ \A k \in DOMAIN s \ {"upstreams", "routes"} : t[k] = s[k]
  BY <1>1, SectionsFields
<1>3. Put(t, <<"upstreams", id>>, value) = new
  BY PutEntity
<1> HIDE DEF t
<1>4. /\ IsFunction(new) /\ DOMAIN new = DOMAIN s
      /\ \A k \in DOMAIN s : new[k] = IF k = "upstreams" THEN EntityPut(u, id, value) ELSE t[k]
  BY <1>1, <1>2 DEF IsFunction
<1> HIDE DEF new
<1>5. new = Sections(s, EntityPut(u, id, value), r)
  BY <1>1, <1>2, <1>4, IsSections
<1> QED BY <1>3, <1>5 DEF t

LEMMA RoutePut ==
    ASSUME NEW s, IsDesiredState(s), NEW u, NEW r, NEW id, NEW value
    PROVE  Put(Sections(s, u, r), <<"routes", id>>, value) = Sections(s, u, EntityPut(r, id, value))
<1> DEFINE t == Sections(s, u, r)
           new == [t EXCEPT !["routes"] = EntityPut(t["routes"], id, value)]
<1>1. {"upstreams", "routes"} \subseteq DOMAIN s
  BY DEF IsDesiredState
<1>2. /\ IsFunction(t) /\ DOMAIN t = DOMAIN s /\ t.upstreams = u /\ t.routes = r
      /\ \A k \in DOMAIN s \ {"upstreams", "routes"} : t[k] = s[k]
  BY <1>1, SectionsFields
<1>3. Put(t, <<"routes", id>>, value) = new
  BY PutEntity
<1> HIDE DEF t
<1>4. /\ IsFunction(new) /\ DOMAIN new = DOMAIN s
      /\ \A k \in DOMAIN s : new[k] = IF k = "routes" THEN EntityPut(r, id, value) ELSE t[k]
  BY <1>1, <1>2 DEF IsFunction
<1> HIDE DEF new
<1>5. new = Sections(s, u, EntityPut(r, id, value))
  BY <1>1, <1>2, <1>4, IsSections
<1> QED BY <1>3, <1>5 DEF t

\* The state after a mutation, but for its version.
After(s, m) == [NewState(s, m) EXCEPT !.version = s.version]

LEMMA AfterFields ==
    ASSUME NEW s, IsDesiredState(s), NEW m
    PROVE  LET new == After(s, m)
           IN /\ IsFunction(new) /\ DOMAIN new = DOMAIN s
              /\ new.version = s.version
              /\ new.routes = NewRoutes(s, m) /\ new.upstreams = NewUpstreams(s, m)
              /\ new.presets = s.presets
              /\ new.global = IF m.kind = "SetGlobalConfig" THEN Patched(s.global, m.patch) ELSE s.global
              /\ new.tls = IF m.kind = "SetTlsConfig" THEN Patched(s.tls, m.patch) ELSE s.tls
<1> DEFINE old == NewState(s, m)
<1>1. IsFunction(old) /\ DOMAIN old = {"version", "routes", "upstreams", "presets", "tls", "global"}
  BY NewStateFields DEF IsDesiredState
<1> HIDE DEF old
<1>2. /\ IsFunction([old EXCEPT !.version = s.version])
      /\ DOMAIN [old EXCEPT !.version = s.version] = DOMAIN old
      /\ \A k \in DOMAIN old : [old EXCEPT !.version = s.version][k] = IF k = "version" THEN s.version ELSE old[k]
  BY <1>1 DEF IsFunction
<1>3. After(s, m) = [old EXCEPT !.version = s.version]
  BY DEF After, old
<1> HIDE DEF After
<1> QED BY <1>1, <1>2, <1>3, NewStateFields DEF old

LEMMA AfterSections ==
    ASSUME NEW s, IsDesiredState(s), NEW m, m.kind \notin {"SetGlobalConfig", "SetTlsConfig"}
    PROVE  After(s, m) = Sections(s, NewUpstreams(s, m), NewRoutes(s, m))
<1>1. DOMAIN s = {"version", "routes", "upstreams", "presets", "tls", "global"}
  BY DEF IsDesiredState
<1> QED BY <1>1, AfterFields, IsSections

-----------------------------------------------------------------------------
(* The values of an import, put one by one.                                *)

IsSequence(entries) ==
    IsFunction(entries) /\ Len(entries) \in Nat /\ DOMAIN entries = 1..Len(entries)

\* A change that reports that an entity has appeared.
Appears(change, where, entry) ==
    /\ change.path = <<where, entry.id>>
    /\ change.before = <<>> /\ change.after = <<entry.body>>

LEMMA AppearedOneByOne ==
    ASSUME NEW u, IsSequence(u), NEW r, IsSequence(r)
    PROVE  LET changes == Appeared("upstreams", u) \o Appeared("routes", r)
           IN /\ Len(changes) = Len(u) + Len(r) /\ DOMAIN changes = 1..Len(changes)
              /\ \A n \in 1..Len(u) : Appears(changes[n], "upstreams", u[n])
              /\ \A n \in 1..Len(r) : Appears(changes[Len(u) + n], "routes", r[n])
<1> DEFINE a == Appeared("upstreams", u)
           b == Appeared("routes", r)
           S == {a[i] : i \in DOMAIN a} \cup {b[i] : i \in DOMAIN b}
<1>1. a \in [1..Len(u) -> S] /\ \A n \in 1..Len(u) : Appears(a[n], "upstreams", u[n])
  BY DEF Appeared, IsSequence, Appears, Change
<1>2. b \in [1..Len(r) -> S] /\ \A n \in 1..Len(r) : Appears(b[n], "routes", r[n])
  BY DEF Appeared, IsSequence, Appears, Change
<1>3. Len(u) \in Nat /\ Len(r) \in Nat
  BY DEF IsSequence
<1> HIDE DEF a, b, S
<1>4. a \in Seq(S) /\ b \in Seq(S) /\ Len(a) = Len(u) /\ Len(b) = Len(r)
  BY <1>1, <1>2, <1>3, SMTT(30)
<1>5. /\ a \o b \in Seq(S) /\ Len(a \o b) = Len(a) + Len(b)
      /\ \A i \in 1..Len(a) + Len(b) : (a \o b)[i] = IF i <= Len(a) THEN a[i] ELSE b[i - Len(a)]
  BY <1>4, ConcatProperties
<1>6. DOMAIN (a \o b) = 1..Len(a \o b)
  BY <1>5
<1>7. \A n \in 1..Len(u) : (a \o b)[n] = a[n]
  BY <1>3, <1>4, <1>5
<1>8. \A n \in 1..Len(r) : (a \o b)[Len(u) + n] = b[n]
  BY <1>3, <1>4, <1>5
<1> QED BY <1>1, <1>2, <1>4, <1>5, <1>6, <1>7, <1>8 DEF a, b

\* Function fs has what becomes of a map as the entries' values are put into it.
PutOneByOne(fs, entries, values, offset) ==
    \A n \in 1..Len(entries) : fs[n] = EntityPut(fs[n - 1], entries[n].id, values[offset + n])

LEMMA ImportPut ==
    ASSUME NEW s, IsDesiredState(s), NEW u, IsSequence(u), NEW r, IsSequence(r),
           NEW values, NEW us, NEW rs, PutOneByOne(us, u, values, 0), PutOneByOne(rs, r, values, Len(u))
    PROVE  PutAll(Sections(s, us[0], rs[0]), Appeared("upstreams", u) \o Appeared("routes", r), values)
              = Sections(s, us[Len(u)], rs[Len(r)])
<1> DEFINE changes == Appeared("upstreams", u) \o Appeared("routes", r)
           start == Sections(s, us[0], rs[0])
           At(n) == IF n <= Len(u) THEN Sections(s, us[n], rs[0])
                    ELSE Sections(s, us[Len(u)], rs[n - Len(u)])
           g == [n \in 0..Len(changes) |-> At(n)]
<1>1. Len(u) \in Nat /\ Len(r) \in Nat
  BY DEF IsSequence
<1>2. /\ Len(changes) = Len(u) + Len(r)
      /\ \A n \in 1..Len(u) : changes[n].path = <<"upstreams", u[n].id>>
      /\ \A n \in 1..Len(r) : changes[Len(u) + n].path = <<"routes", r[n].id>>
  <2>1. /\ Len(changes) = Len(u) + Len(r)
        /\ \A n \in 1..Len(u) : Appears(changes[n], "upstreams", u[n])
        /\ \A n \in 1..Len(r) : Appears(changes[Len(u) + n], "routes", r[n])
    BY AppearedOneByOne
  <2> HIDE DEF changes
  <2> QED BY <2>1 DEF Appears
<1> HIDE DEF changes, At
<1>3. ASSUME NEW n \in 1..Len(u) PROVE At(n) = Put(At(n - 1), changes[n].path, values[n])
  <2>1. At(n) = Sections(s, us[n], rs[0]) /\ At(n - 1) = Sections(s, us[n - 1], rs[0])
    BY <1>1 DEF At
  <2>2. changes[n].path = <<"upstreams", u[n].id>> /\ us[n] = EntityPut(us[n - 1], u[n].id, values[n])
    BY <1>1, <1>2 DEF PutOneByOne
  <2>3. Put(At(n - 1), <<"upstreams", u[n].id>>, values[n])
           = Sections(s, EntityPut(us[n - 1], u[n].id, values[n]), rs[0])
    BY <2>1, UpstreamPut
  <2> QED BY <2>1, <2>2, <2>3
<1>4. ASSUME NEW n \in 1..Len(r)
      PROVE  At(Len(u) + n) = Put(At(Len(u) + n - 1), changes[Len(u) + n].path, values[Len(u) + n])
  <2>1. At(Len(u) + n) = Sections(s, us[Len(u)], rs[n])
    BY <1>1 DEF At
  <2>2. At(Len(u) + n - 1) = Sections(s, us[Len(u)], rs[n - 1])
    <3>1. CASE n = 1
      BY <1>1, <3>1 DEF At
    <3>2. CASE n > 1
      BY <1>1, <3>2 DEF At
    <3> QED BY <3>1, <3>2
  <2>3. /\ changes[Len(u) + n].path = <<"routes", r[n].id>>
        /\ rs[n] = EntityPut(rs[n - 1], r[n].id, values[Len(u) + n])
    BY <1>2 DEF PutOneByOne
  <2>4. Put(At(Len(u) + n - 1), <<"routes", r[n].id>>, values[Len(u) + n])
           = Sections(s, us[Len(u)], EntityPut(rs[n - 1], r[n].id, values[Len(u) + n]))
    BY <2>2, RoutePut
  <2> QED BY <2>1, <2>3, <2>4
<1>5. ASSUME NEW n \in 1..Len(changes) PROVE At(n) = Put(At(n - 1), changes[n].path, values[n])
  <2>1. CASE n <= Len(u)
    <3>1. n \in 1..Len(u)
      BY <1>1, <1>2, <2>1
    <3> QED BY <1>3, <3>1
  <2>2. CASE n > Len(u)
    <3> DEFINE k == n - Len(u)
    <3>1. k \in 1..Len(r) /\ Len(u) + k = n
      BY <1>1, <1>2, <2>2
    <3> HIDE DEF k
    <3>2. At(Len(u) + k) = Put(At(Len(u) + k - 1), changes[Len(u) + k].path, values[Len(u) + k])
      BY <1>4, <3>1
    <3> QED BY <3>1, <3>2
  <2>3. n \in Nat /\ Len(u) \in Nat
    BY <1>1, <1>2
  <2> QED BY <2>1, <2>2, <2>3
<1>6. /\ Len(changes) \in Nat /\ g[0] = start
      /\ g[Len(changes)] = Sections(s, us[Len(u)], rs[Len(r)])
  BY <1>1, <1>2 DEF At
<1>7. g = [n \in 0..Len(changes) |-> IF n = 0 THEN start ELSE Put(g[n - 1], changes[n].path, values[n])]
  <2> SUFFICES ASSUME NEW n \in 0..Len(changes)
               PROVE  At(n) = IF n = 0 THEN start ELSE Put(g[n - 1], changes[n].path, values[n])
    OBVIOUS
  <2>1. CASE n = 0
    BY <1>6, <2>1
  <2>2. CASE n # 0
    <3>1. n \in 1..Len(changes) /\ n - 1 \in 0..Len(changes)
      BY <1>6, <2>2
    <3>2. g[n - 1] = At(n - 1)
      BY <3>1
    <3> HIDE DEF g
    <3> QED BY <1>5, <2>2, <3>1, <3>2
  <2> QED BY <2>1, <2>2
<1> HIDE DEF g, start
<1>8. PutAll(start, changes, values) = g[Len(changes)]
  BY <1>6, <1>7, PutAllIs, SMTT(30)
<1> QED BY <1>6, <1>8 DEF changes, start

-----------------------------------------------------------------------------
(* The changes of each kind of mutation.                                   *)

LEMMA OneReplayed ==
    ASSUME NEW s, NEW c
    PROVE  Replayed(s, <<c>>) = Put(s, c.path, c.after)
<1> DEFINE values == [i \in DOMAIN <<c>> |-> <<c>>[i].after]
<1>1. values[1] = c.after
  OBVIOUS
<1>2. Replayed(s, <<c>>) = PutAll(s, <<c>>, values)
  BY DEF Replayed
<1> HIDE DEF values
<1> QED BY <1>1, <1>2, OnePut

LEMMA OneUndone ==
    ASSUME NEW s, NEW c
    PROVE  Undone(s, <<c>>) = Put(s, c.path, c.before)
<1> DEFINE values == [i \in DOMAIN <<c>> |-> <<c>>[i].before]
<1>1. values[1] = c.before
  OBVIOUS
<1>2. Undone(s, <<c>>) = PutAll(s, <<c>>, values)
  BY DEF Undone
<1> HIDE DEF values
<1> QED BY <1>1, <1>2, OnePut

\* Two maps that differ in one entity at most.
LEMMA EntityReplaced ==
    ASSUME NEW f, NEW g, NEW id, IsFunction(f), IsFunction(g),
           DOMAIN f \ {id} = DOMAIN g \ {id}, \A k \in DOMAIN f \ {id} : f[k] = g[k]
    PROVE  EntityPut(f, id, Get(g, id)) = g
<1>1. CASE id \in DOMAIN g
  <2>1. EntityPut(f, id, Get(g, id)) = With(f, id, g[id])
    BY <1>1 DEF EntityPut, Get
  <2>2. IsFunction(With(f, id, g[id])) /\ DOMAIN With(f, id, g[id]) = DOMAIN g
    BY <1>1 DEF With, IsFunction
  <2>3. \A k \in DOMAIN g : With(f, id, g[id])[k] = g[k]
    BY <1>1 DEF With
  <2> QED BY <2>1, <2>2, <2>3, SameFunction
<1>2. CASE id \notin DOMAIN g
  <2>1. EntityPut(f, id, Get(g, id)) = Without(f, id)
    BY <1>2 DEF EntityPut, Get
  <2>2. IsFunction(Without(f, id)) /\ DOMAIN Without(f, id) = DOMAIN g
    BY <1>2 DEF Without, IsFunction
  <2>3. \A k \in DOMAIN g : Without(f, id)[k] = g[k]
    BY <1>2 DEF Without
  <2> QED BY <2>1, <2>2, <2>3, SameFunction
<1> QED BY <1>1, <1>2

\* What the changes of a mutation are to tell.
Tells(s, m) ==
    Replayed(s, Changes(s, m)) = After(s, m) /\ Undone(After(s, m), Changes(s, m)) = s

LEMMA RouteChangeTells ==
    ASSUME NEW s, IsDesiredState(s), NEW m, IsPayload(m), PreConditions(s, m),
           m.kind \in {"CreateRoute", "UpdateRoute", "DeleteRoute"}
    PROVE  Tells(s, m)
<1> DEFINE new == NewRoutes(s, m)
           c == Change(<<"routes", m.id>>, Get(s.routes, m.id), Get(new, m.id))
<1>1. Changes(s, m) = <<c>>
  BY DEF Changes, EntityChange, PolicyKinds
<1>2. /\ c.path = <<"routes", m.id>>
      /\ c.before = Get(s.routes, m.id) /\ c.after = Get(new, m.id)
  BY DEF Change
<1>3. NewUpstreams(s, m) = s.upstreams
  BY DEF NewUpstreams
<1>4. IsFunction(s.routes) /\ IsFunction(new)
  BY NewRoutesTyped DEF IsDesiredState, IsMap
<1>5. DOMAIN s.routes \ {m.id} = DOMAIN new \ {m.id} /\ \A k \in DOMAIN s.routes \ {m.id} : s.routes[k] = new[k]
  <2>1. \/ \E route : new = With(s.routes, m.id, route)
        \/ new = Without(s.routes, m.id)
    BY DEF NewRoutes, PolicyKinds
  <2> HIDE DEF new
  <2> QED BY <2>1 DEF With, Without
<1> HIDE DEF new, c
<1>6. EntityPut(s.routes, m.id, Get(new, m.id)) = new
  BY <1>4, <1>5, EntityReplaced
<1>7. EntityPut(new, m.id, Get(s.routes, m.id)) = s.routes
  BY <1>4, <1>5, EntityReplaced
<1>8. s = Sections(s, s.upstreams, s.routes)
  BY SameSections
<1>9. After(s, m) = Sections(s, s.upstreams, new)
  BY <1>3, AfterSections DEF new
<1>10. Put(s, <<"routes", m.id>>, Get(new, m.id)) = Sections(s, s.upstreams, new)
  BY <1>6, <1>8, RoutePut
<1>11. Put(Sections(s, s.upstreams, new), <<"routes", m.id>>, Get(s.routes, m.id)) = s
  BY <1>7, <1>8, RoutePut
<1> QED BY <1>1, <1>2, <1>9, <1>10, <1>11, OneReplayed, OneUndone DEF Tells

LEMMA UpstreamChangeTells ==
    ASSUME NEW s, IsDesiredState(s), NEW m, IsPayload(m), PreConditions(s, m),
           m.kind \in {"CreateUpstream", "UpdateUpstream", "DeleteUpstream"}
    PROVE  Tells(s, m)
<1> DEFINE new == NewUpstreams(s, m)
           c == Change(<<"upstreams", m.id>>, Get(s.upstreams, m.id), Get(new, m.id))
<1>1. Changes(s, m) = <<c>>
  BY DEF Changes, EntityChange, PolicyKinds
<1>2. /\ c.path = <<"upstreams", m.id>>
      /\ c.before = Get(s.upstreams, m.id) /\ c.after = Get(new, m.id)
  BY DEF Change
<1>3. NewRoutes(s, m) = s.routes
  BY DEF NewRoutes, PolicyKinds
<1>4. IsFunction(s.upstreams) /\ IsFunction(new)
  BY NewUpstreamsTyped DEF IsDesiredState, IsMap
<1>5. /\ DOMAIN s.upstreams \ {m.id} = DOMAIN new \ {m.id}
      /\ \A k \in DOMAIN s.upstreams \ {m.id} : s.upstreams[k] = new[k]
  <2>1. \/ \E upstream : new = With(s.upstreams, m.id, upstream)
        \/ new = Without(s.upstreams, m.id)
    BY DEF NewUpstreams
  <2> HIDE DEF new
  <2> QED BY <2>1 DEF With, Without
<1> HIDE DEF new, c
<1>6. EntityPut(s.upstreams, m.id, Get(new, m.id)) = new
  BY <1>4, <1>5, EntityReplaced
<1>7. EntityPut(new, m.id, Get(s.upstreams, m.id)) = s.upstreams
  BY <1>4, <1>5, EntityReplaced
<1>8. s = Sections(s, s.upstreams, s.routes)
  BY SameSections
<1>9. After(s, m) = Sections(s, new, s.routes)
  BY <1>3, AfterSections DEF new
<1>10. Put(s, <<"upstreams", m.id>>, Get(new, m.id)) = Sections(s, new, s.routes)
  BY <1>6, <1>8, UpstreamPut
<1>11. Put(Sections(s, new, s.routes), <<"upstreams", m.id>>, Get(s.upstreams, m.id)) = s
  BY <1>7, <1>8, UpstreamPut
<1> QED BY <1>1, <1>2, <1>9, <1>10, <1>11, OneReplayed, OneUndone DEF Tells

LEMMA SectionPut ==
    ASSUME NEW s, NEW where, NEW value
    PROVE  Put(s, <<where>>, <<value>>) = [s EXCEPT ![where] = value]
BY DEF Put

LEMMA SectionChangeTells ==
    ASSUME NEW s, IsDesiredState(s), NEW m,
           NEW where \in {"global", "tls"}, m.kind = IF where = "global" THEN "SetGlobalConfig" ELSE "SetTlsConfig"
    PROVE  Tells(s, m)
<1> DEFINE t == After(s, m)
           c == Change(<<where>>, <<s[where]>>, <<t[where]>>)
<1>1. NewRoutes(s, m) = s.routes /\ NewUpstreams(s, m) = s.upstreams
  BY DEF NewRoutes, NewUpstreams, PolicyKinds
<1>2. /\ IsFunction(t) /\ DOMAIN t = DOMAIN s
      /\ \A k \in DOMAIN s \ {where} : t[k] = s[k]
  BY <1>1, AfterFields DEF IsDesiredState
<1>3. IsFunction(s) /\ where \in DOMAIN s
  BY DEF IsDesiredState
<1>4. Changes(s, m) = IF s[where] = t[where] THEN <<>> ELSE <<c>>
  <2>1. NewState(s, m)[where] = t[where]
    <3>1. NewState(s, m)["global"] = t["global"] /\ NewState(s, m)["tls"] = t["tls"]
      BY NewStateFields, AfterFields
    <3> HIDE DEF t
    <3> QED BY <3>1
  <2>2. Changes(s, m) = SectionChange(where, s[where], NewState(s, m)[where])
    BY DEF Changes, PolicyKinds
  <2> QED BY <2>1, <2>2 DEF SectionChange
<1>5. c.path = <<where>> /\ c.before = <<s[where]>> /\ c.after = <<t[where]>>
  BY DEF Change
<1> HIDE DEF t, c
<1>6. CASE s[where] = t[where]
  <2>1. t = s
    BY <1>2, <1>3, <1>6, SameFunction
  <2>2. Changes(s, m) = <<>>
    BY <1>4, <1>6
  <2>3. Replayed(s, <<>>) = s /\ Undone(s, <<>>) = s
    BY NothingPut DEF Replayed, Undone
  <2> QED BY <2>1, <2>2, <2>3 DEF Tells, t
<1>7. CASE s[where] # t[where]
  <2>1. Changes(s, m) = <<c>>
    BY <1>4, <1>7
  <2>2. [s EXCEPT ![where] = t[where]] = t
    BY <1>2, <1>3 DEF IsFunction
  <2>3. [t EXCEPT ![where] = s[where]] = s
    BY <1>2, <1>3 DEF IsFunction
  <2>4. Put(s, <<where>>, <<t[where]>>) = t /\ Put(t, <<where>>, <<s[where]>>) = s
    BY <2>2, <2>3, SectionPut
  <2> QED BY <1>5, <2>1, <2>4, OneReplayed, OneUndone DEF Tells, t
<1> QED BY <1>6, <1>7

\* The policy of a route, put into the state.
LEMMA PolicyPut ==
    ASSUME NEW s, IsDesiredState(s), NEW id \in DOMAIN s.routes, NEW p
    PROVE  Put(s, <<"routes", id, "policy">>, Some(p))
              = Sections(s, s.upstreams, With(s.routes, id, [s.routes[id] EXCEPT !.policy = p]))
<1> DEFINE r == s.routes[id]
           new == [s EXCEPT !.routes[id].policy = p]
<1>1. IsFunction(s) /\ IsFunction(s.routes) /\ {"routes", "upstreams"} \subseteq DOMAIN s
  BY DEF IsDesiredState, IsMap
<1>2. (IF Some(p) = <<>> THEN None ELSE Some(p)[1]) = p
  BY DEF Some
<1>3. Put(s, <<"routes", id, "policy">>, Some(p)) = new
  BY <1>2 DEF Put
<1>4. With(s.routes, id, [r EXCEPT !.policy = p]) = [s.routes EXCEPT ![id] = [r EXCEPT !.policy = p]]
  BY <1>1 DEF With, IsFunction
<1>5. /\ IsFunction(new) /\ DOMAIN new = DOMAIN s
      /\ new.routes = [s.routes EXCEPT ![id] = [r EXCEPT !.policy = p]]
      /\ \A k \in DOMAIN s \ {"routes"} : new[k] = s[k]
  BY <1>1 DEF IsFunction
<1> HIDE DEF new, r
<1>6. new = Sections(s, s.upstreams, With(s.routes, id, [r EXCEPT !.policy = p]))
  BY <1>1, <1>4, <1>5, IsSections
<1> QED BY <1>3, <1>6 DEF r

LEMMA SectionsTwice ==
    ASSUME NEW s, IsDesiredState(s), NEW u, NEW r, NEW t, t = Sections(s, u, r), IsDesiredState(t), NEW v, NEW q
    PROVE  Sections(t, v, q) = Sections(s, v, q)
<1>1. /\ IsFunction(Sections(t, v, q)) /\ DOMAIN Sections(t, v, q) = DOMAIN t
      /\ \A k \in DOMAIN t : Sections(t, v, q)[k] = CASE k = "upstreams" -> v [] k = "routes" -> q [] OTHER -> t[k]
  BY SectionsFields
<1>2. /\ DOMAIN t = DOMAIN s
      /\ \A k \in DOMAIN s : t[k] = CASE k = "upstreams" -> u [] k = "routes" -> r [] OTHER -> s[k]
  BY SectionsFields
<1>3. {"upstreams", "routes"} \subseteq DOMAIN s
  BY DEF IsDesiredState
<1> DEFINE new == Sections(t, v, q)
<1>4. /\ IsFunction(new) /\ DOMAIN new = DOMAIN s /\ new.upstreams = v /\ new.routes = q
      /\ \A k \in DOMAIN s \ {"upstreams", "routes"} : new[k] = s[k]
  BY <1>1, <1>2, <1>3
<1> HIDE DEF new
<1>5. new = Sections(s, v, q)
  BY <1>4, IsSections
<1> QED BY <1>5 DEF new

\* What a policy mutation makes of its route.
LEMMA ChangedPolicy ==
    ASSUME NEW s, IsDesiredState(s), NEW m, PreConditions(s, m), m.kind \in PolicyKinds
    PROVE  /\ m.id \in DOMAIN s.routes
           /\ \E p : ChangedRoute(s, m) = [s.routes[m.id] EXCEPT !.policy = p]
BY DEF PolicyKinds, PreConditions, Attached, ChangedRoute

LEMMA AfterTyped ==
    ASSUME NEW s, IsDesiredState(s), NEW m, IsPayload(m), PreConditions(s, m)
    PROVE  IsDesiredState(After(s, m))
<1> DEFINE new == NewState(s, m)
           t == After(s, m)
<1>1. IsDesiredState(new)
  BY NewStateTyped
<1>2. /\ t.routes = new.routes /\ t.upstreams = new.upstreams /\ t.presets = new.presets
      /\ t.global = new.global /\ t.tls = new.tls
  <2>1. t.routes = new.routes /\ t.upstreams = new.upstreams
    <3>1. t.routes = NewRoutes(s, m) /\ t.upstreams = NewUpstreams(s, m)
      BY AfterFields
    <3>2. new.routes = NewRoutes(s, m) /\ new.upstreams = NewUpstreams(s, m)
      BY NewStateFields
    <3> HIDE DEF new, t
    <3> QED BY <3>1, <3>2
  <2>2. t.presets = new.presets /\ t.global = new.global /\ t.tls = new.tls
    BY AfterFields, NewStateFields
  <2> QED BY <2>1, <2>2
<1>3. IsFunction(t) /\ DOMAIN t = DOMAIN s /\ t.version = s.version
  BY AfterFields
<1> HIDE DEF new, t
<1>4. IsDesiredState(t)
  BY <1>1, <1>2, <1>3 DEF IsDesiredState
<1> QED BY <1>4 DEF t

LEMMA PolicyChangeTells ==
    ASSUME NEW s, IsDesiredState(s), NEW m, IsPayload(m), PreConditions(s, m), m.kind \in PolicyKinds
    PROVE  Tells(s, m)
<1> DEFINE id == m.id
           r == s.routes[id]
           t == After(s, m)
<1>1. id \in DOMAIN s.routes /\ IsRecord(r, RouteTypes)
  BY ChangedPolicy DEF IsDesiredState, IsMap
<1>2. IsFunction(r) /\ "policy" \in DOMAIN r /\ IsFunction(s.routes)
  BY <1>1 DEF IsRecord, RouteTypes, IsDesiredState, IsMap
<1>3. PICK p : ChangedRoute(s, m) = [r EXCEPT !.policy = p]
  BY ChangedPolicy
<1> DEFINE new == With(s.routes, id, [r EXCEPT !.policy = p])
           c == Change(<<"routes", id, "policy">>, Some(r.policy), Some(NewRoutes(s, m)[id].policy))
<1>4. NewRoutes(s, m) = new /\ NewUpstreams(s, m) = s.upstreams
  BY <1>3 DEF NewRoutes, NewUpstreams, PolicyKinds
<1>5. new[id] = [r EXCEPT !.policy = p] /\ [r EXCEPT !.policy = p].policy = p
  BY <1>2 DEF With
<1>6. Changes(s, m) = <<c>>
  BY DEF Changes, PolicyKinds
<1>7. /\ c.path = <<"routes", id, "policy">>
      /\ c.before = Some(r.policy) /\ c.after = Some(NewRoutes(s, m)[id].policy)
  BY DEF Change
<1>8. NewRoutes(s, m)[id].policy = p
  BY <1>4, <1>5
<1>9. t = Sections(s, s.upstreams, new)
  BY <1>4, AfterSections DEF PolicyKinds
<1>10. Put(s, <<"routes", id, "policy">>, Some(p)) = t
  BY <1>1, <1>9, PolicyPut
<1>11. IsDesiredState(t) /\ t.routes = new /\ t.upstreams = s.upstreams
  BY <1>4, AfterTyped, AfterFields
<1>12. With(new, id, [new[id] EXCEPT !.policy = r.policy]) = s.routes
  <2>1. [[r EXCEPT !.policy = p] EXCEPT !.policy = r.policy] = r
    BY <1>2 DEF IsFunction
  <2>2. [new[id] EXCEPT !.policy = r.policy] = r
    BY <1>5, <2>1
  <2>3. DOMAIN new = DOMAIN s.routes /\ \A k \in DOMAIN s.routes \ {id} : new[k] = s.routes[k]
    BY <1>1 DEF With
  <2> HIDE DEF new
  <2>4. IsFunction(With(new, id, r)) /\ DOMAIN With(new, id, r) = DOMAIN s.routes
    BY <1>1, <2>3 DEF With, IsFunction
  <2>5. \A k \in DOMAIN s.routes : With(new, id, r)[k] = s.routes[k]
    BY <1>1, <2>3 DEF With
  <2>6. With(new, id, r) = s.routes
    BY <1>2, <2>4, <2>5, SameFunction
  <2> QED BY <2>2, <2>6
<1> HIDE DEF t, new, c, id, r
<1>13. Put(t, <<"routes", id, "policy">>, Some(r.policy)) = Sections(t, s.upstreams, s.routes)
  <2>1. id \in DOMAIN t.routes
    BY <1>1, <1>11 DEF new, With
  <2>2. Put(t, <<"routes", id, "policy">>, Some(r.policy))
           = Sections(t, t.upstreams, With(t.routes, id, [t.routes[id] EXCEPT !.policy = r.policy]))
    BY <1>11, <2>1, PolicyPut
  <2> QED BY <1>11, <1>12, <2>2
<1>14. Sections(t, s.upstreams, s.routes) = s
  BY <1>9, <1>11, SectionsTwice, SameSections
<1> QED BY <1>6, <1>7, <1>8, <1>10, <1>13, <1>14, OneReplayed, OneUndone DEF Tells, t

-----------------------------------------------------------------------------

\* The ids of the first entries of a list.
FirstIds(entries, n) == {entries[i].id : i \in 1..n}

Distinct(entries) == \A i, j \in DOMAIN entries : entries[i].id = entries[j].id => i = j

LEMMA NextId ==
    ASSUME NEW entries, IsSequence(entries), NEW n \in 1..Len(entries)
    PROVE  FirstIds(entries, n) = FirstIds(entries, n - 1) \cup {entries[n].id}
BY DEF FirstIds, IsSequence

LEMMA AllIds ==
    ASSUME NEW entries, IsSequence(entries)
    PROVE  FirstIds(entries, 0) = {} /\ FirstIds(entries, Len(entries)) = Ids(entries)
BY DEF FirstIds, Ids, IsSequence

\* A map with the first n entries of a list inserted, and one without them.
InsertedTo(f, entries, n) ==
    [k \in DOMAIN f \cup FirstIds(entries, n) |->
        IF k \in FirstIds(entries, n) THEN BodyOf(entries, k) ELSE f[k]]

RemovedTo(f, entries, n) == [k \in DOMAIN f \ FirstIds(entries, n) |-> f[k]]

LEMMA InsertedNext ==
    ASSUME NEW f, NEW entries, IsSequence(entries), Distinct(entries), NEW n \in 1..Len(entries)
    PROVE  InsertedTo(f, entries, n)
              = EntityPut(InsertedTo(f, entries, n - 1), entries[n].id, <<entries[n].body>>)
<1> DEFINE old == InsertedTo(f, entries, n - 1)
           new == InsertedTo(f, entries, n)
           id == entries[n].id
<1>1. EntityPut(old, id, <<entries[n].body>>) = With(old, id, entries[n].body)
  BY DEF EntityPut
<1>2. BodyOf(entries, id) = entries[n].body
  BY DEF BodyOf, Distinct, IsSequence
<1>3. FirstIds(entries, n) = FirstIds(entries, n - 1) \cup {id}
  BY NextId
<1>4. IsFunction(new) /\ DOMAIN new = DOMAIN f \cup FirstIds(entries, n)
  BY DEF InsertedTo, IsFunction
<1>5. IsFunction(With(old, id, entries[n].body)) /\ DOMAIN With(old, id, entries[n].body) = DOMAIN new
  BY <1>3 DEF With, InsertedTo, IsFunction
<1>6. \A k \in DOMAIN new : With(old, id, entries[n].body)[k] = new[k]
  BY <1>2, <1>3 DEF With, InsertedTo
<1> QED BY <1>1, <1>4, <1>5, <1>6, SameFunction

LEMMA RemovedNext ==
    ASSUME NEW f, NEW entries, IsSequence(entries), NEW n \in 1..Len(entries)
    PROVE  RemovedTo(f, entries, n) = EntityPut(RemovedTo(f, entries, n - 1), entries[n].id, <<>>)
<1>1. FirstIds(entries, n) = FirstIds(entries, n - 1) \cup {entries[n].id}
  BY NextId
<1> QED BY <1>1 DEF EntityPut, Without, RemovedTo

LEMMA InsertedAll ==
    ASSUME NEW f, IsFunction(f), NEW entries, IsSequence(entries)
    PROVE  InsertedTo(f, entries, 0) = f /\ InsertedTo(f, entries, Len(entries)) = Inserted(f, entries)
BY AllIds DEF InsertedTo, Inserted, IsFunction

LEMMA RemovedAll ==
    ASSUME NEW f, IsFunction(f), NEW entries, IsSequence(entries), Ids(entries) \cap DOMAIN f = {}
    PROVE  /\ RemovedTo(Inserted(f, entries), entries, 0) = Inserted(f, entries)
           /\ RemovedTo(Inserted(f, entries), entries, Len(entries)) = f
BY AllIds DEF RemovedTo, Inserted, IsFunction

LEMMA ImportTells ==
    ASSUME NEW s, IsDesiredState(s), NEW m, IsPayload(m), PreConditions(s, m),
           m.kind = "ImportFromCaddyfile"
    PROVE  Tells(s, m)
<1> DEFINE u == m.upstreams
           r == m.routes
           changes == Appeared("upstreams", u) \o Appeared("routes", r)
           afters == [i \in DOMAIN changes |-> changes[i].after]
           befores == [i \in DOMAIN changes |-> changes[i].before]
           newUpstreams == Inserted(s.upstreams, u)
           newRoutes == Inserted(s.routes, r)
<1>1. /\ IsSequence(u) /\ Distinct(u) /\ Ids(u) \cap DOMAIN s.upstreams = {} /\ IsFunction(s.upstreams)
      /\ IsSequence(r) /\ Distinct(r) /\ Ids(r) \cap DOMAIN s.routes = {} /\ IsFunction(s.routes)
  BY DEF IsPayload, IsList, IsSequence, Distinct, PreConditions, ImportValid, Fresh, IsDesiredState, IsMap
<1>2. Changes(s, m) = changes
  BY DEF Changes, PolicyKinds
<1>3. After(s, m) = Sections(s, newUpstreams, newRoutes)
  <2>1. NewUpstreams(s, m) = newUpstreams /\ NewRoutes(s, m) = newRoutes
    BY DEF NewUpstreams, NewRoutes, PolicyKinds
  <2> QED BY <2>1, AfterSections
<1>4. /\ Len(changes) = Len(u) + Len(r) /\ DOMAIN changes = 1..Len(changes)
      /\ \A n \in 1..Len(u) : Appears(changes[n], "upstreams", u[n])
      /\ \A n \in 1..Len(r) : Appears(changes[Len(u) + n], "routes", r[n])
  BY <1>1, AppearedOneByOne
<1>5. Len(u) \in Nat /\ Len(r) \in Nat
  BY <1>1 DEF IsSequence
<1>6. Replayed(s, changes) = PutAll(s, changes, afters) /\ Undone(After(s, m), changes) = PutAll(After(s, m), changes, befores)
  BY DEF Replayed, Undone
<1> HIDE DEF changes
<1> HIDE DEF u, r
<1>7. /\ \A n \in 1..Len(u) : afters[n] = <<u[n].body>> /\ befores[n] = <<>>
      /\ \A n \in 1..Len(r) : afters[Len(u) + n] = <<r[n].body>> /\ befores[Len(u) + n] = <<>>
  <2>1. ASSUME NEW n \in 1..Len(u) PROVE afters[n] = <<u[n].body>> /\ befores[n] = <<>>
    <3>1. n \in DOMAIN changes
      BY <1>4, <1>5
    <3>2. afters[n] = changes[n].after /\ befores[n] = changes[n].before
      BY <3>1
    <3> HIDE DEF afters, befores
    <3> QED BY <1>4, <3>2 DEF Appears
  <2>2. ASSUME NEW n \in 1..Len(r)
        PROVE  afters[Len(u) + n] = <<r[n].body>> /\ befores[Len(u) + n] = <<>>
    <3>1. Len(u) + n \in DOMAIN changes
      BY <1>4, <1>5
    <3>2. afters[Len(u) + n] = changes[Len(u) + n].after /\ befores[Len(u) + n] = changes[Len(u) + n].before
      BY <3>1
    <3> HIDE DEF afters, befores
    <3> QED BY <1>4, <3>2 DEF Appears
  <2> HIDE DEF afters, befores
  <2> QED BY <2>1, <2>2
<1> HIDE DEF afters, befores
<1>8. PutAll(s, changes, afters) = Sections(s, newUpstreams, newRoutes)
  <2> DEFINE us == [n \in 0..Len(u) |-> InsertedTo(s.upstreams, u, n)]
             rs == [n \in 0..Len(r) |-> InsertedTo(s.routes, r, n)]
  <2>1. PutOneByOne(us, u, afters, 0)
    <3> SUFFICES ASSUME NEW n \in 1..Len(u)
                 PROVE  us[n] = EntityPut(us[n - 1], u[n].id, afters[0 + n])
      BY DEF PutOneByOne
    <3>1. us[n] = InsertedTo(s.upstreams, u, n) /\ us[n - 1] = InsertedTo(s.upstreams, u, n - 1)
      BY <1>5
    <3>2. afters[0 + n] = <<u[n].body>>
      BY <1>5, <1>7
    <3> HIDE DEF us
    <3> QED BY <1>1, <3>1, <3>2, InsertedNext
  <2>2. PutOneByOne(rs, r, afters, Len(u))
    <3> SUFFICES ASSUME NEW n \in 1..Len(r)
                 PROVE  rs[n] = EntityPut(rs[n - 1], r[n].id, afters[Len(u) + n])
      BY DEF PutOneByOne
    <3>1. rs[n] = InsertedTo(s.routes, r, n) /\ rs[n - 1] = InsertedTo(s.routes, r, n - 1)
      BY <1>5
    <3>2. afters[Len(u) + n] = <<r[n].body>>
      BY <1>5, <1>7
    <3> HIDE DEF rs
    <3> QED BY <1>1, <3>1, <3>2, InsertedNext
  <2>3. /\ us[0] = s.upstreams /\ us[Len(u)] = newUpstreams
        /\ rs[0] = s.routes /\ rs[Len(r)] = newRoutes
    BY <1>1, <1>5, InsertedAll
  <2> HIDE DEF us, rs
  <2>4. PutAll(Sections(s, us[0], rs[0]), changes, afters) = Sections(s, us[Len(u)], rs[Len(r)])
    BY <1>1, <2>1, <2>2, ImportPut DEF changes
  <2> HIDE DEF newUpstreams, newRoutes
  <2> QED BY <2>3, <2>4, SameSections
<1>9. PutAll(Sections(s, newUpstreams, newRoutes), changes, befores) = s
  <2> DEFINE us == [n \in 0..Len(u) |-> RemovedTo(newUpstreams, u, n)]
             rs == [n \in 0..Len(r) |-> RemovedTo(newRoutes, r, n)]
  <2>1. PutOneByOne(us, u, befores, 0)
    <3> SUFFICES ASSUME NEW n \in 1..Len(u)
                 PROVE  us[n] = EntityPut(us[n - 1], u[n].id, befores[0 + n])
      BY DEF PutOneByOne
    <3>1. us[n] = RemovedTo(newUpstreams, u, n) /\ us[n - 1] = RemovedTo(newUpstreams, u, n - 1)
      BY <1>5
    <3>2. befores[0 + n] = <<>>
      BY <1>5, <1>7
    <3> HIDE DEF us
    <3> QED BY <1>1, <3>1, <3>2, RemovedNext
  <2>2. PutOneByOne(rs, r, befores, Len(u))
    <3> SUFFICES ASSUME NEW n \in 1..Len(r)
                 PROVE  rs[n] = EntityPut(rs[n - 1], r[n].id, befores[Len(u) + n])
      BY DEF PutOneByOne
    <3>1. rs[n] = RemovedTo(newRoutes, r, n) /\ rs[n - 1] = RemovedTo(newRoutes, r, n - 1)
      BY <1>5
    <3>2. befores[Len(u) + n] = <<>>
      BY <1>5, <1>7
    <3> HIDE DEF rs
    <3> QED BY <1>1, <3>1, <3>2, RemovedNext
  <2>3. /\ us[0] = newUpstreams /\ us[Len(u)] = s.upstreams
        /\ rs[0] = newRoutes /\ rs[Len(r)] = s.routes
    BY <1>1, <1>5, RemovedAll
  <2> HIDE DEF us, rs
  <2>4. PutAll(Sections(s, us[0], rs[0]), changes, befores) = Sections(s, us[Len(u)], rs[Len(r)])
    BY <1>1, <2>1, <2>2, ImportPut DEF changes
  <2> HIDE DEF newUpstreams, newRoutes
  <2> QED BY <2>3, <2>4, SameSections
<1> QED BY <1>2, <1>3, <1>6, <1>8, <1>9 DEF Tells

-----------------------------------------------------------------------------

LEMMA EveryMutationTells ==
    ASSUME NEW s, IsDesiredState(s), NEW m, IsPayload(m), PreConditions(s, m)
    PROVE  Tells(s, m)
<1>1. m.kind \in {"CreateRoute", "UpdateRoute", "DeleteRoute", "CreateUpstream", "UpdateUpstream",
                  "DeleteUpstream", "SetGlobalConfig", "SetTlsConfig", "ImportFromCaddyfile"} \cup PolicyKinds
  BY DEF PreConditions, PolicyKinds
<1>2. m.kind = "SetGlobalConfig" => Tells(s, m)
  BY SectionChangeTells
<1>3. m.kind = "SetTlsConfig" => Tells(s, m)
  BY SectionChangeTells
<1> QED BY <1>1, <1>2, <1>3, RouteChangeTells, UpstreamChangeTells, PolicyChangeTells, ImportTells

(* The diff that apply_mutation reports, and the audit row keeps, is the    *)
(* whole change: replayed on the old state it gives the new one, undone on  *)
(* the new one the old (apply.rs:84-458).                                   *)
THEOREM DiffsAreWhole == Spec => []ChangesTellAll
<1>1. TypeOK => ChangesTellAll
  <2> SUFFICES ASSUME TypeOK, NEW m \in Mutation, Accepted(m)
               PROVE  LET new == [NewState(state, m) EXCEPT !.version = state.version]
                      IN /\ Replayed(state, Changes(state, m)) = new
                         /\ Undone(new, Changes(state, m)) = state
    BY DEF ChangesTellAll
  <2>1. IsDesiredState(state) /\ IsPayload(m) /\ PreConditions(state, m)
    BY MutationsAssumption DEF TypeOK, Accepted
  <2>2. Tells(state, m)
    BY <2>1, EveryMutationTells
  <2> QED BY <2>2 DEF Tells, After
<1> QED BY <1>1, TypeCorrect, PTL

-----------------------------------------------------------------------------
(* That a change of the configuration shows as a drift.  A document is put *)
(* together of smaller ones: what is true of the leaves of the parts, and  *)
(* of where they differ, is carried up to the whole configuration.         *)

\* The keys of a configuration and of a state's own document.
Keys == {"@id", "apps", "http", "servers", "trilithon", "listen", "routes", "match", "handle",
         "host", "path", "handler", "status_code", "location", "upstreams", "headers", "policy",
         "dial", "request", "response", "tls", "automation", "on_demand", "ask", "policies", "email",
         "version", "global", "hostnames", "matchers", "redirects", "policy_attachment", "enabled",
         "paths", "remote", "to", "status", "destination", "probe", "weight", "on_demand_enabled",
         "on_demand_ask_url", "default_issuer", "admin_listen", "default_sni", "log_level"}

Segment ==
    Keys \cup {Positions[i] : i \in DOMAIN Positions} \cup RouteId \cup UpstreamId \cup BodySegment

LEMMA KeysAreSegments == \A k \in Keys : k \in Segment
BY DEF Segment

\* Every number is a position and spelt in its own way.
PositionsAreNumerals ==
    /\ DOMAIN Positions = Nat \ {0}
    /\ \A i, j \in Nat \ {0} : Positions[i] = Positions[j] => i = j

Path == Seq(Segment)

LEMMA OneLong ==
    ASSUME NEW S, NEW k \in S
    PROVE  <<k>> \in Seq(S)
OBVIOUS

LEMMA PathBelow ==
    ASSUME NEW k \in Segment, NEW q \in Path
    PROVE  /\ <<k>> \o q \in Path /\ <<k>> \o q # Root
           /\ (<<k>> \o q)[1] = k /\ Tail(<<k>> \o q) = q
<1> DEFINE one == <<k>>
           p == one \o q
<1>1. one \in Seq(Segment) /\ Len(one) = 1 /\ one[1] = k
  <2>1. one \in Seq(Segment)
    BY OneLong
  <2>2. Len(one) = 1
    OBVIOUS
  <2>3. one[1] = k
    OBVIOUS
  <2> QED BY <2>1, <2>2, <2>3
<1> HIDE DEF one
<1>2. /\ p \in Seq(Segment) /\ Len(p) = Len(one) + Len(q)
      /\ \A i \in 1..Len(one) + Len(q) : p[i] = IF i <= Len(one) THEN one[i] ELSE q[i - Len(one)]
  <2>1. q \in Seq(Segment)
    BY DEF Path
  <2> QED BY <1>1, <2>1, ConcatProperties
<1>3. Len(q) \in Nat
  BY DEF Path
<1> HIDE DEF p
<1>4. p[1] = k /\ Len(p) = Len(q) + 1
  <2>1. 1 \in 1..Len(one) + Len(q) /\ 1 <= Len(one)
    BY <1>1, <1>3
  <2>2. p[1] = k
    BY <1>1, <1>2, <2>1
  <2>3. Len(p) = Len(q) + 1
    BY <1>1, <1>2, <1>3
  <2> QED BY <2>2, <2>3
<1>8. ASSUME NEW i \in 1..Len(q) PROVE p[i + 1] = q[i]
  <2>1. /\ i + 1 \in 1..Len(one) + Len(q) /\ ~(i + 1 <= Len(one)) /\ i + 1 - Len(one) = i
    BY <1>1, <1>3
  <2> QED BY <1>2, <2>1
<1> HIDE DEF p
<1>5. p # <<>>
  BY <1>1, <1>2, <1>3
<1>6. Tail(p) \in Seq(Segment) /\ Len(Tail(p)) = Len(q) /\ \A i \in 1..Len(q) : Tail(p)[i] = q[i]
  BY <1>2, <1>3, <1>4, <1>5, <1>8, HeadTailProperties
<1>7. Tail(p) = q
  BY <1>6, SeqEqual DEF Path
<1> QED BY <1>2, <1>4, <1>5, <1>7 DEF p, one, Path, Root

LEMMA BelowPath == \A k \in Segment, q \in Path : <<k>> \o q \in Path
BY PathBelow

LEMMA BelowFirst == \A k \in Segment, q \in Path : (<<k>> \o q)[1] = k
BY PathBelow

LEMMA BelowRest == \A k \in Segment, q \in Path : Tail(<<k>> \o q) = q
BY PathBelow

LEMMA BelowRoot == \A k \in Segment, q \in Path : <<k>> \o q # Root
BY PathBelow

\* A document, and what it is made of: under each of some segments, a document.
IsDoc(d) == IsFunction(d) /\ DOMAIN d \subseteq Path

Members(m) == IsFunction(m) /\ DOMAIN m \subseteq Segment /\ \A k \in DOMAIN m : IsDoc(m[k])

Composed(d, m) ==
    /\ IsDoc(d) /\ Members(m)
    /\ Root \in DOMAIN d /\ d[Root].kind # "scalar"
    /\ \A k \in DOMAIN m, q \in Path : <<k>> \o q \in DOMAIN d <=> q \in DOMAIN m[k]
    /\ \A k \in DOMAIN m : \A q \in DOMAIN m[k] : d[<<k>> \o q] = m[k][q]
    /\ \A p \in DOMAIN d \ {Root} : \E k \in DOMAIN m : \E q \in DOMAIN m[k] : p = <<k>> \o q

\* The paths of a document made of m.
PathsOver(m) == {Root} \cup UNION {{<<k>> \o q : q \in DOMAIN m[k]} : k \in DOMAIN m}

Beneath(k, paths) == {<<k>> \o q : q \in paths}

LEMMA OverBeneath ==
    ASSUME NEW m
    PROVE  PathsOver(m) = {Root} \cup UNION {Beneath(k, DOMAIN m[k]) : k \in DOMAIN m}
BY DEF PathsOver, Beneath

LEMMA PathUp ==
    ASSUME NEW m, NEW k \in DOMAIN m, NEW q \in DOMAIN m[k]
    PROVE  <<k>> \o q \in PathsOver(m)
<1>1. <<k>> \o q \in Beneath(k, DOMAIN m[k])
  BY DEF Beneath
<1>2. Beneath(k, DOMAIN m[k]) \in {Beneath(l, DOMAIN m[l]) : l \in DOMAIN m}
  OBVIOUS
<1> QED BY <1>1, <1>2, OverBeneath

LEMMA PathDown ==
    ASSUME NEW m, NEW p \in PathsOver(m), p # Root
    PROVE  \E k \in DOMAIN m : \E q \in DOMAIN m[k] : p = <<k>> \o q
<1>1. PICK paths \in {Beneath(k, DOMAIN m[k]) : k \in DOMAIN m} : p \in paths
  BY OverBeneath
<1>2. PICK k \in DOMAIN m : paths = Beneath(k, DOMAIN m[k])
  BY <1>1
<1>3. \E q \in DOMAIN m[k] : p = <<k>> \o q
  BY <1>1, <1>2 DEF Beneath
<1> QED BY <1>3

LEMMA RootOver ==
    ASSUME NEW m PROVE Root \in PathsOver(m)
BY DEF PathsOver

LEMMA Composes ==
    ASSUME NEW m, Members(m), NEW node, node.kind # "scalar", NEW d,
           d = [p \in PathsOver(m) |-> IF p = Root THEN node ELSE m[p[1]][Tail(p)]]
    PROVE  Composed(d, m)
<1>3. \A k \in DOMAIN m : k \in Segment /\ DOMAIN m[k] \subseteq Path
  BY DEF Members, IsDoc
<1>4. Root \in Path
  BY DEF Root, Path
<1>1. IsFunction(d) /\ DOMAIN d = PathsOver(m)
  BY DEF IsFunction
<1>2. \A p \in PathsOver(m) : d[p] = IF p = Root THEN node ELSE m[p[1]][Tail(p)]
  OBVIOUS
<1>7. ASSUME NEW p \in DOMAIN d, p # Root
      PROVE  \E k \in DOMAIN m : \E q \in DOMAIN m[k] : p = <<k>> \o q
  <2>1. p \in PathsOver(m)
    BY <1>1
  <2> QED BY <1>7, <2>1, PathDown
<1>5. IsDoc(d)
  <2>1. ASSUME NEW p \in DOMAIN d, p # Root PROVE p \in Path
    <3>1. PICK k \in DOMAIN m : \E q \in DOMAIN m[k] : p = <<k>> \o q
      BY <1>7, <2>1
    <3>2. PICK q \in DOMAIN m[k] : p = <<k>> \o q
      BY <3>1
    <3>3. k \in Segment /\ q \in Path
      BY <1>3
    <3> QED BY <3>2, <3>3, BelowPath
  <2> QED BY <1>1, <1>4, <2>1 DEF IsDoc
<1>6. Root \in DOMAIN d /\ d[Root] = node
  BY <1>1, <1>2, RootOver
<1>8. ASSUME NEW k \in DOMAIN m, NEW q \in Path
      PROVE  <<k>> \o q \in DOMAIN d <=> q \in DOMAIN m[k]
  <2>1. ASSUME <<k>> \o q \in DOMAIN d PROVE q \in DOMAIN m[k]
    <3>1. PICK l \in DOMAIN m : \E r \in DOMAIN m[l] : <<k>> \o q = <<l>> \o r
      BY <1>3, <1>7, <2>1, BelowRoot
    <3>2. PICK r \in DOMAIN m[l] : <<k>> \o q = <<l>> \o r
      BY <3>1
    <3>4. q \in Path /\ r \in Path /\ k \in Segment /\ l \in Segment
      BY <1>3
    <3>5. k = l
      BY <3>2, <3>4, BelowFirst
    <3>6. q = r
      BY <3>2, <3>4, BelowRest
    <3> QED BY <3>5, <3>6
  <2>2. ASSUME q \in DOMAIN m[k] PROVE <<k>> \o q \in DOMAIN d
    BY <1>1, <2>2, PathUp
  <2> QED BY <2>1, <2>2
<1>9. ASSUME NEW k \in DOMAIN m, NEW q \in DOMAIN m[k] PROVE d[<<k>> \o q] = m[k][q]
  <2>1. q \in Path /\ k \in Segment
    BY <1>3
  <2> DEFINE p == <<k>> \o q
  <2>2. p \in DOMAIN d /\ p # Root /\ p[1] = k /\ Tail(p) = q
    BY <1>8, <2>1, PathBelow
  <2> HIDE DEF p
  <2>3. d[p] = m[p[1]][Tail(p)]
    BY <1>1, <1>2, <2>2
  <2> QED BY <2>2, <2>3 DEF p
<1> QED BY <1>5, <1>6, <1>7, <1>8, <1>9 DEF Composed

LEMMA ObjectComposed ==
    ASSUME NEW m, Members(m)
    PROVE  Composed(ObjectOf(m), m)
<1>1. ObjectOf(m) = [p \in PathsOver(m) |-> IF p = Root THEN Object ELSE m[p[1]][Tail(p)]]
  BY DEF ObjectOf, Below, PathsOver
<1>2. Object.kind # "scalar"
  BY DEF Object
<1> QED BY <1>1, <1>2, Composes

LEMMA PositionOf ==
    ASSUME PositionsAreNumerals, NEW i \in Nat \ {0}
    PROVE  Position(Positions[i]) = i - 1 /\ Position(Positions[i]) + 1 = i
<1>1. i \in DOMAIN Positions /\ DOMAIN Positions = Nat \ {0}
  BY DEF PositionsAreNumerals
<1> DEFINE j == CHOOSE j \in DOMAIN Positions : Positions[j] = Positions[i]
<1>2. j \in DOMAIN Positions /\ Positions[j] = Positions[i]
  BY <1>1
<1>3. Position(Positions[i]) = j - 1
  BY DEF Position
<1> HIDE DEF j
<1>4. j = i
  BY <1>1, <1>2 DEF PositionsAreNumerals
<1>5. i - 1 + 1 = i
  OBVIOUS
<1> QED BY <1>3, <1>4, <1>5

\* An array's elements, under their positions.
Elements(e) ==
    /\ IsFunction(e) /\ \E n \in Nat : DOMAIN e = 1..n
    /\ \A i \in DOMAIN e : IsDoc(e[i])

Placed(e) == [k \in {Positions[i] : i \in DOMAIN e} |-> e[Position(k) + 1]]

LEMMA PlacedAt ==
    ASSUME PositionsAreNumerals, NEW e, Elements(e), NEW i \in DOMAIN e
    PROVE  i \in Nat \ {0} /\ Positions[i] \in Segment /\ Placed(e)[Positions[i]] = e[i]
<1>1. i \in Nat \ {0}
  BY DEF Elements
<1>2. Positions[i] \in Segment
  BY <1>1 DEF PositionsAreNumerals, Segment
<1>3. Placed(e)[Positions[i]] = e[i]
  BY <1>1, PositionOf DEF Placed
<1> QED BY <1>1, <1>2, <1>3

LEMMA PlacedMembers ==
    ASSUME PositionsAreNumerals, NEW e, Elements(e)
    PROVE  Members(Placed(e))
<1>1. IsFunction(Placed(e)) /\ DOMAIN Placed(e) = {Positions[i] : i \in DOMAIN e}
  BY DEF Placed, IsFunction
<1>2. ASSUME NEW k \in DOMAIN Placed(e) PROVE k \in Segment /\ IsDoc(Placed(e)[k])
  <2>1. PICK i \in DOMAIN e : k = Positions[i]
    BY <1>1
  <2>2. Placed(e)[Positions[i]] = e[i] /\ Positions[i] \in Segment
    BY PlacedAt
  <2> QED BY <2>1, <2>2 DEF Elements
<1> QED BY <1>1, <1>2 DEF Members

LEMMA ArrayComposed ==
    ASSUME PositionsAreNumerals, NEW e, Elements(e)
    PROVE  Composed(ArrayOf(e), Placed(e))
<1> DEFINE m == Placed(e)
           D == {Root} \cup UNION {{<<Positions[i]>> \o q : q \in DOMAIN e[i]} : i \in DOMAIN e}
           F(p) == IF p = Root THEN Array ELSE e[Position(p[1]) + 1][Tail(p)]
           G(p) == IF p = Root THEN Array ELSE m[p[1]][Tail(p)]
<1>2. ArrayOf(e) = [p \in D |-> F(p)]
  BY DEF ArrayOf, Below
<1>3. Array.kind # "scalar"
  BY DEF Array
<1>4. Members(m) /\ DOMAIN m = {Positions[i] : i \in DOMAIN e}
  BY PlacedMembers DEF Placed
<1>5. \A i \in DOMAIN e : Positions[i] \in Segment /\ m[Positions[i]] = e[i]
  BY PlacedAt
<1>6. \A k \in DOMAIN m : m[k] = e[Position(k) + 1]
  BY DEF Placed
<1>7. \A i \in DOMAIN e : DOMAIN e[i] \subseteq Path
  BY DEF Elements, IsDoc
<1> HIDE DEF m
<1>8. D = PathsOver(m)
  <2>1. D = {Root} \cup UNION {Beneath(Positions[i], DOMAIN e[i]) : i \in DOMAIN e}
    BY DEF Beneath
  <2>2. {Beneath(Positions[i], DOMAIN e[i]) : i \in DOMAIN e} = {Beneath(k, DOMAIN m[k]) : k \in DOMAIN m}
    BY <1>4, <1>5
  <2> HIDE DEF D
  <2> QED BY <2>1, <2>2, OverBeneath
<1>12. ASSUME NEW p \in D, p # Root
       PROVE  \E i \in DOMAIN e : \E q \in DOMAIN e[i] : p = <<Positions[i]>> \o q
  <2>1. PICK k \in DOMAIN m : \E q \in DOMAIN m[k] : p = <<k>> \o q
    <3>1. p \in PathsOver(m)
      BY <1>8
    <3> QED BY <1>12, <3>1, PathDown
  <2>2. PICK i \in DOMAIN e : k = Positions[i]
    BY <1>4
  <2> QED BY <1>5, <2>1, <2>2
<1> HIDE DEF D
<1>9. ASSUME NEW p \in D PROVE F(p) = G(p)
  <2>1. CASE p # Root
    <3>1. PICK i \in DOMAIN e : \E q \in DOMAIN e[i] : p = <<Positions[i]>> \o q
      BY <1>12, <2>1
    <3>2. PICK q \in DOMAIN e[i] : p = <<Positions[i]>> \o q
      BY <3>1
    <3>3. p[1] = Positions[i]
      BY <1>5, <1>7, <3>2, BelowFirst
    <3>4. p[1] \in DOMAIN m
      BY <1>4, <3>3
    <3> QED BY <1>6, <2>1, <3>4
  <2> QED BY <2>1
<1> HIDE DEF F, G
<1>10. ArrayOf(e) = [p \in PathsOver(m) |-> G(p)]
  BY <1>2, <1>8, <1>9
<1>11. Composed(ArrayOf(e), m)
  BY <1>3, <1>4, <1>10, Composes DEF G
<1> QED BY <1>11 DEF m

-----------------------------------------------------------------------------
(* Leaves.                                                                 *)

LEMMA LeafBelow ==
    ASSUME NEW d, NEW m, Composed(d, m), NEW k \in DOMAIN m, NEW q \in Path
    PROVE  <<k>> \o q \in Leaves(d) <=> q \in Leaves(m[k])
BY DEF Composed, Leaves

IsLeafOver(m, p) == \E k \in DOMAIN m : \E q \in Leaves(m[k]) : p = <<k>> \o q

LEMMA LeafAbove ==
    ASSUME NEW d, NEW m, Composed(d, m), NEW p \in Leaves(d)
    PROVE  IsLeafOver(m, p)
<1>1. p \in DOMAIN d \ {Root}
  BY DEF Composed, Leaves
<1>2. PICK k \in DOMAIN m : \E q \in DOMAIN m[k] : p = <<k>> \o q
  BY <1>1 DEF Composed
<1>3. PICK q \in DOMAIN m[k] : p = <<k>> \o q
  BY <1>2
<1>4. q \in Path
  BY DEF Composed, Members, IsDoc
<1>5. q \in Leaves(m[k])
  BY <1>3, <1>4, LeafBelow
<1> QED BY <1>3, <1>5 DEF IsLeafOver

\* The leaves of which one document tells something else than the other.
Differ(a, b) ==
    {p \in Leaves(a) \cup Leaves(b) : ~(p \in Leaves(a) \cap Leaves(b) /\ a[p] = b[p])}

LEMMA DiffersBelow ==
    ASSUME NEW a, NEW b, NEW m, NEW n, Composed(a, m), Composed(b, n), DOMAIN m = DOMAIN n,
           NEW p \in Differ(a, b)
    PROVE  \E k \in DOMAIN m : \E q \in Differ(m[k], n[k]) : q \in Path /\ p = <<k>> \o q
<1>1. PICK k \in DOMAIN m : \E q \in Leaves(m[k]) \cup Leaves(n[k]) : p = <<k>> \o q
  <2>1. p \in Leaves(a) => IsLeafOver(m, p)
    BY LeafAbove
  <2>2. p \in Leaves(b) => IsLeafOver(n, p)
    BY LeafAbove
  <2> QED BY <2>1, <2>2 DEF Differ, IsLeafOver
<1>2. PICK q \in Leaves(m[k]) \cup Leaves(n[k]) : p = <<k>> \o q
  BY <1>1
<1>3. q \in Path
  BY DEF Leaves, Composed, Members, IsDoc
<1>4. (p \in Leaves(a) <=> q \in Leaves(m[k])) /\ (p \in Leaves(b) <=> q \in Leaves(n[k]))
  BY <1>2, <1>3, LeafBelow
<1>5. (q \in Leaves(m[k]) => a[p] = m[k][q]) /\ (q \in Leaves(n[k]) => b[p] = n[k][q])
  BY <1>2 DEF Leaves, Composed
<1>6. q \in Differ(m[k], n[k])
  BY <1>2, <1>4, <1>5 DEF Differ
<1> QED BY <1>2, <1>3, <1>6

LEMMA NoDifference ==
    ASSUME NEW a PROVE Differ(a, a) = {}
BY DEF Differ

-----------------------------------------------------------------------------
(* Documents that their leaves tell apart.                                 *)

SameLeaves(a, b) == Differ(a, b) = {}

HasLeaves(d) == Leaves(d) # {}

\* Two documents are told apart by their leaves, if they are two.
Told(a, b) == SameLeaves(a, b) => a = b

LEMMA SamePart ==
    ASSUME NEW a, NEW b, NEW m, NEW n, Composed(a, m), Composed(b, n), SameLeaves(a, b),
           NEW k \in DOMAIN m, k \in DOMAIN n
    PROVE  SameLeaves(m[k], n[k])
<1> SUFFICES ASSUME NEW q \in Differ(m[k], n[k]) PROVE FALSE
  BY DEF SameLeaves
<1> DEFINE p == <<k>> \o q
<1>1. q \in Leaves(m[k]) \cup Leaves(n[k])
  BY DEF Differ
<1>2. q \in Path
  BY <1>1 DEF Leaves, Composed, Members, IsDoc
<1>3. p \in Leaves(a) <=> q \in Leaves(m[k])
  BY <1>2, LeafBelow
<1>4. p \in Leaves(b) <=> q \in Leaves(n[k])
  BY <1>2, LeafBelow
<1>5. q \in Leaves(m[k]) => a[p] = m[k][q]
  BY DEF Leaves, Composed
<1>6. q \in Leaves(n[k]) => b[p] = n[k][q]
  BY DEF Leaves, Composed
<1> HIDE DEF p
<1>7. p \in Differ(a, b)
  BY <1>1, <1>3, <1>4, <1>5, <1>6 DEF Differ
<1> QED BY <1>7 DEF SameLeaves

LEMMA SameKey ==
    ASSUME NEW a, NEW b, NEW m, NEW n, Composed(a, m), Composed(b, n), SameLeaves(a, b),
           NEW k \in DOMAIN m, HasLeaves(m[k])
    PROVE  k \in DOMAIN n
<1>1. PICK q \in Leaves(m[k]) : TRUE
  BY DEF HasLeaves
<1>2. q \in Path /\ k \in Segment
  BY DEF Leaves, Composed, Members, IsDoc
<1> DEFINE p == <<k>> \o q
<1>3. p \in Leaves(a)
  BY <1>1, <1>2, LeafBelow
<1>4. p[1] = k
  BY <1>2, BelowFirst
<1> HIDE DEF p
<1>5. p \in Leaves(b)
  BY <1>3 DEF SameLeaves, Differ
<1>6. IsLeafOver(n, p)
  BY <1>5, LeafAbove
<1>7. PICK l \in DOMAIN n : \E r \in Leaves(n[l]) : p = <<l>> \o r
  BY <1>6 DEF IsLeafOver
<1>8. PICK r \in Leaves(n[l]) : p = <<l>> \o r
  BY <1>7
<1>9. r \in Path /\ l \in Segment
  BY DEF Leaves, Composed, Members, IsDoc
<1>10. p[1] = l
  BY <1>8, <1>9, BelowFirst
<1> QED BY <1>4, <1>10

LEMMA SameSymmetric ==
    ASSUME NEW a, NEW b, SameLeaves(a, b) PROVE SameLeaves(b, a)
BY DEF SameLeaves, Differ

\* Every member of m that n lacks has leaves.
LacksLeaves(m, n) == \A k \in DOMAIN m \ DOMAIN n : HasLeaves(m[k])

PartsTold(m, n) == \A k \in DOMAIN m \cap DOMAIN n : Told(m[k], n[k])

LEMMA ComposedTold ==
    ASSUME NEW a, NEW b, NEW m, NEW n, Composed(a, m), Composed(b, n), SameLeaves(a, b),
           PartsTold(m, n), LacksLeaves(m, n), LacksLeaves(n, m)
    PROVE  m = n
<1>1. DOMAIN m \subseteq DOMAIN n
  BY SameKey DEF LacksLeaves
<1>2. SameLeaves(b, a)
  BY SameSymmetric
<1>3. DOMAIN n \subseteq DOMAIN m
  BY <1>2, SameKey DEF LacksLeaves
<1>4. ASSUME NEW k \in DOMAIN m PROVE m[k] = n[k]
  <2>1. k \in DOMAIN n
    BY <1>1
  <2>2. SameLeaves(m[k], n[k])
    BY <2>1, SamePart
  <2> QED BY <2>1, <2>2 DEF PartsTold, Told
<1>5. IsFunction(m) /\ IsFunction(n)
  BY DEF Composed, Members
<1> QED BY <1>1, <1>3, <1>4, <1>5 DEF IsFunction

LEMMA ObjectTold ==
    ASSUME NEW m, NEW n, Members(m), Members(n), PartsTold(m, n), LacksLeaves(m, n), LacksLeaves(n, m)
    PROVE  Told(ObjectOf(m), ObjectOf(n))
<1> SUFFICES ASSUME SameLeaves(ObjectOf(m), ObjectOf(n)) PROVE ObjectOf(m) = ObjectOf(n)
  BY DEF Told
<1>1. Composed(ObjectOf(m), m) /\ Composed(ObjectOf(n), n)
  BY ObjectComposed
<1>2. m = n
  BY <1>1, ComposedTold
<1> QED BY <1>2

LEMMA PlacedSame ==
    ASSUME PositionsAreNumerals, NEW e, NEW f, Elements(e), Elements(f), Placed(e) = Placed(f)
    PROVE  e = f
<1>1. \A i \in DOMAIN e : i \in Nat \ {0} /\ Placed(e)[Positions[i]] = e[i]
  BY PlacedAt
<1>2. \A i \in DOMAIN f : i \in Nat \ {0} /\ Placed(f)[Positions[i]] = f[i]
  BY PlacedAt
<1>3. DOMAIN Placed(e) = {Positions[i] : i \in DOMAIN e}
  BY DEF Placed
<1>4. DOMAIN Placed(f) = {Positions[i] : i \in DOMAIN f}
  BY DEF Placed
<1>5. {Positions[i] : i \in DOMAIN e} = {Positions[i] : i \in DOMAIN f}
  BY <1>3, <1>4
<1>6. ASSUME NEW i \in DOMAIN e PROVE i \in DOMAIN f
  <2>1. PICK j \in DOMAIN f : Positions[i] = Positions[j]
    BY <1>5
  <2>2. i = j
    BY <1>1, <1>2, <2>1 DEF PositionsAreNumerals
  <2> QED BY <2>2
<1>7. ASSUME NEW i \in DOMAIN f PROVE i \in DOMAIN e
  <2>1. PICK j \in DOMAIN e : Positions[i] = Positions[j]
    BY <1>5
  <2>2. i = j
    BY <1>1, <1>2, <2>1 DEF PositionsAreNumerals
  <2> QED BY <2>2
<1>8. IsFunction(e) /\ IsFunction(f)
  BY DEF Elements
<1>9. DOMAIN e = DOMAIN f
  BY <1>6, <1>7
<1>10. \A i \in DOMAIN e : e[i] = f[i]
  BY <1>1, <1>2, <1>9
<1> QED BY <1>8, <1>9, <1>10, SameFunction

LEMMA PlacedTold ==
    ASSUME PositionsAreNumerals, NEW e, NEW f, Elements(e), Elements(f), PartsTold(e, f)
    PROVE  PartsTold(Placed(e), Placed(f))
<1> SUFFICES ASSUME NEW k \in DOMAIN Placed(e) \cap DOMAIN Placed(f) PROVE Told(Placed(e)[k], Placed(f)[k])
  BY DEF PartsTold
<1>1. PICK i \in DOMAIN e : k = Positions[i]
  BY DEF Placed
<1>2. PICK j \in DOMAIN f : k = Positions[j]
  BY DEF Placed
<1>3. i \in Nat \ {0} /\ Placed(e)[Positions[i]] = e[i]
  BY PlacedAt
<1>4. j \in Nat \ {0} /\ Placed(f)[Positions[j]] = f[j]
  BY PlacedAt
<1>5. i = j
  BY <1>1, <1>2, <1>3, <1>4 DEF PositionsAreNumerals
<1>6. Told(e[i], f[i])
  BY <1>5 DEF PartsTold
<1> QED BY <1>1, <1>3, <1>4, <1>5, <1>6

LEMMA PlacedLacks ==
    ASSUME PositionsAreNumerals, NEW e, NEW f, Elements(e), Elements(f), LacksLeaves(e, f)
    PROVE  LacksLeaves(Placed(e), Placed(f))
<1> SUFFICES ASSUME NEW k \in DOMAIN Placed(e) \ DOMAIN Placed(f) PROVE HasLeaves(Placed(e)[k])
  BY DEF LacksLeaves
<1>1. PICK i \in DOMAIN e : k = Positions[i]
  BY DEF Placed
<1>2. i \notin DOMAIN f
  BY <1>1 DEF Placed
<1>3. Placed(e)[Positions[i]] = e[i]
  BY PlacedAt
<1> QED BY <1>1, <1>2, <1>3 DEF LacksLeaves

LEMMA ArrayTold ==
    ASSUME PositionsAreNumerals, NEW e, NEW f, Elements(e), Elements(f),
           PartsTold(e, f), LacksLeaves(e, f), LacksLeaves(f, e)
    PROVE  Told(ArrayOf(e), ArrayOf(f))
<1> SUFFICES ASSUME SameLeaves(ArrayOf(e), ArrayOf(f)) PROVE ArrayOf(e) = ArrayOf(f)
  BY DEF Told
<1>1. Composed(ArrayOf(e), Placed(e)) /\ Composed(ArrayOf(f), Placed(f))
  BY ArrayComposed
<1>2. PartsTold(Placed(e), Placed(f)) /\ LacksLeaves(Placed(e), Placed(f)) /\ LacksLeaves(Placed(f), Placed(e))
  BY PlacedTold, PlacedLacks
<1>3. Placed(e) = Placed(f)
  BY <1>1, <1>2, ComposedTold
<1>4. e = f
  BY <1>3, PlacedSame
<1> QED BY <1>4

LEMMA ComposedLeaves ==
    ASSUME NEW d, NEW m, Composed(d, m), NEW k \in DOMAIN m, HasLeaves(m[k])
    PROVE  HasLeaves(d)
<1>1. PICK q \in Leaves(m[k]) : TRUE
  BY DEF HasLeaves
<1>2. q \in Path
  BY DEF Leaves, Composed, Members, IsDoc
<1>3. <<k>> \o q \in Leaves(d)
  BY <1>1, <1>2, LeafBelow
<1> QED BY <1>3 DEF HasLeaves

LEMMA ObjectLeaves ==
    ASSUME NEW m, Members(m), NEW k \in DOMAIN m, HasLeaves(m[k])
    PROVE  HasLeaves(ObjectOf(m))
BY ObjectComposed, ComposedLeaves

LEMMA ArrayLeaves ==
    ASSUME PositionsAreNumerals, NEW e, Elements(e), NEW i \in DOMAIN e, HasLeaves(e[i])
    PROVE  HasLeaves(ArrayOf(e))
<1>1. Composed(ArrayOf(e), Placed(e))
  BY ArrayComposed
<1>2. Positions[i] \in DOMAIN Placed(e)
  BY DEF Placed
<1>3. HasLeaves(Placed(e)[Positions[i]])
  BY PlacedAt
<1> QED BY <1>1, <1>2, <1>3, ComposedLeaves

LEMMA ObjectIsDoc ==
    ASSUME NEW m, Members(m) PROVE IsDoc(ObjectOf(m))
BY ObjectComposed DEF Composed

LEMMA ArrayIsDoc ==
    ASSUME PositionsAreNumerals, NEW e, Elements(e) PROVE IsDoc(ArrayOf(e))
BY ArrayComposed DEF Composed

LEMMA LeafIsDoc ==
    ASSUME NEW v PROVE IsDoc(Leaf(v)) /\ HasLeaves(Leaf(v))
<1>1. Root \in Path
  BY DEF Root, Path
<1>2. IsDoc(Leaf(v))
  BY <1>1 DEF IsDoc, IsFunction, Leaf
<1>3. Root \in Leaves(Leaf(v))
  BY DEF Leaves, Leaf, Scalar
<1> QED BY <1>2, <1>3 DEF HasLeaves

LEMMA LeavesTold ==
    ASSUME NEW v, NEW w PROVE Told(Leaf(v), Leaf(w))
<1> SUFFICES ASSUME SameLeaves(Leaf(v), Leaf(w)) PROVE Leaf(v) = Leaf(w)
  BY DEF Told
<1>1. Root \in Leaves(Leaf(v)) /\ Root \in Leaves(Leaf(w))
  BY DEF Leaves, Leaf, Scalar
<1>2. Leaf(v)[Root] = Leaf(w)[Root]
  BY <1>1 DEF SameLeaves, Differ
<1>3. Leaf(v)[Root] = Scalar(v) /\ Leaf(w)[Root] = Scalar(w)
  BY DEF Leaf
<1> QED BY <1>2, <1>3 DEF Leaf

-----------------------------------------------------------------------------
(* The parts of a configuration.                                           *)

LEMMA TextIsDoc ==
    ASSUME NEW v PROVE IsDoc(Text1(v)) /\ HasLeaves(Text1(v))
<1>1. Text1(v) = Leaf(ToString(v))
  BY DEF Text1
<1> QED BY <1>1, LeafIsDoc

LEMMA TextsTold ==
    ASSUME NEW v, NEW w PROVE Told(Text1(v), Text1(w))
<1>1. Text1(v) = Leaf(ToString(v)) /\ Text1(w) = Leaf(ToString(w))
  BY DEF Text1
<1> QED BY <1>1, LeavesTold

Full(e) == \A i \in DOMAIN e : HasLeaves(e[i])

LEMMA FullLacks ==
    ASSUME NEW e, NEW f, Full(e) PROVE LacksLeaves(e, f)
BY DEF Full, LacksLeaves

Listed(x) == \E n \in Nat : DOMAIN x = 1..n

LEMMA SeqListed ==
    ASSUME NEW S, NEW x \in Seq(S) PROVE Listed(x)
<1>1. Len(x) \in Nat /\ DOMAIN x = 1..Len(x)
  OBVIOUS
<1> QED BY <1>1 DEF Listed

LEMMA SeqInhabited ==
    ASSUME NEW S, NEW x \in Seq(S), x # <<>> PROVE 1 \in DOMAIN x
OBVIOUS

Texts(x) == [i \in DOMAIN x |-> Text1(x[i])]

LEMMA TextsElements ==
    ASSUME NEW x, Listed(x) PROVE Elements(Texts(x)) /\ Full(Texts(x)) /\ DOMAIN Texts(x) = DOMAIN x
<1>1. DOMAIN Texts(x) = DOMAIN x /\ IsFunction(Texts(x))
  BY DEF Texts, IsFunction
<1>2. \A i \in DOMAIN x : IsDoc(Texts(x)[i]) /\ HasLeaves(Texts(x)[i])
  BY TextIsDoc DEF Texts
<1> QED BY <1>1, <1>2 DEF Elements, Full, Listed

LEMMA ListOfTexts ==
    ASSUME NEW x PROVE List(x) = ArrayOf(Texts(x))
BY DEF List, Texts

LEMMA ListIsDoc ==
    ASSUME PositionsAreNumerals, NEW x, Listed(x) PROVE IsDoc(List(x))
BY ListOfTexts, TextsElements, ArrayIsDoc

LEMMA ListLeaves ==
    ASSUME PositionsAreNumerals, NEW x, Listed(x), 1 \in DOMAIN x PROVE HasLeaves(List(x))
BY ListOfTexts, TextsElements, ArrayLeaves DEF Full

LEMMA ListsTold ==
    ASSUME PositionsAreNumerals, NEW x, NEW y, Listed(x), Listed(y) PROVE Told(List(x), List(y))
<1>1. PartsTold(Texts(x), Texts(y))
  BY TextsTold DEF PartsTold, Texts
<1>2. LacksLeaves(Texts(x), Texts(y)) /\ LacksLeaves(Texts(y), Texts(x))
  BY TextsElements, FullLacks
<1> QED BY <1>1, <1>2, ListOfTexts, TextsElements, ArrayTold

\* An array of one element.
LEMMA OneElement ==
    ASSUME NEW d, IsDoc(d) PROVE Elements(<<d>>)
<1>1. DOMAIN <<d>> = 1..1 /\ 1 \in Nat /\ IsFunction(<<d>>)
  BY DEF IsFunction
<1> QED BY <1>1 DEF Elements

LEMMA OneIsDoc ==
    ASSUME PositionsAreNumerals, NEW d, IsDoc(d) PROVE IsDoc(ArrayOf(<<d>>))
BY OneElement, ArrayIsDoc

LEMMA OneHasLeaves ==
    ASSUME PositionsAreNumerals, NEW d, IsDoc(d), HasLeaves(d) PROVE HasLeaves(ArrayOf(<<d>>))
<1>1. Elements(<<d>>) /\ 1 \in DOMAIN <<d>> /\ HasLeaves(<<d>>[1])
  BY OneElement
<1> QED BY <1>1, ArrayLeaves

LEMMA OneTold ==
    ASSUME PositionsAreNumerals, NEW d, NEW e, IsDoc(d), IsDoc(e), Told(d, e)
    PROVE  Told(ArrayOf(<<d>>), ArrayOf(<<e>>))
<1>1. DOMAIN <<d>> = {1} /\ DOMAIN <<e>> = {1}
  OBVIOUS
<1>2. PartsTold(<<d>>, <<e>>)
  BY <1>1 DEF PartsTold
<1>3. LacksLeaves(<<d>>, <<e>>) /\ LacksLeaves(<<e>>, <<d>>)
  BY <1>1 DEF LacksLeaves
<1> QED BY <1>2, <1>3, OneElement, ArrayTold

-----------------------------------------------------------------------------
(* Objects of the members that are given.                                  *)

LEMMA GivenDomain ==
    ASSUME NEW m, NEW c, NEW k
    PROVE  k \in DOMAIN Given(m, c) <=> k \in DOMAIN m /\ (k \in DOMAIN c => c[k])
BY DEF Given

LEMMA GivenAt ==
    ASSUME NEW m, NEW c, NEW k \in DOMAIN Given(m, c)
    PROVE  Given(m, c)[k] = m[k]
BY DEF Given

LEMMA GivenMembers ==
    ASSUME NEW m, Members(m), NEW c PROVE Members(Given(m, c))
<1>1. IsFunction(Given(m, c))
  BY DEF Given, IsFunction
<1>2. \A k \in DOMAIN Given(m, c) : k \in DOMAIN m /\ Given(m, c)[k] = m[k]
  BY GivenDomain, GivenAt
<1> QED BY <1>1, <1>2 DEF Members

\* Where the conditions of two objects differ, the member that is there has leaves.
Shows(m, c, e) == \A k \in DOMAIN m \cap DOMAIN c : c[k] /\ ~e[k] => HasLeaves(m[k])

LEMMA GivenLacks ==
    ASSUME NEW m, NEW n, DOMAIN m = DOMAIN n, NEW c, NEW e, DOMAIN c = DOMAIN e, Shows(m, c, e)
    PROVE  LacksLeaves(Given(m, c), Given(n, e))
<1> SUFFICES ASSUME NEW k \in DOMAIN Given(m, c), k \notin DOMAIN Given(n, e)
             PROVE  HasLeaves(Given(m, c)[k])
  BY DEF LacksLeaves
<1>1. k \in DOMAIN m /\ (k \in DOMAIN c => c[k]) /\ k \in DOMAIN e /\ ~e[k]
  BY GivenDomain
<1>2. HasLeaves(m[k])
  BY <1>1 DEF Shows
<1> QED BY <1>2, GivenAt

LEMMA GivenTold ==
    ASSUME NEW m, NEW n, Members(m), Members(n), DOMAIN m = DOMAIN n,
           NEW c, NEW e, DOMAIN c = DOMAIN e, Shows(m, c, e), Shows(n, e, c), PartsTold(m, n)
    PROVE  Told(ObjectOf(Given(m, c)), ObjectOf(Given(n, e)))
<1>1. LacksLeaves(Given(m, c), Given(n, e)) /\ LacksLeaves(Given(n, e), Given(m, c))
  BY GivenLacks
<1>2. PartsTold(Given(m, c), Given(n, e))
  BY GivenDomain, GivenAt DEF PartsTold
<1> QED BY <1>1, <1>2, GivenMembers, ObjectTold

-----------------------------------------------------------------------------
(* Patterns, segment by segment.                                           *)

LEMMA BelowLength ==
    ASSUME NEW k \in Segment, NEW q \in Path
    PROVE  Len(<<k>> \o q) = Len(q) + 1
<1> DEFINE p == <<k>> \o q
<1>1. p \in Seq(Segment) /\ p # <<>> /\ Tail(p) = q
  BY PathBelow DEF Path, Root
<1> HIDE DEF p
<1>2. Len(Tail(p)) = Len(p) - 1 /\ Len(p) \in Nat
  BY <1>1, HeadTailProperties
<1> QED BY <1>1, <1>2 DEF p

LEMMA BelowAt ==
    ASSUME NEW k \in Segment, NEW q \in Path
    PROVE  \A i \in 1..Len(q) : (<<k>> \o q)[i + 1] = q[i]
<1> DEFINE p == <<k>> \o q
<1>1. p \in Seq(Segment) /\ p # <<>> /\ Tail(p) = q
  BY PathBelow DEF Path, Root
<1> HIDE DEF p
<1>2. \A i \in 1..Len(Tail(p)) : Tail(p)[i] = p[i + 1]
  BY <1>1, HeadTailProperties
<1> QED BY <1>1, <1>2 DEF p

\* A pattern that has x first and then what rest has.
Begins(pattern, x, rest) ==
    /\ Len(rest) \in Nat /\ DOMAIN rest = 1..Len(rest)
    /\ Len(pattern) = Len(rest) + 1 /\ DOMAIN pattern = 1..Len(pattern)
    /\ pattern[1] = x
    /\ \A i \in DOMAIN rest : pattern[i + 1] = rest[i]

LEMMA MatchBelow ==
    ASSUME NEW k \in Segment, NEW q \in Path, NEW pattern, NEW x, NEW rest, Begins(pattern, x, rest)
    PROVE  SegmentMatch(<<k>> \o q, pattern) <=> x \in {"*", k} /\ SegmentMatch(q, rest)
<1> DEFINE p == <<k>> \o q
<1>1. p[1] = k /\ Len(p) = Len(q) + 1 /\ \A i \in 1..Len(q) : p[i + 1] = q[i]
  BY BelowFirst, BelowLength, BelowAt
<1>2. Len(q) \in Nat
  BY DEF Path
<1> HIDE DEF p
<1>3. ASSUME SegmentMatch(p, pattern) PROVE x \in {"*", k} /\ SegmentMatch(q, rest)
  <2>1. Len(q) >= Len(rest) /\ 1 \in DOMAIN pattern
    BY <1>1, <1>2, <1>3 DEF SegmentMatch, Begins
  <2>2. x \in {"*", k}
    BY <1>1, <1>3, <2>1 DEF SegmentMatch, Begins
  <2>3. ASSUME NEW i \in DOMAIN rest PROVE rest[i] \in {"*", q[i]}
    <3>1. i + 1 \in DOMAIN pattern /\ pattern[i + 1] = rest[i] /\ i \in 1..Len(q)
      BY <1>2, <2>1 DEF Begins
    <3> QED BY <1>1, <1>3, <3>1 DEF SegmentMatch
  <2> QED BY <2>1, <2>2, <2>3 DEF SegmentMatch
<1>4. ASSUME x \in {"*", k}, SegmentMatch(q, rest) PROVE SegmentMatch(p, pattern)
  <2>1. Len(p) >= Len(pattern)
    BY <1>1, <1>2, <1>4 DEF SegmentMatch, Begins
  <2>2. ASSUME NEW i \in DOMAIN pattern PROVE pattern[i] \in {"*", p[i]}
    <3>1. CASE i = 1
      BY <1>1, <1>4, <3>1 DEF Begins
    <3>2. CASE i # 1
      <4>1. i - 1 \in DOMAIN rest /\ i - 1 \in 1..Len(q) /\ (i - 1) + 1 = i
        BY <1>2, <1>4, <3>2 DEF SegmentMatch, Begins
      <4>2. pattern[i] = rest[i - 1] /\ p[i] = q[i - 1]
        BY <1>1, <4>1 DEF Begins
      <4> QED BY <1>4, <4>1, <4>2 DEF SegmentMatch
    <3> QED BY <3>1, <3>2
  <2> QED BY <2>1, <2>2 DEF SegmentMatch
<1> QED BY <1>3, <1>4 DEF p

\* No leaf of a document matches the pattern.
Unmatched(d, pattern) == \A p \in Leaves(d) : ~SegmentMatch(p, pattern)

LEMMA ComposedUnmatched ==
    ASSUME NEW d, NEW m, Composed(d, m), NEW pattern, NEW x, NEW rest, Begins(pattern, x, rest),
           \A k \in DOMAIN m : x \in {"*", k} => Unmatched(m[k], rest)
    PROVE  Unmatched(d, pattern)
<1> SUFFICES ASSUME NEW p \in Leaves(d), SegmentMatch(p, pattern) PROVE FALSE
  BY DEF Unmatched
<1>5. IsLeafOver(m, p)
  BY LeafAbove
<1>1. PICK k \in DOMAIN m : \E q \in Leaves(m[k]) : p = <<k>> \o q
  BY <1>5 DEF IsLeafOver
<1>2. PICK q \in Leaves(m[k]) : p = <<k>> \o q
  BY <1>1
<1>3. k \in Segment /\ q \in Path
  BY DEF Composed, Members, IsDoc, Leaves
<1>4. x \in {"*", k} /\ SegmentMatch(q, rest)
  BY <1>2, <1>3, MatchBelow
<1> QED BY <1>4 DEF Unmatched

LEMMA LeafUnmatched ==
    ASSUME NEW v, NEW pattern, Len(pattern) \in Nat, Len(pattern) > 0
    PROVE  Unmatched(Leaf(v), pattern)
<1>1. \A p \in Leaves(Leaf(v)) : Len(p) = 0
  BY DEF Leaves, Leaf, Root
<1> QED BY <1>1 DEF Unmatched, SegmentMatch

\* Every leaf that tells two documents apart matches the pattern.
Within(a, b, pattern) == \A p \in Differ(a, b) : SegmentMatch(p, pattern)

LEMMA ComposedWithin ==
    ASSUME NEW a, NEW b, NEW m, NEW n, Composed(a, m), Composed(b, n), DOMAIN m = DOMAIN n,
           NEW pattern, NEW x, NEW rest, Begins(pattern, x, rest),
           \A k \in DOMAIN m : m[k] = n[k] \/ (x \in {"*", k} /\ Within(m[k], n[k], rest))
    PROVE  Within(a, b, pattern)
<1> SUFFICES ASSUME NEW p \in Differ(a, b) PROVE SegmentMatch(p, pattern)
  BY DEF Within
<1>1. PICK k \in DOMAIN m : \E q \in Differ(m[k], n[k]) : q \in Path /\ p = <<k>> \o q
  BY DiffersBelow
<1>2. PICK q \in Differ(m[k], n[k]) : q \in Path /\ p = <<k>> \o q
  BY <1>1
<1>3. k \in Segment
  BY DEF Composed, Members
<1>4. m[k] # n[k]
  BY NoDifference
<1>5. x \in {"*", k} /\ SegmentMatch(q, rest)
  BY <1>4 DEF Within
<1> QED BY <1>2, <1>3, <1>5, MatchBelow

LEMMA AnyWithin ==
    ASSUME NEW a, NEW b, NEW m, NEW n, Composed(a, m), Composed(b, n)
    PROVE  Within(a, b, <<"*">>)
<1> SUFFICES ASSUME NEW p \in Differ(a, b) PROVE SegmentMatch(p, <<"*">>)
  BY DEF Within
<1>1. p \in Path /\ p # Root
  BY DEF Differ, Leaves, Composed, IsDoc
<1>2. Len(p) \in Nat /\ Len(p) >= 1
  BY <1>1 DEF Path, Root
<1>3. DOMAIN <<"*">> = {1} /\ <<"*">>[1] = "*" /\ Len(<<"*">>) = 1
  OBVIOUS
<1> QED BY <1>2, <1>3 DEF SegmentMatch

-----------------------------------------------------------------------------
(* Documents that their leaves and, where a pattern matches, their kinds   *)
(* of node tell apart.                                                     *)

ToldBut(a, b, pattern) == SameLeaves(a, b) /\ ~KindsDiffer(a, b, pattern) => a = b

LEMMA KindBelow ==
    ASSUME NEW d, NEW m, Composed(d, m), NEW k \in Segment, NEW q \in Path
    PROVE  Kind(d, <<k>> \o q) = IF k \in DOMAIN m THEN Kind(m[k], q) ELSE "absent"
<1> DEFINE p == <<k>> \o q
<1>1. CASE k \in DOMAIN m
  BY <1>1 DEF Composed, Kind
<1>2. CASE k \notin DOMAIN m
  <2>1. ASSUME p \in DOMAIN d PROVE FALSE
    <3>1. p \in DOMAIN d \ {Root}
      BY <2>1, BelowRoot
    <3> HIDE DEF p
    <3>2. PICK l \in DOMAIN m : \E r \in DOMAIN m[l] : p = <<l>> \o r
      BY <3>1 DEF Composed
    <3>3. PICK r \in DOMAIN m[l] : p = <<l>> \o r
      BY <3>2
    <3>4. l \in Segment /\ r \in Path
      BY DEF Composed, Members, IsDoc
    <3>5. p[1] = l
      BY <3>3, <3>4, BelowFirst
    <3>6. p[1] = k
      BY BelowFirst DEF p
    <3> QED BY <1>2, <3>5, <3>6
  <2> QED BY <1>2, <2>1 DEF Kind
<1> QED BY <1>1, <1>2

LEMMA KindsDifferBelow ==
    ASSUME NEW a, NEW b, NEW m, NEW n, Composed(a, m), Composed(b, n),
           NEW pattern, NEW x, NEW rest, Begins(pattern, x, rest),
           NEW k \in DOMAIN m, k \in DOMAIN n, x \in {"*", k}, KindsDiffer(m[k], n[k], rest)
    PROVE  KindsDiffer(a, b, pattern)
<1>1. PICK q \in DOMAIN m[k] \cup DOMAIN n[k] : SegmentMatch(q, rest) /\ Kind(m[k], q) # Kind(n[k], q)
  BY DEF KindsDiffer
<1>2. k \in Segment /\ q \in Path
  BY DEF Composed, Members, IsDoc
<1> DEFINE p == <<k>> \o q
<1>3. p \in DOMAIN a \cup DOMAIN b
  BY <1>2 DEF Composed
<1>4. SegmentMatch(p, pattern)
  BY <1>1, <1>2, MatchBelow
<1>5. Kind(a, p) # Kind(b, p)
  BY <1>1, <1>2, KindBelow
<1> QED BY <1>3, <1>4, <1>5 DEF KindsDiffer

\* A member that only one of them has, where the pattern ends, is a difference.
LEMMA KindsDifferHere ==
    ASSUME NEW a, NEW b, NEW m, NEW n, Composed(a, m), Composed(b, n),
           NEW pattern, NEW x, Begins(pattern, x, <<>>),
           NEW k \in Segment, x \in {"*", k},
           \/ k \in DOMAIN m /\ k \notin DOMAIN n /\ Kind(m[k], Root) # "absent"
           \/ k \in DOMAIN n /\ k \notin DOMAIN m /\ Kind(n[k], Root) # "absent"
    PROVE  KindsDiffer(a, b, pattern)
<1>1. Root \in Path
  BY DEF Root, Path
<1> DEFINE p == <<k>> \o Root
<1>2. Kind(a, p) # Kind(b, p)
  BY <1>1, KindBelow
<1>3. SegmentMatch(p, pattern)
  <2>1. SegmentMatch(Root, <<>>)
    BY DEF SegmentMatch, Root
  <2> QED BY <1>1, <2>1, MatchBelow
<1>4. p \in DOMAIN a \cup DOMAIN b
  BY <1>2 DEF Kind
<1> QED BY <1>2, <1>3, <1>4 DEF KindsDiffer

\* Every member of m that n lacks has leaves, or is where the pattern ends.
LacksBut(m, n, x, rest) ==
    \A k \in DOMAIN m \ DOMAIN n :
        HasLeaves(m[k]) \/ (x \in {"*", k} /\ rest = <<>> /\ Kind(m[k], Root) # "absent")

PartsToldBut(m, n, x, rest) ==
    \A k \in DOMAIN m \cap DOMAIN n :
        Told(m[k], n[k]) \/ (x \in {"*", k} /\ ToldBut(m[k], n[k], rest))

LEMMA ComposedToldBut ==
    ASSUME NEW a, NEW b, NEW m, NEW n, Composed(a, m), Composed(b, n), SameLeaves(a, b),
           NEW pattern, NEW x, NEW rest, Begins(pattern, x, rest), ~KindsDiffer(a, b, pattern),
           PartsToldBut(m, n, x, rest), LacksBut(m, n, x, rest), LacksBut(n, m, x, rest)
    PROVE  m = n
<1>1. IsFunction(m) /\ IsFunction(n) /\ DOMAIN m \subseteq Segment /\ DOMAIN n \subseteq Segment
  BY DEF Composed, Members
<1>2. SameLeaves(b, a)
  BY SameSymmetric
<1>3. ASSUME NEW k \in DOMAIN m, k \notin DOMAIN n PROVE FALSE
  <2>1. ~HasLeaves(m[k])
    BY <1>3, SameKey
  <2>2. x \in {"*", k} /\ rest = <<>> /\ Kind(m[k], Root) # "absent"
    BY <1>3, <2>1 DEF LacksBut
  <2> QED BY <1>1, <1>3, <2>2, KindsDifferHere
<1>4. ASSUME NEW k \in DOMAIN n, k \notin DOMAIN m PROVE FALSE
  <2>1. ~HasLeaves(n[k])
    BY <1>2, <1>4, SameKey
  <2>2. x \in {"*", k} /\ rest = <<>> /\ Kind(n[k], Root) # "absent"
    BY <1>4, <2>1 DEF LacksBut
  <2> QED BY <1>1, <1>4, <2>2, KindsDifferHere
<1>5. ASSUME NEW k \in DOMAIN m PROVE m[k] = n[k]
  <2>1. k \in DOMAIN n
    BY <1>3
  <2>2. SameLeaves(m[k], n[k])
    BY <2>1, SamePart
  <2>3. x \in {"*", k} => ~KindsDiffer(m[k], n[k], rest)
    BY <2>1, KindsDifferBelow
  <2> QED BY <2>1, <2>2, <2>3 DEF PartsToldBut, Told, ToldBut
<1> QED BY <1>1, <1>3, <1>4, <1>5 DEF IsFunction

LEMMA ObjectToldBut ==
    ASSUME NEW m, NEW n, Members(m), Members(n), NEW pattern, NEW x, NEW rest, Begins(pattern, x, rest),
           PartsToldBut(m, n, x, rest), LacksBut(m, n, x, rest), LacksBut(n, m, x, rest)
    PROVE  ToldBut(ObjectOf(m), ObjectOf(n), pattern)
<1> SUFFICES ASSUME SameLeaves(ObjectOf(m), ObjectOf(n)), ~KindsDiffer(ObjectOf(m), ObjectOf(n), pattern)
             PROVE  ObjectOf(m) = ObjectOf(n)
  BY DEF ToldBut
<1>1. Composed(ObjectOf(m), m) /\ Composed(ObjectOf(n), n)
  BY ObjectComposed
<1>2. m = n
  BY <1>1, ComposedToldBut
<1> QED BY <1>2

\* Of an array, every element may be told so.
LEMMA ArrayToldBut ==
    ASSUME PositionsAreNumerals, NEW e, NEW f, Elements(e), Elements(f),
           NEW pattern, NEW rest, Begins(pattern, "*", rest),
           \A i \in DOMAIN e \cap DOMAIN f : ToldBut(e[i], f[i], rest), Full(e), Full(f)
    PROVE  ToldBut(ArrayOf(e), ArrayOf(f), pattern)
<1> SUFFICES ASSUME SameLeaves(ArrayOf(e), ArrayOf(f)), ~KindsDiffer(ArrayOf(e), ArrayOf(f), pattern)
             PROVE  ArrayOf(e) = ArrayOf(f)
  BY DEF ToldBut
<1>1. Composed(ArrayOf(e), Placed(e)) /\ Composed(ArrayOf(f), Placed(f))
  BY ArrayComposed
<1>2. /\ LacksBut(Placed(e), Placed(f), "*", rest)
      /\ LacksBut(Placed(f), Placed(e), "*", rest)
  <2>1. LacksLeaves(Placed(e), Placed(f)) /\ LacksLeaves(Placed(f), Placed(e))
    BY FullLacks, PlacedLacks
  <2> QED BY <2>1 DEF LacksLeaves, LacksBut
<1>3. PartsToldBut(Placed(e), Placed(f), "*", rest)
  <2> SUFFICES ASSUME NEW k \in DOMAIN Placed(e) \cap DOMAIN Placed(f)
               PROVE  ToldBut(Placed(e)[k], Placed(f)[k], rest)
    BY DEF PartsToldBut
  <2>1. PICK i \in DOMAIN e : k = Positions[i]
    BY DEF Placed
  <2>2. PICK j \in DOMAIN f : k = Positions[j]
    BY DEF Placed
  <2>3. i \in Nat \ {0} /\ Placed(e)[Positions[i]] = e[i]
    BY PlacedAt
  <2>4. j \in Nat \ {0} /\ Placed(f)[Positions[j]] = f[j]
    BY PlacedAt
  <2>5. i = j
    BY <2>1, <2>2, <2>3, <2>4 DEF PositionsAreNumerals
  <2> QED BY <2>1, <2>3, <2>4, <2>5
<1>4. Placed(e) = Placed(f)
  BY <1>1, <1>2, <1>3, ComposedToldBut
<1>5. e = f
  BY <1>4, PlacedSame
<1> QED BY <1>5

\* Shows, with the member where the pattern ends left to its kind.
ShowsBut(m, c, e, x, rest) ==
    \A k \in DOMAIN m \cap DOMAIN c :
        c[k] /\ ~e[k] => \/ HasLeaves(m[k])
                         \/ x \in {"*", k} /\ rest = <<>> /\ Kind(m[k], Root) # "absent"

LEMMA GivenLacksBut ==
    ASSUME NEW m, NEW n, DOMAIN m = DOMAIN n, NEW c, NEW e, DOMAIN c = DOMAIN e, NEW x, NEW rest,
           ShowsBut(m, c, e, x, rest)
    PROVE  LacksBut(Given(m, c), Given(n, e), x, rest)
<1> SUFFICES ASSUME NEW k \in DOMAIN Given(m, c), k \notin DOMAIN Given(n, e)
             PROVE  \/ HasLeaves(Given(m, c)[k])
                    \/ x \in {"*", k} /\ rest = <<>> /\ Kind(Given(m, c)[k], Root) # "absent"
  BY DEF LacksBut
<1>1. k \in DOMAIN m /\ (k \in DOMAIN c => c[k]) /\ k \in DOMAIN e /\ ~e[k]
  BY GivenDomain
<1>2. HasLeaves(m[k]) \/ (x \in {"*", k} /\ rest = <<>> /\ Kind(m[k], Root) # "absent")
  BY <1>1 DEF ShowsBut
<1>3. Given(m, c)[k] = m[k]
  BY GivenAt
<1> QED BY <1>2, <1>3

LEMMA GivenToldBut ==
    ASSUME NEW m, NEW n, Members(m), Members(n), DOMAIN m = DOMAIN n,
           NEW c, NEW e, DOMAIN c = DOMAIN e, NEW pattern, NEW x, NEW rest, Begins(pattern, x, rest),
           ShowsBut(m, c, e, x, rest), ShowsBut(n, e, c, x, rest), PartsToldBut(m, n, x, rest)
    PROVE  ToldBut(ObjectOf(Given(m, c)), ObjectOf(Given(n, e)), pattern)
<1>1. LacksBut(Given(m, c), Given(n, e), x, rest) /\ LacksBut(Given(n, e), Given(m, c), x, rest)
  BY GivenLacksBut
<1>2. PartsToldBut(Given(m, c), Given(n, e), x, rest)
  BY GivenDomain, GivenAt DEF PartsToldBut
<1> QED BY <1>1, <1>2, GivenMembers, ObjectToldBut

LEMMA SameKeysToldBut ==
    ASSUME NEW m, NEW n, Members(m), Members(n), DOMAIN m = DOMAIN n,
           NEW pattern, NEW x, NEW rest, Begins(pattern, x, rest), PartsToldBut(m, n, x, rest)
    PROVE  ToldBut(ObjectOf(m), ObjectOf(n), pattern)
<1>1. LacksBut(m, n, x, rest) /\ LacksBut(n, m, x, rest)
  BY DEF LacksBut
<1> QED BY <1>1, ObjectToldBut

-----------------------------------------------------------------------------
(* Routes.                                                                 *)

\* The matcher's members and the conditions on them.
MatcherParts(r) ==
    [host |-> List([i \in DOMAIN r.hosts |-> r.hosts[i].name]), path |-> List(r.paths)]

MatcherGiven(r) == [host |-> r.hosts # <<>>, path |-> r.paths # <<>>]

IsRoute(r) == IsRecord(r, RouteTypes)

LEMMA RouteLists ==
    ASSUME NEW r, IsRoute(r)
    PROVE  r.hosts \in Seq(Host) /\ r.paths \in Seq(Text) /\ r.upstreams \in Seq(UpstreamId)
<1>1. /\ "hosts" \in DOMAIN RouteTypes /\ RouteTypes["hosts"] = Seq(Host)
      /\ "paths" \in DOMAIN RouteTypes /\ RouteTypes["paths"] = Seq(Text)
      /\ "upstreams" \in DOMAIN RouteTypes /\ RouteTypes["upstreams"] = Seq(UpstreamId)
  BY DEF RouteTypes
<1>2. \A field \in DOMAIN RouteTypes : r[field] \in RouteTypes[field]
  BY DEF IsRoute, IsRecord
<1> QED BY <1>1, <1>2

LEMMA MatcherLists ==
    ASSUME PositionsAreNumerals, NEW r, IsRoute(r)
    PROVE  /\ Listed([i \in DOMAIN r.hosts |-> r.hosts[i].name]) /\ Listed(r.paths)
           /\ r.hosts # <<>> => 1 \in DOMAIN [i \in DOMAIN r.hosts |-> r.hosts[i].name]
           /\ r.paths # <<>> => 1 \in DOMAIN r.paths
<1>1. Listed(r.hosts) /\ Listed(r.paths)
  BY RouteLists, SeqListed
<1>2. r.hosts # <<>> => 1 \in DOMAIN r.hosts
  BY RouteLists, SeqInhabited
<1>3. r.paths # <<>> => 1 \in DOMAIN r.paths
  BY RouteLists, SeqInhabited
<1>4. DOMAIN [i \in DOMAIN r.hosts |-> r.hosts[i].name] = DOMAIN r.hosts
  OBVIOUS
<1> QED BY <1>1, <1>2, <1>3, <1>4 DEF Listed

LEMMA MatcherMembers ==
    ASSUME PositionsAreNumerals, NEW r, IsRoute(r)
    PROVE  Members(MatcherParts(r))
<1> DEFINE m == MatcherParts(r)
<1>1. DOMAIN m = {"host", "path"} /\ IsFunction(m)
  BY DEF MatcherParts, IsFunction
<1>2. IsDoc(m["host"]) /\ IsDoc(m["path"])
  BY MatcherLists, ListIsDoc DEF MatcherParts
<1>3. "host" \in Segment /\ "path" \in Segment
  BY KeysAreSegments DEF Keys
<1> QED BY <1>1, <1>2, <1>3 DEF Members

LEMMA MatcherShows ==
    ASSUME PositionsAreNumerals, NEW r, IsRoute(r), NEW e
    PROVE  Shows(MatcherParts(r), MatcherGiven(r), e)
<1>1. /\ MatcherGiven(r)["host"] => HasLeaves(MatcherParts(r)["host"])
      /\ MatcherGiven(r)["path"] => HasLeaves(MatcherParts(r)["path"])
  BY MatcherLists, ListLeaves DEF MatcherParts, MatcherGiven
<1>2. DOMAIN MatcherParts(r) = {"host", "path"}
  BY DEF MatcherParts
<1> QED BY <1>1, <1>2 DEF Shows

LEMMA MatcherIs ==
    ASSUME NEW r PROVE Matcher(r) = Given(MatcherParts(r), MatcherGiven(r))
BY DEF Matcher, MatcherParts, MatcherGiven

LEMMA MatchersTold ==
    ASSUME PositionsAreNumerals, NEW r, NEW t, IsRoute(r), IsRoute(t)
    PROVE  Told(ObjectOf(Matcher(r)), ObjectOf(Matcher(t)))
<1>1. DOMAIN MatcherParts(r) = DOMAIN MatcherParts(t) /\ DOMAIN MatcherGiven(r) = DOMAIN MatcherGiven(t)
  BY DEF MatcherParts, MatcherGiven
<1>2. PartsTold(MatcherParts(r), MatcherParts(t))
  <2>1. Told(MatcherParts(r)["host"], MatcherParts(t)["host"])
    BY MatcherLists, ListsTold DEF MatcherParts
  <2>2. Told(MatcherParts(r)["path"], MatcherParts(t)["path"])
    BY MatcherLists, ListsTold DEF MatcherParts
  <2>3. DOMAIN MatcherParts(r) = {"host", "path"}
    BY DEF MatcherParts
  <2> QED BY <2>1, <2>2, <2>3 DEF PartsTold
<1> QED BY <1>1, <1>2, MatcherMembers, MatcherShows, MatcherIs, GivenTold

LEMMA MatcherLeaves ==
    ASSUME PositionsAreNumerals, NEW r, IsRoute(r), DOMAIN Matcher(r) # {}
    PROVE  HasLeaves(ObjectOf(Matcher(r)))
<1>1. PICK k \in DOMAIN Matcher(r) : TRUE
  OBVIOUS
<1>2. k \in DOMAIN MatcherParts(r) /\ MatcherGiven(r)[k] /\ Matcher(r)[k] = MatcherParts(r)[k]
  <2>1. DOMAIN MatcherParts(r) = DOMAIN MatcherGiven(r)
    BY DEF MatcherParts, MatcherGiven
  <2> QED BY <2>1, MatcherIs, GivenDomain, GivenAt
<1>3. HasLeaves(MatcherParts(r)[k])
  <2> DEFINE never == [key \in {"host", "path"} |-> FALSE]
  <2>1. Shows(MatcherParts(r), MatcherGiven(r), never)
    BY MatcherShows
  <2>2. k \in DOMAIN MatcherGiven(r) /\ ~never[k]
    BY <1>2 DEF MatcherParts, MatcherGiven
  <2> QED BY <1>2, <2>1, <2>2 DEF Shows
<1>4. Members(Matcher(r))
  BY MatcherMembers, MatcherIs, GivenMembers
<1> QED BY <1>2, <1>3, <1>4, ObjectLeaves

-----------------------------------------------------------------------------

OpsParts(r) == [side \in r.headers |-> ArrayOf(<<Text1(side)>>)]

LEMMA RouteHeaders ==
    ASSUME NEW r, IsRoute(r) PROVE r.headers \subseteq {"request", "response"}
<1>1. "headers" \in DOMAIN RouteTypes /\ RouteTypes["headers"] = SUBSET {"request", "response"}
  BY DEF RouteTypes
<1> QED BY <1>1 DEF IsRoute, IsRecord

LEMMA OpsMembers ==
    ASSUME PositionsAreNumerals, NEW r, IsRoute(r)
    PROVE  Members(OpsParts(r)) /\ Full(OpsParts(r))
<1>1. IsFunction(OpsParts(r)) /\ DOMAIN OpsParts(r) = r.headers
  BY DEF OpsParts, IsFunction
<1>2. \A side \in r.headers : IsDoc(OpsParts(r)[side]) /\ HasLeaves(OpsParts(r)[side])
  BY TextIsDoc, OneIsDoc, OneHasLeaves DEF OpsParts
<1>3. \A side \in r.headers : side \in Segment
  BY RouteHeaders, KeysAreSegments DEF Keys
<1> QED BY <1>1, <1>2, <1>3 DEF Members, Full

LEMMA OpsTold ==
    ASSUME PositionsAreNumerals, NEW r, NEW t, IsRoute(r), IsRoute(t)
    PROVE  Told(HeaderOps(r), HeaderOps(t))
<1>1. PartsTold(OpsParts(r), OpsParts(t))
  BY TextIsDoc, TextsTold, OneTold DEF PartsTold, OpsParts
<1>2. LacksLeaves(OpsParts(r), OpsParts(t)) /\ LacksLeaves(OpsParts(t), OpsParts(r))
  BY OpsMembers, FullLacks
<1>3. Told(ObjectOf(OpsParts(r)), ObjectOf(OpsParts(t)))
  BY <1>1, <1>2, OpsMembers, ObjectTold
<1> QED BY <1>3 DEF HeaderOps, OpsParts

LEMMA OpsIsDoc ==
    ASSUME PositionsAreNumerals, NEW r, IsRoute(r) PROVE IsDoc(HeaderOps(r))
<1>1. IsDoc(ObjectOf(OpsParts(r)))
  BY OpsMembers, ObjectIsDoc
<1> QED BY <1>1 DEF HeaderOps, OpsParts

LEMMA OpsLeaves ==
    ASSUME PositionsAreNumerals, NEW r, IsRoute(r), r.headers # {} PROVE HasLeaves(HeaderOps(r))
<1>1. PICK side \in r.headers : TRUE
  OBVIOUS
<1>2. side \in DOMAIN OpsParts(r)
  BY DEF OpsParts
<1>3. HasLeaves(ObjectOf(OpsParts(r)))
  BY <1>2, OpsMembers, ObjectLeaves DEF Full
<1> QED BY <1>3 DEF HeaderOps, OpsParts

-----------------------------------------------------------------------------

Dial(s, r) == [i \in DOMAIN r.upstreams |-> ObjectOf([dial |-> Text1(s.upstreams[r.upstreams[i]].dest)])]

DialOf(d) == [dial |-> Text1(d)]

LEMMA DialMembers ==
    ASSUME NEW d PROVE Members(DialOf(d)) /\ "dial" \in DOMAIN DialOf(d) /\ HasLeaves(DialOf(d)["dial"])
<1>1. DOMAIN DialOf(d) = {"dial"} /\ IsFunction(DialOf(d)) /\ DialOf(d)["dial"] = Text1(d)
  BY DEF DialOf, IsFunction
<1>2. "dial" \in Segment
  BY KeysAreSegments DEF Keys
<1> QED BY <1>1, <1>2, TextIsDoc DEF Members

LEMMA DialsTold ==
    ASSUME NEW d, NEW e PROVE Told(ObjectOf(DialOf(d)), ObjectOf(DialOf(e)))
<1>1. PartsTold(DialOf(d), DialOf(e))
  BY TextsTold DEF PartsTold, DialOf
<1>2. LacksLeaves(DialOf(d), DialOf(e)) /\ LacksLeaves(DialOf(e), DialOf(d))
  BY DEF LacksLeaves, DialOf
<1> QED BY <1>1, <1>2, DialMembers, ObjectTold

LEMMA DialElements ==
    ASSUME NEW s, NEW r, IsRoute(r)
    PROVE  Elements(Dial(s, r)) /\ Full(Dial(s, r))
<1>1. IsFunction(Dial(s, r)) /\ DOMAIN Dial(s, r) = DOMAIN r.upstreams
  BY DEF Dial, IsFunction
<1>2. Listed(r.upstreams)
  BY RouteLists, SeqListed
<1>3. \A i \in DOMAIN r.upstreams :
         Dial(s, r)[i] = ObjectOf(DialOf(s.upstreams[r.upstreams[i]].dest))
  BY DEF Dial, DialOf
<1>4. \A d : IsDoc(ObjectOf(DialOf(d))) /\ HasLeaves(ObjectOf(DialOf(d)))
  BY DialMembers, ObjectIsDoc, ObjectLeaves
<1> QED BY <1>1, <1>2, <1>3, <1>4 DEF Elements, Full, Listed

LEMMA DialTold ==
    ASSUME PositionsAreNumerals, NEW s, NEW u, NEW r, NEW t, IsRoute(r), IsRoute(t)
    PROVE  Told(ArrayOf(Dial(s, r)), ArrayOf(Dial(u, t)))
<1>1. PartsTold(Dial(s, r), Dial(u, t))
  BY DialsTold DEF PartsTold, Dial, DialOf
<1>2. LacksLeaves(Dial(s, r), Dial(u, t)) /\ LacksLeaves(Dial(u, t), Dial(s, r))
  BY DialElements, FullLacks
<1> QED BY <1>1, <1>2, DialElements, ArrayTold

\* The bodies of the presets are documents, or none.
BodiesAreDocs(s) == \A p \in DOMAIN s.presets : s.presets[p].body \in Opt(Document)

LEMMA DocumentIsDoc ==
    ASSUME NEW d \in Document PROVE IsDoc(d) /\ d # None /\ Kind(d, Root) # "absent"
<1>1. IsDocument(d) /\ d # None
  BY DocumentAssumption
<1>2. ASSUME NEW p \in DOMAIN d PROVE p \in Path
  <2>1. p \in Seq(BodySegment) /\ BodySegment \subseteq Segment
    BY <1>1 DEF IsDocument, Segment
  <2> QED BY <2>1 DEF Path
<1>3. Root \in DOMAIN d /\ (d[Root] \in {Object, Array} \/ d[Root] = Scalar(d[Root].value))
  BY <1>1 DEF IsDocument
<1>4. d[Root].kind # "absent"
  BY <1>3 DEF Object, Array, Scalar
<1> QED BY <1>1, <1>2, <1>3, <1>4 DEF IsDocument, IsDoc, Kind

LEMMA BodiesTold ==
    ASSUME NEW d \in Document, NEW e \in Document PROVE ToldBut(d, e, <<>>)
<1> SUFFICES ASSUME SameLeaves(d, e), ~KindsDiffer(d, e, <<>>) PROVE d = e
  BY DEF ToldBut
<1>1. IsDocument(d) /\ IsDocument(e)
  BY DocumentAssumption
<1>2. ASSUME NEW p \in DOMAIN d \cup DOMAIN e PROVE Kind(d, p) = Kind(e, p)
  <2>1. p \in Path
    BY DocumentIsDoc DEF IsDoc
  <2>2. Len(p) \in Nat
    BY <2>1 DEF Path
  <2>3. SegmentMatch(p, <<>>)
    BY <2>2 DEF SegmentMatch
  <2> QED BY <2>3 DEF KindsDiffer
<1>3. \A p \in DOMAIN d : d[p].kind \in {"object", "array", "scalar"}
  BY <1>1 DEF IsDocument, Object, Array, Scalar
<1>4. \A p \in DOMAIN e : e[p].kind \in {"object", "array", "scalar"}
  BY <1>1 DEF IsDocument, Object, Array, Scalar
<1>5. DOMAIN d = DOMAIN e
  BY <1>2, <1>3, <1>4 DEF Kind
<1>6. ASSUME NEW p \in DOMAIN d PROVE d[p] = e[p]
  <2>1. d[p].kind = e[p].kind
    BY <1>2, <1>5, <1>6 DEF Kind
  <2>2. CASE d[p].kind = "scalar"
    BY <1>5, <1>6, <2>1, <2>2 DEF SameLeaves, Differ, Leaves
  <2>3. CASE d[p].kind # "scalar"
    <3>1. d[p] \in {Object, Array} /\ e[p] \in {Object, Array}
      BY <1>1, <1>5, <1>6, <2>1, <2>3 DEF IsDocument, Scalar
    <3> QED BY <2>1, <3>1 DEF Object, Array
  <2> QED BY <2>2, <2>3
<1> QED BY <1>1, <1>5, <1>6, SameFunction DEF IsDocument

LEMMA PolicyBodyIs ==
    ASSUME NEW s, BodiesAreDocs(s), NEW r PROVE PolicyBody(s, r) \in Opt(Document)
BY DEF BodiesAreDocs, PolicyBody, PresetOf, Opt

\* The policy, made a document where there is none.
PolicyPart(s, r) == IF PolicyBody(s, r) = None THEN Leaf("null") ELSE PolicyBody(s, r)

LEMMA PolicyPartIs ==
    ASSUME NEW s, BodiesAreDocs(s), NEW r
    PROVE  /\ IsDoc(PolicyPart(s, r)) /\ Kind(PolicyPart(s, r), Root) # "absent"
           /\ PolicyBody(s, r) # None => PolicyPart(s, r) \in Document
<1>1. CASE PolicyBody(s, r) = None
  <2>1. PolicyPart(s, r) = Leaf("null")
    BY <1>1 DEF PolicyPart
  <2>2. Kind(Leaf("null"), Root) = "scalar"
    BY DEF Leaf, Scalar, Kind
  <2> QED BY <1>1, <2>1, <2>2, LeafIsDoc
<1>2. CASE PolicyBody(s, r) # None
  <2>1. PolicyPart(s, r) = PolicyBody(s, r) /\ PolicyBody(s, r) \in Document
    BY <1>2, PolicyBodyIs DEF PolicyPart, Opt
  <2> QED BY <2>1, DocumentIsDoc
<1> QED BY <1>1, <1>2

ProxyParts(s, r) ==
    [handler |-> Leaf("reverse_proxy"), upstreams |-> ArrayOf(Dial(s, r)),
     headers |-> HeaderOps(r), policy |-> PolicyPart(s, r)]

ProxyGiven(s, r) == [headers |-> r.headers # {}, policy |-> PolicyBody(s, r) # None]

RedirectParts(r) ==
    [handler |-> Leaf("static_response"), status_code |-> Text1(r.redirect.status),
     location |-> Text1(r.redirect.scheme)]

LEMMA HandlerIs ==
    ASSUME NEW s, NEW r
    PROVE  Handler(s, r) = IF r.redirect # None THEN RedirectParts(r)
                           ELSE Given(ProxyParts(s, r), ProxyGiven(s, r))
<1> DEFINE m == [handler |-> Leaf("reverse_proxy"), upstreams |-> ArrayOf(Dial(s, r)),
                 headers |-> HeaderOps(r), policy |-> PolicyBody(s, r)]
           n == ProxyParts(s, r)
           c == ProxyGiven(s, r)
<1>1. DOMAIN m = DOMAIN n /\ \A k \in DOMAIN m : (k \in DOMAIN c => c[k]) => m[k] = n[k]
  <2>1. /\ DOMAIN m = {"handler", "upstreams", "headers", "policy"} /\ DOMAIN n = DOMAIN m
        /\ m["handler"] = n["handler"] /\ m["upstreams"] = n["upstreams"]
        /\ m["headers"] = n["headers"]
    BY DEF ProxyParts
  <2>2. "policy" \in DOMAIN c /\ (c["policy"] <=> PolicyBody(s, r) # None)
    BY DEF ProxyGiven
  <2>3. m["policy"] = PolicyBody(s, r) /\ n["policy"] = PolicyPart(s, r)
    BY DEF ProxyParts
  <2>4. c["policy"] => m["policy"] = n["policy"]
    BY <2>2, <2>3 DEF PolicyPart
  <2> HIDE DEF m, n, c
  <2> QED BY <2>1, <2>2, <2>4
<1>2. Handler(s, r) = IF r.redirect # None THEN RedirectParts(r) ELSE Given(m, c)
  BY DEF Handler, RedirectParts, ProxyGiven, Dial
<1> HIDE DEF m, n, c
<1>3. Given(m, c) = Given(n, c)
  BY <1>1 DEF Given
<1> QED BY <1>2, <1>3 DEF n, c

LEMMA ProxyMembers ==
    ASSUME PositionsAreNumerals, NEW s, BodiesAreDocs(s), NEW r, IsRoute(r)
    PROVE  Members(ProxyParts(s, r))
<1> DEFINE m == ProxyParts(s, r)
<1>1. DOMAIN m = {"handler", "upstreams", "headers", "policy"} /\ IsFunction(m)
  BY DEF ProxyParts, IsFunction
<1>2. IsDoc(m["handler"]) /\ IsDoc(m["policy"])
  BY LeafIsDoc, PolicyPartIs DEF ProxyParts
<1>3. IsDoc(m["upstreams"])
  BY DialElements, ArrayIsDoc DEF ProxyParts
<1>4. IsDoc(m["headers"])
  BY OpsIsDoc DEF ProxyParts
<1>5. \A k \in {"handler", "upstreams", "headers", "policy"} : k \in Segment
  BY KeysAreSegments DEF Keys
<1> HIDE DEF m
<1>6. Members(m)
  BY <1>1, <1>2, <1>3, <1>4, <1>5 DEF Members
<1> QED BY <1>6 DEF m

LEMMA RedirectMembers ==
    ASSUME NEW r PROVE Members(RedirectParts(r)) /\ Full(RedirectParts(r))
<1> DEFINE m == RedirectParts(r)
<1>1. DOMAIN m = {"handler", "status_code", "location"} /\ IsFunction(m)
  BY DEF RedirectParts, IsFunction
<1>2. \A k \in DOMAIN m : IsDoc(m[k]) /\ HasLeaves(m[k])
  BY LeafIsDoc, TextIsDoc DEF RedirectParts
<1>3. \A k \in {"handler", "status_code", "location"} : k \in Segment
  BY KeysAreSegments DEF Keys
<1> HIDE DEF m
<1>4. Members(m) /\ Full(m)
  BY <1>1, <1>2, <1>3 DEF Members, Full
<1> QED BY <1>4 DEF m

LEMMA ProxyShows ==
    ASSUME PositionsAreNumerals, NEW s, BodiesAreDocs(s), NEW r, IsRoute(r), NEW e
    PROVE  ShowsBut(ProxyParts(s, r), ProxyGiven(s, r), e, "policy", <<>>)
<1>1. ProxyGiven(s, r)["headers"] => HasLeaves(ProxyParts(s, r)["headers"])
  BY OpsLeaves DEF ProxyParts, ProxyGiven
<1>2. Kind(ProxyParts(s, r)["policy"], Root) # "absent"
  BY PolicyPartIs DEF ProxyParts
<1>3. DOMAIN ProxyGiven(s, r) = {"headers", "policy"}
  BY DEF ProxyGiven
<1> QED BY <1>1, <1>2, <1>3 DEF ShowsBut

\* Two handlers are told apart by their leaves and the kinds in their policies.
LEMMA ProxiesTold ==
    ASSUME PositionsAreNumerals, NEW s, NEW u, BodiesAreDocs(s), BodiesAreDocs(u),
           NEW r, NEW t, IsRoute(r), IsRoute(t)
    PROVE  ToldBut(ObjectOf(Given(ProxyParts(s, r), ProxyGiven(s, r))),
                   ObjectOf(Given(ProxyParts(u, t), ProxyGiven(u, t))), <<"policy">>)
<1> DEFINE m == ProxyParts(s, r)
           n == ProxyParts(u, t)
           c == ProxyGiven(s, r)
           e == ProxyGiven(u, t)
<1>1. DOMAIN m = {"handler", "upstreams", "headers", "policy"} /\ DOMAIN n = DOMAIN m
  BY DEF ProxyParts
<1>2. DOMAIN c = {"headers", "policy"} /\ DOMAIN e = DOMAIN c
  BY DEF ProxyGiven
<1>3. Told(m["handler"], n["handler"])
  BY LeavesTold DEF ProxyParts
<1>4. Told(m["upstreams"], n["upstreams"])
  BY DialTold DEF ProxyParts
<1>5. Told(m["headers"], n["headers"])
  BY OpsTold DEF ProxyParts
<1>6. Members(m) /\ Members(n)
  BY ProxyMembers
<1>7. ShowsBut(m, c, e, "policy", <<>>) /\ ShowsBut(n, e, c, "policy", <<>>)
  BY ProxyShows
<1>8. c["policy"] /\ e["policy"] => ToldBut(m["policy"], n["policy"], <<>>)
  BY PolicyPartIs, BodiesTold DEF ProxyParts, ProxyGiven
<1> HIDE DEF m, n, c, e
<1>9. /\ LacksBut(Given(m, c), Given(n, e), "policy", <<>>)
      /\ LacksBut(Given(n, e), Given(m, c), "policy", <<>>)
  BY <1>1, <1>2, <1>7, GivenLacksBut
<1>10. PartsToldBut(Given(m, c), Given(n, e), "policy", <<>>)
  <2> SUFFICES ASSUME NEW k \in DOMAIN Given(m, c) \cap DOMAIN Given(n, e)
               PROVE  Told(m[k], n[k]) \/ ("policy" \in {"*", k} /\ ToldBut(m[k], n[k], <<>>))
    BY GivenAt DEF PartsToldBut
  <2>1. k \in DOMAIN m /\ (k \in DOMAIN c => c[k]) /\ (k \in DOMAIN e => e[k])
    BY GivenDomain
  <2> QED BY <1>1, <1>2, <1>3, <1>4, <1>5, <1>8, <2>1
<1>11. Begins(<<"policy">>, "policy", <<>>)
  BY DEF Begins
<1>12. Members(Given(m, c)) /\ Members(Given(n, e))
  BY <1>6, GivenMembers
<1>13. ToldBut(ObjectOf(Given(m, c)), ObjectOf(Given(n, e)), <<"policy">>)
  BY <1>9, <1>10, <1>11, <1>12, ObjectToldBut
<1> QED BY <1>13 DEF m, n, c, e

LEMMA RedirectsTold ==
    ASSUME NEW r, NEW t
    PROVE  Told(ObjectOf(RedirectParts(r)), ObjectOf(RedirectParts(t)))
<1>1. PartsTold(RedirectParts(r), RedirectParts(t))
  BY LeavesTold, TextsTold DEF PartsTold, RedirectParts
<1> QED BY <1>1, RedirectMembers, FullLacks, ObjectTold

LEMMA HandlerMembers ==
    ASSUME PositionsAreNumerals, NEW s, BodiesAreDocs(s), NEW r, IsRoute(r)
    PROVE  Members(Handler(s, r))
BY HandlerIs, ProxyMembers, RedirectMembers, GivenMembers

\* A handler's first member names its kind.
HandlerName(r) == IF r.redirect # None THEN "static_response" ELSE "reverse_proxy"

LEMMA HandlerNamed ==
    ASSUME NEW s, NEW r
    PROVE  "handler" \in DOMAIN Handler(s, r) /\ Handler(s, r)["handler"] = Leaf(HandlerName(r))
<1>1. CASE r.redirect # None
  BY <1>1, HandlerIs DEF RedirectParts, HandlerName
<1>2. CASE r.redirect = None
  <2>1. "handler" \in DOMAIN ProxyParts(s, r) /\ "handler" \notin DOMAIN ProxyGiven(s, r)
    BY DEF ProxyParts, ProxyGiven
  <2>2. /\ "handler" \in DOMAIN Given(ProxyParts(s, r), ProxyGiven(s, r))
        /\ Given(ProxyParts(s, r), ProxyGiven(s, r))["handler"] = ProxyParts(s, r)["handler"]
    BY <2>1, GivenDomain, GivenAt
  <2>3. ProxyParts(s, r)["handler"] = Leaf("reverse_proxy")
    BY DEF ProxyParts
  <2> QED BY <1>2, <2>2, <2>3, HandlerIs DEF HandlerName
<1> QED BY <1>1, <1>2

LEMMA HandlerLeaves ==
    ASSUME PositionsAreNumerals, NEW s, BodiesAreDocs(s), NEW r, IsRoute(r)
    PROVE  HasLeaves(ObjectOf(Handler(s, r)))
BY HandlerMembers, HandlerNamed, LeafIsDoc, ObjectLeaves

LEMMA LeafValue ==
    ASSUME NEW v, NEW w, Leaf(v) = Leaf(w) PROVE v = w
<1>1. Leaf(v)[Root] = Scalar(v) /\ Leaf(w)[Root] = Scalar(w)
  BY DEF Leaf
<1>2. Scalar(v).value = v /\ Scalar(w).value = w
  BY DEF Scalar
<1> QED BY <1>1, <1>2

LEMMA HandlersTold ==
    ASSUME PositionsAreNumerals, NEW s, NEW u, BodiesAreDocs(s), BodiesAreDocs(u),
           NEW r, NEW t, IsRoute(r), IsRoute(t)
    PROVE  ToldBut(ObjectOf(Handler(s, r)), ObjectOf(Handler(u, t)), <<"policy">>)
<1>1. CASE r.redirect # None /\ t.redirect # None
  BY <1>1, HandlerIs, RedirectsTold DEF Told, ToldBut
<1>2. CASE r.redirect = None /\ t.redirect = None
  BY <1>2, HandlerIs, ProxiesTold
<1>3. CASE HandlerName(r) # HandlerName(t)
  <2> SUFFICES ASSUME SameLeaves(ObjectOf(Handler(s, r)), ObjectOf(Handler(u, t))) PROVE FALSE
    BY DEF ToldBut
  <2>1. /\ Composed(ObjectOf(Handler(s, r)), Handler(s, r))
        /\ Composed(ObjectOf(Handler(u, t)), Handler(u, t))
    BY HandlerMembers, ObjectComposed
  <2>2. "handler" \in DOMAIN Handler(s, r) /\ "handler" \in DOMAIN Handler(u, t)
    BY HandlerNamed
  <2>3. SameLeaves(Handler(s, r)["handler"], Handler(u, t)["handler"])
    BY <2>1, <2>2, SamePart
  <2>4. Leaf(HandlerName(r)) = Leaf(HandlerName(t))
    BY <2>3, HandlerNamed, LeavesTold DEF Told
  <2> QED BY <1>3, <2>4, LeafValue
<1> QED BY <1>1, <1>2, <1>3 DEF HandlerName

-----------------------------------------------------------------------------

RouteParts(s, r) ==
    [match |-> ArrayOf(<<ObjectOf(Matcher(r))>>), handle |-> ArrayOf(<<ObjectOf(Handler(s, r))>>)]

RouteGiven(r) == [match |-> DOMAIN Matcher(r) # {}]

LEMMA RouteIs ==
    ASSUME NEW s, NEW r PROVE RouteConfig(s, r) = ObjectOf(Given(RouteParts(s, r), RouteGiven(r)))
BY DEF RouteConfig, RouteParts, RouteGiven

LEMMA RoutePartsDocs ==
    ASSUME PositionsAreNumerals, NEW s, BodiesAreDocs(s), NEW r, IsRoute(r)
    PROVE  /\ IsDoc(ObjectOf(Matcher(r))) /\ IsDoc(ObjectOf(Handler(s, r)))
           /\ DOMAIN RouteParts(s, r) = {"match", "handle"} /\ Members(RouteParts(s, r))
<1>1. IsDoc(ObjectOf(Matcher(r)))
  BY MatcherMembers, MatcherIs, GivenMembers, ObjectIsDoc
<1>2. IsDoc(ObjectOf(Handler(s, r)))
  BY HandlerMembers, ObjectIsDoc
<1>3. IsFunction(RouteParts(s, r)) /\ DOMAIN RouteParts(s, r) = {"match", "handle"}
  BY DEF RouteParts, IsFunction
<1>4. IsDoc(RouteParts(s, r)["match"]) /\ IsDoc(RouteParts(s, r)["handle"])
  BY <1>1, <1>2, OneIsDoc DEF RouteParts
<1>5. "match" \in Segment /\ "handle" \in Segment
  BY KeysAreSegments DEF Keys
<1>6. Members(RouteParts(s, r))
  BY <1>3, <1>4, <1>5 DEF Members
<1> QED BY <1>1, <1>2, <1>3, <1>6

LEMMA RouteShows ==
    ASSUME PositionsAreNumerals, NEW s, BodiesAreDocs(s), NEW r, IsRoute(r), NEW e, NEW x, NEW rest
    PROVE  ShowsBut(RouteParts(s, r), RouteGiven(r), e, x, rest)
<1>1. RouteGiven(r)["match"] => HasLeaves(RouteParts(s, r)["match"])
  BY MatcherLeaves, RoutePartsDocs, OneHasLeaves DEF RouteParts, RouteGiven
<1>2. DOMAIN RouteGiven(r) = {"match"}
  BY DEF RouteGiven
<1> QED BY <1>1, <1>2 DEF ShowsBut

LEMMA HandlesTold ==
    ASSUME PositionsAreNumerals, NEW s, NEW u, BodiesAreDocs(s), BodiesAreDocs(u),
           NEW r, NEW t, IsRoute(r), IsRoute(t)
    PROVE  ToldBut(ArrayOf(<<ObjectOf(Handler(s, r))>>), ArrayOf(<<ObjectOf(Handler(u, t))>>), <<"*", "policy">>)
<1> DEFINE e == <<ObjectOf(Handler(s, r))>>
           f == <<ObjectOf(Handler(u, t))>>
<1>1. Begins(<<"*", "policy">>, "*", <<"policy">>)
  BY DEF Begins
<1>2. Elements(e) /\ Elements(f)
  BY RoutePartsDocs, OneElement
<1>3. /\ \A i \in DOMAIN e : i = 1 /\ e[i] = ObjectOf(Handler(s, r))
      /\ \A i \in DOMAIN f : i = 1 /\ f[i] = ObjectOf(Handler(u, t))
  OBVIOUS
<1> HIDE DEF e, f
<1>4. Full(e) /\ Full(f)
  BY <1>3, HandlerLeaves DEF Full
<1>5. \A i \in DOMAIN e \cap DOMAIN f : ToldBut(e[i], f[i], <<"policy">>)
  BY <1>3, HandlersTold
<1>6. ToldBut(ArrayOf(e), ArrayOf(f), <<"*", "policy">>)
  BY <1>1, <1>2, <1>4, <1>5, ArrayToldBut
<1> QED BY <1>6 DEF e, f

LEMMA RoutesTold ==
    ASSUME PositionsAreNumerals, NEW s, NEW u, BodiesAreDocs(s), BodiesAreDocs(u),
           NEW r, NEW t, IsRoute(r), IsRoute(t)
    PROVE  ToldBut(RouteConfig(s, r), RouteConfig(u, t), <<"handle", "*", "policy">>)
<1> DEFINE m == RouteParts(s, r)
           n == RouteParts(u, t)
           rest == <<"*", "policy">>
           pattern == <<"handle", "*", "policy">>
<1>0. Begins(pattern, "handle", rest)
  BY DEF Begins
<1>1. Told(m["match"], n["match"]) /\ ToldBut(m["handle"], n["handle"], rest)
  BY RoutePartsDocs, MatchersTold, HandlesTold, OneTold DEF RouteParts
<1>2. DOMAIN m = {"match", "handle"} /\ DOMAIN n = DOMAIN m /\ Members(m) /\ Members(n)
  BY RoutePartsDocs
<1>3. /\ ShowsBut(m, RouteGiven(r), RouteGiven(t), "handle", rest)
      /\ ShowsBut(n, RouteGiven(t), RouteGiven(r), "handle", rest)
  BY RouteShows
<1>4. DOMAIN RouteGiven(r) = DOMAIN RouteGiven(t)
  BY DEF RouteGiven
<1>6. RouteConfig(s, r) = ObjectOf(Given(m, RouteGiven(r))) /\ RouteConfig(u, t) = ObjectOf(Given(n, RouteGiven(t)))
  BY RouteIs
<1> HIDE DEF m, n, rest, pattern
<1>5. PartsToldBut(m, n, "handle", rest)
  BY <1>1, <1>2 DEF PartsToldBut
<1>7. ToldBut(RouteConfig(s, r), RouteConfig(u, t), pattern)
  BY <1>0, <1>2, <1>3, <1>4, <1>5, <1>6, GivenToldBut
<1> QED BY <1>7 DEF pattern

LEMMA RouteIsDoc ==
    ASSUME PositionsAreNumerals, NEW s, BodiesAreDocs(s), NEW r, IsRoute(r)
    PROVE  IsDoc(RouteConfig(s, r)) /\ HasLeaves(RouteConfig(s, r))
<1> DEFINE m == RouteParts(s, r)
<1>1. Members(Given(m, RouteGiven(r)))
  BY RoutePartsDocs, GivenMembers
<1>2. "handle" \in DOMAIN Given(m, RouteGiven(r))
  BY RoutePartsDocs, GivenDomain DEF RouteGiven
<1>3. HasLeaves(m["handle"])
  BY RoutePartsDocs, HandlerLeaves, OneHasLeaves DEF RouteParts
<1>4. HasLeaves(Given(m, RouteGiven(r))["handle"])
  BY <1>2, <1>3, GivenAt
<1> QED BY <1>1, <1>2, <1>4, RouteIs, ObjectIsDoc, ObjectLeaves

-----------------------------------------------------------------------------
(* TLS.                                                                    *)

DemandParts(tls) == [ask |-> Text1(tls.askUrl)]

DemandGiven(tls) == [ask |-> tls.askUrl # None]

LEMMA DemandIs ==
    ASSUME NEW tls PROVE OnDemand(tls) = ObjectOf(Given(DemandParts(tls), DemandGiven(tls)))
BY DEF OnDemand, DemandParts, DemandGiven

LEMMA DemandMembers ==
    ASSUME NEW tls
    PROVE  /\ Members(DemandParts(tls)) /\ DOMAIN DemandParts(tls) = {"ask"}
           /\ HasLeaves(DemandParts(tls)["ask"])
<1>1. IsFunction(DemandParts(tls)) /\ DOMAIN DemandParts(tls) = {"ask"}
  BY DEF DemandParts, IsFunction
<1>2. IsDoc(DemandParts(tls)["ask"]) /\ HasLeaves(DemandParts(tls)["ask"])
  BY TextIsDoc DEF DemandParts
<1>3. "ask" \in Segment
  BY KeysAreSegments DEF Keys
<1>4. Members(DemandParts(tls))
  BY <1>1, <1>2, <1>3 DEF Members
<1> QED BY <1>1, <1>2, <1>4

LEMMA DemandIsDoc ==
    ASSUME NEW tls PROVE IsDoc(OnDemand(tls))
BY DemandMembers, DemandIs, GivenMembers, ObjectIsDoc

LEMMA DemandsTold ==
    ASSUME NEW a, NEW b PROVE Told(OnDemand(a), OnDemand(b))
<1>1. PartsTold(DemandParts(a), DemandParts(b))
  <2>1. Told(DemandParts(a)["ask"], DemandParts(b)["ask"])
    BY TextsTold DEF DemandParts
  <2> QED BY <2>1, DemandMembers DEF PartsTold
<1>2. Shows(DemandParts(a), DemandGiven(a), DemandGiven(b)) /\ Shows(DemandParts(b), DemandGiven(b), DemandGiven(a))
  BY DemandMembers DEF Shows
<1>3. DOMAIN DemandGiven(a) = DOMAIN DemandGiven(b) /\ DOMAIN DemandParts(a) = DOMAIN DemandParts(b)
  BY DEF DemandGiven, DemandParts
<1> QED BY <1>1, <1>2, <1>3, DemandMembers, DemandIs, GivenTold

TlsParts(tls) ==
    [on_demand |-> OnDemand(tls), policies |-> ArrayOf(<<Text1(tls.issuer)>>), email |-> Text1(tls.email)]

TlsGiven(tls) == [on_demand |-> tls.onDemand, policies |-> tls.issuer # None, email |-> tls.email # None]

LEMMA AutomationIs ==
    ASSUME NEW tls PROVE Automation(tls) = ObjectOf(Given(TlsParts(tls), TlsGiven(tls)))
BY DEF Automation, TlsParts, TlsGiven

LEMMA TlsMembers ==
    ASSUME PositionsAreNumerals, NEW tls
    PROVE  /\ Members(TlsParts(tls)) /\ DOMAIN TlsParts(tls) = {"on_demand", "policies", "email"}
           /\ HasLeaves(TlsParts(tls)["policies"]) /\ HasLeaves(TlsParts(tls)["email"])
<1> DEFINE m == TlsParts(tls)
<1>1. IsFunction(m) /\ DOMAIN m = {"on_demand", "policies", "email"}
  BY DEF TlsParts, IsFunction
<1>2. IsDoc(m["on_demand"])
  BY DemandIsDoc DEF TlsParts
<1>3. IsDoc(m["policies"]) /\ HasLeaves(m["policies"])
  BY TextIsDoc, OneIsDoc, OneHasLeaves DEF TlsParts
<1>4. IsDoc(m["email"]) /\ HasLeaves(m["email"])
  BY TextIsDoc DEF TlsParts
<1>5. \A k \in {"on_demand", "policies", "email"} : k \in Segment
  BY KeysAreSegments DEF Keys
<1> HIDE DEF m
<1>6. Members(m)
  BY <1>1, <1>2, <1>3, <1>4, <1>5 DEF Members
<1> QED BY <1>1, <1>3, <1>4, <1>6 DEF m

LEMMA TlsShows ==
    ASSUME PositionsAreNumerals, NEW a, NEW b, a.onDemand = b.onDemand
    PROVE  Shows(TlsParts(a), TlsGiven(a), TlsGiven(b))
<1>1. HasLeaves(TlsParts(a)["policies"]) /\ HasLeaves(TlsParts(a)["email"])
  BY TlsMembers
<1>2. DOMAIN TlsGiven(a) = {"on_demand", "policies", "email"} /\ TlsGiven(a)["on_demand"] = TlsGiven(b)["on_demand"]
  BY DEF TlsGiven
<1> QED BY <1>1, <1>2 DEF Shows

LEMMA AutomationsTold ==
    ASSUME PositionsAreNumerals, NEW a, NEW b, a.onDemand = b.onDemand
    PROVE  Told(Automation(a), Automation(b))
<1> DEFINE m == TlsParts(a)
           n == TlsParts(b)
<1>1. Told(m["on_demand"], n["on_demand"])
  BY DemandsTold DEF TlsParts
<1>2. Told(m["policies"], n["policies"])
  BY TextIsDoc, TextsTold, OneTold DEF TlsParts
<1>3. Told(m["email"], n["email"])
  BY TextsTold DEF TlsParts
<1>4. DOMAIN m = {"on_demand", "policies", "email"} /\ DOMAIN n = DOMAIN m /\ Members(m) /\ Members(n)
  BY TlsMembers
<1>5. Shows(m, TlsGiven(a), TlsGiven(b)) /\ Shows(n, TlsGiven(b), TlsGiven(a))
  BY TlsShows
<1>6. DOMAIN TlsGiven(a) = DOMAIN TlsGiven(b)
  BY DEF TlsGiven
<1>7. Automation(a) = ObjectOf(Given(m, TlsGiven(a))) /\ Automation(b) = ObjectOf(Given(n, TlsGiven(b)))
  BY AutomationIs
<1> HIDE DEF m, n
<1>8. PartsTold(m, n)
  BY <1>1, <1>2, <1>3, <1>4 DEF PartsTold
<1> QED BY <1>4, <1>5, <1>6, <1>7, <1>8, GivenTold

LEMMA AutomationIsDoc ==
    ASSUME PositionsAreNumerals, NEW tls PROVE IsDoc(Automation(tls))
BY TlsMembers, AutomationIs, GivenMembers, ObjectIsDoc

-----------------------------------------------------------------------------
(* The routes in their order.                                              *)

\* One more id that may be among those that are found.
OneMore(ids, n, found) == IF IdOrder[n] \in ids THEN Append(found, IdOrder[n]) ELSE found

\* What is found of ids up to each of the first k places.
IsFound(ids, k, f) ==
    /\ IsFunction(f) /\ DOMAIN f = 0..k
    /\ \A n \in 0..k : f[n] = IF n = 0 THEN <<>> ELSE OneMore(ids, n, f[n - 1])

LEMMA FoundExists ==
    ASSUME NEW ids, NEW k \in Nat PROVE \E f : IsFound(ids, k, f)
<1> DEFINE T == {n \in Nat : ~\E f : IsFound(ids, n, f)}
<1> SUFFICES ASSUME T # {} PROVE FALSE
  OBVIOUS
<1>1. PICK n \in T : \A l \in T : n <= l
  <2>1. T \subseteq Nat
    OBVIOUS
  <2> HIDE DEF T
  <2> QED BY <2>1, LeastNatural
<1>2. CASE n = 0
  <2> DEFINE f == [l \in 0..0 |-> <<>>]
  <2>1. IsFunction(f) /\ DOMAIN f = 0..0 /\ \A l \in 0..0 : l = 0 /\ f[l] = <<>>
    BY DEF IsFunction
  <2> HIDE DEF f
  <2>2. IsFound(ids, 0, f)
    BY <2>1 DEF IsFound
  <2> QED BY <1>1, <1>2, <2>2
<1>3. CASE n # 0
  <2>1. n \in Nat /\ n - 1 \in Nat /\ n - 1 \notin T
    BY <1>1, <1>3
  <2>2. PICK g : IsFound(ids, n - 1, g)
    BY <2>1
  <2> DEFINE f == [l \in 0..n |-> IF l = n THEN OneMore(ids, n, g[n - 1]) ELSE g[l]]
  <2>3. IsFunction(f) /\ DOMAIN f = 0..n
    BY DEF IsFunction
  <2>4. ASSUME NEW l \in 0..n PROVE f[l] = IF l = 0 THEN <<>> ELSE OneMore(ids, l, f[l - 1])
    <3>1. CASE l = n
      <4>1. f[l] = OneMore(ids, n, g[n - 1]) /\ n - 1 \in 0..n /\ n - 1 # n /\ l # 0
        BY <1>3, <2>1, <3>1
      <4>2. f[n - 1] = g[n - 1]
        BY <4>1
      <4> HIDE DEF f
      <4> QED BY <3>1, <4>1, <4>2
    <3>2. CASE l # n
      <4>1. l \in 0..(n - 1) /\ (l # 0 => l - 1 \in 0..n /\ l - 1 # n)
        BY <2>1, <3>2
      <4>2. f[l] = g[l] /\ (l # 0 => f[l - 1] = g[l - 1])
        BY <3>2, <4>1
      <4>3. g[l] = IF l = 0 THEN <<>> ELSE OneMore(ids, l, g[l - 1])
        BY <2>2, <4>1 DEF IsFound
      <4> HIDE DEF f
      <4> QED BY <4>2, <4>3
    <3> QED BY <3>1, <3>2
  <2> HIDE DEF f
  <2>5. IsFound(ids, n, f)
    BY <2>3, <2>4 DEF IsFound
  <2> QED BY <1>1, <2>5
<1> QED BY <1>2, <1>3

LEMMA FoundAre ==
    ASSUME NEW ids, NEW k \in Nat, NEW f, IsFound(ids, k, f)
    PROVE  \A n \in 0..k : f[n] \in Seq(ids)
<1> DEFINE T == {n \in 0..k : f[n] \notin Seq(ids)}
<1> SUFFICES ASSUME T # {} PROVE FALSE
  OBVIOUS
<1>1. PICK n \in T : \A l \in T : n <= l
  <2>1. T \subseteq Nat
    OBVIOUS
  <2> HIDE DEF T
  <2> QED BY <2>1, LeastNatural
<1>2. n \in 0..k /\ f[n] \notin Seq(ids)
  BY <1>1
<1>3. n # 0
  <2>1. <<>> \in Seq(ids)
    OBVIOUS
  <2>2. n = 0 => f[n] = <<>>
    BY <1>2 DEF IsFound
  <2> QED BY <1>2, <2>1, <2>2
<1>4. n - 1 \in 0..k /\ n - 1 \notin T
  BY <1>1, <1>2, <1>3
<1>5. f[n - 1] \in Seq(ids)
  BY <1>4
<1>6. f[n] = OneMore(ids, n, f[n - 1])
  BY <1>2, <1>3 DEF IsFound
<1> QED BY <1>2, <1>5, <1>6 DEF OneMore

LEMMA InOrderIs ==
    ASSUME NEW ids PROVE InOrder(ids) \in Seq(ids)
<1> DEFINE k == Len(IdOrder)
           Steps(f) == [n \in 0..k |->
                          IF n = 0 THEN <<>>
                          ELSE IF IdOrder[n] \in ids THEN Append(f[n - 1], IdOrder[n]) ELSE f[n - 1]]
           a == CHOOSE f : f = Steps(f)
<1>1. InOrder(ids) = a[k]
  BY DEF InOrder
<1>2. k \in Nat
  BY RenderAssumption
<1>3. a = Steps(a)
  <2>1. PICK f : IsFound(ids, k, f)
    BY <1>2, FoundExists
  <2>2. f = Steps(f)
    <3>1. f = [n \in 0..k |-> f[n]]
      BY <2>1 DEF IsFound, IsFunction
    <3>2. \A n \in 0..k : f[n] = IF n = 0 THEN <<>>
                          ELSE IF IdOrder[n] \in ids THEN Append(f[n - 1], IdOrder[n]) ELSE f[n - 1]
      BY <2>1 DEF IsFound, OneMore
    <3> QED BY <3>1, <3>2
  <2> HIDE DEF Steps
  <2> QED BY <2>2
<1> HIDE DEF a, k
<1>4. IsFound(ids, k, a)
  BY <1>3 DEF IsFound, IsFunction, OneMore
<1>5. k \in 0..k
  BY <1>2
<1> QED BY <1>1, <1>2, <1>4, <1>5, FoundAre

-----------------------------------------------------------------------------
(* The server, the apps, the configuration.                                *)

RouteConfigs(s) ==
    [i \in DOMAIN InOrder(Enabled(s)) |-> RouteConfig(s, s.routes[InOrder(Enabled(s))[i]])]

\* A state whose routes are routes and whose presets have documents.
Renderable(s) == BodiesAreDocs(s) /\ \A id \in DOMAIN s.routes : IsRoute(s.routes[id])

LEMMA EnabledRoutes ==
    ASSUME NEW s, Renderable(s), NEW i \in DOMAIN InOrder(Enabled(s))
    PROVE  IsRoute(s.routes[InOrder(Enabled(s))[i]])
<1>1. InOrder(Enabled(s)) \in Seq(Enabled(s))
  BY InOrderIs
<1> DEFINE ids == InOrder(Enabled(s))
<1>2. ids[i] \in Enabled(s)
  <2>1. ids \in Seq(Enabled(s)) /\ i \in DOMAIN ids
    BY <1>1
  <2> HIDE DEF ids
  <2> QED BY <2>1
<1> QED BY <1>2 DEF Enabled, Renderable

LEMMA RouteConfigsAre ==
    ASSUME PositionsAreNumerals, NEW s, Renderable(s)
    PROVE  Elements(RouteConfigs(s)) /\ Full(RouteConfigs(s))
<1>1. IsFunction(RouteConfigs(s)) /\ DOMAIN RouteConfigs(s) = DOMAIN InOrder(Enabled(s))
  BY DEF RouteConfigs, IsFunction
<1>2. Listed(InOrder(Enabled(s)))
  BY InOrderIs, SeqListed
<1>3. \A i \in DOMAIN RouteConfigs(s) : IsDoc(RouteConfigs(s)[i]) /\ HasLeaves(RouteConfigs(s)[i])
  BY <1>1, EnabledRoutes, RouteIsDoc DEF RouteConfigs, Renderable
<1> QED BY <1>1, <1>2, <1>3 DEF Elements, Full, Listed

ServerParts(s) ==
    [listen |-> ArrayOf(<<Leaf(":443")>>), routes |-> ArrayOf(RouteConfigs(s))]

LEMMA ServerIs ==
    ASSUME NEW s PROVE Server(s) = ObjectOf(ServerParts(s))
BY DEF Server, ServerParts, RouteConfigs

LEMMA ServerMembers ==
    ASSUME PositionsAreNumerals, NEW s, Renderable(s)
    PROVE  Members(ServerParts(s)) /\ DOMAIN ServerParts(s) = {"listen", "routes"}
<1>1. IsFunction(ServerParts(s)) /\ DOMAIN ServerParts(s) = {"listen", "routes"}
  BY DEF ServerParts, IsFunction
<1>2. IsDoc(ServerParts(s)["listen"])
  BY LeafIsDoc, OneIsDoc DEF ServerParts
<1>3. IsDoc(ServerParts(s)["routes"])
  BY RouteConfigsAre, ArrayIsDoc DEF ServerParts
<1>4. "listen" \in Segment /\ "routes" \in Segment
  BY KeysAreSegments DEF Keys
<1> QED BY <1>1, <1>2, <1>3, <1>4 DEF Members

LEMMA ServersTold ==
    ASSUME PositionsAreNumerals, NEW s, NEW u, Renderable(s), Renderable(u)
    PROVE  ToldBut(Server(s), Server(u), <<"routes", "*", "handle", "*", "policy">>)
<1> DEFINE inRoute == <<"handle", "*", "policy">>
           rest == <<"*", "handle", "*", "policy">>
           pattern == <<"routes", "*", "handle", "*", "policy">>
<1>1. Begins(pattern, "routes", rest) /\ Begins(rest, "*", inRoute)
  BY DEF Begins
<1>2. \A i \in DOMAIN RouteConfigs(s) \cap DOMAIN RouteConfigs(u) :
         ToldBut(RouteConfigs(s)[i], RouteConfigs(u)[i], inRoute)
  BY EnabledRoutes, RoutesTold DEF RouteConfigs, Renderable
<1> HIDE DEF inRoute, rest, pattern
<1>3. ToldBut(ServerParts(s)["routes"], ServerParts(u)["routes"], rest)
  <2>1. ToldBut(ArrayOf(RouteConfigs(s)), ArrayOf(RouteConfigs(u)), rest)
    BY <1>1, <1>2, RouteConfigsAre, ArrayToldBut
  <2> QED BY <2>1 DEF ServerParts
<1>4. Told(ServerParts(s)["listen"], ServerParts(u)["listen"])
  BY DEF Told, ServerParts
<1>5. PartsToldBut(ServerParts(s), ServerParts(u), "routes", rest)
  BY <1>3, <1>4, ServerMembers DEF PartsToldBut
<1>6. ToldBut(Server(s), Server(u), pattern)
  BY <1>1, <1>5, ServerMembers, ServerIs, SameKeysToldBut
<1> QED BY <1>6 DEF pattern

\* An object with one key.
Sole(key, d) == [k \in {key} |-> d]

LEMMA SoleMembers ==
    ASSUME NEW key \in Segment, NEW d, IsDoc(d)
    PROVE  Members(Sole(key, d))
BY DEF Members, Sole, IsFunction

LEMMA SoleTold ==
    ASSUME NEW key \in Segment, NEW d, NEW e, IsDoc(d), IsDoc(e), Told(d, e)
    PROVE  Told(ObjectOf(Sole(key, d)), ObjectOf(Sole(key, e)))
<1>1. PartsTold(Sole(key, d), Sole(key, e))
  BY DEF PartsTold, Sole
<1>2. LacksLeaves(Sole(key, d), Sole(key, e)) /\ LacksLeaves(Sole(key, e), Sole(key, d))
  BY DEF LacksLeaves, Sole
<1> QED BY <1>1, <1>2, SoleMembers, ObjectTold

LEMMA SoleToldBut ==
    ASSUME NEW key \in Segment, NEW d, NEW e, IsDoc(d), IsDoc(e),
           NEW pattern, NEW x, NEW rest, Begins(pattern, x, rest), x \in {"*", key}, ToldBut(d, e, rest)
    PROVE  ToldBut(ObjectOf(Sole(key, d)), ObjectOf(Sole(key, e)), pattern)
<1>1. PartsToldBut(Sole(key, d), Sole(key, e), x, rest)
  BY DEF PartsToldBut, Sole
<1>2. DOMAIN Sole(key, d) = DOMAIN Sole(key, e)
  BY DEF Sole
<1> QED BY <1>1, <1>2, SoleMembers, SameKeysToldBut

Http(s) == ObjectOf(Sole("servers", ObjectOf(Sole("trilithon", Server(s)))))

TlsApp(tls) == ObjectOf(Sole("automation", Automation(tls)))

AppsParts(s) == [http |-> Http(s), tls |-> TlsApp(s.tls)]

LEMMA AppsIs ==
    ASSUME NEW s PROVE Apps(s) = ObjectOf(AppsParts(s))
<1>1. /\ [servers |-> ObjectOf([trilithon |-> Server(s)])] = Sole("servers", ObjectOf([trilithon |-> Server(s)]))
      /\ [trilithon |-> Server(s)] = Sole("trilithon", Server(s))
      /\ [automation |-> Automation(s.tls)] = Sole("automation", Automation(s.tls))
  BY DEF Sole
<1> QED BY <1>1 DEF Apps, AppsParts, Http, TlsApp

LEMMA ServerIsDoc ==
    ASSUME PositionsAreNumerals, NEW s, Renderable(s) PROVE IsDoc(Server(s))
BY ServerMembers, ServerIs, ObjectIsDoc

LEMMA SoleIsDoc ==
    ASSUME NEW key \in Keys, NEW d, IsDoc(d) PROVE IsDoc(ObjectOf(Sole(key, d)))
BY KeysAreSegments, SoleMembers, ObjectIsDoc

LEMMA HttpIsDoc ==
    ASSUME PositionsAreNumerals, NEW s, Renderable(s)
    PROVE  IsDoc(ObjectOf(Sole("trilithon", Server(s)))) /\ IsDoc(Http(s))
<1>1. "servers" \in Keys /\ "trilithon" \in Keys
  BY DEF Keys
<1>2. IsDoc(ObjectOf(Sole("trilithon", Server(s))))
  BY <1>1, ServerIsDoc, SoleIsDoc
<1> QED BY <1>1, <1>2, SoleIsDoc DEF Http

LEMMA TlsAppIsDoc ==
    ASSUME PositionsAreNumerals, NEW tls PROVE IsDoc(TlsApp(tls))
<1>1. "automation" \in Keys
  BY DEF Keys
<1> QED BY <1>1, AutomationIsDoc, SoleIsDoc DEF TlsApp

LEMMA AppsMembers ==
    ASSUME PositionsAreNumerals, NEW s, Renderable(s)
    PROVE  Members(AppsParts(s)) /\ DOMAIN AppsParts(s) = {"http", "tls"}
<1>1. IsFunction(AppsParts(s)) /\ DOMAIN AppsParts(s) = {"http", "tls"}
  BY DEF AppsParts, IsFunction
<1>2. IsDoc(AppsParts(s)["http"]) /\ IsDoc(AppsParts(s)["tls"])
  BY HttpIsDoc, TlsAppIsDoc DEF AppsParts
<1>3. "http" \in Segment /\ "tls" \in Segment
  BY KeysAreSegments DEF Keys
<1> QED BY <1>1, <1>2, <1>3 DEF Members

ConfigParts(s) ==
    [key \in {"@id", "apps"} |-> IF key = "@id" THEN Leaf("trilithon-owner-local") ELSE Apps(s)]

LEMMA ConfigIs ==
    ASSUME NEW s PROVE Config(s) = ObjectOf(ConfigParts(s))
BY DEF Config, ConfigParts

LEMMA ConfigAt ==
    ASSUME NEW s
    PROVE  /\ DOMAIN ConfigParts(s) = {"@id", "apps"} /\ IsFunction(ConfigParts(s))
           /\ ConfigParts(s)["@id"] = Leaf("trilithon-owner-local") /\ ConfigParts(s)["apps"] = Apps(s)
BY DEF ConfigParts, IsFunction

LEMMA ConfigMembers ==
    ASSUME PositionsAreNumerals, NEW s, Renderable(s)
    PROVE  Members(ConfigParts(s))
<1>1. IsDoc(ConfigParts(s)["@id"]) /\ IsDoc(ConfigParts(s)["apps"])
  BY ConfigAt, LeafIsDoc, AppsMembers, AppsIs, ObjectIsDoc
<1>2. "@id" \in Segment /\ "apps" \in Segment
  BY KeysAreSegments DEF Keys
<1> QED BY <1>1, <1>2, ConfigAt DEF Members

LEMMA AppsTold ==
    ASSUME PositionsAreNumerals, NEW s, NEW u, Renderable(s), Renderable(u),
           s.tls.onDemand = u.tls.onDemand
    PROVE  ToldBut(Apps(s), Apps(u), <<"http", "servers", "*", "routes", "*", "handle", "*", "policy">>)
<1> DEFINE inServer == <<"routes", "*", "handle", "*", "policy">>
           inServers == <<"*", "routes", "*", "handle", "*", "policy">>
           inHttp == <<"servers", "*", "routes", "*", "handle", "*", "policy">>
           inApps == <<"http", "servers", "*", "routes", "*", "handle", "*", "policy">>
<1>1. Begins(inServers, "*", inServer) /\ Begins(inHttp, "servers", inServers)
  BY DEF Begins
<1>2. Begins(inApps, "http", inHttp)
  BY DEF Begins
<1>3. ToldBut(Server(s), Server(u), inServer)
  BY ServersTold
<1> HIDE DEF inServer, inServers, inHttp, inApps
<1>4. "servers" \in Segment /\ "trilithon" \in Segment
  BY KeysAreSegments DEF Keys
<1>5. ToldBut(ObjectOf(Sole("trilithon", Server(s))), ObjectOf(Sole("trilithon", Server(u))), inServers)
  BY <1>1, <1>3, <1>4, ServerIsDoc, SoleToldBut
<1>6. ToldBut(Http(s), Http(u), inHttp)
  BY <1>1, <1>4, <1>5, HttpIsDoc, SoleToldBut DEF Http
<1>7. Told(TlsApp(s.tls), TlsApp(u.tls))
  <2>1. "automation" \in Segment
    BY KeysAreSegments DEF Keys
  <2> QED BY <2>1, AutomationsTold, AutomationIsDoc, SoleTold DEF TlsApp
<1>8. PartsToldBut(AppsParts(s), AppsParts(u), "http", inHttp)
  BY <1>6, <1>7 DEF PartsToldBut, AppsParts
<1>9. ToldBut(Apps(s), Apps(u), inApps)
  BY <1>2, <1>8, AppsMembers, AppsIs, SameKeysToldBut
<1> QED BY <1>9 DEF inApps

LEMMA ConfigsTold ==
    ASSUME PositionsAreNumerals, NEW s, NEW u, Renderable(s), Renderable(u),
           s.tls.onDemand = u.tls.onDemand
    PROVE  ToldBut(Config(s), Config(u), PolicyPattern)
<1> DEFINE inApps == <<"http", "servers", "*", "routes", "*", "handle", "*", "policy">>
<1>1. Begins(PolicyPattern, "apps", inApps)
  BY DEF Begins, PolicyPattern
<1>2. ToldBut(ConfigParts(s)["apps"], ConfigParts(u)["apps"], inApps)
  BY ConfigAt, AppsTold
<1> HIDE DEF inApps
<1>3. Told(ConfigParts(s)["@id"], ConfigParts(u)["@id"])
  BY ConfigAt DEF Told
<1>4. PartsToldBut(ConfigParts(s), ConfigParts(u), "apps", inApps)
  BY <1>2, <1>3, ConfigAt DEF PartsToldBut
<1> QED BY <1>1, <1>4, ConfigAt, ConfigMembers, ConfigIs, SameKeysToldBut

-----------------------------------------------------------------------------
(* No leaf of a configuration is Caddy's own.                              *)

LEMMA ObjectUnmatched ==
    ASSUME NEW m, Members(m), NEW pattern, NEW x, NEW rest, Begins(pattern, x, rest),
           \A k \in DOMAIN m : x \in {"*", k} => Unmatched(m[k], rest)
    PROVE  Unmatched(ObjectOf(m), pattern)
BY ObjectComposed, ComposedUnmatched

LEMMA GivenUnmatched ==
    ASSUME NEW m, Members(m), NEW c, NEW pattern, NEW x, NEW rest, Begins(pattern, x, rest),
           \A k \in DOMAIN m : x \in {"*", k} => Unmatched(m[k], rest)
    PROVE  Unmatched(ObjectOf(Given(m, c)), pattern)
<1>1. \A k \in DOMAIN Given(m, c) : x \in {"*", k} => Unmatched(Given(m, c)[k], rest)
  BY GivenDomain, GivenAt
<1> QED BY <1>1, GivenMembers, ObjectUnmatched

LEMMA ArrayUnmatched ==
    ASSUME PositionsAreNumerals, NEW e, Elements(e), NEW pattern, NEW x, NEW rest, Begins(pattern, x, rest),
           \A i \in DOMAIN e : Unmatched(e[i], rest)
    PROVE  Unmatched(ArrayOf(e), pattern)
<1>1. \A k \in DOMAIN Placed(e) : \E i \in DOMAIN e : k = Positions[i]
  BY DEF Placed
<1>2. \A i \in DOMAIN e : Placed(e)[Positions[i]] = e[i]
  BY PlacedAt
<1>3. \A k \in DOMAIN Placed(e) : Unmatched(Placed(e)[k], rest)
  BY <1>1, <1>2
<1> QED BY <1>3, ArrayComposed, ComposedUnmatched

LEMMA TextUnmatched ==
    ASSUME NEW v, NEW pattern, Len(pattern) \in Nat, Len(pattern) > 0
    PROVE  Unmatched(Text1(v), pattern)
<1>1. Text1(v) = Leaf(ToString(v))
  BY DEF Text1
<1> QED BY <1>1, LeafUnmatched

LEMMA DialUnmatched ==
    ASSUME NEW d PROVE Unmatched(ObjectOf(DialOf(d)), <<"health">>)
<1>1. Begins(<<"health">>, "health", <<>>)
  BY DEF Begins
<1>2. \A k \in DOMAIN DialOf(d) : "health" \notin {"*", k}
  BY DEF DialOf
<1> QED BY <1>1, <1>2, DialMembers, ObjectUnmatched

LEMMA HandlerUnmatched ==
    ASSUME PositionsAreNumerals, NEW s, BodiesAreDocs(s), NEW r, IsRoute(r)
    PROVE  Unmatched(ObjectOf(Handler(s, r)), <<"upstreams", "*", "health">>)
<1>1. Begins(<<"upstreams", "*", "health">>, "upstreams", <<"*", "health">>)
  BY DEF Begins
<1>2. Begins(<<"*", "health">>, "*", <<"health">>)
  BY DEF Begins
<1>3. \A i \in DOMAIN Dial(s, r) : Unmatched(Dial(s, r)[i], <<"health">>)
  BY DialUnmatched DEF Dial, DialOf
<1>4. Unmatched(ArrayOf(Dial(s, r)), <<"*", "health">>)
  BY <1>2, <1>3, DialElements, ArrayUnmatched
<1>5. CASE r.redirect # None
  <2>1. \A k \in DOMAIN RedirectParts(r) : "upstreams" \notin {"*", k}
    BY DEF RedirectParts
  <2>2. Unmatched(ObjectOf(RedirectParts(r)), <<"upstreams", "*", "health">>)
    BY <1>1, <2>1, RedirectMembers, ObjectUnmatched
  <2> QED BY <1>5, <2>2, HandlerIs
<1>6. CASE r.redirect = None
  <2>1. \A k \in DOMAIN ProxyParts(s, r) :
           "upstreams" \in {"*", k} => Unmatched(ProxyParts(s, r)[k], <<"*", "health">>)
    BY <1>4 DEF ProxyParts
  <2>2. Unmatched(ObjectOf(Given(ProxyParts(s, r), ProxyGiven(s, r))), <<"upstreams", "*", "health">>)
    BY <1>1, <2>1, ProxyMembers, GivenUnmatched
  <2> QED BY <1>6, <2>2, HandlerIs
<1> QED BY <1>5, <1>6

LEMMA RouteUnmatched ==
    ASSUME PositionsAreNumerals, NEW s, BodiesAreDocs(s), NEW r, IsRoute(r)
    PROVE  Unmatched(RouteConfig(s, r), <<"handle", "*", "upstreams", "*", "health">>)
<1> DEFINE handlers == <<ObjectOf(Handler(s, r))>>
           rest == <<"*", "upstreams", "*", "health">>
           pattern == <<"handle", "*", "upstreams", "*", "health">>
<1>1. Begins(pattern, "handle", rest)
  BY DEF Begins
<1>2. Begins(rest, "*", <<"upstreams", "*", "health">>)
  BY DEF Begins
<1>3. Elements(handlers)
  BY RoutePartsDocs, OneElement
<1>4. \A i \in DOMAIN handlers : Unmatched(handlers[i], <<"upstreams", "*", "health">>)
  BY HandlerUnmatched
<1> HIDE DEF rest, pattern
<1>5. Unmatched(ArrayOf(handlers), rest)
  <2> HIDE DEF handlers
  <2> QED BY <1>2, <1>3, <1>4, ArrayUnmatched
<1>6. \A k \in DOMAIN RouteParts(s, r) : "handle" \in {"*", k} => Unmatched(RouteParts(s, r)[k], rest)
  BY <1>5 DEF RouteParts
<1>7. Unmatched(RouteConfig(s, r), pattern)
  BY <1>1, <1>6, RoutePartsDocs, RouteIs, GivenUnmatched
<1> QED BY <1>7 DEF pattern

LEMMA ServerUnmatched ==
    ASSUME PositionsAreNumerals, NEW s, Renderable(s)
    PROVE  /\ Unmatched(Server(s), <<"routes", "*", "handle", "*", "upstreams", "*", "health">>)
           /\ Unmatched(Server(s), <<"automatic_https", "disable_redirects">>)
           /\ Unmatched(Server(s), <<"request_id">>)
<1>1. Unmatched(Server(s), <<"routes", "*", "handle", "*", "upstreams", "*", "health">>)
  <2> DEFINE rest == <<"*", "handle", "*", "upstreams", "*", "health">>
             pattern == <<"routes", "*", "handle", "*", "upstreams", "*", "health">>
             inner == <<"handle", "*", "upstreams", "*", "health">>
  <2>1. Begins(pattern, "routes", rest)
    BY DEF Begins
  <2>2. Begins(rest, "*", inner)
    BY DEF Begins
  <2>3. \A i \in DOMAIN RouteConfigs(s) : Unmatched(RouteConfigs(s)[i], inner)
    BY EnabledRoutes, RouteUnmatched DEF RouteConfigs, Renderable
  <2> HIDE DEF rest, pattern, inner
  <2>4. Unmatched(ArrayOf(RouteConfigs(s)), rest)
    BY <2>2, <2>3, RouteConfigsAre, ArrayUnmatched
  <2>5. \A k \in DOMAIN ServerParts(s) : "routes" \in {"*", k} => Unmatched(ServerParts(s)[k], rest)
    BY <2>4 DEF ServerParts
  <2>6. Unmatched(Server(s), pattern)
    BY <2>1, <2>5, ServerMembers, ServerIs, ObjectUnmatched
  <2> QED BY <2>6 DEF pattern
<1>2. Unmatched(Server(s), <<"automatic_https", "disable_redirects">>)
  <2>1. Begins(<<"automatic_https", "disable_redirects">>, "automatic_https", <<"disable_redirects">>)
    BY DEF Begins
  <2>2. \A k \in DOMAIN ServerParts(s) : "automatic_https" \notin {"*", k}
    BY DEF ServerParts
  <2> QED BY <2>1, <2>2, ServerMembers, ServerIs, ObjectUnmatched
<1>3. Unmatched(Server(s), <<"request_id">>)
  <2>1. Begins(<<"request_id">>, "request_id", <<>>)
    BY DEF Begins
  <2>2. \A k \in DOMAIN ServerParts(s) : "request_id" \notin {"*", k}
    BY DEF ServerParts
  <2> QED BY <2>1, <2>2, ServerMembers, ServerIs, ObjectUnmatched
<1> QED BY <1>1, <1>2, <1>3

LEMMA SoleUnmatched ==
    ASSUME NEW key \in Keys, NEW d, IsDoc(d), NEW pattern, NEW x, NEW rest, Begins(pattern, x, rest),
           Unmatched(d, rest)
    PROVE  Unmatched(ObjectOf(Sole(key, d)), pattern)
<1>1. \A k \in DOMAIN Sole(key, d) : Sole(key, d)[k] = d
  BY DEF Sole
<1> QED BY <1>1, KeysAreSegments, SoleMembers, ObjectUnmatched

\* What no leaf of a server matches, no leaf of a configuration does below a server.
LEMMA ConfigUnmatched ==
    ASSUME PositionsAreNumerals, NEW s, Renderable(s), NEW inServer, Unmatched(Server(s), inServer),
           NEW inServers, Begins(inServers, "*", inServer),
           NEW inHttp, Begins(inHttp, "servers", inServers),
           NEW inApps, Begins(inApps, "http", inHttp),
           NEW pattern, Begins(pattern, "apps", inApps)
    PROVE  Unmatched(Config(s), pattern)
<1>1. "trilithon" \in Keys /\ "servers" \in Keys
  BY DEF Keys
<1>2. Unmatched(ObjectOf(Sole("trilithon", Server(s))), inServers)
  BY <1>1, ServerIsDoc, SoleUnmatched
<1>3. Unmatched(Http(s), inHttp)
  BY <1>1, <1>2, HttpIsDoc, SoleUnmatched DEF Http
<1>4. \A k \in DOMAIN AppsParts(s) : "http" \in {"*", k} => Unmatched(AppsParts(s)[k], inHttp)
  BY <1>3 DEF AppsParts
<1>5. Unmatched(Apps(s), inApps)
  BY <1>4, AppsMembers, AppsIs, ObjectUnmatched
<1>6. \A k \in DOMAIN ConfigParts(s) : "apps" \in {"*", k} => Unmatched(ConfigParts(s)[k], inApps)
  BY <1>5, ConfigAt
<1> QED BY <1>6, ConfigMembers, ConfigIs, ObjectUnmatched

LEMMA AutomationUnmatched ==
    ASSUME PositionsAreNumerals, NEW tls
    PROVE  Unmatched(Automation(tls), <<"policies", "*", "managed_certificates">>)
<1>1. Begins(<<"policies", "*", "managed_certificates">>, "policies", <<"*", "managed_certificates">>)
  BY DEF Begins
<1>2. Begins(<<"*", "managed_certificates">>, "*", <<"managed_certificates">>)
  BY DEF Begins
<1>3. Unmatched(Text1(tls.issuer), <<"managed_certificates">>)
  BY TextUnmatched
<1>4. Elements(<<Text1(tls.issuer)>>)
  BY TextIsDoc, OneElement
<1>5. Unmatched(ArrayOf(<<Text1(tls.issuer)>>), <<"*", "managed_certificates">>)
  <2> DEFINE e == <<Text1(tls.issuer)>>
  <2>1. \A i \in DOMAIN e : e[i] = Text1(tls.issuer)
    OBVIOUS
  <2> HIDE DEF e
  <2>2. Unmatched(ArrayOf(e), <<"*", "managed_certificates">>)
    BY <1>2, <1>3, <1>4, <2>1, ArrayUnmatched DEF e
  <2> QED BY <2>2 DEF e
<1>6. \A k \in DOMAIN TlsParts(tls) : "policies" \in {"*", k} =>
         Unmatched(TlsParts(tls)[k], <<"*", "managed_certificates">>)
  BY <1>5 DEF TlsParts
<1> QED BY <1>1, <1>6, TlsMembers, AutomationIs, GivenUnmatched

LEMMA PoliciesUnmatched ==
    ASSUME PositionsAreNumerals, NEW s, Renderable(s)
    PROVE  Unmatched(Config(s), <<"apps", "tls", "automation", "policies", "*", "managed_certificates">>)
<1> DEFINE inTls == <<"automation", "policies", "*", "managed_certificates">>
           inApps == <<"tls", "automation", "policies", "*", "managed_certificates">>
           pattern == <<"apps", "tls", "automation", "policies", "*", "managed_certificates">>
<1>1. Begins(inTls, "automation", <<"policies", "*", "managed_certificates">>)
  BY DEF Begins
<1>2. Begins(inApps, "tls", inTls)
  BY DEF Begins
<1>3. Begins(pattern, "apps", inApps)
  BY DEF Begins
<1>4. "automation" \in Keys
  BY DEF Keys
<1> HIDE DEF inTls, inApps, pattern
<1>5. Unmatched(TlsApp(s.tls), inTls)
  BY <1>1, <1>4, AutomationUnmatched, AutomationIsDoc, SoleUnmatched DEF TlsApp
<1>6. \A k \in DOMAIN AppsParts(s) : "tls" \in {"*", k} => Unmatched(AppsParts(s)[k], inTls)
  BY <1>5 DEF AppsParts
<1>7. Unmatched(Apps(s), inApps)
  BY <1>2, <1>6, AppsMembers, AppsIs, ObjectUnmatched
<1>8. \A k \in DOMAIN ConfigParts(s) : "apps" \in {"*", k} => Unmatched(ConfigParts(s)[k], inApps)
  BY <1>7, ConfigAt
<1>9. Unmatched(Config(s), pattern)
  BY <1>3, <1>8, ConfigMembers, ConfigIs, ObjectUnmatched
<1> QED BY <1>9 DEF pattern

LEMMA StorageUnmatched ==
    ASSUME PositionsAreNumerals, NEW s, Renderable(s), NEW name
    PROVE  Unmatched(Config(s), <<"storage", name>>)
<1>1. Begins(<<"storage", name>>, "storage", <<name>>)
  BY DEF Begins
<1>2. \A k \in DOMAIN ConfigParts(s) : "storage" \notin {"*", k}
  BY ConfigAt
<1> QED BY <1>1, <1>2, ConfigMembers, ConfigIs, ObjectUnmatched

LEMMA HealthUnmatched ==
    ASSUME PositionsAreNumerals, NEW s, Renderable(s)
    PROVE  Unmatched(Config(s), <<"apps", "http", "servers", "*", "routes", "*", "handle", "*", "upstreams", "*", "health">>)
<1> DEFINE a == <<"routes", "*", "handle", "*", "upstreams", "*", "health">>
           b == <<"*", "routes", "*", "handle", "*", "upstreams", "*", "health">>
           c == <<"servers", "*", "routes", "*", "handle", "*", "upstreams", "*", "health">>
           d == <<"http", "servers", "*", "routes", "*", "handle", "*", "upstreams", "*", "health">>
           e == <<"apps", "http", "servers", "*", "routes", "*", "handle", "*", "upstreams", "*", "health">>
<1>1. Begins(b, "*", a)
  BY DEF Begins
<1>2. Begins(c, "servers", b)
  BY DEF Begins
<1>3. Begins(d, "http", c)
  BY DEF Begins
<1>4. Begins(e, "apps", d)
  BY DEF Begins
<1>5. Unmatched(Server(s), a)
  BY ServerUnmatched
<1> HIDE DEF a, b, c, d, e
<1>6. Unmatched(Config(s), e)
  BY <1>1, <1>2, <1>3, <1>4, <1>5, ConfigUnmatched
<1> QED BY <1>6 DEF e

\* The same of the two paths that are Caddy's own alone.
LEMMA PathsUnmatched ==
    ASSUME PositionsAreNumerals, NEW s, Renderable(s)
    PROVE  /\ Unmatched(Config(s), <<"apps", "http", "servers", "*", "automatic_https", "disable_redirects">>)
           /\ Unmatched(Config(s), <<"apps", "http", "servers", "*", "request_id">>)
<1>1. Unmatched(Config(s), <<"apps", "http", "servers", "*", "automatic_https", "disable_redirects">>)
  <2> DEFINE a == <<"automatic_https", "disable_redirects">>
             b == <<"*", "automatic_https", "disable_redirects">>
             c == <<"servers", "*", "automatic_https", "disable_redirects">>
             d == <<"http", "servers", "*", "automatic_https", "disable_redirects">>
             e == <<"apps", "http", "servers", "*", "automatic_https", "disable_redirects">>
  <2>1. Begins(b, "*", a) /\ Begins(c, "servers", b)
    BY DEF Begins
  <2>2. Begins(d, "http", c) /\ Begins(e, "apps", d)
    BY DEF Begins
  <2>3. Unmatched(Server(s), a)
    BY ServerUnmatched
  <2> HIDE DEF a, b, c, d, e
  <2>4. Unmatched(Config(s), e)
    BY <2>1, <2>2, <2>3, ConfigUnmatched
  <2> QED BY <2>4 DEF e
<1>2. Unmatched(Config(s), <<"apps", "http", "servers", "*", "request_id">>)
  <2> DEFINE a == <<"request_id">>
             b == <<"*", "request_id">>
             c == <<"servers", "*", "request_id">>
             d == <<"http", "servers", "*", "request_id">>
             e == <<"apps", "http", "servers", "*", "request_id">>
  <2>1. Begins(b, "*", a) /\ Begins(c, "servers", b)
    BY DEF Begins
  <2>2. Begins(d, "http", c) /\ Begins(e, "apps", d)
    BY DEF Begins
  <2>3. Unmatched(Server(s), a)
    BY ServerUnmatched
  <2> HIDE DEF a, b, c, d, e
  <2>4. Unmatched(Config(s), e)
    BY <2>1, <2>2, <2>3, ConfigUnmatched
  <2> QED BY <2>4 DEF e
<1> QED BY <1>1, <1>2

LEMMA AllShown ==
    ASSUME PositionsAreNumerals, NEW s, Renderable(s)
    PROVE  Shown(Config(s)) = Leaves(Config(s))
<1>1. \A pattern \in ManagedTrees \cup ManagedPaths : Unmatched(Config(s), pattern)
  BY PoliciesUnmatched, StorageUnmatched, HealthUnmatched, PathsUnmatched DEF ManagedTrees, ManagedPaths
<1> QED BY <1>1 DEF Unmatched, IsCaddyManaged, Shown

-----------------------------------------------------------------------------
(* Where configurations differ.                                            *)

LEMMA ObjectsWithin ==
    ASSUME NEW m, NEW n, Members(m), Members(n), DOMAIN m = DOMAIN n,
           NEW pattern, NEW x, NEW rest, Begins(pattern, x, rest),
           \A k \in DOMAIN m : m[k] = n[k] \/ (x \in {"*", k} /\ Within(m[k], n[k], rest))
    PROVE  Within(ObjectOf(m), ObjectOf(n), pattern)
BY ObjectComposed, ComposedWithin

LEMMA SoleWithin ==
    ASSUME NEW key \in Keys, NEW d, NEW e, IsDoc(d), IsDoc(e),
           NEW pattern, NEW x, NEW rest, Begins(pattern, x, rest), x \in {"*", key}, Within(d, e, rest)
    PROVE  Within(ObjectOf(Sole(key, d)), ObjectOf(Sole(key, e)), pattern)
<1>1. /\ DOMAIN Sole(key, d) = {key} /\ DOMAIN Sole(key, e) = {key}
      /\ Sole(key, d)[key] = d /\ Sole(key, e)[key] = e
  BY DEF Sole
<1>2. Members(Sole(key, d)) /\ Members(Sole(key, e))
  BY KeysAreSegments, SoleMembers
<1> QED BY <1>1, <1>2, ObjectsWithin

RoutePattern == <<"apps", "http", "servers", "*", "routes", "*">>

TlsPattern == <<"apps", "tls", "*">>

LEMMA ServersWithin ==
    ASSUME PositionsAreNumerals, NEW s, NEW u, Renderable(s), Renderable(u)
    PROVE  Within(Server(s), Server(u), <<"routes", "*">>)
<1>1. Begins(<<"routes", "*">>, "routes", <<"*">>)
  BY DEF Begins
<1>2. Within(ArrayOf(RouteConfigs(s)), ArrayOf(RouteConfigs(u)), <<"*">>)
  BY RouteConfigsAre, ArrayComposed, AnyWithin
<1>3. \A k \in DOMAIN ServerParts(s) :
         \/ ServerParts(s)[k] = ServerParts(u)[k]
         \/ "routes" \in {"*", k} /\ Within(ServerParts(s)[k], ServerParts(u)[k], <<"*">>)
  BY <1>2 DEF ServerParts
<1> QED BY <1>1, <1>3, ServerMembers, ServerIs, ObjectsWithin

\* With the same TLS settings, configurations differ in their routes.
LEMMA RoutesDiffer ==
    ASSUME PositionsAreNumerals, NEW s, NEW u, Renderable(s), Renderable(u), s.tls = u.tls
    PROVE  Within(Config(s), Config(u), RoutePattern)
<1> DEFINE inServer == <<"routes", "*">>
           inServers == <<"*", "routes", "*">>
           inHttp == <<"servers", "*", "routes", "*">>
           inApps == <<"http", "servers", "*", "routes", "*">>
<1>1. Begins(inServers, "*", inServer) /\ Begins(inHttp, "servers", inServers)
  BY DEF Begins
<1>2. Begins(inApps, "http", inHttp) /\ Begins(RoutePattern, "apps", inApps)
  BY DEF Begins, RoutePattern
<1>3. Within(Server(s), Server(u), inServer)
  BY ServersWithin
<1>4. "trilithon" \in Keys /\ "servers" \in Keys
  BY DEF Keys
<1> HIDE DEF inServer, inServers, inHttp, inApps
<1>5. Within(ObjectOf(Sole("trilithon", Server(s))), ObjectOf(Sole("trilithon", Server(u))), inServers)
  BY <1>1, <1>3, <1>4, ServerIsDoc, SoleWithin
<1>6. Within(Http(s), Http(u), inHttp)
  BY <1>1, <1>4, <1>5, HttpIsDoc, SoleWithin DEF Http
<1>7. \A k \in DOMAIN AppsParts(s) :
         \/ AppsParts(s)[k] = AppsParts(u)[k]
         \/ "http" \in {"*", k} /\ Within(AppsParts(s)[k], AppsParts(u)[k], inHttp)
  BY <1>6 DEF AppsParts
<1>8. Within(Apps(s), Apps(u), inApps)
  BY <1>2, <1>7, AppsMembers, AppsIs, ObjectsWithin
<1>9. \A k \in DOMAIN ConfigParts(s) :
         \/ ConfigParts(s)[k] = ConfigParts(u)[k]
         \/ "apps" \in {"*", k} /\ Within(ConfigParts(s)[k], ConfigParts(u)[k], inApps)
  BY <1>8, ConfigAt
<1> QED BY <1>2, <1>9, ConfigAt, ConfigMembers, ConfigIs, ObjectsWithin

LEMMA SameServers ==
    ASSUME NEW s, NEW u, s.routes = u.routes, s.upstreams = u.upstreams, s.presets = u.presets
    PROVE  Server(s) = Server(u)
<1>1. \A r : Handler(s, r) = Handler(u, r)
  <2>1. \A r : PolicyBody(s, r) = PolicyBody(u, r)
    BY DEF PolicyBody, PresetOf
  <2> QED BY <2>1 DEF Handler
<1>2. \A r : RouteConfig(s, r) = RouteConfig(u, r)
  BY <1>1 DEF RouteConfig
<1>3. Enabled(s) = Enabled(u)
  BY DEF Enabled
<1>4. RouteConfigs(s) = RouteConfigs(u)
  BY <1>2, <1>3 DEF RouteConfigs
<1> QED BY <1>4, ServerIs DEF ServerParts

\* With the same routes and upstreams, configurations differ in their TLS settings.
LEMMA TlsDiffers ==
    ASSUME PositionsAreNumerals, NEW s, NEW u, Renderable(s), Renderable(u),
           s.routes = u.routes, s.upstreams = u.upstreams, s.presets = u.presets
    PROVE  Within(Config(s), Config(u), TlsPattern)
<1>1. Begins(<<"tls", "*">>, "tls", <<"*">>) /\ Begins(TlsPattern, "apps", <<"tls", "*">>)
  BY DEF Begins, TlsPattern
<1>2. Within(TlsApp(s.tls), TlsApp(u.tls), <<"*">>)
  <2>1. "automation" \in Segment
    BY KeysAreSegments DEF Keys
  <2>2. /\ Composed(TlsApp(s.tls), Sole("automation", Automation(s.tls)))
        /\ Composed(TlsApp(u.tls), Sole("automation", Automation(u.tls)))
    BY <2>1, AutomationIsDoc, SoleMembers, ObjectComposed DEF TlsApp
  <2> QED BY <2>2, AnyWithin
<1>3. \A k \in DOMAIN AppsParts(s) :
         \/ AppsParts(s)[k] = AppsParts(u)[k]
         \/ "tls" \in {"*", k} /\ Within(AppsParts(s)[k], AppsParts(u)[k], <<"*">>)
  BY <1>2, SameServers DEF AppsParts, Http
<1>4. Within(Apps(s), Apps(u), <<"tls", "*">>)
  BY <1>1, <1>3, AppsMembers, AppsIs, ObjectsWithin
<1>5. \A k \in DOMAIN ConfigParts(s) :
         \/ ConfigParts(s)[k] = ConfigParts(u)[k]
         \/ "apps" \in {"*", k} /\ Within(ConfigParts(s)[k], ConfigParts(u)[k], <<"tls", "*">>)
  BY <1>4, ConfigAt
<1> QED BY <1>1, <1>5, ConfigAt, ConfigMembers, ConfigIs, ObjectsWithin

LEMMA RouteClass ==
    ASSUME NEW p, SegmentMatch(p, RoutePattern) PROVE Classify(p) = "Route"
<1>1. DOMAIN RoutePattern = 1..6 /\ RoutePattern[2] = "http"
  BY DEF RoutePattern
<1>2. p[2] = "http"
  BY <1>1 DEF SegmentMatch
<1>3. DOMAIN <<"apps", "tls", "*">> = 1..3 /\ <<"apps", "tls", "*">>[2] = "tls"
  OBVIOUS
<1>4. ~SegmentMatch(p, <<"apps", "tls", "*">>)
  BY <1>2, <1>3 DEF SegmentMatch
<1> QED BY <1>4 DEF Classify, RoutePattern

LEMMA TlsClass ==
    ASSUME NEW p, SegmentMatch(p, TlsPattern) PROVE Classify(p) = "Tls"
<1>1. DOMAIN TlsPattern = 1..3 /\ TlsPattern[2] = "tls"
  BY DEF TlsPattern
<1>2. p[2] = "tls"
  BY <1>1 DEF SegmentMatch
<1>3. /\ DOMAIN RoutePattern = 1..6 /\ RoutePattern[2] = "http"
      /\ DOMAIN <<"apps", "http", "servers", "*">> = 1..4 /\ <<"apps", "http", "servers", "*">>[2] = "http"
  BY DEF RoutePattern
<1>4. ~SegmentMatch(p, RoutePattern)
  BY <1>2, <1>3 DEF SegmentMatch
<1>5. ~SegmentMatch(p, <<"apps", "http", "servers", "*">>)
  BY <1>2, <1>3 DEF SegmentMatch
<1> QED BY <1>4, <1>5 DEF Classify, RoutePattern, TlsPattern

LEMMA DiffIs ==
    ASSUME NEW a, NEW b PROVE DOMAIN Diff(a, b) \subseteq Differ(a, b)
BY DEF Diff, Removed, Added, Modified, Shown, Differ

LEMMA DiffTells ==
    ASSUME NEW a, NEW b, Shown(a) = Leaves(a), Shown(b) = Leaves(b), DOMAIN Diff(a, b) = {}
    PROVE  SameLeaves(a, b)
BY DEF Diff, Removed, Added, Modified, Differ, SameLeaves

LEMMA ChangeShows ==
    ASSUME PositionsAreNumerals, NEW s, NEW u, Renderable(s), Renderable(u), s.presets = u.presets
    PROVE  /\ Config(s) # Config(u) =>
                 \/ DOMAIN Diff(Config(s), Config(u)) # {}
                 \/ s.tls.onDemand # u.tls.onDemand
                 \/ PolicyHides(Config(s), Config(u))
           /\ s.tls = u.tls => Summary(Diff(Config(s), Config(u))) \subseteq {"Route"}
           /\ s.routes = u.routes /\ s.upstreams = u.upstreams
                 => Summary(Diff(Config(s), Config(u))) \subseteq {"Tls"}
<1>1. ASSUME DOMAIN Diff(Config(s), Config(u)) = {}, s.tls.onDemand = u.tls.onDemand,
             ~PolicyHides(Config(s), Config(u))
      PROVE  Config(s) = Config(u)
  <2>1. SameLeaves(Config(s), Config(u))
    BY <1>1, AllShown, DiffTells
  <2> QED BY <1>1, <2>1, ConfigsTold DEF ToldBut, PolicyHides
<1>2. ASSUME s.tls = u.tls PROVE Summary(Diff(Config(s), Config(u))) \subseteq {"Route"}
  <2>1. \A p \in DOMAIN Diff(Config(s), Config(u)) : SegmentMatch(p, RoutePattern)
    BY <1>2, DiffIs, RoutesDiffer DEF Within
  <2> QED BY <2>1, RouteClass DEF Summary
<1>3. ASSUME s.routes = u.routes, s.upstreams = u.upstreams
      PROVE  Summary(Diff(Config(s), Config(u))) \subseteq {"Tls"}
  <2>1. \A p \in DOMAIN Diff(Config(s), Config(u)) : SegmentMatch(p, TlsPattern)
    BY <1>3, DiffIs, TlsDiffers DEF Within
  <2> QED BY <2>1, TlsClass DEF Summary
<1> QED BY <1>1, <1>2, <1>3

LEMMA TypedRoutes ==
    ASSUME NEW s, IsDesiredState(s) PROVE Renderable(s)
BY DEF IsDesiredState, IsMap, IsRecord, PresetTypes, BodiesAreDocs, Renderable, IsRoute

(* Whatever mutation changes the configuration, the detector's diff is not *)
(* empty, but for on-demand TLS without an ask URL and for what is empty   *)
(* in the body of a preset, and its summary names the routes for a change  *)
(* of routes and TLS for one of TLS                                        *)
(* (diff.rs:340-385, 725-804).                                             *)
THEOREM ConfigShows == ASSUME PositionsAreNumerals PROVE Spec => []ConfigChangesShow
<1>1. TypeOK => ConfigChangesShow
  <2> SUFFICES ASSUME TypeOK, NEW new \in Successors
               PROVE  /\ Config(state) # Config(new) =>
                            \/ DOMAIN Diff(Config(state), Config(new)) # {}
                            \/ state.tls.onDemand # new.tls.onDemand
                            \/ PolicyHides(Config(state), Config(new))
                      /\ state.tls = new.tls => Summary(Diff(Config(state), Config(new))) \subseteq {"Route"}
                      /\ state.routes = new.routes /\ state.upstreams = new.upstreams
                            => Summary(Diff(Config(state), Config(new))) \subseteq {"Tls"}
    BY DEF ConfigChangesShow
  <2>1. PICK m \in Mutation : Accepted(m) /\ new = NewState(state, m)
    BY DEF Successors
  <2>2. IsDesiredState(state) /\ IsDesiredState(new)
    BY <2>1, NewStateTyped, MutationsAssumption DEF TypeOK, Accepted
  <2>3. Renderable(state) /\ Renderable(new)
    BY <2>2, TypedRoutes
  <2>4. new.presets = state.presets
    BY <2>1, <2>2, MutationsAssumption, NewStateFields DEF Accepted
  <2> QED BY <2>3, <2>4, ChangeShows
<1> QED BY <1>1, TypeCorrect, PTL

=============================================================================
