------------------------------- MODULE Render -------------------------------
(***************************************************************************)
(* From the desired state to the two documents the daemon makes of it: its *)
(* own JSON, which is stored, hashed and compared, and the configuration   *)
(* that Caddy is given.  With them, the check of the modules that the      *)
(* whole state needs, which precedes every apply.                          *)
(***************************************************************************)
EXTENDS DesiredState, JsonDiff, TLC

CONSTANT IdOrder            \* the route ids in their order, as a sequence

ASSUME RenderAssumption == IdOrder \in Seq(RouteId)

BodySegment == UNION {UNION {{p[i] : i \in DOMAIN p} : p \in DOMAIN d} : d \in Document}

\* A document has a root, and nothing else for nodes than JSON has.
IsDocument(d) ==
    /\ IsFunction(d) /\ Root \in DOMAIN d
    /\ \A p \in DOMAIN d :
          p \in Seq(BodySegment) /\ (d[p] \in {Object, Array} \/ d[p] = Scalar(d[p].value))

ASSUME DocumentAssumption == None \notin Document /\ \A d \in Document : IsDocument(d)

\* The fields of the enums that serde writes as an object with the variant under
\* a tag ("kind", "issuer", "op"), of each variant.
DestinationFields ==
    [tcp |-> {"host", "port"}, unix |-> {"path"}, docker |-> {"container_id", "port"}]
ProbeFields == [Tcp |-> {}, Http |-> {"path", "expected_status"}, Disabled |-> {}]
IssuerFields == [acme |-> {"directory_url"}, internal |-> {}]
OpFields == [set |-> {"name", "value"}, add |-> {"name", "value"}, delete |-> {"name"}]

ASSUME DestinationAssumption == \A d \in Destination : d.kind \in DOMAIN DestinationFields

-----------------------------------------------------------------------------
(* Values.                                                                 *)

\* A string, number or variant, by its spelling.
Text1(v) == Leaf(ToString(v))

\* An Option: null when there is none.
Opt1(v) == IF v = None THEN Leaf("null") ELSE Text1(v)

List(values) == ArrayOf([i \in DOMAIN values |-> Text1(values[i])])

\* A variant, its tag and its fields, which hold a value.
Tagged(tag, variant, fields, value) ==
    ObjectOf([key \in {tag} \cup fields |-> IF key = tag THEN Leaf(variant) ELSE Text1(value)])

\* The members of an object that are there: of those with a condition, the ones
\* whose condition holds.
Given(members, condition) ==
    [key \in {k \in DOMAIN members : k \in DOMAIN condition => condition[k]} |-> members[key]]

-----------------------------------------------------------------------------
(* The desired state as JSON (serde, to_canonical_bytes).                  *)

RedirectJson(redirect) ==
    IF redirect = None THEN Leaf("null")
    ELSE ObjectOf([to |-> Text1(redirect.scheme), status |-> Text1(redirect.status)])

PolicyJson(policy) ==
    IF policy = None THEN Leaf("null")
    ELSE ObjectOf([preset_id |-> Text1(policy.preset), preset_version |-> Text1(policy.version)])

\* The enum HostPattern: an object with the tag as its key.
HostJson(host) == ObjectOf([tag \in {host.tag} |-> Text1(host.name)])

HostsJson(hosts) == ArrayOf([i \in DOMAIN hosts |-> HostJson(hosts[i])])

\* One side has one operation or none.
HeadersJson(headers) ==
    ObjectOf([side \in {"request", "response"} |->
                  ArrayOf(IF side \in headers THEN <<Tagged("op", "set", OpFields.set, side)>>
                          ELSE <<>>)])

RouteJson(r) ==
    ObjectOf([hostnames |-> HostsJson(r.hosts), upstreams |-> List(r.upstreams),
                matchers |-> ObjectOf([paths |-> List(r.paths), remote |-> List(r.remote)]),
                headers |-> HeadersJson(r.headers), redirects |-> RedirectJson(r.redirect),
                policy_attachment |-> PolicyJson(r.policy), enabled |-> Text1(r.enabled)])

UpstreamJson(u) ==
    ObjectOf([destination |-> Tagged("kind", u.dest.kind, DestinationFields[u.dest.kind], u.dest),
                probe |-> Tagged("kind", u.probe, ProbeFields[u.probe], u.probe),
                weight |-> Text1(u.weight)])

RoutesJson(s) == ObjectOf([id \in DOMAIN s.routes |-> RouteJson(s.routes[id])])

UpstreamsJson(s) == ObjectOf([id \in DOMAIN s.upstreams |-> UpstreamJson(s.upstreams[id])])

IssuerJson(issuer) ==
    IF issuer = None THEN Leaf("null") ELSE Tagged("issuer", issuer, IssuerFields[issuer], issuer)

TlsJson(tls) ==
    ObjectOf([email |-> Opt1(tls.email), on_demand_enabled |-> Text1(tls.onDemand),
                on_demand_ask_url |-> Opt1(tls.askUrl), default_issuer |-> IssuerJson(tls.issuer)])

GlobalJson(global) ==
    ObjectOf([admin_listen |-> Opt1(global.adminListen), default_sni |-> Opt1(global.defaultSni),
                log_level |-> Opt1(global.logLevel)])

StateJson(s) ==
    ObjectOf([version |-> Text1(s.version), routes |-> RoutesJson(s),
                upstreams |-> UpstreamsJson(s), tls |-> TlsJson(s.tls),
                global |-> GlobalJson(s.global)])

\* What serde asks of a document before it is a DesiredState again: every
\* field that is not an Option, lists where there were lists.
ListOfLeaves(doc, path) ==
    Kind(doc, path) = "array" /\ \A p \in Children(doc, path) : doc[p].kind = "scalar"

\* A known variant under the tag, and its fields.
TaggedParses(doc, path, tag, fields) ==
    \E variant \in DOMAIN fields :
        /\ Append(path, tag) \in DOMAIN doc /\ doc[Append(path, tag)] = Scalar(variant)
        /\ \A key \in fields[variant] : Kind(doc, Append(path, key)) = "scalar"

\* One tag and no more.
HostsParse(doc, path) ==
    /\ Kind(doc, path) = "array"
    /\ \A p \in Children(doc, path) : \E tag \in {"Exact", "Wildcard"} :
          Children(doc, p) = {Append(p, tag)} /\ Kind(doc, Append(p, tag)) = "scalar"

OpsParse(doc, path) ==
    /\ Kind(doc, path) = "array"
    /\ \A p \in Children(doc, path) : TaggedParses(doc, p, "op", OpFields)

RouteParses(doc, path) ==
    /\ HostsParse(doc, Append(path, "hostnames"))
    /\ ListOfLeaves(doc, Append(path, "upstreams"))
    /\ \A key \in {"paths", "remote"} : ListOfLeaves(doc, path \o <<"matchers", key>>)
    /\ \A side \in {"request", "response"} : OpsParse(doc, path \o <<"headers", side>>)
    /\ Kind(doc, Append(path, "enabled")) = "scalar"

UpstreamParses(doc, path) ==
    /\ TaggedParses(doc, Append(path, "destination"), "kind", DestinationFields)
    /\ TaggedParses(doc, Append(path, "probe"), "kind", ProbeFields)
    /\ Kind(doc, Append(path, "weight")) = "scalar"

Parses(doc) ==
    /\ \A key \in {"routes", "upstreams", "tls", "global"} : Kind(doc, <<key>>) = "object"
    /\ \A path \in Children(doc, <<"routes">>) : RouteParses(doc, path)
    /\ \A path \in Children(doc, <<"upstreams">>) : UpstreamParses(doc, path)
    /\ Kind(doc, <<"tls", "on_demand_enabled">>) = "scalar"
    /\ Kind(doc, <<"version">>) = "scalar"

-----------------------------------------------------------------------------
(* CaddyJsonRenderer::render.                                              *)

PresetOf(s, policy) ==
    IF policy.preset \in DOMAIN s.presets /\ s.presets[policy.preset].version = policy.version
    THEN {s.presets[policy.preset]} ELSE {}

\* Nothing in a route makes the renderer stop.
RouteRenders(s, r) ==
    /\ \A i \in DOMAIN r.hosts : ValidateHostname(r.hosts[i].name) # None
    /\ \/ r.redirect # None
       \/ /\ \A i \in DOMAIN r.upstreams :
                r.upstreams[i] \in DOMAIN s.upstreams /\ s.upstreams[r.upstreams[i]].dest.usable
          /\ r.policy # None => \E p \in PresetOf(s, r.policy) : p.body # None

Enabled(s) == {id \in DOMAIN s.routes : s.routes[id].enabled}

Renders(s) == \A id \in Enabled(s) : RouteRenders(s, s.routes[id])

\* build_matcher: hostnames and paths, no other matcher.
Matcher(r) ==
    Given([host |-> List([i \in DOMAIN r.hosts |-> r.hosts[i].name]), path |-> List(r.paths)],
          [host |-> r.hosts # <<>>, path |-> r.paths # <<>>])

HeaderOps(r) ==
    ObjectOf([side \in r.headers |-> ArrayOf(<<Text1(side)>>)])

\* What the body of a route's preset spells, whatever it is.
PolicyBody(s, r) ==
    IF r.policy # None /\ PresetOf(s, r.policy) # {} THEN s.presets[r.policy.preset].body ELSE None

\* A redirect comes first, and with it alone.
Handler(s, r) ==
    IF r.redirect # None
    THEN [handler |-> Leaf("static_response"), status_code |-> Text1(r.redirect.status),
          location |-> Text1(r.redirect.scheme)]
    ELSE Given(
        [handler |-> Leaf("reverse_proxy"),
         upstreams |-> ArrayOf([i \in DOMAIN r.upstreams |->
            ObjectOf([dial |-> Text1(s.upstreams[r.upstreams[i]].dest)])]),
         headers |-> HeaderOps(r), policy |-> PolicyBody(s, r)],
        [headers |-> r.headers # {}, policy |-> PolicyBody(s, r) # None])

RouteConfig(s, r) ==
    ObjectOf(Given(
        [match |-> ArrayOf(<<ObjectOf(Matcher(r))>>),
         handle |-> ArrayOf(<<ObjectOf(Handler(s, r))>>)],
        [match |-> DOMAIN Matcher(r) # {}]))

\* build_tls_automation.
OnDemand(tls) == ObjectOf(Given([ask |-> Text1(tls.askUrl)], [ask |-> tls.askUrl # None]))

Automation(tls) ==
    ObjectOf(Given(
        [on_demand |-> OnDemand(tls), policies |-> ArrayOf(<<Text1(tls.issuer)>>),
         email |-> Text1(tls.email)],
        [on_demand |-> tls.onDemand, policies |-> tls.issuer # None, email |-> tls.email # None]))

\* The elements of a set of route ids in their order.
InOrder(ids) ==
    LET found[n \in 0..Len(IdOrder)] ==
            IF n = 0 THEN <<>>
            ELSE IF IdOrder[n] \in ids THEN Append(found[n - 1], IdOrder[n]) ELSE found[n - 1]
    IN found[Len(IdOrder)]

\* build_http_servers: one server, the enabled routes in the order of their ids.
Server(s) ==
    LET ids == InOrder(Enabled(s))
    IN ObjectOf([listen |-> ArrayOf(<<Leaf(":443")>>),
                   routes |-> ArrayOf([i \in DOMAIN ids |-> RouteConfig(s, s.routes[ids[i]])])])

Apps(s) ==
    ObjectOf([http |-> ObjectOf([servers |-> ObjectOf([trilithon |-> Server(s)])]),
                tls |-> ObjectOf([automation |-> Automation(s.tls)])])

Config(s) ==
    ObjectOf([key \in {"@id", "apps"} |->
                  IF key = "@id" THEN Leaf("trilithon-owner-local") ELSE Apps(s)])

-----------------------------------------------------------------------------
(* check_against_capability_set.                                           *)

\* The top-level keys of a body that is an object.
PresetModules(preset) ==
    LET keys == IF preset.body # None /\ Kind(preset.body, Root) = "object"
                THEN {p[1] : p \in Children(preset.body, Root)} ELSE {}
    IN {m \in {"rate_limit", "forward_auth", "waf"} :
           \/ m # "waf" /\ m \in keys
           \/ m = "waf" /\ "coraza" \in keys}

\* What the fields of a route need ...
StructureNeeds(r) ==
    {m \in {"reverse_proxy", "headers", "static_response"} :
        \/ m = "reverse_proxy" /\ r.upstreams # <<>>
        \/ m = "headers" /\ r.headers # {}
        \/ m = "static_response" /\ r.redirect # None}

\* ... and what the body of its preset does.
PolicyNeeds(s, r) ==
    IF r.policy = None THEN {} ELSE UNION {PresetModules(p) : p \in PresetOf(s, r.policy)}

CapabilityCheckPasses(s, modules) ==
    \A id \in Enabled(s) :
        StructureNeeds(s.routes[id]) \cup PolicyNeeds(s, s.routes[id]) \subseteq modules

=============================================================================
