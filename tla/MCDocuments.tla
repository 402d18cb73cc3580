---------------------------- MODULE MCDocuments -----------------------------
(* Values for model checking Documents: one mutation of every kind and, of *)
(* each field that the code decides on, a value on either side.            *)
EXTENDS Documents

Good == [tag |-> "Exact", name |-> [labels |-> <<"ok", "ok">>, long |-> FALSE]]
Wild == [tag |-> "Wildcard", name |-> [labels |-> <<"star", "ok", "ok">>, long |-> FALSE]]
Bad == [tag |-> "Exact", name |-> [labels |-> <<"ok", "bad">>, long |-> FALSE]]
Mistagged == [tag |-> "Exact", name |-> Wild.name]
Long == [tag |-> "Exact", name |-> [labels |-> <<"ok", "ok">>, long |-> TRUE]]

MCHost == {Good, Wild, Bad, Mistagged, Long}
MCCidr == {[family |-> "v4", prefix |-> 32], [family |-> "v4", prefix |-> 33]}
MCRedirect == {[scheme |-> "https", status |-> 301], [scheme |-> "https", status |-> 304]}
MCAskUrl == {[scheme |-> "https", private |-> FALSE], [scheme |-> "http", private |-> FALSE]}
MCDestination == {[kind |-> "tcp", usable |-> TRUE], [kind |-> "unix", usable |-> FALSE]}

\* A body with a leaf, one without, and one that is no document.
Limits == [p \in {<<>>, <<"rate_limit">>} |->
              IF p = <<>> THEN [kind |-> "object"] ELSE [kind |-> "scalar", value |-> "100"]]
Nothing == [p \in {<<>>} |-> [kind |-> "object"]]
MCDocument == {Limits, Nothing}
MCPresets == [p1 |-> [version |-> 2, body |-> Limits], p2 |-> [version |-> 2, body |-> Nothing],
              p3 |-> [version |-> 2, body |-> None]]
MCCapabilities ==
    {{"reverse_proxy", "headers", "static_response", "health_checks", "tls"}, {"reverse_proxy"}}

MCSegments ==
    <<"0", "1", "@id", "Exact", "Wildcard", "admin_listen", "apps", "ask", "automation",
      "container_id", "default_issuer", "default_sni", "destination", "dial", "directory_url",
      "email", "enabled", "expected_status", "global", "handle", "handler", "headers", "host",
      "hostnames", "http", "issuer", "kind", "listen", "location", "log_level", "match",
      "matchers", "name", "on_demand", "on_demand_ask_url", "on_demand_enabled", "op", "path",
      "paths", "policies", "policy", "policy_attachment", "port", "preset_id", "preset_version",
      "probe", "r1", "r2", "rate_limit", "redirects", "remote", "request", "response", "routes",
      "servers", "status", "status_code", "tls", "to", "trilithon", "u1", "u2", "upstreams",
      "value", "version", "weight">>
MCPlace(segment) == CHOOSE i \in DOMAIN MCSegments : MCSegments[i] = segment
MCBehind == [segment \in {MCSegments[i] : i \in DOMAIN MCSegments} |->
                {MCSegments[j] : j \in MCPlace(segment) + 1..Len(MCSegments)}]

MCPointerLength(path) == FoldSeq(LAMBDA segment, n : n + 1 + Len(segment), 0, path)

MCPositions == <<"0", "1", "2", "3">>
MCIdOrder == <<"r1", "r2">>

Plain == [hosts |-> <<>>, upstreams |-> <<>>, paths |-> <<>>, remote |-> <<>>, headers |-> {},
          redirect |-> None, policy |-> None, enabled |-> TRUE]
Proxy == [Plain EXCEPT !.hosts = <<Good>>, !.upstreams = <<"u1">>]
Moved == [scheme |-> "https", status |-> 301]
Backend == [dest |-> [kind |-> "tcp", usable |-> TRUE], probe |-> "Disabled", weight |-> 1]

RouteBodies ==
    {Proxy,
     [Proxy EXCEPT !.upstreams = <<"u1", "u2">>, !.paths = <<"/a">>, !.headers = {"request"}],
     [Plain EXCEPT !.redirect = Moved, !.policy = [preset |-> "p1", version |-> 1]],
     [Proxy EXCEPT !.hosts = <<Mistagged>>],
     Plain}

RoutePatches ==
    {[hosts |-> <<Good, Wild>>], [hosts |-> <<Wild, Wild>>], [hosts |-> <<Bad>>], [hosts |-> <<Long>>], [upstreams |-> <<>>],
     [upstreams |-> <<"u2">>], [redirect |-> None], [redirect |-> Moved],
     [redirect |-> [scheme |-> "https", status |-> 304]],
     [remote |-> <<[family |-> "v4", prefix |-> 33]>>],
     [remote |-> <<[family |-> "v4", prefix |-> 32]>>, headers |-> {"response"}],
     [enabled |-> FALSE], [policy |-> [preset |-> "p1", version |-> 3]]}

TlsPatches ==
    {[onDemand |-> TRUE], [askUrl |-> [scheme |-> "https", private |-> FALSE]],
     [askUrl |-> [scheme |-> "http", private |-> FALSE]], [email |-> "a", issuer |-> "acme"],
     [x \in {} |-> None]}

ById(id, body) == [id |-> id, body |-> body]

Payloads ==
    [kind : {"CreateRoute"}, id : RouteId, route : RouteBodies]
    \cup [kind : {"UpdateRoute"}, id : {"r1"}, patch : RoutePatches]
    \cup [kind : {"DeleteRoute"}, id : RouteId]
    \cup [kind : {"CreateUpstream"}, id : UpstreamId,
          upstream : {Backend, [Backend EXCEPT !.probe = "Tcp"]}]
    \cup [kind : {"UpdateUpstream"}, id : {"u1"},
          patch : {[dest |-> [kind |-> "unix", usable |-> FALSE]], [probe |-> "Http", weight |-> 2]}]
    \cup [kind : {"DeleteUpstream"}, id : UpstreamId]
    \cup [kind : {"AttachPolicy"}, id : {"r1"}, preset : {"p1"}, version : {0, 2}]
    \cup [kind : {"AttachPolicy"}, id : {"r1"}, preset : {"p2", "p3"}, version : {2}]
    \cup [kind : {"DetachPolicy"}, id : {"r1"}]
    \cup [kind : {"UpgradePolicy"}, id : {"r1"}, version : {2}]
    \cup [kind : {"SetGlobalConfig"}, patch : {[x \in {} |-> None], [logLevel |-> "a"]}]
    \cup [kind : {"SetTlsConfig"}, patch : TlsPatches]
    \cup [kind : {"ImportFromCaddyfile"}, upstreams : {<<ById("u2", Backend)>>},
          routes : {<<ById("r2", [Proxy EXCEPT !.upstreams = <<"u2", "u1">>])>>,
                    <<ById("r1", [Proxy EXCEPT !.upstreams = <<"u2">>])>>,
                    <<ById("r1", Proxy), ById("r1", Proxy)>>}]
    \cup [kind : {"Rollback"}]

MCMutation ==
    {[expected |-> version] @@ payload : version \in 0..MaxVersion, payload \in Payloads}

=============================================================================
