---------------------------- MODULE DesiredState ----------------------------
(***************************************************************************)
(* The desired state of the proxy: the types of core/src/model and what    *)
(* makes a hostname, a CIDR, a redirect or an ask URL valid.  Names, ports *)
(* and texts are abstracted to what the code decides on.                   *)
(***************************************************************************)
EXTENDS Naturals, Sequences

CONSTANTS
    RouteId, UpstreamId, PresetId,
    Host,           \* hostname patterns: [tag, name], a name being [labels, long]
    Cidr,           \* remote matchers: [family, prefix]
    Redirect,       \* redirect rules: [scheme, status]
    AskUrl,         \* on-demand ask URLs: [scheme, private]
    Destination,    \* upstream destinations: [kind, usable]
    Document,       \* the JSON documents that the body of a preset may be
    Text,           \* any other string
    None            \* Option::None

\* The tag of a pattern is one of an enum's.
ASSUME HostAssumption == \A h \in Host : h.tag \in {"Exact", "Wildcard"} \ {None}

Opt(T) == T \cup {None}

Attachment == [preset : PresetId, version : Nat]

\* What each field of a record may hold.
RouteTypes ==
    [hosts |-> Seq(Host), upstreams |-> Seq(UpstreamId), paths |-> Seq(Text), remote |-> Seq(Cidr),
     headers |-> SUBSET {"request", "response"}, redirect |-> Opt(Redirect),
     policy |-> Opt(Attachment), enabled |-> BOOLEAN]

\* The body of a preset is a string: the document it spells, if it spells one.
PresetTypes == [version |-> Nat, body |-> Opt(Document)]

UpstreamTypes == [dest |-> Destination, probe |-> {"Tcp", "Http", "Disabled"}, weight |-> Nat]

GlobalTypes == [adminListen |-> Opt(Text), defaultSni |-> Opt(Text), logLevel |-> Opt(Text)]

TlsTypes == [email |-> Opt(Text), onDemand |-> BOOLEAN, askUrl |-> Opt(AskUrl),
             issuer |-> {"acme", "internal", None}]

IsFunction(f) == f = [k \in DOMAIN f |-> f[k]]

IsRecord(x, types) ==
    /\ IsFunction(x) /\ DOMAIN x = DOMAIN types
    /\ \A field \in DOMAIN types : x[field] \in types[field]

\* A map from some of the keys to such records (BTreeMap).
IsMap(f, keys, types) ==
    IsFunction(f) /\ DOMAIN f \subseteq keys /\ \A k \in DOMAIN f : IsRecord(f[k], types)

IsDesiredState(s) ==
    /\ IsFunction(s)
    /\ DOMAIN s = {"version", "routes", "upstreams", "presets", "tls", "global"}
    /\ s.version \in Nat
    /\ IsMap(s.routes, RouteId, RouteTypes)
    /\ IsMap(s.upstreams, UpstreamId, UpstreamTypes)
    /\ IsMap(s.presets, PresetId, PresetTypes)
    /\ IsRecord(s.tls, TlsTypes)
    /\ IsRecord(s.global, GlobalTypes)

NoGlobal == [adminListen |-> None, defaultSni |-> None, logLevel |-> None]

NoTls == [email |-> None, onDemand |-> FALSE, askUrl |-> None, issuer |-> None]

\* DesiredState::empty, with the presets of the store.
Empty(presets) ==
    [version |-> 0, routes |-> <<>>, upstreams |-> <<>>, presets |-> presets,
     tls |-> NoTls, global |-> NoGlobal]

-----------------------------------------------------------------------------
(* A hostname is its labels, and whether it is longer than 253 bytes;      *)
(* "star" is the label *, and every other label that RFC 1123 forbids      *)
(* (empty, too long, a hyphen at an end, a stray character) is "bad".      *)

LabelsValid(labels) == \A i \in DOMAIN labels : labels[i] = "ok"

\* The pattern that a hostname makes, None if it is invalid.
ValidateHostname(name) ==
    LET labels == name.labels
    IN CASE name.long -> None
         [] ~name.long /\ Len(labels) > 1 /\ labels[1] = "star" ->
               IF Len(labels) > 2 /\ LabelsValid(Tail(labels)) THEN "Wildcard" ELSE None
         [] OTHER -> IF LabelsValid(labels) THEN "Exact" ELSE None

HostnamesValid(hosts) ==
    \A i \in DOMAIN hosts : ValidateHostname(hosts[i].name) = hosts[i].tag

\* parse_cidr: an address of either family and a prefix it has bits for.
CidrValid(cidr) ==
    \/ cidr.family = "v4" /\ cidr.prefix <= 32
    \/ cidr.family = "v6" /\ cidr.prefix <= 128

MatchersValid(remote) == \A i \in DOMAIN remote : CidrValid(remote[i])

RedirectValid(redirect) ==
    /\ redirect.scheme \in {"http", "https"}
    /\ redirect.status \in {300, 301, 302, 303, 307, 308}

AskUrlValid(url) == url.scheme = "https" /\ ~url.private

=============================================================================
