-------------------------------- MODULE MCNGINX --------------------------------
(***************************************************************************)
(* Model checking of the NGINX conversion.  An Ingress with a repeated     *)
(* host, a regex path, a path that is not migrated or a rule for any host, *)
(* and a second Ingress, in its namespace or another, that shares a host   *)
(* and its listener with it.  Annotations come in groups whose handlers    *)
(* meet on the same state; every handler has values that parse, values     *)
(* that do not and values that switch it off.                              *)
(***************************************************************************)
EXTENDS NGINXProperties, TLC

MCRouteName(name, host) == "r" \o ToString(name) \o "-" \o ToString(host)
MCListenerName(host)    == "https-" \o ToString(host)

MCRegexPaths     == {"/v2(.*)", "(.*)"}
MCPrefixOf(path) == IF path = "/v2(.*)" THEN "/v2" ELSE "/"
MCWWWHosts       == {2}
MCWWWName(host)  == "www." \o ToString(host)

Path(path, svc, port) ==
  [kind |-> "service", svc |-> svc, port |-> port, path |-> path, type |-> "Prefix"]
NamedPort == [kind |-> "namedPort", svc |-> "s1", port |-> 80, path |-> "/x", type |-> "Exact"]
HTTP(host, paths) == [host |-> host, http |-> TRUE, paths |-> paths]

RuleLists ==
  { <<HTTP(1, <<Path("/v2(.*)", "s1", 80), Path("/", "s2", 80)>>), HTTP(1, <<Path("/a", "s1", 81)>>)>>,
    <<HTTP(2, <<Path("(.*)", "s1", 80), NamedPort>>), HTTP(1, <<NamedPort>>)>>,
    <<HTTP(AnyHost, <<Path("/", "s1", 80)>>)>> }

Pairs(k, values) == {k :> v : v \in values}
Absent == {<<>>}

-----------------------------------------------------------------------------
(* Annotations of routes.                                                    *)

URL(kind, scheme, host, port, path) ==
  [kind |-> kind, scheme |-> scheme, host |-> host, port |-> port, path |-> path]
Full     == URL("url", "https", "h", "8443", "/f")
PathOnly == URL("url", "none", "none", "none", "/p")
NoURL    == URL("empty", "none", "none", "none", "none")
BadURL   == URL("invalid", "none", "none", "none", "none")

RedirectGroups ==
  { p @@ q @@ r : p \in Pairs("permanent-redirect", {Full, NoURL, BadURL}),
                  q \in Pairs("temporal-redirect", {PathOnly}) \union Absent,
                  r \in Pairs("app-root", {"/app"}) \union Absent }
    \union
  { p @@ q : p \in Pairs("temporal-redirect", {Full, NoURL, BadURL}),
             q \in Pairs("temporal-redirect-code", {"307", "301", Unset}) }
    \union
  { p @@ q : p \in Pairs("permanent-redirect", {Full}),
             q \in Pairs("permanent-redirect-code", {"308", "302", Unset}) }
    \union
  { p @@ q : p \in Pairs("from-to-www-redirect", {"true", "false"}),
             q \in Pairs("permanent-redirect", {PathOnly}) \union Absent }

SSLGroups ==
  { p @@ q : p \in Pairs("ssl-redirect", {"true", "false", Invalid}),
             q \in Pairs("force-ssl-redirect", {"true", "false", Invalid}) }

Target(path, groups, static) == [path |-> path, groups |-> groups, static |-> static]

RewriteGroups ==
  { p @@ q @@ r : p \in Pairs("rewrite-target", {Target("/t", FALSE, "/t"), Target("/t/$1", TRUE, "/t/")}),
                  q \in Pairs("use-regex", {"true", "false", Invalid}),
                  r \in Pairs("app-root", {"/app"}) \union Absent }
    \union
  { p @@ "x-forwarded-prefix" :> "/x" @@ "connection-proxy-header" :> "close" @@ "server-alias" :> <<3, 4>> :
      p \in Pairs("upstream-vhost", {"v", Unset}) }

CanaryGroups ==
  { p @@ q @@ "canary" :> "true" : p \in Pairs("canary-weight", {10, 60, -1}),
                                   q \in Pairs("canary-weight-total", {50, 0}) \union Absent }
    \union
  { p @@ q @@ r : p \in Pairs("canary-by-header", {"x", Unset}),
                  q \in Pairs("canary-by-header-value", {"v"}) \union Absent,
                  r \in Pairs("canary-by-header-pattern", {"p", Invalid}) \union Absent }
    \union
  { "canary-by-header" :> "x" @@ "app-root" :> "/app" @@ "canary-weight" :> 10 }

-----------------------------------------------------------------------------
(* Annotations of policies.                                                  *)

Secret(ns) == [ns |-> ns, name |-> "ca"]

ClientGroups ==
  { p @@ q @@ r :
      p \in Pairs("auth-tls-secret", {Secret(NoNamespace), Secret(3)}) \union Absent,
      q \in Pairs("auth-tls-verify-client", {"on", "optional", "off", "optional_no_ca", "maybe"}),
      r \in Pairs("ssl-ciphers", {"c"}) \union Absent }

AffinityGroups ==
  { p @@ q @@ r @@ s :
      p \in Pairs("affinity", {"cookie", "ip"}) \union Absent,
      q \in Pairs("session-cookie-expires", {"60", Invalid}),
      r \in Pairs("session-cookie-max-age", {"90"}) \union Absent,
      s \in Pairs("proxy-read-timeout", {"30", Invalid}) \union Absent }

WAFGroups ==
  { p @@ q @@ r :
      p \in Pairs("enable-modsecurity", {"true", "false", Invalid}) \union Absent,
      q \in Pairs("enable-owasp-core-rules", {"true", "false", Invalid}),
      r \in Pairs("modsecurity-snippet", {"s"}) \union Absent }

ProtocolGroups ==
  { p @@ q : p \in Pairs("backend-protocol", {"http", "https", "grpc", "grpcs", "ajp"}),
             q \in Pairs("load-balance", {"round_robin", "ewma"}) }

NoticeGroups == { n.key :> "v" @@ "auth-realm" :> "v" @@ LastApplied :> "v" : n \in Notices }

-----------------------------------------------------------------------------
(* Inputs.                                                                   *)

TLS(hosts) == <<[hosts |-> hosts, secret |-> "cert"]>>
Ing(tls, rules, annos) == [tls |-> tls, rules |-> rules, annos |-> annos]
NN(ns, name) == [ns |-> ns, name |-> name]

Input(first, second, ns) ==
  [ings |-> NN(1, 1) :> first @@ NN(ns, 2) :> second, gatewayNamespace |-> NoNamespace,
   gatewayWAF |-> NoWAF, scrapedWAF |-> NoWAF, rewrites |-> <<>>]

RouteGroups == RedirectGroups \union SSLGroups \union RewriteGroups \union CanaryGroups

MCRouteInputs ==
  { Input(Ing(<<>>, rules, annos),
          Ing(TLS({1}), <<HTTP(1, <<Path("/", "s1", 80)>>)>>, "ssl-redirect" :> "true"), 2) :
      rules \in RuleLists, annos \in RouteGroups }
    \union
  { Input(Ing(TLS({1, 2}), rules, annos),
          Ing(TLS({1}), <<HTTP(1, <<Path("/", "s1", 80)>>)>>, "ssl-redirect" :> "true"), 2) :
      rules \in RuleLists, annos \in SSLGroups }

Seconds ==
  { "auth-tls-secret" :> Secret(NoNamespace), "auth-tls-verify-client" :> "on",
    "backend-protocol" :> "https" @@ "enable-modsecurity" :> "true" }

PolicyGroups ==
  ClientGroups \union AffinityGroups \union WAFGroups \union ProtocolGroups \union NoticeGroups

MCPolicyInputs ==
  { Input(Ing(tls, rules, annos), Ing(TLS({1}), <<HTTP(1, <<Path("/", "s1", 82)>>)>>, second), ns) :
      tls \in {<<>>, TLS({1, 2})}, rules \in RuleLists, annos \in PolicyGroups,
      second \in Seconds, ns \in {1, 2} }

MCInputs == MCRouteInputs \union MCPolicyInputs

(* The inputs with nothing but a permanent redirect and its code.           *)
MCRedirectInputs ==
  { i \in MCRouteInputs :
      DOMAIN i.ings[NN(1, 1)].annos = {"permanent-redirect", "permanent-redirect-code"} }
=============================================================================
