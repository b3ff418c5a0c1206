---------------------------- MODULE MCAGICBackends -----------------------------
(***************************************************************************)
(* Model checking of the AGIC conversion: the policies the annotation      *)
(* handlers attach to services and routes and the rewrites they put in the *)
(* rules.                                                                  *)
(*                                                                         *)
(* Two Ingresses, in one namespace or in two, that share a service; a      *)
(* host with one rule, a repeated host, a service on two ports, paths that *)
(* are not migrated, alone and among others; every handler, with a value   *)
(* that parses, one that does not and the zero value.                      *)
(***************************************************************************)
EXTENDS AGICProperties, TLC

MCRouteName(name, host) == "r" \o ToString(name) \o "-" \o ToString(host)
MCListenerName(host)    == "https-" \o ToString(host)

Path(svc, port) == [kind |-> "service", svc |-> svc, port |-> port, path |-> "/", type |-> "Prefix"]
Other(kind)     == [kind |-> kind, svc |-> "s1", port |-> 80, path |-> "/x", type |-> "Exact"]
NoHTTP(host)      == [host |-> host, http |-> FALSE, paths |-> <<>>]
HTTP(host, paths) == [host |-> host, http |-> TRUE, paths |-> paths]

RuleLists ==
  { <<HTTP(1, <<Path("s1", 80)>>), HTTP(1, <<Path("s2", 80)>>)>>,
    <<HTTP(1, <<Other("namedPort"), Path("s1", 81), Path("s1", 80)>>)>>,
    <<HTTP(1, <<Other("resource")>>), NoHTTP(2), HTTP(2, <<Path("s2", 80)>>), NoHTTP(3)>> }

Pairs(k, values) == {k :> v : v \in values}

(* Groups of annotations whose handlers meet on the same state.             *)
HealthGroups ==
  { p @@ q : p \in Pairs("health-probe-path", {"/a", "/b", Unset}),
             q \in Pairs("health-probe-port", {"80", Invalid}) }
BackendGroups ==
  { p @@ q @@ "health-probe-status-codes" :> Invalid :
      p \in Pairs("backend-protocol", {"http", "https", "grpc"}),
      q \in Pairs("appgw-trusted-root-certificate", {"cert"}) }
RouteGroups ==
  { p @@ q @@ "waf-policy-for-path" :> "waf" :
      p \in Pairs("request-timeout", {"30", Invalid}),
      q \in Pairs("cookie-based-affinity", {"true", "false", Invalid}) }
RewriteGroups ==
  { "backend-hostname" :> "h" @@ "backend-path-prefix" :> "/p" @@
      "rewrite-rule-set-custom-resource" :> v : v \in {"full", "headers", "missing"} }

Groups == HealthGroups \union BackendGroups \union RouteGroups \union RewriteGroups

Ing(rules, annos) == [tls |-> <<>>, rules |-> rules, annos |-> annos]

Shared == <<HTTP(2, <<Path("s1", 80), Path("s2", 80)>>)>>

Seconds ==
  { Ing(Shared, "health-probe-path" :> "/a" @@ "health-probe-port" :> "80"),
    Ing(Shared, "backend-protocol" :> "https" @@ "request-timeout" :> "60"
                  @@ "backend-hostname" :> "g") }

NN(ns, name) == [ns |-> ns, name |-> name]

RuleSet(conditions, headers, full) ==
  [conditions |-> conditions, sequences |-> ~conditions, reroute |-> conditions,
   headers |-> headers, fullPath |-> full]

Rewrites ==
  NN(1, "full") :> RuleSet(FALSE, <<>>, "/f") @@
  NN(1, "headers") :> RuleSet(TRUE,
    <<[action |-> "set", name |-> "h1"], [action |-> "other", name |-> "h2"],
      [action |-> "delete", name |-> "h3"]>>, "none")

MCInputs ==
  { [ings |-> NN(1, 1) :> Ing(rules, annos) @@ NN(ns, 2) :> second,
     gatewayNamespace |-> NoNamespace, gatewayWAF |-> NoWAF, scrapedWAF |-> NoWAF,
     rewrites |-> Rewrites] :
      rules \in RuleLists, annos \in Groups, second \in Seconds, ns \in {1, 2} }

(* The inputs in which one Ingress has status codes that do not parse.      *)
MCStatusCodeInputs ==
  { i \in MCInputs :
      "health-probe-status-codes" \in DOMAIN i.ings[NN(1, 1)].annos /\
      i.ings[NN(1, 1)].annos["backend-protocol"] = "http" }
=============================================================================
