----------------------------- MODULE MCAGICGateway -----------------------------
(***************************************************************************)
(* Model checking of the AGIC conversion: the Gateway, its listeners,      *)
(* certificates and grants, and the routes that hang on them.              *)
(*                                                                         *)
(* Two Ingresses, in one namespace or in two, with and without the         *)
(* --gateway-namespace option; TLS sections that name the host, name it    *)
(* twice, name only another host, have no hosts or no secret; one rule, a  *)
(* repeated host, a rule without HTTP section.  Also an Ingress from a     *)
(* manifest without namespace, and no Ingress at all.                      *)
(***************************************************************************)
EXTENDS AGICProperties, TLC

MCRouteName(name, host) == "r" \o ToString(name) \o "-" \o ToString(host)
MCListenerName(host)    == "https-" \o ToString(host)

Path(svc, port) == [kind |-> "service", svc |-> svc, port |-> port, path |-> "/", type |-> "Prefix"]
HTTP(host)      == [host |-> host, http |-> TRUE, paths |-> <<Path("s1", 80)>>]
NoHTTP(host)    == [host |-> host, http |-> FALSE, paths |-> <<>>]
TLS(secret, hosts) == [secret |-> secret, hosts |-> hosts]

TLSSections ==
  { <<>>,
    <<TLS("a", {1})>>,
    <<TLS("a", {1}), TLS("b", {1, 3})>>,
    <<TLS("w", {}), TLS("b", {2})>>,
    <<TLS("", {1})>> }

RuleLists ==
  { <<HTTP(1)>>,
    <<HTTP(1), HTTP(1)>>,
    <<NoHTTP(1), HTTP(2)>>,
    <<HTTP(AnyHost), HTTP(1)>> }

Profile(p)   == "appgw-ssl-profile" :> p
Redirect     == "ssl-redirect" :> "true"
Extension(h) == "hostname-extension" :> h
Ignorable    == LastApplied :> "x" @@ "request-routing" :> "x"

Firsts ==
  { [tls |-> tls, rules |-> rules, annos |-> annos] :
      tls \in TLSSections, rules \in RuleLists,
      annos \in { Extension(<<3>>) @@ Redirect @@ Profile("AppGwSslPolicy20220101S"),
                  Extension(<<1, 3, 3>>) @@ Profile("AppGwSslPolicy20150501") @@ Ignorable } }

Seconds ==
  { [tls |-> <<TLS("c", {1, 3})>>, rules |-> <<HTTP(1)>>,
     annos |-> Profile("AppGwSslPolicy20150501") @@ Redirect @@ Extension(<<3>>)],
    [tls |-> <<TLS("w", {})>>, rules |-> <<HTTP(2)>>,
     annos |-> Profile("AppGwSslPolicy20170401S")],
    [tls |-> <<>>, rules |-> <<HTTP(1)>>, annos |-> Ignorable] }

NN(ns, name) == [ns |-> ns, name |-> name]

MCInputs ==
  { [ings |-> NN(1, 1) :> first @@ NN(ns, 2) :> second,
     gatewayNamespace |-> gwns,
     gatewayWAF |-> NoWAF, scrapedWAF |-> "scraped",
     rewrites |-> [nn \in {} |-> nn]] :
      first \in Firsts, second \in Seconds, ns \in {1, 2}, gwns \in {NoNamespace, 2} }
  \union
  { [ings |-> NN(NoNamespace, 1) :> [tls |-> tls, rules |-> rules, annos |-> Extension(<<3, 1>>)],
     gatewayNamespace |-> gwns,
     gatewayWAF |-> NoWAF, scrapedWAF |-> NoWAF,
     rewrites |-> [nn \in {} |-> nn]] :
      tls \in {<<TLS("", {1})>>, <<TLS("", {1}), TLS("w", {})>>},
      rules \in RuleLists, gwns \in {NoNamespace, 2} }
  \union
  { [ings |-> [nn \in {} |-> nn], gatewayNamespace |-> NoNamespace,
     gatewayWAF |-> "flag", scrapedWAF |-> NoWAF, rewrites |-> [nn \in {} |-> nn]] }
=============================================================================
