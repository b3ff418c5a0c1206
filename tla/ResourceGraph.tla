----------------------------- MODULE ResourceGraph -----------------------------
(***************************************************************************)
(* What the annotation handlers of both providers share on top of the      *)
(* engine: the policy maps of resources.AGCResourceGraph, the backends of  *)
(* a route (conversion.BackendGroup) and the one HTTPS redirect route.     *)
(*                                                                         *)
(* A value of an annotation is represented by what its handler makes of    *)
(* it: Invalid when it does not parse, Unset when it parses to the zero    *)
(* value the handlers take for "not configured", else itself.              *)
(***************************************************************************)
EXTENDS Conversion

CONSTANT RedirectName   \* "https-redirect"

VARIABLES
  routePolicies,        \* route -> timeout and session affinity
  routeWAF,             \* route -> WAF policy ID
  healthPolicies,       \* service -> health probe settings
  backendTLS,           \* service -> ports BackendTLSPolicy applies to
  frontendTLS           \* HTTPS section -> TLS settings of the listener

policyVars == <<routePolicies, routeWAF, healthPolicies, backendTLS, frontendTLS>>
vars       == <<engineVars, policyVars>>

Invalid == "invalid"
Unset   == ""

-----------------------------------------------------------------------------
(* Destinations of an annotation.                                            *)

Resource(kind, id) == [kind |-> kind, id |-> id]

AddDestinations(a, resources) ==
  IF resources = {} THEN a
  ELSE SetStatus([a EXCEPT !.dests = @ \union resources], Completed)

-----------------------------------------------------------------------------
(* Routes: the redirect route of the Gateway, and rewriting the rules the   *)
(* current route has so far.                                                *)

RedirectId == RouteId(NoIngress, AnyHost)
RedirectNN == [ns |-> GatewayNamespace, name |-> RedirectName]

(* Its one rule has the redirect filter and no backend; nothing looks at it *)
(* again, and it is left out.                                               *)
RedirectRoute ==
  [nn |-> RedirectNN, hostnames |-> <<>>, parents |-> SetToBag({HTTPListenerName}),
   rules |-> <<>>]

(* The rules of the current route as a loop over them leaves them.          *)
ModifyRules(rules) == routes' = [routes EXCEPT ![ThisRouteId].rules = rules]

-----------------------------------------------------------------------------
(* Policies of a route and of a service.                                     *)

NewRoutePolicy == [timeout |-> Unset, affinity |-> FALSE, duration |-> Unset]

RoutePolicy(nn) ==
  IF nn \in DOMAIN routePolicies THEN routePolicies[nn] ELSE NewRoutePolicy

ServiceNN(route, r) == [ns |-> route.nn.ns, name |-> r.svc]

(* The rules of a route that have a backend, and the services behind them.  *)
BackendRules(route) == {i \in DOMAIN route.rules : route.rules[i].svc # NoService}
Services(route)     == {ServiceNN(route, route.rules[i]) : i \in BackendRules(route)}

(* NewBackendGroup keeps one port of a service: that of its first rule.     *)
FirstPort(route, svc) ==
  route.rules[Min({i \in BackendRules(route) : ServiceNN(route, route.rules[i]) = svc})].port

BackendTLSPorts(svc) == IF svc \in DOMAIN backendTLS THEN backendTLS[svc] ELSE {}

-----------------------------------------------------------------------------

Init ==
  /\ EngineInit
  /\ routePolicies = [nn \in {} |-> NewRoutePolicy]
  /\ routeWAF = [nn \in {} |-> NoWAF]
  /\ healthPolicies = [svc \in {} |-> svc]
  /\ backendTLS = [svc \in {} |-> {}]
  /\ frontendTLS = [s \in {} |-> s]

EngineStep == EngineNext /\ UNCHANGED policyVars

(* Convert has returned.                                                    *)
Returned == phase = "done" /\ UNCHANGED vars
=============================================================================
