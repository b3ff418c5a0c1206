------------------------------ MODULE Conversion ------------------------------
(***************************************************************************)
(* The provider-independent conversion engine: conversion.Convert, its     *)
(* handleIngress loop and the gateway and route contexts the annotation    *)
(* handlers of a provider work on.                                         *)
(*                                                                         *)
(* The engine visits the Ingresses in the order of their namespaced names, *)
(* the rules of an Ingress in the order they are written, and after every  *)
(* rule all annotations of the Ingress in the order Go's map iteration     *)
(* happens to give, which is any order.  A provider module extends this    *)
(* one with one action for every annotation handler and with Next.         *)
(*                                                                         *)
(* Namespaces, Ingress names and hosts are represented by their rank in    *)
(* string order, since the order is all the engine uses of them.           *)
(***************************************************************************)
EXTENDS AnnotationStatus, Integers, Sequences, FiniteSets, Bags, FiniteSetsExt

CONSTANTS
  Inputs,           \* the inputs a run of the tool may be given
  DefaultNamespace, \* "default"
  RouteName(_, _),  \* common.RouteName: the HTTPRoute name of (Ingress, host)
  ListenerName(_),  \* "https-" + common.NameFromHost: the section of a host
  HTTPListenerName  \* "http"

NoNamespace == 0    \* the --gateway-namespace flag left empty
AnyHost     == 0    \* a rule with an empty host

(* Kubernetes objects have a namespace and a name.                          *)
ASSUME InputsAssumption ==
  \A in \in Inputs : [ns |-> NoNamespace, name |-> 0] \notin DOMAIN in.ings

IsList(s) == s \in Seq({s[i] : i \in DOMAIN s})

(* The rules of an Ingress and the paths of a rule are lists, and hosts are *)
(* ranks.                                                                   *)
ASSUME RulesAssumption ==
  \A in \in Inputs : \A nn \in DOMAIN in.ings :
    LET rules == in.ings[nn].rules
    IN  /\ IsList(rules)
        /\ \A i \in DOMAIN rules : rules[i].host \in Nat /\ IsList(rules[i].paths)
        /\ \A i \in DOMAIN in.ings[nn].tls : in.ings[nn].tls[i].hosts \subseteq Nat

(* So are namespaces and the names of Ingresses.                            *)
ASSUME NamesAssumption ==
  \A in \in Inputs : \A nn \in DOMAIN in.ings : nn.ns \in Nat /\ nn.name \in Nat

(* The section of a host begins with "https-": it is never that of HTTP.    *)
ASSUME ListenerAssumption ==
  \A in \in Inputs : \A nn \in DOMAIN in.ings : \A i \in DOMAIN in.ings[nn].rules :
    ListenerName(in.ings[nn].rules[i].host) # HTTPListenerName

(* What marks a rule without backend is the name of no service.             *)
NoService == ""

ASSUME PathsAssumption ==
  \A in \in Inputs : \A nn \in DOMAIN in.ings : \A i \in DOMAIN in.ings[nn].rules :
    LET paths == in.ings[nn].rules[i].paths
    IN  \A j \in DOMAIN paths : paths[j].kind = "service" => paths[j].svc # NoService

LastApplied == "last-applied-configuration"

VARIABLES
  input,        \* AGICResources and Options: what is converted, never changed
  phase,        \* where Convert is
  todo,         \* namespaced names of the Ingresses not begun yet
  cur,          \* the Ingress being converted
  rule,         \* index of its next rule (of the current one, in "annotations")
  pending,      \* annotations whose turn has not come for the current rule
  named,        \* HTTPRouteContext.namedParentSections
  failed,       \* errs # nil in handleIngress
  routes,       \* the HTTPRoute objects allocated so far, by identity
  graphRoutes,  \* AGCResourceGraph.HTTPRoutes: namespaced name -> identity
  http,         \* GatewayContext.HTTPListener # nil
  https,        \* GatewayContext.HTTPSListeners: host -> its Secrets
  grants,       \* AGCResourceGraph.ReferenceGrants: their namespaces
  redirect,     \* GatewayContext.HasHTTPSRedirect
  gatewayWAF,   \* ID of the gateway's WAF policy, or NoWAF
  gateway,      \* Gateway.Spec.Listeners as build leaves it: section names
  anno,         \* IngressAnnotationContext, by Ingress and key
  reported,     \* IngressContext.HTTPRoutes
  status        \* IngressContext.Status

graphVars    == <<routes, graphRoutes, http, https, grants, redirect>>
progressVars == <<input, phase, todo, cur, rule, named, gatewayWAF, gateway,
                  reported, status>>
engineVars   == <<progressVars, pending, failed, anno, graphVars>>

NoWAF     == "none"
NoIngress == [ns |-> NoNamespace, name |-> 0]

-----------------------------------------------------------------------------
(* What the engine reads of its input.                                      *)

Ingresses   == DOMAIN input.ings
Ingress(nn) == input.ings[nn]
This        == Ingress(cur)

NNLess(a, b) == a.ns < b.ns \/ (a.ns = b.ns /\ a.name < b.name)

(* Seeded fault: the Ingresses are visited in no particular order.          *)
IsNextUnsorted(S, nn) == nn \in S

(* Seeded fault: the comparison has no least name.                          *)
IsNextNever(S, nn) == nn \in S /\ \A other \in S : NNLess(nn, other)

(* nn is what the sorted list of namespaced names yields next.              *)
IsNext(S, nn) == nn \in S /\ \A other \in S \ {nn} : NNLess(nn, other)

(* The namespace of the Gateway: the option, else the namespace of the first *)
(* Ingress of the sorted list, else "default".                              *)
GatewayNamespace ==
  IF input.gatewayNamespace # NoNamespace THEN input.gatewayNamespace
  ELSE IF Ingresses = {} THEN DefaultNamespace
  ELSE (CHOOSE nn \in Ingresses : IsNext(Ingresses, nn)).ns

(* Seeded fault: a resource backend is taken for a service.                 *)
UsableResource(path) == path.kind # "namedPort"

(* A path is migrated when its backend is a Service with a numeric port.    *)
Usable(path) == path.kind = "service"

(* A rule has one match, at most one backend and at most one filter of a    *)
(* kind.  A field of a filter the code leaves nil is "none", an absent      *)
(* redirect has no status code.                                             *)
NoWeight   == -1
NoRewrite  == [host |-> "none", type |-> "none", prefix |-> "none", full |-> "none"]
NoRedirect == [code |-> "none", scheme |-> "none", host |-> "none", port |-> "none",
               path |-> "none"]

(* Only the Prefix type of a path is a prefix; ImplementationSpecific is not.*)
PathMatch(type) == IF type = "Prefix" THEN "PathPrefix" ELSE "Exact"

HTTPRouteRule(path) ==
  [svc |-> path.svc, port |-> path.port, weight |-> NoWeight,
   path |-> path.path, match |-> PathMatch(path.type), headerMatches |-> <<>>,
   rewrite |-> NoRewrite, redirect |-> NoRedirect, headers |-> <<>>]

(* The i-th number of a set in ascending order, and what a loop over a list *)
(* that skips all positions but those kept collects.                        *)
Nth(S, i) == CHOOSE x \in S : Cardinality({y \in S : y <= x}) = i

SubList(list, kept) == [i \in 1 .. Cardinality(kept) |-> list[Nth(kept, i)]]

(* The rules handleIngress appends to the route for one Ingress rule.       *)
RulesOf(paths) ==
  LET usable == SubList(paths, {i \in DOMAIN paths : Usable(paths[i])})
  IN  [i \in DOMAIN usable |-> HTTPRouteRule(usable[i])]

(* The secret initRoute finds for a host, as the one-element function from  *)
(* the host to the secret or, if no TLS entry covers it, the empty function:*)
(* the last entry that names the host, else the last entry without hosts.   *)
(* An entry without secret in a manifest without namespace does not count.  *)
NoSecret == [ns |-> NoNamespace, name |-> ""]

TLSBinding(nn, host) ==
  LET tls      == Ingress(nn).tls
      naming   == {i \in DOMAIN tls : host \in tls[i].hosts}
      wildcard == {i \in DOMAIN tls : tls[i].hosts = {}}
      last(S)  == IF S = {} THEN NoSecret ELSE [ns |-> nn.ns, name |-> tls[Max(S)].secret]
      found    == IF last(naming) # NoSecret THEN last(naming) ELSE last(wildcard)
  IN  [h \in {x \in {host} : found # NoSecret} |-> found]

-----------------------------------------------------------------------------
(* GatewayContext and HTTPRouteContext.                                      *)

NoBinding == [h \in {} |-> NoIngress]

(* Seeded fault: the secret of a listener that exists already is dropped.   *)
EnsureHTTPSListenersFirstSecret(binding) ==
  [h \in DOMAIN https \union DOMAIN binding |->
     IF h \in DOMAIN https THEN https[h] ELSE {binding[h]}]

(* Seeded fault: the secret of a listener that exists already is replaced.  *)
EnsureHTTPSListenersLastSecret(binding) ==
  [h \in DOMAIN https \union DOMAIN binding |->
     IF h \in DOMAIN binding THEN {binding[h]} ELSE https[h]]

(* EnsureHTTPSListener for every host of binding: create its listener, or   *)
(* add the secret to the listener the host has.                             *)
EnsureHTTPSListeners(binding) ==
  [h \in DOMAIN https \union DOMAIN binding |->
     (IF h \in DOMAIN https THEN https[h] ELSE {})
       \union (IF h \in DOMAIN binding THEN {binding[h]} ELSE {})]

(* Seeded fault: the grants handleIngress gives are thought to be enough.   *)
GrantsForNone(binding) == grants

(* The ReferenceGrants EnsureHTTPSListener creates on the way: one in every *)
(* namespace, other than the Gateway's, that a secret of binding lives in.  *)
GrantsFor(binding) ==
  grants \union ({binding[h].ns : h \in DOMAIN binding} \ {GatewayNamespace})

ListenerNames ==
  (IF http THEN {HTTPListenerName} ELSE {})
    \union {ListenerName(h) : h \in DOMAIN https}

(* The parent references of a route are a bag of section names.             *)
SectionsOf(route) == BagToSet(route.parents)

ParentHTTPSListeners(route) ==
  {ListenerName(h) : h \in DOMAIN https} \intersect SectionsOf(route)

RouteId(nn, host) == [ing |-> nn, host |-> host]
ThisRouteId       == RouteId(cur, This.rules[rule].host)
ThisRoute         == routes[ThisRouteId]
RouteNN(nn, host) == [ns |-> nn.ns, name |-> RouteName(nn.name, host)]

(* initRoute, without its effect on the gateway.                            *)
InitialRoute(host) ==
  LET binding == TLSBinding(cur, host)
  IN  [ nn        |-> RouteNN(cur, host),
        hostnames |-> IF host = AnyHost THEN <<>> ELSE <<host>>,
        parents   |-> SetToBag(IF This.tls = <<>> THEN {HTTPListenerName}
                               ELSE {ListenerName(h) : h \in DOMAIN binding}),
        rules     |-> <<>> ]

InsertAt(f, k, v) == [x \in DOMAIN f \union {k} |-> IF x = k THEN v ELSE f[x]]

-----------------------------------------------------------------------------
(* Convert.                                                                  *)

EngineInit ==
  /\ input \in Inputs
  /\ phase = "setup"
  /\ todo = Ingresses
  /\ cur = NoIngress
  /\ rule = 1
  /\ pending = {}
  /\ named = {}
  /\ failed = FALSE
  /\ routes = [id \in {} |-> id]
  /\ graphRoutes = [nn \in {} |-> nn]
  /\ http = FALSE
  /\ https = [h \in {} |-> h]
  /\ grants = {}
  /\ redirect = FALSE
  /\ gatewayWAF = NoWAF
  /\ gateway = <<>>
  /\ anno = [nn \in Ingresses |->
               [k \in DOMAIN Ingress(nn).annos |-> NewAnnotationContext]]
  /\ reported = [nn \in Ingresses |-> <<>>]
  /\ status = [nn \in Ingresses |-> NotStarted]

(* The part of Convert before its loop.  The --waf-id option wins over the  *)
(* policy scraped from the AGIC logs.                                       *)
Setup ==
  /\ phase = "setup"
  /\ phase' = "ingresses"
  /\ gatewayWAF' = IF input.gatewayWAF # NoWAF THEN input.gatewayWAF
                   ELSE input.scrapedWAF
  /\ UNCHANGED <<input, todo, cur, rule, named, gateway, reported, status,
                 pending, failed, anno, graphVars>>

(* handleIngress up to its loop over the rules: a TLS entry with a secret   *)
(* in another namespace than the Gateway's needs a grant.                   *)
BeginIngress(nn) ==
  /\ phase = "ingresses"
  /\ IsNext(todo, nn)
  /\ cur' = nn
  /\ todo' = todo \ {nn}
  /\ rule' = 1
  /\ failed' = FALSE
  /\ phase' = "rules"
  /\ grants' = grants \union
       {ns \in {nn.ns} \ {GatewayNamespace} :
          \E i \in DOMAIN Ingress(nn).tls : Ingress(nn).tls[i].secret # ""}
  /\ UNCHANGED <<input, named, gatewayWAF, gateway, reported, status, pending,
                 anno, routes, graphRoutes, http, https, redirect>>

(* One pass of the loop over the rules up to handleIngressAnnotations.  The *)
(* route of a host is created when the host is first seen; a rule without   *)
(* HTTP section leaves the loop early, after the route has been created and *)
(* reported but before it is stored in the graph.                           *)
BeginRule ==
  /\ phase = "rules"
  /\ rule \in DOMAIN This.rules
  /\ LET r       == This.rules[rule]
         id      == RouteId(cur, r.host)
         isNew   == id \notin DOMAIN routes
         binding == IF isNew THEN TLSBinding(cur, r.host) ELSE NoBinding
         route   == IF isNew THEN InitialRoute(r.host) ELSE routes[id]
     IN  /\ http' = (http \/ (isNew /\ This.tls = <<>>))
         /\ https' = EnsureHTTPSListeners(binding)
         /\ grants' = GrantsFor(binding)
         /\ reported' = [reported EXCEPT ![cur] = Append(@, route.nn)]
         /\ \/ /\ ~r.http
               /\ routes' = InsertAt(routes, id, route)
               /\ rule' = rule + 1
               /\ UNCHANGED <<phase, pending, named>>
            \/ /\ r.http
               /\ routes' = InsertAt(routes, id,
                    [route EXCEPT !.rules = @ \o RulesOf(r.paths)])
               /\ named' = SectionsOf(route)
               /\ pending' = DOMAIN This.annos
               /\ phase' = "annotations"
               /\ UNCHANGED rule
  /\ UNCHANGED <<input, todo, cur, failed, graphRoutes, redirect, gatewayWAF,
                 gateway, anno, status>>

(* The end of a pass: the route is stored under its namespaced name.        *)
EndRule ==
  /\ phase = "annotations"
  /\ pending = {}
  /\ graphRoutes' = InsertAt(graphRoutes, ThisRoute.nn, ThisRouteId)
  /\ rule' = rule + 1
  /\ phase' = "rules"
  /\ UNCHANGED <<input, todo, cur, named, gatewayWAF, gateway, reported, status,
                 pending, failed, anno, routes, http, https, grants, redirect>>

(* MigrationComplete with the joined errors of the rules.                   *)
EndIngress ==
  /\ phase = "rules"
  /\ rule \notin DOMAIN This.rules
  /\ status' = [status EXCEPT ![cur] = IF failed THEN Error ELSE Completed]
  /\ phase' = "ingresses"
  /\ UNCHANGED <<input, todo, cur, rule, named, gatewayWAF, gateway, reported,
                 pending, failed, anno, graphVars>>

(* GatewayContext.build: the HTTP listener, then the HTTPS listeners sorted *)
(* by hostname (all have port 443).                                         *)
BuiltListeners ==
  (IF http THEN <<HTTPListenerName>> ELSE <<>>)
    \o [i \in 1 .. Cardinality(DOMAIN https) |-> ListenerName(Nth(DOMAIN https, i))]

Build ==
  /\ phase = "ingresses"
  /\ todo = {}
  /\ gateway' = BuiltListeners
  /\ phase' = "done"
  /\ UNCHANGED <<input, todo, cur, rule, named, gatewayWAF, reported, status,
                 pending, failed, anno, graphVars>>

-----------------------------------------------------------------------------
(* handleIngressAnnotations: the iteration takes the annotations one by one *)
(* in any order.  Take(k) is its guard; Finish records what the handler did *)
(* to the annotation and whether it returned an error.                      *)

Value(k) == This.annos[k]
Anno(k)  == anno[cur][k]

Take(k) == phase = "annotations" /\ k \in pending

(* Seeded fault: the error of a handler replaces what came before it.       *)
FinishLastError(k, a, err) ==
  /\ pending' = pending \ {k}
  /\ anno' = [anno EXCEPT ![cur][k] = a]
  /\ failed' = err
  /\ UNCHANGED progressVars

Finish(k, a, err) ==
  /\ pending' = pending \ {k}
  /\ anno' = [anno EXCEPT ![cur][k] = a]
  /\ failed' = (failed \/ err)
  /\ UNCHANGED progressVars

handleIgnoredAnnotation ==
  /\ Take(LastApplied)
  /\ Finish(LastApplied, SetStatus(Anno(LastApplied), Ignored), FALSE)
  /\ UNCHANGED graphVars

UnsupportedAnnotation(k) ==
  /\ Take(k)
  /\ Finish(k, RegisterIssue(Anno(k), "UnsupportedAnnotationGeneric"), FALSE)
  /\ UNCHANGED graphVars

EngineNext ==
  \/ Setup
  \/ \E nn \in todo : BeginIngress(nn)
  \/ BeginRule
  \/ EndRule
  \/ EndIngress
  \/ Build
  \/ handleIgnoredAnnotation
=============================================================================
