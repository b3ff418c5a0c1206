----------------------------- MODULE AGICProvider -----------------------------
(***************************************************************************)
(* The AGIC provider: one action for every annotation handler that         *)
(* Provider.GetAnnotationHandlers registers, on top of the engine of       *)
(* Conversion and the policy maps of ResourceGraph.                        *)
(***************************************************************************)
EXTENDS ResourceGraph

HealthKeys ==
  { "health-probe-hostname", "health-probe-path", "health-probe-port",
    "health-probe-interval", "health-probe-timeout",
    "health-probe-unhealthy-threshold", "health-probe-status-codes" }

ParsedHealthKeys == HealthKeys \ {"health-probe-hostname", "health-probe-path"}

AnnotationHandlers ==
  HealthKeys \union
  { "request-timeout", "cookie-based-affinity", "hostname-extension",
    "backend-hostname", "rewrite-rule-set-custom-resource",
    "waf-policy-for-path", "backend-path-prefix", "ssl-redirect",
    "backend-protocol", "appgw-trusted-root-certificate",
    "appgw-ssl-profile" }

(* The value of hostname-extension is a list of hosts.                      *)
ASSUME ExtensionAssumption ==
  \A in \in Inputs : \A nn \in DOMAIN in.ings :
    "hostname-extension" \in DOMAIN in.ings[nn].annos =>
      LET hosts == in.ings[nn].annos["hostname-extension"]
      IN  hosts \in Seq({hosts[i] : i \in DOMAIN hosts})

-----------------------------------------------------------------------------
(* Handlers that touch listeners and routes.                                *)

(* The secrets handleHostNameExtension finds for the hosts of its value: the*)
(* last TLS entry that names the host; entries without hosts do not count.  *)
ExtensionBinding(nn, hosts) ==
  LET tls       == Ingress(nn).tls
      naming(h) == {i \in DOMAIN tls : h \in tls[i].hosts}
  IN  [h \in {x \in {hosts[i] : i \in DOMAIN hosts} : naming(x) # {}} |->
         [ns |-> nn.ns, name |-> tls[Max(naming(h))].secret]]

(* HTTPRouteContext.EnsureHTTPSListener appends a parent reference unless   *)
(* the section was among namedParentSections, a set it never extends.       *)
AddedParents(binding, hosts) ==
  LET added == {i \in DOMAIN hosts : /\ hosts[i] \in DOMAIN binding
                                     /\ ListenerName(hosts[i]) \notin named}
  IN  [section \in {ListenerName(hosts[i]) : i \in added} |->
         Cardinality({i \in added : ListenerName(hosts[i]) = section})]

(* Seeded fault: the references are added, the listeners are not.           *)
handleHostNameExtensionNoListener ==
  LET k == "hostname-extension" IN
  /\ Take(k)
  /\ LET binding == ExtensionBinding(cur, Value(k))
     IN  routes' = [routes EXCEPT
           ![ThisRouteId].hostnames = @ \o Value(k),
           ![ThisRouteId].parents   = @ (+) AddedParents(binding, Value(k))]
  /\ Finish(k, SetStatus(Anno(k), Completed), FALSE)
  /\ UNCHANGED <<https, grants, graphRoutes, http, redirect, policyVars>>

handleHostNameExtension ==
  LET k == "hostname-extension" IN
  /\ Take(k)
  /\ LET binding == ExtensionBinding(cur, Value(k))
     IN  /\ https' = EnsureHTTPSListeners(binding)
         /\ grants' = GrantsFor(binding)
         /\ routes' = [routes EXCEPT
              ![ThisRouteId].hostnames = @ \o Value(k),
              ![ThisRouteId].parents   = @ (+) AddedParents(binding, Value(k))]
  /\ Finish(k, SetStatus(Anno(k), Completed), FALSE)
  /\ UNCHANGED <<graphRoutes, http, redirect, policyVars>>

(* Seeded fault: the redirect route is built without its listener.          *)
handleSSLRedirectNoListener ==
  LET k == "ssl-redirect" IN
  /\ Take(k)
  /\ ~redirect
  /\ redirect' = TRUE
  /\ routes' = InsertAt(routes, RedirectId, RedirectRoute)
  /\ graphRoutes' = InsertAt(graphRoutes, RedirectNN, RedirectId)
  /\ Finish(k, AddDestination(Anno(k), Resource("HTTPRoute", RedirectNN)), FALSE)
  /\ UNCHANGED <<http, https, grants, policyVars>>

(* Seeded fault: the redirect route is stored under the Ingress' namespace. *)
handleSSLRedirectWrongNamespace ==
  LET k == "ssl-redirect" IN
  /\ Take(k)
  /\ ~redirect
  /\ http' = TRUE
  /\ redirect' = TRUE
  /\ routes' = InsertAt(routes, RedirectId, RedirectRoute)
  /\ graphRoutes' = InsertAt(graphRoutes, [RedirectNN EXCEPT !.ns = cur.ns], RedirectId)
  /\ Finish(k, AddDestination(Anno(k), Resource("HTTPRoute", RedirectNN)), FALSE)
  /\ UNCHANGED <<https, grants, policyVars>>

(* Seeded fault: the graph is told of a route that is never built.          *)
handleSSLRedirectUnbuilt ==
  LET k == "ssl-redirect" IN
  /\ Take(k)
  /\ ~redirect
  /\ http' = TRUE
  /\ redirect' = TRUE
  /\ graphRoutes' = InsertAt(graphRoutes, RedirectNN, RedirectId)
  /\ Finish(k, AddDestination(Anno(k), Resource("HTTPRoute", RedirectNN)), FALSE)
  /\ UNCHANGED <<routes, https, grants, policyVars>>

(* The value of the annotation is not looked at.                            *)
handleSSLRedirect ==
  LET k == "ssl-redirect" IN
  /\ Take(k)
  /\ ~redirect
  /\ http' = TRUE
  /\ redirect' = TRUE
  /\ routes' = InsertAt(routes, RedirectId, RedirectRoute)
  /\ graphRoutes' = InsertAt(graphRoutes, RedirectNN, RedirectId)
  /\ Finish(k, AddDestination(Anno(k), Resource("HTTPRoute", RedirectNN)), FALSE)
  /\ UNCHANGED <<https, grants, policyVars>>

(* A second ssl-redirect returns early and leaves its status as it was.     *)
RepeatedSSLRedirect ==
  LET k == "ssl-redirect" IN
  /\ Take(k)
  /\ redirect
  /\ Finish(k, Anno(k), FALSE)
  /\ UNCHANGED <<graphVars, policyVars>>

SSLPolicy(value) ==
  IF value \in {"AppGwSslPolicy20170401S", "AppGwSslPolicy20220101S"}
    THEN "2023-06-S" ELSE "2023-06"

NoHTTPSListeners ==
  LET k == "appgw-ssl-profile" IN
  /\ Take(k)
  /\ ParentHTTPSListeners(ThisRoute) = {}
  /\ Finish(k, RegisterIssue(Anno(k), "NoHTTPSListenersForSSLProfile"), FALSE)
  /\ UNCHANGED <<graphVars, policyVars>>

(* Seeded fault: the policy of a listener is never compared.                *)
ProfileConflictNever(listeners, policy) == FALSE

(* Seeded fault: any policy a listener has already is a conflict.           *)
ProfileConflictAny(listeners, policy) == listeners \intersect DOMAIN frontendTLS # {}

(* Some of the listeners has another policy already.                        *)
ProfileConflict(listeners, policy) ==
  \E s \in listeners \intersect DOMAIN frontendTLS : frontendTLS[s] # policy

(* The listeners come in map order and the first conflict returns, so with  *)
(* a conflict any part of the listeners without policy may have got theirs. *)
handleAppGWSSLProfile ==
  LET k == "appgw-ssl-profile" IN
  /\ Take(k)
  /\ LET policy    == SSLPolicy(Value(k))
         listeners == ParentHTTPSListeners(ThisRoute)
         fresh     == listeners \ DOMAIN frontendTLS
         conflict  == ProfileConflict(listeners, policy)
     IN  /\ listeners # {}
         /\ \E set \in SUBSET fresh :
              /\ conflict \/ set = fresh
              /\ frontendTLS' = [s \in DOMAIN frontendTLS \union set |->
                   IF s \in set THEN policy ELSE frontendTLS[s]]
              /\ LET a == IF set = {} THEN Anno(k)
                          ELSE [RegisterIssue(Anno(k), "FrontendTLSPolicyCipherWarning")
                                  EXCEPT !.dests = @ \union
                                    {Resource("FrontendTLSPolicy", s) : s \in set}]
                 IN  Finish(k, IF conflict
                                 THEN RegisterIssue(a, "FrontendTLSPolicyProfileConflict")
                                 ELSE a,
                            conflict)
  /\ UNCHANGED <<graphVars, routePolicies, routeWAF, healthPolicies, backendTLS>>

-----------------------------------------------------------------------------
(* Handlers that rewrite the rules the route has so far.                    *)

(* Seeded fault: only the first rule of the route is rewritten.             *)
handleBackendHostnameRewriteFirstRule ==
  LET k == "backend-hostname" IN
  /\ Take(k)
  /\ routes' = [routes EXCEPT ![ThisRouteId].rules =
       [i \in DOMAIN @ |-> IF i = 1 THEN [@[i] EXCEPT !.rewrite.host = Value(k)]
                                    ELSE @[i]]]
  /\ Finish(k, SetStatus(Anno(k), Completed), FALSE)
  /\ UNCHANGED <<graphRoutes, http, https, grants, redirect, policyVars>>

handleBackendHostnameRewrite ==
  LET k == "backend-hostname"
      rules == ThisRoute.rules
  IN
  /\ Take(k)
  /\ ModifyRules([i \in DOMAIN rules |-> [rules[i] EXCEPT !.rewrite.host = Value(k)]])
  /\ Finish(k, SetStatus(Anno(k), Completed), FALSE)
  /\ UNCHANGED <<graphRoutes, http, https, grants, redirect, policyVars>>

handleBackendPathPrefix ==
  LET k == "backend-path-prefix"
      rules == ThisRoute.rules
  IN
  /\ Take(k)
  /\ ModifyRules([i \in DOMAIN rules |->
       [rules[i] EXCEPT !.rewrite.type = "prefix", !.rewrite.prefix = Value(k)]])
  /\ Finish(k, SetStatus(Anno(k), Completed), FALSE)
  /\ UNCHANGED <<graphRoutes, http, https, grants, redirect, policyVars>>

RewriteKey == "rewrite-rule-set-custom-resource"
RuleSetNN  == [ns |-> cur.ns, name |-> Value(RewriteKey)]

RewriteNotFound ==
  /\ Take(RewriteKey)
  /\ RuleSetNN \notin DOMAIN input.rewrites
  /\ Finish(RewriteKey, RegisterIssue(Anno(RewriteKey), "CouldNotFindRewrite"), TRUE)
  /\ UNCHANGED <<graphVars, policyVars>>

(* A rule set is represented by what the loop over its rules folds out of   *)
(* them: whether some rule has conditions, a reroute, or another sequence   *)
(* than the first, all header configurations, and the last modified path.   *)
(* A header configuration with an unknown action is an error without issue. *)
handleRewriteRuleSetCustomResource ==
  LET k          == RewriteKey
      rules      == ThisRoute.rules
      ruleSet    == input.rewrites[RuleSetNN]
      known(h)   == h.action \in {"set", "delete"}
      headers    == SelectSeq(ruleSet.headers, known)
      unknown    == \E i \in DOMAIN ruleSet.headers : ~known(ruleSet.headers[i])
      full       == ruleSet.fullPath
      change(r)  == IF full = "none" THEN [r EXCEPT !.headers = @ \o headers]
                    ELSE [r EXCEPT !.headers = @ \o headers,
                                   !.rewrite.type = "full", !.rewrite.full = full]
      issued(a, cond, code) == IF cond THEN RegisterIssue(a, code) ELSE a
      a1 == issued(Anno(k), ruleSet.conditions, "RewriteConditions")
      a2 == issued(a1, ruleSet.sequences, "RewriteRuleSequence")
      a3 == issued(a2, ruleSet.reroute, "RewriteReroute")
      a4 == IF headers # <<>> \/ full # "none" THEN SetStatus(a3, Completed) ELSE a3
      a5 == IF ~unknown /\ a4.status = NotStarted THEN SetStatus(a4, Completed) ELSE a4
  IN
  /\ Take(k)
  /\ RuleSetNN \in DOMAIN input.rewrites
  /\ ModifyRules([i \in DOMAIN rules |-> change(rules[i])])
  /\ Finish(k, a5, unknown)
  /\ UNCHANGED <<graphRoutes, http, https, grants, redirect, policyVars>>

-----------------------------------------------------------------------------
(* Handlers of the policies attached to a route.                            *)

InvalidRouteSetting(k) ==
  /\ Take(k)
  /\ k \in {"request-timeout", "cookie-based-affinity"}
  /\ Value(k) = Invalid
  /\ Finish(k, RegisterIssue(Anno(k), "InvalidAnnotationValue"), TRUE)
  /\ UNCHANGED <<graphVars, policyVars>>

(* Seeded fault: a fresh policy replaces the one the route has.             *)
handleRequestTimeoutFresh ==
  LET k == "request-timeout"  nn == ThisRoute.nn IN
  /\ Take(k)
  /\ Value(k) # Invalid
  /\ routePolicies' = InsertAt(routePolicies, nn, [NewRoutePolicy EXCEPT !.timeout = Value(k)])
  /\ Finish(k, AddDestination(Anno(k), Resource("RoutePolicy", nn)), FALSE)
  /\ UNCHANGED <<graphVars, routeWAF, healthPolicies, backendTLS, frontendTLS>>

handleRequestTimeout ==
  LET k == "request-timeout"  nn == ThisRoute.nn IN
  /\ Take(k)
  /\ Value(k) # Invalid
  /\ routePolicies' = InsertAt(routePolicies, nn, [RoutePolicy(nn) EXCEPT !.timeout = Value(k)])
  /\ Finish(k, AddDestination(Anno(k), Resource("RoutePolicy", nn)), FALSE)
  /\ UNCHANGED <<graphVars, routeWAF, healthPolicies, backendTLS, frontendTLS>>

DisabledAffinity ==
  LET k == "cookie-based-affinity" IN
  /\ Take(k)
  /\ Value(k) = "false"
  /\ Finish(k, SetStatus(Anno(k), Completed), FALSE)
  /\ UNCHANGED <<graphVars, policyVars>>

handleCookieBasedAffinity ==
  LET k == "cookie-based-affinity"  nn == ThisRoute.nn IN
  /\ Take(k)
  /\ Value(k) = "true"
  /\ routePolicies' = InsertAt(routePolicies, nn, [RoutePolicy(nn) EXCEPT !.affinity = TRUE])
  /\ Finish(k, AddDestination(Anno(k), Resource("RoutePolicy", nn)), FALSE)
  /\ UNCHANGED <<graphVars, routeWAF, healthPolicies, backendTLS, frontendTLS>>

(* Seeded fault: the policy is reported but not put in the graph.           *)
handleWAFPolicyForPathUnstored ==
  LET k == "waf-policy-for-path"  nn == ThisRoute.nn IN
  /\ Take(k)
  /\ Finish(k, AddDestination(RegisterIssue(Anno(k), "WAFPotentialIncompatibility"),
                              Resource("WAFPolicy", nn)), FALSE)
  /\ UNCHANGED <<graphVars, policyVars>>

handleWAFPolicyForPath ==
  LET k == "waf-policy-for-path"  nn == ThisRoute.nn IN
  /\ Take(k)
  /\ routeWAF' = InsertAt(routeWAF, nn, Value(k))
  /\ Finish(k, AddDestination(RegisterIssue(Anno(k), "WAFPotentialIncompatibility"),
                              Resource("WAFPolicy", nn)), FALSE)
  /\ UNCHANGED <<graphVars, routePolicies, healthPolicies, backendTLS, frontendTLS>>

-----------------------------------------------------------------------------
(* Handlers of the policies attached to a service, over BackendGroup.       *)

NewHealthPolicy == [k \in HealthKeys |-> Unset]

HealthPolicy(svc) ==
  IF svc \in DOMAIN healthPolicies THEN healthPolicies[svc] ELSE NewHealthPolicy

InvalidHealthProbe(k) ==
  /\ Take(k)
  /\ k \in ParsedHealthKeys
  /\ Value(k) = Invalid
  /\ Finish(k, IF k = "health-probe-status-codes" THEN SetStatus(Anno(k), Error)
               ELSE RegisterIssue(Anno(k), "InvalidAnnotationValue"), TRUE)
  /\ UNCHANGED <<graphVars, policyVars>>

(* Seeded fault: a setting of another Ingress does not count as a conflict. *)
OpenServicesAll(k) == Services(ThisRoute)

(* The services whose policy has no other value of the setting yet.         *)
OpenServices(k) == {s \in Services(ThisRoute) : HealthPolicy(s)[k] \in {Unset, Value(k)}}

(* BackendGroup.Apply with the body of a health probe handler: the first    *)
(* value of a setting stays, another one is a conflict.  Without a service  *)
(* Apply reports an error of its own.                                       *)
handleHealthProbe(k) ==
  /\ Take(k)
  /\ k \in HealthKeys
  /\ k \in ParsedHealthKeys => Value(k) # Invalid
  /\ LET svcs == Services(ThisRoute)
         open == OpenServices(k)
         done == AddDestinations(Anno(k), {Resource("HealthCheckPolicy", s) : s \in open})
     IN  /\ healthPolicies' = [s \in DOMAIN healthPolicies \union svcs |->
              IF s \in open THEN [HealthPolicy(s) EXCEPT ![k] = Value(k)] ELSE HealthPolicy(s)]
         /\ Finish(k, IF open = svcs THEN done ELSE RegisterIssue(done, "HealthCheckConflict"),
                   svcs = {} \/ open # svcs)
  /\ UNCHANGED <<graphVars, routePolicies, routeWAF, backendTLS, frontendTLS>>

PlainBackendProtocol ==
  LET k == "backend-protocol" IN
  /\ Take(k)
  /\ Value(k) = "http"
  /\ Finish(k, SetStatus(Anno(k), Completed), FALSE)
  /\ UNCHANGED <<graphVars, policyVars>>

(* Error is set first, so the NotSupported of the issue does not show.      *)
UnknownBackendProtocol ==
  LET k == "backend-protocol" IN
  /\ Take(k)
  /\ Value(k) \notin {"http", "https"}
  /\ Finish(k, RegisterIssue(SetStatus(Anno(k), Error), "UnsupportBackendProtocol"), TRUE)
  /\ UNCHANGED <<graphVars, policyVars>>

(* Seeded fault: the ports of the policy are replaced, not extended.        *)
handleBackendProtocolReplaces ==
  LET k == "backend-protocol"  svcs == Services(ThisRoute) IN
  /\ Take(k)
  /\ Value(k) = "https"
  /\ backendTLS' = [s \in DOMAIN backendTLS \union svcs |->
       IF s \in svcs THEN {FirstPort(ThisRoute, s)} ELSE backendTLS[s]]
  /\ Finish(k, IF svcs = {}
                 THEN RegisterIssue(SetStatus(Anno(k), Error), "CreatingBackendTLSPolicy")
                 ELSE AddDestinations(Anno(k), {Resource("BackendTLSPolicy", s) : s \in svcs}),
            svcs = {})
  /\ UNCHANGED <<graphVars, routePolicies, routeWAF, healthPolicies, frontendTLS>>

handleBackendProtocol ==
  LET k == "backend-protocol"  svcs == Services(ThisRoute) IN
  /\ Take(k)
  /\ Value(k) = "https"
  /\ backendTLS' = [s \in DOMAIN backendTLS \union svcs |->
       BackendTLSPorts(s) \union (IF s \in svcs THEN {FirstPort(ThisRoute, s)} ELSE {})]
  /\ Finish(k, IF svcs = {}
                 THEN RegisterIssue(SetStatus(Anno(k), Error), "CreatingBackendTLSPolicy")
                 ELSE AddDestinations(Anno(k), {Resource("BackendTLSPolicy", s) : s \in svcs}),
            svcs = {})
  /\ UNCHANGED <<graphVars, routePolicies, routeWAF, healthPolicies, frontendTLS>>

handleAppGWTrustedRootCertificates ==
  LET k == "appgw-trusted-root-certificate" IN
  /\ Take(k)
  /\ Finish(k, RegisterIssue(Anno(k), "TrustedRootCertificates"), FALSE)
  /\ UNCHANGED <<graphVars, policyVars>>

-----------------------------------------------------------------------------
(* The conversion of a whole input.                                         *)

Unsupported ==
  \E k \in pending \ (AnnotationHandlers \union {LastApplied}) :
    UnsupportedAnnotation(k) /\ UNCHANGED policyVars

Handler ==
  \/ handleHostNameExtension
  \/ handleSSLRedirect
  \/ RepeatedSSLRedirect
  \/ NoHTTPSListeners
  \/ handleAppGWSSLProfile
  \/ handleBackendHostnameRewrite
  \/ handleBackendPathPrefix
  \/ RewriteNotFound
  \/ handleRewriteRuleSetCustomResource
  \/ \E k \in pending : InvalidRouteSetting(k)
  \/ handleRequestTimeout
  \/ DisabledAffinity
  \/ handleCookieBasedAffinity
  \/ handleWAFPolicyForPath
  \/ \E k \in pending : InvalidHealthProbe(k)
  \/ \E k \in pending : handleHealthProbe(k)
  \/ PlainBackendProtocol
  \/ UnknownBackendProtocol
  \/ handleBackendProtocol
  \/ handleAppGWTrustedRootCertificates

Next == EngineStep \/ Unsupported \/ Handler \/ Returned

(* Convert is one goroutine that never waits: some step is always taken.    *)
Spec == Init /\ [][Next]_vars /\ WF_vars(Next)
=============================================================================
