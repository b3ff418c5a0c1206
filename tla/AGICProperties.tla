---------------------------- MODULE AGICProperties ----------------------------
(***************************************************************************)
(* What a conversion of AGIC Ingresses has to get right.  Most properties  *)
(* compare the resource graph at the end of Convert with a description of  *)
(* it read off the input alone: they hold for every order in which the     *)
(* annotation handlers may have run, or they fail.                         *)
(***************************************************************************)
EXTENDS AGICProvider, Reporting

(* The listeners, their certificates and the grants at the end are those    *)
(* the Ingresses call for, in whatever order handlers ran: one HTTPS        *)
(* listener for every host of a rule that TLS covers and every extension    *)
(* host that TLS names, with the secrets of all Ingresses that bind it.     *)
Bindings(nn) ==
  (UNION {{<<h, TLSBinding(nn, h)[h]>> : h \in DOMAIN TLSBinding(nn, host)} :
            host \in RuleHosts(nn)})
  \union
  (IF HasAnnotation(nn, "hostname-extension") /\ ActiveRules(nn) # {}
     THEN LET b == ExtensionBinding(nn, AnnotationOf(nn, "hostname-extension"))
          IN  {<<h, b[h]>> : h \in DOMAIN b}
     ELSE {})

GatewayAsDeclared ==
  Done =>
    LET bound == UNION {Bindings(nn) : nn \in Ingresses}
    IN  /\ https = [h \in {b[1] : b \in bound} |-> {b[2] : b \in {c \in bound : c[1] = h}}]
        /\ http = \E nn \in Ingresses :
             \/ Ingress(nn).tls = <<>> /\ Ingress(nn).rules # <<>>
             \/ HasAnnotation(nn, "ssl-redirect") /\ ActiveRules(nn) # {}
        /\ grants = {nn.ns : nn \in {m \in Ingresses :
             \/ \E i \in DOMAIN Ingress(m).tls : Ingress(m).tls[i].secret # ""
             \/ Bindings(m) # {}}} \ {GatewayNamespace}
        /\ {gateway[i] : i \in DOMAIN gateway} = ListenerNames

(* Provided no two routes get the same name, the graph holds exactly one    *)
(* route for every host with an HTTP rule, and its rules are the usable     *)
(* backends of that host, none lost, repeated or reordered by the rules,    *)
(* repeated hosts and handlers in between.                                  *)
RoutesAsDeclared ==
  Done /\ NamesAreUnique =>
    /\ DOMAIN graphRoutes \ {RedirectNN} = {PairNN(p) : p \in ActivePairs}
    /\ \A p \in ActivePairs :
         LET declared == DeclaredBackends(p[1], p[2])
             stored   == routes[graphRoutes[PairNN(p)]].rules
         IN  /\ DOMAIN stored = DOMAIN declared
             /\ \A i \in DOMAIN stored :
                  /\ stored[i].svc = declared[i].svc
                  /\ stored[i].port = declared[i].port
                  /\ stored[i].path = declared[i].path

(* The redirect route exists exactly when some Ingress asks for a redirect  *)
(* on a rule that is handled, and it hangs on an HTTP listener.             *)
RedirectInstalled ==
  Done =>
    /\ redirect = \E nn \in Ingresses :
         HasAnnotation(nn, "ssl-redirect") /\ ActiveRules(nn) # {}
    /\ redirect => http /\ RedirectNN \in DOMAIN graphRoutes

(* A TLS profile either holds, at the end, for the listener of each host it *)
(* was given for, or its annotation is in error.                            *)
ProfileAppliedOrReported ==
  Done =>
    \A p \in ActivePairs :
      HasAnnotation(p[1], "appgw-ssl-profile") /\ DOMAIN TLSBinding(p[1], p[2]) # {} =>
        \/ /\ ListenerName(p[2]) \in DOMAIN frontendTLS
           /\ frontendTLS[ListenerName(p[2])] = SSLPolicy(AnnotationOf(p[1], "appgw-ssl-profile"))
        \/ anno[p[1]]["appgw-ssl-profile"].status = Error

(* What the conflict message says is true: the profile an Ingress is refused*)
(* for was set by an Ingress converted before it, never by another rule or  *)
(* host of its own.                                                         *)
ProfileConflictIsForeign ==
  LET k == "appgw-ssl-profile" IN
  \A nn \in {m \in Ingresses : HasAnnotation(m, k)} :
    "FrontendTLSPolicyProfileConflict" \in anno[nn][k].issues =>
      \E other \in {m \in Ingresses : HasAnnotation(m, k)} :
        /\ NNLess(other, nn)
        /\ SSLPolicy(AnnotationOf(other, k)) # SSLPolicy(AnnotationOf(nn, k))
        /\ \E s \in DOMAIN frontendTLS : frontendTLS[s] = SSLPolicy(AnnotationOf(other, k))

-----------------------------------------------------------------------------
(* The settings of services and routes.                                      *)

(* A health probe setting either holds, at the end, for every service of    *)
(* the Ingress, or its annotation and its Ingress are in error: no setting  *)
(* is lost to another Ingress without a word.  A zero setting is left out:  *)
(* the code cannot tell it from none.                                       *)
HealthProbeAppliedOrReported ==
  Done =>
    \A p \in ActivePairs : \A k \in HealthKeys \intersect DOMAIN Ingress(p[1]).annos :
      AnnotationOf(p[1], k) \notin {Invalid, Unset} =>
        \/ \A svc \in DeclaredServices(p[1], p[2]) :
             svc \in DOMAIN healthPolicies /\ healthPolicies[svc][k] = AnnotationOf(p[1], k)
        \/ anno[p[1]][k].status = Error /\ status[p[1]] = Error

(* What the conflict message says is true: the value an Ingress is refused  *)
(* for comes from another Ingress, one that was converted before it and     *)
(* shares the service, never from an earlier rule of its own.               *)
ConflictComesFromAnotherIngress ==
  \A nn \in Ingresses : \A k \in DOMAIN anno[nn] :
    "HealthCheckConflict" \in anno[nn][k].issues =>
      \E other \in Ingresses :
        /\ NNLess(other, nn)
        /\ other.ns = nn.ns
        /\ HasAnnotation(other, k)
        /\ AnnotationOf(other, k) # AnnotationOf(nn, k)
        /\ \E h \in ActiveHosts(nn), g \in ActiveHosts(other) :
             \E svc \in DeclaredServices(nn, h) \intersect DeclaredServices(other, g) :
               healthPolicies[svc][k] = AnnotationOf(other, k)

(* BackendTLSPolicies cover exactly the services of the Ingresses that ask  *)
(* for https, each with the first port of the service on every such route.  *)
DeclaredTLSPorts(svc) ==
  LET users == {p \in ActivePairs :
                  /\ HasAnnotation(p[1], "backend-protocol")
                  /\ AnnotationOf(p[1], "backend-protocol") = "https"
                  /\ svc \in DeclaredServices(p[1], p[2])}
      first(p) == FirstPort([nn |-> PairNN(p), rules |-> DeclaredBackends(p[1], p[2])], svc)
  IN  {first(p) : p \in users}

BackendTLSAsDeclared ==
  Done =>
    LET services == UNION {DeclaredServices(p[1], p[2]) : p \in ActivePairs}
    IN  backendTLS = [svc \in {s \in services : DeclaredTLSPorts(s) # {}} |->
                        DeclaredTLSPorts(svc)]

(* Every rule of every route of an Ingress carries the rewrites of the      *)
(* Ingress, also the rules a repeated host added after a first round of     *)
(* handlers.                                                                *)
RewritesCoverAllRules ==
  Done /\ NamesAreUnique =>
    \A p \in ActivePairs : \A i \in DOMAIN routes[PairId(p)].rules :
      LET r == routes[PairId(p)].rules[i]
          asked(k, value) == HasAnnotation(p[1], k) => value = AnnotationOf(p[1], k)
      IN  /\ asked("backend-hostname", r.rewrite.host)
          /\ asked("backend-path-prefix", r.rewrite.prefix)

(* The route policies are those the annotations call for, timeouts and      *)
(* affinity of one route in one policy, and no route has a policy it did    *)
(* not ask for.                                                             *)
WantsTimeout(nn) ==
  HasAnnotation(nn, "request-timeout") /\ AnnotationOf(nn, "request-timeout") # Invalid
WantsAffinity(nn) ==
  HasAnnotation(nn, "cookie-based-affinity") /\ AnnotationOf(nn, "cookie-based-affinity") = "true"

RoutePoliciesAsDeclared ==
  Done /\ NamesAreUnique =>
    /\ DOMAIN routePolicies =
         {PairNN(p) : p \in {q \in ActivePairs : WantsTimeout(q[1]) \/ WantsAffinity(q[1])}}
    /\ \A p \in ActivePairs :
         LET policy == RoutePolicy(PairNN(p))
         IN  /\ policy.affinity = WantsAffinity(p[1])
             /\ WantsTimeout(p[1]) => policy.timeout = AnnotationOf(p[1], "request-timeout")

-----------------------------------------------------------------------------
(* Statements of the repository that the code does not keep.                *)

(* resources/agic_issues.go: an Ingress whose SSL profile is reported to    *)
(* have found no HTTPS listeners has a route without HTTPS listeners.       *)
SSLProfileIssueIsAccurate ==
  Done =>
    \A nn \in Ingresses :
      HasAnnotation(nn, "appgw-ssl-profile") =>
        ("NoHTTPSListenersForSSLProfile" \in anno[nn]["appgw-ssl-profile"].issues =>
           \E h \in ActiveHosts(nn) : ParentHTTPSListeners(routes[RouteId(nn, h)]) = {})

(* conversion/contexts_test.go: re-adding the same listener doesn't add a   *)
(* duplicate parent reference.                                              *)
NoDuplicateParentRefs ==
  \A id \in DOMAIN routes : \A section \in SectionsOf(routes[id]) :
    routes[id].parents[section] = 1

(* README.md: the report lists the Gateway API resources created.           *)
ReportedRoutesExist ==
  Done => \A nn \in Ingresses : \A i \in DOMAIN reported[nn] :
            reported[nn][i] \in DOMAIN graphRoutes
=============================================================================
