------------------------------ MODULE AGICProofs ------------------------------
(***************************************************************************)
(* Proofs, for every set of inputs, every naming of routes and listeners   *)
(* and every order of the annotation handlers, of the invariants of the    *)
(* AGIC conversion that say its Gateway is sound at every moment, and of   *)
(* the refinement of GatewayContract: one lemma for every group of         *)
(* handlers, on top of the lemmas of ConversionProofs.                     *)
(***************************************************************************)
EXTENDS AGICProperties, ConversionProofs

(* The handlers of route policies, and the early returns of the handlers    *)
(* that change the graph otherwise.                                         *)
LEMMA RouteHandlersStep ==
  ASSUME IInv,
         \/ RepeatedSSLRedirect
         \/ NoHTTPSListeners
         \/ RewriteNotFound
         \/ \E k \in pending : InvalidRouteSetting(k)
         \/ handleRequestTimeout
         \/ DisabledAffinity
         \/ handleCookieBasedAffinity
         \/ handleWAFPolicyForPath
  PROVE  StepOK
<1>1. CASE RepeatedSSLRedirect
  <2> DEFINE k == "ssl-redirect"
             a == Anno(k)
  <2>1. Take(k) /\ Finish(k, a, FALSE) /\ UNCHANGED graphVars
    BY <1>1 DEF RepeatedSSLRedirect
  <2>2. AnnotationOK(a)
    BY <2>1, CurrentAnnotation, SetStatusOK
  <2> HIDE DEF k, a
  <2> QED
    BY <2>1, <2>2, QuietHandlerStep
<1>2. CASE NoHTTPSListeners
  <2> DEFINE k == "appgw-ssl-profile"
             a == RegisterIssue(Anno(k), "NoHTTPSListenersForSSLProfile")
  <2>1. Take(k) /\ Finish(k, a, FALSE) /\ UNCHANGED graphVars
    BY <1>2 DEF NoHTTPSListeners
  <2>2. AnnotationOK(a)
    BY <2>1, CurrentAnnotation, RegisterIssueOK, IssueCodes
  <2> HIDE DEF k, a
  <2> QED
    BY <2>1, <2>2, QuietHandlerStep
<1>3. CASE RewriteNotFound
  <2> DEFINE k == RewriteKey
             a == RegisterIssue(Anno(k), "CouldNotFindRewrite")
  <2>1. Take(k) /\ Finish(k, a, TRUE) /\ UNCHANGED graphVars
    BY <1>3 DEF RewriteNotFound
  <2>2. AnnotationOK(a)
    BY <2>1, CurrentAnnotation, RegisterIssueOK, IssueCodes
  <2> HIDE DEF k, a
  <2> QED
    BY <2>1, <2>2, QuietHandlerStep
<1>4. ASSUME NEW k \in pending, InvalidRouteSetting(k)
      PROVE  StepOK
  <2> DEFINE a == RegisterIssue(Anno(k), "InvalidAnnotationValue")
  <2>1. Take(k) /\ Finish(k, a, TRUE) /\ UNCHANGED graphVars
    BY <1>4 DEF InvalidRouteSetting
  <2>2. AnnotationOK(a)
    BY <2>1, CurrentAnnotation, RegisterIssueOK, IssueCodes
  <2> HIDE DEF a
  <2> QED
    BY <2>1, <2>2, QuietHandlerStep
<1>5. CASE handleRequestTimeout
  <2> DEFINE k == "request-timeout"
             a == AddDestination(Anno(k), Resource("RoutePolicy", ThisRoute.nn))
  <2>1. Take(k) /\ Finish(k, a, FALSE) /\ UNCHANGED graphVars
    BY <1>5 DEF handleRequestTimeout
  <2>2. AnnotationOK(a)
    BY <2>1, CurrentAnnotation, AddDestinationOK
  <2> HIDE DEF k, a
  <2> QED
    BY <2>1, <2>2, QuietHandlerStep
<1>6. CASE DisabledAffinity
  <2> DEFINE k == "cookie-based-affinity"
             a == SetStatus(Anno(k), Completed)
  <2>1. Take(k) /\ Finish(k, a, FALSE) /\ UNCHANGED graphVars
    BY <1>6 DEF DisabledAffinity
  <2>2. AnnotationOK(a)
    BY <2>1, CurrentAnnotation, SetStatusOK DEF MigrationStatus
  <2> HIDE DEF k, a
  <2> QED
    BY <2>1, <2>2, QuietHandlerStep
<1>7. CASE handleCookieBasedAffinity
  <2> DEFINE k == "cookie-based-affinity"
             a == AddDestination(Anno(k), Resource("RoutePolicy", ThisRoute.nn))
  <2>1. Take(k) /\ Finish(k, a, FALSE) /\ UNCHANGED graphVars
    BY <1>7 DEF handleCookieBasedAffinity
  <2>2. AnnotationOK(a)
    BY <2>1, CurrentAnnotation, AddDestinationOK
  <2> HIDE DEF k, a
  <2> QED
    BY <2>1, <2>2, QuietHandlerStep
<1>8. CASE handleWAFPolicyForPath
  <2> DEFINE k == "waf-policy-for-path"
             b == RegisterIssue(Anno(k), "WAFPotentialIncompatibility")
             a == AddDestination(b, Resource("WAFPolicy", ThisRoute.nn))
  <2>1. Take(k) /\ Finish(k, a, FALSE) /\ UNCHANGED graphVars
    BY <1>8 DEF handleWAFPolicyForPath
  <2>2. AnnotationOK(b)
    BY <2>1, CurrentAnnotation, RegisterIssueOK, IssueCodes
  <2> HIDE DEF b
  <2>3. AnnotationOK(a)
    BY <2>2, AddDestinationOK
  <2> HIDE DEF k, a
  <2> QED
    BY <2>1, <2>3, QuietHandlerStep
<1> QED
  BY <1>1, <1>2, <1>3, <1>4, <1>5, <1>6, <1>7, <1>8

(* The handlers over BackendGroup: health probes and backend TLS.           *)
LEMMA BackendHandlersStep ==
  ASSUME IInv,
         \/ \E k \in pending : InvalidHealthProbe(k)
         \/ \E k \in pending : handleHealthProbe(k)
         \/ PlainBackendProtocol
         \/ UnknownBackendProtocol
         \/ handleBackendProtocol
         \/ handleAppGWTrustedRootCertificates
  PROVE  StepOK
<1>1. ASSUME NEW k \in pending, InvalidHealthProbe(k)
      PROVE  StepOK
  <2> DEFINE a == IF k = "health-probe-status-codes" THEN SetStatus(Anno(k), Error)
                  ELSE RegisterIssue(Anno(k), "InvalidAnnotationValue")
  <2>1. Take(k) /\ Finish(k, a, TRUE) /\ UNCHANGED graphVars
    BY <1>1 DEF InvalidHealthProbe
  <2>2. Error \in MigrationStatus
    BY DEF MigrationStatus
  <2>3. AnnotationOK(a)
    BY <2>1, <2>2, CurrentAnnotation, SetStatusOK, RegisterIssueOK, IssueCodes
  <2> HIDE DEF a
  <2> QED
    BY <2>1, <2>3, QuietHandlerStep
<1>2. ASSUME NEW k \in pending, handleHealthProbe(k)
      PROVE  StepOK
  <2> DEFINE open == OpenServices(k)
             svcs == Services(ThisRoute)
             b    == AddDestinations(Anno(k), {Resource("HealthCheckPolicy", s) : s \in open})
             a    == IF open = svcs THEN b ELSE RegisterIssue(b, "HealthCheckConflict")
             err  == svcs = {} \/ open # svcs
  <2>1. Take(k) /\ Finish(k, a, err) /\ UNCHANGED graphVars
    BY <1>2 DEF handleHealthProbe
  <2>2. AnnotationOK(b)
    BY <2>1, CurrentAnnotation, AddDestinationsOK
  <2> HIDE DEF b
  <2>3. AnnotationOK(a)
    BY <2>2, RegisterIssueOK, IssueCodes
  <2>4. err \in BOOLEAN
    OBVIOUS
  <2> HIDE DEF a, err
  <2> QED
    BY <2>1, <2>3, <2>4, QuietHandlerStep
<1>3. CASE PlainBackendProtocol
  <2> DEFINE k == "backend-protocol"
             a == SetStatus(Anno(k), Completed)
  <2>1. Take(k) /\ Finish(k, a, FALSE) /\ UNCHANGED graphVars
    BY <1>3 DEF PlainBackendProtocol
  <2>2. AnnotationOK(a)
    BY <2>1, CurrentAnnotation, SetStatusOK DEF MigrationStatus
  <2> HIDE DEF k, a
  <2> QED
    BY <2>1, <2>2, QuietHandlerStep
<1>4. CASE UnknownBackendProtocol
  <2> DEFINE k == "backend-protocol"
             b == SetStatus(Anno(k), Error)
             a == RegisterIssue(b, "UnsupportBackendProtocol")
  <2>1. Take(k) /\ Finish(k, a, TRUE) /\ UNCHANGED graphVars
    BY <1>4 DEF UnknownBackendProtocol
  <2>2. AnnotationOK(b)
    BY <2>1, CurrentAnnotation, SetStatusOK DEF MigrationStatus
  <2> HIDE DEF b
  <2>3. AnnotationOK(a)
    BY <2>2, RegisterIssueOK, IssueCodes
  <2> HIDE DEF k, a
  <2> QED
    BY <2>1, <2>3, QuietHandlerStep
<1>5. CASE handleBackendProtocol
  <2> DEFINE k    == "backend-protocol"
             svcs == Services(ThisRoute)
             b    == SetStatus(Anno(k), Error)
             a    == IF svcs = {} THEN RegisterIssue(b, "CreatingBackendTLSPolicy")
                     ELSE AddDestinations(Anno(k), {Resource("BackendTLSPolicy", s) : s \in svcs})
             err  == svcs = {}
  <2>1. Take(k) /\ Finish(k, a, err) /\ UNCHANGED graphVars
    BY <1>5 DEF handleBackendProtocol
  <2>2. AnnotationOK(Anno(k))
    BY <2>1, CurrentAnnotation
  <2>3. AnnotationOK(b)
    BY <2>2, SetStatusOK DEF MigrationStatus
  <2> HIDE DEF b
  <2>4. AnnotationOK(a)
    BY <2>2, <2>3, RegisterIssueOK, AddDestinationsOK, IssueCodes
  <2>5. err \in BOOLEAN
    OBVIOUS
  <2> HIDE DEF k, a, err
  <2> QED
    BY <2>1, <2>4, <2>5, QuietHandlerStep
<1>6. CASE handleAppGWTrustedRootCertificates
  <2> DEFINE k == "appgw-trusted-root-certificate"
             a == RegisterIssue(Anno(k), "TrustedRootCertificates")
  <2>1. Take(k) /\ Finish(k, a, FALSE) /\ UNCHANGED graphVars
    BY <1>6 DEF handleAppGWTrustedRootCertificates
  <2>2. AnnotationOK(a)
    BY <2>1, CurrentAnnotation, RegisterIssueOK, IssueCodes
  <2> HIDE DEF k, a
  <2> QED
    BY <2>1, <2>2, QuietHandlerStep
<1> QED
  BY <1>1, <1>2, <1>3, <1>4, <1>5, <1>6

(* The TLS profile handler, also where it returns at the first conflict     *)
(* with any part of the listeners done.                                     *)
LEMMA SSLProfileStep ==
  ASSUME IInv, handleAppGWSSLProfile
  PROVE  StepOK
<1> DEFINE k      == "appgw-ssl-profile"
           policy == SSLPolicy(Value(k))
           listeners == ParentHTTPSListeners(ThisRoute)
           conflict  == ProfileConflict(listeners, policy)
           new(set)  == {Resource("FrontendTLSPolicy", s) : s \in set}
           b         == RegisterIssue(Anno(k), "FrontendTLSPolicyCipherWarning")
           c(set)    == IF set = {} THEN Anno(k) ELSE [b EXCEPT !.dests = @ \union new(set)]
           a(set)    == IF conflict THEN RegisterIssue(c(set), "FrontendTLSPolicyProfileConflict")
                        ELSE c(set)
<1>1. Take(k) /\ UNCHANGED graphVars
  BY DEF handleAppGWSSLProfile
<1>2. PICK set : Finish(k, a(set), conflict)
  BY DEF handleAppGWSSLProfile
<1>3. AnnotationOK(Anno(k))
  BY <1>1, CurrentAnnotation
<1>4. AnnotationOK(b)
  BY <1>3, RegisterIssueOK, IssueCodes
<1> HIDE DEF b
<1>5. AnnotationOK(c(set))
  BY <1>3, <1>4 DEF AnnotationOK
<1> HIDE DEF c
<1>6. AnnotationOK(a(set))
  BY <1>5, RegisterIssueOK, IssueCodes
<1>7. conflict \in BOOLEAN
  BY DEF ProfileConflict
<1> HIDE DEF a, conflict, k
<1> QED
  BY <1>1, <1>2, <1>6, <1>7, QuietHandlerStep

-----------------------------------------------------------------------------
(* The handlers that rewrite the rules of the current route.                *)

(* The three handlers that rewrite rules: hostname, path prefix and the     *)
(* rewrite rule set.                                                        *)
LEMMA RewriteHandlersStep ==
  ASSUME IInv,
         \/ handleBackendHostnameRewrite
         \/ handleBackendPathPrefix
         \/ handleRewriteRuleSetCustomResource
  PROVE  StepOK
<1>1. CASE handleBackendHostnameRewrite
  <2> DEFINE k == "backend-hostname"
             a == SetStatus(Anno(k), Completed)
             rules == [i \in DOMAIN routes[ThisRouteId].rules |->
                         [routes[ThisRouteId].rules[i] EXCEPT !.rewrite.host = Value(k)]]
  <2>1. /\ Take(k) /\ Finish(k, a, FALSE)
        /\ routes' = [routes EXCEPT ![ThisRouteId].rules = rules]
        /\ UNCHANGED <<graphRoutes, http, https, grants, redirect>>
    BY <1>1, Zenon DEF handleBackendHostnameRewrite, ModifyRules, ThisRoute
  <2>2. AnnotationOK(a)
    BY <2>1, CurrentAnnotation, SetStatusOK DEF MigrationStatus
  <2> HIDE DEF k, a, rules
  <2>3. phase = "annotations" /\ input' = input
    BY <2>1 DEF Take, Finish, progressVars
  <2>4. GraphInv' /\ Grow
    BY <2>1, <2>3, RulesRewritten
  <2> QED
    BY <2>1, <2>2, <2>4, HandlerStep
<1>2. CASE handleBackendPathPrefix
  <2> DEFINE k == "backend-path-prefix"
             a == SetStatus(Anno(k), Completed)
             rules == [i \in DOMAIN routes[ThisRouteId].rules |->
                         [routes[ThisRouteId].rules[i] EXCEPT
                            !.rewrite.type = "prefix", !.rewrite.prefix = Value(k)]]
  <2>1. /\ Take(k) /\ Finish(k, a, FALSE)
        /\ routes' = [routes EXCEPT ![ThisRouteId].rules = rules]
        /\ UNCHANGED <<graphRoutes, http, https, grants, redirect>>
    BY <1>2, Zenon DEF handleBackendPathPrefix, ModifyRules, ThisRoute
  <2>2. AnnotationOK(a)
    BY <2>1, CurrentAnnotation, SetStatusOK DEF MigrationStatus
  <2> HIDE DEF k, a, rules
  <2>3. phase = "annotations" /\ input' = input
    BY <2>1 DEF Take, Finish, progressVars
  <2>4. GraphInv' /\ Grow
    BY <2>1, <2>3, RulesRewritten
  <2> QED
    BY <2>1, <2>2, <2>4, HandlerStep
<1>3. CASE handleRewriteRuleSetCustomResource
  <2> DEFINE k         == RewriteKey
             ruleSet   == input.rewrites[RuleSetNN]
             known(h)  == h.action \in {"set", "delete"}
             headers   == SelectSeq(ruleSet.headers, known)
             unknown   == \E i \in DOMAIN ruleSet.headers : ~known(ruleSet.headers[i])
             full      == ruleSet.fullPath
             change(r) == IF full = "none" THEN [r EXCEPT !.headers = @ \o headers]
                          ELSE [r EXCEPT !.headers = @ \o headers,
                                         !.rewrite.type = "full", !.rewrite.full = full]
             rules     == [i \in DOMAIN routes[ThisRouteId].rules |->
                             change(routes[ThisRouteId].rules[i])]
             issued(b, cond, code) == IF cond THEN RegisterIssue(b, code) ELSE b
             a1 == issued(Anno(k), ruleSet.conditions, "RewriteConditions")
             a2 == issued(a1, ruleSet.sequences, "RewriteRuleSequence")
             a3 == issued(a2, ruleSet.reroute, "RewriteReroute")
             a4 == IF headers # <<>> \/ full # "none" THEN SetStatus(a3, Completed) ELSE a3
             a5 == IF ~unknown /\ a4.status = NotStarted THEN SetStatus(a4, Completed) ELSE a4
  <2>1. /\ Take(k) /\ Finish(k, a5, unknown)
        /\ routes' = [routes EXCEPT ![ThisRouteId].rules = rules]
        /\ UNCHANGED <<graphRoutes, http, https, grants, redirect>>
    BY <1>3, Zenon DEF handleRewriteRuleSetCustomResource, ModifyRules, ThisRoute
  <2>2. unknown \in BOOLEAN
    OBVIOUS
  <2> HIDE DEF ruleSet, headers, unknown, full, rules
  <2>3. AnnotationOK(Anno(k))
    BY <2>1, CurrentAnnotation
  <2>4. AnnotationOK(a1)
    BY <2>3, RegisterIssueOK, IssueCodes
  <2> HIDE DEF a1
  <2>5. AnnotationOK(a2)
    BY <2>4, RegisterIssueOK, IssueCodes
  <2> HIDE DEF a2
  <2>6. AnnotationOK(a3)
    BY <2>5, RegisterIssueOK, IssueCodes
  <2> HIDE DEF a3
  <2>7. Completed \in MigrationStatus
    BY DEF MigrationStatus
  <2>8. AnnotationOK(a4)
    BY <2>6, <2>7, SetStatusOK
  <2> HIDE DEF a4
  <2>9. AnnotationOK(a5)
    BY <2>7, <2>8, SetStatusOK
  <2> HIDE DEF a5, k
  <2>10. phase = "annotations" /\ input' = input
    BY <2>1 DEF Take, Finish, progressVars
  <2>11. GraphInv' /\ Grow
    BY <2>1, <2>10, RulesRewritten
  <2> QED
    BY <2>1, <2>2, <2>9, <2>11, HandlerStep
<1> QED
  BY <1>1, <1>2, <1>3

-----------------------------------------------------------------------------
(* The handlers that open listeners.                                         *)

(* The references hostname-extension appends to the route are to listeners  *)
(* it has just ensured.                                                     *)
LEMMA HostNameExtensionStep ==
  ASSUME IInv, handleHostNameExtension
  PROVE  StepOK
<1> DEFINE k       == "hostname-extension"
           a       == SetStatus(Anno(k), Completed)
           binding == ExtensionBinding(cur, Value(k))
           added   == AddedParents(binding, Value(k))
<1>1. /\ Take(k) /\ Finish(k, a, FALSE)
      /\ https' = EnsureHTTPSListeners(binding) /\ grants' = GrantsFor(binding)
      /\ routes' = [routes EXCEPT
           ![ThisRouteId].hostnames = @ \o Value(k),
           ![ThisRouteId].parents   = @ (+) added]
      /\ UNCHANGED <<graphRoutes, http, redirect>>
  BY ZenonT(60) DEF handleHostNameExtension
<1>2. AnnotationOK(a)
  BY <1>1, CurrentAnnotation, SetStatusOK DEF MigrationStatus
<1>3. phase = "annotations" /\ input' = input
  BY <1>1 DEF Take, Finish, progressVars
<1>4. \A s \in DOMAIN added : \E h \in DOMAIN binding : s = ListenerName(h)
  BY DEF AddedParents
<1> HIDE DEF k, a, binding, added
<1>5. ThisRouteId \in DOMAIN routes /\ DOMAIN routes[ThisRouteId] = HTTPRouteFields
  BY <1>3 DEF IInv, TypeOK, ProgressOK, GraphOK
<1>6. /\ DOMAIN routes' = DOMAIN routes
      /\ \A id \in DOMAIN routes :
           /\ DOMAIN routes'[id] = HTTPRouteFields
           /\ routes'[id].parents = IF id = ThisRouteId THEN routes[id].parents (+) added
                                    ELSE routes[id].parents
  BY <1>1, <1>5 DEF IInv, TypeOK, GraphOK, HTTPRouteFields
<1>7. ASSUME NEW id \in DOMAIN routes
      PROVE  /\ SectionsOf(routes[id]) \subseteq SectionsOf(routes'[id])
             /\ SectionsOf(routes'[id]) \subseteq SectionsOf(routes[id]) \union DOMAIN added
  BY <1>6 DEF SectionsOf, BagToSet, (+)
<1>8. /\ ForeignSecretsGranted'
      /\ DOMAIN https' = DOMAIN https \union DOMAIN binding
      /\ \A h \in DOMAIN https' : https'[h] # {}
      /\ \A h \in DOMAIN https : https[h] \subseteq https'[h]
      /\ grants \subseteq grants'
  BY <1>1, <1>3, ListenersEnsured
<1>9. GraphOK'
  BY <1>1, <1>3, <1>6, <1>8, SameNamespace
     DEF IInv, TypeOK, GraphOK, HTTPRouteFields, Ingresses, RedirectId
<1>10. ParentsResolve'
  <2>1. ListenerNames \subseteq ListenerNames' /\ DOMAIN added \subseteq ListenerNames'
    BY <1>1, <1>4, <1>8 DEF ListenerNames
  <2> QED
    BY <1>6, <1>7, <2>1 DEF IInv, ParentsResolve, SectionsOf
<1>11. Grow
  BY <1>1, <1>3, <1>6, <1>7, <1>8 DEF Grow, SectionsOf
<1> QED
  BY <1>1, <1>2, <1>8, <1>9, <1>10, <1>11, HandlerStep DEF GraphInv

(* The handler of the redirect that is not there yet.                       *)
LEMMA SSLRedirectStep ==
  ASSUME IInv, handleSSLRedirect
  PROVE  StepOK
<1> DEFINE k == "ssl-redirect"
           a == AddDestination(Anno(k), Resource("HTTPRoute", RedirectNN))
<1>1. /\ Take(k) /\ Finish(k, a, FALSE)
      /\ ~redirect /\ redirect' = TRUE /\ http' = TRUE
      /\ routes' = InsertAt(routes, RedirectId, RedirectRoute)
      /\ graphRoutes' = InsertAt(graphRoutes, RedirectNN, RedirectId)
      /\ UNCHANGED <<https, grants>>
  BY DEF handleSSLRedirect
<1>2. AnnotationOK(a)
  BY <1>1, CurrentAnnotation, AddDestinationOK
<1> HIDE DEF k, a
<1> QED
  BY <1>1, <1>2, RedirectStep

-----------------------------------------------------------------------------
(* The induction.                                                            *)

(* Every step of a conversion keeps the invariant and only adds to the      *)
(* Gateway.                                                                 *)
LEMMA NextStep ==
  ASSUME IInv, [Next]_vars
  PROVE  StepOK
<1>1. CASE EngineNext
  BY <1>1, EngineNextStep
<1>2. CASE Unsupported
  BY <1>2, EngineHandlersStep DEF Unsupported
<1>3. CASE Handler
  BY <1>3, HostNameExtensionStep, SSLRedirectStep, RouteHandlersStep, SSLProfileStep,
     RewriteHandlersStep, BackendHandlersStep DEF Handler
<1>4. CASE UNCHANGED vars
  BY <1>4, StutterStep DEF vars
<1> QED
  BY <1>1, <1>2, <1>3, <1>4 DEF Next, EngineStep, Returned

(* The inductive invariant: the shape of the state together with the three  *)
(* safety invariants, of which none is inductive alone, since the redirect  *)
(* route must be new, the current route must exist and listeners must never *)
(* go.                                                                      *)
THEOREM Invariance == Spec => []IInv
<1>1. Init => IInv
  BY InitInv
<1>2. IInv /\ [Next]_vars => IInv'
  BY NextStep DEF StepOK
<1> QED
  BY <1>1, <1>2, PTL DEF Spec

(* The state of Convert keeps its shape: the current route exists while     *)
(* handlers run, and the graph stores allocated routes only.                *)
THEOREM TypeCorrectness == Spec => []TypeOK
<1>1. IInv => TypeOK
  BY DEF IInv
<1> QED
  BY <1>1, Invariance, PTL

(* In whatever order handlers touch an annotation, its status stays as      *)
(* severe as every error and warning registered on it.                      *)
THEOREM SeveritySafety == Spec => []SeverityReflectsIssues
<1>1. IInv => SeverityReflectsIssues
  BY DEF IInv
<1> QED
  BY <1>1, Invariance, PTL

(* Every parent reference of every HTTPRoute names a listener the Gateway   *)
(* has, at every moment of the conversion.                                  *)
THEOREM ParentsSafety == Spec => []ParentsResolve
<1>1. IInv => ParentsResolve
  BY DEF IInv
<1> QED
  BY <1>1, Invariance, PTL

(* No listener ever names a secret of another namespace before the          *)
(* ReferenceGrant for it is there.                                          *)
THEOREM CertificateSafety == Spec => []ForeignSecretsGranted
<1>1. IInv => ForeignSecretsGranted
  BY DEF IInv
<1> QED
  BY <1>1, Invariance, PTL

(* The conversion implements the contract of the Gateway: it only adds      *)
(* listeners, certificates, grants and references, each reference resolves, *)
(* and nothing changes once the Gateway is built.                           *)
THEOREM Refinement == Spec => KeepsGatewayContract
<1>1. Init => Contract!Init
  BY ContractInit
<1>2. IInv /\ [Next]_vars => [Contract!Extend \/ Contract!Seal]_(Contract!gatewayVars)
  BY NextStep, ContractStep
<1> QED
  BY <1>1, <1>2, Invariance, PTL DEF Spec, KeepsGatewayContract, Contract!Spec
=============================================================================
