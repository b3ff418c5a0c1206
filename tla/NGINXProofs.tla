------------------------------ MODULE NGINXProofs ------------------------------
(***************************************************************************)
(* Proofs, for every set of inputs, every naming and every order of the    *)
(* annotation handlers, of the invariants of the NGINX conversion that say *)
(* its Gateway is sound at every moment, and of the refinement of          *)
(* GatewayContract.  Most handlers are instances of four shapes, each with *)
(* a lemma of its own on top of ConversionProofs.                          *)
(***************************************************************************)
EXTENDS NGINXProperties, ConversionProofs

(* What the handlers make of the annotation they are called for.            *)
LEMMA AnnotationForms ==
  ASSUME IInv, NEW k, Take(k)
  PROVE  /\ AnnotationOK(Anno(k))
         /\ AnnotationOK(Succeeded(k))
         /\ AnnotationOK(Rejected(k))
         /\ \A s \in MigrationStatus : AnnotationOK(SetStatus(Anno(k), s))
         /\ \A code \in IssueCode :
              /\ AnnotationOK(RegisterIssue(Anno(k), code))
              /\ \A s \in MigrationStatus : AnnotationOK(SetStatus(RegisterIssue(Anno(k), code), s))
<1>1. AnnotationOK(Anno(k))
  BY CurrentAnnotation
<1>2. \A s \in MigrationStatus : AnnotationOK(SetStatus(Anno(k), s))
  BY <1>1, SetStatusOK
<1>3. \A code \in IssueCode : AnnotationOK(RegisterIssue(Anno(k), code))
  BY <1>1, RegisterIssueOK
<1>4. \A code \in IssueCode : \A s \in MigrationStatus :
        AnnotationOK(SetStatus(RegisterIssue(Anno(k), code), s))
  BY <1>3, SetStatusOK
<1>5. AnnotationOK(Succeeded(k))
  BY <1>2 DEF Succeeded, MigrationStatus
<1>6. AnnotationOK(Rejected(k))
  BY <1>3, IssueCodes DEF Rejected
<1> QED
  BY <1>1, <1>2, <1>3, <1>4, <1>5, <1>6

-----------------------------------------------------------------------------
(* The four shapes of a handler.                                             *)

(* One that only reports.                                                   *)
LEMMA NoticeStep ==
  ASSUME IInv, NEW k, NEW a, NEW err \in BOOLEAN, Notice(k, a, err), AnnotationOK(a)
  PROVE  StepOK
<1>1. Take(k) /\ Finish(k, a, err) /\ UNCHANGED graphVars
  BY DEF Notice
<1> QED
  BY <1>1, QuietHandlerStep

(* One that goes over the rules of the current route.                       *)
LEMMA RewriteRulesStep ==
  ASSUME IInv, NEW k, NEW rules, NEW a, RewriteRules(k, rules, a), AnnotationOK(a)
  PROVE  StepOK
<1>1. /\ Take(k) /\ Finish(k, a, FALSE)
      /\ routes' = [routes EXCEPT ![ThisRouteId].rules = rules]
      /\ UNCHANGED <<graphRoutes, http, https, grants, redirect>>
  BY Zenon DEF RewriteRules, ModifyRules
<1>2. phase = "annotations" /\ input' = input
  BY <1>1 DEF Take, Finish, progressVars
<1>3. GraphInv' /\ Grow
  BY <1>1, <1>2, RulesRewritten
<1> QED
  BY <1>1, <1>3, HandlerStep

(* One that sets up the policy of the current route.                        *)
LEMMA SetRoutePolicyStep ==
  ASSUME IInv, NEW k, NEW policy, SetRoutePolicy(k, policy)
  PROVE  StepOK
<1> DEFINE a == AddDestination(Anno(k), Resource("RoutePolicy", ThisRoute.nn))
<1>1. Take(k) /\ Finish(k, a, FALSE) /\ UNCHANGED graphVars
  BY DEF SetRoutePolicy
<1>2. AnnotationOK(a)
  BY <1>1, CurrentAnnotation, AddDestinationOK
<1> HIDE DEF a
<1> QED
  BY <1>1, <1>2, QuietHandlerStep

(* One that sets up the TLS policies of the listeners.                      *)
LEMMA SetFrontendTLSStep ==
  ASSUME IInv, NEW k, NEW settings, NEW a, SetFrontendTLS(k, settings, a), AnnotationOK(a)
  PROVE  StepOK
<1>1. Take(k) /\ Finish(k, a, FALSE) /\ UNCHANGED graphVars
  BY DEF SetFrontendTLS
<1> QED
  BY <1>1, QuietHandlerStep

(* The annotation such a handler leaves, with an issue.                     *)
LEMMA AtListenersOK ==
  ASSUME IInv, NEW k, Take(k), NEW code \in IssueCode
  PROVE  /\ AnnotationOK(RegisterIssue(AtListeners(k), code))
         /\ AnnotationOK(SetStatus(RegisterIssue(AtListeners(k), code), Warning))
<1>1. AnnotationOK(AtListeners(k))
  BY CurrentAnnotation, AddDestinationsOK DEF AtListeners
<1>2. AnnotationOK(RegisterIssue(AtListeners(k), code))
  BY <1>1, RegisterIssueOK
<1> QED
  BY <1>2, SetStatusOK DEF MigrationStatus

-----------------------------------------------------------------------------
(* The handlers of routes.                                                   *)

(* The early returns of the handlers of routes, and those that only mark    *)
(* what another one reads.                                                  *)
LEMMA RouteNoticesStep ==
  ASSUME IInv,
         \/ \E k \in pending : EmptyRedirectURL(k)
         \/ \E k \in pending : InvalidRedirectURL(k)
         \/ \E k \in pending : EmptyRedirectCode(k)
         \/ \E k \in pending : InvalidRedirectCode(k)
         \/ \E k \in pending : InvalidSSLRedirect(k)
         \/ \E k \in pending : DisabledSSLRedirect(k)
         \/ \E k \in pending : RepeatedSSLRedirect(k)
         \/ EmptyUpstreamVhost
         \/ InvalidCanaryWeight
         \/ InvalidCanaryHeader
         \/ \E k \in pending : handleReadElsewhere(k)
  PROVE  StepOK
<1>1. ASSUME NEW k \in pending, EmptyRedirectURL(k)
      PROVE  StepOK
  <2> DEFINE a == SetStatus(Anno(k), Ignored)
  <2>1. Notice(k, a, FALSE)
    BY <1>1 DEF EmptyRedirectURL
  <2>2. Take(k)
    BY <2>1 DEF Notice
  <2>3. AnnotationOK(a)
    BY <2>2, AnnotationForms, IssueCodes DEF MigrationStatus
  <2> HIDE DEF a
  <2> QED
    BY <2>1, <2>3, NoticeStep
<1>2. ASSUME NEW k \in pending, InvalidRedirectURL(k)
      PROVE  StepOK
  <2> DEFINE a == SetStatus(RegisterIssue(Anno(k), "NGINXRedirectURLInvalid"), NotSupported)
  <2>1. Notice(k, a, FALSE)
    BY <1>2 DEF InvalidRedirectURL
  <2>2. Take(k)
    BY <2>1 DEF Notice
  <2>3. AnnotationOK(a)
    BY <2>2, AnnotationForms, IssueCodes DEF MigrationStatus
  <2> HIDE DEF a
  <2> QED
    BY <2>1, <2>3, NoticeStep
<1>3. ASSUME NEW k \in pending, EmptyRedirectCode(k)
      PROVE  StepOK
  <2> DEFINE a == SetStatus(Anno(k), Ignored)
  <2>1. Notice(k, a, FALSE)
    BY <1>3 DEF EmptyRedirectCode
  <2>2. Take(k)
    BY <2>1 DEF Notice
  <2>3. AnnotationOK(a)
    BY <2>2, AnnotationForms, IssueCodes DEF MigrationStatus
  <2> HIDE DEF a
  <2> QED
    BY <2>1, <2>3, NoticeStep
<1>4. ASSUME NEW k \in pending, InvalidRedirectCode(k)
      PROVE  StepOK
  <2> DEFINE a == SetStatus(RegisterIssue(Anno(k), "NGINXRedirectCodeInvalid"), NotSupported)
  <2>1. Notice(k, a, FALSE)
    BY <1>4 DEF InvalidRedirectCode
  <2>2. Take(k)
    BY <2>1 DEF Notice
  <2>3. AnnotationOK(a)
    BY <2>2, AnnotationForms, IssueCodes DEF MigrationStatus
  <2> HIDE DEF a
  <2> QED
    BY <2>1, <2>3, NoticeStep
<1>5. ASSUME NEW k \in pending, InvalidSSLRedirect(k)
      PROVE  StepOK
  <2> DEFINE a == SetStatus(Rejected(k), Error)
  <2>1. Notice(k, a, TRUE)
    BY <1>5 DEF InvalidSSLRedirect
  <2>2. Take(k)
    BY <2>1 DEF Notice
  <2>3. AnnotationOK(a)
    BY <2>2, AnnotationForms, IssueCodes DEF Rejected, MigrationStatus
  <2> HIDE DEF a
  <2> QED
    BY <2>1, <2>3, NoticeStep
<1>6. ASSUME NEW k \in pending, DisabledSSLRedirect(k)
      PROVE  StepOK
  <2> DEFINE a == SetStatus(Anno(k), IF k = "ssl-redirect" THEN Ignored ELSE Completed)
  <2>1. Notice(k, a, FALSE)
    BY <1>6 DEF DisabledSSLRedirect
  <2>2. Take(k)
    BY <2>1 DEF Notice
  <2>3. AnnotationOK(a)
    BY <2>2, AnnotationForms, IssueCodes DEF MigrationStatus
  <2> HIDE DEF a
  <2> QED
    BY <2>1, <2>3, NoticeStep
<1>7. ASSUME NEW k \in pending, RepeatedSSLRedirect(k)
      PROVE  StepOK
  <2> DEFINE a == Succeeded(k)
  <2>1. Notice(k, a, FALSE)
    BY <1>7 DEF RepeatedSSLRedirect
  <2>2. Take(k)
    BY <2>1 DEF Notice
  <2>3. AnnotationOK(a)
    BY <2>2, AnnotationForms
  <2> HIDE DEF a
  <2> QED
    BY <2>1, <2>3, NoticeStep
<1>8. CASE EmptyUpstreamVhost
  <2> DEFINE k == "upstream-vhost"
             a == SetStatus(Anno(k), Ignored)
  <2>1. Notice(k, a, FALSE)
    BY <1>8 DEF EmptyUpstreamVhost
  <2>2. Take(k)
    BY <2>1 DEF Notice
  <2>3. AnnotationOK(a)
    BY <2>2, AnnotationForms, IssueCodes DEF MigrationStatus
  <2> HIDE DEF k, a
  <2> QED
    BY <2>1, <2>3, NoticeStep
<1>9. CASE InvalidCanaryWeight
  <2> DEFINE k == "canary-weight"
             a == Anno(k)
  <2>1. Notice(k, a, TRUE)
    BY <1>9 DEF InvalidCanaryWeight
  <2>2. Take(k)
    BY <2>1 DEF Notice
  <2>3. AnnotationOK(a)
    BY <2>2, AnnotationForms
  <2> HIDE DEF k, a
  <2> QED
    BY <2>1, <2>3, NoticeStep
<1>10. CASE InvalidCanaryHeader
  <2> DEFINE k == "canary-by-header"
             a == Anno(k)
  <2>1. Notice(k, a, TRUE)
    BY <1>10 DEF InvalidCanaryHeader
  <2>2. Take(k)
    BY <2>1 DEF Notice
  <2>3. AnnotationOK(a)
    BY <2>2, AnnotationForms
  <2> HIDE DEF k, a
  <2> QED
    BY <2>1, <2>3, NoticeStep
<1>11. ASSUME NEW k \in pending, handleReadElsewhere(k)
      PROVE  StepOK
  <2> DEFINE a == Succeeded(k)
  <2>1. Notice(k, a, FALSE)
    BY <1>11 DEF handleReadElsewhere
  <2>2. Take(k)
    BY <2>1 DEF Notice
  <2>3. AnnotationOK(a)
    BY <2>2, AnnotationForms
  <2> HIDE DEF a
  <2> QED
    BY <2>1, <2>3, NoticeStep
<1> QED
  BY <1>1, <1>2, <1>3, <1>4, <1>5, <1>6, <1>7, <1>8, <1>9, <1>10, <1>11

(* The handlers that return early in one of several ways.                   *)
LEMMA RouteAlternativesStep ==
  ASSUME IInv, NoWWWRedirect \/ UnusedRegex
  PROVE  StepOK
<1>1. CASE NoWWWRedirect
  <2> DEFINE k == "from-to-www-redirect"
             a == SetStatus(Anno(k), Ignored)
             b == SetStatus(RegisterIssue(Anno(k), "NGINXFromToWWWRedirectNoHost"), NotSupported)
  <2>1. Take(k) /\ (Notice(k, a, FALSE) \/ Notice(k, b, FALSE))
    BY <1>1 DEF NoWWWRedirect
  <2>2. AnnotationOK(a) /\ AnnotationOK(b)
    BY <2>1, AnnotationForms, IssueCodes DEF MigrationStatus
  <2> HIDE DEF k, a, b
  <2> QED
    BY <2>1, <2>2, NoticeStep
<1>2. CASE UnusedRegex
  <2> DEFINE k == "use-regex"
  <2>1. Take(k) /\ (Notice(k, Rejected(k), TRUE) \/ Notice(k, Succeeded(k), FALSE))
    BY <1>2 DEF UnusedRegex
  <2>2. AnnotationOK(Rejected(k)) /\ AnnotationOK(Succeeded(k))
    BY <2>1, AnnotationForms
  <2> HIDE DEF k
  <2> QED
    BY <2>1, <2>2, NoticeStep
<1> QED
  BY <1>1, <1>2

(* The redirects.                                                           *)
LEMMA RedirectRulesStep ==
  ASSUME IInv,
         \/ handlePermanentRedirect
         \/ handleTemporalRedirect
         \/ handlePermanentRedirectCode
         \/ handleTemporalRedirectCode
         \/ handleFromToWWWRedirect
  PROVE  StepOK
<1>1. CASE handlePermanentRedirect
  <2> DEFINE k     == "permanent-redirect"
             rules == [i \in DOMAIN ThisRoute.rules |->
                         Redirected(ThisRoute.rules[i], "301", Value(k))]
             a     == Succeeded(k)
  <2>1. RewriteRules(k, rules, a)
    BY <1>1, Zenon DEF handlePermanentRedirect
  <2>2. Take(k)
    BY <2>1 DEF RewriteRules
  <2>3. AnnotationOK(a)
    BY <2>2, AnnotationForms
  <2> HIDE DEF k, rules, a
  <2> QED
    BY <2>1, <2>3, RewriteRulesStep
<1>2. CASE handleTemporalRedirect
  <2> DEFINE k     == "temporal-redirect"
             rules == [i \in DOMAIN ThisRoute.rules |->
                         Redirected(ThisRoute.rules[i], "302", Value(k))]
             a     == Succeeded(k)
  <2>1. RewriteRules(k, rules, a)
    BY <1>2, Zenon DEF handleTemporalRedirect
  <2>2. Take(k)
    BY <2>1 DEF RewriteRules
  <2>3. AnnotationOK(a)
    BY <2>2, AnnotationForms
  <2> HIDE DEF k, rules, a
  <2> QED
    BY <2>1, <2>3, RewriteRulesStep
<1>3. CASE handlePermanentRedirectCode
  <2> DEFINE k     == "permanent-redirect-code"
             rules == [i \in DOMAIN ThisRoute.rules |->
                         [ThisRoute.rules[i] EXCEPT !.redirect.code = Value(k)]]
             a     == Succeeded(k)
  <2>1. RewriteRules(k, rules, a)
    BY <1>3, Zenon DEF handlePermanentRedirectCode
  <2>2. Take(k)
    BY <2>1 DEF RewriteRules
  <2>3. AnnotationOK(a)
    BY <2>2, AnnotationForms
  <2> HIDE DEF k, rules, a
  <2> QED
    BY <2>1, <2>3, RewriteRulesStep
<1>4. CASE handleTemporalRedirectCode
  <2> DEFINE k     == "temporal-redirect-code"
             rules == [i \in DOMAIN ThisRoute.rules |->
                         [ThisRoute.rules[i] EXCEPT !.redirect.code = Value(k)]]
             a     == Succeeded(k)
  <2>1. RewriteRules(k, rules, a)
    BY <1>4, Zenon DEF handleTemporalRedirectCode
  <2>2. Take(k)
    BY <2>1 DEF RewriteRules
  <2>3. AnnotationOK(a)
    BY <2>2, AnnotationForms
  <2> HIDE DEF k, rules, a
  <2> QED
    BY <2>1, <2>3, RewriteRulesStep
<1>5. CASE handleFromToWWWRedirect
  <2> DEFINE k     == "from-to-www-redirect"
             rules == [i \in DOMAIN ThisRoute.rules |->
                         [ThisRoute.rules[i] EXCEPT
                            !.redirect.code = "301", !.redirect.host = WWWName(FirstHost)]]
             a     == SetStatus(RegisterIssue(Anno(k), "NGINXFromToWWWRedirectPartial"), Warning)
  <2>1. RewriteRules(k, rules, a)
    BY <1>5, Zenon DEF handleFromToWWWRedirect
  <2>2. Take(k)
    BY <2>1 DEF RewriteRules
  <2>3. AnnotationOK(a)
    BY <2>2, AnnotationForms, IssueCodes DEF MigrationStatus
  <2> HIDE DEF k, rules, a
  <2> QED
    BY <2>1, <2>3, RewriteRulesStep
<1> QED
  BY <1>1, <1>2, <1>3, <1>4, <1>5

(* Rewrites, headers and canaries.                                          *)
LEMMA RuleChangesStep ==
  ASSUME IInv,
         \/ handleRewriteTarget
         \/ handleUseRegex
         \/ handleAppRoot
         \/ handleUpstreamVhost
         \/ handleXForwardedPrefix
         \/ handleConnectionProxyHeader
         \/ handleCanaryWeight
         \/ handleCanaryByHeader
  PROVE  StepOK
<1>1. CASE handleRewriteTarget
  <2> DEFINE k     == "rewrite-target"
             rules == [i \in DOMAIN ThisRoute.rules |->
                         Rewritten(ThisRoute.rules[i], Value(k))]
             a     == IF Value(k).groups THEN SetStatus(RegisterIssue(Anno(k), "NGINXRewriteTargetCaptureGroups"), Warning)
                      ELSE Succeeded(k)
  <2>1. RewriteRules(k, rules, a)
    BY <1>1, Zenon DEF handleRewriteTarget
  <2>2. Take(k)
    BY <2>1 DEF RewriteRules
  <2>3. AnnotationOK(a)
    BY <2>2, AnnotationForms, IssueCodes DEF MigrationStatus
  <2> HIDE DEF k, rules, a
  <2> QED
    BY <2>1, <2>3, RewriteRulesStep
<1>2. CASE handleUseRegex
  <2> DEFINE k     == "use-regex"
             rules == [i \in DOMAIN ThisRoute.rules |->
                         [ThisRoute.rules[i] EXCEPT !.match = "RegularExpression"]]
             a     == SetStatus(RegisterIssue(Anno(k), "NGINXUseRegexLimitedSupport"), Warning)
  <2>1. RewriteRules(k, rules, a)
    BY <1>2, Zenon DEF handleUseRegex
  <2>2. Take(k)
    BY <2>1 DEF RewriteRules
  <2>3. AnnotationOK(a)
    BY <2>2, AnnotationForms, IssueCodes DEF MigrationStatus
  <2> HIDE DEF k, rules, a
  <2> QED
    BY <2>1, <2>3, RewriteRulesStep
<1>3. CASE handleAppRoot
  <2> DEFINE k     == "app-root"
             rules == <<RootRedirectRule(Value(k))>> \o ThisRoute.rules
             a     == Succeeded(k)
  <2>1. RewriteRules(k, rules, a)
    BY <1>3, Zenon DEF handleAppRoot
  <2>2. Take(k)
    BY <2>1 DEF RewriteRules
  <2>3. AnnotationOK(a)
    BY <2>2, AnnotationForms
  <2> HIDE DEF k, rules, a
  <2> QED
    BY <2>1, <2>3, RewriteRulesStep
<1>4. CASE handleUpstreamVhost
  <2> DEFINE k     == "upstream-vhost"
             rules == [i \in DOMAIN ThisRoute.rules |->
                         [ThisRoute.rules[i] EXCEPT !.rewrite.host = Value(k)]]
             a     == Succeeded(k)
  <2>1. RewriteRules(k, rules, a)
    BY <1>4, Zenon DEF handleUpstreamVhost
  <2>2. Take(k)
    BY <2>1 DEF RewriteRules
  <2>3. AnnotationOK(a)
    BY <2>2, AnnotationForms
  <2> HIDE DEF k, rules, a
  <2> QED
    BY <2>1, <2>3, RewriteRulesStep
<1>5. CASE handleXForwardedPrefix
  <2> DEFINE k     == "x-forwarded-prefix"
             rules == [i \in DOMAIN ThisRoute.rules |->
                         [ThisRoute.rules[i] EXCEPT !.headers = Append(@,
                            [action |-> "set", name |-> "X-Forwarded-Prefix", value |-> Value(k)])]]
             a     == Succeeded(k)
  <2>1. RewriteRules(k, rules, a)
    BY <1>5, Zenon DEF handleXForwardedPrefix
  <2>2. Take(k)
    BY <2>1 DEF RewriteRules
  <2>3. AnnotationOK(a)
    BY <2>2, AnnotationForms
  <2> HIDE DEF k, rules, a
  <2> QED
    BY <2>1, <2>3, RewriteRulesStep
<1>6. CASE handleConnectionProxyHeader
  <2> DEFINE k     == "connection-proxy-header"
             rules == [i \in DOMAIN ThisRoute.rules |->
                         [ThisRoute.rules[i] EXCEPT !.headers = Append(@,
                            [action |-> "set", name |-> "Connection", value |-> Value(k)])]]
             a     == Succeeded(k)
  <2>1. RewriteRules(k, rules, a)
    BY <1>6, Zenon DEF handleConnectionProxyHeader
  <2>2. Take(k)
    BY <2>1 DEF RewriteRules
  <2>3. AnnotationOK(a)
    BY <2>2, AnnotationForms
  <2> HIDE DEF k, rules, a
  <2> QED
    BY <2>1, <2>3, RewriteRulesStep
<1>7. CASE handleCanaryWeight
  <2> DEFINE k     == "canary-weight"
             rules == [i \in DOMAIN ThisRoute.rules |->
                         IF ThisRoute.rules[i].svc = NoService THEN ThisRoute.rules[i]
                         ELSE [ThisRoute.rules[i] EXCEPT !.weight = Value(k)]]
             a     == SetStatus(RegisterIssue(Anno(k), "NGINXCanaryWeightRequiresManualMerge"), Warning)
  <2>1. RewriteRules(k, rules, a)
    BY <1>7, Zenon DEF handleCanaryWeight
  <2>2. Take(k)
    BY <2>1 DEF RewriteRules
  <2>3. AnnotationOK(a)
    BY <2>2, AnnotationForms, IssueCodes DEF MigrationStatus
  <2> HIDE DEF k, rules, a
  <2> QED
    BY <2>1, <2>3, RewriteRulesStep
<1>8. CASE handleCanaryByHeader
  <2> DEFINE k     == "canary-by-header"
             rules == [i \in DOMAIN ThisRoute.rules |->
                         [ThisRoute.rules[i] EXCEPT !.headerMatches = Append(@, CanaryMatch)]]
             a     == IF CanaryPattern = Unset /\ CanaryValue = Unset
                        THEN SetStatus(RegisterIssue(Anno(k), "NGINXCanaryHeaderApproximated"), Completed)
                        ELSE Succeeded(k)
  <2>1. RewriteRules(k, rules, a)
    BY <1>8, Zenon DEF handleCanaryByHeader
  <2>2. Take(k)
    BY <2>1 DEF RewriteRules
  <2>3. AnnotationOK(a)
    BY <2>2, AnnotationForms, IssueCodes DEF MigrationStatus
  <2> HIDE DEF k, rules, a
  <2> QED
    BY <2>1, <2>3, RewriteRulesStep
<1> QED
  BY <1>1, <1>2, <1>3, <1>4, <1>5, <1>6, <1>7, <1>8

(* The aliases, which leave the rules and change the hostnames.             *)
LEMMA ServerAliasStep ==
  ASSUME IInv, handleServerAlias
  PROVE  StepOK
<1> DEFINE k == "server-alias"
           a == Succeeded(k)
<1>1. /\ Take(k) /\ Finish(k, a, FALSE)
      /\ routes' = [routes EXCEPT ![ThisRouteId].hostnames = @ \o Value(k)]
      /\ UNCHANGED <<graphRoutes, http, https, grants, redirect>>
  BY Zenon DEF handleServerAlias
<1>2. AnnotationOK(a)
  BY <1>1, AnnotationForms
<1> HIDE DEF k, a
<1>3. phase = "annotations" /\ input' = input
  BY <1>1 DEF Take, Finish, progressVars
<1>4. ThisRouteId \in DOMAIN routes /\ DOMAIN routes[ThisRouteId] = HTTPRouteFields
  BY <1>3 DEF IInv, TypeOK, ProgressOK, GraphOK
<1>5. /\ DOMAIN routes' = DOMAIN routes
      /\ \A id \in DOMAIN routes : /\ DOMAIN routes'[id] = HTTPRouteFields
                                   /\ routes'[id].parents = routes[id].parents
  BY <1>1, <1>4 DEF IInv, TypeOK, GraphOK, HTTPRouteFields
<1>6. GatewayNamespace' = GatewayNamespace
  BY <1>3, SameNamespace
<1>7. GraphOK'
  BY <1>1, <1>3, <1>5, <1>6 DEF IInv, TypeOK, GraphOK, HTTPRouteFields, Ingresses, RedirectId
<1>8. ParentsResolve'
  BY <1>1, <1>5 DEF IInv, ParentsResolve, ListenerNames, SectionsOf
<1>9. ForeignSecretsGranted'
  BY <1>1, <1>6 DEF IInv, ForeignSecretsGranted
<1>10. Grow
  BY <1>1, <1>3, <1>5 DEF Grow, SectionsOf
<1> QED
  BY <1>1, <1>2, <1>7, <1>8, <1>9, <1>10, HandlerStep DEF GraphInv

(* The redirect route, for the first of the two annotations that asks.      *)
LEMMA SSLRedirectStep ==
  ASSUME IInv, NEW k, handleSSLRedirect(k)
  PROVE  StepOK
<1> DEFINE a == AddDestination(Anno(k), Resource("HTTPRoute", RedirectNN))
<1>1. /\ Take(k) /\ Finish(k, a, FALSE)
      /\ ~redirect /\ redirect' = TRUE /\ http' = TRUE
      /\ routes' = InsertAt(routes, RedirectId, RedirectRoute)
      /\ graphRoutes' = InsertAt(graphRoutes, RedirectNN, RedirectId)
      /\ UNCHANGED <<https, grants>>
  BY DEF handleSSLRedirect
<1>2. AnnotationOK(a)
  BY <1>1, CurrentAnnotation, AddDestinationOK
<1> HIDE DEF a
<1> QED
  BY <1>1, <1>2, RedirectStep

-----------------------------------------------------------------------------
(* The handlers of policies.                                                 *)

(* The notices name issues of the library and statuses.                     *)
LEMMA NoticesOK ==
  ASSUME NEW n \in Notices
  PROVE  n.issue \in IssueCode /\ n.then \in MigrationStatus
<1>1. n.issue \in {"NGINXAuthTLSNotFullySupported", "NGINXAffinityCanaryBehaviorNotSupported",
                   "NGINXAffinityModeNotSupported", "NGINXConfigurationSnippetNotSupported",
                   "NGINXServerSnippetNotSupported", "NGINXDefaultBackendNotSupported",
                   "NGINXModSecurityConversion", "NGINXModSecurityTransactionID",
                   "NGINXProxySettingsPartialSupport", "NGINXSSLPolicyConversion",
                   "NGINXCanaryByCookieNotSupported"}
      /\ n.then \in {Warning, NotSupported}
  BY DEF Notices, AuthTLSNotices, AffinityNotices, SnippetNotices, DefaultBackendNotices,
         WAFNotices, TimeoutNotices, BufferNotices, CipherNotices, CookieNotices
<1> QED
  BY <1>1, IssueCodes DEF MigrationStatus

(* The handlers of policies that only report, and early returns.            *)
LEMMA PolicyNoticesStep ==
  ASSUME IInv,
         \/ \E n \in Notices : handleNotice(n)
         \/ handleLoadBalance
         \/ \E k \in pending : NoListeners(k)
         \/ \E k \in pending : InvalidPolicySetting(k)
         \/ OtherAffinity
  PROVE  StepOK
<1>1. ASSUME NEW n \in Notices, handleNotice(n)
      PROVE  StepOK
  <2> DEFINE k == n.key
             a == SetStatus(RegisterIssue(Anno(k), n.issue), n.then)
  <2>1. Notice(k, a, FALSE)
    BY <1>1 DEF handleNotice
  <2>2. Take(k)
    BY <2>1 DEF Notice
  <2>3. AnnotationOK(a)
    BY <2>2, NoticesOK, AnnotationForms
  <2> HIDE DEF k, a
  <2> QED
    BY <2>1, <2>3, NoticeStep
<1>2. CASE handleLoadBalance
  <2> DEFINE k == "load-balance"
             a == IF Value(k) = "round_robin" THEN SetStatus(Anno(k), Ignored)
                  ELSE SetStatus(RegisterIssue(Anno(k), "NGINXLoadBalanceNotSupported"), NotSupported)
  <2>1. Notice(k, a, FALSE)
    BY <1>2 DEF handleLoadBalance
  <2>2. Take(k)
    BY <2>1 DEF Notice
  <2>3. AnnotationOK(a)
    BY <2>2, AnnotationForms, IssueCodes DEF MigrationStatus
  <2> HIDE DEF k, a
  <2> QED
    BY <2>1, <2>3, NoticeStep
<1>3. ASSUME NEW k \in pending, NoListeners(k)
      PROVE  StepOK
  <2> DEFINE a == RegisterIssue(Anno(k), "NoHTTPSListenersForSSLProfile")
  <2>1. Notice(k, a, FALSE)
    BY <1>3 DEF NoListeners
  <2>2. Take(k)
    BY <2>1 DEF Notice
  <2>3. AnnotationOK(a)
    BY <2>2, AnnotationForms, IssueCodes
  <2> HIDE DEF a
  <2> QED
    BY <2>1, <2>3, NoticeStep
<1>4. ASSUME NEW k \in pending, InvalidPolicySetting(k)
      PROVE  StepOK
  <2> DEFINE a == Rejected(k)
  <2>1. Notice(k, a, TRUE)
    BY <1>4 DEF InvalidPolicySetting
  <2>2. Take(k)
    BY <2>1 DEF Notice
  <2>3. AnnotationOK(a)
    BY <2>2, AnnotationForms
  <2> HIDE DEF a
  <2> QED
    BY <2>1, <2>3, NoticeStep
<1>5. CASE OtherAffinity
  <2> DEFINE k == "affinity"
             a == RegisterIssue(Anno(k), "NGINXAffinityTypeNotSupported")
  <2>1. Notice(k, a, FALSE)
    BY <1>5 DEF OtherAffinity
  <2>2. Take(k)
    BY <2>1 DEF Notice
  <2>3. AnnotationOK(a)
    BY <2>2, AnnotationForms, IssueCodes
  <2> HIDE DEF k, a
  <2> QED
    BY <2>1, <2>3, NoticeStep
<1> QED
  BY <1>1, <1>2, <1>3, <1>4, <1>5

(* The handlers that return early in one of several ways.                   *)
LEMMA PolicyAlternativesStep ==
  ASSUME IInv, NoClientVerification \/ (\E k \in pending : NoWAFWanted(k)) \/ OtherProtocol
  PROVE  StepOK
<1>1. CASE NoClientVerification
  <2> DEFINE k == "auth-tls-verify-client"
             a == SetStatus(RegisterIssue(Anno(k), "NGINXAuthTLSNotFullySupported"), NotSupported)
  <2>1. Take(k) /\ (\/ Notice(k, Succeeded(k), FALSE)
                    \/ Notice(k, a, FALSE)
                    \/ Notice(k, Rejected(k), TRUE))
    BY <1>1 DEF NoClientVerification
  <2>2. AnnotationOK(Succeeded(k)) /\ AnnotationOK(Rejected(k)) /\ AnnotationOK(a)
    BY <2>1, AnnotationForms, IssueCodes DEF MigrationStatus
  <2> HIDE DEF k, a
  <2> QED
    BY <2>1, <2>2, NoticeStep
<1>2. ASSUME NEW k \in pending, NoWAFWanted(k)
      PROVE  StepOK
  <2>1. Take(k) /\ (Notice(k, Rejected(k), TRUE) \/ Notice(k, Succeeded(k), FALSE))
    BY <1>2 DEF NoWAFWanted
  <2>2. AnnotationOK(Rejected(k)) /\ AnnotationOK(Succeeded(k))
    BY <2>1, AnnotationForms
  <2> QED
    BY <2>1, <2>2, NoticeStep
<1>3. CASE OtherProtocol
  <2> DEFINE k == "backend-protocol"
             a == SetStatus(RegisterIssue(Anno(k), "GRPCNotSupportedByTool"), Completed)
             b == RegisterIssue(SetStatus(Anno(k), Error), "UnsupportBackendProtocol")
  <2>1. Take(k) /\ (\/ Notice(k, Succeeded(k), FALSE)
                    \/ Notice(k, a, FALSE)
                    \/ Notice(k, b, TRUE))
    BY <1>3 DEF OtherProtocol
  <2>2. AnnotationOK(Succeeded(k)) /\ AnnotationOK(a)
    BY <2>1, AnnotationForms, IssueCodes DEF MigrationStatus
  <2>3. AnnotationOK(SetStatus(Anno(k), Error))
    BY <2>1, AnnotationForms DEF MigrationStatus
  <2>4. AnnotationOK(b)
    BY <2>3, RegisterIssueOK, IssueCodes
  <2> HIDE DEF k, a, b
  <2> QED
    BY <2>1, <2>2, <2>4, NoticeStep
<1> QED
  BY <1>1, <1>2, <1>3

(* The handlers of route policies.                                          *)
LEMMA RoutePolicyHandlersStep ==
  ASSUME IInv,
         \/ handleAffinity
         \/ \E k \in pending : handleSessionCookieExpires(k)
         \/ handleProxyReadTimeout
  PROVE  StepOK
<1>1. CASE handleAffinity
  <2> DEFINE k      == "affinity"
             policy == [RoutePolicy(ThisRoute.nn) EXCEPT !.affinity = TRUE, !.duration = Unset]
  <2>1. SetRoutePolicy(k, policy)
    BY <1>1 DEF handleAffinity
  <2> HIDE DEF k, policy
  <2> QED
    BY <2>1, SetRoutePolicyStep
<1>2. ASSUME NEW k \in pending, handleSessionCookieExpires(k)
      PROVE  StepOK
  <2> DEFINE policy == [RoutePolicy(ThisRoute.nn) EXCEPT !.affinity = TRUE, !.duration = Value(k)]
  <2>1. SetRoutePolicy(k, policy)
    BY <1>2 DEF handleSessionCookieExpires
  <2> HIDE DEF policy
  <2> QED
    BY <2>1, SetRoutePolicyStep
<1>3. CASE handleProxyReadTimeout
  <2> DEFINE k      == "proxy-read-timeout"
             policy == [RoutePolicy(ThisRoute.nn) EXCEPT !.timeout = Value(k)]
  <2>1. SetRoutePolicy(k, policy)
    BY <1>3 DEF handleProxyReadTimeout
  <2> HIDE DEF k, policy
  <2> QED
    BY <2>1, SetRoutePolicyStep
<1> QED
  BY <1>1, <1>2, <1>3

(* The handlers of the TLS policies of listeners.                           *)
LEMMA ListenerHandlersStep ==
  ASSUME IInv,
         \/ handleAuthTLSSecret
         \/ handleAuthTLSVerifyClient
         \/ handleSSLCiphers
  PROVE  StepOK
<1>1. CASE handleAuthTLSSecret
  <2> DEFINE k        == "auth-tls-secret"
             settings == [s \in DOMAIN frontendTLS \union Listeners |->
                            IF s \in Listeners
                              THEN [FrontendTLS(s) EXCEPT !.verify = TRUE, !.ca = CASecret(cur, Value(k))]
                              ELSE FrontendTLS(s)]
             a        == RegisterIssue(AtListeners(k), "NGINXAuthTLSNotFullySupported")
  <2>1. SetFrontendTLS(k, settings, a)
    BY <1>1, Zenon DEF handleAuthTLSSecret
  <2>2. Take(k)
    BY <2>1 DEF SetFrontendTLS
  <2>3. AnnotationOK(a)
    BY <2>2, AtListenersOK, IssueCodes
  <2> HIDE DEF k, settings, a
  <2> QED
    BY <2>1, <2>3, SetFrontendTLSStep
<1>2. CASE handleAuthTLSVerifyClient
  <2> DEFINE k        == "auth-tls-verify-client"
             settings == [s \in DOMAIN frontendTLS \union Listeners |->
                            IF s \in Listeners THEN [FrontendTLS(s) EXCEPT !.verify = TRUE]
                            ELSE FrontendTLS(s)]
             a        == RegisterIssue(AtListeners(k), "NGINXAuthTLSNotFullySupported")
  <2>1. SetFrontendTLS(k, settings, a)
    BY <1>2, Zenon DEF handleAuthTLSVerifyClient
  <2>2. Take(k)
    BY <2>1 DEF SetFrontendTLS
  <2>3. AnnotationOK(a)
    BY <2>2, AtListenersOK, IssueCodes
  <2> HIDE DEF k, settings, a
  <2> QED
    BY <2>1, <2>3, SetFrontendTLSStep
<1>3. CASE handleSSLCiphers
  <2> DEFINE k        == "ssl-ciphers"
             settings == [s \in DOMAIN frontendTLS \union Listeners |->
                            IF s \in Listeners /\ FrontendTLS(s).type = "none"
                              THEN [FrontendTLS(s) EXCEPT !.type = "2023-06"] ELSE FrontendTLS(s)]
             a        == SetStatus(RegisterIssue(AtListeners(k), "NGINXSSLPolicyConversion"), Warning)
  <2>1. SetFrontendTLS(k, settings, a)
    BY <1>3, Zenon DEF handleSSLCiphers
  <2>2. Take(k)
    BY <2>1 DEF SetFrontendTLS
  <2>3. AnnotationOK(a)
    BY <2>2, AtListenersOK, IssueCodes
  <2> HIDE DEF k, settings, a
  <2> QED
    BY <2>1, <2>3, SetFrontendTLSStep
<1> QED
  BY <1>1, <1>2, <1>3

(* The WAF policy of a route and the TLS policies of services.              *)
LEMMA OtherPoliciesStep ==
  ASSUME IInv, (\E k \in pending : handleWAF(k)) \/ handleBackendProtocol
  PROVE  StepOK
<1>1. ASSUME NEW k \in pending, handleWAF(k)
      PROVE  StepOK
  <2> DEFINE b == RegisterIssue(Anno(k), "NGINXModSecurityConversion")
             c == AddDestination(b, Resource("WAFPolicy", ThisRoute.nn))
             a == SetStatus(c, Warning)
  <2>1. Take(k) /\ Finish(k, a, FALSE) /\ UNCHANGED graphVars
    BY <1>1 DEF handleWAF
  <2>2. AnnotationOK(b)
    BY <2>1, AnnotationForms, IssueCodes
  <2> HIDE DEF b
  <2>3. AnnotationOK(c)
    BY <2>2, AddDestinationOK
  <2> HIDE DEF c
  <2>4. AnnotationOK(a)
    BY <2>3, SetStatusOK DEF MigrationStatus
  <2> HIDE DEF a
  <2> QED
    BY <2>1, <2>4, QuietHandlerStep
<1>2. CASE handleBackendProtocol
  <2> DEFINE k    == "backend-protocol"
             svcs == Services(ThisRoute)
             b    == IF Value(k) = "grpcs" THEN RegisterIssue(Anno(k), "GRPCNotSupportedByTool")
                     ELSE Anno(k)
             c    == SetStatus(b, Error)
             d    == AddDestinations(b, {Resource("BackendTLSPolicy", s) : s \in svcs})
             a    == IF svcs = {} THEN RegisterIssue(c, "CreatingBackendTLSPolicy")
                     ELSE SetStatus(d, Completed)
             err  == svcs = {}
  <2>1. Take(k) /\ Finish(k, a, err) /\ UNCHANGED graphVars
    BY <1>2, Zenon DEF handleBackendProtocol
  <2>2. AnnotationOK(b)
    BY <2>1, AnnotationForms, IssueCodes
  <2> HIDE DEF b
  <2>3. AnnotationOK(c) /\ AnnotationOK(d)
    BY <2>2, SetStatusOK, AddDestinationsOK DEF MigrationStatus
  <2> HIDE DEF c, d
  <2>4. AnnotationOK(a)
    BY <2>3, SetStatusOK, RegisterIssueOK, IssueCodes DEF MigrationStatus
  <2>5. err \in BOOLEAN
    OBVIOUS
  <2> HIDE DEF k, a, err
  <2> QED
    BY <2>1, <2>4, <2>5, QuietHandlerStep
<1> QED
  BY <1>1, <1>2

-----------------------------------------------------------------------------
(* The induction.                                                            *)

(* Every step of a conversion keeps the invariant and only adds to the      *)
(* Gateway.                                                                 *)
LEMMA NextStep ==
  ASSUME IInv, [Next]_vars
  PROVE  StepOK
<1>1. CASE EngineNext
  BY <1>1, EngineNextStep
<1>2. CASE Unsupported
  BY <1>2, EngineHandlersStep DEF Unsupported
<1>3. CASE RouteHandler
  BY <1>3, RouteNoticesStep, RouteAlternativesStep, RedirectRulesStep, RuleChangesStep,
     ServerAliasStep, SSLRedirectStep DEF RouteHandler
<1>4. CASE PolicyHandler
  BY <1>4, PolicyNoticesStep, PolicyAlternativesStep, RoutePolicyHandlersStep,
     ListenerHandlersStep, OtherPoliciesStep DEF PolicyHandler
<1>5. CASE UNCHANGED vars
  BY <1>5, StutterStep DEF vars
<1> QED
  BY <1>1, <1>2, <1>3, <1>4, <1>5 DEF Next, EngineStep, Handler, Returned

(* The inductive invariant: the shape of the state together with the three  *)
(* safety invariants, of which none is inductive alone, since the redirect  *)
(* route must be new, the current route must exist and listeners must never *)
(* go.                                                                      *)
THEOREM Invariance == Spec => []IInv
<1>1. Init => IInv
  BY InitInv
<1>2. IInv /\ [Next]_vars => IInv'
  BY NextStep DEF StepOK
<1> QED
  BY <1>1, <1>2, PTL DEF Spec

(* The state of Convert keeps its shape: the current route exists while     *)
(* handlers run, and the graph stores allocated routes only.                *)
THEOREM TypeCorrectness == Spec => []TypeOK
<1>1. IInv => TypeOK
  BY DEF IInv
<1> QED
  BY <1>1, Invariance, PTL

(* In whatever order handlers touch an annotation, its status stays as      *)
(* severe as every error and warning registered on it.                      *)
THEOREM SeveritySafety == Spec => []SeverityReflectsIssues
<1>1. IInv => SeverityReflectsIssues
  BY DEF IInv
<1> QED
  BY <1>1, Invariance, PTL

(* Every parent reference of every HTTPRoute names a listener the Gateway   *)
(* has, at every moment of the conversion.                                  *)
THEOREM ParentsSafety == Spec => []ParentsResolve
<1>1. IInv => ParentsResolve
  BY DEF IInv
<1> QED
  BY <1>1, Invariance, PTL

(* No listener ever names a secret of another namespace before the          *)
(* ReferenceGrant for it is there.                                          *)
THEOREM CertificateSafety == Spec => []ForeignSecretsGranted
<1>1. IInv => ForeignSecretsGranted
  BY DEF IInv
<1> QED
  BY <1>1, Invariance, PTL

(* The conversion implements the contract of the Gateway: it only adds      *)
(* listeners, certificates, grants and references, each reference resolves, *)
(* and nothing changes once the Gateway is built.                           *)
THEOREM Refinement == Spec => KeepsGatewayContract
<1>1. Init => Contract!Init
  BY ContractInit
<1>2. IInv /\ [Next]_vars => [Contract!Extend \/ Contract!Seal]_(Contract!gatewayVars)
  BY NextStep, ContractStep
<1> QED
  BY <1>1, <1>2, Invariance, PTL DEF Spec, KeepsGatewayContract, Contract!Spec
=============================================================================
