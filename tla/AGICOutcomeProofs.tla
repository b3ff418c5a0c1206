--------------------------- MODULE AGICOutcomeProofs ---------------------------
(***************************************************************************)
(* Proofs that the report of an AGIC conversion and the statuses of its    *)
(* Ingresses are true, one step for every handler, on top of the lemmas of *)
(* OutcomeProofs; and that the Gateway, the redirect, the rules of routes  *)
(* with their rewrites, the policies of routes and services and the TLS    *)
(* profiles are in the end those the Ingresses declare, on top of          *)
(* ProgressProofs: each from an invariant that says the same of the        *)
(* annotations handled so far.                                             *)
(***************************************************************************)
EXTENDS AGICProofs, ProgressProofs

(* The handlers that do nothing but report.                                 *)
LEMMA ReportingBooks ==
  ASSUME IInv, BookInv,
         \/ RepeatedSSLRedirect
         \/ NoHTTPSListeners
         \/ RewriteNotFound
         \/ \E k \in pending : InvalidRouteSetting(k)
         \/ DisabledAffinity
         \/ \E k \in pending : InvalidHealthProbe(k)
         \/ PlainBackendProtocol
         \/ UnknownBackendProtocol
         \/ handleAppGWTrustedRootCertificates
  PROVE  BookInv'
<1> USE DEF LastApplied
<1>1. CASE RepeatedSSLRedirect
  <2> DEFINE k == "ssl-redirect"
  <2>1. Take(k) /\ Finish(k, Anno(k), FALSE) /\ UNCHANGED <<graphVars, policyVars>>
    BY <1>1 DEF RepeatedSSLRedirect
  <2>2. Outcome(Anno(k), Anno(k), {}, {}) /\ {} \intersect RejectingIssues = {}
    BY <2>1, CurrentAccounted DEF Outcome
  <2> QED
    BY <2>1, <2>2, ReportingHandlerBooks
<1>2. CASE NoHTTPSListeners
  <2> DEFINE k == "appgw-ssl-profile"
             code == "NoHTTPSListenersForSSLProfile"
             a == RegisterIssue(Anno(k), code)
  <2>1. Take(k) /\ Finish(k, a, FALSE) /\ UNCHANGED <<graphVars, policyVars>>
    BY <1>2 DEF NoHTTPSListeners
  <2>2. Outcome(Anno(k), a, {code}, {})
    BY <2>1, CurrentAccounted, RegisterIssueOutcome, IssueCodes
  <2>3. {code} \intersect RejectingIssues = {}
    BY DEF RejectingIssues
  <2> HIDE DEF a
  <2> QED
    BY <2>1, <2>2, <2>3, ReportingHandlerBooks
<1>3. CASE RewriteNotFound
  <2> DEFINE k == RewriteKey
             a == RegisterIssue(Anno(k), "CouldNotFindRewrite")
  <2>1. Take(k) /\ Finish(k, a, TRUE) /\ UNCHANGED <<graphVars, policyVars>>
    BY <1>3 DEF RewriteNotFound
  <2>2. Outcome(Anno(k), a, {"CouldNotFindRewrite"}, {}) /\ k # LastApplied
    BY <2>1, CurrentAccounted, RegisterIssueOutcome, IssueCodes DEF RewriteKey
  <2> HIDE DEF a, k
  <2> QED
    BY <2>1, <2>2, ReportingHandlerBooks
<1>4. ASSUME NEW k \in pending, InvalidRouteSetting(k)
      PROVE  BookInv'
  <2> DEFINE a == RegisterIssue(Anno(k), "InvalidAnnotationValue")
  <2>1. /\ Take(k) /\ Finish(k, a, TRUE) /\ UNCHANGED <<graphVars, policyVars>>
        /\ k # LastApplied
    BY <1>4 DEF InvalidRouteSetting
  <2>2. Outcome(Anno(k), a, {"InvalidAnnotationValue"}, {})
    BY <2>1, CurrentAccounted, RegisterIssueOutcome, IssueCodes
  <2> HIDE DEF a
  <2> QED
    BY <2>1, <2>2, ReportingHandlerBooks
<1>5. CASE DisabledAffinity \/ PlainBackendProtocol
  <2> PICK k \in {"cookie-based-affinity", "backend-protocol"} :
        /\ Take(k) /\ Finish(k, SetStatus(Anno(k), Completed), FALSE)
        /\ UNCHANGED <<graphVars, policyVars>>
    BY <1>5 DEF DisabledAffinity, PlainBackendProtocol
  <2>1. /\ Outcome(Anno(k), SetStatus(Anno(k), Completed), {}, {})
        /\ {} \intersect RejectingIssues = {} /\ k # LastApplied
    BY CurrentAccounted, SetStatusOutcome DEF Reportable
  <2> QED
    BY <2>1, ReportingHandlerBooks
<1>6. ASSUME NEW k \in pending, InvalidHealthProbe(k)
      PROVE  BookInv'
  <2> DEFINE a == IF k = "health-probe-status-codes" THEN SetStatus(Anno(k), Error)
                  ELSE RegisterIssue(Anno(k), "InvalidAnnotationValue")
  <2>1. /\ Take(k) /\ Finish(k, a, TRUE) /\ UNCHANGED <<graphVars, policyVars>>
        /\ k # LastApplied
    BY <1>6 DEF InvalidHealthProbe, ParsedHealthKeys, HealthKeys
  <2>2. PICK issues : Outcome(Anno(k), a, issues, {})
    BY <2>1, CurrentAccounted, SetStatusOutcome, RegisterIssueOutcome, IssueCodes DEF Reportable
  <2> HIDE DEF a
  <2> QED
    BY <2>1, <2>2, ReportingHandlerBooks
<1>7. CASE UnknownBackendProtocol
  <2> DEFINE k == "backend-protocol"
             b == SetStatus(Anno(k), Error)
             a == RegisterIssue(b, "UnsupportBackendProtocol")
  <2>1. Take(k) /\ Finish(k, a, TRUE) /\ UNCHANGED <<graphVars, policyVars>>
    BY <1>7 DEF UnknownBackendProtocol
  <2>2. Outcome(Anno(k), b, {}, {})
    BY <2>1, CurrentAccounted, SetStatusOutcome DEF Reportable
  <2>3. Outcome(b, a, {"UnsupportBackendProtocol"}, {})
    BY <2>2, RegisterIssueOutcome, IssueCodes DEF Outcome
  <2>4. PICK issues : Outcome(Anno(k), a, issues, {})
    BY <2>2, <2>3, OutcomesAddUp
  <2> HIDE DEF a, b
  <2> QED
    BY <2>1, <2>4, ReportingHandlerBooks
<1>8. CASE handleAppGWTrustedRootCertificates
  <2> DEFINE k == "appgw-trusted-root-certificate"
             code == "TrustedRootCertificates"
             a == RegisterIssue(Anno(k), code)
  <2>1. Take(k) /\ Finish(k, a, FALSE) /\ UNCHANGED <<graphVars, policyVars>>
    BY <1>8 DEF handleAppGWTrustedRootCertificates
  <2>2. Outcome(Anno(k), a, {code}, {})
    BY <2>1, CurrentAccounted, RegisterIssueOutcome, IssueCodes
  <2>3. {code} \intersect RejectingIssues = {}
    BY DEF RejectingIssues
  <2> HIDE DEF a
  <2> QED
    BY <2>1, <2>2, <2>3, ReportingHandlerBooks
<1> QED
  BY <1>1, <1>2, <1>3, <1>4, <1>5, <1>6, <1>7, <1>8

(* The handlers that change the current route: all they leave behind on     *)
(* their annotation is a status, or the warnings of a rule set.             *)
LEMMA RouteChangeBooks ==
  ASSUME IInv, BookInv,
         \/ handleHostNameExtension
         \/ handleBackendHostnameRewrite
         \/ handleBackendPathPrefix
         \/ handleRewriteRuleSetCustomResource
  PROVE  BookInv'
<1> USE DEF LastApplied
<1>1. CASE handleHostNameExtension
  <2> DEFINE k == "hostname-extension"
             a == SetStatus(Anno(k), Completed)
             added == AddedParents(ExtensionBinding(cur, Value(k)), Value(k))
  <2>1. /\ Take(k) /\ Finish(k, a, FALSE) /\ UNCHANGED <<graphRoutes, policyVars>>
        /\ routes' = [routes EXCEPT
             ![ThisRouteId].hostnames = @ \o Value(k),
             ![ThisRouteId].parents   = @ (+) added]
    BY <1>1 DEF handleHostNameExtension
  <2>2. Outcome(Anno(k), a, {}, {}) /\ StoredResources' = StoredResources \union {}
    BY <2>1, CurrentAccounted, SetStatusOutcome, NothingStored DEF Reportable
  <2>3. {} \intersect RejectingIssues = {} /\ k # LastApplied
    OBVIOUS
  <2> HIDE DEF k, a, added
  <2>4. /\ ThisRouteId \in DOMAIN routes
        /\ \A id \in DOMAIN routes : DOMAIN routes[id] = HTTPRouteFields
    BY <2>1 DEF Take, IInv, TypeOK, ProgressOK, GraphOK
  <2>5. NamesKept
    BY <2>1, <2>4 DEF NamesKept, HTTPRouteFields
  <2> QED
    BY <2>1, <2>2, <2>3, <2>5, HandlerBooks
<1>2. CASE handleBackendHostnameRewrite \/ handleBackendPathPrefix
  <2>1. PICK k \in {"backend-hostname", "backend-path-prefix"} :
          /\ Take(k) /\ Finish(k, SetStatus(Anno(k), Completed), FALSE)
          /\ UNCHANGED <<graphRoutes, policyVars>>
          /\ \E rules : ModifyRules(rules)
    BY <1>2 DEF handleBackendHostnameRewrite, handleBackendPathPrefix
  <2>2. NamesKept
    BY <2>1, RulesChanged DEF Take
  <2>3. /\ Outcome(Anno(k), SetStatus(Anno(k), Completed), {}, {})
        /\ StoredResources' = StoredResources \union {}
        /\ {} \intersect RejectingIssues = {} /\ k # LastApplied
    BY <2>1, CurrentAccounted, SetStatusOutcome, NothingStored DEF Reportable
  <2> QED
    BY <2>1, <2>2, <2>3, HandlerBooks
<1>3. CASE handleRewriteRuleSetCustomResource
  <2> DEFINE k         == RewriteKey
             ruleSet   == input.rewrites[RuleSetNN]
             known(h)  == h.action \in {"set", "delete"}
             headers   == SelectSeq(ruleSet.headers, known)
             unknown   == \E i \in DOMAIN ruleSet.headers : ~known(ruleSet.headers[i])
             full      == ruleSet.fullPath
             issued(b, cond, code) == IF cond THEN RegisterIssue(b, code) ELSE b
             a1 == issued(Anno(k), ruleSet.conditions, "RewriteConditions")
             a2 == issued(a1, ruleSet.sequences, "RewriteRuleSequence")
             a3 == issued(a2, ruleSet.reroute, "RewriteReroute")
             a4 == IF headers # <<>> \/ full # "none" THEN SetStatus(a3, Completed) ELSE a3
             a5 == IF ~unknown /\ a4.status = NotStarted THEN SetStatus(a4, Completed) ELSE a4
             R  == {"RewriteConditions", "RewriteRuleSequence", "RewriteReroute"}
  <2>1. /\ Take(k) /\ Finish(k, a5, unknown) /\ UNCHANGED <<graphRoutes, policyVars>>
        /\ \E rules : ModifyRules(rules)
    BY <1>3 DEF handleRewriteRuleSetCustomResource
  <2>2. unknown \in BOOLEAN
    OBVIOUS
  <2> HIDE DEF ruleSet, headers, unknown, full
  <2>3. Accounted(Anno(k))
    BY <2>1, CurrentAccounted
  <2>4. PICK i1 \in SUBSET R : Outcome(Anno(k), a1, i1, {})
    <3>1. Accounted(Anno(k))
      BY <2>3 DEF Outcome
    <3>2. CASE ruleSet.conditions
      BY <3>1, <3>2, RegisterIssueOutcome, IssueCodes
    <3>3. CASE ~ruleSet.conditions
      <4>1. Outcome(Anno(k), a1, {}, {})
        BY <3>1, <3>3 DEF Outcome
      <4> QED
        BY <4>1
    <3> QED
      BY <3>2, <3>3
  <2> HIDE DEF a1
  <2>5. PICK i2 \in SUBSET R : Outcome(a1, a2, i2, {})
    <3>1. Accounted(a1)
      BY <2>4 DEF Outcome
    <3>2. CASE ruleSet.sequences
      BY <3>1, <3>2, RegisterIssueOutcome, IssueCodes
    <3>3. CASE ~ruleSet.sequences
      <4>1. Outcome(a1, a2, {}, {})
        BY <3>1, <3>3 DEF Outcome
      <4> QED
        BY <4>1
    <3> QED
      BY <3>2, <3>3
  <2> HIDE DEF a2
  <2>6. PICK i3 \in SUBSET R : Outcome(a2, a3, i3, {})
    <3>1. Accounted(a2)
      BY <2>5 DEF Outcome
    <3>2. CASE ruleSet.reroute
      BY <3>1, <3>2, RegisterIssueOutcome, IssueCodes
    <3>3. CASE ~ruleSet.reroute
      <4>1. Outcome(a2, a3, {}, {})
        BY <3>1, <3>3 DEF Outcome
      <4> QED
        BY <4>1
    <3> QED
      BY <3>2, <3>3
  <2> HIDE DEF a3
  <2>7. Outcome(a3, a4, {}, {})
    BY <2>6, SetStatusOutcome DEF Outcome, Reportable
  <2> HIDE DEF a4
  <2>8. Outcome(a4, a5, {}, {})
    BY <2>7, SetStatusOutcome DEF Outcome, Reportable
  <2>9. Outcome(Anno(k), a5, i1 \union i2 \union i3, {})
    BY <2>4, <2>5, <2>6, <2>7, <2>8 DEF Outcome
  <2>10. (i1 \union i2 \union i3) \intersect RejectingIssues = {}
    BY DEF RejectingIssues
  <2>11. NamesKept
    BY <2>1, RulesChanged DEF Take
  <2>12. StoredResources' = StoredResources \union {} /\ k # LastApplied
    BY <2>1, NothingStored DEF RewriteKey
  <2> HIDE DEF a5, k, R
  <2> QED
    BY <2>1, <2>2, <2>9, <2>10, <2>11, <2>12, HandlerBooks
<1> QED
  BY <1>1, <1>2, <1>3

(* The redirect route is stored and named as the destination at once.       *)
LEMMA RedirectBooks ==
  ASSUME IInv, BookInv, handleSSLRedirect
  PROVE  BookInv'
<1> DEFINE k == "ssl-redirect"
           d == Resource("HTTPRoute", RedirectNN)
           a == AddDestination(Anno(k), d)
<1>1. /\ Take(k) /\ Finish(k, a, FALSE) /\ ~redirect /\ UNCHANGED policyVars
      /\ routes' = InsertAt(routes, RedirectId, RedirectRoute)
      /\ graphRoutes' = InsertAt(graphRoutes, RedirectNN, RedirectId)
  BY DEF handleSSLRedirect
<1>2. NamesKept
  BY <1>1, RedirectIsNew DEF NamesKept, InsertAt
<1>3. DOMAIN graphRoutes' = DOMAIN graphRoutes \union {RedirectNN}
  BY <1>1 DEF InsertAt
<1>4. StoredResources' = StoredResources \union {d}
  <2>1. StoredResources' = StoredResources \union Kind("HTTPRoute", {RedirectNN})
    BY <1>1, <1>3, RoutesStored
  <2> QED
    BY <2>1 DEF Kind
<1>5. Outcome(Anno(k), a, {}, {d}) /\ {} \intersect RejectingIssues = {} /\ k # LastApplied
  BY <1>1, CurrentAccounted, AddDestinationOutcome DEF LastApplied
<1> HIDE DEF a, d, k
<1> QED
  BY <1>1, <1>2, <1>4, <1>5, HandlerBooks

(* The policies of a route.                                                  *)
LEMMA RoutePolicyBooks ==
  ASSUME IInv, BookInv,
         handleRequestTimeout \/ handleCookieBasedAffinity \/ handleWAFPolicyForPath
  PROVE  BookInv'
<1> USE DEF LastApplied
<1>1. CASE handleRequestTimeout \/ handleCookieBasedAffinity
  <2> DEFINE d == Resource("RoutePolicy", ThisRoute.nn)
  <2>1. PICK k \in {"request-timeout", "cookie-based-affinity"} :
          /\ Take(k) /\ Finish(k, AddDestination(Anno(k), d), FALSE)
          /\ \E policy : routePolicies' = InsertAt(routePolicies, ThisRoute.nn, policy)
          /\ UNCHANGED <<graphVars, routeWAF, healthPolicies, backendTLS, frontendTLS>>
    BY <1>1 DEF handleRequestTimeout, handleCookieBasedAffinity
  <2>2. DOMAIN routePolicies' = DOMAIN routePolicies \union {ThisRoute.nn}
    BY <2>1 DEF InsertAt
  <2>3. StoredResources' = StoredResources \union Kind("RoutePolicy", {ThisRoute.nn})
    BY <2>1, <2>2, RoutePoliciesStored DEF graphVars
  <2>4. StoredResources' = StoredResources \union {d} /\ NamesKept
    BY <2>1, <2>3 DEF Kind, NamesKept, graphVars
  <2>5. /\ Outcome(Anno(k), AddDestination(Anno(k), d), {}, {d})
        /\ {} \intersect RejectingIssues = {} /\ k # LastApplied
    BY <2>1, CurrentAccounted, AddDestinationOutcome
  <2> HIDE DEF d
  <2> QED
    BY <2>1, <2>4, <2>5, HandlerBooks
<1>2. CASE handleWAFPolicyForPath
  <2> DEFINE k == "waf-policy-for-path"
             d == Resource("WAFPolicy", ThisRoute.nn)
             code == "WAFPotentialIncompatibility"
             b == RegisterIssue(Anno(k), code)
             a == AddDestination(b, d)
  <2>1. /\ Take(k) /\ Finish(k, a, FALSE)
        /\ routeWAF' = InsertAt(routeWAF, ThisRoute.nn, Value(k))
        /\ UNCHANGED <<graphVars, routePolicies, healthPolicies, backendTLS, frontendTLS>>
    BY <1>2 DEF handleWAFPolicyForPath
  <2>2. DOMAIN routeWAF' = DOMAIN routeWAF \union {ThisRoute.nn}
    BY <2>1 DEF InsertAt
  <2>3. StoredResources' = StoredResources \union Kind("WAFPolicy", {ThisRoute.nn})
    BY <2>1, <2>2, WAFPoliciesStored DEF graphVars
  <2>4. StoredResources' = StoredResources \union {d} /\ NamesKept
    BY <2>1, <2>3 DEF Kind, NamesKept, graphVars
  <2>5. Outcome(Anno(k), b, {code}, {})
    BY <2>1, CurrentAccounted, RegisterIssueOutcome, IssueCodes
  <2>6. Outcome(b, a, {}, {d})
    BY <2>5, AddDestinationOutcome DEF Outcome
  <2>7. Outcome(Anno(k), a, {code}, {d}) /\ {code} \intersect RejectingIssues = {}
    BY <2>5, <2>6 DEF Outcome, RejectingIssues
  <2> HIDE DEF a, b, d
  <2> QED
    BY <2>1, <2>4, <2>7, HandlerBooks
<1> QED
  BY <1>1, <1>2

(* What the handler of a health probe setting reports: the services whose   *)
(* policy takes the setting, and a conflict if some service does not.       *)
ProbeReported(k, a, issues) ==
  LET svcs == Services(ThisRoute)
      open == OpenServices(k)
  IN  /\ Take(k) /\ Finish(k, a, svcs = {} \/ open # svcs)
      /\ Outcome(Anno(k), a, issues, {Resource("HealthCheckPolicy", s) : s \in open})
      /\ issues = IF open = svcs THEN {} ELSE {"HealthCheckConflict"}

LEMMA ProbeOutcome ==
  ASSUME IInv, BookInv, NEW k, handleHealthProbe(k)
  PROVE  \E a, issues : ProbeReported(k, a, issues)
<1> DEFINE svcs == Services(ThisRoute)
           open == OpenServices(k)
           dests == {Resource("HealthCheckPolicy", s) : s \in open}
           b    == AddDestinations(Anno(k), dests)
           a    == IF open = svcs THEN b ELSE RegisterIssue(b, "HealthCheckConflict")
           issues == IF open = svcs THEN {} ELSE {"HealthCheckConflict"}
<1>1. Take(k) /\ Finish(k, a, svcs = {} \/ open # svcs)
  BY DEF handleHealthProbe
<1>2. Outcome(Anno(k), b, {}, dests)
  BY <1>1, CurrentAccounted, AddDestinationsOutcome
<1> HIDE DEF b, dests
<1>3. Outcome(b, a, issues, {})
  <2>1. CASE open = svcs
    BY <1>2, <2>1 DEF Outcome
  <2>2. CASE open # svcs
    BY <1>2, <2>2, RegisterIssueOutcome, IssueCodes DEF Outcome
  <2> QED
    BY <2>1, <2>2
<1>4. Outcome(Anno(k), a, issues, dests)
  BY <1>2, <1>3 DEF Outcome
<1> HIDE DEF a
<1> QED
  BY <1>1, <1>4 DEF ProbeReported, dests

(* A health probe handler names only the services it could set: the others  *)
(* have a policy already, for only a policy can disagree.                   *)
LEMMA HealthProbeBooks ==
  ASSUME IInv, BookInv, NEW k \in pending, handleHealthProbe(k)
  PROVE  BookInv'
<1> DEFINE svcs == Services(ThisRoute)
           open == OpenServices(k)
           dests == {Resource("HealthCheckPolicy", s) : s \in open}
           err  == svcs = {} \/ open # svcs
<1>1. PICK a, issues : ProbeReported(k, a, issues)
  BY ProbeOutcome
<1>2. /\ Take(k) /\ Finish(k, a, err) /\ Outcome(Anno(k), a, issues, dests)
      /\ open = svcs => issues = {}
  BY <1>1 DEF ProbeReported
<1>3. /\ k \in HealthKeys /\ DOMAIN healthPolicies' = DOMAIN healthPolicies \union svcs
      /\ UNCHANGED <<graphVars, routePolicies, routeWAF, backendTLS, frontendTLS>>
  BY DEF handleHealthProbe
<1>4. DOMAIN healthPolicies' = DOMAIN healthPolicies \union open
  BY <1>3 DEF OpenServices, HealthPolicy, NewHealthPolicy
<1>5. StoredResources' = StoredResources \union Kind("HealthCheckPolicy", open)
  BY <1>3, <1>4, HealthPoliciesStored DEF graphVars
<1>6. StoredResources' = StoredResources \union dests /\ NamesKept
  BY <1>3, <1>5 DEF Kind, NamesKept, graphVars
<1>7. err \in BOOLEAN /\ (err \/ issues \intersect RejectingIssues = {}) /\ k # LastApplied
  BY <1>2, <1>3 DEF HealthKeys, LastApplied
<1> HIDE DEF err, dests
<1> QED
  BY <1>2, <1>6, <1>7, HandlerBooks

(* Backend TLS covers every service of the route, or there is none.         *)
LEMMA BackendProtocolBooks ==
  ASSUME IInv, BookInv, handleBackendProtocol
  PROVE  BookInv'
<1> DEFINE k    == "backend-protocol"
           svcs == Services(ThisRoute)
           dests == {Resource("BackendTLSPolicy", s) : s \in svcs}
           b    == SetStatus(Anno(k), Error)
           a    == IF svcs = {} THEN RegisterIssue(b, "CreatingBackendTLSPolicy")
                   ELSE AddDestinations(Anno(k), dests)
           err  == svcs = {}
<1>1. /\ Take(k) /\ Finish(k, a, err)
      /\ DOMAIN backendTLS' = DOMAIN backendTLS \union svcs
      /\ UNCHANGED <<graphVars, routePolicies, routeWAF, healthPolicies, frontendTLS>>
  BY DEF handleBackendProtocol
<1>2. StoredResources' = StoredResources \union Kind("BackendTLSPolicy", svcs)
  BY <1>1, BackendTLSStored DEF graphVars
<1>3. StoredResources' = StoredResources \union dests /\ NamesKept
  BY <1>1, <1>2 DEF Kind, NamesKept, graphVars
<1>4. Accounted(Anno(k))
  BY <1>1, CurrentAccounted
<1>5. Outcome(Anno(k), b, {}, {})
  BY <1>4, SetStatusOutcome DEF Reportable
<1>6. PICK issues : Outcome(Anno(k), a, issues, dests) /\ (svcs # {} => issues = {})
  <2>1. CASE svcs = {}
    <3>1. Outcome(b, a, {"CreatingBackendTLSPolicy"}, {})
      BY <1>5, <2>1, RegisterIssueOutcome, IssueCodes DEF Outcome
    <3>2. Outcome(Anno(k), a, {"CreatingBackendTLSPolicy"}, {}) /\ dests = {}
      BY <1>5, <2>1, <3>1 DEF Outcome
    <3> QED
      BY <2>1, <3>2
  <2>2. CASE svcs # {}
    BY <1>4, <2>2, AddDestinationsOutcome
  <2> QED
    BY <2>1, <2>2
<1>7. err \in BOOLEAN /\ (err \/ issues \intersect RejectingIssues = {}) /\ k # LastApplied
  BY <1>6 DEF LastApplied
<1> HIDE DEF a, b, err, dests, k
<1> QED
  BY <1>1, <1>3, <1>6, <1>7, HandlerBooks

(* What the handler of a TLS profile does: it takes listeners that have     *)
(* none, all of them unless it finds another profile, and then it says so.  *)
ProfileGiven(set, a, issues) ==
  LET k         == "appgw-ssl-profile"
      policy    == SSLPolicy(Value(k))
      listeners == ParentHTTPSListeners(ThisRoute)
      fresh     == listeners \ DOMAIN frontendTLS
      conflict  == ProfileConflict(listeners, policy)
      dests     == {Resource("FrontendTLSPolicy", s) : s \in set}
  IN  /\ Take(k) /\ Finish(k, a, conflict)
      /\ set \subseteq fresh /\ (conflict \/ set = fresh)
      /\ frontendTLS' = [s \in DOMAIN frontendTLS \union set |->
           IF s \in set THEN policy ELSE frontendTLS[s]]
      /\ UNCHANGED <<graphVars, routePolicies, routeWAF, healthPolicies, backendTLS>>
      /\ Outcome(Anno(k), a, issues, dests)
      /\ IF conflict THEN "FrontendTLSPolicyProfileConflict" \in issues
         ELSE issues \intersect RejectingIssues = {}

(* The TLS profile handler names the listeners it got to before a conflict. *)
LEMMA ProfileOutcome ==
  ASSUME IInv, BookInv, handleAppGWSSLProfile
  PROVE  \E set, a, issues : ProfileGiven(set, a, issues)
<1> DEFINE k        == "appgw-ssl-profile"
           policy    == SSLPolicy(Value(k))
           listeners == ParentHTTPSListeners(ThisRoute)
           fresh     == listeners \ DOMAIN frontendTLS
           conflict == ProfileConflict(listeners, policy)
           new(set) == {Resource("FrontendTLSPolicy", s) : s \in set}
           b        == RegisterIssue(Anno(k), "FrontendTLSPolicyCipherWarning")
           c(set)   == IF set = {} THEN Anno(k) ELSE [b EXCEPT !.dests = @ \union new(set)]
           a(set)   == IF conflict THEN RegisterIssue(c(set), "FrontendTLSPolicyProfileConflict")
                       ELSE c(set)
           given(set) == [s \in DOMAIN frontendTLS \union set |->
                            IF s \in set THEN policy ELSE frontendTLS[s]]
<1>1. PICK set : /\ Take(k) /\ Finish(k, a(set), conflict)
                 /\ set \subseteq fresh /\ (conflict \/ set = fresh)
                 /\ frontendTLS' = given(set)
                 /\ UNCHANGED <<graphVars, routePolicies, routeWAF, healthPolicies, backendTLS>>
  BY DEF handleAppGWSSLProfile
<1>2. Accounted(Anno(k))
  BY <1>1, CurrentAccounted
<1>3. Outcome(Anno(k), b, {"FrontendTLSPolicyCipherWarning"}, {})
  BY <1>2, RegisterIssueOutcome, IssueCodes
<1>4. b.status \in Reportable
  BY <1>3 DEF Outcome, Accounted
<1> HIDE DEF b, given
<1>5. PICK i1 : Outcome(Anno(k), c(set), i1, new(set)) /\ i1 \intersect RejectingIssues = {}
  <2>1. CASE set = {}
    <3>1. c(set) = Anno(k) /\ new(set) = {}
      BY <2>1
    <3> HIDE DEF c, new
    <3>2. Outcome(Anno(k), c(set), {}, new(set))
      BY <1>2, <3>1 DEF Outcome
    <3> QED
      BY <3>2
  <2>2. CASE set # {}
    <3> DEFINE e == [b EXCEPT !.dests = @ \union new(set)]
    <3>1. /\ DOMAIN e = {"status", "issues", "dests"} /\ e.status = b.status
          /\ e.issues = b.issues /\ e.dests = b.dests \union new(set)
      BY <1>3 DEF Outcome, Accounted, AnnotationOK
    <3>2. c(set) = e
      BY <2>2
    <3> HIDE DEF c, e, new
    <3>3. Accounted(e)
      BY <1>3, <1>4, <3>1 DEF Outcome, Accounted, AnnotationOK
    <3>4. Outcome(Anno(k), c(set), {"FrontendTLSPolicyCipherWarning"}, new(set))
      BY <1>3, <3>1, <3>2, <3>3 DEF Outcome
    <3>5. {"FrontendTLSPolicyCipherWarning"} \intersect RejectingIssues = {}
      BY DEF RejectingIssues
    <3> QED
      BY <3>4, <3>5
  <2> QED
    BY <2>1, <2>2
<1> HIDE DEF c, new
<1>6. PICK i2 : /\ Outcome(c(set), a(set), i2, {}) /\ (~conflict => i2 = {})
                /\ conflict => "FrontendTLSPolicyProfileConflict" \in i2
  <2>1. CASE conflict
    BY <1>5, <2>1, RegisterIssueOutcome, IssueCodes DEF Outcome
  <2>2. CASE ~conflict
    BY <1>5, <2>2 DEF Outcome
  <2> QED
    BY <2>1, <2>2
<1>7. Outcome(Anno(k), a(set), i1 \union i2, new(set))
  BY <1>5, <1>6 DEF Outcome
<1> HIDE DEF a
<1>8. ProfileGiven(set, a(set), i1 \union i2)
  BY <1>1, <1>5, <1>6, <1>7 DEF ProfileGiven, given, new
<1> QED
  BY <1>8

LEMMA SSLProfileBooks ==
  ASSUME IInv, BookInv, handleAppGWSSLProfile
  PROVE  BookInv'
<1> DEFINE k        == "appgw-ssl-profile"
           conflict == ProfileConflict(ParentHTTPSListeners(ThisRoute), SSLPolicy(Value(k)))
           new(set) == {Resource("FrontendTLSPolicy", s) : s \in set}
<1>1. PICK set, a, issues : ProfileGiven(set, a, issues)
  BY ProfileOutcome
<1>2. /\ Take(k) /\ Finish(k, a, conflict)
      /\ DOMAIN frontendTLS' = DOMAIN frontendTLS \union set
      /\ UNCHANGED <<graphVars, routePolicies, routeWAF, healthPolicies, backendTLS>>
      /\ Outcome(Anno(k), a, issues, new(set))
      /\ conflict \/ issues \intersect RejectingIssues = {}
  BY <1>1 DEF ProfileGiven
<1>3. StoredResources' = StoredResources \union Kind("FrontendTLSPolicy", set)
  BY <1>2, FrontendTLSStored DEF graphVars
<1>4. StoredResources' = StoredResources \union new(set) /\ NamesKept
  BY <1>2, <1>3 DEF Kind, NamesKept, graphVars
<1>5. conflict \in BOOLEAN /\ k # LastApplied
  BY DEF ProfileConflict, LastApplied
<1> HIDE DEF conflict, k, new
<1> QED
  BY <1>2, <1>4, <1>5, HandlerBooks

-----------------------------------------------------------------------------
(* The induction.                                                            *)

(* Every step of a conversion keeps the books.                              *)
LEMMA NextBooks ==
  ASSUME IInv, BookInv, [Next]_vars
  PROVE  BookInv'
<1>1. CASE EngineStep
  BY <1>1, EngineBooks
<1>2. CASE Unsupported
  BY <1>2, EngineHandlersBooks DEF Unsupported
<1>3. CASE Handler
  BY <1>3, ReportingBooks, RouteChangeBooks, RedirectBooks, RoutePolicyBooks,
     HealthProbeBooks, BackendProtocolBooks, SSLProfileBooks DEF Handler
<1>4. CASE UNCHANGED vars
  BY <1>4, StutterBooks
<1> QED
  BY <1>1, <1>2, <1>3, <1>4 DEF Next, Returned

(* The books and the graph agree at every moment.                           *)
THEOREM Bookkeeping == Spec => []BookInv
<1>1. Init => BookInv
  BY InitBooks
<1>2. IInv /\ BookInv /\ [Next]_vars => BookInv'
  BY NextBooks
<1> QED
  BY <1>1, <1>2, Invariance, PTL DEF Spec

(* Whatever the report names as the destination of an annotation is in the  *)
(* graph, from the moment it is recorded.                                   *)
THEOREM DestinationSafety == Spec => []DestinationsExist
<1>1. BookInv => DestinationsExist
  BY BooksDestinations
<1> QED
  BY <1>1, Bookkeeping, PTL

(* An Ingress with a setting that was rejected, on whichever of its rules   *)
(* and whatever its other handlers did, is not Completed.                   *)
THEOREM RejectionSafety == Spec => []RejectionFailsTheIngress
<1>1. BookInv => RejectionFailsTheIngress
  BY DEF BookInv
<1> QED
  BY <1>1, Bookkeeping, PTL

(* Nothing of the graph is missing from the report of every Ingress, and no *)
(* annotation with an outcome is missing from it or in it twice.            *)
THEOREM ReportSafety == Spec => []ReportAccountsForGraph
<1>1. IInv /\ BookInv => ReportAccountsForGraph
  BY BooksReport
<1> QED
  BY <1>1, Bookkeeping, Invariance, PTL

-----------------------------------------------------------------------------
(* What the input calls for.                                                 *)

RouteSettingKeys == {"request-timeout", "cookie-based-affinity"}
RuleKeys         == {"backend-hostname", "backend-path-prefix", RewriteKey}

(* Handlers that are not over the rules leave those of the Ingresses alone. *)
RulesSame == \A id \in OwnRoutes : routes'[id].rules = routes[id].rules

(* A handler run for annotation k, by what it can touch.                    *)
Effect(k) ==
  /\ \E a, err : Take(k) /\ Finish(k, a, err)
  /\ RoutesKept
  /\ IF k \in RouteSettingKeys
       THEN \/ InvalidRouteSetting(k)
            \/ k = "request-timeout" /\ handleRequestTimeout
            \/ k = "cookie-based-affinity" /\ (DisabledAffinity \/ handleCookieBasedAffinity)
       ELSE UNCHANGED routePolicies
  /\ IF k = "ssl-redirect" THEN handleSSLRedirect \/ RepeatedSSLRedirect
       ELSE UNCHANGED <<graphRoutes, http, redirect>>
  /\ IF k = "hostname-extension" THEN handleHostNameExtension
       ELSE UNCHANGED <<https, grants>>
  /\ IF k = "appgw-ssl-profile" THEN NoHTTPSListeners \/ handleAppGWSSLProfile
       ELSE UNCHANGED frontendTLS
  /\ IF k \in RuleKeys
       THEN \/ k = "backend-hostname" /\ handleBackendHostnameRewrite
            \/ k = "backend-path-prefix" /\ handleBackendPathPrefix
            \/ k = RewriteKey /\ (RewriteNotFound \/ handleRewriteRuleSetCustomResource)
       ELSE RulesSame
  /\ IF k \in HealthKeys THEN InvalidHealthProbe(k) \/ handleHealthProbe(k)
       ELSE UNCHANGED healthPolicies
  /\ IF k = "backend-protocol"
       THEN PlainBackendProtocol \/ UnknownBackendProtocol \/ handleBackendProtocol
       ELSE UNCHANGED backendTLS

LEMMA SameRules ==
  ASSUME UNCHANGED routes
  PROVE  RulesSame
BY DEF RulesSame

(* Every handler is one of its annotation.                                  *)
LEMMA HandlerEffect ==
  ASSUME IInv, Handler
  PROVE  \E k : Effect(k)
<1> USE DEF RouteSettingKeys, RuleKeys, RewriteKey, HealthKeys
<1>1. CASE handleHostNameExtension
  <2> DEFINE k == "hostname-extension"
             added == AddedParents(ExtensionBinding(cur, Value(k)), Value(k))
  <2>1. /\ Take(k) /\ \E a, err : Finish(k, a, err)
        /\ UNCHANGED <<graphRoutes, http, redirect, policyVars>>
        /\ routes' = [routes EXCEPT
             ![ThisRouteId].hostnames = @ \o Value(k),
             ![ThisRouteId].parents   = @ (+) added]
    BY <1>1 DEF handleHostNameExtension
  <2> HIDE DEF added
  <2>2. /\ ThisRouteId \in DOMAIN routes
        /\ \A id \in DOMAIN routes : DOMAIN routes[id] = HTTPRouteFields
    BY <2>1 DEF Take, IInv, TypeOK, ProgressOK, GraphOK
  <2>3. RoutesKept /\ RulesSame
    BY <2>1, <2>2 DEF RoutesKept, NamesKept, RulesSame, OwnRoutes, HTTPRouteFields
  <2>4. Effect(k)
    BY <1>1, <2>1, <2>3 DEF Effect, policyVars
  <2> QED
    BY <2>4
<1>2. CASE handleSSLRedirect
  <2> DEFINE k == "ssl-redirect"
  <2>1. /\ Take(k) /\ \E a, err : Finish(k, a, err)
        /\ ~redirect /\ routes' = InsertAt(routes, RedirectId, RedirectRoute)
        /\ UNCHANGED <<https, grants, policyVars>>
    BY <1>2 DEF handleSSLRedirect
  <2>2. RoutesKept /\ RulesSame
    BY <2>1, RedirectIsNew, RedirectIsNobodys DEF RoutesKept, NamesKept, RulesSame, OwnRoutes, InsertAt
  <2>3. Effect(k)
    BY <1>2, <2>1, <2>2 DEF Effect, policyVars
  <2> QED
    BY <2>3
<1>3. CASE RepeatedSSLRedirect
  <2>1. Effect("ssl-redirect")
    BY <1>3, SameRoutesKept, SameRules DEF RepeatedSSLRedirect, Effect, policyVars, graphVars
  <2> QED
    BY <2>1
<1>4. CASE NoHTTPSListeners
  <2>1. Effect("appgw-ssl-profile")
    BY <1>4, SameRoutesKept, SameRules DEF NoHTTPSListeners, Effect, policyVars, graphVars
  <2> QED
    BY <2>1
<1>5. CASE handleAppGWSSLProfile
  <2> DEFINE k == "appgw-ssl-profile"
  <2>1. /\ Take(k) /\ \E a, err : Finish(k, a, err)
        /\ UNCHANGED <<graphVars, routePolicies, routeWAF, healthPolicies, backendTLS>>
    BY <1>5, Zenon DEF handleAppGWSSLProfile
  <2>2. Effect(k)
    BY <1>5, <2>1, SameRoutesKept, SameRules DEF Effect, graphVars
  <2> QED
    BY <2>2
<1>6. CASE handleBackendHostnameRewrite \/ handleBackendPathPrefix
           \/ handleRewriteRuleSetCustomResource
  <2>1. PICK k \in {"backend-hostname", "backend-path-prefix", RewriteKey} :
          /\ Take(k) /\ \E a, err : Finish(k, a, err)
          /\ \E rules : ModifyRules(rules)
          /\ UNCHANGED <<graphRoutes, http, https, grants, redirect, policyVars>>
          /\ \/ k = "backend-hostname" /\ handleBackendHostnameRewrite
             \/ k = "backend-path-prefix" /\ handleBackendPathPrefix
             \/ k = RewriteKey /\ (RewriteNotFound \/ handleRewriteRuleSetCustomResource)
    <3>1. handleBackendHostnameRewrite =>
            /\ Take("backend-hostname") /\ \E a, err : Finish("backend-hostname", a, err)
            /\ \E rules : ModifyRules(rules)
            /\ UNCHANGED <<graphRoutes, http, https, grants, redirect, policyVars>>
      BY Zenon DEF handleBackendHostnameRewrite
    <3>2. handleBackendPathPrefix =>
            /\ Take("backend-path-prefix") /\ \E a, err : Finish("backend-path-prefix", a, err)
            /\ \E rules : ModifyRules(rules)
            /\ UNCHANGED <<graphRoutes, http, https, grants, redirect, policyVars>>
      BY Zenon DEF handleBackendPathPrefix
    <3>3. handleRewriteRuleSetCustomResource =>
            /\ Take(RewriteKey) /\ \E a, err : Finish(RewriteKey, a, err)
            /\ \E rules : ModifyRules(rules)
            /\ UNCHANGED <<graphRoutes, http, https, grants, redirect, policyVars>>
      BY Zenon DEF handleRewriteRuleSetCustomResource
    <3> QED
      BY <1>6, <3>1, <3>2, <3>3, Zenon
  <2>2. RoutesKept
    BY <2>1, RulesKept DEF Take
  <2>3. k \in RuleKeys /\ k \notin RouteSettingKeys /\ k \notin HealthKeys
        /\ k \notin {"ssl-redirect", "hostname-extension", "appgw-ssl-profile", "backend-protocol"}
    BY <2>1
  <2>4. Effect(k)
    BY <2>1, <2>2, <2>3 DEF Effect, policyVars
  <2> QED
    BY <2>4
<1>7. CASE RewriteNotFound
  <2>1. Effect(RewriteKey)
    BY <1>7, SameRoutesKept, SameRules DEF RewriteNotFound, Effect, policyVars, graphVars
  <2> QED
    BY <2>1
<1>8. ASSUME NEW k \in pending, InvalidRouteSetting(k)
      PROVE  Effect(k)
  BY <1>8, SameRoutesKept, SameRules DEF InvalidRouteSetting, Effect, policyVars, graphVars
<1>9. CASE handleRequestTimeout
  <2>1. Effect("request-timeout")
    BY <1>9, SameRoutesKept, SameRules DEF handleRequestTimeout, Effect, graphVars
  <2> QED
    BY <2>1
<1>10. CASE DisabledAffinity
  <2>1. Effect("cookie-based-affinity")
    BY <1>10, SameRoutesKept, SameRules DEF DisabledAffinity, Effect, policyVars, graphVars
  <2> QED
    BY <2>1
<1>11. CASE handleCookieBasedAffinity
  <2>1. Effect("cookie-based-affinity")
    BY <1>11, SameRoutesKept, SameRules DEF handleCookieBasedAffinity, Effect, graphVars
  <2> QED
    BY <2>1
<1>12. CASE handleWAFPolicyForPath
  <2>1. Effect("waf-policy-for-path")
    BY <1>12, SameRoutesKept, SameRules DEF handleWAFPolicyForPath, Effect, graphVars
  <2> QED
    BY <2>1
<1>13. ASSUME NEW k \in pending, InvalidHealthProbe(k) \/ handleHealthProbe(k)
       PROVE  Effect(k)
  <2>1. /\ Take(k) /\ (\E a, err : Finish(k, a, err)) /\ k \in HealthKeys
        /\ UNCHANGED <<graphVars, routePolicies, frontendTLS, backendTLS>>
    BY <1>13 DEF InvalidHealthProbe, handleHealthProbe, ParsedHealthKeys, policyVars
  <2>2. /\ k \notin RouteSettingKeys /\ k \notin RuleKeys
        /\ k \notin {"ssl-redirect", "hostname-extension", "appgw-ssl-profile", "backend-protocol"}
    BY <2>1
  <2> QED
    BY <1>13, <2>1, <2>2, SameRoutesKept, SameRules DEF Effect, graphVars
<1>14. CASE PlainBackendProtocol \/ UnknownBackendProtocol \/ handleBackendProtocol
  <2> DEFINE k == "backend-protocol"
  <2>1. /\ Take(k) /\ \E a, err : Finish(k, a, err)
        /\ UNCHANGED <<graphVars, routePolicies, frontendTLS, healthPolicies>>
    BY <1>14 DEF PlainBackendProtocol, UnknownBackendProtocol, handleBackendProtocol, policyVars
  <2>2. Effect(k)
    BY <1>14, <2>1, SameRoutesKept, SameRules DEF Effect, graphVars
  <2> QED
    BY <2>2
<1>15. CASE handleAppGWTrustedRootCertificates
  <2>1. Effect("appgw-trusted-root-certificate")
    BY <1>15, SameRoutesKept, SameRules DEF handleAppGWTrustedRootCertificates, Effect, policyVars, graphVars
  <2> QED
    BY <2>1
<1> QED
  BY <1>1, <1>2, <1>3, <1>4, <1>5, <1>6, <1>7, <1>8, <1>9, <1>10, <1>11, <1>12, <1>13, <1>14,
     <1>15 DEF Handler

(* Every step handles one annotation or is one of the engine.               *)
LEMMA NextEffect ==
  ASSUME IInv, [Next]_vars
  PROVE  \/ \E k : Effect(k)
         \/ EngineStep /\ ~handleIgnoredAnnotation
         \/ UNCHANGED vars
<1> USE DEF RouteSettingKeys, RuleKeys, RewriteKey, HealthKeys
<1>1. CASE EngineStep /\ handleIgnoredAnnotation
  <2>1. Effect(LastApplied)
    BY <1>1, SameRoutesKept, SameRules DEF EngineStep, handleIgnoredAnnotation, Effect, LastApplied,
       policyVars, graphVars
  <2> QED
    BY <2>1
<1>2. CASE Unsupported
  <2>1. PICK k \in pending : /\ k \notin AnnotationHandlers /\ UnsupportedAnnotation(k)
                             /\ UNCHANGED policyVars
    BY <1>2 DEF Unsupported
  <2>2. /\ k \notin RouteSettingKeys /\ k \notin RuleKeys /\ k \notin HealthKeys
        /\ k \notin {"ssl-redirect", "hostname-extension", "appgw-ssl-profile", "backend-protocol"}
    BY <2>1 DEF AnnotationHandlers
  <2>3. Take(k) /\ (\E a, err : Finish(k, a, err)) /\ UNCHANGED <<graphVars, policyVars>>
    BY <2>1 DEF UnsupportedAnnotation
  <2>4. Effect(k)
    BY <2>2, <2>3, SameRoutesKept, SameRules DEF Effect, policyVars, graphVars
  <2> QED
    BY <2>4
<1>3. CASE Handler
  BY <1>3, HandlerEffect
<1> QED
  BY <1>1, <1>2, <1>3 DEF Next, Returned

(* It adds its own to what has been handled.                                *)
LEMMA EffectHandled ==
  ASSUME NEW k, Effect(k)
  PROVE  Handled(k)
BY DEF Effect, Handled

(* How far the conversion has come is what ProgressInv says, whichever      *)
(* handlers run.                                                            *)
THEOREM Progress == Spec => []ProgressInv
<1>1. Init => ProgressInv
  BY InitProgress
<1>2. IInv /\ ProgressInv /\ [Next]_vars => ProgressInv'
  BY NextEffect, EffectHandled, HandledProgress, QuietProgress
<1> QED
  BY <1>1, <1>2, Invariance, PTL DEF Spec

(* A route hangs on the listener of its host when TLS covers that.          *)
THEOREM BoundRoutes == Spec => []RoutesBound
<1>1. Init => RoutesBound
  <2>1. Init => DOMAIN routes = {}
    BY Zenon DEF Init, EngineInit
  <2> QED
    BY <2>1 DEF RoutesBound, OwnRoutes
<1>2. IInv /\ ProgressInv /\ RoutesBound /\ [Next]_vars => RoutesBound'
  <2>1. ASSUME IInv, ProgressInv, RoutesBound, [Next]_vars
        PROVE  RoutesBound'
    <3>1. StepOK
      BY <2>1, NextStep
    <3>2. ASSUME NEW k, Effect(k)
          PROVE  OwnRoutes' = OwnRoutes
      BY <2>1, <3>2, EffectHandled, HandledProgress, OwnRoutesKept DEF Effect
    <3>3. OwnRoutes' = OwnRoutes \/ BeginRule
      BY <2>1, <3>2, NextEffect, QuietProgress
    <3> QED
      BY <2>1, <3>1, <3>3, BoundStep
  <2> QED
    BY <2>1
<1> QED
  BY <1>1, <1>2, Invariance, Progress, PTL DEF Spec

-----------------------------------------------------------------------------
(* The redirect.                                                             *)

(* The redirect is there as soon as one ssl-redirect has been handled.      *)
RedirectBook ==
  /\ redirect = \E n \in RouteNNs : Askers(n, "ssl-redirect") # {}
  /\ redirect => http /\ RedirectNN \in DOMAIN graphRoutes

LEMMA RedirectStepBook ==
  ASSUME IInv, ProgressInv, RedirectBook, [Next]_vars
  PROVE  RedirectBook'
<1>1. ASSUME NEW k, Effect(k)
      PROVE  RedirectBook'
  <2>1. /\ \A n : Askers(n, "ssl-redirect")' = Askers(n, "ssl-redirect") \union
                    (IF n = ThisRoute.nn /\ "ssl-redirect" = k THEN {cur} ELSE {})
        /\ ThisRoute.nn \in RouteNNs /\ input' = input
    BY <1>1, EffectHandled, HandledProgress
  <2>2. RouteNNs' = RouteNNs /\ RedirectNN' = RedirectNN
    BY <2>1, SameNames, SameNamespace DEF RedirectNN
  <2>3. CASE k # "ssl-redirect"
    <3>1. UNCHANGED <<graphRoutes, http, redirect>>
      BY <1>1, <2>3 DEF Effect
    <3> QED
      BY <2>1, <2>2, <2>3, <3>1 DEF RedirectBook
  <2>4. CASE k = "ssl-redirect"
    <3>1. handleSSLRedirect \/ RepeatedSSLRedirect
      BY <1>1, <2>4 DEF Effect
    <3>2. redirect' /\ http' /\ RedirectNN \in DOMAIN graphRoutes'
      BY <3>1 DEF handleSSLRedirect, RepeatedSSLRedirect, InsertAt, graphVars, RedirectBook
    <3>3. redirect' = TRUE
      BY <3>1 DEF handleSSLRedirect, RepeatedSSLRedirect, graphVars, IInv, TypeOK, GraphOK
    <3>4. PICK name \in RouteNNs : name = ThisRoute.nn
      BY <2>1
    <3>5. Askers(name, "ssl-redirect")' # {} /\ name \in RouteNNs'
      BY <2>1, <2>2, <2>4, <3>4
    <3> QED
      BY <2>2, <3>2, <3>3, <3>5 DEF RedirectBook
  <2> QED
    BY <2>3, <2>4
<1>2. CASE (EngineStep /\ ~handleIgnoredAnnotation) \/ UNCHANGED vars
  <2>1. /\ SameAskers /\ input' = input /\ redirect' = redirect /\ (http => http')
        /\ DOMAIN graphRoutes \subseteq DOMAIN graphRoutes'
    BY <1>2, QuietProgress
  <2>2. RouteNNs' = RouteNNs /\ RedirectNN' = RedirectNN
    BY <2>1, SameNames, SameNamespace DEF RedirectNN
  <2> QED
    BY <2>1, <2>2 DEF RedirectBook, SameAskers
<1> QED
  BY <1>1, <1>2, NextEffect

(* The redirect route exists at the end exactly when some Ingress asks for  *)
(* a redirect on a rule that is handled, and it hangs on an HTTP listener.  *)
THEOREM RedirectSafety == Spec => []RedirectInstalled
<1>1. Init => RedirectBook
  <2>1. ASSUME Init
        PROVE  RedirectBook
    <3>1. redirect = FALSE
      BY <2>1, Zenon DEF Init, EngineInit
    <3> QED
      BY <2>1, <3>1, InitProgress DEF RedirectBook
  <2> QED
    BY <2>1
<1>2. IInv /\ ProgressInv /\ RedirectBook /\ [Next]_vars => RedirectBook'
  BY RedirectStepBook
<1>3. IInv /\ ProgressInv /\ RedirectBook => RedirectInstalled
  <2>1. ASSUME IInv, ProgressInv, RedirectBook, Done
        PROVE  /\ redirect = \E nn \in Ingresses :
                    HasAnnotation(nn, "ssl-redirect") /\ ActiveRules(nn) # {}
               /\ redirect => http /\ RedirectNN \in DOMAIN graphRoutes
    <3> DEFINE k == "ssl-redirect"
    <3>1. \A n : Askers(n, k) = {nn \in Ingresses : /\ HasAnnotation(nn, k)
                                       /\ \E h \in ActiveHosts(nn) : n = RouteNN(nn, h)}
      BY <2>1, AllAsked
    <3>2. ASSUME NEW n \in RouteNNs, Askers(n, k) # {}
          PROVE  \E nn \in Ingresses : HasAnnotation(nn, k) /\ ActiveRules(nn) # {}
      BY <3>1, <3>2 DEF ActiveHosts
    <3>3. ASSUME NEW nn \in Ingresses, HasAnnotation(nn, k), NEW i \in ActiveRules(nn)
          PROVE  \E n \in RouteNNs : Askers(n, k) # {}
      <4>1. HostOf(nn, i) \in ActiveHosts(nn)
        BY DEF ActiveHosts, HostOf
      <4>2. <<nn, HostOf(nn, i)>> \in ActivePairs
        BY <4>1 DEF ActivePairs
      <4>3. PairNN(<<nn, HostOf(nn, i)>>) = RouteNN(nn, HostOf(nn, i))
        BY DEF PairNN
      <4>4. RouteNN(nn, HostOf(nn, i)) \in RouteNNs
        BY <4>2, <4>3 DEF RouteNNs
      <4>5. nn \in Askers(RouteNN(nn, HostOf(nn, i)), k)
        BY <3>1, <3>3, <4>1
      <4> QED
        BY <4>4, <4>5
    <3> QED
      BY <2>1, <3>2, <3>3 DEF RedirectBook
  <2> QED
    BY <2>1 DEF RedirectInstalled
<1> QED
  BY <1>1, <1>2, <1>3, Invariance, Progress, PTL DEF Spec

-----------------------------------------------------------------------------
(* Route policies.                                                           *)

(* A route has a policy as soon as it has been asked for, and it holds what *)
(* has been asked for so far.                                               *)
Timeouts(n) == Asked(n, "request-timeout") \ {Invalid}
Affine(n)   == "true" \in Asked(n, "cookie-based-affinity")

PolicyBook ==
  /\ DOMAIN routePolicies = {n \in RouteNNs : Timeouts(n) # {} \/ Affine(n)}
  /\ \A n \in DOMAIN routePolicies :
       /\ DOMAIN routePolicies[n] = {"timeout", "affinity", "duration"}
       /\ routePolicies[n].affinity = Affine(n)
       /\ routePolicies[n].timeout \in IF Timeouts(n) = {} THEN {Unset} ELSE Timeouts(n)

LEMMA PolicyStepBook ==
  ASSUME IInv, ProgressInv, PolicyBook, [Next]_vars
  PROVE  PolicyBook'
<1>1. ASSUME NEW k, Effect(k)
      PROVE  PolicyBook'
  <2>1. PICK name \in RouteNNs :
          /\ name = ThisRoute.nn
          /\ \A n, j : Asked(n, j)' = Asked(n, j) \union
                         (IF n = name /\ j = k THEN {Value(k)} ELSE {})
    BY <1>1, EffectHandled, HandledAnswers
  <2>2. RouteNNs' = RouteNNs
    BY <1>1, EffectHandled, HandledProgress, SameNames
  <2>3. \A n : /\ Timeouts(n)' = Timeouts(n) \union
                    (IF n = name /\ k = "request-timeout" THEN {Value(k)} \ {Invalid} ELSE {})
               /\ Affine(n)' <=> Affine(n) \/
                    (n = name /\ k = "cookie-based-affinity" /\ Value(k) = "true")
    BY <2>1 DEF Timeouts, Affine
  <2>4. ASSUME UNCHANGED routePolicies, k # "request-timeout" \/ Value(k) = Invalid,
               k # "cookie-based-affinity" \/ Value(k) # "true"
        PROVE  PolicyBook'
    <3>1. \A n : Timeouts(n)' = Timeouts(n)
      BY <2>3, <2>4
    <3>2. \A n : Affine(n)' = Affine(n)
      BY <2>3, <2>4 DEF Affine
    <3> QED
      BY <2>2, <2>4, <3>1, <3>2 DEF PolicyBook
  <2>5. CASE k \notin RouteSettingKeys
    BY <1>1, <2>4, <2>5 DEF Effect, RouteSettingKeys
  <2>6. CASE InvalidRouteSetting(k)
    BY <2>4, <2>6 DEF InvalidRouteSetting, policyVars, Invalid
  <2>7. CASE DisabledAffinity /\ k = "cookie-based-affinity"
    BY <2>4, <2>7 DEF DisabledAffinity, policyVars
  <2> DEFINE old == RoutePolicy(name)
  <2>8. /\ DOMAIN old = {"timeout", "affinity", "duration"}
        /\ old.affinity = Affine(name)
        /\ old.timeout \in IF Timeouts(name) = {} THEN {Unset} ELSE Timeouts(name)
    <3>1. CASE name \in DOMAIN routePolicies
      BY <3>1 DEF PolicyBook, RoutePolicy
    <3>2. CASE name \notin DOMAIN routePolicies
      <4>1. Timeouts(name) = {} /\ Affine(name) = FALSE
        BY <3>2 DEF PolicyBook, Affine
      <4> QED
        BY <3>2, <4>1 DEF RoutePolicy, NewRoutePolicy
    <3> QED
      BY <3>1, <3>2
  <2>9. CASE handleRequestTimeout /\ k = "request-timeout"
    <3> DEFINE new == [old EXCEPT !.timeout = Value(k)]
    <3>1. Value(k) # Invalid /\ routePolicies' = InsertAt(routePolicies, name, new)
      BY <2>1, <2>9 DEF handleRequestTimeout
    <3>2. /\ DOMAIN new = {"timeout", "affinity", "duration"}
          /\ new.affinity = Affine(name) /\ new.timeout = Value(k)
      BY <2>8
    <3> HIDE DEF new, old
    <3>3. /\ Timeouts(name)' = Timeouts(name) \union {Value(k)}
          /\ \A n : n # name => Timeouts(n)' = Timeouts(n)
          /\ \A n : Affine(n)' = Affine(n)
      BY <2>3, <2>9, <3>1 DEF Affine
    <3> QED
      BY <2>2, <3>1, <3>2, <3>3 DEF PolicyBook, InsertAt
  <2>10. CASE handleCookieBasedAffinity /\ k = "cookie-based-affinity"
    <3> DEFINE new == [old EXCEPT !.affinity = TRUE]
    <3>1. Value(k) = "true" /\ routePolicies' = InsertAt(routePolicies, name, new)
      BY <2>1, <2>10 DEF handleCookieBasedAffinity
    <3>2. /\ DOMAIN new = {"timeout", "affinity", "duration"}
          /\ new.affinity = TRUE
          /\ new.timeout \in IF Timeouts(name) = {} THEN {Unset} ELSE Timeouts(name)
      BY <2>8
    <3> HIDE DEF new, old
    <3>3. /\ \A n : Timeouts(n)' = Timeouts(n)
          /\ Affine(name)' = TRUE
          /\ \A n : n # name => Affine(n)' = Affine(n)
      BY <2>3, <2>10, <3>1 DEF Affine
    <3> QED
      BY <2>2, <3>1, <3>2, <3>3 DEF PolicyBook, InsertAt
  <2> HIDE DEF old
  <2>11. k \in RouteSettingKeys =>
           \/ InvalidRouteSetting(k)
           \/ handleRequestTimeout /\ k = "request-timeout"
           \/ DisabledAffinity /\ k = "cookie-based-affinity"
           \/ handleCookieBasedAffinity /\ k = "cookie-based-affinity"
    BY <1>1 DEF Effect
  <2> QED
    BY <2>5, <2>6, <2>7, <2>9, <2>10, <2>11
<1>2. CASE (EngineStep /\ ~handleIgnoredAnnotation) \/ UNCHANGED vars
  <2>1. SameAskers /\ input' = input /\ UNCHANGED routePolicies
    BY <1>2, QuietProgress DEF policyVars
  <2>2. RouteNNs' = RouteNNs /\ \A n, j : Asked(n, j)' = Asked(n, j)
    BY <2>1, SameNames, SameAnswers
  <2> QED
    BY <2>1, <2>2 DEF PolicyBook, Timeouts, Affine
<1> QED
  BY <1>1, <1>2, NextEffect

(* The route policies at the end are those the annotations call for,        *)
(* timeouts and affinity of one route in one policy, in whatever order the  *)
(* two handlers ran and however often the host was repeated.                *)
THEOREM RoutePolicySafety == Spec => []RoutePoliciesAsDeclared
<1>1. Init => PolicyBook
  <2>1. ASSUME Init
        PROVE  PolicyBook
    <3>1. DOMAIN routePolicies = {}
      BY <2>1, Zenon DEF Init
    <3>2. \A n : Timeouts(n) = {} /\ ~Affine(n)
      BY <2>1, InitProgress DEF Timeouts, Affine, Asked
    <3> QED
      BY <3>1, <3>2 DEF PolicyBook
  <2> QED
    BY <2>1
<1>2. IInv /\ ProgressInv /\ PolicyBook /\ [Next]_vars => PolicyBook'
  BY PolicyStepBook
<1>3. IInv /\ ProgressInv /\ PolicyBook => RoutePoliciesAsDeclared
  <2>1. ASSUME IInv, ProgressInv, PolicyBook, Done, NamesAreUnique
        PROVE  /\ DOMAIN routePolicies =
                    {PairNN(p) : p \in {q \in ActivePairs : WantsTimeout(q[1]) \/ WantsAffinity(q[1])}}
               /\ \A p \in ActivePairs :
                    LET policy == RoutePolicy(PairNN(p))
                    IN  /\ policy.affinity = WantsAffinity(p[1])
                        /\ WantsTimeout(p[1]) => policy.timeout = AnnotationOf(p[1], "request-timeout")
    <3>1. ASSUME NEW p \in ActivePairs
          PROVE  /\ Timeouts(PairNN(p)) = IF WantsTimeout(p[1])
                                            THEN {AnnotationOf(p[1], "request-timeout")} ELSE {}
                 /\ Affine(PairNN(p)) = WantsAffinity(p[1])
                 /\ PairNN(p) \in DOMAIN routePolicies <=> WantsTimeout(p[1]) \/ WantsAffinity(p[1])
      <4>1. \A k : Asked(PairNN(p), k) =
                     IF HasAnnotation(p[1], k) THEN {AnnotationOf(p[1], k)} ELSE {}
        BY <2>1, AskedByOwner
      <4>2. /\ Timeouts(PairNN(p)) = IF WantsTimeout(p[1])
                                       THEN {AnnotationOf(p[1], "request-timeout")} ELSE {}
            /\ Affine(PairNN(p)) = WantsAffinity(p[1])
        BY <4>1 DEF Timeouts, Affine, WantsTimeout, WantsAffinity, HasAnnotation
      <4> QED
        BY <2>1, <4>2 DEF PolicyBook, RouteNNs
    <3>2. DOMAIN routePolicies \subseteq RouteNNs
      BY <2>1 DEF PolicyBook
    <3>3. DOMAIN routePolicies =
            {PairNN(p) : p \in {q \in ActivePairs : WantsTimeout(q[1]) \/ WantsAffinity(q[1])}}
      BY <3>1, <3>2 DEF RouteNNs
    <3>4. ASSUME NEW p \in ActivePairs
          PROVE  /\ RoutePolicy(PairNN(p)).affinity = WantsAffinity(p[1])
                 /\ WantsTimeout(p[1]) =>
                      RoutePolicy(PairNN(p)).timeout = AnnotationOf(p[1], "request-timeout")
      <4>1. CASE PairNN(p) \in DOMAIN routePolicies
        BY <2>1, <3>1, <4>1 DEF PolicyBook, RoutePolicy
      <4>2. CASE PairNN(p) \notin DOMAIN routePolicies
        <5>1. ~WantsTimeout(p[1]) /\ WantsAffinity(p[1]) = FALSE
          BY <3>1, <4>2 DEF WantsAffinity
        <5> QED
          BY <4>2, <5>1 DEF RoutePolicy, NewRoutePolicy
      <4> QED
        BY <4>1, <4>2
    <3> QED
      BY <3>3, <3>4
  <2> QED
    BY <2>1 DEF RoutePoliciesAsDeclared
<1> QED
  BY <1>1, <1>2, <1>3, Invariance, Progress, PTL DEF Spec

-----------------------------------------------------------------------------
(* TLS profiles of listeners.                                                *)

(* Every TLS profile of a listener is that of an Ingress that has begun;    *)
(* the handled ones are in force or refused.                                *)
ProfileKey  == "appgw-ssl-profile"
Conflict    == "FrontendTLSPolicyProfileConflict"
ProfileOf(nn) == SSLPolicy(AnnotationOf(nn, ProfileKey))

ProfilesOwned ==
  \A s \in DOMAIN frontendTLS :
    \E nn \in Ingresses \ todo : HasAnnotation(nn, ProfileKey) /\ frontendTLS[s] = ProfileOf(nn)

Settled(nn, i) ==
  \/ /\ ListenerName(HostOf(nn, i)) \in DOMAIN frontendTLS
     /\ frontendTLS[ListenerName(HostOf(nn, i))] = ProfileOf(nn)
  \/ Conflict \in anno[nn][ProfileKey].issues

ProfilesSettled ==
  \A nn \in Ingresses : \A i \in ActiveRules(nn) :
    /\ HasAnnotation(nn, ProfileKey)
    /\ Over(nn, i, ProfileKey)
    /\ DOMAIN TLSBinding(nn, HostOf(nn, i)) # {}
    => Settled(nn, i)

ProfileBook == ProfilesOwned /\ ProfileConflictIsForeign /\ ProfilesSettled

(* Profiles stay, and so do issues.                                         *)
ProfilesGrow ==
  /\ input' = input /\ todo' \subseteq todo
  /\ \A s \in DOMAIN frontendTLS : s \in DOMAIN frontendTLS' /\ frontendTLS'[s] = frontendTLS[s]
  /\ \A nn \in Ingresses : HasAnnotation(nn, ProfileKey) =>
       anno[nn][ProfileKey].issues \subseteq anno'[nn][ProfileKey].issues

LEMMA ProfileKept ==
  ASSUME ProfileBook, ProfilesGrow,
         \A s \in DOMAIN frontendTLS' \ DOMAIN frontendTLS :
           \E nn \in Ingresses \ todo' : HasAnnotation(nn, ProfileKey) /\ frontendTLS'[s] = ProfileOf(nn),
         \A nn \in Ingresses :
           /\ HasAnnotation(nn, ProfileKey)
           /\ Conflict \in anno'[nn][ProfileKey].issues \ anno[nn][ProfileKey].issues
           => \E other \in Ingresses :
                /\ HasAnnotation(other, ProfileKey)
                /\ NNLess(other, nn) /\ ProfileOf(other) # ProfileOf(nn)
                /\ \E s \in DOMAIN frontendTLS : frontendTLS[s] = ProfileOf(other),
         \A nn \in Ingresses : \A i \in ActiveRules(nn) :
           /\ HasAnnotation(nn, ProfileKey)
           /\ Over(nn, i, ProfileKey)' /\ ~Over(nn, i, ProfileKey)
           /\ DOMAIN TLSBinding(nn, HostOf(nn, i)) # {}
           => Settled(nn, i)'
  PROVE  ProfileBook'
<1>1. /\ Ingresses' = Ingresses
      /\ \A nn : /\ HasAnnotation(nn, ProfileKey)' = HasAnnotation(nn, ProfileKey)
                 /\ ProfileOf(nn)' = ProfileOf(nn) /\ ActiveRules(nn)' = ActiveRules(nn)
      /\ \A nn, h : TLSBinding(nn, h)' = TLSBinding(nn, h)
      /\ \A nn, i : HostOf(nn, i)' = HostOf(nn, i)
  <2>1. input' = input /\ \A nn : Ingress(nn)' = Ingress(nn)
    BY DEF ProfilesGrow, Ingress
  <2>2. \A nn : AnnotationOf(nn, ProfileKey)' = AnnotationOf(nn, ProfileKey)
    BY <2>1 DEF AnnotationOf
  <2>3. \A nn : ProfileOf(nn)' = ProfileOf(nn)
    BY <2>2 DEF ProfileOf, SSLPolicy
  <2>4. \A nn : /\ HasAnnotation(nn, ProfileKey)' = HasAnnotation(nn, ProfileKey)
                /\ ActiveRules(nn)' = ActiveRules(nn)
    BY <2>1 DEF HasAnnotation, ActiveRules
  <2>5. \A nn, h : TLSBinding(nn, h)' = TLSBinding(nn, h)
    BY <2>1, SameBindings
  <2> QED
    BY <2>1, <2>3, <2>4, <2>5 DEF Ingresses, HostOf
<1>2. ProfilesOwned'
  BY <1>1 DEF ProfileBook, ProfilesOwned, ProfilesGrow
<1>3. ProfileConflictIsForeign'
  <2>1. ASSUME NEW nn \in Ingresses, HasAnnotation(nn, ProfileKey),
               Conflict \in anno'[nn][ProfileKey].issues
        PROVE  \E other \in Ingresses :
                 /\ HasAnnotation(other, ProfileKey)
                 /\ NNLess(other, nn) /\ ProfileOf(other) # ProfileOf(nn)
                 /\ \E s \in DOMAIN frontendTLS' : frontendTLS'[s] = ProfileOf(other)
    <3>1. PICK other \in Ingresses :
                 /\ HasAnnotation(other, ProfileKey)
                 /\ NNLess(other, nn) /\ ProfileOf(other) # ProfileOf(nn)
                 /\ \E s \in DOMAIN frontendTLS : frontendTLS[s] = ProfileOf(other)
      BY <2>1 DEF ProfileBook, ProfileConflictIsForeign, ProfileOf, ProfileKey, Conflict
    <3> QED
      BY <3>1 DEF ProfilesGrow
  <2> QED
    BY <1>1, <2>1 DEF ProfileConflictIsForeign, ProfileOf, ProfileKey, Conflict
<1>4. ProfilesSettled'
  <2>1. ASSUME NEW nn \in Ingresses, NEW i \in ActiveRules(nn), Settled(nn, i),
               HasAnnotation(nn, ProfileKey)
        PROVE  Settled(nn, i)'
    BY <1>1, <2>1 DEF Settled, ProfilesGrow
  <2> QED
    BY <1>1, <2>1 DEF ProfileBook, ProfilesSettled
<1> QED
  BY <1>2, <1>3, <1>4 DEF ProfileBook

LEMMA ProfileStepBook ==
  ASSUME IInv, BookInv, ProgressInv, RoutesBound, ProfileBook, [Next]_vars
  PROVE  ProfileBook'
<1>1. ASSUME (EngineStep /\ ~handleIgnoredAnnotation) \/ UNCHANGED vars
      PROVE  ProfileBook'
  <2>1. SameTurns /\ UNCHANGED <<input, anno, frontendTLS>> /\ todo' \subseteq todo
    BY <1>1, QuietProgress DEF policyVars, SameAskers
  <2>2. ProfilesGrow
    BY <2>1 DEF ProfilesGrow
  <2>3. ASSUME NEW nn \in Ingresses, NEW i \in ActiveRules(nn), HasAnnotation(nn, ProfileKey)
        PROVE  Over(nn, i, ProfileKey)' <=> Over(nn, i, ProfileKey)
    BY <2>1, <2>3 DEF SameTurns, HasAnnotation
  <2> QED
    BY <2>1, <2>2, <2>3, ProfileKept
<1>2. ASSUME NEW k, Effect(k), k # ProfileKey
      PROVE  ProfileBook'
  <2>1. /\ UNCHANGED <<input, todo, frontendTLS>>
        /\ \A nn \in Ingresses : \A i \in ActiveRules(nn) :
             Over(nn, i, ProfileKey)' <=> Over(nn, i, ProfileKey)
    BY <1>2, EffectHandled, HandledProgress DEF Effect, ProfileKey
  <2>2. PICK a, err : Take(k) /\ Finish(k, a, err)
    BY <1>2 DEF Effect
  <2>3. ASSUME NEW nn \in Ingresses, HasAnnotation(nn, ProfileKey)
        PROVE  anno'[nn][ProfileKey] = anno[nn][ProfileKey]
    BY <1>2, <2>2, <2>3, OneAnnotation DEF IInv, TypeOK, AnnotationsOK, HasAnnotation
  <2>4. ProfilesGrow
    BY <2>1, <2>3 DEF ProfilesGrow, Ingresses
  <2> QED
    BY <2>1, <2>3, <2>4, ProfileKept
<1>3. ASSUME Effect(ProfileKey)
      PROVE  ProfileBook'
  <2>1. PICK me \in Ingresses \ todo, at \in ActiveRules(cur) : me = cur /\ at = rule
    BY <1>3, EffectHandled, HandledProgress, CurrentRoute DEF ProgressInv, InTurn
  <2>2. /\ UNCHANGED <<input, todo>> /\ HasAnnotation(me, ProfileKey)
        /\ Value(ProfileKey) = AnnotationOf(me, ProfileKey)
        /\ \A nn \in Ingresses : \A i \in ActiveRules(nn) :
             Over(nn, i, ProfileKey)' /\ ~Over(nn, i, ProfileKey) => nn = me /\ i = at
    BY <1>3, <2>1, EffectHandled, HandledProgress
  <2> DEFINE listeners == ParentHTTPSListeners(ThisRoute)
             host      == HostOf(me, at)
  <2>3. DOMAIN TLSBinding(me, host) # {} => ListenerName(host) \in listeners
    <3>1. /\ phase = "annotations" /\ ThisRouteId \in DOMAIN routes
          /\ ThisRouteId = RouteId(me, host)
      BY <1>3, <2>1, EffectHandled, HandledProgress, CurrentRoute
    <3>2. ThisRouteId \in OwnRoutes /\ ThisRouteId.ing = me /\ ThisRouteId.host = host
      BY <3>1 DEF OwnRoutes, RouteId
    <3>3. \A h \in DOMAIN TLSBinding(me, host) :
            h = host /\ h \in DOMAIN https /\ ListenerName(h) \in SectionsOf(ThisRoute)
      BY <3>2, BindingOfRule DEF RoutesBound, ThisRoute
    <3> QED
      BY <3>3 DEF ParentHTTPSListeners
  <2>4. ASSUME NEW a, NEW err, NEW issues, NEW dests, Take(ProfileKey), Finish(ProfileKey, a, err),
               Outcome(Anno(ProfileKey), a, issues, dests),
               NEW nn \in Ingresses, HasAnnotation(nn, ProfileKey)
        PROVE  anno'[nn][ProfileKey].issues =
                 anno[nn][ProfileKey].issues \union (IF nn = me THEN issues ELSE {})
    <3>1. ProfileKey \in DOMAIN anno[nn]
      BY <2>4 DEF IInv, TypeOK, AnnotationsOK, HasAnnotation
    <3>2. anno'[nn][ProfileKey] = IF nn = me THEN a ELSE anno[nn][ProfileKey]
      BY <2>1, <2>4, <3>1, OneAnnotation
    <3> QED
      BY <2>1, <2>4, <3>2 DEF Outcome, Anno
  <2>5. CASE NoHTTPSListeners
    <3> DEFINE k == ProfileKey
               code == "NoHTTPSListenersForSSLProfile"
               a == RegisterIssue(Anno(k), code)
    <3>1. Take(k) /\ Finish(k, a, FALSE) /\ listeners = {} /\ frontendTLS' = frontendTLS
      BY <2>5 DEF NoHTTPSListeners, ProfileKey, policyVars
    <3>2. Outcome(Anno(k), a, {code}, {}) /\ Conflict \notin {code}
      BY <3>1, CurrentAccounted, RegisterIssueOutcome, IssueCodes DEF Conflict
    <3> HIDE DEF a, code, k, listeners, host
    <3>3. \A nn \in Ingresses : HasAnnotation(nn, ProfileKey) =>
            anno'[nn][ProfileKey].issues =
              anno[nn][ProfileKey].issues \union (IF nn = me THEN {code} ELSE {})
      BY <2>4, <3>1, <3>2 DEF k
    <3>4. ProfilesGrow
      BY <2>2, <3>1, <3>3 DEF ProfilesGrow
    <3>5. \A nn \in Ingresses : HasAnnotation(nn, ProfileKey) =>
            Conflict \notin anno'[nn][ProfileKey].issues \ anno[nn][ProfileKey].issues
      BY <3>2, <3>3
    <3>6. DOMAIN TLSBinding(me, host) = {}
      BY <2>3, <3>1
    <3>7. \A nn \in Ingresses : \A i \in ActiveRules(nn) :
            ~(/\ HasAnnotation(nn, ProfileKey)
              /\ Over(nn, i, ProfileKey)' /\ ~Over(nn, i, ProfileKey)
              /\ DOMAIN TLSBinding(nn, HostOf(nn, i)) # {})
      BY <2>2, <3>6 DEF host
    <3> QED
      BY <3>1, <3>4, <3>5, <3>7, ProfileKept
  <2>6. CASE handleAppGWSSLProfile
    <3>1. PICK set, a, issues : ProfileGiven(set, a, issues)
      BY <2>6, ProfileOutcome
    <3> DEFINE k == ProfileKey
               policy == SSLPolicy(Value(k))
               fresh == listeners \ DOMAIN frontendTLS
               conflict == ProfileConflict(listeners, policy)
               dests == {Resource("FrontendTLSPolicy", s) : s \in set}
    <3>2. /\ Take(k) /\ Finish(k, a, conflict)
          /\ set \subseteq fresh /\ (conflict \/ set = fresh)
          /\ frontendTLS' = [s \in DOMAIN frontendTLS \union set |->
               IF s \in set THEN policy ELSE frontendTLS[s]]
          /\ Outcome(Anno(k), a, issues, dests)
          /\ IF conflict THEN Conflict \in issues
             ELSE issues \intersect RejectingIssues = {}
      BY <3>1 DEF ProfileGiven, ProfileKey, Conflict
    <3>3. policy = ProfileOf(me)
      BY <2>2 DEF ProfileOf
    <3>4. Conflict \in RejectingIssues
      BY DEF Conflict, RejectingIssues
    <3>5. conflict => \E s \in listeners : s \in DOMAIN frontendTLS /\ frontendTLS[s] # policy
      BY DEF ProfileConflict
    <3>6. ~conflict => \A s \in listeners : s \in DOMAIN frontendTLS => frontendTLS[s] = policy
      BY DEF ProfileConflict
    <3> HIDE DEF conflict, dests, policy, k
    <3>7. \A nn \in Ingresses : HasAnnotation(nn, ProfileKey) =>
            anno'[nn][ProfileKey].issues =
              anno[nn][ProfileKey].issues \union (IF nn = me THEN issues ELSE {})
      BY <2>4, <3>2 DEF k
    <3>8. ProfilesGrow
      BY <2>2, <3>2, <3>7 DEF ProfilesGrow
    <3>9. \A s \in DOMAIN frontendTLS' \ DOMAIN frontendTLS :
            me \in Ingresses \ todo' /\ HasAnnotation(me, ProfileKey) /\ frontendTLS'[s] = ProfileOf(me)
      BY <2>1, <2>2, <3>2, <3>3
    <3>10. ASSUME NEW nn \in Ingresses, HasAnnotation(nn, ProfileKey),
                  Conflict \in anno'[nn][ProfileKey].issues \ anno[nn][ProfileKey].issues
           PROVE  \E other \in Ingresses :
                    /\ HasAnnotation(other, ProfileKey)
                    /\ NNLess(other, nn) /\ ProfileOf(other) # ProfileOf(nn)
                    /\ \E s \in DOMAIN frontendTLS : frontendTLS[s] = ProfileOf(other)
      <4>1. nn = me /\ conflict
        BY <3>2, <3>4, <3>7, <3>10
      <4>2. PICK s \in DOMAIN frontendTLS : frontendTLS[s] # ProfileOf(me)
        BY <3>3, <3>5, <4>1
      <4>3. PICK other \in Ingresses \ todo :
              HasAnnotation(other, ProfileKey) /\ frontendTLS[s] = ProfileOf(other)
        BY DEF ProfileBook, ProfilesOwned
      <4>4. other # me
        BY <4>2, <4>3
      <4>5. InTurn
        BY <3>2 DEF Take, InTurn
      <4>6. NNLess(other, me)
        BY <2>1, <4>3, <4>4, <4>5 DEF ProgressInv
      <4> QED
        BY <4>1, <4>2, <4>3, <4>6
    <3>11. DOMAIN TLSBinding(me, host) # {} => Settled(me, at)'
      <4>1. /\ HostOf(me, at)' = host
            /\ ProfileOf(me)' = ProfileOf(me)
        <5>1. Ingress(me)' = Ingress(me)
          BY <2>2 DEF Ingress
        <5>2. AnnotationOf(me, ProfileKey)' = AnnotationOf(me, ProfileKey)
          BY <5>1 DEF AnnotationOf
        <5> QED
          BY <5>1, <5>2 DEF HostOf, ProfileOf, SSLPolicy
      <4>2. conflict => Conflict \in anno'[me][ProfileKey].issues
        BY <2>1, <2>2, <3>2, <3>7
      <4>3. ~conflict /\ ListenerName(host) \in listeners =>
              /\ ListenerName(host) \in DOMAIN frontendTLS'
              /\ frontendTLS'[ListenerName(host)] = ProfileOf(me)
        BY <3>2, <3>3, <3>6
      <4> QED
        BY <2>3, <4>1, <4>2, <4>3 DEF Settled
    <3> HIDE DEF listeners, host, fresh
    <3>12. \A nn \in Ingresses : \A i \in ActiveRules(nn) :
             /\ HasAnnotation(nn, ProfileKey)
             /\ Over(nn, i, ProfileKey)' /\ ~Over(nn, i, ProfileKey)
             /\ DOMAIN TLSBinding(nn, HostOf(nn, i)) # {}
             => Settled(nn, i)'
      BY <2>2, <3>11 DEF host
    <3> QED
      BY <3>8, <3>9, <3>10, <3>12, ProfileKept
  <2>7. NoHTTPSListeners \/ handleAppGWSSLProfile
    BY <1>3 DEF Effect, ProfileKey
  <2> QED
    BY <2>5, <2>6, <2>7
<1> QED
  BY <1>1, <1>2, <1>3, NextEffect

(* At every moment each TLS profile is that of an Ingress that has begun,   *)
(* and an Ingress whose annotation has been handled for a bound host has its*)
(* profile on that listener or the conflict on record.                      *)
THEOREM ProfileBookkeeping == Spec => []ProfileBook
<1>1. Init => ProfileBook
  <2>1. ASSUME Init
        PROVE  ProfileBook
    <3>1. DOMAIN frontendTLS = {} /\ phase = "setup" /\ todo = Ingresses
      BY <2>1, Zenon DEF Init, EngineInit
    <3>2. \A nn \in Ingresses : \A k \in DOMAIN Ingress(nn).annos : anno[nn][k].issues = {}
      BY <2>1 DEF Init, EngineInit, NewAnnotationContext
    <3>3. \A nn, i, k : ~Over(nn, i, k)
      BY <3>1 DEF Over
    <3> QED
      BY <3>1, <3>2, <3>3 DEF ProfileBook, ProfilesOwned, ProfilesSettled, ProfileConflictIsForeign,
         HasAnnotation, ProfileKey
  <2> QED
    BY <2>1
<1>2. IInv /\ BookInv /\ ProgressInv /\ RoutesBound /\ ProfileBook /\ [Next]_vars => ProfileBook'
  BY ProfileStepBook
<1> QED
  BY <1>1, <1>2, Invariance, Bookkeeping, Progress, BoundRoutes, PTL DEF Spec

(* What the conflict message of a TLS profile says is true: the profile an  *)
(* Ingress is refused for was set by an Ingress converted before it.        *)
THEOREM ProfileConflictSafety == Spec => []ProfileConflictIsForeign
<1>1. ProfileBook => ProfileConflictIsForeign
  BY DEF ProfileBook
<1> QED
  BY <1>1, ProfileBookkeeping, PTL

(* A TLS profile either holds at the end for the listener of each host it   *)
(* was given for, or its annotation is in error.                            *)
THEOREM ProfileSafety == Spec => []ProfileAppliedOrReported
<1>1. IInv /\ ProgressInv /\ ProfileBook => ProfileAppliedOrReported
  <2>1. ASSUME IInv, ProgressInv, ProfileBook, Done, NEW p \in ActivePairs,
               HasAnnotation(p[1], ProfileKey), DOMAIN TLSBinding(p[1], p[2]) # {}
        PROVE  \/ /\ ListenerName(p[2]) \in DOMAIN frontendTLS
                  /\ frontendTLS[ListenerName(p[2])] = ProfileOf(p[1])
               \/ anno[p[1]][ProfileKey].status = Error
    <3>1. PICK nn \in Ingresses : p \in {nn} \X ActiveHosts(nn)
      BY DEF ActivePairs
    <3>2. PICK i \in ActiveRules(nn) : p[2] = HostOf(nn, i)
      BY <3>1 DEF ActiveHosts, HostOf
    <3>3. p[1] = nn
      BY <3>1
    <3>4. Over(nn, i, ProfileKey)
      BY <2>1 DEF ProgressInv, Done, Over, InTurn
    <3>5. Settled(nn, i)
      BY <2>1, <3>2, <3>3, <3>4 DEF ProfileBook, ProfilesSettled
    <3>6. Conflict \in anno[nn][ProfileKey].issues => anno[nn][ProfileKey].status = Error
      <4>1. nn \in DOMAIN anno /\ ProfileKey \in DOMAIN anno[nn]
        BY <2>1, <3>3 DEF IInv, TypeOK, AnnotationsOK, HasAnnotation
      <4>2. IssueLibrary[Conflict] = Error
        BY DEF IssueLibrary, AGICIssues, Conflict
      <4> QED
        BY <2>1, <4>1, <4>2 DEF IInv, SeverityReflectsIssues
    <3> QED
      BY <3>2, <3>3, <3>5, <3>6 DEF Settled
  <2> QED
    BY <2>1 DEF ProfileAppliedOrReported, ProfileKey, ProfileOf
<1> QED
  BY <1>1, ProfileBookkeeping, Invariance, Progress, PTL

-----------------------------------------------------------------------------
(* The Gateway.                                                              *)

(* The certificates are those of the rules that have begun and of the host  *)
(* name extensions handled so far.                                          *)
ExtensionKey == "hostname-extension"

Extended ==
  {nn \in Ingresses : HasAnnotation(nn, ExtensionKey) /\
                      \E i \in ActiveRules(nn) : Over(nn, i, ExtensionKey)}

ExtensionCertificates ==
  UNION {CertificatesOf(ExtensionBinding(nn, AnnotationOf(nn, ExtensionKey))) : nn \in Extended}

CertificatesBook == Certificates = RuleCertificates \union ExtensionCertificates

(* What a host name extension binds is fixed by the input: finitely many of *)
(* the hosts TLS names, to secrets of the Ingress.                          *)
LEMMA SameExtensions ==
  ASSUME input' = input
  PROVE  \A nn : CertificatesOf(ExtensionBinding(nn, AnnotationOf(nn, ExtensionKey)))' =
                 CertificatesOf(ExtensionBinding(nn, AnnotationOf(nn, ExtensionKey)))
<1>1. \A nn : ExtensionBinding(nn, AnnotationOf(nn, ExtensionKey))' =
              ExtensionBinding(nn, AnnotationOf(nn, ExtensionKey))
  BY DEF ExtensionBinding, AnnotationOf, Ingress
<1> QED
  BY <1>1 DEF CertificatesOf

LEMMA BindingOfExtension ==
  ASSUME input \in Inputs, NEW nn \in Ingresses, HasAnnotation(nn, ExtensionKey)
  PROVE  LET b == ExtensionBinding(nn, AnnotationOf(nn, ExtensionKey))
         IN  /\ IsFiniteSet(DOMAIN b) /\ DOMAIN b \subseteq Nat
             /\ \A h \in DOMAIN b : b[h].ns = nn.ns
<1> DEFINE hosts     == AnnotationOf(nn, ExtensionKey)
           tls       == Ingress(nn).tls
           naming(h) == {i \in DOMAIN tls : h \in tls[i].hosts}
           range     == {hosts[i] : i \in DOMAIN hosts}
           b         == ExtensionBinding(nn, hosts)
<1>1. b = [h \in {x \in range : naming(x) # {}} |->
             [ns |-> nn.ns, name |-> tls[Max(naming(h))].secret]]
  BY Zenon DEF ExtensionBinding
<1>2. DOMAIN b = {x \in range : naming(x) # {}} /\ \A h \in DOMAIN b : b[h].ns = nn.ns
  BY <1>1
<1>3. hosts \in Seq(range)
  BY ExtensionAssumption DEF Ingresses, Ingress, HasAnnotation, AnnotationOf, ExtensionKey
<1>4. \A i \in DOMAIN tls : tls[i].hosts \subseteq Nat
  BY RulesAssumption DEF Ingresses, Ingress
<1>5. DOMAIN b \subseteq Nat
  BY <1>2, <1>4
<1> HIDE DEF hosts, b
<1>6. IsFiniteSet(range)
  <2>1. Len(hosts) \in Nat /\ hosts \in [1 .. Len(hosts) -> range] /\ DOMAIN hosts = 1 .. Len(hosts)
    BY <1>3, LenProperties
  <2>2. hosts \in Surjection(1 .. Len(hosts), range)
    BY <2>1 DEF Surjection
  <2>3. IsFiniteSet(1 .. Len(hosts))
    <3>1. PICK n \in Nat : n = Len(hosts)
      BY <2>1
    <3>2. IsFiniteSet(1 .. n)
      BY FS_Interval
    <3> QED
      BY <3>1, <3>2
  <2> QED
    BY <2>2, <2>3, FS_Surjection
<1>7. DOMAIN b \in SUBSET range
  BY <1>2
<1> HIDE DEF range
<1>8. IsFiniteSet(DOMAIN b)
  BY <1>6, <1>7, FS_Subset
<1> QED
  BY <1>2, <1>5, <1>8 DEF b, hosts

(* The certificates and the Gateway, one step on.                           *)
LEMMA GatewayStepBook ==
  ASSUME IInv, ProgressInv, GatewayBook, CertificatesBook, [Next]_vars
  PROVE  GatewayBook' /\ CertificatesBook'
<1>1. ASSUME input' = input, Extended' = Extended
      PROVE  ExtensionCertificates' = ExtensionCertificates
  BY <1>1, SameExtensions DEF ExtensionCertificates
<1>ext. ASSUME input' = input, NEW me, Extended' = Extended \union {me}
      PROVE  ExtensionCertificates' = ExtensionCertificates \union
               CertificatesOf(ExtensionBinding(me, AnnotationOf(me, ExtensionKey)))
  BY <1>ext, SameExtensions DEF ExtensionCertificates
<1>2. ASSUME input' = input
      PROVE  /\ Ingresses' = Ingresses
             /\ \A nn : /\ HasAnnotation(nn, ExtensionKey)' = HasAnnotation(nn, ExtensionKey)
                        /\ ActiveRules(nn)' = ActiveRules(nn)
  BY <1>2 DEF Ingresses, Ingress, HasAnnotation, ActiveRules
<1>3. CASE (EngineStep /\ ~handleIgnoredAnnotation) \/ UNCHANGED vars
  <2>1. SameTurns /\ input' = input
    BY <1>3, QuietProgress DEF SameAskers
  <2>2. Extended' = Extended
    BY <1>2, <2>1 DEF Extended, SameTurns, HasAnnotation
  <2>3. ExtensionCertificates' = ExtensionCertificates
    BY <1>1, <2>1, <2>2
  <2>4. PICK extra : extra = ExtensionCertificates
    OBVIOUS
  <2>5. GatewayBook' /\ Certificates' = RuleCertificates' \union extra
    BY <1>3, <2>4, EngineKeepsBook DEF CertificatesBook
  <2> QED
    BY <2>3, <2>4, <2>5 DEF CertificatesBook
<1>4. ASSUME NEW k, Effect(k)
      PROVE  GatewayBook' /\ CertificatesBook'
  <2>1. /\ UNCHANGED <<input, phase, todo, cur, rule>> /\ phase = "annotations"
        /\ HasAnnotation(cur, k) /\ Value(k) = AnnotationOf(cur, k)
        /\ \A nn \in Ingresses : \A i \in ActiveRules(nn) : \A j :
             Over(nn, i, j)' <=> Over(nn, i, j) \/ (nn = cur /\ i = rule /\ j = k)
    BY <1>4, EffectHandled, HandledProgress
  <2>2. OwnRoutes' = OwnRoutes /\ gateway' = gateway
    BY <1>4, <2>1, OwnRoutesKept DEF Effect, Finish, progressVars
  <2>in. input' = input
    BY <2>1
  <2>3. CASE k # ExtensionKey
    <3>1. Extended' = Extended
      <4>1. \A nn \in Ingresses : \A i \in ActiveRules(nn) :
              Over(nn, i, ExtensionKey)' <=> Over(nn, i, ExtensionKey)
        BY <2>1, <2>3
      <4>2. Ingresses' = Ingresses /\ Extended \subseteq Ingresses /\ Extended' \subseteq Ingresses
        BY <1>2, <2>1 DEF Extended
      <4>3. \A nn \in Ingresses :
              nn \in Extended' <=> HasAnnotation(nn, ExtensionKey) /\
                                   \E i \in ActiveRules(nn) : Over(nn, i, ExtensionKey)'
        BY <1>2, <2>1, Zenon DEF Extended
      <4>4. \A nn \in Ingresses :
              nn \in Extended <=> HasAnnotation(nn, ExtensionKey) /\
                                  \E i \in ActiveRules(nn) : Over(nn, i, ExtensionKey)
        BY Zenon DEF Extended
      <4>5. \A nn \in Ingresses : nn \in Extended' <=> nn \in Extended
        BY <4>1, <4>3, <4>4
      <4> QED
        BY <4>2, <4>5
    <3>2. ExtensionCertificates' = ExtensionCertificates
      BY <1>1, <2>in, <3>1
    <3>3. UNCHANGED <<https, grants>>
      BY <1>4, <2>3 DEF Effect, ExtensionKey
    <3>4. UNCHANGED <<http, redirect>> \/ (http' = TRUE /\ redirect' = TRUE)
      BY <1>4 DEF Effect, handleSSLRedirect, RepeatedSSLRedirect, graphVars
    <3>5. /\ GatewayBook' /\ Certificates' = Certificates
          /\ RuleCertificates' = RuleCertificates
      BY <2>1, <2>2, <3>3, <3>4, GatewayKept
    <3> QED
      BY <3>2, <3>5 DEF CertificatesBook
  <2>4. CASE k = ExtensionKey
    <3>1. PICK me \in Ingresses : me = cur /\ rule \in ActiveRules(me)
      BY <2>1, CurrentRoute
    <3> DEFINE b == ExtensionBinding(me, AnnotationOf(me, ExtensionKey))
    <3>2. handleHostNameExtension
      BY <1>4, <2>4 DEF Effect, ExtensionKey
    <3>3. /\ https' = EnsureHTTPSListeners(ExtensionBinding(cur, Value(k)))
          /\ grants' = GrantsFor(ExtensionBinding(cur, Value(k)))
          /\ UNCHANGED <<http, redirect>>
      BY <2>4, <3>2 DEF handleHostNameExtension, ExtensionKey
    <3>4. https' = EnsureHTTPSListeners(b) /\ grants' = GrantsFor(b)
      BY <2>1, <2>4, <3>1, <3>3
    <3>5. IsFiniteSet(DOMAIN b) /\ DOMAIN b \subseteq Nat
      BY <2>1, <2>4, <3>1, BindingOfExtension DEF IInv, TypeOK, ProgressOK
    <3>6. Extended' = Extended \union {me}
      <4>1. \A nn \in Ingresses : \A i \in ActiveRules(nn) :
              Over(nn, i, ExtensionKey)' <=>
              Over(nn, i, ExtensionKey) \/ (nn = me /\ i = rule)
        BY <2>1, <2>4, <3>1
      <4>2. HasAnnotation(me, ExtensionKey)
        BY <2>1, <2>4, <3>1
      <4>3. Ingresses' = Ingresses /\ Extended \subseteq Ingresses /\ Extended' \subseteq Ingresses
        BY <1>2, <2>1 DEF Extended
      <4>4. \A nn \in Ingresses :
              nn \in Extended' <=> HasAnnotation(nn, ExtensionKey) /\
                                   \E i \in ActiveRules(nn) : Over(nn, i, ExtensionKey)'
        BY <1>2, <2>1, Zenon DEF Extended
      <4>5. \A nn \in Ingresses :
              nn \in Extended <=> HasAnnotation(nn, ExtensionKey) /\
                                  \E i \in ActiveRules(nn) : Over(nn, i, ExtensionKey)
        BY Zenon DEF Extended
      <4>6. \A nn \in Ingresses : nn \in Extended' <=> nn \in Extended \/ nn = me
        BY <3>1, <4>1, <4>2, <4>4, <4>5
      <4> QED
        BY <3>1, <4>3, <4>6
    <3>7. ExtensionCertificates' = ExtensionCertificates \union CertificatesOf(b)
      BY <1>ext, <2>in, <3>6
    <3> HIDE DEF b
    <3>8. Certificates' = Certificates \union CertificatesOf(b)
      BY <3>4, CertificatesEnsured
    <3>9. RuleCertificates' = RuleCertificates
      <4>1. \A x : CertificatesOf(TLSBinding(x.ing, x.host))' = CertificatesOf(TLSBinding(x.ing, x.host))
        BY <2>1, SameBindings DEF CertificatesOf
      <4> QED
        BY <2>2, <4>1 DEF RuleCertificates
    <3>10. GrantsBook'
      BY <2>1, <3>4, <3>8, GrantsFollow DEF GatewayBook
    <3>11. ListenersBook'
      BY <2>1, <3>4, <3>5, ListenersGrow DEF GatewayBook
    <3>12. HTTPBook'
      BY <2>1, <2>2, <3>3 DEF GatewayBook, HTTPBook, Ingress
    <3> QED
      BY <3>7, <3>8, <3>9, <3>10, <3>11, <3>12 DEF GatewayBook, CertificatesBook
  <2> QED
    BY <2>3, <2>4
<1> QED
  BY <1>3, <1>4, NextEffect

(* At every moment certificates, grants and the HTTP listener of the Gateway*)
(* are those the rules begun and the annotations handled so far call for,   *)
(* no fewer and no more.                                                    *)
THEOREM GatewayBookkeeping == Spec => [](GatewayBook /\ CertificatesBook)
<1>1. Init => GatewayBook /\ CertificatesBook
  <2>1. ASSUME Init
        PROVE  GatewayBook /\ CertificatesBook
    <3>1. /\ DOMAIN routes = {} /\ DOMAIN https = {} /\ https = [h \in {} |-> {}]
          /\ http = FALSE /\ redirect = FALSE /\ grants = {} /\ todo = Ingresses
          /\ phase # "done"
      BY <2>1, Zenon DEF Init, EngineInit
    <3>2. OwnRoutes = {} /\ Certificates = {} /\ RuleCertificates = {}
      BY <3>1 DEF OwnRoutes, Certificates, RuleCertificates
    <3>3. ExtensionCertificates = {}
      BY <3>1 DEF ExtensionCertificates, Extended, Over
    <3>4. GrantsBook
      BY <3>1, <3>2 DEF GrantsBook
    <3>5. HTTPBook
      BY <3>1, <3>2 DEF HTTPBook
    <3>6. ListenersBook
      <4>1. IsFiniteSet({})
        BY FS_EmptySet
      <4> QED
        BY <3>1, <4>1 DEF ListenersBook
    <3> QED
      BY <3>2, <3>3, <3>4, <3>5, <3>6 DEF GatewayBook, CertificatesBook
  <2> QED
    BY <2>1
<1>2. IInv /\ ProgressInv /\ GatewayBook /\ CertificatesBook /\ [Next]_vars
        => GatewayBook' /\ CertificatesBook'
  BY GatewayStepBook
<1> QED
  BY <1>1, <1>2, Invariance, Progress, PTL DEF Spec

(* What an Ingress binds, rule by rule and with its extension.              *)
LEMMA InBindings ==
  ASSUME NEW nn, NEW c
  PROVE  c \in Bindings(nn) <=>
           \/ \E host \in RuleHosts(nn) : c \in CertificatesOf(TLSBinding(nn, host))
           \/ /\ HasAnnotation(nn, ExtensionKey) /\ ActiveRules(nn) # {}
              /\ c \in CertificatesOf(ExtensionBinding(nn, AnnotationOf(nn, ExtensionKey)))
<1>1. \A host : {<<h, TLSBinding(nn, h)[h]>> : h \in DOMAIN TLSBinding(nn, host)}
                  = CertificatesOf(TLSBinding(nn, host))
  <2>1. \A host : \A h \in DOMAIN TLSBinding(nn, host) : h = host
    BY BindingOfRule
  <2> QED
    BY <2>1 DEF CertificatesOf
<1> DEFINE ext        == CertificatesOf(ExtensionBinding(nn, AnnotationOf(nn, ExtensionKey)))
           rest       == IF HasAnnotation(nn, ExtensionKey) /\ ActiveRules(nn) # {} THEN ext ELSE {}
           raw(host)  == {<<h, TLSBinding(nn, h)[h]>> : h \in DOMAIN TLSBinding(nn, host)}
           cert(host) == CertificatesOf(TLSBinding(nn, host))
           raws       == UNION {raw(host) : host \in RuleHosts(nn)}
<1>2. Bindings(nn) = raws \union rest
  BY Zenon DEF Bindings, CertificatesOf, ExtensionKey
<1>3. \A host : raw(host) = cert(host)
  BY <1>1
<1>4. c \in raws <=> \E host \in RuleHosts(nn) : c \in raw(host)
  OBVIOUS
<1> HIDE DEF raw, cert, ext, raws
<1>5. c \in rest <=> HasAnnotation(nn, ExtensionKey) /\ ActiveRules(nn) # {} /\ c \in ext
  OBVIOUS
<1> HIDE DEF rest
<1>6. c \in Bindings(nn) <=> c \in raws \/ c \in rest
  BY <1>2
<1>7. c \in Bindings(nn) <=> (\E host \in RuleHosts(nn) : c \in cert(host)) \/ c \in rest
  BY <1>3, <1>4, <1>6
<1> QED
  BY <1>5, <1>7 DEF cert, ext

(* At the end the certificates are those of every rule and every extension. *)
LEMMA AllCertificates ==
  ASSUME IInv, ProgressInv, CertificatesBook, Done
  PROVE  /\ Certificates = UNION {Bindings(nn) : nn \in Ingresses}
         /\ OwnRoutes = UNION {{RouteId(nn, h) : h \in RuleHosts(nn)} : nn \in Ingresses}
<1>1. todo = {} /\ ~InTurn
  BY DEF ProgressInv, Done, InTurn
<1>2. /\ \A nn \in Ingresses : \A i : Begun(nn, i)
      /\ \A nn \in Ingresses : \A i, k : Over(nn, i, k)
  BY <1>1 DEF Begun, Over
<1>3. ASSUME NEW id \in OwnRoutes
      PROVE  id.ing \in Ingresses /\ id.host \in RuleHosts(id.ing) /\ id = RouteId(id.ing, id.host)
  <2>1. PICK i \in DOMAIN Ingress(id.ing).rules : id = RouteId(id.ing, HostOf(id.ing, i))
    BY DEF ProgressInv, OwnRoutes
  <2>2. id.host = HostOf(id.ing, i)
    BY <2>1 DEF RouteId
  <2> QED
    BY <2>1, <2>2 DEF RuleHosts, HostOf, OwnRoutes
<1>4. ASSUME NEW nn \in Ingresses, NEW h \in RuleHosts(nn)
      PROVE  /\ RouteId(nn, h) \in OwnRoutes
             /\ RouteId(nn, h).ing = nn /\ RouteId(nn, h).host = h
  <2>1. PICK i \in DOMAIN Ingress(nn).rules : h = HostOf(nn, i)
    BY DEF RuleHosts, HostOf
  <2>2. RouteId(nn, h) \in DOMAIN routes
    BY <1>2, <2>1 DEF ProgressInv
  <2> QED
    BY <2>2 DEF OwnRoutes, RouteId
<1>5. OwnRoutes = UNION {{RouteId(nn, h) : h \in RuleHosts(nn)} : nn \in Ingresses}
  BY <1>3, <1>4
<1>6. ASSUME NEW c
      PROVE  c \in RuleCertificates <=>
               \E nn \in Ingresses : \E host \in RuleHosts(nn) :
                 c \in CertificatesOf(TLSBinding(nn, host))
  <2>1. c \in RuleCertificates <=>
          \E id \in OwnRoutes : c \in CertificatesOf(TLSBinding(id.ing, id.host))
    BY DEF RuleCertificates
  <2> QED
    BY <1>3, <1>4, <2>1
<1>7. ASSUME NEW c
      PROVE  c \in ExtensionCertificates <=>
               \E nn \in Ingresses :
                 /\ HasAnnotation(nn, ExtensionKey) /\ ActiveRules(nn) # {}
                 /\ c \in CertificatesOf(ExtensionBinding(nn, AnnotationOf(nn, ExtensionKey)))
  <2>1. \A nn : nn \in Extended <=>
                  nn \in Ingresses /\ HasAnnotation(nn, ExtensionKey) /\ ActiveRules(nn) # {}
    BY <1>2 DEF Extended
  <2> QED
    BY <2>1 DEF ExtensionCertificates
<1>8. ASSUME NEW nn \in Ingresses, NEW c
      PROVE  c \in Bindings(nn) <=>
               \/ \E host \in RuleHosts(nn) : c \in CertificatesOf(TLSBinding(nn, host))
               \/ /\ HasAnnotation(nn, ExtensionKey) /\ ActiveRules(nn) # {}
                  /\ c \in CertificatesOf(ExtensionBinding(nn, AnnotationOf(nn, ExtensionKey)))
  BY InBindings
<1>9. \A c : c \in Certificates <=> \E nn \in Ingresses : c \in Bindings(nn)
  BY <1>6, <1>7, <1>8 DEF CertificatesBook
<1> QED
  BY <1>5, <1>9

(* The Gateway at the end is the one the Ingresses call for: one listener   *)
(* for each host that TLS or an extension covers, with the secrets of all   *)
(* Ingresses that bind it, a grant for every other namespace they come from *)
(* and the HTTP listener when something needs it.                           *)
THEOREM GatewaySafety == Spec => []GatewayAsDeclared
<1>1. IInv /\ ProgressInv /\ GatewayBook /\ CertificatesBook /\ RedirectInstalled => GatewayAsDeclared
  <2> SUFFICES ASSUME IInv, ProgressInv, GatewayBook, CertificatesBook, RedirectInstalled, Done
               PROVE  GatewayAsDeclared
    BY DEF GatewayAsDeclared
  <2> DEFINE bound == UNION {Bindings(nn) : nn \in Ingresses}
  <2>1. /\ Certificates = bound
        /\ OwnRoutes = UNION {{RouteId(nn, h) : h \in RuleHosts(nn)} : nn \in Ingresses}
    BY AllCertificates
  <2>2. todo = {} /\ phase = "done"
    BY DEF ProgressInv, Done
  <2>3. https = [h \in {b[1] : b \in bound} |-> {b[2] : b \in {c \in bound : c[1] = h}}]
    <3>1. \A c : c \in Certificates <=> \E h \in DOMAIN https : \E x \in https[h] : c = <<h, x>>
      BY DEF Certificates
    <3>2. ASSUME NEW h \in DOMAIN https
          PROVE  https[h] = {b[2] : b \in {c \in Certificates : c[1] = h}}
      <4>1. ASSUME NEW x \in https[h]
            PROVE  x \in {b[2] : b \in {c \in Certificates : c[1] = h}}
        <5>1. <<h, x>> \in Certificates /\ <<h, x>>[1] = h /\ <<h, x>>[2] = x
          BY <3>1, <4>1
        <5> QED
          BY <5>1
      <4>2. ASSUME NEW c \in Certificates, c[1] = h
            PROVE  c[2] \in https[h]
        BY <3>1, <4>2
      <4> QED
        BY <4>1, <4>2
    <3>3. ASSUME NEW h
          PROVE  h \in DOMAIN https <=> h \in {b[1] : b \in Certificates}
      <4>1. ASSUME h \in DOMAIN https
            PROVE  \E b \in Certificates : h = b[1]
        <5>1. PICK x : x \in https[h]
          BY <4>1 DEF IInv, TypeOK, GraphOK
        <5>2. <<h, x>> \in Certificates /\ <<h, x>>[1] = h
          BY <3>1, <4>1, <5>1
        <5> QED
          BY <5>2
      <4>2. ASSUME NEW b \in Certificates, h = b[1]
            PROVE  h \in DOMAIN https
        BY <3>1, <4>2
      <4> QED
        BY <4>1, <4>2
    <3>4. DOMAIN https = {b[1] : b \in Certificates}
      BY <3>3
    <3>5. https = [h \in DOMAIN https |-> https[h]]
      BY DEF GatewayBook, ListenersBook
    <3> QED
      BY <2>1, <3>2, <3>4, <3>5, Zenon
  <2>4. http = \E nn \in Ingresses :
                 \/ Ingress(nn).tls = <<>> /\ Ingress(nn).rules # <<>>
                 \/ HasAnnotation(nn, "ssl-redirect") /\ ActiveRules(nn) # {}
    <3>1. \A nn \in Ingresses : Ingress(nn).rules # <<>> <=> RuleHosts(nn) # {}
      <4>1. ASSUME NEW nn \in Ingresses
            PROVE  Ingress(nn).rules # <<>> <=> RuleHosts(nn) # {}
        <5>1. PICK rules : rules = Ingress(nn).rules
          OBVIOUS
        <5>2. PICK S : rules \in Seq(S)
          BY <5>1, RulesAssumption DEF Ingresses, Ingress, IsList, IInv, TypeOK, ProgressOK
        <5>3. rules # <<>> <=> DOMAIN rules # {}
          BY <5>2, EmptySeq, LenProperties
        <5> QED
          BY <5>1, <5>3 DEF RuleHosts
      <4> QED
        BY <4>1
    <3>2. \A nn, h : RouteId(nn, h).ing = nn
      BY DEF RouteId
    <3>3. (\E id \in OwnRoutes : Ingress(id.ing).tls = <<>>) <=>
            \E nn \in Ingresses : Ingress(nn).tls = <<>> /\ Ingress(nn).rules # <<>>
      <4>1. ASSUME NEW id \in OwnRoutes
            PROVE  id.ing \in Ingresses /\ RuleHosts(id.ing) # {}
        <5>1. PICK nn \in Ingresses : \E h \in RuleHosts(nn) : id = RouteId(nn, h)
          BY <2>1
        <5> QED
          BY <3>2, <5>1
      <4>2. ASSUME NEW nn \in Ingresses, RuleHosts(nn) # {}
            PROVE  \E id \in OwnRoutes : id.ing = nn
        <5>1. PICK h : h \in RuleHosts(nn)
          BY <4>2
        <5>2. RouteId(nn, h) \in OwnRoutes
          BY <2>1, <5>1
        <5> QED
          BY <3>2, <5>2
      <4> QED
        BY <3>1, <4>1, <4>2
    <3> QED
      BY <3>3 DEF GatewayBook, HTTPBook, RedirectInstalled
  <2>5. grants = {nn.ns : nn \in {m \in Ingresses :
                   \/ \E i \in DOMAIN Ingress(m).tls : Ingress(m).tls[i].secret # ""
                   \/ Bindings(m) # {}}} \ {GatewayNamespace}
    <3>1. ASSUME NEW nn \in Ingresses, NEW c \in Bindings(nn)
          PROVE  c[2].ns = nn.ns
      <4>1. ASSUME NEW b, c \in CertificatesOf(b), \A h \in DOMAIN b : b[h].ns = nn.ns
            PROVE  c[2].ns = nn.ns
        <5>1. PICK h \in DOMAIN b : c = <<h, b[h]>>
          BY <4>1 DEF CertificatesOf
        <5> QED
          BY <4>1, <5>1
      <4>2. ASSUME NEW host, c \in CertificatesOf(TLSBinding(nn, host))
            PROVE  c[2].ns = nn.ns
        BY <4>1, <4>2, BindingOfRule
      <4>3. ASSUME HasAnnotation(nn, ExtensionKey),
                   c \in CertificatesOf(ExtensionBinding(nn, AnnotationOf(nn, ExtensionKey)))
            PROVE  c[2].ns = nn.ns
        <5>1. PICK b : b = ExtensionBinding(nn, AnnotationOf(nn, ExtensionKey))
          OBVIOUS
        <5>2. \A h \in DOMAIN b : b[h].ns = nn.ns
          BY <4>3, <5>1, BindingOfExtension DEF IInv, TypeOK, ProgressOK
        <5> QED
          BY <4>1, <4>3, <5>1, <5>2
      <4> QED
        BY <3>1, <4>2, <4>3, InBindings
    <3>2. grants = ({nn.ns : nn \in {m \in Ingresses : HasSecret(m)}}
                      \union {c[2].ns : c \in bound}) \ {GatewayNamespace}
      BY <2>1, <2>2 DEF GatewayBook, GrantsBook
    <3>3. {c[2].ns : c \in bound} = {nn.ns : nn \in {m \in Ingresses : Bindings(m) # {}}}
      BY <3>1
    <3> QED
      BY <3>2, <3>3 DEF HasSecret
  <2>6. {gateway[i] : i \in DOMAIN gateway} = ListenerNames
    BY <2>2, BuiltAreEnsured DEF GatewayBook
  <2> QED
    BY <2>3, <2>4, <2>5, <2>6, Zenon DEF GatewayAsDeclared
<1> QED
  BY <1>1, Invariance, Progress, GatewayBookkeeping, RedirectSafety, PTL
-----------------------------------------------------------------------------
(* The rules of the routes.                                                  *)

(* What a handler does to a rule: at most the headers and the field of the  *)
(* rewrite it is for.                                                       *)
Rewritten(k, v, r, new) ==
  \/ new = r
  \/ k = "backend-hostname" /\ new = [r EXCEPT !.rewrite.host = v]
  \/ k = "backend-path-prefix" /\ new = [r EXCEPT !.rewrite.type = "prefix", !.rewrite.prefix = v]
  \/ k = RewriteKey /\ \E h : new = [r EXCEPT !.headers = h]
  \/ k = RewriteKey /\ \E h, full : new = [r EXCEPT !.headers = h, !.rewrite.type = "full",
                                                   !.rewrite.full = full]

LEMMA RewritesOnly ==
  ASSUME NEW k, NEW v, NEW r, NEW new, Rewritten(k, v, r, new),
         DOMAIN r = RuleFields, DOMAIN r.rewrite = RewriteFields
  PROVE  /\ new.svc = r.svc /\ new.port = r.port /\ new.path = r.path
         /\ DOMAIN new = DOMAIN r /\ DOMAIN new.rewrite = DOMAIN r.rewrite
         /\ new.rewrite.host \in {r.rewrite.host, v} /\ new.rewrite.prefix \in {r.rewrite.prefix, v}
         /\ k # "backend-hostname" => new.rewrite.host = r.rewrite.host
         /\ k # "backend-path-prefix" => new.rewrite.prefix = r.rewrite.prefix
<1> USE DEF RuleFields, RewriteFields, RewriteKey
<1>1. CASE new = r
  BY <1>1
<1>2. CASE k = "backend-hostname" /\ new = [r EXCEPT !.rewrite.host = v]
  BY <1>2
<1>3. CASE k = "backend-path-prefix" /\ new = [r EXCEPT !.rewrite.type = "prefix", !.rewrite.prefix = v]
  BY <1>3
<1>4. ASSUME NEW h, k = RewriteKey, new = [r EXCEPT !.headers = h]
      PROVE  new.rewrite = r.rewrite /\ DOMAIN new = DOMAIN r
             /\ new.svc = r.svc /\ new.port = r.port /\ new.path = r.path
  BY <1>4
<1>5. ASSUME NEW h, NEW full, k = RewriteKey,
             new = [r EXCEPT !.headers = h, !.rewrite.type = "full", !.rewrite.full = full]
      PROVE  /\ DOMAIN new.rewrite = DOMAIN r.rewrite /\ DOMAIN new = DOMAIN r
             /\ new.svc = r.svc /\ new.port = r.port /\ new.path = r.path
             /\ new.rewrite.host = r.rewrite.host /\ new.rewrite.prefix = r.rewrite.prefix
  BY <1>5
<1> QED
  BY <1>1, <1>2, <1>3, <1>4, <1>5 DEF Rewritten

(* The same of the current route, and of all others nothing.                *)
LEMMA RulesEffect ==
  ASSUME IInv, ProgressInv, RulesServed, NEW k, Effect(k)
  PROVE  /\ ThisRouteId \in OwnRoutes
         /\ \A id \in OwnRoutes :
              \/ routes'[id].rules = routes[id].rules /\ (k \in RuleKeys \ {RewriteKey} => id # ThisRouteId)
              \/ /\ id = ThisRouteId /\ IsList(routes'[id].rules)
                 /\ DOMAIN routes'[id].rules = DOMAIN routes[id].rules
                 /\ \A i \in DOMAIN routes[id].rules :
                      /\ Rewritten(k, Value(k), routes[id].rules[i], routes'[id].rules[i])
                      /\ k = "backend-hostname" => routes'[id].rules[i].rewrite.host = Value(k)
                      /\ k = "backend-path-prefix" => routes'[id].rules[i].rewrite.prefix = Value(k)
<1>1. phase = "annotations"
  BY DEF Effect, Take
<1>2. ThisRouteId \in OwnRoutes
  BY <1>1, CurrentRoute DEF OwnRoutes, RouteId
<1>3. ASSUME NEW new, IsList(ThisRoute.rules) => IsList(new), ModifyRules(new),
             DOMAIN new = DOMAIN ThisRoute.rules,
             \A i \in DOMAIN new :
               /\ Rewritten(k, Value(k), ThisRoute.rules[i], new[i])
               /\ k = "backend-hostname" => new[i].rewrite.host = Value(k)
               /\ k = "backend-path-prefix" => new[i].rewrite.prefix = Value(k),
             NEW id \in OwnRoutes
      PROVE  \/ routes'[id].rules = routes[id].rules /\ id # ThisRouteId
             \/ /\ id = ThisRouteId /\ IsList(routes'[id].rules)
                /\ DOMAIN routes'[id].rules = DOMAIN routes[id].rules
                /\ \A i \in DOMAIN routes[id].rules :
                     /\ Rewritten(k, Value(k), routes[id].rules[i], routes'[id].rules[i])
                     /\ k = "backend-hostname" => routes'[id].rules[i].rewrite.host = Value(k)
                     /\ k = "backend-path-prefix" => routes'[id].rules[i].rewrite.prefix = Value(k)
  <2>1. id \in DOMAIN routes /\ DOMAIN routes[id] = HTTPRouteFields /\ IsList(routes[id].rules)
    BY DEF OwnRoutes, IInv, TypeOK, GraphOK, RulesServed, WellFormed
  <2>2. CASE id # ThisRouteId
    BY <1>3, <2>1, <2>2 DEF ModifyRules
  <2>3. CASE id = ThisRouteId
    <3>1. routes'[id].rules = new
      BY <1>3, <2>1, <2>3 DEF ModifyRules, HTTPRouteFields
    <3> QED
      BY <1>3, <2>1, <2>3, <3>1 DEF ThisRoute
  <2> QED
    BY <2>2, <2>3
<1> DEFINE old == ThisRoute.rules
<1>4. /\ DOMAIN old = 1 .. Len(old) /\ Len(old) \in Nat
      /\ \A i \in DOMAIN old : DOMAIN old[i] = RuleFields /\ DOMAIN old[i].rewrite = RewriteFields
  BY <1>2, ListDomain DEF RulesServed, WellFormed, ThisRoute
<1> HIDE DEF old
<1>5. ASSUME NEW new, new = [i \in DOMAIN old |-> new[i]]
      PROVE  IsList(new) /\ DOMAIN new = DOMAIN old
  BY <1>4, <1>5, ListMade
<1>6. CASE k = "backend-hostname" /\ handleBackendHostnameRewrite
  <2>1. PICK v, new : v = Value(k) /\ new = [i \in DOMAIN old |-> [old[i] EXCEPT !.rewrite.host = v]]
    OBVIOUS
  <2>2. ModifyRules(new)
    BY <1>6, <2>1 DEF handleBackendHostnameRewrite, old
  <2>3. \A i \in DOMAIN new : new[i] = [old[i] EXCEPT !.rewrite.host = v]
    BY <2>1
  <2>4. new = [i \in DOMAIN old |-> new[i]]
    BY <2>1
  <2>5. IsList(new) /\ DOMAIN new = DOMAIN old
    BY <1>5, <2>4
  <2>6. ASSUME NEW i \in DOMAIN new
        PROVE  Rewritten(k, v, old[i], new[i]) /\ new[i].rewrite.host = v
    <3>1. PICK r : r = old[i] /\ DOMAIN r = RuleFields /\ DOMAIN r.rewrite = RewriteFields
      BY <1>4, <2>5
    <3>2. new[i] = [r EXCEPT !.rewrite.host = v]
      BY <2>3, <3>1
    <3>3. new[i].rewrite.host = v
      BY <3>1, <3>2 DEF RuleFields, RewriteFields
    <3> QED
      BY <1>6, <3>1, <3>2, <3>3 DEF Rewritten
  <2> QED
    BY <1>2, <1>3, <1>6, <2>1, <2>2, <2>5, <2>6 DEF old
<1>7. CASE k = "backend-path-prefix" /\ handleBackendPathPrefix
  <2>1. PICK v, new : /\ v = Value(k)
                      /\ new = [i \in DOMAIN old |-> [old[i] EXCEPT !.rewrite.type = "prefix",
                                                                   !.rewrite.prefix = v]]
    OBVIOUS
  <2>2. ModifyRules(new)
    BY <1>7, <2>1 DEF handleBackendPathPrefix, old
  <2>3. \A i \in DOMAIN new : new[i] = [old[i] EXCEPT !.rewrite.type = "prefix", !.rewrite.prefix = v]
    BY <2>1
  <2>4. new = [i \in DOMAIN old |-> new[i]]
    BY <2>1
  <2>5. IsList(new) /\ DOMAIN new = DOMAIN old
    BY <1>5, <2>4
  <2>6. ASSUME NEW i \in DOMAIN new
        PROVE  Rewritten(k, v, old[i], new[i]) /\ new[i].rewrite.prefix = v
    <3>1. PICK r : r = old[i] /\ DOMAIN r = RuleFields /\ DOMAIN r.rewrite = RewriteFields
      BY <1>4, <2>5
    <3>2. new[i] = [r EXCEPT !.rewrite.type = "prefix", !.rewrite.prefix = v]
      BY <2>3, <3>1
    <3>3. new[i].rewrite.prefix = v
      BY <3>1, <3>2 DEF RuleFields, RewriteFields
    <3> QED
      BY <1>7, <3>1, <3>2, <3>3 DEF Rewritten
  <2> QED
    BY <1>2, <1>3, <1>7, <2>1, <2>2, <2>5, <2>6 DEF old
<1>8. CASE k = RewriteKey /\ handleRewriteRuleSetCustomResource
  <2>1. PICK h, full, new :
          /\ new = [i \in DOMAIN old |->
                IF full = "none" THEN [old[i] EXCEPT !.headers = @ \o h]
                ELSE [old[i] EXCEPT !.headers = @ \o h, !.rewrite.type = "full", !.rewrite.full = full]]
          /\ ModifyRules(new)
    BY <1>8, Zenon DEF handleRewriteRuleSetCustomResource, old
  <2>2. \A i \in DOMAIN new :
          \/ new[i] = [old[i] EXCEPT !.headers = old[i].headers \o h]
          \/ new[i] = [old[i] EXCEPT !.headers = old[i].headers \o h, !.rewrite.type = "full",
                                     !.rewrite.full = full]
    BY <2>1
  <2>3. new = [i \in DOMAIN old |-> new[i]]
    BY <2>1
  <2>4. IsList(new) /\ DOMAIN new = DOMAIN old
    BY <1>5, <2>3
  <2>5. \A v : \A i \in DOMAIN new : Rewritten(k, v, old[i], new[i])
    BY <1>8, <2>2, <2>4 DEF Rewritten
  <2> QED
    BY <1>2, <1>3, <1>8, <2>1, <2>4, <2>5 DEF old, RewriteKey
<1>9. CASE (k \notin RuleKeys /\ RulesSame) \/ (k = RewriteKey /\ RewriteNotFound)
  BY <1>2, <1>9 DEF RulesSame, RewriteNotFound, graphVars
<1> QED
  BY <1>6, <1>7, <1>8, <1>9 DEF Effect

(* A handler leaves the backends of the rules as they are.                  *)
LEMMA EffectServes ==
  ASSUME IInv, ProgressInv, RulesServed, NEW k, Effect(k)
  PROVE  RulesServed'
<1>1. RoutesKept /\ UNCHANGED <<input, phase, todo, cur, rule>>
  BY DEF Effect, Finish, progressVars
<1>2. ASSUME NEW id \in OwnRoutes
      PROVE  Retouched(routes[id].rules, routes'[id].rules)
  <2>1. WellFormed(routes[id].rules)
    BY DEF RulesServed
  <2>2. PICK v, old, new : v = Value(k) /\ old = routes[id].rules /\ new = routes'[id].rules
    OBVIOUS
  <2>3. \/ new = old
        \/ /\ IsList(new) /\ DOMAIN new = DOMAIN old
           /\ \A i \in DOMAIN old : Rewritten(k, v, old[i], new[i])
    BY <2>2, RulesEffect
  <2>4. \A i \in DOMAIN old : DOMAIN old[i] = RuleFields /\ DOMAIN old[i].rewrite = RewriteFields
    BY <2>1, <2>2 DEF WellFormed
  <2>5. CASE new = old
    BY <2>2, <2>5 DEF Retouched
  <2>6. CASE new # old
    BY <2>2, <2>3, <2>4, <2>6, RewritesOnly DEF Retouched
  <2> QED
    BY <2>5, <2>6
<1> QED
  BY <1>1, <1>2, HandlerServes

(* At every moment the rules of a route are the usable backends of those    *)
(* rules of its host that have begun, none lost, repeated or reordered,     *)
(* whichever handlers have run over them.                                   *)
THEOREM ServedBackends == Spec => []RulesServed
<1>1. Init => RulesServed
  BY InitServes
<1>2. IInv /\ ProgressInv /\ RulesServed /\ [Next]_vars => RulesServed'
  BY NextEffect, EffectServes, QuietServes
<1> QED
  BY <1>1, <1>2, Invariance, Progress, PTL DEF Spec

-----------------------------------------------------------------------------
(* The rewrites of the rules.                                                *)

RewriteOf(k, r) == IF k = "backend-hostname" THEN r.rewrite.host ELSE r.rewrite.prefix

(* Then all rules of the route have its value.                              *)
RewriteBook ==
  \A id \in OwnRoutes : \A k \in RuleKeys \ {RewriteKey} :
    HasAnnotation(id.ing, k) /\ HandledFor(id, k) =>
      \A i \in DOMAIN routes[id].rules :
        RewriteOf(k, routes[id].rules[i]) = AnnotationOf(id.ing, k)

LEMMA RewriteStepBook ==
  ASSUME IInv, ProgressInv, RulesServed, RewriteBook, [Next]_vars
  PROVE  RewriteBook'
<1>1. \A nn \in Ingresses : \A m \in ActiveRules(nn) : m \in Nat /\ Position(nn) \in Nat
  BY RulesNumbered, PositionRange DEF IInv, TypeOK, ProgressOK, RulesServed, ActiveRules
<1>2. ASSUME NEW k, Effect(k)
      PROVE  RewriteBook'
  <2>1. /\ \A nn \in Ingresses : \A i \in ActiveRules(nn) : \A j :
              Over(nn, i, j)' <=> Over(nn, i, j) \/ (nn = cur /\ i = rule /\ j = k)
        /\ phase = "annotations" /\ HasAnnotation(cur, k) /\ Value(k) = AnnotationOf(cur, k)
        /\ UNCHANGED <<input, phase, todo, cur, rule>> /\ OwnRoutes' = OwnRoutes
    BY <1>2, EffectHandled, HandledProgress, OwnRoutesKept DEF Effect
  <2>2. /\ cur \in Ingresses /\ rule \in ActiveRules(cur)
        /\ ThisRouteId = RouteId(cur, HostOf(cur, rule))
    BY <2>1, CurrentRoute
  <2>3. /\ \A nn : Position(nn)' = Position(nn)
        /\ \A nn : ActiveRules(nn)' = ActiveRules(nn)
        /\ \A nn, j : HasAnnotation(nn, j)' = HasAnnotation(nn, j) /\ AnnotationOf(nn, j)' = AnnotationOf(nn, j)
        /\ \A nn, m : HostOf(nn, m)' = HostOf(nn, m)
    BY <2>1, SamePositions DEF Ingress, ActiveRules, HasAnnotation, AnnotationOf, HostOf
  <2>4. ASSUME NEW id \in OwnRoutes, NEW j \in RuleKeys \ {RewriteKey},
               HasAnnotation(id.ing, j), HandledFor(id, j)'
        PROVE  \A i \in DOMAIN routes'[id].rules :
                 RewriteOf(j, routes'[id].rules[i]) = AnnotationOf(id.ing, j)
    <3>1. id.ing \in Ingresses /\ WellFormed(routes[id].rules)
      BY DEF OwnRoutes, RulesServed
    <3>2. PICK v, old, new : v = Value(k) /\ old = routes[id].rules /\ new = routes'[id].rules
      OBVIOUS
    <3>3. \/ new = old /\ (k \in RuleKeys \ {RewriteKey} => id # ThisRouteId)
          \/ /\ id = ThisRouteId /\ DOMAIN new = DOMAIN old
             /\ \A i \in DOMAIN old :
                  /\ Rewritten(k, v, old[i], new[i])
                  /\ k = "backend-hostname" => new[i].rewrite.host = v
                  /\ k = "backend-path-prefix" => new[i].rewrite.prefix = v
      BY <1>2, <3>2, RulesEffect
    <3>4. DOMAIN new = DOMAIN old
      BY <3>3
    <3>5. CASE id = ThisRouteId /\ j = k
      <4>1. id.ing = cur /\ v = AnnotationOf(id.ing, j)
        BY <2>1, <2>2, <3>2, <3>5 DEF RouteId
      <4>2. \A i \in DOMAIN old : RewriteOf(j, new[i]) = v
        BY <3>3, <3>5 DEF RewriteOf, RuleKeys
      <4> QED
        BY <3>2, <3>4, <4>1, <4>2
    <3>6. CASE ~(id = ThisRouteId /\ j = k)
      <4>1. \A i \in DOMAIN old : RewriteOf(j, new[i]) = RewriteOf(j, old[i])
        <5>1. CASE new = old
          BY <5>1
        <5>2. CASE new # old
          <6>1. id = ThisRouteId /\ j # k /\ \A i \in DOMAIN old : Rewritten(k, v, old[i], new[i])
            BY <3>3, <3>6, <5>2
          <6>2. \A i \in DOMAIN old : DOMAIN old[i] = RuleFields /\ DOMAIN old[i].rewrite = RewriteFields
            BY <3>1, <3>2 DEF WellFormed
          <6>3. \A i \in DOMAIN old :
                  /\ k # "backend-hostname" => new[i].rewrite.host = old[i].rewrite.host
                  /\ k # "backend-path-prefix" => new[i].rewrite.prefix = old[i].rewrite.prefix
            BY <6>1, <6>2, RewritesOnly
          <6> QED
            BY <6>1, <6>3 DEF RewriteOf, RuleKeys
        <5> QED
          BY <5>1, <5>2
      <4>2. HandledFor(id, j)
        <5>1. ASSUME NEW m \in ActiveRules(id.ing), HostOf(id.ing, m) = id.host, m <= Position(id.ing)
              PROVE  Over(id.ing, m, j)
          <6>1. Over(id.ing, m, j)'
            BY <2>3, <2>4, <5>1 DEF HandledFor
          <6>2. Over(id.ing, m, j) \/ (id.ing = cur /\ m = rule /\ j = k)
            BY <2>1, <3>1, <6>1
          <6>3. id.ing = cur /\ m = rule => id = ThisRouteId
            <7>1. PICK n : id = RouteId(id.ing, HostOf(id.ing, n))
              BY <3>1 DEF ProgressInv, OwnRoutes
            <7>2. id = RouteId(id.ing, id.host)
              BY <7>1 DEF RouteId
            <7> QED
              BY <2>2, <5>1, <7>2
          <6> QED
            BY <3>6, <6>2, <6>3
        <5> QED
          BY <5>1 DEF HandledFor
      <4> QED
        BY <2>4, <3>2, <3>4, <4>1, <4>2 DEF RewriteBook
    <3> QED
      BY <3>5, <3>6
  <2> QED
    BY <2>1, <2>3, <2>4 DEF RewriteBook, RewriteOf
<1>3. CASE (EngineStep /\ ~handleIgnoredAnnotation) \/ UNCHANGED vars
  <2>1. SameTurns /\ input' = input /\ (BeginRule \/ OwnRoutes' = OwnRoutes)
    BY <1>3, QuietProgress DEF SameAskers
  <2>2. /\ \A nn : ActiveRules(nn)' = ActiveRules(nn)
        /\ \A nn, j : HasAnnotation(nn, j)' = HasAnnotation(nn, j) /\ AnnotationOf(nn, j)' = AnnotationOf(nn, j)
        /\ \A nn, m : HostOf(nn, m)' = HostOf(nn, m)
    BY <2>1 DEF Ingress, ActiveRules, HasAnnotation, AnnotationOf, HostOf
  <2>3. ASSUME NEW id \in OwnRoutes, NEW j, HasAnnotation(id.ing, j), HandledFor(id, j)',
               \/ Position(id.ing)' = Position(id.ing)
               \/ Position(id.ing)' \in Nat /\ Position(id.ing) <= Position(id.ing)'
        PROVE  HandledFor(id, j)
    <3>1. id.ing \in Ingresses /\ j \in DOMAIN Ingress(id.ing).annos
      BY <2>3 DEF OwnRoutes, HasAnnotation
    <3>2. ASSUME NEW m \in ActiveRules(id.ing), HostOf(id.ing, m) = id.host, m <= Position(id.ing)
          PROVE  Over(id.ing, m, j)
      <4>1. m <= Position(id.ing)'
        BY <1>1, <2>3, <3>1, <3>2
      <4>2. Over(id.ing, m, j)'
        BY <2>2, <2>3, <3>2, <4>1 DEF HandledFor
      <4> QED
        BY <2>1, <3>1, <4>2 DEF SameTurns
    <3> QED
      BY <3>2 DEF HandledFor
  <2>4. CASE BeginRule
    <3>1. PICK id : RulesAdded(id)
      BY <2>4, BeginRuleRules DEF RulesServed
    <3>2. PICK me, at : me \in Ingresses /\ me = cur /\ at = rule /\ me \notin todo
                                    /\ at \in DOMAIN Ingress(me).rules
      BY <3>1 DEF RulesAdded, IInv, TypeOK, ProgressOK
    <3>3. /\ OwnRoutes' = OwnRoutes \union {id} /\ id = RouteId(me, HostOf(me, at))
          /\ Position(me) = at - 1 /\ at \in Nat
          /\ \A nn \in Ingresses : Position(nn)' = IF nn = me THEN at ELSE Position(nn)
          /\ \A x \in OwnRoutes : x # id => routes'[x] = routes[x]
          /\ UNCHANGED <<todo, cur>>
          /\ at \in ActiveRules(me) => phase' = "annotations" /\ rule' = rule
                                       /\ pending' = DOMAIN Ingress(me).annos
          /\ routes'[id].rules =
               LET old == IF id \in OwnRoutes THEN routes[id].rules ELSE <<>>
               IN  IF at \in ActiveRules(me)
                     THEN old \o RulesOf(Ingress(me).rules[at].paths) ELSE old
      BY <3>1, <3>2, RulesNumbered DEF RulesAdded, IInv, TypeOK, ProgressOK
    <3>4. \A nn \in Ingresses :
            \/ Position(nn)' = Position(nn)
            \/ Position(nn)' \in Nat /\ Position(nn) <= Position(nn)'
      BY <3>3
    <3>5. ASSUME NEW x \in OwnRoutes', NEW j \in RuleKeys \ {RewriteKey},
                 HasAnnotation(x.ing, j), HandledFor(x, j)'
          PROVE  \A i \in DOMAIN routes'[x].rules :
                   RewriteOf(j, routes'[x].rules[i]) = AnnotationOf(x.ing, j)
      <4>1. CASE x \in OwnRoutes /\ routes'[x].rules = routes[x].rules
        <5>1. x.ing \in Ingresses
          BY <4>1 DEF OwnRoutes
        <5>2. HandledFor(x, j)
          BY <2>3, <3>4, <3>5, <4>1, <5>1
        <5> QED
          BY <3>5, <4>1, <5>2 DEF RewriteBook
      <4>2. CASE x = id /\ at \in ActiveRules(me)
        <5>1. x.ing = me /\ x.host = HostOf(me, at)
          BY <3>3, <4>2 DEF RouteId
        <5>2. Over(me, at, j)'
          <6>1. at <= Position(me)'
            BY <3>2, <3>3
          <6> QED
            BY <2>2, <3>5, <4>2, <5>1, <6>1 DEF HandledFor
        <5>3. j \in pending' /\ InTurn' /\ rule' = at /\ cur' = me
          BY <3>2, <3>3, <3>5, <4>2, <5>1 DEF HasAnnotation, InTurn
        <5> QED
          BY <3>3, <5>2, <5>3 DEF Over
      <4>3. CASE x = id /\ at \notin ActiveRules(me) /\ x \notin OwnRoutes
        <5>1. routes'[x].rules = <<>>
          BY <3>3, <4>3
        <5>2. DOMAIN <<>> = {}
          OBVIOUS
        <5> QED
          BY <5>1, <5>2
      <4> QED
        BY <3>3, <4>1, <4>2, <4>3
    <3> QED
      BY <2>2, <3>5 DEF RewriteBook, RewriteOf
  <2>5. CASE OwnRoutes' = OwnRoutes /\ ~BeginRule
    <3>1. UNCHANGED routes /\ \A nn \in Ingresses : Position(nn)' = Position(nn)
      <4>1. CASE UNCHANGED vars
        BY <4>1, SamePositions DEF vars, engineVars, progressVars, graphVars
      <4>2. CASE EngineStep /\ ~handleIgnoredAnnotation
        <5>1. Setup \/ (\E nn \in todo : BeginIngress(nn)) \/ EndRule \/ EndIngress \/ Build
          BY <2>5, <4>2 DEF EngineStep, EngineNext
        <5>2. UNCHANGED routes
          BY <5>1 DEF Setup, BeginIngress, EndRule, EndIngress, Build, graphVars
        <5> QED
          BY <5>1, <5>2, TurnPosition DEF RulesServed
      <4> QED
        BY <1>3, <4>1, <4>2
    <3>2. ASSUME NEW x \in OwnRoutes, NEW j \in RuleKeys \ {RewriteKey},
                 HasAnnotation(x.ing, j), HandledFor(x, j)'
          PROVE  \A i \in DOMAIN routes[x].rules :
                   RewriteOf(j, routes[x].rules[i]) = AnnotationOf(x.ing, j)
      <4>1. x.ing \in Ingresses
        BY DEF OwnRoutes
      <4>2. HandledFor(x, j)
        BY <2>3, <3>1, <3>2, <4>1
      <4> QED
        BY <3>2, <4>2 DEF RewriteBook
    <3> QED
      BY <2>2, <2>5, <3>1, <3>2 DEF RewriteBook, RewriteOf
  <2> QED
    BY <2>1, <2>4, <2>5
<1> QED
  BY <1>2, <1>3, NextEffect

(* Every rule of every route of an Ingress ends up with the rewrites of the *)
(* Ingress, also the rules that a repeated host added after a first round   *)
(* of handlers: the round of its last rule goes over all of them.           *)
THEOREM RewriteSafety == Spec => []RewritesCoverAllRules
<1>1. Init => RewriteBook
  <2>1. Init => DOMAIN routes = {}
    BY Zenon DEF Init, EngineInit
  <2> QED
    BY <2>1 DEF RewriteBook, OwnRoutes
<1>2. IInv /\ ProgressInv /\ RulesServed /\ RewriteBook /\ [Next]_vars => RewriteBook'
  BY RewriteStepBook
<1>3. IInv /\ ProgressInv /\ RewriteBook => RewritesCoverAllRules
  <2>1. ASSUME IInv, ProgressInv, RewriteBook, Done, NEW p \in ActivePairs,
               NEW i \in DOMAIN routes[PairId(p)].rules
        PROVE  LET r == routes[PairId(p)].rules[i]
                   asked(k, value) == HasAnnotation(p[1], k) => value = AnnotationOf(p[1], k)
               IN  /\ asked("backend-hostname", r.rewrite.host)
                   /\ asked("backend-path-prefix", r.rewrite.prefix)
    <3>3. todo = {} /\ ~InTurn
      BY <2>1 DEF ProgressInv, Done, InTurn
    <3>4. PairId(p) \in OwnRoutes /\ PairId(p).ing = p[1] /\ p[1] \in Ingresses
      BY <2>1, RoutesAtEnd
    <3>5. \A k : HandledFor(PairId(p), k)
      BY <3>3, <3>4 DEF HandledFor, Over
    <3>6. \A k \in RuleKeys \ {RewriteKey} : HasAnnotation(p[1], k) =>
            RewriteOf(k, routes[PairId(p)].rules[i]) = AnnotationOf(p[1], k)
      BY <2>1, <3>4, <3>5 DEF RewriteBook
    <3>7. /\ HasAnnotation(p[1], "backend-hostname") =>
               routes[PairId(p)].rules[i].rewrite.host = AnnotationOf(p[1], "backend-hostname")
          /\ HasAnnotation(p[1], "backend-path-prefix") =>
               routes[PairId(p)].rules[i].rewrite.prefix = AnnotationOf(p[1], "backend-path-prefix")
      BY <3>6 DEF RewriteOf, RuleKeys, RewriteKey
    <3> QED
      BY <3>7
  <2> QED
    BY <2>1 DEF RewritesCoverAllRules
<1> QED
  BY <1>1, <1>2, <1>3, Invariance, Progress, ServedBackends, PTL DEF Spec

-----------------------------------------------------------------------------
(* The routes of the graph.                                                  *)

(* The graph names the route of every rule that has been through, and no    *)
(* other route of an Ingress: the redirect route comes and goes unnoticed.  *)
THEOREM GraphBookkeeping == Spec => []GraphBook
<1>1. Init => GraphBook
  BY InitGraph
<1>2. IInv /\ ProgressInv /\ RulesServed /\ GraphBook /\ [Next]_vars => GraphBook'
  <2>1. ASSUME IInv, ProgressInv, RulesServed, GraphBook, NEW k, Effect(k)
        PROVE  GraphBook'
    <3>1. UNCHANGED <<input, phase, todo, cur, rule>>
      BY <2>1 DEF Effect, Finish, progressVars
    <3>2. CASE k = "ssl-redirect" /\ handleSSLRedirect
      <4>1. graphRoutes' = InsertAt(graphRoutes, RedirectNN, RedirectId)
        BY <3>2 DEF handleSSLRedirect
      <4> QED
        BY <2>1, <3>1, <4>1, HandlerGraph DEF InsertAt
    <3>3. CASE UNCHANGED graphRoutes
      BY <2>1, <3>1, <3>3, HandlerGraph
    <3>4. RepeatedSSLRedirect => UNCHANGED graphRoutes
      BY DEF RepeatedSSLRedirect, graphVars
    <3> QED
      BY <2>1, <3>2, <3>3, <3>4 DEF Effect
  <2> QED
    BY <2>1, NextEffect, QuietGraph DEF RulesServed
<1> QED
  BY <1>1, <1>2, Invariance, Progress, ServedBackends, PTL DEF Spec

(* Provided no two routes get the same name, the graph at the end holds     *)
(* exactly one route for every host with an HTTP rule, and its rules are    *)
(* the usable backends of that host, none lost, repeated or reordered.      *)
THEOREM RouteSafety == Spec => []RoutesAsDeclared
<1>1. IInv /\ ProgressInv /\ RulesServed /\ GraphBook => RoutesAsDeclared
  <2>1. ASSUME IInv, ProgressInv, RulesServed, GraphBook, Done, NamesAreUnique
        PROVE  /\ DOMAIN graphRoutes \ {RedirectNN} = {PairNN(p) : p \in ActivePairs}
               /\ \A p \in ActivePairs :
                    LET declared == DeclaredBackends(p[1], p[2])
                        stored   == routes[graphRoutes[PairNN(p)]].rules
                    IN  /\ DOMAIN stored = DOMAIN declared
                        /\ \A i \in DOMAIN stored :
                             /\ stored[i].svc = declared[i].svc
                             /\ stored[i].port = declared[i].port
                             /\ stored[i].path = declared[i].path
    <3>1. /\ DOMAIN graphRoutes \ {RedirectNN} = {PairNN(p) : p \in ActivePairs}
          /\ \A p \in ActivePairs : graphRoutes[PairNN(p)] = PairId(p)
      BY <2>1, GraphAtEnd DEF RulesServed
    <3>2. ASSUME NEW p \in ActivePairs
          PROVE  Serve(routes[PairId(p)].rules, DeclaredBackends(p[1], p[2]))
      <4>1. PairId(p) \in OwnRoutes /\ BackendsSofar(PairId(p)) = DeclaredBackends(p[1], p[2])
        BY <2>1, RoutesAtEnd
      <4> QED
        BY <2>1, <4>1 DEF RulesServed
    <3> QED
      BY <3>1, <3>2 DEF Serve
  <2> QED
    BY <2>1 DEF RoutesAsDeclared
<1> QED
  BY <1>1, GraphBookkeeping, Invariance, Progress, ServedBackends, PTL

-----------------------------------------------------------------------------
(* Who registers a health probe conflict.                                    *)

HealthConflict == "HealthCheckConflict"

(* An annotation context without one.                                       *)
Conflictless(a) ==
  /\ DOMAIN a = {"status", "issues", "dests"}
  /\ HealthConflict \notin a.issues

(* No operation of the bookkeeping adds one, but registering it.            *)
LEMMA ConflictlessKept ==
  ASSUME NEW a, Conflictless(a)
  PROVE  /\ \A s : Conflictless(SetStatus(a, s))
         /\ \A code : code # HealthConflict => Conflictless(RegisterIssue(a, code))
         /\ \A set : Conflictless([a EXCEPT !.dests = @ \union set])
         /\ \A d : Conflictless(AddDestination(a, d))
         /\ \A set : Conflictless(AddDestinations(a, set))
<1>1. ASSUME NEW b, Conflictless(b), NEW s
      PROVE  Conflictless(SetStatus(b, s))
  BY <1>1 DEF Conflictless, SetStatus
<1>2. ASSUME NEW code, code # HealthConflict
      PROVE  Conflictless(RegisterIssue(a, code))
  <2>1. PICK b : b = [a EXCEPT !.issues = @ \union {code}]
    OBVIOUS
  <2>2. Conflictless(b)
    BY <1>2, <2>1 DEF Conflictless
  <2> QED
    BY <1>1, <2>1, <2>2 DEF RegisterIssue
<1>3. ASSUME NEW set
      PROVE  Conflictless([a EXCEPT !.dests = @ \union set])
  BY DEF Conflictless
<1>4. ASSUME NEW d
      PROVE  Conflictless(AddDestination(a, d))
  BY <1>1, <1>3 DEF AddDestination
<1>5. ASSUME NEW set
      PROVE  Conflictless(AddDestinations(a, set))
  BY <1>1, <1>3 DEF AddDestinations
<1> QED
  BY <1>1, <1>2, <1>3, <1>4, <1>5

(* Only the health probe handlers register one.                             *)
LEMMA OthersDoNotConflict ==
  ASSUME IInv, [Next]_vars, NEW nn \in Ingresses, NEW j \in DOMAIN anno[nn],
         j \notin HealthKeys, Conflictless(anno[nn][j])
  PROVE  Conflictless(anno'[nn][j])
<1>1. ASSUME NEW k, NEW a, NEW err, Take(k), Finish(k, a, err),
             k \in HealthKeys \/ (Conflictless(Anno(k)) => Conflictless(a))
      PROVE  Conflictless(anno'[nn][j])
  BY <1>1, OneAnnotation DEF Anno
<1> USE DEF HealthConflict
<1>2. CASE EngineStep /\ handleIgnoredAnnotation
  BY <1>1, <1>2, ConflictlessKept DEF handleIgnoredAnnotation
<1>3. CASE (EngineStep /\ ~handleIgnoredAnnotation) \/ UNCHANGED vars
  <2>1. anno' = anno
    BY <1>3 DEF EngineStep, EngineNext, Setup, BeginIngress, BeginRule, EndRule, EndIngress, Build,
       vars, engineVars
  <2> QED
    BY <2>1
<1>4. CASE Unsupported
  BY <1>1, <1>4, ConflictlessKept DEF Unsupported, UnsupportedAnnotation
<1>5. CASE handleHostNameExtension \/ handleBackendHostnameRewrite \/ handleBackendPathPrefix
           \/ DisabledAffinity \/ PlainBackendProtocol
  <2>1. PICK k : Take(k) /\ Finish(k, SetStatus(Anno(k), Completed), FALSE)
    BY <1>5, Zenon DEF handleHostNameExtension, handleBackendHostnameRewrite, handleBackendPathPrefix,
       DisabledAffinity, PlainBackendProtocol
  <2> QED
    BY <1>1, <2>1, ConflictlessKept
<1>6. CASE handleSSLRedirect \/ handleRequestTimeout \/ handleCookieBasedAffinity
  <2>1. PICK k, d : Take(k) /\ Finish(k, AddDestination(Anno(k), d), FALSE)
    BY <1>6, Zenon DEF handleSSLRedirect, handleRequestTimeout, handleCookieBasedAffinity
  <2> QED
    BY <1>1, <2>1, ConflictlessKept
<1>7. CASE RepeatedSSLRedirect
  BY <1>1, <1>7 DEF RepeatedSSLRedirect
<1>8. CASE NoHTTPSListeners \/ RewriteNotFound \/ handleAppGWTrustedRootCertificates
           \/ \E k \in pending : InvalidRouteSetting(k)
  <2>1. PICK k, code, err : Take(k) /\ Finish(k, RegisterIssue(Anno(k), code), err)
                            /\ code # HealthConflict
    <3>1. NoHTTPSListeners =>
            \E k : Take(k) /\ Finish(k, RegisterIssue(Anno(k), "NoHTTPSListenersForSSLProfile"), FALSE)
      BY DEF NoHTTPSListeners
    <3>2. RewriteNotFound =>
            \E k : Take(k) /\ Finish(k, RegisterIssue(Anno(k), "CouldNotFindRewrite"), TRUE)
      BY DEF RewriteNotFound
    <3>3. handleAppGWTrustedRootCertificates =>
            \E k : Take(k) /\ Finish(k, RegisterIssue(Anno(k), "TrustedRootCertificates"), FALSE)
      BY DEF handleAppGWTrustedRootCertificates
    <3>4. (\E k \in pending : InvalidRouteSetting(k)) =>
            \E k : Take(k) /\ Finish(k, RegisterIssue(Anno(k), "InvalidAnnotationValue"), TRUE)
      BY DEF InvalidRouteSetting
    <3> QED
      BY <1>8, <3>1, <3>2, <3>3, <3>4
  <2> QED
    BY <1>1, <2>1, ConflictlessKept
<1>9. CASE handleAppGWSSLProfile
  <2>1. PICK k, a, set, conflict :
          /\ Take(k)
          /\ a = (IF set = {} THEN Anno(k)
                  ELSE [RegisterIssue(Anno(k), "FrontendTLSPolicyCipherWarning")
                          EXCEPT !.dests = @ \union {Resource("FrontendTLSPolicy", s) : s \in set}])
          /\ Finish(k, IF conflict THEN RegisterIssue(a, "FrontendTLSPolicyProfileConflict")
                       ELSE a, conflict)
    BY <1>9, Zenon DEF handleAppGWSSLProfile
  <2>2. Conflictless(Anno(k)) => Conflictless(a)
    BY <2>1, ConflictlessKept
  <2> QED
    BY <1>1, <2>1, <2>2, ConflictlessKept
<1>10. CASE handleRewriteRuleSetCustomResource
  <2> DEFINE k         == RewriteKey
             ruleSet   == input.rewrites[RuleSetNN]
             known(h)  == h.action \in {"set", "delete"}
             headers   == SelectSeq(ruleSet.headers, known)
             unknown   == \E i \in DOMAIN ruleSet.headers : ~known(ruleSet.headers[i])
             full      == ruleSet.fullPath
             issued(b, cond, code) == IF cond THEN RegisterIssue(b, code) ELSE b
             a1 == issued(Anno(k), ruleSet.conditions, "RewriteConditions")
             a2 == issued(a1, ruleSet.sequences, "RewriteRuleSequence")
             a3 == issued(a2, ruleSet.reroute, "RewriteReroute")
             a4 == IF headers # <<>> \/ full # "none" THEN SetStatus(a3, Completed) ELSE a3
             a5 == IF ~unknown /\ a4.status = NotStarted THEN SetStatus(a4, Completed) ELSE a4
  <2>1. Take(k) /\ Finish(k, a5, unknown)
    BY <1>10 DEF handleRewriteRuleSetCustomResource
  <2> HIDE DEF ruleSet, headers, unknown, full
  <2>2. Conflictless(Anno(k)) => Conflictless(a1)
    BY ConflictlessKept
  <2> HIDE DEF a1
  <2>3. Conflictless(a1) => Conflictless(a2)
    BY ConflictlessKept
  <2> HIDE DEF a2
  <2>4. Conflictless(a2) => Conflictless(a3)
    BY ConflictlessKept
  <2> HIDE DEF a3
  <2>5. Conflictless(a3) => Conflictless(a4)
    BY ConflictlessKept
  <2> HIDE DEF a4
  <2>6. Conflictless(a4) => Conflictless(a5)
    BY ConflictlessKept
  <2> HIDE DEF a5, k
  <2> QED
    BY <1>1, <2>1, <2>2, <2>3, <2>4, <2>5, <2>6
<1>11. CASE handleWAFPolicyForPath
  <2>1. PICK k, d : Take(k) /\ Finish(k, AddDestination(RegisterIssue(Anno(k),
                      "WAFPotentialIncompatibility"), d), FALSE)
    BY <1>11 DEF handleWAFPolicyForPath
  <2>2. Conflictless(Anno(k)) => Conflictless(RegisterIssue(Anno(k), "WAFPotentialIncompatibility"))
    BY ConflictlessKept
  <2> QED
    BY <1>1, <2>1, <2>2, ConflictlessKept
<1>12. ASSUME NEW k \in pending, InvalidHealthProbe(k) \/ handleHealthProbe(k)
       PROVE  Conflictless(anno'[nn][j])
  <2>1. k \in HealthKeys /\ Take(k) /\ \E a, err : Finish(k, a, err)
    BY <1>12 DEF InvalidHealthProbe, handleHealthProbe, ParsedHealthKeys
  <2> QED
    BY <1>1, <2>1
<1>13. CASE UnknownBackendProtocol
  <2>1. PICK k, code : /\ Take(k) /\ code # HealthConflict
                       /\ Finish(k, RegisterIssue(SetStatus(Anno(k), Error), code), TRUE)
    BY <1>13 DEF UnknownBackendProtocol
  <2>2. Conflictless(Anno(k)) => Conflictless(SetStatus(Anno(k), Error))
    BY ConflictlessKept
  <2> QED
    BY <1>1, <2>1, <2>2, ConflictlessKept
<1>14. CASE handleBackendProtocol
  <2>1. PICK k, err, set :
          /\ Take(k)
          /\ Finish(k, IF err THEN RegisterIssue(SetStatus(Anno(k), Error), "CreatingBackendTLSPolicy")
                       ELSE AddDestinations(Anno(k), set), err)
    BY <1>14, Zenon DEF handleBackendProtocol
  <2>2. Conflictless(Anno(k)) => Conflictless(SetStatus(Anno(k), Error))
    BY ConflictlessKept
  <2> QED
    BY <1>1, <2>1, <2>2, ConflictlessKept
<1> QED
  BY <1>2, <1>3, <1>4, <1>5, <1>6, <1>7, <1>8, <1>9, <1>10, <1>11, <1>12, <1>13, <1>14
     DEF Next, Handler, Returned

-----------------------------------------------------------------------------
(* Health probes.                                                            *)

(* An Ingress gives this setting to a service of the rules it has begun.    *)
Gives(nn, k, s, value) ==
  /\ HasAnnotation(nn, k) /\ AnnotationOf(nn, k) = value
  /\ \E i \in ActiveRules(nn) : s \in ServicesUpTo(nn, i)

(* Every setting of a service was given by an Ingress that has begun.       *)
SettingsGiven ==
  \A s \in DOMAIN healthPolicies :
    /\ DOMAIN healthPolicies[s] = HealthKeys
    /\ \A k \in HealthKeys : healthPolicies[s][k] # Unset =>
         \E nn \in Ingresses \ todo : Gives(nn, k, s, healthPolicies[s][k])

(* An Ingress is refused a setting for the value another gave a service     *)
(* they share.                                                              *)
Refused(nn, k) ==
  \E other \in Ingresses : \E s \in DOMAIN healthPolicies :
    /\ k \in HealthKeys /\ NNLess(other, nn)
    /\ healthPolicies[s][k] # Unset
    /\ HasAnnotation(nn, k) /\ healthPolicies[s][k] # AnnotationOf(nn, k)
    /\ Gives(other, k, s, healthPolicies[s][k])
    /\ \E i \in ActiveRules(nn) : s \in ServicesUpTo(nn, i)

ConflictsForeign ==
  \A nn \in Ingresses : \A k \in DOMAIN anno[nn] :
    HealthConflict \in anno[nn][k].issues => Refused(nn, k)

(* What has been handled holds, or is refused.                              *)
Probed(nn, i, k) ==
  \/ \A s \in ServicesUpTo(nn, i) :
       s \in DOMAIN healthPolicies /\ healthPolicies[s][k] = AnnotationOf(nn, k)
  \/ HealthConflict \in anno[nn][k].issues

ProbesSettled ==
  \A nn \in Ingresses : \A i \in ActiveRules(nn) : \A k \in HealthKeys :
    /\ HasAnnotation(nn, k) /\ AnnotationOf(nn, k) \notin {Invalid, Unset}
    /\ Over(nn, i, k)
    => Probed(nn, i, k)

HealthBook == SettingsGiven /\ ConflictsForeign /\ ProbesSettled

(* Settings stay, and so do issues.                                         *)
SettingsGrow ==
  /\ input' = input /\ todo' \subseteq todo
  /\ \A s \in DOMAIN healthPolicies : s \in DOMAIN healthPolicies' /\
       \A k \in HealthKeys : healthPolicies[s][k] # Unset =>
         healthPolicies'[s][k] = healthPolicies[s][k]
  /\ \A nn \in Ingresses : /\ DOMAIN anno'[nn] = DOMAIN anno[nn]
                           /\ \A k \in HealthKeys \intersect DOMAIN anno[nn] :
                                anno[nn][k].issues \subseteq anno'[nn][k].issues

LEMMA SameServices ==
  ASSUME input' = input
  PROVE  /\ Ingresses' = Ingresses
         /\ \A nn : ActiveRules(nn)' = ActiveRules(nn)
         /\ \A nn, k : /\ HasAnnotation(nn, k)' = HasAnnotation(nn, k)
                       /\ AnnotationOf(nn, k)' = AnnotationOf(nn, k)
         /\ \A nn, i : HostOf(nn, i)' = HostOf(nn, i) /\ ServicesUpTo(nn, i)' = ServicesUpTo(nn, i)
<1>1. Ingresses' = Ingresses /\ \A nn : Ingress(nn)' = Ingress(nn)
  BY DEF Ingresses, Ingress
<1>2. \A nn, i : HostOf(nn, i)' = HostOf(nn, i)
  BY <1>1 DEF HostOf
<1>3. \A nn, h : BackendsUpTo(nn, h)' = BackendsUpTo(nn, h)
  BY SameBackends
<1>4. \A nn, i : ServicesUpTo(nn, i)' = ServicesUpTo(nn, i)
  BY <1>2, <1>3 DEF ServicesUpTo, ServicesOfBackends
<1> QED
  BY <1>1, <1>2, <1>4 DEF ActiveRules, HasAnnotation, AnnotationOf

LEMMA HealthKept ==
  ASSUME IInv, HealthBook, SettingsGrow,
         \A s \in DOMAIN healthPolicies' :
           /\ DOMAIN healthPolicies'[s] = HealthKeys
           /\ \A k \in HealthKeys : healthPolicies'[s][k] # Unset =>
                \/ s \in DOMAIN healthPolicies /\ healthPolicies'[s][k] = healthPolicies[s][k]
                \/ \E nn \in Ingresses \ todo' : Gives(nn, k, s, healthPolicies'[s][k]),
         \A nn \in Ingresses : \A k \in DOMAIN anno[nn] :
           HealthConflict \in anno'[nn][k].issues \ anno[nn][k].issues => Refused(nn, k),
         \A nn \in Ingresses : \A i \in ActiveRules(nn) : \A k \in HealthKeys :
           /\ HasAnnotation(nn, k) /\ AnnotationOf(nn, k) \notin {Invalid, Unset}
           /\ Over(nn, i, k)' /\ ~Over(nn, i, k)
           => Probed(nn, i, k)'
  PROVE  HealthBook'
<1>1. /\ Ingresses' = Ingresses /\ input' = input
      /\ \A nn : ActiveRules(nn)' = ActiveRules(nn)
      /\ \A nn, k : /\ HasAnnotation(nn, k)' = HasAnnotation(nn, k)
                    /\ AnnotationOf(nn, k)' = AnnotationOf(nn, k)
      /\ \A nn, i : ServicesUpTo(nn, i)' = ServicesUpTo(nn, i)
  BY SameServices DEF SettingsGrow
<1>2. \A nn, k, s, v : Gives(nn, k, s, v)' = Gives(nn, k, s, v)
  BY <1>1 DEF Gives
<1>3. SettingsGiven'
  <2>1. ASSUME NEW s \in DOMAIN healthPolicies', NEW k \in HealthKeys, healthPolicies'[s][k] # Unset
        PROVE  \E nn \in Ingresses \ todo' : Gives(nn, k, s, healthPolicies'[s][k])
    <3>1. CASE s \in DOMAIN healthPolicies /\ healthPolicies'[s][k] = healthPolicies[s][k]
      <4>1. PICK nn \in Ingresses \ todo : Gives(nn, k, s, healthPolicies[s][k])
        BY <2>1, <3>1 DEF HealthBook, SettingsGiven
      <4> QED
        BY <3>1, <4>1 DEF SettingsGrow
    <3> QED
      BY <2>1, <3>1
  <2>2. \A s \in DOMAIN healthPolicies' : DOMAIN healthPolicies'[s] = HealthKeys
    OBVIOUS
  <2>3. ASSUME NEW s \in DOMAIN healthPolicies', NEW k \in HealthKeys, healthPolicies'[s][k] # Unset
        PROVE  \E nn \in Ingresses' \ todo' : Gives(nn, k, s, healthPolicies[s][k])'
    <3>1. PICK nn \in Ingresses \ todo' : Gives(nn, k, s, healthPolicies'[s][k])
      BY <2>1, <2>3
    <3>2. Gives(nn, k, s, healthPolicies[s][k])'
      BY <1>1, <3>1 DEF Gives
    <3> QED
      BY <1>1, <3>1, <3>2
  <2> QED
    BY <2>2, <2>3 DEF SettingsGiven
<1>4. ASSUME NEW nn \in Ingresses, NEW k, Refused(nn, k)
      PROVE  Refused(nn, k)'
  <2>1. PICK other, s, v :
          /\ other \in Ingresses /\ s \in DOMAIN healthPolicies
          /\ k \in HealthKeys /\ NNLess(other, nn)
          /\ v = healthPolicies[s][k] /\ v # Unset
          /\ HasAnnotation(nn, k) /\ v # AnnotationOf(nn, k)
          /\ Gives(other, k, s, v)
          /\ \E i \in ActiveRules(nn) : s \in ServicesUpTo(nn, i)
    BY <1>4 DEF Refused
  <2>2. s \in DOMAIN healthPolicies' /\ healthPolicies'[s][k] = v
    BY <2>1 DEF SettingsGrow
  <2>3. Gives(other, k, s, healthPolicies[s][k])'
    BY <1>1, <2>1, <2>2 DEF Gives
  <2> QED
    BY <1>1, <2>1, <2>2, <2>3 DEF Refused
<1>5. ConflictsForeign'
  <2>1. ASSUME NEW nn \in Ingresses, NEW k \in DOMAIN anno[nn], HealthConflict \in anno'[nn][k].issues
        PROVE  Refused(nn, k)'
    BY <1>4, <2>1 DEF HealthBook, ConflictsForeign
  <2> QED
    BY <1>1, <2>1 DEF ConflictsForeign, SettingsGrow
<1>6. ProbesSettled'
  <2>1. ASSUME NEW nn \in Ingresses, NEW i \in ActiveRules(nn), NEW k \in HealthKeys,
               HasAnnotation(nn, k), AnnotationOf(nn, k) \notin {Invalid, Unset}, Probed(nn, i, k)
        PROVE  Probed(nn, i, k)'
    <3>1. k \in DOMAIN anno[nn]
      BY <2>1 DEF IInv, TypeOK, AnnotationsOK, HasAnnotation
    <3>2. \A s \in ServicesUpTo(nn, i) :
            s \in DOMAIN healthPolicies /\ healthPolicies[s][k] = AnnotationOf(nn, k)
            => s \in DOMAIN healthPolicies' /\ healthPolicies'[s][k] = AnnotationOf(nn, k)
      BY <2>1 DEF SettingsGrow
    <3>3. HealthConflict \in anno[nn][k].issues => HealthConflict \in anno'[nn][k].issues
      BY <3>1 DEF SettingsGrow
    <3> QED
      BY <1>1, <2>1, <3>2, <3>3 DEF Probed
  <2>2. ASSUME NEW nn \in Ingresses, NEW i \in ActiveRules(nn), NEW k \in HealthKeys,
               HasAnnotation(nn, k), AnnotationOf(nn, k) \notin {Invalid, Unset}, Over(nn, i, k)'
        PROVE  Probed(nn, i, k)'
    BY <2>1, <2>2 DEF HealthBook, ProbesSettled
  <2> QED
    BY <1>1, <2>2 DEF ProbesSettled
<1> QED
  BY <1>3, <1>5, <1>6 DEF HealthBook

LEMMA HealthStepBook ==
  ASSUME IInv, BookInv, ProgressInv, RulesServed, HealthBook, [Next]_vars
  PROVE  HealthBook'
<1>1. ASSUME (EngineStep /\ ~handleIgnoredAnnotation) \/ UNCHANGED vars
      PROVE  HealthBook'
  <2>1. SameTurns /\ UNCHANGED <<input, anno, healthPolicies>> /\ todo' \subseteq todo
    BY <1>1, QuietProgress DEF policyVars, SameAskers
  <2>2. SettingsGrow
    BY <2>1 DEF SettingsGrow
  <2>3. ASSUME NEW nn \in Ingresses, NEW i \in ActiveRules(nn), NEW k, HasAnnotation(nn, k)
        PROVE  Over(nn, i, k)' <=> Over(nn, i, k)
    BY <2>1, <2>3 DEF SameTurns, HasAnnotation
  <2>4. \A s \in DOMAIN healthPolicies' :
          /\ DOMAIN healthPolicies'[s] = HealthKeys
          /\ \A k \in HealthKeys : s \in DOMAIN healthPolicies /\ healthPolicies'[s][k] = healthPolicies[s][k]
    BY <2>1 DEF HealthBook, SettingsGiven
  <2> QED
    BY <2>1, <2>2, <2>3, <2>4, HealthKept
<1>2. ASSUME NEW k, Effect(k), UNCHANGED healthPolicies,
             \A nn \in Ingresses : \A j \in DOMAIN anno[nn] :
               HealthConflict \in anno'[nn][j].issues => HealthConflict \in anno[nn][j].issues,
             k \in HealthKeys => Value(k) = Invalid /\ Anno(k).issues \subseteq anno'[cur][k].issues
      PROVE  HealthBook'
  <2>1. PICK me, at : /\ me = cur /\ at = rule
    OBVIOUS
  <2>2. /\ UNCHANGED <<input, todo>> /\ Value(k) = AnnotationOf(me, k)
        /\ \A nn \in Ingresses : \A i \in ActiveRules(nn) : \A j :
             Over(nn, i, j)' <=> Over(nn, i, j) \/ (nn = me /\ i = at /\ j = k)
    BY <1>2, <2>1, EffectHandled, HandledProgress
  <2>3. PICK a, err : Take(k) /\ Finish(k, a, err)
    BY <1>2 DEF Effect
  <2>4. \A nn \in Ingresses : DOMAIN anno'[nn] = DOMAIN anno[nn] /\ \A j \in DOMAIN anno[nn] :
          anno'[nn][j] = anno[nn][j] \/ (nn = me /\ j = k)
    BY <2>1, <2>3, OneAnnotation
  <2>5. SettingsGrow
    BY <1>2, <2>1, <2>2, <2>4 DEF SettingsGrow, Anno
  <2>6. \A s \in DOMAIN healthPolicies' :
          /\ DOMAIN healthPolicies'[s] = HealthKeys
          /\ \A j \in HealthKeys : s \in DOMAIN healthPolicies /\ healthPolicies'[s][j] = healthPolicies[s][j]
    BY <1>2 DEF HealthBook, SettingsGiven
  <2>7. \A nn \in Ingresses : \A i \in ActiveRules(nn) : \A j \in HealthKeys :
          AnnotationOf(nn, j) \notin {Invalid, Unset} /\ Over(nn, i, j)' => Over(nn, i, j)
    BY <1>2, <2>2
  <2> QED
    BY <1>2, <2>5, <2>6, <2>7, HealthKept
<1>3. ASSUME NEW k, Effect(k), k \notin HealthKeys
      PROVE  HealthBook'
  <2>1. UNCHANGED healthPolicies
    BY <1>3 DEF Effect
  <2>2. PICK a, err : Take(k) /\ Finish(k, a, err)
    BY <1>3 DEF Effect
  <2>3. ASSUME NEW nn \in Ingresses, NEW j \in DOMAIN anno[nn], HealthConflict \notin anno[nn][j].issues
        PROVE  HealthConflict \notin anno'[nn][j].issues
    <3>1. Conflictless(anno[nn][j])
      BY <2>3 DEF Conflictless, IInv, TypeOK, AnnotationsOK
    <3>2. CASE j \notin HealthKeys
      BY <3>1, <3>2, OthersDoNotConflict DEF Conflictless
    <3>3. CASE j \in HealthKeys
      <4>1. anno'[nn][j] = anno[nn][j]
        BY <1>3, <2>2, <3>3, OneAnnotation
      <4> QED
        BY <2>3, <4>1
    <3> QED
      BY <3>2, <3>3
  <2> QED
    BY <1>2, <1>3, <2>1, <2>3
<1>4. ASSUME NEW k \in HealthKeys, Effect(k), InvalidHealthProbe(k)
      PROVE  HealthBook'
  <2> DEFINE a == IF k = "health-probe-status-codes" THEN SetStatus(Anno(k), Error)
                  ELSE RegisterIssue(Anno(k), "InvalidAnnotationValue")
  <2>1. Take(k) /\ Finish(k, a, TRUE) /\ UNCHANGED healthPolicies /\ Value(k) = Invalid
    BY <1>4 DEF InvalidHealthProbe, policyVars
  <2>2. PICK issues : Outcome(Anno(k), a, issues, {}) /\ HealthConflict \notin issues
    BY <2>1, CurrentAccounted, SetStatusOutcome, RegisterIssueOutcome, IssueCodes
       DEF Reportable, HealthConflict
  <2> HIDE DEF a
  <2>3. \A nn \in Ingresses :
          /\ DOMAIN anno'[nn] = DOMAIN anno[nn]
          /\ \A j \in DOMAIN anno[nn] :
               anno'[nn][j] = IF nn = cur /\ j = k THEN a ELSE anno[nn][j]
    <3>1. Take(k) /\ Finish(k, a, TRUE)
      BY <2>1
    <3> QED
      BY <3>1, OneAnnotation
  <2>4. cur \in Ingresses /\ k \in DOMAIN anno[cur]
    BY <2>1, OneAnnotation
  <2>5. a.issues = anno[cur][k].issues \union issues
    BY <2>2 DEF Outcome, Anno
  <2>6. \A nn \in Ingresses : \A j \in DOMAIN anno[nn] :
          HealthConflict \in anno'[nn][j].issues => HealthConflict \in anno[nn][j].issues
    BY <2>2, <2>3, <2>5
  <2>7. Anno(k).issues \subseteq anno'[cur][k].issues
    BY <2>3, <2>4, <2>5 DEF Anno
  <2> QED
    BY <1>2, <1>4, <2>1, <2>6, <2>7
<1>5. ASSUME NEW k \in HealthKeys, Effect(k), handleHealthProbe(k)
      PROVE  HealthBook'
  <2>1. PICK a, issues : ProbeReported(k, a, issues)
    BY <1>5, ProbeOutcome
  <2>2. PICK me, at, v, svcs, open :
          /\ me = cur /\ at = rule /\ v = Value(k)
          /\ svcs = Services(ThisRoute) /\ open = OpenServices(k)
    OBVIOUS
  <2>3. /\ me \in Ingresses \ todo /\ at \in ActiveRules(me) /\ InTurn
    BY <1>5, <2>2, EffectHandled, HandledProgress, CurrentRoute DEF ProgressInv, InTurn
  <2>4. /\ UNCHANGED <<input, todo>> /\ HasAnnotation(me, k) /\ v = AnnotationOf(me, k)
        /\ \A nn \in Ingresses : \A i \in ActiveRules(nn) : \A j :
             Over(nn, i, j)' /\ ~Over(nn, i, j) => nn = me /\ i = at /\ j = k
    BY <1>5, <2>2, EffectHandled, HandledProgress
  <2>5. svcs = ServicesUpTo(me, at)
    BY <1>5, <2>2, EffectHandled, HandledProgress, CurrentServices
  <2>6. /\ open = {s \in svcs : HealthPolicy(s)[k] \in {Unset, v}}
        /\ DOMAIN healthPolicies' = DOMAIN healthPolicies \union svcs
        /\ \A s \in DOMAIN healthPolicies \union svcs :
             healthPolicies'[s] = IF s \in open THEN [HealthPolicy(s) EXCEPT ![k] = v] ELSE HealthPolicy(s)
    BY <1>5, <2>2 DEF handleHealthProbe, OpenServices
  <2>7. \A s : /\ DOMAIN HealthPolicy(s) = HealthKeys
               /\ s \in DOMAIN healthPolicies => HealthPolicy(s) = healthPolicies[s]
               /\ s \notin DOMAIN healthPolicies => \A j \in HealthKeys : HealthPolicy(s)[j] = Unset
    BY DEF HealthPolicy, NewHealthPolicy, HealthBook, SettingsGiven
  <2>8. \A s \in DOMAIN healthPolicies' :
          /\ DOMAIN healthPolicies'[s] = HealthKeys
          /\ \A j \in HealthKeys :
               healthPolicies'[s][j] = IF s \in open /\ j = k THEN v ELSE HealthPolicy(s)[j]
    <3>1. ASSUME NEW r, DOMAIN r = HealthKeys
          PROVE  /\ DOMAIN [r EXCEPT ![k] = v] = HealthKeys
                 /\ \A j \in HealthKeys : [r EXCEPT ![k] = v][j] = IF j = k THEN v ELSE r[j]
      BY <3>1
    <3>2. ASSUME NEW s \in DOMAIN healthPolicies'
          PROVE  /\ DOMAIN healthPolicies'[s] = HealthKeys
                 /\ \A j \in HealthKeys :
                      healthPolicies'[s][j] = IF s \in open /\ j = k THEN v ELSE HealthPolicy(s)[j]
      <4>1. PICK r : r = HealthPolicy(s) /\ DOMAIN r = HealthKeys
        BY <2>7
      <4>2. healthPolicies'[s] = IF s \in open THEN [r EXCEPT ![k] = v] ELSE r
        BY <2>6, <3>2, <4>1
      <4> QED
        BY <3>1, <4>1, <4>2
    <3> QED
      BY <3>2
  <2>9. \A nn \in Ingresses :
          /\ DOMAIN anno'[nn] = DOMAIN anno[nn]
          /\ \A j \in DOMAIN anno[nn] :
               anno'[nn][j].issues =
                 anno[nn][j].issues \union (IF nn = me /\ j = k THEN issues ELSE {})
    <3>1. \A nn \in Ingresses :
            /\ DOMAIN anno'[nn] = DOMAIN anno[nn]
            /\ \A j \in DOMAIN anno[nn] :
                 anno'[nn][j] = IF nn = me /\ j = k THEN a ELSE anno[nn][j]
      BY <2>1, <2>2, OneAnnotation DEF ProbeReported
    <3>2. a.issues = anno[me][k].issues \union issues
      BY <2>1, <2>2 DEF ProbeReported, Outcome, Anno
    <3> QED
      BY <3>1, <3>2
  <2>10. issues = IF open = svcs THEN {} ELSE {HealthConflict}
    BY <2>1, <2>2 DEF ProbeReported, HealthConflict
  <2>11. SettingsGrow
    <3>1. ASSUME NEW s \in DOMAIN healthPolicies, NEW j \in HealthKeys, healthPolicies[s][j] # Unset
          PROVE  healthPolicies'[s][j] = healthPolicies[s][j]
      BY <2>6, <2>7, <2>8, <3>1
    <3> QED
      BY <2>4, <2>6, <2>9, <3>1 DEF SettingsGrow
  <2>12. ASSUME NEW s \in DOMAIN healthPolicies', NEW j \in HealthKeys, healthPolicies'[s][j] # Unset
         PROVE  \/ s \in DOMAIN healthPolicies /\ healthPolicies'[s][j] = healthPolicies[s][j]
                \/ \E nn \in Ingresses \ todo' : Gives(nn, j, s, healthPolicies'[s][j])
    <3>1. CASE s \in open /\ j = k
      <4>1. Gives(me, j, s, healthPolicies'[s][j])
        BY <2>3, <2>4, <2>5, <2>6, <2>8, <3>1 DEF Gives
      <4> QED
        BY <2>3, <2>4, <4>1
    <3>2. CASE ~(s \in open /\ j = k)
      BY <2>7, <2>8, <2>12, <3>2
    <3> QED
      BY <3>1, <3>2
  <2>13. ASSUME NEW s \in svcs, s \notin open
         PROVE  Refused(me, k)
    <3>1. HealthPolicy(s)[k] \notin {Unset, v}
      BY <2>6, <2>13
    <3>2. s \in DOMAIN healthPolicies /\ healthPolicies[s][k] \notin {Unset, v}
      BY <2>7, <3>1
    <3>3. PICK other \in Ingresses \ todo : Gives(other, k, s, healthPolicies[s][k])
      BY <3>2 DEF HealthBook, SettingsGiven
    <3>4. other # me
      BY <2>4, <3>2, <3>3 DEF Gives
    <3>5. NNLess(other, me)
      BY <2>2, <2>3, <3>3, <3>4 DEF ProgressInv
    <3> QED
      BY <2>3, <2>4, <2>5, <3>2, <3>3, <3>5 DEF Refused
  <2>14. \A nn \in Ingresses : \A j \in DOMAIN anno[nn] :
           HealthConflict \in anno'[nn][j].issues \ anno[nn][j].issues => Refused(nn, j)
    <3>1. open # svcs => \E s \in svcs : s \notin open
      BY <2>6
    <3>2. open # svcs => Refused(me, k)
      BY <2>13, <3>1
    <3> QED
      BY <2>9, <2>10, <3>2
  <2>15. Probed(me, at, k)'
    <3>1. /\ ServicesUpTo(me, at)' = svcs /\ AnnotationOf(me, k)' = v
      BY <2>4, <2>5, SameServices
    <3>2. open = svcs => \A s \in svcs : s \in DOMAIN healthPolicies' /\ healthPolicies'[s][k] = v
      BY <2>6, <2>8
    <3>3. open # svcs => HealthConflict \in anno'[me][k].issues
      <4>1. k \in DOMAIN anno[me]
        BY <2>3, <2>4 DEF IInv, TypeOK, AnnotationsOK, HasAnnotation
      <4> QED
        BY <2>3, <2>9, <2>10, <4>1
    <3> QED
      BY <3>1, <3>2, <3>3 DEF Probed
  <2>16. \A nn \in Ingresses : \A i \in ActiveRules(nn) : \A j \in HealthKeys :
           Over(nn, i, j)' /\ ~Over(nn, i, j) => Probed(nn, i, j)'
    BY <2>4, <2>15
  <2> QED
    BY <2>8, <2>11, <2>12, <2>14, <2>16, HealthKept
<1>6. ASSUME NEW k, Effect(k)
      PROVE  HealthBook'
  BY <1>3, <1>4, <1>5, <1>6 DEF Effect
<1> QED
  BY <1>1, <1>6, NextEffect

(* At every moment each health probe setting of a service was given by an   *)
(* Ingress that has begun and has the service, and an Ingress whose setting *)
(* has been handled has it on its services so far or a true conflict on     *)
(* record.                                                                  *)
THEOREM HealthBookkeeping == Spec => []HealthBook
<1>1. Init => HealthBook
  <2>1. ASSUME Init
        PROVE  HealthBook
    <3>1. DOMAIN healthPolicies = {} /\ phase = "setup" /\ todo = Ingresses
      BY <2>1, Zenon DEF Init, EngineInit
    <3>2. \A nn \in Ingresses : \A k \in DOMAIN anno[nn] : anno[nn][k].issues = {}
      BY <2>1 DEF Init, EngineInit, NewAnnotationContext
    <3>3. \A nn, i, k : ~Over(nn, i, k)
      BY <3>1 DEF Over
    <3> QED
      BY <3>1, <3>2, <3>3 DEF HealthBook, SettingsGiven, ConflictsForeign, ProbesSettled
  <2> QED
    BY <2>1
<1>2. IInv /\ BookInv /\ ProgressInv /\ RulesServed /\ HealthBook /\ [Next]_vars => HealthBook'
  BY HealthStepBook
<1> QED
  BY <1>1, <1>2, Invariance, Bookkeeping, Progress, ServedBackends, PTL DEF Spec

(* What the conflict message of a health probe says is true: the value an   *)
(* Ingress is refused for comes from another Ingress, one that was converted*)
(* before it and shares the service, never from an earlier rule of its own. *)
THEOREM HealthConflictSafety == Spec => []ConflictComesFromAnotherIngress
<1>1. IInv /\ HealthBook => ConflictComesFromAnotherIngress
  <2>1. ASSUME IInv, HealthBook, NEW nn \in Ingresses, NEW k \in DOMAIN anno[nn],
               HealthConflict \in anno[nn][k].issues
        PROVE  \E other \in Ingresses :
                 /\ NNLess(other, nn)
                 /\ other.ns = nn.ns
                 /\ HasAnnotation(other, k)
                 /\ AnnotationOf(other, k) # AnnotationOf(nn, k)
                 /\ \E h \in ActiveHosts(nn), g \in ActiveHosts(other) :
                      \E svc \in DeclaredServices(nn, h) \intersect DeclaredServices(other, g) :
                        healthPolicies[svc][k] = AnnotationOf(other, k)
    <3>1. PICK other \in Ingresses, s \in DOMAIN healthPolicies :
            /\ NNLess(other, nn) /\ healthPolicies[s][k] # AnnotationOf(nn, k)
            /\ Gives(other, k, s, healthPolicies[s][k])
            /\ \E i \in ActiveRules(nn) : s \in ServicesUpTo(nn, i)
      BY <2>1 DEF HealthBook, ConflictsForeign, Refused
    <3>2. PICK i \in ActiveRules(nn) : s \in ServicesUpTo(nn, i)
      BY <3>1
    <3>3. /\ HasAnnotation(other, k) /\ AnnotationOf(other, k) = healthPolicies[s][k]
          /\ \E j \in ActiveRules(other) : s \in ServicesUpTo(other, j)
      BY <3>1 DEF Gives
    <3>4. PICK j \in ActiveRules(other) : s \in ServicesUpTo(other, j)
      BY <3>3
    <3>5. /\ s \in DeclaredServices(nn, HostOf(nn, i)) /\ s.ns = nn.ns
          /\ s \in DeclaredServices(other, HostOf(other, j)) /\ s.ns = other.ns
      BY <2>1, <3>2, <3>4, ServicesDeclared DEF IInv, TypeOK, ProgressOK
    <3>6. HostOf(nn, i) \in ActiveHosts(nn) /\ HostOf(other, j) \in ActiveHosts(other)
      BY DEF ActiveHosts, HostOf
    <3> QED
      BY <3>1, <3>3, <3>5, <3>6
  <2> QED
    BY <2>1 DEF ConflictComesFromAnotherIngress, HealthConflict
<1> QED
  BY <1>1, HealthBookkeeping, Invariance, PTL

(* An Ingress whose turn is over has a status.                              *)
THEOREM Conclusion == Spec => []Concluded
<1>1. Init => Concluded
  <2>1. Init => todo = Ingresses
    BY Zenon DEF Init, EngineInit
  <2> QED
    BY <2>1 DEF Concluded
<1>2. IInv /\ Concluded /\ [Next]_vars => Concluded'
  BY NextEffect, EffectHandled, TurnConcludes
<1> QED
  BY <1>1, <1>2, Invariance, PTL DEF Spec

(* A health probe setting either holds at the end for every service of the  *)
(* Ingress, or its annotation and its Ingress are in error.                 *)
THEOREM HealthProbeSafety == Spec => []HealthProbeAppliedOrReported
<1>1. IInv /\ BookInv /\ ProgressInv /\ HealthBook /\ Concluded => HealthProbeAppliedOrReported
  <2>1. ASSUME IInv, BookInv, ProgressInv, HealthBook, Concluded, Done, NEW p \in ActivePairs,
               NEW k \in HealthKeys \intersect DOMAIN Ingress(p[1]).annos,
               AnnotationOf(p[1], k) \notin {Invalid, Unset}
        PROVE  \/ \A svc \in DeclaredServices(p[1], p[2]) :
                    svc \in DOMAIN healthPolicies /\ healthPolicies[svc][k] = AnnotationOf(p[1], k)
               \/ anno[p[1]][k].status = Error /\ status[p[1]] = Error
    <3>1. PICK nn \in Ingresses : nn = p[1]
      BY DEF ActivePairs
    <3>2. HasAnnotation(nn, k) /\ nn \in DOMAIN anno /\ k \in DOMAIN anno[nn]
      BY <2>1, <3>1 DEF HasAnnotation, IInv, TypeOK, AnnotationsOK
    <3>3. \A i \in ActiveRules(nn) : Over(nn, i, k)
      BY <2>1 DEF ProgressInv, Done, Over, InTurn
    <3>4. CASE HealthConflict \in anno[nn][k].issues
      <4>1. IssueLibrary[HealthConflict] = Error /\ HealthConflict \in RejectingIssues
        BY DEF IssueLibrary, AGICIssues, HealthConflict, RejectingIssues
      <4>2. anno[nn][k].status = Error
        BY <2>1, <3>2, <3>4, <4>1 DEF IInv, SeverityReflectsIssues
      <4>3. status[nn] # Completed
        BY <2>1, <3>2, <3>4, <4>1 DEF BookInv, RejectionFailsTheIngress
      <4>4. status[nn] # NotStarted
        BY <2>1 DEF Concluded, ProgressInv, Done, InTurn
      <4>5. status[nn] = Error
        BY <2>1, <4>3, <4>4 DEF IInv, TypeOK, ProgressOK
      <4> QED
        BY <3>1, <4>2, <4>5
    <3>5. CASE HealthConflict \notin anno[nn][k].issues
      <4>1. ASSUME NEW svc \in DeclaredServices(nn, p[2])
            PROVE  svc \in DOMAIN healthPolicies /\ healthPolicies[svc][k] = AnnotationOf(nn, k)
        <5>1. PICK i \in ActiveRules(nn) : svc \in ServicesUpTo(nn, i)
          BY <2>1, ServicesDeclared DEF IInv, TypeOK, ProgressOK
        <5>2. Probed(nn, i, k)
          BY <2>1, <3>1, <3>2, <3>3 DEF HealthBook, ProbesSettled
        <5> QED
          BY <3>5, <5>1, <5>2 DEF Probed
      <4> QED
        BY <3>1, <4>1
    <3> QED
      BY <3>4, <3>5
  <2> QED
    BY <2>1 DEF HealthProbeAppliedOrReported
<1> QED
  BY <1>1, HealthBookkeeping, Conclusion, Invariance, Bookkeeping, Progress, PTL

-----------------------------------------------------------------------------
(* Backend TLS.                                                              *)

ProtocolKey == "backend-protocol"

Encrypts(nn) == HasAnnotation(nn, ProtocolKey) /\ AnnotationOf(nn, ProtocolKey) = "https"

(* The rules whose Ingress asks for https and that have had their turn.     *)
Encrypted ==
  UNION {{nn} \X {i \in ActiveRules(nn) : Over(nn, i, ProtocolKey)} :
           nn \in {m \in Ingresses : Encrypts(m)}}

(* Their services have backend TLS, on the ports the rules give them.       *)
EncryptedPorts(s) ==
  {PortOf(e[1], HostOf(e[1], e[2]), s) : e \in {x \in Encrypted : s \in ServicesUpTo(x[1], x[2])}}

TLSBook ==
  /\ backendTLS = [s \in DOMAIN backendTLS |-> backendTLS[s]]
  /\ DOMAIN backendTLS = UNION {ServicesUpTo(e[1], e[2]) : e \in Encrypted}
  /\ \A s \in DOMAIN backendTLS : backendTLS[s] = EncryptedPorts(s)

LEMMA SamePorts ==
  ASSUME input' = input
  PROVE  \A nn, h, s : PortOf(nn, h, s)' = PortOf(nn, h, s)
<1>1. \A nn, h : BackendsUpTo(nn, h)' = BackendsUpTo(nn, h)
  BY SameBackends
<1>2. \A nn, h : DeclaredBackends(nn, h)' = DeclaredBackends(nn, h)
  BY <1>1 DEF DeclaredBackends, Ingress
<1>3. \A nn, h : RouteNN(nn, h)' = RouteNN(nn, h)
  BY DEF RouteNN
<1>4. ASSUME NEW nn, NEW h, NEW s
      PROVE  PortOf(nn, h, s)' = PortOf(nn, h, s)
  <2>1. PICK route : route = [nn |-> RouteNN(nn, h), rules |-> DeclaredBackends(nn, h)]
    OBVIOUS
  <2>2. route = [nn |-> RouteNN(nn, h)', rules |-> DeclaredBackends(nn, h)']
    BY <1>2, <1>3, <2>1
  <2>3. PortOf(nn, h, s) = FirstPort(route, s)
    BY <2>1 DEF PortOf
  <2>4. PortOf(nn, h, s)' = FirstPort(route, s)
    BY <2>2 DEF PortOf, FirstPort, BackendRules, ServiceNN
  <2> QED
    BY <2>3, <2>4
<1> QED
  BY <1>4

(* The book grows with the rules that have had their turn.                  *)
LEMMA TLSKept ==
  ASSUME TLSBook, input' = input, NEW more, Encrypted' = Encrypted \union more,
         NEW svcs, svcs = UNION {ServicesUpTo(e[1], e[2]) : e \in more},
         backendTLS' = [s \in DOMAIN backendTLS \union svcs |->
           BackendTLSPorts(s) \union
             {PortOf(e[1], HostOf(e[1], e[2]), s) :
                e \in {x \in more : s \in ServicesUpTo(x[1], x[2])}}]
  PROVE  TLSBook'
<1>1. /\ \A nn, i : ServicesUpTo(nn, i)' = ServicesUpTo(nn, i) /\ HostOf(nn, i)' = HostOf(nn, i)
      /\ \A nn, h, s : PortOf(nn, h, s)' = PortOf(nn, h, s)
  BY SameServices, SamePorts
<1> DEFINE E == Encrypted
           F == E \union more
<1>2. Encrypted' = F
  OBVIOUS
<1>3. DOMAIN backendTLS' = DOMAIN backendTLS \union svcs
      /\ backendTLS' = [s \in DOMAIN backendTLS' |-> backendTLS'[s]]
  OBVIOUS
<1>4. DOMAIN backendTLS' = UNION {ServicesUpTo(e[1], e[2])' : e \in F}
  <2>1. DOMAIN backendTLS' = UNION {ServicesUpTo(e[1], e[2]) : e \in F}
    BY <1>3 DEF TLSBook
  <2> HIDE DEF F
  <2> QED
    BY <1>1, <2>1
<1>5. ASSUME NEW s \in DOMAIN backendTLS \union svcs
      PROVE  backendTLS'[s] = {PortOf(e[1], HostOf(e[1], e[2]), s) :
                                 e \in {x \in F : s \in ServicesUpTo(x[1], x[2])}}
  <2>1. BackendTLSPorts(s) = {PortOf(e[1], HostOf(e[1], e[2]), s) :
                                e \in {x \in E : s \in ServicesUpTo(x[1], x[2])}}
    <3>1. CASE s \in DOMAIN backendTLS
      BY <3>1 DEF BackendTLSPorts, TLSBook, EncryptedPorts
    <3>2. CASE s \notin DOMAIN backendTLS
      <4>1. \A x \in E : s \notin ServicesUpTo(x[1], x[2])
        BY <3>2 DEF TLSBook
      <4> QED
        BY <3>2, <4>1 DEF BackendTLSPorts
    <3> QED
      BY <3>1, <3>2
  <2>2. backendTLS'[s] = BackendTLSPorts(s) \union
             {PortOf(e[1], HostOf(e[1], e[2]), s) :
                e \in {x \in more : s \in ServicesUpTo(x[1], x[2])}}
    BY <1>3
  <2> HIDE DEF E
  <2> QED
    BY <2>1, <2>2
<1>6. ASSUME NEW s \in DOMAIN backendTLS'
      PROVE  backendTLS'[s] = EncryptedPorts(s)'
  <2>1. \A e : PortOf(e[1], HostOf(e[1], e[2]), s)' = PortOf(e[1], HostOf(e[1], e[2]), s)
    BY <1>1
  <2>2. EncryptedPorts(s)' = {PortOf(e[1], HostOf(e[1], e[2]), s)' :
                                e \in {x \in F : s \in ServicesUpTo(x[1], x[2])'}}
    BY <1>2 DEF EncryptedPorts
  <2> HIDE DEF F
  <2>3. \A x : s \in ServicesUpTo(x[1], x[2])' <=> s \in ServicesUpTo(x[1], x[2])
    BY <1>1
  <2>4. EncryptedPorts(s)' = {PortOf(e[1], HostOf(e[1], e[2]), s) :
                                e \in {x \in F : s \in ServicesUpTo(x[1], x[2])}}
    BY <2>1, <2>2, <2>3
  <2> QED
    BY <1>3, <1>5, <1>6, <2>4
<1> HIDE DEF F
<1> QED
  BY <1>2, <1>3, <1>4, <1>6 DEF TLSBook

(* Rules are only added to the handled ones by the handler of the           *)
(* annotation.                                                              *)
LEMMA EncryptedGrows ==
  ASSUME input' = input, NEW more, more \subseteq {nn \in Ingresses : Encrypts(nn)} \X Nat,
         \A nn \in Ingresses : \A i \in ActiveRules(nn) : Encrypts(nn) =>
           (Over(nn, i, ProtocolKey)' <=> Over(nn, i, ProtocolKey) \/ <<nn, i>> \in more),
         \A e \in more : e[2] \in ActiveRules(e[1])
  PROVE  Encrypted' = Encrypted \union more
<1>1. /\ Ingresses' = Ingresses
      /\ \A nn : ActiveRules(nn)' = ActiveRules(nn)
      /\ \A nn : Encrypts(nn)' <=> Encrypts(nn)
  BY SameServices DEF Encrypts
<1>2. \A e : e \in Encrypted <=> \E nn \in Ingresses : \E i \in ActiveRules(nn) :
               e = <<nn, i>> /\ Encrypts(nn) /\ Over(nn, i, ProtocolKey)
  BY DEF Encrypted
<1>3. \A e : e \in Encrypted' <=> \E nn \in Ingresses : \E i \in ActiveRules(nn) :
               e = <<nn, i>> /\ Encrypts(nn) /\ Over(nn, i, ProtocolKey)'
  BY <1>1 DEF Encrypted
<1>4. ASSUME NEW e \in Encrypted'
      PROVE  e \in Encrypted \union more
  BY <1>2, <1>3
<1>5. ASSUME NEW e \in Encrypted \union more
      PROVE  e \in Encrypted'
  <2>1. CASE e \in Encrypted
    BY <1>2, <1>3, <2>1
  <2>2. CASE e \in more
    <3>1. e[1] \in Ingresses /\ Encrypts(e[1]) /\ e[2] \in ActiveRules(e[1]) /\ e = <<e[1], e[2]>>
      BY <2>2
    <3>2. Over(e[1], e[2], ProtocolKey)'
      BY <2>2, <3>1
    <3> QED
      BY <1>3, <3>1, <3>2
  <2> QED
    BY <1>5, <2>1, <2>2
<1> QED
  BY <1>4, <1>5

LEMMA TLSStepBook ==
  ASSUME IInv, ProgressInv, RulesServed, TLSBook, [Next]_vars
  PROVE  TLSBook'
<1>1. ASSUME input' = input, backendTLS' = backendTLS,
             \A nn \in Ingresses : \A i \in ActiveRules(nn) : Encrypts(nn) =>
               (Over(nn, i, ProtocolKey)' <=> Over(nn, i, ProtocolKey))
      PROVE  TLSBook'
  <2>1. Encrypted' = Encrypted \union {}
    BY <1>1, EncryptedGrows
  <2>2. {} = UNION {ServicesUpTo(e[1], e[2]) : e \in {}}
    OBVIOUS
  <2>3. backendTLS' = [s \in DOMAIN backendTLS \union {} |->
           BackendTLSPorts(s) \union
             {PortOf(e[1], HostOf(e[1], e[2]), s) :
                e \in {x \in {} : s \in ServicesUpTo(x[1], x[2])}}]
    <3>1. \A s \in DOMAIN backendTLS : backendTLS[s] = BackendTLSPorts(s) \union
             {PortOf(e[1], HostOf(e[1], e[2]), s) :
                e \in {x \in {} : s \in ServicesUpTo(x[1], x[2])}}
      BY DEF BackendTLSPorts
    <3> QED
      BY <1>1, <3>1 DEF TLSBook
  <2> QED
    BY <1>1, <2>1, <2>2, <2>3, TLSKept
<1>2. ASSUME (EngineStep /\ ~handleIgnoredAnnotation) \/ UNCHANGED vars
      PROVE  TLSBook'
  <2>1. SameTurns /\ UNCHANGED <<input, backendTLS>>
    BY <1>2, QuietProgress DEF policyVars, SameAskers
  <2>2. ASSUME NEW nn \in Ingresses, NEW i \in ActiveRules(nn), Encrypts(nn)
        PROVE  Over(nn, i, ProtocolKey)' <=> Over(nn, i, ProtocolKey)
    BY <2>1, <2>2 DEF SameTurns, HasAnnotation, Encrypts
  <2> QED
    BY <1>1, <2>1, <2>2
<1>3. ASSUME NEW k, Effect(k), k # ProtocolKey
      PROVE  TLSBook'
  <2>1. backendTLS' = backendTLS
    BY <1>3 DEF Effect, ProtocolKey
  <2> QED
    BY <1>1, <1>3, <2>1, EffectHandled, HandledProgress
<1>4. ASSUME Effect(ProtocolKey), PlainBackendProtocol \/ UnknownBackendProtocol
      PROVE  TLSBook'
  <2>1. UNCHANGED backendTLS /\ Value(ProtocolKey) # "https"
    BY <1>4 DEF PlainBackendProtocol, UnknownBackendProtocol, policyVars, ProtocolKey
  <2>2. ~Encrypts(cur) /\ input' = input
    BY <1>4, <2>1, EffectHandled, HandledProgress DEF Encrypts
  <2>3. \A nn \in Ingresses : \A i \in ActiveRules(nn) : Encrypts(nn) =>
          (Over(nn, i, ProtocolKey)' <=> Over(nn, i, ProtocolKey))
    BY <1>4, <2>2, EffectHandled, HandledProgress
  <2> QED
    BY <1>1, <2>1, <2>2, <2>3
<1>5. ASSUME Effect(ProtocolKey), handleBackendProtocol
      PROVE  TLSBook'
  <2>1. PICK me, at, host, svcs :
          me = cur /\ at = rule /\ host = HostOf(me, at) /\ svcs = Services(ThisRoute)
    OBVIOUS
  <2>2. phase = "annotations" /\ me \in Ingresses /\ at \in ActiveRules(me) /\ svcs = ServicesUpTo(me, at)
    BY <1>5, <2>1, EffectHandled, HandledProgress, CurrentRoute, CurrentServices
  <2>3. at \in Nat
    BY <2>1 DEF IInv, TypeOK, ProgressOK
  <2>4. Encrypts(me) /\ input' = input
    <3>1. Value(ProtocolKey) = "https"
      BY <1>5 DEF handleBackendProtocol, ProtocolKey
    <3> QED
      BY <1>5, <2>1, <3>1, EffectHandled, HandledProgress DEF Encrypts
  <2>5. Encrypted' = Encrypted \union {<<me, at>>}
    <3>1. \A nn \in Ingresses : \A i \in ActiveRules(nn) :
            (Over(nn, i, ProtocolKey)' <=> Over(nn, i, ProtocolKey) \/ <<nn, i>> \in {<<me, at>>})
      BY <1>5, <2>1, EffectHandled, HandledProgress
    <3>2. PICK more : more = {<<me, at>>}
      OBVIOUS
    <3>3. /\ more \subseteq {nn \in Ingresses : Encrypts(nn)} \X Nat
          /\ \A e \in more : e[2] \in ActiveRules(e[1])
      BY <2>2, <2>3, <2>4, <3>2
    <3>4. Encrypted' = Encrypted \union more
      BY <2>4, <3>1, <3>2, <3>3, EncryptedGrows
    <3> QED
      BY <3>2, <3>4
  <2>6. svcs = UNION {ServicesUpTo(e[1], e[2]) : e \in {<<me, at>>}}
    BY <2>2
  <2>7. backendTLS' = [s \in DOMAIN backendTLS \union svcs |->
           BackendTLSPorts(s) \union (IF s \in svcs THEN {FirstPort(ThisRoute, s)} ELSE {})]
    BY <1>5, <2>1 DEF handleBackendProtocol
  <2>8. \A s \in svcs : FirstPort(ThisRoute, s) = PortOf(me, host, s)
    BY <2>1, <2>2, CurrentPorts
  <2>9. \A s : (IF s \in svcs THEN {FirstPort(ThisRoute, s)} ELSE {}) =
                 {PortOf(e[1], HostOf(e[1], e[2]), s) :
                    e \in {x \in {<<me, at>>} : s \in ServicesUpTo(x[1], x[2])}}
    <3>1. PICK e : e = <<me, at>>
      OBVIOUS
    <3>2. e = <<me, at>> /\ e[1] = me /\ e[2] = at
      BY <3>1
    <3>3. ASSUME NEW s
          PROVE  (IF s \in svcs THEN {FirstPort(ThisRoute, s)} ELSE {}) =
                   {PortOf(x[1], HostOf(x[1], x[2]), s) :
                      x \in {y \in {e} : s \in ServicesUpTo(y[1], y[2])}}
      <4>1. CASE s \in svcs
        <5>1. {y \in {e} : s \in ServicesUpTo(y[1], y[2])} = {e}
          BY <2>2, <3>2, <4>1
        <5>2. PortOf(e[1], HostOf(e[1], e[2]), s) = FirstPort(ThisRoute, s)
          BY <2>1, <2>8, <3>2, <4>1
        <5> QED
          BY <4>1, <5>1, <5>2
      <4>2. CASE s \notin svcs
        <5>1. {y \in {e} : s \in ServicesUpTo(y[1], y[2])} = {}
          BY <2>2, <3>2, <4>2
        <5> QED
          BY <4>2, <5>1
      <4> QED
        BY <4>1, <4>2
    <3> QED
      BY <3>2, <3>3
  <2>10. backendTLS' = [s \in DOMAIN backendTLS \union svcs |->
           BackendTLSPorts(s) \union
             {PortOf(e[1], HostOf(e[1], e[2]), s) :
                e \in {x \in {<<me, at>>} : s \in ServicesUpTo(x[1], x[2])}}]
    BY <2>7, <2>9
  <2> QED
    BY <2>4, <2>5, <2>6, <2>10, TLSKept
<1>6. ASSUME NEW k, Effect(k)
      PROVE  TLSBook'
  BY <1>3, <1>4, <1>5, <1>6 DEF Effect, ProtocolKey
<1> QED
  BY <1>2, <1>6, NextEffect

(* At every moment backend TLS covers the services of exactly those rules   *)
(* whose Ingress asks for https and that have had their turn, each on the   *)
(* port the whole Ingress gives it.                                         *)
THEOREM TLSBookkeeping == Spec => []TLSBook
<1>1. Init => TLSBook
  <2>1. ASSUME Init
        PROVE  TLSBook
    <3>1. backendTLS = [svc \in {} |-> {}] /\ phase = "setup" /\ todo = Ingresses
      BY <2>1, Zenon DEF Init, EngineInit
    <3>2. \A nn, i, k : ~Over(nn, i, k)
      BY <3>1 DEF Over
    <3>3. Encrypted = {}
      BY <3>2 DEF Encrypted
    <3> QED
      BY <3>1, <3>3 DEF TLSBook
  <2> QED
    BY <2>1
<1>2. IInv /\ ProgressInv /\ RulesServed /\ TLSBook /\ [Next]_vars => TLSBook'
  BY TLSStepBook
<1> QED
  BY <1>1, <1>2, Invariance, Progress, ServedBackends, PTL DEF Spec

(* BackendTLSPolicies at the end cover exactly the services of the          *)
(* Ingresses that ask for https, each with the first port of the service on *)
(* every such route.                                                        *)
THEOREM BackendTLSSafety == Spec => []BackendTLSAsDeclared
<1>1. IInv /\ ProgressInv /\ TLSBook => BackendTLSAsDeclared
  <2>1. ASSUME IInv, ProgressInv, TLSBook, Done
        PROVE  backendTLS = [svc \in {s \in UNION {DeclaredServices(p[1], p[2]) : p \in ActivePairs} :
                                        DeclaredTLSPorts(s) # {}} |-> DeclaredTLSPorts(svc)]
    <3>1. \A e : e \in Encrypted <=> \E nn \in Ingresses : \E i \in ActiveRules(nn) :
                                      e = <<nn, i>> /\ Encrypts(nn)
      BY <2>1 DEF Encrypted, Over, ProgressInv, Done, InTurn
    <3>2. \A p : p \in ActivePairs <=> \E nn \in Ingresses : \E i \in ActiveRules(nn) :
                                        p = <<nn, HostOf(nn, i)>>
      BY DEF ActivePairs, ActiveHosts, HostOf
    <3>3. ASSUME NEW nn \in Ingresses, NEW i \in ActiveRules(nn), NEW s \in ServicesUpTo(nn, i)
          PROVE  s \in DeclaredServices(nn, HostOf(nn, i))
      BY <2>1, <3>3, ServicesDeclared DEF IInv, TypeOK, ProgressOK
    <3>4. ASSUME NEW nn \in Ingresses, NEW h, NEW s \in DeclaredServices(nn, h)
          PROVE  \E i \in ActiveRules(nn) : HostOf(nn, i) = h /\ s \in ServicesUpTo(nn, i)
      BY <2>1, <3>4, ServicesDeclared DEF IInv, TypeOK, ProgressOK
    <3>5. ASSUME NEW s
          PROVE  DeclaredTLSPorts(s) = EncryptedPorts(s)
      <4> DEFINE users == {p \in ActivePairs : Encrypts(p[1]) /\ s \in DeclaredServices(p[1], p[2])}
                 rules == {x \in Encrypted : s \in ServicesUpTo(x[1], x[2])}
      <4>1. DeclaredTLSPorts(s) = {PortOf(p[1], p[2], s) : p \in users}
        BY DEF DeclaredTLSPorts, PortOf, PairNN, Encrypts, ProtocolKey
      <4>2. EncryptedPorts(s) = {PortOf(e[1], HostOf(e[1], e[2]), s) : e \in rules}
        BY DEF EncryptedPorts
      <4>3. ASSUME NEW p \in users
            PROVE  \E e \in rules : PortOf(p[1], p[2], s) = PortOf(e[1], HostOf(e[1], e[2]), s)
        <5>1. PICK nn, h : p = <<nn, h>> /\ nn \in Ingresses /\ Encrypts(nn) /\ s \in DeclaredServices(nn, h)
          BY <3>2, <4>3
        <5>2. PICK i \in ActiveRules(nn) : HostOf(nn, i) = h /\ s \in ServicesUpTo(nn, i)
          BY <3>4, <5>1
        <5>3. PICK e : e = <<nn, i>>
          OBVIOUS
        <5>4. e \in rules /\ e[1] = nn /\ e[2] = i
          BY <3>1, <5>1, <5>2, <5>3
        <5> QED
          BY <5>1, <5>2, <5>4
      <4>4. ASSUME NEW e \in rules
            PROVE  \E p \in users : PortOf(p[1], p[2], s) = PortOf(e[1], HostOf(e[1], e[2]), s)
        <5>1. PICK nn, i : e = <<nn, i>> /\ nn \in Ingresses /\ i \in ActiveRules(nn) /\ Encrypts(nn)
                           /\ s \in ServicesUpTo(nn, i)
          BY <3>1, <4>4
        <5>2. PICK p : p = <<nn, HostOf(nn, i)>>
          OBVIOUS
        <5>3. p \in users /\ p[1] = nn /\ p[2] = HostOf(nn, i)
          BY <3>2, <3>3, <5>1, <5>2
        <5> QED
          BY <5>1, <5>3
      <4> HIDE DEF users, rules
      <4> QED
        BY <4>1, <4>2, <4>3, <4>4
    <3>6. ASSUME NEW s
          PROVE  s \in DOMAIN backendTLS <=> EncryptedPorts(s) # {}
      BY <2>1 DEF TLSBook, EncryptedPorts
    <3>7. ASSUME NEW s \in DOMAIN backendTLS
          PROVE  s \in UNION {DeclaredServices(p[1], p[2]) : p \in ActivePairs}
      <4>1. PICK nn, i : nn \in Ingresses /\ i \in ActiveRules(nn) /\ s \in ServicesUpTo(nn, i)
        BY <2>1, <3>1, <3>7 DEF TLSBook
      <4>2. PICK p : p = <<nn, HostOf(nn, i)>>
        OBVIOUS
      <4>3. p \in ActivePairs /\ s \in DeclaredServices(p[1], p[2])
        BY <3>2, <3>3, <4>1, <4>2
      <4> QED
        BY <4>3
    <3>8. DOMAIN backendTLS = {s \in UNION {DeclaredServices(p[1], p[2]) : p \in ActivePairs} :
                                 DeclaredTLSPorts(s) # {}}
      BY <3>5, <3>6, <3>7
    <3>9. \A s \in DOMAIN backendTLS : backendTLS[s] = DeclaredTLSPorts(s)
      BY <2>1, <3>5 DEF TLSBook
    <3>10. backendTLS = [s \in DOMAIN backendTLS |-> backendTLS[s]]
      BY <2>1 DEF TLSBook
    <3> QED
      BY <3>8, <3>9, <3>10
  <2> QED
    BY <2>1 DEF BackendTLSAsDeclared
<1> QED
  BY <1>1, TLSBookkeeping, Invariance, Progress, PTL
=============================================================================
