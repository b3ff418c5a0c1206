--------------------------- MODULE NGINXOutcomeProofs ---------------------------
(***************************************************************************)
(* Proofs that the report of an NGINX conversion and the statuses of its   *)
(* Ingresses are true, one step for every handler, on top of the lemmas of *)
(* OutcomeProofs; that the policies of routes and of listeners are in the  *)
(* end those the Ingresses declare, on top of ProgressProofs: each from an *)
(* invariant that says the same of the annotations handled so far; and that*)
(* the rules of a route are its backends, behind the redirects of app-root,*)
(* each rule as the handled annotations of its Ingress have it.            *)
(*                                                                         *)
(* The NGINX handlers set an annotation that asks for nothing to Ignored,  *)
(* and the report leaves it out.  That hides nothing, since such a value   *)
(* is ignored on every pass: QuietInv.                                     *)
(***************************************************************************)
EXTENDS NGINXProofs, ProgressProofs

(* The values a handler ignores, or the engine does.                        *)
Quiet(nn, k) ==
  LET value == Ingress(nn).annos[k] IN
  \/ k = LastApplied
  \/ k \in RedirectKeys /\ value.kind = "empty"
  \/ k \in RedirectCodeKeys /\ value = Unset
  \/ k = "from-to-www-redirect" /\ (value # "true" \/ Ingress(nn).rules[1].host \in WWWHosts)
  \/ k = "ssl-redirect" /\ value = "false"
  \/ k = "upstream-vhost" /\ value = Unset
  \/ k = "load-balance" /\ value = "round_robin"

(* Nothing comes of them.                                                   *)
QuietInv ==
  \A nn \in Ingresses : \A k \in DOMAIN anno[nn] :
    Quiet(nn, k) => anno[nn][k].issues = {} /\ anno[nn][k].dests = {}

Books == BookInv /\ QuietInv

-----------------------------------------------------------------------------
(* The shapes of a handler.                                                  *)

(* What a handler may do to its annotation: it adds issues and destinations *)
(* that show, returns an error when it rejects a setting, and adds nothing  *)
(* to what is to be ignored.                                                *)
Recorded(k, a, err, issues, dests) ==
  /\ Outcome(Anno(k), a, issues, dests)
  /\ err \/ issues \intersect RejectingIssues = {}
  /\ Quiet(cur, k) => issues = {} /\ dests = {}

LEMMA RecordedBooks ==
  ASSUME IInv, Books, NEW k, NEW a, NEW err \in BOOLEAN, NEW issues, NEW dests,
         Take(k), Finish(k, a, err), Recorded(k, a, err, issues, dests),
         StoredResources' = StoredResources \union dests, NamesKept
  PROVE  Books'
<1>1. BookInv'
  <2>1. k = LastApplied => issues = {} /\ dests = {}
    BY DEF Recorded, Quiet
  <2> QED
    BY <2>1, HandlerBooks DEF Books, Recorded
<1>2. QuietInv'
  <2>1. /\ Ingresses' = Ingresses /\ cur \in Ingresses /\ k \in DOMAIN anno[cur]
        /\ \A nn \in Ingresses :
             /\ DOMAIN anno'[nn] = DOMAIN anno[nn]
             /\ \A j \in DOMAIN anno[nn] :
                  anno'[nn][j] = IF nn = cur /\ j = k THEN a ELSE anno[nn][j]
    BY OneAnnotation
  <2>2. \A nn, j : Quiet(nn, j)' = Quiet(nn, j)
    BY DEF Quiet, Ingress, Finish, progressVars
  <2>3. Quiet(cur, k) => a.issues = {} /\ a.dests = {}
    BY <2>1 DEF Recorded, Outcome, Books, QuietInv, Anno
  <2> QED
    BY <2>1, <2>2, <2>3 DEF Books, QuietInv
<1> QED
  BY <1>1, <1>2 DEF Books

(* What most handlers make of their annotation.                             *)
LEMMA Records ==
  ASSUME IInv, Books, NEW k, NEW err, Take(k)
  PROVE  /\ Recorded(k, Anno(k), err, {}, {})
         /\ Recorded(k, Succeeded(k), err, {}, {})
         /\ Quiet(cur, k) => Recorded(k, SetStatus(Anno(k), Ignored), err, {}, {})
         /\ ~Quiet(cur, k) =>
              \A code \in IssueCode : err \/ code \notin RejectingIssues =>
                /\ Recorded(k, RegisterIssue(Anno(k), code), err, {code}, {})
                /\ \A s \in Reportable :
                     Recorded(k, SetStatus(RegisterIssue(Anno(k), code), s), err, {code}, {})
<1>1. Accounted(Anno(k))
  BY CurrentAccounted DEF Books
<1>2. {} \intersect RejectingIssues = {}
  OBVIOUS
<1>3. Recorded(k, Anno(k), err, {}, {})
  BY <1>1, <1>2 DEF Recorded, Outcome
<1>4. Recorded(k, Succeeded(k), err, {}, {})
  <2>1. Outcome(Anno(k), Succeeded(k), {}, {})
    BY <1>1, SetStatusOutcome DEF Succeeded, Reportable
  <2> QED
    BY <1>2, <2>1 DEF Recorded
<1>5. ASSUME Quiet(cur, k)
      PROVE  Recorded(k, SetStatus(Anno(k), Ignored), err, {}, {})
  <2>1. Anno(k).issues = {} /\ Anno(k).dests = {}
    BY <1>5, CurrentAnnotation DEF Books, QuietInv, Anno
  <2>2. Outcome(Anno(k), SetStatus(Anno(k), Ignored), {}, {})
    BY <1>1, <2>1, IgnoredOutcome
  <2> QED
    BY <1>2, <2>2 DEF Recorded
<1>6. ASSUME ~Quiet(cur, k), NEW code \in IssueCode, err \/ code \notin RejectingIssues
      PROVE  /\ Recorded(k, RegisterIssue(Anno(k), code), err, {code}, {})
             /\ \A s \in Reportable :
                  Recorded(k, SetStatus(RegisterIssue(Anno(k), code), s), err, {code}, {})
  <2> DEFINE b == RegisterIssue(Anno(k), code)
  <2>1. Outcome(Anno(k), b, {code}, {})
    BY <1>1, RegisterIssueOutcome
  <2> HIDE DEF b
  <2>2. \A s \in Reportable : Outcome(b, SetStatus(b, s), {}, {})
    BY <2>1, SetStatusOutcome DEF Outcome
  <2>3. \A s \in Reportable : Outcome(Anno(k), SetStatus(b, s), {code}, {})
    BY <2>1, <2>2 DEF Outcome
  <2>4. err \/ {code} \intersect RejectingIssues = {}
    BY <1>6
  <2>5. Recorded(k, b, err, {code}, {})
    BY <1>6, <2>1, <2>4 DEF Recorded
  <2>6. \A s \in Reportable : Recorded(k, SetStatus(b, s), err, {code}, {})
    BY <1>6, <2>3, <2>4 DEF Recorded
  <2> QED
    BY <2>5, <2>6 DEF b
<1> QED
  BY <1>3, <1>4, <1>5, <1>6

(* One that only reports.                                                   *)
LEMMA NoticeBooks ==
  ASSUME IInv, Books, NEW k, NEW a, NEW err \in BOOLEAN, NEW issues,
         Notice(k, a, err), Recorded(k, a, err, issues, {})
  PROVE  Books'
<1>1. Take(k) /\ Finish(k, a, err) /\ UNCHANGED <<graphVars, policyVars>>
  BY DEF Notice
<1>2. StoredResources' = StoredResources \union {} /\ NamesKept
  BY <1>1, NothingStored DEF NamesKept, graphVars
<1> QED
  BY <1>1, <1>2, RecordedBooks

(* One that goes over the rules of the current route.                       *)
LEMMA RewriteRulesBooks ==
  ASSUME IInv, Books, NEW k, NEW rules, NEW a, NEW issues,
         RewriteRules(k, rules, a), Recorded(k, a, FALSE, issues, {})
  PROVE  Books'
<1>1. /\ Take(k) /\ Finish(k, a, FALSE) /\ ModifyRules(rules)
      /\ UNCHANGED <<graphRoutes, policyVars>>
  BY DEF RewriteRules
<1>2. NamesKept
  BY <1>1, RulesChanged DEF Take
<1>3. StoredResources' = StoredResources \union {}
  BY <1>1, NothingStored
<1> QED
  BY <1>1, <1>2, <1>3, RecordedBooks

(* One that sets up the policy of the current route.                        *)
LEMMA SetRoutePolicyBooks ==
  ASSUME IInv, Books, NEW k, NEW policy, SetRoutePolicy(k, policy), ~Quiet(cur, k)
  PROVE  Books'
<1> DEFINE d == Resource("RoutePolicy", ThisRoute.nn)
           a == AddDestination(Anno(k), d)
<1>1. /\ Take(k) /\ Finish(k, a, FALSE)
      /\ routePolicies' = InsertAt(routePolicies, ThisRoute.nn, policy)
      /\ UNCHANGED <<graphVars, routeWAF, healthPolicies, backendTLS, frontendTLS>>
  BY DEF SetRoutePolicy
<1>2. DOMAIN routePolicies' = DOMAIN routePolicies \union {ThisRoute.nn}
  BY <1>1 DEF InsertAt
<1>3. StoredResources' = StoredResources \union Kind("RoutePolicy", {ThisRoute.nn})
  BY <1>1, <1>2, RoutePoliciesStored DEF graphVars
<1>4. StoredResources' = StoredResources \union {d} /\ NamesKept
  BY <1>1, <1>3 DEF Kind, NamesKept, graphVars
<1>5. Outcome(Anno(k), a, {}, {d}) /\ {} \intersect RejectingIssues = {}
  BY <1>1, CurrentAccounted, AddDestinationOutcome DEF Books
<1> HIDE DEF a, d
<1>6. Recorded(k, a, FALSE, {}, {d})
  BY <1>5 DEF Recorded
<1> QED
  BY <1>1, <1>4, <1>6, RecordedBooks

(* One that sets up the TLS policies of the listeners, with an issue.       *)
LEMMA SetFrontendTLSBooks ==
  ASSUME IInv, Books, NEW k, NEW settings, NEW a, SetFrontendTLS(k, settings, a), ~Quiet(cur, k),
         DOMAIN settings = DOMAIN frontendTLS \union Listeners,
         NEW code \in IssueCode \ RejectingIssues,
         \/ a = RegisterIssue(AtListeners(k), code)
         \/ a = SetStatus(RegisterIssue(AtListeners(k), code), Warning)
  PROVE  Books'
<1> DEFINE dests == {Resource("FrontendTLSPolicy", s) : s \in Listeners}
           b     == AtListeners(k)
           c     == RegisterIssue(b, code)
<1>1. /\ Take(k) /\ Finish(k, a, FALSE) /\ frontendTLS' = settings
      /\ UNCHANGED <<graphVars, routePolicies, routeWAF, healthPolicies, backendTLS>>
  BY DEF SetFrontendTLS
<1>2. StoredResources' = StoredResources \union Kind("FrontendTLSPolicy", Listeners)
  BY <1>1, FrontendTLSStored DEF graphVars
<1>3. StoredResources' = StoredResources \union dests /\ NamesKept
  BY <1>1, <1>2 DEF Kind, NamesKept, graphVars
<1>4. Outcome(Anno(k), b, {}, dests)
  BY <1>1, CurrentAccounted, AddDestinationsOutcome DEF Books, AtListeners
<1> HIDE DEF b, dests
<1>5. Outcome(b, c, {code}, {})
  BY <1>4, RegisterIssueOutcome DEF Outcome
<1> HIDE DEF c
<1>6. a = c \/ a = SetStatus(c, Warning)
  BY DEF b, c
<1>7. Outcome(c, a, {}, {})
  <2>1. Outcome(c, c, {}, {}) /\ Outcome(c, SetStatus(c, Warning), {}, {})
    BY <1>5, SetStatusOutcome DEF Outcome, Reportable
  <2> QED
    BY <1>6, <2>1
<1>8. Outcome(Anno(k), a, {code}, dests)
  BY <1>4, <1>5, <1>7 DEF Outcome
<1>9. Recorded(k, a, FALSE, {code}, dests)
  BY <1>8 DEF Recorded
<1> QED
  BY <1>1, <1>3, <1>9, RecordedBooks

-----------------------------------------------------------------------------
(* The handlers of routes.                                                   *)

(* The early returns of the handlers of routes, and those that only mark    *)
(* what another one reads.                                                  *)
LEMMA RouteNoticesBooks ==
  ASSUME IInv, Books,
         \/ \E k \in pending : EmptyRedirectURL(k)
         \/ \E k \in pending : InvalidRedirectURL(k)
         \/ \E k \in pending : EmptyRedirectCode(k)
         \/ \E k \in pending : InvalidRedirectCode(k)
         \/ \E k \in pending : InvalidSSLRedirect(k)
         \/ \E k \in pending : DisabledSSLRedirect(k)
         \/ \E k \in pending : RepeatedSSLRedirect(k)
         \/ EmptyUpstreamVhost
         \/ InvalidCanaryWeight
         \/ InvalidCanaryHeader
         \/ \E k \in pending : handleReadElsewhere(k)
  PROVE  Books'
<1>1. ASSUME NEW k \in pending, EmptyRedirectURL(k)
      PROVE  Books'
  <2> DEFINE a == SetStatus(Anno(k), Ignored)
  <2>1. Take(k) /\ Notice(k, a, FALSE) /\ Quiet(cur, k)
    BY <1>1 DEF EmptyRedirectURL, Quiet, Value, This
  <2>2. Recorded(k, a, FALSE, {}, {})
    BY <2>1, Records
  <2> HIDE DEF a
  <2> QED
    BY <2>1, <2>2, NoticeBooks
<1>2. ASSUME NEW k \in pending, InvalidRedirectURL(k)
      PROVE  Books'
  <2> DEFINE a == SetStatus(RegisterIssue(Anno(k), "NGINXRedirectURLInvalid"), NotSupported)
  <2>1. Take(k) /\ Notice(k, a, FALSE) /\ ~Quiet(cur, k)
    BY <1>2 DEF InvalidRedirectURL, Quiet, Value, This, RedirectKeys, RedirectCodeKeys, LastApplied
  <2>2. Recorded(k, a, FALSE, {"NGINXRedirectURLInvalid"}, {})
    BY <2>1, Records, IssueCodes DEF Reportable, RejectingIssues
  <2> HIDE DEF a
  <2> QED
    BY <2>1, <2>2, NoticeBooks
<1>3. ASSUME NEW k \in pending, EmptyRedirectCode(k)
      PROVE  Books'
  <2> DEFINE a == SetStatus(Anno(k), Ignored)
  <2>1. Take(k) /\ Notice(k, a, FALSE) /\ Quiet(cur, k)
    BY <1>3 DEF EmptyRedirectCode, Quiet, Value, This
  <2>2. Recorded(k, a, FALSE, {}, {})
    BY <2>1, Records
  <2> HIDE DEF a
  <2> QED
    BY <2>1, <2>2, NoticeBooks
<1>4. ASSUME NEW k \in pending, InvalidRedirectCode(k)
      PROVE  Books'
  <2> DEFINE a == SetStatus(RegisterIssue(Anno(k), "NGINXRedirectCodeInvalid"), NotSupported)
  <2>1. Take(k) /\ Notice(k, a, FALSE) /\ ~Quiet(cur, k)
    BY <1>4 DEF InvalidRedirectCode, Quiet, Value, This, RedirectKeys, RedirectCodeKeys, LastApplied
  <2>2. Recorded(k, a, FALSE, {"NGINXRedirectCodeInvalid"}, {})
    BY <2>1, Records, IssueCodes DEF Reportable, RejectingIssues
  <2> HIDE DEF a
  <2> QED
    BY <2>1, <2>2, NoticeBooks
<1>5. ASSUME NEW k \in pending, InvalidSSLRedirect(k)
      PROVE  Books'
  <2> DEFINE a == SetStatus(Rejected(k), Error)
  <2>1. Take(k) /\ Notice(k, a, TRUE) /\ ~Quiet(cur, k)
    BY <1>5 DEF InvalidSSLRedirect, Quiet, Value, This, SSLRedirectKeys, RedirectKeys, RedirectCodeKeys, LastApplied, Invalid
  <2>2. Recorded(k, a, TRUE, {"InvalidAnnotationValue"}, {})
    BY <2>1, Records, IssueCodes DEF Reportable, RejectingIssues, Rejected
  <2> HIDE DEF a
  <2> QED
    BY <2>1, <2>2, NoticeBooks
<1>6. ASSUME NEW k \in pending, DisabledSSLRedirect(k)
      PROVE  Books'
  <2> DEFINE a == SetStatus(Anno(k), IF k = "ssl-redirect" THEN Ignored ELSE Completed)
  <2>1. Take(k) /\ Notice(k, a, FALSE) /\ (k = "ssl-redirect" => Quiet(cur, k))
    BY <1>6 DEF DisabledSSLRedirect, Quiet, Value, This
  <2>2. Recorded(k, a, FALSE, {}, {})
    BY <2>1, Records DEF Succeeded
  <2> HIDE DEF a
  <2> QED
    BY <2>1, <2>2, NoticeBooks
<1>7. ASSUME NEW k \in pending, RepeatedSSLRedirect(k)
      PROVE  Books'
  <2> DEFINE a == Succeeded(k)
  <2>1. Take(k) /\ Notice(k, a, FALSE)
    BY <1>7 DEF RepeatedSSLRedirect
  <2>2. Recorded(k, a, FALSE, {}, {})
    BY <2>1, Records
  <2> HIDE DEF a
  <2> QED
    BY <2>1, <2>2, NoticeBooks
<1>8. CASE EmptyUpstreamVhost
  <2> DEFINE k == "upstream-vhost"
             a == SetStatus(Anno(k), Ignored)
  <2>1. Take(k) /\ Notice(k, a, FALSE) /\ Quiet(cur, k)
    BY <1>8 DEF EmptyUpstreamVhost, Quiet, Value, This
  <2>2. Recorded(k, a, FALSE, {}, {})
    BY <2>1, Records
  <2> HIDE DEF k, a
  <2> QED
    BY <2>1, <2>2, NoticeBooks
<1>9. CASE InvalidCanaryWeight
  <2> DEFINE k == "canary-weight"
             a == Anno(k)
  <2>1. Take(k) /\ Notice(k, a, TRUE)
    BY <1>9 DEF InvalidCanaryWeight
  <2>2. Recorded(k, a, TRUE, {}, {})
    BY <2>1, Records
  <2> HIDE DEF k, a
  <2> QED
    BY <2>1, <2>2, NoticeBooks
<1>10. CASE InvalidCanaryHeader
  <2> DEFINE k == "canary-by-header"
             a == Anno(k)
  <2>1. Take(k) /\ Notice(k, a, TRUE)
    BY <1>10 DEF InvalidCanaryHeader
  <2>2. Recorded(k, a, TRUE, {}, {})
    BY <2>1, Records
  <2> HIDE DEF k, a
  <2> QED
    BY <2>1, <2>2, NoticeBooks
<1>11. ASSUME NEW k \in pending, handleReadElsewhere(k)
      PROVE  Books'
  <2> DEFINE a == Succeeded(k)
  <2>1. Take(k) /\ Notice(k, a, FALSE)
    BY <1>11 DEF handleReadElsewhere, Notice
  <2>2. Recorded(k, a, FALSE, {}, {})
    BY <2>1, Records
  <2> HIDE DEF a
  <2> QED
    BY <2>1, <2>2, NoticeBooks
<1> QED
  BY <1>1, <1>2, <1>3, <1>4, <1>5, <1>6, <1>7, <1>8, <1>9, <1>10, <1>11
(* The handlers that return early in one of several ways.                   *)
LEMMA RouteAlternativesBooks ==
  ASSUME IInv, Books, NoWWWRedirect \/ UnusedRegex
  PROVE  Books'
<1>1. CASE NoWWWRedirect
  <2> DEFINE k == "from-to-www-redirect"
             a == SetStatus(Anno(k), Ignored)
             b == SetStatus(RegisterIssue(Anno(k), "NGINXFromToWWWRedirectNoHost"), NotSupported)
  <2>1. \/ Take(k) /\ Notice(k, a, FALSE) /\ Quiet(cur, k)
        \/ Take(k) /\ Notice(k, b, FALSE) /\ ~Quiet(cur, k)
    BY <1>1, WWWHostsAssumption
       DEF NoWWWRedirect, Quiet, Value, This, FirstHost, RedirectKeys, RedirectCodeKeys, LastApplied
  <2>2. CASE Take(k) /\ Notice(k, a, FALSE) /\ Quiet(cur, k)
    <3>1. Recorded(k, a, FALSE, {}, {})
      BY <2>2, Records
    <3> HIDE DEF k, a
    <3> QED
      BY <2>2, <3>1, NoticeBooks
  <2>3. CASE Take(k) /\ Notice(k, b, FALSE) /\ ~Quiet(cur, k)
    <3>1. Recorded(k, b, FALSE, {"NGINXFromToWWWRedirectNoHost"}, {})
      BY <2>3, Records, IssueCodes DEF Reportable, RejectingIssues
    <3> HIDE DEF k, b
    <3> QED
      BY <2>3, <3>1, NoticeBooks
  <2> QED
    BY <2>1, <2>2, <2>3
<1>2. CASE UnusedRegex
  <2> DEFINE k == "use-regex"
  <2>1. Take(k) /\ (Notice(k, Rejected(k), TRUE) \/ Notice(k, Succeeded(k), FALSE)) /\ ~Quiet(cur, k)
    BY <1>2 DEF UnusedRegex, Quiet, RedirectKeys, RedirectCodeKeys, LastApplied
  <2>2. /\ Recorded(k, Rejected(k), TRUE, {"InvalidAnnotationValue"}, {})
        /\ Recorded(k, Succeeded(k), FALSE, {}, {})
    BY <2>1, Records, IssueCodes DEF Rejected
  <2> HIDE DEF k
  <2> QED
    BY <2>1, <2>2, NoticeBooks
<1> QED
  BY <1>1, <1>2

(* The redirects.                                                           *)
LEMMA RedirectRulesBooks ==
  ASSUME IInv, Books,
         \/ handlePermanentRedirect
         \/ handleTemporalRedirect
         \/ handlePermanentRedirectCode
         \/ handleTemporalRedirectCode
         \/ handleFromToWWWRedirect
  PROVE  Books'
<1>1. CASE handlePermanentRedirect
  <2> DEFINE k == "permanent-redirect"
             a == Succeeded(k)
  <2>1. PICK rules : RewriteRules(k, rules, a)
    BY <1>1, Zenon DEF handlePermanentRedirect
  <2>2. Take(k)
    BY <2>1 DEF RewriteRules
  <2>3. Recorded(k, a, FALSE, {}, {})
    BY <2>2, Records
  <2> HIDE DEF k, a
  <2> QED
    BY <2>1, <2>3, RewriteRulesBooks
<1>2. CASE handleTemporalRedirect
  <2> DEFINE k == "temporal-redirect"
             a == Succeeded(k)
  <2>1. PICK rules : RewriteRules(k, rules, a)
    BY <1>2, Zenon DEF handleTemporalRedirect
  <2>2. Take(k)
    BY <2>1 DEF RewriteRules
  <2>3. Recorded(k, a, FALSE, {}, {})
    BY <2>2, Records
  <2> HIDE DEF k, a
  <2> QED
    BY <2>1, <2>3, RewriteRulesBooks
<1>3. CASE handlePermanentRedirectCode
  <2> DEFINE k == "permanent-redirect-code"
             a == Succeeded(k)
  <2>1. PICK rules : RewriteRules(k, rules, a)
    BY <1>3, Zenon DEF handlePermanentRedirectCode
  <2>2. Take(k)
    BY <2>1 DEF RewriteRules
  <2>3. Recorded(k, a, FALSE, {}, {})
    BY <2>2, Records
  <2> HIDE DEF k, a
  <2> QED
    BY <2>1, <2>3, RewriteRulesBooks
<1>4. CASE handleTemporalRedirectCode
  <2> DEFINE k == "temporal-redirect-code"
             a == Succeeded(k)
  <2>1. PICK rules : RewriteRules(k, rules, a)
    BY <1>4, Zenon DEF handleTemporalRedirectCode
  <2>2. Take(k)
    BY <2>1 DEF RewriteRules
  <2>3. Recorded(k, a, FALSE, {}, {})
    BY <2>2, Records
  <2> HIDE DEF k, a
  <2> QED
    BY <2>1, <2>3, RewriteRulesBooks
<1>5. CASE handleFromToWWWRedirect
  <2> DEFINE k == "from-to-www-redirect"
             a == SetStatus(RegisterIssue(Anno(k), "NGINXFromToWWWRedirectPartial"), Warning)
  <2>1. PICK rules : RewriteRules(k, rules, a)
    BY <1>5, Zenon DEF handleFromToWWWRedirect
  <2>2. Take(k)
    BY <2>1 DEF RewriteRules
  <2>3. ~Quiet(cur, k)
    BY <1>5 DEF handleFromToWWWRedirect, Quiet, Value, This, FirstHost, RedirectKeys, RedirectCodeKeys, LastApplied
  <2>4. Recorded(k, a, FALSE, {"NGINXFromToWWWRedirectPartial"}, {})
    BY <2>2, <2>3, Records, IssueCodes DEF Reportable, RejectingIssues
  <2> HIDE DEF k, a
  <2> QED
    BY <2>1, <2>4, RewriteRulesBooks
<1> QED
  BY <1>1, <1>2, <1>3, <1>4, <1>5

(* Rewrites, headers and canaries.                                          *)
LEMMA RuleChangesBooks ==
  ASSUME IInv, Books,
         \/ handleRewriteTarget
         \/ handleUseRegex
         \/ handleAppRoot
         \/ handleUpstreamVhost
         \/ handleXForwardedPrefix
         \/ handleConnectionProxyHeader
         \/ handleCanaryWeight
         \/ handleCanaryByHeader
  PROVE  Books'
<1>1. CASE handleRewriteTarget
  <2> DEFINE k == "rewrite-target"
             a == IF Value(k).groups
                    THEN SetStatus(RegisterIssue(Anno(k), "NGINXRewriteTargetCaptureGroups"), Warning)
                  ELSE Succeeded(k)
  <2>1. PICK rules : RewriteRules(k, rules, a)
    BY <1>1, Zenon DEF handleRewriteTarget
  <2>2. Take(k)
    BY <2>1 DEF RewriteRules
  <2>3. ~Quiet(cur, k)
    BY DEF Quiet, RedirectKeys, RedirectCodeKeys, LastApplied
  <2>4. PICK issues : Recorded(k, a, FALSE, issues, {})
    BY <2>2, <2>3, Records, IssueCodes DEF Reportable, RejectingIssues
  <2> HIDE DEF k, a
  <2> QED
    BY <2>1, <2>4, RewriteRulesBooks
<1>2. CASE handleUseRegex
  <2> DEFINE k == "use-regex"
             a == SetStatus(RegisterIssue(Anno(k), "NGINXUseRegexLimitedSupport"), Warning)
  <2>1. PICK rules : RewriteRules(k, rules, a)
    BY <1>2, Zenon DEF handleUseRegex
  <2>2. Take(k)
    BY <2>1 DEF RewriteRules
  <2>3. ~Quiet(cur, k)
    BY DEF Quiet, RedirectKeys, RedirectCodeKeys, LastApplied
  <2>4. Recorded(k, a, FALSE, {"NGINXUseRegexLimitedSupport"}, {})
    BY <2>2, <2>3, Records, IssueCodes DEF Reportable, RejectingIssues
  <2> HIDE DEF k, a
  <2> QED
    BY <2>1, <2>4, RewriteRulesBooks
<1>3. CASE handleAppRoot
  <2> DEFINE k == "app-root"
             a == Succeeded(k)
  <2>1. PICK rules : RewriteRules(k, rules, a)
    BY <1>3, Zenon DEF handleAppRoot
  <2>2. Take(k)
    BY <2>1 DEF RewriteRules
  <2>3. Recorded(k, a, FALSE, {}, {})
    BY <2>2, Records
  <2> HIDE DEF k, a
  <2> QED
    BY <2>1, <2>3, RewriteRulesBooks
<1>4. CASE handleUpstreamVhost
  <2> DEFINE k == "upstream-vhost"
             a == Succeeded(k)
  <2>1. PICK rules : RewriteRules(k, rules, a)
    BY <1>4, Zenon DEF handleUpstreamVhost
  <2>2. Take(k)
    BY <2>1 DEF RewriteRules
  <2>3. Recorded(k, a, FALSE, {}, {})
    BY <2>2, Records
  <2> HIDE DEF k, a
  <2> QED
    BY <2>1, <2>3, RewriteRulesBooks
<1>5. CASE handleXForwardedPrefix
  <2> DEFINE k == "x-forwarded-prefix"
             a == Succeeded(k)
  <2>1. PICK rules : RewriteRules(k, rules, a)
    BY <1>5, Zenon DEF handleXForwardedPrefix
  <2>2. Take(k)
    BY <2>1 DEF RewriteRules
  <2>3. Recorded(k, a, FALSE, {}, {})
    BY <2>2, Records
  <2> HIDE DEF k, a
  <2> QED
    BY <2>1, <2>3, RewriteRulesBooks
<1>6. CASE handleConnectionProxyHeader
  <2> DEFINE k == "connection-proxy-header"
             a == Succeeded(k)
  <2>1. PICK rules : RewriteRules(k, rules, a)
    BY <1>6, Zenon DEF handleConnectionProxyHeader
  <2>2. Take(k)
    BY <2>1 DEF RewriteRules
  <2>3. Recorded(k, a, FALSE, {}, {})
    BY <2>2, Records
  <2> HIDE DEF k, a
  <2> QED
    BY <2>1, <2>3, RewriteRulesBooks
<1>7. CASE handleCanaryWeight
  <2> DEFINE k == "canary-weight"
             a == SetStatus(RegisterIssue(Anno(k), "NGINXCanaryWeightRequiresManualMerge"), Warning)
  <2>1. PICK rules : RewriteRules(k, rules, a)
    BY <1>7, Zenon DEF handleCanaryWeight
  <2>2. Take(k)
    BY <2>1 DEF RewriteRules
  <2>3. ~Quiet(cur, k)
    BY DEF Quiet, RedirectKeys, RedirectCodeKeys, LastApplied
  <2>4. Recorded(k, a, FALSE, {"NGINXCanaryWeightRequiresManualMerge"}, {})
    BY <2>2, <2>3, Records, IssueCodes DEF Reportable, RejectingIssues
  <2> HIDE DEF k, a
  <2> QED
    BY <2>1, <2>4, RewriteRulesBooks
<1>8. CASE handleCanaryByHeader
  <2> DEFINE k == "canary-by-header"
             a == IF CanaryPattern = Unset /\ CanaryValue = Unset
                    THEN SetStatus(RegisterIssue(Anno(k), "NGINXCanaryHeaderApproximated"), Completed)
                  ELSE Succeeded(k)
  <2>1. PICK rules : RewriteRules(k, rules, a)
    BY <1>8, Zenon DEF handleCanaryByHeader
  <2>2. Take(k)
    BY <2>1 DEF RewriteRules
  <2>3. ~Quiet(cur, k)
    BY DEF Quiet, RedirectKeys, RedirectCodeKeys, LastApplied
  <2>4. PICK issues : Recorded(k, a, FALSE, issues, {})
    BY <2>2, <2>3, Records, IssueCodes DEF Reportable, RejectingIssues
  <2> HIDE DEF k, a
  <2> QED
    BY <2>1, <2>4, RewriteRulesBooks
<1> QED
  BY <1>1, <1>2, <1>3, <1>4, <1>5, <1>6, <1>7, <1>8

(* The aliases.                                                             *)
LEMMA ServerAliasBooks ==
  ASSUME IInv, Books, handleServerAlias
  PROVE  Books'
<1> DEFINE k == "server-alias"
           a == Succeeded(k)
<1>1. /\ Take(k) /\ Finish(k, a, FALSE) /\ UNCHANGED <<graphRoutes, policyVars>>
      /\ routes' = [routes EXCEPT ![ThisRouteId].hostnames = @ \o Value(k)]
  BY Zenon DEF handleServerAlias
<1>2. Recorded(k, a, FALSE, {}, {})
  BY <1>1, Records
<1> HIDE DEF k, a
<1>3. /\ ThisRouteId \in DOMAIN routes
      /\ \A id \in DOMAIN routes : DOMAIN routes[id] = HTTPRouteFields
  BY <1>1 DEF Take, IInv, TypeOK, ProgressOK, GraphOK
<1>4. NamesKept
  BY <1>1, <1>3 DEF NamesKept, HTTPRouteFields
<1>5. StoredResources' = StoredResources \union {}
  BY <1>1, NothingStored
<1> QED
  BY <1>1, <1>2, <1>4, <1>5, RecordedBooks

(* The redirect route is stored and named as the destination at once.       *)
LEMMA RedirectBooks ==
  ASSUME IInv, Books, NEW k, handleSSLRedirect(k)
  PROVE  Books'
<1> DEFINE d == Resource("HTTPRoute", RedirectNN)
           a == AddDestination(Anno(k), d)
<1>1. /\ Take(k) /\ Finish(k, a, FALSE) /\ ~redirect /\ UNCHANGED policyVars
      /\ routes' = InsertAt(routes, RedirectId, RedirectRoute)
      /\ graphRoutes' = InsertAt(graphRoutes, RedirectNN, RedirectId)
  BY DEF handleSSLRedirect
<1>2. NamesKept
  BY <1>1, RedirectIsNew DEF NamesKept, InsertAt
<1>3. DOMAIN graphRoutes' = DOMAIN graphRoutes \union {RedirectNN}
  BY <1>1 DEF InsertAt
<1>4. StoredResources' = StoredResources \union {d}
  <2>1. StoredResources' = StoredResources \union Kind("HTTPRoute", {RedirectNN})
    BY <1>1, <1>3, RoutesStored
  <2> QED
    BY <2>1 DEF Kind
<1>5. Outcome(Anno(k), a, {}, {d}) /\ {} \intersect RejectingIssues = {}
  BY <1>1, CurrentAccounted, AddDestinationOutcome DEF Books
<1>6. ~Quiet(cur, k)
  BY DEF handleSSLRedirect, Quiet, Value, This, SSLRedirectKeys, RedirectKeys, RedirectCodeKeys,
         LastApplied
<1> HIDE DEF a, d
<1>7. Recorded(k, a, FALSE, {}, {d})
  BY <1>5, <1>6 DEF Recorded
<1> QED
  BY <1>1, <1>2, <1>4, <1>7, RecordedBooks

-----------------------------------------------------------------------------
(* The handlers of policies.                                                 *)

(* No notice rejects a setting or is for an annotation that may be ignored. *)
LEMMA NoticesRecorded ==
  ASSUME NEW n \in Notices
  PROVE  /\ n.issue \in IssueCode \ RejectingIssues
         /\ n.then \in Reportable
         /\ ~Quiet(cur, n.key)
<1>1. /\ n.issue \in {"NGINXAuthTLSNotFullySupported", "NGINXAffinityCanaryBehaviorNotSupported",
                      "NGINXAffinityModeNotSupported", "NGINXConfigurationSnippetNotSupported",
                      "NGINXServerSnippetNotSupported", "NGINXDefaultBackendNotSupported",
                      "NGINXModSecurityConversion", "NGINXModSecurityTransactionID",
                      "NGINXProxySettingsPartialSupport", "NGINXSSLPolicyConversion",
                      "NGINXCanaryByCookieNotSupported"}
      /\ n.then \in {Warning, NotSupported}
  BY DEF Notices, AuthTLSNotices, AffinityNotices, SnippetNotices, DefaultBackendNotices,
         WAFNotices, TimeoutNotices, BufferNotices, CipherNotices, CookieNotices
<1>2. n.key \notin RedirectKeys \union RedirectCodeKeys
        \union {LastApplied, "from-to-www-redirect", "ssl-redirect", "upstream-vhost", "load-balance"}
  BY DEF Notices, AuthTLSNotices, AffinityNotices, SnippetNotices, DefaultBackendNotices,
         WAFNotices, TimeoutNotices, BufferNotices, CipherNotices, CookieNotices,
         RedirectKeys, RedirectCodeKeys, LastApplied
<1>3. n.issue \notin RejectingIssues
  BY <1>1 DEF RejectingIssues
<1> QED
  BY <1>1, <1>2, <1>3, NoticesOK DEF Reportable, Quiet

(* The handlers of policies that only report, and early returns.            *)
LEMMA PolicyNoticesBooks ==
  ASSUME IInv, Books,
         \/ \E n \in Notices : handleNotice(n)
         \/ handleLoadBalance
         \/ \E k \in pending : NoListeners(k)
         \/ \E k \in pending : InvalidPolicySetting(k)
         \/ OtherAffinity
  PROVE  Books'
<1> USE DEF LastApplied, RedirectKeys, RedirectCodeKeys
<1>1. ASSUME NEW n \in Notices, handleNotice(n)
      PROVE  Books'
  <2> DEFINE k == n.key
             a == SetStatus(RegisterIssue(Anno(k), n.issue), n.then)
  <2>1. Take(k) /\ Notice(k, a, FALSE)
    BY <1>1 DEF handleNotice, Notice
  <2>2. Recorded(k, a, FALSE, {n.issue}, {})
    BY <2>1, NoticesRecorded, Records
  <2> HIDE DEF k, a
  <2> QED
    BY <2>1, <2>2, NoticeBooks
<1>2. CASE handleLoadBalance
  <2> DEFINE k == "load-balance"
             b == SetStatus(Anno(k), Ignored)
             c == SetStatus(RegisterIssue(Anno(k), "NGINXLoadBalanceNotSupported"), NotSupported)
             a == IF Value(k) = "round_robin" THEN b ELSE c
  <2>1. Take(k) /\ Notice(k, a, FALSE)
    BY <1>2 DEF handleLoadBalance
  <2>2. Quiet(cur, k) <=> Value(k) = "round_robin"
    BY DEF Quiet, Value, This
  <2>3. PICK issues : Recorded(k, a, FALSE, issues, {})
    BY <2>1, <2>2, Records, IssueCodes DEF Reportable, RejectingIssues
  <2> HIDE DEF k, a
  <2> QED
    BY <2>1, <2>3, NoticeBooks
<1>3. ASSUME NEW k \in pending, NoListeners(k)
      PROVE  Books'
  <2> DEFINE a == RegisterIssue(Anno(k), "NoHTTPSListenersForSSLProfile")
  <2>1. Take(k) /\ Notice(k, a, FALSE) /\ ~Quiet(cur, k)
    BY <1>3 DEF NoListeners, ListenerKeys, Quiet
  <2>2. Recorded(k, a, FALSE, {"NoHTTPSListenersForSSLProfile"}, {})
    BY <2>1, Records, IssueCodes DEF RejectingIssues
  <2> HIDE DEF a
  <2> QED
    BY <2>1, <2>2, NoticeBooks
<1>4. ASSUME NEW k \in pending, InvalidPolicySetting(k)
      PROVE  Books'
  <2> DEFINE a == Rejected(k)
  <2>1. Take(k) /\ Notice(k, a, TRUE) /\ ~Quiet(cur, k)
    BY <1>4 DEF InvalidPolicySetting, DurationKeys, Quiet
  <2>2. Recorded(k, a, TRUE, {"InvalidAnnotationValue"}, {})
    BY <2>1, Records, IssueCodes DEF Rejected
  <2> HIDE DEF a
  <2> QED
    BY <2>1, <2>2, NoticeBooks
<1>5. CASE OtherAffinity
  <2> DEFINE k == "affinity"
             a == RegisterIssue(Anno(k), "NGINXAffinityTypeNotSupported")
  <2>1. Take(k) /\ Notice(k, a, FALSE) /\ ~Quiet(cur, k)
    BY <1>5 DEF OtherAffinity, Quiet
  <2>2. Recorded(k, a, FALSE, {"NGINXAffinityTypeNotSupported"}, {})
    BY <2>1, Records, IssueCodes DEF RejectingIssues
  <2> HIDE DEF k, a
  <2> QED
    BY <2>1, <2>2, NoticeBooks
<1> QED
  BY <1>1, <1>2, <1>3, <1>4, <1>5

(* The handlers that return early in one of several ways.                   *)
LEMMA PolicyAlternativesBooks ==
  ASSUME IInv, Books, NoClientVerification \/ (\E k \in pending : NoWAFWanted(k)) \/ OtherProtocol
  PROVE  Books'
<1> USE DEF LastApplied, RedirectKeys, RedirectCodeKeys
<1>1. CASE NoClientVerification
  <2> DEFINE k == "auth-tls-verify-client"
             a == SetStatus(RegisterIssue(Anno(k), "NGINXAuthTLSNotFullySupported"), NotSupported)
  <2>1. /\ Take(k) /\ ~Quiet(cur, k)
        /\ \/ Notice(k, Succeeded(k), FALSE)
           \/ Notice(k, a, FALSE)
           \/ Notice(k, Rejected(k), TRUE)
    BY <1>1 DEF NoClientVerification, Quiet
  <2>2. /\ Recorded(k, Succeeded(k), FALSE, {}, {})
        /\ Recorded(k, a, FALSE, {"NGINXAuthTLSNotFullySupported"}, {})
        /\ Recorded(k, Rejected(k), TRUE, {"InvalidAnnotationValue"}, {})
    BY <2>1, Records, IssueCodes DEF Rejected, Reportable, RejectingIssues
  <2> HIDE DEF k, a
  <2> QED
    BY <2>1, <2>2, NoticeBooks
<1>2. ASSUME NEW k \in pending, NoWAFWanted(k)
      PROVE  Books'
  <2>1. /\ Take(k) /\ ~Quiet(cur, k)
        /\ Notice(k, Rejected(k), TRUE) \/ Notice(k, Succeeded(k), FALSE)
    BY <1>2 DEF NoWAFWanted, WAFKeys, Quiet
  <2>2. /\ Recorded(k, Succeeded(k), FALSE, {}, {})
        /\ Recorded(k, Rejected(k), TRUE, {"InvalidAnnotationValue"}, {})
    BY <2>1, Records, IssueCodes DEF Rejected
  <2> QED
    BY <2>1, <2>2, NoticeBooks
<1>3. CASE OtherProtocol
  <2> DEFINE k == "backend-protocol"
             a == SetStatus(RegisterIssue(Anno(k), "GRPCNotSupportedByTool"), Completed)
             c == SetStatus(Anno(k), Error)
             b == RegisterIssue(c, "UnsupportBackendProtocol")
  <2>1. /\ Take(k) /\ ~Quiet(cur, k)
        /\ \/ Notice(k, Succeeded(k), FALSE)
           \/ Notice(k, a, FALSE)
           \/ Notice(k, b, TRUE)
    BY <1>3 DEF OtherProtocol, Quiet
  <2>2. /\ Recorded(k, Succeeded(k), FALSE, {}, {})
        /\ Recorded(k, a, FALSE, {"GRPCNotSupportedByTool"}, {})
    BY <2>1, Records, IssueCodes DEF Reportable, RejectingIssues
  <2>3. Outcome(Anno(k), c, {}, {})
    BY <2>1, CurrentAccounted, SetStatusOutcome DEF Books, Reportable
  <2> HIDE DEF c
  <2>4. Outcome(c, b, {"UnsupportBackendProtocol"}, {})
    BY <2>3, RegisterIssueOutcome, IssueCodes DEF Outcome
  <2>5. PICK issues : Recorded(k, b, TRUE, issues, {})
    BY <2>1, <2>3, <2>4, OutcomesAddUp DEF Recorded
  <2> HIDE DEF k, a, b
  <2> QED
    BY <2>1, <2>2, <2>5, NoticeBooks
<1> QED
  BY <1>1, <1>2, <1>3

(* The handlers of route policies.                                          *)
LEMMA RoutePolicyHandlersBooks ==
  ASSUME IInv, Books,
         \/ handleAffinity
         \/ \E k \in pending : handleSessionCookieExpires(k)
         \/ handleProxyReadTimeout
  PROVE  Books'
<1>1. PICK k \in {"affinity", "proxy-read-timeout"} \union DurationKeys :
        \E policy : SetRoutePolicy(k, policy)
  BY DEF handleAffinity, handleSessionCookieExpires, handleProxyReadTimeout
<1>2. ~Quiet(cur, k)
  BY DEF Quiet, DurationKeys, LastApplied, RedirectKeys, RedirectCodeKeys
<1> QED
  BY <1>1, <1>2, SetRoutePolicyBooks

(* The handlers of the TLS policies of listeners.                           *)
LEMMA ListenerHandlersBooks ==
  ASSUME IInv, Books,
         \/ handleAuthTLSSecret
         \/ handleAuthTLSVerifyClient
         \/ handleSSLCiphers
  PROVE  Books'
<1> USE DEF LastApplied, RedirectKeys, RedirectCodeKeys
<1>1. CASE handleAuthTLSSecret
  <2> DEFINE k        == "auth-tls-secret"
             code     == "NGINXAuthTLSNotFullySupported"
             settings == [s \in DOMAIN frontendTLS \union Listeners |->
                                   IF s \in Listeners
                                     THEN [FrontendTLS(s) EXCEPT !.verify = TRUE, !.ca = CASecret(cur, Value(k))]
                                     ELSE FrontendTLS(s)]
             a        == RegisterIssue(AtListeners(k), code)
  <2>1. SetFrontendTLS(k, settings, a)
    BY <1>1, Zenon DEF handleAuthTLSSecret
  <2>2. DOMAIN settings = DOMAIN frontendTLS \union Listeners
    OBVIOUS
  <2>3. ~Quiet(cur, k) /\ code \in IssueCode \ RejectingIssues
    BY IssueCodes DEF Quiet, RejectingIssues
  <2> HIDE DEF k, code, settings
  <2> QED
    BY <2>1, <2>2, <2>3, SetFrontendTLSBooks
<1>2. CASE handleAuthTLSVerifyClient
  <2> DEFINE k        == "auth-tls-verify-client"
             code     == "NGINXAuthTLSNotFullySupported"
             settings == [s \in DOMAIN frontendTLS \union Listeners |->
                                   IF s \in Listeners THEN [FrontendTLS(s) EXCEPT !.verify = TRUE]
                                     ELSE FrontendTLS(s)]
             a        == RegisterIssue(AtListeners(k), code)
  <2>1. SetFrontendTLS(k, settings, a)
    BY <1>2, Zenon DEF handleAuthTLSVerifyClient
  <2>2. DOMAIN settings = DOMAIN frontendTLS \union Listeners
    OBVIOUS
  <2>3. ~Quiet(cur, k) /\ code \in IssueCode \ RejectingIssues
    BY IssueCodes DEF Quiet, RejectingIssues
  <2> HIDE DEF k, code, settings
  <2> QED
    BY <2>1, <2>2, <2>3, SetFrontendTLSBooks
<1>3. CASE handleSSLCiphers
  <2> DEFINE k        == "ssl-ciphers"
             code     == "NGINXSSLPolicyConversion"
             settings == [s \in DOMAIN frontendTLS \union Listeners |->
                                   IF s \in Listeners /\ FrontendTLS(s).type = "none"
                                     THEN [FrontendTLS(s) EXCEPT !.type = "2023-06"]
                                     ELSE FrontendTLS(s)]
             a        == SetStatus(RegisterIssue(AtListeners(k), code), Warning)
  <2>1. SetFrontendTLS(k, settings, a)
    BY <1>3, Zenon DEF handleSSLCiphers
  <2>2. DOMAIN settings = DOMAIN frontendTLS \union Listeners
    OBVIOUS
  <2>3. ~Quiet(cur, k) /\ code \in IssueCode \ RejectingIssues
    BY IssueCodes DEF Quiet, RejectingIssues
  <2> HIDE DEF k, code, settings
  <2> QED
    BY <2>1, <2>2, <2>3, SetFrontendTLSBooks
<1> QED
  BY <1>1, <1>2, <1>3

(* The WAF policy of a route.                                               *)
LEMMA WAFBooks ==
  ASSUME IInv, Books, NEW k, handleWAF(k)
  PROVE  Books'
<1> DEFINE d    == Resource("WAFPolicy", ThisRoute.nn)
           code == "NGINXModSecurityConversion"
           b    == RegisterIssue(Anno(k), code)
           c    == AddDestination(b, d)
           a    == SetStatus(c, Warning)
<1>1. /\ k \in WAFKeys /\ Take(k) /\ Finish(k, a, FALSE)
      /\ \E id : routeWAF' = InsertAt(routeWAF, ThisRoute.nn, id)
      /\ UNCHANGED <<graphVars, routePolicies, healthPolicies, backendTLS, frontendTLS>>
  BY DEF handleWAF
<1>2. DOMAIN routeWAF' = DOMAIN routeWAF \union {ThisRoute.nn}
  BY <1>1 DEF InsertAt
<1>3. StoredResources' = StoredResources \union Kind("WAFPolicy", {ThisRoute.nn})
  BY <1>1, <1>2, WAFPoliciesStored DEF graphVars
<1>4. StoredResources' = StoredResources \union {d} /\ NamesKept
  BY <1>1, <1>3 DEF Kind, NamesKept, graphVars
<1>5. Outcome(Anno(k), b, {code}, {})
  BY <1>1, CurrentAccounted, RegisterIssueOutcome, IssueCodes DEF Books
<1> HIDE DEF b, d
<1>6. Outcome(b, c, {}, {d})
  BY <1>5, AddDestinationOutcome DEF Outcome
<1> HIDE DEF c
<1>7. Outcome(c, a, {}, {})
  BY <1>6, SetStatusOutcome DEF Outcome, Reportable
<1>8. Outcome(Anno(k), a, {code}, {d})
  BY <1>5, <1>6, <1>7 DEF Outcome
<1>9. ~Quiet(cur, k)
  BY <1>1 DEF Quiet, WAFKeys, LastApplied, RedirectKeys, RedirectCodeKeys
<1>10. Recorded(k, a, FALSE, {code}, {d})
  BY <1>8, <1>9 DEF Recorded, RejectingIssues
<1> HIDE DEF a, code
<1> QED
  BY <1>1, <1>4, <1>10, RecordedBooks

(* Backend TLS covers every service of the route, or there is none.         *)
LEMMA BackendProtocolBooks ==
  ASSUME IInv, Books, handleBackendProtocol
  PROVE  Books'
<1> DEFINE k     == "backend-protocol"
           svcs  == Services(ThisRoute)
           dests == {Resource("BackendTLSPolicy", s) : s \in svcs}
           code  == "CreatingBackendTLSPolicy"
           b     == IF Value(k) = "grpcs" THEN RegisterIssue(Anno(k), "GRPCNotSupportedByTool")
                    ELSE Anno(k)
           c     == SetStatus(b, Error)
           d     == AddDestinations(b, dests)
           a     == IF svcs = {} THEN RegisterIssue(c, code) ELSE SetStatus(d, Completed)
           err   == svcs = {}
<1>1. /\ Take(k) /\ Finish(k, a, err)
      /\ DOMAIN backendTLS' = DOMAIN backendTLS \union svcs
      /\ UNCHANGED <<graphVars, routePolicies, routeWAF, healthPolicies, frontendTLS>>
  BY DEF handleBackendProtocol
<1>2. StoredResources' = StoredResources \union Kind("BackendTLSPolicy", svcs)
  BY <1>1, BackendTLSStored DEF graphVars
<1>3. StoredResources' = StoredResources \union dests /\ NamesKept
  BY <1>1, <1>2 DEF Kind, NamesKept, graphVars
<1>4. Accounted(Anno(k))
  BY <1>1, CurrentAccounted DEF Books
<1>5. PICK i1 : Outcome(Anno(k), b, i1, {}) /\ i1 \intersect RejectingIssues = {}
  <2>1. Outcome(Anno(k), Anno(k), {}, {})
    BY <1>4 DEF Outcome
  <2>2. Outcome(Anno(k), RegisterIssue(Anno(k), "GRPCNotSupportedByTool"),
                {"GRPCNotSupportedByTool"}, {})
    BY <1>4, RegisterIssueOutcome, IssueCodes
  <2>3. "GRPCNotSupportedByTool" \notin RejectingIssues
    BY DEF RejectingIssues
  <2> QED
    BY <2>1, <2>2, <2>3
<1> HIDE DEF b, dests, k
<1>6. PICK i2 : Outcome(b, a, i2, dests) /\ (~err => i2 = {})
  <2>1. CASE svcs = {}
    <3>1. Outcome(b, c, {}, {})
      BY <1>5, SetStatusOutcome DEF Outcome, Reportable
    <3> HIDE DEF c
    <3>2. Outcome(c, RegisterIssue(c, code), {code}, {})
      BY <3>1, RegisterIssueOutcome, IssueCodes DEF Outcome
    <3>3. dests = {}
      BY <2>1 DEF dests
    <3>4. Outcome(b, a, {code}, dests)
      BY <2>1, <3>1, <3>2, <3>3 DEF Outcome
    <3> QED
      BY <2>1, <3>4
  <2>2. CASE svcs # {}
    <3>1. Outcome(b, d, {}, dests)
      BY <1>5, AddDestinationsOutcome DEF Outcome
    <3> HIDE DEF d
    <3>2. Outcome(d, SetStatus(d, Completed), {}, {})
      BY <3>1, SetStatusOutcome DEF Outcome, Reportable
    <3>3. Outcome(b, a, {}, dests)
      BY <2>2, <3>1, <3>2 DEF Outcome
    <3> QED
      BY <2>2, <3>3
  <2> QED
    BY <2>1, <2>2
<1>7. Outcome(Anno(k), a, i1 \union i2, dests)
  BY <1>5, <1>6 DEF Outcome
<1>8. err \in BOOLEAN /\ ~Quiet(cur, k)
  BY DEF Quiet, LastApplied, RedirectKeys, RedirectCodeKeys, k
<1>9. Recorded(k, a, err, i1 \union i2, dests)
  BY <1>5, <1>6, <1>7, <1>8 DEF Recorded
<1> HIDE DEF a, err
<1> QED
  BY <1>1, <1>3, <1>8, <1>9, RecordedBooks

-----------------------------------------------------------------------------
(* The induction.                                                            *)

(* The annotation the engine ignores, and those without a handler: nothing  *)
(* the provider ignores is among the latter.                                *)
LEMMA EngineHandlersQuiet ==
  ASSUME IInv, Books, UNCHANGED policyVars,
         \/ handleIgnoredAnnotation
         \/ \E k \in pending \ (AnnotationHandlers \union {LastApplied}) : UnsupportedAnnotation(k)
  PROVE  Books'
<1>1. StoredResources' = StoredResources \union {} /\ NamesKept
  BY NothingStored DEF NamesKept, graphVars, handleIgnoredAnnotation, UnsupportedAnnotation
<1>2. CASE handleIgnoredAnnotation
  <2> DEFINE k == LastApplied
             a == SetStatus(Anno(k), Ignored)
  <2>1. Take(k) /\ Finish(k, a, FALSE) /\ Quiet(cur, k)
    BY <1>2 DEF handleIgnoredAnnotation, Quiet
  <2>2. Recorded(k, a, FALSE, {}, {})
    BY <2>1, Records
  <2> HIDE DEF k, a
  <2> QED
    BY <1>1, <2>1, <2>2, RecordedBooks
<1>3. ASSUME NEW k \in pending \ (AnnotationHandlers \union {LastApplied}), UnsupportedAnnotation(k)
      PROVE  Books'
  <2> DEFINE a == RegisterIssue(Anno(k), "UnsupportedAnnotationGeneric")
  <2>1. Take(k) /\ Finish(k, a, FALSE) /\ ~Quiet(cur, k)
    BY <1>3 DEF UnsupportedAnnotation, Quiet, AnnotationHandlers, SSLRedirectKeys
  <2>2. Recorded(k, a, FALSE, {"UnsupportedAnnotationGeneric"}, {})
    BY <2>1, Records, IssueCodes DEF RejectingIssues
  <2> HIDE DEF a
  <2> QED
    BY <1>1, <2>1, <2>2, RecordedBooks
<1> QED
  BY <1>2, <1>3

(* Every step of the engine keeps the books.                                *)
LEMMA EngineQuiet ==
  ASSUME IInv, Books, EngineStep
  PROVE  Books'
<1>1. CASE handleIgnoredAnnotation
  BY <1>1, EngineHandlersQuiet DEF EngineStep
<1>2. CASE ~handleIgnoredAnnotation
  <2>1. BookInv'
    BY EngineBooks DEF Books
  <2>2. UNCHANGED <<input, anno>>
    BY <1>2 DEF EngineStep, EngineNext, Setup, BeginIngress, BeginRule, EndRule, EndIngress, Build
  <2>3. Ingresses' = Ingresses /\ \A nn, k : Quiet(nn, k)' = Quiet(nn, k)
    BY <2>2 DEF Ingresses, Quiet, Ingress
  <2> QED
    BY <2>1, <2>2, <2>3 DEF Books, QuietInv
<1> QED
  BY <1>1, <1>2

(* Every step of a conversion keeps the books.                              *)
LEMMA NextBooks ==
  ASSUME IInv, Books, [Next]_vars
  PROVE  Books'
<1>1. CASE EngineStep
  BY <1>1, EngineQuiet
<1>2. CASE Unsupported
  BY <1>2, EngineHandlersQuiet DEF Unsupported
<1>3. CASE RouteHandler
  BY <1>3, RouteNoticesBooks, RouteAlternativesBooks, RedirectRulesBooks, RuleChangesBooks,
     ServerAliasBooks, RedirectBooks DEF RouteHandler
<1>4. CASE PolicyHandler
  BY <1>4, PolicyNoticesBooks, PolicyAlternativesBooks, RoutePolicyHandlersBooks,
     ListenerHandlersBooks, WAFBooks, BackendProtocolBooks DEF PolicyHandler
<1>5. CASE UNCHANGED vars
  <2>1. BookInv'
    BY <1>5, StutterBooks DEF Books
  <2>2. UNCHANGED <<input, anno>>
    BY <1>5 DEF vars, engineVars, progressVars
  <2> QED
    BY <2>1, <2>2 DEF Books, QuietInv, Ingresses, Quiet, Ingress
<1> QED
  BY <1>1, <1>2, <1>3, <1>4, <1>5 DEF Next, Handler, Returned

(* The books and the graph agree at every moment, and what is ignored has   *)
(* led to nothing.                                                          *)
THEOREM Bookkeeping == Spec => []Books
<1>1. Init => Books
  <2> SUFFICES ASSUME Init
               PROVE  Books
    OBVIOUS
  <2>1. anno = [nn \in Ingresses |->
                  [k \in DOMAIN Ingress(nn).annos |-> NewAnnotationContext]]
    BY Zenon DEF Init, EngineInit
  <2>2. QuietInv
    BY <2>1 DEF QuietInv, NewAnnotationContext
  <2> QED
    BY <2>2, InitBooks DEF Books
<1>2. IInv /\ Books /\ [Next]_vars => Books'
  BY NextBooks
<1> QED
  BY <1>1, <1>2, Invariance, PTL DEF Spec

(* Whatever the report names as the destination of an annotation is in the  *)
(* graph, from the moment it is recorded.                                   *)
THEOREM DestinationSafety == Spec => []DestinationsExist
<1>1. Books => DestinationsExist
  BY BooksDestinations DEF Books
<1> QED
  BY <1>1, Bookkeeping, PTL

(* An Ingress with a setting that was rejected, on whichever of its rules   *)
(* and whatever its other handlers did, is not Completed.                   *)
THEOREM RejectionSafety == Spec => []RejectionFailsTheIngress
<1>1. Books => RejectionFailsTheIngress
  BY DEF Books, BookInv
<1> QED
  BY <1>1, Bookkeeping, PTL

(* Nothing of the graph is missing from the report of every Ingress, and no *)
(* annotation with an outcome is missing from it or in it twice, those that *)
(* a handler may ignore included.                                           *)
THEOREM ReportSafety == Spec => []ReportAccountsForGraph
<1>1. IInv /\ Books => ReportAccountsForGraph
  BY BooksReport DEF Books
<1> QED
  BY <1>1, Bookkeeping, Invariance, PTL

-----------------------------------------------------------------------------
(* What the input calls for.                                                 *)

RoutePolicyKeys == {"affinity", "proxy-read-timeout"} \union DurationKeys

SetsRoutePolicy(k) ==
  \/ InvalidPolicySetting(k)
  \/ k = "affinity" /\ (OtherAffinity \/ handleAffinity)
  \/ handleSessionCookieExpires(k)
  \/ k = "proxy-read-timeout" /\ handleProxyReadTimeout

SetsListeners(k) ==
  \/ NoListeners(k)
  \/ k = "auth-tls-secret" /\ handleAuthTLSSecret
  \/ k = "auth-tls-verify-client" /\ (NoClientVerification \/ handleAuthTLSVerifyClient)
  \/ k = "ssl-ciphers" /\ handleSSLCiphers

(* A handler run for annotation k, by what it can touch.                    *)
Effect(k) ==
  /\ Handled(k)
  /\ \A id \in DOMAIN routes : SectionsOf(routes'[id]) = SectionsOf(routes[id])
  /\ UNCHANGED <<https, grants, gateway>>
  /\ UNCHANGED <<http, redirect>> \/ (http' = TRUE /\ redirect' = TRUE)
  /\ IF k \in RoutePolicyKeys THEN SetsRoutePolicy(k) ELSE UNCHANGED routePolicies
  /\ IF k \in WAFKeys THEN NoWAFWanted(k) \/ handleWAF(k) ELSE UNCHANGED routeWAF
  /\ IF k \in ListenerKeys THEN SetsListeners(k) ELSE UNCHANGED frontendTLS

PolicyKeys == RoutePolicyKeys \union WAFKeys \union ListenerKeys

(* Handlers by their shape.                                                 *)
LEMMA HandlerShapes ==
  ASSUME IInv, NEW k, NEW a, NEW err, Take(k), Finish(k, a, err),
         UNCHANGED routes \/ (\E rules : ModifyRules(rules)),
         UNCHANGED <<http, https, grants, redirect>>,
         k \in RoutePolicyKeys => SetsRoutePolicy(k),
         k \notin RoutePolicyKeys => UNCHANGED routePolicies,
         k \in WAFKeys => NoWAFWanted(k) \/ handleWAF(k),
         k \notin WAFKeys => UNCHANGED routeWAF,
         k \in ListenerKeys => SetsListeners(k),
         k \notin ListenerKeys => UNCHANGED frontendTLS
  PROVE  Effect(k)
<1>1. RoutesKept
  BY SameRoutesKept, RulesKept DEF Take
<1>2. UNCHANGED gateway
  BY DEF Finish, progressVars
<1>3. \A id \in DOMAIN routes : SectionsOf(routes'[id]) = SectionsOf(routes[id])
  <2>1. \A id \in DOMAIN routes : DOMAIN routes[id] = HTTPRouteFields
    BY DEF IInv, TypeOK, GraphOK
  <2>2. \A id \in DOMAIN routes : routes'[id].parents = routes[id].parents
    BY <2>1 DEF ModifyRules, HTTPRouteFields
  <2> QED
    BY <2>2 DEF SectionsOf
<1> QED
  BY <1>1, <1>2, <1>3 DEF Effect, Handled

LEMMA NoticeEffect ==
  ASSUME IInv, NEW k, NEW a, NEW err, Notice(k, a, err),
         k \in RoutePolicyKeys => SetsRoutePolicy(k),
         k \in WAFKeys => NoWAFWanted(k),
         k \in ListenerKeys => SetsListeners(k)
  PROVE  Effect(k)
BY HandlerShapes DEF Notice, graphVars, policyVars

LEMMA RulesEffect ==
  ASSUME IInv, NEW k, NEW a, NEW rules, RewriteRules(k, rules, a), k \notin PolicyKeys
  PROVE  Effect(k)
BY HandlerShapes DEF RewriteRules, policyVars, PolicyKeys

LEMMA RouteHandlerEffect ==
  ASSUME IInv, RouteHandler
  PROVE  \E k : Effect(k)
<1> USE DEF PolicyKeys, RoutePolicyKeys, DurationKeys, WAFKeys, ListenerKeys
<1>1. ASSUME NEW k \in pending,
             EmptyRedirectURL(k) \/ InvalidRedirectURL(k) \/ EmptyRedirectCode(k)
               \/ InvalidRedirectCode(k) \/ InvalidSSLRedirect(k) \/ DisabledSSLRedirect(k)
               \/ RepeatedSSLRedirect(k) \/ handleReadElsewhere(k)
      PROVE  Effect(k)
  <2>1. k \in RedirectKeys \union RedirectCodeKeys \union SSLRedirectKeys \union ReadElsewhere
    BY <1>1 DEF EmptyRedirectURL, InvalidRedirectURL, EmptyRedirectCode, InvalidRedirectCode,
       InvalidSSLRedirect, DisabledSSLRedirect, RepeatedSSLRedirect, handleReadElsewhere
  <2>2. \E a, err : Notice(k, a, err)
    BY <1>1, Zenon DEF EmptyRedirectURL, InvalidRedirectURL, EmptyRedirectCode, InvalidRedirectCode,
       InvalidSSLRedirect, DisabledSSLRedirect, RepeatedSSLRedirect, handleReadElsewhere
  <2>3. k \notin PolicyKeys
    BY <2>1 DEF RedirectKeys, RedirectCodeKeys, SSLRedirectKeys, ReadElsewhere
  <2> QED
    BY <2>2, <2>3, NoticeEffect
<1>2. ASSUME NEW k \in pending, handleSSLRedirect(k)
      PROVE  Effect(k)
  <2>1. /\ Take(k) /\ (\E a, err : Finish(k, a, err)) /\ k \in SSLRedirectKeys
        /\ ~redirect /\ routes' = InsertAt(routes, RedirectId, RedirectRoute)
        /\ http' = TRUE /\ redirect' = TRUE
        /\ UNCHANGED <<https, grants, policyVars>>
    BY <1>2 DEF handleSSLRedirect
  <2>2. RoutesKept
    BY <2>1, RedirectIsNew DEF RoutesKept, NamesKept, InsertAt
  <2>3. UNCHANGED gateway
    BY <2>1 DEF Finish, progressVars
  <2>4. k \notin PolicyKeys
    BY <2>1 DEF SSLRedirectKeys
  <2>5. \A id \in DOMAIN routes : SectionsOf(routes'[id]) = SectionsOf(routes[id])
    BY <2>1, RedirectIsNew DEF InsertAt, SectionsOf
  <2> QED
    BY <2>1, <2>2, <2>3, <2>4, <2>5 DEF Effect, Handled, policyVars
<1>3. CASE NoWWWRedirect \/ UnusedRegex \/ EmptyUpstreamVhost \/ InvalidCanaryWeight
           \/ InvalidCanaryHeader
  <2>1. PICK k \in {"from-to-www-redirect", "use-regex", "upstream-vhost", "canary-weight",
                    "canary-by-header"} : \E a, err : Notice(k, a, err)
    BY <1>3, Zenon DEF NoWWWRedirect, UnusedRegex, EmptyUpstreamVhost, InvalidCanaryWeight,
       InvalidCanaryHeader
  <2> QED
    BY <2>1, NoticeEffect
<1>4. CASE handlePermanentRedirect \/ handleTemporalRedirect \/ handlePermanentRedirectCode
           \/ handleTemporalRedirectCode \/ handleFromToWWWRedirect \/ handleRewriteTarget
  <2>1. PICK k \in {"permanent-redirect", "temporal-redirect", "permanent-redirect-code",
                    "temporal-redirect-code", "from-to-www-redirect", "rewrite-target"} :
          \E rules, a : RewriteRules(k, rules, a)
    BY <1>4, Zenon DEF handlePermanentRedirect, handleTemporalRedirect,
       handlePermanentRedirectCode, handleTemporalRedirectCode, handleFromToWWWRedirect,
       handleRewriteTarget
  <2> QED
    BY <2>1, RulesEffect
<1>5. CASE handleUseRegex \/ handleAppRoot \/ handleUpstreamVhost \/ handleXForwardedPrefix
           \/ handleConnectionProxyHeader \/ handleCanaryWeight \/ handleCanaryByHeader
  <2>1. PICK k \in {"use-regex", "app-root", "upstream-vhost", "x-forwarded-prefix",
                    "connection-proxy-header", "canary-weight", "canary-by-header"} :
          \E rules, a : RewriteRules(k, rules, a)
    BY <1>5, Zenon DEF handleUseRegex, handleAppRoot, handleUpstreamVhost,
       handleXForwardedPrefix, handleConnectionProxyHeader, handleCanaryWeight,
       handleCanaryByHeader
  <2> QED
    BY <2>1, RulesEffect
<1>6. CASE handleServerAlias
  <2> DEFINE k == "server-alias"
  <2>1. /\ Take(k) /\ \E a, err : Finish(k, a, err)
        /\ UNCHANGED <<http, https, grants, redirect, policyVars>>
        /\ routes' = [routes EXCEPT ![ThisRouteId].hostnames = @ \o Value(k)]
    BY <1>6 DEF handleServerAlias
  <2>2. /\ ThisRouteId \in DOMAIN routes
        /\ \A id \in DOMAIN routes : DOMAIN routes[id] = HTTPRouteFields
    BY <2>1 DEF Take, IInv, TypeOK, ProgressOK, GraphOK
  <2>3. RoutesKept
    BY <2>1, <2>2 DEF RoutesKept, NamesKept, HTTPRouteFields
  <2>4. UNCHANGED gateway
    BY <2>1 DEF Finish, progressVars
  <2>5. \A id \in DOMAIN routes : SectionsOf(routes'[id]) = SectionsOf(routes[id])
    BY <2>1, <2>2 DEF HTTPRouteFields, SectionsOf
  <2>6. Effect(k)
    BY <2>1, <2>3, <2>4, <2>5 DEF Effect, Handled, policyVars
  <2> QED
    BY <2>6
<1> QED
  BY <1>1, <1>2, <1>3, <1>4, <1>5, <1>6 DEF RouteHandler

(* No notice is for an annotation that sets a policy.                       *)
LEMMA NoticesSetNothing ==
  ASSUME NEW n \in Notices
  PROVE  n.key \notin PolicyKeys
BY DEF Notices, AuthTLSNotices, AffinityNotices, SnippetNotices, DefaultBackendNotices,
   WAFNotices, TimeoutNotices, BufferNotices, CipherNotices, CookieNotices, PolicyKeys,
   RoutePolicyKeys, DurationKeys, WAFKeys, ListenerKeys

LEMMA PolicyHandlerEffect ==
  ASSUME IInv, PolicyHandler
  PROVE  \E k : Effect(k)
<1> USE DEF PolicyKeys, RoutePolicyKeys, DurationKeys, WAFKeys, ListenerKeys
<1>1. ASSUME NEW n \in Notices, handleNotice(n)
      PROVE  Effect(n.key)
  BY <1>1, NoticesSetNothing, NoticeEffect DEF handleNotice
<1>2. CASE handleLoadBalance
  <2>1. \E a, err : Notice("load-balance", a, err)
    BY <1>2, Zenon DEF handleLoadBalance
  <2> QED
    BY <2>1, NoticeEffect
<1>3. ASSUME NEW k \in pending, NoListeners(k)
      PROVE  Effect(k)
  <2>1. k \in ListenerKeys /\ SetsListeners(k) /\ \E a, err : Notice(k, a, err)
    BY <1>3, Zenon DEF NoListeners, SetsListeners
  <2> QED
    BY <2>1, NoticeEffect
<1>4. CASE handleAuthTLSSecret \/ handleAuthTLSVerifyClient \/ handleSSLCiphers
  <2>1. PICK k \in ListenerKeys :
          SetsListeners(k) /\ \E settings, a : SetFrontendTLS(k, settings, a)
    BY <1>4, Zenon DEF handleAuthTLSSecret, handleAuthTLSVerifyClient, handleSSLCiphers,
       SetsListeners
  <2>2. /\ Take(k) /\ \E a : Finish(k, a, FALSE)
        /\ UNCHANGED <<graphVars, routePolicies, routeWAF>>
    BY <2>1 DEF SetFrontendTLS
  <2> QED
    BY <2>1, <2>2, HandlerShapes DEF graphVars
<1>5. CASE NoClientVerification
  <2>1. /\ SetsListeners("auth-tls-verify-client")
        /\ \E a, err : Notice("auth-tls-verify-client", a, err)
    BY <1>5, Zenon DEF NoClientVerification, SetsListeners
  <2> QED
    BY <2>1, NoticeEffect
<1>6. ASSUME NEW k \in pending, InvalidPolicySetting(k)
      PROVE  Effect(k)
  <2>1. k \in RoutePolicyKeys /\ SetsRoutePolicy(k) /\ \E a, err : Notice(k, a, err)
    BY <1>6 DEF InvalidPolicySetting, SetsRoutePolicy
  <2> QED
    BY <2>1, NoticeEffect
<1>7. CASE OtherAffinity
  <2>1. /\ SetsRoutePolicy("affinity") /\ \E a, err : Notice("affinity", a, err)
    BY <1>7, Zenon DEF OtherAffinity, SetsRoutePolicy
  <2> QED
    BY <2>1, NoticeEffect
<1>8. ASSUME NEW k, SetsRoutePolicy(k), k \in RoutePolicyKeys, NEW policy, SetRoutePolicy(k, policy)
      PROVE  Effect(k)
  <2>1. /\ Take(k) /\ \E a : Finish(k, a, FALSE)
        /\ UNCHANGED <<graphVars, routeWAF, frontendTLS>>
    BY <1>8 DEF SetRoutePolicy
  <2> QED
    BY <1>8, <2>1, HandlerShapes DEF graphVars
<1>9. CASE handleAffinity \/ handleProxyReadTimeout
  <2>1. PICK k \in RoutePolicyKeys : SetsRoutePolicy(k) /\ \E policy : SetRoutePolicy(k, policy)
    BY <1>9, Zenon DEF handleAffinity, handleProxyReadTimeout, SetsRoutePolicy
  <2> QED
    BY <1>8, <2>1
<1>10. ASSUME NEW k \in pending, handleSessionCookieExpires(k)
       PROVE  Effect(k)
  <2>1. k \in RoutePolicyKeys /\ SetsRoutePolicy(k) /\ \E policy : SetRoutePolicy(k, policy)
    BY <1>10 DEF handleSessionCookieExpires, SetsRoutePolicy
  <2> QED
    BY <1>8, <2>1
<1>11. ASSUME NEW k \in pending, NoWAFWanted(k)
       PROVE  Effect(k)
  <2>1. k \in WAFKeys /\ \E a, err : Notice(k, a, err)
    BY <1>11, Zenon DEF NoWAFWanted
  <2> QED
    BY <1>11, <2>1, NoticeEffect
<1>12. ASSUME NEW k \in pending, handleWAF(k)
       PROVE  Effect(k)
  <2>1. /\ k \in WAFKeys /\ Take(k) /\ (\E a, err : Finish(k, a, err))
        /\ UNCHANGED <<graphVars, routePolicies, frontendTLS>>
    BY <1>12, Zenon DEF handleWAF
  <2> QED
    BY <1>12, <2>1, HandlerShapes DEF graphVars
<1>13. CASE OtherProtocol
  <2>1. \E a, err : Notice("backend-protocol", a, err)
    BY <1>13, Zenon DEF OtherProtocol
  <2> QED
    BY <2>1, NoticeEffect
<1>14. CASE handleBackendProtocol
  <2>1. /\ Take("backend-protocol") /\ (\E a, err : Finish("backend-protocol", a, err))
        /\ UNCHANGED <<graphVars, routePolicies, routeWAF, frontendTLS>>
    BY <1>14, Zenon DEF handleBackendProtocol
  <2> QED
    BY <2>1, HandlerShapes DEF graphVars
<1> QED
  BY <1>1, <1>2, <1>3, <1>4, <1>5, <1>6, <1>7, <1>9, <1>10, <1>11, <1>12, <1>13, <1>14
     DEF PolicyHandler

(* Every step handles one annotation or is one of the engine.               *)
LEMMA NextEffect ==
  ASSUME IInv, [Next]_vars
  PROVE  \/ \E k : Effect(k)
         \/ EngineStep /\ ~handleIgnoredAnnotation
         \/ UNCHANGED vars
<1> USE DEF PolicyKeys, RoutePolicyKeys, DurationKeys, WAFKeys, ListenerKeys
<1>1. CASE EngineStep /\ handleIgnoredAnnotation
  <2>1. /\ Take(LastApplied) /\ (\E a, err : Finish(LastApplied, a, err))
        /\ UNCHANGED <<graphVars, policyVars>>
    BY <1>1, Zenon DEF EngineStep, handleIgnoredAnnotation
  <2>2. LastApplied \notin PolicyKeys
    BY DEF LastApplied
  <2> QED
    BY <2>1, <2>2, HandlerShapes DEF graphVars, policyVars
<1>2. CASE Unsupported
  <2>1. PICK k \in pending : /\ k \notin AnnotationHandlers /\ UnsupportedAnnotation(k)
                             /\ UNCHANGED policyVars
    BY <1>2 DEF Unsupported
  <2>2. k \notin PolicyKeys
    BY <2>1 DEF AnnotationHandlers
  <2>3. Take(k) /\ (\E a, err : Finish(k, a, err)) /\ UNCHANGED graphVars
    BY <2>1 DEF UnsupportedAnnotation
  <2> QED
    BY <2>1, <2>2, <2>3, HandlerShapes DEF graphVars, policyVars
<1>3. CASE Handler
  BY <1>3, RouteHandlerEffect, PolicyHandlerEffect DEF Handler
<1> QED
  BY <1>1, <1>2, <1>3 DEF Next, Returned

LEMMA EffectHandled ==
  ASSUME NEW k, Effect(k)
  PROVE  Handled(k)
BY DEF Effect

(* How far the conversion has come is what ProgressInv says, whichever      *)
(* handlers run.                                                            *)
THEOREM Progress == Spec => []ProgressInv
<1>1. Init => ProgressInv
  BY InitProgress
<1>2. IInv /\ ProgressInv /\ [Next]_vars => ProgressInv'
  BY NextEffect, EffectHandled, HandledProgress, QuietProgress
<1> QED
  BY <1>1, <1>2, Invariance, PTL DEF Spec

-----------------------------------------------------------------------------
(* Route policies and WAF policies.                                          *)

(* A route has a policy as soon as it has been asked for, and it holds what *)
(* has been asked for so far; a duration may have gone with a later         *)
(* "affinity: cookie".                                                      *)
Timeouts(n)  == Asked(n, "proxy-read-timeout") \ {Invalid}
Durations(n) ==
  (Asked(n, "session-cookie-expires") \union Asked(n, "session-cookie-max-age")) \ {Invalid}
Cookie(n)    == "cookie" \in Asked(n, "affinity")

PolicyAsAsked(n, policy) ==
  /\ DOMAIN policy = {"timeout", "affinity", "duration"}
  /\ policy.affinity = (Cookie(n) \/ Durations(n) # {})
  /\ policy.timeout \in IF Timeouts(n) = {} THEN {Unset} ELSE Timeouts(n)
  /\ policy.duration \in Durations(n) \union {Unset}
  /\ Durations(n) # {} /\ ~Cookie(n) => policy.duration \in Durations(n)

PolicyBook ==
  /\ DOMAIN routePolicies =
       {n \in RouteNNs : Timeouts(n) # {} \/ Durations(n) # {} \/ Cookie(n)}
  /\ \A n \in DOMAIN routePolicies : PolicyAsAsked(n, routePolicies[n])

(* A route has a WAF policy as soon as one of the two annotations has asked.*)
WAFAsked(n) == \E k \in WAFKeys : "true" \in Asked(n, k)

WAFBook == routeWAF = [n \in {m \in RouteNNs : WAFAsked(m)} |-> WAFPlaceholder]

LEMMA PolicyStepBook ==
  ASSUME IInv, ProgressInv, PolicyBook, [Next]_vars
  PROVE  PolicyBook'
<1> USE DEF RoutePolicyKeys, DurationKeys
<1>1. ASSUME NEW k, Effect(k)
      PROVE  PolicyBook'
  <2>1. PICK name \in RouteNNs :
          /\ name = ThisRoute.nn
          /\ \A n, j : Asked(n, j)' = Asked(n, j) \union
                         (IF n = name /\ j = k THEN {Value(k)} ELSE {})
    BY <1>1, EffectHandled, HandledAnswers
  <2>2. RouteNNs' = RouteNNs
    BY <1>1, EffectHandled, HandledProgress, SameNames
  <2>3. PICK v : v = Value(k)
    OBVIOUS
  <2>4. \A n : /\ Timeouts(n)' = Timeouts(n) \union
                    (IF n = name /\ k = "proxy-read-timeout" THEN {v} \ {Invalid} ELSE {})
               /\ Durations(n)' = Durations(n) \union
                    (IF n = name /\ k \in DurationKeys THEN {v} \ {Invalid} ELSE {})
               /\ Cookie(n)' <=> Cookie(n) \/ (n = name /\ k = "affinity" /\ v = "cookie")
    BY <2>1, <2>3 DEF Timeouts, Durations, Cookie
  <2>5. ASSUME NEW n, n # name
        PROVE  /\ Timeouts(n)' = Timeouts(n) /\ Durations(n)' = Durations(n)
               /\ Cookie(n)' = Cookie(n)
    <3>1. Timeouts(n)' = Timeouts(n) /\ Durations(n)' = Durations(n)
      BY <2>4, <2>5
    <3>2. Cookie(n)' <=> Cookie(n)
      BY <2>4, <2>5
    <3> QED
      BY <3>1, <3>2 DEF Cookie
  <2>6. ASSUME UNCHANGED routePolicies, k # "proxy-read-timeout" \/ v = Invalid,
               k \notin DurationKeys \/ v = Invalid, k # "affinity" \/ v # "cookie"
        PROVE  PolicyBook'
    <3>1. \A n : Timeouts(n)' = Timeouts(n) /\ Durations(n)' = Durations(n)
      BY <2>4, <2>6
    <3>2. \A n : Cookie(n)' = Cookie(n)
      BY <2>4, <2>6 DEF Cookie
    <3> QED
      BY <2>2, <2>6, <3>1, <3>2 DEF PolicyBook, PolicyAsAsked
  <2>7. ASSUME NEW new, routePolicies' = InsertAt(routePolicies, name, new),
               PolicyAsAsked(name, new)',
               Timeouts(name)' # {} \/ Durations(name)' # {} \/ Cookie(name)'
        PROVE  PolicyBook'
    <3>1. DOMAIN routePolicies' = DOMAIN routePolicies \union {name}
      BY <2>7 DEF InsertAt
    <3>2. DOMAIN routePolicies' =
            {n \in RouteNNs : Timeouts(n)' # {} \/ Durations(n)' # {} \/ Cookie(n)'}
      BY <2>5, <2>7, <3>1 DEF PolicyBook
    <3>3. ASSUME NEW n \in DOMAIN routePolicies', NEW policy, policy = routePolicies'[n]
          PROVE  PolicyAsAsked(n, policy)'
      <4>1. CASE n = name
        <5>1. policy = new
          BY <2>7, <3>3, <4>1 DEF InsertAt
        <5> QED
          BY <2>7, <4>1, <5>1
      <4>2. CASE n # name
        <5>1. n \in DOMAIN routePolicies /\ policy = routePolicies[n]
          BY <2>7, <3>1, <3>3, <4>2 DEF InsertAt
        <5>2. PolicyAsAsked(n, policy)
          BY <5>1 DEF PolicyBook
        <5> QED
          BY <2>5, <4>2, <5>2 DEF PolicyAsAsked
      <4> QED
        BY <4>1, <4>2
    <3>4. \A n \in DOMAIN routePolicies' : PolicyAsAsked(n, routePolicies[n])'
      BY <3>3 DEF PolicyAsAsked
    <3> QED
      BY <2>2, <3>2, <3>4 DEF PolicyBook
  <2> DEFINE old == RoutePolicy(name)
  <2>8. PolicyAsAsked(name, old)
    <3>1. CASE name \in DOMAIN routePolicies
      BY <3>1 DEF PolicyBook, RoutePolicy
    <3>2. CASE name \notin DOMAIN routePolicies
      <4>1. Timeouts(name) = {} /\ Durations(name) = {} /\ Cookie(name) = FALSE
        BY <3>2 DEF PolicyBook, Cookie
      <4> QED
        BY <3>2, <4>1 DEF RoutePolicy, NewRoutePolicy, PolicyAsAsked
    <3> QED
      BY <3>1, <3>2
  <2>9. CASE k \notin RoutePolicyKeys
    BY <1>1, <2>6, <2>9 DEF Effect
  <2>10. CASE InvalidPolicySetting(k)
    BY <2>3, <2>6, <2>10 DEF InvalidPolicySetting, Notice, policyVars
  <2>11. CASE OtherAffinity /\ k = "affinity"
    BY <2>3, <2>6, <2>11 DEF OtherAffinity, Notice, policyVars
  <2>12. CASE handleAffinity /\ k = "affinity"
    <3>0. PICK new : new = [old EXCEPT !.affinity = TRUE, !.duration = Unset]
      OBVIOUS
    <3>1. v = "cookie" /\ routePolicies' = InsertAt(routePolicies, name, new)
      BY <3>0, <2>1, <2>3, <2>12 DEF handleAffinity, SetRoutePolicy
    <3>2. /\ DOMAIN new = {"timeout", "affinity", "duration"}
          /\ new.affinity = TRUE /\ new.duration = Unset /\ new.timeout = old.timeout
      BY <2>8, <3>0 DEF PolicyAsAsked
    <3> HIDE DEF old
    <3>3. /\ Timeouts(name)' = Timeouts(name) /\ Durations(name)' = Durations(name)
          /\ Cookie(name)' = TRUE
      BY <2>4, <2>12, <3>1 DEF Cookie
    <3>4. PolicyAsAsked(name, new)'
      BY <2>8, <3>2, <3>3 DEF PolicyAsAsked
    <3> QED
      BY <2>7, <3>1, <3>3, <3>4
  <2>13. CASE handleSessionCookieExpires(k)
    <3>0. PICK new : new = [old EXCEPT !.affinity = TRUE, !.duration = v]
      OBVIOUS
    <3>1. v # Invalid /\ k \in DurationKeys /\ routePolicies' = InsertAt(routePolicies, name, new)
      BY <3>0, <2>1, <2>3, <2>13 DEF handleSessionCookieExpires, SetRoutePolicy
    <3>2. /\ DOMAIN new = {"timeout", "affinity", "duration"}
          /\ new.affinity = TRUE /\ new.duration = v /\ new.timeout = old.timeout
      BY <2>8, <3>0 DEF PolicyAsAsked
    <3> HIDE DEF old
    <3>3. /\ Timeouts(name)' = Timeouts(name) /\ Durations(name)' = Durations(name) \union {v}
          /\ Cookie(name)' = Cookie(name)
      <4>1. Timeouts(name)' = Timeouts(name) /\ Durations(name)' = Durations(name) \union {v}
        BY <2>4, <3>1
      <4>2. Cookie(name)' <=> Cookie(name)
        BY <2>4, <3>1
      <4> QED
        BY <4>1, <4>2 DEF Cookie
    <3>4. PolicyAsAsked(name, new)'
      BY <2>8, <3>2, <3>3 DEF PolicyAsAsked
    <3> QED
      BY <2>7, <3>1, <3>3, <3>4
  <2>14. CASE handleProxyReadTimeout /\ k = "proxy-read-timeout"
    <3>0. PICK new : new = [old EXCEPT !.timeout = v]
      OBVIOUS
    <3>1. v # Invalid /\ routePolicies' = InsertAt(routePolicies, name, new)
      BY <3>0, <2>1, <2>3, <2>14 DEF handleProxyReadTimeout, SetRoutePolicy
    <3>2. /\ DOMAIN new = {"timeout", "affinity", "duration"}
          /\ new.affinity = old.affinity /\ new.duration = old.duration /\ new.timeout = v
      BY <2>8, <3>0 DEF PolicyAsAsked
    <3> HIDE DEF old
    <3>3. /\ Timeouts(name)' = Timeouts(name) \union {v} /\ Durations(name)' = Durations(name)
          /\ Cookie(name)' = Cookie(name)
      <4>1. Timeouts(name)' = Timeouts(name) \union {v} /\ Durations(name)' = Durations(name)
        BY <2>4, <2>14, <3>1
      <4>2. Cookie(name)' <=> Cookie(name)
        BY <2>4, <2>14, <3>1
      <4> QED
        BY <4>1, <4>2 DEF Cookie
    <3>4. PolicyAsAsked(name, new)'
      BY <2>8, <3>2, <3>3 DEF PolicyAsAsked
    <3> QED
      BY <2>7, <3>1, <3>3, <3>4
  <2> HIDE DEF old
  <2>15. k \in RoutePolicyKeys =>
           \/ InvalidPolicySetting(k)
           \/ OtherAffinity /\ k = "affinity"
           \/ handleAffinity /\ k = "affinity"
           \/ handleSessionCookieExpires(k)
           \/ handleProxyReadTimeout /\ k = "proxy-read-timeout"
    BY <1>1 DEF Effect, SetsRoutePolicy
  <2> QED
    BY <2>9, <2>10, <2>11, <2>12, <2>13, <2>14, <2>15
<1>2. CASE (EngineStep /\ ~handleIgnoredAnnotation) \/ UNCHANGED vars
  <2>1. SameAskers /\ input' = input /\ UNCHANGED routePolicies
    BY <1>2, QuietProgress DEF policyVars
  <2>2. RouteNNs' = RouteNNs /\ \A n, j : Asked(n, j)' = Asked(n, j)
    BY <2>1, SameNames, SameAnswers
  <2>3. \A n : Timeouts(n)' = Timeouts(n) /\ Durations(n)' = Durations(n) /\ Cookie(n)' = Cookie(n)
    BY <2>2 DEF Timeouts, Durations, Cookie
  <2> QED
    BY <2>1, <2>2, <2>3 DEF PolicyBook, PolicyAsAsked
<1> QED
  BY <1>1, <1>2, NextEffect

(* Timeout, affinity and cookie duration of a route end in one policy, as   *)
(* its Ingress asks, in whatever order up to four handlers wrote them and   *)
(* however often the host was repeated; only a later "affinity: cookie"     *)
(* loses the duration.                                                      *)
THEOREM RoutePolicySafety == Spec => []RoutePoliciesAsDeclared
<1>1. Init => PolicyBook
  <2>1. ASSUME Init
        PROVE  PolicyBook
    <3>1. DOMAIN routePolicies = {}
      BY <2>1, Zenon DEF Init
    <3>2. \A n : Timeouts(n) = {} /\ Durations(n) = {} /\ ~Cookie(n)
      BY <2>1, InitProgress DEF Timeouts, Durations, Cookie, Asked
    <3> QED
      BY <3>1, <3>2 DEF PolicyBook
  <2> QED
    BY <2>1
<1>2. IInv /\ ProgressInv /\ PolicyBook /\ [Next]_vars => PolicyBook'
  BY PolicyStepBook
<1>3. IInv /\ ProgressInv /\ PolicyBook => RoutePoliciesAsDeclared
  <2> SUFFICES ASSUME IInv, ProgressInv, PolicyBook, Done, NamesAreUnique
               PROVE  RoutePoliciesAsDeclared
    BY DEF RoutePoliciesAsDeclared
  <2> DEFINE cookie(nn)   == Wants(nn, "affinity", {"cookie"})
             duration(nn) == Given(nn, DurationKeys)
             timeout(nn)  == Given(nn, {"proxy-read-timeout"})
  <2>1. ASSUME NEW p \in ActivePairs
        PROVE  /\ Timeouts(PairNN(p)) = timeout(p[1]) /\ Durations(PairNN(p)) = duration(p[1])
               /\ Cookie(PairNN(p)) = cookie(p[1])
    <3>1. \A k : Asked(PairNN(p), k) =
                   IF HasAnnotation(p[1], k) THEN {AnnotationOf(p[1], k)} ELSE {}
      BY AskedByOwner
    <3>2. Timeouts(PairNN(p)) = timeout(p[1])
      BY <3>1 DEF Timeouts, Given, HasAnnotation
    <3>3. Durations(PairNN(p)) = duration(p[1])
      BY <3>1 DEF Durations, Given, HasAnnotation, DurationKeys
    <3>4. Cookie(PairNN(p)) = cookie(p[1])
      BY <3>1 DEF Cookie, Wants
    <3> QED
      BY <3>2, <3>3, <3>4
  <2> HIDE DEF cookie, duration, timeout
  <2>2. DOMAIN routePolicies =
          {PairNN(p) : p \in {q \in ActivePairs :
             \/ cookie(q[1])
             \/ duration(q[1]) # {}
             \/ timeout(q[1]) # {}}}
    <3>1. DOMAIN routePolicies \subseteq RouteNNs
      BY DEF PolicyBook
    <3>2. \A p \in ActivePairs : PairNN(p) \in DOMAIN routePolicies <=>
            cookie(p[1]) \/ duration(p[1]) # {} \/ timeout(p[1]) # {}
      BY <2>1 DEF PolicyBook, RouteNNs
    <3> QED
      BY <3>1, <3>2 DEF RouteNNs
  <2>3. ASSUME NEW p \in ActivePairs
        PROVE  PolicyAsAsked(PairNN(p), RoutePolicy(PairNN(p)))
    <3>1. CASE PairNN(p) \in DOMAIN routePolicies
      BY <3>1 DEF PolicyBook, RoutePolicy
    <3>2. CASE PairNN(p) \notin DOMAIN routePolicies
      <4>1. Timeouts(PairNN(p)) = {} /\ Durations(PairNN(p)) = {} /\ Cookie(PairNN(p)) = FALSE
        BY <3>2 DEF PolicyBook, Cookie, RouteNNs
      <4> QED
        BY <3>2, <4>1 DEF RoutePolicy, NewRoutePolicy, PolicyAsAsked
    <3> QED
      BY <3>1, <3>2
  <2>4. ASSUME NEW p \in ActivePairs
        PROVE  LET policy == RoutePolicy(PairNN(p))
               IN  /\ policy.affinity = (cookie(p[1]) \/ duration(p[1]) # {})
                   /\ policy.timeout \in IF timeout(p[1]) = {} THEN {Unset} ELSE timeout(p[1])
                   /\ policy.duration \in
                        IF duration(p[1]) = {} THEN {Unset}
                        ELSE IF cookie(p[1]) THEN duration(p[1]) \union {Unset}
                        ELSE duration(p[1])
    BY <2>1, <2>3 DEF PolicyAsAsked
  <2> QED
    BY <2>2, <2>4, Zenon DEF RoutePoliciesAsDeclared, cookie, duration, timeout
<1> QED
  BY <1>1, <1>2, <1>3, Invariance, Progress, PTL DEF Spec

LEMMA WAFStepBook ==
  ASSUME IInv, ProgressInv, WAFBook, [Next]_vars
  PROVE  WAFBook'
<1>1. WAFBook <=> routeWAF = [n \in {m \in RouteNNs : WAFAsked(m)} |-> WAFPlaceholder]
  BY DEF WAFBook
<1>2. WAFBook' <=> routeWAF' = [n \in {m \in RouteNNs' : WAFAsked(m)'} |-> WAFPlaceholder]
  BY DEF WAFBook
<1>3. ASSUME NEW k, Effect(k)
      PROVE  WAFBook'
  <2>1. PICK name \in RouteNNs :
          /\ name = ThisRoute.nn
          /\ \A n, j : Asked(n, j)' = Asked(n, j) \union
                         (IF n = name /\ j = k THEN {Value(k)} ELSE {})
    BY <1>3, EffectHandled, HandledAnswers
  <2>2. RouteNNs' = RouteNNs
    BY <1>3, EffectHandled, HandledProgress, SameNames
  <2>3. \A n : WAFAsked(n)' <=>
          WAFAsked(n) \/ (n = name /\ k \in WAFKeys /\ Value(k) = "true")
    BY <2>1 DEF WAFAsked
  <2>4. CASE UNCHANGED routeWAF /\ (k \notin WAFKeys \/ Value(k) # "true")
    BY <1>1, <1>2, <2>2, <2>3, <2>4
  <2>5. CASE NoWAFWanted(k)
    BY <2>4, <2>5 DEF NoWAFWanted, Notice, policyVars, Invalid
  <2>6. CASE handleWAF(k)
    <3>1. /\ k \in WAFKeys /\ Value(k) = "true"
          /\ \E id : routeWAF' = InsertAt(routeWAF, name, id) /\
                     (id = WAFPlaceholder \/ (name \in DOMAIN routeWAF /\ id = routeWAF[name]))
      BY <2>1, <2>6 DEF handleWAF
    <3>2. routeWAF' = InsertAt(routeWAF, name, WAFPlaceholder)
      BY <1>1, <3>1
    <3>3. {m \in RouteNNs' : WAFAsked(m)'} = {m \in RouteNNs : WAFAsked(m)} \union {name}
      BY <2>2, <2>3, <3>1
    <3> QED
      BY <1>1, <1>2, <3>2, <3>3 DEF InsertAt
  <2> QED
    BY <1>3, <2>4, <2>5, <2>6 DEF Effect
<1>4. CASE (EngineStep /\ ~handleIgnoredAnnotation) \/ UNCHANGED vars
  <2>1. SameAskers /\ input' = input /\ UNCHANGED routeWAF
    BY <1>4, QuietProgress DEF policyVars
  <2>2. RouteNNs' = RouteNNs /\ \A n, j : Asked(n, j)' = Asked(n, j)
    BY <2>1, SameNames, SameAnswers
  <2>3. \A n : WAFAsked(n)' <=> WAFAsked(n)
    BY <2>2 DEF WAFAsked
  <2> QED
    BY <1>1, <1>2, <2>1, <2>2, <2>3
<1> QED
  BY <1>3, <1>4, NextEffect

(* A route ends with a WAF policy, that of the placeholder, exactly when    *)
(* one of the two annotations of its Ingress enables it, whichever handler  *)
(* came first.                                                              *)
THEOREM WAFSafety == Spec => []WAFAsDeclared
<1>1. Init => WAFBook
  <2>1. ASSUME Init
        PROVE  WAFBook
    <3>1. routeWAF = [n \in {} |-> NoWAF]
      BY <2>1, Zenon DEF Init
    <3>2. \A n : ~WAFAsked(n)
      BY <2>1, InitProgress DEF WAFAsked, Asked
    <3> QED
      BY <3>1, <3>2 DEF WAFBook
  <2> QED
    BY <2>1
<1>2. IInv /\ ProgressInv /\ WAFBook /\ [Next]_vars => WAFBook'
  BY WAFStepBook
<1>3. IInv /\ ProgressInv /\ WAFBook => WAFAsDeclared
  <2> SUFFICES ASSUME IInv, ProgressInv, WAFBook, Done, NamesAreUnique
               PROVE  WAFAsDeclared
    BY DEF WAFAsDeclared
  <2> DEFINE wanted(p) == \E k \in WAFKeys : Wants(p[1], k, {"true"})
  <2>1. ASSUME NEW p \in ActivePairs
        PROVE  WAFAsked(PairNN(p)) <=> wanted(p)
    BY AskedByOwner DEF WAFAsked, Wants
  <2> HIDE DEF wanted
  <2>2. {m \in RouteNNs : WAFAsked(m)} = {PairNN(p) : p \in {q \in ActivePairs : wanted(q)}}
    BY <2>1 DEF RouteNNs
  <2>3. routeWAF = [nn \in {PairNN(p) : p \in {q \in ActivePairs : wanted(q)}} |-> WAFPlaceholder]
    BY <2>2 DEF WAFBook
  <2> QED
    BY <2>3, Zenon DEF WAFAsDeclared, wanted
<1> QED
  BY <1>1, <1>2, <1>3, Invariance, Progress, PTL DEF Spec

-----------------------------------------------------------------------------
(* The TLS settings of listeners.                                            *)

(* No handler changes what a route hangs on: it stays on the HTTP listener  *)
(* or on that of its host, if TLS covers that.                              *)
RouteSections ==
  \A id \in OwnRoutes :
    SectionsOf(routes[id]) =
      IF Ingress(id.ing).tls = <<>> THEN {HTTPListenerName}
      ELSE {ListenerName(h) : h \in DOMAIN TLSBinding(id.ing, id.host)}

(* HTTPS listeners are for hosts of rules.                                  *)
HTTPSHosts == \A h \in DOMAIN https : \E nn \in Ingresses : h \in RuleHosts(nn)

SectionsBook == RouteSections /\ HTTPSHosts

LEMMA SectionsStepBook ==
  ASSUME IInv, ProgressInv, SectionsBook, [Next]_vars
  PROVE  SectionsBook'
<1>1. ASSUME input' = input, OwnRoutes' = OwnRoutes, https' = https,
             \A id \in OwnRoutes : SectionsOf(routes'[id]) = SectionsOf(routes[id])
      PROVE  SectionsBook'
  <2>1. /\ Ingresses' = Ingresses /\ \A nn : Ingress(nn)' = Ingress(nn)
        /\ \A nn : RuleHosts(nn)' = RuleHosts(nn)
        /\ \A nn, h : TLSBinding(nn, h)' = TLSBinding(nn, h)
    BY <1>1, SameBindings DEF Ingresses, Ingress, RuleHosts
  <2>2. RouteSections'
    BY <1>1, <2>1 DEF SectionsBook, RouteSections, SectionsOf
  <2>3. HTTPSHosts'
    BY <1>1, <2>1 DEF SectionsBook, HTTPSHosts
  <2> QED
    BY <2>2, <2>3 DEF SectionsBook
<1>2. ASSUME NEW k, Effect(k)
      PROVE  SectionsBook'
  <2>1. /\ input' = input /\ https' = https /\ RoutesKept
        /\ \A id \in DOMAIN routes : SectionsOf(routes'[id]) = SectionsOf(routes[id])
    BY <1>2, EffectHandled, HandledProgress DEF Effect, Handled
  <2> QED
    BY <1>1, <2>1, OwnRoutesKept DEF OwnRoutes
<1>3. CASE BeginRule
  <2>1. PICK id, b : BeginsHost(id, b)
    BY <1>3, BeginRuleGateway
  <2>2. /\ Ingresses' = Ingresses /\ \A nn : Ingress(nn)' = Ingress(nn)
        /\ \A nn : RuleHosts(nn)' = RuleHosts(nn)
        /\ \A nn, h : TLSBinding(nn, h)' = TLSBinding(nn, h)
    BY <2>1, SameBindings DEF Ingresses, Ingress, RuleHosts, BeginsHost
  <2>3. RouteSections'
    BY <2>1, <2>2 DEF SectionsBook, RouteSections, SectionsOf, BeginsHost
  <2>4. DOMAIN https' = DOMAIN https \union DOMAIN b
    BY <2>1 DEF BeginsHost, EnsureHTTPSListeners
  <2>5. \A h \in DOMAIN b : h = id.host
    BY <2>1, BindingOfRule DEF BeginsHost, NoBinding
  <2>6. HTTPSHosts'
    BY <2>1, <2>2, <2>4, <2>5 DEF SectionsBook, HTTPSHosts, BeginsHost
  <2> QED
    BY <2>3, <2>6 DEF SectionsBook
<1>4. CASE Setup \/ (\E nn \in todo : BeginIngress(nn)) \/ EndRule \/ EndIngress \/ Build
           \/ UNCHANGED vars
  <2>1. UNCHANGED <<input, routes, https>>
    BY <1>4 DEF Setup, BeginIngress, EndRule, EndIngress, Build, graphVars, vars, engineVars,
       progressVars
  <2>2. OwnRoutes' = OwnRoutes
    BY <2>1 DEF OwnRoutes, Ingresses
  <2> QED
    BY <1>1, <2>1, <2>2
<1> QED
  BY <1>2, <1>3, <1>4, NextEffect DEF EngineStep, EngineNext

(* What a route hangs on is what its Ingress says, all along.               *)
THEOREM Sections == Spec => []SectionsBook
<1>1. Init => SectionsBook
  <2>1. Init => DOMAIN routes = {} /\ DOMAIN https = {}
    BY Zenon DEF Init, EngineInit
  <2> QED
    BY <2>1 DEF SectionsBook, RouteSections, HTTPSHosts, OwnRoutes
<1>2. IInv /\ ProgressInv /\ SectionsBook /\ [Next]_vars => SectionsBook'
  BY SectionsStepBook
<1> QED
  BY <1>1, <1>2, Invariance, Progress, PTL DEF Spec

(* A route hangs on the listener of its host when TLS covers that.          *)
THEOREM BoundRoutes == Spec => []RoutesBound
<1>1. Init => RoutesBound
  <2>1. Init => DOMAIN routes = {}
    BY Zenon DEF Init, EngineInit
  <2> QED
    BY <2>1 DEF RoutesBound, OwnRoutes
<1>2. IInv /\ ProgressInv /\ RoutesBound /\ [Next]_vars => RoutesBound'
  <2>1. ASSUME IInv, ProgressInv, RoutesBound, [Next]_vars
        PROVE  RoutesBound'
    <3>1. StepOK
      BY <2>1, NextStep
    <3>2. ASSUME NEW k, Effect(k)
          PROVE  OwnRoutes' = OwnRoutes
      BY <2>1, <3>2, EffectHandled, HandledProgress, OwnRoutesKept DEF Effect, Handled
    <3>3. OwnRoutes' = OwnRoutes \/ BeginRule
      BY <2>1, <3>2, NextEffect, QuietProgress
    <3> QED
      BY <2>1, <3>1, <3>3, BoundStep
  <2> QED
    BY <2>1
<1> QED
  BY <1>1, <1>2, Invariance, Progress, PTL DEF Spec

-----------------------------------------------------------------------------
(* Client verification.                                                      *)

(* The listeners rule i of nn hangs on: at most that of its host.           *)
SectionsFor(nn, i) == {ListenerName(h) : h \in DOMAIN TLSBinding(nn, HostOf(nn, i))}

AllListeners == UNION {BoundListeners(nn) : nn \in Ingresses}

(* The Ingresses whose annotation k has been handled for a route on s.      *)
TLSAskers(s, k) ==
  {nn \in Ingresses : /\ HasAnnotation(nn, k)
                      /\ \E i \in ActiveRules(nn) : Over(nn, i, k) /\ s \in SectionsFor(nn, i)}

Verifies(nn) == AnnotationOf(nn, "auth-tls-verify-client") \in {"on", "optional"}

Ciphers(s)   == TLSAskers(s, "ssl-ciphers")
Verifying(s) == {nn \in TLSAskers(s, "auth-tls-verify-client") : Verifies(nn)}
Secrets(s)   == TLSAskers(s, "auth-tls-secret")

LastOf(S) == CHOOSE nn \in S : \A other \in S \ {nn} : NNLess(other, nn)
CAOf(nn)  == CASecret(nn, AnnotationOf(nn, "auth-tls-secret"))

TLSSettings(ciphers, verifying, secrets) ==
  [type   |-> IF ciphers # {} THEN "2023-06" ELSE "none",
   verify |-> verifying \union secrets # {},
   ca     |-> IF secrets = {} THEN NoSecret ELSE CAOf(LastOf(secrets))]

(* A listener has a policy as soon as it has been asked for, and it holds   *)
(* what has been asked for so far.                                          *)
FrontendBook ==
  /\ frontendTLS = [s \in DOMAIN frontendTLS |-> frontendTLS[s]]
  /\ DOMAIN frontendTLS =
       {s \in AllListeners : Ciphers(s) \union Verifying(s) \union Secrets(s) # {}}
  /\ \A s \in AllListeners :
       FrontendTLS(s) = TLSSettings(Ciphers(s), Verifying(s), Secrets(s))

(* The listeners a handler sees are those of the current rule.              *)
LEMMA ListenersOfRule ==
  ASSUME IInv, ProgressInv, SectionsBook, RoutesBound, phase = "annotations"
  PROVE  Listeners = SectionsFor(cur, rule)
<1>1. /\ cur \in Ingresses /\ rule \in ActiveRules(cur) /\ ThisRouteId \in DOMAIN routes
      /\ ThisRouteId = RouteId(cur, HostOf(cur, rule))
  BY CurrentRoute
<1>2. /\ ThisRouteId \in OwnRoutes /\ ThisRouteId.ing = cur
      /\ ThisRouteId.host = HostOf(cur, rule)
  BY <1>1 DEF OwnRoutes, RouteId
<1>3. SectionsOf(ThisRoute) = IF Ingress(cur).tls = <<>> THEN {HTTPListenerName}
                              ELSE SectionsFor(cur, rule)
  BY <1>2 DEF SectionsBook, RouteSections, ThisRoute, SectionsFor
<1>4. \A h \in DOMAIN TLSBinding(cur, HostOf(cur, rule)) : h \in DOMAIN https
  BY <1>2 DEF RoutesBound
<1>5. CASE Ingress(cur).tls = <<>>
  <2>1. SectionsFor(cur, rule) = {}
    BY <1>5, BindingOfRule DEF SectionsFor
  <2>2. \A h \in DOMAIN https : ListenerName(h) # HTTPListenerName
    <3>1. input \in Inputs
      BY DEF IInv, TypeOK, ProgressOK
    <3> QED
      BY <3>1, ListenerAssumption DEF SectionsBook, HTTPSHosts, RuleHosts, Ingresses, Ingress
  <2> QED
    BY <1>3, <1>5, <2>1, <2>2 DEF Listeners, ParentHTTPSListeners
<1>6. CASE Ingress(cur).tls # <<>>
  BY <1>3, <1>4, <1>6 DEF Listeners, ParentHTTPSListeners, SectionsFor
<1> QED
  BY <1>5, <1>6

(* A handler adds its Ingress to those that asked something of its          *)
(* listeners, after all others.                                             *)

(* What a handler or the engine does not change.                            *)
LEMMA SameSections ==
  ASSUME input' = input
  PROVE  /\ \A nn, i : SectionsFor(nn, i)' = SectionsFor(nn, i)
         /\ Ingresses' = Ingresses /\ AllListeners' = AllListeners
         /\ \A nn : ActiveRules(nn)' = ActiveRules(nn)
         /\ \A nn, j : HasAnnotation(nn, j)' = HasAnnotation(nn, j)
         /\ \A nn : Verifies(nn)' = Verifies(nn) /\ CAOf(nn)' = CAOf(nn)
<1>1. \A nn, h : TLSBinding(nn, h)' = TLSBinding(nn, h)
  BY SameBindings
<1>2. Ingresses' = Ingresses /\ \A nn : Ingress(nn)' = Ingress(nn)
  BY DEF Ingresses, Ingress
<1>3. /\ \A nn : ActiveRules(nn)' = ActiveRules(nn) /\ ActiveHosts(nn)' = ActiveHosts(nn)
      /\ \A nn, i : HostOf(nn, i)' = HostOf(nn, i)
      /\ \A nn, j : HasAnnotation(nn, j)' = HasAnnotation(nn, j)
      /\ \A nn, j : AnnotationOf(nn, j)' = AnnotationOf(nn, j)
  BY <1>2 DEF ActiveRules, ActiveHosts, HostOf, HasAnnotation, AnnotationOf
<1>4. \A nn : BoundListeners(nn)' = BoundListeners(nn)
  BY <1>1, <1>3 DEF BoundListeners
<1> QED
  BY <1>1, <1>2, <1>3, <1>4 DEF SectionsFor, AllListeners, Verifies, CAOf, CASecret

(* A handler adds its Ingress to those that asked something of its          *)
(* listeners, after all others.                                             *)
LEMMA TLSAskersGrow ==
  ASSUME IInv, ProgressInv, SectionsBook, RoutesBound, NEW k, Handled(k)
  PROVE  \E me \in Ingresses : \E L :
           /\ me = cur /\ L = Listeners /\ L \subseteq AllListeners
           /\ \A s, j : TLSAskers(s, j)' = TLSAskers(s, j) \union
                          (IF j = k /\ s \in L THEN {me} ELSE {})
           /\ \A s, j : \A nn \in TLSAskers(s, j) : nn = me \/ NNLess(nn, me)
<1>1. /\ \A nn \in Ingresses : \A i \in ActiveRules(nn) : \A j :
           Over(nn, i, j)' <=> Over(nn, i, j) \/ (nn = cur /\ i = rule /\ j = k)
      /\ phase = "annotations" /\ HasAnnotation(cur, k)
      /\ input' = input
  BY HandledProgress
<1>2. cur \in Ingresses /\ rule \in ActiveRules(cur)
  BY <1>1, CurrentRoute
<1>3. PICK me \in Ingresses : me = cur
  BY <1>2
<1>4. PICK at : at = rule
  OBVIOUS
<1>5. PICK L : L = Listeners
  OBVIOUS
<1>6. L = SectionsFor(me, at)
  BY <1>1, <1>3, <1>4, <1>5, ListenersOfRule
<1>7. L \subseteq AllListeners
  BY <1>2, <1>3, <1>4, <1>6, BindingOfRule DEF AllListeners, BoundListeners, SectionsFor, ActiveHosts, HostOf
<1>8. ASSUME NEW s, NEW j
      PROVE  TLSAskers(s, j)' = TLSAskers(s, j) \union (IF j = k /\ s \in L THEN {me} ELSE {})
  <2>1. ASSUME NEW nn \in Ingresses
        PROVE  nn \in TLSAskers(s, j)' <=> nn \in TLSAskers(s, j) \/ (nn = me /\ j = k /\ s \in L)
    <3>1. ASSUME NEW i \in ActiveRules(nn)
          PROVE  /\ Over(nn, i, j)' <=> Over(nn, i, j) \/ (nn = me /\ i = at /\ j = k)
                 /\ SectionsFor(nn, i)' = SectionsFor(nn, i)
      BY <1>1, <1>3, <1>4, SameSections
    <3>2. /\ Ingresses' = Ingresses /\ ActiveRules(nn)' = ActiveRules(nn)
          /\ HasAnnotation(nn, j)' = HasAnnotation(nn, j)
      BY <1>1, SameSections
    <3> QED
      BY <1>1, <1>2, <1>3, <1>4, <1>6, <3>1, <3>2 DEF TLSAskers
  <2>2. TLSAskers(s, j) \subseteq Ingresses /\ TLSAskers(s, j)' \subseteq Ingresses
    BY <1>1, SameSections DEF TLSAskers
  <2> QED
    BY <2>1, <2>2
<1>9. ASSUME NEW s, NEW j, NEW nn \in TLSAskers(s, j)
      PROVE  nn = me \/ NNLess(nn, me)
  <2>1. nn \in Ingresses \ todo
    BY DEF TLSAskers, Over
  <2> QED
    BY <1>1, <1>3, <2>1 DEF ProgressInv, InTurn
<1> QED
  BY <1>3, <1>5, <1>7, <1>8, <1>9

(* The last of some Ingresses is the one all others come before.            *)
LEMMA LastIsMe ==
  ASSUME IInv, NEW me \in Ingresses, NEW S, \A nn \in S : nn \in Ingresses /\ (nn = me \/ NNLess(nn, me))
  PROVE  LastOf(S \union {me}) = me
<1>1. \A nn \in Ingresses : nn.ns \in Nat /\ nn.name \in Nat
  BY NamesAssumption DEF IInv, TypeOK, ProgressOK, Ingresses
<1>2. \A nn \in Ingresses : ~(NNLess(nn, me) /\ NNLess(me, nn))
  BY <1>1 DEF NNLess
<1>3. ASSUME NEW nn \in S \union {me}, \A other \in (S \union {me}) \ {nn} : NNLess(other, nn)
      PROVE  nn = me
  BY <1>2, <1>3
<1>4. \A other \in (S \union {me}) \ {me} : NNLess(other, me)
  OBVIOUS
<1> QED
  BY <1>3, <1>4 DEF LastOf

(* A step that neither asks nor gives keeps the book.                       *)
LEMMA FrontendKept ==
  ASSUME FrontendBook, UNCHANGED frontendTLS, AllListeners' = AllListeners,
         \A nn : CAOf(nn)' = CAOf(nn),
         \A s : /\ Ciphers(s)' = Ciphers(s) /\ Verifying(s)' = Verifying(s)
                /\ Secrets(s)' = Secrets(s)
  PROVE  FrontendBook'
<1>1. \A c, w, S : TLSSettings(c, w, S)' = TLSSettings(c, w, S)
  BY DEF TLSSettings
<1>2. \A s : FrontendTLS(s)' = FrontendTLS(s)
  BY DEF FrontendTLS
<1> QED
  BY <1>1, <1>2 DEF FrontendBook

LEMMA FrontendStepBook ==
  ASSUME IInv, ProgressInv, SectionsBook, RoutesBound, FrontendBook, [Next]_vars
  PROVE  FrontendBook'
<1>1. FrontendBook' <=>
        /\ frontendTLS' = [s \in DOMAIN frontendTLS' |-> frontendTLS'[s]]
        /\ DOMAIN frontendTLS' =
             {s \in AllListeners' : (Ciphers(s) \union Verifying(s) \union Secrets(s))' # {}}
        /\ \A s \in AllListeners' :
             FrontendTLS(s)' = TLSSettings(Ciphers(s), Verifying(s), Secrets(s))'
  BY DEF FrontendBook
<1>2. ASSUME NEW k, Effect(k)
      PROVE  FrontendBook'
  <2>1. PICK me \in Ingresses : \E L :
          /\ me = cur /\ L = Listeners /\ L \subseteq AllListeners
          /\ \A s, j : TLSAskers(s, j)' = TLSAskers(s, j) \union
                         (IF j = k /\ s \in L THEN {me} ELSE {})
          /\ \A s, j : \A nn \in TLSAskers(s, j) : nn = me \/ NNLess(nn, me)
    BY <1>2, EffectHandled, TLSAskersGrow
  <2>2. PICK L :
          /\ me = cur /\ L = Listeners /\ L \subseteq AllListeners
          /\ \A s, j : TLSAskers(s, j)' = TLSAskers(s, j) \union
                         (IF j = k /\ s \in L THEN {me} ELSE {})
          /\ \A s, j : \A nn \in TLSAskers(s, j) : nn = me \/ NNLess(nn, me)
    BY <2>1
  <2>3. PICK v : v = Value(k)
    OBVIOUS
  <2>4. /\ Value(k) = AnnotationOf(cur, k) /\ input' = input
    BY <1>2, EffectHandled, HandledProgress
  <2>5. /\ AllListeners' = AllListeners
        /\ \A nn : Verifies(nn)' = Verifies(nn) /\ CAOf(nn)' = CAOf(nn)
    BY <2>4, SameSections
  <2>6. Verifies(me) <=> AnnotationOf(me, "auth-tls-verify-client") \in {"on", "optional"}
    BY DEF Verifies
  <2>7. ASSUME NEW s
        PROVE  /\ Ciphers(s)' = Ciphers(s) \union
                    (IF k = "ssl-ciphers" /\ s \in L THEN {me} ELSE {})
               /\ Verifying(s)' = Verifying(s) \union
                    (IF k = "auth-tls-verify-client" /\ s \in L /\ v \in {"on", "optional"}
                       THEN {me} ELSE {})
               /\ Secrets(s)' = Secrets(s) \union
                    (IF k = "auth-tls-secret" /\ s \in L THEN {me} ELSE {})
    <3>1. /\ Ciphers(s)' = Ciphers(s) \union
               (IF k = "ssl-ciphers" /\ s \in L THEN {me} ELSE {})
          /\ Secrets(s)' = Secrets(s) \union
               (IF k = "auth-tls-secret" /\ s \in L THEN {me} ELSE {})
      BY <2>2 DEF Ciphers, Secrets
    <3>2. PICK old : old = TLSAskers(s, "auth-tls-verify-client")
      OBVIOUS
    <3>3. TLSAskers(s, "auth-tls-verify-client")' = old \union
            (IF k = "auth-tls-verify-client" /\ s \in L THEN {me} ELSE {})
      BY <2>2, <3>2
    <3>4. Verifying(s)' = {nn \in TLSAskers(s, "auth-tls-verify-client")' : Verifies(nn)}
      BY <2>5 DEF Verifying
    <3>5. k = "auth-tls-verify-client" => (Verifies(me) <=> v \in {"on", "optional"})
      BY <2>2, <2>3, <2>4, <2>6
    <3>6. Verifying(s)' = Verifying(s) \union
                    (IF k = "auth-tls-verify-client" /\ s \in L /\ v \in {"on", "optional"}
                       THEN {me} ELSE {})
      BY <3>2, <3>3, <3>4, <3>5 DEF Verifying
    <3> QED
      BY <3>1, <3>6
  <2>8. \A c, w, S : TLSSettings(c, w, S)' = TLSSettings(c, w, S)
    BY <2>5 DEF TLSSettings
  <2>9. ASSUME UNCHANGED frontendTLS,
               \A s : /\ Ciphers(s)' = Ciphers(s) /\ Verifying(s)' = Verifying(s)
                      /\ Secrets(s)' = Secrets(s)
        PROVE  FrontendBook'
    BY <1>1, <2>5, <2>8, <2>9, FrontendKept
  <2>10. CASE k \notin ListenerKeys
    BY <1>2, <2>7, <2>9, <2>10 DEF Effect, ListenerKeys
  <2>11. CASE NoListeners(k)
    <3>1. L = {} /\ UNCHANGED frontendTLS
      BY <2>2, <2>11 DEF NoListeners, Notice, policyVars
    <3> QED
      BY <2>7, <2>9, <3>1
  <2>12. CASE NoClientVerification /\ k = "auth-tls-verify-client"
    <3>1. v \notin {"on", "optional"} /\ UNCHANGED frontendTLS
      BY <2>3, <2>12 DEF NoClientVerification, Notice, policyVars
    <3> QED
      BY <2>7, <2>9, <2>12, <3>1
  <2>13. ASSUME k \in ListenerKeys, k = "auth-tls-verify-client" => v \in {"on", "optional"},
                frontendTLS' = [s \in DOMAIN frontendTLS' |-> frontendTLS'[s]],
                DOMAIN frontendTLS' = DOMAIN frontendTLS \union L,
                \A s \in DOMAIN frontendTLS \ L : frontendTLS'[s] = FrontendTLS(s),
                \A s \in L : frontendTLS'[s] = TLSSettings(Ciphers(s), Verifying(s), Secrets(s))'
         PROVE  FrontendBook'
    <3>1. \A s \in L : (Ciphers(s) \union Verifying(s) \union Secrets(s))' # {}
      BY <2>7, <2>13 DEF ListenerKeys
    <3>2. \A s : s \notin L => /\ Ciphers(s)' = Ciphers(s) /\ Verifying(s)' = Verifying(s)
                               /\ Secrets(s)' = Secrets(s)
      BY <2>7
    <3>3. DOMAIN frontendTLS' =
            {s \in AllListeners' : (Ciphers(s) \union Verifying(s) \union Secrets(s))' # {}}
      BY <2>2, <2>5, <2>13, <3>1, <3>2 DEF FrontendBook
    <3>4. ASSUME NEW s \in AllListeners'
          PROVE  FrontendTLS(s)' = TLSSettings(Ciphers(s), Verifying(s), Secrets(s))'
      <4>1. CASE s \in L
        BY <2>13, <4>1 DEF FrontendTLS
      <4>2. CASE s \notin L
        <5>1. FrontendTLS(s)' = FrontendTLS(s)
          BY <2>13, <4>2 DEF FrontendTLS
        <5>2. FrontendTLS(s) = TLSSettings(Ciphers(s), Verifying(s), Secrets(s))
          BY <2>5 DEF FrontendBook
        <5> QED
          BY <2>8, <3>2, <4>2, <5>1, <5>2
      <4> QED
        BY <4>1, <4>2
    <3> QED
      BY <1>1, <2>13, <3>3, <3>4
  <2>14. ASSUME NEW s \in L
         PROVE  \E c, w, S :
                  /\ c = Ciphers(s) /\ w = Verifying(s) /\ S = Secrets(s)
                  /\ DOMAIN FrontendTLS(s) = {"type", "verify", "ca"}
                  /\ FrontendTLS(s).type = IF c # {} THEN "2023-06" ELSE "none"
                  /\ FrontendTLS(s).verify = (w \union S # {})
                  /\ FrontendTLS(s).ca = IF S = {} THEN NoSecret ELSE CAOf(LastOf(S))
    <3>1. FrontendTLS(s) = TLSSettings(Ciphers(s), Verifying(s), Secrets(s))
      BY <2>2 DEF FrontendBook
    <3> QED
      BY <3>1 DEF TLSSettings
  <2>15. ASSUME NEW s \in L, NEW c, NEW w, NEW S, NEW new,
                c = Ciphers(s)', w = Verifying(s)', S = Secrets(s)',
                new = [type |-> IF c # {} THEN "2023-06" ELSE "none", verify |-> w \union S # {},
                       ca |-> IF S = {} THEN NoSecret ELSE CAOf(LastOf(S))]
         PROVE  new = TLSSettings(Ciphers(s), Verifying(s), Secrets(s))'
    <3>1. TLSSettings(Ciphers(s), Verifying(s), Secrets(s))' = TLSSettings(c, w, S)'
      BY <2>15 DEF TLSSettings
    <3>2. new = TLSSettings(c, w, S)
      BY <2>15 DEF TLSSettings
    <3> QED
      BY <2>8, <3>1, <3>2
  <2>16. CASE handleAuthTLSSecret /\ k = "auth-tls-secret"
    <3>1. frontendTLS' = [s \in DOMAIN frontendTLS \union L |->
            IF s \in L THEN [FrontendTLS(s) EXCEPT !.verify = TRUE, !.ca = CASecret(me, v)]
                       ELSE FrontendTLS(s)]
      BY <2>2, <2>3, <2>16, Zenon DEF handleAuthTLSSecret, SetFrontendTLS
    <3>2. CASecret(me, v) = CAOf(me)
      BY <2>2, <2>3, <2>4, <2>16 DEF CAOf
    <3>3. ASSUME NEW s \in L
          PROVE  frontendTLS'[s] = TLSSettings(Ciphers(s), Verifying(s), Secrets(s))'
      <4>1. PICK c, w, S :
              /\ c = Ciphers(s) /\ w = Verifying(s) /\ S = Secrets(s)
              /\ DOMAIN FrontendTLS(s) = {"type", "verify", "ca"}
              /\ FrontendTLS(s).type = IF c # {} THEN "2023-06" ELSE "none"
              /\ FrontendTLS(s).verify = (w \union S # {})
              /\ FrontendTLS(s).ca = IF S = {} THEN NoSecret ELSE CAOf(LastOf(S))
        BY <2>14
      <4>2. PICK T : T = S \union {me}
        OBVIOUS
      <4>3. c = Ciphers(s)' /\ w = Verifying(s)' /\ T = Secrets(s)'
        BY <2>7, <2>16, <4>1, <4>2
      <4>4. LastOf(T) = me
        BY <2>2, <4>1, <4>2, LastIsMe DEF Secrets, TLSAskers
      <4>5. PICK new : new = [FrontendTLS(s) EXCEPT !.verify = TRUE, !.ca = CASecret(me, v)]
        OBVIOUS
      <4>6. (w \union T # {}) = TRUE /\ T # {}
        BY <4>2
      <4>7. new = [type |-> IF c # {} THEN "2023-06" ELSE "none", verify |-> w \union T # {},
                   ca |-> IF T = {} THEN NoSecret ELSE CAOf(LastOf(T))]
        BY <3>2, <4>1, <4>4, <4>5, <4>6
      <4>8. frontendTLS'[s] = new
        BY <3>1, <4>5
      <4> QED
        BY <2>15, <4>3, <4>7, <4>8
    <3> QED
      BY <2>13, <2>16, <3>1, <3>3 DEF ListenerKeys
  <2>17. CASE handleAuthTLSVerifyClient /\ k = "auth-tls-verify-client"
    <3>1. /\ frontendTLS' = [s \in DOMAIN frontendTLS \union L |->
               IF s \in L THEN [FrontendTLS(s) EXCEPT !.verify = TRUE] ELSE FrontendTLS(s)]
          /\ v \in {"on", "optional"}
      BY <2>2, <2>3, <2>17, Zenon DEF handleAuthTLSVerifyClient, SetFrontendTLS
    <3>3. ASSUME NEW s \in L
          PROVE  frontendTLS'[s] = TLSSettings(Ciphers(s), Verifying(s), Secrets(s))'
      <4>1. PICK c, w, S :
              /\ c = Ciphers(s) /\ w = Verifying(s) /\ S = Secrets(s)
              /\ DOMAIN FrontendTLS(s) = {"type", "verify", "ca"}
              /\ FrontendTLS(s).type = IF c # {} THEN "2023-06" ELSE "none"
              /\ FrontendTLS(s).verify = (w \union S # {})
              /\ FrontendTLS(s).ca = IF S = {} THEN NoSecret ELSE CAOf(LastOf(S))
        BY <2>14
      <4>2. PICK W : W = w \union {me}
        OBVIOUS
      <4>3. c = Ciphers(s)' /\ W = Verifying(s)' /\ S = Secrets(s)'
        BY <2>7, <2>17, <3>1, <4>1, <4>2
      <4>5. PICK new : new = [FrontendTLS(s) EXCEPT !.verify = TRUE]
        OBVIOUS
      <4>6. (W \union S # {}) = TRUE
        BY <4>2
      <4>7. new = [type |-> IF c # {} THEN "2023-06" ELSE "none", verify |-> W \union S # {},
                   ca |-> IF S = {} THEN NoSecret ELSE CAOf(LastOf(S))]
        BY <4>1, <4>5, <4>6
      <4>8. frontendTLS'[s] = new
        BY <3>1, <4>5
      <4> QED
        BY <2>15, <4>3, <4>7, <4>8
    <3> QED
      BY <2>13, <2>17, <3>1, <3>3 DEF ListenerKeys
  <2>18. CASE handleSSLCiphers /\ k = "ssl-ciphers"
    <3>1. frontendTLS' = [s \in DOMAIN frontendTLS \union L |->
            IF s \in L /\ FrontendTLS(s).type = "none"
              THEN [FrontendTLS(s) EXCEPT !.type = "2023-06"] ELSE FrontendTLS(s)]
      BY <2>2, <2>18, Zenon DEF handleSSLCiphers, SetFrontendTLS
    <3>3. ASSUME NEW s \in L
          PROVE  frontendTLS'[s] = TLSSettings(Ciphers(s), Verifying(s), Secrets(s))'
      <4>1. PICK c, w, S :
              /\ c = Ciphers(s) /\ w = Verifying(s) /\ S = Secrets(s)
              /\ DOMAIN FrontendTLS(s) = {"type", "verify", "ca"}
              /\ FrontendTLS(s).type = IF c # {} THEN "2023-06" ELSE "none"
              /\ FrontendTLS(s).verify = (w \union S # {})
              /\ FrontendTLS(s).ca = IF S = {} THEN NoSecret ELSE CAOf(LastOf(S))
        BY <2>14
      <4>2. PICK C : C = c \union {me}
        OBVIOUS
      <4>3. C = Ciphers(s)' /\ w = Verifying(s)' /\ S = Secrets(s)'
        BY <2>7, <2>18, <4>1, <4>2
      <4>5. PICK old : old = FrontendTLS(s)
        OBVIOUS
      <4>6. PICK new : new = IF old.type = "none" THEN [old EXCEPT !.type = "2023-06"] ELSE old
        OBVIOUS
      <4>7. /\ DOMAIN new = {"type", "verify", "ca"} /\ new.type = "2023-06"
            /\ new.verify = old.verify /\ new.ca = old.ca
        BY <4>1, <4>5, <4>6
      <4>8. old = [x \in DOMAIN old |-> old[x]] /\ new = [x \in DOMAIN new |-> new[x]]
        <5>1. old = [x \in DOMAIN old |-> old[x]]
          BY <2>2, <4>5 DEF FrontendBook, TLSSettings
        <5> QED
          BY <4>6, <5>1
      <4>9. new = [type |-> IF C # {} THEN "2023-06" ELSE "none", verify |-> w \union S # {},
                   ca |-> IF S = {} THEN NoSecret ELSE CAOf(LastOf(S))]
        BY <4>1, <4>2, <4>5, <4>7, <4>8
      <4>10. frontendTLS'[s] = new
        BY <3>1, <4>5, <4>6
      <4> QED
        BY <2>15, <4>3, <4>9, <4>10
    <3> QED
      BY <2>13, <2>18, <3>1, <3>3 DEF ListenerKeys
  <2> QED
    BY <1>2, <2>10, <2>11, <2>12, <2>16, <2>17, <2>18 DEF Effect, SetsListeners
<1>3. CASE (EngineStep /\ ~handleIgnoredAnnotation) \/ UNCHANGED vars
  <2>1. SameAskers /\ input' = input /\ UNCHANGED frontendTLS
    BY <1>3, QuietProgress DEF policyVars
  <2>2. /\ \A nn, i : SectionsFor(nn, i)' = SectionsFor(nn, i)
        /\ Ingresses' = Ingresses /\ AllListeners' = AllListeners
        /\ \A nn : ActiveRules(nn)' = ActiveRules(nn)
        /\ \A nn, j : HasAnnotation(nn, j)' = HasAnnotation(nn, j)
        /\ \A nn : Verifies(nn)' = Verifies(nn) /\ CAOf(nn)' = CAOf(nn)
    BY <2>1, SameSections
  <2>3. ASSUME NEW s, NEW j
        PROVE  TLSAskers(s, j)' = TLSAskers(s, j)
    <3>1. \A nn \in Ingresses : nn \in TLSAskers(s, j)' <=> nn \in TLSAskers(s, j)
      BY <2>1, <2>2 DEF TLSAskers, SameAskers, SameTurns, HasAnnotation
    <3> QED
      BY <2>2, <3>1 DEF TLSAskers
  <2>4. \A s : /\ Ciphers(s)' = Ciphers(s) /\ Verifying(s)' = Verifying(s)
               /\ Secrets(s)' = Secrets(s)
    BY <2>2, <2>3 DEF Ciphers, Verifying, Secrets
  <2> QED
    BY <2>1, <2>2, <2>4, FrontendKept
<1> QED
  BY <1>2, <1>3, NextEffect

(* The settings of a listener several Ingresses share are those of all of   *)
(* them together, with the CA certificate of the last one in the order of   *)
(* names, in whatever order their annotations were handled.                 *)
THEOREM ClientVerificationSafety == Spec => []ClientVerificationAsDeclared
<1>1. Init => FrontendBook
  <2>1. ASSUME Init
        PROVE  FrontendBook
    <3>1. frontendTLS = [s \in {} |-> s]
      BY <2>1, Zenon DEF Init
    <3>2. \A s, k : TLSAskers(s, k) = {}
      BY <2>1, Zenon DEF Init, EngineInit, TLSAskers, Over
    <3>3. \A s : Ciphers(s) = {} /\ Verifying(s) = {} /\ Secrets(s) = {}
      BY <3>2 DEF Ciphers, Verifying, Secrets
    <3> QED
      BY <3>1, <3>3 DEF FrontendBook, FrontendTLS, NewFrontendTLS, TLSSettings
  <2> QED
    BY <2>1
<1>2. IInv /\ ProgressInv /\ SectionsBook /\ RoutesBound /\ FrontendBook /\ [Next]_vars => FrontendBook'
  BY FrontendStepBook
<1>3. IInv /\ ProgressInv /\ FrontendBook => ClientVerificationAsDeclared
  <2> SUFFICES ASSUME IInv, ProgressInv, FrontendBook, Done
               PROVE  ClientVerificationAsDeclared
    BY DEF ClientVerificationAsDeclared
  <2> DEFINE asking(s, k) == {nn \in Ingresses : HasAnnotation(nn, k) /\ s \in BoundListeners(nn)}
             verifying(s) == {nn \in asking(s, "auth-tls-verify-client") :
                                AnnotationOf(nn, "auth-tls-verify-client") \in {"on", "optional"}}
             bound(s)     == asking(s, "auth-tls-secret")
             last(S)      == CHOOSE nn \in S : \A other \in S \ {nn} : NNLess(other, nn)
             asked        == {l \in AllListeners :
                                asking(l, "ssl-ciphers") \union verifying(l) \union bound(l) # {}}
             settings(s)  == [type   |-> IF asking(s, "ssl-ciphers") # {} THEN "2023-06" ELSE "none",
                              verify |-> verifying(s) \union bound(s) # {},
                              ca     |-> IF bound(s) = {} THEN NoSecret
                                         ELSE CASecret(last(bound(s)),
                                                       AnnotationOf(last(bound(s)), "auth-tls-secret"))]
  <2>1. \A nn \in Ingresses : \A i, k : Over(nn, i, k)
    BY DEF ProgressInv, Done, InTurn, Over
  <2>2. \A nn, s : s \in BoundListeners(nn) <=> \E i \in ActiveRules(nn) : s \in SectionsFor(nn, i)
    BY BindingOfRule DEF BoundListeners, SectionsFor, ActiveHosts, HostOf
  <2>3. \A s, k : TLSAskers(s, k) = asking(s, k)
    BY <2>1, <2>2 DEF TLSAskers
  <2>4. \A s : Ciphers(s) = asking(s, "ssl-ciphers") /\ Verifying(s) = verifying(s) /\ Secrets(s) = bound(s)
    BY <2>3 DEF Ciphers, Verifying, Secrets, Verifies
  <2>5. \A S : LastOf(S) = last(S)
    BY Zenon DEF LastOf
  <2>6. \A s : TLSSettings(Ciphers(s), Verifying(s), Secrets(s)) = settings(s)
    <3> SUFFICES ASSUME NEW s
                 PROVE  TLSSettings(Ciphers(s), Verifying(s), Secrets(s)) = settings(s)
      OBVIOUS
    <3>1. PICK m : m = LastOf(bound(s)) /\ m = last(bound(s))
      BY <2>5
    <3>2. CAOf(LastOf(bound(s))) = CASecret(last(bound(s)),
                                            AnnotationOf(last(bound(s)), "auth-tls-secret"))
      BY <3>1 DEF CAOf
    <3> HIDE DEF asking, verifying, bound, last
    <3> QED
      BY <2>4, <3>2 DEF TLSSettings
  <2>7. DOMAIN frontendTLS = asked
    BY <2>4 DEF FrontendBook
  <2>8. \A s \in asked : frontendTLS[s] = settings(s)
    BY <2>6, <2>7 DEF FrontendBook, FrontendTLS
  <2>9. frontendTLS = [s \in asked |-> settings(s)]
    <3> HIDE DEF asked, settings
    <3> QED
      BY <2>7, <2>8 DEF FrontendBook
  <2> QED
    BY <2>9, Zenon DEF ClientVerificationAsDeclared, AllListeners
<1> QED
  BY <1>1, <1>2, <1>3, Invariance, Progress, Sections, BoundRoutes, PTL DEF Spec

-----------------------------------------------------------------------------
(* The rules of the routes.                                                  *)

RedirectFields == {"code", "scheme", "host", "port", "path"}

Shaped(r) ==
  /\ DOMAIN r = RuleFields
  /\ DOMAIN r.rewrite = RewriteFields
  /\ DOMAIN r.redirect = RedirectFields
  /\ IsList(r.headerMatches)

(* The redirect annotation k of an Ingress asks for, if any.                *)
RequestsOf(nn, k) ==
  LET v     == AnnotationOf(nn, k)
      first == Ingress(nn).rules[1].host
  IN  IF k \in RedirectKeys
        THEN IF v.kind = "url"
               THEN {[code |-> IF k = "permanent-redirect" THEN "301" ELSE "302",
                      scheme |-> v.scheme, host |-> v.host, port |-> v.port, path |-> v.path]}
               ELSE {}
      ELSE IF k \in RedirectCodeKeys
        THEN IF v \in ValidCodes(k) THEN {[NoRedirect EXCEPT !.code = v]} ELSE {}
      ELSE IF k = "from-to-www-redirect" /\ v = "true" /\ first \notin WWWHosts \union {AnyHost}
        THEN {[NoRedirect EXCEPT !.code = "301", !.host = WWWName(first)]}
      ELSE {}

(* No part of a redirect is there unasked; all that a handled annotation    *)
(* asks for is there in some way.                                           *)
RedirectOK(nn, handled, r) ==
  \A part \in RedirectFields :
    /\ r.redirect[part] = "none" \/ \E q \in RedirectRequests(nn) : q[part] = r.redirect[part]
    /\ \A k \in handled : \A q \in RequestsOf(nn, k) :
         q[part] # "none" => r.redirect[part] # "none"

(* A rule has the path it was declared with until rewrite-target has been   *)
(* over it, and then what that makes of it, the first time and for good.    *)
RewriteOK(nn, declared, handled, r) ==
  LET target == AnnotationOf(nn, "rewrite-target")
      regex  == declared \in RegexPaths
  IN  \/ /\ "rewrite-target" \notin handled
         /\ r.path = declared /\ r.rewrite.prefix = "none"
      \/ /\ HasAnnotation(nn, "rewrite-target")
         /\ r.path = IF regex THEN PrefixOf(declared) ELSE declared
         /\ r.rewrite.prefix = IF target.groups THEN (IF regex THEN target.static ELSE "none")
                               ELSE target.path

ValueOr(nn, k, default) == IF HasAnnotation(nn, k) THEN AnnotationOf(nn, k) ELSE default

(* The two canary handlers refuse these settings.                           *)
Refuses(nn, k) ==
  \/ /\ k = "canary-weight"
     /\ ~ValidWeight(AnnotationOf(nn, k), ValueOr(nn, "canary-weight-total", 100))
  \/ /\ k = "canary-by-header"
     /\ \/ AnnotationOf(nn, k) = Unset
        \/ ValueOr(nn, "canary-by-header-pattern", Unset) = Invalid

CanaryOK(nn, handled, r) ==
  /\ "canary-weight" \in handled /\ ~Refuses(nn, "canary-weight") =>
       r.weight = AnnotationOf(nn, "canary-weight")
  /\ "canary-by-header" \in handled /\ ~Refuses(nn, "canary-by-header") =>
       r.headerMatches # <<>>

(* The rule of a backend, when these annotations have been handled.         *)
BackendOK(nn, declared, handled, r) ==
  /\ Shaped(r)
  /\ r.svc = declared.svc /\ r.port = declared.port
  /\ RedirectOK(nn, handled, r)
  /\ RewriteOK(nn, declared.path, handled, r)
  /\ CanaryOK(nn, handled, r)

(* The redirect rule of an app-root.                                        *)
RootOK(r) ==
  /\ Shaped(r)
  /\ r.svc = NoService
  /\ r.path = "/"
  /\ r.redirect.code # "none"

(* The rules of a route: those of app-root, and then the backends.          *)
RouteOK(rules, roots, backends, nn, handled) ==
  /\ IsList(rules) /\ Len(rules) = roots + Len(backends)
  /\ \A i \in 1 .. roots : RootOK(rules[i])
  /\ \A i \in 1 .. Len(backends) : BackendOK(nn, backends[i], handled, rules[roots + i])

LEMMA HandledLess ==
  ASSUME NEW nn, NEW d, NEW handled, NEW fewer, fewer \subseteq handled, NEW r,
         BackendOK(nn, d, handled, r)
  PROVE  BackendOK(nn, d, fewer, r)
<1>1. RedirectOK(nn, fewer, r)
  BY DEF BackendOK, RedirectOK
<1>2. RewriteOK(nn, d.path, fewer, r)
  BY DEF BackendOK, RewriteOK
<1>3. CanaryOK(nn, fewer, r)
  BY DEF BackendOK, CanaryOK
<1> QED
  BY <1>1, <1>2, <1>3 DEF BackendOK

(* What the annotations of an Ingress ask for, one by one.                  *)
LEMMA RequestsCollected ==
  ASSUME NEW nn
  PROVE  /\ \A k \in DOMAIN Ingress(nn).annos : RequestsOf(nn, k) \subseteq RedirectRequests(nn)
         /\ \A q \in RedirectRequests(nn) : \E k \in DOMAIN Ingress(nn).annos : q \in RequestsOf(nn, k)
<1> USE DEF RequestsOf, RedirectRequests, HasAnnotation, RedirectKeys, RedirectCodeKeys
<1>1. ASSUME NEW k \in DOMAIN Ingress(nn).annos, NEW q \in RequestsOf(nn, k)
      PROVE  q \in RedirectRequests(nn)
  <2>1. CASE k \in RedirectKeys
    BY <1>1, <2>1
  <2>2. CASE k \in RedirectCodeKeys
    BY <1>1, <2>2
  <2>3. CASE k = "from-to-www-redirect"
    BY <1>1, <2>3
  <2> QED
    BY <1>1, <2>1, <2>2, <2>3
<1>2. ASSUME NEW q \in RedirectRequests(nn)
      PROVE  \E k \in DOMAIN Ingress(nn).annos : q \in RequestsOf(nn, k)
  <2>1. \/ \E k \in RedirectKeys : HasAnnotation(nn, k) /\ q \in RequestsOf(nn, k)
        \/ \E k \in RedirectCodeKeys : HasAnnotation(nn, k) /\ q \in RequestsOf(nn, k)
        \/ HasAnnotation(nn, "from-to-www-redirect") /\ q \in RequestsOf(nn, "from-to-www-redirect")
    BY <1>2
  <2> QED
    BY <2>1
<1> QED
  BY <1>1, <1>2

-----------------------------------------------------------------------------
(* What a handler does to a rule.                                            *)

RootKey == "app-root"

Touched(k, old, new) ==
  /\ Shaped(new)
  /\ new.svc = old.svc /\ new.port = old.port
  /\ \A part \in RedirectFields :
       \/ /\ \A q \in RequestsOf(cur, k) : q[part] = "none"
          /\ new.redirect[part] = old.redirect[part]
       \/ \E q \in RequestsOf(cur, k) : q[part] = new.redirect[part] /\ q[part] # "none"
  /\ IF k = "rewrite-target"
       THEN LET new0 == Rewritten(old, Value(k))
            IN  new.path = new0.path /\ new.rewrite.prefix = new0.rewrite.prefix
       ELSE new.path = old.path /\ new.rewrite.prefix = old.rewrite.prefix
  /\ IF k = "canary-weight"
       THEN ~Refuses(cur, k) /\ old.svc # NoService => new.weight = AnnotationOf(cur, k)
       ELSE new.weight = old.weight
  /\ old.headerMatches # <<>> => new.headerMatches # <<>>
  /\ k = "canary-by-header" /\ ~Refuses(cur, k) => new.headerMatches # <<>>

LEMMA BackendTouched ==
  ASSUME NEW k \in DOMAIN Ingress(cur).annos, NEW old, NEW new, Touched(k, old, new),
         NEW d, d.svc # NoService, NEW handled, BackendOK(cur, d, handled, old)
  PROVE  BackendOK(cur, d, handled \union {k}, new)
<1>1. Shaped(new) /\ new.svc = d.svc /\ new.port = d.port /\ old.svc # NoService
  BY DEF Touched, BackendOK
<1>2. RedirectOK(cur, handled \union {k}, new)
  <2>1. ASSUME NEW part \in RedirectFields
        PROVE  new.redirect[part] = "none"
                 \/ \E q \in RedirectRequests(cur) : q[part] = new.redirect[part]
    BY RequestsCollected DEF Touched, BackendOK, RedirectOK
  <2>2. ASSUME NEW part \in RedirectFields, NEW j \in handled \union {k},
               NEW q \in RequestsOf(cur, j), q[part] # "none"
        PROVE  new.redirect[part] # "none"
    <3>1. CASE j = k
      BY <2>2, <3>1 DEF Touched
    <3>2. CASE j # k
      <4>1. old.redirect[part] # "none"
        BY <2>2, <3>2 DEF BackendOK, RedirectOK
      <4> QED
        BY <4>1 DEF Touched
    <3> QED
      BY <3>1, <3>2
  <2> QED
    BY <2>1, <2>2 DEF RedirectOK
<1>3. RewriteOK(cur, d.path, handled \union {k}, new)
  <2>1. CASE k # "rewrite-target"
    BY <2>1 DEF Touched, BackendOK, RewriteOK
  <2>2. CASE k = "rewrite-target"
    <3>1. PICK target, regex : target = AnnotationOf(cur, k) /\ regex = (d.path \in RegexPaths)
      OBVIOUS
    <3>2. HasAnnotation(cur, k) /\ Value(k) = target
      BY <3>1 DEF HasAnnotation, AnnotationOf, Value, This
    <3>3. /\ DOMAIN old = RuleFields /\ DOMAIN old.rewrite = RewriteFields
      BY DEF BackendOK, Shaped
    <3>4. /\ Rewritten(old, target).path = IF old.path \in RegexPaths THEN PrefixOf(old.path) ELSE old.path
          /\ Rewritten(old, target).rewrite.prefix =
               IF target.groups THEN (IF old.path \in RegexPaths THEN target.static ELSE old.rewrite.prefix)
               ELSE target.path
      <4>1. CASE old.path \in RegexPaths
        BY <3>3, <4>1 DEF Rewritten, IsRegex, RuleFields, RewriteFields
      <4>2. CASE old.path \notin RegexPaths
        BY <3>3, <4>2 DEF Rewritten, IsRegex, RuleFields, RewriteFields
      <4> QED
        BY <4>1, <4>2
    <3>5. /\ new.path = IF old.path \in RegexPaths THEN PrefixOf(old.path) ELSE old.path
          /\ new.rewrite.prefix =
               IF target.groups THEN (IF old.path \in RegexPaths THEN target.static ELSE old.rewrite.prefix)
               ELSE target.path
      BY <2>2, <3>2, <3>4 DEF Touched
    <3>6. RewriteOK(cur, d.path, handled, old)
      BY DEF BackendOK
    <3>7. CASE old.path = d.path /\ old.rewrite.prefix = "none"
      BY <2>2, <3>1, <3>2, <3>5, <3>7 DEF RewriteOK
    <3>8. CASE /\ old.path = IF regex THEN PrefixOf(d.path) ELSE d.path
               /\ old.rewrite.prefix = IF target.groups THEN (IF regex THEN target.static ELSE "none")
                                       ELSE target.path
      <4>1. old.path \notin RegexPaths
        BY <3>1, <3>8, RegexAssumption
      <4> QED
        BY <2>2, <3>1, <3>2, <3>5, <3>8, <4>1 DEF RewriteOK
    <3> QED
      BY <2>2, <3>1, <3>6, <3>7, <3>8 DEF RewriteOK
  <2> QED
    BY <2>1, <2>2
<1>4. CanaryOK(cur, handled \union {k}, new)
  BY <1>1 DEF Touched, BackendOK, CanaryOK
<1> QED
  BY <1>1, <1>2, <1>3, <1>4 DEF BackendOK

LEMMA RootTouched ==
  ASSUME NEW k, NEW old, NEW new, Touched(k, old, new), RootOK(old)
  PROVE  RootOK(new)
<1>1. new.redirect.code # "none"
  BY DEF Touched, RootOK, RedirectFields
<1>2. new.path = "/"
  <2>1. CASE k = "rewrite-target"
    <3>1. Rewritten(old, Value(k)).path = "/"
      <4>1. DOMAIN old = RuleFields /\ old.path = "/" /\ "/" \notin RegexPaths
        BY RegexAssumption DEF RootOK, Shaped
      <4> QED
        BY <4>1 DEF Rewritten, IsRegex, RuleFields
    <3> QED
      BY <2>1, <3>1 DEF Touched
  <2>2. CASE k # "rewrite-target"
    BY <2>2 DEF Touched, RootOK
  <2> QED
    BY <2>1, <2>2
<1> QED
  BY <1>1, <1>2 DEF Touched, RootOK

(* The rule that app-root puts in front.                                    *)
LEMMA RootRule ==
  ASSUME NEW target
  PROVE  RootOK(RootRedirectRule(target))
<1> DEFINE r == HTTPRouteRule([svc |-> NoService, port |-> 0, path |-> "/", type |-> "Exact"])
<1>1. /\ DOMAIN r = RuleFields /\ r.rewrite = NoRewrite /\ r.svc = NoService /\ r.path = "/"
      /\ r.headerMatches = <<>>
  BY DEF HTTPRouteRule, RuleFields
<1>2. RootRedirectRule(target) = [r EXCEPT !.redirect = [NoRedirect EXCEPT !.code = "302", !.path = target]]
  BY DEF RootRedirectRule
<1> HIDE DEF r
<1>3. PICK redir : redir = [NoRedirect EXCEPT !.code = "302", !.path = target]
  OBVIOUS
<1>4. DOMAIN redir = RedirectFields /\ redir.code = "302"
  BY <1>3 DEF NoRedirect, RedirectFields
<1>5. DOMAIN NoRewrite = RewriteFields
  BY DEF NoRewrite, RewriteFields
<1>6. IsList(<<>>)
  BY DEF IsList
<1>7. PICK u : u = RootRedirectRule(target)
  OBVIOUS
<1>8. /\ DOMAIN u = RuleFields /\ u.rewrite = NoRewrite /\ u.svc = NoService /\ u.path = "/"
      /\ u.headerMatches = <<>> /\ u.redirect = redir
  BY <1>1, <1>2, <1>3, <1>7 DEF RuleFields
<1> QED
  BY <1>4, <1>5, <1>6, <1>7, <1>8 DEF RootOK, Shaped

-----------------------------------------------------------------------------
(* The rules of a route as a whole.                                          *)

LEMMA RouteTouched ==
  ASSUME NEW old, NEW new, NEW roots \in Nat, NEW backends, IsList(backends), NEW nn,
         NEW handled, NEW then,
         RouteOK(old, roots, backends, nn, handled), IsList(new), DOMAIN new = DOMAIN old,
         \A i \in DOMAIN old : RootOK(old[i]) => RootOK(new[i]),
         \A i \in DOMAIN old : \A x \in DOMAIN backends :
           BackendOK(nn, backends[x], handled, old[i]) => BackendOK(nn, backends[x], then, new[i])
  PROVE  RouteOK(new, roots, backends, nn, then)
<1>1. /\ Len(old) \in Nat /\ DOMAIN old = 1 .. Len(old) /\ Len(new) = Len(old)
      /\ Len(backends) \in Nat /\ DOMAIN backends = 1 .. Len(backends)
      /\ Len(old) = roots + Len(backends)
  <2>1. /\ Len(old) \in Nat /\ DOMAIN old = 1 .. Len(old) /\ Len(new) \in Nat
        /\ DOMAIN new = 1 .. Len(new)
        /\ Len(backends) \in Nat /\ DOMAIN backends = 1 .. Len(backends)
    BY ListDomain DEF RouteOK
  <2>2. Len(new) = Len(old)
    BY <2>1, SameLength
  <2> QED
    BY <2>1, <2>2 DEF RouteOK
<1>2. \A i \in 1 .. roots : i \in DOMAIN old
  BY <1>1
<1>3. \A i \in 1 .. Len(backends) : roots + i \in DOMAIN old
  BY <1>1
<1> QED
  BY <1>1, <1>2, <1>3 DEF RouteOK

LEMMA RouteRooted ==
  ASSUME NEW rules, NEW roots \in Nat, NEW backends, IsList(backends), NEW nn, NEW handled,
         RouteOK(rules, roots, backends, nn, handled), NEW root, RootOK(root)
  PROVE  RouteOK(<<root>> \o rules, roots + 1, backends, nn, handled \union {RootKey})
<1> DEFINE u == <<root>> \o rules
<1>1. /\ IsList(rules) /\ Len(rules) \in Nat /\ DOMAIN rules = 1 .. Len(rules)
      /\ Len(backends) \in Nat /\ Len(rules) = roots + Len(backends)
  BY ListDomain DEF RouteOK
<1>2. IsList(<<root>>) /\ Len(<<root>>) = 1
  BY DEF IsList
<1>3. /\ IsList(u) /\ DOMAIN u = 1 .. 1 + Len(rules)
      /\ u[1] = root
      /\ \A i \in 1 .. Len(rules) : u[1 + i] = rules[i]
  <2>1. PICK s : s = <<root>>
    OBVIOUS
  <2>2. IsList(s) /\ Len(s) = 1 /\ s[1] = root
    BY <1>2, <2>1
  <2>3. /\ IsList(s \o rules) /\ DOMAIN (s \o rules) = 1 .. Len(s) + Len(rules)
        /\ \A i \in 1 .. Len(s) : (s \o rules)[i] = s[i]
        /\ \A i \in 1 .. Len(rules) : (s \o rules)[Len(s) + i] = rules[i]
    <3>1. IsList(s) /\ IsList(rules)
      BY <1>1, <2>2
    <3> QED
      BY <3>1, ListConcat
  <2> QED
    BY <2>1, <2>2, <2>3
<1> HIDE DEF u
<1>4. Len(u) = (roots + 1) + Len(backends)
  <2>1. Len(u) \in Nat /\ DOMAIN u = 1 .. Len(u)
    BY <1>3, ListDomain
  <2>2. Len(u) = 1 + Len(rules)
    BY <1>1, <1>3, <2>1, SameLength
  <2> QED
    BY <1>1, <2>2
<1>5. ASSUME NEW i \in 1 .. roots + 1
      PROVE  RootOK(u[i])
  <2>1. CASE i = 1
    BY <1>3, <2>1
  <2>2. CASE i # 1
    <3>1. i - 1 \in 1 .. roots /\ i - 1 \in 1 .. Len(rules) /\ 1 + (i - 1) = i
      BY <1>1, <2>2
    <3> QED
      BY <1>3, <3>1 DEF RouteOK
  <2> QED
    BY <2>1, <2>2
<1>6. ASSUME NEW i \in 1 .. Len(backends)
      PROVE  BackendOK(nn, backends[i], handled \union {RootKey}, u[(roots + 1) + i])
  <2>1. roots + i \in 1 .. Len(rules) /\ 1 + (roots + i) = (roots + 1) + i
    BY <1>1
  <2>2. u[(roots + 1) + i] = rules[roots + i] /\ BackendOK(nn, backends[i], handled, rules[roots + i])
    BY <1>3, <2>1 DEF RouteOK
  <2>3. RequestsOf(nn, RootKey) = {}
    BY DEF RequestsOf, RootKey, RedirectKeys, RedirectCodeKeys
  <2>4. PICK r, d : r = rules[roots + i] /\ d = backends[i]
    OBVIOUS
  <2>5. BackendOK(nn, d, handled, r)
    BY <2>2, <2>4
  <2>6. RedirectOK(nn, handled \union {RootKey}, r)
    BY <2>3, <2>5 DEF BackendOK, RedirectOK
  <2>7. RewriteOK(nn, d.path, handled \union {RootKey}, r) /\ CanaryOK(nn, handled \union {RootKey}, r)
    BY <2>5 DEF BackendOK, RewriteOK, CanaryOK, RootKey
  <2> QED
    BY <2>2, <2>4, <2>5, <2>6, <2>7 DEF BackendOK
<1> QED
  BY <1>3, <1>4, <1>5, <1>6 DEF RouteOK, u

(* A rule more, not handled yet.                                            *)
LEMMA RouteGrows ==
  ASSUME NEW rules, NEW roots \in Nat, NEW backends, IsList(backends), NEW nn, NEW handled,
         RouteOK(rules, roots, backends, nn, handled),
         NEW added, IsList(added), NEW part, IsList(part), DOMAIN added = DOMAIN part,
         \A i \in DOMAIN part : BackendOK(nn, part[i], {}, added[i])
  PROVE  RouteOK(rules \o added, roots, backends \o part, nn, {})
<1> DEFINE u == rules \o added
           v == backends \o part
<1>1. /\ IsList(rules) /\ Len(rules) \in Nat /\ DOMAIN rules = 1 .. Len(rules)
      /\ Len(backends) \in Nat /\ Len(rules) = roots + Len(backends)
      /\ DOMAIN backends = 1 .. Len(backends)
      /\ Len(added) \in Nat /\ DOMAIN added = 1 .. Len(added)
      /\ Len(part) \in Nat /\ DOMAIN part = 1 .. Len(part)
  BY ListDomain DEF RouteOK
<1>2. Len(added) = Len(part)
  BY <1>1, SameLength
<1>3. /\ IsList(u) /\ IsList(v)
      /\ DOMAIN u = 1 .. Len(rules) + Len(added) /\ DOMAIN v = 1 .. Len(backends) + Len(part)
      /\ \A i \in 1 .. Len(rules) : u[i] = rules[i]
      /\ \A i \in 1 .. Len(added) : u[Len(rules) + i] = added[i]
      /\ \A i \in 1 .. Len(backends) : v[i] = backends[i]
      /\ \A i \in 1 .. Len(part) : v[Len(backends) + i] = part[i]
  BY <1>1, ListConcat
<1> HIDE DEF u, v
<1>4. Len(u) = Len(rules) + Len(added) /\ Len(v) = Len(backends) + Len(part)
  <2>1. Len(u) \in Nat /\ DOMAIN u = 1 .. Len(u) /\ Len(v) \in Nat /\ DOMAIN v = 1 .. Len(v)
    BY <1>3, ListDomain
  <2> QED
    BY <1>1, <1>3, <2>1, SameLength
<1>5. ASSUME NEW i \in 1 .. roots
      PROVE  RootOK(u[i])
  <2>1. i \in 1 .. Len(rules)
    BY <1>1
  <2> QED
    BY <1>3, <2>1 DEF RouteOK
<1>6. ASSUME NEW i \in 1 .. Len(v)
      PROVE  BackendOK(nn, v[i], {}, u[roots + i])
  <2>1. CASE i \in 1 .. Len(backends)
    <3>1. roots + i \in 1 .. Len(rules)
      BY <1>1, <2>1
    <3>2. u[roots + i] = rules[roots + i] /\ v[i] = backends[i]
      BY <1>3, <2>1, <3>1
    <3>3. BackendOK(nn, backends[i], handled, rules[roots + i])
      BY <2>1 DEF RouteOK
    <3> QED
      BY <3>2, <3>3, HandledLess
  <2>2. CASE i \notin 1 .. Len(backends)
    <3>1. PICK j \in 1 .. Len(part) : i = Len(backends) + j
      <4>1. i - Len(backends) \in 1 .. Len(part) /\ i = Len(backends) + (i - Len(backends))
        BY <1>1, <1>4, <2>2
      <4> QED
        BY <4>1
    <3>2. roots + i = Len(rules) + j
      BY <1>1, <3>1
    <3> QED
      BY <1>1, <1>2, <1>3, <3>1, <3>2
  <2> QED
    BY <2>1, <2>2
<1>7. Len(u) = roots + Len(v)
  BY <1>1, <1>2, <1>4
<1> QED
  BY <1>3, <1>5, <1>6, <1>7 DEF RouteOK, u, v

-----------------------------------------------------------------------------
(* The invariants.                                                           *)

(* The passes of app-root over a route, and the rules they have put there.  *)
RootPasses(id) ==
  {i \in ActiveRules(id.ing) : HostOf(id.ing, i) = id.host /\ Over(id.ing, i, RootKey)}

RootsSofar(id) == IF HasAnnotation(id.ing, RootKey) THEN Cardinality(RootPasses(id)) ELSE 0

(* The annotations that have been handled since a route has its last rule.  *)
Settled(id) == {k \in DOMAIN Ingress(id.ing).annos : HandledFor(id, k)}

RulesBook ==
  /\ PositionOK
  /\ \A id \in OwnRoutes :
       RouteOK(routes[id].rules, RootsSofar(id), BackendsSofar(id), id.ing, Settled(id))

(* An Ingress with a refused setting fails.                                 *)
RefusalBook ==
  \A nn \in Ingresses : \A i \in ActiveRules(nn) : \A k \in DOMAIN Ingress(nn).annos :
    Over(nn, i, k) /\ Refuses(nn, k) =>
      IF InTurn /\ nn = cur THEN failed ELSE status[nn] = Error

-----------------------------------------------------------------------------
(* The handlers and the rules.                                               *)

RuleKeys == RedirectKeys \union RedirectCodeKeys
              \union { "from-to-www-redirect", "rewrite-target", RootKey, "canary-weight",
                       "canary-by-header" }

(* A handler run for annotation k, by what it does to rules and the graph.  *)
RuleStep(k) ==
  /\ Handled(k)
  /\ \A id \in OwnRoutes : id # ThisRouteId => routes'[id].rules = routes[id].rules
  /\ LET old == ThisRoute.rules
         new == routes'[ThisRouteId].rules
     IN  IF k = RootKey THEN new = <<RootRedirectRule(Value(k))>> \o old
         ELSE /\ IsList(old) => IsList(new)
              /\ DOMAIN new = DOMAIN old
              /\ \A i \in DOMAIN old : Shaped(old[i]) => Touched(k, old[i], new[i])
  /\ \A n \in DOMAIN graphRoutes' : n # RedirectNN => n \in DOMAIN graphRoutes
                                                      /\ graphRoutes'[n] = graphRoutes[n]
  /\ DOMAIN graphRoutes \subseteq DOMAIN graphRoutes'
  /\ failed => failed'
  /\ Refuses(cur, k) => failed'

(* Most handlers leave alone what they could have set in a rule.            *)
LEMMA RuleUntouched ==
  ASSUME NEW k, NEW old, NEW new, Shaped(old), Shaped(new),
         new.svc = old.svc, new.port = old.port, new.path = old.path,
         new.redirect = old.redirect, new.rewrite.prefix = old.rewrite.prefix,
         new.weight = old.weight, new.headerMatches = old.headerMatches,
         RequestsOf(cur, k) = {}, k # "rewrite-target",
         k \in {"canary-weight", "canary-by-header"} => Refuses(cur, k)
  PROVE  Touched(k, old, new)
BY DEF Touched

(* Handlers that leave the routes alone.                                    *)
LEMMA NothingTouched ==
  ASSUME IInv, NEW k, NEW a, NEW err, Take(k), Finish(k, a, err),
         UNCHANGED <<routes, graphRoutes>>,
         RequestsOf(cur, k) = {}, k \notin {"rewrite-target", RootKey},
         k \in {"canary-weight", "canary-by-header"} => Refuses(cur, k),
         Refuses(cur, k) => err
  PROVE  RuleStep(k)
<1>1. Handled(k)
  BY SameRoutesKept DEF Handled
<1>2. failed' = (failed \/ err)
  BY DEF Finish
<1>3. routes'[ThisRouteId].rules = ThisRoute.rules
  BY DEF ThisRoute
<1>4. ASSUME NEW i \in DOMAIN ThisRoute.rules, Shaped(ThisRoute.rules[i])
      PROVE  Touched(k, ThisRoute.rules[i], ThisRoute.rules[i])
  BY <1>4, RuleUntouched
<1> QED
  BY <1>1, <1>2, <1>3, <1>4 DEF RuleStep

LEMMA PlainStep ==
  ASSUME IInv, NEW k, NEW a, NEW err, Take(k), Finish(k, a, err),
         UNCHANGED <<routes, graphRoutes>>, k \notin RuleKeys
  PROVE  RuleStep(k)
<1>1. /\ RequestsOf(cur, k) = {} /\ k \notin {"rewrite-target", RootKey}
      /\ k \notin {"canary-weight", "canary-by-header"}
  BY DEF RuleKeys, RequestsOf
<1>2. ~Refuses(cur, k)
  BY <1>1 DEF Refuses
<1> QED
  BY <1>1, <1>2, NothingTouched

(* Handlers that are over the rules of the current route.                   *)
LEMMA RulesSet ==
  ASSUME IInv, NEW k, NEW rules, NEW a, RewriteRules(k, rules, a)
  PROVE  /\ Handled(k) /\ failed' = failed
         /\ UNCHANGED graphRoutes
         /\ routes'[ThisRouteId].rules = rules
         /\ \A id \in OwnRoutes : id # ThisRouteId => routes'[id].rules = routes[id].rules
<1>1. Take(k) /\ Finish(k, a, FALSE) /\ ModifyRules(rules) /\ UNCHANGED graphRoutes
  BY DEF RewriteRules
<1>2. phase = "annotations"
  BY <1>1 DEF Take
<1>3. Handled(k)
  BY <1>1, <1>2, RulesKept DEF Handled
<1>4. failed' = failed
  BY <1>1 DEF Finish, IInv, TypeOK, ProgressOK
<1>5. PICK me : me = ThisRouteId
  OBVIOUS
<1>6. /\ me \in DOMAIN routes /\ DOMAIN routes[me] = HTTPRouteFields
      /\ routes' = [routes EXCEPT ![me].rules = rules]
  BY <1>1, <1>2, <1>5 DEF IInv, TypeOK, ProgressOK, GraphOK, ModifyRules
<1>7. routes'[me].rules = rules
  BY <1>6 DEF HTTPRouteFields
<1>8. \A id \in OwnRoutes : id # me => routes'[id].rules = routes[id].rules
  BY <1>6 DEF OwnRoutes
<1> QED
  BY <1>1, <1>3, <1>4, <1>5, <1>7, <1>8

LEMMA TouchedAll ==
  ASSUME IInv, NEW k, NEW new, NEW a, RewriteRules(k, new, a), k # RootKey,
         new = [i \in DOMAIN new |-> new[i]],
         DOMAIN new = DOMAIN ThisRoute.rules,
         \A i \in DOMAIN new : Shaped(ThisRoute.rules[i]) => Touched(k, ThisRoute.rules[i], new[i]),
         ~Refuses(cur, k)
  PROVE  RuleStep(k)
<1>1. /\ Handled(k) /\ failed' = failed
      /\ UNCHANGED graphRoutes
      /\ routes'[ThisRouteId].rules = new
      /\ \A id \in OwnRoutes : id # ThisRouteId => routes'[id].rules = routes[id].rules
  BY RulesSet
<1>2. IsList(ThisRoute.rules) => IsList(new)
  BY ListDomain, ListMade
<1> QED
  BY <1>1, <1>2 DEF RuleStep

-----------------------------------------------------------------------------
(* What the handlers of redirects do to a rule.                              *)

LEMMA URLTouches ==
  ASSUME NEW k \in RedirectKeys, Value(k).kind = "url", NEW old, Shaped(old), NEW new,
         new = Redirected(old, IF k = "permanent-redirect" THEN "301" ELSE "302", Value(k))
  PROVE  Touched(k, old, new)
<1> DEFINE v == Value(k)
           code == IF k = "permanent-redirect" THEN "301" ELSE "302"
           q == [code |-> code, scheme |-> v.scheme, host |-> v.host, port |-> v.port, path |-> v.path]
<1>1. RequestsOf(cur, k) = {q}
  BY DEF RequestsOf, Value, This, AnnotationOf
<1>2. code # "none"
  OBVIOUS
<1> HIDE DEF code
<1>3. PICK url : url = Value(k)
  OBVIOUS
<1> DEFINE o == old.redirect
           red == [code   |-> code,
                   scheme |-> IF url.scheme = "none" THEN o.scheme ELSE url.scheme,
                   host   |-> IF url.host = "none" THEN o.host ELSE url.host,
                   port   |-> IF url.port = "none" THEN o.port ELSE url.port,
                   path   |-> IF url.path = "none" THEN o.path ELSE url.path]
<1>4. DOMAIN old = RuleFields
  BY DEF Shaped
<1>5. new = [old EXCEPT !.redirect = red]
  BY <1>3 DEF Redirected, code
<1> HIDE DEF red
<1>6. /\ DOMAIN new = RuleFields /\ new.redirect = red
      /\ new.svc = old.svc /\ new.port = old.port /\ new.path = old.path
      /\ new.rewrite = old.rewrite /\ new.weight = old.weight
      /\ new.headerMatches = old.headerMatches
  BY <1>4, <1>5 DEF RuleFields
<1>7. DOMAIN red = RedirectFields
  BY DEF red, RedirectFields
<1>8. ASSUME NEW part \in RedirectFields
      PROVE  \/ q[part] = "none" /\ red[part] = old.redirect[part]
             \/ q[part] = red[part] /\ q[part] # "none"
  BY <1>2, <1>3 DEF red, RedirectFields
<1>9. k \notin {"rewrite-target", "canary-weight", "canary-by-header"}
  BY DEF RedirectKeys
<1> HIDE DEF q
<1> QED
  BY <1>1, <1>6, <1>7, <1>8, <1>9 DEF Touched, Shaped

(* A handler that asks for a code, and maybe a host.                        *)
LEMMA CodeTouches ==
  ASSUME NEW k \in RedirectCodeKeys \union {"from-to-www-redirect"}, NEW q, DOMAIN q = RedirectFields,
         RequestsOf(cur, k) = {q}, q.code # "none",
         q.scheme = "none", q.port = "none", q.path = "none",
         NEW old, Shaped(old), NEW new, NEW red, DOMAIN red = RedirectFields,
         new = [old EXCEPT !.redirect = red],
         red.code = q.code, red.host = IF q.host = "none" THEN old.redirect.host ELSE q.host,
         red.scheme = old.redirect.scheme, red.port = old.redirect.port,
         red.path = old.redirect.path
  PROVE  Touched(k, old, new)
<1>1. DOMAIN old = RuleFields
  BY DEF Shaped
<1>2. /\ DOMAIN new = RuleFields /\ new.redirect = red
      /\ new.svc = old.svc /\ new.port = old.port /\ new.path = old.path
      /\ new.rewrite = old.rewrite /\ new.weight = old.weight
      /\ new.headerMatches = old.headerMatches
  BY <1>1 DEF RuleFields
<1>3. ASSUME NEW part \in RedirectFields
      PROVE  \/ q[part] = "none" /\ red[part] = old.redirect[part]
             \/ q[part] = red[part] /\ q[part] # "none"
  BY DEF RedirectFields
<1>4. k \notin {"rewrite-target", "canary-weight", "canary-by-header"}
  BY DEF RedirectCodeKeys
<1> QED
  BY <1>2, <1>3, <1>4 DEF Touched, Shaped

LEMMA StatusTouches ==
  ASSUME NEW k \in RedirectCodeKeys, Value(k) \in ValidCodes(k), NEW old, Shaped(old), NEW new,
         new = [old EXCEPT !.redirect.code = Value(k)]
  PROVE  Touched(k, old, new)
<1>1. PICK q : q = [NoRedirect EXCEPT !.code = Value(k)]
  OBVIOUS
<1>2. k \notin RedirectKeys
  BY DEF RedirectCodeKeys, RedirectKeys
<1>3. RequestsOf(cur, k) = {q}
  BY <1>1, <1>2 DEF RequestsOf, Value, This, AnnotationOf
<1>4. Value(k) # "none"
  BY DEF ValidCodes
<1>5. PICK red : red = [old.redirect EXCEPT !.code = Value(k)]
  OBVIOUS
<1>6. new = [old EXCEPT !.redirect = red]
  BY <1>5
<1>7. DOMAIN old.redirect = RedirectFields
  BY DEF Shaped
<1>8. /\ DOMAIN red = RedirectFields /\ red.code = Value(k)
      /\ red.host = old.redirect.host /\ red.scheme = old.redirect.scheme
      /\ red.port = old.redirect.port /\ red.path = old.redirect.path
  BY <1>5, <1>7 DEF RedirectFields
<1>9. /\ DOMAIN q = RedirectFields /\ q.code = Value(k) /\ q.host = "none"
      /\ q.scheme = "none" /\ q.port = "none" /\ q.path = "none"
  BY <1>1 DEF NoRedirect, RedirectFields
<1> QED
  BY <1>3, <1>4, <1>6, <1>8, <1>9, CodeTouches

LEMMA WWWTouches ==
  ASSUME IInv, Take("from-to-www-redirect"), Value("from-to-www-redirect") = "true",
         FirstHost \notin WWWHosts \union {AnyHost}, NEW old, Shaped(old), NEW new,
         new = [old EXCEPT !.redirect.code = "301", !.redirect.host = WWWName(FirstHost)]
  PROVE  Touched("from-to-www-redirect", old, new)
<1> DEFINE k == "from-to-www-redirect"
<1>1. PICK first : first = FirstHost
  OBVIOUS
<1>2. PICK q : q = [NoRedirect EXCEPT !.code = "301", !.host = WWWName(first)]
  OBVIOUS
<1>3. RequestsOf(cur, k) = {q}
  BY <1>1, <1>2 DEF RequestsOf, Value, This, AnnotationOf, FirstHost, RedirectKeys, RedirectCodeKeys
<1>4. WWWName(first) # "none"
  <2>1. /\ cur \in Ingresses /\ input \in Inputs /\ rule \in DOMAIN Ingress(cur).rules
    BY DEF Take, IInv, TypeOK, ProgressOK, This
  <2>2. /\ DOMAIN Ingress(cur).rules = 1 .. Len(Ingress(cur).rules)
        /\ Len(Ingress(cur).rules) \in Nat
    BY <2>1, RulesNumbered
  <2>3. 1 \in DOMAIN Ingress(cur).rules
    BY <2>1, <2>2
  <2> QED
    BY <1>1, <2>1, <2>3, WWWNameAssumption DEF Ingresses, Ingress, FirstHost, This
<1>5. PICK red : red = [old.redirect EXCEPT !.code = "301", !.host = WWWName(first)]
  OBVIOUS
<1>6. DOMAIN old = RuleFields /\ DOMAIN old.redirect = RedirectFields
  BY DEF Shaped
<1>7. new = [old EXCEPT !.redirect = red]
  BY <1>1, <1>5, <1>6 DEF RuleFields
<1>8. /\ DOMAIN red = RedirectFields /\ red.code = "301" /\ red.host = WWWName(first)
      /\ red.scheme = old.redirect.scheme
      /\ red.port = old.redirect.port /\ red.path = old.redirect.path
  BY <1>5, <1>6 DEF RedirectFields
<1>9. /\ DOMAIN q = RedirectFields /\ q.code = "301" /\ q.host = WWWName(first)
      /\ q.scheme = "none" /\ q.port = "none" /\ q.path = "none"
  BY <1>2 DEF NoRedirect, RedirectFields
<1>10. k \in RedirectCodeKeys \union {"from-to-www-redirect"}
  OBVIOUS
<1> HIDE DEF k
<1>11. /\ q.code # "none" /\ red.code = q.code
       /\ red.host = IF q.host = "none" THEN old.redirect.host ELSE q.host
  BY <1>4, <1>8, <1>9
<1>12. Touched(k, old, new)
  BY <1>3, <1>7, <1>8, <1>9, <1>10, <1>11, CodeTouches
<1> QED
  BY <1>12 DEF k

-----------------------------------------------------------------------------
(* What the other handlers do to a rule.                                     *)

LEMMA RewriteTouches ==
  ASSUME NEW old, Shaped(old), NEW new, new = Rewritten(old, Value("rewrite-target"))
  PROVE  Touched("rewrite-target", old, new)
<1> DEFINE k == "rewrite-target"
<1>1. PICK target : target = Value(k)
  OBVIOUS
<1>2. DOMAIN old = RuleFields /\ DOMAIN old.rewrite = RewriteFields
  BY DEF Shaped
<1>3. /\ DOMAIN new = RuleFields /\ DOMAIN new.rewrite = RewriteFields
      /\ new.svc = old.svc /\ new.port = old.port /\ new.weight = old.weight
      /\ new.redirect = old.redirect /\ new.headerMatches = old.headerMatches
  <2>1. new = Rewritten(old, target)
    BY <1>1
  <2>2. CASE IsRegex(old)
    BY <1>2, <2>1, <2>2 DEF Rewritten, RuleFields, RewriteFields
  <2>3. CASE ~IsRegex(old)
    BY <1>2, <2>1, <2>3 DEF Rewritten, RuleFields, RewriteFields
  <2> QED
    BY <2>2, <2>3
<1>4. RequestsOf(cur, k) = {}
  BY DEF RequestsOf, RedirectKeys, RedirectCodeKeys
<1> QED
  BY <1>3, <1>4 DEF Touched, Shaped

LEMMA RegexTouches ==
  ASSUME NEW k \in {"use-regex", "x-forwarded-prefix", "connection-proxy-header"},
         NEW old, Shaped(old), NEW new, NEW x,
         new = [old EXCEPT !.match = x] \/ new = [old EXCEPT !.headers = x]
  PROVE  Touched(k, old, new)
<1>1. DOMAIN old = RuleFields
  BY DEF Shaped
<1>2. /\ DOMAIN new = RuleFields /\ new.rewrite = old.rewrite
      /\ new.svc = old.svc /\ new.port = old.port /\ new.weight = old.weight
      /\ new.path = old.path
      /\ new.redirect = old.redirect /\ new.headerMatches = old.headerMatches
  <2>1. CASE new = [old EXCEPT !.match = x]
    BY <1>1, <2>1 DEF RuleFields
  <2>2. CASE new = [old EXCEPT !.headers = x]
    BY <1>1, <2>2 DEF RuleFields
  <2> QED
    BY <2>1, <2>2
<1>3. RequestsOf(cur, k) = {}
  BY DEF RequestsOf, RedirectKeys, RedirectCodeKeys
<1>4. Shaped(new)
  BY <1>2 DEF Shaped
<1> QED
  BY <1>2, <1>3, <1>4, RuleUntouched

LEMMA VhostTouches ==
  ASSUME NEW old, Shaped(old), NEW new, NEW x, new = [old EXCEPT !.rewrite.host = x]
  PROVE  Touched("upstream-vhost", old, new)
<1>1. DOMAIN old = RuleFields /\ DOMAIN old.rewrite = RewriteFields
  BY DEF Shaped
<1>2. /\ DOMAIN new = RuleFields /\ DOMAIN new.rewrite = RewriteFields
      /\ new.rewrite.prefix = old.rewrite.prefix
      /\ new.svc = old.svc /\ new.port = old.port /\ new.weight = old.weight
      /\ new.path = old.path
      /\ new.redirect = old.redirect /\ new.headerMatches = old.headerMatches
  BY <1>1 DEF RuleFields, RewriteFields
<1>3. RequestsOf(cur, "upstream-vhost") = {}
  BY DEF RequestsOf, RedirectKeys, RedirectCodeKeys
<1>4. Shaped(new)
  BY <1>2 DEF Shaped
<1> QED
  BY <1>2, <1>3, <1>4, RuleUntouched

LEMMA WeightTouches ==
  ASSUME NEW old, Shaped(old), NEW new,
         new = IF old.svc = NoService THEN old ELSE [old EXCEPT !.weight = Value("canary-weight")]
  PROVE  Touched("canary-weight", old, new)
<1>1. DOMAIN old = RuleFields
  BY DEF Shaped
<1>2. /\ DOMAIN new = RuleFields /\ new.rewrite = old.rewrite
      /\ new.svc = old.svc /\ new.port = old.port /\ new.path = old.path
      /\ new.redirect = old.redirect /\ new.headerMatches = old.headerMatches
      /\ old.svc # NoService => new.weight = Value("canary-weight")
  <2>1. CASE old.svc = NoService
    BY <1>1, <2>1
  <2>2. CASE old.svc # NoService
    BY <1>1, <2>2 DEF RuleFields
  <2> QED
    BY <2>1, <2>2
<1>3. RequestsOf(cur, "canary-weight") = {}
  BY DEF RequestsOf, RedirectKeys, RedirectCodeKeys
<1>4. Shaped(new)
  BY <1>2 DEF Shaped
<1>5. Value("canary-weight") = AnnotationOf(cur, "canary-weight")
  BY DEF Value, This, AnnotationOf
<1> QED
  BY <1>2, <1>3, <1>4, <1>5 DEF Touched

LEMMA HeaderTouches ==
  ASSUME NEW old, Shaped(old), NEW new, NEW match,
         new = [old EXCEPT !.headerMatches = Append(@, match)]
  PROVE  Touched("canary-by-header", old, new)
<1>1. DOMAIN old = RuleFields /\ IsList(old.headerMatches)
  BY DEF Shaped
<1>2. PICK s : s = old.headerMatches
  OBVIOUS
<1>3. IsList(Append(s, match)) /\ Append(s, match) # <<>>
  <2> DEFINE A == {s[i] : i \in DOMAIN s} \union {match}
  <2>1. s \in Seq(A)
    <3>1. s \in Seq({s[i] : i \in DOMAIN s})
      BY <1>1, <1>2 DEF IsList
    <3> QED
      BY <3>1
  <2>2. match \in A
    OBVIOUS
  <2> HIDE DEF A
  <2>3. PICK t : t = Append(s, match)
    OBVIOUS
  <2>4. t \in Seq(A) /\ t # <<>>
    BY <2>1, <2>2, <2>3, AppendProperties
  <2>5. Len(t) \in Nat /\ DOMAIN t = 1 .. Len(t) /\ t = [i \in 1 .. Len(t) |-> t[i]]
    BY <2>4, LenProperties
  <2> QED
    BY <2>3, <2>4, <2>5, ListMade
<1>4. /\ DOMAIN new = RuleFields /\ new.rewrite = old.rewrite /\ new.weight = old.weight
      /\ new.svc = old.svc /\ new.port = old.port /\ new.path = old.path
      /\ new.redirect = old.redirect /\ new.headerMatches = Append(s, match)
  BY <1>1, <1>2 DEF RuleFields
<1>5. RequestsOf(cur, "canary-by-header") = {}
  BY DEF RequestsOf, RedirectKeys, RedirectCodeKeys
<1>6. Shaped(new)
  BY <1>3, <1>4 DEF Shaped
<1> QED
  BY <1>3, <1>4, <1>5, <1>6 DEF Touched

-----------------------------------------------------------------------------
(* Handlers by what they do to the rules.                                    *)

(* Those that change nothing, or nothing but the redirect route.            *)
LEMMA RouteNoticesRules ==
  ASSUME IInv,
         \/ \E k \in pending : EmptyRedirectURL(k) \/ InvalidRedirectURL(k)
                                 \/ EmptyRedirectCode(k) \/ InvalidRedirectCode(k)
                                 \/ InvalidSSLRedirect(k) \/ DisabledSSLRedirect(k)
                                 \/ RepeatedSSLRedirect(k) \/ handleReadElsewhere(k)
         \/ NoWWWRedirect \/ UnusedRegex \/ EmptyUpstreamVhost \/ InvalidCanaryWeight
         \/ InvalidCanaryHeader
  PROVE  \E k : RuleStep(k)
<1>1. ASSUME NEW k, NEW a, NEW err, Notice(k, a, err), RequestsOf(cur, k) = {},
             k \notin {"rewrite-target", RootKey},
             k \in {"canary-weight", "canary-by-header"} => Refuses(cur, k),
             Refuses(cur, k) => err
      PROVE  RuleStep(k)
  BY <1>1, NothingTouched DEF Notice, graphVars
<1>2. ASSUME NEW k, NEW a, NEW err, Notice(k, a, err), RequestsOf(cur, k) = {},
             k \notin {"rewrite-target", RootKey, "canary-weight", "canary-by-header"}
      PROVE  RuleStep(k)
  BY <1>1, <1>2 DEF Refuses
<1>3. ASSUME NEW k \in pending, EmptyRedirectURL(k) \/ InvalidRedirectURL(k)
      PROVE  RuleStep(k)
  <2>1. PICK a, err : Notice(k, a, err)
    BY <1>3, Zenon DEF EmptyRedirectURL, InvalidRedirectURL
  <2>2. k \in RedirectKeys /\ Value(k).kind # "url"
    BY <1>3 DEF EmptyRedirectURL, InvalidRedirectURL
  <2>3. RequestsOf(cur, k) = {}
    BY <2>2 DEF RequestsOf, Value, This, AnnotationOf
  <2> QED
    BY <1>2, <2>1, <2>2, <2>3 DEF RedirectKeys, RootKey
<1>4. ASSUME NEW k \in pending, EmptyRedirectCode(k) \/ InvalidRedirectCode(k)
      PROVE  RuleStep(k)
  <2>1. PICK a, err : Notice(k, a, err)
    BY <1>4, Zenon DEF EmptyRedirectCode, InvalidRedirectCode
  <2>2. k \in RedirectCodeKeys /\ Value(k) \notin ValidCodes(k)
    BY <1>4 DEF EmptyRedirectCode, InvalidRedirectCode, ValidCodes, Unset
  <2>3. RequestsOf(cur, k) = {}
    BY <2>2 DEF RequestsOf, Value, This, AnnotationOf, RedirectKeys, RedirectCodeKeys
  <2> QED
    BY <1>2, <2>1, <2>2, <2>3 DEF RedirectCodeKeys, RootKey
<1>5. ASSUME NEW k \in pending,
             InvalidSSLRedirect(k) \/ DisabledSSLRedirect(k) \/ RepeatedSSLRedirect(k)
               \/ handleReadElsewhere(k)
      PROVE  RuleStep(k)
  <2>1. PICK a, err : Notice(k, a, err)
    BY <1>5, Zenon DEF InvalidSSLRedirect, DisabledSSLRedirect, RepeatedSSLRedirect,
       handleReadElsewhere
  <2>2. k \in SSLRedirectKeys \union ReadElsewhere
    BY <1>5 DEF InvalidSSLRedirect, DisabledSSLRedirect, RepeatedSSLRedirect, handleReadElsewhere
  <2>3. k \notin RuleKeys
    BY <2>2 DEF SSLRedirectKeys, ReadElsewhere, RuleKeys, RedirectKeys, RedirectCodeKeys, RootKey
  <2> QED
    BY <2>1, <2>3, PlainStep DEF Notice, graphVars
<1>6. CASE NoWWWRedirect
  <2> DEFINE k == "from-to-www-redirect"
  <2>1. PICK a, err : Notice(k, a, err)
    BY <1>6, Zenon DEF NoWWWRedirect
  <2>2. Value(k) # "true" \/ FirstHost \in WWWHosts \/ FirstHost = AnyHost
    BY <1>6 DEF NoWWWRedirect
  <2>3. RequestsOf(cur, k) = {}
    BY <2>2 DEF RequestsOf, Value, This, AnnotationOf, FirstHost, RedirectKeys, RedirectCodeKeys
  <2> HIDE DEF k
  <2> QED
    BY <1>2, <2>1, <2>3 DEF RootKey, k
<1>7. CASE UnusedRegex \/ EmptyUpstreamVhost
  <2>1. PICK k \in {"use-regex", "upstream-vhost"} : \E a, err : Notice(k, a, err)
    BY <1>7, Zenon DEF UnusedRegex, EmptyUpstreamVhost
  <2>2. k \notin RuleKeys
    BY DEF RuleKeys, RedirectKeys, RedirectCodeKeys, RootKey
  <2> QED
    BY <2>1, <2>2, PlainStep DEF Notice, graphVars
<1>8. CASE InvalidCanaryWeight
  <2> DEFINE k == "canary-weight"
  <2>1. Notice(k, Anno(k), TRUE) /\ ~ValidWeight(Value(k), WeightTotal)
    BY <1>8 DEF InvalidCanaryWeight
  <2>2. Refuses(cur, k)
    BY <2>1 DEF Refuses, Value, This, AnnotationOf, WeightTotal, AnnotationOr, ValueOr, HasAnnotation
  <2>3. RequestsOf(cur, k) = {}
    BY DEF RequestsOf, RedirectKeys, RedirectCodeKeys
  <2> HIDE DEF k
  <2> QED
    BY <1>1, <2>1, <2>2, <2>3 DEF RootKey, k
<1>9. CASE InvalidCanaryHeader
  <2> DEFINE k == "canary-by-header"
  <2>1. Notice(k, Anno(k), TRUE) /\ (Value(k) = Unset \/ CanaryPattern = Invalid)
    BY <1>9 DEF InvalidCanaryHeader
  <2>2. Refuses(cur, k)
    BY <2>1 DEF Refuses, Value, This, AnnotationOf, CanaryPattern, AnnotationOr, ValueOr, HasAnnotation
  <2>3. RequestsOf(cur, k) = {}
    BY DEF RequestsOf, RedirectKeys, RedirectCodeKeys
  <2> HIDE DEF k
  <2> QED
    BY <1>1, <2>1, <2>2, <2>3 DEF RootKey, k
<1> QED
  BY <1>3, <1>4, <1>5, <1>6, <1>7, <1>8, <1>9

(* ssl-redirect allocates a route that is nobody's; server-alias changes no *)
(* rule.                                                                    *)
LEMMA RouteOthersRules ==
  ASSUME IInv, (\E k \in pending : handleSSLRedirect(k)) \/ handleServerAlias
  PROVE  \E k : RuleStep(k)
<1>1. ASSUME NEW k, NEW a, NEW err, Take(k), Finish(k, a, err), RoutesKept, k \notin RuleKeys,
             \A id \in DOMAIN routes : routes'[id].rules = routes[id].rules,
             \A n \in DOMAIN graphRoutes' : n # RedirectNN => n \in DOMAIN graphRoutes
                                                             /\ graphRoutes'[n] = graphRoutes[n],
             DOMAIN graphRoutes \subseteq DOMAIN graphRoutes'
      PROVE  RuleStep(k)
  <2>1. Handled(k) /\ failed' = (failed \/ err)
    BY <1>1 DEF Handled, Finish
  <2>2. /\ RequestsOf(cur, k) = {} /\ k \notin {"rewrite-target", RootKey}
        /\ k \notin {"canary-weight", "canary-by-header"} /\ ~Refuses(cur, k)
    BY <1>1 DEF RuleKeys, RequestsOf, Refuses
  <2>3. ThisRouteId \in DOMAIN routes
    BY <1>1 DEF Take, IInv, TypeOK, ProgressOK
  <2>4. routes'[ThisRouteId].rules = ThisRoute.rules
    BY <1>1, <2>3 DEF ThisRoute
  <2>5. ASSUME NEW i \in DOMAIN ThisRoute.rules, Shaped(ThisRoute.rules[i])
        PROVE  Touched(k, ThisRoute.rules[i], ThisRoute.rules[i])
    BY <2>2, <2>5, RuleUntouched
  <2> QED
    BY <1>1, <2>1, <2>2, <2>4, <2>5 DEF RuleStep, OwnRoutes
<1>2. ASSUME NEW k \in pending, handleSSLRedirect(k)
      PROVE  RuleStep(k)
  <2>1. /\ Take(k) /\ k \in SSLRedirectKeys
        /\ ~redirect /\ routes' = InsertAt(routes, RedirectId, RedirectRoute)
        /\ graphRoutes' = InsertAt(graphRoutes, RedirectNN, RedirectId)
    BY <1>2 DEF handleSSLRedirect
  <2>2. PICK a, err : Finish(k, a, err)
    BY <1>2 DEF handleSSLRedirect
  <2>3. RoutesKept
    BY <2>1, RedirectIsNew DEF RoutesKept, NamesKept, InsertAt
  <2>4. k \notin RuleKeys
    BY <2>1 DEF SSLRedirectKeys, RuleKeys, RedirectKeys, RedirectCodeKeys, RootKey
  <2>5. \A id \in DOMAIN routes : routes'[id].rules = routes[id].rules
    BY <2>1, RedirectIsNew DEF InsertAt
  <2>6. /\ \A n \in DOMAIN graphRoutes' : n # RedirectNN => n \in DOMAIN graphRoutes
                                                             /\ graphRoutes'[n] = graphRoutes[n]
        /\ DOMAIN graphRoutes \subseteq DOMAIN graphRoutes'
    BY <2>1 DEF InsertAt
  <2> QED
    BY <1>1, <2>1, <2>2, <2>3, <2>4, <2>5, <2>6
<1>3. CASE handleServerAlias
  <2> DEFINE k == "server-alias"
  <2>1. /\ Take(k) /\ UNCHANGED graphRoutes
        /\ routes' = [routes EXCEPT ![ThisRouteId].hostnames = @ \o Value(k)]
    BY <1>3 DEF handleServerAlias
  <2>2. PICK a, err : Finish(k, a, err)
    BY <1>3 DEF handleServerAlias
  <2>3. /\ ThisRouteId \in DOMAIN routes
        /\ \A id \in DOMAIN routes : DOMAIN routes[id] = HTTPRouteFields
    BY <2>1 DEF Take, IInv, TypeOK, ProgressOK, GraphOK
  <2>4. RoutesKept
    BY <2>1, <2>3 DEF RoutesKept, NamesKept, HTTPRouteFields
  <2>5. \A id \in DOMAIN routes : routes'[id].rules = routes[id].rules
    BY <2>1, <2>3 DEF HTTPRouteFields
  <2>6. k \notin RuleKeys
    BY DEF RuleKeys, RedirectKeys, RedirectCodeKeys, RootKey
  <2> HIDE DEF k
  <2> QED
    BY <1>1, <2>1, <2>2, <2>4, <2>5, <2>6
<1> QED
  BY <1>2, <1>3

(* Those that are over the rules.                                           *)
LEMMA RouteChangesRules ==
  ASSUME IInv,
         \/ handlePermanentRedirect \/ handleTemporalRedirect
         \/ handlePermanentRedirectCode \/ handleTemporalRedirectCode
         \/ handleFromToWWWRedirect \/ handleRewriteTarget \/ handleUseRegex \/ handleAppRoot
         \/ handleUpstreamVhost \/ handleXForwardedPrefix \/ handleConnectionProxyHeader
         \/ handleCanaryWeight \/ handleCanaryByHeader
  PROVE  \E k : RuleStep(k)
<1> DEFINE rules == ThisRoute.rules
<1>1. ASSUME NEW k, NEW new, NEW a, RewriteRules(k, new, a), k # RootKey,
             new = [i \in DOMAIN new |-> new[i]],
             DOMAIN new = DOMAIN rules,
             \A i \in DOMAIN new : Shaped(rules[i]) => Touched(k, rules[i], new[i]),
             k \notin {"canary-weight", "canary-by-header"}
      PROVE  RuleStep(k)
  BY <1>1, TouchedAll DEF Refuses
<1>2. CASE handlePermanentRedirect \/ handleTemporalRedirect
  <2>1. PICK k \in RedirectKeys :
          /\ Value(k).kind = "url"
          /\ \E a : RewriteRules(k, [i \in DOMAIN rules |->
                      Redirected(rules[i], IF k = "permanent-redirect" THEN "301" ELSE "302",
                                 Value(k))], a)
    <3>1. CASE handlePermanentRedirect
      <4> DEFINE k == "permanent-redirect"
      <4>1. /\ k \in RedirectKeys /\ Value(k).kind = "url"
            /\ \E a : RewriteRules(k, [i \in DOMAIN rules |-> Redirected(rules[i], "301", Value(k))], a)
        BY <3>1 DEF handlePermanentRedirect, RedirectKeys
      <4> QED
        BY <4>1
    <3>2. CASE handleTemporalRedirect
      <4> DEFINE k == "temporal-redirect"
      <4>1. /\ k \in RedirectKeys /\ Value(k).kind = "url"
            /\ \E a : RewriteRules(k, [i \in DOMAIN rules |-> Redirected(rules[i], "302", Value(k))], a)
        BY <3>2 DEF handleTemporalRedirect, RedirectKeys
      <4> QED
        BY <4>1
    <3> QED
      BY <1>2, <3>1, <3>2
  <2>2. PICK new, a : /\ RewriteRules(k, new, a)
                      /\ new = [i \in DOMAIN rules |->
                           Redirected(rules[i], IF k = "permanent-redirect" THEN "301" ELSE "302",
                                      Value(k))]
    BY <2>1
  <2>3. ASSUME NEW i \in DOMAIN new, Shaped(rules[i])
        PROVE  Touched(k, rules[i], new[i])
    BY <2>1, <2>2, <2>3, URLTouches
  <2>4. k \notin {RootKey, "canary-weight", "canary-by-header"}
    BY DEF RedirectKeys, RootKey
  <2> QED
    BY <1>1, <2>2, <2>3, <2>4
<1>3. CASE handlePermanentRedirectCode \/ handleTemporalRedirectCode
  <2>1. PICK k \in RedirectCodeKeys :
          /\ Value(k) \in ValidCodes(k)
          /\ \E a : RewriteRules(k, [i \in DOMAIN rules |->
                      [rules[i] EXCEPT !.redirect.code = Value(k)]], a)
    <3>1. "permanent-redirect-code" \in RedirectCodeKeys /\ "temporal-redirect-code" \in RedirectCodeKeys
      BY DEF RedirectCodeKeys
    <3> QED
      BY <1>3, <3>1, Zenon DEF handlePermanentRedirectCode, handleTemporalRedirectCode
  <2>2. PICK new, a : /\ RewriteRules(k, new, a)
                      /\ new = [i \in DOMAIN rules |-> [rules[i] EXCEPT !.redirect.code = Value(k)]]
    BY <2>1
  <2>3. ASSUME NEW i \in DOMAIN new, Shaped(rules[i])
        PROVE  Touched(k, rules[i], new[i])
    BY <2>1, <2>2, <2>3, StatusTouches
  <2>4. k \notin {RootKey, "canary-weight", "canary-by-header"}
    BY DEF RedirectCodeKeys, RootKey
  <2> QED
    BY <1>1, <2>2, <2>3, <2>4
<1>4. CASE handleFromToWWWRedirect
  <2> DEFINE k == "from-to-www-redirect"
  <2>1. /\ Take(k) /\ Value(k) = "true" /\ FirstHost \notin WWWHosts \union {AnyHost}
        /\ \E a : RewriteRules(k, [i \in DOMAIN rules |->
                    [rules[i] EXCEPT !.redirect.code = "301",
                                     !.redirect.host = WWWName(FirstHost)]], a)
    BY <1>4 DEF handleFromToWWWRedirect
  <2>2. PICK new, a : /\ RewriteRules(k, new, a)
                      /\ new = [i \in DOMAIN rules |->
                           [rules[i] EXCEPT !.redirect.code = "301",
                                            !.redirect.host = WWWName(FirstHost)]]
    BY <2>1
  <2>3. ASSUME NEW i \in DOMAIN new, Shaped(rules[i])
        PROVE  Touched(k, rules[i], new[i])
    BY <2>1, <2>2, <2>3, WWWTouches
  <2>4. DOMAIN new = DOMAIN rules /\ new = [i \in DOMAIN new |-> new[i]]
    BY <2>2
  <2>5. RewriteRules(k, new, a)
    BY <2>2
  <2>6. k \notin {RootKey, "canary-weight", "canary-by-header"}
    BY DEF RootKey
  <2> HIDE DEF k
  <2> QED
    BY <1>1, <2>3, <2>4, <2>5, <2>6
<1>5. CASE handleRewriteTarget
  <2> DEFINE k == "rewrite-target"
  <2>1. \E a : RewriteRules(k, [i \in DOMAIN rules |-> Rewritten(rules[i], Value(k))], a)
    BY <1>5 DEF handleRewriteTarget
  <2>2. PICK new, a : /\ RewriteRules(k, new, a)
                      /\ new = [i \in DOMAIN rules |-> Rewritten(rules[i], Value(k))]
    BY <2>1
  <2>3. ASSUME NEW i \in DOMAIN new, Shaped(rules[i])
        PROVE  Touched(k, rules[i], new[i])
    BY <2>2, <2>3, RewriteTouches
  <2> QED
    BY <1>1, <2>2, <2>3 DEF RootKey
<1>6. CASE handleUseRegex
  <2> DEFINE k == "use-regex"
  <2>1. \E a : RewriteRules(k, [i \in DOMAIN rules |->
                                  [rules[i] EXCEPT !.match = "RegularExpression"]], a)
    BY <1>6 DEF handleUseRegex
  <2>2. PICK new, a : /\ RewriteRules(k, new, a)
                      /\ new = [i \in DOMAIN rules |-> [rules[i] EXCEPT !.match = "RegularExpression"]]
    BY <2>1
  <2>3. ASSUME NEW i \in DOMAIN new, Shaped(rules[i])
        PROVE  Touched(k, rules[i], new[i])
    BY <2>2, <2>3, RegexTouches
  <2> QED
    BY <1>1, <2>2, <2>3 DEF RootKey
<1>7. CASE handleXForwardedPrefix \/ handleConnectionProxyHeader
  <2>1. PICK k \in {"x-forwarded-prefix", "connection-proxy-header"} :
          \E header, a : RewriteRules(k, [i \in DOMAIN rules |->
                           [rules[i] EXCEPT !.headers = Append(@, header)]], a)
    BY <1>7, Zenon DEF handleXForwardedPrefix, handleConnectionProxyHeader
  <2>2. PICK header, new, a : /\ RewriteRules(k, new, a)
                              /\ new = [i \in DOMAIN rules |->
                                          [rules[i] EXCEPT !.headers = Append(@, header)]]
    BY <2>1
  <2>3. ASSUME NEW i \in DOMAIN new, Shaped(rules[i])
        PROVE  Touched(k, rules[i], new[i])
    <3>1. PICK x : x = Append(rules[i].headers, header)
      OBVIOUS
    <3>2. new[i] = [rules[i] EXCEPT !.headers = x]
      BY <2>2, <2>3, <3>1
    <3> QED
      BY <2>3, <3>2, RegexTouches
  <2> QED
    BY <1>1, <2>2, <2>3 DEF RootKey
<1>8. CASE handleUpstreamVhost
  <2> DEFINE k == "upstream-vhost"
  <2>1. \E a : RewriteRules(k, [i \in DOMAIN rules |-> [rules[i] EXCEPT !.rewrite.host = Value(k)]], a)
    BY <1>8 DEF handleUpstreamVhost
  <2>2. PICK new, a : /\ RewriteRules(k, new, a)
                      /\ new = [i \in DOMAIN rules |-> [rules[i] EXCEPT !.rewrite.host = Value(k)]]
    BY <2>1
  <2>3. ASSUME NEW i \in DOMAIN new, Shaped(rules[i])
        PROVE  Touched(k, rules[i], new[i])
    BY <2>2, <2>3, VhostTouches
  <2>4. DOMAIN new = DOMAIN rules /\ new = [i \in DOMAIN new |-> new[i]]
    BY <2>2
  <2>5. RewriteRules(k, new, a)
    BY <2>2
  <2>6. k \notin {RootKey, "canary-weight", "canary-by-header"}
    BY DEF RootKey
  <2> HIDE DEF k
  <2> QED
    BY <1>1, <2>3, <2>4, <2>5, <2>6
<1>9. CASE handleCanaryWeight
  <2> DEFINE k == "canary-weight"
  <2>1. /\ ValidWeight(Value(k), WeightTotal)
        /\ \E a : RewriteRules(k, [i \in DOMAIN rules |->
                    IF rules[i].svc = NoService THEN rules[i]
                    ELSE [rules[i] EXCEPT !.weight = Value(k)]], a)
    BY <1>9 DEF handleCanaryWeight
  <2>2. PICK new, a : /\ RewriteRules(k, new, a)
                      /\ new = [i \in DOMAIN rules |->
                                  IF rules[i].svc = NoService THEN rules[i]
                                  ELSE [rules[i] EXCEPT !.weight = Value(k)]]
    BY <2>1
  <2>3. ASSUME NEW i \in DOMAIN new, Shaped(rules[i])
        PROVE  Touched(k, rules[i], new[i])
    <3>1. new[i] = IF rules[i].svc = NoService THEN rules[i]
                   ELSE [rules[i] EXCEPT !.weight = Value(k)]
      BY <2>2, <2>3
    <3> QED
      BY <2>3, <3>1, WeightTouches
  <2>4. ~Refuses(cur, k)
    BY <2>1 DEF Refuses, Value, This, AnnotationOf, WeightTotal, AnnotationOr, ValueOr, HasAnnotation
  <2>5. RuleStep(k)
    BY <2>2, <2>3, <2>4, TouchedAll DEF RootKey
  <2> QED
    BY <2>5
<1>10. CASE handleCanaryByHeader
  <2> DEFINE k == "canary-by-header"
  <2>1. /\ Value(k) # Unset /\ CanaryPattern # Invalid
        /\ \E a : RewriteRules(k, [i \in DOMAIN rules |->
                    [rules[i] EXCEPT !.headerMatches = Append(@, CanaryMatch)]], a)
    BY <1>10 DEF handleCanaryByHeader
  <2>2. PICK new, a : /\ RewriteRules(k, new, a)
                      /\ new = [i \in DOMAIN rules |->
                                  [rules[i] EXCEPT !.headerMatches = Append(@, CanaryMatch)]]
    BY <2>1
  <2>3. ASSUME NEW i \in DOMAIN new, Shaped(rules[i])
        PROVE  Touched(k, rules[i], new[i])
    <3>1. PICK match : match = CanaryMatch
      OBVIOUS
    <3>2. new[i] = [rules[i] EXCEPT !.headerMatches = Append(@, match)]
      BY <2>2, <2>3, <3>1
    <3> QED
      BY <2>3, <3>2, HeaderTouches
  <2>4. ~Refuses(cur, k)
    BY <2>1 DEF Refuses, Value, This, AnnotationOf, CanaryPattern, AnnotationOr, ValueOr, HasAnnotation
  <2>5. RuleStep(k)
    BY <2>2, <2>3, <2>4, TouchedAll DEF RootKey
  <2> QED
    BY <2>5
<1>11. CASE handleAppRoot
  <2>1. \E a : RewriteRules(RootKey, <<RootRedirectRule(Value(RootKey))>> \o rules, a)
    BY <1>11 DEF handleAppRoot, RootKey
  <2>2. PICK new, a : /\ RewriteRules(RootKey, new, a)
                      /\ new = <<RootRedirectRule(Value(RootKey))>> \o rules
    BY <2>1
  <2>3. ~Refuses(cur, RootKey)
    BY DEF Refuses, RootKey
  <2> QED
    <3>1. /\ Handled(RootKey) /\ failed' = failed /\ UNCHANGED graphRoutes
          /\ routes'[ThisRouteId].rules = <<RootRedirectRule(Value(RootKey))>> \o ThisRoute.rules
          /\ \A id \in OwnRoutes : id # ThisRouteId => routes'[id].rules = routes[id].rules
      BY <2>2, RulesSet
    <3>2. RuleStep(RootKey)
      BY <2>3, <3>1 DEF RuleStep
    <3> QED
      BY <3>2
<1> QED
  BY <1>2, <1>3, <1>4, <1>5, <1>6, <1>7, <1>8, <1>9, <1>10, <1>11

(* The handlers of policies leave the rules alone.                          *)
LEMMA PolicyHandlerRules ==
  ASSUME IInv, PolicyHandler
  PROVE  \E k : RuleStep(k)
<1> USE DEF RuleKeys, RedirectKeys, RedirectCodeKeys, RootKey
<1>1. ASSUME NEW k, NEW a, NEW err, Take(k), Finish(k, a, err), UNCHANGED graphVars, k \notin RuleKeys
      PROVE  RuleStep(k)
  BY <1>1, PlainStep DEF graphVars
<1>2. ASSUME NEW n \in Notices, handleNotice(n)
      PROVE  RuleStep(n.key)
  <2>1. n.key \notin RuleKeys
    BY DEF Notices, AuthTLSNotices, AffinityNotices, SnippetNotices, DefaultBackendNotices,
       WAFNotices, TimeoutNotices, BufferNotices, CipherNotices, CookieNotices
  <2> QED
    BY <1>1, <1>2, <2>1 DEF handleNotice, Notice
<1>3. ASSUME NEW k \in pending, NoListeners(k) \/ InvalidPolicySetting(k) \/ NoWAFWanted(k)
      PROVE  RuleStep(k)
  <2>1. k \in ListenerKeys \union DurationKeys \union {"proxy-read-timeout"} \union WAFKeys
    BY <1>3 DEF NoListeners, InvalidPolicySetting, NoWAFWanted
  <2>2. PICK a, err : Notice(k, a, err)
    BY <1>3, Zenon DEF NoListeners, InvalidPolicySetting, NoWAFWanted
  <2>3. k \notin RuleKeys
    BY <2>1 DEF ListenerKeys, DurationKeys, WAFKeys
  <2> QED
    BY <1>1, <2>2, <2>3 DEF Notice
<1>4. CASE handleLoadBalance \/ NoClientVerification \/ OtherAffinity \/ OtherProtocol
  <2>1. PICK k \in {"load-balance", "auth-tls-verify-client", "affinity", "backend-protocol"} :
          \E a, err : Notice(k, a, err)
    BY <1>4, Zenon DEF handleLoadBalance, NoClientVerification, OtherAffinity, OtherProtocol
  <2>2. k \notin RuleKeys
    OBVIOUS
  <2> QED
    BY <1>1, <2>1, <2>2 DEF Notice
<1>5. CASE handleAuthTLSSecret \/ handleAuthTLSVerifyClient \/ handleSSLCiphers
  <2>1. PICK k \in ListenerKeys : \E settings, a : SetFrontendTLS(k, settings, a)
    BY <1>5, Zenon DEF handleAuthTLSSecret, handleAuthTLSVerifyClient, handleSSLCiphers, ListenerKeys
  <2>2. k \notin RuleKeys
    BY DEF ListenerKeys
  <2> QED
    BY <1>1, <2>1, <2>2 DEF SetFrontendTLS
<1>6. CASE handleAffinity \/ handleProxyReadTimeout
             \/ (\E k \in pending : handleSessionCookieExpires(k))
  <2>1. PICK k \in DurationKeys \union {"affinity", "proxy-read-timeout"} :
          \E policy : SetRoutePolicy(k, policy)
    BY <1>6, Zenon DEF handleAffinity, handleProxyReadTimeout, handleSessionCookieExpires
  <2>2. k \notin RuleKeys
    BY DEF DurationKeys
  <2> QED
    BY <1>1, <2>1, <2>2 DEF SetRoutePolicy
<1>7. ASSUME NEW k \in pending, handleWAF(k)
      PROVE  RuleStep(k)
  <2>1. /\ k \in WAFKeys /\ Take(k) /\ (\E a, err : Finish(k, a, err)) /\ UNCHANGED graphVars
    BY <1>7, Zenon DEF handleWAF
  <2>2. k \notin RuleKeys
    BY <2>1 DEF WAFKeys
  <2> QED
    BY <1>1, <2>1, <2>2
<1>8. CASE handleBackendProtocol
  <2>1. /\ Take("backend-protocol") /\ (\E a, err : Finish("backend-protocol", a, err))
        /\ UNCHANGED graphVars
    BY <1>8, Zenon DEF handleBackendProtocol
  <2> QED
    BY <1>1, <2>1
<1> QED
  BY <1>2, <1>3, <1>4, <1>5, <1>6, <1>7, <1>8 DEF PolicyHandler

(* Every step handles one annotation or is one of the engine.               *)
LEMMA NextRules ==
  ASSUME IInv, [Next]_vars
  PROVE  \/ \E k : RuleStep(k)
         \/ EngineStep /\ ~handleIgnoredAnnotation
         \/ UNCHANGED vars
<1>1. CASE EngineStep /\ handleIgnoredAnnotation
  <2>1. /\ Take(LastApplied) /\ (\E a, err : Finish(LastApplied, a, err)) /\ UNCHANGED graphVars
    BY <1>1, Zenon DEF handleIgnoredAnnotation
  <2>2. LastApplied \notin RuleKeys
    BY DEF LastApplied, RuleKeys, RedirectKeys, RedirectCodeKeys, RootKey
  <2> QED
    BY <2>1, <2>2, PlainStep DEF graphVars
<1>2. CASE Unsupported
  <2>1. PICK k \in pending : k \notin AnnotationHandlers /\ UnsupportedAnnotation(k)
    BY <1>2 DEF Unsupported
  <2>2. k \notin RuleKeys
    BY <2>1 DEF AnnotationHandlers, RuleKeys, RootKey
  <2>3. Take(k) /\ (\E a, err : Finish(k, a, err)) /\ UNCHANGED graphVars
    BY <2>1 DEF UnsupportedAnnotation
  <2> QED
    BY <2>2, <2>3, PlainStep DEF graphVars
<1>3. CASE RouteHandler
  BY <1>3, RouteNoticesRules, RouteOthersRules, RouteChangesRules DEF RouteHandler
<1>4. CASE PolicyHandler
  BY <1>4, PolicyHandlerRules
<1> QED
  BY <1>1, <1>2, <1>3, <1>4 DEF Next, Returned, Handler

-----------------------------------------------------------------------------
(* The rules, step by step.                                                  *)

LEMMA SameRouteOK ==
  ASSUME input' = input, NEW rules, NEW roots, NEW backends, NEW nn, NEW handled
  PROVE  RouteOK(rules, roots, backends, nn, handled)' <=> RouteOK(rules, roots, backends, nn, handled)
BY DEF RouteOK, BackendOK, RedirectOK, RewriteOK, CanaryOK, Refuses, ValueOr, HasAnnotation,
   AnnotationOf, RequestsOf, RedirectRequests, Ingress

LEMMA RouteHandledLess ==
  ASSUME NEW rules, NEW roots, NEW backends, NEW nn, NEW handled, NEW fewer,
         fewer \subseteq handled, RouteOK(rules, roots, backends, nn, handled)
  PROVE  RouteOK(rules, roots, backends, nn, fewer)
BY HandledLess DEF RouteOK

LEMMA RootsCounted ==
  ASSUME IInv, NEW id, id.ing \in Ingresses
  PROVE  IsFiniteSet(RootPasses(id)) /\ RootsSofar(id) \in Nat
<1>1. /\ DOMAIN Ingress(id.ing).rules = 1 .. Len(Ingress(id.ing).rules)
      /\ Len(Ingress(id.ing).rules) \in Nat
  BY RulesNumbered DEF IInv, TypeOK, ProgressOK
<1>2. IsFiniteSet(RootPasses(id))
  <2>1. IsFiniteSet(1 .. Len(Ingress(id.ing).rules))
    BY <1>1, FS_Interval
  <2>2. RootPasses(id) \subseteq 1 .. Len(Ingress(id.ing).rules)
    BY <1>1 DEF RootPasses, ActiveRules
  <2> QED
    BY <2>1, <2>2, FS_Subset
<1> QED
  BY <1>2, FS_CardinalityType DEF RootsSofar

(* Where the current route is, in rigid terms.                              *)
LEMMA OwnRoute ==
  ASSUME ProgressInv, NEW id \in OwnRoutes
  PROVE  id \in DOMAIN routes /\ id.ing \in Ingresses /\ id = RouteId(id.ing, id.host)
<1>1. id \in DOMAIN routes /\ id.ing \in Ingresses
  BY DEF OwnRoutes
<1>2. PICK i : id = RouteId(id.ing, HostOf(id.ing, i))
  BY <1>1 DEF ProgressInv
<1> QED
  BY <1>1, <1>2 DEF RouteId

(* What a handler adds to the passes and to what is settled.                *)
LEMMA HandlerPasses ==
  ASSUME IInv, ProgressInv, NEW k, Handled(k), NEW id \in OwnRoutes
  PROVE  /\ RootPasses(id)' = RootPasses(id) \union
                                (IF id = ThisRouteId /\ k = RootKey THEN {rule} ELSE {})
         /\ id = ThisRouteId /\ k = RootKey => rule \notin RootPasses(id)
         /\ Settled(id)' \subseteq Settled(id) \union (IF id = ThisRouteId THEN {k} ELSE {})
<1>1. /\ \A nn \in Ingresses : \A i \in ActiveRules(nn) : \A j :
           Over(nn, i, j)' <=> Over(nn, i, j) \/ (nn = cur /\ i = rule /\ j = k)
      /\ UNCHANGED <<input, phase, todo, cur, rule>>
      /\ phase = "annotations"
  BY HandledProgress
<1>2. /\ cur \in Ingresses /\ rule \in ActiveRules(cur) /\ rule \in Nat
      /\ ThisRouteId = RouteId(cur, HostOf(cur, rule))
  BY <1>1, CurrentRoute DEF IInv, TypeOK, ProgressOK
<1>3. /\ \A nn : Ingress(nn)' = Ingress(nn) /\ ActiveRules(nn)' = ActiveRules(nn)
      /\ \A nn, i : HostOf(nn, i)' = HostOf(nn, i)
  BY <1>1 DEF Ingress, ActiveRules, HostOf
<1>4. id.ing \in Ingresses /\ id = RouteId(id.ing, id.host)
  BY OwnRoute
<1>5. id = ThisRouteId <=> id.ing = cur /\ id.host = HostOf(cur, rule)
  BY <1>2, <1>4 DEF RouteId
<1>6. PICK me, at : me = cur /\ at = rule
  OBVIOUS
<1>7. RootPasses(id)' = RootPasses(id) \union
                          (IF id = ThisRouteId /\ k = RootKey THEN {rule} ELSE {})
  <2>1. \A i : i \in RootPasses(id)' <=> /\ i \in ActiveRules(id.ing) /\ HostOf(id.ing, i) = id.host
                                         /\ Over(id.ing, i, RootKey)'
    BY <1>3 DEF RootPasses
  <2>2. \A i : i \in RootPasses(id) <=> /\ i \in ActiveRules(id.ing) /\ HostOf(id.ing, i) = id.host
                                        /\ Over(id.ing, i, RootKey)
    BY DEF RootPasses
  <2>3. ASSUME NEW i
        PROVE  i \in RootPasses(id)' <=>
                 i \in RootPasses(id) \/ (id = ThisRouteId /\ k = RootKey /\ i = rule)
    BY <1>1, <1>2, <1>4, <1>5, <2>1, <2>2
  <2> QED
    BY <2>3
<1>8. ASSUME k = RootKey, id = ThisRouteId, rule \in RootPasses(id)
      PROVE  FALSE
  <2>1. Over(cur, rule, k)
    BY <1>5, <1>8 DEF RootPasses
  <2>2. k \in pending
    BY DEF Handled, Take
  <2> QED
    BY <1>1, <1>2, <2>1, <2>2 DEF Over, InTurn
<1>9. ASSUME NEW j \in Settled(id)', j \notin Settled(id)
      PROVE  j = k /\ id = ThisRouteId
  <2>1. Position(id.ing)' = Position(id.ing)
    BY <1>1, SamePositions
  <2>2. /\ j \in DOMAIN Ingress(id.ing).annos
        /\ \A m \in ActiveRules(id.ing) :
             HostOf(id.ing, m) = id.host /\ m <= Position(id.ing) => Over(id.ing, m, j)'
    BY <1>3, <1>9, <2>1 DEF Settled, HandledFor
  <2>3. PICK m \in ActiveRules(id.ing) :
          HostOf(id.ing, m) = id.host /\ m <= Position(id.ing) /\ ~Over(id.ing, m, j)
    BY <1>9, <2>2 DEF Settled, HandledFor
  <2> QED
    BY <1>1, <1>4, <1>5, <2>2, <2>3
<1> QED
  BY <1>7, <1>8, <1>9

LEMMA HandlerKeepsRules ==
  ASSUME IInv, ProgressInv, RulesBook, NEW k, RuleStep(k)
  PROVE  RulesBook'
<1>1. /\ UNCHANGED <<input, phase, todo, cur, rule>>
      /\ HasAnnotation(cur, k) /\ phase = "annotations" /\ Handled(k)
  BY HandledProgress DEF RuleStep
<1>2. OwnRoutes' = OwnRoutes
  BY <1>1, OwnRoutesKept DEF Handled
<1>3. PositionOK' /\ \A id : BackendsSofar(id)' = BackendsSofar(id)
  BY <1>1, SamePositions DEF RulesBook
<1>4. \A nn : HasAnnotation(nn, RootKey)' = HasAnnotation(nn, RootKey)
  BY <1>1 DEF HasAnnotation, Ingress
<1>5. ASSUME NEW id \in OwnRoutes
      PROVE  RouteOK(routes[id].rules, RootsSofar(id), BackendsSofar(id), id.ing, Settled(id))'
  <2>1. PICK old, new, roots, then, backends, handled, later :
          /\ old = routes[id].rules /\ new = routes'[id].rules
          /\ roots = RootsSofar(id) /\ then = RootsSofar(id)'
          /\ backends = BackendsSofar(id)
          /\ handled = Settled(id) /\ later = Settled(id)'
    OBVIOUS
  <2>2. RouteOK(old, roots, backends, id.ing, handled)
    BY <2>1 DEF RulesBook
  <2>3. id \in DOMAIN routes /\ id.ing \in Ingresses /\ id = RouteId(id.ing, id.host)
    BY OwnRoute
  <2>4. IsFiniteSet(RootPasses(id)) /\ roots \in Nat
    BY <2>1, <2>3, RootsCounted
  <2>5. /\ RootPasses(id)' = RootPasses(id) \union
                               (IF id = ThisRouteId /\ k = RootKey THEN {rule} ELSE {})
        /\ id = ThisRouteId /\ k = RootKey => rule \notin RootPasses(id)
        /\ later \subseteq handled \union (IF id = ThisRouteId THEN {k} ELSE {})
    BY <1>1, <2>1, HandlerPasses
  <2>6. Position(id.ing) \in 0 .. Len(Ingress(id.ing).rules)
    BY <2>3, PositionRange DEF RulesBook
  <2>7. backends = BackendsUpTo(id.ing, id.host)[Position(id.ing)]
    BY <2>1 DEF BackendsSofar
  <2>8. IsList(backends)
    BY <2>3, <2>6, <2>7, BackendsList DEF IInv, TypeOK, ProgressOK
  <2>9. \A x \in DOMAIN backends : backends[x].svc # NoService
    BY <2>3, <2>6, <2>7, BackendsNamed DEF IInv, TypeOK, ProgressOK
  <2>10. then = IF id = ThisRouteId /\ k = RootKey THEN roots + 1 ELSE roots
    <3>1. CASE id = ThisRouteId /\ k = RootKey
      <4>1. Cardinality(RootPasses(id) \union {rule}) = Cardinality(RootPasses(id)) + 1
        BY <2>4, <2>5, <3>1, FS_AddElement
      <4>2. id.ing = cur
        BY <3>1 DEF ThisRouteId, RouteId
      <4> QED
        BY <1>1, <1>4, <2>1, <2>5, <3>1, <4>1, <4>2 DEF RootsSofar
    <3>2. CASE ~(id = ThisRouteId /\ k = RootKey)
      <4>1. RootPasses(id)' = RootPasses(id)
        BY <2>5, <3>2
      <4> QED
        BY <1>4, <2>1, <3>2, <4>1 DEF RootsSofar
    <3> QED
      BY <3>1, <3>2
  <2>11. RouteOK(new, then, backends, id.ing, later)
    <3>1. CASE id # ThisRouteId
      <4>1. new = old
        BY <2>1, <3>1 DEF RuleStep
      <4> QED
        BY <2>2, <2>5, <2>10, <3>1, <4>1, RouteHandledLess
    <3>2. CASE id = ThisRouteId /\ k = RootKey
      <4>1. PICK root : root = RootRedirectRule(Value(k))
        OBVIOUS
      <4>2. RootOK(root) /\ new = <<root>> \o old
        BY <2>1, <3>2, <4>1, RootRule DEF RuleStep, ThisRoute
      <4>3. RouteOK(new, roots + 1, backends, id.ing, handled \union {RootKey})
        BY <2>2, <2>4, <2>8, <4>2, RouteRooted
      <4> QED
        BY <2>5, <2>10, <3>2, <4>3, RouteHandledLess
    <3>3. CASE id = ThisRouteId /\ k # RootKey
      <4>1. /\ IsList(new) /\ DOMAIN new = DOMAIN old
            /\ \A i \in DOMAIN old : Shaped(old[i]) => Touched(k, old[i], new[i])
        <5>1. IsList(old)
          BY <2>2 DEF RouteOK
        <5> QED
          BY <2>1, <3>3, <5>1 DEF RuleStep, ThisRoute
      <4>2. id.ing = cur /\ k \in DOMAIN Ingress(cur).annos
        BY <1>1, <3>3 DEF ThisRouteId, RouteId, HasAnnotation
      <4>3. ASSUME NEW i \in DOMAIN old, RootOK(old[i])
            PROVE  RootOK(new[i])
        BY <4>1, <4>3, RootTouched DEF RootOK
      <4>4. ASSUME NEW i \in DOMAIN old, NEW x \in DOMAIN backends,
                   BackendOK(id.ing, backends[x], handled, old[i])
            PROVE  BackendOK(id.ing, backends[x], later, new[i])
        <5>1. Touched(k, old[i], new[i])
          BY <4>1, <4>4 DEF BackendOK
        <5>2. BackendOK(id.ing, backends[x], handled \union {k}, new[i])
          BY <2>9, <4>2, <4>4, <5>1, BackendTouched
        <5> QED
          BY <2>5, <3>3, <5>2, HandledLess
      <4> QED
        BY <2>2, <2>4, <2>8, <2>10, <3>3, <4>1, <4>3, <4>4, RouteTouched
    <3> QED
      BY <3>1, <3>2, <3>3
  <2>12. RouteOK(new, then, backends, id.ing, later)'
    BY <1>1, <2>11, SameRouteOK
  <2> QED
    BY <1>3, <2>1, <2>12
<1> QED
  BY <1>2, <1>3, <1>5 DEF RulesBook

(* Without turns nothing is added to the passes or to what is settled.      *)
LEMMA SameRoots ==
  ASSUME input' = input, SameTurns, NEW id, id.ing \in Ingresses
  PROVE  RootsSofar(id)' = RootsSofar(id)
<1>1. /\ \A nn : Ingress(nn)' = Ingress(nn) /\ ActiveRules(nn)' = ActiveRules(nn)
      /\ \A nn, i : HostOf(nn, i)' = HostOf(nn, i)
      /\ HasAnnotation(id.ing, RootKey)' = HasAnnotation(id.ing, RootKey)
  BY DEF Ingress, ActiveRules, HostOf, HasAnnotation
<1>2. ASSUME HasAnnotation(id.ing, RootKey)
      PROVE  RootPasses(id)' = RootPasses(id)
  <2>1. \A i \in ActiveRules(id.ing) : Over(id.ing, i, RootKey)' <=> Over(id.ing, i, RootKey)
    BY <1>2 DEF SameTurns, HasAnnotation
  <2>2. \A i : i \in RootPasses(id)' <=> i \in RootPasses(id)
    BY <1>1, <2>1 DEF RootPasses
  <2> QED
    BY <2>2 DEF RootPasses
<1> QED
  BY <1>1, <1>2 DEF RootsSofar

LEMMA SettledLess ==
  ASSUME IInv, input' = input, SameTurns, NEW id, id.ing \in Ingresses,
         Position(id.ing) \in Nat, Position(id.ing)' \in Nat, Position(id.ing) <= Position(id.ing)'
  PROVE  Settled(id)' \subseteq Settled(id)
<1>1. /\ \A nn : Ingress(nn)' = Ingress(nn) /\ ActiveRules(nn)' = ActiveRules(nn)
      /\ \A nn, i : HostOf(nn, i)' = HostOf(nn, i)
  BY DEF Ingress, ActiveRules, HostOf
<1>2. ActiveRules(id.ing) \subseteq Nat
  BY RulesNumbered DEF IInv, TypeOK, ProgressOK
<1>3. PICK n, m : n = Position(id.ing) /\ m = Position(id.ing)'
  OBVIOUS
<1>4. ASSUME NEW k \in Settled(id)'
      PROVE  k \in Settled(id)
  <2>1. /\ k \in DOMAIN Ingress(id.ing).annos
        /\ \A i \in ActiveRules(id.ing) : HostOf(id.ing, i) = id.host /\ i <= m => Over(id.ing, i, k)'
    BY <1>1, <1>3, <1>4 DEF Settled, HandledFor
  <2>2. \A i \in ActiveRules(id.ing) : i <= n => i <= m
    BY <1>2, <1>3
  <2>3. \A i \in ActiveRules(id.ing) : HostOf(id.ing, i) = id.host /\ i <= n => Over(id.ing, i, k)
    BY <2>1, <2>2 DEF SameTurns
  <2> QED
    BY <1>3, <2>1, <2>3 DEF Settled, HandledFor
<1> QED
  BY <1>4

(* A route without rules; a rule as BeginRule makes it.                     *)
LEMMA NoRules ==
  ASSUME NEW backends, IsList(backends), DOMAIN backends = {}, NEW nn, NEW handled
  PROVE  RouteOK(<<>>, 0, backends, nn, handled)
<1>1. Len(backends) = 0
  BY ListDomain
<1>2. IsList(<<>>) /\ Len(<<>>) = 0
  BY DEF IsList
<1> QED
  BY <1>1, <1>2 DEF RouteOK

LEMMA FreshRules ==
  ASSUME input \in Inputs, NEW nn \in Ingresses, NEW n \in ActiveRules(nn)
  PROVE  LET rules == RulesOf(Ingress(nn).rules[n].paths)
             part  == BackendsOf(nn, HostOf(nn, n), n)
         IN  /\ IsList(rules) /\ DOMAIN rules = DOMAIN part
             /\ \A i \in DOMAIN part : BackendOK(nn, part[i], {}, rules[i])
<1> DEFINE rules == RulesOf(Ingress(nn).rules[n].paths)
           part  == BackendsOf(nn, HostOf(nn, n), n)
<1>1. /\ IsList(rules) /\ DOMAIN rules = DOMAIN part
      /\ \A i \in DOMAIN rules :
           /\ DOMAIN rules[i] = RuleFields /\ DOMAIN rules[i].rewrite = RewriteFields
           /\ rules[i].svc = part[i].svc /\ rules[i].port = part[i].port
           /\ rules[i].path = part[i].path
           /\ rules[i].rewrite = NoRewrite /\ rules[i].redirect = NoRedirect
           /\ rules[i].headerMatches = <<>>
  BY RulesOfBackends DEF WellFormed, Serve
<1> HIDE DEF rules, part
<1>2. ASSUME NEW i \in DOMAIN part
      PROVE  BackendOK(nn, part[i], {}, rules[i])
  <2>1. PICK r, d : r = rules[i] /\ d = part[i]
    OBVIOUS
  <2>2. /\ DOMAIN r = RuleFields /\ DOMAIN r.rewrite = RewriteFields
        /\ r.svc = d.svc /\ r.port = d.port /\ r.path = d.path
        /\ r.rewrite = NoRewrite /\ r.redirect = NoRedirect /\ r.headerMatches = <<>>
    BY <1>1, <1>2, <2>1
  <2>3. /\ DOMAIN NoRedirect = RedirectFields /\ NoRewrite.prefix = "none"
        /\ \A part0 \in RedirectFields : NoRedirect[part0] = "none"
    BY DEF NoRedirect, NoRewrite, RedirectFields
  <2>4. IsList(<<>>)
    BY DEF IsList
  <2>5. Shaped(r)
    BY <2>2, <2>3, <2>4 DEF Shaped
  <2>6. RedirectOK(nn, {}, r) /\ RewriteOK(nn, d.path, {}, r) /\ CanaryOK(nn, {}, r)
    BY <2>2, <2>3 DEF RedirectOK, RewriteOK, CanaryOK
  <2> QED
    BY <2>1, <2>2, <2>5, <2>6 DEF BackendOK
<1> QED
  BY <1>1, <1>2 DEF rules, part

LEMMA BeginRuleKeepsRules ==
  ASSUME IInv, ProgressInv, RulesBook, BeginRule
  PROVE  RulesBook'
<1>1. PICK id : RulesAdded(id)
  BY BeginRuleRules DEF RulesBook
<1>2. PICK me, at, host : me = cur /\ at = rule /\ host = HostOf(cur, rule)
  OBVIOUS
<1>3. /\ id = RouteId(me, host) /\ id.ing = me /\ id.host = host
      /\ me \in Ingresses \ todo /\ at \in DOMAIN Ingress(me).rules
      /\ OwnRoutes' = OwnRoutes \union {id} /\ input' = input
      /\ Position(me) = at - 1
      /\ \A nn \in Ingresses : Position(nn)' = IF nn = me THEN at ELSE Position(nn)
      /\ PositionOK'
      /\ input \in Inputs
  BY <1>1, <1>2 DEF RulesAdded, IInv, TypeOK, ProgressOK, RouteId
<1>4. /\ \A nn, h : BackendsUpTo(nn, h)' = BackendsUpTo(nn, h)
      /\ SameTurns
  BY <1>3, SameBackends, BeginRuleProgress DEF SameAskers
<1>5. /\ at \in 1 .. Len(Ingress(me).rules) /\ Len(Ingress(me).rules) \in Nat
      /\ at - 1 \in 0 .. Len(Ingress(me).rules)
      /\ \A nn \in Ingresses : Position(nn) \in Nat
  BY <1>3, RulesNumbered, PositionRange DEF RulesBook
<1>6. ASSUME NEW h
      PROVE  /\ BackendsUpTo(me, h)[at] = BackendsUpTo(me, h)[at - 1] \o BackendsOf(me, h, at)
             /\ IsList(BackendsUpTo(me, h)[at - 1])
             /\ IsList(BackendsOf(me, h, at))
  <2>1. BackendsUpTo(me, h)[at] = BackendsUpTo(me, h)[at - 1] \o BackendsOf(me, h, at)
    BY <1>5, BackendsStep
  <2>2. IsList(BackendsUpTo(me, h)[at - 1])
    BY <1>3, <1>5, BackendsList
  <2>3. IsList(BackendsOf(me, h, at))
    BY <1>3, BackendsOfRule
  <2> QED
    BY <2>1, <2>2, <2>3
<1>7. ASSUME NEW h, BackendsOf(me, h, at) = <<>>
      PROVE  BackendsUpTo(me, h)[at] = BackendsUpTo(me, h)[at - 1]
  <2>1. PICK b : b = BackendsUpTo(me, h)[at - 1]
    OBVIOUS
  <2>2. PICK S : b \in Seq(S)
    BY <1>6, <2>1 DEF IsList
  <2>3. b \o <<>> = b
    BY <2>2, ConcatEmptySeq
  <2> QED
    BY <1>6, <1>7, <2>1, <2>3
<1>8. ASSUME NEW x, x.ing \in Ingresses
      PROVE  /\ RootsSofar(x)' = RootsSofar(x) /\ RootsSofar(x) \in Nat
             /\ Settled(x)' \subseteq Settled(x)
             /\ BackendsSofar(x)' = BackendsUpTo(x.ing, x.host)[Position(x.ing)']
  <2>1. Position(x.ing)' \in Nat /\ Position(x.ing) <= Position(x.ing)'
    BY <1>3, <1>5, <1>8
  <2> QED
    BY <1>3, <1>4, <1>5, <1>8, <2>1, SameRoots, SettledLess, RootsCounted DEF BackendsSofar
(* A route that gets no rule.                                               *)
<1>9. ASSUME NEW x, x.ing \in Ingresses, NEW rules,
             RouteOK(rules, RootsSofar(x), BackendsSofar(x), x.ing, Settled(x)),
             x.ing = me => BackendsOf(me, x.host, at) = <<>>, routes'[x].rules = rules
      PROVE  RouteOK(routes[x].rules, RootsSofar(x), BackendsSofar(x), x.ing, Settled(x))'
  <2>1. BackendsSofar(x)' = BackendsSofar(x)
    BY <1>3, <1>7, <1>8, <1>9 DEF BackendsSofar
  <2>2. PICK roots, backends, later :
          roots = RootsSofar(x) /\ backends = BackendsSofar(x) /\ later = Settled(x)'
    OBVIOUS
  <2>3. RouteOK(rules, roots, backends, x.ing, later)
    BY <1>8, <1>9, <2>2, RouteHandledLess
  <2>4. RouteOK(rules, roots, backends, x.ing, later)'
    BY <1>3, <2>3, SameRouteOK
  <2>5. roots = RootsSofar(x)' /\ backends = BackendsSofar(x)'
    BY <1>8, <1>9, <2>1, <2>2
  <2> QED
    BY <1>9, <2>2, <2>4, <2>5
<1>10. ASSUME NEW x \in OwnRoutes, x # id
       PROVE  RouteOK(routes[x].rules, RootsSofar(x), BackendsSofar(x), x.ing, Settled(x))'
  <2>1. x.ing \in Ingresses /\ x = RouteId(x.ing, x.host)
    BY OwnRoute
  <2>2. PICK rules : rules = routes[x].rules
    OBVIOUS
  <2>3. routes'[x].rules = rules
    BY <1>1, <1>10, <2>2 DEF RulesAdded
  <2>4. RouteOK(rules, RootsSofar(x), BackendsSofar(x), x.ing, Settled(x))
    BY <2>2 DEF RulesBook
  <2>5. ASSUME x.ing = me
        PROVE  BackendsOf(me, x.host, at) = <<>>
    <3>1. x.host # host
      BY <1>3, <1>10, <2>1, <2>5
    <3> QED
      BY <1>2, <3>1 DEF BackendsOf, HostOf
  <2> QED
    BY <1>9, <2>1, <2>3, <2>4, <2>5
(* The route of the rule.                                                   *)
<1>11. PICK old : old = IF id \in OwnRoutes THEN routes[id].rules ELSE <<>>
  OBVIOUS
<1>12. RouteOK(old, RootsSofar(id), BackendsSofar(id), me, Settled(id))
  <2>1. CASE id \in OwnRoutes
    BY <1>3, <1>11, <2>1 DEF RulesBook
  <2>2. CASE id \notin OwnRoutes
    <3>1. ASSUME NEW m \in ActiveRules(me), HostOf(me, m) = host, Begun(me, m)
          PROVE  FALSE
      <4>1. m \in DOMAIN Ingress(me).rules
        BY DEF ActiveRules
      <4>2. id \in DOMAIN routes
        BY <1>3, <3>1, <4>1 DEF ProgressInv
      <4> QED
        BY <1>3, <2>2, <4>2 DEF OwnRoutes
    <3>2. RootPasses(id) = {}
      <4>1. \A m, k : Over(me, m, k) => Begun(me, m)
        BY DEF Over, Begun
      <4> QED
        BY <1>3, <3>1, <4>1 DEF RootPasses
    <3>3. RootsSofar(id) = 0
      BY <3>2, FS_EmptySet DEF RootsSofar
    <3>4. PICK sofar : sofar = BackendsSofar(id) /\ sofar = BackendsUpTo(me, host)[at - 1]
      BY <1>3 DEF BackendsSofar
    <3>5. ASSUME NEW i \in DOMAIN sofar
          PROVE  FALSE
      <4>1. PICK m \in ActiveRules(me) : m \in 1 .. (at - 1) /\ HostOf(me, m) = host
        BY <1>3, <1>5, <3>4, BackendsDeclared
      <4>2. m < at
        BY <1>5, <4>1
      <4>3. Begun(me, m)
        BY <1>2, <1>3, <4>2 DEF Begun
      <4> QED
        BY <3>1, <4>1, <4>3
    <3>6. IsList(sofar) /\ DOMAIN sofar = {}
      BY <1>6, <3>4, <3>5
    <3> QED
      BY <1>11, <2>2, <3>3, <3>4, <3>6, NoRules
  <2> QED
    BY <2>1, <2>2
<1>13. RouteOK(routes[id].rules, RootsSofar(id), BackendsSofar(id), id.ing, Settled(id))'
  <2>1. CASE at \notin ActiveRules(me)
    <3>1. routes'[id].rules = old
      BY <1>1, <1>2, <1>11, <2>1 DEF RulesAdded
    <3>2. BackendsOf(me, host, at) = <<>>
      BY <2>1 DEF BackendsOf
    <3> QED
      BY <1>3, <1>9, <1>12, <3>1, <3>2
  <2>2. CASE at \in ActiveRules(me)
    <3>1. PICK added, part, sofar, roots, handled :
            /\ added = RulesOf(Ingress(me).rules[at].paths) /\ part = BackendsOf(me, host, at)
            /\ sofar = BackendsSofar(id) /\ sofar = BackendsUpTo(me, host)[at - 1]
            /\ roots = RootsSofar(id) /\ handled = Settled(id)
      BY <1>3 DEF BackendsSofar
    <3>2. routes'[id].rules = old \o added
      BY <1>1, <1>2, <1>11, <2>2, <3>1 DEF RulesAdded
    <3>3. /\ IsList(added) /\ IsList(part) /\ DOMAIN added = DOMAIN part
          /\ \A i \in DOMAIN part : BackendOK(me, part[i], {}, added[i])
      BY <1>2, <1>3, <1>6, <2>2, <3>1, FreshRules
    <3>4. IsList(sofar) /\ BackendsSofar(id)' = sofar \o part
      BY <1>3, <1>6, <1>8, <3>1
    <3>5. roots \in Nat /\ roots = RootsSofar(id)'
      BY <1>3, <1>8, <3>1
    <3>6. RouteOK(old \o added, roots, sofar \o part, me, {})
      BY <1>12, <3>1, <3>3, <3>4, <3>5, RouteGrows
    <3>7. Settled(id)' = {}
      <4>1. /\ phase' = "annotations" /\ rule' = at /\ pending' = DOMAIN Ingress(me).annos
            /\ cur' = me
        BY <1>1, <1>2, <2>2 DEF RulesAdded
      <4>2. \A k \in DOMAIN Ingress(me).annos : ~Over(me, at, k)'
        <5>1. InTurn' /\ ~(at < at)
          BY <1>5, <4>1 DEF InTurn
        <5> QED
          BY <4>1, <5>1 DEF Over
      <4>3. /\ ActiveRules(me)' = ActiveRules(me) /\ HostOf(me, at)' = host
            /\ Ingress(me)' = Ingress(me) /\ Position(me)' = at /\ at <= at
        BY <1>2, <1>3, <1>5 DEF Ingress, ActiveRules, HostOf
      <4> QED
        BY <1>3, <2>2, <4>2, <4>3 DEF Settled, HandledFor
    <3>8. PICK new, backends : new = old \o added /\ backends = sofar \o part
      OBVIOUS
    <3>9. RouteOK(new, roots, backends, me, {})'
      BY <1>3, <3>6, <3>8, SameRouteOK
    <3> QED
      BY <1>3, <3>2, <3>4, <3>5, <3>7, <3>8, <3>9
  <2> QED
    BY <2>1, <2>2
<1>14. ASSUME NEW x \in OwnRoutes'
       PROVE  RouteOK(routes[x].rules, RootsSofar(x), BackendsSofar(x), x.ing, Settled(x))'
  BY <1>3, <1>10, <1>13
<1> QED
  BY <1>3, <1>14 DEF RulesBook

(* The other steps leave the rules alone.                                   *)
LEMMA QuietKeepsRules ==
  ASSUME IInv, ProgressInv, RulesBook,
         (EngineStep /\ ~handleIgnoredAnnotation) \/ UNCHANGED vars
  PROVE  RulesBook'
<1>1. CASE BeginRule
  BY <1>1, BeginRuleKeepsRules
<1>2. SameTurns /\ input' = input
  BY QuietProgress DEF SameAskers
<1>3. ASSUME UNCHANGED routes, PositionOK', \A nn \in Ingresses : Position(nn)' = Position(nn)
      PROVE  RulesBook'
  <2>1. OwnRoutes' = OwnRoutes
    BY <1>2, <1>3 DEF OwnRoutes, Ingresses
  <2>2. \A nn, h : BackendsUpTo(nn, h)' = BackendsUpTo(nn, h)
    BY <1>2, SameBackends
  <2>3. ASSUME NEW id \in OwnRoutes
        PROVE  RouteOK(routes[id].rules, RootsSofar(id), BackendsSofar(id), id.ing, Settled(id))'
    <3>1. id.ing \in Ingresses
      BY DEF OwnRoutes
    <3>2. Position(id.ing)' = Position(id.ing) /\ Position(id.ing) \in Nat
      <4>1. Len(Ingress(id.ing).rules) \in Nat
        BY <3>1, RulesNumbered DEF IInv, TypeOK, ProgressOK
      <4> QED
        BY <1>3, <3>1, <4>1, PositionRange DEF RulesBook
    <3>3. Position(id.ing)' \in Nat /\ Position(id.ing) <= Position(id.ing)'
      BY <3>2
    <3>4. Settled(id)' \subseteq Settled(id)
      BY <1>2, <3>1, <3>2, <3>3, SettledLess
    <3>5. RootsSofar(id)' = RootsSofar(id) /\ BackendsSofar(id)' = BackendsSofar(id)
      BY <1>2, <2>2, <3>1, <3>2, SameRoots DEF BackendsSofar
    <3>6. PICK rules, roots, backends, handled, later :
            /\ rules = routes[id].rules /\ roots = RootsSofar(id) /\ backends = BackendsSofar(id)
            /\ handled = Settled(id) /\ later = Settled(id)'
      OBVIOUS
    <3>7. RouteOK(rules, roots, backends, id.ing, handled)
      BY <3>6 DEF RulesBook
    <3>8. RouteOK(rules, roots, backends, id.ing, later)
      BY <3>4, <3>6, <3>7, RouteHandledLess
    <3>9. RouteOK(rules, roots, backends, id.ing, later)'
      BY <1>2, <3>8, SameRouteOK
    <3>10. routes'[id].rules = rules
      BY <1>3, <3>6
    <3> QED
      BY <3>5, <3>6, <3>9, <3>10
  <2> QED
    BY <1>3, <2>1, <2>3 DEF RulesBook
<1>4. CASE Setup \/ (\E nn \in todo : BeginIngress(nn)) \/ EndRule \/ EndIngress \/ Build
  <2>1. UNCHANGED routes
    BY <1>4 DEF Setup, BeginIngress, EndRule, EndIngress, Build, graphVars
  <2> QED
    BY <1>3, <1>4, <2>1, TurnPosition DEF RulesBook
<1>5. CASE UNCHANGED vars
  <2>1. UNCHANGED <<input, phase, todo, cur, rule, routes>>
    BY <1>5 DEF vars, engineVars, progressVars, graphVars
  <2> QED
    BY <1>3, <2>1, SamePositions DEF RulesBook
<1> QED
  BY <1>1, <1>4, <1>5 DEF EngineStep, EngineNext

LEMMA InitRules ==
  ASSUME Init
  PROVE  RulesBook
<1>1. phase = "setup" /\ DOMAIN routes = {}
  BY Zenon DEF Init, EngineInit
<1> QED
  BY <1>1 DEF RulesBook, OwnRoutes, PositionOK, InTurn

(* Every route has the rules of app-root, and behind them the backends it   *)
(* was given, each rule as its handled annotations have it.                 *)
THEOREM RulesBookkeeping == Spec => []RulesBook
<1>1. Init => RulesBook
  BY InitRules
<1>2. IInv /\ ProgressInv /\ RulesBook /\ [Next]_vars => RulesBook'
  BY NextRules, HandlerKeepsRules, QuietKeepsRules
<1> QED
  BY <1>1, <1>2, Invariance, Progress, PTL DEF Spec

(* The graph names the route of every rule that has been through, and no    *)
(* other route of an Ingress.                                               *)
THEOREM GraphBookkeeping == Spec => []GraphBook
<1>1. Init => GraphBook
  BY InitGraph
<1>2. IInv /\ ProgressInv /\ RulesBook /\ GraphBook /\ [Next]_vars => GraphBook'
  <2>1. ASSUME IInv, ProgressInv, GraphBook, NEW k, RuleStep(k)
        PROVE  GraphBook'
    <3>1. UNCHANGED <<input, phase, todo, cur, rule>>
      BY <2>1, HandledProgress DEF RuleStep
    <3> QED
      BY <2>1, <3>1, HandlerGraph DEF RuleStep
  <2> QED
    BY <2>1, NextRules, QuietGraph DEF RulesBook
<1> QED
  BY <1>1, <1>2, Invariance, Progress, RulesBookkeeping, PTL DEF Spec

-----------------------------------------------------------------------------
(* Refused settings.                                                         *)

LEMMA RefusalStep ==
  ASSUME IInv, ProgressInv, RefusalBook, [Next]_vars
  PROVE  RefusalBook'
<1>1. ASSUME input' = input
      PROVE  /\ Ingresses' = Ingresses
             /\ \A nn : Ingress(nn)' = Ingress(nn) /\ ActiveRules(nn)' = ActiveRules(nn)
             /\ \A nn, k : Refuses(nn, k)' <=> Refuses(nn, k)
  BY <1>1 DEF Ingresses, Ingress, ActiveRules, Refuses, ValueOr, HasAnnotation, AnnotationOf
<1>2. ASSUME NEW k, RuleStep(k)
      PROVE  RefusalBook'
  <2>1. /\ \A nn \in Ingresses : \A i \in ActiveRules(nn) : \A j :
             Over(nn, i, j)' <=> Over(nn, i, j) \/ (nn = cur /\ i = rule /\ j = k)
        /\ UNCHANGED <<input, phase, todo, cur, rule>>
        /\ phase = "annotations"
    BY <1>2, HandledProgress DEF RuleStep
  <2>2. UNCHANGED status /\ (failed => failed') /\ (Refuses(cur, k) => failed')
    BY <1>2 DEF RuleStep, Handled, Finish, progressVars
  <2>3. InTurn /\ InTurn'
    BY <2>1 DEF InTurn
  <2>4. ASSUME NEW nn \in Ingresses, NEW i \in ActiveRules(nn),
               NEW j \in DOMAIN Ingress(nn).annos, Over(nn, i, j)', Refuses(nn, j)
        PROVE  IF nn = cur THEN failed' ELSE status'[nn] = Error
    <3>1. CASE Over(nn, i, j)
      BY <2>2, <2>3, <2>4, <3>1 DEF RefusalBook
    <3>2. CASE ~Over(nn, i, j)
      BY <2>1, <2>2, <2>4, <3>2
    <3> QED
      BY <3>1, <3>2
  <2> QED
    BY <1>1, <2>1, <2>3, <2>4 DEF RefusalBook
<1>3. ASSUME (EngineStep /\ ~handleIgnoredAnnotation) \/ UNCHANGED vars
      PROVE  RefusalBook'
  <2>1. SameTurns /\ input' = input
    BY <1>3, QuietProgress DEF SameAskers
  <2>2. ASSUME \A nn \in Ingresses \ todo :
                 (IF InTurn /\ nn = cur THEN failed ELSE status[nn] = Error) =>
                 (IF InTurn /\ nn = cur THEN failed ELSE status[nn] = Error)'
        PROVE  RefusalBook'
    <3>1. ASSUME NEW nn \in Ingresses, NEW i \in ActiveRules(nn),
                 NEW j \in DOMAIN Ingress(nn).annos, Over(nn, i, j)', Refuses(nn, j)
          PROVE  (IF InTurn /\ nn = cur THEN failed ELSE status[nn] = Error)'
      <4>1. Over(nn, i, j)
        BY <2>1, <3>1 DEF SameTurns
      <4>2. nn \in Ingresses \ todo
        BY <4>1 DEF Over
      <4> QED
        BY <2>2, <3>1, <4>1, <4>2 DEF RefusalBook
    <3> QED
      BY <1>1, <2>1, <3>1 DEF RefusalBook
  <2>3. CASE BeginRule \/ EndRule \/ UNCHANGED vars
    <3>1. UNCHANGED <<cur, status, failed>> /\ (InTurn' <=> InTurn)
      <4>1. CASE BeginRule
        <5>1. /\ UNCHANGED <<cur, status, failed>> /\ phase = "rules"
              /\ phase' \in {"rules", "annotations"}
          BY <4>1, ZenonT(60) DEF BeginRule
        <5> QED
          BY <5>1 DEF InTurn
      <4>2. CASE EndRule
        BY <4>2 DEF EndRule, InTurn
      <4>3. CASE UNCHANGED vars
        BY <4>3 DEF vars, engineVars, progressVars, InTurn
      <4> QED
        BY <2>3, <4>1, <4>2, <4>3
    <3> QED
      BY <2>2, <3>1
  <2>4. CASE Setup \/ Build
    <3>1. UNCHANGED status /\ ~InTurn /\ ~InTurn'
      BY <2>4 DEF Setup, Build, InTurn
    <3> QED
      BY <2>2, <3>1
  <2>5. ASSUME NEW nn \in todo, BeginIngress(nn)
        PROVE  RefusalBook'
    <3>1. UNCHANGED status /\ ~InTurn /\ cur' = nn
      BY <2>5 DEF BeginIngress, InTurn
    <3> QED
      BY <2>2, <2>5, <3>1
  <2>6. CASE EndIngress
    <3>1. /\ phase = "rules" /\ phase' = "ingresses"
          /\ status' = [status EXCEPT ![cur] = IF failed THEN Error ELSE Completed]
      BY <2>6 DEF EndIngress
    <3>2. DOMAIN status = Ingresses
      BY DEF IInv, TypeOK, ProgressOK
    <3>3. InTurn /\ ~InTurn'
      BY <3>1 DEF InTurn
    <3>4. \A nn \in Ingresses : status'[nn] = IF nn = cur THEN (IF failed THEN Error ELSE Completed)
                                             ELSE status[nn]
      BY <3>1, <3>2
    <3> QED
      BY <2>2, <3>3, <3>4
  <2> QED
    BY <1>3, <2>3, <2>4, <2>5, <2>6 DEF EngineStep, EngineNext
<1> QED
  BY <1>2, <1>3, NextRules

(* An Ingress whose canary setting has been refused is in error, or will be *)
(* when its turn is over.                                                   *)
THEOREM RefusalBookkeeping == Spec => []RefusalBook
<1>1. Init => RefusalBook
  <2>1. Init => todo = Ingresses
    BY Zenon DEF Init, EngineInit
  <2> QED
    BY <2>1 DEF RefusalBook, Over
<1>2. IInv /\ ProgressInv /\ RefusalBook /\ [Next]_vars => RefusalBook'
  BY RefusalStep
<1> QED
  BY <1>1, <1>2, Invariance, Progress, PTL DEF Spec

-----------------------------------------------------------------------------
(* The rules at the end.                                                     *)

LEMMA RulesAtEnd ==
  ASSUME IInv, ProgressInv, RulesBook, GraphBook, Done, NamesAreUnique, NEW p \in ActivePairs
  PROVE  /\ p[1] \in Ingresses
         /\ RouteOK(StoredRules(p), RootRules(p[1], p[2]), DeclaredBackends(p[1], p[2]), p[1],
                    DOMAIN Ingress(p[1]).annos)
         /\ RootRules(p[1], p[2]) \in Nat
         /\ IsList(DeclaredBackends(p[1], p[2]))
<1>1. StoredRules(p) = routes[PairId(p)].rules
  BY GraphAtEnd DEF RulesBook, StoredRules
<1>2. /\ p[1] \in Ingresses /\ PairId(p) \in OwnRoutes
      /\ PairId(p).ing = p[1] /\ PairId(p).host = p[2]
      /\ BackendsSofar(PairId(p)) = DeclaredBackends(p[1], p[2])
  BY RoutesAtEnd
<1>3. PICK id : id = PairId(p)
  OBVIOUS
<1>4. todo = {} /\ ~InTurn
  BY DEF ProgressInv, Done, InTurn
<1>5. \A i, k : Over(p[1], i, k)
  BY <1>2, <1>4 DEF Over
<1>6. RootsSofar(id) = RootRules(p[1], p[2])
  <2>1. RootPasses(id) = Passes(p[1], p[2])
    BY <1>2, <1>3, <1>5 DEF RootPasses, Passes, HostOf
  <2> QED
    BY <1>2, <1>3, <2>1 DEF RootsSofar, RootRules, RootKey
<1>7. Settled(id) = DOMAIN Ingress(p[1]).annos
  BY <1>2, <1>3, <1>5 DEF Settled, HandledFor
<1>8. RouteOK(routes[id].rules, RootsSofar(id), BackendsSofar(id), id.ing, Settled(id))
  BY <1>2, <1>3 DEF RulesBook
<1>9. RootRules(p[1], p[2]) \in Nat
  BY <1>2, <1>3, <1>6, RootsCounted
<1>10. IsList(BackendsSofar(id))
  <2>1. Position(p[1]) \in 0 .. Len(Ingress(p[1]).rules)
    BY <1>2, PositionRange DEF RulesBook
  <2> QED
    BY <1>2, <1>3, <2>1, BackendsList DEF BackendsSofar, IInv, TypeOK, ProgressOK
<1> QED
  BY <1>1, <1>2, <1>3, <1>6, <1>7, <1>8, <1>9, <1>10

LEMMA BackendAtEnd ==
  ASSUME IInv, ProgressInv, RulesBook, GraphBook, Done, NamesAreUnique,
         NEW p \in ActivePairs, NEW i \in DOMAIN DeclaredBackends(p[1], p[2])
  PROVE  BackendOK(p[1], DeclaredBackends(p[1], p[2])[i], DOMAIN Ingress(p[1]).annos, BackendRule(p, i))
<1>1. PICK roots, backends : roots = RootRules(p[1], p[2]) /\ backends = DeclaredBackends(p[1], p[2])
  OBVIOUS
<1>2. /\ RouteOK(StoredRules(p), roots, backends, p[1], DOMAIN Ingress(p[1]).annos)
      /\ IsList(backends)
  BY <1>1, RulesAtEnd
<1>3. i \in 1 .. Len(backends)
  BY <1>1, <1>2, ListDomain
<1> QED
  BY <1>1, <1>2, <1>3 DEF RouteOK, BackendRule

(* No handler loses, repeats or reorders a backend, and every redirect of   *)
(* app-root, one for each rule of its host, precedes all of them.           *)
THEOREM AppRootSafety == Spec => []BackendsBehindAppRoot
<1>1. IInv /\ ProgressInv /\ RulesBook /\ GraphBook => BackendsBehindAppRoot
  <2>1. ASSUME IInv, ProgressInv, RulesBook, GraphBook, Done, NamesAreUnique
        PROVE  /\ DOMAIN graphRoutes \ {RedirectNN} = {PairNN(p) : p \in ActivePairs}
               /\ \A p \in ActivePairs :
                    LET declared == DeclaredBackends(p[1], p[2])
                        roots    == RootRules(p[1], p[2])
                    IN  /\ Len(StoredRules(p)) = roots + Len(declared)
                        /\ \A i \in 1 .. roots : /\ StoredRules(p)[i].svc = NoService
                                                 /\ StoredRules(p)[i].path = "/"
                                                 /\ StoredRules(p)[i].redirect # NoRedirect
                        /\ \A i \in DOMAIN declared : /\ BackendRule(p, i).svc = declared[i].svc
                                                      /\ BackendRule(p, i).port = declared[i].port
    <3>1. DOMAIN graphRoutes \ {RedirectNN} = {PairNN(p) : p \in ActivePairs}
      BY <2>1, GraphAtEnd DEF RulesBook
    <3>2. ASSUME NEW p \in ActivePairs
          PROVE  LET declared == DeclaredBackends(p[1], p[2])
                     roots    == RootRules(p[1], p[2])
                 IN  /\ Len(StoredRules(p)) = roots + Len(declared)
                     /\ \A i \in 1 .. roots : /\ StoredRules(p)[i].svc = NoService
                                              /\ StoredRules(p)[i].path = "/"
                                              /\ StoredRules(p)[i].redirect # NoRedirect
                     /\ \A i \in DOMAIN declared : /\ BackendRule(p, i).svc = declared[i].svc
                                                   /\ BackendRule(p, i).port = declared[i].port
      <4>1. RouteOK(StoredRules(p), RootRules(p[1], p[2]), DeclaredBackends(p[1], p[2]), p[1],
                    DOMAIN Ingress(p[1]).annos)
        BY <2>1, RulesAtEnd
      <4>2. \A r : RootOK(r) => r.svc = NoService /\ r.path = "/" /\ r.redirect # NoRedirect
        BY DEF RootOK, NoRedirect
      <4>3. \A i \in DOMAIN DeclaredBackends(p[1], p[2]) :
              /\ BackendRule(p, i).svc = DeclaredBackends(p[1], p[2])[i].svc
              /\ BackendRule(p, i).port = DeclaredBackends(p[1], p[2])[i].port
        BY <2>1, BackendAtEnd DEF BackendOK
      <4> QED
        BY <4>1, <4>2, <4>3 DEF RouteOK
    <3> QED
      BY <3>1, <3>2
  <2> QED
    BY <2>1 DEF BackendsBehindAppRoot
<1> QED
  BY <1>1, GraphBookkeeping, RulesBookkeeping, Invariance, Progress, PTL

(* Every rule with a backend redirects as some redirect annotation of the   *)
(* Ingress says, in each part of the filter, and none does unasked.         *)
THEOREM RedirectSafety == Spec => []RedirectsAsDeclared
<1>1. ASSUME IInv, ProgressInv, RulesBook, GraphBook, Done, NamesAreUnique,
             NEW p \in ActivePairs, NEW i \in DOMAIN DeclaredBackends(p[1], p[2]),
             NEW part \in DOMAIN NoRedirect
      PROVE  LET asked == {request[part] : request \in RedirectRequests(p[1])} \ {"none"}
             IN  BackendRule(p, i).redirect[part] \in IF asked = {} THEN {"none"} ELSE asked
  <2> DEFINE asked == {request[part] : request \in RedirectRequests(p[1])} \ {"none"}
  <2>1. PICK nn, r : nn = p[1] /\ r = BackendRule(p, i)
    OBVIOUS
  <2>2. RedirectOK(nn, DOMAIN Ingress(nn).annos, r)
    BY <1>1, <2>1, BackendAtEnd DEF BackendOK
  <2>3. part \in RedirectFields
    BY DEF NoRedirect, RedirectFields
  <2>4. r.redirect[part] = "none" \/ r.redirect[part] \in asked
    BY <2>1, <2>2, <2>3 DEF RedirectOK
  <2>5. ASSUME asked # {}
        PROVE  r.redirect[part] # "none"
    <3>1. PICK q \in RedirectRequests(nn) : q[part] # "none"
      BY <2>1, <2>5
    <3>2. PICK k \in DOMAIN Ingress(nn).annos : q \in RequestsOf(nn, k)
      BY RequestsCollected
    <3> QED
      BY <2>2, <2>3, <3>1, <3>2 DEF RedirectOK
  <2> QED
    BY <2>1, <2>4, <2>5
<1>2. IInv /\ ProgressInv /\ RulesBook /\ GraphBook => RedirectsAsDeclared
  BY <1>1 DEF RedirectsAsDeclared
<1> QED
  BY <1>2, GraphBookkeeping, RulesBookkeeping, Invariance, Progress, PTL

(* rewrite-target does to every backend what the path it was declared with  *)
(* calls for, however often it has been over the rule.                      *)
THEOREM RewriteSafety == Spec => []RewritesFollowThePaths
<1>1. ASSUME IInv, ProgressInv, RulesBook, GraphBook, Done, NamesAreUnique,
             NEW p \in ActivePairs, NEW i \in DOMAIN DeclaredBackends(p[1], p[2])
      PROVE  LET declared == DeclaredBackends(p[1], p[2])[i].path
                 asked    == HasAnnotation(p[1], "rewrite-target")
                 target   == AnnotationOf(p[1], "rewrite-target")
                 regex    == declared \in RegexPaths
                 r        == BackendRule(p, i)
             IN  /\ r.path = IF asked /\ regex THEN PrefixOf(declared) ELSE declared
                 /\ r.rewrite.prefix = IF ~asked \/ (target.groups /\ ~regex) THEN "none"
                                       ELSE IF target.groups THEN target.static ELSE target.path
  <2>1. PICK nn, r, declared, target :
          /\ nn = p[1] /\ r = BackendRule(p, i) /\ declared = DeclaredBackends(p[1], p[2])[i].path
          /\ target = AnnotationOf(nn, "rewrite-target")
    OBVIOUS
  <2>2. RewriteOK(nn, declared, DOMAIN Ingress(nn).annos, r)
    BY <1>1, <2>1, BackendAtEnd DEF BackendOK
  <2>3. "rewrite-target" \in DOMAIN Ingress(nn).annos <=> HasAnnotation(nn, "rewrite-target")
    BY DEF HasAnnotation
  <2> QED
    BY <2>1, <2>2, <2>3 DEF RewriteOK
<1>2. IInv /\ ProgressInv /\ RulesBook /\ GraphBook => RewritesFollowThePaths
  BY <1>1 DEF RewritesFollowThePaths
<1> QED
  BY <1>2, GraphBookkeeping, RulesBookkeeping, Invariance, Progress, PTL

(* A canary is a canary on every backend of its routes, or its Ingress is   *)
(* in error.                                                                *)
THEOREM CanarySafety == Spec => []CanaryCoversEveryBackend
<1>1. ASSUME IInv, ProgressInv, RulesBook, GraphBook, RefusalBook, Done, NamesAreUnique,
             NEW p \in ActivePairs
      PROVE  /\ HasAnnotation(p[1], "canary-weight") =>
                  IF Refuses(p[1], "canary-weight") THEN status[p[1]] = Error
                  ELSE \A i \in DOMAIN DeclaredBackends(p[1], p[2]) :
                         BackendRule(p, i).weight = AnnotationOf(p[1], "canary-weight")
             /\ HasAnnotation(p[1], "canary-by-header") =>
                  IF Refuses(p[1], "canary-by-header") THEN status[p[1]] = Error
                  ELSE \A i \in DOMAIN DeclaredBackends(p[1], p[2]) :
                         BackendRule(p, i).headerMatches # <<>>
  <2>1. PICK nn, m : nn = p[1] /\ nn \in Ingresses /\ m \in ActiveRules(nn)
    BY DEF ActivePairs, ActiveHosts
  <2>2. todo = {} /\ ~InTurn
    BY <1>1 DEF ProgressInv, Done, InTurn
  <2>3. \A k : Over(nn, m, k)
    BY <2>1, <2>2 DEF Over
  <2>4. ASSUME NEW k, HasAnnotation(nn, k), Refuses(nn, k)
        PROVE  status[nn] = Error
    BY <1>1, <2>1, <2>2, <2>3, <2>4 DEF RefusalBook, HasAnnotation
  <2>5. \A i \in DOMAIN DeclaredBackends(p[1], p[2]) :
          CanaryOK(nn, DOMAIN Ingress(nn).annos, BackendRule(p, i))
    BY <1>1, <2>1, BackendAtEnd DEF BackendOK
  <2> QED
    BY <2>1, <2>4, <2>5 DEF CanaryOK, HasAnnotation
<1>2. ASSUME NEW nn
      PROVE  /\ Refuses(nn, "canary-weight") <=>
                  ~ValidWeight(AnnotationOf(nn, "canary-weight"), ValueOr(nn, "canary-weight-total", 100))
             /\ Refuses(nn, "canary-by-header") <=>
                  \/ AnnotationOf(nn, "canary-by-header") = Unset
                  \/ ValueOr(nn, "canary-by-header-pattern", Unset) = Invalid
  BY DEF Refuses
<1>3. IInv /\ ProgressInv /\ RulesBook /\ GraphBook /\ RefusalBook => CanaryCoversEveryBackend
  BY <1>1, <1>2 DEF CanaryCoversEveryBackend, ValueOr
<1> QED
  BY <1>3, GraphBookkeeping, RulesBookkeeping, RefusalBookkeeping, Invariance, Progress, PTL
=============================================================================
