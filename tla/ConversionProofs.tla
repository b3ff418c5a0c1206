---------------------------- MODULE ConversionProofs ----------------------------
(***************************************************************************)
(* The part of the proofs that no provider enters: for every set of        *)
(* inputs, every naming of routes and listeners and every order of the     *)
(* annotation handlers, the steps of the engine keep the invariants that   *)
(* say a Gateway is sound at every moment, and what is left to show of a   *)
(* handler of a provider for it to keep them too.                          *)
(*                                                                         *)
(* Each lemma about a step shows StepOK: the inductive invariant IInv      *)
(* holds after the step, and the step only adds to the Gateway (Grow).     *)
(* The first half gives the invariants, the second the refinement of       *)
(* GatewayContract.                                                        *)
(***************************************************************************)
EXTENDS ConversionProperties, TLAPS

(* An annotation context in shape, whose status is no milder than the worst *)
(* error or warning it has registered.                                      *)
AnnotationOK(a) ==
  /\ DOMAIN a = {"status", "issues", "dests"}
  /\ a.status \in MigrationStatus
  /\ a.issues \subseteq IssueCode
  /\ \A code \in a.issues :
       /\ IssueLibrary[code] = Error => a.status = Error
       /\ IssueLibrary[code] = Warning => a.status \in {Warning, Error}

(* The status a level stands for is a MigrationStatus, for every issue of   *)
(* the library.                                                             *)
LEMMA IssueStatus == ASSUME NEW code \in IssueCode PROVE IssueLibrary[code] \in MigrationStatus
<1>1. CASE code \in DOMAIN AGICIssues
  BY <1>1 DEF IssueLibrary, AGICIssues, MigrationStatus, NotSupported, Warning, Error
<1>2. CASE code \in DOMAIN NGINXIssues /\ code \notin DOMAIN AGICIssues
  BY <1>2 DEF IssueLibrary, NGINXIssues, MigrationStatus, NotSupported, Warning, Error
<1> QED
  BY <1>1, <1>2 DEF IssueCode, IssueLibrary

(* SetStatus never lowers an Error or a Warning, so it keeps the status as  *)
(* severe as the issues.                                                    *)
LEMMA SetStatusOK ==
  ASSUME NEW a, AnnotationOK(a), NEW s \in MigrationStatus
  PROVE  AnnotationOK(SetStatus(a, s))
<1>1. CASE a.status = Error \/ (a.status = Warning /\ s # Error)
  BY <1>1 DEF SetStatus
<1>2. CASE ~(a.status = Error \/ (a.status = Warning /\ s # Error))
  <2> DEFINE b == [a EXCEPT !.status = s]
  <2>1. SetStatus(a, s) = b
    BY <1>2 DEF SetStatus
  <2>2. DOMAIN b = {"status", "issues", "dests"} /\ b.status = s /\ b.issues = a.issues
    BY DEF AnnotationOK
  <2> QED
    BY <1>2, <2>1, <2>2 DEF AnnotationOK, Warning, Error
<1> QED
  BY <1>1, <1>2

(* RegisterIssue raises the status at least to what its own issue calls     *)
(* for.                                                                     *)
LEMMA RegisterIssueOK ==
  ASSUME NEW a, AnnotationOK(a), NEW code \in IssueCode
  PROVE  AnnotationOK(RegisterIssue(a, code))
<1> DEFINE b == [a EXCEPT !.issues = @ \union {code}]
           s == IssueLibrary[code]
<1>1. DOMAIN b = {"status", "issues", "dests"} /\ b.status = a.status
        /\ b.issues = a.issues \union {code}
  BY DEF AnnotationOK
<1>2. s \in MigrationStatus
  BY IssueStatus
<1>3. RegisterIssue(a, code) = SetStatus(b, s)
  BY DEF RegisterIssue
<1>4. CASE b.status = Error \/ (b.status = Warning /\ s # Error)
  BY <1>1, <1>3, <1>4 DEF SetStatus, AnnotationOK, Warning, Error
<1>5. CASE ~(b.status = Error \/ (b.status = Warning /\ s # Error))
  <2> DEFINE c == [b EXCEPT !.status = s]
  <2>1. RegisterIssue(a, code) = c
    BY <1>3, <1>5 DEF SetStatus
  <2>2. DOMAIN c = {"status", "issues", "dests"} /\ c.status = s
          /\ c.issues = a.issues \union {code}
    BY <1>1
  <2> QED
    BY <1>1, <1>2, <1>5, <2>1, <2>2 DEF AnnotationOK, Warning, Error
<1> QED
  BY <1>4, <1>5

(* Recording destinations marks the annotation Completed only where nothing *)
(* worse is known.                                                          *)
LEMMA AddDestinationsOK ==
  ASSUME NEW a, AnnotationOK(a), NEW set
  PROVE  AnnotationOK(AddDestinations(a, set))
<1> DEFINE b == [a EXCEPT !.dests = @ \union set]
<1>1. AnnotationOK(b)
  BY DEF AnnotationOK
<1>2. Completed \in MigrationStatus
  BY DEF MigrationStatus
<1>3. AnnotationOK(SetStatus(b, Completed))
  BY <1>1, <1>2, SetStatusOK
<1> QED
  BY <1>3 DEF AddDestinations

(* The same of the single destination of AddDestination.                    *)
LEMMA AddDestinationOK ==
  ASSUME NEW a, AnnotationOK(a), NEW resource
  PROVE  AnnotationOK(AddDestination(a, resource))
<1>1. AddDestination(a, resource) = AddDestinations(a, {resource})
  BY DEF AddDestination, AddDestinations
<1> QED
  BY <1>1, AddDestinationsOK

-----------------------------------------------------------------------------
(* The invariant in two parts, by what the steps disturb.                   *)
GraphInv == GraphOK /\ ParentsResolve /\ ForeignSecretsGranted
AnnoInv  == AnnotationsOK /\ SeverityReflectsIssues

(* The inductive invariant.                                                 *)
IInv == TypeOK /\ SeverityReflectsIssues /\ ParentsResolve /\ ForeignSecretsGranted

(* The Gateway and the references to it only grow.                          *)
Grow ==
  /\ input' = input
  /\ http => http'
  /\ \A h \in DOMAIN https : h \in DOMAIN https' /\ https[h] \subseteq https'[h]
  /\ grants \subseteq grants'
  /\ \A id \in DOMAIN routes :
       id \in DOMAIN routes' /\ SectionsOf(routes[id]) \subseteq SectionsOf(routes'[id])

(* What is shown of every step.                                             *)
StepOK ==
  /\ IInv'
  /\ Grow
  /\ \/ UNCHANGED engineVars
     \/ phase # "done" /\ phase' # "done"
     \/ phase # "done" /\ phase' = "done" /\ UNCHANGED graphVars

(* The namespace of the Gateway is fixed by the input: no handler moves it. *)
LEMMA SameNamespace ==
  ASSUME input' = input
  PROVE  GatewayNamespace' = GatewayNamespace
BY DEF GatewayNamespace, Ingresses

(* A step that leaves the graph alone keeps what the graph part of the      *)
(* invariant says.                                                          *)
LEMMA SameGraph ==
  ASSUME GraphInv, input' = input, UNCHANGED graphVars
  PROVE  GraphInv' /\ Grow
<1>1. GatewayNamespace' = GatewayNamespace
  BY SameNamespace
<1>2. GraphOK'
  BY DEF GraphInv, GraphOK, graphVars, Ingresses, RedirectId
<1>3. ParentsResolve'
  BY DEF GraphInv, ParentsResolve, ListenerNames, SectionsOf, graphVars
<1>4. ForeignSecretsGranted'
  BY <1>1 DEF GraphInv, ForeignSecretsGranted, graphVars
<1>5. Grow
  BY DEF Grow, graphVars
<1> QED
  BY <1>2, <1>3, <1>4, <1>5 DEF GraphInv

(* While a handler may run, the annotation it is given exists and is well   *)
(* formed.                                                                  *)
LEMMA CurrentAnnotation ==
  ASSUME IInv, NEW k, Take(k)
  PROVE  /\ cur \in Ingresses
         /\ k \in DOMAIN anno[cur]
         /\ AnnotationOK(Anno(k))
<1>1. cur \in Ingresses /\ k \in DOMAIN Ingress(cur).annos
  BY DEF IInv, TypeOK, ProgressOK, Take, This
<1>2. k \in DOMAIN anno[cur]
  BY <1>1 DEF IInv, TypeOK, AnnotationsOK
<1> QED
  BY <1>1, <1>2 DEF IInv, TypeOK, AnnotationsOK, SeverityReflectsIssues, AnnotationOK, Anno

(* A handler that leaves its own annotation in order leaves all of them in  *)
(* order: it touches no other.                                              *)
LEMMA FinishAnnotations ==
  ASSUME IInv, NEW k, NEW a, NEW err \in BOOLEAN,
         Take(k), Finish(k, a, err), AnnotationOK(a)
  PROVE  AnnoInv'
<1>1. cur \in Ingresses /\ k \in DOMAIN anno[cur] /\ Ingresses' = Ingresses
  BY CurrentAnnotation DEF Finish, progressVars, Ingresses
<1>2. anno' = [anno EXCEPT ![cur][k] = a]
  BY DEF Finish
<1>3. DOMAIN anno' = Ingresses
  BY <1>2 DEF IInv, TypeOK, AnnotationsOK
<1>4. ASSUME NEW nn \in Ingresses
      PROVE  /\ DOMAIN anno'[nn] = DOMAIN anno[nn]
             /\ \A j \in DOMAIN anno[nn] :
                  anno'[nn][j] = IF nn = cur /\ j = k THEN a ELSE anno[nn][j]
  BY <1>1, <1>2 DEF IInv, TypeOK, AnnotationsOK
<1>5. ASSUME NEW nn \in Ingresses, NEW j \in DOMAIN anno[nn]
      PROVE  AnnotationOK(anno'[nn][j])
  <2>1. AnnotationOK(anno[nn][j])
    BY DEF IInv, TypeOK, AnnotationsOK, SeverityReflectsIssues, AnnotationOK
  <2> QED
    BY <1>4, <2>1
<1>6. AnnotationsOK'
  <2>1. \A nn \in Ingresses : (Ingress(nn))' = Ingress(nn)
    BY DEF Ingress, Finish, progressVars
  <2> QED
    BY <1>1, <1>3, <1>4, <1>5, <2>1 DEF AnnotationsOK, AnnotationOK, IInv, TypeOK
<1>7. SeverityReflectsIssues'
  BY <1>3, <1>4, <1>5 DEF SeverityReflectsIssues, AnnotationOK
<1> QED
  BY <1>6, <1>7 DEF AnnoInv

(* What is left to show of a handler: its own annotation, the graph, and    *)
(* that the graph only grew.                                                *)
LEMMA HandlerStep ==
  ASSUME IInv, NEW k, NEW a, NEW err \in BOOLEAN,
         Take(k), Finish(k, a, err), AnnotationOK(a), GraphInv', Grow
  PROVE  StepOK
<1>1. AnnoInv'
  BY FinishAnnotations
<1>2. ProgressOK'
  BY DEF IInv, TypeOK, ProgressOK, Finish, progressVars, Grow, Ingresses, Ingress,
         This, ThisRouteId, RouteId
<1>3. phase # "done" /\ phase' # "done"
  BY DEF Take, Finish, progressVars
<1> QED
  BY <1>1, <1>2, <1>3 DEF StepOK, IInv, TypeOK, GraphInv, AnnoInv

(* For a handler that attaches policies only, its own annotation is all.    *)
LEMMA QuietHandlerStep ==
  ASSUME IInv, NEW k, NEW a, NEW err \in BOOLEAN,
         Take(k), Finish(k, a, err), AnnotationOK(a), UNCHANGED graphVars
  PROVE  StepOK
<1>1. GraphInv /\ input' = input
  BY DEF IInv, TypeOK, GraphInv, Finish, progressVars
<1>2. GraphInv' /\ Grow
  BY <1>1, SameGraph
<1> QED
  BY <1>2, HandlerStep

(* The codes of the issue library, listed.                                  *)
LEMMA IssueCodes ==
  IssueCode = { "UnsupportBackendProtocol", "CreatingBackendTLSPolicy",
                "TrustedRootCertificates", "InvalidAnnotationValue",
                "HealthCheckConflict", "CouldNotFindRewrite",
                "RewriteRuleSequence", "RewriteConditions",
                "RewriteReroute", "FrontendTLSPolicyProfileConflict",
                "FrontendTLSPolicyCipherWarning",
                "NoHTTPSListenersForSSLProfile",
                "UnsupportedAnnotationGeneric",
                "WAFPotentialIncompatibility",
                "NGINXAuthTLSNotFullySupported",
                "NGINXAffinityTypeNotSupported",
                "NGINXAffinityModeNotSupported",
                "NGINXAffinityCanaryBehaviorNotSupported",
                "NGINXUseRegexLimitedSupport",
                "NGINXConfigurationSnippetNotSupported",
                "NGINXServerSnippetNotSupported",
                "NGINXModSecurityConversion", "NGINXSSLPolicyConversion",
                "NGINXDefaultBackendNotSupported",
                "NGINXProxySettingsPartialSupport",
                "NGINXLoadBalanceNotSupported", "NGINXRedirectURLInvalid",
                "NGINXRedirectCodeInvalid", "NGINXFromToWWWRedirectNoHost",
                "NGINXFromToWWWRedirectPartial",
                "NGINXCanaryWeightRequiresManualMerge",
                "NGINXCanaryHeaderApproximated",
                "NGINXCanaryByCookieNotSupported",
                "NGINXModSecurityTransactionID",
                "NGINXRewriteTargetCaptureGroups",
                "GRPCNotSupportedByTool" }
BY DEF IssueCode, IssueLibrary, AGICIssues, NGINXIssues

(* The handlers of the engine: the ignored last-applied annotation and      *)
(* annotations without a handler.                                           *)
LEMMA EngineHandlersStep ==
  ASSUME IInv,
         \/ handleIgnoredAnnotation
         \/ \E k \in pending : UnsupportedAnnotation(k)
  PROVE  StepOK
<1>1. CASE handleIgnoredAnnotation
  <2> DEFINE k == LastApplied
             a == SetStatus(Anno(k), Ignored)
  <2>1. Take(k) /\ Finish(k, a, FALSE) /\ UNCHANGED graphVars
    BY <1>1 DEF handleIgnoredAnnotation
  <2>2. AnnotationOK(a)
    BY <2>1, CurrentAnnotation, SetStatusOK DEF MigrationStatus
  <2> HIDE DEF k, a
  <2> QED
    BY <2>1, <2>2, QuietHandlerStep
<1>2. ASSUME NEW k \in pending, UnsupportedAnnotation(k)
      PROVE  StepOK
  <2> DEFINE a == RegisterIssue(Anno(k), "UnsupportedAnnotationGeneric")
  <2>1. Take(k) /\ Finish(k, a, FALSE) /\ UNCHANGED graphVars
    BY <1>2 DEF UnsupportedAnnotation
  <2>2. AnnotationOK(a)
    BY <2>1, CurrentAnnotation, RegisterIssueOK, IssueCodes
  <2> HIDE DEF a
  <2> QED
    BY <2>1, <2>2, QuietHandlerStep
<1> QED
  BY <1>1, <1>2

-----------------------------------------------------------------------------
(* Steps that change routes and listeners.                                  *)

(* Replacing the rules of the current route disturbs nothing else of the    *)
(* graph.                                                                   *)
LEMMA RulesRewritten ==
  ASSUME IInv, phase = "annotations", input' = input, NEW rules,
         routes' = [routes EXCEPT ![ThisRouteId].rules = rules],
         UNCHANGED <<graphRoutes, http, https, grants, redirect>>
  PROVE  GraphInv' /\ Grow
<1>1. ThisRouteId \in DOMAIN routes /\ DOMAIN routes[ThisRouteId] = HTTPRouteFields
  BY DEF IInv, TypeOK, ProgressOK, GraphOK
<1>2. /\ DOMAIN routes' = DOMAIN routes
      /\ \A id \in DOMAIN routes : /\ DOMAIN routes'[id] = HTTPRouteFields
                                   /\ routes'[id].parents = routes[id].parents
  BY <1>1 DEF IInv, TypeOK, GraphOK, HTTPRouteFields
<1>3. GatewayNamespace' = GatewayNamespace
  BY SameNamespace
<1>4. GraphOK'
  BY <1>2, <1>3 DEF IInv, TypeOK, GraphOK, HTTPRouteFields, Ingresses, RedirectId
<1>5. ParentsResolve'
  BY <1>2 DEF IInv, ParentsResolve, SectionsOf, ListenerNames
<1>6. ForeignSecretsGranted'
  BY <1>3 DEF IInv, ForeignSecretsGranted
<1>7. Grow
  BY <1>2 DEF Grow, SectionsOf
<1> QED
  BY <1>4, <1>5, <1>6, <1>7 DEF GraphInv

(* EnsureHTTPSListener opens the listeners, adds the secrets and gives the  *)
(* grants the secrets need, and takes nothing away.                         *)
LEMMA ListenersEnsured ==
  ASSUME IInv, input' = input, NEW binding,
         https' = EnsureHTTPSListeners(binding), grants' = GrantsFor(binding)
  PROVE  /\ ForeignSecretsGranted'
         /\ DOMAIN https' = DOMAIN https \union DOMAIN binding
         /\ \A h \in DOMAIN https' : https'[h] # {}
         /\ \A h \in DOMAIN https : https[h] \subseteq https'[h]
         /\ grants \subseteq grants'
<1>1. GatewayNamespace' = GatewayNamespace
  BY SameNamespace
<1>2. grants \subseteq grants'
  BY DEF GrantsFor
<1>3. \A h \in DOMAIN binding : binding[h].ns \in grants' \union {GatewayNamespace}
  BY DEF GrantsFor
<1>4. DOMAIN https' = DOMAIN https \union DOMAIN binding
  BY DEF EnsureHTTPSListeners
<1>5. ASSUME NEW h \in DOMAIN https'
      PROVE  https'[h] = (IF h \in DOMAIN https THEN https[h] ELSE {})
                           \union (IF h \in DOMAIN binding THEN {binding[h]} ELSE {})
  BY <1>4 DEF EnsureHTTPSListeners
<1>6. ForeignSecretsGranted'
  BY <1>1, <1>2, <1>3, <1>5 DEF IInv, ForeignSecretsGranted
<1>7. \A h \in DOMAIN https' : https'[h] # {}
  BY <1>4, <1>5 DEF IInv, TypeOK, GraphOK
<1> QED
  BY <1>2, <1>4, <1>5, <1>6, <1>7

(* Before the first redirect no route has the identity of the redirect      *)
(* route, for no Ingress is nameless.                                       *)
LEMMA RedirectIsNew ==
  ASSUME IInv, ~redirect
  PROVE  RedirectId \notin DOMAIN routes
<1>1. NoIngress \notin Ingresses
  BY InputsAssumption DEF IInv, TypeOK, ProgressOK, Ingresses, NoIngress
<1>2. RedirectId.ing = NoIngress
  BY DEF RedirectId, RouteId
<1> QED
  BY <1>1, <1>2 DEF IInv, TypeOK, GraphOK

(* The redirect route hangs on the HTTP listener that is ensured in the     *)
(* same step, and every other route stays.                                  *)
LEMMA RedirectStep ==
  ASSUME IInv, NEW k, NEW a, NEW err \in BOOLEAN,
         Take(k), Finish(k, a, err), AnnotationOK(a),
         ~redirect, redirect' = TRUE, http' = TRUE,
         routes' = InsertAt(routes, RedirectId, RedirectRoute),
         graphRoutes' = InsertAt(graphRoutes, RedirectNN, RedirectId),
         UNCHANGED <<https, grants>>
  PROVE  StepOK
<1>1. input' = input /\ GatewayNamespace' = GatewayNamespace
  BY SameNamespace DEF Finish, progressVars
<1>2. /\ DOMAIN routes' = DOMAIN routes \union {RedirectId}
      /\ routes'[RedirectId] = RedirectRoute
      /\ \A id \in DOMAIN routes : routes'[id] = routes[id]
  <2>1. RedirectId \notin DOMAIN routes
    BY RedirectIsNew
  <2> QED
    BY <2>1 DEF InsertAt
<1>3. DOMAIN RedirectRoute = HTTPRouteFields
        /\ SectionsOf(RedirectRoute) = {HTTPListenerName}
  BY DEF RedirectRoute, HTTPRouteFields, SectionsOf, BagToSet, SetToBag
<1>4. RedirectId' = RedirectId
  BY DEF RedirectId
<1>5. GraphOK'
  <2>1. \A nn \in DOMAIN graphRoutes' : graphRoutes'[nn] \in DOMAIN routes'
    BY <1>2 DEF InsertAt, IInv, TypeOK, GraphOK
  <2>2. \A id \in DOMAIN routes' :
          /\ DOMAIN routes'[id] = HTTPRouteFields
          /\ id.ing \in Ingresses' \/ (redirect' /\ id = RedirectId)
    BY <1>1, <1>2, <1>3 DEF IInv, TypeOK, GraphOK, Ingresses
  <2> QED
    BY <1>4, <2>1, <2>2 DEF IInv, TypeOK, GraphOK, HTTPRouteFields
<1>6. ParentsResolve'
  BY <1>2, <1>3 DEF IInv, ParentsResolve, SectionsOf, ListenerNames
<1>7. ForeignSecretsGranted'
  BY <1>1 DEF IInv, ForeignSecretsGranted
<1>8. Grow
  BY <1>1, <1>2 DEF Grow, SectionsOf
<1> QED
  BY <1>5, <1>6, <1>7, <1>8, HandlerStep DEF GraphInv

-----------------------------------------------------------------------------
(* The steps of the engine.                                                  *)

(* A step that touches no annotation keeps what the invariant says of them. *)
LEMMA SameAnnotations ==
  ASSUME IInv, UNCHANGED <<input, anno>>
  PROVE  AnnoInv'
BY DEF IInv, TypeOK, AnnoInv, AnnotationsOK, SeverityReflectsIssues, Ingresses, Ingress

(* The bookkeeping of Convert stays in order in every step that does not    *)
(* start to handle annotations.                                             *)
LEMMA ProgressKept ==
  ASSUME IInv, input' = input, phase' \in {"ingresses", "rules", "done"},
         todo' \subseteq todo, phase' = "rules" => cur' \in Ingresses,
         rule' \in Nat \ {0}, failed' \in BOOLEAN, DOMAIN status' = Ingresses,
         \A nn \in Ingresses : status'[nn] \in {NotStarted, Completed, Error}
  PROVE  ProgressOK'
<1>1. Ingresses' = Ingresses
  BY DEF Ingresses
<1>2. phase' # "annotations"
  OBVIOUS
<1> QED
  BY <1>1, <1>2 DEF IInv, TypeOK, ProgressOK

(* The part of Convert before its loop.                                     *)
LEMMA SetupStep ==
  ASSUME IInv, Setup
  PROVE  StepOK
<1>1. ProgressOK'
  BY ProgressKept DEF Setup, IInv, TypeOK, ProgressOK
<1>2. AnnoInv'
  BY SameAnnotations DEF Setup
<1>3. GraphInv' /\ Grow
  BY SameGraph DEF Setup, IInv, TypeOK, GraphInv
<1> QED
  BY <1>1, <1>2, <1>3 DEF Setup, StepOK, IInv, TypeOK, GraphInv, AnnoInv

(* Starting an Ingress only adds ReferenceGrants.                           *)
LEMMA BeginIngressStep ==
  ASSUME IInv, NEW nn \in todo, BeginIngress(nn)
  PROVE  StepOK
<1>1. input' = input /\ GatewayNamespace' = GatewayNamespace
  BY SameNamespace DEF BeginIngress
<1>2. UNCHANGED <<routes, graphRoutes, http, https, redirect>> /\ grants \subseteq grants'
  BY DEF BeginIngress
<1>3. ProgressOK'
  <2>1. /\ phase' = "rules" /\ cur' = nn /\ todo' \subseteq todo
        /\ rule' = 1 /\ failed' = FALSE /\ status' = status
    BY Zenon DEF BeginIngress
  <2>2. /\ nn \in Ingresses /\ DOMAIN status = Ingresses
        /\ \A m \in Ingresses : status[m] \in {NotStarted, Completed, Error}
    BY DEF IInv, TypeOK, ProgressOK
  <2>3. phase' \in {"ingresses", "rules", "done"} /\ cur' \in Ingresses
    BY <2>1, <2>2
  <2>4. rule' \in Nat \ {0}
    BY <2>1
  <2>5. failed' \in BOOLEAN
    BY <2>1, Zenon
  <2>6. /\ DOMAIN status' = Ingresses
        /\ \A m \in Ingresses : status'[m] \in {NotStarted, Completed, Error}
    BY <2>1, <2>2
  <2> QED
    BY <1>1, <2>1, <2>3, <2>4, <2>5, <2>6, ProgressKept
<1>4. AnnoInv'
  BY SameAnnotations DEF BeginIngress
<1>5. GraphOK' /\ ParentsResolve'
  BY <1>1, <1>2 DEF IInv, TypeOK, GraphOK, ParentsResolve, SectionsOf, ListenerNames,
                    Ingresses, RedirectId
<1>6. ForeignSecretsGranted'
  BY <1>1, <1>2 DEF IInv, ForeignSecretsGranted
<1>7. Grow
  BY <1>1, <1>2 DEF Grow, SectionsOf
<1>8. phase # "done" /\ phase' # "done"
  BY DEF BeginIngress
<1> QED
  BY <1>3, <1>4, <1>5, <1>6, <1>7, <1>8 DEF StepOK, IInv, TypeOK, AnnoInv

(* What EndRule stores in the graph is the route BeginRule has allocated.   *)
LEMMA EndRuleStep ==
  ASSUME IInv, EndRule
  PROVE  StepOK
<1>1. input' = input /\ GatewayNamespace' = GatewayNamespace
  BY SameNamespace DEF EndRule
<1>2. UNCHANGED <<routes, http, https, grants, redirect>>
  BY DEF EndRule
<1>3. ThisRouteId \in DOMAIN routes
  BY DEF EndRule, IInv, TypeOK, ProgressOK
<1>4. \A nn \in DOMAIN graphRoutes' : graphRoutes'[nn] \in DOMAIN routes
  BY <1>3 DEF EndRule, InsertAt, IInv, TypeOK, GraphOK
<1>5. ProgressOK'
  BY <1>1, ProgressKept DEF EndRule, IInv, TypeOK, ProgressOK
<1>6. AnnoInv'
  BY SameAnnotations DEF EndRule
<1>7. GraphOK' /\ ParentsResolve' /\ ForeignSecretsGranted'
  BY <1>1, <1>2, <1>4 DEF IInv, TypeOK, GraphOK, ParentsResolve, SectionsOf, ListenerNames,
                          Ingresses, RedirectId, ForeignSecretsGranted
<1>8. Grow
  BY <1>1, <1>2 DEF Grow, SectionsOf
<1>9. phase # "done" /\ phase' # "done"
  BY DEF EndRule
<1> QED
  BY <1>5, <1>6, <1>7, <1>8, <1>9 DEF StepOK, IInv, TypeOK, AnnoInv

(* MigrationComplete touches the status of the Ingress only.                *)
LEMMA EndIngressStep ==
  ASSUME IInv, EndIngress
  PROVE  StepOK
<1>1. ProgressOK'
  BY ProgressKept DEF EndIngress, IInv, TypeOK, ProgressOK
<1>2. AnnoInv'
  BY SameAnnotations DEF EndIngress
<1>3. GraphInv' /\ Grow
  BY SameGraph DEF EndIngress, IInv, TypeOK, GraphInv
<1> QED
  BY <1>1, <1>2, <1>3 DEF EndIngress, StepOK, IInv, TypeOK, GraphInv, AnnoInv

(* Building the Gateway seals the graph as it is.                           *)
LEMMA BuildStep ==
  ASSUME IInv, Build
  PROVE  StepOK
<1>1. ProgressOK'
  BY ProgressKept DEF Build, IInv, TypeOK, ProgressOK
<1>2. AnnoInv'
  BY SameAnnotations DEF Build
<1>3. GraphInv' /\ Grow
  BY SameGraph DEF Build, IInv, TypeOK, GraphInv
<1> QED
  BY <1>1, <1>2, <1>3 DEF Build, StepOK, IInv, TypeOK, GraphInv, AnnoInv

(* The sections a fresh route refers to: the HTTP listener or that of its   *)
(* host.                                                                    *)
LEMMA InitialRouteOK ==
  ASSUME NEW host
  PROVE  /\ DOMAIN InitialRoute(host) = HTTPRouteFields
         /\ SectionsOf(InitialRoute(host)) =
              IF This.tls = <<>> THEN {HTTPListenerName}
              ELSE {ListenerName(h) : h \in DOMAIN TLSBinding(cur, host)}
BY DEF InitialRoute, HTTPRouteFields, SectionsOf, BagToSet, SetToBag

(* The listeners a route refers to are open when it is created, and when it *)
(* is found again they still are.                                           *)
LEMMA BeginRuleStep ==
  ASSUME IInv, BeginRule
  PROVE  StepOK
<1> DEFINE r       == This.rules[rule]
           id      == RouteId(cur, r.host)
           isNew   == id \notin DOMAIN routes
           binding == IF isNew THEN TLSBinding(cur, r.host) ELSE NoBinding
           route   == IF isNew THEN InitialRoute(r.host) ELSE routes[id]
           grown   == [route EXCEPT !.rules = @ \o RulesOf(r.paths)]
<1>1. /\ phase = "rules" /\ rule \in DOMAIN This.rules
      /\ http' = (http \/ (isNew /\ This.tls = <<>>))
      /\ https' = EnsureHTTPSListeners(binding) /\ grants' = GrantsFor(binding)
      /\ \/ /\ routes' = InsertAt(routes, id, route)
            /\ rule' = rule + 1
            /\ phase' = "rules"
         \/ /\ routes' = InsertAt(routes, id, grown)
            /\ pending' = DOMAIN This.annos
            /\ phase' = "annotations"
            /\ rule' = rule
      /\ UNCHANGED <<input, todo, cur, failed, graphRoutes, redirect, anno, status>>
  BY ZenonT(60) DEF BeginRule
<1>2. /\ id = RouteId(cur, This.rules[rule].host)
      /\ isNew => route = InitialRoute(r.host) /\ binding = TLSBinding(cur, r.host)
      /\ ~isNew => id \in DOMAIN routes /\ route = routes[id]
      /\ id \in DOMAIN routes => route = routes[id]
  BY Zenon
<1>3. id.ing = cur
  BY DEF RouteId
<1>4. grown = [route EXCEPT !.rules = @ \o RulesOf(r.paths)]
  OBVIOUS
<1> HIDE DEF r, id, isNew, binding, route, grown
<1>5. cur \in Ingresses /\ GatewayNamespace' = GatewayNamespace
  BY <1>1, SameNamespace DEF IInv, TypeOK, ProgressOK
<1>6. /\ ForeignSecretsGranted'
      /\ DOMAIN https' = DOMAIN https \union DOMAIN binding
      /\ \A h \in DOMAIN https' : https'[h] # {}
      /\ \A h \in DOMAIN https : https[h] \subseteq https'[h]
      /\ grants \subseteq grants'
  BY <1>1, ListenersEnsured
<1>7. ListenerNames \subseteq ListenerNames'
  BY <1>1, <1>6 DEF ListenerNames
<1>8. DOMAIN route = HTTPRouteFields /\ SectionsOf(route) \subseteq ListenerNames'
  <2>1. CASE isNew
    <3>1. This.tls = <<>> => http'
      BY <1>1, <2>1
    <3>2. SectionsOf(route) = IF This.tls = <<>> THEN {HTTPListenerName}
                              ELSE {ListenerName(h) : h \in DOMAIN binding}
      BY <1>2, <2>1, InitialRouteOK
    <3>3. SectionsOf(route) \subseteq ListenerNames'
      BY <1>6, <3>1, <3>2 DEF ListenerNames
    <3> QED
      BY <1>2, <2>1, <3>3, InitialRouteOK
  <2>2. CASE ~isNew
    BY <1>2, <1>7, <2>2 DEF IInv, TypeOK, GraphOK, ParentsResolve
  <2> QED
    BY <2>1, <2>2
<1>9. DOMAIN grown = HTTPRouteFields /\ grown.parents = route.parents
  BY <1>4, <1>8 DEF HTTPRouteFields
<1>10. PICK stored : /\ routes' = InsertAt(routes, id, stored)
                     /\ DOMAIN stored = HTTPRouteFields
                     /\ stored.parents = route.parents
  BY <1>1, <1>8, <1>9
<1>11. /\ DOMAIN routes' = DOMAIN routes \union {id}
       /\ routes'[id] = stored
       /\ \A x \in DOMAIN routes : x # id => routes'[x] = routes[x]
  BY <1>10 DEF InsertAt
<1>12. ProgressOK'
  <2>1. CASE phase' = "rules"
    <3>1. rule' \in Nat \ {0}
      BY <1>1, <2>1 DEF IInv, TypeOK, ProgressOK
    <3>2. /\ failed' \in BOOLEAN /\ todo' \subseteq todo /\ DOMAIN status' = Ingresses
          /\ \A nn \in Ingresses : status'[nn] \in {NotStarted, Completed, Error}
      BY <1>1 DEF IInv, TypeOK, ProgressOK
    <3> QED
      BY <1>1, <1>5, <2>1, <3>1, <3>2, ProgressKept
  <2>2. CASE phase' = "annotations"
    <3>1. /\ Ingresses' = Ingresses /\ This' = This /\ rule' = rule
          /\ pending' = DOMAIN This.annos
      BY <1>1, <2>2 DEF Ingresses, This, Ingress
    <3>2. ThisRouteId' = RouteId(cur', This'.rules[rule'].host)
      BY DEF ThisRouteId, RouteId
    <3>3. ThisRouteId' \in DOMAIN routes'
      BY <1>1, <1>2, <1>11, <3>1, <3>2 DEF RouteId
    <3>4. pending' \subseteq DOMAIN This'.annos /\ rule' \in DOMAIN This'.rules
      BY <1>1, <3>1
    <3>5. /\ input' \in Inputs /\ todo' \subseteq Ingresses' /\ cur' \in Ingresses'
          /\ rule' \in Nat \ {0} /\ failed' \in BOOLEAN /\ DOMAIN status' = Ingresses'
          /\ \A nn \in Ingresses' : status'[nn] \in {NotStarted, Completed, Error}
      BY <1>1, <1>5, <3>1 DEF IInv, TypeOK, ProgressOK
    <3> QED
      BY <2>2, <3>3, <3>4, <3>5 DEF ProgressOK
  <2> QED
    BY <1>1, <2>1, <2>2
<1>13. AnnoInv'
  BY <1>1, SameAnnotations
<1>14. GraphOK'
  <2>1. \A x \in DOMAIN routes' : DOMAIN routes'[x] = HTTPRouteFields
    BY <1>10, <1>11 DEF IInv, TypeOK, GraphOK
  <2>2. \A x \in DOMAIN routes' : x.ing \in Ingresses \/ (redirect /\ x = RedirectId)
    BY <1>3, <1>5, <1>11 DEF IInv, TypeOK, GraphOK
  <2>3. UNCHANGED <<Ingresses, redirect, RedirectId, HTTPRouteFields, graphRoutes>>
    BY <1>1 DEF Ingresses, RedirectId, HTTPRouteFields
  <2>4. http' \in BOOLEAN
    BY <1>1 DEF IInv, TypeOK, GraphOK
  <2> QED
    BY <1>6, <1>11, <2>1, <2>2, <2>3, <2>4 DEF IInv, TypeOK, GraphOK
<1>15. ParentsResolve'
  BY <1>7, <1>8, <1>10, <1>11 DEF IInv, ParentsResolve, SectionsOf
<1>16. Grow
  BY <1>1, <1>2, <1>6, <1>10, <1>11 DEF Grow, SectionsOf
<1>17. phase # "done" /\ phase' # "done"
  BY <1>1
<1> QED
  BY <1>6, <1>12, <1>13, <1>14, <1>15, <1>16, <1>17 DEF StepOK, IInv, TypeOK, AnnoInv

(* Every step of the engine keeps the invariant and only adds to the        *)
(* Gateway.                                                                 *)
LEMMA EngineNextStep ==
  ASSUME IInv, EngineNext
  PROVE  StepOK
BY SetupStep, BeginIngressStep, BeginRuleStep, EndRuleStep, EndIngressStep,
   BuildStep, EngineHandlersStep DEF EngineNext

(* The invariant holds of the empty graph.                                  *)
LEMMA InitInv ==
  ASSUME Init
  PROVE  IInv
<1>1. /\ DOMAIN routes = {} /\ DOMAIN graphRoutes = {} /\ DOMAIN https = {}
      /\ http = FALSE /\ redirect = FALSE
  BY DEF Init, EngineInit
<1>2. GraphOK /\ ParentsResolve /\ ForeignSecretsGranted
  BY <1>1, Zenon DEF GraphOK, ParentsResolve, ForeignSecretsGranted
<1>3. ProgressOK
  <2>1. /\ input \in Inputs /\ phase = "setup" /\ todo = Ingresses /\ rule = 1
        /\ failed = FALSE /\ status = [nn \in Ingresses |-> NotStarted]
    BY Zenon DEF Init, EngineInit
  <2>2. failed \in BOOLEAN
    BY <2>1, Zenon
  <2>3. rule \in Nat \ {0}
    BY <2>1
  <2> QED
    BY <2>1, <2>2, <2>3 DEF ProgressOK
<1>4. AnnotationsOK /\ SeverityReflectsIssues
  <2>1. /\ anno = [nn \in Ingresses |->
                    [k \in DOMAIN Ingress(nn).annos |-> NewAnnotationContext]]
    BY DEF Init, EngineInit
  <2>2. /\ DOMAIN NewAnnotationContext = {"status", "issues", "dests"}
        /\ NewAnnotationContext.status \in MigrationStatus
        /\ NewAnnotationContext.issues = {}
    BY DEF NewAnnotationContext, MigrationStatus
  <2> HIDE DEF NewAnnotationContext
  <2> QED
    BY <2>1, <2>2 DEF AnnotationsOK, SeverityReflectsIssues
<1> QED
  BY <1>2, <1>3, <1>4 DEF IInv, TypeOK

(* It survives a stutter.                                                   *)
LEMMA StutterStep ==
  ASSUME IInv, UNCHANGED engineVars
  PROVE  StepOK
<1>1. UNCHANGED <<input, phase, todo, cur, rule, pending, failed, status, anno>>
        /\ UNCHANGED graphVars
  BY DEF engineVars, progressVars
<1>2. ProgressOK'
  BY <1>1 DEF IInv, TypeOK, ProgressOK, Ingresses, Ingress, This, ThisRouteId, RouteId, graphVars
<1>3. AnnoInv'
  BY <1>1, SameAnnotations
<1>4. GraphInv' /\ Grow
  BY <1>1, SameGraph DEF IInv, TypeOK, GraphInv
<1> QED
  BY <1>2, <1>3, <1>4 DEF StepOK, IInv, TypeOK, GraphInv, AnnoInv

-----------------------------------------------------------------------------
(* The refinement.                                                           *)

(* The contract's refs.                                                     *)
Refs == UNION {SectionsOf(routes[id]) : id \in DOMAIN routes}

(* The conversion starts where the contract starts.                         *)
LEMMA ContractInit ==
  ASSUME Init
  PROVE  Contract!Init
<1>1. /\ DOMAIN routes = {} /\ DOMAIN https = {} /\ http = FALSE /\ grants = {}
      /\ phase # "done"
  BY DEF Init, EngineInit
<1>2. Refs = {}
  BY <1>1 DEF Refs
<1> QED
  BY <1>1, <1>2 DEF Contract!Init, Refs, Done

(* Every step is a step of the contract or leaves the Gateway as it is.     *)
LEMMA ContractStep ==
  ASSUME IInv, StepOK
  PROVE  [Contract!Extend \/ Contract!Seal]_(Contract!gatewayVars)
<1>1. GatewayNamespace' = GatewayNamespace
  BY SameNamespace DEF StepOK, Grow
<1>2. CASE UNCHANGED engineVars
  <2>1. UNCHANGED <<routes, http, https, grants, phase>>
    BY <1>2 DEF engineVars, progressVars, graphVars
  <2> QED
    BY <1>1, <2>1 DEF Contract!gatewayVars, SectionsOf, Done
<1>3. CASE phase # "done" /\ phase' # "done"
  <2>1. Refs \subseteq Refs' /\ Refs' \subseteq ListenerNames'
    BY DEF StepOK, Grow, Refs, IInv, ParentsResolve
  <2>2. Contract!Extend
    BY <1>1, <1>3, <2>1
       DEF Contract!Extend, Contract!ListenersGrow, Contract!CertificatesGranted,
           Contract!Sections, StepOK, Grow, Refs, IInv, ForeignSecretsGranted,
           ListenerNames, Done
  <2> QED
    BY <2>2
<1>4. CASE phase # "done" /\ phase' = "done" /\ UNCHANGED graphVars
  BY <1>1, <1>4 DEF Contract!Seal, Done, graphVars, SectionsOf
<1> QED
  BY <1>2, <1>3, <1>4 DEF StepOK
=============================================================================
