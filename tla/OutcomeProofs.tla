----------------------------- MODULE OutcomeProofs -----------------------------
(***************************************************************************)
(* The part, common to both providers, of the proofs about what a          *)
(* conversion tells its user: that the resources the report names exist,   *)
(* that no resource is left out of it, that every annotation with an       *)
(* outcome is in one section, and that an Ingress with a rejected setting  *)
(* is not Completed.                                                       *)
(*                                                                         *)
(* A handler is seen here as what it adds to its own annotation: the       *)
(* issues, and the resources it stores in the graph in the same step.      *)
(***************************************************************************)
EXTENDS Reporting, ConversionProofs, FiniteSetTheorems

(* The statuses with a section in the report.                               *)
Reportable == {Completed, Warning, Error, NotSupported}

(* An annotation context in order that shows up in the report if anything   *)
(* has come of it.                                                          *)
Accounted(a) ==
  /\ AnnotationOK(a)
  /\ a.issues # {} \/ a.dests # {} => a.status \in Reportable

(* b is a with these issues and destinations added, and still in order.     *)
Outcome(a, b, issues, dests) ==
  /\ Accounted(b)
  /\ b.issues = a.issues \union issues
  /\ b.dests = a.dests \union dests

(* A status with a section leaves issues and destinations as they are, and  *)
(* visible.                                                                 *)
LEMMA SetStatusOutcome ==
  ASSUME NEW a, Accounted(a), NEW s \in Reportable
  PROVE  Outcome(a, SetStatus(a, s), {}, {})
<1>1. s \in MigrationStatus
  BY DEF Reportable, MigrationStatus
<1>2. AnnotationOK(SetStatus(a, s))
  BY <1>1, SetStatusOK DEF Accounted
<1>3. CASE a.status = Error \/ (a.status = Warning /\ s # Error)
  BY <1>3 DEF SetStatus, Outcome
<1>4. CASE ~(a.status = Error \/ (a.status = Warning /\ s # Error))
  <2> DEFINE b == [a EXCEPT !.status = s]
  <2>1. b.issues = a.issues /\ b.dests = a.dests /\ b.status = s
    BY DEF Accounted, AnnotationOK
  <2>2. SetStatus(a, s) = b
    BY <1>4 DEF SetStatus
  <2> QED
    BY <1>2, <2>1, <2>2 DEF Outcome, Accounted
<1> QED
  BY <1>3, <1>4

(* A handler that ignores its annotation has never done anything else.      *)
LEMMA IgnoredOutcome ==
  ASSUME NEW a, Accounted(a), a.issues = {}, a.dests = {}
  PROVE  Outcome(a, SetStatus(a, Ignored), {}, {})
<1>1. AnnotationOK(SetStatus(a, Ignored))
  BY SetStatusOK DEF Accounted, MigrationStatus
<1>2. SetStatus(a, Ignored).issues = {} /\ SetStatus(a, Ignored).dests = {}
  BY DEF SetStatus, Accounted, AnnotationOK
<1> QED
  BY <1>1, <1>2 DEF Outcome, Accounted

(* An issue always makes its annotation visible: no issue has a level that  *)
(* stands for no section.                                                   *)
LEMMA RegisterIssueOutcome ==
  ASSUME NEW a, Accounted(a), NEW code \in IssueCode
  PROVE  Outcome(a, RegisterIssue(a, code), {code}, {})
<1> DEFINE b == [a EXCEPT !.issues = @ \union {code}]
           s == IssueLibrary[code]
<1>1. s \in {NotSupported, Warning, Error}
  <2>1. CASE code \in DOMAIN AGICIssues
    BY <2>1 DEF IssueLibrary, AGICIssues, NotSupported, Warning, Error
  <2>2. CASE code \in DOMAIN NGINXIssues /\ code \notin DOMAIN AGICIssues
    BY <2>2 DEF IssueLibrary, NGINXIssues, NotSupported, Warning, Error
  <2> QED
    BY <2>1, <2>2 DEF IssueCode, IssueLibrary
<1>2. /\ DOMAIN b = {"status", "issues", "dests"} /\ b.status = a.status
      /\ b.issues = a.issues \union {code} /\ b.dests = a.dests
  BY DEF Accounted, AnnotationOK
<1>3. RegisterIssue(a, code) = SetStatus(b, s)
  BY DEF RegisterIssue
<1>4. AnnotationOK(RegisterIssue(a, code))
  BY RegisterIssueOK DEF Accounted
<1> HIDE DEF b, s
<1>5. /\ SetStatus(b, s).issues = b.issues /\ SetStatus(b, s).dests = b.dests
      /\ SetStatus(b, s).status \in {s, Warning, Error}
  BY <1>2 DEF SetStatus
<1> QED
  BY <1>1, <1>2, <1>3, <1>4, <1>5 DEF Outcome, Accounted, Reportable

(* Destinations make it visible too.                                        *)
LEMMA AddDestinationsOutcome ==
  ASSUME NEW a, Accounted(a), NEW set
  PROVE  Outcome(a, AddDestinations(a, set), {}, set)
<1> DEFINE b == [a EXCEPT !.dests = @ \union set]
<1>1. AnnotationOK(AddDestinations(a, set))
  BY AddDestinationsOK DEF Accounted
<1>2. CASE set = {}
  BY <1>2 DEF AddDestinations, Outcome
<1>3. CASE set # {}
  <2>1. /\ DOMAIN b = {"status", "issues", "dests"} /\ b.status = a.status
        /\ b.issues = a.issues /\ b.dests = a.dests \union set
    BY DEF Accounted, AnnotationOK
  <2>2. AddDestinations(a, set) = SetStatus(b, Completed)
    BY <1>3 DEF AddDestinations
  <2> HIDE DEF b
  <2>3. /\ SetStatus(b, Completed).issues = b.issues
        /\ SetStatus(b, Completed).dests = b.dests
        /\ SetStatus(b, Completed).status \in {Completed, Warning, Error}
    BY <2>1 DEF SetStatus
  <2> QED
    BY <1>1, <2>1, <2>2, <2>3 DEF Outcome, Accounted, Reportable
<1> QED
  BY <1>2, <1>3

(* The same of the single destination of AddDestination.                    *)
LEMMA AddDestinationOutcome ==
  ASSUME NEW a, Accounted(a), NEW resource
  PROVE  Outcome(a, AddDestination(a, resource), {}, {resource})
<1>1. AddDestination(a, resource) = AddDestinations(a, {resource})
  BY DEF AddDestination, AddDestinations
<1> QED
  BY <1>1, AddDestinationsOutcome

(* Outcomes add up.                                                         *)
LEMMA OutcomesAddUp ==
  ASSUME NEW a, NEW b, NEW c, NEW i, NEW j, NEW d, NEW e,
         Outcome(a, b, i, d), Outcome(b, c, j, e)
  PROVE  Outcome(a, c, i \union j, d \union e)
BY DEF Outcome

-----------------------------------------------------------------------------
(* What the graph holds, in the vocabulary of the report.                    *)

Kind(kind, ids) == {Resource(kind, id) : id \in ids}

StoredResources ==
  UNION {Kind("HTTPRoute", DOMAIN graphRoutes), Kind("RoutePolicy", DOMAIN routePolicies),
         Kind("WAFPolicy", DOMAIN routeWAF), Kind("HealthCheckPolicy", DOMAIN healthPolicies),
         Kind("BackendTLSPolicy", DOMAIN backendTLS), Kind("FrontendTLSPolicy", DOMAIN frontendTLS)}

Reported(nn, name) == \E i \in DOMAIN reported[nn] : reported[nn][i] = name

(* Every destination has been stored, and whatever is stored is the         *)
(* destination of an annotation or a route its Ingress reports.             *)
DestinationsStored ==
  \A nn \in Ingresses : \A k \in DOMAIN anno[nn] : anno[nn][k].dests \subseteq StoredResources

StoredIsReported ==
  \A d \in StoredResources : \E nn \in Ingresses :
    \/ \E k \in DOMAIN anno[nn] : d \in anno[nn][k].dests
    \/ d.kind = "HTTPRoute" /\ Reported(nn, d.id)

(* The route handlers work on has been reported, under the name EndRule     *)
(* will store it with.                                                      *)
RouteNames == {routes[id].nn : id \in DOMAIN routes}

RouteIsReported ==
  /\ DOMAIN reported = Ingresses
  /\ \A nn \in Ingresses : reported[nn] \in Seq(RouteNames)
  /\ phase = "annotations" => Reported(cur, ThisRoute.nn)

(* What has come of an annotation shows.  Nothing ever comes of the         *)
(* last-applied annotation, which is the one the engine ignores.            *)
OutcomesShow ==
  \A nn \in Ingresses : \A k \in DOMAIN anno[nn] :
    /\ anno[nn][k].issues # {} \/ anno[nn][k].dests # {} => anno[nn][k].status \in Reportable
    /\ k = LastApplied => anno[nn][k].issues = {} /\ anno[nn][k].dests = {}

(* Ingresses are untouched before their turn, have no status until it ends, *)
(* and a rejected setting is remembered until then.                         *)
InTurn == phase \in {"rules", "annotations"}

Unrejected(nn) ==
  \A k \in DOMAIN anno[nn] : anno[nn][k].issues \intersect RejectingIssues = {}

TurnsOK ==
  /\ InTurn => cur \notin todo /\ status[cur] = NotStarted
  /\ \A nn \in todo : status[nn] = NotStarted /\ Unrejected(nn)
  /\ InTurn /\ ~failed => Unrejected(cur)

BookInv ==
  /\ DestinationsStored
  /\ StoredIsReported
  /\ RouteIsReported
  /\ OutcomesShow
  /\ TurnsOK
  /\ RejectionFailsTheIngress

-----------------------------------------------------------------------------
(* Handlers.                                                                 *)

(* No handler renames a route.                                              *)
NamesKept ==
  \A id \in DOMAIN routes : id \in DOMAIN routes' /\ routes'[id].nn = routes[id].nn

(* The annotation a handler is given is accounted for so far.               *)
LEMMA CurrentAccounted ==
  ASSUME IInv, BookInv, NEW k, Take(k)
  PROVE  Accounted(Anno(k))
BY CurrentAnnotation DEF BookInv, OutcomesShow, Accounted, Anno

(* Finish replaces one annotation of the current Ingress.                   *)
LEMMA OneAnnotation ==
  ASSUME IInv, NEW k, NEW a, NEW err, Take(k), Finish(k, a, err)
  PROVE  /\ Ingresses' = Ingresses /\ cur \in Ingresses /\ k \in DOMAIN anno[cur]
         /\ \A nn \in Ingresses :
              /\ DOMAIN anno'[nn] = DOMAIN anno[nn]
              /\ \A j \in DOMAIN anno[nn] :
                   anno'[nn][j] = IF nn = cur /\ j = k THEN a ELSE anno[nn][j]
<1>1. cur \in Ingresses /\ k \in DOMAIN anno[cur] /\ Ingresses' = Ingresses
  BY CurrentAnnotation DEF Finish, progressVars, Ingresses
<1>2. anno' = [anno EXCEPT ![cur][k] = a]
  BY DEF Finish
<1> QED
  BY <1>1, <1>2 DEF IInv, TypeOK, AnnotationsOK

(* What is left to show of a handler: what it has added to its annotation,  *)
(* that it has stored just that, and that it returns an error when it       *)
(* rejects a setting.                                                       *)
LEMMA HandlerBooks ==
  ASSUME IInv, BookInv, NEW k, NEW a, NEW err \in BOOLEAN, Take(k), Finish(k, a, err),
         NEW issues, NEW dests, Outcome(Anno(k), a, issues, dests),
         StoredResources' = StoredResources \union dests, NamesKept,
         err \/ issues \intersect RejectingIssues = {},
         k = LastApplied => issues = {} /\ dests = {}
  PROVE  BookInv'
<1>1. /\ Ingresses' = Ingresses /\ cur \in Ingresses /\ k \in DOMAIN anno[cur]
      /\ \A nn \in Ingresses :
           /\ DOMAIN anno'[nn] = DOMAIN anno[nn]
           /\ \A j \in DOMAIN anno[nn] :
                anno'[nn][j] = IF nn = cur /\ j = k THEN a ELSE anno[nn][j]
  BY OneAnnotation
<1>2. /\ UNCHANGED <<input, phase, todo, cur, rule, reported, status>>
      /\ failed' = (failed \/ err) /\ phase = "annotations"
  BY DEF Take, Finish, progressVars
<1>3. a.issues = anno[cur][k].issues \union issues /\ a.dests = anno[cur][k].dests \union dests
  BY DEF Outcome, Anno
<1>4. DestinationsStored'
  BY <1>1, <1>3 DEF BookInv, DestinationsStored
<1>5. StoredIsReported'
  <2> SUFFICES ASSUME NEW d \in StoredResources'
               PROVE  \E nn \in Ingresses :
                        \/ \E j \in DOMAIN anno'[nn] : d \in anno'[nn][j].dests
                        \/ d.kind = "HTTPRoute" /\ Reported(nn, d.id)
    BY <1>1, <1>2 DEF StoredIsReported, Reported
  <2>1. CASE d \in dests
    BY <1>1, <1>3, <2>1
  <2>2. CASE d \in StoredResources
    <3>1. PICK nn \in Ingresses : \/ \E j \in DOMAIN anno[nn] : d \in anno[nn][j].dests
                                  \/ d.kind = "HTTPRoute" /\ Reported(nn, d.id)
      BY <2>2 DEF BookInv, StoredIsReported
    <3>2. \A j \in DOMAIN anno[nn] : anno[nn][j].dests \subseteq anno'[nn][j].dests
      BY <1>1, <1>3
    <3> QED
      BY <1>1, <3>1, <3>2
  <2> QED
    BY <2>1, <2>2
<1>6. RouteIsReported'
  <2>1. RouteNames \subseteq RouteNames'
    BY DEF RouteNames, NamesKept
  <2>2. \A nn \in Ingresses : reported'[nn] \in Seq(RouteNames')
    BY <1>2, <2>1 DEF BookInv, RouteIsReported
  <2>3. ThisRouteId' = ThisRouteId /\ ThisRouteId \in DOMAIN routes
    BY <1>2 DEF ThisRouteId, RouteId, This, Ingress, IInv, TypeOK, ProgressOK
  <2>4. ThisRoute'.nn = ThisRoute.nn
    BY <2>3 DEF ThisRoute, NamesKept
  <2> QED
    BY <1>1, <1>2, <2>2, <2>4 DEF BookInv, RouteIsReported, Reported
<1>7. OutcomesShow'
  BY <1>1, <1>3 DEF BookInv, OutcomesShow, Outcome, Accounted, Anno
<1>8. TurnsOK'
  <2>1. cur \notin todo /\ todo \subseteq Ingresses
    BY <1>2 DEF BookInv, TurnsOK, InTurn, IInv, TypeOK, ProgressOK
  <2>2. \A nn \in todo : Unrejected(nn)'
    BY <1>1, <2>1 DEF BookInv, TurnsOK, Unrejected
  <2>3. ~failed' => Unrejected(cur)'
    BY <1>1, <1>2, <1>3 DEF BookInv, TurnsOK, InTurn, Unrejected
  <2> QED
    BY <1>2, <2>2, <2>3 DEF BookInv, TurnsOK, InTurn, Unrejected
<1>9. RejectionFailsTheIngress'
  <2>1. status[cur] = NotStarted
    BY <1>2 DEF BookInv, TurnsOK, InTurn
  <2> QED
    BY <1>1, <1>2, <2>1 DEF BookInv, RejectionFailsTheIngress, NotStarted, Completed
<1> QED
  BY <1>4, <1>5, <1>6, <1>7, <1>8, <1>9 DEF BookInv

(* For a handler that only reports, and for one that changes the current    *)
(* route but not its name.                                                  *)
LEMMA NothingStored ==
  ASSUME UNCHANGED <<graphRoutes, policyVars>>
  PROVE  StoredResources' = StoredResources \union {}
BY DEF StoredResources, policyVars

(* A handler that stores resources of one kind.                             *)
LEMMA KindUnion ==
  ASSUME NEW kind, NEW S, NEW T
  PROVE  Kind(kind, S \union T) = Kind(kind, S) \union Kind(kind, T)
BY DEF Kind

LEMMA RoutesStored ==
  ASSUME NEW ids, DOMAIN graphRoutes' = DOMAIN graphRoutes \union ids, UNCHANGED policyVars
  PROVE  StoredResources' = StoredResources \union Kind("HTTPRoute", ids)
BY KindUnion DEF StoredResources, policyVars

LEMMA RoutePoliciesStored ==
  ASSUME NEW ids, DOMAIN routePolicies' = DOMAIN routePolicies \union ids,
         UNCHANGED <<graphRoutes, routeWAF, healthPolicies, backendTLS, frontendTLS>>
  PROVE  StoredResources' = StoredResources \union Kind("RoutePolicy", ids)
BY KindUnion DEF StoredResources

LEMMA WAFPoliciesStored ==
  ASSUME NEW ids, DOMAIN routeWAF' = DOMAIN routeWAF \union ids,
         UNCHANGED <<graphRoutes, routePolicies, healthPolicies, backendTLS, frontendTLS>>
  PROVE  StoredResources' = StoredResources \union Kind("WAFPolicy", ids)
BY KindUnion DEF StoredResources

LEMMA HealthPoliciesStored ==
  ASSUME NEW ids, DOMAIN healthPolicies' = DOMAIN healthPolicies \union ids,
         UNCHANGED <<graphRoutes, routePolicies, routeWAF, backendTLS, frontendTLS>>
  PROVE  StoredResources' = StoredResources \union Kind("HealthCheckPolicy", ids)
BY KindUnion DEF StoredResources

LEMMA BackendTLSStored ==
  ASSUME NEW ids, DOMAIN backendTLS' = DOMAIN backendTLS \union ids,
         UNCHANGED <<graphRoutes, routePolicies, routeWAF, healthPolicies, frontendTLS>>
  PROVE  StoredResources' = StoredResources \union Kind("BackendTLSPolicy", ids)
BY KindUnion DEF StoredResources

LEMMA FrontendTLSStored ==
  ASSUME NEW ids, DOMAIN frontendTLS' = DOMAIN frontendTLS \union ids,
         UNCHANGED <<graphRoutes, routePolicies, routeWAF, healthPolicies, backendTLS>>
  PROVE  StoredResources' = StoredResources \union Kind("FrontendTLSPolicy", ids)
BY KindUnion DEF StoredResources

(* A handler that does nothing but report.                                  *)
LEMMA ReportingHandlerBooks ==
  ASSUME IInv, BookInv, NEW k, NEW a, NEW err \in BOOLEAN, Take(k), Finish(k, a, err),
         NEW issues, Outcome(Anno(k), a, issues, {}), UNCHANGED <<graphVars, policyVars>>,
         err \/ issues \intersect RejectingIssues = {}, k # LastApplied
  PROVE  BookInv'
<1>1. StoredResources' = StoredResources \union {} /\ NamesKept
  BY NothingStored DEF NamesKept, graphVars
<1> QED
  BY <1>1, HandlerBooks

(* A handler that replaces rules, hostnames or parents of the current route.*)
LEMMA RouteChanged ==
  ASSUME IInv, phase = "annotations", NEW route, route.nn = ThisRoute.nn,
         routes' = [routes EXCEPT ![ThisRouteId] = route]
  PROVE  NamesKept
BY DEF NamesKept, ThisRoute, IInv, TypeOK, ProgressOK

LEMMA RulesChanged ==
  ASSUME IInv, phase = "annotations", NEW rules, ModifyRules(rules)
  PROVE  NamesKept
<1> DEFINE route == [ThisRoute EXCEPT !.rules = rules]
<1>1. ThisRouteId \in DOMAIN routes /\ DOMAIN ThisRoute = HTTPRouteFields
  BY DEF IInv, TypeOK, ProgressOK, GraphOK, ThisRoute
<1>2. route.nn = ThisRoute.nn
  BY <1>1 DEF HTTPRouteFields
<1>3. routes' = [routes EXCEPT ![ThisRouteId] = route]
  BY <1>1 DEF ModifyRules, ThisRoute
<1> HIDE DEF route
<1> QED
  BY <1>2, <1>3, RouteChanged

-----------------------------------------------------------------------------
(* The steps of the engine.                                                  *)

(* A step that leaves annotations and graph alone and takes nothing from    *)
(* the reported routes keeps the report and the graph in step.              *)
LEMMA SameBooks ==
  ASSUME IInv, BookInv, UNCHANGED <<input, anno, graphRoutes, policyVars>>,
         \A nn \in Ingresses : \A name : Reported(nn, name) => Reported(nn, name)'
  PROVE  DestinationsStored' /\ StoredIsReported' /\ OutcomesShow'
<1>1. StoredResources' = StoredResources /\ Ingresses' = Ingresses
  BY NothingStored DEF Ingresses
<1>2. DestinationsStored' /\ OutcomesShow'
  BY <1>1 DEF BookInv, DestinationsStored, OutcomesShow
<1>3. StoredIsReported'
  BY <1>1 DEF BookInv, StoredIsReported
<1> QED
  BY <1>2, <1>3

(* Setup, and the start and the end of an Ingress.                          *)
LEMMA TurnSteps ==
  ASSUME IInv, BookInv, UNCHANGED policyVars,
         Setup \/ (\E nn \in todo : BeginIngress(nn)) \/ EndIngress \/ Build
  PROVE  BookInv'
<1>1. UNCHANGED <<input, anno, routes, graphRoutes, reported>> /\ phase' # "annotations"
  BY DEF Setup, BeginIngress, EndIngress, Build, graphVars
<1>2. Ingresses' = Ingresses /\ \A nn : Unrejected(nn)' = Unrejected(nn)
  BY <1>1 DEF Ingresses, Unrejected
<1>3. DestinationsStored' /\ StoredIsReported' /\ OutcomesShow'
  BY <1>1, SameBooks DEF Reported
<1>4. RouteIsReported'
  BY <1>1, <1>2 DEF BookInv, RouteIsReported, RouteNames
<1>5. CASE Setup \/ Build
  <2>1. UNCHANGED <<todo, status>> /\ phase' \notin {"rules", "annotations"}
    BY <1>5 DEF Setup, Build
  <2>2. TurnsOK' /\ RejectionFailsTheIngress'
    BY <1>1, <1>2, <2>1 DEF BookInv, TurnsOK, InTurn, RejectionFailsTheIngress
  <2> QED
    BY <1>3, <1>4, <2>2 DEF BookInv
<1>6. ASSUME NEW nn \in todo, BeginIngress(nn)
      PROVE  BookInv'
  <2>1. cur' = nn /\ todo' = todo \ {nn} /\ status' = status
    BY <1>6 DEF BeginIngress
  <2>2. status[nn] = NotStarted /\ Unrejected(nn)
    BY DEF BookInv, TurnsOK
  <2>3. TurnsOK' /\ RejectionFailsTheIngress'
    BY <1>1, <1>2, <2>1, <2>2 DEF BookInv, TurnsOK, RejectionFailsTheIngress
  <2> QED
    BY <1>3, <1>4, <2>3 DEF BookInv
<1>7. CASE EndIngress
  <2>1. /\ phase = "rules" /\ phase' = "ingresses" /\ UNCHANGED <<todo, failed>>
        /\ status' = [status EXCEPT ![cur] = IF failed THEN Error ELSE Completed]
    BY <1>7 DEF EndIngress
  <2>2. cur \notin todo /\ (~failed => Unrejected(cur))
    BY <2>1 DEF BookInv, TurnsOK, InTurn
  <2>3. TurnsOK'
    BY <1>2, <2>1, <2>2 DEF BookInv, TurnsOK, InTurn, IInv, TypeOK, ProgressOK
  <2>4. RejectionFailsTheIngress'
    <3> SUFFICES ASSUME NEW nn \in Ingresses, status'[nn] = Completed
                 PROVE  Unrejected(nn)
      BY <1>1, <1>2 DEF RejectionFailsTheIngress, Unrejected
    <3>1. CASE nn = cur
      BY <2>1, <2>2, <3>1 DEF IInv, TypeOK, ProgressOK, Error, Completed
    <3>2. CASE nn # cur
      BY <2>1, <3>2 DEF BookInv, RejectionFailsTheIngress, Unrejected, IInv, TypeOK, ProgressOK
    <3> QED
      BY <3>1, <3>2
  <2> QED
    BY <1>3, <1>4, <2>3, <2>4 DEF BookInv
<1> QED
  BY <1>5, <1>6, <1>7

(* Within an Ingress the turns stay as they are.                            *)
LEMMA SameTurn ==
  ASSUME IInv, BookInv, InTurn, InTurn', UNCHANGED <<input, todo, cur, failed, status, anno>>
  PROVE  TurnsOK' /\ RejectionFailsTheIngress'
BY DEF BookInv, TurnsOK, Unrejected, RejectionFailsTheIngress, Ingresses

(* BeginRule reports the route of the rule before anything is stored under  *)
(* its name.                                                                *)
LEMMA BeginRuleBooks ==
  ASSUME IInv, BookInv, BeginRule, UNCHANGED policyVars, IInv'
  PROVE  BookInv'
<1> DEFINE r       == This.rules[rule]
           id      == RouteId(cur, r.host)
           isNew   == id \notin DOMAIN routes
           route   == IF isNew THEN InitialRoute(r.host) ELSE routes[id]
           grown   == [route EXCEPT !.rules = @ \o RulesOf(r.paths)]
<1>1. /\ phase = "rules" /\ rule \in DOMAIN This.rules
      /\ reported' = [reported EXCEPT ![cur] = Append(@, route.nn)]
      /\ \/ routes' = InsertAt(routes, id, route) /\ phase' = "rules"
         \/ routes' = InsertAt(routes, id, grown) /\ rule' = rule /\ phase' = "annotations"
      /\ UNCHANGED <<input, todo, cur, failed, graphRoutes, anno, status>>
  BY ZenonT(60) DEF BeginRule
<1>2. DOMAIN route = HTTPRouteFields /\ (id \in DOMAIN routes => route = routes[id])
  BY InitialRouteOK DEF IInv, TypeOK, GraphOK
<1>3. grown.nn = route.nn
  BY <1>2 DEF HTTPRouteFields
<1>4. id = RouteId(cur, This.rules[rule].host)
  OBVIOUS
<1> HIDE DEF r, id, isNew, route, grown
<1> PICK name : name = route.nn
  OBVIOUS
<1>5. /\ DOMAIN routes' = DOMAIN routes \union {id} /\ routes'[id].nn = route.nn
      /\ \A x \in DOMAIN routes : routes'[x].nn = routes[x].nn
  BY <1>1, <1>2, <1>3 DEF InsertAt
<1>6. cur \in Ingresses /\ Ingresses' = Ingresses
  BY <1>1 DEF IInv, TypeOK, ProgressOK, Ingresses
<1>7. RouteNames \subseteq RouteNames' /\ route.nn \in RouteNames'
  BY <1>5 DEF RouteNames
<1>8. /\ DOMAIN reported' = Ingresses
      /\ \A nn \in Ingresses : reported'[nn] \in Seq(RouteNames')
      /\ \A nn \in Ingresses : \A any : Reported(nn, any) => Reported(nn, any)'
      /\ Reported(cur, name)'
  <2>1. \A nn \in Ingresses : reported[nn] \in Seq(RouteNames')
    BY <1>7 DEF BookInv, RouteIsReported
  <2>2. reported' = [reported EXCEPT ![cur] = Append(reported[cur], route.nn)]
    BY <1>1
  <2>3. \A nn \in Ingresses : nn # cur => reported'[nn] = reported[nn]
    BY <2>2 DEF BookInv, RouteIsReported
  <2>4. reported'[cur] = Append(reported[cur], route.nn) /\ DOMAIN reported' = Ingresses
    BY <1>6, <2>2 DEF BookInv, RouteIsReported
  <2>5. /\ reported'[cur] \in Seq(RouteNames')
        /\ \A i \in DOMAIN reported[cur] : i \in DOMAIN reported'[cur]
                                           /\ reported'[cur][i] = reported[cur][i]
        /\ \E i \in DOMAIN reported'[cur] : reported'[cur][i] = route.nn
    <3>1. reported[cur] \in Seq(RouteNames')
      BY <1>6, <2>1
    <3>2. Len(reported[cur]) + 1 \in DOMAIN reported'[cur]
            /\ reported'[cur][Len(reported[cur]) + 1] = route.nn
      BY <2>4, <3>1, <1>7
    <3> QED
      BY <2>4, <3>1, <3>2, <1>7
  <2>6. Reported(cur, name)'
    BY <1>1, <2>5 DEF Reported
  <2>7. \A nn \in Ingresses : \A any : Reported(nn, any) => Reported(nn, any)'
    BY <2>3, <2>5 DEF Reported
  <2>8. \A nn \in Ingresses : reported'[nn] \in Seq(RouteNames')
    BY <2>1, <2>3, <2>5
  <2> QED
    BY <2>4, <2>6, <2>7, <2>8
<1>9. DestinationsStored' /\ StoredIsReported' /\ OutcomesShow'
  BY <1>1, <1>8, SameBooks
<1>10. RouteIsReported'
  <2>1. phase' = "annotations" => ThisRoute'.nn = name
    BY <1>1, <1>4, <1>5 DEF ThisRoute, ThisRouteId, RouteId, This, Ingress
  <2> QED
    BY <1>1, <1>6, <1>8, <2>1 DEF RouteIsReported
<1>11. TurnsOK' /\ RejectionFailsTheIngress'
  BY <1>1, SameTurn DEF InTurn
<1> QED
  BY <1>9, <1>10, <1>11 DEF BookInv

(* EndRule stores the route under the name that has been reported.          *)
LEMMA EndRuleBooks ==
  ASSUME IInv, BookInv, EndRule, UNCHANGED policyVars
  PROVE  BookInv'
<1>1. /\ phase = "annotations" /\ phase' = "rules"
      /\ graphRoutes' = InsertAt(graphRoutes, ThisRoute.nn, ThisRouteId)
      /\ UNCHANGED <<input, todo, cur, failed, routes, anno, reported, status>>
  BY DEF EndRule
<1>2. DOMAIN graphRoutes' = DOMAIN graphRoutes \union {ThisRoute.nn}
  BY <1>1 DEF InsertAt
<1>3. StoredResources' = StoredResources \union {Resource("HTTPRoute", ThisRoute.nn)}
  <2>1. StoredResources' = StoredResources \union Kind("HTTPRoute", {ThisRoute.nn})
    BY <1>2, RoutesStored
  <2> QED
    BY <2>1 DEF Kind
<1>4. Ingresses' = Ingresses /\ cur \in Ingresses
  BY <1>1 DEF Ingresses, IInv, TypeOK, ProgressOK
<1>5. DestinationsStored' /\ OutcomesShow'
  BY <1>1, <1>3, <1>4 DEF BookInv, DestinationsStored, OutcomesShow
<1>6. StoredIsReported'
  <2> DEFINE accounted(d, nn) == \/ \E k \in DOMAIN anno[nn] : d \in anno[nn][k].dests
                                 \/ d.kind = "HTTPRoute" /\ Reported(nn, d.id)
  <2>1. \A d, nn : accounted(d, nn)' = accounted(d, nn)
    BY <1>1 DEF Reported
  <2>2. accounted(Resource("HTTPRoute", ThisRoute.nn), cur)
    BY <1>1 DEF BookInv, RouteIsReported, Resource
  <2>3. \A d \in StoredResources : \E nn \in Ingresses : accounted(d, nn)
    BY DEF BookInv, StoredIsReported
  <2> HIDE DEF accounted
  <2>4. \A d \in StoredResources' : \E nn \in Ingresses : accounted(d, nn)'
    BY <1>3, <1>4, <2>1, <2>2, <2>3
  <2> QED
    BY <1>4, <2>4 DEF StoredIsReported, accounted
<1>7. RouteIsReported'
  BY <1>1, <1>4 DEF BookInv, RouteIsReported, RouteNames
<1>8. TurnsOK' /\ RejectionFailsTheIngress'
  BY <1>1, SameTurn DEF InTurn
<1> QED
  BY <1>5, <1>6, <1>7, <1>8 DEF BookInv

(* The annotation the engine ignores, and those without a handler.          *)
LEMMA EngineHandlersBooks ==
  ASSUME IInv, BookInv, UNCHANGED policyVars,
         \/ handleIgnoredAnnotation
         \/ \E k \in pending \ {LastApplied} : UnsupportedAnnotation(k)
  PROVE  BookInv'
<1>1. StoredResources' = StoredResources \union {} /\ NamesKept
  BY NothingStored DEF NamesKept, graphVars, handleIgnoredAnnotation, UnsupportedAnnotation
<1>2. CASE handleIgnoredAnnotation
  <2> DEFINE a == SetStatus(Anno(LastApplied), Ignored)
  <2>1. Take(LastApplied) /\ Finish(LastApplied, a, FALSE)
    BY <1>2 DEF handleIgnoredAnnotation
  <2>2. /\ Accounted(Anno(LastApplied))
        /\ Anno(LastApplied).issues = {} /\ Anno(LastApplied).dests = {}
    BY <2>1, CurrentAccounted, CurrentAnnotation DEF BookInv, OutcomesShow, Anno
  <2>3. Outcome(Anno(LastApplied), a, {}, {})
    BY <2>2, IgnoredOutcome
  <2> HIDE DEF a
  <2> QED
    BY <1>1, <2>1, <2>3, HandlerBooks
<1>3. ASSUME NEW k \in pending \ {LastApplied}, UnsupportedAnnotation(k)
      PROVE  BookInv'
  <2> DEFINE a == RegisterIssue(Anno(k), "UnsupportedAnnotationGeneric")
  <2>1. Take(k) /\ Finish(k, a, FALSE)
    BY <1>3 DEF UnsupportedAnnotation
  <2>2. Outcome(Anno(k), a, {"UnsupportedAnnotationGeneric"}, {})
    BY <2>1, CurrentAccounted, RegisterIssueOutcome, IssueCodes
  <2>3. {"UnsupportedAnnotationGeneric"} \intersect RejectingIssues = {}
    BY DEF RejectingIssues
  <2> HIDE DEF a
  <2> QED
    BY <1>1, <2>1, <2>2, <2>3, HandlerBooks
<1> QED
  BY <1>2, <1>3

(* Every step of the engine keeps the books.                                *)
LEMMA EngineBooks ==
  ASSUME IInv, BookInv, EngineStep
  PROVE  BookInv'
<1>1. IInv'
  BY EngineNextStep DEF EngineStep, StepOK
<1> QED
  BY <1>1, TurnSteps, BeginRuleBooks, EndRuleBooks, EngineHandlersBooks
     DEF EngineStep, EngineNext

(* They are in order when nothing has happened yet.                         *)
LEMMA InitBooks ==
  ASSUME Init
  PROVE  BookInv
<1>1. /\ todo = Ingresses /\ phase = "setup" /\ DOMAIN graphRoutes = {}
      /\ anno = [nn \in Ingresses |->
                   [k \in DOMAIN Ingress(nn).annos |-> NewAnnotationContext]]
      /\ reported = [nn \in Ingresses |-> <<>>]
      /\ status = [nn \in Ingresses |-> NotStarted]
  BY Zenon DEF Init, EngineInit
<1>2. /\ DOMAIN routePolicies = {} /\ DOMAIN routeWAF = {} /\ DOMAIN healthPolicies = {}
      /\ DOMAIN backendTLS = {} /\ DOMAIN frontendTLS = {}
  BY DEF Init
<1>3. StoredResources = {}
  BY <1>1, <1>2 DEF StoredResources, Kind
<1>4. \A nn \in Ingresses : \A k \in DOMAIN anno[nn] :
        anno[nn][k].issues = {} /\ anno[nn][k].dests = {}
  BY <1>1 DEF NewAnnotationContext
<1>5. DestinationsStored /\ StoredIsReported /\ OutcomesShow
  BY <1>3, <1>4 DEF DestinationsStored, StoredIsReported, OutcomesShow
<1>6. RouteIsReported
  BY <1>1 DEF RouteIsReported
<1>7. TurnsOK /\ RejectionFailsTheIngress
  BY <1>1, <1>4 DEF TurnsOK, InTurn, Unrejected, RejectionFailsTheIngress, NotStarted, Completed
<1> QED
  BY <1>5, <1>6, <1>7 DEF BookInv

(* They survive a stutter.                                                  *)
LEMMA StutterBooks ==
  ASSUME IInv, BookInv, UNCHANGED vars
  PROVE  BookInv'
<1>1. UNCHANGED <<input, phase, todo, cur, rule, reported, status, failed, anno, routes,
                  graphRoutes, policyVars>>
  BY DEF vars, engineVars, progressVars, graphVars
<1>2. DestinationsStored' /\ StoredIsReported' /\ OutcomesShow'
  BY <1>1, SameBooks DEF Reported
<1>3. RouteIsReported'
  BY <1>1 DEF BookInv, RouteIsReported, RouteNames, Reported, Ingresses, ThisRoute,
              ThisRouteId, RouteId, This, Ingress
<1>4. TurnsOK' /\ RejectionFailsTheIngress'
  BY <1>1 DEF BookInv, TurnsOK, InTurn, Unrejected, RejectionFailsTheIngress, Ingresses
<1> QED
  BY <1>2, <1>3, <1>4 DEF BookInv

-----------------------------------------------------------------------------
(* What the books say.                                                       *)

(* Each destination is in the map of its kind.                              *)
LEMMA BooksDestinations ==
  ASSUME BookInv
  PROVE  DestinationsExist
<1> SUFFICES ASSUME NEW nn \in Ingresses, NEW k \in DOMAIN anno[nn], NEW d \in anno[nn][k].dests
             PROVE  d.id \in CASE d.kind = "HTTPRoute"         -> DOMAIN graphRoutes
                               [] d.kind = "RoutePolicy"       -> DOMAIN routePolicies
                               [] d.kind = "WAFPolicy"         -> DOMAIN routeWAF
                               [] d.kind = "HealthCheckPolicy" -> DOMAIN healthPolicies
                               [] d.kind = "BackendTLSPolicy"  -> DOMAIN backendTLS
                               [] d.kind = "FrontendTLSPolicy" -> DOMAIN frontendTLS
  BY DEF DestinationsExist
<1>1. d \in StoredResources
  BY DEF BookInv, DestinationsStored
<1> QED
  BY <1>1 DEF StoredResources, Kind, Resource

(* An annotation with an outcome is in the section of its status and in no  *)
(* other, for the sections have different statuses.                         *)
LEMMA OneSection ==
  ASSUME NEW nn, NEW k \in DOMAIN anno[nn], anno[nn][k].status \in Reportable
  PROVE  Cardinality({s \in DOMAIN SectionStatus : k \in AnnotationSections(nn)[s]}) = 1
<1> DEFINE S == {s \in DOMAIN SectionStatus : k \in AnnotationSections(nn)[s]}
<1>1. S = {s \in DOMAIN SectionStatus : anno[nn][k].status = SectionStatus[s]}
  BY DEF AnnotationSections
<1>2. PICK s : S = {s}
  <2>1. DOMAIN SectionStatus = {"completed", "warnings", "failed", "unsupported"}
    BY DEF SectionStatus
  <2>2. /\ SectionStatus.completed = Completed /\ SectionStatus.warnings = Warning
        /\ SectionStatus.failed = Error /\ SectionStatus.unsupported = NotSupported
    BY DEF SectionStatus
  <2>3. CASE anno[nn][k].status = Completed
    <3>1. S = {"completed"}
      BY <1>1, <2>1, <2>2, <2>3 DEF Completed, Warning, Error, NotSupported
    <3> QED
      BY <3>1
  <2>4. CASE anno[nn][k].status = Warning
    <3>1. S = {"warnings"}
      BY <1>1, <2>1, <2>2, <2>4 DEF Completed, Warning, Error, NotSupported
    <3> QED
      BY <3>1
  <2>5. CASE anno[nn][k].status = Error
    <3>1. S = {"failed"}
      BY <1>1, <2>1, <2>2, <2>5 DEF Completed, Warning, Error, NotSupported
    <3> QED
      BY <3>1
  <2>6. CASE anno[nn][k].status = NotSupported
    <3>1. S = {"unsupported"}
      BY <1>1, <2>1, <2>2, <2>6 DEF Completed, Warning, Error, NotSupported
    <3> QED
      BY <3>1
  <2> QED
    BY <2>3, <2>4, <2>5, <2>6 DEF Reportable
<1>3. Cardinality({s}) = 1
  BY FS_Singleton
<1> QED
  BY <1>2, <1>3

(* Each resource of the graph is listed by the Ingress that has reported it.*)
LEMMA BooksReport ==
  ASSUME IInv, BookInv
  PROVE  ReportAccountsForGraph
<1> DEFINE reports == [nn \in Ingresses |-> newIngress(nn)]
           listed(kind) == UNION {reports[nn].resources[kind] : nn \in Ingresses}
<1>1. \A nn \in Ingresses : /\ reports[nn].resources = MigratedResources(nn)
                            /\ reports[nn].annotations = AnnotationSections(nn)
  BY DEF newIngress
<1> HIDE DEF reports
<1>2. DOMAIN graphRoutes \subseteq listed("HTTPRoute")
  <2> SUFFICES ASSUME NEW name \in DOMAIN graphRoutes
               PROVE  \E nn \in Ingresses : name \in MigratedResources(nn)["HTTPRoute"]
    BY <1>1
  <2> DEFINE d == Resource("HTTPRoute", name)
  <2>1. d \in StoredResources /\ d.kind = "HTTPRoute" /\ d.id = name
    BY DEF StoredResources, Kind, Resource
  <2> HIDE DEF d
  <2>2. PICK nn \in Ingresses : \/ \E k \in DOMAIN anno[nn] : d \in anno[nn][k].dests
                                \/ Reported(nn, name)
    BY <2>1 DEF BookInv, StoredIsReported
  <2>3. MigratedResources(nn)["HTTPRoute"] =
          {reported[nn][i] : i \in DOMAIN reported[nn]}
            \union {e.id : e \in DestinationsOf(nn, "HTTPRoute")}
    BY DEF MigratedResources
  <2>4. CASE Reported(nn, name)
    BY <2>3, <2>4 DEF Reported
  <2>5. CASE \E k \in DOMAIN anno[nn] : d \in anno[nn][k].dests
    <3>1. d \in DestinationsOf(nn, "HTTPRoute")
      BY <2>1, <2>5 DEF DestinationsOf
    <3> QED
      BY <2>1, <2>3, <3>1
  <2> QED
    BY <2>2, <2>4, <2>5
<1>3. ASSUME NEW kind \in PolicyKinds
      PROVE  InGraph(kind) \subseteq listed(kind)
  <2> SUFFICES ASSUME NEW id \in InGraph(kind)
               PROVE  \E nn \in Ingresses : id \in MigratedResources(nn)[kind]
    BY <1>1
  <2> DEFINE d == Resource(kind, id)
  <2>1. d \in StoredResources /\ d.kind = kind /\ d.id = id
    BY DEF StoredResources, Kind, Resource, InGraph, PolicyKinds
  <2> HIDE DEF d
  <2>2. PICK nn \in Ingresses : \E k \in DOMAIN anno[nn] : d \in anno[nn][k].dests
    BY <2>1 DEF BookInv, StoredIsReported, PolicyKinds
  <2>3. d \in DestinationsOf(nn, kind)
    BY <2>1, <2>2 DEF DestinationsOf
  <2>4. MigratedResources(nn)[kind] = {e.id : e \in DestinationsOf(nn, kind)}
    BY DEF MigratedResources, PolicyKinds
  <2> QED
    BY <2>1, <2>3, <2>4
<1>4. ASSUME NEW nn \in Ingresses, NEW k \in DOMAIN anno[nn],
             anno[nn][k].dests # {} \/ anno[nn][k].issues # {}
      PROVE  Cardinality({s \in DOMAIN SectionStatus : k \in reports[nn].annotations[s]}) = 1
  <2>1. anno[nn][k].status \in Reportable
    BY <1>4 DEF BookInv, OutcomesShow
  <2> QED
    BY <1>1, <2>1, OneSection
<1> QED
  BY <1>2, <1>3, <1>4 DEF ReportAccountsForGraph, reports
=============================================================================
