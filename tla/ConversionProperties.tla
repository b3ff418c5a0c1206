------------------------- MODULE ConversionProperties -------------------------
(***************************************************************************)
(* What a conversion has to get right whatever the provider: the shape of  *)
(* its state, the soundness of the Gateway it assembles, the bookkeeping   *)
(* of the annotations, and the vocabulary the providers' own properties    *)
(* are stated in.                                                          *)
(***************************************************************************)
EXTENDS ResourceGraph

Done == phase = "done"

HasAnnotation(nn, k) == k \in DOMAIN Ingress(nn).annos
AnnotationOf(nn, k)  == Ingress(nn).annos[k]

(* The hosts of an Ingress, and those with a rule that has an HTTP section: *)
(* only these have their annotations handled and their route stored.        *)
RuleHosts(nn)   == {Ingress(nn).rules[i].host : i \in DOMAIN Ingress(nn).rules}
ActiveRules(nn) == {i \in DOMAIN Ingress(nn).rules : Ingress(nn).rules[i].http}
ActiveHosts(nn) == {Ingress(nn).rules[i].host : i \in ActiveRules(nn)}

(* The backends of a host in the order of the Ingress: the paths of its     *)
(* rules with a service behind a numeric port.                              *)
HasService(path) == path.kind = "service"

BackendsOf(nn, host, n) ==
  LET paths == Ingress(nn).rules[n].paths
  IN  IF n \in ActiveRules(nn) /\ Ingress(nn).rules[n].host = host
        THEN SubList(paths, {i \in DOMAIN paths : HasService(paths[i])})
        ELSE <<>>

BackendsUpTo(nn, host) ==
  LET upTo[n \in 0 .. Len(Ingress(nn).rules)] ==
        IF n = 0 THEN <<>> ELSE upTo[n - 1] \o BackendsOf(nn, host, n)
  IN  upTo

DeclaredBackends(nn, host) == BackendsUpTo(nn, host)[Len(Ingress(nn).rules)]

DeclaredServices(nn, host) ==
  LET backends == DeclaredBackends(nn, host)
  IN  {[ns |-> nn.ns, name |-> backends[i].svc] : i \in DOMAIN backends}

(* Every (Ingress, host) with a route in the graph, and the routes' names.  *)
ActivePairs == UNION {{nn} \X ActiveHosts(nn) : nn \in Ingresses}
PairNN(p)   == RouteNN(p[1], p[2])
PairId(p)   == RouteId(p[1], p[2])

-----------------------------------------------------------------------------
(* The state of a conversion has the shape the Go types give it, the route  *)
(* the handlers work on exists while they run, every route has an owner,    *)
(* and whatever the graph stores has been allocated.                        *)
ProgressOK ==
  /\ input \in Inputs
  /\ phase \in {"setup", "ingresses", "rules", "annotations", "done"}
  /\ todo \subseteq Ingresses
  /\ phase \in {"rules", "annotations"} => cur \in Ingresses
  /\ rule \in Nat \ {0}
  /\ phase = "annotations" => /\ rule \in DOMAIN This.rules
                              /\ ThisRouteId \in DOMAIN routes
                              /\ pending \subseteq DOMAIN This.annos
  /\ failed \in BOOLEAN
  /\ DOMAIN status = Ingresses
  /\ \A nn \in Ingresses : status[nn] \in {NotStarted, Completed, Error}

HTTPRouteFields == {"nn", "hostnames", "parents", "rules"}

GraphOK ==
  /\ \A id \in DOMAIN routes :
       /\ DOMAIN routes[id] = HTTPRouteFields
       /\ id.ing \in Ingresses \/ (redirect /\ id = RedirectId)
  /\ \A nn \in DOMAIN graphRoutes : graphRoutes[nn] \in DOMAIN routes
  /\ http \in BOOLEAN
  /\ redirect \in BOOLEAN
  /\ \A h \in DOMAIN https : https[h] # {}

AnnotationsOK ==
  /\ DOMAIN anno = Ingresses
  /\ \A nn \in Ingresses :
       /\ DOMAIN anno[nn] = DOMAIN Ingress(nn).annos
       /\ \A k \in DOMAIN anno[nn] :
            /\ DOMAIN anno[nn][k] = {"status", "issues", "dests"}
            /\ anno[nn][k].status \in MigrationStatus
            /\ anno[nn][k].issues \subseteq IssueCode

TypeOK == ProgressOK /\ GraphOK /\ AnnotationsOK

(* Every parent reference of every route, the ones not in the graph yet     *)
(* included, names a listener of the Gateway.  Listeners are opened by      *)
(* initRoute, hostname-extension and ssl-redirect; references are appended  *)
(* at other places of the same functions.                                   *)
ParentsResolve ==
  \A id \in DOMAIN routes : SectionsOf(routes[id]) \subseteq ListenerNames

(* A listener never names a secret in a namespace, other than the           *)
(* Gateway's, that has no ReferenceGrant: the Gateway could not load it.    *)
ForeignSecretsGranted ==
  \A h \in DOMAIN https : \A secret \in https[h] :
    secret.ns \in grants \union {GatewayNamespace}

(* Route names come from a name function of another repository: properties  *)
(* about routes in the graph assume it gives no two routes the same name.   *)
NamesAreUnique ==
  /\ \A p, q \in ActivePairs : PairNN(p) = PairNN(q) => p = q
  /\ \A p \in ActivePairs : PairNN(p) # RedirectNN

(* However many handlers, rules and hosts touch an annotation, its status   *)
(* is at least as severe as every error and warning it has registered.      *)
SeverityReflectsIssues ==
  \A nn \in DOMAIN anno : \A k \in DOMAIN anno[nn] :
    \A code \in anno[nn][k].issues :
      /\ IssueLibrary[code] = Error => anno[nn][k].status = Error
      /\ IssueLibrary[code] = Warning => anno[nn][k].status \in {Warning, Error}

(* An Ingress is not reported Completed when a setting of it was rejected,  *)
(* on whichever of its rules that happened.                                 *)
RejectingIssues ==
  {"UnsupportBackendProtocol", "CreatingBackendTLSPolicy", "InvalidAnnotationValue",
   "HealthCheckConflict", "CouldNotFindRewrite", "FrontendTLSPolicyProfileConflict"}

RejectionFailsTheIngress ==
  \A nn \in Ingresses : status[nn] = Completed =>
    \A k \in DOMAIN anno[nn] : anno[nn][k].issues \intersect RejectingIssues = {}

(* Every resource the report names as the destination of an annotation is   *)
(* in the resource graph that is written out.                               *)
DestinationsExist ==
  \A nn \in Ingresses : \A k \in DOMAIN anno[nn] : \A d \in anno[nn][k].dests :
    d.id \in CASE d.kind = "HTTPRoute"         -> DOMAIN graphRoutes
               [] d.kind = "RoutePolicy"       -> DOMAIN routePolicies
               [] d.kind = "WAFPolicy"         -> DOMAIN routeWAF
               [] d.kind = "HealthCheckPolicy" -> DOMAIN healthPolicies
               [] d.kind = "BackendTLSPolicy"  -> DOMAIN backendTLS
               [] d.kind = "FrontendTLSPolicy" -> DOMAIN frontendTLS

(* Convert always returns.                                                  *)
Returns == <>Done

(* The conversion keeps the contract of the Gateway.                        *)
Contract == INSTANCE GatewayContract WITH
  home   <- GatewayNamespace,
  refs   <- UNION {SectionsOf(routes[id]) : id \in DOMAIN routes},
  sealed <- Done

KeepsGatewayContract == Contract!Spec

-----------------------------------------------------------------------------
(* A statement of the repository that the code does not keep.               *)

(* resources/ingress.go: the error details of a failed Ingress are in its   *)
(* migration report, captured in annotation-level issues.                   *)
ErrorIsExplained ==
  \A nn \in Ingresses : status[nn] = Error =>
    \E k \in DOMAIN anno[nn] : anno[nn][k].issues \intersect RejectingIssues # {}
=============================================================================
