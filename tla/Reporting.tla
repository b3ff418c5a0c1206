------------------------------- MODULE Reporting -------------------------------
(***************************************************************************)
(* The migration report of a finished conversion: newIngress for every     *)
(* Ingress, from the contexts the handlers have filled in.                 *)
(***************************************************************************)
EXTENDS ConversionProperties

PolicyKinds ==
  {"RoutePolicy", "WAFPolicy", "HealthCheckPolicy", "BackendTLSPolicy", "FrontendTLSPolicy"}

(* Seeded fault: only annotations that completed contribute resources.      *)
DestinationsOfCompleted(nn, kind) ==
  {d \in UNION {anno[nn][k].dests : k \in {l \in DOMAIN anno[nn] : anno[nn][l].status = Completed}} :
     d.kind = kind}

(* The resources of a kind that annotations of an Ingress have led to, each  *)
(* once.                                                                    *)
DestinationsOf(nn, kind) ==
  {d \in UNION {anno[nn][k].dests : k \in DOMAIN anno[nn]} : d.kind = kind}

(* migratedResources: the routes handleIngress has noted and those          *)
(* annotations have led to, and the policies.  ReferenceGrants is in the    *)
(* type but nothing fills it in.                                            *)
MigratedResources(nn) ==
  [kind \in PolicyKinds \union {"HTTPRoute", "ReferenceGrant"} |->
     CASE kind = "HTTPRoute" -> {reported[nn][i] : i \in DOMAIN reported[nn]}
                                  \union {d.id : d \in DestinationsOf(nn, kind)}
       [] kind = "ReferenceGrant" -> {}
       [] OTHER -> {d.id : d \in DestinationsOf(nn, kind)}]

(* annotations: the sections by status.  Annotations that are ignored, or   *)
(* that no handler has given a status, are in none.                         *)
SectionStatus ==
  [completed |-> Completed, warnings |-> Warning, failed |-> Error, unsupported |-> NotSupported]

AnnotationSections(nn) ==
  [s \in DOMAIN SectionStatus |->
     {k \in DOMAIN anno[nn] : anno[nn][k].status = SectionStatus[s]}]

newIngress(nn) ==
  [resources |-> MigratedResources(nn), annotations |-> AnnotationSections(nn)]

-----------------------------------------------------------------------------

InGraph(kind) ==
  CASE kind = "RoutePolicy"       -> DOMAIN routePolicies
    [] kind = "WAFPolicy"         -> DOMAIN routeWAF
    [] kind = "HealthCheckPolicy" -> DOMAIN healthPolicies
    [] kind = "BackendTLSPolicy"  -> DOMAIN backendTLS
    [] kind = "FrontendTLSPolicy" -> DOMAIN frontendTLS

(* Nothing that is written comes out of nowhere: every route and policy of  *)
(* the graph is listed in the report of some Ingress, and every annotation  *)
(* that has led to a resource, or met an issue, is in exactly one section.  *)
ReportAccountsForGraph ==
  Done =>
    LET reports == [nn \in Ingresses |-> newIngress(nn)]
        listed(kind) == UNION {reports[nn].resources[kind] : nn \in Ingresses}
    IN  /\ DOMAIN graphRoutes \subseteq listed("HTTPRoute")
        /\ \A kind \in PolicyKinds : InGraph(kind) \subseteq listed(kind)
        /\ \A nn \in Ingresses : \A k \in DOMAIN anno[nn] :
             anno[nn][k].dests # {} \/ anno[nn][k].issues # {} =>
               Cardinality({s \in DOMAIN SectionStatus : k \in reports[nn].annotations[s]}) = 1
=============================================================================
