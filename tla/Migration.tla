------------------------------- MODULE Migration -------------------------------
(***************************************************************************)
(* The whole run: the command, the aggregation, the choice of the provider,*)
(* the conversion and the report, the output.                              *)
(*                                                                         *)
(* The conversion, which other modules of this project model in full, is   *)
(* one step here: what counts is which resources a graph holds and which   *)
(* of them refer to which.  An Ingress says which kinds of policies the    *)
(* handlers of either provider attach for it.                              *)
(***************************************************************************)
EXTENDS Aggregation, Output

CONSTANTS
  AGICClasses,            \* classes that contain "agic"
  FirstNamespace(_),      \* the namespace of the first Ingress in order
  Lower(_)                \* strings.ToLower

ASSUME LowerAssumption ==
  /\ Lower(NoProvider) = NoProvider /\ Lower(AGIC) = AGIC /\ Lower(NGINX) = NGINX
  /\ \A in \in Inputs : Lower(in.provider) = NoProvider => in.provider = NoProvider

VARIABLE provider         \* the provider makeProvider has made

vars == <<runVars, aggregationVars, outputVars, provider>>

-----------------------------------------------------------------------------
(* The choice of the provider.                                               *)

(* What detectProvider takes an Ingress for.                                 *)
VoteOf(ing) ==
  IF Lower(ing.spec) = NGINX THEN NGINX
  ELSE IF Lower(ing.spec) \in AGICClasses \union {"azure-application-gateway"} THEN AGIC
  ELSE IF Lower(ing.legacy) = NGINX THEN NGINX
  ELSE IF Lower(ing.legacy) \in AGICClasses \union {"azure/application-gateway"} THEN AGIC
  ELSE NoProvider

(* Seeded fault: the first Ingress decides, even if its class is unknown.   *)
DetectableFirst ==
  IF DOMAIN ingresses = {} THEN {NoProvider}
  ELSE {VoteOf(ingresses[nn]) : nn \in DOMAIN ingresses}

(* What detectProvider may return: the class of the Ingress with a known    *)
(* class that comes first in map order.                                     *)
Detectable ==
  LET votes == {VoteOf(ingresses[nn]) : nn \in DOMAIN ingresses} \ {NoProvider}
  IN  IF votes = {} THEN {NoProvider} ELSE votes

Names == IF input.provider # NoProvider THEN {input.provider} ELSE Detectable

makeProvider ==
  /\ stage = "provider"
  /\ \E name \in Names :
       \/ Lower(name) \in {NoProvider, AGIC} /\ provider' = AGIC /\ Proceed("convert")
       \/ Lower(name) = NGINX /\ provider' = NGINX /\ Proceed("convert")
       \/ Lower(name) \notin {NoProvider, AGIC, NGINX} /\ Reject /\ UNCHANGED provider
  /\ UNCHANGED <<input, class, aggregationVars, outputVars>>

-----------------------------------------------------------------------------
(* Convert and NewReport.                                                    *)

GatewayNamespace == FirstNamespace({nn.ns : nn \in DOMAIN ingresses})

ResourceOf(kind, ns, name, refs) == [kind |-> kind, ns |-> ns, name |-> name, refs |-> refs]

ALB == ResourceOf("applicationloadbalancer", GatewayNamespace, "alb", {})

Gateway ==
  ResourceOf("gateway", GatewayNamespace, "alb-gateway",
             IF input.managed THEN {Key(ALB)} ELSE {})

GatewayWAF ==
  ResourceOf("wafpolicy", GatewayNamespace, "alb-gateway", {Key(Gateway)})

Route(nn) == ResourceOf("httproute", nn.ns, nn.name, {Key(Gateway)})

(* Policies of a route refer to it, a policy of a listener to the Gateway;  *)
(* those of a service and grants refer to nothing that is written.          *)
Attached(kind, nn) ==
  ResourceOf(kind, nn.ns, nn.name,
             IF kind \in {"routepolicy", "wafpolicy"} THEN {Key(Route(nn))}
             ELSE IF kind = "frontendtlspolicy" THEN {Key(Gateway)}
             ELSE {})

AttachedKinds ==
  {"routepolicy", "wafpolicy", "frontendtlspolicy", "healthcheckpolicy", "backendtlspolicy",
   "referencegrant"}

Converted ==
  {Gateway}
    \union (IF input.managed THEN {ALB} ELSE {})
    \union (IF input.wafID \/ wafPolicyID # NoID THEN {GatewayWAF} ELSE {})
    \union {Route(nn) : nn \in DOMAIN ingresses}
    \union {Attached(k[1], k[2]) :
              k \in {kn \in AttachedKinds \X DOMAIN ingresses :
                       kn[1] \in ingresses[kn[2]].attaches[provider]}}

(* The summary of NewReport: the names of every kind.                        *)
NewReport(g) ==
  [kind \in {Kinds[i] : i \in DOMAIN Kinds} |->
     {[ns |-> r.ns, name |-> r.name] : r \in {q \in g : q.kind = kind}}]

Convert ==
  /\ stage = "convert"
  /\ graph' = Converted
  /\ report' = NewReport(Converted)
  /\ Proceed("output")
  /\ UNCHANGED <<input, class, aggregationVars, provider, written, disk, initialized, reported>>

-----------------------------------------------------------------------------

Init ==
  /\ RunInit
  /\ AggregationInit
  /\ OutputInit
  /\ provider = NoProvider

Step ==
  \/ Setup /\ UNCHANGED <<aggregationVars, outputVars, provider>>
  \/ AggregationStep /\ UNCHANGED <<outputVars, provider>>
  \/ makeProvider
  \/ Convert
  \/ OutputStep /\ UNCHANGED <<aggregationVars, provider>>

Ended == stage = "ended" /\ UNCHANGED vars

Next ==
  \/ Step
  \/ PodsChange /\ UNCHANGED <<outputVars, provider>>
  \/ Ended

(* Every call returns, with an answer or an error.                           *)
Spec == Init /\ [][Next]_vars /\ WF_vars(Step)
=============================================================================
