------------------------------ MODULE Aggregation ------------------------------
(***************************************************************************)
(* Aggregator: collecting the Ingresses, the rewrite rule sets and the WAF *)
(* policy, from a cluster or from files.                                   *)
(*                                                                         *)
(* A cluster is read call by call, and the AGIC pods come and go between   *)
(* the calls.  Files are read twice, first for Ingresses and then for      *)
(* rewrite rule sets, in the order the unordered set of paths gave once.   *)
(***************************************************************************)
EXTENDS MigrationRun, LogScraping

CONSTANTS
  DefaultIngressClassName,   \* "azure/application-gateway"
  MaxPodChanges              \* how often pods come or go during a run

VARIABLES
  pods,        \* the labels that select an AGIC pod at the moment
  podChanges,  \* how often that has changed
  label,       \* clusterLabel
  configMap,   \* AGICConfigMap
  paths,       \* the file paths in the order they are read
  next,        \* index of the next path to read
  ingresses,   \* the Ingresses by namespaced name
  rewrites,    \* the rewrite rule sets by namespaced name
  logRead,     \* the part of the log that has been read
  wafPolicyID  \* AGICResources.WAFPolicyID

aggregationVars ==
  <<pods, podChanges, label, configMap, paths, next, ingresses, rewrites, logRead,
    wafPolicyID>>

HelmLabel   == "app=ingress-azure"
AddonLabel  == "app=ingress-appgw"
NoLabel     == ""
NoConfigMap == [class |-> NoClass, controller |-> NoClass, sku |-> ""]

AggregationInit ==
  /\ pods = input.pods
  /\ podChanges = 0
  /\ label = NoLabel
  /\ configMap = NoConfigMap
  /\ paths = <<>>
  /\ next = 1
  /\ ingresses = [nn \in {} |-> nn]
  /\ rewrites = [nn \in {} |-> nn]
  /\ logRead = <<>>
  /\ wafPolicyID = NoID

-----------------------------------------------------------------------------
(* Ingress classes.                                                          *)

(* common.GetIngressClass of ingress2gateway: the field before the legacy   *)
(* annotation.                                                              *)
GetIngressClass(ing) == IF ing.spec # NoClass THEN ing.spec ELSE ing.legacy

ConfiguredClass(cm) == IF cm.class # NoClass THEN cm.class ELSE cm.controller

ingressClassName(cm) ==
  IF class # NoClass THEN class
  ELSE IF ConfiguredClass(cm) # NoClass THEN ConfiguredClass(cm)
  ELSE DefaultIngressClassName

(* MigrateCluster takes no provider for AGIC, and aggregates accordingly.    *)
ClusterProvider == IF input.provider = NoProvider THEN AGIC ELSE input.provider

(* With NGINX the class is fixed, whatever --ingress-class says.             *)
ClusterClass == IF ClusterProvider = AGIC THEN ingressClassName(configMap) ELSE NGINX

-----------------------------------------------------------------------------
(* AggregateFromCluster.                                                     *)

(* The pods are rescheduled: those of one label appear or disappear.         *)
PodsChange ==
  /\ exit = Running
  /\ podChanges < MaxPodChanges
  /\ podChanges' = podChanges + 1
  /\ \E l \in {HelmLabel, AddonLabel} :
       pods' = (pods \union {l}) \ (pods \intersect {l})
  /\ UNCHANGED <<runVars, label, configMap, paths, next, ingresses, rewrites, logRead,
                 wafPolicyID>>

Connect ==
  /\ stage = "connect"
  /\ \/ FailAt("connect")
     \/ ClusterProvider \notin {AGIC, NGINX} /\ Reject
     \/ ClusterProvider = NGINX /\ Proceed("ingresses")
     \/ /\ ClusterProvider = AGIC
        /\ Proceed(IF input.label # NoLabel THEN "configMap" ELSE "helmLabel")
  /\ label' = input.label
  /\ UNCHANGED <<input, class, pods, podChanges, configMap, paths, next, ingresses, rewrites,
                 logRead, wafPolicyID>>

(* findClusterLabel: a label counts as absent when its pods cannot be listed.*)
TestHelmLabel ==
  /\ stage = "helmLabel"
  /\ \/ HelmLabel \in pods /\ Proceed("configMap") /\ label' = HelmLabel
     \/ HelmLabel \notin pods /\ Proceed("addonLabel") /\ UNCHANGED label
     \/ ProceedDespite("helmLabel", "addonLabel") /\ UNCHANGED label
  /\ UNCHANGED <<input, class, pods, podChanges, configMap, paths, next, ingresses, rewrites,
                 logRead, wafPolicyID>>

TestAddonLabel ==
  /\ stage = "addonLabel"
  /\ \/ AddonLabel \in pods /\ Proceed("configMap") /\ label' = AddonLabel
     \/ AddonLabel \notin pods /\ Reject /\ UNCHANGED label
     \/ FailAt("addonLabel") /\ UNCHANGED label
  /\ UNCHANGED <<input, class, pods, podChanges, configMap, paths, next, ingresses, rewrites,
                 logRead, wafPolicyID>>

loadAGICConfigMap ==
  /\ stage = "configMap"
  /\ \/ FailAt("configMap") /\ UNCHANGED configMap
     \/ Len(input.configMaps[label]) # 1 /\ Reject /\ UNCHANGED configMap
     \/ /\ Len(input.configMaps[label]) = 1
        /\ configMap' = Head(input.configMaps[label])
        /\ Proceed("ingresses")
  /\ UNCHANGED <<input, class, pods, podChanges, label, paths, next, ingresses, rewrites,
                 logRead, wafPolicyID>>

collectIngressesFromCluster ==
  /\ stage = "ingresses"
  /\ \/ FailAt("ingresses") /\ UNCHANGED ingresses
     \/ /\ ingresses' =
             [nn \in {n \in DOMAIN input.ingresses :
                        GetIngressClass(input.ingresses[n]) = ClusterClass} |->
                input.ingresses[nn]]
        /\ Proceed(IF ClusterProvider = AGIC THEN "rewrites" ELSE "provider")
  /\ UNCHANGED <<input, class, pods, podChanges, label, configMap, paths, next, rewrites,
                 logRead, wafPolicyID>>

collectRewriteRuleSetsFromCluster ==
  /\ stage = "rewrites"
  /\ \/ FailAt("rewrites") /\ UNCHANGED rewrites
     \/ /\ rewrites' = input.rewrites
        /\ Proceed(IF configMap.sku \in {"WAF_v2", ""} THEN "logs" ELSE "provider")
  /\ UNCHANGED <<input, class, pods, podChanges, label, configMap, paths, next, ingresses,
                 logRead, wafPolicyID>>

(* The pods are listed once more and the log of one is read as far as it    *)
(* goes, or up to a read error.  No error of this step ends the run; only a *)
(* panic does.                                                              *)
OpenLogFails ==
  /\ stage = "logs"
  /\ \/ label \notin pods /\ Proceed("provider")
     \/ ProceedDespite("logs", "provider")
  /\ UNCHANGED <<input, class, aggregationVars>>

(* What closing the log stream may add to the faults.                        *)
CloseFaults == {{}, {"closeLog"}}

(* No ID when the block cannot be parsed, or when reading ended in an error. *)
WAFPolicyOf(lines, complete) ==
  IF complete /\ ValidJSON(ConfigBlock(lines)) THEN PolicyID(ConfigBlock(lines)) ELSE NoID

scrapeAGICLogsForWAFPolicyID ==
  /\ stage = "logs"
  /\ label \in pods
  /\ \E n \in 0 .. Len(input.log), complete \in BOOLEAN :
       LET lines == SubSeq(input.log, 1, n)
       IN  /\ logRead' = lines
           /\ \/ /\ ScrapePanics(lines)
                 /\ stage' = "ended"
                 /\ exit' = Panicked
                 /\ UNCHANGED <<faults, wafPolicyID>>
              \/ /\ ~ScrapePanics(lines)
                 /\ wafPolicyID' = WAFPolicyOf(lines, complete)
                 /\ stage' = "provider"
                 /\ \E lost \in CloseFaults :
                      faults' = faults \union lost
                                  \union (IF complete THEN {} ELSE {"logs"})
                 /\ UNCHANGED exit
  /\ UNCHANGED <<input, class, pods, podChanges, label, configMap, paths, next, ingresses,
                 rewrites>>

-----------------------------------------------------------------------------
(* AggregateFromFiles.                                                       *)

(* The set of paths comes out as a list in any order.                        *)
ExpandedArgs == ExpandedArgsOf(input)

expandFileAndDirArgs ==
  /\ stage = "expand"
  /\ \/ FailAt("expand") /\ UNCHANGED paths
     \/ ExpandedArgs = {} /\ Reject /\ UNCHANGED paths
     \/ /\ ExpandedArgs # {}
        /\ paths' \in SetToSeqs(ExpandedArgs)
        /\ Proceed("ingressFiles")
  /\ UNCHANGED <<input, class, pods, podChanges, label, configMap, next, ingresses, rewrites,
                 logRead, wafPolicyID>>

Document(path, i) == input.documents[path][i]

(* Seeded fault: a later document of another class drops the Ingress.        *)
IngressesWithDropping(path, collected) ==
  LET docs == input.documents[path]
      collect[n \in 0 .. Len(docs)] ==
        IF n = 0 THEN collected
        ELSE IF docs[n].kind = "Ingress"
          THEN IF GetIngressClass(docs[n]) = ingressClassName(NoConfigMap)
                 THEN InsertInto(collect[n - 1], docs[n].nn, docs[n])
                 ELSE [nn \in DOMAIN collect[n - 1] \ {docs[n].nn} |-> collect[n - 1][nn]]
          ELSE collect[n - 1]
  IN  collect[Len(docs)]

(* The Ingresses of the wanted class a file adds to, or replaces among,     *)
(* those collected so far.                                                  *)
IngressesWith(path, collected) ==
  LET docs == input.documents[path]
      collect[n \in 0 .. Len(docs)] ==
        IF n = 0 THEN collected
        ELSE IF /\ docs[n].kind = "Ingress"
                /\ GetIngressClass(docs[n]) = ingressClassName(NoConfigMap)
          THEN InsertInto(collect[n - 1], docs[n].nn, docs[n])
          ELSE collect[n - 1]
  IN  collect[Len(docs)]

(* The error of closing a file is only logged.                               *)
collectIngressesFromFiles ==
  /\ stage = "ingressFiles"
  /\ \/ /\ next \in DOMAIN paths
        /\ FailAt("ingressFile")
        /\ UNCHANGED <<next, ingresses>>
     \/ /\ next \in DOMAIN paths
        /\ ingresses' = IngressesWith(paths[next], ingresses)
        /\ next' = next + 1
        /\ \/ Proceed("ingressFiles")
           \/ ProceedDespite("closeFile", "ingressFiles")
     \/ /\ next \notin DOMAIN paths
        /\ next' = 1
        /\ Proceed("rewriteFiles")
        /\ UNCHANGED ingresses
  /\ UNCHANGED <<input, class, pods, podChanges, label, configMap, paths, rewrites, logRead,
                 wafPolicyID>>

(* Unmarshalling a file decodes its first document only; it counts if it is *)
(* a rewrite rule set.                                                      *)
RewritesWith(path, collected) ==
  LET docs == input.documents[path]
  IN  IF docs # <<>> /\ Head(docs).kind = "Rewrite"
        THEN InsertInto(collected, Head(docs).nn, Head(docs)) ELSE collected

(* Seeded fault: a file that cannot be read for rewrites is skipped.         *)
collectRewriteRuleSetsFromFilesSkipping ==
  /\ stage = "rewriteFiles"
  /\ \/ /\ next \in DOMAIN paths
        /\ faults' = faults \union {"rewriteFile"}
        /\ next' = next + 1
        /\ UNCHANGED <<stage, exit, rewrites>>
     \/ /\ next \in DOMAIN paths
        /\ rewrites' = RewritesWith(paths[next], rewrites)
        /\ next' = next + 1
        /\ Proceed("rewriteFiles")
     \/ /\ next \notin DOMAIN paths
        /\ Proceed("provider")
        /\ UNCHANGED <<next, rewrites>>
  /\ UNCHANGED <<input, class, pods, podChanges, label, configMap, paths, ingresses, logRead,
                 wafPolicyID>>

collectRewriteRuleSetsFromFiles ==
  /\ stage = "rewriteFiles"
  /\ \/ /\ next \in DOMAIN paths
        /\ FailAt("rewriteFile")
        /\ UNCHANGED <<next, rewrites>>
     \/ /\ next \in DOMAIN paths
        /\ rewrites' = RewritesWith(paths[next], rewrites)
        /\ next' = next + 1
        /\ Proceed("rewriteFiles")
     \/ /\ next \notin DOMAIN paths
        /\ Proceed("provider")
        /\ UNCHANGED <<next, rewrites>>
  /\ UNCHANGED <<input, class, pods, podChanges, label, configMap, paths, ingresses, logRead,
                 wafPolicyID>>

AggregationStep ==
  \/ Connect
  \/ TestHelmLabel
  \/ TestAddonLabel
  \/ loadAGICConfigMap
  \/ collectIngressesFromCluster
  \/ collectRewriteRuleSetsFromCluster
  \/ OpenLogFails
  \/ scrapeAGICLogsForWAFPolicyID
  \/ expandFileAndDirArgs
  \/ collectIngressesFromFiles
  \/ collectRewriteRuleSetsFromFiles
=============================================================================
