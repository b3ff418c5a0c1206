---------------------------- MODULE MigrationProofs ----------------------------
(***************************************************************************)
(* Proofs about a whole run, for every command line, every set of files    *)
(* and every cluster: which failures end it, what is collected from files  *)
(* and from the log, what the provider is chosen by, and that the output is*)
(* complete and in an order that can be applied.                           *)
(*                                                                         *)
(* For the invariant of the output all actions before the provider is      *)
(* chosen are treated as one, Early: they only collect.  What they collect *)
(* has an invariant of its own, which follows the recursion over the       *)
(* documents of a file, and over the lines of the log.                     *)
(***************************************************************************)
EXTENDS MigrationProperties, FiniteSetTheorems, SequenceTheorems, WellFoundedInduction, TLAPS

EarlyStages ==
  {"setup", "connect", "helmLabel", "addonLabel", "configMap", "ingresses", "rewrites",
   "logs", "expand", "ingressFiles", "rewriteFiles"}

OutputStages == {"output", "write"}

KindSet == {Kinds[i] : i \in DOMAIN Kinds}

-----------------------------------------------------------------------------
(* The inductive invariant.                                                  *)

FlagsInv ==
  /\ input \in Inputs
  /\ stage \notin {"setup", "ended"} => ~(input.outputDir /\ input.outputFile)

(* Until the log has been read, no WAF policy is known.  What has failed in *)
(* a run that goes on is what it can do without, or closing the output file.*)
FaultsInv ==
  /\ stage \in EarlyStages => wafPolicyID = NoID /\ "logs" \notin faults
  /\ stage \notin OutputStages => "close" \notin faults \/ stage = "ended"
  /\ stage # "ended" =>
       /\ exit = Running
       /\ faults \subseteq Dispensable \union {"close"}
       /\ "logs" \in faults => wafPolicyID = NoID
       /\ "close" \in faults => ToOneFile /\ ~input.dryRun
  /\ OnlyNamedFailuresPass

ProviderInv ==
  /\ stage \in EarlyStages \union {"provider"} => provider = NoProvider
  /\ ProviderHasAWitness

(* What a resource refers to is of a kind that is written earlier.           *)
Grounded(r, g) ==
  /\ r.kind \in KindSet
  /\ \A key \in r.refs :
       \E q \in g : Key(q) = key /\ Position(q.kind) < Position(r.kind)

GraphInv ==
  /\ stage \notin OutputStages \union {"ended"} =>
       graph = {} /\ report = NoReport /\ written = {} /\ reported = FALSE
  /\ stage \in OutputStages => graph # {} /\ report = NewReport(graph) /\ reported = FALSE
  /\ \A r \in graph : Grounded(r, graph)
  /\ written \subseteq graph
  /\ input.dryRun => written = {}

(* A file of the output directory holds the resource written to it last.     *)
DirectoryHolds ==
  \A q \in written :
    /\ Destination(q) \in DOMAIN disk
    /\ \E p \in graph : Destination(p) = Destination(q) /\ disk[Destination(q)] = <<p>>

(* The one file holds everything written so far, and nothing else; after a  *)
(* close that has failed, anything of it may be torn.                        *)
FileHolds(path) ==
  written # {} =>
    /\ path \in DOMAIN disk
    /\ disk[path] \in Seq(graph \union {Torn})
    /\ "close" \notin faults => DocumentsAt(path) = written

DiskInv ==
  /\ input.dryRun => disk = input.disk
  /\ stage \notin OutputStages \union {"ended"} => disk = input.disk /\ ~initialized
  /\ stage \in OutputStages =>
       /\ input.outputDir => DirectoryHolds
       /\ ~input.outputDir /\ input.outputFile =>
            FileHolds(OutputFile) /\ (initialized <=> written # {})
       /\ ~input.outputDir /\ ~input.outputFile =>
            FileHolds(Stdout) /\ (written = {} => Stdout \notin DOMAIN disk)

IInv ==
  FlagsInv /\ FaultsInv /\ ProviderInv /\ GraphInv /\ DiskInv /\ OutputIsComplete

-----------------------------------------------------------------------------
(* Collecting.                                                               *)

Early ==
  \/ Setup /\ UNCHANGED <<aggregationVars, outputVars, provider>>
  \/ AggregationStep /\ UNCHANGED <<outputVars, provider>>

(* What all actions that collect have in common: they change nothing of the *)
(* output, and go on without a new fault, except one they can do without,   *)
(* or end the run without success.                                          *)
Collects ==
  /\ stage \in EarlyStages
  /\ UNCHANGED <<input, outputVars, provider>>
  /\ stage = "setup" /\ stage' # "ended" => ~(input.outputDir /\ input.outputFile)
  /\ \/ /\ stage' \in (EarlyStages \ {"setup"}) \union {"provider"}
        /\ exit' = exit
        /\ faults' \subseteq faults \union Dispensable
        /\ stage' # "provider" => wafPolicyID' = wafPolicyID /\ ("logs" \in faults' => "logs" \in faults)
        /\ "logs" \in faults' => "logs" \in faults \/ wafPolicyID' \in {wafPolicyID, NoID}
     \/ /\ stage' = "ended"
        /\ exit' \in {Failure, Panicked}

LEMMA EarlyCollects == Early => Collects
<1> SUFFICES ASSUME Early PROVE Collects
  OBVIOUS
<1> USE DEF Collects, EarlyStages, Dispensable, outputVars, aggregationVars, Proceed, ProceedDespite,
            Abort, FailAt, Reject
<1>1. CASE Setup /\ UNCHANGED <<aggregationVars, outputVars, provider>>
  BY <1>1, Zenon DEF Setup, Contradictory
<1>2. CASE AggregationStep /\ UNCHANGED <<outputVars, provider>>
  <2>1. CASE Connect
    BY <1>2, <2>1, Zenon DEF Connect
  <2>2. CASE TestHelmLabel
    BY <1>2, <2>2, Zenon DEF TestHelmLabel
  <2>3. CASE TestAddonLabel
    BY <1>2, <2>3, Zenon DEF TestAddonLabel
  <2>4. CASE loadAGICConfigMap
    BY <1>2, <2>4, Zenon DEF loadAGICConfigMap
  <2>5. CASE collectIngressesFromCluster
    BY <1>2, <2>5, Zenon DEF collectIngressesFromCluster
  <2>6. CASE collectRewriteRuleSetsFromCluster
    BY <1>2, <2>6, Zenon DEF collectRewriteRuleSetsFromCluster
  <2>7. CASE OpenLogFails
    BY <1>2, <2>7, Zenon DEF OpenLogFails
  <2>8. CASE scrapeAGICLogsForWAFPolicyID
    <3>1. PICK n \in 0 .. Len(input.log), complete \in BOOLEAN, lost \in CloseFaults :
            \/ stage' = "ended" /\ exit' = Panicked
            \/ /\ stage' = "provider" /\ exit' = exit
               /\ wafPolicyID' = WAFPolicyOf(SubSeq(input.log, 1, n), complete)
               /\ faults' = faults \union lost \union (IF complete THEN {} ELSE {"logs"})
      BY <2>8, Zenon DEF scrapeAGICLogsForWAFPolicyID, CloseFaults
    <3>2. stage = "logs" /\ UNCHANGED <<input, outputVars, provider>>
      BY <1>2, <2>8, Zenon DEF scrapeAGICLogsForWAFPolicyID
    <3>3. ~complete => WAFPolicyOf(SubSeq(input.log, 1, n), complete) = NoID
      BY Zenon DEF WAFPolicyOf
    <3>4. lost \subseteq Dispensable /\ "logs" \notin lost
      BY DEF CloseFaults
    <3> QED
      BY <3>1, <3>2, <3>3, <3>4
  <2>9. CASE expandFileAndDirArgs
    BY <1>2, <2>9, Zenon DEF expandFileAndDirArgs
  <2>10. CASE collectIngressesFromFiles
    BY <1>2, <2>10, Zenon DEF collectIngressesFromFiles
  <2>11. CASE collectRewriteRuleSetsFromFiles
    BY <1>2, <2>11, Zenon DEF collectRewriteRuleSetsFromFiles
  <2> QED
    BY <1>2, <2>1, <2>2, <2>3, <2>4, <2>5, <2>6, <2>7, <2>8, <2>9, <2>10, <2>11
    DEF AggregationStep
<1> QED
  BY <1>1, <1>2 DEF Early

-----------------------------------------------------------------------------
(* The order of the kinds.                                                   *)

LEMMA KindsApart ==
  /\ DOMAIN Kinds = 1 .. 9
  /\ \A i, j \in 1 .. 9 : Kinds[i] = Kinds[j] => i = j
  BY DEF Kinds

LEMMA PositionOfKind == \A i \in 1 .. 9 : Position(Kinds[i]) = i
<1> SUFFICES ASSUME NEW i \in 1 .. 9 PROVE Position(Kinds[i]) = i
  OBVIOUS
<1> DEFINE Right(j) == j \in DOMAIN Kinds /\ Kinds[j] = Kinds[i]
<1>1. \A j : Right(j) <=> j = i
  BY KindsApart
<1>2. (CHOOSE j : Right(j)) = i
  <2> HIDE DEF Right
  <2> QED
    BY <1>1
<1> QED
  BY <1>2, Zenon DEF Position

LEMMA Positions ==
  /\ Position("applicationloadbalancer") = 1
  /\ Position("gateway") = 2
  /\ Position("httproute") = 3
  /\ Position("routepolicy") = 5
  /\ Position("wafpolicy") = 7
  /\ Position("frontendtlspolicy") = 9
<1> USE PositionOfKind
<1>1. /\ Kinds[1] = "applicationloadbalancer"
      /\ Kinds[2] = "gateway"
      /\ Kinds[3] = "httproute"
      /\ Kinds[5] = "routepolicy"
      /\ Kinds[7] = "wafpolicy"
      /\ Kinds[9] = "frontendtlspolicy"
  BY DEF Kinds
<1>2. 1 \in 1 .. 9 /\ 2 \in 1 .. 9 /\ 3 \in 1 .. 9 /\ 5 \in 1 .. 9 /\ 7 \in 1 .. 9 /\ 9 \in 1 .. 9
  OBVIOUS
<1> QED
  BY <1>1, <1>2, Zenon

LEMMA KindSetIs ==
  KindSet = {"applicationloadbalancer", "gateway", "httproute", "referencegrant",
             "routepolicy", "healthcheckpolicy", "wafpolicy", "backendtlspolicy",
             "frontendtlspolicy"}
  BY DEF KindSet, Kinds

LEMMA PositionIsNatural == \A kind \in KindSet : Position(kind) \in Nat
  BY KindsApart, PositionOfKind DEF KindSet

(* The graph of a conversion can be written in the order of its kinds.       *)
LEMMA ConvertedIsGrounded == \A r \in Converted : Grounded(r, Converted)
<1> SUFFICES ASSUME NEW r \in Converted PROVE Grounded(r, Converted)
  OBVIOUS
<1> DEFINE Attachments ==
      {Attached(k[1], k[2]) : k \in {kn \in AttachedKinds \X DOMAIN ingresses :
                                       kn[1] \in ingresses[kn[2]].attaches[provider]}}
<1>1. Gateway \in Converted
  BY Zenon DEF Converted
<1>2. input.managed => ALB \in Converted
  BY Zenon DEF Converted
<1>3. \A nn \in DOMAIN ingresses : Route(nn) \in Converted
  BY Zenon DEF Converted
<1>4. CASE r = ALB
  BY <1>4, KindSetIs DEF ALB, ResourceOf, Grounded
<1>5. CASE r = Gateway
  <2>1. r.kind = "gateway" /\ r.refs = IF input.managed THEN {Key(ALB)} ELSE {}
    BY <1>5 DEF Gateway, ResourceOf
  <2>2. ALB.kind = "applicationloadbalancer"
    BY DEF ALB, ResourceOf
  <2>3. Position(ALB.kind) < Position(r.kind)
    BY <2>1, <2>2, Positions
  <2> QED
    BY <1>2, <2>1, <2>3, KindSetIs DEF Grounded
<1>6. CASE r = GatewayWAF
  <2>1. r.kind = "wafpolicy" /\ r.refs = {Key(Gateway)}
    BY <1>6 DEF GatewayWAF, ResourceOf
  <2>2. Gateway.kind = "gateway"
    BY DEF Gateway, ResourceOf
  <2>3. Position(Gateway.kind) < Position(r.kind)
    BY <2>1, <2>2, Positions
  <2> QED
    BY <1>1, <2>1, <2>3, KindSetIs DEF Grounded
<1>7. ASSUME NEW nn \in DOMAIN ingresses, r = Route(nn) PROVE Grounded(r, Converted)
  <2>1. r.kind = "httproute" /\ r.refs = {Key(Gateway)}
    BY <1>7 DEF Route, ResourceOf
  <2>2. Gateway.kind = "gateway"
    BY DEF Gateway, ResourceOf
  <2>3. Position(Gateway.kind) < Position(r.kind)
    BY <2>1, <2>2, Positions
  <2> QED
    BY <1>1, <2>1, <2>3, KindSetIs DEF Grounded
<1>8. ASSUME NEW kind \in AttachedKinds, NEW nn \in DOMAIN ingresses, r = Attached(kind, nn)
      PROVE  Grounded(r, Converted)
  <2>1. /\ r.kind = kind
        /\ r.refs = IF kind \in {"routepolicy", "wafpolicy"} THEN {Key(Route(nn))}
                    ELSE IF kind = "frontendtlspolicy" THEN {Key(Gateway)}
                    ELSE {}
    BY <1>8 DEF Attached, ResourceOf
  <2>2. Gateway.kind = "gateway" /\ Route(nn).kind = "httproute"
    BY DEF Gateway, Route, ResourceOf
  <2>3. r.kind \in KindSet
    BY <2>1, KindSetIs DEF AttachedKinds
  <2>4. CASE kind \in {"routepolicy", "wafpolicy"}
    <3>1. Position(Route(nn).kind) < Position(r.kind)
      BY <2>1, <2>2, <2>4, Positions
    <3> QED
      BY <1>3, <2>1, <2>3, <2>4, <3>1 DEF Grounded
  <2>5. CASE kind = "frontendtlspolicy"
    <3>1. Position(Gateway.kind) < Position(r.kind)
      BY <2>1, <2>2, <2>5, Positions
    <3> QED
      BY <1>1, <2>1, <2>3, <2>5, <3>1 DEF Grounded
  <2>6. CASE kind \notin {"routepolicy", "wafpolicy", "frontendtlspolicy"}
    BY <2>1, <2>3, <2>6 DEF Grounded
  <2> QED
    BY <2>4, <2>5, <2>6
<1>9. \/ r \in {Gateway, ALB, GatewayWAF}
      \/ \E nn \in DOMAIN ingresses : r = Route(nn)
      \/ r \in Attachments
  BY Zenon DEF Converted
<1>10. r \in Attachments =>
         \E kind \in AttachedKinds, nn \in DOMAIN ingresses : r = Attached(kind, nn)
  OBVIOUS
<1> QED
  BY <1>4, <1>5, <1>6, <1>7, <1>8, <1>9, <1>10

LEMMA TornIsNoResource == \A g : (\A r \in g : Grounded(r, g)) => Torn \notin g
<1>1. Torn.kind \notin KindSet
  BY KindSetIs DEF Torn
<1> QED
  BY <1>1 DEF Grounded

-----------------------------------------------------------------------------
(* Every action keeps the invariant.                                         *)

LEMMA InitIInv == Init => IInv
<1> SUFFICES ASSUME Init PROVE IInv
  OBVIOUS
<1> USE DEF Init, RunInit, OutputInit, OutputStages
<1>1. FlagsInv
  BY DEF FlagsInv
<1>2. FaultsInv
  BY DEF AggregationInit, FaultsInv, OnlyNamedFailuresPass, Running, Success
<1>3. ProviderInv
  BY DEF ProviderInv, ProviderHasAWitness, NoProvider, AGIC, NGINX
<1>4. GraphInv
  BY DEF GraphInv
<1>5. DiskInv
  BY DEF DiskInv
<1>6. OutputIsComplete
  BY DEF OutputIsComplete, Running, Success
<1> QED
  BY <1>1, <1>2, <1>3, <1>4, <1>5, <1>6 DEF IInv

LEMMA EarlyKeepsIInv == IInv /\ Early => IInv'
<1> SUFFICES ASSUME IInv, Early PROVE IInv'
  OBVIOUS
<1>1. Collects
  BY EarlyCollects
<1>2. /\ stage \in EarlyStages /\ stage \notin OutputStages \union {"ended"}
      /\ stage' \notin OutputStages
      /\ exit' # Success
      /\ exit = Running /\ faults \subseteq Dispensable
      /\ wafPolicyID = NoID /\ "logs" \notin faults
      /\ graph = {} /\ report = NoReport /\ written = {} /\ ~reported
      /\ disk = input.disk /\ ~initialized
      /\ provider = NoProvider
  <2>1. stage \in EarlyStages /\ stage \notin OutputStages \union {"ended"}
    BY <1>1 DEF Collects, EarlyStages, OutputStages
  <2>2. stage' \notin OutputStages
    BY <1>1 DEF Collects, EarlyStages, OutputStages
  <2>3. /\ exit = Running /\ faults \subseteq Dispensable
        /\ wafPolicyID = NoID /\ "logs" \notin faults
    BY <2>1 DEF IInv, FaultsInv
  <2>4. exit' # Success
    BY <1>1, <2>3 DEF Collects, Running, Success, Failure, Panicked
  <2>5. graph = {} /\ report = NoReport /\ written = {} /\ ~reported
    BY <2>1, Zenon DEF IInv, GraphInv
  <2>6. disk = input.disk /\ ~initialized
    BY <2>1, Zenon DEF IInv, DiskInv
  <2>7. provider = NoProvider
    BY <2>1, Zenon DEF IInv, ProviderInv
  <2> QED
    BY <2>1, <2>2, <2>3, <2>4, <2>5, <2>6, <2>7
<1>3. /\ input' = input /\ provider' = provider /\ graph' = graph /\ report' = report
      /\ written' = written /\ disk' = disk /\ initialized' = initialized
      /\ reported' = reported
  BY <1>1 DEF Collects, outputVars
<1>4. FlagsInv'
  BY <1>1, <1>2, <1>3, Zenon DEF IInv, FlagsInv, Collects
<1>5. FaultsInv'
  <2>1. stage' # "ended" =>
          /\ exit' = Running /\ faults' \subseteq Dispensable
          /\ "logs" \in faults' => wafPolicyID' = NoID
          /\ stage' # "provider" => wafPolicyID' = NoID /\ "logs" \notin faults'
    BY <1>1, <1>2 DEF Collects
  <2>2. "close" \notin Dispensable /\ "provider" \notin EarlyStages /\ "ended" \notin EarlyStages
    BY DEF Dispensable, EarlyStages
  <2> QED
    BY <1>2, <2>1, <2>2 DEF FaultsInv, OnlyNamedFailuresPass
<1>6. ProviderInv'
  BY <1>2, <1>3 DEF ProviderInv, ProviderHasAWitness, NoProvider, AGIC, NGINX
<1>7. GraphInv'
  BY <1>2, <1>3 DEF GraphInv
<1>8. DiskInv'
  BY <1>2, <1>3 DEF DiskInv
<1>9. OutputIsComplete'
  BY <1>2, Zenon DEF OutputIsComplete
<1> QED
  BY <1>4, <1>5, <1>6, <1>7, <1>8, <1>9 DEF IInv

(* Everything IInv speaks of but ingresses, which matters while no provider *)
(* is chosen only.                                                          *)
LEMMA IdleKeepsIInv ==
  ASSUME IInv,
         UNCHANGED <<input, stage, exit, faults, ingresses, wafPolicyID, outputVars, provider>>
  PROVE  IInv'
<1>1. FlagsInv' /\ FaultsInv'
  BY DEF IInv, FlagsInv, FaultsInv, OnlyNamedFailuresPass, ToOneFile, outputVars
<1>2. ProviderInv'
  BY DEF IInv, ProviderInv, ProviderHasAWitness, NGINXAsked, AGICAsked
<1>3. GraphInv'
  BY DEF IInv, GraphInv, outputVars, Grounded, NewReport
<1>4. DiskInv'
  BY DEF IInv, DiskInv, outputVars, DirectoryHolds, FileHolds, Destination, DocumentsAt
<1>5. OutputIsComplete'
  <2>1. /\ exit' = exit /\ input' = input /\ disk' = disk /\ report' = report /\ graph' = graph
        /\ faults' = faults
    BY DEF outputVars
  <2>2. \A r : Destination(r)' = Destination(r)
    BY <2>1, Zenon DEF Destination
  <2>3. \A path : DocumentsAt(path)' = DocumentsAt(path)
    BY <2>1, Zenon DEF DocumentsAt
  <2>4. \A r : Sharing(r)' = Sharing(r)
    BY <2>1, <2>2, Zenon DEF Sharing
  <2> QED
    BY <2>1, <2>2, <2>3, <2>4, Zenon DEF IInv, OutputIsComplete
<1> QED
  BY <1>1, <1>2, <1>3, <1>4, <1>5 DEF IInv

(* The witness of the provider.                                              *)
LEMMA DetectedHasAWitness ==
  ASSUME NEW name \in Detectable
  PROVE  \/ name = NGINX /\ NGINXAsked
         \/ name = AGIC /\ AGICAsked
         \/ name = NoProvider /\ ~NGINXAsked
<1> DEFINE votes == {VoteOf(ingresses[nn]) : nn \in DOMAIN ingresses} \ {NoProvider}
<1> USE DEF NoProvider, NGINX, AGIC
<1>1. CASE votes = {}
  <2>1. \A nn \in DOMAIN ingresses : VoteOf(ingresses[nn]) = NoProvider
    BY <1>1
  <2>2. ASSUME NEW nn \in DOMAIN ingresses, Asks(ingresses[nn], {NGINX}) PROVE FALSE
    BY <2>1, <2>2 DEF Asks, VoteOf
  <2> QED
    BY <1>1, <2>2 DEF Detectable, NGINXAsked
<1>2. CASE votes # {}
  <2>1. PICK nn \in DOMAIN ingresses : name = VoteOf(ingresses[nn]) /\ name # NoProvider
    BY <1>2 DEF Detectable
  <2>2. name = NGINX => Asks(ingresses[nn], {NGINX})
    BY <2>1 DEF Asks, VoteOf
  <2>3. name = AGIC =>
          Asks(ingresses[nn], AGICClasses \union {"azure-application-gateway", "azure/application-gateway"})
    BY <2>1 DEF Asks, VoteOf
  <2>4. name \in {NGINX, AGIC}
    BY <2>1 DEF VoteOf
  <2> QED
    BY <2>2, <2>3, <2>4 DEF NGINXAsked, AGICAsked
<1> QED
  BY <1>1, <1>2

LEMMA makeProviderKeepsIInv == IInv /\ makeProvider => IInv'
<1> SUFFICES ASSUME IInv, makeProvider PROVE IInv'
  OBVIOUS
<1>1. /\ stage = "provider"
      /\ stage' \in {"convert", "ended"}
      /\ stage' = "ended" => exit' = Failure
      /\ stage' = "convert" => exit' = exit
      /\ faults' = faults
      /\ UNCHANGED <<input, ingresses, wafPolicyID, outputVars>>
  BY Zenon DEF makeProvider, Proceed, Reject, Abort, aggregationVars
<1>2. provider = NoProvider
  BY <1>1, Zenon DEF IInv, ProviderInv
<1>3. PICK name \in Names :
        \/ Lower(name) \in {NoProvider, AGIC} /\ provider' = AGIC
        \/ Lower(name) = NGINX /\ provider' = NGINX
        \/ provider' = provider
  BY Zenon DEF makeProvider
<1>4. exit' # Success
  BY <1>1 DEF IInv, FaultsInv, Running, Failure, Success
<1>5. FlagsInv'
  BY <1>1, Zenon DEF IInv, FlagsInv
<1>6. FaultsInv'
  BY <1>1, <1>4
  DEF IInv, FaultsInv, OnlyNamedFailuresPass, ToOneFile, EarlyStages, OutputStages
<1>7. ProviderInv'
  <2>1. stage' \notin EarlyStages \union {"provider"}
    BY <1>1 DEF EarlyStages
  <2>2. NGINXAsked' = NGINXAsked /\ AGICAsked' = AGICAsked
    BY <1>1, Zenon DEF NGINXAsked, AGICAsked
  <2>3. CASE provider' = NoProvider
    BY <2>1, <2>3 DEF ProviderInv, ProviderHasAWitness, NoProvider, AGIC, NGINX
  <2>4. CASE provider' # NoProvider /\ input.provider = NoProvider
    <3>1. name \in Detectable
      BY <2>4, Zenon DEF Names
    <3>2. /\ provider' = NGINX => NGINXAsked
          /\ provider' = AGIC => AGICAsked \/ ~NGINXAsked
      BY <1>2, <1>3, <2>4, <3>1, DetectedHasAWitness, LowerAssumption
      DEF NoProvider, AGIC, NGINX
    <3> QED
      BY <1>1, <2>1, <2>2, <2>4, <3>2, Zenon DEF ProviderInv, ProviderHasAWitness
  <2>5. CASE provider' # NoProvider /\ input.provider # NoProvider
    <3>1. name = input.provider
      BY <2>5 DEF Names
    <3>2. Lower(name) # NoProvider
      BY <2>5, <3>1, LowerAssumption DEF IInv, FlagsInv
    <3>3. provider' = Lower(input.provider)
      BY <1>2, <1>3, <2>5, <3>1, <3>2
    <3> QED
      BY <1>1, <2>1, <2>5, <3>3, Zenon DEF ProviderInv, ProviderHasAWitness
  <2> QED
    BY <2>3, <2>4, <2>5
<1>8. GraphInv'
  <2>1. graph = {} /\ report = NoReport /\ written = {} /\ ~reported
    BY <1>1 DEF IInv, GraphInv, OutputStages
  <2> QED
    BY <1>1, <2>1 DEF GraphInv, OutputStages, outputVars
<1>9. DiskInv'
  <2>1. disk = input.disk /\ ~initialized
    BY <1>1 DEF IInv, DiskInv, OutputStages
  <2> QED
    BY <1>1, <2>1 DEF DiskInv, OutputStages, outputVars
<1>10. OutputIsComplete'
  BY <1>4, Zenon DEF OutputIsComplete
<1> QED
  BY <1>5, <1>6, <1>7, <1>8, <1>9, <1>10 DEF IInv

(* The provider does not change any more, nor what it was chosen by.         *)
LEMMA ProviderInvStays ==
  ASSUME IInv, UNCHANGED <<input, ingresses, provider>>,
         stage' \notin EarlyStages \union {"provider"}
  PROVE  ProviderInv'
<1>1. NGINXAsked' = NGINXAsked /\ AGICAsked' = AGICAsked
  BY Zenon DEF NGINXAsked, AGICAsked
<1> QED
  BY <1>1, Zenon DEF IInv, ProviderInv, ProviderHasAWitness

LEMMA ConvertKeepsIInv == IInv /\ Convert => IInv'
<1> SUFFICES ASSUME IInv, Convert PROVE IInv'
  OBVIOUS
<1>1. /\ stage = "convert" /\ stage' = "output"
      /\ exit' = exit /\ faults' = faults
      /\ graph' = Converted /\ report' = NewReport(Converted)
      /\ input' = input /\ ingresses' = ingresses /\ provider' = provider
      /\ wafPolicyID' = wafPolicyID
      /\ written' = written /\ disk' = disk /\ initialized' = initialized
      /\ reported' = reported
  BY DEF Convert, Proceed, aggregationVars
<1>2. written = {} /\ ~reported
  BY <1>1 DEF IInv, GraphInv, OutputStages
<1>3. disk = input.disk /\ ~initialized
  BY <1>1 DEF IInv, DiskInv, OutputStages
<1>4. FlagsInv'
  BY <1>1, Zenon DEF IInv, FlagsInv
<1>5. exit' = Running
  BY <1>1 DEF IInv, FaultsInv
<1>6. FaultsInv'
  BY <1>1, <1>5
  DEF IInv, FaultsInv, OnlyNamedFailuresPass, ToOneFile, EarlyStages, OutputStages, Running, Success
<1>7. ProviderInv'
  BY <1>1, ProviderInvStays DEF EarlyStages
<1>8. GraphInv'
  <2>1. graph' # {}
    BY <1>1, Zenon DEF Converted
  <2>2. \A r \in graph' : Grounded(r, graph')
    BY <1>1, ConvertedIsGrounded
  <2>3. report' = NewReport(graph')
    BY <1>1
  <2> QED
    BY <1>1, <1>2, <2>1, <2>2, <2>3 DEF GraphInv, OutputStages, Grounded, NewReport
<1>9. DiskInv'
  <2>1. Stdout \notin DOMAIN disk
    BY <1>3, StdoutAssumption DEF IInv, FlagsInv
  <2>2. DirectoryHolds' /\ FileHolds(OutputFile)' /\ FileHolds(Stdout)'
    BY <1>1, <1>2 DEF DirectoryHolds, FileHolds
  <2> QED
    BY <1>1, <1>2, <1>3, <2>1, <2>2 DEF DiskInv, OutputStages
<1>10. OutputIsComplete'
  BY <1>5, Zenon DEF OutputIsComplete, Running, Success
<1> QED
  BY <1>4, <1>6, <1>7, <1>8, <1>9, <1>10 DEF IInv

LEMMA BeginOutputKeepsIInv == IInv /\ BeginOutput /\ UNCHANGED <<aggregationVars, provider>> => IInv'
<1> SUFFICES ASSUME IInv, BeginOutput, UNCHANGED <<aggregationVars, provider>> PROVE IInv'
  OBVIOUS
<1>1. /\ stage = "output" /\ stage' \in {"write", "ended"}
      /\ stage' = "ended" => exit' = Failure
      /\ stage' = "write" => exit' = exit /\ faults' = faults
      /\ UNCHANGED <<input, ingresses, wafPolicyID, provider, outputVars>>
  BY Zenon DEF BeginOutput, Proceed, FailAt, Abort, aggregationVars
<1>2. exit = Running
  BY <1>1 DEF IInv, FaultsInv
<1>3. exit' # Success
  BY <1>1, <1>2 DEF Running, Failure, Success
<1>4. FlagsInv'
  BY <1>1, Zenon DEF IInv, FlagsInv
<1>5. FaultsInv'
  BY <1>1, <1>2, <1>3
  DEF IInv, FaultsInv, OnlyNamedFailuresPass, ToOneFile, EarlyStages, OutputStages
<1>6. ProviderInv'
  BY <1>1, ProviderInvStays DEF EarlyStages
<1>7. GraphInv'
  BY <1>1 DEF IInv, GraphInv, OutputStages, outputVars, Grounded, NewReport
<1>8. DiskInv'
  <2>1. /\ disk' = disk /\ written' = written /\ graph' = graph /\ initialized' = initialized
        /\ input' = input
    BY <1>1 DEF outputVars
  <2>2. CASE stage' = "ended"
    BY <1>1, <2>1, <2>2, Zenon DEF IInv, DiskInv, OutputStages
  <2>3. CASE stage' = "write"
    <3>1. \A r, path : Destination(r)' = Destination(r) /\ DocumentsAt(path)' = DocumentsAt(path)
      BY <2>1, Zenon DEF Destination, DocumentsAt
    <3>2. DirectoryHolds => DirectoryHolds'
      BY <2>1, <3>1 DEF DirectoryHolds
    <3>3. \A path : FileHolds(path)' <=> FileHolds(path)
      BY <1>1, <2>1, <2>3, <3>1, Zenon DEF FileHolds
    <3> QED
      BY <1>1, <2>1, <2>3, <3>2, <3>3 DEF IInv, DiskInv, OutputStages
  <2> QED
    BY <1>1, <2>2, <2>3
<1>9. OutputIsComplete'
  BY <1>3, Zenon DEF OutputIsComplete
<1> QED
  BY <1>4, <1>5, <1>6, <1>7, <1>8, <1>9 DEF IInv

(* A failure leaves the disk in any state; nothing is promised any more.     *)
LEMMA WriteFailsKeepsIInv ==
  ASSUME IInv, NEW r \in graph, WriteFails(r), UNCHANGED <<aggregationVars, provider>>
  PROVE  IInv'
<1>1. /\ stage = "write" /\ stage' = "ended" /\ exit' = Failure
      /\ ~input.dryRun
      /\ UNCHANGED <<input, ingresses, provider, graph, report, written, reported>>
  BY Zenon DEF WriteFails, FailAt, Abort, aggregationVars
<1>2. exit' # Success
  BY <1>1 DEF Failure, Success
<1>3. FlagsInv'
  BY <1>1, Zenon DEF IInv, FlagsInv
<1>4. FaultsInv'
  BY <1>1, <1>2 DEF FaultsInv, OnlyNamedFailuresPass, EarlyStages
<1>5. ProviderInv'
  BY <1>1, ProviderInvStays DEF EarlyStages
<1>6. GraphInv'
  BY <1>1 DEF IInv, GraphInv, OutputStages, Grounded
<1>7. DiskInv'
  BY <1>1 DEF DiskInv, OutputStages
<1>8. OutputIsComplete'
  BY <1>2, Zenon DEF OutputIsComplete
<1> QED
  BY <1>3, <1>4, <1>5, <1>6, <1>7, <1>8 DEF IInv

(* Appending to a file.                                                      *)
ElementsOf(s) == {s[i] : i \in DOMAIN s}

LEMMA AppendedElements ==
  ASSUME NEW S, NEW s \in Seq(S), NEW x \in S
  PROVE  Append(s, x) \in Seq(S) /\ ElementsOf(Append(s, x)) = ElementsOf(s) \union {x}
<1>1. Append(s, x) \in Seq(S)
  OBVIOUS
<1>2. /\ DOMAIN s = 1 .. Len(s) /\ Len(s) \in Nat
      /\ DOMAIN Append(s, x) = 1 .. (Len(s) + 1)
      /\ \A i \in 1 .. Len(s) : Append(s, x)[i] = s[i]
      /\ Append(s, x)[Len(s) + 1] = x
  OBVIOUS
<1> QED
  BY <1>1, <1>2 DEF ElementsOf

LEMMA AppendToFile ==
  ASSUME NEW path, NEW document \in graph \union {Torn},
         path \in DOMAIN disk, disk[path] \in Seq(graph \union {Torn}),
         disk' = InsertInto(disk, path, Append(ContentOf(path), document)), graph' = graph
  PROVE  /\ path \in DOMAIN disk'
         /\ disk'[path] \in Seq(graph' \union {Torn})
         /\ DocumentsAt(path)' = DocumentsAt(path) \union {document}
<1>1. disk'[path] = Append(disk[path], document) /\ path \in DOMAIN disk'
  <2>1. ContentOf(path) = disk[path]
    BY Zenon DEF ContentOf
  <2> QED
    BY <2>1, Zenon DEF InsertInto
<1>2. /\ Append(disk[path], document) \in Seq(graph \union {Torn})
      /\ ElementsOf(Append(disk[path], document)) = ElementsOf(disk[path]) \union {document}
  BY AppendedElements
<1>3. /\ DocumentsAt(path) = ElementsOf(disk[path])
      /\ DocumentsAt(path)' = ElementsOf(disk'[path])
  BY Zenon DEF DocumentsAt, ElementsOf
<1> QED
  BY <1>1, <1>2, <1>3

LEMMA StartFile ==
  ASSUME NEW path, NEW document \in graph \union {Torn}, graph' = graph,
         disk' = InsertInto(disk, path, <<document>>)
  PROVE  /\ path \in DOMAIN disk'
         /\ disk'[path] = <<document>>
         /\ disk'[path] \in Seq(graph' \union {Torn})
         /\ DocumentsAt(path)' = {document}
<1>1. disk'[path] = <<document>> /\ path \in DOMAIN disk'
  BY DEF InsertInto
<1>2. /\ <<document>> \in Seq(graph \union {Torn})
      /\ {<<document>>[i] : i \in DOMAIN <<document>>} = {document}
  OBVIOUS
<1> QED
  BY <1>1, <1>2 DEF DocumentsAt

LEMMA WriteResourceKeepsIInv ==
  ASSUME IInv, NEW r \in graph, WriteResource(r), UNCHANGED <<aggregationVars, provider>>
  PROVE  IInv'
<1>1. /\ stage = "write" /\ stage' = "write" /\ exit' = exit
      /\ ~input.dryRun
      /\ written' = written \union {r}
      /\ UNCHANGED <<input, ingresses, wafPolicyID, provider, graph, report, reported>>
  BY Zenon DEF WriteResource, aggregationVars
<1>2. PICK document \in graph \union {Torn} :
        /\ Put(Destination(r), document)
        /\ \/ document = r /\ faults' = faults
           \/ ToOneFile /\ faults' = faults \union {"close"}
  BY DEF WriteResource
<1>3. /\ initialized' = (initialized \/ ToOneFile)
      /\ ToOneFile' = ToOneFile
  BY <1>1, Zenon DEF WriteResource, ToOneFile
<1>4. /\ exit = Running /\ ~(input.outputDir /\ input.outputFile)
      /\ "close" \in faults => ToOneFile
      /\ "close" \notin faults' => "close" \notin faults /\ document = r
  BY <1>1, <1>2 DEF IInv, FaultsInv, FlagsInv
<1>5. FlagsInv'
  BY <1>1, Zenon DEF IInv, FlagsInv
<1>6. FaultsInv'
  <2>1. /\ faults \subseteq Dispensable \union {"close"}
        /\ "logs" \in faults => wafPolicyID = NoID
    BY <1>1 DEF IInv, FaultsInv
  <2>2. /\ faults' \subseteq Dispensable \union {"close"}
        /\ "logs" \in faults' => wafPolicyID' = NoID
        /\ "close" \in faults' => ToOneFile
    BY <1>1, <1>2, <1>4, <2>1
  <2>3. stage' \notin EarlyStages /\ stage' \in OutputStages /\ exit' # Success
    BY <1>1, <1>4 DEF EarlyStages, OutputStages, Running, Success
  <2> QED
    BY <1>1, <1>3, <1>4, <2>2, <2>3 DEF FaultsInv, OnlyNamedFailuresPass
<1>7. ProviderInv'
  BY <1>1, ProviderInvStays DEF EarlyStages
<1>8. GraphInv'
  BY <1>1 DEF IInv, GraphInv, OutputStages, Grounded, NewReport
<1>9. DiskInv'
  <2> DEFINE In(path) == disk' = InsertInto(disk, path, <<document>>)
             Added(path) == disk' = InsertInto(disk, path, Append(ContentOf(path), document))
  <2>0. \A q : Destination(q)' = Destination(q)
    BY <1>1, Zenon DEF Destination
  (* One file that holds what has been written, and now the document too.  *)
  <2>1. ASSUME NEW path, path \in DOMAIN disk', disk'[path] \in Seq(graph' \union {Torn}),
               "close" \notin faults' => DocumentsAt(path)' = written'
        PROVE  FileHolds(path)'
    BY <2>1, Zenon DEF FileHolds
  <2>2. ASSUME NEW path, written = {}, In(path) PROVE FileHolds(path)'
    <3>1. /\ path \in DOMAIN disk'
          /\ disk'[path] \in Seq(graph' \union {Torn})
          /\ DocumentsAt(path)' = {document}
      BY <1>1, <2>2, StartFile
    <3>2. "close" \notin faults' => DocumentsAt(path)' = written'
      BY <1>1, <1>4, <2>2, <3>1
    <3> QED
      BY <2>1, <3>1, <3>2
  <2>3. ASSUME NEW path, written # {}, FileHolds(path), Added(path) PROVE FileHolds(path)'
    <3>1. /\ path \in DOMAIN disk'
          /\ disk'[path] \in Seq(graph' \union {Torn})
          /\ DocumentsAt(path)' = DocumentsAt(path) \union {document}
      BY <1>1, <2>3, AppendToFile DEF FileHolds
    <3>2. "close" \notin faults' => DocumentsAt(path)' = written'
      BY <1>1, <1>4, <2>3, <3>1, Zenon DEF FileHolds
    <3> QED
      BY <2>1, <3>1, <3>2
  <2>4. CASE input.outputDir
    <3>1. In(Destination(r)) /\ document = r
      BY <1>2, <2>4, Zenon DEF Put, StartsAfresh, ToOneFile
    <3>2. ASSUME NEW q \in written'
          PROVE  /\ Destination(q) \in DOMAIN disk'
                 /\ \E p \in graph : /\ Destination(p) = Destination(q)
                                     /\ disk'[Destination(q)] = <<p>>
      <4>1. CASE Destination(q) = Destination(r)
        BY <3>1, <4>1 DEF InsertInto
      <4>2. CASE Destination(q) # Destination(r)
        <5>1. q \in written
          BY <1>1, <4>2
        <5>2. /\ Destination(q) \in DOMAIN disk
              /\ \E p \in graph : /\ Destination(p) = Destination(q)
                                  /\ disk[Destination(q)] = <<p>>
          BY <1>1, <2>4, <5>1, Zenon DEF IInv, DiskInv, OutputStages, DirectoryHolds
        <5> QED
          BY <3>1, <4>2, <5>2 DEF InsertInto
      <4> QED
        BY <4>1, <4>2
    <3>3. DirectoryHolds'
      BY <1>1, <2>0, <3>2 DEF DirectoryHolds
    <3> QED
      BY <1>1, <2>4, <3>3, Zenon DEF DiskInv, OutputStages
  <2>5. CASE ~input.outputDir /\ input.outputFile
    <3>1. FileHolds(OutputFile) /\ (initialized <=> written # {})
      BY <1>1, <2>5, Zenon DEF IInv, DiskInv, OutputStages
    <3>2. Destination(r) = OutputFile /\ initialized'
      BY <1>3, <2>5, Zenon DEF Destination, ToOneFile
    <3>3. written = {} => In(OutputFile)
      BY <1>2, <2>5, <3>1, <3>2, Zenon DEF Put, StartsAfresh
    <3>4. written # {} => Added(OutputFile)
      BY <1>2, <2>5, <3>1, <3>2, Zenon DEF Put, StartsAfresh
    <3>5. FileHolds(OutputFile)'
      <4> HIDE DEF In, Added
      <4> QED
        BY <2>2, <2>3, <3>1, <3>3, <3>4
    <3>6. written' # {}
      BY <1>1
    <3> QED
      BY <1>1, <2>5, <3>2, <3>5, <3>6, Zenon DEF DiskInv, OutputStages
  <2>6. CASE ~input.outputDir /\ ~input.outputFile
    <3>1. FileHolds(Stdout) /\ (written = {} => Stdout \notin DOMAIN disk)
      BY <1>1, <2>6, Zenon DEF IInv, DiskInv, OutputStages
    <3>2. Destination(r) = Stdout /\ Added(Stdout)
      BY <1>2, <2>6, Zenon DEF Destination, Put, StartsAfresh
    <3>3. written = {} => In(Stdout)
      <4>1. written = {} => ContentOf(Stdout) = <<>>
        BY <3>1, Zenon DEF ContentOf
      <4> QED
        BY <3>2, <4>1
    <3>4. FileHolds(Stdout)'
      <4> HIDE DEF In, Added
      <4> QED
        BY <2>2, <2>3, <3>1, <3>2, <3>3
    <3>5. written' # {}
      BY <1>1
    <3> QED
      BY <1>1, <2>6, <3>4, <3>5, Zenon DEF DiskInv, OutputStages
  <2> QED
    BY <2>4, <2>5, <2>6
<1>10. OutputIsComplete'
  BY <1>1, <1>4, Zenon DEF OutputIsComplete, Running, Success
<1> QED
  BY <1>5, <1>6, <1>7, <1>8, <1>9, <1>10 DEF IInv

(* What the report names is what the graph holds, and all of it is written.  *)
LEMMA ReportedIsInGraph ==
  ASSUME NEW kind \in DOMAIN NewReport(graph), NEW nn \in NewReport(graph)[kind]
  PROVE  \E r \in graph : r.kind = kind /\ r.ns = nn.ns /\ r.name = nn.name
<1>1. nn \in {[ns |-> r.ns, name |-> r.name] : r \in {q \in graph : q.kind = kind}}
  BY DEF NewReport
<1>2. PICK r \in graph : r.kind = kind /\ nn = [ns |-> r.ns, name |-> r.name]
  BY <1>1
<1> QED
  BY <1>2

LEMMA WrittenIsWhole ==
  ASSUME IInv, stage = "write", "close" \notin faults, NEW r \in graph, graph \subseteq written
  PROVE  /\ Destination(r) \in DOMAIN disk
         /\ Sharing(r) \intersect DocumentsAt(Destination(r)) # {}
         /\ Torn \notin DocumentsAt(Destination(r))
<1>1. Torn \notin graph
  BY TornIsNoResource DEF IInv, GraphInv
<1>2. written = graph /\ written # {}
  BY DEF IInv, GraphInv
<1>3. CASE input.outputDir
  <2>1. PICK p \in graph : /\ Destination(r) \in DOMAIN disk
                           /\ Destination(p) = Destination(r)
                           /\ disk[Destination(r)] = <<p>>
    BY <1>2, <1>3, Zenon DEF IInv, DiskInv, OutputStages, DirectoryHolds
  <2>2. {<<p>>[i] : i \in DOMAIN <<p>>} = {p}
    OBVIOUS
  <2>3. DocumentsAt(Destination(r)) = {p}
    BY <2>1, <2>2 DEF DocumentsAt
  <2>4. p \in Sharing(r)
    BY <1>3, <2>1, Zenon DEF Sharing
  <2> QED
    BY <1>1, <2>1, <2>3, <2>4
<1>4. ASSUME NEW path, FileHolds(path), Destination(r) = path, ~input.outputDir
      PROVE  /\ Destination(r) \in DOMAIN disk
             /\ Sharing(r) \intersect DocumentsAt(Destination(r)) # {}
             /\ Torn \notin DocumentsAt(Destination(r))
  <2>1. path \in DOMAIN disk /\ DocumentsAt(path) = graph
    BY <1>2, <1>4 DEF FileHolds
  <2>2. Sharing(r) = {r}
    BY <1>4, Zenon DEF Sharing
  <2> QED
    BY <1>1, <1>4, <2>1, <2>2
<1>5. CASE ~input.outputDir /\ input.outputFile
  <2>1. FileHolds(OutputFile) /\ Destination(r) = OutputFile
    BY <1>5, Zenon DEF IInv, DiskInv, OutputStages, Destination
  <2> QED
    BY <1>4, <1>5, <2>1
<1>6. CASE ~input.outputDir /\ ~input.outputFile
  <2>1. FileHolds(Stdout) /\ Destination(r) = Stdout
    BY <1>6, Zenon DEF IInv, DiskInv, OutputStages, Destination
  <2> QED
    BY <1>4, <1>6, <2>1
<1> QED
  BY <1>3, <1>5, <1>6, Zenon

LEMMA PrintReportKeepsIInv ==
  IInv /\ PrintReport /\ UNCHANGED <<aggregationVars, provider>> => IInv'
<1> SUFFICES ASSUME IInv, PrintReport, UNCHANGED <<aggregationVars, provider>> PROVE IInv'
  OBVIOUS
<1>1. /\ stage = "write" /\ stage' = "ended"
      /\ input.dryRun \/ graph \subseteq written
      /\ UNCHANGED <<input, ingresses, wafPolicyID, provider, graph, report, written, disk,
                     initialized>>
  BY Zenon DEF PrintReport, aggregationVars
<1>2. PICK lost \in SUBSET Printing :
        faults' = faults \union lost /\ reported' = ("report" \notin lost)
  BY Zenon DEF PrintReport
<1>3. /\ faults \subseteq Dispensable \union {"close"}
      /\ "logs" \in faults => wafPolicyID = NoID
      /\ "close" \in faults => ToOneFile /\ ~input.dryRun
      /\ "close" \in faults' <=> "close" \in faults
  BY <1>1, <1>2 DEF IInv, FaultsInv, Printing
<1>4. FlagsInv'
  BY <1>1, Zenon DEF IInv, FlagsInv
<1>5. FaultsInv'
  <2>1. /\ "separator" \in lost => ~input.outputDir
        /\ lost \subseteq Dropped
        /\ lost \intersect Dispensable = {} /\ "close" \notin lost
    BY <1>2 DEF Printing, Dropped, Dispensable
  <2>2. /\ "report" \notin faults /\ "separator" \notin faults
        /\ "close" \in Dropped /\ "logs" \in Dispensable
    BY <1>3 DEF Dispensable, Dropped
  <2>3. OnlyNamedFailuresPass'
    <3>1. faults' \subseteq Dispensable \union Dropped
      BY <1>2, <1>3, <2>1, <2>2
    <3>2. "logs" \in faults' => wafPolicyID' = NoID
      BY <1>1, <1>2, <1>3, <2>1, <2>2
    <3>3. "close" \in faults' => ToOneFile' /\ ~input'.dryRun
      BY <1>1, <1>3, Zenon DEF ToOneFile
    <3>4. "separator" \in faults' => ~input'.outputDir
      BY <1>1, <1>2, <2>1, <2>2
    <3>5. "report" \in faults' <=> ~reported'
      BY <1>2, <2>2
    <3> QED
      BY <3>1, <3>2, <3>3, <3>4, <3>5, Zenon DEF OnlyNamedFailuresPass, Dispensable, Dropped
  <2> QED
    BY <1>1, <2>3 DEF FaultsInv, EarlyStages
<1>6. ProviderInv'
  BY <1>1, ProviderInvStays DEF EarlyStages
<1>7. GraphInv'
  BY <1>1 DEF IInv, GraphInv, OutputStages, Grounded
<1>8. DiskInv'
  BY <1>1 DEF IInv, DiskInv, OutputStages
<1>9. OutputIsComplete'
  <2>1. /\ \A r : Destination(r)' = Destination(r) /\ Sharing(r)' = Sharing(r)
        /\ \A path : DocumentsAt(path)' = DocumentsAt(path)
    BY <1>1, Zenon DEF Destination, Sharing, DocumentsAt
  <2>2. CASE input.dryRun
    <3>1. disk = input.disk
      BY <2>2, Zenon DEF IInv, DiskInv
    <3> QED
      BY <1>1, <2>2, <3>1, Zenon DEF OutputIsComplete
  <2>3. CASE ~input.dryRun /\ "close" \in faults
    <3>1. graph # {} /\ graph \subseteq written
      BY <1>1, <2>3, Zenon DEF IInv, GraphInv, OutputStages
    <3>2. FileHolds(OutputFile)
      BY <1>1, <1>3, <2>3, Zenon DEF IInv, DiskInv, OutputStages, ToOneFile
    <3>3. disk[OutputFile] \in Seq(graph \union {Torn})
      BY <3>1, <3>2 DEF FileHolds
    <3>4. DocumentsAt(OutputFile) \subseteq graph \union {Torn}
      BY <3>3 DEF DocumentsAt
    <3> QED
      BY <1>1, <1>3, <2>1, <2>3, <3>4, Zenon DEF OutputIsComplete
  <2>4. CASE ~input.dryRun /\ "close" \notin faults
    <3>1. graph \subseteq written /\ report = NewReport(graph)
      BY <1>1, <2>4, Zenon DEF IInv, GraphInv, OutputStages
    <3>2. \A kind \in DOMAIN report : \A nn \in report[kind] :
            \E r \in graph :
              /\ r.kind = kind /\ r.ns = nn.ns /\ r.name = nn.name
              /\ Destination(r) \in DOMAIN disk
              /\ Sharing(r) \intersect DocumentsAt(Destination(r)) # {}
              /\ Torn \notin DocumentsAt(Destination(r))
      BY <1>1, <2>4, <3>1, ReportedIsInGraph, WrittenIsWhole
    <3>3. input.outputFile => DocumentsAt(OutputFile) = graph
      <4>1. graph = written /\ written # {}
        BY <1>1, <3>1, Zenon DEF IInv, GraphInv, OutputStages
      <4>2. input.outputFile => FileHolds(OutputFile)
        BY <1>1, Zenon DEF IInv, FlagsInv, DiskInv, OutputStages
      <4> QED
        BY <2>4, <4>1, <4>2, Zenon DEF FileHolds
    <3> QED
      BY <1>1, <1>3, <2>1, <2>4, <3>2, <3>3, Zenon DEF OutputIsComplete
  <2> QED
    BY <2>2, <2>3, <2>4
<1> QED
  BY <1>4, <1>5, <1>6, <1>7, <1>8, <1>9 DEF IInv

LEMMA IInvInductive == IInv /\ [Next]_vars => IInv'
<1> SUFFICES ASSUME IInv, [Next]_vars PROVE IInv'
  OBVIOUS
<1>1. CASE Early
  BY <1>1, EarlyKeepsIInv
<1>2. CASE makeProvider
  BY <1>2, makeProviderKeepsIInv
<1>3. CASE Convert
  BY <1>3, ConvertKeepsIInv
<1>4. CASE OutputStep /\ UNCHANGED <<aggregationVars, provider>>
  BY <1>4, BeginOutputKeepsIInv, WriteResourceKeepsIInv, WriteFailsKeepsIInv,
     PrintReportKeepsIInv DEF OutputStep
<1>5. CASE PodsChange /\ UNCHANGED <<outputVars, provider>>
  <2>1. UNCHANGED <<input, stage, exit, faults, ingresses, wafPolicyID, outputVars, provider>>
    BY <1>5, Zenon DEF PodsChange, runVars
  <2> QED
    BY <2>1, IdleKeepsIInv
<1>6. CASE UNCHANGED vars
  <2>1. UNCHANGED <<input, stage, exit, faults, ingresses, wafPolicyID, outputVars, provider>>
    BY <1>6, Zenon DEF vars, runVars, aggregationVars
  <2> QED
    BY <2>1, IdleKeepsIInv
<1> QED
  BY <1>1, <1>2, <1>3, <1>4, <1>5, <1>6 DEF Next, Step, Early, Ended

-----------------------------------------------------------------------------
(* The theorems.                                                             *)

(* The inductive invariant holds in every state of every run.                *)
THEOREM Invariance == Spec => []IInv
  BY InitIInv, IInvInductive, PTL DEF Spec

(* A run that ends in success has met no failure except those named here:   *)
(* in looking for a label, in reading or closing the log and in closing an  *)
(* input file, which it can do without (aggregation), and those whose error *)
(* the code drops, in closing the output file and in printing the report    *)
(* (output/writers.go, output/output.go).  Each costs what it says.         *)
THEOREM FailureSafety == Spec => []OnlyNamedFailuresPass
<1>1. IInv => OnlyNamedFailuresPass
  BY DEF IInv, FaultsInv
<1> QED
  BY <1>1, Invariance, PTL

(* In whichever order detectProvider meets the Ingresses, the provider is   *)
(* one that an Ingress asks for, or AGIC when none asks for NGINX.          *)
THEOREM ProviderSafety == Spec => []ProviderHasAWitness
<1>1. IInv => ProviderHasAWitness
  BY DEF IInv, ProviderInv
<1> QED
  BY <1>1, Invariance, PTL

(* After a success everything the report names is where the options say,    *)
(* whole, in whichever order writeList went through the maps; unless closing*)
(* the output file has failed, which may have torn what it holds.           *)
THEOREM OutputSafety == Spec => []OutputIsComplete
<1>1. IInv => OutputIsComplete
  BY DEF IInv
<1> QED
  BY <1>1, Invariance, PTL

-----------------------------------------------------------------------------
(* Lists.                                                                    *)

(* A set of numbers that is not empty has a least one: what induction rests *)
(* on.                                                                      *)
LEMMA LeastNumber ==
  ASSUME NEW T \in SUBSET Nat, T # {}
  PROVE  \E n \in T : \A m \in T : n <= m
<1>1. PICK n \in T : \A m \in T : <<m, n>> \notin OpToRel(<, Nat)
  BY NatLessThanWellFounded, WFMin
<1>2. \A m \in T : ~(m < n)
  BY <1>1 DEF OpToRel
<1> QED
  BY <1>2

(* A list is numbered from one.                                             *)
LEMMA ListDomain ==
  ASSUME NEW s, IsList(s)
  PROVE  Len(s) \in Nat /\ DOMAIN s = 1 .. Len(s)
BY LenProperties DEF IsList

(* A function on the first numbers is a list.                               *)
LEMMA ListMade ==
  ASSUME NEW n \in Nat, NEW s, DOMAIN s = 1 .. n, s = [i \in 1 .. n |-> s[i]]
  PROVE  IsList(s) /\ Len(s) = n
BY DEF IsList

LEMMA SequenceIsList ==
  ASSUME NEW S, NEW s \in Seq(S)
  PROVE  IsList(s)
BY DEF IsList

-----------------------------------------------------------------------------
(* What is collected from files.                                             *)

(* The recursion over the documents of a file, of which those at T count,   *)
(* has a solution.                                                          *)
CollectsBy(f, L, c, T, k, v) ==
  f = [n \in 0 .. L |->
         IF n = 0 THEN c ELSE IF n \in T THEN InsertInto(f[n - 1], k[n], v[n]) ELSE f[n - 1]]

LEMMA CollectionsExist ==
  ASSUME NEW L \in Nat, NEW c, NEW T, NEW k, NEW v
  PROVE  \E f : CollectsBy(f, L, c, T, k, v)
<1> DEFINE step(r, n) == IF n \in T THEN InsertInto(r, k[n], v[n]) ELSE r
           solves(f, l) == f = [n \in 0 .. l |-> IF n = 0 THEN c ELSE step(f[n - 1], n)]
           bad == {l \in Nat : \A f : ~solves(f, l)}
<1>1. ASSUME bad # {}
      PROVE  FALSE
  <2>1. PICK l \in bad : \A m \in bad : l <= m
    <3>1. bad \in SUBSET Nat
      OBVIOUS
    <3> HIDE DEF bad
    <3> QED
      BY <1>1, <3>1, LeastNumber
  <2>2. CASE l = 0
    <3> DEFINE f == [n \in 0 .. 0 |-> c]
    <3>1. f = [n \in 0 .. 0 |-> IF n = 0 THEN c ELSE step(f[n - 1], n)]
      <4> HIDE DEF step
      <4> QED
        OBVIOUS
    <3>2. solves(f, l)
      BY <2>2, <3>1
    <3> QED
      BY <2>1, <3>2
  <2>3. CASE l # 0
    <3>1. l \in Nat /\ l - 1 \in Nat /\ ~(l <= l - 1)
      BY <2>3
    <3>2. l - 1 \notin bad
      BY <2>1, <3>1
    <3>3. PICK f : solves(f, l - 1)
      BY <3>1, <3>2
    <3> HIDE DEF step
    <3> DEFINE g == [n \in 0 .. l |-> IF n = l THEN step(f[l - 1], l) ELSE f[n]]
    <3>4. ASSUME NEW n \in 0 .. l
          PROVE  g[n] = IF n = 0 THEN c ELSE step(g[n - 1], n)
      <4>1. CASE n = l
        <5>1. g[n] = step(f[l - 1], l) /\ g[n - 1] = f[n - 1]
          BY <3>1, <4>1
        <5> QED
          BY <2>3, <4>1, <5>1
      <4>2. CASE n # l
        <5>1. n \in 0 .. (l - 1) /\ g[n] = f[n]
          BY <3>1, <4>2
        <5>2. n # 0 => n - 1 \in 0 .. l /\ n - 1 # l
          BY <3>1, <5>1
        <5>3. n # 0 => g[n - 1] = f[n - 1]
          BY <5>2
        <5>4. f[n] = IF n = 0 THEN c ELSE step(f[n - 1], n)
          BY <3>3, <5>1
        <5> QED
          BY <5>1, <5>3, <5>4
      <4> QED
        BY <4>1, <4>2
    <3>5. g = [n \in 0 .. l |-> g[n]]
      OBVIOUS
    <3> HIDE DEF g
    <3>6. solves(g, l)
      BY <3>4, <3>5
    <3> QED
      BY <2>1, <3>6
  <2> QED
    BY <2>2, <2>3
<1>2. PICK f : solves(f, L)
  <2> HIDE DEF solves
  <2> QED
    BY <1>1
<1> QED
  BY <1>2, Zenon DEF CollectsBy

DocumentAt(p) == Document(paths[p[1]], p[2])

(* The documents of the files read, as pairs of indices.                     *)
DocumentsOf(i) == {i} \X (DOMAIN input.documents[paths[i]])
AllDocuments == UNION {DocumentsOf(i) : i \in DOMAIN paths}
Before(n) == UNION {DocumentsOf(i) : i \in {k \in DOMAIN paths : k < n}}

Declares(p, nn) == Wanted(DocumentAt(p)) /\ DocumentAt(p).nn = nn

(* The Ingresses r are the last declarations among the documents P.          *)
Gathered(r, P) ==
  /\ \A nn : nn \in DOMAIN r <=> \E p \in P : Declares(p, nn)
  /\ \A nn \in DOMAIN r : \E p \in P :
       Declares(p, nn) /\ r[nn] = DocumentAt(p) /\ \A q \in P : Declares(q, nn) => NotAfter(q, p)

LEMMA GatherOne ==
  ASSUME NEW r, NEW P, NEW p, Gathered(r, P), \A q \in P \union {p} : NotAfter(q, p)
  PROVE  Gathered(IF Wanted(DocumentAt(p)) THEN InsertInto(r, DocumentAt(p).nn, DocumentAt(p)) ELSE r,
                  P \union {p})
<1>1. CASE ~Wanted(DocumentAt(p))
  <2>1. \A nn : ~Declares(p, nn)
    BY <1>1, Zenon DEF Declares
  <2> HIDE DEF Declares, NotAfter
  <2>2. Gathered(r, P \union {p})
    BY <2>1 DEF Gathered
  <2> QED
    BY <1>1, <2>2
<1>2. CASE Wanted(DocumentAt(p))
  <2> DEFINE k == DocumentAt(p).nn
             t == InsertInto(r, k, DocumentAt(p))
  <2>1. /\ DOMAIN t = DOMAIN r \union {k}
        /\ t[k] = DocumentAt(p)
        /\ \A nn \in DOMAIN r \ {k} : t[nn] = r[nn]
    BY DEF InsertInto
  <2>2. \A nn : Declares(p, nn) <=> nn = k
    BY <1>2, Zenon DEF Declares
  <2>3. PICK key, doc, new : key = k /\ doc = DocumentAt(p) /\ new = t
    OBVIOUS
  <2>4. Gathered(new, P \union {p})
    <3>1. \A nn : nn \in DOMAIN new <=> \E q \in P \union {p} : Declares(q, nn)
      BY <2>1, <2>2, <2>3 DEF Gathered
    <3>2. ASSUME NEW nn \in DOMAIN new
          PROVE  \E at \in P \union {p} :
                   /\ Declares(at, nn)
                   /\ new[nn] = DocumentAt(at)
                   /\ \A q \in P \union {p} : Declares(q, nn) => NotAfter(q, at)
      <4>1. CASE nn = key
        <5>1. Declares(p, nn) /\ new[nn] = DocumentAt(p)
          BY <2>1, <2>2, <2>3, <4>1
        <5> QED
          BY <5>1
      <4>2. CASE nn # key
        <5>1. nn \in DOMAIN r /\ new[nn] = r[nn]
          BY <2>1, <2>3, <4>2
        <5>2. PICK at \in P : /\ Declares(at, nn) /\ r[nn] = DocumentAt(at)
                              /\ \A q \in P : Declares(q, nn) => NotAfter(q, at)
          BY <5>1, Zenon DEF Gathered
        <5>3. ~Declares(p, nn)
          BY <2>2, <2>3, <4>2
        <5> QED
          BY <5>1, <5>2, <5>3
      <4> QED
        BY <4>1, <4>2
    <3> QED
      BY <3>1, <3>2 DEF Gathered
  <2> QED
    BY <1>2, <2>3, <2>4
<1> QED
  BY <1>1, <1>2

(* What the recursion over the documents of a file computes, step by step.   *)
LEMMA CollectionStep ==
  ASSUME NEW path, NEW c, Len(input.documents[path]) \in Nat,
         ingressClassName(NoConfigMap) = WantedClass
  PROVE  \E f : /\ f[0] = c
                /\ IngressesWith(path, c) = f[Len(input.documents[path])]
                /\ \A n \in 1 .. Len(input.documents[path]) :
                     f[n] = IF Wanted(Document(path, n))
                              THEN InsertInto(f[n - 1], Document(path, n).nn, Document(path, n))
                              ELSE f[n - 1]
<1> DEFINE docs == input.documents[path]
           L == Len(docs)
           taken(n) == docs[n].kind = "Ingress" /\ GetIngressClass(docs[n]) = ingressClassName(NoConfigMap)
           solves(u) == u = [n \in 0 .. L |->
                               IF n = 0 THEN c
                               ELSE IF taken(n) THEN InsertInto(u[n - 1], docs[n].nn, docs[n])
                               ELSE u[n - 1]]
           f == CHOOSE u : solves(u)
<1>1. IngressesWith(path, c) = f[L]
  BY Zenon DEF IngressesWith
<1>2. \E u : solves(u)
  <2> DEFINE T == {n \in 1 .. L : taken(n)}
             k == [n \in 1 .. L |-> docs[n].nn]
             v == [n \in 1 .. L |-> docs[n]]
  <2>1. PICK u : CollectsBy(u, L, c, T, k, v)
    <3>1. L \in Nat
      OBVIOUS
    <3> HIDE DEF T, k, v, L, solves, f, taken
    <3> QED
      BY <3>1, CollectionsExist, Zenon
  <2>2. \A n \in 0 .. L : n # 0 => (n \in T <=> taken(n)) /\ k[n] = docs[n].nn /\ v[n] = docs[n]
    OBVIOUS
  <2> HIDE DEF T, k, v, taken
  <2>3. solves(u)
    BY <2>1, <2>2 DEF CollectsBy
  <2> QED
    BY <2>3
<1>3. solves(f)
  <2> HIDE DEF solves
  <2> QED
    BY <1>2, Zenon
<1>4. \A n : taken(n) <=> Wanted(Document(path, n))
  BY Zenon DEF Wanted, Document
<1>5. \A n : docs[n] = Document(path, n)
  BY Zenon DEF Document
<1> HIDE DEF f, taken
<1>6. \A n \in 0 .. L : f[n] = IF n = 0 THEN c
                               ELSE IF taken(n) THEN InsertInto(f[n - 1], docs[n].nn, docs[n])
                               ELSE f[n - 1]
  BY <1>3
<1>7. f[0] = c
  BY <1>6
<1>8. ASSUME NEW n \in 1 .. L
      PROVE  f[n] = IF Wanted(Document(path, n))
                      THEN InsertInto(f[n - 1], Document(path, n).nn, Document(path, n))
                      ELSE f[n - 1]
  <2>1. n \in 0 .. L /\ n # 0
    OBVIOUS
  <2> HIDE DEF L
  <2> QED
    BY <1>4, <1>5, <1>6, <2>1
<1> QED
  BY <1>1, <1>7, <1>8

(* The paths are the expanded arguments, each once.                          *)
Listed(s) == s \in SetToSeqs(ExpandedArgs)

LEMMA ListedPaths ==
  ASSUME input \in Inputs, NEW s, Listed(s)
  PROVE  /\ Cardinality(ExpandedArgs) \in Nat
         /\ DOMAIN s = 1 .. Cardinality(ExpandedArgs)
         /\ {s[i] : i \in DOMAIN s} = ExpandedArgs
<1> DEFINE S == ExpandedArgs
           n == Cardinality(S)
<1>1. IsFiniteSet(S)
  BY InputsAssumption, Zenon DEF ExpandedArgs
<1>2. n \in Nat
  BY <1>1, FS_CardinalityType
<1>3. s \in [1 .. n -> S] /\ \A i, j \in 1 .. n : i # j => s[i] # s[j]
  BY Zenon DEF Listed, SetToSeqs
<1> HIDE DEF S
<1>4. s \in Injection(1 .. n, S)
  BY <1>3 DEF Injection, IsInjective
<1>5. Cardinality(1 .. n) = n
  BY <1>2, FS_Interval
<1>6. s \in Surjection(1 .. n, S)
  BY <1>1, <1>4, <1>5, FS_Injection
<1>7. {s[i] : i \in DOMAIN s} = S
  BY <1>3, <1>6 DEF Surjection
<1> QED
  BY <1>2, <1>3, <1>7 DEF S

(* The documents of a path are numbered from one.                            *)
LEMMA DocumentsNumbered ==
  ASSUME input \in Inputs, Listed(paths), NEW i \in DOMAIN paths
  PROVE  /\ Len(input.documents[paths[i]]) \in Nat
         /\ DOMAIN input.documents[paths[i]] = 1 .. Len(input.documents[paths[i]])
<1>1. paths[i] \in ExpandedArgs
  BY ListedPaths
<1>2. paths[i] \in DOMAIN input.documents
  BY <1>1, InputsAssumption, Zenon DEF ExpandedArgs
<1>3. IsList(input.documents[paths[i]])
  BY <1>2, InputsAssumption, Zenon
<1> QED
  BY <1>3, ListDomain

(* A file adds its declarations to those of the files before it.             *)
LEMMA GatherFile ==
  ASSUME input \in Inputs, Listed(paths), NEW k \in DOMAIN paths, k \in Nat, NEW r,
         ingressClassName(NoConfigMap) = WantedClass, Gathered(r, Before(k))
  PROVE  Gathered(IngressesWith(paths[k], r), Before(k + 1))
<1> DEFINE path == paths[k]
           L == Len(input.documents[path])
           P(n) == Before(k) \union {<<k, j>> : j \in 1 .. n}
<1>1. L \in Nat /\ DOMAIN input.documents[path] = 1 .. L
  BY DocumentsNumbered
<1>2. PICK f : /\ f[0] = r
               /\ IngressesWith(path, r) = f[L]
               /\ \A n \in 1 .. L :
                    f[n] = IF Wanted(Document(path, n))
                             THEN InsertInto(f[n - 1], Document(path, n).nn, Document(path, n))
                             ELSE f[n - 1]
  BY <1>1, CollectionStep
<1>3. Before(k + 1) = P(L)
  <2>1. DocumentsOf(k) = {<<k, j>> : j \in 1 .. L}
    BY <1>1 DEF DocumentsOf
  <2>2. DOMAIN paths \subseteq Nat
    BY ListedPaths
  <2>3. {i \in DOMAIN paths : i < k + 1} = {i \in DOMAIN paths : i < k} \union {k}
    BY <2>2
  <2> HIDE DEF L
  <2> QED
    BY <2>1, <2>3 DEF Before
<1>4. P(0) = Before(k)
  OBVIOUS
<1>5. ASSUME NEW n \in 1 .. L
      PROVE  /\ P(n) = P(n - 1) \union {<<k, n>>}
             /\ \A q \in P(n) : NotAfter(q, <<k, n>>)
  <2>1. 1 .. n = (1 .. (n - 1)) \union {n}
    BY <1>1
  <2>2. P(n) = P(n - 1) \union {<<k, n>>}
    BY <2>1
  <2>3. \A q \in Before(k) : q[1] < k
    BY DEF Before, DocumentsOf
  <2>4. \A j \in 1 .. n : j <= n
    BY <1>1
  <2> QED
    BY <2>2, <2>3, <2>4 DEF NotAfter
<1> DEFINE bad == {n \in 0 .. L : ~Gathered(f[n], P(n))}
<1> HIDE DEF P, L
<1>6. ASSUME bad # {}
      PROVE  FALSE
  <2>1. PICK n \in bad : \A m \in bad : n <= m
    <3>1. bad \in SUBSET Nat
      BY <1>1
    <3> HIDE DEF bad
    <3> QED
      BY <1>6, <3>1, LeastNumber
  <2>2. n \in 0 .. L /\ ~Gathered(f[n], P(n))
    BY <2>1
  <2>3. n # 0
    BY <1>2, <1>4, <2>2
  <2>4. n \in 1 .. L /\ n - 1 \in 0 .. L /\ ~(n <= n - 1)
    BY <1>1, <2>2, <2>3
  <2>5. Gathered(f[n - 1], P(n - 1))
    BY <2>1, <2>4
  <2>6. PICK p : p = <<k, n>>
    OBVIOUS
  <2>7. DocumentAt(p) = Document(path, n)
    BY <2>6 DEF DocumentAt
  <2>8. f[n] = IF Wanted(DocumentAt(p)) THEN InsertInto(f[n - 1], DocumentAt(p).nn, DocumentAt(p))
               ELSE f[n - 1]
    BY <1>2, <2>4, <2>7, Zenon
  <2>9. P(n) = P(n - 1) \union {p} /\ \A q \in P(n - 1) \union {p} : NotAfter(q, p)
    BY <1>5, <2>4, <2>6, Zenon
  <2>10. Gathered(f[n], P(n))
    <3>1. PICK c, Q : c = f[n - 1] /\ Q = P(n - 1)
      OBVIOUS
    <3>2. Gathered(c, Q) /\ \A q \in Q \union {p} : NotAfter(q, p)
      BY <2>5, <2>9, <3>1, Zenon
    <3>3. Gathered(IF Wanted(DocumentAt(p)) THEN InsertInto(c, DocumentAt(p).nn, DocumentAt(p)) ELSE c,
                   Q \union {p})
      BY <3>2, GatherOne
    <3>4. /\ f[n] = IF Wanted(DocumentAt(p)) THEN InsertInto(c, DocumentAt(p).nn, DocumentAt(p)) ELSE c
          /\ P(n) = Q \union {p}
      BY <2>8, <2>9, <3>1, Zenon
    <3> QED
      BY <3>3, <3>4, Zenon
  <2> QED
    BY <2>2, <2>10
<1>7. Gathered(f[L], P(L))
  BY <1>1, <1>6
<1> QED
  BY <1>2, <1>3, <1>7, Zenon

GatheredStages == {"rewriteFiles", "provider", "convert", "output", "write"}

(* While files are read, the Ingresses are those of the files whose turn is *)
(* over; afterwards, those of all.                                          *)
FilesInv ==
  input.command = "files" =>
    /\ stage \in {"setup", "expand", "ingressFiles", "ended"} \union GatheredStages
    /\ stage \in {"setup", "expand"} => next = 1 /\ DOMAIN ingresses = {}
    /\ stage \notin {"setup", "ended"} => ingressClassName(NoConfigMap) = WantedClass
    /\ stage \in {"ingressFiles"} \union GatheredStages => Listed(paths)
    /\ stage = "ingressFiles" =>
         /\ next \in 1 .. Cardinality(ExpandedArgs) + 1
         /\ Gathered(ingresses, Before(next))
    /\ stage \in GatheredStages => Gathered(ingresses, AllDocuments)

LEMMA InitFilesInv == Init => FilesInv
  BY DEF Init, RunInit, AggregationInit, FilesInv, GatheredStages

(* What the files declare does not change.                                   *)
LEMMA FilesStay ==
  ASSUME input' = input, paths' = paths
  PROVE  /\ \A r, P : Gathered(r, P)' <=> Gathered(r, P)
         /\ \A n : Before(n)' = Before(n)
         /\ AllDocuments' = AllDocuments
         /\ \A s : Listed(s)' <=> Listed(s)
         /\ ExpandedArgs' = ExpandedArgs
         /\ WantedClass' = WantedClass
<1>1. ExpandedArgs' = ExpandedArgs /\ WantedClass' = WantedClass
  BY Zenon DEF ExpandedArgs, WantedClass
<1>2. \A p, nn : Declares(p, nn)' <=> Declares(p, nn)
  BY <1>1, Zenon DEF Declares, Wanted, DocumentAt, Document, GetIngressClass
<1>3. \A p : DocumentAt(p)' = DocumentAt(p)
  BY Zenon DEF DocumentAt, Document
<1>4. \A p, q : NotAfter(p, q)' <=> NotAfter(p, q)
  BY Zenon DEF NotAfter
<1>5. \A r, P : Gathered(r, P)' <=> Gathered(r, P)
  BY <1>2, <1>3, <1>4, Zenon DEF Gathered
<1>6. \A n : Before(n)' = Before(n)
  BY Zenon DEF Before, DocumentsOf
<1>7. AllDocuments' = AllDocuments
  BY Zenon DEF AllDocuments, DocumentsOf
<1>8. \A s : Listed(s)' <=> Listed(s)
  BY <1>1, Zenon DEF Listed
<1> QED
  BY <1>1, <1>5, <1>6, <1>7, <1>8

(* A step that reads no file and changes nothing of what has been gathered.  *)
LEMMA IdleKeepsFilesInv ==
  ASSUME FilesInv, UNCHANGED <<input, class, paths, ingresses>>,
         \/ stage' = "ended"
         \/ stage' = stage /\ next' = next
         \/ stage \in GatheredStages /\ stage' \in GatheredStages
  PROVE  FilesInv'
<1> SUFFICES ASSUME input.command = "files" PROVE FilesInv'
  BY Zenon DEF FilesInv
<1>1. CASE stage' = "ended"
  BY <1>1 DEF FilesInv, GatheredStages
<1>2. CASE stage' # "ended"
  <2>1. ingressClassName(NoConfigMap)' = ingressClassName(NoConfigMap)
    BY Zenon DEF ingressClassName, ConfiguredClass, NoConfigMap
  <2>2. PICK r, P, n, Q, s : /\ r = ingresses /\ P = Before(next) /\ Q = AllDocuments
                             /\ n = next /\ s = paths
    OBVIOUS
  <2>3. /\ Gathered(ingresses, Before(next)) <=> Gathered(r, P)
        /\ Gathered(ingresses, AllDocuments) <=> Gathered(r, Q)
        /\ Listed(paths) <=> Listed(s)
    BY <2>2, Zenon
  <2>4. r = ingresses' /\ s = paths' /\ Q = AllDocuments'
    BY <2>2, FilesStay
  <2>5. (Gathered(ingresses, AllDocuments))' <=> Gathered(r, Q)'
    BY <2>4, Zenon
  <2>6. Listed(paths)' <=> Listed(s)'
    BY <2>4, Zenon
  <2>7. next' = next => ((Gathered(ingresses, Before(next)))' <=> Gathered(r, P)')
    <3>1. ASSUME next' = next PROVE P = (Before(next))'
      <4>1. P = Before(n) /\ n = next'
        BY <2>2, <3>1
      <4>2. P = Before(n)'
        BY <4>1, FilesStay
      <4> QED
        BY <4>1, <4>2, Zenon
    <3> QED
      BY <2>4, <3>1, Zenon
  <2>8. /\ Gathered(r, P)' <=> Gathered(r, P)
        /\ Gathered(r, Q)' <=> Gathered(r, Q)
        /\ Listed(s)' <=> Listed(s)
        /\ ExpandedArgs' = ExpandedArgs /\ WantedClass' = WantedClass
    BY FilesStay
  <2>9. CASE stage' = stage /\ next' = next
    <3>1. /\ (Gathered(ingresses, Before(next)))' <=> Gathered(ingresses, Before(next))
          /\ (Gathered(ingresses, AllDocuments))' <=> Gathered(ingresses, AllDocuments)
          /\ Listed(paths)' <=> Listed(paths)
      BY <2>3, <2>5, <2>6, <2>7, <2>8, <2>9, Zenon
    <3> QED
      BY <2>1, <2>8, <2>9, <3>1, Zenon DEF FilesInv, GatheredStages
  <2>10. CASE stage \in GatheredStages /\ stage' \in GatheredStages
    <3>1. Gathered(ingresses, AllDocuments) /\ Listed(paths)
          /\ ingressClassName(NoConfigMap) = WantedClass
      BY <2>10, Zenon DEF FilesInv, GatheredStages
    <3>2. (Gathered(ingresses, AllDocuments))' /\ Listed(paths)'
          /\ (ingressClassName(NoConfigMap) = WantedClass)'
      BY <2>1, <2>3, <2>5, <2>6, <2>8, <3>1, Zenon
    <3>3. stage' \notin {"setup", "expand", "ingressFiles"}
      BY <2>10 DEF GatheredStages
    <3> HIDE DEF GatheredStages
    <3> QED
      BY <2>10, <3>2, <3>3, Zenon DEF FilesInv
  <2> QED
    BY <1>2, <2>9, <2>10
<1> QED
  BY <1>1, <1>2

LEMMA SetupKeepsFilesInv ==
  FilesInv /\ Setup /\ UNCHANGED aggregationVars => FilesInv'
<1> SUFFICES ASSUME FilesInv, Setup, UNCHANGED aggregationVars, input.command = "files"
             PROVE  FilesInv'
  BY Zenon DEF FilesInv, Setup
<1>1. /\ input' = input /\ next' = next /\ ingresses' = ingresses
      /\ next = 1 /\ DOMAIN ingresses = {}
  BY Zenon DEF Setup, aggregationVars, FilesInv
<1>2. CASE stage' = "ended"
  BY <1>1, <1>2 DEF FilesInv, GatheredStages
<1>3. CASE stage' # "ended"
  <2>1. /\ stage' = "expand"
        /\ class' = IF input.provider = NGINX /\ input.class = NoClass THEN NGINX ELSE input.class
    BY <1>3, Zenon DEF Setup, Reject, Abort, Proceed
  <2>2. (ingressClassName(NoConfigMap) = WantedClass)'
    <3>1. NGINX # NoClass
      BY DEF NGINX, NoClass
    <3>2. ConfiguredClass(NoConfigMap) = NoClass
      BY DEF ConfiguredClass, NoConfigMap, NoClass
    <3>3. ingressClassName(NoConfigMap)' = IF class' # NoClass THEN class' ELSE DefaultIngressClassName
      BY <3>2, Zenon DEF ingressClassName, NoConfigMap, ConfiguredClass
    <3>4. WantedClass' = IF input.class # NoClass THEN input.class
                         ELSE IF input.provider = NGINX THEN NGINX
                         ELSE DefaultIngressClassName
      BY <1>1, Zenon DEF WantedClass
    <3> QED
      BY <2>1, <3>1, <3>3, <3>4
  <2> QED
    BY <1>1, <2>1, <2>2 DEF FilesInv, GatheredStages
<1> QED
  BY <1>2, <1>3

LEMMA expandFileAndDirArgsKeepsFilesInv ==
  input \in Inputs /\ FilesInv /\ expandFileAndDirArgs => FilesInv'
<1> SUFFICES ASSUME input \in Inputs, FilesInv, expandFileAndDirArgs, input.command = "files"
             PROVE  FilesInv'
  BY Zenon DEF FilesInv, expandFileAndDirArgs
<1>1. /\ stage = "expand" /\ input' = input /\ next' = next /\ ingresses' = ingresses
      /\ class' = class
      /\ next = 1 /\ DOMAIN ingresses = {} /\ ingressClassName(NoConfigMap) = WantedClass
  BY DEF expandFileAndDirArgs, FilesInv
<1>2. CASE stage' = "ended"
  BY <1>1, <1>2 DEF FilesInv, GatheredStages
<1>3. CASE stage' # "ended"
  <2>1. stage' = "ingressFiles" /\ Listed(paths')
    BY <1>3, Zenon DEF expandFileAndDirArgs, FailAt, Reject, Abort, Proceed, Listed
  <2>2. ExpandedArgs' = ExpandedArgs /\ WantedClass' = WantedClass
    BY <1>1, Zenon DEF ExpandedArgs, WantedClass
  <2>3. Listed(paths)'
    BY <2>1, <2>2, Zenon DEF Listed
  <2>4. PICK s : s = paths'
    OBVIOUS
  <2>5. Cardinality(ExpandedArgs) \in Nat /\ DOMAIN s = 1 .. Cardinality(ExpandedArgs)
    BY <2>1, <2>4, ListedPaths
  <2>6. (Before(next))' = {}
    <3>1. {i \in DOMAIN s : i < 1} = {}
      BY <2>5
    <3>2. (Before(next))' = UNION {DocumentsOf(i)' : i \in {k \in DOMAIN s : k < 1}}
      BY <1>1, <2>4, Zenon DEF Before
    <3>3. (Before(next))' = UNION {DocumentsOf(i)' : i \in {}}
      BY <3>1, <3>2, Zenon
    <3> QED
      BY <3>3
  <2>7. (Gathered(ingresses, Before(next)))'
    <3>1. (DOMAIN ingresses)' = {}
      BY <1>1
    <3> QED
      BY <2>6, <3>1, Zenon DEF Gathered
  <2>8. (ingressClassName(NoConfigMap) = WantedClass)'
    BY <1>1, <2>2, Zenon DEF ingressClassName, ConfiguredClass, NoConfigMap
  <2>9. (next \in 1 .. Cardinality(ExpandedArgs) + 1)'
    BY <1>1, <2>2, <2>5
  <2> QED
    BY <2>1, <2>3, <2>7, <2>8, <2>9 DEF FilesInv, GatheredStages
<1> QED
  BY <1>2, <1>3

LEMMA collectIngressesFromFilesKeepsFilesInv ==
  input \in Inputs /\ FilesInv /\ collectIngressesFromFiles => FilesInv'
<1> SUFFICES ASSUME input \in Inputs, FilesInv, collectIngressesFromFiles, input.command = "files"
             PROVE  FilesInv'
  BY Zenon DEF FilesInv, collectIngressesFromFiles
<1>1. /\ stage = "ingressFiles" /\ UNCHANGED <<input, class, paths>>
      /\ Listed(paths) /\ ingressClassName(NoConfigMap) = WantedClass
      /\ next \in 1 .. Cardinality(ExpandedArgs) + 1
      /\ Gathered(ingresses, Before(next))
  BY Zenon DEF collectIngressesFromFiles, FilesInv
<1>2. Cardinality(ExpandedArgs) \in Nat /\ DOMAIN paths = 1 .. Cardinality(ExpandedArgs)
  BY <1>1, ListedPaths
<1>3. /\ Listed(paths)' /\ (ingressClassName(NoConfigMap) = WantedClass)'
      /\ ExpandedArgs' = ExpandedArgs
  <2>1. PICK s : s = paths
    OBVIOUS
  <2>2. Listed(s) /\ s = paths'
    BY <1>1, <2>1
  <2>3. Listed(s)' /\ WantedClass' = WantedClass /\ ExpandedArgs' = ExpandedArgs
    BY <1>1, <2>2, FilesStay
  <2>4. ingressClassName(NoConfigMap)' = ingressClassName(NoConfigMap)
    BY <1>1, Zenon DEF ingressClassName, ConfiguredClass, NoConfigMap
  <2> QED
    BY <1>1, <2>2, <2>3, <2>4, Zenon
<1>4. CASE stage' = "ended"
  BY <1>1, <1>4 DEF FilesInv, GatheredStages
<1>5. CASE /\ next \in DOMAIN paths
           /\ ingresses' = IngressesWith(paths[next], ingresses)
           /\ next' = next + 1
           /\ stage' = "ingressFiles"
  <2>1. PICK k, r, t : k = next /\ r = ingresses /\ t = ingresses'
    OBVIOUS
  <2>2. k \in DOMAIN paths /\ k \in Nat /\ Gathered(r, Before(k)) /\ t = IngressesWith(paths[k], r)
    BY <1>1, <1>2, <1>5, <2>1
  <2>3. Gathered(t, Before(k + 1))
    BY <1>1, <2>2, GatherFile
  <2>4. PICK P, n : P = Before(k + 1) /\ n = k + 1
    OBVIOUS
  <2>5. Gathered(t, P)' /\ P = Before(n)'
    BY <1>1, <2>3, <2>4, FilesStay
  <2>6. n = next' /\ t = ingresses'
    BY <1>5, <2>1, <2>4
  <2>7. (Gathered(ingresses, Before(next)))'
    BY <2>5, <2>6, Zenon
  <2>8. (next \in 1 .. Cardinality(ExpandedArgs) + 1)'
    BY <1>2, <1>3, <1>5
  <2> QED
    BY <1>3, <1>5, <2>7, <2>8 DEF FilesInv, GatheredStages
<1>6. CASE next \notin DOMAIN paths /\ stage' = "rewriteFiles" /\ ingresses' = ingresses
  <2>1. Before(next) = AllDocuments
    <3>1. {i \in DOMAIN paths : i < next} = DOMAIN paths
      BY <1>1, <1>2, <1>6
    <3> QED
      BY <3>1, Zenon DEF Before, AllDocuments
  <2>2. PICK r, P : r = ingresses /\ P = AllDocuments
    OBVIOUS
  <2>3. Gathered(r, P)
    BY <1>1, <2>1, <2>2, Zenon
  <2>4. Gathered(r, P)' /\ P = AllDocuments' /\ r = ingresses'
    BY <1>1, <1>6, <2>2, <2>3, FilesStay
  <2>5. (Gathered(ingresses, AllDocuments))'
    BY <2>4, Zenon
  <2> QED
    BY <1>3, <1>6, <2>5 DEF FilesInv, GatheredStages
<1> QED
  BY <1>4, <1>5, <1>6, Zenon DEF collectIngressesFromFiles, FailAt, Abort, Proceed,
                                     ProceedDespite

LEMMA NextKeepsFilesInv == input \in Inputs /\ FilesInv /\ [Next]_vars => FilesInv'
<1> SUFFICES ASSUME input \in Inputs, FilesInv, [Next]_vars PROVE FilesInv'
  OBVIOUS
<1>1. CASE Setup /\ UNCHANGED <<aggregationVars, outputVars, provider>>
  BY <1>1, SetupKeepsFilesInv
<1>2. CASE expandFileAndDirArgs
  BY <1>2, expandFileAndDirArgsKeepsFilesInv
<1>3. CASE collectIngressesFromFiles
  BY <1>3, collectIngressesFromFilesKeepsFilesInv
<1>4. CASE collectRewriteRuleSetsFromFiles
  <2>1. /\ stage = "rewriteFiles" /\ stage' \in {"ended", "rewriteFiles", "provider"}
        /\ UNCHANGED <<input, class, paths, ingresses>>
    BY <1>4, Zenon DEF collectRewriteRuleSetsFromFiles, FailAt, Abort, Proceed
  <2> QED
    BY <2>1, IdleKeepsFilesInv DEF GatheredStages
<1>5. CASE Connect \/ TestHelmLabel \/ TestAddonLabel \/ loadAGICConfigMap
           \/ collectIngressesFromCluster \/ collectRewriteRuleSetsFromCluster
           \/ OpenLogFails \/ scrapeAGICLogsForWAFPolicyID
  <2>1. stage \in {"connect", "helmLabel", "addonLabel", "configMap", "ingresses",
                   "rewrites", "logs"}
        /\ input' = input
    BY <1>5, Zenon
    DEF Connect, TestHelmLabel, TestAddonLabel, loadAGICConfigMap, collectIngressesFromCluster,
        collectRewriteRuleSetsFromCluster, OpenLogFails, scrapeAGICLogsForWAFPolicyID
  <2>2. input.command # "files"
    BY <2>1 DEF FilesInv, GatheredStages
  <2> QED
    BY <2>1, <2>2, Zenon DEF FilesInv
<1>6. CASE makeProvider
  <2>1. /\ stage = "provider" /\ stage' \in {"ended", "convert"}
        /\ UNCHANGED <<input, class, paths, ingresses>>
    BY <1>6, Zenon DEF makeProvider, Reject, Abort, Proceed, aggregationVars
  <2> QED
    BY <2>1, IdleKeepsFilesInv DEF GatheredStages
<1>7. CASE Convert
  <2>1. /\ stage = "convert" /\ stage' = "output"
        /\ UNCHANGED <<input, class, paths, ingresses>>
    BY <1>7, Zenon DEF Convert, Proceed, aggregationVars
  <2> QED
    BY <2>1, IdleKeepsFilesInv DEF GatheredStages
<1>8. CASE OutputStep /\ UNCHANGED <<aggregationVars, provider>>
  <2>1. /\ stage \in {"output", "write"} /\ stage' \in {"ended", "write"}
        /\ UNCHANGED <<input, class, paths, ingresses>>
    BY <1>8, Zenon
    DEF OutputStep, BeginOutput, WriteResource, WriteFails, PrintReport, FailAt, Abort, Proceed,
        aggregationVars, runVars
  <2> QED
    BY <2>1, IdleKeepsFilesInv DEF GatheredStages
<1>9. CASE PodsChange \/ UNCHANGED vars
  <2>1. UNCHANGED <<input, stage, class, paths, next, ingresses>>
    BY <1>9, Zenon DEF PodsChange, vars, runVars, aggregationVars
  <2> QED
    BY <2>1, IdleKeepsFilesInv
<1> QED
  BY <1>1, <1>2, <1>3, <1>4, <1>5, <1>6, <1>7, <1>8, <1>9, Zenon
  DEF Next, Step, AggregationStep, Ended

(* What has been gathered is what CollectsWhatIsDeclared asks for.           *)
LEMMA GatheredIsDeclared == input \in Inputs /\ FilesInv => CollectsWhatIsDeclared
<1> SUFFICES ASSUME input \in Inputs, FilesInv, Collected, input.command = "files"
             PROVE  CollectsWhatIsDeclared
  BY DEF CollectsWhatIsDeclared
<1>1. Listed(paths) /\ Gathered(ingresses, AllDocuments)
  BY DEF FilesInv, Collected, GatheredStages
<1>2. {paths[i] : i \in DOMAIN paths} = ExpandedArgs
  BY <1>1, ListedPaths
<1>3. \A nn, p : p \in Declarations(nn) <=> p \in AllDocuments /\ Declares(p, nn)
  BY DEF Declarations, AllDocuments, DocumentsOf, Declares, DocumentAt
<1>4. \A nn : nn \in DOMAIN ingresses <=> Declarations(nn) # {}
  BY <1>1, <1>3 DEF Gathered
<1>5. \A nn : Declarations(nn) # {} => nn \in DeclaredNames
  BY <1>2 DEF Declarations, DeclaredNames, Document
<1>6. DOMAIN ingresses = {nn \in DeclaredNames : Declarations(nn) # {}}
  BY <1>4, <1>5
<1>7. ASSUME NEW nn \in DOMAIN ingresses
      PROVE  \E at \in Declarations(nn) :
               /\ \A other \in Declarations(nn) : NotAfter(other, at)
               /\ ingresses[nn] = Document(paths[at[1]], at[2])
  <2>1. PICK p \in AllDocuments :
          /\ Declares(p, nn) /\ ingresses[nn] = DocumentAt(p)
          /\ \A q \in AllDocuments : Declares(q, nn) => NotAfter(q, p)
    BY <1>1, Zenon DEF Gathered
  <2> QED
    BY <1>3, <2>1, Zenon DEF DocumentAt
<1> QED
  BY <1>2, <1>6, <1>7, Zenon DEF CollectsWhatIsDeclared

(* Every Ingress of the wanted class that some file declares is collected,  *)
(* in its last declaration, in whatever order the files come                *)
(* (aggregation/aggregation.go).                                            *)
THEOREM CollectionSafety == Spec => []CollectsWhatIsDeclared
<1>1. Init => FilesInv
  BY InitFilesInv
<1>2. IInv => input \in Inputs
  BY DEF IInv, FlagsInv
<1>3. IInv /\ FilesInv /\ [Next]_vars => FilesInv'
  BY <1>2, NextKeepsFilesInv
<1>4. IInv /\ FilesInv => CollectsWhatIsDeclared
  BY <1>2, GatheredIsDeclared
<1> QED
  BY <1>1, <1>3, <1>4, Invariance, PTL DEF Spec

-----------------------------------------------------------------------------
(* The log.                                                                  *)

NothingScanned == [current |-> <<>>, lastBlock |-> <<>>]

ScanLine(s, line) ==
  IF line # Plain THEN [s EXCEPT !.current = Append(@, line)]
  ELSE IF s.current # <<>> THEN [current |-> <<>>, lastBlock |-> s.current]
  ELSE s

ScansBy(f, lines, l) ==
  f = [n \in 0 .. l |-> IF n = 0 THEN NothingScanned ELSE ScanLine(f[n - 1], lines[n])]

(* The recursion over the lines of a log has a solution.                     *)
LEMMA ScansExist ==
  ASSUME NEW L \in Nat, NEW lines
  PROVE  \E f : ScansBy(f, lines, L)
<1> DEFINE bad == {l \in Nat : \A f : ~ScansBy(f, lines, l)}
<1>1. ASSUME bad # {}
      PROVE  FALSE
  <2>1. PICK l \in bad : \A m \in bad : l <= m
    <3>1. bad \in SUBSET Nat
      OBVIOUS
    <3> HIDE DEF bad
    <3> QED
      BY <1>1, <3>1, LeastNumber
  <2>2. CASE l = 0
    <3> DEFINE f == [n \in 0 .. 0 |-> NothingScanned]
    <3>1. f = [n \in 0 .. 0 |-> IF n = 0 THEN NothingScanned ELSE ScanLine(f[n - 1], lines[n])]
      OBVIOUS
    <3>2. ScansBy(f, lines, l)
      BY <2>2, <3>1 DEF ScansBy
    <3> QED
      BY <2>1, <3>2
  <2>3. CASE l # 0
    <3>1. l \in Nat /\ l - 1 \in Nat /\ ~(l <= l - 1)
      BY <2>3
    <3>2. l - 1 \notin bad
      BY <2>1, <3>1
    <3>3. PICK f : ScansBy(f, lines, l - 1)
      BY <3>1, <3>2
    <3> DEFINE g == [n \in 0 .. l |-> IF n = l THEN ScanLine(f[l - 1], lines[l]) ELSE f[n]]
    <3>4. ASSUME NEW n \in 0 .. l
          PROVE  g[n] = IF n = 0 THEN NothingScanned ELSE ScanLine(g[n - 1], lines[n])
      <4>1. CASE n = l
        <5>1. g[n] = ScanLine(f[l - 1], lines[l]) /\ g[n - 1] = f[n - 1]
          BY <3>1, <4>1
        <5> QED
          BY <2>3, <4>1, <5>1
      <4>2. CASE n # l
        <5>1. n \in 0 .. (l - 1) /\ g[n] = f[n]
          BY <3>1, <4>2
        <5>2. n # 0 => n - 1 \in 0 .. l /\ n - 1 # l
          BY <3>1, <5>1
        <5>3. n # 0 => g[n - 1] = f[n - 1]
          BY <5>2
        <5>4. f[n] = IF n = 0 THEN NothingScanned ELSE ScanLine(f[n - 1], lines[n])
          BY <3>3, <5>1 DEF ScansBy
        <5> QED
          BY <5>1, <5>3, <5>4
      <4> QED
        BY <4>1, <4>2
    <3>5. g = [n \in 0 .. l |-> g[n]]
      OBVIOUS
    <3> HIDE DEF g
    <3>6. ScansBy(g, lines, l)
      BY <3>4, <3>5 DEF ScansBy
    <3> QED
      BY <2>1, <3>6
  <2> QED
    BY <2>2, <2>3
<1> QED
  BY <1>1

(* What the recursion over the lines computes, step by step.                 *)
LEMMA ScanSteps ==
  ASSUME NEW lines, Len(lines) \in Nat
  PROVE  \E f : /\ f[0] = NothingScanned
                /\ Scan(lines) = f[Len(lines)]
                /\ \A n \in 1 .. Len(lines) : f[n] = ScanLine(f[n - 1], lines[n])
<1> DEFINE L == Len(lines)
           f == CHOOSE u : u = [n \in 0 .. L |->
                  IF n = 0 THEN [current |-> <<>>, lastBlock |-> <<>>]
                  ELSE IF lines[n] # Plain
                    THEN [u[n - 1] EXCEPT !.current = Append(@, lines[n])]
                  ELSE IF u[n - 1].current # <<>>
                    THEN [current |-> <<>>, lastBlock |-> u[n - 1].current]
                  ELSE u[n - 1]]
<1>1. Scan(lines) = f[L]
  BY Zenon DEF Scan
<1>2. f = CHOOSE u : ScansBy(u, lines, L)
  BY Zenon DEF ScansBy, ScanLine, NothingScanned
<1>3. \E u : ScansBy(u, lines, L)
  BY ScansExist
<1> HIDE DEF f
<1>4. ScansBy(f, lines, L)
  BY <1>2, <1>3, Zenon
<1>5. \A n \in 0 .. L : f[n] = IF n = 0 THEN NothingScanned ELSE ScanLine(f[n - 1], lines[n])
  BY <1>4 DEF ScansBy
<1>6. f[0] = NothingScanned
  BY <1>5
<1>7. ASSUME NEW n \in 1 .. L
      PROVE  f[n] = ScanLine(f[n - 1], lines[n])
  <2>1. n \in 0 .. L /\ n # 0
    OBVIOUS
  <2> QED
    BY <1>5, <2>1
<1> QED
  BY <1>1, <1>6, <1>7

(* The lines after a, up to c, as a list.                                    *)
Stretch(lines, a, c) == [i \in 1 .. (c - a) |-> lines[a + i]]

AllConfig(lines, a, c) == \A i \in (a + 1) .. c : lines[i] # Plain
AllPlain(lines, a, c)  == \A i \in (a + 1) .. c : lines[i] = Plain
StartsAt(lines, a)     == a = 0 \/ lines[a] = Plain

(* After n lines, current holds the configuration lines after line a, the   *)
(* last plain one, and lastBlock the block that ended last before.           *)
Scanned(lines, n, s) ==
  \E a \in 0 .. n :
    /\ s.current = Stretch(lines, a, n) /\ AllConfig(lines, a, n) /\ StartsAt(lines, a)
    /\ \/ s.lastBlock = <<>> /\ AllPlain(lines, 0, a)
       \/ \E b, c \in 0 .. a :
            /\ b < c /\ c < a
            /\ s.lastBlock = Stretch(lines, b, c)
            /\ AllConfig(lines, b, c) /\ StartsAt(lines, b) /\ AllPlain(lines, c, a)

LEMMA StretchIsList ==
  ASSUME NEW lines, NEW a \in Nat, NEW c \in Nat, a <= c
  PROVE  /\ IsList(Stretch(lines, a, c))
         /\ Len(Stretch(lines, a, c)) = c - a
         /\ DOMAIN Stretch(lines, a, c) = 1 .. (c - a)
         /\ \A i \in 1 .. (c - a) : Stretch(lines, a, c)[i] = lines[a + i]
<1> DEFINE s == Stretch(lines, a, c)
<1>1. /\ DOMAIN s = 1 .. (c - a)
      /\ s = [i \in 1 .. (c - a) |-> s[i]]
      /\ \A i \in 1 .. (c - a) : s[i] = lines[a + i]
  BY DEF Stretch
<1>2. c - a \in Nat
  OBVIOUS
<1> HIDE DEF s
<1>3. IsList(s) /\ Len(s) = c - a
  BY <1>1, <1>2, ListMade
<1> QED
  BY <1>1, <1>3 DEF s

LEMMA EmptyStretch ==
  ASSUME NEW lines, NEW a \in Nat, NEW c \in Nat, a <= c
  PROVE  (Stretch(lines, a, c) = <<>>) <=> (a = c)
<1>1. PICK s : s = Stretch(lines, a, c)
  OBVIOUS
<1>2. IsList(s) /\ Len(s) = c - a
  BY <1>1, StretchIsList
<1>3. s = <<>> <=> Len(s) = 0
  BY <1>2 DEF IsList
<1> QED
  BY <1>1, <1>2, <1>3

LEMMA ScanKeeps ==
  ASSUME NEW lines, NEW n \in Nat, n # 0, NEW s,
         s = [current |-> s.current, lastBlock |-> s.lastBlock],
         Scanned(lines, n - 1, s)
  PROVE  /\ Scanned(lines, n, ScanLine(s, lines[n]))
         /\ ScanLine(s, lines[n]) =
              [current |-> ScanLine(s, lines[n]).current, lastBlock |-> ScanLine(s, lines[n]).lastBlock]
<1>1. PICK a \in 0 .. (n - 1) :
        /\ s.current = Stretch(lines, a, n - 1) /\ AllConfig(lines, a, n - 1) /\ StartsAt(lines, a)
        /\ \/ s.lastBlock = <<>> /\ AllPlain(lines, 0, a)
           \/ \E b, c \in 0 .. a :
                /\ b < c /\ c < a
                /\ s.lastBlock = Stretch(lines, b, c)
                /\ AllConfig(lines, b, c) /\ StartsAt(lines, b) /\ AllPlain(lines, c, a)
  BY Zenon DEF Scanned
<1>2. CASE lines[n] # Plain
  <2>1. ScanLine(s, lines[n]) =
          [current |-> Append(s.current, lines[n]), lastBlock |-> s.lastBlock]
    BY <1>2 DEF ScanLine
  <2>2. Append(s.current, lines[n]) = Stretch(lines, a, n)
    <3>1. PICK t, line : t = s.current /\ line = lines[n]
      OBVIOUS
    <3>2. a \in Nat /\ n - 1 \in Nat /\ a <= n - 1
      OBVIOUS
    <3>3. /\ IsList(t) /\ Len(t) = n - 1 - a
          /\ \A i \in 1 .. (n - 1 - a) : t[i] = lines[a + i]
      BY <1>1, <3>1, <3>2, StretchIsList
    <3>4. PICK u : u = Append(t, line)
      OBVIOUS
    <3>5. /\ DOMAIN u = 1 .. (n - a)
          /\ u = [i \in 1 .. (n - a) |-> u[i]]
          /\ \A i \in 1 .. (n - 1 - a) : u[i] = t[i]
          /\ u[n - a] = line
      <4> DEFINE S == {t[i] : i \in DOMAIN t} \union {line}
      <4>1. t \in Seq(S) /\ line \in S
        BY <3>3 DEF IsList
      <4> HIDE DEF S
      <4>2. /\ u \in Seq(S) /\ Len(u) = Len(t) + 1
            /\ \A i \in 1 .. Len(t) : u[i] = t[i]
            /\ u[Len(t) + 1] = line
        BY <3>4, <4>1, AppendProperties
      <4>3. DOMAIN u = 1 .. (n - a) /\ u = [i \in DOMAIN u |-> u[i]]
        BY <3>2, <3>3, <4>2
      <4> QED
        BY <3>2, <3>3, <4>2, <4>3
    <3>6. \A i \in 1 .. (n - a) : u[i] = lines[a + i]
      <4>1. ASSUME NEW i \in 1 .. (n - 1 - a)
            PROVE  u[i] = lines[a + i]
        BY <3>3, <3>5
      <4>2. a + (n - a) = n
        BY <3>2
      <4>3. u[n - a] = lines[a + (n - a)]
        BY <3>1, <3>5, <4>2
      <4>4. \A i \in 1 .. (n - a) : i \in 1 .. (n - 1 - a) \/ i = n - a
        BY <3>2
      <4> QED
        BY <4>1, <4>3, <4>4
    <3>7. u = Stretch(lines, a, n)
      BY <3>5, <3>6 DEF Stretch
    <3> QED
      BY <3>1, <3>4, <3>7
  <2>3. AllConfig(lines, a, n)
    BY <1>1, <1>2 DEF AllConfig
  <2>4. a \in 0 .. n
    OBVIOUS
  <2>5. Scanned(lines, n, [current |-> Append(s.current, lines[n]), lastBlock |-> s.lastBlock])
    BY <1>1, <2>2, <2>3, <2>4 DEF Scanned
  <2> QED
    BY <2>1, <2>5
<1>3. CASE lines[n] = Plain /\ s.current # <<>>
  <2>1. ScanLine(s, lines[n]) = [current |-> <<>>, lastBlock |-> s.current]
    BY <1>3 DEF ScanLine
  <2>2. a < n - 1
    BY <1>1, <1>3, EmptyStretch
  <2>3. Stretch(lines, n, n) = <<>>
    BY EmptyStretch
  <2>4. AllConfig(lines, n, n) /\ StartsAt(lines, n) /\ AllPlain(lines, n - 1, n)
    BY <1>3 DEF AllConfig, StartsAt, AllPlain
  <2>5. PICK c : c = n - 1
    OBVIOUS
  <2>6. a \in 0 .. n /\ c \in 0 .. n /\ n \in 0 .. n /\ a < c /\ c < n
    BY <2>2, <2>5
  <2>7. Scanned(lines, n, [current |-> <<>>, lastBlock |-> s.current])
    BY <1>1, <2>3, <2>4, <2>5, <2>6 DEF Scanned
  <2> QED
    BY <2>1, <2>7
<1>4. CASE lines[n] = Plain /\ s.current = <<>>
  <2>1. ScanLine(s, lines[n]) = s
    BY <1>4 DEF ScanLine
  <2>2. a = n - 1
    BY <1>1, <1>4, EmptyStretch
  <2>3. Stretch(lines, n, n) = <<>>
    BY EmptyStretch
  <2>4. AllConfig(lines, n, n) /\ StartsAt(lines, n)
    BY <1>4 DEF AllConfig, StartsAt
  <2>5. \A c \in 0 .. a : AllPlain(lines, c, a) => AllPlain(lines, c, n)
    BY <1>4, <2>2 DEF AllPlain
  <2>6. \/ s.lastBlock = <<>> /\ AllPlain(lines, 0, n)
        \/ \E b, c \in 0 .. n :
             /\ b < c /\ c < n
             /\ s.lastBlock = Stretch(lines, b, c)
             /\ AllConfig(lines, b, c) /\ StartsAt(lines, b) /\ AllPlain(lines, c, n)
    <3>1. CASE s.lastBlock = <<>> /\ AllPlain(lines, 0, a)
      <4>1. 0 \in 0 .. a
        OBVIOUS
      <4> QED
        BY <2>5, <3>1, <4>1
    <3>2. ASSUME NEW b \in 0 .. a, NEW c \in 0 .. a, b < c, c < a,
                 s.lastBlock = Stretch(lines, b, c),
                 AllConfig(lines, b, c), StartsAt(lines, b), AllPlain(lines, c, a)
          PROVE  <2>6!2
      <4>1. b \in 0 .. n /\ c \in 0 .. n /\ c < n
        BY <2>2, <3>2
      <4>2. AllPlain(lines, c, n)
        BY <2>5, <3>2
      <4> QED
        BY <3>2, <4>1, <4>2
    <3> QED
      BY <1>1, <3>1, <3>2
  <2>7. n \in 0 .. n
    OBVIOUS
  <2>8. Scanned(lines, n, s)
    BY <1>4, <2>3, <2>4, <2>6, <2>7 DEF Scanned
  <2> QED
    BY <2>1, <2>8
<1> QED
  BY <1>2, <1>3, <1>4

(* What scanning a log leaves.                                               *)
LEMMA ScanResult ==
  ASSUME NEW lines, Len(lines) \in Nat
  PROVE  Scanned(lines, Len(lines), Scan(lines))
<1> DEFINE L == Len(lines)
<1>1. PICK f : /\ f[0] = NothingScanned
               /\ Scan(lines) = f[L]
               /\ \A n \in 1 .. L : f[n] = ScanLine(f[n - 1], lines[n])
  BY ScanSteps
<1> DEFINE good(n) == /\ Scanned(lines, n, f[n])
                      /\ f[n] = [current |-> f[n].current, lastBlock |-> f[n].lastBlock]
           bad == {n \in 0 .. L : ~good(n)}
<1>2. good(0)
  <2>1. PICK s : s = f[0]
    OBVIOUS
  <2>2. s = NothingScanned
    BY <1>1, <2>1
  <2>3. Stretch(lines, 0, 0) = <<>>
    BY EmptyStretch
  <2>4. AllConfig(lines, 0, 0) /\ StartsAt(lines, 0) /\ AllPlain(lines, 0, 0) /\ 0 \in 0 .. 0
    BY DEF AllConfig, StartsAt, AllPlain
  <2>5. Scanned(lines, 0, s)
    BY <2>2, <2>3, <2>4 DEF Scanned, NothingScanned
  <2>6. s = [current |-> s.current, lastBlock |-> s.lastBlock]
    BY <2>2 DEF NothingScanned
  <2> QED
    BY <2>1, <2>5, <2>6
<1> HIDE DEF L
<1>3. ASSUME bad # {}
      PROVE  FALSE
  <2>1. PICK n \in bad : \A m \in bad : n <= m
    <3>1. bad \in SUBSET Nat
      BY DEF L
    <3> HIDE DEF bad
    <3> QED
      BY <1>3, <3>1, LeastNumber
  <2> HIDE DEF good
  <2>2. n \in 0 .. L /\ ~good(n)
    BY <2>1
  <2>3. n # 0
    BY <1>2, <2>2
  <2>4. n \in Nat /\ n \in 1 .. L /\ n - 1 \in 0 .. L /\ ~(n <= n - 1)
    BY <2>2, <2>3 DEF L
  <2>5. good(n - 1)
    BY <2>1, <2>4
  <2>6. PICK s, t : s = f[n - 1] /\ t = f[n]
    OBVIOUS
  <2>7. t = ScanLine(s, lines[n])
    BY <1>1, <2>4, <2>6
  <2>8. Scanned(lines, n - 1, s) /\ s = [current |-> s.current, lastBlock |-> s.lastBlock]
    BY <2>5, <2>6, Zenon DEF good
  <2>9. Scanned(lines, n, t) /\ t = [current |-> t.current, lastBlock |-> t.lastBlock]
    BY <2>3, <2>4, <2>7, <2>8, ScanKeeps, Zenon
  <2> QED
    BY <2>2, <2>6, <2>9, Zenon DEF good
<1>4. L \in 0 .. L
  BY DEF L
<1>5. good(L)
  <2> HIDE DEF good
  <2> QED
    BY <1>3, <1>4
<1> QED
  BY <1>1, <1>5, Zenon DEF L

(* What the block made of a stretch of lines says of these lines.            *)
WithBrace(block) == IF Head(block) \notin {Open, Close} THEN <<Open>> \o block ELSE block

Says(lines, b, c) ==
  /\ lines[c] = Close
  /\ \E i \in (b + 1) .. c : lines[i] = PolicyID(WithBrace(Stretch(lines, b, c)))

LEMMA PolicyOfStretch ==
  ASSUME NEW lines, NEW b \in Nat, NEW c \in Nat, b < c,
         Last(WithBrace(Stretch(lines, b, c))) = Close,
         PolicyID(WithBrace(Stretch(lines, b, c))) # NoID
  PROVE  Says(lines, b, c)
<1> SUFFICES ASSUME NEW block, block = Stretch(lines, b, c), NEW t, t = WithBrace(block),
                    Last(t) = Close, PolicyID(t) # NoID
             PROVE  lines[c] = Close /\ \E i \in (b + 1) .. c : lines[i] = PolicyID(t)
  BY Zenon DEF Says
<1> DEFINE k == Len(block)
<1>1. /\ IsList(block) /\ k = c - b /\ k \in Nat /\ k # 0
      /\ \A i \in 1 .. k : block[i] = lines[b + i]
  <2>1. b <= c
    OBVIOUS
  <2>2. IsList(block) /\ k = c - b /\ \A i \in 1 .. (c - b) : block[i] = lines[b + i]
    BY <2>1, StretchIsList
  <2> HIDE DEF k
  <2> QED
    BY <2>2
<1>2. PICK d \in {0, 1} : /\ IsList(t) /\ Len(t) = k + d
                          /\ \A i \in 1 .. k : t[i + d] = block[i]
                          /\ \A i \in 1 .. d : t[i] = Open
  <2> t = block \/ t = <<Open>> \o block
    BY Zenon DEF WithBrace
  <2>1. CASE t = block
    <3>1. /\ IsList(t) /\ Len(t) = k + 0
          /\ \A i \in 1 .. k : t[i + 0] = block[i]
          /\ \A i \in 1 .. 0 : t[i] = Open
      BY <1>1, <2>1
    <3> QED
      BY <3>1
  <2>2. CASE t = <<Open>> \o block
    <3> DEFINE S == {block[i] : i \in DOMAIN block} \union {Open}
    <3>1. block \in Seq(S) /\ <<Open>> \in Seq(S)
      BY <1>1 DEF IsList
    <3> HIDE DEF S
    <3>2. /\ t \in Seq(S) /\ Len(t) = 1 + k
          /\ \A i \in 1 .. Len(t) : t[i] = IF i <= 1 THEN <<Open>>[i] ELSE block[i - 1]
      BY <2>2, <3>1, ConcatProperties
    <3>3. t[1] = Open
      BY <1>1, <3>2
    <3>4. ASSUME NEW i \in 1 .. k PROVE t[i + 1] = block[i]
      <4>1. i + 1 \in 1 .. Len(t) /\ ~(i + 1 <= 1) /\ (i + 1) - 1 = i
        BY <1>1, <3>2
      <4> QED
        BY <3>2, <4>1
    <3>5. IsList(t)
      BY <3>2, SequenceIsList
    <3>6. \A i \in 1 .. 1 : t[i] = Open
      BY <3>3
    <3> QED
      BY <1>1, <3>2, <3>4, <3>5, <3>6
  <2> QED
    BY <2>1, <2>2
<1> HIDE DEF k
<1>3. t[k + d] = Close
  BY <1>2 DEF Last
<1>4. lines[c] = Close
  <2>1. k \in 1 .. k /\ b + k = c
    BY <1>1
  <2>2. t[k + d] = block[k] /\ block[k] = lines[b + k]
    BY <1>1, <1>2, <2>1
  <2> QED
    BY <1>3, <2>1, <2>2
<1> DEFINE named == {i \in DOMAIN t : t[i] \in WAFPolicyIDs}
<1>5. PolicyID(t) = t[Max(named)] /\ named # {}
  BY Zenon DEF PolicyID
<1>6. DOMAIN t = 1 .. (k + d) /\ k + d \in Nat
  BY <1>1, <1>2, ListDomain
<1>7. Max(named) \in named
  <2> DEFINE T == {(k + d) - i : i \in named}
  <2>1. named \subseteq 1 .. (k + d)
    BY <1>6
  <2>2. T \in SUBSET Nat /\ T # {}
    <3> HIDE DEF named
    <3>1. \A i \in named : (k + d) - i \in Nat
      BY <1>6, <2>1
    <3>2. \E i : i \in named
      BY <1>5
    <3> QED
      BY <3>1, <3>2
  <2>3. PICK n \in T : \A m \in T : n <= m
    <3> HIDE DEF T
    <3> QED
      BY <2>2, LeastNumber
  <2> HIDE DEF named
  <2>4. PICK x \in named : n = (k + d) - x
    BY <2>3
  <2>5. \A y \in named : x >= y
    <3> SUFFICES ASSUME NEW y \in named PROVE x >= y
      OBVIOUS
    <3>1. (k + d) - y \in T
      OBVIOUS
    <3>2. n <= (k + d) - y
      BY <2>3, <3>1
    <3>3. x \in 1 .. (k + d) /\ y \in 1 .. (k + d)
      BY <2>1
    <3> QED
      BY <1>6, <2>4, <3>2, <3>3
  <2> QED
    BY <2>5, Zenon DEF Max
<1>8. PICK m \in 1 .. (k + d) : t[m] = PolicyID(t) /\ t[m] \in WAFPolicyIDs
  BY <1>5, <1>6, <1>7
<1> HIDE DEF named
<1>9. m \notin 1 .. d
  <2>1. t[m] # Open
    BY <1>8, MembersAssumption
  <2> QED
    BY <1>2, <2>1
<1>10. m - d \in 1 .. k /\ (m - d) + d = m
  BY <1>1, <1>9
<1>11. t[m] = lines[b + (m - d)]
  <2>1. t[(m - d) + d] = block[m - d] /\ block[m - d] = lines[b + (m - d)]
    BY <1>1, <1>2, <1>10
  <2> QED
    BY <1>10, <2>1
<1>12. b + (m - d) \in (b + 1) .. c
  BY <1>1, <1>10
<1> QED
  BY <1>4, <1>8, <1>11, <1>12

(* The block from line x to line y is as long as can be.                     *)
IsBlock(lines, x, y) ==
  /\ x \in DOMAIN lines /\ y \in DOMAIN lines /\ x <= y
  /\ \A i \in x .. y : lines[i] # Plain
  /\ x - 1 \in DOMAIN lines => lines[x - 1] = Plain
  /\ y + 1 \in DOMAIN lines => lines[y + 1] = Plain

(* A policy that scraping finds is that of a block which is complete, and   *)
(* after which no other has ended.                                          *)
LEMMA ScrapedIsCurrent ==
  ASSUME NEW lines, IsList(lines), ~ScrapePanics(lines), ValidJSON(ConfigBlock(lines)),
         NEW id, id = PolicyID(ConfigBlock(lines)), id # NoID
  PROVE  \E x, y \in DOMAIN lines :
           /\ IsBlock(lines, x, y)
           /\ \E i \in x .. y : lines[i] = id
           /\ lines[y] = Close
           /\ \A u, v : IsBlock(lines, u, v) /\ u > y => v = Len(lines)
<1> DEFINE N == Len(lines)
           s == Scan(lines)
           block == IF s.current # <<>> /\ Last(s.lastBlock) = Close THEN s.current ELSE s.lastBlock
           t == ConfigBlock(lines)
<1>1. N \in Nat /\ DOMAIN lines = 1 .. N
  BY ListDomain
<1>2. PICK a \in 0 .. N :
        /\ s.current = Stretch(lines, a, N) /\ AllConfig(lines, a, N) /\ StartsAt(lines, a)
        /\ \/ s.lastBlock = <<>> /\ AllPlain(lines, 0, a)
           \/ \E b, c \in 0 .. a :
                /\ b < c /\ c < a
                /\ s.lastBlock = Stretch(lines, b, c)
                /\ AllConfig(lines, b, c) /\ StartsAt(lines, b) /\ AllPlain(lines, c, a)
  <2>1. Scanned(lines, N, s)
    BY <1>1, ScanResult
  <2> QED
    BY <2>1, Zenon DEF Scanned
<1>3. t = IF block # <<>> /\ Head(block) \notin {Open, Close} THEN <<Open>> \o block ELSE block
  BY Zenon DEF ConfigBlock
<1>4. Len(t) >= 2 /\ Last(t) = Close
  BY DEF ValidJSON
<1>5. PolicyID(t) = id
  OBVIOUS
<1>6. s.current # <<>> => s.lastBlock # <<>>
  BY Zenon DEF ScrapePanics
<1> HIDE DEF s, t
<1>7. block # <<>>
  <2> HIDE DEF block
  <2>1. ASSUME block = <<>> PROVE FALSE
    <3>1. t = <<>>
      BY <1>3, <2>1
    <3> QED
      BY <1>4, <3>1
  <2> QED
    BY <2>1
<1>8. t = IF Head(block) \notin {Open, Close} THEN <<Open>> \o block ELSE block
  <2> HIDE DEF block
  <2> QED
    BY <1>3, <1>7, Zenon
<1> HIDE DEF N
<1>9. PolicyID(t) # NoID
  BY <1>5
<1>10. \A b, c \in Nat : b < c /\ block = Stretch(lines, b, c) =>
         lines[c] = Close /\ \E i \in (b + 1) .. c : lines[i] = PolicyID(t)
  <2> HIDE DEF block
  <2>1. PICK k, u : k = block /\ u = t
    OBVIOUS
  <2>2. /\ u = IF Head(k) \notin {Open, Close} THEN <<Open>> \o k ELSE k
        /\ Last(u) = Close /\ PolicyID(u) # NoID
    BY <1>4, <1>8, <1>9, <2>1, Zenon
  <2>3. \A b, c \in Nat : b < c /\ k = Stretch(lines, b, c) =>
          lines[c] = Close /\ \E i \in (b + 1) .. c : lines[i] = PolicyID(u)
    <3> SUFFICES ASSUME NEW b \in Nat, NEW c \in Nat, b < c, k = Stretch(lines, b, c)
                 PROVE  lines[c] = Close /\ \E i \in (b + 1) .. c : lines[i] = PolicyID(u)
      OBVIOUS
    <3>1. u = WithBrace(Stretch(lines, b, c))
      BY <2>2, Zenon DEF WithBrace
    <3>2. Says(lines, b, c)
      BY <2>2, <3>1, PolicyOfStretch, Zenon
    <3> QED
      BY <3>1, <3>2, Zenon DEF Says
  <2> QED
    BY <2>1, <2>3, Zenon
<1>11. CASE block = s.current
  <2>1. a \in Nat /\ a < N
    BY <1>1, <1>2, <1>7, <1>11, EmptyStretch
  <2>2. block = Stretch(lines, a, N)
    BY <1>2, <1>11
  <2>3. lines[N] = Close /\ \E i \in (a + 1) .. N : lines[i] = PolicyID(t)
    <3> HIDE DEF block
    <3> QED
      BY <1>1, <2>1, <2>2, <1>10
  <2>4. IsBlock(lines, a + 1, N)
    <3>1. a + 1 \in DOMAIN lines /\ N \in DOMAIN lines /\ a + 1 <= N /\ N + 1 \notin DOMAIN lines
      BY <1>1, <2>1
    <3>2. (a + 1) - 1 = a
      BY <2>1
    <3>3. (a + 1) - 1 \in DOMAIN lines => lines[(a + 1) - 1] = Plain
      BY <1>1, <1>2, <3>2 DEF StartsAt
    <3> QED
      BY <1>2, <3>1, <3>3 DEF IsBlock, AllConfig
  <2>5. \A u, v : IsBlock(lines, u, v) => ~(u > N)
    BY <1>1 DEF IsBlock
  <2>6. a + 1 \in DOMAIN lines /\ N \in DOMAIN lines
    BY <1>1, <2>1
  <2> QED
    BY <1>5, <2>3, <2>4, <2>5, <2>6
<1>12. CASE block = s.lastBlock
  <2>1. PICK b \in 0 .. a, c \in 0 .. a :
          /\ b < c /\ c < a
          /\ s.lastBlock = Stretch(lines, b, c)
          /\ AllConfig(lines, b, c) /\ StartsAt(lines, b) /\ AllPlain(lines, c, a)
    BY <1>2, <1>7, <1>12
  <2>2. lines[c] = Close /\ \E i \in (b + 1) .. c : lines[i] = PolicyID(t)
    <3>1. b \in Nat /\ c \in Nat /\ block = Stretch(lines, b, c)
      BY <1>12, <2>1
    <3> HIDE DEF block
    <3> QED
      BY <2>1, <3>1, <1>10
  <2>3. IsBlock(lines, b + 1, c)
    <3>1. b + 1 \in DOMAIN lines /\ c \in DOMAIN lines /\ b + 1 <= c
      BY <1>1, <2>1
    <3>2. (b + 1) - 1 = b
      BY <2>1
    <3>3. (b + 1) - 1 \in DOMAIN lines => lines[(b + 1) - 1] = Plain
      BY <1>1, <2>1, <3>2 DEF StartsAt
    <3>4. c + 1 \in (c + 1) .. a
      BY <2>1
    <3>5. lines[c + 1] = Plain
      BY <2>1, <3>4 DEF AllPlain
    <3> QED
      BY <2>1, <3>1, <3>3, <3>5 DEF IsBlock, AllConfig
  <2>4. ASSUME NEW u, NEW v, IsBlock(lines, u, v), u > c
        PROVE  v = N
    <3>1. /\ u \in 1 .. N /\ v \in 1 .. N /\ u <= v
          /\ \A i \in u .. v : lines[i] # Plain
          /\ v + 1 \in DOMAIN lines => lines[v + 1] = Plain
      BY <1>1, <2>4 DEF IsBlock
    <3>2. lines[u] # Plain
      BY <3>1
    <3>3. u \notin (c + 1) .. a
      BY <2>1, <3>2 DEF AllPlain
    <3>4. u > a
      BY <2>1, <2>4, <3>1, <3>3
    <3>5. v + 1 \in 1 .. N => v + 1 \in (a + 1) .. N
      BY <1>1, <3>1, <3>4
    <3>6. v + 1 \notin 1 .. N
      BY <1>1, <1>2, <3>1, <3>5 DEF AllConfig
    <3> QED
      BY <1>1, <3>1, <3>6
  <2>5. b + 1 \in DOMAIN lines /\ c \in DOMAIN lines
    BY <1>1, <2>1
  <2> QED
    BY <1>5, <2>2, <2>3, <2>4, <2>5 DEF N
<1> QED
  BY <1>11, <1>12

(* No policy is known before the log is read, and none but the current one  *)
(* after.                                                                   *)
WAFInv ==
  /\ stage \in EarlyStages => wafPolicyID = NoID
  /\ WAFIsCurrent

LEMMA InitWAFInv == Init => WAFInv
  BY DEF Init, AggregationInit, WAFInv, WAFIsCurrent

LEMMA WAFStays ==
  ASSUME WAFInv, UNCHANGED <<logRead, wafPolicyID>>,
         stage' \in EarlyStages => stage \in EarlyStages
  PROVE  WAFInv'
<1>1. WAFIsCurrent'
  <2>1. Blocks' = Blocks
    BY Zenon DEF Blocks
  <2> QED
    BY <2>1, Zenon DEF WAFInv, WAFIsCurrent
<1> QED
  BY <1>1, Zenon DEF WAFInv

LEMMA scrapeKeepsWAFInv ==
  input \in Inputs /\ WAFInv /\ scrapeAGICLogsForWAFPolicyID => WAFInv'
<1> SUFFICES ASSUME input \in Inputs, WAFInv, scrapeAGICLogsForWAFPolicyID PROVE WAFInv'
  OBVIOUS
<1>1. stage = "logs" /\ stage' \in {"provider", "ended"} /\ wafPolicyID = NoID
  BY DEF scrapeAGICLogsForWAFPolicyID, WAFInv, EarlyStages
<1>2. stage' \notin EarlyStages
  BY <1>1 DEF EarlyStages
<1>3. CASE wafPolicyID' = NoID
  BY <1>2, <1>3, Zenon DEF WAFInv, WAFIsCurrent
<1>4. CASE wafPolicyID' # NoID
  <2>1. PICK n \in 0 .. Len(input.log), complete \in BOOLEAN :
          /\ logRead' = SubSeq(input.log, 1, n)
          /\ ~ScrapePanics(SubSeq(input.log, 1, n))
          /\ wafPolicyID' = WAFPolicyOf(SubSeq(input.log, 1, n), complete)
    BY <1>1, <1>4, Zenon DEF scrapeAGICLogsForWAFPolicyID
  <2>2. PICK lines, id : lines = logRead' /\ id = wafPolicyID'
    OBVIOUS
  <2>3. IsList(lines)
    <3>1. IsList(input.log)
      BY InputsAssumption, Zenon
    <3>2. PICK log : log = input.log
      OBVIOUS
    <3>3. n \in 0 .. Len(log) /\ Len(log) \in Nat /\ lines = SubSeq(log, 1, n) /\ IsList(log)
      BY <2>1, <2>2, <3>1, <3>2, ListDomain
    <3>4. lines \in Seq({log[i] : i \in DOMAIN log})
      BY <3>3 DEF IsList
    <3> QED
      BY <3>4 DEF IsList
  <2>4. ValidJSON(ConfigBlock(lines)) /\ id = PolicyID(ConfigBlock(lines))
    BY <1>4, <2>1, <2>2, Zenon DEF WAFPolicyOf
  <2>5. PICK x \in DOMAIN lines, y \in DOMAIN lines :
          /\ IsBlock(lines, x, y)
          /\ \E i \in x .. y : lines[i] = id
          /\ lines[y] = Close
          /\ \A u, v : IsBlock(lines, u, v) /\ u > y => v = Len(lines)
    BY <1>4, <2>1, <2>2, <2>3, <2>4, ScrapedIsCurrent
  <2>6. \A u, v \in DOMAIN lines : <<u, v>> \in Blocks' <=> IsBlock(lines, u, v)
    BY <2>2 DEF Blocks, IsBlock
  <2>7. \A b \in Blocks' : b = <<b[1], b[2]>> /\ b[1] \in DOMAIN lines /\ b[2] \in DOMAIN lines
    BY <2>2 DEF Blocks
  <2>8. PICK b : b = <<x, y>>
    OBVIOUS
  <2>9. b \in Blocks' /\ b[1] = x /\ b[2] = y
    BY <2>5, <2>6, <2>8
  <2>10. \A later \in Blocks' : later[1] > y => later[2] = Len(lines)
    BY <2>5, <2>6, <2>7
  <2>11. /\ \E i \in b[1] .. b[2] : logRead'[i] = wafPolicyID'
         /\ logRead'[b[2]] = Close
         /\ \A later \in Blocks' : later[1] > b[2] => later[2] = Len(logRead')
    BY <2>2, <2>5, <2>9, <2>10
  <2>12. WAFIsCurrent'
    BY <2>9, <2>11, Zenon DEF WAFIsCurrent
  <2> QED
    BY <1>2, <2>12, Zenon DEF WAFInv
<1> QED
  BY <1>3, <1>4

LEMMA NextKeepsWAFInv == IInv /\ WAFInv /\ [Next]_vars => WAFInv'
<1> SUFFICES ASSUME IInv, WAFInv, [Next]_vars PROVE WAFInv'
  OBVIOUS
<1>1. CASE scrapeAGICLogsForWAFPolicyID
  BY <1>1, scrapeKeepsWAFInv DEF IInv, FlagsInv
<1>2. CASE Early /\ UNCHANGED <<logRead, wafPolicyID>>
  <2>1. stage \in EarlyStages
    BY <1>2, EarlyCollects, Zenon DEF Collects
  <2> QED
    BY <1>2, <2>1, WAFStays
<1>3. CASE makeProvider \/ Convert \/ (OutputStep /\ UNCHANGED <<aggregationVars, provider>>)
  <2>1. /\ stage' \in {"ended", "convert", "output", "write"}
        /\ UNCHANGED <<logRead, wafPolicyID>>
    BY <1>3, Zenon
    DEF makeProvider, Convert, OutputStep, BeginOutput, WriteResource, WriteFails, PrintReport,
        FailAt, Reject, Abort, Proceed, aggregationVars, runVars
  <2> QED
    BY <2>1, WAFStays DEF EarlyStages
<1>4. CASE PodsChange \/ UNCHANGED vars
  <2>1. UNCHANGED <<stage, logRead, wafPolicyID>>
    BY <1>4, Zenon DEF PodsChange, vars, runVars, aggregationVars
  <2> QED
    BY <2>1, WAFStays
<1>5. Early => scrapeAGICLogsForWAFPolicyID \/ UNCHANGED <<logRead, wafPolicyID>>
  BY Zenon
  DEF Early, AggregationStep, aggregationVars, Connect, TestHelmLabel, TestAddonLabel,
      loadAGICConfigMap, collectIngressesFromCluster, collectRewriteRuleSetsFromCluster,
      OpenLogFails, expandFileAndDirArgs, collectIngressesFromFiles,
      collectRewriteRuleSetsFromFiles
<1> QED
  BY <1>1, <1>2, <1>3, <1>4, <1>5, Zenon DEF Next, Step, Early, Ended

(* However far the log has been read, the WAF policy found in it is that of *)
(* the configuration logged last (aggregation/aggregation.go,               *)
(* aggregation/logs.go).                                                    *)
THEOREM WAFSafety == Spec => []WAFIsCurrent
<1>1. Init => WAFInv
  BY InitWAFInv
<1>2. IInv /\ WAFInv /\ [Next]_vars => WAFInv'
  BY NextKeepsWAFInv
<1>3. WAFInv => WAFIsCurrent
  BY Zenon DEF WAFInv
<1> QED
  BY <1>1, <1>2, <1>3, Invariance, PTL DEF Spec

-----------------------------------------------------------------------------
(* The refinement.                                                           *)

Settled == stage \in OutputStages \/ (stage = "ended" /\ report # NoReport)

Target == IF input.dryRun THEN {} ELSE graph

ContractStep ==
  [Contract!Settle \/ Contract!Write \/ Contract!Report \/ Contract!EndUnreported]_(Contract!contractVars)

(* A step the contract does not see.                                         *)
LEMMA Stutter ==
  ASSUME Settled' = Settled, Target' = Target, written' = written, reported' = reported,
         (stage = "ended")' = (stage = "ended")
  PROVE  ContractStep
<1>1. UNCHANGED Contract!contractVars
  BY Zenon DEF Contract!contractVars, Settled, Target, OutputStages
<1> QED
  BY <1>1, Zenon DEF ContractStep

(* The run fails, or prints no report.                                      *)
LEMMA EndsUnreported ==
  ASSUME Settled' = Settled, Target' = Target, written' = written, reported' = reported,
         stage # "ended", stage' = "ended"
  PROVE  ContractStep
<1>1. Contract!EndUnreported
  BY Zenon DEF Contract!EndUnreported, Settled, Target, OutputStages
<1> QED
  BY <1>1, Zenon DEF ContractStep

LEMMA InitRefines == Init => Contract!Init
  BY Zenon DEF Init, RunInit, OutputInit, Contract!Init

(* A resource that is due refers only to resources that have been written.   *)
LEMMA DueIsGrounded ==
  ASSUME IInv, NEW r \in graph, Due(r)
  PROVE  \A key \in r.refs : \E q \in written : Key(q) = key
<1> SUFFICES ASSUME NEW key \in r.refs PROVE \E q \in written : Key(q) = key
  OBVIOUS
<1>1. \A p \in graph : Grounded(p, graph)
  BY Zenon DEF IInv, GraphInv
<1>2. PICK q \in graph : Key(q) = key /\ Position(q.kind) < Position(r.kind)
  BY <1>1 DEF Grounded
<1>3. Position(q.kind) \in Nat /\ Position(r.kind) \in Nat
  BY <1>1, PositionIsNatural DEF Grounded
<1>4. q \notin written => Position(r.kind) <= Position(q.kind)
  BY DEF Due
<1> QED
  BY <1>2, <1>3, <1>4

LEMMA ReportedIsSome == IInv /\ stage \in OutputStages => report # NoReport
<1>1. NoReport # NewReport(graph)
  <2>1. DOMAIN NewReport(graph) = KindSet /\ DOMAIN NoReport = {}
    BY DEF NewReport, NoReport, KindSet
  <2>2. KindSet # {}
    BY KindSetIs
  <2> QED
    BY <2>1, <2>2
<1> QED
  BY <1>1 DEF IInv, GraphInv

LEMMA NextRefines == IInv /\ [Next]_vars => ContractStep
<1> SUFFICES ASSUME IInv, [Next]_vars PROVE ContractStep
  OBVIOUS
<1>1. CASE Early
  <2>1. Collects
    BY <1>1, EarlyCollects
  <2>2. /\ stage \notin OutputStages \union {"ended"}
        /\ stage' \notin OutputStages
        /\ UNCHANGED <<input, outputVars>>
    BY <2>1 DEF Collects, EarlyStages, OutputStages
  <2>3. report = NoReport
    BY <2>2, Zenon DEF IInv, GraphInv
  <2>4. Settled' = FALSE /\ Settled = FALSE
    BY <2>2, <2>3, Zenon DEF Settled, outputVars
  <2>5. Target' = Target /\ written' = written /\ reported' = reported
    BY <2>2, Zenon DEF Target, outputVars
  <2>6. CASE stage' = "ended"
    BY <2>2, <2>4, <2>5, <2>6, EndsUnreported
  <2>7. CASE stage' # "ended"
    BY <2>2, <2>4, <2>5, <2>7, Stutter
  <2> QED
    BY <2>6, <2>7
<1>2. CASE makeProvider
  <2>1. /\ stage = "provider" /\ stage' \in {"convert", "ended"}
        /\ UNCHANGED <<input, outputVars>>
    BY <1>2, Zenon DEF makeProvider, Proceed, Reject, Abort
  <2>2. report = NoReport
    BY <2>1 DEF IInv, GraphInv, OutputStages
  <2>3. Settled' = FALSE /\ Settled = FALSE
    BY <2>1, <2>2 DEF Settled, OutputStages, outputVars
  <2>4. Target' = Target /\ written' = written /\ reported' = reported
    BY <2>1, Zenon DEF Target, outputVars
  <2>5. CASE stage' = "ended"
    BY <2>1, <2>3, <2>4, <2>5, EndsUnreported
  <2>6. CASE stage' # "ended"
    BY <2>1, <2>3, <2>4, <2>6, Stutter
  <2> QED
    BY <2>5, <2>6
<1>3. CASE Convert
  <2>1. /\ stage = "convert" /\ stage' = "output"
        /\ written' = written /\ reported' = reported
    BY <1>3 DEF Convert, Proceed
  <2>2. Contract!Settle
    BY <2>1 DEF Contract!Settle
  <2> QED
    BY <2>2, Zenon DEF ContractStep
<1>4. CASE BeginOutput /\ UNCHANGED <<aggregationVars, provider>>
  <2>1. /\ stage = "output" /\ stage' \in {"write", "ended"}
        /\ UNCHANGED <<input, outputVars>>
    BY <1>4, Zenon DEF BeginOutput, Proceed, FailAt, Abort
  <2>2. Settled' = TRUE /\ Settled = TRUE
    <3>1. report # NoReport
      BY <2>1, ReportedIsSome DEF OutputStages
    <3> QED
      BY <2>1, <3>1 DEF Settled, OutputStages, outputVars
  <2>3. Target' = Target /\ written' = written /\ reported' = reported
    BY <2>1, Zenon DEF Target, outputVars
  <2>4. CASE stage' = "ended"
    BY <2>1, <2>2, <2>3, <2>4, EndsUnreported
  <2>5. CASE stage' # "ended"
    BY <2>1, <2>2, <2>3, <2>5, Stutter
  <2> QED
    BY <2>4, <2>5
<1>5. ASSUME NEW r \in graph, WriteResource(r) PROVE ContractStep
  <2>1. /\ stage = "write" /\ stage' = "write" /\ ~input.dryRun /\ Due(r)
        /\ written' = written \union {r}
        /\ UNCHANGED <<input, graph, report, reported>>
    BY <1>5, Zenon DEF WriteResource, runVars
  <2>2. \A key \in r.refs : \E q \in written : Contract!Key(q) = key
    BY <2>1, DueIsGrounded DEF Key, Contract!Key
  <2>3. r \in Target \ written
    BY <2>1, Zenon DEF Due, Target
  <2>4. Settled' /\ Settled /\ Target' = Target
    BY <2>1 DEF Settled, Target, OutputStages
  <2>5. Contract!Write
    BY <2>1, <2>2, <2>3, <2>4 DEF Contract!Write, Settled, Target, OutputStages
  <2> QED
    BY <2>5, Zenon DEF ContractStep
<1>6. ASSUME NEW r \in graph, WriteFails(r) PROVE ContractStep
  <2>1. /\ stage = "write" /\ stage' = "ended"
        /\ UNCHANGED <<input, graph, report, written, reported>>
    BY <1>6, Zenon DEF WriteFails, FailAt, Abort
  <2>2. Settled' = TRUE /\ Settled = TRUE
    <3>1. report # NoReport
      BY <2>1, ReportedIsSome DEF OutputStages
    <3> QED
      BY <2>1, <3>1 DEF Settled, OutputStages
  <2>3. Target' = Target
    BY <2>1, Zenon DEF Target
  <2> QED
    BY <2>1, <2>2, <2>3, EndsUnreported
<1>7. CASE PrintReport
  <2>1. /\ stage = "write" /\ stage' = "ended" /\ reported' \in BOOLEAN
        /\ input.dryRun \/ graph \subseteq written
        /\ UNCHANGED <<input, graph, report, written>>
    BY <1>7, Zenon DEF PrintReport
  <2>2. Settled' = TRUE /\ Settled = TRUE
    <3>1. report # NoReport
      BY <2>1, ReportedIsSome DEF OutputStages
    <3> QED
      BY <2>1, <3>1 DEF Settled, OutputStages
  <2>3. Target' = Target /\ Target \subseteq written
    BY <2>1, Zenon DEF Target
  <2>4. CASE reported'
    <3>1. Contract!Report
      BY <2>1, <2>2, <2>3, <2>4, Zenon DEF Contract!Report, Settled, Target, OutputStages
    <3> QED
      BY <3>1, Zenon DEF ContractStep
  <2>5. CASE ~reported'
    <3>1. reported' = reported
      BY <2>1, <2>5 DEF IInv, GraphInv, OutputStages
    <3> QED
      BY <2>1, <2>2, <2>3, <3>1, EndsUnreported
  <2> QED
    BY <2>4, <2>5
<1>8. CASE (PodsChange /\ UNCHANGED <<outputVars, provider>>) \/ UNCHANGED vars
  <2>1. UNCHANGED <<input, stage, outputVars>>
    BY <1>8, Zenon DEF PodsChange, vars, runVars
  <2>2. Settled' = Settled /\ Target' = Target /\ (stage = "ended")' = (stage = "ended")
    BY <2>1, Zenon DEF Settled, Target, outputVars
  <2>3. written' = written /\ reported' = reported
    BY <2>1 DEF outputVars
  <2> QED
    BY <2>2, <2>3, Stutter
<1> QED
  BY <1>1, <1>2, <1>3, <1>4, <1>5, <1>6, <1>7, <1>8
  DEF Next, Step, Early, Ended, OutputStep

(* A run keeps MigrationContract: nothing is written before all of it is    *)
(* known, nothing before what it refers to, and the report comes last if it *)
(* comes at all.                                                            *)
THEOREM Refinement == Spec => KeepsMigrationContract
<1>1. Init => Contract!Init
  BY InitRefines
<1>2. IInv /\ [Next]_vars => ContractStep
  BY NextRefines
<1> QED
  BY <1>1, <1>2, Invariance, PTL
  DEF Spec, KeepsMigrationContract, Contract!Spec, ContractStep
=============================================================================
