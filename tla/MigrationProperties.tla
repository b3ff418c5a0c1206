-------------------------- MODULE MigrationProperties --------------------------
(***************************************************************************)
(* What a run of the tool has to get right, from the command line to the   *)
(* files it leaves behind.                                                 *)
(***************************************************************************)
EXTENDS Migration

Collected == stage \in {"provider", "convert", "output", "write"}

-----------------------------------------------------------------------------
(* What is collected.                                                        *)

(* The class the command line asks for when files are read.                  *)
WantedClass ==
  IF input.class # NoClass THEN input.class
  ELSE IF input.provider = NGINX THEN NGINX
  ELSE DefaultIngressClassName

Wanted(doc) == doc.kind = "Ingress" /\ GetIngressClass(doc) = WantedClass

(* Where the files declare an Ingress of the wanted class, as pairs of the  *)
(* index of the path and of the document, and the order of such pairs.      *)
Declarations(nn) ==
  UNION {{i} \X {j \in DOMAIN input.documents[paths[i]] :
                   /\ Wanted(Document(paths[i], j))
                   /\ Document(paths[i], j).nn = nn} : i \in DOMAIN paths}

NotAfter(a, b) == a[1] < b[1] \/ (a[1] = b[1] /\ a[2] <= b[2])

DeclaredNames ==
  UNION {{input.documents[p][i].nn : i \in DOMAIN input.documents[p]} : p \in ExpandedArgs}

(* Every Ingress of the wanted class that some file declares is collected,  *)
(* also when another file or document gives it another class, and its last  *)
(* declaration in the order of the files is the one that counts.  Every     *)
(* file is read.                                                            *)
CollectsWhatIsDeclared ==
  Collected /\ input.command = "files" =>
    /\ {paths[i] : i \in DOMAIN paths} = ExpandedArgs
    /\ DOMAIN ingresses = {nn \in DeclaredNames : Declarations(nn) # {}}
    /\ \A nn \in DOMAIN ingresses : \E at \in Declarations(nn) :
         /\ \A other \in Declarations(nn) : NotAfter(other, at)
         /\ ingresses[nn] = Document(paths[at[1]], at[2])

(* The blocks of consecutive configuration lines of the log read, as pairs  *)
(* of the indices of their first and last line.                             *)
Blocks ==
  {b \in (DOMAIN logRead) \X (DOMAIN logRead) :
     /\ b[1] <= b[2]
     /\ \A i \in b[1] .. b[2] : logRead[i] # Plain
     /\ b[1] - 1 \in DOMAIN logRead => logRead[b[1] - 1] = Plain
     /\ b[2] + 1 \in DOMAIN logRead => logRead[b[2] + 1] = Plain}

(* A WAF policy taken from the log is the one of the configuration AGIC     *)
(* logged last: no later block had ended when the log was read.             *)
WAFIsCurrent ==
  wafPolicyID # NoID =>
    \E b \in Blocks :
      /\ \E i \in b[1] .. b[2] : logRead[i] = wafPolicyID
      /\ logRead[b[2]] = Close
      /\ \A later \in Blocks : later[1] > b[2] => later[2] = Len(logRead)

-----------------------------------------------------------------------------
(* The provider.                                                             *)

Asks(ing, classes) == {Lower(ing.spec), Lower(ing.legacy)} \intersect classes # {}

NGINXAsked == \E nn \in DOMAIN ingresses : Asks(ingresses[nn], {NGINX})
AGICAsked ==
  \E nn \in DOMAIN ingresses :
    Asks(ingresses[nn], AGICClasses \union {"azure-application-gateway", "azure/application-gateway"})

(* Without --provider, Ingresses are converted for NGINX only if one of     *)
(* them asks for NGINX, and for AGIC only if one asks for AGIC or none asks *)
(* for NGINX.  With it, they are converted for that provider.               *)
ProviderHasAWitness ==
  /\ provider = NGINX /\ input.provider = NoProvider => NGINXAsked
  /\ provider = AGIC /\ input.provider = NoProvider => AGICAsked \/ ~NGINXAsked
  /\ provider # NoProvider /\ input.provider # NoProvider => provider = Lower(input.provider)

-----------------------------------------------------------------------------
(* How a run ends.                                                           *)

(* Calls whose failure costs nothing but what they look for, and calls whose*)
(* error is dropped although the output may suffer.                         *)
Dispensable == {"helmLabel", "logs", "closeLog", "closeFile"}
Dropped     == {"close", "separator", "report"}

(* Only the failures named here can end in a success.  Collecting does      *)
(* without one of the two labels, without the log, at the price of the WAF  *)
(* policy, and without closing what it has read.  Output drops the error of *)
(* closing the output file, where one is written, and those of printing the *)
(* separator, where there is one, and the report, which is then missing.    *)
OnlyNamedFailuresPass ==
  exit = Success =>
    /\ faults \subseteq Dispensable \union Dropped
    /\ "logs" \in faults => wafPolicyID = NoID
    /\ "close" \in faults => ToOneFile /\ ~input.dryRun
    /\ "separator" \in faults => ~input.outputDir
    /\ "report" \in faults <=> ~reported

DocumentsAt(path) == {disk[path][i] : i \in DOMAIN disk[path]}

(* The resources that are to be found, whole, where resource r has gone:    *)
(* in a directory, resources with the same file name replace each other.    *)
Sharing(r) ==
  IF input.outputDir THEN {q \in graph : Destination(q) = Destination(r)} ELSE {r}

(* After a success, every name the report gives is that of a resource which *)
(* is on disk whole (unless another has the same file name), in a file in   *)
(* which nothing is torn, and the output file holds nothing of an earlier   *)
(* run; a dry run has left the disk alone.  Where closing the output file   *)
(* has failed unnoticed, documents of it may be torn, and no more than that.*)
OutputIsComplete ==
  exit = Success =>
    IF input.dryRun THEN disk = input.disk
    ELSE IF "close" \in faults THEN DocumentsAt(OutputFile) \subseteq graph \union {Torn}
    ELSE /\ \A kind \in DOMAIN report : \A nn \in report[kind] :
              \E r \in graph :
                /\ r.kind = kind /\ r.ns = nn.ns /\ r.name = nn.name
                /\ Destination(r) \in DOMAIN disk
                /\ Sharing(r) \intersect DocumentsAt(Destination(r)) # {}
                /\ Torn \notin DocumentsAt(Destination(r))
         /\ input.outputFile => DocumentsAt(OutputFile) = graph

(* A run ends.                                                               *)
Ends == <>(exit # Running)

Contract == INSTANCE MigrationContract WITH
  settled <- stage \in {"output", "write"} \/ (stage = "ended" /\ report # NoReport),
  target  <- IF input.dryRun THEN {} ELSE graph,
  over    <- stage = "ended"

(* A run keeps the contract of its output.                                   *)
KeepsMigrationContract == Contract!Spec

-----------------------------------------------------------------------------
(* Statements of the repository that the code does not keep.                *)

(* aggregation/aggregation.go: when the WAF policy cannot be identified     *)
(* from the log, the tool logs the error but continues.                     *)
ScrapeFailureIsTolerated == exit # Panicked

(* cmd/main.go: files can contain multiple Kubernetes resources; a rewrite  *)
(* rule set in a file that was read is collected wherever it stands in it.  *)
RewritesOfAllDocuments ==
  Collected /\ input.command = "files" =>
    \A p \in ExpandedArgs : \A i \in DOMAIN input.documents[p] :
      Document(p, i).kind = "Rewrite" => Document(p, i).nn \in DOMAIN rewrites

(* README.md: --output-dir writes one file per resource.                     *)
OneFilePerResource ==
  exit = Success /\ input.outputDir /\ ~input.dryRun =>
    \A r \in graph : Destination(r) \in DOMAIN disk /\ r \in DocumentsAt(Destination(r))
=============================================================================
