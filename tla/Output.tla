-------------------------------- MODULE Output --------------------------------
(***************************************************************************)
(* output.Write: the resources of the graph, kind by kind, and then the    *)
(* report.  The resources go to one file each, to one file or to standard  *)
(* output; any write may fail, and then leaves nothing or a torn document. *)
(* The errors of closing the output file and of printing the report are    *)
(* dropped: such a run goes on to end with status 0.                       *)
(*                                                                         *)
(* A resource is a record with its kind, its namespaced name and the keys  *)
(* of the resources of this graph that it refers to.                       *)
(***************************************************************************)
EXTENDS MigrationRun, SequencesExt

CONSTANTS
  OutputFile,         \* the path --output-file names
  Stdout              \* standard output

(* Standard output begins empty.                                             *)
ASSUME StdoutAssumption == \A in \in Inputs : Stdout \notin DOMAIN in.disk

VARIABLES
  graph,              \* resources.AGCResourceGraph: a set of resources
  report,             \* the summary of the MigrationReport, kind -> names
  written,            \* the resources Write takes for written
  disk,               \* path -> the documents in that file
  initialized,        \* fileWriter.initialized
  reported            \* the report is on standard output

outputVars == <<graph, report, written, disk, initialized, reported>>

Key(r) == [kind |-> r.kind, ns |-> r.ns, name |-> r.name]

(* What a failed write leaves of a document, if anything.                    *)
Torn == [kind |-> "torn", ns |-> "", name |-> "", refs |-> {}]

NoReport == [k \in {} |-> {}]

OutputInit ==
  /\ graph = {}
  /\ report = NoReport
  /\ written = {}
  /\ disk = input.disk
  /\ initialized = FALSE
  /\ reported = FALSE

-----------------------------------------------------------------------------

(* Seeded fault: the policies of a route come before the route.             *)
KindsPoliciesFirst ==
  <<"applicationloadbalancer", "gateway", "routepolicy", "httproute", "referencegrant",
    "healthcheckpolicy", "wafpolicy", "backendtlspolicy", "frontendtlspolicy">>

(* The order in which Write goes through the graph.                          *)
Kinds ==
  <<"applicationloadbalancer", "gateway", "httproute", "referencegrant", "routepolicy",
    "healthcheckpolicy", "wafpolicy", "backendtlspolicy", "frontendtlspolicy">>

Position(kind) == CHOOSE i \in DOMAIN Kinds : Kinds[i] = kind

yamlFilename(kind, ns, name) == kind \o "-" \o ns \o "-" \o name \o ".yaml"

(* Seeded fault: the last resource of a kind is never due.                   *)
DueNever(r) ==
  /\ r \in graph \ written
  /\ \A q \in graph \ written : Position(r.kind) < Position(q.kind)

(* What writeList may write next: the kinds in order, a kind in map order.   *)
Due(r) ==
  /\ r \in graph \ written
  /\ \A q \in graph \ written : Position(r.kind) <= Position(q.kind)

(* Where the writer of the options puts a resource.                          *)
Destination(r) ==
  IF input.outputDir THEN yamlFilename(r.kind, r.ns, r.name)
  ELSE IF input.outputFile THEN OutputFile
  ELSE Stdout

ContentOf(path) == IF path \in DOMAIN disk THEN disk[path] ELSE <<>>

(* Seeded fault: the output file is created for every resource.              *)
StartsAfreshAlways == input.outputDir \/ input.outputFile

(* A file of an output directory is replaced, and so is the output file     *)
(* when its first document is written; anything else is appended to.        *)
StartsAfresh == input.outputDir \/ (input.outputFile /\ ~initialized)

Put(path, document) ==
  disk' = InsertInto(disk, path,
            IF StartsAfresh THEN <<document>> ELSE Append(ContentOf(path), document))

(* MkdirAll for the output directory, whether or not anything will be       *)
(* written to it, and the report as YAML.                                   *)
BeginOutput ==
  /\ stage = "output"
  /\ \/ input.outputDir /\ FailAt("mkdir")
     \/ FailAt("reportToYAML")
     \/ Proceed("write")
  /\ UNCHANGED <<input, class, outputVars>>

ToOneFile == ~input.outputDir /\ input.outputFile

(* Once a document has been written, the output file is closed.  Where that *)
(* fails nobody is told, and the document may be on the disk in part only.  *)
WriteResource(r) ==
  /\ stage = "write"
  /\ ~input.dryRun
  /\ Due(r)
  /\ \/ Put(Destination(r), r) /\ UNCHANGED faults
     \/ /\ ToOneFile
        /\ \E document \in {r, Torn} : Put(Destination(r), document)
        /\ faults' = faults \union {"close"}
  /\ written' = written \union {r}
  /\ initialized' = (initialized \/ ToOneFile)
  /\ UNCHANGED <<input, stage, class, exit, graph, report, reported>>

(* Marshalling or opening fails, or writing does, which leaves what it has  *)
(* written so far; Write returns at once.                                   *)
WriteFails(r) ==
  /\ stage = "write"
  /\ ~input.dryRun
  /\ Due(r)
  /\ FailAt("write")
  /\ \/ UNCHANGED <<disk, initialized>>
     \/ /\ Put(Destination(r), Torn)
        /\ initialized' = (initialized \/ ToOneFile)
  /\ UNCHANGED <<input, class, graph, report, written, reported>>

(* Without an output directory a separator comes first.  Either call may    *)
(* fail, and Write returns without an error all the same.                   *)
Printing == IF input.outputDir THEN {"report"} ELSE {"separator", "report"}

PrintReport ==
  /\ stage = "write"
  /\ input.dryRun \/ graph \subseteq written
  /\ \E lost \in SUBSET Printing :
       /\ faults' = faults \union lost
       /\ reported' = ("report" \notin lost)
  /\ stage' = "ended"
  /\ exit' = Success
  /\ UNCHANGED <<input, class, graph, report, written, disk, initialized>>

OutputStep ==
  \/ BeginOutput
  \/ \E r \in graph : WriteResource(r) \/ WriteFails(r)
  \/ PrintReport
=============================================================================
