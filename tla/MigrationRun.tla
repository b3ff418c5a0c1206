------------------------------ MODULE MigrationRun -----------------------------
(***************************************************************************)
(* One run of the tool: the command line, the position in the pipeline and *)
(* how a run ends.  Every call to the file system or to the API server may *)
(* fail; what has failed is remembered in faults, which the program does   *)
(* not have.                                                               *)
(*                                                                         *)
(* The modules of the stages extend this one.                              *)
(***************************************************************************)
EXTENDS Sequences, Integers, FiniteSets

(* Of the options, label is aggregation.Options.ClusterLabel: the command   *)
(* line has no flag for it, but a caller of MigrateCluster may set it.      *)
CONSTANT Inputs   \* options, cluster and files a run may find

IsList(s) == s \in Seq({s[i] : i \in DOMAIN s})

(* An argument is a file, taken as it is, or a directory, of which the YAML *)
(* files are taken.                                                         *)
ExpandedArgsOf(in) ==
  UNION {IF in.tree[arg].dir THEN in.tree[arg].yaml ELSE {arg} : arg \in in.args}

(* There are finitely many files, each holds a list of documents, and the   *)
(* log is a list of lines.                                                  *)
ASSUME InputsAssumption ==
  \A in \in Inputs :
    /\ IsFiniteSet(ExpandedArgsOf(in))
    /\ ExpandedArgsOf(in) \subseteq DOMAIN in.documents
    /\ \A path \in DOMAIN in.documents : IsList(in.documents[path])
    /\ IsList(in.log)

VARIABLES
  input,          \* the command line, the cluster and the files
  stage,          \* what the run does next
  class,          \* Options.Aggregation.IngressClassName
  exit,           \* how the process has ended
  faults          \* the calls that have failed

runVars == <<input, stage, class, exit, faults>>

Running  == "running"
Success  == "success"
Failure  == "failure"
Panicked == "panic"

NoClass    == ""
NoProvider == ""
NGINX      == "nginx"
AGIC       == "agic"

InsertInto(f, k, v) == [x \in DOMAIN f \union {k} |-> IF x = k THEN v ELSE f[x]]

-----------------------------------------------------------------------------

Proceed(next) == stage' = next /\ UNCHANGED <<exit, faults>>

(* An error reaches main, which prints it and exits with status 1.          *)
Abort == stage' = "ended" /\ exit' = Failure

FailAt(call) == Abort /\ faults' = faults \union {call}
Reject       == Abort /\ UNCHANGED faults

(* An error that is only logged, or dropped altogether.                      *)
ProceedDespite(call, next) ==
  stage' = next /\ faults' = faults \union {call} /\ UNCHANGED exit

RunInit ==
  /\ input \in Inputs
  /\ stage = "setup"
  /\ class = NoClass
  /\ exit = Running
  /\ faults = {}

(* The flags setup refuses.                                                  *)
Contradictory ==
  \/ input.byo = input.managed
  \/ input.outputDir /\ input.outputFile

Setup ==
  /\ stage = "setup"
  /\ \/ Contradictory /\ Reject /\ UNCHANGED class
     \/ /\ ~Contradictory
        /\ class' = IF input.provider = NGINX /\ input.class = NoClass
                      THEN NGINX ELSE input.class
        /\ Proceed(IF input.command = "files" THEN "expand" ELSE "connect")
  /\ UNCHANGED input
=============================================================================
