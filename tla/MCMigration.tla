------------------------------ MODULE MCMigration ------------------------------
(***************************************************************************)
(* Model checking of a whole run.  Inputs come in three groups: what is    *)
(* collected from files (an Ingress declared twice, with one class or with *)
(* two, rewrite rule sets anywhere in a file, classes that name two        *)
(* providers), what is read from a cluster (pods that come and go, a log   *)
(* with several configuration blocks that ends anywhere), and where the    *)
(* output goes (with what an earlier run has left there).                  *)
(***************************************************************************)
EXTENDS MigrationProperties, TLC

MCLower(name) ==
  CASE name = "NGINX" -> "nginx" [] name = "AGIC" -> "agic" [] OTHER -> name

MCFirstNamespace(S) == IF "a" \in S THEN "a" ELSE IF "a-b" \in S THEN "a-b" ELSE "default"

Azure == "azure/application-gateway"

N1 == [ns |-> "a", name |-> "b-c"]
N2 == [ns |-> "a-b", name |-> "c"]

Policies == [agic  |-> {"routepolicy", "healthcheckpolicy"},
             nginx |-> {"routepolicy", "frontendtlspolicy"}]
Plainly  == [agic |-> {"wafpolicy"}, nginx |-> {}]

Doc(nn, spec, legacy, attaches) ==
  [kind |-> "Ingress", nn |-> nn, spec |-> spec, legacy |-> legacy, attaches |-> attaches]
Rewrite(nn) ==
  [kind |-> "Rewrite", nn |-> nn, spec |-> NoClass, legacy |-> NoClass, attaches |-> Plainly]
Service == [Rewrite(N1) EXCEPT !.kind = "Service"]

-----------------------------------------------------------------------------
(* Command lines and the worlds they meet.                                   *)

NoCluster == [configMaps |-> [l \in {} |-> <<>>], ingresses |-> [nn \in {} |-> nn],
              rewrites |-> [nn \in {} |-> nn], pods |-> {}, log |-> <<>>]
NoFiles   == [args |-> {}, tree |-> [a \in {} |-> a], documents |-> [p \in {} |-> p]]

Flags(command, prov, cls) ==
  [command |-> command, byo |-> FALSE, managed |-> TRUE, outputDir |-> FALSE,
   outputFile |-> FALSE, dryRun |-> FALSE, provider |-> prov, class |-> cls,
   wafID |-> FALSE, label |-> NoLabel, disk |-> [p \in {} |-> p]]

Dir(paths_) == [dir |-> TRUE, yaml |-> paths_]
File        == [dir |-> FALSE, yaml |-> {}]

Files(docs) ==
  [args      |-> IF docs = <<>> THEN {"dir"} ELSE {"dir", "3.txt"},
   tree      |-> "dir" :> Dir({p \in DOMAIN docs : p # "3.txt"}) @@ "3.txt" :> File,
   documents |-> docs]

DocumentSets ==
  { "1.yaml" :> <<Service, Doc(N1, NoClass, Azure, Policies)>> @@
    "2.yaml" :> <<Doc(N1, Azure, NoClass, Plainly), Doc(N2, Azure, NoClass, Policies)>> @@
    "3.txt"  :> <<Doc(N1, "other", Azure, Policies), Rewrite(N1)>>,
    "1.yaml" :> <<Rewrite(N1), Doc(N1, "custom", "nginx", Policies)>> @@
    "2.yaml" :> <<Rewrite(N1), Doc(N2, "custom", "my-agic", Plainly)>> @@
    "3.txt"  :> <<>>,
    "1.yaml" :> <<Doc(N1, "custom", NoClass, Plainly), Doc(N2, "custom", "nginx", Policies)>> @@
    "3.txt"  :> <<>>,
    "1.yaml" :> <<Doc(N1, "NGINX", NoClass, Plainly)>> @@
    "3.txt"  :> <<Doc(N2, "nginx", NoClass, Policies), Doc(N2, "custom", NoClass, Plainly)>>,
    <<>> }

FileInputs ==
  { Flags("files", prov, cls) @@ Files(docs) @@ NoCluster :
      prov \in {NoProvider, "nginx", "NGINX", "bogus"}, cls \in {NoClass, "custom", "NGINX"},
      docs \in DocumentSets }

Logs ==
  { <<Plain, "waf-1", Close, Plain, Open, "waf-2", Close, Plain>>,
    <<Open, "waf-1", Plain, Open, "waf-2", "member", Close>>,
    <<Open, "member", Close, Plain, Open, "waf-2", Close, Open, "waf-1", Close>>,
    <<>> }

ConfigMap(cls, controller, sku) == [class |-> cls, controller |-> controller, sku |-> sku]

Cluster(maps, sku, log) ==
  [ configMaps |-> HelmLabel :> [i \in 1 .. maps |-> ConfigMap(NoClass, "custom", sku)] @@
                   AddonLabel :> <<ConfigMap("nginx", "custom", sku)>> @@
                   "own" :> <<ConfigMap(NoClass, NoClass, sku)>>,
    ingresses  |-> N1 :> Doc(N1, "custom", NoClass, Policies) @@
                   N2 :> Doc(N2, NoClass, "nginx", Plainly),
    rewrites   |-> N1 :> Rewrite(N1), pods |-> {AddonLabel, "own"}, log |-> log ]

ClusterInputs ==
  { [Flags("cluster", prov, NoClass) EXCEPT !.label = label_]
      @@ Cluster(maps, sku, log) @@ NoFiles :
      prov \in {NoProvider, "nginx", "NGINX"}, label_ \in {NoLabel, "own"},
      maps \in {1, 2}, sku \in {"WAF_v2", "", "Basic"}, log \in Logs }

Earlier == [kind |-> "old", ns |-> "a", name |-> "b", refs |-> {}]

OutputInputs ==
  { [Flags("files", NoProvider, NoClass) EXCEPT
       !.byo = byo_, !.managed = managed_, !.wafID = waf_, !.outputDir = dir_,
       !.outputFile = file_, !.dryRun = dry_,
       !.disk = "out" :> <<Earlier>> @@ yamlFilename("gateway", "a", "alb-gateway") :> <<Earlier>>]
      @@ [Files(docs) EXCEPT !.args = {"3.txt"}] @@ NoCluster :
      byo_ \in BOOLEAN, managed_ \in BOOLEAN, waf_ \in BOOLEAN, dir_ \in BOOLEAN,
      file_ \in BOOLEAN, dry_ \in BOOLEAN,
      docs \in {"3.txt" :> <<Doc(N1, Azure, NoClass, Policies), Doc(N2, Azure, NoClass, Plainly)>>} }

MCInputs == FileInputs \union ClusterInputs \union OutputInputs
=============================================================================
