# Verification of the migration utility

TLA+ models, TLC model checking and TLAPS proofs for the utility that converts
Ingress resources of the Application Gateway Ingress Controller (AGIC), or of
ingress-nginx, into Gateway API resources for Application Gateway for
Containers. Paths are relative to the root of the repository's sources.

## 1. The system

One run of the tool is a pipeline in a single goroutine:

    cmd -> aggregation -> provider selection -> conversion -> reporting -> output

There is no shared-memory concurrency. What makes the code hard is order and
sharing: annotation handlers run in the order of a Go map and work on the same
routes, listeners and policies; several hosts, rules and Ingresses meet on one
listener, service or policy; every call to the cluster or the file system may
fail half way through a loop; and the cluster changes while it is read.

| Component | State | Operations | Interacts with | What makes it correct |
|---|---|---|---|---|
| Conversion engine (`conversion/*.go`) | `GatewayContext` (HTTP listener, HTTPS listeners with their secrets, redirect flag), routes by host, resource graph | `Convert`, `handleIngress`, `initRoute`, `EnsureHTTPListener`, `EnsureHTTPSListener`, `build` | calls one handler of the provider per annotation and rule | listeners, certificates and grants are those the Ingresses declare; every parent reference resolves; nothing depends on map order |
| AGIC provider (`conversion/providers/agic`) | none of its own: policies in the resource graph | 18 annotation handlers | reads the input, writes graph and annotation contexts | each setting holds at the end or its loss is reported |
| NGINX provider (`conversion/providers/nginx`) | same | 30 odd annotation handlers that edit each other's filters and matches | same | same |
| Annotation bookkeeping (`resources/ingressannotation.go`, `ingress.go`, `status.go`, `*_issues.go`) | status, issues and destinations of an annotation; status of an Ingress | `SetStatus`, `RegisterIssue`, `AddDestination`, `MigrationComplete` | written by handlers, read by the report | a status is as severe as what was found; a failed Ingress says why |
| Resource graph (`resources/agc.go`) | maps of policies and routes | get-or-create | written by handlers, read by output and report | what the report names is in the graph |
| Aggregation (`aggregation`) | Ingresses, rewrite rule sets, WAF policy scraped from pod logs | list or read files, filter by class, scrape | feeds conversion | the last complete configuration in the log counts; no Ingress is lost |
| Pipeline and CLI (`migration`, `cmd/main.go`) | options, provider | detect the provider, run the stages | everything | one input gives one provider |
| Reporting (`reporting`) | counters and lists | build and print the report | reads contexts and graph | agrees with what was converted |
| Output (`output`) | files or stdout, `fileWriter.initialized` | write resources, then the report | reads the graph | what a failed run leaves can be applied as it is; a success means that all of it is there |
| CRD types, logging, test support | none | declarations | | |

`PROJECT.json` lists under `hazards` what can go wrong, line by line, with the
properties that would notice.

## 2. The modules

    AnnotationStatus                        LogScraping    MigrationRun
          |                                        \         /      \
     Conversion                                  Aggregation       Output
      |        \                                         \          /
 ResourceGraph  ConversionProperties -- GatewayContract    Migration
   |      \              |                                     |
 AGIC-   NGINXRoutes   Reporting                       MigrationProperties -- MigrationContract
 Provider   |            |
   |     NGINXPolicies   |
   |        |            |
   |     NGINXProvider   |
   |            \       /  (both Properties modules extend Reporting)
 AGICProperties  NGINXProperties

| Module | Models | State and actions |
|---|---|---|
| `AnnotationStatus` | the bookkeeping of one annotation | operators only: `SetStatus`, `RegisterIssue`, `AddDestination`, and the issues of both providers with their levels |
| `Conversion` | `Convert`, `handleIngress`, `initRoute`, the gateway and route contexts | the program position (`phase`, `todo`, `cur`, `rule`, `pending`), the Gateway (`http`, `https`, `grants`, `redirect`), routes by identity and the graph that refers to them, annotation contexts and statuses; actions `Setup`, `BeginIngress`, `BeginRule`, `EndRule`, `EndIngress`, `Build`, and the two handlers of the engine itself |
| `ResourceGraph` | the policies of the graph and the operations both providers use | `routePolicies`, `routeWAF`, `healthPolicies`, `backendTLS`, `frontendTLS`; `BackendGroup`, the HTTPS redirect route, `ModifyRules`; `Init` |
| `AGICProvider` | every handler the AGIC provider registers | one action for every handler and for every early return that ends differently; `Next`, `Spec` |
| `NGINXRoutes` | NGINX handlers that edit rules or hostnames: redirects and their codes, rewrites, app-root, headers, canaries, aliases | the same, on the rules of the current route |
| `NGINXPolicies` | NGINX handlers that attach policies: affinity and timeouts, client verification, ciphers, WAF, backend TLS; and those that only register an issue | the same; handlers that differ in key, issue and status alone share `handleNotice` |
| `NGINXProvider` | the handler table | `Next`, `Spec` |
| `Reporting` | `newIngress`: what the report lists for an Ingress | operators on the state of a finished conversion |
| `ConversionProperties`, `AGICProperties`, `NGINXProperties` | | type invariant, invariants, liveness, the refinement mapping, and the statements of the repository the code does not keep |
| `GatewayContract` | what a conversion promises of its Gateway | abstract: `Extend` until `Seal` |
| `LogScraping` | the loop that finds the last configuration block in a log, and the WAF policy in it | recursive functions |
| `MigrationRun` | flags, the position in the pipeline, how a run ends | `stage`, `class`, `exit`, and `faults`, a history of failed calls; `Setup`; how an action goes on after a call (`Proceed`), ends the run (`FailAt`, `Reject`), or goes on although a call has failed (`ProceedDespite`) |
| `Aggregation` | reading Ingresses and rewrite rule sets from files or from a cluster, the class filter, the log | `pods`, `label`, `configMap`, `paths`, `ingresses`, `rewrites`, `logRead`, `wafPolicyID`; one action per call, each with the outcomes "fails" and "succeeds"; `PodsChange` is the cluster |
| `Output` | `output.Write`: directory, one file, or standard output | `graph`, `report`, `written`, `disk`, `initialized`, `reported`; one action per resource, which may fail with nothing or a torn document written; closing the output file and printing the separator and the report may fail too, and the run goes on as the code does, without telling anyone |
| `Migration` | the whole run: aggregation, provider, conversion, report, output | `provider`; `makeProvider`, `Convert`; `Next`, `Spec` |
| `MigrationProperties` | | properties of a run |
| `MigrationContract` | what a run promises of its output | abstract: `Settle`, `Write`, `Report`, `EndUnreported` |
| `MC*` | | inputs for TLC |
| `ConversionProofs`; `AGICProofs`, `NGINXProofs` | | proofs: shape, severity, references, grants and the contract, for the engine and then for each provider |
| `OutcomeProofs`, `ProgressProofs`; `AGICOutcomeProofs`, `NGINXOutcomeProofs` | | proofs: what the report says, and what the graph holds at the end, again for the engine and then for each provider |
| `MigrationProofs` | | proofs of a run |

How code becomes state:

* The Go maps of the graph are functions. A route has an *identity* (Ingress
  and host: the pointer in `handleIngress`) and a *name* (what the graph is
  keyed by), for two routes may be given one name.
* The iteration over `ingressCtx.Annotations` is the set `pending`, from which
  the next handler is taken in any order. The iteration over the Ingresses is
  sorted in the code and ordered in the model (`IsNext`).
* A handler is one action: `Take(k)` is its guard, `Finish(k, a, err)` records
  the annotation's context and joins its error. A loop inside a handler is part
  of the action. Only where the order of such a loop shows (a conflict returns
  in the middle, `handleAppGWSSLProfile`) does the action choose.
* `namedParentSections` is a snapshot in the code, and `named` is one here.
* Parent references are a bag, since the code can append one twice.
* Annotation values are represented by what their handler makes of them:
  `Invalid` if they do not parse, `Unset` for the zero value, else themselves. A
  rewrite rule set is represented by what the loop over its rules folds out of
  it, a redirect URL by its parts, a rewrite target by its text, whether that
  has capture groups, and what stays of it without them. Namespaces, names and
  hosts are numbers, for only their order is used.
* Names of routes and listeners come from functions of another repository; they
  are the constants `RouteName` and `ListenerName`. So are the regular
  expressions of `rewrite-target` (`RegexPaths`, `PrefixOf`).
* A line of the AGIC log is `Plain` if it carries no configuration prefix, else
  a brace or a member. The log is read up to any line, for AGIC is still writing
  it, and reading may end in an error.
* In `Migration` a conversion is one step: what matters to the stages around it
  is which resources the graph holds and what they refer to. An Ingress says
  which kinds of policies either provider attaches for it; what makes a provider
  attach them is the subject of the modules on the left.
* A file is a sequence of documents, a failed write leaves one that is `Torn`.
* Definitions whose comment begins with *Seeded fault* are variants of the
  definition that follows, each wrong the way a plausible bug would be. They are
  used to confirm that every checked property can fail, and nowhere else.

## 3. The properties

Of a conversion, in order (`TypeOK`) and, at every moment:

* `ParentsResolve`, `ForeignSecretsGranted`: every parent reference names a
  listener; no listener names a secret of a namespace without a ReferenceGrant.
* `SeverityReflectsIssues`, `RejectionFailsTheIngress`: no later success hides
  an error, on whichever rule or host it came up.
* `DestinationsExist`: what the report names is in the graph.
* `ProfileConflictIsForeign`, `ConflictComesFromAnotherIngress`: a conflict is
  blamed on an Ingress that exists, has another value and came earlier.

At the end of `Convert`, against a description of the graph that is read off the
input alone, hence for every order of handlers:

* AGIC: `GatewayAsDeclared`, `RoutesAsDeclared`, `RewritesCoverAllRules`,
  `BackendTLSAsDeclared`, `RoutePoliciesAsDeclared`, `RedirectInstalled`;
  `ProfileAppliedOrReported`, `HealthProbeAppliedOrReported`: first writer wins
  is allowed, silence is not.
* NGINX: `BackendsBehindAppRoot` (no backend is lost, repeated or reordered, and
  the redirects of app-root come first), `RedirectsAsDeclared`,
  `RewritesFollowThePaths`, `CanaryCoversEveryBackend`,
  `RoutePoliciesAsDeclared`, `WAFAsDeclared`, `ClientVerificationAsDeclared`.
* Both: `ReportAccountsForGraph`, the converse of `DestinationsExist`: nothing
  is written that no Ingress of the report lists.

`Returns`: `Convert` returns. `KeepsGatewayContract`: the conversion implements
`GatewayContract`.

Of a run:

* `CollectsWhatIsDeclared`: for every order of the files, exactly the Ingresses
  of the wanted class are collected, each as declared last.
* `WAFIsCurrent`: a WAF policy from the log is that of the last block that had
  ended. The property finds the blocks by their boundaries, not by a scan.
* `ProviderHasAWitness`: the provider is one that somebody asked for.
* `OnlyNamedFailuresPass`: a success may have met seven kinds of failure and no
  other, and each has cost what it should. The tool can do without one of the two
  labels, without the log (then there is no WAF policy), and without closing the
  log and the files it has read. It drops the errors of closing the output file
  (`output/writers.go:51`; nothing else is closed by hand: `os.WriteFile` returns
  that error, standard output stays open), and of printing the separator and the
  report (`output/output.go:117`, `:120`); the report is missing exactly if
  printing it has failed.
* `OutputIsComplete`: after a success all that the report names is on disk, and
  nothing is torn; where closing the output file has failed, that file may hold
  torn documents, but still nothing of another run.
* `KeepsMigrationContract`: the run implements `MigrationContract`. So what a
  failed run leaves behind never refers to something it has not written, and the
  report is never printed before the end, twice, or while something is missing.
* `Ends`: a run ends.

## 4. The runs

| Run | What it shows | Bounds |
|---|---|---|
| `agic_gateway` | the Gateway, its routes and TLS profiles, and the contract | two Ingresses in one or two namespaces, with and without `--gateway-namespace`; five TLS sections; four lists of rules (one host, a repeated host, a rule without HTTP, a rule without host); two groups of annotations that meet on the same listeners; also one Ingress from a manifest without namespace, and no Ingress at all |
| `agic_backends` | policies of services and routes, rewrites, the report, and that `Convert` returns | two Ingresses that share services or, in different namespaces, only their names; a repeated host, a service on two ports, paths that are not migrated; all groups of annotations that meet on the same state, with values that parse, do not parse or are zero |
| `nginx` | rules, policies and report of a conversion for NGINX, and the contract | two Ingresses in one or two namespaces that share a host and its listener; three lists of rules (a regex path and a repeated host; a path that is not migrated and two hosts; any host); groups of annotations that meet on the same filter, match, policy or listener, each handler with values that parse, do not parse and switch it off |
| `migration` | a whole run | three groups of inputs. Files: five sets of up to three files (an Ingress declared three times, rewrites first or later in a file, classes of both providers, no files), every order of the paths, four values of `--provider`, three of `--ingress-class`. Cluster: four logs read up to any line with or without error, a label given or not, one or two ConfigMaps, three SKUs, one change of the pods (`MaxPodChanges`) at any moment. Output: all combinations of the output flags and the `--byo`/`--managed` ones, on a disk with files of an earlier run. Any call may fail, those included whose error is dropped |
| `agic_error_unexplained` | violation: an Ingress in Error without an issue that says why | inputs with unparsable status codes |
| `agic_ssl_profile_issue` | violation: an SSL profile refused for lack of listeners that the same Ingress opens | those of `agic_gateway` |
| `agic_duplicate_parents` | violation: the same parent reference twice | those of `agic_gateway` |
| `agic_reported_routes` | violation: a route in the report that is not in the graph | those of `agic_gateway` |
| `nginx_redirect_code` | violation: 301 instead of the code asked for | the inputs of `nginx` with those two annotations |
| `migration_log_panic` | violation: a panic on a log that ends early | those of `migration` |
| `migration_rewrite_documents` | violation: a rewrite rule set that is not collected | those of `migration` |
| `migration_file_names` | violation: two resources, one file | those of `migration` |

Two Ingresses are enough for sharing: everything two Ingresses can meet on
(listener, secret set, grant, policy, redirect route) is decided by who came
first, and a third one sees what the second sees. Handlers interact through one
route, one listener or one policy, so annotations are grouped by the state they
meet on; within a group every order is explored. In a run, pods are listed at
most three times; one change between two of the listings already gives every
answer the later one can have. The four logs hold no
block, complete blocks behind each other, a block whose opening brace AGIC has
not logged, and blocks that are no JSON; cutting them at any line gives the
complete, the torn and the missing last block. Deadlock
checking is on: after the end the models repeat `Returned` and `Ended`.

Fairness: `WF_vars(Next)` for a conversion, one goroutine that performs no
blocking call, so it keeps taking steps; no handler is preferred to another.
`WF_vars(Step)` for a run: every call to the cluster or the file system returns,
with an answer or an error. Nothing is assumed of `PodsChange`.

## 5. What the runs found

* **An Ingress in Error without a reason** (`ErrorIsExplained`).
  `handleHealthProbeStatusCode` fails without registering an issue
  (`conversion/providers/agic/healthcheckpolicy.go:224`), although the comments
  of `MigrationComplete` promise the details in the report.
* **SSL profile against hostname extension** (`SSLProfileIssueIsAccurate`).
  Whether the profile is applied depends on the map order of two handlers; in
  the unlucky one the issue says there were no HTTPS listeners.
* **Duplicate parent references** (`NoDuplicateParentRefs`).
  `namedParentSections` is never extended (`conversion/contexts.go:62`).
* **Routes reported and not written** (`ReportedRoutesExist`). A rule without an
  HTTP section is counted before it is skipped (`conversion/ingress.go:46`).
* **A redirect code that is lost** (`PermanentRedirectCodeIsKept`).
  `permanent-redirect` writes 301 over the code of `permanent-redirect-code`
  when map order puts it second (`conversion/providers/nginx/redirects.go:49`).
* **A panic on a short log** (`ScrapeFailureIsTolerated`). A log that ends inside
  its first configuration block is indexed at -1 (`aggregation/appgwconfig.go:93`).
* **Rewrites that are not read** (`RewritesOfAllDocuments`). Only the first
  document of a file is decoded (`aggregation/rewriteruleset.go:24`), while
  Ingresses are read from all of them.
* **Files that replace each other** (`OneFilePerResource`). Namespace and name
  are joined with a dash (`output/output.go:147`), so `a/b-c` and `a-b/c` meet.

Two more disagreements have no run of their own. They are in the models, and what
remains true in spite of them is checked:

* **Errors that are dropped** (`OnlyNamedFailuresPass`, `OutputIsComplete`).
  `Write` drops the errors of `fmt.Println` and `fmt.Print`
  (`output/output.go:117`, `:120`), and `fileWriter` that of `Close`
  (`output/writers.go:51`). With standard output full or closed the tool exits
  with status 0 and without the report, of which the usage text says that it
  "always prints to stdout" (`cmd/main.go:323`); and an output file may be torn
  without anybody being told. In the model `PrintReport` and `WriteResource` fail
  in these ways, and the faults have names of their own.
* **A provider that depends on map order** (`ProviderHasAWitness`). The comment of
  `detectProvider` promises nginx if any Ingress has that class
  (`migration/provider.go:39`); the code returns at the first Ingress with a class
  it knows (`migration/provider.go:43`), so with classes of both providers present
  the provider differs from run to run.

Worth knowing: `affinity: cookie` may discard the duration of
`session-cookie-expires` (`session_affinity.go:179`), which is why
`RoutePoliciesAsDeclared` allows it; and `--provider NGINX` collects Ingresses of
the AGIC default class but converts them for NGINX, as `setup` and `makeProvider`
compare differently (`cmd/main.go:265`). No property is about the latter:
`WantedClass` compares as `setup` does.

## 6. The proofs

`AGICProofs` and `NGINXProofs` prove, for every set of inputs, every naming of
routes and listeners and every order of the handlers of their provider:

* `TypeCorrectness`, `SeveritySafety`, `ParentsSafety`, `CertificateSafety`: the
  four invariants `TypeOK`, `SeverityReflectsIssues`, `ParentsResolve` and
  `ForeignSecretsGranted`;
* `Refinement`: `Spec => KeepsGatewayContract`.

The inductive invariant `IInv` is the conjunction of the four. None is inductive
alone: `ParentsResolve` needs that the current route exists and that the
redirect route is new when it is inserted (so that it replaces no route of an
Ingress), which are parts of `TypeOK`; `ForeignSecretsGranted` needs that the
Gateway's namespace stays; and `TypeOK` of annotations is kept together with
`SeverityReflectsIssues`, as `SetStatus` keeps both.

`ConversionProofs` has the lemmas both providers share: one per action of the
engine, and what a handler has to show. Each shows `StepOK`: `IInv` holds
afterwards, and listeners, secrets, grants and references only grew. Handlers
that attach policies only are reduced to their own annotation
(`QuietHandlerStep`), those that rewrite rules to `RulesRewritten`, those that
open listeners to `ListenersEnsured`. Then there is one lemma per handler, or per
group of handlers of one shape. `Invariance` follows from the first half of
`StepOK`, `Refinement` from the second.

### What the report says

`AGICOutcomeProofs` and `NGINXOutcomeProofs` prove `DestinationSafety`,
`RejectionSafety` and `ReportSafety`, that is `DestinationsExist`,
`RejectionFailsTheIngress` and `ReportAccountsForGraph`. All three follow from
one invariant of bookkeeping, `BookInv` of `OutcomeProofs`:

* the destinations of all annotations are in the graph (`DestinationsStored`),
  and every policy in the graph is a destination, every route one that its
  Ingress has reported (`StoredIsReported`, `RouteIsReported`);
* an annotation with a destination or an issue has a status that puts it in a
  section of the report (`OutcomesShow`);
* an annotation rejected on some rule has left `failed` set or its Ingress in
  Error (`TurnsOK`): `failed` is joined and is reset only by `BeginIngress`.

A handler is described by its `Outcome`: the issues and destinations it adds to
its annotation, and the resources it stores. `HandlerBooks` shows that the books
are kept if the two agree, and every handler is then one small calculation. The
NGINX provider needs one part more, `QuietInv`: its handlers set an annotation
that asks for nothing to `Ignored`, which the report leaves out, and that would
hide what the same annotation did for an earlier rule, were it not that the
value, and so the answer, is the same for every rule.

### What the graph holds

The properties of the final graph say nothing before the end. The invariant
behind each says the same of the part of the input whose turn is over.
`ProgressProofs` defines that part: `Begun(nn, i)`, a rule that has begun;
`Over(nn, i, k)`, an annotation handled for a rule; `Askers(n, k)` and
`Asked(n, k)`, the Ingresses that have asked for k on the route named n and the
values they gave. `ProgressInv` says that the Ingresses come in the order of
their names and that the routes are those of the rules that have begun. Its
lemmas say that a handler adds its own annotation, for the current rule, to what
is over (`HandledProgress`), that a step of the engine adds nothing
(`QuietProgress`), and that at the end nothing is missing (`AllAsked`,
`AskedByOwner`). Each provider shows once what its handlers can touch
(`Effect`, `NextEffect`); what remains for a property is its own invariant:

| Theorem | Property | Invariant, of what is over |
|---|---|---|
| AGIC `RedirectSafety` | `RedirectInstalled` | `RedirectBook`: the redirect is there as soon as an `ssl-redirect` has been handled |
| AGIC `RouteSafety` | `RoutesAsDeclared` | `RulesServed`: the rules of a route are the usable backends of the rules of its host that have begun (`ServedBackends`); `GraphBook`: the graph names the routes of the rules that have been through (`GraphBookkeeping`) |
| AGIC `RewriteSafety` | `RewritesCoverAllRules` | `RewriteBook`: a handled rewrite is on every rule that the route has had since the current rule began |
| AGIC `HealthConflictSafety`, `HealthProbeSafety` | `ConflictComesFromAnotherIngress`, `HealthProbeAppliedOrReported` | `HealthBook`: a probe setting is never overwritten and belongs to an Ingress that has begun and has the service; a handled setting is in force on the services so far, or the annotation has the conflict. `Concluded`: an Ingress whose turn is over has a status |
| AGIC `BackendTLSSafety` | `BackendTLSAsDeclared` | `TLSBook`: the services of the rules that had their turn, each on the port the whole Ingress gives it. That this port is settled by the first rule with the service, although the handler sees a prefix of the rules only, is `CurrentPorts`: later rules come behind in the list |
| AGIC `RoutePolicySafety` | `RoutePoliciesAsDeclared` | `PolicyBook`: a policy exists once a setting has been asked for, and holds what has |
| AGIC `ProfileConflictSafety`, `ProfileSafety` | `ProfileConflictIsForeign`, `ProfileAppliedOrReported` | `ProfileBook`: a profile belongs to an Ingress that has begun, a bound host has its profile or its annotation the conflict. It needs `RoutesBound`: the route of a host that TLS covers hangs on its listener, without which the handler would find no listener and say so, wrongly |
| AGIC `GatewaySafety` | `GatewayAsDeclared` | `GatewayBook`, `CertificatesBook`: certificates, grants and the HTTP listener are those of the routes that exist and of the hostname extensions handled. That `build` sorts without losing a host (`BuiltAreEnsured`) is a counting argument: in a finite set of numbers every position is taken (`CountedOff`) |
| NGINX `RoutePolicySafety` | `RoutePoliciesAsDeclared` | `PolicyBook`, over four handlers, with a duration that a later `affinity: cookie` may have discarded |
| NGINX `WAFSafety` | `WAFAsDeclared` | `WAFBook` |
| NGINX `AppRootSafety` | `BackendsBehindAppRoot` | `RulesBook`, `GraphBook`: see below |
| NGINX `RedirectSafety`, `RewriteSafety` | `RedirectsAsDeclared`, `RewritesFollowThePaths` | `RulesBook`, through `RedirectOK` and `RewriteOK` of each rule |
| NGINX `CanarySafety` | `CanaryCoversEveryBackend` | `RulesBook`, through `CanaryOK`; `RefusalBook`: a refused setting has left `failed` set or the Ingress in Error |
| NGINX `ClientVerificationSafety` | `ClientVerificationAsDeclared` | `FrontendBook`: a listener has the settings of all that have asked on it so far. A handler sees the right listeners by `SectionsBook` and `RoutesBound`; its certificate is rightly the last one because, by `ProgressInv`, the current Ingress comes after all others that have begun |

TLC checked each of these invariants on the runs of its provider before it was
proved.

The rules of an NGINX route are in no simple relation to the backends while the
handlers run: app-root puts a rule in front at every pass, the handlers rewrite
all rules the route has, those of earlier passes and those of app-root included,
and the next rule of the same host appends rules that no handler has seen.
`RulesBook` therefore counts the passes of app-root (`RootsSofar`), and says of
each rule behind them what the annotations in `Settled` have done to it: those
handled since the route got its last rule. `RuleStep(k)` describes a handler by
what it may do to a rule (`Touched`); `BackendTouched` shows that this makes an
annotation settled, whatever the others have done before, also the second time:
`RewriteOK` is stable because the prefix of a regex path is none
(`RegexAssumption`), and `RedirectOK` because a part is only ever replaced by
another that was asked for. `BeginRule` settles nothing: it adds rules as they
were declared, and empties `Settled`, which is why all annotations run again.

`DeclaredBackends` filters and concatenates lists, and `BackendsUpTo(nn, h, n)`
does so for the first n rules of an Ingress, as a function on the numbers up to
the number of rules. What the proofs need of it is one equation for each rule,
and that the last value is `DeclaredBackends`; the few facts for which an
induction over data would be natural (`ServicesUpTo`, that a service of the first
n rules is one of theirs) are proved with a least counterexample, which the
well-founded order of the numbers gives. The position of a route in the graph
moves when a redirect route is inserted before it: `GraphBook` speaks of names
and their ranks, not of positions.

### Assumptions

Each is stated where its constants are declared, and TLC evaluates them in every
run:

* `InputsAssumption`: no Ingress has neither namespace nor name. A manifest may
  lack a namespace, but every object has a name.
* `RulesAssumption`, `NamesAssumption`: the rules of an Ingress and the paths of
  a rule are lists; hosts, namespaces and names are numbers, standing for strings
  in their order.
* `PathsAssumption`: the service of a path has a name, as the API of Kubernetes
  requires; the model marks a rule without backend with the name of none.
* `ListenerAssumption`: the listener of a host does not have the name of the HTTP
  listener; one begins with "https-", the other is "http"
  (`conversion/contexts.go:19`).
* `ExtensionAssumption` (AGIC): the hosts of a hostname extension are numbers too.
* `WWWHostsAssumption`, `WWWNameAssumption` (NGINX): the empty host does not
  begin with "www."; "www." before a host is a host.
* `RegexAssumption` (NGINX): "/" is no regex path, and what precedes the first
  metacharacter of a path is none either.

### A run

`MigrationProofs` proves of a run, for every command line, all files, clusters,
logs and any number of pod changes:

* `FailureSafety`, `ProviderSafety`, `OutputSafety`: the invariants
  `OnlyNamedFailuresPass`, `ProviderHasAWitness` and `OutputIsComplete`;
* `CollectionSafety`, `WAFSafety`: the invariants `CollectsWhatIsDeclared` and
  `WAFIsCurrent`, so that all invariants its run checks are proved;
* `Refinement`: `Spec => KeepsMigrationContract`.

Its assumptions are `InputsAssumption` of `MigrationRun` (there are finitely many
files, each holds a list of documents, and the log is a list of lines),
`MembersAssumption` (a line that names the WAF policy is neither plain nor a
brace), `LowerAssumption` (lower case leaves the names of the providers as they
are, and only no name has none in lower case) and `StdoutAssumption` (standard
output begins empty). TLC evaluates all assumptions in the runs.

Here `IInv` has a part for each hazard. `FaultsInv`: before the end only calls
have failed that the run can do without, or closing the output file, which only a
run that writes one does; and until the log has been read neither it has failed
nor a WAF policy is known, so that the step that reads it settles both.
`ProviderInv`: the provider chosen has a witness, and the Ingresses it was chosen
by do not change any more. `GraphInv`: what a resource refers to is of a kind
that is written earlier (`Grounded`); this, and not the order of writes alone,
makes every prefix of the output self-contained.
`DiskInv`: at every moment of writing, what is on disk is what has been written,
for the three writers separately; for the output file that takes
`initialized <=> written # {}`, without which the second resource might truncate
the first, and once closing it has failed all that is left is that it holds
resources of the graph or what is torn (`FileHolds`). All actions before the
choice of the provider are one action of the proof, `Early`, which only collects.

What is collected has two invariants of its own. `FilesInv`: while files are
read, the Ingresses are the last declarations among the documents of the paths
before `next` (`Gathered`), and the class setup has settled is the one the
command line asks for. That one file extends this (`GatherFile`) follows the
recursion over its documents, and that every file has its turn is a counting
argument: the list of paths is injective, and as long as the set is large
(`ListedPaths`). `WAFInv`: no policy is known before the log is read, and what
scraping finds is current. `Scanned` says of every prefix of the log what the
scan holds: `current` is the stretch of configuration lines since the last plain
line, and `lastBlock` the last block that ended before. `ScrapedIsCurrent` then
goes through the two ways a block is chosen, and shows that the brace that is put
back neither names a policy nor is the last line. Both recursions are functions
on the numbers up to the length of a list, defined by an equation: that the
equation has a solution (`CollectionsExist`, `ScansExist`) and what holds of
every prefix are each proved with a least counterexample.

### Only model-checked

* `Returns` and `Ends`: liveness under fairness, which the prover does not do.

## 7. Not modelled, and why

* The Gateway's own annotations and the data of the ApplicationLoadBalancer:
  constant data of the options.
* The text of issues, log messages and YAML; regular expressions, durations and
  other value formats, beyond whether a value parses and whether it is zero.
* The counters of the report and its printed form: computed from the lists of
  `newIngress` and of the summary, which are modelled.
* The content of resources in `Migration`, beyond kind, name and references; a
  conversion that fails on one Ingress still yields a graph, so the run goes on.
* `RouteName` and the host part of `ListenerName`: code of another repository.
  Properties that compare routes by name assume that names are distinct
  (`NamesAreUnique`).
* Errors inside the standard library that it does not return, what a shell does
  with a closed pipe (the signal ends the process), and whether the error message
  of a failed run reaches standard error.
* Cancellation of the context: each call that it interrupts fails, which is
  among the failures modelled.
* CRD types, generated deep copies, logging, test support: no behaviour of
  their own. The generated code makes up most of what the map does not cover.

## 8. The plan

Done: the engine, both providers, their contract; reporting; aggregation, the
pipeline and output with their contract. Proved: of each provider the shape of
its state, severity, references, grants, the contract, the report, and every
invariant its run checks; of a run, every invariant its run checks and the
contract.

Next:

1. A refinement of `Migration`'s `Convert` by the conversion modules, through a
   mapping from the graph of `ResourceGraph` to resources and references.
