--------------------------- MODULE AnnotationStatus ---------------------------
(***************************************************************************)
(* The bookkeeping of one Ingress annotation: resources.MigrationStatus,   *)
(* resources.IngressAnnotationContext and the issue library.  Handlers of  *)
(* both providers report what became of an annotation only through the     *)
(* three operations below, in whatever order the annotation map yields     *)
(* them, so the status is a small lattice rather than a last write.        *)
(***************************************************************************)

NotStarted   == "NotStarted"
NotSupported == "NotSupported"
Ignored      == "Ignored"
Completed    == "Completed"
Warning      == "Warning"
Error        == "Error"

MigrationStatus ==
  {NotStarted, NotSupported, Ignored, Completed, Warning, Error}

(* The issue codes the handlers of AGIC and of NGINX and the converter       *)
(* register, each with the status its level stands for                      *)
(* (Issue.MigrationStatus).                                                 *)
AGICIssues ==
  [ UnsupportBackendProtocol           |-> NotSupported,
    CreatingBackendTLSPolicy           |-> Error,
    TrustedRootCertificates            |-> NotSupported,
    InvalidAnnotationValue             |-> Error,
    HealthCheckConflict                |-> Error,
    CouldNotFindRewrite                |-> Error,
    RewriteRuleSequence                |-> Error,
    RewriteConditions                  |-> Warning,
    RewriteReroute                     |-> Warning,
    FrontendTLSPolicyProfileConflict   |-> Error,
    FrontendTLSPolicyCipherWarning     |-> Warning,
    NoHTTPSListenersForSSLProfile      |-> Error,
    UnsupportedAnnotationGeneric       |-> NotSupported,
    WAFPotentialIncompatibility        |-> Warning ]

NGINXIssues ==
  [ NGINXAuthTLSNotFullySupported      |-> Warning,
    NGINXAffinityTypeNotSupported      |-> NotSupported,
    NGINXAffinityModeNotSupported      |-> Warning,
    NGINXAffinityCanaryBehaviorNotSupported |-> NotSupported,
    NGINXUseRegexLimitedSupport        |-> Warning,
    NGINXConfigurationSnippetNotSupported |-> NotSupported,
    NGINXServerSnippetNotSupported     |-> NotSupported,
    NGINXModSecurityConversion         |-> Warning,
    NGINXSSLPolicyConversion           |-> Warning,
    NGINXDefaultBackendNotSupported    |-> NotSupported,
    NGINXProxySettingsPartialSupport   |-> Warning,
    NGINXLoadBalanceNotSupported       |-> NotSupported,
    NGINXRedirectURLInvalid            |-> NotSupported,
    NGINXRedirectCodeInvalid           |-> NotSupported,
    NGINXFromToWWWRedirectNoHost       |-> NotSupported,
    NGINXFromToWWWRedirectPartial      |-> Warning,
    NGINXCanaryWeightRequiresManualMerge |-> Warning,
    NGINXCanaryHeaderApproximated      |-> Warning,
    NGINXCanaryByCookieNotSupported    |-> NotSupported,
    NGINXModSecurityTransactionID      |-> Warning,
    NGINXRewriteTargetCaptureGroups    |-> Warning,
    GRPCNotSupportedByTool             |-> Error ]

IssueLibrary ==
  [code \in DOMAIN AGICIssues \union DOMAIN NGINXIssues |->
     IF code \in DOMAIN AGICIssues THEN AGICIssues[code] ELSE NGINXIssues[code]]

IssueCode == DOMAIN IssueLibrary

NewAnnotationContext == [status |-> NotStarted, issues |-> {}, dests |-> {}]

(* Seeded fault: every status is overwritten, as a plain assignment would.  *)
SetStatusLastWins(a, s) == [a EXCEPT !.status = s]

(* SetStatus keeps Error for good and lets only Error replace Warning; any  *)
(* other status, Completed included, is replaced by the new one.            *)
SetStatus(a, s) ==
  IF a.status = Error \/ (a.status = Warning /\ s # Error)
    THEN a
    ELSE [a EXCEPT !.status = s]

RegisterIssue(a, code) ==
  SetStatus([a EXCEPT !.issues = @ \union {code}], IssueLibrary[code])

AddDestination(a, resource) ==
  SetStatus([a EXCEPT !.dests = @ \union {resource}], Completed)
=============================================================================
