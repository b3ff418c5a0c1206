SPECIFICATION Spec
CONSTANTS
  Inputs <- MCInputs
  DefaultNamespace = 9
  RouteName <- MCRouteName
  ListenerName <- MCListenerName
  HTTPListenerName = "http"
  RedirectName = "https-redirect"
INVARIANTS
  RoutesAsDeclared
  RejectionFailsTheIngress
  DestinationsExist
  HealthProbeAppliedOrReported
  ConflictComesFromAnotherIngress
  BackendTLSAsDeclared
  RewritesCoverAllRules
  RoutePoliciesAsDeclared
  ReportAccountsForGraph
PROPERTIES
  Returns
