SPECIFICATION Spec
CONSTANTS
  Inputs <- MCInputs
  DefaultNamespace = 9
  RouteName <- MCRouteName
  ListenerName <- MCListenerName
  HTTPListenerName = "http"
  RedirectName = "https-redirect"
INVARIANTS
  TypeOK
  ParentsResolve
  ForeignSecretsGranted
  GatewayAsDeclared
  SeverityReflectsIssues
  RedirectInstalled
  DestinationsExist
  ProfileAppliedOrReported
  ProfileConflictIsForeign
PROPERTIES
  KeepsGatewayContract
