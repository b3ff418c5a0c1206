SPECIFICATION Spec
CONSTANTS
  Inputs <- MCInputs
  DefaultNamespace = 9
  RouteName <- MCRouteName
  ListenerName <- MCListenerName
  HTTPListenerName = "http"
  RedirectName = "https-redirect"
INVARIANTS
  ReportedRoutesExist
