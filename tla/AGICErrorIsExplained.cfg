SPECIFICATION Spec
CONSTANTS
  Inputs <- MCStatusCodeInputs
  DefaultNamespace = 9
  RouteName <- MCRouteName
  ListenerName <- MCListenerName
  HTTPListenerName = "http"
  RedirectName = "https-redirect"
INVARIANTS
  ErrorIsExplained
