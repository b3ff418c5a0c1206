SPECIFICATION Spec
CONSTANTS
  Inputs <- MCInputs
  DefaultNamespace = 9
  RouteName <- MCRouteName
  ListenerName <- MCListenerName
  HTTPListenerName = "http"
  RedirectName = "https-redirect"
  RegexPaths <- MCRegexPaths
  PrefixOf <- MCPrefixOf
  WWWHosts <- MCWWWHosts
  WWWName <- MCWWWName
  WAFPlaceholder = "placeholder"
INVARIANTS
  ParentsResolve
  SeverityReflectsIssues
  BackendsBehindAppRoot
  RedirectsAsDeclared
  RewritesFollowThePaths
  CanaryCoversEveryBackend
  RoutePoliciesAsDeclared
  WAFAsDeclared
  ClientVerificationAsDeclared
  DestinationsExist
  RejectionFailsTheIngress
  ReportAccountsForGraph
PROPERTIES
  KeepsGatewayContract
