SPECIFICATION Spec
CONSTANTS
  Inputs <- MCRedirectInputs
  DefaultNamespace = 9
  RouteName <- MCRouteName
  ListenerName <- MCListenerName
  HTTPListenerName = "http"
  RedirectName = "https-redirect"
  RegexPaths <- MCRegexPaths
  PrefixOf <- MCPrefixOf
  WWWHosts <- MCWWWHosts
  WWWName <- MCWWWName
  WAFPlaceholder = "placeholder"
INVARIANTS
  PermanentRedirectCodeIsKept
