SPECIFICATION Spec
CONSTANTS
  Inputs <- MCInputs
  WAFPolicyIDs = {"waf-1", "waf-2"}
  DefaultIngressClassName = "azure/application-gateway"
  MaxPodChanges = 1
  OutputFile = "out"
  Stdout = "stdout"
  AGICClasses = {"agic", "my-agic"}
  FirstNamespace <- MCFirstNamespace
  Lower <- MCLower
INVARIANTS
  OneFilePerResource
