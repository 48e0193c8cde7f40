\* FindServiceInEveryNamespace on Kubernetes over three namespaces.
CONSTANTS
    N = 3
    Platforms = {"Kubernetes"}
SPECIFICATION Spec
INVARIANT FoundIfExposed
