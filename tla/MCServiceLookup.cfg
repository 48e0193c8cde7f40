\* FindServiceInEveryNamespace on either master over three namespaces.
CONSTANTS
    N = 3
    Platforms = {"OpenShift", "Kubernetes"}
SPECIFICATION Spec
INVARIANT PrefersCurrent
INVARIANT FoundIfExposedOnOpenShift
PROPERTY ImplementsSearch
