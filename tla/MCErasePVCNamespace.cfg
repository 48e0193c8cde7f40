\* erase-pvc -n with the claim's namespace, run from another context namespace; no call fails.
CONSTANTS
    db1 = db1
    db2 = db2
    web1 = web1
    web2 = web2
    other1 = other1
    other2 = other2
    db = db
    web = web
    other = other
    app = app
    NoService = NoService
    Pods <- MCPods
    Controllers <- MCControllers
    Services <- MCServices
    Owner <- MCOwner
    Mounts <- MCMounts
    Label <- MCLabel
    Replicas <- MCReplicas
    Faults = FALSE
    Busy = FALSE
    SplitNS = TRUE
SPECIFICATION Spec
INVARIANT OnlyFaultsKill
