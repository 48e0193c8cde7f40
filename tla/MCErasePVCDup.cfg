\* erase-pvc in a quiet namespace where no cluster call fails.
CONSTANTS
    db1 = db1
    db2 = db2
    web1 = web1
    web2 = web2
    other1 = other1
    other2 = other2
    db = db
    web = web
    other = other
    app = app
    NoService = NoService
    Pods <- MCPods
    Controllers <- MCControllers
    Services <- MCServices
    Owner <- MCOwner
    Mounts <- MCMounts
    Label <- MCLabel
    Replicas <- MCReplicas
    Faults = FALSE
    Busy = FALSE
    SplitNS = FALSE
SPECIFICATION Spec
INVARIANT OnlyFaultsKill
