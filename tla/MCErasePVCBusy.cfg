\* erase-pvc in a namespace where pods may still be terminating; no call fails.
CONSTANTS
    db1 = db1
    db2 = db2
    web1 = web1
    web2 = web2
    other1 = other1
    other2 = other2
    db = db
    web = web
    other = other
    app = app
    NoService = NoService
    Pods <- MCBusyPods
    Controllers <- MCBusyControllers
    Services <- MCServices
    Owner <- MCOwner
    Mounts <- MCMounts
    Label <- MCLabel
    Replicas <- MCReplicas
    Faults = FALSE
    Busy = TRUE
    SplitNS = FALSE
SPECIFICATION Spec
 
INVARIANT StaleMountFree
PROPERTY ImplementsWorkflow
