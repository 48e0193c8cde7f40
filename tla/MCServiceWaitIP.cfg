\* WaitForExternalIPAddress against a service whose load balancer may change.
CONSTANTS
    Callers = {"WaitForExternalIPAddress"}
    Attempts = 3
    MaxChanges = 2
SPECIFICATION Spec
INVARIANT ActsOnWhatItWaitedFor
