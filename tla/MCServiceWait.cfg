\* Every caller of RetryAfter against a service that changes up to three times.
CONSTANTS
    Callers = {"openService", "FindServiceURL", "WaitForService", "WaitForExternalIPAddress"}
    Attempts = 3
    MaxChanges = 3
SPECIFICATION Spec
INVARIANT RetryContract
