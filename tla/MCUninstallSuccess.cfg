\* uninstall against namespace lists of up to three entries, no call failing.
CONSTANTS
    t1 = t1
    t2 = t2
    Names <- MCNames
    MaxTenants = 3
    Faults = FALSE
SPECIFICATION Spec
INVARIANT AllDeletedOnSuccess
