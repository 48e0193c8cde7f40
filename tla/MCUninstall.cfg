\* uninstall against namespace lists of up to three entries over two tenants, with failing calls.
CONSTANTS
    t1 = t1
    t2 = t2
    Names <- MCNames
    MaxTenants = 3
    Faults = TRUE
SPECIFICATION Spec
INVARIANT ConsentAndScope
