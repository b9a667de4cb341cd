\* Three tenants with cron, two with triggers, before a gate for two cycles.
CONSTANTS
    a = a
    b = b
    c = c
    Tenants <- Three
    Scheduled <- Three
    Triggered <- Two
    GateSize = 2
    MaxStops = 1
    Pages <- Two
SPECIFICATION Spec
INVARIANTS
    ProgressIsKept
    OneCyclePerTenant
    PermitsAreConserved
    FlagIsTrue
