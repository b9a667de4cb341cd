\* One tenant with cron, one with cron and triggers, one with triggers, before a
\* gate for one cycle.
CONSTANTS
    a = a
    b = b
    c = c
    Tenants <- Three
    Scheduled <- Two
    Triggered <- LastTwo
    GateSize = 1
    MaxStops = 0
    Pages <- Two
SPECIFICATION FairSpec
PROPERTIES
    GateIsFair
    TriggersEnd
    TicksAreServed
