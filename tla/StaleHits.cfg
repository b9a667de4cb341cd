\* One call after another for one document.
CONSTANTS
    t1 = t1
    t2 = t2
    Tasks <- Two
    MaxFetches = 3
    MaxFaults = 0
    None = None
    Empty = Empty
    Cut = Cut
SPECIFICATION Spec
PROPERTIES
    TtlIsEnforced
