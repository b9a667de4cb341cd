\* Two calls for one document, three fetches, one kill or disk error.
CONSTANTS
    t1 = t1
    t2 = t2
    Tasks <- Two
    MaxFetches = 3
    MaxFaults = 1
    None = None
    Empty = Empty
    Cut = Cut
SPECIFICATION Spec
SYMMETRY AnyOrder
PROPERTIES
    FreshMeansFresh
    CleanupForgets
    ReplacedAsOne
    StoredIsOnDisk
