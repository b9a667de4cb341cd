\* Crawls shorter than the lease, and leases that failures leave behind.
CONSTANTS
    w1 = w1
    w2 = w2
    w3 = w3
    ghost = ghost
    nobody = nobody
    Workers <- ThreeWorkers
    Ttl = 4
    CrawlLimit = 3
    MaxLosses = 3
SPECIFICATION FairLockSpec
INVARIANTS
    LeaseIsBacked
    CrawlsExclude
PROPERTY
    GhostsVanish
