\* Hybrid mode: the sitemap, the crawl and the entry URLs together, with an
\* operator, and a page that a restart may blacklist or sweep.
CONSTANTS
    home = home
    page = page
    Urls <- TwoUrls
    Roots <- HomeRoot
    Configs <- Banning
    Mode = "hybrid"
    EnableCrawler = TRUE
    ScheduleInterval = 1
    RecheckDelays = {1}
    MaxBackoff = 1
    RetryCap = 1
    BatchSize = 2
    MaxFaults = 1
    Sitemaps <- Everything
    MaxEdits = 1
SPECIFICATION Spec
INVARIANTS
    InterruptedWorkIsDue
    InFlightNotQueued
    CycleKeepsItsWord
PROPERTIES
    FailuresAreRemembered
    RefinesLedger
