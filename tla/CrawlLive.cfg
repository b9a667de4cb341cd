\* Sitemap mode under fairness, with a whitelist that a restart may narrow and a
\* page whose row the blacklist sweeps.
CONSTANTS
    home = home
    page = page
    Urls <- TwoUrls
    Roots <- NoRoots
    Configs <- Narrowing
    Mode = "sitemap"
    EnableCrawler = FALSE
    ScheduleInterval = 1
    RecheckDelays = {1}
    MaxBackoff = 1
    RetryCap = 1
    BatchSize = 2
    MaxFaults = 1
    Sitemaps <- Growing
    MaxEdits = 1
SPECIFICATION FairSpec
PROPERTIES
    DebtsAreSettled
    CyclesEnd
