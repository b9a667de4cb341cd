\* A kill between the sitemap's hash and its rows, with rules that sweep nothing.
CONSTANTS
    home = home
    page = page
    Urls <- TwoUrls
    Roots <- NoRoots
    Configs <- Open
    Mode = "sitemap"
    EnableCrawler = FALSE
    ScheduleInterval = 1
    RecheckDelays = {1}
    MaxBackoff = 1
    RetryCap = 1
    BatchSize = 2
    MaxFaults = 1
    Sitemaps <- Growing
    MaxEdits = 1
SPECIFICATION Spec
INVARIANTS
    UnchangedMeansTracked
