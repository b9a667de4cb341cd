\* Two fetches at once, without proxies and with two.
CONSTANTS
    f1 = f1
    f2 = f2
    Tasks <- Two
    ProxyCounts <- NoneAndTwo
    MaxRetries = 1
    MaxBrowsers = 2
    Direct = Direct
    Words <- Spelt
    Fold <- LowerCase
    Long = {"long"}
    Hosts = {"docs.org", "wiki.org"}
    Depth = 2
    NameSize = 6
SPECIFICATION FairSpec
INVARIANTS
    NamesAgree
    DeploymentIsServed
    GoodProxyIsFound
    NoBrowserIsLost
PROPERTIES
    FetchesEnd
