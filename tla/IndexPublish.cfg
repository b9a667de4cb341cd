\* A thread of the server and a command-line process that build, two
\* versions of the documents, kills and errors.  The functions of a search are
\* evaluated once: words of four letters, texts of eight characters, queries of
\* two terms, events of a tenant four, and directories of three metadata files, or
\* of two with any front matter.
CONSTANTS
    v1 = v1
    v2 = v2
    thread = thread
    cli = cli
    none = none
    Versions <- TwoVersions
    Builders <- Both
    InServer <- OnlyThread
    MaxErrors = 1
    Letters = {"a", "b"}
    WordSize = 4
    TextSize = 8
    Context = 3
    Boundary = 2
    Vocabulary <- FourWords
    SuffixRules <- OneRule
    Endings <- TwoEndings
    Stopwords <- OneStopword
    Synonyms <- SomeSynonyms
    NameParts <- ThreeParts
    Codenames = {"django", "flask"}
    Urls <- Pieces
    Pages = {"p", "q"}
    NamedInText <- Pieces
    Whitelists <- GuideOrAll
    Blacklists <- OldOrNothing
SPECIFICATION FairSpec
INVARIANTS
    SearchAgrees
    ClientAgrees
    SweepSettles
    ManifestIsReadable
    OkMeansCurrent
PROPERTY
    PublishedIsServed
