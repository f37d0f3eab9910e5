SPECIFICATION ReducedSpec
CONSTANTS
    firefox = firefox
    chrome = chrome
    konsole = konsole
    sypherstore = sypherstore
    blank = blank
    Windows <- MCWindows
    OwnWindow = sypherstore
    NoWindow = NoWindow
    Class <- MCClass
    Browsers <- MCBrowsers
    Registry <- MCRegistry
    Nesting <- MCNesting
    MaxDepth = 6
    MaxBreadth = 24
    Pages <- MCPages
    NoPage = NoPage
    Url <- MCUrl
    MaxReports = 2
    MaxLeft = 1
    LowerCase <- MCLowerCase
    Hostless <- MCHostless
    PublicSuffixes <- MCPublicSuffixes
    Addresses <- MCAddresses
    NoHost = NoHost
    NoQuery = NoQuery
    Fuzzy <- MCFuzzy
    s1 = s1
    s2 = s2
    Ids = {s1, s2}
    Names = {1}
    Texts = {1, 2}
    StartsWith <- MCStartsWith
    Applications <- MCApplications
    Sites <- MCSites
    Typed <- MCTyped
    SiteOf <- MCSiteOf
    NoSite = NoSite
    Closeness <- MCCloseness
    Queries = {"git"}
    Times = {1}
SYMMETRY Symmetry
CHECK_DEADLOCK FALSE
INVARIANTS LookupTypeOK ContextIsOfTheWindow SiteIsOffered OnlyRelatedAreOffered
