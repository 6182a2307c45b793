SPECIFICATION FairSpec
CONSTANTS
    NumProtocols = 3
    AppUrls = {"app"}
    DocsUrls = {"docs1", "docs2", "docs3"}
    Addresses = {"token", "vault"}
    MainPage <- MCMainPage
    AppPage <- MCAppPage
    DocsPage <- MCDocsPage
    Main = "main"
    PageSize = 2
    Parallel <- MCParallel
    Requests <- MCRequests
    NoJob = NoJob
    MaxQueue = 1
    MaxRequests = 1
    MaxAborts = 1
    MaxFaults = 1
INVARIANTS
    TypeOK
    MarkedWasScanned
PROPERTIES
    HalfIsDone
    FetchedInTheEnd
