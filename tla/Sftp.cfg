SPECIFICATION FairSpec
CONSTANTS
    Calls = {1, 2}
    Requests <- MCRequests
    Hosts = {"h1", "h2"}
    Tree <- MCTree
    Nodes <- MCNodes
    Names <- MCNames
    Units = {1, 2, 3, 4, 5, 7}
    Modes = {"old", "new", "default"}
    Downloads <- MCDownloads
    MaxSuffix = 1
    Start = {"h1"}
    MaxReconnects = 1
INVARIANTS OkMeansStored OkMeansDone ReadsExact
PROPERTIES CallsAnswered
CHECK_DEADLOCK FALSE
