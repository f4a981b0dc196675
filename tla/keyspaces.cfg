CONSTANTS
    Alphabet = {"a"}
    MaxWord = 2
    Contents = {x, y}
    NoContent = NoContent
    MaxReports = 4
    Clusters = {cl1, cl2}
    MaxRows = 3
    Kind = "polr"
    MaxName = 1
    Callers = {c1, c2}
    Nobody = Nobody
    Letters = {"a", "@", ":", "/", "%", "+", " "}
    MaxPassword = 3
    HostNames = {"h1", "h2"}
    MaxHosts = 2
    Ports = {"0", "5432"}
SPECIFICATION BothSpec
INVARIANTS GetsOwn ListsOwn SettingsSurvive DefinitionsFound PublishedWhole
PROPERTIES MemoryKeepsPromise
CHECK_DEADLOCK FALSE
SYMMETRY Symmetry
