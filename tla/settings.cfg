CONSTANTS
    Alphabet = {"a"}
    MaxWord = 1
    Contents = {x}
    NoContent = NoContent
    MaxReports = 1
    Clusters = {cl1}
    MaxRows = 1
    Kind = "polr"
    MaxName = 1
    Callers = {c1}
    Nobody = Nobody
    Letters = {"a", "@", ":", "/", "%", "+", " "}
    MaxPassword = 2
    HostNames = {"h1"}
    MaxHosts = 1
    Ports = {"5432"}
SPECIFICATION Spec
INVARIANTS CredentialsSurvive
CHECK_DEADLOCK FALSE
