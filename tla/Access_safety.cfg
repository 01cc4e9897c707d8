\* Small accessories that requests ask for; every built-in one as it starts.
SPECIFICATION Spec
CONSTANTS
    Databases <- MCDatabases
    Addressed <- MCAddressed
    Inputs <- MCInputs
    Parsed <- MCParsed
    Reads <- MCReads
    Writes <- MCWrites
    MaxEntries = 2
CHECK_DEADLOCK FALSE
INVARIANTS
    TypeOK
    NoSilentFailure
    GetTellsAll
PROPERTIES
    StoredIsAccepted
    RefusedKeepsValue
