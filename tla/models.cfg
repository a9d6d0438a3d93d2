\* Three ids and two requests at a time.
SPECIFICATION Spec
CONSTANTS
    Models = {m1, m2, m3}
    Calls = {c1, c2}
    Ops = {"upload", "version", "rollback", "remove", "restore", "permanent", "read", "list", "bind"}
    Requests = 3
    None = None
    List = List
SYMMETRY Symmetry
INVARIANTS
    TypeOK
    OneLatest
    VersionsDistinct
    
    RowHasFile
CHECK_DEADLOCK FALSE
