\* A version uploaded onto a version, one request at a time.
SPECIFICATION Spec
CONSTANTS
    Models = {m1, m2, m3}
    Calls = {c1}
    Ops = {"upload", "version", "rollback", "remove", "restore", "permanent", "read", "list", "bind"}
    Requests = 3
    None = None
    List = List
INVARIANT
    HistoryHasLineage
CHECK_DEADLOCK FALSE
