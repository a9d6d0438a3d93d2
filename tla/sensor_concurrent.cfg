\* One sensor, two control requests at a time, two interval handles.
SPECIFICATION FairSpec
CONSTANTS
    Sensors = {s1}
    Timers = {t1, t2}
    Operators = {o1, o2}
    Writers = {w1}
    NoSensor = NoSensor
    NoTimer = NoTimer
    MaxCrashes = 1
INVARIANTS
    TypeOK
    RegistrySound
    RowConsistent
    NoDuplicateStreams
    
    StreamingRowHasTimer
PROPERTY
    QuietAfterStop
