SPECIFICATION Spec
CONSTANTS
    Twins = {t1, t2}
    None = None
    MaxClicks = 1
    MaxVisits = 1
    MaxMishaps = 1
    MaxCalls = 3
    MaxPolls = 2
INVARIANTS
    TypeOK
    
    
    SpinnerEnds
PROPERTIES
    OfferedIsGranted
SYMMETRY Symmetry
CHECK_DEADLOCK FALSE
