SPECIFICATION Spec
CONSTANTS
    Twins = {t1, t2}
    Assets = {a1, a2}
    Parts = {p1, p2}
    Sensors = {s1}
    Links = {l1}
    None = None
    Unused = Unused
    Gone = Gone
    Lifetime = 1
INVARIANTS
    TypeOK
    
    TreeComplete
PROPERTIES
    LinksEnd
SYMMETRY Symmetry
CHECK_DEADLOCK FALSE
