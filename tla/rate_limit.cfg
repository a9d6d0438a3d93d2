\* One sensor, three calls at a time, three ticks to a window.
SPECIFICATION Spec
CONSTANTS
    Sensors = {s1}
    Points = {p1, p2, p3}
    NoSensor = NoSensor
    Limit = 2
    Window = 3
INVARIANTS
    TypeOK
    BelowTwice
PROPERTY
    Recovers
