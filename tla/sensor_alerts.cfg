\* One sensor, three values at a time; an anomaly's cooldown is the longer one.
SPECIFICATION Spec
CONSTANTS
    Sensors = {s1}
    Points = {p1, p2, p3}
    NoSensor = NoSensor
    Cooldown = 2
    AnomalyCooldown = 3
INVARIANTS
    TypeOK
    BurstBounded
PROPERTY
    KeepsAlerting
