\* Two sensors, one control request at a time.
SPECIFICATION FairSpec
CONSTANTS
    Sensors = {s1, s2}
    Timers = {t1, t2}
    Operators = {o1}
    Writers = {w1}
    NoSensor = NoSensor
    NoTimer = NoTimer
    MaxCrashes = 1
PROPERTIES
    ImplementsLifecycle
    RejectsEventually
