\* A client that may subscribe again and again, two readings and an alert, one fault.
SPECIFICATION Spec
CONSTANTS
    Clients = {c1}
    Readings = 2
    Alerts = 1
    Faults = 1
INVARIANTS
    TypeOK
    
    InOrder
    AtMostTwice
CHECK_DEADLOCK FALSE
