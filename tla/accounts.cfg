SPECIFICATION Spec
CONSTANTS
    Calls = {c1, c2}
    Emails = {e1, e2}
    Googles = {g1}
    SeedEmail = e1
    None = None
    MaxUsers = 2
    MaxTenants = 2
INVARIANTS
    TypeOK
    LogoutHolds
PROPERTIES
    RoleFresh
    
SYMMETRY Symmetry
