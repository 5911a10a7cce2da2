SPECIFICATION Spec
CONSTANTS
    Users = {u1, u2}
    Nobody = Nobody
    Budget <- SharedDevice
SYMMETRY UserSymmetry
INVARIANTS
    TypeOK
    
    EditsSentAsAuthor
    
    
\* A signed-out page whose user does nothing more stops.
CHECK_DEADLOCK FALSE
