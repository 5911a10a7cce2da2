SPECIFICATION Spec
CONSTANTS
    Users = {u1}
    Nobody = Nobody
    Budget <- OneSession
INVARIANT CachedDataNeverCrosses
\* A signed-out page whose user does nothing more stops.
CHECK_DEADLOCK FALSE
