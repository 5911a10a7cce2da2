SPECIFICATION FairSpec
CONSTANTS
    Users = {u1}
    Nobody = Nobody
    Budget <- OneOutage
PROPERTY BackOnlineSyncs
\* A signed-out page whose user does nothing more stops.
CHECK_DEADLOCK FALSE
