SPECIFICATION SideSpec
CONSTANTS
    MaxEntries = 2
    MaxKids = 3
    CrashLimit = 2
    EventMax = 1
    MaxEvents = 2
    Erasers = {u1}
    Null = Null
    MaxSockets = 2
    MaxWire = 1
    Nil = Nil
    MaxRows = 3
    MaxReqs = 2
    MaxEdits = 1
    Places = {museum}
    Users = {ann, bob, cat}
    Dates = {monday}
    MaxInvites = 3
    MaxDayRows = 3
    MaxDate = 3
    MaxTripDays = 2
    MaxCalls = 3
    MaxPersons = 3
    Totals = {4, 11}
    MaxBills = 2
    MaxTransfers = 1
INVARIANTS
    NoGhostChild
    JobsTickOnce
    ActiveHasChild
    EventsInOrder
    ErasureKept
    RowFollowsPlugin
    NeverStranded
    OneSocket
    QuietAfterDisconnect
    RoomFollowsPage
    NoDuplicates
    Converges
    DaysFollowUser
    DatesMatchTrip
    SettlesUp
PROPERTIES
    StartEnds
    DrainTerminates
    DaysKept
    StaysKeepOrder
    BookingKeepsItsDay
\* Each part ends where its bounds are reached.
CHECK_DEADLOCK FALSE
