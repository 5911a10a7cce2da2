SPECIFICATION FairSpec
CONSTANTS
    Tabs = {t1}
    MaxEdits = 2
    FirstRows = 1
    Limit <- DrainLimit
    None = None
    Strategies = {"ask", "mine", "server"}
    OfflineEdits = {"create", "update", "delete"}
    OnlineEdits = {}
PROPERTY QueueDrains
