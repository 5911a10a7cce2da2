SPECIFICATION FairSpec
CONSTANTS
    Tabs = {t1}
    MaxEdits = 1
    FirstRows = 1
    Limit <- ReloadLimit
    None = None
    Strategies = {"ask", "mine", "server"}
    OfflineEdits = {"create", "update", "delete"}
    OnlineEdits = {}
PROPERTY QueueDrains
