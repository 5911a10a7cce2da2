SPECIFICATION Spec
CONSTANTS
    Tabs = {t1}
    MaxEdits = 3
    FirstRows = 1
    Limit <- BackOfflineLimit
    None = None
    Strategies = {"ask", "mine", "server"}
    OfflineEdits = {"create", "update", "delete"}
    OnlineEdits = {}
PROPERTY UnresolvedOnlyWithoutCreate
