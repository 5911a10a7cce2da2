SPECIFICATION Spec
CONSTANTS
    Tabs = {t1, t2}
    MaxEdits = 2
    FirstRows = 1
    Limit <- NoFaults
    None = None
    Strategies = {"ask", "mine", "server"}
    OfflineEdits = {"create", "update", "delete"}
    OnlineEdits = {}
PROPERTY UnresolvedMeansCreateGone
