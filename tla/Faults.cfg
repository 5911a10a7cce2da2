SPECIFICATION Spec
CONSTANTS
    Tabs = {t1}
    MaxEdits = 2
    FirstRows = 1
    Limit <- FaultsLimit
    None = None
    Strategies = {"ask", "mine", "server"}
    OfflineEdits = {"create", "update", "delete"}
    OnlineEdits = {"create", "update", "delete"}
INVARIANT IndInv
PROPERTY KeepsLedger
