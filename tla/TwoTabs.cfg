SPECIFICATION Spec
CONSTANTS
    Tabs = {t1, t2}
    MaxEdits = 2
    FirstRows = 1
    Limit <- TabsLimit
    None = None
    Strategies = {"ask", "mine", "server"}
    OfflineEdits = {"create", "update", "delete"}
    OnlineEdits = {}
INVARIANTS NoEditLost AtMostOnce
SYMMETRY TabSymmetry
