SPECIFICATION Spec
CONSTANTS
    Tabs = {t1}
    MaxEdits = 2
    FirstRows = 1
    Limit <- ReloadCollabLimit
    None = None
    Strategies = {"ask", "mine", "server"}
    OfflineEdits = {"create", "update", "delete"}
    OnlineEdits = {}
PROPERTY NoSilentOverwrite
