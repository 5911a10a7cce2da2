SPECIFICATION Spec
CONSTANTS
    Tabs = {t1}
    MaxEdits = 3
    FirstRows = 1
    Limit <- TripLimit
    None = None
    Strategies = {"ask", "mine", "server"}
    OfflineEdits = {"create", "update", "delete"}
    OnlineEdits = {}
INVARIANTS TypeOK TokenInv NoEditLost NoPhantomRow CacheConverges
PROPERTIES NoSilentOverwrite NoSelfConflict LaterEditStays UnresolvedOnlyWithoutCreate UnresolvedMeansCreateGone
