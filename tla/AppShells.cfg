SPECIFICATION FairSpec
CONSTANTS
    NoData = NoData
    FailStreak = 2
    QuietDegraded = 1
    QuietOffline = 2
    RequestTime = 0
    MaxTokens = 2
    MaxWebFaults = 1
    Fields = {"setpoint", "mode", "light"}
    MaxRoomWrites = 2
    MaxRoomFaults = 1
    MaxRoomChanges = 1
    Installs = {"a", "b"}
    Urls = {"u", "v"}
    None = None
    MaxTaps = 3
    MaxProbes = 3
INVARIANTS StateHasEvidence NoFetchUnderAWrite LoneFailureLeavesNoTrace ProbesServeTheScreen
PROPERTIES RoomSettles SessionEnds BannerClears
