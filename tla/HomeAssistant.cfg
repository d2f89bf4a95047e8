CONSTANTS
    ExposeCalibration = TRUE
    NoIO = NoIO
    MaxBacklog = 2
    MaxChanges = 1
    MaxCrashes = 1
    MaxDrops = 1
SPECIFICATION FairSpec
INVARIANTS RoomOnItsWay EndedIsOffline DeadComesOffline EntitiesAreServed ControlsReachTheirTarget
PROPERTIES AvailabilityFollows
