SPECIFICATION Spec
CONSTANTS
    Pages = {"installer", "daily", "weekly", "system"}
    NoData = NoData
    Groups = {"heatcool", "calibration"}
    Items = {i1, i2}
    MaxEdits = 2
    MaxSaves = 2
    MaxSaveFaults = 1
    DailyIds = {1, 2}
    WeeklyIds = {1, 2}
    Days = {mon}
    Quarters = {q1, q2}
    NDaily = 3
    MaxMoves = 2
    MaxCalls = 2
    NoSetpoint = NoSetpoint
    Zones = {"z1", "z2"}
    Labels = {"ground"}
    RoomFloors <- MCRoomFloors
    Modes = {"standby", "normal"}
    Setpoints = {21, 24}
    DefaultSetpoint = 21
    MaxScenes = 1
    MaxTrouble = 1
    MaxActs = 3
    MaxMounts = 2
    Catalogue <- MCCatalogue
    Numbers = {500, 630, 635, 700}
    DayHours = 2
    Minutes = {0, 15, 45, 50}
    MaxIntervals = 2
INVARIANTS
    SavesKeepTheRest DayProgramsReadBack CancelledNeverSent EditsStayWithProgram NoClickDropped
    RoomsCarryTheirFloor TypedLabelsStay EditingIsLossless AppliedAsAuthored
PROPERTIES DraftOnlyLeavesSent SettingsAreDurable
