CONSTANTS
    NZones = 2
    Temps = {18, 20}
    Null = Null
    Flags = {"lock"}
    NCmds = 2
    UserModes = {"normal"}
    UserSysModes = {"manual_cooling"}
    Kinds = {"setpoint", "flags", "system"}
    InitRoom <- MCInitRoom
    MaxChain = 1
    MaxPanel = 1
SPECIFICATION MCBootedSpec
PROPERTIES StoreConverges CallsReturn
