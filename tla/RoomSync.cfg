CONSTANTS
    NZones = 1
    Temps = {18, 20}
    Null = Null
    Flags = {"lock"}
    NCmds = 2
    UserModes = {"normal"}
    UserSysModes = {"manual_cooling"}
    Kinds = {"setpoint", "mode", "mode-at", "light", "flags", "system"}
    InitRoom <- MCInitRoom
    MaxChain = 1
    MaxPanel = 0
SPECIFICATION Spec
INVARIANTS TypeOK SetpointPairExclusive PendingHasOneRequest LastSetpointWins LightKeepsHeating SoloWriteLands
