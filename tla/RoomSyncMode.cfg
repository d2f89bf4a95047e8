CONSTANTS
    NZones = 1
    Temps = {18, 20}
    Null = Null
    Flags = {"lock"}
    NCmds = 2
    UserModes = {"normal", "reduced"}
    UserSysModes = {"manual_heating"}
    Kinds = {"setpoint", "mode"}
    InitRoom <- MCInitRoom
    MaxChain = 1
    MaxPanel = 0
SPECIFICATION Spec
PROPERTY ModeChangeKeepsSlots
