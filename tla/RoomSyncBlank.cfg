CONSTANTS
    NZones = 1
    Temps = {18, 20}
    Null = Null
    Flags = {"lock"}
    NCmds = 1
    UserModes = {"normal", "reduced"}
    UserSysModes = {"manual_heating"}
    Kinds = {"setpoint"}
    InitRoom <- MCInitRoom
    MaxChain = 1
    MaxPanel = 0
SPECIFICATION Spec
INVARIANT NothingSynthesised
