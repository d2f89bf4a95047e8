------------------------------- MODULE Discovery -------------------------------
(***************************************************************************)
(* The entities that the bridge announces to Home Assistant, what each     *)
(* reads and what its controls send (apps/bridge/src/mqtt/discovery.ts),   *)
(* the topics both sides meet on (topics.ts), and what the bridge makes of *)
(* a command that arrives (bridge.ts).                                     *)
(*                                                                         *)
(* A topic is a tuple of levels below the installation's root.  A value    *)
(* template is the set of fields it reads or, for a control, a function    *)
(* from the field's values to what Home Assistant shows.  Names, units,    *)
(* icons and the device block are left out.                                *)
(***************************************************************************)
EXTENDS Integers, Sequences

CONSTANTS
    ExposeCalibration,  \* the option of that name
    NoIO                \* an I/O page that has not been read

ASSUME DiscoveryAssumption == ExposeCalibration \in BOOLEAN

RoomModes == {"standby", "normal", "reduced", "program", "program_override"}
OperatingModes == {"heating_only", "cooling_only", "manual_heating", "manual_cooling"}
EnergyLevels == {"normal", "reduced", "standby", "auto", "vacation"}

-----------------------------------------------------------------------------
(* What is published, and what is in it.                                   *)

RoomState(r) == <<"rooms", r, "state">>
RoomSet(r, what) == <<"rooms", r, what, "set">>
SystemState == <<"system", "state">>
SystemSet(what) == <<"system", what, "set">>
AlarmsActive == <<"alarms", "active">>
AlarmsCount == <<"alarms", "count">>
Io == <<"io">>

RoomFields ==
    {"temperature", "humidity", "setpointHeating", "setpointCooling", "mode",
     "hasFan", "hasFlap", "hasLight", "fan", "flap", "light", "fanRunning",
     "calibrationTemp", "calibrationHumidity", "lock", "autoStart", "windowDetection"}

SystemFields == {"operatingMode", "energyLevel", "outdoorTemp", "outdoorOffset"}

\* The channels of the I/O page: of the master, and of each U-module.
MasterChannels(io) ==
    UNION {{<<"master", bank, i>> : i \in 1..Len(io.master[bank])} :
               bank \in {"rz", "relay", "di"}}

ModuleChannels(io, k) ==
    UNION {{<<k, bank, i>> : i \in 1..Len(io.umodules[k][bank])} :
               bank \in {"relay", "di", "aiC"}}

\* The fields that a message on `topic` carries, in Store snapshot s.
FieldsOn(topic, s) ==
    CASE \E r \in DOMAIN s.rooms : topic = RoomState(r) -> RoomFields
      [] topic = SystemState -> SystemFields
      [] topic \in {AlarmsActive, AlarmsCount} -> {"payload"}
      [] topic = Io /\ s.io # NoIO ->
            MasterChannels(s.io)
              \cup UNION {ModuleChannels(s.io, k) \cup {<<k, "aoPct">>} : k \in DOMAIN s.io.umodules}
      [] OTHER -> {}

-----------------------------------------------------------------------------
(* Entities.                                                               *)

ReadOnly(component, of, topic, fields) ==
    [id |-> <<component>> \o of, topic |-> topic, fields |-> fields, controls |-> {}]

\* What the user picks is sent as says[option]; shows is how the field of the
\* published state looks in the same control.
Control(to, field, says, shows) ==
    [to |-> to, field |-> field, says |-> says, shows |-> shows]

Verbatim(options) == [o \in options |-> o]

IsSystemCooling(s) == s.operatingMode \in {"cooling_only", "manual_cooling"}

ActiveMode(cooling) == IF cooling THEN "cool" ELSE "heat"

\* Every mode but standby calls for the season's heat or cold.
RoomModeToHa(cooling) ==
    [m \in RoomModes |-> IF m = "standby" THEN "off" ELSE ActiveMode(cooling)]

HaModeToRoom(cooling) ==
    [o \in {"off", ActiveMode(cooling)} |-> IF o = "off" THEN "standby" ELSE "normal"]

\* In steps of half a degree.
Degrees(cooling) == IF cooling THEN 30..70 ELSE 10..62

BuildRoomClimate(r, cooling) ==
    [id |-> <<"climate", r>>,
     topic |-> RoomState(r),
     fields |-> {"temperature", "humidity", "setpointHeating", "setpointCooling", "mode"},
     controls |->
        {Control(RoomSet(r, "setpoint"), "setpoint",
                 Verbatim(Degrees(cooling)), Verbatim(Degrees(cooling))),
         Control(RoomSet(r, "mode"), "mode", HaModeToRoom(cooling), RoomModeToHa(cooling)),
         Control(RoomSet(r, "mode"), "mode", Verbatim(RoomModes), Verbatim(RoomModes))}]

BuildRoomHumidity(r) == ReadOnly("sensor", <<r, "humidity">>, RoomState(r), {"humidity"})

\* payload_on and payload_off, state_on and state_off.
SwitchSays == [o \in {"ON", "OFF"} |-> IF o = "ON" THEN "true" ELSE "false"]
SwitchShows == [v \in BOOLEAN |-> IF v THEN "ON" ELSE "OFF"]

Switch(r, slug, field, to) ==
    [id |-> <<"switch", r, slug>>, topic |-> RoomState(r), fields |-> {field},
     controls |-> {Control(to, field, SwitchSays, SwitchShows)}]

BuildRoomLightSwitch(r) == Switch(r, "light", "light", RoomSet(r, "light"))
BuildRoomLockSwitch(r) == Switch(r, "lock", "lock", RoomSet(r, "lock"))

\* Mutant of BuildRoomAutoStart: the field is named like the topic.
BuildRoomAutoStartSnake(r) == Switch(r, "auto_start", "auto_start", RoomSet(r, "auto_start"))

BuildRoomAutoStart(r) == Switch(r, "auto_start", "autoStart", RoomSet(r, "auto_start"))

BuildRoomWindowDetection(r) ==
    Switch(r, "window_detection", "windowDetection", RoomSet(r, "window_detection"))

BuildRoomFan(r) ==
    {ReadOnly("binary_sensor", <<r, "fan_running">>, RoomState(r), {"fanRunning"}),
     ReadOnly("sensor", <<r, "fan_speed">>, RoomState(r), {"fanRunning", "fan"})}

BuildRoomFlap(r) == ReadOnly("binary_sensor", <<r, "flap">>, RoomState(r), {"flap"})

BuildRoomCalibration(r) ==
    {ReadOnly("sensor", <<r, "cal_temp">>, RoomState(r), {"calibrationTemp"}),
     ReadOnly("sensor", <<r, "cal_humidity">>, RoomState(r), {"calibrationHumidity"})}

BuildOutdoor == ReadOnly("sensor", <<"outdoor">>, SystemState, {"outdoorTemp"})
BuildOutdoorOffset == ReadOnly("sensor", <<"outdoor_offset">>, SystemState, {"outdoorOffset"})

Select(name, field, options) ==
    [id |-> <<"select", name>>, topic |-> SystemState, fields |-> {field},
     controls |-> {Control(SystemSet(name), field, Verbatim(options), Verbatim(options))}]

BuildOperatingModeSelect == Select("operating_mode", "operatingMode", OperatingModes)
BuildEnergyLevelSelect == Select("energy_level", "energyLevel", EnergyLevels)

BuildAlarms == ReadOnly("binary_sensor", <<"alarms_active">>, AlarmsActive, {"payload"})
BuildAlarmsCount == ReadOnly("sensor", <<"alarms_count">>, AlarmsCount, {"payload"})

\* One entity for each channel that the page shows, and a module's output.
BuildMasterIO(io) ==
    {ReadOnly("binary_sensor", c, Io, {c}) : c \in MasterChannels(io)}

BuildModuleIO(io, k) ==
    {ReadOnly(IF c[2] = "aiC" THEN "sensor" ELSE "binary_sensor", c, Io, {c}) :
        c \in ModuleChannels(io, k)}
    \cup {ReadOnly("sensor", <<k, "aoPct">>, Io, {<<k, "aoPct">>})}

BuildIODiscovery(io) ==
    BuildMasterIO(io) \cup UNION {BuildModuleIO(io, k) : k \in DOMAIN io.umodules}

\* The entities of room r, which the Store has as rm.
RoomEntities(r, rm, cooling) ==
    {BuildRoomClimate(r, cooling), BuildRoomHumidity(r), BuildRoomLockSwitch(r),
     BuildRoomAutoStart(r), BuildRoomWindowDetection(r)}
    \cup (IF rm.hasLight THEN {BuildRoomLightSwitch(r)} ELSE {})
    \cup (IF rm.hasFan THEN BuildRoomFan(r) ELSE {})
    \cup (IF rm.hasFlap THEN {BuildRoomFlap(r)} ELSE {})
    \cup (IF ExposeCalibration THEN BuildRoomCalibration(r) ELSE {})

BuildAllDiscovery(s) ==
    {BuildOutdoor, BuildOperatingModeSelect, BuildEnergyLevelSelect,
     BuildAlarms, BuildAlarmsCount}
    \cup (IF ExposeCalibration THEN {BuildOutdoorOffset} ELSE {})
    \cup (UNION {RoomEntities(r, s.rooms[r], IsSystemCooling(s)) : r \in DOMAIN s.rooms})
    \cup (IF s.io = NoIO THEN {} ELSE BuildIODiscovery(s.io))

-----------------------------------------------------------------------------
(* currentCapabilitySignature: while it stays the same, nothing is         *)
(* announced again.                                                        *)

RoomSignature(rm) ==
    [light |-> rm.hasLight, fan |-> rm.hasFan, flap |-> rm.hasFlap]

Lengths(banks, names) == [b \in names |-> Len(banks[b])]

IoSignature(io) ==
    [master |-> Lengths(io.master, {"rz", "relay", "di"}),
     umodules |-> [k \in DOMAIN io.umodules |->
                      Lengths(io.umodules[k], {"relay", "di", "aiC"})]]

CapabilitySignature(s) ==
    [rooms |-> [r \in DOMAIN s.rooms |-> RoomSignature(s.rooms[r])],
     read |-> s.io # NoIO,
     io |-> IF s.io = NoIO THEN NoIO ELSE IoSignature(s.io),
     season |-> IF IsSystemCooling(s) THEN "C" ELSE "H"]

-----------------------------------------------------------------------------
(* Commands.                                                               *)

RoomTopics == {"setpoint", "mode", "light", "lock", "auto_start", "window_detection"}

\* The topics the bridge subscribes to; the room is a wildcard.
Subscribed(topic) ==
    \/ topic \in {SystemSet("operating_mode"), SystemSet("energy_level")}
    \/ Len(topic) = 4 /\ topic[1] = "rooms" /\ topic[3] \in RoomTopics /\ topic[4] = "set"

\* matchCommand and the flag's key in handleCommand: the field a topic sets.
MatchCommand(topic) ==
    CASE topic = SystemSet("operating_mode") -> "operatingMode"
      [] topic = SystemSet("energy_level") -> "energyLevel"
      [] Len(topic) = 4 /\ topic[3] = "auto_start" -> "autoStart"
      [] Len(topic) = 4 /\ topic[3] = "window_detection" -> "windowDetection"
      [] OTHER -> topic[3]

\* handleCommand: the value a payload is taken for; other payloads are dropped.
Heard(field, payload) ==
    CASE field = "operatingMode" -> {payload} \cap OperatingModes
      [] field = "energyLevel" -> {payload} \cap EnergyLevels
      [] field = "mode" -> {payload} \cap RoomModes
      [] field = "setpoint" -> {payload}
      [] OTHER -> {(payload \in {"true", "on", "1"})}

-----------------------------------------------------------------------------
(* What becomes of a command: the codecs of apps/bridge/src/device.         *)

OperatingModeToDevice ==
    [heating_only |-> 1, cooling_only |-> 2, manual_heating |-> 5, manual_cooling |-> 6]

OperatingModeFromDevice(n) ==
    CASE n = 1 -> "heating_only" [] n = 2 -> "cooling_only"
      [] n = 6 -> "manual_cooling" [] OTHER -> "manual_heating"

EnergyLevelToDevice == [normal |-> 0, reduced |-> 1, standby |-> 2, auto |-> 3, vacation |-> 4]

\* Mutant of EnergyLevelFromDevice: counted from the lowest level.
EnergyLevelFromDeviceMenu(n) == <<"standby", "reduced", "normal", "auto", "vacation">>[n + 1]

EnergyLevelFromDevice(n) ==
    CASE n = 0 -> "normal" [] n = 1 -> "reduced" [] n = 3 -> "auto"
      [] n = 4 -> "vacation" [] OTHER -> "standby"

RoomModeToDevice == [m \in RoomModes |-> IF m = "program_override" THEN "programO" ELSE m]

RoomModeFromDevice(s) ==
    CASE s = 0 -> "normal" [] s = 1 -> "reduced" [] s \in 3..4 -> "program"
      [] s \in 5..7 -> "program_override" [] OTHER -> "standby"

\* Half degrees Celsius as the tenths of a degree Fahrenheit of the page's `temp`:
\* ten times h / 2 * 9 / 5 + 32.
SetpointToDeviceForm(h) == 9 * h + 320

\* The controller shows the temperature on the dial's half degrees.
DialOf(temp) == (temp - 320) \div 9

\* The states the controller shows a room in, by the mode it was put in.
StatesOf ==
    [normal |-> {0}, reduced |-> {1}, standby |-> {2}, program |-> {3, 4}, programO |-> {5}]

\* What the controller is sent for value v of a field.
Posted(field, v) ==
    CASE field = "operatingMode" -> OperatingModeToDevice[v]
      [] field = "energyLevel" -> EnergyLevelToDevice[v]
      [] field = "mode" -> RoomModeToDevice[v]
      [] field = "setpoint" -> SetpointToDeviceForm(v)
      [] OTHER -> v

\* The commander sets value v and reads it again: what the field may become.
Becomes(field, v) ==
    CASE field = "operatingMode" -> {OperatingModeFromDevice(Posted(field, v))}
      [] field = "energyLevel" -> {EnergyLevelFromDevice(Posted(field, v))}
      [] field = "mode" -> {RoomModeFromDevice(s) : s \in StatesOf[Posted(field, v)]}
      [] field = "setpoint" -> {DialOf(Posted(field, v))}
      [] OTHER -> {Posted(field, v)}

\* The room, or the system, whose state a topic carries and whose field it sets.
OwnerOf(topic) == IF topic[1] = "rooms" THEN topic[2] ELSE topic[1]

-----------------------------------------------------------------------------
(* What the parts promise each other.                                      *)

\* Entity e reads what the bridge publishes.
ReadsWhatIsPublished(e, s) == e.fields # {} /\ e.fields \subseteq FieldsOn(e.topic, s)

\* Whatever the user picks in a control of e is a call for the room e belongs to,
\* and what the controller then reports shows as what was picked.  (Of a setpoint:
\* for a room that is not in standby, where setpointToDeviceForm sends none.)
ControlTakes(e, c) ==
    \A o \in DOMAIN c.says :
        /\ Subscribed(c.to)
        /\ OwnerOf(c.to) = OwnerOf(e.topic)
        /\ MatchCommand(c.to) = c.field
        /\ \E v \in Heard(c.field, c.says[o]) :
              \A w \in Becomes(c.field, v) : w \in DOMAIN c.shows /\ c.shows[w] = o
=============================================================================
