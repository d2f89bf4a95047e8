----------------------------- MODULE UserConfig -----------------------------
(***************************************************************************)
(* Floor labels and scenes: the bridge's routes /api/v1/floors and         *)
(* /api/v1/scenes, its Store, the state file and main.ts, which loads it   *)
(* at boot and saves it on every change.                                   *)
(*                                                                         *)
(* A scene's action is a partial function from its targets to a mode and a *)
(* setpoint: a scene for the whole house has the one target "all", one per *)
(* room has the rooms it names.                                            *)
(***************************************************************************)
EXTENDS Naturals, FiniteSets

CONSTANTS
    Zones,        \* rooms of the controller
    Labels,       \* floor labels a user types
    RoomFloors,   \* ROOM_FLOORS: zone -> label or NoLabel
    Modes,        \* of {"standby", "normal", "reduced", "program"}
    Setpoints,
    NoSetpoint,
    MaxScenes,    \* bound: scenes ever created
    MaxTrouble    \* bound: saves that fail and deaths of the process

NoLabel == ""

ASSUME UserConfigAssumption ==
    /\ NoLabel \notin Labels
    /\ RoomFloors \in [Zones -> Labels \cup {NoLabel}]
    /\ "all" \notin Zones
    /\ NoSetpoint \notin Setpoints
    /\ MaxScenes \in Nat /\ MaxTrouble \in Nat

VARIABLES
    up,        \* the process runs
    floors,    \* Store.floorAssignments, NoLabel where there is none
    scenes,    \* Store.scenes: a function from the ids in use to actions
    rooms,     \* Store.rooms: a function from the rooms polled so far to their floor
    file,      \* the state file
    created,   \* how many ids were given out
    trouble

configVars == <<up, floors, scenes, rooms, file, created, trouble>>

FloorMap == [Zones -> Labels \cup {NoLabel}]
Setting == Modes \X (Setpoints \cup {NoSetpoint})
SceneActions == UNION {[T -> Setting] : T \in {{"all"}} \cup SUBSET Zones}
ScenesOf == UNION {[I -> SceneActions] : I \in SUBSET (1..MaxScenes)}
Configs == [floors : FloorMap, scenes : ScenesOf]

\* A partial function without the elements of S.
Without(f, S) == [x \in DOMAIN f \ S |-> f[x]]
With(f, x, v) == [y \in DOMAIN f \cup {x} |-> IF y = x THEN v ELSE f[y]]

Empty == [floors |-> [z \in Zones |-> NoLabel], scenes |-> <<>>]

\* { ...config.ROOM_FLOORS, ...persistentState.floors }
Restored(c) ==
    [c EXCEPT !.floors = [z \in Zones |-> IF c.floors[z] # NoLabel THEN c.floors[z]
                                          ELSE RoomFloors[z]]]

\* Mutant of Loaded: the state file is not read at boot.
LoadedNothing(c) == floors' = RoomFloors /\ scenes' = <<>> /\ rooms' = <<>>

\* loadPersistent(): into a Store without rooms.
Loaded(c) == floors' = Restored(c).floors /\ scenes' = Restored(c).scenes /\ rooms' = <<>>

ConfigInit ==
    /\ up = TRUE
    /\ file = Empty
    /\ floors = Restored(file).floors /\ scenes = Restored(file).scenes /\ rooms = <<>>
    /\ created = 0
    /\ trouble = 0

-----------------------------------------------------------------------------
Trouble == trouble < MaxTrouble /\ trouble' = trouble + 1

\* Mutant of Torn: a death half-way through leaves a file that reads as empty.
TornInPlace == Empty

\* persistent.changed: the file is written beside the old one and then renamed;
\* a failure is logged and the change stays.
Torn == file

Persist ==
    \/ file' = [floors |-> floors', scenes |-> scenes'] /\ up' = TRUE /\ UNCHANGED trouble
    \/ UNCHANGED file /\ up' = TRUE /\ Trouble

\* A change whose save the process does not survive.
DiesSaving == up' = FALSE /\ file' = Torn /\ Trouble /\ UNCHANGED <<floors, scenes>> /\ rooms' = <<>>

\* Mutant of Relabelled: a label that was removed stays on its room.
RelabelledOnly == [z \in DOMAIN rooms |-> IF floors'[z] = NoLabel THEN rooms[z] ELSE floors'[z]]

\* Store.setFloorAssignments(): labels are trimmed, empty ones dropped, and the
\* rooms get their new label.
Relabelled == [z \in DOMAIN rooms |-> floors'[z]]

SetFloors(m) ==
    /\ up
    /\ IF m = floors THEN UNCHANGED <<up, floors, scenes, rooms, file, trouble>>
       ELSE \/ floors' = m /\ rooms' = Relabelled /\ UNCHANGED scenes /\ Persist
            \/ DiesSaving
    /\ UNCHANGED created

\* Store.setScenes().
SetScenes(s) ==
    \/ scenes' = s /\ UNCHANGED <<floors, rooms>> /\ Persist
    \/ DiesSaving

CreateScene(a) ==
    /\ up /\ created < MaxScenes
    /\ created' = created + 1
    /\ SetScenes(With(scenes, created', a))

\* PUT of an id that is gone is a 404.
UpdateScene(id, a) ==
    /\ up
    /\ IF id \in DOMAIN scenes THEN SetScenes(With(scenes, id, a))
       ELSE UNCHANGED <<up, floors, scenes, rooms, file, trouble>>
    /\ UNCHANGED created

RemoveScene(id) ==
    /\ up
    /\ SetScenes(Without(scenes, {id}))
    /\ UNCHANGED created

WantsSetpoint(mode) == mode \in {"normal", "reduced"}

\* The calls POST /api/v1/scenes/:id/apply makes for the actions a: one setRoomMode
\* per room, none of them awaited.  It changes nothing of what is kept here.
CallsOf(a) ==
    LET of(z) == IF "all" \in DOMAIN a THEN a["all"] ELSE a[z]
        named == IF "all" \in DOMAIN a THEN DOMAIN rooms ELSE DOMAIN a \cap DOMAIN rooms
    IN  [z \in named |-> <<of(z)[1], IF WantsSetpoint(of(z)[1]) THEN of(z)[2] ELSE NoSetpoint>>]

\* The poller creates a room with the label of its zone.
RoomAppears(z) ==
    /\ up /\ z \notin DOMAIN rooms
    /\ rooms' = With(rooms, z, floors[z])
    /\ UNCHANGED <<up, floors, scenes, file, created, trouble>>

Dies ==
    /\ up /\ Trouble
    /\ up' = FALSE
    /\ rooms' = <<>>
    /\ UNCHANGED <<floors, scenes, file, created>>

Boot ==
    /\ ~up
    /\ up' = TRUE
    /\ Loaded(file)
    /\ UNCHANGED <<file, created, trouble>>

-----------------------------------------------------------------------------
ConfigTypeOK ==
    /\ up \in BOOLEAN
    /\ floors \in FloorMap
    /\ DOMAIN scenes \subseteq 1..created /\ \A i \in DOMAIN scenes : scenes[i] \in SceneActions
    /\ DOMAIN rooms \subseteq Zones /\ \A z \in DOMAIN rooms : rooms[z] \in Labels \cup {NoLabel}
    /\ file.floors \in FloorMap /\ DOMAIN file.scenes \subseteq 1..created
    /\ created \in 0..MaxScenes /\ trouble \in 0..MaxTrouble

\* "Apply to current rooms so the SPA's /api/v1/rooms reflects the edit" and "pick up
\* the persisted floor label" (store.ts): a room has the label of its zone, whether
\* it appeared before or after the edit, the failed save or the restart.
RoomsCarryTheirFloor == \A z \in DOMAIN rooms : rooms[z] = floors[z]

Durable == INSTANCE DurableConfig WITH
    Values <- Configs, current <- [floors |-> floors, scenes |-> scenes], durable <- file, running <- up

\* The settings are a durable value: a save is atomic, "a crash mid-write can't
\* corrupt the file" (persistent-state.ts), and a boot gives back what the file
\* holds, a room without a label there getting the one of ROOM_FLOORS.  (So a label
\* the user removed comes back if ROOM_FLOORS gives it, whereas main.ts says that the
\* file "takes priority so SPA edits stick".)
SettingsAreDurable == Durable!Spec
=============================================================================
