-------------------------- MODULE ConfigPage_proofs --------------------------
(***************************************************************************)
(* The floors and scenes: RoomsCarryTheirFloor, that the bridge with its   *)
(* state file implements the durable value of DurableConfig, whatever the  *)
(* editors send and wherever the process dies; and what the editors keep:  *)
(* the labels that are typed, and the meaning of a scene.                  *)
(***************************************************************************)
EXTENDS WebEditors, TLAPS

PerRoom(R) == UNION {[S -> R] : S \in SUBSET Zones}

Form == [id : Nat, kind : {"global", "perRoom"}, mode : Modes, setpoint : Setpoints,
         perRoom : PerRoom(Modes \cup {"skip"}), perRoomSetpoints : PerRoom(Setpoints)]

Progress == {"sent", "ok", "failed"}
FloorsSave == [labels : FloorMap, at : Progress]
SceneSave == [form : Form, at : Progress]

\* The saves that are under way are of the set R.
AllIn(under, R) == \A i \in DOMAIN under : under[i] \in R

FormsTyped ==
    /\ form \in Form \cup {NoData}
    /\ floorsDraft \in FloorMap /\ floorsQ \in Entries(FloorMap)
    /\ AllIn(floorsSaves, FloorsSave) /\ AllIn(sceneSaves, SceneSave)

\* What the bridge keeps, in memory and on disk, are settings.
KeptTyped ==
    /\ up \in BOOLEAN
    /\ floors \in FloorMap /\ scenes \in ScenesOf /\ file \in Configs
    /\ DOMAIN rooms \subseteq Zones
    /\ created \in 0..MaxScenes

ConfigInv == FormsTyped /\ KeptTyped /\ RoomsCarryTheirFloor

-----------------------------------------------------------------------------
(* Operators.                                                                *)
LEMMA RestoredTyped ==
    ASSUME NEW c \in Configs
    PROVE  /\ Restored(c) \in Configs
           /\ Restored(c) = [floors |-> Restored(c).floors, scenes |-> Restored(c).scenes]
  BY UserConfigAssumption DEF Restored, Configs, FloorMap

LEMMA SetTyped ==
    ASSUME NEW m \in Modes, NEW sp \in Setpoints PROVE Set(m, sp) \in Setting
  BY DEF Set, Setting

LEMMA RoomSetpointTyped ==
    ASSUME NEW f \in Form, NEW z PROVE RoomSetpoint(f, z) \in Setpoints
<1>1. PICK S \in SUBSET Zones : f.perRoomSetpoints \in [S -> Setpoints]
  BY DEF Form, PerRoom
<1> QED BY <1>1, ConfigPageAssumption DEF RoomSetpoint

LEMMA FormToPayloadTyped ==
    ASSUME NEW f \in Form PROVE FormToPayload(f) \in SceneActions
<1>1. CASE f.kind = "global"
  <2>1. Set(f.mode, f.setpoint) \in Setting
    BY SetTyped DEF Form
  <2>2. [t \in {"all"} |-> Set(f.mode, f.setpoint)] \in [{"all"} -> Setting]
    BY <2>1
  <2> QED BY <1>1, <2>2 DEF FormToPayload, SceneActions
<1>2. CASE f.kind # "global"
  <2>1. PICK S \in SUBSET Zones : f.perRoom \in [S -> Modes \cup {"skip"}]
    BY DEF Form, PerRoom
  <2>2. \A z \in Named(f) : f.perRoom[z] \in Modes
    BY <2>1 DEF Named
  <2>3. \A z \in Named(f) : Set(f.perRoom[z], RoomSetpoint(f, z)) \in Setting
    BY <2>2, SetTyped, RoomSetpointTyped
  <2>4. [z \in Named(f) |-> Set(f.perRoom[z], RoomSetpoint(f, z))] \in [Named(f) -> Setting]
    BY <2>3
  <2>5. Named(f) \in SUBSET Zones
    BY <2>1 DEF Named
  <2> QED BY <1>2, <2>4, <2>5 DEF FormToPayload, SceneActions
<1> QED BY <1>1, <1>2

LEMMA NewFormTyped == NewForm \in Form
<1>1. <<>> \in PerRoom(Modes \cup {"skip"}) /\ <<>> \in PerRoom(Setpoints)
  <2>1. <<>> \in [{} -> Modes \cup {"skip"}] /\ <<>> \in [{} -> Setpoints] /\ {} \in SUBSET Zones
    OBVIOUS
  <2> QED BY <2>1 DEF PerRoom
<1> QED BY <1>1, ConfigPageAssumption DEF NewForm, Form

LEMMA SceneToFormTyped ==
    ASSUME NEW a \in SceneActions, NEW id \in Nat PROVE SceneToForm(id, a) \in Form
<1>1. PICK T \in {{"all"}} \cup SUBSET Zones : a \in [T -> Setting]
  BY DEF SceneActions
<1>2. \A z \in T : a[z][1] \in Modes /\ a[z][2] \in Setpoints \cup {NoSetpoint}
  BY <1>1 DEF Setting
<1>3. CASE "all" \in DOMAIN a
  BY <1>1, <1>2, <1>3, NewFormTyped DEF SceneToForm, Form
<1>4. CASE "all" \notin DOMAIN a
  <2> DEFINE given == {z \in DOMAIN a : a[z][2] # NoSetpoint}
             modes == [z \in DOMAIN a |-> a[z][1]]
             setpoints == [z \in given |-> a[z][2]]
  <2>1. T \in SUBSET Zones /\ DOMAIN a = T
    BY <1>1, <1>4
  <2>2. modes \in [T -> Modes \cup {"skip"}]
    BY <1>2, <2>1
  <2>3. setpoints \in [given -> Setpoints] /\ given \in SUBSET Zones
    BY <1>2, <2>1
  <2>4. modes \in PerRoom(Modes \cup {"skip"}) /\ setpoints \in PerRoom(Setpoints)
    BY <2>1, <2>2, <2>3 DEF PerRoom
  <2>5. SceneToForm(id, a) = [NewForm EXCEPT !.id = id, !.kind = "perRoom", !.perRoom = modes,
                                            !.perRoomSetpoints = setpoints]
    BY <1>4 DEF SceneToForm
  <2> HIDE DEF modes, setpoints
  <2> QED BY <2>4, <2>5, NewFormTyped DEF Form
<1> QED BY <1>3, <1>4

LEMMA WithTyped ==
    ASSUME NEW R, NEW f \in PerRoom(R), NEW z \in Zones, NEW v \in R
    PROVE  With(f, z, v) \in PerRoom(R)
<1>1. PICK S \in SUBSET Zones : f \in [S -> R]
  BY DEF PerRoom
<1>2. With(f, z, v) \in [S \cup {z} -> R] /\ S \cup {z} \in SUBSET Zones
  BY <1>1 DEF With
<1> QED BY <1>2 DEF PerRoom

LEMMA SwitchedTyped == ASSUME form \in Form, KeptTyped PROVE Switched \in Form
<1>1. CASE form.kind = "perRoom"
  BY <1>1 DEF Switched, Form
<1>2. CASE form.kind # "perRoom"
  <2> DEFINE modes == [z \in DOMAIN rooms |-> IF z \in DOMAIN form.perRoom
                                              THEN form.perRoom[z] ELSE form.mode]
  <2>1. PICK S \in SUBSET Zones : form.perRoom \in [S -> Modes \cup {"skip"}]
    BY DEF Form, PerRoom
  <2>2. modes \in [DOMAIN rooms -> Modes \cup {"skip"}]
    BY <2>1 DEF Form
  <2>3. modes \in PerRoom(Modes \cup {"skip"})
    BY <2>2 DEF PerRoom, KeptTyped
  <2>4. Switched = [form EXCEPT !.kind = "perRoom", !.perRoom = modes]
    BY <1>2 DEF Switched
  <2> HIDE DEF modes
  <2> QED BY <2>3, <2>4 DEF Form
<1> QED BY <1>1, <1>2

LEMMA EditFormTyped == ASSUME form \in Form, KeptTyped PROVE FormAfterEdit \subseteq Form
<1> SUFFICES ASSUME NEW g \in FormAfterEdit PROVE g \in Form
  OBVIOUS
<1>1. CASE g = Switched
  BY <1>1, SwitchedTyped
<1>2. ASSUME NEW m \in Modes, g = [form EXCEPT !.mode = m] PROVE g \in Form
  BY <1>2 DEF Form
<1>3. ASSUME NEW v \in Setpoints, g = [form EXCEPT !.setpoint = v] PROVE g \in Form
  BY <1>3 DEF Form
<1>4. ASSUME NEW z \in DOMAIN rooms, NEW m \in Modes \cup {"skip"},
             g = [form EXCEPT !.perRoom = With(@, z, m)]
      PROVE  g \in Form
  <2>1. form.perRoom \in PerRoom(Modes \cup {"skip"}) /\ z \in Zones
    BY DEF Form, KeptTyped
  <2>2. With(form.perRoom, z, m) \in PerRoom(Modes \cup {"skip"})
    BY <2>1, WithTyped
  <2> QED BY <1>4, <2>2 DEF Form
<1>5. ASSUME NEW z \in DOMAIN rooms, NEW v \in Setpoints,
             g = [form EXCEPT !.perRoomSetpoints = With(@, z, v)]
      PROVE  g \in Form
  <2>1. form.perRoomSetpoints \in PerRoom(Setpoints) /\ z \in Zones
    BY DEF Form, KeptTyped
  <2>2. With(form.perRoomSetpoints, z, v) \in PerRoom(Setpoints)
    BY <2>1, WithTyped
  <2> QED BY <1>5, <2>2 DEF Form
<1> QED BY <1>1, <1>2, <1>3, <1>4, <1>5 DEF FormAfterEdit

-----------------------------------------------------------------------------
(* The saves under way.                                                      *)
LEMMA AllInWith ==
    ASSUME NEW under, NEW R, AllIn(under, R), NEW i, NEW v \in R
    PROVE  AllIn(With(under, i, v), R)
  BY DEF AllIn, With

LEMMA AllInWithout ==
    ASSUME NEW under, NEW R, AllIn(under, R), NEW i
    PROVE  AllIn(Without(under, {i}), R)
  BY DEF AllIn, Without

LEMMA ReachedIn ==
    ASSUME NEW under, NEW R, R \in {FloorsSave, SceneSave}, AllIn(under, R), NEW i \in DOMAIN under,
           NEW at \in Progress
    PROVE  AllIn(Reached(under, i, at), R)
<1>1. [under[i] EXCEPT !.at = at] \in R
  BY DEF AllIn, FloorsSave, SceneSave
<1>2. Reached(under, i, at) = [under EXCEPT ![i] = [under[i] EXCEPT !.at = at]]
  BY DEF Reached
<1> QED BY <1>1, <1>2 DEF AllIn

LEMMA AllLostIn ==
    ASSUME NEW under, NEW R, R \in {FloorsSave, SceneSave}, AllIn(under, R)
    PROVE  AllIn(AllLost(under), R)
<1>1. \A i \in DOMAIN under : [under[i] EXCEPT !.at = "failed"] \in R
  BY DEF AllIn, FloorsSave, SceneSave, Progress
<1> QED BY <1>1 DEF AllIn, AllLost

\* The query ["floors"].
LEMMA FloorsEntry ==
    ASSUME NEW q \in Entries(FloorMap), NEW m \in FloorMap
    PROVE  /\ Answer(q, m) \in Entries(FloorMap) /\ CancelFetch(q) \in Entries(FloorMap)
           /\ Land(q) \in Entries(FloorMap) /\ SetData(q, m) \in Entries(FloorMap)
           /\ Mounted(q) \subseteq Entries(FloorMap)
           /\ q.data \in FloorMap \cup {NoData} /\ q.answer \in FloorMap \cup {NoData}
  BY DEF Entries, Answer, CancelFetch, Land, EntryOf, EmptyEntry, SetData, Mounted, Fetch

-----------------------------------------------------------------------------
(* What the bridge does to the settings.                                     *)

Current == [floors |-> floors, scenes |-> scenes]

\* One step of the abstract value, or none of it.
Abstract == Durable!Change \/ Durable!Die \/ Durable!Restart \/ UNCHANGED <<Current, file, up>>

KeptStep == KeptTyped' /\ RoomsCarryTheirFloor' /\ Abstract

\* A change of the settings that is kept, in memory at least.
LEMMA ChangedStep ==
    ASSUME KeptTyped, up, floors' \in FloorMap, scenes' \in ScenesOf,
           DOMAIN rooms' \subseteq Zones, created' \in 0..MaxScenes,
           RoomsCarryTheirFloor', Persist
    PROVE  KeptStep
<1>1. up' = TRUE /\ file' \in {file, [floors |-> floors', scenes |-> scenes']}
  BY DEF Persist
<1>2. [floors |-> floors', scenes |-> scenes'] \in Configs
  BY DEF Configs
<1>3. Durable!Change
  BY <1>1, <1>2 DEF Durable!Change
<1>4. KeptTyped'
  BY <1>1, <1>2 DEF KeptTyped
<1> QED BY <1>3, <1>4 DEF KeptStep, Abstract

\* A death of the process.
LEMMA DeathStep ==
    ASSUME KeptTyped, up, up' = FALSE, UNCHANGED <<file, floors, scenes>>, rooms' = <<>>,
           created' \in 0..MaxScenes
    PROVE  KeptStep
<1>1. Durable!Die
  BY DEF Durable!Die
<1>2. DOMAIN rooms' = {}
  OBVIOUS
<1>3. RoomsCarryTheirFloor'
  BY <1>2 DEF RoomsCarryTheirFloor
<1>4. KeptTyped'
  BY <1>2 DEF KeptTyped
<1> QED BY <1>1, <1>3, <1>4 DEF KeptStep, Abstract

LEMMA StillStep ==
    ASSUME KeptTyped, RoomsCarryTheirFloor, UNCHANGED configVars
    PROVE  KeptStep
  BY DEF configVars, KeptStep, Abstract, Current, KeptTyped, RoomsCarryTheirFloor

LEMMA DiesSavingStep ==
    ASSUME KeptTyped, up, DiesSaving, created' \in 0..MaxScenes PROVE KeptStep
  BY DeathStep DEF DiesSaving, Torn

LEMMA SetFloorsStep ==
    ASSUME KeptTyped, RoomsCarryTheirFloor, NEW m \in FloorMap, SetFloors(m) PROVE KeptStep
<1>1. CASE UNCHANGED <<up, floors, scenes, rooms, file, trouble>>
  BY <1>1, StillStep DEF SetFloors, configVars
<1>2. CASE floors' = m /\ rooms' = Relabelled /\ UNCHANGED scenes /\ Persist
  <2>1. DOMAIN rooms' \subseteq Zones /\ RoomsCarryTheirFloor'
    BY <1>2 DEF Relabelled, RoomsCarryTheirFloor, KeptTyped
  <2> QED BY <1>2, <2>1, ChangedStep DEF SetFloors, KeptTyped
<1>3. CASE DiesSaving
  BY <1>3, DiesSavingStep DEF SetFloors, KeptTyped
<1> QED BY <1>1, <1>2, <1>3 DEF SetFloors

LEMMA SetScenesStep ==
    ASSUME KeptTyped, RoomsCarryTheirFloor, up, NEW s \in ScenesOf, SetScenes(s),
           created' \in 0..MaxScenes
    PROVE  KeptStep
<1>1. CASE scenes' = s /\ UNCHANGED <<floors, rooms>> /\ Persist
  <2>1. RoomsCarryTheirFloor'
    BY <1>1 DEF RoomsCarryTheirFloor
  <2> QED BY <1>1, <2>1, ChangedStep DEF KeptTyped
<1>2. CASE DiesSaving
  BY <1>2, DiesSavingStep
<1> QED BY <1>1, <1>2 DEF SetScenes

LEMMA ScenesWith ==
    ASSUME KeptTyped, NEW id \in 1..MaxScenes, NEW a \in SceneActions
    PROVE  With(scenes, id, a) \in ScenesOf
<1>1. PICK I \in SUBSET (1..MaxScenes) : scenes \in [I -> SceneActions]
  BY DEF KeptTyped, ScenesOf
<1>2. With(scenes, id, a) \in [I \cup {id} -> SceneActions] /\ I \cup {id} \in SUBSET (1..MaxScenes)
  BY <1>1 DEF With
<1> QED BY <1>2 DEF ScenesOf

LEMMA ScenesWithout ==
    ASSUME KeptTyped, NEW id PROVE Without(scenes, {id}) \in ScenesOf
<1>1. PICK I \in SUBSET (1..MaxScenes) : scenes \in [I -> SceneActions]
  BY DEF KeptTyped, ScenesOf
<1>2. Without(scenes, {id}) \in [I \ {id} -> SceneActions] /\ I \ {id} \in SUBSET (1..MaxScenes)
  BY <1>1 DEF Without
<1> QED BY <1>2 DEF ScenesOf

LEMMA CreateSceneStep ==
    ASSUME KeptTyped, RoomsCarryTheirFloor, NEW a \in SceneActions, CreateScene(a) PROVE KeptStep
<1>1. created' \in 1..MaxScenes
  BY UserConfigAssumption DEF CreateScene, KeptTyped
<1>2. With(scenes, created', a) \in ScenesOf
  BY <1>1, ScenesWith
<1> QED BY <1>1, <1>2, SetScenesStep DEF CreateScene

LEMMA UpdateSceneStep ==
    ASSUME KeptTyped, RoomsCarryTheirFloor, NEW id, NEW a \in SceneActions, UpdateScene(id, a)
    PROVE  KeptStep
<1>1. CASE id \in DOMAIN scenes
  <2>1. id \in 1..MaxScenes
    BY <1>1 DEF KeptTyped, ScenesOf
  <2>2. With(scenes, id, a) \in ScenesOf
    BY <2>1, ScenesWith
  <2>3. created' \in 0..MaxScenes /\ up /\ SetScenes(With(scenes, id, a))
    BY <1>1 DEF UpdateScene, KeptTyped
  <2> QED BY <2>2, <2>3, SetScenesStep
<1>2. CASE id \notin DOMAIN scenes
  BY <1>2, StillStep DEF UpdateScene, configVars
<1> QED BY <1>1, <1>2

LEMMA RemoveSceneStep ==
    ASSUME KeptTyped, RoomsCarryTheirFloor, NEW id, RemoveScene(id) PROVE KeptStep
<1>1. created' \in 0..MaxScenes /\ up /\ SetScenes(Without(scenes, {id}))
  BY DEF RemoveScene, KeptTyped
<1> QED BY <1>1, ScenesWithout, SetScenesStep

LEMMA RoomAppearsStep ==
    ASSUME KeptTyped, RoomsCarryTheirFloor, NEW z \in Zones, RoomAppears(z) PROVE KeptStep
<1>1. UNCHANGED <<Current, file, floors, scenes, created, up>>
  BY DEF RoomAppears, Current
<1>2. DOMAIN rooms' \subseteq Zones /\ RoomsCarryTheirFloor'
  BY DEF RoomAppears, With, RoomsCarryTheirFloor, KeptTyped
<1> QED BY <1>1, <1>2 DEF KeptStep, KeptTyped, Abstract

LEMMA DiesStep == ASSUME KeptTyped, Dies PROVE KeptStep
  BY DeathStep DEF Dies, KeptTyped

LEMMA BootStep == ASSUME KeptTyped, Boot PROVE KeptStep
<1>1. /\ Restored(file) \in Configs
      /\ Restored(file) = [floors |-> Restored(file).floors, scenes |-> Restored(file).scenes]
  BY RestoredTyped DEF KeptTyped
<1>2. Durable!Restart
  BY <1>1 DEF Boot, Loaded, Durable!Restart
<1>3. KeptTyped' /\ RoomsCarryTheirFloor'
  BY <1>1 DEF Boot, Loaded, KeptTyped, Configs, RoomsCarryTheirFloor
<1> QED BY <1>2, <1>3 DEF KeptStep, Abstract

-----------------------------------------------------------------------------
(* The editors.                                                              *)
LEMMA InitConfigInv == ConfigPageInit => ConfigInv /\ Durable!Init
<1> SUFFICES ASSUME ConfigPageInit PROVE ConfigInv /\ Durable!Init
  OBVIOUS
<1>1. file = Empty /\ Empty \in Configs
  <2>1. <<>> \in ScenesOf
    <3>1. <<>> \in [{} -> SceneActions] /\ {} \in SUBSET (1..MaxScenes)
      OBVIOUS
    <3> QED BY <3>1 DEF ScenesOf
  <2> QED BY <2>1 DEF ConfigPageInit, ConfigInit, Empty, Configs, FloorMap
<1>2. /\ Restored(file) \in Configs
      /\ Restored(file) = [floors |-> Restored(file).floors, scenes |-> Restored(file).scenes]
  BY <1>1, RestoredTyped
<1>3. KeptTyped /\ RoomsCarryTheirFloor
  BY <1>1, <1>2, UserConfigAssumption
  DEF ConfigPageInit, ConfigInit, KeptTyped, RoomsCarryTheirFloor, Configs
<1>4. FormsTyped
  BY DEF ConfigPageInit, FormsTyped, Blank, FloorMap, Entries, EmptyEntry, AllIn
<1>5. Durable!Init
  BY <1>1, <1>2 DEF Durable!Init, ConfigPageInit, ConfigInit
<1> QED BY <1>3, <1>4, <1>5 DEF ConfigInv

\* A step of the page alone.
LEMMA PageStep ==
    ASSUME ConfigInv, FormsTyped', UNCHANGED configVars PROVE FormsTyped' /\ KeptStep
  BY StillStep DEF ConfigInv

LEMMA FloorsEditorStep ==
    ASSUME ConfigInv,
           Open \/ Close \/ FloorsAnswered \/ FloorsUnanswered \/ FloorsLand \/ CancelFloors \/ SaveFloors
    PROVE  FormsTyped' /\ KeptStep
<1>1. FormsTyped /\ floors \in FloorMap /\ Blank \in FloorMap
  BY DEF ConfigInv, KeptTyped, Blank, FloorMap
<1>2. UNCHANGED configVars
  BY DEF Open, Close, FloorsAnswered, FloorsUnanswered, FloorsLand, CancelFloors, SaveFloors
<1>3. /\ floorsQ \in Entries(FloorMap) /\ floorsQ.data \in FloorMap \cup {NoData}
      /\ floorsQ.answer \in FloorMap \cup {NoData}
      /\ Answer(floorsQ, floors) \in Entries(FloorMap) /\ CancelFetch(floorsQ) \in Entries(FloorMap)
      /\ Land(floorsQ) \in Entries(FloorMap) /\ Mounted(floorsQ) \subseteq Entries(FloorMap)
  BY <1>1, FloorsEntry DEF FormsTyped
<1>4. FormsTyped'
  <2>1. CASE Open
    BY <1>1, <1>3, <2>1 DEF FormsTyped, Open, SceneVars
  <2>2. CASE Close
    BY <1>1, <2>2 DEF FormsTyped, Close
  <2>3. CASE FloorsAnswered \/ FloorsUnanswered
    BY <1>1, <1>3, <2>3 DEF FormsTyped, FloorsAnswered, FloorsUnanswered, SceneVars
  <2>4. CASE FloorsLand
    <3>1. floorsDraft' \in {floorsDraft, floorsQ.answer} /\ floorsQ.answer # NoData
      BY <2>4 DEF FloorsLand, Synced, Landing
    <3> QED BY <1>1, <1>3, <2>4, <3>1 DEF FormsTyped, FloorsLand, SceneVars
  <2>5. CASE CancelFloors
    BY <1>1, <1>3, <2>5 DEF FormsTyped, CancelFloors, SceneVars
  <2>6. CASE SaveFloors
    <3>1. [labels |-> floorsDraft, at |-> "sent"] \in FloorsSave
      BY <1>1 DEF FormsTyped, FloorsSave, Progress
    <3>2. AllIn(floorsSaves', FloorsSave)
      BY <1>1, <2>6, <3>1, AllInWith DEF SaveFloors, FormsTyped
    <3> QED BY <1>1, <2>6, <3>2 DEF FormsTyped, SaveFloors, SceneVars
  <2> QED BY <2>1, <2>2, <2>3, <2>4, <2>5, <2>6
<1> QED BY <1>2, <1>4, PageStep

LEMMA FloorsSaveStep ==
    ASSUME ConfigInv, NEW i \in DOMAIN floorsSaves, LoseFloors(i) \/ FloorsSaved(i) \/ FloorsFailed(i)
    PROVE  FormsTyped' /\ KeptStep
<1>1. FormsTyped /\ floorsSaves[i].labels \in FloorMap
  BY DEF ConfigInv, FormsTyped, AllIn, FloorsSave
<1>2. UNCHANGED configVars
  BY DEF LoseFloors, FloorsSaved, FloorsFailed
<1>3. AllIn(floorsSaves', FloorsSave)
  <2>1. "failed" \in Progress
    BY DEF Progress
  <2> QED BY <1>1, <2>1, ReachedIn, AllInWithout DEF FormsTyped, LoseFloors, FloorsSaved, FloorsFailed
<1>4. FormsTyped'
  <2>1. CASE LoseFloors(i) \/ FloorsFailed(i)
    BY <1>1, <1>3, <2>1 DEF FormsTyped, LoseFloors, FloorsFailed, SceneVars
  <2>2. CASE FloorsSaved(i)
    <3>1. floorsDraft' \in {floorsDraft, floorsSaves[i].labels}
      BY <2>2 DEF FloorsSaved, Synced
    <3>2. floorsQ' \in Entries(FloorMap)
      BY <1>1, <2>2, FloorsEntry DEF FloorsSaved, FormsTyped
    <3> QED BY <1>1, <1>3, <2>2, <3>1, <3>2 DEF FormsTyped, FloorsSaved, SceneVars
  <2> QED BY <2>1, <2>2
<1> QED BY <1>2, <1>4, PageStep

LEMMA TypeLabelStep ==
    ASSUME ConfigInv, NEW z \in Zones, NEW l \in Labels \cup {NoLabel}, TypeLabel(z, l)
    PROVE  FormsTyped' /\ KeptStep
<1>1. FormsTyped'
  BY DEF ConfigInv, FormsTyped, TypeLabel, SceneVars, FloorMap
<1> QED BY <1>1, PageStep DEF TypeLabel

LEMMA ServeFloorsStep ==
    ASSUME ConfigInv, NEW i \in DOMAIN floorsSaves, ServeFloors(i) PROVE FormsTyped' /\ KeptStep
<1>1. floorsSaves[i].labels \in FloorMap /\ SetFloors(floorsSaves[i].labels)
  BY DEF ConfigInv, FormsTyped, AllIn, FloorsSave, ServeFloors
<1>2. KeptStep
  BY <1>1, SetFloorsStep DEF ConfigInv
<1>3. At \in Progress
  BY DEF At, Progress
<1>4. AllIn(floorsSaves', FloorsSave)
  BY <1>3, ReachedIn DEF ConfigInv, FormsTyped, ServeFloors
<1>5. FormsTyped'
  BY <1>4 DEF ConfigInv, FormsTyped, ServeFloors, SceneVars
<1> QED BY <1>2, <1>5

LEMMA OpenFormStep ==
    ASSUME ConfigInv, NEW id \in DOMAIN scenes \cup {0}, OpenForm(id) PROVE FormsTyped' /\ KeptStep
<1>1. id # 0 => id \in Nat /\ scenes[id] \in SceneActions
  BY DEF ConfigInv, KeptTyped, ScenesOf
<1>2. form' \in Form
  BY <1>1, NewFormTyped, SceneToFormTyped DEF OpenForm
<1>3. FormsTyped'
  BY <1>2 DEF ConfigInv, FormsTyped, OpenForm, FloorVars
<1> QED BY <1>3, PageStep DEF OpenForm

LEMMA ScenesEditorStep ==
    ASSUME ConfigInv,
           \/ CloseForm \/ EditForm \/ SaveScene
           \/ \E i \in DOMAIN sceneSaves : LoseScene(i) \/ SceneSettles(i)
    PROVE  FormsTyped' /\ KeptStep
<1>1. UNCHANGED configVars
  BY DEF CloseForm, EditForm, SaveScene, LoseScene, SceneSettles
<1>2. FormsTyped'
  <2>1. CASE EditForm
    <3>1. form \in Form /\ form' \in FormAfterEdit
      BY <2>1 DEF ConfigInv, FormsTyped, EditForm
    <3>2. form' \in Form
      BY <3>1, EditFormTyped DEF ConfigInv
    <3> QED BY <2>1, <3>2 DEF ConfigInv, FormsTyped, EditForm, FloorVars
  <2>2. CASE CloseForm
    BY <2>2 DEF ConfigInv, FormsTyped, CloseForm, FloorVars
  <2>3. CASE SaveScene
    <3>1. [form |-> form, at |-> "sent"] \in SceneSave
      BY <2>3 DEF ConfigInv, FormsTyped, SaveScene, SceneSave, Progress
    <3>2. AllIn(sceneSaves', SceneSave)
      BY <2>3, <3>1, AllInWith DEF SaveScene, ConfigInv, FormsTyped
    <3> QED BY <2>3, <3>2 DEF ConfigInv, FormsTyped, SaveScene, FloorVars
  <2>4. ASSUME NEW i \in DOMAIN sceneSaves, LoseScene(i) \/ SceneSettles(i) PROVE FormsTyped'
    <3>1. "failed" \in Progress
      BY DEF Progress
    <3>2. AllIn(sceneSaves', SceneSave)
      BY <2>4, <3>1, ReachedIn, AllInWithout DEF ConfigInv, FormsTyped, LoseScene, SceneSettles
    <3> QED BY <2>4, <3>2 DEF ConfigInv, FormsTyped, LoseScene, SceneSettles, FloorVars
  <2> QED BY <2>1, <2>2, <2>3, <2>4
<1> QED BY <1>1, <1>2, PageStep

LEMMA ServeSceneStep ==
    ASSUME ConfigInv, NEW i \in DOMAIN sceneSaves, ServeScene(i) PROVE FormsTyped' /\ KeptStep
<1> DEFINE f == sceneSaves[i].form
<1>1. f \in Form
  BY DEF ConfigInv, FormsTyped, AllIn, SceneSave
<1>2. FormToPayload(f) \in SceneActions
  BY <1>1, FormToPayloadTyped
<1>3. \/ CreateScene(FormToPayload(f))
      \/ UpdateScene(f.id, FormToPayload(f))
  BY DEF ServeScene
<1>4. KeptStep
  BY <1>2, <1>3, CreateSceneStep, UpdateSceneStep DEF ConfigInv
<1>5. PICK at \in Progress : sceneSaves' = Reached(sceneSaves, i, at)
  BY DEF ServeScene, Progress
<1>6. AllIn(sceneSaves', SceneSave)
  BY <1>5, ReachedIn DEF ConfigInv, FormsTyped
<1>7. FormsTyped'
  BY <1>6 DEF ConfigInv, FormsTyped, ServeScene, FloorVars
<1> QED BY <1>4, <1>7

LEMMA BridgeDiesStep == ASSUME ConfigInv, BridgeDies PROVE FormsTyped' /\ KeptStep
<1>1. AllIn(floorsSaves', FloorsSave) /\ AllIn(sceneSaves', SceneSave)
  BY AllLostIn DEF BridgeDies, ConfigInv, FormsTyped
<1>2. FormsTyped'
  BY <1>1 DEF ConfigInv, FormsTyped, BridgeDies
<1> QED BY <1>2, DiesStep DEF BridgeDies, ConfigInv

LEMMA BridgeStepsStep == ASSUME ConfigInv, BridgeSteps PROVE FormsTyped' /\ KeptStep
<1>1. FormsTyped'
  BY DEF ConfigInv, FormsTyped, BridgeSteps, pageVars
<1> QED BY <1>1, RoomAppearsStep, RemoveSceneStep, BootStep DEF BridgeSteps, ConfigInv

\* Every step of the page and the bridge keeps the invariant and is one step of the
\* abstract value, or none.
LEMMA ConfigStep ==
    ConfigInv /\ [ConfigPageSteps]_configPageVars => ConfigInv' /\ Abstract
<1> SUFFICES ASSUME ConfigInv, [ConfigPageSteps]_configPageVars PROVE FormsTyped' /\ KeptStep
  BY DEF KeptStep, ConfigInv
<1>1. CASE UNCHANGED configPageVars
  <2>1. FormsTyped' /\ UNCHANGED configVars
    BY <1>1 DEF ConfigInv, FormsTyped, configPageVars, pageVars
  <2> QED BY <2>1, PageStep
<1>2. ASSUME NEW z \in Zones, NEW l \in Labels \cup {NoLabel}, TypeLabel(z, l)
      PROVE  FormsTyped' /\ KeptStep
  BY <1>2, TypeLabelStep
<1>3. ASSUME NEW id \in DOMAIN scenes \cup {0}, OpenForm(id) PROVE FormsTyped' /\ KeptStep
  BY <1>3, OpenFormStep
<1>4. ASSUME NEW i \in DOMAIN floorsSaves,
             ServeFloors(i) \/ LoseFloors(i) \/ FloorsSaved(i) \/ FloorsFailed(i)
      PROVE  FormsTyped' /\ KeptStep
  BY <1>4, ServeFloorsStep, FloorsSaveStep
<1>5. ASSUME NEW i \in DOMAIN sceneSaves, ServeScene(i) \/ LoseScene(i) \/ SceneSettles(i)
      PROVE  FormsTyped' /\ KeptStep
  BY <1>5, ServeSceneStep, ScenesEditorStep
<1>6. CASE BridgeDies \/ BridgeSteps
  BY <1>6, BridgeDiesStep, BridgeStepsStep
<1> QED
  BY <1>1, <1>2, <1>3, <1>4, <1>5, <1>6, FloorsEditorStep, ScenesEditorStep DEF ConfigPageSteps

LEMMA StepOfConfigPage == [Next]_editorVars => [ConfigPageSteps]_configPageVars
  BY DEF Next, editorVars

LEMMA AlwaysConfigInv == Spec => []ConfigInv /\ Durable!Init /\ [][Abstract]_<<Current, file, up>>
<1>1. Init => ConfigInv /\ Durable!Init
  BY InitConfigInv DEF Init
<1>2. ConfigInv /\ [Next]_editorVars => ConfigInv' /\ [Abstract]_<<Current, file, up>>
  BY StepOfConfigPage, ConfigStep
<1> QED BY <1>1, <1>2, PTL DEF Spec

-----------------------------------------------------------------------------
\* A room has the floor label of its zone, whether it appeared before or after the
\* edit, the save that failed or the restart (store.ts).
THEOREM LabelsReachTheRooms == Spec => []RoomsCarryTheirFloor
<1>1. ConfigInv => RoomsCarryTheirFloor
  BY DEF ConfigInv
<1> QED BY <1>1, AlwaysConfigInv, PTL

\* The bridge with its state file implements the durable value of DurableConfig: it
\* changes its settings only while it runs, every save is atomic, and a boot gives back
\* what the file holds, with the labels of ROOM_FLOORS where it has none
\* (persistent-state.ts, main.ts).
THEOREM ImplementsDurableConfig == Spec => SettingsAreDurable
<1>1. Abstract => Durable!Change \/ Durable!Die \/ Durable!Restart \/ UNCHANGED <<Current, file, up>>
  BY DEF Abstract
<1> QED BY <1>1, AlwaysConfigInv, PTL DEF SettingsAreDurable, Durable!Spec, Current

-----------------------------------------------------------------------------
(* Typed labels.                                                           *)

\* Labels are typed on the page only.
TypedOnPage == ~open => DOMAIN typed = {}

TypingInv == TypedOnPage /\ TypedLabelsStay

LEMMA TypeLabelKeepsTyping ==
    ASSUME FormsTyped, TypingInv, NEW z \in Zones, NEW l, TypeLabel(z, l)
    PROVE  TypingInv'
<1>1. open' /\ dirty' = TRUE
  BY DEF TypeLabel, TabVars
<1>2. ASSUME NEW y \in DOMAIN typed' PROVE floorsDraft'[y] = typed'[y]
  <2>1. DOMAIN typed' = DOMAIN typed \cup {z} /\ typed'[y] = IF y = z THEN l ELSE typed[y]
    BY <1>2 DEF TypeLabel, With
  <2>2. floorsDraft' = [floorsDraft EXCEPT ![z] = l] /\ DOMAIN floorsDraft = Zones
    BY DEF TypeLabel, FormsTyped, FloorMap
  <2>3. CASE y = z
    BY <2>1, <2>2, <2>3
  <2>4. CASE y # z
    BY <2>1, <2>2, <2>4, <1>2 DEF TypingInv, TypedLabelsStay
  <2> QED BY <2>3, <2>4
<1> QED BY <1>1, <1>2 DEF TypingInv, TypedOnPage, TypedLabelsStay

LEMMA TypingStep ==
    FormsTyped /\ TypingInv /\ [ConfigPageSteps]_configPageVars => TypingInv'
<1> SUFFICES ASSUME FormsTyped, TypingInv, [ConfigPageSteps]_configPageVars PROVE TypingInv'
  OBVIOUS
<1> USE DEF TypingInv, TypedOnPage, TypedLabelsStay
<1>1. CASE UNCHANGED <<open, typed, dirty, floorsDraft>>
  BY <1>1
<1>2. CASE typed' = <<>>
  BY <1>2
<1>3. CASE Open
  BY <1>3 DEF Open
<1>4. CASE FloorsLand
  <2>1. dirty => floorsDraft' = floorsDraft
    BY <1>4 DEF FloorsLand, Synced
  <2>2. UNCHANGED <<open, typed, dirty>>
    BY <1>4 DEF FloorsLand, TabVars
  <2> QED BY <2>1, <2>2
<1>5. ASSUME NEW z \in Zones, NEW l \in Labels \cup {NoLabel}, TypeLabel(z, l) PROVE TypingInv'
  BY <1>5, TypeLabelKeepsTyping
<1>6. CASE Close \/ CancelFloors
  BY <1>2, <1>6 DEF Close, CancelFloors
<1>7. ASSUME NEW i, FloorsSaved(i) PROVE TypingInv'
  <2>1. CASE Own(i)
    BY <1>2, <1>7, <2>1 DEF FloorsSaved, Own
  <2>2. CASE ~Own(i)
    <3>1. UNCHANGED <<open, typed>>
      BY <1>7, <2>2 DEF FloorsSaved, TabVars, Own
    <3>2. dirty' <=> dirty
      BY <1>7, <2>2, Zenon DEF FloorsSaved
    <3>3. dirty' => floorsDraft' = floorsDraft
      BY <1>7, Zenon DEF FloorsSaved, Synced
    <3> QED BY <3>1, <3>2, <3>3
  <2> QED BY <2>1, <2>2
<1>8. CASE \/ FloorsAnswered \/ FloorsUnanswered \/ SaveFloors
           \/ \E i \in DOMAIN floorsSaves : ServeFloors(i) \/ LoseFloors(i) \/ FloorsFailed(i)
  BY <1>1, <1>8 DEF FloorsAnswered, FloorsUnanswered, SaveFloors, ServeFloors, LoseFloors,
                    FloorsFailed, TabVars
<1>9. CASE \/ \E id \in DOMAIN scenes \cup {0} : OpenForm(id)
           \/ CloseForm \/ EditForm \/ SaveScene
           \/ \E i \in DOMAIN sceneSaves : ServeScene(i) \/ LoseScene(i) \/ SceneSettles(i)
  BY <1>1, <1>9 DEF OpenForm, CloseForm, EditForm, SaveScene, ServeScene, LoseScene, SceneSettles,
                    FloorVars, TabVars
<1>10. CASE BridgeDies \/ BridgeSteps
  BY <1>1, <1>10 DEF BridgeDies, BridgeSteps, pageVars, TabVars
<1>11. CASE UNCHANGED configPageVars
  BY <1>1, <1>11 DEF configPageVars, pageVars
<1> QED BY <1>3, <1>4, <1>5, <1>6, <1>7, <1>8, <1>9, <1>10, <1>11 DEF ConfigPageSteps

\* A label that was typed stays in its input until Cancel, the page is left or a save
\* of its own mount succeeds, whatever is fetched, refused, restarted, or saved by a
\* mount that is gone (FloorsAndScenes.tsx).
THEOREM TypingIsKept == Spec => []TypedLabelsStay
<1>1. Init => TypingInv
  BY DEF Init, ConfigPageInit, TypingInv, TypedOnPage, TypedLabelsStay
<1>2. ConfigInv /\ TypingInv /\ [Next]_editorVars => TypingInv'
  BY StepOfConfigPage, TypingStep DEF ConfigInv
<1>3. TypingInv => TypedLabelsStay
  BY DEF TypingInv
<1> QED BY <1>1, <1>2, <1>3, AlwaysConfigInv, PTL DEF Spec

-----------------------------------------------------------------------------
(* Scenes.                                                                 *)

\* What a mode and a setpoint chosen in the editor can be.
Chosen(s) == s[2] = NoSetpoint <=> ~WantsSetpoint(s[1])

\* What the actions a ask of room z.
Asks(a, z) ==
    IF "all" \in DOMAIN a THEN a["all"]
    ELSE IF z \in DOMAIN a THEN a[z] ELSE NoData

\* An action the editor can make.
Authored(a) ==
    /\ a \in SceneActions
    /\ \A t \in DOMAIN a : Chosen(a[t])
    /\ "all" \notin DOMAIN a => \A t \in DOMAIN a : a[t][1] # "skip"

LEMMA ChosenSet ==
    ASSUME NEW m, NEW sp \in Setpoints PROVE Chosen(Set(m, sp))
  BY UserConfigAssumption DEF Chosen, Set

\* The scenes the bridge has, in memory or on disk.
Kept == {scenes[id] : id \in DOMAIN scenes} \cup {file.scenes[id] : id \in DOMAIN file.scenes}

\* Every scene that is kept was made in the editor, and `meant` says what the form
\* showed.
ScenesMeant ==
    /\ Kept \subseteq DOMAIN meant
    /\ \A a \in DOMAIN meant : Authored(a) /\ meant[a] = [z \in Zones |-> Asks(a, z)]

LEMMA FormAuthors ==
    ASSUME NEW f \in Form
    PROVE  /\ Authored(FormToPayload(f))
           /\ \A z \in Zones : Meaning(f, z) = Asks(FormToPayload(f), z)
<1> DEFINE a == FormToPayload(f)
<1>1. a \in SceneActions
  BY FormToPayloadTyped
<1>2. CASE f.kind = "global"
  <2>1. DOMAIN a = {"all"} /\ a["all"] = Set(f.mode, f.setpoint)
    BY <1>2 DEF FormToPayload
  <2>2. Chosen(Set(f.mode, f.setpoint))
    BY ChosenSet DEF Form
  <2> HIDE DEF a
  <2>3. Authored(a)
    BY <1>1, <2>1, <2>2 DEF Authored
  <2>4. \A z \in Zones : Meaning(f, z) = Asks(a, z)
    BY <1>2, <2>1 DEF Meaning, Asks
  <2> QED BY <2>3, <2>4 DEF a
<1>3. CASE f.kind # "global"
  <2>1. PICK S \in SUBSET Zones : f.perRoom \in [S -> Modes \cup {"skip"}]
    BY DEF Form, PerRoom
  <2>2. DOMAIN a = Named(f) /\ \A z \in Named(f) : a[z] = Set(f.perRoom[z], RoomSetpoint(f, z))
    BY <1>3 DEF FormToPayload
  <2>3. "all" \notin Named(f)
    BY <2>1, UserConfigAssumption DEF Named
  <2>4. \A z \in Named(f) : Chosen(Set(f.perRoom[z], RoomSetpoint(f, z)))
    BY ChosenSet, RoomSetpointTyped
  <2>5. \A z \in Named(f) : Set(f.perRoom[z], RoomSetpoint(f, z))[1] # "skip"
    BY DEF Named, Set
  <2> HIDE DEF a
  <2>6. Authored(a)
    BY <1>1, <2>2, <2>3, <2>4, <2>5 DEF Authored
  <2>7. ASSUME NEW z \in Zones PROVE Meaning(f, z) = Asks(a, z)
    <3>1. CASE z \in Named(f)
      BY <1>3, <2>2, <2>3, <3>1 DEF Meaning, Asks, Named
    <3>2. CASE z \notin Named(f)
      BY <1>3, <2>2, <2>3, <3>2 DEF Meaning, Asks, Named
    <3> QED BY <3>1, <3>2
  <2> QED BY <2>6, <2>7 DEF a
<1> QED BY <1>2, <1>3

\* sceneToForm() and back.
LEMMA AuthoredComesBack ==
    ASSUME NEW a, Authored(a), NEW id \in Nat
    PROVE  FormToPayload(SceneToForm(id, a)) = a
<1>1. PICK T \in {{"all"}} \cup SUBSET Zones : a \in [T -> Setting]
  BY DEF Authored, SceneActions
<1>2. \A t \in T : /\ a[t] = <<a[t][1], a[t][2]>>
                   /\ a[t][1] \in Modes /\ a[t][2] \in Setpoints \cup {NoSetpoint}
  BY <1>1 DEF Setting
<1> DEFINE f == SceneToForm(id, a)
<1>3. CASE "all" \in DOMAIN a
  <2>1. T = {"all"}
    BY <1>1, <1>3, UserConfigAssumption
  <2>2. f.kind = "global" /\ f.mode = a["all"][1]
    BY <1>3 DEF SceneToForm, NewForm
  <2>3. a["all"][2] # NoSetpoint => f.setpoint = a["all"][2]
    BY <1>3 DEF SceneToForm, NewForm
  <2>4. Chosen(a["all"])
    BY <1>3 DEF Authored
  <2> HIDE DEF f
  <2>5. Set(f.mode, f.setpoint) = a["all"]
    BY <1>2, <2>1, <2>2, <2>3, <2>4 DEF Set, Chosen
  <2>6. FormToPayload(f) = [t \in {"all"} |-> a["all"]]
    BY <2>2, <2>5 DEF FormToPayload
  <2>7. FormToPayload(f) = a
    BY <1>1, <2>1, <2>6
  <2> QED BY <2>7 DEF f
<1>4. CASE "all" \notin DOMAIN a
  <2> DEFINE given == {z \in DOMAIN a : a[z][2] # NoSetpoint}
  <2>1. /\ f.kind = "perRoom"
        /\ f.perRoom = [z \in DOMAIN a |-> a[z][1]]
        /\ f.perRoomSetpoints = [z \in given |-> a[z][2]]
    BY <1>4 DEF SceneToForm, NewForm
  <2> HIDE DEF f
  <2>2. Named(f) = DOMAIN a
    <3>1. DOMAIN f.perRoom = DOMAIN a /\ \A z \in DOMAIN a : f.perRoom[z] = a[z][1]
      BY <2>1
    <3>2. \A z \in DOMAIN a : a[z][1] # "skip"
      BY <1>4 DEF Authored
    <3> QED BY <3>1, <3>2 DEF Named
  <2>3. ASSUME NEW z \in DOMAIN a PROVE Set(f.perRoom[z], RoomSetpoint(f, z)) = a[z]
    <3>1. f.perRoom[z] = a[z][1] /\ Chosen(a[z])
      BY <2>1 DEF Authored
    <3>2. a[z][2] # NoSetpoint => RoomSetpoint(f, z) = a[z][2]
      BY <2>1 DEF RoomSetpoint
    <3> QED BY <1>1, <1>2, <3>1, <3>2 DEF Set, Chosen
  <2>4. FormToPayload(f) = [z \in DOMAIN a |-> a[z]]
    BY <2>1, <2>2, <2>3 DEF FormToPayload
  <2>5. FormToPayload(f) = a
    BY <1>1, <2>4
  <2> QED BY <2>5 DEF f
<1> QED BY <1>3, <1>4

\* POST /api/v1/scenes/:id/apply.
LEMMA AuthoredCalls ==
    ASSUME NEW a, Authored(a), NEW z \in DOMAIN rooms
    PROVE  IF z \in DOMAIN CallsOf(a) THEN CallsOf(a)[z] = Asks(a, z) ELSE Asks(a, z) = NoData
<1>1. PICK T \in {{"all"}} \cup SUBSET Zones : a \in [T -> Setting]
  BY DEF Authored, SceneActions
<1>2. \A t \in DOMAIN a : /\ a[t] = <<a[t][1], a[t][2]>>
                          /\ (IF WantsSetpoint(a[t][1]) THEN a[t][2] ELSE NoSetpoint) = a[t][2]
  BY <1>1 DEF Setting, Authored, Chosen
<1>3. CASE "all" \in DOMAIN a
  <2>1. /\ DOMAIN CallsOf(a) = DOMAIN rooms
        /\ CallsOf(a)[z] = <<a["all"][1], IF WantsSetpoint(a["all"][1]) THEN a["all"][2] ELSE NoSetpoint>>
    BY <1>3 DEF CallsOf
  <2>2. Asks(a, z) = a["all"]
    BY <1>3 DEF Asks
  <2> QED BY <1>2, <1>3, <2>1, <2>2
<1>4. CASE "all" \notin DOMAIN a
  <2>1. DOMAIN CallsOf(a) = DOMAIN a \cap DOMAIN rooms
    BY <1>4 DEF CallsOf
  <2>2. CASE z \in DOMAIN a
    <3>1. CallsOf(a)[z] = <<a[z][1], IF WantsSetpoint(a[z][1]) THEN a[z][2] ELSE NoSetpoint>>
      BY <1>4, <2>2 DEF CallsOf
    <3>2. Asks(a, z) = a[z]
      BY <1>4, <2>2 DEF Asks
    <3> QED BY <1>2, <2>1, <2>2, <3>1, <3>2
  <2>3. CASE z \notin DOMAIN a
    BY <1>4, <2>1, <2>3 DEF Asks
  <2> QED BY <2>2, <2>3
<1> QED BY <1>3, <1>4

\* What a change of the scenes keeps.
LEMMA SetScenesKeeps ==
    ASSUME NEW s, SetScenes(s)
    PROVE  /\ Kept' \subseteq Kept \cup {s[id] : id \in DOMAIN s}
           /\ up' \in BOOLEAN
           /\ up' => scenes' = s
           /\ ~up' => Kept' = Kept
<1>1. CASE scenes' = s /\ UNCHANGED <<floors, rooms>> /\ Persist
  <2>1. up' = TRUE /\ (file' = file \/ file'.scenes = s)
    BY <1>1 DEF Persist
  <2> QED BY <1>1, <2>1 DEF Kept
<1>2. CASE DiesSaving
  BY <1>2 DEF DiesSaving, Torn, Kept
<1> QED BY <1>1, <1>2 DEF SetScenes

LEMMA WithKeeps ==
    ASSUME NEW id, NEW a
    PROVE  /\ {With(scenes, id, a)[i] : i \in DOMAIN With(scenes, id, a)} \subseteq Kept \cup {a}
           /\ id \in DOMAIN With(scenes, id, a)
  BY DEF With, Kept

\* The rest of the bridge makes no scene of its own.
LEMMA BridgeKeeps ==
    ASSUME KeptTyped,
           \/ \E m : SetFloors(m)
           \/ \E z \in Zones : RoomAppears(z)
           \/ \E id \in DOMAIN scenes : RemoveScene(id)
           \/ Boot \/ Dies
           \/ UNCHANGED configVars
    PROVE  Kept' \subseteq Kept
<1>1. ASSUME NEW m, SetFloors(m) PROVE Kept' \subseteq Kept
  <2>1. CASE UNCHANGED <<scenes, file>>
    BY <2>1 DEF Kept
  <2>2. CASE UNCHANGED scenes /\ Persist
    <3>1. file' = file \/ file'.scenes = scenes
      BY <2>2 DEF Persist
    <3> QED BY <2>2, <3>1 DEF Kept
  <2>3. CASE DiesSaving
    BY <2>3 DEF DiesSaving, Torn, Kept
  <2> QED BY <1>1, <2>1, <2>2, <2>3 DEF SetFloors
<1>2. ASSUME NEW id \in DOMAIN scenes, RemoveScene(id) PROVE Kept' \subseteq Kept
  <2> DEFINE s == Without(scenes, {id})
  <2>1. {s[i] : i \in DOMAIN s} \subseteq Kept
    BY DEF Without, Kept
  <2>2. SetScenes(s)
    BY <1>2 DEF RemoveScene
  <2> HIDE DEF s
  <2>3. Kept' \subseteq Kept \cup {s[i] : i \in DOMAIN s}
    BY <2>2, SetScenesKeeps
  <2> QED BY <2>1, <2>3
<1>3. CASE Boot
  <2>1. scenes' = file.scenes /\ file' = file
    BY <1>3 DEF Boot, Loaded, Restored, KeptTyped, Configs
  <2> QED BY <2>1 DEF Kept
<1>4. CASE Dies \/ UNCHANGED configVars \/ \E z \in Zones : RoomAppears(z)
  <2>1. UNCHANGED <<scenes, file>>
    BY <1>4 DEF Dies, configVars, RoomAppears
  <2> QED BY <2>1 DEF Kept
<1> QED BY <1>1, <1>2, <1>3, <1>4

\* A scene that is saved is one that the form says.
LEMMA SavedIsMeant ==
    ASSUME ScenesMeant, NEW f \in Form, NEW id,
           SetScenes(With(scenes, id, FormToPayload(f))),
           meant' = IF up' /\ id \in DOMAIN scenes'
                    THEN With(meant, FormToPayload(f), [z \in Zones |-> Meaning(f, z)]) ELSE meant
    PROVE  ScenesMeant'
<1> DEFINE a == FormToPayload(f)
           s == With(scenes, id, a)
           told == [z \in Zones |-> Meaning(f, z)]
<1>1. Authored(a) /\ told = [z \in Zones |-> Asks(a, z)]
  BY FormAuthors
<1>2. {s[i] : i \in DOMAIN s} \subseteq Kept \cup {a} /\ id \in DOMAIN s
  BY WithKeeps
<1> HIDE DEF s
<1>3. /\ Kept' \subseteq Kept \cup {s[i] : i \in DOMAIN s} /\ up' \in BOOLEAN
      /\ up' => scenes' = s
      /\ ~up' => Kept' = Kept
  BY SetScenesKeeps DEF s
<1> HIDE DEF a, told
<1>4. CASE up'
  <2>1. meant' = With(meant, a, told)
    BY <1>2, <1>3, <1>4 DEF a, told
  <2>2. DOMAIN meant' = DOMAIN meant \cup {a}
        /\ \A b \in DOMAIN meant' : meant'[b] = IF b = a THEN told ELSE meant[b]
    BY <2>1 DEF With
  <2>3. Kept' \subseteq DOMAIN meant'
    BY <1>2, <1>3, <2>2 DEF ScenesMeant
  <2>4. ASSUME NEW b \in DOMAIN meant' PROVE Authored(b) /\ meant'[b] = [z \in Zones |-> Asks(b, z)]
    BY <1>1, <2>2 DEF ScenesMeant
  <2> QED BY <2>3, <2>4 DEF ScenesMeant
<1>5. CASE ~up'
  BY <1>3, <1>5 DEF ScenesMeant
<1> QED BY <1>3, <1>4, <1>5

LEMMA ServeSceneMeans ==
    ASSUME ConfigInv, ScenesMeant, NEW i \in DOMAIN sceneSaves, ServeScene(i) PROVE ScenesMeant'
<1> DEFINE f == sceneSaves[i].form
           id == IF f.id = 0 THEN created + 1 ELSE f.id
           a == FormToPayload(f)
<1>1. f \in Form
  BY DEF ConfigInv, FormsTyped, AllIn, SceneSave
<1>2. /\ IF f.id = 0 THEN CreateScene(a) ELSE UpdateScene(id, a)
      /\ meant' = IF up' /\ id \in DOMAIN scenes'
                  THEN With(meant, a, [z \in Zones |-> Meaning(f, z)]) ELSE meant
  BY DEF ServeScene
<1>3. CASE SetScenes(With(scenes, id, a))
  BY <1>1, <1>2, <1>3, SavedIsMeant
<1>4. CASE id \notin DOMAIN scenes /\ UNCHANGED <<scenes, file>>
  <2>1. UNCHANGED <<meant, Kept>>
    BY <1>2, <1>4 DEF Kept
  <2> QED BY <2>1 DEF ScenesMeant
<1>5. \/ SetScenes(With(scenes, id, a))
      \/ id \notin DOMAIN scenes /\ UNCHANGED <<scenes, file>>
  BY <1>2 DEF CreateScene, UpdateScene
<1> QED BY <1>3, <1>4, <1>5

LEMMA MeantStep ==
    ConfigInv /\ ScenesMeant /\ [ConfigPageSteps]_configPageVars => ScenesMeant'
<1> SUFFICES ASSUME ConfigInv, ScenesMeant, [ConfigPageSteps]_configPageVars PROVE ScenesMeant'
  OBVIOUS
<1>1. CASE UNCHANGED meant /\ Kept' \subseteq Kept
  BY <1>1 DEF ScenesMeant
<1>2. CASE UNCHANGED <<meant, configVars>>
  BY <1>1, <1>2, BridgeKeeps DEF ConfigInv
<1>3. ASSUME NEW i \in DOMAIN floorsSaves, ServeFloors(i) PROVE ScenesMeant'
  BY <1>1, <1>3, BridgeKeeps DEF ServeFloors, SceneVars, ConfigInv
<1>4. ASSUME NEW i \in DOMAIN sceneSaves, ServeScene(i) PROVE ScenesMeant'
  BY <1>4, ServeSceneMeans
<1>5. CASE BridgeDies \/ BridgeSteps
  BY <1>1, <1>5, BridgeKeeps DEF BridgeDies, BridgeSteps, pageVars, ConfigInv
<1>6. CASE \/ Open \/ Close \/ FloorsAnswered \/ FloorsUnanswered \/ FloorsLand
           \/ CancelFloors \/ SaveFloors
  BY <1>2, <1>6 DEF Open, Close, FloorsAnswered, FloorsUnanswered, FloorsLand, CancelFloors,
                    SaveFloors, SceneVars
<1>7. CASE \/ \E z \in Zones, l \in Labels \cup {NoLabel} : TypeLabel(z, l)
           \/ \E i \in DOMAIN floorsSaves : LoseFloors(i) \/ FloorsSaved(i) \/ FloorsFailed(i)
  BY <1>2, <1>7 DEF TypeLabel, LoseFloors, FloorsSaved, FloorsFailed, SceneVars
<1>8. CASE \/ \E id \in DOMAIN scenes \cup {0} : OpenForm(id)
           \/ CloseForm \/ EditForm \/ SaveScene
           \/ \E i \in DOMAIN sceneSaves : LoseScene(i) \/ SceneSettles(i)
  BY <1>2, <1>8 DEF OpenForm, CloseForm, EditForm, SaveScene, LoseScene, SceneSettles
<1>9. CASE UNCHANGED configPageVars
  BY <1>2, <1>9 DEF configPageVars, pageVars
<1> QED BY <1>3, <1>4, <1>5, <1>6, <1>7, <1>8, <1>9 DEF ConfigPageSteps

LEMMA AlwaysMeant == Spec => [](ConfigInv /\ ScenesMeant)
<1>1. Init => ScenesMeant
  BY DEF Init, ConfigPageInit, ConfigInit, Empty, Restored, ScenesMeant, Kept
<1>2. ConfigInv /\ ScenesMeant /\ [Next]_editorVars => ScenesMeant'
  BY StepOfConfigPage, MeantStep
<1> QED BY <1>1, <1>2, AlwaysConfigInv, PTL DEF Spec

\* Opening a scene in the editor and saving it again does not change it, also one
\* that was loaded from the state file (FloorsAndScenes.tsx).
THEOREM EditorLosesNothing == Spec => []EditingIsLossless
<1>1. ConfigInv /\ ScenesMeant => EditingIsLossless
  <2> SUFFICES ASSUME ConfigInv, ScenesMeant, NEW id \in DOMAIN scenes
               PROVE  FormToPayload(SceneToForm(id, scenes[id])) = scenes[id]
    BY DEF EditingIsLossless
  <2>1. Authored(scenes[id])
    BY DEF ScenesMeant, Kept
  <2>2. id \in Nat
    BY DEF ConfigInv, KeptTyped, ScenesOf
  <2> QED BY <2>1, <2>2, AuthoredComesBack
<1> QED BY <1>1, AlwaysMeant, PTL

\* A scene asks of every room what its form showed when it was saved, whatever
\* rooms the bridge knows by now and however often it was restarted (scenes.ts).
THEOREM ScenesDoAsShown == Spec => []AppliedAsAuthored
<1>1. ConfigInv /\ ScenesMeant => AppliedAsAuthored
  <2> SUFFICES ASSUME ConfigInv, ScenesMeant, NEW id \in DOMAIN scenes, NEW z \in DOMAIN rooms
               PROVE  IF z \in DOMAIN CallsOf(scenes[id])
                      THEN CallsOf(scenes[id])[z] = meant[scenes[id]][z]
                      ELSE meant[scenes[id]][z] = NoData
    BY DEF AppliedAsAuthored
  <2> DEFINE a == scenes[id]
  <2>1. Authored(a) /\ meant[a] = [y \in Zones |-> Asks(a, y)]
    BY DEF ScenesMeant, Kept
  <2>2. z \in Zones
    BY DEF ConfigInv, KeptTyped
  <2> HIDE DEF a
  <2>3. meant[a][z] = Asks(a, z)
    BY <2>1, <2>2
  <2>4. IF z \in DOMAIN CallsOf(a) THEN CallsOf(a)[z] = Asks(a, z) ELSE Asks(a, z) = NoData
    BY <2>1, AuthoredCalls
  <2> QED BY <2>3, <2>4 DEF a
<1> QED BY <1>1, AlwaysMeant, PTL
=============================================================================
