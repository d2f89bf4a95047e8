----------------------------- MODULE ConfigPage -----------------------------
(***************************************************************************)
(* The floors and scenes editors of the web application                    *)
(* (apps/web/src/features/system/FloorsAndScenes.tsx) in front of the      *)
(* bridge that keeps both (UserConfig).                                    *)
(*                                                                         *)
(* The editors keep their state in React: leaving the System tab drops it, *)
(* coming back is a new mount.  The Save button waits for the save of its  *)
(* own mount only, and a save that outlives its mount settles into a page  *)
(* that is gone: it reaches the query cache and no editor.  A delete       *)
(* leaves no state in the page and is carried out at once.                 *)
(***************************************************************************)
EXTENDS UserConfig, WebQuery

CONSTANTS
    DefaultSetpoint,   \* DEFAULT_SCENE_SETPOINT
    MaxActs,          \* bound: labels typed, scene forms opened and changes made in them
    MaxMounts         \* bound: mounts of the tab that are open or have a save under way

ASSUME ConfigPageAssumption ==
    "normal" \in Modes /\ DefaultSetpoint \in Setpoints /\ MaxActs \in Nat /\ MaxMounts \in Nat \ {0}

VARIABLES
    open,        \* the System tab is mounted
    mount,       \* which mount is open, or was last
    floorsQ,     \* the query ["floors"], a cache entry of WebQuery
    floorsDraft, \* FloorsEditor: the labels in the inputs
    dirty,
    floorsSaves, \* mount -> its save under way: [labels, at]
    form,        \* ScenesEditor: the open form, or NoData
    sceneSaves,  \* mount -> its create or update under way: [form, at]
    acts,
    typed,       \* history: zone -> label typed and not saved, cancelled or left
    meant        \* history: actions saved -> room -> what the form showed for the room

pageVars == <<open, mount, floorsQ, floorsDraft, dirty, floorsSaves, form, sceneSaves, acts,
              typed, meant>>
configPageVars == <<configVars, pageVars>>

Blank == [z \in Zones |-> NoLabel]
TabVars == <<open, mount>>
SceneVars == <<form, sceneSaves, meant>>
FloorVars == <<floorsQ, floorsDraft, dirty, floorsSaves, typed>>

ConfigPageInit ==
    /\ ConfigInit
    /\ open = FALSE /\ mount = 1
    /\ floorsQ = EmptyEntry
    /\ floorsDraft = Blank /\ dirty = FALSE
    /\ floorsSaves = <<>>
    /\ form = NoData /\ sceneSaves = <<>>
    /\ acts = 0
    /\ typed = <<>> /\ meant = <<>>

Act == acts < MaxActs /\ acts' = acts + 1

\* Mutant of Own: the callback reaches whatever page is open.
OwnAny(i) == open

\* Mount i is the page the user looks at.
Own(i) == open /\ i = mount

\* Where a save under way has got to.  The answer of a process that died is lost.
At == IF up' THEN "ok" ELSE "failed"
Reached(save, i, at) == [save EXCEPT ![i].at = at]

-----------------------------------------------------------------------------
(* FloorsEditor.                                                             *)

\* Mutant of Synced: the server's labels always win.
SyncedAlways(data) == IF data = NoData THEN floorsDraft ELSE data

\* The effect on [floorsQ.data, dirty]: typed labels have priority.
Synced(data) == IF data = NoData \/ dirty' THEN floorsDraft ELSE data

\* The mounts of which nothing is left.
Fresh == 1..MaxMounts \ (DOMAIN floorsSaves \cup DOMAIN sceneSaves)

Open ==
    /\ ~open
    /\ open' = TRUE
    /\ mount' \in Fresh /\ \A i \in Fresh : mount' <= i
    /\ floorsQ' \in Mounted(floorsQ)
    /\ dirty' = FALSE
    /\ floorsDraft' = IF floorsQ.data = NoData THEN Blank ELSE floorsQ.data
    /\ UNCHANGED <<configVars, floorsSaves, acts, typed, SceneVars>>

Close ==
    /\ open
    /\ open' = FALSE
    /\ form' = NoData
    /\ floorsDraft' = Blank /\ dirty' = FALSE /\ typed' = <<>>
    /\ UNCHANGED <<configVars, mount, floorsQ, floorsSaves, acts, sceneSaves, meant>>

FloorsAnswered ==
    /\ Unanswered(floorsQ) /\ up
    /\ floorsQ' = Answer(floorsQ, floors)
    /\ UNCHANGED <<configVars, TabVars, floorsDraft, dirty, floorsSaves, acts, typed, SceneVars>>

\* Nobody answers, and the retry is not answered either.
FloorsUnanswered ==
    /\ Unanswered(floorsQ) /\ ~up
    /\ floorsQ' = CancelFetch(floorsQ)
    /\ UNCHANGED <<configVars, TabVars, floorsDraft, dirty, floorsSaves, acts, typed, SceneVars>>

FloorsLand ==
    /\ Landing(floorsQ)
    /\ floorsQ' = Land(floorsQ)
    /\ UNCHANGED dirty
    /\ floorsDraft' = IF open THEN Synced(floorsQ.answer) ELSE floorsDraft
    /\ UNCHANGED <<configVars, TabVars, floorsSaves, acts, typed, SceneVars>>

TypeLabel(z, l) ==
    /\ open /\ z \in DOMAIN rooms /\ l # floorsDraft[z]
    /\ Act
    /\ floorsDraft' = [floorsDraft EXCEPT ![z] = l]
    /\ dirty' = TRUE
    /\ typed' = With(typed, z, l)
    /\ UNCHANGED <<configVars, TabVars, floorsQ, floorsSaves, SceneVars>>

CancelFloors ==
    /\ open /\ dirty
    /\ floorsDraft' = IF floorsQ.data = NoData THEN Blank ELSE floorsQ.data
    /\ dirty' = FALSE
    /\ typed' = <<>>
    /\ UNCHANGED <<configVars, TabVars, floorsQ, floorsSaves, acts, SceneVars>>

SaveFloors ==
    /\ open /\ dirty /\ mount \notin DOMAIN floorsSaves
    /\ floorsSaves' = With(floorsSaves, mount, [labels |-> floorsDraft, at |-> "sent"])
    /\ UNCHANGED <<configVars, TabVars, floorsQ, floorsDraft, dirty, acts, typed, SceneVars>>

ServeFloors(i) ==
    /\ floorsSaves[i].at = "sent"
    /\ SetFloors(floorsSaves[i].labels)
    /\ floorsSaves' = Reached(floorsSaves, i, At)
    /\ UNCHANGED <<TabVars, floorsQ, floorsDraft, dirty, acts, typed, SceneVars>>

LoseFloors(i) ==
    /\ floorsSaves[i].at = "sent" /\ ~up
    /\ floorsSaves' = Reached(floorsSaves, i, "failed")
    /\ UNCHANGED <<configVars, TabVars, floorsQ, floorsDraft, dirty, acts, typed, SceneVars>>

\* onSuccess writes the answer into the cache; its setDirty(false) reaches the mount
\* that sent the save, whose effect then puts the answer into the inputs, over what
\* was typed while the save was under way.
FloorsSaved(i) ==
    /\ floorsSaves[i].at = "ok"
    /\ floorsSaves' = Without(floorsSaves, {i})
    /\ floorsQ' = SetData(floorsQ, floorsSaves[i].labels)
    /\ dirty' = (dirty /\ ~Own(i))
    /\ floorsDraft' = IF open THEN Synced(floorsSaves[i].labels) ELSE floorsDraft
    /\ typed' = IF open /\ i = mount THEN <<>> ELSE typed
    /\ UNCHANGED <<configVars, TabVars, acts, SceneVars>>

FloorsFailed(i) ==
    /\ floorsSaves[i].at = "failed"
    /\ floorsSaves' = Without(floorsSaves, {i})
    /\ UNCHANGED <<configVars, TabVars, floorsQ, floorsDraft, dirty, acts, typed, SceneVars>>

-----------------------------------------------------------------------------
(* ScenesEditor.                                                             *)
NewForm == [id |-> 0, kind |-> "global", mode |-> "normal", setpoint |-> DefaultSetpoint,
            perRoom |-> <<>>, perRoomSetpoints |-> <<>>]

\* Mutant of SceneToForm: the setpoints of the rooms are not taken over.
SceneToFormModes(id, a) ==
    IF "all" \in DOMAIN a
    THEN [NewForm EXCEPT !.id = id, !.mode = a["all"][1],
                         !.setpoint = IF a["all"][2] = NoSetpoint THEN @ ELSE a["all"][2]]
    ELSE [NewForm EXCEPT !.id = id, !.kind = "perRoom",
                         !.perRoom = [z \in DOMAIN a |-> a[z][1]]]

\* sceneToForm()
SceneToForm(id, a) ==
    IF "all" \in DOMAIN a
    THEN [NewForm EXCEPT !.id = id, !.mode = a["all"][1],
                         !.setpoint = IF a["all"][2] = NoSetpoint THEN @ ELSE a["all"][2]]
    ELSE LET given == {z \in DOMAIN a : a[z][2] # NoSetpoint}
         IN  [NewForm EXCEPT !.id = id, !.kind = "perRoom",
                             !.perRoom = [z \in DOMAIN a |-> a[z][1]],
                             !.perRoomSetpoints = [z \in given |-> a[z][2]]]

RoomSetpoint(f, z) ==
    IF z \in DOMAIN f.perRoomSetpoints THEN f.perRoomSetpoints[z] ELSE DefaultSetpoint

Set(mode, sp) == <<mode, IF WantsSetpoint(mode) THEN sp ELSE NoSetpoint>>

\* Mutant of Named: rooms in standby are left out too.
NamedHeated(f) == {z \in DOMAIN f.perRoom : f.perRoom[z] \notin {"skip", "standby"}}

\* formToPayload(): rooms to skip are left out.
Named(f) == {z \in DOMAIN f.perRoom : f.perRoom[z] # "skip"}

FormToPayload(f) ==
    IF f.kind = "global" THEN [t \in {"all"} |-> Set(f.mode, f.setpoint)]
    ELSE [z \in Named(f) |-> Set(f.perRoom[z], RoomSetpoint(f, z))]

\* What the form shows for a room, listed or not.
Meaning(f, z) ==
    IF f.kind = "global" THEN Set(f.mode, f.setpoint)
    ELSE IF z \notin DOMAIN f.perRoom \/ f.perRoom[z] = "skip" THEN NoData
    ELSE Set(f.perRoom[z], RoomSetpoint(f, z))

OpenForm(id) ==
    /\ open /\ (id = 0 => form = NoData)
    /\ Act
    /\ form' = IF id = 0 THEN NewForm ELSE SceneToForm(id, scenes[id])
    /\ UNCHANGED <<configVars, TabVars, FloorVars, sceneSaves, meant>>

CloseForm ==
    /\ form # NoData
    /\ form' = NoData
    /\ UNCHANGED <<configVars, TabVars, FloorVars, sceneSaves, acts, meant>>

\* switchKind(): a room without a mode of its own starts with the global one.
Switched ==
    IF form.kind = "perRoom" THEN [form EXCEPT !.kind = "global"]
    ELSE [form EXCEPT !.kind = "perRoom",
                      !.perRoom = [z \in DOMAIN rooms |-> IF z \in DOMAIN form.perRoom
                                                          THEN form.perRoom[z] ELSE form.mode]]

FormAfterEdit ==
    {Switched}
    \cup IF form.kind = "global"
         THEN {[form EXCEPT !.mode = m] : m \in Modes}
              \cup {[form EXCEPT !.setpoint = v] : v \in Setpoints}
         ELSE {[form EXCEPT !.perRoom = With(@, z, m)] : z \in DOMAIN rooms, m \in Modes \cup {"skip"}}
              \cup {[form EXCEPT !.perRoomSetpoints = With(@, z, v)] :
                       z \in {y \in DOMAIN rooms \cap Named(form) : WantsSetpoint(form.perRoom[y])},
                       v \in Setpoints}

EditForm ==
    /\ form # NoData
    /\ Act
    /\ form' \in FormAfterEdit \ {form}
    /\ UNCHANGED <<configVars, TabVars, FloorVars, sceneSaves, meant>>

\* MaxScenes bounds the creates that are sent.
MayCreate ==
    created + Cardinality({i \in DOMAIN sceneSaves : sceneSaves[i].form.id = 0 /\ sceneSaves[i].at = "sent"})
        < MaxScenes

SaveScene ==
    /\ form # NoData /\ mount \notin DOMAIN sceneSaves
    /\ form.id = 0 => MayCreate
    /\ sceneSaves' = With(sceneSaves, mount, [form |-> form, at |-> "sent"])
    /\ UNCHANGED <<configVars, TabVars, FloorVars, form, acts, meant>>

ServeScene(i) ==
    /\ sceneSaves[i].at = "sent"
    /\ LET f == sceneSaves[i].form
           id == IF f.id = 0 THEN created + 1 ELSE f.id
           found == id \in DOMAIN scenes'
       IN  /\ IF f.id = 0 THEN CreateScene(FormToPayload(f)) ELSE UpdateScene(id, FormToPayload(f))
           /\ sceneSaves' = Reached(sceneSaves, i, IF up' /\ found THEN "ok" ELSE "failed")
           /\ meant' = IF up' /\ found THEN With(meant, FormToPayload(f), [z \in Zones |-> Meaning(f, z)]) ELSE meant
    /\ UNCHANGED <<TabVars, FloorVars, form, acts>>

LoseScene(i) ==
    /\ sceneSaves[i].at = "sent" /\ ~up
    /\ sceneSaves' = Reached(sceneSaves, i, "failed")
    /\ UNCHANGED <<configVars, TabVars, FloorVars, form, acts, meant>>

\* onSuccess closes the form that is open by now on the mount that sent the save.
SceneSettles(i) ==
    /\ sceneSaves[i].at # "sent"
    /\ sceneSaves' = Without(sceneSaves, {i})
    /\ form' = IF sceneSaves[i].at = "ok" /\ Own(i) THEN NoData ELSE form
    /\ UNCHANGED <<configVars, TabVars, FloorVars, acts, meant>>

-----------------------------------------------------------------------------
\* A process that dies takes the answers with it that were not delivered, and the
\* scenes whose save had failed.
AllLost(saves) == [i \in DOMAIN saves |-> [saves[i] EXCEPT !.at = "failed"]]

BridgeDies ==
    /\ Dies
    /\ floorsSaves' = AllLost(floorsSaves) /\ sceneSaves' = AllLost(sceneSaves)
    /\ UNCHANGED <<TabVars, floorsQ, floorsDraft, dirty, form, acts, typed, meant>>

BridgeSteps ==
    /\ \/ \E z \in Zones : RoomAppears(z)
       \/ \E id \in DOMAIN scenes : RemoveScene(id)
       \/ Boot
    /\ UNCHANGED pageVars

ConfigPageSteps ==
    \/ Open \/ Close
    \/ FloorsAnswered \/ FloorsUnanswered \/ FloorsLand
    \/ \E z \in Zones, l \in Labels \cup {NoLabel} : TypeLabel(z, l)
    \/ CancelFloors \/ SaveFloors
    \/ \E i \in DOMAIN floorsSaves : ServeFloors(i) \/ LoseFloors(i) \/ FloorsSaved(i) \/ FloorsFailed(i)
    \/ \E id \in DOMAIN scenes \cup {0} : OpenForm(id)
    \/ CloseForm \/ EditForm \/ SaveScene
    \/ \E i \in DOMAIN sceneSaves : ServeScene(i) \/ LoseScene(i) \/ SceneSettles(i)
    \/ BridgeDies \/ BridgeSteps

-----------------------------------------------------------------------------
ConfigPageTypeOK ==
    /\ ConfigTypeOK
    /\ open \in BOOLEAN /\ mount \in 1..MaxMounts /\ dirty \in BOOLEAN
    /\ floorsQ \in Entries(FloorMap)
    /\ floorsDraft \in FloorMap
    /\ DOMAIN floorsSaves \subseteq 1..MaxMounts
    /\ \A i \in DOMAIN floorsSaves : floorsSaves[i].labels \in FloorMap
    /\ form # NoData => FormToPayload(form) \in SceneActions
    /\ DOMAIN sceneSaves \subseteq 1..MaxMounts
    /\ acts \in 0..MaxActs

\* "The user's in-progress edits take priority" (FloorsAndScenes.tsx): a label that was
\* typed stays in its input whatever is fetched, restarted, refused, or saved by a
\* mount that is gone, until Cancel, the page is left, or a save of its own mount
\* succeeds.  That success takes along what was typed while it was under way, which
\* the comment does not say: setDirty(false) does not ask what the save carried.
TypedLabelsStay == \A z \in DOMAIN typed : dirty /\ floorsDraft[z] = typed[z]

\* Opening a scene in the editor and saving it without a change does not change it,
\* for every scene the editor can make, of rooms that have gone included.
EditingIsLossless ==
    \A id \in DOMAIN scenes : FormToPayload(SceneToForm(id, scenes[id])) = scenes[id]

\* Whenever a scene is applied, it asks of every room the bridge knows what the form
\* showed for it when the scene was saved, and nothing of a room the form skipped
\* or did not list.
AppliedAsAuthored ==
    \A id \in DOMAIN scenes :
        LET calls == CallsOf(scenes[id])
        IN  \A z \in DOMAIN rooms :
                IF z \in DOMAIN calls THEN calls[z] = meant[scenes[id]][z]
                ELSE meant[scenes[id]][z] = NoData
=============================================================================
