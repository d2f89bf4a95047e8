--------------------------- MODULE RoomSync_proofs ---------------------------
(***************************************************************************)
(* Proofs about the room cache protocol, for any number of zones and calls *)
(* and any temperatures: type correctness, that a room never shows two     *)
(* setpoints, that a call waits for exactly one request, and what light    *)
(* switches, setpoint changes and a call alone leave at the controller.    *)
(***************************************************************************)
EXTENDS RoomSync, SequenceTheorems, FiniteSetTheorems, WellFoundedInduction, TLAPS

-----------------------------------------------------------------------------
(* Typing of the operators.                                                *)

LEMMA BlankRoomType == BlankRoom \in StoreRoom
BY DEF BlankRoom, StoreRoom, RoomMode, MaybeTemp

LEMMA OverlayType ==
    ASSUME NEW room \in StoreRoom, NEW from \in StoreRoom, NEW fs, NEW gs
    PROVE  Overlay(room, from, fs, gs) \in StoreRoom
BY DEF Overlay, StoreRoom

LEMMA WithSetpointType ==
    ASSUME NEW room \in StoreRoom, NEW v \in MaybeTemp
    PROVE  /\ WithSetpoint(room, v) \in StoreRoom
           /\ WithSetpoint(room, v).mode = room.mode
           /\ WithSetpoint(room, v).light = room.light
BY DEF WithSetpoint, StoreRoom, MaybeTemp

\* A room form is well formed when it has a temperature to carry.
LEMMA FormForType ==
    ASSUME NEW m \in RoomMode, NEW v \in Temps, NEW l \in BOOLEAN
    PROVE  FormFor(m, v, l) \in RoomForm
BY RoomSyncAssumption DEF FormFor, RoomForm, MaybeTemp

LEMMA SeasonOfType == ASSUME NEW m PROVE SeasonOf(m) \in Season
BY DEF SeasonOf, Season

\* The temperature a mode change or a light switch sends, when it sends one.
LEMMA SetpointToSend ==
    ASSUME NEW room \in StoreRoom, NEW m \in RoomMode
    PROVE  SlotForMode(room, m) \in MaybeTemp /\ LiveSetpoint(room) \in MaybeTemp
<1>1. /\ room.heating \in MaybeTemp /\ room.cooling \in MaybeTemp
      /\ room.slots \in [Slot -> MaybeTemp]
  BY DEF StoreRoom
<1>2. (IF m \in Slot THEN m ELSE "normal") \in Slot
  BY DEF Slot
<1>3. room.slots[IF m \in Slot THEN m ELSE "normal"] \in MaybeTemp
  BY <1>1, <1>2
<1> QED
  BY <1>1, <1>3 DEF SlotForMode, LiveSetpoint, OrElse

LEMMA FileRoomFormType ==
    ASSUME NEW room \in DeviceRoom, NEW form \in RoomForm
    PROVE  FileRoomForm(room, form) \in DeviceRoom
<1> DEFINE season == SeasonOf(devMode)
           row == IF form.mode \in {"normal", "reduced"}
                  THEN [room.slots[season] EXCEPT ![form.mode] = form.temp]
                  ELSE room.slots[season]
<1>1. season \in Season /\ room.slots \in SlotTable /\ room.flags \in SUBSET Flags
  BY SeasonOfType DEF DeviceRoom
<1>2. room.slots[season] \in [Slot -> Temps]
  BY <1>1 DEF SlotTable
<1>3. row \in [Slot -> Temps]
  <2>1. form.mode \in {"normal", "reduced"} => form.temp \in Temps
    BY DEF RoomForm, MaybeTemp
  <2> QED
    BY <1>2, <2>1
<1>4. [room.slots EXCEPT ![season] = row] \in SlotTable
  BY <1>1, <1>3 DEF SlotTable
<1>5. form.mode \in RoomMode /\ form.light \in BOOLEAN
  BY DEF RoomForm
<1>6. FileRoomForm(room, form) =
        [room EXCEPT !.mode = form.mode, !.light = form.light,
                     !.slots = [room.slots EXCEPT ![season] = row]]
  BY <1>1 DEF FileRoomForm, DeviceRoom
<1> QED
  BY <1>4, <1>5, <1>6 DEF DeviceRoom

LEMMA FileSetupFormType ==
    ASSUME NEW room \in DeviceRoom, NEW form \in SetupForm
    PROVE  FileSetupForm(room, form) \in DeviceRoom
BY DEF FileSetupForm, DeviceRoom, SetupForm

\* What a served request may be.
LEMMA ServedType ==
    ASSUME TypeOK, chain # <<>>
    PROVE  /\ Served \in Request
           /\ Served.zone \in Zones
           /\ Served.op \in ReadOp \cup FormOp
           /\ Served.op \in FormOp => Served.by \in Cmds
           /\ Served.op = "room-form" => Served.form \in RoomForm
           /\ Served.op = "setup-form" => Served.form \in SetupForm
           /\ Served.op = "system-form" => Served.form \in SystemForm
<1>1. Served \in Request
  BY HeadTailProperties DEF TypeOK, Served
<1> QED
  BY <1>1 DEF Request, ReadOp, FormOp

\* The controller's variables keep their types, whatever it obeys.
LEMMA ObeyedType ==
    ASSUME TypeOK, chain # <<>>, MaybeObeyed(Served)
    PROVE  devRoom' \in [Zones -> DeviceRoom] /\ devMode' \in SystemMode
<1>1. devRoom \in [Zones -> DeviceRoom] /\ devMode \in SystemMode
  BY DEF TypeOK
<1>2. CASE UNCHANGED <<devRoom, devMode>>
  BY <1>1, <1>2
<1>3. CASE Obeyed(Served)
  <2>1. devMode' \in SystemMode
    BY <1>1, <1>3, ServedType DEF Obeyed, SystemForm
  <2>2. CASE Served.op = "room-form"
    <3>1. FileRoomForm(devRoom[Served.zone], Served.form) \in DeviceRoom
      BY <1>1, <2>2, ServedType, FileRoomFormType
    <3>2. devRoom' = [devRoom EXCEPT ![Served.zone] =
                          FileRoomForm(devRoom[Served.zone], Served.form)]
      BY <1>1, <1>3, <2>2, ServedType DEF Obeyed
    <3> QED
      BY <1>1, <2>1, <3>1, <3>2
  <2>3. CASE Served.op = "setup-form"
    <3>1. FileSetupForm(devRoom[Served.zone], Served.form) \in DeviceRoom
      BY <1>1, <2>3, ServedType, FileSetupFormType
    <3>2. devRoom' = [devRoom EXCEPT ![Served.zone] =
                          FileSetupForm(devRoom[Served.zone], Served.form)]
      BY <1>1, <1>3, <2>3, ServedType DEF Obeyed
    <3> QED
      BY <1>1, <2>1, <3>1, <3>2
  <2>4. CASE Served.op \notin {"room-form", "setup-form"}
    BY <1>1, <1>3, <2>1, <2>4 DEF Obeyed
  <2> QED
    BY <2>2, <2>3, <2>4
<1> QED
  BY <1>2, <1>3 DEF MaybeObeyed

-----------------------------------------------------------------------------
(* Typing of the chain and of the calls.                                   *)

LEMMA ReadType ==
    ASSUME NEW op \in ReadOp, NEW z \in Zones, NEW who \in Timer..Boot
    PROVE  Read(op, z, who) \in Request
BY DEF Read, Request

LEMMA Waiters == Timer \in Timer..Boot /\ Boot \in Timer..Boot /\ Cmds \subseteq Timer..Boot
BY RoomSyncAssumption DEF Timer, Boot, Cmds

LEMMA ChainType ==
    ASSUME TypeOK, NEW req \in Request
    PROVE  /\ Enqueue(req) => chain' \in Seq(Request) /\ retried' \in BOOLEAN
           /\ chain # <<>> /\ SettleAndEnqueue(req)
                => chain' \in Seq(Request) /\ retried' \in BOOLEAN
<1>1. chain \in Seq(Request) /\ retried \in BOOLEAN
  BY DEF TypeOK
<1>2. ASSUME Enqueue(req) PROVE chain' \in Seq(Request) /\ retried' \in BOOLEAN
  BY <1>1, <1>2, AppendProperties DEF Enqueue
<1>3. ASSUME chain # <<>>, SettleAndEnqueue(req)
      PROVE  chain' \in Seq(Request) /\ retried' \in BOOLEAN
  <2>1. Tail(chain) \in Seq(Request)
    BY <1>1, <1>3, HeadTailProperties
  <2> QED
    BY <1>3, <2>1, AppendProperties DEF SettleAndEnqueue
<1> QED
  BY <1>2, <1>3

LEMMA SettleType ==
    ASSUME TypeOK, chain # <<>>, Settle
    PROVE  chain' \in Seq(Request) /\ retried' \in BOOLEAN
BY HeadTailProperties DEF TypeOK, Settle

LEMMA StateType ==
    ASSUME NEW c \in Cmds, NEW st \in CmdState, cmd \in [Cmds -> Command],
           cmd' = [cmd EXCEPT ![c].st = st]
    PROVE  cmd' \in [Cmds -> Command]
<1>1. [cmd[c] EXCEPT !.st = st] \in Command
  BY DEF Command
<1> QED
  BY <1>1

LEMMA ReturnedType ==
    ASSUME TypeOK, NEW c \in Cmds, NEW st \in CmdState, Returned(c, st)
    PROVE  cmd' \in [Cmds -> Command]
<1>1. cmd \in [Cmds -> Command]
  BY DEF TypeOK
<1>2. InitSysMode \in SystemMode
  BY DEF InitSysMode, SystemMode
<1>3. [cmd[c] EXCEPT !.st = st, !.prev = BlankRoom, !.sysPrev = InitSysMode] \in Command
  BY <1>1, <1>2, BlankRoomType DEF Command
<1> QED
  BY <1>1, <1>3 DEF Returned

LEMMA BootPageType == ASSUME NEW i \in 1..(2 * NZones) PROVE BootPage(i) \in Request
<1>1. (i + 1) \div 2 \in Zones
  BY RoomSyncAssumption DEF Zones
<1>2. (IF i % 2 = 1 THEN "detail" ELSE "setup") \in ReadOp
  BY DEF ReadOp
<1> QED
  BY <1>1, <1>2, Waiters, ReadType DEF BootPage

\* What follows a poll keeps the types of the chain, the calls and the boot.
LEMMA AfterPollType ==
    ASSUME TypeOK, chain # <<>>, NEW landed \in BOOLEAN, AfterPoll(landed)
    PROVE  /\ chain' \in Seq(Request) /\ retried' \in BOOLEAN
           /\ cmd' \in [Cmds -> Command]
           /\ boot' \in {"lead", "pause", "pages", "done"}
           /\ page' \in 0..(2 * NZones)
<1> USE RoomSyncAssumption
<1>t. /\ cmd \in [Cmds -> Command] /\ boot \in {"lead", "pause", "pages", "done"}
      /\ page \in 0..(2 * NZones)
  BY DEF TypeOK
<1>1. CASE Settle /\ UNCHANGED <<bootVars, cmd>>
  BY <1>t, <1>1, SettleType DEF bootVars
<1>2. CASE SettleAndEnqueue(Read("list", 1, Boot)) /\ UNCHANGED bootVars /\ UNCHANGED cmd
  <2>1. Read("list", 1, Boot) \in Request
    BY Waiters, ReadType DEF ReadOp, Zones
  <2> QED
    BY <1>t, <1>2, <2>1, ChainType DEF bootVars
<1>3. CASE Settle /\ boot' \in {"pause", "done"} /\ UNCHANGED page /\ UNCHANGED cmd
  BY <1>t, <1>3, SettleType
<1>4. CASE /\ page < 2 * NZones /\ SettleAndEnqueue(BootPage(page + 1))
           /\ page' = page + 1 /\ UNCHANGED boot /\ UNCHANGED cmd
  <2>1. page + 1 \in 1..(2 * NZones)
    BY <1>t, <1>4
  <2>2. BootPage(page + 1) \in Request
    BY <2>1, BootPageType
  <2> QED
    BY <1>t, <1>4, <2>1, <2>2, ChainType
<1>5. CASE /\ Settle /\ Served.by \in Cmds /\ UNCHANGED bootVars
           /\ Returned(Served.by, IF landed THEN "ok" ELSE "unrefreshed")
  <2>1. (IF landed THEN "ok" ELSE "unrefreshed") \in CmdState
    BY DEF CmdState
  <2>2. cmd' \in [Cmds -> Command]
    BY <1>5, <2>1, ReturnedType
  <2> QED
    BY <1>t, <1>5, <2>2, SettleType DEF bootVars
<1> QED
  BY <1>1, <1>2, <1>3, <1>4, <1>5 DEF AfterPoll

\* optimistic() keeps the types of what it changes, given a typed new room and
\* a typed request.
LEMMA OptimisticType ==
    ASSUME TypeOK, NEW c \in Cmds, NEW kind \in CmdKind, NEW z \in Zones,
           NEW next \in StoreRoom, NEW fields \in SUBSET RoomField,
           NEW boxes \in SUBSET Flags, NEW req \in Request,
           Optimistic(c, kind, z, next, fields, boxes, req)
    PROVE  TypeOK'
<1>t. /\ cmd \in [Cmds -> Command] /\ store \in [Zones -> StoreRoom]
      /\ store[z] \in StoreRoom
  BY DEF TypeOK
<1>1. chain' \in Seq(Request) /\ retried' \in BOOLEAN
  BY ChainType DEF Optimistic
<1>2. store' \in [Zones -> StoreRoom]
  <2>1. Overlay(store[z], next, fields, boxes) \in StoreRoom
    BY <1>t, OverlayType
  <2>2. store' = [store EXCEPT ![z] = Overlay(store[z], next, fields, boxes)]
    BY <1>t DEF Optimistic
  <2> QED
    BY <1>t, <2>1, <2>2
<1>3. cmd' \in [Cmds -> Command]
  <2> DEFINE st == IF kind = "flags" THEN "reading" ELSE "writing"
             new == Part(next, fields, boxes)
             old == Part(store[z], fields, boxes)
             saw == Seen(store[z])
  <2>1. st \in CmdState /\ saw \in BOOLEAN
    BY DEF CmdState, Seen
  <2>2. new \in StoreRoom /\ old \in StoreRoom
    BY <1>t, BlankRoomType, OverlayType DEF Part
  <2>3. cmd' = [cmd EXCEPT ![c] =
           [cmd[c] EXCEPT !.st = st, !.kind = kind, !.zone = z, !.fields = fields,
                          !.boxes = boxes, !.next = new, !.prev = old, !.seen = saw]]
    BY <1>t DEF Optimistic
  <2> HIDE DEF st, new, old, saw
  <2>4. [cmd[c] EXCEPT !.st = st, !.kind = kind, !.zone = z, !.fields = fields,
                       !.boxes = boxes, !.next = new, !.prev = old, !.seen = saw] \in Command
    BY <1>t, <2>1, <2>2 DEF Command
  <2> QED
    BY <1>t, <2>3, <2>4
<1>4. UNCHANGED <<deviceVars, bootVars, listed, rrIndex, sysMode>>
  BY DEF Optimistic, Arrives
<1> QED
  BY <1>1, <1>2, <1>3, <1>4 DEF TypeOK, deviceVars, bootVars

LEMMA RefusedType ==
    ASSUME TypeOK, NEW c \in Cmds, NEW kind \in CmdKind, NEW z \in Zones, Refused(c, kind, z)
    PROVE  TypeOK'
<1>t. cmd \in [Cmds -> Command]
  BY DEF TypeOK
<1>1. cmd' \in [Cmds -> Command]
  <2>1. [cmd[c] EXCEPT !.st = "refused", !.kind = kind, !.zone = z] \in Command
    BY <1>t DEF Command, CmdState
  <2>2. cmd' = [cmd EXCEPT ![c] = [cmd[c] EXCEPT !.st = "refused", !.kind = kind, !.zone = z]]
    BY <1>t DEF Refused
  <2> QED
    BY <1>t, <2>1, <2>2
<1>2. UNCHANGED <<deviceVars, bootVars, clientVars, listed, rrIndex, store, sysMode>>
  BY DEF Refused, Arrives
<1> QED
  BY <1>1, <1>2 DEF TypeOK, deviceVars, bootVars, clientVars

LEMMA WriteModeType ==
    ASSUME TypeOK, NEW c \in Cmds, NEW kind \in CmdKind, NEW z \in Zones,
           NEW m \in RoomMode, NEW v \in Temps, WriteMode(c, kind, z, m, v)
    PROVE  TypeOK'
<1> DEFINE next == WithSetpoint([store[z] EXCEPT !.mode = m], v)
           req == Post("room-form", z, c, FormFor(m, v, store[z].light))
<1>1. store[z] \in StoreRoom /\ store[z].light \in BOOLEAN
  BY DEF TypeOK, StoreRoom
<1>2. [store[z] EXCEPT !.mode = m] \in StoreRoom
  BY <1>1 DEF StoreRoom
<1>3. next \in StoreRoom
  BY <1>2, WithSetpointType DEF MaybeTemp
<1>4. req \in Request
  BY <1>1, FormForType DEF Post, Request
<1>5. {"mode", "heating", "cooling"} \in SUBSET RoomField /\ {} \in SUBSET Flags
  BY DEF RoomField
<1>6. Optimistic(c, kind, z, next, {"mode", "heating", "cooling"}, {}, req)
  BY DEF WriteMode
<1> HIDE DEF next, req
<1> QED
  BY <1>3, <1>4, <1>5, <1>6, OptimisticType

LEMMA IssueType == ASSUME TypeOK, NEW c \in Cmds, Issue(c) PROVE TypeOK'
<1> USE RoomSyncAssumption
<1>t. \A z \in Zones : /\ store[z] \in StoreRoom
                       /\ store[z].mode \in RoomMode /\ store[z].light \in BOOLEAN
  BY DEF TypeOK, StoreRoom
<1>1. ASSUME NEW z \in Zones, NEW v \in Temps, SetRoomSetpoint(c, z, v) PROVE TypeOK'
  <2> DEFINE next == WithSetpoint(store[z], v)
             req == Post("room-form", z, c, FormFor(store[z].mode, v, store[z].light))
  <2>1. next \in StoreRoom
    BY <1>t, WithSetpointType DEF MaybeTemp
  <2>2. req \in Request
    BY <1>t, FormForType DEF Post, Request
  <2>3. Optimistic(c, "setpoint", z, next, {"heating", "cooling"}, {}, req)
    BY <1>1 DEF SetRoomSetpoint
  <2> HIDE DEF next, req
  <2> QED
    BY <2>1, <2>2, <2>3, OptimisticType DEF CmdKind, RoomField
<1>2. ASSUME NEW z \in Zones, NEW m \in UserModes, SetRoomMode(c, z, m) PROVE TypeOK'
  <2> DEFINE v == SlotForMode(store[z], m)
  <2>1. v \in MaybeTemp
    BY <1>t, SetpointToSend
  <2>2. CASE v = Null
    BY <1>2, <2>2, RefusedType DEF SetRoomMode, CmdKind
  <2>3. CASE v # Null
    <3>1. v \in Temps /\ WriteMode(c, "mode", z, m, v)
      BY <1>2, <2>1, <2>3 DEF SetRoomMode, MaybeTemp
    <3> QED
      BY <3>1, WriteModeType DEF CmdKind
  <2> QED
    BY <2>2, <2>3
<1>3. ASSUME NEW z \in Zones, NEW m \in UserModes, NEW v \in Temps, SetRoomModeAt(c, z, m, v)
      PROVE  TypeOK'
  BY <1>3, WriteModeType DEF SetRoomModeAt, CmdKind
<1>4. ASSUME NEW z \in Zones, NEW l \in BOOLEAN, SetRoomLight(c, z, l) PROVE TypeOK'
  <2> DEFINE v == LiveSetpoint(store[z])
             next == [store[z] EXCEPT !.light = l]
             req == Post("room-form", z, c, FormFor(store[z].mode, v, l))
  <2>1. v \in MaybeTemp
    BY <1>t, SetpointToSend
  <2>2. CASE v = Null
    BY <1>4, <2>2, RefusedType DEF SetRoomLight, CmdKind
  <2>3. CASE v # Null
    <3>1. next \in StoreRoom
      BY <1>t DEF StoreRoom
    <3>2. req \in Request
      BY <1>t, <2>1, <2>3, FormForType DEF Post, Request, MaybeTemp
    <3>3. Optimistic(c, "light", z, next, {"light"}, {}, req)
      BY <1>4, <2>3 DEF SetRoomLight
    <3> HIDE DEF next, req
    <3> QED
      BY <3>1, <3>2, <3>3, OptimisticType DEF CmdKind, RoomField
  <2> QED
    BY <2>2, <2>3
<1>5. ASSUME NEW z \in Zones, NEW boxes \in SUBSET Flags, NEW on \in SUBSET boxes,
             SetRoomFlags(c, z, boxes, on)
      PROVE  TypeOK'
  <2> DEFINE next == [store[z] EXCEPT !.flags = on]
             req == Read("setup", z, c)
  <2>1. next \in StoreRoom
    BY <1>t DEF StoreRoom
  <2>2. req \in Request
    BY Waiters, ReadType DEF ReadOp
  <2>3. Optimistic(c, "flags", z, next, {}, boxes, req)
    BY <1>5 DEF SetRoomFlags
  <2> HIDE DEF next, req
  <2> QED
    BY <2>1, <2>2, <2>3, OptimisticType DEF CmdKind
<1>6. ASSUME NEW m \in UserSysModes, SetOperatingMode(c, m) PROVE TypeOK'
  <2> DEFINE req == Post("system-form", 1, c, [sys |-> m])
  <2>1. m \in SystemMode /\ 1 \in Zones /\ cmd \in [Cmds -> Command] /\ sysMode \in SystemMode
    BY DEF TypeOK, Zones
  <2>2. req \in Request
    BY <2>1 DEF Post, Request, SystemForm
  <2>3. chain' \in Seq(Request) /\ retried' \in BOOLEAN
    BY <1>6, <2>2, ChainType DEF SetOperatingMode
  <2>4. [cmd[c] EXCEPT !.st = "writing", !.kind = "system",
                       !.sysNext = m, !.sysPrev = sysMode] \in Command
    <3>1. cmd[c] \in Command
      BY <2>1
    <3>2. "writing" \in CmdState /\ "system" \in CmdKind
      BY DEF CmdState, CmdKind
    <3> DEFINE e == [cmd[c] EXCEPT !.st = "writing", !.kind = "system"]
    <3>3. e \in Command
      BY <3>1, <3>2 DEF Command
    <3>4. [e EXCEPT !.sysNext = m, !.sysPrev = sysMode] \in Command
      <4> HIDE DEF e
      <4> QED BY <2>1, <3>3 DEF Command
    <3> QED BY <3>4
  <2>5. cmd' \in [Cmds -> Command]
    <3>1. cmd' = [cmd EXCEPT ![c] = [@ EXCEPT !.st = "writing", !.kind = "system",
                                             !.sysNext = m, !.sysPrev = sysMode]]
      BY <1>6 DEF SetOperatingMode
    <3> DEFINE next == [cmd[c] EXCEPT !.st = "writing", !.kind = "system",
                                     !.sysNext = m, !.sysPrev = sysMode]
    <3>2. cmd' = [cmd EXCEPT ![c] = next] /\ next \in Command
      BY <2>4, <3>1
    <3> HIDE DEF next
    <3> QED BY <2>1, <3>2
  <2>6. UNCHANGED <<deviceVars, bootVars, listed, rrIndex, store>> /\ sysMode' = m
    BY <1>6 DEF SetOperatingMode, Arrives
  <2> QED
    BY <2>1, <2>3, <2>5, <2>6 DEF TypeOK, deviceVars, bootVars
<1> QED
  BY <1>1, <1>2, <1>3, <1>4, <1>5, <1>6 DEF Issue

LEMMA TimerType ==
    ASSUME TypeOK, NEW op \in ReadOp, NEW z \in Zones, TimerFires(op, z),
           rrIndex' \in 0..(NZones - 1)
    PROVE  TypeOK'
<1>1. Read(op, z, Timer) \in Request
  BY Waiters, ReadType
<1>2. chain' \in Seq(Request) /\ retried' \in BOOLEAN
  BY <1>1, ChainType DEF TimerFires
<1>3. UNCHANGED <<deviceVars, storeVars, bootVars, cmd>>
  BY DEF TimerFires
<1> QED
  BY <1>2, <1>3 DEF TypeOK, deviceVars, storeVars, bootVars

\* The answer to a poll: the Store keeps its types if the page did.
LEMMA PollType ==
    ASSUME TypeOK, NEW op, Polling(op), NEW landed \in BOOLEAN, AfterPoll(landed),
           store' \in [Zones -> StoreRoom], listed' \in BOOLEAN, sysMode' \in SystemMode
    PROVE  TypeOK'
<1>1. chain # <<>> /\ UNCHANGED <<deviceVars, rrIndex>>
  BY DEF Polling
<1>2. /\ chain' \in Seq(Request) /\ retried' \in BOOLEAN
      /\ cmd' \in [Cmds -> Command]
      /\ boot' \in {"lead", "pause", "pages", "done"}
      /\ page' \in 0..(2 * NZones)
  BY <1>1, AfterPollType
<1> QED
  BY <1>1, <1>2 DEF TypeOK, deviceVars

LEMMA DetailLandsType == ASSUME TypeOK, DetailLands PROVE TypeOK'
<1> DEFINE z == Served.zone
           shown == devRoom[z].slots[SeasonOf(devMode)]
           seenRoom == [store[z] EXCEPT !.mode = devRoom[z].mode,
                                        !.light = devRoom[z].light, !.slots = shown]
<1>1. chain # <<>> /\ z \in Zones
  BY ServedType DEF DetailLands, Polling
<1>2. devRoom[z] \in DeviceRoom /\ store \in [Zones -> StoreRoom] /\ store[z] \in StoreRoom
  BY <1>1 DEF TypeOK
<1>3. shown \in [Slot -> Temps]
  BY <1>2, SeasonOfType DEF DeviceRoom, SlotTable
<1>4. seenRoom \in StoreRoom
  <2>1. shown \in [Slot -> MaybeTemp]
    BY <1>3 DEF MaybeTemp
  <2>2. devRoom[z].mode \in RoomMode /\ devRoom[z].light \in BOOLEAN
    BY <1>2 DEF DeviceRoom
  <2> HIDE DEF shown
  <2> QED
    BY <1>2, <2>1, <2>2 DEF StoreRoom
<1>5. PICK s \in ActiveSlots(devRoom[z].mode) :
         store' = [store EXCEPT ![z] = WithSetpoint(seenRoom, shown[s])]
  BY <1>2 DEF DetailLands, DetailPage
<1>6. shown[s] \in MaybeTemp
  BY <1>3 DEF ActiveSlots, Slot, MaybeTemp
<1>7. store' \in [Zones -> StoreRoom]
  <2>1. WithSetpoint(seenRoom, shown[s]) \in StoreRoom
    BY <1>4, <1>6, WithSetpointType
  <2> HIDE DEF seenRoom, shown, z
  <2> QED
    BY <1>1, <1>2, <1>5, <2>1
<1>8. UNCHANGED <<listed, sysMode>> /\ Polling("detail") /\ AfterPoll(TRUE)
  BY DEF DetailLands
<1>9. listed' \in BOOLEAN /\ sysMode' \in SystemMode
  BY <1>8 DEF TypeOK
<1> QED
  BY <1>7, <1>8, <1>9, PollType

LEMMA SetupLandsType == ASSUME TypeOK, SetupLands PROVE TypeOK'
<1>1. Served.zone \in Zones /\ store \in [Zones -> StoreRoom]
  BY ServedType DEF SetupLands, Polling, TypeOK
<1>2. devRoom[Served.zone].flags \in SUBSET Flags
  BY <1>1 DEF TypeOK, DeviceRoom
<1>3. [store[Served.zone] EXCEPT !.flags = devRoom[Served.zone].flags] \in StoreRoom
  BY <1>1, <1>2 DEF StoreRoom
<1>4. store' \in [Zones -> StoreRoom]
  BY <1>1, <1>3 DEF SetupLands, SetupPage
<1>5. UNCHANGED <<listed, sysMode>> /\ Polling("setup") /\ AfterPoll(TRUE)
  BY DEF SetupLands
<1>6. listed' \in BOOLEAN /\ sysMode' \in SystemMode
  BY <1>5 DEF TypeOK
<1> QED
  BY <1>4, <1>5, <1>6, PollType

LEMMA PollLandsType == ASSUME TypeOK, PollLands \/ PollFails PROVE TypeOK'
<1>t. store \in [Zones -> StoreRoom] /\ listed \in BOOLEAN
      /\ sysMode \in SystemMode /\ devMode \in SystemMode
  BY DEF TypeOK
<1>1. CASE DashboardLands
  BY <1>t, <1>1, PollType DEF DashboardLands, DashboardPage
<1>2. CASE RoomListLands
  BY <1>t, <1>2, PollType DEF RoomListLands
<1>3. CASE PollFails
  <2>1. PICK op \in ReadOp : Polling(op)
    BY <1>3 DEF PollFails
  <2>2. UNCHANGED storeVars /\ AfterPoll(FALSE)
    BY <1>3 DEF PollFails
  <2> QED
    BY <1>t, <2>1, <2>2, PollType DEF storeVars
<1> QED
  BY <1>1, <1>2, <1>3, DetailLandsType, SetupLandsType DEF PollLands

LEMMA SetupReadType == ASSUME TypeOK, SetupReadForWrite PROVE TypeOK'
<1> DEFINE c == Served.by
           cur == SetupPage(Served.zone)
           merged == (cur.flags \ cmd[c].boxes) \cup (cmd[c].next.flags \cap cmd[c].boxes)
           req == Post("setup-form", Served.zone, c, [slots |-> cur.slots, flags |-> merged])
<1>1. chain # <<>> /\ c \in Cmds /\ Served.zone \in Zones
  BY ServedType DEF SetupReadForWrite
<1>2. cmd \in [Cmds -> Command] /\ cmd[c] \in Command
      /\ cur.slots \in SlotTable /\ cur.flags \in SUBSET Flags
  <2>1. devRoom[Served.zone] \in DeviceRoom
    BY <1>1 DEF TypeOK
  <2> QED
    BY <1>1, <2>1 DEF TypeOK, SetupPage, DeviceRoom
<1>3. merged \in SUBSET Flags /\ cur.slots \in SlotTable
  <2>1. cmd[c].next.flags \in SUBSET Flags
    BY <1>2 DEF Command, StoreRoom
  <2> QED
    BY <1>2, <2>1
<1>4. req \in Request
  BY <1>1, <1>3 DEF Post, Request, SetupForm
<1>5. SettleAndEnqueue(req) /\ cmd' = [cmd EXCEPT ![c].st = "writing"]
  BY DEF SetupReadForWrite
<1> HIDE DEF req, c
<1>6. chain' \in Seq(Request) /\ retried' \in BOOLEAN
  BY <1>1, <1>4, <1>5, ChainType
<1>7. cmd' \in [Cmds -> Command]
  BY <1>1, <1>2, <1>5, StateType DEF CmdState
<1>8. UNCHANGED <<deviceVars, storeVars, bootVars, rrIndex>>
  BY DEF SetupReadForWrite
<1> QED
  BY <1>6, <1>7, <1>8 DEF TypeOK, deviceVars, storeVars, bootVars

LEMMA WriteAcceptedType == ASSUME TypeOK, WriteAccepted PROVE TypeOK'
<1>1. /\ chain # <<>> /\ Served.op \in FormOp /\ Served.by \in Cmds
      /\ Served.zone \in Zones /\ MaybeObeyed(Served)
  BY ServedType DEF WriteAccepted, Writing, MaybeObeyed
<1>2. devRoom' \in [Zones -> DeviceRoom] /\ devMode' \in SystemMode
  BY <1>1, ObeyedType
<1>3. RefreshAfter(Served) \in Request
  <2>1. RefreshAfter(Served) =
           Read(IF Served.op = "room-form" THEN "detail"
                ELSE IF Served.op = "setup-form" THEN "setup" ELSE "dashboard",
                Served.zone, Served.by)
    BY DEF RefreshAfter
  <2> QED
    BY <1>1, <2>1, Waiters, ReadType DEF ReadOp
<1>4. chain' \in Seq(Request) /\ retried' \in BOOLEAN
  BY <1>1, <1>3, ChainType DEF WriteAccepted
<1>5. cmd' \in [Cmds -> Command]
  BY <1>1, StateType DEF WriteAccepted, CmdState, TypeOK
<1> QED
  BY <1>2, <1>4, <1>5 DEF TypeOK, WriteAccepted, storeVars, bootVars

LEMMA RevertType ==
    ASSUME TypeOK, NEW c \in Cmds, Revert(c)
    PROVE  store' \in [Zones -> StoreRoom] /\ listed' \in BOOLEAN /\ sysMode' \in SystemMode
<1>1. /\ store \in [Zones -> StoreRoom] /\ listed \in BOOLEAN /\ sysMode \in SystemMode
      /\ cmd[c].zone \in Zones /\ cmd[c].prev \in StoreRoom /\ cmd[c].sysPrev \in SystemMode
  BY DEF TypeOK, Command
<1>2. Overlay(store[cmd[c].zone], cmd[c].prev, cmd[c].fields, cmd[c].boxes) \in StoreRoom
  BY <1>1, OverlayType
<1>3. store' \in [Zones -> StoreRoom]
  BY <1>1, <1>2 DEF Revert
<1> QED
  BY <1>1, <1>3 DEF Revert

LEMMA WriteFailsType == ASSUME TypeOK, WriteFails PROVE TypeOK'
<1>1. /\ chain # <<>> /\ Served.by \in Cmds /\ MaybeObeyed(Served)
      /\ Revert(Served.by) /\ Returned(Served.by, "failed") /\ Settle
      /\ UNCHANGED <<bootVars, rrIndex, panel>>
  BY DEF WriteFails
<1>2. devRoom' \in [Zones -> DeviceRoom] /\ devMode' \in SystemMode
  BY <1>1, ObeyedType
<1>3. store' \in [Zones -> StoreRoom] /\ listed' \in BOOLEAN /\ sysMode' \in SystemMode
  BY <1>1, RevertType
<1>4. cmd' \in [Cmds -> Command]
  BY <1>1, ReturnedType DEF CmdState
<1> QED
  BY <1>1, <1>2, <1>3, <1>4, SettleType DEF TypeOK, bootVars

LEMMA PanelType == ASSUME TypeOK, Panel PROVE TypeOK'
<1> USE RoomSyncAssumption
<1>t. /\ devRoom \in [Zones -> DeviceRoom] /\ devMode \in SystemMode
      /\ \A z \in Zones : devRoom[z] \in DeviceRoom
      /\ panel \in 0..MaxPanel
  BY DEF TypeOK
<1>1. devRoom' \in [Zones -> DeviceRoom] /\ devMode' \in SystemMode
  <2>1. ASSUME NEW z \in Zones, NEW m \in UserModes,
               devRoom' = [devRoom EXCEPT ![z].mode = m], UNCHANGED devMode
        PROVE  devRoom' \in [Zones -> DeviceRoom] /\ devMode' \in SystemMode
    <3>1. [devRoom[z] EXCEPT !.mode = m] \in DeviceRoom
      BY <1>t DEF DeviceRoom
    <3> QED
      BY <1>t, <2>1, <3>1
  <2>2. ASSUME NEW z \in Zones, devRoom' = [devRoom EXCEPT ![z].light = ~@], UNCHANGED devMode
        PROVE  devRoom' \in [Zones -> DeviceRoom] /\ devMode' \in SystemMode
    <3>1. [devRoom[z] EXCEPT !.light = ~@] \in DeviceRoom
      BY <1>t DEF DeviceRoom
    <3> QED
      BY <1>t, <2>2, <3>1
  <2>3. ASSUME NEW z \in Zones, NEW v \in Temps, UNCHANGED devMode,
               devRoom' = [devRoom EXCEPT ![z].slots[SeasonOf(devMode)]["normal"] = v]
        PROVE  devRoom' \in [Zones -> DeviceRoom] /\ devMode' \in SystemMode
    <3> DEFINE season == SeasonOf(devMode)
               old == devRoom[z].slots
               row == [old[season] EXCEPT !["normal"] = v]
               slots == [old EXCEPT ![season] = row]
    <3>1. season \in Season /\ old \in SlotTable
      BY <1>t, SeasonOfType DEF DeviceRoom
    <3>2. row \in [Slot -> Temps]
      BY <3>1 DEF SlotTable
    <3>3. slots \in SlotTable
      <4> HIDE DEF row, old, season
      <4> QED
        BY <3>1, <3>2 DEF SlotTable
    <3>4. devRoom' = [devRoom EXCEPT ![z] = [devRoom[z] EXCEPT !.slots = slots]]
      BY <1>t, <2>3
    <3> HIDE DEF slots
    <3>5. [devRoom[z] EXCEPT !.slots = slots] \in DeviceRoom
      BY <1>t, <3>3 DEF DeviceRoom
    <3> QED
      BY <1>t, <2>3, <3>4, <3>5
  <2>4. ASSUME NEW m \in UserSysModes, devMode' = m, UNCHANGED devRoom
        PROVE  devRoom' \in [Zones -> DeviceRoom] /\ devMode' \in SystemMode
    BY <1>t, <2>4
  <2> QED
    BY <2>1, <2>2, <2>3, <2>4 DEF Panel
<1>2. panel' \in 0..MaxPanel
  BY <1>t DEF Panel
<1> QED
  BY <1>1, <1>2 DEF TypeOK, Panel, clientVars, storeVars, bootVars

LEMMA InitTypeOK == Init => TypeOK
<1> SUFFICES ASSUME Init PROVE TypeOK
  OBVIOUS
<1> USE RoomSyncAssumption
<1>1. InitSysMode \in SystemMode
  BY DEF InitSysMode, SystemMode
<1>2. BlankCommand \in Command
  BY <1>1, BlankRoomType DEF BlankCommand, Command, CmdState, CmdKind, Zones
<1>3. chain \in Seq(Request)
  <2>1. Read("dashboard", 1, Boot) \in Request
    BY Waiters, ReadType DEF ReadOp, Zones
  <2> QED
    BY <2>1, SeqDef DEF Init
<1>4. page \in 0..(2 * NZones) /\ rrIndex \in 0..(NZones - 1) /\ panel \in 0..MaxPanel
  BY DEF Init
<1> QED
  BY <1>1, <1>2, <1>3, <1>4, BlankRoomType DEF Init, TypeOK

LEMMA NextTypeOK == TypeOK /\ [Next]_vars => TypeOK'
<1> SUFFICES ASSUME TypeOK, [Next]_vars PROVE TypeOK'
  OBVIOUS
<1> USE RoomSyncAssumption
<1>r. rrIndex \in 0..(NZones - 1)
  BY DEF TypeOK
<1>1. CASE PollDashboard
  BY <1>r, <1>1, TimerType DEF PollDashboard, ReadOp, Zones
<1>2. CASE PollRoomList
  BY <1>r, <1>2, TimerType DEF PollRoomList, ReadOp, Zones
<1>3. CASE PollRoomDetailRR
  <2>1. rrIndex + 1 \in Zones /\ (rrIndex + 1) % NZones \in 0..(NZones - 1)
    BY <1>r DEF Zones
  <2> QED
    BY <1>3, <2>1, TimerType DEF PollRoomDetailRR, ReadOp
<1>4. CASE BootReadsRooms
  <2>1. 1 \in 1..(2 * NZones) /\ 1 \in 0..(2 * NZones)
    OBVIOUS
  <2>2. CASE listed
    <3>1. chain' \in Seq(Request) /\ retried' \in BOOLEAN
      BY <1>4, <2>1, <2>2, BootPageType, ChainType DEF BootReadsRooms
    <3> QED
      BY <1>4, <2>1, <2>2, <3>1 DEF BootReadsRooms, TypeOK, deviceVars, storeVars
  <2>3. CASE ~listed
    BY <1>4, <2>3 DEF BootReadsRooms, TypeOK, deviceVars, storeVars, clientVars
  <2> QED
    BY <2>2, <2>3
<1>5. CASE TimeoutRetried
  <2>1. chain # <<>> /\ MaybeObeyed(Served)
    BY <1>5 DEF TimeoutRetried, RetryInPlace
  <2>2. devRoom' \in [Zones -> DeviceRoom] /\ devMode' \in SystemMode
    BY <2>1, ObeyedType
  <2> QED
    BY <1>5, <2>2 DEF TimeoutRetried, RetryInPlace, TypeOK, storeVars, bootVars
<1>6. CASE UNCHANGED vars
  BY <1>6 DEF TypeOK, vars, clientVars, deviceVars, storeVars, bootVars
<1> QED
  BY <1>1, <1>2, <1>3, <1>4, <1>5, <1>6, IssueType, PollLandsType, SetupReadType,
     WriteAcceptedType, WriteFailsType, PanelType
     DEF Next, Answered

\* Every variable of the room cache protocol keeps its type; in particular no
\* room form is ever queued without a temperature, unless it says "standby",
\* and the round-robin index stays within the rooms.
THEOREM TypeCorrect == Spec => []TypeOK
BY InitTypeOK, NextTypeOK, PTL DEF Spec

-----------------------------------------------------------------------------
(* One setpoint per room.  The invariant is inductive once it is said of the *)
(* snapshots the calls keep too, and that a call touches both sides of the   *)
(* setpoint or neither: a roll-back brings back a pair, not one side of it.  *)

OneSetpoint(room) == room.heating = Null \/ room.cooling = Null

BothOrNeither(fields) == "heating" \in fields <=> "cooling" \in fields

PairInv ==
    /\ \A z \in Zones : OneSetpoint(store[z])
    /\ \A c \in Cmds : OneSetpoint(cmd[c].prev) /\ BothOrNeither(cmd[c].fields)

LEMMA OverlayPair ==
    ASSUME NEW room, NEW from, NEW fields, NEW boxes,
           OneSetpoint(room), OneSetpoint(from), BothOrNeither(fields)
    PROVE  OneSetpoint(Overlay(room, from, fields, boxes))
BY DEF OneSetpoint, BothOrNeither, Overlay

LEMMA WithSetpointPair ==
    ASSUME NEW room \in StoreRoom, NEW v
    PROVE  OneSetpoint(WithSetpoint(room, v))
BY DEF OneSetpoint, WithSetpoint, StoreRoom

LEMMA BlankRoomPair == OneSetpoint(BlankRoom)
BY DEF OneSetpoint, BlankRoom

\* One room of the Store changes.
LEMMA StorePair ==
    ASSUME TypeOK, PairInv, NEW z \in Zones, NEW room, OneSetpoint(room),
           store' = [store EXCEPT ![z] = room]
    PROVE  \A y \in Zones : OneSetpoint(store'[y])
<1>1. \A y \in Zones : store'[y] = IF y = z THEN room ELSE store[y]
  BY DEF TypeOK
<1> QED
  BY <1>1 DEF PairInv

\* One call changes.
LEMMA CmdPair ==
    ASSUME TypeOK, PairInv, NEW c \in Cmds, NEW call,
           OneSetpoint(call.prev), BothOrNeither(call.fields),
           cmd' = [cmd EXCEPT ![c] = call]
    PROVE  \A d \in Cmds : OneSetpoint(cmd'[d].prev) /\ BothOrNeither(cmd'[d].fields)
<1>1. \A d \in Cmds : cmd'[d] = IF d = c THEN call ELSE cmd[d]
  BY DEF TypeOK
<1> QED
  BY <1>1 DEF PairInv

LEMMA OptimisticPair ==
    ASSUME TypeOK, PairInv, NEW c \in Cmds, NEW kind, NEW z \in Zones, NEW next,
           NEW fields, NEW boxes, NEW req,
           BothOrNeither(fields), OneSetpoint(next),
           Optimistic(c, kind, z, next, fields, boxes, req)
    PROVE  PairInv'
<1>t. /\ cmd \in [Cmds -> Command] /\ store \in [Zones -> StoreRoom]
      /\ OneSetpoint(store[z])
  BY DEF TypeOK, PairInv
<1>1. \A y \in Zones : OneSetpoint(store'[y])
  <2>1. store' = [store EXCEPT ![z] = Overlay(store[z], next, fields, boxes)]
    BY <1>t DEF Optimistic
  <2>2. OneSetpoint(Overlay(store[z], next, fields, boxes))
    BY <1>t, OverlayPair
  <2> QED
    BY <2>1, <2>2, StorePair
<1>2. \A d \in Cmds : OneSetpoint(cmd'[d].prev) /\ BothOrNeither(cmd'[d].fields)
  <2> DEFINE st == IF kind = "flags" THEN "reading" ELSE "writing"
             new == Part(next, fields, boxes)
             old == Part(store[z], fields, boxes)
             saw == Seen(store[z])
             call == [cmd[c] EXCEPT !.st = st, !.kind = kind, !.zone = z, !.fields = fields,
                                    !.boxes = boxes, !.next = new, !.prev = old, !.seen = saw]
  <2>1. OneSetpoint(old)
    BY <1>t, OverlayPair, BlankRoomPair DEF Part
  <2>2. cmd' = [cmd EXCEPT ![c] = call]
    BY <1>t DEF Optimistic
  <2> HIDE DEF st, new, old, saw
  <2>3. call.prev = old /\ call.fields = fields
    BY <1>t DEF Command
  <2> HIDE DEF call
  <2> QED
    BY <2>1, <2>2, <2>3, CmdPair
<1> QED
  BY <1>1, <1>2 DEF PairInv

\* Calls and rooms whose setpoints stay as they are.
LEMMA SamePair ==
    ASSUME PairInv,
           \A z \in Zones : store'[z].heating = store[z].heating
                            /\ store'[z].cooling = store[z].cooling,
           \A c \in Cmds : cmd'[c].prev = cmd[c].prev /\ cmd'[c].fields = cmd[c].fields
    PROVE  PairInv'
BY DEF PairInv, OneSetpoint

LEMMA IssuePair == ASSUME TypeOK, PairInv, NEW c \in Cmds, Issue(c) PROVE PairInv'
<1>t. /\ cmd \in [Cmds -> Command]
      /\ \A z \in Zones : store[z] \in StoreRoom /\ OneSetpoint(store[z])
  BY DEF TypeOK, PairInv
<1>w. ASSUME NEW kind, NEW z \in Zones, NEW m \in RoomMode, NEW v, WriteMode(c, kind, z, m, v)
      PROVE  PairInv'
  <2> DEFINE next == WithSetpoint([store[z] EXCEPT !.mode = m], v)
             req == Post("room-form", z, c, FormFor(m, v, store[z].light))
  <2>1. [store[z] EXCEPT !.mode = m] \in StoreRoom
    BY <1>t DEF StoreRoom
  <2>2. OneSetpoint(next)
    BY <2>1, WithSetpointPair
  <2>3. Optimistic(c, kind, z, next, {"mode", "heating", "cooling"}, {}, req)
    BY <1>w DEF WriteMode
  <2> HIDE DEF next, req
  <2> QED
    BY <2>2, <2>3, OptimisticPair DEF BothOrNeither
<1>r. ASSUME NEW kind, NEW z, Refused(c, kind, z) PROVE PairInv'
  <2>1. cmd' = [cmd EXCEPT ![c] = [cmd[c] EXCEPT !.st = "refused", !.kind = kind, !.zone = z]]
    BY <1>t, <1>r DEF Refused
  <2>2. \A d \in Cmds : cmd'[d].prev = cmd[d].prev /\ cmd'[d].fields = cmd[d].fields
    BY <1>t, <2>1 DEF Command
  <2> QED
    BY <1>r, <2>2, SamePair DEF Refused
<1>1. ASSUME NEW z \in Zones, NEW v \in Temps, SetRoomSetpoint(c, z, v) PROVE PairInv'
  <2> DEFINE next == WithSetpoint(store[z], v)
             req == Post("room-form", z, c, FormFor(store[z].mode, v, store[z].light))
  <2>1. OneSetpoint(next)
    BY <1>t, WithSetpointPair
  <2>2. Optimistic(c, "setpoint", z, next, {"heating", "cooling"}, {}, req)
    BY <1>1 DEF SetRoomSetpoint
  <2> HIDE DEF next, req
  <2> QED
    BY <2>1, <2>2, OptimisticPair DEF BothOrNeither
<1>2. ASSUME NEW z \in Zones, NEW m \in UserModes, SetRoomMode(c, z, m) PROVE PairInv'
  BY <1>2, <1>r, <1>w, RoomSyncAssumption DEF SetRoomMode
<1>3. ASSUME NEW z \in Zones, NEW m \in UserModes, NEW v \in Temps, SetRoomModeAt(c, z, m, v)
      PROVE  PairInv'
  BY <1>3, <1>w, RoomSyncAssumption DEF SetRoomModeAt
<1>4. ASSUME NEW z \in Zones, NEW l \in BOOLEAN, SetRoomLight(c, z, l) PROVE PairInv'
  <2> DEFINE v == LiveSetpoint(store[z])
             next == [store[z] EXCEPT !.light = l]
             req == Post("room-form", z, c, FormFor(store[z].mode, v, l))
  <2>1. CASE v = Null
    BY <1>4, <1>r, <2>1 DEF SetRoomLight
  <2>2. CASE v # Null
    <3>1. OneSetpoint(next)
      BY <1>t DEF OneSetpoint, StoreRoom
    <3>2. Optimistic(c, "light", z, next, {"light"}, {}, req)
      BY <1>4, <2>2 DEF SetRoomLight
    <3> HIDE DEF next, req
    <3> QED
      BY <3>1, <3>2, OptimisticPair DEF BothOrNeither
  <2> QED
    BY <2>1, <2>2
<1>5. ASSUME NEW z \in Zones, NEW boxes \in SUBSET Flags, NEW on \in SUBSET boxes,
             SetRoomFlags(c, z, boxes, on)
      PROVE  PairInv'
  <2> DEFINE next == [store[z] EXCEPT !.flags = on]
             req == Read("setup", z, c)
  <2>1. OneSetpoint(next)
    BY <1>t DEF OneSetpoint, StoreRoom
  <2>2. Optimistic(c, "flags", z, next, {}, boxes, req)
    BY <1>5 DEF SetRoomFlags
  <2> HIDE DEF next, req
  <2> QED
    BY <2>1, <2>2, OptimisticPair DEF BothOrNeither
<1>6. ASSUME NEW m \in UserSysModes, SetOperatingMode(c, m) PROVE PairInv'
  <2>1. cmd' = [cmd EXCEPT ![c] = [cmd[c] EXCEPT !.st = "writing", !.kind = "system",
                                                 !.sysNext = m, !.sysPrev = sysMode]]
    BY <1>t, <1>6 DEF SetOperatingMode
  <2>2. \A d \in Cmds : cmd'[d].prev = cmd[d].prev /\ cmd'[d].fields = cmd[d].fields
    BY <1>t, <2>1 DEF Command
  <2> QED
    BY <1>6, <2>2, SamePair DEF SetOperatingMode
<1> QED
  BY <1>1, <1>2, <1>3, <1>4, <1>5, <1>6 DEF Issue

\* A call that returns drops its snapshot.
LEMMA ReturnedPair ==
    ASSUME TypeOK, PairInv, NEW c \in Cmds, NEW st, Returned(c, st)
    PROVE  \A d \in Cmds : OneSetpoint(cmd'[d].prev) /\ BothOrNeither(cmd'[d].fields)
<1> DEFINE call == [cmd[c] EXCEPT !.st = st, !.prev = BlankRoom, !.sysPrev = InitSysMode]
<1>1. cmd \in [Cmds -> Command] /\ BothOrNeither(cmd[c].fields)
  BY DEF TypeOK, PairInv
<1>2. call.prev = BlankRoom /\ call.fields = cmd[c].fields
  BY <1>1 DEF Command
<1>3. cmd' = [cmd EXCEPT ![c] = call]
  BY <1>1 DEF Returned
<1> HIDE DEF call
<1> QED
  BY <1>1, <1>2, <1>3, BlankRoomPair, CmdPair

\* A call goes on to its next request.
LEMMA StatePair ==
    ASSUME TypeOK, NEW c \in Cmds, NEW st, cmd' = [cmd EXCEPT ![c].st = st]
    PROVE  \A d \in Cmds : cmd'[d].prev = cmd[d].prev /\ cmd'[d].fields = cmd[d].fields
BY DEF TypeOK, Command

LEMMA AfterPollPair ==
    ASSUME TypeOK, PairInv, NEW landed, AfterPoll(landed)
    PROVE  \A d \in Cmds : OneSetpoint(cmd'[d].prev) /\ BothOrNeither(cmd'[d].fields)
<1>1. CASE UNCHANGED cmd
  BY <1>1 DEF PairInv
<1>2. ASSUME NEW c \in Cmds, NEW st, Returned(c, st)
      PROVE  \A d \in Cmds : OneSetpoint(cmd'[d].prev) /\ BothOrNeither(cmd'[d].fields)
  BY <1>2, ReturnedPair
<1> QED
  BY <1>1, <1>2 DEF AfterPoll

LEMMA AnsweredPair == ASSUME TypeOK, PairInv, Answered PROVE PairInv'
<1>t. /\ store \in [Zones -> StoreRoom] /\ cmd \in [Cmds -> Command]
      /\ \A z \in Zones : store[z] \in StoreRoom /\ OneSetpoint(store[z])
      /\ \A c \in Cmds : OneSetpoint(cmd[c].prev) /\ BothOrNeither(cmd[c].fields)
  BY DEF TypeOK, PairInv
<1>1. CASE DashboardLands \/ RoomListLands \/ PollFails
  <2>1. store' = store /\ \E landed \in BOOLEAN : AfterPoll(landed)
    BY <1>1 DEF DashboardLands, RoomListLands, PollFails, storeVars
  <2> QED
    BY <1>t, <2>1, AfterPollPair DEF PairInv
<1>2. CASE DetailLands
  <2> DEFINE z == Served.zone
             shown == devRoom[z].slots[SeasonOf(devMode)]
             seenRoom == [store[z] EXCEPT !.mode = devRoom[z].mode,
                                          !.light = devRoom[z].light, !.slots = shown]
  <2>1. z \in Zones
    BY <1>2, ServedType DEF DetailLands, Polling
  <2>2. PICK s \in ActiveSlots(devRoom[z].mode) :
           store' = [store EXCEPT ![z] = WithSetpoint(seenRoom, shown[s])]
    BY <1>t, <1>2, <2>1 DEF DetailLands, DetailPage
  <2>3. OneSetpoint(WithSetpoint(seenRoom, shown[s]))
    <3>1. devRoom[z] \in DeviceRoom /\ SeasonOf(devMode) \in Season
      BY <2>1, SeasonOfType DEF TypeOK
    <3>2. shown \in [Slot -> MaybeTemp]
      BY <3>1 DEF DeviceRoom, SlotTable, MaybeTemp
    <3>3. devRoom[z].mode \in RoomMode /\ devRoom[z].light \in BOOLEAN
      BY <3>1 DEF DeviceRoom
    <3> HIDE DEF shown
    <3>4. seenRoom \in StoreRoom
      BY <1>t, <2>1, <3>2, <3>3 DEF StoreRoom
    <3> QED
      BY <3>4, WithSetpointPair
  <2>4. AfterPoll(TRUE)
    BY <1>2 DEF DetailLands
  <2> HIDE DEF z, shown, seenRoom
  <2>5. \A y \in Zones : OneSetpoint(store'[y])
    BY <2>1, <2>2, <2>3, StorePair
  <2> QED
    BY <2>4, <2>5, AfterPollPair DEF PairInv
<1>3. CASE SetupLands
  <2> DEFINE room == [store[Served.zone] EXCEPT !.flags = devRoom[Served.zone].flags]
  <2>1. Served.zone \in Zones /\ AfterPoll(TRUE)
    BY <1>3, ServedType DEF SetupLands, Polling
  <2>2. store' = [store EXCEPT ![Served.zone] = room]
    BY <1>t, <1>3, <2>1 DEF SetupLands, SetupPage
  <2>3. OneSetpoint(room)
    BY <1>t, <2>1 DEF OneSetpoint, StoreRoom
  <2> HIDE DEF room
  <2>4. \A y \in Zones : OneSetpoint(store'[y])
    BY <2>1, <2>2, <2>3, StorePair
  <2> QED
    BY <2>1, <2>4, AfterPollPair DEF PairInv
<1>4. CASE SetupReadForWrite
  <2>1. /\ store' = store /\ Served.by \in Cmds
        /\ cmd' = [cmd EXCEPT ![Served.by].st = "writing"]
    BY <1>4 DEF SetupReadForWrite, storeVars
  <2> QED
    BY <2>1, StatePair, SamePair
<1>5. CASE WriteAccepted
  <2>1. /\ store' = store /\ Served.by \in Cmds
        /\ cmd' = [cmd EXCEPT ![Served.by].st = "refreshing"]
    BY <1>5, ServedType DEF WriteAccepted, Writing, storeVars
  <2> QED
    BY <2>1, StatePair, SamePair
<1>6. CASE WriteFails
  <2>1. PICK c \in Cmds : c = Served.by
    BY <1>6 DEF WriteFails
  <2>2. Revert(c) /\ Returned(c, "failed")
    BY <1>6, <2>1 DEF WriteFails
  <2>3. \A y \in Zones : OneSetpoint(store'[y])
    <3>1. CASE cmd[c].kind = "system"
      BY <1>t, <2>2, <3>1 DEF Revert
    <3>2. CASE cmd[c].kind # "system"
      <4> DEFINE z == cmd[c].zone
                 room == Overlay(store[z], cmd[c].prev, cmd[c].fields, cmd[c].boxes)
      <4>1. z \in Zones
        BY <1>t DEF Command
      <4>2. OneSetpoint(room)
        BY <1>t, <4>1, OverlayPair
      <4>3. store' = [store EXCEPT ![z] = room]
        BY <1>t, <2>2, <3>2, <4>1 DEF Revert
      <4> HIDE DEF z, room
      <4> QED
        BY <4>1, <4>2, <4>3, StorePair
    <3> QED
      BY <3>1, <3>2
  <2> QED
    BY <2>2, <2>3, ReturnedPair DEF PairInv
<1> QED
  BY <1>1, <1>2, <1>3, <1>4, <1>5, <1>6 DEF Answered, PollLands

LEMMA InitPairInv == Init => PairInv
BY BlankRoomPair DEF Init, PairInv, BlankCommand, BothOrNeither

LEMMA NextPairInv == TypeOK /\ PairInv /\ [Next]_vars => PairInv'
<1> SUFFICES ASSUME TypeOK, PairInv, [Next]_vars PROVE PairInv'
  OBVIOUS
<1>1. ASSUME UNCHANGED <<store, cmd>> PROVE PairInv'
  BY <1>1, SamePair
<1>2. CASE PollDashboard \/ PollRoomList \/ PollRoomDetailRR \/ BootReadsRooms
  BY <1>1, <1>2 DEF PollDashboard, PollRoomList, PollRoomDetailRR, TimerFires,
                    BootReadsRooms, storeVars
<1>3. CASE TimeoutRetried \/ Panel \/ UNCHANGED vars
  BY <1>1, <1>3 DEF TimeoutRetried, Panel, vars, storeVars
<1> QED
  BY <1>2, <1>3, IssuePair, AnsweredPair DEF Next

\* No interleaving of polls, optimistic patches and roll-backs shows a heating
\* and a cooling setpoint for one room (commander.ts:162-164), for any number
\* of rooms and calls.
THEOREM NeverTwoSetpoints == Spec => []SetpointPairExclusive
<1>1. Init => TypeOK /\ PairInv
  BY InitTypeOK, InitPairInv
<1>2. TypeOK /\ PairInv /\ [Next]_vars => TypeOK' /\ PairInv'
  BY NextTypeOK, NextPairInv
<1>3. PairInv => SetpointPairExclusive
  BY DEF PairInv, OneSetpoint, SetpointPairExclusive
<1> QED
  BY <1>1, <1>2, <1>3, PTL DEF Spec

-----------------------------------------------------------------------------
(* Whose the requests are.  A call that has not returned waits for exactly   *)
(* one request, which is of the kind its state and its operation call for    *)
(* and carries what it was asked to write.                                   *)

PendingState == {"reading", "writing", "refreshing"}
RoomKind == {"setpoint", "mode", "mode-at", "light"}

\* The form a kind of call posts, and the page it reads again afterwards.
FormOf(kind) ==
    IF kind \in RoomKind THEN "room-form" ELSE IF kind = "flags" THEN "setup-form" ELSE "system-form"
PageOf(kind) ==
    IF kind \in RoomKind THEN "detail" ELSE IF kind = "flags" THEN "setup" ELSE "dashboard"

\* Form `form` says what `call` was asked for.
Carries(call, form) ==
    /\ call.kind = "system" => form.sys = call.sysNext
    /\ call.kind \in {"setpoint", "mode", "mode-at"} =>
          form.temp = IF form.mode = "standby" THEN Null ELSE LiveSetpoint(call.next)
    /\ call.kind \in {"mode", "mode-at"} => form.mode = call.next.mode
    /\ call.kind = "light" => form.light = call.next.light

\* Request `req` is one that `call` waits for.
Awaits(call, req) ==
    /\ call.st \in PendingState
    /\ call.kind # "system" => req.zone = call.zone
    /\ call.st = "reading" => call.kind = "flags" /\ req.op = "setup"
    /\ call.st = "writing" => req.op = FormOf(call.kind) /\ Carries(call, req.form)
    /\ call.st = "refreshing" => req.op = PageOf(call.kind)

\* Every request of a call in queue `q` is one it waits for, and its only one;
\* `who` has none there, and every other call that waits has one.
OwnIn(q, calls, who) ==
    /\ \A i \in 1..Len(q) :
          q[i].by \in Cmds => q[i].by # who /\ Awaits(calls[q[i].by], q[i])
    /\ \A c \in Cmds \ {who} : calls[c].st \in PendingState => \E i \in 1..Len(q) : q[i].by = c
    /\ \A i, j \in 1..Len(q) : q[i].by \in Cmds /\ q[i].by = q[j].by => i = j

Nobody == Timer
OwnRequests == OwnIn(chain, cmd, Nobody)

LEMMA NobodyCalls == Nobody \notin Cmds /\ Boot \notin Cmds /\ Timer \notin Cmds
BY RoomSyncAssumption DEF Nobody, Timer, Boot, Cmds

\* The request served leaves the queue.
LEMMA OwnTail ==
    ASSUME NEW q \in Seq(Request), q # <<>>, OwnIn(q, cmd, Nobody)
    PROVE  OwnIn(Tail(q), cmd, Head(q).by)
<1> DEFINE rest == Tail(q)
           who == Head(q).by
<1>1. /\ Len(q) \in Nat /\ Len(q) >= 1
      /\ Len(rest) = Len(q) - 1
      /\ \A i \in 1..Len(rest) : rest[i] = q[i + 1]
      /\ who = q[1].by
  BY HeadTailProperties
<1> HIDE DEF rest, who
<1>2. /\ 1 \in 1..Len(q)
      /\ \A i \in 1..Len(rest) : i + 1 \in 1..Len(q) /\ i + 1 # 1
  BY <1>1
<1>3. ASSUME NEW i \in 1..Len(rest), rest[i].by \in Cmds
      PROVE  rest[i].by # who /\ Awaits(cmd[rest[i].by], rest[i])
  BY <1>1, <1>2, <1>3 DEF OwnIn
<1>4. ASSUME NEW c \in Cmds \ {who}, cmd[c].st \in PendingState
      PROVE  \E i \in 1..Len(rest) : rest[i].by = c
  <2>1. PICK j \in 1..Len(q) : q[j].by = c
    BY <1>4, NobodyCalls DEF OwnIn
  <2>2. j # 1
    BY <1>1, <2>1
  <2>3. j - 1 \in 1..Len(rest) /\ rest[j - 1] = q[j]
    BY <1>1, <2>1, <2>2
  <2> QED
    BY <2>1, <2>3
<1>5. ASSUME NEW i \in 1..Len(rest), NEW j \in 1..Len(rest),
             rest[i].by \in Cmds, rest[i].by = rest[j].by
      PROVE  i = j
  <2>1. i + 1 = j + 1
    BY <1>1, <1>2, <1>5 DEF OwnIn
  <2> QED
    BY <2>1
<1> QED
  BY <1>3, <1>4, <1>5 DEF OwnIn, rest, who

\* A call that waits for nothing has no request.
LEMMA OwnIdle ==
    ASSUME NEW q, NEW who, who \in Cmds => cmd[who].st \notin PendingState,
           OwnIn(q, cmd, Nobody)
    PROVE  OwnIn(q, cmd, who)
BY NobodyCalls DEF OwnIn, Awaits

\* A call makes its next request, or the Poller one of its own.
LEMMA OwnAppend ==
    ASSUME NEW q \in Seq(Request), NEW req \in Request, NEW who, req.by = who,
           OwnIn(q, cmd, who), who \in Cmds => Awaits(cmd'[who], req),
           \A d \in Cmds : d # who => cmd'[d] = cmd[d]
    PROVE  OwnIn(Append(q, req), cmd', Nobody)
<1> DEFINE new == Append(q, req)
<1>1. /\ Len(q) \in Nat
      /\ Len(new) = Len(q) + 1
      /\ \A i \in 1..Len(q) : new[i] = q[i]
      /\ new[Len(q) + 1] = req
  BY AppendProperties
<1> HIDE DEF new
<1>2. ASSUME NEW i \in 1..Len(new), new[i].by \in Cmds
      PROVE  new[i].by # Nobody /\ Awaits(cmd'[new[i].by], new[i])
  <2>1. CASE i = Len(q) + 1
    BY <1>1, <1>2, <2>1, NobodyCalls
  <2>2. CASE i # Len(q) + 1
    <3>1. i \in 1..Len(q) /\ new[i] = q[i]
      BY <1>1, <2>2
    <3>2. q[i].by # who /\ Awaits(cmd[q[i].by], q[i])
      BY <1>2, <3>1 DEF OwnIn
    <3> QED
      BY <1>2, <3>1, <3>2, NobodyCalls
  <2> QED
    BY <2>1, <2>2
<1>3. ASSUME NEW c \in Cmds \ {Nobody}, cmd'[c].st \in PendingState
      PROVE  \E i \in 1..Len(new) : new[i].by = c
  <2>1. CASE c = who
    <3>1. Len(q) + 1 \in 1..Len(new)
      BY <1>1
    <3> QED
      BY <1>1, <2>1, <3>1
  <2>2. CASE c # who
    <3>1. PICK i \in 1..Len(q) : q[i].by = c
      BY <1>3, <2>2 DEF OwnIn
    <3>2. i \in 1..Len(new) /\ new[i] = q[i]
      BY <1>1, <3>1
    <3> QED
      BY <3>1, <3>2
  <2> QED
    BY <2>1, <2>2
<1>4. ASSUME NEW i \in 1..Len(new), NEW j \in 1..Len(new),
             new[i].by \in Cmds, new[i].by = new[j].by
      PROVE  i = j
  <2>1. i \in 1..Len(q) \/ i = Len(q) + 1
    BY <1>1
  <2>2. j \in 1..Len(q) \/ j = Len(q) + 1
    BY <1>1
  <2> QED
    BY <1>1, <1>4, <2>1, <2>2 DEF OwnIn
<1> QED
  BY <1>2, <1>3, <1>4 DEF OwnIn, new

\* A call returns, and nothing else happens to the queue.
LEMMA OwnReturn ==
    ASSUME NEW q, NEW who, OwnIn(q, cmd, who),
           who \in Cmds => cmd'[who].st \notin PendingState,
           \A d \in Cmds : d # who => cmd'[d] = cmd[d]
    PROVE  OwnIn(q, cmd', Nobody)
BY NobodyCalls DEF OwnIn

\* optimistic() issues call c, and its first request is the one it waits for.
LEMMA OptimisticOwn ==
    ASSUME TypeOK, OwnRequests, NEW c \in Cmds, NEW kind \in CmdKind \ {"system"}, NEW z \in Zones,
           NEW next, NEW fields, NEW boxes, NEW req \in Request,
           req.by = c, req.zone = z,
           kind = "flags" => req.op = "setup",
           kind # "flags" => /\ req.op = "room-form"
                             /\ Carries(cmd'[c], req.form),
           Optimistic(c, kind, z, next, fields, boxes, req)
    PROVE  OwnRequests'
<1>1. cmd[c].st = "idle" /\ chain' = Append(chain, req) /\ chain \in Seq(Request)
  BY DEF Optimistic, Arrives, Enqueue, TypeOK
<1>2. /\ \A d \in Cmds : d # c => cmd'[d] = cmd[d]
      /\ cmd'[c].st = IF kind = "flags" THEN "reading" ELSE "writing"
      /\ cmd'[c].kind = kind /\ cmd'[c].zone = z
  BY DEF Optimistic, TypeOK, Command
<1>3. Awaits(cmd'[c], req)
  BY <1>2 DEF Awaits, PendingState, FormOf, RoomKind, CmdKind
<1>4. OwnIn(chain, cmd, c)
  BY <1>1, OwnIdle DEF OwnRequests, PendingState
<1>5. OwnIn(Append(chain, req), cmd', Nobody)
  BY <1>1, <1>2, <1>3, <1>4, OwnAppend
<1> QED
  BY <1>1, <1>5 DEF OwnRequests, Nobody, Timer

\* The setpoint a write was issued with is the one it keeps to send.
LEMMA SetpointKept ==
    ASSUME NEW room \in StoreRoom, NEW v \in Temps, NEW fields, NEW boxes, NEW r,
           r = Part(WithSetpoint(room, v), fields, boxes)
    PROVE  /\ {"heating", "cooling"} \subseteq fields => LiveSetpoint(r) = v
           /\ "mode" \in fields => r.mode = room.mode
BY RoomSyncAssumption DEF Part, Overlay, WithSetpoint, LiveSetpoint, OrElse, StoreRoom, BlankRoom

LEMMA WriteModeOwn ==
    ASSUME TypeOK, OwnRequests, NEW c \in Cmds, NEW kind \in {"mode", "mode-at"}, NEW z \in Zones,
           NEW m \in RoomMode, NEW v \in Temps, WriteMode(c, kind, z, m, v)
    PROVE  OwnRequests'
<1> DEFINE room == [store[z] EXCEPT !.mode = m]
           next == WithSetpoint(room, v)
           fields == {"mode", "heating", "cooling"}
           req == Post("room-form", z, c, FormFor(m, v, store[z].light))
<1>1. store[z] \in StoreRoom /\ store[z].light \in BOOLEAN
  BY DEF TypeOK, StoreRoom
<1>2. room \in StoreRoom /\ room.mode = m
  BY <1>1 DEF StoreRoom
<1>3. /\ req \in Request /\ req.by = c /\ req.zone = z /\ req.op = "room-form"
      /\ req.form.mode = m /\ req.form.temp = IF m = "standby" THEN Null ELSE v
  BY <1>1, FormForType DEF Post, Request, FormFor
<1>4. Optimistic(c, kind, z, next, fields, {}, req)
  BY DEF WriteMode
<1>5. cmd'[c].kind = kind /\ cmd'[c].next = Part(next, fields, {})
  BY <1>4 DEF Optimistic, TypeOK, Command
<1> HIDE DEF req, room
<1>6. LiveSetpoint(cmd'[c].next) = v /\ cmd'[c].next.mode = m
  BY <1>2, <1>5, SetpointKept
<1>7. Carries(cmd'[c], req.form)
  BY <1>3, <1>5, <1>6 DEF Carries
<1> HIDE DEF next, fields
<1>8. kind \in CmdKind \ {"system"} /\ kind # "flags"
  BY DEF CmdKind
<1> QED
  BY <1>3, <1>4, <1>7, <1>8, OptimisticOwn

LEMMA RefusedOwn ==
    ASSUME TypeOK, OwnRequests, NEW c \in Cmds, NEW kind, NEW z, Refused(c, kind, z)
    PROVE  OwnRequests'
<1>1. /\ cmd[c].st = "idle" /\ chain' = chain
      /\ cmd'[c].st = "refused" /\ \A d \in Cmds : d # c => cmd'[d] = cmd[d]
  BY DEF Refused, Arrives, clientVars, TypeOK, Command
<1>2. OwnIn(chain, cmd, c)
  BY <1>1, OwnIdle DEF OwnRequests, PendingState
<1>3. OwnIn(chain, cmd', Nobody)
  BY <1>1, <1>2, OwnReturn DEF PendingState
<1> QED
  BY <1>1, <1>3 DEF OwnRequests, Nobody, Timer

LEMMA IssueOwn == ASSUME TypeOK, OwnRequests, NEW c \in Cmds, Issue(c) PROVE OwnRequests'
<1> USE RoomSyncAssumption
<1>t. \A z \in Zones : /\ store[z] \in StoreRoom
                       /\ store[z].mode \in RoomMode /\ store[z].light \in BOOLEAN
  BY DEF TypeOK, StoreRoom
<1>1. ASSUME NEW z \in Zones, NEW v \in Temps, SetRoomSetpoint(c, z, v) PROVE OwnRequests'
  <2> DEFINE next == WithSetpoint(store[z], v)
             fields == {"heating", "cooling"}
             req == Post("room-form", z, c, FormFor(store[z].mode, v, store[z].light))
  <2>1. /\ req \in Request /\ req.by = c /\ req.zone = z /\ req.op = "room-form"
        /\ req.form.temp = IF req.form.mode = "standby" THEN Null ELSE v
    BY <1>t, FormForType DEF Post, Request, FormFor
  <2>2. Optimistic(c, "setpoint", z, next, fields, {}, req)
    BY <1>1 DEF SetRoomSetpoint
  <2>3. cmd'[c].kind = "setpoint" /\ cmd'[c].next = Part(next, fields, {})
    BY <2>2 DEF Optimistic, TypeOK, Command
  <2> HIDE DEF req
  <2>4. LiveSetpoint(cmd'[c].next) = v
    BY <1>t, <2>3, SetpointKept
  <2>5. Carries(cmd'[c], req.form)
    BY <2>1, <2>3, <2>4 DEF Carries
  <2> HIDE DEF next, fields
  <2> QED
    BY <2>1, <2>2, <2>5, OptimisticOwn DEF CmdKind
<1>2. ASSUME NEW z \in Zones, NEW m \in UserModes, SetRoomMode(c, z, m) PROVE OwnRequests'
  <2> DEFINE v == SlotForMode(store[z], m)
  <2>1. v \in MaybeTemp
    BY <1>t, SetpointToSend
  <2>2. CASE v = Null
    BY <1>2, <2>2, RefusedOwn DEF SetRoomMode
  <2>3. CASE v # Null
    <3>1. v \in Temps /\ WriteMode(c, "mode", z, m, v)
      BY <1>2, <2>1, <2>3 DEF SetRoomMode, MaybeTemp
    <3> QED
      BY <3>1, WriteModeOwn
  <2> QED
    BY <2>2, <2>3
<1>3. ASSUME NEW z \in Zones, NEW m \in UserModes, NEW v \in Temps, SetRoomModeAt(c, z, m, v)
      PROVE  OwnRequests'
  BY <1>3, WriteModeOwn DEF SetRoomModeAt
<1>4. ASSUME NEW z \in Zones, NEW l \in BOOLEAN, SetRoomLight(c, z, l) PROVE OwnRequests'
  <2> DEFINE v == LiveSetpoint(store[z])
             next == [store[z] EXCEPT !.light = l]
             req == Post("room-form", z, c, FormFor(store[z].mode, v, l))
  <2>1. v \in MaybeTemp
    BY <1>t, SetpointToSend
  <2>2. CASE v = Null
    BY <1>4, <2>2, RefusedOwn DEF SetRoomLight
  <2>3. CASE v # Null
    <3>1. /\ req \in Request /\ req.by = c /\ req.zone = z /\ req.op = "room-form"
          /\ req.form.light = l
      BY <1>t, <2>1, <2>3, FormForType DEF Post, Request, FormFor, MaybeTemp
    <3>2. Optimistic(c, "light", z, next, {"light"}, {}, req)
      BY <1>4, <2>3 DEF SetRoomLight
    <3>3. next.light = l
      BY <1>t DEF StoreRoom
    <3>4. cmd'[c].kind = "light" /\ cmd'[c].next = Part(next, {"light"}, {})
      BY <3>2 DEF Optimistic, TypeOK, Command
    <3> HIDE DEF next, req
    <3>5. Carries(cmd'[c], req.form)
      BY <3>1, <3>3, <3>4 DEF Carries, Part, Overlay
    <3> QED
      BY <3>1, <3>2, <3>5, OptimisticOwn DEF CmdKind
  <2> QED
    BY <2>2, <2>3
<1>5. ASSUME NEW z \in Zones, NEW boxes \in SUBSET Flags, NEW on \in SUBSET boxes,
             SetRoomFlags(c, z, boxes, on)
      PROVE  OwnRequests'
  <2> DEFINE next == [store[z] EXCEPT !.flags = on]
             req == Read("setup", z, c)
  <2>1. req \in Request /\ req.by = c /\ req.zone = z /\ req.op = "setup"
    BY Waiters, ReadType DEF Read, ReadOp
  <2>2. Optimistic(c, "flags", z, next, {}, boxes, req)
    BY <1>5 DEF SetRoomFlags
  <2> HIDE DEF next, req
  <2> QED
    BY <2>1, <2>2, OptimisticOwn DEF CmdKind
<1>6. ASSUME NEW m \in UserSysModes, SetOperatingMode(c, m) PROVE OwnRequests'
  <2> DEFINE req == Post("system-form", 1, c, [sys |-> m])
  <2>1. req \in Request /\ req.by = c /\ req.op = "system-form" /\ req.form.sys = m
    BY DEF Post, Request, SystemForm, Zones
  <2>2. /\ cmd[c].st = "idle" /\ chain \in Seq(Request) /\ chain' = Append(chain, req)
        /\ \A d \in Cmds : d # c => cmd'[d] = cmd[d]
        /\ cmd'[c].st = "writing" /\ cmd'[c].kind = "system" /\ cmd'[c].sysNext = m
    BY <1>6 DEF SetOperatingMode, Arrives, Enqueue, TypeOK, Command
  <2> HIDE DEF req
  <2>3. Awaits(cmd'[c], req)
    BY <2>1, <2>2 DEF Awaits, PendingState, FormOf, RoomKind, Carries
  <2>4. OwnIn(chain, cmd, c)
    BY <2>2, OwnIdle DEF OwnRequests, PendingState
  <2>5. OwnIn(Append(chain, req), cmd', Nobody)
    BY <2>1, <2>2, <2>3, <2>4, OwnAppend
  <2> QED
    BY <2>2, <2>5 DEF OwnRequests, Nobody, Timer
<1> QED
  BY <1>1, <1>2, <1>3, <1>4, <1>5, <1>6 DEF Issue

\* The request served is one its caller waits for.
LEMMA ServedAwaited ==
    ASSUME TypeOK, OwnRequests, chain # <<>>
    PROVE  /\ OwnIn(Tail(chain), cmd, Served.by) /\ Tail(chain) \in Seq(Request)
           /\ Served.by \in Cmds => Awaits(cmd[Served.by], Served)
           /\ Served.by \notin Cmds => Served.op \in ReadOp
<1>1. chain \in Seq(Request) /\ 1 \in 1..Len(chain) /\ Served = chain[1]
  BY HeadTailProperties DEF TypeOK, Served
<1>2. OwnIn(Tail(chain), cmd, Served.by) /\ Tail(chain) \in Seq(Request)
  BY <1>1, OwnTail, HeadTailProperties DEF OwnRequests, Served
<1>3. Served.by \in Cmds => Awaits(cmd[Served.by], Served)
  BY <1>1 DEF OwnRequests, OwnIn
<1> QED
  BY <1>2, <1>3, ServedType

LEMMA AfterPollOwn ==
    ASSUME TypeOK, OwnRequests, chain # <<>>, NEW landed \in BOOLEAN, AfterPoll(landed)
    PROVE  OwnRequests'
<1>1. OwnIn(Tail(chain), cmd, Served.by) /\ Tail(chain) \in Seq(Request)
  BY ServedAwaited
<1>2. ASSUME UNCHANGED cmd, Served.by = Timer \/ Served.by = Boot, chain' = Tail(chain)
      PROVE  OwnRequests'
  <2>1. OwnIn(Tail(chain), cmd', Nobody)
    BY <1>1, <1>2, NobodyCalls, OwnReturn
  <2> QED
    BY <1>2, <2>1 DEF OwnRequests, Nobody, Timer
<1>3. ASSUME UNCHANGED cmd, Served.by = Boot, NEW req \in Request, req.by = Boot,
             chain' = Append(Tail(chain), req)
      PROVE  OwnRequests'
  <2>1. OwnIn(Append(Tail(chain), req), cmd', Nobody)
    BY <1>1, <1>3, NobodyCalls, OwnAppend
  <2> QED
    BY <1>3, <2>1 DEF OwnRequests, Nobody, Timer
<1>4. CASE Served.by = Timer /\ Settle /\ UNCHANGED <<bootVars, cmd>>
  BY <1>2, <1>4 DEF Settle
<1>5. CASE Served.by = Boot /\ Settle /\ UNCHANGED cmd
  BY <1>2, <1>5 DEF Settle
<1>6. CASE Served.by = Boot /\ SettleAndEnqueue(Read("list", 1, Boot)) /\ UNCHANGED cmd
  <2>1. Read("list", 1, Boot) \in Request
    BY RoomSyncAssumption, Waiters, ReadType DEF ReadOp, Zones
  <2> QED
    BY <1>3, <1>6, <2>1 DEF SettleAndEnqueue, Read
<1>7. CASE /\ Served.by = Boot /\ page < 2 * NZones
           /\ SettleAndEnqueue(BootPage(page + 1)) /\ UNCHANGED cmd
  <2>1. page + 1 \in 1..(2 * NZones)
    BY <1>7, RoomSyncAssumption DEF TypeOK
  <2>2. BootPage(page + 1) \in Request /\ BootPage(page + 1).by = Boot
    BY <2>1, BootPageType DEF BootPage, Read
  <2> HIDE DEF BootPage
  <2> QED
    BY <1>3, <1>7, <2>2 DEF SettleAndEnqueue
<1>8. CASE /\ Served.by \in Cmds /\ Settle
           /\ Returned(Served.by, IF landed THEN "ok" ELSE "unrefreshed")
  <2>1. /\ \A d \in Cmds : d # Served.by => cmd'[d] = cmd[d]
        /\ cmd'[Served.by].st \notin PendingState
    BY <1>8 DEF Returned, TypeOK, Command, PendingState
  <2>2. OwnIn(Tail(chain), cmd', Nobody)
    BY <1>1, <1>8, <2>1, OwnReturn
  <2> QED
    BY <1>8, <2>2 DEF OwnRequests, Settle, Nobody, Timer
<1> QED
  BY <1>4, <1>5, <1>6, <1>7, <1>8 DEF AfterPoll

\* A call goes on to its next request.
LEMMA GoesOn ==
    ASSUME TypeOK, OwnRequests, chain # <<>>, Served.by \in Cmds,
           NEW st \in {"writing", "refreshing"}, cmd' = [cmd EXCEPT ![Served.by].st = st],
           NEW req \in Request, req.by = Served.by, SettleAndEnqueue(req),
           Awaits([cmd[Served.by] EXCEPT !.st = st], req)
    PROVE  OwnRequests'
<1>1. /\ \A d \in Cmds : d # Served.by => cmd'[d] = cmd[d]
      /\ cmd'[Served.by] = [cmd[Served.by] EXCEPT !.st = st]
  BY DEF TypeOK, Command
<1>2. OwnIn(Append(Tail(chain), req), cmd', Nobody)
  BY <1>1, ServedAwaited, OwnAppend
<1> QED
  BY <1>2 DEF OwnRequests, SettleAndEnqueue, Nobody, Timer

\* The form that a set-up write posts once it has read the page.
SetupPost ==
    LET c == Served.by
        cur == SetupPage(Served.zone)
        merged == (cur.flags \ cmd[c].boxes) \cup (cmd[c].next.flags \cap cmd[c].boxes)
    IN  Post("setup-form", Served.zone, c, [slots |-> cur.slots, flags |-> merged])

LEMMA SetupPosted ==
    ASSUME TypeOK, OwnRequests, SetupReadForWrite
    PROVE  /\ chain # <<>> /\ Served.by \in Cmds /\ cmd[Served.by].st = "reading"
           /\ cmd' = [cmd EXCEPT ![Served.by].st = "writing"]
           /\ SettleAndEnqueue(SetupPost) /\ SetupPost \in Request
           /\ SetupPost.by = Served.by /\ SetupPost.zone = Served.zone
           /\ SetupPost.op = "setup-form"
<1> DEFINE c == Served.by
           cur == SetupPage(Served.zone)
           merged == (cur.flags \ cmd[c].boxes) \cup (cmd[c].next.flags \cap cmd[c].boxes)
<1>1. /\ chain # <<>> /\ c \in Cmds /\ cmd[c].st = "reading"
      /\ SettleAndEnqueue(SetupPost) /\ cmd' = [cmd EXCEPT ![c].st = "writing"]
  BY DEF SetupReadForWrite, SetupPost
<1>2. Served.zone \in Zones /\ devRoom[Served.zone] \in DeviceRoom /\ cmd[c].next \in StoreRoom
  BY <1>1, ServedType DEF TypeOK, Command
<1>3. cur.slots \in SlotTable /\ cur.flags \in SUBSET Flags /\ cmd[c].next.flags \in SUBSET Flags
  BY <1>2 DEF SetupPage, DeviceRoom, StoreRoom
<1>4. [slots |-> cur.slots, flags |-> merged] \in SetupForm
  BY <1>3 DEF SetupForm
<1>5. SetupPost \in Request
  BY <1>1, <1>2, <1>4 DEF SetupPost, Post, Request
<1> QED
  BY <1>1, <1>5 DEF SetupPost, Post

LEMMA SetupReadOwn == ASSUME TypeOK, OwnRequests, SetupReadForWrite PROVE OwnRequests'
<1> DEFINE c == Served.by
           call == [cmd[c] EXCEPT !.st = "writing"]
<1>1. Awaits(cmd[c], Served) /\ cmd[c] \in Command /\ cmd[c].st = "reading"
  BY SetupPosted, ServedAwaited DEF TypeOK
<1>2. call.st = "writing" /\ call.kind = "flags" /\ Served.zone = call.zone
  BY <1>1 DEF Awaits, Command
<1> HIDE DEF call
<1>3. Awaits(call, SetupPost)
  BY <1>2, SetupPosted DEF Awaits, PendingState, FormOf, RoomKind, Carries
<1> QED
  BY <1>3, SetupPosted, GoesOn DEF call

LEMMA WriteAcceptedOwn == ASSUME TypeOK, OwnRequests, WriteAccepted PROVE OwnRequests'
<1> DEFINE c == Served.by
           req == RefreshAfter(Served)
           call == [cmd[c] EXCEPT !.st = "refreshing"]
<1>1. /\ chain # <<>> /\ Served.op \in FormOp /\ SettleAndEnqueue(req)
      /\ cmd' = [cmd EXCEPT ![c].st = "refreshing"]
  BY DEF WriteAccepted, Writing
<1>2. c \in Cmds /\ Awaits(cmd[c], Served) /\ Served.zone \in Zones /\ cmd[c] \in Command
  BY <1>1, ServedAwaited, ServedType DEF TypeOK
<1>3. cmd[c].st = "writing" /\ Served.op = FormOf(cmd[c].kind)
  BY <1>1, <1>2 DEF Awaits, PendingState, FormOp, PageOf
<1>4. call.st = "refreshing" /\ call.kind = cmd[c].kind /\ call.zone = cmd[c].zone
  BY <1>2 DEF Command
<1>5. /\ req \in Request /\ req.by = c /\ req.zone = Served.zone
      /\ req.op = PageOf(cmd[c].kind)
  BY <1>2, <1>3, Waiters DEF RefreshAfter, Read, Request, ReadOp, FormOf, PageOf, RoomKind
<1> HIDE DEF req, call
<1>6. Awaits(call, req)
  BY <1>2, <1>4, <1>5 DEF Awaits, PendingState
<1> QED
  BY <1>1, <1>2, <1>5, <1>6, GoesOn DEF call

LEMMA WriteFailsOwn == ASSUME TypeOK, OwnRequests, WriteFails PROVE OwnRequests'
<1>1. chain # <<>> /\ Served.by \in Cmds /\ chain' = Tail(chain) /\ Returned(Served.by, "failed")
  BY DEF WriteFails, Settle
<1>2. /\ \A d \in Cmds : d # Served.by => cmd'[d] = cmd[d]
      /\ cmd'[Served.by].st \notin PendingState
  BY <1>1 DEF Returned, TypeOK, Command, PendingState
<1>3. OwnIn(Tail(chain), cmd', Nobody)
  BY <1>1, <1>2, ServedAwaited, OwnReturn
<1> QED
  BY <1>1, <1>3 DEF OwnRequests, Nobody, Timer

\* The Poller queues a read of its own.
LEMMA PollerOwn ==
    ASSUME TypeOK, OwnRequests, NEW req \in Request, req.by = Timer \/ req.by = Boot,
           Enqueue(req), UNCHANGED cmd
    PROVE  OwnRequests'
<1>1. chain' = Append(chain, req) /\ chain \in Seq(Request) /\ req.by \notin Cmds
  BY NobodyCalls DEF Enqueue, TypeOK
<1>2. OwnIn(chain, cmd, req.by)
  BY <1>1, OwnIdle DEF OwnRequests
<1>3. OwnIn(Append(chain, req), cmd', Nobody)
  BY <1>1, <1>2, OwnAppend
<1> QED
  BY <1>1, <1>3 DEF OwnRequests, Nobody, Timer

LEMMA InitOwn == Init => OwnRequests
<1> SUFFICES ASSUME Init PROVE OwnRequests
  OBVIOUS
<1>1. Len(chain) = 1 /\ chain[1].by = Boot
  BY DEF Init, Read
<1>2. \A c \in Cmds : cmd[c].st = "idle"
  BY DEF Init, BlankCommand
<1> QED
  BY <1>1, <1>2, NobodyCalls DEF OwnRequests, OwnIn, PendingState

LEMMA NextOwn == TypeOK /\ OwnRequests /\ [Next]_vars => OwnRequests'
<1> SUFFICES ASSUME TypeOK, OwnRequests, [Next]_vars PROVE OwnRequests'
  OBVIOUS
<1>1. ASSUME NEW op \in ReadOp, NEW z \in Zones, TimerFires(op, z) PROVE OwnRequests'
  <2>1. Read(op, z, Timer) \in Request /\ Read(op, z, Timer).by = Timer
    BY Waiters, ReadType DEF Read
  <2> QED
    BY <1>1, <2>1, PollerOwn DEF TimerFires
<1>2. CASE PollDashboard \/ PollRoomList \/ PollRoomDetailRR
  <2>1. 1 \in Zones /\ rrIndex + 1 \in Zones
    BY RoomSyncAssumption DEF Zones, TypeOK
  <2> QED
    BY <1>1, <1>2, <2>1 DEF PollDashboard, PollRoomList, PollRoomDetailRR, ReadOp
<1>3. ASSUME UNCHANGED <<chain, cmd>> PROVE OwnRequests'
  BY <1>3 DEF OwnRequests, Nobody, Timer
<1>4. CASE BootReadsRooms
  <2>1. CASE listed
    <3>1. BootPage(1) \in Request
      BY RoomSyncAssumption, BootPageType
    <3>2. BootPage(1).by = Boot
      BY DEF BootPage, Read
    <3> HIDE DEF BootPage
    <3> QED
      BY <1>4, <2>1, <3>1, <3>2, PollerOwn DEF BootReadsRooms
  <2>2. CASE ~listed
    BY <1>3, <1>4, <2>2 DEF BootReadsRooms, clientVars
  <2> QED
    BY <2>1, <2>2
<1>5. CASE PollLands \/ PollFails
  <2>1. chain # <<>> /\ \E landed \in BOOLEAN : AfterPoll(landed)
    BY <1>5 DEF PollLands, PollFails, DashboardLands, RoomListLands, DetailLands, SetupLands,
                Polling
  <2> QED
    BY <2>1, AfterPollOwn
<1>6. CASE TimeoutRetried \/ Panel \/ UNCHANGED vars
  BY <1>3, <1>6 DEF TimeoutRetried, RetryInPlace, Panel, vars, clientVars
<1> QED
  BY <1>2, <1>4, <1>5, <1>6, IssueOwn, SetupReadOwn, WriteAcceptedOwn, WriteFailsOwn
     DEF Next, Answered

\* A call waits for exactly one request as long as it has not returned: the
\* promise chain drops none and doubles none, however many calls there are and
\* however their requests end.
THEOREM OneRequestPerCall == Spec => []PendingHasOneRequest
<1>1. TypeOK /\ OwnRequests => PendingHasOneRequest
  <2> SUFFICES ASSUME TypeOK, OwnRequests, NEW c \in Cmds
               PROVE  Cardinality({i \in 1..Len(chain) : chain[i].by = c})
                         = IF Pending(c) THEN 1 ELSE 0
    BY DEF PendingHasOneRequest
  <2> DEFINE mine == {i \in 1..Len(chain) : chain[i].by = c}
  <2>1. Pending(c) <=> cmd[c].st \in PendingState
    BY DEF Pending, PendingState
  <2>2. CASE Pending(c)
    <3>1. PICK i \in 1..Len(chain) : chain[i].by = c
      BY <2>1, <2>2, NobodyCalls DEF OwnRequests, OwnIn
    <3>2. mine = {i}
      BY <3>1 DEF OwnRequests, OwnIn
    <3> HIDE DEF mine
    <3>3. Cardinality(mine) = 1
      BY <3>2, FS_Singleton
    <3> QED
      BY <2>2, <3>3 DEF mine
  <2>3. CASE ~Pending(c)
    <3>1. mine = {}
      BY <2>1, <2>3 DEF OwnRequests, OwnIn, Awaits
    <3> HIDE DEF mine
    <3>2. Cardinality(mine) = 0
      BY <3>1, FS_EmptySet
    <3> QED
      BY <2>3, <3>2 DEF mine
  <2> QED
    BY <2>2, <2>3
<1>2. Init => TypeOK /\ OwnRequests
  BY InitTypeOK, InitOwn
<1>3. TypeOK /\ OwnRequests /\ [Next]_vars => TypeOK' /\ OwnRequests'
  BY NextTypeOK, NextOwn
<1> QED
  BY <1>1, <1>2, <1>3, PTL DEF Spec

-----------------------------------------------------------------------------
(* What a step does to a call, to the forms that wait, and to a room.        *)

\* Call c goes on being the call it was issued as.
SameAsk(c) ==
    /\ cmd'[c].kind = cmd[c].kind /\ cmd'[c].zone = cmd[c].zone
    /\ cmd'[c].next = cmd[c].next /\ cmd'[c].sysNext = cmd[c].sysNext
    /\ cmd'[c].fields = cmd[c].fields /\ cmd'[c].boxes = cmd[c].boxes
    /\ cmd'[c].seen = cmd[c].seen

\* How a call advances, when the request it waits for is answered.
Advance ==
    {<<"reading", "writing">>, <<"writing", "refreshing">>, <<"reading", "failed">>,
     <<"writing", "failed">>, <<"refreshing", "ok">>, <<"refreshing", "unrefreshed">>}

\* The forms in queue `q`.
Forms(q) == {q[i] : i \in {k \in 1..Len(q) : q[k].op \in FormOp}}

LEMMA FormsTail ==
    ASSUME NEW q \in Seq(Request), q # <<>>
    PROVE  Forms(Tail(q)) \subseteq Forms(q)
<1> DEFINE rest == Tail(q)
<1>1. Len(q) \in Nat /\ Len(rest) = Len(q) - 1 /\ \A i \in 1..Len(rest) : rest[i] = q[i + 1]
  BY HeadTailProperties
<1> HIDE DEF rest
<1>2. \A i \in 1..Len(rest) : i + 1 \in 1..Len(q)
  BY <1>1
<1> QED
  BY <1>1, <1>2 DEF Forms, rest

LEMMA FormsAppend ==
    ASSUME NEW q \in Seq(Request), NEW req \in Request
    PROVE  /\ req.op \notin FormOp => Forms(Append(q, req)) = Forms(q)
           /\ req.op \in FormOp => Forms(Append(q, req)) = Forms(q) \cup {req}
<1> DEFINE new == Append(q, req)
<1>1. /\ Len(q) \in Nat /\ Len(new) = Len(q) + 1
      /\ \A i \in 1..Len(q) : new[i] = q[i]
      /\ new[Len(q) + 1] = req
  BY AppendProperties
<1> HIDE DEF new
<1>2. \A i : i \in 1..Len(new) <=> i \in 1..Len(q) \/ i = Len(q) + 1
  BY <1>1
<1>3. ASSUME NEW r PROVE r \in Forms(new) <=> r \in Forms(q) \/ (r = req /\ req.op \in FormOp)
  BY <1>1, <1>2 DEF Forms
<1> QED
  BY <1>3 DEF new

\* A form that waits is one that the call which posted it waits for.
LEMMA FormAwaited ==
    ASSUME TypeOK, OwnRequests, NEW r \in Forms(chain)
    PROVE  /\ r \in Request /\ r.by \in Cmds
           /\ cmd[r.by].st = "writing" /\ r.op = FormOf(cmd[r.by].kind)
           /\ Carries(cmd[r.by], r.form)
           /\ cmd[r.by].kind # "system" => r.zone = cmd[r.by].zone
<1>1. PICK i \in 1..Len(chain) : r = chain[i] /\ r.op \in FormOp
  BY DEF Forms
<1>2. r \in Request
  BY <1>1, ElementOfSeq DEF TypeOK
<1>3. r.by \in Cmds
  BY <1>1, <1>2 DEF Request, FormOp, ReadOp
<1>4. Awaits(cmd[r.by], r)
  BY <1>1, <1>3 DEF OwnRequests, OwnIn
<1> QED
  BY <1>1, <1>2, <1>3, <1>4 DEF Awaits, PendingState, FormOp, PageOf

\* The request served, when it is a form, is one of them; so is what a retry
\* repeats.
LEMMA ServedForm ==
    ASSUME TypeOK, chain # <<>>, Served.op \in FormOp
    PROVE  Served \in Forms(chain)
<1>1. chain \in Seq(Request) /\ 1 \in 1..Len(chain) /\ Served = chain[1]
  BY HeadTailProperties DEF TypeOK, Served
<1> QED
  BY <1>1 DEF Forms

\* The live setpoint, mode, light and slots of a room are as they were.
SameHeating(room, old) ==
    /\ room.mode = old.mode /\ room.light = old.light /\ room.slots = old.slots
    /\ LiveSetpoint(room) = LiveSetpoint(old)

\* The Store's room shows what the detail page of zone z shows.
ShowsPage(room, z) ==
    /\ room.mode = devRoom[z].mode /\ room.light = devRoom[z].light
    /\ \E s \in ActiveSlots(devRoom[z].mode) :
          LiveSetpoint(room) = devRoom[z].slots[SeasonOf(devMode)][s]

LEMMA DetailShows ==
    ASSUME TypeOK, DetailLands
    PROVE  /\ Served.zone \in Zones
           /\ \A z \in Zones : store'[z].flags = store[z].flags
           /\ \A z \in Zones \ {Served.zone} : store'[z] = store[z]
           /\ ShowsPage(store'[Served.zone], Served.zone)
<1> DEFINE z == Served.zone
           shown == devRoom[z].slots[SeasonOf(devMode)]
           read == [store[z] EXCEPT !.mode = devRoom[z].mode,
                                    !.light = devRoom[z].light, !.slots = shown]
<1>1. z \in Zones /\ store \in [Zones -> StoreRoom] /\ store[z] \in StoreRoom
  BY ServedType DEF DetailLands, Polling, TypeOK
<1>2. PICK s \in ActiveSlots(devRoom[z].mode) :
         store' = [store EXCEPT ![z] = WithSetpoint(read, shown[s])]
  BY <1>1 DEF DetailLands, DetailPage
<1>3. s \in Slot
  BY <1>2 DEF ActiveSlots, Slot
<1>4. devRoom[z] \in DeviceRoom /\ SeasonOf(devMode) \in Season
  BY <1>1, SeasonOfType DEF TypeOK
<1>5. shown[s] \in Temps
  BY <1>3, <1>4 DEF DeviceRoom, SlotTable
<1> HIDE DEF shown
<1>6. /\ read.mode = devRoom[z].mode /\ read.light = devRoom[z].light
      /\ read.flags = store[z].flags
  BY <1>1 DEF StoreRoom
<1>7. /\ WithSetpoint(read, shown[s]).mode = read.mode
      /\ WithSetpoint(read, shown[s]).light = read.light
      /\ WithSetpoint(read, shown[s]).flags = read.flags
      /\ LiveSetpoint(WithSetpoint(read, shown[s])) = shown[s]
  BY <1>1, <1>5, RoomSyncAssumption DEF WithSetpoint, LiveSetpoint, OrElse, StoreRoom
<1> HIDE DEF read
<1>8. store'[z] = WithSetpoint(read, shown[s]) /\ \A y \in Zones \ {z} : store'[y] = store[y]
  BY <1>1, <1>2
<1> QED
  BY <1>1, <1>2, <1>6, <1>7, <1>8 DEF ShowsPage, shown

LEMMA SetupShows ==
    ASSUME TypeOK, SetupLands
    PROVE  /\ Served.zone \in Zones
           /\ \A z \in Zones : SameHeating(store'[z], store[z])
           /\ \A z \in Zones \ {Served.zone} : store'[z] = store[z]
           /\ store'[Served.zone].flags = devRoom[Served.zone].flags
<1>1. Served.zone \in Zones /\ store \in [Zones -> StoreRoom]
  BY ServedType DEF SetupLands, Polling, TypeOK
<1>2. store' = [store EXCEPT ![Served.zone] =
                    [store[Served.zone] EXCEPT !.flags = devRoom[Served.zone].flags]]
  BY <1>1 DEF SetupLands, SetupPage
<1> QED
  BY <1>1, <1>2 DEF SameHeating, LiveSetpoint, OrElse, StoreRoom

\* A poll that ends, well or not, changes nothing at the controller and posts
\* no form; a call that waited for it returns.
LEMMA PollStep ==
    ASSUME TypeOK, OwnRequests, PollLands \/ PollFails
    PROVE  /\ UNCHANGED deviceVars /\ chain # <<>>
           /\ Forms(chain') \subseteq Forms(chain)
           /\ \A c \in Cmds :
                 \/ cmd'[c] = cmd[c]
                 \/ /\ c = Served.by /\ SameAsk(c) /\ cmd[c].st = "refreshing"
                    /\ cmd'[c].st = IF PollFails THEN "unrefreshed" ELSE "ok"
           /\ \A z \in Zones : SameHeating(store'[z], store[z]) \/ ShowsPage(store'[z], z)
           /\ \A z \in Zones : store'[z].flags \in {store[z].flags, devRoom[z].flags}
           /\ sysMode' \in {sysMode, devMode}
<1>1. chain # <<>> /\ UNCHANGED deviceVars
  BY DEF PollLands, PollFails, DashboardLands, RoomListLands, DetailLands, SetupLands, Polling
<1>2. PollFails => store' = store /\ sysMode' = sysMode
  BY DEF PollFails, storeVars
<1>3. ~PollFails => AfterPoll(TRUE)
  BY DEF PollLands, DashboardLands, RoomListLands, DetailLands, SetupLands
<1>4. PollFails => AfterPoll(FALSE)
  BY DEF PollFails
<1>5. Served.by \in Cmds => cmd[Served.by].st = "refreshing"
  BY DEF PollLands, PollFails, DashboardLands, RoomListLands, DetailLands, SetupLands, Polling
<1>6. ASSUME NEW landed \in BOOLEAN, AfterPoll(landed)
      PROVE  /\ Forms(chain') \subseteq Forms(chain)
             /\ \A c \in Cmds :
                   \/ cmd'[c] = cmd[c]
                   \/ /\ c = Served.by /\ SameAsk(c) /\ cmd[c].st = "refreshing"
                      /\ cmd'[c].st = IF landed THEN "ok" ELSE "unrefreshed"
  <2>1. chain \in Seq(Request) /\ Tail(chain) \in Seq(Request)
    BY <1>1, HeadTailProperties DEF TypeOK
  <2>2. Forms(Tail(chain)) \subseteq Forms(chain)
    BY <1>1, <2>1, FormsTail
  <2>3. ASSUME NEW req \in Request, req.op \in ReadOp
        PROVE  Forms(Append(Tail(chain), req)) \subseteq Forms(chain)
    BY <2>1, <2>2, <2>3, FormsAppend DEF ReadOp, FormOp
  <2>4. CASE UNCHANGED cmd
    <3>1. CASE chain' = Tail(chain)
      BY <2>2, <2>4, <3>1
    <3>2. CASE chain' = Append(Tail(chain), Read("list", 1, Boot))
      <4>1. Read("list", 1, Boot) \in Request /\ Read("list", 1, Boot).op \in ReadOp
        BY RoomSyncAssumption, Waiters, ReadType DEF ReadOp, Zones, Read
      <4> QED
        BY <2>3, <2>4, <3>2, <4>1
    <3>3. CASE page < 2 * NZones /\ chain' = Append(Tail(chain), BootPage(page + 1))
      <4>1. page + 1 \in 1..(2 * NZones)
        BY <3>3, RoomSyncAssumption DEF TypeOK
      <4>2. BootPage(page + 1) \in Request /\ BootPage(page + 1).op \in ReadOp
        BY <4>1, BootPageType DEF BootPage, Read, ReadOp
      <4> HIDE DEF BootPage
      <4> QED
        BY <2>3, <2>4, <3>3, <4>2
    <3>4. \/ chain' = Tail(chain)
          \/ chain' = Append(Tail(chain), Read("list", 1, Boot))
          \/ page < 2 * NZones /\ chain' = Append(Tail(chain), BootPage(page + 1))
      BY <1>6 DEF AfterPoll, Settle, SettleAndEnqueue
    <3> QED
      BY <3>1, <3>2, <3>3, <3>4
  <2>5. CASE /\ Served.by \in Cmds /\ Settle
             /\ Returned(Served.by, IF landed THEN "ok" ELSE "unrefreshed")
    <3>1. \A c \in Cmds :
             \/ cmd'[c] = cmd[c]
             \/ /\ c = Served.by /\ SameAsk(c)
                /\ cmd'[c].st = IF landed THEN "ok" ELSE "unrefreshed"
      BY <2>5 DEF Returned, SameAsk, TypeOK, Command
    <3> QED
      BY <1>5, <2>2, <2>5, <3>1 DEF Settle
  <2> QED
    BY <1>6, <2>4, <2>5 DEF AfterPoll
<1>7. ASSUME ~PollFails
      PROVE  /\ \A z \in Zones : SameHeating(store'[z], store[z]) \/ ShowsPage(store'[z], z)
             /\ \A z \in Zones : store'[z].flags \in {store[z].flags, devRoom[z].flags}
             /\ sysMode' \in {sysMode, devMode}
  <2>1. CASE DashboardLands \/ RoomListLands
    BY <2>1 DEF SameHeating, DashboardLands, RoomListLands, DashboardPage
  <2>2. CASE DetailLands
    <3>1. sysMode' = sysMode
      BY <2>2 DEF DetailLands
    <3> QED
      BY <2>2, <3>1, DetailShows DEF SameHeating
  <2>3. CASE SetupLands
    <3>1. sysMode' = sysMode
      BY <2>3 DEF SetupLands
    <3> QED
      BY <2>3, <3>1, SetupShows
  <2> QED
    BY <1>7, <2>1, <2>2, <2>3 DEF PollLands
<1>8. CASE PollFails
  <2>1. /\ sysMode' = sysMode
        /\ \A z \in Zones : SameHeating(store'[z], store[z]) /\ store'[z].flags = store[z].flags
    BY <1>2, <1>8 DEF SameHeating
  <2> QED
    BY <1>1, <1>4, <1>6, <1>8, <2>1
<1>9. CASE ~PollFails
  BY <1>1, <1>3, <1>6, <1>7, <1>9
<1> QED
  BY <1>8, <1>9

\* The fields of a room that a kind of call touches.
FieldsOf(kind) ==
    CASE kind = "setpoint" -> {"heating", "cooling"}
      [] kind \in {"mode", "mode-at"} -> {"mode", "heating", "cooling"}
      [] kind = "light" -> {"light"}
      [] OTHER -> {}

\* Call c comes in and writes a room: what it posts is what the Store then
\* shows for the room, made of its own fields and of those it found there.
IssuesRoomForm(c) ==
    LET call == cmd'[c]
        old == store[call.zone]
        new == store'[call.zone]
    IN  /\ call.st = "writing" /\ call.kind \in RoomKind /\ call.zone \in Zones
        /\ call.fields = FieldsOf(call.kind) /\ call.boxes = {}
        /\ call.seen = Seen(old)
        /\ new.mode = IF "mode" \in call.fields THEN call.next.mode ELSE old.mode
        /\ new.light = IF "light" \in call.fields THEN call.next.light ELSE old.light
        /\ LiveSetpoint(new) =
              IF "heating" \in call.fields THEN LiveSetpoint(call.next) ELSE LiveSetpoint(old)
        /\ LiveSetpoint(new) # Null
        /\ new.slots = old.slots
        /\ \A z \in Zones \ {call.zone} : store'[z] = store[z]
        /\ Forms(chain') = Forms(chain) \cup
              {Post("room-form", call.zone, c, FormFor(new.mode, LiveSetpoint(new), new.light))}
        /\ \E req \in Request : /\ req.by = c /\ chain' = Append(chain, req)

IssuesSystemForm(c) ==
    /\ cmd'[c].st = "writing" /\ cmd'[c].kind = "system"
    /\ cmd'[c].fields = cmd[c].fields /\ cmd'[c].boxes = cmd[c].boxes
    /\ store' = store

IssuesSetupRead(c) ==
    /\ cmd'[c].st = "reading" /\ cmd'[c].kind = "flags" /\ cmd'[c].fields = {}
    /\ cmd'[c].zone \in Zones
    /\ \A z \in Zones : SameHeating(store'[z], store[z])
    /\ Forms(chain') = Forms(chain)

IsRefused(c) ==
    /\ cmd'[c].st = "refused" /\ cmd'[c].kind \in {"mode", "light"}
    /\ cmd'[c].fields = cmd[c].fields /\ cmd'[c].boxes = cmd[c].boxes
    /\ cmd'[c].seen = cmd[c].seen
    /\ UNCHANGED <<chain, store>>

\* A command comes in: the next one, and no other call changes.
IssueStep(c) ==
    /\ cmd[c].st = "idle" /\ \A d \in 1..(c - 1) : d \in Issued
    /\ UNCHANGED deviceVars
    /\ \A d \in Cmds \ {c} : cmd'[d] = cmd[d]
    /\ \/ IssuesRoomForm(c)
       \/ IssuesSystemForm(c)
       \/ IssuesSetupRead(c)
       \/ IsRefused(c)

\* What optimistic() does.
Patches(c, kind, z, next, fields, boxes, req) ==
    /\ cmd[c].st = "idle" /\ \A d \in 1..(c - 1) : d \in Issued
    /\ UNCHANGED deviceVars
    /\ \A d \in Cmds \ {c} : cmd'[d] = cmd[d]
    /\ cmd'[c].st = IF kind = "flags" THEN "reading" ELSE "writing"
    /\ cmd'[c].kind = kind /\ cmd'[c].zone = z
    /\ cmd'[c].fields = fields /\ cmd'[c].boxes = boxes
    /\ cmd'[c].next = Part(next, fields, boxes) /\ cmd'[c].seen = Seen(store[z])
    /\ store'[z] = Overlay(store[z], next, fields, boxes)
    /\ \A y \in Zones \ {z} : store'[y] = store[y]
    /\ chain' = Append(chain, req)
    /\ req.op \notin FormOp => Forms(chain') = Forms(chain)
    /\ req.op \in FormOp => Forms(chain') = Forms(chain) \cup {req}

LEMMA OptimisticStep ==
    ASSUME TypeOK, NEW c \in Cmds, NEW kind, NEW z \in Zones, NEW next, NEW fields,
           NEW boxes, NEW req \in Request, Optimistic(c, kind, z, next, fields, boxes, req)
    PROVE  Patches(c, kind, z, next, fields, boxes, req)
<1>1. /\ cmd[c].st = "idle" /\ \A d \in 1..(c - 1) : d \in Issued
      /\ UNCHANGED deviceVars /\ chain' = Append(chain, req)
      /\ cmd \in [Cmds -> Command] /\ store \in [Zones -> StoreRoom] /\ chain \in Seq(Request)
  BY DEF Optimistic, Arrives, Enqueue, TypeOK
<1>2. cmd' = [cmd EXCEPT ![c] =
          [cmd[c] EXCEPT !.st = IF kind = "flags" THEN "reading" ELSE "writing",
                    !.kind = kind, !.zone = z, !.fields = fields, !.boxes = boxes,
                    !.next = Part(next, fields, boxes),
                    !.prev = Part(store[z], fields, boxes),
                    !.seen = Seen(store[z])]]
  BY <1>1 DEF Optimistic
<1>3. store' = [store EXCEPT ![z] = Overlay(store[z], next, fields, boxes)]
  BY <1>1 DEF Optimistic
<1>4. /\ req.op \notin FormOp => Forms(chain') = Forms(chain)
      /\ req.op \in FormOp => Forms(chain') = Forms(chain) \cup {req}
  BY <1>1, FormsAppend
<1> QED
  BY <1>1, <1>2, <1>3, <1>4 DEF Patches, Command

\* What optimistic() does for a call that writes a room.
LEMMA RoomFormStep ==
    ASSUME TypeOK, NEW c \in Cmds, NEW kind \in RoomKind, NEW z \in Zones, NEW next, NEW fields,
           fields = FieldsOf(kind), NEW m, NEW v \in Temps, NEW l, NEW req,
           req = Post("room-form", z, c, FormFor(m, v, l)), req \in Request,
           Optimistic(c, kind, z, next, fields, {}, req),
           NEW new, new = Overlay(store[z], next, fields, {}),
           new.mode = m, new.light = l, LiveSetpoint(new) = v,
           m = IF "mode" \in fields THEN Part(next, fields, {}).mode ELSE store[z].mode,
           l = IF "light" \in fields THEN Part(next, fields, {}).light ELSE store[z].light,
           v = IF "heating" \in fields THEN LiveSetpoint(Part(next, fields, {}))
               ELSE LiveSetpoint(store[z])
    PROVE  IssueStep(c)
<1>1. req.by = c /\ req.op \in FormOp /\ kind # "flags"
  BY DEF Post, FormOp, RoomKind
<1>2. new.slots = store[z].slots /\ v # Null
  BY RoomSyncAssumption DEF Overlay
<1>3. Patches(c, kind, z, next, fields, {}, req)
  BY OptimisticStep
<1>4. IssuesRoomForm(c)
  BY <1>1, <1>2, <1>3 DEF IssuesRoomForm, Patches
<1> QED
  BY <1>3, <1>4 DEF IssueStep, Patches

LEMMA RefusedStep ==
    ASSUME TypeOK, NEW c \in Cmds, NEW kind \in {"mode", "light"}, NEW z, Refused(c, kind, z)
    PROVE  IssueStep(c)
<1>1. cmd' = [cmd EXCEPT ![c] = [cmd[c] EXCEPT !.st = "refused", !.kind = kind, !.zone = z]]
  BY DEF Refused, TypeOK
<1>2. IsRefused(c) /\ \A d \in Cmds \ {c} : cmd'[d] = cmd[d]
  BY <1>1 DEF IsRefused, Refused, clientVars, TypeOK, Command
<1> QED
  BY <1>2 DEF IssueStep, Refused, Arrives

LEMMA WriteModeStep ==
    ASSUME TypeOK, NEW c \in Cmds, NEW kind \in {"mode", "mode-at"}, NEW z \in Zones,
           NEW m \in RoomMode, NEW v \in Temps, WriteMode(c, kind, z, m, v)
    PROVE  IssueStep(c)
<1> DEFINE room == [store[z] EXCEPT !.mode = m]
           next == WithSetpoint(room, v)
           fields == {"mode", "heating", "cooling"}
           req == Post("room-form", z, c, FormFor(m, v, store[z].light))
<1>1. store[z] \in StoreRoom /\ store[z].light \in BOOLEAN
  BY DEF TypeOK, StoreRoom
<1>2. /\ room \in StoreRoom /\ room.mode = m /\ room.light = store[z].light
      /\ room.slots = store[z].slots
  BY <1>1 DEF StoreRoom
<1>3. req \in Request /\ req.by = c /\ req.op = "room-form"
  BY <1>1, FormForType DEF Post, Request
<1>4. Optimistic(c, kind, z, next, fields, {}, req)
  BY DEF WriteMode
<1> HIDE DEF room
<1>5. LiveSetpoint(Part(next, fields, {})) = v /\ Part(next, fields, {}).mode = m
  BY <1>2, SetpointKept
<1>6. LET new == Overlay(store[z], next, fields, {})
      IN  /\ new.mode = m /\ new.light = store[z].light /\ new.slots = store[z].slots
          /\ LiveSetpoint(new) = v
  BY <1>2, RoomSyncAssumption DEF Overlay, WithSetpoint, LiveSetpoint, OrElse, StoreRoom
<1>7. FieldsOf(kind) = fields /\ kind \in RoomKind
  BY DEF FieldsOf, RoomKind
<1>8. "mode" \in fields /\ "heating" \in fields /\ "light" \notin fields
  OBVIOUS
<1> HIDE DEF next, fields
<1> QED
  BY <1>3, <1>4, <1>5, <1>6, <1>7, <1>8, RoomFormStep

LEMMA IssueSteps == ASSUME TypeOK, NEW c \in Cmds, Issue(c) PROVE IssueStep(c)
<1> USE RoomSyncAssumption
<1>t. \A z \in Zones : /\ store[z] \in StoreRoom
                       /\ store[z].mode \in RoomMode /\ store[z].light \in BOOLEAN
  BY DEF TypeOK, StoreRoom
<1>1. ASSUME NEW z \in Zones, NEW v \in Temps, SetRoomSetpoint(c, z, v) PROVE IssueStep(c)
  <2> DEFINE next == WithSetpoint(store[z], v)
             fields == {"heating", "cooling"}
             req == Post("room-form", z, c, FormFor(store[z].mode, v, store[z].light))
  <2>1. req \in Request /\ req.by = c /\ req.op = "room-form"
    BY <1>t, FormForType DEF Post, Request
  <2>2. Optimistic(c, "setpoint", z, next, fields, {}, req)
    BY <1>1 DEF SetRoomSetpoint
  <2>3. LiveSetpoint(Part(next, fields, {})) = v
    BY <1>t, SetpointKept
  <2>4. LET new == Overlay(store[z], next, fields, {})
        IN  /\ new.mode = store[z].mode /\ new.light = store[z].light
            /\ new.slots = store[z].slots /\ LiveSetpoint(new) = v
    BY <1>t DEF Overlay, WithSetpoint, LiveSetpoint, OrElse, StoreRoom
  <2>5. FieldsOf("setpoint") = fields /\ "setpoint" \in RoomKind
    BY DEF FieldsOf, RoomKind
  <2>6. "mode" \notin fields /\ "heating" \in fields /\ "light" \notin fields
    OBVIOUS
  <2> HIDE DEF next, fields
  <2> QED
    BY <2>1, <2>2, <2>3, <2>4, <2>5, <2>6, RoomFormStep
<1>2. ASSUME NEW z \in Zones, NEW m \in UserModes, SetRoomMode(c, z, m) PROVE IssueStep(c)
  <2> DEFINE v == SlotForMode(store[z], m)
  <2>1. v \in MaybeTemp
    BY <1>t, SetpointToSend
  <2>2. CASE v = Null
    BY <1>2, <2>2, RefusedStep DEF SetRoomMode
  <2>3. CASE v # Null
    <3>1. v \in Temps /\ WriteMode(c, "mode", z, m, v)
      BY <1>2, <2>1, <2>3 DEF SetRoomMode, MaybeTemp
    <3> QED
      BY <3>1, WriteModeStep
  <2> QED
    BY <2>2, <2>3
<1>3. ASSUME NEW z \in Zones, NEW m \in UserModes, NEW v \in Temps, SetRoomModeAt(c, z, m, v)
      PROVE  IssueStep(c)
  BY <1>3, WriteModeStep DEF SetRoomModeAt
<1>4. ASSUME NEW z \in Zones, NEW l \in BOOLEAN, SetRoomLight(c, z, l) PROVE IssueStep(c)
  <2> DEFINE v == LiveSetpoint(store[z])
             next == [store[z] EXCEPT !.light = l]
             req == Post("room-form", z, c, FormFor(store[z].mode, v, l))
  <2>1. v \in MaybeTemp
    BY <1>t, SetpointToSend
  <2>2. CASE v = Null
    BY <1>4, <2>2, RefusedStep DEF SetRoomLight
  <2>3. CASE v # Null
    <3>1. req \in Request /\ req.by = c /\ req.op = "room-form"
      BY <1>t, <2>1, <2>3, FormForType DEF Post, Request, MaybeTemp
    <3>2. Optimistic(c, "light", z, next, {"light"}, {}, req)
      BY <1>4, <2>3 DEF SetRoomLight
    <3>3. next.light = l
      BY <1>t DEF StoreRoom
    <3>4. LET new == Overlay(store[z], next, {"light"}, {})
          IN  /\ new.mode = store[z].mode /\ new.light = l
              /\ new.slots = store[z].slots /\ LiveSetpoint(new) = v
      BY <1>t, <3>3 DEF Overlay, LiveSetpoint
    <3>5. Part(next, {"light"}, {}).light = l
      BY <3>3 DEF Part, Overlay
    <3>6. FieldsOf("light") = {"light"} /\ "light" \in RoomKind /\ v \in Temps
      BY <2>1, <2>3 DEF FieldsOf, RoomKind, MaybeTemp
    <3>7. /\ store[z].mode = IF "mode" \in {"light"} THEN Part(next, {"light"}, {}).mode
                             ELSE store[z].mode
          /\ l = IF "light" \in {"light"} THEN Part(next, {"light"}, {}).light
                 ELSE store[z].light
          /\ v = IF "heating" \in {"light"} THEN LiveSetpoint(Part(next, {"light"}, {}))
                 ELSE LiveSetpoint(store[z])
      BY <3>5
    <3> HIDE DEF next
    <3> QED
      BY <3>1, <3>2, <3>4, <3>6, <3>7, RoomFormStep, SMTT(30)
  <2> QED
    BY <2>2, <2>3
<1>5. ASSUME NEW z \in Zones, NEW boxes \in SUBSET Flags, NEW on \in SUBSET boxes,
             SetRoomFlags(c, z, boxes, on)
      PROVE  IssueStep(c)
  <2> DEFINE next == [store[z] EXCEPT !.flags = on]
             req == Read("setup", z, c)
  <2>1. req \in Request /\ req.op \notin FormOp
    BY Waiters, ReadType DEF Read, ReadOp, FormOp
  <2>2. Optimistic(c, "flags", z, next, {}, boxes, req)
    BY <1>5 DEF SetRoomFlags
  <2> HIDE DEF next, req
  <2>3. SameHeating(Overlay(store[z], next, {}, boxes), store[z])
    BY DEF SameHeating, Overlay, LiveSetpoint
  <2>4. Patches(c, "flags", z, next, {}, boxes, req)
    BY <2>1, <2>2, OptimisticStep
  <2>5. \A y \in Zones : SameHeating(store'[y], store[y])
    BY <2>3, <2>4 DEF SameHeating, Patches
  <2>6. IssuesSetupRead(c)
    BY <2>1, <2>4, <2>5 DEF IssuesSetupRead, Patches
  <2> QED
    BY <2>4, <2>6 DEF IssueStep, Patches
<1>6. ASSUME NEW m \in UserSysModes, SetOperatingMode(c, m) PROVE IssueStep(c)
  <2>1. cmd' = [cmd EXCEPT ![c] = [cmd[c] EXCEPT !.st = "writing", !.kind = "system",
                                                 !.sysNext = m, !.sysPrev = sysMode]]
    BY <1>6 DEF SetOperatingMode, TypeOK
  <2>2. IssuesSystemForm(c) /\ \A d \in Cmds \ {c} : cmd'[d] = cmd[d]
    BY <1>6, <2>1 DEF IssuesSystemForm, SetOperatingMode, TypeOK, Command
  <2> QED
    BY <1>6, <2>2 DEF IssueStep, SetOperatingMode, Arrives
<1> QED
  BY <1>1, <1>2, <1>3, <1>4, <1>5, <1>6 DEF Issue

LEMMA SetupReadStep ==
    ASSUME TypeOK, OwnRequests, SetupReadForWrite
    PROVE  /\ chain # <<>> /\ UNCHANGED <<deviceVars, storeVars>>
           /\ Served.by \in Cmds /\ cmd[Served.by].st = "reading"
           /\ cmd[Served.by].kind = "flags" /\ Served.zone = cmd[Served.by].zone
           /\ cmd'[Served.by].st = "writing" /\ SameAsk(Served.by)
           /\ \A d \in Cmds \ {Served.by} : cmd'[d] = cmd[d]
<1>1. Awaits(cmd[Served.by], Served) /\ Served.by \in Cmds /\ chain # <<>>
  BY ServedAwaited DEF SetupReadForWrite
<1>2. cmd' = [cmd EXCEPT ![Served.by] = [cmd[Served.by] EXCEPT !.st = "writing"]]
  BY DEF SetupReadForWrite, TypeOK
<1> QED
  BY <1>1, <1>2 DEF SetupReadForWrite, Awaits, SameAsk, TypeOK, Command

\* The controller obeys the form that is served, which a call waits for.
FormServed ==
    /\ chain # <<>> /\ Served.op \in FormOp /\ Served \in Forms(chain)
    /\ Served.by \in Cmds /\ cmd[Served.by].st = "writing"

LEMMA WriteStep ==
    ASSUME TypeOK, OwnRequests, WriteAccepted
    PROVE  /\ FormServed /\ Obeyed(Served) /\ UNCHANGED <<panel, storeVars>>
           /\ Forms(chain') \subseteq Forms(chain)
           /\ cmd'[Served.by].st = "refreshing" /\ SameAsk(Served.by)
           /\ \A d \in Cmds \ {Served.by} : cmd'[d] = cmd[d]
<1>1. chain # <<>> /\ Served.op \in FormOp /\ Served \in Forms(chain)
  BY ServedForm DEF WriteAccepted, Writing
<1>2. Served.by \in Cmds /\ cmd[Served.by].st = "writing" /\ Served.zone \in Zones
  BY <1>1, FormAwaited, ServedType
<1>3. cmd' = [cmd EXCEPT ![Served.by] = [cmd[Served.by] EXCEPT !.st = "refreshing"]]
  BY <1>2 DEF WriteAccepted, TypeOK
<1>4. Forms(chain') \subseteq Forms(chain)
  <2> DEFINE req == RefreshAfter(Served)
  <2>1. req \in Request /\ req.op \notin FormOp
    BY <1>2, Waiters DEF RefreshAfter, Read, Request, ReadOp, FormOp
  <2>2. chain' = Append(Tail(chain), req)
    BY DEF WriteAccepted, SettleAndEnqueue
  <2>3. Tail(chain) \in Seq(Request) /\ Forms(Tail(chain)) \subseteq Forms(chain)
    BY <1>1, FormsTail, HeadTailProperties DEF TypeOK
  <2> HIDE DEF req
  <2> QED
    BY <2>1, <2>2, <2>3, FormsAppend
<1> QED
  BY <1>1, <1>2, <1>3, <1>4 DEF FormServed, WriteAccepted, SameAsk, TypeOK, Command

LEMMA FailStep ==
    ASSUME TypeOK, OwnRequests, WriteFails
    PROVE  /\ chain # <<>> /\ MaybeObeyed(Served) /\ UNCHANGED panel
           /\ Forms(chain') \subseteq Forms(chain)
           /\ Served.by \in Cmds /\ cmd[Served.by].st \in {"reading", "writing"}
           /\ Revert(Served.by)
           /\ cmd'[Served.by].st = "failed" /\ SameAsk(Served.by)
           /\ \A d \in Cmds \ {Served.by} : cmd'[d] = cmd[d]
<1>1. chain # <<>> /\ Served.by \in Cmds /\ chain' = Tail(chain) /\ chain \in Seq(Request)
  BY DEF WriteFails, Settle, TypeOK
<1>2. Forms(chain') \subseteq Forms(chain)
  BY <1>1, FormsTail
<1>3. cmd' = [cmd EXCEPT ![Served.by] =
          [cmd[Served.by] EXCEPT !.st = "failed", !.prev = BlankRoom, !.sysPrev = InitSysMode]]
  BY <1>1 DEF WriteFails, Returned, TypeOK
<1>4. /\ cmd'[Served.by].st = "failed" /\ SameAsk(Served.by)
      /\ \A d \in Cmds \ {Served.by} : cmd'[d] = cmd[d]
  BY <1>1, <1>3 DEF SameAsk, TypeOK, Command
<1> QED
  BY <1>1, <1>2, <1>4 DEF WriteFails

\* The rest of the time the calls, the Store's rooms and the forms stay.
Quiet ==
    /\ UNCHANGED <<cmd, store, sysMode>>
    /\ Forms(chain') \subseteq Forms(chain)

LEMMA TimerStep ==
    ASSUME TypeOK, PollDashboard \/ PollRoomList \/ PollRoomDetailRR \/ BootReadsRooms
    PROVE  Quiet /\ UNCHANGED deviceVars
<1>1. ASSUME NEW op \in ReadOp, NEW z \in Zones, NEW who \in Timer..Boot,
             Enqueue(Read(op, z, who))
      PROVE  Forms(chain') \subseteq Forms(chain)
  <2>1. Read(op, z, who) \in Request /\ Read(op, z, who).op \notin FormOp
    BY ReadType DEF Read, ReadOp, FormOp
  <2> QED
    BY <1>1, <2>1, FormsAppend DEF Enqueue, TypeOK
<1>2. 1 \in Zones /\ rrIndex + 1 \in Zones /\ {"dashboard", "list", "detail"} \subseteq ReadOp
  BY RoomSyncAssumption DEF Zones, TypeOK, ReadOp
<1>3. CASE PollDashboard \/ PollRoomList \/ PollRoomDetailRR
  <2>1. \E op \in ReadOp, z \in Zones : TimerFires(op, z)
    BY <1>2, <1>3 DEF PollDashboard, PollRoomList, PollRoomDetailRR
  <2> QED
    BY <1>1, <2>1, Waiters DEF TimerFires, Quiet, storeVars
<1>4. CASE BootReadsRooms
  <2>1. BootPage(1) = Read("detail", 1, Boot)
    BY DEF BootPage
  <2> QED
    BY <1>1, <1>2, <1>4, <2>1, Waiters DEF BootReadsRooms, Quiet, storeVars, clientVars
<1> QED
  BY <1>3, <1>4

LEMMA RetryStep ==
    ASSUME TypeOK, TimeoutRetried
    PROVE  Quiet /\ chain # <<>> /\ MaybeObeyed(Served) /\ UNCHANGED panel
BY DEF TimeoutRetried, RetryInPlace, Quiet, storeVars

\* Every step is of one of these sorts.
LEMMA NextSteps ==
    ASSUME TypeOK, OwnRequests, [Next]_vars
    PROVE  \/ Quiet /\ UNCHANGED deviceVars
           \/ \E c \in Cmds : Issue(c) /\ IssueStep(c)
           \/ PollLands \/ PollFails
           \/ SetupReadForWrite
           \/ WriteAccepted
           \/ WriteFails
           \/ TimeoutRetried
           \/ panel' # 0 /\ Quiet
<1>1. CASE UNCHANGED vars
  BY <1>1 DEF vars, Quiet, clientVars, storeVars
<1>2. CASE Panel
  <2>1. panel' # 0
    BY <1>2, RoomSyncAssumption DEF Panel, TypeOK
  <2> QED
    BY <1>2, <2>1 DEF Panel, Quiet, clientVars, storeVars
<1> QED
  BY <1>1, <1>2, TimerStep, IssueSteps DEF Next, Answered

\* What becomes of a call in a step.
LEMMA CallSteps ==
    ASSUME TypeOK, OwnRequests, [Next]_vars, NEW c \in Cmds
    PROVE  \/ cmd'[c] = cmd[c]
           \/ IssueStep(c)
           \/ /\ chain # <<>> /\ Served.by = c /\ SameAsk(c)
              /\ <<cmd[c].st, cmd'[c].st>> \in Advance
<1>1. CASE Quiet
  BY <1>1 DEF Quiet
<1>2. ASSUME NEW d \in Cmds, IssueStep(d)
      PROVE  cmd'[c] = cmd[c] \/ IssueStep(c)
  BY <1>2 DEF IssueStep
<1>3. CASE PollLands \/ PollFails
  BY <1>3, PollStep DEF Advance
<1>4. CASE SetupReadForWrite
  BY <1>4, SetupReadStep DEF Advance
<1>5. CASE WriteAccepted
  BY <1>5, WriteStep DEF Advance, FormServed
<1>6. CASE WriteFails
  BY <1>6, FailStep DEF Advance
<1>7. CASE TimeoutRetried
  BY <1>7, RetryStep DEF Quiet
<1> QED
  BY <1>1, <1>2, <1>3, <1>4, <1>5, <1>6, <1>7, NextSteps

-----------------------------------------------------------------------------
(* What the calls record, and the order they come in.                        *)

WellFormed(call) ==
    /\ call.st \in {"idle", "refused"} => call.fields = {} /\ call.boxes = {}
    /\ call.st \notin {"idle", "refused"} =>
          call.fields = FieldsOf(call.kind) /\ (call.kind = "flags" \/ call.boxes = {})
    /\ call.st = "reading" => call.kind = "flags"
    /\ call.st = "refused" => call.kind \in {"mode", "light"}

Recorded ==
    /\ \A c \in Cmds : WellFormed(cmd[c])
    /\ \A c \in Issued : \A d \in Cmds : cmd[d].st = "idle" => c < d

LEMMA InitRecorded == Init => Recorded
BY DEF Init, BlankCommand, Recorded, WellFormed, Issued

LEMMA NextRecorded ==
    ASSUME TypeOK, OwnRequests, Recorded, [Next]_vars PROVE Recorded'
<1>1. ASSUME NEW c \in Cmds PROVE WellFormed(cmd[c])'
  <2>1. CASE cmd'[c] = cmd[c]
    BY <2>1 DEF Recorded, WellFormed
  <2>2. CASE IssueStep(c)
    <3>1. WellFormed(cmd[c])
      BY DEF Recorded
    <3>2. CASE IssuesRoomForm(c)
      BY <3>2 DEF IssuesRoomForm, WellFormed
    <3>3. CASE IssuesSystemForm(c)
      BY <2>2, <3>1, <3>3 DEF IssueStep, IssuesSystemForm, WellFormed, FieldsOf
    <3>4. CASE IssuesSetupRead(c)
      BY <3>4 DEF IssuesSetupRead, WellFormed, FieldsOf
    <3>5. CASE IsRefused(c)
      BY <2>2, <3>1, <3>5 DEF IssueStep, IsRefused, WellFormed
    <3> QED
      BY <2>2, <3>2, <3>3, <3>4, <3>5 DEF IssueStep
  <2>3. CASE SameAsk(c) /\ <<cmd[c].st, cmd'[c].st>> \in Advance
    BY <2>3 DEF Recorded, WellFormed, SameAsk, Advance
  <2> QED
    BY <2>1, <2>2, <2>3, CallSteps
<1>2. ASSUME NEW c \in Cmds, NEW d \in Cmds, cmd'[c].st # "idle", cmd'[d].st = "idle"
      PROVE  c < d
  <2>1. cmd[d].st = "idle"
    <3>1. ~IssueStep(d)
      BY <1>2 DEF IssueStep, IssuesRoomForm, IssuesSystemForm, IssuesSetupRead, IsRefused
    <3> QED
      BY <1>2, <3>1, CallSteps DEF Advance
  <2>2. CASE cmd[c].st # "idle"
    BY <2>1, <2>2 DEF Recorded, Issued
  <2>3. CASE cmd[c].st = "idle"
    <3>1. IssueStep(c)
      BY <1>2, <2>3, CallSteps DEF Advance
    <3>2. d \notin 1..(c - 1) /\ d # c
      BY <1>2, <2>1, <3>1 DEF IssueStep, Issued
    <3> QED
      BY <3>2, RoomSyncAssumption DEF Cmds
  <2> QED
    BY <2>2, <2>3
<1> QED
  BY <1>1, <1>2 DEF Recorded, Issued

\* Which kinds of calls have come in can only grow.
LEMMA KindsGrow ==
    ASSUME TypeOK, OwnRequests, [Next]_vars, NEW c \in Issued
    PROVE  c \in Issued' /\ SameAsk(c)
<1>1. c \in Cmds /\ cmd[c].st # "idle"
  BY DEF Issued
<1>2. ~IssueStep(c)
  BY <1>1 DEF IssueStep
<1>3. cmd'[c].st # "idle" /\ SameAsk(c)
  BY <1>1, <1>2, CallSteps DEF Advance, SameAsk
<1> QED
  BY <1>1, <1>3 DEF Issued

LEMMA OnlyKindsBefore ==
    ASSUME TypeOK, OwnRequests, [Next]_vars, NEW ks, OnlyKinds(ks)'
    PROVE  OnlyKinds(ks)
BY KindsGrow DEF OnlyKinds, SameAsk

\* A call whose form waits, or that waits for a page, has come in.
LEMMA WaitingIsIssued ==
    ASSUME TypeOK, NEW c \in Cmds, cmd[c].st \in PendingState
    PROVE  c \in Issued
BY DEF Issued, PendingState

\* The panel is not touched without being counted.
LEMMA PanelBefore ==
    ASSUME TypeOK, OwnRequests, [Next]_vars, panel' = 0 PROVE panel = 0
<1>1. CASE Panel
  BY <1>1, RoomSyncAssumption DEF Panel, TypeOK
<1>2. CASE UNCHANGED panel
  BY <1>2
<1>3. Panel \/ UNCHANGED panel
  BY NextSteps, PollStep, SetupReadStep, WriteStep, FailStep, RetryStep
     DEF IssueStep, deviceVars, Next, vars, PollDashboard, PollRoomList, PollRoomDetailRR,
         TimerFires, BootReadsRooms, Answered
<1> QED
  BY <1>1, <1>2, <1>3

-----------------------------------------------------------------------------
(* What the controller becomes when it obeys a form.                         *)

LEMMA NothingObeyed ==
    ASSUME TypeOK, chain # <<>>, MaybeObeyed(Served), Served.op \notin FormOp
    PROVE  UNCHANGED <<devRoom, devMode>>
BY DEF MaybeObeyed, Obeyed, FormOp

LEMMA RoomFormObeyed ==
    ASSUME TypeOK, chain # <<>>, Served.op = "room-form", Obeyed(Served)
    PROVE  LET z == Served.zone
               form == Served.form
               old == devRoom[z]
               new == devRoom'[z]
               season == SeasonOf(devMode)
           IN  /\ devMode' = devMode
               /\ \A y \in Zones \ {z} : devRoom'[y] = devRoom[y]
               /\ new.mode = form.mode /\ new.light = form.light /\ new.flags = old.flags
               /\ form.mode \notin Filed => new.slots = old.slots
               /\ form.mode \in Filed =>
                     new.slots = [old.slots EXCEPT ![season] =
                                      [old.slots[season] EXCEPT ![form.mode] = form.temp]]
<1> DEFINE z == Served.zone
           form == Served.form
           season == SeasonOf(devMode)
<1>1. /\ z \in Zones /\ devRoom \in [Zones -> DeviceRoom] /\ devRoom[z] \in DeviceRoom
      /\ season \in Season
  BY ServedType, SeasonOfType DEF TypeOK
<1>2. devMode' = devMode /\ devRoom' = [devRoom EXCEPT ![z] = FileRoomForm(devRoom[z], form)]
  BY <1>1 DEF Obeyed
<1>3. devRoom[z].slots \in SlotTable
  BY <1>1 DEF DeviceRoom
<1>4. FileRoomForm(devRoom[z], form) =
        [devRoom[z] EXCEPT !.mode = form.mode, !.light = form.light,
            !.slots = [devRoom[z].slots EXCEPT ![season] =
               IF form.mode \in {"normal", "reduced"}
               THEN [devRoom[z].slots[season] EXCEPT ![form.mode] = form.temp]
               ELSE devRoom[z].slots[season]]]
  BY <1>1 DEF FileRoomForm, DeviceRoom
<1>5. devRoom'[z] = FileRoomForm(devRoom[z], form)
      /\ \A y \in Zones \ {z} : devRoom'[y] = devRoom[y]
  BY <1>1, <1>2
<1>6. [devRoom[z].slots EXCEPT ![season] = devRoom[z].slots[season]] = devRoom[z].slots
  BY <1>1, <1>3 DEF SlotTable
<1> HIDE DEF season, form, z
<1>7. /\ devRoom'[z].mode = form.mode /\ devRoom'[z].light = form.light
      /\ devRoom'[z].flags = devRoom[z].flags
      /\ devRoom'[z].slots = [devRoom[z].slots EXCEPT ![season] =
               IF form.mode \in {"normal", "reduced"}
               THEN [devRoom[z].slots[season] EXCEPT ![form.mode] = form.temp]
               ELSE devRoom[z].slots[season]]
  BY <1>1, <1>4, <1>5 DEF DeviceRoom
<1> QED
  BY <1>2, <1>5, <1>6, <1>7 DEF Filed, season, form, z

-----------------------------------------------------------------------------
(* Nothing but light switches: every form re-sends the mode and temperature  *)
(* that the controller holds already.                                        *)

\* A form with mode `m` and temperature `v` leaves a room's heating as it was.
KeepsHeating(m, v) ==
    /\ m = InitRoom.mode
    /\ m \in Filed => v = InitRoom.slots[SeasonOf(devMode)][m]

HeatingKept ==
    panel = 0 /\ OnlyKinds({"light"}) =>
        /\ \A z \in Zones :
              /\ devRoom[z].slots = InitRoom.slots /\ devRoom[z].mode = InitRoom.mode
              /\ LiveSetpoint(store[z]) # Null =>
                    KeepsHeating(store[z].mode, LiveSetpoint(store[z]))
        /\ \A r \in Forms(chain) : KeepsHeating(r.form.mode, r.form.temp)

LEMMA InitForms == Init => Forms(chain) = {}
BY DEF Init, Forms, FormOp, Read

LEMMA InitHeating == Init => HeatingKept
<1> SUFFICES ASSUME Init PROVE HeatingKept
  OBVIOUS
<1>1. \A z \in Zones : devRoom[z] = InitRoom /\ LiveSetpoint(store[z]) = Null
  BY DEF Init, BlankRoom, LiveSetpoint, OrElse
<1> QED
  BY <1>1, InitForms DEF HeatingKept

LEMMA ShowsHeating ==
    ASSUME NEW z \in Zones, NEW room, ShowsPage(room, z),
           devRoom[z].slots = InitRoom.slots, devRoom[z].mode = InitRoom.mode
    PROVE  KeepsHeating(room.mode, LiveSetpoint(room))
BY DEF ShowsPage, ActiveSlots, KeepsHeating, Filed

\* The controller's rooms keep their heating when it obeys a light's form.
LEMMA LightObeyed ==
    ASSUME TypeOK, OwnRequests, HeatingKept, panel = 0, OnlyKinds({"light"}),
           chain # <<>>, MaybeObeyed(Served)
    PROVE  /\ devMode' = devMode
           /\ \A z \in Zones : devRoom'[z].slots = InitRoom.slots /\ devRoom'[z].mode = InitRoom.mode
<1>1. CASE UNCHANGED <<devRoom, devMode>>
  BY <1>1 DEF HeatingKept
<1>2. CASE Obeyed(Served) /\ Served.op \in FormOp
  <2> DEFINE y == Served.zone
             season == SeasonOf(devMode)
  <2>1. Served \in Forms(chain) /\ y \in Zones /\ season \in Season
    BY <1>2, ServedForm, ServedType, SeasonOfType
  <2>2. Served.op = "room-form"
    <3>1. Served.by \in Cmds /\ cmd[Served.by].st = "writing"
          /\ Served.op = FormOf(cmd[Served.by].kind)
      BY <2>1, FormAwaited
    <3>2. cmd[Served.by].kind = "light"
      BY <3>1, WaitingIsIssued DEF OnlyKinds, PendingState
    <3> QED
      BY <3>1, <3>2 DEF FormOf, RoomKind
  <2>3. KeepsHeating(Served.form.mode, Served.form.temp)
    BY <2>1 DEF HeatingKept
  <2>4. devRoom[y].slots = InitRoom.slots /\ InitRoom.slots \in SlotTable
    BY <2>1, RoomSyncAssumption DEF HeatingKept, DeviceRoom
  <2>5. \A m \in Filed : [InitRoom.slots EXCEPT ![season] =
                             [InitRoom.slots[season] EXCEPT ![m] = InitRoom.slots[season][m]]]
                         = InitRoom.slots
    BY <2>1, <2>4 DEF SlotTable
  <2> HIDE DEF season
  <2>6. devRoom'[y].mode = InitRoom.mode /\ devRoom'[y].slots = InitRoom.slots
    BY <1>2, <2>2, <2>3, <2>4, <2>5, RoomFormObeyed DEF KeepsHeating, season
  <2>7. devMode' = devMode /\ \A z \in Zones \ {y} : devRoom'[z] = devRoom[z]
    BY <1>2, <2>2, RoomFormObeyed
  <2> QED
    BY <2>6, <2>7 DEF HeatingKept
<1> QED
  BY <1>1, <1>2, NothingObeyed DEF MaybeObeyed

\* A light switch that fails puts the light back and nothing else.
LEMMA LightReverted ==
    ASSUME TypeOK, Recorded, NEW c \in Cmds, cmd[c].st = "writing", cmd[c].kind = "light", Revert(c)
    PROVE  \A z \in Zones : /\ store'[z].mode = store[z].mode
                            /\ LiveSetpoint(store'[z]) = LiveSetpoint(store[z])
<1>1. /\ store \in [Zones -> StoreRoom] /\ cmd[c].zone \in Zones
      /\ cmd[c].fields = {"light"} /\ cmd[c].boxes = {}
  BY DEF TypeOK, Command, Recorded, WellFormed, FieldsOf
<1>2. store' = [store EXCEPT ![cmd[c].zone] =
                   Overlay(store[cmd[c].zone], cmd[c].prev, {"light"}, {})]
  BY <1>1 DEF Revert
<1> QED
  BY <1>1, <1>2 DEF Overlay, LiveSetpoint

LEMMA NextHeating ==
    ASSUME TypeOK, OwnRequests, Recorded, HeatingKept, [Next]_vars PROVE HeatingKept'
<1> DEFINE Kept ==
              /\ \A z \in Zones :
                    /\ devRoom'[z].slots = InitRoom.slots
                    /\ devRoom'[z].mode = InitRoom.mode
                    /\ LiveSetpoint(store'[z]) # Null =>
                          KeepsHeating(store[z].mode, LiveSetpoint(store[z]))'
              /\ \A r \in Forms(chain') : KeepsHeating(r.form.mode, r.form.temp)'
<1> SUFFICES ASSUME panel' = 0, OnlyKinds({"light"})' PROVE Kept
  BY DEF HeatingKept
<1>1. panel = 0 /\ OnlyKinds({"light"})
  BY PanelBefore, OnlyKindsBefore
<1>2. /\ \A z \in Zones :
            /\ devRoom[z].slots = InitRoom.slots /\ devRoom[z].mode = InitRoom.mode
            /\ LiveSetpoint(store[z]) # Null => KeepsHeating(store[z].mode, LiveSetpoint(store[z]))
      /\ \A r \in Forms(chain) : KeepsHeating(r.form.mode, r.form.temp)
  BY <1>1 DEF HeatingKept
<1>3. \A c \in Issued : cmd[c].kind = "light"
  BY <1>1 DEF OnlyKinds
<1>4. CASE Quiet /\ UNCHANGED deviceVars
  BY <1>2, <1>4 DEF Quiet, deviceVars, KeepsHeating
<1>5. ASSUME NEW c \in Cmds, IssueStep(c) PROVE Kept
  <2>1. cmd'[c].kind = "light"
    <3>1. cmd'[c].st # "idle"
      BY <1>5 DEF IssueStep, IssuesRoomForm, IssuesSystemForm, IssuesSetupRead, IsRefused
    <3> QED
      BY <3>1 DEF OnlyKinds, Issued
  <2>2. devRoom' = devRoom /\ devMode' = devMode
    BY <1>5 DEF IssueStep, deviceVars
  <2>3. CASE IsRefused(c)
    BY <1>2, <2>2, <2>3 DEF IsRefused, KeepsHeating
  <2>4. CASE IssuesRoomForm(c)
    <3> DEFINE z == cmd'[c].zone
               m == store'[z].mode
               v == LiveSetpoint(store'[z])
               req == Post("room-form", z, c, FormFor(m, v, store'[z].light))
    <3>1. /\ z \in Zones /\ m = store[z].mode /\ v = LiveSetpoint(store[z]) /\ v # Null
          /\ \A y \in Zones \ {z} : store'[y] = store[y]
          /\ Forms(chain') = Forms(chain) \cup {req}
      BY <2>1, <2>4 DEF IssuesRoomForm, FieldsOf
    <3>2. KeepsHeating(m, v)
      BY <1>2, <3>1
    <3>3. KeepsHeating(req.form.mode, req.form.temp)
      BY <3>2 DEF KeepsHeating, Post, FormFor, Filed
    <3> HIDE DEF m, v, req
    <3>4. \A r \in Forms(chain') : KeepsHeating(r.form.mode, r.form.temp)
      BY <1>2, <3>1, <3>3
    <3>5. \A y \in Zones : LiveSetpoint(store'[y]) # Null =>
                              KeepsHeating(store'[y].mode, LiveSetpoint(store'[y]))
      BY <1>2, <3>1, <3>2 DEF m, v
    <3> QED
      BY <1>2, <2>2, <3>4, <3>5 DEF KeepsHeating
  <2> QED
    BY <1>5, <2>1, <2>3, <2>4 DEF IssueStep, IssuesSystemForm, IssuesSetupRead
<1>6. CASE PollLands \/ PollFails
  <2>1. /\ devRoom' = devRoom /\ devMode' = devMode /\ Forms(chain') \subseteq Forms(chain)
        /\ \A z \in Zones : SameHeating(store'[z], store[z]) \/ ShowsPage(store'[z], z)
    BY <1>6, PollStep DEF deviceVars
  <2>2. \A z \in Zones : LiveSetpoint(store'[z]) # Null =>
                            KeepsHeating(store'[z].mode, LiveSetpoint(store'[z]))
    BY <1>2, <2>1, ShowsHeating DEF SameHeating
  <2> QED
    BY <1>2, <2>1, <2>2 DEF KeepsHeating
<1>7. CASE SetupReadForWrite
  BY <1>3, <1>7, SetupReadStep, WaitingIsIssued DEF PendingState
<1>8. CASE WriteAccepted
  <2>1. /\ chain # <<>> /\ MaybeObeyed(Served) /\ store' = store
        /\ Forms(chain') \subseteq Forms(chain)
    BY <1>8, WriteStep DEF FormServed, MaybeObeyed, storeVars
  <2>2. /\ devMode' = devMode
        /\ \A z \in Zones : devRoom'[z].slots = InitRoom.slots /\ devRoom'[z].mode = InitRoom.mode
    BY <1>1, <2>1, LightObeyed
  <2> QED
    BY <1>2, <2>1, <2>2 DEF KeepsHeating
<1>9. CASE WriteFails
  <2>1. /\ chain # <<>> /\ MaybeObeyed(Served) /\ Forms(chain') \subseteq Forms(chain)
        /\ Served.by \in Cmds /\ cmd[Served.by].st \in {"reading", "writing"}
        /\ Revert(Served.by)
    BY <1>9, FailStep
  <2>2. cmd[Served.by].kind = "light" /\ cmd[Served.by].st = "writing"
    BY <1>3, <2>1, WaitingIsIssued DEF PendingState, Recorded, WellFormed
  <2>3. \A z \in Zones : /\ store'[z].mode = store[z].mode
                         /\ LiveSetpoint(store'[z]) = LiveSetpoint(store[z])
    BY <2>1, <2>2, LightReverted
  <2>4. /\ devMode' = devMode
        /\ \A z \in Zones : devRoom'[z].slots = InitRoom.slots /\ devRoom'[z].mode = InitRoom.mode
    BY <1>1, <2>1, LightObeyed
  <2> QED
    BY <1>2, <2>1, <2>3, <2>4 DEF KeepsHeating
<1>10. CASE TimeoutRetried
  <2>1. /\ chain # <<>> /\ MaybeObeyed(Served) /\ store' = store
        /\ Forms(chain') \subseteq Forms(chain)
    BY <1>10, RetryStep DEF Quiet
  <2>2. /\ devMode' = devMode
        /\ \A z \in Zones : devRoom'[z].slots = InitRoom.slots /\ devRoom'[z].mode = InitRoom.mode
    BY <1>1, <2>1, LightObeyed
  <2> QED
    BY <1>2, <2>1, <2>2 DEF KeepsHeating
<1> HIDE DEF Kept
<1> QED
  BY <1>4, <1>5, <1>6, <1>7, <1>8, <1>9, <1>10, NextSteps

-----------------------------------------------------------------------------
(* Nothing but setpoint changes: their forms reach the controller in the     *)
(* order of the calls, retries included.                                     *)

\* The forms in queue `q` are in the order of the calls that posted them.
InOrder(q) ==
    \A i, j \in 1..Len(q) :
        i < j /\ q[i].op \in FormOp /\ q[j].op \in FormOp => q[i].by < q[j].by

\* A call whose form has not been obeyed comes after every one whose has.
FormsInTurn ==
    OnlyKinds({"setpoint"}) =>
        /\ InOrder(chain)
        /\ \A c, d \in Issued : cmd[c].st = "writing" /\ cmd[d].st # "writing" => d < c

LEMMA InOrderTail ==
    ASSUME NEW q \in Seq(Request), q # <<>>, InOrder(q) PROVE InOrder(Tail(q))
<1> DEFINE rest == Tail(q)
<1>1. Len(q) \in Nat /\ Len(rest) = Len(q) - 1 /\ \A i \in 1..Len(rest) : rest[i] = q[i + 1]
  BY HeadTailProperties
<1> HIDE DEF rest
<1>2. \A i \in 1..Len(rest) : i + 1 \in 1..Len(q)
  BY <1>1
<1>3. \A i, j \in 1..Len(rest) : i < j => i + 1 < j + 1
  OBVIOUS
<1> QED
  BY <1>1, <1>2, <1>3 DEF InOrder, rest

LEMMA InOrderAppend ==
    ASSUME NEW q \in Seq(Request), NEW req \in Request, InOrder(q),
           req.op \in FormOp => \A r \in Forms(q) : r.by < req.by
    PROVE  InOrder(Append(q, req))
<1> DEFINE new == Append(q, req)
<1>1. /\ Len(q) \in Nat /\ Len(new) = Len(q) + 1
      /\ \A i \in 1..Len(q) : new[i] = q[i]
      /\ new[Len(q) + 1] = req
  BY AppendProperties
<1> HIDE DEF new
<1> SUFFICES ASSUME NEW i \in 1..Len(new), NEW j \in 1..Len(new), i < j,
                    new[i].op \in FormOp, new[j].op \in FormOp
             PROVE  new[i].by < new[j].by
  BY DEF InOrder, new
<1>2. i \in 1..Len(q) /\ new[i] = q[i] /\ q[i] \in Forms(q)
  BY <1>1 DEF Forms
<1>3. CASE j \in 1..Len(q)
  BY <1>1, <1>2, <1>3 DEF InOrder
<1>4. CASE j = Len(q) + 1
  BY <1>1, <1>2, <1>4
<1> QED
  BY <1>1, <1>3, <1>4

\* Only a command that comes in, or a set-up write, adds a form to the chain.
LEMMA ChainSteps ==
    ASSUME TypeOK, OwnRequests, [Next]_vars, ~SetupReadForWrite
    PROVE  \/ chain' = chain
           \/ chain # <<>> /\ chain' = Tail(chain)
           \/ \E req \in Request :
                 /\ req.op \notin FormOp
                 /\ \/ chain' = Append(chain, req)
                    \/ chain # <<>> /\ chain' = Append(Tail(chain), req)
           \/ \E c \in Cmds : Issue(c) /\ IssueStep(c)
<1>1. ASSUME NEW op \in ReadOp, NEW z \in Zones, NEW who \in Timer..Boot
      PROVE  Read(op, z, who) \in Request /\ Read(op, z, who).op \notin FormOp
  BY <1>1, ReadType DEF Read, ReadOp, FormOp
<1>2. 1 \in Zones /\ rrIndex + 1 \in Zones /\ {"dashboard", "list", "detail"} \subseteq ReadOp
  BY RoomSyncAssumption DEF Zones, TypeOK, ReadOp
<1>3. CASE PollDashboard \/ PollRoomList \/ PollRoomDetailRR
  <2>1. PICK op \in ReadOp, z \in Zones : TimerFires(op, z)
    BY <1>2, <1>3 DEF PollDashboard, PollRoomList, PollRoomDetailRR
  <2> QED
    BY <1>1, <2>1, Waiters DEF TimerFires, Enqueue
<1>4. CASE BootReadsRooms
  <2>1. BootPage(1) = Read("detail", 1, Boot)
    BY DEF BootPage
  <2> QED
    BY <1>1, <1>2, <1>4, <2>1, Waiters DEF BootReadsRooms, Enqueue, clientVars
<1>5. CASE PollLands \/ PollFails
  <2>1. chain # <<>> /\ \E landed \in BOOLEAN : AfterPoll(landed)
    BY <1>5 DEF PollLands, PollFails, DashboardLands, RoomListLands, DetailLands, SetupLands,
                Polling
  <2>2. CASE chain' = Append(Tail(chain), Read("list", 1, Boot))
    BY <1>1, <1>2, <2>1, <2>2, Waiters
  <2>3. CASE page < 2 * NZones /\ chain' = Append(Tail(chain), BootPage(page + 1))
    <3>1. page + 1 \in 1..(2 * NZones)
      BY <2>3, RoomSyncAssumption DEF TypeOK
    <3>2. BootPage(page + 1) \in Request /\ BootPage(page + 1).op \notin FormOp
      BY <3>1, BootPageType DEF BootPage, Read, FormOp
    <3> HIDE DEF BootPage
    <3> QED
      BY <2>1, <2>3, <3>2
  <2> QED
    BY <2>1, <2>2, <2>3 DEF AfterPoll, Settle, SettleAndEnqueue
<1>6. CASE WriteAccepted
  <2>1. chain # <<>> /\ Served.zone \in Zones /\ Served.by \in Cmds
    BY <1>6, ServedType DEF WriteAccepted, Writing
  <2>2. RefreshAfter(Served) \in Request /\ RefreshAfter(Served).op \notin FormOp
    BY <2>1, Waiters DEF RefreshAfter, Read, Request, ReadOp, FormOp
  <2> HIDE DEF RefreshAfter
  <2> QED
    BY <1>6, <2>1, <2>2 DEF WriteAccepted, SettleAndEnqueue
<1>7. CASE WriteFails
  BY <1>7 DEF WriteFails, Settle
<1>8. CASE TimeoutRetried \/ Panel \/ UNCHANGED vars
  BY <1>8 DEF TimeoutRetried, RetryInPlace, Panel, vars, clientVars
<1> QED
  BY <1>3, <1>4, <1>5, <1>6, <1>7, <1>8, IssueSteps DEF Next, Answered

\* A setpoint call that comes in goes straight to writing.
LEMMA SetpointIssued ==
    ASSUME NEW c \in Cmds, IssueStep(c), cmd'[c].kind = "setpoint"
    PROVE  IssuesRoomForm(c) /\ cmd'[c].st = "writing"
BY DEF IssueStep, IssuesRoomForm, IssuesSystemForm, IssuesSetupRead, IsRefused

LEMMA InitTurn == Init => FormsInTurn
<1> SUFFICES ASSUME Init PROVE FormsInTurn
  OBVIOUS
<1>1. Len(chain) = 1 /\ Issued = {}
  BY DEF Init, BlankCommand, Issued
<1> QED
  BY <1>1 DEF FormsInTurn, InOrder

LEMMA NextTurn ==
    ASSUME TypeOK, OwnRequests, Recorded, FormsInTurn, [Next]_vars PROVE FormsInTurn'
<1> SUFFICES ASSUME OnlyKinds({"setpoint"})'
             PROVE  /\ InOrder(chain')
                    /\ \A c, d \in Issued' :
                          cmd'[c].st = "writing" /\ cmd'[d].st # "writing" => d < c
  BY DEF FormsInTurn
<1>1. OnlyKinds({"setpoint"})
  BY OnlyKindsBefore
<1>2. /\ InOrder(chain)
      /\ \A c, d \in Issued : cmd[c].st = "writing" /\ cmd[d].st # "writing" => d < c
  BY <1>1 DEF FormsInTurn
<1>3. /\ \A c \in Issued : cmd[c].kind = "setpoint"
      /\ \A c \in Cmds : cmd'[c].st # "idle" => cmd'[c].kind = "setpoint"
  BY <1>1 DEF OnlyKinds, Issued
<1>4. \A c \in Cmds : cmd[c].st # "reading"
  BY <1>3 DEF Recorded, WellFormed, Issued
<1>5. chain \in Seq(Request)
  BY DEF TypeOK
<1>6. InOrder(chain')
  <2>1. ~SetupReadForWrite
    BY <1>4 DEF SetupReadForWrite
  <2>2. chain # <<>> => Tail(chain) \in Seq(Request) /\ InOrder(Tail(chain))
    BY <1>2, <1>5, InOrderTail, HeadTailProperties
  <2>3. ASSUME NEW c \in Cmds, IssueStep(c) PROVE InOrder(chain')
    <3>1. IssuesRoomForm(c)
      <4>1. cmd'[c].st # "idle"
        BY <2>3 DEF IssueStep, IssuesRoomForm, IssuesSystemForm, IssuesSetupRead, IsRefused
      <4> QED
        BY <1>3, <2>3, <4>1, SetpointIssued
    <3>2. PICK req \in Request : req.by = c /\ chain' = Append(chain, req)
      BY <3>1 DEF IssuesRoomForm
    <3>3. ASSUME NEW r \in Forms(chain) PROVE r.by < c
      <4>1. r.by \in Cmds /\ cmd[r.by].st = "writing"
        BY <3>3, FormAwaited
      <4>2. r.by \in Issued /\ cmd[c].st = "idle"
        BY <2>3, <4>1 DEF Issued, IssueStep
      <4> QED
        BY <4>2 DEF Recorded
    <3> QED
      BY <1>2, <1>5, <3>2, <3>3, InOrderAppend
  <2>4. ASSUME NEW req \in Request, req.op \notin FormOp
        PROVE  /\ InOrder(Append(chain, req))
               /\ chain # <<>> => InOrder(Append(Tail(chain), req))
    BY <1>2, <1>5, <2>2, <2>4, InOrderAppend
  <2> QED
    BY <1>2, <2>1, <2>2, <2>3, <2>4, ChainSteps
<1>7. ASSUME NEW c \in Issued', NEW d \in Issued', cmd'[c].st = "writing", cmd'[d].st # "writing"
      PROVE  d < c
  <2>1. c \in Cmds /\ d \in Cmds /\ cmd'[d].st # "idle"
    BY <1>7 DEF Issued
  <2>2. ~IssueStep(d)
    BY <1>3, <1>7, <2>1, SetpointIssued
  <2>3. d \in Issued
    BY <2>1, <2>2, CallSteps DEF Issued, Advance
  <2>4. CASE IssueStep(c)
    BY <2>1, <2>3, <2>4 DEF Recorded, IssueStep
  <2>5. CASE ~IssueStep(c)
    <3>1. cmd[c].st = "writing"
      BY <1>4, <1>7, <2>1, <2>5, CallSteps DEF Advance
    <3>2. c \in Issued
      BY <2>1, <3>1 DEF Issued
    <3>3. CASE cmd[d].st # "writing"
      BY <1>2, <2>3, <3>1, <3>2, <3>3
    <3>4. CASE cmd[d].st = "writing"
      <4>1. chain # <<>> /\ Served.by = d
        BY <1>7, <2>1, <2>2, <3>4, CallSteps
      <4>2. Served = chain[1] /\ Len(chain) \in Nat
        BY <4>1, HeadTailProperties DEF TypeOK, Served
      <4>3. PICK j \in 1..Len(chain) : chain[j].by = c
        BY <2>1, <3>1, NobodyCalls DEF OwnRequests, OwnIn, PendingState
      <4>4. Awaits(cmd[c], chain[j]) /\ Awaits(cmd[d], chain[1])
        BY <2>1, <4>1, <4>2, <4>3, ServedAwaited DEF OwnRequests, OwnIn
      <4>5. chain[j].op \in FormOp /\ chain[1].op \in FormOp
        BY <3>1, <3>4, <4>4 DEF Awaits, FormOf, FormOp
      <4>6. j # 1
        BY <1>7, <4>1, <4>2, <4>3
      <4>7. 1 \in 1..Len(chain) /\ 1 < j
        BY <4>2, <4>3, <4>6
      <4> QED
        BY <1>2, <4>1, <4>2, <4>3, <4>5, <4>7 DEF InOrder
    <3> QED
      BY <3>3, <3>4
  <2> QED
    BY <2>4, <2>5
<1> QED
  BY <1>6, <1>7

\* Zone z as setpoint changes alone leave it: mode and light are as they were,
\* and with no form on its way the slot in use holds the newest call's value.
HoldsSetpoint(z) ==
    /\ devRoom[z].mode = InitRoom.mode /\ devRoom[z].light = InitRoom.light
    /\ Seen(store[z]) => store[z].mode = InitRoom.mode /\ store[z].light = InitRoom.light
    /\ \A r \in Forms(chain) :
          r.zone = z => r.form.mode = InitRoom.mode /\ r.form.light = InitRoom.light
    /\ Calls(z) # {} /\ (\A c \in Calls(z) : cmd[c].st # "writing") /\ InitRoom.mode \in Filed
          => DeviceSetpoint(z) = LiveSetpoint(cmd[Newest(Calls(z))].next)

SetpointsOnly(z) ==
    /\ panel = 0 /\ OnlyKinds({"setpoint"})
    /\ \A c \in Calls(z) : cmd[c].st # "failed" /\ cmd[c].seen

SetpointsFollow == \A z \in Zones : SetpointsOnly(z) => HoldsSetpoint(z)

\* Among some of the calls there is a last one: by induction, which the
\* library's theorem on the well-founded order of the numbers gives us.
LEMMA LeastNatural ==
    ASSUME NEW S \in SUBSET Nat, S # {}
    PROVE  \E n \in S : \A m \in S : n <= m
<1>1. PICK n \in S : \A m \in S : ~(<<m, n>> \in OpToRel(<, Nat))
  BY NatLessThanWellFounded, WFMin
<1>2. ASSUME NEW m \in S PROVE n <= m
  <2>1. m \in Nat /\ n \in Nat
    OBVIOUS
  <2>2. ~(m < n)
    BY <1>1, <2>1 DEF OpToRel
  <2> QED
    BY <2>1, <2>2
<1> QED
  BY <1>2

LEMMA NewestIs ==
    ASSUME NEW cs \in SUBSET Cmds, cs # {}
    PROVE  Newest(cs) \in cs /\ \A d \in cs : d <= Newest(cs)
<1> DEFINE bounds == {b \in Nat : \A d \in cs : d <= b}
<1>1. NCmds \in bounds /\ bounds \in SUBSET Nat /\ \A d \in cs : d \in Nat /\ d >= 1
  BY RoomSyncAssumption DEF Cmds
<1>2. PICK b \in bounds : \A m \in bounds : b <= m
  BY <1>1, LeastNatural
<1>3. ASSUME b \notin cs PROVE FALSE
  <2>1. \A d \in cs : d < b
    BY <1>1, <1>3
  <2>2. b - 1 \in Nat
    <3>1. PICK d \in cs : TRUE
      OBVIOUS
    <3> QED
      BY <1>1, <2>1, <3>1
  <2>3. b - 1 \in bounds
    BY <1>1, <2>1, <2>2
  <2>4. b <= b - 1
    BY <1>2, <2>3
  <2> QED
    BY <1>1, <2>4
<1>4. b \in cs /\ \A d \in cs : d <= b
  BY <1>3
<1> QED
  BY <1>4 DEF Newest

LEMMA NewestUnique ==
    ASSUME NEW cs \in SUBSET Cmds, NEW c \in cs, \A d \in cs : d <= c
    PROVE  Newest(cs) = c
<1>1. Newest(cs) \in cs /\ \A d \in cs : d <= Newest(cs)
  BY NewestIs
<1>2. Newest(cs) \in Cmds /\ c \in Cmds /\ Newest(cs) <= c /\ c <= Newest(cs)
  BY <1>1
<1>3. \A a, b \in Cmds : a <= b /\ b <= a => a = b
  BY RoomSyncAssumption DEF Cmds
<1> QED
  BY <1>2, <1>3

\* If setpoints alone were asked for and none failed, so it was before.
LEMMA SetpointsBefore ==
    ASSUME TypeOK, OwnRequests, [Next]_vars, NEW z \in Zones, SetpointsOnly(z)'
    PROVE  SetpointsOnly(z)
<1>1. panel = 0 /\ OnlyKinds({"setpoint"})
  BY PanelBefore, OnlyKindsBefore DEF SetpointsOnly
<1>2. ASSUME NEW c \in Calls(z) PROVE cmd[c].st # "failed" /\ cmd[c].seen
  <2>1. c \in Issued /\ cmd[c].zone = z /\ c \in Cmds
    BY DEF Calls, Issued
  <2>2. c \in Issued' /\ SameAsk(c)
    BY <2>1, KindsGrow
  <2>3. cmd'[c].st # "failed" /\ cmd'[c].seen
    BY <2>1, <2>2 DEF SetpointsOnly, Calls, SameAsk
  <2>4. ~IssueStep(c)
    BY <2>1 DEF IssueStep, Issued
  <2> QED
    BY <2>1, <2>2, <2>3, <2>4, CallSteps DEF SameAsk, Advance
<1> QED
  BY <1>1, <1>2 DEF SetpointsOnly

\* The calls on zone z stay the same if none comes in.
LEMMA SameCalls ==
    ASSUME TypeOK, NEW z \in Zones,
           \A c \in Cmds : SameAsk(c) /\ (cmd'[c].st = "idle" <=> cmd[c].st = "idle")
    PROVE  Calls(z)' = Calls(z)
BY DEF Calls, Issued, SameAsk

\* A step that leaves zone z at the controller alone, and of its calls those
\* whose forms wait, keeps what zone z holds.
LEMMA HoldsKept ==
    ASSUME TypeOK, NEW z \in Zones, HoldsSetpoint(z), Calls(z)' = Calls(z),
           \A c \in Calls(z) : /\ cmd'[c].next = cmd[c].next
                               /\ cmd'[c].st = "writing" <=> cmd[c].st = "writing",
           devRoom'[z] = devRoom[z], devMode' = devMode,
           Seen(store'[z]) => store'[z].mode = InitRoom.mode /\ store'[z].light = InitRoom.light,
           \A r \in Forms(chain') :
              r.zone = z => r.form.mode = InitRoom.mode /\ r.form.light = InitRoom.light
    PROVE  HoldsSetpoint(z)'
<1>1. DeviceSetpoint(z)' = DeviceSetpoint(z)
  BY DEF DeviceSetpoint
<1>2. Calls(z) \in SUBSET Cmds
  BY DEF Calls, Issued
<1>3. Calls(z) # {} => cmd'[Newest(Calls(z))].next = cmd[Newest(Calls(z))].next
  BY <1>2, NewestIs
<1> QED
  BY <1>1, <1>3 DEF HoldsSetpoint

\* What the controller holds for zone z when it obeys a setpoint's form.
LEMMA SetpointObeyed ==
    ASSUME TypeOK, OwnRequests, NEW z \in Zones, HoldsSetpoint(z), OnlyKinds({"setpoint"}),
           chain # <<>>, MaybeObeyed(Served)
    PROVE  /\ devMode' = devMode
           /\ devRoom'[z].mode = InitRoom.mode /\ devRoom'[z].light = InitRoom.light
           /\ FormServed => Served.zone = cmd[Served.by].zone /\ Served.by \in Issued
           /\ devRoom'[z] = devRoom[z] \/ (FormServed /\ Served.zone = z)
           /\ Obeyed(Served) /\ FormServed /\ Served.zone = z /\ InitRoom.mode \in Filed
                => DeviceSetpoint(z)' = LiveSetpoint(cmd[Served.by].next)
<1> DEFINE season == SeasonOf(devMode)
           c == Served.by
<1>1. ASSUME Served.op \in FormOp
      PROVE  /\ FormServed /\ Served.zone = cmd[c].zone /\ c \in Issued
             /\ Served.op = "room-form" /\ Served \in Forms(chain)
             /\ Served.form.temp = IF Served.form.mode = "standby" THEN Null
                                   ELSE LiveSetpoint(cmd[c].next)
  <2>1. Served \in Forms(chain)
    BY <1>1, ServedForm
  <2>2. /\ c \in Cmds /\ cmd[c].st = "writing" /\ Served.op = FormOf(cmd[c].kind)
        /\ Carries(cmd[c], Served.form)
        /\ cmd[c].kind # "system" => Served.zone = cmd[c].zone
    BY <2>1, FormAwaited
  <2>3. c \in Issued /\ cmd[c].kind = "setpoint"
    BY <2>2, WaitingIsIssued DEF OnlyKinds, PendingState
  <2> QED
    BY <1>1, <2>1, <2>2, <2>3 DEF FormServed, FormOf, RoomKind, Carries
<1>2. devRoom[z] \in DeviceRoom /\ season \in Season
  BY SeasonOfType DEF TypeOK
<1>3. devRoom[z].slots \in SlotTable /\ devRoom[z].slots[season] \in [Slot -> Temps]
  BY <1>2 DEF DeviceRoom, SlotTable
<1>4. CASE UNCHANGED <<devRoom, devMode>> /\ ~Obeyed(Served)
  BY <1>1, <1>4 DEF FormServed, HoldsSetpoint
<1>5. CASE Obeyed(Served) /\ Served.op \notin FormOp
  BY <1>5, NothingObeyed DEF FormServed, HoldsSetpoint
<1>6. CASE Obeyed(Served) /\ Served.op \in FormOp /\ Served.zone # z
  BY <1>1, <1>6, RoomFormObeyed DEF HoldsSetpoint
<1>7. CASE Obeyed(Served) /\ Served.op \in FormOp /\ Served.zone = z
  <2>1. Served.form.mode = InitRoom.mode /\ Served.form.light = InitRoom.light
    BY <1>1, <1>7 DEF HoldsSetpoint
  <2> HIDE DEF season
  <2>2. /\ devMode' = devMode /\ devRoom'[z].mode = InitRoom.mode
        /\ devRoom'[z].light = InitRoom.light
        /\ InitRoom.mode \in Filed =>
              devRoom'[z].slots = [devRoom[z].slots EXCEPT ![season] =
                  [devRoom[z].slots[season] EXCEPT ![InitRoom.mode] = Served.form.temp]]
    BY <1>1, <1>7, <2>1, RoomFormObeyed DEF season
  <2>3. ASSUME InitRoom.mode \in Filed
        PROVE  DeviceSetpoint(z)' = LiveSetpoint(cmd[c].next)
    <3>1. InitRoom.mode \in Slot /\ InitRoom.mode # "standby"
          /\ InitRoom.mode = IF InitRoom.mode = "reduced" THEN "reduced" ELSE "normal"
      BY <2>3 DEF Filed, Slot
    <3>2. devRoom'[z].slots[season][InitRoom.mode] = Served.form.temp
      BY <1>2, <1>3, <2>2, <2>3, <3>1 DEF SlotTable
    <3>3. Served.form.temp = LiveSetpoint(cmd[c].next)
      BY <1>1, <1>7, <2>1, <3>1
    <3>4. DeviceSetpoint(z)' = devRoom'[z].slots[season][InitRoom.mode]
      BY <2>2, <3>1 DEF DeviceSetpoint, season
    <3> QED
      BY <3>2, <3>3, <3>4
  <2> QED
    BY <1>1, <1>7, <2>2, <2>3
<1> QED
  BY <1>4, <1>5, <1>6, <1>7 DEF MaybeObeyed

LEMMA InitSetpoints == Init => SetpointsFollow
<1> SUFFICES ASSUME Init, NEW z \in Zones PROVE HoldsSetpoint(z)
  BY DEF SetpointsFollow
<1>1. devRoom[z] = InitRoom /\ ~Seen(store[z])
  BY DEF Init, BlankRoom, Seen, Slot
<1>2. Calls(z) = {}
  BY DEF Init, BlankCommand, Calls, Issued
<1> QED
  BY <1>1, <1>2, InitForms DEF HoldsSetpoint

LEMMA NextSetpoints ==
    ASSUME TypeOK, OwnRequests, Recorded, FormsInTurn, SetpointsFollow, [Next]_vars
    PROVE  SetpointsFollow'
<1> SUFFICES ASSUME NEW z \in Zones, SetpointsOnly(z)' PROVE HoldsSetpoint(z)'
  BY DEF SetpointsFollow
<1>1. SetpointsOnly(z) /\ HoldsSetpoint(z)
  BY SetpointsBefore DEF SetpointsFollow
<1>2. /\ panel' = 0 /\ OnlyKinds({"setpoint"})
      /\ \A c \in Issued : cmd[c].kind = "setpoint"
      /\ \A c \in Cmds : cmd'[c].st # "idle" => cmd'[c].kind = "setpoint"
  BY <1>1 DEF SetpointsOnly, OnlyKinds, Issued
<1>3. \A c \in Cmds : cmd[c].st # "reading"
  BY <1>2 DEF Recorded, WellFormed, Issued
<1>4. /\ Seen(store[z]) => store[z].mode = InitRoom.mode /\ store[z].light = InitRoom.light
      /\ \A r \in Forms(chain) :
            r.zone = z => r.form.mode = InitRoom.mode /\ r.form.light = InitRoom.light
  BY <1>1 DEF HoldsSetpoint
<1>5. CASE Quiet /\ UNCHANGED deviceVars
  <2>1. Calls(z)' = Calls(z)
    BY <1>5 DEF Quiet, Calls, Issued
  <2> QED
    BY <1>1, <1>4, <1>5, <2>1, HoldsKept DEF Quiet, deviceVars
<1>6. ASSUME NEW c \in Cmds, IssueStep(c) PROVE HoldsSetpoint(z)'
  <2>1. cmd'[c].st # "idle"
    BY <1>6 DEF IssueStep, IssuesRoomForm, IssuesSystemForm, IssuesSetupRead, IsRefused
  <2>2. IssuesRoomForm(c) /\ cmd'[c].st = "writing" /\ cmd'[c].kind = "setpoint"
    BY <1>2, <1>6, <2>1, SetpointIssued
  <2>3. /\ devRoom' = devRoom /\ devMode' = devMode
        /\ \A d \in Cmds \ {c} : cmd'[d] = cmd[d]
        /\ cmd[c].st = "idle"
    BY <1>6 DEF IssueStep, deviceVars
  <2> DEFINE y == cmd'[c].zone
             new == store'[y]
             req == Post("room-form", y, c, FormFor(new.mode, LiveSetpoint(new), new.light))
  <2>4. /\ y \in Zones /\ cmd'[c].seen = Seen(store[y])
        /\ new.mode = store[y].mode /\ new.light = store[y].light /\ new.slots = store[y].slots
        /\ \A x \in Zones \ {y} : store'[x] = store[x]
        /\ Forms(chain') = Forms(chain) \cup {req}
    BY <2>2 DEF IssuesRoomForm, FieldsOf
  <2>5. Seen(store'[z]) => store'[z].mode = InitRoom.mode /\ store'[z].light = InitRoom.light
    BY <1>4, <2>4 DEF Seen
  <2>6. /\ req.zone = y /\ req.form.mode = new.mode /\ req.form.light = new.light
    BY DEF Post, FormFor
  <2>7. ASSUME y = z PROVE c \in Calls(z)' /\ Seen(store[z])
    BY <2>1, <2>4, <2>7 DEF Calls, Issued, SetpointsOnly
  <2> HIDE DEF req, new
  <2>8. \A r \in Forms(chain') :
            r.zone = z => r.form.mode = InitRoom.mode /\ r.form.light = InitRoom.light
    BY <1>4, <2>4, <2>6, <2>7
  <2>9. CASE y = z
    BY <1>1, <2>2, <2>3, <2>5, <2>7, <2>8, <2>9 DEF HoldsSetpoint
  <2>10. CASE y # z
    <3>1. Calls(z)' = Calls(z)
      BY <2>3, <2>10 DEF Calls, Issued
    <3>2. c \notin Calls(z) /\ Calls(z) \in SUBSET Cmds
      BY <2>3 DEF Calls, Issued
    <3> HIDE DEF y
    <3> QED
      BY <1>1, <2>3, <2>5, <2>8, <3>1, <3>2, HoldsKept
  <2> QED
    BY <2>9, <2>10
<1>7. CASE PollLands \/ PollFails
  <2>1. /\ devRoom' = devRoom /\ devMode' = devMode /\ Forms(chain') \subseteq Forms(chain)
        /\ \A c \in Cmds :
              \/ cmd'[c] = cmd[c]
              \/ SameAsk(c) /\ cmd[c].st = "refreshing" /\ cmd'[c].st \in {"ok", "unrefreshed"}
        /\ SameHeating(store'[z], store[z]) \/ ShowsPage(store'[z], z)
    BY <1>7, PollStep DEF deviceVars
  <2>2. Seen(store'[z]) => store'[z].mode = InitRoom.mode /\ store'[z].light = InitRoom.light
    BY <1>1, <1>4, <2>1 DEF HoldsSetpoint, SameHeating, ShowsPage, Seen
  <2>3. \A c \in Cmds : SameAsk(c) /\ (cmd'[c].st = "idle" <=> cmd[c].st = "idle")
    BY <2>1 DEF SameAsk
  <2>4. Calls(z)' = Calls(z) /\ Calls(z) \in SUBSET Cmds
    BY <2>3, SameCalls DEF Calls, Issued
  <2>5. \A c \in Calls(z) : /\ cmd'[c].next = cmd[c].next
                            /\ cmd'[c].st = "writing" <=> cmd[c].st = "writing"
    BY <2>1, <2>4 DEF SameAsk
  <2> QED
    BY <1>1, <1>4, <2>1, <2>2, <2>4, <2>5, HoldsKept
<1>8. CASE SetupReadForWrite
  BY <1>3, <1>8, SetupReadStep
<1>9. CASE WriteAccepted
  <2> DEFINE c == Served.by
  <2>1. /\ FormServed /\ Obeyed(Served) /\ store' = store
        /\ Forms(chain') \subseteq Forms(chain)
        /\ cmd'[c].st = "refreshing" /\ SameAsk(c) /\ c \in Cmds /\ cmd[c].st = "writing"
        /\ \A d \in Cmds \ {c} : cmd'[d] = cmd[d]
    BY <1>9, WriteStep DEF storeVars, FormServed
  <2>2. Calls(z)' = Calls(z) /\ Calls(z) \in SUBSET Cmds
    <3>1. \A d \in Cmds : SameAsk(d) /\ (cmd'[d].st = "idle" <=> cmd[d].st = "idle")
      BY <2>1 DEF SameAsk
    <3> QED
      BY <3>1, SameCalls DEF Calls, Issued
  <2>3. /\ devMode' = devMode
        /\ devRoom'[z].mode = InitRoom.mode /\ devRoom'[z].light = InitRoom.light
        /\ Served.zone = cmd[c].zone /\ c \in Issued
        /\ devRoom'[z] = devRoom[z] \/ Served.zone = z
        /\ Served.zone = z /\ InitRoom.mode \in Filed
             => DeviceSetpoint(z)' = LiveSetpoint(cmd[c].next)
    BY <1>1, <1>2, <2>1, SetpointObeyed DEF FormServed, MaybeObeyed
  <2> HIDE DEF c
  <2>4. CASE cmd[c].zone # z
    <3>1. c \notin Calls(z)
      BY <2>4 DEF Calls
    <3> QED
      BY <1>1, <1>4, <2>1, <2>2, <2>3, <2>4, <3>1, HoldsKept
  <2>5. CASE cmd[c].zone = z
    <3>1. c \in Calls(z)
      BY <2>3, <2>5 DEF Calls
    <3>2. ASSUME \A d \in Calls(z) : cmd'[d].st # "writing" PROVE Newest(Calls(z)) = c
      <4>1. ASSUME NEW d \in Calls(z) PROVE d <= c
        <5>1. CASE d = c
          BY <2>1, <5>1, RoomSyncAssumption DEF Cmds
        <5>2. CASE d # c
          <6>1. cmd[d].st # "writing" /\ d \in Issued /\ d \in Cmds
            BY <2>1, <2>2, <3>2, <5>2 DEF Calls
          <6>2. d < c
            BY <1>2, <2>1, <2>3, <6>1 DEF FormsInTurn
          <6> QED
            BY <2>1, <6>1, <6>2, RoomSyncAssumption DEF Cmds
        <5> QED
          BY <5>1, <5>2
      <4> QED
        BY <2>2, <3>1, <4>1, NewestUnique
    <3>3. cmd'[c].next = cmd[c].next
      BY <2>1 DEF SameAsk
    <3> QED
      BY <1>1, <1>4, <2>1, <2>2, <2>3, <2>5, <3>2, <3>3 DEF HoldsSetpoint
  <2> QED
    BY <2>4, <2>5
<1>10. CASE WriteFails
  <2> DEFINE c == Served.by
  <2>1. /\ chain # <<>> /\ MaybeObeyed(Served) /\ Forms(chain') \subseteq Forms(chain)
        /\ c \in Cmds /\ cmd[c].st = "writing" /\ Revert(c)
        /\ cmd'[c].st = "failed" /\ SameAsk(c)
        /\ \A d \in Cmds \ {c} : cmd'[d] = cmd[d]
    BY <1>3, <1>10, FailStep
  <2>2. Calls(z)' = Calls(z) /\ Calls(z) \in SUBSET Cmds
    <3>1. \A d \in Cmds : SameAsk(d) /\ (cmd'[d].st = "idle" <=> cmd[d].st = "idle")
      BY <2>1 DEF SameAsk
    <3> QED
      BY <3>1, SameCalls DEF Calls, Issued
  <2>3. c \notin Calls(z) /\ c \in Issued
    BY <2>1, <2>2 DEF SetpointsOnly, Issued
  <2>4. cmd[c].zone # z /\ cmd[c].zone \in Zones /\ cmd[c].kind = "setpoint"
    BY <1>2, <2>1, <2>3 DEF Calls, TypeOK, Command
  <2>5. store'[z] = store[z]
    BY <2>1, <2>4 DEF Revert, TypeOK
  <2>6. devMode' = devMode /\ devRoom'[z] = devRoom[z]
    BY <1>1, <1>2, <2>1, <2>4, SetpointObeyed
  <2> HIDE DEF c
  <2> QED
    BY <1>1, <1>4, <2>1, <2>2, <2>3, <2>5, <2>6, HoldsKept
<1>11. CASE TimeoutRetried
  <2>1. /\ chain # <<>> /\ MaybeObeyed(Served) /\ UNCHANGED <<cmd, store>>
        /\ Forms(chain') \subseteq Forms(chain)
    BY <1>11, RetryStep DEF Quiet
  <2>2. /\ devMode' = devMode
        /\ devRoom'[z].mode = InitRoom.mode /\ devRoom'[z].light = InitRoom.light
        /\ FormServed => Served.zone = cmd[Served.by].zone /\ Served.by \in Issued
        /\ devRoom'[z] = devRoom[z] \/ (FormServed /\ Served.zone = z)
    BY <1>1, <1>2, <2>1, SetpointObeyed
  <2>3. Calls(z)' = Calls(z)
    BY <2>1 DEF Calls, Issued
  <2>4. CASE devRoom'[z] = devRoom[z]
    BY <1>1, <1>4, <2>1, <2>2, <2>3, <2>4, HoldsKept
  <2>5. CASE FormServed /\ Served.zone = z
    <3>1. Served.by \in Calls(z) /\ cmd'[Served.by].st = "writing"
      BY <2>1, <2>2, <2>5 DEF Calls, FormServed
    <3> QED
      BY <1>4, <2>1, <2>2, <2>3, <3>1 DEF HoldsSetpoint
  <2> QED
    BY <2>2, <2>4, <2>5
<1> QED
  BY <1>2, <1>5, <1>6, <1>7, <1>8, <1>9, <1>10, <1>11, NextSteps

-----------------------------------------------------------------------------
(* One call alone.                                                           *)

Written(c) == cmd[c].st \in {"refreshing", "ok", "unrefreshed"}

\* The check boxes as a set-up write leaves them.
Merged(c) == (InitRoom.flags \ cmd[c].boxes) \cup (cmd[c].next.flags \cap cmd[c].boxes)

\* Mode and light as the call wants them, untouched ones as they were.
Wanted(c, mode, light) ==
    /\ mode = IF "mode" \in cmd[c].fields THEN cmd[c].next.mode ELSE InitRoom.mode
    /\ light = IF "light" \in cmd[c].fields THEN cmd[c].next.light ELSE InitRoom.light

\* What the controller holds, and what the form on its way carries.
ObtainsMode(c) == Written(c) => devMode = cmd[c].sysNext

ObtainsFlags(c) ==
    LET room == devRoom[cmd[c].zone]
    IN  /\ cmd[c].st = "reading" => room.slots = InitRoom.slots /\ room.flags = InitRoom.flags
        /\ cmd[c].st = "writing" =>
              \A r \in Forms(chain) : r.form.slots = InitRoom.slots /\ r.form.flags = Merged(c)
        /\ Written(c) => room.slots = InitRoom.slots /\ room.flags = Merged(c)

ObtainsRoom(c) ==
    LET room == devRoom[cmd[c].zone]
    IN  /\ cmd[c].st = "writing" =>
              \A r \in Forms(chain) : Wanted(c, r.form.mode, r.form.light)
        /\ Written(c) =>
              /\ Wanted(c, room.mode, room.light)
              /\ room.mode \in Filed /\ "heating" \in cmd[c].fields
                    => DeviceSetpoint(cmd[c].zone) = LiveSetpoint(cmd[c].next)

Obtains(c) ==
    CASE cmd[c].kind = "system" -> ObtainsMode(c)
      [] cmd[c].kind = "flags" -> ObtainsFlags(c)
      [] OTHER -> cmd[c].seen => ObtainsRoom(c)

\* What the Store shows once the re-poll of the call came back.
ShowsRoom(z) ==
    /\ store[z].mode = devRoom[z].mode /\ store[z].light = devRoom[z].light
    /\ devRoom[z].mode \notin {"program", "program_override"}
          => LiveSetpoint(store[z]) = DeviceSetpoint(z)

ShowsResult(c) ==
    CASE cmd[c].kind = "system" -> sysMode = devMode
      [] cmd[c].kind = "flags" -> store[cmd[c].zone].flags = devRoom[cmd[c].zone].flags
      [] OTHER -> ShowsRoom(cmd[c].zone)

SoloFollows ==
    panel = 0 =>
        /\ Issued = {} =>
              \A z \in Zones :
                  /\ devRoom[z] = InitRoom
                  /\ Seen(store[z]) =>
                        store[z].mode = InitRoom.mode /\ store[z].light = InitRoom.light
        /\ \A c \in Cmds :
              Issued = {c} => Obtains(c) /\ (cmd[c].st = "ok" => ShowsResult(c))

LEMMA InitSolo == Init => SoloFollows
<1> SUFFICES ASSUME Init PROVE SoloFollows
  OBVIOUS
<1>1. Issued = {} /\ \A z \in Zones : devRoom[z] = InitRoom /\ ~Seen(store[z])
  BY DEF Init, BlankCommand, Issued, BlankRoom, Seen, Slot
<1> QED
  BY <1>1 DEF SoloFollows

\* No form waits but those of calls that have come in and are writing.
LEMMA FormIssued ==
    ASSUME TypeOK, OwnRequests, NEW r \in Forms(chain)
    PROVE  r.by \in Issued /\ cmd[r.by].st = "writing"
BY FormAwaited, WaitingIsIssued DEF PendingState

LEMMA SetupFormObeyed ==
    ASSUME TypeOK, chain # <<>>, Served.op = "setup-form", Obeyed(Served)
    PROVE  /\ devRoom'[Served.zone].slots = Served.form.slots
           /\ devRoom'[Served.zone].flags = Served.form.flags
<1>1. Served.zone \in Zones /\ devRoom[Served.zone] \in DeviceRoom
  BY ServedType DEF TypeOK
<1>2. devRoom'[Served.zone] = FileSetupForm(devRoom[Served.zone], Served.form)
  BY <1>1 DEF Obeyed, TypeOK
<1> QED
  BY <1>1, <1>2 DEF FileSetupForm, DeviceRoom

\* The page a call waits for is the one of its own kind and zone.
LEMMA OwnPageLands ==
    ASSUME TypeOK, OwnRequests, PollLands, ~PollFails, NEW c \in Cmds, Served.by = c,
           cmd[c].st = "refreshing"
    PROVE  ShowsResult(c)'
<1>1. chain # <<>> /\ Awaits(cmd[c], Served) /\ cmd[c].kind \in CmdKind
  BY ServedAwaited DEF PollLands, DashboardLands, RoomListLands, DetailLands, SetupLands,
                       Polling, TypeOK, Command
<1>2. Served.op = PageOf(cmd[c].kind) /\ (cmd[c].kind # "system" => Served.zone = cmd[c].zone)
  BY <1>1 DEF Awaits
<1>3. SameAsk(c) /\ UNCHANGED deviceVars
  BY PollStep DEF SameAsk
<1>4. CASE cmd[c].kind = "system"
  <2>1. Served.op = "dashboard"
    BY <1>2, <1>4 DEF PageOf, RoomKind
  <2>2. DashboardLands
    BY <2>1 DEF PollLands, RoomListLands, DetailLands, SetupLands, Polling
  <2> QED
    BY <1>3, <1>4, <2>2 DEF ShowsResult, DashboardLands, DashboardPage, SameAsk, deviceVars
<1>5. CASE cmd[c].kind = "flags"
  <2>1. Served.op = "setup"
    BY <1>2, <1>5 DEF PageOf, RoomKind
  <2>2. SetupLands
    BY <2>1 DEF PollLands, DashboardLands, RoomListLands, DetailLands, Polling
  <2> QED
    BY <1>2, <1>3, <1>5, <2>2, SetupShows DEF ShowsResult, SameAsk, deviceVars
<1>6. CASE cmd[c].kind \notin {"system", "flags"}
  <2>1. Served.op = "detail"
    BY <1>1, <1>2, <1>6 DEF PageOf, RoomKind, CmdKind
  <2>2. DetailLands
    BY <2>1 DEF PollLands, DashboardLands, RoomListLands, SetupLands, Polling
  <2>3. ShowsPage(store'[Served.zone], Served.zone) /\ Served.zone = cmd[c].zone
    BY <1>2, <1>6, <2>2, DetailShows
  <2>4. ShowsRoom(cmd[c].zone)'
    BY <1>3, <2>3 DEF ShowsRoom, ShowsPage, ActiveSlots, DeviceSetpoint, SameAsk, deviceVars
  <2> QED
    BY <1>3, <1>6, <2>4 DEF ShowsResult, SameAsk
<1> QED
  BY <1>4, <1>5, <1>6

\* A poll of the Poller's own leaves the Store showing what it showed, or more.
LEMMA PollShows ==
    ASSUME TypeOK, OwnRequests, PollLands \/ PollFails, NEW c \in Cmds, ShowsResult(c), SameAsk(c)
    PROVE  ShowsResult(c)'
<1> DEFINE z == cmd[c].zone
<1>1. /\ devRoom' = devRoom /\ devMode' = devMode /\ z \in Zones /\ cmd'[c].zone = z
      /\ cmd'[c].kind = cmd[c].kind
      /\ SameHeating(store'[z], store[z]) \/ ShowsPage(store'[z], z)
      /\ store'[z].flags \in {store[z].flags, devRoom[z].flags}
      /\ sysMode' \in {sysMode, devMode}
  BY PollStep DEF deviceVars, TypeOK, Command, SameAsk
<1>2. ShowsRoom(z) => ShowsRoom(z)'
  BY <1>1 DEF ShowsRoom, SameHeating, ShowsPage, ActiveSlots, DeviceSetpoint
<1> QED
  BY <1>1, <1>2 DEF ShowsResult

\* A step that leaves the controller alone and posts no form, and at which the
\* call at most stops waiting.
LEMMA ObtainsKept ==
    ASSUME NEW c \in Cmds, Obtains(c), SameAsk(c), UNCHANGED <<devRoom, devMode>>,
           Forms(chain') \subseteq Forms(chain),
           Written(c)' => Written(c),
           cmd'[c].st \in {"reading", "writing"} => cmd[c].st = cmd'[c].st
    PROVE  Obtains(c)'
<1>1. /\ cmd'[c].kind = cmd[c].kind /\ cmd'[c].zone = cmd[c].zone /\ cmd'[c].seen = cmd[c].seen
      /\ Merged(c)' = Merged(c)
      /\ \A m, l : Wanted(c, m, l)' <=> Wanted(c, m, l)
      /\ DeviceSetpoint(cmd[c].zone)' = DeviceSetpoint(cmd[c].zone)
  BY DEF SameAsk, Merged, Wanted, DeviceSetpoint
<1>2. CASE cmd[c].kind = "system"
  BY <1>1, <1>2 DEF Obtains, ObtainsMode, SameAsk
<1>3. CASE cmd[c].kind = "flags"
  <2>1. ObtainsFlags(c)
    BY <1>3 DEF Obtains
  <2>2. ObtainsFlags(c)'
    BY <1>1, <2>1 DEF ObtainsFlags
  <2> QED
    BY <1>1, <1>3, <2>2 DEF Obtains
<1>4. CASE cmd[c].kind \notin {"system", "flags"}
  <2>1. cmd[c].seen => ObtainsRoom(c)
    BY <1>4 DEF Obtains
  <2>2. ObtainsRoom(c) => ObtainsRoom(c)'
    BY <1>1 DEF ObtainsRoom, SameAsk
  <2> QED
    BY <1>1, <1>4, <2>1, <2>2 DEF Obtains
<1> QED
  BY <1>2, <1>3, <1>4

\* The first call comes in, and finds the controller as it was at the start.
LEMMA FirstCall ==
    ASSUME TypeOK, OwnRequests, Recorded, NEW c \in Cmds, IssueStep(c), Issued = {},
           \A z \in Zones :
              /\ devRoom[z] = InitRoom
              /\ Seen(store[z]) => store[z].mode = InitRoom.mode /\ store[z].light = InitRoom.light
    PROVE  Obtains(c)' /\ cmd'[c].st # "ok"
<1>1. Forms(chain) = {} /\ devRoom' = devRoom /\ devMode' = devMode
  BY FormIssued DEF IssueStep, deviceVars
<1>2. CASE IssuesRoomForm(c)
  <2>1. PICK z, m, l :
           /\ z \in Zones /\ z = cmd'[c].zone /\ m = store'[z].mode /\ l = store'[z].light
    BY <1>2 DEF IssuesRoomForm
  <2> DEFINE req == Post("room-form", z, c, FormFor(m, LiveSetpoint(store'[z]), l))
  <2>2. /\ cmd'[c].st = "writing" /\ cmd'[c].kind \in RoomKind
        /\ cmd'[c].seen = Seen(store[z])
        /\ m = IF "mode" \in cmd'[c].fields THEN cmd'[c].next.mode ELSE store[z].mode
        /\ l = IF "light" \in cmd'[c].fields THEN cmd'[c].next.light ELSE store[z].light
        /\ Forms(chain') = {req}
    BY <1>1, <1>2, <2>1 DEF IssuesRoomForm
  <2>3. req.form.mode = m /\ req.form.light = l
    BY DEF Post, FormFor
  <2> HIDE DEF req
  <2>4. cmd'[c].seen => store[z].mode = InitRoom.mode /\ store[z].light = InitRoom.light
    BY <2>1, <2>2
  <2>5. cmd'[c].seen => Wanted(c, m, l)'
    BY <2>2, <2>4 DEF Wanted
  <2>6. cmd'[c].seen => ObtainsRoom(c)'
    BY <2>2, <2>3, <2>5 DEF ObtainsRoom, Written, Wanted
  <2> QED
    BY <2>2, <2>6 DEF Obtains, RoomKind
<1>3. CASE IssuesSystemForm(c)
  BY <1>3 DEF IssuesSystemForm, Obtains, ObtainsMode, Written
<1>4. CASE IssuesSetupRead(c)
  BY <1>1, <1>4 DEF IssuesSetupRead, Obtains, ObtainsFlags, Written
<1>5. CASE IsRefused(c)
  BY <1>5 DEF IsRefused, Obtains, ObtainsRoom, Written
<1> QED
  BY <1>2, <1>3, <1>4, <1>5 DEF IssueStep

\* The controller obeys the form of the one call there is.
LEMMA SoloWritten ==
    ASSUME TypeOK, OwnRequests, Recorded, NEW c \in Cmds, Served.by = c, Obtains(c), WriteAccepted
    PROVE  Obtains(c)' /\ cmd'[c].st = "refreshing"
<1> DEFINE z == cmd[c].zone
           form == Served.form
<1>1. /\ FormServed /\ Obeyed(Served) /\ chain # <<>> /\ Served \in Forms(chain)
      /\ cmd'[c].st = "refreshing" /\ SameAsk(c) /\ cmd[c].st = "writing"
  BY WriteStep DEF FormServed
<1>2. /\ Served.op = FormOf(cmd[c].kind) /\ Carries(cmd[c], form)
      /\ cmd[c].kind # "system" => Served.zone = z
  BY <1>1, FormAwaited
<1>3. /\ cmd'[c].kind = cmd[c].kind /\ cmd'[c].zone = z /\ cmd'[c].seen = cmd[c].seen
      /\ Merged(c)' = Merged(c)
      /\ cmd'[c].next = cmd[c].next /\ cmd'[c].fields = cmd[c].fields
      /\ cmd'[c].sysNext = cmd[c].sysNext
  BY <1>1 DEF SameAsk, Merged
<1>4. cmd[c].kind \in CmdKind /\ cmd[c].fields = FieldsOf(cmd[c].kind)
  BY <1>1 DEF TypeOK, Command, Recorded, WellFormed
<1>5. CASE cmd[c].kind = "system"
  <2>1. devMode' = cmd[c].sysNext
    BY <1>1, <1>2, <1>5 DEF Obeyed, FormOf, RoomKind, Carries
  <2> QED
    BY <1>1, <1>3, <1>5, <2>1 DEF Obtains, ObtainsMode
<1>6. CASE cmd[c].kind = "flags"
  <2>1. form.slots = InitRoom.slots /\ form.flags = Merged(c)
    BY <1>1, <1>6 DEF Obtains, ObtainsFlags
  <2>2. devRoom'[z].slots = InitRoom.slots /\ devRoom'[z].flags = Merged(c)
    BY <1>1, <1>2, <1>6, <2>1, SetupFormObeyed DEF FormOf, RoomKind
  <2>3. ObtainsFlags(c)'
    BY <1>1, <1>3, <2>2 DEF ObtainsFlags
  <2> QED
    BY <1>1, <1>3, <1>6, <2>3 DEF Obtains
<1>7. CASE cmd[c].kind \notin {"system", "flags"}
  <2> DEFINE season == SeasonOf(devMode)
  <2>1. Served.op = "room-form" /\ cmd[c].kind \in RoomKind /\ Served.zone = z /\ z \in Zones
    BY <1>2, <1>4, <1>7 DEF FormOf, RoomKind, CmdKind, TypeOK, Command
  <2>2. cmd[c].seen => Wanted(c, form.mode, form.light)
    BY <1>1, <1>7 DEF Obtains, ObtainsRoom
  <2>3. "heating" \in cmd[c].fields =>
           form.temp = IF form.mode = "standby" THEN Null ELSE LiveSetpoint(cmd[c].next)
    BY <1>2, <1>4, <2>1 DEF Carries, FieldsOf, RoomKind
  <2>4. season \in Season /\ devRoom[z].slots \in SlotTable
    BY <2>1, SeasonOfType DEF TypeOK, DeviceRoom
  <2> HIDE DEF season
  <2>5. /\ devMode' = devMode
        /\ devRoom'[z].mode = form.mode /\ devRoom'[z].light = form.light
        /\ form.mode \in Filed =>
              devRoom'[z].slots = [devRoom[z].slots EXCEPT ![season] =
                                      [devRoom[z].slots[season] EXCEPT ![form.mode] = form.temp]]
    BY <1>1, <2>1, RoomFormObeyed DEF season
  <2> HIDE DEF form
  <2>6. ASSUME form.mode \in Filed PROVE DeviceSetpoint(z)' = form.temp
    <3>1. /\ form.mode \in Slot
          /\ form.mode = IF devRoom'[z].mode = "reduced" THEN "reduced" ELSE "normal"
      BY <2>5, <2>6 DEF Filed, Slot
    <3>2. devRoom'[z].slots[season][form.mode] = form.temp
      BY <2>4, <2>5, <2>6, <3>1 DEF SlotTable
    <3> QED
      BY <1>3, <2>5, <3>1, <3>2 DEF DeviceSetpoint, season
  <2>7. cmd[c].seen => ObtainsRoom(c)'
    BY <1>1, <1>3, <2>2, <2>3, <2>5, <2>6 DEF ObtainsRoom, Wanted, Filed
  <2> QED
    BY <1>1, <1>3, <1>7, <2>7 DEF Obtains
<1> QED
  BY <1>1, <1>5, <1>6, <1>7

\* The set-up page is read, and its form posted, with the boxes merged in.
LEMMA SoloRead ==
    ASSUME TypeOK, OwnRequests, NEW c \in Cmds, Issued = {c}, Served.by = c, Obtains(c),
           SetupReadForWrite
    PROVE  Obtains(c)' /\ cmd'[c].st = "writing"
<1>1. /\ chain # <<>> /\ cmd[c].st = "reading" /\ cmd[c].kind = "flags"
      /\ Served.zone = cmd[c].zone /\ cmd'[c].st = "writing" /\ SameAsk(c)
  BY SetupReadStep
<1>2. /\ devRoom[Served.zone].slots = InitRoom.slots
      /\ devRoom[Served.zone].flags = InitRoom.flags
  BY <1>1 DEF Obtains, ObtainsFlags
<1>3. SetupPost.form.slots = InitRoom.slots /\ SetupPost.form.flags = Merged(c)
  BY <1>2 DEF SetupPost, Post, SetupPage, Merged
<1>4. Forms(chain) = {}
  BY <1>1, FormIssued
<1>5. Tail(chain) \in Seq(Request) /\ Forms(Tail(chain)) = {}
  BY <1>1, <1>4, FormsTail, HeadTailProperties DEF TypeOK
<1>6. Forms(chain') = {SetupPost}
  BY <1>5, SetupPosted, FormsAppend DEF SettleAndEnqueue, FormOp
<1>7. Merged(c)' = Merged(c) /\ cmd'[c].kind = "flags"
  BY <1>1 DEF Merged, SameAsk
<1>8. ObtainsFlags(c)'
  BY <1>1, <1>3, <1>6, <1>7 DEF ObtainsFlags, Written
<1> QED
  BY <1>1, <1>7, <1>8 DEF Obtains

LEMMA NextSolo ==
    ASSUME TypeOK, OwnRequests, Recorded, SoloFollows, [Next]_vars PROVE SoloFollows'
<1> SUFFICES ASSUME panel' = 0
             PROVE  /\ Issued' = {} =>
                          \A z \in Zones :
                              /\ devRoom'[z] = InitRoom
                              /\ Seen(store'[z]) => /\ store'[z].mode = InitRoom.mode
                                                    /\ store'[z].light = InitRoom.light
                    /\ \A c \in Cmds :
                          Issued' = {c} =>
                              Obtains(c)' /\ (cmd'[c].st = "ok" => ShowsResult(c)')
  BY DEF SoloFollows
<1>1. panel = 0 /\ \A c \in Issued : c \in Issued' /\ SameAsk(c)
  BY PanelBefore, KindsGrow
<1>2. ASSUME chain # <<>>, MaybeObeyed(Served), \A c \in Issued : cmd[c].st # "writing"
      PROVE  UNCHANGED <<devRoom, devMode>>
  <2>1. Served.op \notin FormOp
    BY <1>2, ServedForm, FormIssued
  <2> QED
    BY <1>2, <2>1, NothingObeyed
<1>3. ASSUME NEW c \in Cmds, IssueStep(c) PROVE c \in Issued' /\ cmd[c].st = "idle"
  BY <1>3 DEF Issued, IssueStep, IssuesRoomForm, IssuesSystemForm, IssuesSetupRead, IsRefused
<1>4. ASSUME Issued' = {}, NEW z \in Zones
      PROVE  /\ devRoom'[z] = InitRoom
             /\ Seen(store'[z]) => /\ store'[z].mode = InitRoom.mode
                                   /\ store'[z].light = InitRoom.light
  <2>1. Issued = {}
    BY <1>1, <1>4
  <2>2. /\ devRoom[z] = InitRoom
        /\ Seen(store[z]) => store[z].mode = InitRoom.mode /\ store[z].light = InitRoom.light
    BY <1>1, <2>1 DEF SoloFollows
  <2>3. ~(\E c \in Cmds : IssueStep(c))
    BY <1>3, <1>4
  <2>4. \A c \in Cmds : cmd[c].st = "idle"
    BY <2>1 DEF Issued
  <2>5. CASE Quiet /\ UNCHANGED deviceVars
    BY <2>2, <2>5 DEF Quiet, deviceVars
  <2>6. CASE PollLands \/ PollFails
    <3>1. devRoom' = devRoom /\ (SameHeating(store'[z], store[z]) \/ ShowsPage(store'[z], z))
      BY <2>6, PollStep DEF deviceVars
    <3> QED
      BY <2>2, <3>1 DEF SameHeating, ShowsPage, Seen
  <2>7. CASE TimeoutRetried
    BY <1>2, <2>1, <2>2, <2>7, RetryStep DEF Quiet
  <2>8. ~SetupReadForWrite /\ ~WriteAccepted /\ ~WriteFails
    BY <2>4, SetupReadStep, WriteStep, FailStep DEF FormServed
  <2> QED
    BY <2>3, <2>5, <2>6, <2>7, <2>8, NextSteps
<1>5. ASSUME NEW c \in Cmds, Issued' = {c}
      PROVE  Obtains(c)' /\ (cmd'[c].st = "ok" => ShowsResult(c)')
  <2>1. CASE Issued = {}
    <3>1. cmd[c].st = "idle" /\ cmd'[c].st # "idle"
      BY <1>5, <2>1 DEF Issued
    <3>2. IssueStep(c)
      BY <3>1, CallSteps DEF Advance
    <3> QED
      BY <1>1, <2>1, <3>2, FirstCall DEF SoloFollows
  <2>2. CASE Issued # {}
    <3>1. Issued = {c} /\ SameAsk(c)
      BY <1>1, <1>5, <2>2
    <3>2. Obtains(c) /\ (cmd[c].st = "ok" => ShowsResult(c))
      BY <1>1, <3>1 DEF SoloFollows
    <3>3. ~(\E d \in Cmds : IssueStep(d))
      BY <1>3, <1>5, <3>1 DEF Issued
    <3>4. \A d \in Cmds : cmd[d].st # "idle" => d = c
      BY <3>1 DEF Issued
    <3>5. CASE Quiet /\ UNCHANGED <<devRoom, devMode>>
      <4>1. Obtains(c)'
        BY <3>1, <3>2, <3>5, ObtainsKept DEF Quiet, Written
      <4>2. ShowsResult(c) => ShowsResult(c)'
        BY <3>5 DEF Quiet, ShowsResult, ShowsRoom, DeviceSetpoint
      <4> QED
        BY <3>2, <3>5, <4>1, <4>2 DEF Quiet
    <3>6. CASE PollLands \/ PollFails
      <4>1. /\ devRoom' = devRoom /\ devMode' = devMode /\ Forms(chain') \subseteq Forms(chain)
            /\ \/ cmd'[c] = cmd[c]
               \/ /\ c = Served.by /\ cmd[c].st = "refreshing"
                  /\ cmd'[c].st = IF PollFails THEN "unrefreshed" ELSE "ok"
        BY <3>6, PollStep DEF deviceVars
      <4>2. Obtains(c)'
        BY <3>1, <3>2, <4>1, ObtainsKept DEF Written
      <4>3. ASSUME cmd'[c].st = "ok" PROVE ShowsResult(c)'
        <5>1. CASE cmd[c].st = "ok"
          BY <3>1, <3>2, <3>6, <5>1, PollShows
        <5>2. CASE cmd[c].st # "ok"
          BY <3>6, <4>1, <4>3, <5>2, OwnPageLands
        <5> QED
          BY <5>1, <5>2
      <4> QED
        BY <4>2, <4>3
    <3>7. CASE SetupReadForWrite
      <4>1. Served.by = c
        BY <3>4, <3>7, SetupReadStep
      <4> QED
        BY <3>1, <3>2, <3>7, <4>1, SoloRead
    <3>8. CASE WriteAccepted
      <4>1. Served.by = c
        BY <3>4, <3>8, WriteStep DEF FormServed
      <4> QED
        BY <3>1, <3>2, <3>8, <4>1, SoloWritten
    <3>9. CASE WriteFails
      <4>1. cmd'[c].st = "failed"
        BY <3>4, <3>9, FailStep
      <4> QED
        BY <4>1 DEF Obtains, ObtainsMode, ObtainsFlags, ObtainsRoom, Written
    <3>10. CASE TimeoutRetried
      <4>1. Quiet /\ chain # <<>> /\ MaybeObeyed(Served)
        BY <3>10, RetryStep
      <4>2. CASE cmd[c].st # "writing"
        <5>1. UNCHANGED <<devRoom, devMode>>
          BY <1>2, <3>1, <4>1, <4>2
        <5> QED
          BY <3>5, <4>1, <5>1
      <4>3. CASE cmd[c].st = "writing"
        <5>1. cmd' = cmd /\ Forms(chain') \subseteq Forms(chain)
          BY <4>1 DEF Quiet
        <5>2. Obtains(c)'
          BY <3>2, <4>3, <5>1 DEF Obtains, ObtainsMode, ObtainsFlags, ObtainsRoom, Written,
                                  Merged, Wanted
        <5> QED
          BY <4>3, <5>1, <5>2
      <4> QED
        BY <4>2, <4>3
    <3>11. Quiet /\ UNCHANGED deviceVars => Quiet /\ UNCHANGED <<devRoom, devMode>>
      BY DEF deviceVars
    <3> QED
      BY <3>3, <3>5, <3>6, <3>7, <3>8, <3>9, <3>10, <3>11, NextSteps
  <2> QED
    BY <2>1, <2>2
<1> QED
  BY <1>4, <1>5

-----------------------------------------------------------------------------
(* The properties follow.                                                    *)

RoomInv ==
    /\ TypeOK /\ OwnRequests /\ Recorded
    /\ HeatingKept /\ FormsInTurn /\ SetpointsFollow /\ SoloFollows

LEMMA RoomInvariant == Spec => []RoomInv
<1>1. Init => RoomInv
  BY InitTypeOK, InitOwn, InitRecorded, InitHeating, InitTurn, InitSetpoints, InitSolo DEF RoomInv
<1>2. RoomInv /\ [Next]_vars => RoomInv'
  BY NextTypeOK, NextOwn, NextRecorded, NextHeating, NextTurn, NextSetpoints, NextSolo DEF RoomInv
<1> QED
  BY <1>1, <1>2, PTL DEF Spec

\* A light switch re-sends mode and temperature, and yet light switches alone,
\* however many overlap, fail or are repeated, change no mode and no temperature
\* slot of the controller (commander.ts: setRoomLight).
THEOREM LightsKeepHeating == Spec => []LightKeepsHeating
<1>1. RoomInv => LightKeepsHeating
  BY DEF RoomInv, HeatingKept, LightKeepsHeating
<1> QED
  BY <1>1, RoomInvariant, PTL

\* Setpoint changes alone: if all those of a zone succeeded, the controller
\* holds the value of the last call, whatever the number of calls and zones and
\* however often a write was repeated after a timeout.
THEOREM LastCallWins == Spec => []LastSetpointWins
<1>1. RoomInv => LastSetpointWins
  <2> SUFFICES ASSUME RoomInv, NEW z \in Zones, Calls(z) # {}, panel = 0,
                      OnlyKinds({"setpoint"}),
                      \A c \in Calls(z) : Settled(c) /\ cmd[c].seen
               PROVE  /\ devRoom[z].mode = InitRoom.mode /\ devRoom[z].light = InitRoom.light
                      /\ devRoom[z].mode \in Filed =>
                            DeviceSetpoint(z) = LiveSetpoint(cmd[Newest(Calls(z))].next)
    BY DEF LastSetpointWins
  <2>1. \A c \in Calls(z) : cmd[c].st \notin {"failed", "writing"} /\ cmd[c].seen
    BY DEF Settled
  <2>2. HoldsSetpoint(z)
    BY <2>1 DEF RoomInv, SetpointsFollow, SetpointsOnly
  <2> QED
    BY <2>1, <2>2 DEF HoldsSetpoint
<1> QED
  BY <1>1, RoomInvariant, PTL

\* One call alone: when it has returned and its re-poll came back, the Store
\* shows what the controller holds and the controller what was asked for; no
\* read queued before the write can land after it.
THEOREM SoloCallLands == Spec => []SoloWriteLands
<1>1. RoomInv => SoloWriteLands
  <2> SUFFICES ASSUME RoomInv, NEW c \in Issued, Issued = {c}, panel = 0, cmd[c].st = "ok"
               PROVE  LET z == cmd[c].zone
                          next == cmd[c].next
                      IN  CASE cmd[c].kind = "system" ->
                                 sysMode = cmd[c].sysNext /\ devMode = sysMode
                            [] cmd[c].kind = "flags" ->
                                 /\ store[z].flags = devRoom[z].flags
                                 /\ devRoom[z].flags = Merged(c)
                                 /\ devRoom[z].slots = InitRoom.slots
                            [] OTHER ->
                                 /\ ShowsRoom(z)
                                 /\ cmd[c].seen =>
                                       /\ Wanted(c, devRoom[z].mode, devRoom[z].light)
                                       /\ devRoom[z].mode \in Filed /\ "heating" \in cmd[c].fields
                                             => DeviceSetpoint(z) = LiveSetpoint(next)
    BY DEF SoloWriteLands, ShowsRoom, Wanted, Merged
  <2>1. Obtains(c) /\ ShowsResult(c) /\ Written(c)
    BY DEF RoomInv, SoloFollows, Issued, Written
  <2>2. CASE cmd[c].kind = "system"
    BY <2>1, <2>2 DEF Obtains, ObtainsMode, ShowsResult
  <2>3. CASE cmd[c].kind = "flags"
    BY <2>1, <2>3 DEF Obtains, ObtainsFlags, ShowsResult
  <2>4. CASE cmd[c].kind \notin {"system", "flags"}
    BY <2>1, <2>4 DEF Obtains, ObtainsRoom, ShowsResult
  <2> QED
    BY <2>2, <2>3, <2>4
<1> QED
  BY <1>1, RoomInvariant, PTL
=============================================================================
