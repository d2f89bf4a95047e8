------------------------------ MODULE RoomSync ------------------------------
(***************************************************************************)
(* How the bridge keeps its cached rooms and the REHAU controller in step. *)
(*                                                                         *)
(* The Commander patches the Store at once, queues the device write behind *)
(* everything already in the DeviceClient chain, and re-polls when it is   *)
(* acknowledged; the Poller's timers and its boot sequence queue reads and *)
(* overwrite the Store when the answers land.  All of them run as          *)
(* interleaved asynchronous functions over one Store.                      *)
(*                                                                         *)
(* Between two awaits a Node.js function is not interrupted, so an action  *)
(* here is one such stretch: a command up to its first request, or the     *)
(* answer to a request together with all that its continuation does.       *)
(***************************************************************************)
EXTENDS DeviceClient, FiniteSets

CONSTANTS
    NZones,        \* heating zones the controller lists, numbered 1..NZones
    Temps,         \* setpoint temperatures, in the half degrees quantizeSetpoint leaves alone
    Null,          \* a reading the bridge does not have yet
    Flags,         \* the check boxes of the room set-up page
    NCmds,         \* bound: commands issued by REST and MQTT clients
    UserModes,     \* room modes the clients and the panel choose among
    UserSysModes,  \* operating modes the clients and the panel choose among
    Kinds,         \* which Commander operations the clients use
    InitRoom,      \* what the controller holds for every room at the start
    MaxChain,      \* bound: a timer fires only when fewer requests wait
    MaxPanel       \* bound: changes made at the controller itself

RoomMode == {"normal", "reduced", "standby", "program", "program_override"}
SystemMode == {"heating_only", "cooling_only", "manual_heating", "manual_cooling"}
Season == {"heating", "cooling"}
Slot == {"normal", "reduced", "standby"}
Zones == 1..NZones
Cmds == 1..NCmds

\* The requests: reads of the dashboard, the room list, a room's detail page and
\* its set-up page, and the three forms that write.
ReadOp == {"dashboard", "list", "detail", "setup"}
FormOp == {"room-form", "setup-form", "system-form"}

\* Who awaits a request, besides the commands.
Timer == 0
Boot == NCmds + 1

SlotTable == [Season -> [Slot -> Temps]]
DeviceRoom == [mode: RoomMode, light: BOOLEAN, slots: SlotTable, flags: SUBSET Flags]

ASSUME RoomSyncAssumption ==
    /\ NZones \in Nat \ {0}
    /\ NCmds \in Nat
    /\ Null \notin Temps
    /\ UserModes \subseteq RoomMode
    /\ UserSysModes \subseteq SystemMode
    /\ InitRoom \in DeviceRoom
    /\ MaxChain \in Nat
    /\ MaxPanel \in Nat

VARIABLES
    devMode,   \* the controller's operating mode
    devRoom,   \* what the controller holds for each zone
    store,     \* the Store's rooms
    listed,    \* whether the rooms exist in the Store yet
    sysMode,   \* the Store's operatingMode
    cmd,       \* the Commander calls
    boot,      \* where the Poller's boot sequence is
    page,      \* the room pages the boot sequence has asked for
    rrIndex,   \* the Poller's round-robin index
    panel      \* changes made at the controller so far

deviceVars == <<devMode, devRoom, panel>>
storeVars == <<store, listed, sysMode>>
bootVars == <<boot, page>>
vars == <<clientVars, deviceVars, storeVars, bootVars, cmd, rrIndex>>

-----------------------------------------------------------------------------
(* The Store's rooms.                                                      *)

MaybeTemp == Temps \cup {Null}

StoreRoom ==
    [mode: RoomMode, light: BOOLEAN, heating: MaybeTemp, cooling: MaybeTemp,
     slots: [Slot -> MaybeTemp], flags: SUBSET Flags]

\* The fields an optimistic write may touch, flags apart.
RoomField == {"mode", "light", "heating", "cooling"}

\* ensureRoomForZone: a room starts without readings, but in mode "standby",
\* with its light off, and with all flags but `lock`.
BlankRoom ==
    [mode |-> "standby", light |-> FALSE, heating |-> Null, cooling |-> Null,
     slots |-> [s \in Slot |-> Null], flags |-> Flags \ {"lock"}]

SeasonOf(m) == IF m \in {"cooling_only", "manual_cooling"} THEN "cooling" ELSE "heating"

\* The operating mode a bridge believes in until its first dashboard read.
InitSysMode == "manual_heating"

\* `room` with the fields `fs` and the flags `gs` taken from `from`.
Overlay(room, from, fs, gs) ==
    [mode    |-> IF "mode" \in fs THEN from.mode ELSE room.mode,
     light   |-> IF "light" \in fs THEN from.light ELSE room.light,
     heating |-> IF "heating" \in fs THEN from.heating ELSE room.heating,
     cooling |-> IF "cooling" \in fs THEN from.cooling ELSE room.cooling,
     slots   |-> room.slots,
     flags   |-> (room.flags \ gs) \cup (from.flags \cap gs)]

\* Mutant of WithSetpoint: the side of the other season is left as it was.
WithSetpointOneSide(room, v) ==
    IF SeasonOf(sysMode) = "cooling" THEN [room EXCEPT !.cooling = v]
    ELSE [room EXCEPT !.heating = v]

\* setpointPatch: the value goes to the side of the season in force.
WithSetpoint(room, v) ==
    IF SeasonOf(sysMode) = "cooling"
    THEN [room EXCEPT !.cooling = v, !.heating = Null]
    ELSE [room EXCEPT !.heating = v, !.cooling = Null]

\* A room that a detail page has filled: its mode and light are not BlankRoom's.
Seen(room) == room.slots["normal"] # Null

OrElse(v, w) == IF v # Null THEN v ELSE w

\* Mutant of LiveSetpoint: the normal slot, whatever the mode.
LiveSetpointNormal(room) == room.slots["normal"]

\* The room's live setpoint, whichever side holds it.
LiveSetpoint(room) == OrElse(room.heating, room.cooling)

\* slotForMode: programs start from the normal slot.
SlotForMode(room, m) ==
    OrElse(room.slots[IF m \in Slot THEN m ELSE "normal"], room.heating)

-----------------------------------------------------------------------------
(* The controller, as far as the bridge's requests depend on it.           *)

\* A room form sets mode and light and files its temperature in the slot of
\* that mode, in the season in force; "standby" sends no temperature.
FileRoomForm(room, form) ==
    [room EXCEPT
        !.mode = form.mode,
        !.light = form.light,
        !.slots[SeasonOf(devMode)] =
            IF form.mode \in {"normal", "reduced"}
            THEN [@ EXCEPT ![form.mode] = form.temp]
            ELSE @]

\* A set-up form carries every flag and every slot of both seasons.
FileSetupForm(room, form) == [room EXCEPT !.slots = form.slots, !.flags = form.flags]

\* What the controller becomes when it obeys request req.
Obeyed(req) ==
    /\ devRoom' = CASE req.op = "room-form" ->
                         [devRoom EXCEPT ![req.zone] = FileRoomForm(@, req.form)]
                    [] req.op = "setup-form" ->
                         [devRoom EXCEPT ![req.zone] = FileSetupForm(@, req.form)]
                    [] OTHER -> devRoom
    /\ devMode' = IF req.op = "system-form" THEN req.form.sys ELSE devMode

\* A request that fails may have been obeyed all the same.
MaybeObeyed(req) == Obeyed(req) \/ UNCHANGED <<devRoom, devMode>>

\* Someone changes a setting at the controller's own panel.
Panel ==
    /\ panel < MaxPanel
    /\ panel' = panel + 1
    /\ \/ \E z \in Zones, m \in UserModes :
            /\ devRoom' = [devRoom EXCEPT ![z].mode = m]
            /\ UNCHANGED devMode
       \/ \E z \in Zones :
            /\ devRoom' = [devRoom EXCEPT ![z].light = ~@]
            /\ UNCHANGED devMode
       \/ \E z \in Zones, v \in Temps :
            /\ devRoom' = [devRoom EXCEPT ![z].slots[SeasonOf(devMode)]["normal"] = v]
            /\ UNCHANGED devMode
       \/ \E m \in UserSysModes : devMode' = m /\ UNCHANGED devRoom
    /\ <<devRoom, devMode>>' # <<devRoom, devMode>>
    /\ UNCHANGED <<clientVars, storeVars, bootVars, cmd, rrIndex>>

-----------------------------------------------------------------------------
(* The pages of the controller, as the parsers read them.                  *)

DashboardPage == [sys |-> devMode]

\* The detail page shows the slots of the season in force and, as the value of
\* the dial, that of slot `s`.
DetailPage(z, s) ==
    LET slots == devRoom[z].slots[SeasonOf(devMode)]
    IN  [mode |-> devRoom[z].mode, light |-> devRoom[z].light,
         slots |-> slots, setpoint |-> slots[s]]

\* The set-up page shows the slots of both seasons and the check boxes.
SetupPage(z) == [slots |-> devRoom[z].slots, flags |-> devRoom[z].flags]

-----------------------------------------------------------------------------
(* Requests.                                                               *)

\* Only "standby" goes out without a temperature.
NoForm == [none |-> TRUE]
RoomForm ==
    {f \in [mode: RoomMode, temp: MaybeTemp, light: BOOLEAN] :
        f.mode # "standby" => f.temp # Null}
SetupForm == [slots: SlotTable, flags: SUBSET Flags]
SystemForm == [sys: SystemMode]

Request ==
    [op: ReadOp, zone: Zones, by: Timer..Boot, form: {NoForm}]
    \cup [op: {"room-form"}, zone: Zones, by: Cmds, form: RoomForm]
    \cup [op: {"setup-form"}, zone: Zones, by: Cmds, form: SetupForm]
    \cup [op: {"system-form"}, zone: Zones, by: Cmds, form: SystemForm]

Read(op, z, who) == [op |-> op, zone |-> z, by |-> who, form |-> NoForm]
Post(op, z, c, form) == [op |-> op, zone |-> z, by |-> c, form |-> form]

\* setpointToDeviceForm: "standby" is sent without its temperature.  Rounding to half
\* degrees does nothing to Temps.
FormFor(m, v, l) == [mode |-> m, temp |-> IF m = "standby" THEN Null ELSE v, light |-> l]

\* The request being served.
Served == Head(chain)

-----------------------------------------------------------------------------
(* The Poller.                                                             *)

\* Each timer queues its read whether or not the last one has come back.
TimerFires(op, z) ==
    /\ Len(chain) < MaxChain
    /\ Enqueue(Read(op, z, Timer))
    /\ UNCHANGED <<deviceVars, storeVars, bootVars, cmd>>

PollDashboard == TimerFires("dashboard", 1) /\ UNCHANGED rrIndex
PollRoomList == TimerFires("list", 1) /\ UNCHANGED rrIndex

\* Mutant of PollRoomDetailRR: the index does not advance.
PollRoomDetailStuck ==
    /\ listed
    /\ TimerFires("detail", rrIndex + 1)
    /\ UNCHANGED rrIndex

\* Mutant of PollRoomDetailRR: the index does not wrap around.
PollRoomDetailNoWrap ==
    /\ listed
    /\ TimerFires("detail", rrIndex + 1)
    /\ rrIndex' = rrIndex + 1

\* pollRoomDetailRR: one room per tick, in turn.
PollRoomDetailRR ==
    /\ listed
    /\ TimerFires("detail", rrIndex + 1)
    /\ rrIndex' = (rrIndex + 1) % NZones

\* The boot sequence reads the dashboard, the room list and, after a pause,
\* for each room then in the Store its detail page and its set-up page.
BootPage(i) ==
    Read(IF i % 2 = 1 THEN "detail" ELSE "setup", (i + 1) \div 2, Boot)

BootReadsRooms ==
    /\ boot = "pause"
    /\ IF listed
       THEN boot' = "pages" /\ page' = 1 /\ Enqueue(BootPage(1))
       ELSE boot' = "done" /\ UNCHANGED <<page, clientVars>>
    /\ UNCHANGED <<deviceVars, storeVars, cmd, rrIndex>>

\* Mutant of Returned: a failed re-poll never resolves.
ReturnedIfRefreshed(c, st) ==
    cmd' = [cmd EXCEPT ![c].st = IF st = "unrefreshed" THEN @ ELSE st]

\* Call c returns with outcome st; its closure and its snapshot are gone.
Returned(c, st) ==
    cmd' = [cmd EXCEPT ![c] = [@ EXCEPT !.st = st, !.prev = BlankRoom, !.sysPrev = InitSysMode]]

\* What happens once a poll is over.  safe() reports no failure to its caller,
\* so the boot sequence and the commands carry on either way.
AfterPoll(landed) ==
    \/ /\ Served.by = Timer
       /\ Settle
       /\ UNCHANGED <<bootVars, cmd>>
    \/ /\ Served.by = Boot
       /\ CASE Served.op = "dashboard" ->
                 SettleAndEnqueue(Read("list", 1, Boot)) /\ UNCHANGED bootVars
            [] Served.op = "list" ->
                 Settle /\ boot' = "pause" /\ UNCHANGED page
            [] OTHER ->
                 IF page < 2 * NZones
                 THEN SettleAndEnqueue(BootPage(page + 1)) /\ page' = page + 1 /\ UNCHANGED boot
                 ELSE Settle /\ boot' = "done" /\ UNCHANGED page
       /\ UNCHANGED cmd
    \/ /\ Served.by \in Cmds
       /\ Settle
       /\ Returned(Served.by, IF landed THEN "ok" ELSE "unrefreshed")
       /\ UNCHANGED bootVars

\* A poll is being served: any read but the one that opens a set-up write.
Polling(op) ==
    /\ chain # <<>>
    /\ Served.op = op
    /\ Served.by \in Cmds => cmd[Served.by].st = "refreshing"
    /\ UNCHANGED <<deviceVars, rrIndex>>

DashboardLands ==
    /\ Polling("dashboard")
    /\ sysMode' = DashboardPage.sys
    /\ UNCHANGED <<store, listed>>
    /\ AfterPoll(TRUE)

\* Rooms are created for the zones listed; names and temperatures are left out.
RoomListLands ==
    /\ Polling("list")
    /\ listed' = TRUE
    /\ UNCHANGED <<store, sysMode>>
    /\ AfterPoll(TRUE)

\* Mutant of ActiveSlots: always the normal slot.
ActiveSlotsNormal(m) == {"normal"}

\* The slot the dial of the page shows: in the program modes either slot may
\* be the one its program has active.
ActiveSlots(m) ==
    IF m \in {"program", "program_override"} THEN {"normal", "reduced"}
    ELSE IF m = "reduced" THEN {"reduced"} ELSE {"normal"}

\* Mutant of DetailLands: a setpoint the Store already shows is not read again.
DetailLandsKeepsDial ==
    /\ Polling("detail")
    /\ \E s \in ActiveSlots(devRoom[Served.zone].mode) :
          LET shown == DetailPage(Served.zone, s)
          IN  store' = [store EXCEPT ![Served.zone] =
                  WithSetpoint([@ EXCEPT !.mode = shown.mode, !.light = shown.light,
                                         !.slots = shown.slots],
                               OrElse(LiveSetpoint(@), shown.setpoint))]
    /\ UNCHANGED <<listed, sysMode>>
    /\ AfterPoll(TRUE)

\* The side the live value goes to is chosen by the Store's own operating
\* mode when the answer arrives, not by the page.
DetailLands ==
    /\ Polling("detail")
    /\ \E s \in ActiveSlots(devRoom[Served.zone].mode) :
          LET shown == DetailPage(Served.zone, s)
          IN  store' = [store EXCEPT ![Served.zone] =
                  WithSetpoint([@ EXCEPT !.mode = shown.mode, !.light = shown.light,
                                         !.slots = shown.slots],
                               shown.setpoint)]
    /\ UNCHANGED <<listed, sysMode>>
    /\ AfterPoll(TRUE)

SetupLands ==
    /\ Polling("setup")
    /\ store' = [store EXCEPT ![Served.zone].flags = SetupPage(Served.zone).flags]
    /\ UNCHANGED <<listed, sysMode>>
    /\ AfterPoll(TRUE)

PollFails ==
    /\ \E op \in ReadOp : Polling(op)
    /\ UNCHANGED storeVars
    /\ AfterPoll(FALSE)

-----------------------------------------------------------------------------
(* The Commander.                                                          *)

CmdState == {"idle", "refused", "reading", "writing", "refreshing",
             "ok", "unrefreshed", "failed"}
CmdKind == {"setpoint", "mode", "mode-at", "light", "flags", "system"}

Command ==
    [st: CmdState, kind: CmdKind, zone: Zones, next: StoreRoom, prev: StoreRoom,
     fields: SUBSET RoomField, boxes: SUBSET Flags,
     sysNext: SystemMode, sysPrev: SystemMode,
     seen: BOOLEAN]  \* history: a detail page had filled the room by then

\* Of a room only the touched fields are kept, over a blank one.
Part(room, fields, boxes) == Overlay(BlankRoom, room, fields, boxes)

Pending(c) == cmd[c].st \in {"reading", "writing", "refreshing"}
Settled(c) == cmd[c].st \in {"ok", "unrefreshed"}
Issued == {c \in Cmds : cmd[c].st # "idle"}

\* Command c is the next to come in; commands are numbered as they are issued.
Arrives(c, kind) ==
    /\ kind \in Kinds
    /\ cmd[c].st = "idle"
    /\ \A d \in 1..(c - 1) : d \in Issued
    /\ UNCHANGED <<deviceVars, bootVars, listed, rrIndex>>

\* optimistic(): keep what is about to be touched, patch the Store, queue the
\* first request of the write.  A handler finds no room before the list landed.
Optimistic(c, kind, z, next, fields, boxes, req) ==
    /\ listed
    /\ Arrives(c, kind)
    /\ cmd' = [cmd EXCEPT ![c] =
          [@ EXCEPT !.st = IF kind = "flags" THEN "reading" ELSE "writing",
                    !.kind = kind, !.zone = z, !.fields = fields, !.boxes = boxes,
                    !.next = Part(next, fields, boxes),
                    !.prev = Part(store[z], fields, boxes),
                    !.seen = Seen(store[z])]]
    /\ store' = [store EXCEPT ![z] = Overlay(@, next, fields, boxes)]
    /\ Enqueue(req)
    /\ UNCHANGED sysMode

\* The 503 of a mode or light write that has no setpoint to send.
Refused(c, kind, z) ==
    /\ listed
    /\ Arrives(c, kind)
    /\ cmd' = [cmd EXCEPT ![c].st = "refused", ![c].kind = kind, ![c].zone = z]
    /\ UNCHANGED <<clientVars, store, sysMode>>

SetRoomSetpoint(c, z, v) ==
    LET room == store[z]
    IN  Optimistic(c, "setpoint", z, WithSetpoint(room, v), {"heating", "cooling"}, {},
                   Post("room-form", z, c, FormFor(room.mode, v, room.light)))

WriteMode(c, kind, z, m, v) ==
    LET room == store[z]
    IN  Optimistic(c, kind, z, WithSetpoint([room EXCEPT !.mode = m], v),
                   {"mode", "heating", "cooling"}, {},
                   Post("room-form", z, c, FormFor(m, v, room.light)))

\* Without a setpoint of its own, a mode change sends the new mode's slot.
SetRoomMode(c, z, m) ==
    LET v == SlotForMode(store[z], m)
    IN  IF v = Null THEN Refused(c, "mode", z) ELSE WriteMode(c, "mode", z, m, v)

SetRoomModeAt(c, z, m, v) == WriteMode(c, "mode-at", z, m, v)

SetRoomLight(c, z, l) ==
    LET room == store[z]
        v == LiveSetpoint(room)
    IN  IF v = Null
        THEN Refused(c, "light", z)
        ELSE Optimistic(c, "light", z, [room EXCEPT !.light = l], {"light"}, {},
                        Post("room-form", z, c, FormFor(room.mode, v, l)))

\* The named check boxes become `on`; the write starts by reading the page.
SetRoomFlags(c, z, boxes, on) ==
    Optimistic(c, "flags", z, [store[z] EXCEPT !.flags = on], {}, boxes,
               Read("setup", z, c))

SetOperatingMode(c, m) ==
    /\ Arrives(c, "system")
    /\ cmd' = [cmd EXCEPT ![c] = [@ EXCEPT !.st = "writing", !.kind = "system",
                                           !.sysNext = m, !.sysPrev = sysMode]]
    /\ sysMode' = m
    /\ Enqueue(Post("system-form", 1, c, [sys |-> m]))
    /\ UNCHANGED store

\* The page a set-up write asked for arrives: the named boxes are merged into
\* it and everything it shows is posted back, behind the requests now waiting.
SetupReadForWrite ==
    /\ chain # <<>>
    /\ Served.by \in Cmds
    /\ cmd[Served.by].st = "reading"
    /\ LET c == Served.by
           cur == SetupPage(Served.zone)
           merged == (cur.flags \ cmd[c].boxes) \cup (cmd[c].next.flags \cap cmd[c].boxes)
       IN  /\ SettleAndEnqueue(Post("setup-form", Served.zone, c,
                                    [slots |-> cur.slots, flags |-> merged]))
           /\ cmd' = [cmd EXCEPT ![c].st = "writing"]
    /\ UNCHANGED <<deviceVars, storeVars, bootVars, rrIndex>>

\* The re-poll a command makes when its form was accepted.
RefreshAfter(req) ==
    Read(CASE req.op = "room-form" -> "detail"
           [] req.op = "setup-form" -> "setup"
           [] OTHER -> "dashboard", req.zone, req.by)

Writing ==
    /\ chain # <<>>
    /\ Served.op \in FormOp

WriteAccepted ==
    /\ Writing
    /\ Obeyed(Served)
    /\ cmd' = [cmd EXCEPT ![Served.by].st = "refreshing"]
    /\ SettleAndEnqueue(RefreshAfter(Served))
    /\ UNCHANGED <<storeVars, bootVars, rrIndex, panel>>

\* A write that fails puts the fields it touched back to what they were when
\* it was issued.
Revert(c) ==
    /\ store' = IF cmd[c].kind = "system" THEN store
                ELSE [store EXCEPT ![cmd[c].zone] =
                          Overlay(@, cmd[c].prev, cmd[c].fields, cmd[c].boxes)]
    /\ sysMode' = IF cmd[c].kind = "system" THEN cmd[c].sysPrev ELSE sysMode
    /\ UNCHANGED listed

\* Mutant of WriteFails: rolled back, but the caller is not told.
WriteFailsUncaught ==
    /\ chain # <<>>
    /\ Served.by \in Cmds
    /\ cmd[Served.by].st \in {"reading", "writing"}
    /\ MaybeObeyed(Served)
    /\ Revert(Served.by)
    /\ Settle
    /\ UNCHANGED <<bootVars, cmd, rrIndex, panel>>

WriteFails ==
    /\ chain # <<>>
    /\ Served.by \in Cmds
    /\ cmd[Served.by].st \in {"reading", "writing"}
    /\ MaybeObeyed(Served)
    /\ Revert(Served.by)
    /\ Returned(Served.by, "failed")
    /\ Settle
    /\ UNCHANGED <<bootVars, rrIndex, panel>>

\* A timed-out first attempt may have reached the controller as well.
TimeoutRetried ==
    /\ RetryInPlace
    /\ MaybeObeyed(Served)
    /\ UNCHANGED <<storeVars, bootVars, cmd, rrIndex, panel>>

-----------------------------------------------------------------------------
BlankCommand ==
    [st |-> "idle", kind |-> "system", zone |-> 1, next |-> BlankRoom, prev |-> BlankRoom,
     fields |-> {}, boxes |-> {}, sysNext |-> InitSysMode, sysPrev |-> InitSysMode,
     seen |-> FALSE]

\* The bridge has just started: Store empty but for the seeded system state,
\* first boot read queued.
Init ==
    /\ chain = <<Read("dashboard", 1, Boot)>>
    /\ retried = FALSE
    /\ devMode \in UserSysModes
    /\ devRoom = [z \in Zones |-> InitRoom]
    /\ panel = 0
    /\ store = [z \in Zones |-> BlankRoom]
    /\ listed = FALSE
    /\ sysMode = InitSysMode
    /\ cmd = [c \in Cmds |-> BlankCommand]
    /\ boot = "lead"
    /\ page = 0
    /\ rrIndex = 0

Issue(c) ==
    \/ \E z \in Zones, v \in Temps : SetRoomSetpoint(c, z, v)
    \/ \E z \in Zones, m \in UserModes : SetRoomMode(c, z, m)
    \/ \E z \in Zones, m \in UserModes, v \in Temps : SetRoomModeAt(c, z, m, v)
    \/ \E z \in Zones, l \in BOOLEAN : SetRoomLight(c, z, l)
    \/ \E z \in Zones, boxes \in SUBSET Flags : \E on \in SUBSET boxes :
          boxes # {} /\ SetRoomFlags(c, z, boxes, on)
    \/ \E m \in UserSysModes : SetOperatingMode(c, m)

PollLands == DashboardLands \/ RoomListLands \/ DetailLands \/ SetupLands

\* The request being served comes to an end, one way or another.
Answered == PollLands \/ PollFails \/ SetupReadForWrite \/ WriteAccepted \/ WriteFails

Next ==
    \/ PollDashboard
    \/ PollRoomList
    \/ PollRoomDetailRR
    \/ BootReadsRooms
    \/ \E c \in Cmds : Issue(c)
    \/ Answered
    \/ TimeoutRetried
    \/ Panel

Spec == Init /\ [][Next]_vars

-----------------------------------------------------------------------------
(* Fairness: the client's timeouts end every request, and the event loop     *)
(* runs every continuation (AnswersCome); it runs every timer, which the     *)
(* queue does not slow down (MaxChain is a bound of the model), hence strong *)
(* fairness.  A controller polled for ever answers each page from time to    *)
(* time.                                                                     *)
AnswersCome == WF_vars(Answered)

Fairness ==
    /\ AnswersCome
    /\ WF_vars(BootReadsRooms)
    /\ SF_vars(PollDashboard)
    /\ SF_vars(PollRoomList)
    /\ SF_vars(PollRoomDetailRR)
    /\ SF_vars(DashboardLands)
    /\ SF_vars(RoomListLands)
    /\ \A z \in Zones : SF_vars(DetailLands /\ Served.zone = z)

-----------------------------------------------------------------------------
(* Properties.                                                             *)

\* Every variable holds what the code's types say it holds.
TypeOK ==
    /\ chain \in Seq(Request)
    /\ retried \in BOOLEAN
    /\ devMode \in SystemMode
    /\ devRoom \in [Zones -> DeviceRoom]
    /\ panel \in 0..MaxPanel
    /\ store \in [Zones -> StoreRoom]
    /\ listed \in BOOLEAN
    /\ sysMode \in SystemMode
    /\ cmd \in [Cmds -> Command]
    /\ boot \in {"lead", "pause", "pages", "done"}
    /\ page \in 0..(2 * NZones)
    /\ rrIndex \in 0..(NZones - 1)

\* "They're never both non-null" (commander.ts:162-164): whatever polls,
\* optimistic patches and roll-backs interleave, and whichever season each of
\* them saw, a room never shows a heating and a cooling setpoint at once.
SetpointPairExclusive ==
    \A z \in Zones : store[z].heating = Null \/ store[z].cooling = Null

\* A Commander call that has not returned has exactly one request in the chain:
\* none is forgotten, whichever way the requests before it ended, and none is
\* sent twice in parallel.
PendingHasOneRequest ==
    \A c \in Cmds :
        Cardinality({i \in 1..Len(chain) : chain[i].by = c}) = IF Pending(c) THEN 1 ELSE 0

OnlyKinds(ks) == \A c \in Issued : cmd[c].kind \in ks

\* What the detail page of zone z shows for the slot its mode uses.
DeviceSetpoint(z) ==
    devRoom[z].slots[SeasonOf(devMode)][IF devRoom[z].mode = "reduced" THEN "reduced" ELSE "normal"]

Calls(z) == {c \in Issued : cmd[c].zone = z}
Newest(cs) == CHOOSE c \in cs : \A d \in cs : d <= c

\* The modes under which a room form's temperature is filed.
Filed == {"normal", "reduced"}

\* When clients change setpoints only, and all calls on a zone succeeded, the
\* controller ends up with the value of the last call, however the calls
\* overlapped and however often one had to be retried; the mode, the light and
\* the flags it held are untouched.
LastSetpointWins ==
    \A z \in Zones :
        /\ Calls(z) # {}
        /\ panel = 0
        /\ OnlyKinds({"setpoint"})
        /\ \A c \in Calls(z) : Settled(c) /\ cmd[c].seen
        => /\ devRoom[z].mode = InitRoom.mode
           /\ devRoom[z].light = InitRoom.light
           /\ devRoom[z].mode \in Filed =>
                 DeviceSetpoint(z) = LiveSetpoint(cmd[Newest(Calls(z))].next)

\* The room form carries setpoint and mode too, so a light switch re-sends
\* them: with nothing but light switches going on, no temperature slot and no
\* mode of the controller ever changes, whether the writes succeed or not.
LightKeepsHeating ==
    panel = 0 /\ OnlyKinds({"light"}) =>
        \A z \in Zones :
            devRoom[z].slots = InitRoom.slots /\ devRoom[z].mode = InitRoom.mode

\* A call that is alone, succeeded, and whose re-poll came back shows what the
\* controller really holds (in the program modes, one of its two values), and
\* that is what the caller asked for: no poll queued before the write can land
\* after it.
SoloWriteLands ==
    \A c \in Issued :
        /\ Issued = {c}
        /\ panel = 0
        /\ cmd[c].st = "ok"
        => LET z == cmd[c].zone
               next == cmd[c].next
           IN  CASE cmd[c].kind = "system" -> sysMode = cmd[c].sysNext /\ devMode = sysMode
                 [] cmd[c].kind = "flags" ->
                      /\ store[z].flags = devRoom[z].flags
                      /\ devRoom[z].flags = (InitRoom.flags \ cmd[c].boxes)
                                                \cup (next.flags \cap cmd[c].boxes)
                      /\ devRoom[z].slots = InitRoom.slots
                 [] OTHER ->
                      /\ store[z].mode = devRoom[z].mode
                      /\ store[z].light = devRoom[z].light
                      /\ devRoom[z].mode \notin {"program", "program_override"}
                           => LiveSetpoint(store[z]) = DeviceSetpoint(z)
                      /\ cmd[c].seen =>
                            /\ devRoom[z].mode = IF "mode" \in cmd[c].fields THEN next.mode ELSE InitRoom.mode
                            /\ devRoom[z].light = IF "light" \in cmd[c].fields THEN next.light ELSE InitRoom.light
                            /\ devRoom[z].mode \in Filed /\ "heating" \in cmd[c].fields
                                 => DeviceSetpoint(z) = LiveSetpoint(next)

\* Every call returns, however its requests and those before them end: its
\* client is told "done" or is told of the failure.  Only the client's timeouts
\* are needed for it, no timer and no co-operative controller.
CallsReturn == \A c \in Cmds : Pending(c) ~> ~Pending(c)

\* The Store shows for zone z what the controller's pages show.
Mirrors(z) ==
    /\ store[z].mode = devRoom[z].mode
    /\ store[z].light = devRoom[z].light
    /\ store[z].slots = devRoom[z].slots[SeasonOf(devMode)]
    /\ store[z].heating = IF SeasonOf(devMode) = "heating" THEN DeviceSetpoint(z) ELSE Null
    /\ store[z].cooling = IF SeasonOf(devMode) = "cooling" THEN DeviceSetpoint(z) ELSE Null

\* Roll-backs to stale values, forms accepted but reported as failed, swallowed
\* re-polls and season changes leave the Store wrong; the timers mend all of
\* it: once clients and panel are done, operating mode and rooms come to mirror
\* the controller and stay so, if it is polled and answers.
StoreConverges ==
    Fairness => <>[](sysMode = devMode /\ \A z \in Zones : Mirrors(z))

-----------------------------------------------------------------------------
(* What the source's comments say, and overlapping calls do not keep.        *)

\* source.ts:144: "Partial patch to room-set-up.html - only listed fields
\* change": a set-up write alters no setpoint slot of the controller.
SetupWriteKeepsSlots ==
    [][\A z \in Zones :
          chain # <<>> /\ Served.op = "setup-form" => devRoom'[z].slots = devRoom[z].slots]_vars

\* commander.ts:133-136: a mode change without a setpoint must not overwrite
\* what the controller has filed in a slot (the room having been read before).
ModeChangeKeepsSlots ==
    [][\A z \in Zones :
          chain # <<>> /\ Served.op = "room-form" /\ cmd[Served.by].kind = "mode"
          /\ cmd[Served.by].seen
            => devRoom'[z].slots = devRoom[z].slots]_vars

\* commander.ts:139-141, store.ts:83-86: nothing synthesised is posted; a room
\* form is only sent once the room's page has been read.
NothingSynthesised ==
    \A i \in 1..Len(chain) :
        chain[i].op = "room-form" => cmd[chain[i].by].seen
=============================================================================
