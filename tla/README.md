# Verification of the REHAU NEA SMART 2 bridge

The bridge is a Node.js process between a REHAU NEA SMART 2 heating controller,
whose only interface is a handful of slow HTML pages, and Home Assistant, a web
application and a mobile shell.  It keeps a cache of what the controller shows
(the *Store*), refreshes it with polls, writes to the controller on behalf of
REST and MQTT clients, and publishes the cache.  Nothing in it runs in
parallel, but almost everything is asynchronous: a write is a chain of requests,
each of which may wait for seconds behind others, time out, be repeated, and
have been obeyed all the same.

This directory holds TLA+ models of that process, checked with TLC, and proofs
of their main invariants, checked with TLAPS.  Paths below are relative to
`src/apps/bridge/src/` unless they start with `src/`.

## 1. Inventory

| Component | State it keeps | Operations | What is hard | What makes it correct |
|---|---|---|---|---|
| **DeviceClient** (`device/client.ts`) | one promise chain | `enqueue`, `request` with one retry after a timeout | every call waits for all earlier ones; a timed-out request may have been obeyed | each call settles exactly once, in order, whatever happened before |
| **Commander** (`core/commander.ts`) | closures of the calls that are under way | setpoint, mode, light, flags, operating mode, energy level | optimistic patches, roll-backs and re-polls of overlapping calls | every call returns; the last value written stays; the cache converges |
| **Poller** (`core/poller.ts`) | timers, round-robin index, boot sequence | dashboard, room list, room detail, room set-up, messages, I/O, calibration, system info | reads queued before a write land after its patch; failures are swallowed | the cache converges to the controller |
| **Store** (`core/store.ts`) | rooms, system, messages, programs, I/O, reachability, connection | patches and events, `recordFetch` | written by everybody, in the order in which answers happen to land | a room never shows two setpoints; blank readings are never posted |
| **LiveDeviceSource** (`device/source.ts`) | none | one method per page and form; read-merge-write updates | every form is all or nothing | a partial update leaves the other fields alone |
| **InstallerSession** (`device/installer.ts`) | mutex, queue of waiters | `run(fn)`: acquire, login, fn, logout, release | the controller has one installer mode for everybody; each step may fail | sessions never overlap, first come first served, no update lost |
| **Connection status** (`core/store.ts`, `mqtt/client.ts`, `mqtt/bridge.ts`) | online/degraded/offline, failure streak, availability topic | `recordFetch`, `setReachable`, connect, last will, stop | two writers of one retained topic; time | the topic comes to tell whether the controller answers |
| **Discovery** (`mqtt/bridge.ts`, `mqtt/discovery.ts`, `mqtt/topics.ts`) | capability signature | announce when the signature changed; take commands | race of the first poll and the first publication; five files must agree on topics, fields and payloads | entities match the last known capabilities; what a user picks reaches its target and shows as picked |
| **Persistent state** (`core/persistent-state.ts`, `main.ts`, routes) | floors and scenes, in memory and in a file | load and merge at boot, save on change | crashes, failed saves, malformed files | a restart gives back what the file holds; a save cut short keeps the old file; rooms carry their floor |
| **Boot fingerprint** (`main.ts`, `core/fingerprint.ts`) | none | log once after the boot polls | order of two calls in `main` | (not modelled) |
| **Codecs** (`device/codecs.ts`, `device/settings.ts`) | none | modes, levels, setpoints, program bits and intervals, settings forms | boundaries, rounding, all-or-nothing forms | encode and decode are inverse; a form changes what was patched |
| **Parsers** (`device/parsers.ts`) | none | HTML to records | defaults for what a page does not show | what a page yields is what its readers expect |
| **REST API** (`http/`) | signing secret | routes over Commander, Store and source; tokens | several writes in one call; expiry | what a client was told is what happened |
| **Web application** (`src/apps/web`) | session, query cache, drafts, timers | optimistic edits, debounced writes, drafts with Save and Cancel, polling | late answers, refetches under edits, leaving a page with edits unsent | edits are sent once, to the object they were made on; the page settles on the bridge's data |
| **Mobile shell** (`src/apps/mobile`) | installations, phase, probes, storage writes | select, add, edit, delete, probe, retry | late probe results, a guard shared by several probes, a killed process | the waiting screen has a probe, Retry starts one |

Components interact in three ways.  *Calls*: routes and MQTT messages call the
Commander, which calls the source, which queues requests in the DeviceClient.
*Shared state*: Commander and Poller write the Store between any two of each
other's requests.  *Events*: the Store emits changes that the MQTT bridge
publishes and `main.ts` saves.  The web application reaches the bridge through its
routes only and never sees events: it polls.

Everything here that a test would hardly reach is listed, with its line, under
`hazards` in `PROJECT.json`.

## 2. The models

| Module | Models | Composed with |
|---|---|---|
| `DeviceClient` | the request chain and the retry after a timeout | extended by `RoomSync` and `InstallerSession` |
| `RoomSync` | Commander, Poller, Store rooms and the controller they share | `RoomSyncMC`: values for TLC |
| `InstallerSession` | `run(fn)`, its mutex, the controller's installer mode, read-merge-write updates, the calibration mirror | instantiates `FifoLock` |
| `FifoLock` | abstract: a lock handed over in the order of the requests | |
| `Discovery` | all announced entities, their topics, fields and controls, the signature, command handling, the codecs of what they set | extended by `HomeAssistant` |
| `HomeAssistant` | the MQTT client and bridge, the broker, the life of the process; the I/O parser | the polls of `RoomSync`, reduced to their results |
| `DeviceStatus` | online, degraded, offline: `recordFetch` | extended by `WebShell` |
| `WebQuery` | one entry of the TanStack Query cache (external) | extended by all web pages |
| `WebShell` | the web application's session and connection banner, the bridge's tokens | `AppShells` |
| `RoomPage` | the page of one room and its routes | `AppShells` |
| `MobileShell` | the mobile application | `AppShells` |
| `AppShells` | one of the three above, whichever the behaviour follows | |
| `SettingsPage` | the installer's editors (settings, calibration) and their routes | `WebEditors` |
| `SettingsForm` | pure: how a settings group is read, merged, formatted and filed | `WebEditors` |
| `ProgramsPage` | the editors of daily and weekly programs and their routes | `WebEditors` |
| `DayProgram` | pure: intervals and quarter-hour bits | `WebEditors` |
| `UserConfig` | floors and scenes in the bridge, their file, crashes and restarts | instantiates `DurableConfig` |
| `DurableConfig` | abstract: a value replaced as a whole while the process runs; a restart gives back the durable one | |
| `ConfigPage` | the floor and scene editors of the System tab | extends `UserConfig` |
| `WebEditors`, `WebEditorsMC` | one of the editors in `Pages`, whichever the behaviour follows; values for TLC | |
| `*_proofs` (8 modules) | theorems | |

### What an action is

A Node.js function is not interrupted between two awaits.  An action is one
such stretch: a call up to its first request, or the end of the request at the
head of `chain` together with everything its continuation does up to its next
request.  In the code a few microtasks lie between the settling of a request and
the last of its continuations; nothing else that is modelled can run in between,
as timers, messages and HTTP requests are macrotasks and only one request is
served at a time.  The one exception is the installer mutex, which a waiter is
granted in one microtask and uses in a later one: there the gap is a state of
its own ("granted").

A request ends in one of three ways: it is accepted, it fails without effect, or
it fails although the controller obeyed it.  Before that it may time out once
and be repeated in place (`TimeoutRetried`), again with or without effect.

### RoomSync

*State.*  `devRoom`, `devMode` are the controller's (external: what the code
assumes of the pages and forms it uses); `store`, `listed`, `sysMode` are the
Store; `cmd[c]` is the c-th Commander call, with the fields it touched and the
snapshot `optimistic()` took of them; `boot` and `page` are where the boot
sequence is; `rrIndex` is the Poller's.  `seen` in a call is a history variable:
whether a detail page had filled the room when the call was made.

*Actions.*  `SetRoomSetpoint`, `SetRoomMode`, `SetRoomModeAt`, `SetRoomLight`,
`SetRoomFlags`, `SetOperatingMode` are the Commander's methods up to the first
request (a 503 is `Refused`).  `SetupReadForWrite`, `WriteAccepted` and
`WriteFails` are the continuations of its requests.  `PollDashboard`,
`PollRoomList` and `PollRoomDetailRR` are the timers, `DashboardLands`,
`RoomListLands`, `DetailLands`, `SetupLands` and `PollFails` what `safe()` does
with the answers, whoever asked; `BootReadsRooms` ends the boot sequence's
pause.  `Panel` is somebody at the controller.

Temperatures are whole degrees, which `quantizeSetpoint` (half degrees) leaves alone.

*Left out.*  Names, temperatures, humidity and fans (data nobody writes back); the
PATCH of a room, which chains these calls; `setEnergyLevel` (the protocol of `setOperatingMode`); `refreshAll`, messages,
system info, I/O and programs; the cool-down between requests; rooms that appear
or vanish after the first list; a timed-out form that the controller obeys only
after later requests.

### InstallerSession

*State.*  `busy` and `waiters` are the mutex; `session[c]` is the c-th call of
`run`; `installer` and `calibration` are the controller's; `mirror` is what the
Store's rooms show; `leak` is a history variable.  `Fields` are the entries of
one installer page: the rooms of the calibration page, or the inputs of the
settings page.  The parsers find none of them on a page that is not an
installer's: the calibration parser leaves a room out and takes 0 for the outdoor
offset, the settings parser takes the minimum or "off"; `Readings` is the set of
what they may make of a page, with `Fallback` for an entry that is taken.  The
values are ones that `toFixed(1)` leaves alone.  All of `fetchCalibration`, `setCalibration`, `fetchSettings`,
`setSettings`, `fetchIO`, `fetchUptime`, `fetchTopology` and `fetchHeatCurve` have the shape of a session here:
one page read, then perhaps one form.  The controller is assumed to ignore a
form outside installer mode and to do anything to entries a form leaves out.

### HomeAssistant

*State.*  `reachable`, `room` and `season` are the Store's; `outbox` and `sent` are
the messages MQTT.js keeps until they are acknowledged (QoS 1) and how many of
them the broker has taken on this connection; `signature` is
`capabilitySignature`; `greeted` says that `publishCurrent()` has run; `retained`,
`ownWill` and `oldWill` are the broker's (external).  `parity` is a history variable
that makes every poll a step, also one that changes nothing else.

*Actions.*  A poll's end in `safe()` is one action with all the events it emits
and all they publish, in that order: `PollFails`, `PollConfirms`, `RoomListed`,
`RoomPolled`, `SeasonPolled`.  `Greet` is the timer of `publishCurrent()`.  `Connect`
and `LinkDrops` are the client's handlers, `BrokerTakes`, `Acknowledged` and
`WillPublished` the broker.  `Shutdown` is SIGTERM up to `end()`, which ignores what
is published later; `Goodbye` is the end of `end()`; `Dies` a crash or the three-second
limit; `Restart` a new process with an empty Store and a random client id, so that
the broker may publish the old session's will after the new one's "online".

*Left out.*  The payloads of system state, messages and I/O on the wire (`Discovery`
says which fields they carry); more than one room (rooms share only the signature,
which changes when any of them does); a broker that loses its retained messages;
the duplicate a broker may pass on when its acknowledgement was lost is covered, as
a kept message is taken again.

### Discovery

Operators over a snapshot of the Store.  `BuildAllDiscovery` is the set of entities
of `discovery.ts`: for each its id, the topic and the fields its templates read, and
its controls, with the payload each option is sent as and the option each value
shows as.  `FieldsOn` is what the messages on a topic carry.  `Subscribed`,
`MatchCommand` and `Heard` are the subscriptions, `matchCommand` and `handleCommand`;
`Posted` and `Becomes` are the codecs, there and back through the controller's own
numbers.  Names, units, icons and the device block are left out.  The calls that
commands become are those of `RoomSync`.

`HomeAssistant` takes its signature and its entities from here: two Stores are
announced alike exactly if `CapabilitySignature` says so.

Two things a reader of the code should know.  A setpoint sent to a room in standby
is no setpoint (`setpointToDeviceForm` sends the field empty), so `ControlTakes`
speaks of the other modes.  `src/README.md:119-120` and the head of `discovery.ts`
say that a room in mode "program" shows as "auto" on its climate entity; the code
shows it as the mode of the season ("heat" or "cool"), and so does the model.

### DeviceStatus and WebShell

`DeviceStatus` is `recordFetch`: `state`, `streak`, `answered` (a request has
succeeded) and `silence`, the time since the last good request or since the Store
was created, with a `Tick`.  `Quiet` is the code's `quietMs`, which is infinite as long
as nothing was answered.  `heardAt` is a history variable: the quiet time the last
verdict was based on.  By `Quiet` the first failure of a fresh bridge is an outage at
once; the comments say otherwise, and that is a finding (`OutageNeedsEvidence`).

`WebShell` puts the session in front of it: the login form, the automatic login
through Home Assistant's ingress, logout, reload, tokens that expire, and any
request that finds out.  `diag` is the query of the connection verdict, polled on
the System tab only; `call` is any other request, "Refresh now" among them, which
invalidates the query.  A 401 ends the session there is when it arrives, also if it
answers a request of the session before.

### WebQuery

What the pages need of TanStack Query, which is not part of the repository: an entry
has at most one fetch, its answer is computed at the bridge (`Answer`) and lands
later (`Land`); `SetData` does not stop it, `CancelFetch` and `Refetch` do.

### RoomPage

*State.*  `edit`, `commitTimer`, `committing` are the dial's; `room` the query entry;
`writes` the `useMutation` calls under way with the snapshot their `onMutate` took;
`latest` tells which of them the page's `isPending` flags follow; `bridge` is the
room behind the routes, whose inner life is `RoomSync`.  *Actions* are the handlers
(`TurnDial`, `ChooseMode`, `Toggle`), the debounce timer (`CommitDue`), the callbacks
(`SettleWrite`), the polling, coming and going, and what the bridge does with a
write: carry it out, or fail before or after it took effect.

### SettingsPage and SettingsForm

`SettingsPage` has the draft of one editor (`schedule`, `Save`, `Cancel`, the clean-up
that pushes what is left), the saves under way and the queries behind them.  Each
edit has a number of its own, so that a property can tell an edit from another of
the same item.  In the calibration editor the items are the two offsets of a room,
and an edit of one takes the shown value of the other along (`PatchOf`).  The write itself is `SettingsForm`: read the whole page, merge, format each number with
the decimals of its step, post every field, ticked boxes only.  `SavesKeepTheRest`
is why `SettingsPage` may take it for an update of the patched fields.

### ProgramsPage and DayProgram

`ProgramsPage` has both tabs: painting quarters with the pointer, paging through
daily programs with + and -, the debounce of the weekly editor, and the clean-up
of a rendering, which sends from the closure of the *last* rendering (`shown`).
`DayProgram` is the codec of the daily route: `IntervalsToBits`, `BitsToIntervals`
and what `PutDaily` refuses.  The route's pattern lets 24:15 pass; only the length
check of `setDailyProgram` keeps a program of 97 quarters from the controller.

### UserConfig and ConfigPage

`UserConfig` has floors and scenes in the Store and in `file`.  A change is one
action with its save: it succeeds, fails (logged, the change stays in memory) or
the process dies in it; the temporary file makes the last harmless (`Torn`).  `Boot`
loads and merges with `ROOM_FLOORS`.  `ConfigPage` adds the two editors, with answers
that are lost when the process dies.  A visit of the tab is a mount (`mount`): the
Save buttons wait for the save of their own mount only, so that after leaving and
coming back a second save may be sent beside the first (`floorsSaves`, `sceneSaves`:
mount to save), and the success of a save resets the editor of its own mount only
(`Own`) while its answer goes into the query cache (`floorsQ`) for all.

### MobileShell

`persisted`, `disk`, `unwritten` are the state, the storage and the writes that nobody
waits for; `phase` is the screen; `probingRef` is the guard against duplicate
probes and `probes` those under way: the guard is one, probes of several
installations may be under way and end in any order.  `Kill` loses what was not
written.

## 3. The runs

| Run | Instance | Asks |
|---|---|---|
| `room_calls` | 1 zone, 2 calls of all kinds | types; one setpoint per room; one request per pending call; the last setpoint wins; light switches keep the heating; a lone write lands |
| `room_convergence` | 2 zones, a booted bridge, 2 calls (setpoint with 2 temperatures, season, flags) or 1 call and 1 change at the panel | liveness: the Store comes to mirror the controller, after calls that roll back over one another, with a controller changed behind its back, its season too, and in a room that only its turn in the round robin reaches; every call returns |
| `mode_change_slot` | 2 calls | **violated**: a mode change without a setpoint overwrites a slot |
| `setup_form_slots` | 2 calls | **violated**: a flags write puts an old slot back |
| `synthesised_form` | 1 call | **violated**: a setpoint write right after boot posts made-up values |
| `installer_updates` | 3 sessions, 2 entries, 2 values | mutual exclusion and a truthful queue; installer pages only; no leak without a failure; no lost update; a fresh mirror; refinement of `FifoLock`; liveness: every `run` returns |
| `installer_logout` | 1 session | **violated**: "unconditionally logs out" |
| `home_assistant` | 1 room, 1 change, 1 lost connection, 1 crash or shutdown | what the Store knows is with the broker or on its way; a bridge that ended or died is not shown as available for ever; every entity reads what is published, every control reaches its target; liveness: availability follows the polls |
| `web_editors` | installer: 2 groups, 2 items, 2 edits, 2 saves, 1 fault; programs: 2 daily or 2 weekly, 3 to page through, 2 moves, 2 requests; floors and scenes: 2 rooms, 1 scene, 3 acts, 2 mounts, 1 failed save or death | an edit leaves the draft sent, cancelled or for a newer one, with the two exemptions named below; a cancelled setting is not sent; edits and clicks go to the program they were made on, and no click is dropped; settings forms and daily programs round-trip; typed labels stay; scenes are edited without loss and applied as authored; rooms carry their floor; the settings implement `DurableConfig` |
| `carried_offset` | as `web_editors`, calibration | **violated**: a session of edits "isn't lost" |
| `first_failure` | as `app_shells` | **violated**: "a single timeout or 503 is normal jitter" |
| `app_shells` | 2 tokens, 2 room writes, 2 installations; 1 fault | verdicts have evidence; no fetch under a write that is shown; a lone failure leaves no trace; the mobile screen has its probe; liveness: the room page settles, an expired session ends, the banner clears |

Every property of a passing run has a mutant in `PROJECT.json` (a definition
changed the way a plausible bug would change the code) with which TLC finds it
violated.

*Bounds.*  `NCmds`, `NCallers`: two calls are what overlapping, stale snapshots
and reordering take, three callers are what a queue of two takes.  `MaxChain`
bounds only the timers (and the rest of the bridge's traffic): a call always
joins the chain, behind at most that many polls plus the requests of the other
calls.  A poll that waits in front of a write, between its requests and behind
it are the cases that matter, and one slot reaches all three.  `MaxPanel` and
`MaxEsc` count what people do at the controller; the properties about values say
`panel = 0` or `esc = 0` where such a change would explain the difference.  One
zone suffices where zones do not interact; the round robin needs two.  The liveness of
`room_convergence` starts where the boot sequence has ended and read every room
(`MCBooted`): the sequence is finite, and `room_calls` has its interleavings with calls.
From there either two calls are to come, or one call and a change at the panel (the
other call was refused), as all of them at once is too much for a liveness check: what
it takes is two calls that roll back over one another, a call against a change of the
controller, and a room that is not the next one in turn.  In `installer_updates` a
session that only reads names no entry, as a read has none.

In `home_assistant`, `MaxBacklog` = 2 lets a poll's messages queue behind another
message, on top of what `Connect`, `Greet` and `Shutdown` add; one change after the
room was first polled makes a signature go stale, and one lost connection and one
crash meet at every point of that history.

The web runs follow one page per behaviour, as the editors share no query and no
state; the same holds of `app_shells`.  Two edits and two saves are what an edit
under a save, a second save and a clean-up with one under way take.  Two daily and two
weekly programs are what going to another one takes; as the two tabs share no request,
the pages "daily" and "weekly" go to other programs on that tab only, and "programs",
which has no such bound, is there for the proofs.  Two moves are a click and a click,
a failure or leaving after it; three daily programs to page through let + and - wrap
around in different places.  For floors and scenes three acts and one trouble put a
death before, in and after a save with a form open, and `MaxMounts` = 2 lets the save
of one mount end in the next.
The day of `DayProgram` has two hours: the end of the day, a run until midnight, a time past it,
overlapping and touching intervals and minutes that are no quarter all occur; the
hours in between repeat.  The catalogue of `WebEditorsMC` has each kind of step.
`DeviceStatus` has a streak of 2 and a silence of 0 to 2, which gives every order of
the three thresholds.  `MaxProbes` = 3 is one more than the installations, so a probe
of an installation may outlive two later ones.

The type invariant of `RoomSync` is a property of `room_calls`; those of the other
modules are definitions (`TypeOK`, `...TypeOK`) that describe the state, and where a
proof needs them TLAPS proves them.

*Fairness.*  `AnswersCome` is the client's timeouts: the request being served
ends.  It is all that the specification of `room_convergence` assumes, and so all that
`CallsReturn` needs; `StoreConverges` names the rest as its premiss, `Fairness`.  The timers have strong fairness
because the bound on the chain, which the code does not have, disables them from
time to time.  Convergence also assumes that a controller polled for ever answers
each page again and again (strong fairness of the landing actions); with a
controller that never answers there is nothing to converge to.  In
`InstallerSession` fairness is the timeouts and the event loop.  In
`HomeAssistant` polls end for ever, a connected broker takes and acknowledges
messages and notices in the end that a session is gone; strong fairness where
the connection or the bound on the backlog disables the action from time to time.
In `RoomPage` the debounce and the polling timers fire and requests come to an end
(weak fairness of `CommitDue`, `PollRoom`, `WriteReplies`, `RoomFetched`); in `WebShell` the same
of the poll, its answer and other calls, and strong fairness of the landing of the
verdict, which a user who keeps pressing "Refresh now" starts afresh each time.
Nothing assumes that connections are made or kept, nor
that writes, logins or logouts succeed, or that clients issue calls.

*What the passing runs show.*  Individual polls and roll-backs do write stale
values into the Store; that is why the safety properties speak of what reaches the
controller, of lone calls, and of shape, and why agreement is a liveness
property.  `LastSetpointWins` holds because the chain keeps the order of the
calls and a retry keeps its place in it.  The flags are not part of
`StoreConverges`: no timer reads the set-up page, so a flag that was changed at
the panel, or by a write reported as failed, stays wrong in the Store until the
next flags write or restart.  Availability is wrong for a while after a reconnect
(the connect handler says "online" whatever the polls say) and after a late will;
`AvailabilityFollows` holds only because `setReachable` emits its event with every
poll, not only with changes, as its mutant shows.

Some of what the code does is against what its comments say, and the properties are
stated around it:

- `DraftOnlyLeavesSent` exempts two ways out of a draft.  A save that succeeds clears
  the edits made while it was under way (`late`), whereas `Installer.tsx:778-779` wants
  a slow editing session not "silently dropped"; and an edit of one calibration offset
  takes the shown value of the other one along (`CarriedOver`, run `carried_offset`).
- `CancelledNeverSent` speaks of the settings groups.  In the calibration a cancelled
  offset is shown until the refetch lands and goes out with the next edit of its room,
  whereas Cancel "discards the local draft" (`Installer.tsx:24`).
- `EditsStayWithProgram` exempts a gesture abandoned outside the timeline (`astray`): it
  stays on the screen and goes out with the next one, which may be on another program.
- `NoClickDropped` speaks of the clicks since the last sending, and a click after a
  sending starts from the days on the screen.  Clicks are not gathered into "a single
  POST after they settle" (`Programs.tsx:77-78`): every click renders, every rendering
  makes a new `flushWeekly`, and the clean-up for the old one sends.
- `TypedLabelsStay` ends with the success of a save of the same mount, which takes along
  what was typed since it was sent, whereas edits "take priority until they hit Save"
  (`FloorsAndScenes.tsx:37-39`).
- `SettingsAreDurable` gives back what the file holds, with `ROOM_FLOORS` where it has no
  label (`Restored`).  The file keeps no empty labels, so a label of `ROOM_FLOORS` that
  the user removed is back after a restart, whereas `main.ts:58-60` gives the file
  priority "so SPA edits stick".
- `SessionEnds` says that a session the bridge refuses ends.  So may one that is valid:
  a late 401 to a request of the session before ends the new one, although a 401 is said
  to mean that "the token's expired or invalid" (`apiClient.ts:71-72`).
- `StateHasEvidence` speaks of a bridge that was answered once (run `first_failure`).

Of two room writes that overlap one may roll back to a snapshot that shows the other,
and the next poll repairs it (`RoomSettles`).

*What the violated runs show.*  They are findings in `PROJECT.json`, each with
the sentence of the source it contradicts.  (1) A setpoint write leaves the
cached slots as they were, so a mode change that follows at once sends the old
slot temperature.  (2) `setRoomSetup` re-posts the whole page it read; a room form
queued between its read and its post is undone.  (3) A setpoint write after the
room list and before the first detail page posts the blank room's mode and
light.  (4) A login that was obeyed and reported as failed is not followed by a
logout.  (5) A refetch (of an earlier mount's save that failed, say) takes a
drafted calibration offset off the screen, and a click on the room's other offset then
puts the shown value into the draft over it.  (6) The first failure of a bridge that
had no answer yet goes from online to offline.

## 4. The proofs

The proofs hold for all values of the constants: any number of zones, calls,
callers, entries and any bounds, under the named assumptions of the modules only
(the constants have their types, `Null`, `NoOne`, `None` and the like are different
from real values, there is a zone and an entry; the ids of programs are numbers from
1, as `useState(1)` of both tabs takes for granted).  Every safety property of the
passing runs, invariants and action properties alike, is a theorem.

**`RoomSync_proofs`.**  `TypeCorrect`: `Spec => []TypeOK`.  The type is inductive as
it stands, because the type of a room form says that it carries a temperature unless
it says "standby"; without that the controller's slots could become `Null`, and the
proof would fail at `FileRoomForm`.  `NeverTwoSetpoints`: `Spec =>
[]SetpointPairExclusive`.  The property is not inductive: a roll-back writes a
snapshot, and might write one side of it only.  `PairInv` adds that every call's
snapshot has at most one setpoint and that a call touches both sides of the setpoint
or neither.  The argument goes over operators (`OverlayPair`, `WithSetpointPair`),
then actions.

The other four need to know what the chain holds.  `RoomInv` adds, one on top of the
other: `OwnRequests` (a pending call is served by exactly the request its state
waits for, with the fields it meant, and nobody else has a request in its name),
`Recorded` (what a call wrote down about itself stays as it was issued),
`HeatingKept`, `FormsInTurn` (the room forms of a zone are in the chain in the order
of their calls), `SetpointsFollow` and `SoloFollows`.  From them:
`OneRequestPerCall`, `LightsKeepHeating`, `LastCallWins`, `SoloCallLands`.
`FormsInTurn` is what makes the newest call the last to be filed, a retry keeping
its place; that there is a newest one among any number of calls is an induction on
the numbers, taken from the library's well-founded order of them
(`NatLessThanWellFounded` with `WFMin`, which speaks of a set and has no operator
parameter).  `SoloFollows` follows a call through its states: what the controller
has, what each answer under way will show, and that every poll still in the chain
behind the write sees its effect.  `LastSetpointWins` and `SoloWriteLands` compare
temperatures only in the modes under which the controller files one: in a program
mode it shows the program's.

**`InstallerSession_proofs`.**  `TypeCorrect`.  `QueueCorrect`: `MutexInv`, which is
inductive on typed states and holds mutual exclusion.  A step either asks for
the mutex, gives it up, or leaves everybody's standing towards it alone
(`StepKinds`); only the first two need an argument (`AcquireMutex`, `ReleaseMutex`).
`ImplementsFifoLock`: with the caller that holds the session as the holder and
`waiters` as the queue, every step of `Spec` is a step of `FifoLock` or changes
neither.  The same three kinds of step carry it. `SessionCorrect` adds what a
session promises: its request is the only one in its name (`OwnRequests`), callers
had their turns in the order of their numbers (`InTurn`), an error leads to the
logout (`ErrorsEnd`), a form on its way is the controller's whole page with the
caller's own entry merged into it (`ReadWhole`), and the mirror agrees unless a
change is under way or a call failed (`Mirrored`).  From it `InstallerPages`,
`LeftByFailureOnly`, `UpdatesKept`, `MirrorFresh`.  Lost updates are excluded
because nobody else's form lies between a session's read and its post, which is
mutual exclusion used once more.

**`HomeAssistant_proofs`.**  `SignatureTellsDiscovery`: for any rooms and any I/O
page, two Stores with the same `CapabilitySignature` have the same
`BuildAllDiscovery`, so `publishHaDiscovery`, which announces only when the
signature changed, misses nothing.  The entities are split by kind; those of a room
depend on its flags alone, those of an I/O page on the lengths of its banks.  By the
same split `EntitiesReadAndDiffer` and `ControlsAreObeyed` show, for *every* Store
and not only the ones the run reaches, that entities read published fields, have ids
of their own, and that their controls work there and back; `EntitiesServed` and
`ControlsObeyed` are the run's properties.

The publication is one invariant, `HomeInv`.  Its language is `LastOf(queue,
retained, topic)`: what a topic will say once the queue is delivered, with lemmas on
how it passes over concatenation, a prefix, a delivered head.  `InStep`: what the
broker has taken of the kept messages is what it shows, but for a will.  `Farewell`:
a process that is stopping has "offline" as the last word of its queue.  `AtRest`: a
process that is gone has no connection and no queue.  `Watched`: whenever the bridge
is shown as available a session is open or the broker has a will to publish.
`Announces`: the signature is that of a room and season whose climate and light
values are on their way or there.  `RoomSent`: a polled room is, too, and the
signature is its own.  From it `GoodOrder`, `CrashIsNoticed` and `NothingForgotten`.

**`RoomPage_proofs`**, **`AppShells_proofs`.**  `NeverFetchesUnderAWrite`: the
property is inductive only together with the types and `GoneIsIdle`: a page that is
not mounted waits for no write and has no timer running, so that coming back cannot
meet an old flag with a new fetch. `LoneWritesLeaveNoTrace`: `Lone` says that every
answer was a room the bridge has had, and, while no writes overlapped, that there is
at most one write, whose snapshot is such a room, and that only that write's own
patch can make the page show another. `RoomPageInTheApp` carries both over: a step
of the application is a step of the page or leaves its variables alone.
`VerdictHasEvidence` is the same for `DeviceStatus` inside `WebShell`, with
`StatusInv` = types and `StateHasEvidence`; like the property it speaks of bridges
that have had an answer.

**`MobileShell_proofs`.**  `ScreenIsServed`: `MobileInv` adds the types and
`ConnectedIsUnguarded`: the guard is not that of the installation on a connected
screen; without it, `WebLoadError` could make an error screen whose Retry does
nothing. `MobileInTheApp` carries it over.

**`ConfigPage_proofs`.**  `LabelsReachTheRooms`: `ConfigInv` = the types of floors,
drafts and file, and `RoomsCarryTheirFloor`.  `ImplementsDurableConfig`: with
`[floors, scenes]` for the current value, `file` for the durable one and `up` for
running, every step is a `Change` (of a process that runs, saved or not), a `Die` (in a
save too: the file is the old one), a `Restart` (to what the file holds) or a stutter.
A restart is not a change, as a process that is down changes nothing.
`TypingIsKept` adds that a page that is closed has nothing typed; the mount of a save
is what keeps a save of an earlier visit from wiping the labels of this one.
`EditorLosesNothing` and `ScenesDoAsShown` need
`ScenesMeant`: every scene, in memory *or in the file*, is one the editor's form
makes (`Authored`), and `meant` holds what its form asked of each room.  The file is
part of it because a restart brings its scenes back.

**`WebEditors_proofs`.**  `SavesLoseNothing`: `SavesKeepTheRest` for every catalogue
and all integers; the arithmetic is one lemma about rounding to a step.

`ProgramsReadBack`: `DayProgramsReadBack` for a day of any length and lists of any
number of intervals.  `bitsToIntervals` is a loop, in `DayProgram` a function
defined by recursion on the quarters.  That such a function exists (`TurnsExist`)
and that its n-th value has read the first n quarters (`ReadTo`: intervals in order,
apart, and together with the open run exactly the quarters that are on) are two
inductions through the least counterexample.  One lemma, `IntervalAdded`, carries
the step of the loop and the run that lasts until midnight.

`CancelIsFinal`, `DraftsAreSent`: `SettingsInv`.  Each edit has a number.  The draft
of a settings group holds no edit that was cancelled or sent by an earlier mount
(`DraftIsNew`), a request of this mount carries the draft but for what was edited
since (`SaveHasDraft`), and the edits fall into those made in the calibration editor
and the rest: draft, requests, cache and controller of either kind hold edits of
that kind only (`SettingsIn`).  Calibration requests repeat shown values, and this
is why what they repeat is never an edit of another group.  `CancelIsFinal` is about
the settings groups only, and `DraftsAreSent` has the exemptions of
`DraftOnlyLeavesSent`: an edit that replaces another has a new number
(`EditReplaces`), what leaves in a save is in its request unless it is `late`
(`DraftStep`).

`EditsStay`, `ClicksKept`: `ProgramsInv`.  What is unsent in the weekly editor
belongs to the rendering that is shown, on a page that is there (`WeeklyIn`), so
that the clean-up sends it where it came from; and it is the days at the first
click, moved by the clicks since, as going around the ends of 1..`NDaily` twice is
going around once (`WrappedTwice`).  What a gesture has painted is of the selected
program or is `astray` (`DailyIn`), and `EditsStay` says nothing of what is astray.

*Only model-checked.*  All liveness (`CallsReturn`, `StoreConverges`, `RunReturns`,
`AvailabilityFollows`, `RoomSettles`, `SessionEnds`, `BannerClears`, the fairness
half of `LockSpec`): ENABLED and fairness are out of this prover's reach.

## 5. Plan

1. Proofs: `FifoLock`'s own invariants; the types of the web editors and of
   `WebShell`; the bounds of the round robin.
2. `RoomSync`: PATCH of a room as a chain of commands; `setEnergyLevel`; messages and
   program pages in the boot sequence.
3. `RoomPage` over `RoomSync` instead of a register: the page's `bridge` refined by the
   Store, with its stale roll-backs.

## 6. Not modelled

*Boot fingerprint.*  One log entry that nothing reads.  `main` asks `kickoffComplete()`
before `start()` has set the promise it waits for, so the snapshot it logs is that of
a Store before any poll.

*Mock device, generated client, packaging.*  A test double without concurrency or
failures; generated code and type declarations; bundles and container files.

*Of the parsers* the extraction of text, and the pages of messages, uptime,
topology and heat curve, which keep no state.  *Of the REST API* the chained PATCH of a
room, the message routes, password hashing, the OpenAPI document and the reading
of the configuration.  *Of the web application* translations, preferences,
pull-to-refresh, the component library and the read-only pages: rendering.  *Of
the room cache protocol* what section 2 lists.  *Of the request chain* the cool-down
between requests and the telemetry.
