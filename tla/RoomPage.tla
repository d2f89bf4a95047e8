------------------------------ MODULE RoomPage ------------------------------
(***************************************************************************)
(* The page of one room (apps/web/src/features/rooms/RoomDetail.tsx) and   *)
(* the bridge's /api/v1/rooms/:id as the page sees it.                     *)
(*                                                                         *)
(* A room is a function from its writable fields to 0 and 1, mode 0 being  *)
(* standby.  The dial's setpoint is debounced and shown from `edit`; the   *)
(* other fields are patched into the cached room before the request        *)
(* leaves.  A write is one useMutation call: its callbacks run even when   *)
(* the page has gone, while the pending flags belong to the page.          *)
(***************************************************************************)
EXTENDS Naturals, WebQuery

CONSTANTS
    Fields,          \* of {"setpoint", "mode", "light", "flags"}
    MaxRoomWrites,   \* bound: requests the page sends
    MaxRoomFaults,   \* bound: requests that fail
    MaxRoomChanges   \* bound: changes made elsewhere

ASSUME RoomPageAssumption ==
    /\ {"setpoint", "mode"} \subseteq Fields
    /\ Fields \subseteq {"setpoint", "mode", "light", "flags"}
    /\ MaxRoomWrites \in Nat /\ MaxRoomFaults \in Nat /\ MaxRoomChanges \in Nat

VARIABLES
    open,         \* the page is mounted
    room,         \* the query entry ["room", id]
    edit,         \* the dial's local value, or NoData
    commitTimer,  \* the value the running debounce timer will send, or NoData
    committing,   \* the `committing` flag
    writes,       \* the useMutation calls under way, by their number
    begun,        \* how many calls there were
    before,       \* how many writes are older than this mount of the page
    latest,       \* field -> index of this mount's last write of it, or 0
    bridge,       \* the room as the bridge has it
    roomFaults, roomChanges,
    truths,       \* history: the rooms the bridge has had
    overlap       \* history: a write began while another was under way

roomVars == <<open, room, edit, commitTimer, committing, writes, begun, before, latest, bridge,
              roomFaults, roomChanges, truths, overlap>>

RoomValue == [Fields -> {0, 1}]
Value == {0, 1} \cup {NoData}

Write == [field : Fields, value : {0, 1}, previous : RoomValue \cup {NoData},
          at : {"sent", "ok", "failed"}, reply : RoomValue \cup {NoData}]

RoomInit ==
    /\ open = FALSE
    /\ room = EmptyEntry
    /\ edit = NoData /\ commitTimer = NoData /\ committing = FALSE
    /\ writes = <<>> /\ begun = 0 /\ before = 0
    /\ latest = [f \in Fields |-> 0]
    /\ bridge = [f \in Fields |-> 1]
    /\ roomFaults = 0 /\ roomChanges = 0
    /\ truths = {bridge}
    /\ overlap = FALSE

-----------------------------------------------------------------------------
UnderWay == DOMAIN writes

\* The isPending flag of a mutation: of its last call only, and of this mount's.
IsPending(f) == latest[f] \in UnderWay
\* Mutant of Writing: once written, always writing.
WritingSince == \E f \in Fields : latest[f] # 0

Writing == \E f \in Fields : IsPending(f)

\* The dial answers only in a mode that heats; a cached "offline" is not modelled.
DialDisabled == room.data["mode"] = 0

HasRoom == open /\ room.data # NoData

\* A mutate() call, with the snapshot its onMutate took.
Mutate(f, v, previous) ==
    /\ begun < MaxRoomWrites
    /\ begun' = begun + 1
    /\ writes' = [i \in UnderWay \cup {begun'} |->
                    IF i \in UnderWay THEN writes[i]
                    ELSE [field |-> f, value |-> v, previous |-> previous,
                          at |-> "sent", reply |-> NoData]]
    /\ latest' = [latest EXCEPT ![f] = begun']
    /\ overlap' = (overlap \/ UnderWay # {})

\* handleDial() and bump().
TurnDial(v) ==
    /\ HasRoom /\ ~DialDisabled
    /\ commitTimer # NoData \/ begun < MaxRoomWrites
    /\ edit' = v
    /\ commitTimer' = v
    /\ UNCHANGED <<open, room, committing, writes, begun, before, latest, bridge, roomFaults,
                   roomChanges, truths, overlap>>

\* What the debounce timer's closure sends.
Due == commitTimer

\* COMMIT_DEBOUNCE_MS after the last turn.
CommitDue ==
    /\ commitTimer # NoData
    /\ committing' = TRUE
    /\ Mutate("setpoint", Due, NoData)
    /\ commitTimer' = NoData
    /\ UNCHANGED <<open, room, edit, before, bridge, roomFaults, roomChanges, truths>>

\* Mutant of Patched: the fetch under way is left alone.
PatchedOnly(q, f, v) == SetData(q, [q.data EXCEPT ![f] = v])

\* optimisticPatch(): the fetch under way is cancelled, then the cache patched.
Patched(q, f, v) ==
    LET c == CancelFetch(q) IN SetData(c, [c.data EXCEPT ![f] = v])

\* The mode segments drop an unsent dial value; the toggles wait for their own
\* write.
ChooseMode(v) ==
    /\ HasRoom
    /\ commitTimer' = NoData /\ edit' = NoData
    /\ Mutate("mode", v, room.data)
    /\ room' = Patched(room, "mode", v)
    /\ UNCHANGED <<open, committing, before, bridge, roomFaults, roomChanges,
                   truths>>

Toggle(f) ==
    /\ HasRoom
    /\ f \in {"light", "flags"} /\ ~IsPending(f)
    /\ commitTimer = NoData \/ begun + 1 < MaxRoomWrites
    /\ Mutate(f, 1 - room.data[f], room.data)
    /\ room' = Patched(room, f, 1 - room.data[f])
    /\ UNCHANGED <<open, edit, commitTimer, committing, before, bridge, roomFaults,
                   roomChanges, truths>>

-----------------------------------------------------------------------------
(* The bridge: it carries out a write, or fails before or after it took      *)
(* effect.                                                                   *)
Becomes(r) == bridge' = r /\ truths' = truths \cup {r}

CarryOut(i) ==
    LET w == writes[i]
        done == [bridge EXCEPT ![w.field] = w.value]
    IN  /\ w.at = "sent"
        /\ Becomes(done)
        /\ writes' = [writes EXCEPT ![i].at = "ok", ![i].reply = done]
        /\ UNCHANGED <<open, room, edit, commitTimer, committing, begun, before, latest, roomFaults,
                       roomChanges, overlap>>

FailWrite(i) ==
    LET w == writes[i]
    IN  /\ w.at = "sent"
        /\ roomFaults < MaxRoomFaults
        /\ roomFaults' = roomFaults + 1
        /\ \/ Becomes(bridge)
           \/ Becomes([bridge EXCEPT ![w.field] = w.value])
        /\ writes' = [writes EXCEPT ![i].at = "failed"]
        /\ UNCHANGED <<open, room, edit, commitTimer, committing, begun, before, latest, roomChanges,
                       overlap>>

\* Mutant of RolledBack: the patch stays.
NotRolledBack(q, w) == q

\* onError of an optimistic write: back to its own snapshot.
RolledBack(q, w) == IF w.previous # NoData THEN SetData(q, w.previous) ELSE q

\* The answer reaches the page: onSuccess or onError, then onSettled of the dial.
SettleWrite(i) ==
    LET w == writes[i]
        mine == open /\ i > before /\ w.field = "setpoint"
    IN  /\ w.at \in {"ok", "failed"}
        /\ room' = IF w.at = "ok" THEN SetData(room, w.reply) ELSE RolledBack(room, w)
        /\ writes' = [j \in UnderWay \ {i} |-> writes[j]]
        /\ edit' = IF mine THEN NoData ELSE edit
        /\ committing' = IF mine THEN FALSE ELSE committing
        /\ UNCHANGED <<open, commitTimer, begun, before, latest, bridge, roomFaults, roomChanges,
                       truths, overlap>>

\* A panel, Home Assistant, another phone.
ChangeElsewhere ==
    /\ roomChanges < MaxRoomChanges
    /\ roomChanges' = roomChanges + 1
    /\ \E f \in Fields : Becomes([bridge EXCEPT ![f] = 1 - bridge[f]])
    /\ UNCHANGED <<open, room, edit, commitTimer, committing, writes, begun, before, latest,
                   roomFaults, overlap>>

-----------------------------------------------------------------------------
(* The query ["room", id]: fetched on mount, polled every 5 s while nothing  *)
(* is being edited or written.                                               *)
PollAllowed == open /\ edit = NoData /\ ~committing /\ ~Writing

OnlyTheEntry ==
    UNCHANGED <<open, edit, commitTimer, committing, writes, begun, before, latest, bridge,
                roomChanges, truths, overlap>>

PollRoom ==
    /\ PollAllowed /\ ~room.asked
    /\ room' = Fetch(room)
    /\ OnlyTheEntry /\ UNCHANGED roomFaults

AnswerRoom ==
    /\ Unanswered(room)
    /\ room' = Answer(room, bridge)
    /\ OnlyTheEntry /\ UNCHANGED roomFaults

LandRoom ==
    /\ Landing(room)
    /\ room' = Land(room)
    /\ OnlyTheEntry /\ UNCHANGED roomFaults

\* Both tries failed.
LoseRoom ==
    /\ room.asked
    /\ roomFaults < MaxRoomFaults
    /\ roomFaults' = roomFaults + 1
    /\ room' = CancelFetch(room)
    /\ OnlyTheEntry

EnterRoom ==
    /\ ~open
    /\ open' = TRUE
    /\ room' \in Mounted(room)
    /\ before' = begun
    /\ UNCHANGED <<edit, commitTimer, committing, writes, begun, latest, bridge, roomFaults,
                   roomChanges, truths, overlap>>

\* The clean-up clears the timer: an unsent dial value is dropped.
LeaveRoom ==
    /\ open
    /\ open' = FALSE
    /\ edit' = NoData /\ commitTimer' = NoData /\ committing' = FALSE
    /\ latest' = [f \in Fields |-> 0]
    /\ UNCHANGED <<room, writes, begun, before, bridge, roomFaults, roomChanges, truths, overlap>>

WriteReplies == \E i \in UnderWay : CarryOut(i) \/ SettleWrite(i)
RoomFetched == AnswerRoom \/ LandRoom

RoomSteps ==
    \/ \E v \in {0, 1} : TurnDial(v) \/ ChooseMode(v)
    \/ \E f \in Fields : Toggle(f)
    \/ CommitDue
    \/ \E i \in UnderWay : FailWrite(i)
    \/ ChangeElsewhere
    \/ PollRoom \/ LoseRoom
    \/ WriteReplies \/ RoomFetched

RoomNext == RoomSteps \/ EnterRoom \/ LeaveRoom

\* Timers fire and requests get an answer; the user and the faults owe nothing.
RoomFairness ==
    /\ WF_roomVars(CommitDue) /\ WF_roomVars(PollRoom)
    /\ WF_roomVars(WriteReplies) /\ WF_roomVars(RoomFetched)

RoomSpec == RoomInit /\ [][RoomNext]_roomVars
FairRoomSpec == RoomSpec /\ RoomFairness

-----------------------------------------------------------------------------
RoomTypeOK ==
    /\ open \in BOOLEAN
    /\ room \in Entries(RoomValue)
    /\ edit \in Value /\ commitTimer \in Value /\ committing \in BOOLEAN
    /\ begun \in 0..MaxRoomWrites /\ UnderWay \subseteq 1..begun
    /\ writes \in [UnderWay -> Write]
    /\ before \in 0..MaxRoomWrites
    /\ latest \in [Fields -> 0..begun]
    /\ bridge \in RoomValue
    /\ roomFaults \in 0..MaxRoomFaults /\ roomChanges \in 0..MaxRoomChanges
    /\ truths \subseteq RoomValue
    /\ overlap \in BOOLEAN

\* "Pause poll while any write is in flight so a stale REHAU response can't
\* overwrite the optimistic cache" (RoomDetail.tsx): while the page waits for a
\* write it has already shown, no fetch of the room is under way, whatever was
\* polled, left or written before.  (The dial's write is not covered: it cancels
\* nothing.)
NoFetchUnderAWrite ==
    \A f \in Fields \ {"setpoint"} : IsPending(f) => ~room.asked

\* A write that fails alone leaves no trace: once no write is under way the page
\* shows a room the bridge has had.  Of writes that overlapped one may roll back
\* to a snapshot that shows the other.
LoneFailureLeavesNoTrace ==
    ~overlap /\ UnderWay = {}
        => room.data \in truths \cup {NoData}

\* A page that stays open ends up showing the bridge's room and no dial value of
\* its own, whatever overlapped, failed or was changed elsewhere.
RoomSettles == <>[]open => <>[](edit = NoData /\ room.data = bridge)
=============================================================================
