--------------------------- MODULE RoomPage_proofs ---------------------------
(***************************************************************************)
(* The type invariant of the room page, NoFetchUnderAWrite and             *)
(* LoneFailureLeavesNoTrace, for every set of fields and any number of     *)
(* writes, failures and changes.                                           *)
(***************************************************************************)
EXTENDS RoomPage, TLAPS

\* A page that has gone waits for no write and will send none, so coming back may
\* fetch.
GoneIsIdle == ~open => commitTimer = NoData /\ \A f \in Fields : latest[f] = 0

RoomInv == RoomTypeOK /\ GoneIsIdle /\ NoFetchUnderAWrite

\* The parts of the type invariant about one mutate() call.
LEMMA MutateTyped ==
    ASSUME RoomTypeOK, NEW f \in Fields, NEW v \in {0, 1},
           NEW previous \in RoomValue \cup {NoData}, Mutate(f, v, previous)
    PROVE  /\ begun' \in 0..MaxRoomWrites
           /\ UnderWay' = UnderWay \cup {begun'}
           /\ UnderWay' \subseteq 1..begun'
           /\ writes' \in [UnderWay' -> Write]
           /\ latest' \in [Fields -> 0..begun']
           /\ latest' = [latest EXCEPT ![f] = begun']
           /\ overlap' \in BOOLEAN
           /\ begun' = begun + 1
<1>1. begun \in Nat /\ MaxRoomWrites \in Nat /\ begun < MaxRoomWrites /\ begun' = begun + 1
  BY RoomPageAssumption DEF RoomTypeOK, Mutate
<1>2. begun' \in 0..MaxRoomWrites
  BY <1>1
<1>3. UnderWay' = UnderWay \cup {begun'}
  BY DEF Mutate, UnderWay
<1>4. UnderWay' \subseteq 1..begun'
  BY <1>1, <1>3 DEF RoomTypeOK
<1>5. writes' \in [UnderWay' -> Write]
  <2>1. [field |-> f, value |-> v, previous |-> previous, at |-> "sent", reply |-> NoData] \in Write
    BY DEF Write
  <2>2. writes \in [UnderWay -> Write]
    BY DEF RoomTypeOK
  <2>3. writes' = [i \in UnderWay \cup {begun'} |->
                     IF i \in UnderWay THEN writes[i]
                     ELSE [field |-> f, value |-> v, previous |-> previous,
                           at |-> "sent", reply |-> NoData]]
    BY DEF Mutate
  <2> QED BY <2>1, <2>2, <2>3, <1>3
<1>6. latest' \in [Fields -> 0..begun'] /\ latest' = [latest EXCEPT ![f] = begun']
  BY <1>1 DEF Mutate, RoomTypeOK
<1>7. overlap' \in BOOLEAN
  BY DEF Mutate, RoomTypeOK
<1> QED BY <1>1, <1>2, <1>3, <1>4, <1>5, <1>6, <1>7

\* Operations on the query entry keep its type.
LEMMA EntriesTyped ==
    ASSUME NEW q \in Entries(RoomValue)
    PROVE  /\ Fetch(q) \in Entries(RoomValue)
           /\ CancelFetch(q) \in Entries(RoomValue) /\ ~CancelFetch(q).asked
           /\ CancelFetch(q).data = q.data
           /\ Land(q) \in Entries(RoomValue) /\ ~Land(q).asked
  BY DEF Entries, Fetch, CancelFetch, Land, EntryOf, EmptyEntry

LEMMA EntriesFilled ==
    ASSUME NEW q \in Entries(RoomValue), NEW d \in RoomValue \cup {NoData}
    PROVE  /\ Answer(q, d) \in Entries(RoomValue) /\ Answer(q, d).asked = q.asked
           /\ SetData(q, d) \in Entries(RoomValue) /\ SetData(q, d).asked = q.asked
  BY DEF Entries, Answer, SetData

LEMMA InitRoomInv == RoomInit => RoomInv
<1> SUFFICES ASSUME RoomInit PROVE RoomInv
  OBVIOUS
<1>1. RoomTypeOK
  <2>1. bridge \in RoomValue
    BY DEF RoomInit, RoomValue
  <2>2. room \in Entries(RoomValue)
    BY DEF RoomInit, Entries, EmptyEntry
  <2>3. UnderWay = {} /\ writes \in [UnderWay -> Write]
    BY DEF RoomInit, UnderWay
  <2>4. latest \in [Fields -> 0..begun] /\ begun = 0
    BY DEF RoomInit
  <2>5. UnderWay \subseteq 1..begun
    BY <2>3
  <2>6. truths \subseteq RoomValue
    BY <2>1 DEF RoomInit
  <2>7. /\ open \in BOOLEAN /\ committing \in BOOLEAN /\ overlap \in BOOLEAN
        /\ edit \in Value /\ commitTimer \in Value
    BY DEF RoomInit, Value
  <2>8. /\ begun \in 0..MaxRoomWrites /\ before \in 0..MaxRoomWrites
        /\ roomFaults \in 0..MaxRoomFaults /\ roomChanges \in 0..MaxRoomChanges
    BY RoomPageAssumption DEF RoomInit
  <2> QED BY <2>1, <2>2, <2>3, <2>4, <2>5, <2>6, <2>7, <2>8 DEF RoomTypeOK
<1>2. GoneIsIdle
  BY DEF RoomInit, GoneIsIdle
<1>3. NoFetchUnderAWrite
  BY DEF RoomInit, NoFetchUnderAWrite, EmptyEntry
<1> QED BY <1>1, <1>2, <1>3 DEF RoomInv

\* An action that begins no write and asks for no fetch.
LEMMA QuietStep ==
    ASSUME RoomInv, RoomTypeOK',
           UnderWay' \subseteq UnderWay, UNCHANGED <<open, latest>>,
           open \/ UNCHANGED commitTimer,
           room'.asked => room.asked
    PROVE  RoomInv'
<1>1. GoneIsIdle'
  BY DEF RoomInv, GoneIsIdle
<1>2. NoFetchUnderAWrite'
  BY DEF RoomInv, NoFetchUnderAWrite, IsPending
<1> QED BY <1>1, <1>2 DEF RoomInv

\* An action that begins a write of f.
LEMMA WriteStep ==
    ASSUME RoomInv, RoomTypeOK', open, UNCHANGED open,
           NEW f \in Fields, NEW v \in {0, 1}, NEW p \in RoomValue \cup {NoData}, Mutate(f, v, p),
           room'.asked => room.asked,
           f # "setpoint" => ~room'.asked
    PROVE  RoomInv'
<1>1. GoneIsIdle'
  BY DEF GoneIsIdle
<1>2. ASSUME NEW g \in Fields \ {"setpoint"}, IsPending(g)' PROVE ~room'.asked
  <2>1. /\ UnderWay' = UnderWay \cup {begun'}
        /\ latest' = [latest EXCEPT ![f] = begun']
        /\ begun' = begun + 1
    BY MutateTyped DEF RoomInv
  <2>2. CASE g = f
    BY <2>2
  <2>3. CASE g # f
    <3>1. latest[g] \in 0..begun /\ latest'[g] = latest[g] /\ begun \in Nat
      BY <2>1, <2>3, RoomPageAssumption DEF RoomInv, RoomTypeOK
    <3>2. latest[g] \in UnderWay
      BY <3>1, <2>1, <1>2 DEF IsPending
    <3> QED BY <3>2 DEF RoomInv, NoFetchUnderAWrite, IsPending
  <2> QED BY <2>2, <2>3
<1>3. NoFetchUnderAWrite'
  BY <1>2 DEF NoFetchUnderAWrite
<1> QED BY <1>1, <1>3 DEF RoomInv

-----------------------------------------------------------------------------
(* One lemma per group of actions.                                           *)

LEMMA TurnDialInv == ASSUME RoomInv, NEW v \in {0, 1}, TurnDial(v) PROVE RoomInv'
<1>1. RoomTypeOK'
  BY DEF RoomInv, RoomTypeOK, TurnDial, UnderWay, Value
<1>2. open /\ UNCHANGED <<open, latest, room>> /\ UnderWay' = UnderWay
  BY DEF TurnDial, HasRoom, UnderWay
<1> QED BY <1>1, <1>2, QuietStep

LEMMA CommitDueInv == ASSUME RoomInv, CommitDue PROVE RoomInv'
<1>1. commitTimer \in {0, 1}
  BY DEF RoomInv, RoomTypeOK, CommitDue, Value
<1>2. Mutate("setpoint", commitTimer, NoData) /\ "setpoint" \in Fields
  BY RoomPageAssumption DEF CommitDue, Due
<1>3. RoomTypeOK'
  <2>1. /\ begun' \in 0..MaxRoomWrites /\ UnderWay' \subseteq 1..begun'
        /\ writes' \in [UnderWay' -> Write]
        /\ latest' \in [Fields -> 0..begun'] /\ overlap' \in BOOLEAN
    BY <1>1, <1>2, MutateTyped DEF RoomInv
  <2> QED BY <2>1 DEF RoomInv, RoomTypeOK, CommitDue, Value
<1>4. open
  BY DEF RoomInv, GoneIsIdle, CommitDue
<1> QED BY <1>1, <1>2, <1>3, <1>4, WriteStep DEF CommitDue

LEMMA ChooseModeInv == ASSUME RoomInv, NEW v \in {0, 1}, ChooseMode(v) PROVE RoomInv'
<1>1. room \in Entries(RoomValue) /\ room.data \in RoomValue
  BY DEF RoomInv, RoomTypeOK, ChooseMode, HasRoom, Entries
<1>2. Mutate("mode", v, room.data) /\ "mode" \in Fields /\ open /\ UNCHANGED open
  BY RoomPageAssumption DEF ChooseMode, HasRoom
<1>3. room' \in Entries(RoomValue) /\ ~room'.asked
  <2>1. [CancelFetch(room).data EXCEPT !["mode"] = v] \in RoomValue
    BY <1>1, EntriesTyped DEF RoomValue
  <2>2. room' = SetData(CancelFetch(room), [CancelFetch(room).data EXCEPT !["mode"] = v])
    BY DEF ChooseMode, Patched
  <2> QED BY <1>1, <2>1, <2>2, EntriesTyped, EntriesFilled
<1>4. RoomTypeOK'
  <2>1. /\ begun' \in 0..MaxRoomWrites /\ UnderWay' \subseteq 1..begun'
        /\ writes' \in [UnderWay' -> Write]
        /\ latest' \in [Fields -> 0..begun'] /\ overlap' \in BOOLEAN
    BY <1>1, <1>2, MutateTyped DEF RoomInv
  <2> QED BY <1>3, <2>1 DEF RoomInv, RoomTypeOK, ChooseMode, Value
<1> QED BY <1>1, <1>2, <1>3, <1>4, WriteStep

LEMMA ToggleInv == ASSUME RoomInv, NEW f \in Fields, Toggle(f) PROVE RoomInv'
<1>1. room \in Entries(RoomValue) /\ room.data \in RoomValue
  BY DEF RoomInv, RoomTypeOK, Toggle, HasRoom, Entries
<1> DEFINE v == 1 - room.data[f]
<1>2. v \in {0, 1} /\ Mutate(f, v, room.data) /\ open /\ UNCHANGED open
  BY <1>1 DEF Toggle, HasRoom, RoomValue
<1> HIDE DEF v
<1>3. room' \in Entries(RoomValue) /\ ~room'.asked
  <2>1. [CancelFetch(room).data EXCEPT ![f] = v] \in RoomValue
    BY <1>1, <1>2, EntriesTyped DEF RoomValue
  <2>2. room' = SetData(CancelFetch(room), [CancelFetch(room).data EXCEPT ![f] = v])
    BY DEF Toggle, Patched, v
  <2> QED BY <1>1, <2>1, <2>2, EntriesTyped, EntriesFilled
<1>4. RoomTypeOK'
  <2>1. /\ begun' \in 0..MaxRoomWrites /\ UnderWay' \subseteq 1..begun'
        /\ writes' \in [UnderWay' -> Write]
        /\ latest' \in [Fields -> 0..begun'] /\ overlap' \in BOOLEAN
    BY <1>1, <1>2, MutateTyped DEF RoomInv
  <2> QED BY <1>3, <2>1 DEF RoomInv, RoomTypeOK, Toggle
<1> QED BY <1>1, <1>2, <1>3, <1>4, WriteStep

LEMMA CarryOutInv == ASSUME RoomInv, NEW i \in UnderWay, CarryOut(i) PROVE RoomInv'
<1> DEFINE done == [bridge EXCEPT ![writes[i].field] = writes[i].value]
<1>1. writes[i] \in Write /\ done \in RoomValue
  BY DEF RoomInv, RoomTypeOK, Write, RoomValue
<1>2. /\ bridge' = done /\ truths' = truths \cup {done}
      /\ writes' = [writes EXCEPT ![i].at = "ok", ![i].reply = done]
  BY DEF CarryOut, Becomes
<1> HIDE DEF done
<1>3. UnderWay' = UnderWay /\ writes' \in [UnderWay' -> Write]
  BY <1>1, <1>2 DEF RoomInv, RoomTypeOK, Write, UnderWay
<1>4. RoomTypeOK'
  BY <1>1, <1>2, <1>3 DEF RoomInv, RoomTypeOK, CarryOut
<1> QED BY <1>3, <1>4, QuietStep DEF CarryOut

LEMMA FailWriteInv == ASSUME RoomInv, NEW i \in UnderWay, FailWrite(i) PROVE RoomInv'
<1>1. writes[i] \in Write /\ [bridge EXCEPT ![writes[i].field] = writes[i].value] \in RoomValue
  BY DEF RoomInv, RoomTypeOK, Write, RoomValue
<1>2. UnderWay' = UnderWay /\ writes' \in [UnderWay' -> Write]
  BY <1>1 DEF RoomInv, RoomTypeOK, Write, UnderWay, FailWrite
<1>3. bridge' \in RoomValue /\ truths' \subseteq RoomValue
  BY <1>1 DEF RoomInv, RoomTypeOK, FailWrite, Becomes
<1>4. roomFaults' \in 0..MaxRoomFaults
  BY RoomPageAssumption DEF RoomInv, RoomTypeOK, FailWrite
<1>5. RoomTypeOK'
  BY <1>2, <1>3, <1>4 DEF RoomInv, RoomTypeOK, FailWrite
<1> QED BY <1>2, <1>5, QuietStep DEF FailWrite

LEMMA SettleWriteInv == ASSUME RoomInv, NEW i \in UnderWay, SettleWrite(i) PROVE RoomInv'
<1>1. writes[i] \in Write /\ room \in Entries(RoomValue)
  BY DEF RoomInv, RoomTypeOK
<1>2. UnderWay' = UnderWay \ {i} /\ writes' \in [UnderWay' -> Write]
  BY DEF RoomInv, RoomTypeOK, UnderWay, SettleWrite
<1>3. room' \in Entries(RoomValue) /\ room'.asked = room.asked
  <2>1. writes[i].reply \in RoomValue \cup {NoData} /\ writes[i].previous \in RoomValue \cup {NoData}
    BY <1>1 DEF Write
  <2>2. \/ room' = SetData(room, writes[i].reply)
        \/ room' = SetData(room, writes[i].previous)
        \/ room' = room
    BY DEF SettleWrite, RolledBack
  <2> QED BY <1>1, <2>1, <2>2, EntriesTyped, EntriesFilled
<1>4. edit' \in Value /\ committing' \in BOOLEAN
  BY DEF RoomInv, RoomTypeOK, SettleWrite, Value
<1>5. RoomTypeOK'
  BY <1>2, <1>3, <1>4 DEF RoomInv, RoomTypeOK, SettleWrite
<1> QED BY <1>2, <1>3, <1>5, QuietStep DEF SettleWrite

LEMMA ChangeElsewhereInv == ASSUME RoomInv, ChangeElsewhere PROVE RoomInv'
<1>1. PICK f \in Fields : Becomes([bridge EXCEPT ![f] = 1 - bridge[f]])
  BY DEF ChangeElsewhere
<1>2. [bridge EXCEPT ![f] = 1 - bridge[f]] \in RoomValue
  BY DEF RoomInv, RoomTypeOK, RoomValue
<1>3. bridge' \in RoomValue /\ truths' \subseteq RoomValue
  BY <1>1, <1>2 DEF RoomInv, RoomTypeOK, Becomes
<1>4. roomChanges' \in 0..MaxRoomChanges
  BY RoomPageAssumption DEF RoomInv, RoomTypeOK, ChangeElsewhere
<1>5. RoomTypeOK' /\ UnderWay' = UnderWay
  BY <1>3, <1>4 DEF RoomInv, RoomTypeOK, ChangeElsewhere, UnderWay
<1> QED BY <1>5, QuietStep DEF ChangeElsewhere

\* The actions of the query that ask for nothing.
LEMMA FetchEndsInv == ASSUME RoomInv, AnswerRoom \/ LandRoom \/ LoseRoom PROVE RoomInv'
<1>1. room \in Entries(RoomValue) /\ bridge \in RoomValue /\ room.answer \in RoomValue \cup {NoData}
  BY DEF RoomInv, RoomTypeOK, Entries
<1>2. room' \in Entries(RoomValue) /\ (room'.asked => room.asked)
  <2>1. \/ room' = Answer(room, bridge) \/ room' = Land(room) \/ room' = CancelFetch(room)
    BY DEF AnswerRoom, LandRoom, LoseRoom
  <2>2. CASE room' = Answer(room, bridge)
    BY <1>1, <2>2, EntriesFilled
  <2>3. CASE room' = Land(room) \/ room' = CancelFetch(room)
    BY <1>1, <2>3, EntriesTyped
  <2> QED BY <2>1, <2>2, <2>3
<1>3. roomFaults' \in 0..MaxRoomFaults
  BY RoomPageAssumption DEF RoomInv, RoomTypeOK, AnswerRoom, LandRoom, LoseRoom
<1>4. UNCHANGED <<open, edit, commitTimer, committing, writes, begun, before, latest, bridge,
                  roomChanges, truths, overlap>>
  BY DEF AnswerRoom, LandRoom, LoseRoom, OnlyTheEntry
<1>5. RoomTypeOK' /\ UnderWay' = UnderWay
  BY <1>2, <1>3, <1>4 DEF RoomInv, RoomTypeOK, UnderWay
<1> QED BY <1>2, <1>4, <1>5, QuietStep

\* The actions that may ask: no write is awaited then.
LEMMA FetchBeginsInv == ASSUME RoomInv, PollRoom \/ EnterRoom PROVE RoomInv'
<1>1. room \in Entries(RoomValue)
  BY DEF RoomInv, RoomTypeOK
<1>2. room' \in {room, Fetch(room)}
  BY DEF PollRoom, EnterRoom, Mounted
<1>3. room' \in Entries(RoomValue)
  BY <1>1, <1>2, EntriesTyped
<1>4. \A f \in Fields : ~IsPending(f)
  <2>1. CASE PollRoom
    BY <2>1 DEF PollRoom, PollAllowed, Writing
  <2>2. CASE EnterRoom
    BY <2>2 DEF RoomInv, RoomTypeOK, GoneIsIdle, EnterRoom, IsPending
  <2> QED BY <2>1, <2>2
<1>5. UNCHANGED <<commitTimer, writes, latest>> /\ open'
  BY DEF PollRoom, EnterRoom, OnlyTheEntry, PollAllowed
<1>6. RoomTypeOK'
  <2>1. CASE PollRoom
    BY <1>3, <2>1 DEF RoomInv, RoomTypeOK, PollRoom, OnlyTheEntry, UnderWay
  <2>2. CASE EnterRoom
    BY <1>3, <2>2 DEF RoomInv, RoomTypeOK, EnterRoom, UnderWay
  <2> QED BY <2>1, <2>2
<1>7. NoFetchUnderAWrite' /\ GoneIsIdle'
  BY <1>4, <1>5 DEF NoFetchUnderAWrite, GoneIsIdle, IsPending, UnderWay
<1> QED BY <1>6, <1>7 DEF RoomInv

LEMMA LeaveRoomInv == ASSUME RoomInv, LeaveRoom PROVE RoomInv'
<1>1. RoomTypeOK'
  <2>1. latest' \in [Fields -> 0..begun'] /\ UnderWay' = UnderWay
    BY RoomPageAssumption DEF RoomInv, RoomTypeOK, LeaveRoom, UnderWay
  <2> QED BY <2>1 DEF RoomInv, RoomTypeOK, LeaveRoom, Value
<1>2. GoneIsIdle'
  BY DEF GoneIsIdle, LeaveRoom
<1>3. NoFetchUnderAWrite'
  BY DEF RoomInv, RoomTypeOK, NoFetchUnderAWrite, LeaveRoom, IsPending, UnderWay
<1> QED BY <1>1, <1>2, <1>3 DEF RoomInv

-----------------------------------------------------------------------------
LEMMA NextRoomInv == RoomInv /\ [RoomNext]_roomVars => RoomInv'
<1> SUFFICES ASSUME RoomInv, [RoomNext]_roomVars PROVE RoomInv'
  OBVIOUS
<1>1. ASSUME NEW v \in {0, 1}, TurnDial(v) PROVE RoomInv'
  BY <1>1, TurnDialInv
<1>2. ASSUME NEW v \in {0, 1}, ChooseMode(v) PROVE RoomInv'
  BY <1>2, ChooseModeInv
<1>3. ASSUME NEW f \in Fields, Toggle(f) PROVE RoomInv'
  BY <1>3, ToggleInv
<1>4. CASE CommitDue
  BY <1>4, CommitDueInv
<1>5. ASSUME NEW i \in UnderWay, FailWrite(i) PROVE RoomInv'
  BY <1>5, FailWriteInv
<1>6. CASE ChangeElsewhere
  BY <1>6, ChangeElsewhereInv
<1>7. CASE PollRoom \/ EnterRoom
  BY <1>7, FetchBeginsInv
<1>8. CASE LoseRoom \/ RoomFetched
  BY <1>8, FetchEndsInv DEF RoomFetched
<1>9. CASE WriteReplies
  BY <1>9, CarryOutInv, SettleWriteInv DEF WriteReplies
<1>10. CASE LeaveRoom
  BY <1>10, LeaveRoomInv
<1>11. CASE UNCHANGED roomVars
  <2>1. RoomTypeOK' /\ UnderWay' = UnderWay
    BY <1>11 DEF RoomInv, RoomTypeOK, UnderWay, roomVars
  <2> QED BY <1>11, <2>1, QuietStep DEF roomVars
<1> QED
  BY <1>1, <1>2, <1>3, <1>4, <1>5, <1>6, <1>7, <1>8, <1>9, <1>10, <1>11 DEF RoomNext, RoomSteps

\* Every variable of the room page holds what the code's types say it holds: a
\* patch is always made of a room that is there (RoomDetail.tsx, optimisticPatch).
THEOREM RoomTypeCorrect == RoomSpec => []RoomTypeOK
<1>1. RoomSpec => []RoomInv
  BY InitRoomInv, NextRoomInv, PTL DEF RoomSpec
<1>2. RoomInv => RoomTypeOK
  BY DEF RoomInv
<1> QED BY <1>1, <1>2, PTL

\* However the user turns, toggles, leaves and comes back, and whatever fails, no
\* fetch of the room is under way while the page waits for a write it has already
\* shown (RoomDetail.tsx, optimisticPatch and the poll that pauses).
THEOREM NeverFetchesUnderAWrite == RoomSpec => []NoFetchUnderAWrite
<1>1. RoomSpec => []RoomInv
  BY InitRoomInv, NextRoomInv, PTL DEF RoomSpec
<1>2. RoomInv => NoFetchUnderAWrite
  BY DEF RoomInv
<1> QED BY <1>1, <1>2, PTL

-----------------------------------------------------------------------------
(* A write that fails alone.                                               *)

\* A room the bridge has had, or none.
HasBeen(d) == d \in truths \cup {NoData}

\* What the bridge said was true when it said it.
AnswersTrue ==
    /\ bridge \in truths /\ HasBeen(room.answer)
    /\ \A i \in UnderWay : writes[i].at = "ok" => HasBeen(writes[i].reply)

\* While no writes overlapped, the one under way can go back to a room that has
\* been, and nothing but its own patch is shown that has not.
OneTrace ==
    /\ \A i, j \in UnderWay : i = j
    /\ \A i \in UnderWay : HasBeen(writes[i].previous)
    /\ HasBeen(room.data) \/ \E i \in UnderWay : writes[i].previous # NoData

Lone == AnswersTrue /\ (~overlap => OneTrace)

LEMMA InitLone == RoomInit => Lone
BY DEF RoomInit, Lone, AnswersTrue, OneTrace, HasBeen, UnderWay, EmptyEntry

\* A call that begins.
LEMMA MutateLone ==
    ASSUME Lone, NEW f, NEW v, NEW previous, Mutate(f, v, previous), UNCHANGED <<bridge, truths>>,
           HasBeen(room'.answer), begun \in Nat, UnderWay \subseteq 1..begun,
           previous \in {NoData, room.data},
           room'.data = room.data \/ previous # NoData
    PROVE  Lone'
<1> DEFINE w == [field |-> f, value |-> v, previous |-> previous, at |-> "sent", reply |-> NoData]
<1>1. /\ begun' = begun + 1 /\ overlap' = (overlap \/ UnderWay # {})
      /\ writes' = [i \in UnderWay \cup {begun'} |-> IF i \in UnderWay THEN writes[i] ELSE w]
  BY DEF Mutate
<1>2. w.previous = previous /\ w.at = "sent"
  OBVIOUS
<1> HIDE DEF w
<1>3. begun' \notin UnderWay
  BY <1>1
<1>4. /\ UnderWay' = UnderWay \cup {begun'} /\ writes'[begun'] = w
      /\ \A i \in UnderWay : writes'[i] = writes[i]
  BY <1>1, <1>3 DEF UnderWay
<1>5. AnswersTrue'
  BY <1>2, <1>4 DEF Lone, AnswersTrue, HasBeen
<1>6. ASSUME ~overlap' PROVE OneTrace'
  <2>1. ~overlap /\ UnderWay = {} /\ UnderWay' = {begun'}
    BY <1>1, <1>4, <1>6
  <2>2. HasBeen(room.data)
    BY <2>1 DEF Lone, OneTrace
  <2>3. HasBeen(previous)
    BY <2>2 DEF HasBeen
  <2> QED BY <1>2, <1>4, <2>1, <2>2, <2>3 DEF OneTrace, HasBeen
<1> QED BY <1>5, <1>6 DEF Lone

LEMMA BeginLone ==
    ASSUME RoomInv, Lone,
           NEW f \in Fields, NEW v \in {0, 1}, CommitDue \/ ChooseMode(v) \/ Toggle(f)
    PROVE  Lone'
<1>1. begun \in Nat /\ UnderWay \subseteq 1..begun /\ HasBeen(room.answer)
  BY RoomPageAssumption DEF RoomInv, RoomTypeOK, Lone, AnswersTrue
<1>2. CASE CommitDue
  BY <1>1, <1>2, MutateLone DEF CommitDue, HasBeen
<1>3. CASE ChooseMode(v)
  <2>1. Mutate("mode", v, room.data) /\ room.data # NoData /\ UNCHANGED <<bridge, truths>>
    BY <1>3 DEF ChooseMode, HasRoom
  <2>2. HasBeen(room'.answer)
    BY <1>1, <1>3 DEF ChooseMode, Patched, CancelFetch, SetData, HasBeen, RoomInv, RoomTypeOK, Entries
  <2> QED BY <1>1, <2>1, <2>2, MutateLone
<1>4. CASE Toggle(f)
  <2>1. /\ Mutate(f, 1 - room.data[f], room.data) /\ room.data # NoData
        /\ UNCHANGED <<bridge, truths>>
    BY <1>4 DEF Toggle, HasRoom
  <2>2. HasBeen(room'.answer)
    BY <1>1, <1>4 DEF Toggle, Patched, CancelFetch, SetData, HasBeen, RoomInv, RoomTypeOK, Entries
  <2> QED BY <1>1, <2>1, <2>2, MutateLone
<1> QED BY <1>2, <1>3, <1>4

\* The bridge changes, and remembers.
LEMMA BridgeLone ==
    ASSUME RoomInv, Lone, ChangeElsewhere \/ \E i \in UnderWay : CarryOut(i) \/ FailWrite(i)
    PROVE  Lone'
<1>1. PICK r : bridge' = r /\ truths' = truths \cup {r}
  BY DEF CarryOut, FailWrite, ChangeElsewhere, Becomes
<1>2. UNCHANGED <<room, overlap>>
  BY DEF CarryOut, FailWrite, ChangeElsewhere
<1>3. \A d : HasBeen(d) => HasBeen(d)'
  BY <1>1 DEF HasBeen
<1> DEFINE Onward == /\ UnderWay' = UnderWay
                     /\ \A j \in UnderWay : /\ writes'[j].previous = writes[j].previous
                                            /\ writes'[j].at = "ok" =>
                                                 writes'[j] = writes[j] \/ writes'[j].reply = bridge'
<1>4. Onward
  <2>1. writes \in [UnderWay -> Write]
    BY DEF RoomInv, RoomTypeOK
  <2>2. CASE ChangeElsewhere
    BY <2>2 DEF ChangeElsewhere, UnderWay
  <2>3. ASSUME NEW i \in UnderWay, CarryOut(i) PROVE Onward
    BY <2>1, <2>3 DEF CarryOut, Becomes, UnderWay, Write
  <2>4. ASSUME NEW i \in UnderWay, FailWrite(i) PROVE Onward
    BY <2>1, <2>4 DEF FailWrite, UnderWay, Write
  <2> QED BY <2>2, <2>3, <2>4
<1>5. AnswersTrue'
  BY <1>1, <1>2, <1>4 DEF Lone, AnswersTrue, HasBeen
<1>6. ~overlap' => OneTrace'
  BY <1>1, <1>2, <1>4 DEF Lone, OneTrace, HasBeen
<1> QED BY <1>5, <1>6 DEF Lone

\* The answer: with no other call under way what is shown has been.
LEMMA SettleLone ==
    ASSUME RoomInv, Lone, NEW i \in UnderWay, SettleWrite(i)
    PROVE  Lone'
<1> DEFINE w == writes[i]
<1>1. /\ w.at \in {"ok", "failed"}
      /\ room' = IF w.at = "ok" THEN SetData(room, w.reply) ELSE RolledBack(room, w)
      /\ UNCHANGED <<bridge, truths, overlap>>
  BY DEF SettleWrite
<1>2. /\ UnderWay' = UnderWay \ {i}
      /\ \A j \in UnderWay' : writes'[j] = writes[j]
  BY DEF SettleWrite, UnderWay
<1>3. room'.answer = room.answer
  BY <1>1 DEF RolledBack, SetData, RoomInv, RoomTypeOK, Entries
<1>4. AnswersTrue'
  BY <1>1, <1>2, <1>3 DEF Lone, AnswersTrue, HasBeen
<1>5. ASSUME ~overlap' PROVE OneTrace'
  <2>1. OneTrace /\ UnderWay' = {}
    BY <1>1, <1>2, <1>5 DEF Lone, OneTrace
  <2>2. HasBeen(w.previous) /\ (w.previous = NoData => HasBeen(room.data))
    BY <2>1 DEF OneTrace
  <2>3. w.at = "ok" => HasBeen(w.reply)
    BY DEF Lone, AnswersTrue
  <2>4. HasBeen(room'.data)
    BY <1>1, <2>2, <2>3 DEF RolledBack, SetData, RoomInv, RoomTypeOK, Entries
  <2> QED BY <1>1, <2>1, <2>4 DEF OneTrace, HasBeen
<1> QED BY <1>4, <1>5 DEF Lone

\* The rest: what is fetched has been.
LEMMA FetchLone ==
    ASSUME RoomInv, Lone, UNCHANGED <<writes, overlap, bridge, truths>>,
           \/ UNCHANGED room
           \/ room' \in {Fetch(room), Answer(room, bridge), CancelFetch(room)}
           \/ room' = Land(room) /\ room.answer # NoData
    PROVE  Lone'
<1>1. room \in Entries(RoomValue) /\ HasBeen(room.answer) /\ HasBeen(bridge)
  BY DEF RoomInv, RoomTypeOK, Lone, AnswersTrue, HasBeen
<1>2. HasBeen(room'.answer) /\ (room'.data = room.data \/ HasBeen(room'.data))
  BY <1>1 DEF Entries, Fetch, Answer, CancelFetch, Land, EntryOf, EmptyEntry, HasBeen
<1>3. UnderWay' = UnderWay
  BY DEF UnderWay
<1> QED BY <1>2, <1>3 DEF Lone, AnswersTrue, OneTrace, HasBeen

LEMMA NextLone == RoomInv /\ Lone /\ [RoomNext]_roomVars => Lone'
<1> SUFFICES ASSUME RoomInv, Lone, [RoomNext]_roomVars PROVE Lone'
  OBVIOUS
<1>1. ASSUME NEW v \in {0, 1}, TurnDial(v) PROVE Lone'
  BY <1>1, FetchLone DEF TurnDial
<1>2. ASSUME NEW v \in {0, 1}, ChooseMode(v) PROVE Lone'
  BY <1>2, BeginLone, RoomPageAssumption
<1>3. ASSUME NEW f \in Fields, Toggle(f) PROVE Lone'
  BY <1>3, BeginLone
<1>4. CASE CommitDue
  BY <1>4, BeginLone, RoomPageAssumption
<1>5. ASSUME NEW i \in UnderWay, FailWrite(i) \/ CarryOut(i) PROVE Lone'
  BY <1>5, BridgeLone
<1>6. ASSUME NEW i \in UnderWay, SettleWrite(i) PROVE Lone'
  BY <1>6, SettleLone
<1>7. CASE ChangeElsewhere
  BY <1>7, BridgeLone
<1>8. CASE PollRoom \/ EnterRoom \/ RoomFetched \/ LoseRoom
  BY <1>8, FetchLone DEF PollRoom, EnterRoom, Mounted, RoomFetched, AnswerRoom, LandRoom, Landing,
     LoseRoom, OnlyTheEntry
<1>9. CASE LeaveRoom \/ UNCHANGED roomVars
  BY <1>9, FetchLone DEF LeaveRoom, roomVars
<1> QED
  BY <1>1, <1>2, <1>3, <1>4, <1>5, <1>6, <1>7, <1>8, <1>9 DEF RoomNext, RoomSteps, WriteReplies

\* Whatever fails, is changed elsewhere or lands late, a page whose writes never
\* overlapped shows a room the bridge has had once none is under way: the snapshot a
\* failed one goes back to was such a room (RoomDetail.tsx, onError).
THEOREM LoneWritesLeaveNoTrace == RoomSpec => []LoneFailureLeavesNoTrace
<1>1. RoomSpec => [](RoomInv /\ Lone)
  BY InitRoomInv, NextRoomInv, InitLone, NextLone, PTL DEF RoomSpec
<1>2. Lone => LoneFailureLeavesNoTrace
  BY DEF Lone, OneTrace, HasBeen, LoneFailureLeavesNoTrace
<1> QED BY <1>1, <1>2, PTL
=============================================================================
