--------------------------- MODULE HomeAssistant_proofs -----------------------
(***************************************************************************)
(* What holds of module HomeAssistant for every value of its bounds, and of *)
(* module Discovery for every Store: rooms, channels and modules without    *)
(* bound.                                                                   *)
(***************************************************************************)
EXTENDS HomeAssistant, SequenceTheorems, FiniteSetTheorems, WellFoundedInduction, TLAPS

-----------------------------------------------------------------------------
(* The discovery messages.                                                 *)

\* Two banks of the same length have the same channels.
LEMMA SameMaster ==
    ASSUME NEW io, NEW jo,
           Lengths(io.master, {"rz", "relay", "di"}) = Lengths(jo.master, {"rz", "relay", "di"})
    PROVE  MasterChannels(io) = MasterChannels(jo)
<1>1. \A bank \in {"rz", "relay", "di"} : Len(io.master[bank]) = Len(jo.master[bank])
    <2> SUFFICES ASSUME NEW bank \in {"rz", "relay", "di"}
                 PROVE  Len(io.master[bank]) = Len(jo.master[bank])
        OBVIOUS
    <2>1. Lengths(io.master, {"rz", "relay", "di"})[bank] = Len(io.master[bank])
        BY DEF Lengths
    <2>2. Lengths(jo.master, {"rz", "relay", "di"})[bank] = Len(jo.master[bank])
        BY DEF Lengths
    <2> QED BY <2>1, <2>2
<1> DEFINE Of(bank) == {<<"master", bank, i>> : i \in 1..Len(io.master[bank])}
           And(bank) == {<<"master", bank, i>> : i \in 1..Len(jo.master[bank])}
<1>2. \A bank \in {"rz", "relay", "di"} : Of(bank) = And(bank)
    BY <1>1
<1>3. /\ MasterChannels(io) = UNION {Of(bank) : bank \in {"rz", "relay", "di"}}
      /\ MasterChannels(jo) = UNION {And(bank) : bank \in {"rz", "relay", "di"}}
    BY Zenon DEF MasterChannels
<1> HIDE DEF Of, And
<1> QED BY <1>2, <1>3, Zenon

LEMMA SameModule ==
    ASSUME NEW io, NEW jo, NEW k,
           Lengths(io.umodules[k], {"relay", "di", "aiC"})
               = Lengths(jo.umodules[k], {"relay", "di", "aiC"})
    PROVE  ModuleChannels(io, k) = ModuleChannels(jo, k)
<1>1. \A bank \in {"relay", "di", "aiC"} :
          Len(io.umodules[k][bank]) = Len(jo.umodules[k][bank])
    <2> SUFFICES ASSUME NEW bank \in {"relay", "di", "aiC"}
                 PROVE  Len(io.umodules[k][bank]) = Len(jo.umodules[k][bank])
        OBVIOUS
    <2>1. Lengths(io.umodules[k], {"relay", "di", "aiC"})[bank] = Len(io.umodules[k][bank])
        BY DEF Lengths
    <2>2. Lengths(jo.umodules[k], {"relay", "di", "aiC"})[bank] = Len(jo.umodules[k][bank])
        BY DEF Lengths
    <2> QED BY <2>1, <2>2
<1> DEFINE Of(bank) == {<<k, bank, i>> : i \in 1..Len(io.umodules[k][bank])}
           And(bank) == {<<k, bank, i>> : i \in 1..Len(jo.umodules[k][bank])}
<1>2. \A bank \in {"relay", "di", "aiC"} : Of(bank) = And(bank)
    BY <1>1
<1>3. /\ ModuleChannels(io, k) = UNION {Of(bank) : bank \in {"relay", "di", "aiC"}}
      /\ ModuleChannels(jo, k) = UNION {And(bank) : bank \in {"relay", "di", "aiC"}}
    BY Zenon DEF ModuleChannels
<1> HIDE DEF Of, And
<1> QED BY <1>2, <1>3, Zenon

LEMMA SameIO ==
    ASSUME NEW io, NEW jo, IoSignature(io) = IoSignature(jo)
    PROVE  BuildIODiscovery(io) = BuildIODiscovery(jo)
<1>1. Lengths(io.master, {"rz", "relay", "di"}) = Lengths(jo.master, {"rz", "relay", "di"})
    BY DEF IoSignature
<1>2. [k \in DOMAIN io.umodules |-> Lengths(io.umodules[k], {"relay", "di", "aiC"})]
        = [k \in DOMAIN jo.umodules |-> Lengths(jo.umodules[k], {"relay", "di", "aiC"})]
    BY DEF IoSignature
<1>3. DOMAIN io.umodules = DOMAIN jo.umodules
    BY <1>2
<1>4. \A k \in DOMAIN io.umodules :
          Lengths(io.umodules[k], {"relay", "di", "aiC"})
              = Lengths(jo.umodules[k], {"relay", "di", "aiC"})
    BY <1>2, <1>3
<1>5. \A k \in DOMAIN io.umodules : ModuleChannels(io, k) = ModuleChannels(jo, k)
    BY <1>4, SameModule
<1>6. \A k \in DOMAIN io.umodules : BuildModuleIO(io, k) = BuildModuleIO(jo, k)
    BY <1>5, Zenon DEF BuildModuleIO
<1>7. BuildMasterIO(io) = BuildMasterIO(jo)
    BY <1>1, SameMaster, Zenon DEF BuildMasterIO
<1> QED BY <1>3, <1>6, <1>7, Zenon DEF BuildIODiscovery

LEMMA SameRoom ==
    ASSUME NEW r, NEW rm, NEW sm, NEW cooling, RoomSignature(rm) = RoomSignature(sm)
    PROVE  RoomEntities(r, rm, cooling) = RoomEntities(r, sm, cooling)
<1>1. rm.hasLight = sm.hasLight /\ rm.hasFan = sm.hasFan /\ rm.hasFlap = sm.hasFlap
    BY DEF RoomSignature
<1> QED BY <1>1, Zenon DEF RoomEntities

\* publishHaDiscovery() may stay silent while the signature is the same: two
\* Stores with one signature have the same entities, with the same topics,
\* templates and controls, however many rooms, modules and channels there are.
THEOREM SignatureTellsDiscovery ==
    ASSUME NEW s, NEW t, CapabilitySignature(s) = CapabilitySignature(t)
    PROVE  BuildAllDiscovery(s) = BuildAllDiscovery(t)
<1>1. IsSystemCooling(s) = IsSystemCooling(t)
    <2>1. (IF IsSystemCooling(s) THEN "C" ELSE "H") = (IF IsSystemCooling(t) THEN "C" ELSE "H")
        BY DEF CapabilitySignature
    <2>2. IsSystemCooling(s) \in BOOLEAN /\ IsSystemCooling(t) \in BOOLEAN
        BY DEF IsSystemCooling
    <2> QED BY <2>1, <2>2
<1>2. [r \in DOMAIN s.rooms |-> RoomSignature(s.rooms[r])]
        = [r \in DOMAIN t.rooms |-> RoomSignature(t.rooms[r])]
    BY DEF CapabilitySignature
<1>3. DOMAIN s.rooms = DOMAIN t.rooms
    BY <1>2
<1>4. \A r \in DOMAIN s.rooms : RoomSignature(s.rooms[r]) = RoomSignature(t.rooms[r])
    BY <1>2, <1>3
<1>5. \A r \in DOMAIN s.rooms :
          RoomEntities(r, s.rooms[r], IsSystemCooling(s))
              = RoomEntities(r, t.rooms[r], IsSystemCooling(t))
    <2> SUFFICES ASSUME NEW r \in DOMAIN s.rooms
                 PROVE  RoomEntities(r, s.rooms[r], IsSystemCooling(s))
                            = RoomEntities(r, t.rooms[r], IsSystemCooling(t))
        OBVIOUS
    <2>1. RoomEntities(r, s.rooms[r], IsSystemCooling(s))
            = RoomEntities(r, t.rooms[r], IsSystemCooling(s))
        BY <1>4, SameRoom
    <2> QED BY <2>1, <1>1, Zenon
<1>6. (s.io = NoIO) = (t.io = NoIO)
    <2>1. (s.io # NoIO) = (t.io # NoIO)
        BY DEF CapabilitySignature
    <2> QED BY <2>1
<1>7. s.io # NoIO => IoSignature(s.io) = IoSignature(t.io)
    BY <1>6 DEF CapabilitySignature
<1>8. (IF s.io = NoIO THEN {} ELSE BuildIODiscovery(s.io))
        = (IF t.io = NoIO THEN {} ELSE BuildIODiscovery(t.io))
    BY <1>6, <1>7, SameIO
<1> QED BY <1>3, <1>5, <1>8, Zenon DEF BuildAllDiscovery

-----------------------------------------------------------------------------
(* What is under way on a topic.  LastOf(q, d, t) is what subscribers of t  *)
(* see in the end when the broker has d and the messages of q follow.       *)

On(q, t) == {i \in 1..Len(q) : q[i].topic = t}

LastOf(q, d, t) ==
    IF On(q, t) = {} THEN d
    ELSE q[CHOOSE i \in On(q, t) : \A j \in On(q, t) : j <= i].payload

LEMMA DeliveredIsLast == \A t : Delivered(t) = LastOf(outbox, retained[t], t)
BY DEF Delivered, LastOf, On

LEMMA LeastNatural ==
    ASSUME NEW S \in SUBSET Nat, S # {}
    PROVE  \E n \in S : \A m \in S : n <= m
<1> DEFINE less == {p \in Nat \X Nat : p[1] < p[2]}
<1>1. IsWellFoundedOn(less, Nat)
    <2>1. OpToRel(<, Nat) = less
        BY DEF OpToRel
    <2> QED BY <2>1, NatLessThanWellFounded
<1> HIDE DEF less
<1>2. PICK n \in S : \A m \in S : <<m, n>> \notin less
    BY <1>1, WFMin
<1>3. ASSUME NEW m \in S PROVE n <= m
    <2>1. m \in Nat /\ n \in Nat
        OBVIOUS
    <2>2. ~(m < n)
        BY <1>2, <2>1 DEF less
    <2> QED BY <2>1, <2>2
<1> QED BY <1>3

\* A set of indices has a greatest one.
LEMMA Greatest ==
    ASSUME NEW n \in Nat, NEW S \in SUBSET (1..n), S # {}
    PROVE  \E i \in S : \A j \in S : j <= i
<1> DEFINE bounds == {b \in Nat : \A i \in S : i <= b}
<1>1. n \in bounds
    OBVIOUS
<1>2. PICK b \in bounds : \A m \in bounds : b <= m
    BY <1>1, LeastNatural
<1>3. ASSUME b \notin S PROVE FALSE
    <2>1. \A i \in S : i <= b /\ i # b /\ i >= 1
        BY <1>3
    <2>2. PICK i \in S : TRUE
        OBVIOUS
    <2>3. b - 1 \in bounds
        BY <2>1, <2>2
    <2> QED BY <1>2, <2>3
<1> QED BY <1>2, <1>3

\* LastOf by its last message.
LEMMA LastOfAt ==
    ASSUME NEW q, Len(q) \in Nat, NEW d, NEW t, NEW i \in On(q, t),
           \A j \in On(q, t) : j <= i
    PROVE  LastOf(q, d, t) = q[i].payload
<1> DEFINE c == CHOOSE k \in On(q, t) : \A j \in On(q, t) : j <= k
<1>1. c \in On(q, t) /\ \A j \in On(q, t) : j <= c
    OBVIOUS
<1>2. c = i
    BY <1>1 DEF On
<1> QED BY <1>2 DEF LastOf

\* Without a message for t it is what the broker has; with one it is not.
LEMMA Dichotomy ==
    ASSUME NEW q, NEW t
    PROVE  \/ \A d : LastOf(q, d, t) = d
           \/ \A d, e : LastOf(q, d, t) = LastOf(q, e, t)
<1>1. CASE On(q, t) = {}
    BY <1>1 DEF LastOf
<1>2. CASE On(q, t) # {}
    BY <1>2 DEF LastOf
<1> QED BY <1>1, <1>2

LEMMA LastOfNone ==
    ASSUME NEW d, NEW t
    PROVE  LastOf(<<>>, d, t) = d
<1>1. On(<<>>, t) = {}
    BY DEF On
<1> QED BY <1>1 DEF LastOf

LEMMA LastOfOne ==
    ASSUME NEW m, NEW d, NEW t
    PROVE  LastOf(<<m>>, d, t) = IF m.topic = t THEN m.payload ELSE d
<1>1. On(<<m>>, t) = IF m.topic = t THEN {1} ELSE {}
    BY DEF On
<1>2. ASSUME m.topic = t PROVE LastOf(<<m>>, d, t) = m.payload
    BY <1>1, <1>2, LastOfAt
<1> QED BY <1>1, <1>2 DEF LastOf

LEMMA LastOfConcat ==
    ASSUME NEW M, NEW q \in Seq(M), NEW p \in Seq(M), NEW d, NEW t
    PROVE  LastOf(q \o p, d, t) = LastOf(p, LastOf(q, d, t), t)
<1>1. /\ q \o p \in Seq(M)
      /\ Len(q) \in Nat /\ Len(p) \in Nat /\ Len(q \o p) = Len(q) + Len(p)
      /\ \A i \in 1..Len(q) : (q \o p)[i] = q[i]
      /\ \A i \in 1..Len(p) : (q \o p)[Len(q) + i] = p[i]
    OBVIOUS
<1>2. CASE On(p, t) # {}
    <2>1. PICK i \in On(p, t) : \A j \in On(p, t) : j <= i
        BY <1>1, <1>2, Greatest, On(p, t) \in SUBSET (1..Len(p)) DEF On
    <2>2. Len(q) + i \in On(q \o p, t)
        BY <1>1, <2>1 DEF On
    <2>3. \A j \in On(q \o p, t) : j <= Len(q) + i
        <3> SUFFICES ASSUME NEW j \in On(q \o p, t), j > Len(q)
                     PROVE  j <= Len(q) + i
            BY <1>1, <2>1 DEF On
        <3>1. j - Len(q) \in 1..Len(p) /\ (q \o p)[Len(q) + (j - Len(q))] = p[j - Len(q)]
            BY <1>1 DEF On
        <3>2. j - Len(q) \in On(p, t)
            BY <1>1, <3>1 DEF On
        <3> QED BY <1>1, <2>1, <3>2 DEF On
    <2>4. LastOf(q \o p, d, t) = (q \o p)[Len(q) + i].payload
        <3> DEFINE c == q \o p
        <3>1. Len(c) \in Nat /\ Len(q) + i \in On(c, t) /\ \A j \in On(c, t) : j <= Len(q) + i
            BY <1>1, <2>2, <2>3
        <3> HIDE DEF c
        <3>2. LastOf(c, d, t) = c[Len(q) + i].payload
            BY <3>1, LastOfAt
        <3> QED BY <3>2 DEF c
    <2>5. LastOf(p, LastOf(q, d, t), t) = p[i].payload
        BY <1>1, <2>1, LastOfAt
    <2> QED BY <1>1, <2>4, <2>5 DEF On
<1>3. CASE On(p, t) = {} /\ On(q, t) # {}
    <2>1. PICK i \in On(q, t) : \A j \in On(q, t) : j <= i
        BY <1>1, <1>3, Greatest, On(q, t) \in SUBSET (1..Len(q)) DEF On
    <2>2. On(q \o p, t) \subseteq 1..Len(q)
        <3> SUFFICES ASSUME NEW j \in On(q \o p, t), j > Len(q)
                     PROVE  FALSE
            BY <1>1 DEF On
        <3>1. j - Len(q) \in 1..Len(p) /\ (q \o p)[Len(q) + (j - Len(q))] = p[j - Len(q)]
            BY <1>1 DEF On
        <3>2. j - Len(q) \in On(p, t)
            BY <1>1, <3>1 DEF On
        <3> QED BY <1>3, <3>2
    <2>3. On(q \o p, t) = On(q, t)
        BY <1>1, <2>2 DEF On
    <2>4. LastOf(q \o p, d, t) = (q \o p)[i].payload
        <3> DEFINE c == q \o p
        <3>1. Len(c) \in Nat /\ i \in On(c, t) /\ \A j \in On(c, t) : j <= i
            BY <1>1, <2>1, <2>3
        <3> HIDE DEF c
        <3>2. LastOf(c, d, t) = c[i].payload
            BY <3>1, LastOfAt
        <3> QED BY <3>2 DEF c
    <2>5. LastOf(q, d, t) = q[i].payload
        BY <1>1, <2>1, LastOfAt
    <2>6. LastOf(p, LastOf(q, d, t), t) = LastOf(q, d, t)
        BY <1>3 DEF LastOf
    <2> QED BY <1>1, <2>1, <2>4, <2>5, <2>6 DEF On
<1>4. CASE On(p, t) = {} /\ On(q, t) = {}
    <2>1. On(q \o p, t) = {}
        <3> SUFFICES ASSUME NEW j \in On(q \o p, t)
                     PROVE  FALSE
            OBVIOUS
        <3>1. CASE j <= Len(q)
            BY <1>1, <1>4, <3>1 DEF On
        <3>2. CASE j > Len(q)
            <4>1. j - Len(q) \in 1..Len(p) /\ (q \o p)[Len(q) + (j - Len(q))] = p[j - Len(q)]
                BY <1>1, <3>2 DEF On
            <4> QED BY <1>1, <1>4, <4>1 DEF On
        <3> QED BY <1>1, <3>1, <3>2 DEF On
    <2> QED BY <1>4, <2>1 DEF LastOf
<1> QED BY <1>2, <1>3, <1>4

\* The messages of the bridge, and what each leaves on a topic.
LEMMA OnlineMessage ==
    ASSUME NEW b \in BOOLEAN, NEW d, NEW t
    PROVE  /\ Online(b) \in Seq(Message)
           /\ LastOf(Online(b), d, t)
                 = IF t = "availability" THEN (IF b THEN "online" ELSE "offline") ELSE d
<1> DEFINE m == [topic |-> "availability", payload |-> IF b THEN "online" ELSE "offline"]
<1>1. m \in Message /\ m.topic = "availability" /\ m.payload = IF b THEN "online" ELSE "offline"
    BY DEF Message, Availability
<1>2. Online(b) = <<m>>
    BY DEF Online
<1> HIDE DEF m
<1>3. LastOf(<<m>>, d, t) = IF m.topic = t THEN m.payload ELSE d
    BY LastOfOne
<1> QED BY <1>1, <1>2, <1>3

LEMMA RoomMessageSays ==
    ASSUME NEW r \in Room, NEW d, NEW t
    PROVE  /\ RoomMessage(r) \in Seq(Message)
           /\ LastOf(RoomMessage(r), d, t) = IF t = "room" THEN r ELSE d
<1> DEFINE m == [topic |-> "room", payload |-> r]
<1>1. m \in Message /\ m.topic = "room" /\ m.payload = r
    BY DEF Message
<1>2. RoomMessage(r) = <<m>>
    BY DEF RoomMessage
<1> HIDE DEF m
<1>3. LastOf(<<m>>, d, t) = IF m.topic = t THEN m.payload ELSE d
    BY LastOfOne
<1> QED BY <1>1, <1>2, <1>3

-----------------------------------------------------------------------------
(* The discovery of one room.                                              *)

LEMMA SnapshotHas ==
    ASSUME NEW r, NEW s
    PROVE  /\ Snapshot(r, s, NoIO).io = NoIO
           /\ DOMAIN Snapshot(r, s, NoIO).rooms = IF r = "none" THEN {} ELSE {"room"}
           /\ r # "none" => (Snapshot(r, s, NoIO).rooms["room"].hasLight <=> r = "light")
           /\ IsSystemCooling(Snapshot(r, s, NoIO)) <=> s = "cooling"
BY DEF Snapshot, IsSystemCooling

LEMMA ReadOnlyId ==
    ASSUME NEW c, NEW of \in Seq(STRING), NEW topic, NEW fields
    PROVE  /\ ReadOnly(c, of, topic, fields).id[1] = c
           /\ ReadOnly(c, of, topic, fields).controls = {}
BY DEF ReadOnly

\* Entities that every installation has, by the first part of their ids.
LEMMA SystemIds ==
    /\ BuildOutdoor.id[1] = "sensor"
    /\ BuildOutdoorOffset.id[1] = "sensor"
    /\ BuildOperatingModeSelect.id[1] = "select"
    /\ BuildEnergyLevelSelect.id[1] = "select"
    /\ BuildAlarms.id[1] = "binary_sensor"
    /\ BuildAlarmsCount.id[1] = "sensor"
BY DEF BuildOutdoor, BuildOutdoorOffset, BuildOperatingModeSelect, BuildEnergyLevelSelect,
       BuildAlarms, BuildAlarmsCount, Select, ReadOnly

LEMMA RoomIds ==
    ASSUME NEW r, NEW cooling
    PROVE  /\ BuildRoomClimate(r, cooling).id = <<"climate", r>>
           /\ BuildRoomHumidity(r).id[1] = "sensor"
           /\ BuildRoomLightSwitch(r).id = <<"switch", r, "light">>
           /\ BuildRoomLockSwitch(r).id = <<"switch", r, "lock">>
           /\ BuildRoomAutoStart(r).id = <<"switch", r, "auto_start">>
           /\ BuildRoomWindowDetection(r).id = <<"switch", r, "window_detection">>
           /\ \A e \in BuildRoomFan(r) : e.id[1] \in {"sensor", "binary_sensor"}
           /\ BuildRoomFlap(r).id[1] = "binary_sensor"
           /\ \A e \in BuildRoomCalibration(r) : e.id[1] = "sensor"
BY DEF BuildRoomClimate, BuildRoomHumidity, BuildRoomLightSwitch, BuildRoomLockSwitch,
       BuildRoomAutoStart, BuildRoomWindowDetection, BuildRoomFan, BuildRoomFlap,
       BuildRoomCalibration, ReadOnly, Switch

LEMMA SnapshotEntities ==
    ASSUME NEW r, NEW s
    PROVE  BuildAllDiscovery(Snapshot(r, s, NoIO))
             = {BuildOutdoor, BuildOperatingModeSelect, BuildEnergyLevelSelect,
                BuildAlarms, BuildAlarmsCount}
               \cup (IF ExposeCalibration THEN {BuildOutdoorOffset} ELSE {})
               \cup (IF r = "none" THEN {}
                     ELSE RoomEntities("room", Snapshot(r, s, NoIO).rooms["room"],
                                       IsSystemCooling(Snapshot(r, s, NoIO))))
<1> DEFINE S == Snapshot(r, s, NoIO)
<1>1. S.io = NoIO /\ DOMAIN S.rooms = IF r = "none" THEN {} ELSE {"room"}
    BY SnapshotHas
<1> HIDE DEF S
<1>2. UNION {RoomEntities(q, S.rooms[q], IsSystemCooling(S)) : q \in DOMAIN S.rooms}
        = IF r = "none" THEN {} ELSE RoomEntities("room", S.rooms["room"], IsSystemCooling(S))
    BY <1>1
<1>3. BuildAllDiscovery(S)
             = {BuildOutdoor, BuildOperatingModeSelect, BuildEnergyLevelSelect,
                BuildAlarms, BuildAlarmsCount}
               \cup (IF ExposeCalibration THEN {BuildOutdoorOffset} ELSE {})
               \cup (IF r = "none" THEN {}
                     ELSE RoomEntities("room", S.rooms["room"], IsSystemCooling(S)))
    BY <1>1, <1>2, Zenon DEF BuildAllDiscovery
<1> QED BY <1>3 DEF S

\* The climate entity is announced for every room, the switch of its light for
\* a room that has one.
LEMMA ClimateOfRooms ==
    ASSUME NEW r \in Room, NEW s \in Season
    PROVE  <<r, s>> \in WithClimate <=> r # "none"
<1> DEFINE S == Snapshot(r, s, NoIO)
           all == BuildAllDiscovery(S)
<1>1. <<r, s>> \in WithClimate <=> \E e \in all : e.id = <<"climate", "room">>
    BY DEF WithClimate, Stores
<1>2. CASE r = "none"
    <2>1. all = {BuildOutdoor, BuildOperatingModeSelect, BuildEnergyLevelSelect,
                 BuildAlarms, BuildAlarmsCount}
                \cup (IF ExposeCalibration THEN {BuildOutdoorOffset} ELSE {})
        BY <1>2, SnapshotEntities
    <2>2. \A e \in all : e.id[1] # "climate"
        BY <2>1, SystemIds
    <2> QED BY <1>1, <1>2, <2>2
<1>3. CASE r # "none"
    <2>1. BuildRoomClimate("room", IsSystemCooling(S)) \in all
        BY <1>3, SnapshotEntities DEF RoomEntities
    <2>2. BuildRoomClimate("room", IsSystemCooling(S)).id = <<"climate", "room">>
        BY RoomIds
    <2> QED BY <1>1, <1>3, <2>1, <2>2
<1> QED BY <1>2, <1>3

LEMMA LightOfRooms ==
    ASSUME NEW r \in Room, NEW s \in Season
    PROVE  <<r, s>> \in WithLight <=> r = "light"
<1> DEFINE S == Snapshot(r, s, NoIO)
           all == BuildAllDiscovery(S)
           rm == S.rooms["room"]
           cooling == IsSystemCooling(S)
<1>1. <<r, s>> \in WithLight <=> \E e \in all : e.id = <<"switch", "room", "light">>
    BY DEF WithLight, Stores
<1>2. r # "none" => (rm.hasLight <=> r = "light")
    BY SnapshotHas
<1>3. CASE r = "light"
    <2>1. BuildRoomLightSwitch("room") \in RoomEntities("room", rm, cooling)
        BY <1>2, <1>3 DEF RoomEntities
    <2>2. BuildRoomLightSwitch("room") \in all
        BY <1>3, <2>1, SnapshotEntities
    <2>3. BuildRoomLightSwitch("room").id = <<"switch", "room", "light">>
        BY RoomIds
    <2> QED BY <1>1, <1>3, <2>2, <2>3
<1>4. CASE r # "light"
    <2>1. SUFFICES ASSUME NEW e \in all, e.id = <<"switch", "room", "light">>
                   PROVE  FALSE
        BY <1>1, <1>4
    <2>2. e.id[1] = "switch" /\ e.id # <<"climate", "room">> /\ e.id # <<"switch", "room", "lock">>
            /\ e.id # <<"switch", "room", "auto_start">>
            /\ e.id # <<"switch", "room", "window_detection">>
        BY <2>1
    <2>3. e \in RoomEntities("room", rm, cooling) /\ r # "none"
        BY <2>2, SnapshotEntities, SystemIds
    <2>4. ~rm.hasLight
        BY <1>2, <1>4, <2>3
    <2> HIDE DEF all, rm, cooling
    <2>5. \/ e \in {BuildRoomClimate("room", cooling), BuildRoomHumidity("room"),
                    BuildRoomLockSwitch("room"), BuildRoomAutoStart("room"),
                    BuildRoomWindowDetection("room")}
          \/ e \in BuildRoomFan("room")
          \/ e = BuildRoomFlap("room")
          \/ e \in BuildRoomCalibration("room")
        BY <2>3, <2>4, Zenon DEF RoomEntities
    <2> QED BY <2>2, <2>5, RoomIds
<1> QED BY <1>3, <1>4

LEMMA EntitiesSay ==
    ASSUME NEW r \in Room, NEW s \in Season, NEW d, NEW t
    PROVE  /\ EntitiesOf(r, s) \in Seq(Message)
           /\ t = "climate" /\ r # "none" => LastOf(EntitiesOf(r, s), d, t) = s
           /\ t \notin {"climate", "light"} \/ r = "none" \/ (t = "light" /\ r # "light")
                => LastOf(EntitiesOf(r, s), d, t) = d
<1> DEFINE c == [topic |-> "climate", payload |-> s]
           l == [topic |-> "light", payload |-> TRUE]
           cs == IF r # "none" THEN <<c>> ELSE <<>>
           ls == IF r = "light" THEN <<l>> ELSE <<>>
<1>1. EntitiesOf(r, s) = cs \o ls
    BY ClimateOfRooms, LightOfRooms DEF EntitiesOf
<1>2. /\ c \in Message /\ c.topic = "climate" /\ c.payload = s
      /\ l \in Message /\ l.topic = "light"
    BY DEF Message
<1> HIDE DEF c, l
<1>3. cs \in Seq(Message) /\ ls \in Seq(Message)
    BY <1>2
<1>4. /\ t = "climate" /\ r # "none" => LastOf(cs, d, t) = s
      /\ t # "climate" \/ r = "none" => LastOf(cs, d, t) = d
    <2>1. CASE r # "none"
        <3>1. LastOf(<<c>>, d, t) = IF c.topic = t THEN c.payload ELSE d
            BY LastOfOne
        <3>2. t = "climate" => LastOf(<<c>>, d, t) = c.payload
            BY <1>2, <3>1
        <3>3. t # "climate" => LastOf(<<c>>, d, t) = d
            BY <1>2, <3>1
        <3> QED BY <1>2, <2>1, <3>2, <3>3
    <2>2. CASE r = "none"
        BY <2>2, LastOfNone
    <2> QED BY <2>1, <2>2
<1>5. ASSUME NEW x
      PROVE  t # "light" \/ r # "light" => LastOf(ls, x, t) = x
    <2>1. CASE r = "light"
        <3>1. LastOf(<<l>>, x, t) = IF l.topic = t THEN l.payload ELSE x
            BY LastOfOne
        <3>2. t # "light" => LastOf(<<l>>, x, t) = x
            BY <1>2, <3>1
        <3> QED BY <2>1, <3>2
    <2>2. CASE r # "light"
        BY <2>2, LastOfNone
    <2> QED BY <2>1, <2>2
<1> HIDE DEF cs, ls
<1>6. LastOf(cs \o ls, d, t) = LastOf(ls, LastOf(cs, d, t), t)
    BY <1>3, LastOfConcat
<1>7. cs \o ls \in Seq(Message)
    BY <1>3
<1>8. LastOf(EntitiesOf(r, s), d, t) = LastOf(ls, LastOf(cs, d, t), t)
    BY <1>1, <1>6
<1>9. ASSUME t = "climate", r # "none" PROVE LastOf(EntitiesOf(r, s), d, t) = s
    <2>1. LastOf(cs, d, t) = s
        BY <1>4, <1>9
    <2> QED BY <1>5, <1>8, <1>9, <2>1
<1>10. ASSUME t \notin {"climate", "light"} \/ r = "none" \/ (t = "light" /\ r # "light")
       PROVE  LastOf(EntitiesOf(r, s), d, t) = d
    <2>1. LastOf(cs, d, t) = d
        BY <1>4, <1>10
    <2>2. t # "light" \/ r # "light"
        BY <1>10
    <2> QED BY <1>5, <1>8, <2>1, <2>2
<1> QED BY <1>1, <1>7, <1>9, <1>10

LEMMA EntitiesLight ==
    ASSUME NEW s \in Season, NEW d
    PROVE  LastOf(EntitiesOf("light", s), d, "light") = TRUE
<1> DEFINE c == [topic |-> "climate", payload |-> s]
           l == [topic |-> "light", payload |-> TRUE]
<1>1. EntitiesOf("light", s) = <<c>> \o <<l>>
    BY ClimateOfRooms, LightOfRooms DEF EntitiesOf, Room
<1>2. c \in Message /\ l \in Message /\ l.topic = "light" /\ l.payload = TRUE
    BY DEF Message
<1> HIDE DEF c, l
<1>3. LastOf(<<c>> \o <<l>>, d, "light") = LastOf(<<l>>, LastOf(<<c>>, d, "light"), "light")
    <2> DEFINE cs == <<c>>
               ls == <<l>>
    <2>1. cs \in Seq(Message) /\ ls \in Seq(Message)
        BY <1>2
    <2> HIDE DEF cs, ls
    <2>2. LastOf(cs \o ls, d, "light") = LastOf(ls, LastOf(cs, d, "light"), "light")
        BY <2>1, LastOfConcat
    <2> QED BY <2>2 DEF cs, ls
<1>4. LastOf(<<l>>, LastOf(<<c>>, d, "light"), "light") = l.payload
    BY <1>2, LastOfOne
<1> QED BY <1>1, <1>2, <1>3, <1>4

\* What publishHaDiscovery sends, when it sends anything.
LEMMA DiscoverySays ==
    ASSUME NEW r \in Room, NEW s \in Season, NEW d, NEW t
    PROVE  /\ PublishHaDiscovery(r, s) \in Seq(Message)
           /\ SignatureOf(r, s) = signature \/ t \notin {"climate", "light"}
                 => LastOf(PublishHaDiscovery(r, s), d, t) = d
           /\ SignatureOf(r, s) # signature /\ t = "climate" /\ r # "none"
                 => LastOf(PublishHaDiscovery(r, s), d, t) = s
<1>1. CASE SignatureOf(r, s) = signature
    <2>1. PublishHaDiscovery(r, s) = <<>>
        BY <1>1 DEF PublishHaDiscovery
    <2> QED BY <1>1, <2>1, LastOfNone
<1>2. CASE SignatureOf(r, s) # signature
    <2>1. PublishHaDiscovery(r, s) = EntitiesOf(r, s)
        BY <1>2 DEF PublishHaDiscovery
    <2> QED BY <1>2, <2>1, EntitiesSay
<1> QED BY <1>1, <1>2

LEMMA DiscoveryLight ==
    ASSUME NEW s \in Season, NEW d, SignatureOf("light", s) # signature
    PROVE  LastOf(PublishHaDiscovery("light", s), d, "light") = TRUE
<1>1. PublishHaDiscovery("light", s) = EntitiesOf("light", s)
    BY DEF PublishHaDiscovery
<1> QED BY <1>1, EntitiesLight

-----------------------------------------------------------------------------
(* Signatures.                                                             *)

Seasons == {"heating", "cooling"}

LEMMA SignatureNames ==
    ASSUME NEW r \in Room, NEW s \in Season
    PROVE  /\ SignatureOf(r, s) \in Stores
           /\ CapabilitySignature(Snapshot(SignatureOf(r, s)[1], SignatureOf(r, s)[2], NoIO))
                 = CapabilitySignature(Snapshot(r, s, NoIO))
<1>1. <<r, s>> \in Stores /\ <<r, s>>[1] = r /\ <<r, s>>[2] = s
    BY DEF Stores
<1>2. <<<<r, s>>, <<r, s>>>> \in SameSignature
    <2> DEFINE p == <<<<r, s>>, <<r, s>>>>
    <2>1. p \in {<<a, b>> : a \in Stores, b \in Stores} /\ p[1] = p[2]
        BY <1>1
    <2> HIDE DEF p
    <2>2. p \in SameSignature
        BY <2>1 DEF SameSignature
    <2> QED BY <2>2 DEF p
<1>3. PICK p \in Stores : p = SignatureOf(r, s) /\ <<p, <<r, s>>>> \in SameSignature
    BY <1>1, <1>2 DEF SignatureOf
<1>4. CapabilitySignature(Snapshot(p[1], p[2], NoIO)) = CapabilitySignature(Snapshot(r, s, NoIO))
    <2> DEFINE w == <<p, <<r, s>>>>
    <2>1. w \in SameSignature /\ w[1] = p /\ w[2][1] = r /\ w[2][2] = s
        BY <1>3
    <2> HIDE DEF w
    <2>2. CapabilitySignature(Snapshot(w[1][1], w[1][2], NoIO))
            = CapabilitySignature(Snapshot(w[2][1], w[2][2], NoIO))
        BY <2>1 DEF SameSignature
    <2> QED BY <2>1, <2>2
<1> QED BY <1>3, <1>4

LEMMA SignaturesDiffer ==
    ASSUME NEW r \in Room, NEW s \in Seasons, NEW q \in Room, NEW u \in Seasons,
           SignatureOf(r, s) = SignatureOf(q, u)
    PROVE  /\ s = u
           /\ r = "none" <=> q = "none"
           /\ r = "light" <=> q = "light"
<1> DEFINE A == Snapshot(r, s, NoIO)
           B == Snapshot(q, u, NoIO)
<1>1. s \in Season /\ u \in Season
    BY DEF Season, Seasons
<1>2. CapabilitySignature(A) = CapabilitySignature(B)
    BY <1>1, SignatureNames
<1>3. /\ DOMAIN A.rooms = IF r = "none" THEN {} ELSE {"room"}
      /\ DOMAIN B.rooms = IF q = "none" THEN {} ELSE {"room"}
      /\ r # "none" => (A.rooms["room"].hasLight <=> r = "light")
      /\ q # "none" => (B.rooms["room"].hasLight <=> q = "light")
      /\ IsSystemCooling(A) <=> s = "cooling"
      /\ IsSystemCooling(B) <=> u = "cooling"
    BY SnapshotHas
<1> HIDE DEF A, B
<1>4. (IF IsSystemCooling(A) THEN "C" ELSE "H") = (IF IsSystemCooling(B) THEN "C" ELSE "H")
    BY <1>2 DEF CapabilitySignature
<1>5. [x \in DOMAIN A.rooms |-> RoomSignature(A.rooms[x])]
        = [x \in DOMAIN B.rooms |-> RoomSignature(B.rooms[x])]
    BY <1>2 DEF CapabilitySignature
<1>6. DOMAIN A.rooms = DOMAIN B.rooms
    BY <1>5
<1>7. \A x \in DOMAIN A.rooms : RoomSignature(A.rooms[x]) = RoomSignature(B.rooms[x])
    BY <1>5, <1>6
<1>8. r = "none" <=> q = "none"
    BY <1>3, <1>6
<1>9. r # "none" => (A.rooms["room"].hasLight <=> B.rooms["room"].hasLight)
    BY <1>3, <1>7 DEF RoomSignature
<1>10. s = u
    BY <1>3, <1>4 DEF Seasons
<1> QED BY <1>3, <1>8, <1>9, <1>10

LEMMA UnpublishedIsNone ==
    ASSUME NEW r \in Room, NEW s \in Season
    PROVE  SignatureOf(r, s) # Unpublished
BY SignatureNames DEF Stores, Room, Unpublished

-----------------------------------------------------------------------------
(* What the steps of the broker do to a topic: q is kept by the client, the *)
(* broker has taken n of it, and shows d.                                  *)

LEMMA Joined ==
    ASSUME NEW M, NEW a \in Seq(M), NEW b \in Seq(M), NEW q \in Seq(M),
           Len(q) = Len(a) + Len(b),
           \A i \in 1..Len(a) : a[i] = q[i],
           \A i \in 1..Len(b) : b[i] = q[Len(a) + i]
    PROVE  a \o b = q
<1>1. /\ a \o b \in Seq(M) /\ Len(a \o b) = Len(q)
      /\ Len(a) \in Nat /\ Len(b) \in Nat
    OBVIOUS
<1>2. ASSUME NEW i \in 1..Len(q) PROVE (a \o b)[i] = q[i]
    <2>1. CASE i <= Len(a)
        BY <1>1, <2>1
    <2>2. CASE i > Len(a)
        <3>1. i - Len(a) \in 1..Len(b) /\ Len(a) + (i - Len(a)) = i
            BY <1>1, <2>2
        <3>2. (a \o b)[i] = b[i - Len(a)]
            BY <1>1, <2>2
        <3> QED BY <3>1, <3>2
    <2> QED BY <1>1, <2>1, <2>2
<1> QED BY <1>1, <1>2, SeqEqual

LEMMA Cut ==
    ASSUME NEW q \in Seq(Message), NEW n \in 0..Len(q)
    PROVE  /\ SubSeq(q, 1, n) \in Seq(Message)
           /\ SubSeq(q, n + 1, Len(q)) \in Seq(Message)
           /\ q = SubSeq(q, 1, n) \o SubSeq(q, n + 1, Len(q))
<1> DEFINE a == SubSeq(q, 1, n)
           b == SubSeq(q, n + 1, Len(q))
<1>1. /\ a \in Seq(Message) /\ Len(a) = n /\ \A i \in 1..n : a[i] = q[i]
      /\ b \in Seq(Message) /\ Len(b) = Len(q) - n /\ \A i \in 1..(Len(q) - n) : b[i] = q[n + i]
    OBVIOUS
<1> HIDE DEF a, b
<1>2. Len(q) = Len(a) + Len(b)
    <2>1. Len(q) \in Nat /\ n \in Nat
        OBVIOUS
    <2> QED BY <1>1, <2>1
<1>3. /\ \A i \in 1..Len(a) : a[i] = q[i]
      /\ \A i \in 1..Len(b) : b[i] = q[Len(a) + i]
    BY <1>1
<1>4. a \o b = q
    BY Zenon, <1>1, <1>2, <1>3, Joined
<1> QED BY <1>1, <1>4 DEF a, b

LEMMA CutNext ==
    ASSUME NEW q \in Seq(Message), NEW n \in Nat, n < Len(q)
    PROVE  /\ q[n + 1] \in Message
           /\ SubSeq(q, 1, n + 1) = SubSeq(q, 1, n) \o <<q[n + 1]>>
<1> DEFINE a == SubSeq(q, 1, n)
           b == SubSeq(q, 1, n + 1)
           c == <<q[n + 1]>>
<1>1. q[n + 1] \in Message
    OBVIOUS
<1>2. /\ a \in Seq(Message) /\ Len(a) = n /\ \A i \in 1..n : a[i] = q[i]
      /\ b \in Seq(Message) /\ Len(b) = n + 1 /\ \A i \in 1..(n + 1) : b[i] = q[i]
      /\ c \in Seq(Message) /\ Len(c) = 1 /\ c[1] = q[n + 1]
    BY <1>1
<1>3. /\ \A i \in 1..Len(a) : a[i] = b[i]
      /\ \A i \in 1..Len(c) : c[i] = b[Len(a) + i]
      /\ Len(b) = Len(a) + Len(c)
    BY <1>2
<1> HIDE DEF a, b, c
<1>4. a \o c = b
    BY <1>2, <1>3, Joined
<1> QED BY <1>1, <1>4 DEF a, b, c

\* What the broker shows on t once it has taken message m.
Told(m, d, t) == IF m.topic = t THEN m.payload ELSE d

LEMMA BrokerTakesNext ==
    ASSUME NEW q \in Seq(Message), NEW n \in Nat, n < Len(q), NEW t, NEW d
    PROVE  LET e == Told(q[n + 1], d, t)
           IN  /\ LastOf(SubSeq(q, 1, n), d, t) = d => LastOf(SubSeq(q, 1, n + 1), e, t) = e
               /\ LastOf(SubSeq(q, 1, n), d, t) = d => LastOf(q, e, t) = LastOf(q, d, t)
               /\ q[n + 1].topic = t => LastOf(SubSeq(q, 1, n + 1), e, t) = e
               /\ q[n + 1].topic = t => LastOf(q, e, t) = LastOf(q, d, t)
<1> DEFINE e == Told(q[n + 1], d, t)
<1>0. /\ q[n + 1].topic = t => e = q[n + 1].payload
      /\ q[n + 1].topic # t => e = d
    BY DEF Told
<1> HIDE DEF e
<1> DEFINE a == SubSeq(q, 1, n)
           b == SubSeq(q, 1, n + 1)
           z == SubSeq(q, n + 2, Len(q))
           c == <<q[n + 1]>>
<1>1. a \in Seq(Message) /\ b \in Seq(Message) /\ z \in Seq(Message) /\ c \in Seq(Message)
    BY Cut, CutNext
<1>2. b = a \o c
    BY CutNext
<1>3. q = b \o z
    <2>1. n + 1 \in 0..Len(q) /\ n + 1 + 1 = n + 2
        OBVIOUS
    <2>2. q = SubSeq(q, 1, n + 1) \o SubSeq(q, n + 1 + 1, Len(q))
        BY <2>1, Cut
    <2> QED BY <2>1, <2>2
<1>4. ASSUME NEW x
      PROVE  /\ q[n + 1].topic = t => LastOf(c, x, t) = q[n + 1].payload
             /\ q[n + 1].topic # t => LastOf(c, x, t) = x
    <2>1. LastOf(<<q[n + 1]>>, x, t) = IF q[n + 1].topic = t THEN q[n + 1].payload ELSE x
        BY LastOfOne
    <2> QED BY <2>1
<1> HIDE DEF a, b, c, z
<1>5. ASSUME NEW x
      PROVE  LastOf(b, x, t) = LastOf(c, LastOf(a, x, t), t)
    BY <1>1, <1>2, LastOfConcat
<1>6. ASSUME NEW x
      PROVE  LastOf(q, x, t) = LastOf(z, LastOf(b, x, t), t)
    BY <1>1, <1>3, LastOfConcat
<1>7. /\ LastOf(a, d, t) = d => LastOf(b, e, t) = e
      /\ LastOf(a, d, t) = d => LastOf(q, e, t) = LastOf(q, d, t)
      /\ q[n + 1].topic = t => LastOf(b, e, t) = e
      /\ q[n + 1].topic = t => LastOf(q, e, t) = LastOf(q, d, t)
    <2>1. CASE q[n + 1].topic = t
        <3>1. LastOf(b, e, t) = e /\ LastOf(b, d, t) = e
            BY <1>0, <1>4, <1>5, <2>1
        <3> QED BY <1>6, <2>1, <3>1
    <2>2. CASE q[n + 1].topic # t
        <3>1. e = d /\ LastOf(b, d, t) = LastOf(a, d, t)
            BY <1>0, <1>4, <1>5, <2>2
        <3> QED BY <2>2, <3>1
    <2> QED BY <2>1, <2>2
<1> QED BY <1>7 DEF a, b, e

LEMMA HeadAndTail ==
    ASSUME NEW q \in Seq(Message), NEW n \in 1..Len(q)
    PROVE  /\ Head(q) \in Message /\ Tail(q) \in Seq(Message)
           /\ q = <<Head(q)>> \o Tail(q)
           /\ SubSeq(q, 1, n) = <<Head(q)>> \o SubSeq(Tail(q), 1, n - 1)
           /\ n - 1 \in 0..Len(Tail(q))
<1> DEFINE h == <<Head(q)>>
           l == Tail(q)
           a == SubSeq(q, 1, n)
           b == SubSeq(Tail(q), 1, n - 1)
<1>1. /\ Head(q) \in Message /\ Head(q) = q[1]
      /\ l \in Seq(Message) /\ Len(l) = Len(q) - 1 /\ \A i \in 1..(Len(q) - 1) : l[i] = q[i + 1]
    OBVIOUS
<1>2. h \in Seq(Message) /\ Len(h) = 1 /\ h[1] = q[1]
    BY <1>1
<1>3. a \in Seq(Message) /\ Len(a) = n /\ \A i \in 1..n : a[i] = q[i]
    OBVIOUS
<1>4. n - 1 \in 0..Len(l)
    BY <1>1
<1>5. b \in Seq(Message) /\ Len(b) = n - 1 /\ \A i \in 1..(n - 1) : b[i] = l[i]
    BY <1>1, <1>4
<1> HIDE DEF h, l, a, b
<1>6. h \o l = q
    <2>1. /\ Len(q) = Len(h) + Len(l)
          /\ \A i \in 1..Len(h) : h[i] = q[i]
          /\ \A i \in 1..Len(l) : l[i] = q[Len(h) + i]
        BY <1>1, <1>2
    <2> QED BY <1>1, <1>2, <2>1, Joined
<1>7. h \o b = a
    <2>1. /\ Len(a) = Len(h) + Len(b)
          /\ \A i \in 1..Len(h) : h[i] = a[i]
          /\ \A i \in 1..Len(b) : b[i] = a[Len(h) + i]
        BY <1>1, <1>2, <1>3, <1>5
    <2> QED BY <1>2, <1>3, <1>5, <2>1, Joined
<1> QED BY <1>1, <1>4, <1>6, <1>7 DEF h, l, a, b

LEMMA AcknowledgedFirst ==
    ASSUME NEW q \in Seq(Message), NEW n \in 1..Len(q), NEW t, NEW d,
           LastOf(SubSeq(q, 1, n), d, t) = d
    PROVE  /\ LastOf(SubSeq(Tail(q), 1, n - 1), d, t) = d
           /\ LastOf(Tail(q), d, t) = LastOf(q, d, t)
<1> DEFINE h == <<Head(q)>>
           l == Tail(q)
           b == SubSeq(l, 1, n - 1)
           z == SubSeq(l, n, Len(l))
<1>1. /\ h \in Seq(Message) /\ l \in Seq(Message) /\ n - 1 \in 0..Len(l)
      /\ q = h \o l /\ SubSeq(q, 1, n) = h \o b
    BY HeadAndTail
<1>2. b \in Seq(Message) /\ z \in Seq(Message) /\ l = b \o z
    <2>1. (n - 1) + 1 = n
        OBVIOUS
    <2> QED BY <1>1, <2>1, Cut
<1> DEFINE x == LastOf(h, d, t)
<1> HIDE DEF h, l, b, z
<1>3. LastOf(b, x, t) = d
    <2>1. LastOf(h \o b, d, t) = LastOf(b, LastOf(h, d, t), t)
        BY <1>1, <1>2, LastOfConcat
    <2> QED BY <1>1, <2>1
<1>4. LastOf(b, d, t) = d
    BY <1>3, Dichotomy
<1>5. LastOf(l, d, t) = LastOf(z, d, t) /\ LastOf(l, x, t) = LastOf(z, d, t)
    <2>1. LastOf(b \o z, d, t) = LastOf(z, LastOf(b, d, t), t)
        BY <1>2, LastOfConcat
    <2>2. LastOf(b \o z, x, t) = LastOf(z, LastOf(b, x, t), t)
        BY <1>2, LastOfConcat
    <2> QED BY <1>2, <1>3, <1>4, <2>1, <2>2
<1>6. LastOf(q, d, t) = LastOf(l, x, t)
    BY <1>1, LastOfConcat
<1> QED BY <1>4, <1>5, <1>6 DEF l, b

\* A message that says what the broker shows anyway may go.
LEMMA AcknowledgedSame ==
    ASSUME NEW q \in Seq(Message), Len(q) > 0, NEW t, NEW d, LastOf(q, d, t) = d
    PROVE  LastOf(Tail(q), d, t) = d
<1> DEFINE h == <<Head(q)>>
           l == Tail(q)
           x == LastOf(h, d, t)
<1>1. h \in Seq(Message) /\ l \in Seq(Message) /\ q = h \o l
    <2>1. 1 \in 1..Len(q)
        OBVIOUS
    <2> QED BY <2>1, HeadAndTail
<1> HIDE DEF h, l
<1>2. LastOf(q, d, t) = LastOf(l, x, t)
    BY <1>1, LastOfConcat
<1>3. LastOf(l, d, t) = d
    BY <1>2, Dichotomy
<1> QED BY <1>3 DEF l

-----------------------------------------------------------------------------
(* The invariant.                                                          *)

\* What the broker has taken of the kept messages on a topic is what it shows.
Shown(t) == LastOf(SubSeq(outbox, 1, sent), retained[t], t) = retained[t]

\* Availability may have been overwritten since, by a will.
InStep ==
    /\ \A t \in {"room", "climate", "light"} : Shown(t)
    /\ retained.availability = "offline" \/ Shown("availability")

\* While a shutdown lasts, "offline" is the last word on availability.
Farewell == proc = "stopping" => Delivered("availability") = "offline"

\* Nothing is under way for a process that is gone.
AtRest == proc \in {"dead", "ended"} => link = "down" /\ outbox = <<>> /\ sent = 0

\* Whenever the bridge is shown as available a session is open, or the broker
\* has a will to publish; of a process that died, one of a past session.
Watched ==
    /\ retained.availability = "online" => link = "up" \/ ownWill \/ oldWill
    /\ proc = "dead" => ~ownWill

\* The signature is that of a room and season whose entities are on their way.
Announces ==
    proc = "running" =>
        \/ signature = Unpublished
        \/ \E r \in Room, s \in Seasons :
              /\ signature = SignatureOf(r, s)
              /\ r # "none" => Delivered("climate") = s
              /\ r = "light" => Delivered("light") = TRUE

\* A polled room is on its way, greeted or not, and its signature is the last.
RoomSent ==
    proc = "running" /\ room \in {"plain", "light"} =>
        /\ signature = SignatureOf(room, season)
        /\ Delivered("room") = room

HomeInv ==
    /\ TypeOK
    /\ season \in Seasons
    /\ InStep
    /\ Farewell
    /\ EndedIsOffline
    /\ AtRest
    /\ Watched
    /\ Announces
    /\ RoomSent

-----------------------------------------------------------------------------
(* Types.                                                                  *)

LEMMA InitTypes == Init => TypeOK /\ season \in Seasons
<1> SUFFICES ASSUME Init PROVE TypeOK /\ season \in Seasons
    OBVIOUS
<1>1. retained \in Retained
    BY DEF Init, Retained, Availability, Room, Season
<1>2. outbox \in Seq(Message) /\ sent \in 0..Len(outbox)
    BY DEF Init
<1>3. changes \in 0..MaxChanges /\ crashes \in 0..MaxCrashes /\ drops \in 0..MaxDrops
    BY HomeAssistantAssumption DEF Init
<1>4. signature \in {Unpublished} \cup {SignatureOf(r, s) : r \in Room, s \in Season}
    BY DEF Init
<1>5. room \in Room /\ season \in Season /\ season \in Seasons
    BY DEF Init, Room, Season, Seasons
<1>6. /\ reachable \in BOOLEAN /\ parity \in BOOLEAN /\ greeted \in BOOLEAN
      /\ ownWill \in BOOLEAN /\ oldWill \in BOOLEAN
    BY DEF Init
<1>7. proc \in {"running", "stopping", "ended", "dead"} /\ link \in {"up", "down"}
    BY DEF Init
<1> QED BY <1>1, <1>2, <1>3, <1>4, <1>5, <1>6, <1>7 DEF TypeOK

LEMMA DiscoveryMessages ==
    ASSUME NEW r \in Room, NEW s \in Season
    PROVE  PublishHaDiscovery(r, s) \in Seq(Message)
BY DiscoverySays

LEMMA Messages ==
    /\ Online(TRUE) \in Seq(Message) /\ Online(FALSE) \in Seq(Message)
    /\ \A r \in Room : RoomMessage(r) \in Seq(Message)
<1>1. TRUE \in BOOLEAN /\ FALSE \in BOOLEAN
    OBVIOUS
<1>2. Online(TRUE) \in Seq(Message)
    BY <1>1, OnlineMessage
<1>3. Online(FALSE) \in Seq(Message)
    BY <1>1, OnlineMessage
<1> QED BY <1>2, <1>3, RoomMessageSays

\* What a poll publishes is made of messages.
LEMMA PolledMessages ==
    ASSUME NEW r \in Room, NEW s \in Season, NEW b \in BOOLEAN
    PROVE  /\ SetReachable(b) \in Seq(Message)
           /\ RoomMessage(r) \o PublishHaDiscovery(r, s) \o SetReachable(b) \in Seq(Message)
           /\ PublishHaDiscovery(r, s) \o SetReachable(b) \in Seq(Message)
           /\ PublishHaDiscovery(r, s) \o (IF r = "none" THEN <<>> ELSE RoomMessage(r)) \in Seq(Message)
<1>1. SetReachable(b) \in Seq(Message)
    BY OnlineMessage DEF SetReachable
<1>2. PublishHaDiscovery(r, s) \in Seq(Message) /\ RoomMessage(r) \in Seq(Message)
    BY DiscoveryMessages, Messages
<1> DEFINE p == PublishHaDiscovery(r, s)
           m == RoomMessage(r)
           o == SetReachable(b)
<1> HIDE DEF p, m, o
<1>3. p \in Seq(Message) /\ m \in Seq(Message) /\ o \in Seq(Message)
    BY <1>1, <1>2 DEF p, m, o
<1>4. /\ o \in Seq(Message) /\ m \o p \o o \in Seq(Message) /\ p \o o \in Seq(Message)
      /\ p \o (IF r = "none" THEN <<>> ELSE m) \in Seq(Message)
    BY <1>3
<1> QED BY <1>4 DEF p, m, o

\* Polls and publishCurrent() leave all but the Store, the signature and the
\* kept messages alone.
OthersUnchanged == UNCHANGED <<proc, link, sent, brokerVars, faultVars>>

LEMMA Publishes ==
    ASSUME TypeOK, season \in Seasons, Polls \/ Greet
    PROVE  OthersUnchanged /\ \E ms \in Seq(Message) : Publish(ms)
<1>0. /\ season \in Season /\ TRUE \in BOOLEAN /\ FALSE \in BOOLEAN /\ "blank" \in Room
      /\ room \in Room
    BY DEF TypeOK, Season, Seasons, Room
<1>1. CASE PollFails
    <2>1. Publish(SetReachable(FALSE)) /\ OthersUnchanged
        BY <1>1 DEF PollFails, OthersUnchanged
    <2> QED BY <1>0, <2>1, PolledMessages
<1>2. CASE PollConfirms
    <2>1. Publish(SetReachable(TRUE)) /\ OthersUnchanged
        BY <1>2 DEF PollConfirms, OthersUnchanged
    <2> QED BY <1>0, <2>1, PolledMessages
<1>3. CASE RoomListed
    <2> DEFINE ms == RoomMessage("blank") \o PublishHaDiscovery("blank", season) \o SetReachable(TRUE)
    <2>1. OthersUnchanged /\ (Publish(ms) \/ Publish(SetReachable(TRUE)))
        BY <1>3 DEF RoomListed, OthersUnchanged
    <2>2. ms \in Seq(Message) /\ SetReachable(TRUE) \in Seq(Message)
        BY <1>0, PolledMessages
    <2> HIDE DEF ms
    <2> QED BY <2>1, <2>2
<1>4. ASSUME NEW r \in {"plain", "light"}, RoomPolled(r)
      PROVE  OthersUnchanged /\ \E ms \in Seq(Message) : Publish(ms)
    <2> DEFINE ms == RoomMessage(r) \o PublishHaDiscovery(r, season) \o SetReachable(TRUE)
    <2>1. OthersUnchanged /\ Publish(ms)
        BY <1>4 DEF RoomPolled, OthersUnchanged
    <2>2. r \in Room
        BY DEF Room
    <2>3. ms \in Seq(Message)
        BY <1>0, <2>2, PolledMessages
    <2> HIDE DEF ms
    <2> QED BY <2>1, <2>3
<1>5. ASSUME NEW s \in {"heating", "cooling"}, SeasonPolled(s)
      PROVE  OthersUnchanged /\ \E ms \in Seq(Message) : Publish(ms)
    <2> DEFINE ms == PublishHaDiscovery(room, s) \o SetReachable(TRUE)
    <2>1. OthersUnchanged /\ Publish(ms)
        BY <1>5 DEF SeasonPolled, OthersUnchanged
    <2>2. s \in Season
        BY DEF Season
    <2>3. ms \in Seq(Message)
        BY <1>0, <2>2, PolledMessages
    <2> HIDE DEF ms
    <2> QED BY <2>1, <2>3
<1>6. CASE Greet
    <2> DEFINE ms == PublishHaDiscovery(room, season)
                        \o (IF room = "none" THEN <<>> ELSE RoomMessage(room))
    <2>1. OthersUnchanged /\ Publish(ms)
        BY <1>6 DEF Greet, OthersUnchanged
    <2>2. ms \in Seq(Message)
        BY <1>0, PolledMessages
    <2> HIDE DEF ms
    <2> QED BY <2>1, <2>2
<1> QED BY <1>1, <1>2, <1>3, <1>4, <1>5, <1>6 DEF Polls

\* publish() keeps messages in their order, and what was taken stays taken.
LEMMA PublishTypes ==
    ASSUME outbox \in Seq(Message), sent \in 0..Len(outbox),
           NEW ms \in Seq(Message), Publish(ms), sent' = sent
    PROVE  outbox' \in Seq(Message) /\ sent' \in 0..Len(outbox')
<1>1. /\ outbox \o ms \in Seq(Message)
      /\ Len(outbox \o ms) = Len(outbox) + Len(ms)
      /\ Len(outbox) \in Nat /\ Len(ms) \in Nat
    OBVIOUS
<1>2. CASE outbox' = outbox \o ms
    <2> DEFINE c == outbox \o ms
    <2>1. c \in Seq(Message) /\ sent \in 0..Len(c)
        BY <1>1
    <2> HIDE DEF c
    <2>2. outbox' = c
        BY <1>2 DEF c
    <2> QED BY <2>1, <2>2
<1>3. CASE outbox' = outbox
    BY <1>3
<1> QED BY <1>2, <1>3 DEF Publish

LEMMA StoreTypes ==
    ASSUME TypeOK, season \in Seasons, Polls \/ Greet
    PROVE  TypeOK' /\ (season \in Seasons)'
<1>0. /\ season \in Season /\ "blank" \in Room /\ "plain" \in Room /\ "light" \in Room
      /\ "heating" \in Season /\ "cooling" \in Season
      /\ "heating" \in Seasons /\ "cooling" \in Seasons
      /\ room \in Room /\ changes \in 0..MaxChanges /\ MaxChanges \in Nat
      /\ reachable \in BOOLEAN /\ parity \in BOOLEAN /\ greeted \in BOOLEAN
    BY HomeAssistantAssumption DEF TypeOK, Season, Seasons, Room
<1> DEFINE sigs == {Unpublished} \cup {SignatureOf(r, s) : r \in Room, s \in Season}
<1>1. \A r \in Room, s \in Season : SignatureOf(r, s) \in sigs
    OBVIOUS
<1>2. signature \in sigs
    BY DEF TypeOK
<1> HIDE DEF sigs
<1>3. /\ (outbox \in Seq(Message) /\ sent \in 0..Len(outbox))'
      /\ OthersUnchanged
    <2>1. /\ OthersUnchanged
          /\ \E ms \in Seq(Message) : Publish(ms)
        BY Publishes
    <2>2. PICK ms \in Seq(Message) : Publish(ms)
        BY <2>1
    <2>3. outbox \in Seq(Message) /\ sent \in 0..Len(outbox) /\ sent' = sent
        BY <2>1 DEF TypeOK, OthersUnchanged
    <2> QED BY <2>1, <2>2, <2>3, PublishTypes
<1> DEFINE Goal == /\ (season \in Seasons /\ season \in Season /\ room \in Room)'
                   /\ (reachable \in BOOLEAN /\ parity \in BOOLEAN /\ greeted \in BOOLEAN)'
                   /\ signature' \in sigs
                   /\ changes' \in 0..MaxChanges
<1>4. ASSUME PollFails \/ PollConfirms PROVE Goal
    BY <1>0, <1>2, <1>4 DEF PollFails, PollConfirms, PollEnds, bridgeVars
<1>5. ASSUME RoomListed PROVE Goal
    BY <1>0, <1>1, <1>2, <1>5 DEF RoomListed, PollEnds, Announced
<1>6. ASSUME NEW r \in {"plain", "light"}, RoomPolled(r) PROVE Goal
    <2>1. changes' \in 0..MaxChanges
        BY <1>0, <1>6 DEF RoomPolled
    <2> QED BY <1>0, <1>1, <1>6, <2>1 DEF RoomPolled, PollEnds, Announced
<1>7. ASSUME NEW s \in {"heating", "cooling"}, SeasonPolled(s) PROVE Goal
    <2>1. changes' \in 0..MaxChanges
        BY <1>0, <1>7 DEF SeasonPolled
    <2> QED BY <1>0, <1>1, <1>7, <2>1 DEF SeasonPolled, PollEnds, Announced
<1>8. ASSUME Greet PROVE Goal
    BY <1>0, <1>1, <1>8 DEF Greet, Announced, storeVars
<1>9. Goal
    <2> HIDE DEF Goal
    <2> QED BY <1>4, <1>5, <1>6, <1>7, <1>8 DEF Polls
<1> HIDE DEF Goal
<1>10. TypeOK'
    BY <1>3, <1>9 DEF TypeOK, OthersUnchanged, brokerVars, faultVars, Goal, sigs
<1> QED BY <1>9, <1>10 DEF Goal

LEMMA OffRetained ==
    ASSUME retained \in Retained
    PROVE  [retained EXCEPT !.availability = "offline"] \in Retained
BY DEF Retained, Availability

LEMMA TakenRetained ==
    ASSUME retained \in Retained, NEW m \in Message
    PROVE  [retained EXCEPT ![m.topic] = m.payload] \in Retained
<1>1. CASE m \in [topic: {"availability"}, payload : Availability]
    BY <1>1 DEF Retained
<1>2. CASE m \in [topic: {"room"}, payload: Room]
    BY <1>2 DEF Retained
<1>3. CASE m \in [topic: {"climate"}, payload: Season]
    BY <1>3 DEF Retained
<1>4. CASE m \in [topic: {"light"}, payload: BOOLEAN]
    BY <1>4 DEF Retained
<1> QED BY <1>1, <1>2, <1>3, <1>4 DEF Message

LEMMA StepTypes ==
    ASSUME TypeOK, season \in Seasons, [Next]_vars
    PROVE  TypeOK' /\ (season \in Seasons)'
<1>0. /\ season \in Season /\ TRUE \in BOOLEAN /\ FALSE \in BOOLEAN
    BY DEF Season, Seasons
<1>1. CASE Polls \/ Greet
    BY <1>1, StoreTypes
<1>3. CASE Connect
    <2>1. (outbox \in Seq(Message) /\ sent \in 0..Len(outbox))'
        <3> DEFINE m == Online(TRUE)
        <3>1. m \in Seq(Message)
            BY Messages
        <3>2. outbox' = outbox \o m /\ sent' = 0
            BY <1>3 DEF Connect, Publish
        <3>3. outbox \in Seq(Message)
            BY DEF TypeOK
        <3> HIDE DEF m
        <3> QED BY <3>1, <3>2, <3>3
    <2>2. (retained \in Retained)'
        BY <1>3, OffRetained DEF TypeOK, Connect
    <2>3. (link \in {"up", "down"})' /\ (ownWill \in BOOLEAN)'
        BY <1>3 DEF Connect
    <2>4. UNCHANGED <<proc, bridgeVars, storeVars, oldWill, faultVars>>
        BY <1>3 DEF Connect
    <2> QED BY <2>1, <2>2, <2>3, <2>4 DEF TypeOK, bridgeVars, storeVars, faultVars
<1>4. CASE LinkDrops
    BY <1>4, HomeAssistantAssumption DEF TypeOK, LinkDrops, bridgeVars, storeVars
<1>5. CASE BrokerTakes
    <2>1. outbox[sent + 1] \in Message /\ sent + 1 \in 0..Len(outbox)
        BY <1>5 DEF TypeOK, BrokerTakes
    <2>2. (retained \in Retained)'
        <3> DEFINE m == outbox[sent + 1]
        <3>1. retained' = [retained EXCEPT ![m.topic] = m.payload] /\ m \in Message
            BY <1>5, <2>1 DEF BrokerTakes
        <3> HIDE DEF m
        <3>2. retained \in Retained
            BY DEF TypeOK
        <3> QED BY <3>1, <3>2, TakenRetained
    <2> QED BY <1>5, <2>1, <2>2 DEF TypeOK, BrokerTakes, bridgeVars, storeVars, faultVars
<1>6. CASE Acknowledged
    <2>1. Tail(outbox) \in Seq(Message) /\ sent - 1 \in 0..Len(Tail(outbox))
        BY <1>6, HeadAndTail DEF TypeOK, Acknowledged
    <2> QED BY <1>6, <2>1 DEF TypeOK, Acknowledged, bridgeVars, storeVars, brokerVars, faultVars
<1>7. CASE WillPublished
    <2>1. (retained \in Retained)'
        BY <1>7, OffRetained DEF TypeOK, WillPublished
    <2>3. (ownWill \in BOOLEAN)' /\ (oldWill \in BOOLEAN)'
        <3>1. ownWill \in BOOLEAN /\ oldWill \in BOOLEAN
            BY DEF TypeOK
        <3>2. (ownWill' = FALSE /\ oldWill' = oldWill) \/ (oldWill' = FALSE /\ ownWill' = ownWill)
            BY <1>7 DEF WillPublished
        <3> QED BY <3>1, <3>2
    <2>2. UNCHANGED <<proc, clientVars, bridgeVars, storeVars, faultVars>>
        BY <1>7 DEF WillPublished
    <2> QED BY <2>1, <2>2, <2>3 DEF TypeOK, clientVars, bridgeVars, storeVars, faultVars
<1>8. CASE Shutdown
    <2>1. (outbox \in Seq(Message) /\ sent \in 0..Len(outbox))'
        <3> DEFINE m == Online(FALSE)
        <3>1. m \in Seq(Message)
            BY Messages
        <3>2. outbox' = outbox \o m /\ sent' = sent
            BY <1>8 DEF Shutdown
        <3>3. outbox \in Seq(Message) /\ sent \in 0..Len(outbox)
            BY DEF TypeOK
        <3> HIDE DEF m
        <3>4. Len(outbox \o m) = Len(outbox) + Len(m) /\ outbox \o m \in Seq(Message)
            BY <3>1, <3>3
        <3> QED BY <3>1, <3>2, <3>3, <3>4
    <2>2. (crashes \in 0..MaxCrashes)'
        BY <1>8, HomeAssistantAssumption DEF TypeOK, Shutdown
    <2>3. proc' = "stopping" /\ UNCHANGED <<link, sent, bridgeVars, storeVars, brokerVars, drops>>
        BY <1>8 DEF Shutdown
    <2> QED BY <2>1, <2>2, <2>3 DEF TypeOK, bridgeVars, storeVars, brokerVars
<1>9. CASE Goodbye
    BY <1>9 DEF TypeOK, Goodbye, bridgeVars, storeVars, brokerVars, faultVars
<1>10. CASE Dies
    <2>1. (outbox \in Seq(Message) /\ sent \in 0..Len(outbox))'
        BY <1>10 DEF Dies
    <2>2. (crashes \in 0..MaxCrashes)'
        BY <1>10, HomeAssistantAssumption DEF TypeOK, Dies
    <2>3. (ownWill \in BOOLEAN)' /\ (oldWill \in BOOLEAN)'
        BY <1>10 DEF TypeOK, Dies
    <2> QED BY <1>10, <2>1, <2>2, <2>3 DEF TypeOK, Dies, bridgeVars, storeVars
<1>11. CASE Restart
    <2>1. /\ "none" \in Room /\ "heating" \in Season /\ "heating" \in Seasons
        BY DEF Room, Season, Seasons
    <2>2. /\ (reachable \in BOOLEAN)' /\ (parity \in BOOLEAN)' /\ (greeted \in BOOLEAN)'
          /\ (room \in Room)' /\ (season \in Season)' /\ (season \in Seasons)'
        BY <1>11, <2>1 DEF Restart
    <2>3. (signature \in {Unpublished} \cup {SignatureOf(r, s) : r \in Room, s \in Season})'
        BY <1>11 DEF Restart
    <2>4. proc' = "running" /\ UNCHANGED <<clientVars, brokerVars, changes, faultVars>>
        BY <1>11 DEF Restart
    <2> QED BY <2>2, <2>3, <2>4 DEF TypeOK, clientVars, brokerVars, faultVars
<1>12. CASE UNCHANGED vars
    BY <1>12 DEF TypeOK, vars, clientVars, bridgeVars, storeVars, brokerVars, faultVars
<1> QED
    BY <1>1, <1>3, <1>4, <1>5, <1>6, <1>7, <1>8, <1>9, <1>10, <1>11, <1>12 DEF Next

-----------------------------------------------------------------------------
(* Publishing preserves the invariant.                                     *)

LEMMA DeliveredNext == \A t : Delivered(t)' = LastOf(outbox', retained'[t], t)
BY DEF Delivered, LastOf, On

LEMMA PublishedLast ==
    ASSUME outbox \in Seq(Message), NEW ms \in Seq(Message), outbox' = outbox \o ms,
           NEW t, retained'[t] = retained[t]
    PROVE  Delivered(t)' = LastOf(ms, Delivered(t), t)
<1>1. LastOf(outbox \o ms, retained[t], t) = LastOf(ms, LastOf(outbox, retained[t], t), t)
    BY LastOfConcat
<1>2. Delivered(t)' = LastOf(outbox \o ms, retained[t], t)
    BY DeliveredNext
<1>3. Delivered(t) = LastOf(outbox, retained[t], t)
    BY DeliveredIsLast
<1> QED BY <1>1, <1>2, <1>3

\* What was taken is not changed by what comes after it.
LEMMA TakenStays ==
    ASSUME NEW q \in Seq(Message), NEW ms \in Seq(Message), NEW n \in 0..Len(q)
    PROVE  SubSeq(q \o ms, 1, n) = SubSeq(q, 1, n)
<1> DEFINE c == q \o ms
           a == SubSeq(c, 1, n)
           b == SubSeq(q, 1, n)
<1>1. /\ c \in Seq(Message) /\ Len(c) = Len(q) + Len(ms)
      /\ Len(q) \in Nat /\ Len(ms) \in Nat /\ n \in Nat
      /\ \A i \in 1..Len(q) : c[i] = q[i]
    OBVIOUS
<1> HIDE DEF c
<1>2. a \in Seq(Message) /\ Len(a) = n /\ \A i \in 1..n : a[i] = c[i]
    BY <1>1
<1>3. b \in Seq(Message) /\ Len(b) = n /\ \A i \in 1..n : b[i] = q[i]
    BY <1>1
<1> HIDE DEF a, b
<1>4. \A i \in 1..n : a[i] = b[i]
    BY <1>1, <1>2, <1>3
<1>5. a = b
    BY <1>2, <1>3, <1>4, SeqEqual
<1> QED BY <1>5 DEF a, b, c

LEMMA InStepAfterPublish ==
    ASSUME TypeOK, InStep, NEW ms \in Seq(Message), Publish(ms) \/ outbox' = outbox \o ms,
           sent' = sent, retained' = retained
    PROVE  InStep'
<1>1. outbox \in Seq(Message) /\ sent \in 0..Len(outbox)
    BY DEF TypeOK
<1>2. SubSeq(outbox', 1, sent') = SubSeq(outbox, 1, sent)
    <2>1. CASE outbox' = outbox
        BY <2>1
    <2>2. CASE outbox' = outbox \o ms
        BY <1>1, <2>2, TakenStays
    <2> QED BY <2>1, <2>2 DEF Publish
<1>3. \A t : Shown(t) => Shown(t)'
    BY <1>2 DEF Shown
<1> QED BY <1>3 DEF InStep

\* Discovery does not touch the topic of the room.
LEMMA DiscoveryElsewhere ==
    ASSUME NEW r \in Room, NEW s \in Season, NEW d
    PROVE  LastOf(PublishHaDiscovery(r, s), d, "room") = d
BY DiscoverySays

\* What a successful poll says about each topic, reachability being elsewhere.
LEMMA PollSays ==
    ASSUME NEW r \in Room, NEW s \in Season, NEW o \in Seq(Message), NEW d, NEW t,
           \A y : LastOf(o, y, t) = y
    PROVE  /\ t # "room" =>
                 LastOf(RoomMessage(r) \o PublishHaDiscovery(r, s) \o o, d, t)
                    = LastOf(PublishHaDiscovery(r, s), d, t)
           /\ t = "room" =>
                 LastOf(RoomMessage(r) \o PublishHaDiscovery(r, s) \o o, d, t) = r
           /\ LastOf(PublishHaDiscovery(r, s) \o o, d, t)
                 = LastOf(PublishHaDiscovery(r, s), d, t)
<1> DEFINE p == PublishHaDiscovery(r, s)
           m == RoomMessage(r)
<1>1. p \in Seq(Message) /\ m \in Seq(Message)
    BY DiscoveryMessages, Messages
<1>2. LastOf(m, d, t) = IF t = "room" THEN r ELSE d
    BY RoomMessageSays
<1>3. LastOf(p, r, "room") = r
    BY DiscoveryElsewhere
<1> HIDE DEF p, m
<1>4. m \o p \in Seq(Message)
    BY <1>1
<1>5. LastOf((m \o p) \o o, d, t) = LastOf(o, LastOf(m \o p, d, t), t)
    <2> DEFINE mp == m \o p
    <2>1. mp \in Seq(Message)
        BY <1>4
    <2> HIDE DEF mp
    <2>2. LastOf(mp \o o, d, t) = LastOf(o, LastOf(mp, d, t), t)
        BY <2>1, LastOfConcat
    <2> QED BY <2>2 DEF mp
<1>6. LastOf(m \o p, d, t) = LastOf(p, LastOf(m, d, t), t)
    BY <1>1, LastOfConcat
<1>7. LastOf(p \o o, d, t) = LastOf(o, LastOf(p, d, t), t)
    BY <1>1, LastOfConcat
<1>8. /\ t # "room" => LastOf((m \o p) \o o, d, t) = LastOf(p, d, t)
      /\ t = "room" => LastOf((m \o p) \o o, d, t) = r
    BY <1>2, <1>3, <1>5, <1>6
<1>9. LastOf(p \o o, d, t) = LastOf(p, d, t)
    BY <1>7
<1> QED BY <1>8, <1>9 DEF p, m

LEMMA ReachableElsewhere ==
    ASSUME NEW b \in BOOLEAN, NEW t \in {"room", "climate", "light"}, NEW d
    PROVE  LastOf(SetReachable(b), d, t) = d
<1>1. LastOf(Online(b), d, t) = IF t = "availability" THEN (IF b THEN "online" ELSE "offline") ELSE d
    BY OnlineMessage
<1> QED BY <1>1 DEF SetReachable

LEMMA PollFound ==
    ASSUME NEW r \in Room, NEW s \in Season, NEW d, NEW t \in {"room", "climate", "light"}
    PROVE  /\ t # "room" =>
                 LastOf(RoomMessage(r) \o PublishHaDiscovery(r, s) \o SetReachable(TRUE), d, t)
                    = LastOf(PublishHaDiscovery(r, s), d, t)
           /\ t = "room" =>
                 LastOf(RoomMessage(r) \o PublishHaDiscovery(r, s) \o SetReachable(TRUE), d, t) = r
           /\ LastOf(PublishHaDiscovery(r, s) \o SetReachable(TRUE), d, t)
                 = LastOf(PublishHaDiscovery(r, s), d, t)
<1> DEFINE o == SetReachable(TRUE)
<1>1. o \in Seq(Message)
    BY Messages DEF SetReachable
<1>2. ASSUME NEW y PROVE LastOf(o, y, t) = y
    <2>1. TRUE \in BOOLEAN
        OBVIOUS
    <2> QED BY <2>1, ReachableElsewhere
<1> HIDE DEF o
<1>3. /\ t # "room" =>
            LastOf(RoomMessage(r) \o PublishHaDiscovery(r, s) \o o, d, t)
               = LastOf(PublishHaDiscovery(r, s), d, t)
      /\ t = "room" =>
            LastOf(RoomMessage(r) \o PublishHaDiscovery(r, s) \o o, d, t) = r
      /\ LastOf(PublishHaDiscovery(r, s) \o o, d, t) = LastOf(PublishHaDiscovery(r, s), d, t)
    BY <1>1, <1>2, PollSays
<1> QED BY <1>3 DEF o

LEMMA GreetSays ==
    ASSUME NEW r \in Room, NEW s \in Season, NEW d,
           NEW t \in {"room", "climate", "light"}
    PROVE  LastOf(PublishHaDiscovery(r, s) \o (IF r = "none" THEN <<>> ELSE RoomMessage(r)), d, t)
             = IF t = "room" /\ r # "none" THEN r ELSE LastOf(PublishHaDiscovery(r, s), d, t)
<1> DEFINE p == PublishHaDiscovery(r, s)
           m == IF r = "none" THEN <<>> ELSE RoomMessage(r)
<1>1. p \in Seq(Message) /\ m \in Seq(Message)
    BY DiscoveryMessages, Messages
<1>2. ASSUME NEW y PROVE LastOf(m, y, t) = IF t = "room" /\ r # "none" THEN r ELSE y
    BY RoomMessageSays, LastOfNone
<1> HIDE DEF p, m
<1>3. LastOf(p \o m, d, t) = LastOf(m, LastOf(p, d, t), t)
    BY <1>1, LastOfConcat
<1>4. LastOf(p \o m, d, t) = IF t = "room" /\ r # "none" THEN r ELSE LastOf(p, d, t)
    BY <1>2, <1>3
<1> QED BY <1>4 DEF p, m

LEMMA SeasonFound ==
    ASSUME NEW r \in Room, NEW s \in Season, NEW d, NEW t \in {"room", "climate", "light"}
    PROVE  LastOf(PublishHaDiscovery(r, s) \o SetReachable(TRUE), d, t)
              = LastOf(PublishHaDiscovery(r, s), d, t)
BY Zenon, PollFound

\* After publishHaDiscovery() the signature is that of entities on their way,
\* whether it sent them now or was right to be silent.
LEMMA AnnouncedIsSent ==
    ASSUME Announces, proc = "running", proc' = "running",
           NEW r \in Room, NEW s \in Seasons, Announced(r, s),
           \A t \in {"climate", "light"} :
               Delivered(t)' = LastOf(PublishHaDiscovery(r, s), Delivered(t), t)
    PROVE  Announces'
<1>0. s \in Season
    BY DEF Season, Seasons
<1>1. signature' = SignatureOf(r, s)
    BY DEF Announced
<1>2. CASE SignatureOf(r, s) # signature
    <2>1. r # "none" => Delivered("climate")' = s
        BY <1>0, <1>2, DiscoverySays
    <2>2. r = "light" => Delivered("light")' = TRUE
        <3>1. r = "light" => LastOf(PublishHaDiscovery(r, s), Delivered("light"), "light") = TRUE
            BY <1>0, <1>2, DiscoveryLight
        <3> QED BY <3>1
    <2> QED BY <1>1, <2>1, <2>2 DEF Announces
<1>3. CASE SignatureOf(r, s) = signature
    <2>1. signature # Unpublished
        BY <1>0, <1>3, UnpublishedIsNone
    <2>2. PICK q \in Room, u \in Seasons :
              /\ signature = SignatureOf(q, u)
              /\ q # "none" => Delivered("climate") = u
              /\ q = "light" => Delivered("light") = TRUE
        BY <2>1 DEF Announces
    <2>3. Delivered("climate")' = Delivered("climate")
        BY <1>0, <1>3, DiscoverySays
    <2>4. Delivered("light")' = Delivered("light")
        BY <1>0, <1>3, DiscoverySays
    <2>5. s = u /\ (r = "none" <=> q = "none") /\ (r = "light" <=> q = "light")
        BY <1>3, <2>2, SignaturesDiffer
    <2>6. r # "none" => Delivered("climate")' = s
        BY <2>2, <2>3, <2>5
    <2>7. r = "light" => Delivered("light")' = TRUE
        BY <2>2, <2>4, <2>5
    <2> QED BY <1>1, <2>6, <2>7 DEF Announces
<1> QED BY <1>2, <1>3

LEMMA AnnouncesStays ==
    ASSUME Announces, proc = "running", signature' = signature,
           Delivered("climate")' = Delivered("climate"),
           Delivered("light")' = Delivered("light")
    PROVE  Announces'
BY DEF Announces

\* Polls and publishCurrent() keep what they say nothing about.
LEMMA StoreStepsKeep ==
    ASSUME HomeInv, Polls \/ Greet
    PROVE  InStep' /\ Farewell' /\ EndedIsOffline' /\ AtRest' /\ Watched'
<1>1. OthersUnchanged /\ \E ms \in Seq(Message) : Publish(ms)
    BY Publishes DEF HomeInv
<1>2. PICK ms \in Seq(Message) : Publish(ms)
    BY <1>1
<1>3. UNCHANGED <<proc, link, sent, retained, ownWill, oldWill>>
    BY <1>1 DEF OthersUnchanged, brokerVars
<1>4. InStep'
    BY <1>2, <1>3, InStepAfterPublish DEF HomeInv
<1>5. proc # "running" => outbox' = outbox
    BY <1>2 DEF Publish
<1>6. Farewell'
    <2>1. proc = "stopping" => Delivered("availability")' = Delivered("availability")
        BY <1>3, <1>5, DeliveredNext, DeliveredIsLast
    <2> QED BY <1>3, <2>1 DEF HomeInv, Farewell
<1>7. EndedIsOffline' /\ AtRest' /\ Watched'
    BY <1>3, <1>5 DEF HomeInv, EndedIsOffline, AtRest, Watched
<1> QED BY <1>4, <1>6, <1>7

LEMMA StoreStepsAnnounce ==
    ASSUME HomeInv, Polls \/ Greet
    PROVE  Announces' /\ RoomSent'
<1>1. OthersUnchanged
    BY Publishes DEF HomeInv
<1>2. /\ proc' = proc /\ retained' = retained
      /\ outbox \in Seq(Message) /\ room \in Room /\ season \in Season /\ season \in Seasons
      /\ Announces /\ RoomSent
      /\ TRUE \in BOOLEAN /\ FALSE \in BOOLEAN
    BY <1>1 DEF OthersUnchanged, brokerVars, HomeInv, TypeOK
<1>3. CASE proc # "running"
    BY <1>2, <1>3 DEF Announces, RoomSent
<1>4. CASE proc = "running"
    <2>1. ASSUME NEW ms \in Seq(Message), Publish(ms), NEW t
          PROVE  Delivered(t)' = LastOf(ms, Delivered(t), t)
        <3>1. outbox' = outbox \o ms
            BY <1>4, <2>1 DEF Publish
        <3> QED BY <1>2, <3>1, PublishedLast
    <2>2. ASSUME NEW b \in BOOLEAN, Publish(SetReachable(b)), signature' = signature, season' = season,
                 room' = room \/ room' \notin {"plain", "light"}
          PROVE  Announces' /\ RoomSent'
        <3>1. SetReachable(b) \in Seq(Message)
            BY <1>2, PolledMessages
        <3>2. \A t \in {"room", "climate", "light"} : Delivered(t)' = Delivered(t)
            BY <1>2, <2>1, <2>2, <3>1, ReachableElsewhere
        <3>3. Announces'
            BY <1>2, <1>4, <2>2, <3>2, AnnouncesStays
        <3>4. RoomSent'
            BY <1>2, <1>4, <2>2, <3>2 DEF RoomSent
        <3> QED BY <3>3, <3>4
    <2>3. CASE PollFails
        BY <1>2, <2>2, <2>3 DEF PollFails, bridgeVars
    <2>4. CASE PollConfirms
        BY <1>2, <2>2, <2>4 DEF PollConfirms, bridgeVars
    <2>5. CASE RoomListed
        <3>0. "blank" \in Room
            BY DEF Room
        <3>1. CASE UNCHANGED signature /\ Publish(SetReachable(TRUE))
            BY <1>2, <2>2, <2>5, <3>1 DEF RoomListed
        <3>2. CASE /\ Announced("blank", season)
                   /\ Publish(RoomMessage("blank") \o PublishHaDiscovery("blank", season) \o SetReachable(TRUE))
            <4> DEFINE ms == RoomMessage("blank") \o PublishHaDiscovery("blank", season) \o SetReachable(TRUE)
            <4>1. ms \in Seq(Message)
                BY <1>2, <3>0, PolledMessages
            <4>2. ASSUME NEW t \in {"climate", "light"}
                  PROVE  LastOf(ms, Delivered(t), t)
                           = LastOf(PublishHaDiscovery("blank", season), Delivered(t), t)
                <5>1. t \in {"room", "climate", "light"} /\ t # "room"
                    OBVIOUS
                <5>2. season \in Season
                    BY <1>2
                <5> QED BY Zenon, <3>0, <5>1, <5>2, PollFound
            <4>3. Publish(ms)
                BY <3>2
            <4> HIDE DEF ms
            <4>4. ASSUME NEW t \in {"climate", "light"}
                  PROVE  Delivered(t)' = LastOf(PublishHaDiscovery("blank", season), Delivered(t), t)
                BY <2>1, <4>1, <4>2, <4>3
            <4>5. Announces'
                BY <1>2, <1>4, <3>0, <3>2, <4>4, AnnouncedIsSent
            <4>6. RoomSent'
                BY <2>5 DEF RoomListed, RoomSent
            <4> QED BY <4>5, <4>6
        <3> QED BY <2>5, <3>1, <3>2 DEF RoomListed
    <2>6. ASSUME NEW r \in {"plain", "light"}, RoomPolled(r)
          PROVE  Announces' /\ RoomSent'
        <3> DEFINE ms == RoomMessage(r) \o PublishHaDiscovery(r, season) \o SetReachable(TRUE)
        <3>1. r \in Room
            BY DEF Room
        <3>2. ms \in Seq(Message)
            BY <1>2, <3>1, PolledMessages
        <3>3. ASSUME NEW t \in {"climate", "light"}
              PROVE  LastOf(ms, Delivered(t), t)
                       = LastOf(PublishHaDiscovery(r, season), Delivered(t), t)
            <4>1. t \in {"room", "climate", "light"} /\ t # "room"
                OBVIOUS
            <4>2. season \in Season
                BY <1>2
            <4> QED BY Zenon, <3>1, <4>1, <4>2, PollFound
        <3>4. LastOf(ms, Delivered("room"), "room") = r
            <4>1. season \in Season /\ "room" \in {"room", "climate", "light"}
                BY <1>2
            <4> QED BY Zenon, <3>1, <4>1, PollFound
        <3>5. Publish(ms) /\ Announced(r, season) /\ room' = r /\ season' = season
            BY <2>6 DEF RoomPolled
        <3> HIDE DEF ms
        <3>6. ASSUME NEW t \in {"climate", "light"}
              PROVE  Delivered(t)' = LastOf(PublishHaDiscovery(r, season), Delivered(t), t)
            BY <2>1, <3>2, <3>3, <3>5
        <3>7. Announces'
            BY <1>2, <1>4, <3>1, <3>5, <3>6, AnnouncedIsSent
        <3>8. Delivered("room")' = r
            BY <2>1, <3>2, <3>4, <3>5
        <3>9. RoomSent'
            BY <3>5, <3>8 DEF RoomSent, Announced
        <3> QED BY <3>7, <3>9
    <2>7. ASSUME NEW s \in {"heating", "cooling"}, SeasonPolled(s)
          PROVE  Announces' /\ RoomSent'
        <3> DEFINE ms == PublishHaDiscovery(room, s) \o SetReachable(TRUE)
        <3>1. s \in Season /\ s \in Seasons
            BY DEF Season, Seasons
        <3>2. ms \in Seq(Message)
            BY <1>2, <3>1, PolledMessages
        <3>3. ASSUME NEW t \in {"room", "climate", "light"}
              PROVE  LastOf(ms, Delivered(t), t)
                       = LastOf(PublishHaDiscovery(room, s), Delivered(t), t)
            <4>1. room \in Room
                BY <1>2
            <4> QED BY Zenon, <3>1, <4>1, SeasonFound
        <3>5. Publish(ms) /\ Announced(room, s) /\ room' = room /\ season' = s
            BY <2>7 DEF SeasonPolled
        <3> HIDE DEF ms
        <3>6. ASSUME NEW t \in {"room", "climate", "light"}
              PROVE  Delivered(t)' = LastOf(PublishHaDiscovery(room, s), Delivered(t), t)
            BY <2>1, <3>2, <3>3, <3>5
        <3>7. Announces'
            BY <1>2, <1>4, <3>1, <3>5, <3>6, AnnouncedIsSent
        <3>8. Delivered("room")' = Delivered("room")
            BY <1>2, <3>1, <3>6, DiscoveryElsewhere
        <3>9. RoomSent'
            BY <1>2, <1>4, <3>5, <3>8 DEF RoomSent, Announced
        <3> QED BY <3>7, <3>9
    <2>8. CASE Greet
        <3> DEFINE ms == PublishHaDiscovery(room, season)
                            \o (IF room = "none" THEN <<>> ELSE RoomMessage(room))
        <3>2. ms \in Seq(Message)
            BY <1>2, PolledMessages
        <3>3. ASSUME NEW t \in {"climate", "light"}
              PROVE  LastOf(ms, Delivered(t), t)
                       = LastOf(PublishHaDiscovery(room, season), Delivered(t), t)
            BY <1>2, GreetSays
        <3>4. room # "none" => LastOf(ms, Delivered("room"), "room") = room
            BY <1>2, GreetSays
        <3>5. Publish(ms) /\ Announced(room, season) /\ room' = room /\ season' = season
            BY <2>8 DEF Greet, storeVars
        <3> HIDE DEF ms
        <3>6. ASSUME NEW t \in {"climate", "light"}
              PROVE  Delivered(t)' = LastOf(PublishHaDiscovery(room, season), Delivered(t), t)
            BY <2>1, <3>2, <3>3, <3>5
        <3>7. Announces'
            BY <1>2, <1>4, <3>5, <3>6, AnnouncedIsSent
        <3>8. room # "none" => Delivered("room")' = room
            BY <2>1, <3>2, <3>4, <3>5
        <3>9. RoomSent'
            BY <1>2, <1>4, <3>5, <3>8 DEF RoomSent, Announced
        <3> QED BY <3>7, <3>9
    <2> QED BY <2>3, <2>4, <2>5, <2>6, <2>7, <2>8 DEF Polls
<1> QED BY <1>3, <1>4

\* Steps that leave the Store and the signature alone, in a process that goes on.
LEMMA KnownStays ==
    ASSUME Announces, RoomSent, proc = "running",
           UNCHANGED <<proc, signature, room, season>>,
           \A t \in {"room", "climate", "light"} : Delivered(t)' = Delivered(t)
    PROVE  Announces' /\ RoomSent'
<1>1. Announces'
    BY AnnouncesStays
<1>2. RoomSent'
    BY DEF RoomSent
<1> QED BY <1>1, <1>2

-----------------------------------------------------------------------------
(* The steps of the client, the broker and the process.                    *)

LEMMA ConnectKeeps ==
    ASSUME HomeInv, Connect
    PROVE  InStep' /\ Farewell' /\ EndedIsOffline' /\ AtRest' /\ Watched' /\ Announces' /\ RoomSent'
<1> DEFINE m == Online(TRUE)
<1>1. /\ proc = "running" /\ UNCHANGED <<proc, signature, room, season>> /\ link' = "up" /\ sent' = 0
      /\ outbox' = outbox \o m
      /\ \A t \in {"room", "climate", "light"} : retained'[t] = retained[t]
      /\ outbox \in Seq(Message) /\ m \in Seq(Message)
      /\ Announces /\ RoomSent
    <2>1. m \in Seq(Message)
        BY Messages
    <2>2. retained' = retained \/ retained' = [retained EXCEPT !.availability = "offline"]
        BY DEF Connect
    <2>3. \A t \in {"room", "climate", "light"} : retained'[t] = retained[t]
        <3>1. DOMAIN retained = {"availability", "room", "climate", "light"}
            BY DEF HomeInv, TypeOK, Retained
        <3> QED BY <2>2, <3>1
    <2>4. /\ proc = "running" /\ proc' = proc /\ link' = "up" /\ sent' = 0
          /\ outbox' = outbox \o m
          /\ UNCHANGED <<signature, room, season>>
        BY DEF Connect, Publish, bridgeVars, storeVars
    <2>5. outbox \in Seq(Message) /\ Announces /\ RoomSent
        BY DEF HomeInv, TypeOK
    <2> QED BY <2>1, <2>3, <2>4, <2>5
<1>2. ASSUME NEW t, NEW d PROVE LastOf(m, d, t) = IF t = "availability" THEN "online" ELSE d
    <2>1. TRUE \in BOOLEAN
        OBVIOUS
    <2> QED BY <2>1, OnlineMessage
<1> HIDE DEF m
<1>3. InStep'
    <2>1. SubSeq(outbox', 1, sent') = <<>>
        BY <1>1
    <2>2. \A t : Shown(t)'
        BY <2>1, LastOfNone DEF Shown
    <2> QED BY <2>2 DEF InStep
<1>4. \A t \in {"room", "climate", "light"} : Delivered(t)' = Delivered(t)
    BY <1>1, <1>2, PublishedLast
<1>5. Announces' /\ RoomSent'
    BY <1>1, <1>4, KnownStays
<1>6. Farewell' /\ EndedIsOffline' /\ AtRest' /\ Watched'
    BY <1>1 DEF Farewell, EndedIsOffline, AtRest, Watched
<1> QED BY <1>3, <1>5, <1>6

LEMMA BrokerTakesKeeps ==
    ASSUME HomeInv, BrokerTakes
    PROVE  InStep' /\ Farewell' /\ EndedIsOffline' /\ AtRest' /\ Watched' /\ Announces' /\ RoomSent'
<1> DEFINE m == outbox[sent + 1]
           topics == {"availability", "room", "climate", "light"}
<1>1. /\ outbox \in Seq(Message) /\ sent \in Nat /\ sent < Len(outbox) /\ link = "up"
      /\ UNCHANGED <<proc, link, outbox, signature, room, season, ownWill, oldWill>>
      /\ sent' = sent + 1
      /\ m \in Message
      /\ proc \in {"running", "stopping", "ended", "dead"} /\ proc \notin {"dead", "ended"}
    BY DEF HomeInv, TypeOK, AtRest, BrokerTakes, bridgeVars, storeVars
<1>2. \A t \in topics : /\ m.topic = t => retained'[t] = m.payload
                        /\ m.topic # t => retained'[t] = retained[t]
    <2>1. retained' = [retained EXCEPT ![m.topic] = m.payload]
        BY DEF BrokerTakes
    <2>2. DOMAIN retained = topics
        BY DEF HomeInv, TypeOK, Retained
    <2> HIDE DEF m
    <2> QED BY <2>1, <2>2
<1>3. ASSUME NEW t \in topics
      PROVE  /\ Shown(t) => Shown(t)' /\ Delivered(t)' = Delivered(t)
             /\ m.topic = t => Shown(t)' /\ Delivered(t)' = Delivered(t)
    <2>1. /\ outbox[sent + 1].topic = t => retained'[t] = outbox[sent + 1].payload
          /\ outbox[sent + 1].topic # t => retained'[t] = retained[t]
        BY <1>2
    <2> DEFINE d == retained[t]
               e == retained'[t]
    <2>2. /\ LastOf(SubSeq(outbox, 1, sent), d, t) = d => LastOf(SubSeq(outbox, 1, sent + 1), e, t) = e
          /\ LastOf(SubSeq(outbox, 1, sent), d, t) = d => LastOf(outbox, e, t) = LastOf(outbox, d, t)
          /\ m.topic = t => LastOf(SubSeq(outbox, 1, sent + 1), e, t) = e
          /\ m.topic = t => LastOf(outbox, e, t) = LastOf(outbox, d, t)
        <3>1. e = Told(m, d, t)
            BY <2>1 DEF Told
        <3> QED BY <1>1, <3>1, BrokerTakesNext
    <2>3. /\ Shown(t) <=> LastOf(SubSeq(outbox, 1, sent), d, t) = d
          /\ Shown(t)' <=> LastOf(SubSeq(outbox, 1, sent + 1), e, t) = e
          /\ Delivered(t) = LastOf(outbox, d, t)
          /\ Delivered(t)' = LastOf(outbox, e, t)
        BY <1>1, DeliveredIsLast, DeliveredNext DEF Shown
    <2> HIDE DEF d, e, m
    <2> QED BY <2>2, <2>3
<1> HIDE DEF m
<1>4. InStep'
    <2>1. \A t \in {"room", "climate", "light"} : Shown(t)'
        BY <1>3 DEF HomeInv, InStep
    <2>2. retained'.availability = "offline" \/ Shown("availability")'
        <3>1. CASE m.topic = "availability"
            BY <1>3, <3>1
        <3>2. CASE m.topic # "availability"
            BY <1>2, <1>3, <3>2 DEF HomeInv, InStep
        <3> QED BY <3>1, <3>2
    <2> QED BY <2>1, <2>2 DEF InStep
<1>5. Announces' /\ RoomSent'
    <2>1. \A t \in {"room", "climate", "light"} : Delivered(t)' = Delivered(t)
        BY <1>3 DEF HomeInv, InStep
    <2>2. CASE proc = "running"
        BY <1>1, <2>1, <2>2, KnownStays DEF HomeInv
    <2>3. CASE proc # "running"
        BY <1>1, <2>3 DEF Announces, RoomSent
    <2> QED BY <2>2, <2>3
<1>6. Farewell'
    <2> SUFFICES ASSUME proc = "stopping"
                 PROVE  Delivered("availability")' = "offline"
        BY <1>1 DEF Farewell
    <2>1. Delivered("availability") = "offline"
        BY DEF HomeInv, Farewell
    <2>2. CASE m.topic = "availability"
        BY <1>3, <2>1, <2>2
    <2>3. CASE m.topic # "availability"
        <3>1. retained'["availability"] = retained["availability"] /\ outbox' = outbox
            BY <1>1, <1>2, <2>3
        <3> QED BY <2>1, <3>1, DeliveredIsLast, DeliveredNext
    <2> QED BY <2>2, <2>3
<1>7. EndedIsOffline' /\ AtRest' /\ Watched'
    BY <1>1 DEF EndedIsOffline, AtRest, Watched
<1> QED BY <1>4, <1>5, <1>6, <1>7

LEMMA AcknowledgedKeeps ==
    ASSUME HomeInv, Acknowledged
    PROVE  InStep' /\ Farewell' /\ EndedIsOffline' /\ AtRest' /\ Watched' /\ Announces' /\ RoomSent'
<1>1. /\ outbox \in Seq(Message) /\ sent \in 1..Len(outbox) /\ link = "up"
      /\ UNCHANGED <<proc, link, retained, signature, room, season, ownWill, oldWill>>
      /\ sent' = sent - 1 /\ outbox' = Tail(outbox)
      /\ proc \in {"running", "stopping", "ended", "dead"} /\ proc \notin {"dead", "ended"}
    BY DEF HomeInv, TypeOK, AtRest, Acknowledged, bridgeVars, storeVars, brokerVars
<1>2. ASSUME NEW t, Shown(t)
      PROVE  Shown(t)' /\ Delivered(t)' = Delivered(t)
    <2>1. LastOf(SubSeq(outbox, 1, sent), retained[t], t) = retained[t]
        BY <1>2 DEF Shown
    <2>2. /\ LastOf(SubSeq(Tail(outbox), 1, sent - 1), retained[t], t) = retained[t]
          /\ LastOf(Tail(outbox), retained[t], t) = LastOf(outbox, retained[t], t)
        BY <1>1, <2>1, AcknowledgedFirst
    <2>3. Shown(t)'
        BY <1>1, <2>2 DEF Shown
    <2>4. Delivered(t)' = Delivered(t)
        BY <1>1, <2>2, DeliveredIsLast, DeliveredNext
    <2> QED BY <2>3, <2>4
<1>3. InStep'
    BY <1>1, <1>2 DEF HomeInv, InStep
<1>4. Announces' /\ RoomSent'
    <2>1. \A t \in {"room", "climate", "light"} : Delivered(t)' = Delivered(t)
        BY <1>2 DEF HomeInv, InStep
    <2>2. CASE proc = "running"
        BY <1>1, <2>1, <2>2, KnownStays DEF HomeInv
    <2>3. CASE proc # "running"
        BY <1>1, <2>3 DEF Announces, RoomSent
    <2> QED BY <2>2, <2>3
<1>5. Farewell'
    <2> SUFFICES ASSUME proc = "stopping"
                 PROVE  Delivered("availability")' = "offline"
        BY <1>1 DEF Farewell
    <2>1. Delivered("availability") = "offline"
        BY DEF HomeInv, Farewell
    <2>2. CASE Shown("availability")
        BY <1>2, <2>1, <2>2
    <2>3. CASE retained.availability = "offline"
        <3>1. LastOf(outbox, "offline", "availability") = "offline" /\ Len(outbox) > 0
            BY <1>1, <2>1, <2>3, DeliveredIsLast
        <3>2. LastOf(Tail(outbox), "offline", "availability") = "offline"
            BY <1>1, <3>1, AcknowledgedSame
        <3> QED BY <1>1, <2>3, <3>2, DeliveredNext
    <2> QED BY <2>2, <2>3 DEF HomeInv, InStep
<1>6. EndedIsOffline' /\ AtRest' /\ Watched'
    BY <1>1 DEF EndedIsOffline, AtRest, Watched
<1> QED BY <1>3, <1>4, <1>5, <1>6

LEMMA WillKeeps ==
    ASSUME HomeInv, WillPublished
    PROVE  InStep' /\ Farewell' /\ EndedIsOffline' /\ AtRest' /\ Watched' /\ Announces' /\ RoomSent'
<1>1. /\ UNCHANGED <<proc, link, outbox, sent, signature, room, season>>
      /\ retained' = [retained EXCEPT !.availability = "offline"]
      /\ ~ownWill => ~ownWill'
      /\ DOMAIN retained = {"availability", "room", "climate", "light"}
    BY DEF HomeInv, TypeOK, Retained, WillPublished, clientVars, bridgeVars, storeVars
<1>2. /\ retained'.availability = "offline"
      /\ \A t \in {"room", "climate", "light"} : retained'[t] = retained[t]
    BY <1>1
<1>3. \A t \in {"room", "climate", "light"} :
          (Shown(t) => Shown(t)') /\ Delivered(t)' = Delivered(t)
    BY <1>1, <1>2, DeliveredIsLast, DeliveredNext DEF Shown
<1>4. InStep'
    BY <1>2, <1>3 DEF HomeInv, InStep
<1>5. Announces' /\ RoomSent'
    <2>1. CASE proc = "running"
        BY <1>1, <1>3, <2>1, KnownStays DEF HomeInv
    <2>2. CASE proc # "running"
        BY <1>1, <2>2 DEF Announces, RoomSent
    <2> QED BY <2>1, <2>2
<1>6. Farewell'
    <2> SUFFICES ASSUME proc = "stopping"
                 PROVE  Delivered("availability")' = "offline"
        BY <1>1 DEF Farewell
    <2>1. LastOf(outbox, retained["availability"], "availability") = "offline"
        BY DeliveredIsLast DEF HomeInv, Farewell
    <2>2. LastOf(outbox, "offline", "availability") = "offline"
        BY <2>1, Dichotomy
    <2> QED BY <1>1, <1>2, <2>2, DeliveredNext
<1>7. EndedIsOffline' /\ AtRest' /\ Watched'
    BY <1>1, <1>2 DEF HomeInv, EndedIsOffline, AtRest, Watched
<1> QED BY <1>4, <1>5, <1>6, <1>7

LEMMA LinkDropsKeeps ==
    ASSUME HomeInv, LinkDrops
    PROVE  InStep' /\ Farewell' /\ EndedIsOffline' /\ AtRest' /\ Watched' /\ Announces' /\ RoomSent'
<1>1. /\ UNCHANGED <<proc, outbox, sent, retained, signature, room, season>>
      /\ link = "up" /\ ownWill' = TRUE
    BY DEF LinkDrops, bridgeVars, storeVars
<1>2. \A t : Shown(t)' = Shown(t) /\ Delivered(t)' = Delivered(t)
    BY <1>1, DeliveredIsLast, DeliveredNext DEF Shown
<1>3. proc \notin {"dead", "ended"}
    BY <1>1 DEF HomeInv, AtRest
<1>4. InStep' /\ Farewell' /\ EndedIsOffline' /\ AtRest' /\ Watched'
    BY <1>1, <1>2, <1>3 DEF HomeInv, InStep, Farewell, EndedIsOffline, AtRest, Watched
<1>5. CASE proc = "running"
    BY <1>1, <1>2, <1>4, <1>5, KnownStays DEF HomeInv
<1>6. CASE proc # "running"
    BY <1>1, <1>4, <1>6 DEF Announces, RoomSent
<1> QED BY <1>5, <1>6

\* SIGTERM: the marker is the last word, whatever waits before it.
LEMMA ShutdownKeeps ==
    ASSUME HomeInv, Shutdown
    PROVE  InStep' /\ Farewell' /\ EndedIsOffline' /\ AtRest' /\ Watched' /\ Announces' /\ RoomSent'
<1> DEFINE m == Online(FALSE)
<1>1. /\ outbox' = outbox \o m /\ sent' = sent /\ retained' = retained
      /\ UNCHANGED <<link, ownWill, oldWill>> /\ proc' = "stopping"
      /\ outbox \in Seq(Message)
    BY DEF HomeInv, TypeOK, Shutdown, brokerVars
<1>2. m \in Seq(Message)
    BY Messages
<1>3. ASSUME NEW d PROVE LastOf(m, d, "availability") = "offline"
    <2>1. FALSE \in BOOLEAN
        OBVIOUS
    <2> QED BY <2>1, OnlineMessage
<1> HIDE DEF m
<1>4. InStep'
    BY <1>1, <1>2, InStepAfterPublish DEF HomeInv
<1>5. Delivered("availability")' = "offline"
    <2>1. Delivered("availability")' = LastOf(m, Delivered("availability"), "availability")
        BY <1>1, <1>2, PublishedLast
    <2> QED BY <1>3, <2>1
<1>6. Farewell' /\ EndedIsOffline' /\ AtRest' /\ Announces' /\ RoomSent'
    BY <1>1, <1>5 DEF Farewell, EndedIsOffline, AtRest, Announces, RoomSent
<1>7. Watched'
    BY <1>1 DEF HomeInv, Watched
<1> QED BY <1>4, <1>6, <1>7

\* end() has delivered everything, the marker last.
LEMMA GoodbyeKeeps ==
    ASSUME HomeInv, Goodbye
    PROVE  InStep' /\ Farewell' /\ EndedIsOffline' /\ AtRest' /\ Watched' /\ Announces' /\ RoomSent'
<1>1. /\ proc = "stopping" /\ outbox = <<>> /\ sent = 0 /\ proc' = "ended" /\ link' = "down"
      /\ outbox' = outbox /\ sent' = sent /\ UNCHANGED <<retained, ownWill, oldWill>>
    BY DEF HomeInv, TypeOK, Goodbye, brokerVars
<1>2. retained.availability = "offline"
    <2>1. LastOf(<<>>, retained["availability"], "availability") = "offline"
        BY <1>1, DeliveredIsLast DEF HomeInv, Farewell
    <2> QED BY <2>1, LastOfNone
<1>3. InStep'
    BY <1>1 DEF HomeInv, InStep, Shown
<1> QED
    BY <1>1, <1>2, <1>3 DEF Farewell, EndedIsOffline, AtRest, Watched, Announces, RoomSent

LEMMA DiesKeeps ==
    ASSUME HomeInv, Dies
    PROVE  InStep' /\ Farewell' /\ EndedIsOffline' /\ AtRest' /\ Watched' /\ Announces' /\ RoomSent'
<1>1. /\ proc' = "dead" /\ link' = "down" /\ outbox' = <<>> /\ sent' = 0 /\ retained' = retained
      /\ ~ownWill' /\ (oldWill' <=> oldWill \/ ownWill \/ link = "up")
    BY DEF Dies
<1>2. InStep'
    <2>1. SubSeq(outbox', 1, sent') = <<>>
        BY <1>1
    <2>2. \A t : Shown(t)'
        BY <2>1, LastOfNone DEF Shown
    <2> QED BY <2>2 DEF InStep
<1>3. Watched'
    BY <1>1 DEF HomeInv, Watched
<1> QED
    BY <1>1, <1>2, <1>3 DEF Farewell, EndedIsOffline, AtRest, Announces, RoomSent

LEMMA RestartKeeps ==
    ASSUME HomeInv, Restart
    PROVE  InStep' /\ Farewell' /\ EndedIsOffline' /\ AtRest' /\ Watched' /\ Announces' /\ RoomSent'
<1>1. /\ proc' = "running" /\ room' = "none" /\ signature' = Unpublished
      /\ UNCHANGED <<outbox, sent, link, retained, ownWill, oldWill>>
    BY DEF Restart, clientVars, brokerVars
<1>2. InStep' /\ Watched'
    BY <1>1 DEF HomeInv, InStep, Shown, Watched
<1> QED
    BY <1>1, <1>2 DEF Farewell, EndedIsOffline, AtRest, Announces, RoomSent

LEMMA StutterKeeps ==
    ASSUME HomeInv, UNCHANGED vars
    PROVE  InStep' /\ Farewell' /\ EndedIsOffline' /\ AtRest' /\ Watched' /\ Announces' /\ RoomSent'
<1>1. UNCHANGED <<proc, link, outbox, sent, signature, room, season, retained, ownWill, oldWill>>
    BY DEF vars, clientVars, bridgeVars, storeVars, brokerVars
<1>2. \A t : Shown(t)' = Shown(t) /\ Delivered(t)' = Delivered(t)
    BY <1>1, DeliveredIsLast, DeliveredNext DEF Shown
<1>3. InStep' /\ Farewell' /\ EndedIsOffline' /\ AtRest' /\ Watched'
    BY <1>1, <1>2 DEF HomeInv, InStep, Farewell, EndedIsOffline, AtRest, Watched
<1>4. CASE proc = "running"
    BY <1>1, <1>2, <1>3, <1>4, KnownStays DEF HomeInv
<1>5. CASE proc # "running"
    BY <1>1, <1>3, <1>5 DEF Announces, RoomSent
<1> QED BY <1>4, <1>5

LEMMA HomeInvInit == Init => HomeInv
<1> SUFFICES ASSUME Init PROVE HomeInv
    OBVIOUS
<1>1. TypeOK /\ season \in Seasons
    BY InitTypes
<1>2. InStep
    <2>1. SubSeq(outbox, 1, sent) = <<>>
        BY DEF Init
    <2>2. \A t : Shown(t)
        BY <2>1, LastOfNone DEF Shown
    <2> QED BY <2>2 DEF InStep
<1>3. proc = "running" /\ room = "none" /\ signature = Unpublished /\ retained.availability = "none"
    BY DEF Init
<1> QED
    BY <1>1, <1>2, <1>3
    DEF HomeInv, Farewell, EndedIsOffline, AtRest, Watched, Announces, RoomSent

LEMMA HomeInvNext == HomeInv /\ [Next]_vars => HomeInv'
<1> SUFFICES ASSUME HomeInv, [Next]_vars PROVE HomeInv'
    OBVIOUS
<1>1. TypeOK' /\ (season \in Seasons)'
    BY StepTypes DEF HomeInv
<1>2. InStep' /\ Farewell' /\ EndedIsOffline' /\ AtRest' /\ Watched' /\ Announces' /\ RoomSent'
    BY StoreStepsKeep, StoreStepsAnnounce, ConnectKeeps, LinkDropsKeeps, BrokerTakesKeeps,
       AcknowledgedKeeps, WillKeeps, ShutdownKeeps, GoodbyeKeeps, DiesKeeps, RestartKeeps,
       StutterKeeps
    DEF Next
<1> QED BY <1>1, <1>2 DEF HomeInv

\* The invariant holds for every bound on crashes, drops, changes and backlog.
THEOREM HomeCorrect == Spec => []HomeInv
BY HomeInvInit, HomeInvNext, PTL DEF Spec

\* Every variable of the availability and discovery model keeps its type; only
\* messages of the four kinds are kept, in client and broker.
THEOREM TypeCorrect == Spec => []TypeOK
<1>1. HomeInv => TypeOK
    BY DEF HomeInv
<1> QED BY <1>1, HomeCorrect, PTL

\* A shutdown in good order leaves "offline" at the broker, whatever polls,
\* drops and reconnects happen before and during it.
THEOREM GoodOrder == Spec => []EndedIsOffline
<1>1. HomeInv => EndedIsOffline
    BY DEF HomeInv
<1> QED BY <1>1, HomeCorrect, PTL

\* After a crash a bridge shown as available has a will that the broker is
\* still to publish.
THEOREM CrashIsNoticed == Spec => []DeadComesOffline
<1>1. HomeInv => DeadComesOffline
    BY DEF HomeInv, DeadComesOffline, Watched, AtRest
<1> QED BY <1>1, HomeCorrect, PTL

LEMMA InvRoomOnItsWay == HomeInv => RoomOnItsWay
<1> SUFFICES ASSUME HomeInv, proc = "running", room \in {"plain", "light"}
             PROVE  /\ Delivered("room") = room /\ Delivered("climate") = season
                    /\ room = "light" => Delivered("light") = TRUE
    BY DEF RoomOnItsWay
<1>1. /\ signature = SignatureOf(room, season) /\ Delivered("room") = room
      /\ room \in Room /\ season \in Seasons /\ season \in Season
    BY DEF HomeInv, RoomSent, TypeOK
<1>2. signature # Unpublished
    BY <1>1, UnpublishedIsNone
<1>3. PICK r \in Room, s \in Seasons :
          /\ signature = SignatureOf(r, s)
          /\ r # "none" => Delivered("climate") = s
          /\ r = "light" => Delivered("light") = TRUE
    BY <1>2 DEF HomeInv, Announces
<1>4. season = s /\ (room = "none" <=> r = "none") /\ (room = "light" <=> r = "light")
    <2> DEFINE q == room
               u == season
    <2>1. SignatureOf(q, u) = SignatureOf(r, s) /\ q \in Room /\ u \in Seasons
        BY <1>1, <1>3
    <2> HIDE DEF q, u
    <2>2. u = s /\ (q = "none" <=> r = "none") /\ (q = "light" <=> r = "light")
        BY <2>1, SignaturesDiffer
    <2> QED BY <2>2 DEF q, u
<1>5. room # "none"
    OBVIOUS
<1>6. Delivered("climate") = season
    BY <1>3, <1>4, <1>5
<1>7. room = "light" => Delivered("light") = TRUE
    BY <1>3, <1>4
<1> QED BY <1>1, <1>6, <1>7

\* What the Store knows of a polled room, its discovery included, is with the
\* broker or on its way, in the right order, through any lost connections,
\* repeated messages and earlier lives of the bridge.
THEOREM NothingForgotten == Spec => []RoomOnItsWay
BY InvRoomOnItsWay, HomeCorrect, PTL

-----------------------------------------------------------------------------
(* The entities, of any Store.                                             *)

SystemEntities ==
    {BuildOutdoor, BuildOutdoorOffset, BuildOperatingModeSelect, BuildEnergyLevelSelect,
     BuildAlarms, BuildAlarmsCount}

SensorsOf(r) ==
    {BuildRoomHumidity(r), BuildRoomFlap(r)} \cup BuildRoomFan(r) \cup BuildRoomCalibration(r)

SwitchesOf(r) ==
    {BuildRoomLightSwitch(r), BuildRoomLockSwitch(r), BuildRoomAutoStart(r),
     BuildRoomWindowDetection(r)}

\* e is announced for a channel or an output of the I/O page.
ForIo(e, io) ==
    \/ \E c \in MasterChannels(io) : e = ReadOnly("binary_sensor", c, Io, {c})
    \/ \E k \in DOMAIN io.umodules :
          \/ \E c \in ModuleChannels(io, k) :
                e = ReadOnly(IF c[2] = "aiC" THEN "sensor" ELSE "binary_sensor", c, Io, {c})
          \/ e = ReadOnly("sensor", <<k, "aoPct">>, Io, {<<k, "aoPct">>})

LEMMA EntityKinds ==
    ASSUME NEW s, NEW e \in BuildAllDiscovery(s)
    PROVE  \/ e \in SystemEntities
           \/ \E r \in DOMAIN s.rooms :
                 e \in {BuildRoomClimate(r, IsSystemCooling(s))} \cup SensorsOf(r) \cup SwitchesOf(r)
           \/ s.io # NoIO /\ ForIo(e, s.io)
<1> DEFINE all == {BuildOutdoor, BuildOperatingModeSelect, BuildEnergyLevelSelect,
                   BuildAlarms, BuildAlarmsCount}
                     \cup (IF ExposeCalibration THEN {BuildOutdoorOffset} ELSE {})
           rs == UNION {RoomEntities(r, s.rooms[r], IsSystemCooling(s)) : r \in DOMAIN s.rooms}
           ios == IF s.io = NoIO THEN {} ELSE BuildIODiscovery(s.io)
<1>0. e \in all \cup rs \cup ios
    BY Zenon DEF BuildAllDiscovery
<1>1. CASE e \in all
    BY <1>1 DEF SystemEntities
<1>2. CASE e \in rs
    <2>1. PICK r \in DOMAIN s.rooms : e \in RoomEntities(r, s.rooms[r], IsSystemCooling(s))
        BY <1>2
    <2>2. e \in {BuildRoomClimate(r, IsSystemCooling(s))} \cup SensorsOf(r) \cup SwitchesOf(r)
        BY <2>1 DEF RoomEntities, SensorsOf, SwitchesOf
    <2> QED BY <2>2
<1>3. CASE e \in ios
    <2>1. s.io # NoIO /\ e \in BuildIODiscovery(s.io)
        BY <1>3
    <2>2. ForIo(e, s.io)
        BY <2>1 DEF ForIo, BuildIODiscovery, BuildMasterIO, BuildModuleIO
    <2> QED BY <2>1, <2>2
<1> HIDE DEF all, rs, ios
<1> QED BY <1>0, <1>1, <1>2, <1>3

-----------------------------------------------------------------------------
(* Controls.                                                               *)

\* A room's topics are subscribed to and taken for the room's field.
LEMMA RoomCommands ==
    ASSUME NEW r, NEW what \in RoomTopics
    PROVE  /\ Subscribed(RoomSet(r, what))
           /\ OwnerOf(RoomSet(r, what)) = OwnerOf(RoomState(r))
           /\ MatchCommand(RoomSet(r, what))
                = CASE what = "auto_start" -> "autoStart"
                    [] what = "window_detection" -> "windowDetection"
                    [] OTHER -> what
<1> DEFINE to == RoomSet(r, what)
<1>1. /\ Len(to) = 4 /\ to[1] = "rooms" /\ to[2] = r /\ to[3] = what /\ to[4] = "set"
      /\ to # SystemSet("operating_mode") /\ to # SystemSet("energy_level")
    BY DEF RoomSet, SystemSet
<1>2. RoomState(r)[1] = "rooms" /\ RoomState(r)[2] = r
    BY DEF RoomState
<1> HIDE DEF to
<1>3. Subscribed(to) /\ OwnerOf(to) = OwnerOf(RoomState(r))
    BY <1>1, <1>2 DEF Subscribed, OwnerOf
<1>4. MatchCommand(to) = CASE what = "auto_start" -> "autoStart"
                           [] what = "window_detection" -> "windowDetection"
                           [] OTHER -> what
    BY <1>1 DEF MatchCommand, RoomTopics
<1> QED BY <1>3, <1>4 DEF to

LEMMA HeardOfSwitch ==
    ASSUME NEW field \in {"light", "lock", "autoStart", "windowDetection"}
    PROVE  TRUE \in Heard(field, "true") /\ FALSE \in Heard(field, "false")
<1>1. /\ field # "operatingMode" /\ field # "energyLevel"
      /\ field # "mode" /\ field # "setpoint"
    OBVIOUS
<1>2. \A p : Heard(field, p) = {(p \in {"true", "on", "1"})}
    BY <1>1 DEF Heard
<1>3. TRUE \in Heard(field, "true")
    BY <1>2
<1>4. FALSE \in Heard(field, "false")
    <2>1. "false" \notin {"true", "on", "1"}
        OBVIOUS
    <2>2. ("false" \in {"true", "on", "1"}) = FALSE
        BY <2>1
    <2> DEFINE b == "false" \in {"true", "on", "1"}
    <2>3. Heard(field, "false") = {b}
        BY Zenon, <1>2
    <2>4. b \in {b}
        BY Zenon
    <2> HIDE DEF b
    <2>5. b = FALSE
        BY <2>2 DEF b
    <2> QED BY Zenon, <2>3, <2>4, <2>5
<1> QED BY <1>3, <1>4

LEMMA SwitchTakes ==
    ASSUME NEW r, NEW slug, NEW field \in {"light", "lock", "autoStart", "windowDetection"},
           NEW what \in RoomTopics, MatchCommand(RoomSet(r, what)) = field,
           NEW c \in Switch(r, slug, field, RoomSet(r, what)).controls
    PROVE  ControlTakes(Switch(r, slug, field, RoomSet(r, what)), c)
<1> DEFINE e == Switch(r, slug, field, RoomSet(r, what))
<1>1. /\ e.topic = RoomState(r) /\ c.to = RoomSet(r, what) /\ c.field = field
      /\ c.says = SwitchSays /\ c.shows = SwitchShows
    BY DEF Switch, Control
<1>2. ASSUME NEW o \in DOMAIN SwitchSays
      PROVE  \E v \in Heard(field, SwitchSays[o]) :
                 \A w \in Becomes(field, v) : w \in DOMAIN SwitchShows /\ SwitchShows[w] = o
    <2>1. o \in {"ON", "OFF"}
        BY DEF SwitchSays
    <2>2. CASE o = "ON"
        <3>1. SwitchSays[o] = "true"
            BY <2>2 DEF SwitchSays
        <3>4. TRUE \in Heard(field, "true")
            BY HeardOfSwitch
        <3>2. Becomes(field, TRUE) = {TRUE}
            BY DEF Becomes, Posted
        <3>3. TRUE \in DOMAIN SwitchShows /\ SwitchShows[TRUE] = o
            BY <2>2 DEF SwitchShows
        <3>5. \A w \in Becomes(field, TRUE) : w \in DOMAIN SwitchShows /\ SwitchShows[w] = o
            BY <3>2, <3>3
        <3> QED BY Zenon, <3>1, <3>4, <3>5
    <2>3. CASE o = "OFF"
        <3>1. SwitchSays[o] = "false"
            BY <2>3 DEF SwitchSays
        <3>4. FALSE \in Heard(field, "false")
            BY HeardOfSwitch
        <3>2. Becomes(field, FALSE) = {FALSE}
            BY DEF Becomes, Posted
        <3>3. FALSE \in DOMAIN SwitchShows /\ SwitchShows[FALSE] = o
            BY <2>3 DEF SwitchShows
        <3>5. \A w \in Becomes(field, FALSE) : w \in DOMAIN SwitchShows /\ SwitchShows[w] = o
            BY <3>2, <3>3
        <3> QED BY Zenon, <3>1, <3>4, <3>5
    <2> QED BY <2>1, <2>2, <2>3
<1> HIDE DEF e
<1>3. ControlTakes(e, c)
    BY <1>1, <1>2, RoomCommands DEF ControlTakes
<1> QED BY <1>3 DEF e

LEMMA SelectTakes ==
    ASSUME NEW e \in {BuildOperatingModeSelect, BuildEnergyLevelSelect}, NEW c \in e.controls
    PROVE  ControlTakes(e, c)
<1>1. CASE e = BuildOperatingModeSelect
    <2>1. /\ e.topic = SystemState /\ c.to = SystemSet("operating_mode") /\ c.field = "operatingMode"
          /\ c.says = Verbatim(OperatingModes) /\ c.shows = Verbatim(OperatingModes)
        BY <1>1 DEF BuildOperatingModeSelect, Select, Control
    <2>2. /\ Subscribed(c.to) /\ OwnerOf(c.to) = OwnerOf(e.topic) /\ MatchCommand(c.to) = c.field
        BY <2>1 DEF Subscribed, OwnerOf, MatchCommand, SystemSet, SystemState
    <2>3. ASSUME NEW o \in OperatingModes
          PROVE  /\ o \in Heard("operatingMode", o)
                 /\ Becomes("operatingMode", o) = {o}
        <3>1. o \in Heard("operatingMode", o)
            BY DEF OperatingModes, Heard
        <3>2. OperatingModeFromDevice(OperatingModeToDevice[o]) = o
            BY DEF OperatingModes, OperatingModeToDevice, OperatingModeFromDevice
        <3>3. Becomes("operatingMode", o) = {OperatingModeFromDevice(OperatingModeToDevice[o])}
            BY DEF Becomes, Posted
        <3> QED BY <3>1, <3>2, <3>3
    <2>4. DOMAIN Verbatim(OperatingModes) = OperatingModes
            /\ \A o \in OperatingModes : Verbatim(OperatingModes)[o] = o
        BY DEF Verbatim
    <2> QED BY <2>1, <2>2, <2>3, <2>4 DEF ControlTakes
<1>2. CASE e = BuildEnergyLevelSelect
    <2>1. /\ e.topic = SystemState /\ c.to = SystemSet("energy_level") /\ c.field = "energyLevel"
          /\ c.says = Verbatim(EnergyLevels) /\ c.shows = Verbatim(EnergyLevels)
        BY <1>2 DEF BuildEnergyLevelSelect, Select, Control
    <2>2. /\ Subscribed(c.to) /\ OwnerOf(c.to) = OwnerOf(e.topic) /\ MatchCommand(c.to) = c.field
        BY <2>1 DEF Subscribed, OwnerOf, MatchCommand, SystemSet, SystemState
    <2>3. ASSUME NEW o \in EnergyLevels
          PROVE  /\ o \in Heard("energyLevel", o)
                 /\ Becomes("energyLevel", o) = {o}
        <3>1. o \in Heard("energyLevel", o)
            BY DEF EnergyLevels, Heard
        <3>2. EnergyLevelFromDevice(EnergyLevelToDevice[o]) = o
            BY DEF EnergyLevels, EnergyLevelToDevice, EnergyLevelFromDevice
        <3>3. Becomes("energyLevel", o) = {EnergyLevelFromDevice(EnergyLevelToDevice[o])}
            BY DEF Becomes, Posted
        <3> QED BY <3>1, <3>2, <3>3
    <2>4. DOMAIN Verbatim(EnergyLevels) = EnergyLevels
            /\ \A o \in EnergyLevels : Verbatim(EnergyLevels)[o] = o
        BY DEF Verbatim
    <2> QED BY <2>1, <2>2, <2>3, <2>4 DEF ControlTakes
<1> QED BY <1>1, <1>2

LEMMA ClimateTakes ==
    ASSUME NEW r, NEW cooling \in BOOLEAN, NEW c \in BuildRoomClimate(r, cooling).controls
    PROVE  ControlTakes(BuildRoomClimate(r, cooling), c)
<1> DEFINE e == BuildRoomClimate(r, cooling)
<1>1. /\ e.topic = RoomState(r)
      /\ c \in {Control(RoomSet(r, "setpoint"), "setpoint",
                        Verbatim(Degrees(cooling)), Verbatim(Degrees(cooling))),
                Control(RoomSet(r, "mode"), "mode", HaModeToRoom(cooling), RoomModeToHa(cooling)),
                Control(RoomSet(r, "mode"), "mode", Verbatim(RoomModes), Verbatim(RoomModes))}
    BY DEF BuildRoomClimate
<1>2. /\ Subscribed(RoomSet(r, "setpoint")) /\ OwnerOf(RoomSet(r, "setpoint")) = OwnerOf(e.topic)
      /\ MatchCommand(RoomSet(r, "setpoint")) = "setpoint"
      /\ Subscribed(RoomSet(r, "mode")) /\ OwnerOf(RoomSet(r, "mode")) = OwnerOf(e.topic)
      /\ MatchCommand(RoomSet(r, "mode")) = "mode"
    BY <1>1, RoomCommands DEF RoomTopics
<1>3. \A m \in RoomModes : Heard("mode", m) = {m}
    BY DEF Heard
<1>4. \A m \in RoomModes : Becomes("mode", m) = {m}
    BY DEF RoomModes, Becomes, Posted, RoomModeToDevice, RoomModeFromDevice, StatesOf
<1> HIDE DEF e
<1>5. CASE c = Control(RoomSet(r, "setpoint"), "setpoint",
                       Verbatim(Degrees(cooling)), Verbatim(Degrees(cooling)))
    <2>1. ASSUME NEW o \in Degrees(cooling)
          PROVE  /\ Heard("setpoint", o) = {o}
                 /\ Becomes("setpoint", o) = {o}
        <3>1. o \in Int
            BY DEF Degrees
        <3>2. DialOf(SetpointToDeviceForm(o)) = o
            BY <3>1 DEF DialOf, SetpointToDeviceForm
        <3> QED BY <3>2 DEF Heard, Becomes, Posted
    <2>2. DOMAIN Verbatim(Degrees(cooling)) = Degrees(cooling)
            /\ \A o \in Degrees(cooling) : Verbatim(Degrees(cooling))[o] = o
        BY DEF Verbatim
    <2>3. /\ c.to = RoomSet(r, "setpoint") /\ c.field = "setpoint"
          /\ c.says = Verbatim(Degrees(cooling)) /\ c.shows = Verbatim(Degrees(cooling))
        BY <1>5 DEF Control
    <2>4. ControlTakes(e, c)
        BY <1>2, <2>1, <2>2, <2>3 DEF ControlTakes
    <2> QED BY <2>4 DEF e
<1>6. CASE c = Control(RoomSet(r, "mode"), "mode", HaModeToRoom(cooling), RoomModeToHa(cooling))
    <2>1. ASSUME NEW o \in {"off", ActiveMode(cooling)}
          PROVE  /\ HaModeToRoom(cooling)[o] \in RoomModes
                 /\ RoomModeToHa(cooling)[HaModeToRoom(cooling)[o]] = o
        BY DEF HaModeToRoom, RoomModeToHa, RoomModes, ActiveMode
    <2>2. /\ DOMAIN HaModeToRoom(cooling) = {"off", ActiveMode(cooling)}
          /\ DOMAIN RoomModeToHa(cooling) = RoomModes
        BY DEF HaModeToRoom, RoomModeToHa
    <2>3. /\ c.to = RoomSet(r, "mode") /\ c.field = "mode"
          /\ c.says = HaModeToRoom(cooling) /\ c.shows = RoomModeToHa(cooling)
        BY <1>6 DEF Control
    <2>4. ControlTakes(e, c)
        BY <1>2, <1>3, <1>4, <2>1, <2>2, <2>3 DEF ControlTakes
    <2> QED BY <2>4 DEF e
<1>7. CASE c = Control(RoomSet(r, "mode"), "mode", Verbatim(RoomModes), Verbatim(RoomModes))
    <2>2. DOMAIN Verbatim(RoomModes) = RoomModes
            /\ \A o \in RoomModes : Verbatim(RoomModes)[o] = o
        BY DEF Verbatim
    <2>3. /\ c.to = RoomSet(r, "mode") /\ c.field = "mode"
          /\ c.says = Verbatim(RoomModes) /\ c.shows = Verbatim(RoomModes)
        BY <1>7 DEF Control
    <2>4. ControlTakes(e, c)
        BY <1>2, <1>3, <1>4, <2>2, <2>3 DEF ControlTakes
    <2> QED BY <2>4 DEF e
<1> QED BY <1>1, <1>5, <1>6, <1>7

LEMMA SensorsAreReadOnly ==
    ASSUME NEW r, NEW e \in SensorsOf(r) \cup {BuildOutdoor, BuildOutdoorOffset, BuildAlarms, BuildAlarmsCount}
    PROVE  e.controls = {}
BY DEF ReadOnly, SensorsOf, BuildRoomHumidity, BuildRoomFlap, BuildRoomFan, BuildRoomCalibration,
       BuildOutdoor, BuildOutdoorOffset, BuildAlarms, BuildAlarmsCount

\* Whatever a user picks in a control, of any room of any Store, is a command
\* that the bridge is subscribed to, takes for that room or the system, and
\* whose result shows as what was picked.
THEOREM ControlsAreObeyed ==
    ASSUME NEW s, NEW e \in BuildAllDiscovery(s), NEW c \in e.controls
    PROVE  ControlTakes(e, c)
<1>1. CASE e \in SystemEntities
    <2>1. e \in {BuildOperatingModeSelect, BuildEnergyLevelSelect}
        BY <1>1, SensorsAreReadOnly DEF SystemEntities
    <2> QED BY <2>1, SelectTakes
<1>2. ASSUME NEW r \in DOMAIN s.rooms,
             e \in {BuildRoomClimate(r, IsSystemCooling(s))} \cup SensorsOf(r) \cup SwitchesOf(r)
      PROVE  ControlTakes(e, c)
    <2>1. CASE e = BuildRoomClimate(r, IsSystemCooling(s))
        <3>1. IsSystemCooling(s) \in BOOLEAN
            BY DEF IsSystemCooling
        <3> QED BY <2>1, <3>1, ClimateTakes
    <2>2. CASE e \in SensorsOf(r)
        BY <2>2, SensorsAreReadOnly
    <2>3. CASE e \in SwitchesOf(r)
        <3>1. /\ MatchCommand(RoomSet(r, "light")) = "light"
              /\ MatchCommand(RoomSet(r, "lock")) = "lock"
              /\ MatchCommand(RoomSet(r, "auto_start")) = "autoStart"
              /\ MatchCommand(RoomSet(r, "window_detection")) = "windowDetection"
            BY RoomCommands DEF RoomTopics
        <3>2. CASE e = BuildRoomLightSwitch(r)
            BY <3>1, <3>2, SwitchTakes DEF BuildRoomLightSwitch, RoomTopics
        <3>3. CASE e = BuildRoomLockSwitch(r)
            BY <3>1, <3>3, SwitchTakes DEF BuildRoomLockSwitch, RoomTopics
        <3>4. CASE e = BuildRoomAutoStart(r)
            BY <3>1, <3>4, SwitchTakes DEF BuildRoomAutoStart, RoomTopics
        <3>5. CASE e = BuildRoomWindowDetection(r)
            BY <3>1, <3>5, SwitchTakes DEF BuildRoomWindowDetection, RoomTopics
        <3> QED BY <2>3, <3>2, <3>3, <3>4, <3>5 DEF SwitchesOf
    <2> QED BY <1>2, <2>1, <2>2, <2>3
<1>3. CASE ForIo(e, s.io)
    <2>1. \A component, of, topic, fields :
              ReadOnly(component, of, topic, fields).controls = {}
        BY DEF ReadOnly
    <2>2. e.controls = {}
        BY <1>3, <2>1 DEF ForIo
    <2> QED BY <2>2
<1> QED BY <1>1, <1>2, <1>3, EntityKinds

\* So it is for the rooms of every reachable state, in each season.
THEOREM ControlsObeyed == Spec => []ControlsReachTheirTarget
<1>1. HomeInv => ControlsReachTheirTarget
    <2> SUFFICES ASSUME HomeInv PROVE ControlsReachTheirTarget
        OBVIOUS
    <2> DEFINE p == <<room, season>>
    <2>1. p \in Stores
        BY DEF HomeInv, TypeOK, Stores
    <2> HIDE DEF p
    <2>2. \A e \in BuildAllDiscovery(Snapshot(p[1], p[2], NoIO)) :
              \A c \in e.controls : ControlTakes(e, c)
        BY ControlsAreObeyed
    <2>3. p \in Obeyed
        BY <2>1, <2>2 DEF Obeyed
    <2> QED BY <2>3 DEF p, ControlsReachTheirTarget
<1> QED BY <1>1, HomeCorrect, PTL

-----------------------------------------------------------------------------
(* What the entities read, and their ids, of any Store.                    *)

LEMMA FieldsPublished ==
    ASSUME NEW s
    PROVE  /\ \A r \in DOMAIN s.rooms : FieldsOn(RoomState(r), s) = RoomFields
           /\ FieldsOn(SystemState, s) = SystemFields
           /\ FieldsOn(AlarmsActive, s) = {"payload"}
           /\ FieldsOn(AlarmsCount, s) = {"payload"}
           /\ s.io # NoIO =>
                 FieldsOn(Io, s) =
                    MasterChannels(s.io)
                      \cup UNION {ModuleChannels(s.io, k) \cup {<<k, "aoPct">>} : k \in DOMAIN s.io.umodules}
<1>1. /\ \A r : RoomState(r) # SystemState /\ RoomState(r) # Io
                  /\ RoomState(r) # AlarmsActive /\ RoomState(r) # AlarmsCount
      /\ SystemState # AlarmsActive /\ SystemState # AlarmsCount /\ SystemState # Io
      /\ AlarmsActive # Io /\ AlarmsCount # Io
    BY DEF RoomState, SystemState, Io, AlarmsActive, AlarmsCount
<1>2. \A r \in DOMAIN s.rooms : FieldsOn(RoomState(r), s) = RoomFields
    BY <1>1 DEF FieldsOn
<1>3. FieldsOn(SystemState, s) = SystemFields
    BY <1>1 DEF FieldsOn
<1>4. FieldsOn(AlarmsActive, s) = {"payload"}
    BY <1>1 DEF FieldsOn
<1>5. FieldsOn(AlarmsCount, s) = {"payload"}
    BY <1>1 DEF FieldsOn
<1>6. s.io # NoIO =>
         FieldsOn(Io, s) =
            MasterChannels(s.io)
              \cup UNION {ModuleChannels(s.io, k) \cup {<<k, "aoPct">>} : k \in DOMAIN s.io.umodules}
    BY <1>1 DEF FieldsOn
<1> QED BY <1>2, <1>3, <1>4, <1>5, <1>6

LEMMA ReadOnlyReads ==
    \A component, of, topic, fields :
        /\ ReadOnly(component, of, topic, fields).topic = topic
        /\ ReadOnly(component, of, topic, fields).fields = fields
BY DEF ReadOnly

LEMMA SystemReads ==
    ASSUME NEW s, NEW e \in SystemEntities
    PROVE  ReadsWhatIsPublished(e, s)
<1>1. /\ e.topic \in {SystemState, AlarmsActive, AlarmsCount}
      /\ e.topic = SystemState => e.fields # {} /\ e.fields \subseteq SystemFields
      /\ e.topic # SystemState => e.fields = {"payload"}
    <2>1. CASE e \in {BuildOutdoor, BuildOutdoorOffset}
        BY <2>1, ReadOnlyReads DEF BuildOutdoor, BuildOutdoorOffset, SystemFields
    <2>2. CASE e \in {BuildOperatingModeSelect, BuildEnergyLevelSelect}
        BY <2>2 DEF BuildOperatingModeSelect, BuildEnergyLevelSelect, Select, SystemFields
    <2>3. CASE e \in {BuildAlarms, BuildAlarmsCount}
        <3>1. AlarmsActive # SystemState /\ AlarmsCount # SystemState
            BY DEF AlarmsActive, AlarmsCount, SystemState
        <3> QED BY <2>3, <3>1, ReadOnlyReads DEF BuildAlarms, BuildAlarmsCount
    <2> QED BY <2>1, <2>2, <2>3 DEF SystemEntities
<1> QED BY <1>1, FieldsPublished DEF ReadsWhatIsPublished

LEMMA RoomReads ==
    ASSUME NEW s, NEW r \in DOMAIN s.rooms, NEW cooling,
           NEW e \in {BuildRoomClimate(r, cooling)} \cup SensorsOf(r) \cup SwitchesOf(r)
    PROVE  ReadsWhatIsPublished(e, s)
<1>1. e.topic = RoomState(r) /\ e.fields # {} /\ e.fields \subseteq RoomFields
    <2>1. CASE e = BuildRoomClimate(r, cooling)
        BY <2>1 DEF BuildRoomClimate, RoomFields
    <2>2. CASE e \in SensorsOf(r)
        BY <2>2, ReadOnlyReads
           DEF SensorsOf, BuildRoomHumidity, BuildRoomFlap, BuildRoomFan, BuildRoomCalibration,
               RoomFields
    <2>3. CASE e \in SwitchesOf(r)
        BY <2>3
           DEF SwitchesOf, BuildRoomLightSwitch, BuildRoomLockSwitch, BuildRoomAutoStart,
               BuildRoomWindowDetection, Switch, RoomFields
    <2> QED BY <2>1, <2>2, <2>3
<1> QED BY <1>1, FieldsPublished DEF ReadsWhatIsPublished

LEMMA IoReads ==
    ASSUME NEW s, s.io # NoIO, NEW e, ForIo(e, s.io)
    PROVE  ReadsWhatIsPublished(e, s)
<1> DEFINE outputs(k) == ModuleChannels(s.io, k) \cup {<<k, "aoPct">>}
           all == MasterChannels(s.io) \cup UNION {outputs(k) : k \in DOMAIN s.io.umodules}
<1>1. e.topic = Io /\ \E c \in all : e.fields = {c}
    <2>1. ASSUME NEW c \in MasterChannels(s.io), e = ReadOnly("binary_sensor", c, Io, {c})
          PROVE  e.topic = Io /\ \E d \in all : e.fields = {d}
        <3>1. e.topic = Io /\ e.fields = {c}
            BY <2>1, ReadOnlyReads
        <3> QED BY <3>1
    <2>2. ASSUME NEW k \in DOMAIN s.io.umodules, NEW c \in ModuleChannels(s.io, k),
                 e = ReadOnly(IF c[2] = "aiC" THEN "sensor" ELSE "binary_sensor", c, Io, {c})
          PROVE  e.topic = Io /\ \E d \in all : e.fields = {d}
        <3>1. e.topic = Io /\ e.fields = {c}
            BY <2>2, ReadOnlyReads
        <3>2. c \in outputs(k)
            OBVIOUS
        <3>3. c \in all
            BY <3>2
        <3> QED BY <3>1, <3>3
    <2>3. ASSUME NEW k \in DOMAIN s.io.umodules, e = ReadOnly("sensor", <<k, "aoPct">>, Io, {<<k, "aoPct">>})
          PROVE  e.topic = Io /\ \E d \in all : e.fields = {d}
        <3> DEFINE c == <<k, "aoPct">>
        <3>1. e.topic = Io /\ e.fields = {c}
            BY <2>3, ReadOnlyReads
        <3>2. c \in outputs(k)
            OBVIOUS
        <3> HIDE DEF c
        <3>3. c \in all
            BY <3>2
        <3> QED BY <3>1, <3>3
    <2> HIDE DEF all
    <2> QED BY <2>1, <2>2, <2>3 DEF ForIo
<1>2. FieldsOn(Io, s) = all
    BY FieldsPublished
<1> HIDE DEF all
<1> QED BY <1>1, <1>2 DEF ReadsWhatIsPublished

LEMMA EntityReads ==
    ASSUME NEW s, NEW e \in BuildAllDiscovery(s)
    PROVE  ReadsWhatIsPublished(e, s)
<1>1. CASE e \in SystemEntities
    BY <1>1, SystemReads
<1>2. ASSUME NEW r \in DOMAIN s.rooms,
             e \in {BuildRoomClimate(r, IsSystemCooling(s))} \cup SensorsOf(r) \cup SwitchesOf(r)
      PROVE  ReadsWhatIsPublished(e, s)
    BY <1>2, RoomReads
<1>3. CASE s.io # NoIO /\ ForIo(e, s.io)
    BY <1>3, IoReads
<1> QED BY <1>1, <1>2, <1>3, EntityKinds

\* What an entity is, by its id: by the number of its levels, then by its last
\* one, which names what it shows of a room, a module or the system.
Named(e, id, cooling) ==
    /\ Len(id) = 2 =>
         IF id[1] = "climate"
         THEN e = BuildRoomClimate(id[2], cooling)
         ELSE /\ id[2] = "outdoor" => e = BuildOutdoor
              /\ id[2] = "outdoor_offset" => e = BuildOutdoorOffset
              /\ id[2] = "operating_mode" => e = BuildOperatingModeSelect
              /\ id[2] = "energy_level" => e = BuildEnergyLevelSelect
              /\ id[2] = "alarms_active" => e = BuildAlarms
              /\ id[2] = "alarms_count" => e = BuildAlarmsCount
    /\ Len(id) = 3 =>
         /\ id[3] = "light" => e = BuildRoomLightSwitch(id[2])
         /\ id[3] = "lock" => e = BuildRoomLockSwitch(id[2])
         /\ id[3] = "auto_start" => e = BuildRoomAutoStart(id[2])
         /\ id[3] = "window_detection" => e = BuildRoomWindowDetection(id[2])
         /\ id[3] = "humidity" => e = BuildRoomHumidity(id[2])
         /\ id[3] = "flap" => e = BuildRoomFlap(id[2])
         /\ id[3] = "fan_running" =>
               e = ReadOnly("binary_sensor", <<id[2], "fan_running">>, RoomState(id[2]), {"fanRunning"})
         /\ id[3] = "fan_speed" =>
               e = ReadOnly("sensor", <<id[2], "fan_speed">>, RoomState(id[2]), {"fanRunning", "fan"})
         /\ id[3] = "cal_temp" =>
               e = ReadOnly("sensor", <<id[2], "cal_temp">>, RoomState(id[2]), {"calibrationTemp"})
         /\ id[3] = "cal_humidity" =>
               e = ReadOnly("sensor", <<id[2], "cal_humidity">>, RoomState(id[2]), {"calibrationHumidity"})
         /\ id[3] = "aoPct" => e = ReadOnly("sensor", <<id[2], "aoPct">>, Io, {<<id[2], "aoPct">>})
    /\ Len(id) = 4 =>
         e = ReadOnly(id[1], <<id[2], id[3], id[4]>>, Io, {<<id[2], id[3], id[4]>>})

Ids ==
    [two |-> {"outdoor", "outdoor_offset", "operating_mode", "energy_level",
              "alarms_active", "alarms_count"},
     three |-> {"light", "lock", "auto_start", "window_detection", "humidity", "flap",
                "fan_running", "fan_speed", "cal_temp", "cal_humidity", "aoPct"}]

\* id is of an entity that Named knows.
IsId(id) ==
    \/ Len(id) = 2 /\ (id[1] = "climate" \/ id[2] \in Ids.two)
    \/ Len(id) = 3 /\ id[3] \in Ids.three
    \/ Len(id) = 4

LEMMA OnePerId ==
    ASSUME NEW id, IsId(id), NEW cooling, NEW e, NEW f, Named(e, id, cooling), Named(f, id, cooling)
    PROVE  e = f
<1>1. CASE Len(id) = 2
    BY <1>1 DEF IsId, Ids, Named
<1>2. CASE Len(id) = 3
    BY <1>2 DEF IsId, Ids, Named
<1>3. CASE Len(id) = 4
    BY <1>3 DEF IsId, Ids, Named
<1> QED BY <1>1, <1>2, <1>3 DEF IsId

LEMMA NamedInTwo ==
    ASSUME NEW a, NEW b, NEW cooling, NEW e
    PROVE  LET id == <<a, b>> IN
           /\ Len(id) = 2 /\ id[1] = a /\ id[2] = b
           /\ Named(e, id, cooling) <=>
                IF a = "climate"
                THEN e = BuildRoomClimate(b, cooling)
                ELSE /\ b = "outdoor" => e = BuildOutdoor
                     /\ b = "outdoor_offset" => e = BuildOutdoorOffset
                     /\ b = "operating_mode" => e = BuildOperatingModeSelect
                     /\ b = "energy_level" => e = BuildEnergyLevelSelect
                     /\ b = "alarms_active" => e = BuildAlarms
                     /\ b = "alarms_count" => e = BuildAlarmsCount
<1> DEFINE id == <<a, b>>
<1>1. Len(id) = 2 /\ id[1] = a /\ id[2] = b
    OBVIOUS
<1> HIDE DEF id
<1> QED BY <1>1 DEF Named

\* A component before the levels of an id.
LEMMA BeforeOne ==
    ASSUME NEW a, NEW b
    PROVE  <<a>> \o <<b>> = <<a, b>>
<1>1. <<a>> \in Seq({a, b}) /\ <<b>> \in Seq({a, b}) /\ <<a, b>> \in Seq({a, b})
    OBVIOUS
<1>2. Len(<<a>> \o <<b>>) = 2 /\ \A i \in 1..2 : (<<a>> \o <<b>>)[i] = <<a, b>>[i]
    BY <1>1, ConcatProperties
<1> QED BY <1>1, <1>2, ConcatProperties, SeqEqual

LEMMA BeforeTwo ==
    ASSUME NEW a, NEW b, NEW c
    PROVE  <<a>> \o <<b, c>> = <<a, b, c>>
<1>1. <<a>> \in Seq({a, b, c}) /\ <<b, c>> \in Seq({a, b, c}) /\ <<a, b, c>> \in Seq({a, b, c})
    OBVIOUS
<1>2. Len(<<a>> \o <<b, c>>) = 3 /\ \A i \in 1..3 : (<<a>> \o <<b, c>>)[i] = <<a, b, c>>[i]
    BY <1>1, ConcatProperties
<1> QED BY <1>1, <1>2, ConcatProperties, SeqEqual

LEMMA BeforeThree ==
    ASSUME NEW a, NEW b, NEW c, NEW d
    PROVE  <<a>> \o <<b, c, d>> = <<a, b, c, d>>
<1>1. /\ <<a>> \in Seq({a, b, c, d}) /\ <<b, c, d>> \in Seq({a, b, c, d})
      /\ <<a, b, c, d>> \in Seq({a, b, c, d})
    OBVIOUS
<1>2. Len(<<a>> \o <<b, c, d>>) = 4 /\ \A i \in 1..4 : (<<a>> \o <<b, c, d>>)[i] = <<a, b, c, d>>[i]
    BY <1>1, ConcatProperties
<1> QED BY <1>1, <1>2, ConcatProperties, SeqEqual

LEMMA ReadOnlyIds ==
    /\ \A component, x, topic, fields :
          ReadOnly(component, <<x>>, topic, fields).id = <<component, x>>
    /\ \A component, x, y, topic, fields :
          ReadOnly(component, <<x, y>>, topic, fields).id = <<component, x, y>>
    /\ \A component, x, y, z, topic, fields :
          ReadOnly(component, <<x, y, z>>, topic, fields).id = <<component, x, y, z>>
<1>1. \A component, of, topic, fields :
          ReadOnly(component, of, topic, fields).id = <<component>> \o of
    BY DEF ReadOnly
<1>2. \A component, x, topic, fields :
          ReadOnly(component, <<x>>, topic, fields).id = <<component, x>>
    BY <1>1, BeforeOne
<1>3. \A component, x, y, topic, fields :
          ReadOnly(component, <<x, y>>, topic, fields).id = <<component, x, y>>
    <2> TAKE component, x, y, topic, fields
    <2>1. <<component>> \o <<x, y>> = <<component, x, y>>
        BY Zenon, BeforeTwo
    <2> QED BY Zenon, <1>1, <2>1
<1>4. \A component, x, y, z, topic, fields :
          ReadOnly(component, <<x, y, z>>, topic, fields).id = <<component, x, y, z>>
    <2> TAKE component, x, y, z, topic, fields
    <2>1. <<component>> \o <<x, y, z>> = <<component, x, y, z>>
        BY BeforeThree
    <2> QED BY Zenon, <1>1, <2>1
<1> QED BY <1>2, <1>3, <1>4

LEMMA SystemNamed ==
    ASSUME NEW e \in SystemEntities, NEW cooling
    PROVE  IsId(e.id) /\ Named(e, e.id, cooling)
<1>1. /\ BuildOutdoor.id = <<"sensor", "outdoor">>
      /\ BuildOutdoorOffset.id = <<"sensor", "outdoor_offset">>
      /\ BuildOperatingModeSelect.id = <<"select", "operating_mode">>
      /\ BuildEnergyLevelSelect.id = <<"select", "energy_level">>
      /\ BuildAlarms.id = <<"binary_sensor", "alarms_active">>
      /\ BuildAlarmsCount.id = <<"sensor", "alarms_count">>
    BY ReadOnlyIds DEF Select, BuildOutdoor, BuildOutdoorOffset, BuildOperatingModeSelect,
           BuildEnergyLevelSelect, BuildAlarms, BuildAlarmsCount
<1>2. PICK a \in {"sensor", "select", "binary_sensor"}, b \in Ids.two : e.id = <<a, b>>
    BY <1>1 DEF SystemEntities, Ids
<1>3. IsId(e.id)
    BY <1>2 DEF IsId
<1>4. a # "climate" /\ e.id[2] = b
    BY <1>2
<1>5. /\ b = "outdoor" => e = BuildOutdoor
      /\ b = "outdoor_offset" => e = BuildOutdoorOffset
      /\ b = "operating_mode" => e = BuildOperatingModeSelect
      /\ b = "energy_level" => e = BuildEnergyLevelSelect
      /\ b = "alarms_active" => e = BuildAlarms
      /\ b = "alarms_count" => e = BuildAlarmsCount
    BY <1>1, <1>4 DEF SystemEntities
<1>6. Named(e, <<a, b>>, cooling)
    BY <1>4, <1>5, NamedInTwo
<1> QED BY <1>2, <1>3, <1>6

\* The ids of room r's entities.
LEMMA ClimateId == \A r, cooling : BuildRoomClimate(r, cooling).id = <<"climate", r>>
BY DEF BuildRoomClimate

LEMMA SwitchIds ==
    ASSUME NEW r
    PROVE  /\ BuildRoomLightSwitch(r).id = <<"switch", r, "light">>
           /\ BuildRoomLockSwitch(r).id = <<"switch", r, "lock">>
           /\ BuildRoomAutoStart(r).id = <<"switch", r, "auto_start">>
           /\ BuildRoomWindowDetection(r).id = <<"switch", r, "window_detection">>
BY DEF Switch, BuildRoomLightSwitch, BuildRoomLockSwitch, BuildRoomAutoStart,
       BuildRoomWindowDetection

LEMMA SensorIds ==
    ASSUME NEW r
    PROVE  /\ BuildRoomHumidity(r).id = <<"sensor", r, "humidity">>
           /\ BuildRoomFlap(r).id = <<"binary_sensor", r, "flap">>
BY ReadOnlyIds DEF BuildRoomHumidity, BuildRoomFlap

LEMMA NamedInThree ==
    ASSUME NEW a, NEW x, NEW y \in Ids.three, NEW cooling, NEW e,
           y = "light" => e = BuildRoomLightSwitch(x),
           y = "lock" => e = BuildRoomLockSwitch(x),
           y = "auto_start" => e = BuildRoomAutoStart(x),
           y = "window_detection" => e = BuildRoomWindowDetection(x),
           y = "humidity" => e = BuildRoomHumidity(x),
           y = "flap" => e = BuildRoomFlap(x),
           y = "fan_running" =>
              e = ReadOnly("binary_sensor", <<x, "fan_running">>, RoomState(x), {"fanRunning"}),
           y = "fan_speed" =>
              e = ReadOnly("sensor", <<x, "fan_speed">>, RoomState(x), {"fanRunning", "fan"}),
           y = "cal_temp" =>
              e = ReadOnly("sensor", <<x, "cal_temp">>, RoomState(x), {"calibrationTemp"}),
           y = "cal_humidity" =>
              e = ReadOnly("sensor", <<x, "cal_humidity">>, RoomState(x), {"calibrationHumidity"}),
           y = "aoPct" => e = ReadOnly("sensor", <<x, "aoPct">>, Io, {<<x, "aoPct">>})
    PROVE  IsId(<<a, x, y>>) /\ Named(e, <<a, x, y>>, cooling)
<1> DEFINE id == <<a, x, y>>
<1>1. Len(id) = 3 /\ id[2] = x /\ id[3] = y
    OBVIOUS
<1> HIDE DEF id
<1>2. IsId(id)
    BY <1>1 DEF IsId
<1>3. Named(e, id, cooling)
    BY <1>1 DEF Named
<1> QED BY <1>2, <1>3 DEF id

LEMMA RoomNamed ==
    ASSUME NEW r, NEW cooling,
           NEW e \in {BuildRoomClimate(r, cooling)} \cup SensorsOf(r) \cup SwitchesOf(r)
    PROVE  IsId(e.id) /\ Named(e, e.id, cooling)
<1>1. CASE e = BuildRoomClimate(r, cooling)
    <2>1. e.id = <<"climate", r>>
        BY <1>1, ClimateId
    <2>2. IsId(<<"climate", r>>)
        BY DEF IsId
    <2>3. Named(e, <<"climate", r>>, cooling)
        BY <1>1, NamedInTwo
    <2> QED BY <2>1, <2>2, <2>3
<1>2. CASE e \in SwitchesOf(r)
    <2>1. PICK y \in {"light", "lock", "auto_start", "window_detection"} :
              /\ e.id = <<"switch", r, y>>
              /\ y = "light" => e = BuildRoomLightSwitch(r)
              /\ y = "lock" => e = BuildRoomLockSwitch(r)
              /\ y = "auto_start" => e = BuildRoomAutoStart(r)
              /\ y = "window_detection" => e = BuildRoomWindowDetection(r)
        BY <1>2, SwitchIds DEF SwitchesOf
    <2>2. y \in Ids.three
        BY DEF Ids
    <2> QED BY <2>1, <2>2, NamedInThree
<1>3. CASE e \in SensorsOf(r)
    <2>1. CASE e = BuildRoomHumidity(r)
        <3>1. e.id = <<"sensor", r, "humidity">> /\ "humidity" \in Ids.three
            BY <2>1, SensorIds DEF Ids
        <3> QED BY <2>1, <3>1, NamedInThree
    <2>2. CASE e = BuildRoomFlap(r)
        <3>1. e.id = <<"binary_sensor", r, "flap">> /\ "flap" \in Ids.three
            BY <2>2, SensorIds DEF Ids
        <3> QED BY <2>2, <3>1, NamedInThree
    <2>3. CASE e \in BuildRoomFan(r)
        <3>0. "fan_running" \in Ids.three /\ "fan_speed" \in Ids.three
            BY DEF Ids
        <3>1. CASE e = ReadOnly("binary_sensor", <<r, "fan_running">>, RoomState(r), {"fanRunning"})
            <4>1. e.id = <<"binary_sensor", r, "fan_running">>
                BY <3>1, ReadOnlyIds
            <4> QED BY <3>0, <3>1, <4>1, NamedInThree
        <3>2. CASE e = ReadOnly("sensor", <<r, "fan_speed">>, RoomState(r), {"fanRunning", "fan"})
            <4>1. e.id = <<"sensor", r, "fan_speed">>
                BY <3>2, ReadOnlyIds
            <4> QED BY <3>0, <3>2, <4>1, NamedInThree
        <3> QED BY <2>3, <3>1, <3>2 DEF BuildRoomFan
    <2>4. CASE e \in BuildRoomCalibration(r)
        <3>1. PICK y \in {"cal_temp", "cal_humidity"} :
                  /\ e.id = <<"sensor", r, y>>
                  /\ y = "cal_temp" =>
                        e = ReadOnly("sensor", <<r, "cal_temp">>, RoomState(r), {"calibrationTemp"})
                  /\ y = "cal_humidity" =>
                        e = ReadOnly("sensor", <<r, "cal_humidity">>, RoomState(r), {"calibrationHumidity"})
            BY <2>4, ReadOnlyIds DEF BuildRoomCalibration
        <3>2. y \in Ids.three
            BY DEF Ids
        <3> QED BY <3>1, <3>2, NamedInThree
    <2> QED BY <1>3, <2>1, <2>2, <2>3, <2>4 DEF SensorsOf
<1> QED BY <1>1, <1>2, <1>3

LEMMA ChannelNamed ==
    ASSUME NEW a, NEW x, NEW y, NEW z, NEW cooling, NEW e,
           e = ReadOnly(a, <<x, y, z>>, Io, {<<x, y, z>>})
    PROVE  IsId(e.id) /\ Named(e, e.id, cooling)
<1> DEFINE id == <<a, x, y, z>>
<1>1. e.id = id
    BY ReadOnlyIds
<1>2. Len(id) = 4 /\ id[1] = a /\ id[2] = x /\ id[3] = y /\ id[4] = z
    OBVIOUS
<1> HIDE DEF id
<1>3. IsId(id) /\ Named(e, id, cooling)
    BY <1>2 DEF IsId, Named
<1> QED BY <1>1, <1>3

LEMMA IoNamed ==
    ASSUME NEW io, NEW e, ForIo(e, io), NEW cooling
    PROVE  IsId(e.id) /\ Named(e, e.id, cooling)
<1>1. ASSUME NEW c \in MasterChannels(io), e = ReadOnly("binary_sensor", c, Io, {c})
      PROVE  IsId(e.id) /\ Named(e, e.id, cooling)
    <2>1. PICK y, z : c = <<"master", y, z>>
        BY DEF MasterChannels
    <2> QED BY <1>1, <2>1, ChannelNamed
<1>2. ASSUME NEW k \in DOMAIN io.umodules, NEW c \in ModuleChannels(io, k), NEW a,
             e = ReadOnly(a, c, Io, {c})
      PROVE  IsId(e.id) /\ Named(e, e.id, cooling)
    <2>1. PICK y, z : c = <<k, y, z>>
        BY DEF ModuleChannels
    <2> QED BY <1>2, <2>1, ChannelNamed
<1>3. ASSUME NEW k, e = ReadOnly("sensor", <<k, "aoPct">>, Io, {<<k, "aoPct">>})
      PROVE  IsId(e.id) /\ Named(e, e.id, cooling)
    <2>1. e.id = <<"sensor", k, "aoPct">>
        BY <1>3, ReadOnlyIds
    <2>2. "aoPct" \in Ids.three
        BY DEF Ids
    <2>3. IsId(<<"sensor", k, "aoPct">>) /\ Named(e, <<"sensor", k, "aoPct">>, cooling)
        BY <1>3, <2>2, NamedInThree
    <2> QED BY <2>1, <2>3
<1> QED BY <1>1, <1>2, <1>3 DEF ForIo

LEMMA EntityNamed ==
    ASSUME NEW s, NEW e \in BuildAllDiscovery(s)
    PROVE  IsId(e.id) /\ Named(e, e.id, IsSystemCooling(s))
<1>1. CASE e \in SystemEntities
    BY <1>1, SystemNamed
<1>2. ASSUME NEW r \in DOMAIN s.rooms,
             e \in {BuildRoomClimate(r, IsSystemCooling(s))} \cup SensorsOf(r) \cup SwitchesOf(r)
      PROVE  IsId(e.id) /\ Named(e, e.id, IsSystemCooling(s))
    BY <1>2, RoomNamed
<1>3. CASE ForIo(e, s.io)
    BY <1>3, IoNamed
<1> QED BY <1>1, <1>2, <1>3, EntityKinds

\* Whatever the rooms and the modules of a Store, and whether or not its I/O
\* page has been read, an entity that the bridge announces reads fields that the
\* bridge publishes on the entity's topic, and no other has its id.
THEOREM EntitiesReadAndDiffer ==
    ASSUME NEW s, NEW e \in BuildAllDiscovery(s)
    PROVE  /\ ReadsWhatIsPublished(e, s)
           /\ \A f \in BuildAllDiscovery(s) : f.id = e.id => f = e
<1>1. ReadsWhatIsPublished(e, s)
    BY EntityReads
<1>2. ASSUME NEW f \in BuildAllDiscovery(s), f.id = e.id
      PROVE  f = e
    <2>1. IsId(e.id) /\ Named(e, e.id, IsSystemCooling(s)) /\ Named(f, e.id, IsSystemCooling(s))
        BY <1>2, EntityNamed
    <2> QED BY <2>1, OnePerId
<1> QED BY <1>1, <1>2

\* Every entity reads what the bridge publishes and no two share an id, in
\* every reachable state.
THEOREM EntitiesServed == Spec => []EntitiesAreServed
<1>1. HomeInv => EntitiesAreServed
    <2> SUFFICES ASSUME HomeInv PROVE EntitiesAreServed
        OBVIOUS
    <2> DEFINE p == <<room, season>>
    <2>1. p \in Stores
        BY DEF HomeInv, TypeOK, Stores
    <2> HIDE DEF p
    <2>2. ASSUME NEW io \in IOPages
          PROVE  LET s == Snapshot(p[1], p[2], io)
                     all == BuildAllDiscovery(s)
                 IN  \A e \in all :
                       /\ ReadsWhatIsPublished(e, s)
                       /\ \A f \in all : f.id = e.id => f = e
        BY EntitiesReadAndDiffer
    <2>3. p \in Served
        BY Zenon, <2>1, <2>2 DEF Served
    <2> QED BY <2>3 DEF p, EntitiesAreServed
<1> QED BY <1>1, HomeCorrect, PTL
=============================================================================
