---------------------------- MODULE HomeAssistant ----------------------------
(***************************************************************************)
(* What Home Assistant is told through the MQTT broker                     *)
(* (apps/bridge/src/mqtt/client.ts and bridge.ts, core/store.ts, the       *)
(* shutdown in main.ts): availability, room state and discovery, across    *)
(* lost connections, crashes and restarts.                                 *)
(*                                                                         *)
(* All messages are retained and sent with QoS 1.  The client keeps them   *)
(* until the broker acknowledges them, sends the kept ones again in order  *)
(* after a reconnect, and loses them when the process dies; the broker     *)
(* publishes the will of a session that ended without a goodbye.  One room *)
(* stands for all: rooms have their own topics and share the discovery,    *)
(* which is that of module Discovery.                                      *)
(***************************************************************************)
EXTENDS Discovery, SequencesExt

CONSTANTS
    MaxBacklog,   \* bound: a poll ends only when fewer messages wait
    MaxChanges,   \* bound: times the season changes, or the capabilities of a polled room
    MaxCrashes,   \* bound: crashes and shutdowns
    MaxDrops      \* bound: times the connection to the broker is lost

ASSUME HomeAssistantAssumption ==
    MaxBacklog \in Nat /\ MaxChanges \in Nat /\ MaxCrashes \in Nat /\ MaxDrops \in Nat

VARIABLES
    reachable,  \* device.status: what the last poll said
    parity,     \* history: flips with every poll, so that each is a step
    proc,       \* the bridge process
    link,       \* the client's connection to the broker
    outbox,     \* messages the client keeps until they are acknowledged
    sent,       \* how many of them the broker has taken on this connection
    greeted,    \* publishCurrent() has run
    signature,  \* capabilitySignature
    room,       \* the Store's room
    season,     \* the season of the Store's operating mode
    retained,   \* the broker's retained messages
    ownWill,    \* the broker is to publish the will of this process's last session
    oldWill,    \* the same, of a session of a process that is gone
    changes,    \* changes so far
    crashes,    \* crashes and shutdowns so far
    drops       \* lost connections so far

clientVars == <<link, outbox, sent>>
storeVars == <<reachable, parity, room, season, changes>>
brokerVars == <<retained, ownWill, oldWill>>
faultVars == <<crashes, drops>>
bridgeVars == <<greeted, signature>>
vars == <<proc, clientVars, bridgeVars, storeVars, brokerVars, faultVars>>

\* A room is not listed yet, listed without readings, or polled; "light" is the
\* one with all capabilities.
Room == {"none", "blank", "plain", "light"}
Season == {"none", "heating", "cooling"}
Availability == {"none", "online", "offline"}

Message ==
    [topic: {"availability"}, payload: Availability]
    \cup [topic: {"room"}, payload: Room]
    \cup [topic: {"climate"}, payload: Season]
    \cup [topic: {"light"}, payload: BOOLEAN]

Retained == [availability: Availability, room: Room, climate: Season, light: BOOLEAN]

Unpublished == <<"unpublished", "none">>

-----------------------------------------------------------------------------
(* Publishing.                                                             *)

\* publish(): kept for the broker, unless the client is being closed.
Publish(messages) == outbox' = IF proc = "running" THEN outbox \o messages ELSE outbox

\* What device.status is published as.
Online(b) == <<[topic |-> "availability", payload |-> IF b THEN "online" ELSE "offline"]>>

\* The Store when the one room is r, in season s.
Snapshot(r, s, io) ==
    [rooms |-> [x \in IF r = "none" THEN {} ELSE {"room"} |->
                   [hasLight |-> r = "light", hasFan |-> r = "light", hasFlap |-> r = "light"]],
     operatingMode |-> IF s = "cooling" THEN "manual_cooling" ELSE "manual_heating",
     io |-> io]

Stores == {<<r, s>> : r \in Room, s \in Season}

\* Two Stores with the same currentCapabilitySignature().
SameSignature ==
    {p \in {<<a, b>> : a \in Stores, b \in Stores} :
        CapabilitySignature(Snapshot(p[1][1], p[1][2], NoIO))
            = CapabilitySignature(Snapshot(p[2][1], p[2][2], NoIO))}

\* A signature, named by a Store that has it.
SignatureOf(r, s) == CHOOSE p \in Stores : <<p, <<r, s>>>> \in SameSignature

\* The Stores whose buildAllDiscovery() has the climate entity of the room, and
\* the switch of its light.
WithClimate ==
    {p \in Stores : \E e \in BuildAllDiscovery(Snapshot(p[1], p[2], NoIO)) :
        e.id = <<"climate", "room">>}

WithLight ==
    {p \in Stores : \E e \in BuildAllDiscovery(Snapshot(p[1], p[2], NoIO)) :
        e.id = <<"switch", "room", "light">>}

\* The messages of buildAllDiscovery() for the two entities in which Stores
\* differ, the climate entity by its season.  The switch of a light that is gone
\* is never taken back.
EntitiesOf(r, s) ==
    (IF <<r, s>> \in WithClimate THEN <<[topic |-> "climate", payload |-> s]>> ELSE <<>>)
        \o (IF <<r, s>> \in WithLight THEN <<[topic |-> "light", payload |-> TRUE]>> ELSE <<>>)

\* Mutant of PublishHaDiscovery: published once.
PublishHaDiscoveryOnce(r, s) ==
    IF signature = Unpublished THEN EntitiesOf(r, s) ELSE <<>>

\* publishHaDiscovery(): nothing unless the signature changed.
PublishHaDiscovery(r, s) ==
    IF SignatureOf(r, s) = signature THEN <<>> ELSE EntitiesOf(r, s)

RoomMessage(r) == <<[topic |-> "room", payload |-> r]>>

\* publishRoom and publishSystem end with publishHaDiscovery.
Announced(r, s) == signature' = SignatureOf(r, s)

\* publishCurrent(), once the client is connected.
Greet ==
    /\ proc = "running"
    /\ link = "up"
    /\ ~greeted
    /\ greeted' = TRUE
    /\ Announced(room, season)
    /\ Publish(PublishHaDiscovery(room, season) \o (IF room = "none" THEN <<>> ELSE RoomMessage(room)))
    /\ UNCHANGED <<proc, link, sent, storeVars, brokerVars, faultVars>>

-----------------------------------------------------------------------------
(* The end of a poll, in safe(): what it found is patched into the Store,   *)
(* whose events publish it, and then the reachability.                      *)

\* Mutant of SetReachable: device.status is emitted for changes only.
SetReachableOnChange(b) == IF b = reachable THEN <<>> ELSE Online(b)

\* setReachable() emits device.status whether or not anything changed.
SetReachable(b) == Online(b)

PollEnds ==
    /\ proc \in {"running", "stopping"}
    /\ Len(outbox) < MaxBacklog
    /\ parity' = ~parity

\* The poll failed: no answer, or a page that could not be read.
PollFails ==
    /\ PollEnds
    /\ reachable' = FALSE
    /\ Publish(SetReachable(FALSE))
    /\ UNCHANGED <<proc, link, sent, bridgeVars, room, season, changes, brokerVars, faultVars>>

\* A poll that found nothing new.
PollConfirms ==
    /\ PollEnds
    /\ reachable' = TRUE
    /\ Publish(SetReachable(TRUE))
    /\ UNCHANGED <<proc, link, sent, bridgeVars, room, season, changes, brokerVars, faultVars>>

\* pollRoomList creates the room.  ensureRoomForZone emits nothing; the patch
\* that follows emits room.changed if the list shows a temperature.
RoomListed ==
    /\ room = "none"
    /\ PollEnds
    /\ reachable' = TRUE
    /\ room' = "blank"
    /\ \/ Announced("blank", season)
          /\ Publish(RoomMessage("blank") \o PublishHaDiscovery("blank", season) \o SetReachable(TRUE))
       \/ UNCHANGED signature /\ Publish(SetReachable(TRUE))
    /\ UNCHANGED <<proc, link, sent, greeted, season, changes, brokerVars, faultVars>>

\* pollRoomDetail finds other capabilities, or readings for the first time.
RoomPolled(r) ==
    /\ room # "none"
    /\ r # room
    /\ \/ room = "blank" /\ UNCHANGED changes
       \/ room # "blank" /\ changes < MaxChanges /\ changes' = changes + 1
    /\ PollEnds
    /\ reachable' = TRUE
    /\ room' = r
    /\ Announced(r, season)
    /\ Publish(RoomMessage(r) \o PublishHaDiscovery(r, season) \o SetReachable(TRUE))
    /\ UNCHANGED <<proc, link, sent, greeted, season, brokerVars, faultVars>>

\* pollDashboard finds the other season.
SeasonPolled(s) ==
    /\ s # season
    /\ changes < MaxChanges
    /\ PollEnds
    /\ reachable' = TRUE
    /\ season' = s
    /\ changes' = changes + 1
    /\ Announced(room, s)
    /\ Publish(PublishHaDiscovery(room, s) \o SetReachable(TRUE))
    /\ UNCHANGED <<proc, link, sent, greeted, room, brokerVars, faultVars>>

-----------------------------------------------------------------------------
(* The client and the broker.                                              *)

\* A connection is made: a session of this process that the broker still
\* thought alive ends, the kept messages go out again, and the connect handler
\* says "online".
Connect ==
    /\ proc = "running"
    /\ link = "down"
    /\ link' = "up"
    /\ sent' = 0
    /\ Publish(Online(TRUE))
    /\ retained' = IF ownWill THEN [retained EXCEPT !.availability = "offline"] ELSE retained
    /\ ownWill' = FALSE
    /\ UNCHANGED <<proc, bridgeVars, storeVars, oldWill, faultVars>>

LinkDrops ==
    /\ link = "up"
    /\ drops < MaxDrops
    /\ drops' = drops + 1
    /\ link' = "down"
    /\ ownWill' = TRUE
    /\ UNCHANGED <<proc, outbox, sent, bridgeVars, storeVars, retained, oldWill,
                   crashes>>

\* The broker takes the next message.
BrokerTakes ==
    /\ link = "up"
    /\ sent < Len(outbox)
    /\ LET m == outbox[sent + 1]
       IN  retained' = [retained EXCEPT ![m.topic] = m.payload]
    /\ sent' = sent + 1
    /\ UNCHANGED <<proc, link, outbox, bridgeVars, storeVars, ownWill, oldWill,
                   faultVars>>

\* Its acknowledgement arrives.
Acknowledged ==
    /\ link = "up"
    /\ sent > 0
    /\ outbox' = Tail(outbox)
    /\ sent' = sent - 1
    /\ UNCHANGED <<proc, link, bridgeVars, storeVars, brokerVars, faultVars>>

\* The broker notices that a session is gone.
WillPublished ==
    /\ ownWill \/ oldWill
    /\ retained' = [retained EXCEPT !.availability = "offline"]
    /\ \/ ownWill /\ ownWill' = FALSE /\ UNCHANGED oldWill
       \/ oldWill /\ oldWill' = FALSE /\ UNCHANGED ownWill
    /\ UNCHANGED <<proc, clientVars, bridgeVars, storeVars, faultVars>>

-----------------------------------------------------------------------------
(* The process.                                                            *)

\* Mutant of Shutdown: the client is closed without the marker.
ShutdownSilent ==
    /\ proc = "running"
    /\ crashes < MaxCrashes
    /\ crashes' = crashes + 1
    /\ proc' = "stopping"
    /\ UNCHANGED <<clientVars, bridgeVars, storeVars, brokerVars, drops>>

\* SIGTERM: poller and client are stopped.  The marker is the last message the
\* client takes; polls that are under way still end.
Shutdown ==
    /\ proc = "running"
    /\ crashes < MaxCrashes
    /\ crashes' = crashes + 1
    /\ proc' = "stopping"
    /\ outbox' = outbox \o Online(FALSE)
    /\ UNCHANGED <<link, sent, bridgeVars, storeVars, brokerVars, drops>>

\* end() has delivered everything and said goodbye: the will is dropped.
Goodbye ==
    /\ proc = "stopping"
    /\ link = "up"
    /\ outbox = <<>>
    /\ proc' = "ended"
    /\ link' = "down"
    /\ UNCHANGED <<outbox, sent, bridgeVars, storeVars, brokerVars, faultVars>>

\* Mutant of Dies: the client was connected without a will.
DiesUnnoticed ==
    /\ \/ proc = "running" /\ crashes < MaxCrashes /\ crashes' = crashes + 1
       \/ proc = "stopping" /\ UNCHANGED crashes
    /\ proc' = "dead"
    /\ link' = "down"
    /\ outbox' = <<>>
    /\ sent' = 0
    /\ ownWill' = FALSE
    /\ UNCHANGED <<bridgeVars, storeVars, retained, oldWill, drops>>

\* The process dies: a crash, or a shutdown that does not get its messages to
\* the broker, which is given 3 s if it is connected.
Dies ==
    /\ \/ proc = "running" /\ crashes < MaxCrashes /\ crashes' = crashes + 1
       \/ proc = "stopping" /\ UNCHANGED crashes
    /\ proc' = "dead"
    /\ link' = "down"
    /\ outbox' = <<>>
    /\ sent' = 0
    /\ ownWill' = FALSE
    /\ oldWill' = (oldWill \/ ownWill \/ link = "up")
    /\ UNCHANGED <<bridgeVars, storeVars, retained, drops>>

\* A new process, with an empty Store and a client id of its own.
Restart ==
    /\ proc \in {"dead", "ended"}
    /\ proc' = "running"
    /\ reachable' = TRUE
    /\ parity' = FALSE
    /\ room' = "none"
    /\ season' = "heating"
    /\ greeted' = FALSE
    /\ signature' = Unpublished
    /\ UNCHANGED <<clientVars, brokerVars, changes, faultVars>>

-----------------------------------------------------------------------------
Init ==
    /\ reachable = TRUE
    /\ parity = FALSE
    /\ proc = "running"
    /\ link = "down"
    /\ outbox = <<>>
    /\ sent = 0
    /\ greeted = FALSE
    /\ signature = Unpublished
    /\ room = "none"
    /\ season = "heating"
    /\ retained = [availability |-> "none", room |-> "none",
                   climate |-> "none", light |-> FALSE]
    /\ ownWill = FALSE
    /\ oldWill = FALSE
    /\ changes = 0
    /\ crashes = 0
    /\ drops = 0

Polls ==
    \/ PollFails
    \/ PollConfirms
    \/ RoomListed
    \/ \E r \in {"plain", "light"} : RoomPolled(r)
    \/ \E s \in {"heating", "cooling"} : SeasonPolled(s)

Next ==
    \/ Polls
    \/ Greet
    \/ Connect
    \/ LinkDrops
    \/ BrokerTakes
    \/ Acknowledged
    \/ WillPublished
    \/ Shutdown
    \/ Goodbye
    \/ Dies
    \/ Restart

Spec == Init /\ [][Next]_vars

\* The timers poll for ever and every poll ends (MaxBacklog, which the code does
\* not have, may disable it for a while); publishCurrent's timer runs; the broker
\* takes and acknowledges what it is sent and notices in the end that a session
\* is gone.
Fairness ==
    /\ SF_vars(Polls)
    /\ SF_vars(Greet)
    /\ SF_vars(BrokerTakes)
    /\ SF_vars(Acknowledged)
    /\ WF_vars(WillPublished)

FairSpec == Spec /\ Fairness

-----------------------------------------------------------------------------
(* Properties.                                                             *)

TypeOK ==
    /\ reachable \in BOOLEAN /\ parity \in BOOLEAN
    /\ proc \in {"running", "stopping", "ended", "dead"}
    /\ link \in {"up", "down"}
    /\ outbox \in Seq(Message)
    /\ sent \in 0..Len(outbox)
    /\ greeted \in BOOLEAN
    /\ signature \in {Unpublished} \cup {SignatureOf(r, s) : r \in Room, s \in Season}
    /\ room \in Room
    /\ season \in Season
    /\ retained \in Retained
    /\ ownWill \in BOOLEAN /\ oldWill \in BOOLEAN
    /\ changes \in 0..MaxChanges
    /\ crashes \in 0..MaxCrashes
    /\ drops \in 0..MaxDrops

\* What subscribers of a topic will see when everything under way has arrived.
Delivered(topic) ==
    LET mine == {i \in 1..Len(outbox) : outbox[i].topic = topic}
    IN  IF mine = {} THEN retained[topic]
        ELSE outbox[CHOOSE i \in mine : \A j \in mine : j <= i].payload

\* Once the initial state is out, whatever the Store knows of a polled room and
\* of the season is with the broker or on its way there, in the right order:
\* lost connections, repeated messages and earlier lives of the bridge included.
RoomOnItsWay ==
    proc = "running" /\ greeted =>
        /\ room \in {"plain", "light"} =>
              Delivered("room") = room /\ Delivered("climate") = season
        /\ room = "light" => Delivered("light") = TRUE

\* A bridge that was shut down in good order is never shown as available.
EndedIsOffline == proc = "ended" => retained.availability = "offline"

\* A bridge that died is not shown as available for ever: whenever it is, the
\* broker still has the will of one of its sessions to publish.
DeadComesOffline == proc = "dead" /\ retained.availability = "online" => oldWill

\* What a section of the I/O page may show.
BanksOf(target) == IF target = "master" THEN {"rz", "relay", "di"}
                   ELSE IF target = "none" THEN {} ELSE {"relay", "di", "aiC", "aoPct"}

BlankModule == [relay |-> <<>>, di |-> <<>>, aiC |-> <<>>, aoPct |-> 0]

\* A heading opens the master's section or that of a module, from scratch; one
\* without a number is passed over.  A label fills its bank of the open section.
ReadIO(read, line) ==
    IF line.is = "heading" THEN
        IF line.of = "other" THEN read
        ELSE IF line.of = "master" THEN [read EXCEPT !.target = "master"]
        ELSE [target |-> line.of,
              io |-> [read.io EXCEPT !.umodules =
                         [k \in DOMAIN @ \cup {line.of} |-> IF k = line.of THEN BlankModule ELSE @[k]]]]
    ELSE IF line.is \notin BanksOf(read.target) THEN read
    ELSE IF read.target = "master" THEN [read EXCEPT !.io.master[line.is] = line.shows]
    ELSE [read EXCEPT !.io.umodules[read.target][line.is] = line.shows]

BlankIO == [master |-> [rz |-> <<>>, relay |-> <<>>, di |-> <<>>],
            umodules |-> [k \in {} |-> BlankModule]]

\* parseIO: the headings and labels of the page in their order.
ParseIO(lines) == FoldLeft(ReadIO, [target |-> "none", io |-> BlankIO], lines).io

Heading(of) == [is |-> "heading", of |-> of]
Label(bank, shows) == [is |-> bank, shows |-> shows]

MasterLines ==
    <<Heading("other"), Heading("master"), Label("rz", <<0, 1>>), Label("relay", <<0>>),
      Label("di", <<1>>)>>
ModuleLines ==
    <<Heading("umodule1"), Label("aiC", <<21, 30>>), Label("di", <<0>>), Label("relay", <<1>>),
      Label("aoPct", 40)>>

\* I/O pages: not read, a master alone, and a master with a module.
IOPages == {NoIO, ParseIO(MasterLines), ParseIO(MasterLines \o ModuleLines)}

Served ==
    {p \in Stores : \A io \in IOPages :
        LET s == Snapshot(p[1], p[2], io)
            all == BuildAllDiscovery(s)
        IN  \A e \in all :
                /\ ReadsWhatIsPublished(e, s)
                /\ \A f \in all : f.id = e.id => f = e}

\* Every entity reads fields that the bridge publishes on the entity's topic, and
\* no two share an id: discovery.ts, topics.ts and the shared types agree.
EntitiesAreServed == <<room, season>> \in Served

Obeyed ==
    {p \in Stores :
        \A e \in BuildAllDiscovery(Snapshot(p[1], p[2], NoIO)) :
            \A c \in e.controls : ControlTakes(e, c)}

\* Whatever a user picks in Home Assistant comes out of the bridge as the call
\* for that room or the system, and its result shows as what was picked: command
\* topics, payloads, subscriptions, parsing and templates agree.
ControlsReachTheirTarget == <<room, season>> \in Obeyed

Steady(b) == proc = "running" /\ link = "up" /\ reachable = b

\* Reconnects say "online", wills of past sessions say "offline", both at the
\* wrong time: once polls agree, availability comes to say what they say.
AvailabilityFollows ==
    \A b \in BOOLEAN :
        <>[]Steady(b) => <>[](retained.availability = (IF b THEN "online" ELSE "offline"))
=============================================================================
