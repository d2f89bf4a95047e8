----------------------------- MODULE RoomSyncMC -----------------------------
(* Values for checking RoomSync with TLC, and a start for its liveness.      *)
EXTENDS RoomSync

\* A room that is not in "normal" mode, so that slots are told apart, and whose
\* light is on, so that the bridge's own default for the light shows.
MCInitRoom ==
    [mode  |-> "reduced",
     light |-> TRUE,
     slots |-> [s \in Season |-> [k \in Slot |-> IF k = "normal" THEN 20 ELSE 18]],
     flags |-> {"lock"}]

\* What a bridge that believes in operating mode InitSysMode has read of InitRoom.
MCReadRoom ==
    LET slots == InitRoom.slots[SeasonOf(InitSysMode)]
    IN  [mode |-> InitRoom.mode, light |-> InitRoom.light, flags |-> InitRoom.flags,
         slots |-> slots, heating |-> slots[InitRoom.mode], cooling |-> Null]

\* The boot sequence is over and all rooms were read.  What is still to come is NCmds
\* calls, or one call less (that was refused while there were no readings) and the
\* changes at the panel.
MCBooted ==
    /\ ClientInit
    /\ listed = TRUE /\ boot = "done" /\ page = 2 * NZones /\ rrIndex = 0
    /\ devMode = InitSysMode /\ sysMode = InitSysMode
    /\ devRoom = [z \in Zones |-> InitRoom]
    /\ store = [z \in Zones |-> MCReadRoom]
    /\ \/ /\ panel = MaxPanel
          /\ cmd = [c \in Cmds |-> BlankCommand]
       \/ /\ panel = 0
          /\ cmd = [c \in Cmds |-> IF c = 1 THEN [BlankCommand EXCEPT !.st = "refused", !.kind = "light"]
                                   ELSE BlankCommand]

\* Nothing but the client's timeouts is taken for granted.
MCBootedSpec == MCBooted /\ [][Next]_vars /\ AnswersCome
=============================================================================
