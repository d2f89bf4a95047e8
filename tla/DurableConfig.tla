--------------------------- MODULE DurableConfig ---------------------------
(***************************************************************************)
(* What a client may expect of the settings the bridge keeps for its       *)
(* users: a value that every change replaces as a whole while the bridge   *)
(* runs, and that a restart gives back as it was when it was last made     *)
(* durable.  A change that could not be made durable is there until the    *)
(* process dies, and the next change that can be makes it durable with     *)
(* itself.                                                                 *)
(***************************************************************************)
CONSTANTS
    Values,        \* of the settings
    Restored(_)    \* what a restart makes of a durable value

VARIABLES current, durable, running

Init == running = TRUE /\ durable \in Values /\ current = Restored(durable)

Change ==
    /\ running /\ UNCHANGED running
    /\ current' \in Values
    /\ durable' \in {durable, current'}

\* What is in memory is lost: until the restart nobody is told `current`.
Die ==
    /\ running /\ running' = FALSE
    /\ UNCHANGED <<current, durable>>

Restart ==
    /\ ~running /\ running' = TRUE
    /\ current' = Restored(durable)
    /\ UNCHANGED durable

Spec == Init /\ [][Change \/ Die \/ Restart]_<<current, durable, running>>
=============================================================================
