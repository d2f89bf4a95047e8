----------------------------- MODULE AppShells -----------------------------
(***************************************************************************)
(* The web application around its pages (WebShell), the page of a room     *)
(* (RoomPage) and the mobile application around the web application        *)
(* (MobileShell).  They share no state but the verdict that disables the   *)
(* room's controls, which neither module needs: a behaviour follows one of *)
(* them.                                                                   *)
(***************************************************************************)
EXTENDS WebShell, RoomPage, MobileShell

VARIABLE app

appVars == <<app, webVars, roomVars, mobileVars>>

Init ==
    /\ app \in {"web", "room", "mobile"}
    /\ WebInit /\ RoomInit /\ MobileInit

Next ==
    /\ UNCHANGED app
    /\ \/ app = "web" /\ WebSteps /\ UNCHANGED <<roomVars, mobileVars>>
       \/ app = "room" /\ RoomNext /\ UNCHANGED <<webVars, mobileVars>>
       \/ app = "mobile" /\ MobileSteps /\ UNCHANGED <<webVars, roomVars>>

\* Of an application that does not run nothing is enabled.
FairSpec == Init /\ [][Next]_appVars /\ WebFairness /\ RoomFairness

-----------------------------------------------------------------------------
\* Every variable holds what the code's types say it holds.
TypeOK == WebShellTypeOK /\ RoomTypeOK /\ MobileTypeOK
=============================================================================
