----------------------------- MODULE WebEditors -----------------------------
(***************************************************************************)
(* The pages of the web application that keep edits of their own: the      *)
(* installer's editors, the time programs, and the floors and scenes of    *)
(* the System tab.  They share the bridge and the query cache but no entry *)
(* of it, so one behaviour stays with one of them, which the user leaves   *)
(* and comes back to.                                                      *)
(***************************************************************************)
EXTENDS SettingsPage, SettingsForm, DayProgram, ProgramsPage, ConfigPage

CONSTANT Pages    \* the pages whose behaviours are looked at

\* The page of the programs, or that page with other programs chosen on one tab only
\* (a bound: the other tab stays with its first program).
ProgramPages == {"programs", "daily", "weekly"}

ASSUME WebEditorsAssumption == Pages \subseteq {"installer", "system"} \cup ProgramPages

VARIABLE page

editorVars == <<page, settingsVars, programVars, configPageVars>>

Init ==
    /\ page \in Pages
    /\ SettingsInit /\ ProgramsInit /\ ConfigPageInit

Next ==
    /\ UNCHANGED page
    /\ \/ /\ page = "installer"
          /\ SettingsSteps \/ CloseEditor \/ \E g \in Groups : OpenEditor(g)
          /\ UNCHANGED <<programVars, configPageVars>>
       \/ /\ page \in ProgramPages
          /\ ProgramSteps \/ EnterPrograms \/ LeavePrograms
          /\ \A k \in DOMAIN selected \ {page} : page = "programs" \/ selected'[k] = selected[k]
          /\ UNCHANGED <<settingsVars, configPageVars>>
       \/ /\ page = "system"
          /\ ConfigPageSteps
          /\ UNCHANGED <<settingsVars, programVars>>

Spec == Init /\ [][Next]_editorVars

-----------------------------------------------------------------------------
\* Every variable holds what the code's types say it holds.
TypeOK == SettingsTypeOK /\ ProgramsTypeOK /\ ConfigPageTypeOK

\* What the installer's page sends as an update of some fields is one: the rest of
\* the group stays as it was to the last digit, although the controller's form has
\* every field of it (setSettings in source.ts).
SavesKeepTheRest == page = "installer" => WritesKeepTheRest

\* What the programs page paints as quarters and other clients name as intervals is
\* the same program: read, sent back, overlapping, past midnight or refused.
DayProgramsReadBack == page \in ProgramPages => IntervalsReadBack
=============================================================================
