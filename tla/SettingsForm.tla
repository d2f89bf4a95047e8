----------------------------- MODULE SettingsForm -----------------------------
(***************************************************************************)
(* How a settings group is written (apps/bridge/src/device/settings.ts and *)
(* setSettings in source.ts).  The controller's page is one form: a write  *)
(* reads the page, puts the patch into what it read, and posts every field *)
(* of the group again, numbers with the decimals of their input, check     *)
(* boxes only if ticked.  Module SettingsPage takes such a write for an    *)
(* update of the patched fields; this module says why it may.              *)
(*                                                                         *)
(* Numbers are in hundredths, the finest step there is; a ticked box is 1, *)
(* one that is not is 0.                                                   *)
(***************************************************************************)
EXTENDS Integers

CONSTANTS
    Catalogue,     \* the fields of the group, by their names
    Numbers        \* values of number inputs

\* The kinds of a FieldDef.
Box == [kind |-> "boolean"]
Number(min, step) == [kind |-> "number", min |-> min, step |-> step]
IsBox(d) == d.kind = "boolean"

ASSUME SettingsFormAssumption ==
    /\ Numbers \subseteq Int
    /\ \A f \in DOMAIN Catalogue :
          \/ Catalogue[f] = Box
          \/ /\ Catalogue[f] = Number(Catalogue[f].min, Catalogue[f].step)
             /\ Catalogue[f].min \in Int /\ Catalogue[f].step \in Nat \ {0}

Ticks == {0, 1}
Names == DOMAIN Catalogue

\* What field f can be set to.
ValuesOf(f) == IF IsBox(Catalogue[f]) THEN Ticks ELSE Numbers

-----------------------------------------------------------------------------
\* The precision that a step calls for: whole, tenths or hundredths.
Precision(step) == IF step >= 100 THEN 100 ELSE IF step >= 10 THEN 10 ELSE 1

\* formatForDevice, as the number that it writes.
FormatForDevice(v, step) ==
    LET p == Precision(step) IN ((v + p \div 2) \div p) * p

\* parseSettings: an input that the page does not show counts as unticked, or
\* as its least value.
ParseSettings(inputs) ==
    [f \in Names |-> IF f \in DOMAIN inputs THEN inputs[f]
                      ELSE IF IsBox(Catalogue[f]) THEN 0 ELSE Catalogue[f].min]

\* mergeSettings; names that the group does not have are passed over.
MergeSettings(current, patch) ==
    [f \in Names |-> IF f \in DOMAIN patch THEN patch[f] ELSE current[f]]

\* Mutant of BuildSettingsForm: every check box is sent.
BuildSettingsFormAll(fields) ==
    [f \in Names |-> IF IsBox(Catalogue[f]) THEN "on"
                      ELSE FormatForDevice(fields[f], Catalogue[f].step)]

\* buildSettingsForm: a box that is not ticked is left out.
BuildSettingsForm(fields) ==
    [f \in {g \in Names : IsBox(Catalogue[g]) => fields[g] = 1} |->
        IF IsBox(Catalogue[f]) THEN "on"
        ELSE FormatForDevice(fields[f], Catalogue[f].step)]

\* The controller files a form: a box is ticked if it is named, and a number that
\* is not named stays.
FileForm(inputs, posted) ==
    [f \in DOMAIN inputs |-> IF IsBox(Catalogue[f]) THEN (IF f \in DOMAIN posted THEN 1 ELSE 0)
                            ELSE IF f \in DOMAIN posted THEN posted[f] ELSE inputs[f]]

\* setSettings: the page afterwards, and what the client is told it is.
SetSettings(inputs, patch) ==
    LET merged == MergeSettings(ParseSettings(inputs), patch)
    IN  [inputs |-> FileForm(inputs, BuildSettingsForm(merged)), fields |-> merged]

-----------------------------------------------------------------------------
\* A value that the input of field f can hold.
Exact(f, v) == IsBox(Catalogue[f]) \/ v % Precision(Catalogue[f].step) = 0

\* The pages that show the whole group, and the patches clients may send.
WholePages ==
    {before \in [Names -> Numbers \cup Ticks] :
        \A f \in Names : before[f] \in ValuesOf(f) /\ Exact(f, before[f])}

PatchesOf(S) == {patch \in [S -> Numbers \cup Ticks] : \A f \in S : patch[f] \in ValuesOf(f)}

\* Although a write posts the whole form, it changes the patched fields only: the
\* others keep their numbers to the last digit and their ticks, through reading,
\* merging, formatting and filing.  The client is told what the controller then
\* shows, provided it sent values that the inputs can hold.
SaveKeepsTheRest(before, patch) ==
    LET result == SetSettings(before, patch)
    IN  /\ \A f \in Names \ DOMAIN patch : result.inputs[f] = before[f]
        /\ \A f \in DOMAIN patch :
              Exact(f, patch[f]) => result.inputs[f] = patch[f]
        /\ (\A f \in DOMAIN patch : Exact(f, patch[f])) => result.fields = result.inputs

WritesKeepTheRest ==
    \A before \in WholePages, S \in SUBSET Names :
        \A patch \in PatchesOf(S) : SaveKeepsTheRest(before, patch)
=============================================================================
