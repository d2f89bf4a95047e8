---------------------------- MODULE SettingsPage ----------------------------
(***************************************************************************)
(* The editors of the installer tab (apps/web/src/features/installer):     *)
(* CalibrationTab and SettingsEditor.  An edit is written into the query   *)
(* cache at once and kept in a draft; Save sends the draft in one request, *)
(* Cancel throws it away, and leaving the editor sends what is left.  The  *)
(* bridge's settings and calibration routes are a register per group.      *)
(*                                                                         *)
(* Every edit has a value of its own, the number of the edit; 0 is what    *)
(* the controller had.  The calibration of a room is one record of two     *)
(* offsets, so an edit of one offset carries the shown value of the other  *)
(* one into the draft.                                                     *)
(***************************************************************************)
EXTENDS Naturals, WebQuery

CONSTANTS
    Groups,          \* editors: settings groups and "calibration"
    Items,           \* the fields of a group, or the offsets of a room
    MaxEdits,        \* bound: edits
    MaxSaves,        \* bound: requests
    MaxSaveFaults    \* bound: requests that fail

ASSUME SettingsPageAssumption ==
    MaxEdits \in Nat /\ MaxSaves \in Nat /\ MaxSaveFaults \in Nat

VARIABLES
    editor,       \* the mounted editor, or "none"
    groups,       \* group -> query entry ["installer", ...]
    draft,        \* pendingPatch / pending: a function from the edited items
    saves,        \* the requests under way, by their number
    saved,        \* how many requests there were
    opened,       \* `saved` when the editor was mounted
    device,       \* group -> what the controller has
    edits,        \* how many edits there were
    saveFaults,
    late,         \* history: items edited while a save of the editor was under way
    cancelled     \* history: edits thrown away with Cancel

settingsVars == <<editor, groups, draft, saves, saved, opened, device, edits,
                  saveFaults, late, cancelled>>

Settings == [Items -> 0..MaxEdits]
Patches == UNION {[S -> 0..MaxEdits] : S \in SUBSET Items}
NoDraft == <<>>

\* The items of `p` take its values, latest wins.
Merge(base, p) ==
    [x \in DOMAIN base \cup DOMAIN p |-> IF x \in DOMAIN p THEN p[x] ELSE base[x]]

SettingsInit ==
    /\ editor = "none"
    /\ groups = [g \in Groups |-> EmptyEntry]
    /\ draft = NoDraft
    /\ saves = <<>> /\ saved = 0 /\ opened = 0
    /\ device = [g \in Groups |-> [x \in Items |-> 0]]
    /\ edits = 0 /\ saveFaults = 0
    /\ late = {} /\ cancelled = {}

-----------------------------------------------------------------------------
Shown == groups[editor].data
IsOpen == editor # "none" /\ Shown # NoData

\* save.isPending of the mounted editor; SaveBar's buttons wait for it.
Saving == \E i \in DOMAIN saves : i > opened

\* Mutant of PatchOf: every editor sends its whole form.
PatchOfAll(x, v) == [Shown EXCEPT ![x] = v]

\* The patch of one edit: the calibration steppers send both offsets of a room.
PatchOf(x, v) ==
    IF editor = "calibration" THEN [Shown EXCEPT ![x] = v] ELSE [y \in {x} |-> v]

\* schedule(): shown at once, kept in the draft.
Edit(x) ==
    /\ IsOpen
    /\ edits < MaxEdits
    /\ edits' = edits + 1
    /\ LET p == PatchOf(x, edits')
       IN  /\ draft' = Merge(draft, p)
           /\ groups' = [groups EXCEPT ![editor] = SetData(@, Merge(Shown, p))]
           /\ late' = IF Saving THEN late \cup DOMAIN p ELSE late
    /\ UNCHANGED <<editor, saves, saved, opened, device, saveFaults, cancelled>>

\* save.mutate(draft).
SendDraft ==
    /\ saved < MaxSaves
    /\ saved' = saved + 1
    /\ saves' = [i \in DOMAIN saves \cup {saved'} |->
                   IF i \in DOMAIN saves THEN saves[i]
                   ELSE [group |-> editor, patch |-> draft, at |-> "sent", reply |-> NoData]]

\* onSave; the draft stays until the answer.
Save ==
    /\ draft # NoDraft /\ ~Saving
    /\ SendDraft
    /\ UNCHANGED <<editor, groups, draft, opened, device, edits, saveFaults, late, cancelled>>

\* The edits the user means: not the offset that an edit carried along.
OwnEdits(d) == {d[x] : x \in DOMAIN d} \ {0}

Cancel ==
    /\ draft # NoDraft /\ ~Saving
    /\ draft' = NoDraft
    /\ groups' = [groups EXCEPT ![editor] = Refetch(@)]
    /\ late' = {}
    /\ cancelled' = cancelled \cup OwnEdits(draft)
    /\ UNCHANGED <<editor, saves, saved, opened, device, edits, saveFaults>>

\* A query fetches when its editor mounts.
OpenEditor(g) ==
    /\ editor = "none"
    /\ editor' = g
    /\ opened' = saved
    /\ \E q \in Mounted(groups[g]) : groups' = [groups EXCEPT ![g] = q]
    /\ UNCHANGED <<draft, saves, saved, device, edits, saveFaults, late, cancelled>>

\* Mutant of LeftBehind: nothing is pushed when a save is under way already.
LeftBehindIdle == draft # NoDraft /\ ~Saving

\* The clean-up of the effect: what is still in the draft is sent, even if a
\* save of it is under way.
LeftBehind == draft # NoDraft

CloseEditor ==
    /\ editor # "none"
    /\ IF LeftBehind THEN SendDraft ELSE UNCHANGED <<saves, saved>>
    /\ editor' = "none"
    /\ draft' = NoDraft /\ late' = {}
    /\ UNCHANGED <<groups, opened, device, edits, saveFaults, cancelled>>

-----------------------------------------------------------------------------
(* The bridge and the answers.                                               *)
ServeSave(i) ==
    LET s == saves[i]
        done == Merge(device[s.group], s.patch)
    IN  /\ s.at = "sent"
        /\ device' = [device EXCEPT ![s.group] = done]
        /\ saves' = [saves EXCEPT ![i].at = "ok", ![i].reply = done]
        /\ UNCHANGED <<editor, groups, draft, saved, opened, edits, saveFaults, late, cancelled>>

\* Refused, or the answer of the controller was lost.
FailSave(i) ==
    LET s == saves[i]
    IN  /\ s.at = "sent"
        /\ saveFaults < MaxSaveFaults
        /\ saveFaults' = saveFaults + 1
        /\ \/ UNCHANGED device
           \/ device' = [device EXCEPT ![s.group] = Merge(@, s.patch)]
        /\ saves' = [saves EXCEPT ![i].at = "failed"]
        /\ UNCHANGED <<editor, groups, draft, saved, opened, edits, late, cancelled>>

\* What a successful save leaves in the editor's draft.
DraftAfterSave == NoDraft

\* onSuccess and onError run also for an editor that has gone, and then touch
\* its own, dead draft.  An unmounted query is marked and fetched on mount.
SettleSave(i) ==
    LET s == saves[i]
        mine == editor = s.group /\ i > opened
    IN  /\ s.at \in {"ok", "failed"}
        /\ groups' = [groups EXCEPT ![s.group] =
                        IF s.at = "ok" THEN SetData(@, s.reply)
                        ELSE IF editor = s.group THEN Refetch(@) ELSE @]
        /\ draft' = IF mine /\ s.at = "ok" THEN DraftAfterSave ELSE draft
        /\ late' = IF mine THEN {} ELSE late
        /\ saves' = [j \in DOMAIN saves \ {i} |-> saves[j]]
        /\ UNCHANGED <<editor, saved, opened, device, edits, saveFaults, cancelled>>

AnswerSettings(g) ==
    /\ Unanswered(groups[g])
    /\ groups' = [groups EXCEPT ![g] = Answer(@, device[g])]
    /\ UNCHANGED <<editor, draft, saves, saved, opened, device, edits, saveFaults, late, cancelled>>

\* The answer replaces what is shown, the optimistic values with it.
LandSettings(g) ==
    /\ Landing(groups[g])
    /\ groups' = [groups EXCEPT ![g] = Land(@)]
    /\ UNCHANGED <<editor, draft, saves, saved, opened, device, edits, saveFaults, late, cancelled>>

SettingsSteps ==
    \/ \E x \in Items : Edit(x)
    \/ Save \/ Cancel
    \/ \E i \in DOMAIN saves : ServeSave(i) \/ FailSave(i) \/ SettleSave(i)
    \/ \E g \in Groups : AnswerSettings(g) \/ LandSettings(g)

-----------------------------------------------------------------------------
SaveRecord == [group : Groups, patch : Patches, at : {"sent", "ok", "failed"},
               reply : Settings \cup {NoData}]

SettingsTypeOK ==
    /\ editor \in Groups \cup {"none"}
    /\ groups \in [Groups -> Entries(Settings)]
    /\ draft \in Patches
    /\ saved \in 0..MaxSaves /\ opened \in 0..saved
    /\ DOMAIN saves \subseteq 1..saved /\ saves \in [DOMAIN saves -> SaveRecord]
    /\ device \in [Groups -> Settings]
    /\ edits \in 0..MaxEdits /\ saveFaults \in 0..MaxSaveFaults
    /\ late \subseteq DOMAIN draft
    /\ cancelled \subseteq 1..edits

\* A request with the drafted value of x is under way, or was when x left the draft.
IsSent(x) ==
    \E t \in {saves[i] : i \in DOMAIN saves} \cup {saves'[i] : i \in DOMAIN saves'} :
        t.group = editor /\ x \in DOMAIN t.patch /\ t.patch[x] = draft[x]

\* The drafted value of x is an edit, and this step takes it out of the draft.
EditLeaves(x) == draft[x] # 0 /\ (x \in DOMAIN draft' => draft'[x] # draft[x])

\* The user edits x anew.
Reedited(x) == x \in DOMAIN draft' /\ draft'[x] = edits' /\ edits' > edits

\* The user edits the other offset of a room, and the value shown for x goes along.
CarriedOver(x) == editor = "calibration" /\ edits' > edits /\ draft'[x] = Shown[x]

\* "Push them anyway so a slow +/- session isn't lost" (Installer.tsx): an edit leaves
\* the draft into a request, through Cancel or for a newer edit of the same item, also
\* when the user goes away while an older save is under way or after one failed.
\* Two ways out are the code's and against its comments: the success of a save takes
\* along the edits made while it was under way (`late`: onSuccess empties the draft
\* whole), and in the calibration the value shown may replace an edit
\* (EditsYieldToEdits, which a run refutes).
DraftOnlyLeavesSent ==
    [][\A x \in DOMAIN draft : EditLeaves(x) =>
          \/ IsSent(x)
          \/ draft[x] \in cancelled'
          \/ Reedited(x) \/ CarriedOver(x)
          \/ x \in late /\ editor' = editor]_settingsVars

\* "So a slow +/- session isn't lost" (Installer.tsx): as long as an item is in the
\* draft, only a newer edit of the same item replaces its edit.
EditsYieldToEdits ==
    [][\A x \in DOMAIN draft \cap DOMAIN draft' : EditLeaves(x) => Reedited(x)]_settingsVars

\* "Discards the local draft" (Installer.tsx): no request of a settings group carries
\* an edit that was thrown away, even though the page goes on showing it until the
\* refetch lands.  (A calibration request may carry one, against that comment: the
\* patch of one offset takes the shown value of the other.)
CancelledNeverSent ==
    \A i \in DOMAIN saves : saves[i].group # "calibration" =>
        OwnEdits(saves[i].patch) \cap cancelled = {}
=============================================================================
