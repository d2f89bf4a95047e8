------------------------- MODULE MobileShell_proofs -------------------------
(***************************************************************************)
(* ProbesServeTheScreen for any number of installations, selections,       *)
(* probes and restarts.                                                    *)
(***************************************************************************)
EXTENDS MobileShell, SequenceTheorems, TLAPS

Stored == [list : Seq(Installation), active : Installs \cup {None}]

MobileTyped ==
    /\ persisted \in Stored \cup {None}
    /\ disk \in Stored /\ unwritten \in Seq(Stored)
    /\ probes \in [DOMAIN probes -> Installation]
    /\ phase.kind \in {"connecting", "connected", "error"} => phase.at \in Installation

\* A web page that fails to load gets an error screen whose Retry must work.
ConnectedIsUnguarded == phase.kind = "connected" => probingRef # phase.at.id

MobileInv == MobileTyped /\ ProbesServeTheScreen /\ ConnectedIsUnguarded

-----------------------------------------------------------------------------
(* storage.ts                                                                *)
LEMMA ActiveIsInstalled ==
    ASSUME NEW p \in Stored, ActiveInstallation(p) # None
    PROVE  ActiveInstallation(p) \in Installation
<1>1. p.active \in Ids(p) /\ ActiveInstallation(p) = Installed(p, p.active)
  BY DEF ActiveInstallation
<1>2. \E i \in Range(p.list) : i.id = p.active
  BY <1>1 DEF Ids, Range
<1>3. Installed(p, p.active) \in Range(p.list)
  BY <1>2 DEF Installed
<1>4. Range(p.list) \subseteq Installation
  BY DEF Stored, Range
<1> QED BY <1>1, <1>3, <1>4

LEMMA SelectedIsInstalled ==
    ASSUME NEW p \in Stored, NEW id \in Ids(p)
    PROVE  Installed(p, id) \in Installation
<1>1. \E i \in Range(p.list) : i.id = id
  BY DEF Ids, Range
<1>2. Installed(p, id) \in Range(p.list)
  BY <1>1 DEF Installed
<1>3. Range(p.list) \subseteq Installation
  BY DEF Stored, Range
<1> QED BY <1>2, <1>3

LEMMA UpsertStored ==
    ASSUME NEW p \in Stored, NEW i \in Installation
    PROVE  UpsertInstallation(p, i) \in Stored
<1>1. p.list \in Seq(Installation) /\ p.active \in Installs \cup {None} /\ i.id \in Installs
  BY DEF Stored, Installation
<1>2. Append(p.list, i) \in Seq(Installation)
  BY <1>1
<1>3. [n \in DOMAIN p.list |-> IF p.list[n].id = i.id THEN i ELSE p.list[n]] \in Seq(Installation)
  BY <1>1
<1> QED BY <1>1, <1>2, <1>3 DEF UpsertInstallation, Stored

LEMMA FirstIdTyped ==
    ASSUME NEW list \in Seq(Installation)
    PROVE  FirstId(list) \in Installs \cup {None}
<1>1. CASE list = <<>>
  BY <1>1 DEF FirstId
<1>2. CASE list # <<>>
  <2>1. list[1] \in Installation
    BY <1>2, EmptySeq
  <2> QED BY <1>2, <2>1 DEF FirstId, Installation
<1> QED BY <1>1, <1>2

LEMMA DeleteStored ==
    ASSUME NEW p \in Stored, NEW id
    PROVE  DeleteInstallation(p, id) \in Stored
<1>1. p.list \in Seq(Installation) /\ p.active \in Installs \cup {None}
  BY DEF Stored
<1>2. Filtered(p.list, id) \in Seq(Installation)
  <2>1. CASE \A n \in DOMAIN p.list : p.list[n].id # id
    BY <1>1, <2>1 DEF Filtered
  <2>2. CASE \E n \in DOMAIN p.list : p.list[n].id = id
    <3> DEFINE k == CHOOSE n \in DOMAIN p.list : p.list[n].id = id
    <3>1. k \in DOMAIN p.list
      BY <2>2
    <3>2. k \in 1..Len(p.list) /\ Len(p.list) \in Nat
      BY <1>1, <3>1
    <3>3. Filtered(p.list, id) = SubSeq(p.list, 1, k - 1) \o SubSeq(p.list, k + 1, Len(p.list))
      BY <2>2 DEF Filtered, RemoveAt
    <3> HIDE DEF k
    <3>4. SubSeq(p.list, 1, k - 1) \in Seq(Installation)
      BY <1>1, <3>2, SubSeqProperties
    <3>5. SubSeq(p.list, k + 1, Len(p.list)) \in Seq(Installation)
      BY <1>1, <3>2, SubSeqProperties
    <3> QED BY <3>3, <3>4, <3>5, ConcatProperties
  <2> QED BY <2>1, <2>2
<1>3. FirstId(Filtered(p.list, id)) \in Installs \cup {None}
  BY <1>2, FirstIdTyped
<1> QED BY <1>1, <1>2, <1>3 DEF DeleteInstallation, Stored

-----------------------------------------------------------------------------
(* The three things an action may do to the probes.                          *)
LEMMA RunProbeKeeps ==
    ASSUME MobileInv, NEW i \in Installation, RunProbe(i)
    PROVE  /\ probes' \in [DOMAIN probes' -> Installation]
           /\ phase'.kind \in {"connecting", "connected", "error"} => phase'.at \in Installation
           /\ ProbesServeTheScreen' /\ ConnectedIsUnguarded'
<1>1. CASE probingRef = i.id
  BY <1>1 DEF RunProbe, MobileInv, MobileTyped, ProbesServeTheScreen, ConnectedIsUnguarded
<1>2. CASE probingRef # i.id
  <2>1. phase' = [kind |-> "connecting", at |-> i]
    BY <1>2 DEF RunProbe, Phase
  <2>2. DOMAIN probes' = DOMAIN probes \cup {NextProbe} /\ probes'[NextProbe] = i
    BY <1>2 DEF RunProbe
  <2>3. probes' \in [DOMAIN probes' -> Installation]
    BY <1>2 DEF RunProbe, MobileInv, MobileTyped
  <2> QED BY <2>1, <2>2, <2>3 DEF ProbesServeTheScreen, ConnectedIsUnguarded
<1> QED BY <1>1, <1>2

LEMMA ScreenStays ==
    ASSUME MobileInv, UNCHANGED <<phase, probingRef, probes>>
    PROVE  /\ probes' \in [DOMAIN probes' -> Installation]
           /\ phase'.kind \in {"connecting", "connected", "error"} => phase'.at \in Installation
           /\ ProbesServeTheScreen' /\ ConnectedIsUnguarded'
  BY DEF MobileInv, MobileTyped, ProbesServeTheScreen, ConnectedIsUnguarded

LEMMA ScreenWithoutInstallation ==
    ASSUME MobileInv, NEW kind, kind \in {"loading", "no-installations"},
           phase' = Phase(kind, None), probes' \in [DOMAIN probes' -> Installation]
    PROVE  /\ phase'.kind \in {"connecting", "connected", "error"} => phase'.at \in Installation
           /\ ProbesServeTheScreen' /\ ConnectedIsUnguarded'
  BY DEF Phase, ProbesServeTheScreen, ConnectedIsUnguarded

LEMMA WriteStateKeeps ==
    ASSUME MobileTyped, NEW p \in Stored, WriteState(p)
    PROVE  persisted' \in Stored \cup {None} /\ disk' \in Stored /\ unwritten' \in Seq(Stored)
  BY AppendProperties DEF MobileTyped, WriteState

-----------------------------------------------------------------------------
LEMMA InitMobileInv == MobileInit => MobileInv
  BY DEF MobileInit, MobileInv, MobileTyped, Stored, NoInstalls, Phase, ProbesServeTheScreen,
         ConnectedIsUnguarded

LEMMA ProbeEndsInv ==
    ASSUME MobileInv, NEW n \in DOMAIN probes, ProbeEnds(n) PROVE MobileInv'
<1>1. probes[n] \in Installation /\ probes[n].id # None
  BY MobileAssumption DEF MobileInv, MobileTyped, Installation
<1>2. PICK ok \in BOOLEAN :
        /\ probingRef' = None
        /\ phase' = [kind |-> IF ok THEN "connected" ELSE "error", at |-> probes[n]]
  BY DEF ProbeEnds, GuardAfter, Phase
<1>3. MobileTyped'
  BY <1>1, <1>2 DEF MobileInv, MobileTyped, ProbeEnds
<1> QED BY <1>1, <1>2, <1>3 DEF MobileInv, ProbesServeTheScreen, ConnectedIsUnguarded

LEMMA LoadedInv == ASSUME MobileInv, Loaded PROVE MobileInv'
<1>1. PICK p \in LoadState :
        /\ persisted' = p
        /\ IF ActiveInstallation(p) = None
           THEN phase' = Phase("no-installations", None) /\ NoProbe
           ELSE RunProbe(ActiveInstallation(p))
  BY DEF Loaded
<1>2. p \in Stored
  <2>1. NoInstalls \in Stored
    BY DEF NoInstalls, Stored
  <2> QED BY <1>1, <2>1 DEF LoadState, MobileInv, MobileTyped
<1>3. UNCHANGED <<disk, unwritten>>
  BY DEF Loaded
<1>4. CASE ActiveInstallation(p) = None
  BY <1>1, <1>2, <1>3, <1>4, ScreenWithoutInstallation DEF NoProbe, MobileInv, MobileTyped
<1>5. CASE ActiveInstallation(p) # None
  BY <1>1, <1>2, <1>3, <1>5, ActiveIsInstalled, RunProbeKeeps DEF MobileInv, MobileTyped
<1> QED BY <1>4, <1>5

LEMMA RetryInv == ASSUME MobileInv, Retry PROVE MobileInv'
<1>1. phase.at \in Installation /\ RunProbe(phase.at)
  BY DEF MobileInv, MobileTyped, Retry
<1> QED BY <1>1, RunProbeKeeps DEF MobileInv, MobileTyped, Retry

LEMMA WebLoadErrorInv == ASSUME MobileInv, WebLoadError PROVE MobileInv'
  BY DEF MobileInv, MobileTyped, WebLoadError, Phase, ProbesServeTheScreen, ConnectedIsUnguarded

LEMMA HandleSelectInv ==
    ASSUME MobileInv, NEW id \in Installs, persisted # None, id \in Ids(persisted), HandleSelect(id)
    PROVE  MobileInv'
<1> DEFINE p == [persisted EXCEPT !.active = id]
<1>1. persisted \in Stored /\ p \in Stored /\ p.list = persisted.list
  BY DEF MobileInv, MobileTyped, Stored
<1>2. WriteState(p) /\ RunProbe(Installed(p, id))
  BY DEF HandleSelect
<1>3. id \in Ids(p)
  BY <1>1 DEF Ids
<1> HIDE DEF p
<1>4. Installed(p, id) \in Installation
  BY <1>1, <1>3, SelectedIsInstalled
<1> QED BY <1>1, <1>2, <1>4, RunProbeKeeps, WriteStateKeeps DEF MobileInv, MobileTyped

LEMMA HandleSaveInv ==
    ASSUME MobileInv, NEW i \in Installation, HandleSave(i) PROVE MobileInv'
<1> DEFINE p == UpsertInstallation(persisted, i)
<1>1. persisted \in Stored
  BY DEF MobileInv, MobileTyped, HandleSave, Tap
<1>2. p \in Stored
  BY <1>1, UpsertStored
<1>3. WriteState(p) /\ (RunProbe(i) \/ UNCHANGED <<probingRef, phase, probes>>)
  BY DEF HandleSave, FromEditor
<1> HIDE DEF p
<1> QED BY <1>2, <1>3, RunProbeKeeps, ScreenStays, WriteStateKeeps DEF MobileInv, MobileTyped

LEMMA HandleDeleteInv == ASSUME MobileInv, HandleDelete PROVE MobileInv'
<1> DEFINE p == DeleteInstallation(persisted, editing)
<1>1. persisted \in Stored
  BY DEF MobileInv, MobileTyped, HandleDelete, Tap
<1>2. p \in Stored
  BY <1>1, DeleteStored
<1>3. /\ WriteState(p)
      /\ \/ phase' = Phase("no-installations", None) /\ UNCHANGED probes
         \/ ActiveInstallation(p) # None /\ RunProbe(ActiveInstallation(p))
         \/ UNCHANGED <<probingRef, phase, probes>>
  BY DEF HandleDelete, NoProbe
<1> HIDE DEF p
<1>4. CASE phase' = Phase("no-installations", None) /\ UNCHANGED probes
  BY <1>2, <1>3, <1>4, ScreenWithoutInstallation, WriteStateKeeps DEF MobileInv, MobileTyped
<1>5. CASE ActiveInstallation(p) # None /\ RunProbe(ActiveInstallation(p))
  BY <1>2, <1>3, <1>5, ActiveIsInstalled, RunProbeKeeps, WriteStateKeeps DEF MobileInv, MobileTyped
<1>6. CASE UNCHANGED <<probingRef, phase, probes>>
  BY <1>2, <1>3, <1>6, ScreenStays, WriteStateKeeps DEF MobileInv, MobileTyped
<1> QED BY <1>3, <1>4, <1>5, <1>6

LEMMA KillInv == ASSUME MobileInv, Kill PROVE MobileInv'
<1>1. probes' \in [DOMAIN probes' -> Installation]
  BY DEF Kill
<1> QED BY <1>1, ScreenWithoutInstallation DEF Kill, MobileInv, MobileTyped

LEMMA FlushInv == ASSUME MobileInv, Flush PROVE MobileInv'
<1>1. disk' \in Stored /\ unwritten' \in Seq(Stored)
  BY DEF MobileInv, MobileTyped, Flush
<1> QED BY <1>1, ScreenStays DEF Flush, MobileInv, MobileTyped

\* Opening and closing sheets, and starting the process.
LEMMA SheetInv ==
    ASSUME MobileInv, UNCHANGED <<persisted, disk, unwritten, phase, probingRef, probes>>
    PROVE  MobileInv'
  BY ScreenStays DEF MobileInv, MobileTyped

LEMMA NextMobileInv == MobileInv /\ [MobileSteps]_mobileVars => MobileInv'
<1> SUFFICES ASSUME MobileInv, [MobileSteps]_mobileVars PROVE MobileInv'
  OBVIOUS
<1>1. ASSUME NEW n \in DOMAIN probes, ProbeEnds(n) PROVE MobileInv'
  BY <1>1, ProbeEndsInv
<1>2. ASSUME NEW id \in Installs, persisted # None, id \in Ids(persisted), HandleSelect(id)
      PROVE  MobileInv'
  BY <1>2, HandleSelectInv
<1>3. ASSUME NEW i \in Installation, HandleSave(i) PROVE MobileInv'
  BY <1>3, HandleSaveInv
<1>4. ASSUME NEW at, OpenEditor(at) PROVE MobileInv'
  BY <1>4, SheetInv DEF OpenEditor
<1>5. CASE OpenManager \/ CloseModal \/ Launch \/ UNCHANGED mobileVars
  BY <1>5, SheetInv DEF OpenManager, CloseModal, Launch, mobileVars
<1>6. CASE Flush \/ Loaded \/ Retry \/ WebLoadError \/ HandleDelete \/ Kill
  BY <1>6, FlushInv, LoadedInv, RetryInv, WebLoadErrorInv, HandleDeleteInv, KillInv
<1> QED BY <1>1, <1>2, <1>3, <1>4, <1>5, <1>6 DEF MobileSteps

\* However installations are added, edited, deleted and selected while probes are
\* under way, a screen that waits for a probe has one, and Retry starts one
\* (App.tsx, runProbe and its guard).
THEOREM ScreenIsServed == MobileSpec => []ProbesServeTheScreen
<1>1. MobileSpec => []MobileInv
  BY InitMobileInv, NextMobileInv, PTL DEF MobileSpec
<1>2. MobileInv => ProbesServeTheScreen
  BY DEF MobileInv
<1> QED BY <1>1, <1>2, PTL
=============================================================================
