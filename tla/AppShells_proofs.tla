-------------------------- MODULE AppShells_proofs --------------------------
(***************************************************************************)
(* The connection states of the bridge, and what the proofs about the      *)
(* parts say of the applications composed: StateHasEvidence, and of        *)
(* AppShells' own specification NoFetchUnderAWrite,                        *)
(* LoneFailureLeavesNoTrace and ProbesServeTheScreen.                      *)
(***************************************************************************)
EXTENDS AppShells, RoomPage_proofs, MobileShell_proofs

StatusInv == StatusTypeOK /\ StateHasEvidence

LEMMA InitStatusInv == ASSUME StatusInit PROVE StatusInv
<1>1. state = "online" /\ streak = 0 /\ silence = 0 /\ heardAt = 0 /\ answered \in BOOLEAN
  BY DEF StatusInit
<1> QED
  BY <1>1, StatusAssumption DEF StatusInv, StatusTypeOK, StateHasEvidence, Never, Connection

LEMMA TickInv == ASSUME StatusInv, Tick PROVE StatusInv'
  BY StatusAssumption DEF StatusInv, StatusTypeOK, StateHasEvidence, Tick, Never

LEMMA RecordSuccessInv == ASSUME StatusInv, RecordSuccess PROVE StatusInv'
<1>1. silence' \in 0..QuietOffline /\ answered' = TRUE
  BY StatusAssumption DEF RecordSuccess
<1> QED
  BY <1>1, StatusAssumption
  DEF StatusInv, StatusTypeOK, StateHasEvidence, RecordSuccess, Never, Connection

\* What the last failure leaves standing was the verdict on its own evidence: an
\* older verdict that nothing supports now cannot have been given.
LEMMA RecordFailureInv == ASSUME StatusInv, RecordFailure PROVE StatusInv'
<1>0. Quiet \in 0..Never /\ (~answered => Quiet >= QuietOffline) /\ (answered => Quiet = silence)
  BY StatusAssumption DEF StatusInv, StatusTypeOK, Quiet, Never
<1>1. /\ streak' = IF streak + 1 < FailStreak THEN streak + 1 ELSE FailStreak
      /\ heardAt' = Quiet /\ silence' = silence /\ answered' = answered
      /\ state' = IF Quiet >= QuietOffline THEN "offline"
                  ELSE IF streak + 1 >= FailStreak \/ Quiet >= QuietDegraded THEN "degraded"
                  ELSE state
  BY DEF RecordFailure, Smaller, Verdict
<1>2. StatusTypeOK'
  BY <1>0, <1>1, StatusAssumption DEF StatusInv, StatusTypeOK, Connection
<1>3. ASSUME answered, Quiet < QuietOffline, streak + 1 < FailStreak, Quiet < QuietDegraded
      PROVE  state = "online"
  BY <1>0, <1>3, StatusAssumption DEF StatusInv, StatusTypeOK, StateHasEvidence, Connection
<1>4. streak' > 0 /\ (answered' => heardAt' <= silence')
  BY <1>0, <1>1, StatusAssumption DEF StatusInv, StatusTypeOK
<1>5. ASSUME answered
      PROVE  /\ state' = "offline" <=> heardAt' >= QuietOffline
             /\ state' = "degraded" <=>
                   heardAt' < QuietOffline /\ (streak' >= FailStreak \/ heardAt' >= QuietDegraded)
  <2>1. CASE Quiet >= QuietOffline
    BY <1>0, <1>1, <2>1, StatusAssumption
  <2>2. CASE Quiet < QuietOffline /\ (streak + 1 >= FailStreak \/ Quiet >= QuietDegraded)
    BY <1>0, <1>1, <2>2, StatusAssumption DEF StatusInv, StatusTypeOK
  <2>3. CASE Quiet < QuietOffline /\ streak + 1 < FailStreak /\ Quiet < QuietDegraded
    BY <1>0, <1>1, <1>3, <1>5, <2>3, StatusAssumption DEF StatusInv, StatusTypeOK
  <2> QED
    BY <1>0, <2>1, <2>2, <2>3, StatusAssumption DEF StatusInv, StatusTypeOK
<1>6. StateHasEvidence'
  BY <1>1, <1>4, <1>5, StatusAssumption DEF StateHasEvidence, StatusInv, StatusTypeOK
<1> QED BY <1>2, <1>6 DEF StatusInv

LEMMA NextStatusInv == StatusInv /\ [StatusSteps]_statusVars => StatusInv'
<1> SUFFICES ASSUME StatusInv, [StatusSteps]_statusVars PROVE StatusInv'
  OBVIOUS
<1>1. CASE StatusReset
  <2>1. /\ state' = "online" /\ streak' = 0 /\ silence' = 0 /\ heardAt' = 0
        /\ answered' \in BOOLEAN
    BY <1>1 DEF StatusReset
  <2> QED
    BY <2>1, StatusAssumption DEF StatusInv, StatusTypeOK, StateHasEvidence, Never, Connection
<1>2. CASE UNCHANGED statusVars
  BY <1>2 DEF statusVars, StatusInv, StatusTypeOK, StateHasEvidence
<1> QED BY <1>1, <1>2, TickInv, RecordSuccessInv, RecordFailureInv DEF StatusSteps

-----------------------------------------------------------------------------
(* A step of an application is a step of its parts or changes nothing there. *)
LEMMA StepOfStatus == [Next]_appVars => [StatusSteps]_statusVars
<1> SUFFICES ASSUME Next PROVE StatusSteps \/ UNCHANGED statusVars
  BY DEF appVars, webVars
<1>1. CASE WebSteps
  <2>1. WebSteps => StatusSteps \/ UNCHANGED statusVars
    BY DEF WebSteps, Submit, LoginReturns, TryIngress, IngressReturns, Logout, Reload, Expire, GoTo,
           PollDiag, LoseDiag, StartCall, Answers, AnswerDiag, LandDiag, CallReturns, BridgeLives
  <2> QED BY <1>1, <2>1
<1>2. CASE UNCHANGED webVars
  BY <1>2 DEF webVars
<1> QED BY <1>1, <1>2 DEF Next

LEMMA StepOfRoom == [Next]_appVars => [RoomNext]_roomVars
  BY DEF Next, appVars

LEMMA StepOfMobile == [Next]_appVars => [MobileSteps]_mobileVars
  BY DEF Next, appVars

-----------------------------------------------------------------------------
\* No sequence of good and failed requests, restarts and quiet times leaves a bridge
\* that has had an answer with a verdict on the controller's health that its evidence
\* does not bear out (store.ts, recordFetch), for every value of the three thresholds.
THEOREM VerdictHasEvidence == FairSpec => []StateHasEvidence
<1>1. Init => StatusInv
  BY InitStatusInv DEF Init, WebInit
<1>2. StatusInv => StateHasEvidence
  BY DEF StatusInv
<1> QED BY <1>1, <1>2, StepOfStatus, NextStatusInv, PTL DEF FairSpec

\* The room page keeps the promises of NeverFetchesUnderAWrite and
\* LoneWritesLeaveNoTrace inside the application.
THEOREM RoomPageInTheApp == FairSpec => [](NoFetchUnderAWrite /\ LoneFailureLeavesNoTrace)
<1>1. Init => RoomInit
  BY DEF Init
<1>2. FairSpec => RoomSpec
  BY <1>1, StepOfRoom, PTL DEF FairSpec, RoomSpec
<1> QED BY <1>2, NeverFetchesUnderAWrite, LoneWritesLeaveNoTrace, PTL

\* And the mobile application that of ScreenIsServed.
THEOREM MobileInTheApp == FairSpec => []ProbesServeTheScreen
<1>1. Init => MobileInit
  BY DEF Init
<1>2. FairSpec => MobileSpec
  BY <1>1, StepOfMobile, PTL DEF FairSpec, MobileSpec
<1> QED BY <1>2, ScreenIsServed, PTL
=============================================================================
