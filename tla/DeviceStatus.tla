---------------------------- MODULE DeviceStatus ----------------------------
(***************************************************************************)
(* What the bridge believes of the controller's health: the connection     *)
(* state machine of apps/bridge/src/core/store.ts, which is fed with the   *)
(* outcome of every request.                                               *)
(*                                                                         *)
(* Of the clock only the time since the last good request was started, or  *)
(* since the Store was created, counts, in units of the model; beyond the  *)
(* longest threshold all times are alike.  So are streaks beyond           *)
(* FailStreak.                                                             *)
(***************************************************************************)
EXTENDS Naturals

CONSTANTS
    FailStreak,     \* FAIL_STREAK_FOR_DEGRADED
    QuietDegraded,  \* QUIET_MS_FOR_DEGRADED
    QuietOffline,   \* QUIET_MS_FOR_OFFLINE
    RequestTime     \* the longest a request takes, its retry included

\* The quiet time of a bridge that has had no good request is infinite.
Never == QuietOffline + 1

ASSUME StatusAssumption ==
    /\ FailStreak \in Nat \ {0}
    /\ QuietDegraded \in Nat
    /\ QuietOffline \in Nat
    /\ QuietDegraded < QuietOffline
    /\ RequestTime \in 0..QuietOffline

VARIABLES
    state,       \* connection.state
    streak,      \* connection.consecutiveFailures
    answered,    \* lastSuccessAt is set
    silence,     \* the time since lastSuccessAt, or else since the Store was created
    heardAt      \* history: quietMs when the last failure of the streak was recorded

statusVars == <<state, streak, answered, silence, heardAt>>

Connection == {"online", "degraded", "offline"}

\* A Store is created optimistic.
StatusInit ==
    /\ state = "online"
    /\ streak = 0
    /\ answered = FALSE /\ silence = 0
    /\ heardAt = 0

\* The Store of a new process.
StatusReset ==
    /\ state' = "online"
    /\ streak' = 0
    /\ answered' = FALSE /\ silence' = 0
    /\ heardAt' = 0

Smaller(a, b) == IF a < b THEN a ELSE b

Tick ==
    /\ silence < QuietOffline
    /\ silence' = silence + 1
    /\ UNCHANGED <<state, streak, answered, heardAt>>

\* quietMs: what recordFetch() goes by.
Quiet == IF answered THEN silence ELSE Never

\* recordFetch() of a good request, which was started `age` ago: later than any
\* other good one.
RecordSuccess ==
    /\ \E age \in 0..RequestTime : age <= silence /\ silence' = age
    /\ answered' = TRUE
    /\ streak' = 0
    /\ state' = "online"
    /\ heardAt' = 0

\* Mutant of Verdict: two failures make a streak of three.
VerdictEarly(failures) ==
    IF Quiet >= QuietOffline THEN "offline"
    ELSE IF failures + 1 >= FailStreak \/ Quiet >= QuietDegraded THEN "degraded"
    ELSE state

\* Without evidence of an outage the state stays what it was.
Verdict(failures) ==
    IF Quiet >= QuietOffline THEN "offline"
    ELSE IF failures >= FailStreak \/ Quiet >= QuietDegraded THEN "degraded"
    ELSE state

\* recordFetch() of a timeout, an HTTP error or a TCP error.
RecordFailure ==
    /\ streak' = Smaller(streak + 1, FailStreak)
    /\ state' = Verdict(streak + 1)
    /\ heardAt' = Quiet
    /\ UNCHANGED <<answered, silence>>

StatusSteps == Tick \/ RecordSuccess \/ RecordFailure \/ StatusReset

-----------------------------------------------------------------------------
StatusTypeOK ==
    /\ state \in Connection
    /\ streak \in 0..FailStreak
    /\ answered \in BOOLEAN
    /\ silence \in 0..QuietOffline
    /\ heardAt \in 0..Never

\* "DEGRADED <- 3 consecutive failures OR no successful fetch for 60 s, OFFLINE <- no
\* successful fetch for 5 min.  Any success resets the streak and goes back to online"
\* (store.ts:30-32): of a bridge that has had an answer, the state is exactly the
\* verdict on what was known when the last failure was recorded.  No sequence of
\* good and failed requests leaves a verdict standing that its evidence has lost, or
\* withholds one that it calls for.  For a bridge without an answer see
\* OutageNeedsEvidence.
StateHasEvidence ==
    /\ streak = 0 => state = "online"
    /\ streak > 0 /\ answered =>
          /\ state = "offline" <=> heardAt >= QuietOffline
          /\ state = "degraded" <=>
                heardAt < QuietOffline /\ (streak >= FailStreak \/ heardAt >= QuietDegraded)
          /\ heardAt <= silence

\* "A single timeout or 503 is normal jitter, not a real outage.  We only flip OUT of
\* online once we've seen real evidence" (store.ts:28-29), "the first failure starts a
\* streak" (store.ts:63-64): whoever is offline has been without a good request for
\* five minutes, and whoever is not online for one, or has failed three times over.
\* The first failure of a bridge that has had no answer yet takes it offline at once.
OutageNeedsEvidence ==
    /\ state = "offline" => silence >= QuietOffline
    /\ state # "online" => streak >= FailStreak \/ silence >= QuietDegraded
=============================================================================
