------------------------------ MODULE WebShell ------------------------------
(***************************************************************************)
(* The shell of the web application: the session (apps/web/src/lib/        *)
(* auth.tsx, apiClient.ts, features/auth/Login.tsx) and the verdict on the *)
(* controller's health that the banner shows and the write controls obey   *)
(* (lib/connection.ts, components/ConnectionBanner.tsx, and the REHAU      *)
(* panel of features/system/System.tsx), in front of the bridge's          *)
(* http/auth.ts and server.ts.                                             *)
(*                                                                         *)
(* A session is its token, tokens are numbered as the bridge issues them.  *)
(* Roles, the route inside a tab and the retry of a failed query are left  *)
(* out.                                                                    *)
(***************************************************************************)
EXTENDS WebQuery, DeviceStatus

CONSTANTS
    MaxTokens,     \* bound: tokens issued
    MaxWebFaults   \* bound: requests that fail on the way, and reloads

ASSUME WebShellAssumption == MaxTokens \in Nat /\ MaxWebFaults \in Nat

VARIABLES
    issued,      \* tokens issued so far
    expired,     \* those that have run out
    session,     \* the token of the session, or NoData
    stored,      \* localStorage
    login,       \* the login form waits for its answer
    ingress,     \* the automatic login: "idle", "sent" or "done"
    tab,         \* "system" or another
    diag,        \* the query ["diagnostics", "fetches"]
    asker,       \* the token its fetch was sent with
    call,        \* the token of another request under way, or NoData
    webFaults

webVars == <<issued, expired, session, stored, login, ingress, tab, diag, asker,
             call, webFaults, statusVars>>

Tokens == 1..MaxTokens

\* What a fetch of the diagnostics may bring.
Refused == "unauthorized"
Verdicts == Connection \cup {Refused}

WebInit ==
    /\ issued = 0 /\ expired = {}
    /\ session = NoData /\ stored = NoData
    /\ login = FALSE /\ ingress = "idle"
    /\ tab = "home"
    /\ diag = EmptyEntry /\ asker = NoData
    /\ call = NoData
    /\ webFaults = 0
    /\ StatusInit

-----------------------------------------------------------------------------
(* Signing in and out.                                                       *)
SignIn(t) == session' = t /\ stored' = t
SignOut == session' = NoData /\ stored' = NoData

Submit ==
    /\ session = NoData /\ ~login
    /\ issued < MaxTokens
    /\ login' = TRUE
    /\ UNCHANGED <<issued, expired, session, stored, ingress, tab, diag, asker, call,
                   webFaults, statusVars>>

\* The bridge signs a token, or refuses.
Issued ==
    \/ issued < MaxTokens /\ issued' = issued + 1 /\ SignIn(issued')
    \/ UNCHANGED <<issued, session, stored>>

LoginReturns ==
    /\ login
    /\ login' = FALSE
    /\ Issued
    /\ UNCHANGED <<expired, ingress, tab, diag, asker, call, webFaults, statusVars>>

\* The effect of AuthProvider: once per load of the page, as soon as there is no
\* session.  The bridge refuses what does not come through Home Assistant.
TryIngress ==
    /\ session = NoData /\ ingress = "idle"
    /\ ingress' = "sent"
    /\ UNCHANGED <<issued, expired, session, stored, login, tab, diag, asker, call,
                   webFaults, statusVars>>

IngressReturns ==
    /\ ingress = "sent"
    /\ ingress' = "done"
    /\ Issued
    /\ UNCHANGED <<expired, login, tab, diag, asker, call, webFaults, statusVars>>

Logout ==
    /\ session # NoData /\ tab = "system"
    /\ SignOut
    /\ UNCHANGED <<issued, expired, login, ingress, tab, diag, asker, call, webFaults,
                   statusVars>>

\* Mutant of Unauthorized: the handler has the session of the time when the client
\* was made, before the login.
UnauthorizedStale == UNCHANGED <<session, stored>>

\* Any 401 but that of a login ends the session there is by now.
Unauthorized == SignOut

Expire(t) ==
    /\ t \in (1..issued) \ expired
    /\ expired' = expired \cup {t}
    /\ UNCHANGED <<issued, session, stored, login, ingress, tab, diag, asker, call,
                   webFaults, statusVars>>

\* readSession(), by a page that starts again.
Reload ==
    /\ webFaults < MaxWebFaults /\ webFaults' = webFaults + 1
    /\ session' = IF stored \in expired THEN NoData ELSE stored
    /\ login' = FALSE /\ ingress' = "idle"
    /\ diag' = EmptyEntry /\ asker' = NoData /\ call' = NoData
    /\ UNCHANGED <<issued, expired, stored, tab, statusVars>>

GoTo(t) ==
    /\ session # NoData
    /\ tab' = t
    /\ UNCHANGED <<issued, expired, session, stored, login, ingress, diag, asker, call,
                   webFaults, statusVars>>

-----------------------------------------------------------------------------
(* The verdict.                                                              *)

\* The REHAU panel is mounted: useConnection({ active: true }).
Active == session # NoData /\ tab = "system"

\* The banner stays away until a verdict says otherwise.
Banner == diag.data \notin {NoData, "online"}

\* Mutant of PollDue: data that is fresh for an hour is not polled.
PollDueOnce == Active /\ diag.data = NoData

\* refetchInterval: every eight seconds, whatever the age of the data.
PollDue == Active

PollDiag ==
    /\ PollDue /\ ~diag.asked
    /\ diag' = Fetch(diag)
    /\ asker' = session
    /\ UNCHANGED <<issued, expired, session, stored, login, ingress, tab, call,
                   webFaults, statusVars>>

AnswerDiag ==
    /\ Unanswered(diag)
    /\ diag' = Answer(diag, IF asker \in expired THEN Refused ELSE state)
    /\ UNCHANGED <<issued, expired, session, stored, login, ingress, tab, asker, call,
                   webFaults, statusVars>>

LandDiag ==
    /\ Landing(diag)
    /\ asker' = NoData
    /\ IF diag.answer = Refused
       THEN diag' = CancelFetch(diag) /\ Unauthorized
       ELSE diag' = Land(diag) /\ UNCHANGED <<session, stored>>
    /\ UNCHANGED <<issued, expired, login, ingress, tab, call, webFaults, statusVars>>

LoseDiag ==
    /\ diag.asked
    /\ webFaults < MaxWebFaults /\ webFaults' = webFaults + 1
    /\ diag' = CancelFetch(diag) /\ asker' = NoData
    /\ UNCHANGED <<issued, expired, session, stored, login, ingress, tab, call,
                   statusVars>>

\* "Refresh now", and every request of the other tabs.
StartCall ==
    /\ session # NoData /\ call = NoData
    /\ call' = session
    /\ UNCHANGED <<issued, expired, session, stored, login, ingress, tab, diag, asker,
                   webFaults, statusVars>>

\* A refresh invalidates the diagnostics, which refetches what is in use; the
\* other requests do not touch them.
CallReturns ==
    /\ call # NoData
    /\ call' = NoData
    /\ IF call \in expired THEN Unauthorized ELSE UNCHANGED <<session, stored>>
    /\ \/ Active /\ diag' = Refetch(diag) /\ asker' = session
       \/ UNCHANGED <<diag, asker>>
    /\ UNCHANGED <<issued, expired, login, ingress, tab, webFaults, statusVars>>

BridgeLives ==
    /\ StatusSteps
    /\ UNCHANGED <<issued, expired, session, stored, login, ingress, tab, diag, asker,
                   call, webFaults>>

Answers == AnswerDiag \/ LandDiag \/ CallReturns

WebSteps ==
    \/ Submit \/ LoginReturns \/ TryIngress \/ IngressReturns \/ Logout \/ Reload
    \/ \E t \in Tokens : Expire(t)
    \/ \E t \in {"home", "system"} : GoTo(t)
    \/ PollDiag \/ LoseDiag \/ StartCall
    \/ Answers
    \/ BridgeLives

\* Timers fire and requests come to an end; a user who refreshes for ever starts the
\* fetch afresh each time, but not always before it has landed.
WebFairness ==
    /\ WF_webVars(PollDiag) /\ WF_webVars(AnswerDiag) /\ SF_webVars(LandDiag)
    /\ WF_webVars(CallReturns)

-----------------------------------------------------------------------------
WebShellTypeOK ==
    /\ StatusTypeOK
    /\ issued \in 0..MaxTokens /\ expired \subseteq 1..issued
    /\ stored \in (1..issued) \cup {NoData}
    /\ session \in {stored, NoData}
    /\ login \in BOOLEAN /\ ingress \in {"idle", "sent", "done"}
    /\ tab \in {"home", "system"}
    /\ diag \in Entries(Verdicts) /\ diag.data # Refused
    /\ (diag.asked <=> asker # NoData) /\ asker \in (1..issued) \cup {NoData}
    /\ call \in (1..issued) \cup {NoData}

\* "Drop the session so the login screen comes back instead of cascading failures"
\* (apiClient.ts): on the System tab, the one that polls, an expired token is not
\* kept for ever, whichever requests it was sent with and whoever signed in since.
\* (A 401 does not always mean "the token's expired or invalid": one that comes late,
\* to a request of a session that was replaced, ends the new one.)
SessionEnds == <>[](tab = "system") => []<>(session = NoData \/ session \notin expired)

\* "Auto-disappears when state -> online" (ConnectionBanner.tsx), as far as the code
\* promises it: while the user stays on the System tab and the bridge online, the
\* banner goes and stays away, after answers that were lost, late, refused or asked
\* for twice.
BannerClears ==
    <>[](Active /\ state = "online") => <>[]~Banner
=============================================================================
