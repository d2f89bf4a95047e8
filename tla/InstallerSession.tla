-------------------------- MODULE InstallerSession --------------------------
(***************************************************************************)
(* Installer sessions (apps/bridge/src/device/installer.ts) and the reads  *)
(* and read-merge-write updates that run inside them (device/source.ts).   *)
(*                                                                         *)
(* The controller has one installer mode for everybody.  run(fn) takes a   *)
(* mutex, logs in, runs fn, logs out whatever became of fn, and hands the  *)
(* mutex to the next caller.  Every request goes through the same chain as *)
(* the rest of the bridge's traffic, and may fail or be repeated.          *)
(***************************************************************************)
EXTENDS DeviceClient

CONSTANTS
    NCallers,   \* bound: calls of run(), numbered as they come in
    NoOne,      \* nobody, for the holder of the mutex
    Fields,     \* entries of an installer page: the rooms with a calibration
    Values,     \* what an entry can hold
    Initial,    \* what every entry holds at the start
    Fallback,   \* what the parsers take for an entry the page does not have
    MaxChain,   \* bound: the rest of the bridge asks only when fewer requests wait
    MaxEsc      \* bound: times somebody on the LAN leaves the installer pages

Callers == 1..NCallers
Other == 0
None == [x \in {} |-> Initial]

ASSUME InstallerAssumption ==
    /\ NCallers \in Nat
    /\ NoOne \notin Callers
    /\ Initial \in Values /\ Fallback \in Values
    /\ Fields # {}
    /\ MaxChain \in Nat
    /\ MaxEsc \in Nat

VARIABLES
    busy,        \* the mutex is taken
    waiters,     \* the callers that wait for it
    session,     \* what each caller is doing
    installer,   \* the controller shows its installer pages
    calibration, \* the entries as the controller holds them
    mirror,      \* the entries as the Store's rooms show them
    esc,         \* how often somebody on the LAN pressed "Esc"
    leak         \* history: a login or a logout failed and none has worked since

lockVars == <<busy, waiters>>
deviceVars == <<installer, calibration>>
vars == <<clientVars, lockVars, deviceVars, session, mirror, esc, leak>>

Stage == {"idle", "waiting", "granted", "login", "page", "post", "logout", "ok", "failed"}

\* An installer page parses to some of the entries: see Readings.
Page == UNION {[D -> Values] : D \in SUBSET Fields}

Session ==
    [st: Stage, writes: BOOLEAN, field: Fields, value: Values,
     result: Page, erred: BOOLEAN]

Request == [by: {Other} \cup Callers, op: {"plain", "login", "page", "post", "logout"},
            form: Page]

Ask(c, op, form) == [by |-> c, op |-> op, form |-> form]

Holding(c) == session[c].st \in {"granted", "login", "page", "post", "logout"}

-----------------------------------------------------------------------------
(* The mutex.                                                              *)

\* acquire(): c gets a free mutex, or waits for its turn.  `called` is what is
\* known of the sessions with c's call among them.
Acquire(c, called) ==
    IF ~busy
    THEN /\ busy' = TRUE
         /\ session' = [called EXCEPT ![c].st = "granted"]
         /\ UNCHANGED waiters
    ELSE /\ waiters' = Append(waiters, c)
         /\ session' = [called EXCEPT ![c].st = "waiting"]
         /\ UNCHANGED busy

\* Mutant of Release: the mutex is unlocked although a waiter takes it.
ReleaseUnlocked(c, st) ==
    /\ busy' = FALSE
    /\ waiters' = IF waiters # <<>> THEN Tail(waiters) ELSE waiters
    /\ session' = IF waiters # <<>>
                  THEN [session EXCEPT ![c].st = st, ![Head(waiters)].st = "granted"]
                  ELSE [session EXCEPT ![c].st = st]

\* Mutant of Release: the last to come is the next to go.
ReleaseToLast(c, st) ==
    IF waiters # <<>>
    THEN /\ waiters' = SubSeq(waiters, 1, Len(waiters) - 1)
         /\ session' = [session EXCEPT ![c].st = st, ![waiters[Len(waiters)]].st = "granted"]
         /\ UNCHANGED busy
    ELSE /\ busy' = FALSE
         /\ session' = [session EXCEPT ![c].st = st]
         /\ UNCHANGED waiters

\* release() at the end of c's call: the first waiter takes the mutex without
\* its being unlocked.  The call itself has the outcome `st`.
Release(c, st) ==
    IF waiters # <<>>
    THEN /\ waiters' = Tail(waiters)
         /\ session' = [session EXCEPT ![c].st = st, ![Head(waiters)].st = "granted"]
         /\ UNCHANGED busy
    ELSE /\ busy' = FALSE
         /\ session' = [session EXCEPT ![c].st = st]
         /\ UNCHANGED waiters

-----------------------------------------------------------------------------
(* Requests and what the controller makes of them.                         *)

Served == Head(chain)

\* Caller c's request `op` is being served.
Asking(c, op) ==
    /\ chain # <<>>
    /\ Served.by = c
    /\ Served.op = op
    /\ session[c].st = op

\* c's request is settled and its call goes on to the next one.
GoOn(c, op, form) ==
    /\ SettleAndEnqueue(Ask(c, op, form))
    /\ session' = [session EXCEPT ![c].st = op]

\* A form is only understood while the installer pages are shown.  It is all or
\* nothing: what becomes of an entry it does not name is anybody's guess.
Obeyed(req) ==
    /\ installer' = CASE req.op = "login" -> TRUE
                      [] req.op = "logout" -> FALSE
                      [] OTHER -> installer
    /\ IF req.op = "post" /\ installer
       THEN \E unnamed \in [Fields \ DOMAIN req.form -> Values] :
               calibration' = [f \in Fields |-> IF f \in DOMAIN req.form THEN req.form[f]
                                                ELSE unnamed[f]]
       ELSE UNCHANGED calibration

\* A request that fails may have been obeyed all the same.
MaybeObeyed(req) == Obeyed(req) \/ UNCHANGED deviceVars

\* What the parsers make of the page.  On another page than the installer's they find
\* none of the entries: parseCalibration skips a room that is not there and takes 0
\* for the outdoor offset, parseSettings takes the field's minimum or false.
Readings ==
    IF installer THEN {calibration} ELSE {[f \in D |-> Fallback] : D \in SUBSET Fields}

-----------------------------------------------------------------------------
(* run(fn).  fn reads one page, and either is done or merges a change into   *)
(* what it read and posts the whole form.                                    *)

\* A call that was not made yet.
Start ==
    [st |-> "idle", writes |-> FALSE, field |-> CHOOSE f \in Fields : TRUE,
     value |-> Initial, result |-> None, erred |-> FALSE]

\* fetchCalibration, fetchSettings and the like (writes = FALSE), which name no entry,
\* or setCalibration and setSettings (writes = TRUE) of one entry.
Run(c, writes, f, v) ==
    /\ writes \/ (f = Start.field /\ v = Start.value)
    /\ session[c].st = "idle"
    /\ \A d \in Callers : d < c => session[d].st # "idle"
    /\ Acquire(c, [session EXCEPT ![c].writes = writes, ![c].field = f, ![c].value = v])
    /\ UNCHANGED <<clientVars, deviceVars, mirror, esc, leak>>

\* The mutex is c's: login() is queued.
Login(c) ==
    /\ session[c].st = "granted"
    /\ session' = [session EXCEPT ![c].st = "login"]
    /\ Enqueue(Ask(c, "login", None))
    /\ UNCHANGED <<lockVars, deviceVars, mirror, esc, leak>>

LoggedIn(c) ==
    /\ Asking(c, "login")
    /\ Obeyed(Served)
    /\ leak' = FALSE
    /\ GoOn(c, "page", None)
    /\ UNCHANGED <<lockVars, mirror, esc>>

\* Mutant of LoginFails: the mutex is not released when the login fails.
LoginFailsHeld(c) ==
    /\ Asking(c, "login")
    /\ MaybeObeyed(Served)
    /\ leak' = TRUE
    /\ Settle
    /\ session' = [session EXCEPT ![c].st = "failed"]
    /\ UNCHANGED <<lockVars, mirror, esc>>

\* A login that fails leaves run() without logging out.
LoginFails(c) ==
    /\ Asking(c, "login")
    /\ MaybeObeyed(Served)
    /\ leak' = TRUE
    /\ Settle
    /\ Release(c, "failed")
    /\ UNCHANGED <<mirror, esc>>

\* Mutant of Merged: only the changed entry is posted.
MergedPatchOnly(page, f, v) == [x \in {f} |-> v]

\* Everything that was read, with the change over it.
Merged(page, f, v) == [x \in DOMAIN page \cup {f} |-> IF x = f THEN v ELSE page[x]]

PageArrives(c) ==
    /\ Asking(c, "page")
    /\ \E page \in Readings :
       LET next == IF session[c].writes
                   THEN Merged(page, session[c].field, session[c].value)
                   ELSE page
           op == IF session[c].writes THEN "post" ELSE "logout"
       IN  /\ SettleAndEnqueue(Ask(c, op, IF session[c].writes THEN next ELSE None))
           /\ session' = [session EXCEPT ![c].st = op, ![c].result = next]
    /\ UNCHANGED <<lockVars, deviceVars, mirror, esc, leak>>

PostAccepted(c) ==
    /\ Asking(c, "post")
    /\ Obeyed(Served)
    /\ GoOn(c, "logout", None)
    /\ UNCHANGED <<lockVars, mirror, esc, leak>>

\* Mutant of FnFails: an error in fn leaves run() without logging out.
FnFailsAtOnce(c) ==
    /\ Asking(c, "page") \/ Asking(c, "post")
    /\ MaybeObeyed(Served)
    /\ Settle
    /\ Release(c, "failed")
    /\ UNCHANGED <<mirror, esc, leak>>

\* fn rejects: its error is passed on once the logout is over.
FnFails(c) ==
    /\ Asking(c, "page") \/ Asking(c, "post")
    /\ MaybeObeyed(Served)
    /\ SettleAndEnqueue(Ask(c, "logout", None))
    /\ session' = [session EXCEPT ![c].st = "logout", ![c].erred = TRUE]
    /\ UNCHANGED <<lockVars, mirror, esc, leak>>

\* Mutant of Finish: only reads are mirrored.
FinishReadsOnly(c) ==
    /\ Settle
    /\ Release(c, IF session[c].erred THEN "failed" ELSE "ok")
    /\ mirror' = IF session[c].erred \/ session[c].writes THEN mirror
                 ELSE [f \in Fields |-> IF f \in DOMAIN session[c].result
                                        THEN session[c].result[f] ELSE mirror[f]]

\* The call is over.  If fn succeeded its caller (a route, or pollCalibration)
\* shows the entries in the Store's rooms.
Finish(c) ==
    /\ Settle
    /\ Release(c, IF session[c].erred THEN "failed" ELSE "ok")
    /\ mirror' = IF session[c].erred THEN mirror
                 ELSE [f \in Fields |-> IF f \in DOMAIN session[c].result
                                        THEN session[c].result[f] ELSE mirror[f]]

LoggedOut(c) ==
    /\ Asking(c, "logout")
    /\ Obeyed(Served)
    /\ leak' = FALSE
    /\ Finish(c)
    /\ UNCHANGED <<esc>>

\* A logout that fails is logged and otherwise ignored.
LogoutFails(c) ==
    /\ Asking(c, "logout")
    /\ MaybeObeyed(Served)
    /\ leak' = TRUE
    /\ Finish(c)
    /\ UNCHANGED <<esc>>

TimeoutRetried ==
    /\ RetryInPlace
    /\ MaybeObeyed(Served)
    /\ UNCHANGED <<lockVars, session, mirror, esc, leak>>

-----------------------------------------------------------------------------
(* Everybody else.                                                         *)

\* The rest of the bridge polls and writes through the same chain.
OtherCall ==
    /\ Len(chain) < MaxChain
    /\ Enqueue(Ask(Other, "plain", None))
    /\ UNCHANGED <<lockVars, deviceVars, session, mirror, esc, leak>>

OtherSettles ==
    /\ chain # <<>>
    /\ Served.by = Other
    /\ Settle
    /\ UNCHANGED <<lockVars, deviceVars, session, mirror, esc, leak>>

\* Somebody on the LAN leaves the installer pages in his own browser.
LanLeaves ==
    /\ esc < MaxEsc
    /\ installer
    /\ installer' = FALSE
    /\ esc' = esc + 1
    /\ UNCHANGED <<clientVars, lockVars, calibration, session, mirror, leak>>

-----------------------------------------------------------------------------
Init ==
    /\ ClientInit
    /\ busy = FALSE
    /\ waiters = <<>>
    /\ session = [c \in Callers |-> Start]
    /\ installer = FALSE
    /\ calibration = [f \in Fields |-> Initial]
    /\ mirror = [f \in Fields |-> Initial]
    /\ esc = 0
    /\ leak = FALSE

\* The end of a request, and what its continuation does.
Answered(c) ==
    \/ LoggedIn(c) \/ LoginFails(c)
    \/ PageArrives(c) \/ PostAccepted(c) \/ FnFails(c)
    \/ LoggedOut(c) \/ LogoutFails(c)

Next ==
    \/ \E c \in Callers :
          \/ \E writes \in BOOLEAN, f \in Fields, v \in Values : Run(c, writes, f, v)
          \/ Login(c)
          \/ Answered(c)
    \/ TimeoutRetried
    \/ OtherCall
    \/ OtherSettles
    \/ LanLeaves

Spec == Init /\ [][Next]_vars

\* The event loop runs what is ready, and the timeouts end every request.
Fairness ==
    /\ \A c \in Callers : WF_vars(Login(c)) /\ WF_vars(Answered(c))
    /\ WF_vars(OtherSettles)

FairSpec == Spec /\ Fairness

-----------------------------------------------------------------------------
(* Properties.                                                             *)

TypeOK ==
    /\ chain \in Seq(Request)
    /\ retried \in BOOLEAN
    /\ busy \in BOOLEAN
    /\ waiters \in Seq(Callers)
    /\ session \in [Callers -> Session]
    /\ installer \in BOOLEAN
    /\ calibration \in [Fields -> Values]
    /\ mirror \in [Fields -> Values]
    /\ esc \in 0..MaxEsc
    /\ leak \in BOOLEAN

\* Two sessions never overlap, from the grant of the mutex to the answer to the
\* logout, whichever requests fail.
OneSessionAtATime ==
    \A c, d \in Callers : Holding(c) /\ Holding(d) => c = d

\* The mutex and its queue tell the truth: it is taken while a session is open,
\* nobody queues for a free one, and the queue holds exactly the callers that
\* wait, each of them once, so that none is forgotten or served twice.
MutexInv ==
    /\ OneSessionAtATime
    /\ busy <=> \E c \in Callers : Holding(c)
    /\ ~busy => waiters = <<>>
    /\ \A i \in 1..Len(waiters) : session[waiters[i]].st = "waiting"
    /\ \A c \in Callers : session[c].st = "waiting" => \E i \in 1..Len(waiters) : waiters[i] = c
    /\ \A i, j \in 1..Len(waiters) : waiters[i] = waiters[j] => i = j

\* The pages fn asks for are installer pages: no other session of the bridge
\* logs out under it.  (Somebody on the LAN may.)
PagesAreInstallerPages ==
    esc = 0 => \A c \in Callers : session[c].st \in {"page", "post"} => installer

\* "Unconditionally logs out - even on errors" (installer.ts:1-6), as far as
\* it holds: after the last session the controller is still in installer mode
\* only if the last login or logout itself failed.
LeftOnlyByFailure == ~busy /\ installer => leak

\* The calls that had the mutex and mean to change entry f.
Writers(f) == {c \in Callers : session[c].writes /\ session[c].field = f
                              /\ session[c].st \notin {"idle", "waiting"}}

Newest(cs) == CHOOSE c \in cs : \A d \in cs : d <= c

\* Read-merge-write inside one session loses nobody's change: an entry holds
\* what the last successful call wrote to it, whatever was written to other
\* entries at the same time, unless a failed call may have changed it.
NoLostUpdate ==
    \A f \in Fields :
        esc = 0 /\ (\A c \in Writers(f) : session[c].st = "ok") =>
            calibration[f] = IF Writers(f) = {} THEN Initial
                             ELSE session[Newest(Writers(f))].value

\* A poll that was read before a write is never mirrored after it: while no
\* session is open, and no call failed, the Store shows what the controller has.
MirrorIsFresh ==
    /\ ~busy
    /\ esc = 0
    /\ \A c \in Callers : session[c].st # "failed"
    => mirror = calibration

\* The mutex implements the FIFO lock.
Holder == IF \E c \in Callers : Holding(c) THEN CHOOSE c \in Callers : Holding(c) ELSE NoOne

Lock == INSTANCE FifoLock WITH Procs <- Callers, holder <- Holder, queue <- waiters

\* Callers get the mutex one at a time and in the order in which they asked,
\* and whoever has it gives it up, although any of its requests may fail.
LockSpec == Lock!Spec

\* The same without the fairness: only steps that the lock allows.
LockSteps == Lock!Init /\ [][Lock!Next]_(Lock!vars)

\* Every call of run() returns.
RunReturns == \A c \in Callers : session[c].st # "idle" ~> session[c].st \in {"ok", "failed"}

\* installer.ts:5-6: "unconditionally logs out - even on errors".
AlwaysLoggedOut == ~busy => ~installer
=============================================================================
