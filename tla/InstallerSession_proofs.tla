----------------------- MODULE InstallerSession_proofs -----------------------
(***************************************************************************)
(* Proofs about installer sessions, for any number of callers, entries and *)
(* values: type correctness, mutual exclusion, that the mutex makes only   *)
(* the steps of the abstract FIFO lock, and what the sessions promise of   *)
(* the controller: its pages, its entries, and the state it is left in.    *)
(***************************************************************************)
EXTENDS InstallerSession, SequenceTheorems, WellFoundedInduction, TLAPS

-----------------------------------------------------------------------------
(* Typing.                                                                 *)

LEMMA NoneIsPage == None \in Page
<1>1. None \in [{} -> Values]
  BY DEF None
<1>2. {} \in SUBSET Fields
  OBVIOUS
<1> QED
  BY <1>1, <1>2 DEF Page

LEMMA AskType ==
    ASSUME NEW c \in Callers, NEW op \in {"login", "page", "post", "logout"},
           NEW form \in Page
    PROVE  Ask(c, op, form) \in Request
BY DEF Ask, Request

\* What a page shows can be stored and, merged with a change, posted.
LEMMA ReadingIsPage == ASSUME TypeOK, NEW page \in Readings PROVE page \in Page
<1>1. calibration \in Page
  BY DEF TypeOK, Page
<1>2. ASSUME NEW D \in SUBSET Fields PROVE [f \in D |-> Fallback] \in Page
  <2>1. [f \in D |-> Fallback] \in [D -> Values]
    BY InstallerAssumption
  <2> QED
    BY <2>1 DEF Page
<1> QED
  BY <1>1, <1>2 DEF Readings

LEMMA MergedIsPage ==
    ASSUME NEW page \in Page, NEW f \in Fields, NEW v \in Values
    PROVE  Merged(page, f, v) \in Page
<1>1. PICK D \in SUBSET Fields : page \in [D -> Values]
  BY DEF Page
<1>2. Merged(page, f, v) \in [D \cup {f} -> Values]
  BY <1>1 DEF Merged
<1> QED
  BY <1>2 DEF Page

\* The chain keeps its type in each of the ways it may change.
LEMMA ChainType ==
    ASSUME TypeOK, NEW req \in Request
    PROVE  /\ Enqueue(req) => chain' \in Seq(Request) /\ retried' \in BOOLEAN
           /\ chain # <<>> /\ SettleAndEnqueue(req)
                => chain' \in Seq(Request) /\ retried' \in BOOLEAN
<1>1. chain \in Seq(Request) /\ retried \in BOOLEAN
  BY DEF TypeOK
<1>2. ASSUME Enqueue(req) PROVE chain' \in Seq(Request) /\ retried' \in BOOLEAN
  BY <1>1, <1>2, AppendProperties DEF Enqueue
<1>3. ASSUME chain # <<>>, SettleAndEnqueue(req)
      PROVE  chain' \in Seq(Request) /\ retried' \in BOOLEAN
  <2>1. Tail(chain) \in Seq(Request)
    BY <1>1, <1>3, HeadTailProperties
  <2> QED
    BY <1>3, <2>1, AppendProperties DEF SettleAndEnqueue
<1> QED
  BY <1>2, <1>3

LEMMA SettleType ==
    ASSUME TypeOK, chain # <<>>, Settle
    PROVE  chain' \in Seq(Request) /\ retried' \in BOOLEAN
BY HeadTailProperties DEF TypeOK, Settle

LEMMA StageType ==
    ASSUME NEW ss \in [Callers -> Session], NEW c \in Callers, NEW st \in Stage
    PROVE  [ss EXCEPT ![c].st = st] \in [Callers -> Session]
<1>1. [ss[c] EXCEPT !.st = st] \in Session
  BY DEF Session
<1> QED
  BY <1>1

LEMMA ReleaseType ==
    ASSUME TypeOK, NEW c \in Callers, NEW st \in {"ok", "failed"}, Release(c, st)
    PROVE  /\ busy' \in BOOLEAN
           /\ waiters' \in Seq(Callers)
           /\ session' \in [Callers -> Session]
<1> DEFINE done == [session EXCEPT ![c].st = st]
<1>1. busy \in BOOLEAN /\ waiters \in Seq(Callers)
  BY DEF TypeOK
<1>2. done \in [Callers -> Session]
  BY StageType DEF TypeOK, Stage
<1>3. CASE waiters # <<>>
  <2>1. Head(waiters) \in Callers /\ Tail(waiters) \in Seq(Callers)
    BY <1>1, <1>3, HeadTailProperties
  <2>2. session' = [done EXCEPT ![Head(waiters)].st = "granted"]
    BY <1>3 DEF Release
  <2>3. session' \in [Callers -> Session]
    BY <1>2, <2>1, <2>2, StageType DEF Stage
  <2> QED
    BY <1>1, <1>3, <2>1, <2>3 DEF Release
<1>4. CASE waiters = <<>>
  BY <1>1, <1>2, <1>4 DEF Release
<1> QED
  BY <1>3, <1>4

\* Requests of the controller keep its variables in their types.
LEMMA ObeyedType ==
    ASSUME TypeOK, NEW req \in Request, MaybeObeyed(req)
    PROVE  installer' \in BOOLEAN /\ calibration' \in [Fields -> Values]
<1>1. installer \in BOOLEAN /\ calibration \in [Fields -> Values]
  BY DEF TypeOK
<1>2. CASE UNCHANGED deviceVars
  BY <1>1, <1>2 DEF deviceVars
<1>3. CASE Obeyed(req)
  <2>1. installer' \in BOOLEAN
    BY <1>1, <1>3 DEF Obeyed
  <2>2. CASE req.op = "post" /\ installer
    <3>1. PICK unnamed \in [Fields \ DOMAIN req.form -> Values] :
             calibration' = [f \in Fields |-> IF f \in DOMAIN req.form THEN req.form[f]
                                              ELSE unnamed[f]]
      BY <1>3, <2>2 DEF Obeyed
    <3>2. PICK D \in SUBSET Fields : req.form \in [D -> Values]
      BY DEF Request, Page
    <3> QED
      BY <2>1, <3>1, <3>2
  <2>3. CASE ~(req.op = "post" /\ installer)
    BY <1>1, <1>3, <2>1, <2>3 DEF Obeyed
  <2> QED
    BY <2>2, <2>3
<1> QED
  BY <1>2, <1>3 DEF MaybeObeyed

LEMMA ServedType == ASSUME TypeOK, chain # <<>> PROVE Served \in Request
BY HeadTailProperties DEF TypeOK, Served

\* Finish keeps the types of what it changes.
LEMMA FinishType ==
    ASSUME TypeOK, NEW c \in Callers, chain # <<>>, Finish(c)
    PROVE  /\ chain' \in Seq(Request) /\ retried' \in BOOLEAN
           /\ busy' \in BOOLEAN /\ waiters' \in Seq(Callers)
           /\ session' \in [Callers -> Session]
           /\ mirror' \in [Fields -> Values]
<1>1. mirror \in [Fields -> Values] /\ session[c] \in Session
  BY DEF TypeOK
<1>2. PICK D \in SUBSET Fields : session[c].result \in [D -> Values]
  BY <1>1 DEF Session, Page
<1>3. mirror' \in [Fields -> Values]
  BY <1>1, <1>2 DEF Finish
<1>4. Settle /\ \E st \in {"ok", "failed"} : Release(c, st)
  BY DEF Finish
<1> QED
  BY <1>3, <1>4, SettleType, ReleaseType

LEMMA InitTypeOK == Init => TypeOK
<1> SUFFICES ASSUME Init PROVE TypeOK
  OBVIOUS
<1> USE InstallerAssumption
<1>1. Start \in Session
  <2>1. (CHOOSE f \in Fields : TRUE) \in Fields
    OBVIOUS
  <2> QED
    BY <2>1, NoneIsPage DEF Start, Session, Stage
<1>2. chain \in Seq(Request) /\ waiters \in Seq(Callers)
  BY EmptySeq DEF Init, ClientInit
<1>3. session \in [Callers -> Session]
  BY <1>1 DEF Init
<1>4. calibration \in [Fields -> Values] /\ mirror \in [Fields -> Values]
  BY DEF Init
<1>5. esc \in 0..MaxEsc
  BY DEF Init
<1> QED
  BY <1>2, <1>3, <1>4, <1>5 DEF Init, ClientInit, TypeOK

LEMMA NextTypeOK == TypeOK /\ [Next]_vars => TypeOK'
<1> SUFFICES ASSUME TypeOK, [Next]_vars PROVE TypeOK'
  OBVIOUS
<1> USE InstallerAssumption
<1>t. /\ chain \in Seq(Request) /\ retried \in BOOLEAN
      /\ busy \in BOOLEAN /\ waiters \in Seq(Callers)
      /\ session \in [Callers -> Session]
      /\ installer \in BOOLEAN /\ calibration \in [Fields -> Values]
      /\ mirror \in [Fields -> Values]
      /\ esc \in 0..MaxEsc /\ leak \in BOOLEAN
  BY DEF TypeOK
<1>1. ASSUME NEW c \in Callers, NEW writes \in BOOLEAN, NEW f \in Fields, NEW v \in Values,
             Run(c, writes, f, v)
      PROVE  TypeOK'
  <2> DEFINE called == [session EXCEPT ![c].writes = writes, ![c].field = f, ![c].value = v]
  <2>1. called \in [Callers -> Session]
    <3>1. [session[c] EXCEPT !.writes = writes, !.field = f, !.value = v] \in Session
      BY <1>t DEF Session
    <3>2. called = [session EXCEPT ![c] =
                      [session[c] EXCEPT !.writes = writes, !.field = f, !.value = v]]
      BY <1>t
    <3> QED
      BY <1>t, <3>1, <3>2
  <2>2. Append(waiters, c) \in Seq(Callers)
    BY <1>t, AppendProperties
  <2>3. Acquire(c, called)
    BY <1>1 DEF Run
  <2> HIDE DEF called
  <2>4. session' \in [Callers -> Session]
    <3>1. \E st \in Stage : session' = [called EXCEPT ![c].st = st]
      BY <2>3 DEF Acquire, Stage
    <3> QED
      BY <2>1, <3>1, StageType
  <2> QED
    BY <1>t, <1>1, <2>2, <2>3, <2>4
       DEF TypeOK, Run, Acquire, clientVars, deviceVars
<1>2. ASSUME NEW c \in Callers, Login(c) PROVE TypeOK'
  BY <1>t, <1>2, AskType, NoneIsPage, ChainType, StageType
     DEF TypeOK, Login, Stage, lockVars, deviceVars
<1>3. ASSUME NEW c \in Callers, LoggedIn(c) PROVE TypeOK'
  <2>1. chain # <<>> /\ MaybeObeyed(Served)
    BY <1>3 DEF LoggedIn, Asking, MaybeObeyed
  <2>2. installer' \in BOOLEAN /\ calibration' \in [Fields -> Values]
    BY <2>1, ServedType, ObeyedType
  <2>3. GoOn(c, "page", None)
    BY <1>3 DEF LoggedIn
  <2>4. chain' \in Seq(Request) /\ retried' \in BOOLEAN
    BY <2>1, <2>3, AskType, NoneIsPage, ChainType DEF GoOn
  <2>5. session' \in [Callers -> Session]
    BY <1>t, <2>3, StageType DEF GoOn, Stage
  <2> QED
    BY <1>t, <1>3, <2>2, <2>4, <2>5 DEF TypeOK, LoggedIn, lockVars
<1>4. ASSUME NEW c \in Callers, LoginFails(c) PROVE TypeOK'
  <2>1. chain # <<>> /\ MaybeObeyed(Served) /\ Settle /\ Release(c, "failed")
    BY <1>4 DEF LoginFails, Asking
  <2>2. installer' \in BOOLEAN /\ calibration' \in [Fields -> Values]
    BY <2>1, ServedType, ObeyedType
  <2>3. chain' \in Seq(Request) /\ retried' \in BOOLEAN
    BY <2>1, SettleType
  <2>4. busy' \in BOOLEAN /\ waiters' \in Seq(Callers) /\ session' \in [Callers -> Session]
    BY <2>1, ReleaseType
  <2> QED
    BY <1>t, <1>4, <2>2, <2>3, <2>4 DEF TypeOK, LoginFails
<1>5. ASSUME NEW c \in Callers, PageArrives(c) PROVE TypeOK'
  <2> DEFINE writes == session[c].writes
             merged(page) == IF writes THEN Merged(page, session[c].field, session[c].value) ELSE page
             op == IF writes THEN "post" ELSE "logout"
  <2>0. PICK page \in Readings :
           /\ SettleAndEnqueue(Ask(c, op, IF writes THEN merged(page) ELSE None))
           /\ session' = [session EXCEPT ![c].st = op, ![c].result = merged(page)]
    BY <1>5 DEF PageArrives
  <2> DEFINE next == merged(page)
  <2>1. session[c] \in Session
    BY <1>t
  <2>2. next \in Page
    BY <2>1, ReadingIsPage, MergedIsPage DEF Session
  <2>3. Ask(c, op, IF writes THEN next ELSE None) \in Request
    BY <2>2, NoneIsPage, AskType
  <2>4. /\ chain # <<>>
        /\ SettleAndEnqueue(Ask(c, op, IF writes THEN next ELSE None))
        /\ session' = [session EXCEPT ![c].st = op, ![c].result = next]
    BY <1>5, <2>0 DEF PageArrives, Asking
  <2>5. op \in Stage
    BY DEF Stage
  <2> HIDE DEF next, op
  <2>6. chain' \in Seq(Request) /\ retried' \in BOOLEAN
    BY <2>3, <2>4, ChainType
  <2>7. session' \in [Callers -> Session]
    <3>1. [session[c] EXCEPT !.st = op, !.result = next] \in Session
      BY <2>1, <2>2, <2>5 DEF Session
    <3>2. session' = [session EXCEPT ![c] = [session[c] EXCEPT !.st = op, !.result = next]]
      BY <1>t, <2>4
    <3> QED
      BY <1>t, <3>1, <3>2
  <2> QED
    BY <1>t, <1>5, <2>6, <2>7 DEF TypeOK, PageArrives, lockVars, deviceVars
<1>6. ASSUME NEW c \in Callers, PostAccepted(c) PROVE TypeOK'
  <2>1. chain # <<>> /\ MaybeObeyed(Served) /\ GoOn(c, "logout", None)
    BY <1>6 DEF PostAccepted, Asking, MaybeObeyed
  <2>2. installer' \in BOOLEAN /\ calibration' \in [Fields -> Values]
    BY <2>1, ServedType, ObeyedType
  <2>3. chain' \in Seq(Request) /\ retried' \in BOOLEAN
    BY <2>1, AskType, NoneIsPage, ChainType DEF GoOn
  <2>4. session' \in [Callers -> Session]
    BY <1>t, <2>1, StageType DEF GoOn, Stage
  <2> QED
    BY <1>t, <1>6, <2>2, <2>3, <2>4 DEF TypeOK, PostAccepted, lockVars
<1>7. ASSUME NEW c \in Callers, FnFails(c) PROVE TypeOK'
  <2>1. /\ chain # <<>> /\ MaybeObeyed(Served)
        /\ SettleAndEnqueue(Ask(c, "logout", None))
        /\ session' = [session EXCEPT ![c].st = "logout", ![c].erred = TRUE]
    BY <1>7 DEF FnFails, Asking
  <2>2. installer' \in BOOLEAN /\ calibration' \in [Fields -> Values]
    BY <2>1, ServedType, ObeyedType
  <2>3. chain' \in Seq(Request) /\ retried' \in BOOLEAN
    BY <2>1, AskType, NoneIsPage, ChainType
  <2>4. session' \in [Callers -> Session]
    <3>1. [session[c] EXCEPT !.st = "logout", !.erred = TRUE] \in Session
      BY <1>t DEF Session, Stage
    <3>2. session' = [session EXCEPT ![c] = [session[c] EXCEPT !.st = "logout", !.erred = TRUE]]
      BY <1>t, <2>1
    <3> QED
      BY <1>t, <3>1, <3>2
  <2> QED
    BY <1>t, <1>7, <2>2, <2>3, <2>4 DEF TypeOK, FnFails, lockVars
<1>8. ASSUME NEW c \in Callers, LoggedOut(c) \/ LogoutFails(c) PROVE TypeOK'
  <2>1. /\ chain # <<>> /\ MaybeObeyed(Served) /\ Finish(c)
        /\ leak' \in BOOLEAN /\ esc' = esc
    BY <1>8 DEF LoggedOut, LogoutFails, Asking, MaybeObeyed
  <2>2. installer' \in BOOLEAN /\ calibration' \in [Fields -> Values]
    BY <2>1, ServedType, ObeyedType
  <2>3. /\ chain' \in Seq(Request) /\ retried' \in BOOLEAN
        /\ busy' \in BOOLEAN /\ waiters' \in Seq(Callers)
        /\ session' \in [Callers -> Session]
        /\ mirror' \in [Fields -> Values]
    BY <2>1, FinishType
  <2> QED
    BY <1>t, <2>1, <2>2, <2>3 DEF TypeOK
<1>9. CASE TimeoutRetried
  <2>1. chain # <<>> /\ MaybeObeyed(Served)
    BY <1>9 DEF TimeoutRetried, RetryInPlace
  <2>2. installer' \in BOOLEAN /\ calibration' \in [Fields -> Values]
    BY <2>1, ServedType, ObeyedType
  <2> QED
    BY <1>t, <1>9, <2>2 DEF TypeOK, TimeoutRetried, RetryInPlace, lockVars
<1>10. CASE OtherCall
  <2>1. Ask(Other, "plain", None) \in Request
    BY NoneIsPage DEF Ask, Request
  <2>2. chain' \in Seq(Request) /\ retried' \in BOOLEAN
    BY <1>10, <2>1, ChainType DEF OtherCall
  <2> QED
    BY <1>t, <1>10, <2>2 DEF TypeOK, OtherCall, lockVars, deviceVars
<1>11. CASE OtherSettles
  BY <1>t, <1>11, SettleType DEF TypeOK, OtherSettles, lockVars, deviceVars
<1>12. CASE LanLeaves
  <2>1. esc' \in 0..MaxEsc
    BY <1>t, <1>12 DEF LanLeaves
  <2> QED
    BY <1>t, <1>12, <2>1 DEF TypeOK, LanLeaves, clientVars, lockVars
<1>13. CASE UNCHANGED vars
  BY <1>t, <1>13 DEF TypeOK, vars, clientVars, lockVars, deviceVars
<1> QED
  BY <1>1, <1>2, <1>3, <1>4, <1>5, <1>6, <1>7, <1>8, <1>9, <1>10, <1>11, <1>12, <1>13
     DEF Next, Answered

\* Every variable of an installer session keeps its type.
THEOREM TypeCorrect == Spec => []TypeOK
BY InitTypeOK, NextTypeOK, PTL DEF Spec

-----------------------------------------------------------------------------
(* Mutual exclusion.  MutexInv is inductive on typed states: a step either   *)
(* acquires, or releases, or leaves the holder, the waiters and everybody's  *)
(* standing towards the mutex alone.                                         *)

LEMMA InitMutexInv == Init => MutexInv
<1> SUFFICES ASSUME Init PROVE MutexInv
  OBVIOUS
<1>1. \A c \in Callers : session[c].st = "idle"
  BY DEF Init, Start
<1>2. ~busy /\ waiters = <<>>
  BY DEF Init
<1>3. Len(waiters) = 0
  BY <1>2
<1> QED
  BY <1>1, <1>2, <1>3 DEF MutexInv, OneSessionAtATime, Holding

\* What a step can do to the mutex: c asks for it, c gives it up, or nobody's
\* standing towards it changes.
Asks(c) ==
    /\ session[c].st = "idle"
    /\ \A d \in Callers : d < c => session[d].st # "idle"
    /\ \E called \in [Callers -> Session] :
          /\ \A d \in Callers : called[d].st = session[d].st
          /\ Acquire(c, called)

GivesUp(c) == Holding(c) /\ \E st \in {"ok", "failed"} : Release(c, st)

Indifferent ==
    /\ UNCHANGED lockVars
    /\ \A d \in Callers : /\ Holding(d)' <=> Holding(d)
                          /\ session'[d].st = "waiting" <=> session[d].st = "waiting"
                          /\ ~Holding(d) => session'[d].st = session[d].st

LEMMA StepKinds ==
    ASSUME TypeOK, [Next]_vars
    PROVE  Indifferent \/ \E c \in Callers : Asks(c) \/ GivesUp(c)
<1>t. session \in [Callers -> Session]
  BY DEF TypeOK
<1>h. \* c goes on within its session
      ASSUME NEW c \in Callers, NEW st \in {"login", "page", "post", "logout"},
             Holding(c), UNCHANGED lockVars,
             session'[c].st = st, \A d \in Callers : d # c => session'[d] = session[d]
      PROVE  Indifferent
  BY <1>h DEF Indifferent, Holding
<1>1. ASSUME NEW c \in Callers, NEW writes \in BOOLEAN, NEW f \in Fields, NEW v \in Values,
             Run(c, writes, f, v)
      PROVE  Asks(c)
  <2> DEFINE mark(s) == [s EXCEPT !.writes = writes, !.field = f, !.value = v]
             called == [session EXCEPT ![c].writes = writes, ![c].field = f, ![c].value = v]
  <2>1. mark(session[c]) \in Session /\ mark(session[c]).st = session[c].st
    BY <1>t DEF Session
  <2>2. called = [session EXCEPT ![c] = mark(session[c])]
    BY <1>t
  <2>3. called \in [Callers -> Session] /\ \A d \in Callers : called[d].st = session[d].st
    BY <1>t, <2>1, <2>2
  <2>4. /\ session[c].st = "idle" /\ Acquire(c, called)
        /\ \A d \in Callers : d < c => session[d].st # "idle"
    BY <1>1 DEF Run
  <2> HIDE DEF called
  <2> QED
    BY <2>3, <2>4 DEF Asks
<1>2. ASSUME NEW c \in Callers, Login(c) PROVE Indifferent
  BY <1>t, <1>h, <1>2 DEF Login, Holding
<1>3. ASSUME NEW c \in Callers, LoggedIn(c) PROVE Indifferent
  BY <1>t, <1>h, <1>3 DEF LoggedIn, Asking, GoOn, Holding
<1>4. ASSUME NEW c \in Callers, LoginFails(c) PROVE GivesUp(c)
  BY <1>4 DEF LoginFails, Asking, Holding, GivesUp
<1>5. ASSUME NEW c \in Callers, PageArrives(c) PROVE Indifferent
  <2> DEFINE merged(page) == IF session[c].writes
                             THEN Merged(page, session[c].field, session[c].value) ELSE page
             op == IF session[c].writes THEN "post" ELSE "logout"
  <2>0. PICK page \in Readings :
           session' = [session EXCEPT ![c].st = op, ![c].result = merged(page)]
    BY <1>5 DEF PageArrives
  <2> DEFINE next == merged(page)
  <2>1. /\ session[c].st = "page" /\ UNCHANGED lockVars
        /\ session' = [session EXCEPT ![c].st = op, ![c].result = next]
    BY <1>5, <2>0 DEF PageArrives, Asking
  <2> HIDE DEF next
  <2>2. session' = [session EXCEPT ![c] = [session[c] EXCEPT !.st = op, !.result = next]]
    BY <1>t, <2>1
  <2>3. [session[c] EXCEPT !.st = op, !.result = next].st = op
    BY <1>t DEF Session
  <2> QED
    BY <1>t, <1>h, <2>1, <2>2, <2>3 DEF Holding
<1>6. ASSUME NEW c \in Callers, PostAccepted(c) PROVE Indifferent
  BY <1>t, <1>h, <1>6 DEF PostAccepted, Asking, GoOn, Holding
<1>7. ASSUME NEW c \in Callers, FnFails(c) PROVE Indifferent
  <2>1. /\ session[c].st \in {"page", "post"} /\ UNCHANGED lockVars
        /\ session' = [session EXCEPT ![c].st = "logout", ![c].erred = TRUE]
    BY <1>7 DEF FnFails, Asking
  <2>2. session' = [session EXCEPT ![c] = [session[c] EXCEPT !.st = "logout", !.erred = TRUE]]
    BY <1>t, <2>1
  <2>3. [session[c] EXCEPT !.st = "logout", !.erred = TRUE].st = "logout"
    BY <1>t DEF Session
  <2> QED
    BY <1>t, <1>h, <2>1, <2>2, <2>3 DEF Holding
<1>8. ASSUME NEW c \in Callers, LoggedOut(c) \/ LogoutFails(c) PROVE GivesUp(c)
  BY <1>8 DEF LoggedOut, LogoutFails, Finish, Asking, Holding, GivesUp
<1>9. ASSUME UNCHANGED lockVars, UNCHANGED session PROVE Indifferent
  BY <1>9 DEF Indifferent, Holding
<1> QED
  BY <1>1, <1>2, <1>3, <1>4, <1>5, <1>6, <1>7, <1>8, <1>9
     DEF Next, Answered, TimeoutRetried, OtherCall, OtherSettles, LanLeaves, vars

LEMMA AcquireMutex ==
    ASSUME TypeOK, MutexInv, NEW c \in Callers, session[c].st = "idle",
           NEW called \in [Callers -> Session],
           \A d \in Callers : called[d].st = session[d].st,
           Acquire(c, called)
    PROVE  MutexInv'
<1>1. /\ busy \in BOOLEAN /\ waiters \in Seq(Callers)
      /\ \A i \in 1..Len(waiters) : waiters[i] \in Callers
  BY DEF TypeOK
<1>2. ASSUME NEW i \in 1..Len(waiters) PROVE waiters[i] # c
  BY <1>1 DEF MutexInv
<1>3. CASE ~busy
  <2>1. /\ busy' = TRUE /\ waiters' = waiters /\ waiters = <<>>
        /\ \A d \in Callers : ~Holding(d)
        /\ session' = [called EXCEPT ![c].st = "granted"]
    BY <1>3 DEF Acquire, MutexInv
  <2>2. /\ session'[c].st = "granted"
        /\ \A d \in Callers : d # c => session'[d].st = session[d].st
    BY <2>1
  <2>3. \A d \in Callers : Holding(d)' <=> d = c
    BY <2>1, <2>2 DEF Holding
  <2>4. \A d \in Callers : session'[d].st # "waiting"
    BY <2>1, <2>2 DEF MutexInv
  <2> QED
    BY <2>1, <2>3, <2>4 DEF MutexInv, OneSessionAtATime
<1>4. CASE busy
  <2>1. /\ waiters' = Append(waiters, c) /\ busy' = busy
        /\ session' = [called EXCEPT ![c].st = "waiting"]
    BY <1>4 DEF Acquire
  <2>2. /\ session'[c].st = "waiting"
        /\ \A d \in Callers : d # c => session'[d].st = session[d].st
    BY <2>1
  <2>3. \A d \in Callers : Holding(d)' <=> Holding(d)
    BY <2>2 DEF Holding
  <2>4. /\ Len(waiters') = Len(waiters) + 1
        /\ \A i \in 1..Len(waiters) : waiters'[i] = waiters[i]
        /\ waiters'[Len(waiters) + 1] = c
    BY <1>1, <2>1, AppendProperties
  <2>5. Len(waiters) \in Nat
    BY <1>1
  <2>6. \A i \in 1..Len(waiters') : session'[waiters'[i]].st = "waiting"
    BY <1>1, <1>2, <2>2, <2>4, <2>5 DEF MutexInv
  <2>7. \A d \in Callers : session'[d].st = "waiting" =>
           \E i \in 1..Len(waiters') : waiters'[i] = d
    BY <2>2, <2>4, <2>5 DEF MutexInv
  <2>8. \A i, j \in 1..Len(waiters') : waiters'[i] = waiters'[j] => i = j
    BY <1>2, <2>4, <2>5 DEF MutexInv
  <2> QED
    BY <1>4, <2>1, <2>3, <2>6, <2>7, <2>8 DEF MutexInv, OneSessionAtATime
<1> QED
  BY <1>3, <1>4

LEMMA ReleaseMutex ==
    ASSUME TypeOK, MutexInv, NEW c \in Callers, Holding(c), NEW st \in {"ok", "failed"},
           Release(c, st)
    PROVE  MutexInv'
<1>1. /\ busy /\ waiters \in Seq(Callers)
      /\ \A d \in Callers : Holding(d) => d = c
      /\ session \in [Callers -> Session]
  BY DEF TypeOK, MutexInv, OneSessionAtATime
<1>2. CASE waiters # <<>>
  <2> DEFINE w == Head(waiters)
  <2>1. /\ waiters' = Tail(waiters) /\ busy' = busy
        /\ session' = [session EXCEPT ![c].st = st, ![w].st = "granted"]
    BY <1>2 DEF Release
  <2>2. /\ w \in Callers /\ w = waiters[1]
        /\ Len(waiters) \in Nat /\ Len(waiters) >= 1
        /\ Len(waiters') = Len(waiters) - 1
        /\ \A i \in 1..Len(waiters') : waiters'[i] = waiters[i + 1]
        /\ \A i \in 1..Len(waiters) : waiters[i] \in Callers
    BY <1>1, <1>2, <2>1, HeadTailProperties, ElementOfSeq
  <2>3. session[w].st = "waiting" /\ w # c
    BY <2>2 DEF MutexInv, Holding
  <2>4. /\ session'[c].st = st /\ session'[w].st = "granted"
        /\ \A d \in Callers : d \notin {c, w} => session'[d].st = session[d].st
    <3> DEFINE done == [session EXCEPT ![c].st = st]
    <3>1. session' = [done EXCEPT ![w].st = "granted"]
      BY <2>1
    <3>2. /\ done \in [Callers -> Session] /\ done[c].st = st
          /\ \A d \in Callers : d # c => done[d].st = session[d].st
      <4>1. done \in [Callers -> Session]
        BY <1>1, StageType DEF Stage
      <4>2. done[c] = [session[c] EXCEPT !.st = st] /\ session[c] \in Session
        BY <1>1
      <4>3. done[c].st = st
        BY <4>2 DEF Session
      <4> QED
        BY <1>1, <4>1, <4>3
    <3> HIDE DEF done
    <3> QED
      BY <2>2, <2>3, <3>1, <3>2
  <2> HIDE DEF w
  <2>5. \A d \in Callers : Holding(d)' <=> d = w
    BY <1>1, <2>3, <2>4 DEF Holding
  <2>6. \A i \in 1..Len(waiters') : session'[waiters'[i]].st = "waiting"
    <3> SUFFICES ASSUME NEW i \in 1..Len(waiters') PROVE session'[waiters'[i]].st = "waiting"
      OBVIOUS
    <3>1. i + 1 \in 1..Len(waiters) /\ 1 \in 1..Len(waiters) /\ i + 1 # 1
      BY <2>2
    <3>2. session[waiters[i + 1]].st = "waiting" /\ waiters[i + 1] # w
      BY <2>2, <3>1 DEF MutexInv
    <3>3. waiters[i + 1] # c
      BY <3>2 DEF Holding
    <3> QED
      BY <2>2, <2>4, <3>1, <3>2, <3>3
  <2>7. \A d \in Callers : session'[d].st = "waiting" =>
           \E i \in 1..Len(waiters') : waiters'[i] = d
    <3> SUFFICES ASSUME NEW d \in Callers, session'[d].st = "waiting"
                 PROVE  \E i \in 1..Len(waiters') : waiters'[i] = d
      OBVIOUS
    <3>1. d # w /\ session[d].st = "waiting"
      BY <2>4
    <3>2. PICK k \in 1..Len(waiters) : waiters[k] = d
      BY <3>1 DEF MutexInv
    <3>3. k # 1
      BY <2>2, <3>1, <3>2
    <3>4. k - 1 \in 1..Len(waiters') /\ waiters'[k - 1] = d
      BY <2>2, <3>2, <3>3
    <3> QED
      BY <3>4
  <2>8. \A i, j \in 1..Len(waiters') : waiters'[i] = waiters'[j] => i = j
    <3> SUFFICES ASSUME NEW i \in 1..Len(waiters'), NEW j \in 1..Len(waiters'),
                        waiters'[i] = waiters'[j]
                 PROVE  i = j
      OBVIOUS
    <3>1. i + 1 \in 1..Len(waiters) /\ j + 1 \in 1..Len(waiters)
      BY <2>2
    <3>2. waiters[i + 1] = waiters[j + 1]
      BY <2>2
    <3>3. i + 1 = j + 1
      BY <3>1, <3>2 DEF MutexInv
    <3> QED
      BY <3>3
  <2>9. OneSessionAtATime' /\ (busy' <=> \E d \in Callers : Holding(d)')
    BY <1>1, <2>1, <2>2, <2>5 DEF OneSessionAtATime
  <2>10. ~busy' => waiters' = <<>>
    BY <1>1, <2>1
  <2> QED
    BY <2>6, <2>7, <2>8, <2>9, <2>10 DEF MutexInv
<1>3. CASE waiters = <<>>
  <2>1. /\ busy' = FALSE /\ waiters' = <<>>
        /\ session' = [session EXCEPT ![c].st = st]
    BY <1>3 DEF Release
  <2>2. /\ session'[c].st = st
        /\ \A d \in Callers : d # c => session'[d].st = session[d].st
    BY <1>1, <2>1
  <2>3. \A d \in Callers : ~Holding(d)'
    BY <1>1, <2>2 DEF Holding
  <2>4. \A d \in Callers : session'[d].st # "waiting"
    BY <1>3, <2>2 DEF MutexInv
  <2> QED
    BY <2>1, <2>3, <2>4 DEF MutexInv, OneSessionAtATime
<1> QED
  BY <1>2, <1>3

\* A step that leaves everybody's standing towards the mutex alone.
LEMMA SameMutex ==
    ASSUME TypeOK, MutexInv, UNCHANGED lockVars,
           \A d \in Callers : /\ Holding(d)' <=> Holding(d)
                              /\ session'[d].st = "waiting" <=> session[d].st = "waiting"
    PROVE  MutexInv'
<1>1. busy' = busy /\ waiters' = waiters
  BY DEF lockVars
<1>2. \A i \in 1..Len(waiters) : waiters[i] \in Callers
  BY DEF TypeOK
<1> QED
  BY <1>1, <1>2 DEF MutexInv, OneSessionAtATime

LEMMA NextMutexInv == TypeOK /\ MutexInv /\ [Next]_vars => MutexInv'
<1> SUFFICES ASSUME TypeOK, MutexInv, [Next]_vars PROVE MutexInv'
  OBVIOUS
<1>1. ASSUME NEW c \in Callers, Asks(c) PROVE MutexInv'
  BY <1>1, AcquireMutex DEF Asks
<1>2. ASSUME NEW c \in Callers, GivesUp(c) PROVE MutexInv'
  BY <1>2, ReleaseMutex DEF GivesUp
<1>3. ASSUME Indifferent PROVE MutexInv'
  BY <1>3, SameMutex DEF Indifferent
<1> QED
  BY <1>1, <1>2, <1>3, StepKinds

\* The mutex and its queue tell the truth at every moment: whatever fails, the
\* queue holds exactly the waiting callers, and a free mutex has no waiters.
THEOREM QueueCorrect == Spec => []MutexInv
<1>1. Init => TypeOK /\ MutexInv
  BY InitTypeOK, InitMutexInv
<1>2. TypeOK /\ MutexInv /\ [Next]_vars => TypeOK' /\ MutexInv'
  BY NextTypeOK, NextMutexInv
<1> QED
  BY <1>1, <1>2, PTL DEF Spec

-----------------------------------------------------------------------------
(* The mutex makes only the steps of the abstract FIFO lock.                 *)

\* Holder is the session that is open, and NoOne when none is.
LEMMA HolderIs ==
    ASSUME MutexInv
    PROVE  /\ \A c \in Callers : Holding(c) => Holder = c
           /\ (\A c \in Callers : ~Holding(c)) => Holder = NoOne
           /\ Holder = NoOne => \A c \in Callers : ~Holding(c)
BY InstallerAssumption DEF Holder, MutexInv, OneSessionAtATime

LEMMA HolderIsNext ==
    ASSUME MutexInv'
    PROVE  /\ \A c \in Callers : Holding(c)' => Holder' = c
           /\ (\A c \in Callers : ~Holding(c)') => Holder' = NoOne
BY InstallerAssumption DEF Holder, MutexInv, OneSessionAtATime

\* A call of run() takes a free mutex, or waits behind the others.
LEMMA AcquireIsLockStep ==
    ASSUME TypeOK, MutexInv, MutexInv', NEW c \in Callers, session[c].st = "idle",
           NEW called \in [Callers -> Session],
           \A d \in Callers : called[d].st = session[d].st,
           Acquire(c, called)
    PROVE  Lock!Take(c) \/ Lock!Wait(c)
<1>1. CASE ~busy
  <2>1. Holder = NoOne
    BY <1>1, HolderIs DEF MutexInv
  <2>2. waiters' = waiters /\ session' = [called EXCEPT ![c].st = "granted"]
    BY <1>1 DEF Acquire
  <2>3. Holding(c)'
    <3>1. session'[c].st = "granted"
      BY <2>2
    <3> QED
      BY <3>1 DEF Holding
  <2>4. Holder' = c
    BY <2>3, HolderIsNext
  <2> QED
    BY <2>1, <2>2, <2>4 DEF Lock!Take
<1>2. CASE busy
  <2>1. PICK h \in Callers : Holding(h)
    BY <1>2 DEF MutexInv
  <2>2. Holder = h /\ h # c /\ h # NoOne
    BY <2>1, HolderIs, InstallerAssumption DEF Holding
  <2>3. waiters' = Append(waiters, c) /\ session' = [called EXCEPT ![c].st = "waiting"]
    BY <1>2 DEF Acquire
  <2>4. Holding(h)'
    <3>1. session'[h].st = session[h].st
      BY <2>2, <2>3
    <3> QED
      BY <2>1, <3>1 DEF Holding
  <2>5. Holder' = h
    BY <2>4, HolderIsNext
  <2>6. \A i \in 1..Len(waiters) : waiters[i] # c
    BY DEF MutexInv
  <2> QED
    BY <2>2, <2>3, <2>5, <2>6 DEF Lock!Wait, Lock!InQueue
<1> QED
  BY <1>1, <1>2

\* The end of a session gives the mutex to the first waiter, or frees it.
LEMMA ReleaseIsLockStep ==
    ASSUME TypeOK, MutexInv, MutexInv', NEW c \in Callers, Holding(c),
           NEW st \in {"ok", "failed"}, Release(c, st)
    PROVE  Lock!Release
<1>1. session \in [Callers -> Session] /\ waiters \in Seq(Callers)
  BY DEF TypeOK
<1>2. Holder = c /\ c # NoOne
  BY HolderIs, InstallerAssumption
<1>3. CASE waiters # <<>>
  <2>1. PICK w \in Callers : w = Head(waiters)
    BY <1>1, <1>3, HeadTailProperties
  <2>2. /\ waiters' = Tail(waiters)
        /\ session' = [session EXCEPT ![c].st = st, ![w].st = "granted"]
    BY <1>3, <2>1 DEF Release
  <2>3. session'[w].st = "granted"
    <3> DEFINE done == [session EXCEPT ![c].st = st]
    <3>1. done \in [Callers -> Session]
      BY <1>1, StageType DEF Stage
    <3>2. session' = [done EXCEPT ![w].st = "granted"]
      BY <2>2
    <3> HIDE DEF done
    <3>3. session'[w] = [done[w] EXCEPT !.st = "granted"] /\ done[w] \in Session
      BY <3>1, <3>2
    <3> QED
      BY <3>3 DEF Session
  <2>4. Holding(w)'
    BY <2>3 DEF Holding
  <2>5. Holder' = w
    BY <2>4, HolderIsNext
  <2> QED
    BY <1>2, <1>3, <2>1, <2>2, <2>5 DEF Lock!Release
<1>4. CASE waiters = <<>>
  <2>1. waiters' = waiters /\ busy' = FALSE
    BY <1>4 DEF Release
  <2>2. \A d \in Callers : ~Holding(d)'
    BY <2>1 DEF MutexInv
  <2>3. Holder' = NoOne
    BY <2>2, HolderIsNext
  <2> QED
    BY <1>2, <1>4, <2>1, <2>3 DEF Lock!Release
<1> QED
  BY <1>3, <1>4

\* A step inside a session, or of somebody else, is none of the lock's.
LEMMA StutterIsLockStep ==
    ASSUME MutexInv, MutexInv', UNCHANGED lockVars,
           \A d \in Callers : Holding(d)' <=> Holding(d)
    PROVE  UNCHANGED Lock!vars
<1>1. waiters' = waiters
  BY DEF lockVars
<1>2. Holder' = Holder
  <2>1. CASE \E d \in Callers : Holding(d)
    <3>1. PICK d \in Callers : Holding(d)
      BY <2>1
    <3>2. Holding(d)'
      BY <3>1
    <3> QED
      BY <3>1, <3>2, HolderIs, HolderIsNext
  <2>2. CASE \A d \in Callers : ~Holding(d)
    <3>1. \A d \in Callers : ~Holding(d)'
      BY <2>2
    <3> QED
      BY <2>2, <3>1, HolderIs, HolderIsNext
  <2> QED
    BY <2>1, <2>2
<1> QED
  BY <1>1, <1>2 DEF Lock!vars

LEMMA InitIsLockInit == Init => Lock!Init
<1> SUFFICES ASSUME Init PROVE Lock!Init
  OBVIOUS
<1>1. \A c \in Callers : ~Holding(c)
  BY DEF Init, Start, Holding
<1>2. Holder = NoOne
  BY <1>1, InitMutexInv, HolderIs
<1> QED
  BY <1>2 DEF Init, Lock!Init

LEMMA NextIsLockStep ==
    ASSUME TypeOK, MutexInv, MutexInv', [Next]_vars
    PROVE  [Lock!Next]_(Lock!vars)
<1>1. ASSUME NEW c \in Callers, Asks(c) PROVE Lock!Next
  BY <1>1, AcquireIsLockStep DEF Asks, Lock!Next
<1>2. ASSUME NEW c \in Callers, GivesUp(c) PROVE Lock!Next
  BY <1>2, ReleaseIsLockStep DEF GivesUp, Lock!Next
<1>3. ASSUME Indifferent PROVE UNCHANGED Lock!vars
  BY <1>3, StutterIsLockStep DEF Indifferent
<1> QED
  BY <1>1, <1>2, <1>3, StepKinds

\* The mutex implements the FIFO lock, its fairness aside: it is free at first,
\* and acquire() and release() (installer.ts:41-57) take it, wait for it in the
\* order of the calls and hand it on, whichever requests fail in between.
THEOREM ImplementsFifoLock == Spec => LockSteps
<1>1. Init => Lock!Init /\ TypeOK /\ MutexInv
  BY InitIsLockInit, InitTypeOK, InitMutexInv
<1>2. TypeOK /\ MutexInv /\ [Next]_vars
         => TypeOK' /\ MutexInv' /\ [Lock!Next]_(Lock!vars)
  BY NextTypeOK, NextMutexInv, NextIsLockStep
<1> QED
  BY <1>1, <1>2, PTL DEF Spec, LockSteps

-----------------------------------------------------------------------------
(* What a session promises of the controller.  The requests that wait in the *)
(* chain are the part of the state that the promises depend on: each is the  *)
(* one its caller waits for, so that the holder of the mutex has at most one *)
(* there, and nobody else has any.                                           *)

\* A queue of requests `q` is sound for sessions `ss`: each request of a caller
\* is the one it is waiting for, and its only one.
OwnIn(q, ss) ==
    /\ \A i \in 1..Len(q) :
          \/ q[i].by = Other /\ q[i].op = "plain"
          \/ \E c \in Callers : /\ q[i].by = c
                                /\ q[i].op = ss[c].st
                                /\ ss[c].st = "post" => q[i].form = ss[c].result
    /\ \A i, j \in 1..Len(q) : q[i].by \in Callers /\ q[i].by = q[j].by => i = j

HasNone(q, c) == \A i \in 1..Len(q) : q[i].by # c

OwnRequests == OwnIn(chain, session)

Started(c) == session[c].st \notin {"idle", "waiting"}

\* The callers get their turns in the order of their numbers.
InTurn ==
    /\ \A c, d \in Callers : session[c].st # "idle" /\ session[d].st = "idle" => c < d
    /\ \A c, d \in Callers : Started(c) /\ session[d].st = "waiting" => c < d
    /\ \A c, d \in Callers : Started(c) /\ Holding(d) => c <= d
    /\ \A i, j \in 1..Len(waiters) : i < j => waiters[i] < waiters[j]

\* A call whose fn rejected is on its way out.
ErrorsEnd == \A c \in Callers : session[c].erred => session[c].st \in {"logout", "failed"}

\* While c posts, the form is the entries with its own change over them, and
\* once fn succeeded the entries are what it read or wrote.
ReadWhole(c) ==
    /\ session[c].st = "post" =>
          /\ session[c].writes
          /\ session[c].result \in [Fields -> Values]
          /\ \A f \in Fields : session[c].result[f] = IF f = session[c].field
                                                     THEN session[c].value ELSE calibration[f]
    /\ session[c].st = "logout" /\ ~session[c].erred =>
          /\ session[c].result = calibration
          /\ session[c].writes => calibration[session[c].field] = session[c].value

\* The Store shows the entries unless a change is under way or a call failed.
Mirrored ==
    (\A c \in Callers : session[c].st \notin {"post", "logout", "failed"})
        => mirror = calibration

-----------------------------------------------------------------------------
(* The chain of requests.                                                    *)

Awaited == {"login", "page", "post", "logout"}

LEMMA OwnAppend ==
    ASSUME NEW q \in Seq(Request), OwnIn(q, session), NEW c \in Callers, HasNone(q, c),
           NEW op \in Awaited, NEW form \in Page,
           session'[c].st = op, op = "post" => session'[c].result = form,
           \A d \in Callers : d # c => session'[d] = session[d]
    PROVE  OwnIn(Append(q, Ask(c, op, form)), session')
<1> DEFINE req == Ask(c, op, form)
           new == Append(q, req)
<1>1. req \in Request
  BY AskType DEF Awaited
<1>2. req.by = c /\ req.op = op /\ req.form = form
  BY DEF Ask
<1> HIDE DEF req
<1>3. /\ Len(q) \in Nat
      /\ Len(new) = Len(q) + 1
      /\ \A i \in 1..Len(q) : new[i] = q[i]
      /\ new[Len(q) + 1] = req
  BY <1>1, AppendProperties
<1> HIDE DEF new
<1>4. ASSUME NEW i \in 1..Len(new)
      PROVE  \/ new[i].by = Other /\ new[i].op = "plain"
             \/ \E d \in Callers : /\ new[i].by = d
                                   /\ new[i].op = session'[d].st
                                   /\ session'[d].st = "post" => new[i].form = session'[d].result
  <2>1. CASE i = Len(q) + 1
    BY <1>2, <1>3, <2>1
  <2>2. CASE i # Len(q) + 1
    <3>1. i \in 1..Len(q) /\ new[i] = q[i] /\ q[i].by # c
      BY <1>3, <2>2 DEF HasNone
    <3> QED
      BY <3>1 DEF OwnIn
  <2> QED
    BY <2>1, <2>2
<1>5. ASSUME NEW i \in 1..Len(new), NEW j \in 1..Len(new),
             new[i].by \in Callers, new[i].by = new[j].by
      PROVE  i = j
  <2>1. i \in 1..Len(q) \/ i = Len(q) + 1
    BY <1>3
  <2>2. j \in 1..Len(q) \/ j = Len(q) + 1
    BY <1>3
  <2> QED
    BY <1>2, <1>3, <1>5, <2>1, <2>2 DEF OwnIn, HasNone
<1> QED
  BY <1>4, <1>5 DEF OwnIn, new, req

LEMMA OwnTail ==
    ASSUME NEW q \in Seq(Request), q # <<>>, NEW ss, OwnIn(q, ss)
    PROVE  /\ OwnIn(Tail(q), ss)
           /\ Head(q).by \in Callers => HasNone(Tail(q), Head(q).by)
<1> DEFINE new == Tail(q)
<1>1. /\ Len(q) \in Nat /\ Len(q) >= 1
      /\ Len(new) = Len(q) - 1
      /\ \A i \in 1..Len(new) : new[i] = q[i + 1]
      /\ Head(q) = q[1]
  BY HeadTailProperties
<1> HIDE DEF new
<1>2. /\ 1 \in 1..Len(q)
      /\ \A i \in 1..Len(new) : i + 1 \in 1..Len(q) /\ i + 1 # 1
  BY <1>1
<1>3. \A i, j \in 1..Len(new) : new[i].by \in Callers /\ new[i].by = new[j].by => i = j
  <2> SUFFICES ASSUME NEW i \in 1..Len(new), NEW j \in 1..Len(new),
                      new[i].by \in Callers, new[i].by = new[j].by
               PROVE  i = j
    OBVIOUS
  <2>1. i + 1 = j + 1
    BY <1>1, <1>2 DEF OwnIn
  <2> QED
    BY <2>1
<1>4. q[1].by \in Callers => \A i \in 1..Len(new) : new[i].by # q[1].by
  BY <1>1, <1>2 DEF OwnIn
<1>5. OwnIn(new, ss)
  BY <1>1, <1>2, <1>3 DEF OwnIn
<1> QED
  BY <1>1, <1>4, <1>5 DEF HasNone, new

\* Whoever has no request may do as he pleases.
LEMMA OwnKept ==
    ASSUME NEW q, NEW ss, NEW tt, OwnIn(q, ss),
           \A d \in Callers : HasNone(q, d) \/ tt[d] = ss[d]
    PROVE  OwnIn(q, tt)
BY DEF OwnIn, HasNone

\* Who does not wait for an answer has no request in the chain.
LEMMA NoneInChain ==
    ASSUME TypeOK, OwnRequests, NEW c \in Callers, session[c].st \notin Awaited
    PROVE  HasNone(chain, c)
<1> SUFFICES ASSUME NEW i \in 1..Len(chain), chain[i].by = c PROVE FALSE
  BY DEF HasNone
<1>1. chain[i] \in Request /\ session[c].st \in Stage
  BY ElementOfSeq DEF TypeOK, Session
<1>2. chain[i].op = session[c].st
  BY <1>1 DEF OwnRequests, OwnIn, Other, Callers
<1> QED
  BY <1>1, <1>2 DEF Request, Stage, Awaited

LEMMA InitOwn == Init => OwnRequests
<1> SUFFICES ASSUME Init PROVE OwnRequests
  OBVIOUS
<1>1. Len(chain) = 0
  BY DEF Init, ClientInit
<1> QED
  BY <1>1 DEF OwnRequests, OwnIn

LEMMA NextOwn == TypeOK /\ TypeOK' /\ MutexInv /\ OwnRequests /\ [Next]_vars => OwnRequests'
<1> SUFFICES ASSUME TypeOK, TypeOK', MutexInv, OwnRequests, [Next]_vars PROVE OwnRequests'
  OBVIOUS
<1>t. /\ chain \in Seq(Request) /\ session \in [Callers -> Session]
      /\ session' \in [Callers -> Session] /\ waiters \in Seq(Callers)
  BY DEF TypeOK
<1>a. ASSUME NEW c \in Callers, session[c].st = "granted", NEW op \in Awaited, NEW form \in Page,
             Enqueue(Ask(c, op, form)), session'[c].st = op, op # "post",
             \A d \in Callers : d # c => session'[d] = session[d]
      PROVE  OwnRequests'
  <2>1. HasNone(chain, c)
    BY <1>a, NoneInChain DEF Awaited
  <2>2. OwnIn(chain, session) /\ chain' = Append(chain, Ask(c, op, form))
    BY <1>a DEF OwnRequests, Enqueue
  <2>3. OwnIn(Append(chain, Ask(c, op, form)), session')
    BY <1>t, <1>a, <2>1, <2>2, OwnAppend
  <2> QED
    BY <2>2, <2>3 DEF OwnRequests
<1>b. \* c goes on to its next request
      ASSUME NEW c \in Callers, chain # <<>>, Served.by = c,
             NEW op \in Awaited, NEW form \in Page, SettleAndEnqueue(Ask(c, op, form)),
             session'[c].st = op, op = "post" => session'[c].result = form,
             \A d \in Callers : d # c => session'[d] = session[d]
      PROVE  OwnRequests'
  <2>1. OwnIn(Tail(chain), session) /\ HasNone(Tail(chain), c) /\ Tail(chain) \in Seq(Request)
    BY <1>t, <1>b, OwnTail, HeadTailProperties DEF OwnRequests, Served
  <2>2. OwnIn(Append(Tail(chain), Ask(c, op, form)), session')
    BY <1>t, <1>b, <2>1, OwnAppend
  <2> QED
    BY <1>b, <2>2 DEF OwnRequests, SettleAndEnqueue
<1>c. \* c's session is over
      ASSUME NEW c \in Callers, Asking(c, "login") \/ Asking(c, "logout"),
             NEW st \in {"ok", "failed"}, Release(c, st), Settle
      PROVE  OwnRequests'
  <2>1. /\ OwnIn(Tail(chain), session) /\ HasNone(Tail(chain), c) /\ chain # <<>>
        /\ chain' = Tail(chain)
    BY <1>t, <1>c, OwnTail DEF OwnRequests, Asking, Served, Settle
  <2>2. ASSUME NEW d \in Callers, d # c, session'[d] # session[d]
        PROVE  HasNone(Tail(chain), d)
    <3>1. waiters # <<>> /\ d = Head(waiters)
      BY <1>t, <1>c, <2>2 DEF Release
    <3>2. session[d].st = "waiting"
      BY <1>t, <3>1, HeadTailProperties DEF MutexInv
    <3>3. HasNone(chain, d)
      BY <3>2, NoneInChain DEF Awaited
    <3> QED
      BY <1>t, <2>1, <3>3, HeadTailProperties DEF HasNone
  <2> QED
    BY <2>1, <2>2, OwnKept DEF OwnRequests
<1>1. ASSUME NEW c \in Callers, NEW writes \in BOOLEAN, NEW f \in Fields, NEW v \in Values,
             Run(c, writes, f, v)
      PROVE  OwnRequests'
  <2>1. session[c].st = "idle" /\ chain' = chain
    BY <1>1 DEF Run, clientVars
  <2>2. \A d \in Callers : d # c => session'[d] = session[d]
    BY <1>t, <1>1 DEF Run, Acquire
  <2>3. HasNone(chain, c)
    BY <2>1, NoneInChain DEF Awaited
  <2> QED
    BY <2>1, <2>2, <2>3, OwnKept DEF OwnRequests
<1>2. ASSUME NEW c \in Callers, Login(c) PROVE OwnRequests'
  BY <1>t, <1>2, <1>a, NoneIsPage DEF Login, Awaited
<1>3. ASSUME NEW c \in Callers, LoggedIn(c) PROVE OwnRequests'
  BY <1>t, <1>3, <1>b, NoneIsPage DEF LoggedIn, Asking, GoOn, Awaited
<1>4. ASSUME NEW c \in Callers, LoginFails(c) PROVE OwnRequests'
  BY <1>4, <1>c DEF LoginFails
<1>5. ASSUME NEW c \in Callers, PageArrives(c) PROVE OwnRequests'
  <2> DEFINE merged(page) == IF session[c].writes
                             THEN Merged(page, session[c].field, session[c].value) ELSE page
             op == IF session[c].writes THEN "post" ELSE "logout"
  <2>0. PICK page \in Readings :
           /\ SettleAndEnqueue(Ask(c, op, IF session[c].writes THEN merged(page) ELSE None))
           /\ session' = [session EXCEPT ![c].st = op, ![c].result = merged(page)]
    BY <1>5 DEF PageArrives
  <2> DEFINE next == merged(page)
             form == IF session[c].writes THEN next ELSE None
  <2>1. next \in Page /\ form \in Page /\ op \in Awaited
    BY <1>t, ReadingIsPage, MergedIsPage, NoneIsPage DEF Session, Awaited
  <2>2. /\ chain # <<>> /\ Served.by = c
        /\ SettleAndEnqueue(Ask(c, op, form))
        /\ session' = [session EXCEPT ![c].st = op, ![c].result = next]
    BY <1>5, <2>0 DEF PageArrives, Asking
  <2>3. op = "post" => form = next
    OBVIOUS
  <2> HIDE DEF next, op, form
  <2>4. /\ session'[c].st = op /\ session'[c].result = next
        /\ \A d \in Callers : d # c => session'[d] = session[d]
    <3>1. session' = [session EXCEPT ![c] = [session[c] EXCEPT !.st = op, !.result = next]]
      BY <1>t, <2>2
    <3>2. session'[c] = [session[c] EXCEPT !.st = op, !.result = next] /\ session[c] \in Session
      BY <1>t, <3>1
    <3> QED
      BY <3>1, <3>2, <1>t DEF Session
  <2> QED
    BY <1>b, <2>1, <2>2, <2>3, <2>4
<1>6. ASSUME NEW c \in Callers, PostAccepted(c) PROVE OwnRequests'
  BY <1>t, <1>6, <1>b, NoneIsPage DEF PostAccepted, Asking, GoOn, Awaited
<1>7. ASSUME NEW c \in Callers, FnFails(c) PROVE OwnRequests'
  <2>1. /\ chain # <<>> /\ Served.by = c
        /\ SettleAndEnqueue(Ask(c, "logout", None))
        /\ session' = [session EXCEPT ![c].st = "logout", ![c].erred = TRUE]
    BY <1>7 DEF FnFails, Asking
  <2>2. session' = [session EXCEPT ![c] = [session[c] EXCEPT !.st = "logout", !.erred = TRUE]]
    BY <1>t, <2>1
  <2>3. session'[c].st = "logout" /\ \A d \in Callers : d # c => session'[d] = session[d]
    BY <1>t, <2>2 DEF Session
  <2> QED
    BY <1>b, <2>1, <2>3, NoneIsPage DEF Awaited
<1>8. ASSUME NEW c \in Callers, LoggedOut(c) \/ LogoutFails(c) PROVE OwnRequests'
  BY <1>8, <1>c DEF LoggedOut, LogoutFails, Finish
<1>9. CASE OtherCall
  <2> DEFINE req == Ask(Other, "plain", None)
  <2>1. req \in Request /\ req.by = Other /\ req.op = "plain" /\ req.by \notin Callers
    BY NoneIsPage DEF Ask, Request, Other, Callers
  <2>2. chain' = Append(chain, req) /\ session' = session
    BY <1>9 DEF OtherCall, Enqueue
  <2> HIDE DEF req
  <2>3. /\ Len(chain) \in Nat /\ Len(chain') = Len(chain) + 1
        /\ \A i \in 1..Len(chain) : chain'[i] = chain[i]
        /\ chain'[Len(chain) + 1] = req
    BY <1>t, <2>1, <2>2, AppendProperties
  <2>4. \A i \in 1..Len(chain') : i \in 1..Len(chain) \/ i = Len(chain) + 1
    BY <2>3
  <2> QED
    BY <2>1, <2>2, <2>3, <2>4 DEF OwnRequests, OwnIn
<1>10. CASE OtherSettles
  BY <1>t, <1>10, OwnTail DEF OtherSettles, OwnRequests, Settle
<1>11. ASSUME UNCHANGED chain, UNCHANGED session PROVE OwnRequests'
  BY <1>11 DEF OwnRequests, OwnIn
<1> QED
  BY <1>1, <1>2, <1>3, <1>4, <1>5, <1>6, <1>7, <1>8, <1>9, <1>10, <1>11
     DEF Next, Answered, TimeoutRetried, RetryInPlace, LanLeaves, vars, clientVars
-----------------------------------------------------------------------------
(* The turns.                                                                *)

LEMMA CallersAreNumbers == Callers \subseteq Nat
BY InstallerAssumption DEF Callers

LEMMA InitInTurn == Init => InTurn
<1> SUFFICES ASSUME Init PROVE InTurn
  OBVIOUS
<1>1. \A c \in Callers : session[c].st = "idle"
  BY DEF Init, Start
<1>2. Len(waiters) = 0
  BY DEF Init
<1> QED
  BY <1>1, <1>2 DEF InTurn, Started, Holding

LEMMA AcquireInTurn ==
    ASSUME TypeOK, MutexInv, InTurn, NEW c \in Callers, session[c].st = "idle",
           \A d \in Callers : d < c => session[d].st # "idle",
           NEW called \in [Callers -> Session],
           \A d \in Callers : called[d].st = session[d].st,
           Acquire(c, called)
    PROVE  InTurn'
<1>1. /\ busy \in BOOLEAN /\ waiters \in Seq(Callers)
      /\ \A i \in 1..Len(waiters) : waiters[i] \in Callers
      /\ Callers \subseteq Nat
  BY CallersAreNumbers DEF TypeOK
<1>2. \A d \in Callers : /\ session[d].st # "idle" => d < c
                         /\ session[d].st = "idle" /\ d # c => c < d
  BY <1>1 DEF InTurn
<1>3. CASE ~busy
  <2>1. /\ waiters' = waiters /\ waiters = <<>>
        /\ \A d \in Callers : ~Holding(d) /\ session[d].st # "waiting"
        /\ session' = [called EXCEPT ![c].st = "granted"]
    BY <1>3 DEF Acquire, MutexInv
  <2>2. /\ session'[c].st = "granted"
        /\ \A d \in Callers : d # c => session'[d].st = session[d].st
    BY <2>1
  <2>3. \A d \in Callers : Holding(d)' => d = c
    BY <2>1, <2>2 DEF Holding
  <2>4. \A d \in Callers : Started(d)' => d <= c
    BY <1>1, <1>2, <2>2 DEF Started
  <2>5. \A d, e \in Callers : session'[d].st # "idle" /\ session'[e].st = "idle" => d < e
    BY <1>1, <1>2, <2>2 DEF InTurn
  <2>6. \A d \in Callers : session'[d].st # "waiting"
    BY <2>1, <2>2
  <2> QED
    BY <2>1, <2>3, <2>4, <2>5, <2>6 DEF InTurn
<1>4. CASE busy
  <2>1. /\ waiters' = Append(waiters, c)
        /\ session' = [called EXCEPT ![c].st = "waiting"]
    BY <1>4 DEF Acquire
  <2>2. /\ session'[c].st = "waiting"
        /\ \A d \in Callers : d # c => session'[d].st = session[d].st
    BY <2>1
  <2>3. /\ Len(waiters) \in Nat /\ Len(waiters') = Len(waiters) + 1
        /\ \A i \in 1..Len(waiters) : waiters'[i] = waiters[i]
        /\ waiters'[Len(waiters) + 1] = c
    BY <1>1, <2>1, AppendProperties
  <2>4. \A i \in 1..Len(waiters) : waiters[i] < c
    BY <1>1, <1>2 DEF MutexInv
  <2>5. \A d \in Callers : /\ Started(d)' => Started(d) /\ d < c
                           /\ Holding(d)' => Holding(d)
    BY <1>2, <2>2 DEF Started, Holding
  <2>6. \A d, e \in Callers : session'[d].st # "idle" /\ session'[e].st = "idle" => d < e
    BY <1>1, <1>2, <2>2 DEF InTurn
  <2>7. \A d, e \in Callers : Started(d)' /\ session'[e].st = "waiting" => d < e
    BY <2>2, <2>5 DEF InTurn
  <2>8. \A d, e \in Callers : Started(d)' /\ Holding(e)' => d <= e
    BY <2>5 DEF InTurn
  <2>9. \A i, j \in 1..Len(waiters') : i < j => waiters'[i] < waiters'[j]
    <3> SUFFICES ASSUME NEW i \in 1..Len(waiters'), NEW j \in 1..Len(waiters'), i < j
                 PROVE  waiters'[i] < waiters'[j]
      OBVIOUS
    <3>1. i \in 1..Len(waiters) /\ (j \in 1..Len(waiters) \/ j = Len(waiters) + 1)
      BY <2>3
    <3> QED
      BY <2>3, <2>4, <3>1 DEF InTurn
  <2> QED
    BY <2>6, <2>7, <2>8, <2>9 DEF InTurn
<1> QED
  BY <1>1, <1>3, <1>4

\* What the end of c's session does to everybody's record: c has its outcome,
\* and the first waiter, if there is one, gets the mutex.
LEMMA ReleaseEffect ==
    ASSUME TypeOK, MutexInv, NEW c \in Callers, Holding(c), NEW st \in {"ok", "failed"},
           Release(c, st)
    PROVE  /\ session'[c] = [session[c] EXCEPT !.st = st]
           /\ \A d \in Callers : d # c =>
                 \/ session'[d] = session[d] /\ (waiters # <<>> => d # Head(waiters))
                 \/ /\ session[d].st = "waiting"
                    /\ session'[d] = [session[d] EXCEPT !.st = "granted"]
                    /\ waiters # <<>> /\ d = Head(waiters)
           /\ waiters = <<>> => waiters' = <<>>
           /\ waiters # <<>> => /\ Head(waiters) \in Callers /\ Head(waiters) = waiters[1]
                                /\ Len(waiters) \in Nat /\ Len(waiters') = Len(waiters) - 1
                                /\ \A i \in 1..Len(waiters') : waiters'[i] = waiters[i + 1]
<1>1. session \in [Callers -> Session] /\ waiters \in Seq(Callers)
  BY DEF TypeOK
<1>2. CASE waiters # <<>>
  <2> DEFINE w == Head(waiters)
             done == [session EXCEPT ![c].st = st]
  <2>1. /\ w \in Callers /\ w = waiters[1] /\ 1 \in 1..Len(waiters)
        /\ waiters' = Tail(waiters)
        /\ Len(waiters) \in Nat
        /\ Len(waiters') = Len(waiters) - 1
        /\ \A i \in 1..Len(waiters') : waiters'[i] = waiters[i + 1]
    BY <1>1, <1>2, HeadTailProperties DEF Release
  <2>2. session' = [done EXCEPT ![w].st = "granted"]
    BY <1>2 DEF Release
  <2>3. session[w].st = "waiting" /\ w # c
    BY <2>1 DEF MutexInv, Holding
  <2> HIDE DEF w
  <2>4. /\ done \in [Callers -> Session]
        /\ done[c] = [session[c] EXCEPT !.st = st]
        /\ \A d \in Callers : d # c => done[d] = session[d]
    BY <1>1, StageType DEF Stage
  <2> HIDE DEF done
  <2>5. /\ session'[w] = [session[w] EXCEPT !.st = "granted"]
        /\ \A d \in Callers : d # w => session'[d] = done[d]
    BY <2>1, <2>2, <2>3, <2>4
  <2> QED
    BY <1>2, <2>1, <2>3, <2>4, <2>5 DEF w
<1>3. CASE waiters = <<>>
  BY <1>1, <1>3 DEF Release
<1> QED
  BY <1>2, <1>3

LEMMA ReleaseInTurn ==
    ASSUME TypeOK, MutexInv, InTurn, NEW c \in Callers, Holding(c), NEW st \in {"ok", "failed"},
           Release(c, st)
    PROVE  InTurn'
<1>1. /\ session \in [Callers -> Session]
      /\ \A d \in Callers : Holding(d) => d = c
      /\ \A i \in 1..Len(waiters) : waiters[i] \in Callers /\ session[waiters[i]].st = "waiting"
      /\ Callers \subseteq Nat
  BY CallersAreNumbers DEF TypeOK, MutexInv, OneSessionAtATime
<1>2. /\ session'[c].st = st
      /\ \A d \in Callers : d # c =>
            \/ session'[d].st = session[d].st /\ (waiters # <<>> => d # Head(waiters))
            \/ /\ session[d].st = "waiting" /\ session'[d].st = "granted"
               /\ waiters # <<>> /\ d = Head(waiters)
  <2>1. /\ session'[c] = [session[c] EXCEPT !.st = st]
        /\ \A d \in Callers : d # c =>
              \/ session'[d] = session[d] /\ (waiters # <<>> => d # Head(waiters))
              \/ /\ session[d].st = "waiting"
                 /\ session'[d] = [session[d] EXCEPT !.st = "granted"]
                 /\ waiters # <<>> /\ d = Head(waiters)
    BY ReleaseEffect
  <2>2. \A d \in Callers : \A s : [session[d] EXCEPT !.st = s].st = s
    BY <1>1 DEF Session
  <2>3. session'[c].st = st
    BY <2>1, <2>2
  <2>4. ASSUME NEW d \in Callers, d # c
        PROVE  \/ session'[d].st = session[d].st /\ (waiters # <<>> => d # Head(waiters))
               \/ /\ session[d].st = "waiting" /\ session'[d].st = "granted"
                  /\ waiters # <<>> /\ d = Head(waiters)
    <3>1. CASE session'[d] = session[d] /\ (waiters # <<>> => d # Head(waiters))
      BY <3>1
    <3>2. CASE /\ session[d].st = "waiting"
               /\ session'[d] = [session[d] EXCEPT !.st = "granted"]
               /\ waiters # <<>> /\ d = Head(waiters)
      BY <2>2, <3>2
    <3> QED
      BY <2>1, <2>4, <3>1, <3>2
  <2> QED
    BY <2>3, <2>4
<1>3. /\ waiters = <<>> => waiters' = <<>>
      /\ waiters # <<>> => /\ Head(waiters) \in Callers /\ Head(waiters) = waiters[1]
                           /\ Len(waiters) \in Nat /\ Len(waiters') = Len(waiters) - 1
                           /\ \A i \in 1..Len(waiters') : waiters'[i] = waiters[i + 1]
  BY ReleaseEffect
<1>4. Started(c) /\ session[c].st # "idle"
  BY DEF Holding, Started
<1>5. \A d, e \in Callers : session'[d].st # "idle" /\ session'[e].st = "idle" => d < e
  BY <1>2, <1>4 DEF InTurn
<1>6. \A d, e \in Callers : Started(d)' /\ session'[e].st = "waiting" => d < e
  <2> SUFFICES ASSUME NEW d \in Callers, NEW e \in Callers, Started(d)', session'[e].st = "waiting"
               PROVE  d < e
    OBVIOUS
  <2>1. session[e].st = "waiting" /\ e # c
    BY <1>2
  <2>2. CASE Started(d)
    BY <2>1, <2>2 DEF InTurn
  <2>3. CASE ~Started(d)
    <3>1. waiters # <<>> /\ d = waiters[1] /\ session'[d].st = "granted"
      BY <1>2, <1>3, <1>4, <2>3 DEF Started
    <3>2. PICK k \in 1..Len(waiters) : waiters[k] = e
      BY <2>1 DEF MutexInv
    <3>3. k # 1 /\ 1 \in 1..Len(waiters) /\ 1 < k
      BY <1>3, <3>1, <3>2
    <3> QED
      BY <3>1, <3>2, <3>3 DEF InTurn
  <2> QED
    BY <2>2, <2>3
<1>7. \A d, e \in Callers : Started(d)' /\ Holding(e)' => d <= e
  <2> SUFFICES ASSUME NEW d \in Callers, NEW e \in Callers, Started(d)', Holding(e)', d # e
               PROVE  d < e
    BY <1>1
  <2>1. session[e].st = "waiting" /\ waiters # <<>> /\ e = Head(waiters)
    BY <1>1, <1>2 DEF Holding
  <2>2. Started(d)
    BY <1>2, <1>4, <2>1 DEF Started
  <2> QED
    BY <2>1, <2>2 DEF InTurn
<1>8. \A i, j \in 1..Len(waiters') : i < j => waiters'[i] < waiters'[j]
  <2>1. CASE waiters = <<>>
    BY <1>3, <2>1
  <2>2. CASE waiters # <<>>
    <3> SUFFICES ASSUME NEW i \in 1..Len(waiters'), NEW j \in 1..Len(waiters'), i < j
                 PROVE  waiters'[i] < waiters'[j]
      OBVIOUS
    <3>1. i + 1 \in 1..Len(waiters) /\ j + 1 \in 1..Len(waiters) /\ i + 1 < j + 1
      BY <1>3, <2>2
    <3>2. waiters[i + 1] < waiters[j + 1]
      BY <3>1 DEF InTurn
    <3> QED
      BY <1>3, <2>2, <3>2
  <2> QED
    BY <2>1, <2>2
<1> QED
  BY <1>5, <1>6, <1>7, <1>8 DEF InTurn

LEMMA NextInTurn == TypeOK /\ MutexInv /\ InTurn /\ [Next]_vars => InTurn'
<1> SUFFICES ASSUME TypeOK, MutexInv, InTurn, [Next]_vars PROVE InTurn'
  OBVIOUS
<1>1. ASSUME NEW c \in Callers, Asks(c) PROVE InTurn'
  BY <1>1, AcquireInTurn DEF Asks
<1>2. ASSUME NEW c \in Callers, GivesUp(c) PROVE InTurn'
  BY <1>2, ReleaseInTurn DEF GivesUp
<1>3. ASSUME Indifferent PROVE InTurn'
  <2>1. waiters' = waiters
    BY <1>3 DEF Indifferent, lockVars
  <2>2. ASSUME NEW d \in Callers
        PROVE  /\ Holding(d)' <=> Holding(d)
               /\ session'[d].st = "waiting" <=> session[d].st = "waiting"
               /\ session'[d].st = "idle" <=> session[d].st = "idle"
    BY <1>3 DEF Indifferent, Holding
  <2>3. \A d \in Callers : Started(d)' <=> Started(d)
    BY <2>2 DEF Started
  <2> QED
    BY <2>1, <2>2, <2>3 DEF InTurn
<1> QED
  BY <1>1, <1>2, <1>3, StepKinds
-----------------------------------------------------------------------------
(* What a step does to the sessions and to the controller.                   *)

SameCall(d) ==
    /\ session'[d].writes = session[d].writes
    /\ session'[d].field = session[d].field
    /\ session'[d].value = session[d].value
    /\ session'[d].result = session[d].result
    /\ session'[d].erred = session[d].erred

\* The others have no session open, and do nothing but get the mutex from c.
Bystanders(c) ==
    \A d \in Callers : d # c =>
       /\ ~Holding(d)
       /\ SameCall(d)
       /\ session'[d].st # session[d].st =>
             session[d].st = "waiting" /\ session'[d].st = "granted"

LEMMA OthersKept ==
    ASSUME TypeOK, MutexInv, NEW c \in Callers, Holding(c),
           \A d \in Callers : d # c => session'[d] = session[d]
    PROVE  Bystanders(c)
BY DEF Bystanders, SameCall, MutexInv, OneSessionAtATime

LEMMA StageEffect ==
    ASSUME TypeOK, MutexInv, NEW c \in Callers, Holding(c), NEW st \in Stage,
           session' = [session EXCEPT ![c].st = st]
    PROVE  session'[c].st = st /\ SameCall(c) /\ Bystanders(c)
<1>1. session \in [Callers -> Session]
  BY DEF TypeOK
<1>2. session' = [session EXCEPT ![c] = [session[c] EXCEPT !.st = st]]
  BY <1>1
<1>3. session'[c] = [session[c] EXCEPT !.st = st] /\ session[c] \in Session
  BY <1>1, <1>2
<1>4. session'[c].st = st /\ SameCall(c)
  BY <1>3 DEF Session, SameCall
<1>5. \A d \in Callers : d # c => session'[d] = session[d]
  BY <1>1, <1>2
<1> QED
  BY <1>4, <1>5, OthersKept

LEMMA ReleaseFields ==
    ASSUME TypeOK, MutexInv, NEW c \in Callers, Holding(c), NEW st \in {"ok", "failed"},
           Release(c, st)
    PROVE  session'[c].st = st /\ SameCall(c) /\ Bystanders(c)
<1>1. \A d \in Callers : session[d] \in Session
  BY DEF TypeOK
<1>2. ASSUME NEW d \in Callers, NEW s, session'[d] = [session[d] EXCEPT !.st = s]
      PROVE  session'[d].st = s /\ SameCall(d)
  BY <1>1, <1>2 DEF Session, SameCall
<1>3. session'[c] = [session[c] EXCEPT !.st = st]
  BY ReleaseEffect
<1>4. ASSUME NEW d \in Callers, d # c
      PROVE  /\ ~Holding(d)
             /\ SameCall(d)
             /\ session'[d].st # session[d].st =>
                   session[d].st = "waiting" /\ session'[d].st = "granted"
  <2>1. \/ session'[d] = session[d]
        \/ session[d].st = "waiting" /\ session'[d] = [session[d] EXCEPT !.st = "granted"]
    BY <1>4, ReleaseEffect
  <2>2. CASE session'[d] = session[d]
    BY <1>4, <2>2 DEF SameCall, MutexInv, OneSessionAtATime
  <2>3. CASE session[d].st = "waiting" /\ session'[d] = [session[d] EXCEPT !.st = "granted"]
    BY <1>2, <2>3 DEF Holding
  <2> QED
    BY <2>1, <2>2, <2>3
<1> QED
  BY <1>2, <1>3, <1>4 DEF Bystanders

\* The request being served is the one that its caller waits for.
LEMMA ServedIs ==
    ASSUME TypeOK, OwnRequests, chain # <<>>
    PROVE  \/ Served.by = Other /\ Served.op = "plain"
           \/ /\ Served.by \in Callers
              /\ Served.op = session[Served.by].st
              /\ Served.op = "post" => Served.form = session[Served.by].result
              /\ Holding(Served.by)
<1>1. Served \in Request /\ Served = chain[1] /\ 1 \in 1..Len(chain)
  BY ServedType, HeadTailProperties DEF TypeOK, Served
<1>2. ASSUME NEW c \in Callers, Served.by = c, Served.op = session[c].st PROVE Holding(c)
  <2>1. session[c].st \in Stage
    BY DEF TypeOK, Session
  <2> QED
    BY <1>1, <1>2, <2>1 DEF Request, Stage, Holding
<1> QED
  BY <1>1, <1>2 DEF OwnRequests, OwnIn

\* What may become of the controller when c's request is served, whether it
\* succeeds or not, and what becomes of it when it succeeds.
LEMMA DeviceEffect ==
    ASSUME TypeOK, OwnRequests, chain # <<>>, Served.by \in Callers, MaybeObeyed(Served)
    PROVE  LET s == session[Served.by]
           IN  /\ s.st \in {"page", "post"} => installer' = installer
               /\ s.st = "logout" => installer' = installer \/ ~installer'
               /\ s.st # "post" => calibration' = calibration
               /\ s.st = "post" /\ s.result \in [Fields -> Values] =>
                     calibration' = calibration \/ calibration' = s.result
<1>1. Served.op = session[Served.by].st
      /\ (Served.op = "post" => Served.form = session[Served.by].result)
  BY ServedIs DEF Other, Callers
<1>2. CASE UNCHANGED deviceVars
  BY <1>2 DEF deviceVars
<1>3. CASE Obeyed(Served)
  <2>1. Served.op # "post" => calibration' = calibration
    BY <1>3 DEF Obeyed
  <2>2. ASSUME Served.op = "post", Served.form \in [Fields -> Values]
        PROVE  calibration' = calibration \/ calibration' = Served.form
    <3>1. CASE installer
      <4>1. calibration' = [f \in Fields |-> Served.form[f]]
        BY <1>3, <2>2, <3>1 DEF Obeyed
      <4> QED
        BY <2>2, <4>1
    <3>2. CASE ~installer
      BY <1>3, <3>2 DEF Obeyed
    <3> QED
      BY <3>1, <3>2
  <2> QED
    BY <1>1, <1>3, <2>1, <2>2 DEF Obeyed
<1> QED
  BY <1>2, <1>3 DEF MaybeObeyed

LEMMA ObeyedEffect ==
    ASSUME TypeOK, OwnRequests, chain # <<>>, Served.by \in Callers, Obeyed(Served)
    PROVE  LET s == session[Served.by]
           IN  /\ s.st = "login" => installer'
               /\ s.st = "logout" => ~installer'
               /\ s.st = "post" /\ installer /\ s.result \in [Fields -> Values] =>
                     calibration' = s.result
<1>1. Served.op = session[Served.by].st
      /\ (Served.op = "post" => Served.form = session[Served.by].result)
  BY ServedIs DEF Other, Callers
<1>2. ASSUME Served.op = "post", installer, Served.form \in [Fields -> Values]
      PROVE  calibration' = Served.form
  <2>1. calibration' = [f \in Fields |-> Served.form[f]]
    BY <1>2 DEF Obeyed
  <2> QED
    BY <1>2, <2>1
<1> QED
  BY <1>1, <1>2 DEF Obeyed

-----------------------------------------------------------------------------
(* The promises.                                                             *)

Promises ==
    /\ ErrorsEnd
    /\ PagesAreInstallerPages
    /\ LeftOnlyByFailure
    /\ esc = 0 => (\A c \in Callers : ReadWhole(c)) /\ Mirrored
    /\ NoLostUpdate

\* Among some of the callers there is a last one: by induction, which the
\* library's theorem on the well-founded order of the numbers gives us.
LEMMA LeastNatural ==
    ASSUME NEW S \in SUBSET Nat, S # {}
    PROVE  \E n \in S : \A m \in S : n <= m
<1>1. PICK n \in S : \A m \in S : ~(<<m, n>> \in OpToRel(<, Nat))
  BY NatLessThanWellFounded, WFMin
<1>2. ASSUME NEW m \in S PROVE n <= m
  <2>1. m \in Nat /\ n \in Nat
    OBVIOUS
  <2>2. ~(m < n)
    BY <1>1, <2>1 DEF OpToRel
  <2> QED
    BY <2>1, <2>2
<1> QED
  BY <1>2

LEMMA NewestIs ==
    ASSUME NEW cs \in SUBSET Callers, cs # {}
    PROVE  Newest(cs) \in cs /\ \A d \in cs : d <= Newest(cs)
<1> DEFINE bounds == {b \in Nat : \A d \in cs : d <= b}
<1>1. NCallers \in bounds /\ bounds \in SUBSET Nat /\ \A d \in cs : d \in Nat /\ d >= 1
  BY InstallerAssumption DEF Callers
<1>2. PICK b \in bounds : \A m \in bounds : b <= m
  BY <1>1, LeastNatural
<1>3. ASSUME b \notin cs PROVE FALSE
  <2>1. \A d \in cs : d < b
    BY <1>1, <1>3
  <2>2. b - 1 \in Nat
    <3>1. PICK d \in cs : TRUE
      OBVIOUS
    <3> QED
      BY <1>1, <2>1, <3>1
  <2>3. b - 1 \in bounds
    BY <1>1, <2>1, <2>2
  <2>4. b <= b - 1
    BY <1>2, <2>3
  <2> QED
    BY <1>1, <2>4
<1>4. b \in cs /\ \A d \in cs : d <= b
  BY <1>3
<1> QED
  BY <1>4 DEF Newest

\* A step within, or at the end of, c's session keeps the promises if it keeps
\* those that are about c's own record, the mirror and the entries.
LEMMA HolderStep ==
    ASSUME TypeOK, MutexInv, InTurn, Promises, NEW c \in Callers, Holding(c),
           Bystanders(c), esc' = esc, session'[c].st \notin {"idle", "waiting"},
           /\ session'[c].writes = session[c].writes
           /\ session'[c].field = session[c].field
           /\ session'[c].value = session[c].value,
           session'[c].erred => session'[c].st \in {"logout", "failed"},
           esc = 0 /\ session'[c].st \in {"page", "post"} => installer',
           ~busy' /\ installer' => leak',
           esc = 0 => ReadWhole(c)' /\ Mirrored',
           ASSUME esc = 0, NEW f \in Fields
           PROVE  /\ c \notin Writers(f) => calibration'[f] = calibration[f]
                  /\ c \in Writers(f) /\ session'[c].st = "ok" =>
                        calibration'[f] = session[c].value
    PROVE  Promises'
<1>1. ErrorsEnd'
  BY DEF ErrorsEnd, Promises, Bystanders, SameCall, Holding
<1>2. PagesAreInstallerPages'
  BY DEF PagesAreInstallerPages, Bystanders, Holding
<1>3. LeftOnlyByFailure'
  BY DEF LeftOnlyByFailure
<1>4. ASSUME esc' = 0, NEW d \in Callers PROVE ReadWhole(d)'
  BY <1>4 DEF ReadWhole, Bystanders, Holding
<1>5. ASSUME NEW f \in Fields, esc' = 0, \A d \in Writers(f)' : session'[d].st = "ok"
      PROVE  calibration'[f] = IF Writers(f)' = {} THEN Initial
                               ELSE session'[Newest(Writers(f)')].value
  <2>1. Writers(f)' = Writers(f)
    <3>1. c \in Writers(f)' <=> c \in Writers(f)
      BY DEF Writers, Holding
    <3>2. ASSUME NEW d \in Callers, d # c PROVE d \in Writers(f)' <=> d \in Writers(f)
      BY <1>5, <3>2 DEF Writers, Bystanders, SameCall
    <3>3. Writers(f) \subseteq Callers /\ Writers(f)' \subseteq Callers
      BY DEF Writers
    <3> QED
      BY <3>1, <3>2, <3>3
  <2>2. CASE c \in Writers(f)
    <3>1. session'[c].st = "ok"
      BY <1>5, <2>1, <2>2
    <3>2. calibration'[f] = session[c].value
      BY <1>5, <2>2, <3>1
    <3>3. \A d \in Writers(f) : d <= c
      BY DEF InTurn, Writers, Started
    <3>4. Newest(Writers(f)) = c
      <4>1. Writers(f) \subseteq Nat /\ c \in Nat
        BY CallersAreNumbers DEF Writers
      <4> QED
        BY <2>2, <3>3, <4>1 DEF Newest
    <3> QED
      BY <2>1, <2>2, <3>2, <3>4
  <2>3. CASE c \notin Writers(f)
    <3>1. \A d \in Writers(f) : session[d].st = "ok" /\ session'[d].value = session[d].value
      <4>1. \A d \in Writers(f) : d \in Callers /\ d # c /\ session'[d].st = "ok"
        BY <1>5, <2>1, <2>3 DEF Writers
      <4> QED
        BY <4>1 DEF Bystanders, SameCall
    <3>2. calibration'[f] = calibration[f]
      BY <1>5, <2>3
    <3>3. calibration[f] = IF Writers(f) = {} THEN Initial
                           ELSE session[Newest(Writers(f))].value
      BY <1>5, <3>1 DEF Promises, NoLostUpdate
    <3>4. Writers(f) # {} => Newest(Writers(f)) \in Writers(f)
      BY NewestIs DEF Writers
    <3> QED
      BY <2>1, <3>1, <3>2, <3>3, <3>4
  <2> QED
    BY <2>2, <2>3
<1>6. NoLostUpdate'
  BY <1>5 DEF NoLostUpdate
<1> QED
  BY <1>1, <1>2, <1>3, <1>4, <1>6 DEF Promises
LEMMA InitPromises == Init => Promises
<1> SUFFICES ASSUME Init PROVE Promises
  OBVIOUS
<1>1. \A c \in Callers : session[c].st = "idle" /\ ~session[c].erred
  BY DEF Init, Start
<1>2. \A f \in Fields : Writers(f) = {} /\ calibration[f] = Initial
  BY <1>1 DEF Writers, Init
<1>3. NoLostUpdate
  BY <1>2 DEF NoLostUpdate
<1>4. mirror = calibration /\ ~installer
  BY DEF Init
<1> QED
  BY <1>1, <1>3, <1>4 DEF Promises, ErrorsEnd, PagesAreInstallerPages, LeftOnlyByFailure,
                          ReadWhole, Mirrored

\* The mirror stays what the entries are.
LEMMA MirrorKept ==
    ASSUME Promises, NEW c \in Callers, Holding(c), Bystanders(c), esc = 0,
           session[c].st \notin {"post", "logout"}, mirror' = mirror, calibration' = calibration
    PROVE  Mirrored'
<1> SUFFICES ASSUME \A d \in Callers : session'[d].st \notin {"post", "logout", "failed"}
             PROVE  mirror' = calibration'
  BY DEF Mirrored
<1>1. \A d \in Callers : session[d].st \notin {"post", "logout", "failed"}
  BY DEF Bystanders, Holding
<1> QED
  BY <1>1 DEF Promises, Mirrored

\* Whose request is in trouble or repeated, only its own entry may change.
LEMMA EntriesKept ==
    ASSUME TypeOK, OwnRequests, Promises, chain # <<>>, Served.by \in Callers,
           MaybeObeyed(Served), esc = 0, NEW f \in Fields, Served.by \notin Writers(f)
    PROVE  calibration'[f] = calibration[f]
<1> DEFINE c == Served.by
<1>1. CASE session[c].st # "post"
  BY <1>1, DeviceEffect
<1>2. CASE session[c].st = "post"
  <2>1. /\ session[c].writes /\ session[c].result \in [Fields -> Values]
        /\ f # session[c].field => session[c].result[f] = calibration[f]
    BY <1>2 DEF Promises, ReadWhole
  <2>2. f # session[c].field
    BY <1>2, <2>1 DEF Writers
  <2> QED
    BY <1>2, <2>1, <2>2, DeviceEffect
<1> QED
  BY <1>1, <1>2

\* The end of a session whose fn succeeded shows what it read or wrote.
LEMMA FinishMirrors ==
    ASSUME TypeOK, MutexInv, Promises, NEW c \in Callers, session[c].st = "logout", esc = 0,
           Finish(c), calibration' = calibration
    PROVE  Mirrored'
<1>1. CASE session[c].erred
  <2>1. session'[c].st = "failed"
    BY <1>1, ReleaseFields DEF Finish, Holding
  <2> QED
    BY <2>1 DEF Mirrored
<1>2. CASE ~session[c].erred
  <2>1. session[c].result = calibration
    BY <1>2 DEF Promises, ReadWhole
  <2>2. calibration \in [Fields -> Values]
    BY DEF TypeOK
  <2>3. mirror' = calibration
    BY <1>2, <2>1, <2>2 DEF Finish
  <2> QED
    BY <2>3 DEF Mirrored
<1> QED
  BY <1>1, <1>2

\* A record without the post or the logout stage promises nothing.
LEMMA NothingRead ==
    ASSUME NEW c \in Callers, session'[c].st \notin {"post", "logout"}
    PROVE  ReadWhole(c)'
BY DEF ReadWhole

\* What a call shows or writes is all of the entries, as they are.
LEMMA PageIsWhole ==
    ASSUME TypeOK, Promises, NEW c \in Callers, session[c].st = "page", esc = 0,
           NEW page \in Readings
    PROVE  /\ page = calibration
           /\ Merged(page, session[c].field, session[c].value)
                 = [f \in Fields |-> IF f = session[c].field THEN session[c].value
                                     ELSE calibration[f]]
<1>1. installer /\ calibration \in [Fields -> Values] /\ session[c].field \in Fields
  BY DEF Promises, PagesAreInstallerPages, TypeOK, Session
<1>2. DOMAIN calibration \cup {session[c].field} = Fields
  BY <1>1
<1> QED
  BY <1>1, <1>2 DEF Readings, Merged

LEMMA NextPromises ==
    TypeOK /\ TypeOK' /\ MutexInv /\ OwnRequests /\ InTurn /\ Promises /\ [Next]_vars => Promises'
<1> SUFFICES ASSUME TypeOK, TypeOK', MutexInv, OwnRequests, InTurn, Promises, [Next]_vars
             PROVE  Promises'
  OBVIOUS
<1>t. session \in [Callers -> Session] /\ session' \in [Callers -> Session]
      /\ calibration \in [Fields -> Values]
  BY DEF TypeOK
<1>1. ASSUME NEW c \in Callers, NEW writes \in BOOLEAN, NEW f \in Fields, NEW v \in Values,
             Run(c, writes, f, v)
      PROVE  Promises'
  <2> DEFINE called == [session EXCEPT ![c].writes = writes, ![c].field = f, ![c].value = v]
             mark(s) == [s EXCEPT !.writes = writes, !.field = f, !.value = v]
  <2>1. /\ session[c].st = "idle" /\ ~session[c].erred
        /\ \A d \in Callers : d # c => session'[d] = session[d]
        /\ session'[c].st \in {"granted", "waiting"} /\ ~session'[c].erred
        /\ UNCHANGED <<installer, calibration, mirror, esc, leak>>
        /\ busy => busy'
        /\ ~busy => busy'
    <3>1. session[c].st = "idle" /\ Acquire(c, called)
          /\ UNCHANGED <<installer, calibration, mirror, esc, leak>>
      BY <1>1 DEF Run, deviceVars
    <3>2. ~session[c].erred /\ session[c] \in Session
      BY <1>t, <3>1 DEF Promises, ErrorsEnd
    <3>3. called = [session EXCEPT ![c] = mark(session[c])]
      BY <1>t
    <3>4. /\ called[c] = mark(session[c])
          /\ \A d \in Callers : d # c => called[d] = session[d]
          /\ called \in [Callers -> Session]
      <4>1. mark(session[c]) \in Session
        BY <3>2 DEF Session
      <4> QED
        BY <1>t, <3>3, <4>1
    <3>5. mark(session[c]).erred = session[c].erred
      BY <3>2 DEF Session
    <3> HIDE DEF called, mark
    <3>6. PICK st \in {"granted", "waiting"} : session' = [called EXCEPT ![c].st = st]
      BY <3>1 DEF Acquire
    <3>7. session'[c].st = st /\ session'[c].erred = called[c].erred
          /\ \A d \in Callers : d # c => session'[d] = called[d]
      BY <3>4, <3>6 DEF Session
    <3>8. (busy => busy') /\ (~busy => busy')
      BY <3>1 DEF Acquire
    <3> QED
      BY <3>1, <3>2, <3>4, <3>5, <3>7, <3>8
  <2>2. ErrorsEnd' /\ PagesAreInstallerPages' /\ LeftOnlyByFailure'
    BY <2>1 DEF Promises, ErrorsEnd, PagesAreInstallerPages, LeftOnlyByFailure
  <2>3. esc' = 0 => (\A d \in Callers : ReadWhole(d)') /\ Mirrored'
    <3>1. ASSUME esc' = 0, NEW d \in Callers PROVE ReadWhole(d)'
      <4>1. CASE d = c
        BY <2>1, <4>1, NothingRead
      <4>2. CASE d # c
        BY <2>1, <3>1, <4>2 DEF Promises, ReadWhole
      <4> QED
        BY <4>1, <4>2
    <3>2. esc' = 0 => Mirrored'
      <4> SUFFICES ASSUME esc' = 0,
                          \A d \in Callers : session'[d].st \notin {"post", "logout", "failed"}
                   PROVE  mirror' = calibration'
        BY DEF Mirrored
      <4>1. \A d \in Callers : session[d].st \notin {"post", "logout", "failed"}
        BY <2>1
      <4> QED
        BY <2>1, <4>1 DEF Promises, Mirrored
    <3> QED
      BY <3>1, <3>2
  <2>4. NoLostUpdate'
    <3> SUFFICES ASSUME NEW g \in Fields, esc' = 0, \A d \in Writers(g)' : session'[d].st = "ok"
                 PROVE  calibration'[g] = IF Writers(g)' = {} THEN Initial
                                          ELSE session'[Newest(Writers(g)')].value
      BY DEF NoLostUpdate
    <3>1. c \notin Writers(g)' /\ c \notin Writers(g)
      BY <2>1 DEF Writers
    <3>2. Writers(g)' = Writers(g) /\ \A d \in Writers(g) : session'[d] = session[d]
      BY <2>1, <3>1 DEF Writers
    <3>3. Writers(g) # {} => Newest(Writers(g)) \in Writers(g)
      BY NewestIs DEF Writers
    <3> QED
      BY <2>1, <3>2, <3>3 DEF Promises, NoLostUpdate
  <2> QED
    BY <2>2, <2>3, <2>4 DEF Promises
<1>a. \* c's session goes on, and neither the mirror nor the entries change
      ASSUME NEW c \in Callers, session[c].st \in {"granted", "login", "page"}, Bystanders(c), SameCall(c),
             session'[c].st \in {"login", "page", "failed"},
             session'[c].st = "page" => installer', session'[c].st = "failed" => leak',
             busy' \/ leak', UNCHANGED <<mirror, calibration, esc>>
      PROVE  Promises'
  <2>1. Holding(c) /\ ~session'[c].erred
    BY <1>a DEF Holding, SameCall, Promises, ErrorsEnd
  <2>2. esc = 0 => ReadWhole(c)' /\ Mirrored'
    BY <1>a, <2>1, MirrorKept, NothingRead
  <2> QED
    BY <1>a, <2>1, <2>2, HolderStep DEF SameCall
<1>b. ASSUME NEW c \in Callers, Holding(c) PROVE busy
  BY <1>b DEF MutexInv
<1>2. ASSUME NEW c \in Callers, Login(c) PROVE Promises'
  <2>1. /\ session[c].st = "granted" /\ session' = [session EXCEPT ![c].st = "login"]
        /\ UNCHANGED <<lockVars, deviceVars, mirror, esc>>
    BY <1>2 DEF Login
  <2>2. session'[c].st = "login" /\ SameCall(c) /\ Bystanders(c) /\ Holding(c)
    BY <2>1, StageEffect DEF Holding, Stage
  <2> QED
    BY <1>a, <1>b, <2>1, <2>2 DEF lockVars, deviceVars
<1>3. ASSUME NEW c \in Callers, LoggedIn(c) PROVE Promises'
  <2>1. /\ chain # <<>> /\ Served.by = c /\ session[c].st = "login" /\ Obeyed(Served)
        /\ session' = [session EXCEPT ![c].st = "page"]
        /\ UNCHANGED <<lockVars, mirror, esc>>
    BY <1>3 DEF LoggedIn, Asking, GoOn
  <2>2. session'[c].st = "page" /\ SameCall(c) /\ Bystanders(c) /\ Holding(c)
    BY <2>1, StageEffect DEF Holding, Stage
  <2>3. installer' /\ calibration' = calibration
    BY <2>1, DeviceEffect, ObeyedEffect DEF MaybeObeyed
  <2> QED
    BY <1>a, <1>b, <2>1, <2>2, <2>3 DEF lockVars
<1>4. ASSUME NEW c \in Callers, LoginFails(c) PROVE Promises'
  <2>1. /\ chain # <<>> /\ Served.by = c /\ session[c].st = "login" /\ MaybeObeyed(Served)
        /\ Release(c, "failed") /\ leak' /\ UNCHANGED <<mirror, esc>>
    BY <1>4 DEF LoginFails, Asking
  <2>2. session'[c].st = "failed" /\ SameCall(c) /\ Bystanders(c)
    BY <2>1, ReleaseFields DEF Holding
  <2>3. calibration' = calibration
    BY <2>1, DeviceEffect
  <2> QED
    BY <1>a, <2>1, <2>2, <2>3
<1>5. ASSUME NEW c \in Callers, PageArrives(c) PROVE Promises'
  <2> DEFINE writes == session[c].writes
             merged(page) == IF writes THEN Merged(page, session[c].field, session[c].value) ELSE page
             op == IF writes THEN "post" ELSE "logout"
  <2>0. PICK page \in Readings :
           session' = [session EXCEPT ![c].st = op, ![c].result = merged(page)]
    BY <1>5 DEF PageArrives
  <2> DEFINE next == merged(page)
  <2>1. /\ session[c].st = "page"
        /\ session' = [session EXCEPT ![c].st = op, ![c].result = next]
        /\ UNCHANGED <<lockVars, deviceVars, mirror, esc>>
    BY <1>5, <2>0 DEF PageArrives, Asking
  <2>2. /\ Holding(c) /\ ~session[c].erred
    BY <2>1 DEF Holding, Promises, ErrorsEnd
  <2>3. /\ session'[c] = [session[c] EXCEPT !.st = op, !.result = next]
        /\ \A d \in Callers : d # c => session'[d] = session[d]
    <3> HIDE DEF op, next
    <3>1. session' = [session EXCEPT ![c] = [session[c] EXCEPT !.st = op, !.result = next]]
      BY <1>t, <2>1
    <3> QED
      BY <1>t, <3>1
  <2>4. /\ session'[c].st = op /\ session'[c].result = next
        /\ session'[c].writes = writes /\ session'[c].field = session[c].field
        /\ session'[c].value = session[c].value /\ session'[c].erred = session[c].erred
    <3> HIDE DEF op, next
    <3>1. session[c] \in Session
      BY <1>t
    <3> QED
      BY <2>3, <3>1 DEF Session
  <2>5. Bystanders(c)
    BY <2>2, <2>3, OthersKept
  <2>6. ASSUME esc = 0 PROVE ReadWhole(c)'
    <3>1. /\ page = calibration
          /\ Merged(page, session[c].field, session[c].value)
                = [f \in Fields |-> IF f = session[c].field THEN session[c].value
                                    ELSE calibration[f]]
          /\ session[c].field \in Fields /\ session[c].value \in Values
      BY <1>t, <2>1, <2>6, PageIsWhole DEF Session
    <3>2. calibration' = calibration
      BY <2>1 DEF deviceVars
    <3>3. CASE writes
      BY <1>t, <2>4, <3>1, <3>2, <3>3 DEF ReadWhole
    <3>4. CASE ~writes
      BY <2>4, <3>1, <3>2, <3>4 DEF ReadWhole
    <3> QED
      BY <3>3, <3>4
  <2>7. Mirrored'
    BY <2>4 DEF Mirrored
  <2>8. op \in {"post", "logout"}
    OBVIOUS
  <2>9. busy' /\ installer' = installer /\ calibration' = calibration
    BY <1>b, <2>1, <2>2 DEF lockVars, deviceVars
  <2>10. esc = 0 => installer
    BY <2>1 DEF Promises, PagesAreInstallerPages
  <2> HIDE DEF op, next
  <2> QED
    BY <2>1, <2>2, <2>4, <2>5, <2>6, <2>7, <2>8, <2>9, <2>10, HolderStep
<1>6. ASSUME NEW c \in Callers, PostAccepted(c) PROVE Promises'
  <2>1. /\ chain # <<>> /\ Served.by = c /\ session[c].st = "post" /\ Obeyed(Served)
        /\ session' = [session EXCEPT ![c].st = "logout"]
        /\ UNCHANGED <<lockVars, mirror, esc>>
    BY <1>6 DEF PostAccepted, Asking, GoOn
  <2>2. session'[c].st = "logout" /\ SameCall(c) /\ Bystanders(c) /\ Holding(c)
    BY <2>1, StageEffect DEF Holding, Stage
  <2>3. ~session[c].erred /\ busy'
    BY <1>b, <2>1, <2>2 DEF Promises, ErrorsEnd, lockVars
  <2>4. ASSUME esc = 0 PROVE ReadWhole(c)'
    <3>1. /\ installer
          /\ session[c].result \in [Fields -> Values]
          /\ session[c].writes /\ session[c].field \in Fields
          /\ session[c].result[session[c].field] = session[c].value
      BY <1>t, <2>1, <2>4 DEF Promises, ReadWhole, PagesAreInstallerPages, Session
    <3>2. calibration' = session[c].result
      BY <2>1, <3>1, ObeyedEffect
    <3> QED
      BY <2>2, <2>3, <3>1, <3>2 DEF ReadWhole, SameCall
  <2>5. Mirrored'
    BY <2>2 DEF Mirrored
  <2>6. ASSUME esc = 0, NEW f \in Fields, c \notin Writers(f)
        PROVE  calibration'[f] = calibration[f]
    BY <2>1, <2>6, EntriesKept DEF MaybeObeyed
  <2> QED
    BY <2>1, <2>2, <2>3, <2>4, <2>5, <2>6, HolderStep DEF SameCall
<1>7. ASSUME NEW c \in Callers, FnFails(c) PROVE Promises'
  <2>1. /\ chain # <<>> /\ Served.by = c /\ session[c].st \in {"page", "post"}
        /\ MaybeObeyed(Served)
        /\ session' = [session EXCEPT ![c].st = "logout", ![c].erred = TRUE]
        /\ UNCHANGED <<lockVars, mirror, esc>>
    BY <1>7 DEF FnFails, Asking
  <2>2. Holding(c) /\ busy'
    BY <1>b, <2>1 DEF Holding, lockVars
  <2>3. /\ session'[c] = [session[c] EXCEPT !.st = "logout", !.erred = TRUE]
        /\ \A d \in Callers : d # c => session'[d] = session[d]
    <3>1. session' = [session EXCEPT ![c] = [session[c] EXCEPT !.st = "logout", !.erred = TRUE]]
      BY <1>t, <2>1
    <3> QED
      BY <1>t, <3>1
  <2>4. /\ session'[c].st = "logout" /\ session'[c].erred
        /\ session'[c].writes = session[c].writes /\ session'[c].field = session[c].field
        /\ session'[c].value = session[c].value
    <3>1. session[c] \in Session
      BY <1>t
    <3> QED
      BY <2>3, <3>1 DEF Session
  <2>5. Bystanders(c) /\ Mirrored' /\ ReadWhole(c)'
    BY <2>2, <2>3, <2>4, OthersKept DEF Mirrored, ReadWhole
  <2>6. ASSUME esc = 0, NEW f \in Fields, c \notin Writers(f)
        PROVE  calibration'[f] = calibration[f]
    BY <2>1, <2>6, EntriesKept
  <2> QED
    BY <2>1, <2>2, <2>4, <2>5, <2>6, HolderStep
<1>8. ASSUME NEW c \in Callers, LoggedOut(c) \/ LogoutFails(c) PROVE Promises'
  <2>1. /\ chain # <<>> /\ Served.by = c /\ session[c].st = "logout"
        /\ MaybeObeyed(Served) /\ Finish(c) /\ esc' = esc
    BY <1>8 DEF LoggedOut, LogoutFails, Asking, MaybeObeyed
  <2>2. ~installer' \/ leak'
    BY <1>8, <2>1, ObeyedEffect DEF LoggedOut, LogoutFails
  <2>3. calibration' = calibration
    BY <2>1, DeviceEffect
  <2>4. PICK st \in {"ok", "failed"} : /\ st = IF session[c].erred THEN "failed" ELSE "ok"
                                       /\ Release(c, st)
    BY <2>1 DEF Finish
  <2>5. session'[c].st = st /\ SameCall(c) /\ Bystanders(c) /\ Holding(c)
    BY <2>1, <2>4, ReleaseFields DEF Holding
  <2>6. session'[c].erred => session'[c].st \in {"logout", "failed"}
    BY <2>4, <2>5 DEF SameCall
  <2>7. esc = 0 => ReadWhole(c)' /\ Mirrored'
    BY <2>1, <2>3, <2>5, FinishMirrors, NothingRead
  <2>8. ASSUME esc = 0, NEW f \in Fields, c \in Writers(f), session'[c].st = "ok"
        PROVE  calibration'[f] = session[c].value
    <3>1. ~session[c].erred /\ session[c].writes /\ session[c].field = f
      BY <2>4, <2>5, <2>8 DEF Writers
    <3> QED
      BY <2>1, <2>3, <2>8, <3>1 DEF Promises, ReadWhole
  <2> QED
    BY <2>1, <2>2, <2>3, <2>5, <2>6, <2>7, <2>8, HolderStep DEF SameCall
<1>9. ASSUME UNCHANGED <<session, busy, mirror, leak>>, installer' => installer,
             esc' = esc \/ esc' # 0, esc' = 0 => installer' = installer, UNCHANGED calibration
      PROVE  Promises'
  <2>1. ErrorsEnd' /\ PagesAreInstallerPages' /\ LeftOnlyByFailure'
    BY <1>9 DEF Promises, ErrorsEnd, PagesAreInstallerPages, LeftOnlyByFailure
  <2>2. esc' = 0 => (\A c \in Callers : ReadWhole(c)') /\ Mirrored'
    BY <1>9 DEF Promises, ReadWhole, Mirrored
  <2>3. NoLostUpdate'
    BY <1>9 DEF Promises, NoLostUpdate, Writers
  <2> QED
    BY <2>1, <2>2, <2>3 DEF Promises
<1>10. CASE TimeoutRetried
  <2>1. /\ chain # <<>> /\ MaybeObeyed(Served)
        /\ UNCHANGED <<busy, session, mirror, esc, leak>>
    BY <1>10 DEF TimeoutRetried, RetryInPlace, lockVars
  <2>2. CASE Served.by \notin Callers
    <3>1. Served.op = "plain"
      BY <2>1, <2>2, ServedIs
    <3>2. UNCHANGED <<installer, calibration>>
      BY <2>1, <3>1 DEF MaybeObeyed, Obeyed, deviceVars
    <3> QED
      BY <1>9, <2>1, <3>2
  <2>3. ASSUME NEW c \in Callers, Served.by = c PROVE Promises'
    <3>1. /\ Holding(c) /\ session[c].st \in Stage /\ busy' /\ session[c].st = Served.op
          /\ Served.op # "plain"
      <4>1. Holding(c) /\ session[c].st = Served.op
        BY <2>1, <2>3, ServedIs DEF Other, Callers
      <4> QED
        BY <1>b, <1>t, <2>1, <4>1 DEF Holding, Session
    <3>2. Bystanders(c)
      BY <2>1, <3>1, OthersKept
    <3>3. session[c].erred => session[c].st \in {"logout", "failed"}
      BY DEF Promises, ErrorsEnd
    <3>4. session[c].st \in {"page", "post"} /\ esc = 0 => installer'
      BY <2>1, <2>3, DeviceEffect DEF Promises, PagesAreInstallerPages
    <3>5. ASSUME esc = 0 PROVE ReadWhole(c)' /\ Mirrored'
      <4>1. CASE session[c].st # "post"
        <5>1. calibration' = calibration
          BY <2>1, <2>3, <4>1, DeviceEffect
        <5> QED
          BY <2>1, <3>5, <5>1 DEF Promises, ReadWhole, Mirrored
      <4>2. CASE session[c].st = "post"
        <5>1. /\ session[c].writes
              /\ session[c].result \in [Fields -> Values]
              /\ \A f \in Fields : session[c].result[f] = IF f = session[c].field
                                     THEN session[c].value ELSE calibration[f]
          BY <3>5, <4>2 DEF Promises, ReadWhole
        <5>2. calibration' = calibration \/ calibration' = session[c].result
          BY <2>1, <2>3, <4>2, <5>1, DeviceEffect
        <5> QED
          BY <2>1, <4>2, <5>1, <5>2 DEF ReadWhole, Mirrored
      <4> QED
        BY <4>1, <4>2
    <3>6. ASSUME esc = 0, NEW f \in Fields, c \notin Writers(f)
          PROVE  calibration'[f] = calibration[f]
      BY <2>1, <2>3, <3>6, EntriesKept
    <3> QED
      BY <2>1, <3>1, <3>2, <3>3, <3>4, <3>5, <3>6, HolderStep DEF Holding
  <2> QED
    BY <2>2, <2>3
<1>11. CASE OtherCall \/ OtherSettles
  BY <1>9, <1>11 DEF OtherCall, OtherSettles, lockVars, deviceVars
<1>12. CASE LanLeaves
  <2>1. esc' # 0
    BY <1>12 DEF LanLeaves, TypeOK
  <2> QED
    BY <1>9, <1>12, <2>1 DEF LanLeaves, lockVars
<1>13. CASE UNCHANGED vars
  BY <1>9, <1>13 DEF vars, lockVars, deviceVars
<1> QED
  BY <1>1, <1>2, <1>3, <1>4, <1>5, <1>6, <1>7, <1>8, <1>10, <1>11, <1>12, <1>13
     DEF Next, Answered

-----------------------------------------------------------------------------
(* The theorems.                                                             *)

\* The inductive invariant.
SessionInv == TypeOK /\ MutexInv /\ OwnRequests /\ InTurn /\ Promises

\* Whatever fails, each request in the chain is the one its caller waits for,
\* the callers get their turns in order, and the sessions keep their promises.
THEOREM SessionCorrect == Spec => []SessionInv
<1>1. Init => SessionInv
  BY InitTypeOK, InitMutexInv, InitOwn, InitInTurn, InitPromises DEF SessionInv
<1>2. SessionInv /\ [Next]_vars => SessionInv'
  BY NextTypeOK, NextMutexInv, NextOwn, NextInTurn, NextPromises DEF SessionInv
<1> QED
  BY <1>1, <1>2, PTL DEF Spec

\* As long as nobody on the LAN leaves the installer pages, what fn reads and
\* posts between login and logout (installer.ts:24-39) are installer pages.
THEOREM InstallerPages == Spec => []PagesAreInstallerPages
<1>1. SessionInv => PagesAreInstallerPages
  BY DEF SessionInv, Promises
<1> QED
  BY <1>1, SessionCorrect, PTL

\* The controller is left in installer mode by a failed login or logout only
\* (installer.ts:24-39).
THEOREM LeftByFailureOnly == Spec => []LeftOnlyByFailure
<1>1. SessionInv => LeftOnlyByFailure
  BY DEF SessionInv, Promises
<1> QED
  BY <1>1, SessionCorrect, PTL

\* No call of setCalibration or setSettings (source.ts:328) undoes another's
\* change, however many there are and on whichever entries.
THEOREM UpdatesKept == Spec => []NoLostUpdate
<1>1. SessionInv => NoLostUpdate
  BY DEF SessionInv, Promises
<1> QED
  BY <1>1, SessionCorrect, PTL

\* Between sessions the Store's rooms show the controller's entries
\* (poller.ts:309), unless a call failed.
THEOREM MirrorFresh == Spec => []MirrorIsFresh
<1>1. ASSUME SessionInv, ~busy, esc = 0, \A c \in Callers : session[c].st # "failed"
      PROVE  mirror = calibration
  <2>1. \A c \in Callers : session[c].st \notin {"post", "logout"}
    BY <1>1 DEF SessionInv, MutexInv, Holding
  <2> QED
    BY <1>1, <2>1 DEF SessionInv, Promises, Mirrored
<1>2. SessionInv => MirrorIsFresh
  BY <1>1 DEF MirrorIsFresh
<1> QED
  BY <1>2, SessionCorrect, PTL
=============================================================================
