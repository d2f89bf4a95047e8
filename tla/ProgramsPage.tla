---------------------------- MODULE ProgramsPage ----------------------------
(***************************************************************************)
(* The page of the time programs (apps/web/src/features/programs) and the  *)
(* bridge's /api/v1/programs.  A program is <<kind, id>>: a daily one is a *)
(* row of cells that are on or off, painted with the pointer; a weekly one *)
(* names a daily program for each day, paged through with + and -.         *)
(*                                                                         *)
(* The weekly editor sends from a closure of the last rendering, `shown`:  *)
(* a re-rendering builds a new one and its clean-up sends what the old one *)
(* holds, the debounce timer does so otherwise.  The daily editor sends at *)
(* the end of a gesture; it is the same component for every daily program. *)
(***************************************************************************)
EXTENDS Integers, WebQuery

CONSTANTS
    DailyIds,        \* ids of daily programs
    WeeklyIds,       \* and of weekly ones
    Days,            \* of a week
    Quarters,        \* of the hours of a day
    NDaily,          \* daily programs a day may name
    MaxMoves,        \* bound: clicks, gestures, failures and leavings, together
    MaxCalls         \* bound: requests

ASSUME ProgramsPageAssumption ==
    /\ NDaily \in Nat \ {0, 1}
    /\ DailyIds \subseteq Nat \ {0} /\ 1 \in DailyIds
    /\ WeeklyIds \subseteq Nat \ {0} /\ 1 \in WeeklyIds
    /\ NoData \notin [Days -> 1..NDaily] \cup [Quarters -> {0, 1}] \cup {0, 1}
    /\ MaxMoves \in Nat /\ MaxCalls \in Nat

VARIABLES
    tab,          \* "daily" or "weekly", or "none" when the page is not mounted
    selected,     \* kind -> the selected id
    progs,        \* program -> query entry ["program", kind, id]
    shown,        \* [id, days] of the weekly program of the last rendering, or NoData
    pendingDays,  \* the days not sent yet, or NoData
    local,        \* the bits of the gesture, or NoData
    paint,        \* the value it paints, or NoData
    calls,        \* the requests under way, by their number
    called,       \* how many there were
    mounted,      \* `called` when the page was mounted
    controller,   \* program -> what the controller has, in its own numbers
    moves,
    from,         \* history: the days of the program at the first unsent click
    unsent,       \* history: day -> how far the unsent clicks move it
    basedOn,      \* history: kind -> the program the unsent edits started from
    astray        \* history: the gesture was abandoned outside the timeline

programVars == <<tab, selected, progs, shown, pendingDays, local, paint, calls, called, mounted,
                 controller, moves, from, unsent, basedOn, astray>>

Programs == ({"daily"} \X DailyIds) \cup ({"weekly"} \X WeeklyIds)
CellsOf(k) == IF k = "weekly" THEN Days ELSE Quarters
Content == [Days -> 0..NDaily] \cup [Quarters -> {0, 1}]

Unmoved == [x \in Days |-> 0]

\* The form of the controller counts daily programs from 0.
Wire(p, c) == [x \in CellsOf(p[1]) |-> IF p[1] = "weekly" THEN c[x] - 1 ELSE c[x]]
Parsed(p, w) == [x \in CellsOf(p[1]) |-> IF p[1] = "weekly" THEN w[x] + 1 ELSE w[x]]

\* useState(1) of both tabs.
First == [k \in {"daily", "weekly"} |-> 1]

ProgramsInit ==
    /\ tab = "none"
    /\ selected = First
    /\ progs = [p \in Programs |-> EmptyEntry]
    /\ shown = NoData /\ pendingDays = NoData
    /\ local = NoData /\ paint = NoData
    /\ calls = <<>> /\ called = 0 /\ mounted = 0
    /\ controller = [p \in Programs |-> [x \in CellsOf(p[1]) |-> 0]]
    /\ moves = 0
    /\ from = NoData /\ unsent = Unmoved
    /\ basedOn = [k \in {"daily", "weekly"} |-> 0] /\ astray = FALSE

-----------------------------------------------------------------------------
Selected(k) == <<k, selected[k]>>
Cached(k) == progs[Selected(k)].data

\* What a rendering shows of the weekly programs.
Rendering(id, entries) ==
    LET days == entries[<<"weekly", id>>].data
    IN  IF days = NoData THEN NoData ELSE [id |-> id, days |-> days]

\* saveDaily.isPending, of this mount: the timeline does not answer then.
Disabled == \E i \in DOMAIN calls : i > mounted /\ calls[i].prog[1] = "daily"

Move == moves < MaxMoves /\ moves' = moves + 1

Send(p, c) ==
    /\ called < MaxCalls
    /\ called' = called + 1
    /\ calls' = [i \in DOMAIN calls \cup {called'} |->
                   IF i \in DOMAIN calls THEN calls[i]
                   ELSE [prog |-> p, content |-> c, of |-> basedOn[p[1]],
                         stray |-> p[1] = "daily" /\ astray, at |-> "sent", reply |-> NoData]]

\* Mutant of FlushTarget: the program selected now.
FlushSelected == selected'["weekly"]

\* flushWeekly() of the last rendering, for its program.
FlushTarget == shown.id

FlushWeekly ==
    /\ pendingDays' = NoData
    /\ IF pendingDays # NoData /\ shown # NoData
       THEN Send(<<"weekly", FlushTarget>>, pendingDays) /\ unsent' = Unmoved /\ from' = NoData
       ELSE UNCHANGED <<calls, called, unsent, from>>

\* (v + 1) or (v - 1), within 1..NDaily and around its ends.
Wrapped(v, delta) == ((v - 1 + delta + NDaily) % NDaily) + 1

\* Mutant of Base: always the days of the rendering.
BaseShown == shown.days

\* adjustDay(): from the days not sent, or else from those of the rendering.
Base == IF pendingDays # NoData THEN pendingDays ELSE shown.days

AdjustDay(x, delta) ==
    /\ tab = "weekly" /\ shown # NoData
    /\ called < MaxCalls
    /\ Move
    /\ LET days == [Base EXCEPT ![x] = Wrapped(@, delta)]
           p == <<"weekly", shown.id>>
       IN  /\ pendingDays' = days
           /\ progs' = [progs EXCEPT ![p] = SetData(@, days)]
    /\ unsent' = [unsent EXCEPT ![x] = (@ + delta + NDaily) % NDaily]
    /\ from' = IF from = NoData THEN shown.days ELSE from
    /\ basedOn' = IF pendingDays = NoData THEN [basedOn EXCEPT !["weekly"] = shown.id] ELSE basedOn
    /\ UNCHANGED <<tab, selected, shown, local, paint, calls, called, mounted, controller,
                   astray>>

Editing == <<local, paint, basedOn, astray>>

\* COMMIT_DEBOUNCE_MS after the last click, had nothing been rendered since.
WeeklyDue ==
    /\ pendingDays # NoData
    /\ UNCHANGED <<tab, selected, progs, shown, mounted, controller, moves, Editing>>
    /\ FlushWeekly

\* Every click renders the page anew, through the cached days it changed.
Render ==
    /\ tab # "none"
    /\ pendingDays # NoData \/ shown # Rendering(selected["weekly"], progs)
    /\ shown' = Rendering(selected["weekly"], progs)
    /\ UNCHANGED <<tab, selected, progs, mounted, controller, moves, Editing>>
    /\ FlushWeekly

-----------------------------------------------------------------------------
(* TimelineEditor.  Its gesture lives as long as it is rendered.             *)
\* Mutant of GestureGone: what was painted is kept.
GestureGoneKeepsBits == UNCHANGED local /\ paint' = NoData /\ astray' = FALSE

GestureGone == local' = NoData /\ paint' = NoData /\ astray' = FALSE

PaintCell(x, v) ==
    LET c == IF local # NoData THEN local ELSE Cached("daily")
    IN  /\ local' = [c EXCEPT ![x] = v]
        /\ basedOn' = IF local = NoData
                      THEN [basedOn EXCEPT !["daily"] = selected["daily"]] ELSE basedOn

TimelineUsable == tab = "daily" /\ Cached("daily") # NoData /\ ~Disabled

OnlyTheGesture ==
    UNCHANGED <<tab, selected, progs, shown, pendingDays, mounted, controller, from, unsent>>

PointerDown(x) ==
    /\ TimelineUsable /\ paint = NoData
    /\ Move
    /\ paint' = 1 - (IF local # NoData THEN local ELSE Cached("daily"))[x]
    /\ PaintCell(x, paint')
    /\ UNCHANGED <<calls, called, astray>> /\ OnlyTheGesture

PointerEnter(x) ==
    /\ TimelineUsable /\ paint # NoData /\ local[x] # paint
    /\ PaintCell(x, paint)
    /\ UNCHANGED <<paint, calls, called, moves, astray>> /\ OnlyTheGesture

\* commit(): a gesture that left the timeline no longer paints.
PointerUp ==
    /\ TimelineUsable /\ paint # NoData
    /\ Send(Selected("daily"), local)
    /\ GestureGone
    /\ UNCHANGED <<moves, basedOn>> /\ OnlyTheGesture

\* What was painted stays on the screen, unsent.
PointerLeave ==
    /\ TimelineUsable /\ paint # NoData
    /\ paint' = NoData /\ astray' = TRUE
    /\ UNCHANGED <<local, calls, called, moves, basedOn>> /\ OnlyTheGesture

-----------------------------------------------------------------------------
(* Selecting, changing the tab, coming and going render at once.             *)
SelectDaily(id) ==
    /\ tab = "daily" /\ paint = NoData /\ id # selected["daily"]
    /\ selected' = [selected EXCEPT !["daily"] = id]
    /\ \E q \in Mounted(progs[<<"daily", id>>]) : progs' = [progs EXCEPT ![<<"daily", id>>] = q]
    /\ IF progs[<<"daily", id>>].data = NoData
       THEN GestureGone ELSE UNCHANGED <<local, paint, astray>>
    /\ shown' = Rendering(selected["weekly"], progs)
    /\ FlushWeekly
    /\ UNCHANGED <<tab, mounted, controller, moves, basedOn>>

SelectWeekly(id) ==
    /\ tab = "weekly" /\ id # selected["weekly"]
    /\ selected' = [selected EXCEPT !["weekly"] = id]
    /\ \E q \in Mounted(progs[<<"weekly", id>>]) : progs' = [progs EXCEPT ![<<"weekly", id>>] = q]
    /\ shown' = Rendering(id, progs')
    /\ FlushWeekly
    /\ UNCHANGED <<tab, mounted, controller, moves, Editing>>

SetTab(k) ==
    /\ tab \notin {"none", k} /\ paint = NoData
    /\ tab' = k
    /\ shown' = Rendering(selected["weekly"], progs)
    /\ UNCHANGED <<selected, progs, mounted, controller, moves, basedOn>>
    /\ FlushWeekly
    /\ GestureGone

EnterPrograms ==
    /\ tab = "none"
    /\ tab' = "daily"
    /\ \E d \in Mounted(progs[Selected("daily")]), w \in Mounted(progs[Selected("weekly")]) :
           progs' = [progs EXCEPT ![Selected("daily")] = d, ![Selected("weekly")] = w]
    /\ shown' = Rendering(selected["weekly"], progs)
    /\ mounted' = called
    /\ UNCHANGED <<selected, pendingDays, calls, called, controller, moves, from,
                   unsent, Editing>>

LeavePrograms ==
    /\ tab # "none" /\ paint = NoData
    /\ Move
    /\ tab' = "none" /\ selected' = First
    /\ shown' = NoData
    /\ FlushWeekly
    /\ GestureGone
    /\ UNCHANGED <<progs, mounted, controller, basedOn>>

-----------------------------------------------------------------------------
(* The bridge: PUT writes the form, then reads the program back; a fetch     *)
(* reads it from the controller (fresh=true).                                *)
OnlyTheCalls ==
    UNCHANGED <<tab, selected, shown, pendingDays, called, mounted, from, unsent, Editing>>

PutProgram(i) ==
    LET c == calls[i]
    IN  /\ c.at = "sent"
        /\ controller' = [controller EXCEPT ![c.prog] = Wire(c.prog, c.content)]
        /\ calls' = [calls EXCEPT ![i].at = "put"]
        /\ UNCHANGED <<progs, moves>> /\ OnlyTheCalls

ReadBack(i) ==
    LET c == calls[i]
    IN  /\ c.at = "put"
        /\ calls' = [calls EXCEPT ![i].at = "ok",
                                  ![i].reply = Parsed(c.prog, controller[c.prog])]
        /\ UNCHANGED <<progs, controller, moves>> /\ OnlyTheCalls

FailCall(i) ==
    /\ calls[i].at \in {"sent", "put"}
    /\ Move
    /\ calls' = [calls EXCEPT ![i].at = "failed"]
    /\ UNCHANGED <<progs, controller>> /\ OnlyTheCalls

\* onSuccess, and onError of the weekly programs: the query of the program that
\* is selected by now is fetched anew.
SettleCall(i) ==
    LET c == calls[i]
    IN  /\ c.at \in {"ok", "failed"}
        /\ progs' = IF c.at = "ok" THEN [progs EXCEPT ![c.prog] = SetData(@, c.reply)]
                    ELSE IF c.prog[1] = "weekly" /\ tab # "none"
                    THEN [progs EXCEPT ![Selected("weekly")] = Refetch(@)]
                    ELSE progs
        /\ calls' = [j \in DOMAIN calls \ {i} |-> calls[j]]
        /\ UNCHANGED <<controller, moves>> /\ OnlyTheCalls

AnswerProgram(p) ==
    /\ Unanswered(progs[p])
    /\ progs' = [progs EXCEPT ![p] = Answer(@, Parsed(p, controller[p]))]
    /\ UNCHANGED <<calls, controller, moves>> /\ OnlyTheCalls

LandProgram(p) ==
    /\ Landing(progs[p])
    /\ progs' = [progs EXCEPT ![p] = Land(@)]
    /\ UNCHANGED <<calls, controller, moves>> /\ OnlyTheCalls

ProgramSteps ==
    \/ \E x \in Days : AdjustDay(x, 1) \/ AdjustDay(x, -1)
    \/ \E x \in Quarters : PointerDown(x) \/ PointerEnter(x)
    \/ PointerUp \/ PointerLeave
    \/ WeeklyDue \/ Render
    \/ \E id \in DailyIds : SelectDaily(id)
    \/ \E id \in WeeklyIds : SelectWeekly(id)
    \/ SetTab("daily") \/ SetTab("weekly")
    \/ \E i \in DOMAIN calls : PutProgram(i) \/ ReadBack(i) \/ FailCall(i) \/ SettleCall(i)
    \/ \E p \in Programs : AnswerProgram(p) \/ LandProgram(p)

-----------------------------------------------------------------------------
Call == [prog : Programs, content : Content, of : DailyIds \cup WeeklyIds, stray : BOOLEAN,
         at : {"sent", "put", "ok", "failed"}, reply : Content \cup {NoData}]

ProgramsTypeOK ==
    /\ tab \in {"none", "daily", "weekly"}
    /\ \A k \in {"daily", "weekly"} : Selected(k) \in Programs
    /\ progs \in [Programs -> Entries(Content)]
    /\ shown \in [id : WeeklyIds, days : Content] \cup {NoData}
    /\ pendingDays \in Content \cup {NoData}
    /\ local \in Content \cup {NoData}
    /\ paint \in {0, 1, NoData}
    /\ called \in 0..MaxCalls /\ mounted \in 0..called
    /\ DOMAIN calls \subseteq 1..called /\ calls \in [DOMAIN calls -> Call]
    /\ \A p \in Programs : controller[p] \in [CellsOf(p[1]) -> 0..NDaily]
    /\ moves \in 0..MaxMoves
    /\ from \in Content \cup {NoData} /\ unsent \in Content
    /\ astray \in BOOLEAN

\* Edits are sent to the program they were made on, however fast the user goes to
\* another one: a rendering's clean-up still holds the old program (Programs.tsx).
\* (A daily gesture abandoned outside the timeline is the exception: what it
\* painted stays on the screen and can be sent with another program's next one.)
EditsStayWithProgram ==
    \A i \in DOMAIN calls : calls[i].of = calls[i].prog[2] \/ calls[i].stray

\* "Flush on unmount / tab switch so we don't lose pending edits" (Programs.tsx):
\* the days not sent yet are those the user started from, moved by every click
\* since; and when no days are kept, every click was sent.  (Not in "a single POST after
\* they settle": every click renders the page anew, and the clean-up sends.)
NoClickDropped ==
    IF pendingDays = NoData THEN unsent = Unmoved
    ELSE \A x \in Days : pendingDays[x] = Wrapped(from[x], unsent[x])
=============================================================================
