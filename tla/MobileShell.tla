---------------------------- MODULE MobileShell ----------------------------
(***************************************************************************)
(* The mobile application around the web application (apps/mobile/App.tsx, *)
(* src/storage.ts, src/health.ts and the screens): the installations it    *)
(* knows, the one it shows, and the probe that precedes showing it.        *)
(*                                                                         *)
(* An installation is its id and its URL; probes under way are numbered.   *)
(* The states given to the storage are written in order and not waited     *)
(* for.                                                                    *)
(***************************************************************************)
EXTENDS Naturals, Sequences, SequencesExt

CONSTANTS
    Installs,       \* ids newId() may give
    Urls,
    None,
    MaxTaps,        \* bound: changes of the installations and selections
    MaxProbes       \* bound: probes under way at once

ASSUME MobileAssumption ==
    /\ None \notin Installs
    /\ MaxTaps \in Nat /\ MaxProbes \in Nat \ {0}

VARIABLES
    running,     \* the process
    persisted,   \* the state in memory, or None before it is loaded
    disk,        \* what the storage holds
    unwritten,   \* states handed to the storage and not written yet
    phase,
    modal,       \* "none", "list" or "edit"
    editing,     \* the installation in the editor, or None for a new one
    probingRef,
    probes,      \* number -> installation
    taps

mobileVars == <<running, persisted, disk, unwritten, phase, modal, editing, probingRef, probes, taps>>

\* list: the installations in order; active: the id of one, or None.
NoInstalls == [list |-> <<>>, active |-> None]
Installation == [id : Installs, url : Urls]
Phase(kind, i) == [kind |-> kind, at |-> i]
Ids(p) == {p.list[n].id : n \in DOMAIN p.list}
Installed(p, id) == CHOOSE i \in Range(p.list) : i.id = id
ActiveInstallation(p) == IF p.active \in Ids(p) THEN Installed(p, p.active) ELSE None

MobileInit ==
    /\ running = TRUE
    /\ persisted = None
    /\ disk = NoInstalls /\ unwritten = <<>>
    /\ phase = Phase("loading", None)
    /\ modal = "none" /\ editing = None
    /\ probingRef = None /\ probes = <<>>
    /\ taps = 0

-----------------------------------------------------------------------------
(* storage.ts                                                                *)
UpsertInstallation(p, i) ==
    [list   |-> IF i.id \in Ids(p)
                THEN [n \in DOMAIN p.list |-> IF p.list[n].id = i.id THEN i ELSE p.list[n]]
                ELSE Append(p.list, i),
     active |-> IF p.active = None THEN i.id ELSE p.active]

FirstId(list) == IF list = <<>> THEN None ELSE list[1].id

\* An id is that of one installation at most.
Filtered(list, id) ==
    IF \A n \in DOMAIN list : list[n].id # id THEN list
    ELSE RemoveAt(list, CHOOSE n \in DOMAIN list : list[n].id = id)

DeleteInstallation(p, id) ==
    LET rest == Filtered(p.list, id)
    IN  [list |-> rest, active |-> IF p.active = id THEN FirstId(rest) ELSE p.active]

WriteState(p) ==
    /\ persisted' = p
    /\ unwritten' = Append(unwritten, p)
    /\ UNCHANGED disk

Flush ==
    /\ unwritten # <<>>
    /\ disk' = Head(unwritten) /\ unwritten' = Tail(unwritten)
    /\ UNCHANGED <<running, persisted, phase, modal, editing, probingRef, probes, taps>>

-----------------------------------------------------------------------------
(* Probes.                                                                   *)
NextProbe == CHOOSE n \in 1..MaxProbes : n \notin DOMAIN probes

\* runProbe(): one probe per installation at a time, as long as no other one ends.
RunProbe(i) ==
    IF probingRef = i.id THEN UNCHANGED <<probingRef, phase, probes>>
    ELSE /\ probingRef' = i.id
         /\ phase' = Phase("connecting", i)
         /\ DOMAIN probes # 1..MaxProbes
         /\ probes' = [n \in DOMAIN probes \cup {NextProbe} |->
                          IF n = NextProbe THEN i ELSE probes[n]]

NoProbe == UNCHANGED <<probingRef, probes>>

\* Mutant of GuardAfter: a failed probe does not release it.
GuardKept(ok) == IF ok THEN None ELSE probingRef

\* The guard after the end of any probe.
GuardAfter(ok) == None

\* probe() ends, by its six seconds at the latest.
ProbeEnds(n) ==
    /\ probes' = [m \in DOMAIN probes \ {n} |-> probes[m]]
    /\ \E ok \in BOOLEAN :
          /\ probingRef' = GuardAfter(ok)
          /\ phase' = Phase(IF ok THEN "connected" ELSE "error", probes[n])
    /\ UNCHANGED <<running, persisted, disk, unwritten, modal, editing, taps>>

\* loadState(): a storage that cannot be read counts as empty.
LoadState == {disk, NoInstalls}

\* The cold start.
Loaded ==
    /\ running /\ persisted = None
    /\ \E p \in LoadState :
          /\ persisted' = p
          /\ IF ActiveInstallation(p) = None
             THEN phase' = Phase("no-installations", None) /\ NoProbe
             ELSE RunProbe(ActiveInstallation(p))
    /\ UNCHANGED <<running, disk, unwritten, modal, editing, taps>>

\* The Retry button, and the return to the foreground.
Retry ==
    /\ running /\ phase.kind = "error"
    /\ RunProbe(phase.at)
    /\ UNCHANGED <<running, persisted, disk, unwritten, modal, editing, taps>>

WebLoadError ==
    /\ running /\ phase.kind = "connected"
    /\ phase' = Phase("error", phase.at)
    /\ UNCHANGED <<running, persisted, disk, unwritten, modal, editing, probingRef, probes, taps>>

-----------------------------------------------------------------------------
(* The installations sheet.                                                  *)
Tap == running /\ persisted # None /\ taps < MaxTaps /\ taps' = taps + 1

OpenManager ==
    /\ running /\ modal = "none" /\ phase.kind \in {"error", "connected"}
    /\ modal' = "list" /\ editing' = None
    /\ UNCHANGED <<running, persisted, disk, unwritten, phase, probingRef, probes, taps>>

HandleSelect(id) ==
    /\ modal = "list" /\ Tap
    /\ LET p == [persisted EXCEPT !.active = id]
       IN  WriteState(p) /\ RunProbe(Installed(p, id))
    /\ modal' = "none"
    /\ UNCHANGED <<running, editing>>

\* handleAdd() and handleEdit(): `at` is None for a new installation.
OpenEditor(at) ==
    /\ running /\ persisted # None
    /\ modal = "list" \/ (modal = "none" /\ phase.kind = "no-installations")
    /\ modal' = "edit" /\ editing' = at
    /\ UNCHANGED <<running, persisted, disk, unwritten, phase, probingRef, probes, taps>>

\* Cancel, or closing a sheet.
CloseModal ==
    /\ running /\ modal # "none"
    /\ modal' = IF modal = "edit" /\ persisted.list # <<>> THEN "list" ELSE "none"
    /\ UNCHANGED <<running, persisted, disk, unwritten, phase, editing, probingRef, probes, taps>>

\* What the editor hands over: a new id, or that of the installation it edits, and
\* whatever address was typed or scanned.
FromEditor(i) == IF editing = None THEN i.id \notin Ids(persisted) ELSE i.id = editing

HandleSave(i) ==
    /\ modal = "edit" /\ Tap
    /\ FromEditor(i)
    /\ LET p == UpsertInstallation(persisted, i)
           first == persisted.list = <<>>
       IN  /\ WriteState(p)
           /\ modal' = IF first THEN "none" ELSE "list"
           /\ IF \/ first
                 \/ p.active = i.id /\ phase.kind # "connected"
                 \/ p.active = i.id /\ phase.at.url # i.url
              THEN RunProbe(i) ELSE UNCHANGED <<probingRef, phase, probes>>
    /\ UNCHANGED <<running, editing>>

HandleDelete ==
    /\ modal = "edit" /\ editing # None /\ Tap
    /\ LET p == DeleteInstallation(persisted, editing)
       IN  /\ WriteState(p)
           /\ IF ActiveInstallation(p) = None
              THEN modal' = "none" /\ phase' = Phase("no-installations", None) /\ NoProbe
              ELSE /\ modal' = "list"
                   /\ IF phase.kind # "connected" \/ phase.at.id = editing
                      THEN RunProbe(ActiveInstallation(p))
                      ELSE UNCHANGED <<probingRef, phase, probes>>
    /\ UNCHANGED <<running, editing>>

\* The process is killed, with the states that were not written.
Kill ==
    /\ running
    /\ running' = FALSE
    /\ persisted' = None /\ unwritten' = <<>>
    /\ phase' = Phase("loading", None) /\ modal' = "none" /\ editing' = None
    /\ probingRef' = None /\ probes' = <<>>
    /\ UNCHANGED <<disk, taps>>

Launch ==
    /\ ~running
    /\ running' = TRUE
    /\ UNCHANGED <<persisted, disk, unwritten, phase, modal, editing, probingRef, probes, taps>>

MobileSteps ==
    \/ Flush \/ Loaded \/ Retry \/ WebLoadError
    \/ \E n \in DOMAIN probes : ProbeEnds(n)
    \/ OpenManager \/ CloseModal \/ HandleDelete
    \/ \E id \in Installs : persisted # None /\ id \in Ids(persisted) /\ HandleSelect(id)
    \/ \E at \in Installs \cup {None} : persisted # None /\ at \in Ids(persisted) \cup {None} /\ OpenEditor(at)
    \/ \E i \in Installation : HandleSave(i)
    \/ Kill \/ Launch

MobileSpec == MobileInit /\ [][MobileSteps]_mobileVars

-----------------------------------------------------------------------------
Persisted(p) ==
    /\ p.list \in Seq(Installation) /\ IsInjective([n \in DOMAIN p.list |-> p.list[n].id])
    /\ IF p.list = <<>> THEN p.active = None ELSE p.active \in Ids(p)

\* With the states of the storage: the active installation is one of the list, of
\* the state in memory and of every one a restart may come back to.
MobileTypeOK ==
    /\ persisted # None => Persisted(persisted)
    /\ Persisted(disk) /\ \A n \in DOMAIN unwritten : Persisted(unwritten[n])
    /\ probingRef \in Installs \cup {None}
    /\ DOMAIN probes \subseteq 1..MaxProbes /\ \A n \in DOMAIN probes : probes[n] \in Installation
    /\ phase.kind \in {"connecting", "connected", "error"} => phase.at \in Installation
    /\ modal \in {"none", "list", "edit"} /\ editing \in Installs \cup {None}
    /\ taps \in 0..MaxTaps

\* "Avoid duplicate probes" (App.tsx) must not mean no probe: the screen that waits
\* for a probe has one under way, and the Retry button of the error screen starts
\* one, although the guard is shared by probes of several installations that end
\* in any order.
ProbesServeTheScreen ==
    /\ phase.kind = "connecting" => \E n \in DOMAIN probes : probes[n].id = phase.at.id
    /\ phase.kind = "error" => probingRef # phase.at.id
=============================================================================
