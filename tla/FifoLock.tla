------------------------------ MODULE FifoLock ------------------------------
(***************************************************************************)
(* What the installer mutex promises, without the requests it protects: at *)
(* most one process holds it, and the others get it in the order in which  *)
(* they asked.                                                             *)
(***************************************************************************)
EXTENDS Naturals, Sequences

CONSTANTS
    Procs,   \* the processes
    NoOne    \* not a process: the holder of a free lock

VARIABLES
    holder,   \* the process that holds the lock, or NoOne
    queue     \* the processes that wait, in the order of their requests

vars == <<holder, queue>>

InQueue(p) == \E i \in 1..Len(queue) : queue[i] = p

Init == holder = NoOne /\ queue = <<>>

\* The lock is free: p gets it at once.
Take(p) ==
    /\ holder = NoOne
    /\ holder' = p
    /\ UNCHANGED queue

\* Someone else holds it: p waits behind the others.
Wait(p) ==
    /\ holder \notin {NoOne, p}
    /\ ~InQueue(p)
    /\ queue' = Append(queue, p)
    /\ UNCHANGED holder

\* The holder gives it to whoever has waited longest, if anyone waits.
Release ==
    /\ holder # NoOne
    /\ IF queue = <<>>
       THEN holder' = NoOne /\ UNCHANGED queue
       ELSE holder' = Head(queue) /\ queue' = Tail(queue)

Next == (\E p \in Procs : Take(p) \/ Wait(p)) \/ Release

\* Whoever holds the lock gives it up in the end.
Spec == Init /\ [][Next]_vars /\ WF_vars(Release)
=============================================================================
