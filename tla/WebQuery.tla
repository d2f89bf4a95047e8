------------------------------ MODULE WebQuery ------------------------------
(***************************************************************************)
(* One entry of the web application's query cache (TanStack Query, set up  *)
(* in apps/web/src/main.tsx), as its pages use it: an entry has at most    *)
(* one fetch, whose answer is first computed by the bridge and lands       *)
(* later; data written into the entry by hand does not stop a fetch that   *)
(* is under way, cancelling does.                                          *)
(***************************************************************************)

CONSTANT NoData

\* `answer` is what the bridge said, once it said it.
Entries(Data) ==
    [data : Data \cup {NoData}, asked : BOOLEAN, answer : Data \cup {NoData}]

EmptyEntry == [data |-> NoData, asked |-> FALSE, answer |-> NoData]
EntryOf(d) == [EmptyEntry EXCEPT !.data = d]

\* A poll or a mount joins the fetch under way; invalidating starts it afresh.
Fetch(q) == IF q.asked THEN q ELSE [q EXCEPT !.asked = TRUE, !.answer = NoData]
Refetch(q) == [q EXCEPT !.asked = TRUE, !.answer = NoData]
CancelFetch(q) == [q EXCEPT !.asked = FALSE, !.answer = NoData]

Unanswered(q) == q.asked /\ q.answer = NoData
Landing(q) == q.asked /\ q.answer # NoData
Answer(q, d) == [q EXCEPT !.answer = d]
Land(q) == EntryOf(q.answer)
SetData(q, d) == [q EXCEPT !.data = d]

\* A component that mounts fetches unless the data is there and younger than
\* staleTime: the age is not modelled.
Mounted(q) == IF q.data = NoData THEN {Fetch(q)} ELSE {q, Fetch(q)}
=============================================================================
