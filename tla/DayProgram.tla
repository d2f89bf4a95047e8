------------------------------ MODULE DayProgram ------------------------------
(***************************************************************************)
(* A daily program as times of the day: clients may PUT it as intervals    *)
(* and GET it as intervals (apps/bridge/src/http/routes/programs.ts, the   *)
(* codecs of apps/bridge/src/device/codecs.ts), while the controller keeps *)
(* one bit for each quarter of an hour.                                    *)
(*                                                                         *)
(* A time is its hour and its minute.  The day may be shorter than the     *)
(* code's 24 hours.                                                        *)
(***************************************************************************)
EXTENDS Integers, Sequences

CONSTANTS
    DayHours,    \* hours of a day
    Minutes,     \* minutes that clients name
    MaxIntervals \* bound: intervals of a request

ASSUME DayProgramAssumption ==
    DayHours \in Nat \ {0} /\ Minutes \subseteq 0..59 /\ MaxIntervals \in Nat

DayLength == 4 * DayHours
DayBits == [0..DayLength - 1 -> {0, 1}]
Midnight == [hour |-> DayHours, min |-> 0]

\* The pattern of the schema and of hhmmToQuarter: the last hour has its minutes, too.
ClockTime == [hour : 0..DayHours, min : Minutes]
DayInterval == [start : ClockTime, end : ClockTime]

-----------------------------------------------------------------------------
Aligned(t) == t.min % 15 = 0
HhmmToQuarter(t) == 4 * t.hour + t.min \div 15
QuarterToHHMM(q) == [hour |-> q \div 4, min |-> (q % 4) * 15]

\* Neither time is off the quarters, and the end is after the start.
Proper(i) ==
    Aligned(i.start) /\ Aligned(i.end) /\ HhmmToQuarter(i.end) > HhmmToQuarter(i.start)

\* Quarter q is in one of the intervals.
Within(q, list) ==
    \E n \in DOMAIN list :
        HhmmToQuarter(list[n].start) <= q /\ q < HhmmToQuarter(list[n].end)

\* intervalsToBits: an array that grows where a bit is set beyond its end.
IntervalsToBits(list) ==
    LET ends == {DayLength} \cup {HhmmToQuarter(list[n].end) : n \in DOMAIN list}
        length == CHOOSE l \in ends : \A k \in ends : k <= l
    IN  [q \in 0..length - 1 |-> IF Within(q, list) THEN 1 ELSE 0]

\* One turn of bitsToIntervals: a run starts, or it ends before quarter q.
Turn(bits, read, q) ==
    IF bits[q] = 1 /\ read.runStart = -1 THEN [read EXCEPT !.runStart = q]
    ELSE IF bits[q] = 0 /\ read.runStart # -1
    THEN [out |-> Append(read.out, [start |-> QuarterToHHMM(read.runStart), end |-> QuarterToHHMM(q)]),
          runStart |-> -1]
    ELSE read

\* What the turns for the first n quarters of the day have read.
Turns(bits) ==
    LET read[n \in 0..DayLength] ==
            IF n = 0 THEN [out |-> <<>>, runStart |-> -1] ELSE Turn(bits, read[n - 1], n - 1)
    IN  read

Runs(bits) == Turns(bits)[DayLength]

\* Mutant of BitsToIntervals: the run that lasts until midnight is forgotten.
BitsToIntervalsOpen(bits) == Runs(bits).out

\* bitsToIntervals, with the run that lasts until midnight.
BitsToIntervals(bits) ==
    LET read == Runs(bits)
    IN  IF read.runStart = -1 THEN read.out
        ELSE Append(read.out, [start |-> QuarterToHHMM(read.runStart), end |-> Midnight])

\* PUT of a daily program: the programs the controller may have afterwards, none
\* if the request is refused: by intervalsToBits, or by setDailyProgram for an array
\* that has grown.
PutDaily(list) ==
    {bits \in {IntervalsToBits(list)} :
        (\A n \in DOMAIN list : Proper(list[n])) /\ DOMAIN bits = 0..DayLength - 1}

-----------------------------------------------------------------------------
Lists == UNION {[1..k -> DayInterval] : k \in 0..MaxIntervals}

\* The intervals are in order, and a gap lies between any two.
Separate(list) ==
    /\ \A n \in DOMAIN list : Proper(list[n])
    /\ \A n \in 1..Len(list) - 1 :
           HhmmToQuarter(list[n].end) < HhmmToQuarter(list[n + 1].start)

\* Whatever the controller has, what a client reads as intervals it can send back
\* for the same program, and no shorter list of intervals says the same.  Whatever
\* intervals a client sends, overlapping or past midnight (24:15 passes the
\* patterns), the request is refused or the controller comes to have exactly the
\* quarters in them; those of one day are not refused.
IntervalsReadBack ==
    /\ \A bits \in DayBits :
          /\ PutDaily(BitsToIntervals(bits)) = {bits}
          /\ Separate(BitsToIntervals(bits))
    /\ \A list \in Lists :
          /\ \A bits \in PutDaily(list) :
                bits \in DayBits /\ \A q \in DOMAIN bits : bits[q] = 1 <=> Within(q, list)
          /\ (\A n \in DOMAIN list :
                Proper(list[n]) /\ HhmmToQuarter(list[n].end) <= DayLength) => PutDaily(list) # {}
=============================================================================
