--------------------------- MODULE WebEditors_proofs ---------------------------
(***************************************************************************)
(* The installer's editors and the time programs: a write of a settings    *)
(* group changes the patched fields only, a value leaves the draft by      *)
(* being sent, cancelled or edited again, the clicks on a time program are *)
(* kept for it and sent to it, and a daily program reads back as           *)
(* intervals.                                                              *)
(***************************************************************************)
EXTENDS WebEditors, WellFoundedInduction, TLAPS

-----------------------------------------------------------------------------
(* SettingsForm: one write.                                                *)

\* formatForDevice leaves a number alone that its input can hold.
LEMMA FormatExact ==
    ASSUME NEW v \in Int, NEW step \in Nat \ {0}, v % Precision(step) = 0
    PROVE  FormatForDevice(v, step) = v
<1>1. CASE step >= 100
  <2>1. Precision(step) = 100
    BY <1>1 DEF Precision
  <2> QED
    BY <2>1 DEF FormatForDevice
<1>2. CASE ~(step >= 100) /\ step >= 10
  <2>1. Precision(step) = 10
    BY <1>2 DEF Precision
  <2> QED
    BY <2>1 DEF FormatForDevice
<1>3. CASE ~(step >= 100) /\ ~(step >= 10)
  <2>1. Precision(step) = 1
    BY <1>3 DEF Precision
  <2> QED
    BY <2>1 DEF FormatForDevice
<1> QED
  BY <1>1, <1>2, <1>3

\* A field is a check box or a number with a step.
LEMMA FieldKind ==
    ASSUME NEW f \in Names
    PROVE  \/ IsBox(Catalogue[f])
           \/ ~IsBox(Catalogue[f]) /\ Catalogue[f].step \in Nat \ {0}
<1>1. CASE Catalogue[f] = Box
  BY <1>1 DEF Box, IsBox
<1>2. CASE /\ Catalogue[f] = Number(Catalogue[f].min, Catalogue[f].step)
           /\ Catalogue[f].step \in Nat \ {0}
  BY <1>2 DEF Number, IsBox
<1> QED
  BY <1>1, <1>2, SettingsFormAssumption DEF Names

\* What a page shows of field f after the group `fields` was posted to it.
LEMMA FiledValue ==
    ASSUME NEW before \in WholePages, NEW fields, NEW f \in Names,
           fields[f] \in ValuesOf(f), Exact(f, fields[f])
    PROVE  FileForm(before, BuildSettingsForm(fields))[f] = fields[f]
<1> DEFINE filed == BuildSettingsForm(fields)
<1>1. DOMAIN before = Names
  BY DEF WholePages
<1>2. f \in DOMAIN filed <=> (IsBox(Catalogue[f]) => fields[f] = 1)
  BY DEF BuildSettingsForm
<1>3. CASE IsBox(Catalogue[f])
  <2>1. fields[f] \in {0, 1}
    BY <1>3 DEF ValuesOf, Ticks
  <2>2. FileForm(before, filed)[f] = IF f \in DOMAIN filed THEN 1 ELSE 0
    BY <1>1, <1>3 DEF FileForm
  <2> QED
    BY <1>2, <1>3, <2>1, <2>2
<1>4. CASE ~IsBox(Catalogue[f])
  <2>1. FileForm(before, filed)[f] = filed[f]
    BY <1>1, <1>2, <1>4 DEF FileForm
  <2>2. filed[f] = FormatForDevice(fields[f], Catalogue[f].step)
    BY <1>4 DEF BuildSettingsForm
  <2>3. fields[f] \in Int /\ Catalogue[f].step \in Nat \ {0}
    BY <1>4, FieldKind, SettingsFormAssumption DEF ValuesOf
  <2>4. fields[f] % Precision(Catalogue[f].step) = 0
    BY <1>4 DEF Exact
  <2> QED
    BY <2>1, <2>2, <2>3, <2>4, FormatExact
<1> QED
  BY <1>3, <1>4

\* Although every field is posted again, a write changes the patched ones only, and
\* what the client is told is what the controller shows.
LEMMA EveryWriteKeepsTheRest == WritesKeepTheRest
<1> SUFFICES ASSUME NEW before \in WholePages, NEW S \in SUBSET Names,
                    NEW patch \in PatchesOf(S)
             PROVE  SaveKeepsTheRest(before, patch)
  BY DEF WritesKeepTheRest
<1> DEFINE merged == MergeSettings(ParseSettings(before), patch)
           after == FileForm(before, BuildSettingsForm(merged))
<1>1. DOMAIN before = Names /\ DOMAIN patch = S
  BY DEF WholePages, PatchesOf
<1>2. ASSUME NEW f \in Names
      PROVE  merged[f] = IF f \in S THEN patch[f] ELSE before[f]
  BY <1>1 DEF MergeSettings, ParseSettings
<1>3. ASSUME NEW f \in Names PROVE merged[f] \in ValuesOf(f)
  BY <1>2, <1>3 DEF WholePages, PatchesOf
<1>4. ASSUME NEW f \in Names, f \in S => Exact(f, patch[f])
      PROVE  after[f] = merged[f]
  <2>1. Exact(f, merged[f])
    BY <1>2, <1>4 DEF WholePages
  <2> QED
    BY <1>3, <2>1, FiledValue
<1>5. DOMAIN after = Names /\ DOMAIN merged = Names
  BY <1>1 DEF FileForm, MergeSettings
<1>6. after = [f \in Names |-> after[f]] /\ merged = [f \in Names |-> merged[f]]
  BY <1>1 DEF FileForm, MergeSettings
<1>7. SetSettings(before, patch) = [inputs |-> after, fields |-> merged]
  BY DEF SetSettings
<1> HIDE DEF merged, after
<1>8. \A f \in Names \ S : after[f] = before[f]
  BY <1>2, <1>4
<1>9. \A f \in S : Exact(f, patch[f]) => after[f] = patch[f]
  BY <1>2, <1>4
<1>10. (\A f \in S : Exact(f, patch[f])) => merged = after
  BY <1>4, <1>6
<1> QED
  BY <1>1, <1>7, <1>8, <1>9, <1>10 DEF SaveKeepsTheRest

\* settings.ts, source.ts: saving a settings group, of any catalogue and with any
\* values, changes nothing but the fields of the patch.
THEOREM SavesLoseNothing == Spec => []SavesKeepTheRest
<1>1. SavesKeepTheRest
  BY EveryWriteKeepsTheRest DEF SavesKeepTheRest
<1> QED BY <1>1, PTL

-----------------------------------------------------------------------------
(* DayProgram: intervals of a day, written and read back.                  *)

\* Times as the bridge writes them.
QuarterTime == [hour : Nat, min : 0..59]
QuarterInterval == [start : QuarterTime, end : QuarterTime]

LEMMA QuarterThereAndBack ==
    ASSUME NEW q \in Nat
    PROVE  /\ HhmmToQuarter(QuarterToHHMM(q)) = q
           /\ Aligned(QuarterToHHMM(q))
           /\ QuarterToHHMM(q) \in QuarterTime
BY DEF HhmmToQuarter, QuarterToHHMM, Aligned, QuarterTime

LEMMA MidnightIsTheEnd ==
    /\ HhmmToQuarter(Midnight) = DayLength
    /\ Aligned(Midnight)
    /\ Midnight \in QuarterTime
    /\ DayLength \in Nat \ {0}
BY DayProgramAssumption DEF HhmmToQuarter, Midnight, Aligned, QuarterTime, DayLength

LEMMA ClockTimeIsANumber ==
    ASSUME NEW t \in ClockTime PROVE HhmmToQuarter(t) \in Int
<1>1. t.hour \in 0..DayHours /\ t.min \in Minutes
  BY DEF ClockTime
<1>2. DayHours \in Nat /\ Minutes \subseteq 0..59
  BY DayProgramAssumption
<1>3. t.hour \in Int
  BY <1>1, <1>2
<1>4. t.min \in 0..59
  BY <1>1, <1>2
<1> QED BY <1>3, <1>4 DEF HhmmToQuarter

\* Intervals in order with gaps between them, all of them before quarter n.
Before(list, n) ==
    /\ list \in Seq(QuarterInterval)
    /\ Separate(list)
    /\ \A k \in DOMAIN list : HhmmToQuarter(list[k].end) < n

\* One interval more, from quarter a to quarter b.
LEMMA IntervalAdded ==
    ASSUME NEW a \in Nat, NEW b \in Nat, a < b, NEW list, Before(list, a),
           NEW i \in QuarterInterval, Aligned(i.start), Aligned(i.end),
           HhmmToQuarter(i.start) = a, HhmmToQuarter(i.end) = b
    PROVE  /\ Before(Append(list, i), b + 1)
           /\ \A q \in Nat : Within(q, Append(list, i)) <=> Within(q, list) \/ (a <= q /\ q < b)
<1> DEFINE new == Append(list, i)
           n == Len(list)
<1>1. /\ list \in Seq(QuarterInterval) /\ n \in Nat /\ DOMAIN list = 1..n
      /\ \A k \in 1..n : Proper(list[k]) /\ HhmmToQuarter(list[k].end) < a
      /\ \A k \in 1..n - 1 : HhmmToQuarter(list[k].end) < HhmmToQuarter(list[k + 1].start)
  BY DEF Before, Separate
<1>2. /\ new \in Seq(QuarterInterval) /\ Len(new) = n + 1 /\ DOMAIN new = 1..n + 1
      /\ new[n + 1] = i /\ \A k \in 1..n : new[k] = list[k]
  BY <1>1
<1> HIDE DEF new, n
<1>3. \A k \in 1..n : HhmmToQuarter(list[k].end) \in Int
  <2> TAKE k \in 1..n
  <2>1. list[k] \in QuarterInterval
    BY <1>1
  <2> QED BY <2>1 DEF QuarterInterval, QuarterTime, HhmmToQuarter
<1>4. Proper(i)
  BY DEF Proper
<1>5. Separate(new)
  <2>1. \A k \in DOMAIN new : Proper(new[k])
    BY <1>1, <1>2, <1>4
  <2>2. \A k \in 1..n : HhmmToQuarter(new[k].end) < HhmmToQuarter(new[k + 1].start)
    <3> TAKE k \in 1..n
    <3>1. CASE k = n
      BY <1>1, <1>2, <3>1
    <3>2. CASE k \in 1..n - 1
      BY <1>1, <1>2, <3>2
    <3> QED BY <1>1, <3>1, <3>2
  <2> QED BY <1>1, <1>2, <2>1, <2>2 DEF Separate
<1>6. \A k \in DOMAIN new : HhmmToQuarter(new[k].end) < b + 1
  BY <1>1, <1>2, <1>3
<1>7. ASSUME NEW q \in Nat PROVE Within(q, new) <=> Within(q, list) \/ (a <= q /\ q < b)
  <2> DEFINE In(x) == HhmmToQuarter(x.start) <= q /\ q < HhmmToQuarter(x.end)
  <2>1. In(i) <=> a <= q /\ q < b
    OBVIOUS
  <2>2. Within(q, new) <=> \E k \in 1..n + 1 : In(new[k])
    BY <1>2 DEF Within
  <2>3. Within(q, list) <=> \E k \in 1..n : In(list[k])
    BY <1>1 DEF Within
  <2> HIDE DEF In
  <2> QED BY <1>1, <1>2, <2>1, <2>2, <2>3
<1> QED BY <1>2, <1>5, <1>6, <1>7 DEF Before, new

\* What the turns before quarter n have read of the bits.
ReadTo(bits, read, n) ==
    /\ read = [out |-> read.out, runStart |-> read.runStart]
    /\ \/ read.runStart = -1 /\ Before(read.out, n)
       \/ read.runStart \in 0..n - 1 /\ Before(read.out, read.runStart)
    /\ \A q \in 0..n - 1 :
          bits[q] = 1 <=> Within(q, read.out) \/ (read.runStart # -1 /\ read.runStart <= q)

LEMMA NotBeyond ==
    ASSUME NEW list, NEW n \in Nat, Before(list, n), NEW q \in Nat, n <= q
    PROVE  ~Within(q, list)
<1> SUFFICES ASSUME NEW k \in DOMAIN list, q < HhmmToQuarter(list[k].end) PROVE FALSE
  BY DEF Within
<1>1. list[k] \in QuarterInterval
  BY DEF Before
<1>2. HhmmToQuarter(list[k].end) \in Int
  BY <1>1 DEF QuarterInterval, QuarterTime, HhmmToQuarter
<1> QED BY <1>2 DEF Before

LEMMA BeforeMore ==
    ASSUME NEW list, NEW n \in Nat, NEW m \in Nat, n <= m, Before(list, n)
    PROVE  Before(list, m)
<1> SUFFICES ASSUME NEW k \in DOMAIN list PROVE HhmmToQuarter(list[k].end) < m
  BY DEF Before
<1>1. list[k] \in QuarterInterval
  BY DEF Before
<1>2. HhmmToQuarter(list[k].end) \in Int
  BY <1>1 DEF QuarterInterval, QuarterTime, HhmmToQuarter
<1> QED BY <1>2 DEF Before

LEMMA ReadWhole ==
    ASSUME NEW bits, NEW list, NEW n \in Nat, Before(list, n),
           \A q \in 0..n - 1 : bits[q] = 1 <=> Within(q, list)
    PROVE  ReadTo(bits, [out |-> list, runStart |-> -1], n)
<1> DEFINE r == [out |-> list, runStart |-> -1]
<1>1. r = [out |-> r.out, runStart |-> r.runStart] /\ r.out = list /\ r.runStart = -1
  OBVIOUS
<1> HIDE DEF r
<1> QED BY <1>1 DEF ReadTo, r

LEMMA TurnReads ==
    ASSUME NEW n \in Nat, NEW bits, bits[n] \in {0, 1}, NEW read, ReadTo(bits, read, n)
    PROVE  ReadTo(bits, Turn(bits, read, n), n + 1)
<1> DEFINE out == read.out
           s == read.runStart
<1>1. read = [out |-> out, runStart |-> s]
  BY DEF ReadTo
<1>2. (s = -1 /\ Before(out, n)) \/ (s \in 0..n - 1 /\ Before(out, s))
  BY DEF ReadTo
<1>3. \A q \in 0..n - 1 : bits[q] = 1 <=> Within(q, out) \/ (s # -1 /\ s <= q)
  BY DEF ReadTo
<1>4. Before(out, n) /\ Before(out, n + 1) /\ ~Within(n, out)
  BY <1>2, BeforeMore, NotBeyond
<1>5. CASE bits[n] = 1 /\ s = -1
  <2>1. Turn(bits, read, n) = [out |-> out, runStart |-> n]
    BY <1>1, <1>5 DEF Turn
  <2> HIDE DEF out, s
  <2>2. \A q \in 0..n : bits[q] = 1 <=> Within(q, out) \/ n <= q
    BY <1>3, <1>5
  <2> QED BY <1>4, <2>1, <2>2 DEF ReadTo
<1>6. CASE bits[n] = 0 /\ s # -1
  <2> DEFINE i == [start |-> QuarterToHHMM(s), end |-> QuarterToHHMM(n)]
  <2>1. Turn(bits, read, n) = [out |-> Append(out, i), runStart |-> -1]
    BY <1>6 DEF Turn
  <2>2. s \in Nat /\ s < n /\ Before(out, s)
    BY <1>2, <1>6
  <2>3. /\ i \in QuarterInterval /\ Aligned(i.start) /\ Aligned(i.end)
        /\ HhmmToQuarter(i.start) = s /\ HhmmToQuarter(i.end) = n
    BY <2>2, QuarterThereAndBack DEF QuarterInterval
  <2> DEFINE new == Append(out, i)
  <2> HIDE DEF i, out, s
  <2>4. /\ Before(new, n + 1)
        /\ \A q \in Nat : Within(q, new) <=> Within(q, out) \/ (s <= q /\ q < n)
    BY <2>2, <2>3, IntervalAdded
  <2> HIDE DEF new
  <2>5. \A q \in 0..n : bits[q] = 1 <=> Within(q, new)
    <3> TAKE q \in 0..n
    <3>1. CASE q = n
      BY <1>4, <1>6, <2>4, <3>1
    <3>2. CASE q \in 0..n - 1
      BY <1>3, <1>6, <2>4, <3>2
    <3> QED BY <3>1, <3>2
  <2>6. 0..n + 1 - 1 = 0..n /\ n + 1 \in Nat
    OBVIOUS
  <2>7. ReadTo(bits, [out |-> new, runStart |-> -1], n + 1)
    BY <2>4, <2>5, <2>6, ReadWhole
  <2> QED BY <2>1, <2>7 DEF new
<1>7. CASE ~(bits[n] = 1 /\ s = -1) /\ ~(bits[n] = 0 /\ s # -1)
  <2>1. Turn(bits, read, n) = read
    BY <1>7 DEF Turn
  <2>2. \A q \in 0..n : bits[q] = 1 <=> Within(q, out) \/ (s # -1 /\ s <= q)
    <3> TAKE q \in 0..n
    <3>1. CASE q = n
      BY <1>2, <1>4, <1>7, <3>1
    <3>2. CASE q \in 0..n - 1
      BY <1>3, <3>2
    <3> QED BY <3>1, <3>2
  <2>3. (s = -1 /\ Before(out, n + 1)) \/ (s \in 0..n /\ Before(out, s))
    BY <1>2, <1>4
  <2> QED BY <1>1, <2>1, <2>2, <2>3 DEF ReadTo
<1> QED BY <1>5, <1>6, <1>7

\* The loop's function exists, and its turns are those of the loop: by induction,
\* through the well-founded order of the numbers.
LEMMA LeastNatural ==
    ASSUME NEW S \in SUBSET Nat, S # {}
    PROVE  \E n \in S : \A m \in S : n <= m
<1>1. PICK n \in S : \A m \in S : ~(<<m, n>> \in OpToRel(<, Nat))
  BY NatLessThanWellFounded, WFMin
<1>2. ASSUME NEW m \in S PROVE n <= m
  <2>1. m \in Nat /\ n \in Nat
    OBVIOUS
  <2>2. ~(m < n)
    BY <1>1, <2>1 DEF OpToRel
  <2> QED BY <2>1, <2>2
<1> QED BY <1>2

Turned(bits, read, n) ==
    IF n = 0 THEN [out |-> <<>>, runStart |-> -1] ELSE Turn(bits, read[n - 1], n - 1)

LEMMA TurnsExist ==
    ASSUME NEW bits, NEW last \in Nat
    PROVE  \E read : read = [n \in 0..last |-> Turned(bits, read, n)]
<1> DEFINE S == {m \in Nat : ~\E read : read = [n \in 0..m |-> Turned(bits, read, n)]}
<1> SUFFICES ASSUME S # {} PROVE FALSE
  OBVIOUS
<1>1. PICK m \in S : \A k \in S : m <= k
  BY LeastNatural
<1>2. m # 0
  <2> DEFINE g == [n \in 0..0 |-> [out |-> <<>>, runStart |-> -1]]
  <2>1. g = [n \in 0..0 |-> Turned(bits, g, n)]
    BY DEF Turned
  <2> QED BY <2>1
<1>3. m - 1 \in Nat /\ m - 1 \notin S
  BY <1>1, <1>2
<1>4. PICK g : g = [n \in 0..m - 1 |-> Turned(bits, g, n)]
  BY <1>3
<1> DEFINE h == [n \in 0..m |-> IF n = m THEN Turned(bits, g, m) ELSE g[n]]
<1>5. ASSUME NEW n \in 0..m PROVE h[n] = Turned(bits, h, n)
  <2>1. n # 0 => h[n - 1] = g[n - 1]
    BY <1>2
  <2>2. Turned(bits, h, n) = Turned(bits, g, n)
    BY <2>1 DEF Turned
  <2>3. CASE n = m
    BY <2>2, <2>3
  <2>4. CASE n # m
    <3>1. n \in 0..m - 1 /\ h[n] = g[n]
      BY <2>4
    <3>2. g[n] = Turned(bits, g, n)
      BY <1>4, <3>1
    <3> QED BY <2>2, <3>1, <3>2
  <2> QED BY <2>3, <2>4
<1>6. h = [n \in 0..m |-> Turned(bits, h, n)]
  BY <1>5
<1> QED BY <1>6

LEMMA TurnsAre ==
    ASSUME NEW bits, NEW n \in 0..DayLength
    PROVE  Turns(bits)[n] = Turned(bits, Turns(bits), n)
<1>1. DayLength \in Nat
  BY MidnightIsTheEnd
<1>2. Turns(bits) = CHOOSE read : read = [k \in 0..DayLength |-> Turned(bits, read, k)]
  BY DEF Turns, Turned
<1>3. Turns(bits) = [k \in 0..DayLength |-> Turned(bits, Turns(bits), k)]
  BY <1>1, <1>2, TurnsExist
<1> QED BY <1>3

LEMMA TurnsRead ==
    ASSUME NEW bits \in DayBits, NEW last \in 0..DayLength
    PROVE  ReadTo(bits, Turns(bits)[last], last)
<1>0. DayLength \in Nat
  BY MidnightIsTheEnd
<1> DEFINE S == {m \in 0..DayLength : ~ReadTo(bits, Turns(bits)[m], m)}
<1> SUFFICES ASSUME S # {} PROVE FALSE
  OBVIOUS
<1>1. PICK m \in S : \A k \in S : m <= k
  <2>1. S \in SUBSET Nat
    BY <1>0
  <2> HIDE DEF S
  <2> QED BY <2>1, LeastNatural
<1>2. CASE m = 0
  <2>1. Turns(bits)[0] = [out |-> <<>>, runStart |-> -1]
    BY <1>0, TurnsAre DEF Turned
  <2>2. Before(<<>>, 0)
    BY DEF Before, Separate
  <2> DEFINE none == <<>>
  <2> HIDE DEF none
  <2>4. \A q \in 0..0 - 1 : bits[q] = 1 <=> Within(q, none)
    OBVIOUS
  <2>3. ReadTo(bits, [out |-> none, runStart |-> -1], 0)
    BY <2>2, <2>4, ReadWhole DEF none
  <2> QED BY <1>2, <2>1, <2>3 DEF none
<1>3. CASE m # 0
  <2>1. m - 1 \in 0..DayLength /\ m - 1 \notin S /\ m - 1 \in Nat
    BY <1>0, <1>1, <1>3
  <2>2. ReadTo(bits, Turns(bits)[m - 1], m - 1)
    BY <2>1
  <2>3. bits[m - 1] \in {0, 1}
    BY <1>0, <1>3, <2>1 DEF DayBits
  <2>4. Turns(bits)[m] = Turn(bits, Turns(bits)[m - 1], m - 1)
    BY <1>0, <1>3, TurnsAre DEF Turned
  <2>5. ReadTo(bits, Turns(bits)[m], m - 1 + 1)
    BY <2>1, <2>2, <2>3, <2>4, TurnReads
  <2> QED BY <2>1, <2>5
<1> QED BY <1>2, <1>3

\* What is read says what the bits say, and nothing of another day.
LEMMA IntervalsOfBits ==
    ASSUME NEW bits \in DayBits
    PROVE  /\ Before(BitsToIntervals(bits), DayLength + 1)
           /\ \A q \in 0..DayLength - 1 : bits[q] = 1 <=> Within(q, BitsToIntervals(bits))
<1> DEFINE read == Runs(bits)
           out == read.out
           s == read.runStart
<1>1. DayLength \in Nat /\ ReadTo(bits, read, DayLength)
  BY MidnightIsTheEnd, TurnsRead DEF Runs
<1> HIDE DEF read
<1>2. CASE s = -1
  <2>1. BitsToIntervals(bits) = out
    BY <1>2 DEF BitsToIntervals, read
  <2>2. Before(out, DayLength)
    BY <1>1, <1>2 DEF ReadTo
  <2> QED BY <1>1, <1>2, <2>1, <2>2, BeforeMore DEF ReadTo
<1>3. CASE s # -1
  <2> DEFINE i == [start |-> QuarterToHHMM(s), end |-> Midnight]
  <2>1. BitsToIntervals(bits) = Append(out, i)
    BY <1>3 DEF BitsToIntervals, read
  <2>2. s \in Nat /\ s < DayLength /\ Before(out, s)
    BY <1>1, <1>3 DEF ReadTo
  <2>3. /\ i \in QuarterInterval /\ Aligned(i.start) /\ Aligned(i.end)
        /\ HhmmToQuarter(i.start) = s /\ HhmmToQuarter(i.end) = DayLength
    BY <2>2, QuarterThereAndBack, MidnightIsTheEnd DEF QuarterInterval
  <2>4. \A q \in 0..DayLength - 1 : bits[q] = 1 <=> Within(q, out) \/ s <= q
    BY <1>1, <1>3 DEF ReadTo
  <2> HIDE DEF i, out, s
  <2>5. /\ Before(Append(out, i), DayLength + 1)
        /\ \A q \in Nat : Within(q, Append(out, i)) <=> Within(q, out) \/ (s <= q /\ q < DayLength)
    BY <1>1, <2>2, <2>3, IntervalAdded
  <2> QED BY <1>1, <2>1, <2>4, <2>5
<1> QED BY <1>2, <1>3

\* The array does not grow for intervals of one day.
LEMMA BitsOfIntervals ==
    ASSUME NEW list, \A n \in DOMAIN list : HhmmToQuarter(list[n].end) \in Int
                                            /\ HhmmToQuarter(list[n].end) <= DayLength
    PROVE  IntervalsToBits(list) = [q \in 0..DayLength - 1 |-> IF Within(q, list) THEN 1 ELSE 0]
<1> DEFINE ends == {DayLength} \cup {HhmmToQuarter(list[n].end) : n \in DOMAIN list}
           length == CHOOSE l \in ends : \A k \in ends : k <= l
<1>1. DayLength \in Nat /\ \A l \in ends : l \in Int /\ l <= DayLength
  BY MidnightIsTheEnd
<1>2. DayLength \in ends
  OBVIOUS
<1> HIDE DEF ends
<1>3. length = DayLength
  <2>1. length \in ends /\ \A k \in ends : k <= length
    BY <1>1, <1>2
  <2> HIDE DEF length
  <2> QED BY <1>1, <1>2, <2>1
<1>4. IntervalsToBits(list) = [q \in 0..length - 1 |-> IF Within(q, list) THEN 1 ELSE 0]
  BY DEF IntervalsToBits, ends
<1> HIDE DEF length
<1> QED BY <1>3, <1>4

LEMMA AllReadBack == IntervalsReadBack
<1>1. ASSUME NEW bits \in DayBits
      PROVE  /\ PutDaily(BitsToIntervals(bits)) = {bits}
             /\ Separate(BitsToIntervals(bits))
  <2> DEFINE list == BitsToIntervals(bits)
  <2>1. /\ Before(list, DayLength + 1)
        /\ \A q \in 0..DayLength - 1 : bits[q] = 1 <=> Within(q, list)
    BY IntervalsOfBits
  <2> HIDE DEF list
  <2>2. ASSUME NEW n \in DOMAIN list
        PROVE  HhmmToQuarter(list[n].end) \in Int /\ HhmmToQuarter(list[n].end) <= DayLength
    <3>1. list[n] \in QuarterInterval /\ HhmmToQuarter(list[n].end) < DayLength + 1
      BY <2>1 DEF Before
    <3>2. HhmmToQuarter(list[n].end) \in Int
      BY <3>1 DEF QuarterInterval, QuarterTime, HhmmToQuarter
    <3> QED BY <3>1, <3>2, MidnightIsTheEnd
  <2>3. IntervalsToBits(list) = [q \in 0..DayLength - 1 |-> IF Within(q, list) THEN 1 ELSE 0]
    BY <2>2, BitsOfIntervals
  <2>4. \A q \in 0..DayLength - 1 : bits[q] = IF Within(q, list) THEN 1 ELSE 0
    BY <2>1 DEF DayBits
  <2>5. IntervalsToBits(list) = bits
    BY <2>3, <2>4 DEF DayBits
  <2>6. (\A n \in DOMAIN list : Proper(list[n])) /\ Separate(list)
    BY <2>1 DEF Before, Separate
  <2>7. PutDaily(list) = {bits}
    BY <2>5, <2>6 DEF PutDaily, DayBits
  <2> QED BY <2>6, <2>7 DEF list
<1>2. ASSUME NEW list \in Lists, NEW bits \in PutDaily(list)
      PROVE  bits \in DayBits /\ \A q \in DOMAIN bits : bits[q] = 1 <=> Within(q, list)
  <2>1. bits = IntervalsToBits(list) /\ DOMAIN bits = 0..DayLength - 1
    BY <1>2 DEF PutDaily
  <2>2. bits = [q \in DOMAIN bits |-> IF Within(q, list) THEN 1 ELSE 0]
    BY <2>1 DEF IntervalsToBits
  <2> QED BY <2>1, <2>2 DEF DayBits
<1>3. ASSUME NEW list \in Lists,
             \A n \in DOMAIN list : Proper(list[n]) /\ HhmmToQuarter(list[n].end) <= DayLength
      PROVE  PutDaily(list) # {}
  <2>1. ASSUME NEW n \in DOMAIN list PROVE HhmmToQuarter(list[n].end) \in Int
    <3>1. list[n] \in DayInterval
      BY DEF Lists
    <3> QED BY <3>1, ClockTimeIsANumber DEF DayInterval
  <2>2. DOMAIN IntervalsToBits(list) = 0..DayLength - 1
    BY <1>3, <2>1, BitsOfIntervals
  <2> QED BY <1>3, <2>2 DEF PutDaily
<1> QED BY <1>1, <1>2, <1>3 DEF IntervalsReadBack

\* Every time program of a day, of any length, is read as intervals that a client can
\* send back for the same quarters, and as few of them as can be; and any list of
\* intervals is refused or comes to be exactly the quarters in it (codecs.ts,
\* bitsToIntervals and intervalsToBits).
THEOREM ProgramsReadBack == Spec => []DayProgramsReadBack
<1>1. DayProgramsReadBack
  BY AllReadBack DEF DayProgramsReadBack
<1> QED BY <1>1, PTL

-----------------------------------------------------------------------------
(* SettingsPage: the drafts.                                               *)

Part(V) == UNION {[S -> V] : S \in SUBSET Items}

\* The values group g can hold and be sent, when n edits were made and those in C
\* were made in the calibration editor, whose patches carry shown values along.
Held(C, n, g) == IF g = "calibration" THEN C \cup {0} ELSE 0..n
Patched(C, n, g) == IF g = "calibration" THEN C \cup {0} ELSE (1..n) \ C

SaveIn(V, P, s) ==
    s \in [group : Groups, patch : Part(P), at : {"sent", "ok", "failed"},
           reply : [Items -> V] \cup {NoData}]

\* The type of the page's variables, by where the values come from.
SettingsIn(C, n) ==
    /\ editor \in Groups \cup {"none"}
    /\ DOMAIN groups = Groups /\ DOMAIN device = Groups
    /\ \A g \in Groups : /\ groups[g] \in Entries([Items -> Held(C, n, g)])
                         /\ device[g] \in [Items -> Held(C, n, g)]
    /\ draft \in Part(Patched(C, n, editor))
    /\ \A i \in DOMAIN saves :
          SaveIn(Held(C, n, saves[i].group), Patched(C, n, saves[i].group), saves[i])
    /\ saves = [i \in DOMAIN saves |-> saves[i]]

Counted ==
    /\ edits \in Nat /\ saved \in Nat /\ opened \in 0..saved
    /\ DOMAIN saves \subseteq 1..saved
    /\ cancelled \subseteq 1..edits
    /\ editor = "none" => draft = NoDraft

\* One save of the mounted editor is under way at a time, and what of the draft
\* was not edited since is in it.
SaveHasDraft ==
    editor # "none" =>
        \A i \in DOMAIN saves : i > opened =>
            /\ saves[i].group = editor /\ \A j \in DOMAIN saves : j > opened => j = i
            /\ \A x \in DOMAIN draft \ late : x \in DOMAIN saves[i].patch /\ saves[i].patch[x] = draft[x]

\* The draft of a settings group holds edits that no request of an earlier mount
\* has and that were not cancelled.
DraftIsNew ==
    editor # "calibration" =>
        /\ OwnEdits(draft) \cap cancelled = {}
        /\ \A i \in DOMAIN saves :
              i <= opened => OwnEdits(draft) \cap OwnEdits(saves[i].patch) = {}

SettingsHold == Counted /\ SaveHasDraft /\ DraftIsNew /\ CancelledNeverSent

SettingsInv == SettingsHold /\ \E C \in SUBSET (1..edits) : SettingsIn(C, edits)

-----------------------------------------------------------------------------
LEMMA PartWidens ==
    ASSUME NEW V, NEW W, V \subseteq W, NEW p \in Part(V)
    PROVE  p \in Part(W)
<1>1. PICK S \in SUBSET Items : p \in [S -> V]
  BY DEF Part
<1>2. p \in [S -> W]
  BY <1>1
<1> QED BY <1>2 DEF Part

LEMMA EntryWidens ==
    ASSUME NEW V, NEW W, V \subseteq W, NEW q \in Entries([Items -> V])
    PROVE  q \in Entries([Items -> W])
<1>1. [Items -> V] \subseteq [Items -> W]
  OBVIOUS
<1> QED BY <1>1 DEF Entries

LEMMA SaveWidens ==
    ASSUME NEW V, NEW W, V \subseteq W, NEW P, NEW Q, P \subseteq Q, NEW s, SaveIn(V, P, s)
    PROVE  SaveIn(W, Q, s)
<1>1. [Items -> V] \subseteq [Items -> W]
  OBVIOUS
<1>2. Part(P) \subseteq Part(Q)
  BY PartWidens
<1> QED BY <1>1, <1>2 DEF SaveIn

LEMMA MergeIn ==
    ASSUME NEW V, NEW P, P \subseteq V, NEW d \in [Items -> V], NEW p \in Part(P)
    PROVE  Merge(d, p) \in [Items -> V]
<1>1. PICK S \in SUBSET Items : p \in [S -> P]
  BY DEF Part
<1>2. DOMAIN d \cup DOMAIN p = Items
  BY <1>1
<1> QED BY <1>1, <1>2 DEF Merge

LEMMA MergePart ==
    ASSUME NEW P, NEW d \in Part(P), NEW p \in Part(P)
    PROVE  Merge(d, p) \in Part(P)
<1>1. PICK S \in SUBSET Items : d \in [S -> P]
  BY DEF Part
<1>2. PICK T \in SUBSET Items : p \in [T -> P]
  BY DEF Part
<1>3. Merge(d, p) \in [S \cup T -> P] /\ S \cup T \in SUBSET Items
  BY <1>1, <1>2 DEF Merge
<1> QED BY <1>3 DEF Part

LEMMA PatchedIsHeld ==
    ASSUME NEW C, NEW n, NEW g PROVE Patched(C, n, g) \subseteq Held(C, n, g)
  BY DEF Patched, Held

\* Entries, of any type of data.
LEMMA EntryOps ==
    ASSUME NEW D, NEW q \in Entries(D), NEW d \in D \cup {NoData}
    PROVE  /\ Fetch(q) \in Entries(D) /\ Refetch(q) \in Entries(D)
           /\ Answer(q, d) \in Entries(D) /\ SetData(q, d) \in Entries(D)
           /\ Land(q) \in Entries(D)
           /\ q.data \in D \cup {NoData}
  BY DEF Entries, Fetch, Refetch, Answer, SetData, Land, EntryOf, EmptyEntry

LEMMA MountedOps ==
    ASSUME NEW D, NEW q \in Entries(D), NEW r \in Mounted(q)
    PROVE  r \in Entries(D)
  BY EntryOps DEF Mounted

-----------------------------------------------------------------------------
(* Each action, for the edits C of the calibration editor.                 *)

\* One entry changes.
LEMMA GroupsStep ==
    ASSUME NEW C, NEW n, SettingsIn(C, n), NEW g \in Groups,
           NEW q \in Entries([Items -> Held(C, n, g)]),
           groups' = [groups EXCEPT ![g] = q]
    PROVE  /\ DOMAIN groups' = Groups
           /\ \A h \in Groups : groups'[h] \in Entries([Items -> Held(C, n, h)])
  BY DEF SettingsIn

LEMMA DeviceStep ==
    ASSUME NEW C, NEW n, SettingsIn(C, n), NEW g \in Groups,
           NEW d \in [Items -> Held(C, n, g)],
           device' = [device EXCEPT ![g] = d]
    PROVE  /\ DOMAIN device' = Groups
           /\ \A h \in Groups : device'[h] \in [Items -> Held(C, n, h)]
  BY DEF SettingsIn

LEMMA SendDraftIn ==
    ASSUME NEW C, NEW n, SettingsIn(C, n), Counted, editor \in Groups, SendDraft
    PROVE  /\ DOMAIN saves' = DOMAIN saves \cup {saved + 1}
           /\ saved + 1 \notin DOMAIN saves
           /\ \A i \in DOMAIN saves : saves'[i] = saves[i]
           /\ saves'[saved + 1].group = editor /\ saves'[saved + 1].patch = draft
           /\ \A i \in DOMAIN saves' :
                 SaveIn(Held(C, n, saves'[i].group), Patched(C, n, saves'[i].group), saves'[i])
           /\ saves' = [i \in DOMAIN saves' |-> saves'[i]]
           /\ saved' = saved + 1
<1> DEFINE s == [group |-> editor, patch |-> draft, at |-> "sent", reply |-> NoData]
<1>1. /\ DOMAIN saves' = DOMAIN saves \cup {saved + 1}
      /\ saved + 1 \notin DOMAIN saves
      /\ saved' = saved + 1
  BY DEF SendDraft, Counted
<1>2. /\ \A i \in DOMAIN saves : saves'[i] = saves[i]
      /\ saves'[saved + 1] = s
      /\ saves' = [i \in DOMAIN saves' |-> saves'[i]]
  BY <1>1 DEF SendDraft
<1>3. s.group = editor /\ s.patch = draft
  OBVIOUS
<1>4. SaveIn(Held(C, n, editor), Patched(C, n, editor), s)
  BY DEF SettingsIn, SaveIn
<1> HIDE DEF s
<1>5. ASSUME NEW i \in DOMAIN saves'
      PROVE  SaveIn(Held(C, n, saves'[i].group), Patched(C, n, saves'[i].group), saves'[i])
  <2>1. CASE i = saved + 1
    BY <1>2, <1>3, <1>4, <2>1
  <2>2. CASE i \in DOMAIN saves
    BY <1>2, <2>2 DEF SettingsIn
  <2> QED BY <1>1, <2>1, <2>2
<1> QED BY <1>1, <1>2, <1>3, <1>5

LEMMA EmptyDraft == ASSUME NEW P PROVE NoDraft \in Part(P) /\ OwnEdits(NoDraft) = {}
<1>1. NoDraft \in [{} -> P] /\ {} \in SUBSET Items
  BY DEF NoDraft
<1>2. DOMAIN NoDraft = {}
  BY DEF NoDraft
<1> QED BY <1>1, <1>2 DEF Part, OwnEdits

\* Values of a patch of a settings group are edits of it.
LEMMA OwnAreEdits ==
    ASSUME NEW P, NEW p \in Part(P) PROVE OwnEdits(p) \subseteq P
<1>1. PICK S \in SUBSET Items : p \in [S -> P]
  BY DEF Part
<1> QED BY <1>1 DEF OwnEdits

\* The patch of an edit, and what it does to the draft and the shown values; n is
\* the edit's number.
LEMMA EditPatch ==
    ASSUME NEW C, NEW n, SettingsIn(C, n), IsOpen, NEW x \in Items, NEW v
    PROVE  /\ PatchOf(x, v) \in Part(Patched(C, n, editor) \cup {v})
           /\ editor # "calibration" => PatchOf(x, v) = [y \in {x} |-> v]
<1>1. editor \in Groups /\ Shown \in [Items -> Held(C, n, editor)]
  BY EntryOps DEF SettingsIn, IsOpen, Shown, Entries
<1>2. CASE editor = "calibration"
  <2>1. PatchOf(x, v) = [Shown EXCEPT ![x] = v]
    BY <1>2 DEF PatchOf
  <2>2. Held(C, n, editor) = Patched(C, n, editor)
    BY <1>2 DEF Held, Patched
  <2>3. PatchOf(x, v) \in [Items -> Patched(C, n, editor) \cup {v}]
    BY <1>1, <2>1, <2>2
  <2> QED BY <1>2, <2>3 DEF Part
<1>3. CASE editor # "calibration"
  <2>1. PatchOf(x, v) = [y \in {x} |-> v]
    BY <1>3 DEF PatchOf
  <2>2. PatchOf(x, v) \in [{x} -> Patched(C, n, editor) \cup {v}] /\ {x} \in SUBSET Items
    BY <2>1
  <2> QED BY <2>1, <2>2 DEF Part
<1> QED BY <1>2, <1>3

\* One more edit, made in the calibration editor or in another one.
LEMMA EditsGrow ==
    ASSUME NEW n \in Nat, NEW C \in SUBSET (1..n), NEW D,
           D = IF editor = "calibration" THEN C \cup {n + 1} ELSE C
    PROVE  /\ D \in SUBSET (1..n + 1)
           /\ \A g : Held(C, n, g) \subseteq Held(D, n + 1, g)
           /\ \A g : Patched(C, n, g) \subseteq Patched(D, n + 1, g)
           /\ Patched(C, n, editor) \cup {n + 1} \subseteq Patched(D, n + 1, editor)
  BY DEF Held, Patched

LEMMA EditIn ==
    ASSUME NEW n \in Nat, NEW C \in SUBSET (1..n), edits = n, SettingsIn(C, n),
           NEW x \in Items, Edit(x)
    PROVE  \E D \in SUBSET (1..n + 1) : SettingsIn(D, n + 1)'
<1>0. PICK D : D = IF editor = "calibration" THEN C \cup {n + 1} ELSE C
  OBVIOUS
<1> DEFINE p == PatchOf(x, n + 1)
<1>1. /\ D \in SUBSET (1..n + 1)
      /\ \A g : Held(C, n, g) \subseteq Held(D, n + 1, g)
      /\ \A g : Patched(C, n, g) \subseteq Patched(D, n + 1, g)
      /\ Patched(C, n, editor) \cup {n + 1} \subseteq Patched(D, n + 1, editor)
  BY <1>0, EditsGrow
<1>2. edits' = n + 1 /\ draft' = Merge(draft, p) /\ UNCHANGED <<editor, saves, device>>
      /\ groups' = [groups EXCEPT ![editor] = SetData(@, Merge(Shown, p))]
  BY DEF Edit
<1>3. editor \in Groups /\ Shown \in [Items -> Held(C, n, editor)]
  BY EntryOps DEF SettingsIn, Edit, IsOpen, Shown, Entries
<1>4. p \in Part(Patched(C, n, editor) \cup {n + 1})
  BY EditPatch DEF Edit
<1> HIDE DEF p
<1>5. p \in Part(Patched(D, n + 1, editor))
  BY <1>1, <1>4, PartWidens
<1>6. draft' \in Part(Patched(D, n + 1, editor))
  <2>1. draft \in Part(Patched(D, n + 1, editor))
    BY <1>1, PartWidens DEF SettingsIn
  <2> QED BY <1>2, <1>5, <2>1, MergePart
<1>7. Merge(Shown, p) \in [Items -> Held(D, n + 1, editor)]
  <2>1. Shown \in [Items -> Held(D, n + 1, editor)]
    BY <1>1, <1>3
  <2> QED BY <1>5, <2>1, PatchedIsHeld, MergeIn
<1>8. \A g \in Groups : /\ groups[g] \in Entries([Items -> Held(D, n + 1, g)])
                        /\ device[g] \in [Items -> Held(D, n + 1, g)]
  <2> TAKE g \in Groups
  <2>1. groups[g] \in Entries([Items -> Held(D, n + 1, g)])
    BY <1>1, EntryWidens DEF SettingsIn
  <2>2. device[g] \in [Items -> Held(D, n + 1, g)]
    BY <1>1 DEF SettingsIn
  <2> QED BY <2>1, <2>2
<1>9. \A i \in DOMAIN saves :
          SaveIn(Held(D, n + 1, saves[i].group), Patched(D, n + 1, saves[i].group), saves[i])
  BY <1>1, SaveWidens DEF SettingsIn
<1>10. SettingsIn(D, n + 1)
  <2>1. draft \in Part(Patched(D, n + 1, editor))
    BY <1>1, PartWidens DEF SettingsIn
  <2> QED BY <1>8, <1>9, <2>1 DEF SettingsIn
<1>11. SetData(groups[editor], Merge(Shown, p)) \in Entries([Items -> Held(D, n + 1, editor)])
  BY <1>3, <1>7, <1>8, EntryOps
<1>12. /\ DOMAIN groups' = Groups
       /\ \A g \in Groups : groups'[g] \in Entries([Items -> Held(D, n + 1, g)])
  BY <1>2, <1>3, <1>10, <1>11, GroupsStep
<1>13. SettingsIn(D, n + 1)'
  BY <1>2, <1>6, <1>8, <1>9, <1>12 DEF SettingsIn
<1> QED BY <1>1, <1>13

LEMMA EditHolds ==
    ASSUME SettingsHold, NEW C \in SUBSET (1..edits), SettingsIn(C, edits), NEW x \in Items, Edit(x)
    PROVE  SettingsHold'
<1> DEFINE p == PatchOf(x, edits')
<1>1. /\ edits' = edits + 1 /\ edits \in Nat /\ draft' = Merge(draft, p)
      /\ UNCHANGED <<editor, saves, saved, opened, cancelled>>
      /\ late' = IF Saving THEN late \cup DOMAIN p ELSE late
      /\ editor # "none"
  BY DEF SettingsHold, Counted, Edit, IsOpen
<1>2. editor # "calibration" => p = [y \in {x} |-> edits + 1]
  BY <1>1, EditPatch DEF Edit
<1> HIDE DEF p
<1>3. /\ DOMAIN draft' = DOMAIN draft \cup DOMAIN p
      /\ \A y \in DOMAIN draft' : draft'[y] = IF y \in DOMAIN p THEN p[y] ELSE draft[y]
  BY <1>1 DEF Merge
<1>4. Counted'
  BY <1>1 DEF SettingsHold, Counted
<1>5. SaveHasDraft'
  <2> SUFFICES ASSUME NEW i \in DOMAIN saves, i > opened
               PROVE  /\ saves[i].group = editor /\ \A j \in DOMAIN saves : j > opened => j = i
                      /\ \A y \in DOMAIN draft' \ late' :
                            y \in DOMAIN saves[i].patch /\ saves[i].patch[y] = draft'[y]
    BY <1>1 DEF SaveHasDraft
  <2>1. late' = late \cup DOMAIN p
    BY <1>1 DEF Saving
  <2>2. \A y \in DOMAIN draft' \ late' : y \in DOMAIN draft \ late /\ draft'[y] = draft[y]
    BY <1>3, <2>1
  <2> QED BY <1>1, <2>2 DEF SettingsHold, SaveHasDraft
<1>6. CancelledNeverSent'
  BY <1>1 DEF SettingsHold, CancelledNeverSent
<1>7. DraftIsNew'
  <2> SUFFICES ASSUME editor # "calibration"
               PROVE  /\ OwnEdits(draft') \cap cancelled = {}
                      /\ \A i \in DOMAIN saves :
                            i <= opened => OwnEdits(draft') \cap OwnEdits(saves[i].patch) = {}
    BY <1>1 DEF DraftIsNew
  <2>1. OwnEdits(draft') \subseteq OwnEdits(draft) \cup {edits + 1}
    BY <1>2, <1>3 DEF OwnEdits
  <2>2. edits + 1 \notin cancelled
    BY <1>1 DEF SettingsHold, Counted
  <2>3. ASSUME NEW i \in DOMAIN saves PROVE edits + 1 \notin OwnEdits(saves[i].patch)
    <3>1. saves[i].patch \in Part(Patched(C, edits, saves[i].group))
      BY DEF SettingsIn, SaveIn
    <3>2. edits + 1 \notin Patched(C, edits, saves[i].group)
      BY <1>1 DEF Patched
    <3> QED BY <3>1, <3>2, OwnAreEdits
  <2> QED BY <2>1, <2>2, <2>3 DEF SettingsHold, DraftIsNew
<1> QED BY <1>4, <1>5, <1>6, <1>7 DEF SettingsHold

\* Steps that make no edit.
Quiet(C) == SettingsHold' /\ SettingsIn(C, edits)' /\ UNCHANGED edits

LEMMA SaveStep ==
    ASSUME SettingsHold, NEW C \in SUBSET (1..edits), SettingsIn(C, edits), Save
    PROVE  Quiet(C)
<1>1. /\ SendDraft /\ ~Saving /\ draft # NoDraft
      /\ UNCHANGED <<editor, groups, draft, opened, device, edits, late, cancelled>>
  BY DEF Save
<1>2. editor \in Groups
  BY <1>1 DEF SettingsHold, Counted, SettingsIn
<1>3. /\ DOMAIN saves' = DOMAIN saves \cup {saved + 1}
      /\ saved + 1 \notin DOMAIN saves
      /\ \A i \in DOMAIN saves : saves'[i] = saves[i]
      /\ saves'[saved + 1].group = editor /\ saves'[saved + 1].patch = draft
      /\ \A i \in DOMAIN saves' :
            SaveIn(Held(C, edits, saves'[i].group), Patched(C, edits, saves'[i].group), saves'[i])
      /\ saves' = [i \in DOMAIN saves' |-> saves'[i]]
      /\ saved' = saved + 1
  BY <1>1, <1>2, SendDraftIn DEF SettingsHold
<1>4. SettingsIn(C, edits)'
  BY <1>1, <1>3 DEF SettingsIn
<1>5. Counted'
  BY <1>1, <1>3 DEF SettingsHold, Counted
<1>6. SaveHasDraft'
  BY <1>1, <1>3 DEF SettingsHold, SaveHasDraft, Saving
<1>7. DraftIsNew'
  BY <1>1, <1>3 DEF SettingsHold, Counted, DraftIsNew
<1>8. CancelledNeverSent'
  BY <1>1, <1>3 DEF SettingsHold, CancelledNeverSent, DraftIsNew
<1> QED BY <1>1, <1>4, <1>5, <1>6, <1>7, <1>8 DEF Quiet, SettingsHold

LEMMA CloseStep ==
    ASSUME SettingsHold, NEW C \in SUBSET (1..edits), SettingsIn(C, edits), CloseEditor
    PROVE  Quiet(C)
<1>1. /\ editor # "none" /\ editor' = "none" /\ draft' = NoDraft
      /\ UNCHANGED <<groups, opened, device, edits, cancelled>>
  BY DEF CloseEditor
<1>2. NoDraft \in Part(Patched(C, edits, "none")) /\ OwnEdits(NoDraft) = {}
  BY EmptyDraft
<1>3. SaveHasDraft' /\ DraftIsNew'
  BY <1>1, <1>2 DEF SaveHasDraft, DraftIsNew
<1>4. CASE LeftBehind
  <2>1. /\ DOMAIN saves' = DOMAIN saves \cup {saved + 1}
        /\ saved + 1 \notin DOMAIN saves
        /\ \A i \in DOMAIN saves : saves'[i] = saves[i]
        /\ saves'[saved + 1].group = editor /\ saves'[saved + 1].patch = draft
        /\ \A i \in DOMAIN saves' :
              SaveIn(Held(C, edits, saves'[i].group), Patched(C, edits, saves'[i].group), saves'[i])
        /\ saves' = [i \in DOMAIN saves' |-> saves'[i]]
        /\ saved' = saved + 1
    BY <1>1, <1>4, SendDraftIn DEF CloseEditor, SettingsHold, SettingsIn
  <2>2. SettingsIn(C, edits)'
    BY <1>1, <1>2, <2>1 DEF SettingsIn
  <2>3. Counted'
    BY <1>1, <2>1 DEF SettingsHold, Counted
  <2>4. CancelledNeverSent'
    BY <1>1, <2>1 DEF SettingsHold, CancelledNeverSent, DraftIsNew
  <2> QED BY <1>1, <1>3, <2>2, <2>3, <2>4 DEF Quiet, SettingsHold
<1>5. CASE ~LeftBehind
  <2>1. UNCHANGED <<saves, saved>>
    BY <1>5 DEF CloseEditor
  <2>2. SettingsIn(C, edits)'
    BY <1>1, <1>2, <2>1 DEF SettingsIn
  <2>3. Counted'
    BY <1>1, <2>1 DEF SettingsHold, Counted
  <2>4. CancelledNeverSent'
    BY <1>1, <2>1 DEF SettingsHold, CancelledNeverSent
  <2> QED BY <1>1, <1>3, <2>2, <2>3, <2>4 DEF Quiet, SettingsHold
<1> QED BY <1>4, <1>5

LEMMA OpenStep ==
    ASSUME SettingsHold, NEW C \in SUBSET (1..edits), SettingsIn(C, edits),
           NEW g \in Groups, OpenEditor(g)
    PROVE  Quiet(C)
<1>1. /\ editor = "none" /\ editor' = g /\ opened' = saved
      /\ UNCHANGED <<draft, saves, saved, device, edits, late, cancelled>>
  BY DEF OpenEditor
<1>2. draft = NoDraft
  BY <1>1 DEF SettingsHold, Counted
<1>3. PICK q \in Mounted(groups[g]) : groups' = [groups EXCEPT ![g] = q]
  BY DEF OpenEditor
<1>4. q \in Entries([Items -> Held(C, edits, g)])
  BY MountedOps DEF SettingsIn
<1>5. /\ DOMAIN groups' = Groups
      /\ \A h \in Groups : groups'[h] \in Entries([Items -> Held(C, edits, h)])
  BY <1>3, <1>4, GroupsStep
<1>6. draft \in Part(Patched(C, edits, g)) /\ OwnEdits(draft) = {}
  BY <1>2, EmptyDraft
<1>7. SettingsIn(C, edits)'
  BY <1>1, <1>5, <1>6 DEF SettingsIn
<1>8. Counted' /\ SaveHasDraft' /\ DraftIsNew'
  BY <1>1, <1>2, <1>6 DEF SettingsHold, Counted, SaveHasDraft, DraftIsNew
<1>9. CancelledNeverSent'
  BY <1>1 DEF SettingsHold, CancelledNeverSent
<1> QED BY <1>1, <1>7, <1>8, <1>9 DEF Quiet, SettingsHold

\* What Cancel throws away is in no request of a settings group: the calibration
\* editor's edits never are, and those of another editor are younger than the
\* requests that remain.
LEMMA CancelStep ==
    ASSUME SettingsHold, NEW C \in SUBSET (1..edits), SettingsIn(C, edits), Cancel
    PROVE  Quiet(C)
<1>1. /\ ~Saving /\ draft # NoDraft /\ draft' = NoDraft
      /\ groups' = [groups EXCEPT ![editor] = Refetch(@)]
      /\ cancelled' = cancelled \cup OwnEdits(draft)
      /\ UNCHANGED <<editor, saves, saved, opened, device, edits>>
  BY DEF Cancel
<1>2. editor \in Groups
  BY <1>1 DEF SettingsHold, Counted, SettingsIn
<1>3. Refetch(groups[editor]) \in Entries([Items -> Held(C, edits, editor)])
  BY <1>2, EntryOps DEF SettingsIn
<1>4. /\ DOMAIN groups' = Groups
      /\ \A h \in Groups : groups'[h] \in Entries([Items -> Held(C, edits, h)])
  BY <1>1, <1>2, <1>3, GroupsStep
<1>5. NoDraft \in Part(Patched(C, edits, editor)) /\ OwnEdits(NoDraft) = {} /\ DOMAIN NoDraft = {}
  BY EmptyDraft DEF NoDraft
<1>6. SettingsIn(C, edits)'
  BY <1>1, <1>4, <1>5 DEF SettingsIn
<1>7. OwnEdits(draft) \subseteq Patched(C, edits, editor) \ {0}
  BY OwnAreEdits DEF SettingsIn, OwnEdits
<1>8. Counted'
  BY <1>1, <1>7 DEF SettingsHold, Counted, Patched
<1>9. SaveHasDraft'
  BY <1>1 DEF SaveHasDraft, Saving
<1>10. DraftIsNew'
  BY <1>1, <1>5 DEF DraftIsNew
<1>11. ASSUME NEW i \in DOMAIN saves, saves[i].group # "calibration"
       PROVE  OwnEdits(saves[i].patch) \cap OwnEdits(draft) = {}
  <2>1. CASE editor = "calibration"
    <3>1. OwnEdits(saves[i].patch) \subseteq Patched(C, edits, saves[i].group)
      BY OwnAreEdits DEF SettingsIn, SaveIn
    <3> QED BY <1>7, <1>11, <2>1, <3>1 DEF Patched
  <2>2. CASE editor # "calibration"
    <3>1. i <= opened
      BY <1>1 DEF Saving, SettingsHold, Counted
    <3> QED BY <2>2, <3>1 DEF SettingsHold, DraftIsNew
  <2> QED BY <2>1, <2>2
<1>12. CancelledNeverSent'
  BY <1>1, <1>11 DEF SettingsHold, CancelledNeverSent
<1> QED BY <1>1, <1>6, <1>8, <1>9, <1>10, <1>12 DEF Quiet, SettingsHold

\* A request whose state or reply changes.
LEMMA SaveMoves ==
    ASSUME SettingsHold, NEW C \in SUBSET (1..edits), SettingsIn(C, edits),
           NEW i \in DOMAIN saves, NEW s,
           SaveIn(Held(C, edits, saves[i].group), Patched(C, edits, saves[i].group), s),
           s.group = saves[i].group, s.patch = saves[i].patch,
           saves' = [saves EXCEPT ![i] = s],
           NEW d \in [Items -> Held(C, edits, saves[i].group)],
           device' \in {device, [device EXCEPT ![saves[i].group] = d]},
           UNCHANGED <<editor, groups, draft, saved, opened, edits, late, cancelled>>
    PROVE  Quiet(C)
<1>1. /\ DOMAIN saves' = DOMAIN saves
      /\ \A j \in DOMAIN saves : saves'[j] = IF j = i THEN s ELSE saves[j]
      /\ saves' = [j \in DOMAIN saves' |-> saves'[j]]
  BY DEF SettingsIn
<1>2. \A j \in DOMAIN saves : saves'[j].group = saves[j].group /\ saves'[j].patch = saves[j].patch
  BY <1>1
<1>3. saves[i].group \in Groups
  BY DEF SettingsIn, SaveIn
<1>4. /\ DOMAIN device' = Groups
      /\ \A h \in Groups : device'[h] \in [Items -> Held(C, edits, h)]
  BY <1>3, DeviceStep DEF SettingsIn
<1>5. \A j \in DOMAIN saves' :
          SaveIn(Held(C, edits, saves'[j].group), Patched(C, edits, saves'[j].group), saves'[j])
  BY <1>1 DEF SettingsIn
<1>6. SettingsIn(C, edits)'
  BY <1>1, <1>4, <1>5 DEF SettingsIn
<1>7. Counted' /\ SaveHasDraft' /\ DraftIsNew' /\ CancelledNeverSent'
  BY <1>1, <1>2 DEF SettingsHold, Counted, SaveHasDraft, DraftIsNew, CancelledNeverSent
<1> QED BY <1>6, <1>7 DEF Quiet, SettingsHold

LEMMA ServeStep ==
    ASSUME SettingsHold, NEW C \in SUBSET (1..edits), SettingsIn(C, edits),
           NEW i \in DOMAIN saves, ServeSave(i) \/ FailSave(i)
    PROVE  Quiet(C)
<1> DEFINE g == saves[i].group
           done == Merge(device[g], saves[i].patch)
<1>1. SaveIn(Held(C, edits, g), Patched(C, edits, g), saves[i]) /\ g \in Groups
  BY DEF SettingsIn, SaveIn
<1>2. device[g] \in [Items -> Held(C, edits, g)] /\ saves[i].patch \in Part(Patched(C, edits, g))
  BY <1>1 DEF SettingsIn, SaveIn
<1>3. done \in [Items -> Held(C, edits, g)]
  BY <1>2, PatchedIsHeld, MergeIn
<1>4. UNCHANGED <<editor, groups, draft, saved, opened, edits, late, cancelled>>
  BY DEF ServeSave, FailSave
<1>5. CASE ServeSave(i)
  <2> DEFINE s == [saves[i] EXCEPT !.at = "ok", !.reply = done]
  <2>1. device' = [device EXCEPT ![g] = done] /\ saves' = [saves EXCEPT ![i] = s]
    BY <1>5 DEF ServeSave
  <2> HIDE DEF done
  <2>2. /\ SaveIn(Held(C, edits, g), Patched(C, edits, g), s)
        /\ s.group = saves[i].group /\ s.patch = saves[i].patch
    BY <1>1, <1>3 DEF SaveIn
  <2> HIDE DEF s
  <2> QED BY <1>3, <1>4, <2>1, <2>2, SaveMoves
<1>6. CASE FailSave(i)
  <2> DEFINE s == [saves[i] EXCEPT !.at = "failed"]
  <2>1. saves' = [saves EXCEPT ![i] = s]
    BY <1>6 DEF FailSave
  <2>2. device' = device \/ device' = [device EXCEPT ![g] = done]
    BY <1>6 DEF FailSave
  <2> HIDE DEF done
  <2>3. /\ SaveIn(Held(C, edits, g), Patched(C, edits, g), s)
        /\ s.group = saves[i].group /\ s.patch = saves[i].patch
    BY <1>1 DEF SaveIn
  <2> HIDE DEF s
  <2> QED BY <1>2, <1>3, <1>4, <2>1, <2>2, <2>3, SaveMoves
<1> QED BY <1>5, <1>6

LEMMA SettleStep ==
    ASSUME SettingsHold, NEW C \in SUBSET (1..edits), SettingsIn(C, edits),
           NEW i \in DOMAIN saves, SettleSave(i)
    PROVE  Quiet(C)
<1> DEFINE s == saves[i]
           g == s.group
           q == IF s.at = "ok" THEN SetData(groups[g], s.reply)
                ELSE IF editor = g THEN Refetch(groups[g]) ELSE groups[g]
           mine == editor = g /\ i > opened
<1>1. /\ groups' = [groups EXCEPT ![g] = q]
      /\ draft' = IF mine /\ s.at = "ok" THEN NoDraft ELSE draft
      /\ late' = IF mine THEN {} ELSE late
      /\ saves' = [j \in DOMAIN saves \ {i} |-> saves[j]]
      /\ UNCHANGED <<editor, saved, opened, device, edits, cancelled>>
  BY DEF SettleSave, DraftAfterSave
<1>2. g \in Groups /\ s.reply \in [Items -> Held(C, edits, g)] \cup {NoData}
  BY DEF SettingsIn, SaveIn
<1>3. q \in Entries([Items -> Held(C, edits, g)])
  BY <1>2, EntryOps DEF SettingsIn
<1> HIDE DEF q
<1>4. /\ DOMAIN groups' = Groups
      /\ \A h \in Groups : groups'[h] \in Entries([Items -> Held(C, edits, h)])
  BY <1>1, <1>2, <1>3, GroupsStep
<1>5. NoDraft \in Part(Patched(C, edits, editor)) /\ OwnEdits(NoDraft) = {} /\ DOMAIN NoDraft = {}
  BY EmptyDraft DEF NoDraft
<1>6. /\ DOMAIN saves' \subseteq DOMAIN saves /\ i \notin DOMAIN saves'
      /\ \A j \in DOMAIN saves' : saves'[j] = saves[j]
      /\ saves' = [j \in DOMAIN saves' |-> saves'[j]]
  BY <1>1
<1> HIDE DEF s, g
<1>7. SettingsIn(C, edits)'
  BY <1>1, <1>4, <1>5, <1>6 DEF SettingsIn
<1>8. Counted'
  BY <1>1, <1>5, <1>6 DEF SettingsHold, Counted
<1>9. SaveHasDraft'
  <2> SUFFICES ASSUME editor # "none", NEW j \in DOMAIN saves', j > opened
               PROVE  /\ saves'[j].group = editor
                      /\ \A k \in DOMAIN saves' : k > opened => k = j
                      /\ \A x \in DOMAIN draft' \ late' :
                            x \in DOMAIN saves'[j].patch /\ saves'[j].patch[x] = draft'[x]
    BY <1>1 DEF SaveHasDraft
  <2>1. /\ saves[j].group = editor /\ \A k \in DOMAIN saves : k > opened => k = j
        /\ \A x \in DOMAIN draft \ late : x \in DOMAIN saves[j].patch /\ saves[j].patch[x] = draft[x]
    BY <1>6 DEF SettingsHold, SaveHasDraft
  <2>2. CASE ~mine
    BY <1>1, <1>6, <2>1, <2>2
  <2>3. CASE mine
    BY <1>6, <2>1, <2>3
  <2> QED BY <2>2, <2>3
<1>10. DraftIsNew'
  BY <1>1, <1>5, <1>6 DEF SettingsHold, DraftIsNew
<1>11. CancelledNeverSent'
  BY <1>1, <1>6 DEF SettingsHold, CancelledNeverSent
<1> QED BY <1>1, <1>7, <1>8, <1>9, <1>10, <1>11 DEF Quiet, SettingsHold

LEMMA FetchStep ==
    ASSUME SettingsHold, NEW C \in SUBSET (1..edits), SettingsIn(C, edits),
           NEW g \in Groups, AnswerSettings(g) \/ LandSettings(g)
    PROVE  Quiet(C)
<1>1. UNCHANGED <<editor, draft, saves, saved, opened, device, edits, late, cancelled>>
  BY DEF AnswerSettings, LandSettings
<1>2. groups[g] \in Entries([Items -> Held(C, edits, g)]) /\ device[g] \in [Items -> Held(C, edits, g)]
  BY DEF SettingsIn
<1>3. PICK q \in Entries([Items -> Held(C, edits, g)]) : groups' = [groups EXCEPT ![g] = q]
  BY <1>2, EntryOps DEF AnswerSettings, LandSettings
<1>4. /\ DOMAIN groups' = Groups
      /\ \A h \in Groups : groups'[h] \in Entries([Items -> Held(C, edits, h)])
  BY <1>3, GroupsStep
<1>5. SettingsIn(C, edits)'
  BY <1>1, <1>4 DEF SettingsIn
<1>6. Counted' /\ SaveHasDraft' /\ DraftIsNew' /\ CancelledNeverSent'
  BY <1>1 DEF SettingsHold, Counted, SaveHasDraft, DraftIsNew, CancelledNeverSent
<1> QED BY <1>1, <1>5, <1>6 DEF Quiet, SettingsHold

SettingsNext == SettingsSteps \/ CloseEditor \/ \E g \in Groups : OpenEditor(g)

LEMMA SettingsStep == SettingsInv /\ [SettingsNext]_settingsVars => SettingsInv'
<1> SUFFICES ASSUME SettingsInv, [SettingsNext]_settingsVars PROVE SettingsInv'
  OBVIOUS
<1>0. PICK C \in SUBSET (1..edits) : SettingsIn(C, edits)
  BY DEF SettingsInv
<1> DEFINE n == edits
<1>1. SettingsHold /\ edits \in Nat
  BY DEF SettingsInv, SettingsHold, Counted
<1>2. ASSUME NEW x \in Items, Edit(x) PROVE SettingsInv'
  <2>1. SettingsHold'
    BY <1>0, <1>1, <1>2, EditHolds
  <2>2. PICK m \in Nat : edits = m
    BY <1>1
  <2>3. PICK D \in SUBSET (1..m + 1) : SettingsIn(D, m + 1)'
    BY <1>0, <1>2, <2>2, EditIn
  <2>4. edits' = m + 1
    BY <1>2, <2>2 DEF Edit
  <2> QED BY <2>1, <2>3, <2>4 DEF SettingsInv
<1>3. CASE Quiet(C)
  BY <1>3 DEF Quiet, SettingsInv
<1>4. CASE Save \/ Cancel \/ CloseEditor
  BY <1>0, <1>1, <1>3, <1>4, SaveStep, CancelStep, CloseStep
<1>5. ASSUME NEW i \in DOMAIN saves, ServeSave(i) \/ FailSave(i) \/ SettleSave(i) PROVE SettingsInv'
  BY <1>0, <1>1, <1>3, <1>5, ServeStep, SettleStep
<1>6. ASSUME NEW g \in Groups, AnswerSettings(g) \/ LandSettings(g) \/ OpenEditor(g) PROVE SettingsInv'
  BY <1>0, <1>1, <1>3, <1>6, FetchStep, OpenStep
<1>7. CASE UNCHANGED settingsVars
  <2>1. SettingsHold'
    BY <1>1, <1>7 DEF settingsVars, SettingsHold, Counted, SaveHasDraft, DraftIsNew, CancelledNeverSent
  <2>2. SettingsIn(C, edits)' /\ UNCHANGED edits
    BY <1>0, <1>7 DEF settingsVars, SettingsIn
  <2> QED BY <2>1, <2>2 DEF SettingsInv
<1> QED BY <1>2, <1>4, <1>5, <1>6, <1>7 DEF SettingsNext, SettingsSteps

LEMMA InitSettingsInv == SettingsInit => SettingsInv
<1> SUFFICES ASSUME SettingsInit PROVE SettingsInv
  OBVIOUS
<1>1. SettingsHold
  BY DEF SettingsInit, SettingsHold, Counted, SaveHasDraft, DraftIsNew, CancelledNeverSent, NoDraft,
         OwnEdits
<1>2. SettingsIn({}, edits)
  <2>1. draft \in Part(Patched({}, edits, editor))
    BY EmptyDraft DEF SettingsInit
  <2>2. \A g \in Groups : /\ groups[g] \in Entries([Items -> Held({}, edits, g)])
                          /\ device[g] \in [Items -> Held({}, edits, g)]
    BY DEF SettingsInit, Entries, EmptyEntry, Held
  <2> QED BY <2>1, <2>2 DEF SettingsIn, SettingsInit
<1> QED BY <1>1, <1>2 DEF SettingsInv

\* An edit leaves the draft in a request, with Cancel, for another edit, or late.
LEMMA EditReplaces ==
    ASSUME NEW C \in SUBSET (1..edits), SettingsIn(C, edits), edits \in Nat,
           NEW y \in Items, Edit(y), NEW x \in DOMAIN draft, EditLeaves(x)
    PROVE  Reedited(x) \/ CarriedOver(x)
<1>1. /\ IsOpen /\ edits' = edits + 1 /\ draft' = Merge(draft, PatchOf(y, edits'))
      /\ edits' > edits
  BY DEF Edit
<1>2. x \in DOMAIN draft' /\ draft'[x] # draft[x]
  BY <1>1 DEF Merge, EditLeaves
<1>3. x \in DOMAIN PatchOf(y, edits') /\ draft'[x] = PatchOf(y, edits')[x]
  BY <1>1, <1>2 DEF Merge
<1>4. CASE x = y
  <2>1. Shown \in [Items -> Held(C, edits, editor)]
    BY <1>1, EntryOps DEF SettingsIn, IsOpen, Shown, Entries
  <2>2. PatchOf(y, edits')[y] = edits'
    BY <2>1 DEF PatchOf
  <2> QED BY <1>1, <1>2, <1>3, <1>4, <2>2 DEF Reedited
<1>5. CASE x # y
  <2>1. editor = "calibration" /\ PatchOf(y, edits')[x] = Shown[x]
    BY <1>3, <1>5 DEF PatchOf
  <2> QED BY <1>1, <1>3, <2>1 DEF CarriedOver
<1> QED BY <1>4, <1>5

LEMMA DraftStep ==
    ASSUME SettingsInv, SettingsNext, NEW x \in DOMAIN draft, EditLeaves(x)
    PROVE  \/ IsSent(x)
           \/ draft[x] \in cancelled'
           \/ Reedited(x) \/ CarriedOver(x)
           \/ x \in late /\ editor' = editor
<1>0. PICK C \in SUBSET (1..edits) : SettingsIn(C, edits)
  BY DEF SettingsInv
<1>1. SettingsHold /\ edits \in Nat
  BY DEF SettingsInv, SettingsHold, Counted
<1>2. CASE Cancel
  BY <1>2 DEF Cancel, OwnEdits, EditLeaves
<1>3. CASE CloseEditor
  <2>1. draft # NoDraft /\ editor \in Groups
    BY <1>0, <1>3 DEF CloseEditor, NoDraft, SettingsIn
  <2>2. SendDraft
    BY <1>3, <2>1 DEF CloseEditor, LeftBehind
  <2>3. /\ saved + 1 \in DOMAIN saves'
        /\ saves'[saved + 1].group = editor /\ saves'[saved + 1].patch = draft
    BY <1>0, <1>1, <2>1, <2>2, SendDraftIn DEF SettingsHold
  <2> QED BY <2>3 DEF IsSent
<1>4. ASSUME NEW i \in DOMAIN saves, SettleSave(i)
      PROVE  IsSent(x) \/ (x \in late /\ editor' = editor)
  <2>1. draft' # draft /\ editor' = editor /\ editor = saves[i].group /\ i > opened
    BY <1>4 DEF SettleSave, EditLeaves
  <2>2. editor # "none"
    BY <1>1, <2>1 DEF SettingsHold, Counted, NoDraft
  <2>3. x \in DOMAIN draft \ late => x \in DOMAIN saves[i].patch /\ saves[i].patch[x] = draft[x]
    BY <1>1, <2>1, <2>2 DEF SettingsHold, SaveHasDraft
  <2> QED BY <2>1, <2>3 DEF IsSent
<1>5. ASSUME NEW y \in Items, Edit(y) PROVE Reedited(x) \/ CarriedOver(x)
  BY <1>0, <1>1, <1>5, EditReplaces
<1>6. ~Save /\ \A i : ~ServeSave(i) /\ ~FailSave(i)
  BY DEF Save, ServeSave, FailSave, EditLeaves
<1>7. \A g : ~AnswerSettings(g) /\ ~LandSettings(g) /\ ~OpenEditor(g)
  BY DEF AnswerSettings, LandSettings, OpenEditor, EditLeaves
<1> QED BY <1>2, <1>3, <1>4, <1>5, <1>6, <1>7 DEF SettingsNext, SettingsSteps

LEMMA StepOfSettings == [Next]_editorVars => [SettingsNext]_settingsVars
  BY DEF Next, editorVars, SettingsNext, settingsVars

LEMMA AlwaysSettingsInv == Spec => []SettingsInv
<1>1. Init => SettingsInv
  BY InitSettingsInv DEF Init
<1>2. SettingsInv /\ [Next]_editorVars => SettingsInv'
  BY SettingsStep, StepOfSettings
<1> QED BY <1>1, <1>2, PTL DEF Spec

\* Cancel is final for the settings groups: no request of theirs ever carries what was
\* thrown away, in any mount (Installer.tsx).  Of the calibration this is not so.
THEOREM CancelIsFinal == Spec => []CancelledNeverSent
<1>1. SettingsInv => CancelledNeverSent
  BY DEF SettingsInv, SettingsHold
<1> QED BY <1>1, AlwaysSettingsInv, PTL

\* An edit leaves the draft only in a request, through Cancel or for a newer edit of
\* the same item, but for the two ways the property names: with the save it came too
\* late for, and for the value a calibration edit carries along (Installer.tsx).
THEOREM DraftsAreSent == Spec => DraftOnlyLeavesSent
<1> DEFINE Leaves == \A x \in DOMAIN draft : EditLeaves(x) =>
                        \/ IsSent(x)
                        \/ draft[x] \in cancelled'
                        \/ Reedited(x) \/ CarriedOver(x)
                        \/ x \in late /\ editor' = editor
<1>1. SettingsInv /\ [SettingsNext]_settingsVars => [Leaves]_settingsVars
  BY DraftStep
<1>2. SettingsInv /\ [Next]_editorVars => [Leaves]_settingsVars
  BY <1>1, StepOfSettings
<1> QED BY <1>2, AlwaysSettingsInv, PTL DEF Spec, DraftOnlyLeavesSent

-----------------------------------------------------------------------------
(* ProgramsPage: the clicks and the gestures.                              *)

Kinds == {"daily", "weekly"}

\* The cells of a program on the page, and in the form of the controller.
Cells(k) == IF k = "weekly" THEN [Days -> 1..NDaily] ELSE [Quarters -> {0, 1}]
Form(k) == IF k = "weekly" THEN [Days -> 0..(NDaily - 1)] ELSE [Quarters -> {0, 1}]

ProgsIn(entries) == DOMAIN entries = Programs /\ \A p \in Programs : entries[p] \in Entries(Cells(p[1]))

CallIn(c) ==
    /\ c \in [prog : Programs, content : Cells("daily") \cup Cells("weekly"), of : Nat,
              stray : BOOLEAN, at : {"sent", "put", "ok", "failed"},
              reply : Cells("daily") \cup Cells("weekly") \cup {NoData}]
    /\ c.content \in Cells(c.prog[1]) /\ c.reply \in Cells(c.prog[1]) \cup {NoData}
    /\ c.of = c.prog[2] \/ c.stray

CallsIn ==
    /\ called \in Nat /\ DOMAIN calls \subseteq 1..called
    /\ \A i \in DOMAIN calls : CallIn(calls[i])
    /\ calls = [i \in DOMAIN calls |-> calls[i]]

ControllerIn ==
    DOMAIN controller = Programs /\ \A p \in Programs : controller[p] \in Form(p[1])

SelectionIn ==
    /\ tab \in {"none", "daily", "weekly"}
    /\ selected \in [Kinds -> Nat] /\ basedOn \in [Kinds -> Nat]
    /\ selected["daily"] \in DailyIds /\ selected["weekly"] \in WeeklyIds

\* What is not sent is of the rendering that is shown, on a page that is there.
WeeklyIn ==
    /\ shown # NoData => shown \in [id : WeeklyIds, days : Cells("weekly")]
    /\ pendingDays = NoData => unsent = Unmoved /\ from = NoData
    /\ pendingDays # NoData =>
          /\ tab # "none" /\ shown # NoData /\ basedOn["weekly"] = shown.id
          /\ pendingDays \in Cells("weekly") /\ from \in Cells("weekly")
          /\ unsent \in [Days -> 0..(NDaily - 1)]
          /\ \A x \in Days : pendingDays[x] = Wrapped(from[x], unsent[x])

\* What a gesture painted stays only if it is astray.
DailyIn ==
    /\ local \in Cells("daily") \cup {NoData} /\ paint \in {0, 1, NoData}
    /\ astray \in BOOLEAN
    /\ paint # NoData => local # NoData
    /\ local # NoData /\ ~astray => paint # NoData /\ basedOn["daily"] = selected["daily"]

ProgramsInv == ProgsIn(progs) /\ CallsIn /\ ControllerIn /\ SelectionIn /\ WeeklyIn /\ DailyIn

-----------------------------------------------------------------------------
(* Operators.                                                              *)

LEMMA NoDataIsNone ==
    /\ NoData \notin Cells("daily") /\ NoData \notin Cells("weekly")
    /\ NoData # 0 /\ NoData # 1
BY ProgramsPageAssumption DEF Cells

LEMMA FirstSelected ==
    First \in [Kinds -> Nat] /\ First["daily"] \in DailyIds /\ First["weekly"] \in WeeklyIds
BY ProgramsPageAssumption DEF First, Kinds

\* A click after others: the way around the ends is one way.
LEMMA WrappedTwice ==
    ASSUME NEW v \in 1..NDaily, NEW u \in 0..(NDaily - 1), NEW d \in {1, -1}
    PROVE  /\ Wrapped(Wrapped(v, u), d) = Wrapped(v, (u + d + NDaily) % NDaily)
           /\ Wrapped(v, u) \in 1..NDaily
           /\ (u + d + NDaily) % NDaily \in 0..(NDaily - 1)
BY ProgramsPageAssumption DEF Wrapped

LEMMA WrappedOnce ==
    ASSUME NEW v \in 1..NDaily PROVE Wrapped(v, 0) = v
BY ProgramsPageAssumption DEF Wrapped

LEMMA RenderingIn ==
    ASSUME NEW entries, ProgsIn(entries), NEW id \in WeeklyIds,
           Rendering(id, entries) # NoData
    PROVE  Rendering(id, entries) \in [id : WeeklyIds, days : Cells("weekly")]
<1>1. entries[<<"weekly", id>>] \in Entries(Cells("weekly"))
  BY DEF ProgsIn, Programs
<1>2. entries[<<"weekly", id>>].data \in Cells("weekly") \cup {NoData}
  BY <1>1, EntryOps
<1> QED BY <1>2 DEF Rendering

LEMMA ParsedIn ==
    ASSUME NEW p \in Programs, NEW w \in Form(p[1]) PROVE Parsed(p, w) \in Cells(p[1])
<1>1. p[1] \in Kinds /\ NDaily \in Nat
  BY ProgramsPageAssumption DEF Programs, Kinds
<1> QED BY <1>1 DEF Parsed, Form, Cells, CellsOf, Kinds

LEMMA WireIn ==
    ASSUME NEW p \in Programs, NEW c \in Cells(p[1]) PROVE Wire(p, c) \in Form(p[1])
<1>1. p[1] \in Kinds /\ NDaily \in Nat
  BY ProgramsPageAssumption DEF Programs, Kinds
<1> QED BY <1>1 DEF Wire, Form, Cells, CellsOf, Kinds

LEMMA ProgsStep ==
    ASSUME ProgsIn(progs), NEW p, NEW q, p \in Programs => q \in Entries(Cells(p[1])),
           progs' = [progs EXCEPT ![p] = q]
    PROVE  ProgsIn(progs')
BY DEF ProgsIn

\* A request is of the program its content was made for.
LEMMA SendIn ==
    ASSUME CallsIn, SelectionIn, astray \in BOOLEAN,
           NEW p \in Programs, NEW c \in Cells(p[1]), Send(p, c),
           basedOn[p[1]] = p[2] \/ (p[1] = "daily" /\ astray)
    PROVE  CallsIn'
<1> DEFINE s == [prog |-> p, content |-> c, of |-> basedOn[p[1]],
                 stray |-> p[1] = "daily" /\ astray, at |-> "sent", reply |-> NoData]
<1>1. p[1] \in Kinds
  BY DEF Programs, Kinds
<1>2. CallIn(s)
  <2>1. s.of \in Nat /\ s.stray \in BOOLEAN
    BY <1>1 DEF SelectionIn
  <2>2. c \in Cells("daily") \cup Cells("weekly")
    BY <1>1 DEF Kinds
  <2>3. s.of = s.prog[2] \/ s.stray
    OBVIOUS
  <2> QED BY <2>1, <2>2, <2>3 DEF CallIn
<1>3. /\ called' = called + 1
      /\ calls' = [i \in DOMAIN calls \cup {called'} |-> IF i \in DOMAIN calls THEN calls[i] ELSE s]
  BY DEF Send
<1> HIDE DEF s
<1> QED BY <1>2, <1>3 DEF CallsIn

\* flushWeekly() sends what is pending to the program it was made for, and nothing
\* is pending afterwards.
LEMMA FlushIn ==
    ASSUME ProgramsInv, FlushWeekly
    PROVE  CallsIn' /\ pendingDays' = NoData /\ unsent' = Unmoved /\ from' = NoData
<1>1. CASE pendingDays = NoData
  BY <1>1 DEF FlushWeekly, ProgramsInv, WeeklyIn, CallsIn
<1>2. CASE pendingDays # NoData
  <2>1. /\ shown # NoData /\ basedOn["weekly"] = shown.id /\ pendingDays \in Cells("weekly")
        /\ shown.id \in WeeklyIds
    BY <1>2 DEF ProgramsInv, WeeklyIn
  <2> DEFINE p == <<"weekly", shown.id>>
  <2>2. Send(p, pendingDays) /\ pendingDays' = NoData /\ unsent' = Unmoved /\ from' = NoData
    BY <1>2, <2>1 DEF FlushWeekly, FlushTarget
  <2>3. p \in Programs /\ p[1] = "weekly" /\ p[2] = shown.id
    BY <2>1 DEF Programs
  <2> HIDE DEF p
  <2>4. CallsIn'
    BY <2>1, <2>2, <2>3, SendIn DEF ProgramsInv, DailyIn
  <2> QED BY <2>2, <2>4
<1> QED BY <1>1, <1>2

-----------------------------------------------------------------------------
(* Each action.                                                            *)

\* The clicks and the gesture are not touched.
SameSelection == UNCHANGED <<tab, selected, basedOn>>
SameWeekly == UNCHANGED <<tab, shown, pendingDays, from, unsent>> /\ basedOn'["weekly"] = basedOn["weekly"]
SameDaily == UNCHANGED <<local, paint, astray, selected, basedOn>>

LEMMA Kept ==
    ASSUME ProgramsInv
    PROVE  /\ UNCHANGED progs => ProgsIn(progs')
           /\ UNCHANGED <<calls, called>> => CallsIn'
           /\ UNCHANGED controller => ControllerIn'
           /\ SameSelection => SelectionIn'
           /\ SameWeekly => WeeklyIn'
           /\ SameDaily => DailyIn'
<1>1. UNCHANGED progs => ProgsIn(progs')
  BY DEF ProgramsInv, ProgsIn
<1>2. UNCHANGED <<calls, called>> => CallsIn'
  BY DEF ProgramsInv, CallsIn
<1>3. UNCHANGED controller => ControllerIn'
  BY DEF ProgramsInv, ControllerIn
<1>4. SameSelection => SelectionIn'
  BY DEF ProgramsInv, SelectionIn, SameSelection
<1>5. SameWeekly => WeeklyIn'
  BY DEF ProgramsInv, WeeklyIn, SameWeekly
<1>6. SameDaily => DailyIn'
  BY DEF ProgramsInv, DailyIn, SameDaily
<1> QED BY <1>1, <1>2, <1>3, <1>4, <1>5, <1>6

\* One click more, after others or the first.
LEMMA ClickIn ==
    ASSUME ProgramsInv, NEW x \in Days, NEW d \in {1, -1}, AdjustDay(x, d)
    PROVE  WeeklyIn' /\ pendingDays' \in Cells("weekly")
<1>1. /\ shown \in [id : WeeklyIds, days : Cells("weekly")] /\ shown # NoData /\ tab = "weekly"
      /\ UNCHANGED <<shown, tab>>
  BY DEF AdjustDay, ProgramsInv, WeeklyIn
<1>2. /\ pendingDays' = [Base EXCEPT ![x] = Wrapped(@, d)]
      /\ unsent' = [unsent EXCEPT ![x] = (@ + d + NDaily) % NDaily]
      /\ from' = IF from = NoData THEN shown.days ELSE from
      /\ basedOn' = IF pendingDays = NoData THEN [basedOn EXCEPT !["weekly"] = shown.id] ELSE basedOn
  BY DEF AdjustDay
<1>3. PICK b, f, u : /\ b \in [Days -> 1..NDaily] /\ f \in [Days -> 1..NDaily]
                     /\ u \in [Days -> 0..(NDaily - 1)]
                     /\ \A y \in Days : b[y] = Wrapped(f[y], u[y])
                     /\ b = Base /\ unsent = u /\ from' = f
  <2>1. CASE pendingDays = NoData
    <3>1. /\ Base = shown.days /\ unsent = Unmoved /\ from' = shown.days
          /\ shown.days \in [Days -> 1..NDaily]
      BY <1>1, <1>2, <2>1 DEF Base, ProgramsInv, WeeklyIn, Cells
    <3>2. Unmoved \in [Days -> 0..(NDaily - 1)] /\ \A y \in Days : Unmoved[y] = 0
      BY ProgramsPageAssumption DEF Unmoved
    <3>3. \A y \in Days : shown.days[y] = Wrapped(shown.days[y], Unmoved[y])
      BY <3>1, <3>2, WrappedOnce
    <3> QED BY <3>1, <3>2, <3>3
  <2>2. CASE pendingDays # NoData
    <3>1. /\ Base = pendingDays /\ from \in Cells("weekly") /\ pendingDays \in Cells("weekly")
          /\ unsent \in [Days -> 0..(NDaily - 1)]
          /\ \A y \in Days : pendingDays[y] = Wrapped(from[y], unsent[y])
      BY <2>2 DEF Base, ProgramsInv, WeeklyIn
    <3>2. from' = from
      BY <1>2, <3>1, NoDataIsNone
    <3> QED BY <3>1, <3>2 DEF Cells
  <2> QED BY <2>1, <2>2
<1> DEFINE a == Wrapped(b[x], d)
           v == (u[x] + d + NDaily) % NDaily
<1>4. a \in 1..NDaily /\ v \in 0..(NDaily - 1) /\ a = Wrapped(f[x], v)
  <2>1. b[x] = Wrapped(f[x], u[x]) /\ f[x] \in 1..NDaily /\ u[x] \in 0..(NDaily - 1)
    BY <1>3
  <2>2. a = Wrapped(f[x], v) /\ v \in 0..(NDaily - 1)
    BY <2>1, WrappedTwice
  <2> HIDE DEF v
  <2> QED BY <2>1, <2>2, WrappedTwice
<1>5. pendingDays' = [b EXCEPT ![x] = a] /\ unsent' = [u EXCEPT ![x] = v]
  BY <1>2, <1>3
<1> HIDE DEF a, v
<1>6. /\ pendingDays' \in Cells("weekly") /\ from' \in Cells("weekly")
      /\ unsent' \in [Days -> 0..(NDaily - 1)]
      /\ \A y \in Days : pendingDays'[y] = Wrapped(from'[y], unsent'[y])
  BY <1>3, <1>4, <1>5 DEF Cells
<1>7. basedOn'["weekly"] = shown.id
  <2>1. basedOn \in [Kinds -> Nat] /\ "weekly" \in Kinds
    BY DEF ProgramsInv, SelectionIn, Kinds
  <2> QED BY <1>2, <2>1 DEF ProgramsInv, WeeklyIn
<1>8. pendingDays' # NoData
  BY <1>6, NoDataIsNone
<1> QED BY <1>1, <1>6, <1>7, <1>8 DEF WeeklyIn

LEMMA AdjustStep ==
    ASSUME ProgramsInv, NEW x \in Days, NEW d \in {1, -1}, AdjustDay(x, d)
    PROVE  ProgramsInv'
<1>1. WeeklyIn' /\ pendingDays' \in Cells("weekly")
  BY ClickIn
<1>2. shown \in [id : WeeklyIds, days : Cells("weekly")]
  BY DEF AdjustDay, ProgramsInv, WeeklyIn
<1> DEFINE p == <<"weekly", shown.id>>
<1>3. p \in Programs /\ p[1] = "weekly" /\ progs' = [progs EXCEPT ![p] = SetData(@, pendingDays')]
  BY <1>2 DEF AdjustDay, Programs
<1> HIDE DEF p
<1>4. progs[p] \in Entries(Cells("weekly"))
  BY <1>3 DEF ProgramsInv, ProgsIn
<1>5. SetData(progs[p], pendingDays') \in Entries(Cells("weekly"))
  BY <1>1, <1>4, EntryOps
<1>6. ProgsIn(progs')
  BY <1>3, <1>5, ProgsStep DEF ProgramsInv, ProgsIn
<1>7. /\ UNCHANGED <<tab, selected, local, paint, calls, called, controller, astray>>
      /\ basedOn' = IF pendingDays = NoData THEN [basedOn EXCEPT !["weekly"] = shown.id] ELSE basedOn
  BY DEF AdjustDay
<1>8. SelectionIn' /\ basedOn'["daily"] = basedOn["daily"]
  <2>1. shown.id \in Nat
    BY <1>2, ProgramsPageAssumption
  <2> QED BY <1>7, <2>1 DEF ProgramsInv, SelectionIn, Kinds
<1>9. DailyIn'
  BY <1>7, <1>8 DEF ProgramsInv, DailyIn
<1>10. CallsIn' /\ ControllerIn'
  BY <1>7, Kept
<1> QED BY <1>1, <1>6, <1>8, <1>9, <1>10 DEF ProgramsInv

\* Where the last rendering's edits are sent, nothing of the weekly editor stays.
LEMMA FlushedIn ==
    ASSUME ProgramsInv, FlushWeekly,
           shown' # NoData => shown' \in [id : WeeklyIds, days : Cells("weekly")]
    PROVE  CallsIn' /\ WeeklyIn'
BY FlushIn DEF WeeklyIn

LEMMA RenderStep ==
    ASSUME ProgramsInv, WeeklyDue \/ Render
    PROVE  ProgramsInv'
<1>1. FlushWeekly /\ UNCHANGED <<tab, selected, progs, controller, local, paint, basedOn, astray>>
  BY DEF WeeklyDue, Render, Editing
<1>2. shown' = shown \/ shown' = Rendering(selected["weekly"], progs)
  BY DEF WeeklyDue, Render
<1>3. selected["weekly"] \in WeeklyIds
  BY DEF ProgramsInv, SelectionIn, Kinds
<1>4. shown' # NoData => shown' \in [id : WeeklyIds, days : Cells("weekly")]
  BY <1>2, <1>3, RenderingIn DEF ProgramsInv, WeeklyIn
<1>5. CallsIn' /\ WeeklyIn'
  BY <1>1, <1>4, FlushedIn
<1>6. ProgsIn(progs') /\ ControllerIn' /\ SelectionIn' /\ DailyIn'
  BY <1>1, Kept DEF SameSelection, SameDaily
<1> QED BY <1>5, <1>6 DEF ProgramsInv

LEMMA PaintStep ==
    ASSUME ProgramsInv, NEW x \in Quarters, PointerDown(x) \/ PointerEnter(x)
    PROVE  ProgramsInv'
<1>1. UNCHANGED <<tab, selected, progs, shown, pendingDays, from, unsent, controller, calls, called, astray>>
  BY DEF PointerDown, PointerEnter, OnlyTheGesture
<1> DEFINE c == IF local # NoData THEN local ELSE Cached("daily")
<1>2. c \in [Quarters -> {0, 1}]
  <2>1. Selected("daily") \in Programs /\ Selected("daily")[1] = "daily"
    BY DEF ProgramsInv, SelectionIn, Kinds, Programs, Selected
  <2>2. Cached("daily") \in Cells("daily") \cup {NoData}
    BY <2>1, EntryOps DEF ProgramsInv, ProgsIn, Cached
  <2>3. Cached("daily") # NoData
    BY DEF PointerDown, PointerEnter, TimelineUsable
  <2> QED BY <2>2, <2>3 DEF Cells, ProgramsInv, DailyIn
<1>3. PICK v \in {0, 1} : PaintCell(x, v) /\ paint' = v
  <2>1. CASE PointerDown(x)
    <3>1. PaintCell(x, paint') /\ paint' = 1 - c[x]
      BY <2>1 DEF PointerDown
    <3>2. c[x] \in {0, 1}
      BY <1>2
    <3> HIDE DEF c
    <3>3. 1 - c[x] \in {0, 1}
      BY <3>2
    <3> QED BY <3>1, <3>3
  <2>2. CASE PointerEnter(x)
    BY <2>2 DEF PointerEnter, ProgramsInv, DailyIn
  <2> QED BY <2>1, <2>2
<1>4. /\ local' = [c EXCEPT ![x] = v]
      /\ basedOn' = IF local = NoData THEN [basedOn EXCEPT !["daily"] = selected["daily"]] ELSE basedOn
  BY <1>3 DEF PaintCell
<1>5. local' \in Cells("daily")
  BY <1>2, <1>4 DEF Cells
<1>6. local' # NoData /\ paint' # NoData /\ paint' \in {0, 1}
  BY <1>3, <1>5, NoDataIsNone
<1>7. selected["daily"] \in Nat /\ basedOn \in [Kinds -> Nat]
  BY ProgramsPageAssumption DEF ProgramsInv, SelectionIn, Kinds
<1>8. SelectionIn' /\ basedOn'["weekly"] = basedOn["weekly"]
  BY <1>1, <1>4, <1>7 DEF ProgramsInv, SelectionIn, Kinds
<1>9. basedOn'["daily"] = selected'["daily"] \/ astray'
  <2>1. CASE local = NoData
    BY <1>1, <1>4, <1>7, <2>1 DEF Kinds
  <2>2. CASE local # NoData
    BY <1>1, <1>4, <2>2 DEF ProgramsInv, DailyIn
  <2> QED BY <2>1, <2>2
<1>10. DailyIn'
  BY <1>1, <1>5, <1>6, <1>9 DEF ProgramsInv, DailyIn
<1>11. ProgsIn(progs') /\ CallsIn' /\ ControllerIn' /\ WeeklyIn'
  BY <1>1, <1>8, Kept DEF SameWeekly
<1> QED BY <1>8, <1>10, <1>11 DEF ProgramsInv

LEMMA GestureStep ==
    ASSUME ProgramsInv, PointerUp \/ PointerLeave
    PROVE  ProgramsInv'
<1>1. /\ UNCHANGED <<tab, selected, progs, shown, pendingDays, from, unsent, controller, basedOn>>
      /\ paint # NoData
  BY DEF PointerUp, PointerLeave, OnlyTheGesture
<1>2. ProgsIn(progs') /\ ControllerIn' /\ SelectionIn' /\ WeeklyIn'
  BY <1>1, Kept DEF SameSelection, SameWeekly
<1>3. CASE PointerUp
  <2>1. Send(Selected("daily"), local) /\ local' = NoData /\ paint' = NoData /\ astray' = FALSE
    BY <1>3 DEF PointerUp, GestureGone
  <2>2. DailyIn'
    BY <2>1 DEF DailyIn
  <2>3. /\ Selected("daily") \in Programs /\ Selected("daily")[1] = "daily"
        /\ Selected("daily")[2] = selected["daily"]
    BY DEF ProgramsInv, SelectionIn, Kinds, Programs, Selected
  <2>4. local \in Cells("daily") /\ (basedOn["daily"] = selected["daily"] \/ astray) /\ astray \in BOOLEAN
    BY <1>1 DEF ProgramsInv, DailyIn
  <2>5. CallsIn'
    <3> DEFINE p == Selected("daily")
    <3> HIDE DEF p
    <3>1. Send(p, local) /\ p \in Programs /\ p[1] = "daily" /\ p[2] = selected["daily"]
      BY <2>1, <2>3 DEF p
    <3> QED BY <2>4, <3>1, SendIn DEF ProgramsInv
  <2> QED BY <1>2, <2>2, <2>5 DEF ProgramsInv
<1>4. CASE PointerLeave
  <2>1. paint' = NoData /\ astray' = TRUE /\ UNCHANGED <<local, calls, called>>
    BY <1>4 DEF PointerLeave
  <2>2. DailyIn'
    BY <2>1 DEF ProgramsInv, DailyIn
  <2> QED BY <1>2, <2>1, <2>2, Kept DEF ProgramsInv
<1> QED BY <1>3, <1>4

LEMMA MountProgram ==
    ASSUME ProgramsInv, NEW p \in Programs, NEW q \in Mounted(progs[p])
    PROVE  q \in Entries(Cells(p[1]))
BY MountedOps DEF ProgramsInv, ProgsIn

LEMMA SelectDailyStep ==
    ASSUME ProgramsInv, NEW id \in DailyIds, SelectDaily(id)
    PROVE  ProgramsInv'
<1> DEFINE p == <<"daily", id>>
<1>1. /\ FlushWeekly /\ paint = NoData
      /\ shown' = Rendering(selected["weekly"], progs)
      /\ \E q \in Mounted(progs[p]) : progs' = [progs EXCEPT ![p] = q]
      /\ selected' = [selected EXCEPT !["daily"] = id]
      /\ UNCHANGED <<tab, controller, basedOn>>
  BY DEF SelectDaily
<1>2. p \in Programs
  BY DEF Programs
<1> HIDE DEF p
<1>3. ProgsIn(progs')
  BY <1>1, <1>2, MountProgram, ProgsStep DEF ProgramsInv
<1>4. selected["weekly"] \in WeeklyIds
  BY DEF ProgramsInv, SelectionIn, Kinds
<1>5. CallsIn' /\ WeeklyIn'
  BY <1>1, <1>4, RenderingIn, FlushedIn DEF ProgramsInv
<1>6. SelectionIn' /\ ControllerIn'
  BY <1>1, ProgramsPageAssumption, Kept DEF ProgramsInv, SelectionIn, Kinds
<1>7. DailyIn'
  <2>1. \/ local' = NoData /\ paint' = NoData /\ astray' = FALSE
        \/ UNCHANGED <<local, paint, astray>>
    BY DEF SelectDaily, GestureGone
  <2>2. local = NoData \/ astray
    BY <1>1 DEF ProgramsInv, DailyIn
  <2> QED BY <1>1, <2>1, <2>2 DEF ProgramsInv, DailyIn
<1> QED BY <1>3, <1>5, <1>6, <1>7 DEF ProgramsInv

LEMMA SelectWeeklyStep ==
    ASSUME ProgramsInv, NEW id \in WeeklyIds, SelectWeekly(id)
    PROVE  ProgramsInv'
<1> DEFINE p == <<"weekly", id>>
<1>1. /\ FlushWeekly
      /\ shown' = Rendering(id, progs')
      /\ \E q \in Mounted(progs[p]) : progs' = [progs EXCEPT ![p] = q]
      /\ selected' = [selected EXCEPT !["weekly"] = id]
      /\ UNCHANGED <<tab, controller, local, paint, basedOn, astray>>
  BY DEF SelectWeekly, Editing
<1>2. p \in Programs
  BY DEF Programs
<1> HIDE DEF p
<1>3. ProgsIn(progs')
  BY <1>1, <1>2, MountProgram, ProgsStep DEF ProgramsInv
<1>4. PICK entries : entries = progs'
  OBVIOUS
<1>5. shown' # NoData => shown' \in [id : WeeklyIds, days : Cells("weekly")]
  BY <1>1, <1>3, <1>4, RenderingIn
<1>6. CallsIn' /\ WeeklyIn'
  BY <1>1, <1>5, FlushedIn
<1>7. selected'["daily"] = selected["daily"] /\ SelectionIn' /\ ControllerIn'
  BY <1>1, ProgramsPageAssumption, Kept DEF ProgramsInv, SelectionIn, Kinds
<1>8. DailyIn'
  BY <1>1, <1>7 DEF ProgramsInv, DailyIn
<1> QED BY <1>3, <1>6, <1>7, <1>8 DEF ProgramsInv

LEMMA TabStep ==
    ASSUME ProgramsInv, SetTab("daily") \/ SetTab("weekly") \/ LeavePrograms
    PROVE  ProgramsInv'
<1>1. /\ FlushWeekly /\ GestureGone
      /\ shown' = Rendering(selected["weekly"], progs) \/ shown' = NoData
      /\ selected' = selected \/ selected' = First
      /\ tab' \in {"none", "daily", "weekly"}
      /\ UNCHANGED <<progs, controller, basedOn>>
  BY DEF SetTab, LeavePrograms
<1>2. selected["weekly"] \in WeeklyIds
  BY DEF ProgramsInv, SelectionIn, Kinds
<1>3. CallsIn' /\ WeeklyIn'
  BY <1>1, <1>2, RenderingIn, FlushedIn DEF ProgramsInv
<1>4. SelectionIn' /\ ProgsIn(progs') /\ ControllerIn'
  BY <1>1, FirstSelected, Kept DEF ProgramsInv, SelectionIn
<1>5. DailyIn'
  BY <1>1 DEF GestureGone, DailyIn
<1> QED BY <1>3, <1>4, <1>5 DEF ProgramsInv

LEMMA EnterStep ==
    ASSUME ProgramsInv, EnterPrograms
    PROVE  ProgramsInv'
<1>1. /\ tab = "none" /\ tab' = "daily"
      /\ shown' = Rendering(selected["weekly"], progs)
      /\ UNCHANGED <<selected, pendingDays, calls, called, controller, from, unsent, local, paint,
                     basedOn, astray>>
  BY DEF EnterPrograms, Editing
<1> DEFINE d == Selected("daily")
           w == Selected("weekly")
<1>2. PICK q \in Mounted(progs[d]), r \in Mounted(progs[w]) :
        progs' = [[progs EXCEPT ![d] = q] EXCEPT ![w] = r]
  BY DEF EnterPrograms
<1>3. d \in Programs /\ w \in Programs /\ selected["weekly"] \in WeeklyIds
  BY DEF Selected, ProgramsInv, SelectionIn, Kinds, Programs
<1> HIDE DEF d, w
<1>4. q \in Entries(Cells(d[1])) /\ r \in Entries(Cells(w[1]))
  BY <1>2, <1>3, MountProgram
<1>5. ProgsIn(progs')
  BY <1>2, <1>3, <1>4 DEF ProgramsInv, ProgsIn
<1>6. pendingDays = NoData
  BY <1>1 DEF ProgramsInv, WeeklyIn
<1>7. shown' # NoData => shown' \in [id : WeeklyIds, days : Cells("weekly")]
  BY <1>1, <1>3, RenderingIn DEF ProgramsInv
<1>8. WeeklyIn'
  BY <1>1, <1>6, <1>7 DEF ProgramsInv, WeeklyIn
<1>9. SelectionIn' /\ CallsIn' /\ ControllerIn' /\ DailyIn'
  BY <1>1, Kept DEF ProgramsInv, SelectionIn, SameDaily
<1> QED BY <1>5, <1>8, <1>9 DEF ProgramsInv

\* A request goes on.
LEMMA CallMoves ==
    ASSUME CallsIn, NEW i \in DOMAIN calls, NEW c, CallIn(c), UNCHANGED called,
           calls' = [calls EXCEPT ![i] = c]
    PROVE  CallsIn'
BY DEF CallsIn

LEMMA AnswerCallStep ==
    ASSUME ProgramsInv, NEW i \in DOMAIN calls, PutProgram(i) \/ ReadBack(i) \/ FailCall(i)
    PROVE  ProgramsInv'
<1> DEFINE c == calls[i]
           p == c.prog
<1>1. CallIn(c) /\ p \in Programs /\ controller[p] \in Form(p[1]) /\ c.content \in Cells(p[1])
  <2>1. CallIn(calls[i])
    BY DEF ProgramsInv, CallsIn
  <2> QED BY <2>1 DEF ProgramsInv, ControllerIn, CallIn
<1>2. /\ UNCHANGED <<progs, called>>
      /\ UNCHANGED <<tab, selected, shown, pendingDays, from, unsent, local, paint, basedOn, astray>>
  BY DEF PutProgram, ReadBack, FailCall, OnlyTheCalls, Editing
<1>3. ProgsIn(progs') /\ SelectionIn' /\ WeeklyIn' /\ DailyIn'
  BY <1>2, Kept DEF SameSelection, SameWeekly, SameDaily
<1>4. ControllerIn'
  <2>1. CASE UNCHANGED controller
    BY <2>1, Kept
  <2>2. CASE controller' = [controller EXCEPT ![p] = Wire(p, c.content)]
    <3>1. Wire(p, c.content) \in Form(p[1])
      BY <1>1, WireIn
    <3> HIDE DEF p, c
    <3> QED BY <2>2, <3>1 DEF ProgramsInv, ControllerIn
  <2> QED BY <2>1, <2>2 DEF PutProgram, ReadBack, FailCall
<1>5. PICK s : CallIn(s) /\ calls' = [calls EXCEPT ![i] = s]
  <2> DEFINE r == Parsed(p, controller[p])
  <2>1. r \in Cells(p[1]) /\ p[1] \in Kinds
    BY <1>1, ParsedIn DEF Programs, Kinds
  <2>2. r \in Cells("daily") \cup Cells("weekly")
    BY <2>1 DEF Kinds
  <2>3. \/ calls' = [calls EXCEPT ![i] = [c EXCEPT !.at = "put"]]
        \/ calls' = [calls EXCEPT ![i] = [c EXCEPT !.at = "ok", !.reply = r]]
        \/ calls' = [calls EXCEPT ![i] = [c EXCEPT !.at = "failed"]]
    BY DEF PutProgram, ReadBack, FailCall
  <2> HIDE DEF r
  <2>4. /\ CallIn([c EXCEPT !.at = "put"])
        /\ CallIn([c EXCEPT !.at = "failed"])
    BY <1>1 DEF CallIn
  <2>5. CallIn([c EXCEPT !.at = "ok", !.reply = r])
    BY <1>1, <2>1, <2>2 DEF CallIn
  <2> QED BY <2>3, <2>4, <2>5
<1>6. CallsIn'
  BY <1>2, <1>5, CallMoves DEF ProgramsInv
<1> QED BY <1>3, <1>4, <1>6 DEF ProgramsInv

LEMMA SettleCallStep ==
    ASSUME ProgramsInv, NEW i \in DOMAIN calls, SettleCall(i)
    PROVE  ProgramsInv'
<1> DEFINE c == calls[i]
           p == c.prog
           w == Selected("weekly")
<1>1. CallIn(c) /\ p \in Programs /\ c.reply \in Cells(p[1]) \cup {NoData}
  <2>1. CallIn(calls[i])
    BY DEF ProgramsInv, CallsIn
  <2> QED BY <2>1 DEF CallIn
<1>2. /\ UNCHANGED <<controller, called>>
      /\ UNCHANGED <<tab, selected, shown, pendingDays, from, unsent, local, paint, basedOn, astray>>
      /\ calls' = [j \in DOMAIN calls \ {i} |-> calls[j]]
  BY DEF SettleCall, OnlyTheCalls, Editing
<1>3. ControllerIn' /\ SelectionIn' /\ WeeklyIn' /\ DailyIn'
  BY <1>2, Kept DEF SameSelection, SameWeekly, SameDaily
<1>4. CallsIn'
  BY <1>2 DEF ProgramsInv, CallsIn
<1>5. w \in Programs
  BY DEF Selected, ProgramsInv, SelectionIn, Kinds, Programs
<1>6. /\ SetData(progs[p], c.reply) \in Entries(Cells(p[1]))
      /\ Refetch(progs[w]) \in Entries(Cells(w[1]))
  BY <1>1, <1>5, EntryOps DEF ProgramsInv, ProgsIn
<1>7. \/ progs' = [progs EXCEPT ![p] = SetData(progs[p], c.reply)]
      \/ progs' = [progs EXCEPT ![w] = Refetch(progs[w])]
      \/ UNCHANGED progs
  BY DEF SettleCall
<1> HIDE DEF c, p, w
<1>8. ProgsIn(progs')
  BY <1>6, <1>7, ProgsStep, Kept DEF ProgramsInv
<1> QED BY <1>3, <1>4, <1>8 DEF ProgramsInv

LEMMA LandStep ==
    ASSUME ProgramsInv, NEW p \in Programs, AnswerProgram(p) \/ LandProgram(p)
    PROVE  ProgramsInv'
<1>1. /\ UNCHANGED <<calls, called, controller>>
      /\ UNCHANGED <<tab, selected, shown, pendingDays, from, unsent, local, paint, basedOn, astray>>
  BY DEF AnswerProgram, LandProgram, OnlyTheCalls, Editing
<1>2. CallsIn' /\ ControllerIn' /\ SelectionIn' /\ WeeklyIn' /\ DailyIn'
  BY <1>1, Kept DEF SameSelection, SameWeekly, SameDaily
<1>3. controller[p] \in Form(p[1]) /\ progs[p] \in Entries(Cells(p[1]))
  BY DEF ProgramsInv, ControllerIn, ProgsIn
<1>4. PICK q \in Entries(Cells(p[1])) : progs' = [progs EXCEPT ![p] = q]
  <2>1. CASE AnswerProgram(p)
    <3>1. Answer(progs[p], Parsed(p, controller[p])) \in Entries(Cells(p[1]))
      BY <1>3, ParsedIn, EntryOps
    <3> QED BY <2>1, <3>1 DEF AnswerProgram
  <2>2. CASE LandProgram(p)
    <3>1. Land(progs[p]) \in Entries(Cells(p[1]))
      BY <1>3, EntryOps
    <3> QED BY <2>2, <3>1 DEF LandProgram
  <2> QED BY <2>1, <2>2
<1>5. ProgsIn(progs')
  BY <1>4, ProgsStep DEF ProgramsInv
<1> QED BY <1>2, <1>5 DEF ProgramsInv

ProgramsNext == ProgramSteps \/ EnterPrograms \/ LeavePrograms

LEMMA ProgramsStep == ProgramsInv /\ [ProgramsNext]_programVars => ProgramsInv'
<1> SUFFICES ASSUME ProgramsInv, [ProgramsNext]_programVars PROVE ProgramsInv'
  OBVIOUS
<1>1. ASSUME NEW x \in Days, AdjustDay(x, 1) \/ AdjustDay(x, -1) PROVE ProgramsInv'
  BY <1>1, AdjustStep
<1>2. ASSUME NEW x \in Quarters, PointerDown(x) \/ PointerEnter(x) PROVE ProgramsInv'
  BY <1>2, PaintStep
<1>3. CASE PointerUp \/ PointerLeave
  BY <1>3, GestureStep
<1>4. CASE WeeklyDue \/ Render
  BY <1>4, RenderStep
<1>5. ASSUME \/ \E id \in DailyIds : SelectDaily(id)
             \/ \E id \in WeeklyIds : SelectWeekly(id)
      PROVE  ProgramsInv'
  BY <1>5, SelectDailyStep, SelectWeeklyStep
<1>6. CASE SetTab("daily") \/ SetTab("weekly") \/ LeavePrograms
  BY <1>6, TabStep
<1>7. CASE EnterPrograms
  BY <1>7, EnterStep
<1>8. ASSUME NEW i \in DOMAIN calls, PutProgram(i) \/ ReadBack(i) \/ FailCall(i) \/ SettleCall(i)
      PROVE  ProgramsInv'
  BY <1>8, AnswerCallStep, SettleCallStep
<1>9. ASSUME NEW p \in Programs, AnswerProgram(p) \/ LandProgram(p) PROVE ProgramsInv'
  BY <1>9, LandStep
<1>10. CASE UNCHANGED programVars
  <2>1. /\ UNCHANGED <<calls, called, controller, progs>>
        /\ UNCHANGED <<tab, selected, shown, pendingDays, from, unsent, local, paint, basedOn, astray>>
    BY <1>10 DEF programVars
  <2> QED BY <2>1, Kept DEF ProgramsInv, SameSelection, SameWeekly, SameDaily
<1> QED
  BY <1>1, <1>2, <1>3, <1>4, <1>5, <1>6, <1>7, <1>8, <1>9, <1>10 DEF ProgramsNext, ProgramSteps

LEMMA InitProgramsInv == ProgramsInit => ProgramsInv
<1> SUFFICES ASSUME ProgramsInit PROVE ProgramsInv
  OBVIOUS
<1>1. ProgsIn(progs)
  BY DEF ProgramsInit, ProgsIn, Entries, EmptyEntry
<1>2. CallsIn
  BY DEF ProgramsInit, CallsIn
<1>3. ControllerIn
  <2>1. \A p \in Programs : controller[p] \in Form(p[1])
    <3> TAKE p \in Programs
    <3>1. p[1] \in Kinds /\ controller[p] = [x \in CellsOf(p[1]) |-> 0]
      BY DEF Programs, Kinds, ProgramsInit
    <3> QED BY <3>1, ProgramsPageAssumption DEF Form, CellsOf, Kinds
  <2> QED BY <2>1 DEF ProgramsInit, ControllerIn
<1>4. SelectionIn
  BY FirstSelected DEF ProgramsInit, SelectionIn, Kinds
<1>5. WeeklyIn /\ DailyIn
  BY DEF ProgramsInit, WeeklyIn, DailyIn
<1> QED BY <1>1, <1>2, <1>3, <1>4, <1>5 DEF ProgramsInv

LEMMA StepOfPrograms == [Next]_editorVars => [ProgramsNext]_programVars
  BY DEF Next, editorVars, ProgramsNext, programVars

LEMMA AlwaysProgramsInv == Spec => []ProgramsInv
<1>1. Init => ProgramsInv
  BY InitProgramsInv DEF Init
<1>2. ProgramsInv /\ [Next]_editorVars => ProgramsInv'
  BY ProgramsStep, StepOfPrograms
<1> QED BY <1>1, <1>2, PTL DEF Spec

\* Whatever renders, fails or comes late, a request is of the program whose edits it
\* carries (Programs.tsx: the clean-up of a rendering still holds the old program), but
\* for a daily gesture that was abandoned outside the timeline.
THEOREM EditsStay == Spec => []EditsStayWithProgram
<1>1. ProgramsInv => EditsStayWithProgram
  BY DEF ProgramsInv, CallsIn, CallIn, EditsStayWithProgram
<1> QED BY <1>1, AlwaysProgramsInv, PTL

\* No click on a day is dropped: the days kept are those the user started from, moved
\* by every click since, and none is kept once they were sent (Programs.tsx).
THEOREM ClicksKept == Spec => []NoClickDropped
<1>1. ProgramsInv => NoClickDropped
  BY DEF ProgramsInv, WeeklyIn, NoClickDropped
<1> QED BY <1>1, AlwaysProgramsInv, PTL
=============================================================================
