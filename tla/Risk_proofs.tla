---------------------------- MODULE Risk_proofs ----------------------------
(***************************************************************************)
(* Proofs about RiskFactors and RiskProfile, for every calendar, every     *)
(* size of a batch and of a window, and every sequence of sessions,        *)
(* revisions, interruptions, continuations and repairs.                    *)
(***************************************************************************)
EXTENDS RiskFactors, RiskProfile, FiniteLemmas

-----------------------------------------------------------------------------
(* Days and batches of days.                                                *)

LEMMA QuotientBounds ==
  ASSUME NEW a \in Nat, NEW b \in Nat \ {0}, NEW q \in Nat
  PROVE  /\ a \div b \in Nat
         /\ (a \div b = q) <=> (q * b <= a /\ a < q * b + b)
<1> DEFINE d == a \div b
           r == a % b
<1>1. d \in Nat /\ r \in 0 .. (b - 1) /\ a = b * d + r
  OBVIOUS
<1> QED
  BY <1>1

LEMMA FactorConstants ==
  /\ FactorSessions \in Nat \ {0} /\ FactorStart \in 1 .. FactorSessions
  /\ BatchSessions \in Nat \ {0}
  /\ FirstAvailable \in Nat /\ FirstAvailable >= 3 /\ FirstAvailable >= FactorStart
  /\ FirstAvailable = 3 \/ FirstAvailable = FactorStart
<1>1. FactorSessions \in Nat \ {0} /\ FactorStart \in 1 .. FactorSessions
      /\ BatchSessions \in Nat \ {0}
  BY FactorAssumption
<1>2. {3, FactorStart} \subseteq Int
  BY <1>1
<1>3. FirstAvailable \in {3, FactorStart}
      /\ \A x \in {3, FactorStart} : x <= FirstAvailable
  BY <1>2, PairFinite, MaxMember DEF FirstAvailable
<1> QED
  BY <1>1, <1>3

LEMMA IntervalEnds ==
  ASSUME NEW lo \in Int, NEW hi \in Int, lo <= hi
  PROVE  Min(lo .. hi) = lo /\ Max(lo .. hi) = hi
<1>2. lo \in lo .. hi /\ hi \in lo .. hi /\ lo .. hi \subseteq Int
  OBVIOUS
<1>1. IsFiniteSet(lo .. hi) /\ lo .. hi \subseteq Int /\ lo .. hi # {}
  BY <1>2, FS_Interval
<1>3. /\ Min(lo .. hi) \in lo .. hi /\ \A x \in lo .. hi : Min(lo .. hi) <= x
      /\ Max(lo .. hi) \in lo .. hi /\ \A x \in lo .. hi : x <= Max(lo .. hi)
  BY <1>1, MinMember, MaxMember
<1> QED
  BY <1>2, <1>3

\* The due decisions are consecutive sessions.
LEMMA ScheduleInterval ==
  ASSUME NEW start \in 1 .. FactorSessions, NEW through \in 1 .. FactorSessions
  PROVE  /\ start <= 3 => Schedule(start, through) = 1 .. (through - 2)
         /\ start >= 3 => Schedule(start, through) = (start - 2) .. (through - 2)
  BY FactorConstants DEF Schedule, Decisions

\* What the plan promises of a batch: it covers its dates.
Covers(batch) ==
  /\ batch.from \in FactorStart .. batch.through /\ batch.through \in Nat
  /\ batch.schedule = Schedule(batch.from, batch.through)
  /\ batch.schedule = {} => batch.through <= 2
  /\ batch.schedule # {} => batch.from >= 3

\* One batch of a plan, x decisions after the first one.
LEMMA BatchCovers ==
  ASSUME NEW lo \in Nat \ {0}, NEW hi \in Nat, lo <= hi, hi + 2 <= FactorSessions,
         FactorStart <= lo + 2,
         NEW x \in Nat, NEW y \in Nat, lo + x <= hi, x < y,
         NEW end \in Nat, (lo + y <= hi /\ end = lo + y + 1) \/ (hi < lo + y /\ end = hi + 2),
         NEW days, days \subseteq lo .. hi,
         \A d \in lo .. hi : d \in days <=> (x <= d - lo /\ d - lo < y)
  PROVE  /\ Min(days) = lo + x
         /\ lo + y <= hi => Max(days) + 2 = end
         /\ Covers([schedule |-> days, from |-> lo + x + 2, through |-> end])
<1>1. days = (lo + x) .. (end - 2)
  <2>1. \A d \in lo .. hi : (x <= d - lo /\ d - lo < y) <=> d \in (lo + x) .. (end - 2)
    OBVIOUS
  <2>2. (lo + x) .. (end - 2) \subseteq lo .. hi
    OBVIOUS
  <2> QED
    BY <2>1, <2>2
<1>2. Min(days) = lo + x /\ Max(days) = end - 2
  <2>1. lo + x \in Int /\ end - 2 \in Int /\ lo + x <= end - 2
    OBVIOUS
  <2> QED
    BY ONLY <1>1, <2>1, IntervalEnds
<1>3. Schedule(lo + x + 2, end) = (lo + x) .. (end - 2)
  BY FactorConstants, ScheduleInterval
<1> QED
  BY <1>1, <1>2, <1>3, FactorConstants DEF Covers

Plan == [schedule : SUBSET Decisions, from : Nat, through : Nat]

\* The batches of a plan follow one another without a gap up to its end.
LEMMA PlanCovers ==
  ASSUME NEW through \in 1 .. FactorSessions, NEW start \in FactorStart .. through,
         NEW plan, plan = Batches(start, through)
  PROVE  /\ plan \in Seq(Plan) /\ plan # << >>
         /\ \A i \in 1 .. Len(plan) : Covers(plan[i]) /\ plan[i].through <= through
         /\ \A i \in 1 .. (Len(plan) - 1) : plan[i + 1].from = plan[i].through + 1
         /\ plan[1].from <= start \/ (start <= 3 /\ plan[1].from = 3)
<1> DEFINE due == Schedule(start, through)
<1>1. start \in 1 .. FactorSessions /\ start \in Nat /\ through \in Nat
  BY FactorConstants
<1>2. CASE due = {}
  <2>1. plan = << [schedule |-> {}, from |-> start, through |-> through] >>
    BY <1>2 DEF Batches
  <2>2. through <= 2
    <3>1. start >= 3 => due = (start - 2) .. (through - 2)
      BY <1>1, ScheduleInterval
    <3>2. start <= 3 => due = 1 .. (through - 2)
      BY <1>1, ScheduleInterval
    <3>3. start >= 3 => through - 2 \in due
      BY <1>1, <3>1
    <3>4. start <= 3 /\ through >= 3 => 1 \in due
      BY <1>1, <3>2
    <3> QED
      BY <1>1, <1>2, <3>3, <3>4
  <2>3. Covers(plan[1])
    BY <1>1, <1>2, <2>1, <2>2 DEF Covers
  <2> QED
    BY <1>1, <2>1, <2>3 DEF Plan
<1>3. CASE due # {}
  <2> DEFINE lo == IF start <= 3 THEN 1 ELSE start - 2
             hi == through - 2
  <2>1. /\ due = lo .. hi /\ lo \in Nat \ {0} /\ hi \in Nat /\ lo <= hi
        /\ hi + 2 <= FactorSessions /\ FactorStart <= lo + 2
        /\ lo + 2 <= start \/ (start <= 3 /\ lo + 2 = 3)
    <3>1. due = lo .. hi
      BY <1>1, ScheduleInterval
    <3>2. lo <= hi
      BY <1>1, <1>3, <3>1
    <3> QED
      BY <1>1, <3>1, <3>2, FactorConstants
  <2> HIDE DEF lo, hi
  <2>2. Min(due) = lo /\ Max(due) = hi
    BY <2>1, IntervalEnds
  <2> DEFINE height == hi - lo + 1
             B == BatchSessions
             count == (height + B - 1) \div B
             Days(k) == {d \in lo .. hi : (d - lo) \div B = k - 1}
             Batch(k) == [schedule |-> Days(k), from |-> Min(Days(k)) + 2,
                          through |-> IF k < count THEN Max(Days(k)) + 2 ELSE through]
  <2>3. plan = [k \in 1 .. count |-> Batch(k)]
    BY <1>3, <2>1, <2>2 DEF Batches
  <2>4. height \in Nat \ {0} /\ B \in Nat \ {0} /\ height + B - 1 \in Nat
    BY <2>1, FactorConstants
  <2>5. count \in Nat /\ count * B <= height + B - 1 /\ height + B - 1 < count * B + B
    <3> DEFINE a == height + B - 1
    <3> HIDE DEF height, B
    <3>1. a \in Nat /\ B \in Nat \ {0} /\ a \div B \in Nat
      BY <2>4, QuotientBounds
    <3> HIDE DEF a
    <3>2. (a \div B) * B <= a /\ a < (a \div B) * B + B
      BY <3>1, QuotientBounds
    <3> QED
      BY <3>1, <3>2 DEF a
  <2>6. count >= 1
    <3> HIDE DEF count
    <3>1. ASSUME count = 0 PROVE FALSE
      BY <2>4, <2>5, <3>1
    <3> QED
      BY <2>5, <3>1
  <2> DEFINE x(k) == (k - 1) * B
             end(k) == IF k < count THEN lo + x(k) + B + 1 ELSE hi + 2
  <2>7. ASSUME NEW k \in 1 .. count
        PROVE  /\ x(k) \in Nat /\ lo + x(k) <= hi /\ end(k) \in Nat /\ end(k) <= through
               /\ k < count => lo + x(k) + B <= hi /\ x(k + 1) = x(k) + B
               /\ k = count => hi < lo + x(k) + B
               /\ \A d \in lo .. hi :
                    (d - lo) \div B = k - 1 <=> (x(k) <= d - lo /\ d - lo < x(k) + B)
    <3> HIDE DEF count
    <3>1. k \in Nat /\ k - 1 \in Nat /\ k <= count
      BY <2>5
    <3>2. x(k) \in Nat /\ x(k + 1) = x(k) + B
      BY <2>4, <3>1
    <3>3. k * B = x(k) + B
      BY <2>4, <3>1
    <3>4. k < count => k * B + B <= count * B
      <4>1. ASSUME k < count PROVE (k + 1) * B <= count * B
        BY <2>4, <2>5, <3>1, <4>1
      <4>2. (k + 1) * B = k * B + B
        BY <2>4, <3>1
      <4> QED
        BY <4>1, <4>2
    <3>5. k = count => k * B = count * B
      OBVIOUS
    <3> DEFINE cb == count * B
               kb == k * B
               xk == x(k)
    <3>6. cb \in Nat /\ kb \in Nat /\ xk \in Nat
      BY <2>4, <2>5, <3>1, <3>2
    <3>7. cb <= height + B - 1 /\ height + B - 1 < cb + B /\ kb = xk + B
          /\ (k < count => kb + B <= cb) /\ (k = count => kb = cb)
      BY <2>5, <3>3, <3>4, <3>5
    <3>8. \A d \in lo .. hi :
            (d - lo) \div B = k - 1 <=> (xk <= d - lo /\ d - lo < xk + B)
      <4>1. \A d \in lo .. hi : d - lo \in Nat
        BY <2>1
      <4> QED
        BY <2>4, <3>1, <4>1, QuotientBounds
    <3> HIDE DEF cb, kb, xk
    <3>9. (k < count => lo + xk + B <= hi) /\ (k = count => hi < lo + xk + B)
          /\ lo + xk <= hi
      BY <2>1, <2>4, <3>1, <3>6, <3>7, <2>5
    <3>10. hi + 2 = through
      BY <1>1 DEF hi
    <3> HIDE DEF x
    <3>11. xk = x(k)
      BY DEF xk
    <3> QED
      BY <2>1, <2>4, <2>5, <3>1, <3>2, <3>8, <3>9, <3>10, <3>11
  <2>8. ASSUME NEW k \in 1 .. count
        PROVE  /\ Batch(k) = [schedule |-> Days(k), from |-> lo + x(k) + 2, through |-> end(k)]
               /\ Covers(Batch(k)) /\ Batch(k) \in Plan
    <3> DEFINE xk == x(k)
               y == xk + B
               days == Days(k)
               e == end(k)
    <3>1. /\ days \subseteq lo .. hi
          /\ \A d \in lo .. hi : d \in days <=> (xk <= d - lo /\ d - lo < y)
      BY <2>7
    <3>2. y \in Nat /\ xk < y
      BY <2>4, <2>7
    <3>3. (lo + y <= hi /\ e = lo + y + 1) \/ (hi < lo + y /\ e = hi + 2)
      <4>1. k < count \/ k = count
        BY <2>5
      <4>2. CASE k < count
        BY <2>1, <2>4, <2>7, <4>2
      <4>3. CASE k = count
        BY <2>1, <2>4, <2>7, <4>3
      <4> QED
        BY <4>1, <4>2, <4>3
    <3>4. xk \in Nat /\ lo + xk <= hi /\ e \in Nat
      BY <2>7
    <3>5. (k < count => lo + y <= hi) /\ hi + 2 = through /\ (k >= count => e = hi + 2)
      BY <1>1, <2>1, <2>4, <2>7 DEF hi
    <3> HIDE DEF days, y, x, e
    <3>6. /\ Min(days) = lo + xk
          /\ lo + y <= hi => Max(days) + 2 = e
          /\ Covers([schedule |-> days, from |-> lo + xk + 2, through |-> e])
      <4> HIDE DEF xk
      <4> QED
        <5>1. /\ lo \in Nat \ {0} /\ hi \in Nat /\ lo <= hi /\ hi + 2 <= FactorSessions
              /\ FactorStart <= lo + 2
          BY ONLY <2>1
        <5>2. /\ xk \in Nat /\ y \in Nat /\ lo + xk <= hi /\ xk < y /\ e \in Nat
              /\ (lo + y <= hi /\ e = lo + y + 1) \/ (hi < lo + y /\ e = hi + 2)
              /\ days \subseteq lo .. hi
              /\ \A d \in lo .. hi : d \in days <=> (xk <= d - lo /\ d - lo < y)
          BY ONLY <3>1, <3>2, <3>3, <3>4
        <5> QED
          BY ONLY <5>1, <5>2, BatchCovers
    <3>7. Batch(k) = [schedule |-> days, from |-> lo + xk + 2, through |-> e]
      <4>1. k < count \/ k >= count
        BY <2>5
      <4> HIDE DEF count
      <4> QED
        BY <3>5, <3>6, <4>1 DEF days
    <3>8. days \subseteq Decisions /\ lo + xk + 2 \in Nat
      BY <2>1, <3>1, <3>4, FactorConstants DEF Decisions
    <3> QED
      BY <3>4, <3>6, <3>7, <3>8 DEF Plan, days, e, xk
  <2> HIDE DEF count, Batch
  <2>9. plan \in Seq(Plan) /\ Len(plan) = count /\ \A k \in 1 .. count : plan[k] = Batch(k)
    BY <2>3, <2>5, <2>8
  <2>10. \A k \in 1 .. count : Batch(k).from = lo + x(k) + 2 /\ Batch(k).through = end(k)
    BY <2>8
  <2>11. ASSUME NEW i \in 1 .. (count - 1)
         PROVE  Batch(i + 1).from = Batch(i).through + 1
    <3>1. i \in 1 .. count /\ i + 1 \in 1 .. count /\ i < count
      BY <2>5
    <3>2. Batch(i + 1).from = lo + x(i + 1) + 2 /\ Batch(i).through = end(i)
      BY <2>10, <3>1
    <3>3. x(i + 1) = x(i) + B /\ x(i) \in Nat
      BY <2>7, <3>1
    <3>4. end(i) = lo + x(i) + B + 1
      BY <3>1
    <3> HIDE DEF x, end
    <3> QED
      BY <2>1, <2>4, <3>2, <3>3, <3>4
  <2>12. Batch(1).from = lo + 2
    <3>1. x(1) = 0
      BY <2>4
    <3>2. Batch(1).from = lo + x(1) + 2
      BY <2>5, <2>6, <2>10
    <3> HIDE DEF x
    <3> QED
      BY <2>1, <3>1, <3>2
  <2>13. \A i \in 1 .. count : Batch(i).through <= through
    BY <2>7, <2>10
  <2> QED
    BY <2>1, <2>5, <2>6, <2>8, <2>9, <2>11, <2>12, <2>13
<1> QED
  BY <1>2, <1>3

-----------------------------------------------------------------------------
(* Valuation.                                                               *)

LEMMA PriceMember ==
  ASSUME NEW days, NEW part, part \subseteq days
  PROVE  /\ \A o \in PricesOf(days) : o[1] \in days
         /\ PricesOf(part) = {o \in PricesOf(days) : o[1] \in part}
  BY DEF PricesOf

Within(all, start, end) == {o \in all : o[1] \in start .. end}
Before(all, start) == {o \in all : o[1] < start}

\* The last observation before a session, with those since then, is enough to
\* value any later session.
LEMMA LastOfSplit ==
  ASSUME NEW all, \A o \in all : o[1] \in Int,
         NEW start \in Int, NEW end \in Int, NEW t \in (start - 1) .. end,
         NEW seen, seen = Within(all, start, end) \cup LastSeen(Before(all, start))
  PROVE  Valued(seen, t) = Valued(all, t)
<1> USE DEF Within, Before
<1> DEFINE before == {o \in all : o[1] < start}
           old == LastSeen(before)
           own == {o \in all : o[1] \in start .. t}
           known == {o \in all : o[1] <= t}
<1>1. {o \in seen : o[1] <= t} = own \cup old
  BY DEF LastSeen
<1>2. known = own \cup before
  OBVIOUS
<1>3. old \subseteq before /\ \A o \in old, p \in before : p[1] <= o[1]
  BY DEF LastSeen
<1>4. \A o \in own, p \in before : p[1] < o[1]
  OBVIOUS
<1>5. CASE own = {}
  <2>1. LastSeen(old) = old
    BY <1>3 DEF LastSeen
  <2> QED
    BY <1>1, <1>2, <1>5, <2>1 DEF Valued
<1>6. CASE own # {}
  <2>1. LastSeen(own \cup old) = LastSeen(own)
    <3>1. ASSUME NEW o \in old, NEW q \in own PROVE ~(q[1] <= o[1]) /\ o[1] <= q[1]
      BY <1>3, <1>4
    <3> HIDE DEF own, old
    <3> QED
      BY <1>6, <3>1 DEF LastSeen
  <2>2. LastSeen(own \cup before) = LastSeen(own)
    <3>1. ASSUME NEW o \in before, NEW q \in own PROVE ~(q[1] <= o[1]) /\ o[1] <= q[1]
      BY <1>4
    <3> HIDE DEF own, before
    <3> QED
      BY <1>6, <3>1 DEF LastSeen
  <2> QED
    BY <1>1, <1>2, <2>1, <2>2 DEF Valued
<1> QED
  BY <1>5, <1>6

\* What a batch would read of the whole history.
ReadsEnough(batch) ==
  PricesRead(batch) = PricesOf(PriceStart(batch) .. batch.through)
                        \cup LastSeen(PricesOf(1 .. (PriceStart(batch) - 1)))

\* The fit of a decision on the whole history.
FullFit(d) == FitRow(d, PricesOf(FactorDays))

LEMMA BatchStart ==
  ASSUME NEW batch, Covers(batch), batch.through \in FactorDays
  PROVE  /\ batch.from \in 1 .. batch.through
         /\ batch.schedule = {} =>
              PriceStart(batch) = batch.from /\ batch.through <= 2
         /\ batch.schedule # {} =>
              /\ PriceStart(batch) = batch.from - 1 /\ batch.from >= 3
              /\ batch.schedule = (batch.from - 2) .. (batch.through - 2)
<1>1. batch.from \in 1 .. batch.through /\ batch.from \in FactorDays
  BY FactorConstants DEF Covers, FactorDays
<1>2. CASE batch.schedule = {}
  BY <1>1, <1>2 DEF Covers, PriceStart
<1>3. CASE batch.schedule # {}
  <2>1. batch.from >= 3 /\ batch.schedule = (batch.from - 2) .. (batch.through - 2)
    BY <1>1, <1>3, ScheduleInterval DEF Covers, FactorDays
  <2> DEFINE lo == batch.from - 2
             hi == batch.through - 2
  <2>2. lo \in Int /\ hi \in Int /\ lo <= hi /\ batch.from = lo + 2
    BY <1>1 DEF FactorDays, Covers
  <2>3. batch.schedule = lo .. hi
    BY <2>1
  <2> HIDE DEF lo, hi
  <2>4. Min(batch.schedule) = lo
    BY <2>2, <2>3, IntervalEnds
  <2> QED
    BY <1>1, <1>3, <2>1, <2>2, <2>4 DEF PriceStart
<1> QED
  BY <1>2, <1>3

\* A batch that reads enough values every session up to its end as the whole
\* history does, from the one before its first.
LEMMA EnoughValues ==
  ASSUME NEW batch, Covers(batch), batch.through \in FactorDays, ReadsEnough(batch),
         NEW t \in (PriceStart(batch) - 1) .. batch.through
  PROVE  Valued(PricesRead(batch), t) = Valued(PricesOf(FactorDays), t)
<1> DEFINE start == PriceStart(batch)
           end == batch.through
           all == PricesOf(FactorDays)
<1>1. start \in Nat /\ start >= 1 /\ end \in Nat /\ end <= FactorSessions
  BY BatchStart DEF FactorDays
<1>2. start .. end \subseteq FactorDays /\ 1 .. (start - 1) \subseteq FactorDays
  <2>1. start <= end + 1
    BY BatchStart DEF FactorDays
  <2> QED
    BY <1>1, <2>1, FactorConstants DEF FactorDays
<1>3. \A o \in all : o[1] \in FactorDays
  BY PriceMember
<1>4. PricesOf(start .. end) = Within(all, start, end)
  BY <1>2, PriceMember DEF Within
<1>5. PricesOf(1 .. (start - 1)) = Before(all, start)
  <2>1. PricesOf(1 .. (start - 1)) = {o \in all : o[1] \in 1 .. (start - 1)}
    BY <1>2, PriceMember
  <2>2. \A o \in all : o[1] \in 1 .. (start - 1) <=> o[1] < start
    BY <1>1, <1>3 DEF FactorDays
  <2> QED
    BY <2>1, <2>2 DEF Before
<1> DEFINE seen == PricesRead(batch)
<1>6. seen = Within(all, start, end) \cup LastSeen(Before(all, start))
  BY <1>4, <1>5 DEF ReadsEnough
<1>7. \A o \in all : o[1] \in Int
  BY <1>3 DEF FactorDays
<1>8. t \in (start - 1) .. end /\ start \in Int /\ end \in Int
  BY <1>1
<1> HIDE DEF start, end, all, seen
<1>9. Valued(seen, t) = Valued(all, t)
  BY ONLY <1>6, <1>7, <1>8, LastOfSplit
<1> QED
  BY <1>9 DEF all, seen

LEMMA EnoughFits ==
  ASSUME NEW batch, Covers(batch), batch.through \in FactorDays, ReadsEnough(batch),
         NEW d \in batch.schedule
  PROVE  FitRow(d, PricesRead(batch)) = FullFit(d)
<1>1. /\ d + 1 \in (PriceStart(batch) - 1) .. batch.through
      /\ d + 2 \in (PriceStart(batch) - 1) .. batch.through
  BY BatchStart DEF FactorDays
<1>2. /\ Valued(PricesRead(batch), d + 1) = Valued(PricesOf(FactorDays), d + 1)
      /\ Valued(PricesRead(batch), d + 2) = Valued(PricesOf(FactorDays), d + 2)
  BY <1>1, EnoughValues
<1> QED
  BY <1>2 DEF FitRow, FullFit

\* Valuing the whole history at a session needs the prices up to it.
LEMMA ValuedUpTo ==
  ASSUME NEW t \in FactorDays
  PROVE  Valued(PricesOf(FactorDays), t) = LastSeen(PricesOf(1 .. t))
<1>1. 1 .. t \subseteq FactorDays
  BY FactorConstants DEF FactorDays
<1>2. PricesOf(1 .. t) = {o \in PricesOf(FactorDays) : o[1] \in 1 .. t}
  BY <1>1, PriceMember
<1>3. \A o \in PricesOf(FactorDays) : o[1] \in 1 .. t <=> o[1] <= t
  <2>1. \A o \in PricesOf(FactorDays) : o[1] \in FactorDays
    BY PriceMember
  <2> QED
    BY <2>1 DEF FactorDays
<1> QED
  BY <1>2, <1>3 DEF Valued

-----------------------------------------------------------------------------
(* The inductive invariant.                                                 *)

FactorType ==
  /\ exposure \in [FactorDays -> Int] /\ price \in [FactorDays -> Int]
  /\ admitted \in FactorDays /\ completed \in 0 .. admitted
  /\ validStart \in Nat /\ affected \in Nat
  /\ batches \in Seq(Plan)
  /\ completed > 0 => completed >= FactorStart

\* No fit is older than the first date the host asks for.
FitsDated == \A r \in fits : r.decision \in Decisions /\ r.decision + 2 >= FactorStart

\* The batches still to fit follow one another, and the next one leaves no gap
\* after the published fits.
PlanFollows ==
  /\ \A i \in 1 .. Len(batches) : Covers(batches[i]) /\ batches[i].through <= admitted
  /\ \A i \in 1 .. (Len(batches) - 1) : batches[i + 1].from = batches[i].through + 1
  /\ batches # << >> => \/ batches[1].from <= completed + 1
                        \/ batches[1].from <= FirstAvailable /\ completed <= 2

\* The saved observation is the last one before the boundary, unless a revision
\* that reaches behind the boundary is reported.
CarryLast ==
  (completed > 0 /\ affected \notin 1 .. CarryBoundary(completed))
    => carry = LastSeen(PricesOf(1 .. CarryBoundary(completed)))

FactorInv ==
  FactorType /\ FitsDated /\ PlanFollows /\ CarryLast /\ FactorsMatchFull /\ FactorsContinuous

\* The fits up to a date are those of the whole history.
MatchUpTo(n) ==
  {r \in fits : r.decision + 2 <= n} = {FullFit(d) : d \in Schedule(FactorStart, n)}

\* The last date that no reported revision reaches.
TrustedOf(complete, revised) ==
  IF revised = 0 THEN complete ELSE Min({complete, revised - 1})
Trusted == TrustedOf(completed, affected)

LEMMA TrustedBounds ==
  ASSUME NEW c \in Nat, NEW a \in Nat
  PROVE  /\ TrustedOf(c, a) \in 0 .. c
         /\ a # 0 => TrustedOf(c, a) <= a - 1
         /\ a = 0 => TrustedOf(c, a) = c
         /\ a # 0 => TrustedOf(c, a) = c \/ TrustedOf(c, a) = a - 1
<1>1. CASE a = 0
  BY <1>1 DEF TrustedOf
<1>2. CASE a # 0
  <2>1. {c, a - 1} \subseteq Int
    OBVIOUS
  <2>2. Min({c, a - 1}) \in {c, a - 1} /\ \A x \in {c, a - 1} : Min({c, a - 1}) <= x
    BY <2>1, PairFinite, MinMember
  <2> QED
    BY <1>2, <2>2 DEF TrustedOf
<1> QED
  BY <1>1, <1>2

LEMMA TrustedType ==
  ASSUME FactorType
  PROVE  completed \in Nat /\ affected \in Nat /\ Trusted \in Nat /\ Trusted <= completed
<1>1. completed \in Nat /\ affected \in Nat
  BY DEF FactorType, FactorDays
<1> QED
  BY <1>1, TrustedBounds DEF Trusted

LEMMA TrustedMatch == FactorsMatchFull <=> MatchUpTo(Trusted)
  BY DEF FactorsMatchFull, MatchUpTo, Trusted, TrustedOf, FullFit

LEMMA MatchesNext ==
  ASSUME NEW n, Trusted' = n, MatchUpTo(n)'
  PROVE  FactorsMatchFull'
<1>1. TrustedOf(completed', affected') = n
  BY DEF Trusted, TrustedOf
<1> HIDE DEF TrustedOf
<1> QED
  BY <1>1 DEF FactorsMatchFull, MatchUpTo, TrustedOf, FullFit

LEMMA FitDecision == \A d : FullFit(d).decision = d
  BY DEF FullFit, FitRow

\* What is the same up to a date is the same up to an earlier one.
LEMMA MatchEarlier ==
  ASSUME FitsDated, NEW n \in Int, MatchUpTo(n), NEW m \in Int, m <= n
  PROVE  MatchUpTo(m)
<1>1. \A d \in Schedule(FactorStart, n) : d \in Schedule(FactorStart, m) <=> d + 2 <= m
  BY FactorConstants DEF Schedule, Decisions
<1>2. Schedule(FactorStart, m) \subseteq Schedule(FactorStart, n)
  BY FactorConstants DEF Schedule, Decisions
<1>3. ASSUME NEW r \in fits, r.decision + 2 <= m
      PROVE  \E d \in Schedule(FactorStart, m) : r = FullFit(d)
  <2>1. r.decision + 2 <= n
    BY <1>3 DEF FitsDated, Decisions
  <2>2. PICK d \in Schedule(FactorStart, n) : r = FullFit(d)
    BY <2>1 DEF MatchUpTo
  <2> QED
    BY <1>1, <1>3, <2>2, FitDecision
<1>4. ASSUME NEW d \in Schedule(FactorStart, m)
      PROVE  FullFit(d) \in fits /\ FullFit(d).decision + 2 <= m
  <2>1. FullFit(d) \in fits
    BY <1>2 DEF MatchUpTo
  <2>2. d + 2 <= m
    BY <1>1, <1>2
  <2> QED
    BY <2>1, <2>2, FitDecision
<1> QED
  BY <1>3, <1>4 DEF MatchUpTo

\* Nothing is expected, and nothing kept, before the first availability date.
LEMMA MatchNothing ==
  ASSUME FitsDated, NEW n \in Int, n < FirstAvailable
  PROVE  MatchUpTo(n)
<1>1. Schedule(FactorStart, n) = {}
  BY FactorConstants DEF Schedule, Decisions
<1>2. {r \in fits : r.decision + 2 <= n} = {}
  BY FactorConstants DEF FitsDated, Decisions
<1> QED
  BY <1>1, <1>2 DEF MatchUpTo

LEMMA FactorsStart == FactorInit => FactorInv
<1> SUFFICES ASSUME FactorInit PROVE FactorInv
  OBVIOUS
<1>1. FactorType
  BY FactorConstants DEF FactorInit, FactorType, FactorDays, Missing
<1>2. FitsDated /\ PlanFollows /\ CarryLast /\ FactorsContinuous
  BY DEF FactorInit, FitsDated, PlanFollows, CarryLast, FactorsContinuous
<1>3. Trusted = 0
  BY DEF FactorInit, Trusted, TrustedOf
<1>4. MatchUpTo(0)
  BY <1>2, FactorConstants, MatchNothing
<1> QED
  BY <1>1, <1>2, <1>3, <1>4, TrustedMatch DEF FactorInv

-----------------------------------------------------------------------------
(* Revisions.                                                               *)

LEMMA CorrectReports ==
  ASSUME affected \in Nat, NEW first \in Nat \ {0}, Correct(first)
  PROVE  /\ affected' \in 1 .. first
         /\ affected # 0 => affected' <= affected
<1>1. CASE affected = 0
  BY <1>1 DEF Correct
<1>2. CASE affected # 0
  <2>1. {affected, first} \subseteq Int
    OBVIOUS
  <2>2. Min({affected, first}) \in {affected, first}
        /\ \A x \in {affected, first} : Min({affected, first}) <= x
    BY <2>1, PairFinite, MinMember
  <2> QED
    BY <1>2, <2>2 DEF Correct
<1> QED
  BY <1>1, <1>2

\* Prices that are the same up to a session give the same values up to it.
LEMMA SamePrices ==
  ASSUME NEW t \in FactorDays, \A x \in 1 .. t : price'[x] = price[x]
  PROVE  /\ Valued(PricesOf(FactorDays), t)' = Valued(PricesOf(FactorDays), t)
         /\ PricesOf(1 .. t)' = PricesOf(1 .. t)
<1>1. {o \in PricesOf(FactorDays)' : o[1] <= t} = {o \in PricesOf(FactorDays) : o[1] <= t}
  BY DEF PricesOf, FactorDays
<1>2. Valued(PricesOf(FactorDays), t)' = LastSeen({o \in PricesOf(FactorDays)' : o[1] <= t})
  BY DEF Valued, LastSeen
<1>3. Valued(PricesOf(FactorDays), t) = LastSeen({o \in PricesOf(FactorDays) : o[1] <= t})
  BY DEF Valued
<1>4. PricesOf(1 .. t)' = PricesOf(1 .. t)
  BY DEF PricesOf
<1> QED
  BY <1>1, <1>2, <1>3, <1>4

\* A revision changes no fit before the date it reports.
LEMMA RevisionStep ==
  ASSUME FactorInv, NEW first \in Nat \ {0}, Correct(first),
         UNCHANGED <<admitted, completed, carry, validStart, continuity, fits, batches>>,
         exposure' \in [FactorDays -> Int], price' \in [FactorDays -> Int],
         \A x \in FactorDays : x + 2 < first => exposure'[x] = exposure[x],
         \A x \in FactorDays : x < first => price'[x] = price[x],
         \A x \in FactorDays : price'[x] # price[x] => first <= x
  PROVE  FactorInv'
<1>0. FactorType /\ FitsDated /\ PlanFollows /\ CarryLast /\ FactorsMatchFull
      /\ FactorsContinuous
  BY DEF FactorInv
<1>1. /\ affected \in Nat /\ affected' \in Nat /\ affected' \in 1 .. first
      /\ affected # 0 => affected' <= affected
      /\ completed \in Nat /\ completed' = completed
  BY <1>0, CorrectReports DEF FactorType, FactorDays
<1>2. FactorType' /\ FitsDated' /\ PlanFollows' /\ FactorsContinuous'
  BY <1>0, <1>1 DEF FactorType, FitsDated, PlanFollows, FactorsContinuous
<1>3. CarryLast'
  <2> SUFFICES ASSUME completed > 0, affected' \notin 1 .. CarryBoundary(completed)
               PROVE  carry = LastSeen(PricesOf(1 .. CarryBoundary(completed)))'
    BY <1>1 DEF CarryLast, CarryBoundary
  <2>1. PICK n \in FactorDays : n = CarryBoundary(completed)
    BY <1>0, <1>1, FactorConstants DEF CarryBoundary, FactorType, FactorDays
  <2>2. n \in Nat
    BY DEF FactorDays
  <2>3. n < affected' /\ affected \notin 1 .. n /\ n < first
    BY <1>1, <2>1, <2>2
  <2>4. carry = LastSeen(PricesOf(1 .. n))
    BY <1>0, <2>1, <2>3 DEF CarryLast
  <2>5. \A x \in 1 .. n : price'[x] = price[x]
    <3>1. \A x \in 1 .. n : x \in FactorDays /\ x < first
      BY <2>2, <2>3, FactorConstants DEF FactorDays
    <3> QED
      BY <3>1
  <2>6. PricesOf(1 .. n)' = PricesOf(1 .. n)
    BY <2>5, SamePrices
  <2>7. LastSeen(PricesOf(1 .. n))' = LastSeen(PricesOf(1 .. n))
    BY <2>6 DEF LastSeen
  <2>8. n = CarryBoundary(completed)'
    BY <1>1, <2>1 DEF CarryBoundary
  <2> QED
    BY <2>4, <2>7, <2>8
<1>4. FactorsMatchFull'
  <2>1. PICK n \in Nat : n = TrustedOf(completed, affected')
    BY <1>1, TrustedBounds
  <2>2. n <= Trusted /\ n < first /\ n <= completed /\ Trusted \in Nat
    <3> DEFINE a == affected'
    <3>1. n \in 0 .. completed /\ n <= a - 1
      BY <1>1, <2>1, TrustedBounds
    <3>2. /\ affected = 0 => Trusted = completed
          /\ affected # 0 => Trusted = completed \/ Trusted = affected - 1
      BY <1>1, TrustedBounds DEF Trusted
    <3>3. /\ completed \in Nat /\ first \in Nat /\ affected \in Nat /\ a \in Nat
          /\ a <= first /\ (affected # 0 => a <= affected)
      BY <1>1
    <3> HIDE DEF a
    <3> QED
      BY <3>1, <3>2, <3>3
  <2>3. MatchUpTo(n)
    BY <1>0, <2>2, TrustedMatch, MatchEarlier
  <2>4. ASSUME NEW d \in Schedule(FactorStart, n) PROVE FullFit(d)' = FullFit(d)
    <3>1. d \in Decisions /\ d \in FactorDays /\ d + 1 \in FactorDays /\ d + 2 \in FactorDays
          /\ d + 2 <= n /\ d + 2 < first
      BY <2>2, FactorConstants DEF Schedule, Decisions, FactorDays
    <3>2. exposure'[d] = exposure[d] /\ \A x \in 1 .. (d + 2) : price'[x] = price[x]
      <4>1. \A x \in 1 .. (d + 2) : x \in FactorDays /\ x < first
        BY <3>1, FactorConstants DEF FactorDays
      <4> QED
        BY <3>1, <4>1
    <3> DEFINE a == d + 1
               b == d + 2
    <3>3. a \in FactorDays /\ b \in FactorDays /\ (\A x \in 1 .. a : price'[x] = price[x])
          /\ \A x \in 1 .. b : price'[x] = price[x]
      BY <3>1, <3>2 DEF FactorDays
    <3> HIDE DEF a, b
    <3>4. Valued(PricesOf(FactorDays), a)' = Valued(PricesOf(FactorDays), a)
          /\ Valued(PricesOf(FactorDays), b)' = Valued(PricesOf(FactorDays), b)
      BY <3>3, SamePrices
    <3> QED
      BY <3>2, <3>4 DEF FullFit, FitRow, a, b
  <2>5. MatchUpTo(n)'
    <3>1. fits' = fits
      OBVIOUS
    <3>2. \A d \in Schedule(FactorStart, n) : FullFit(d)' = FullFit(d)
      BY <2>4
    <3>3. {FullFit(d)' : d \in Schedule(FactorStart, n)}
            = {FullFit(d) : d \in Schedule(FactorStart, n)}
      BY <3>2
    <3> QED
      BY <2>3, <3>1, <3>3 DEF MatchUpTo, Schedule, Decisions
  <2>6. Trusted' = n
    BY <1>1, <2>1 DEF Trusted, TrustedOf
  <2> QED
    BY <2>5, <2>6, MatchesNext
<1> QED
  BY <1>2, <1>3, <1>4 DEF FactorInv

LEMMA ExposureStep ==
  ASSUME FactorInv, NEW d \in FactorDays, CorrectExposure(d)
  PROVE  FactorInv'
<1>1. d + 2 \in Nat \ {0} /\ Correct(d + 2)
  BY DEF CorrectExposure, FactorDays
<1>2. /\ price' = price /\ exposure' = [exposure EXCEPT ![d] = exposure[d] + 1]
      /\ UNCHANGED <<admitted, completed, carry, validStart, continuity, fits, batches>>
  BY DEF CorrectExposure
<1>3. exposure \in [FactorDays -> Int] /\ price \in [FactorDays -> Int]
  BY DEF FactorInv, FactorType
<1> DEFINE first == d + 2
<1>4. /\ exposure' \in [FactorDays -> Int] /\ price' \in [FactorDays -> Int]
      /\ \A x \in FactorDays : x + 2 < first => exposure'[x] = exposure[x]
      /\ \A x \in FactorDays : x < first => price'[x] = price[x]
      /\ \A x \in FactorDays : price'[x] # price[x] => first <= x
  BY <1>2, <1>3 DEF FactorDays
<1> HIDE DEF first
<1> QED
  BY <1>1, <1>2, <1>4, RevisionStep DEF first

LEMMA PriceStep ==
  ASSUME FactorInv, NEW d \in FactorDays, CorrectPrice(d)
  PROVE  FactorInv'
<1>1. d \in Nat \ {0} /\ Correct(d)
  BY DEF CorrectPrice, FactorDays
<1>2. /\ exposure' = exposure /\ price' = [price EXCEPT ![d] = price[d] + 1]
      /\ UNCHANGED <<admitted, completed, carry, validStart, continuity, fits, batches>>
  BY DEF CorrectPrice
<1>3. exposure \in [FactorDays -> Int] /\ price \in [FactorDays -> Int]
  BY DEF FactorInv, FactorType
<1>4. /\ exposure' \in [FactorDays -> Int] /\ price' \in [FactorDays -> Int]
      /\ \A x \in FactorDays : x + 2 < d => exposure'[x] = exposure[x]
      /\ \A x \in FactorDays : x < d => price'[x] = price[x]
      /\ \A x \in FactorDays : price'[x] # price[x] => d <= x
  BY <1>2, <1>3 DEF FactorDays
<1> QED
  BY <1>1, <1>2, <1>4, RevisionStep

-----------------------------------------------------------------------------
(* Planning.                                                                *)

\* A plan starts where the fits are complete, or at the reported revision.
LEMMA PlanStart ==
  ASSUME FactorType
  PROVE  /\ UpdateStart \in Nat /\ UpdateStart >= FactorStart
         /\ completed = 0 => UpdateStart = FactorStart
         /\ completed > 0 => UpdateStart <= completed + 1
<1> DEFINE next == IF completed = 0 THEN FactorStart ELSE Max({FactorStart, completed + 1})
           repair == Max({FactorStart, affected})
<1>1. /\ completed \in Nat /\ affected \in Nat /\ FactorStart \in Nat
      /\ completed > 0 => completed >= FactorStart
  BY FactorConstants DEF FactorType, FactorDays
<1>2. /\ next \in Nat /\ next >= FactorStart
      /\ completed = 0 => next = FactorStart
      /\ completed > 0 => next = completed + 1
  <2>1. {FactorStart, completed + 1} \subseteq Int
    BY <1>1
  <2>2. Max({FactorStart, completed + 1}) \in {FactorStart, completed + 1}
        /\ \A x \in {FactorStart, completed + 1} : x <= Max({FactorStart, completed + 1})
    BY <2>1, PairFinite, MaxMember
  <2> QED
    BY <1>1, <2>2
<1>3. repair \in Nat /\ repair >= FactorStart
  <2>1. {FactorStart, affected} \subseteq Int
    BY <1>1
  <2>2. Max({FactorStart, affected}) \in {FactorStart, affected}
        /\ \A x \in {FactorStart, affected} : x <= Max({FactorStart, affected})
    BY <2>1, PairFinite, MaxMember
  <2> QED
    BY <1>1, <2>2
<1>4. UpdateStart = IF affected \in 1 .. admitted THEN Min({next, repair}) ELSE next
  BY DEF UpdateStart
<1> HIDE DEF next, repair
<1>5. Min({next, repair}) \in {next, repair} /\ Min({next, repair}) <= next
  <2>1. {next, repair} \subseteq Int
    BY <1>2, <1>3
  <2>2. Min({next, repair}) \in {next, repair}
        /\ \A x \in {next, repair} : Min({next, repair}) <= x
    BY <2>1, PairFinite, MinMember
  <2> QED
    BY <2>2
<1> QED
  BY <1>1, <1>2, <1>3, <1>4, <1>5

\* What depends only on the market and the published fits.
LEMMA SameMarket ==
  ASSUME UNCHANGED <<exposure, price, completed, carry, fits, affected>>,
         CarryLast, FactorsMatchFull
  PROVE  CarryLast' /\ FactorsMatchFull'
<1>1. \A days : PricesOf(days)' = PricesOf(days)
  BY DEF PricesOf
<1>2. CarryLast'
  BY <1>1 DEF CarryLast, CarryBoundary, LastSeen
<1>3. PICK n : n = Trusted
  OBVIOUS
<1>4. Trusted' = n
  BY <1>3 DEF Trusted, TrustedOf
<1>5. \A d : FullFit(d)' = FullFit(d)
  <2>1. PricesOf(FactorDays)' = PricesOf(FactorDays)
    BY <1>1 DEF FactorDays
  <2> QED
    BY <2>1 DEF FullFit, FitRow, Valued, LastSeen
<1>6. MatchUpTo(n)'
  <2>1. MatchUpTo(n)
    BY <1>3, TrustedMatch
  <2>2. {FullFit(d)' : d \in Schedule(FactorStart, n)}
          = {FullFit(d) : d \in Schedule(FactorStart, n)}
    BY <1>5
  <2> QED
    BY <2>1, <2>2 DEF MatchUpTo, Schedule, Decisions
<1> QED
  BY <1>2, <1>4, <1>6, MatchesNext

LEMMA PlanStep ==
  ASSUME FactorInv, PlanFactors
  PROVE  FactorInv'
<1>1. FactorType /\ FitsDated /\ CarryLast /\ FactorsMatchFull /\ FactorsContinuous
  BY DEF FactorInv
<1>2. /\ batches' = Batches(UpdateStart, admitted) /\ UpdateStart <= admitted
      /\ UNCHANGED <<exposure, price, admitted, completed, carry, validStart,
                     continuity, fits, affected>>
  BY DEF PlanFactors
<1> DEFINE plan == Batches(UpdateStart, admitted)
<1>3. admitted \in 1 .. FactorSessions /\ UpdateStart \in FactorStart .. admitted
  BY <1>1, <1>2, PlanStart, FactorConstants DEF FactorType, FactorDays
<1>4. /\ plan \in Seq(Plan) /\ plan # << >>
      /\ \A i \in 1 .. Len(plan) : Covers(plan[i]) /\ plan[i].through <= admitted
      /\ \A i \in 1 .. (Len(plan) - 1) : plan[i + 1].from = plan[i].through + 1
      /\ plan[1].from <= UpdateStart \/ (UpdateStart <= 3 /\ plan[1].from = 3)
  BY <1>3, PlanCovers
<1> HIDE DEF plan
<1>5. \/ plan[1].from <= completed + 1
      \/ plan[1].from <= FirstAvailable /\ completed <= 2
  <2>1. Len(plan) >= 1 /\ plan[1] \in Plan
    BY <1>4
  <2>2. plan[1].from \in Nat
    BY <2>1 DEF Plan
  <2>3. completed \in Nat
    BY <1>1 DEF FactorType, FactorDays
  <2> QED
    BY <1>1, <1>4, <2>2, <2>3, PlanStart, FactorConstants
<1>6. batches' = plan
  BY <1>2 DEF plan
<1>7. PlanFollows'
  BY <1>2, <1>4, <1>5, <1>6 DEF PlanFollows, Covers, Schedule, Decisions
<1>8. FactorType' /\ FitsDated' /\ FactorsContinuous'
  BY <1>1, <1>2, <1>4, <1>6 DEF FactorType, FitsDated, FactorsContinuous
<1>9. CarryLast' /\ FactorsMatchFull'
  BY <1>1, <1>2, SameMarket
<1> QED
  BY <1>7, <1>8, <1>9 DEF FactorInv

-----------------------------------------------------------------------------
(* One batch.                                                               *)

\* The next batch, which leaves no gap after the published fits.
IsNext(batch) ==
  /\ batch \in Plan /\ Covers(batch) /\ batch.through \in FactorDays
  /\ batch.through <= admitted
  /\ batch.from <= completed + 1 \/ (batch.from <= FirstAvailable /\ completed <= 2)

LEMMA HeadNext ==
  ASSUME FactorInv, batches # << >>
  PROVE  /\ IsNext(Head(batches))
         /\ Tail(batches) \in Seq(Plan)
         /\ \A i \in 1 .. Len(Tail(batches)) :
              Tail(batches)[i] = batches[i + 1] /\ i + 1 \in 1 .. Len(batches)
         /\ Len(Tail(batches)) = Len(batches) - 1 /\ Len(batches) \in Nat
<1>1. batches \in Seq(Plan) /\ Len(batches) >= 1 /\ Head(batches) = batches[1]
  BY DEF FactorInv, FactorType
<1>2. batches[1] \in Plan /\ Covers(batches[1]) /\ batches[1].through <= admitted
  BY <1>1 DEF FactorInv, PlanFollows
<1>3. batches[1].through \in FactorDays
  <2> DEFINE b == batches[1]
  <2>1. Covers(b) /\ b.through <= admitted /\ admitted \in FactorDays
    BY <1>2 DEF FactorInv, FactorType
  <2> HIDE DEF b
  <2>2. b.through \in Nat /\ b.from \in FactorStart .. b.through
    BY <2>1 DEF Covers
  <2>3. b.through \in FactorDays
    BY <2>1, <2>2, FactorConstants DEF FactorDays
  <2> QED
    BY <2>3 DEF b
<1>4. batches[1].from <= completed + 1
      \/ (batches[1].from <= FirstAvailable /\ completed <= 2)
  BY DEF FactorInv, PlanFollows
<1>5. /\ Tail(batches) \in Seq(Plan) /\ Len(Tail(batches)) = Len(batches) - 1
      /\ \A i \in 1 .. Len(Tail(batches)) : Tail(batches)[i] = batches[i + 1]
      /\ Len(batches) \in Nat
  BY <1>1
<1> QED
  BY <1>1, <1>2, <1>3, <1>4, <1>5 DEF IsNext

\* The saved observation, used where the fits are complete, is the one needed.
LEMMA NextReads ==
  ASSUME FactorType, CarryLast, NEW batch, IsNext(batch),
         UsesCarry(batch) => affected \notin 1 .. CarryBoundary(completed)
  PROVE  ReadsEnough(batch)
<1>1. CASE ~UsesCarry(batch)
  BY <1>1 DEF ReadsEnough, PricesRead
<1>2. CASE UsesCarry(batch)
  <2>1. /\ completed \in Nat /\ completed >= 1 /\ completed <= batch.from - 1
        /\ completed >= FactorStart /\ batch.from \in Nat
    BY <1>2 DEF FactorType, FactorDays, UsesCarry, IsNext, Plan
  <2>2. carry = LastSeen(PricesOf(1 .. CarryBoundary(completed)))
    BY <1>2, <2>1 DEF CarryLast
  <2>3. PriceStart(batch) - 1 = CarryBoundary(completed)
    <3>1. CASE batch.schedule = {}
      <4>1. PriceStart(batch) = batch.from /\ batch.from <= batch.through
            /\ batch.through <= 2
        BY <3>1, BatchStart DEF IsNext, FactorDays
      <4>2. completed = 1 /\ batch.from = 2
        BY <2>1, <4>1 DEF IsNext, FactorDays
      <4> QED
        BY <4>1, <4>2 DEF CarryBoundary
    <3>2. CASE batch.schedule # {}
      <4>1. PriceStart(batch) = batch.from - 1 /\ batch.from >= 3
        BY <3>2, BatchStart DEF IsNext
      <4>2. CASE batch.from <= completed + 1
        BY <2>1, <4>1, <4>2 DEF CarryBoundary
      <4>3. CASE batch.from <= FirstAvailable /\ completed <= 2
        <5>1. FirstAvailable = 3
          BY <2>1, <4>3, FactorConstants
        <5> QED
          BY <2>1, <4>1, <4>3, <5>1 DEF CarryBoundary
      <4> QED
        BY <4>2, <4>3 DEF IsNext
    <3> QED
      BY <3>1, <3>2
  <2> QED
    BY <1>2, <2>2, <2>3 DEF ReadsEnough, PricesRead
<1> QED
  BY <1>1, <1>2

\* What of the fits below a batch is right.
LEMMA BelowBatch ==
  ASSUME FitsDated, NEW batch, batch.from \in Nat, NEW n \in Int, n < batch.from,
         Trusted \in Int, FactorsMatchFull,
         batch.from <= FirstAvailable \/ n <= Trusted
  PROVE  MatchUpTo(n)
<1>1. CASE batch.from <= FirstAvailable
  BY <1>1, FactorConstants, MatchNothing
<1>2. CASE n <= Trusted
  BY <1>2, TrustedMatch, MatchEarlier
<1> QED
  BY <1>1, <1>2

\* The fits of a batch replace the older ones of its dates.
Replaced(batch, rows) ==
  {r \in fits : r.decision + 2 \notin batch.from .. batch.through} \cup rows

LEMMA ReplacedMatch ==
  ASSUME FitsDated, NEW batch, IsNext(batch), MatchUpTo(batch.from - 1),
         NEW rows, rows = {FullFit(d) : d \in batch.schedule}
  PROVE  {r \in Replaced(batch, rows) : r.decision + 2 <= batch.through}
           = {FullFit(d) : d \in Schedule(FactorStart, batch.through)}
<1> DEFINE from == batch.from
           through == batch.through
           low == {r \in fits : r.decision + 2 <= from - 1}
<1>1. from \in Nat /\ through \in Nat /\ FactorStart <= from /\ from <= through
      /\ FactorStart \in Nat
  BY FactorConstants DEF IsNext, Plan, Covers
<1>2. /\ Schedule(FactorStart, through) = Schedule(FactorStart, from - 1) \cup batch.schedule
      /\ \A d \in batch.schedule : d + 2 <= through
  <2>1. batch.schedule = Schedule(from, through)
    BY DEF IsNext, Covers
  <2> HIDE DEF from, through
  <2> QED
    BY <1>1, <2>1 DEF Schedule, Decisions
<1>3. low = {FullFit(d) : d \in Schedule(FactorStart, from - 1)}
  BY DEF MatchUpTo
<1>4. {r \in Replaced(batch, rows) : r.decision + 2 <= through} = low \cup rows
  <2>1. \A r \in rows : r.decision + 2 <= through
    BY <1>2, FitDecision
  <2>2. \A r \in fits : r.decision + 2 \in Int
    BY DEF FitsDated, Decisions
  <2>3. \A r \in fits : (r.decision + 2 \notin from .. through /\ r.decision + 2 <= through)
                          <=> r.decision + 2 <= from - 1
    BY <1>1, <2>2
  <2> HIDE DEF from, through
  <2>4. Replaced(batch, rows)
          = {r \in fits : r.decision + 2 \notin from .. through} \cup rows
    BY DEF Replaced, from, through
  <2> QED
    BY <2>1, <2>3, <2>4
<1> QED
  BY <1>2, <1>3, <1>4

\* Below the batch nothing is replaced.
LEMMA ReplacedBelow ==
  ASSUME FitsDated, NEW batch, IsNext(batch), NEW n \in Int, n < batch.from, MatchUpTo(n),
         NEW rows, \A r \in rows : r.decision \in batch.schedule
  PROVE  {r \in Replaced(batch, rows) : r.decision + 2 <= n}
           = {FullFit(d) : d \in Schedule(FactorStart, n)}
<1>1. batch.from \in Nat /\ batch.through \in Nat
      /\ batch.schedule = Schedule(batch.from, batch.through)
  BY DEF IsNext, Plan, Covers
<1>2. \A r \in rows : ~(r.decision + 2 <= n)
  BY <1>1 DEF Schedule, Decisions
<1>3. \A r \in fits : r.decision + 2 <= n => r.decision + 2 \notin batch.from .. batch.through
  BY <1>1 DEF FitsDated, Decisions
<1>4. {r \in Replaced(batch, rows) : r.decision + 2 <= n} = {r \in fits : r.decision + 2 <= n}
  BY <1>2, <1>3 DEF Replaced
<1> QED
  BY <1>4 DEF MatchUpTo

\* The session the fits are continuous from.
LEMMA StartBounds ==
  ASSUME validStart \in Nat, NEW batch, IsNext(batch),
         NEW rows, \A r \in rows : r.decision \in batch.schedule
  PROVE  /\ StartAfter(rows) \in Nat
         /\ validStart > 0 => StartAfter(rows) = validStart
         /\ validStart = 0 =>
              \/ StartAfter(rows) = 0 /\ \A r \in rows : ~Supported(r)
              \/ StartAfter(rows) >= batch.from - 1 /\ StartAfter(rows) > 0
<1> DEFINE good == {r.decision + 1 : r \in {x \in rows : Supported(x)}}
<1>1. \A d \in batch.schedule : d \in Nat /\ d + 1 >= batch.from - 1 /\ d + 1 \in 1 .. FactorSessions
  <2>1. batch.schedule = Schedule(batch.from, batch.through) /\ batch.from \in Nat
        /\ batch.through \in Nat
    BY DEF IsNext, Plan, Covers
  <2> QED
    BY <2>1, FactorConstants DEF Schedule, Decisions
<1>2. \A x \in good : x \in 1 .. FactorSessions /\ x >= batch.from - 1
  BY <1>1
<1>3. IsFiniteSet(good) /\ good \subseteq Int
  <2>1. good \subseteq 1 .. FactorSessions
    BY <1>2
  <2>2. IsFiniteSet(1 .. FactorSessions)
    BY FactorConstants, FS_Interval
  <2> HIDE DEF good
  <2>3. IsFiniteSet(good)
    BY <2>1, <2>2, FS_Subset
  <2>4. good \subseteq Int
    BY <2>1
  <2> QED
    BY <2>3, <2>4
<1>4. StartAfter(rows) = IF validStart > 0 THEN validStart
                         ELSE IF good = {} THEN 0 ELSE Min(good)
  BY DEF StartAfter
<1>5. good = {} => \A r \in rows : ~Supported(r)
  OBVIOUS
<1>6. good # {} => Min(good) \in good
  <2> HIDE DEF good
  <2> QED
    BY <1>3, MinMember
<1> HIDE DEF good
<1>7. good # {} => Min(good) \in Nat /\ Min(good) > 0 /\ Min(good) >= batch.from - 1
  BY <1>2, <1>6
<1> QED
  BY <1>4, <1>5, <1>7

LEMMA ReplacedContinuous ==
  ASSUME FitsDated, FactorsContinuous, validStart \in Nat, completed \in Nat, continuity,
         NEW batch, IsNext(batch),
         NEW rows, \A r \in rows : r.decision \in batch.schedule, Continuous(rows),
         NEW r \in Replaced(batch, rows), r.decision + 2 <= batch.through
  PROVE  Supported(r) <=> (StartAfter(rows) > 0 /\ r.decision + 1 >= StartAfter(rows))
<1> DEFINE start == StartAfter(rows)
<1>1. /\ batch.from \in Nat /\ batch.through \in Nat
      /\ batch.schedule = Schedule(batch.from, batch.through)
      /\ batch.from <= completed + 1 \/ batch.from <= FirstAvailable
  BY DEF IsNext, Plan, Covers
<1>2. /\ start \in Nat
      /\ validStart > 0 => start = validStart
      /\ validStart = 0 => \/ start = 0 /\ \A x \in rows : ~Supported(x)
                           \/ start >= batch.from - 1 /\ start > 0
  BY StartBounds
<1>3. CASE r \in rows
  <2>1. start > 0 => (Supported(r) <=> r.decision + 1 >= start)
    BY <1>3 DEF Continuous
  <2> HIDE DEF start
  <2> QED
    BY <1>2, <1>3, <2>1 DEF start
<1>4. CASE r \notin rows
  <2>1. r \in fits /\ r.decision \in Decisions /\ r.decision + 2 >= FactorStart
        /\ r.decision + 2 \notin batch.from .. batch.through
    BY <1>4 DEF Replaced, FitsDated
  <2> DEFINE d == r.decision
  <2>2. d \in Nat \ {0} /\ d + 2 < batch.from
    BY <1>1, <2>1 DEF Decisions
  <2>3. d + 2 <= completed
    BY <1>1, <2>1, <2>2, FactorConstants
  <2>4. Supported(r) <=> (validStart > 0 /\ d + 1 >= validStart)
    BY <2>1, <2>3 DEF FactorsContinuous
  <2> HIDE DEF d, start
  <2>5. Supported(r) <=> (start > 0 /\ d + 1 >= start)
    BY <1>1, <1>2, <2>2, <2>4
  <2> QED
    BY <2>5 DEF d, start
<1> QED
  BY <1>3, <1>4

\* The observation a batch saves is the last one before its boundary.
LEMMA CarrySaved ==
  ASSUME NEW batch, IsNext(batch), ReadsEnough(batch),
         NEW n, n = CarryBoundary(batch.through)
  PROVE  LastSeen({o \in PricesRead(batch) : o[1] <= n}) = LastSeen(PricesOf(1 .. n))
<1>1. batch.through \in FactorDays /\ Covers(batch)
  BY DEF IsNext
<1>2. /\ batch.from \in 1 .. batch.through
      /\ batch.schedule = {} => PriceStart(batch) = batch.from
      /\ batch.schedule # {} => PriceStart(batch) = batch.from - 1
  BY <1>1, BatchStart
<1>3. n \in (PriceStart(batch) - 1) .. batch.through /\ n \in FactorDays
  <2> DEFINE start == PriceStart(batch)
             from == batch.from
             through == batch.through
  <2>1. /\ from \in Nat /\ through \in Nat /\ from >= 1 /\ from <= through
        /\ through <= FactorSessions /\ (start = from \/ start = from - 1)
    BY <1>1, <1>2 DEF FactorDays
  <2>2. n = IF through >= 2 THEN through - 1 ELSE through
    BY DEF CarryBoundary
  <2> HIDE DEF start, from, through
  <2>3. n \in (start - 1) .. through /\ n \in FactorDays
    BY <2>1, <2>2, FactorConstants DEF FactorDays
  <2> QED
    BY <2>3 DEF start, through
<1>4. Valued(PricesRead(batch), n) = Valued(PricesOf(FactorDays), n)
  BY <1>1, <1>3, EnoughValues
<1> QED
  BY <1>3, <1>4, ValuedUpTo DEF Valued

\* A batch that ends a report, or works without one, reads enough; one that
\* leaves a report starts after the date reported.
LEMMA BatchReports ==
  ASSUME FactorInv, NEW batch, IsNext(batch),
         NEW left, left = IF Repairs(batch) \/ affected > admitted THEN 0 ELSE affected
  PROVE  /\ left \in Nat
         /\ left = 0 => /\ ReadsEnough(batch)
                        /\ MatchUpTo(batch.from - 1)
         /\ left # 0 => /\ left = affected /\ left < batch.from
                        /\ MatchUpTo(left - 1)
<1>1. FactorType /\ FitsDated /\ CarryLast /\ FactorsMatchFull
  BY DEF FactorInv
<1>2. /\ affected \in Nat /\ completed \in Nat /\ completed <= admitted /\ admitted \in Nat
      /\ batch.from \in Nat /\ Trusted \in Int
      /\ batch.from <= completed + 1 \/ batch.from <= FirstAvailable
      /\ affected # 0 => Trusted = completed \/ Trusted = affected - 1
      /\ affected = 0 => Trusted = completed
  <2>1. affected \in Nat /\ completed \in Nat /\ completed <= admitted /\ admitted \in Nat
    BY <1>1 DEF FactorType, FactorDays
  <2>2. /\ Trusted \in 0 .. completed
        /\ affected # 0 => Trusted = completed \/ Trusted = affected - 1
        /\ affected = 0 => Trusted = completed
    BY <2>1, TrustedBounds DEF Trusted
  <2> QED
    BY <2>1, <2>2 DEF IsNext, Plan
<1>3. /\ Repairs(batch) <=> \/ batch.from <= affected
                            \/ batch.from <= FirstAvailable /\ ~UsesCarry(batch)
      /\ UsesCarry(batch) => completed < batch.from
  BY <1>2 DEF Repairs, UsesCarry
<1>4. completed \in Nat \ {0} => CarryBoundary(completed) \in Nat
                                 /\ CarryBoundary(completed) <= completed
  BY DEF CarryBoundary
<1>5. ASSUME left = 0 PROVE ReadsEnough(batch)
  <2>1. UsesCarry(batch) => affected \notin 1 .. CarryBoundary(completed)
    <3> SUFFICES ASSUME UsesCarry(batch), affected \in 1 .. CarryBoundary(completed)
                 PROVE  FALSE
      OBVIOUS
    <3>1. completed \in Nat \ {0}
      BY <1>2 DEF UsesCarry
    <3>2. affected <= completed /\ affected # 0
      BY <1>2, <1>4, <3>1
    <3> QED
      BY <1>2, <1>3, <1>5, <3>2
  <2> QED
    BY <1>1, <2>1, NextReads
<1>6. ASSUME left = 0 PROVE MatchUpTo(batch.from - 1)
  <2>1. batch.from <= FirstAvailable \/ batch.from - 1 <= Trusted
    BY <1>2, <1>3, <1>6
  <2>2. batch.from - 1 \in Int /\ batch.from - 1 < batch.from
    BY <1>2
  <2> QED
    BY <1>1, <1>2, <2>1, <2>2, BelowBatch
<1>7. ASSUME left # 0
      PROVE  left = affected /\ left < batch.from /\ MatchUpTo(left - 1)
  <2>1. left = affected /\ left < batch.from
    BY <1>2, <1>3, <1>7
  <2>2. batch.from <= FirstAvailable \/ left - 1 <= Trusted
    BY <1>2, <1>7, <2>1
  <2>3. left - 1 \in Int /\ left - 1 < batch.from
    BY <1>2, <2>1
  <2> QED
    BY <1>1, <1>2, <2>1, <2>2, <2>3, BelowBatch
<1>8. left \in Nat
  BY <1>2
<1> QED
  BY <1>5, <1>6, <1>7, <1>8

LEMMA FitStep ==
  ASSUME FactorInv, FitBatch
  PROVE  FactorInv'
<1>1. PICK batch : batch = Head(batches)
  OBVIOUS
<1>2. PICK rows : rows = {FitRow(d, PricesRead(batch)) : d \in batch.schedule}
  OBVIOUS
<1>3. PICK left : left = IF Repairs(batch) \/ affected > admitted THEN 0 ELSE affected
  OBVIOUS
<1>4. /\ fits' = Replaced(batch, rows) /\ completed' = batch.through
      /\ validStart' = StartAfter(rows)
      /\ carry' = LastSeen({o \in PricesRead(batch) : o[1] <= CarryBoundary(batch.through)})
      /\ affected' = left /\ batches' = Tail(batches)
      /\ Continuous(rows) /\ batches # << >>
      /\ UNCHANGED <<exposure, price, admitted, continuity>>
  BY <1>1, <1>2, <1>3 DEF FitBatch, Replaced
<1>5. FactorType /\ FitsDated /\ PlanFollows /\ FactorsContinuous
  BY DEF FactorInv
<1>6. IsNext(batch) /\ Tail(batches) \in Seq(Plan)
  BY <1>1, <1>4, HeadNext
<1>7. /\ batch.from \in Nat /\ batch.through \in Nat /\ batch.from >= FactorStart
      /\ batch.from <= batch.through /\ batch.through <= admitted /\ FactorStart \in Nat
      /\ batch.schedule = Schedule(batch.from, batch.through) /\ batch.through >= FactorStart
  BY <1>6, FactorConstants DEF IsNext, Plan, Covers
<1>8. \A r \in rows : r.decision \in batch.schedule
  BY <1>2 DEF FitRow
<1>9. /\ left \in Nat
      /\ left = 0 => ReadsEnough(batch) /\ MatchUpTo(batch.from - 1)
      /\ left # 0 => left = affected /\ left < batch.from /\ MatchUpTo(left - 1)
  BY <1>3, <1>6, BatchReports
<1>10. FactorType'
  <2>1. validStart' \in Nat
    BY <1>4, <1>5, <1>6, <1>8, StartBounds DEF FactorType
  <2>2. completed' \in 0 .. admitted /\ completed' >= FactorStart
    BY <1>4, <1>5, <1>7 DEF FactorType, FactorDays
  <2> QED
    BY <1>4, <1>5, <1>6, <1>9, <2>1, <2>2 DEF FactorType
<1>11. FitsDated'
  <2>1. \A r \in rows : r.decision \in Decisions /\ r.decision + 2 >= FactorStart
    BY <1>7, <1>8 DEF Schedule, Decisions
  <2> QED
    BY <1>4, <1>5, <2>1 DEF FitsDated, Replaced
<1>12. PlanFollows'
  <2> DEFINE rest == Tail(batches)
  <2>1. /\ \A i \in 1 .. Len(rest) : rest[i] = batches[i + 1] /\ i + 1 \in 1 .. Len(batches)
        /\ Len(rest) = Len(batches) - 1 /\ Len(batches) \in Nat /\ Len(rest) \in Nat
    BY <1>4, HeadNext
  <2>2. \A i \in 1 .. Len(rest) : Covers(rest[i]) /\ rest[i].through <= admitted
    BY <1>5, <2>1 DEF PlanFollows
  <2>3. ASSUME NEW i \in 1 .. (Len(rest) - 1) PROVE rest[i + 1].from = rest[i].through + 1
    <3>1. i \in 1 .. Len(rest) /\ i + 1 \in 1 .. Len(rest) /\ i + 1 \in 1 .. (Len(batches) - 1)
      BY <2>1
    <3> HIDE DEF rest
    <3> QED
      BY <1>5, <2>1, <3>1 DEF PlanFollows
  <2>4. rest # << >> => rest[1].from = batch.through + 1
    <3> SUFFICES ASSUME rest # << >> PROVE rest[1].from = batch.through + 1
      OBVIOUS
    <3>1. Len(rest) >= 1
      BY <1>6
    <3>2. 1 \in 1 .. Len(rest) /\ 1 \in 1 .. (Len(batches) - 1) /\ batches[1] = batch
      BY <1>1, <1>5, <2>1, <3>1 DEF FactorType
    <3> HIDE DEF rest
    <3>3. rest[1] = batches[1 + 1] /\ batches[1 + 1].from = batches[1].through + 1
      BY <1>5, <2>1, <3>2 DEF PlanFollows
    <3> QED
      BY <3>2, <3>3
  <2>5. batches' = rest /\ admitted' = admitted /\ completed' = batch.through
    BY <1>4
  <2> HIDE DEF rest
  <2>6. rest # << >> => rest[1].from <= completed' + 1
    BY <1>7, <2>4, <2>5
  <2> QED
    BY <2>2, <2>3, <2>5, <2>6 DEF PlanFollows, Covers, Schedule, Decisions
<1>13. CarryLast'
  <2>1. PICK n : n = CarryBoundary(batch.through)
    OBVIOUS
  <2>2. CarryBoundary(completed)' = n /\ n \in Nat
        /\ n = IF batch.through >= 2 THEN batch.through - 1 ELSE batch.through
    BY <1>4, <1>7, <2>1 DEF CarryBoundary
  <2>3. PricesOf(1 .. n)' = PricesOf(1 .. n)
    BY <1>4 DEF PricesOf
  <2>4. LastSeen(PricesOf(1 .. n))' = LastSeen(PricesOf(1 .. n))
    BY <2>3 DEF LastSeen
  <2>5. CASE left = 0
    <3>1. carry' = LastSeen(PricesOf(1 .. n))
      BY <1>4, <1>6, <1>9, <2>1, <2>5, CarrySaved
    <3> QED
      BY <2>2, <2>4, <3>1 DEF CarryLast
  <2>6. CASE left # 0
    <3>1. left \in 1 .. n
      BY <1>7, <1>9, <2>2, <2>6
    <3>2. affected' \in 1 .. CarryBoundary(completed)'
      BY <1>4, <2>2, <3>1
    <3> QED
      BY <3>2 DEF CarryLast, CarryBoundary
  <2> QED
    BY <2>5, <2>6
<1>14. \A d : FullFit(d)' = FullFit(d)
  <2>1. PricesOf(FactorDays)' = PricesOf(FactorDays)
    BY <1>4 DEF PricesOf, FactorDays
  <2> QED
    BY <1>4, <2>1 DEF FullFit, FitRow, Valued, LastSeen
<1>15. FactorsMatchFull'
  <2>1. PICK n \in Int : n = TrustedOf(batch.through, left)
    <3>1. TrustedOf(batch.through, left) \in 0 .. batch.through
      BY <1>7, <1>9, TrustedBounds
    <3> QED
      BY <1>7, <3>1
  <2>2. Trusted' = n
    BY <1>4, <2>1 DEF Trusted, TrustedOf
  <2>3. {r \in Replaced(batch, rows) : r.decision + 2 <= n}
          = {FullFit(d) : d \in Schedule(FactorStart, n)}
    <3>1. CASE left = 0
      <4>1. n = batch.through
        BY <1>7, <2>1, <3>1, TrustedBounds
      <4>2. \A d \in batch.schedule : FitRow(d, PricesRead(batch)) = FullFit(d)
        BY <1>6, <1>9, <3>1, EnoughFits DEF IsNext
      <4>3. rows = {FullFit(d) : d \in batch.schedule}
        BY <1>2, <4>2
      <4> QED
        BY <1>5, <1>6, <1>9, <3>1, <4>1, <4>3, ReplacedMatch
    <3>2. CASE left # 0
      <4>1. n = left - 1
        <5>1. n <= left - 1 /\ (n = batch.through \/ n = left - 1)
          BY <1>7, <1>9, <2>1, <3>2, TrustedBounds
        <5> QED
          BY <1>7, <1>9, <3>2, <5>1
      <4>2. n < batch.from /\ MatchUpTo(n)
        BY <1>7, <1>9, <3>2, <4>1
      <4> QED
        BY <1>5, <1>6, <1>8, <4>2, ReplacedBelow
    <3> QED
      BY <3>1, <3>2
  <2>4. {FullFit(d)' : d \in Schedule(FactorStart, n)}
          = {FullFit(d) : d \in Schedule(FactorStart, n)}
    BY <1>14
  <2>5. MatchUpTo(n)'
    BY <1>4, <2>3, <2>4 DEF MatchUpTo, Schedule, Decisions
  <2> QED
    BY <2>2, <2>5, MatchesNext
<1>16. FactorsContinuous'
  <2> SUFFICES ASSUME continuity, NEW r \in Replaced(batch, rows),
                      r.decision + 2 <= batch.through
               PROVE  Supported(r) <=> (StartAfter(rows) > 0
                                          /\ r.decision + 1 >= StartAfter(rows))
    BY <1>4 DEF FactorsContinuous
  <2>1. validStart \in Nat /\ completed \in Nat
    BY <1>5 DEF FactorType, FactorDays
  <2> QED
    BY <1>4, <1>5, <1>6, <1>8, <2>1, ReplacedContinuous
<1> QED
  BY <1>10, <1>11, <1>12, <1>13, <1>15, <1>16 DEF FactorInv

-----------------------------------------------------------------------------
LEMMA FactorStep ==
  ASSUME FactorInv, [FactorNext]_factorVars
  PROVE  FactorInv'
<1>0. FactorType /\ FitsDated /\ PlanFollows /\ CarryLast /\ FactorsMatchFull
      /\ FactorsContinuous
  BY DEF FactorInv
<1>1. CASE AdmitSession
  <2>1. /\ UNCHANGED <<exposure, price, completed, carry, validStart, continuity, fits,
                       batches, affected>>
        /\ admitted < FactorSessions /\ admitted' = admitted + 1
    BY <1>1 DEF AdmitSession
  <2>2. admitted \in Nat /\ admitted' \in FactorDays /\ admitted <= admitted'
        /\ completed' \in 0 .. admitted'
    BY <1>0, <2>1, FactorConstants DEF FactorType, FactorDays
  <2>3. FactorType'
    BY <1>0, <2>1, <2>2 DEF FactorType
  <2>4. PlanFollows'
    <3>1. ASSUME NEW i \in 1 .. Len(batches)
          PROVE  Covers(batches[i]) /\ batches[i].through <= admitted'
      <4>1. Covers(batches[i]) /\ batches[i].through <= admitted
        BY <1>0 DEF PlanFollows
      <4> DEFINE n == batches[i].through
                 a == admitted'
      <4>2. n \in Nat /\ n <= admitted /\ admitted \in Nat /\ a \in Nat /\ admitted <= a
        BY <2>2, <4>1 DEF Covers, FactorDays
      <4> HIDE DEF n, a
      <4>3. n <= a
        BY <4>2
      <4> QED
        BY <4>1, <4>3 DEF n, a
    <3> QED
      BY <1>0, <2>1, <3>1 DEF PlanFollows, Covers, Schedule, Decisions
  <2>5. CarryLast' /\ FactorsMatchFull'
    BY <1>0, <2>1, SameMarket
  <2> QED
    BY <1>0, <2>1, <2>3, <2>4, <2>5 DEF FactorInv, FitsDated, FactorsContinuous
<1>2. CASE PlanFactors
  BY <1>2, PlanStep
<1>3. CASE FitBatch
  BY <1>3, FitStep
<1>4. CASE StopFitting
  <2>1. /\ UNCHANGED <<exposure, price, admitted, completed, carry, validStart,
                       continuity, fits, affected>>
        /\ batches' = << >>
    BY <1>4 DEF StopFitting
  <2>2. CarryLast' /\ FactorsMatchFull'
    BY <1>0, <2>1, SameMarket
  <2>3. FactorType' /\ PlanFollows'
    BY <1>0, <2>1 DEF FactorType, PlanFollows
  <2> QED
    BY <1>0, <2>1, <2>2, <2>3 DEF FactorInv, FitsDated, FactorsContinuous
<1>5. ASSUME NEW d \in FactorDays, CorrectExposure(d) \/ CorrectPrice(d)
      PROVE  FactorInv'
  BY <1>5, ExposureStep, PriceStep
<1>6. CASE UNCHANGED factorVars
  <2>1. UNCHANGED <<exposure, price, admitted, completed, carry, validStart,
                    continuity, fits, affected, batches>>
    BY <1>6 DEF factorVars
  <2>2. CarryLast' /\ FactorsMatchFull'
    BY <1>0, <2>1, SameMarket
  <2>3. FactorType' /\ PlanFollows'
    BY <1>0, <2>1 DEF FactorType, PlanFollows, Covers, Schedule, Decisions
  <2> QED
    BY <1>0, <2>1, <2>2, <2>3 DEF FactorInv, FitsDated, FactorsContinuous
<1> QED
  BY <1>1, <1>2, <1>3, <1>4, <1>5, <1>6 DEF FactorNext

\* However the host batches, interrupts and repairs its updates, every published
\* fit that no reported revision touches is the one the whole history gives, and
\* none is missing (RiskFactorUpdatePlan.windows, evaluate_risk_factor_returns).
THEOREM FitsMatchHistory ==
  FactorSpec => []FactorsMatchFull
<1>1. FactorInv => FactorsMatchFull
  BY DEF FactorInv
<1> QED
  BY <1>1, FactorsStart, FactorStep, PTL DEF FactorSpec

\* A continuous host publishes no gap after the first supported session and no
\* supported session before it (RISK_CONTINUITY_REQUIRED,
\* RISK_START_REPAIR_REQUIRED).
THEOREM FitsStayContinuous ==
  FactorSpec => []FactorsContinuous
<1>1. FactorInv => FactorsContinuous
  BY DEF FactorInv
<1> QED
  BY <1>1, FactorsStart, FactorStep, PTL DEF FactorSpec

-----------------------------------------------------------------------------
(* Risk profiles: what a day's regression is when the whole history is      *)
(* computed at once, over the inputs and the path of some time.             *)

Markets ==
  [gross : [ProfileDays -> Int], factor : [ProfileDays -> Int],
   path : Nat \ {0}, industry : Nat \ {0}]

Market == [gross |-> gross, factor |-> factor, path |-> pathStart, industry |-> industryStart]

ReturnOn(m, d) == d >= m.path /\ m.gross[d] # Unknown
CompleteOn(m, d) == ReturnOn(m, d) /\ m.factor[d] # Unknown
InputsOf(m, d) == <<d, m.gross[d], m.factor[d]>>
Sample(m, d) == {h \in AtLeast(1, d - RegressionWindow) .. (d - 1) : CompleteOn(m, h)}
Population(m, d) == {k \in {1, 2} : k = 1 \/ m.industry <= d}

TrueReason(m, d) ==
  IF d - 1 < RegressionMinPeriods THEN "regression_warmup"
  ELSE IF m.factor[d] = Unknown THEN "factor_return_unavailable"
  ELSE IF ~ ReturnOn(m, d) THEN "return_unavailable"
  ELSE IF Cardinality(Sample(m, d)) < RegressionMinPeriods
  THEN "incomplete_training_window" ELSE ""

TrueSpecific(m, d) ==
  IF TrueReason(m, d) # "" THEN {}
  ELSE {[day |-> d, own |-> InputsOf(m, d), population |-> Population(m, d),
         history |-> {InputsOf(m, h) : h \in Sample(m, d)}]}

\* The catalogue of a computation over the whole history.
TrueFactors(cutoff) ==
  <<IF cutoff > 1 THEN 1 ELSE 0, IF industryStart < cutoff THEN industryStart ELSE 0>>

\* What holds of the world and never depends on the host.
World ==
  /\ gross \in [ProfileDays -> Int] /\ factor \in [ProfileDays -> Int]
  /\ pathStart \in Nat \ {0} /\ industryStart \in Nat \ {0} /\ gapless \in BOOLEAN
  /\ last \in ProfileDays /\ changed \subseteq ProfileDays
  /\ (\A d \in changed : d < last) /\ revisions \in Nat

LEMMA WindowSizes ==
  /\ ProfileSessions \in Nat \ {0} /\ RegressionWindow \in Nat /\ RegressionMinPeriods \in Nat
  /\ RegressionMinPeriods >= 2 /\ RegressionMinPeriods <= RegressionWindow
  /\ VolatilityWindow \in Nat /\ VolatilityWindow >= 2 /\ MaxCheckpoints \in Nat
  BY ProfileAssumption

\* The halo of a window reaches every session its rows are computed from.
LEMMA WindowReads ==
  ASSUME NEW o \in Nat \ {0}, NEW e \in Nat, NEW d \in Nat, d >= o
  PROVE  LET w == OutputInterval(o, e)
         IN  /\ w.output = o /\ w.end = e /\ w.read \in 1 .. o /\ w.specific \in 1 .. o
             /\ AtLeast(w.read, d - RegressionWindow) = AtLeast(1, d - RegressionWindow)
             /\ d - VolatilityWindow + 1 >= w.read <=> d - VolatilityWindow + 1 >= 1
             /\ w.specific <= AtLeast(1, d - VolatilityWindow + 1)
  BY WindowSizes DEF OutputInterval, AtLeast

LEMMA WindowEnds ==
  ASSUME NEW o \in Nat \ {0}, NEW e \in Nat
  PROVE  /\ OutputInterval(o, e).output = o /\ OutputInterval(o, e).end = e
         /\ OutputInterval(o, e).read \in 1 .. o
  BY WindowSizes DEF OutputInterval, AtLeast

LEMMA RegressionIsTrue ==
  ASSUME World, NEW cutoff \in 1 .. last, NEW o \in Nat \ {0}, NEW e \in Nat,
         NEW d \in o .. e, d < cutoff
  PROVE  LET w == OutputInterval(o, e)
         IN  /\ Reason(d, w, TrueFactors(cutoff), cutoff) = TrueReason(Market, d)
             /\ Specific(d, w, TrueFactors(cutoff), cutoff) = TrueSpecific(Market, d)
<1> DEFINE w == OutputInterval(o, e)
           fs == TrueFactors(cutoff)
           past == AtLeast(1, d - RegressionWindow) .. (d - 1)
<1>1. /\ w.end = e /\ AtLeast(w.read, d - RegressionWindow) = AtLeast(1, d - RegressionWindow)
  BY WindowReads
<1>2. d \in Nat /\ d >= 1 /\ cutoff \in Nat /\ last \in Nat
  BY DEF World, ProfileDays
<1>3. Visible(fs, d) = Population(Market, d) /\ Visible(fs, d) # {}
  <2>1. 1 \in {1, 2} /\ fs[1] = 1 /\ 1 \in 1 .. d
    BY <1>2 DEF TrueFactors
  <2>2. fs[2] \in 1 .. d <=> industryStart <= d
    BY <1>2 DEF TrueFactors, World
  <2> HIDE DEF fs
  <2> QED
    BY <2>1, <2>2 DEF Visible, Population, Market
<1>4. \A h \in past : HasReturn(h, cutoff) /\ HasFactors(h, cutoff) <=> CompleteOn(Market, h)
  BY <1>2 DEF HasReturn, HasFactors, CompleteOn, ReturnOn, Market
<1>5. {h \in AtLeast(w.read, d - RegressionWindow) .. (d - 1) :
          HasReturn(h, cutoff) /\ HasFactors(h, cutoff)} = Sample(Market, d)
  BY <1>1, <1>4 DEF Sample
<1>6. /\ HasFactors(d, cutoff) <=> factor[d] # Unknown
      /\ HasReturn(d, cutoff) <=> ReturnOn(Market, d)
      /\ ~ (d >= AtMost(w.end + 1, cutoff))
  BY <1>1, <1>2 DEF HasReturn, HasFactors, ReturnOn, AtMost, Market
<1> HIDE DEF w, fs
<1>7. Reason(d, w, fs, cutoff) = TrueReason(Market, d)
  <2> DEFINE n == Cardinality({h \in AtLeast(w.read, d - RegressionWindow) .. (d - 1) :
                      HasReturn(h, cutoff) /\ HasFactors(h, cutoff)})
  <2>1. Reason(d, w, fs, cutoff)
          = CASE d - 1 < RegressionMinPeriods -> "regression_warmup"
              [] d - 1 >= RegressionMinPeriods
                 /\ (Visible(fs, d) = {} \/ ~ HasFactors(d, cutoff))
                   -> "factor_return_unavailable"
              [] d - 1 >= RegressionMinPeriods
                 /\ Visible(fs, d) # {} /\ HasFactors(d, cutoff)
                 /\ (~ HasReturn(d, cutoff) \/ d >= AtMost(w.end + 1, cutoff))
                   -> "return_unavailable"
              [] OTHER -> IF n < RegressionMinPeriods
                          THEN "incomplete_training_window" ELSE ""
    BY DEF Reason
  <2>2. n = Cardinality(Sample(Market, d))
    BY <1>5
  <2> HIDE DEF n
  <2>3. d - 1 < RegressionMinPeriods <=> ~ (d - 1 >= RegressionMinPeriods)
    BY <1>2, WindowSizes
  <2> QED
    BY <1>3, <1>6, <2>1, <2>2, <2>3 DEF TrueReason, Market
<1>8. Specific(d, w, fs, cutoff) = TrueSpecific(Market, d)
  <2>1. \A h : InputsOf(Market, h) = Inputs(h)
    BY DEF InputsOf, Inputs, Market
  <2> DEFINE S == {x \in AtLeast(w.read, d - RegressionWindow) .. (d - 1) :
                     HasReturn(x, cutoff) /\ HasFactors(x, cutoff)}
  <2>2. Specific(d, w, fs, cutoff)
          = IF Reason(d, w, fs, cutoff) # "" THEN {}
            ELSE {[day |-> d, own |-> Inputs(d), population |-> Visible(fs, d),
                   history |-> {Inputs(h) : h \in S}]}
    BY DEF Specific
  <2>3. S = Sample(Market, d)
    BY <1>5
  <2> HIDE DEF S
  <2>4. {Inputs(h) : h \in S} = {InputsOf(Market, h) : h \in Sample(Market, d)}
    BY <2>1, <2>3
  <2> QED
    BY <1>3, <1>7, <2>1, <2>2, <2>4 DEF TrueSpecific
<1> QED
  BY <1>7, <1>8 DEF w, fs

LEMMA LastDayPending ==
  ASSUME World, NEW w, NEW factors, NEW cutoff \in 1 .. last
  PROVE  /\ Reason(cutoff, w, factors, cutoff)
              = IF cutoff - 1 < RegressionMinPeriods THEN "regression_warmup"
                ELSE "factor_return_unavailable"
         /\ Specific(cutoff, w, factors, cutoff) = {}
<1>1. cutoff \in Nat /\ ~ HasFactors(cutoff, cutoff)
  BY DEF World, ProfileDays, HasFactors
<1>2. Reason(cutoff, w, factors, cutoff)
        = IF cutoff - 1 < RegressionMinPeriods THEN "regression_warmup"
          ELSE "factor_return_unavailable"
  <2>1. cutoff - 1 < RegressionMinPeriods <=> ~ (cutoff - 1 >= RegressionMinPeriods)
    BY <1>1, WindowSizes
  <2> QED
    BY <1>1, <2>1 DEF Reason
<1> QED
  BY <1>2 DEF Specific

\* A regression depends on the inputs of its day and its window.
LEMMA RegressionReach ==
  ASSUME NEW m \in Markets, NEW n \in Markets, n.path = m.path, n.industry = m.industry,
         NEW d \in Nat \ {0},
         \A h \in (d - RegressionWindow) .. d :
           h >= 1 => m.gross[h] = n.gross[h] /\ m.factor[h] = n.factor[h]
  PROVE  /\ TrueReason(m, d) = TrueReason(n, d)
         /\ TrueSpecific(m, d) = TrueSpecific(n, d)
<1> DEFINE past == AtLeast(1, d - RegressionWindow) .. (d - 1)
<1>1. m.gross[d] = n.gross[d] /\ m.factor[d] = n.factor[d]
  BY WindowSizes
<1>2. \A h \in past : m.gross[h] = n.gross[h] /\ m.factor[h] = n.factor[h]
  BY WindowSizes DEF AtLeast
<1>3. Sample(m, d) = Sample(n, d)
  BY <1>2 DEF Sample, CompleteOn, ReturnOn
<1>4. TrueReason(m, d) = TrueReason(n, d)
  BY <1>1, <1>3 DEF TrueReason, ReturnOn
<1>5. {InputsOf(m, h) : h \in Sample(m, d)} = {InputsOf(n, h) : h \in Sample(n, d)}
  BY <1>2, <1>3 DEF Sample, InputsOf
<1>6. Population(m, d) = Population(n, d) /\ InputsOf(m, d) = InputsOf(n, d)
  BY <1>1 DEF Population, InputsOf
<1> QED
  BY <1>4, <1>5, <1>6 DEF TrueSpecific

LEMMA EarlierOf ==
  ASSUME NEW a \in Nat, NEW b \in Nat
  PROVE  /\ EarlierDay(a, b) \in Nat
         /\ a = 0 => EarlierDay(a, b) = b
         /\ b = 0 => EarlierDay(a, b) = a
         /\ a # 0 /\ b # 0 => /\ EarlierDay(a, b) <= a /\ EarlierDay(a, b) <= b
                              /\ EarlierDay(a, b) \in {a, b}
  BY DEF EarlierDay, AtMost

\* The catalogue grows with the cutoff and does not depend on where it is
\* continued from.
LEMMA CatalogueContinues ==
  ASSUME World, NEW c \in Nat, NEW cutoff \in 1 .. last, c <= cutoff,
         NEW read \in Nat \ {0}, read <= AtLeast(1, c)
  PROVE  Catalogue(TrueFactors(c), read, cutoff) = TrueFactors(cutoff)
<1> DEFINE known == {d \in ProfileDays : d >= read /\ d < cutoff}
           industry == {d \in known : d >= industryStart}
           m == IF known = {} THEN 0 ELSE Min(known)
           n == IF industry = {} THEN 0 ELSE Min(industry)
           fs == TrueFactors(c)
<1>0. cutoff \in Nat /\ last \in Nat /\ cutoff <= ProfileSessions /\ ProfileSessions \in Nat
      /\ industryStart \in Nat \ {0}
  BY WindowSizes DEF World, ProfileDays
<1>1. /\ known \subseteq Int /\ IsFiniteSet(known)
      /\ industry \subseteq Int /\ IsFiniteSet(industry)
  <2>1. 1 \in Int /\ ProfileSessions \in Int
    BY <1>0
  <2>2. IsFiniteSet(1 .. ProfileSessions)
    BY <2>1, FS_Interval
  <2>3. known \subseteq 1 .. ProfileSessions /\ industry \subseteq 1 .. ProfileSessions
    BY DEF ProfileDays
  <2> HIDE DEF known, industry
  <2>4. IsFiniteSet(known) /\ IsFiniteSet(industry)
    BY <2>2, <2>3, FS_Subset
  <2> QED
    BY <2>3, <2>4
<1>2. /\ known = {} => m = 0
      /\ known # {} => m \in known /\ \A x \in known : m <= x
  BY <1>1, MinMember
<1>3. /\ industry = {} => n = 0
      /\ industry # {} => n \in industry /\ \A x \in industry : n <= x
  BY <1>1, MinMember
<1> HIDE DEF m, n
<1>4. m = IF read < cutoff THEN read ELSE 0
  <2>1. CASE read < cutoff
    <3>1. read \in known
      BY <1>0, <2>1 DEF ProfileDays
    <3> QED
      <4>1. m \in known /\ m <= read
        <5> HIDE DEF known
        <5> QED
          BY <1>2, <3>1
      <4> QED
        BY <1>0, <2>1, <4>1 DEF ProfileDays
  <2>2. CASE ~ (read < cutoff)
    <3>1. known = {}
      BY <1>0, <2>2 DEF ProfileDays
    <3> HIDE DEF known, industry
    <3> QED
      BY <1>2, <2>2, <3>1
  <2> QED
    BY <2>1, <2>2
<1>5. n = IF AtLeast(read, industryStart) < cutoff THEN AtLeast(read, industryStart) ELSE 0
  <2> DEFINE x == AtLeast(read, industryStart)
  <2>1. CASE x < cutoff
    <3>1. x \in industry
      BY <1>0, <2>1 DEF ProfileDays, AtLeast
    <3> QED
      BY <1>3, <2>1, <3>1, <1>0 DEF AtLeast, ProfileDays
  <2>2. CASE ~ (x < cutoff)
    <3>1. industry = {}
      BY <1>0, <2>2 DEF AtLeast, ProfileDays
    <3> HIDE DEF known, industry
    <3> QED
      BY <1>3, <2>2, <3>1
  <2> QED
    BY <2>1, <2>2
<1>6. /\ fs[1] = IF c > 1 THEN 1 ELSE 0
      /\ fs[2] = IF industryStart < c THEN industryStart ELSE 0
  BY DEF TrueFactors
<1>7. Catalogue(fs, read, cutoff) = <<EarlierDay(fs[1], m), EarlierDay(fs[2], n)>>
  BY DEF Catalogue, m, n
<1> HIDE DEF fs
<1>8. EarlierDay(fs[1], m) = IF cutoff > 1 THEN 1 ELSE 0
  BY <1>0, <1>4, <1>6 DEF EarlierDay, AtMost, AtLeast
<1>9. EarlierDay(fs[2], n) = IF industryStart < cutoff THEN industryStart ELSE 0
  BY <1>0, <1>5, <1>6 DEF EarlierDay, AtMost, AtLeast
<1> QED
  BY <1>7, <1>8, <1>9 DEF TrueFactors, fs


-----------------------------------------------------------------------------
(* What a result is made of.                                                *)

OutputDays(w, cutoff) ==
  AtLeast(w.output, AtLeast(w.read, pathStart)) .. AtMost(w.end, cutoff)

SpecificsOf(w, base, rows, factors, cutoff) ==
  UNION ({{<<r.day, s>> : s \in r.specific} : r \in {r \in rows : r.day \in Halo(w, base)}}
         \cup {{<<d, s>> : s \in Specific(d, w, factors, cutoff)} : d \in OutputDays(w, cutoff)})

ReturnsOf(w, cutoff) ==
  {<<d, gross[d]>> : d \in {x \in w.read .. w.end : HasReturn(x, cutoff)}}

RowOf(d, w, base, rows, factors, cutoff) ==
  [day |-> d, reason |-> Reason(d, w, factors, cutoff),
   specific |-> Specific(d, w, factors, cutoff),
   grossVolatility |-> Volatility(ReturnsOf(w, cutoff), d, w),
   specificVolatility |-> Volatility(SpecificsOf(w, base, rows, factors, cutoff), d, w)]

DaysOf(rows) == {r.day : r \in rows}
KeptRows(rows, o, e) == {r \in rows : r.day \notin o .. e}

LEMMA RowsOfDays ==
  ASSUME NEW w, NEW base, NEW rows, NEW factors, NEW cutoff
  PROVE  OutputRows(w, base, rows, factors, cutoff)
           = {RowOf(d, w, base, rows, factors, cutoff) : d \in OutputDays(w, cutoff)}
  BY DEF OutputRows, RowOf, SpecificsOf, ReturnsOf, OutputDays

LEMMA OutputInterior ==
  ASSUME World, NEW cutoff \in 1 .. last, NEW o \in 1 .. cutoff, NEW e \in o .. cutoff
  PROVE  OutputDays(OutputInterval(o, e), cutoff) = AtLeast(o, pathStart) .. e
<1>1. cutoff \in Nat /\ pathStart \in Nat
  BY DEF World, ProfileDays
<1>2. LET w == OutputInterval(o, e) IN w.output = o /\ w.end = e /\ w.read \in 1 .. o
  BY <1>1, WindowEnds
<1> QED
  BY <1>1, <1>2 DEF OutputDays, AtLeast, AtMost

\* A regression that is given as it is from the whole history.
IsTrue(r, m) == r.reason = TrueReason(m, r.day) /\ r.specific = TrueSpecific(m, r.day)

\* A row of an output is true, or that of a day without returns yet.
OutputRow(r, o, e, cutoff) ==
  /\ r.day \in o .. e /\ r.day >= pathStart
  /\ r.day < cutoff => IsTrue(r, Market)
  /\ r.day = cutoff => r.reason # "" /\ r.specific = {}

LEMMA OutputIsTrue ==
  ASSUME World, NEW cutoff \in 1 .. last, NEW o \in 1 .. cutoff, NEW e \in o .. cutoff,
         NEW base, NEW rows,
         NEW r \in OutputRows(OutputInterval(o, e), base, rows, TrueFactors(cutoff), cutoff)
  PROVE  OutputRow(r, o, e, cutoff)
<1> DEFINE w == OutputInterval(o, e)
           fs == TrueFactors(cutoff)
<1>1. cutoff \in Nat /\ pathStart \in Nat /\ o \in Nat \ {0} /\ e \in Nat
  BY DEF World, ProfileDays
<1>2. PICK d \in AtLeast(o, pathStart) .. e : r = RowOf(d, w, base, rows, fs, cutoff)
  BY RowsOfDays, OutputInterior
<1>3. /\ r.day = d /\ r.reason = Reason(d, w, fs, cutoff)
      /\ r.specific = Specific(d, w, fs, cutoff)
  BY <1>2 DEF RowOf
<1>4. d \in o .. e /\ d >= pathStart /\ d <= cutoff
  BY <1>1, <1>2 DEF AtLeast
<1>5. CASE d < cutoff
  <2>1. /\ Reason(d, w, fs, cutoff) = TrueReason(Market, d)
        /\ Specific(d, w, fs, cutoff) = TrueSpecific(Market, d)
    BY <1>1, <1>4, <1>5, RegressionIsTrue
  <2> HIDE DEF w, fs
  <2>2. r.reason = TrueReason(Market, r.day) /\ r.specific = TrueSpecific(Market, r.day)
    BY <1>3, <2>1
  <2>3. r.day \in o .. e /\ r.day >= pathStart
    BY <1>3, <1>4
  <2>4. r.day < cutoff /\ ~ (r.day = cutoff)
    BY <1>1, <1>3, <1>4, <1>5
  <2>5. IsTrue(r, Market)
    BY <2>2 DEF IsTrue
  <2> QED
    BY <2>3, <2>4, <2>5 DEF OutputRow
<1>6. CASE d = cutoff
  <2>1. /\ Reason(cutoff, w, fs, cutoff) # ""
        /\ Specific(cutoff, w, fs, cutoff) = {}
    BY LastDayPending
  <2> HIDE DEF w, fs
  <2>2. r.day \in o .. e /\ r.day >= pathStart
    BY <1>3, <1>4
  <2>3. ~ (r.day < cutoff)
    BY <1>1, <1>3, <1>4, <1>6
  <2>4. r.reason # "" /\ r.specific = {}
    BY <1>3, <1>6, <2>1
  <2> QED
    BY <2>2, <2>3, <2>4 DEF OutputRow
<1> HIDE DEF w, fs
<1> QED
  BY <1>1, <1>3, <1>4, <1>5, <1>6

\* A result keeps the rows outside its interval and computes those inside.
SavedRows(base, retained, rows, o, e, c) ==
  LET w == OutputInterval(o, e)
      new == Result(w, base, retained, rows, c)
      out == OutputRows(w, base, rows, TrueFactors(c), c)
  IN  /\ new.rows = KeptRows(rows, o, e) \cup out
      /\ new.state = StateAfter(w, base, retained, out, c)
      /\ DaysOf(out) = AtLeast(o, pathStart) .. e
      /\ DaysOf(new.rows) = pathStart .. c

LEMMA ResultRows ==
  ASSUME World, NEW base, NEW retained, NEW rows, NEW c \in 1 .. last, NEW o \in 1 .. c,
         NEW e \in o .. c, NEW c0 \in 0 .. c, retained.factors = TrueFactors(c0),
         o <= AtLeast(1, c0), e = c \/ c0 = c, DaysOf(rows) = pathStart .. c0
  PROVE  SavedRows(base, retained, rows, o, e, c)
<1> DEFINE w == OutputInterval(o, e)
           new == Result(w, base, retained, rows, c)
           out == OutputRows(w, base, rows, TrueFactors(c), c)
<1>1. /\ c \in Nat /\ c0 \in Nat /\ o \in Nat \ {0} /\ e \in Nat /\ pathStart \in Nat \ {0}
      /\ last \in Nat
  BY DEF World, ProfileDays
<1>2. w.output = o /\ w.end = e /\ w.read \in 1 .. o
  BY <1>1, WindowEnds
<1>3. Catalogue(retained.factors, w.read, c) = TrueFactors(c)
  BY <1>1, <1>2, CatalogueContinues DEF AtLeast
<1>4. /\ new.rows = KeptRows(rows, o, e) \cup out
      /\ new.state = StateAfter(w, base, retained, out, c)
  BY <1>2, <1>3 DEF Result, KeptRows
<1>5. DaysOf(out) = AtLeast(o, pathStart) .. e
  <2>1. out = {RowOf(d, w, base, rows, TrueFactors(c), c) : d \in AtLeast(o, pathStart) .. e}
    BY RowsOfDays, OutputInterior
  <2>2. \A d : RowOf(d, w, base, rows, TrueFactors(c), c).day = d
    BY DEF RowOf
  <2> HIDE DEF out
  <2> QED
    BY <2>1, <2>2 DEF DaysOf
<1> HIDE DEF new, out
<1>6. DaysOf(new.rows) = pathStart .. c
  <2>1. DaysOf(new.rows)
          = {d \in pathStart .. c0 : d \notin o .. e} \cup (AtLeast(o, pathStart) .. e)
    BY <1>4, <1>5 DEF DaysOf, KeptRows
  <2> QED
    BY <1>1, <2>1 DEF AtLeast
<1> QED
  BY <1>4, <1>5, <1>6 DEF new, out, SavedRows

LEMMA ResultState ==
  ASSUME World, NEW base, NEW retained, NEW rows, NEW c \in 1 .. last, NEW o \in 1 .. c,
         NEW e \in o .. c, NEW c0 \in 0 .. c, retained.factors = TrueFactors(c0),
         o <= AtLeast(1, c0),
         e < c => /\ retained # NoState /\ retained.pending \in 1 .. c
                  /\ retained.proofThrough = AtLeast(1, retained.pending - 1)
  PROVE  LET w == OutputInterval(o, e)
             s == StateAfter(w, base, retained, rows, c)
             first == AtLeast(w.read, pathStart)
         IN  /\ s.through = c /\ s.factors = TrueFactors(c) /\ s.pending \in 1 .. c
             /\ s.proofThrough = AtLeast(1, s.pending - 1)
             /\ s.prefix = InputProof(s.proofThrough, c)
             /\ s.validStart = ValidStart(retained.validStart, rows)
             /\ s.origin = IF e < c THEN retained.origin
                           ELSE EarlierDay(base.origin, IF first <= e THEN first ELSE 0)
<1> DEFINE w == OutputInterval(o, e)
           s == StateAfter(w, base, retained, rows, c)
           complete == {d \in w.read .. (AtMost(w.end + 1, c) - 1) :
                          HasReturn(d, c) /\ HasFactors(d, c)}
           pending == IF e < c THEN retained.pending
                      ELSE IF complete = {} THEN o ELSE Max(complete) + 1
<1>1. /\ c \in Nat /\ c0 \in Nat /\ o \in Nat \ {0} /\ e \in Nat /\ pathStart \in Nat \ {0}
      /\ last \in Nat
  BY DEF World, ProfileDays
<1>2. w.output = o /\ w.end = e /\ w.read \in 1 .. o /\ AtMost(w.end, c) = e
  BY <1>1, WindowEnds DEF AtMost
<1>3. Catalogue(retained.factors, w.read, c) = TrueFactors(c)
  BY <1>1, <1>2, CatalogueContinues DEF AtLeast
<1>4. pending \in 1 .. c
  <2>1. CASE e < c
    BY <2>1
  <2>2. CASE e = c /\ complete = {}
    BY <1>1, <2>2
  <2>3. CASE e = c /\ complete # {}
    <3>1. complete \subseteq 1 .. (c - 1)
      BY <1>1, <1>2 DEF AtMost
    <3>2. IsFiniteSet(1 .. (c - 1)) /\ 1 .. (c - 1) \subseteq Int
      BY <1>1, FS_Interval
    <3> HIDE DEF complete
    <3>3. IsFiniteSet(complete) /\ complete \subseteq Int
      BY <3>1, <3>2, FS_Subset
    <3>4. Max(complete) \in complete
      BY <2>3, <3>3, MaxMember
    <3>5. pending = Max(complete) + 1
      BY <1>1, <2>3
    <3>6. Max(complete) \in 1 .. (c - 1)
      BY <3>1, <3>4
    <3> HIDE DEF pending
    <3> QED
      BY <1>1, <3>5, <3>6
  <2> QED
    BY <1>1, <2>1, <2>2, <2>3
<1>5. (w.end < c /\ retained # NoState) <=> e < c
  BY <1>2
<1>6. s.pending = pending
  BY <1>2, <1>5 DEF StateAfter
<1>7. /\ s.through = c /\ s.factors = Catalogue(retained.factors, w.read, c)
      /\ s.validStart = ValidStart(retained.validStart, rows)
  BY DEF StateAfter
<1>8. s.proofThrough = AtLeast(1, pending - 1)
  BY <1>2, <1>5 DEF StateAfter
<1>9. s.prefix = InputProof(s.proofThrough, c)
  BY <1>2, <1>5 DEF StateAfter
<1>10. LET first == AtLeast(w.read, pathStart)
       IN  s.origin = IF e < c THEN retained.origin
                      ELSE EarlierDay(base.origin, IF first <= e THEN first ELSE 0)
  BY <1>2, <1>5 DEF StateAfter
<1> HIDE DEF s, pending
<1> QED
  BY <1>3, <1>4, <1>6, <1>7, <1>8, <1>9, <1>10 DEF s

LEMMA StartIsMember ==
  ASSUME NEW saved \in Nat, NEW out, DaysOf(out) \subseteq Nat \ {0},
         IsFiniteSet(DaysOf(out))
  PROVE  LET v == ValidStart(saved, out)
         IN  /\ v \in Nat
             /\ saved > 0 => v = saved
             /\ (saved = 0 /\ v = 0) => \A r \in out : r.reason # ""
             /\ (saved = 0 /\ v > 0) => /\ \E r \in out : r.day = v /\ r.reason = ""
                                        /\ \A r \in out : r.reason = "" => v <= r.day
<1> DEFINE good == {r.day : r \in {x \in out : x.reason = ""}}
           v == ValidStart(saved, out)
<1>1. v = IF saved > 0 THEN saved ELSE IF good = {} THEN 0 ELSE Min(good)
  BY DEF ValidStart
<1>2. good \subseteq DaysOf(out)
  BY DEF DaysOf
<1>3. IsFiniteSet(good) /\ good \subseteq Nat \ {0} /\ good \subseteq Int
  <2> HIDE DEF good
  <2> QED
    BY <1>2, FS_Subset
<1>4. good # {} => Min(good) \in good /\ \A x \in good : Min(good) <= x
  <2> HIDE DEF good
  <2> QED
    BY <1>3, MinMember
<1>5. good = {} => \A r \in out : r.reason # ""
  OBVIOUS
<1>6. \A x \in good : \E r \in out : r.day = x /\ r.reason = ""
  OBVIOUS
<1>7. \A r \in out : r.reason = "" => r.day \in good
  OBVIOUS
<1> HIDE DEF v, good
<1>8. /\ v \in Nat
      /\ saved > 0 => v = saved
      /\ (saved = 0 /\ v = 0) => good = {}
      /\ (saved = 0 /\ v > 0) => v \in good /\ \A x \in good : v <= x
  BY <1>1, <1>3, <1>4
<1>9. /\ (saved = 0 /\ v = 0) => \A r \in out : r.reason # ""
      /\ (saved = 0 /\ v > 0) => /\ \E r \in out : r.day = v /\ r.reason = ""
                                 /\ \A r \in out : r.reason = "" => v <= r.day
  BY <1>5, <1>6, <1>7, <1>8
<1>10. /\ v \in Nat
       /\ saved > 0 => v = saved
       /\ (saved = 0 /\ v = 0) => \A r \in out : r.reason # ""
       /\ (saved = 0 /\ v > 0) => /\ \E r \in out : r.day = v /\ r.reason = ""
                                  /\ \A r \in out : r.reason = "" => v <= r.day
  BY <1>8, <1>9
<1> QED
  BY <1>10 DEF v

-----------------------------------------------------------------------------
(* The invariant of a saved profile: the shape of its state, continuity,    *)
(* and which of its regressions are those of the whole history.             *)

ProofOf(m, proof, through) == {InputsOf(m, d) : d \in {x \in 1 .. proof : x < through}}

\* The metadata of a result through a session, and the days of its rows.
Shaped(p, through) ==
  /\ p.state.through = through /\ p.state.pending \in 1 .. through
  /\ p.state.proofThrough = AtLeast(1, p.state.pending - 1)
  /\ p.state.factors = TrueFactors(through) /\ p.state.validStart \in Nat
  /\ DaysOf(p.rows) = pathStart .. through

\* An origin is never before the path.
OriginSeen(s) == s.origin \in Nat /\ (s.origin = 0 \/ s.origin >= pathStart)

\* No supported day without a start, none without a regression after it.
GapFree(p, through) ==
  /\ p.state.validStart = 0 => \A r \in p.rows : r.reason # ""
  /\ (gapless /\ p.state.validStart > 0) =>
       \A r \in p.rows : r.day \in p.state.validStart .. (through - 1) => r.reason = ""

\* The prefix a state proves determines the rows before its pending day.
Proves(p) ==
  \A m \in Markets :
    /\ m.path = pathStart /\ m.industry = industryStart
    /\ p.state.prefix = ProofOf(m, p.state.proofThrough, p.state.through)
    => \A r \in p.rows : r.day < p.state.pending => IsTrue(r, m)

\* A row is true unless an input it was computed from has changed.
Unreached(p) ==
  \A r \in p.rows :
    (r.day < p.state.through /\ \A d \in changed : d < r.day - RegressionWindow \/ d > r.day)
      => IsTrue(r, Market)

ProfileInv ==
  /\ World
  /\ profile.state = NoState => profile.rows = {}
  /\ profile.state # NoState =>
       /\ profile.state.through \in 1 .. last
       /\ Shaped(profile, profile.state.through)
       /\ GapFree(profile, profile.state.through)
       /\ Proves(profile) /\ Unreached(profile)
       /\ changed = {} => profile.state.prefix =
                            InputProof(profile.state.proofThrough, profile.state.through)

-----------------------------------------------------------------------------
(* What a step that saves a result starts from.                             *)

\* No input that the row of a day was computed from can have changed: the
\* prefix is proved, or no change reaches the day's volatility window.
Untouched(d) ==
  \/ /\ d < profile.state.pending
     /\ profile.state.prefix =
          InputProof(profile.state.proofThrough, profile.state.through)
  \/ /\ d < profile.state.through
     /\ \A x \in changed : x < d - RegressionWindow - VolatilityWindow + 1 \/ x > d

Saves(base, o, e, c) ==
  /\ c = IF profile.state = NoState THEN last
         ELSE IF base = profile.state THEN last ELSE profile.state.through
  /\ c \in 1 .. last /\ profile.state.through <= c /\ base.through \in 0 .. c
  /\ o \in 1 .. AtLeast(1, profile.state.through) /\ e \in o .. c
  /\ e < c => profile.state # NoState /\ profile.state.through = c
  /\ \A r \in profile.rows : (r.day \notin o .. e /\ r.day < c) => Untouched(r.day)
  /\ e < c => /\ e - VolatilityWindow + 2 >= o
              /\ \A r \in profile.rows :
                   r.day \in (e - VolatilityWindow + 2) .. e => IsTrue(r, Market)

LEMMA MarketType == World => Market \in Markets
  BY DEF World, Market, Markets

LEMMA InputProofOf ==
  ASSUME NEW p, NEW t
  PROVE  InputProof(p, t) = ProofOf(Market, p, t)
  BY DEF InputProof, ProofOf, InputsOf, Inputs, Market

LEMMA UntouchedIsTrue ==
  ASSUME ProfileInv, NEW r \in profile.rows, Untouched(r.day)
  PROVE  IsTrue(r, Market)
<1>1. /\ Proves(profile) /\ Unreached(profile) /\ Market \in Markets
      /\ \A x \in changed : x \in Nat
      /\ Shaped(profile, profile.state.through) /\ profile.state.through \in Nat
      /\ pathStart \in Nat
  BY MarketType DEF ProfileInv, World, ProfileDays
<1>2. r.day \in Nat
  <2>1. r.day \in DaysOf(profile.rows)
    BY DEF DaysOf
  <2>2. r.day \in pathStart .. profile.state.through
    BY <1>1, <2>1 DEF Shaped
  <2> QED
    BY <1>1, <2>2
<1>3. CASE /\ r.day < profile.state.pending
           /\ profile.state.prefix =
                InputProof(profile.state.proofThrough, profile.state.through)
  BY <1>1, <1>3, InputProofOf DEF Proves, Market
<1>4. CASE /\ r.day < profile.state.through
           /\ \A x \in changed :
                x < r.day - RegressionWindow - VolatilityWindow + 1 \/ x > r.day
  <2>1. \A x \in changed : x < r.day - RegressionWindow \/ x > r.day
    BY <1>1, <1>2, <1>4, WindowSizes
  <2> QED
    BY <1>1, <1>4, <2>1 DEF Unreached
<1> QED
  BY <1>3, <1>4 DEF Untouched

\* What a saving step finds.
LEMMA SavedBounds ==
  ASSUME ProfileInv, NEW base, NEW o, NEW e, NEW c, Saves(base, o, e, c)
  PROVE  LET c0 == profile.state.through
         IN  /\ c \in Nat /\ c0 \in Nat /\ o \in Nat \ {0} /\ e \in Nat
             /\ pathStart \in Nat \ {0} /\ last \in Nat /\ World /\ c \in 1 .. last
             /\ c0 \in 0 .. c /\ profile.state.factors = TrueFactors(c0)
             /\ profile.state.validStart \in Nat /\ DaysOf(profile.rows) = pathStart .. c0
             /\ o \in 1 .. c /\ e \in o .. c /\ o <= AtLeast(1, c0) /\ (e = c \/ c0 = c)
<1> DEFINE c0 == profile.state.through
<1>1. /\ c \in Nat /\ c0 \in Nat /\ o \in Nat \ {0} /\ e \in Nat /\ pathStart \in Nat \ {0}
      /\ last \in Nat /\ World /\ c \in 1 .. last /\ c0 \in 0 .. c
      /\ profile.state.factors = TrueFactors(c0) /\ profile.state.validStart \in Nat
      /\ DaysOf(profile.rows) = pathStart .. c0
  <2>1. World /\ last \in Nat /\ pathStart \in Nat \ {0} /\ industryStart \in Nat \ {0}
    BY DEF ProfileInv, World, ProfileDays
  <2>2. CASE profile.state = NoState
    <3>1. c0 = 0 /\ profile.state.factors = <<0, 0>> /\ profile.state.validStart = 0
      BY <2>2 DEF NoState
    <3>2. TrueFactors(0) = <<0, 0>>
      BY <2>1 DEF TrueFactors
    <3>3. DaysOf(profile.rows) = pathStart .. 0
      BY <2>1, <2>2 DEF ProfileInv, DaysOf
    <3> QED
      BY <2>1, <3>1, <3>2, <3>3 DEF Saves, AtLeast
  <2>3. CASE profile.state # NoState
    <3>1. c0 \in 1 .. last /\ Shaped(profile, c0)
      BY <2>3 DEF ProfileInv
    <3> QED
      BY <2>1, <3>1 DEF Saves, AtLeast, Shaped
  <2> QED
    BY <2>2, <2>3
<1>2. /\ o \in 1 .. c /\ e \in o .. c /\ o <= AtLeast(1, c0) /\ (e = c \/ c0 = c)
  BY <1>1 DEF Saves, AtLeast
<1> QED
  BY <1>1, <1>2

LEMMA SavedShape ==
  ASSUME ProfileInv, NEW base, NEW o, NEW e, NEW c, Saves(base, o, e, c)
  PROVE  LET w == OutputInterval(o, e)
             n == Result(w, base, profile.state, profile.rows, c)
             out == OutputRows(w, base, profile.rows, TrueFactors(c), c)
         IN  /\ Shaped(n, c)
             /\ n.state.prefix = InputProof(n.state.proofThrough, c)
             /\ n.rows = KeptRows(profile.rows, o, e) \cup out
             /\ DaysOf(out) = AtLeast(o, pathStart) .. e
             /\ n.state.validStart = ValidStart(profile.state.validStart, out)
             /\ profile.state.validStart \in Nat
             /\ n.state.origin =
                  IF e < c THEN profile.state.origin
                  ELSE EarlierDay(base.origin,
                         IF AtLeast(w.read, pathStart) <= e THEN AtLeast(w.read, pathStart) ELSE 0)
<1> DEFINE w == OutputInterval(o, e)
           n == Result(w, base, profile.state, profile.rows, c)
           out == OutputRows(w, base, profile.rows, TrueFactors(c), c)
           c0 == profile.state.through
<1>1. /\ c \in Nat /\ c0 \in Nat /\ o \in Nat \ {0} /\ e \in Nat /\ pathStart \in Nat \ {0}
      /\ last \in Nat /\ World /\ c \in 1 .. last /\ c0 \in 0 .. c
      /\ profile.state.factors = TrueFactors(c0) /\ profile.state.validStart \in Nat
      /\ DaysOf(profile.rows) = pathStart .. c0
  BY SavedBounds
<1>2. /\ o \in 1 .. c /\ e \in o .. c /\ o <= AtLeast(1, c0) /\ (e = c \/ c0 = c)
  BY SavedBounds
<1>3. e < c => /\ profile.state # NoState /\ profile.state.pending \in 1 .. c
               /\ profile.state.proofThrough = AtLeast(1, profile.state.pending - 1)
  BY DEF Saves, ProfileInv, Shaped
<1> HIDE DEF c0
<1>4. /\ n.rows = KeptRows(profile.rows, o, e) \cup out
      /\ n.state = StateAfter(w, base, profile.state, out, c)
      /\ DaysOf(out) = AtLeast(o, pathStart) .. e
      /\ DaysOf(n.rows) = pathStart .. c
  <2>1. SavedRows(base, profile.state, profile.rows, o, e, c)
    BY <1>1, <1>2, ResultRows
  <2> QED
    BY <2>1 DEF SavedRows
<1> DEFINE s == StateAfter(w, base, profile.state, out, c)
           first == AtLeast(w.read, pathStart)
<1>5. /\ s.through = c /\ s.factors = TrueFactors(c) /\ s.pending \in 1 .. c
      /\ s.proofThrough = AtLeast(1, s.pending - 1)
      /\ s.prefix = InputProof(s.proofThrough, c)
      /\ s.validStart = ValidStart(profile.state.validStart, out)
      /\ s.origin = IF e < c THEN profile.state.origin
                    ELSE EarlierDay(base.origin, IF first <= e THEN first ELSE 0)
  <2> HIDE DEF out
  <2> QED
    BY <1>1, <1>2, <1>3, ResultState
<1> DEFINE days == DaysOf(out)
<1>6. s.validStart \in Nat
  <2>1. days \subseteq Nat \ {0} /\ IsFiniteSet(days)
    <3>1. IsFiniteSet(AtLeast(o, pathStart) .. e)
      <4>1. AtLeast(o, pathStart) \in Int /\ e \in Int
        BY <1>1 DEF AtLeast
      <4> HIDE DEF days, out, s, n, w
      <4> QED
        BY <4>1, FS_Interval
    <3>2. days = AtLeast(o, pathStart) .. e
      BY <1>4
    <3> HIDE DEF days
    <3> QED
      BY <1>1, <3>1, <3>2 DEF AtLeast
  <2> HIDE DEF out, s
  <2> QED
    BY <1>1, <1>5, <2>1, StartIsMember
<1> HIDE DEF n, s, out, w
<1>7. Shaped(n, c)
  BY <1>4, <1>5, <1>6 DEF Shaped, s
<1> QED
  BY <1>1, <1>4, <1>5, <1>7 DEF n, s, out, w

\* Every row of a result before its last day is true.
LEMMA SavedTrue ==
  ASSUME ProfileInv, NEW base, NEW o, NEW e, NEW c, Saves(base, o, e, c),
         NEW r \in Result(OutputInterval(o, e), base, profile.state, profile.rows, c).rows
  PROVE  /\ r.day < c => IsTrue(r, Market)
         /\ r.day \in pathStart .. c
         /\ \/ r \in profile.rows /\ r.day \notin o .. e
            \/ /\ r.day \in o .. e /\ r.day = c => r.reason # ""
               /\ r \in OutputRows(OutputInterval(o, e), base, profile.rows, TrueFactors(c), c)
<1> DEFINE w == OutputInterval(o, e)
           n == Result(w, base, profile.state, profile.rows, c)
           out == OutputRows(w, base, profile.rows, TrueFactors(c), c)
<1>1. World /\ c \in 1 .. last /\ o \in 1 .. c /\ e \in o .. c /\ last \in Nat
  BY DEF ProfileInv, World, ProfileDays, Saves
<1>2. /\ n.rows = KeptRows(profile.rows, o, e) \cup out
      /\ Shaped(n, c)
  BY SavedShape
<1>3. r.day \in pathStart .. c
  <2> HIDE DEF n
  <2>1. r \in n.rows /\ DaysOf(n.rows) = pathStart .. c
    BY <1>2 DEF Shaped, n
  <2> QED
    BY <2>1 DEF DaysOf
<1>4. CASE r \in KeptRows(profile.rows, o, e)
  <2>1. r \in profile.rows /\ r.day \notin o .. e
    BY <1>4 DEF KeptRows
  <2>2. r.day < c => IsTrue(r, Market)
    BY <2>1, UntouchedIsTrue DEF Saves
  <2> QED
    BY <1>3, <2>1, <2>2
<1>5. CASE r \in out
  <2>1. /\ r.day \in o .. e
        /\ r.day < c => IsTrue(r, Market)
        /\ r.day = c => r.reason # ""
    <3>1. r \in OutputRows(OutputInterval(o, e), base, profile.rows, TrueFactors(c), c)
      BY <1>5
    <3>2. OutputRow(r, o, e, c)
      BY <1>1, <3>1, OutputIsTrue
    <3> QED
      BY <3>2 DEF OutputRow
  <2> HIDE DEF out
  <2> QED
    BY <1>3, <1>5, <2>1 DEF out
<1> QED
  BY <1>2, <1>4, <1>5

LEMMA SavedContinuous ==
  ASSUME ProfileInv, NEW base, NEW o, NEW e, NEW c, Saves(base, o, e, c),
         NEW n, n = Result(OutputInterval(o, e), base, profile.state, profile.rows, c),
         Uninterrupted(n.state.validStart, {r \in n.rows : r.day \in o .. e},
                       OutputInterval(o, e), c)
  PROVE  GapFree(n, c)
<1> DEFINE w == OutputInterval(o, e)
           out == OutputRows(w, base, profile.rows, TrueFactors(c), c)
           v == n.state.validStart
           saved == profile.state.validStart
<1>1. /\ World /\ c \in 1 .. last /\ o \in 1 .. c /\ e \in o .. c /\ last \in Nat /\ c \in Nat
      /\ pathStart \in Nat \ {0} /\ VolatilityWindow \in Nat /\ VolatilityWindow >= 2
  <2>1. World /\ last \in Nat /\ pathStart \in Nat \ {0}
    BY DEF ProfileInv, World, ProfileDays
  <2>2. c \in 1 .. last /\ o \in Int /\ 1 <= o /\ e \in o .. c
    BY <2>1 DEF Saves, AtLeast
  <2> QED
    BY <2>1, <2>2, WindowSizes
<1>2. /\ n.rows = KeptRows(profile.rows, o, e) \cup out
      /\ DaysOf(out) = AtLeast(o, pathStart) .. e
      /\ v = ValidStart(saved, out) /\ saved \in Nat
  BY SavedShape
<1>3. /\ \A r \in out : r.day \in o .. e /\ r.day >= pathStart
      /\ \A r \in n.rows : r.day \in pathStart .. c /\ (r.day < c => IsTrue(r, Market))
      /\ \A r \in n.rows : r.day \notin o .. e => r \in profile.rows
      /\ \A r \in n.rows : r.day \in o .. e => r \in out
      /\ \A r \in out : r \in n.rows
  <2>1. \A r \in n.rows : r.day \in pathStart .. c /\ (r.day < c => IsTrue(r, Market))
    BY SavedTrue
  <2>2. \A r \in out : r.day \in AtLeast(o, pathStart) .. e
    BY <1>2 DEF DaysOf
  <2>3. \A r \in out : r.day \in o .. e /\ r.day >= pathStart
    BY <1>1, <2>2 DEF AtLeast
  <2> HIDE DEF out, v
  <2> QED
    BY <1>2, <2>1, <2>3 DEF KeptRows
<1>4. /\ v \in Nat
      /\ saved > 0 => v = saved
      /\ (saved = 0 /\ v = 0) => \A r \in out : r.reason # ""
      /\ (saved = 0 /\ v > 0) => /\ \E r \in out : r.day = v /\ r.reason = ""
                                 /\ \A r \in out : r.reason = "" => v <= r.day
  <2>1. DaysOf(out) \subseteq Nat \ {0} /\ IsFiniteSet(DaysOf(out))
    <3>1. AtLeast(o, pathStart) \in Nat \ {0} /\ e \in Int
      BY <1>1 DEF AtLeast
    <3>2. IsFiniteSet(AtLeast(o, pathStart) .. e)
      BY <3>1, FS_Interval
    <3> HIDE DEF out
    <3> QED
      BY <1>2, <3>1, <3>2
  <2> HIDE DEF out, saved, v
  <2> QED
    BY <1>2, <2>1, StartIsMember
<1>5. (gapless /\ v > 0) => \A r \in out : (r.day >= v /\ r.day < c) => r.reason = ""
  <2>1. w.end = e
    BY <1>1, WindowEnds
  <2>2. \A x \in o .. e : x < c => x < AtMost(w.end + 1, c)
    BY <1>1, <2>1 DEF AtMost
  <2> HIDE DEF out, v, w
  <2> QED
    BY <1>3, <2>2 DEF Uninterrupted, v, w
<1>6. \A r \in profile.rows : saved = 0 => r.reason # ""
  <2>1. CASE profile.state = NoState
    BY <2>1 DEF ProfileInv
  <2>2. CASE profile.state # NoState
    BY <2>2 DEF ProfileInv, GapFree
  <2> QED
    BY <2>1, <2>2
<1> HIDE DEF out, v, w, saved
<1>7. v = 0 => \A r \in n.rows : r.reason # ""
  <2>1. CASE saved = 0
    BY <1>3, <1>4, <1>6, <2>1
  <2>2. CASE saved # 0
    <3>1. saved \in Nat /\ (saved > 0 => v = saved)
      BY <1>2, <1>4
    <3>2. v # 0
      BY <2>2, <3>1
    <3> QED
      BY <3>2
  <2> QED
    BY <2>1, <2>2
<1>8. ASSUME gapless, v > 0, NEW r \in n.rows, r.day \in v .. (c - 1)
      PROVE  r.reason = ""
  <2>0. v \in Nat /\ r.day \in Nat /\ r.day < c /\ r.day >= v
    <3>1. v \in Nat /\ r.day \in v .. (c - 1)
      BY <1>4, <1>8
    <3> QED
      BY <1>1, <3>1
  <2>1. CASE r.day \in o .. e
    BY <1>3, <1>5, <1>8, <2>0, <2>1
  <2>2. CASE r.day \notin o .. e /\ saved > 0
    <3>1. r \in profile.rows /\ v = saved
      BY <1>3, <1>4, <1>8, <2>2
    <3>2. profile.state # NoState
      BY <3>1 DEF ProfileInv
    <3>3. /\ DaysOf(profile.rows) = pathStart .. profile.state.through
          /\ profile.state.through \in Nat
          /\ profile.state.through \in 1 .. last
          /\ GapFree(profile, profile.state.through) /\ profile.state.validStart > 0
      <4>1. /\ profile.state.through \in 1 .. last
            /\ Shaped(profile, profile.state.through)
            /\ GapFree(profile, profile.state.through)
        BY <3>2 DEF ProfileInv
      <4>2. profile.state.through \in Nat
        BY <1>1, <4>1
      <4>3. profile.state.validStart > 0
        BY <2>2 DEF saved
      <4> QED
        BY <4>1, <4>2, <4>3 DEF Shaped
    <3>4. r.day <= profile.state.through
      <4>1. r.day \in DaysOf(profile.rows)
        BY <3>1 DEF DaysOf
      <4>2. r.day \in pathStart .. profile.state.through
        BY <3>3, <4>1
      <4> QED
        BY <1>1, <3>3, <4>2
    <3>5. r.day < profile.state.through
      <4>1. CASE e < c
        <5>1. profile.state.through = c
          BY <4>1 DEF Saves
        <5> QED
          BY <2>0, <5>1
      <4>2. CASE e = c
        <5>1. o \in Nat /\ o <= profile.state.through
          <6>1. profile.state.through \in 1 .. last
            BY <3>3
          <6>2. o \in 1 .. AtLeast(1, profile.state.through)
            BY DEF Saves
          <6> QED
            BY <1>1, <6>1, <6>2 DEF AtLeast
        <5>2. ~ (r.day >= o)
          BY <1>1, <2>0, <2>2, <4>2, <5>1
        <5> QED
          BY <2>0, <3>3, <5>1, <5>2
      <4> QED
        BY <1>1, <4>1, <4>2
    <3>6. r.day \in profile.state.validStart .. (profile.state.through - 1)
      BY <2>0, <3>1, <3>3, <3>5 DEF saved
    <3> QED
      BY <1>8, <3>1, <3>3, <3>6 DEF GapFree
  <2>3. CASE r.day \notin o .. e /\ saved = 0
    <3>1. PICK q \in out : q.day = v /\ q.reason = ""
      BY <1>4, <1>8, <2>3
    <3>2. v \in o .. e /\ v >= pathStart
      BY <1>3, <3>1
    <3>3. e < c
      BY <1>1, <2>0, <2>3, <3>2
    <3> DEFINE x == AtLeast(v, e - VolatilityWindow + 2)
    <3>4. /\ x \in o .. e /\ x >= pathStart /\ x >= v /\ x < c /\ x \in pathStart .. c
          /\ x \in (e - VolatilityWindow + 2) .. e
      BY <1>1, <3>2, <3>3 DEF AtLeast, Saves
    <3> HIDE DEF x
    <3>5. PICK y \in out : y.day = x
      <4>1. x \in DaysOf(out)
        BY <1>1, <1>2, <3>4 DEF AtLeast
      <4> QED
        BY <4>1 DEF DaysOf
    <3>6. y.reason = "" /\ IsTrue(y, Market)
      BY <1>3, <1>5, <1>8, <3>4, <3>5
    <3>7. PICK z \in profile.rows : z.day = x
      <4>1. DaysOf(profile.rows) = pathStart .. c
        BY <3>3 DEF Saves, ProfileInv, Shaped
      <4> QED
        BY <3>4, <4>1 DEF DaysOf
    <3>8. IsTrue(z, Market)
      BY <3>3, <3>4, <3>7 DEF Saves
    <3>9. z.reason = ""
      BY <3>5, <3>6, <3>7, <3>8 DEF IsTrue
    <3> QED
      BY <1>6, <2>3, <3>7, <3>9
  <2>4. saved > 0 \/ saved = 0
    <3>1. saved \in Nat
      BY <1>2 DEF saved
    <3> QED
      BY <3>1
  <2> QED
    BY <2>1, <2>2, <2>3, <2>4
<1>9. \A r \in n.rows : (gapless /\ v > 0 /\ r.day \in v .. (c - 1)) => r.reason = ""
  BY <1>8
<1> QED
  BY <1>7, <1>9 DEF GapFree, v

-----------------------------------------------------------------------------
(* Every step keeps the invariant.                                          *)

LEMMA ProofAgrees ==
  ASSUME NEW m \in Markets, NEW n \in Markets, NEW p \in Nat, NEW t \in Nat,
         ProofOf(m, p, t) = ProofOf(n, p, t), NEW d \in 1 .. p, d < t
  PROVE  m.gross[d] = n.gross[d] /\ m.factor[d] = n.factor[d]
<1>1. InputsOf(m, d) \in ProofOf(m, p, t)
  BY DEF ProofOf
<1>2. PICK x \in 1 .. p : InputsOf(m, d) = InputsOf(n, x)
  BY <1>1 DEF ProofOf
<1> QED
  BY <1>2 DEF InputsOf

\* Rows that are true stay true in a market with the same inputs up to them.
LEMMA TrueInBoth ==
  ASSUME NEW m \in Markets, NEW n \in Markets, n.path = m.path, n.industry = m.industry,
         NEW r, r.day \in Nat \ {0}, IsTrue(r, m),
         \A h \in (r.day - RegressionWindow) .. r.day :
           h >= 1 => m.gross[h] = n.gross[h] /\ m.factor[h] = n.factor[h]
  PROVE  IsTrue(r, n)
<1>1. /\ TrueReason(m, r.day) = TrueReason(n, r.day)
      /\ TrueSpecific(m, r.day) = TrueSpecific(n, r.day)
  BY RegressionReach
<1> QED
  BY <1>1 DEF IsTrue

LEMMA SavedProves ==
  ASSUME ProfileInv, NEW c \in 1 .. last, NEW n, Shaped(n, c),
         n.state.prefix = InputProof(n.state.proofThrough, c),
         \A r \in n.rows : r.day \in pathStart .. c /\ (r.day < c => IsTrue(r, Market))
  PROVE  Proves(n)
<1> DEFINE proof == n.state.proofThrough
           pending == n.state.pending
<1>1. /\ World /\ c \in Nat /\ pathStart \in Nat \ {0} /\ Market \in Markets
      /\ RegressionWindow \in Nat
  BY MarketType, WindowSizes DEF ProfileInv, World, ProfileDays
<1>2. /\ n.state.through = c /\ pending \in 1 .. c /\ proof = AtLeast(1, pending - 1)
  BY DEF Shaped
<1>3. proof \in Nat /\ \A d \in Nat : d < pending => d <= proof /\ d < c
  BY <1>1, <1>2 DEF AtLeast
<1> HIDE DEF proof, pending
<1>4. SUFFICES ASSUME NEW m \in Markets, m.path = pathStart, m.industry = industryStart,
                      n.state.prefix = ProofOf(m, proof, c),
                      NEW r \in n.rows, r.day < pending
               PROVE  IsTrue(r, m)
  BY <1>2 DEF Proves, proof, pending
<1>5. r.day \in Nat \ {0} /\ r.day <= proof /\ r.day < c
  <2>1. r.day \in pathStart .. c
    OBVIOUS
  <2>2. r.day \in Nat \ {0}
    BY <1>1, <2>1
  <2> QED
    BY <1>3, <1>4, <2>2
<1>6. IsTrue(r, Market)
  BY <1>5
<1>7. ProofOf(Market, proof, c) = ProofOf(m, proof, c)
  BY <1>4, InputProofOf DEF proof
<1>8. ASSUME NEW h \in (r.day - RegressionWindow) .. r.day, h >= 1
      PROVE  Market.gross[h] = m.gross[h] /\ Market.factor[h] = m.factor[h]
  <2>1. h \in 1 .. proof /\ h < c
    BY <1>1, <1>3, <1>5, <1>8
  <2> QED
    BY <1>1, <1>3, <1>7, <2>1, ProofAgrees
<1>9. m.path = Market.path /\ m.industry = Market.industry
  BY <1>4 DEF Market
<1> QED
  BY <1>1, <1>5, <1>6, <1>8, <1>9, TrueInBoth

LEMMA SavedInv ==
  ASSUME ProfileInv, NEW base, NEW o, NEW e, NEW c, Saves(base, o, e, c),
         Save(OutputInterval(o, e), base, profile.state, profile.rows)
  PROVE  ProfileInv'
<1> DEFINE w == OutputInterval(o, e)
           n == Result(w, base, profile.state, profile.rows, c)
<1>1. /\ World /\ c \in 1 .. last /\ last \in Nat /\ c \in Nat /\ o \in Nat \ {0} /\ e \in Nat
  BY SavedBounds
<1>2. w.output = o /\ w.end = e
  BY <1>1, WindowEnds
<1>3. /\ profile' = n /\ changed' = {}
      /\ Uninterrupted(n.state.validStart, {r \in n.rows : r.day \in o .. e}, w, c)
      /\ UNCHANGED <<gross, factor, pathStart, industryStart, gapless, last, revisions>>
  <2>1. c = IF profile.state = NoState THEN last
            ELSE IF base = profile.state THEN last ELSE profile.state.through
    BY DEF Saves
  <2> QED
    BY <1>2, <2>1 DEF Save
<1>4. Shaped(n, c) /\ n.state.prefix = InputProof(n.state.proofThrough, c)
  BY SavedShape
<1>5. GapFree(n, c)
  <2> HIDE DEF n
  <2> QED
    BY <1>3, SavedContinuous DEF n
<1>6. \A r \in n.rows : r.day \in pathStart .. c /\ (r.day < c => IsTrue(r, Market))
  BY SavedTrue
<1> HIDE DEF n, w
<1>7. Proves(n)
  BY <1>1, <1>4, <1>6, SavedProves
<1>8. n.state.through = c /\ Market' = Market /\ last' = last
  BY <1>3, <1>4 DEF Shaped, Market
<1>9. Shaped(profile, profile.state.through)'
  <2>1. /\ profile'.state.through = c /\ profile'.state.pending \in 1 .. c
        /\ profile'.state.proofThrough = AtLeast(1, profile'.state.pending - 1)
        /\ profile'.state.factors = TrueFactors(c) /\ profile'.state.validStart \in Nat
        /\ DaysOf(profile'.rows) = pathStart .. c
    BY <1>3, <1>4 DEF Shaped
  <2>2. TrueFactors(c)' = TrueFactors(c)
    BY <1>3 DEF TrueFactors
  <2> QED
    BY <1>3, <2>1, <2>2 DEF Shaped
<1>10. GapFree(profile, profile.state.through)'
  <2>1. /\ profile'.state.validStart = 0 => \A r \in profile'.rows : r.reason # ""
        /\ (gapless /\ profile'.state.validStart > 0) =>
             \A r \in profile'.rows :
               r.day \in profile'.state.validStart .. (c - 1) => r.reason = ""
    BY <1>3, <1>5 DEF GapFree
  <2> QED
    BY <1>3, <1>8, <2>1 DEF GapFree
<1>11. Proves(profile)'
  BY <1>3, <1>7 DEF Proves
<1>12. Unreached(profile)'
  BY <1>3, <1>6, <1>8 DEF Unreached
<1>13. profile'.state.prefix
         = InputProof(profile.state.proofThrough, profile.state.through)'
  BY <1>3, <1>4, <1>8 DEF InputProof, Inputs
<1>14. World'
  BY <1>1, <1>3 DEF World
<1>15. profile'.state # NoState
  BY <1>1, <1>3, <1>8 DEF NoState
<1> QED
  BY <1>1, <1>3, <1>8, <1>9, <1>10, <1>11, <1>12, <1>13, <1>14, <1>15 DEF ProfileInv

\* A session alone changes nothing that was saved.
LEMMA SessionInv ==
  ASSUME ProfileInv, NextSession
  PROVE  ProfileInv'
<1>1. /\ UNCHANGED <<gross, factor, pathStart, industryStart, gapless, changed, profile, revisions>>
      /\ last' = last + 1 /\ last < ProfileSessions
  BY DEF NextSession
<1>2. World /\ last \in Nat /\ last' \in Nat
  BY <1>1 DEF ProfileInv, World, ProfileDays
<1>3. World'
  BY <1>1, <1>2, WindowSizes DEF World, ProfileDays
<1>4. CASE profile.state = NoState
  BY <1>1, <1>3, <1>4 DEF ProfileInv
<1>5. CASE profile.state # NoState
  <2>1. /\ profile.state.through \in 1 .. last
        /\ Shaped(profile, profile.state.through)
        /\ GapFree(profile, profile.state.through)
        /\ Proves(profile) /\ Unreached(profile)
        /\ changed = {} => profile.state.prefix =
                            InputProof(profile.state.proofThrough, profile.state.through)
    BY <1>5 DEF ProfileInv
  <2>2. profile'.state.through \in 1 .. last'
    BY <1>1, <1>2, <2>1
  <2>3. Shaped(profile, profile.state.through)' /\ GapFree(profile, profile.state.through)'
    BY <1>1, <2>1 DEF Shaped, GapFree, TrueFactors
  <2>4. Proves(profile)'
    BY <1>1, <2>1 DEF Proves
  <2>5. Unreached(profile)'
    BY <1>1, <2>1 DEF Unreached, Market
  <2>6. (changed = {} => profile.state.prefix =
                            InputProof(profile.state.proofThrough, profile.state.through))'
    BY <1>1, <2>1 DEF InputProof, Inputs
  <2> QED
    BY <1>1, <1>3, <1>5, <2>2, <2>3, <2>4, <2>5, <2>6 DEF ProfileInv
<1> QED
  BY <1>4, <1>5

\* A revision leaves every row true that it does not reach.
LEMMA RevisionInv ==
  ASSUME ProfileInv, NEW d \in ProfileDays, Revise(d)
  PROVE  ProfileInv'
<1>1. /\ UNCHANGED <<pathStart, industryStart, gapless, profile, last>>
      /\ changed' = changed \cup {d} /\ revisions' = revisions + 1 /\ d < last
  BY DEF Revise
<1>2. World /\ last \in Nat /\ pathStart \in Nat \ {0} /\ RegressionWindow \in Nat
  BY WindowSizes DEF ProfileInv, World, ProfileDays
<1>3. /\ gross' \in [ProfileDays -> Int] /\ factor' \in [ProfileDays -> Int]
      /\ \A h \in ProfileDays : h # d => gross'[h] = gross[h] /\ factor'[h] = factor[h]
  <2>1. gross \in [ProfileDays -> Int] /\ factor \in [ProfileDays -> Int] /\ revisions \in Nat
    BY <1>2 DEF World
  <2>2. {Unknown, revisions + 1} \subseteq Int
    BY <2>1 DEF Unknown
  <2>3. CASE \E r \in {Unknown, revisions + 1} \ {gross[d]} :
               d >= pathStart /\ gross' = [gross EXCEPT ![d] = r] /\ UNCHANGED factor
    BY <2>1, <2>2, <2>3
  <2>4. CASE \E r \in {Unknown, revisions + 1} \ {factor[d]} :
               factor' = [factor EXCEPT ![d] = r] /\ UNCHANGED gross
    BY <2>1, <2>2, <2>4
  <2> QED
    BY <2>3, <2>4 DEF Revise
<1>4. World'
  BY <1>1, <1>2, <1>3 DEF World
<1>5. CASE profile.state = NoState
  BY <1>1, <1>4, <1>5 DEF ProfileInv
<1>6. CASE profile.state # NoState
  <2>1. /\ profile.state.through \in 1 .. last
        /\ Shaped(profile, profile.state.through)
        /\ GapFree(profile, profile.state.through)
        /\ Proves(profile) /\ Unreached(profile)
    BY <1>6 DEF ProfileInv
  <2>2. Shaped(profile, profile.state.through)' /\ GapFree(profile, profile.state.through)'
    BY <1>1, <2>1 DEF Shaped, GapFree, TrueFactors
  <2>3. Proves(profile)'
    BY <1>1, <2>1 DEF Proves
  <2>4. Unreached(profile)'
    <3> DEFINE n == Market'
    <3>1. Market \in Markets /\ n \in Markets
      <4>1. World' => Market' \in Markets
        BY DEF World, Market, Markets
      <4> QED
        BY <1>2, <1>4, <4>1, MarketType
    <3>2. /\ n.path = Market.path /\ n.industry = Market.industry
          /\ \A h \in ProfileDays : h # d => /\ Market.gross[h] = n.gross[h]
                                             /\ Market.factor[h] = n.factor[h]
      BY <1>1, <1>3 DEF Market
    <3> HIDE DEF n
    <3>3. SUFFICES ASSUME NEW r \in profile.rows, r.day < profile.state.through,
                          \A x \in changed' : x < r.day - RegressionWindow \/ x > r.day
                   PROVE  IsTrue(r, n)
      BY <1>1 DEF Unreached, n
    <3>4. r.day \in Nat \ {0} /\ r.day \in ProfileDays
      <4>1. DaysOf(profile.rows) = pathStart .. profile.state.through
        BY <2>1 DEF Shaped
      <4>2. r.day \in pathStart .. profile.state.through
        BY <4>1 DEF DaysOf
      <4>3. last \in ProfileDays
        BY <1>2 DEF World
      <4> QED
        BY <1>2, <2>1, <4>2, <4>3, WindowSizes DEF ProfileDays
    <3>5. IsTrue(r, Market)
      BY <1>1, <2>1, <3>3 DEF Unreached
    <3>6. d \notin (r.day - RegressionWindow) .. r.day
      <4>1. d < r.day - RegressionWindow \/ d > r.day
        BY <1>1, <3>3
      <4> QED
        BY <1>2, <3>4, <4>1 DEF ProfileDays
    <3>7. ASSUME NEW h \in (r.day - RegressionWindow) .. r.day, h >= 1
          PROVE  Market.gross[h] = n.gross[h] /\ Market.factor[h] = n.factor[h]
      <4>1. h \in ProfileDays
        BY <1>2, <3>4, <3>7, WindowSizes DEF ProfileDays
      <4> QED
        BY <3>2, <3>6, <3>7, <4>1
    <3> QED
      BY <3>1, <3>2, <3>4, <3>5, <3>7, TrueInBoth
  <2>5. changed' # {}
    BY <1>1
  <2> QED
    BY <1>1, <1>4, <1>6, <2>1, <2>2, <2>3, <2>4, <2>5 DEF ProfileInv
<1> QED
  BY <1>5, <1>6

LEMMA ProfileStart == ProfileInit => ProfileInv
<1> SUFFICES ASSUME ProfileInit PROVE ProfileInv
  OBVIOUS
<1>1. gross \in [ProfileDays -> Int] /\ factor \in [ProfileDays -> Int]
  BY DEF ProfileInit, Unknown
<1>2. last \in ProfileDays
  BY WindowSizes DEF ProfileInit, ProfileDays
<1>3. pathStart \in Nat \ {0} /\ industryStart \in Nat \ {0}
  BY ProfileAssumption DEF ProfileInit
<1> QED
  BY <1>1, <1>2, <1>3 DEF ProfileInit, ProfileInv, World

\* A step saves a result that is continued or repaired from a base.
SavesFrom(base) ==
  \E o, e, c : /\ Saves(base, o, e, c)
               /\ Save(OutputInterval(o, e), base, profile.state, profile.rows)

LEMMA InitializeSaves ==
  ASSUME ProfileInv, InitializeProfile
  PROVE  profile.state = NoState /\ SavesFrom(NoState)
<1>1. World /\ last \in Nat /\ last >= 1
  BY DEF ProfileInv, World, ProfileDays
<1>2. profile.state = NoState /\ profile.rows = {} /\ profile.state.through = 0
  BY DEF ProfileInv, InitializeProfile, NoState
<1>3. Saves(NoState, 1, last, last)
  <2>1. NoState.through = 0
    BY DEF NoState
  <2> QED
    BY <1>1, <1>2, <2>1 DEF Saves, AtLeast
<1>4. Save(OutputInterval(1, last), NoState, profile.state, profile.rows)
  BY <1>2 DEF InitializeProfile
<1> QED
  BY <1>2, <1>3, <1>4 DEF SavesFrom

\* A continuation starts with the pending day.
LEMMA AppendStart ==
  ASSUME ProfileInv, profile.state # NoState
  PROVE  AppendInterval(profile.state) = OutputInterval(profile.state.pending, last)
<1>1. /\ last \in Nat /\ profile.state.through \in 1 .. last
      /\ profile.state.pending \in 1 .. profile.state.through
  BY DEF ProfileInv, World, ProfileDays, Shaped
<1> QED
  BY <1>1 DEF AppendInterval, EarlierDay, AtMost

LEMMA AppendSaves ==
  ASSUME ProfileInv, AppendProfile
  PROVE  profile.state # NoState /\ SavesFrom(profile.state)
<1> DEFINE s == profile.state
           c0 == s.through
           o == s.pending
<1>1. /\ s # NoState /\ AdmittedState(s, last) /\ c0 < last
      /\ Save(AppendInterval(s), s, s, profile.rows)
  BY DEF AppendProfile
<1>2. /\ World /\ last \in Nat /\ c0 \in 1 .. last /\ o \in 1 .. c0 /\ Proves(profile)
      /\ DaysOf(profile.rows) = pathStart .. c0 /\ Market \in Markets
  <2>1. World /\ last \in Nat
    BY DEF ProfileInv, World, ProfileDays
  <2>2. /\ c0 \in 1 .. last /\ Proves(profile) /\ Shaped(profile, c0)
    BY <1>1 DEF ProfileInv
  <2> QED
    BY <2>1, <2>2, MarketType DEF Shaped
<1>3. s.prefix = InputProof(s.proofThrough, c0)
  BY <1>1 DEF AdmittedState
<1>4. \A r \in profile.rows : r.day < o => Untouched(r.day)
  BY <1>3 DEF Untouched
<1>5. ASSUME NEW r \in profile.rows, r.day \notin o .. last
      PROVE  r.day < o
  <2>1. r.day \in DaysOf(profile.rows)
    BY <1>5 DEF DaysOf
  <2>2. r.day \in pathStart .. c0 /\ pathStart \in Nat
    BY <1>2, <2>1 DEF World
  <2> HIDE DEF c0, o
  <2> QED
    BY <1>2, <1>5, <2>2
<1>6. Saves(s, o, last, last)
  BY <1>1, <1>2, <1>4, <1>5 DEF Saves, AtLeast
<1>7. Save(OutputInterval(o, last), s, s, profile.rows)
  BY <1>1, AppendStart
<1> QED
  BY <1>1, <1>6, <1>7 DEF SavesFrom

LEMMA RepairSaves ==
  ASSUME ProfileInv, RepairProfile
  PROVE  /\ profile.state # NoState
         /\ \E i \in DOMAIN checkpoints :
              checkpoints[i] # profile.state /\ SavesFrom(checkpoints[i])
<1> DEFINE s == profile.state
           c == s.through
           days == {d \in changed : d <= c}
           first == Min(days)
           reach == Max(days) + RegressionWindow + VolatilityWindow - 1
           o == EarlierDay(first, s.pending)
           e == AtMost(reach, c)
<1>1. s # NoState /\ days # {}
  BY DEF RepairProfile
<1>2. PICK i \in RepairBase(days) :
        /\ \A d \in changed : d >= RepairInterval(days).output
        /\ Save(RepairInterval(days), checkpoints[i], s, profile.rows)
  BY DEF RepairProfile
<1>3. RepairInterval(days) = OutputInterval(o, e)
  BY DEF RepairInterval
<1>4. /\ World /\ last \in Nat /\ c \in 1 .. last /\ s.pending \in 1 .. c /\ Unreached(profile)
      /\ DaysOf(profile.rows) = pathStart .. c /\ pathStart \in Nat \ {0}
      /\ changed \subseteq Nat \ {0}
      /\ RegressionWindow \in Nat /\ VolatilityWindow \in Nat /\ VolatilityWindow >= 2
  <2> HIDE DEF days
  <2>1. World /\ last \in Nat /\ pathStart \in Nat \ {0} /\ changed \subseteq Nat \ {0}
    BY DEF ProfileInv, World, ProfileDays
  <2>2. Shaped(profile, c) /\ c \in 1 .. last /\ Unreached(profile)
    BY <1>1 DEF ProfileInv
  <2> QED
    BY <2>1, <2>2, WindowSizes DEF Shaped
<1>5. /\ first \in days /\ Max(days) \in days
      /\ \A d \in days : first <= d /\ d <= Max(days)
  <2>1. days \subseteq 1 .. c /\ 1 \in Int /\ c \in Int
    <3> HIDE DEF c
    <3>1. c \in Int
      BY <1>4
    <3>2. \A d \in days : d \in Nat \ {0} /\ d <= c
      BY <1>4
    <3> HIDE DEF days
    <3> QED
      BY <3>1, <3>2
  <2>2. IsFiniteSet(1 .. c) /\ days \subseteq Int
    BY <2>1, FS_Interval
  <2> HIDE DEF days, c
  <2> QED
    BY <1>1, <2>1, <2>2, FS_Subset, MinMember, MaxMember
<1> DEFINE latest == Max(days)
<1>6. /\ first \in 1 .. c /\ latest \in 1 .. c /\ first <= latest
      /\ \A d \in changed : d \in Nat /\ (d <= c => d <= latest)
  <2>1. \A d \in changed : d \in Nat \ {0} /\ (d <= c => d \in days)
    BY <1>4
  <2>2. \A d \in days : d \in changed /\ d <= c
    OBVIOUS
  <2> HIDE DEF days, first, c
  <2>3. /\ first \in days /\ latest \in days
        /\ \A d \in days : first <= d /\ d <= latest
    BY <1>5 DEF first
  <2> HIDE DEF latest
  <2>4. /\ first \in Nat \ {0} /\ first <= c /\ latest \in Nat \ {0} /\ latest <= c
        /\ first <= latest
    BY <2>1, <2>2, <2>3
  <2>5. c \in Int
    BY <1>4
  <2>6. first \in 1 .. c /\ latest \in 1 .. c
    BY <2>4, <2>5
  <2> QED
    BY <2>1, <2>3, <2>4, <2>6
<1>7. checkpoints[i].through < first /\ checkpoints[i].through \in 1 .. c
  BY <1>2 DEF RepairBase, AdmittedState
<1>8. \A d \in changed : d >= o
  <2>1. OutputInterval(o, e).output = o
    BY DEF OutputInterval
  <2> QED
    BY <1>2, <1>3, <2>1
<1> HIDE DEF days, first, latest
<1>9. /\ o \in 1 .. c /\ o <= first /\ e \in o .. c /\ e <= c
      /\ e < c => e = latest + RegressionWindow + VolatilityWindow - 1
  <2> DEFINE p == s.pending
  <2>1. /\ c \in Nat /\ first \in 1 .. c /\ latest \in 1 .. c /\ first <= latest /\ p \in 1 .. c
        /\ RegressionWindow \in Nat /\ VolatilityWindow \in Nat /\ VolatilityWindow >= 2
    BY <1>4, <1>6
  <2>2. /\ o = EarlierDay(first, p)
        /\ e = AtMost(latest + RegressionWindow + VolatilityWindow - 1, c)
    BY DEF latest
  <2> HIDE DEF o, e, c, p
  <2>3. o \in 1 .. c /\ o <= first
    BY <2>1, <2>2 DEF EarlierDay, AtMost
  <2>4. /\ e \in first .. c
        /\ e < c => e = latest + RegressionWindow + VolatilityWindow - 1
    BY <2>1, <2>2 DEF AtMost
  <2> QED
    BY <2>1, <2>3, <2>4
<1>10. checkpoints[i] # s
  <2>1. ~ (c < first)
    BY <1>4, <1>6
  <2> QED
    BY <1>7, <2>1
<1> HIDE DEF o, e, c
<1>11. ASSUME NEW r \in profile.rows
       PROVE  r.day \in Nat \ {0} /\ r.day <= c
  <2>1. r.day \in DaysOf(profile.rows)
    BY DEF DaysOf
  <2>2. r.day \in pathStart .. c
    BY <1>4, <2>1
  <2> QED
    BY <1>4, <2>2
<1>12. ASSUME NEW r \in profile.rows, r.day < c,
              \A d \in changed : d < r.day - RegressionWindow \/ d > r.day
       PROVE  IsTrue(r, Market)
  BY <1>4, <1>12 DEF Unreached, c
<1>13. ASSUME NEW r \in profile.rows, r.day < c, e < c, r.day > latest + RegressionWindow
       PROVE  IsTrue(r, Market)
  <2>1. ASSUME NEW d \in changed
        PROVE  d < r.day - RegressionWindow \/ d > r.day
    BY <1>4, <1>6, <1>11, <1>13
  <2> QED
    BY <1>12, <1>13, <2>1
<1>14. ASSUME NEW r \in profile.rows, r.day \notin o .. e, r.day < c
       PROVE  Untouched(r.day)
  <2>1. CASE r.day < o
    <3>1. \A d \in changed : d > r.day
      BY <1>4, <1>6, <1>8, <1>9, <1>11, <2>1
    <3> QED
      BY <1>14, <3>1 DEF Untouched, c
  <2>2. CASE r.day > e
    <3>1. ASSUME NEW d \in changed
          PROVE  d < r.day - RegressionWindow - VolatilityWindow + 1 \/ d > r.day
      BY <1>4, <1>6, <1>9, <1>11, <1>14, <2>2, <3>1
    <3> QED
      BY <1>14, <3>1 DEF Untouched, c
  <2> QED
    BY <1>4, <1>9, <1>11, <1>14, <2>1, <2>2
<1>15. ASSUME e < c
       PROVE  /\ e - VolatilityWindow + 2 >= o
              /\ \A r \in profile.rows :
                   r.day \in (e - VolatilityWindow + 2) .. e => IsTrue(r, Market)
  <2>1. e - VolatilityWindow + 2 = latest + RegressionWindow + 1
    BY <1>4, <1>6, <1>9, <1>15
  <2>2. e - VolatilityWindow + 2 >= o
    BY <1>4, <1>6, <1>9, <2>1
  <2>3. ASSUME NEW r \in profile.rows, r.day \in (e - VolatilityWindow + 2) .. e
        PROVE  IsTrue(r, Market)
    <3>1. r.day < c /\ r.day > latest + RegressionWindow
      BY <1>4, <1>6, <1>9, <1>11, <1>15, <2>1, <2>3
    <3> QED
      BY <1>13, <1>15, <3>1
  <2> QED
    BY <2>2, <2>3
<1>16. Saves(checkpoints[i], o, e, c)
  <2>1. c = IF s = NoState THEN last
            ELSE IF checkpoints[i] = s THEN last ELSE s.through
    BY <1>1, <1>10 DEF c
  <2>2. o \in 1 .. AtLeast(1, c)
    BY <1>4, <1>9 DEF AtLeast
  <2>3. checkpoints[i].through \in 0 .. c
    BY <1>4, <1>7
  <2> QED
    BY <1>1, <1>4, <1>9, <1>14, <1>15, <2>1, <2>2, <2>3 DEF Saves, c
<1>17. Save(OutputInterval(o, e), checkpoints[i], s, profile.rows)
  BY <1>2, <1>3
<1>18. i \in DOMAIN checkpoints
  BY <1>2 DEF RepairBase
<1> QED
  BY <1>1, <1>10, <1>16, <1>17, <1>18 DEF SavesFrom

LEMMA ProfileStep ==
  ProfileInv /\ [ProfileNext]_profileVars => ProfileInv'
<1> SUFFICES ASSUME ProfileInv, [ProfileNext]_profileVars
             PROVE  ProfileInv'
  OBVIOUS
<1>1. CASE UNCHANGED profileVars
  BY <1>1 DEF profileVars, ProfileInv, World, Shaped, GapFree, Proves, Unreached, Market,
              TrueFactors, InputProof, Inputs
<1>2. CASE NextSession
  BY <1>2, SessionInv
<1>3. CASE InitializeProfile
  BY <1>3, InitializeSaves, SavedInv DEF SavesFrom
<1>4. CASE AppendProfile
  BY <1>4, AppendSaves, SavedInv DEF SavesFrom
<1>5. CASE RepairProfile
  BY <1>5, RepairSaves, SavedInv DEF SavesFrom
<1>6. CASE \E d \in ProfileDays : Revise(d)
  BY <1>6, RevisionInv
<1> QED
  BY <1>1, <1>2, <1>3, <1>4, <1>5, <1>6 DEF ProfileNext

-----------------------------------------------------------------------------
(* Where the published rows begin.                                          *)

\* No origin, of the profile or of an older state, is before the path.
OriginsInv ==
  /\ OriginSeen(profile.state)
  /\ \E S : checkpoints \in Seq(S) /\ \A s \in S : OriginSeen(s)

LEMMA KeptCheckpoints ==
  ASSUME NEW S, checkpoints \in Seq(S), NEW s
  PROVE  SubSeq(<<s>> \o checkpoints, 1, AtMost(MaxCheckpoints, Len(<<s>> \o checkpoints)))
           \in Seq(S \cup {s})
<1> DEFINE all == <<s>> \o checkpoints
<1>1. all \in Seq(S \cup {s})
  OBVIOUS
<1>2. AtMost(MaxCheckpoints, Len(all)) \in 0 .. Len(all)
  BY <1>1, WindowSizes DEF AtMost
<1> HIDE DEF all
<1>3. SubSeq(all, 1, AtMost(MaxCheckpoints, Len(all))) \in Seq(S \cup {s})
  BY <1>1, <1>2
<1> QED
  BY <1>3 DEF all

LEMMA SavedOrigins ==
  ASSUME ProfileInv, OriginsInv, NEW base, NEW o, NEW e, NEW c, Saves(base, o, e, c),
         Save(OutputInterval(o, e), base, profile.state, profile.rows), OriginSeen(base)
  PROVE  OriginsInv'
<1> DEFINE w == OutputInterval(o, e)
           first == AtLeast(w.read, pathStart)
           n == Result(w, base, profile.state, profile.rows, c)
<1>1. /\ pathStart \in Nat \ {0} /\ o \in Nat \ {0} /\ e \in Nat
  <2>1. World /\ last \in Nat
    BY DEF ProfileInv, World, ProfileDays
  <2>2. c \in 1 .. last /\ o \in Int /\ 1 <= o /\ e \in o .. c
    BY <2>1 DEF Saves, AtLeast
  <2> QED
    BY <2>1, <2>2 DEF World
<1>2. w.read \in Nat /\ first \in Nat /\ first >= pathStart
  BY <1>1, WindowEnds DEF AtLeast
<1>3. profile' = n /\ pathStart' = pathStart
  <2>1. c = IF profile.state = NoState THEN last
            ELSE IF base = profile.state THEN last ELSE profile.state.through
    BY DEF Saves
  <2> QED
    BY <2>1 DEF Save
<1>4. n.state.origin = IF e < c THEN profile.state.origin
                       ELSE EarlierDay(base.origin, IF first <= e THEN first ELSE 0)
  BY SavedShape
<1>5. profile'.state.origin = IF e < c THEN profile.state.origin
                       ELSE EarlierDay(base.origin, IF first <= e THEN first ELSE 0)
  BY <1>3, <1>4
<1> HIDE DEF n, first
<1>6. OriginSeen(profile.state)'
  BY <1>1, <1>2, <1>3, <1>5 DEF OriginsInv, OriginSeen, EarlierDay, AtMost
<1>7. \E S : checkpoints' \in Seq(S) /\ \A s \in S : OriginSeen(s)
  <2>1. PICK S : checkpoints \in Seq(S) /\ \A s \in S : OriginSeen(s)
    BY DEF OriginsInv
  <2>2. \/ checkpoints' = <<>>
        \/ checkpoints' = SubSeq(<<profile.state>> \o checkpoints, 1,
                             AtMost(MaxCheckpoints, Len(<<profile.state>> \o checkpoints)))
    BY DEF Save
  <2>3. checkpoints' \in Seq(S \cup {profile.state})
    <3> DEFINE T == S \cup {profile.state}
               sub == SubSeq(<<profile.state>> \o checkpoints, 1,
                             AtMost(MaxCheckpoints, Len(<<profile.state>> \o checkpoints)))
    <3>1. sub \in Seq(T)
      BY <2>1, KeptCheckpoints
    <3>2. <<>> \in Seq(T)
      OBVIOUS
    <3> HIDE DEF sub, T
    <3>3. checkpoints' \in Seq(T)
      BY <2>2, <3>1, <3>2 DEF sub
    <3> QED
      BY <3>3 DEF T
  <2>4. \A s \in S \cup {profile.state} : OriginSeen(s)
    BY <2>1 DEF OriginsInv
  <2> QED
    BY <2>3, <2>4
<1> QED
  BY <1>3, <1>6, <1>7 DEF OriginsInv, OriginSeen

LEMMA OriginsStart == ProfileInit => OriginsInv
<1> SUFFICES ASSUME ProfileInit PROVE OriginsInv
  OBVIOUS
<1>1. OriginSeen(profile.state)
  BY DEF ProfileInit, OriginSeen, NoState
<1>2. checkpoints \in Seq({})
  BY DEF ProfileInit
<1> QED
  BY <1>1, <1>2 DEF OriginsInv

\* Every other step leaves what was saved.
LEMMA SaveCases ==
  ASSUME ProfileInv, [ProfileNext]_profileVars
  PROVE  \/ UNCHANGED <<profile, checkpoints, pathStart>>
         \/ profile.state = NoState /\ SavesFrom(NoState)
         \/ profile.state # NoState /\ SavesFrom(profile.state)
         \/ \E i \in DOMAIN checkpoints :
              checkpoints[i] # profile.state /\ SavesFrom(checkpoints[i])
  BY InitializeSaves, AppendSaves, RepairSaves
     DEF ProfileNext, profileVars, NextSession, Revise

LEMMA OriginsStep ==
  ProfileInv /\ OriginsInv /\ [ProfileNext]_profileVars => OriginsInv'
<1> SUFFICES ASSUME ProfileInv, OriginsInv, [ProfileNext]_profileVars
             PROVE  OriginsInv'
  OBVIOUS
<1>1. CASE UNCHANGED <<profile, checkpoints, pathStart>>
  BY <1>1 DEF OriginsInv, OriginSeen
<1>2. CASE SavesFrom(NoState)
  <2>1. OriginSeen(NoState)
    BY DEF OriginSeen, NoState
  <2> QED
    BY <1>2, <2>1, SavedOrigins DEF SavesFrom
<1>3. CASE SavesFrom(profile.state)
  BY <1>3, SavedOrigins DEF SavesFrom, OriginsInv
<1>4. CASE \E i \in DOMAIN checkpoints : SavesFrom(checkpoints[i])
  <2>1. PICK i \in DOMAIN checkpoints : SavesFrom(checkpoints[i])
    BY <1>4
  <2>2. OriginSeen(checkpoints[i])
    <3>1. PICK S : checkpoints \in Seq(S) /\ \A s \in S : OriginSeen(s)
      BY DEF OriginsInv
    <3>2. checkpoints[i] \in S
      BY <3>1
    <3> QED
      BY <3>1, <3>2
  <2> QED
    BY <2>1, <2>2, SavedOrigins DEF SavesFrom
<1> QED
  BY <1>1, <1>2, <1>3, <1>4, SaveCases

-----------------------------------------------------------------------------
(* The properties of every behaviour.                                       *)

LEMMA ContinuationReads ==
  ProfileInv /\ OriginsInv => ContinuationAdmitted
<1> SUFFICES ASSUME ProfileInv, OriginsInv, profile.state # NoState, changed = {}
             PROVE  /\ AdmittedState(profile.state, last)
                    /\ HaloComplete(AppendInterval(profile.state), profile.state, profile.rows)
  BY DEF ContinuationAdmitted
<1> DEFINE s == profile.state
           w == AppendInterval(s)
<1>1. /\ s.through \in 1 .. last /\ Shaped(profile, s.through)
      /\ s.prefix = InputProof(s.proofThrough, s.through)
      /\ last \in Nat /\ pathStart \in Nat \ {0}
  BY DEF ProfileInv, World, ProfileDays
<1>2. AdmittedState(s, last)
  BY <1>1 DEF AdmittedState
<1>3. DaysOf(profile.rows) = pathStart .. s.through /\ s.pending \in 1 .. s.through
  BY <1>1 DEF Shaped
<1>4. w.output = s.pending /\ w.specific \in Int
  <2>1. w = OutputInterval(s.pending, last)
    BY AppendStart
  <2> HIDE DEF w
  <2> QED
    BY <1>1, <1>3, <2>1, WindowSizes DEF OutputInterval, AtLeast
<1>5. ASSUME NEW d \in Halo(w, s)
      PROVE  d \in {r.day : r \in profile.rows}
  <2>1. d \in w.specific .. (w.output - 1) /\ s.origin \in 1 .. d
    BY DEF Halo
  <2>2. d \in pathStart .. s.through
    <3> HIDE DEF w, s
    <3> QED
      BY <1>1, <1>3, <1>4, <2>1 DEF OriginsInv, OriginSeen, s
  <2> QED
    BY <1>3, <2>2 DEF DaysOf
<1>6. HaloComplete(w, s, profile.rows)
  BY <1>5 DEF HaloComplete
<1> QED
  BY <1>2, <1>6

LEMMA ContinuousIsGapless ==
  ProfileInv => ProfileGapless
<1> SUFFICES ASSUME ProfileInv, gapless, profile.state.validStart > 0, NEW r \in profile.rows,
                    r.day \in profile.state.validStart .. (profile.state.through - 1)
             PROVE  r.reason = ""
  BY DEF ProfileGapless
<1>1. profile.state # NoState
  BY DEF ProfileInv
<1> QED
  BY <1>1 DEF ProfileInv, GapFree

\* A saved profile whose inputs did not change can always be continued: its
\* prefix is proved and its halo complete (plan_risk_profile_update).
THEOREM ContinuationsAdmitted ==
  ProfileSpec => []ContinuationAdmitted
<1>1. ProfileInit => ProfileInv /\ OriginsInv
  BY ProfileStart, OriginsStart
<1>2. ProfileInv /\ OriginsInv /\ [ProfileNext]_profileVars => (ProfileInv /\ OriginsInv)'
  BY ProfileStep, OriginsStep
<1> QED
  BY <1>1, <1>2, ContinuationReads, PTL DEF ProfileSpec

\* A continuous policy never publishes a gap after the first supported day,
\* whatever is revised, continued and repaired (RISK_CONTINUITY_REQUIRED).
THEOREM ProfilesGapless ==
  ProfileSpec => []ProfileGapless
  BY ProfileStart, ProfileStep, ContinuousIsGapless, PTL DEF ProfileSpec

-----------------------------------------------------------------------------
(* The whole row of a day, its volatilities included.                       *)

VolatilityDays(d) == (d - VolatilityWindow + 1) .. d

\* The values of several days, each with its day.
Flat(F, days) == UNION {{<<x, s>> : s \in F[x]} : x \in days}

\* A volatility needs a value on every day of its window.
FullWindow(F, d) ==
  IF d - VolatilityWindow + 1 >= 1 /\ \A x \in VolatilityDays(d) : F[x] # {}
  THEN Flat(F, VolatilityDays(d)) ELSE {}

ReturnFamily(m, d) ==
  [x \in VolatilityDays(d) |-> IF ReturnOn(m, x) THEN {m.gross[x]} ELSE {}]
SpecificFamily(m, d) == [x \in VolatilityDays(d) |-> TrueSpecific(m, x)]

TrueRow(m, d) ==
  [day |-> d, reason |-> TrueReason(m, d), specific |-> TrueSpecific(m, d),
   grossVolatility |-> FullWindow(ReturnFamily(m, d), d),
   specificVolatility |-> FullWindow(SpecificFamily(m, d), d)]

\* The row of the last day, whose returns are not known yet.
PendingRow(c) ==
  [day |-> c,
   reason |-> IF c - 1 < RegressionMinPeriods THEN "regression_warmup"
              ELSE "factor_return_unavailable",
   specific |-> {}, grossVolatility |-> {}, specificVolatility |-> {}]

LEMMA FlatDays ==
  ASSUME NEW F, NEW days
  PROVE  {v[1] : v \in Flat(F, days)} = {x \in days : F[x] # {}}
<1>1. ASSUME NEW v \in Flat(F, days)
      PROVE  v[1] \in {x \in days : F[x] # {}}
  <2>1. PICK x \in days : \E s \in F[x] : v = <<x, s>>
    BY DEF Flat
  <2> QED
    BY <2>1
<1>2. ASSUME NEW x \in days, F[x] # {}
      PROVE  \E v \in Flat(F, days) : x = v[1]
  <2>1. PICK s : s \in F[x]
    BY <1>2
  <2>2. <<x, s>> \in Flat(F, days)
    BY <2>1 DEF Flat
  <2>3. <<x, s>>[1] = x
    OBVIOUS
  <2> QED
    BY <2>2, <2>3
<1> QED
  BY <1>1, <1>2

LEMMA VolatilityOfFamily ==
  ASSUME NEW values, NEW d \in Nat, NEW w, NEW F,
         d - VolatilityWindow + 1 >= w.read <=> d - VolatilityWindow + 1 >= 1,
         d - VolatilityWindow + 1 >= 1 =>
           {v \in values : v[1] \in VolatilityDays(d)} = Flat(F, VolatilityDays(d))
  PROVE  Volatility(values, d, w) = FullWindow(F, d)
<1> DEFINE days == VolatilityDays(d)
           sample == {v \in values : v[1] \in days}
<1>1. Volatility(values, d, w)
        = IF d - VolatilityWindow + 1 >= w.read /\ {v[1] : v \in sample} = days
          THEN sample ELSE {}
  BY DEF Volatility, VolatilityDays
<1>2. {v[1] : v \in Flat(F, days)} = {x \in days : F[x] # {}}
  BY FlatDays
<1> HIDE DEF days
<1>3. CASE d - VolatilityWindow + 1 >= 1
  <2>1. sample = Flat(F, days)
    BY <1>3 DEF days
  <2>2. {x \in days : F[x] # {}} = days <=> \A x \in days : F[x] # {}
    OBVIOUS
  <2> HIDE DEF sample
  <2>3. {v[1] : v \in sample} = days <=> \A x \in days : F[x] # {}
    BY <1>2, <2>1, <2>2
  <2> QED
    BY <1>1, <1>3, <2>1, <2>3 DEF FullWindow, days
<1>4. CASE ~ (d - VolatilityWindow + 1 >= 1)
  BY <1>1, <1>4 DEF FullWindow
<1> QED
  BY <1>3, <1>4

\* A row depends on the inputs of its day, its volatility window and the
\* regression windows of that.
LEMMA RowReach ==
  ASSUME NEW m \in Markets, NEW n \in Markets, n.path = m.path, n.industry = m.industry,
         NEW d \in Nat \ {0},
         \A h \in (d - RegressionWindow - VolatilityWindow + 1) .. d :
           h >= 1 => m.gross[h] = n.gross[h] /\ m.factor[h] = n.factor[h]
  PROVE  TrueRow(m, d) = TrueRow(n, d)
<1>0. RegressionWindow \in Nat /\ VolatilityWindow \in Nat /\ VolatilityWindow >= 2
  BY WindowSizes
<1>1. ASSUME NEW x \in VolatilityDays(d), x >= 1
      PROVE  /\ TrueReason(m, x) = TrueReason(n, x)
             /\ TrueSpecific(m, x) = TrueSpecific(n, x)
             /\ m.gross[x] = n.gross[x]
  <2>1. x \in Nat \ {0} /\ x >= d - VolatilityWindow + 1 /\ x <= d
    BY <1>0, <1>1 DEF VolatilityDays
  <2>2. \A h \in (x - RegressionWindow) .. x :
          h >= 1 => m.gross[h] = n.gross[h] /\ m.factor[h] = n.factor[h]
    BY <1>0, <2>1
  <2>3. m.gross[x] = n.gross[x]
    BY <1>0, <2>1, <2>2
  <2> QED
    BY <2>1, <2>2, <2>3, RegressionReach
<1>2. d \in VolatilityDays(d)
  BY <1>0 DEF VolatilityDays
<1>3. TrueReason(m, d) = TrueReason(n, d) /\ TrueSpecific(m, d) = TrueSpecific(n, d)
  <2>1. d >= 1
    OBVIOUS
  <2> QED
    BY <1>1, <1>2, <2>1
<1>4. CASE d - VolatilityWindow + 1 >= 1
  <2>1. \A x \in VolatilityDays(d) : x >= 1
    BY <1>0, <1>4 DEF VolatilityDays
  <2>2. ReturnFamily(m, d) = ReturnFamily(n, d)
    BY <1>1, <2>1 DEF ReturnFamily, ReturnOn
  <2>3. SpecificFamily(m, d) = SpecificFamily(n, d)
    BY <1>1, <2>1 DEF SpecificFamily
  <2> QED
    BY <1>3, <2>2, <2>3 DEF TrueRow
<1>5. CASE ~ (d - VolatilityWindow + 1 >= 1)
  <2>1. /\ FullWindow(ReturnFamily(m, d), d) = {} /\ FullWindow(SpecificFamily(m, d), d) = {}
        /\ FullWindow(ReturnFamily(n, d), d) = {} /\ FullWindow(SpecificFamily(n, d), d) = {}
    BY <1>5 DEF FullWindow
  <2> QED
    BY <1>3, <2>1 DEF TrueRow
<1> QED
  BY <1>4, <1>5

\* The origin a result is continued from: the path's, or none before it.
BaseOrigin(base, o, c) ==
  \/ base.origin = pathStart /\ pathStart <= c
  \/ base.origin = 0 /\ o <= pathStart

\* The saved rows before an output, as the halo needs them.
HaloRows(rows, o) == \A r \in rows : r.day < o => r.specific = TrueSpecific(Market, r.day)

\* A specific return exists from the first day of the path on.
LEMMA SpecificSeen ==
  ASSUME NEW m, NEW d, TrueSpecific(m, d) # {}
  PROVE  d >= m.path
  BY DEF TrueSpecific, TrueReason, ReturnOn

\* The specific returns of a volatility window are those of the whole history,
\* saved before the output and computed inside it.
LEMMA SpecificsOfWindow ==
  ASSUME World, NEW c \in 1 .. last, NEW o \in 1 .. c, NEW e \in o .. c,
         NEW base, NEW rows, NEW c0 \in 0 .. c, o <= AtLeast(1, c0),
         DaysOf(rows) = pathStart .. c0, HaloRows(rows, o), BaseOrigin(base, o, c),
         NEW d \in o .. e, d < c, d - VolatilityWindow + 1 >= 1
  PROVE  LET w == OutputInterval(o, e)
         IN  {v \in SpecificsOf(w, base, rows, TrueFactors(c), c) : v[1] \in VolatilityDays(d)}
               = Flat(SpecificFamily(Market, d), VolatilityDays(d))
<1> DEFINE w == OutputInterval(o, e)
           fs == TrueFactors(c)
           F == SpecificFamily(Market, d)
           days == VolatilityDays(d)
           S == SpecificsOf(w, base, rows, fs, c)
<1>1. /\ c \in Nat /\ o \in Nat \ {0} /\ e \in Nat /\ pathStart \in Nat \ {0} /\ d \in Nat
      /\ VolatilityWindow \in Nat /\ VolatilityWindow >= 2
  BY WindowSizes DEF World, ProfileDays
<1>2. /\ w.output = o /\ w.end = e /\ w.specific \in 1 .. o
      /\ w.specific <= AtLeast(1, d - VolatilityWindow + 1)
  <2>1. d >= o
    BY <1>1
  <2> QED
    BY <1>1, <2>1, WindowReads, Zenon
<1>3. OutputDays(w, c) = AtLeast(o, pathStart) .. e
  BY OutputInterior
<1>4. \A x \in OutputDays(w, c) : x \in days => Specific(x, w, fs, c) = TrueSpecific(Market, x)
  <2> SUFFICES ASSUME NEW x \in AtLeast(o, pathStart) .. e, x \in days
               PROVE  Specific(x, w, fs, c) = TrueSpecific(Market, x)
    BY <1>3
  <2>1. x \in o .. e /\ x < c
    BY <1>1 DEF AtLeast, VolatilityDays
  <2> QED
    BY <1>1, <2>1, RegressionIsTrue
<1>5. \A r \in rows : r.day \in Halo(w, base) => r.specific = TrueSpecific(Market, r.day)
  <2> SUFFICES ASSUME NEW r \in rows, r.day \in Halo(w, base)
               PROVE  r.specific = TrueSpecific(Market, r.day)
    OBVIOUS
  <2>1. r.day \in w.specific .. (w.output - 1)
    BY DEF Halo
  <2>2. r.day < o
    <3> HIDE DEF w
    <3> QED
      BY <1>1, <1>2, <2>1
  <2> QED
    BY <2>2 DEF HaloRows
<1>6. ASSUME NEW x \in days, TrueSpecific(Market, x) # {}
      PROVE  \/ x \in OutputDays(w, c)
             \/ \E r \in rows : r.day = x /\ r.day \in Halo(w, base)
  <2>1. x >= pathStart
    BY <1>6, SpecificSeen DEF Market
  <2>2. x \in Nat /\ x >= d - VolatilityWindow + 1 /\ x <= d /\ x >= 1
    BY <1>1 DEF VolatilityDays
  <2>3. CASE x >= o
    BY <1>1, <1>3, <2>1, <2>2, <2>3 DEF AtLeast
  <2>4. CASE x < o
    <3>1. base.origin = pathStart
      BY <1>1, <2>1, <2>2, <2>4 DEF BaseOrigin
    <3>2. x \in w.specific .. (w.output - 1)
      <4> HIDE DEF w
      <4> QED
        BY <1>1, <1>2, <2>2, <2>4 DEF AtLeast
    <3>3. base.origin \in 1 .. x
      BY <1>1, <2>1, <2>2, <3>1
    <3>4. x \in Halo(w, base)
      BY <3>2, <3>3 DEF Halo
    <3>5. x \in pathStart .. c0
      BY <1>1, <2>1, <2>2, <2>4 DEF AtLeast
    <3>6. PICK r \in rows : r.day = x
      BY <3>5 DEF DaysOf
    <3> QED
      BY <3>4, <3>6
  <2> QED
    BY <1>1, <2>2, <2>3, <2>4
<1>7. \A v : v \in S <=>
        \/ \E r \in rows : r.day \in Halo(w, base) /\ \E s \in r.specific : v = <<r.day, s>>
        \/ \E x \in OutputDays(w, c) : \E s \in Specific(x, w, fs, c) : v = <<x, s>>
  <2> DEFINE R == {r \in rows : r.day \in Halo(w, base)}
             D == OutputDays(w, c)
             A == {{<<r.day, s>> : s \in r.specific} : r \in R}
             B == {{<<x, s>> : s \in Specific(x, w, fs, c)} : x \in D}
  <2>1. S = UNION (A \cup B)
    BY DEF SpecificsOf
  <2>2. \A r : r \in R <=> r \in rows /\ r.day \in Halo(w, base)
    OBVIOUS
  <2>3. \A v : v \in UNION A <=> \E r \in R : \E s \in r.specific : v = <<r.day, s>>
    <3> HIDE DEF R
    <3> QED
      OBVIOUS
  <2>4. \A v : v \in UNION B <=> \E x \in D : \E s \in Specific(x, w, fs, c) : v = <<x, s>>
    <3> HIDE DEF D, w, fs
    <3> QED
      OBVIOUS
  <2> HIDE DEF A, B, S, R, D
  <2>5. \A v : v \in S <=> v \in UNION A \/ v \in UNION B
    BY <2>1
  <2> QED
    BY <2>2, <2>3, <2>4, <2>5 DEF D
<1>8. \A v : v \in Flat(F, days) <=> \E x \in days : \E s \in TrueSpecific(Market, x) : v = <<x, s>>
  <2>1. \A x \in days : F[x] = TrueSpecific(Market, x)
    BY DEF SpecificFamily
  <2> HIDE DEF F, days
  <2> QED
    BY <2>1 DEF Flat
<1>9. \A x, s : <<x, s>>[1] = x
  OBVIOUS
<1> HIDE DEF w, fs, F, days, S
<1>10. ASSUME NEW v \in S, v[1] \in days
       PROVE  v \in Flat(F, days)
  <2>1. CASE \E r \in rows : r.day \in Halo(w, base) /\ \E s \in r.specific : v = <<r.day, s>>
    <3>1. PICK r \in rows : r.day \in Halo(w, base) /\ \E s \in r.specific : v = <<r.day, s>>
      BY <2>1
    <3>2. PICK s \in r.specific : v = <<r.day, s>>
      BY <3>1
    <3>3. r.day \in days /\ s \in TrueSpecific(Market, r.day)
      BY <1>5, <1>9, <1>10, <3>1, <3>2
    <3> QED
      BY <1>8, <3>2, <3>3
  <2>2. CASE \E x \in OutputDays(w, c) : \E s \in Specific(x, w, fs, c) : v = <<x, s>>
    <3>1. PICK x \in OutputDays(w, c) : \E s \in Specific(x, w, fs, c) : v = <<x, s>>
      BY <2>2
    <3>2. PICK s \in Specific(x, w, fs, c) : v = <<x, s>>
      BY <3>1
    <3>3. x \in days /\ s \in TrueSpecific(Market, x)
      BY <1>4, <1>9, <1>10, <3>2
    <3> QED
      BY <1>8, <3>2, <3>3
  <2> QED
    BY <1>7, <2>1, <2>2
<1>11. ASSUME NEW v \in Flat(F, days)
       PROVE  v \in S /\ v[1] \in days
  <2>1. PICK x \in days : \E s \in TrueSpecific(Market, x) : v = <<x, s>>
    BY <1>8
  <2>2. PICK s \in TrueSpecific(Market, x) : v = <<x, s>>
    BY <2>1
  <2>3. v[1] = x
    BY <1>9, <2>2
  <2>4. v \in S
    <3>1. CASE x \in OutputDays(w, c)
      BY <1>4, <1>7, <2>2, <3>1
    <3>2. CASE \E r \in rows : r.day = x /\ r.day \in Halo(w, base)
      BY <1>5, <1>7, <2>2, <3>2
    <3> QED
      BY <1>6, <2>2, <3>1, <3>2
  <2> QED
    BY <2>3, <2>4
<1>12. {v \in S : v[1] \in days} = Flat(F, days)
  BY <1>10, <1>11
<1> QED
  BY <1>12 DEF w, fs, F, days, S

LEMMA ReturnsOfWindow ==
  ASSUME World, NEW c \in 1 .. last, NEW o \in 1 .. c, NEW e \in o .. c,
         NEW d \in o .. e, d < c, d - VolatilityWindow + 1 >= 1
  PROVE  LET w == OutputInterval(o, e)
         IN  {v \in ReturnsOf(w, c) : v[1] \in VolatilityDays(d)}
               = Flat(ReturnFamily(Market, d), VolatilityDays(d))
<1> DEFINE w == OutputInterval(o, e)
           F == ReturnFamily(Market, d)
           days == VolatilityDays(d)
           S == ReturnsOf(w, c)
<1>1. /\ c \in Nat /\ o \in Nat \ {0} /\ e \in Nat /\ d \in Nat
      /\ VolatilityWindow \in Nat /\ VolatilityWindow >= 2
  BY WindowSizes DEF World, ProfileDays
<1>2. /\ w.end = e /\ w.read \in 1 .. o /\ d - VolatilityWindow + 1 >= w.read
  <2>1. d >= o
    BY <1>1
  <2> QED
    BY <1>1, <2>1, WindowReads, Zenon
<1>3. \A x \in days : x \in w.read .. w.end /\ (HasReturn(x, c) <=> ReturnOn(Market, x))
  <2> SUFFICES ASSUME NEW x \in days
               PROVE  x \in w.read .. w.end /\ (HasReturn(x, c) <=> ReturnOn(Market, x))
    OBVIOUS
  <2>1. x \in Nat /\ x >= d - VolatilityWindow + 1 /\ x <= d /\ x < c
    BY <1>1 DEF VolatilityDays
  <2> HIDE DEF w
  <2>2. x \in w.read .. w.end
    BY <1>1, <1>2, <2>1
  <2> QED
    BY <2>1, <2>2 DEF HasReturn, ReturnOn, Market
<1>4. \A v : v \in S <=> \E x \in w.read .. w.end : HasReturn(x, c) /\ v = <<x, gross[x]>>
  BY DEF ReturnsOf
<1>5. \A v : v \in Flat(F, days) <=> \E x \in days : ReturnOn(Market, x) /\ v = <<x, gross[x]>>
  <2>1. \A x \in days : \A s : s \in F[x] <=> ReturnOn(Market, x) /\ s = gross[x]
    BY DEF ReturnFamily, Market
  <2>2. \A v : v \in Flat(F, days) <=> \E x \in days : \E s \in F[x] : v = <<x, s>>
    <3> HIDE DEF F, days
    <3> QED
      BY DEF Flat
  <2> HIDE DEF F, days
  <2> QED
    BY <2>1, <2>2
<1>6. \A x : <<x, gross[x]>>[1] = x
  OBVIOUS
<1> HIDE DEF w, F, days, S
<1>7. {v \in S : v[1] \in days} = Flat(F, days)
  <2>1. ASSUME NEW v \in S, v[1] \in days
        PROVE  v \in Flat(F, days)
    <3>1. PICK x \in w.read .. w.end : HasReturn(x, c) /\ v = <<x, gross[x]>>
      BY <1>4
    <3>2. x \in days
      BY <1>6, <2>1, <3>1
    <3> QED
      BY <1>3, <1>5, <3>1, <3>2
  <2>2. ASSUME NEW v \in Flat(F, days)
        PROVE  v \in S /\ v[1] \in days
    <3>1. PICK x \in days : ReturnOn(Market, x) /\ v = <<x, gross[x]>>
      BY <1>5
    <3>2. v[1] = x
      BY <1>6, <3>1
    <3> QED
      BY <1>3, <1>4, <3>1, <3>2
  <2> QED
    BY <2>1, <2>2
<1> QED
  BY <1>7 DEF w, F, days, S

\* A row is that of the whole history, or the last day's without its returns.
FullRow(r, c) ==
  /\ r.day < c => r = TrueRow(Market, r.day)
  /\ r.day = c => r = PendingRow(c)

LEMMA RowIsFull ==
  ASSUME World, NEW c \in 1 .. last, NEW o \in 1 .. c, NEW e \in o .. c,
         NEW base, NEW rows, NEW c0 \in 0 .. c, o <= AtLeast(1, c0),
         DaysOf(rows) = pathStart .. c0, HaloRows(rows, o), BaseOrigin(base, o, c),
         NEW d \in o .. e, d < c
  PROVE  RowOf(d, OutputInterval(o, e), base, rows, TrueFactors(c), c) = TrueRow(Market, d)
<1> DEFINE w == OutputInterval(o, e)
           fs == TrueFactors(c)
           S == SpecificsOf(w, base, rows, fs, c)
           R == ReturnsOf(w, c)
<1>1. c \in Nat /\ o \in Nat \ {0} /\ e \in Nat /\ d \in Nat /\ d >= o
  BY DEF World, ProfileDays
<1>2. Reason(d, w, fs, c) = TrueReason(Market, d) /\ Specific(d, w, fs, c) = TrueSpecific(Market, d)
  BY <1>1, RegressionIsTrue
<1>3. d - VolatilityWindow + 1 >= w.read <=> d - VolatilityWindow + 1 >= 1
  BY <1>1, WindowReads, Zenon
<1>4. d - VolatilityWindow + 1 >= 1 =>
        /\ {v \in S : v[1] \in VolatilityDays(d)} = Flat(SpecificFamily(Market, d), VolatilityDays(d))
        /\ {v \in R : v[1] \in VolatilityDays(d)} = Flat(ReturnFamily(Market, d), VolatilityDays(d))
  BY SpecificsOfWindow, ReturnsOfWindow
<1>5. RowOf(d, w, base, rows, fs, c)
        = [day |-> d, reason |-> Reason(d, w, fs, c), specific |-> Specific(d, w, fs, c),
           grossVolatility |-> Volatility(R, d, w), specificVolatility |-> Volatility(S, d, w)]
  BY DEF RowOf
<1> HIDE DEF w, fs, S, R
<1>6. /\ Volatility(S, d, w) = FullWindow(SpecificFamily(Market, d), d)
      /\ Volatility(R, d, w) = FullWindow(ReturnFamily(Market, d), d)
  BY <1>1, <1>3, <1>4, VolatilityOfFamily
<1> QED
  BY <1>2, <1>5, <1>6 DEF TrueRow, w, fs

\* No value of the last day is known.
LEMMA NoVolatility ==
  ASSUME NEW values, NEW d \in Nat, NEW w, \A v \in values : v[1] # d
  PROVE  Volatility(values, d, w) = {}
<1> DEFINE days == (d - VolatilityWindow + 1) .. d
           sample == {v \in values : v[1] \in days}
<1>1. d \in days
  BY WindowSizes
<1>2. d \notin {v[1] : v \in sample}
  OBVIOUS
<1>3. Volatility(values, d, w)
        = IF d - VolatilityWindow + 1 >= w.read /\ {v[1] : v \in sample} = days
          THEN sample ELSE {}
  BY DEF Volatility
<1> HIDE DEF sample, days
<1>4. {v[1] : v \in sample} # days
  BY <1>1, <1>2
<1> QED
  BY <1>3, <1>4

LEMMA LastRowPending ==
  ASSUME World, NEW c \in 1 .. last, NEW o \in 1 .. c, NEW base, NEW rows
  PROVE  RowOf(c, OutputInterval(o, c), base, rows, TrueFactors(c), c) = PendingRow(c)
<1> DEFINE w == OutputInterval(o, c)
           fs == TrueFactors(c)
           S == SpecificsOf(w, base, rows, fs, c)
           R == ReturnsOf(w, c)
<1>1. c \in Nat /\ o \in Nat \ {0} /\ o <= c
  BY DEF World, ProfileDays
<1>2. /\ Reason(c, w, fs, c) = IF c - 1 < RegressionMinPeriods THEN "regression_warmup"
                               ELSE "factor_return_unavailable"
      /\ Specific(c, w, fs, c) = {}
  BY LastDayPending
<1>3. w.output = o /\ w.end = c /\ w.specific \in 1 .. o
  <2>1. c >= o
    BY <1>1
  <2> QED
    BY <1>1, <2>1, WindowReads, Zenon
<1>4. \A v \in R : v[1] # c
  <2> SUFFICES ASSUME NEW v \in R PROVE v[1] # c
    OBVIOUS
  <2>1. PICK x : HasReturn(x, c) /\ v = <<x, gross[x]>>
    BY DEF ReturnsOf
  <2>2. x # c
    BY <1>1, <2>1 DEF HasReturn
  <2>3. v[1] = x
    BY <2>1
  <2> QED
    BY <2>2, <2>3
<1>5. \A r \in rows : r.day \in Halo(w, base) => r.day # c
  <2> SUFFICES ASSUME NEW r \in rows, r.day \in Halo(w, base) PROVE r.day # c
    OBVIOUS
  <2>1. r.day \in w.specific .. (w.output - 1)
    BY DEF Halo
  <2> HIDE DEF w
  <2> QED
    BY <1>1, <1>3, <2>1
<1>6. \A v \in S : v[1] # c
  <2> SUFFICES ASSUME NEW v \in S PROVE v[1] # c
    OBVIOUS
  <2>1. \/ \E r \in rows : r.day \in Halo(w, base) /\ \E s \in r.specific : v = <<r.day, s>>
        \/ \E x : \E s \in Specific(x, w, fs, c) : v = <<x, s>>
    BY Zenon DEF SpecificsOf
  <2> HIDE DEF w, fs, S
  <2>2. CASE \E r \in rows : r.day \in Halo(w, base) /\ \E s \in r.specific : v = <<r.day, s>>
    BY <1>5, <2>2
  <2>3. CASE \E x : \E s \in Specific(x, w, fs, c) : v = <<x, s>>
    <3>1. PICK x : \E s \in Specific(x, w, fs, c) : v = <<x, s>>
      BY <2>3
    <3>2. x # c
      BY <1>2, <3>1
    <3>3. v[1] = x
      BY <3>1
    <3> QED
      BY <3>2, <3>3
  <2> QED
    BY <2>1, <2>2, <2>3
<1>7. RowOf(c, w, base, rows, fs, c)
        = [day |-> c, reason |-> Reason(c, w, fs, c), specific |-> Specific(c, w, fs, c),
           grossVolatility |-> Volatility(R, c, w), specificVolatility |-> Volatility(S, c, w)]
  BY DEF RowOf
<1> HIDE DEF w, fs, S, R
<1>8. Volatility(R, c, w) = {} /\ Volatility(S, c, w) = {}
  BY <1>1, <1>4, <1>6, NoVolatility
<1> QED
  BY <1>2, <1>7, <1>8 DEF PendingRow, w, fs

\* Every row of an output is that of the whole history.
LEMMA OutputIsFull ==
  ASSUME World, NEW c \in 1 .. last, NEW o \in 1 .. c, NEW e \in o .. c,
         NEW base, NEW rows, NEW c0 \in 0 .. c, o <= AtLeast(1, c0),
         DaysOf(rows) = pathStart .. c0, HaloRows(rows, o), BaseOrigin(base, o, c),
         NEW r \in OutputRows(OutputInterval(o, e), base, rows, TrueFactors(c), c)
  PROVE  FullRow(r, c)
<1>1. c \in Nat /\ o \in Nat \ {0} /\ e \in Nat /\ pathStart \in Nat
  BY DEF World, ProfileDays
<1>2. PICK d \in AtLeast(o, pathStart) .. e :
        r = RowOf(d, OutputInterval(o, e), base, rows, TrueFactors(c), c)
  BY RowsOfDays, OutputInterior
<1>3. r.day = d
  BY <1>2 DEF RowOf
<1>4. d \in o .. e /\ d <= c
  BY <1>1, <1>2 DEF AtLeast
<1>5. CASE d < c
  <2>1. r = TrueRow(Market, d)
    BY <1>2, <1>4, <1>5, RowIsFull
  <2>2. r.day # c
    BY <1>1, <1>3, <1>5, <1>4
  <2> QED
    BY <1>3, <2>1, <2>2 DEF FullRow
<1>6. CASE d = c
  <2>1. e = c
    BY <1>1, <1>4, <1>6
  <2>2. r = PendingRow(c)
    BY <1>2, <1>6, <2>1, LastRowPending
  <2>3. ~ (r.day < c)
    BY <1>1, <1>3, <1>6
  <2> QED
    BY <2>2, <2>3 DEF FullRow
<1> QED
  BY <1>1, <1>4, <1>5, <1>6

-----------------------------------------------------------------------------
(* The rows of a saved profile are those of the whole history.              *)

\* A published path begins with the gross path, or has no row yet.
OriginExact(s) == s.origin = IF pathStart <= s.through THEN pathStart ELSE 0

RowsProved(p) ==
  \A m \in Markets :
    /\ m.path = pathStart /\ m.industry = industryStart
    /\ p.state.prefix = ProofOf(m, p.state.proofThrough, p.state.through)
    => \A r \in p.rows : r.day < p.state.pending => r = TrueRow(m, r.day)

RowsUnreached(p) ==
  \A r \in p.rows :
    (/\ r.day < p.state.through
     /\ \A x \in changed : x < r.day - RegressionWindow - VolatilityWindow + 1 \/ x > r.day)
      => r = TrueRow(Market, r.day)

LastRow(p) == \A r \in p.rows : r.day = p.state.through => r = PendingRow(p.state.through)

FullInv ==
  /\ profile.state # NoState =>
       /\ OriginExact(profile.state) /\ RowsProved(profile) /\ RowsUnreached(profile)
       /\ LastRow(profile)
  /\ \E S : checkpoints \in Seq(S) /\ \A s \in S : OriginExact(s)

LEMMA UntouchedIsFull ==
  ASSUME ProfileInv, FullInv, NEW r \in profile.rows, Untouched(r.day)
  PROVE  r = TrueRow(Market, r.day)
<1>1. /\ RowsProved(profile) /\ RowsUnreached(profile) /\ Market \in Markets
  BY MarketType DEF ProfileInv, FullInv
<1>2. CASE /\ r.day < profile.state.pending
           /\ profile.state.prefix =
                InputProof(profile.state.proofThrough, profile.state.through)
  BY <1>1, <1>2, InputProofOf DEF RowsProved, Market
<1>3. CASE /\ r.day < profile.state.through
           /\ \A x \in changed :
                x < r.day - RegressionWindow - VolatilityWindow + 1 \/ x > r.day
  BY <1>1, <1>3 DEF RowsUnreached
<1> QED
  BY <1>2, <1>3 DEF Untouched

LEMMA SavedFullRows ==
  ASSUME ProfileInv, FullInv, NEW base, NEW o, NEW e, NEW c, Saves(base, o, e, c),
         BaseOrigin(base, o, c),
         NEW r \in Result(OutputInterval(o, e), base, profile.state, profile.rows, c).rows
  PROVE  FullRow(r, c)
<1> DEFINE c0 == profile.state.through
<1>1. /\ c \in Nat /\ c0 \in Nat /\ o \in Nat \ {0} /\ e \in Nat /\ World /\ c \in 1 .. last
      /\ c0 \in 0 .. c /\ DaysOf(profile.rows) = pathStart .. c0
      /\ o \in 1 .. c /\ e \in o .. c /\ o <= AtLeast(1, c0) /\ pathStart \in Nat
  BY SavedBounds
<1>2. \/ r \in profile.rows /\ r.day \notin o .. e
      \/ r \in OutputRows(OutputInterval(o, e), base, profile.rows, TrueFactors(c), c)
  BY SavedTrue
<1>3. ASSUME NEW q \in profile.rows PROVE q.day \in Nat
  <2>1. q.day \in pathStart .. c0
    BY <1>1 DEF DaysOf
  <2> HIDE DEF c0
  <2> QED
    BY <1>1, <2>1
<1>4. CASE r \in profile.rows /\ r.day \notin o .. e
  <2>1. r.day < c => r = TrueRow(Market, r.day)
    BY <1>4, UntouchedIsFull DEF Saves
  <2>2. ASSUME r.day = c PROVE r = PendingRow(c)
    <3>1. e < c
      BY <1>1, <1>4, <2>2
    <3>2. profile.state # NoState /\ profile.state.through = c
      BY <3>1 DEF Saves
    <3> QED
      BY <1>4, <2>2, <3>2 DEF FullInv, LastRow
  <2> QED
    BY <2>1, <2>2 DEF FullRow
<1>5. CASE r \in OutputRows(OutputInterval(o, e), base, profile.rows, TrueFactors(c), c)
  <2>1. HaloRows(profile.rows, o)
    <3> SUFFICES ASSUME NEW q \in profile.rows, q.day < o
                 PROVE  q.specific = TrueSpecific(Market, q.day)
      BY DEF HaloRows
    <3>1. q.day \notin o .. e /\ q.day < c
      BY <1>1, <1>3
    <3>2. IsTrue(q, Market)
      BY <3>1, UntouchedIsTrue DEF Saves
    <3> QED
      BY <3>2 DEF IsTrue
  <2> HIDE DEF c0
  <2> QED
    BY <1>1, <1>5, <2>1, OutputIsFull
<1> QED
  BY <1>2, <1>4, <1>5

LEMMA SavedOriginExact ==
  ASSUME ProfileInv, FullInv, NEW base, NEW o, NEW e, NEW c, Saves(base, o, e, c),
         BaseOrigin(base, o, c)
  PROVE  OriginExact(Result(OutputInterval(o, e), base, profile.state, profile.rows, c).state)
<1> DEFINE w == OutputInterval(o, e)
           first == AtLeast(w.read, pathStart)
           s == Result(w, base, profile.state, profile.rows, c).state
<1>1. /\ c \in Nat /\ o \in Nat \ {0} /\ e \in Nat /\ pathStart \in Nat \ {0}
      /\ o \in 1 .. c /\ e \in o .. c
  BY SavedBounds
<1>2. w.read \in 1 .. o
  BY <1>1, WindowEnds
<1>3. /\ s.origin = IF e < c THEN profile.state.origin
                    ELSE EarlierDay(base.origin, IF first <= e THEN first ELSE 0)
      /\ s.through = c
  <2> HIDE DEF s
  <2>1. /\ Shaped(Result(w, base, profile.state, profile.rows, c), c)
        /\ s.origin = IF e < c THEN profile.state.origin
                      ELSE EarlierDay(base.origin, IF first <= e THEN first ELSE 0)
    BY SavedShape DEF s
  <2> QED
    BY <2>1 DEF Shaped, s
<1> HIDE DEF s, w
<1>4. CASE e < c
  <2>1. profile.state # NoState /\ profile.state.through = c
    BY <1>4 DEF Saves
  <2> QED
    BY <1>3, <1>4, <2>1 DEF FullInv, OriginExact, s, w
<1>5. CASE e = c
  <2>1. s.origin = EarlierDay(base.origin, IF first <= c THEN first ELSE 0)
    BY <1>1, <1>3, <1>5
  <2>2. first = IF w.read <= pathStart THEN pathStart ELSE w.read
    BY <1>1, <1>2 DEF AtLeast
  <2>3. CASE base.origin = pathStart /\ pathStart <= c
    <3>1. s.origin = pathStart
      BY <1>1, <1>2, <2>1, <2>2, <2>3 DEF EarlierDay, AtMost
    <3> QED
      BY <1>3, <2>3, <3>1 DEF OriginExact, s, w
  <2>4. CASE base.origin = 0 /\ o <= pathStart
    <3>1. first = pathStart
      BY <1>1, <1>2, <2>2, <2>4
    <3>2. s.origin = IF pathStart <= c THEN pathStart ELSE 0
      BY <2>1, <2>4, <3>1 DEF EarlierDay
    <3> QED
      BY <1>3, <3>2 DEF OriginExact, s, w
  <2> QED
    BY <2>3, <2>4 DEF BaseOrigin
<1> QED
  BY <1>1, <1>4, <1>5

LEMMA SavedRowsProved ==
  ASSUME ProfileInv, NEW c \in 1 .. last, NEW n, Shaped(n, c),
         n.state.prefix = InputProof(n.state.proofThrough, c),
         \A r \in n.rows : r.day \in pathStart .. c /\ FullRow(r, c)
  PROVE  RowsProved(n)
<1> DEFINE proof == n.state.proofThrough
           pending == n.state.pending
<1>1. /\ World /\ c \in Nat /\ pathStart \in Nat \ {0} /\ Market \in Markets
      /\ RegressionWindow \in Nat /\ VolatilityWindow \in Nat
  BY MarketType, WindowSizes DEF ProfileInv, World, ProfileDays
<1>2. /\ n.state.through = c /\ pending \in 1 .. c /\ proof = AtLeast(1, pending - 1)
  BY DEF Shaped
<1>3. proof \in Nat /\ \A d \in Nat : d < pending => d <= proof /\ d < c
  BY <1>1, <1>2 DEF AtLeast
<1> HIDE DEF proof, pending
<1>4. SUFFICES ASSUME NEW m \in Markets, m.path = pathStart, m.industry = industryStart,
                      n.state.prefix = ProofOf(m, proof, c),
                      NEW r \in n.rows, r.day < pending
               PROVE  r = TrueRow(m, r.day)
  BY <1>2 DEF RowsProved, proof, pending
<1>5. r.day \in Nat \ {0} /\ r.day <= proof /\ r.day < c
  <2>1. r.day \in pathStart .. c
    OBVIOUS
  <2>2. r.day \in Nat \ {0}
    BY <1>1, <2>1
  <2> QED
    BY <1>3, <1>4, <2>2
<1>6. r = TrueRow(Market, r.day)
  BY <1>5 DEF FullRow
<1>7. ProofOf(Market, proof, c) = ProofOf(m, proof, c)
  BY <1>4, InputProofOf DEF proof
<1> DEFINE d == r.day
<1>8. ASSUME NEW h \in (d - RegressionWindow - VolatilityWindow + 1) .. d, h >= 1
      PROVE  Market.gross[h] = m.gross[h] /\ Market.factor[h] = m.factor[h]
  <2> HIDE DEF d
  <2>0. d \in Nat \ {0} /\ d <= proof /\ d < c
    BY <1>5 DEF d
  <2>1. h \in 1 .. proof /\ h < c
    BY <1>1, <1>3, <1>8, <2>0
  <2> QED
    BY <1>1, <1>3, <1>7, <2>1, ProofAgrees
<1>9. m.path = Market.path /\ m.industry = Market.industry
  BY <1>4 DEF Market
<1>10. d \in Nat \ {0}
  BY <1>5
<1> HIDE DEF d
<1>11. TrueRow(Market, d) = TrueRow(m, d)
  BY <1>1, <1>8, <1>9, <1>10, RowReach
<1> QED
  BY <1>6, <1>11 DEF d

LEMMA SavedFull ==
  ASSUME ProfileInv, FullInv, NEW base, NEW o, NEW e, NEW c, Saves(base, o, e, c),
         Save(OutputInterval(o, e), base, profile.state, profile.rows), BaseOrigin(base, o, c)
  PROVE  FullInv'
<1> DEFINE n == Result(OutputInterval(o, e), base, profile.state, profile.rows, c)
<1>1. c \in 1 .. last /\ World
  BY SavedBounds
<1>2. /\ profile' = n /\ changed' = {}
      /\ UNCHANGED <<gross, factor, pathStart, industryStart>>
  <2>1. c = IF profile.state = NoState THEN last
            ELSE IF base = profile.state THEN last ELSE profile.state.through
    BY DEF Saves
  <2> QED
    BY <2>1 DEF Save
<1>3. Shaped(n, c) /\ n.state.prefix = InputProof(n.state.proofThrough, c)
  BY SavedShape
<1>4. \A r \in n.rows : r.day \in pathStart .. c /\ FullRow(r, c)
  BY SavedTrue, SavedFullRows
<1>5. OriginExact(n.state)
  BY SavedOriginExact
<1> HIDE DEF n
<1>6. RowsProved(n)
  BY <1>1, <1>3, <1>4, SavedRowsProved
<1>7. n.state.through = c /\ Market' = Market
  BY <1>2, <1>3 DEF Shaped, Market
<1>8. OriginExact(profile.state)' /\ RowsProved(profile)'
  BY <1>2, <1>5, <1>6 DEF OriginExact, RowsProved
<1>9. RowsUnreached(profile)' /\ LastRow(profile)'
  BY <1>2, <1>4, <1>7 DEF RowsUnreached, LastRow, FullRow
<1>10. \E S : checkpoints' \in Seq(S) /\ \A s \in S : OriginExact(s)
  <2>1. PICK S : checkpoints \in Seq(S) /\ \A s \in S : OriginExact(s)
    BY DEF FullInv
  <2>2. CASE profile.state = NoState
    <3>1. checkpoints' = <<>>
      BY <2>2 DEF Save
    <3>2. checkpoints' \in Seq(S)
      BY <3>1
    <3> QED
      BY <2>1, <3>2
  <2>3. CASE profile.state # NoState
    <3>1. checkpoints' = SubSeq(<<profile.state>> \o checkpoints, 1,
                             AtMost(MaxCheckpoints, Len(<<profile.state>> \o checkpoints)))
      BY <2>3 DEF Save
    <3>2. checkpoints' \in Seq(S \cup {profile.state})
      BY <2>1, <3>1, KeptCheckpoints
    <3>3. \A s \in S \cup {profile.state} : OriginExact(s)
      BY <2>1, <2>3 DEF FullInv
    <3> QED
      BY <3>2, <3>3
  <2> QED
    BY <2>2, <2>3
<1> QED
  BY <1>2, <1>8, <1>9, <1>10 DEF FullInv, OriginExact

\* Every older state was saved after the path had begun.
OriginsKnown == \A i \in DOMAIN checkpoints : checkpoints[i].origin # 0

LEMMA FullStart == ProfileInit => FullInv
<1> SUFFICES ASSUME ProfileInit PROVE FullInv
  OBVIOUS
<1>1. profile.state = NoState /\ checkpoints \in Seq({})
  BY DEF ProfileInit
<1> QED
  BY <1>1 DEF FullInv

LEMMA FullSession ==
  ASSUME FullInv, UNCHANGED <<profile, checkpoints, pathStart, industryStart, changed, gross, factor>>
  PROVE  FullInv'
<1>1. Market' = Market
  BY DEF Market
<1> QED
  BY <1>1 DEF FullInv, OriginExact, RowsProved, RowsUnreached, LastRow

LEMMA FullRevision ==
  ASSUME ProfileInv, FullInv, NEW d \in ProfileDays, Revise(d)
  PROVE  FullInv'
<1>1. /\ UNCHANGED <<pathStart, industryStart, profile, checkpoints, last>>
      /\ changed' = changed \cup {d}
  BY DEF Revise
<1>2. /\ World /\ last \in Nat /\ pathStart \in Nat \ {0} /\ RegressionWindow \in Nat
      /\ VolatilityWindow \in Nat
  BY WindowSizes DEF ProfileInv, World, ProfileDays
<1>3. /\ Market \in Markets /\ Market' \in Markets
      /\ Market'.path = Market.path /\ Market'.industry = Market.industry
      /\ \A h \in ProfileDays : h # d => /\ Market.gross[h] = Market'.gross[h]
                                         /\ Market.factor[h] = Market'.factor[h]
  <2>1. World' => Market' \in Markets
    BY DEF World, Market, Markets
  <2>2. World'
    BY RevisionInv DEF ProfileInv
  <2>3. gross \in [ProfileDays -> Int] /\ factor \in [ProfileDays -> Int]
    BY <1>2 DEF World
  <2>4. \A h \in ProfileDays : h # d => gross'[h] = gross[h] /\ factor'[h] = factor[h]
    BY <2>3 DEF Revise
  <2> QED
    BY <1>1, <1>2, <2>1, <2>2, <2>4, MarketType DEF Market
<1>4. CASE profile.state = NoState
  BY <1>1, <1>4 DEF FullInv, OriginExact
<1>5. CASE profile.state # NoState
  <2>1. /\ OriginExact(profile.state) /\ RowsProved(profile) /\ RowsUnreached(profile)
        /\ LastRow(profile)
        /\ profile.state.through \in 1 .. last /\ Shaped(profile, profile.state.through)
    BY <1>5 DEF FullInv, ProfileInv
  <2>2. OriginExact(profile.state)' /\ RowsProved(profile)' /\ LastRow(profile)'
    BY <1>1, <2>1 DEF OriginExact, RowsProved, LastRow
  <2>3. RowsUnreached(profile)'
    <3> DEFINE n == Market'
               reach(r) == r.day - RegressionWindow - VolatilityWindow + 1
    <3> HIDE DEF n
    <3>1. SUFFICES ASSUME NEW r \in profile.rows, r.day < profile.state.through,
                          \A x \in changed' : x < reach(r) \/ x > r.day
                   PROVE  r = TrueRow(n, r.day)
      BY <1>1 DEF RowsUnreached, n
    <3>2. r.day \in Nat \ {0} /\ r.day \in ProfileDays
      <4>1. DaysOf(profile.rows) = pathStart .. profile.state.through
        BY <2>1 DEF Shaped
      <4>2. r.day \in pathStart .. profile.state.through
        BY <4>1 DEF DaysOf
      <4>3. last \in ProfileDays
        BY <1>2 DEF World
      <4> QED
        BY <1>2, <2>1, <4>2, <4>3, WindowSizes DEF ProfileDays
    <3>3. r = TrueRow(Market, r.day)
      BY <1>1, <2>1, <3>1 DEF RowsUnreached
    <3>4. d \notin reach(r) .. r.day
      <4>1. d < reach(r) \/ d > r.day
        BY <1>1, <3>1
      <4> QED
        BY <1>2, <3>2, <4>1 DEF ProfileDays
    <3> DEFINE x == r.day
    <3>5. ASSUME NEW h \in (x - RegressionWindow - VolatilityWindow + 1) .. x, h >= 1
          PROVE  Market.gross[h] = n.gross[h] /\ Market.factor[h] = n.factor[h]
      <4>1. h \in ProfileDays
        BY <1>2, <3>2, <3>5, WindowSizes DEF ProfileDays
      <4>2. h # d
        BY <3>4, <3>5
      <4> QED
        BY <1>3, <4>1, <4>2 DEF n
    <3>6. x \in Nat \ {0}
      BY <3>2
    <3> HIDE DEF x
    <3>7. TrueRow(Market, x) = TrueRow(n, x)
      BY <1>3, <3>5, <3>6, RowReach DEF n
    <3> QED
      BY <3>3, <3>7 DEF x
  <2> QED
    BY <1>1, <2>2, <2>3 DEF FullInv, OriginExact
<1> QED
  BY <1>4, <1>5

LEMMA FullStep ==
  ProfileInv /\ FullInv /\ OriginsKnown /\ [ProfileNext]_profileVars => FullInv'
<1> SUFFICES ASSUME ProfileInv, FullInv, OriginsKnown, [ProfileNext]_profileVars
             PROVE  FullInv'
  OBVIOUS
<1>1. CASE UNCHANGED profileVars
  BY <1>1, FullSession DEF profileVars
<1>2. CASE NextSession
  BY <1>2, FullSession DEF NextSession
<1>3. CASE \E d \in ProfileDays : Revise(d)
  BY <1>3, FullRevision
<1>4. CASE InitializeProfile
  <2>1. profile.state = NoState /\ SavesFrom(NoState)
    BY <1>4, InitializeSaves
  <2>2. PICK o, e, c : /\ Saves(NoState, o, e, c)
                       /\ Save(OutputInterval(o, e), NoState, profile.state, profile.rows)
    BY <2>1 DEF SavesFrom
  <2>3. BaseOrigin(NoState, o, c)
    <3>1. profile.state.through = 0 /\ NoState.origin = 0
      BY <2>1 DEF NoState
    <3>2. o \in 1 .. AtLeast(1, 0) /\ pathStart \in Nat \ {0}
      BY <2>2, <3>1 DEF Saves, ProfileInv, World
    <3> QED
      BY <3>1, <3>2 DEF BaseOrigin, AtLeast
  <2> QED
    BY <2>2, <2>3, SavedFull
<1>5. CASE AppendProfile
  <2>1. profile.state # NoState /\ SavesFrom(profile.state)
    BY <1>5, AppendSaves
  <2>2. PICK o, e, c : /\ Saves(profile.state, o, e, c)
                       /\ Save(OutputInterval(o, e), profile.state, profile.state, profile.rows)
    BY <2>1 DEF SavesFrom
  <2>3. BaseOrigin(profile.state, o, c)
    <3>1. OriginExact(profile.state)
      BY <2>1 DEF FullInv
    <3>2. /\ pathStart \in Nat \ {0} /\ c \in Nat /\ profile.state.through \in 0 .. c
          /\ o \in Nat /\ o <= AtLeast(1, profile.state.through)
      BY <2>2, SavedBounds
    <3>3. profile.state.through >= 1
      BY <2>1 DEF ProfileInv, World, ProfileDays
    <3> QED
      BY <3>1, <3>2, <3>3 DEF BaseOrigin, OriginExact, AtLeast
  <2> QED
    BY <2>2, <2>3, SavedFull
<1>6. CASE RepairProfile
  <2>1. PICK i \in DOMAIN checkpoints : SavesFrom(checkpoints[i])
    BY <1>6, RepairSaves
  <2>2. PICK o, e, c : /\ Saves(checkpoints[i], o, e, c)
                       /\ Save(OutputInterval(o, e), checkpoints[i], profile.state, profile.rows)
    BY <2>1 DEF SavesFrom
  <2>3. BaseOrigin(checkpoints[i], o, c)
    <3>1. OriginExact(checkpoints[i])
      <4>1. PICK S : checkpoints \in Seq(S) /\ \A s \in S : OriginExact(s)
        BY DEF FullInv
      <4>2. checkpoints[i] \in S
        BY <4>1
      <4> QED
        BY <4>1, <4>2
    <3>2. /\ pathStart \in Nat \ {0} /\ c \in Nat /\ checkpoints[i].through \in 0 .. c
      BY <2>2, SavedBounds DEF Saves
    <3>3. checkpoints[i].origin # 0
      BY DEF OriginsKnown
    <3> QED
      BY <3>1, <3>2, <3>3 DEF BaseOrigin, OriginExact
  <2> QED
    BY <2>2, <2>3, SavedFull
<1> QED
  BY <1>1, <1>2, <1>3, <1>4, <1>5, <1>6 DEF ProfileNext

\* A computation over everything has one row of every day, that of the whole
\* history.
LEMMA FullResultRows ==
  ASSUME World, NEW c \in 1 .. last
  PROVE  /\ DaysOf(FullResult(c).rows) = pathStart .. c
         /\ \A r \in FullResult(c).rows : FullRow(r, c)
         /\ FullResult(c).state.factors = TrueFactors(c)
         /\ OriginExact(FullResult(c).state) /\ FullResult(c).state.through = c
<1> DEFINE w == OutputInterval(1, c)
           out == OutputRows(w, NoState, {}, TrueFactors(c), c)
           s == StateAfter(w, NoState, NoState, out, c)
           first == AtLeast(w.read, pathStart)
<1>1. /\ c \in Nat /\ 1 \in 1 .. c /\ c \in 1 .. c /\ 0 \in 0 .. c
      /\ pathStart \in Nat \ {0} /\ industryStart \in Nat \ {0}
  BY DEF World, ProfileDays
<1>2. /\ NoState.factors = TrueFactors(0) /\ NoState.origin = 0 /\ 1 <= AtLeast(1, 0)
  BY <1>1 DEF NoState, TrueFactors, AtLeast
<1>3. DaysOf({}) = pathStart .. 0
  BY <1>1 DEF DaysOf
<1>4. SavedRows(NoState, NoState, {}, 1, c, c)
  BY <1>1, <1>2, <1>3, ResultRows
<1>5. /\ FullResult(c).rows = out /\ FullResult(c).state = s
      /\ DaysOf(FullResult(c).rows) = pathStart .. c
  BY <1>4 DEF SavedRows, FullResult, KeptRows
<1>6. \A r \in out : FullRow(r, c)
  <2>1. HaloRows({}, 1)
    BY DEF HaloRows
  <2>2. BaseOrigin(NoState, 1, c)
    BY <1>1, <1>2 DEF BaseOrigin
  <2> QED
    BY <1>1, <1>2, <1>3, <2>1, <2>2, OutputIsFull
<1> HIDE DEF out
<1>7. /\ s.through = c /\ s.factors = TrueFactors(c)
      /\ s.origin = EarlierDay(NoState.origin, IF first <= c THEN first ELSE 0)
  <2>1. ~ (c < c)
    BY <1>1
  <2> QED
    BY <1>1, <1>2, <2>1, ResultState
<1>8. first = pathStart
  <2>1. w.read \in 1 .. 1
    BY <1>1, WindowEnds
  <2> HIDE DEF w
  <2> QED
    BY <1>1, <2>1 DEF AtLeast
<1> HIDE DEF s, first
<1>9. OriginExact(s)
  BY <1>1, <1>2, <1>7, <1>8 DEF OriginExact, EarlierDay
<1> QED
  BY <1>5, <1>6, <1>7, <1>9

\* Rows of the same days, each that of the whole history, are the same.
LEMMA FullRowsAgree ==
  ASSUME World, NEW c \in 1 .. last, NEW A, NEW B,
         DaysOf(A) = pathStart .. c, DaysOf(B) = pathStart .. c,
         \A r \in A : FullRow(r, c), \A r \in B : FullRow(r, c)
  PROVE  A \subseteq B
<1> SUFFICES ASSUME NEW r \in A PROVE r \in B
  OBVIOUS
<1>1. r.day \in pathStart .. c /\ c \in Nat /\ pathStart \in Nat
  BY DEF DaysOf, World, ProfileDays
<1>2. PICK q \in B : q.day = r.day
  BY <1>1 DEF DaysOf
<1>3. FullRow(r, c) /\ FullRow(q, c)
  OBVIOUS
<1>4. r.day < c \/ r.day = c
  BY <1>1
<1>5. r = q
  BY <1>2, <1>3, <1>4 DEF FullRow
<1> QED
  BY <1>5

LEMMA SavedMatchesFull ==
  ProfileInv /\ FullInv => ProfileMatchesFull
<1> SUFFICES ASSUME ProfileInv, FullInv, profile.state # NoState, changed = {}
             PROVE  LET full == FullResult(profile.state.through)
                    IN  /\ profile.rows = full.rows
                        /\ profile.state.factors = full.state.factors
                        /\ profile.state.origin = full.state.origin
  BY DEF ProfileMatchesFull
<1> DEFINE c == profile.state.through
           full == FullResult(c)
<1>1. World /\ c \in 1 .. last /\ Shaped(profile, c) /\ OriginExact(profile.state)
      /\ RowsUnreached(profile) /\ LastRow(profile)
  BY DEF ProfileInv, FullInv
<1>2. DaysOf(profile.rows) = pathStart .. c /\ profile.state.factors = TrueFactors(c)
  BY <1>1 DEF Shaped
<1>3. \A r \in profile.rows : FullRow(r, c)
  BY <1>1 DEF RowsUnreached, LastRow, FullRow
<1>4. /\ DaysOf(full.rows) = pathStart .. c /\ \A r \in full.rows : FullRow(r, c)
      /\ full.state.factors = TrueFactors(c)
      /\ OriginExact(full.state) /\ full.state.through = c
  BY <1>1, FullResultRows
<1> HIDE DEF full
<1>5. profile.rows \subseteq full.rows /\ full.rows \subseteq profile.rows
  BY <1>1, <1>2, <1>3, <1>4, FullRowsAgree
<1>6. profile.state.origin = full.state.origin
  BY <1>1, <1>4 DEF OriginExact
<1> QED
  BY <1>2, <1>4, <1>5, <1>6 DEF full

\* While every older state was saved after the path had begun, what bounded
\* continuations and repairs publish is one computation over the whole history
\* (update_risk_profile against rolling_risk_profile).
THEOREM ProfilesMatchFull ==
  ProfileSpec /\ []OriginsKnown => []ProfileMatchesFull
<1>1. ProfileInit => ProfileInv /\ FullInv
  BY ProfileStart, FullStart
<1>2. ProfileInv /\ FullInv /\ OriginsKnown /\ [ProfileNext]_profileVars
        => (ProfileInv /\ FullInv)'
  BY ProfileStep, FullStep
<1> QED
  BY <1>1, <1>2, SavedMatchesFull, PTL DEF ProfileSpec

\* The path begins with the calendar, so that every saved state has an origin.
KnownInv ==
  /\ pathStart = 1
  /\ \E S : checkpoints \in Seq(S) /\ \A s \in S : s.origin # 0

LEMMA KnownStep ==
  ProfileInv /\ FullInv /\ KnownInv /\ [ProfileNext]_profileVars => KnownInv'
<1> SUFFICES ASSUME ProfileInv, FullInv, KnownInv, [ProfileNext]_profileVars
             PROVE  KnownInv'
  OBVIOUS
<1>1. pathStart' = pathStart
  BY DEF ProfileNext, profileVars, NextSession, Revise, InitializeProfile, AppendProfile,
         RepairProfile, Save
<1>2. PICK S : checkpoints \in Seq(S) /\ \A s \in S : s.origin # 0
  BY DEF KnownInv
<1>3. \/ checkpoints' = checkpoints
      \/ checkpoints' = <<>>
      \/ /\ profile.state # NoState
         /\ checkpoints' = SubSeq(<<profile.state>> \o checkpoints, 1,
                             AtMost(MaxCheckpoints, Len(<<profile.state>> \o checkpoints)))
  BY DEF ProfileNext, profileVars, NextSession, Revise, InitializeProfile, AppendProfile,
         RepairProfile, Save
<1>4. profile.state # NoState => profile.state.origin # 0
  <2> SUFFICES ASSUME profile.state # NoState PROVE profile.state.origin # 0
    OBVIOUS
  <2>1. /\ OriginExact(profile.state) /\ profile.state.through \in 1 .. last /\ pathStart = 1
        /\ last \in Nat
    BY DEF FullInv, ProfileInv, KnownInv, World, ProfileDays
  <2> QED
    BY <2>1 DEF OriginExact
<1>5. CASE checkpoints' = checkpoints
  BY <1>1, <1>5 DEF KnownInv
<1>6. CASE checkpoints' = <<>>
  <2>1. checkpoints' \in Seq(S)
    BY <1>6
  <2> QED
    BY <1>1, <1>2, <2>1 DEF KnownInv
<1>7. CASE /\ profile.state # NoState
           /\ checkpoints' = SubSeq(<<profile.state>> \o checkpoints, 1,
                             AtMost(MaxCheckpoints, Len(<<profile.state>> \o checkpoints)))
  <2>1. checkpoints' \in Seq(S \cup {profile.state})
    BY <1>2, <1>7, KeptCheckpoints
  <2>2. \A s \in S \cup {profile.state} : s.origin # 0
    BY <1>2, <1>4, <1>7
  <2> QED
    BY <1>1, <2>1, <2>2 DEF KnownInv
<1> QED
  BY <1>3, <1>5, <1>6, <1>7

\* A path that begins with the calendar needs no hypothesis: continuations and
\* repairs publish what one computation over the whole history would.
THEOREM ProfilesFromTheStart ==
  ASSUME PathStarts = {1}
  PROVE  ProfileSpec => []ProfileMatchesFull
<1>1. ProfileInit => ProfileInv /\ FullInv /\ KnownInv
  <2> SUFFICES ASSUME ProfileInit PROVE ProfileInv /\ FullInv /\ KnownInv
    OBVIOUS
  <2>1. pathStart = 1 /\ checkpoints \in Seq({})
    BY DEF ProfileInit
  <2> QED
    BY <2>1, ProfileStart, FullStart DEF KnownInv
<1>2. KnownInv => OriginsKnown
  BY DEF KnownInv, OriginsKnown
<1>3. ProfileInv /\ FullInv /\ KnownInv /\ [ProfileNext]_profileVars
        => (ProfileInv /\ FullInv /\ KnownInv)'
  BY <1>2, ProfileStep, FullStep, KnownStep
<1> QED
  BY <1>1, <1>3, SavedMatchesFull, PTL DEF ProfileSpec
=============================================================================
