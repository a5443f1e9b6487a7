--------------------------- MODULE ScoringProofs ---------------------------
(***************************************************************************)
(* Theorems about Scoring for every set of days, profiles and notices,     *)
(* checked by TLAPS.                                                       *)
(***************************************************************************)
EXTENDS Scoring, FiniteSetTheorems, TLAPS

(* The parameters never leave the sets they are taken from.                *)
LEMMA Typed == Spec => []TypeOK
<1>1. Init => TypeOK
  BY DEF Init, TypeOK
<1>2. TypeOK /\ [Next]_vars => TypeOK'
  BY DEF TypeOK, Next, Later, vars
<1> QED BY <1>1, <1>2, PTL DEF Spec

-----------------------------------------------------------------------------
(* The calendar.                                                           *)

(* The parts of a day.                                                     *)
LEMMA DayParts ==
  ASSUME NEW t \in Dates
  PROVE  /\ t.y \in Nat /\ t.y >= 1 /\ t.m \in 1..12 /\ t.d \in 1..31
         /\ t.d <= MonthLength(t.y, t.m)
BY DEF Dates

(* A year is as long as its being a leap year says.                        *)
DaysOfYear(y) == IF Leap(y) THEN 366 ELSE 365

(* The days before a year and, within it, before a month.                  *)
YearStart(y) == 365 * (y - 1) + (y - 1) \div 4 - (y - 1) \div 100 + (y - 1) \div 400
MonthStart(y, m) == DaysBefore[m] + (IF m > 2 /\ Leap(y) THEN 1 ELSE 0)

(* A multiple of k is passed when a number is one.                         *)
LEMMA StepOfQuotient ==
  ASSUME NEW y \in Nat, y >= 1
  PROVE  /\ y \div 4 = (y - 1) \div 4 + IF y % 4 = 0 THEN 1 ELSE 0
         /\ y \div 100 = (y - 1) \div 100 + IF y % 100 = 0 THEN 1 ELSE 0
         /\ y \div 400 = (y - 1) \div 400 + IF y % 400 = 0 THEN 1 ELSE 0
OBVIOUS

(* The next year begins when this one is over.                             *)
LEMMA NextYear ==
  ASSUME NEW y \in Nat, y >= 1
  PROVE  /\ YearStart(y) \in Int
         /\ YearStart(y + 1) = YearStart(y) + DaysOfYear(y)
<1> DEFINE a == (y - 1) \div 4
           b == (y - 1) \div 100
           c == (y - 1) \div 400
<1>1. a \in Int /\ b \in Int /\ c \in Int
  OBVIOUS
<1>2. YearStart(y) = 365 * (y - 1) + a - b + c
  BY DEF YearStart
<1>3. (y + 1) - 1 = y
  OBVIOUS
<1>4. YearStart(y + 1) = 365 * y + y \div 4 - y \div 100 + y \div 400
  BY <1>3 DEF YearStart
<1>5. /\ y \div 4 = a + IF y % 4 = 0 THEN 1 ELSE 0
      /\ y \div 100 = b + IF y % 100 = 0 THEN 1 ELSE 0
      /\ y \div 400 = c + IF y % 400 = 0 THEN 1 ELSE 0
  BY StepOfQuotient
<1>6. /\ y % 400 = 0 => y % 100 = 0
      /\ y % 100 = 0 => y % 4 = 0
  OBVIOUS
<1> HIDE DEF a, b, c
<1>7. CASE Leap(y)
  <2>1. DaysOfYear(y) = 366
    BY <1>7 DEF DaysOfYear
  <2> QED BY <1>1, <1>2, <1>4, <1>5, <1>6, <1>7, <2>1 DEF Leap
<1>8. CASE ~Leap(y)
  <2>1. DaysOfYear(y) = 365
    BY <1>8 DEF DaysOfYear
  <2> QED BY <1>1, <1>2, <1>4, <1>5, <1>6, <1>8, <2>1 DEF Leap
<1> QED BY <1>7, <1>8

(* Of two years the later begins no earlier.                               *)
LEMMA YearsAreOrdered ==
  ASSUME NEW x \in Nat, NEW y \in Nat, 1 <= x, x <= y
  PROVE  YearStart(x) <= YearStart(y)
<1> DEFINE u == x - 1
           v == y - 1
<1>1. u \in Nat /\ v \in Nat /\ u <= v
  OBVIOUS
<1>2. \A n \in Nat : n \div 4 \in Nat /\ n \div 100 \in Nat /\ n \div 400 \in Nat
  OBVIOUS
<1>3. \A n \in Nat : n \div 4 - n \div 100 = 24 * (n \div 100) + (n % 100) \div 4
                       /\ (n % 100) \div 4 \in 0..24
  OBVIOUS
<1>4. u \div 100 <= v \div 100 /\ u \div 400 <= v \div 400
  BY <1>1
<1>5. u \div 4 - u \div 100 <= v \div 4 - v \div 100
  <2>1. CASE u \div 100 < v \div 100
    BY <1>1, <1>2, <1>3, <2>1
  <2>2. CASE u \div 100 = v \div 100
    <3>1. u \div 4 <= v \div 4
      BY <1>1
    <3> QED BY <1>1, <1>2, <2>2, <3>1
  <2> QED BY <1>1, <1>2, <1>4, <2>1, <2>2
<1> HIDE DEF u, v
<1>6. 365 * u + u \div 4 - u \div 100 + u \div 400
        <= 365 * v + v \div 4 - v \div 100 + v \div 400
  BY <1>1, <1>2, <1>4, <1>5
<1> QED BY <1>6 DEF YearStart, u, v

(* A month begins when the months before it are over, and ends in its year. *)
LEMMA MonthsOfYear ==
  ASSUME NEW y \in Nat, NEW m \in 1..12
  PROVE  /\ MonthStart(y, m) \in Nat
         /\ MonthStart(y, m) + MonthLength(y, m) <= DaysOfYear(y)
         /\ \A n \in 1..12 : m < n => MonthStart(y, m) + MonthLength(y, m) <= MonthStart(y, n)
<1>1. /\ DaysBefore[1] = 0 /\ DaysBefore[2] = 31 /\ DaysBefore[3] = 59 /\ DaysBefore[4] = 90
      /\ DaysBefore[5] = 120 /\ DaysBefore[6] = 151 /\ DaysBefore[7] = 181
      /\ DaysBefore[8] = 212 /\ DaysBefore[9] = 243 /\ DaysBefore[10] = 273
      /\ DaysBefore[11] = 304 /\ DaysBefore[12] = 334
  BY DEF DaysBefore
<1>2. PICK e \in {0, 1} : e = IF Leap(y) THEN 1 ELSE 0
  OBVIOUS
<1>3. /\ MonthStart(y, 1) = 0 /\ MonthStart(y, 2) = 31 /\ MonthStart(y, 3) = 59 + e
      /\ MonthStart(y, 4) = 90 + e /\ MonthStart(y, 5) = 120 + e /\ MonthStart(y, 6) = 151 + e
      /\ MonthStart(y, 7) = 181 + e /\ MonthStart(y, 8) = 212 + e /\ MonthStart(y, 9) = 243 + e
      /\ MonthStart(y, 10) = 273 + e /\ MonthStart(y, 11) = 304 + e
      /\ MonthStart(y, 12) = 334 + e
  BY <1>1, <1>2 DEF MonthStart
<1>4. /\ MonthLength(y, 2) = 28 + e
      /\ \A k \in {4, 6, 9, 11} : MonthLength(y, k) = 30
      /\ \A k \in {1, 3, 5, 7, 8, 10, 12} : MonthLength(y, k) = 31
  BY <1>2 DEF MonthLength
<1>5. DaysOfYear(y) = 365 + e
  BY <1>2 DEF DaysOfYear
<1>6. \A k \in 1..12 : k \in {1, 2, 3, 4, 5, 6, 7, 8, 9, 10, 11, 12}
  OBVIOUS
<1>7. MonthStart(y, m) \in Nat
  BY <1>2, <1>3, <1>6
<1>8. MonthStart(y, m) + MonthLength(y, m) <= DaysOfYear(y)
  BY <1>2, <1>3, <1>4, <1>5, <1>6
<1>9. ASSUME NEW n \in 1..12, m < n
      PROVE  MonthStart(y, m) + MonthLength(y, m) <= MonthStart(y, n)
  BY <1>2, <1>3, <1>4, <1>6, <1>9
<1> QED BY <1>7, <1>8, <1>9

(* A day's number is that of its place in its year.                        *)
LEMMA OrdinalParts ==
  ASSUME NEW t \in Dates
  PROVE  /\ Ordinal(t) = YearStart(t.y) + MonthStart(t.y, t.m) + t.d
         /\ Ordinal(t) > YearStart(t.y) + MonthStart(t.y, t.m)
         /\ Ordinal(t) <= YearStart(t.y) + MonthStart(t.y, t.m) + MonthLength(t.y, t.m)
         /\ Ordinal(t) <= YearStart(t.y + 1)
         /\ Ordinal(t) \in Int
<1>1. /\ t.y \in Nat /\ t.y >= 1 /\ t.m \in 1..12 /\ t.d \in 1..31
      /\ t.d <= MonthLength(t.y, t.m)
  BY DayParts
<1>2. YearStart(t.y) \in Int /\ YearStart(t.y + 1) = YearStart(t.y) + DaysOfYear(t.y)
  BY <1>1, NextYear
<1>3. /\ MonthStart(t.y, t.m) \in Nat
      /\ MonthStart(t.y, t.m) + MonthLength(t.y, t.m) <= DaysOfYear(t.y)
  BY <1>1, MonthsOfYear
<1>4. MonthLength(t.y, t.m) \in Nat /\ DaysOfYear(t.y) \in Nat
  BY DEF MonthLength, DaysOfYear
<1>5. Ordinal(t) = YearStart(t.y) + MonthStart(t.y, t.m) + t.d
  <2>1. DaysBefore[t.m] \in Int
    BY <1>1, Z3 DEF DaysBefore
  <2>2. PICK e \in {0, 1} : e = IF t.m > 2 /\ Leap(t.y) THEN 1 ELSE 0
    OBVIOUS
  <2>3. Ordinal(t) = YearStart(t.y) + DaysBefore[t.m] + e + t.d
    BY <2>2 DEF Ordinal, YearStart
  <2>4. MonthStart(t.y, t.m) = DaysBefore[t.m] + e
    BY <2>2 DEF MonthStart
  <2> QED BY <1>1, <1>2, <2>1, <2>2, <2>3, <2>4
<1> QED BY <1>1, <1>2, <1>3, <1>4, <1>5

(* The order of the calendar.                                              *)
Earlier(s, t) ==
  \/ s.y < t.y
  \/ s.y = t.y /\ s.m < t.m
  \/ s.y = t.y /\ s.m = t.m /\ s.d < t.d

(* Numbers are ordered as the calendar orders the days, across months of   *)
(* any length, leap days and centuries (what datetime.date promises).      *)
THEOREM OrdinalsFollowTheCalendar ==
  ASSUME NEW s \in Dates, NEW t \in Dates PROVE Before(s, t) <=> Earlier(s, t)
<1>1. ASSUME NEW a \in Dates, NEW b \in Dates, Earlier(a, b)
      PROVE  Ordinal(a) < Ordinal(b)
  <2>1. /\ a.y \in Nat /\ a.y >= 1 /\ a.m \in 1..12 /\ a.d \in 1..31
        /\ b.y \in Nat /\ b.y >= 1 /\ b.m \in 1..12 /\ b.d \in 1..31
    BY DayParts
  <2>2. /\ YearStart(a.y) \in Int /\ YearStart(b.y) \in Int /\ YearStart(a.y + 1) \in Int
        /\ MonthStart(a.y, a.m) \in Nat /\ MonthStart(b.y, b.m) \in Nat
    <3>1. a.y + 1 \in Nat /\ a.y + 1 >= 1
      BY <2>1
    <3> QED BY <2>1, <3>1, NextYear, MonthsOfYear
  <2>3. CASE a.y < b.y
    <3>1. YearStart(a.y + 1) <= YearStart(b.y)
      BY <2>1, <2>3, YearsAreOrdered
    <3>2. Ordinal(a) <= YearStart(a.y + 1) /\ Ordinal(a) \in Int
      BY OrdinalParts
    <3>3. Ordinal(b) > YearStart(b.y) + MonthStart(b.y, b.m) /\ Ordinal(b) \in Int
      BY OrdinalParts
    <3> QED BY <2>2, <3>1, <3>2, <3>3
  <2>4. CASE a.y = b.y /\ a.m < b.m
    <3>1. MonthStart(a.y, a.m) + MonthLength(a.y, a.m) <= MonthStart(b.y, b.m)
      BY <2>1, <2>4, MonthsOfYear
    <3>2. /\ Ordinal(a) <= YearStart(a.y) + MonthStart(a.y, a.m) + MonthLength(a.y, a.m)
          /\ Ordinal(a) \in Int
      BY OrdinalParts
    <3>3. Ordinal(b) > YearStart(b.y) + MonthStart(b.y, b.m) /\ Ordinal(b) \in Int
      BY OrdinalParts
    <3>4. MonthLength(a.y, a.m) \in Nat
      BY DEF MonthLength
    <3> QED BY <2>2, <2>4, <3>1, <3>2, <3>3, <3>4
  <2>5. CASE a.y = b.y /\ a.m = b.m /\ a.d < b.d
    <3>1. /\ Ordinal(a) = YearStart(a.y) + MonthStart(a.y, a.m) + a.d
          /\ Ordinal(b) = YearStart(b.y) + MonthStart(b.y, b.m) + b.d
      BY OrdinalParts
    <3> QED BY <2>1, <2>2, <2>5, <3>1
  <2> QED BY <1>1, <2>3, <2>4, <2>5 DEF Earlier
<1>2. Ordinal(s) \in Int /\ Ordinal(t) \in Int
  BY OrdinalParts
<1>3. CASE Earlier(s, t)
  BY <1>1, <1>3 DEF Before
<1>4. CASE Earlier(t, s)
  <2>1. ~Earlier(s, t)
    BY <1>4, DayParts DEF Earlier
  <2>2. Ordinal(t) < Ordinal(s)
    BY <1>1, <1>4
  <2> QED BY <1>2, <2>1, <2>2 DEF Before
<1>5. CASE ~Earlier(s, t) /\ ~Earlier(t, s)
  <2>1. s.y = t.y /\ s.m = t.m /\ s.d = t.d
    BY <1>5, DayParts DEF Earlier
  <2>2. Ordinal(s) = Ordinal(t)
    BY <2>1, OrdinalParts
  <2> QED BY <1>2, <1>5, <2>2 DEF Before
<1> QED BY <1>3, <1>4, <1>5

-----------------------------------------------------------------------------
(* Time.                                                                   *)

(* Every date has a number.                                                *)
LEMMA OrdinalType == ASSUME NEW t \in Dates PROVE Ordinal(t) \in Int
BY OrdinalParts

(* A span of time is a number of days, in whole years too.                 *)
LEMMA ElapsedType ==
  ASSUME NEW s \in Dates, NEW t \in Dates
  PROVE  Elapsed(s, t) \in Nat /\ WholeYears(Elapsed(s, t)) \in Nat
<1>1. Elapsed(s, t) \in Nat
  BY OrdinalType DEF Elapsed, Before
<1>2. \A n \in Nat : WholeYears(n) \in Nat
  BY DEF WholeYears
<1> QED BY <1>1, <1>2

(* So are months.                                                          *)
LEMMA MonthsType ==
  ASSUME NEW s \in Dates, NEW t \in Dates PROVE FullMonths(s, t) \in Nat
<1>1. s.y \in Nat /\ s.m \in 1..12 /\ s.d \in 1..31 /\ t.y \in Nat /\ t.m \in 1..12 /\ t.d \in 1..31
  BY DayParts
<1> DEFINE months == (t.y - s.y) * 12 + (t.m - s.m) - (IF t.d < s.d THEN 1 ELSE 0)
<1>2. months \in Int
  BY <1>1
<1>3. FullMonths(s, t) = IF Before(t, s) \/ months < 0 THEN 0 ELSE months
  BY DEF FullMonths
<1> HIDE DEF months
<1> QED BY <1>2, <1>3

-----------------------------------------------------------------------------
(* Points.                                                                 *)

(* The start of the days without a house is a day, or there is none.       *)
LEMMA HomelessStart ==
  ASSUME NEW p \in ProfileRecords, p.birth # None
  PROVE  \E s \in Dates : \A t : HomelessDays(p, t) = Elapsed(s, t)
<1> DEFINE age30 == [y |-> p.birth.y + 30, m |-> p.birth.m,
                     d |-> IF p.birth.d > 28 THEN 28 ELSE p.birth.d]
           begun == IF p.marriage # None /\ Before(p.marriage, age30) THEN p.marriage ELSE age30
           start == IF p.since # None /\ Before(begun, p.since) THEN p.since ELSE begun
<1>1. p.birth \in Dates /\ p.marriage \in OptDates /\ p.since \in OptDates
  BY DEF ProfileRecords, OptDates
<1>2. age30 \in Dates
  <2>1. p.birth.y \in Nat /\ p.birth.m \in 1..12 /\ p.birth.d \in 1..31
    BY <1>1, DayParts
  <2>2. \A y, m : MonthLength(y, m) \in Nat /\ MonthLength(y, m) >= 28
    BY DEF MonthLength
  <2>3. age30.d \in 1..31 /\ age30.d <= 28
    BY <2>1
  <2>4. age30.y \in Nat \ {0} /\ age30.m \in 1..12
    BY <2>1
  <2>5. age30.d <= MonthLength(age30.y, age30.m)
    <3> HIDE DEF age30
    <3>1. MonthLength(age30.y, age30.m) \in Nat /\ MonthLength(age30.y, age30.m) >= 28
      BY <2>2
    <3> QED BY <2>3, <3>1
  <2>6. age30 \in [y : Nat \ {0}, m : 1..12, d : 1..31]
    BY <2>3, <2>4
  <2> HIDE DEF age30
  <2> QED BY <2>5, <2>6 DEF Dates
<1>3. begun \in Dates
  BY <1>1, <1>2 DEF OptDates
<1>4. start \in Dates
  BY <1>1, <1>3 DEF OptDates
<1>5. \A t : HomelessDays(p, t) = Elapsed(start, t)
  BY DEF HomelessDays
<1> HIDE DEF start
<1> QED BY <1>4, <1>5

(* Days without a house are a number of days.                              *)
LEMMA HomelessType ==
  ASSUME NEW p \in ProfileRecords, NEW t \in Dates
  PROVE  HomelessDays(p, t) \in Nat /\ WholeYears(HomelessDays(p, t)) \in Nat
<1>1. CASE p.birth = None
  BY <1>1 DEF HomelessDays, WholeYears
<1>2. CASE p.birth # None
  <2>1. PICK s \in Dates : HomelessDays(p, t) = Elapsed(s, t)
    BY <1>2, HomelessStart
  <2> QED BY <2>1, ElapsedType
<1> QED BY <1>1, <1>2

(* Each part of the points stays within its cap.                           *)
LEMMA Points ==
  ASSUME NEW p \in ProfileRecords, NEW t \in Dates
  PROVE  /\ HomelessPoints(p, t) \in 0..32
         /\ DependentsPoints(p) \in 5..35
         /\ AccountPoints(p, t) \in 0..17
<1>1. HomelessPoints(p, t) \in 0..32
  BY HomelessType DEF HomelessPoints, AtMost
<1>2. DependentsPoints(p) \in 5..35
  BY DEF ProfileRecords, DependentsPoints, AtMost
<1>3. AccountPoints(p, t) \in 0..17
  <2>1. CASE p.opened = None
    BY <2>1 DEF AccountPoints
  <2>2. CASE p.opened # None
    <3>1. WholeYears(Elapsed(p.opened, t)) \in Nat
      BY <2>2, ElapsedType DEF ProfileRecords, OptDates
    <3> QED BY <2>2, <3>1 DEF AccountPoints, AtMost
  <2> QED BY <2>1, <2>2
<1> QED BY <1>1, <1>2, <1>3

(* The points never leave the 84 of the rules.                             *)
THEOREM PointsStayInRange == Spec => []ScoreInRange
<1>1. TypeOK => ScoreInRange
  <2> SUFFICES ASSUME TypeOK PROVE ScoreInRange
    OBVIOUS
  <2>1. profile \in ProfileRecords /\ today \in Dates
    BY ConstantsAssumption DEF TypeOK
  <2>2. /\ HomelessPoints(profile, today) \in 0..32
        /\ DependentsPoints(profile) \in 5..35
        /\ AccountPoints(profile, today) \in 0..17
    BY <2>1, Points
  <2> QED BY <2>2 DEF ScoreInRange, Total
<1> QED BY <1>1, Typed, PTL

-----------------------------------------------------------------------------
(* Ranks.                                                                  *)

(* The rank rests on the reasons found before the area is looked at.       *)
LEMMA RankOfReasons ==
  ASSUME NEW n, NEW p, NEW q, NEW t, NEW r, NEW s, NEW reasons
  PROVE  Judgement(n, p, t, r, reasons).rank = Judgement(n, q, t, s, reasons).rank
BY DEF Judgement

(* The rank is the same whichever regions are asked for.                   *)
LEMMA RankOfRegions ==
  ASSUME NEW n, NEW p, NEW t, NEW r
  PROVE  /\ JudgeRank(n, p, t, r).rank = JudgeRank(n, p, t, None).rank
         /\ JudgeRankPublic(n, p, t, r).rank = JudgeRankPublic(n, p, t, None).rank
BY RankOfReasons DEF JudgeRank, JudgeRankPublic

(* Nor does it depend on where the member has lived.                       *)
LEMMA RankOfHistory ==
  ASSUME NEW n, NEW p \in ProfileRecords, NEW t
  PROVE  LET q == [p EXCEPT !.history = {}]
         IN  /\ JudgeRank(n, q, t, None).rank = JudgeRank(n, p, t, None).rank
             /\ JudgeRankPublic(n, q, t, None).rank = JudgeRankPublic(n, p, t, None).rank
<1> DEFINE q == [p EXCEPT !.history = {}]
<1>1. /\ q.opened = p.opened /\ q.balance = p.balance /\ q.region = p.region
      /\ q.head = p.head /\ q.won = p.won /\ q.payments = p.payments /\ q.homeless = p.homeless
  BY DEF ProfileRecords
<1> HIDE DEF q
<1>2. JudgeRank(n, q, t, None).rank = JudgeRank(n, p, t, None).rank
  <2>1. AccountTooYoung(n, q, t) = AccountTooYoung(n, p, t)
    BY <1>1 DEF AccountTooYoung
  <2>2. DepositReasons(n, q) = DepositReasons(n, p)
    BY <1>1 DEF DepositReasons
  <2> QED BY <1>1, <2>1, <2>2, RankOfReasons DEF JudgeRank
<1>3. JudgeRankPublic(n, q, t, None).rank = JudgeRankPublic(n, p, t, None).rank
  BY <1>1, RankOfReasons DEF JudgeRankPublic
<1> QED BY <1>2, <1>3 DEF q

(* Neither residence nor regions move a rank, and the batch and the        *)
(* dashboard agree.                                                        *)
THEOREM RanksIgnoreRegions == Spec => []RankIgnoresRegions
<1>1. TypeOK => RankIgnoresRegions
  <2> SUFFICES ASSUME TypeOK PROVE RankIgnoresRegions
    OBVIOUS
  <2>1. profile \in ProfileRecords
    BY ConstantsAssumption DEF TypeOK
  <2>2. DashboardItem(notice, profile, today).rank = BatchRank(notice, profile, today)
    BY RankOfRegions DEF DashboardItem, BatchRank, HousingType
  <2>3. BatchRank(notice, [profile EXCEPT !.history = {}], today)
          = BatchRank(notice, profile, today)
    BY <2>1, RankOfHistory DEF BatchRank
  <2> QED BY <2>2, <2>3 DEF RankIgnoresRegions
<1> QED BY <1>1, Typed, PTL

(* Without regulation a rank asks for no more.                             *)
LEMMA Unregulated ==
  ASSUME NEW n \in NoticeRecords
  PROVE  LET free == [n EXCEPT !.speculative = "N", !.adjusted = None]
         IN  /\ ~Regulated(free)
             /\ Capital(free) = Capital(n)
             /\ free.sizes = n.sizes /\ HousingType(free) = HousingType(n)
             /\ NeededHalfYears(free) <= NeededHalfYears(n)
             /\ PublicMonths(free) <= PublicMonths(n)
             /\ PublicPayments(free) <= PublicPayments(n)
<1> DEFINE free == [n EXCEPT !.speculative = "N", !.adjusted = None]
<1>1. /\ free.speculative = "N" /\ free.adjusted = None /\ free.area = n.area
      /\ free.sizes = n.sizes /\ free.source = n.source /\ free.kind = n.kind
  BY DEF NoticeRecords
<1> HIDE DEF free
<1>2. ~Regulated(free) /\ Capital(free) = Capital(n) /\ HousingType(free) = HousingType(n)
  BY <1>1 DEF Regulated, Capital, HousingType
<1>3. /\ NeededHalfYears(free) <= NeededHalfYears(n)
      /\ PublicMonths(free) <= PublicMonths(n) /\ PublicPayments(free) <= PublicPayments(n)
  BY <1>2 DEF NeededHalfYears, PublicMonths, PublicPayments
<1> QED BY <1>1, <1>2, <1>3 DEF free

(* A first rank is one without a reason, but for some sizes.               *)
LEMMA FirstRank ==
  ASSUME NEW n, NEW p, NEW t, NEW regions
  PROVE  /\ JudgeRank(n, p, t, regions).rank = 1 <=>
              /\ ~AccountTooYoung(n, p, t)
              /\ "deposit" \notin DepositReasons(n, p)
              /\ Regulated(n) => p.head /\ ~p.won
         /\ JudgeRankPublic(n, p, t, regions).rank = 1 <=>
              /\ ~((IF p.opened = None THEN 0 ELSE FullMonths(p.opened, t)) < PublicMonths(n))
              /\ ~(p.payments < PublicPayments(n))
              /\ p.homeless
              /\ Regulated(n) => p.head
<1>1. ASSUME NEW reasons
      PROVE  Judgement(n, p, t, regions, reasons).rank = 1
               <=> \A x \in reasons : x = "some sizes"
  <2> DEFINE decisive == reasons \ {"some sizes"}
  <2>1. Judgement(n, p, t, regions, reasons).rank = IF decisive = {} THEN 1 ELSE 2
    BY DEF Judgement
  <2>2. decisive = {} <=> \A x \in reasons : x = "some sizes"
    OBVIOUS
  <2> HIDE DEF decisive
  <2>3. CASE decisive = {}
    BY <2>1, <2>2, <2>3
  <2>4. CASE decisive # {}
    <3>1. Judgement(n, p, t, regions, reasons).rank = 2
      BY <2>1, <2>4
    <3>2. Judgement(n, p, t, regions, reasons).rank # 1
      BY <3>1
    <3> QED BY <2>2, <2>4, <3>2
  <2> QED BY <2>3, <2>4
<1>2. JudgeRank(n, p, t, regions).rank = 1 <=>
        /\ ~AccountTooYoung(n, p, t)
        /\ "deposit" \notin DepositReasons(n, p)
        /\ Regulated(n) => p.head /\ ~p.won
  <2> DEFINE reasons == {r \in {"account"} : AccountTooYoung(n, p, t)} \cup DepositReasons(n, p)
                          \cup {r \in {"head"} : Regulated(n) /\ ~p.head}
                          \cup {r \in {"won"} : Regulated(n) /\ p.won}
  <2>1. \A x \in DepositReasons(n, p) : x = "deposit" \/ x = "some sizes"
    BY DEF DepositReasons
  <2>2. \A x : x \in reasons <=>
          \/ x = "account" /\ AccountTooYoung(n, p, t)
          \/ x \in DepositReasons(n, p)
          \/ x = "head" /\ Regulated(n) /\ ~p.head
          \/ x = "won" /\ Regulated(n) /\ p.won
    OBVIOUS
  <2>3. JudgeRank(n, p, t, regions).rank = Judgement(n, p, t, regions, reasons).rank
    BY DEF JudgeRank
  <2> HIDE DEF reasons
  <2>4. JudgeRank(n, p, t, regions).rank = 1 <=> \A x \in reasons : x = "some sizes"
    BY <1>1, <2>3
  <2>5. JudgeRank(n, p, t, regions).rank = 1 =>
          ~AccountTooYoung(n, p, t) /\ "deposit" \notin DepositReasons(n, p)
            /\ (Regulated(n) => p.head /\ ~p.won)
    <3>1. \A x \in {"account", "deposit", "head", "won"} : x # "some sizes"
      OBVIOUS
    <3>2. /\ AccountTooYoung(n, p, t) => "account" \in reasons
          /\ "deposit" \in DepositReasons(n, p) => "deposit" \in reasons
          /\ Regulated(n) /\ ~p.head => "head" \in reasons
          /\ Regulated(n) /\ p.won => "won" \in reasons
      BY <2>2
    <3> QED BY <2>4, <3>1, <3>2
  <2>6. ~AccountTooYoung(n, p, t) /\ "deposit" \notin DepositReasons(n, p)
            /\ (Regulated(n) => p.head /\ ~p.won)
          => JudgeRank(n, p, t, regions).rank = 1
    BY <2>1, <2>2, <2>4
  <2> QED BY <2>5, <2>6
<1>3. JudgeRankPublic(n, p, t, regions).rank = 1 <=>
        /\ ~((IF p.opened = None THEN 0 ELSE FullMonths(p.opened, t)) < PublicMonths(n))
        /\ ~(p.payments < PublicPayments(n))
        /\ p.homeless
        /\ Regulated(n) => p.head
  <2> DEFINE months == IF p.opened = None THEN 0 ELSE FullMonths(p.opened, t)
             reasons == {r \in {"account"} : months < PublicMonths(n)}
                          \cup {r \in {"payments"} : p.payments < PublicPayments(n)}
                          \cup {r \in {"house"} : ~p.homeless}
                          \cup {r \in {"head"} : Regulated(n) /\ ~p.head}
  <2>1. JudgeRankPublic(n, p, t, regions).rank = Judgement(n, p, t, regions, reasons).rank
    BY DEF JudgeRankPublic
  <2> HIDE DEF months
  <2>2. \A x : x \in reasons <=>
          \/ x = "account" /\ months < PublicMonths(n)
          \/ x = "payments" /\ p.payments < PublicPayments(n)
          \/ x = "house" /\ ~p.homeless
          \/ x = "head" /\ Regulated(n) /\ ~p.head
    OBVIOUS
  <2> HIDE DEF reasons
  <2>3. JudgeRankPublic(n, p, t, regions).rank = 1 <=> \A x \in reasons : x = "some sizes"
    BY <1>1, <2>1
  <2>4. JudgeRankPublic(n, p, t, regions).rank = 1 <=>
          ~(months < PublicMonths(n)) /\ ~(p.payments < PublicPayments(n)) /\ p.homeless
            /\ (Regulated(n) => p.head)
    BY <2>2, <2>3
  <2> QED BY <2>4 DEF months
<1> QED BY <1>2, <1>3

(* Whoever is first under regulation is first without it.                  *)
THEOREM RegulationNeverHelps == Spec => []RegulationIsStricter
<1>1. TypeOK => RegulationIsStricter
  <2> SUFFICES ASSUME TypeOK, First(notice, profile, today)
               PROVE  First([notice EXCEPT !.speculative = "N", !.adjusted = None], profile, today)
    BY DEF RegulationIsStricter
  <2> DEFINE free == [notice EXCEPT !.speculative = "N", !.adjusted = None]
             days == IF profile.opened = None THEN 0 ELSE Elapsed(profile.opened, today)
             months == IF profile.opened = None THEN 0 ELSE FullMonths(profile.opened, today)
  <2>1. profile \in ProfileRecords /\ notice \in NoticeRecords /\ today \in Dates
    BY ConstantsAssumption DEF TypeOK
  <2>2. days \in Nat /\ months \in Nat /\ profile.payments \in Nat
    BY <2>1, ElapsedType, MonthsType DEF ProfileRecords, OptDates
  <2>3. /\ ~Regulated(free) /\ free.sizes = notice.sizes /\ HousingType(free) = HousingType(notice)
        /\ NeededHalfYears(free) <= NeededHalfYears(notice)
        /\ PublicMonths(free) <= PublicMonths(notice)
        /\ PublicPayments(free) <= PublicPayments(notice)
    BY <2>1, Unregulated
  <2>4. /\ NeededHalfYears(free) \in Nat /\ NeededHalfYears(notice) \in Nat
        /\ PublicMonths(free) \in Nat /\ PublicMonths(notice) \in Nat
        /\ PublicPayments(free) \in Nat /\ PublicPayments(notice) \in Nat
    BY DEF NeededHalfYears, PublicMonths, PublicPayments
  <2> HIDE DEF free
  <2>5. DepositReasons(free, profile) = DepositReasons(notice, profile)
    BY <2>3 DEF DepositReasons
  <2>6. AccountTooYoung(free, profile, today) => AccountTooYoung(notice, profile, today)
    BY <2>2, <2>3, <2>4 DEF AccountTooYoung, HalfYears
  <2>7. JudgeRank(notice, profile, today, None).rank = 1
          => JudgeRank(free, profile, today, None).rank = 1
    BY <2>3, <2>5, <2>6, FirstRank
  <2>8. JudgeRankPublic(notice, profile, today, None).rank = 1
          => JudgeRankPublic(free, profile, today, None).rank = 1
    BY <2>2, <2>3, <2>4, FirstRank
  <2>9. First(free, profile, today)
    <3>1. CASE HousingType(notice) = "private"
      BY <2>3, <2>7, <3>1 DEF First, BatchRank
    <3>2. CASE HousingType(notice) = "national"
      <4>1. HousingType(notice) # "private"
        BY <3>2
      <4> QED BY <2>3, <2>8, <3>2, <4>1 DEF First, BatchRank
    <3>3. CASE HousingType(notice) = None
      BY <2>3, <3>3 DEF First, BatchRank
    <3> QED BY <3>1, <3>2, <3>3 DEF HousingType
  <2> QED BY <2>9 DEF free
<1> QED BY <1>1, Typed, PTL

-----------------------------------------------------------------------------
(* What waiting changes.                                                   *)

(* Months counted by FullMonths, from the order of the calendar.           *)
LEMMA MonthsOfCalendar ==
  ASSUME NEW s \in Dates, NEW t \in Dates, ~Before(t, s)
  PROVE  /\ FullMonths(s, t) =
              (t.y - s.y) * 12 + (t.m - s.m) - (IF t.d < s.d THEN 1 ELSE 0)
         /\ FullMonths(s, t) \in Nat
         /\ FullMonths(s, t) <= 12 * (t.y - s.y + 1)
<1>1. /\ s.y \in Nat /\ s.m \in 1..12 /\ s.d \in 1..31
      /\ t.y \in Nat /\ t.m \in 1..12 /\ t.d \in 1..31
  BY DayParts
<1>2. ~Earlier(t, s)
  BY OrdinalsFollowTheCalendar
<1> DEFINE months == (t.y - s.y) * 12 + (t.m - s.m) - (IF t.d < s.d THEN 1 ELSE 0)
<1>3. months \in Int /\ months >= 0 /\ months <= 12 * (t.y - s.y + 1)
  <2>1. PICK e \in {0, 1} : e = IF t.d < s.d THEN 1 ELSE 0
    OBVIOUS
  <2>2. months = (t.y - s.y) * 12 + (t.m - s.m) - e
    BY <2>1
  <2>3. (t.y - s.y) * 12 + (t.m - s.m) - e >= 0
    <3>1. \/ s.y + 1 <= t.y
          \/ s.y = t.y /\ s.m + 1 <= t.m
          \/ s.y = t.y /\ s.m = t.m /\ e = 0
      BY <1>1, <1>2, <2>1 DEF Earlier
    <3>2. /\ e \in Int /\ 0 <= e /\ e <= 1 /\ s.y \in Int /\ t.y \in Int
          /\ s.m \in Int /\ 1 <= s.m /\ s.m <= 12 /\ t.m \in Int /\ 1 <= t.m /\ t.m <= 12
      BY <1>1, <2>1
    <3> QED BY <3>1, <3>2
  <2> HIDE DEF months
  <2> QED BY <1>1, <2>1, <2>2, <2>3
<1>4. FullMonths(s, t) = IF Before(t, s) \/ months < 0 THEN 0 ELSE months
  BY DEF FullMonths
<1>5. FullMonths(s, t) = months
  <2> HIDE DEF months
  <2> QED BY <1>3, <1>4
<1> QED BY <1>3, <1>5

(* A month that was full stays full.                                       *)
LEMMA MonthsGrow ==
  ASSUME NEW s \in Dates, NEW t \in Dates, NEW u \in Dates, Before(t, u)
  PROVE  FullMonths(s, t) <= FullMonths(s, u)
<1>1. FullMonths(s, t) \in Nat /\ FullMonths(s, u) \in Nat
  BY MonthsType
<1>2. CASE Before(t, s)
  <2>1. FullMonths(s, t) = 0
    BY <1>2 DEF FullMonths
  <2> QED BY <1>1, <2>1
<1>3. CASE ~Before(t, s)
  <2>1. ~Before(u, s)
    BY <1>3, OrdinalType DEF Before
  <2>2. /\ FullMonths(s, t) = (t.y - s.y) * 12 + (t.m - s.m) - (IF t.d < s.d THEN 1 ELSE 0)
        /\ FullMonths(s, u) = (u.y - s.y) * 12 + (u.m - s.m) - (IF u.d < s.d THEN 1 ELSE 0)
    BY <1>3, <2>1, MonthsOfCalendar
  <2>3. Earlier(t, u)
    BY OrdinalsFollowTheCalendar
  <2>4. /\ s.y \in Nat /\ s.m \in 1..12 /\ s.d \in 1..31
        /\ t.y \in Nat /\ t.m \in 1..12 /\ t.d \in 1..31
        /\ u.y \in Nat /\ u.m \in 1..12 /\ u.d \in 1..31
    BY DayParts
  <2>5. PICK i \in {0, 1}, j \in {0, 1} :
          /\ i = IF t.d < s.d THEN 1 ELSE 0
          /\ j = IF u.d < s.d THEN 1 ELSE 0
    OBVIOUS
  <2>6. /\ FullMonths(s, t) = (t.y - s.y) * 12 + (t.m - s.m) - i
        /\ FullMonths(s, u) = (u.y - s.y) * 12 + (u.m - s.m) - j
    BY <2>2, <2>5
  <2>7. CASE t.y < u.y
    <3> DEFINE years == u.y - t.y
    <3>1. years \in Int /\ years >= 1
      BY <2>4, <2>7
    <3>2. FullMonths(s, u) - FullMonths(s, t) = years * 12 + (u.m - t.m) - j + i
      BY <2>4, <2>6
    <3>3. u.m - t.m >= -11 /\ u.m - t.m \in Int
      BY <2>4
    <3>4. i \in Int /\ j \in Int /\ i >= 0 /\ j <= 1
      BY <2>5
    <3> HIDE DEF years
    <3>5. FullMonths(s, u) - FullMonths(s, t) >= 0
      BY <3>1, <3>2, <3>3, <3>4
    <3> QED BY <1>1, <3>5
  <2>8. CASE t.y = u.y /\ t.m < u.m
    BY <2>4, <2>6, <2>8
  <2>9. CASE t.y = u.y /\ t.m = u.m /\ t.d < u.d
    <3>1. j <= i
      BY <2>4, <2>5, <2>9
    <3> QED BY <2>4, <2>6, <2>9, <3>1
  <2> QED BY <2>3, <2>7, <2>8, <2>9 DEF Earlier
<1> QED BY <1>2, <1>3

(* Nor do days and years of a span get fewer.                              *)
LEMMA SpansGrow ==
  ASSUME NEW s \in Dates, NEW t \in Dates, NEW u \in Dates, Before(t, u)
  PROVE  /\ Elapsed(s, t) <= Elapsed(s, u)
         /\ WholeYears(Elapsed(s, t)) <= WholeYears(Elapsed(s, u))
<1>1. Elapsed(s, t) \in Nat /\ Elapsed(s, u) \in Nat
  BY ElapsedType
<1>2. Elapsed(s, t) <= Elapsed(s, u)
  BY OrdinalType DEF Elapsed, Before
<1>3. \A i, j \in Nat : i <= j => WholeYears(i) <= WholeYears(j)
  BY DEF WholeYears
<1> QED BY <1>1, <1>2, <1>3

(* The months a calendar counts are the first FullMonths of them.          *)
THEOREM MonthsAreThoseOfTheCalendar == Spec => []MonthsAreCalendarMonths
<1>1. TypeOK => MonthsAreCalendarMonths
  <2> SUFFICES ASSUME TypeOK, profile.opened # None, ~Before(today, profile.opened)
               PROVE  LET start == profile.opened
                          index(t) == 12 * t.y + t.m
                          come(k) == \/ index(start) + k < index(today)
                                     \/ index(start) + k = index(today) /\ start.d <= today.d
                      IN  FullMonths(start, today) =
                            Cardinality({k \in 1..12 * (today.y - start.y + 1) : come(k)})
    BY DEF MonthsAreCalendarMonths
  <2> DEFINE start == profile.opened
             index(t) == 12 * t.y + t.m
             come(k) == \/ index(start) + k < index(today)
                        \/ index(start) + k = index(today) /\ start.d <= today.d
             full == FullMonths(start, today)
             bound == 12 * (today.y - start.y + 1)
  <2>1. start \in Dates /\ today \in Dates
    BY ConstantsAssumption DEF TypeOK, ProfileRecords, OptDates
  <2>2. /\ start.y \in Nat /\ start.m \in 1..12 /\ start.d \in 1..31
        /\ today.y \in Nat /\ today.m \in 1..12 /\ today.d \in 1..31
    BY <2>1, DayParts
  <2>3. /\ full = (today.y - start.y) * 12 + (today.m - start.m)
                    - (IF today.d < start.d THEN 1 ELSE 0)
        /\ full \in Nat
        /\ full <= bound
    BY <2>1, MonthsOfCalendar
  <2>4. bound \in Int
    BY <2>2
  <2> HIDE DEF start, full
  <2>5. ASSUME NEW k \in Int PROVE come(k) <=> k <= full
    <3>1. PICK e \in {0, 1} : e = IF today.d < start.d THEN 1 ELSE 0
      OBVIOUS
    <3>2. full = (today.y - start.y) * 12 + (today.m - start.m) - e
      BY <2>3, <3>1
    <3>3. start.d <= today.d <=> e = 0
      BY <2>2, <3>1
    <3>4. come(k) <=> \/ 12 * start.y + start.m + k < 12 * today.y + today.m
                      \/ 12 * start.y + start.m + k = 12 * today.y + today.m /\ start.d <= today.d
      OBVIOUS
    <3>5. e \in Int /\ start.y \in Int /\ today.y \in Int /\ start.m \in Int /\ today.m \in Int
      BY <2>2, <3>1
    <3> HIDE DEF come
    <3>6. CASE e = 0
      BY <2>3, <3>2, <3>3, <3>4, <3>5, <3>6
    <3>7. CASE e = 1
      BY <2>3, <3>2, <3>3, <3>4, <3>5, <3>7
    <3> QED BY <3>1, <3>6, <3>7
  <2> HIDE DEF come, bound
  <2>6. {k \in 1..bound : come(k)} = 1..full
    BY <2>3, <2>4, <2>5
  <2>7. Cardinality(1..full) = full
    BY <2>3, FS_Interval
  <2>8. full = Cardinality({k \in 1..bound : come(k)})
    BY <2>6, <2>7
  <2> QED BY <2>8 DEF start, full, come, bound
<1> QED BY <1>1, Typed, PTL

(* Each part of the points is kept by waiting.                             *)
LEMMA PointsGrow ==
  ASSUME NEW p \in ProfileRecords, NEW t \in Dates, NEW u \in Dates, Before(t, u)
  PROVE  /\ HomelessPoints(p, t) <= HomelessPoints(p, u)
         /\ AccountPoints(p, t) <= AccountPoints(p, u)
         /\ Total(p, u) >= Total(p, t)
<1>1. HomelessPoints(p, t) <= HomelessPoints(p, u)
  <2>1. HomelessPoints(p, t) \in 0..32 /\ HomelessPoints(p, u) \in 0..32
    BY Points
  <2>2. CASE p.birth = None
    <3>1. HomelessDays(p, t) = 0 /\ HomelessDays(p, u) = 0
      BY <2>2 DEF HomelessDays
    <3> QED BY <3>1 DEF HomelessPoints
  <2>3. CASE p.birth # None
    <3>1. PICK s \in Dates : \A x : HomelessDays(p, x) = Elapsed(s, x)
      BY <2>3, HomelessStart
    <3>2. /\ HomelessDays(p, t) \in Nat /\ HomelessDays(p, u) \in Nat
          /\ WholeYears(HomelessDays(p, t)) \in Nat /\ WholeYears(HomelessDays(p, u)) \in Nat
      BY <3>1, ElapsedType
    <3>3. /\ HomelessDays(p, t) <= HomelessDays(p, u)
          /\ WholeYears(HomelessDays(p, t)) <= WholeYears(HomelessDays(p, u))
      BY <3>1, SpansGrow
    <3> QED BY <3>2, <3>3 DEF HomelessPoints, AtMost
  <2> QED BY <2>2, <2>3
<1>2. AccountPoints(p, t) <= AccountPoints(p, u)
  <2>1. CASE p.opened = None
    BY <2>1 DEF AccountPoints
  <2>2. CASE p.opened # None
    <3>1. p.opened \in Dates
      BY <2>2 DEF ProfileRecords, OptDates
    <3>2. /\ Elapsed(p.opened, t) \in Nat /\ Elapsed(p.opened, u) \in Nat
          /\ WholeYears(Elapsed(p.opened, t)) \in Nat /\ WholeYears(Elapsed(p.opened, u)) \in Nat
      BY <3>1, ElapsedType
    <3>3. /\ Elapsed(p.opened, t) <= Elapsed(p.opened, u)
          /\ WholeYears(Elapsed(p.opened, t)) <= WholeYears(Elapsed(p.opened, u))
      BY <3>1, SpansGrow
    <3> QED BY <2>2, <3>2, <3>3 DEF AccountPoints, AtMost, HalfYears
  <2> QED BY <2>1, <2>2
<1>3. Total(p, u) >= Total(p, t)
  <2>1. /\ HomelessPoints(p, t) \in 0..32 /\ HomelessPoints(p, u) \in 0..32
        /\ AccountPoints(p, t) \in 0..17 /\ AccountPoints(p, u) \in 0..17
        /\ DependentsPoints(p) \in 5..35
    BY Points
  <2>2. /\ HomelessPoints(p, t) \in Int /\ HomelessPoints(p, u) \in Int
        /\ AccountPoints(p, t) \in Int /\ AccountPoints(p, u) \in Int
        /\ DependentsPoints(p) \in Int
    BY <2>1
  <2> QED BY <1>1, <1>2, <2>2 DEF Total
<1> QED BY <1>1, <1>2, <1>3

(* So is a first rank: all that moves with the days is the account's age.  *)
LEMMA FirstIsKept ==
  ASSUME NEW n \in NoticeRecords, NEW p \in ProfileRecords,
         NEW t \in Dates, NEW u \in Dates, Before(t, u), First(n, p, t)
  PROVE  First(n, p, u)
<1>1. NeededHalfYears(n) \in Nat /\ PublicMonths(n) \in Nat
  BY DEF NeededHalfYears, PublicMonths
<1>2. AccountTooYoung(n, p, u) => AccountTooYoung(n, p, t)
  <2>1. CASE p.opened = None
    BY <2>1 DEF AccountTooYoung
  <2>2. CASE p.opened # None
    <3>1. p.opened \in Dates
      BY <2>2 DEF ProfileRecords, OptDates
    <3>2. /\ Elapsed(p.opened, t) \in Nat /\ Elapsed(p.opened, u) \in Nat
          /\ Elapsed(p.opened, t) <= Elapsed(p.opened, u)
      BY <3>1, ElapsedType, SpansGrow
    <3> QED BY <1>1, <2>2, <3>2 DEF AccountTooYoung, HalfYears
  <2> QED BY <2>1, <2>2
<1> DEFINE months(x) == IF p.opened = None THEN 0 ELSE FullMonths(p.opened, x)
<1>3. months(t) \in Nat /\ months(u) \in Nat /\ months(t) <= months(u)
  <2>1. CASE p.opened = None
    BY <2>1
  <2>2. CASE p.opened # None
    <3>1. p.opened \in Dates
      BY <2>2 DEF ProfileRecords, OptDates
    <3> QED BY <2>2, <3>1, MonthsType, MonthsGrow
  <2> QED BY <2>1, <2>2
<1>4. JudgeRank(n, p, t, None).rank = 1 => JudgeRank(n, p, u, None).rank = 1
  BY <1>2, FirstRank
<1>5. JudgeRankPublic(n, p, t, None).rank = 1 => JudgeRankPublic(n, p, u, None).rank = 1
  <2>1. ~(months(t) < PublicMonths(n)) => ~(months(u) < PublicMonths(n))
    <3> HIDE DEF months
    <3> QED BY <1>1, <1>3
  <2> QED BY <2>1, FirstRank
<1>6. CASE HousingType(n) = "private"
  BY <1>4, <1>6 DEF First, BatchRank
<1>7. CASE HousingType(n) = "national"
  <2>1. HousingType(n) # "private"
    BY <1>7
  <2> QED BY <1>5, <1>7, <2>1 DEF First, BatchRank
<1>8. CASE HousingType(n) = None /\ HousingType(n) \notin {"private", "national"}
  <2>1. BatchRank(n, p, t) = None /\ BatchRank(n, p, u) = None
    BY <1>8 DEF BatchRank
  <2> QED BY <2>1 DEF First
<1> QED BY <1>6, <1>7, <1>8 DEF HousingType

(* A later day never costs points or the first rank.                       *)
THEOREM WaitingNeverCosts == Spec => WaitingHelps
<1>1. TypeOK /\ [Next]_vars => [WaitingKeeps]_vars
  <2> SUFFICES ASSUME TypeOK, Next PROVE WaitingKeeps
    OBVIOUS
  <2>1. /\ today \in Dates /\ today' \in Dates /\ Before(today, today')
        /\ profile' = profile /\ notice' = notice
        /\ profile \in ProfileRecords /\ notice \in NoticeRecords
    BY ConstantsAssumption DEF TypeOK, Next, Later
  <2>2. Total(profile, today') >= Total(profile, today)
    BY <2>1, PointsGrow
  <2>3. First(notice, profile, today) => First(notice, profile, today')
    BY <2>1, FirstIsKept
  <2> QED BY <2>2, <2>3 DEF WaitingKeeps
<1> QED BY <1>1, Typed, PTL DEF Spec, WaitingHelps

-----------------------------------------------------------------------------
(* The seven years of a couple.                                            *)

(* The days of February 29 in a year, and the day seven years after one    *)
(* (with Ordinal, March 1 for a February 29 in a year that has none).      *)
LeapDay(y) == IF Leap(y) THEN 1 ELSE 0
Anniversary(t) == [t EXCEPT !.y = @ + 7]

(* Of seven years in a row at most two are leap years, and in the two      *)
(* centuries around ours at least one is.                                  *)
LEMMA LeapsOfSevenYears ==
  ASSUME NEW y \in Nat, y >= 1,
         NEW n, n = LeapDay(y) + LeapDay(y + 1) + LeapDay(y + 2) + LeapDay(y + 3)
                      + LeapDay(y + 4) + LeapDay(y + 5) + LeapDay(y + 6)
  PROVE  /\ n \in 0..2
         /\ 1901 <= y /\ y <= 2093 => n \in 1..2
<1>1. \A z \in Nat : LeapDay(z) \in {0, 1} /\ (LeapDay(z) = 1 => z % 4 = 0)
  BY DEF LeapDay, Leap
<1>2. \A z \in Nat : 1901 <= z /\ z <= 2099 /\ z % 4 = 0 => LeapDay(z) = 1
  <2>1. \A z \in Nat : 1901 <= z /\ z <= 2099 /\ z % 100 = 0 => z = 2000
    OBVIOUS
  <2>2. 2000 % 400 = 0
    OBVIOUS
  <2> QED BY <2>1, <2>2 DEF LeapDay, Leap
<1> DEFINE l(i) == LeapDay(y + i)
<1>3. n = l(0) + l(1) + l(2) + l(3) + l(4) + l(5) + l(6)
  OBVIOUS
<1>4. \A i \in 0..6 : l(i) \in {0, 1} /\ (l(i) = 1 => (y + i) % 4 = 0)
  BY <1>1
<1>5. 1901 <= y /\ y <= 2093 => \A i \in 0..6 : (y + i) % 4 = 0 => l(i) = 1
  BY <1>2
<1> HIDE DEF l
<1>6. /\ l(0) \in {0, 1} /\ l(1) \in {0, 1} /\ l(2) \in {0, 1} /\ l(3) \in {0, 1}
      /\ l(4) \in {0, 1} /\ l(5) \in {0, 1} /\ l(6) \in {0, 1}
  BY <1>4
<1>7. \/ l(1) = 0 /\ l(2) = 0 /\ l(3) = 0 /\ l(5) = 0 /\ l(6) = 0
      \/ l(0) = 0 /\ l(2) = 0 /\ l(3) = 0 /\ l(4) = 0 /\ l(6) = 0
      \/ l(0) = 0 /\ l(1) = 0 /\ l(3) = 0 /\ l(4) = 0 /\ l(5) = 0
      \/ l(0) = 0 /\ l(1) = 0 /\ l(2) = 0 /\ l(4) = 0 /\ l(5) = 0 /\ l(6) = 0
  <2>1. y % 4 = 0 \/ y % 4 = 3 \/ y % 4 = 2 \/ y % 4 = 1
    OBVIOUS
  <2>2. \A i \in 0..6 : (y + i) % 4 # 0 => l(i) = 0
    BY <1>4
  <2> QED BY <2>1, <2>2
<1>8. 1901 <= y /\ y <= 2093 => l(0) = 1 \/ l(1) = 1 \/ l(2) = 1 \/ l(3) = 1
  <2>1. y % 4 = 0 \/ (y + 1) % 4 = 0 \/ (y + 2) % 4 = 0 \/ (y + 3) % 4 = 0
    OBVIOUS
  <2> QED BY <1>5, <2>1
<1> QED BY <1>3, <1>6, <1>7, <1>8

(* Seven years later it is 2555 to 2557 days later, and in the two         *)
(* centuries around ours 2556 or 2557.                                     *)
LEMMA SevenYearsLater ==
  ASSUME NEW s \in Dates
  PROVE  /\ Ordinal(Anniversary(s)) \in Int
         /\ Ordinal(Anniversary(s)) <= Ordinal(s) + 2557
         /\ s.y \in 1901..2092 => Ordinal(Anniversary(s)) >= Ordinal(s) + 2556
<1> DEFINE y == s.y
<1>1. y \in Nat /\ y >= 1 /\ s.m \in 1..12 /\ s.d \in 1..31
  BY DayParts
<1>2. Anniversary(s).y = y + 7 /\ Anniversary(s).m = s.m /\ Anniversary(s).d = s.d
  BY DEF Anniversary, Dates
<1>3. \A z \in Nat : z >= 1 => YearStart(z) \in Int /\ YearStart(z + 1) = YearStart(z) + 365 + LeapDay(z)
  BY NextYear DEF DaysOfYear, LeapDay
<1>4. \A z \in Nat : LeapDay(z) \in {0, 1}
  BY DEF LeapDay
<1>5. PICK a \in Int : a = DaysBefore[s.m]
  BY <1>1, Z3 DEF DaysBefore
<1>6. \A z \in Nat : MonthStart(z, s.m) = a + IF s.m > 2 THEN LeapDay(z) ELSE 0
  BY <1>1, <1>5 DEF MonthStart, LeapDay
<1>7. /\ Ordinal(s) = YearStart(y) + MonthStart(y, s.m) + s.d
      /\ Ordinal(Anniversary(s)) = YearStart(y + 7) + MonthStart(y + 7, s.m) + s.d
  <2>1. PICK e \in Int, f \in Int : /\ e = IF s.m > 2 /\ Leap(y) THEN 1 ELSE 0
                                    /\ f = IF s.m > 2 /\ Leap(y + 7) THEN 1 ELSE 0
    OBVIOUS
  <2>2. /\ Ordinal(s) = YearStart(y) + a + e + s.d
        /\ Ordinal(Anniversary(s)) = YearStart(y + 7) + a + f + s.d
    BY <1>2, <1>5, <2>1 DEF Ordinal, YearStart
  <2>3. MonthStart(y, s.m) = a + e /\ MonthStart(y + 7, s.m) = a + f
    BY <1>5, <2>1 DEF MonthStart
  <2>4. YearStart(y) \in Int /\ YearStart(y + 7) \in Int
    BY <1>1, <1>3
  <2> QED BY <1>1, <2>2, <2>3, <2>4
<1> DEFINE l(i) == LeapDay(y + i)
<1>8. /\ l(0) \in {0, 1} /\ l(1) \in {0, 1} /\ l(2) \in {0, 1} /\ l(3) \in {0, 1}
      /\ l(4) \in {0, 1} /\ l(5) \in {0, 1} /\ l(6) \in {0, 1} /\ l(7) \in {0, 1}
  BY <1>1, <1>4
<1> DEFINE first == l(0) + l(1) + l(2) + l(3) + l(4) + l(5) + l(6)
           second == l(1) + l(2) + l(3) + l(4) + l(5) + l(6) + l(7)
<1>9. YearStart(y + 7) = YearStart(y) + 2555 + first
  <2>1. /\ YearStart(y + 1) = YearStart(y) + 365 + l(0)
        /\ YearStart(y + 2) = YearStart(y + 1) + 365 + l(1)
        /\ YearStart(y + 3) = YearStart(y + 2) + 365 + l(2)
        /\ YearStart(y + 4) = YearStart(y + 3) + 365 + l(3)
        /\ YearStart(y + 5) = YearStart(y + 4) + 365 + l(4)
        /\ YearStart(y + 6) = YearStart(y + 5) + 365 + l(5)
        /\ YearStart(y + 7) = YearStart(y + 6) + 365 + l(6)
    <3>1. \A i \in 0..6 : YearStart(y + (i + 1)) = YearStart(y + i) + 365 + l(i)
      <4>1. TAKE i \in 0..6
      <4>2. y + i \in Nat /\ y + i >= 1 /\ (y + i) + 1 = y + (i + 1)
        BY <1>1
      <4> QED BY <1>3, <4>2
    <3> HIDE DEF l
    <3>2. y + 0 = y
      BY <1>1
    <3> QED BY <3>1, <3>2
  <2>2. YearStart(y) \in Int
    BY <1>1, <1>3
  <2> HIDE DEF l
  <2> QED BY <1>8, <2>1, <2>2
<1>10. first \in 0..2 /\ (s.y \in 1901..2092 => first \in 1..2)
  <2>1. first = LeapDay(y) + LeapDay(y + 1) + LeapDay(y + 2) + LeapDay(y + 3)
                  + LeapDay(y + 4) + LeapDay(y + 5) + LeapDay(y + 6)
    BY <1>1
  <2> HIDE DEF first
  <2> QED BY <1>1, <2>1, LeapsOfSevenYears
<1>11. second \in 0..2 /\ (s.y \in 1901..2092 => second \in 1..2)
  <2> DEFINE z == y + 1
  <2>1. second = LeapDay(z) + LeapDay(z + 1) + LeapDay(z + 2) + LeapDay(z + 3)
                   + LeapDay(z + 4) + LeapDay(z + 5) + LeapDay(z + 6)
    BY <1>1
  <2>2. z \in Nat /\ z >= 1 /\ (s.y \in 1901..2092 => 1901 <= z /\ z <= 2093)
    BY <1>1
  <2> HIDE DEF second, z
  <2> QED BY <2>1, <2>2, LeapsOfSevenYears
<1>12. first + l(7) = second + l(0)
  BY <1>8
<1>13. /\ MonthStart(y, s.m) = a + IF s.m > 2 THEN l(0) ELSE 0
       /\ MonthStart(y + 7, s.m) = a + IF s.m > 2 THEN l(7) ELSE 0
  <2>1. y \in Nat /\ y + 7 \in Nat /\ y + 0 = y
    BY <1>1
  <2> QED BY <1>6, <2>1
<1>14. YearStart(y) \in Int
  BY <1>1, <1>3
<1> HIDE DEF l, first, second, y
<1>15. first \in Int /\ second \in Int /\ l(0) \in Int /\ l(7) \in Int
  BY <1>8, <1>10, <1>11
<1>16. \/ Ordinal(Anniversary(s)) = Ordinal(s) + 2555 + first
       \/ Ordinal(Anniversary(s)) = Ordinal(s) + 2555 + second
  <2>1. CASE s.m > 2
    BY <1>1, <1>5, <1>7, <1>9, <1>12, <1>13, <1>14, <1>15, <2>1
  <2>2. CASE ~(s.m > 2)
    BY <1>1, <1>5, <1>7, <1>9, <1>13, <1>14, <1>15, <2>2
  <2> QED BY <2>1, <2>2
<1>17. Ordinal(s) \in Int
  BY OrdinalParts
<1> QED BY <1>10, <1>11, <1>15, <1>16, <1>17

(* The couple is turned away on no day before its seventh anniversary and, *)
(* in the two centuries around ours, on every day after it: where seven    *)
(* years of 365.25 days differ from seven years of the calendar, they do   *)
(* so on the anniversary alone (newlywed_period_exceeded).                 *)
THEOREM SevenYearsErrOnTheAnniversaryOnly ==
  ASSUME NEW s \in Dates, NEW t \in Dates
  PROVE  /\ Before(t, Anniversary(s)) => ~NewlywedPeriodExceeded(s, t)
         /\ s.y \in 1901..2092 /\ Before(Anniversary(s), t) => NewlywedPeriodExceeded(s, t)
<1>1. s # None
  BY ConstantsAssumption
<1>2. Ordinal(s) \in Int /\ Ordinal(t) \in Int
  BY OrdinalParts
<1>3. /\ Ordinal(Anniversary(s)) \in Int
      /\ Ordinal(Anniversary(s)) <= Ordinal(s) + 2557
      /\ s.y \in 1901..2092 => Ordinal(Anniversary(s)) >= Ordinal(s) + 2556
  BY SevenYearsLater
<1> QED BY <1>1, <1>2, <1>3 DEF NewlywedPeriodExceeded, Before, Elapsed

-----------------------------------------------------------------------------
(* Income.                                                                 *)

(* A tier is one of the four, and a higher income reaches none better.     *)
LEMMA TiersFall ==
  ASSUME NEW p \in ProfileRecords, NEW more \in Nat, p.monthly \in Nat, p.monthly <= more,
         NEW priority \in Nat, NEW general \in Nat, None \notin Nat,
         IncomeTier(p, priority, general) # "unknown"
  PROVE  NoWorse(IncomeTier(p, priority, general),
                 IncomeTier([p EXCEPT !.monthly = more], priority, general))
<1> DEFINE q == [p EXCEPT !.monthly = more]
<1>1. q.monthly = more /\ q.base = p.base /\ q.assets = p.assets
  BY DEF ProfileRecords
<1>2. p.base \notin {None, 0} /\ p.base \in Nat /\ p.assets \in Nat
  BY DEF IncomeTier, ProfileRecords, OptNat
<1> HIDE DEF q
<1>3. PICK b \in Nat, c \in Nat : b = priority * p.base /\ c = general * p.base
  BY <1>2
<1>4. /\ IncomeTier(p, priority, general) =
           IF 100 * p.monthly <= b THEN "priority" ELSE IF 100 * p.monthly <= c THEN "general"
           ELSE IF p.assets <= 33100 THEN "lottery" ELSE "unfit"
      /\ IncomeTier(q, priority, general) =
           IF 100 * more <= b THEN "priority" ELSE IF 100 * more <= c THEN "general"
           ELSE IF p.assets <= 33100 THEN "lottery" ELSE "unfit"
  BY <1>1, <1>2, <1>3 DEF IncomeTier
<1>5. \A i, j \in 1..4 : i <= j => NoWorse(Tiers[i], Tiers[j])
  BY DEF NoWorse
<1>6. Tiers[1] = "priority" /\ Tiers[2] = "general" /\ Tiers[3] = "lottery" /\ Tiers[4] = "unfit"
  BY DEF Tiers
<1> DEFINE Rank(i, s) == IncomeTier(s, priority, general) = Tiers[i]
<1>7. \E i, j \in 1..4 : i <= j /\ Rank(i, p) /\ Rank(j, q)
  BY <1>4, <1>6
<1> QED BY <1>5, <1>7 DEF q

(* Earning more never reaches a better tier of either special supply.      *)
THEOREM EarningMoreNeverHelps == Spec => []IncomeNeverHelps
<1>1. TypeOK => IncomeNeverHelps
  <2> SUFFICES ASSUME TypeOK,
                      NEW more \in Earnings, profile.monthly # None, profile.monthly <= more
               PROVE  LET q == [profile EXCEPT !.monthly = more]
                      IN  /\ JudgeNewlywed(profile, today) \notin {None, "unknown"} =>
                               NoWorse(JudgeNewlywed(profile, today), JudgeNewlywed(q, today))
                          /\ JudgeFirstLife(profile) \notin {None, "unknown"} =>
                               NoWorse(JudgeFirstLife(profile), JudgeFirstLife(q))
    BY DEF IncomeNeverHelps
  <2> DEFINE q == [profile EXCEPT !.monthly = more]
  <2>1. profile \in ProfileRecords /\ profile.monthly \in Nat /\ more \in Nat /\ None \notin Nat
    BY ConstantsAssumption DEF TypeOK, Earnings, ProfileRecords, OptNat
  <2>2. /\ q.marriage = profile.marriage /\ q.engaged = profile.engaged
        /\ q.homeless = profile.homeless /\ q.partnerOwns = profile.partnerOwns
        /\ q.dual = profile.dual /\ q.owned = profile.owned /\ q.taxed = profile.taxed
        /\ q.earning = profile.earning /\ q.children = profile.children
        /\ q.assets = profile.assets
    BY <2>1 DEF ProfileRecords
  <2>3. \A i, j \in Nat : IncomeTier(profile, i, j) # "unknown" =>
          NoWorse(IncomeTier(profile, i, j), IncomeTier(q, i, j))
    BY <2>1, TiersFall
  <2> HIDE DEF q
  <2>4. JudgeNewlywed(profile, today) \notin {None, "unknown"} =>
          NoWorse(JudgeNewlywed(profile, today), JudgeNewlywed(q, today))
    BY <2>2, <2>3 DEF JudgeNewlywed
  <2>5. JudgeFirstLife(profile) \notin {None, "unknown"} =>
          NoWorse(JudgeFirstLife(profile), JudgeFirstLife(q))
    <3>1. NoWorse("lottery", "lottery")
      BY DEF NoWorse, Tiers
    <3> QED BY <2>2, <2>3, <3>1 DEF JudgeFirstLife
  <2> QED BY <2>4, <2>5 DEF q
<1> QED BY <1>1, Typed, PTL
=============================================================================
