------------------------------ MODULE Scoring ------------------------------
(***************************************************************************)
(* Points, ranks and special supply of src/scoring.py and the regions of   *)
(* src/regions.py, as they are computed for one member and one notice on   *)
(* the days the batch or a page request asks for them.  Spans of time are  *)
(* in days: a year of _full_years is 1461/4 days, and every bound compared *)
(* with one is a number of half years, so nothing is lost.                 *)
(***************************************************************************)
EXTENDS Integers, FiniteSetsExt

CONSTANTS
  Days,      \* the days on which somebody asks
  Profiles,  \* the profiles a member may have
  Notices,   \* the notices that may be judged
  None       \* no date, no income, no value of a raw column

VARIABLES today, profile, notice
vars == <<today, profile, notice>>

Leap(y) == y % 4 = 0 /\ (y % 100 # 0 \/ y % 400 = 0)
MonthLength(y, m) ==
  IF m = 2 THEN IF Leap(y) THEN 29 ELSE 28 ELSE IF m \in {4, 6, 9, 11} THEN 30 ELSE 31

(* The days a calendar has, which are all that datetime.date can hold.     *)
Dates ==
  {t \in [y : Nat \ {0}, m : 1..12, d : 1..31] : t.d <= MonthLength(t.y, t.m)}
OptDates == Dates \cup {None}
OptNat == Nat \cup {None}

(* A place as text names it: a province, a city, both or (blank) neither.  *)
Metropolitan == {"daegu", "incheon", "gwangju", "daejeon", "ulsan"}
Provinces == {"", "seoul", "busan", "gyeonggi", "gangwon"} \cup Metropolitan
Places == [province : Provinces, city : {"", "seongnam", "suwon", "gwangju"}]
Blank == [province |-> "", city |-> ""]
Gyeonggi == [province |-> "gyeonggi", city |-> ""]
Seongnam == [province |-> "", city |-> "seongnam"]

ProfileRecords ==
  [birth : OptDates, marriage : OptDates, engaged : BOOLEAN, head : BOOLEAN,
   homeless : BOOLEAN, since : OptDates, dependents : Nat, region : Places,
   won : BOOLEAN, children : Nat, opened : OptDates, balance : Nat, payments : Nat,
   monthly : OptNat, base : OptNat, dual : BOOLEAN, assets : Nat, owned : BOOLEAN,
   taxed : BOOLEAN, earning : BOOLEAN, partnerOwns : BOOLEAN,
   history : SUBSET [region : Places, since : OptDates], regions : SUBSET Places]

NoticeRecords ==
  [source : {"applyhome", "lh", "myhome", "sh", "gh", "hug"},
   kind : {"private", "national", "other"}, area : Places,
   speculative : {"Y", "N"}, adjusted : {None, "", "N", "Y"}, sizes : SUBSET Nat]

ASSUME ConstantsAssumption ==
  /\ Days \subseteq Dates
  /\ Profiles \subseteq ProfileRecords
  /\ Notices \subseteq NoticeRecords
  /\ \A n \in Notices : IsFiniteSet(n.sizes)
  /\ \A p \in Profiles : IsFiniteSet(p.history)
  /\ None \notin Dates \cup Nat \cup {"", "N", "Y"}

-----------------------------------------------------------------------------
(* Time.                                                                   *)

DaysBefore == <<0, 31, 59, 90, 120, 151, 181, 212, 243, 273, 304, 334>>

(* The number of a day in the Gregorian calendar.                          *)
Ordinal(t) ==
  365 * (t.y - 1) + (t.y - 1) \div 4 - (t.y - 1) \div 100 + (t.y - 1) \div 400
    + DaysBefore[t.m] + (IF t.m > 2 /\ Leap(t.y) THEN 1 ELSE 0) + t.d

Before(s, t) == Ordinal(s) < Ordinal(t)

(* _full_years, and what its callers ask of the result.                    *)
Elapsed(start, end) == IF Before(start, end) THEN Ordinal(end) - Ordinal(start) ELSE 0
HalfYears(days, n) == 8 * days >= 1461 * n
WholeYears(days) == (4 * days) \div 1461

(* Mutants: a begun month counts; whole years are forgotten.               *)
FullMonthsBegun(start, end) ==
  IF Before(end, start) THEN 0 ELSE (end.y - start.y) * 12 + (end.m - start.m)
FullMonthsOfYear(start, end) ==
  LET months == (end.m - start.m) - (IF end.d < start.d THEN 1 ELSE 0)
  IN  IF Before(end, start) \/ months < 0 THEN 0 ELSE months

FullMonths(start, end) ==
  LET months == (end.y - start.y) * 12 + (end.m - start.m)
                  - (IF end.d < start.d THEN 1 ELSE 0)
  IN  IF Before(end, start) \/ months < 0 THEN 0 ELSE months

-----------------------------------------------------------------------------
(* Regions.                                                                *)

(* The one city that is told apart loses its province; a province alone,   *)
(* whatever its long name, is itself, and so is any other city.            *)
NormalizeRegion(place) ==
  IF place.city = "seongnam" THEN Seongnam ELSE place

RegionMatches(area, regions) ==
  LET na == NormalizeRegion(area)
      mr == {NormalizeRegion(r) : r \in regions} \ {Blank}
  IN  /\ na # Blank
      /\ na \in mr \/ (na = Gyeonggi /\ Seongnam \in mr)

-----------------------------------------------------------------------------
(* Points.                                                                 *)

(* Days without a house: since 30, or since marrying before that, but not  *)
(* from before the last house was sold.                                    *)
HomelessDays(p, t) ==
  LET age30  == [y |-> p.birth.y + 30, m |-> p.birth.m, d |-> IF p.birth.d > 28 THEN 28 ELSE p.birth.d]
      begun  == IF p.marriage # None /\ Before(p.marriage, age30) THEN p.marriage ELSE age30
      start  == IF p.since # None /\ Before(begun, p.since) THEN p.since ELSE begun
  IN  IF p.birth = None THEN 0 ELSE Elapsed(start, t)

AtMost(bound, n) == IF n > bound THEN bound ELSE n

HomelessPoints(p, t) ==
  IF ~p.homeless \/ HomelessDays(p, t) = 0 THEN 0
  ELSE AtMost(32, 2 * (WholeYears(HomelessDays(p, t)) + 1))

DependentsPoints(p) == AtMost(35, 5 * (p.dependents + 1))

(* Mutant: the points of the account go on growing.                        *)
AccountPointsUncapped(p, t) ==
  IF p.opened = None THEN 0
  ELSE IF ~HalfYears(Elapsed(p.opened, t), 1) THEN 1
  ELSE WholeYears(Elapsed(p.opened, t)) + 2

AccountPoints(p, t) ==
  IF p.opened = None THEN 0
  ELSE IF ~HalfYears(Elapsed(p.opened, t), 1) THEN 1
  ELSE AtMost(17, WholeYears(Elapsed(p.opened, t)) + 2)

Total(p, t) == HomelessPoints(p, t) + DependentsPoints(p) + AccountPoints(p, t)

-----------------------------------------------------------------------------
(* Ranks.                                                                  *)

Regulated(n) == n.speculative = "Y" \/ n.adjusted \notin {None, "", "N"}

(* The notice's area is compared as it is written.                         *)
Capital(n) == n.area.city = "" /\ n.area.province \in {"seoul", "gyeonggi", "incheon"}

(* A city's name counts wherever it stands in the member's region.         *)
DepositGroup(place) ==
  LET names == {place.province, place.city}
  IN  IF names \cap {"seoul", "busan"} # {} THEN "seoul and busan"
      ELSE IF names \cap Metropolitan # {} THEN "metropolitan" ELSE "other"

SizeCaps == <<85, 102, 135>>
DepositTable == [g \in {"seoul and busan", "metropolitan", "other"} |->
  CASE g = "seoul and busan" -> <<300, 600, 1000, 1500>>
    [] g = "metropolitan"    -> <<250, 400, 700, 1000>>
    [] g = "other"           -> <<200, 300, 400, 500>>]

RequiredDeposit(place, size) ==
  LET fits == {k \in 1..3 : size <= SizeCaps[k]}
  IN  DepositTable[DepositGroup(place)][IF fits = {} THEN 4 ELSE Min(fits)]

(* Days of residence in the notice's area, the longest of several.         *)
ResidenceDays(p, area, t) ==
  LET target == NormalizeRegion(area)
      stays  == {h \in p.history : h.since # None /\ NormalizeRegion(h.region) = target}
  IN  IF target = Blank THEN 0 ELSE Max({0} \cup {Elapsed(h.since, t) : h \in stays})

(* Reasons shown beside the rank, added once it is decided.                *)
ResidenceReasons(n, p, t) ==
  IF Regulated(n) /\ ~HalfYears(ResidenceDays(p, n.area, t), 4) THEN {"residence"} ELSE {}

AreaReasons(n, regions) ==
  IF regions = None THEN {}
  ELSE IF RegionMatches(n.area, regions) THEN {"in area"} ELSE {"other area"}

(* Mutant: the rank is decided when all reasons are known.                 *)
JudgementLate(n, p, t, regions, reasons) ==
  [rank    |-> IF (reasons \cup ResidenceReasons(n, p, t)) \ {"some sizes"} = {} THEN 1 ELSE 2,
   reasons |-> reasons \cup ResidenceReasons(n, p, t) \cup AreaReasons(n, regions),
   inArea  |-> IF regions = None THEN None ELSE RegionMatches(n.area, regions)]

(* regions is None where the caller does not ask for the area.             *)
Judgement(n, p, t, regions, reasons) ==
  [rank    |-> IF reasons \ {"some sizes"} = {} THEN 1 ELSE 2,
   reasons |-> reasons \cup ResidenceReasons(n, p, t) \cup AreaReasons(n, regions),
   inArea  |-> IF regions = None THEN None ELSE RegionMatches(n.area, regions)]

NeededHalfYears(n) == IF Regulated(n) THEN 4 ELSE IF Capital(n) THEN 2 ELSE 1

AccountTooYoung(n, p, t) ==
  LET days == IF p.opened = None THEN 0 ELSE Elapsed(p.opened, t)
  IN  ~HalfYears(days, NeededHalfYears(n))

(* Without a region of the member or a size of a flat nothing is asked.    *)
DepositReasons(n, p) ==
  LET need(size) == RequiredDeposit(p.region, size)
  IN  IF n.sizes = {} \/ p.region = Blank THEN {}
      ELSE IF p.balance < need(Min(n.sizes)) THEN {"deposit"}
      ELSE IF p.balance < need(Max(n.sizes)) THEN {"some sizes"} ELSE {}

JudgeRank(n, p, t, regions) ==
  Judgement(n, p, t, regions,
    {r \in {"account"} : AccountTooYoung(n, p, t)} \cup DepositReasons(n, p)
      \cup {r \in {"head"} : Regulated(n) /\ ~p.head}
      \cup {r \in {"won"} : Regulated(n) /\ p.won})

(* PUBLIC_ACCOUNT_MONTHS.                                                  *)
PublicMonths(n) == IF Regulated(n) THEN 24 ELSE IF Capital(n) THEN 12 ELSE 6

(* Mutant: the table is read from the wrong end.                           *)
PublicPaymentsSwapped(n) == IF Regulated(n) THEN 6 ELSE IF Capital(n) THEN 12 ELSE 24

(* PUBLIC_PAYMENT_COUNTS.                                                  *)
PublicPayments(n) == IF Regulated(n) THEN 24 ELSE IF Capital(n) THEN 12 ELSE 6

JudgeRankPublic(n, p, t, regions) ==
  LET months == IF p.opened = None THEN 0 ELSE FullMonths(p.opened, t)
  IN  Judgement(n, p, t, regions,
        {r \in {"account"} : months < PublicMonths(n)}
          \cup {r \in {"payments"} : p.payments < PublicPayments(n)}
          \cup {r \in {"house"} : ~p.homeless}
          \cup {r \in {"head"} : Regulated(n) /\ ~p.head})

-----------------------------------------------------------------------------
(* Special supply.                                                         *)

(* Mutant: no tier takes the bound itself.                                 *)
IncomeTierGap(p, priority, general) ==
  IF p.monthly = None \/ p.base \in {None, 0} THEN "unknown"
  ELSE IF 100 * p.monthly < priority * p.base THEN "priority"
  ELSE IF 100 * p.monthly > priority * p.base /\ 100 * p.monthly <= general * p.base THEN "general"
  ELSE IF p.assets <= 33100 THEN "lottery" ELSE "unfit"

(* Income in percent of the average, then the value of real estate.        *)
IncomeTier(p, priority, general) ==
  IF p.monthly = None \/ p.base \in {None, 0} THEN "unknown"
  ELSE IF 100 * p.monthly <= priority * p.base THEN "priority"
  ELSE IF 100 * p.monthly <= general * p.base THEN "general"
  ELSE IF p.assets <= 33100 THEN "lottery" ELSE "unfit"

NewlywedPeriodExceeded(marriage, t) ==
  marriage # None /\ 4 * Elapsed(marriage, t) > 1461 * 7

(* The tier; None where a condition before the income is not met.          *)
JudgeNewlywed(p, t) ==
  IF \/ p.marriage = None /\ ~p.engaged
     \/ NewlywedPeriodExceeded(p.marriage, t)
     \/ ~p.homeless \/ p.partnerOwns
    THEN None
    ELSE IF p.dual THEN IncomeTier(p, 120, 160) ELSE IncomeTier(p, 100, 140)

JudgeFirstLife(p) ==
  IF p.owned \/ ~p.homeless \/ ~p.taxed \/ ~p.earning THEN None
  ELSE IF p.marriage = None /\ p.children = 0
    THEN IF p.assets <= 33100 THEN "lottery" ELSE None
    ELSE IncomeTier(p, 130, 160)

-----------------------------------------------------------------------------
(* The judgement of a notice, by the batch and by the dashboard.           *)

HousingType(n) ==
  IF n.source = "applyhome" /\ n.kind = "private" THEN "private"
  ELSE IF n.kind = "national" \/ n.source \in {"lh", "myhome", "sh", "gh"} THEN "national"
  ELSE None

(* evaluate_all stores the rank of judge_notice in match_result.           *)
BatchRank(n, p, t) ==
  CASE HousingType(n) = "private"  -> JudgeRank(n, p, t, None).rank
    [] HousingType(n) = "national" -> JudgeRankPublic(n, p, t, None).rank
    [] HousingType(n) = None       -> None

(* member_dashboard judges again, with the member's regions.               *)
DashboardItem(n, p, t) ==
  CASE HousingType(n) = "private"  -> JudgeRank(n, p, t, p.regions)
    [] HousingType(n) = "national" -> JudgeRankPublic(n, p, t, p.regions)
    [] HousingType(n) = None       ->
         [rank |-> None, reasons |-> {}, inArea |-> RegionMatches(n.area, p.regions)]

-----------------------------------------------------------------------------
(* The first of the days.                                                  *)
Init ==
  /\ today \in Days /\ \A d \in Days : ~Before(d, today)
  /\ profile \in Profiles
  /\ notice \in Notices

(* The same member and notice on a later day.                              *)
Later ==
  /\ \E d \in Days : Before(today, d) /\ today' = d
  /\ UNCHANGED <<profile, notice>>

Next == Later

Spec == Init /\ [][Next]_vars

TypeOK == today \in Days /\ profile \in Profiles /\ notice \in Notices

-----------------------------------------------------------------------------
(* Properties.                                                             *)

(* Each part of the points stays within its cap and their sum within the   *)
(* 84 of the rules, however old an account or a birth date (score_points). *)
ScoreInRange ==
  /\ HomelessPoints(profile, today) \in 0..32
  /\ DependentsPoints(profile) \in 5..35
  /\ AccountPoints(profile, today) \in 0..17
  /\ Total(profile, today) \in 5..84

First(n, p, t) == BatchRank(n, p, t) = 1

(* Waiting never costs a member points or the first rank, across month     *)
(* ends, leap days and birthdays (score_points, judge_rank,                *)
(* judge_rank_public).                                                     *)
WaitingKeeps ==
  /\ Total(profile, today') >= Total(profile, today)
  /\ First(notice, profile, today) => First(notice, profile, today')
WaitingHelps == [][WaitingKeeps]_vars

(* Neither where a member has lived nor which regions it names moves the   *)
(* rank: the batch, which asks for no area, and the dashboard agree on one *)
(* profile (policies D19 and R3 of judge_rank and judge_rank_public).      *)
RankIgnoresRegions ==
  /\ DashboardItem(notice, profile, today).rank = BatchRank(notice, profile, today)
  /\ BatchRank(notice, [profile EXCEPT !.history = {}], today) = BatchRank(notice, profile, today)

(* Regulation never makes a rank easier: who is first in a regulated area  *)
(* is first for the same notice without regulation (the two tables of      *)
(* public housing and the half years of judge_rank).                       *)
RegulationIsStricter ==
  First(notice, profile, today) =>
    First([notice EXCEPT !.speculative = "N", !.adjusted = None], profile, today)

(* The months of an account are those whose day of opening has come again, *)
(* as the calendar counts them (_full_months against its definition).      *)
MonthsAreCalendarMonths ==
  profile.opened # None /\ ~Before(today, profile.opened) =>
    LET start == profile.opened
        index(t) == 12 * t.y + t.m
        come(k) == \/ index(start) + k < index(today)
                   \/ index(start) + k = index(today) /\ start.d <= today.d
    IN  FullMonths(start, today) =
          Cardinality({k \in 1..12 * (today.y - start.y + 1) : come(k)})

(* Tiers from the best to the worst.                                       *)
Tiers == <<"priority", "general", "lottery", "unfit">>
NoWorse(s, t) == \E i, j \in 1..4 : i <= j /\ s = Tiers[i] /\ t = Tiers[j]

Earnings == {p.monthly : p \in Profiles} \ {None}

(* Earning more never reaches a better tier, at every bound and whatever   *)
(* the real estate (_income_tier).                                         *)
IncomeNeverHelps ==
  \A more \in Earnings :
    LET q == [profile EXCEPT !.monthly = more]
    IN  profile.monthly # None /\ profile.monthly <= more =>
          /\ JudgeNewlywed(profile, today) \notin {None, "unknown"} =>
               NoWorse(JudgeNewlywed(profile, today), JudgeNewlywed(q, today))
          /\ JudgeFirstLife(profile) \notin {None, "unknown"} =>
               NoWorse(JudgeFirstLife(profile), JudgeFirstLife(q))

(* A couple may apply as newlyweds up to the seventh anniversary, "within  *)
(* 7 years of the day of marriage" as the form says (onboarding_1.html).   *)
WithinSevenYears ==
  profile.marriage # None /\ ~Before([profile.marriage EXCEPT !.y = @ + 7], today) =>
    ~NewlywedPeriodExceeded(profile.marriage, today)
=============================================================================
