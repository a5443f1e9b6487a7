----------------------------- MODULE MCScoring -----------------------------
(***************************************************************************)
(* Instances of Scoring for TLC: profiles that vary one group of columns   *)
(* at a time around the bounds, and the days on which a bound is crossed.  *)
(***************************************************************************)
EXTENDS Scoring

On(y, m, d) == [y |-> y, m |-> m, d |-> d]
At(p, c) == [province |-> p, city |-> c]

(* Around half a year, one, two and fifteen years of an account, a month   *)
(* end and leap days, the 30th birthday, the 7th wedding anniversary.      *)
MCDays ==
  {On(2019, 7, d) : d \in {30, 31}} \cup {On(2019, 8, d) : d \in 1..3}
    \cup {On(2020, 1, 30), On(2020, 1, 31), On(2020, 2, 1), On(2020, 2, 29), On(2020, 3, 1)}
    \cup {On(2020, 3, d) : d \in 15..16}
    \cup {On(2021, 1, 31), On(2021, 2, 1), On(2021, 2, 28), On(2021, 3, 1)}
    \cup {On(2026, 6, d) : d \in 14..16}
    \cup {On(2034, 2, 1), On(2035, 3, 16), On(2036, 3, 16)}

Base ==
  [birth |-> On(1990, 3, 15), marriage |-> On(2019, 6, 15), engaged |-> FALSE, head |-> TRUE,
   homeless |-> TRUE, since |-> None, dependents |-> 2, region |-> At("seoul", ""),
   won |-> FALSE, children |-> 1, opened |-> On(2019, 1, 31), balance |-> 1500,
   payments |-> 24, monthly |-> 700, base |-> 500, dual |-> TRUE, assets |-> 0,
   owned |-> FALSE, taxed |-> TRUE, earning |-> TRUE, partnerOwns |-> FALSE,
   history |-> {}, regions |-> {At("seoul", "")}]

Accounts ==
  {[Base EXCEPT !.opened = o, !.payments = c, !.head = h, !.won = w] :
     o \in {None, On(2019, 1, 31), On(2020, 2, 29)}, c \in {5, 6, 12, 23, 24},
     h \in BOOLEAN, w \in BOOLEAN}
Deposits ==
  {[Base EXCEPT !.region = r, !.balance = b] :
     r \in {At("", ""), At("seoul", ""), At("incheon", ""), At("gyeonggi", "gwangju"),
            At("gyeonggi", "suwon")},
     b \in {199, 200, 300, 600}}
Ages ==
  {[Base EXCEPT !.birth = b, !.marriage = m, !.since = s, !.homeless = h, !.dependents = n] :
     b \in {None, On(1990, 3, 15), On(1960, 1, 31)}, m \in {None, On(2019, 6, 15)},
     s \in {None, On(2020, 2, 29)}, h \in BOOLEAN, n \in {0, 7}}
Incomes ==
  {[Base EXCEPT !.monthly = i, !.dual = d, !.assets = a, !.marriage = m, !.children = c] :
     i \in {None, 500, 501, 600, 601, 650, 651, 700, 701, 800, 801}, d \in BOOLEAN,
     a \in {33100, 33101}, m \in {None, On(2019, 6, 15)}, c \in {0, 1}}
Residents ==
  {[Base EXCEPT !.history = h, !.regions = r] :
     h \in {{}, {[region |-> At("seoul", ""), since |-> On(2019, 1, 31)],
                 [region |-> At("seoul", ""), since |-> None],
                 [region |-> At("gyeonggi", "seongnam"), since |-> On(2019, 1, 31)]}},
     r \in SUBSET {At("seoul", ""), At("gyeonggi", "seongnam"), At("", "")}}

MCProfiles == Accounts \cup Deposits \cup Ages \cup Incomes \cup Residents

Notice(source, kind, area, speculative, adjusted, sizes) ==
  [source |-> source, kind |-> kind, area |-> area, speculative |-> speculative,
   adjusted |-> adjusted, sizes |-> sizes]

MCNotices ==
  {Notice("applyhome", "private", At("seoul", ""), "N", None, {84, 86}),
   Notice("applyhome", "private", At("seoul", ""), "Y", "N", {85, 136}),
   Notice("applyhome", "private", At("gangwon", ""), "N", "", {}),
   Notice("applyhome", "national", At("gyeonggi", ""), "N", "Y", {84}),
   Notice("lh", "other", At("gyeonggi", ""), "N", None, {}),
   Notice("lh", "other", At("gangwon", ""), "N", None, {}),
   Notice("hug", "other", At("", ""), "N", None, {})}

Couples == {p \in Incomes : p.marriage # None /\ p.monthly = 700}
=============================================================================
