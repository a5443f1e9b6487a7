-------------------------- MODULE CollectorsProofs --------------------------
(***************************************************************************)
(* Theorems about Collectors for every set of postings, every grouping and *)
(* every bound, checked by TLAPS.                                          *)
(***************************************************************************)
EXTENDS Collectors, SequenceTheorems, WellFoundedInduction, TLAPS

-----------------------------------------------------------------------------
(* Lists and pages.                                                        *)

(* Posting puts a row in front of the others.                              *)
LEMMA Posted ==
  ASSUME NEW s \in Seq(Row), NEW row \in Row
  PROVE  /\ <<row>> \o s \in Seq(Row)
         /\ Len(<<row>> \o s) = Len(s) + 1
         /\ (<<row>> \o s)[1] = row
         /\ \A i \in 2..Len(s) + 1 : (<<row>> \o s)[i] = s[i - 1]
<1>1. <<row>> \in Seq(Row) /\ Len(<<row>>) = 1 /\ <<row>>[1] = row
  OBVIOUS
<1>2. Len(s) \in Nat
  OBVIOUS
<1> QED BY <1>1, <1>2, ConcatProperties

(* A withdrawal leaves the rows above where they are.                      *)
LEMMA Withdrawn ==
  ASSUME NEW s \in Seq(Row), NEW i \in DOMAIN s
  PROVE  /\ RemoveAt(s, i) \in Seq(Row)
         /\ Len(RemoveAt(s, i)) = Len(s) - 1
         /\ \A j \in 1..i-1 : RemoveAt(s, i)[j] = s[j]
         /\ \A j \in i..Len(s)-1 : RemoveAt(s, i)[j] = s[j + 1]
<1> DEFINE above == SubSeq(s, 1, i - 1)
           below == SubSeq(s, i + 1, Len(s))
<1>1. Len(s) \in Nat /\ i \in 1..Len(s)
  OBVIOUS
<1>2. \A j \in 1..Len(s) : s[j] \in Row
  OBVIOUS
<1>3. above \in Seq(Row) /\ Len(above) = i - 1 /\ \A j \in 1..i-1 : above[j] = s[j]
  <2>1. \A j \in 1..i-1 : s[j] \in Row
    BY <1>1, <1>2
  <2> QED BY <1>1, <2>1, SubSeqProperties
<1>4. below \in Seq(Row) /\ Len(below) = Len(s) - i /\ \A j \in 1..Len(s)-i : below[j] = s[i + j]
  <2>1. \A j \in i+1..Len(s) : s[j] \in Row
    BY <1>1, <1>2
  <2> QED BY <1>1, <2>1, SubSeqProperties
<1> HIDE DEF above, below
<1>5. RemoveAt(s, i) = above \o below
  BY DEF RemoveAt, above, below
<1>6. /\ above \o below \in Seq(Row)
      /\ Len(above \o below) = Len(s) - 1
      /\ \A j \in 1..Len(s)-1 : (above \o below)[j] = IF j <= i - 1 THEN above[j] ELSE below[j - (i - 1)]
  BY <1>1, <1>3, <1>4, ConcatProperties
<1>7. \A j \in 1..i-1 : (above \o below)[j] = s[j]
  BY <1>1, <1>3, <1>6
<1>8. \A j \in i..Len(s)-1 : (above \o below)[j] = s[j + 1]
  <2>1. TAKE j \in i..Len(s)-1
  <2>2. (above \o below)[j] = below[j - (i - 1)]
    BY <1>1, <1>6
  <2>3. j - (i - 1) \in 1..Len(s)-i /\ i + (j - (i - 1)) = j + 1
    BY <1>1
  <2> QED BY <1>4, <2>2, <2>3
<1> QED BY <1>5, <1>6, <1>7, <1>8

(* A set of natural numbers has a least one.                               *)
LEMMA LeastPlace ==
  ASSUME NEW T, T \subseteq Nat, T # {}
  PROVE  \E m \in T : \A k \in T : m <= k
<1> DEFINE R == OpToRel(<, Nat)
<1>1. IsWellFoundedOn(R, Nat)
  BY NatLessThanWellFounded
<1>2. \A a, b \in Nat : a < b => <<a, b>> \in R
  BY DEF OpToRel
<1> HIDE DEF R
<1>3. \A P, S : IsWellFoundedOn(P, S) =>
        \A U : U \subseteq S /\ U # {} => \E x \in U : \A y \in U : ~(<<y, x>> \in P)
  BY WFMin
<1>4. PICK m \in T : \A k \in T : ~(<<k, m>> \in R)
  BY <1>1, <1>3
<1>5. \A k \in T : ~(k < m)
  BY <1>2, <1>4
<1>6. \A k \in T : m <= k
  BY <1>5
<1> QED BY <1>6

(* The places of the pages, one after the other.                           *)
LEMMA Places ==
  ASSUME NEW n \in Nat
  PROVE  /\ n * PerPage \in Nat
         /\ (n + 1) * PerPage = n * PerPage + PerPage
         /\ 0 * PerPage = 0 /\ 1 * PerPage = PerPage
         /\ n \in 1..MaxPages => (n - 1) * PerPage \in Nat /\ n * PerPage = (n - 1) * PerPage + PerPage
BY CollectorsAssumption

-----------------------------------------------------------------------------
(* What a page adds.                                                       *)

(* Every row of the page that validates is taken now or has been before:   *)
(* of several with the same number the first.                              *)
LEMMA PageIsTaken ==
  ASSUME TypeOK, NEW i \in PageRows, ~Skipped(board, list[board][i])
  PROVE  Key(board, list[board][i]) \in Keys(out \cup Taken)
<1> DEFINE key == Key(board, list[board][i])
<1>1. \A j \in PageRows : ~Skipped(board, list[board][j]) /\ ~Again(j)
        => Key(board, list[board][j]) \in Keys(Taken)
  <2>1. TAKE j \in PageRows
  <2>2. HAVE ~Skipped(board, list[board][j]) /\ ~Again(j)
  <2> DEFINE e == [key |-> Key(board, list[board][j]), board |-> board, page |-> page, place |-> j - First]
  <2>3. e \in Taken
    BY <2>2 DEF Taken
  <2>4. e.key = Key(board, list[board][j])
    OBVIOUS
  <2> QED BY <2>3, <2>4 DEF Keys
<1>2. Keys(out) \subseteq Keys(out \cup Taken) /\ Keys(Taken) \subseteq Keys(out \cup Taken)
  BY DEF Keys
<1>3. CASE ~Again(i)
  BY <1>1, <1>2, <1>3
<1>4. CASE Again(i) /\ key \notin Keys(out)
  <2> DEFINE T == {j \in PageRows : ~Skipped(board, list[board][j]) /\ Key(board, list[board][j]) = key}
  <2>1. T \subseteq Nat /\ T # {}
    <3>1. i \in T
      OBVIOUS
    <3>2. PageRows \subseteq Nat
      BY DEF PageRows, TypeOK
    <3> QED BY <3>1, <3>2
  <2>2. PICK m \in T : \A k \in T : m <= k
    <3> HIDE DEF T
    <3> QED BY <2>1, LeastPlace
  <2>3. ~Again(m)
    <3>1. Key(board, list[board][m]) \notin Keys(out)
      BY <1>4, <2>2
    <3>2. ASSUME NEW j \in PageRows, j < m, ~Skipped(board, list[board][j]),
                 Key(board, list[board][j]) = Key(board, list[board][m])
          PROVE  FALSE
      <4>1. j \in T
        BY <2>2, <3>2
      <4>2. m <= j /\ m \in Nat /\ j \in Nat
        BY <2>1, <2>2, <4>1
      <4> QED BY <3>2, <4>2
    <3> QED BY <3>1, <3>2 DEF Again
  <2> QED BY <1>1, <1>2, <2>2, <2>3
<1> QED BY <1>2, <1>3, <1>4

(* What it adds has its type.                                              *)
LEMMA TakenTypes == TypeOK => Taken \subseteq Entry
<1> SUFFICES ASSUME TypeOK, NEW i \in PageRows
             PROVE  [key |-> Key(board, list[board][i]), board |-> board, page |-> page, place |-> i - First] \in Entry
  BY DEF Taken
<1>1. list[board] \in Seq(Row) /\ board \in Boards /\ page \in 1..MaxPages
  BY DEF TypeOK
<1>2. i \in DOMAIN list[board] /\ First <= i /\ i < First + PerPage
  BY DEF PageRows
<1>3. list[board][i] \in Row /\ i \in Nat
  BY <1>1, <1>2
<1>4. First \in Nat
  <2>1. page \in 1..MaxPages
    BY DEF TypeOK
  <2>2. page \in Nat
    BY <2>1
  <2>3. (page - 1) * PerPage \in Nat
    BY <2>1, <2>2, Places
  <2> QED BY <2>3 DEF First
<1>5. i - First \in 0..PerPage-1
  BY <1>2, <1>3, <1>4, CollectorsAssumption
<1> QED BY <1>1, <1>3, <1>5 DEF Entry, Numbers

(* Nothing of it has the number of another, unless the source is applyhome. *)
LEMMA TakenApart ==
  ASSUME TypeOK, TakenOnce, source # "applyhome",
         NEW e \in out \cup Taken, NEW f \in out \cup Taken, e.key = f.key
  PROVE  e = f
<1>1. ASSUME NEW g \in Taken PROVE g.key \notin Keys(out)
  BY <1>1, source # "applyhome" DEF Taken, Again
<1>2. \A g \in out : g.key \in Keys(out)
  BY DEF Keys
<1>3. CASE e \in out /\ f \in out
  BY <1>3 DEF TakenOnce
<1>4. CASE e \in Taken /\ f \in Taken
  <2> DEFINE New(i) == [key |-> Key(board, list[board][i]), board |-> board, page |-> page, place |-> i - First]
  <2>1. PICK i \in PageRows : e = New(i) /\ ~Skipped(board, list[board][i]) /\ ~Again(i)
    BY <1>4 DEF Taken
  <2>2. PICK j \in PageRows : f = New(j) /\ ~Skipped(board, list[board][j]) /\ ~Again(j)
    BY <1>4 DEF Taken
  <2>3. Key(board, list[board][i]) = Key(board, list[board][j])
    BY <2>1, <2>2
  <2>4. i \in Nat /\ j \in Nat
    BY DEF PageRows, TypeOK
  <2>5. ~(i < j) /\ ~(j < i)
    BY <2>1, <2>2, <2>3 DEF Again
  <2>6. i = j
    BY <2>4, <2>5
  <2> QED BY <2>1, <2>2, <2>6
<1> QED BY <1>1, <1>2, <1>3, <1>4

-----------------------------------------------------------------------------
(* The invariant.                                                          *)

(* How far down a board the collector has read.                            *)
Upto(b) ==
  IF b < board \/ at = "store" THEN Reach
  ELSE IF b = board THEN (page - 1) * PerPage ELSE 0

(* Rows that did not move are read as far as the collector has come.       *)
Read(b, i) ==
  i <= Upto(b) /\ <<b, list[b][i].of>> \notin moved /\ ~Skipped(b, list[b][i])
    => Key(b, list[b][i]) \in Keys(out)
Steady ==
  at # "idle" => \A b \in Boards : b \notin failed => \A i \in DOMAIN list[b] : Read(b, i)

OnePage == source \notin Paged => page = 1

CollInv == OnePage /\ TakenOnce /\ Steady

(* There are one or two boards.                                            *)
LEMMA BoardTypes ==
  /\ LastBoard \in 1..2
  /\ Boards \subseteq 1..2
  /\ 1 \in Boards /\ LastBoard \in Boards
  /\ \A b \in Boards : b # LastBoard => b + 1 \in Boards
BY DEF Boards, LastBoard

(* Types and invariant hold at first.                                      *)
LEMMA InitHolds == Init => TypeOK /\ CollInv
<1> SUFFICES ASSUME Init PROVE TypeOK /\ CollInv
  OBVIOUS
<1>1. TypeOK
  <2>1. list \in [Boards -> Seq(Row)]
    BY ListsAssumption DEF Init
  <2>2. board \in Boards /\ page \in 1..MaxPages
    BY BoardTypes, CollectorsAssumption DEF Init
  <2>3. edits \in 0..MaxEdits /\ faults \in 0..MaxFaults
    BY CollectorsAssumption DEF Init
  <2> QED BY <2>1, <2>2, <2>3 DEF Init, TypeOK
<1> QED BY <1>1 DEF Init, CollInv, OnePage, TakenOnce, Steady

(* A change of a list after which every row is a touched one or stands no  *)
(* higher than before leaves everything as it is.                          *)
LEMMA EditHolds ==
  ASSUME TypeOK, CollInv, NEW b \in Boards, NEW new \in Seq(Row), NEW touched \in SUBSET Postings,
         Edit(b, new, touched),
         \A i \in DOMAIN new : \/ new[i].of \in touched
                               \/ \E j \in DOMAIN list[b] : j <= i /\ new[i] = list[b][j]
  PROVE  (TypeOK /\ CollInv)'
<1>1. /\ UNCHANGED <<source, at, board, page, out, failed, stored, faults>>
      /\ list' = [list EXCEPT ![b] = new]
      /\ moved' = moved \cup {<<b, p>> : p \in touched}
      /\ edits < MaxEdits /\ edits' = edits + 1
  BY DEF Edit, fetch
<1>2. Boards' = Boards /\ Reach' = Reach /\ LastBoard' = LastBoard
  BY <1>1 DEF Boards, LastBoard, Reach
<1>3. \A c, row : Key(c, row)' = Key(c, row) /\ Skipped(c, row)' = Skipped(c, row)
  BY <1>1 DEF Key, Skipped, Lease
<1>4. list \in [Boards -> Seq(Row)] /\ moved \subseteq Boards \X Postings
  BY DEF TypeOK
<1>5. TypeOK'
  <2>1. list' \in [Boards -> Seq(Row)] /\ moved' \subseteq Boards \X Postings
    BY <1>1, <1>4
  <2>2. edits' \in 0..MaxEdits
    <3>1. edits \in 0..MaxEdits
      BY DEF TypeOK
    <3> QED BY <1>1, <3>1, CollectorsAssumption
  <2>3. Numbers' = Numbers
    BY <1>2, <1>3 DEF Numbers
  <2>4. Entry' = Entry
    BY <1>2, <2>3 DEF Entry
  <2> QED BY <1>1, <1>2, <2>1, <2>2, <2>3, <2>4 DEF TypeOK
<1>6. Steady'
  <2> SUFFICES ASSUME at # "idle", NEW c \in Boards, c \notin failed, NEW i \in DOMAIN list'[c],
                      i <= Upto(c)', <<c, list'[c][i].of>> \notin moved', ~Skipped(c, list'[c][i])
               PROVE  Key(c, list'[c][i]) \in Keys(out)
    BY <1>1, <1>2, <1>3 DEF Steady, Read, Keys
  <2>1. Upto(c)' = Upto(c)
    BY <1>1, <1>2 DEF Upto
  <2>2. \A j \in DOMAIN list[c] : Read(c, j)
    BY DEF CollInv, Steady
  <2>3. CASE c # b
    BY <1>1, <1>4, <2>1, <2>2, <2>3 DEF Read
  <2>4. CASE c = b
    <3>1. list'[c] = new /\ i \in DOMAIN new
      BY <1>1, <1>4, <2>4
    <3>2. PICK j \in DOMAIN list[b] : j <= i /\ new[i] = list[b][j]
      BY <1>1, <2>4, <3>1
    <3>3. j <= Upto(c)
      <4>1. Upto(c) \in Nat
        <5>1. page \in 1..MaxPages
          BY DEF TypeOK
        <5>2. page \in Nat /\ MaxPages \in Nat /\ PerPage \in Nat
          BY <5>1, CollectorsAssumption
        <5>3. (page - 1) * PerPage \in Nat /\ MaxPages * PerPage \in Nat
          BY <5>1, <5>2, Places
        <5> QED BY <5>2, <5>3 DEF Upto, Reach
      <4>2. j \in Nat /\ i \in Nat
        BY <1>4, <3>1, <3>2
      <4> QED BY <2>1, <3>2, <4>1, <4>2
    <3> QED BY <1>1, <2>2, <2>4, <3>1, <3>2, <3>3 DEF Read
  <2> QED BY <2>3, <2>4
<1>7. OnePage' /\ TakenOnce'
  BY <1>1 DEF CollInv, OnePage, TakenOnce
<1> QED BY <1>5, <1>6, <1>7 DEF CollInv

(* Whatever the agency does to its lists keeps them.                       *)
LEMMA AgencyHolds == TypeOK /\ CollInv /\ Agency => (TypeOK /\ CollInv)'
<1> SUFFICES ASSUME TypeOK, CollInv, NEW b \in Boards,
                    \/ \E row \in Row : Post(b, row)
                    \/ \E i \in DOMAIN list[b] : Withdraw(b, i) \/ Close(b, i) \/ Link(b, i)
             PROVE  (TypeOK /\ CollInv)'
  BY DEF Agency
<1>1. list[b] \in Seq(Row) /\ Len(list[b]) \in Nat /\ DOMAIN list[b] = 1..Len(list[b])
      /\ \A i \in 1..Len(list[b]) : list[b][i] \in Row /\ list[b][i].of \in Postings
  <2>1. list[b] \in Seq(Row)
    BY DEF TypeOK
  <2>2. \A row \in Row : row.of \in Postings
    BY DEF Row
  <2> QED BY <2>1, <2>2
<1>2. ASSUME NEW row \in Row, Post(b, row) PROVE (TypeOK /\ CollInv)'
  <2> DEFINE new == <<row>> \o list[b]
  <2>1. /\ new \in Seq(Row) /\ Len(new) = Len(list[b]) + 1 /\ new[1] = row
        /\ \A i \in 2..Len(list[b]) + 1 : new[i] = list[b][i - 1]
    BY <1>1, Posted
  <2>2. Edit(b, new, {row.of}) /\ {row.of} \in SUBSET Postings
    BY <1>2 DEF Post, Row
  <2> HIDE DEF new
  <2>3. DOMAIN new = 1..Len(list[b]) + 1
    BY <1>1, <2>1
  <2>4. ASSUME NEW i \in DOMAIN new
        PROVE  new[i].of \in {row.of} \/ \E j \in DOMAIN list[b] : j <= i /\ new[i] = list[b][j]
    <3>1. CASE i = 1
      BY <2>1, <3>1
    <3>2. CASE i # 1
      <4>1. i \in 2..Len(list[b]) + 1 /\ i - 1 \in 1..Len(list[b]) /\ i - 1 <= i
        BY <1>1, <2>3, <3>2
      <4> QED BY <1>1, <2>1, <4>1
    <3> QED BY <3>1, <3>2
  <2> QED BY <2>1, <2>2, <2>4, EditHolds
<1>3. ASSUME NEW i \in DOMAIN list[b], Withdraw(b, i) PROVE (TypeOK /\ CollInv)'
  <2> DEFINE new == RemoveAt(list[b], i)
             touched == {list[b][j].of : j \in i..Len(list[b])}
  <2>1. /\ new \in Seq(Row) /\ Len(new) = Len(list[b]) - 1
        /\ \A j \in 1..i-1 : new[j] = list[b][j]
        /\ \A j \in i..Len(list[b])-1 : new[j] = list[b][j + 1]
    BY <1>1, Withdrawn
  <2>2. Edit(b, new, touched)
    BY <1>3 DEF Withdraw
  <2>3. i \in 1..Len(list[b]) /\ \A j \in i..Len(list[b]) : j \in 1..Len(list[b])
    BY <1>1
  <2>4. touched \in SUBSET Postings
    BY <1>1, <2>3
  <2>5. DOMAIN new = 1..Len(list[b]) - 1
    BY <1>1, <2>1
  <2>6. ASSUME NEW j \in DOMAIN new
        PROVE  new[j].of \in touched \/ \E k \in DOMAIN list[b] : k <= j /\ new[j] = list[b][k]
    <3>1. CASE j < i
      <4>1. j \in 1..i-1 /\ j \in 1..Len(list[b]) /\ j <= j
        BY <1>1, <2>3, <2>5, <3>1
      <4> QED BY <1>1, <2>1, <4>1
    <3>2. CASE ~(j < i)
      <4>1. j \in i..Len(list[b])-1 /\ j + 1 \in i..Len(list[b])
        BY <1>1, <2>3, <2>5, <3>2
      <4> QED BY <2>1, <4>1
    <3> QED BY <3>1, <3>2
  <2> HIDE DEF new, touched
  <2> QED BY <2>1, <2>2, <2>4, <2>6, EditHolds
<1>4. ASSUME NEW i \in DOMAIN list[b], NEW row \in Row, Edit(b, [list[b] EXCEPT ![i] = row], {list[b][i].of}),
             row.of = list[b][i].of
      PROVE  (TypeOK /\ CollInv)'
  <2> DEFINE new == [list[b] EXCEPT ![i] = row]
  <2>1. new \in Seq(Row) /\ DOMAIN new = DOMAIN list[b] /\ new[i] = row
        /\ \A j \in DOMAIN list[b] : j # i => new[j] = list[b][j]
    BY <1>1
  <2>2. {list[b][i].of} \in SUBSET Postings
    BY <1>1
  <2>3. \A j \in DOMAIN list[b] : j <= j
    BY <1>1
  <2> HIDE DEF new
  <2>4. \A j \in DOMAIN new : \/ new[j].of \in {list[b][i].of}
                              \/ \E k \in DOMAIN list[b] : k <= j /\ new[j] = list[b][k]
    BY <1>4, <2>1, <2>3
  <2> QED BY <1>4, <2>1, <2>2, <2>4, EditHolds DEF new
<1>5. ASSUME NEW i \in DOMAIN list[b], Close(b, i) \/ Link(b, i) PROVE (TypeOK /\ CollInv)'
  <2>1. list[b][i] \in Row
    BY <1>1
  <2>2. /\ [list[b][i] EXCEPT !.open = FALSE] \in Row /\ [list[b][i] EXCEPT !.open = FALSE].of = list[b][i].of
        /\ [list[b][i] EXCEPT !.linked = TRUE] \in Row /\ [list[b][i] EXCEPT !.linked = TRUE].of = list[b][i].of
    BY <2>1 DEF Row
  <2>3. /\ [list[b] EXCEPT ![i].open = FALSE] = [list[b] EXCEPT ![i] = [list[b][i] EXCEPT !.open = FALSE]]
        /\ [list[b] EXCEPT ![i].linked = TRUE] = [list[b] EXCEPT ![i] = [list[b][i] EXCEPT !.linked = TRUE]]
    BY <1>1
  <2> QED BY <1>4, <1>5, <2>2, <2>3 DEF Close, Link
<1> QED BY <1>2, <1>3, <1>5

(* Going on to the next board keeps the types of the request to make.      *)
LEMMA NextBoardTypes ==
  ASSUME TypeOK, at = "fetch", NextBoard, UNCHANGED source
  PROVE  /\ at' \in {"idle", "fetch", "store"} /\ board' \in Boards /\ page' \in 1..MaxPages
         /\ OnePage => OnePage'
<1>1. 1 \in 1..MaxPages
  BY CollectorsAssumption
<1>2. at \in {"idle", "fetch", "store"} /\ board \in Boards /\ page \in 1..MaxPages
  BY DEF TypeOK
<1> QED BY <1>1, <1>2, BoardTypes DEF NextBoard, OnePage

(* A board that is left is read as far as the pages reach, or has failed.  *)
LEMMA NextBoardSteady ==
  ASSUME TypeOK, CollInv, at = "fetch", NextBoard, UNCHANGED <<source, list, moved>>,
         out \subseteq out', failed \subseteq failed',
         \/ board \in failed'
         \/ \A i \in DOMAIN list[board] :
              i <= Reach /\ <<board, list[board][i].of>> \notin moved /\ ~Skipped(board, list[board][i])
                => Key(board, list[board][i]) \in Keys(out')
  PROVE  Steady'
<1>1. Boards' = Boards /\ Reach' = Reach /\ LastBoard' = LastBoard /\ Keys(out') = Keys(out)'
      /\ Keys(out) \subseteq Keys(out')
  BY DEF Boards, LastBoard, Reach, Keys
<1>2. \A c, row : Key(c, row)' = Key(c, row) /\ Skipped(c, row)' = Skipped(c, row)
  BY DEF Key, Skipped, Lease
<1> SUFFICES ASSUME NEW b \in Boards, b \notin failed', NEW i \in DOMAIN list[b],
                    i <= Upto(b)', <<b, list[b][i].of>> \notin moved, ~Skipped(b, list[b][i])
             PROVE  Key(b, list[b][i]) \in Keys(out')
  BY <1>1, <1>2 DEF Steady, Read
<1>3. b \in 1..2 /\ board \in 1..2 /\ b \in 1..LastBoard /\ board \in 1..LastBoard /\ LastBoard \in 1..2
  BY BoardTypes DEF TypeOK, Boards
<1>4. CASE b = board
  <2>1. Upto(b)' = Reach
    BY <1>1, <1>3, <1>4 DEF NextBoard, Upto
  <2> QED BY <1>4, <2>1
<1>5. CASE b < board
  <2>1. Upto(b)' = Reach /\ Upto(b) = Reach
    BY <1>1, <1>3, <1>5 DEF NextBoard, Upto
  <2>2. Read(b, i)
    BY DEF CollInv, Steady
  <2> QED BY <1>1, <2>1, <2>2 DEF Read
<1>6. CASE b > board
  <2>1. at' = at /\ board' = board + 1 /\ page' = 1
    BY <1>3, <1>6 DEF NextBoard
  <2>2. Upto(b)' = 0
    <3>1. (1 - 1) * PerPage = 0
      BY CollectorsAssumption
    <3> QED BY <1>3, <1>6, <2>1, <3>1 DEF Upto
  <2>3. i >= 1 /\ i \in Nat
    BY DEF TypeOK
  <2> QED BY <2>2, <2>3
<1> QED BY <1>3, <1>4, <1>5, <1>6

(* After a page, everything down to its end that did not move is taken.    *)
LEMMA PageIsRead ==
  ASSUME TypeOK, CollInv, at = "fetch", board \notin failed, NEW i \in DOMAIN list[board],
         i <= (page - 1) * PerPage + PerPage,
         <<board, list[board][i].of>> \notin moved, ~Skipped(board, list[board][i])
  PROVE  Key(board, list[board][i]) \in Keys(out \cup Taken)
<1>1. CASE i \in PageRows
  BY <1>1, PageIsTaken
<1>2. CASE i \notin PageRows
  <2>1. i \in Nat /\ (page - 1) * PerPage \in Nat /\ PerPage \in Nat
    <3>1. page \in 1..MaxPages
      BY DEF TypeOK
    <3>2. page \in Nat /\ PerPage \in Nat
      BY <3>1, CollectorsAssumption
    <3>3. i \in Nat
      BY DEF TypeOK
    <3> QED BY <3>1, <3>2, <3>3, Places
  <2>2. i <= (page - 1) * PerPage
    BY <1>2, <2>1 DEF PageRows, First
  <2>3. Upto(board) = (page - 1) * PerPage
    <3>1. board \in 1..2
      BY BoardTypes DEF TypeOK
    <3> QED BY <3>1 DEF Upto
  <2>4. Read(board, i)
    BY DEF CollInv, Steady, TypeOK
  <2> QED BY <2>2, <2>3, <2>4 DEF Read, Keys
<1> QED BY <1>1, <1>2

(* The last page ends where the reach or the board ends.                   *)
LEMMA LastPageReaches ==
  ASSUME TypeOK, OnePage, LastPage, NEW i \in DOMAIN list[board], i <= Reach
  PROVE  i <= (page - 1) * PerPage + PerPage
<1>1. page \in 1..MaxPages /\ list[board] \in Seq(Row)
  BY DEF TypeOK
<1>2. page \in Nat /\ MaxPages \in Nat /\ PerPage \in Nat
  BY <1>1, CollectorsAssumption
<1>3. (page - 1) * PerPage \in Nat /\ page * PerPage = (page - 1) * PerPage + PerPage /\ 1 * PerPage = PerPage
  BY <1>1, <1>2, Places
<1>4. i \in Nat /\ i <= Len(list[board]) /\ Len(list[board]) \in Nat
  BY <1>1
<1>5. CASE source \notin Paged
  BY <1>2, <1>3, <1>4, <1>5 DEF OnePage, Reach
<1>6. CASE source \in Paged /\ page = MaxPages
  BY <1>3, <1>6 DEF Reach
<1>7. CASE Len(list[board]) < First + PerPage - 1 \/ Len(list[board]) <= First + PerPage - 1
  BY <1>2, <1>3, <1>4, <1>7 DEF First
<1> QED BY <1>5, <1>6, <1>7 DEF LastPage

(* So does a page that is answered.                                        *)
LEMMA ReadPageHolds == TypeOK /\ CollInv /\ ReadPage => (TypeOK /\ CollInv)'
<1> SUFFICES ASSUME TypeOK, CollInv, ReadPage PROVE (TypeOK /\ CollInv)'
  OBVIOUS
<1>1. /\ at = "fetch" /\ out' = out \cup Taken
      /\ UNCHANGED <<source, list, edits, stored, faults, moved, failed>>
      /\ IF LastPage THEN NextBoard ELSE page' = page + 1 /\ UNCHANGED <<at, board>>
  BY DEF ReadPage, world
<1>2. Boards' = Boards /\ Reach' = Reach /\ Keys(out') = Keys(out)'
  BY <1>1 DEF Boards, LastBoard, Reach, Keys
<1>3. \A c, row : Key(c, row)' = Key(c, row) /\ Skipped(c, row)' = Skipped(c, row)
  BY <1>1 DEF Key, Skipped, Lease
<1>4. page \in 1..MaxPages /\ page \in Nat /\ MaxPages \in Nat /\ board \in Boards
  <2>1. page \in 1..MaxPages /\ board \in Boards
    BY DEF TypeOK
  <2> QED BY <2>1, CollectorsAssumption
<1>5. Numbers' = Numbers /\ Entry' = Entry
  <2>1. Numbers' = Numbers
    BY <1>2, <1>3 DEF Numbers
  <2> QED BY <1>2, <2>1 DEF Entry
<1>6. at' \in {"idle", "fetch", "store"} /\ board' \in Boards /\ page' \in 1..MaxPages /\ OnePage'
  <2>1. CASE LastPage
    BY <1>1, <2>1, NextBoardTypes DEF CollInv
  <2>2. CASE ~LastPage
    <3>1. page # MaxPages /\ source \in Paged
      BY <2>2 DEF LastPage
    <3> QED BY <1>1, <1>4, <2>2, <3>1 DEF OnePage
  <2> QED BY <2>1, <2>2
<1>7. TypeOK'
  <2>1. out' \subseteq Entry
    BY <1>1, TakenTypes DEF TypeOK
  <2> QED BY <1>1, <1>2, <1>5, <1>6, <2>1 DEF TypeOK
<1>8. TakenOnce'
  BY <1>1, TakenApart DEF TakenOnce, CollInv
<1>9. Steady'
  <2>1. CASE LastPage
    <3>1. ASSUME board \notin failed, NEW i \in DOMAIN list[board], i <= Reach,
                 <<board, list[board][i].of>> \notin moved, ~Skipped(board, list[board][i])
          PROVE  Key(board, list[board][i]) \in Keys(out')
      BY <1>1, <2>1, <3>1, PageIsRead, LastPageReaches DEF CollInv
    <3> QED BY <1>1, <2>1, <3>1, NextBoardSteady
  <2>2. CASE ~LastPage
    <3> SUFFICES ASSUME NEW b \in Boards, b \notin failed, NEW i \in DOMAIN list[b],
                        i <= Upto(b)', <<b, list[b][i].of>> \notin moved, ~Skipped(b, list[b][i])
                 PROVE  Key(b, list[b][i]) \in Keys(out')
      BY <1>1, <1>2, <1>3 DEF Steady, Read
    <3>1. at' = at /\ board' = board /\ page' = page + 1
      BY <1>1, <2>2
    <3>2. Read(b, i) /\ Keys(out) \subseteq Keys(out')
      BY <1>1 DEF CollInv, Steady, Keys
    <3>3. CASE b = board
      <4>1. b \in 1..2
        BY BoardTypes
      <4>2. Upto(b)' = (page' - 1) * PerPage
        BY <1>1, <3>1, <3>3, <4>1 DEF Upto
      <4>3. page' - 1 = page
        BY <1>4, <3>1
      <4>4. page * PerPage = (page - 1) * PerPage + PerPage
        BY <1>4, Places
      <4> QED BY <1>1, <3>3, <4>2, <4>3, <4>4, PageIsRead
    <3>4. CASE b # board
      <4>1. Upto(b)' = Upto(b)
        BY <1>1, <1>2, <3>1, <3>4 DEF Upto
      <4> QED BY <3>2, <4>1 DEF Read
    <3> QED BY <3>3, <3>4
  <2> QED BY <2>1, <2>2
<1> QED BY <1>6, <1>7, <1>8, <1>9 DEF CollInv

(* So do the other steps of the batch and every fault.                     *)
LEMMA BatchAndFaultsHold ==
  TypeOK /\ CollInv /\ (StartFetch \/ Store \/ AnswersError \/ TotalMissing \/ RequestFails \/ Die)
    => (TypeOK /\ CollInv)'
<1> SUFFICES ASSUME TypeOK, CollInv,
                    StartFetch \/ Store \/ AnswersError \/ TotalMissing \/ RequestFails \/ Die
             PROVE  (TypeOK /\ CollInv)'
  OBVIOUS
<1>1. UNCHANGED <<source, list, edits>>
  BY DEF StartFetch, Store, AnswersError, TotalMissing, RequestFails, Die, world
<1>2. Boards' = Boards /\ Reach' = Reach /\ \A S : Keys(S)' = Keys(S)
  BY <1>1 DEF Boards, LastBoard, Reach, Keys
<1>3. \A c, row : Key(c, row)' = Key(c, row)
  BY <1>1 DEF Key
<1>4. Numbers' = Numbers /\ Entry' = Entry
  <2>1. Numbers' = Numbers
    BY <1>2, <1>3 DEF Numbers
  <2> QED BY <1>2, <2>1 DEF Entry
<1>5. Fault => faults' \in 0..MaxFaults
  <2>1. faults \in 0..MaxFaults
    BY DEF TypeOK
  <2> QED BY <2>1, CollectorsAssumption DEF Fault
<1>6. CASE StartFetch
  <2>1. TypeOK'
    <3>1. 1 \in 1..MaxPages
      BY CollectorsAssumption
    <3> QED BY <1>1, <1>2, <1>4, <1>6, <3>1, BoardTypes DEF StartFetch, TypeOK
  <2>2. \A b \in Boards : Upto(b)' = 0
    <3>1. TAKE b \in Boards
    <3>2. b \in 1..2 /\ (1 - 1) * PerPage = 0
      BY BoardTypes, CollectorsAssumption
    <3> QED BY <1>6, <3>2 DEF StartFetch, Upto
  <2>3. \A b \in Boards : \A i \in DOMAIN list[b] : ~(i <= 0)
    BY DEF TypeOK
  <2> QED BY <1>1, <1>2, <1>6, <2>1, <2>2, <2>3 DEF StartFetch, CollInv, OnePage, TakenOnce, Steady, Read
<1>7. CASE Store
  <2>1. stored' \subseteq Numbers
    <3>1. \A e \in Entry : e.key \in Numbers
      BY DEF Entry
    <3> QED BY <1>7, <3>1 DEF Store, Keys, TypeOK
  <2> QED BY <1>1, <1>2, <1>4, <1>7, <2>1 DEF Store, TypeOK, CollInv, OnePage, TakenOnce, Steady
<1>8. CASE Die
  BY <1>1, <1>2, <1>4, <1>5, <1>8 DEF Die, TypeOK, CollInv, OnePage, TakenOnce, Steady
<1>9. CASE RequestFails
  BY <1>1, <1>2, <1>4, <1>5, <1>9 DEF RequestFails, TypeOK, CollInv, OnePage, TakenOnce, Steady
<1>10. CASE AnswersError
  <2>1. /\ at' \in {"idle", "fetch", "store"} /\ board' \in Boards /\ page' \in 1..MaxPages /\ OnePage'
    BY <1>1, <1>10, NextBoardTypes DEF AnswersError, CollInv
  <2>2. failed' \subseteq Boards
    BY <1>10 DEF AnswersError, TypeOK
  <2>3. TypeOK'
    BY <1>1, <1>2, <1>4, <1>5, <1>10, <2>1, <2>2 DEF AnswersError, TypeOK
  <2>4. Steady'
    BY <1>1, <1>10, NextBoardSteady DEF AnswersError
  <2> QED BY <1>10, <2>1, <2>3, <2>4 DEF AnswersError, CollInv, TakenOnce
<1>11. CASE TotalMissing
  <2>1. /\ at' \in {"idle", "fetch", "store"} /\ board' \in Boards /\ page' \in 1..MaxPages /\ OnePage'
    BY <1>1, <1>11, NextBoardTypes DEF TotalMissing, CollInv
  <2>2. failed' \subseteq Boards /\ out' \subseteq Entry
    BY <1>11, TakenTypes DEF TotalMissing, TypeOK
  <2>3. TypeOK'
    BY <1>1, <1>2, <1>4, <1>5, <1>11, <2>1, <2>2 DEF TotalMissing, TypeOK
  <2>4. Steady'
    BY <1>1, <1>11, NextBoardSteady DEF TotalMissing
  <2>5. TakenOnce'
    BY <1>11, TakenApart DEF TotalMissing, TakenOnce, CollInv
  <2> QED BY <2>1, <2>3, <2>4, <2>5 DEF CollInv
<1> QED BY <1>6, <1>7, <1>8, <1>9, <1>10, <1>11

(* The types and the invariant hold in every state of the specification.   *)
LEMMA Invariants == Spec => [](TypeOK /\ CollInv)
<1>1. TypeOK /\ CollInv /\ UNCHANGED vars => (TypeOK /\ CollInv)'
  <2> SUFFICES ASSUME TypeOK, CollInv, UNCHANGED vars PROVE (TypeOK /\ CollInv)'
    OBVIOUS
  <2>1. Boards' = Boards /\ LastBoard' = LastBoard /\ Reach' = Reach
    BY DEF vars, Boards, LastBoard, Reach
  <2>2. \A c, row : Key(c, row)' = Key(c, row) /\ Skipped(c, row)' = Skipped(c, row)
    BY DEF vars, Key, Skipped, Lease
  <2>3. Numbers' = Numbers
    BY <2>1, <2>2 DEF Numbers
  <2>4. Entry' = Entry
    BY <2>1, <2>3 DEF Entry
  <2>5. TypeOK'
    BY <2>1, <2>3, <2>4 DEF vars, world, fetch, TypeOK
  <2>6. \A b : Upto(b)' = Upto(b)
    BY <2>1 DEF vars, fetch, Upto
  <2>7. Steady'
    BY <2>1, <2>2, <2>6 DEF vars, world, fetch, CollInv, Steady, Read, Keys
  <2> QED BY <2>5, <2>7 DEF vars, fetch, CollInv, OnePage, TakenOnce
<1>2. TypeOK /\ CollInv /\ [Next]_vars => (TypeOK /\ CollInv)'
  BY <1>1, AgencyHolds, ReadPageHolds, BatchAndFaultsHold DEF Next, Batch
<1> QED BY <1>2, InitHolds, PTL DEF Spec

-----------------------------------------------------------------------------
(* Theorems.                                                               *)

(* In every state of every run the lists, what is taken and what is stored *)
(* have their types: the page never exceeds max_pages (the loops of the    *)
(* collectors).                                                            *)
THEOREM CollectorsTypeCorrect == Spec => []TypeOK
BY Invariants, PTL

(* No collector but applyhome's takes a notice twice in one run, however   *)
(* the lists change between its requests (the sets of numbers seen in      *)
(* fetch_lh_notices and fetch_myhome_notices, aggregate).                  *)
THEOREM NothingIsTakenTwice == Spec => []TakenOnce
<1>1. CollInv => TakenOnce
  BY DEF CollInv
<1> QED BY <1>1, Invariants, PTL

(* When the collector is done, every row within its reach that stayed      *)
(* listed and was not pulled up is taken, of every board that answered     *)
(* (the loops of fetch_lh_notices, _fetch_all and fetch_myhome_notices).   *)
THEOREM SteadyRowsAreNotMissed == Spec => []SteadyRowsAreTaken
<1>1. CollInv => SteadyRowsAreTaken
  BY DEF CollInv, Steady, Read, Upto, SteadyRowsAreTaken
<1> QED BY <1>1, Invariants, PTL

(* Of every board that answered, each row within reach that did not move   *)
(* has its id in the table after the step.                                 *)
StoresReach ==
  \A b \in Boards \ failed : \A i \in DOMAIN list[b] :
    LET row == list[b][i] IN
    i <= Reach /\ <<b, row.of>> \notin moved /\ ~Skipped(b, row) => Key(b, row) \in stored'

(* What a run brings is stored, and stays: its upsert stores the rows of   *)
(* StoresReach, and no step of any run takes an id out of the table        *)
(* (upsert_notices after _safe, which never deletes).                      *)
THEOREM RunsStoreWhatTheyReach == Spec => [][stored \subseteq stored' /\ (Store => StoresReach)]_vars
<1>1. SteadyRowsAreTaken /\ Store => StoresReach
  BY DEF SteadyRowsAreTaken, Store, StoresReach
<1>2. [Next]_vars => stored \subseteq stored'
  <2> SUFFICES ASSUME [Next]_vars PROVE stored \subseteq stored'
    OBVIOUS
  <2>1. CASE Agency
    BY <2>1 DEF Agency, Post, Withdraw, Close, Link, Edit
  <2>2. CASE Batch \/ AnswersError \/ TotalMissing \/ RequestFails \/ Die
    BY <2>2 DEF Batch, StartFetch, ReadPage, Store, AnswersError, TotalMissing, RequestFails, Die
  <2>3. CASE UNCHANGED vars
    BY <2>3 DEF vars
  <2> QED BY <2>1, <2>2, <2>3 DEF Next
<1>3. SteadyRowsAreTaken /\ [Next]_vars => [stored \subseteq stored' /\ (Store => StoresReach)]_vars
  BY <1>1, <1>2
<1> QED BY <1>3, SteadyRowsAreNotMissed, PTL DEF Spec
=============================================================================
