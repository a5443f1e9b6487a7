--------------------------- MODULE PipelineProofs ---------------------------
(***************************************************************************)
(* Theorems about Pipeline for every set of processes and notices, and     *)
(* every bound, checked by TLAPS.                                          *)
(***************************************************************************)
EXTENDS Pipeline, FiniteSetTheorems, WellFoundedInduction, TLAPS

-----------------------------------------------------------------------------
(* The groups of find_superseded.                                          *)

(* Days, prefixes and ids order the notices totally: what sorted(members,  *)
(* key=_order) returns depends on nothing else.                            *)
LEMMA LaterIsTotal ==
  ASSUME NEW n \in Notices, NEW m \in Notices, NEW k \in Notices
  PROVE  /\ ~Later(n, n)
         /\ Later(n, m) /\ Later(m, k) => Later(n, k)
         /\ n # m => Later(n, m) \/ Later(m, n)
<1>1. \A i \in Notices : Published[i] \in Nat /\ Prefixes[i] \in Nat /\ Number[i] \in Nat
  BY ConstantsAssumption
<1>2. n # m => Number[n] # Number[m]
  BY ConstantsAssumption
<1> QED BY <1>1, <1>2 DEF Later

(* A group is one as a whole: its notices share the number, or the name.   *)
LEMMA GroupedByKey ==
  ASSUME NEW S \in SUBSET Notices, NEW n \in S, NEW k \in S, Key(k) = Key(n), Grouped(n, S)
  PROVE  Grouped(k, S)
<1>1. CASE House[n] # ""
  BY <1>1 DEF Key, Grouped
<1>2. CASE House[n] = ""
  <2>1. House[k] = "" /\ Name[k] = Name[n]
    BY <1>2 DEF Key
  <2> QED BY <1>2, <2>1 DEF Grouped
<1> QED BY <1>1, <1>2

(* A finite set under an order has an element that none comes after: one   *)
(* with the fewest after it.                                               *)
LEMMA LastElement ==
  ASSUME NEW S, IsFiniteSet(S), S # {}, NEW R,
         \A x \in S : <<x, x>> \notin R,
         \A x, y, z \in S : <<x, y>> \in R /\ <<y, z>> \in R => <<x, z>> \in R
  PROVE  \E x \in S : \A y \in S : <<x, y>> \notin R
<1> DEFINE after(x) == {y \in S : <<x, y>> \in R}
           T == {after(x) : x \in S}
<1>1. T \subseteq FiniteSubsetsOf(S) /\ T # {}
  <2>1. ASSUME NEW x \in S PROVE after(x) \in SUBSET S /\ IsFiniteSet(after(x))
    <3>1. after(x) \in SUBSET S
      OBVIOUS
    <3> HIDE DEF after
    <3> QED BY <3>1, FS_Subset
  <2> HIDE DEF after
  <2> QED BY <2>1 DEF FiniteSubsetsOf
<1>2. \A P, Q : IsWellFoundedOn(P, Q) =>
        \A U : U \subseteq Q /\ U # {} => \E u \in U : \A v \in U : ~(<<v, u>> \in P)
  BY WFMin
<1>3. PICK u \in T : \A v \in T : <<v, u>> \notin StrictSubsetOrdering(S)
  <2> HIDE DEF T
  <2> QED BY <1>1, <1>2, FS_StrictSubsetOrderingWellFounded
<1>4. PICK x \in S : u = after(x)
  OBVIOUS
<1>5. ASSUME NEW y \in S, <<x, y>> \in R PROVE FALSE
  <2>1. after(y) \subseteq after(x) /\ y \in after(x) /\ y \notin after(y)
    BY <1>5
  <2>2. <<after(y), after(x)>> \in StrictSubsetOrdering(S)
    <3>1. after(y) \in SUBSET S /\ after(x) \in SUBSET S /\ after(y) # after(x)
      BY <2>1
    <3> HIDE DEF after
    <3> QED BY <2>1, <3>1 DEF StrictSubsetOrdering
  <2>3. after(y) \in T
    OBVIOUS
  <2> QED BY <1>3, <1>4, <2>2, <2>3
<1> QED BY <1>5

(* Of every group of notices in which find_superseded replaces any, exactly *)
(* one remains, and it is the latest: a correction hides what it corrects, *)
(* and never everything.                                                   *)
THEOREM OneOfAGroupRemains ==
  ASSUME NEW S \in SUBSET Notices, IsFiniteSet(S), NEW n \in S, Grouped(n, S)
  PROVE  \E m \in S :
           /\ Key(m) = Key(n) /\ m \notin Superseded(S)
           /\ \A k \in S : Key(k) = Key(n) /\ k # m => k \in Superseded(S) /\ Later(m, k)
<1> DEFINE G == {k \in S : Key(k) = Key(n)}
           R == {e \in S \X S : Later(e[2], e[1])}
<1>1. IsFiniteSet(G) /\ G # {}
  BY FS_Subset
<1>2. \A x, y \in S : <<x, y>> \in R <=> Later(y, x)
  OBVIOUS
<1>3. PICK m \in G : \A k \in G : <<m, k>> \notin R
  <2>1. \A x \in G : <<x, x>> \notin R
    BY <1>2, LaterIsTotal
  <2>2. \A x, y, z \in G : <<x, y>> \in R /\ <<y, z>> \in R => <<x, z>> \in R
    <3> HIDE DEF R
    <3>1. TAKE x \in G, y \in G, z \in G
    <3>2. Later(z, y) /\ Later(y, x) => Later(z, x)
      BY LaterIsTotal
    <3> QED BY <1>2, <3>2
  <2> HIDE DEF G, R
  <2> QED BY <1>1, <2>1, <2>2, LastElement
<1>4. \A k \in G : ~Later(k, m)
  BY <1>2, <1>3
<1>5. m \notin Superseded(S)
  BY <1>4 DEF Superseded
<1>6. ASSUME NEW k \in S, Key(k) = Key(n), k # m PROVE k \in Superseded(S) /\ Later(m, k)
  <2>1. Later(m, k)
    BY <1>4, <1>6, LaterIsTotal
  <2>2. Grouped(k, S)
    BY <1>6, GroupedByKey
  <2> QED BY <1>3, <1>6, <2>1, <2>2 DEF Superseded
<1> QED BY <1>5, <1>6

-----------------------------------------------------------------------------
(* Types.                                                                  *)

(* The upserts of a run are counted by natural numbers.                    *)
LEMMA StepsArePositive == Len(UpsertOrder) \in Nat
BY ConstantsAssumption

(* Leaving the process keeps the types of everything it resets.            *)
LEMMA ExitTypes ==
  ASSUME NEW p \in Procs, TypeOK, Exit(p)
  PROVE  /\ pc' \in [Procs -> Stages]
         /\ mode' \in [Procs -> Modes \cup {"none"}]
         /\ step' \in [Procs -> 1..Len(UpsertOrder) + 1]
         /\ fetched' \in [Procs -> [Notices -> Listing]]
         /\ types' \in [Procs -> SUBSET Notices]
         /\ verdict' \in [Procs -> [Notices -> Verdicts]]
         /\ todo' \in [Procs -> SUBSET Notices]
         /\ cur' \in [Procs -> SUBSET Notices]
<1>1. Nothing \in [Notices -> Listing] /\ Unjudged \in [Notices -> Verdicts]
  BY DEF Nothing, Unjudged, Listing, Verdicts
<1>2. "idle" \in Stages
  BY DEF Stages
<1>3. 1 \in 1..Len(UpsertOrder) + 1
  BY StepsArePositive
<1> QED BY <1>1, <1>2, <1>3 DEF TypeOK, Exit

(* Every initial state has the types.                                      *)
LEMMA InitTypes == Init => TypeOK
<1> SUFFICES ASSUME Init PROVE TypeOK
  OBVIOUS
<1>1. 1 \in 1..Len(UpsertOrder) + 1 /\ 1 \in 1..MaxDay
  BY StepsArePositive, ConstantsAssumption
<1>2. 0 \in 0..MaxEdits /\ 0 \in 0..MaxFaults
  BY ConstantsAssumption
<1> QED BY <1>1, <1>2
    DEF Init, TypeOK, Nothing, Unjudged, Listing, Content, Verdicts, Stages

(* Every step of the world, of a run and of a fault keeps the types.       *)
LEMMA NextTypes == TypeOK /\ [Next]_vars => TypeOK'
<1> SUFFICES ASSUME TypeOK, [Next]_vars PROVE TypeOK'
  OBVIOUS
<1> USE DEF TypeOK
<1>1. CASE Publish
  BY <1>1, ConstantsAssumption DEF Publish, db, locals, history, Listing, Content
<1>2. CASE Tick
  BY <1>2, ConstantsAssumption DEF Tick, db, locals, history
<1>3. ASSUME NEW p \in Procs, NEW m \in Modes, StartRun(p, m) PROVE TypeOK'
  BY <1>3 DEF StartRun, Goto, world, db, history, Stages
<1>4. ASSUME NEW p \in Procs, NEW ok \in SUBSET Feeds, FetchFrom(p, ok),
             faults' \in 0..MaxFaults
      PROVE TypeOK'
  BY <1>4 DEF FetchFrom, Goto, world, db, history, Stages, Listing
<1>5. ASSUME NEW p \in Procs, Fetch(p) PROVE TypeOK'
  BY <1>4, <1>5 DEF Fetch
<1>6. ASSUME NEW p \in Procs, FetchPartly(p) PROVE TypeOK'
  <2>1. faults' \in 0..MaxFaults
    BY <1>6, ConstantsAssumption DEF FetchPartly, Fault
  <2> QED BY <1>4, <1>6, <2>1 DEF FetchPartly
<1>7. ASSUME NEW p \in Procs, UpsertNotices(p) PROVE TypeOK'
  <2>1. step' \in [Procs -> 1..Len(UpsertOrder) + 1]
    BY <1>7, StepsArePositive DEF UpsertNotices, Upserting
  <2> QED BY <1>7, <2>1
      DEF UpsertNotices, Upserting, world, history
<1>8. ASSUME NEW p \in Procs, UpsertHouseTypes(p) PROVE TypeOK'
  <2>1. step' \in [Procs -> 1..Len(UpsertOrder) + 1]
    BY <1>8, StepsArePositive DEF UpsertHouseTypes, Upserting
  <2> QED BY <1>8, <2>1 DEF UpsertHouseTypes, Upserting, world, history
<1>9. ASSUME NEW p \in Procs, UpsertsDone(p) PROVE TypeOK'
  BY <1>9 DEF UpsertsDone, Goto, world, db, locals, history, Stages
<1>10. ASSUME NEW p \in Procs, EvaluateRead(p) PROVE TypeOK'
  <2>1. \A n \in Notices : Judge(n) \in Verdicts
    BY DEF Judge, Verdicts
  <2> QED BY <1>10, <2>1 DEF EvaluateRead, Goto, world, db, history, Stages
<1>11. ASSUME NEW p \in Procs, SaveMatchResults(p) PROVE TypeOK'
  BY <1>11 DEF SaveMatchResults, Goto, world, locals, history, Stages
<1>12. ASSUME NEW p \in Procs, EnrichThenNotify(p) PROVE TypeOK'
  BY <1>12 DEF EnrichThenNotify, Goto, world, db, locals, history, Stages
<1>13. ASSUME NEW p \in Procs, EnrichThenExit(p) PROVE TypeOK'
  BY <1>13, ExitTypes DEF EnrichThenExit, world, db, history
<1>14. ASSUME NEW p \in Procs, PendingNotifications(p) PROVE TypeOK'
  <2>1. Pending \subseteq Notices
    BY DEF Pending
  <2>2. pc' \in [Procs -> Stages]
    BY <1>14 DEF PendingNotifications, Goto, Stages
  <2> QED BY <1>14, <2>1, <2>2 DEF PendingNotifications, world, db, history
<1>15. ASSUME NEW p \in Procs, SendTelegram(p) PROVE TypeOK'
  <2>1. PICK n \in Heads(todo[p]) \ Poison :
          /\ todo' = [todo EXCEPT ![p] = @ \ {n}]
          /\ cur' = [cur EXCEPT ![p] = {n}]
          /\ sent' = [sent EXCEPT ![p][n] = @ + 1]
    BY <1>15 DEF SendTelegram
  <2>2. n \in Notices
    BY DEF Heads
  <2>3. sent' \in [Procs -> [Notices -> Nat]]
    BY <2>1, <2>2
  <2>4. todo' \in [Procs -> SUBSET Notices] /\ cur' \in [Procs -> SUBSET Notices]
    BY <2>1, <2>2
  <2>5. pc' \in [Procs -> Stages]
    BY <1>15 DEF SendTelegram, Goto, Stages
  <2> QED BY <1>15, <2>3, <2>4, <2>5 DEF SendTelegram, world, db
<1>16. ASSUME NEW p \in Procs, SendRefused(p) PROVE TypeOK'
  BY <1>16, ExitTypes DEF SendRefused, world, db, history
<1>17. ASSUME NEW p \in Procs, SendAnswerLost(p) PROVE TypeOK'
  <2>1. PICK n \in Heads(todo[p]) \ Poison :
          /\ sent' = [sent EXCEPT ![p][n] = @ + 1]
          /\ unrecorded' = [unrecorded EXCEPT ![p][n] = @ + 1]
    BY <1>17 DEF SendAnswerLost
  <2>2. n \in Notices
    BY DEF Heads
  <2>3. faults' \in 0..MaxFaults
    BY <1>17, ConstantsAssumption DEF SendAnswerLost, Fault
  <2>4. sent' \in [Procs -> [Notices -> Nat]]
    BY <2>1, <2>2
  <2>5. unrecorded' \in [Procs -> [Notices -> Nat]]
    BY <2>1, <2>2
  <2> QED BY <1>17, <2>3, <2>4, <2>5, ExitTypes DEF SendAnswerLost, world, db
<1>18. ASSUME NEW p \in Procs, MarkNotified(p) PROVE TypeOK'
  BY <1>18 DEF MarkNotified, Goto, world, history, Stages
<1>19. ASSUME NEW p \in Procs, BackfillMark(p) PROVE TypeOK'
  BY <1>19 DEF BackfillMark, Heads, world
<1>20. ASSUME NEW p \in Procs, LoopDone(p) PROVE TypeOK'
  BY <1>20, ExitTypes DEF LoopDone, world, db, history
<1>21. ASSUME NEW p \in Procs, Die(p) PROVE TypeOK'
  <2>1. faults' \in 0..MaxFaults
    BY <1>21, ConstantsAssumption DEF Die, Fault
  <2>2. unrecorded' \in [Procs -> [Notices -> Nat]]
    BY <1>21 DEF Die
  <2> QED BY <1>21, <2>1, <2>2, ExitTypes DEF Die, world, db
<1>22. CASE UNCHANGED vars
  BY <1>22 DEF vars, world, db, locals, history
<1> QED
  BY <1>1, <1>2, <1>3, <1>5, <1>6, <1>7, <1>8, <1>9, <1>10, <1>11, <1>12, <1>13, <1>14,
     <1>15, <1>16, <1>17, <1>18, <1>19, <1>20, <1>21, <1>22 DEF Next, Progress

(* The database rows, the memory of every run and the history keep their   *)
(* types.                                                                  *)
THEOREM TypeCorrect == Spec => []TypeOK
BY InitTypes, NextTypes, PTL DEF Spec
-----------------------------------------------------------------------------
(* The inductive invariant behind the two promises to the reader of the    *)
(* chat: what a run has sent and not yet recorded is exactly cur, and only *)
(* while it stands between send and mark; the rest of its list still may   *)
(* be sent once for free, and so may what nobody has recorded.             *)

MaySendFree(p, n) == n \notin cur[p] /\ (n \in todo[p] \/ n \notin log)

Ledger ==
  /\ \A p \in Procs : cur[p] # {} => pc[p] = "mark"
  /\ \A p \in Procs : cur[p] \cap todo[p] = {}
  /\ \A p \in Procs : \A n \in cur[p] : sent[p][n] > 0
  /\ RecordedWasHandled
  /\ ResendNeedsLostRecord
  /\ \A p \in Procs, n \in Notices :
       MaySendFree(p, n) => sent[p][n] <= unrecorded[p][n]

(* At first nothing is sent and nothing is owed.                           *)
LEMMA InitLedger == Init => Ledger
BY DEF Init, Ledger, MaySendFree, RecordedWasHandled, ResendNeedsLostRecord

(* Steps that touch neither the lists of a run, nor the history, nor       *)
(* notify_log, taken outside the span from send to mark.                   *)
LEMMA QuietKeepsLedger ==
  ASSUME TypeOK, Ledger, NEW p \in Procs, pc[p] # "mark",
         NEW s, pc' = [pc EXCEPT ![p] = s] \/ pc' = pc,
         UNCHANGED <<todo, cur, log, history>>
  PROVE  Ledger'
BY DEF TypeOK, Ledger, MaySendFree, RecordedWasHandled, ResendNeedsLostRecord, history

(* A run that ends outside that span loses only the rest of its list.      *)
LEMMA ExitKeepsLedger ==
  ASSUME TypeOK, Ledger, NEW p \in Procs, pc[p] # "mark", Exit(p),
         UNCHANGED <<log, history>>
  PROVE  Ledger'
<1>1. cur' = cur
  BY DEF TypeOK, Ledger, Exit
<1> QED BY <1>1
    DEF TypeOK, Ledger, MaySendFree, RecordedWasHandled, ResendNeedsLostRecord, Exit, history

(* The counts are numbers.                                                 *)
LEMMA CountTypes ==
  ASSUME TypeOK, NEW p \in Procs, NEW n \in Notices
  PROVE  sent[p][n] \in Nat /\ unrecorded[p][n] \in Nat
BY DEF TypeOK

(* Every step of any process keeps the ledger.                             *)
LEMMA NextLedger == TypeOK /\ Ledger /\ [Next]_vars => Ledger'
<1> SUFFICES ASSUME TypeOK, Ledger, [Next]_vars PROVE Ledger'
  OBVIOUS
<1>1. CASE Publish \/ Tick \/ UNCHANGED vars
  BY <1>1 DEF Publish, Tick, vars, db, locals, history, Ledger, MaySendFree,
              RecordedWasHandled, ResendNeedsLostRecord
<1>2. ASSUME NEW p \in Procs, NEW m \in Modes, StartRun(p, m) PROVE Ledger'
  BY <1>2, QuietKeepsLedger DEF StartRun, Goto, db
<1>3. ASSUME NEW p \in Procs, Fetch(p) \/ FetchPartly(p) PROVE Ledger'
  BY <1>3, QuietKeepsLedger DEF Fetch, FetchPartly, FetchFrom, Goto, db
<1>4. ASSUME NEW p \in Procs, UpsertNotices(p) \/ UpsertHouseTypes(p) PROVE Ledger'
  BY <1>4, QuietKeepsLedger DEF UpsertNotices, UpsertHouseTypes, Upserting
<1>5. ASSUME NEW p \in Procs, UpsertsDone(p) \/ EnrichThenNotify(p) PROVE Ledger'
  BY <1>5, QuietKeepsLedger DEF UpsertsDone, EnrichThenNotify, Goto, db, locals
<1>6. ASSUME NEW p \in Procs, EvaluateRead(p) \/ SaveMatchResults(p) PROVE Ledger'
  BY <1>6, QuietKeepsLedger DEF EvaluateRead, SaveMatchResults, Goto, db, locals
<1>7. ASSUME NEW p \in Procs, EnrichThenExit(p) \/ SendRefused(p) \/ LoopDone(p)
      PROVE Ledger'
  BY <1>7, ExitKeepsLedger DEF EnrichThenExit, SendRefused, LoopDone, db
<1>8. ASSUME NEW p \in Procs, PendingNotifications(p) PROVE Ledger'
  <2>1. cur[p] = {}
    BY <1>8 DEF PendingNotifications, Goto, Ledger
  <2>2. \A n \in Pending : n \notin log
    BY DEF Pending
  <2> QED BY <1>8, <2>1, <2>2
      DEF PendingNotifications, Goto, Ledger, MaySendFree, RecordedWasHandled,
          ResendNeedsLostRecord, TypeOK, db, history
<1>9. ASSUME NEW p \in Procs, SendTelegram(p) PROVE Ledger'
  <2>1. PICK n \in Heads(todo[p]) \ Poison :
          /\ todo' = [todo EXCEPT ![p] = @ \ {n}]
          /\ cur' = [cur EXCEPT ![p] = {n}]
          /\ sent' = [sent EXCEPT ![p][n] = @ + 1]
    BY <1>9 DEF SendTelegram
  <2>2. n \in todo[p] /\ n \in Notices /\ cur[p] = {}
    BY <1>9 DEF Heads, SendTelegram, Goto, Ledger, TypeOK
  <2>3. pc' = [pc EXCEPT ![p] = "mark"] /\ UNCHANGED <<log, unrecorded, waived>>
    BY <1>9 DEF SendTelegram, Goto, db
  <2>4. sent[p][n] <= unrecorded[p][n]
    BY <2>2 DEF Ledger, MaySendFree
  <2>5. /\ \A q \in Procs : cur'[q] # {} => pc'[q] = "mark"
        /\ \A q \in Procs : cur'[q] \cap todo'[q] = {}
        /\ \A q \in Procs : \A k \in cur'[q] : sent'[q][k] > 0
    BY <2>1, <2>2, <2>3 DEF Ledger, TypeOK
  <2>6. RecordedWasHandled'
    BY <2>1, <2>2, <2>3 DEF Ledger, TypeOK, RecordedWasHandled
  <2>7. ResendNeedsLostRecord'
    BY <2>1, <2>2, <2>3, <2>4 DEF Ledger, TypeOK, ResendNeedsLostRecord
  <2>8. \A q \in Procs, k \in Notices :
          MaySendFree(q, k)' => sent'[q][k] <= unrecorded'[q][k]
    BY <2>1, <2>2, <2>3 DEF Ledger, TypeOK, MaySendFree
  <2> QED BY <2>5, <2>6, <2>7, <2>8 DEF Ledger
<1>10. ASSUME NEW p \in Procs, SendAnswerLost(p) PROVE Ledger'
  <2>1. PICK n \in Heads(todo[p]) \ Poison :
          /\ sent' = [sent EXCEPT ![p][n] = @ + 1]
          /\ unrecorded' = [unrecorded EXCEPT ![p][n] = @ + 1]
    BY <1>10 DEF SendAnswerLost
  <2>2. n \in todo[p] /\ n \in Notices /\ cur[p] = {}
    BY <1>10 DEF Heads, SendAnswerLost, Ledger, TypeOK
  <2>3. /\ todo' = [todo EXCEPT ![p] = {}]
        /\ cur' = cur
        /\ pc' = [pc EXCEPT ![p] = "idle"]
        /\ UNCHANGED <<log, waived>>
    BY <1>10, <2>2 DEF SendAnswerLost, Exit, db, TypeOK
  <2>4. \A q \in Procs, k \in Notices :
          \/ sent'[q][k] = sent[q][k] /\ unrecorded'[q][k] = unrecorded[q][k]
          \/ /\ sent'[q][k] = sent[q][k] + 1
             /\ unrecorded'[q][k] = unrecorded[q][k] + 1
    BY <2>1, <2>2 DEF TypeOK
  <2>5. /\ \A q \in Procs : cur'[q] # {} => pc'[q] = "mark"
        /\ \A q \in Procs : cur'[q] \cap todo'[q] = {}
        /\ \A q \in Procs : \A k \in cur'[q] : sent'[q][k] > 0
    <3>1. \A q \in Procs : \A k \in cur[q] : sent[q][k] > 0 /\ k \in Notices
      BY DEF Ledger, TypeOK
    <3>2. \A q \in Procs : \A k \in cur'[q] : sent'[q][k] > 0
      BY <2>3, <2>4, <3>1, CountTypes
    <3> QED BY <2>2, <2>3, <3>2 DEF Ledger, TypeOK
  <2>6. RecordedWasHandled'
    <3>1. \A k \in log : k \in Notices
      BY DEF TypeOK
    <3> QED BY <2>3, <2>4, <3>1, CountTypes DEF Ledger, RecordedWasHandled
  <2>7. ResendNeedsLostRecord'
    BY <2>4, CountTypes DEF Ledger, ResendNeedsLostRecord
  <2>8. \A q \in Procs, k \in Notices : MaySendFree(q, k)' => MaySendFree(q, k)
    BY <2>3 DEF TypeOK, MaySendFree
  <2>9. \A q \in Procs, k \in Notices :
          MaySendFree(q, k)' => sent'[q][k] <= unrecorded'[q][k]
    BY <2>4, <2>8, CountTypes DEF Ledger
  <2> QED BY <2>5, <2>6, <2>7, <2>9 DEF Ledger
<1>11. ASSUME NEW p \in Procs, MarkNotified(p) PROVE Ledger'
  BY <1>11 DEF MarkNotified, Goto, Ledger, MaySendFree, RecordedWasHandled,
               ResendNeedsLostRecord, TypeOK, history
<1>12. ASSUME NEW p \in Procs, BackfillMark(p) PROVE Ledger'
  <2>1. PICK n \in Heads(todo[p]) :
          /\ todo' = [todo EXCEPT ![p] = @ \ {n}]
          /\ log' = log \cup {n}
          /\ waived' = waived \cup {n}
    BY <1>12 DEF BackfillMark
  <2>2. UNCHANGED <<pc, cur, sent, unrecorded>>
    BY <1>12 DEF BackfillMark
  <2> QED BY <2>1, <2>2
      DEF Ledger, MaySendFree, RecordedWasHandled, ResendNeedsLostRecord, TypeOK
<1>13. ASSUME NEW p \in Procs, Die(p) PROVE Ledger'
  <2>1. /\ todo' = [todo EXCEPT ![p] = {}]
        /\ cur' = [cur EXCEPT ![p] = {}]
        /\ pc' = [pc EXCEPT ![p] = "idle"]
        /\ UNCHANGED <<log, sent, waived>>
    BY <1>13 DEF Die, Exit, db
  <2>2. \A q \in Procs, k \in Notices :
          unrecorded'[q][k] =
            IF q = p /\ k \in cur[p] THEN unrecorded[q][k] + 1 ELSE unrecorded[q][k]
    BY <1>13 DEF Die, TypeOK
  <2>3. RecordedWasHandled'
    BY <2>1 DEF Ledger, RecordedWasHandled
  <2>4. ResendNeedsLostRecord'
    BY <2>1, <2>2, CountTypes DEF Ledger, ResendNeedsLostRecord
  <2>5. \A q \in Procs, k \in Notices :
          MaySendFree(q, k)' => MaySendFree(q, k) \/ (q = p /\ k \in cur[p])
    BY <2>1 DEF TypeOK, MaySendFree
  <2>6. \A q \in Procs, k \in Notices :
          MaySendFree(q, k)' => sent'[q][k] <= unrecorded'[q][k]
    BY <2>1, <2>2, <2>5, CountTypes DEF Ledger, ResendNeedsLostRecord
  <2> QED BY <2>1, <2>3, <2>4, <2>6 DEF Ledger, TypeOK
<1> QED
  BY <1>1, <1>2, <1>3, <1>4, <1>5, <1>6, <1>7, <1>8, <1>9, <1>10, <1>11, <1>12, <1>13
  DEF Next, Progress

(* Ledger holds in every reachable state, for any number of overlapping    *)
(* processes.                                                              *)
LEMMA LedgerHolds == Spec => []Ledger
BY InitLedger, NextLedger, TypeCorrect, PTL DEF Spec

(* notify_log never claims a notice that was neither sent nor waived.      *)
THEOREM RecordedHandled == Spec => []RecordedWasHandled
<1>1. Ledger => RecordedWasHandled
  BY DEF Ledger
<1> QED BY <1>1, LedgerHolds, PTL

(* Every repeated message is paid for by a lost record of an earlier one.  *)
THEOREM ResendsAccounted == Spec => []ResendNeedsLostRecord
<1>1. Ledger => ResendNeedsLostRecord
  BY DEF Ledger
<1> QED BY <1>1, LedgerHolds, PTL
-----------------------------------------------------------------------------
(* What holds when nothing overlaps the timer's run: systemd never starts  *)
(* a oneshot unit twice at a time.                                         *)

Alone == \A p, q \in Procs : p = q

(* v is a verdict on the tables as they are now (its day apart).           *)
Faithful(v) ==
  \A n \in Notices :
    /\ v[n] = "none" <=> n \notin Stored
    /\ v[n] = "yes" =>
         n \notin Superseded(Stored) /\ stored[n] = "fit" /\ Affordable(n)

(* The inductive invariant: from the evaluation to the end of the run the  *)
(* verdicts agree with the tables, and the list in memory with the query   *)
(* that made it.                                                           *)
Currency ==
  /\ Evaluated \subseteq Stored
  /\ CorrectionHidesOriginal
  /\ \A p \in Procs :
       /\ pc[p] = "save" => Faithful(verdict[p])
       /\ pc[p] \in {"enrich", "pending", "notify", "mark", "backfill"} => Faithful(match)
       /\ pc[p] \in {"notify", "mark", "backfill"} => todo[p] \cup cur[p] = Pending
       /\ pc[p] = "mark" => \E n \in Notices : cur[p] = {n}

(* At first nothing is judged or listed.                                   *)
LEMMA InitCurrency == Init => Currency
BY DEF Init, Currency, CorrectionHidesOriginal, Evaluated, Superseded, Unjudged

(* Steps before the evaluation leave match_result alone and only add       *)
(* notices.                                                                *)
LEMMA EarlyKeepsCurrency ==
  ASSUME Alone, TypeOK, Currency, NEW p \in Procs,
         pc'[p] \in {"idle", "fetch", "upsert", "evaluate"},
         Stored \subseteq Stored', match' = match
  PROVE  Currency'
BY DEF Alone, Currency, CorrectionHidesOriginal, Evaluated

(* Judge agrees with the tables.                                           *)
LEMMA JudgeIsFaithful ==
  ASSUME NEW v, v = [n \in Notices |-> Judge(n)]
  PROVE  Faithful(v)
BY DEF Faithful, Judge, Stored

(* Judging only depends on the tables.                                     *)
LEMMA SameTables ==
  ASSUME UNCHANGED <<stored, priced>>
  PROVE  /\ Stored' = Stored
         /\ \A v : Faithful(v)' <=> Faithful(v)
BY DEF Stored, Faithful, Superseded, Grouped, Affordable

(* Steps that leave the tables, match_result and notify_log alone keep     *)
(* everything said of the stage they leave behind.                         *)
LEMMA SameQuery ==
  ASSUME UNCHANGED <<stored, match, log>>
  PROVE  Evaluated' = Evaluated /\ Pending' = Pending
         /\ CorrectionHidesOriginal' = CorrectionHidesOriginal
BY DEF Evaluated, Pending, CorrectionHidesOriginal, Superseded, Grouped

(* With one process every step keeps verdicts and lists current.           *)
LEMMA NextCurrency == Alone /\ TypeOK /\ Ledger /\ Currency /\ [Next]_vars => Currency'
<1> SUFFICES ASSUME Alone, TypeOK, Ledger, Currency, [Next]_vars PROVE Currency'
  OBVIOUS
<1>1. CASE Publish \/ Tick \/ UNCHANGED vars
  <2>1. UNCHANGED <<stored, priced, match, log, pc, verdict, todo, cur>>
    BY <1>1 DEF Publish, Tick, vars, db, locals
  <2> QED BY <2>1, SameTables, SameQuery DEF Currency
<1>2. ASSUME NEW p \in Procs,
             \/ \E m \in Modes : StartRun(p, m)
             \/ Fetch(p) \/ FetchPartly(p)
             \/ UpsertHouseTypes(p) \/ UpsertsDone(p)
             \/ EnrichThenExit(p) \/ SendRefused(p) \/ SendAnswerLost(p) \/ LoopDone(p)
             \/ Die(p)
      PROVE Currency'
  <2>1. pc'[p] \in {"idle", "fetch", "upsert", "evaluate"}
    BY <1>2 DEF StartRun, Fetch, FetchPartly, FetchFrom, UpsertHouseTypes, Upserting,
                UpsertsDone, EnrichThenExit, SendRefused, SendAnswerLost, LoopDone, Die,
                Exit, Goto, TypeOK
  <2>2. match' = match /\ stored' = stored
    BY <1>2 DEF StartRun, Fetch, FetchPartly, FetchFrom, UpsertHouseTypes, UpsertsDone,
                EnrichThenExit, SendRefused, SendAnswerLost, LoopDone, Die, db
  <2> QED BY <2>1, <2>2, EarlyKeepsCurrency DEF Stored
<1>3. ASSUME NEW p \in Procs, UpsertNotices(p) PROVE Currency'
  <2>1. pc'[p] = "upsert" /\ match' = match
    BY <1>3 DEF UpsertNotices, Upserting
  <2>2. Stored \subseteq Stored'
    BY <1>3 DEF UpsertNotices, Stored
  <2> QED BY <2>1, <2>2, EarlyKeepsCurrency
<1>4. ASSUME NEW p \in Procs, EvaluateRead(p) PROVE Currency'
  <2>1. UNCHANGED <<stored, priced, match, log>>
    BY <1>4 DEF EvaluateRead, db
  <2>2. pc' = [pc EXCEPT ![p] = "save"] /\ verdict'[p] = [n \in Notices |-> Judge(n)]
    BY <1>4 DEF EvaluateRead, Goto, TypeOK
  <2>3. Faithful(verdict'[p])
    BY <2>2, JudgeIsFaithful
  <2>4. Faithful(verdict[p])'
    BY <2>1, <2>3 DEF Faithful, Stored, Superseded, Grouped, Affordable
  <2>5. \A q \in Procs : q = p /\ pc'[q] = "save"
    BY <2>2 DEF Alone, TypeOK
  <2> QED BY <2>1, <2>4, <2>5, SameTables, SameQuery DEF Currency
<1>5. ASSUME NEW p \in Procs, SaveMatchResults(p) PROVE Currency'
  <2>1. UNCHANGED <<stored, priced, log>> /\ pc' = [pc EXCEPT ![p] = "enrich"]
    BY <1>5 DEF SaveMatchResults, Goto
  <2>2. match' = [n \in Notices |->
                   IF verdict[p][n] # "none" THEN verdict[p][n] ELSE match[n]]
    BY <1>5 DEF SaveMatchResults
  <2>3. Faithful(verdict[p]) /\ Evaluated \subseteq Stored
    BY <1>5 DEF SaveMatchResults, Goto, Currency
  <2>4. Faithful(match')
    BY <2>2, <2>3 DEF Faithful, Evaluated, Stored
  <2>5. Faithful(match)' /\ Stored' = Stored
    BY <2>1, <2>4 DEF Faithful, Stored, Superseded, Grouped, Affordable
  <2>6. Evaluated' = Stored
    BY <2>4 DEF Faithful, Evaluated, Stored
  <2>7. \A n \in Notices : match'[n] \in Verdicts
    BY <2>2 DEF TypeOK
  <2>8. CorrectionHidesOriginal'
    <3>1. \A n \in Superseded(Stored) : n \in Notices /\ match'[n] # "none" /\ match'[n] # "yes"
      BY <2>4 DEF Faithful, Superseded, Stored
    <3>2. \A n \in Superseded(Stored) : match'[n] = "no"
      BY <2>7, <3>1 DEF Verdicts
    <3> QED BY <2>6, <3>2 DEF CorrectionHidesOriginal, Superseded, Grouped
  <2>9. \A q \in Procs : q = p /\ pc'[q] = "enrich"
    BY <2>1 DEF Alone, TypeOK
  <2> QED BY <2>5, <2>6, <2>8, <2>9 DEF Currency
<1>6. ASSUME NEW p \in Procs, EnrichThenNotify(p) PROVE Currency'
  <2>1. UNCHANGED <<stored, priced, match, log>> /\ pc' = [pc EXCEPT ![p] = "pending"]
    BY <1>6 DEF EnrichThenNotify, Goto, db
  <2>2. \A q \in Procs : q = p /\ pc'[q] = "pending" /\ pc[q] = "enrich"
    BY <1>6, <2>1 DEF Alone, TypeOK, EnrichThenNotify, Goto
  <2> QED BY <2>1, <2>2, SameTables, SameQuery DEF Currency
<1>7. ASSUME NEW p \in Procs, PendingNotifications(p) PROVE Currency'
  <2>1. UNCHANGED <<stored, priced, match, log, cur>> /\ todo'[p] = Pending
    BY <1>7 DEF PendingNotifications, db, TypeOK
  <2>2. cur[p] = {}
    BY <1>7 DEF PendingNotifications, Goto, Ledger
  <2>3. \A q \in Procs : q = p /\ pc'[q] \in {"notify", "backfill"} /\ pc[q] = "pending"
    BY <1>7 DEF Alone, TypeOK, PendingNotifications, Goto
  <2> QED BY <2>1, <2>2, <2>3, SameTables, SameQuery DEF Currency
<1>8. ASSUME NEW p \in Procs, SendTelegram(p) PROVE Currency'
  <2>1. PICK n \in Heads(todo[p]) \ Poison :
          /\ todo' = [todo EXCEPT ![p] = @ \ {n}]
          /\ cur' = [cur EXCEPT ![p] = {n}]
    BY <1>8 DEF SendTelegram
  <2>2. n \in todo[p] /\ n \in Notices /\ cur[p] = {}
    BY <1>8 DEF Heads, SendTelegram, Goto, Ledger, TypeOK
  <2>3. UNCHANGED <<stored, priced, match, log>>
    BY <1>8 DEF SendTelegram, db
  <2>4. \A q \in Procs : q = p /\ pc'[q] = "mark" /\ pc[q] = "notify"
    BY <1>8 DEF Alone, TypeOK, SendTelegram, Goto
  <2>5. todo'[p] \cup cur'[p] = todo[p] \cup cur[p]
    BY <2>1, <2>2 DEF TypeOK
  <2>6. cur'[p] = {n}
    BY <2>1 DEF TypeOK
  <2> QED BY <2>2, <2>3, <2>4, <2>5, <2>6, SameTables, SameQuery DEF Currency
<1>9. ASSUME NEW p \in Procs, MarkNotified(p) PROVE Currency'
  <2>1. /\ UNCHANGED <<stored, priced, match, todo>>
        /\ log' = log \cup cur[p]
        /\ cur'[p] = {}
    BY <1>9 DEF MarkNotified, TypeOK
  <2>2. \A q \in Procs : q = p /\ pc'[q] = "notify" /\ pc[q] = "mark"
    BY <1>9 DEF Alone, TypeOK, MarkNotified, Goto
  <2>3. todo[p] \cup cur[p] = Pending /\ cur[p] \cap todo[p] = {}
    BY <2>2 DEF Currency, Ledger
  <2>4. todo'[p] \cup cur'[p] = Pending'
    BY <2>1, <2>3 DEF Pending
  <2>5. CorrectionHidesOriginal' /\ Evaluated' = Evaluated
    BY <2>1 DEF Currency, CorrectionHidesOriginal, Evaluated, Superseded, Grouped
  <2> QED BY <2>1, <2>2, <2>4, <2>5, SameTables DEF Currency
<1>10. ASSUME NEW p \in Procs, BackfillMark(p) PROVE Currency'
  <2>1. PICK n \in Heads(todo[p]) :
          todo' = [todo EXCEPT ![p] = @ \ {n}] /\ log' = log \cup {n}
    BY <1>10 DEF BackfillMark
  <2>2. UNCHANGED <<stored, priced, match, cur, pc>>
    BY <1>10 DEF BackfillMark
  <2>3. \A q \in Procs : q = p /\ pc[q] = "backfill"
    BY <1>10 DEF Alone, BackfillMark
  <2>4. todo[p] = Pending /\ cur[p] = {}
    BY <2>3 DEF Currency, Ledger
  <2>5. todo'[p] \cup cur'[p] = Pending'
    BY <2>1, <2>2, <2>4 DEF Pending, TypeOK
  <2>6. CorrectionHidesOriginal' /\ Evaluated' = Evaluated
    BY <2>2 DEF Currency, CorrectionHidesOriginal, Evaluated, Superseded, Grouped
  <2> QED BY <2>2, <2>3, <2>5, <2>6, SameTables DEF Currency
<1> QED
  BY <1>1, <1>2, <1>3, <1>4, <1>5, <1>6, <1>7, <1>8, <1>9, <1>10 DEF Next, Progress

(* So they are current in every state.                                     *)
LEMMA CurrencyHolds == ASSUME Alone PROVE Spec => []Currency
<1>1. Currency /\ TypeOK /\ Ledger /\ [Next]_vars => Currency'
  BY NextCurrency
<1> QED BY <1>1, InitCurrency, TypeCorrect, LedgerHolds, PTL DEF Spec

(* A correction that has been evaluated hides the notices it replaces.     *)
THEOREM CorrectionsHide == ASSUME Alone PROVE Spec => []CorrectionHidesOriginal
<1>1. Currency => CorrectionHidesOriginal
  BY DEF Currency
<1> QED BY <1>1, CurrencyHolds, PTL

(* Of two evaluated notices of one chain at most one is matched: with one  *)
(* batch process no reader of match_result, page or notifier, ever sees a  *)
(* notice beside its correction, or two that share a house_manage_no.      *)
THEOREM OneOfAChainIsMatched ==
  ASSUME Alone
  PROVE  Spec => [](\A n, m \in Evaluated :
           n # m /\ Key(n) = Key(m) /\ Grouped(n, Evaluated) => match[n] # "yes" \/ match[m] # "yes")
<1>1. CorrectionHidesOriginal =>
        \A n, m \in Evaluated :
          n # m /\ Key(n) = Key(m) /\ Grouped(n, Evaluated) => match[n] # "yes" \/ match[m] # "yes"
  <2>1. SUFFICES ASSUME CorrectionHidesOriginal, NEW n \in Evaluated, NEW m \in Evaluated,
                        n # m, Key(n) = Key(m), Grouped(n, Evaluated)
                 PROVE  match[n] # "yes" \/ match[m] # "yes"
    OBVIOUS
  <2>2. n \in Notices /\ m \in Notices /\ Evaluated \in SUBSET Notices
    BY DEF Evaluated
  <2>3. Grouped(m, Evaluated)
    BY <2>1, <2>2, GroupedByKey
  <2>4. CASE Later(n, m)
    <3>1. m \in Superseded(Evaluated)
      BY <2>1, <2>3, <2>4 DEF Superseded
    <3> QED BY <2>1, <3>1 DEF CorrectionHidesOriginal
  <2>5. CASE Later(m, n)
    <3>1. n \in Superseded(Evaluated)
      BY <2>1, <2>5 DEF Superseded
    <3> QED BY <2>1, <3>1 DEF CorrectionHidesOriginal
  <2> QED BY <2>1, <2>2, <2>4, <2>5, LaterIsTotal
<1> QED BY <1>1, CorrectionsHide, PTL

(* Only the two sending steps send, and what they send is a nearest notice *)
(* of the list in memory.                                                  *)
LEMMA OnlySendsSend ==
  ASSUME TypeOK, [Next]_vars, NEW n \in Notices, SentNow(n)
  PROVE  \E p \in Procs : pc[p] = "notify" /\ n \in Heads(todo[p])
<1>1. PICK q \in Procs : sent'[q][n] > sent[q][n]
  BY DEF SentNow
<1>2. sent' # sent
  BY <1>1, CountTypes
<1>3. PICK p \in Procs : SendTelegram(p) \/ SendAnswerLost(p)
  BY <1>2 DEF Next, Progress, vars, history, Publish, Tick, StartRun, Fetch, FetchPartly,
              FetchFrom, UpsertNotices, UpsertHouseTypes, UpsertsDone, EvaluateRead,
              SaveMatchResults, EnrichThenNotify, EnrichThenExit, PendingNotifications,
              SendRefused, MarkNotified, BackfillMark, LoopDone, Die
<1>4. pc[p] = "notify"
  BY <1>3 DEF SendTelegram, SendAnswerLost, Goto
<1>5. PICK m \in Heads(todo[p]) : sent' = [sent EXCEPT ![p][m] = @ + 1]
  BY <1>3 DEF SendTelegram, SendAnswerLost
<1>6. m = n
  BY <1>1, <1>5, CountTypes DEF TypeOK
<1> QED BY <1>4, <1>5, <1>6

(* A notice is sent from a list that is still what the query would return. *)
LEMMA SendsFromPending ==
  ASSUME TypeOK, Ledger, Currency, [Next]_vars, NEW n \in Notices, SentNow(n)
  PROVE  Faithful(match) /\ n \in Heads(Pending)
<1>1. PICK p \in Procs : pc[p] = "notify" /\ n \in Heads(todo[p])
  BY OnlySendsSend
<1>2. todo[p] = Pending
  BY <1>1 DEF Currency, Ledger
<1> QED BY <1>1, <1>2 DEF Currency

(* What is sent would be matched and pending if the batch looked again.    *)
THEOREM SendsCurrent == ASSUME Alone PROVE Spec => SendsAreCurrent
<1>1. TypeOK /\ Ledger /\ Currency /\ [Next]_vars => [SendIsCurrent]_vars
  <2> SUFFICES ASSUME TypeOK, Ledger, Currency, [Next]_vars, NEW n \in Notices, SentNow(n)
               PROVE  /\ n \in Pending
                      /\ n \in Stored \ Superseded(Stored)
                      /\ stored[n] = "fit"
                      /\ Affordable(n)
    BY DEF SendIsCurrent
  <2>1. Faithful(match) /\ n \in Pending
    BY SendsFromPending DEF Heads
  <2> QED BY <2>1 DEF Faithful, Pending
<1> QED BY <1>1, TypeCorrect, LedgerHolds, CurrencyHolds, PTL DEF Spec, SendsAreCurrent

(* No message overtakes that of a pending notice which closes earlier.     *)
THEOREM NearestFirst == ASSUME Alone PROVE Spec => NearestDeadlineFirst
<1>1. TypeOK /\ Ledger /\ Currency /\ [Next]_vars => [SendIsNearest]_vars
  BY SendsFromPending DEF SendIsNearest, Heads
<1> QED BY <1>1, TypeCorrect, LedgerHolds, CurrencyHolds, PTL DEF Spec, NearestDeadlineFirst

-----------------------------------------------------------------------------
(* The batch implements the abstract outbox.                               *)

LEMMA InitPromise == Init => Promise!Init
BY DEF Init, Promise!Init

(* Every step is one of the outbox or changes nothing it sees.             *)
LEMMA StepPromise ==
  TypeOK /\ Ledger /\ Currency /\ [Next]_vars => [Promise!Next]_(Promise!vars)
<1> SUFFICES ASSUME TypeOK, Ledger, Currency, [Next]_vars, sent' # sent \/ log' # log \/ waived' # waived
             PROVE  Promise!Next
  BY DEF Promise!vars
<1>1. PICK p \in Procs : SendTelegram(p) \/ SendAnswerLost(p) \/ MarkNotified(p) \/ BackfillMark(p)
  BY DEF Next, Progress, vars, db, history, Publish, Tick, StartRun, Fetch, FetchPartly,
         FetchFrom, UpsertNotices, UpsertHouseTypes, UpsertsDone, EvaluateRead,
         SaveMatchResults, EnrichThenNotify, EnrichThenExit, PendingNotifications,
         SendRefused, LoopDone, Die
<1>2. CASE SendTelegram(p) \/ SendAnswerLost(p)
  <2>1. PICK n \in Heads(todo[p]) : sent' = [sent EXCEPT ![p][n] = @ + 1]
    BY <1>2 DEF SendTelegram, SendAnswerLost
  <2>2. n \in Notices /\ n \notin log
    BY <1>2, <2>1 DEF SendTelegram, SendAnswerLost, Goto, Currency, Pending, Heads
  <2>3. log' = log /\ waived' = waived
    BY <1>2 DEF SendTelegram, SendAnswerLost, db
  <2> QED BY <2>1, <2>2, <2>3 DEF Promise!Next, Promise!Deliver
<1>3. CASE MarkNotified(p)
  <2>1. PICK n \in Notices : cur[p] = {n}
    BY <1>3 DEF MarkNotified, Goto, Currency
  <2>2. n \notin log /\ sent[p][n] > 0
    BY <1>3, <2>1 DEF MarkNotified, Goto, Currency, Pending, Ledger
  <2>3. log' = log \cup {n} /\ sent' = sent /\ waived' = waived
    BY <1>3, <2>1 DEF MarkNotified, history
  <2> QED BY <2>2, <2>3 DEF Promise!Next, Promise!Record
<1>4. CASE BackfillMark(p)
  <2>1. PICK n \in Heads(todo[p]) : log' = log \cup {n} /\ waived' = waived \cup {n}
    BY <1>4 DEF BackfillMark
  <2>2. n \in Notices /\ n \notin log /\ sent' = sent
    BY <1>4, <2>1 DEF BackfillMark, Currency, Pending, Heads
  <2> QED BY <2>1, <2>2 DEF Promise!Next, Promise!Waive
<1> QED BY <1>1, <1>2, <1>3, <1>4

(* Every behaviour of a batch that runs alone is one of Outbox: delivered  *)
(* before recorded, and never again after.                                 *)
THEOREM ImplementsOutbox == ASSUME Alone PROVE Spec => KeepsPromise
BY InitPromise, StepPromise, TypeCorrect, LedgerHolds, CurrencyHolds, PTL
   DEF Spec, KeepsPromise, Promise!Spec
=============================================================================
