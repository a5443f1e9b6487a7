-------------------------- MODULE EnrichmentProofs --------------------------
(***************************************************************************)
(* Theorems about Enrichment for every set of notices, every cap and every *)
(* bound, checked by TLAPS.                                                *)
(***************************************************************************)
EXTENDS Enrichment, TLAPS

-----------------------------------------------------------------------------
(* Types.                                                                  *)

(* What an upsert writes is a row.                                         *)
LEMMA FreshTypes == \A n : Fresh(n) \in Row
BY DEF Fresh, Row, Urls

(* Changes of a row's columns keep it a row.                               *)
LEMMA RowChanges ==
  ASSUME NEW r \in Row, NEW u \in Urls, NEW v \in BOOLEAN, NEW a \in BOOLEAN,
         NEW g \in {"unset", "none", "found"}
  PROVE  /\ [r EXCEPT !.detail = u, !.viewer = v, !.adres = @ \/ a] \in Row
         /\ [r EXCEPT !.polygon = g] \in Row
         /\ [r EXCEPT !.detail = u] \in Row
BY DEF Row

(* A stage selects notices only.                                           *)
LEMMA RowsAreNotices ==
  ASSUME TypeOK, NEW stage \in Stages, NEW S \in Rows(stage)
  PROVE  S \subseteq Notices
<1>1. LH \subseteq Notices /\ GH \subseteq Notices
  BY ConstantsAssumption
<1>2. CASE stage = "pdf"
  BY <1>1, <1>2 DEF Rows, Batches, Candidates
<1>3. CASE stage # "pdf"
  BY <1>1, <1>3 DEF Rows, Stages, TypeOK
<1> QED BY <1>2, <1>3

(* A write into the transaction keeps its rows typed.                      *)
LEMMA WriteTypes ==
  ASSUME TypeOK, NEW n \in Notices, NEW r \in Row, Write(n, r)
  PROVE  staged' \in [Notices -> Row] /\ answered' \subseteq Notices
BY DEF TypeOK, Write

(* What a stage still has to visit was selected by what its rows say, and  *)
(* they stay so while the stage runs: its updates wait for the commit.     *)
SelectionHolds ==
  /\ selected => pc \in Stages
  /\ ~selected => todo = {}
  /\ pc = "supply" => todo \subseteq LH
  /\ pc = "polygon" => \A n \in todo : row[n].adres
  /\ pc = "pdf" => \A n \in todo : row[n].detail \notin {"unset", "none"} /\ NeedsAnalysis(n)

(* The types hold at first, and every step keeps them.                     *)
LEMMA InitTypes == Init => TypeOK
<1> SUFFICES ASSUME Init PROVE TypeOK
  OBVIOUS
<1>1. \A n \in Notices : [Fresh(n) EXCEPT !.stored = FALSE] \in Row
  BY FreshTypes DEF Row
<1>2. row \in [Notices -> Row] /\ staged \in [Notices -> Row]
  BY <1>1 DEF Init
<1>3. analysis \in [Notices -> Analyses]
  BY DEF Init, Analyses
<1>4. attached \in [Notices -> Urls] /\ edits \in 0..MaxEdits /\ faults \in 0..MaxFaults
  BY ConstantsAssumption DEF Init, Urls
<1> QED BY <1>2, <1>3, <1>4 DEF Init, TypeOK

(* Every step keeps the types.                                             *)
LEMMA NextTypes == TypeOK /\ SelectionHolds /\ [Next]_vars => TypeOK'
<1> SUFFICES ASSUME TypeOK, SelectionHolds, [Next]_vars PROVE TypeOK'
  OBVIOUS
<1> USE DEF TypeOK
<1>c. LH \subseteq Notices /\ GH \subseteq Notices /\ MaxEdits \in Nat /\ MaxFaults \in Nat
  BY ConstantsAssumption
<1>f. Fault => faults' \in 0..MaxFaults
  BY <1>c DEF Fault
<1>u. ASSUME NEW ok, UpsertListed(ok) PROVE row' \in [Notices -> Row] /\ staged' \in [Notices -> Row]
  BY <1>u, FreshTypes DEF UpsertListed
<1>1. CASE Edit
  <2>1. edits' \in 0..MaxEdits
    BY <1>1, <1>c DEF Edit
  <2>2. listed' \subseteq Notices /\ fits' \subseteq Notices /\ attached' \in [Notices -> Urls]
    BY <1>1 DEF Edit
  <2> QED BY <1>1, <2>1, <2>2 DEF Edit, db, session, history
<1>2. CASE StartRun
  BY <1>2 DEF StartRun, world, db, session, history
<1>3. CASE UpsertNotices
  BY <1>3, <1>u DEF UpsertNotices, UpsertListed, world, history
<1>4. CASE UpsertPartly
  <2>1. PICK ok : UpsertListed(ok)
    BY <1>4 DEF UpsertPartly
  <2> QED BY <1>4, <1>f, <1>u, <2>1 DEF UpsertPartly, UpsertListed, world, history
<1>5. CASE EvaluateAll
  BY <1>5 DEF EvaluateAll, world, session, history, Stages
<1>6. CASE SelectRows
  <2>1. todo' \subseteq Notices
    BY <1>6, RowsAreNotices DEF SelectRows
  <2> QED BY <1>6, <2>1 DEF SelectRows, world, db, history
<1>7. ASSUME NEW n \in Notices, StoreSupply(n) PROVE TypeOK'
  <2>1. n \in LH
    BY <1>7 DEF StoreSupply, Visit, SelectionHolds
  <2> QED BY <1>7, <2>1 DEF StoreSupply, Visit, world
<1>8. ASSUME NEW n \in Notices, StoreDetail(n) PROVE TypeOK'
  <2>1. PICK v \in BOOLEAN :
          Write(n, [row[n] EXCEPT !.detail = attached[n], !.viewer = v,
                                  !.adres = @ \/ n \in Located])
    BY <1>8 DEF StoreDetail
  <2>2. [row[n] EXCEPT !.detail = attached[n], !.viewer = v, !.adres = @ \/ n \in Located] \in Row
    BY RowChanges
  <2>3. staged' \in [Notices -> Row] /\ answered' \subseteq Notices
    BY <2>1, <2>2, WriteTypes
  <2> QED BY <1>8, <2>3 DEF StoreDetail, Visit, world, db
<1>9. ASSUME NEW n \in Notices, StorePolygon(n) PROVE TypeOK'
  <2>1. PICK g \in {"none", "found"} : Write(n, [row[n] EXCEPT !.polygon = g])
    BY <1>9 DEF StorePolygon
  <2>2. [row[n] EXCEPT !.polygon = g] \in Row
    BY DEF Row
  <2>3. staged' \in [Notices -> Row] /\ answered' \subseteq Notices
    BY <2>1, <2>2, WriteTypes
  <2> QED BY <1>9, <2>3 DEF StorePolygon, Visit, world, db
<1>10. ASSUME NEW n \in Notices, StoreGhDetail(n) PROVE TypeOK'
  <2>1. [row[n] EXCEPT !.detail = attached[n]] \in Row
    BY DEF Row
  <2>2. staged' \in [Notices -> Row] /\ answered' \subseteq Notices
    BY <1>10, <2>1, WriteTypes DEF StoreGhDetail
  <2> QED BY <1>10, <2>2 DEF StoreGhDetail, Visit, world, db
<1>11. ASSUME NEW n \in Notices, StoreGhNothing(n) PROVE TypeOK'
  <2>1. [row[n] EXCEPT !.detail = "none"] \in Row
    BY DEF Row, Urls
  <2>2. staged' \in [Notices -> Row] /\ answered' \subseteq Notices
    BY <1>11, <2>1, WriteTypes DEF StoreGhNothing
  <2> QED BY <1>11, <1>f, <2>2 DEF StoreGhNothing, Visit, world, db
<1>12. ASSUME NEW n \in Notices, FetchFails(n) PROVE TypeOK'
  BY <1>12, <1>f DEF FetchFails, Visit, world, db, history
<1>13. ASSUME NEW n \in Notices, StatementRefused(n) PROVE TypeOK'
  BY <1>13, <1>f DEF StatementRefused, Visit, world, db, history
<1>a. ASSUME NEW n \in Notices, NEW good \in BOOLEAN, StoreAnalysis(n, good)
      PROVE  analysis' \in [Notices -> Analyses]
  <2>1. row[n].detail \in Urls \ {"none"}
    BY <1>a DEF StoreAnalysis, Visit, SelectionHolds, Row
  <2>2. [of |-> row[n].detail, ok |-> good] \in Analyses
    BY <2>1 DEF Analyses
  <2> QED BY <1>a, <2>2 DEF StoreAnalysis
<1>14. ASSUME NEW n \in Notices, Analyse(n) PROVE TypeOK'
  <2>1. analysis' \in [Notices -> Analyses]
    BY <1>14, <1>a DEF Analyse
  <2> QED BY <1>14, <2>1 DEF Analyse, StoreAnalysis, Visit, world
<1>15. ASSUME NEW n \in Notices, DownloadFails(n) PROVE TypeOK'
  <2>1. analysis' \in [Notices -> Analyses]
    BY <1>15, <1>a DEF DownloadFails
  <2> QED BY <1>15, <1>f, <2>1 DEF DownloadFails, StoreAnalysis, Visit, world
<1>16. ASSUME NEW n \in Notices, AnalysisRefused(n) PROVE TypeOK'
  BY <1>16, <1>f DEF AnalysisRefused, Visit, world, db, history
<1>17. CASE EndStage
  <2>1. pc \in Stages
    BY <1>17 DEF EndStage, SelectionHolds
  <2>2. row' \in [Notices -> Row]
    BY <1>17 DEF EndStage
  <2>3. pc' \in Stages \cup {"idle"}
    BY <1>17, <2>1 DEF EndStage, After, Stages
  <2> QED BY <1>17, <2>2, <2>3 DEF EndStage, world
<1>18. CASE Die
  BY <1>18, <1>f DEF Die, world, db
<1>19. CASE UNCHANGED vars
  BY <1>19 DEF vars, world, db, session, history
<1> QED BY <1>1, <1>2, <1>3, <1>4, <1>5, <1>6, <1>7, <1>8, <1>9, <1>10, <1>11, <1>12, <1>13,
           <1>14, <1>15, <1>16, <1>17, <1>18, <1>19 DEF Next, Progress

-----------------------------------------------------------------------------
(* The stages.                                                             *)

(* Nothing is stored, in the table or in the open transaction, as a parcel *)
(* without an address.                                                     *)
ParcelsHaveAddress ==
  \A n \in Notices : /\ row[n].polygon # "unset" => row[n].adres
                     /\ staged[n].polygon # "unset" => staged[n].adres

(* In the last stage no transaction is aborted, and what it has answered   *)
(* is in the table.                                                        *)
PdfIsStored ==
  pc = "pdf" => ~aborted /\ \A n \in answered : analysis[n].of = row[n].detail

StageInv == SelectionHolds /\ ParcelsHaveAddress /\ PdfIsStored

(* So do the facts about the stages.                                       *)
LEMMA InitStages == Init => StageInv
<1> SUFFICES ASSUME Init PROVE StageInv
  OBVIOUS
<1>1. \A n \in Notices : row[n].polygon = "unset" /\ staged[n].polygon = "unset"
  BY DEF Init, Fresh
<1> QED BY <1>1 DEF Init, StageInv, SelectionHolds, ParcelsHaveAddress, PdfIsStored, Stages

(* What a stage selects is fit for it.                                     *)
LEMMA SelectionStarts ==
  ASSUME TypeOK, SelectRows
  PROVE  SelectionHolds'
<1> USE DEF SelectRows, db
<1>1. (selected => pc \in Stages)' /\ (~selected => todo = {})'
  OBVIOUS
<1>2. CASE pc = "supply"
  BY <1>1, <1>2 DEF SelectionHolds, Rows
<1>3. CASE pc = "polygon"
  BY <1>1, <1>3 DEF SelectionHolds, Rows
<1>4. CASE pc = "pdf"
  <2>1. todo' \subseteq Candidates
    BY <1>4 DEF Rows, Batches
  <2>2. \A n \in todo' : row[n].detail \notin {"unset", "none"} /\ NeedsAnalysis(n)
    BY <2>1 DEF Candidates
  <2> QED BY <1>1, <1>4, <2>2 DEF SelectionHolds, NeedsAnalysis
<1>5. CASE pc \notin {"supply", "polygon", "pdf"}
  BY <1>1, <1>5 DEF SelectionHolds
<1> QED BY <1>2, <1>3, <1>4, <1>5

(* It stays fit while the stage visits its rows.                           *)
LEMMA SelectionStays ==
  ASSUME SelectionHolds, UNCHANGED <<pc, selected, row, analysis>>, todo' \subseteq todo
  PROVE  SelectionHolds'
BY DEF SelectionHolds, NeedsAnalysis

(* A write of a stage before the last into its transaction.                *)
LEMMA WriteKeepsStages ==
  ASSUME TypeOK, StageInv, NEW n \in Notices, NEW r \in Row, Write(n, r), pc # "pdf",
         r.polygon # "unset" => r.adres,
         UNCHANGED <<pc, selected, row, analysis>>, todo' \subseteq todo
  PROVE  StageInv'
<1>1. SelectionHolds'
  BY SelectionStays DEF StageInv
<1>2. ParcelsHaveAddress'
  BY DEF StageInv, ParcelsHaveAddress, Write, TypeOK
<1>3. PdfIsStored'
  BY DEF PdfIsStored
<1> QED BY <1>1, <1>2, <1>3 DEF StageInv

(* Every step keeps the facts about the stages.                            *)
LEMMA NextStages == TypeOK /\ StageInv /\ [Next]_vars => StageInv'
<1> SUFFICES ASSUME TypeOK, StageInv, [Next]_vars PROVE StageInv'
  OBVIOUS
<1> USE DEF StageInv
<1>s. ASSUME UNCHANGED <<pc, selected, row, staged, analysis, aborted>>,
             todo' \subseteq todo, answered' = answered
      PROVE  StageInv'
  <2>1. SelectionHolds'
    BY <1>s, SelectionStays
  <2>2. ParcelsHaveAddress' /\ PdfIsStored'
    BY <1>s DEF ParcelsHaveAddress, PdfIsStored
  <2> QED BY <2>1, <2>2
<1>u. ASSUME NEW ok, UpsertListed(ok) PROVE StageInv'
  <2>1. SelectionHolds' /\ PdfIsStored'
    BY <1>u DEF UpsertListed, SelectionHolds, PdfIsStored, Stages
  <2>2. \A n \in Notices : row'[n].polygon # "unset" => row'[n].adres
    BY <1>u DEF UpsertListed, ParcelsHaveAddress, Fresh
  <2> QED BY <1>u, <2>1, <2>2 DEF UpsertListed, ParcelsHaveAddress
<1>1. CASE Edit
  BY <1>1, <1>s DEF Edit, db, session, history
<1>2. CASE StartRun
  <2>1. SelectionHolds' /\ PdfIsStored'
    BY <1>2 DEF StartRun, SelectionHolds, PdfIsStored, session, Stages
  <2> QED BY <1>2, <2>1 DEF StartRun, ParcelsHaveAddress, db, session
<1>3. CASE UpsertNotices
  BY <1>3, <1>u DEF UpsertNotices
<1>4. CASE UpsertPartly
  BY <1>4, <1>u DEF UpsertPartly
<1>5. CASE EvaluateAll
  <2>1. SelectionHolds' /\ PdfIsStored'
    BY <1>5 DEF EvaluateAll, SelectionHolds, PdfIsStored, session, Stages
  <2> QED BY <1>5, <2>1 DEF EvaluateAll, ParcelsHaveAddress, session
<1>6. CASE SelectRows
  <2>1. SelectionHolds'
    BY <1>6, SelectionStarts
  <2> QED BY <1>6, <2>1 DEF SelectRows, ParcelsHaveAddress, PdfIsStored, db, history
<1>7. ASSUME NEW n \in Notices, StoreSupply(n) PROVE StageInv'
  <2>1. SelectionHolds'
    BY <1>7, SelectionStays DEF StoreSupply, Visit
  <2> QED BY <1>7, <2>1 DEF StoreSupply, Visit, ParcelsHaveAddress, PdfIsStored
<1>8. ASSUME NEW n \in Notices, StoreDetail(n) PROVE StageInv'
  <2>1. PICK v \in BOOLEAN :
          Write(n, [row[n] EXCEPT !.detail = attached[n], !.viewer = v,
                                  !.adres = @ \/ n \in Located])
    BY <1>8 DEF StoreDetail
  <2> DEFINE r == [row[n] EXCEPT !.detail = attached[n], !.viewer = v,
                                 !.adres = @ \/ n \in Located]
  <2>2. row[n] \in Row /\ attached[n] \in Urls
    BY DEF TypeOK
  <2>3. r \in Row
    BY <2>2, RowChanges
  <2>4. r.polygon # "unset" => r.adres
    BY <2>2 DEF ParcelsHaveAddress, Row
  <2> HIDE DEF r
  <2> QED BY <1>8, <2>1, <2>3, <2>4, WriteKeepsStages DEF StoreDetail, Visit, db, r
<1>9. ASSUME NEW n \in Notices, StorePolygon(n) PROVE StageInv'
  <2>1. PICK g \in {"none", "found"} : Write(n, [row[n] EXCEPT !.polygon = g])
    BY <1>9 DEF StorePolygon
  <2>2. [row[n] EXCEPT !.polygon = g] \in Row /\ row[n].adres
    BY <1>9 DEF TypeOK, Row, StorePolygon, Visit, SelectionHolds
  <2> DEFINE r == [row[n] EXCEPT !.polygon = g]
  <2>3. r.adres
    BY <2>2 DEF TypeOK, Row
  <2> QED BY <1>9, <2>1, <2>2, <2>3, WriteKeepsStages DEF StorePolygon, Visit, db
<1>10. ASSUME NEW n \in Notices, NEW u \in Urls, Visit("gh", n),
              Write(n, [row[n] EXCEPT !.detail = u]), UNCHANGED <<db, pc, selected>>
       PROVE  StageInv'
  <2> DEFINE r == [row[n] EXCEPT !.detail = u]
  <2>1. r \in Row /\ (r.polygon # "unset" => r.adres)
    BY DEF TypeOK, Row, ParcelsHaveAddress
  <2> QED BY <1>10, <2>1, WriteKeepsStages DEF Visit, db
<1>11. ASSUME NEW n \in Notices, StoreGhDetail(n) \/ StoreGhNothing(n) PROVE StageInv'
  <2>1. attached[n] \in Urls /\ "none" \in Urls
    BY DEF TypeOK, Urls
  <2> QED BY <1>10, <1>11, <2>1 DEF StoreGhDetail, StoreGhNothing
<1>12. ASSUME NEW n \in Notices, FetchFails(n) PROVE StageInv'
  BY <1>12, <1>s DEF FetchFails, Visit, db, history
<1>13. ASSUME NEW n \in Notices, StatementRefused(n) PROVE StageInv'
  <2>1. SelectionHolds'
    BY <1>13, SelectionStays DEF StatementRefused, Visit, db
  <2>2. pc # "pdf"
    BY <1>13 DEF StatementRefused, Visit
  <2> QED BY <1>13, <2>1, <2>2 DEF StatementRefused, ParcelsHaveAddress, PdfIsStored, db
<1>14. ASSUME NEW n \in Notices, NEW good, StoreAnalysis(n, good) PROVE StageInv'
  <2>1. \A m \in Notices \ {n} : analysis'[m] = analysis[m]
    BY <1>14 DEF StoreAnalysis, TypeOK
  <2>2. SelectionHolds'
    BY <1>14, <2>1 DEF StoreAnalysis, Visit, SelectionHolds, NeedsAnalysis, TypeOK
  <2>3. ~aborted /\ analysis'[n].of = row[n].detail
    BY <1>14 DEF StoreAnalysis, Visit, PdfIsStored, TypeOK
  <2>4. PdfIsStored'
    BY <1>14, <2>1, <2>3 DEF StoreAnalysis, Visit, PdfIsStored, TypeOK
  <2> QED BY <1>14, <2>2, <2>4 DEF StoreAnalysis, ParcelsHaveAddress
<1>15. ASSUME NEW n \in Notices, Analyse(n) \/ DownloadFails(n) PROVE StageInv'
  BY <1>14, <1>15 DEF Analyse, DownloadFails
<1>16. ASSUME NEW n \in Notices, AnalysisRefused(n) PROVE StageInv'
  BY <1>16, <1>s DEF AnalysisRefused, Visit, db, history
<1>17. CASE EndStage
  <2>1. row' \in [Notices -> Row] /\ \A n \in Notices : row'[n].polygon # "unset" => row'[n].adres
    BY <1>17 DEF EndStage, ParcelsHaveAddress, TypeOK
  <2>2. ParcelsHaveAddress'
    BY <1>17, <2>1 DEF EndStage, ParcelsHaveAddress
  <2> QED BY <1>17, <2>2 DEF EndStage, SelectionHolds, PdfIsStored
<1>18. CASE Die
  BY <1>18 DEF Die, SelectionHolds, ParcelsHaveAddress, PdfIsStored, db
<1>19. CASE UNCHANGED vars
  BY <1>19, <1>s DEF vars, db, session, history
<1> QED BY <1>1, <1>2, <1>3, <1>4, <1>5, <1>6, <1>7, <1>8, <1>9, <1>11, <1>12, <1>13,
           <1>15, <1>16, <1>17, <1>18, <1>19 DEF Next, Progress

(* Both invariants hold in every state of the specification.               *)
LEMMA Invariants == Spec => [](TypeOK /\ StageInv)
<1>1. Init => TypeOK /\ StageInv
  BY InitTypes, InitStages
<1>2. (TypeOK /\ StageInv) /\ [Next]_vars => (TypeOK /\ StageInv)'
  BY NextTypes, NextStages DEF StageInv
<1> QED BY <1>1, <1>2, PTL DEF Spec

-----------------------------------------------------------------------------
(* The theorems.                                                           *)

(* Tables, transaction and process keep their types; in particular only LH *)
(* notices get supply rows, and only real attachments are analysed.        *)
THEOREM EnrichmentTypeCorrect == Spec => []TypeOK
BY Invariants, PTL

(* No row ever has a parcel without an address, whatever upserts overwrite *)
(* between the stages and whichever transaction is aborted.                *)
THEOREM PolygonsHaveAddresses == Spec => []PolygonHasAddress
<1>1. StageInv => PolygonHasAddress
  BY DEF StageInv, ParcelsHaveAddress, PolygonHasAddress
<1> QED BY <1>1, Invariants, PTL

(* A good analysis is replaced for other attachments only: the pdf stage   *)
(* is the only writer, and its selection holds until it visits the row.    *)
THEOREM GoodAnalysesAreKept == Spec => GoodAnalysisIsKept
<1>1. TypeOK /\ StageInv /\ [Next]_vars => [RedoneForOtherFiles]_vars
  <2> SUFFICES ASSUME TypeOK, StageInv, [Next]_vars PROVE RedoneForOtherFiles
    OBVIOUS
  <2>1. CASE UNCHANGED analysis
    BY <2>1 DEF RedoneForOtherFiles
  <2>2. ASSUME NEW n \in Notices, NEW good, StoreAnalysis(n, good) PROVE RedoneForOtherFiles
    <3>1. \A m \in Notices \ {n} : analysis'[m] = analysis[m]
      BY <2>2 DEF StoreAnalysis, TypeOK
    <3>2. analysis[n] # [of |-> row[n].detail, ok |-> TRUE]
      BY <2>2 DEF StoreAnalysis, Visit, StageInv, SelectionHolds, NeedsAnalysis
    <3>3. analysis[n].ok => analysis[n] = [of |-> analysis[n].of, ok |-> TRUE]
      BY <2>2 DEF TypeOK, Analyses, Unanalysed
    <3> QED BY <3>1, <3>2, <3>3 DEF RedoneForOtherFiles
  <2>3. UNCHANGED analysis \/ \E n \in Notices, good \in BOOLEAN : StoreAnalysis(n, good)
    BY DEF Next, Progress, Edit, StartRun, UpsertNotices, UpsertPartly, UpsertListed, EvaluateAll,
           SelectRows, StoreSupply, StoreDetail, StorePolygon, StoreGhDetail, StoreGhNothing,
           FetchFails, StatementRefused, Analyse, DownloadFails, AnalysisRefused, EndStage, Die,
           vars, db
  <2> QED BY <2>1, <2>2, <2>3
<1> QED BY <1>1, Invariants, PTL DEF Spec, GoodAnalysisIsKept

(* When the pdf stage ends, every notice it has answered is stored, however *)
(* many statements PostgreSQL has refused meanwhile.                       *)
THEOREM PdfFailuresAreIsolated == Spec => PdfFailureIsIsolated
<1>1. StageInv => [PdfEndsWithAnswers]_vars
  BY DEF StageInv, PdfIsStored, PdfEndsWithAnswers
<1> QED BY <1>1, Invariants, PTL DEF Spec, PdfFailureIsIsolated
=============================================================================
