----------------------------- MODULE Enrichment -----------------------------
(***************************************************************************)
(* The five enrich_* stages of src/pipeline.py over the columns they fill: *)
(* raw["_lh_detail"], raw["_gh_detail"], raw["_polygon"] and hsslpy_adres  *)
(* of notice, the LH rows of notice_house_type, and notice_analysis.  One  *)
(* batch process; every run begins with an upsert that overwrites raw and  *)
(* the address of each listed notice, and a stage's updates are one        *)
(* transaction, except supply and pdf, which commit notice by notice.      *)
(***************************************************************************)
EXTENDS Integers, FiniteSets

CONSTANTS
  Notices,    \* global notice ids
  LH, GH,     \* those of the two sources with details and attachments
  Addressed,  \* notices whose list row carries an address
  Located,    \* LH notices whose detail answer carries an address
  Broken,     \* notices with an attachment that can never be analysed
  Date,       \* notice -> rcrit_pblanc_de, 0 for date.min
  Cap,        \* _MAX_ANALYZE_PER_RUN
  VWorld,     \* settings.vworld_key is set
  MaxEdits,   \* bound: changes of a list, of the filter's answer, of attachments
  MaxFaults   \* bound: failed requests, refused statements, deaths

ASSUME ConstantsAssumption ==
  /\ LH \subseteq Notices /\ GH \subseteq Notices /\ LH \cap GH = {}
  /\ Addressed \subseteq Notices /\ Located \subseteq LH /\ Broken \subseteq Notices
  /\ Date \in [Notices -> Nat]
  /\ Cap \in Nat \ {0}
  /\ VWorld \in BOOLEAN
  /\ MaxEdits \in Nat /\ MaxFaults \in Nat

VARIABLES
  (* the world *)
  listed,    \* notices on their source's list now
  fits,      \* notices the filter lets through now
  attached,  \* notice -> the set of attachment URLs on its page, "none" if empty
  edits, faults,
  (* the database *)
  row,       \* notice -> what its row of notice holds
  matched,   \* match_result.matched
  supply,    \* LH notices with rows in notice_house_type
  analysis,  \* notice -> its row of notice_analysis
  (* the process *)
  pc,        \* the stage it is in
  selected,  \* the stage has read its rows
  todo,      \* those it has not visited yet
  staged,    \* the rows as its open transaction has updated them
  aborted,   \* PostgreSQL has refused a statement of the open transaction
  (* history, read by no action *)
  known,     \* notices whose "_polygon" was committed at some time
  answered   \* notices this stage had an answer for and did not itself fail on

world   == <<listed, fits, attached, edits>>
db      == <<row, matched, supply, analysis>>
session == <<selected, todo, staged, aborted>>
history == <<known, answered>>
vars    == <<world, faults, db, pc, session, history>>

Urls == {"none", "a", "b"}
Row == [stored  : BOOLEAN,
        adres   : BOOLEAN,
        detail  : Urls \cup {"unset"},
        viewer  : BOOLEAN,
        polygon : {"unset", "none", "found"}]
Unanalysed == [of |-> "unset", ok |-> FALSE]
Analyses == [of : Urls \ {"none"}, ok : BOOLEAN] \cup {Unanalysed}

Stages == {"supply", "detail", "polygon", "gh", "pdf"}

TypeOK ==
  /\ listed \subseteq Notices
  /\ fits \subseteq Notices
  /\ attached \in [Notices -> Urls]
  /\ edits \in 0..MaxEdits
  /\ faults \in 0..MaxFaults
  /\ row \in [Notices -> Row]
  /\ matched \subseteq Notices
  /\ supply \subseteq LH
  /\ analysis \in [Notices -> Analyses]
  /\ pc \in Stages \cup {"idle", "upsert", "evaluate"}
  /\ selected \in BOOLEAN
  /\ todo \subseteq Notices
  /\ staged \in [Notices -> Row]
  /\ aborted \in BOOLEAN
  /\ known \subseteq Notices
  /\ answered \subseteq Notices

(* What upsert_notices writes for a listed notice: raw is the list's row,  *)
(* so every key the stages added is gone, and so is the detail's address.  *)
Fresh(n) ==
  [stored |-> TRUE, adres |-> n \in Addressed, detail |-> "unset",
   viewer |-> FALSE, polygon |-> "unset"]

(* Every page starts with one set of attachments; Edit changes or empties  *)
(* it.                                                                     *)
Init ==
  /\ listed \in SUBSET Notices
  /\ fits \in SUBSET Notices
  /\ attached = [n \in Notices |-> "a"]
  /\ edits = 0
  /\ faults = 0
  /\ row = [n \in Notices |-> [Fresh(n) EXCEPT !.stored = FALSE]]
  /\ matched = {}
  /\ supply = {}
  /\ analysis = [n \in Notices |-> Unanalysed]
  /\ pc = "idle"
  /\ selected = FALSE
  /\ todo = {}
  /\ staged = row
  /\ aborted = FALSE
  /\ known = {}
  /\ answered = {}
-----------------------------------------------------------------------------
(* The world. *)

Edit ==
  /\ edits < MaxEdits
  /\ edits' = edits + 1
  /\ \E n \in Notices :
       \/ /\ listed' \in {listed \cup {n}, listed \ {n}}
          /\ UNCHANGED <<fits, attached>>
       \/ /\ fits' \in {fits \cup {n}, fits \ {n}}
          /\ UNCHANGED <<listed, attached>>
       \/ /\ \E u \in Urls : attached' = [attached EXCEPT ![n] = u]
          /\ UNCHANGED <<listed, fits>>
  /\ UNCHANGED <<faults, db, pc, session, history>>

Fault ==
  /\ faults < MaxFaults
  /\ faults' = faults + 1
-----------------------------------------------------------------------------
(* The run before the stages. *)

StartRun ==
  /\ pc = "idle"
  /\ pc' = "upsert"
  /\ UNCHANGED <<world, faults, db, session, history>>

(* Mutant: the upsert keeps what the stages put into raw.                  *)
UpsertKeepingRaw(ok) ==
  /\ pc = "upsert"
  /\ pc' = "evaluate"
  /\ row' = [n \in Notices |->
       IF n \in listed \cap ok THEN [row[n] EXCEPT !.stored = TRUE, !.adres = n \in Addressed]
       ELSE row[n]]
  /\ staged' = row'
  /\ UNCHANGED <<world, matched, supply, analysis, selected, todo, aborted, history>>

(* The lists that were fetched (ok) overwrite their rows; a row that is    *)
(* not on a fetched list stays as it is.                                   *)
UpsertListed(ok) ==
  /\ pc = "upsert"
  /\ pc' = "evaluate"
  /\ row' = [n \in Notices |-> IF n \in listed \cap ok THEN Fresh(n) ELSE row[n]]
  /\ staged' = row'
  /\ UNCHANGED <<world, matched, supply, analysis, selected, todo, aborted, history>>

UpsertNotices == UpsertListed(Notices) /\ UNCHANGED faults

(* A source fails: _safe puts an empty list in its place.                  *)
UpsertPartly ==
  /\ Fault
  /\ \E sources \in SUBSET {LH, GH, Notices \ (LH \cup GH)} : UpsertListed(UNION sources)

EvaluateAll ==
  /\ pc = "evaluate"
  /\ pc' = "supply"
  /\ matched' = {n \in fits : row[n].stored}
  /\ UNCHANGED <<world, faults, row, supply, analysis, session, history>>
-----------------------------------------------------------------------------
(* A stage: select its rows, visit them one by one, commit. *)

NeedsDetail(n) == row[n].detail = "unset" \/ row[n].viewer

(* Mutant: the skip of what is analysed already is lost.                   *)
NeedsAnalysisAgain(n) == row[n].stored

NeedsAnalysis(n) == analysis[n] # [of |-> row[n].detail, ok |-> TRUE]

(* Mutant: an empty list of attachments is a candidate too.                *)
CandidatesWithoutFiles ==
  {n \in LH \cup GH : row[n].detail # "unset" /\ NeedsAnalysis(n)}

Candidates ==
  {n \in LH \cup GH : row[n].detail \notin {"unset", "none"} /\ NeedsAnalysis(n)}

(* Sorted by date, newest first, and cut at the cap: the cut is the        *)
(* database's where dates are equal.                                       *)
Batches(S) ==
  {B \in SUBSET S :
     /\ Cardinality(B) = IF Cardinality(S) < Cap THEN Cardinality(S) ELSE Cap
     /\ \A n \in B, m \in S \ B : Date[n] >= Date[m]}

Rows(stage) ==
  CASE stage = "supply"  -> {(LH \cap matched) \ supply}
    [] stage = "detail"  -> {{n \in LH \cap matched : NeedsDetail(n)}}
    [] stage = "polygon" ->
         {{n \in matched : VWorld /\ row[n].polygon = "unset" /\ row[n].adres}}
    [] stage = "gh"      -> {{n \in GH : row[n].stored /\ row[n].detail = "unset"}}
    [] stage = "pdf"     -> Batches(Candidates)

SelectRows ==
  /\ pc \in Stages
  /\ ~selected
  /\ selected' = TRUE
  /\ todo' \in Rows(pc)
  /\ UNCHANGED <<world, faults, db, pc, staged, aborted, history>>

Visit(stage, n) ==
  /\ pc = stage
  /\ n \in todo
  /\ todo' = todo \ {n}

(* A statement in the stage's transaction: once one was refused, every     *)
(* later one raises too, and the loop catches that and goes on.            *)
Write(n, r) ==
  /\ staged' = IF aborted THEN staged ELSE [staged EXCEPT ![n] = r]
  /\ answered' = answered \cup {n}

StoreSupply(n) ==
  /\ ~aborted
  /\ Visit("supply", n)
  /\ supply' = supply \cup {n}
  /\ answered' = answered \cup {n}
  /\ UNCHANGED <<world, faults, row, matched, analysis, pc, selected, staged,
                 aborted, known>>

StoreDetail(n) ==
  /\ Visit("detail", n)
  /\ \E v \in BOOLEAN :
       Write(n, [row[n] EXCEPT !.detail = attached[n], !.viewer = v,
                               !.adres = @ \/ n \in Located])
  /\ UNCHANGED <<world, faults, db, pc, selected, aborted, known>>

StorePolygon(n) ==
  /\ Visit("polygon", n)
  /\ \E g \in {"none", "found"} : Write(n, [row[n] EXCEPT !.polygon = g])
  /\ UNCHANGED <<world, faults, db, pc, selected, aborted, known>>

(* A failed request is caught in fetch_gh_detail_files and stored as an    *)
(* empty list of attachments.                                              *)
StoreGhDetail(n) ==
  /\ Visit("gh", n)
  /\ Write(n, [row[n] EXCEPT !.detail = attached[n]])
  /\ UNCHANGED <<world, faults, db, pc, selected, aborted, known>>

StoreGhNothing(n) ==
  /\ Fault
  /\ Visit("gh", n)
  /\ Write(n, [row[n] EXCEPT !.detail = "none"])
  /\ UNCHANGED <<world, db, pc, selected, aborted, known>>

(* No answer, an error answer or an exception: the notice is passed over.  *)
FetchFails(n) ==
  /\ \E stage \in {"supply", "detail"} : Visit(stage, n)
  /\ pc = "supply" => ~aborted
  /\ Fault
  /\ UNCHANGED <<world, db, pc, selected, staged, aborted, history>>

(* PostgreSQL refuses the statement (a value JSONB does not take): the     *)
(* exception is caught, but the transaction stays aborted.                 *)
StatementRefused(n) ==
  /\ ~aborted
  /\ \E stage \in Stages \ {"pdf"} : Visit(stage, n)
  /\ Fault
  /\ aborted' = TRUE
  /\ UNCHANGED <<world, db, pc, selected, staged, history>>

Newest(S) == {n \in S : \A m \in S : Date[n] >= Date[m]}

(* upsert_notice_analysis and a commit of its own, whatever the files      *)
(* gave; an aborted transaction would refuse both.                         *)
StoreAnalysis(n, good) ==
  /\ n \in Newest(todo)
  /\ Visit("pdf", n)
  /\ analysis' = IF aborted THEN analysis
                 ELSE [analysis EXCEPT ![n] = [of |-> row[n].detail, ok |-> good]]
  /\ answered' = answered \cup {n}
  /\ UNCHANGED <<world, row, matched, supply, pc, selected, staged, aborted, known>>

Analyse(n) == StoreAnalysis(n, n \notin Broken) /\ UNCHANGED faults

DownloadFails(n) == Fault /\ StoreAnalysis(n, FALSE)

(* Mutant: the loop before its rollback.                                   *)
AnalysisRefusedWithoutRollback(n) ==
  /\ ~aborted
  /\ n \in Newest(todo)
  /\ Visit("pdf", n)
  /\ Fault
  /\ aborted' = TRUE
  /\ UNCHANGED <<world, db, pc, selected, staged, history>>

(* The statement is refused: rollback, and on with the next notice.        *)
AnalysisRefused(n) ==
  /\ n \in Newest(todo)
  /\ Visit("pdf", n)
  /\ Fault
  /\ UNCHANGED <<world, db, pc, selected, staged, aborted, history>>

(* Mutant: polygons before the details.                                    *)
AfterSwapped(stage) ==
  CASE stage = "supply"  -> "polygon"
    [] stage = "polygon" -> "detail"
    [] stage = "detail"  -> "gh"
    [] stage = "gh"      -> "pdf"
    [] stage = "pdf"     -> "idle"

After(stage) ==
  CASE stage = "supply"  -> "detail"
    [] stage = "detail"  -> "polygon"
    [] stage = "polygon" -> "gh"
    [] stage = "gh"      -> "pdf"
    [] stage = "pdf"     -> "idle"

(* session.commit() after the loop; of an aborted transaction PostgreSQL   *)
(* makes a rollback.  In the supply stage the next notice's query, outside *)
(* the try, raises and _safe ends the stage.                               *)
EndStage ==
  /\ selected
  /\ todo = {} \/ (pc = "supply" /\ aborted)
  /\ row' = IF aborted THEN row ELSE staged
  /\ known' = known \cup {n \in Notices : row'[n].polygon # "unset"}
  /\ pc' = After(pc)
  /\ selected' = FALSE
  /\ todo' = {}
  /\ staged' = row'
  /\ aborted' = FALSE
  /\ answered' = {}
  /\ UNCHANGED <<world, faults, matched, supply, analysis>>

Die ==
  /\ pc # "idle"
  /\ Fault
  /\ pc' = "idle"
  /\ selected' = FALSE
  /\ todo' = {}
  /\ staged' = row
  /\ aborted' = FALSE
  /\ answered' = {}
  /\ UNCHANGED <<world, db, known>>
-----------------------------------------------------------------------------
(* The steps of a run that meets no fault. *)
Progress ==
  \/ StartRun
  \/ UpsertNotices
  \/ EvaluateAll
  \/ SelectRows
  \/ \E n \in Notices :
       \/ StoreSupply(n)
       \/ StoreDetail(n)
       \/ StorePolygon(n)
       \/ StoreGhDetail(n)
       \/ Analyse(n)
  \/ EndStage

Next ==
  \/ Edit
  \/ Progress
  \/ UpsertPartly
  \/ \E n \in Notices :
       \/ StoreGhNothing(n)
       \/ FetchFails(n)
       \/ StatementRefused(n)
       \/ DownloadFails(n)
       \/ AnalysisRefused(n)
  \/ Die

Spec == Init /\ [][Next]_vars

(* The timer starts the next run and a run goes on. *)
FairSpec == Spec /\ WF_vars(Progress)
-----------------------------------------------------------------------------
(* Properties. *)

(* A parcel is never shown for a notice without an address: raw["_polygon"] *)
(* and hsslpy_adres are written by different stages and lost together.     *)
PolygonHasAddress ==
  \A n \in Notices : row[n].polygon # "unset" => row[n].adres

(* An analysis without a failed file is redone only for other attachments  *)
(* (_needs_pdf_analysis), so a bad download never takes its place.         *)
RedoneForOtherFiles ==
  \A n \in Notices :
    analysis[n].ok /\ analysis'[n] # analysis[n] => row[n].detail # analysis[n].of
GoodAnalysisIsKept == [][RedoneForOtherFiles]_vars

(* pipeline.py, enrich_pdf_summaries: a refused statement is isolated by   *)
(* the rollback and successes are final at once.  Whatever was answered in *)
(* the stage is stored when it ends.                                       *)
PdfEndsWithAnswers ==
  pc = "pdf" /\ EndStage => \A n \in answered : analysis[n].of = row[n].detail
PdfFailureIsIsolated == [][PdfEndsWithAnswers]_vars

(* tests/test_pipeline.py: "one failure skips only that notice".  When a   *)
(* stage of one transaction ends, every notice that was answered is stored. *)
StageEndsWithAnswers ==
  pc \in {"detail", "polygon", "gh"} /\ EndStage =>
    \A n \in answered : row'[n] # row[n]
FailureSkipsOnlyItsNotice == [][StageEndsWithAnswers]_vars

(* tests/test_pipeline.py, pipeline.py: the stored "_polygon", empty or    *)
(* not, is a sentinel against looking the address up again.                *)
LooksUpUnknown == \A n \in known : ~StorePolygon(n)
PolygonLookedUpOnce == [][LooksUpUnknown]_vars

(* A notice that stays on its list with attachments that can be analysed   *)
(* (for LH: and stays matched) ends up analysed, as long as fewer notices  *)
(* than the cap, as new or newer, have a file that never can be.           *)
Analysable(n) ==
  /\ n \in listed
  /\ n \in GH \cup (LH \cap fits)
  /\ n \notin Broken
  /\ attached[n] # "none"
  /\ Cardinality({m \in Broken \ {n} : Date[m] >= Date[n]}) < Cap
Analysed ==
  \A n \in Notices :
    <>[]Analysable(n) => <>[](analysis[n] = [of |-> attached[n], ok |-> TRUE])

(* Each run finds the parcel of a matched notice anew, also when only the  *)
(* detail page knows its address: the detail comes before the polygon.     *)
Mappable(n) ==
  /\ VWorld
  /\ n \in listed \cap fits
  /\ n \in Addressed \cup Located
Mapped ==
  \A n \in Notices : <>[]Mappable(n) => []<>(row[n].polygon # "unset")
=============================================================================
