------------------------------ MODULE Pipeline ------------------------------
(***************************************************************************)
(* The collection batch of src/pipeline.py (run_batch, --backfill,         *)
(* --no-notify) over the PostgreSQL tables notice, notice_house_type,      *)
(* match_result and notify_log, one action per committed transaction or    *)
(* external call.  A process may die, and a DB call may raise, at every    *)
(* point in between; what was committed before stays.                      *)
(*                                                                         *)
(* What the five enrich_* stages write (notice.raw, hsslpy_adres, LH house *)
(* types without prices, notice_analysis) is never read by evaluate_all's  *)
(* filter nor by the notifier, so here they are one stage between the      *)
(* evaluation and the notification; module Enrichment has their state.     *)
(***************************************************************************)
EXTENDS Integers, Sequences, FiniteSets

CONSTANTS
  Procs,        \* processes that run `python -m src.pipeline`
  Modes,        \* the command lines in use, among "notify", "no-notify", "backfill"
  Notices,      \* global notice ids, <source>:<native>
  UpsertOrder,  \* the sources and "house_types", in the order run_batch stores them
  Source,       \* notice -> its source
  House,        \* notice -> house_manage_no, "" for none
  Name,         \* notice -> its name without [correction] prefixes and blanks
  Prefixes,     \* notice -> how many such prefixes its name carries
  Published,    \* notice -> rcrit_pblanc_de or rcept_bgnde, 0 for neither
  Number,       \* notice -> place of its pblanc_no in the order of texts
  Deadline,     \* notice -> rcept_endde, NoDeadline for a NULL column
  Special,      \* notice -> spsply_rcept_endde, likewise
  Pricey,       \* notices whose house types fail the price or special-supply filter
  Poison,       \* notices whose message Telegram always refuses
  MaxDay,       \* bound: last day of the model
  MaxEdits,     \* bound: number of times a listing changes
  MaxFaults     \* bound: failed fetches, failed sends, lost answers, deaths

Feeds == {UpsertOrder[i] : i \in 1..Len(UpsertOrder)}

(* A NULL date comes after every other in ORDER BY rcept_endde.            *)
NoDeadline == MaxDay + 1

ASSUME ConstantsAssumption ==
  /\ Modes \subseteq {"notify", "no-notify", "backfill"}
  /\ UpsertOrder \in Seq(STRING)
  /\ Source \in [Notices -> STRING \ {"house_types"}]
  /\ House \in [Notices -> STRING] /\ Name \in [Notices -> STRING]
  /\ Prefixes \in [Notices -> Nat] /\ Published \in [Notices -> Nat]
  /\ Number \in [Notices -> Nat]
  /\ \A n, m \in Notices : Number[n] = Number[m] => n = m  \* the primary key
  /\ MaxDay \in Nat \ {0}
  /\ Deadline \in [Notices -> 1..NoDeadline]
  /\ Special \in [Notices -> 1..NoDeadline]
  /\ MaxEdits \in Nat
  /\ MaxFaults \in Nat

VARIABLES
  (* the world *)
  listing,     \* what each source's list page says of a notice now
  today,       \* date.today()
  edits,       \* number of listing changes so far
  faults,      \* number of faults so far
  (* the database *)
  stored,      \* notice rows: "absent", or the content last upserted
  priced,      \* notices with rows in notice_house_type that carry prices
  match,       \* match_result.matched, "none" without a row
  log,         \* notify_log rows of channel telegram
  (* each process *)
  pc,          \* where run_batch is
  mode,        \* its command line
  step,        \* index in UpsertOrder of the next upsert
  fetched,     \* the notices the collectors returned
  types,       \* the notices whose house types were returned
  verdict,     \* evaluate_all's results before they are saved
  todo,        \* the rest of the pending list the loop iterates over
  cur,         \* the set holding the notice sent and not yet recorded
  (* history, read by no action *)
  sent,        \* messages that reached the chat, per process and notice
  unrecorded,  \* those of them whose notify_log row was never written
  waived       \* notices recorded by --backfill without a message

world   == <<listing, today, edits>>
db      == <<stored, priced, match, log>>
locals  == <<mode, step, fetched, types, verdict, todo, cur>>
history == <<sent, unrecorded, waived>>
vars    == <<world, faults, db, pc, locals, history>>

Content  == {"fit", "unfit"}        \* passes match_notice's content filters or not
Listing  == Content \cup {"absent"}
Verdicts == {"none", "yes", "no"}
Stages   == {"idle", "fetch", "upsert", "evaluate", "save", "enrich",
             "pending", "notify", "mark", "backfill"}

Nothing  == [n \in Notices |-> "absent"]
Unjudged == [n \in Notices |-> "none"]

TypeOK ==
  /\ listing \in [Notices -> Listing]
  /\ today \in 1..MaxDay
  /\ edits \in 0..MaxEdits
  /\ faults \in 0..MaxFaults
  /\ stored \in [Notices -> Listing]
  /\ priced \subseteq Notices
  /\ match \in [Notices -> Verdicts]
  /\ log \subseteq Notices
  /\ pc \in [Procs -> Stages]
  /\ mode \in [Procs -> Modes \cup {"none"}]
  /\ step \in [Procs -> 1..Len(UpsertOrder) + 1]
  /\ fetched \in [Procs -> [Notices -> Listing]]
  /\ types \in [Procs -> SUBSET Notices]
  /\ verdict \in [Procs -> [Notices -> Verdicts]]
  /\ todo \in [Procs -> SUBSET Notices]
  /\ cur \in [Procs -> SUBSET Notices]
  /\ sent \in [Procs -> [Notices -> Nat]]
  /\ unrecorded \in [Procs -> [Notices -> Nat]]
  /\ waived \subseteq Notices

Init ==
  /\ listing \in [Notices -> Listing]
  /\ today = 1
  /\ edits = 0
  /\ faults = 0
  /\ stored = Nothing
  /\ priced = {}
  /\ match = Unjudged
  /\ log = {}
  /\ pc = [p \in Procs |-> "idle"]
  /\ mode = [p \in Procs |-> "none"]
  /\ step = [p \in Procs |-> 1]
  /\ fetched = [p \in Procs |-> Nothing]
  /\ types = [p \in Procs |-> {}]
  /\ verdict = [p \in Procs |-> Unjudged]
  /\ todo = [p \in Procs |-> {}]
  /\ cur = [p \in Procs |-> {}]
  /\ sent = [p \in Procs |-> [n \in Notices |-> 0]]
  /\ unrecorded = [p \in Procs |-> [n \in Notices |-> 0]]
  /\ waived = {}
-----------------------------------------------------------------------------
(* What evaluate_all computes from the tables. *)

Stored == {n \in Notices : stored[n] # "absent"}

(* find_superseded over a set S of notices: a member of a group gives way  *)
(* to any later one, but a group by name counts only with a correction in, *)
(* and a notice without a name is in none.                                 *)
Key(n) == IF House[n] # "" THEN <<House[n]>> ELSE <<Source[n], Name[n]>>
Later(m, n) ==
  \/ Published[m] > Published[n]
  \/ Published[m] = Published[n] /\ Prefixes[m] > Prefixes[n]
  \/ Published[m] = Published[n] /\ Prefixes[m] = Prefixes[n] /\ Number[m] > Number[n]
Grouped(n, S) ==
  \/ House[n] # ""
  \/ Name[n] # "" /\ \E c \in S : Key(c) = Key(n) /\ Prefixes[c] > 0
Superseded(S) ==
  {n \in S : Grouped(n, S) /\ \E m \in S : Key(m) = Key(n) /\ Later(m, n)}

(* Mutant: the last day itself is closed.                                  *)
OpenUntilLastDay(n) ==
  LET ends == {Deadline[n], Special[n]} \ {NoDeadline}
  IN  ends = {} \/ \E d \in ends : d > today

(* The later of the two ends of reception counts, none means open.         *)
Open(n) ==
  LET ends == {Deadline[n], Special[n]} \ {NoDeadline}
  IN  ends = {} \/ \E d \in ends : d >= today

(* Prices and special supply count only once the house types are stored:   *)
(* without them both filters are held back.                                *)
Affordable(n) == n \in Pricey => n \notin priced

(* Variants no code has (mutants): a match_result that keeps the reason in *)
(* place of the boolean, and a filter that has lost find_superseded.       *)
JudgeWithReason(n) ==
  CASE n \notin Stored -> "none"
    [] n \in Superseded(Stored) -> "superseded"
    [] n \in Stored \ Superseded(Stored) /\ stored[n] = "fit" /\ Affordable(n) /\ Open(n) -> "yes"
    [] OTHER -> "no"
JudgeAlone(n) ==
  CASE n \notin Stored -> "none"
    [] n \in Stored /\ stored[n] = "fit" /\ Affordable(n) /\ Open(n) -> "yes"
    [] OTHER -> "no"

Judge(n) ==
  CASE n \notin Stored -> "none"
    [] n \in Stored /\ n \notin Superseded(Stored)
         /\ stored[n] = "fit" /\ Affordable(n) /\ Open(n) -> "yes"
    [] OTHER -> "no"

(* Mutant: notify_log is not looked at.                                    *)
PendingUnlogged == {n \in Notices : match[n] = "yes"}

(* pending_notifications: matched and without a notify_log row.            *)
Pending == {n \in Notices : match[n] = "yes" /\ n \notin log}

(* Mutant: ORDER BY rcept_endde DESC.                                      *)
HeadsDescending(S) == {n \in S : \A m \in S : Deadline[n] >= Deadline[m]}

(* The loop's next notices: the list is ordered by rcept_endde, and the    *)
(* order of equal dates is the database's.                                 *)
Heads(S) == {n \in S : \A m \in S : Deadline[n] <= Deadline[m]}
-----------------------------------------------------------------------------
(* The world. *)

Publish ==
  /\ edits < MaxEdits
  /\ \E n \in Notices, c \in Listing :
       /\ c # listing[n]
       /\ listing' = [listing EXCEPT ![n] = c]
  /\ edits' = edits + 1
  /\ UNCHANGED <<today, faults, db, pc, locals, history>>

Tick ==
  /\ today < MaxDay
  /\ today' = today + 1
  /\ UNCHANGED <<listing, edits, faults, db, pc, locals, history>>
-----------------------------------------------------------------------------
(* One batch run. *)

Goto(p, from, to) ==
  /\ pc[p] = from
  /\ pc' = [pc EXCEPT ![p] = to]

(* The process exits: its memory is gone.                                  *)
Exit(p) ==
  /\ pc' = [pc EXCEPT ![p] = "idle"]
  /\ mode' = [mode EXCEPT ![p] = "none"]
  /\ step' = [step EXCEPT ![p] = 1]
  /\ fetched' = [fetched EXCEPT ![p] = Nothing]
  /\ types' = [types EXCEPT ![p] = {}]
  /\ verdict' = [verdict EXCEPT ![p] = Unjudged]
  /\ todo' = [todo EXCEPT ![p] = {}]
  /\ cur' = [cur EXCEPT ![p] = {}]

Fault ==
  /\ faults < MaxFaults
  /\ faults' = faults + 1

(* main and init_db: a run begins, by the timer or by hand.                *)
StartRun(p, m) ==
  /\ Goto(p, "idle", "fetch")
  /\ mode' = [mode EXCEPT ![p] = m]
  /\ UNCHANGED <<world, faults, db, step, fetched, types, verdict, todo, cur,
                 history>>

(* The seven collectors, each under _safe: a failed one yields an empty    *)
(* list and the others are kept.                                           *)
FetchFrom(p, ok) ==
  /\ Goto(p, "fetch", "upsert")
  /\ fetched' = [fetched EXCEPT ![p] =
       [n \in Notices |-> IF Source[n] \in ok THEN listing[n] ELSE "absent"]]
  /\ types' = [types EXCEPT ![p] =
       IF "house_types" \in ok
       THEN {n \in Notices : Source[n] = "applyhome" /\ listing[n] # "absent"}
       ELSE {}]
  /\ UNCHANGED <<world, db, mode, step, verdict, todo, cur, history>>

Fetch(p) == FetchFrom(p, Feeds) /\ UNCHANGED faults

FetchPartly(p) == Fault /\ \E ok \in SUBSET Feeds : ok # Feeds /\ FetchFrom(p, ok)

Upserting(p, s) ==
  /\ pc[p] = "upsert"
  /\ step[p] <= Len(UpsertOrder)
  /\ UpsertOrder[step[p]] = s
  /\ step' = [step EXCEPT ![p] = @ + 1]

(* upsert_notices: every column of a returned notice is overwritten; a     *)
(* notice no longer listed stays.                                          *)
UpsertNotices(p) ==
  \E s \in Feeds \ {"house_types"} :
    /\ Upserting(p, s)
    /\ stored' = [n \in Notices |->
         IF Source[n] = s /\ fetched[p][n] # "absent" THEN fetched[p][n] ELSE stored[n]]
    /\ UNCHANGED <<world, faults, priced, match, log, pc, mode, fetched, types,
                   verdict, todo, cur, history>>

UpsertHouseTypes(p) ==
  /\ Upserting(p, "house_types")
  /\ priced' = priced \cup types[p]
  /\ UNCHANGED <<world, faults, stored, match, log, pc, mode, fetched, types,
                 verdict, todo, cur, history>>

UpsertsDone(p) ==
  /\ step[p] > Len(UpsertOrder)
  /\ Goto(p, "upsert", "evaluate")
  /\ UNCHANGED <<world, faults, db, locals, history>>

(* evaluate_all judges every stored notice from what it reads ...          *)
EvaluateRead(p) ==
  /\ Goto(p, "evaluate", "save")
  /\ verdict' = [verdict EXCEPT ![p] = [n \in Notices |-> Judge(n)]]
  /\ UNCHANGED <<world, faults, db, mode, step, fetched, types, todo, cur, history>>

(* Mutant: ON CONFLICT DO NOTHING keeps the first verdict for good.        *)
SaveFirstResults(p) ==
  /\ Goto(p, "save", "enrich")
  /\ match' = [n \in Notices |-> IF match[n] = "none" THEN verdict[p][n] ELSE match[n]]
  /\ UNCHANGED <<world, faults, stored, priced, log, locals, history>>

(* ... and save_match_results writes all verdicts in one transaction.      *)
SaveMatchResults(p) ==
  /\ Goto(p, "save", "enrich")
  /\ match' = [n \in Notices |->
       IF verdict[p][n] # "none" THEN verdict[p][n] ELSE match[n]]
  /\ UNCHANGED <<world, faults, stored, priced, log, locals, history>>

(* The enrich_* stages, then notify_new_matches, backfill_notified or the  *)
(* end of the run, as the command line says.                               *)
EnrichThenNotify(p) ==
  /\ mode[p] # "no-notify"
  /\ Goto(p, "enrich", "pending")
  /\ UNCHANGED <<world, faults, db, locals, history>>

EnrichThenExit(p) ==
  /\ pc[p] = "enrich"
  /\ mode[p] = "no-notify"
  /\ Exit(p)
  /\ UNCHANGED <<world, faults, db, history>>

(* pending_notifications: the loops below iterate over this list, read     *)
(* once.                                                                   *)
PendingNotifications(p) ==
  /\ Goto(p, "pending", IF mode[p] = "backfill" THEN "backfill" ELSE "notify")
  /\ todo' = [todo EXCEPT ![p] = Pending]
  /\ UNCHANGED <<world, faults, db, mode, step, fetched, types, verdict, cur, history>>

(* notify_new_matches: send, and only then record.                         *)
SendTelegram(p) ==
  /\ Goto(p, "notify", "mark")
  /\ \E n \in Heads(todo[p]) \ Poison :
       /\ todo' = [todo EXCEPT ![p] = @ \ {n}]
       /\ cur' = [cur EXCEPT ![p] = {n}]
       /\ sent' = [sent EXCEPT ![p][n] = @ + 1]
  /\ UNCHANGED <<world, faults, db, mode, step, fetched, types, verdict, unrecorded, waived>>

(* Mutant: a refusal is not raised, and the notice is marked all the same. *)
SendRefusedUnseen(p) ==
  /\ Goto(p, "notify", "mark")
  /\ \E n \in Heads(todo[p]) \cap Poison :
       /\ todo' = [todo EXCEPT ![p] = @ \ {n}]
       /\ cur' = [cur EXCEPT ![p] = {n}]
  /\ UNCHANGED <<world, faults, db, mode, step, fetched, types, verdict, history>>

(* Telegram refuses this message (HTTP >= 400) whenever it is tried: the   *)
(* exception leaves the loop and ends the run.                             *)
SendRefused(p) ==
  /\ pc[p] = "notify"
  /\ Heads(todo[p]) \cap Poison # {}
  /\ Exit(p)
  /\ UNCHANGED <<world, faults, db, history>>

(* The message arrives and the answer does not (a timeout, or an           *)
(* unreadable body): an exception all the same, and nothing is recorded.   *)
SendAnswerLost(p) ==
  /\ pc[p] = "notify"
  /\ Fault
  /\ \E n \in Heads(todo[p]) \ Poison :
       /\ sent' = [sent EXCEPT ![p][n] = @ + 1]
       /\ unrecorded' = [unrecorded EXCEPT ![p][n] = @ + 1]
  /\ Exit(p)
  /\ UNCHANGED <<world, db, waived>>

(* Mutant: the unsent list is recorded in one statement, the rest of it    *)
(* before its messages are sent.                                           *)
MarkAllNotified(p) ==
  /\ Goto(p, "mark", "notify")
  /\ log' = log \cup cur[p] \cup todo[p]
  /\ cur' = [cur EXCEPT ![p] = {}]
  /\ UNCHANGED <<world, faults, stored, priced, match, mode, step, fetched, types,
                 verdict, todo, history>>

MarkNotified(p) ==
  /\ Goto(p, "mark", "notify")
  /\ log' = log \cup cur[p]
  /\ cur' = [cur EXCEPT ![p] = {}]
  /\ UNCHANGED <<world, faults, stored, priced, match, mode, step, fetched, types,
                 verdict, todo, history>>

(* backfill_notified records the pending notices without sending them.     *)
BackfillMark(p) ==
  /\ pc[p] = "backfill"
  /\ \E n \in Heads(todo[p]) :
       /\ todo' = [todo EXCEPT ![p] = @ \ {n}]
       /\ log' = log \cup {n}
       /\ waived' = waived \cup {n}
  /\ UNCHANGED <<world, faults, stored, priced, match, pc, mode, step, fetched, types,
                 verdict, cur, sent, unrecorded>>

LoopDone(p) ==
  /\ pc[p] \in {"notify", "backfill"}
  /\ todo[p] = {}
  /\ Exit(p)
  /\ UNCHANGED <<world, faults, db, history>>

(* The process dies, or a call outside every try raises: an upsert, the    *)
(* evaluation, a refused send, mark_notified.                              *)
Die(p) ==
  /\ pc[p] # "idle"
  /\ Fault
  /\ unrecorded' = [unrecorded EXCEPT ![p] =
       [n \in Notices |-> IF n \in cur[p] THEN @[n] + 1 ELSE @[n]]]
  /\ Exit(p)
  /\ UNCHANGED <<world, db, sent, waived>>
-----------------------------------------------------------------------------
(* The steps of a run that meets no fault. *)
Progress(p) ==
  \/ Fetch(p)
  \/ UpsertNotices(p)
  \/ UpsertHouseTypes(p)
  \/ UpsertsDone(p)
  \/ EvaluateRead(p)
  \/ SaveMatchResults(p)
  \/ EnrichThenNotify(p)
  \/ EnrichThenExit(p)
  \/ PendingNotifications(p)
  \/ SendTelegram(p)
  \/ SendRefused(p)
  \/ MarkNotified(p)
  \/ BackfillMark(p)
  \/ LoopDone(p)

Next ==
  \/ Publish
  \/ Tick
  \/ \E p \in Procs :
       \/ \E m \in Modes : StartRun(p, m)
       \/ Progress(p)
       \/ FetchPartly(p)
       \/ SendAnswerLost(p)
       \/ Die(p)

(* The timer starts a notifying run twice a day whatever is run by hand,   *)
(* a started run goes on, and days pass.                                   *)
Fairness ==
  /\ WF_vars(Tick)
  /\ \A p \in Procs : WF_vars(Progress(p)) /\ SF_vars(StartRun(p, "notify"))

Spec == Init /\ [][Next]_vars
FairSpec == Spec /\ Fairness
-----------------------------------------------------------------------------
(* Properties. *)

SentNow(n) == \E p \in Procs : sent'[p][n] > sent[p][n]

(* No notice is in notify_log unless a message about it reached the chat   *)
(* or --backfill put it there, whatever is interrupted (send, then mark).  *)
RecordedWasHandled ==
  \A n \in log : n \in waived \/ \E p \in Procs : sent[p][n] > 0

(* A process repeats a message only after a loss of the record of an       *)
(* earlier one: dying between send and mark, or an answer that never came. *)
ResendNeedsLostRecord ==
  \A p \in Procs, n \in Notices : sent[p][n] <= unrecorded[p][n] + 1

(* README.md, Notify: "Each notice fires exactly once (dedup)".            *)
FiresAtMostOnce ==
  \A n \in Notices, p \in Procs : sent[p][n] <= 1

(* In match_result a correction that has been evaluated hides every        *)
(* earlier notice of its group, also when runs die between an upsert and   *)
(* the evaluation that follows it.                                         *)
Evaluated == {n \in Notices : match[n] # "none"}
CorrectionHidesOriginal ==
  \A n \in Superseded(Evaluated) : match[n] = "no"

(* The list read by pending_notifications is never stale when a notice is  *)
(* sent from it: the notice is still unrecorded, and the tables as they    *)
(* are now would still match it (its day apart: midnight may pass).        *)
SendIsCurrent ==
  \A n \in Notices : SentNow(n) =>
    /\ n \in Pending
    /\ n \in Stored \ Superseded(Stored)
    /\ stored[n] = "fit"
    /\ Affordable(n)
SendsAreCurrent == [][SendIsCurrent]_vars

(* Messages go out by the nearest end of reception: none overtakes a       *)
(* pending notice that closes earlier, across refusals, deaths and runs.   *)
SendIsNearest ==
  \A n \in Notices : SentNow(n) => \A m \in Pending : Deadline[n] <= Deadline[m]
NearestDeadlineFirst == [][SendIsNearest]_vars

(* A notice that stays on its list, fits, is affordable, has a last day of *)
(* either reception ahead or today, or none, and has no listed correction  *)
(* after it is in the end announced or waived, unless a refused message    *)
(* stays in front of it: a refusal ends the loop for all that follow, and  *)
(* is over only when its notice closes.                                    *)
Deserving(n) ==
  /\ listing[n] = "fit"
  /\ Affordable(n)
  /\ \/ Deadline[n] = NoDeadline /\ Special[n] = NoDeadline
     \/ \E d \in today..MaxDay : d \in {Deadline[n], Special[n]}
  /\ n \notin Superseded({m \in Notices : m \in Stored \/ listing[m] # "absent"})
Blocked(n) ==
  \E m \in Poison : m \in Pending /\ Deadline[m] <= Deadline[n]
Announced ==
  \A n \in Notices :
    <>[](Deserving(n) /\ ~Blocked(n)) => <>(n \in log)

(* A single process (the timer's oneshot unit, nothing run by hand beside  *)
(* it) implements the abstract promise.                                    *)
Promise == INSTANCE Outbox WITH
  Senders <- Procs, Messages <- Notices,
  delivered <- sent, excused <- waived, closed <- log
KeepsPromise == Promise!Spec
=============================================================================
