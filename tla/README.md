# Verification of chungyak-alimi

TLA+ models of the housing-announcement notifier in this repository, the TLC runs that
check them on small instances, and TLAPS proofs of what matters most for all instances.
Paths below are paths of the repository.

## 1. The system

A batch (`python -m src.pipeline`, started by `systemd/chungyak-collect.timer` at 08:00 and
20:00, `Persistent=true`, a oneshot unit) collects announcements from six sources, stores
and judges them, enriches them and announces new matches by Telegram. A web application
(FastAPI, one uvicorn worker, `Restart=always`) shows them to members. Both work on one
PostgreSQL database and talk through nothing else.

| Component | Code | State | Operations | What makes it correct |
| --- | --- | --- | --- | --- |
| Batch | `src/pipeline.py` | none of its own; the run's position and lists in memory | `run_batch`, `backfill_notified`, `main` | a death at any point leaves tables the next run can go on from |
| Notifier | `src/notify.py` | `notify_log` | pending list, send, mark | recorded means announced or waived; repeats only after a lost record; nearest deadline first; everything deserving is announced |
| Enrichment | `src/pipeline.py` `enrich_*` | keys in `notice.raw`, `hsslpy_adres`, LH rows of `notice_house_type`, `notice_analysis` | five stages | failures stay with their notice; what upserts wipe is restored; the cap starves nobody |
| Notice store | `src/db.py` | `notice`, `notice_house_type`, `match_result`, `notify_log`, `notice_analysis` | upserts, `evaluate_all`, `save_match_results` | results follow the rows they were computed from |
| Filter | `src/filters.py` | none | `find_superseded`, `match_notice` | one notice of a correction chain remains; boundaries of the dates |
| Migration | `src/db.py` `init_db`, `migrate_global_ids`, `_ensure_bookmark_member_scope` | the ids of all tables, owner and key of `bookmark` | run at each start of web, batch and scripts | idempotent; all tables agree on the ids; no bookmark lost, nothing announced again; the next start succeeds |
| Members | `src/members.py`, `scripts/seed_member.py` | `member`, `member_profile` | create, authenticate, update | one member per address, always with a profile |
| Login, registration | `src/web/auth.py` | session cookie | register, login, logout | the race of two registrations |
| Onboarding, profile | `src/web/onboarding.py`, `src/web/forms.py`, `src/web/app.py` | `onboarding_step`, profile columns | three steps, profile form | progress never goes back; history and region list agree |
| Dashboard, bookmarks | `src/web/app.py` | `bookmark` | add, remove, list, pages | idempotent, per member |
| Scoring, regions | `src/scoring.py`, `src/regions.py` | none | points, ranks, region match | boundaries of dates, months and caps |
| Password policy | `src/password_policy.py` | none | `validate_password` | windows and repetitions |
| PDF summary | `src/analysis.py` | none | `summarize` | caps |
| Collectors | `src/collectors/*` | none; the page, the board and the numbers seen of one request series | fetch a list page by page and board by board | nothing twice, nothing that stays listed missed, an end |

How they interact: the batch calls the collectors under `_safe` (a failed one yields an
empty list), stores their lists source by source, judges all stored notices, runs the
enrichment stages under `_safe`, then sends. Web requests read what the batch wrote and
write only members, profiles and bookmarks. `init_db` runs at the start of both.

Hard behaviour: deaths and failed statements between two commits; a message delivered
whose record is lost; a message Telegram always refuses; a hand-started batch beside the
timer's; rows overwritten by each upsert; a cap on work per run with work that never
succeeds; dates passing between judging and sending; lists that change between the
requests of two pages; several processes starting a new release on the database of an
old one whose batch is still at work.
`PROJECT.json` lists these hazards at their lines.

## 2. Modules

| Module | Stands for |
| --- | --- |
| `Outbox` | abstract promise of the notifier: deliver at least once, then record; or waive; never deliver what is recorded |
| `Pipeline` | the batch over the four tables, one action per commit or external call |
| `PipelineProofs` | theorems about `Pipeline` |
| `MCPipeline` | instances of `Pipeline` |
| `Enrichment` | the five enrichment stages over repeated runs |
| `EnrichmentProofs` | theorems about `Enrichment` |
| `MCEnrichment` | instances of `Enrichment` |
| `Collectors` | the list requests of the six sources while the lists change, and what is stored of them |
| `CollectorsProofs` | theorems about `Collectors` |
| `MCCollectors` | an instance of `Collectors` |
| `Migration` | the start of this release on an earlier one's database, composed with batches, the announcer and bookmark requests |
| `MigrationProofs` | theorems about `Migration` |
| `MCMigration` | an instance of `Migration` |
| `Accounts` | abstract promise to the owner of an address: an account is made at once, entered with its password, changed from within |
| `Members` | accounts and profiles under overlapping web requests and the seed script |
| `MembersProofs` | theorems about `Members` |
| `MembersRefinement` | the proof that `Members` implements `Accounts` |
| `MCMembers` | an instance of `Members` |
| `Scoring` | points, ranks and special supply of a member and a notice, and the regions they compare |
| `ScoringProofs` | theorems about `Scoring` |
| `MCScoring` | instances of `Scoring` |

Definitions marked "Mutant" or "variants no code has" are plausible bugs kept to show that
each property can fail: replacing the definition after them by the variant violates the
property named in `PROJECT.json`. They are used by no specification.

### Pipeline

State: the world (`listing`: what each list says of a notice now, `today`), the tables
(`stored`, `priced`, `match`, `log`), each process's position and memory (`pc`, `mode`,
`step`, `fetched`, `types`, `verdict`, `todo`, `cur`) and history variables no action reads
(`sent`, `unrecorded`, `waived`).

| Action | Code |
| --- | --- |
| `StartRun` | `main`, `init_db` |
| `Fetch`, `FetchPartly` | the seven `_safe(fetch_...)` calls; a failed one is an empty list |
| `UpsertNotices`, `UpsertHouseTypes`, `UpsertsDone` | the seven upserts in their order, each its own transaction |
| `EvaluateRead`, `SaveMatchResults` | `evaluate_all`: read and judge, then one transaction |
| `EnrichThenNotify`, `EnrichThenExit` | the enrichment, then what the command line says |
| `PendingNotifications` | the list both loops iterate over, read once |
| `SendTelegram`, `MarkNotified` | the loop of `notify_new_matches` |
| `SendRefused`, `SendAnswerLost` | an exception of `send_telegram`, before or after delivery |
| `BackfillMark`, `LoopDone` | `backfill_notified`, the end of either loop |
| `Die` | a death, or an exception outside every `try` |
| `Publish`, `Tick` | an agency changes a list; a day passes |

Abstractions: a notice's columns are one answer of the content filters (`fit`, `unfit`) plus
what the properties tell apart: what `find_superseded` groups and orders it by (number of the
house, name, prefixes, day, id), its two dates, whether its house types would fail a filter. A NULL date is `NoDeadline`, a day after
the last one. `EvaluateRead` reads all tables at once; the code reads house types notice
by notice, which differs only when two batches overlap. The five enrichment stages write
nothing `evaluate_all`'s filter or the notifier's selection reads (LH house types carry no
price and no special-supply key), so they are one step here. A missing Telegram token is a
send that fails (`Die` at `notify`).

### Enrichment

State: the world (`listed`, `fits`, `attached`), the rows (`row[n]`: stored, address, detail
with its set of attachment URLs, an unresolved viewer image, polygon), `matched`, `supply`,
`analysis`, and the run (`pc`, `selected`, `todo`, `staged`, `aborted`). `staged` is the open
transaction's copy of the rows: `EndStage` commits it, or drops it when PostgreSQL refused a
statement, because a commit of an aborted transaction is a rollback. The supply and PDF
stages commit notice by notice instead.

| Action | Code |
| --- | --- |
| `UpsertNotices`, `UpsertPartly` | `upsert_notices`: listed rows lose every added key and the address |
| `EvaluateAll` | `evaluate_all`, reduced to which stored notices match |
| `SelectRows` | a stage's select and its skip conditions; for `pdf` also the sort and the cap |
| `StoreSupply`, `StoreDetail`, `StorePolygon`, `StoreGhDetail`, `StoreGhNothing` | one notice's answer and its statement |
| `FetchFails`, `StatementRefused` | the `except` of a notice: no answer, or a refused statement |
| `Analyse`, `DownloadFails`, `AnalysisRefused` | one notice of the PDF stage: stored, stored with a failed file, rolled back |
| `EndStage`, `Die` | the commit after the loop; a death |

Abstractions: the attachments of a notice are one set of URLs out of a few, an analysis is
good when every file is; house types of LH are present or not; notices of other sources
have no stage but the polygon.

### Collectors

A behaviour is about one source, chosen at first; the sources share nothing. State: the
agency's lists (`list`: the rows of each board, newest first), the collector (`at`, the
request to make next `board`, `page`, and `out`, what it has taken with the place it was read
at), `stored` (the ids of the source's rows) and history no action reads (`moved`, `failed`).

| Action | Code |
| --- | --- |
| `Post`, `Withdraw`, `Close`, `Link` | the agency (external): a new row on top, a row gone, a lease no longer recruiting, a link added |
| `StartFetch` | the call of the collector in `run_batch` |
| `ReadPage` | one request and its rows: those that do not validate or were seen before are left out, then the next page, the next board or the end |
| `AnswersError` | status 200 with an error code (`_ss_ok`, `resultCode`), NetFunnel's queue, an answer without rows: the board is over |
| `TotalMissing` | MyHome's unreadable `totalCount` counts as 0 |
| `RequestFails` | an exception: `_safe` puts an empty list for the whole source |
| `Store`, `Die` | `upsert_notices`; a death before it |

A board is a supply type of LH, rent or sale of MyHome, lease or sale of SH; LH's types are
two here instead of four. `Key` is what a collector makes `pblanc_no` of; for HUG `Group`
stands for date and region. Cheongyak Home's price and house-type lists are read in the
same way and belong to `Pipeline`. HUG without an API key returns an empty list at once;
the model assumes the key is set. Rows, not their text, are modelled: parsing of HTML and
JSON is external, with `Unreadable` for rows that do not validate; they count as read, as in
the code. MyHome's answers also lose elements that are no JSON objects, before the length of the
page is looked at (`_items`, `src/collectors/myhome.py:131`): the model assumes its lists hold
none, for such a page would end the paging early.

### Migration

State: the ids in each table (`notice`, `child` for the three tables that follow it,
`bookmark` with members), `key` (the columns of the bookmark's primary key), `members`,
where each process is (`proc`), the rows an open renaming has changed (`held`, in `bookmark`
`marks`), what a batch has read (`todo`), the bookmark requests between their look and their
insertion (`request`) and history no action reads (`sent`, `late`). The processes are the web
server, the job (what the timer or somebody starts: this release's batch, or a script),
further `Scripts` beside it, and the batch of the earlier release, which a deployment does
not stop. An id is the notice and whether its source stands in front.

| Action | Code |
| --- | --- |
| `Schema` | `init_db` up to `_ensure_bookmark_member_scope`: owner of the early bookmarks, key |
| `FillNativeIds` | the two `UPDATE notice` at the head of `migrate_global_ids`, which lock the rows an earlier release stored |
| `RenameIn`, `RenameBookmarks` | one `UPDATE` of the loop over the tables |
| `CommitIds` | the last `UPDATE notice` and the commit, after which the process goes on |
| `StartRefused`, `BreakDeadlock` | a unique violation, or a deadlock of row locks, that ends the start |
| `Collect` | the upserts of notices and house types, with or without `global_id` |
| `Judge`, `SaveResults` | `evaluate_all`, `save_match_results` |
| `ReadPending`, `Announce`, `EndRun` | `pending_notifications`, the loop of `notify_new_matches` |
| `Register`, `ScriptEnds` | `create_member` by web or seed script; the other script |
| `PutBookmark`, `AddBookmark` | `bookmark_add`: the look and the insertion apart; the page it comes from may be older than the last start |
| `RemoveBookmark` | `bookmark_remove` |
| `Die` | a death, or a start PostgreSQL aborts to break a deadlock of table locks |

`migrate_global_ids` is one transaction with a statement per table. Under READ COMMITTED each
statement sees what is committed when it runs, and others see what it writes only after the
commit: so each renaming action takes the rows whose bare id names a notice at that moment into
`held` or `marks`, without changing the tables, and `CommitIds` changes exactly those. What is
committed to a table after its statement has come past keeps its id. Until the commit those
who would change a held row, or insert the id it is to get, wait (`WaitsFor` between renamings,
`Free` for the batch, the guards of the bookmark actions); a wait is not a state of its own, the
waiting action is taken once it may be, as of a lock that is acquired in one step. `ALTER TABLE`
needs its tables alone, so `Schema` waits for open renamings and for requests that have looked
at `notice`; the locks it takes itself are held for one step. The last statement and the
commit are one step because nothing they change can be seen or changed by others in between.

House types have a list of their own and may come without their notice; such a row keeps
its bare id, as the code's join does. `native_id` and `agency` are not modelled, and neither is
`notice_analysis`: the table is younger than the ids with a source, so no row of it was
ever bare. `migrate_global_bookmarks_to_member` has no caller. What the filter decides is
`Pipeline`'s subject: here every stored notice matches.

`late` marks behaviours in which a renaming began while the earlier release's batch was still at
work: from then on that batch may store a bare id again, and every later start is refused
(`StartRefused`), web server included. `IdsAgree`, `AnnouncedOnce`, `StartsAreNotRefused` and
`WebComesUp` leave these behaviours out; `src/plans/multi-source-collectors/plan.md:41` counts on
`init_db` to prevent the coexistence, which it does for this release's own processes only.
`BookmarkingWorks` holds there as well. `ShownBookmarksAreKept` holds there with one exception it
names (`Overlooked`): while a renaming has passed `bookmark` and not committed, a bookmark set on a
bare notice of that batch, or an old one whose bare notice the batch stores again, is
committed and shown; the commit renames the notice and not the bookmark, which leaves the page
(`src/db.py:416` to `426`). Without `late` this cannot happen: the web server answers only after a
start has renamed everything, and then nothing bare is left to bookmark or to rename.

### Members

State: the tables (`members`, `email`, `hash` for `member`; `profiles`, `profile` for
`member_profile`; `seq`, its identity sequence), each actor's request (`request`: where it is
and the row it has inserted but not committed), each browser's cookie (`session`) and history
variables no action reads (`shown`, `refused`, `writer`). The actors are browsers and
`scripts/seed_member.py`.

| Action | Code |
| --- | --- |
| `Register` | `register_submit` up to the hashing: policy, first look |
| `RunSeed` | `seed_member`: first look, then create or go on with the account |
| `LookAgain`, `Insert`, `Commit` | `create_member`: second look, `flush`, commit, each a moment of its own |
| `SeedUpdate` | the script's `update_profile` |
| `Login`, `Answer`, `AnswerLost`, `Logout` | `login_submit`, the redirect that carries the cookie, its loss, `logout` |
| `OnboardScalars`, `OnboardRegions` | onboarding steps 1 and 2; step 3 with what `update_profile` derives |
| `SaveProfile`, `ChangePassword` | the two forms of the profile page |
| `ServerDies`, `SeedDies` | a process dies; its open transaction is rolled back |

`register_submit` and `login_submit` run in the thread pool, so the statements of two
requests interleave. PostgreSQL lets an insertion wait while another transaction holds the
same address uncommitted (the guard of `Insert`), and hands out an id even to a refused
one. The handlers of the forms are coroutines without an `await` between read and commit, so
each is one step of the single worker. Abstractions: of a profile only the columns the
properties tell apart are kept; the region list is a set; addresses are model values and
`_norm_email` a function from what is typed to what is stored. A browser has one request
at a time; two tabs that share a cookie are not modelled.

`Accounts` says what all this is to an owner: `KeepsAccounts` maps the rows and transactions to the
password of each address (that of its committed row), the requests about to answer to `proof`,
and the cookies to the address they lead to. A registration, its two looks, its insertion and a
refused retry, becomes one `Create` at the commit; the deaths become `Forget`.

### Scoring

State: the day somebody asks (`today`), the member's profile and the notice. Nothing is stored;
the one action, `Later`, asks again on a later day, so that a property can relate two days.
Everything else is an operator of day, profile and notice.

| Operator | Code |
| --- | --- |
| `Elapsed`, `HalfYears`, `WholeYears`, `FullMonths` | `_full_years` and what its callers compare, `_full_months` |
| `NormalizeRegion`, `RegionMatches` | `normalize_region`, `region_matches` |
| `HomelessPoints`, `DependentsPoints`, `AccountPoints`, `Total` | `homeless_years`, `score_points` |
| `Regulated`, `Capital`, `RequiredDeposit` | `_is_regulated`, `_public_area_group`, `_deposit_group`, `_required_deposit` |
| `JudgeRank`, `JudgeRankPublic`, `Judgement` | `judge_rank`, `judge_rank_public` and the end they share |
| `IncomeTier`, `JudgeNewlywed`, `JudgeFirstLife` | `_income_pct` with `_income_tier`, `judge_newlywed`, `judge_first_life` |
| `HousingType`, `BatchRank`, `DashboardItem` | `_housing_type`, the rank `evaluate_all` stores, the one `member_dashboard` shows |

Abstractions: a date is a year from 1, a month and a day the month has, as `datetime.date` admits,
with its number in the calendar; a span is a
number of days. A year of `_full_years` is 365.25 = 1461/4 days. The code divides in floating
point and compares with 0.5, 1, 2, 7 and whole numbers; 365.25 and its products with these are
exact, so a quotient reaches a bound exactly when the number of days does, and the model
compares days. The percentages of `_income_pct` are compared with whole numbers in the same
way; at the bounds the run uses the double is exact. A place is a province and a city;
long and short names of a province are one place. Areas of flats are whole square metres. A
reason is a tag. Profiles are those of the member table; the batch judges the one of
`config/profile.yaml`, which has the same fields.

## 3. Runs

| Run | Instance | Shows |
| --- | --- | --- |
| `pipeline_safety` | one process, all command lines, an LH notice, its correction and a Cheongyak Home notice whose house types fail a filter; 2 days, 1 change, 2 faults | types, `CorrectionHidesOriginal`, `SendsAreCurrent`, `NearestDeadlineFirst`, and that `Pipeline` implements `Outbox` (`KeepsPromise`) |
| `pipeline_overlap` | two processes, notify and backfill, a refused message, 1 fault | `RecordedWasHandled`, `ResendNeedsLostRecord`: the two invariants that survive overlapping batches |
| `pipeline_liveness` | one process, a message that is always refused, 2 days, 1 change, 1 fault | `Announced` |
| `exactly_once` | one process, 2 days, no change, 1 fault | the README's "exactly once" fails: a counterexample |
| `enrichment` | two LH notices (the newest can never be analysed) and a GH notice, cap 2, 1 change, 1 fault | `PolygonHasAddress`, `GoodAnalysisIsKept`, `PdfFailureIsIsolated`, `Analysed`, `Mapped` |
| `isolation` | the same, 1 fault | one refused statement loses the other notices' answers: a counterexample |
| `sentinel` | the same, no fault | a stored polygon is looked up again by the next run: a counterexample |
| `members` | two browsers and the seed script over two addresses, one typed in two ways; 3 forms, 2 faults | types, `OneAccountPerAddress`, `CookieLeadsHome`, `RaceLostOnce`, `AccountsAreKept`, `PartnersMatchPreference`, `ProgressNeverFalls`, `RegionsFollowHistory`, and that `Members` implements `Accounts` (`KeepsAccounts`) |
| `scoring` | 319 profiles that vary one group of columns at a time around the bounds, 7 notices, 22 days | `ScoreInRange`, `RankIgnoresRegions`, `RegulationIsStricter`, `MonthsAreCalendarMonths`, `IncomeNeverHelps`, `WaitingHelps` |
| `collectors` | every source in turn; pages of two rows, at most two, lists of up to three rows at first and five later, one row that does not validate, two pairs that HUG counts into one each; 2 changes, 1 fault | `TakenOnce`, `SteadyRowsAreTaken`, `EventuallyStored` |
| `migration` | one notice with every subset of rows an earlier release can have left for it, its batch at work or over; 2 members, web server and job, 1 request at a time, 1 fault | types, `IdsAgree`, `AnnouncedOnce`, `StartsAreNotRefused`, `ShownBookmarksAreKept`, `BookmarkingWorks`, `WebComesUp` |
| `newlywed` | the married profiles, the same days | a couple is turned away on its seventh anniversary: a counterexample |

Bounds. Three notices are enough for a correction chain beside an unrelated notice (the
correction bears the day of the original and the lower id, so that only its prefix makes it
the later one), for a pending list with a middle element, and for two notices of one transaction beside one of
another. Two days give a deadline that passes and one that does not. One change suffices
for each way a world may move under a stored row; two faults let a run die, and the run that
repairs it die as well. The runs go round until the bounded counters are spent, so any
number of fault-free batches follows. Deadlock is checked in these runs: the timer can
always start the next batch.

For `members` three forms are enough for two registrations of one address beside a seed run of
it, for a refused insertion that uses up an id followed by a success, and for a profile
written by one form and then by the other. Browsers are interchangeable, in `Accounts` as
well, and the run checks only invariants and what single steps do, so symmetry is sound. Every form spends the bound
`MaxForms`; when it is spent and nobody has an account to log in to the model stops, so
deadlock is not checked there. `seq < MaxForms` in `Insert` stops nothing, for every form
inserts at most once.

For `scoring` the days lie on both sides of half a year, one, two and fifteen years of an account,
of month ends and leap days, of a 30th birthday and of a seventh anniversary; amounts,
counts and incomes on both sides of every bound of the tables. Groups of columns that no
rule relates are varied apart. The model stops on its last day, so deadlock is not checked.

For `collectors` two changes are enough for a posting that pushes a row over a page boundary
and a withdrawal that pulls one up, in either order and on either board; lists of three
and more rows reach a second page, and those of five stand beyond the last. Rows do not
interact but by their numbers and places, so four postings with one pair per group and one
unreadable among them meet every case of `Again` and `Skipped`. When changes are spent the
batch still goes round, so deadlock is checked, as in `migration`.

For `migration` one notice is enough because rows of different notices never meet: ids of two
notices differ before and after. Two members tell the owner of the early bookmarks from a later
one; one request at a time already overlaps every start. One fault lets any process die
anywhere, a start between any two statements included. Web server and job are two starts that
overlap in every order, and the job is also each of the scripts, so `Scripts` is empty. The
theorems hold for any number of scripts, notices, members, requests and faults. `sent` stops
counting at two, which changes nothing an action reads.

Fairness. `Pipeline`: `WF` of a run's next step (a started run goes on), `SF` of starting a
notifying run (the timer fires twice a day whatever is run by hand, and a oneshot unit is
started whenever it is idle), `WF` of the passing day. `Enrichment`: `WF` of a run's next step,
with the start among them. `Collectors`: `WF` of the batch's next step. `Migration`: the job is
started again and again (timer) and so is the web server: systemd starts it after every exit
(`Restart=always`), and with `RestartSec=5` it never reaches systemd's limit of five starts in
ten seconds. The steps of both starts have `SF`, because a start that waits for a lock is in
PostgreSQL's queue and gets its turn although others come and go; the batch's and the script's
further steps, a bookmark request that has looked and the renaming of a script that has begun
have `WF`: they go on. Nothing is fair about the starts of further scripts, the earlier batch,
members or agencies. Faults are never fair and are bounded, so what is shown is that the system
recovers when faults end. A refused message is a constant property of the notice and not a
fault; so is an attachment that can never be analysed.

Counterexamples that are findings. (1) A message is repeated after its record was lost
(`src/notify.py:82`): what holds is at-least-once. (2) `enrich_lh_detail`, `enrich_polygons` and
`enrich_gh_detail` have no rollback: one refused statement discards the stage's work; it is
retried in the next run. (3) The `_polygon` sentinel lives in `raw`, which the next upsert
overwrites. (4) `newlywed_period_exceeded` counts seven years as 7 * 365.25 days: with two leap
days in between the anniversary itself is already too late, although form and docstring say
"within 7 years"; for marriages of 1901 to 2092 no other day is judged wrongly
(`SevenYearsErrOnTheAnniversaryOnly`). Some limits are conditions of properties rather than
findings: `Announced` excludes notices behind a refused message, `Analysed` those behind as many
unreadable newer ones as the cap, `EventuallyStored` and `SteadyRowsAreTaken` rows beyond
`max_pages`, and four properties of `Migration` the behaviours with `late`.

## 4. Proofs

`PipelineProofs` proves with TLAPS, for any processes, notices, dates, orders and bounds:

* `TypeCorrect`: `Spec => []TypeOK`.
* `RecordedHandled`, `ResendsAccounted`: the two invariants of the notifier, for any number
  of overlapping batches. Neither is inductive: to send once more is allowed only to a
  process that has no unrecorded copy in hand, and to record only what was sent. `Ledger`
  adds this: `cur` is empty outside `mark`, is never still on the list and holds only
  what was sent; and a process that may yet send a notice (it is on its list, or
  unrecorded and not in `cur`) has sent it at most as often as it lost its record.
* `CorrectionsHide`, `SendsCurrent`, `NearestFirst`, `ImplementsOutbox`: under
  `Alone` (one process; an assumption of each theorem). The inductive invariant is `Currency`:
  the verdicts about to be saved, and from then on `match_result`, agree with the tables
  (`Faithful`); in the loops the rest of the list together with `cur` is exactly the
  pending set; and only stored notices have a result. With a second process `Currency` is
  false: it can save old verdicts over new ones, or record what the first is about to send.
* `OneOfAGroupRemains` and `OneOfAChainIsMatched`: day, prefixes and id order the notices totally
  (`LaterIsTotal`, from the primary key alone), so each finite group of `find_superseded` has one
  latest notice (`LastElement`, from the well-foundedness of finite subsets), which hides all
  others; with `CorrectionsHide` this means that `match_result` never matches two of a chain.
* The refinement of `Outbox` follows from `Ledger` and `Currency`: `SendTelegram` and
  `SendAnswerLost` map to `Deliver`, `MarkNotified` to `Record`, `BackfillMark` to `Waive`, and
  every other action to a stutter.

`MembersProofs` proves every property of the run `members`, for any browsers, addresses,
passwords, regions and bounds (`MembersTypeCorrect`, `AccountsAreUnique`, `CookiesLeadHome`,
`RacesAreLostOnce`, `PartnersMatch`, `RegionsAreDerived`, `ProgressIsKept`,
`AccountsStayTheirOwners`). The inductive invariant `AccountInv` adds to the properties:

* `StagedIds`: an uncommitted row has an id the sequence has handed out, of no account and of
  no other uncommitted row. Without it a commit could overwrite an account.
* `StagedAddresses`: its address is neither taken nor that of another uncommitted row. This
  is where the waiting of the unique constraint is needed.
* `FoundAccounts`: a request about to answer holds the id of the account of its address.
* `RaceInv`: whoever met an exception on an address finds it taken for good, so that the first
  look stops the next attempt; an actor still creating an account has met none on its address.
* `ProfileInv`: the two properties of profiles, over every id and not only those in use.

The steps are first sorted by what they do to accounts and requests (`StepKinds`,
`ProfileSteps`, `AccountSteps`), so that each invariant is checked against a few kinds.

`MembersRefinement` proves `ImplementsAccounts`, `Spec => KeepsAccounts`, from `AccountInv`. One more
invariant is needed, `Filled`: an inserted row carries a password of its address, and one
inserted by a browser a password the policy accepts, for `Create` promises that and `Commit`
looks at neither. `StepSeen` then follows each kind of step to the abstract action it is, or to
a stutter: `Commit` of a browser to `Create` and of the script to `Appoint`, where `StagedAddresses`
is why the address has no account yet; `Login` to `Prove`, `Answer` to `Enter`, lost answers and the
death of the server to `Forget`, `Logout` to `Leave`, `ChangePassword` to `Change`; the looks, the
insertion, the profile forms and the script's update are seen by nobody. `OneAccountPerAddress`
makes the password of an address one value throughout.

`ScoringProofs` proves every property of the run `scoring`, for any days, profiles and notices:
`PointsStayInRange`, `RanksIgnoreRegions`, `RegulationNeverHelps`, `EarningMoreNeverHelps`,
`MonthsAreThoseOfTheCalendar` and `WaitingNeverCosts`. No inductive invariant is needed beyond the
types: the properties hold of every day, or of two days in their order, by themselves. The
lemmas carry the argument. `OrdinalsFollowTheCalendar` says that the numbers of days are ordered
as year, month and day are, for every date of the calendar: a year ends before the next begins
(`NextYear`, from the quotients by 4, 100 and 400), a month within its year (`MonthsOfYear`). On it
rest the months of an account (`MonthsOfCalendar`) and what waiting does: no months or days get
fewer (`MonthsGrow`, `SpansGrow`), so no points (`PointsGrow`) and no first rank is lost
(`FirstIsKept`). `SevenYearsErrOnTheAnniversaryOnly` bounds the finding of the run `newlywed`: seven
years hold at most two leap days, and from 1901 to 2099 at least one (`LeapsOfSevenYears`), so that
7 * 365.25 days end the day before the anniversary or on it. Before it no couple is turned
away, after it every couple married in 1901 to 2092; a couple married around a century year without
a leap day may gain one day. Further, spans and months are natural numbers (`ElapsedType`, `MonthsType`), the rank
depends only on the reasons found before the area is looked at (`RankOfReasons`), a first
rank is one without such a reason (`FirstRank`), lifting the regulation lowers each
threshold and changes nothing else (`Unregulated`), and tiers fall as the income grows
(`TiersFall`).

`EnrichmentProofs` proves `EnrichmentTypeCorrect`, `PolygonsHaveAddresses`, `GoodAnalysesAreKept`
and `PdfFailuresAreIsolated` for any notices, attachments, cap and bounds. `StageInv` adds to
`PolygonHasAddress` what holds inside a run: a stage's remaining rows are still fit for it
(`SelectionHolds`: the polygon stage has addresses, the PDF stage attachments and no good
analysis of them), the rows of the open transaction have a parcel only with an address
(`ParcelsHaveAddress`), and what the PDF stage has answered is stored (`PdfIsStored`). Without
the first, a good analysis could be replaced by a stage whose selection is out of date.

`MigrationProofs` proves `MigrationTypeCorrect`, `IdsAlwaysAgree`, `AnnouncedOnlyOnce`,
`NoStartIsRefused` and `BookmarksAreKept` for any notices, scripts, members, requests and faults.
`IdInv` says that, unless `late`, one of two situations holds: `Before`, all ids (those of house types
without a notice included) are bare and no process of this release is beyond its start, so nobody
stores ids with a source or answers members; or `After`, no notice has a bare id and the
earlier batch is over. `Before` carries `Gathered`: every row a renaming would have to rename
in a table it has passed is among those it holds, for nobody can have added one. `Linked`
says that whatever is stored, read or about to be inserted names a stored notice, `Recorded` that
what was announced once is recorded and no longer on any list, `NothingLeft` that only a process
between reading and using holds a list. The step that leads from `Before` to `After` is `CommitIds`:
`Gathered` is why the held rows are all of them, `Linked` why every row then follows its notice,
`NothingLeft` why no list of bare ids survives it. `NoStartIsRefused` follows: before, no id
with a source exists that a renaming could meet; after, no notice is left to rename.
`RenamingSettles` is the idempotence that the docstring of `migrate_global_ids` claims: after any
commit of a renaming, another would change no row and not be refused, with `late` as well and
whatever was committed behind its statements: `notice` comes last, and what a row of another
table joins decides whether it moves. `BookmarksAreKept` includes `late`. Its one hard step is the
commit (`CommitKeeps`): a bookmark whose id has its source stays, a held one moves with its
notice, and one that is bare and not held contradicts `Gathered` unless `late`, where it is
`Overlooked`.

`CollectorsProofs` proves `CollectorsTypeCorrect`, `NothingIsTakenTwice` and
`SteadyRowsAreNotMissed` for any lists, groups, page sizes, caps and bounds. `Steady` says how
far each board has been read (`Upto`) and that every row down to there that did not move is
taken. It survives every change of the lists because a row that is not touched never moves up
(`EditHolds`), a page because its first row of each number is taken (`PageIsTaken`, from the
least number of a set), and the end of a board because a short page, the total or the
cap leave nothing within reach (`LastPageReaches`). `RunsStoreWhatTheyReach` carries it to the
table: what a run's boards offered within reach is stored by its upsert, and no step takes
an id out again.

The assumptions are `ConstantsAssumption`, `MigrationAssumption`, `CollectorsAssumption`
and `ListsAssumption` (types of the constants; in `Pipeline` also that two
notices differ in their `pblanc_no`) and, where stated, `Alone`.

Model-checked only: liveness (`Announced`, `Analysed`, `Mapped`, `EventuallyStored`,
`BookmarkingWorks`, `WebComesUp`), which the prover does not reach. Every invariant, every
property of steps and every refinement that a passing run checks is also a theorem.

## 5. Not modelled

* Password policy (`src/password_policy.py`) and PDF text summary (`src/analysis.py`): pure rules
  over the characters of one text, without state or steps. Which analyses are made, kept
  and retried is `Enrichment`.
* Wire models and settings: declarations.
* Parsing of pages and JSON, HTML templates, the wording of messages and of reasons.
* How `find_superseded` strips prefixes and blanks from a name: `Pipeline` has the name, the number
  of prefixes and the place of the id among all texts as constants.
* `init_db`'s table locks but for the waits of `Schema`: that they end a start or a request
  in a deadlock is a `Die` of `Migration`. A start waits for an open transaction of an
  enrichment stage as well (`src/pipeline.py:92`), at most until the stage's requests time out.
* Two batches that overlap inside the enrichment stages (`src/pipeline.py:107`): the unit
  is never started twice, so it takes a batch by hand, and the next run restores what is
  lost.
* Two browsers' tabs that share a cookie; the formats of scalar profile fields.

Observed while modelling, and not stated as a property because nothing in the repository says
what should hold: a lease of SH that stops recruiting stays stored and matched, since the
collector only leaves it out of the list (`src/collectors/sh.py:206`); step 3 of the onboarding
posted first stores "done" (`src/web/onboarding.py:354`); the Gwangju of Gyeonggi has the
deposit of the metropolitan city, and a member without `region` is asked for none
(`src/scoring.py:189`).

What would add most next: the enrichment stages under two
batches; the locks of `init_db` against those of a dashboard request.
