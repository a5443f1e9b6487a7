----------------------------- MODULE Migration -----------------------------
(***************************************************************************)
(* What a start of this release does to a database an earlier release has  *)
(* filled: init_db (src/db.py) gives every bookmark an owner and the table *)
(* a key of member and notice in one transaction, and renames every bare   *)
(* notice id to "<source>:<native id>" in the next, statement by statement *)
(* under READ COMMITTED.  The web server, the batch and the scripts each   *)
(* run it when they start, while the others serve bookmark requests,       *)
(* store, judge and announce; and a batch of the earlier release may still *)
(* be at work, since the deployment restarts the web server only.  What    *)
(* the filter decides is Pipeline's, here every stored notice fits.        *)
(***************************************************************************)
EXTENDS Naturals, FiniteSets

CONSTANTS
  Notices,     \* notices as their sources number them
  Scripts,     \* processes that run a script beside the batch
  Requests,    \* bookmark requests the web server handles at a time
  MaxMembers,  \* bound: registered members; ids count up from 1
  MaxFaults    \* bound: deaths and transactions aborted by PostgreSQL

ASSUME MigrationAssumption ==
  /\ Scripts \cap {"web", "job", "old"} = {}
  /\ MaxMembers \in Nat \ {0} /\ MaxFaults \in Nat

VARIABLES
  notice,      \* ids of the rows of notice
  child,       \* ids of the rows of its other tables
  bookmark,    \* rows of bookmark
  key,         \* the columns of bookmark's primary key
  members,     \* the last member's id
  proc,        \* the step each process is at
  held,        \* ids whose rows an open renaming has changed, of each table
  marks,       \* rows of bookmark it has changed
  todo,        \* the ids a process has read and still works on
  request,     \* the bookmark requests
  faults,
  (* history, read by no action *)
  sent,        \* announcements of each notice, 2 for any more than one
  late         \* a renaming began under a batch of the earlier release

vars == <<notice, child, bookmark, key, members, proc, held, marks, todo, request,
          faults, sent, late>>

(* The job is what a timer or somebody starts: the batch, or a script      *)
(* (seed_member, migrate_global_id).                                       *)
Processes == {"web", "job", "old"} \cup Scripts
Starting  == {"web", "job"} \cup Scripts  \* those that run this release's init_db
Batches   == {"job", "old"}

(* The transaction of a renaming is named after the table it comes to next.*)
Children == {"notice_house_type", "match_result", "notify_log"}
Tables == Children \cup {"bookmark", "notice"}
Steps ==
  {"schema", "ids"} \cup Tables
    \cup {"up", "join", "collect", "judge", "write", "read", "notify", "over"}

(* A row's pblanc_no: the native id, with or without its source in front.  *)
Id == [of : Notices, global : BOOLEAN]
Bare(n) == [of |-> n, global |-> FALSE]
Global(i) == [i EXCEPT !.global = TRUE]

(* Before there were accounts a bookmark had no member.                    *)
Nobody == 0
Members == 1..members
Bookmark == [member : 0..MaxMembers, id : Id]

Request == [member : 1..MaxMembers, id : Id]
NoRequest == [member |-> Nobody]

(* Where a process is when it has nothing to do: the web server is started *)
(* again by systemd, the job by its timer or by hand, the earlier batch by *)
(* nobody.                                                                 *)
Rest(p) == IF p = "old" THEN "over" ELSE "schema"

TypeOK ==
  /\ notice \subseteq Id
  /\ child \in [Children -> SUBSET Id]
  /\ bookmark \subseteq Bookmark
  /\ key \in {"notice", "member and notice"}
  /\ key = "member and notice" => \A b \in bookmark : b.member # Nobody
  /\ members \in 0..MaxMembers
  /\ proc \in [Processes -> Steps]
  /\ held \in [Starting -> [Children \cup {"notice"} -> SUBSET Id]]
  /\ marks \in [Starting -> SUBSET Bookmark]
  /\ todo \in [Processes -> SUBSET Id]
  /\ request \in [Requests -> Request \cup {NoRequest}]
  /\ faults \in 0..MaxFaults
  /\ sent \in [Notices -> 0..2]
  /\ late \in BOOLEAN

NoRows == [t \in Children \cup {"notice"} |-> {}]

(* The earlier release has stored, judged and in part announced notices    *)
(* and stored house types, all under bare ids, and kept bookmarks without  *)
(* a member; its batch may have some of its run before it.                 *)
LeftBehind(stored, priced, told, marked) ==
  /\ notice = {Bare(n) : n \in stored}
  /\ child = [t \in Children |->
                {Bare(n) : n \in CASE t = "notice_house_type" -> priced
                                   [] t = "match_result" -> stored
                                   [] t = "notify_log" -> told}]
  /\ bookmark = {[member |-> Nobody, id |-> Bare(n)] : n \in marked}
  /\ key = "notice"
  /\ members = 0
  /\ \E step \in {"collect", "over"} :
       proc = [p \in Processes |-> IF p = "old" THEN step ELSE "schema"]
  /\ held = [p \in Starting |-> NoRows]
  /\ marks = [p \in Starting |-> {}]
  /\ todo = [p \in Processes |-> {}]
  /\ request = [r \in Requests |-> NoRequest]
  /\ faults = 0
  /\ sent = [n \in Notices |-> IF n \in told THEN 1 ELSE 0]
  /\ late = FALSE

Init ==
  \E stored, priced \in SUBSET Notices :
    \E told, marked \in SUBSET stored : LeftBehind(stored, priced, told, marked)

-----------------------------------------------------------------------------
(* init_db.                                                                *)

Goto(p, step) == proc' = [proc EXCEPT ![p] = step]

(* _ensure_bookmark_member_scope: rows without a member go to the first    *)
(* one; without any member the key stays as it is until another start.     *)
Orphans == {b \in bookmark : b.member = Nobody}
MayRebuildUnowned == Orphans = {}   \* mutant: waits for someone else to find the owner
MayRebuild == Orphans = {} \/ members > 0
OwnedByNobody == bookmark           \* mutant: the UPDATE is missing
Owned == {IF b.member = Nobody THEN [b EXCEPT !.member = 1] ELSE b : b \in bookmark}

(* Its ALTER TABLEs wait for every transaction that has come to notice: an *)
(* open renaming, a request between its look and its insertion.            *)
Schema(p) ==
  /\ proc[p] = "schema"
  /\ \A q \in Starting : proc[q] \notin Tables
  /\ \A r \in Requests : request[r] = NoRequest
  /\ Goto(p, "ids")
  /\ IF key = "notice" /\ MayRebuild
       THEN bookmark' = Owned /\ key' = "member and notice"
       ELSE UNCHANGED <<bookmark, key>>
  /\ UNCHANGED <<notice, child, members, held, marks, todo, request, faults, sent, late>>

(* migrate_global_ids: rows of the other tables follow their notice, rows  *)
(* without one stay.  Each statement sees what is committed when it runs;  *)
(* what it writes others see at the commit, until then they wait for it.   *)
Moves(i) == ~i.global /\ i \in notice
Moving(ids) == {i \in ids : Moves(i)}
MovingBookmarksLate == {}           \* mutant: after notice, so that nothing joins
MovingBookmarks == {b \in bookmark : Moves(b.id)}

(* One id that is taken rolls everything back.                             *)
Taken(ids) == \E i \in Moving(ids) : Global(i) \in ids
BookmarkTaken ==
  \E b \in MovingBookmarks, c \in bookmark :
    c.id = Global(b.id) /\ (key = "notice" \/ b.member = c.member)
Refuses(t) ==
  \/ t \in Children /\ Taken(child[t])
  \/ t = "bookmark" /\ BookmarkTaken
  \/ t = "notice" /\ Taken(notice)
Refused == \E t \in Tables : Refuses(t)

(* The next statement of p would change a row that q has changed.          *)
WaitsFor(p, q) ==
  /\ p # q
  /\ \/ proc[p] \in {"ids", "notice"} /\ Moving(notice) \cap held[q]["notice"] # {}
     \/ proc[p] \in Children /\ Moving(child[proc[p]]) \cap held[q][proc[p]] # {}
     \/ proc[p] = "bookmark" /\ MovingBookmarks \cap marks[q] # {}
Runs(p, step) == proc[p] = step /\ \A q \in Starting : ~WaitsFor(p, q)

(* The first statements fill native_id and agency, and so lock the rows of *)
(* notice that an earlier release has stored.                              *)
FillNativeIds(p) ==
  /\ Runs(p, "ids")
  /\ held' = [held EXCEPT ![p]["notice"] = Moving(notice)]
  /\ Goto(p, "notice_house_type")
  /\ late' = (late \/ proc["old"] # "over")
  /\ UNCHANGED <<notice, child, bookmark, key, members, marks, todo, request, faults, sent>>

NextTableSkipsLog(t) ==             \* mutant: notify_log is not in the list
  CASE t = "notice_house_type" -> "match_result" [] OTHER -> "bookmark"
NextTable(t) ==
  CASE t = "notice_house_type" -> "match_result"
    [] t = "match_result" -> "notify_log"
    [] t = "notify_log" -> "bookmark"

RenameIn(p, t) ==
  /\ Runs(p, t)
  /\ ~Refuses(t)
  /\ held' = [held EXCEPT ![p][t] = Moving(child[t])]
  /\ Goto(p, NextTable(t))
  /\ UNCHANGED <<notice, child, bookmark, key, members, marks, todo, request, faults, sent, late>>

RenameBookmarks(p) ==
  /\ Runs(p, "bookmark")
  /\ ~Refuses("bookmark")
  /\ marks' = [marks EXCEPT ![p] = MovingBookmarks]
  /\ Goto(p, "notice")
  /\ UNCHANGED <<notice, child, bookmark, key, members, held, todo, request, faults, sent, late>>

(* notice comes last, and with its statement the commit.                   *)
Renamed(ids, rows) == {IF i \in rows THEN Global(i) ELSE i : i \in ids}
WithSource(b) == [b EXCEPT !.id = Global(@)]
RenamedBookmarks(rows) == {IF b \in rows THEN WithSource(b) ELSE b : b \in bookmark}
Release(p) ==
  /\ held' = [held EXCEPT ![p] = NoRows]
  /\ marks' = [marks EXCEPT ![p] = {}]

AfterStart(p) ==
  CASE p = "web" -> {"up"} [] p = "job" -> {"collect", "join"} [] p \in Scripts -> {"join"}

CommitIds(p) ==
  /\ Runs(p, "notice")
  /\ ~Refuses("notice")
  /\ notice' = Renamed(notice, Moving(notice))
  /\ child' = [t \in Children |-> Renamed(child[t], held[p][t])]
  /\ bookmark' = RenamedBookmarks(marks[p])
  /\ Release(p)
  /\ \E step \in AfterStart(p) : Goto(p, step)
  /\ UNCHANGED <<key, members, todo, request, faults, sent, late>>

(* The exception of a taken id ends the process that starts, and so does   *)
(* PostgreSQL where each of some starts waits for another.                 *)
EndStart(p) ==
  /\ Release(p)
  /\ Goto(p, Rest(p))
  /\ UNCHANGED <<notice, child, bookmark, key, members, todo, request, faults, sent, late>>

StartRefused(p) == proc[p] \in Tables /\ Refuses(proc[p]) /\ EndStart(p)

Deadlocked(p) ==
  \E S \in SUBSET Starting :
    p \in S /\ \A q \in S : \E r, u \in S : WaitsFor(q, r) /\ WaitsFor(u, q)
BreakDeadlock(p) == Deadlocked(p) /\ EndStart(p)

-----------------------------------------------------------------------------
(* The batch, of this release and of the earlier one.                      *)

StoredBare(p, n) == Bare(n)         \* mutant: _to_row without global_id
StoredAs(p, n) == IF p = "old" THEN Bare(n) ELSE Global(Bare(n))

(* The house types have a list of their own: they may come without their   *)
(* notice.                                                                 *)
Rows(p, listed) == {StoredAs(p, n) : n \in listed}

(* A row of a table waits for the renaming that has changed one of its id, *)
(* or, but in notice, given one its id.                                    *)
Free(t, ids) ==
  \A q \in Starting : \A i \in held[q][t] :
    i \notin ids /\ (t # "notice" => Global(i) \notin ids)
Collect(p) ==
  /\ proc[p] = "collect"
  /\ \E listed, priced \in SUBSET Notices :
       /\ Free("notice", Rows(p, listed)) /\ Free("notice_house_type", Rows(p, priced))
       /\ notice' = notice \cup Rows(p, listed)
       /\ child' = [child EXCEPT !["notice_house_type"] = @ \cup Rows(p, priced)]
  /\ Goto(p, "judge")
  /\ UNCHANGED <<bookmark, key, members, held, marks, todo, request, faults, sent, late>>

(* evaluate_all reads every notice and writes the results of what it read. *)
Judge(p) ==
  /\ proc[p] = "judge"
  /\ todo' = [todo EXCEPT ![p] = notice]
  /\ Goto(p, "write")
  /\ UNCHANGED <<notice, child, bookmark, key, members, held, marks, request, faults, sent, late>>

SaveResults(p) ==
  /\ proc[p] = "write"
  /\ Free("match_result", todo[p])
  /\ child' = [child EXCEPT !["match_result"] = @ \cup todo[p]]
  /\ todo' = [todo EXCEPT ![p] = {}]
  /\ Goto(p, "read")
  /\ UNCHANGED <<notice, bookmark, key, members, held, marks, request, faults, sent, late>>

Pending == (notice \cap child["match_result"]) \ child["notify_log"]

ReadPending(p) ==
  /\ proc[p] = "read"
  /\ todo' = [todo EXCEPT ![p] = Pending]
  /\ Goto(p, "notify")
  /\ UNCHANGED <<notice, child, bookmark, key, members, held, marks, request, faults, sent, late>>

(* Sends and records; that the two are apart is Pipeline's subject.        *)
Announce(p, i) ==
  /\ proc[p] = "notify"
  /\ i \in todo[p]
  /\ Free("notify_log", {i})
  /\ sent' = [sent EXCEPT ![i.of] = IF @ = 0 THEN 1 ELSE 2]
  /\ child' = [child EXCEPT !["notify_log"] = @ \cup {i}]
  /\ todo' = [todo EXCEPT ![p] = @ \ {i}]
  /\ UNCHANGED <<notice, bookmark, key, members, proc, held, marks, request, faults, late>>

EndRun(p) ==
  /\ proc[p] = "notify"
  /\ todo[p] = {}
  /\ Goto(p, Rest(p))
  /\ UNCHANGED <<notice, child, bookmark, key, members, held, marks, todo, request, faults, sent, late>>

-----------------------------------------------------------------------------
(* Members and their bookmarks.                                            *)

(* The web server or the seed script adds a member; the other script only  *)
(* prints what its start has renamed.                                      *)
Register(p) ==
  /\ proc[p] \in {"up", "join"}
  /\ members < MaxMembers
  /\ members' = members + 1
  /\ Goto(p, IF p = "web" THEN "up" ELSE Rest(p))
  /\ UNCHANGED <<notice, child, bookmark, key, held, marks, todo, request, faults, sent, late>>

ScriptEnds(p) ==
  /\ proc[p] = "join"
  /\ Goto(p, Rest(p))
  /\ UNCHANGED <<notice, child, bookmark, key, members, held, marks, todo, request, faults, sent, late>>

(* A page shows the ids of its time: it may be older than the last start.  *)
OnAPage(i) == i \in notice \/ Global(i) \in notice

(* bookmark_add looks for the notice, 404 without it, and inserts then.    *)
CheckNothing(i) == OnAPage(i)       \* mutant: no look at notice
CheckNotice(i) == i \in notice
PutBookmark(r) ==
  /\ proc["web"] = "up"
  /\ request[r] = NoRequest
  /\ \E m \in Members, i \in Id :
       CheckNotice(i) /\ request' = [request EXCEPT ![r] = [member |-> m, id |-> i]]
  /\ UNCHANGED <<notice, child, bookmark, key, members, proc, held, marks, todo, faults, sent, late>>

(* Without the key of member and notice ON CONFLICT finds no constraint:   *)
(* the insertion fails.  Otherwise it waits for a renaming of its row, or  *)
(* of one to its id, as a deletion does for one of its row.                *)
AddBookmark(r) ==
  /\ request[r] # NoRequest
  /\ key # "notice" => \A q \in Starting : \A b \in marks[q] : request[r] \notin {b, WithSource(b)}
  /\ bookmark' = IF key = "notice" THEN bookmark ELSE bookmark \cup {request[r]}
  /\ request' = [request EXCEPT ![r] = NoRequest]
  /\ UNCHANGED <<notice, child, key, members, proc, held, marks, todo, faults, sent, late>>

RemoveBookmark(b) ==
  /\ proc["web"] = "up"
  /\ b.member \in Members /\ OnAPage(b.id)
  /\ \A q \in Starting : b \notin marks[q]
  /\ bookmark' = bookmark \ {b}
  /\ UNCHANGED <<notice, child, key, members, proc, held, marks, todo, request, faults, sent, late>>

-----------------------------------------------------------------------------
(* Deaths, which roll an open renaming back; PostgreSQL aborting one whose *)
(* tables another start's ALTER TABLE waits for, or a start that waits     *)
(* with some of them altered, is such a death.                             *)

Die(p) ==
  /\ faults < MaxFaults
  /\ faults' = faults + 1
  /\ proc[p] # Rest(p)
  /\ Goto(p, Rest(p))
  /\ IF p \in Starting THEN Release(p) ELSE UNCHANGED <<held, marks>>
  /\ todo' = [todo EXCEPT ![p] = {}]
  /\ request' = IF p = "web" THEN [r \in Requests |-> NoRequest]
                ELSE request
  /\ UNCHANGED <<notice, child, bookmark, key, members, sent, late>>

MigrateIds(p) ==
  \/ FillNativeIds(p)
  \/ \E t \in Children : RenameIn(p, t)
  \/ RenameBookmarks(p)
  \/ CommitIds(p)
  \/ StartRefused(p)
  \/ BreakDeadlock(p)
Start(p) == Schema(p) \/ MigrateIds(p)
Run(p) ==
  \/ Collect(p)
  \/ Judge(p)
  \/ SaveResults(p)
  \/ ReadPending(p)
  \/ \E i \in Id : Announce(p, i)
  \/ EndRun(p)

Next ==
  \/ \E p \in Starting : Start(p)
  \/ \E p \in Batches : Run(p)
  \/ \E p \in Starting : Register(p) \/ ScriptEnds(p)
  \/ \E r \in Requests : PutBookmark(r) \/ AddBookmark(r)
  \/ \E b \in bookmark : RemoveBookmark(b)
  \/ \E p \in Processes : Die(p)

Spec == Init /\ [][Next]_vars

(* The timer starts a batch again and again, and a batch or script that is *)
(* started goes on; systemd starts the web server again and again          *)
(* (Restart=always).  Who waits for a lock has his turn before those who   *)
(* come later (PostgreSQL's queue).                                        *)
FairSpec ==
  /\ Spec
  /\ SF_vars(Start("web")) /\ SF_vars(Start("job"))
  /\ WF_vars(Run("job")) /\ WF_vars(ScriptEnds("job"))
  /\ \A r \in Requests : WF_vars(AddBookmark(r))
  /\ \A p \in Scripts : WF_vars(MigrateIds(p))

-----------------------------------------------------------------------------
(* Properties.                                                             *)

(* Unless ids were renamed under a batch of the earlier release, notices,  *)
(* results, records and bookmarks always agree on the ids: all are bare or *)
(* all carry their source, so no notice has two rows, and every result,    *)
(* record and bookmark names a stored notice, whichever processes start,   *)
(* die or answer old pages meanwhile (migrate_global_ids, bookmark_add).   *)
(* Only a house type that came without its notice may keep a bare id.      *)
Ids == notice \cup child["match_result"] \cup child["notify_log"] \cup {b.id : b \in bookmark}
IdsAgree ==
  ~late => /\ \A i, j \in Ids : i.global = j.global
           /\ Ids \subseteq notice

(* What a member has bookmarked, or nobody before there were members,      *)
(* stays on a page that joins it to its notice until its owner removes it; *)
(* under a batch of the earlier release one set, or whose notice was       *)
(* stored, after a renaming had come past bookmark leaves the page when    *)
(* the renaming commits (the children-first order of migrate_global_ids,   *)
(* and the owner that _ensure_bookmark_member_scope gives).                *)
Shown(m, n) == \E b \in bookmark : b.member = m /\ b.id.of = n /\ b.id \in notice
RemovedBy(m, n) == \E b \in bookmark : RemoveBookmark(b) /\ b.member = m /\ b.id.of = n
Overlooked(m, n) ==
  /\ late
  /\ \E p \in Starting :
       /\ proc[p] = "notice" /\ proc'[p] \in AfterStart(p)
       /\ [member |-> m, id |-> Bare(n)] \in bookmark \ marks[p]
Keeps(m, n) == Shown(m, n) =>
  \/ Shown(m, n)'
  \/ m = Nobody /\ Shown(1, n)'
  \/ RemovedBy(m, n)
  \/ Overlooked(m, n)
ShownBookmarksAreKept == [][\A m \in 0..MaxMembers, n \in Notices : Keeps(m, n)]_vars

(* The records of what was announced move with the ids: no notice is       *)
(* announced again for having a new id, unless ids were renamed under a    *)
(* batch of the earlier release (notify_log is among the tables of         *)
(* migrate_global_ids).                                                    *)
AnnouncedOnce == ~late => \A n \in Notices : sent[n] <= 1

(* Unless ids were renamed under a batch of the earlier release, no order  *)
(* of starts, batches, deaths and requests leads to an id that a renaming  *)
(* would give a second time: a start ends by a fault only, never by a row  *)
(* (the UPDATEs of migrate_global_ids, global_id in _to_row and            *)
(* upsert_house_types).                                                    *)
StartsAreNotRefused == ~late => ~Refused

(* Once there is a member, starts alone give the bookmarks their key, so   *)
(* that bookmarking works, also when the tables had to wait for the first  *)
(* member, when starts are refused or die (_ensure_bookmark_member_scope:  *)
(* no other caller would do it).                                           *)
BookmarkingWorks == members > 0 ~> key = "member and notice"

(* Unless ids were renamed under a batch of the earlier release, the web   *)
(* server comes up again after every death and every start that PostgreSQL *)
(* aborts: what batches and scripts write never makes it a loop of refused *)
(* starts (the UPDATEs of migrate_global_ids, global_id in _to_row).       *)
WebComesUp == <>late \/ []<>(proc["web"] = "up")
=============================================================================
