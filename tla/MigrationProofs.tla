--------------------------- MODULE MigrationProofs ---------------------------
(***************************************************************************)
(* Theorems about Migration for every set of notices and of requests and   *)
(* every bound, checked by TLAPS.                                          *)
(***************************************************************************)
EXTENDS Migration, TLAPS

-----------------------------------------------------------------------------
(* Types.                                                                  *)

(* An id stays an id of its notice when its source is put in front.        *)
LEMMA IdTypes ==
  /\ \A n \in Notices : Bare(n) \in Id /\ Bare(n).of = n /\ ~Bare(n).global
  /\ \A i \in Id : Global(i) \in Id /\ Global(i).of = i.of /\ Global(i).global
BY DEF Id, Bare, Global

(* Renaming makes ids of ids.                                              *)
LEMMA RenamedTypes == \A rows : \A S \in SUBSET Id : Renamed(S, rows) \in SUBSET Id
BY IdTypes DEF Renamed

(* What a batch stores carries ids.                                        *)
LEMMA RowsTypes == \A p : \A S \in SUBSET Notices : Rows(p, S) \in SUBSET Id
BY IdTypes DEF Rows, StoredAs

(* A bookmark of another id or member.                                     *)
LEMMA BookmarkChanges ==
  ASSUME NEW b \in Bookmark, NEW i \in Id, NEW m \in 0..MaxMembers
  PROVE  /\ [b EXCEPT !.id = i] \in Bookmark
         /\ [b EXCEPT !.id = i].member = b.member
         /\ [b EXCEPT !.id = i].id = i
         /\ [b EXCEPT !.member = m] \in Bookmark
         /\ [b EXCEPT !.member = m].member = m
         /\ [b EXCEPT !.member = m].id = b.id
BY DEF Bookmark

(* A renamed bookmark keeps its member and its notice.                     *)
LEMMA SourceTypes ==
  ASSUME NEW b \in Bookmark
  PROVE  /\ WithSource(b) \in Bookmark /\ b.id \in Id
         /\ WithSource(b).member = b.member /\ WithSource(b).id = Global(b.id)
<1>1. b.id \in Id /\ Global(b.id) \in Id /\ b.member \in 0..MaxMembers
  BY IdTypes DEF Bookmark
<1>2. WithSource(b) = [b EXCEPT !.id = Global(b.id)]
  BY DEF Bookmark, WithSource
<1> DEFINE i == Global(b.id)
<1>3. i \in Id /\ WithSource(b) = [b EXCEPT !.id = i]
  BY <1>1, <1>2
<1> HIDE DEF i
<1>4. /\ [b EXCEPT !.id = i] \in Bookmark
      /\ [b EXCEPT !.id = i].member = b.member /\ [b EXCEPT !.id = i].id = i
  BY <1>3 DEF Bookmark
<1> QED BY <1>1, <1>3, <1>4 DEF i

(* An earlier release leaves rows of their types.                          *)
LEMMA InitTypes == Init => TypeOK
<1> SUFFICES ASSUME Init PROVE TypeOK
  OBVIOUS
<1>1. PICK stored \in SUBSET Notices, priced \in SUBSET Notices,
           told \in SUBSET Notices, marked \in SUBSET Notices :
             told \subseteq stored /\ marked \subseteq stored /\ LeftBehind(stored, priced, told, marked)
  BY DEF Init
<1> USE DEF LeftBehind
<1>2. \A n \in Notices : Bare(n) \in Id
  BY IdTypes
<1>3. notice \subseteq Id
  BY <1>1, <1>2
<1>4. child \in [Children -> SUBSET Id]
  <2>1. \A t \in Children : (CASE t = "notice_house_type" -> priced
                               [] t = "match_result" -> stored
                               [] t = "notify_log" -> told) \subseteq Notices
    BY <1>1 DEF Children
  <2>2. \A t \in Children : {Bare(n) : n \in CASE t = "notice_house_type" -> priced
                                               [] t = "match_result" -> stored
                                               [] t = "notify_log" -> told} \in SUBSET Id
    BY <1>2, <2>1
  <2> QED BY <1>1, <2>2
<1>5. bookmark \subseteq Bookmark
  BY <1>1, <1>2, MigrationAssumption DEF Bookmark, Nobody
<1>6. proc \in [Processes -> Steps]
  BY <1>1 DEF Processes, Steps
<1>7. sent \in [Notices -> 0..2]
  BY <1>1
<1>8. members \in 0..MaxMembers /\ faults \in 0..MaxFaults
  BY <1>1, MigrationAssumption
<1>9. /\ held \in [Starting -> [Children \cup {"notice"} -> SUBSET Id]]
      /\ marks \in [Starting -> SUBSET Bookmark]
  BY <1>1 DEF NoRows
<1> QED BY <1>1, <1>3, <1>4, <1>5, <1>6, <1>7, <1>8, <1>9 DEF TypeOK

(* Every step keeps the types.                                             *)
LEMMA NextTypes == TypeOK /\ [Next]_vars => TypeOK'
<1> SUFFICES ASSUME TypeOK, [Next]_vars PROVE TypeOK'
  OBVIOUS
<1>n. /\ faults \in 0..MaxFaults /\ members \in 0..MaxMembers
      /\ MaxFaults \in Nat /\ MaxMembers \in Nat /\ 1 \in 0..MaxMembers
  <2>1. /\ MaxFaults \in Nat /\ MaxMembers \in Nat /\ 1 \in 0..MaxMembers
    BY MigrationAssumption
  <2>2. faults \in 0..MaxFaults /\ members \in 0..MaxMembers
    BY DEF TypeOK
  <2> QED BY <2>1, <2>2
<1>b. bookmark \subseteq Bookmark
  BY DEF TypeOK
<1>q. request \in [Requests -> Request \cup {NoRequest}]
  BY DEF TypeOK
<1>i. /\ notice \subseteq Id /\ child \in [Children -> SUBSET Id]
      /\ todo \in [Processes -> SUBSET Id] /\ sent \in [Notices -> 0..2]
  BY DEF TypeOK
<1>o. key = "member and notice" => \A b \in bookmark : b.member # Nobody
  BY DEF TypeOK
<1>g. ASSUME NEW p \in Processes, NEW step \in Steps, Goto(p, step)
      PROVE  proc' \in [Processes -> Steps]
  BY <1>g DEF Goto, TypeOK
<1>p. Starting \subseteq Processes /\ Batches \subseteq Processes
  BY DEF Starting, Batches, Processes
<1>s. /\ {"schema", "ids", "up", "join", "collect", "judge", "write", "read", "notify", "over"} \subseteq Steps
      /\ Tables \subseteq Steps
      /\ \A p : Rest(p) \in Steps
      /\ \A p \in Starting : AfterStart(p) \subseteq Steps
  BY DEF Steps, Rest, AfterStart, Starting
<1>c. /\ {"notice_house_type", "match_result", "notify_log"} = Children
      /\ {"notice_house_type", "match_result", "notify_log", "bookmark", "notice"} = Tables
  BY DEF Children, Tables
<1>h. /\ held \in [Starting -> [Children \cup {"notice"} -> SUBSET Id]]
      /\ marks \in [Starting -> SUBSET Bookmark]
  BY DEF TypeOK
<1>r. ASSUME NEW p \in Starting, Release(p)
      PROVE  /\ held' \in [Starting -> [Children \cup {"notice"} -> SUBSET Id]]
             /\ marks' \in [Starting -> SUBSET Bookmark]
  BY <1>r, <1>h DEF Release, NoRows
<1>1. ASSUME NEW p \in Starting, Schema(p) PROVE TypeOK'
  <2>1. proc' \in [Processes -> Steps]
    BY <1>1, <1>g, <1>p, <1>s DEF Schema
  <2>2. Owned \subseteq Bookmark
    <3>1. ASSUME NEW b \in bookmark
          PROVE  (IF b.member = Nobody THEN [b EXCEPT !.member = 1] ELSE b) \in Bookmark
      <4>1. b \in Bookmark /\ b.id \in Id
        BY <1>b DEF Bookmark
      <4>2. [b EXCEPT !.member = 1] \in Bookmark
        BY <4>1, <1>n, BookmarkChanges
      <4> QED BY <4>1, <4>2
    <3> QED BY <3>1 DEF Owned
  <2>3. MayRebuild => \A b \in Owned : b.member # Nobody
    <3>1. SUFFICES ASSUME NEW b \in bookmark
          PROVE (IF b.member = Nobody THEN [b EXCEPT !.member = 1] ELSE b).member # Nobody
      BY DEF Owned
    <3>2. b \in Bookmark /\ [b EXCEPT !.member = 1].member = 1
      BY <1>b, <1>n, BookmarkChanges
    <3> QED BY <3>2 DEF Nobody
  <2>4. bookmark' \subseteq Bookmark /\ key' \in {"notice", "member and notice"}
    BY <1>1, <1>b, <2>2 DEF Schema, TypeOK
  <2>5. key' = "member and notice" => \A b \in bookmark' : b.member # Nobody
    BY <1>1, <1>o, <2>3 DEF Schema
  <2> QED BY <1>1, <2>1, <2>4, <2>5 DEF Schema, TypeOK
<1>2. ASSUME NEW p \in Starting, FillNativeIds(p) PROVE TypeOK'
  <2>1. proc' \in [Processes -> Steps]
    BY <1>2, <1>g, <1>p, <1>s, <1>c DEF FillNativeIds
  <2>2. Moving(notice) \in SUBSET Id
    BY <1>i DEF Moving
  <2>3. held' \in [Starting -> [Children \cup {"notice"} -> SUBSET Id]]
    BY <1>2, <1>h, <2>2 DEF FillNativeIds
  <2>4. late' \in BOOLEAN
    BY <1>2 DEF FillNativeIds, TypeOK
  <2> QED BY <1>2, <2>1, <2>3, <2>4 DEF FillNativeIds, TypeOK
<1>3. ASSUME NEW p \in Starting, NEW t \in Children, RenameIn(p, t) PROVE TypeOK'
  <2>1. NextTable(t) \in Steps
    BY <1>s, <1>c DEF NextTable
  <2>2. proc' \in [Processes -> Steps]
    BY <1>3, <1>g, <1>p, <2>1 DEF RenameIn
  <2>3. Moving(child[t]) \in SUBSET Id
    BY <1>i DEF Moving
  <2>4. held' \in [Starting -> [Children \cup {"notice"} -> SUBSET Id]]
    BY <1>3, <1>h, <2>3 DEF RenameIn
  <2> QED BY <1>3, <2>2, <2>4 DEF RenameIn, TypeOK
<1>13. ASSUME NEW p \in Starting, RenameBookmarks(p) PROVE TypeOK'
  <2>1. proc' \in [Processes -> Steps]
    BY <1>13, <1>g, <1>p, <1>s, <1>c DEF RenameBookmarks
  <2>2. marks' \in [Starting -> SUBSET Bookmark]
    BY <1>13, <1>b, <1>h DEF RenameBookmarks, MovingBookmarks
  <2> QED BY <1>13, <2>1, <2>2 DEF RenameBookmarks, TypeOK
<1>14. ASSUME NEW p \in Starting, CommitIds(p) PROVE TypeOK'
  <2>1. proc' \in [Processes -> Steps]
    BY <1>14, <1>g, <1>p, <1>s DEF CommitIds
  <2>2. notice' \subseteq Id
    BY <1>14, <1>i, RenamedTypes DEF CommitIds
  <2>3. child' \in [Children -> SUBSET Id]
    BY <1>14, <1>i, RenamedTypes DEF CommitIds
  <2>4. ASSUME NEW b \in RenamedBookmarks(marks[p])
        PROVE  b \in Bookmark /\ (key = "member and notice" => b.member # Nobody)
    <3>1. PICK c \in bookmark : b = IF c \in marks[p] THEN WithSource(c) ELSE c
      BY DEF RenamedBookmarks
    <3>2. c \in Bookmark /\ WithSource(c) \in Bookmark /\ WithSource(c).member = c.member
      BY <1>b, SourceTypes
    <3> QED BY <1>o, <3>1, <3>2
  <2>5. /\ held' \in [Starting -> [Children \cup {"notice"} -> SUBSET Id]]
        /\ marks' \in [Starting -> SUBSET Bookmark]
    BY <1>14, <1>r DEF CommitIds
  <2> QED BY <1>14, <2>1, <2>2, <2>3, <2>4, <2>5 DEF CommitIds, TypeOK
<1>15. ASSUME NEW p \in Starting, EndStart(p) PROVE TypeOK'
  <2>1. proc' \in [Processes -> Steps]
    BY <1>15, <1>g, <1>p, <1>s DEF EndStart
  <2> QED BY <1>15, <1>r, <2>1 DEF EndStart, TypeOK
<1>4. ASSUME NEW p \in Batches, Collect(p) PROVE TypeOK'
  <2>1. proc' \in [Processes -> Steps]
    BY <1>4, <1>g, <1>p, <1>s DEF Collect
  <2>2. notice' \subseteq Id /\ child' \in [Children -> SUBSET Id]
    BY <1>4, <1>i, <1>c, RowsTypes DEF Collect
  <2> QED BY <1>4, <2>1, <2>2 DEF Collect, TypeOK
<1>5. ASSUME NEW p \in Batches, Judge(p) \/ SaveResults(p) \/ ReadPending(p) \/ EndRun(p)
      PROVE  TypeOK'
  <2>1. proc' \in [Processes -> Steps]
    BY <1>5, <1>g, <1>p, <1>s DEF Judge, SaveResults, ReadPending, EndRun
  <2>2. todo' \in [Processes -> SUBSET Id] /\ child' \in [Children -> SUBSET Id]
    BY <1>5, <1>i, <1>p, <1>c DEF Judge, SaveResults, ReadPending, EndRun, Pending
  <2> QED BY <1>5, <2>1, <2>2 DEF Judge, SaveResults, ReadPending, EndRun, TypeOK
<1>6. ASSUME NEW p \in Batches, NEW i \in Id, Announce(p, i) PROVE TypeOK'
  <2>1. i.of \in Notices
    BY DEF Id
  <2>2. sent' \in [Notices -> 0..2]
    BY <1>6, <1>i, <2>1 DEF Announce
  <2>3. todo' \in [Processes -> SUBSET Id] /\ child' \in [Children -> SUBSET Id]
    BY <1>6, <1>i, <1>p, <1>c DEF Announce
  <2> QED BY <1>6, <2>2, <2>3 DEF Announce, TypeOK
<1>7. ASSUME NEW p \in Starting, Register(p) PROVE TypeOK'
  <2>1. proc' \in [Processes -> Steps]
    BY <1>7, <1>g, <1>p, <1>s DEF Register
  <2>2. members' \in 0..MaxMembers
    BY <1>7, <1>n DEF Register
  <2> QED BY <1>7, <2>1, <2>2 DEF Register, TypeOK
<1>8. ASSUME NEW p \in Starting, ScriptEnds(p) PROVE TypeOK'
  BY <1>8, <1>g, <1>p, <1>s DEF ScriptEnds, TypeOK
<1>9. ASSUME NEW r \in Requests, PutBookmark(r) PROVE TypeOK'
  <2>1. request' \in [Requests -> Request \cup {NoRequest}]
    <3>1. PICK m \in Members, i \in Id : request' = [request EXCEPT ![r] = [member |-> m, id |-> i]]
      BY <1>9 DEF PutBookmark
    <3>2. [member |-> m, id |-> i] \in Request
      BY <1>n DEF Request, Members
    <3> QED BY <1>q, <3>1, <3>2
  <2> QED BY <1>9, <2>1 DEF PutBookmark, TypeOK
<1>10. ASSUME NEW r \in Requests, AddBookmark(r) PROVE TypeOK'
  <2>1. request[r] \in Bookmark /\ request[r].member # Nobody
    <3>1. request[r] \in Request
      BY <1>10, <1>q DEF AddBookmark
    <3>2. \A m \in 1..MaxMembers : m \in 0..MaxMembers /\ m # 0
      BY <1>n
    <3> QED BY <3>1, <3>2 DEF Request, Bookmark, Nobody
  <2>2. bookmark' \subseteq Bookmark /\ (key = "member and notice" => \A b \in bookmark' : b.member # Nobody)
    BY <1>10, <1>b, <1>o, <2>1 DEF AddBookmark
  <2>3. request' \in [Requests -> Request \cup {NoRequest}]
    BY <1>10, <1>q DEF AddBookmark
  <2> QED BY <1>10, <2>2, <2>3 DEF AddBookmark, TypeOK
<1>16. ASSUME NEW b \in bookmark, RemoveBookmark(b) PROVE TypeOK'
  <2>1. bookmark' \subseteq Bookmark /\ (key = "member and notice" => \A c \in bookmark' : c.member # Nobody)
    BY <1>16, <1>b, <1>o DEF RemoveBookmark
  <2> QED BY <1>16, <2>1 DEF RemoveBookmark, TypeOK
<1>11. ASSUME NEW p \in Processes, Die(p) PROVE TypeOK'
  <2>1. proc' \in [Processes -> Steps]
    BY <1>11, <1>g, <1>s DEF Die
  <2>2. faults' \in 0..MaxFaults
    BY <1>11, <1>n DEF Die
  <2>3. request' \in [Requests -> Request \cup {NoRequest}]
    BY <1>11, <1>q DEF Die
  <2>4. todo' \in [Processes -> SUBSET Id]
    BY <1>11, <1>i DEF Die
  <2>5. /\ held' \in [Starting -> [Children \cup {"notice"} -> SUBSET Id]]
        /\ marks' \in [Starting -> SUBSET Bookmark]
    BY <1>11, <1>h, <1>r DEF Die
  <2> QED BY <1>11, <2>1, <2>2, <2>3, <2>4, <2>5 DEF Die, TypeOK
<1>12. CASE UNCHANGED vars
  BY <1>12 DEF vars, TypeOK
<1> QED BY <1>1, <1>2, <1>3, <1>4, <1>5, <1>6, <1>7, <1>8, <1>9, <1>10, <1>11, <1>12, <1>13, <1>14,
           <1>15, <1>16
        DEF Next, Start, MigrateIds, StartRefused, BreakDeadlock, Run

-----------------------------------------------------------------------------
(* Ids.                                                                    *)

(* A process has read something only between the reading and the use.      *)
NothingLeft == \A p \in Processes : proc[p] \notin {"write", "notify"} => todo[p] = {}

(* What a renaming has passed it holds, row by row: nothing has come after *)
(* its statement that the commit would leave behind.                       *)
Gathered ==
  \A p \in Starting :
    /\ proc[p] \in {"notify_log", "bookmark", "notice"}
         => Moving(child["match_result"]) \subseteq held[p]["match_result"]
    /\ proc[p] \in {"bookmark", "notice"}
         => Moving(child["notify_log"]) \subseteq held[p]["notify_log"]
    /\ proc[p] = "notice" => MovingBookmarks \subseteq marks[p]

(* Until the first start has renamed them, ids are bare, and nobody who    *)
(* would store others or answer members is beyond its start; afterwards    *)
(* they carry their source, and the earlier batch is over.                 *)
Before ==
  /\ \A i \in notice : ~i.global
  /\ \A i \in child["notice_house_type"] : ~i.global
  /\ \A p \in Starting : proc[p] \in {"schema", "ids"} \cup Tables
  /\ \A p \in Starting : proc[p] \in Tables => proc["old"] = "over"
  /\ Gathered
  /\ \A r \in Requests : request[r] = NoRequest
After == (\A i \in notice : i.global) /\ proc["old"] = "over"

(* Whatever is stored, read or asked names a stored notice.                *)
Linked ==
  /\ child["match_result"] \subseteq notice
  /\ child["notify_log"] \subseteq notice
  /\ \A b \in bookmark : b.id \in notice
  /\ \A p \in Processes : todo[p] \subseteq notice
  /\ \A r \in Requests : request[r] # NoRequest => request[r].id \in notice

(* A notice is announced once, then recorded, and not pending any more.    *)
Recorded ==
  /\ \A n \in Notices : sent[n] # 2
  /\ \A n \in Notices : sent[n] = 1 => \E i \in child["notify_log"] : i.of = n
  /\ \A p \in Batches : proc[p] = "notify" => todo[p] \cap child["notify_log"] = {}

IdInv == NothingLeft /\ (~late => (Before \/ After) /\ Linked /\ Recorded)

(* What an earlier release leaves is bare and linked.                      *)
LEMMA InitIds == Init => IdInv
<1> SUFFICES ASSUME Init PROVE IdInv
  OBVIOUS
<1>1. PICK stored \in SUBSET Notices, priced \in SUBSET Notices,
           told \in SUBSET Notices, marked \in SUBSET Notices :
             told \subseteq stored /\ marked \subseteq stored /\ LeftBehind(stored, priced, told, marked)
  BY DEF Init
<1> USE DEF LeftBehind
<1>2. NothingLeft
  BY <1>1 DEF NothingLeft
<1>3. /\ child["match_result"] = {Bare(n) : n \in stored}
      /\ child["notify_log"] = {Bare(n) : n \in told}
      /\ child["notice_house_type"] = {Bare(n) : n \in priced}
  BY <1>1 DEF Children
<1>4. Before
  <2>1. \A i \in notice : ~i.global
    BY <1>1, IdTypes
  <2>2. \A i \in child["notice_house_type"] : ~i.global
    BY <1>1, <1>3, IdTypes
  <2>3. /\ \A p \in Starting : proc[p] = "schema"
        /\ \A r \in Requests : request[r] = NoRequest
    BY <1>1, MigrationAssumption DEF Starting, Processes
  <2> QED BY <2>1, <2>2, <2>3 DEF Before, Gathered, Tables, Children
<1>5. \A b \in bookmark : b.id \in notice
  BY <1>1
<1>6. Linked
  BY <1>1, <1>3, <1>5 DEF Linked, NoRequest
<1>7. \A n \in Notices : sent[n] # 2 /\ (sent[n] = 1 => n \in told)
  BY <1>1
<1>8. \A n \in told : Bare(n) \in child["notify_log"] /\ Bare(n).of = n
  BY <1>3, IdTypes
<1>9. \A p \in Batches : proc[p] # "notify"
  BY <1>1 DEF Batches, Processes
<1>10. Recorded
  BY <1>7, <1>8, <1>9 DEF Recorded
<1> QED BY <1>2, <1>4, <1>6, <1>10 DEF IdInv

(* Where all ids carry their source, there is nothing to rename.           *)
LEMMA NothingMoves ==
  ASSUME \A i \in notice : i.global
  PROVE  /\ \A i : ~Moves(i)
         /\ \A S : Moving(S) = {}
         /\ MovingBookmarks = {}
BY DEF Moves, Moving, MovingBookmarks

(* Where all are bare, the id of every stored notice is.                   *)
LEMMA EverythingMoves ==
  ASSUME \A i \in notice : ~i.global
  PROVE  /\ \A i \in notice : Moves(i)
         /\ \A S \in SUBSET notice : Moving(S) = S
BY DEF Moves, Moving

(* An id that carries its source is no other for another renaming.         *)
LEMMA GlobalStays ==
  /\ \A i \in Id : i.global => Global(i) = i
  /\ \A b \in Bookmark : b.id.global => WithSource(b) = b
<1>1. \A i \in Id : i.global => Global(i) = i
  BY DEF Id, Global
<1>2. ASSUME NEW b \in Bookmark, b.id.global PROVE WithSource(b) = b
  <2>1. Global(b.id) = b.id
    BY <1>1, <1>2, SourceTypes
  <2> QED BY <2>1 DEF WithSource, Bookmark
<1> QED BY <1>1, <1>2

(* Every step keeps the invariant of the ids; a start leads from Before to *)
(* After.                                                                  *)
LEMMA NextIds == TypeOK /\ IdInv /\ [Next]_vars => IdInv'
<1> SUFFICES ASSUME TypeOK, IdInv, [Next]_vars PROVE IdInv'
  OBVIOUS
<1>i. /\ notice \subseteq Id /\ child \in [Children -> SUBSET Id]
      /\ todo \in [Processes -> SUBSET Id] /\ sent \in [Notices -> 0..2]
      /\ proc \in [Processes -> Steps]
  BY DEF TypeOK
<1>q. request \in [Requests -> Request \cup {NoRequest}]
  BY DEF TypeOK
<1>n. NothingLeft
  BY DEF IdInv
<1>l. ~late => (Before \/ After) /\ Linked /\ Recorded
  BY DEF IdInv
<1>p. Starting \subseteq Processes /\ Batches \subseteq Processes /\ Batches = {"job", "old"}
      /\ "job" \in Starting /\ "old" \notin Starting /\ "web" \in Starting
      /\ \A p \in Processes : p \in Starting \/ p = "old"
  BY MigrationAssumption DEF Starting, Batches, Processes
<1>c. /\ Children = {"notice_house_type", "match_result", "notify_log"}
      /\ Tables = {"notice_house_type", "match_result", "notify_log", "bookmark", "notice"}
  BY DEF Children, Tables
<1>h. /\ held \in [Starting -> [Children \cup {"notice"} -> SUBSET Id]]
      /\ marks \in [Starting -> SUBSET Bookmark]
  BY DEF TypeOK
(* A start that goes on, or ends, without changing a row.                  *)
<1>u. ASSUME NEW p \in Starting, NEW step \in {"schema", "ids"} \cup Tables \cup {"up"}, Goto(p, step),
             proc[p] \notin {"write", "notify"},
             UNCHANGED <<notice, child, bookmark, todo, request, sent>>
      PROVE  NothingLeft' /\ (Linked /\ Recorded => (Linked /\ Recorded)')
  <2>1. step \notin {"write", "notify"}
    BY <1>c
  <2>2. NothingLeft'
    BY <1>u, <1>i, <1>n, <1>p, <2>1 DEF Goto, NothingLeft
  <2>3. Linked => Linked'
    BY <1>u DEF Linked
  <2>4. Recorded => Recorded'
    BY <1>u, <1>i, <1>p, <2>1 DEF Goto, Recorded
  <2> QED BY <2>2, <2>3, <2>4
<1>k. ASSUME NEW p \in Starting, NEW step \in {"schema", "ids"} \cup Tables, Goto(p, step),
             UNCHANGED <<notice, child, request>>, Before \/ After,
             step \in Tables => proc["old"] = "over",
             Before => Gathered'
      PROVE  (Before \/ After)'
  <2>1. CASE Before
    <3>1. \A q \in Starting : proc'[q] = IF q = p THEN step ELSE proc[q]
      BY <1>k, <1>i, <1>p DEF Goto
    <3>2. proc'["old"] = proc["old"]
      BY <1>k, <1>i, <1>p DEF Goto
    <3> QED BY <1>k, <2>1, <3>1, <3>2 DEF Before
  <2>2. CASE After
    BY <1>k, <1>i, <1>p, <2>2 DEF Goto, After
  <2> QED BY <1>k, <2>1, <2>2
<1>1. ASSUME NEW p \in Starting, Schema(p) PROVE IdInv'
  <2>1. NothingLeft'
    BY <1>1, <1>i, <1>n, <1>p DEF Schema, Goto, NothingLeft
  <2>2. SUFFICES ASSUME ~late PROVE (Before \/ After)' /\ Linked' /\ Recorded'
    BY <1>1, <2>1 DEF Schema, IdInv
  <2>3. (Before \/ After)'
    <3>1. Gathered'
      BY <1>1, <1>i, <1>c, <1>p DEF Schema, Goto, Gathered
    <3> QED BY <1>1, <1>c, <1>k, <1>l, <2>2, <3>1 DEF Schema
  <2>4. \A b \in bookmark' : b.id \in notice
    <3>1. \A b \in bookmark : b.id \in notice /\ b \in Bookmark
      BY <1>l, <2>2 DEF Linked, TypeOK
    <3>2. \A b \in bookmark : [b EXCEPT !.member = 1].id = b.id
      BY <3>1 DEF Bookmark
    <3>3. \A b \in Owned : b.id \in notice
      BY <3>1, <3>2 DEF Owned
    <3> QED BY <1>1, <3>1, <3>3 DEF Schema
  <2>5. Linked'
    BY <1>1, <1>l, <2>2, <2>4 DEF Schema, Linked
  <2>6. Recorded'
    BY <1>1, <1>i, <1>l, <1>p, <2>2 DEF Schema, Goto, Recorded
  <2> QED BY <2>3, <2>5, <2>6
<1>2. ASSUME NEW p \in Starting, FillNativeIds(p) PROVE IdInv'
  <2>1. /\ Goto(p, "notice_house_type") /\ proc[p] = "ids"
        /\ UNCHANGED <<notice, child, bookmark, todo, request, sent, marks>>
    BY <1>2 DEF FillNativeIds, Runs
  <2>2. NothingLeft' /\ (Linked /\ Recorded => (Linked /\ Recorded)')
    BY <1>c, <1>u, <2>1
  <2>3. SUFFICES ASSUME ~late' PROVE (Before \/ After)'
    BY <1>2, <1>l, <2>2 DEF FillNativeIds, IdInv
  <2>4. ~late /\ proc["old"] = "over"
    BY <1>2, <2>3 DEF FillNativeIds
  <2>5. Before => Gathered'
    <3>1. ASSUME NEW q \in Starting, q # p PROVE proc'[q] = proc[q] /\ held'[q] = held[q]
      BY <1>2, <1>h, <1>i, <1>p, <2>1, <3>1 DEF FillNativeIds, Goto
    <3>2. proc'[p] = "notice_house_type"
      BY <1>i, <1>p, <2>1 DEF Goto
    <3> QED BY <2>1, <3>1, <3>2 DEF Before, Gathered, Moving, MovingBookmarks, Moves
  <2> QED BY <1>c, <1>k, <1>l, <2>1, <2>4, <2>5
<1>3. ASSUME NEW p \in Starting, NEW t \in Children, RenameIn(p, t) PROVE IdInv'
  <2>1. /\ Goto(p, NextTable(t)) /\ proc[p] = t /\ NextTable(t) \in Tables
        /\ UNCHANGED <<notice, child, bookmark, todo, request, sent, marks, late>>
    BY <1>3, <1>c DEF RenameIn, Runs, NextTable
  <2>2. NothingLeft' /\ (Linked /\ Recorded => (Linked /\ Recorded)')
    BY <1>c, <1>u, <2>1
  <2>3. SUFFICES ASSUME ~late, Before PROVE (Before \/ After)'
    <3>1. After => After'
      BY <1>i, <1>p, <2>1 DEF Goto, After
    <3> QED BY <1>l, <2>1, <2>2, <3>1 DEF IdInv
  <2>4. proc["old"] = "over"
    BY <1>c, <2>1, <2>3 DEF Before
  <2>5. Gathered'
    <3>1. ASSUME NEW q \in Starting, q # p PROVE proc'[q] = proc[q] /\ held'[q] = held[q]
      BY <1>3, <1>h, <1>i, <1>p, <2>1, <3>1 DEF RenameIn, Goto
    <3>2. /\ proc'[p] = NextTable(t)
          /\ held'[p][t] = Moving(child[t])
          /\ \A u \in Children : u # t => held'[p][u] = held[p][u]
      BY <1>3, <1>h, <1>i, <1>p, <2>1 DEF RenameIn, Goto
    <3>3. \A S : Moving(S)' = Moving(S)
      BY <2>1 DEF Moving, Moves
    <3>4. /\ Moving(child["match_result"])' = Moving(child["match_result"])
          /\ Moving(child["notify_log"])' = Moving(child["notify_log"])
          /\ MovingBookmarks' = MovingBookmarks
      BY <2>1 DEF Moving, MovingBookmarks, Moves
    <3>5. ASSUME NEW q \in Starting, q # p
          PROVE  /\ proc'[q] \in {"notify_log", "bookmark", "notice"}
                      => (Moving(child["match_result"]))' \subseteq held'[q]["match_result"]
                 /\ proc'[q] \in {"bookmark", "notice"}
                      => (Moving(child["notify_log"]))' \subseteq held'[q]["notify_log"]
                 /\ proc'[q] = "notice" => MovingBookmarks' \subseteq marks'[q]
      BY <2>1, <2>3, <3>1, <3>4, <3>5 DEF Before, Gathered
    <3>6. /\ proc'[p] \in {"notify_log", "bookmark", "notice"}
               => (Moving(child["match_result"]))' \subseteq held'[p]["match_result"]
          /\ proc'[p] \in {"bookmark", "notice"}
               => (Moving(child["notify_log"]))' \subseteq held'[p]["notify_log"]
          /\ proc'[p] = "notice" => MovingBookmarks' \subseteq marks'[p]
      BY <1>c, <2>1, <2>3, <3>2, <3>4 DEF Before, Gathered, NextTable
    <3> QED BY <3>5, <3>6 DEF Gathered
  <2> QED BY <1>k, <2>1, <2>3, <2>4, <2>5
<1>17. ASSUME NEW p \in Starting, RenameBookmarks(p) PROVE IdInv'
  <2>1. /\ Goto(p, "notice") /\ proc[p] = "bookmark"
        /\ UNCHANGED <<notice, child, bookmark, todo, request, sent, held, late>>
    BY <1>17 DEF RenameBookmarks, Runs
  <2>2. NothingLeft' /\ (Linked /\ Recorded => (Linked /\ Recorded)')
    BY <1>c, <1>u, <2>1
  <2>3. SUFFICES ASSUME ~late, Before PROVE (Before \/ After)'
    <3>1. After => After'
      BY <1>i, <1>p, <2>1 DEF Goto, After
    <3> QED BY <1>l, <2>1, <2>2, <3>1 DEF IdInv
  <2>4. proc["old"] = "over"
    BY <1>c, <2>1, <2>3 DEF Before
  <2>5. Gathered'
    <3>1. ASSUME NEW q \in Starting, q # p PROVE proc'[q] = proc[q] /\ marks'[q] = marks[q]
      BY <1>17, <1>h, <1>i, <1>p, <2>1, <3>1 DEF RenameBookmarks, Goto
    <3>2. proc'[p] = "notice" /\ marks'[p] = MovingBookmarks
      BY <1>17, <1>h, <1>i, <1>p, <2>1 DEF RenameBookmarks, Goto
    <3>3. /\ Moving(child["match_result"])' = Moving(child["match_result"])
          /\ Moving(child["notify_log"])' = Moving(child["notify_log"])
          /\ MovingBookmarks' = MovingBookmarks
      BY <2>1 DEF Moving, MovingBookmarks, Moves
    <3> QED BY <2>1, <2>3, <3>1, <3>2, <3>3 DEF Before, Gathered
  <2> QED BY <1>c, <1>k, <2>1, <2>3, <2>4, <2>5
<1>18. ASSUME NEW p \in Starting, CommitIds(p) PROVE IdInv'
  <2>1. PICK step \in AfterStart(p) : Goto(p, step)
    BY <1>18 DEF CommitIds
  <2>2. step \in {"up", "collect", "join"}
    BY DEF AfterStart, Starting
  <2>3. /\ proc[p] = "notice" /\ proc' = [proc EXCEPT ![p] = step]
        /\ UNCHANGED <<todo, request, sent, late>>
        /\ notice' = Renamed(notice, Moving(notice))
        /\ \A t \in Children : child'[t] = Renamed(child[t], held[p][t])
        /\ bookmark' = RenamedBookmarks(marks[p])
    BY <1>18, <2>1 DEF CommitIds, Runs, Goto
  <2>4. NothingLeft'
    BY <1>i, <1>n, <1>p, <2>2, <2>3 DEF NothingLeft
  <2>5. SUFFICES ASSUME ~late PROVE (Before \/ After)' /\ Linked' /\ Recorded'
    BY <2>3, <2>4 DEF IdInv
  <2>6. Linked /\ Recorded /\ (Before \/ After) /\ proc["old"] = "over"
    BY <1>c, <1>l, <2>3, <2>5 DEF Before, After
  <2>7. proc'["old"] = "over"
    BY <1>i, <1>p, <2>3, <2>6
  <2>8. CASE After
    <3>1. ASSUME NEW S, S \subseteq notice, NEW rows PROVE Renamed(S, rows) = S
      <4>1. \A i \in S : Global(i) = i
        BY <1>i, <2>8, <3>1, GlobalStays DEF After
      <4> QED BY <4>1 DEF Renamed
    <3>2. /\ notice' = notice
          /\ child'["match_result"] = child["match_result"]
          /\ child'["notify_log"] = child["notify_log"]
      BY <1>c, <2>3, <2>6, <3>1 DEF Linked
    <3>3. bookmark' = bookmark
      <4>1. \A b \in bookmark : WithSource(b) = b
        BY <2>6, <2>8, GlobalStays DEF After, Linked, TypeOK
      <4> QED BY <2>3, <4>1 DEF RenamedBookmarks
    <3>4. Linked' /\ After'
      BY <2>3, <2>6, <2>7, <2>8, <3>2, <3>3 DEF Linked, After
    <3>5. Recorded'
      BY <1>i, <1>p, <2>2, <2>3, <2>6, <3>2 DEF Recorded
    <3> QED BY <3>4, <3>5
  <2>9. CASE Before
    <3>1. /\ \A S \in SUBSET notice : Moving(S) = S
          /\ \A i \in notice : Moves(i)
      BY <2>9, EverythingMoves DEF Before
    <3>2. notice' = {Global(i) : i \in notice}
      BY <2>3, <3>1 DEF Renamed
    <3>3. /\ child'["match_result"] = {Global(i) : i \in child["match_result"]}
          /\ child'["notify_log"] = {Global(i) : i \in child["notify_log"]}
      <4>1. /\ child["match_result"] \subseteq held[p]["match_result"]
            /\ child["notify_log"] \subseteq held[p]["notify_log"]
        BY <2>3, <2>6, <2>9, <3>1 DEF Before, Gathered, Linked
      <4> QED BY <1>c, <2>3, <4>1 DEF Renamed
    <3>4. \A q \in Processes : todo'[q] = {}
      <4>1. ASSUME NEW q \in Processes PROVE proc[q] \notin {"write", "notify"}
        BY <1>c, <1>p, <2>6, <2>9 DEF Before
      <4> QED BY <1>n, <2>3, <4>1 DEF NothingLeft
    <3>5. \A r \in Requests : request'[r] = NoRequest
      BY <2>3, <2>9 DEF Before
    <3>6. \A b \in bookmark' : b.id \in notice'
      <4>1. ASSUME NEW b \in bookmark
            PROVE  (IF b \in marks[p] THEN WithSource(b) ELSE b).id \in notice'
        <5>1. b.id \in notice /\ b \in MovingBookmarks
          BY <2>6, <3>1 DEF Linked, MovingBookmarks
        <5>2. b \in marks[p]
          BY <2>3, <2>9, <5>1 DEF Before, Gathered
        <5>3. WithSource(b).id = Global(b.id)
          BY SourceTypes DEF TypeOK
        <5> QED BY <3>2, <5>1, <5>2, <5>3
      <4> QED BY <2>3, <4>1 DEF RenamedBookmarks
    <3>7. Linked'
      BY <2>6, <3>2, <3>3, <3>4, <3>5, <3>6 DEF Linked, NoRequest
    <3>8. After'
      BY <1>i, <2>7, <3>2, IdTypes DEF After
    <3>9. Recorded'
      <4>1. ASSUME NEW n \in Notices, sent[n] = 1 PROVE \E i \in child'["notify_log"] : i.of = n
        <5>1. PICK i \in child["notify_log"] : i.of = n
          BY <2>6, <4>1 DEF Recorded
        <5>2. i \in Id
          BY <1>i, <1>c, <5>1
        <5>3. Global(i) \in child'["notify_log"] /\ Global(i).of = n
          BY <3>3, <5>1, <5>2, IdTypes
        <5> QED BY <5>3
      <4> QED BY <2>3, <2>6, <3>4, <1>p, <4>1 DEF Recorded
    <3> QED BY <3>7, <3>8, <3>9
  <2> QED BY <2>6, <2>8, <2>9
<1>19. ASSUME NEW p \in Starting, EndStart(p), proc[p] \notin {"write", "notify"} PROVE IdInv'
  <2>1. /\ Goto(p, "schema")
        /\ UNCHANGED <<notice, child, bookmark, todo, request, sent, late>>
    BY <1>19, <1>p DEF EndStart, Rest
  <2>2. NothingLeft' /\ (Linked /\ Recorded => (Linked /\ Recorded)')
    BY <1>u, <1>19, <2>1
  <2>3. Before => Gathered'
    <3>1. ASSUME NEW q \in Starting, q # p
          PROVE  proc'[q] = proc[q] /\ held'[q] = held[q] /\ marks'[q] = marks[q]
      BY <1>19, <1>h, <1>i, <1>p, <2>1, <3>1 DEF EndStart, Release, Goto
    <3>2. proc'[p] = "schema"
      BY <1>i, <1>p, <2>1 DEF Goto
    <3> QED BY <2>1, <3>1, <3>2 DEF Before, Gathered, Moving, MovingBookmarks, Moves
  <2>4. ~late => (Before \/ After)'
    BY <1>c, <1>k, <1>l, <2>1, <2>3
  <2> QED BY <1>l, <2>1, <2>2, <2>4 DEF IdInv
<1>4. ASSUME NEW p \in Batches, Collect(p) PROVE IdInv'
  <2>1. NothingLeft'
    BY <1>4, <1>i, <1>n, <1>p DEF Collect, Goto, NothingLeft
  <2>2. SUFFICES ASSUME ~late PROVE (Before \/ After)' /\ Linked' /\ Recorded'
    BY <1>4, <2>1 DEF Collect, IdInv
  <2>3. PICK listed \in SUBSET Notices, priced \in SUBSET Notices :
          /\ notice' = notice \cup Rows(p, listed)
          /\ child' = [child EXCEPT !["notice_house_type"] = @ \cup Rows(p, priced)]
    BY <1>4 DEF Collect
  <2>4. /\ child'["match_result"] = child["match_result"]
        /\ child'["notify_log"] = child["notify_log"]
        /\ child'["notice_house_type"] = child["notice_house_type"] \cup Rows(p, priced)
    BY <2>3, <1>i, <1>c
  <2>5. proc' = [proc EXCEPT ![p] = "judge"] /\ proc[p] = "collect"
    BY <1>4 DEF Collect, Goto
  <2>6. (Before \/ After)'
    <3>1. CASE p = "old"
      <4>1. \A i \in Rows(p, listed) \cup Rows(p, priced) : ~i.global
        BY <3>1, IdTypes DEF Rows, StoredAs
      <4>2. Before
        BY <1>l, <2>2, <2>5, <3>1 DEF After
      <4>3. \A q \in Starting : proc'[q] = proc[q] /\ proc[q] \notin Tables
        BY <1>i, <1>p, <2>5, <3>1, <4>2 DEF Before
      <4>4. Gathered'
        BY <1>c, <4>3 DEF Gathered
      <4> QED BY <1>4, <2>3, <2>4, <3>1, <4>1, <4>2, <4>3, <4>4 DEF Before, Collect
    <3>2. CASE p # "old"
      <4>1. \A i \in Rows(p, listed) : i.global
        BY <3>2, IdTypes DEF Rows, StoredAs
      <4>2. After
        BY <1>c, <1>l, <1>p, <2>2, <2>5, <3>2 DEF Before
      <4> QED BY <1>p, <1>i, <2>3, <2>5, <3>2, <4>1, <4>2 DEF After
    <3> QED BY <3>1, <3>2
  <2>7. Linked'
    BY <1>4, <1>l, <2>2, <2>3, <2>4 DEF Collect, Linked
  <2>8. Recorded'
    BY <1>4, <1>i, <1>l, <1>p, <2>2, <2>4, <2>5 DEF Collect, Recorded
  <2> QED BY <2>6, <2>7, <2>8
(* A step of a batch that stores nothing new: the ids stay as they are.    *)
<1>s. ASSUME NEW p \in Batches, NEW step \in {"write", "read", "notify", Rest(p)}, Goto(p, step),
             proc[p] \in {"judge", "write", "read", "notify"},
             UNCHANGED <<notice, request>>, Before \/ After,
             child'["notice_house_type"] = child["notice_house_type"]
      PROVE  (Before \/ After)'
  <2>1. CASE Before
    <3>1. p = "old"
      BY <1>c, <1>p, <1>s, <2>1 DEF Before
    <3>2. \A q \in Starting : proc'[q] = proc[q] /\ proc[q] \notin Tables
      BY <1>i, <1>p, <1>s, <2>1, <3>1 DEF Before, Goto
    <3>3. Gathered'
      BY <1>c, <3>2 DEF Gathered
    <3> QED BY <1>s, <2>1, <3>2, <3>3 DEF Before
  <2>2. CASE After
    <3>1. p # "old"
      BY <1>s, <2>2 DEF After
    <3> QED BY <1>s, <1>i, <1>p, <2>2, <3>1 DEF After, Goto
  <2> QED BY <1>s, <2>1, <2>2
<1>5. ASSUME NEW p \in Batches, Judge(p) PROVE IdInv'
  <2>1. NothingLeft'
    BY <1>5, <1>i, <1>n, <1>p DEF Judge, Goto, NothingLeft
  <2>2. ~late => (Before \/ After)'
    BY <1>5, <1>l, <1>s DEF Judge
  <2>3. ~late => Linked'
    BY <1>5, <1>i, <1>l, <1>p DEF Judge, Linked
  <2>4. ~late => Recorded'
    BY <1>5, <1>i, <1>l, <1>p DEF Judge, Goto, Recorded
  <2> QED BY <1>5, <2>1, <2>2, <2>3, <2>4 DEF Judge, IdInv
<1>6. ASSUME NEW p \in Batches, SaveResults(p) PROVE IdInv'
  <2>1. NothingLeft'
    BY <1>6, <1>i, <1>n, <1>p DEF SaveResults, Goto, NothingLeft
  <2>2. /\ child'["match_result"] = child["match_result"] \cup todo[p]
        /\ child'["notify_log"] = child["notify_log"]
        /\ child'["notice_house_type"] = child["notice_house_type"]
    BY <1>6, <1>i, <1>c DEF SaveResults
  <2>3. ~late => (Before \/ After)'
    BY <1>6, <1>l, <1>s, <2>2 DEF SaveResults
  <2>4. ~late => Linked'
    BY <1>6, <1>i, <1>l, <1>p, <2>2 DEF SaveResults, Linked
  <2>5. ~late => Recorded'
    BY <1>6, <1>i, <1>l, <1>p, <2>2 DEF SaveResults, Goto, Recorded
  <2> QED BY <1>6, <2>1, <2>3, <2>4, <2>5 DEF SaveResults, IdInv
<1>7. ASSUME NEW p \in Batches, ReadPending(p) PROVE IdInv'
  <2>1. NothingLeft'
    BY <1>7, <1>i, <1>n, <1>p DEF ReadPending, Goto, NothingLeft
  <2>2. ~late => (Before \/ After)'
    BY <1>7, <1>l, <1>s DEF ReadPending
  <2>3. ~late => Linked'
    BY <1>7, <1>i, <1>l, <1>p DEF ReadPending, Pending, Linked
  <2>4. ~late => Recorded'
    BY <1>7, <1>i, <1>l, <1>p DEF ReadPending, Pending, Goto, Recorded
  <2> QED BY <1>7, <2>1, <2>2, <2>3, <2>4 DEF ReadPending, IdInv
<1>8. ASSUME NEW p \in Batches, NEW i \in Id, Announce(p, i) PROVE IdInv'
  <2>1. NothingLeft'
    BY <1>8, <1>i, <1>n, <1>p DEF Announce, NothingLeft
  <2>2. SUFFICES ASSUME ~late PROVE (Before \/ After)' /\ Linked' /\ Recorded'
    BY <1>8, <2>1 DEF Announce, IdInv
  <2>3. /\ child'["match_result"] = child["match_result"]
        /\ child'["notify_log"] = child["notify_log"] \cup {i}
        /\ child'["notice_house_type"] = child["notice_house_type"]
        /\ i \in notice
    BY <1>8, <1>i, <1>c, <1>l, <1>p, <2>2 DEF Announce, Linked
  <2>4. (Before \/ After)'
    <3>1. CASE Before
      <4>1. proc["old"] # "over"
        BY <1>8, <1>c, <1>p, <3>1 DEF Announce, Before
      <4>2. \A q \in Starting : proc'[q] = proc[q] /\ proc[q] \notin Tables
        BY <1>8, <3>1, <4>1 DEF Announce, Before
      <4>3. Gathered'
        BY <1>c, <4>2 DEF Gathered
      <4> QED BY <1>8, <2>3, <3>1, <4>2, <4>3 DEF Announce, Before
    <3>2. CASE After
      BY <1>8, <3>2 DEF Announce, After
    <3> QED BY <1>l, <2>2, <3>1, <3>2
  <2>5. Linked'
    BY <1>8, <1>i, <1>l, <1>p, <2>2, <2>3 DEF Announce, Linked
  <2>6. i.of \in Notices /\ sent[i.of] \in 0..2
    BY <1>i DEF Id
  <2>7. sent[i.of] # 1
    <3>1. SUFFICES ASSUME sent[i.of] = 1 PROVE FALSE
      OBVIOUS
    <3>2. PICK j \in child["notify_log"] : j.of = i.of
      BY <1>l, <2>2, <2>6, <3>1 DEF Recorded
    <3>3. j \in notice /\ j \in Id
      BY <1>i, <1>l, <2>2, <3>2 DEF Linked
    <3>4. j.global = i.global
      <4>1. /\ i.global \in BOOLEAN /\ j.global \in BOOLEAN
            /\ (~i.global /\ ~j.global) \/ (i.global /\ j.global)
        BY <1>l, <2>2, <2>3, <3>3 DEF Before, After, Id
      <4> QED BY <4>1
    <3>5. j = i
      BY <3>2, <3>3, <3>4 DEF Id
    <3> QED BY <1>8, <1>l, <2>2, <3>2, <3>5 DEF Announce, Recorded
  <2>8. sent'[i.of] = 1 /\ \A n \in Notices : n # i.of => sent'[n] = sent[n]
    BY <1>8, <1>i, <1>l, <2>2, <2>6, <2>7 DEF Announce, Recorded
  <2>9. ASSUME NEW q \in Batches, proc'[q] = "notify" PROVE todo'[q] \cap child'["notify_log"] = {}
    <3>1. proc[q] = "notify" /\ proc[p] = "notify"
      BY <1>8, <2>9 DEF Announce
    <3>2. q = p
      <4>1. CASE Before
        BY <1>c, <1>p, <3>1, <4>1 DEF Before
      <4>2. CASE After
        BY <1>p, <3>1, <4>2 DEF After
      <4> QED BY <1>l, <2>2, <4>1, <4>2
    <3>3. todo'[q] = todo[q] \ {i}
      BY <1>8, <1>i, <1>p, <3>2 DEF Announce
    <3> QED BY <1>l, <2>2, <2>3, <3>1, <3>3 DEF Recorded
  <2>10. Recorded'
    BY <1>l, <2>2, <2>3, <2>8, <2>9 DEF Recorded
  <2> QED BY <2>4, <2>5, <2>10
<1>9. ASSUME NEW p \in Batches, EndRun(p) PROVE IdInv'
  <2>1. Rest(p) # "notify" /\ todo[p] = {}
    BY <1>9 DEF Rest, EndRun
  <2>2. NothingLeft'
    BY <1>9, <1>i, <1>n, <1>p, <2>1 DEF EndRun, Goto, NothingLeft
  <2>3. ~late => (Before \/ After)'
    BY <1>9, <1>l, <1>s DEF EndRun
  <2>4. ~late => Linked' /\ Recorded'
    BY <1>9, <1>i, <1>l, <1>p, <2>1 DEF EndRun, Goto, Linked, Recorded
  <2> QED BY <1>9, <2>2, <2>3, <2>4 DEF EndRun, IdInv
(* A process beyond its start goes on or starts again.                     *)
<1>10. ASSUME NEW p \in Starting, NEW step \in {"up", "schema"}, Goto(p, step),
              proc[p] \in {"up", "join"},
              UNCHANGED <<notice, child, bookmark, todo, request, sent, late>>
       PROVE  IdInv'
  <2>1. NothingLeft' /\ (Linked /\ Recorded => (Linked /\ Recorded)')
    BY <1>10, <1>u
  <2>2. ~late => After
    BY <1>10, <1>c, <1>l DEF Before
  <2>3. ~late => After'
    BY <1>10, <1>i, <1>p, <2>2 DEF Goto, After
  <2> QED BY <1>10, <1>l, <2>1, <2>3 DEF IdInv
<1>11. ASSUME NEW p \in Starting, Register(p) \/ ScriptEnds(p) PROVE IdInv'
  BY <1>10, <1>11, <1>p DEF Register, ScriptEnds, Rest
<1>13. ASSUME NEW r \in Requests, PutBookmark(r) PROVE IdInv'
  <2>1. NothingLeft'
    BY <1>13, <1>n DEF PutBookmark, NothingLeft
  <2>2. ~late => After'
    BY <1>13, <1>c, <1>l, <1>p DEF PutBookmark, Before, After
  <2>3. PICK m \in Members, i \in Id :
          i \in notice /\ request' = [request EXCEPT ![r] = [member |-> m, id |-> i]]
    BY <1>13 DEF PutBookmark, CheckNotice
  <2>4. request'[r].id \in notice /\ \A q \in Requests : q # r => request'[q] = request[q]
    BY <1>q, <2>3
  <2>5. ~late => Linked' /\ Recorded'
    BY <1>13, <1>l, <2>4 DEF PutBookmark, Linked, Recorded
  <2> QED BY <1>13, <2>1, <2>2, <2>5 DEF PutBookmark, IdInv
(* The rows of bookmark change where the ids have their source.            *)
<1>14. ASSUME UNCHANGED <<notice, child, proc, todo, sent, late>>, ~late => After,
              \A r \in Requests : request'[r] \in {request[r], NoRequest},
              ~late => \A b \in bookmark' : b.id \in notice
       PROVE  IdInv'
  <2>1. NothingLeft'
    BY <1>14, <1>n DEF NothingLeft
  <2>2. ~late => After'
    BY <1>14 DEF After
  <2>3. ~late => Linked' /\ Recorded'
    BY <1>14, <1>l DEF Linked, Recorded
  <2> QED BY <1>14, <2>1, <2>2, <2>3 DEF IdInv
<1>20. ASSUME NEW r \in Requests, AddBookmark(r) PROVE IdInv'
  <2>1. ~late => After /\ request[r].id \in notice
    BY <1>20, <1>l DEF AddBookmark, Before, Linked
  <2>2. ~late => \A b \in bookmark' : b.id \in notice
    BY <1>20, <1>l, <2>1 DEF AddBookmark, Linked
  <2>3. \A q \in Requests : request'[q] \in {request[q], NoRequest}
    BY <1>20, <1>q DEF AddBookmark
  <2> QED BY <1>14, <1>20, <2>1, <2>2, <2>3 DEF AddBookmark
<1>21. ASSUME NEW b \in bookmark, RemoveBookmark(b) PROVE IdInv'
  <2>1. ~late => After
    BY <1>21, <1>c, <1>l, <1>p DEF RemoveBookmark, Before
  <2>2. ~late => \A c \in bookmark' : c.id \in notice
    BY <1>21, <1>l DEF RemoveBookmark, Linked
  <2> QED BY <1>14, <1>21, <2>1, <2>2 DEF RemoveBookmark
<1>15. ASSUME NEW p \in Processes, Die(p) PROVE IdInv'
  <2>1. /\ Rest(p) = IF p = "old" THEN "over" ELSE "schema"
        /\ proc' = [proc EXCEPT ![p] = Rest(p)] /\ todo' = [todo EXCEPT ![p] = {}]
        /\ UNCHANGED <<notice, child, bookmark, sent, late>>
    BY <1>15 DEF Die, Goto, Rest
  <2>2. \A r \in Requests : request'[r] \in {request[r], NoRequest}
    BY <1>15 DEF Die
  <2>3. NothingLeft'
    BY <1>i, <1>n, <2>1 DEF NothingLeft
  <2>4. SUFFICES ASSUME ~late PROVE (Before \/ After)' /\ Linked' /\ Recorded'
    BY <2>1, <2>3 DEF IdInv
  <2>5. (Before \/ After)'
    <3>1. ASSUME NEW q \in Starting, proc'[q] \in Tables
          PROVE  q # p /\ proc'[q] = proc[q] /\ held'[q] = held[q] /\ marks'[q] = marks[q]
      <4>1. q # p
        BY <1>c, <1>i, <1>p, <2>1, <3>1
      <4> QED BY <1>15, <1>h, <1>i, <1>p, <2>1, <4>1 DEF Die, Release
    <3>2. Before => Gathered'
      BY <1>c, <2>1, <3>1 DEF Before, Gathered, Moving, MovingBookmarks, Moves
    <3>3. Before => Before'
      <4>1. \A q \in Starting : proc'[q] \in {proc[q], "schema"}
        BY <1>i, <1>p, <2>1
      <4>2. proc'["old"] \in {proc["old"], "over"}
        BY <1>i, <1>p, <2>1
      <4> QED BY <1>c, <2>1, <2>2, <3>2, <4>1, <4>2 DEF Before
    <3>4. After => After'
      BY <1>i, <1>p, <2>1 DEF After
    <3> QED BY <1>l, <2>4, <3>3, <3>4
  <2>6. \A q \in Processes : todo'[q] \subseteq todo[q]
    BY <1>i, <2>1
  <2>7. Linked'
    BY <1>l, <2>1, <2>2, <2>4, <2>6 DEF Linked
  <2>8. \A q \in Batches : proc'[q] = "notify" => proc[q] = "notify"
    BY <1>i, <1>p, <2>1
  <2>9. Recorded'
    BY <1>l, <1>p, <2>1, <2>4, <2>6, <2>8 DEF Recorded
  <2> QED BY <2>5, <2>7, <2>9
<1>16. CASE UNCHANGED vars
  BY <1>16, <1>n, <1>l
     DEF vars, IdInv, NothingLeft, Before, After, Gathered, Moving, MovingBookmarks, Moves, Linked, Recorded
<1>22. ASSUME NEW p \in Starting, Start(p) PROVE IdInv'
  <2>1. ASSUME StartRefused(p) PROVE IdInv'
    BY <1>19, <1>c, <2>1 DEF StartRefused
  <2>2. ASSUME BreakDeadlock(p) PROVE IdInv'
    <3>1. PICK q \in Starting : WaitsFor(p, q)
      BY <2>2 DEF BreakDeadlock, Deadlocked
    <3>2. proc[p] \notin {"write", "notify"}
      BY <1>c, <3>1 DEF WaitsFor
    <3> QED BY <1>19, <2>2, <3>2 DEF BreakDeadlock
  <2> QED BY <1>1, <1>2, <1>3, <1>17, <1>18, <1>22, <2>1, <2>2 DEF Start, MigrateIds
<1> QED BY <1>4, <1>5, <1>6, <1>7, <1>8, <1>9, <1>11, <1>13, <1>15, <1>16, <1>20, <1>21, <1>22
        DEF Next, Run

(* Both invariants hold in every state of the specification.               *)
LEMMA Invariants == Spec => [](TypeOK /\ IdInv)
<1>1. Init => TypeOK /\ IdInv
  BY InitTypes, InitIds
<1>2. TypeOK /\ IdInv /\ [Next]_vars => (TypeOK /\ IdInv)'
  BY NextTypes, NextIds
<1> QED BY <1>1, <1>2, PTL DEF Spec

-----------------------------------------------------------------------------
(* Theorems.                                                               *)

(* In every state of every run the tables, the processes and the requests  *)
(* have their types; no row of a rebuilt bookmark table lacks its member   *)
(* (the transactions of init_db and the handlers of bookmarks).            *)
THEOREM MigrationTypeCorrect == Spec => []TypeOK
BY Invariants, PTL

(* Unless ids were renamed under a batch of the earlier release, all tables *)
(* agree on the ids and every result, record and bookmark names a stored   *)
(* notice, however many processes start at the same time, die or answer    *)
(* pages from before (migrate_global_ids, global_id, bookmark_add).        *)
THEOREM IdsAlwaysAgree == Spec => []IdsAgree
<1>1. TypeOK /\ IdInv => IdsAgree
  <2> SUFFICES ASSUME TypeOK, IdInv, ~late PROVE IdsAgree
    BY DEF IdsAgree
  <2>1. (Before \/ After) /\ Linked
    BY DEF IdInv
  <2>2. Ids \subseteq notice
    BY <2>1 DEF Ids, Linked
  <2>3. \A i, j \in notice : i.global = j.global
    <3>1. TAKE i \in notice, j \in notice
    <3>2. i.global \in BOOLEAN /\ j.global \in BOOLEAN
      BY DEF TypeOK, Id
    <3>3. (~i.global /\ ~j.global) \/ (i.global /\ j.global)
      BY <2>1 DEF Before, After
    <3> QED BY <3>2, <3>3
  <2> QED BY <2>2, <2>3 DEF IdsAgree
<1> QED BY <1>1, Invariants, PTL

(* Unless ids were renamed under a batch of the earlier release, no start  *)
(* is refused for a row: before the first renaming no id carries a source, *)
(* and after it none is left to rename, so that no renaming meets an id    *)
(* that is taken (migrate_global_ids, global_id).                          *)
THEOREM NoStartIsRefused == Spec => []StartsAreNotRefused
<1>1. TypeOK /\ IdInv => StartsAreNotRefused
  <2> SUFFICES ASSUME TypeOK, IdInv, ~late PROVE ~Refused
    BY DEF StartsAreNotRefused
  <2>1. (Before \/ After) /\ Linked
    BY DEF IdInv
  <2>2. CASE After
    <3>1. MovingBookmarks = {} /\ \A S : Moving(S) = {}
      BY <2>2, NothingMoves DEF After
    <3> QED BY <3>1 DEF Refused, Refuses, Taken, BookmarkTaken
  <2>3. CASE Before
    <3>1. \A i \in notice : i \in Id /\ ~i.global /\ Global(i).global
      BY <2>3, IdTypes DEF Before, TypeOK
    <3>2. ASSUME NEW S, \A i \in S : ~i.global PROVE ~Taken(S)
      BY <3>1, <3>2 DEF Taken, Moving, Moves
    <3>3. ~Taken(notice)
      BY <3>1, <3>2
    <3>4. ASSUME NEW t \in Children PROVE ~Taken(child[t])
      <4>1. \A i \in child[t] : ~i.global
        BY <2>1, <2>3, <3>1 DEF Children, Linked, Before
      <4> QED BY <3>2, <4>1
    <3>5. ~BookmarkTaken
      BY <2>1, <3>1 DEF BookmarkTaken, MovingBookmarks, Moves, Linked
    <3> QED BY <3>3, <3>4, <3>5 DEF Refused, Refuses
  <2> QED BY <2>1, <2>2, <2>3
<1> QED BY <1>1, Invariants, PTL

(* Unless ids were renamed under a batch of the earlier release, no notice *)
(* is announced a second time for having a new id (notify_log among the    *)
(* tables of migrate_global_ids, pending_notices).                         *)
THEOREM AnnouncedOnlyOnce == Spec => []AnnouncedOnce
<1>1. TypeOK /\ IdInv => AnnouncedOnce
  <2> SUFFICES ASSUME TypeOK, IdInv, ~late, NEW n \in Notices PROVE sent[n] <= 1
    BY DEF AnnouncedOnce
  <2>1. sent[n] \in 0..2 /\ sent[n] # 2
    BY DEF TypeOK, IdInv, Recorded
  <2> QED BY <2>1
<1> QED BY <1>1, Invariants, PTL

(* No row of any table is left to rename, and no start is refused.         *)
Settled ==
  /\ \A t \in Children : Moving(child[t]) = {}
  /\ MovingBookmarks = {}
  /\ Moving(notice) = {}
  /\ ~Refused

(* A renaming that is committed leaves nothing to rename, also of what was *)
(* committed after its statements had come past: from there the next start *)
(* changes no row and is not refused, whether or not the earlier batch is  *)
(* still at work (the docstring of migrate_global_ids calls it idempotent; *)
(* notice comes last, and what a row of another table joins decides).      *)
THEOREM RenamingSettles == Spec => [][\A p \in Starting : CommitIds(p) => Settled']_vars
<1>1. ASSUME TypeOK, NEW p \in Starting, CommitIds(p) PROVE Settled'
  <2>1. ASSUME NEW i \in notice' PROVE i.global
    <3>1. PICK j \in notice : i = IF j \in Moving(notice) THEN Global(j) ELSE j
      BY <1>1 DEF CommitIds, Renamed
    <3>2. j \in Id /\ Global(j).global
      BY <1>1, IdTypes DEF TypeOK
    <3> QED BY <3>1, <3>2 DEF Moving, Moves
  <2>2. \A i : ~Moves(i)'
    BY <2>1 DEF Moves
  <2>3. /\ Moving(notice)' = {} /\ MovingBookmarks' = {}
        /\ \A t \in Children : Moving(child[t])' = {}
    BY <2>2 DEF Moving, MovingBookmarks
  <2>4. ~Refused'
    BY <2>2, <2>3 DEF Refused, Refuses, Taken, BookmarkTaken
  <2> QED BY <2>3, <2>4 DEF Settled
<1>2. TypeOK /\ [Next]_vars => [\A p \in Starting : CommitIds(p) => Settled']_vars
  BY <1>1
<1> QED BY <1>2, MigrationTypeCorrect, PTL DEF Spec

(* The commit of a renaming keeps a bookmark with its notice, or does not  *)
(* reach it because it came after the statement.                           *)
LEMMA CommitKeeps ==
  ASSUME TypeOK, IdInv, NEW p \in Starting, CommitIds(p),
         NEW m \in 0..MaxMembers, NEW n \in Notices, Shown(m, n)
  PROVE  Shown(m, n)' \/ Overlooked(m, n)
<1>1. PICK b \in bookmark : b.member = m /\ b.id.of = n /\ b.id \in notice
  BY DEF Shown
<1>2. b \in Bookmark /\ b.id \in Id
  BY DEF TypeOK, Bookmark
<1>3. /\ proc[p] = "notice" /\ proc'[p] \in AfterStart(p)
      /\ notice' = Renamed(notice, Moving(notice)) /\ bookmark' = RenamedBookmarks(marks[p])
  <2>1. PICK step \in AfterStart(p) : proc' = [proc EXCEPT ![p] = step]
    BY DEF CommitIds, Goto
  <2>2. proc \in [Processes -> Steps] /\ p \in Processes
    BY DEF TypeOK, Starting, Processes
  <2> QED BY <2>1, <2>2 DEF CommitIds, Runs
<1>4. CASE b.id.global
  <2>1. b \in bookmark'
    <3>1. WithSource(b) = b
      BY <1>2, <1>4, GlobalStays
    <3> QED BY <1>1, <1>3, <3>1 DEF RenamedBookmarks
  <2>2. b.id \in notice'
    BY <1>1, <1>3, <1>4 DEF Renamed, Moving, Moves
  <2> QED BY <1>1, <2>1, <2>2 DEF Shown
<1>5. CASE ~b.id.global /\ b \in marks[p]
  <2>1. WithSource(b) \in bookmark'
    BY <1>1, <1>3, <1>5 DEF RenamedBookmarks
  <2>2. Global(b.id) \in notice'
    BY <1>1, <1>3, <1>5 DEF Renamed, Moving, Moves
  <2>3. WithSource(b).member = m /\ WithSource(b).id = Global(b.id) /\ Global(b.id).of = n
    BY <1>1, <1>2, SourceTypes, IdTypes
  <2> QED BY <2>1, <2>2, <2>3 DEF Shown
<1>6. CASE ~b.id.global /\ b \notin marks[p]
  <2>1. late
    <3>1. SUFFICES ASSUME ~late PROVE FALSE
      OBVIOUS
    <3>2. Before
      BY <1>1, <1>6, <3>1 DEF IdInv, After
    <3>3. b \in MovingBookmarks
      BY <1>1, <1>6 DEF MovingBookmarks, Moves
    <3> QED BY <1>3, <1>6, <3>2, <3>3 DEF Before, Gathered
  <2>2. b = [member |-> m, id |-> Bare(n)]
    BY <1>1, <1>2, <1>6 DEF Bookmark, Id, Bare
  <2> QED BY <1>1, <1>3, <1>6, <2>1, <2>2 DEF Overlooked
<1> QED BY <1>4, <1>5, <1>6

(* No step of any process takes a bookmark off the page of its member, or  *)
(* an early one off the first member's, but the member's own removal; only *)
(* where ids are renamed under a batch of the earlier release, one set, or *)
(* whose notice was stored, after a renaming had come past bookmark leaves *)
(* the page at the commit (the owner of _ensure_bookmark_member_scope, the *)
(* order of the renamings of migrate_global_ids, bookmark_remove).         *)
THEOREM BookmarksAreKept == Spec => ShownBookmarksAreKept
<1>1. ASSUME TypeOK, IdInv, [Next]_vars, NEW m \in 0..MaxMembers, NEW n \in Notices, Shown(m, n)
      PROVE  Shown(m, n)' \/ (m = Nobody /\ Shown(1, n)') \/ RemovedBy(m, n) \/ Overlooked(m, n)
  <2>1. PICK b \in bookmark : b.member = m /\ b.id.of = n /\ b.id \in notice
    BY <1>1 DEF Shown
  <2>2. b \in Bookmark /\ b.id \in Id
    BY <1>1 DEF TypeOK, Bookmark
  <2>3. ASSUME bookmark \subseteq bookmark', notice \subseteq notice' PROVE Shown(m, n)'
    BY <2>1, <2>3 DEF Shown
  <2>4. ASSUME NEW p \in Starting, Schema(p) PROVE Shown(m, n)' \/ (m = Nobody /\ Shown(1, n)')
    <3>1. CASE UNCHANGED bookmark
      BY <2>3, <2>4, <3>1 DEF Schema, Shown
    <3>2. CASE bookmark' = Owned
      <4>1. CASE m = Nobody
        <5>1. [b EXCEPT !.member = 1] \in bookmark'
          BY <2>1, <3>2, <4>1 DEF Owned
        <5>2. [b EXCEPT !.member = 1].member = 1 /\ [b EXCEPT !.member = 1].id = b.id
          BY <2>2 DEF Bookmark
        <5>3. b.id \in notice'
          BY <2>1, <2>4 DEF Schema
        <5> QED BY <2>1, <4>1, <5>1, <5>2, <5>3 DEF Shown
      <4>2. CASE m # Nobody
        <5>1. b \in bookmark' /\ b.id \in notice'
          BY <2>1, <2>4, <3>2, <4>2 DEF Owned, Schema
        <5> QED BY <2>1, <5>1 DEF Shown
      <4> QED BY <4>1, <4>2
    <3> QED BY <2>4, <3>1, <3>2 DEF Schema
  <2>5. ASSUME NEW p \in Starting, MigrateIds(p) PROVE Shown(m, n)' \/ Overlooked(m, n)
    <3>1. CASE CommitIds(p)
      BY <1>1, <3>1, CommitKeeps
    <3>2. CASE ~CommitIds(p)
      <4>1. UNCHANGED <<notice, bookmark>>
        BY <2>5, <3>2
           DEF MigrateIds, FillNativeIds, RenameIn, RenameBookmarks, StartRefused, BreakDeadlock, EndStart
      <4> QED BY <2>3, <4>1
    <3> QED BY <3>1, <3>2
  <2>6. ASSUME NEW c \in bookmark, RemoveBookmark(c) PROVE Shown(m, n)' \/ RemovedBy(m, n)
    <3>1. CASE b = c
      BY <2>1, <2>6, <3>1 DEF RemovedBy
    <3>2. CASE b # c
      <4>1. b \in bookmark' /\ b.id \in notice'
        BY <2>1, <2>6, <3>2 DEF RemoveBookmark
      <4> QED BY <2>1, <4>1 DEF Shown
    <3> QED BY <3>1, <3>2
  <2>7. ASSUME NEW p \in Batches, Run(p) PROVE Shown(m, n)'
    BY <2>3, <2>7 DEF Run, Collect, Judge, SaveResults, ReadPending, Announce, EndRun
  <2>8. ASSUME NEW p \in Starting, Register(p) \/ ScriptEnds(p) PROVE Shown(m, n)'
    BY <2>3, <2>8 DEF Register, ScriptEnds
  <2>9. ASSUME NEW r \in Requests, PutBookmark(r) \/ AddBookmark(r) PROVE Shown(m, n)'
    BY <2>3, <2>9 DEF PutBookmark, AddBookmark
  <2>10. ASSUME NEW p \in Processes, Die(p) PROVE Shown(m, n)'
    BY <2>3, <2>10 DEF Die
  <2>11. CASE UNCHANGED vars
    BY <2>3, <2>11 DEF vars
  <2> QED BY <1>1, <2>4, <2>5, <2>6, <2>7, <2>8, <2>9, <2>10, <2>11 DEF Next, Start
<1>2. TypeOK /\ IdInv /\ [Next]_vars => [\A m \in 0..MaxMembers, n \in Notices : Keeps(m, n)]_vars
  BY <1>1 DEF Keeps
<1> QED BY <1>2, Invariants, PTL DEF Spec, ShownBookmarksAreKept
=============================================================================
