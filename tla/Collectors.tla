----------------------------- MODULE Collectors -----------------------------
(***************************************************************************)
(* How src/collectors read the lists of the agencies: page by page and     *)
(* board by board while the lists change, with a cap on the pages, rows    *)
(* that do not validate, error codes under HTTP status 200, requests that  *)
(* fail; and what the batch stores of it, run after run.  The collectors   *)
(* share nothing, so a behaviour is about one source.  The agencies' lists *)
(* are external; their fields are abstracted to the notice, whether it is  *)
(* recruiting and whether it has a link.                                   *)
(***************************************************************************)
EXTENDS Naturals, Sequences, SequencesExt

CONSTANTS
  Sources,     \* the sources to look at
  Postings,    \* what the agencies post
  Unreadable,  \* those whose row does not validate
  Group,       \* HUG: the notice an item is counted into
  Lists,       \* lists the boards may have at first
  PerPage,     \* rows of a page
  MaxPages,    \* max_pages
  MaxEdits,    \* bound: changes of the lists
  MaxFaults    \* bound: requests answered badly or not at all, deaths

ASSUME CollectorsAssumption ==
  /\ Unreadable \subseteq Postings
  /\ PerPage \in Nat \ {0} /\ MaxPages \in Nat \ {0}
  /\ MaxEdits \in Nat /\ MaxFaults \in Nat

VARIABLES
  source,      \* which collector this behaviour is about
  list,        \* the list of each board, newest first
  at,          \* where the batch is with this source
  board, page, \* the request to make next
  out,         \* what the collector has taken, with the place it was read at
  stored,      \* pblanc_no of the rows of notice
  edits, faults,
  (* history of this run, read by no action *)
  moved,       \* rows posted, changed or pulled up by a withdrawal above them
  failed       \* boards with a request that was not answered properly

world == <<list, edits>>
fetch == <<at, board, page, out, failed>>
vars  == <<source, world, fetch, stored, faults, moved>>

AllSources == {"applyhome", "lh", "myhome", "hug", "sh", "gh"}
Paged == {"applyhome", "lh", "myhome"}

(* LH's supply types, of which two stand for four; MyHome's rent and sale; *)
(* SH's lease and sale.                                                    *)
LastBoard == IF source \in {"lh", "myhome", "sh"} THEN 2 ELSE 1
Boards == 1..LastBoard
Lease(b) == source = "sh" /\ b = 1

Row == [of : Postings, open : BOOLEAN, linked : BOOLEAN]

ASSUME ListsAssumption == Lists \subseteq Seq(Row)

(* pblanc_no: SH's sequence number in the link, else its date and a digest *)
(* of its name; HUG's date and region; a number of its own everywhere else.*)
Key(b, row) == [board  |-> IF source = "sh" THEN b ELSE 0,
                of     |-> IF source = "hug" THEN Group[row.of] ELSE row.of,
                linked |-> source = "sh" /\ row.linked]

Skipped(b, row) == row.of \in Unreadable \/ (Lease(b) /\ ~row.open)

Init ==
  /\ source \in Sources
  /\ list \in [Boards -> Lists]
  /\ at = "idle" /\ board = 1 /\ page = 1
  /\ out = {} /\ stored = {} /\ moved = {} /\ failed = {}
  /\ edits = 0 /\ faults = 0

-----------------------------------------------------------------------------
(* The agencies change their lists.                                        *)

Rows(b) == {list[b][i] : i \in DOMAIN list[b]}

Edit(b, new, touched) ==
  /\ edits < MaxEdits
  /\ edits' = edits + 1
  /\ list' = [list EXCEPT ![b] = new]
  /\ moved' = moved \cup {<<b, p>> : p \in touched}
  /\ UNCHANGED <<source, fetch, stored, faults>>

Post(b, row) ==
  /\ \A other \in Rows(b) : other.of # row.of
  /\ row.open /\ (row.linked => source = "sh")
  /\ Edit(b, <<row>> \o list[b], {row.of})

Withdraw(b, i) ==
  Edit(b, RemoveAt(list[b], i), {list[b][j].of : j \in i..Len(list[b])})

Close(b, i) ==
  /\ Lease(b) /\ list[b][i].open
  /\ Edit(b, [list[b] EXCEPT ![i].open = FALSE], {list[b][i].of})

Link(b, i) ==
  /\ source = "sh" /\ ~list[b][i].linked
  /\ Edit(b, [list[b] EXCEPT ![i].linked = TRUE], {list[b][i].of})

-----------------------------------------------------------------------------
(* The collector.                                                          *)

StartFetch ==
  /\ at = "idle"
  /\ at' = "fetch" /\ board' = 1 /\ page' = 1
  /\ out' = {} /\ moved' = {} /\ failed' = {}
  /\ UNCHANGED <<source, world, stored, faults>>

FirstFromZero == page * PerPage + 1  \* mutant: takes the first page for page 0
First == (page - 1) * PerPage + 1
PageRows == {i \in DOMAIN list[board] : First <= i /\ i < First + PerPage}

Keys(entries) == {e.key : e \in entries}

(* The list of applyhome keeps what it reads; the others take a number     *)
(* once, by the set of those seen so far or by grouping.                   *)
AgainOnPage(i) ==                    \* mutant: a new set of numbers for every page
  \E j \in PageRows : /\ j < i /\ ~Skipped(board, list[board][j])
                      /\ Key(board, list[board][j]) = Key(board, list[board][i])
Again(i) ==
  LET key == Key(board, list[board][i]) IN
  /\ source # "applyhome"
  /\ \/ key \in Keys(out)
     \/ \E j \in PageRows : /\ j < i /\ ~Skipped(board, list[board][j])
                            /\ Key(board, list[board][j]) = key

Taken == {[key |-> Key(board, list[board][i]), board |-> board, page |-> page, place |-> i - First]
            : i \in {j \in PageRows : ~Skipped(board, list[board][j]) /\ ~Again(j)}}

(* A short page ends a board; MyHome also counts what it has read against  *)
(* totalCount.  The pages before were full, so the count is the last row's *)
(* place.                                                                  *)
LastPageUncapped ==                  \* mutant: while True
  \/ source \notin Paged
  \/ Len(list[board]) < First + PerPage - 1
LastPageOfTaken ==                   \* mutant: counts what it took, not what it read
  \/ source \notin Paged
  \/ page = MaxPages
  \/ Cardinality(Taken) < PerPage
LastPage ==
  \/ source \notin Paged
  \/ page = MaxPages
  \/ Len(list[board]) < First + PerPage - 1
  \/ source = "myhome" /\ Len(list[board]) <= First + PerPage - 1

NextBoard ==
  IF board = LastBoard
    THEN at' = "store" /\ UNCHANGED <<board, page>>
    ELSE board' = board + 1 /\ page' = 1 /\ UNCHANGED at

ReadPage ==
  /\ at = "fetch"
  /\ out' = out \cup Taken
  /\ IF LastPage THEN NextBoard ELSE page' = page + 1 /\ UNCHANGED <<at, board>>
  /\ UNCHANGED <<source, world, stored, faults, moved, failed>>

Fault == faults < MaxFaults /\ faults' = faults + 1

(* Status 200 with SS_CODE or resultCode of an error, NetFunnel's queue, an *)
(* answer that is no list or has no rows: the board is over, what was read *)
(* of it stays.                                                            *)
AnswersError ==
  /\ at = "fetch"
  /\ Fault
  /\ failed' = failed \cup {board}
  /\ NextBoard
  /\ UNCHANGED <<source, world, out, stored, moved>>

(* Without a readable totalCount it is 0, which any page reaches.          *)
TotalMissing ==
  /\ at = "fetch" /\ source = "myhome" /\ PageRows # {}
  /\ Fault
  /\ out' = out \cup Taken
  /\ failed' = failed \cup {board}
  /\ NextBoard
  /\ UNCHANGED <<source, world, stored, moved>>

(* An exception loses the whole source: _safe puts an empty list.          *)
RequestFails ==
  /\ at = "fetch"
  /\ Fault
  /\ at' = "store" /\ out' = {} /\ failed' = Boards
  /\ UNCHANGED <<source, world, board, page, stored, moved>>

(* upsert_notices; notices are never deleted.                              *)
Store ==
  /\ at = "store"
  /\ stored' = stored \cup Keys(out)
  /\ at' = "idle"
  /\ UNCHANGED <<source, world, board, page, out, failed, faults, moved>>

Die ==
  /\ at # "idle"
  /\ Fault
  /\ at' = "idle"
  /\ UNCHANGED <<source, world, board, page, out, failed, stored, moved>>

Agency ==
  \E b \in Boards :
    \/ \E row \in Row : Post(b, row)
    \/ \E i \in DOMAIN list[b] : Withdraw(b, i) \/ Close(b, i) \/ Link(b, i)

Batch == StartFetch \/ ReadPage \/ Store

Next == Agency \/ Batch \/ AnswersError \/ TotalMissing \/ RequestFails \/ Die

Spec == Init /\ [][Next]_vars
FairSpec == Spec /\ WF_vars(Batch)

-----------------------------------------------------------------------------
(* Properties.                                                             *)

Numbers == {Key(b, row) : b \in Boards, row \in Row}
Entry == [key : Numbers, board : Boards, page : 1..MaxPages, place : 0..PerPage-1]

TypeOK ==
  /\ source \in Sources
  /\ list \in [Boards -> Seq(Row)]
  /\ at \in {"idle", "fetch", "store"}
  /\ board \in Boards /\ page \in 1..MaxPages
  /\ out \subseteq Entry
  /\ stored \subseteq Numbers
  /\ moved \subseteq Boards \X Postings /\ failed \subseteq Boards
  /\ edits \in 0..MaxEdits /\ faults \in 0..MaxFaults

(* No notice is taken twice, though a posting between two requests pushes  *)
(* rows to the next page and a notice may be listed under two types; only  *)
(* applyhome's list may repeat one, and leaves it to upsert_notices        *)
(* (fetch_lh_notices, fetch_myhome_notices, aggregate).                    *)
TakenOnce ==
  source # "applyhome" => \A e, f \in out : e.key = f.key => e = f

(* A row that is listed all the while is taken, wherever the pages were    *)
(* cut, unless a row above it is withdrawn between two requests, its board *)
(* answers an error, or it stands beyond the last page: neither postings   *)
(* nor rows that do not validate nor the other boards' errors cost a       *)
(* notice (the loops of fetch_lh_notices, _fetch_all,                      *)
(* fetch_myhome_notices).                                                  *)
Reach == IF source \in Paged THEN MaxPages * PerPage ELSE PerPage
SteadyRowsAreTaken ==
  at = "store" =>
    \A b \in Boards : b \notin failed =>
      \A i \in DOMAIN list[b] :
        LET row == list[b][i] IN
        i <= Reach /\ <<b, row.of>> \notin moved /\ ~Skipped(b, row)
          => Key(b, row) \in Keys(out)

(* A row that stays listed within reach is stored in some run, whatever    *)
(* was missed before (every run reads the lists anew; the timer).          *)
Listed(b, p) ==
  \E i \in DOMAIN list[b] :
    /\ i <= Reach /\ list[b][i].of = p /\ ~Skipped(b, list[b][i])
    /\ Key(b, list[b][i]) \notin stored
EventuallyStored == \A b \in {1, 2}, p \in Postings : ~ <>[](b \in Boards /\ Listed(b, p))
=============================================================================
