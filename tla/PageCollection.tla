--------------------------- MODULE PageCollection ---------------------------
(***************************************************************************)
(* collect_playlist_pages (providers/importing.py): what is made of the    *)
(* pages of one playlist, in a loop over pages and their entries.          *)
(*                                                                         *)
(* A page has entries (ordered by position, as its constructor demands), a *)
(* cursor, a next cursor and the flag complete; an entry has the id of its *)
(* occurrence, a position and a track.  Pages of another playlist never    *)
(* get here: the caller refuses them.                                      *)
(***************************************************************************)
EXTENDS Integers, Sequences, FiniteSets, SqlNull

VARIABLES
  pages,     \* the pages that were read
  phase,     \* "reading", "refused", "collecting" or "collected"
  at,        \* the loop: page, and entry of that page; 0 before the first entry
  result     \* entries, cursors and issues so far

collector == <<pages, phase, at, result>>

\* `entries' is kept without its order, which is by position, and so is `issues'.
Nothing == [entries |-> {}, cursors |-> {}, nexts |-> {}, issues |-> {}, complete |-> TRUE]

Start == [page |-> 1, entry |-> 0]

Note(s, issue) == [s EXCEPT !.issues = @ \cup {issue}]

Reject(s, issue) == [Note(s, issue) EXCEPT !.complete = FALSE]

\* The checks before the loop: some page, and the first one an initial page.
Opened(all) ==
  IF all = <<>> THEN Reject(Nothing, "no_pages")
  ELSE IF all[1].cursor # NULL THEN Reject(Nothing, "missing_continuation")
  ELSE Nothing

SeeCursor(s, page) ==
  IF page.cursor = NULL THEN s
  ELSE [(IF page.cursor \in s.cursors THEN Reject(s, "repeated_cursor") ELSE s)
          EXCEPT !.cursors = @ \cup {page.cursor}]

SeeNext(s, page) ==
  IF page.next = NULL THEN s
  ELSE [(IF page.next \in s.nexts THEN Reject(s, "repeated_cursor") ELSE s)
          EXCEPT !.nexts = @ \cup {page.next}]

\* Fault: the later of two conflicting entries is dropped as a duplicate.
AddedCollapsing(s, e) ==
  IF \E known \in s.entries : known.id = e.id THEN Note(s, "duplicate_occurrence")
  ELSE [s EXCEPT !.entries = @ \cup {e}]

Added(s, e) ==
  IF e \in s.entries THEN Note(s, "duplicate_occurrence")
  ELSE IF \E known \in s.entries : known.id = e.id THEN Reject(s, "conflicting_occurrence")
  ELSE [s EXCEPT !.entries = @ \cup {e}]

\* Each page but the last names the next one; the last is complete.
Linked(s, all, i) ==
  IF i < Len(all)
  THEN IF all[i].next = NULL \/ all[i].next # all[i + 1].cursor
       THEN Reject(s, "missing_continuation") ELSE s
  ELSE IF ~all[i].complete THEN Reject(s, "missing_continuation")
  ELSE [s EXCEPT !.complete = @ /\ all[i].next = NULL]

Positions(entries) == {e.position : e \in entries}

\* Sorted by position, every entry is at the index it says.
InPlace(entries) ==
  /\ Cardinality(Positions(entries)) = Cardinality(entries)
  /\ Positions(entries) = 0..(Cardinality(entries) - 1)

-----------------------------------------------------------------------------

\* The stream has ended.
Collect(all) ==
  /\ phase' = IF all = <<>> THEN "collected" ELSE "collecting"
  /\ at' = Start
  /\ result' = Opened(all)

BeginPage ==
  /\ phase = "collecting" /\ at.page <= Len(pages) /\ at.entry = 0
  /\ result' = SeeNext(SeeCursor(result, pages[at.page]), pages[at.page])
  /\ at' = [at EXCEPT !.entry = 1]
  /\ UNCHANGED <<pages, phase>>

TakeEntry ==
  /\ phase = "collecting" /\ at.page <= Len(pages)
  /\ at.entry \in 1..Len(pages[at.page].entries)
  /\ result' = Added(result, pages[at.page].entries[at.entry])
  /\ at' = [at EXCEPT !.entry = @ + 1]
  /\ UNCHANGED <<pages, phase>>

EndPage ==
  /\ phase = "collecting" /\ at.page <= Len(pages)
  /\ at.entry > Len(pages[at.page].entries)
  /\ result' = Linked(result, pages, at.page)
  /\ at' = [page |-> at.page + 1, entry |-> 0]
  /\ UNCHANGED <<pages, phase>>

Conclude ==
  /\ phase = "collecting" /\ at.page > Len(pages)
  /\ result' = IF InPlace(result.entries) THEN result
               ELSE Reject(result, "missing_continuation")
  /\ phase' = "collected"
  /\ UNCHANGED <<pages, at>>

Loop == BeginPage \/ TakeEntry \/ EndPage \/ Conclude

-----------------------------------------------------------------------------
(* What the result should be, without a loop *)

EntriesOf(all) == UNION {{all[i].entries[k] : k \in DOMAIN all[i].entries} : i \in DOMAIN all}

\* The pages are one unbroken chain from an initial to a final page, agree about
\* every occurrence and cover the positions from 0 on.
Whole(all) ==
  /\ all # <<>>
  /\ all[1].cursor = NULL
  /\ \A i \in 1..(Len(all) - 1) : all[i].next # NULL /\ all[i].next = all[i + 1].cursor
  /\ \A i, j \in 1..Len(all) : all[i].cursor = all[j].cursor => i = j
  /\ all[Len(all)].complete /\ all[Len(all)].next = NULL
  /\ \A e, f \in EntriesOf(all) : e.id = f.id \/ e.position = f.position => e = f
  /\ \A e \in EntriesOf(all) :
       \A k \in 0..e.position : \E f \in EntriesOf(all) : f.position = k

Done == phase = "collected"

Issues == {"no_pages", "missing_continuation", "repeated_cursor",
           "conflicting_occurrence", "duplicate_occurrence"}

\* Whatever an adapter delivers, the loop calls a result complete exactly if the
\* pages are whole, and the result then holds every entry of every page; it names
\* an issue other than overlapping pages exactly if it is incomplete.
CompleteMeansWhole ==
  Done => /\ result.complete <=> Whole(pages)
          /\ result.complete => result.entries = EntriesOf(pages)
          /\ result.complete <=> result.issues \subseteq {"duplicate_occurrence"}
=============================================================================
