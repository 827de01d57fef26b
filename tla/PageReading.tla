---------------------------- MODULE PageReading ----------------------------
(***************************************************************************)
(* Reading one playlist page by page and collecting the result             *)
(* (providers/spotify_playlist_reader.py, apple_music.py, youtube.py and   *)
(* collect_playlist of application/library_import.py), while a user may    *)
(* edit the playlist and the provider may answer anything.                 *)
(*                                                                         *)
(* Three kinds of adapters: "offset" (Spotify and Apple Music, which       *)
(* number the occurrences themselves), "token" (YouTube, whose items have  *)
(* identities), and "any", an adapter of which nothing but the validation  *)
(* in the constructor of its pages is known.                               *)
(***************************************************************************)
EXTENDS PageCollection, SequencesExt

CONSTANTS
  Playlists,     \* the playlists to start from: sequences of distinct items
  Items,         \* the items of playlists
  Strays,        \* the items a provider may answer with when it is wrong
  PageSize,      \* items a provider returns at most
  MaxPages,      \* max_pages, and bound: the pages of an adapter of kind "any"
  MaxEdits,      \* bound: edits of the playlist while it is read
  AnyPages       \* the pages an adapter of kind "any" may produce

\* What the constructors of a page and of its entries demand.
Constructed(page) ==
  /\ page.complete \in BOOLEAN
  /\ page.complete => page.next = NULL
  /\ page.entries \in Seq(ToSet(page.entries))
  /\ \A e \in ToSet(page.entries) : e.position \in Nat
  /\ \A i, j \in 1..Len(page.entries) :
       i < j => page.entries[i].position < page.entries[j].position

ASSUME PageAssumption ==
  /\ PageSize \in Nat \ {0} /\ MaxPages \in Nat \ {0} /\ MaxEdits \in Nat
  /\ NULL \notin Int
  /\ Strays \subseteq Items
  /\ \A list \in Playlists : list \in Seq(Items) /\ IsInjective(list)
  /\ \A page \in AnyPages : Constructed(page)

VARIABLES
  adapter,    \* the kind of the adapter
  honest,     \* does the provider answer correctly?
  content,    \* the playlist at the provider
  edits,      \* edits since the read began
  asked,      \* the offset or page token of the next request; NULL for the first token
  seen        \* the offsets or tokens used so far

readingVars == <<adapter, honest, content, edits, asked, seen, collector>>

environment == <<adapter, honest, content, edits>>

Reading == phase = "reading"

ReadingInit ==
  /\ adapter \in {"offset", "token", "any"}
  /\ honest  \in BOOLEAN
  /\ IF honest /\ adapter # "any" THEN content \in Playlists ELSE content = <<>>
  /\ edits   = 0
  /\ pages   = <<>>
  /\ asked   = IF adapter = "offset" THEN 0 ELSE NULL
  /\ seen    = {}
  /\ phase   = "reading"
  /\ at      = Start
  /\ result  = Nothing

\* Fault: the same request is sent again.
RefuseAgain == UNCHANGED <<collector, asked, seen>>

\* ProviderApiError: PROVIDER_CONTRACT_CHANGED.
Refuse == phase' = "refused" /\ UNCHANGED <<pages, asked, seen, at, result>>

\* The stream ends or goes on.
Accept(page) ==
  /\ pages' = Append(pages, page)
  /\ seen'  = seen \cup {asked}
  /\ asked' = page.next
  /\ IF page.next = NULL THEN Collect(pages') ELSE UNCHANGED <<phase, at, result>>

-----------------------------------------------------------------------------
(* The provider (external): where it is asked to start, what it returns    *)

Slice(from) ==
  [k \in 1..(IF Len(content) < from + PageSize THEN Len(content) - from ELSE PageSize)
     |-> content[from + k]]

\* Items and the next position, NULL at the end of the playlist.
HonestAnswers(from) ==
  IF from >= Len(content) THEN {[items |-> <<>>, next |-> NULL]}
  ELSE {[items |-> Slice(from),
         next  |-> IF from + PageSize < Len(content) THEN from + PageSize ELSE NULL]}

WrongAnswers ==
  [items : UNION {[1..k -> Strays] : k \in 0..PageSize}, next : 0..(2 * PageSize) \cup {NULL}]

Answers(from) == IF honest THEN HonestAnswers(from) ELSE WrongAnswers

-----------------------------------------------------------------------------
(* The adapters *)

\* Fault: positions start again on every page.
PositionOnPage == 0

\* Positions read so far: what the loop adds up.
Position ==
  IF pages = <<>> THEN 0
  ELSE LET last == pages[Len(pages)].entries IN
       IF last = <<>> THEN 0 ELSE last[Len(last)].position + 1

\* An adapter of offsets numbers the occurrences; one of tokens is given their names.
OffsetEntry(k, item) == [id |-> asked + k - 1, position |-> asked + k - 1, track |-> item]

TokenEntry(k, item) == [id |-> item, position |-> Position + k - 1, track |-> item]

\* Fault: every page is declared complete.
PageComplete(entries, cursor, next) ==
  [entries |-> entries, cursor |-> cursor, next |-> next, complete |-> TRUE]

Page(entries, cursor, next) ==
  [entries |-> entries, cursor |-> cursor, next |-> next, complete |-> next = NULL]

\* The next link must continue where this page ends.
Continues(answer) ==
  answer.next = NULL \/ answer.next = asked + Len(answer.items)

MayAsk == Len(pages) < MaxPages /\ asked \notin seen

ReadOffset ==
  /\ Reading /\ adapter = "offset"
  /\ IF ~MayAsk THEN Refuse
     ELSE \E answer \in Answers(asked) :
            IF (answer.next # NULL /\ answer.items = <<>>) \/ ~Continues(answer) THEN Refuse
            ELSE Accept(Page([k \in 1..Len(answer.items) |-> OffsetEntry(k, answer.items[k])],
                             IF pages = <<>> THEN NULL ELSE asked, answer.next))
  /\ UNCHANGED environment

\* A token is opaque to the reader; the position an item claims, if it claims
\* one, must be the one the reader counts.
ReadToken ==
  /\ Reading /\ adapter = "token"
  /\ IF ~MayAsk THEN Refuse
     ELSE \E answer \in Answers(IF asked = NULL THEN 0 ELSE asked), misplaced \in BOOLEAN :
            /\ honest => ~misplaced
            /\ IF misplaced \/ (answer.next # NULL /\ answer.items = <<>>) THEN Refuse
               ELSE Accept(Page([k \in 1..Len(answer.items) |-> TokenEntry(k, answer.items[k])],
                                asked, answer.next))
  /\ UNCHANGED environment

ReadAny ==
  /\ Reading /\ adapter = "any"
  /\ \/ /\ Len(pages) < MaxPages
        /\ \E page \in AnyPages : pages' = Append(pages, page)
        /\ UNCHANGED <<asked, seen, phase, at, result>>
     \/ Collect(pages) /\ UNCHANGED <<pages, asked, seen>>
     \/ Refuse
  /\ UNCHANGED environment

Edit ==
  /\ Reading /\ honest /\ adapter # "any" /\ edits < MaxEdits
  /\ edits' = edits + 1
  /\ \/ \E k \in 1..Len(content) : content' = RemoveAt(content, k)
     \/ \E k \in 1..(Len(content) + 1), item \in Items \ ToSet(content) :
          content' = InsertAt(content, k, item)
  /\ UNCHANGED <<adapter, honest, asked, seen, collector>>

Read == ReadOffset \/ ReadToken \/ ReadAny

CollectPages == Loop /\ UNCHANGED <<environment, asked, seen>>

ReadingNext == Read \/ Edit \/ CollectPages

\* A read goes on: each of its steps is the next statement of one thread.
ReadingFairness == WF_readingVars(Read \/ CollectPages)

ReadingSpec == ReadingInit /\ [][ReadingNext]_readingVars /\ ReadingFairness

-----------------------------------------------------------------------------
(* Properties *)

\* Pages and results have the shapes the collector relies on.
ReadingTypeOK ==
  /\ adapter \in {"offset", "token", "any"} /\ honest \in BOOLEAN
  /\ edits \in 0..MaxEdits /\ ToSet(content) \subseteq Items
  /\ Len(pages) <= MaxPages
  /\ \A page \in ToSet(pages) : Constructed(page)
  /\ phase \in {"reading", "refused", "collecting", "collected"}
  /\ at.page \in 1..(Len(pages) + 1)
  /\ result.complete \in BOOLEAN
  /\ result.issues \subseteq Issues

\* Read from a provider that answers correctly while nobody edits it, a playlist
\* that fits the page limit arrives complete and in order; one that does not fit
\* is refused rather than truncated.
QuietReadIsFaithful ==
  honest /\ edits = 0 /\ adapter # "any" /\ phase \in {"refused", "collected"} =>
    IF Len(content) > MaxPages * PageSize THEN phase = "refused"
    ELSE /\ Done /\ result.complete
         /\ {<<e.position, e.track>> : e \in result.entries} =
              {<<k - 1, content[k]>> : k \in 1..Len(content)}

\* No provider can keep a reader reading for ever.
ReadEnds == <>(phase \in {"refused", "collected"})
=============================================================================
