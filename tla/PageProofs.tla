----------------------------- MODULE PageProofs -----------------------------
(***************************************************************************)
(* A collected reading is called complete exactly if its pages are whole,  *)
(* for lists of any number of pages of any length, from any adapter whose  *)
(* pages pass their constructor.  The loop invariant says what a pass over *)
(* the entries so far has established; the last step, from distinct        *)
(* positions that are counted to positions without a gap, is a fact about  *)
(* finite sets of naturals.                                                *)
(***************************************************************************)
EXTENDS PageReading, FiniteSetTheorems, SequenceTheorems, TLAPS

IsTuple(s) == s \in Seq(ToSet(s))

LEMMA TupleFacts ==
  ASSUME NEW s, IsTuple(s)
  PROVE  /\ Len(s) \in Nat /\ DOMAIN s = 1..Len(s)
         /\ s = <<>> <=> Len(s) = 0
         /\ ToSet(s) = {s[i] : i \in 1..Len(s)}
  BY LenProperties, EmptySeq DEF IsTuple, ToSet

LEMMA CountedTuple ==
  ASSUME NEW n \in Nat, NEW T, NEW f \in [1..n -> T]
  PROVE  IsTuple(f) /\ Len(f) = n
<1>1. f \in [1..n -> ToSet(f)]
  BY DEF ToSet
<1>2. f \in Seq(ToSet(f))
  BY <1>1, SeqDef
<1>3. Len(f) \in Nat /\ 1..Len(f) = 1..n
  BY <1>1, <1>2, LenProperties
<1>4. n # 0 => n \in 1..Len(f)
  BY <1>3
<1>5. Len(f) # 0 => Len(f) \in 1..n
  BY <1>3
<1>6. Len(f) = n
  BY <1>3, <1>4, <1>5
<1> QED
  BY <1>2, <1>6 DEF IsTuple

LEMMA TupleAppend ==
  ASSUME NEW s, IsTuple(s), NEW x
  PROVE  LET t == Append(s, x)
         IN  /\ IsTuple(t) /\ Len(t) = Len(s) + 1 /\ t # <<>>
             /\ \A i \in 1..Len(s) : t[i] = s[i]
             /\ t[Len(s) + 1] = x
             /\ ToSet(t) = ToSet(s) \cup {x}
<1> DEFINE S == ToSet(s) \cup {x}
           t == Append(s, x)
<1>1. s \in Seq(S) /\ x \in S
  BY SeqMonotonic DEF IsTuple
<1>2. /\ t \in Seq(S) /\ Len(t) = Len(s) + 1
      /\ \A i \in 1..Len(s) : t[i] = s[i]
      /\ t[Len(s) + 1] = x
  BY <1>1, AppendProperties
<1>3. Len(s) \in Nat /\ DOMAIN t = 1..(Len(s) + 1) /\ ToSet(s) = {s[i] : i \in 1..Len(s)}
  BY <1>1, <1>2, LenProperties, TupleFacts
<1> HIDE DEF t
<1>4. ToSet(t) = S
  <2>1. 1..(Len(s) + 1) = (1..Len(s)) \cup {Len(s) + 1}
    BY <1>3
  <2> QED
    BY <1>2, <1>3, <2>1 DEF ToSet
<1>5. t # <<>>
  BY <1>2, <1>3, EmptySeq
<1> QED
  BY <1>2, <1>4, <1>5 DEF IsTuple, t

-----------------------------------------------------------------------------
(* Positions without a gap *)

LEMMA SegmentOfNaturals ==
  ASSUME NEW D \in SUBSET Nat, IsFiniteSet(D),
         \A x \in D : \A y \in 0..x : y \in D
  PROVE  D = 0..(Cardinality(D) - 1)
<1> DEFINE n == Cardinality(D)
<1>1. n \in Nat
  BY FS_CardinalityType
<1>2. ASSUME NEW x \in D
      PROVE  x <= n - 1
  <2> SUFFICES ASSUME x >= n
               PROVE  FALSE
    BY <1>1, <1>2
  <2>1. x \in Nat /\ 0..n \subseteq 0..x
    BY <1>1
  <2>2. 0..n \in SUBSET D
    BY <1>2, <2>1
  <2>3. Cardinality(0..n) = n + 1
    BY <1>1, FS_Interval
  <2>4. Cardinality(0..n) <= n
    BY <2>2, FS_Subset
  <2> QED
    BY <1>1, <2>3, <2>4
<1>3. D \in SUBSET (0..(n - 1))
  BY <1>1, <1>2
<1>4. IsFiniteSet(0..(n - 1)) /\ Cardinality(0..(n - 1)) = n
  <2>1. n - 1 \in Int /\ 0 \in Int
    BY <1>1
  <2> QED
    BY <1>1, <2>1, FS_Interval
<1> HIDE DEF n
<1>5. Cardinality(D) = n
  BY DEF n
<1> QED
  BY <1>3, <1>4, <1>5, FS_Subset DEF n

\* Every entry is at the index it says exactly if no two entries share a position
\* and no position is left out.
LEMMA InPlaceMeansWhole ==
  ASSUME NEW E, IsFiniteSet(E), \A e \in E : e.position \in Nat
  PROVE  InPlace(E) <=>
           /\ \A e, f \in E : e.position = f.position => e = f
           /\ \A e \in E : \A k \in 0..e.position : \E f \in E : f.position = k
<1> DEFINE f == [e \in E |-> e.position]
           D == Positions(E)
           n == Cardinality(E)
<1>1. f \in Surjection(E, D)
  BY DEF Surjection, Positions
<1>2. IsFiniteSet(D) /\ (Cardinality(D) = n <=> f \in Injection(E, D))
  BY <1>1, FS_Surjection
<1>3. f \in Injection(E, D) <=> \A e, g \in E : e.position = g.position => e = g
  BY DEF Injection, IsInjective, Positions
<1>4. D \in SUBSET Nat
  BY DEF Positions
<1>5. ASSUME D = 0..(n - 1)
      PROVE  \A e \in E : \A k \in 0..e.position : \E g \in E : g.position = k
  <2> SUFFICES ASSUME NEW e \in E, NEW k \in 0..e.position
               PROVE  \E g \in E : g.position = k
    OBVIOUS
  <2>1. n \in Nat
    BY FS_CardinalityType
  <2>2. e.position \in D
    BY DEF Positions
  <2>3. k \in D
    BY <1>5, <2>1, <2>2
  <2> QED
    BY <2>3 DEF Positions
<1>6. ASSUME Cardinality(D) = n,
             \A e \in E : \A k \in 0..e.position : \E g \in E : g.position = k
      PROVE  D = 0..(n - 1)
  <2>1. \A x \in D : \A y \in 0..x : y \in D
    BY <1>6 DEF Positions
  <2> QED
    BY <1>2, <1>4, <1>6, <2>1, SegmentOfNaturals
<1> HIDE DEF f
<1> QED
  BY <1>2, <1>3, <1>5, <1>6 DEF InPlace

-----------------------------------------------------------------------------
(* The loop *)

\* The loop is at entry k of page p: the cursors of page i were looked at ...
PageOpened(i, p, k) == i < p \/ (i = p /\ k > 0)

\* ... and entry j of page i was taken.
EntryPassed(i, j, p, k) == i < p \/ (i = p /\ j < k)

Taken(all, p, k) ==
  {e \in EntriesOf(all) :
     \E i \in 1..Len(all) : \E j \in 1..Len(all[i].entries) :
       EntryPassed(i, j, p, k) /\ e = all[i].entries[j]}

Joined(all, i) ==
  IF i < Len(all) THEN all[i].next # NULL /\ all[i].next = all[i + 1].cursor
  ELSE all[i].complete /\ all[i].next = NULL

\* Nothing that the loop has seen keeps the pages from being whole.
WholeSoFar(all, p, k) ==
  /\ all[1].cursor = NULL
  /\ \A i, j \in 1..Len(all) :
       /\ PageOpened(i, p, k) /\ PageOpened(j, p, k) /\ i # j
       => /\ all[i].cursor # NULL => all[i].cursor # all[j].cursor
          /\ all[i].next # NULL => all[i].next # all[j].next
  /\ \A e, f \in Taken(all, p, k) : e.id = f.id => e = f
  /\ \A i \in 1..Len(all) : i < p => Joined(all, i)

\* A result of the shape the loop builds; it names an issue, other than pages that
\* overlap, exactly if it is incomplete.
Tidy(r) ==
  /\ r \in [entries : {r.entries}, cursors : {r.cursors}, nexts : {r.nexts},
            issues : SUBSET Issues, complete : BOOLEAN]
  /\ IsFiniteSet(r.entries)
  /\ r.complete <=> r.issues \subseteq {"duplicate_occurrence"}

Place(all, p, k) ==
  /\ p \in 1..(Len(all) + 1) /\ k \in Nat
  /\ IF p <= Len(all) THEN k <= Len(all[p].entries) + 1 ELSE k = 0

LoopInv(all, p, k, r) ==
  /\ Place(all, p, k) /\ Tidy(r)
  /\ \A c : c \in r.cursors <=>
       c # NULL /\ \E i \in 1..Len(all) : PageOpened(i, p, k) /\ all[i].cursor = c
  /\ \A c : c \in r.nexts <=>
       c # NULL /\ \E i \in 1..Len(all) : PageOpened(i, p, k) /\ all[i].next = c
  /\ r.complete <=> WholeSoFar(all, p, k)
  /\ r.complete => r.entries = Taken(all, p, k)

\* A list of pages as the constructors make them.
Listing(all) == IsTuple(all) /\ \A i \in 1..Len(all) : Constructed(all[i])

LEMMA RejectedResult ==
  ASSUME NEW r, Tidy(r), NEW issue \in Issues \ {"duplicate_occurrence"}
  PROVE  LET new == Reject(r, issue)
         IN  /\ Tidy(new) /\ ~new.complete
             /\ new.entries = r.entries /\ new.cursors = r.cursors /\ new.nexts = r.nexts
  BY DEF Tidy, Reject, Note

LEMMA ListingFacts ==
  ASSUME NEW all, Listing(all)
  PROVE  /\ Len(all) \in Nat /\ DOMAIN all = 1..Len(all)
         /\ \A i \in 1..Len(all) :
              /\ Len(all[i].entries) \in Nat
              /\ DOMAIN all[i].entries = 1..Len(all[i].entries)
              /\ \A j \in 1..Len(all[i].entries) :
                   /\ all[i].entries[j] \in EntriesOf(all)
                   /\ all[i].entries[j].position \in Nat
         /\ \A e \in EntriesOf(all) :
              \E i \in 1..Len(all) : \E j \in 1..Len(all[i].entries) :
                e = all[i].entries[j] /\ e.position \in Nat
<1>1. Len(all) \in Nat /\ DOMAIN all = 1..Len(all)
  BY TupleFacts DEF Listing
<1>2. ASSUME NEW i \in 1..Len(all)
      PROVE  /\ Len(all[i].entries) \in Nat
             /\ DOMAIN all[i].entries = 1..Len(all[i].entries)
             /\ \A j \in 1..Len(all[i].entries) : all[i].entries[j].position \in Nat
  BY <1>2, TupleFacts DEF Listing, Constructed, IsTuple
<1>3. EntriesOf(all) =
        UNION {{all[i].entries[k] : k \in 1..Len(all[i].entries)} : i \in 1..Len(all)}
  BY <1>1, <1>2 DEF EntriesOf
<1>4. ASSUME NEW i \in 1..Len(all), NEW j \in 1..Len(all[i].entries)
      PROVE  all[i].entries[j] \in EntriesOf(all)
  BY <1>3
<1>5. ASSUME NEW e \in EntriesOf(all)
      PROVE  \E i \in 1..Len(all) : \E j \in 1..Len(all[i].entries) : e = all[i].entries[j]
  BY <1>3
<1>6. ASSUME NEW e \in EntriesOf(all)
      PROVE  \E i \in 1..Len(all) : \E j \in 1..Len(all[i].entries) :
               e = all[i].entries[j] /\ e.position \in Nat
  BY <1>2, <1>5
<1> QED
  BY <1>1, <1>2, <1>4, <1>6

LEMMA LoopStarts ==
  ASSUME NEW all, Listing(all), all # <<>>
  PROVE  LoopInv(all, 1, 0, Opened(all))
<1>1. Len(all) \in Nat /\ Len(all) # 0 /\ 1 \in 1..Len(all)
  BY TupleFacts DEF Listing
<1>2. Tidy(Nothing) /\ Nothing.entries = {} /\ Nothing.cursors = {} /\ Nothing.nexts = {}
      /\ Nothing.complete
  BY FS_EmptySet DEF Tidy, Nothing
<1>3. /\ Tidy(Opened(all)) /\ Opened(all).entries = {}
      /\ Opened(all).cursors = {} /\ Opened(all).nexts = {}
      /\ Opened(all).complete <=> all[1].cursor = NULL
  BY <1>2, RejectedResult DEF Opened, Issues
<1>4. /\ \A i \in 1..Len(all) : ~PageOpened(i, 1, 0)
      /\ \A i \in 1..Len(all) : \A j \in 1..Len(all[i].entries) : ~EntryPassed(i, j, 1, 0)
  BY <1>1, ListingFacts DEF PageOpened, EntryPassed
<1>5. Taken(all, 1, 0) = {}
  BY <1>4 DEF Taken
<1>6. WholeSoFar(all, 1, 0) <=> all[1].cursor = NULL
  BY <1>1, <1>4, <1>5 DEF WholeSoFar
<1>7. Place(all, 1, 0)
  BY <1>1, ListingFacts DEF Place
<1> QED
  BY <1>3, <1>4, <1>5, <1>6, <1>7 DEF LoopInv

\* The cursors of a page: both tables grow, and a cursor seen before is an issue.
LEMMA CursorSeen ==
  ASSUME NEW r, Tidy(r), NEW page
  PROVE  LET new == SeeCursor(r, page)
         IN  /\ Tidy(new) /\ new.entries = r.entries /\ new.nexts = r.nexts
             /\ \A c : c \in new.cursors <=> c \in r.cursors \/ (c # NULL /\ c = page.cursor)
             /\ new.complete <=> r.complete /\ ~(page.cursor # NULL /\ page.cursor \in r.cursors)
<1>1. Tidy(Reject(r, "repeated_cursor")) /\ ~Reject(r, "repeated_cursor").complete
      /\ Reject(r, "repeated_cursor").entries = r.entries
      /\ Reject(r, "repeated_cursor").cursors = r.cursors
      /\ Reject(r, "repeated_cursor").nexts = r.nexts
  BY RejectedResult DEF Issues
<1>2. ASSUME NEW s, Tidy(s)
      PROVE  LET new == [s EXCEPT !.cursors = @ \cup {page.cursor}]
             IN  /\ Tidy(new) /\ new.entries = s.entries /\ new.nexts = s.nexts
                 /\ new.cursors = s.cursors \cup {page.cursor} /\ new.complete = s.complete
  BY <1>2 DEF Tidy
<1>3. CASE page.cursor = NULL
  BY <1>3 DEF SeeCursor
<1>4. CASE page.cursor # NULL /\ page.cursor \in r.cursors
  BY <1>1, <1>2, <1>4 DEF SeeCursor
<1>5. CASE page.cursor # NULL /\ page.cursor \notin r.cursors
  BY <1>2, <1>5 DEF SeeCursor
<1> QED
  BY <1>3, <1>4, <1>5

LEMMA NextSeen ==
  ASSUME NEW r, Tidy(r), NEW page
  PROVE  LET new == SeeNext(r, page)
         IN  /\ Tidy(new) /\ new.entries = r.entries /\ new.cursors = r.cursors
             /\ \A c : c \in new.nexts <=> c \in r.nexts \/ (c # NULL /\ c = page.next)
             /\ new.complete <=> r.complete /\ ~(page.next # NULL /\ page.next \in r.nexts)
<1>1. Tidy(Reject(r, "repeated_cursor")) /\ ~Reject(r, "repeated_cursor").complete
      /\ Reject(r, "repeated_cursor").entries = r.entries
      /\ Reject(r, "repeated_cursor").cursors = r.cursors
      /\ Reject(r, "repeated_cursor").nexts = r.nexts
  BY RejectedResult DEF Issues
<1>2. ASSUME NEW s, Tidy(s)
      PROVE  LET new == [s EXCEPT !.nexts = @ \cup {page.next}]
             IN  /\ Tidy(new) /\ new.entries = s.entries /\ new.cursors = s.cursors
                 /\ new.nexts = s.nexts \cup {page.next} /\ new.complete = s.complete
  BY <1>2 DEF Tidy
<1>3. CASE page.next = NULL
  BY <1>3 DEF SeeNext
<1>4. CASE page.next # NULL /\ page.next \in r.nexts
  BY <1>1, <1>2, <1>4 DEF SeeNext
<1>5. CASE page.next # NULL /\ page.next \notin r.nexts
  BY <1>2, <1>5 DEF SeeNext
<1> QED
  BY <1>3, <1>4, <1>5

LEMMA PageBegun ==
  ASSUME NEW all, Listing(all), NEW p \in 1..Len(all), NEW r, LoopInv(all, p, 0, r)
  PROVE  LoopInv(all, p, 1, SeeNext(SeeCursor(r, all[p]), all[p]))
<1> DEFINE s == SeeCursor(r, all[p])
           t == SeeNext(s, all[p])
<1>1. Len(all) \in Nat /\ p \in Nat /\ Len(all[p].entries) \in Nat
  BY ListingFacts
<1>2. Tidy(r)
  BY DEF LoopInv
<1>3. /\ Tidy(s) /\ s.entries = r.entries /\ s.nexts = r.nexts
      /\ \A c : c \in s.cursors <=> c \in r.cursors \/ (c # NULL /\ c = all[p].cursor)
      /\ s.complete <=> r.complete /\ ~(all[p].cursor # NULL /\ all[p].cursor \in r.cursors)
  BY <1>2, CursorSeen
<1> HIDE DEF s
<1>4. /\ Tidy(t) /\ t.entries = s.entries /\ t.cursors = s.cursors
      /\ \A c : c \in t.nexts <=> c \in s.nexts \/ (c # NULL /\ c = all[p].next)
      /\ t.complete <=> s.complete /\ ~(all[p].next # NULL /\ all[p].next \in s.nexts)
  BY <1>3, NextSeen
<1> HIDE DEF t
<1>5. \A i \in 1..Len(all) : PageOpened(i, p, 1) <=> PageOpened(i, p, 0) \/ i = p
  BY <1>1 DEF PageOpened
<1>6. ~PageOpened(p, p, 0)
  BY <1>1 DEF PageOpened
<1>7. Taken(all, p, 1) = Taken(all, p, 0)
  <2>1. \A i \in 1..Len(all) : \A j \in 1..Len(all[i].entries) :
          EntryPassed(i, j, p, 1) <=> EntryPassed(i, j, p, 0)
    BY <1>1, ListingFacts DEF EntryPassed
  <2> QED
    BY <2>1 DEF Taken
<1>8. Place(all, p, 1)
  BY <1>1 DEF Place
<1>9. /\ \A c : c \in r.cursors <=>
           c # NULL /\ \E i \in 1..Len(all) : PageOpened(i, p, 0) /\ all[i].cursor = c
      /\ \A c : c \in r.nexts <=>
           c # NULL /\ \E i \in 1..Len(all) : PageOpened(i, p, 0) /\ all[i].next = c
      /\ r.complete <=> WholeSoFar(all, p, 0)
      /\ r.complete => r.entries = Taken(all, p, 0)
  BY DEF LoopInv
<1>10. /\ \A c : c \in t.cursors <=>
            c # NULL /\ \E i \in 1..Len(all) : PageOpened(i, p, 1) /\ all[i].cursor = c
       /\ \A c : c \in t.nexts <=>
            c # NULL /\ \E i \in 1..Len(all) : PageOpened(i, p, 1) /\ all[i].next = c
  BY <1>3, <1>4, <1>5, <1>9
<1>11. t.complete <=>
         /\ WholeSoFar(all, p, 0)
         /\ \A i \in 1..Len(all) : PageOpened(i, p, 0) =>
              /\ all[p].cursor # NULL => all[i].cursor # all[p].cursor
              /\ all[p].next # NULL => all[i].next # all[p].next
  BY <1>3, <1>4, <1>9
<1>12. t.complete <=> WholeSoFar(all, p, 1)
  BY <1>5, <1>6, <1>7, <1>11 DEF WholeSoFar
<1>13. t.complete => t.entries = Taken(all, p, 1)
  BY <1>3, <1>4, <1>7, <1>9
<1> QED
  BY <1>4, <1>8, <1>10, <1>12, <1>13 DEF LoopInv, s, t

\* Taking an entry: one already there is an issue that leaves the result complete,
\* another with its id one that does not.
LEMMA EntryAdded ==
  ASSUME NEW r, Tidy(r), NEW e
  PROVE  LET new == Added(r, e)
         IN  /\ Tidy(new) /\ new.cursors = r.cursors /\ new.nexts = r.nexts
             /\ new.complete <=> /\ r.complete
                                 /\ \A known \in r.entries : known.id = e.id => known = e \/ e \in r.entries
             /\ new.complete => new.entries = r.entries \cup {e}
<1>1. CASE e \in r.entries
  BY <1>1 DEF Added, Note, Tidy, Issues
<1>2. CASE e \notin r.entries /\ \E known \in r.entries : known.id = e.id
  <2>1. Added(r, e) = Reject(r, "conflicting_occurrence")
    BY <1>2 DEF Added
  <2> QED
    BY <1>2, <2>1, RejectedResult DEF Issues
<1>3. CASE e \notin r.entries /\ ~\E known \in r.entries : known.id = e.id
  <2>1. Added(r, e) = [r EXCEPT !.entries = @ \cup {e}]
    BY <1>3 DEF Added
  <2>2. IsFiniteSet(r.entries \cup {e})
    BY FS_AddElement DEF Tidy
  <2> QED
    BY <1>3, <2>1, <2>2 DEF Tidy
<1> QED
  BY <1>1, <1>2, <1>3

LEMMA EntryTaken ==
  ASSUME NEW all, Listing(all), NEW p \in 1..Len(all), NEW k \in 1..Len(all[p].entries),
         NEW r, LoopInv(all, p, k, r)
  PROVE  LoopInv(all, p, k + 1, Added(r, all[p].entries[k]))
<1> DEFINE e == all[p].entries[k]
           new == Added(r, e)
<1>1. Len(all) \in Nat /\ p \in Nat /\ k \in Nat /\ Len(all[p].entries) \in Nat
  BY ListingFacts
<1>2. e \in EntriesOf(all)
  BY ListingFacts
<1>3. Taken(all, p, k + 1) = Taken(all, p, k) \cup {e}
  <2>1. \A i \in 1..Len(all) : \A j \in 1..Len(all[i].entries) :
          EntryPassed(i, j, p, k + 1) <=> EntryPassed(i, j, p, k) \/ (i = p /\ j = k)
    BY <1>1, ListingFacts DEF EntryPassed
  <2> QED
    BY <1>2, <2>1 DEF Taken
<1>4. \A i \in 1..Len(all) : PageOpened(i, p, k + 1) <=> PageOpened(i, p, k)
  BY <1>1 DEF PageOpened
<1>5. Tidy(r)
  BY DEF LoopInv
<1> HIDE DEF e
<1>6. /\ Tidy(new) /\ new.cursors = r.cursors /\ new.nexts = r.nexts
      /\ new.complete <=> /\ r.complete
                          /\ \A known \in r.entries : known.id = e.id => known = e \/ e \in r.entries
      /\ new.complete => new.entries = r.entries \cup {e}
  BY <1>5, EntryAdded
<1> HIDE DEF new
<1>7. Place(all, p, k + 1)
  BY <1>1 DEF Place
<1>8. /\ \A c : c \in r.cursors <=>
           c # NULL /\ \E i \in 1..Len(all) : PageOpened(i, p, k) /\ all[i].cursor = c
      /\ \A c : c \in r.nexts <=>
           c # NULL /\ \E i \in 1..Len(all) : PageOpened(i, p, k) /\ all[i].next = c
      /\ r.complete <=> WholeSoFar(all, p, k)
      /\ r.complete => r.entries = Taken(all, p, k)
  BY DEF LoopInv
<1>9. WholeSoFar(all, p, k) => \A f, g \in Taken(all, p, k) : f.id = g.id => f = g
  BY DEF WholeSoFar
<1>10. new.complete <=>
         WholeSoFar(all, p, k) /\ \A f \in Taken(all, p, k) : f.id = e.id => f = e
  BY <1>6, <1>8, <1>9
<1>11. WholeSoFar(all, p, k + 1) <=>
         WholeSoFar(all, p, k) /\ \A f \in Taken(all, p, k) : f.id = e.id => f = e
  BY <1>3, <1>4 DEF WholeSoFar
<1>12. new.complete => new.entries = Taken(all, p, k + 1)
  BY <1>3, <1>6, <1>8
<1> QED
  BY <1>4, <1>6, <1>7, <1>8, <1>10, <1>11, <1>12 DEF LoopInv, new, e

LEMMA PageEnded ==
  ASSUME NEW all, Listing(all), NEW p \in 1..Len(all), NEW k, k > Len(all[p].entries),
         NEW r, LoopInv(all, p, k, r)
  PROVE  LoopInv(all, p + 1, 0, Linked(r, all, p))
<1> DEFINE new == Linked(r, all, p)
<1>1. /\ Len(all) \in Nat /\ p \in Nat /\ Len(all[p].entries) \in Nat
      /\ k \in Nat /\ k = Len(all[p].entries) + 1
  BY ListingFacts DEF LoopInv, Place
<1>2. Constructed(all[p])
  BY DEF Listing
<1>3. \A i \in 1..Len(all) : PageOpened(i, p + 1, 0) <=> PageOpened(i, p, k)
  BY <1>1 DEF PageOpened
<1>4. Taken(all, p + 1, 0) = Taken(all, p, k)
  <2>1. \A i \in 1..Len(all) : \A j \in 1..Len(all[i].entries) :
          EntryPassed(i, j, p + 1, 0) <=> EntryPassed(i, j, p, k)
    BY <1>1, ListingFacts DEF EntryPassed
  <2> QED
    BY <2>1 DEF Taken
<1>5. Place(all, p + 1, 0)
  <2>1. p + 1 <= Len(all) => Len(all[p + 1].entries) \in Nat
    BY <1>1, ListingFacts
  <2> QED
    BY <1>1, <2>1 DEF Place
<1>6. /\ Tidy(r)
      /\ \A c : c \in r.cursors <=>
           c # NULL /\ \E i \in 1..Len(all) : PageOpened(i, p, k) /\ all[i].cursor = c
      /\ \A c : c \in r.nexts <=>
           c # NULL /\ \E i \in 1..Len(all) : PageOpened(i, p, k) /\ all[i].next = c
      /\ r.complete <=> WholeSoFar(all, p, k)
      /\ r.complete => r.entries = Taken(all, p, k)
  BY DEF LoopInv
<1>7. /\ Tidy(new) /\ new.entries = r.entries /\ new.cursors = r.cursors /\ new.nexts = r.nexts
      /\ new.complete <=> r.complete /\ Joined(all, p)
  <2>1. CASE Joined(all, p)
    <3>1. new = r
      <4>1. CASE p < Len(all)
        BY <2>1, <4>1 DEF Joined, Linked
      <4>2. CASE ~(p < Len(all))
        BY <1>6, <2>1, <4>2 DEF Joined, Linked, Tidy
      <4> QED
        BY <4>1, <4>2
    <3> QED
      BY <1>6, <2>1, <3>1
  <2>2. CASE ~Joined(all, p)
    <3>1. new = Reject(r, "missing_continuation")
      BY <1>2, <2>2 DEF Joined, Linked, Constructed
    <3> QED
      BY <1>6, <2>2, <3>1, RejectedResult DEF Issues
  <2> QED
    BY <2>1, <2>2
<1> HIDE DEF new
<1>8. WholeSoFar(all, p + 1, 0) <=> WholeSoFar(all, p, k) /\ Joined(all, p)
  <2>1. \A i \in 1..Len(all) : i < p + 1 <=> i < p \/ i = p
    BY <1>1
  <2> QED
    BY <1>3, <1>4, <2>1 DEF WholeSoFar
<1> QED
  BY <1>3, <1>4, <1>5, <1>6, <1>7, <1>8 DEF LoopInv, new

LEMMA TakenAll ==
  ASSUME NEW all, Listing(all)
  PROVE  Taken(all, Len(all) + 1, 0) = EntriesOf(all)
<1>1. \A i \in 1..Len(all) : \A j : EntryPassed(i, j, Len(all) + 1, 0)
  BY ListingFacts DEF EntryPassed
<1> QED
  BY <1>1, ListingFacts DEF Taken

\* What is whole after the last page is a chain; only the positions are left.
LEMMA ChainIsWhole ==
  ASSUME NEW all, Listing(all), all # <<>>
  PROVE  WholeSoFar(all, Len(all) + 1, 0) <=>
           /\ all[1].cursor = NULL
           /\ \A i \in 1..(Len(all) - 1) : all[i].next # NULL /\ all[i].next = all[i + 1].cursor
           /\ \A i, j \in 1..Len(all) : all[i].cursor = all[j].cursor => i = j
           /\ all[Len(all)].complete /\ all[Len(all)].next = NULL
           /\ \A e, f \in EntriesOf(all) : e.id = f.id => e = f
<1> DEFINE n == Len(all)
<1>1. n \in Nat /\ n # 0
  BY TupleFacts DEF Listing
<1>2. \A i \in 1..n : PageOpened(i, n + 1, 0) /\ i < n + 1
  BY <1>1 DEF PageOpened
<1>3. (\A i \in 1..n : i < n + 1 => Joined(all, i)) <=>
        /\ \A i \in 1..(n - 1) : all[i].next # NULL /\ all[i].next = all[i + 1].cursor
        /\ all[n].complete /\ all[n].next = NULL
  <2>1. \A i \in 1..n : i < n <=> i \in 1..(n - 1)
    BY <1>1
  <2>2. \A i \in 1..n : i < n \/ i = n
    BY <1>1
  <2>3. n \in 1..n /\ ~(n < n) /\ \A i \in 1..(n - 1) : i \in 1..n /\ i < n
    BY <1>1
  <2> QED
    BY <1>2, <2>1, <2>2, <2>3 DEF Joined
<1>4. ASSUME all[1].cursor = NULL,
             \A i \in 1..(n - 1) : all[i].next # NULL /\ all[i].next = all[i + 1].cursor,
             all[n].next = NULL
      PROVE  (\A i, j \in 1..n : i # j =>
                /\ all[i].cursor # NULL => all[i].cursor # all[j].cursor
                /\ all[i].next # NULL => all[i].next # all[j].next)
             <=> \A i, j \in 1..n : all[i].cursor = all[j].cursor => i = j
  <2>1. ASSUME NEW i \in 1..n
        PROVE  i # 1 => all[i].cursor # NULL
    <3> SUFFICES ASSUME i # 1
                 PROVE  all[i].cursor # NULL
      OBVIOUS
    <3>1. i - 1 \in 1..(n - 1) /\ (i - 1) + 1 = i
      BY <1>1
    <3> QED
      BY <1>4, <3>1
  <2>2. ASSUME \A i, j \in 1..n : i # j =>
                 /\ all[i].cursor # NULL => all[i].cursor # all[j].cursor
                 /\ all[i].next # NULL => all[i].next # all[j].next,
               NEW i \in 1..n, NEW j \in 1..n, all[i].cursor = all[j].cursor, i # j
        PROVE  FALSE
    BY <2>1, <2>2
  <2>3. ASSUME \A i, j \in 1..n : all[i].cursor = all[j].cursor => i = j,
               NEW i \in 1..n, NEW j \in 1..n, i # j,
               all[i].next # NULL, all[i].next = all[j].next
        PROVE  FALSE
    <3>1. i # n /\ j # n
      BY <1>4, <2>3
    <3>2. i \in 1..(n - 1) /\ j \in 1..(n - 1) /\ i + 1 \in 1..n /\ j + 1 \in 1..n
      BY <1>1, <3>1
    <3>3. all[i + 1].cursor = all[j + 1].cursor
      BY <1>4, <2>3, <3>2
    <3>4. i + 1 = j + 1
      BY <2>3, <3>2, <3>3
    <3> QED
      BY <1>1, <2>3, <3>4
  <2> QED
    BY <2>2, <2>3
<1>5. Taken(all, n + 1, 0) = EntriesOf(all)
  BY TakenAll
<1> HIDE DEF n
<1>6. WholeSoFar(all, n + 1, 0) <=>
        /\ all[1].cursor = NULL
        /\ \A i, j \in 1..n : i # j =>
             /\ all[i].cursor # NULL => all[i].cursor # all[j].cursor
             /\ all[i].next # NULL => all[i].next # all[j].next
        /\ \A e, f \in EntriesOf(all) : e.id = f.id => e = f
        /\ \A i \in 1..n : i < n + 1 => Joined(all, i)
  BY <1>2, <1>5 DEF WholeSoFar, n
<1> QED
  BY <1>3, <1>4, <1>6 DEF n

LEMMA Concluded ==
  ASSUME NEW all, Listing(all), all # <<>>, NEW r, LoopInv(all, Len(all) + 1, 0, r)
  PROVE  LET new == IF InPlace(r.entries) THEN r ELSE Reject(r, "missing_continuation")
         IN  /\ new.complete <=> Whole(all)
             /\ new.complete => new.entries = EntriesOf(all)
             /\ new.complete <=> new.issues \subseteq {"duplicate_occurrence"}
<1> DEFINE new == IF InPlace(r.entries) THEN r ELSE Reject(r, "missing_continuation")
<1>1. /\ Tidy(r)
      /\ r.complete <=> WholeSoFar(all, Len(all) + 1, 0)
      /\ r.complete => r.entries = EntriesOf(all)
  BY TakenAll DEF LoopInv
<1>2. /\ Tidy(new) /\ new.entries = r.entries
      /\ new.complete <=> r.complete /\ InPlace(r.entries)
  BY <1>1, RejectedResult DEF Issues
<1> HIDE DEF new
<1>3. IsFiniteSet(r.entries)
  BY <1>1 DEF Tidy
<1>4. \A e \in EntriesOf(all) : e.position \in Nat
  BY ListingFacts
<1>5. ASSUME r.complete
      PROVE  InPlace(r.entries) <=>
               /\ \A e, f \in EntriesOf(all) : e.position = f.position => e = f
               /\ \A e \in EntriesOf(all) :
                    \A k \in 0..e.position : \E f \in EntriesOf(all) : f.position = k
  BY <1>1, <1>3, <1>4, <1>5, InPlaceMeansWhole
<1>6. new.complete <=> Whole(all)
  BY <1>1, <1>2, <1>5, ChainIsWhole DEF Whole
<1> QED
  BY <1>1, <1>2, <1>6 DEF Tidy, new

-----------------------------------------------------------------------------
(* The reader *)

\* What the reader knows while it reads: the pages it has are pages, and the next
\* one starts at a position.
ReaderInv ==
  /\ content \in Seq(Items)
  /\ Listing(pages)
  /\ phase = "reading" => /\ asked \in Nat \cup {NULL}
                          /\ adapter = "offset" => asked \in Nat
  /\ at \in [page : Nat, entry : Nat]
  /\ phase = "collecting" => pages # <<>> /\ LoopInv(pages, at.page, at.entry, result)
  /\ CompleteMeansWhole

\* The answers of a provider, right or wrong.
LEMMA AnswerFacts ==
  ASSUME PageAssumption, content \in Seq(Items), NEW from \in Nat, NEW answer \in Answers(from)
  PROVE  IsTuple(answer.items) /\ answer.next \in Nat \cup {NULL}
<1>1. PageSize \in Nat /\ Len(content) \in Nat
  BY LenProperties DEF PageAssumption
<1>2. CASE honest
  <2>1. answer \in HonestAnswers(from)
    BY <1>2 DEF Answers
  <2>2. CASE from >= Len(content)
    <3>1. answer.items = <<>> /\ answer.next = NULL
      BY <2>1, <2>2 DEF HonestAnswers
    <3> QED
      BY <3>1, EmptySeq DEF IsTuple
  <2>3. CASE ~(from >= Len(content))
    <3> DEFINE n == IF Len(content) < from + PageSize THEN Len(content) - from ELSE PageSize
    <3>1. n \in Nat
      BY <1>1, <2>3
    <3>2. Slice(from) = [k \in 1..n |-> content[from + k]]
      BY DEF Slice
    <3> HIDE DEF n
    <3>3. Slice(from) \in [1..n -> {content[from + k] : k \in 1..n}]
      BY <3>2
    <3>4. IsTuple(Slice(from))
      BY <3>1, <3>3, CountedTuple
    <3>5. answer.items = Slice(from) /\ answer.next \in {NULL, from + PageSize}
      BY <2>1, <2>3 DEF HonestAnswers
    <3> QED
      BY <1>1, <3>4, <3>5
  <2> QED
    BY <2>2, <2>3
<1>3. CASE ~honest
  <2>1. answer \in WrongAnswers
    BY <1>3 DEF Answers
  <2>2. /\ answer.items \in UNION {[1..k -> Strays] : k \in 0..PageSize}
        /\ answer.next \in 0..(2 * PageSize) \cup {NULL}
    BY <2>1 DEF WrongAnswers
  <2>3. PICK k \in 0..PageSize : answer.items \in [1..k -> Strays]
    BY <2>2
  <2>4. k \in Nat
    BY <1>1
  <2>5. IsTuple(answer.items)
    BY <2>3, <2>4, CountedTuple
  <2>6. answer.next \in Nat \cup {NULL}
    BY <1>1, <2>2
  <2> QED
    BY <2>5, <2>6
<1> QED
  BY <1>2, <1>3

\* Entries that are numbered one after another pass the constructor of their page.
LEMMA NumberedPage ==
  ASSUME NEW n \in Nat, NEW start \in Nat, NEW f,
         DOMAIN f = 1..n, f = [k \in 1..n |-> f[k]],
         \A k \in 1..n : f[k].position = start + k - 1,
         NEW cursor, NEW next
  PROVE  Constructed(Page(f, cursor, next))
<1> DEFINE page == Page(f, cursor, next)
<1>1. page.entries = f /\ page.complete = (next = NULL) /\ page.next = next
  BY DEF Page
<1> HIDE DEF page
<1>2. f \in [1..n -> ToSet(f)]
  BY DEF ToSet
<1>3. IsTuple(f) /\ Len(f) = n
  BY <1>2, CountedTuple
<1>4. \A e \in ToSet(f) : e.position \in Nat
  <2>1. \A k \in 1..n : start + k - 1 \in Nat
    OBVIOUS
  <2> QED
    BY <2>1 DEF ToSet
<1>5. \A i, j \in 1..Len(f) : i < j => f[i].position < f[j].position
  BY <1>3
<1> QED
  BY <1>1, <1>3, <1>4, <1>5 DEF Constructed, IsTuple, page

LEMMA OffsetPage ==
  ASSUME NEW items, IsTuple(items), asked \in Nat, NEW cursor, NEW next
  PROVE  Constructed(Page([k \in 1..Len(items) |-> OffsetEntry(k, items[k])], cursor, next))
<1> DEFINE f == [k \in 1..Len(items) |-> OffsetEntry(k, items[k])]
<1>1. Len(items) \in Nat
  BY TupleFacts
<1>2. \A k \in 1..Len(items) : f[k].position = asked + k - 1
  BY DEF OffsetEntry
<1>3. DOMAIN f = 1..Len(items) /\ f = [k \in 1..Len(items) |-> f[k]]
  OBVIOUS
<1> HIDE DEF f
<1>4. Constructed(Page(f, cursor, next))
  BY <1>1, <1>2, <1>3, NumberedPage
<1> QED
  BY <1>4 DEF f

\* The position that a reader of tokens counts.
LEMMA PositionType ==
  ASSUME Listing(pages)
  PROVE  Position \in Nat
<1>1. CASE pages = <<>>
  BY <1>1 DEF Position
<1>2. CASE pages # <<>>
  <2> DEFINE last == pages[Len(pages)].entries
  <2>1. Len(pages) \in 1..Len(pages)
    BY <1>2, TupleFacts DEF Listing
  <2>2. CASE last = <<>>
    BY <1>2, <2>2 DEF Position
  <2>3. CASE last # <<>>
    <3>1. Constructed(pages[Len(pages)])
      BY <2>1 DEF Listing
    <3>2. IsTuple(last) /\ \A e \in ToSet(last) : e.position \in Nat
      BY <3>1 DEF Constructed, IsTuple
    <3> HIDE DEF last
    <3>3. Len(last) \in 1..Len(last)
      BY <2>3, <3>2, TupleFacts
    <3>4. last[Len(last)].position \in Nat
      BY <3>2, <3>3, TupleFacts
    <3>5. Position = last[Len(last)].position + 1
      BY <1>2, <2>3 DEF Position, last
    <3> QED
      BY <3>4, <3>5
  <2> QED
    BY <2>2, <2>3
<1> QED
  BY <1>1, <1>2

LEMMA TokenPage ==
  ASSUME NEW items, IsTuple(items), Listing(pages), NEW cursor, NEW next
  PROVE  Constructed(Page([k \in 1..Len(items) |-> TokenEntry(k, items[k])], cursor, next))
<1> DEFINE f == [k \in 1..Len(items) |-> TokenEntry(k, items[k])]
<1>1. Len(items) \in Nat
  BY TupleFacts
<1>2. \A k \in 1..Len(items) : f[k].position = Position + k - 1
  BY DEF TokenEntry
<1>3. DOMAIN f = 1..Len(items) /\ f = [k \in 1..Len(items) |-> f[k]]
  OBVIOUS
<1>4. Position \in Nat
  BY PositionType
<1> HIDE DEF f
<1>5. Constructed(Page(f, cursor, next))
  BY <1>1, <1>2, <1>3, <1>4, NumberedPage
<1> QED
  BY <1>5 DEF f

LEMMA ListingGrows ==
  ASSUME NEW all, Listing(all), NEW page, Constructed(page)
  PROVE  Listing(Append(all, page)) /\ Append(all, page) # <<>>
<1> DEFINE t == Append(all, page)
<1>1. Len(all) \in Nat
  BY TupleFacts DEF Listing
<1>2. /\ IsTuple(t) /\ Len(t) = Len(all) + 1 /\ t # <<>>
      /\ \A i \in 1..Len(all) : t[i] = all[i]
      /\ t[Len(all) + 1] = page
  BY TupleAppend DEF Listing
<1> HIDE DEF t
<1>3. \A i \in 1..Len(t) : i \in 1..Len(all) \/ i = Len(all) + 1
  BY <1>1, <1>2
<1>4. \A i \in 1..Len(t) : Constructed(t[i])
  BY <1>2, <1>3 DEF Listing
<1> QED
  BY <1>2, <1>4 DEF Listing, t

\* However a stream ends, the loop starts with its invariant, or is over at once.
LEMMA CollectKeepsInv ==
  ASSUME NEW all, Listing(all), Collect(all), pages' = all, content' \in Seq(Items)
  PROVE  ReaderInv'
<1>1. at' \in [page : Nat, entry : Nat] /\ at'.page = 1 /\ at'.entry = 0
  BY DEF Collect, Start
<1>2. CASE all = <<>>
  <2>1. phase' = "collected" /\ result' = Opened(all)
    BY <1>2 DEF Collect
  <2>2. ~result'.complete /\ "no_pages" \in result'.issues
    BY <1>2, <2>1 DEF Opened, Reject, Note, Nothing
  <2>3. ~Whole(pages')
    BY <1>2 DEF Whole
  <2>4. CompleteMeansWhole'
    BY <2>2, <2>3 DEF CompleteMeansWhole
  <2> QED
    BY <1>1, <2>1, <2>4 DEF ReaderInv
<1>3. CASE all # <<>>
  <2>1. phase' = "collecting" /\ result' = Opened(all)
    BY <1>3 DEF Collect
  <2>2. LoopInv(all, 1, 0, Opened(all))
    BY <1>3, LoopStarts
  <2>3. CompleteMeansWhole'
    BY <2>1 DEF CompleteMeansWhole, Done
  <2> QED
    BY <1>1, <1>3, <2>1, <2>2, <2>3 DEF ReaderInv
<1> QED
  BY <1>2, <1>3

LEMMA AcceptKeepsInv ==
  ASSUME ReaderInv, Reading, NEW page, Constructed(page), page.next \in Nat \cup {NULL},
         Accept(page), UNCHANGED environment
  PROVE  ReaderInv'
<1>1. Listing(pages') /\ content' \in Seq(Items)
  BY ListingGrows DEF ReaderInv, Accept, environment
<1>2. CASE page.next = NULL
  <2>1. Collect(pages')
    BY <1>2 DEF Accept
  <2> QED
    BY <1>1, <2>1, CollectKeepsInv
<1>3. CASE page.next # NULL
  <2>1. phase' = "reading" /\ at' = at /\ result' = result /\ asked' = page.next
    BY <1>3 DEF Accept, Reading
  <2>2. asked' \in Nat
    BY <1>3, <2>1
  <2>3. CompleteMeansWhole'
    BY <2>1 DEF CompleteMeansWhole, Done
  <2> QED
    BY <1>1, <2>1, <2>2, <2>3 DEF ReaderInv
<1> QED
  BY <1>2, <1>3

LEMMA RefuseKeepsInv ==
  ASSUME ReaderInv, Refuse, UNCHANGED environment
  PROVE  ReaderInv'
<1>1. phase' = "refused" /\ pages' = pages /\ at' = at /\ content' = content
  BY DEF Refuse, environment
<1>2. CompleteMeansWhole'
  BY <1>1 DEF CompleteMeansWhole, Done
<1> QED
  BY <1>1, <1>2 DEF ReaderInv

LEMMA ReadKeepsInv ==
  ASSUME PageAssumption, ReaderInv, Read
  PROVE  ReaderInv'
<1>1. CASE ReadOffset
  <2>1. Reading /\ asked \in Nat /\ UNCHANGED environment /\ content \in Seq(Items)
    BY <1>1 DEF ReadOffset, ReaderInv, Reading
  <2>2. CASE Refuse
    BY <2>1, <2>2, RefuseKeepsInv
  <2>3. CASE ~Refuse
    <3>1. PICK answer \in Answers(asked) :
            Accept(Page([k \in 1..Len(answer.items) |-> OffsetEntry(k, answer.items[k])],
                        IF pages = <<>> THEN NULL ELSE asked, answer.next))
      BY <1>1, <2>3 DEF ReadOffset
    <3>2. IsTuple(answer.items) /\ answer.next \in Nat \cup {NULL}
      BY <2>1, AnswerFacts
    <3> DEFINE page == Page([k \in 1..Len(answer.items) |-> OffsetEntry(k, answer.items[k])],
                            IF pages = <<>> THEN NULL ELSE asked, answer.next)
    <3>3. Constructed(page)
      BY <2>1, <3>2, OffsetPage
    <3>4. page.next = answer.next /\ Accept(page)
      BY <3>1 DEF Page
    <3> HIDE DEF page
    <3> QED
      BY <2>1, <3>2, <3>3, <3>4, AcceptKeepsInv
  <2> QED
    BY <2>2, <2>3
<1>2. CASE ReadToken
  <2> DEFINE from == IF asked = NULL THEN 0 ELSE asked
  <2>1. Reading /\ from \in Nat /\ UNCHANGED environment /\ content \in Seq(Items) /\ Listing(pages)
    BY <1>2 DEF ReadToken, ReaderInv, Reading
  <2>2. CASE Refuse
    BY <2>1, <2>2, RefuseKeepsInv
  <2>3. CASE ~Refuse
    <3>1. PICK answer \in Answers(from) :
            Accept(Page([k \in 1..Len(answer.items) |-> TokenEntry(k, answer.items[k])],
                        asked, answer.next))
      BY <1>2, <2>3 DEF ReadToken
    <3>2. IsTuple(answer.items) /\ answer.next \in Nat \cup {NULL}
      BY <2>1, AnswerFacts
    <3> DEFINE page == Page([k \in 1..Len(answer.items) |-> TokenEntry(k, answer.items[k])],
                            asked, answer.next)
    <3>3. Constructed(page)
      BY <2>1, <3>2, TokenPage
    <3>4. page.next = answer.next /\ Accept(page)
      BY <3>1 DEF Page
    <3> HIDE DEF page
    <3> QED
      BY <2>1, <3>2, <3>3, <3>4, AcceptKeepsInv
  <2> QED
    BY <2>2, <2>3
<1>3. CASE ReadAny
  <2>1. UNCHANGED environment /\ content' \in Seq(Items) /\ phase = "reading" /\ Listing(pages)
    BY <1>3 DEF ReadAny, ReaderInv, Reading, environment
  <2>2. CASE Refuse
    BY <2>1, <2>2, RefuseKeepsInv
  <2>3. CASE Collect(pages) /\ UNCHANGED <<pages, asked, seen>>
    BY <2>1, <2>3, CollectKeepsInv
  <2>4. CASE (\E page \in AnyPages : pages' = Append(pages, page))
             /\ UNCHANGED <<asked, seen, phase, at, result>>
    <3>1. PICK page \in AnyPages : pages' = Append(pages, page)
      BY <2>4
    <3>2. Listing(pages')
      BY <2>1, <3>1, ListingGrows DEF PageAssumption
    <3>3. adapter' = adapter /\ phase' = "reading" /\ asked' = asked /\ at' = at
      BY <2>1, <2>4 DEF environment
    <3>4. CompleteMeansWhole'
      BY <3>3 DEF CompleteMeansWhole, Done
    <3> QED
      BY <2>1, <3>2, <3>3, <3>4 DEF ReaderInv
  <2> QED
    BY <1>3, <2>2, <2>3, <2>4 DEF ReadAny
<1> QED
  BY <1>1, <1>2, <1>3 DEF Read

LEMMA EditKeepsInv ==
  ASSUME ReaderInv, Edit
  PROVE  ReaderInv'
<1>1. content \in Seq(Items) /\ Len(content) \in Nat
      /\ \A i \in 1..Len(content) : content[i] \in Items
  BY LenProperties, ElementOfSeq DEF ReaderInv
<1>2. content' \in Seq(Items)
  <2>1. ASSUME NEW k \in 1..Len(content), content' = RemoveAt(content, k)
        PROVE  content' \in Seq(Items)
    <3>1. SubSeq(content, 1, k - 1) \in Seq(Items)
      BY <1>1, SubSeqProperties
    <3>2. SubSeq(content, k + 1, Len(content)) \in Seq(Items)
      BY <1>1, SubSeqProperties
    <3> QED
      BY <2>1, <3>1, <3>2, ConcatProperties DEF RemoveAt
  <2>2. ASSUME NEW k \in 1..(Len(content) + 1), NEW item \in Items,
               content' = InsertAt(content, k, item)
        PROVE  content' \in Seq(Items)
    <3>1. SubSeq(content, 1, k - 1) \in Seq(Items)
      BY <1>1, SubSeqProperties
    <3>2. SubSeq(content, k, Len(content)) \in Seq(Items)
      BY <1>1, SubSeqProperties
    <3>3. <<item>> \in Seq(Items)
      OBVIOUS
    <3>4. SubSeq(content, 1, k - 1) \o <<item>> \in Seq(Items)
      BY <3>1, <3>3, ConcatProperties
    <3> QED
      BY <2>2, <3>2, <3>4, ConcatProperties DEF InsertAt
  <2> QED
    BY <2>1, <2>2 DEF Edit
<1>3. UNCHANGED <<adapter, asked, pages, phase, at, result>>
  BY DEF Edit, collector
<1>4. CompleteMeansWhole'
  BY <1>3 DEF ReaderInv, CompleteMeansWhole, Done
<1> QED
  BY <1>2, <1>3, <1>4 DEF ReaderInv

LEMMA LoopKeepsInv ==
  ASSUME ReaderInv, CollectPages
  PROVE  ReaderInv'
<1> USE DEF ReaderInv
<1>1. /\ phase = "collecting" /\ pages # <<>> /\ LoopInv(pages, at.page, at.entry, result)
      /\ UNCHANGED <<pages, content, adapter, asked>>
      /\ at.page \in Nat /\ at.entry \in Nat
      /\ Place(pages, at.page, at.entry) /\ Len(pages) \in Nat /\ Listing(pages)
  BY TupleFacts DEF CollectPages, Loop, BeginPage, TakeEntry, EndPage, Conclude, environment,
                    LoopInv, Listing
<1>2. CASE BeginPage
  <2>1. at.page \in 1..Len(pages) /\ at.entry = 0 /\ phase' = "collecting"
        /\ result' = SeeNext(SeeCursor(result, pages[at.page]), pages[at.page])
        /\ at' \in [page : Nat, entry : Nat] /\ at'.page = at.page /\ at'.entry = 1
    BY <1>1, <1>2 DEF BeginPage, Place
  <2>2. LoopInv(pages, at.page, 1, result')
    BY <1>1, <2>1, PageBegun
  <2> QED
    BY <1>1, <2>1, <2>2 DEF CompleteMeansWhole, Done
<1>3. CASE TakeEntry
  <2>1. at.page \in 1..Len(pages) /\ at.entry \in 1..Len(pages[at.page].entries)
        /\ phase' = "collecting"
        /\ result' = Added(result, pages[at.page].entries[at.entry])
        /\ at' \in [page : Nat, entry : Nat] /\ at'.page = at.page /\ at'.entry = at.entry + 1
    BY <1>1, <1>3 DEF TakeEntry, Place
  <2>2. LoopInv(pages, at.page, at.entry + 1, result')
    BY <1>1, <2>1, EntryTaken
  <2> QED
    BY <1>1, <2>1, <2>2 DEF CompleteMeansWhole, Done
<1>4. CASE EndPage
  <2>1. at.page \in 1..Len(pages) /\ at.entry > Len(pages[at.page].entries)
        /\ phase' = "collecting" /\ result' = Linked(result, pages, at.page)
        /\ at' \in [page : Nat, entry : Nat] /\ at'.page = at.page + 1 /\ at'.entry = 0
    BY <1>1, <1>4 DEF EndPage, Place
  <2>2. LoopInv(pages, at.page + 1, 0, result')
    BY <1>1, <2>1, PageEnded
  <2> QED
    BY <1>1, <2>1, <2>2 DEF CompleteMeansWhole, Done
<1>5. CASE Conclude
  <2>1. phase' = "collected" /\ at' = at
        /\ result' = IF InPlace(result.entries) THEN result
                     ELSE Reject(result, "missing_continuation")
    BY <1>5 DEF Conclude
  <2>2. at.page = Len(pages) + 1 /\ at.entry = 0
    BY <1>1, <1>5 DEF Conclude, Place
  <2>3. LoopInv(pages, Len(pages) + 1, 0, result)
    BY <1>1, <2>2
  <2>4. /\ result'.complete <=> Whole(pages)
        /\ result'.complete => result'.entries = EntriesOf(pages)
        /\ result'.complete <=> result'.issues \subseteq {"duplicate_occurrence"}
    BY <1>1, <2>1, <2>3, Concluded
  <2> QED
    BY <1>1, <2>1, <2>4 DEF CompleteMeansWhole
<1> QED
  BY <1>2, <1>3, <1>4, <1>5 DEF CollectPages, Loop

LEMMA ReaderInit ==
  ASSUME ReadingInit
  PROVE  ReaderInv
<1>1. content \in Seq(Items)
  BY PageAssumption, EmptySeq DEF ReadingInit, PageAssumption
<1>2. Listing(pages)
  BY EmptySeq DEF ReadingInit, Listing, IsTuple
<1>3. phase = "reading" /\ asked \in Nat \cup {NULL} /\ (adapter = "offset" => asked \in Nat)
      /\ at \in [page : Nat, entry : Nat]
  BY DEF ReadingInit, Start
<1> QED
  BY <1>1, <1>2, <1>3 DEF ReaderInv, CompleteMeansWhole, Done

LEMMA ReaderStep ==
  ASSUME ReaderInv, [ReadingNext]_readingVars
  PROVE  ReaderInv'
<1>1. CASE Read
  BY <1>1, PageAssumption, ReadKeepsInv
<1>2. CASE Edit
  BY <1>2, EditKeepsInv
<1>3. CASE CollectPages
  BY <1>3, LoopKeepsInv
<1>4. CASE UNCHANGED readingVars
  BY <1>4 DEF readingVars, collector, ReaderInv, CompleteMeansWhole, Done
<1> QED
  BY <1>1, <1>2, <1>3, <1>4 DEF ReadingNext

LEMMA ReaderInvariant ==
  ReadingSpec => []ReaderInv
<1>1. ReadingInit => ReaderInv
  BY ReaderInit
<1>2. ReaderInv /\ [ReadingNext]_readingVars => ReaderInv'
  BY ReaderStep
<1> QED
  BY <1>1, <1>2, PTL DEF ReadingSpec

\* Whatever adapter delivers whatever pages, and whoever edits the playlist
\* meanwhile, a reading is called complete exactly if its pages form one whole,
\* and then it holds all their entries (collect_playlist_pages).
THEOREM CompleteReadingIsWhole ==
  ReadingSpec => []CompleteMeansWhole
<1>1. ReaderInv => CompleteMeansWhole
  BY DEF ReaderInv
<1> QED
  BY <1>1, ReaderInvariant, PTL

-----------------------------------------------------------------------------
(* Type correctness *)

ShapeInv == ReadingTypeOK /\ (phase = "reading" => at = Start)

LEMMA ShapeKept ==
  ASSUME PageAssumption, ReaderInv, ReaderInv', ShapeInv, [ReadingNext]_readingVars
  PROVE  ShapeInv'
<1> USE DEF ShapeInv, ReadingTypeOK
<1>1. /\ Listing(pages) /\ Listing(pages') /\ Len(pages) \in Nat /\ Len(pages') \in Nat
      /\ content' \in Seq(Items) /\ MaxPages \in Nat /\ MaxEdits \in Nat
      /\ phase' = "collecting" =>
           Tidy(result') /\ Place(pages', at'.page, at'.entry) /\ at'.page \in 1..(Len(pages') + 1)
  BY TupleFacts DEF ReaderInv, LoopInv, Listing, Place, PageAssumption
<1>2. ToSet(content') \subseteq Items
  BY <1>1, ElementOfSeq, LenProperties DEF ToSet
<1>3. \A page \in ToSet(pages') : Constructed(page)
  BY <1>1, TupleFacts DEF Listing
<1>4. ASSUME Collect(pages') PROVE /\ phase' \in {"collecting", "collected"}
                                   /\ at'.page \in 1..(Len(pages') + 1)
                                   /\ result'.complete \in BOOLEAN /\ result'.issues \subseteq Issues
  <2>1. at'.page = 1
    BY <1>4 DEF Collect, Start
  <2>2. Tidy(Nothing)
    BY FS_EmptySet DEF Tidy, Nothing
  <2>3. Tidy(Opened(pages'))
    BY <2>2, RejectedResult DEF Opened, Issues
  <2> QED
    BY <1>1, <1>4, <2>1, <2>3 DEF Collect, Tidy
<1>5. ASSUME Reading, Refuse, UNCHANGED environment
      PROVE  ShapeInv'
  BY <1>2, <1>3, <1>5 DEF Refuse, environment
<1>6. ASSUME Reading, NEW page, Accept(page), Len(pages) < MaxPages, UNCHANGED environment
      PROVE  ShapeInv'
  <2>1. Len(pages') = Len(pages) + 1
    BY <1>1, <1>6, TupleAppend DEF Accept, Listing
  <2>2. CASE page.next = NULL
    BY <1>1, <1>2, <1>3, <1>4, <1>6, <2>1, <2>2 DEF Accept, environment
  <2>3. CASE page.next # NULL
    <3>1. phase' = "reading" /\ at' = Start /\ result' = result /\ Start.page = 1
      BY <1>6, <2>3 DEF Accept, Reading, Start
    <3> QED
      BY <1>1, <1>2, <1>3, <1>6, <2>1, <3>1 DEF environment
  <2> QED
    BY <2>2, <2>3
<1>7. CASE ReadOffset
  <2>1. CASE Refuse
    BY <1>5, <1>7, <2>1 DEF ReadOffset
  <2>2. CASE ~Refuse
    BY <1>6, <1>7, <2>2 DEF ReadOffset, MayAsk
  <2> QED
    BY <2>1, <2>2
<1>8. CASE ReadToken
  <2>1. CASE Refuse
    BY <1>5, <1>8, <2>1 DEF ReadToken
  <2>2. CASE ~Refuse
    BY <1>6, <1>8, <2>2 DEF ReadToken, MayAsk
  <2> QED
    BY <2>1, <2>2
<1>9. CASE ReadAny
  <2>1. Reading /\ UNCHANGED environment
    BY <1>9 DEF ReadAny
  <2>2. CASE Refuse
    BY <1>5, <2>1, <2>2
  <2>3. CASE Collect(pages) /\ UNCHANGED <<pages, asked, seen>>
    <3>1. Collect(pages')
      BY <2>3
    <3>2. phase' # "reading"
      BY <3>1, <1>4
    <3> QED
      BY <1>2, <1>3, <1>4, <2>1, <2>3, <3>1, <3>2 DEF environment
  <2>4. CASE /\ Len(pages) < MaxPages
             /\ \E page \in AnyPages : pages' = Append(pages, page)
             /\ UNCHANGED <<asked, seen, phase, at, result>>
    <3>1. Len(pages') = Len(pages) + 1
      BY <1>1, <2>4, TupleAppend DEF Listing
    <3>2. at'.page = 1
      BY <2>1, <2>4 DEF Reading, Start
    <3> QED
      BY <1>1, <1>2, <1>3, <2>1, <2>4, <3>1, <3>2 DEF environment
  <2> QED
    BY <1>9, <2>2, <2>3, <2>4 DEF ReadAny
<1>10. CASE Edit
  BY <1>1, <1>2, <1>3, <1>10 DEF Edit, collector
<1>11. CASE CollectPages
  <2>1. phase = "collecting" /\ pages' = pages /\ UNCHANGED environment
    BY <1>11 DEF CollectPages, Loop, BeginPage, TakeEntry, EndPage, Conclude
  <2>2. CASE phase' = "collecting"
    BY <1>1, <1>2, <1>3, <2>1, <2>2 DEF environment, Tidy
  <2>3. CASE phase' # "collecting"
    <3>1. Conclude
      BY <1>11, <2>1, <2>3 DEF CollectPages, Loop, BeginPage, TakeEntry, EndPage
    <3>2. Tidy(result) /\ phase' = "collected" /\ at' = at
      BY <2>1, <3>1 DEF Conclude, ReaderInv, LoopInv
    <3>3. Tidy(result')
      BY <3>1, <3>2, RejectedResult DEF Conclude, Issues
    <3> QED
      BY <1>1, <1>2, <1>3, <2>1, <3>2, <3>3 DEF environment, Tidy
  <2> QED
    BY <2>2, <2>3
<1>12. CASE UNCHANGED readingVars
  BY <1>12 DEF readingVars, collector
<1> QED
  BY <1>7, <1>8, <1>9, <1>10, <1>11, <1>12 DEF ReadingNext, Read

LEMMA ShapeInit ==
  ASSUME ReadingInit
  PROVE  ShapeInv
<1>1. content \in Seq(Items) /\ pages = <<>> /\ Len(<<>>) = 0
  BY PageAssumption, EmptySeq DEF ReadingInit, PageAssumption
<1>2. ToSet(content) \subseteq Items
  BY <1>1, ElementOfSeq, LenProperties DEF ToSet
<1>3. ToSet(pages) = {}
  BY <1>1 DEF ToSet
<1>4. at.page = 1 /\ result.complete \in BOOLEAN /\ result.issues \subseteq Issues
  BY DEF ReadingInit, Start, Nothing
<1> QED
  BY <1>1, <1>2, <1>3, <1>4, PageAssumption
  DEF ReadingInit, ShapeInv, ReadingTypeOK, PageAssumption

LEMMA ShapeInvariant ==
  ReadingSpec => []ShapeInv
<1>1. ReadingInit => ShapeInv
  BY ShapeInit
<1>2. ReaderInv /\ ReaderInv' /\ ShapeInv /\ [ReadingNext]_readingVars => ShapeInv'
  BY PageAssumption, ShapeKept
<1> QED
  BY <1>1, <1>2, ReaderInvariant, PTL DEF ReadingSpec

\* Every page passes its constructor, no more pages are read than allowed, and the
\* collector stays within them.
THEOREM ReadingTypeCorrect ==
  ReadingSpec => []ReadingTypeOK
<1>1. ShapeInv => ReadingTypeOK
  BY DEF ShapeInv
<1> QED
  BY <1>1, ShapeInvariant, PTL

-----------------------------------------------------------------------------
(* A reading that nobody disturbs *)

Quiet == honest /\ edits = 0 /\ adapter # "any"

\* The entry an adapter makes of the m-th item of the playlist.
Occurrence(m) ==
  [id |-> IF adapter = "offset" THEN m - 1 ELSE content[m], position |-> m - 1,
   track |-> content[m]]

\* Where the next page of a quiet reading starts.
Offset == Len(pages) * PageSize

\* Each page continues the one before it, further on in the playlist.
Chain(all, bound) ==
  /\ all # <<>> => all[1].cursor = NULL
  /\ \A i \in 2..Len(all) : /\ all[i].cursor \in Nat /\ all[i].cursor < bound
                            /\ all[i].cursor = all[i - 1].next
  /\ \A i, j \in 2..Len(all) : i < j => all[i].cursor < all[j].cursor

HasRead(n) == Chain(pages, Offset) /\ EntriesOf(pages) = {Occurrence(m) : m \in 1..n}

\* While it reads, a quiet reading has the items up to its offset; it is refused only
\* when the playlist is too long, and ends with all of it.
QuietInv ==
  Quiet =>
    /\ IsInjective(content) /\ Len(pages) <= MaxPages
    /\ phase = "reading" =>
         /\ HasRead(Offset) /\ Position = Offset
         /\ pages # <<>> => pages[Len(pages)].next = Offset /\ Offset < Len(content)
         /\ asked = IF pages # <<>> \/ adapter = "offset" THEN Offset ELSE NULL
         /\ seen \subseteq {NULL} \cup 0..(Offset - 1)
         /\ pages = <<>> => seen = {}
    /\ phase = "refused" => Len(content) > MaxPages * PageSize
    /\ phase \in {"collecting", "collected"} =>
         /\ HasRead(Len(content)) /\ pages # <<>>
         /\ pages[Len(pages)].complete /\ pages[Len(pages)].next = NULL
         /\ Len(content) <= MaxPages * PageSize

LEMMA QuietAnswer ==
  ASSUME PageAssumption, content \in Seq(Items), honest, NEW from \in Nat,
         from = 0 \/ from < Len(content), NEW answer \in Answers(from)
  PROVE  LET n == Len(answer.items)
         IN  /\ n \in Nat /\ IsTuple(answer.items)
             /\ \A k \in 1..n : answer.items[k] = content[from + k]
             /\ answer.next = NULL => from + n = Len(content) /\ n <= PageSize
             /\ answer.next # NULL => /\ answer.next = from + PageSize /\ n = PageSize
                                      /\ from + PageSize < Len(content)
<1>1. PageSize \in Nat /\ Len(content) \in Nat /\ NULL \notin Int
  BY LenProperties DEF PageAssumption
<1>2. answer \in HonestAnswers(from)
  BY DEF Answers
<1>3. CASE from >= Len(content)
  <2>1. answer.items = <<>> /\ answer.next = NULL /\ from = Len(content)
    BY <1>1, <1>2, <1>3 DEF HonestAnswers
  <2>2. IsTuple(<<>>) /\ Len(<<>>) = 0
    BY EmptySeq DEF IsTuple
  <2> QED
    BY <1>1, <2>1, <2>2
<1>4. CASE ~(from >= Len(content))
  <2> DEFINE n == IF Len(content) < from + PageSize THEN Len(content) - from ELSE PageSize
             f == [k \in 1..n |-> content[from + k]]
  <2>1. n \in Nat
    BY <1>1, <1>4
  <2>2. answer.items = f
        /\ answer.next = IF from + PageSize < Len(content) THEN from + PageSize ELSE NULL
    BY <1>2, <1>4 DEF HonestAnswers, Slice
  <2>3. /\ from + PageSize < Len(content) => n = PageSize
        /\ ~(from + PageSize < Len(content)) => from + n = Len(content) /\ n <= PageSize
    BY <1>1, <1>4
  <2>4. from + PageSize \in Int
    BY <1>1
  <2> HIDE DEF n
  <2>5. f \in [1..n -> {content[from + k] : k \in 1..n}]
    OBVIOUS
  <2>6. IsTuple(f) /\ Len(f) = n /\ \A k \in 1..n : f[k] = content[from + k]
    BY <2>1, <2>5, CountedTuple
  <2> HIDE DEF f
  <2> QED
    BY <1>1, <2>1, <2>2, <2>3, <2>4, <2>6
<1> QED
  BY <1>3, <1>4

LEMMA EntriesAppend ==
  ASSUME NEW all, Listing(all), NEW page, Constructed(page)
  PROVE  EntriesOf(Append(all, page)) =
           EntriesOf(all) \cup {page.entries[k] : k \in 1..Len(page.entries)}
<1> DEFINE t == Append(all, page)
           n == Len(all)
<1>1. n \in Nat /\ DOMAIN all = 1..n
  BY TupleFacts DEF Listing
<1>2. /\ IsTuple(t) /\ Len(t) = n + 1
      /\ \A i \in 1..n : t[i] = all[i]
      /\ t[n + 1] = page
  BY TupleAppend DEF Listing
<1> HIDE DEF t
<1>3. DOMAIN t = 1..(n + 1) /\ DOMAIN page.entries = 1..Len(page.entries)
  BY <1>2, TupleFacts DEF Constructed, IsTuple
<1>4. 1..(n + 1) = (1..n) \cup {n + 1}
  BY <1>1
<1> HIDE DEF n
<1> DEFINE On(p) == {p.entries[k] : k \in DOMAIN p.entries}
<1>5. EntriesOf(t) = UNION {On(t[i]) : i \in (1..n) \cup {n + 1}}
  BY <1>3, <1>4 DEF EntriesOf
<1>6. EntriesOf(all) = UNION {On(all[i]) : i \in 1..n}
  BY <1>1 DEF EntriesOf
<1>7. On(t[n + 1]) = {page.entries[k] : k \in 1..Len(page.entries)}
  BY <1>2, <1>3
<1>8. \A i \in 1..n : On(t[i]) = On(all[i])
  BY <1>2
<1> HIDE DEF On
<1> QED
  BY <1>5, <1>6, <1>7, <1>8 DEF t

LEMMA ChainAppend ==
  ASSUME NEW all, Listing(all), NEW bound \in Nat, NEW further \in Nat, bound < further,
         Chain(all, bound), all # <<>> => all[Len(all)].next = bound,
         NEW page, page.cursor = IF all = <<>> THEN NULL ELSE bound
  PROVE  Chain(Append(all, page), further)
<1> DEFINE t == Append(all, page)
           n == Len(all)
<1>1. n \in Nat /\ (all = <<>> <=> n = 0)
  BY TupleFacts DEF Listing
<1>2. /\ Len(t) = n + 1
      /\ \A i \in 1..n : t[i] = all[i]
      /\ t[n + 1] = page
  BY TupleAppend DEF Listing
<1> HIDE DEF t
<1>3. t[1].cursor = NULL
  <2>1. CASE n = 0
    BY <1>1, <1>2, <2>1
  <2>2. CASE n # 0
    BY <1>1, <1>2, <2>2 DEF Chain
  <2> QED
    BY <2>1, <2>2
<1>4. ASSUME NEW i \in 2..(n + 1)
      PROVE  /\ t[i].cursor \in Nat /\ t[i].cursor <= bound /\ t[i].cursor = t[i - 1].next
             /\ i <= n => t[i].cursor < bound
             /\ i = n + 1 => t[i].cursor = bound
  <2>1. CASE i <= n
    <3>1. i \in 2..n /\ i \in 1..n /\ i - 1 \in 1..n
      BY <1>1, <2>1
    <3> QED
      BY <1>1, <1>2, <2>1, <3>1 DEF Chain
  <2>2. CASE i = n + 1
    <3>1. i - 1 = n /\ n \in 1..n
      BY <1>1, <2>2
    <3>2. t[i].cursor = bound /\ t[i - 1].next = bound
      BY <1>1, <1>2, <2>2, <3>1
    <3> QED
      BY <1>1, <2>2, <3>2
  <2> QED
    BY <1>1, <2>1, <2>2
<1>5. ASSUME NEW i \in 2..(n + 1), NEW j \in 2..(n + 1), i < j
      PROVE  t[i].cursor < t[j].cursor
  <2>1. CASE j <= n
    <3>1. i \in 2..n /\ j \in 2..n /\ i \in 1..n /\ j \in 1..n
      BY <1>1, <1>5, <2>1
    <3> QED
      BY <1>2, <1>5, <3>1 DEF Chain
  <2>2. CASE j = n + 1
    <3>1. i <= n
      BY <1>1, <1>5, <2>2
    <3> QED
      BY <1>4, <2>2, <3>1
  <2> QED
    BY <1>1, <2>1, <2>2
<1>6. \A i \in 2..(n + 1) : t[i].cursor < further
  BY <1>4
<1> QED
  BY <1>2, <1>3, <1>4, <1>5, <1>6 DEF Chain, t

\* A page of a quiet reading adds the next items of the playlist.
LEMMA QuietAccept ==
  ASSUME PageAssumption, ReaderInv, QuietInv, Quiet, Reading, Len(pages) < MaxPages,
         NEW answer \in Answers(Offset), NEW page, Constructed(page),
         page.next = answer.next, page.complete = (page.next = NULL),
         page.cursor = IF pages = <<>> THEN NULL ELSE Offset,
         Len(page.entries) = Len(answer.items),
         \A k \in 1..Len(page.entries) : page.entries[k] = Occurrence(Offset + k),
         Accept(page), UNCHANGED environment
  PROVE  QuietInv'
<1> DEFINE n == Len(page.entries)
           N == Len(content)
<1>1. /\ PageSize \in Nat /\ PageSize >= 1 /\ MaxPages \in Nat /\ NULL \notin Int
      /\ content \in Seq(Items) /\ N \in Nat /\ Listing(pages) /\ Len(pages) \in Nat
  BY TupleFacts, LenProperties DEF PageAssumption, ReaderInv, Listing
<1>2. /\ IsInjective(content) /\ Chain(pages, Offset)
      /\ EntriesOf(pages) = {Occurrence(m) : m \in 1..Offset}
      /\ pages # <<>> => pages[Len(pages)].next = Offset /\ Offset < N
      /\ asked = IF pages # <<>> \/ adapter = "offset" THEN Offset ELSE NULL
      /\ seen \subseteq {NULL} \cup 0..(Offset - 1)
  BY DEF QuietInv, HasRead, Reading
<1>3. /\ Offset \in Nat /\ (pages = <<>> => Offset = 0)
      /\ (Len(pages) + 1) * PageSize = Offset + PageSize
  <2>1. Offset \in Nat /\ (Len(pages) + 1) * PageSize = Offset + PageSize
    BY <1>1 DEF Offset
  <2>2. pages = <<>> => Offset = 0
    BY <1>1 DEF Offset
  <2> QED
    BY <2>1, <2>2
<1>4. /\ n \in Nat
      /\ answer.next = NULL => Offset + n = N /\ n <= PageSize
      /\ answer.next # NULL => /\ answer.next = Offset + PageSize /\ n = PageSize
                               /\ Offset + PageSize < N
  <2>1. Offset = 0 \/ Offset < N
    BY <1>2, <1>3
  <2> QED
    BY <1>1, <1>3, <2>1, QuietAnswer DEF Quiet
<1>5. /\ pages' = Append(pages, page)
      /\ adapter' = adapter /\ honest' = honest /\ content' = content /\ edits' = edits
  BY DEF Accept, environment
<1>6. /\ Listing(pages') /\ pages' # <<>> /\ Len(pages') = Len(pages) + 1
      /\ pages'[Len(pages) + 1] = page
  BY <1>1, <1>5, ListingGrows, TupleAppend DEF Listing
<1>7. Offset' = Offset + PageSize
  BY <1>3, <1>6, PageAssumption DEF Offset
<1>8. Chain(pages', Offset')
  <2>1. Offset < Offset + PageSize /\ Offset + PageSize \in Nat
    BY <1>1, <1>3
  <2>2. Chain(pages', Offset + PageSize)
    BY <1>1, <1>2, <1>3, <1>5, <2>1, ChainAppend
  <2> QED
    BY <1>7, <2>2
<1>9. \A m : Occurrence(m)' = Occurrence(m)
  BY <1>5 DEF Occurrence
<1>10. EntriesOf(pages') = {Occurrence(m) : m \in 1..(Offset + n)}
  <2>1. EntriesOf(pages') = EntriesOf(pages) \cup {page.entries[k] : k \in 1..n}
    BY <1>1, <1>5, EntriesAppend
  <2>2. {page.entries[k] : k \in 1..n} = {Occurrence(Offset + k) : k \in 1..n}
    OBVIOUS
  <2>3. ASSUME NEW m \in 1..(Offset + n)
        PROVE  m \in 1..Offset \/ \E k \in 1..n : m = Offset + k
    <3>1. m > Offset => m - Offset \in 1..n /\ m = Offset + (m - Offset)
      BY <1>3, <1>4
    <3> QED
      BY <1>3, <3>1
  <2>4. /\ \A m \in 1..Offset : m \in 1..(Offset + n)
        /\ \A k \in 1..n : Offset + k \in 1..(Offset + n)
    BY <1>3, <1>4
  <2> HIDE DEF n
  <2>5. {Occurrence(m) : m \in 1..(Offset + n)} =
          {Occurrence(m) : m \in 1..Offset} \cup {Occurrence(Offset + k) : k \in 1..n}
    BY <2>3, <2>4
  <2> QED
    BY <1>2, <2>1, <2>2, <2>5
<1>11. EntriesOf(pages') = {Occurrence(m)' : m \in 1..(Offset + n)}
  BY <1>9, <1>10
<1>12. CASE page.next = NULL
  <2>1. phase' = "collecting"
    BY <1>6, <1>12 DEF Accept, Collect
  <2>2. HasRead(Len(content))'
    <3>1. EntriesOf(pages') = {Occurrence(m)' : m \in 1..Len(content)'}
      BY <1>4, <1>5, <1>11, <1>12
    <3> QED
      BY <1>8, <3>1 DEF HasRead
  <2>3. pages'[Len(pages')].complete /\ pages'[Len(pages')].next = NULL
    BY <1>6, <1>12
  <2>4. Len(content') <= MaxPages * PageSize
    <3>1. N <= (Len(pages) + 1) * PageSize
      BY <1>1, <1>3, <1>4, <1>12
    <3>2. Len(pages) + 1 <= MaxPages
      BY <1>1
    <3>3. (Len(pages) + 1) * PageSize <= MaxPages * PageSize
      BY <1>1, <3>2, Z3
    <3> QED
      BY <1>1, <1>5, <3>1, <3>3
  <2>5. Len(pages') <= MaxPages
    BY <1>1, <1>6
  <2> QED
    BY <1>2, <1>5, <1>6, <2>1, <2>2, <2>3, <2>4, <2>5 DEF QuietInv
<1>13. CASE page.next # NULL
  <2>1. /\ phase' = "reading" /\ asked' = page.next /\ seen' = seen \cup {asked}
        /\ n = PageSize /\ page.next = Offset + PageSize /\ Offset + PageSize < N
    BY <1>4, <1>13 DEF Accept, Reading
  <2>2. HasRead(Offset)'
    <3>1. EntriesOf(pages') = {Occurrence(m)' : m \in 1..Offset'}
      BY <1>7, <1>11, <2>1
    <3> QED
      BY <1>8, <3>1 DEF HasRead
  <2>3. Position' = Offset'
    <3>1. n \in 1..n /\ page.entries # <<>>
      BY <1>1, <2>1
    <3>2. page.entries[n].position = Offset + n - 1
      <4>1. page.entries[n] = Occurrence(Offset + n)
        BY <3>1
      <4>2. \A m : Occurrence(m).position = m - 1
        BY DEF Occurrence
      <4>3. (Offset + n) - 1 = Offset + n - 1
        BY <1>3, <1>4
      <4> QED
        BY <4>1, <4>2, <4>3
    <3>3. Position' = page.entries[n].position + 1
      BY <1>6, <3>1 DEF Position
    <3> QED
      BY <1>3, <1>4, <1>7, <2>1, <3>2, <3>3
  <2>4. seen' \subseteq {NULL} \cup 0..(Offset' - 1)
    <3>1. asked = NULL \/ asked = Offset
      BY <1>2
    <3>2. Offset \in 0..(Offset' - 1) /\ 0..(Offset - 1) \subseteq 0..(Offset' - 1)
      BY <1>1, <1>3, <1>7
    <3> QED
      BY <1>2, <2>1, <3>1, <3>2
  <2>5. Len(pages') <= MaxPages
    BY <1>1, <1>6
  <2> QED
    BY <1>2, <1>5, <1>6, <1>7, <2>1, <2>2, <2>3, <2>4, <2>5 DEF QuietInv
<1> QED
  BY <1>12, <1>13

\* A quiet reading is refused only when it has as many pages as it may have.
LEMMA QuietRefusal ==
  ASSUME PageAssumption, ReaderInv, QuietInv, Quiet, Reading, ~MayAsk
  PROVE  Len(content) > MaxPages * PageSize
<1>1. /\ PageSize \in Nat /\ MaxPages \in Nat /\ MaxPages # 0 /\ NULL \notin Int
      /\ Len(pages) \in Nat /\ (pages = <<>> <=> Len(pages) = 0)
  BY TupleFacts DEF PageAssumption, ReaderInv, Listing
<1>2. /\ Len(pages) <= MaxPages
      /\ pages # <<>> => Offset < Len(content)
      /\ asked = IF pages # <<>> \/ adapter = "offset" THEN Offset ELSE NULL
      /\ seen \subseteq {NULL} \cup 0..(Offset - 1)
      /\ pages = <<>> => seen = {}
  BY DEF QuietInv, Reading
<1>3. Offset \in Nat
  BY <1>1 DEF Offset
<1>4. asked \notin seen
  BY <1>1, <1>2, <1>3
<1>5. Len(pages) = MaxPages
  BY <1>1, <1>2, <1>4 DEF MayAsk
<1> QED
  BY <1>1, <1>2, <1>5 DEF Offset

LEMMA QuietRefuse ==
  ASSUME Quiet, IsInjective(content), Len(pages) <= MaxPages,
         Len(content) > MaxPages * PageSize, Refuse, UNCHANGED environment
  PROVE  QuietInv'
  BY DEF QuietInv, Refuse, environment

LEMMA QuietRead ==
  ASSUME PageAssumption, ReaderInv, QuietInv, Quiet, Read
  PROVE  QuietInv'
<1>1. Reading /\ UNCHANGED environment /\ content \in Seq(Items) /\ Listing(pages)
      /\ IsInjective(content) /\ Len(pages) <= MaxPages
  BY DEF Read, ReadOffset, ReadToken, ReadAny, ReaderInv, QuietInv
<1>2. /\ PageSize \in Nat /\ PageSize >= 1 /\ NULL \notin Int /\ Len(content) \in Nat
      /\ Len(pages) \in Nat /\ (pages = <<>> <=> Len(pages) = 0)
  BY <1>1, TupleFacts, LenProperties DEF PageAssumption, Listing
<1>3. /\ pages # <<>> => Offset < Len(content)
      /\ asked = IF pages # <<>> \/ adapter = "offset" THEN Offset ELSE NULL
      /\ Position = Offset
  BY <1>1 DEF QuietInv, Reading
<1>4. Offset \in Nat /\ (pages = <<>> => Offset = 0)
  <2>1. Offset \in Nat
    BY <1>2 DEF Offset
  <2>2. pages = <<>> => Offset = 0
    BY <1>2 DEF Offset
  <2> QED
    BY <2>1, <2>2
<1>5. CASE ~MayAsk
  <2>1. Refuse
    BY <1>5 DEF Quiet, Read, ReadOffset, ReadToken, ReadAny
  <2> QED
    BY <1>1, <1>5, <2>1, QuietRefusal, QuietRefuse
<1>6. ASSUME MayAsk, NEW answer \in Answers(Offset)
      PROVE  /\ ~(answer.next # NULL /\ answer.items = <<>>)
             /\ answer.next = NULL \/ answer.next = Offset + Len(answer.items)
             /\ \A k \in 1..Len(answer.items) : answer.items[k] = content[Offset + k]
             /\ IsTuple(answer.items) /\ Len(answer.items) \in Nat
  <2>1. Offset = 0 \/ Offset < Len(content)
    BY <1>3, <1>4
  <2>2. LET n == Len(answer.items)
        IN  /\ n \in Nat /\ IsTuple(answer.items)
            /\ \A k \in 1..n : answer.items[k] = content[Offset + k]
            /\ answer.next # NULL => answer.next = Offset + PageSize /\ n = PageSize
    BY <1>1, <1>4, <1>6, <2>1, QuietAnswer DEF Quiet
  <2>3. answer.items = <<>> => Len(answer.items) = 0
    BY <2>2, TupleFacts
  <2> QED
    BY <1>2, <2>2, <2>3
<1>7. CASE MayAsk /\ ReadOffset
  <2>1. adapter = "offset" /\ asked = Offset
    BY <1>3, <1>7 DEF ReadOffset
  <2>2. PICK answer \in Answers(Offset) :
          Accept(Page([k \in 1..Len(answer.items) |-> OffsetEntry(k, answer.items[k])],
                      IF pages = <<>> THEN NULL ELSE asked, answer.next))
    BY <1>6, <1>7, <2>1 DEF ReadOffset, Continues
  <2> DEFINE f == [k \in 1..Len(answer.items) |-> OffsetEntry(k, answer.items[k])]
             page == Page(f, IF pages = <<>> THEN NULL ELSE asked, answer.next)
  <2>3. Constructed(page)
    BY <1>4, <1>6, <1>7, <2>1, OffsetPage
  <2>4. Len(f) = Len(answer.items)
    <3>1. f \in [1..Len(answer.items) -> {f[k] : k \in 1..Len(answer.items)}]
      OBVIOUS
    <3> HIDE DEF f
    <3> QED
      BY <1>6, <1>7, <3>1, CountedTuple
  <2>5. \A k \in 1..Len(answer.items) : f[k] = Occurrence(Offset + k)
    <3> SUFFICES ASSUME NEW k \in 1..Len(answer.items)
                 PROVE  f[k] = Occurrence(Offset + k)
      OBVIOUS
    <3>1. f[k] = OffsetEntry(k, content[Offset + k])
      BY <1>6, <1>7
    <3>2. k \in Int /\ (Offset + k) - 1 = Offset + k - 1
      BY <1>4
    <3> QED
      BY <2>1, <3>1, <3>2 DEF OffsetEntry, Occurrence
  <2> HIDE DEF f
  <2>6. /\ page.entries = f /\ page.next = answer.next /\ page.complete = (page.next = NULL)
        /\ page.cursor = IF pages = <<>> THEN NULL ELSE Offset
    BY <2>1 DEF Page
  <2>7. Accept(page)
    BY <2>2 DEF f
  <2> HIDE DEF page
  <2> QED
    BY <1>1, <1>7, <2>3, <2>4, <2>5, <2>6, <2>7, QuietAccept DEF MayAsk
<1>8. CASE MayAsk /\ ReadToken
  <2>1. adapter # "offset" /\ asked = IF pages = <<>> THEN NULL ELSE Offset
    BY <1>3, <1>8 DEF ReadToken
  <2>2. (IF asked = NULL THEN 0 ELSE asked) = Offset
    BY <1>2, <1>4, <2>1
  <2>3. PICK answer \in Answers(Offset) :
          Accept(Page([k \in 1..Len(answer.items) |-> TokenEntry(k, answer.items[k])],
                      asked, answer.next))
    BY <1>6, <1>8, <2>2 DEF ReadToken, Quiet
  <2> DEFINE f == [k \in 1..Len(answer.items) |-> TokenEntry(k, answer.items[k])]
             page == Page(f, asked, answer.next)
  <2>4. Constructed(page)
    BY <1>1, <1>6, <1>8, TokenPage
  <2>5. Len(f) = Len(answer.items)
    <3>1. f \in [1..Len(answer.items) -> {f[k] : k \in 1..Len(answer.items)}]
      OBVIOUS
    <3> HIDE DEF f
    <3> QED
      BY <1>6, <1>8, <3>1, CountedTuple
  <2>6. \A k \in 1..Len(answer.items) : f[k] = Occurrence(Offset + k)
    <3> SUFFICES ASSUME NEW k \in 1..Len(answer.items)
                 PROVE  f[k] = Occurrence(Offset + k)
      OBVIOUS
    <3>1. f[k] = TokenEntry(k, content[Offset + k])
      BY <1>6, <1>8
    <3>2. k \in Int /\ (Offset + k) - 1 = Offset + k - 1
      BY <1>4
    <3> QED
      BY <1>3, <2>1, <3>1, <3>2 DEF TokenEntry, Occurrence
  <2> HIDE DEF f
  <2>7. /\ page.entries = f /\ page.next = answer.next /\ page.complete = (page.next = NULL)
        /\ page.cursor = IF pages = <<>> THEN NULL ELSE Offset
    BY <2>1 DEF Page
  <2>8. Accept(page)
    BY <2>3 DEF f
  <2> HIDE DEF page
  <2> QED
    BY <1>1, <1>8, <2>4, <2>5, <2>6, <2>7, <2>8, QuietAccept DEF MayAsk
<1>9. ~ReadAny
  BY DEF Quiet, ReadAny
<1> QED
  BY <1>5, <1>7, <1>8, <1>9 DEF Read

LEMMA QuietLoop ==
  ASSUME QuietInv, CollectPages
  PROVE  QuietInv'
<1>1. /\ phase = "collecting" /\ phase' \in {"collecting", "collected"}
      /\ UNCHANGED <<adapter, honest, content, edits, pages>>
  BY DEF CollectPages, Loop, BeginPage, TakeEntry, EndPage, Conclude, environment
<1>2. Offset' = Offset /\ \A m : Occurrence(m)' = Occurrence(m)
  BY <1>1 DEF Offset, Occurrence
<1>3. HasRead(Len(content)) => HasRead(Len(content))'
  BY <1>1, <1>2 DEF HasRead
<1> QED
  BY <1>1, <1>3 DEF QuietInv, Quiet

\* A quiet reading that has ended has the whole playlist.
LEMMA QuietIsWhole ==
  ASSUME PageAssumption, ReaderInv, QuietInv, Quiet, Done
  PROVE  /\ Whole(pages)
         /\ EntriesOf(pages) = {Occurrence(m) : m \in 1..Len(content)}
<1> DEFINE N == Len(content)
           n == Len(pages)
<1>1. N \in Nat /\ n \in Nat /\ n # 0 /\ NULL \notin Int
      /\ DOMAIN content = 1..N /\ IsInjective(content)
      /\ Chain(pages, Offset) /\ pages # <<>>
      /\ EntriesOf(pages) = {Occurrence(m) : m \in 1..N}
      /\ pages[n].complete /\ pages[n].next = NULL
  BY TupleFacts, LenProperties DEF PageAssumption, ReaderInv, QuietInv, HasRead, Done, Listing
<1>2. pages[1].cursor = NULL
  BY <1>1 DEF Chain
<1>3. ASSUME NEW i \in 1..(n - 1)
      PROVE  pages[i].next # NULL /\ pages[i].next = pages[i + 1].cursor
  <2>1. i + 1 \in 2..n /\ (i + 1) - 1 = i
    BY <1>1
  <2>2. pages[i + 1].cursor \in Nat /\ pages[i + 1].cursor = pages[(i + 1) - 1].next
    BY <1>1, <2>1 DEF Chain
  <2> QED
    BY <1>1, <2>1, <2>2
<1>4. ASSUME NEW i \in 1..n, NEW j \in 1..n, pages[i].cursor = pages[j].cursor
      PROVE  i = j
  <2>1. \A k \in 1..n : k = 1 \/ k \in 2..n
    BY <1>1
  <2>2. \A k \in 2..n : pages[k].cursor \in Nat /\ pages[k].cursor # NULL
    BY <1>1 DEF Chain
  <2>3. \A k, l \in 2..n : k < l => pages[k].cursor < pages[l].cursor
    BY <1>1 DEF Chain
  <2>4. CASE i = 1 \/ j = 1
    BY <1>2, <1>4, <2>1, <2>2, <2>4
  <2>5. CASE i \in 2..n /\ j \in 2..n
    <3>1. ~(i < j) /\ ~(j < i)
      BY <1>4, <2>2, <2>3, <2>5
    <3> QED
      BY <1>1, <3>1
  <2> QED
    BY <2>1, <2>4, <2>5
<1>5. ASSUME NEW l \in 1..N, NEW m \in 1..N,
             Occurrence(l).id = Occurrence(m).id \/ Occurrence(l).position = Occurrence(m).position
      PROVE  Occurrence(l) = Occurrence(m)
  <2>1. Occurrence(l).position = l - 1 /\ Occurrence(m).position = m - 1
    BY DEF Occurrence
  <2>2. /\ Occurrence(l).id = IF adapter = "offset" THEN l - 1 ELSE content[l]
        /\ Occurrence(m).id = IF adapter = "offset" THEN m - 1 ELSE content[m]
    BY DEF Occurrence
  <2>3. content[l] = content[m] => l = m
    BY <1>1 DEF IsInjective
  <2>4. l - 1 = m - 1 => l = m
    BY <1>1
  <2> QED
    BY <1>5, <2>1, <2>2, <2>3, <2>4
<1>6. ASSUME NEW m \in 1..N, NEW k \in 0..Occurrence(m).position
      PROVE  \E f \in EntriesOf(pages) : f.position = k
  <2>1. Occurrence(m).position = m - 1 /\ Occurrence(k + 1).position = (k + 1) - 1
    BY DEF Occurrence
  <2>2. k + 1 \in 1..N /\ (k + 1) - 1 = k
    BY <1>1, <2>1
  <2> QED
    BY <1>1, <2>1, <2>2
<1>7. \A e, f \in EntriesOf(pages) : e.id = f.id \/ e.position = f.position => e = f
  BY <1>1, <1>5
<1>8. \A e \in EntriesOf(pages) :
        \A k \in 0..e.position : \E f \in EntriesOf(pages) : f.position = k
  BY <1>1, <1>6
<1> QED
  BY <1>1, <1>2, <1>3, <1>4, <1>7, <1>8 DEF Whole

LEMMA QuietInvariant ==
  ReadingSpec => [](edits \in Nat /\ QuietInv)
<1> DEFINE Inv == edits \in Nat /\ QuietInv
<1>1. ReadingInit => Inv
  <2> SUFFICES ASSUME ReadingInit
               PROVE  Inv
    OBVIOUS
  <2>1. /\ pages = <<>> /\ phase = "reading" /\ seen = {} /\ edits = 0
        /\ asked = IF adapter = "offset" THEN 0 ELSE NULL
    BY DEF ReadingInit
  <2>2. PageSize \in Nat /\ MaxPages \in Nat /\ Len(pages) = 0
    BY <2>1, PageAssumption, EmptySeq DEF PageAssumption
  <2>3. Offset = 0
    BY <2>2 DEF Offset
  <2>4. Chain(pages, Offset)
    BY <2>1, <2>2 DEF Chain
  <2>5. EntriesOf(pages) = {} /\ 1..Offset = {}
    <3>1. DOMAIN pages = {}
      BY <2>1
    <3> QED
      BY <2>3, <3>1 DEF EntriesOf
  <2>6. HasRead(Offset)
    BY <2>4, <2>5 DEF HasRead
  <2>7. Position = Offset
    BY <2>1, <2>3 DEF Position
  <2>8. Quiet => IsInjective(content)
    BY PageAssumption DEF ReadingInit, Quiet, PageAssumption
  <2> QED
    BY <2>1, <2>2, <2>3, <2>6, <2>7, <2>8 DEF QuietInv
<1>2. Inv /\ ReaderInv /\ [ReadingNext]_readingVars => Inv'
  <2> SUFFICES ASSUME Inv, ReaderInv, [ReadingNext]_readingVars
               PROVE  Inv'
    OBVIOUS
  <2>1. CASE Read
    <3>1. edits' = edits /\ (Quiet' => Quiet)
      BY <2>1 DEF Read, ReadOffset, ReadToken, ReadAny, environment, Quiet
    <3>2. Quiet => QuietInv'
      BY <2>1, PageAssumption, QuietRead
    <3>3. ~Quiet' => QuietInv'
      BY DEF QuietInv
    <3> QED
      BY <3>1, <3>2, <3>3
  <2>2. CASE Edit
    <3>1. edits' = edits + 1
      BY <2>2 DEF Edit
    <3>2. edits' \in Nat /\ edits' # 0
      BY <3>1
    <3> QED
      BY <3>2 DEF QuietInv, Quiet
  <2>3. CASE CollectPages
    BY <2>3, QuietLoop DEF CollectPages, environment
  <2>4. CASE UNCHANGED readingVars
    <3>1. UNCHANGED <<adapter, honest, content, edits, asked, seen, pages, phase>>
      BY <2>4 DEF readingVars, collector
    <3>2. /\ Offset' = Offset /\ Position' = Position /\ Quiet' = Quiet
          /\ \A m : Occurrence(m)' = Occurrence(m)
      BY <3>1 DEF Offset, Position, Quiet, Occurrence
    <3>3. \A n : HasRead(n) => HasRead(n)'
      BY <3>1, <3>2 DEF HasRead
    <3> QED
      BY <3>1, <3>2, <3>3 DEF QuietInv
  <2> QED
    BY <2>1, <2>2, <2>3, <2>4 DEF ReadingNext
<1> QED
  BY <1>1, <1>2, ReaderInvariant, PTL DEF ReadingSpec

\* Read from a provider that answers correctly while nobody edits it, a playlist of
\* any length arrives complete and in order if it fits the page limit, and is
\* refused otherwise (spotify_playlist_reader, apple_music, youtube).
THEOREM QuietReading ==
  ReadingSpec => []QuietReadIsFaithful
<1>1. ReaderInv /\ QuietInv => QuietReadIsFaithful
  <2> SUFFICES ASSUME ReaderInv, QuietInv, Quiet, phase \in {"refused", "collected"}
               PROVE  IF Len(content) > MaxPages * PageSize THEN phase = "refused"
                      ELSE /\ Done /\ result.complete
                           /\ {<<e.position, e.track>> : e \in result.entries} =
                                {<<k - 1, content[k]>> : k \in 1..Len(content)}
    BY DEF QuietReadIsFaithful, Quiet
  <2>1. CASE phase = "refused"
    BY <2>1 DEF QuietInv
  <2>2. CASE phase = "collected"
    <3>1. ~(Len(content) > MaxPages * PageSize)
      <4>1. Len(content) \in Nat /\ MaxPages * PageSize \in Nat
        BY PageAssumption, LenProperties DEF PageAssumption, ReaderInv
      <4>2. Len(content) <= MaxPages * PageSize
        BY <2>2 DEF QuietInv
      <4> QED
        BY <4>1, <4>2
    <3>2. result.complete /\ result.entries = EntriesOf(pages)
      BY <2>2, PageAssumption, QuietIsWhole DEF ReaderInv, CompleteMeansWhole, Done
    <3>3. result.entries = {Occurrence(m) : m \in 1..Len(content)}
      BY <2>2, <3>2, PageAssumption, QuietIsWhole DEF Done
    <3>4. \A m : Occurrence(m).position = m - 1 /\ Occurrence(m).track = content[m]
      BY DEF Occurrence
    <3>5. {<<e.position, e.track>> : e \in result.entries} =
            {<<k - 1, content[k]>> : k \in 1..Len(content)}
      BY <3>3, <3>4
    <3> QED
      BY <2>2, <3>1, <3>2, <3>5 DEF Done
  <2> QED
    BY <2>1, <2>2
<1> QED
  BY <1>1, ReaderInvariant, QuietInvariant, PTL

-----------------------------------------------------------------------------
(***************************************************************************)
(* No reading goes round in circles: what is ahead of it, read as four     *)
(* digits, gets smaller with every step of the reader.  This is why        *)
(* ReadEnds holds, for any page limit and any pages; that a reader which   *)
(* has not ended has a step to take is ENABLED and is left to TLC.         *)
(***************************************************************************)

StagesAhead == IF phase = "reading" THEN 2 ELSE IF phase = "collecting" THEN 1 ELSE 0

PagesToRead == MaxPages - Len(pages)

PagesToCollect == Len(pages) + 1 - at.page

EntriesToTake ==
  IF phase = "collecting" /\ at.page <= Len(pages)
  THEN Len(pages[at.page].entries) + 1 - at.entry ELSE 0

Ahead == <<StagesAhead, PagesToRead, PagesToCollect, EntriesToTake>>

AheadIsNatural ==
  /\ StagesAhead \in 0..2 /\ PagesToRead \in 0..MaxPages
  /\ PagesToCollect \in Nat /\ EntriesToTake \in Nat

Nearer ==
  \/ StagesAhead' < StagesAhead
  \/ /\ StagesAhead' = StagesAhead
     /\ \/ PagesToRead' < PagesToRead
        \/ /\ PagesToRead' = PagesToRead
           /\ \/ PagesToCollect' < PagesToCollect
              \/ PagesToCollect' = PagesToCollect /\ EntriesToTake' < EntriesToTake

LEMMA AheadType ==
  ASSUME ReaderInv, ShapeInv
  PROVE  AheadIsNatural
<1>1. Len(pages) \in Nat /\ Len(pages) <= MaxPages /\ MaxPages \in Nat
  BY PageAssumption, TupleFacts DEF ReaderInv, Listing, ShapeInv, ReadingTypeOK, PageAssumption
<1>2. at.page \in 1..(Len(pages) + 1)
  BY DEF ShapeInv, ReadingTypeOK
<1>3. EntriesToTake \in Nat
  <2>1. CASE phase = "collecting" /\ at.page <= Len(pages)
    <3>1. /\ at.entry \in Nat /\ at.entry <= Len(pages[at.page].entries) + 1
          /\ Constructed(pages[at.page])
      BY <1>1, <1>2, <2>1 DEF ReaderInv, LoopInv, Place, Listing
    <3>2. Len(pages[at.page].entries) \in Nat
      BY <3>1, TupleFacts DEF Constructed, IsTuple
    <3> QED
      BY <2>1, <3>1, <3>2 DEF EntriesToTake
  <2>2. CASE ~(phase = "collecting" /\ at.page <= Len(pages))
    BY <2>2 DEF EntriesToTake
  <2> QED
    BY <2>1, <2>2
<1> QED
  BY <1>1, <1>2, <1>3 DEF AheadIsNatural, StagesAhead, PagesToRead, PagesToCollect

\* A step that leaves the stage behind.
LEMMA StageLeft ==
  ASSUME \/ phase = "reading" /\ phase' \in {"refused", "collecting", "collected"}
         \/ phase = "collecting" /\ phase' = "collected"
  PROVE  Nearer
  BY DEF Nearer, StagesAhead

\* A step that reads another page.
LEMMA PageRead ==
  ASSUME ReaderInv, NEW page, pages' = Append(pages, page), UNCHANGED phase
  PROVE  Nearer
<1>1. Len(pages') = Len(pages) + 1 /\ Len(pages) \in Nat /\ MaxPages \in Nat
  BY PageAssumption, TupleAppend, TupleFacts DEF ReaderInv, Listing, PageAssumption
<1> QED
  BY <1>1 DEF Nearer, StagesAhead, PagesToRead

LEMMA AcceptNearer ==
  ASSUME ReaderInv, Reading, NEW page, Accept(page)
  PROVE  Nearer
<1>1. CASE page.next = NULL
  BY <1>1, StageLeft DEF Accept, Collect, Reading
<1>2. CASE page.next # NULL
  BY <1>2, PageRead DEF Accept
<1> QED
  BY <1>1, <1>2

LEMMA ReadNearer ==
  ASSUME ReaderInv, Read
  PROVE  Nearer
<1>1. ASSUME Reading, Refuse PROVE Nearer
  BY <1>1, StageLeft DEF Refuse, Reading
<1>2. CASE ReadOffset
  <2>1. Reading /\ (Refuse \/ \E page : Accept(page))
    BY <1>2 DEF ReadOffset
  <2> QED
    BY <1>1, <2>1, AcceptNearer
<1>3. CASE ReadToken
  <2>1. Reading /\ (Refuse \/ \E page : Accept(page))
    BY <1>3 DEF ReadToken
  <2> QED
    BY <1>1, <2>1, AcceptNearer
<1>4. CASE ReadAny
  <2>1. \/ \E page \in AnyPages : pages' = Append(pages, page) /\ UNCHANGED phase
        \/ Reading /\ Collect(pages)
        \/ Reading /\ Refuse
    BY <1>4 DEF ReadAny
  <2>2. ASSUME Reading, Collect(pages) PROVE Nearer
    BY <2>2, StageLeft DEF Collect, Reading
  <2> QED
    BY <1>1, <2>1, <2>2, PageRead
<1> QED
  BY <1>2, <1>3, <1>4 DEF Read

LEMMA CollectNearer ==
  ASSUME ReaderInv, CollectPages
  PROVE  Nearer
<1>1. /\ phase = "collecting" /\ Listing(pages) /\ Place(pages, at.page, at.entry)
      /\ at \in [page : Nat, entry : Nat]
      /\ Len(pages) \in Nat /\ MaxPages \in Nat
  BY PageAssumption, TupleFacts
  DEF CollectPages, Loop, BeginPage, TakeEntry, EndPage, Conclude, ReaderInv, LoopInv, Listing,
      PageAssumption
<1>2. CASE Conclude
  BY <1>1, <1>2, StageLeft DEF Conclude
<1>3. CASE BeginPage \/ TakeEntry
  <2>1. /\ UNCHANGED <<pages, phase>> /\ at.page \in 1..Len(pages)
        /\ at' = [at EXCEPT !.entry = @ + 1]
    BY <1>1, <1>3 DEF BeginPage, TakeEntry, Place
  <2>2. Len(pages[at.page].entries) \in Nat
    BY <1>1, <2>1, TupleFacts DEF Listing, Constructed, IsTuple
  <2>3. at'.page = at.page /\ at'.entry = at.entry + 1
    BY <1>1, <2>1
  <2>4. EntriesToTake' < EntriesToTake
    BY <1>1, <2>1, <2>2, <2>3 DEF EntriesToTake
  <2>5. UNCHANGED <<StagesAhead, PagesToRead, PagesToCollect>>
    BY <2>1, <2>3 DEF StagesAhead, PagesToRead, PagesToCollect
  <2> QED
    BY <2>4, <2>5 DEF Nearer
<1>4. CASE EndPage
  <2>1. UNCHANGED <<pages, phase>> /\ at'.page = at.page + 1
    BY <1>4 DEF EndPage
  <2>2. PagesToCollect' < PagesToCollect
    BY <1>1, <2>1 DEF PagesToCollect
  <2>3. UNCHANGED <<StagesAhead, PagesToRead>>
    BY <2>1 DEF StagesAhead, PagesToRead
  <2> QED
    BY <2>2, <2>3 DEF Nearer
<1> QED
  BY <1>2, <1>3, <1>4 DEF CollectPages, Loop

\* However wrong the provider is and whoever edits the playlist, every step of the
\* reader and of the collector brings the end of the reading nearer, and an edit does
\* not push it away: no reader is kept busy by repeated tokens or endless pages.
THEOREM ReadingRunsDown ==
  ReadingSpec => /\ []AheadIsNatural
                 /\ [][/\ Read \/ CollectPages => Nearer
                       /\ Edit => UNCHANGED Ahead]_readingVars
<1>1. ReaderInv /\ ShapeInv => AheadIsNatural
  BY AheadType
<1>2. ReaderInv => /\ Read \/ CollectPages => Nearer
                   /\ Edit => UNCHANGED Ahead
  <2>1. Edit => UNCHANGED Ahead
    BY DEF Edit, collector, Ahead, StagesAhead, PagesToRead, PagesToCollect, EntriesToTake
  <2> QED
    BY <2>1, ReadNearer, CollectNearer
<1> QED
  BY <1>1, <1>2, ReaderInvariant, ShapeInvariant, PTL DEF ReadingSpec
=============================================================================
