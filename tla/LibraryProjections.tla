------------------------- MODULE LibraryProjections -------------------------
(***************************************************************************)
(* The snapshots of one imported playlist and the pointer to the current   *)
(* one (infrastructure/sqlite_library.py).  A snapshot is bound to its     *)
(* content once; its time of observation decides whether it becomes        *)
(* current.  Each operator is one transaction of the projection database.  *)
(***************************************************************************)
EXTENDS Integers, SqlNull

CONSTANTS
  Snapshots,     \* snapshot identifiers
  ObservedAt     \* snapshot -> published_at, the time it was observed

ASSUME SnapshotAssumption == NULL \notin Snapshots
ASSUME ObservedAssumption == ObservedAt \in [Snapshots -> Int]

VARIABLES
  snapshots,    \* snapshot -> its content, or NULL
  current       \* the current snapshot, or NULL

library == <<snapshots, current>>

EmptyLibrary ==
  /\ snapshots = [s \in Snapshots |-> NULL]
  /\ current = NULL

\* Fault: an identifier is bound again, to whatever was read.
NeverBound(s, content) == FALSE

\* SnapshotConflictError.
BoundToOther(s, content) == snapshots[s] \notin {NULL, content}

\* Fault: the snapshot published last becomes current.
AlwaysSupersedes(s) == TRUE

Supersedes(s) == current = NULL \/ ObservedAt[s] > ObservedAt[current]

\* A repetition finds its snapshot and changes nothing.
Publish(s, content) ==
  /\ ~BoundToOther(s, content)
  /\ IF snapshots[s] = content THEN UNCHANGED library
     ELSE /\ snapshots' = [snapshots EXCEPT ![s] = content]
          /\ current' = IF Supersedes(s) THEN s ELSE current

-----------------------------------------------------------------------------
(* Properties *)

Published == {s \in Snapshots : snapshots[s] # NULL}

\* Whatever the order in which imports finish and repeat their publication, the
\* current snapshot is one that was observed last.
CurrentIsNewest ==
  IF Published = {} THEN current = NULL
  ELSE /\ current \in Published
       /\ \A s \in Published : ObservedAt[s] <= ObservedAt[current]

\* A published snapshot keeps its content, and the library never goes back to an
\* older observation, nor to another one of the same time.
LibraryOnlyAdvances ==
  [][/\ \A s \in Published : snapshots'[s] = snapshots[s]
     /\ current' # current =>
          current = NULL \/ ObservedAt[current'] > ObservedAt[current]]_library
=============================================================================
