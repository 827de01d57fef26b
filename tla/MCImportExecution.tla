------------------------- MODULE MCImportExecution -------------------------
(***************************************************************************)
(* Two workers import a playlist of up to MaxPages pages; another import   *)
(* observes it later than this one and may publish earlier.                *)
(***************************************************************************)
EXTENDS ImportExecution

CONSTANT Later

MCSnapshots == {Mine, Later}

MCObservedAt == [s \in MCSnapshots |-> IF s = Later THEN 2 ELSE 1]

MCStoredAttempts == {-1, 0}
=============================================================================
