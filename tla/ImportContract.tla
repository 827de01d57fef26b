-------------------------- MODULE ImportContract ---------------------------
(***************************************************************************)
(* What an import promises its user and the library, without workers,      *)
(* leases, pages or retries.  Only while somebody works on it does it put  *)
(* its snapshot there, once, and not after a cancellation was accepted.    *)
(* The library keeps what it has and never shows an older observation in   *)
(* place of a newer one.  A success is one that is there, nothing ends as  *)
(* cancelled that nobody cancelled, and an outcome is final.               *)
(***************************************************************************)
EXTENDS Integers, SqlNull

CONSTANTS
  Mine,          \* the snapshot of this import
  Snapshots,     \* all snapshots of the playlist
  ObservedAt     \* snapshot -> the time it was observed

VARIABLES
  shelf,      \* snapshot -> its content, or NULL
  shown,      \* the snapshot users see, or NULL
  busy,       \* does somebody work on the import?
  asked,      \* is a cancellation pending?
  outcome     \* how the import ended, or NULL

vars == <<shelf, shown, busy, asked, outcome>>

Ends == {"succeeded", "partial", "failed", "cancelled"}

Init ==
  /\ shelf = [s \in Snapshots |-> NULL] /\ shown = NULL
  /\ busy = FALSE /\ asked = FALSE /\ outcome = NULL

Underway == outcome = NULL

Start ==
  /\ Underway /\ ~asked /\ ~busy /\ busy' = TRUE
  /\ UNCHANGED <<shelf, shown, asked, outcome>>

\* To try again later, to ask the user, or for good without a word.
Pause ==
  /\ busy /\ busy' = FALSE
  /\ UNCHANGED <<shelf, shown, asked, outcome>>

Newer(s) == shown = NULL \/ ObservedAt[s] > ObservedAt[shown]

Add(s) ==
  /\ shelf[s] = NULL /\ shelf'[s] # NULL
  /\ shelf' = [shelf EXCEPT ![s] = shelf'[s]]
  /\ shown' = IF Newer(s) THEN s ELSE shown
  /\ UNCHANGED <<busy, asked, outcome>>

Publish == Underway /\ busy /\ ~asked /\ Add(Mine)

\* Other imports of the playlist publish at any time.
PublishOther(s) == s # Mine /\ Add(s)

\* Who is at work gets to know of it; otherwise the import ends at once.
Cancel ==
  /\ Underway /\ ~asked
  /\ \/ busy /\ asked' = TRUE /\ UNCHANGED outcome
     \/ ~busy /\ outcome' = "cancelled" /\ UNCHANGED asked
  /\ UNCHANGED <<shelf, shown, busy>>

\* A cancellation may come too late, for a success as well.
End(end) ==
  /\ Underway /\ busy /\ busy' = FALSE
  /\ outcome' = end /\ asked' = FALSE
  /\ end = "succeeded" => shelf[Mine] # NULL
  /\ end = "cancelled" => asked
  /\ UNCHANGED <<shelf, shown>>

\* Whoever was at work is gone; the user says how far the import came.
Resolve ==
  /\ Underway /\ ~busy /\ asked /\ asked' = FALSE
  /\ outcome' = IF shelf[Mine] = NULL THEN "cancelled" ELSE "partial"
  /\ UNCHANGED <<shelf, shown, busy>>

Next ==
  \/ Start \/ Pause \/ Publish \/ Cancel \/ Resolve
  \/ \E s \in Snapshots : PublishOther(s)
  \/ \E end \in Ends : End(end)

Spec == Init /\ [][Next]_vars
=============================================================================
